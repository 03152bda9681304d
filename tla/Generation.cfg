SPECIFICATION Spec
CONSTANTS
  None = None
  i1 = i1
  j1 = j1
  j2 = j2
  job = job
  g1 = g1
  g2 = g2
  Invoicing = {i1}
  Journals = {j1, j2}
  Generators = {job, g1, g2}
  Jobs = {job}
  Serves <- MCServes
  Frequencies = {"WEEKLY", "MONTHLY"}
  Week = 1
  FirstDay <- MCFirstDay
  LastMonth = 3
  Start = 2
  Horizon = 3
  Firsts = {2}
  Ends = {2,4}
  Locks = {2}
  MaxTemplates = 2
  MaxByHand = 2
  MaxFailures = 1
INVARIANTS GenTypeOK NoPeriodSkipped GeneratedOnce CountsDocuments
CHECK_DEADLOCK FALSE
PROPERTIES NoTemplateStarves
