SPECIFICATION Spec
CONSTANTS
    Asset = {a1}
    Clerks = {c1, c2}
    Cost = 5
    Plans <- MCPlans
    Openings = {2}
    MaxRequests = 5
    None = None
INVARIANTS AssetTypeOK ValueAddsUp Backed BooksAgree
PROPERTIES DisposalStands
CHECK_DEADLOCK FALSE
