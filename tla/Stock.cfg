SPECIFICATION Spec
CONSTANTS
    p1 = p1
    p2 = p2
    Product = {p1, p2}
    Warehouse = {w1, w2}
    Order = {o1}
    Clerks = {c1, c2}
    Quantities = {5998}
    Needs <- MCNeeds
    Main = w1
    Opening <- MCOpening
    MaxRequests = 3
    None = None
SYMMETRY MCSymmetry
INVARIANTS StockTypeOK LevelAddsUp MovementsAddUp OrdersCovered
CHECK_DEADLOCK FALSE
