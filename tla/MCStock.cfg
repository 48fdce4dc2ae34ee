SPECIFICATION Spec
CONSTANTS
    i1 = i1
    i2 = i2
    Items = {i1, i2}
    Existing = {i2}
    Requests = {r1, r2}
    DocIds = {d1, d2}
    LineLists <- MCLineLists
    Ops = {"sale", "updateSale", "voidSale", "saleReturn", "purchase", "updatePurchase", "voidPurchase", "purchaseReturn", "complete", "adjust", "delete"}
    NoObject = noObject
    NoDoc = noDoc
    MaxRows = 3
INVARIANTS
    TypeOK
    FreshRowsChain
    MovementsAddUp
    KeptSalesStayAboveZero
PROPERTIES
    DeletedItemsRest
SYMMETRY MCSymmetry
