SPECIFICATION Spec
CONSTANTS
    p1 = p1
    p2 = p2
    s1 = s1
    s2 = s2
    n1 = n1
    n2 = n2
    codeA = codeA
    codeB = codeB
    Purchases = {p1, p2}
    Sales = {s1, s2}
    CreditNotes = {n1}
    Codes = {codeA, codeB}
    CodeOf <- OwnCodes
    NoteCode <- OneNote
    NoteNumber <- OneNumber
    OrderOf <- Orders
    CreatedAt <- Instants
    Dates = {1}
    Quantities = {1, 2}
    Costs = {5}
    ExtraAmounts = {1}
    MaxExtra = 1
    MaxLock = 0
    MaxCogs = 1
    MaxCrashes = 1
    Concurrent = TRUE
    MergeProps = TRUE
    NoSale = NoSale
INVARIANTS
    ResetLeavesNoCogs
    StockNeverUndercounted
    ResetRestores
    CogsOnlyForCostedSales
    EverySaleCosted
PROPERTIES
    FlagKept
