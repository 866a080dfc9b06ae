SPECIFICATION FairSpec
CONSTANTS
    p1 = p1
    p2 = p2
    s1 = s1
    s2 = s2
    n1 = n1
    n2 = n2
    codeA = codeA
    codeB = codeB
    Purchases = {p1, p2}
    Sales = {s1, s2}
    CreditNotes = {n1, n2}
    Codes = {codeA, codeB}
    CodeOf <- SharedCode
    NoteCode <- TwoNotes
    NoteNumber <- SameNumber
    OrderOf <- Orders
    CreatedAt <- Instants
    Dates = {1}
    Quantities = {1, 2}
    Costs = {5}
    ExtraAmounts = {0}
    MaxExtra = 0
    MaxLock = 0
    MaxCogs = 1
    MaxCrashes = 0
    Concurrent = TRUE
    MergeProps = TRUE
    NoSale = NoSale
INVARIANTS
    StockConserved
    CostConserved
PROPERTIES
    Terminates
