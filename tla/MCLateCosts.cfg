SPECIFICATION Spec
CONSTANTS
    p1 = p1
    p2 = p2
    s1 = s1
    s2 = s2
    n1 = n1
    n2 = n2
    codeA = codeA
    codeB = codeB
    Purchases = {p1, p2}
    Sales = {s1, s2}
    CreditNotes = {}
    Codes = {codeA, codeB}
    CodeOf <- OwnCodes
    NoteCode <- NoNote
    NoteNumber <- NoNote
    OrderOf <- Orders
    CreatedAt <- Instants
    Dates = {1, 2}
    Quantities = {1}
    Costs = {5}
    ExtraAmounts = {1}
    MaxExtra = 1
    MaxLock = 0
    MaxCogs = 1
    MaxCrashes = 0
    Concurrent = FALSE
    MergeProps = TRUE
    NoSale = NoSale
INVARIANTS
    ExtrasAccounted
