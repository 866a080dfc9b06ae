SPECIFICATION DeletionSpec
CONSTANTS
    p1 = p1
    p2 = p2
    s1 = s1
    s2 = s2
    n1 = n1
    codeA = codeA
    codeB = codeB
    Purchases = {p1, p2}
    Sales = {s1, s2}
    CreditNotes = {}
    Codes = {codeA, codeB}
    CodeOf <- OwnCodes
    NoteCode <- NoNote
    NoteNumber <- NoNote
    OrderOf <- Orders
    CreatedAt <- Instants
    Dates = {1, 2}
    Quantities = {1, 2}
    Costs = {5}
    ExtraAmounts = {1}
    MaxExtra = 0
    MaxLock = 0
    MaxCogs = 1
    MaxCrashes = 0
    Concurrent = FALSE
    MergeProps = TRUE
    NoSale = NoSale
    Edits = {"purchase"}
    DebitIncoming = {s1}
    HandTicked = {}
    Prompt = {}
    MaxFailures = 0
INVARIANTS
    DeletedPurchaseFlagged
