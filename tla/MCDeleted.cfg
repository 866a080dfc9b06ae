SPECIFICATION DeletionSpec
CONSTANTS
    p1 = p1
    p2 = p2
    s1 = s1
    s2 = s2
    n1 = n1
    codeA = codeA
    codeB = codeB
    Purchases = {p1}
    Sales = {s1}
    CreditNotes = {n1}
    Codes = {codeA}
    CodeOf <- OwnCodes
    NoteCode <- OneNote
    NoteNumber <- OneNumber
    OrderOf <- Orders
    CreatedAt <- Instants
    Dates = {1, 2}
    Quantities = {1, 3}
    Costs = {5}
    ExtraAmounts = {0}
    MaxExtra = 0
    MaxLock = 0
    MaxCogs = 1
    MaxCrashes = 0
    Concurrent = FALSE
    MergeProps = TRUE
    NoSale = NoSale
    Edits = {"purchase", "sale", "creditNote", "additionalCost", "cogs", "goods", "posted", "ticked"}
    DebitIncoming = {s1}
    HandTicked = {p1, s1, n1}
    Prompt <- PromptHandlers
    MaxFailures = 1
INVARIANTS
    DeletionTypeOK
    ResetRepairs
    NothingDangling
    UnflaggedTieOut
    UnflaggedStock
