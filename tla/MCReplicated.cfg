SPECIFICATION Spec
CONSTANTS
    purchase = purchase
    sale = sale
    lateSale = lateSale
    noteTx = noteTx
    cost = cost
    foreign = foreign
    Txs = {purchase, sale, lateSale, noteTx, foreign}
    PropsOf <- Properties
    DateOf <- TxDates
    Foreign = {foreign, noteTx}
    Slots = {h1, h2}
    MaxEvents = 1
    MaxFailures = 1
    OneAtATime = TRUE
    QuietRuns = TRUE
    NoTx = NoTx
INVARIANTS
    HandlersTypeOK
    AtMostOnce
    PurchaseHasBook
    BackdatedFlagged
PROPERTIES
    RefinesPromise
    StaleCopyHarmless
