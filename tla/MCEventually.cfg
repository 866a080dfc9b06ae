SPECIFICATION FairSpec
CONSTANTS
    purchase = purchase
    sale = sale
    lateSale = lateSale
    noteTx = noteTx
    cost = cost
    foreign = foreign
    Txs = {purchase, sale, lateSale, cost}
    PropsOf <- Properties
    DateOf <- TxDates
    Foreign = {}
    Slots = {h1, h2}
    MaxEvents = 1
    MaxFailures = 0
    OneAtATime = TRUE
    QuietRuns = TRUE
    NoTx = NoTx
PROPERTIES
    RefinesFairPromise
