SPECIFICATION FairSpec
CONSTANTS
    purchase = purchase
    sale = sale
    lateSale = lateSale
    noteTx = noteTx
    cost = cost
    foreign = foreign
    Txs = {purchase, sale}
    PropsOf <- NoInvoice
    DateOf <- TxDates
    Foreign = {}
    Slots = {h1}
    MaxEvents = 1
    MaxFailures = 0
    OneAtATime = TRUE
    QuietRuns = TRUE
    NoTx = NoTx
PROPERTIES
    SaleReplicated
