----------------------------- MODULE CostOfSales -----------------------------
(***************************************************************************)
(* The cost-of-sales engine of the menu server: calculation and reset of   *)
(* the cost of goods sold of one good account, run against the Inventory   *)
(* Book and the Financial Book while the event bot keeps replicating the   *)
(* financial transactions that users check.                                *)
(*                                                                         *)
(* A script run is a sequence of calls to Bkper. Every call is a step, so  *)
(* a run works on copies read earlier, handlers may fire between its       *)
(* calls, and it may die after any of them (a time limit, a failed call).  *)
(*                                                                         *)
(* Data. Quantities are whole units (the Inventory Book has no fraction    *)
(* digits); costs are integers, in units of the last decimal place that    *)
(* Amount.div keeps. The splits of a purchase are its children in the      *)
(* Inventory Book. They are created checked and trashed all together, so   *)
(* their number is abstracted and their totals are kept. A reset unchecks  *)
(* those that credit notes made one call before it trashes them; if it     *)
(* dies in between, the next calculation takes them for purchases.         *)
(***************************************************************************)
EXTENDS Integers, Sequences, FiniteSets, FiniteSetsExt, FifoOrder

CONSTANTS
    Purchases,     \* good purchase transactions
    Sales,         \* sale transactions
    CreditNotes,   \* credit note transactions
    Codes,         \* values of purchase_code
    CodeOf,        \* purchase_code of a purchase
    NoteCode,      \* purchase_code a credit note refers to
    NoteNumber,    \* credit_note number of a credit note
    OrderOf,       \* order property of a purchase or sale, 0 for none
    CreatedAt,     \* instant at which a purchase or sale was recorded
    Dates,         \* dates of transactions, as numbers
    Quantities,    \* quantities of purchases, sales and credit notes
    Costs,         \* amounts of purchases
    ExtraAmounts,  \* amounts of additional costs and of credits
    MaxExtra,      \* bound on the extra amounts recorded for one code
    MaxLock,       \* last date up to which the books may be closed
    MaxCogs,       \* no calculation starts once a sale has more costs of sales
    MaxCrashes,    \* bound on the script runs that die half-way
    Concurrent,    \* do handlers fire while a script run is in progress?
    MergeProps,    \* does updating an account keep properties not sent?
    NoSale

NoDate == 0

ASSUME DataAssumption ==
    /\ Dates \subseteq Nat \ {NoDate}
    /\ Quantities \subseteq Nat \ {0}
    /\ Costs \subseteq Nat
    /\ ExtraAmounts \subseteq Nat

ASSUME NameAssumption ==
    /\ CodeOf \in [Purchases -> Codes]
    /\ NoteCode \in [CreditNotes -> Codes]
    /\ DOMAIN NoteNumber = CreditNotes
    /\ OrderOf \in [Purchases \cup Sales -> Int]
    /\ CreatedAt \in [Purchases \cup Sales -> Nat]
    /\ NoSale \notin Sales

ASSUME FiniteAssumption ==
    IsFiniteSet(Purchases) /\ IsFiniteSet(Sales) /\ IsFiniteSet(CreditNotes)

ASSUME BoundAssumption ==
    /\ MaxExtra \in Nat /\ MaxLock \in Nat /\ MaxCogs \in Nat /\ MaxCrashes \in Nat
    /\ Concurrent \in BOOLEAN /\ MergeProps \in BOOLEAN

VARIABLES
    \* Inventory Book
    buy,       \* root purchase transactions
    splits,    \* totals of the split children of each root purchase
    sell,      \* sale transactions
    note,      \* credit note transactions
    status,    \* the good account: absent, bare (no groups), grouped
    props,     \* its needs_rebuild and cogs_calc_date properties
    \* Financial Book
    cogs,      \* cost of goods sold transactions of each sale
    extras,    \* additional costs and credits checked for each purchase code
    lockDate,  \* transactions up to this date are locked
    \* the script run in progress
    pc,        \* the next call of the run
    copy,      \* the account properties the run has read
    local,     \* its copies of the purchases
    queue,     \* what it still has to process
    current,   \* the sale at hand, what of it is still to be costed, its cost
    plan,      \* the batches its processor has collected
    crashes,
    torn       \* history: has a run died when credit note splits were unchecked?

books == <<buy, splits, sell, note, status, props, cogs, extras, lockDate>>
run == <<copy, local, queue, current, plan>>
vars == <<books, pc, run, crashes, torn>>
------------------------------------------------------------------------------
(* State *)

\* The units in the splits of a purchase and what they cost; the units in those
\* made by credit notes, and in those of them that are unchecked.
Totals == [quantity : Nat, cost : Int, credited : Nat, loose : Nat]
NoTotals == [quantity |-> 0, cost |-> 0, credited |-> 0, loose |-> 0]

\* seen stands for the properties additional_costs and credit_note being set;
\* addCosts and creditAmount for what they say. basis is history: the cost of
\* the purchase when a sale first drew on it.
PurchaseRecords ==
    [posted : BOOLEAN, date : Nat, quantity : Nat, cost : Nat,
     amount : Nat, totalCost : Int, checked : BOOLEAN,
     seen : BOOLEAN, addCosts : Nat, creditAmount : Nat, basis : Int]

NoPurchase ==
    [posted |-> FALSE, date |-> NoDate, quantity |-> 0, cost |-> 0,
     amount |-> 0, totalCost |-> 0, checked |-> FALSE,
     seen |-> FALSE, addCosts |-> 0, creditAmount |-> 0, basis |-> 0]

\* Sales and credit notes. logged: the properties purchase_log and total_cost
\* of a sale are set; bot: the bot posted it, not a user in the Inventory Book.
\* A credit note is checked when it has been applied.
SaleRecords ==
    [posted : BOOLEAN, date : Nat, quantity : Nat, checked : BOOLEAN,
     logged : BOOLEAN, bot : BOOLEAN]
NoSaleEntry ==
    [posted |-> FALSE, date |-> NoDate, quantity |-> 0, checked |-> FALSE,
     logged |-> FALSE, bot |-> FALSE]

EntryRecords == [posted : BOOLEAN, date : Nat, quantity : Nat, checked : BOOLEAN]
NoEntry == [posted |-> FALSE, date |-> NoDate, quantity |-> 0, checked |-> FALSE]

Props == [needsRebuild : BOOLEAN, calcDate : Nat]
NoProps == [needsRebuild |-> FALSE, calcDate |-> NoDate]

\* splits: the purchases of buys of which it is not the root that was listed but
\* an unchecked split.
Queues ==
    [buys : SUBSET Purchases, splits : SUBSET Purchases, sales : SUBSET Sales,
     notes : SUBSET CreditNotes, lastDate : Nat]
EmptyQueue ==
    [buys |-> {}, splits |-> {}, sales |-> {}, notes |-> {}, lastDate |-> NoDate]

CurrentSales == [sale : Sales \cup {NoSale}, sold : Nat, cost : Int]
NoCurrentSale == [sale |-> NoSale, sold |-> 0, cost |-> 0]

\* The maps of CalculateCostOfSalesProcessor and ResetCostOfSalesProcessor.
Plans ==
    [splits : [Purchases -> Totals], trash : SUBSET Purchases,
     buys : SUBSET Purchases, sells : SUBSET Sales, notes : SUBSET CreditNotes,
     cogs : SUBSET Sales, cost : [Sales -> Int], locked : BOOLEAN]
EmptyPlan ==
    [splits |-> [p \in Purchases |-> NoTotals], trash |-> {},
     buys |-> {}, sells |-> {}, notes |-> {},
     cogs |-> {}, cost |-> [s \in Sales |-> 0], locked |-> FALSE]

NoCopies == [p \in Purchases |-> NoPurchase]

Calls ==
    {"idle", "list", "credits", "sales", "purchases", "createInventory",
     "updateInventory", "createFinancial", "storeDate", "reset", "resetList",
     "trashFinancial", "restoreInventory", "trashInventory", "clearAccount"}

TypeOK ==
    /\ buy \in [Purchases -> PurchaseRecords]
    /\ splits \in [Purchases -> Totals]
    /\ sell \in [Sales -> SaleRecords]
    /\ note \in [CreditNotes -> EntryRecords]
    /\ status \in {"absent", "bare", "grouped"}
    /\ props \in Props
    /\ cogs \in [Sales -> Seq(Int)]
    /\ extras \in [Codes -> [add : Nat, credit : Nat]]
    /\ lockDate \in Nat
    /\ pc \in Calls
    /\ copy \in Props
    /\ local \in [Purchases -> PurchaseRecords]
    /\ queue \in Queues
    /\ current \in CurrentSales
    /\ plan \in Plans
    /\ crashes \in Nat
    /\ torn \in BOOLEAN

Init ==
    /\ buy = [p \in Purchases |-> NoPurchase]
    /\ splits = [p \in Purchases |-> NoTotals]
    /\ sell = [s \in Sales |-> NoSaleEntry]
    /\ note = [n \in CreditNotes |-> NoEntry]
    /\ status = "absent"
    /\ props = NoProps
    /\ cogs = [s \in Sales |-> <<>>]
    /\ extras = [c \in Codes |-> [add |-> 0, credit |-> 0]]
    /\ lockDate = 0
    /\ pc = "idle"
    /\ copy = NoProps
    /\ local = NoCopies
    /\ queue = EmptyQueue
    /\ current = NoCurrentSale
    /\ plan = EmptyPlan
    /\ crashes = 0
    /\ torn = FALSE

Locked(date) == date <= lockDate

\* Account.update(): the properties stored after sending the copy sent, of
\* which the keys in cleared were deleted. Whether Bkper keeps the stored
\* properties that are not sent is not visible in the repository.
UpdateProps(stored, sent, cleared) ==
    [needsRebuild |->
        \/ sent.needsRebuild
        \/ MergeProps /\ stored.needsRebuild /\ "needsRebuild" \notin cleared,
     calcDate |->
        IF sent.calcDate # NoDate THEN sent.calcDate
        ELSE IF MergeProps /\ "calcDate" \notin cleared THEN stored.calcDate
        ELSE NoDate]
------------------------------------------------------------------------------
(* The event bot: EventHandlerTransactionChecked, one step per event.       *)

HandlersMayRun == Concurrent \/ pc = "idle"

CanRecord(entry, date) == HandlersMayRun /\ ~entry.posted /\ ~Locked(date)

\* Mutant: a transaction dated on the very day of the calculation is let pass.
checkLastTxDate_Strict(stored, read, date) ==
    IF read.calcDate # NoDate /\ date < read.calcDate
    THEN UpdateProps(stored, [read EXCEPT !.needsRebuild = TRUE], {})
    ELSE stored

\* The stored account properties after a handler whose copy of the account is
\* read has posted a transaction: a date that a calculation has already passed
\* flags the account for rebuild.
checkLastTxDate(stored, read, date) ==
    IF read.calcDate # NoDate /\ date <= read.calcDate
    THEN UpdateProps(stored, [read EXCEPT !.needsRebuild = TRUE], {})
    ELSE stored

\* A purchase writes the properties and groups of the financial account over
\* those of an existing inventory account (the objects compared are never
\* identical).
checkInventoryAccount(stored) == UpdateProps(stored, NoProps, {})

\* Created with the groups of the financial account, or without any group: the
\* groups carry the exchange code that leads to the Financial Book.
createConnectedInventoryAccountOnPurchase == "grouped"
createConnectedInventoryAccountOnSale == "bare"

NewPurchase(quantity, cost, date) ==
    [posted |-> TRUE, date |-> date, quantity |-> quantity, cost |-> cost,
     amount |-> quantity, totalCost |-> cost, checked |-> FALSE,
     seen |-> FALSE, addCosts |-> 0, creditAmount |-> 0, basis |-> cost]

PostPurchase(p, quantity, cost, date) ==
    /\ CanRecord(buy[p], date)
    /\ buy' = [buy EXCEPT ![p] = NewPurchase(quantity, cost, date)]
    /\ status' = createConnectedInventoryAccountOnPurchase
    /\ props' = LET stored == IF status = "absent" THEN props
                              ELSE checkInventoryAccount(props)
                IN  checkLastTxDate(stored, props, date)
    /\ UNCHANGED <<splits, sell, note, cogs, extras, lockDate, pc, run, crashes, torn>>

PostSale(s, quantity, date) ==
    /\ CanRecord(sell[s], date)
    /\ sell' = [sell EXCEPT ![s] = [posted |-> TRUE, date |-> date, quantity |-> quantity,
                                    checked |-> FALSE, logged |-> FALSE, bot |-> TRUE]]
    /\ status' = IF status = "absent" THEN createConnectedInventoryAccountOnSale
               ELSE status
    /\ props' = checkLastTxDate(props, props, date)
    /\ UNCHANGED <<buy, splits, note, cogs, extras, lockDate, pc, run, crashes, torn>>

\* The financial transaction behind a credit note carries the credited amount.
PostCreditNote(n, quantity, amount, date) ==
    /\ CanRecord(note[n], date)
    /\ extras[NoteCode[n]].credit + amount <= MaxExtra
    /\ note' = [note EXCEPT ![n] = [posted |-> TRUE, date |-> date,
                                    quantity |-> quantity, checked |-> FALSE]]
    /\ extras' = [extras EXCEPT ![NoteCode[n]].credit = @ + amount]
    /\ status' = IF status = "absent" THEN createConnectedInventoryAccountOnPurchase
               ELSE status
    /\ props' = checkLastTxDate(props, props, date)
    /\ UNCHANGED <<buy, splits, sell, cogs, lockDate, pc, run, crashes, torn>>

\* Checking an additional cost or a credit without quantity changes only the
\* Financial Book: the handler returns when the quantity is missing.
RecordAdditionalCost(code, amount) ==
    /\ HandlersMayRun
    /\ extras[code].add + amount <= MaxExtra
    /\ extras' = [extras EXCEPT ![code].add = @ + amount]
    /\ UNCHANGED <<buy, splits, sell, note, status, props, cogs, lockDate, pc, run, crashes, torn>>

RecordCredit(code, amount) ==
    /\ HandlersMayRun
    /\ extras[code].credit + amount <= MaxExtra
    /\ extras' = [extras EXCEPT ![code].credit = @ + amount]
    /\ UNCHANGED <<buy, splits, sell, note, status, props, cogs, lockDate, pc, run, crashes, torn>>

\* The user closes both books up to a date.
CloseBooks(date) ==
    /\ pc = "idle"
    /\ lockDate < date /\ date <= MaxLock
    /\ lockDate' = date
    /\ UNCHANGED <<buy, splits, sell, note, status, props, cogs, extras, pc, run, crashes, torn>>
------------------------------------------------------------------------------
(* calculateCostOfSalesForAccount                                           *)

\* A split that a credit note made has the date of its purchase, and no order.
PurchaseKey(p) ==
    [date |-> buy[p].date, order |-> IF p \in queue.splits THEN 0 ELSE OrderOf[p],
     createdAt |-> CreatedAt[p]]
SaleKey(s) ==
    [date |-> sell[s].date, order |-> OrderOf[s], createdAt |-> CreatedAt[s]]

\* Mutant: the purchases are not sorted.
OldestPurchases_Unsorted(P) == P

\* The first elements of a set, in FIFO order.
OldestPurchases(P) ==
    {p \in P : \A r \in P : compareToFIFO(PurchaseKey(p), PurchaseKey(r)) <= 0}
OldestSales(S) ==
    {s \in S : \A t \in S : compareToFIFO(SaleKey(s), SaleKey(t)) <= 0}

\* Map.set keeps one transaction per key, the last one the query returned.
OnePerKey(T, key) ==
    {U \in SUBSET T : \A t \in T : \E u \in U : {v \in U : key[v] = key[t]} = {u}}

\* Big.div rounds half up, away from zero.
UnitCost(cost, quantity) ==
    IF cost >= 0 THEN (2 * cost + quantity) \div (2 * quantity)
    ELSE -((quantity - 2 * cost) \div (2 * quantity))

\* The run ends: what it holds in memory is gone.
Finish ==
    /\ pc' = "idle"
    /\ copy' = NoProps /\ local' = NoCopies /\ queue' = EmptyQueue
    /\ current' = NoCurrentSale /\ plan' = EmptyPlan

\* The user presses Calculate: the run reads the account. A flagged account is
\* reset instead; without groups no Financial Book is found and nothing
\* changes.
StartCalculation ==
    /\ pc = "idle" /\ status # "absent"
    /\ \A s \in Sales : Len(cogs[s]) <= MaxCogs
    /\ \/ /\ props.needsRebuild
          /\ pc' = "reset"
          /\ UNCHANGED run
       \/ /\ ~props.needsRebuild /\ status = "grouped"
          /\ pc' = "list"
          /\ copy' = props
          /\ UNCHANGED <<local, queue, current, plan>>
    /\ UNCHANGED <<books, crashes, torn>>

Unchecked(entries, toDate) ==
    {e \in DOMAIN entries :
        entries[e].posted /\ ~entries[e].checked /\ entries[e].date <= toDate}

\* The purchases with unchecked splits up to toDate.
WithLooseSplits(toDate) ==
    {p \in Purchases : splits[p].loose > 0 /\ buy[p].date <= toDate}

NoLooseSplits == \A p \in Purchases : splits[p].loose = 0

\* Mutant: the returned quantities are not counted.
EnoughStock_NotesForgotten(S, P, L, N) ==
    MapThenSumSet(LAMBDA s : sell[s].quantity, S)
      <= MapThenSumSet(LAMBDA p : buy[p].amount, P)
         + MapThenSumSet(LAMBDA p : splits[p].loose, L)

\* Total sales quantity cannot be greater than the quantity in inventory.
EnoughStock(S, P, L, N) ==
    MapThenSumSet(LAMBDA s : sell[s].quantity, S)
      + MapThenSumSet(LAMBDA n : note[n].quantity, N)
      <= MapThenSumSet(LAMBDA p : buy[p].amount, P)
         + MapThenSumSet(LAMBDA p : splits[p].loose, L)

\* A split made by a credit note has no total_cost, and its credit_note keeps
\* additional costs from being looked up.
SplitCopy(quantity, date) == [NewPurchase(quantity, 0, date) EXCEPT !.seen = TRUE]

\* The copies of the purchases; parts are those of which a split was listed, of
\* the given amount.
CopyPurchases(parts, amounts) ==
    [p \in Purchases |-> IF p \in parts THEN SplitCopy(amounts[p], buy[p].date) ELSE buy[p]]

\* The run lists the unchecked transactions up to toDate. A split has the code of
\* its purchase: Map.set keeps the root or one of its unchecked splits.
ListTransactions(toDate) ==
    /\ pc = "list"
    /\ LET S == Unchecked(sell, toDate)
           P == Unchecked(buy, toDate)
           L == WithLooseSplits(toDate)
           N == Unchecked(note, toDate)
       IN  \/ /\ S = {} \/ ~EnoughStock(S, P, L, N)
              /\ Finish
           \/ /\ S # {} /\ EnoughStock(S, P, L, N)
              /\ \E buys \in OnePerKey(P \cup L, CodeOf), notes \in OnePerKey(N, NoteNumber),
                    last \in S :
                    \E parts \in SUBSET (buys \cap L) :
                    \E amounts \in [parts -> UNION {1..splits[p].loose : p \in parts}] :
                        /\ buys \ parts \subseteq P
                        /\ \A p \in parts : amounts[p] <= splits[p].loose
                        /\ \A s \in S : sell[s].date <= sell[last].date
                        /\ queue' = [buys |-> buys, splits |-> parts, sales |-> S,
                                     notes |-> notes, lastDate |-> sell[last].date]
                        /\ local' = CopyPurchases(parts, amounts)
              /\ pc' = "credits"
              /\ UNCHANGED <<copy, current, plan>>
    /\ UNCHANGED <<books, crashes, torn>>

\* Mutant: the purchase is not reduced by the returned quantity.
AfterReturn_AmountKept(purchase, quantity) == purchase

\* Mutant: the purchase is taken off the returned quantity.
AfterReturn_Swapped(purchase, quantity) == [purchase EXCEPT !.amount = quantity - @]

AfterReturn(purchase, quantity) == [purchase EXCEPT !.amount = @ - quantity]

\* Mutant: the check is missing.
ReturnsAll_Never(purchase, quantity) == FALSE

\* Mutant: a credit note may return all that is left.
ReturnsAll_More(purchase, quantity) == purchase.amount < quantity

ReturnsAll(purchase, quantity) == purchase.amount <= quantity

\* The totals of the splits with one more, made by a credit note or by a sale.
WithReturn(totals, quantity) ==
    [totals EXCEPT !.quantity = @ + quantity, !.credited = @ + quantity]
WithSale(totals, quantity, cost) ==
    [totals EXCEPT !.quantity = @ + quantity, !.cost = @ + cost]

\* A credit note splits the purchase of its code; returning all that is left
\* of the purchase, or more, aborts the run.
ProcessCreditNote(n) ==
    /\ pc = "credits" /\ n \in queue.notes
    /\ LET quantity == note[n].quantity
           linked == {p \in queue.buys : CodeOf[p] = NoteCode[n]}
       IN  \/ /\ linked = {}
              /\ queue' = [queue EXCEPT !.notes = @ \ {n}]
              /\ UNCHANGED <<pc, copy, local, current, plan>>
           \/ \E p \in linked :
                 \/ /\ ReturnsAll(local[p], quantity)
                    /\ Finish
                 \/ /\ ~ReturnsAll(local[p], quantity)
                    /\ queue' = [queue EXCEPT !.notes = @ \ {n}]
                    /\ local' = [local EXCEPT ![p] = AfterReturn(@, quantity)]
                    /\ plan' = [plan EXCEPT !.splits[p] = WithReturn(@, quantity),
                                            !.buys = @ \cup {p}, !.notes = @ \cup {n},
                                            !.locked = @ \/ Locked(buy[p].date)
                                                         \/ Locked(note[n].date)]
                    /\ UNCHANGED <<pc, copy, current>>
    /\ UNCHANGED <<books, crashes, torn>>

CreditNotesDone ==
    /\ pc = "credits" /\ queue.notes = {}
    /\ pc' = "sales"
    /\ UNCHANGED <<books, run, crashes, torn>>

\* processSale begins with the oldest sale left.
NextSale(s) ==
    /\ pc = "sales" /\ s \in OldestSales(queue.sales)
    /\ queue' = [queue EXCEPT !.sales = @ \ {s}]
    /\ current' = [sale |-> s, sold |-> sell[s].quantity, cost |-> 0]
    /\ pc' = "purchases"
    /\ UNCHANGED <<books, copy, local, plan, crashes, torn>>

\* Mutant: the purchases are reduced before their splits exist.
fireBatchOperations_UpdateFirst ==
    [start |-> "updateInventory", updateInventory |-> "createInventory",
     createInventory |-> "createFinancial", createFinancial |-> "storeDate"]

\* Mutant: the costs of sales are posted before the sales are stored.
fireBatchOperations_FinancialFirst ==
    [start |-> "createFinancial", createFinancial |-> "createInventory",
     createInventory |-> "updateInventory", updateInventory |-> "storeDate"]

\* CalculateCostOfSalesProcessor: the call that follows each of its batches.
fireBatchOperations ==
    [start |-> "createInventory", createInventory |-> "updateInventory",
     updateInventory |-> "createFinancial", createFinancial |-> "storeDate"]

SalesDone ==
    /\ pc = "sales" /\ queue.sales = {}
    /\ pc' = fireBatchOperations.start
    /\ UNCHANGED <<books, run, crashes, torn>>
------------------------------------------------------------------------------
(* processSale, one step per purchase drawn upon.                           *)

Available == {p \in queue.buys : ~local[p].checked}

\* The checked financial transactions that refer to the code of the purchase.
getAdditionalCostsAndCreditNotes(p) == extras[CodeOf[p]]

\* The purchase with its updated cost. Additional costs and credits are looked
\* up the first time a sale draws on it; later the amounts found are zero, and
\* the properties that told them are overwritten.
WithExtras(purchase, extra) ==
    IF purchase.seen
    THEN [purchase EXCEPT !.addCosts = 0, !.creditAmount = 0]
    ELSE LET cost == purchase.totalCost + extra.add - extra.credit IN
         [purchase EXCEPT !.seen = TRUE, !.addCosts = extra.add,
                          !.creditAmount = extra.credit,
                          !.totalCost = cost, !.basis = cost]

Liquidated(purchase) == [purchase EXCEPT !.checked = TRUE]

\* Mutant: the cost of sales leaves the additional costs and credits out.
CostOfAll_AsPosted(purchase) == purchase.cost

\* What a sale of all that is left of a purchase costs.
CostOfAll(purchase) == purchase.totalCost

\* Mutant: the part that is left gets its own rounded cost.
Remaining_Rounded(purchase, quantity) ==
    LET unit == UnitCost(purchase.totalCost, purchase.amount) IN
    [purchase EXCEPT !.amount = @ - quantity, !.totalCost = (purchase.amount - quantity) * unit]

\* What is left of a purchase after a sale of less than all of it.
Remaining(purchase, quantity) ==
    LET unit == UnitCost(purchase.totalCost, purchase.amount) IN
    [purchase EXCEPT !.amount = @ - quantity, !.totalCost = @ - quantity * unit]

\* The sale takes all that is left of the oldest purchase.
LiquidatePurchase(p) ==
    /\ pc = "purchases" /\ current.sold > 0
    /\ p \in OldestPurchases(Available)
    /\ current.sold >= local[p].amount
    /\ LET purchase == WithExtras(local[p], getAdditionalCostsAndCreditNotes(p))
       IN  /\ local' = [local EXCEPT ![p] = Liquidated(purchase)]
           /\ current' = [sale |-> current.sale, sold |-> current.sold - purchase.amount,
                          cost |-> current.cost + CostOfAll(purchase)]
    /\ plan' = [plan EXCEPT !.buys = @ \cup {p}, !.locked = @ \/ Locked(buy[p].date)]
    /\ UNCHANGED <<books, pc, copy, queue, crashes, torn>>

\* The sale takes a part of the oldest purchase, which is split.
SplitPurchase(p) ==
    /\ pc = "purchases" /\ current.sold > 0
    /\ p \in OldestPurchases(Available)
    /\ current.sold < local[p].amount
    /\ LET purchase == WithExtras(local[p], getAdditionalCostsAndCreditNotes(p))
           cost == current.sold * UnitCost(purchase.totalCost, purchase.amount)
       IN  /\ local' = [local EXCEPT ![p] = Remaining(purchase, current.sold)]
           /\ current' = [sale |-> current.sale, sold |-> 0, cost |-> current.cost + cost]
           /\ plan' = [plan EXCEPT !.splits[p] = WithSale(@, current.sold, cost),
                                   !.buys = @ \cup {p},
                                   !.locked = @ \/ Locked(buy[p].date)]
    /\ UNCHANGED <<books, pc, copy, queue, crashes, torn>>

\* A split made by a credit note has neither original_quantity nor total_cost.
\* BkperApp.newAmount may take a missing property for zero, or throw, which ends
\* the run: what it does is not visible in the repository.
RejectSplit(p) ==
    /\ pc = "purchases" /\ current.sold > 0
    /\ p \in OldestPurchases(Available) /\ p \in queue.splits
    /\ Finish
    /\ UNCHANGED <<books, crashes, torn>>

\* Mutant: the loop over the purchases ends only when all is costed.
SaleProcessed_Exact == current.sold = 0

\* The loop of processSale ends: nothing left to cost, or no purchase left.
SaleProcessed == current.sold = 0 \/ Available = {}

\* The sale is stored if it has been costed to the end; its cost of sales is
\* posted in any case. A locked transaction aborts the run.
FinishSale ==
    /\ pc = "purchases" /\ SaleProcessed
    /\ LET s == current.sale
           costed == current.sold = 0
           locked == plan.locked \/ (costed /\ Locked(sell[s].date))
       IN  \/ /\ locked
              /\ Finish
           \/ /\ ~locked
              /\ plan' = [plan EXCEPT !.sells = IF costed THEN @ \cup {s} ELSE @,
                                      !.cogs = @ \cup {s},
                                      !.cost[s] = current.cost]
              /\ current' = NoCurrentSale
              /\ pc' = "sales"
              /\ UNCHANGED <<copy, local, queue>>
    /\ UNCHANGED <<books, crashes, torn>>
------------------------------------------------------------------------------
(* CalculateCostOfSalesProcessor.fireBatchOperations, storeLastCalcTxDate   *)

CreateInventoryTransactions ==
    /\ pc = "createInventory"
    /\ splits' = [p \in Purchases |->
                    [quantity |-> splits[p].quantity + plan.splits[p].quantity,
                     cost |-> splits[p].cost + plan.splits[p].cost,
                     credited |-> splits[p].credited + plan.splits[p].credited,
                     loose |-> splits[p].loose]]
    /\ pc' = fireBatchOperations.createInventory
    /\ UNCHANGED <<buy, sell, note, status, props, cogs, extras, lockDate, run, crashes, torn>>

CheckAll(entries, E) == [e \in DOMAIN entries |->
    IF e \in E THEN [entries[e] EXCEPT !.checked = TRUE] ELSE entries[e]]

\* Sales that have been costed: with a purchase log, and checked.
LogAll(entries, E) == [e \in DOMAIN entries |->
    IF e \in E THEN [entries[e] EXCEPT !.checked = TRUE, !.logged = TRUE] ELSE entries[e]]

\* The totals of the splits when one of them, copied to part, is updated.
WithPart(totals, part) ==
    LET less == part.quantity - part.amount IN
    [totals EXCEPT !.quantity = @ - less, !.credited = @ - less,
                   !.loose = @ - (IF part.checked THEN part.quantity ELSE less)]

UpdateInventoryTransactions ==
    /\ pc = "updateInventory"
    /\ buy' = [p \in Purchases |-> IF p \in plan.buys \ queue.splits THEN local[p] ELSE buy[p]]
    /\ splits' = [p \in Purchases |-> IF p \in plan.buys \cap queue.splits
                                      THEN WithPart(splits[p], local[p]) ELSE splits[p]]
    /\ sell' = LogAll(sell, plan.sells)
    /\ note' = CheckAll(note, plan.notes)
    /\ pc' = fireBatchOperations.updateInventory
    /\ UNCHANGED <<status, props, cogs, extras, lockDate, run, crashes, torn>>

CreateFinancialTransactions ==
    /\ pc = "createFinancial"
    /\ cogs' = [s \in Sales |-> IF s \in plan.cogs THEN Append(cogs[s], plan.cost[s])
                                ELSE cogs[s]]
    /\ pc' = fireBatchOperations.createFinancial
    /\ UNCHANGED <<buy, splits, sell, note, status, props, extras, lockDate, run, crashes, torn>>

\* Mutant: the calculation takes the rebuild flag away.
storeLastCalcTxDate_ClearsFlag ==
    /\ pc = "storeDate"
    /\ props' = UpdateProps(props, [copy EXCEPT !.calcDate = queue.lastDate], {"needsRebuild"})
    /\ Finish
    /\ UNCHANGED <<buy, splits, sell, note, status, cogs, extras, lockDate, crashes, torn>>

\* The date is written through the copy of the account read at the start.
storeLastCalcTxDate ==
    /\ pc = "storeDate"
    /\ props' = IF queue.lastDate > copy.calcDate
                THEN UpdateProps(props, [copy EXCEPT !.calcDate = queue.lastDate], {})
                ELSE props
    /\ Finish
    /\ UNCHANGED <<buy, splits, sell, note, status, cogs, extras, lockDate, crashes, torn>>
------------------------------------------------------------------------------
(* resetCostOfSalesForAccount and ResetCostOfSalesProcessor                 *)

\* The user presses Reset.
StartReset ==
    /\ pc = "idle" /\ status # "absent"
    /\ pc' = "reset"
    /\ UNCHANGED <<books, run, crashes, torn>>

\* The account is read again; without a Financial Book nothing is done.
ReadAccountToReset ==
    /\ pc = "reset"
    /\ pc' = IF status = "grouped" THEN "resetList" ELSE "idle"
    /\ UNCHANGED <<books, run, crashes, torn>>

\* Mutant: the costs of sales are trashed last.
fireResetOperations_FinancialLast ==
    [start |-> "restoreInventory", restoreInventory |-> "trashInventory",
     trashInventory |-> "trashFinancial", trashFinancial |-> "clearAccount"]

\* ResetCostOfSalesProcessor: the call that follows each of its batches.
fireResetOperations ==
    [start |-> "trashFinancial", trashFinancial |-> "restoreInventory",
     restoreInventory |-> "trashInventory", trashInventory |-> "clearAccount"]

Posted(entries) == {e \in DOMAIN entries : entries[e].posted}

\* Mutant: only the splits of purchases that are still there are found.
SplitsToTrash_OfPurchases == {p \in Posted(buy) : splits[p].quantity > 0}

\* The purchases that have splits, whether or not they are still there.
SplitsToTrash == {p \in Purchases : splits[p].quantity > 0}

\* Every transaction of the account is collected: sales that the bot posted, with
\* a purchase log, and the first cost of sales found for each, all purchases,
\* splits and credit notes.
ListTransactionsToReset ==
    /\ pc = "resetList"
    /\ LET sales == {s \in Posted(sell) : sell[s].logged /\ sell[s].bot}
           locked == \/ \E s \in sales : Locked(sell[s].date)
                     \/ \E p \in Posted(buy) : Locked(buy[p].date)
                     \/ \E n \in Posted(note) : Locked(note[n].date)
       IN  \/ /\ locked
              /\ Finish
           \/ /\ ~locked
              /\ plan' = [splits |-> EmptyPlan.splits,
                          trash |-> SplitsToTrash,
                          buys |-> Posted(buy), sells |-> sales, notes |-> Posted(note),
                          cogs |-> {s \in sales : cogs[s] # <<>>},
                          cost |-> EmptyPlan.cost, locked |-> FALSE]
              /\ pc' = fireResetOperations.start
              /\ UNCHANGED <<copy, local, queue, current>>
    /\ UNCHANGED <<books, crashes, torn>>

TrashFinancialTransactions ==
    /\ pc = "trashFinancial"
    /\ cogs' = [s \in Sales |-> IF s \in plan.cogs THEN Tail(cogs[s]) ELSE cogs[s]]
    /\ pc' = fireResetOperations.trashFinancial
    /\ UNCHANGED <<buy, splits, sell, note, status, props, extras, lockDate, run, crashes, torn>>

\* Mutant: the cost that the additional costs had raised is kept.
Restored_CostKept(purchase) ==
    [purchase EXCEPT !.amount = purchase.quantity, !.checked = FALSE, !.seen = FALSE,
                     !.addCosts = 0, !.creditAmount = 0]

\* A purchase as it was posted.
Restored(purchase) ==
    [purchase EXCEPT !.amount = purchase.quantity, !.totalCost = purchase.cost,
                     !.basis = purchase.cost, !.checked = FALSE, !.seen = FALSE,
                     !.addCosts = 0, !.creditAmount = 0]

UncheckAll(entries, E) == [e \in DOMAIN entries |->
    IF e \in E THEN [entries[e] EXCEPT !.checked = FALSE] ELSE entries[e]]

UnlogAll(entries, E) == [e \in DOMAIN entries |->
    IF e \in E THEN [entries[e] EXCEPT !.checked = FALSE, !.logged = FALSE] ELSE entries[e]]

\* The splits that credit notes made are in this batch too, and unchecked by it.
RestoreInventoryTransactions ==
    /\ pc = "restoreInventory"
    /\ buy' = [p \in Purchases |-> IF p \in plan.buys THEN Restored(buy[p]) ELSE buy[p]]
    /\ sell' = UnlogAll(sell, plan.sells)
    /\ note' = UncheckAll(note, plan.notes)
    /\ splits' = [p \in Purchases |->
                    IF p \in plan.trash THEN [splits[p] EXCEPT !.loose = splits[p].credited]
                    ELSE splits[p]]
    /\ pc' = fireResetOperations.restoreInventory
    /\ UNCHANGED <<status, props, cogs, extras, lockDate, run, crashes, torn>>

TrashInventoryTransactions ==
    /\ pc = "trashInventory"
    /\ splits' = [p \in Purchases |-> IF p \in plan.trash THEN NoTotals ELSE splits[p]]
    /\ pc' = fireResetOperations.trashInventory
    /\ UNCHANGED <<buy, sell, note, status, props, cogs, extras, lockDate, run, crashes, torn>>

ClearAccount ==
    /\ pc = "clearAccount"
    /\ props' = UpdateProps(props, NoProps, {"needsRebuild", "calcDate"})
    /\ Finish
    /\ UNCHANGED <<buy, splits, sell, note, status, cogs, extras, lockDate, crashes, torn>>
------------------------------------------------------------------------------
(* Specification *)

\* The script run dies between two calls.
Crash ==
    /\ pc # "idle" /\ crashes < MaxCrashes
    /\ crashes' = crashes + 1
    /\ torn' = (torn \/ ~NoLooseSplits)
    /\ Finish
    /\ UNCHANGED books

Handlers ==
    \/ \E p \in Purchases, q \in Quantities, c \in Costs, d \in Dates :
          PostPurchase(p, q, c, d)
    \/ \E s \in Sales, q \in Quantities, d \in Dates : PostSale(s, q, d)
    \/ \E n \in CreditNotes, q \in Quantities, a \in ExtraAmounts, d \in Dates :
          PostCreditNote(n, q, a, d)
    \/ \E c \in Codes, a \in ExtraAmounts :
          RecordAdditionalCost(c, a) \/ RecordCredit(c, a)
    \/ \E d \in Dates : CloseBooks(d)

Calculation ==
    \/ \E d \in Dates : ListTransactions(d)
    \/ \E n \in CreditNotes : ProcessCreditNote(n)
    \/ CreditNotesDone
    \/ \E s \in Sales : NextSale(s)
    \/ \E p \in Purchases : LiquidatePurchase(p) \/ SplitPurchase(p) \/ RejectSplit(p)
    \/ FinishSale
    \/ SalesDone
    \/ CreateInventoryTransactions
    \/ UpdateInventoryTransactions
    \/ CreateFinancialTransactions
    \/ storeLastCalcTxDate

Reset ==
    \/ ReadAccountToReset
    \/ ListTransactionsToReset
    \/ TrashFinancialTransactions
    \/ RestoreInventoryTransactions
    \/ TrashInventoryTransactions
    \/ ClearAccount

Next ==
    \/ Handlers
    \/ StartCalculation \/ StartReset
    \/ Calculation \/ Reset
    \/ Crash

Spec == Init /\ [][Next]_vars

\* A script run that has started goes on; nothing makes users start one.
FairSpec == Spec /\ WF_vars(Calculation) /\ WF_vars(Reset)
------------------------------------------------------------------------------
(* Properties *)

\* The Inventory Book never holds less of a purchase than was bought: what is
\* left of it and its splits add up to the original quantity or, after a run
\* that died, to more. The processor creates the splits before it reduces the
\* purchase, and the reset restores the purchase before it trashes the splits.
StockNeverUndercounted ==
    \A p \in Purchases : buy[p].amount + splits[p].quantity >= buy[p].quantity

BetweenBatches == pc \in {"updateInventory", "trashInventory"}

\* As long as no run has died, splitting by credit notes and sales, over any
\* number of calculations and resets, neither creates nor loses a unit.
StockConserved ==
    crashes = 0 /\ ~BetweenBatches =>
        \A p \in Purchases : buy[p].amount + splits[p].quantity = buy[p].quantity

\* As long as no run has died, the cost of a purchase (with the additional costs
\* and credits found when a sale first drew on it) is passed on in full: the
\* rounding of the unit cost is carried by what is left of the purchase.
CostConserved ==
    crashes = 0 /\ ~BetweenBatches =>
        \A p \in Purchases : buy[p].totalCost + splits[p].cost = buy[p].basis

\* No purchase is ever left with quantity zero, in the book or in the copies of
\* a run: processSale divides the cost of a purchase by its quantity.
NoEmptyPurchase ==
    /\ \A p \in Purchases : buy[p].posted => buy[p].amount > 0
    /\ \A p \in queue.buys : local[p].amount > 0

\* The purchase is as the event bot posted it.
Untouched(p) ==
    /\ buy[p].amount = buy[p].quantity /\ buy[p].totalCost = buy[p].cost
    /\ ~buy[p].checked /\ ~buy[p].seen

\* Whatever calculations and dead runs came before, a reset that gets to its
\* last call has put every purchase back as it was posted, has trashed every
\* split and has unchecked every sale and credit note.
ResetRestores ==
    pc = "clearAccount" =>
        /\ \A p \in Purchases : Untouched(p) /\ splits[p] = NoTotals
        /\ \A s \in Sales : ~sell[s].checked /\ ~sell[s].logged
        /\ \A n \in CreditNotes : ~note[n].checked

\* When every purchase has its own code, a reset that gets to its last call leaves
\* no cost of sales behind in the Financial Book, although it looks only at sales with a purchase log and
\* trashes only the first transaction it finds for each. Not so once a reset has
\* died when credit note splits were unchecked and not yet trashed: a calculation
\* then posts costs for sales it does not finish, which no reset finds.
ResetLeavesNoCogs ==
    pc = "clearAccount" /\ ~torn => \A s \in Sales : cogs[s] = <<>>

\* When every purchase has its own code, the Financial Book never shows a cost
\* for a sale that has not been costed to the end, nor two costs for one sale,
\* even after a run that died: the batches are fired in that order. The one
\* exception is a reset that died when credit note splits were unchecked and not
\* yet trashed.
CogsOnlyForCostedSales ==
    ~torn => \A s \in Sales : cogs[s] # <<>> => sell[s].checked /\ Len(cogs[s]) = 1

\* When every purchase has its own code, processSale never runs out of purchases
\* before the sale at hand is costed to the end: the one check of the quantities
\* before the loops is enough for every sale, although the credit notes are taken
\* off the purchases first and transactions are recorded meanwhile. Unchecked
\* splits, which a reset that died leaves behind, are counted by that check but
\* take the place of their purchase, or lose it to it, so that it is not enough.
EverySaleCosted ==
    pc = "purchases" /\ SaleProcessed /\ NoLooseSplits => current.sold = 0

\* Between runs, none of which has died, the cost of goods sold in the
\* Financial Book is the cost that has left the purchases of the Inventory Book.
BooksTieOut ==
    crashes = 0 /\ pc = "idle" =>
        MapThenSumSet(LAMBDA s : FoldFunction(LAMBDA x, y : x + y, 0, cogs[s]), Sales)
          = MapThenSumSet(LAMBDA p : splits[p].cost
                            + (IF buy[p].checked THEN buy[p].totalCost ELSE 0), Purchases)

\* What a run may draw from a purchase: its quantity less the returned units.
Stock(p) ==
    buy[p].amount - MapThenSumSet(LAMBDA n : note[n].quantity,
                                  {n \in plan.notes : NoteCode[n] = CodeOf[p]})

\* First in, first out, as a closed form: of the quantity sold in the run, a
\* purchase supplies what the purchases that compareToFIFO places before it
\* could not, up to its own stock. The service gets there purchase by purchase,
\* sale by sale, checking and splitting as it goes. Unchecked splits have no order.
FifoAllocation ==
    pc = "createInventory" /\ NoLooseSplits =>
        LET demand == MapThenSumSet(LAMBDA s : sell[s].quantity, plan.cogs)
            Older(p) == {r \in queue.buys :
                            compareToFIFO(PurchaseKey(r), PurchaseKey(p)) < 0}
        IN  \A p \in queue.buys :
                LET drawn == Stock(p) - (IF local[p].checked THEN 0 ELSE local[p].amount)
                    short == demand - MapThenSumSet(Stock, Older(p))
                IN  drawn = Min({Stock(p), Max({0, short})})

\* Between runs, an account that is not flagged for rebuild has no uncosted sale
\* on or before its calculation date: a sale recorded for a day that has been
\* calculated flags the account, and a calculation costs all sales up to its date.
BackdatedSaleFlagged ==
    pc = "idle" /\ ~props.needsRebuild =>
        \A s \in Sales : sell[s].posted /\ sell[s].date <= props.calcDate => sell[s].checked

\* Between runs, an account that is not flagged for rebuild has every purchase
\* costed with all the additional costs and credits recorded for its code.
ExtrasAccounted ==
    pc = "idle" /\ ~props.needsRebuild =>
        \A p \in Purchases : buy[p].seen =>
            buy[p].basis = buy[p].cost + extras[CodeOf[p]].add - extras[CodeOf[p]].credit

\* Only the last call of a reset takes the rebuild flag away; no handler and no
\* calculation that writes the account through an old copy does.
FlagKept ==
    [][props.needsRebuild /\ ~props'.needsRebuild => pc = "clearAccount"]_vars

\* Every script run ends: no loop over credit notes, sales or purchases goes on
\* for ever, whatever is recorded meanwhile.
Terminates == pc # "idle" ~> pc = "idle"
==============================================================================
