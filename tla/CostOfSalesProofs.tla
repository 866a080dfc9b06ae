-------------------------- MODULE CostOfSalesProofs --------------------------
(***************************************************************************)
(* Proofs, for any sets of purchases, sales and credit notes, any codes,   *)
(* dates, quantities and costs, with handlers and dead runs in between, of *)
(* the safety properties of CostOfSales that do not speak about sums over  *)
(* all transactions.                                                       *)
(***************************************************************************)
EXTENDS CostOfSales, TLAPS

(* The inductive invariant *)

\* With this much more, TypeOK is inductive: processSale has a sale at hand,
\* and the reset trashes only costs of sales that exist.
TypeInv ==
    /\ TypeOK
    /\ pc = "purchases" => current.sale \in Sales
    /\ pc = "trashFinancial" => \A s \in plan.cogs : cogs[s] # <<>>

\* A calculation has listed its transactions and written nothing yet.
Calculating == pc \in {"credits", "sales", "purchases", "createInventory"}

\* The splits of credit notes are among the splits, and the unchecked ones among
\* them. One of those that a run has listed has not grown.
SplitsInv ==
    /\ \A p \in Purchases :
          /\ splits[p].loose <= splits[p].credited
          /\ splits[p].credited <= splits[p].quantity
          /\ plan.splits[p].credited <= plan.splits[p].quantity
    /\ Calculating \/ pc = "updateInventory" =>
         \A p \in queue.splits :
            /\ local[p].amount <= local[p].quantity
            /\ 0 < local[p].quantity /\ local[p].quantity <= splits[p].loose

\* What is not posted has nothing in the books, and only logged sales are checked.
UnpostedInv ==
    /\ \A p \in Purchases : ~buy[p].posted => buy[p] = NoPurchase /\ splits[p] = NoTotals
    /\ \A s \in Sales :
          /\ (sell[s].checked => sell[s].logged) /\ (sell[s].logged => sell[s].posted)
          /\ sell[s].posted => sell[s].bot
    /\ \A n \in CreditNotes : ~note[n].posted => ~note[n].checked

BookInv ==
    \A p \in Purchases :
        /\ buy[p].posted => buy[p].amount > 0 /\ buy[p].quantity > 0
        /\ buy[p].amount + splits[p].quantity >= buy[p].quantity
        /\ splits[p].quantity = 0 => splits[p].cost = 0

\* A run handles only transactions that exist, and starts with no plan.
MemoryInv ==
    /\ \A p \in queue.buys \cup plan.buys : buy[p].posted
    /\ \A s \in Sales : s \in queue.sales \cup plan.sells \cup {current.sale} => sell[s].posted
    /\ \A n \in queue.notes \cup plan.notes : note[n].posted
    /\ pc \in {"idle", "list", "reset", "resetList"} => plan = EmptyPlan

\* What a run found of a purchase when it listed it: what was left of it or, where
\* an unchecked split was listed instead, the split.
Found(p) == IF p \in queue.splits THEN local[p].quantity ELSE buy[p].amount

\* Until the batches are fired, the copy of a purchase and its planned splits
\* make up the purchase in the book.
CalculationInv ==
    /\ \A p \in queue.buys :
          /\ local[p].posted /\ local[p].amount > 0
          /\ p \notin queue.splits => local[p].quantity = buy[p].quantity
    /\ Calculating =>
         /\ \A p \in queue.buys :
              /\ local[p].amount + plan.splits[p].quantity = Found(p)
              /\ plan.splits[p].quantity = 0 => plan.splits[p].cost = 0
         /\ \A p \in Purchases : p \notin plan.buys => plan.splits[p] = NoTotals
    /\ Calculating \/ pc = "updateInventory" => plan.buys \subseteq queue.buys
    /\ pc = "updateInventory" =>
         \A p \in plan.buys :
            IF p \in queue.splits
            THEN buy[p].amount + splits[p].quantity >= buy[p].quantity + local[p].quantity - local[p].amount
            ELSE local[p].amount + splits[p].quantity >= local[p].quantity

\* What a reset has not collected needs no reset.
ResetInv ==
    /\ pc \in {"trashFinancial", "restoreInventory"} =>
         /\ \A p \in Purchases : p \notin plan.buys => Untouched(p)
         /\ \A s \in Sales : s \notin plan.sells => ~sell[s].checked /\ ~sell[s].logged
         /\ \A n \in CreditNotes : n \notin plan.notes => ~note[n].checked
    /\ pc \in {"trashFinancial", "restoreInventory", "trashInventory"} =>
         \A p \in Purchases : p \notin plan.trash => splits[p] = NoTotals
    /\ pc \in {"trashInventory", "clearAccount"} =>
         /\ \A p \in Purchases : Untouched(p)
         /\ \A s \in Sales : ~sell[s].checked /\ ~sell[s].logged
         /\ \A n \in CreditNotes : ~note[n].checked
    /\ pc = "clearAccount" => \A p \in Purchases : splits[p] = NoTotals

\* Credit note splits are unchecked only between two calls of a reset, or when a
\* run has died.
LooseInv ==
    /\ crashes = 0 => ~torn
    /\ ~torn /\ pc # "trashInventory" => NoLooseSplits

SafetyInv ==
    UnpostedInv /\ BookInv /\ MemoryInv /\ CalculationInv /\ ResetInv

\* The books balance: quantity and cost of purchase record r, given splits t.
Balanced(r, t) ==
    /\ r.amount + t.quantity = r.quantity
    /\ r.totalCost + t.cost = r.basis
    /\ ~r.seen => t.cost = 0

\* The splits of a purchase, those that a run has planned included.
AllSplits(p) ==
    [quantity |-> splits[p].quantity + plan.splits[p].quantity,
     cost |-> splits[p].cost + plan.splits[p].cost,
     credited |-> splits[p].credited + plan.splits[p].credited,
     loose |-> splits[p].loose]

\* As long as no run has died.
ConservationInv ==
    crashes = 0 =>
        /\ ~BetweenBatches => \A p \in Purchases : Balanced(buy[p], splits[p])
        /\ Calculating => \A p \in queue.buys : Balanced(local[p], AllSplits(p))
        /\ pc = "updateInventory" => \A p \in Purchases :
              Balanced(IF p \in plan.buys THEN local[p] ELSE buy[p], splits[p])
        /\ pc = "trashInventory" => \A p \in Purchases : buy[p].totalCost = buy[p].basis
------------------------------------------------------------------------------
(* The operators on purchases *)

\* Big.div of a cost by a quantity other than zero is a number.
LEMMA UnitCostIsInt ==
    ASSUME NEW cost \in Int, NEW quantity \in Nat, quantity > 0
    PROVE  UnitCost(cost, quantity) \in Int
  BY DEF UnitCost

\* Looking up the extra costs changes only what a purchase costs.
LEMMA WithExtrasFacts ==
    ASSUME NEW r \in PurchaseRecords, NEW x \in [add : Nat, credit : Nat]
    PROVE  LET w == WithExtras(r, x) IN
           /\ w \in PurchaseRecords
           /\ w.posted = r.posted /\ w.quantity = r.quantity /\ w.amount = r.amount
           /\ w.seen
           /\ r.seen => w.totalCost = r.totalCost /\ w.basis = r.basis
           /\ ~r.seen => w.totalCost = w.basis
  <1> DEFINE w == WithExtras(r, x)
  <1>1. w \in PurchaseRecords
    <2>1. CASE r.seen
      BY <2>1 DEF WithExtras, PurchaseRecords
    <2>2. CASE ~r.seen
      <3>1. r.totalCost + x.add - x.credit \in Int /\ x.add \in Nat /\ x.credit \in Nat
        BY DEF PurchaseRecords
      <3>2. QED
        BY <2>2, <3>1 DEF WithExtras, PurchaseRecords
    <2>3. QED
      BY <2>1, <2>2
  <1>2. w.posted = r.posted /\ w.quantity = r.quantity /\ w.amount = r.amount
    BY DEF WithExtras, PurchaseRecords
  <1>3. w.seen
    BY DEF WithExtras, PurchaseRecords
  <1>4. r.seen => w.totalCost = r.totalCost /\ w.basis = r.basis
    BY DEF WithExtras, PurchaseRecords
  <1>5. ~r.seen => w.totalCost = w.basis
    BY DEF WithExtras, PurchaseRecords
  <1>6. QED
    BY <1>1, <1>2, <1>3, <1>4, <1>5

\* A purchase that is used up keeps its quantity and its cost.
LEMMA LiquidatedFacts ==
    ASSUME NEW r \in PurchaseRecords
    PROVE  LET w == Liquidated(r) IN
           /\ w \in PurchaseRecords
           /\ w.posted = r.posted /\ w.quantity = r.quantity /\ w.amount = r.amount
           /\ w.seen = r.seen /\ w.totalCost = r.totalCost /\ w.basis = r.basis
  BY DEF Liquidated, PurchaseRecords

\* What is split off a purchase and what remains make up the whole, whatever
\* the unit cost was rounded to.
LEMMA RemainingFacts ==
    ASSUME NEW r \in PurchaseRecords, NEW q \in Nat, q < r.amount
    PROVE  LET w == Remaining(r, q)
               unit == UnitCost(r.totalCost, r.amount)
           IN  /\ w \in PurchaseRecords /\ q * unit \in Int
               /\ w.posted = r.posted /\ w.quantity = r.quantity
               /\ w.amount + q = r.amount /\ w.amount > 0
               /\ w.totalCost + q * unit = r.totalCost
               /\ w.seen = r.seen /\ w.basis = r.basis
  <1> DEFINE unit == UnitCost(r.totalCost, r.amount)
  <1>1. r.amount \in Nat /\ r.totalCost \in Int /\ r.amount > 0
    BY DEF PurchaseRecords
  <1>2. unit \in Int
    BY <1>1, UnitCostIsInt
  <1> DEFINE split == q * unit
  <1>3. split \in Int
    BY <1>2
  <1>4. Remaining(r, q) = [r EXCEPT !.amount = r.amount - q, !.totalCost = r.totalCost - split]
    BY DEF Remaining
  <1> HIDE DEF split, unit
  <1>5. Remaining(r, q) \in PurchaseRecords
    <2>1. r.amount - q \in Nat /\ r.totalCost - split \in Int
      BY <1>1, <1>3
    <2>2. QED
      BY <1>4, <2>1 DEF PurchaseRecords
  <1>6. /\ Remaining(r, q).posted = r.posted /\ Remaining(r, q).quantity = r.quantity
        /\ Remaining(r, q).seen = r.seen /\ Remaining(r, q).basis = r.basis
    BY <1>4 DEF PurchaseRecords
  <1>7. /\ Remaining(r, q).amount + q = r.amount /\ Remaining(r, q).amount > 0
        /\ Remaining(r, q).totalCost + split = r.totalCost
    BY <1>1, <1>3, <1>4 DEF PurchaseRecords
  <1>8. QED
    BY <1>3, <1>5, <1>6, <1>7 DEF split, unit

\* A credit note takes its quantity from the purchase and nothing else.
LEMMA AfterReturnFacts ==
    ASSUME NEW r \in PurchaseRecords, NEW q \in Nat, ~ReturnsAll(r, q)
    PROVE  LET w == AfterReturn(r, q) IN
           /\ w \in PurchaseRecords
           /\ w.posted = r.posted /\ w.quantity = r.quantity
           /\ w.amount + q = r.amount /\ w.amount > 0
           /\ w.seen = r.seen /\ w.totalCost = r.totalCost /\ w.basis = r.basis
  BY DEF AfterReturn, ReturnsAll, PurchaseRecords

\* A restored purchase has its original quantity and cost.
LEMMA RestoredFacts ==
    ASSUME NEW r \in PurchaseRecords
    PROVE  LET w == Restored(r) IN
           /\ w \in PurchaseRecords
           /\ w.posted = r.posted /\ w.quantity = r.quantity /\ w.cost = r.cost
           /\ w.amount = r.quantity /\ w.totalCost = r.cost /\ w.basis = r.cost
           /\ ~w.checked /\ ~w.seen
  <1> DEFINE w == Restored(r)
  <1>1. w \in PurchaseRecords
    <2>1. r.quantity \in Nat /\ r.cost \in Nat /\ r.cost \in Int
      BY DEF PurchaseRecords
    <2>2. QED
      BY <2>1 DEF Restored, PurchaseRecords
  <1>2. w.posted = r.posted /\ w.quantity = r.quantity /\ w.cost = r.cost
    BY DEF Restored, PurchaseRecords
  <1>3. w.amount = r.quantity /\ w.totalCost = r.cost /\ w.basis = r.cost
    BY DEF Restored, PurchaseRecords
  <1>4. ~w.checked /\ ~w.seen
    BY DEF Restored, PurchaseRecords
  <1>5. QED
    BY <1>1, <1>2, <1>3, <1>4
------------------------------------------------------------------------------
(* Type correctness *)

\* The initial records and the values that Finish resets to are of their types.
LEMMA EmptyTypes ==
    /\ NoPurchase \in PurchaseRecords /\ NoCopies \in [Purchases -> PurchaseRecords]
    /\ NoProps \in Props /\ EmptyQueue \in Queues /\ NoCurrentSale \in CurrentSales
    /\ EmptyPlan \in Plans
  <1>1. NoPurchase \in PurchaseRecords
    BY DEF NoPurchase, PurchaseRecords, NoDate
  <1>2. NoProps \in Props
    BY DEF NoProps, Props, NoDate
  <1>3. EmptyQueue \in Queues
    BY DEF EmptyQueue, Queues, NoDate
  <1>4. EmptyPlan \in Plans
    BY DEF EmptyPlan, Plans, Totals, NoTotals
  <1>5. QED
    BY <1>1, <1>2, <1>3, <1>4 DEF NoCopies, NoCurrentSale, CurrentSales

\* An update of the account properties gives account properties.
LEMMA UpdatePropsType ==
    ASSUME NEW stored \in Props, NEW sent \in Props, NEW cleared
    PROVE  UpdateProps(stored, sent, cleared) \in Props
  BY BoundAssumption DEF UpdateProps, Props, NoDate

\* So does checkLastTxDate, whichever copy of them it read.
LEMMA CheckLastTxDateType ==
    ASSUME NEW stored \in Props, NEW read \in Props, NEW date \in Nat
    PROVE  checkLastTxDate(stored, read, date) \in Props
  <1>1. [read EXCEPT !.needsRebuild = TRUE] \in Props
    BY DEF Props
  <1>2. QED
    BY <1>1, UpdatePropsType DEF checkLastTxDate

\* Checking and unchecking a batch keeps its entries entries.
LEMMA CheckAllType ==
    ASSUME NEW D, NEW entries \in [D -> EntryRecords], NEW E
    PROVE  /\ CheckAll(entries, E) \in [D -> EntryRecords]
           /\ UncheckAll(entries, E) \in [D -> EntryRecords]
  BY DEF CheckAll, UncheckAll, EntryRecords

\* So do the logs that mark sales as costed and their removal.
LEMMA LogAllType ==
    ASSUME NEW D, NEW entries \in [D -> SaleRecords], NEW E
    PROVE  /\ LogAll(entries, E) \in [D -> SaleRecords]
           /\ UnlogAll(entries, E) \in [D -> SaleRecords]
  BY DEF LogAll, UnlogAll, SaleRecords

\* What is charged and credited under a code stays natural numbers.
LEMMA MoreExtraType ==
    ASSUME NEW x \in [add : Nat, credit : Nat], NEW a \in Nat
    PROVE  /\ [x EXCEPT !.add = @ + a] \in [add : Nat, credit : Nat]
           /\ [x EXCEPT !.credit = @ + a] \in [add : Nat, credit : Nat]
  OBVIOUS

\* Units added to the totals of the splits leave totals.
LEMMA WithReturnFacts ==
    ASSUME NEW t \in Totals, NEW q \in Nat
    PROVE  LET r == WithReturn(t, q) IN
           /\ r \in Totals /\ r.quantity = t.quantity + q /\ r.cost = t.cost
           /\ r.credited = t.credited + q /\ r.loose = t.loose
  <1>1. t.quantity + q \in Nat /\ t.credited + q \in Nat
    BY DEF Totals
  <1>2. WithReturn(t, q) \in Totals
    BY <1>1 DEF WithReturn, Totals
  <1>3. QED
    BY <1>2 DEF WithReturn, Totals

LEMMA WithSaleFacts ==
    ASSUME NEW t \in Totals, NEW q \in Nat, NEW c \in Int
    PROVE  LET s == WithSale(t, q, c) IN
           /\ s \in Totals /\ s.quantity = t.quantity + q /\ s.cost = t.cost + c
           /\ s.credited = t.credited /\ s.loose = t.loose
  <1>1. t.quantity + q \in Nat /\ t.cost + c \in Int
    BY DEF Totals
  <1>2. WithSale(t, q, c) \in Totals
    BY <1>1 DEF WithSale, Totals
  <1>3. QED
    BY <1>2 DEF WithSale, Totals

\* So do those that are taken away when a split is updated.
LEMMA WithPartFacts ==
    ASSUME NEW t \in Totals, NEW r \in PurchaseRecords,
           t.loose <= t.credited, t.credited <= t.quantity,
           r.amount <= r.quantity, r.quantity <= t.loose
    PROVE  LET u == WithPart(t, r) IN
           /\ u \in Totals /\ u.cost = t.cost
           /\ u.quantity = t.quantity - (r.quantity - r.amount)
           /\ u.quantity >= r.amount
           /\ u.loose <= u.credited /\ u.credited <= u.quantity
  <1> DEFINE less == r.quantity - r.amount
             gone == IF r.checked THEN r.quantity ELSE less
             u == WithPart(t, r)
  <1>1. /\ t.quantity \in Nat /\ t.cost \in Int /\ t.credited \in Nat /\ t.loose \in Nat
        /\ r.quantity \in Nat /\ r.amount \in Nat
    BY DEF Totals, PurchaseRecords
  <1>2. /\ u = [t EXCEPT !.quantity = t.quantity - less, !.credited = t.credited - less,
                         !.loose = t.loose - gone]
    BY DEF WithPart
  <1>3. /\ t.quantity - less \in Nat /\ t.credited - less \in Nat /\ t.loose - gone \in Nat
        /\ t.quantity - less >= r.amount
        /\ t.loose - gone <= t.credited - less /\ t.credited - less <= t.quantity - less
    BY <1>1
  <1> HIDE DEF less, gone, u
  <1>4. /\ u.quantity = t.quantity - less /\ u.cost = t.cost
        /\ u.credited = t.credited - less /\ u.loose = t.loose - gone
    BY <1>2 DEF Totals
  <1>5. u \in Totals
    BY <1>1, <1>2, <1>3 DEF Totals
  <1>6. QED
    BY <1>3, <1>4, <1>5 DEF less, u

\* What Finish leaves is well typed.
LEMMA FinishType ==
    ASSUME Finish
    PROVE  /\ copy' \in Props /\ local' \in [Purchases -> PurchaseRecords]
           /\ queue' \in Queues /\ current' \in CurrentSales /\ plan' \in Plans
           /\ pc' = "idle"
  BY EmptyTypes DEF Finish

\* The copy of a purchase is what is left of it, or one of its unchecked splits.
LEMMA CopyFacts ==
    ASSUME buy \in [Purchases -> PurchaseRecords],
           NEW parts \in SUBSET Purchases, NEW amounts \in [parts -> Nat]
    PROVE  LET copies == CopyPurchases(parts, amounts) IN
           /\ copies \in [Purchases -> PurchaseRecords]
           /\ \A p \in Purchases : p \notin parts => copies[p] = buy[p]
           /\ \A p \in parts : /\ copies[p].posted /\ ~copies[p].checked /\ copies[p].seen
                               /\ copies[p].quantity = amounts[p]
                               /\ copies[p].amount = amounts[p]
  <1> DEFINE copies == CopyPurchases(parts, amounts)
             Part(p) == SplitCopy(amounts[p], buy[p].date)
  <1>1. buy \in [Purchases -> PurchaseRecords] /\ \A p \in Purchases : buy[p].date \in Nat
    BY DEF PurchaseRecords
  <1>2. \A p \in parts : amounts[p] \in Nat /\ p \in Purchases
    OBVIOUS
  <1>3. ASSUME NEW p \in parts
        PROVE  /\ Part(p) \in PurchaseRecords
               /\ Part(p).quantity = amounts[p] /\ Part(p).amount = amounts[p]
    <2>1. NewPurchase(amounts[p], 0, buy[p].date) \in PurchaseRecords
      BY <1>1, <1>2, <1>3 DEF NewPurchase, PurchaseRecords
    <2>2. /\ NewPurchase(amounts[p], 0, buy[p].date).quantity = amounts[p]
          /\ NewPurchase(amounts[p], 0, buy[p].date).amount = amounts[p]
      BY DEF NewPurchase
    <2>3. QED
      BY <2>1, <2>2 DEF SplitCopy, PurchaseRecords
  <1>4. ASSUME NEW p \in parts PROVE Part(p).posted /\ ~Part(p).checked /\ Part(p).seen
    BY <1>4 DEF SplitCopy, NewPurchase
  <1>5. \A p \in Purchases : copies[p] = IF p \in parts THEN Part(p) ELSE buy[p]
    BY DEF CopyPurchases
  <1>6. DOMAIN copies = Purchases /\ copies = [p \in Purchases |-> copies[p]]
    BY DEF CopyPurchases
  <1> HIDE DEF copies, Part
  <1>7. copies \in [Purchases -> PurchaseRecords]
    BY <1>1, <1>3, <1>5, <1>6
  <1>8. QED
    BY <1>3, <1>4, <1>5, <1>7 DEF copies

\* What a calculation has listed.
LEMMA ListedFacts ==
    ASSUME buy \in [Purchases -> PurchaseRecords], splits \in [Purchases -> Totals],
           sell \in [Sales -> SaleRecords], NEW d, ListTransactions(d), ~Finish
    PROVE  \E buys \in SUBSET Purchases, parts \in SUBSET Purchases,
              notes \in SUBSET Unchecked(note, d), last \in Sales :
           \E amounts \in [parts -> Nat] :
              /\ parts \subseteq buys /\ buys \ parts \subseteq Unchecked(buy, d)
              /\ \A p \in parts : 0 < amounts[p] /\ amounts[p] <= splits[p].loose
              /\ queue' = [buys |-> buys, splits |-> parts, sales |-> Unchecked(sell, d),
                           notes |-> notes, lastDate |-> sell[last].date]
              /\ local' = CopyPurchases(parts, amounts)
  <1> DEFINE S == Unchecked(sell, d)
             P == Unchecked(buy, d)
             L == WithLooseSplits(d)
             N == Unchecked(note, d)
  <1>1. PICK buys \in OnePerKey(P \cup L, CodeOf), notes \in OnePerKey(N, NoteNumber),
             last \in S :
             \E parts \in SUBSET (buys \cap L) :
             \E amounts \in [parts -> UNION {1..splits[p].loose : p \in parts}] :
                /\ buys \ parts \subseteq P
                /\ \A p \in parts : amounts[p] <= splits[p].loose
                /\ queue' = [buys |-> buys, splits |-> parts, sales |-> S,
                             notes |-> notes, lastDate |-> sell[last].date]
                /\ local' = CopyPurchases(parts, amounts)
    BY DEF ListTransactions
  <1>2. PICK parts \in SUBSET (buys \cap L) :
             \E amounts \in [parts -> UNION {1..splits[p].loose : p \in parts}] :
                /\ buys \ parts \subseteq P
                /\ \A p \in parts : amounts[p] <= splits[p].loose
                /\ queue' = [buys |-> buys, splits |-> parts, sales |-> S,
                             notes |-> notes, lastDate |-> sell[last].date]
                /\ local' = CopyPurchases(parts, amounts)
    BY <1>1
  <1>3. PICK amounts \in [parts -> UNION {1..splits[p].loose : p \in parts}] :
                /\ buys \ parts \subseteq P
                /\ \A p \in parts : amounts[p] <= splits[p].loose
                /\ queue' = [buys |-> buys, splits |-> parts, sales |-> S,
                             notes |-> notes, lastDate |-> sell[last].date]
                /\ local' = CopyPurchases(parts, amounts)
    BY <1>2
  <1>4. P \subseteq Purchases /\ L \subseteq Purchases /\ S \subseteq Sales
    BY DEF Unchecked, WithLooseSplits
  <1>5. buys \subseteq P \cup L /\ notes \subseteq N
    BY DEF OnePerKey
  <1>6. \A p \in parts : amounts[p] \in UNION {1..splits[r].loose : r \in parts}
    BY <1>3
  <1>7. \A r \in parts : splits[r].loose \in Nat
    BY <1>4 DEF Totals
  <1>8. \A p \in parts : amounts[p] \in Nat /\ 0 < amounts[p]
    BY <1>6, <1>7
  <1>9. amounts \in [parts -> Nat]
    BY <1>3, <1>8
  <1> HIDE DEF P, L, S, N
  <1>10. /\ buys \in SUBSET Purchases /\ parts \in SUBSET Purchases /\ parts \subseteq buys
         /\ last \in Sales /\ notes \in SUBSET N
    BY <1>4, <1>5
  <1>11. QED
    BY <1>3, <1>8, <1>9, <1>10 DEF P, S, N

\* It is of its types.
LEMMA ListedType ==
    ASSUME TypeOK, NEW d, ListTransactions(d), ~Finish
    PROVE  queue' \in Queues /\ local' \in [Purchases -> PurchaseRecords]
  <1>1. /\ buy \in [Purchases -> PurchaseRecords] /\ splits \in [Purchases -> Totals]
        /\ sell \in [Sales -> SaleRecords] /\ note \in [CreditNotes -> EntryRecords]
    BY DEF TypeOK
  <1>2. PICK buys \in SUBSET Purchases, parts \in SUBSET Purchases,
             notes \in SUBSET Unchecked(note, d), last \in Sales :
             \E amounts \in [parts -> Nat] :
             /\ queue' = [buys |-> buys, splits |-> parts, sales |-> Unchecked(sell, d),
                          notes |-> notes, lastDate |-> sell[last].date]
             /\ local' = CopyPurchases(parts, amounts)
    BY <1>1, ListedFacts
  <1>3. PICK amounts \in [parts -> Nat] : local' = CopyPurchases(parts, amounts)
    BY <1>2
  <1>4. /\ sell[last].date \in Nat /\ Unchecked(sell, d) \subseteq Sales
        /\ notes \subseteq CreditNotes
    BY <1>1 DEF SaleRecords, Unchecked
  <1>5. queue' \in Queues
    BY <1>2, <1>4 DEF Queues
  <1>6. QED
    BY <1>1, <1>3, <1>5, CopyFacts

\* Every step keeps the types.
LEMMA TypeStep ==
    ASSUME TypeInv, SplitsInv, [Next]_vars
    PROVE  TypeInv'
  <1>l. ASSUME NEW d, ListTransactions(d), ~Finish
        PROVE  queue' \in Queues /\ local' \in [Purchases -> PurchaseRecords]
    BY <1>l, ListedType DEF TypeInv
  <1> USE DEF TypeInv, TypeOK, createConnectedInventoryAccountOnPurchase,
              createConnectedInventoryAccountOnSale
  <1> USE DataAssumption, NameAssumption
  <1>1. ASSUME NEW p \in Purchases, NEW q \in Quantities, NEW c \in Costs, NEW d \in Dates,
               PostPurchase(p, q, c, d)
        PROVE  TypeInv'
    <2>1. props' \in Props
      BY <1>1, EmptyTypes, UpdatePropsType, CheckLastTxDateType
         DEF PostPurchase, checkInventoryAccount
    <2>2. buy' \in [Purchases -> PurchaseRecords]
      <3>1. NewPurchase(q, c, d) \in PurchaseRecords
        BY DEF NewPurchase, PurchaseRecords
      <3>2. QED
        BY <1>1, <3>1 DEF PostPurchase
    <2>3. QED
      BY <1>1, <2>1, <2>2 DEF PostPurchase, run
  <1>2. ASSUME NEW s \in Sales, NEW q \in Quantities, NEW d \in Dates, PostSale(s, q, d)
        PROVE  TypeInv'
    <2>1. props' \in Props
      BY <1>2, CheckLastTxDateType DEF PostSale
    <2>2. sell' \in [Sales -> SaleRecords]
      BY <1>2 DEF PostSale, SaleRecords
    <2>3. QED
      BY <1>2, <2>1, <2>2 DEF PostSale, run
  <1>3. ASSUME NEW n \in CreditNotes, NEW q \in Quantities, NEW a \in ExtraAmounts,
               NEW d \in Dates, PostCreditNote(n, q, a, d)
        PROVE  TypeInv'
    <2>1. props' \in Props
      BY <1>3, CheckLastTxDateType DEF PostCreditNote
    <2>2. note' \in [CreditNotes -> EntryRecords]
      BY <1>3 DEF PostCreditNote, EntryRecords
    <2>3. extras' \in [Codes -> [add : Nat, credit : Nat]]
      <3>1. [extras[NoteCode[n]] EXCEPT !.credit = @ + a] \in [add : Nat, credit : Nat]
        BY MoreExtraType
      <3>2. QED
        BY <1>3, <3>1 DEF PostCreditNote
    <2>4. QED
      BY <1>3, <2>1, <2>2, <2>3 DEF PostCreditNote, run
  <1>4. ASSUME NEW c \in Codes, NEW a \in ExtraAmounts,
               RecordAdditionalCost(c, a) \/ RecordCredit(c, a)
        PROVE  TypeInv'
    <2>1. extras' \in [Codes -> [add : Nat, credit : Nat]]
      <3>1. /\ [extras[c] EXCEPT !.credit = @ + a] \in [add : Nat, credit : Nat]
            /\ [extras[c] EXCEPT !.add = @ + a] \in [add : Nat, credit : Nat]
        BY MoreExtraType
      <3>2. CASE RecordAdditionalCost(c, a)
        BY <3>1, <3>2 DEF RecordAdditionalCost
      <3>3. CASE RecordCredit(c, a)
        BY <3>1, <3>3 DEF RecordCredit
      <3>4. QED
        BY <1>4, <3>2, <3>3
    <2>2. QED
      BY <1>4, <2>1 DEF RecordAdditionalCost, RecordCredit, run
  <1>5. ASSUME NEW d \in Dates, CloseBooks(d)
        PROVE  TypeInv'
    BY <1>5 DEF CloseBooks, run
  <1>6. CASE StartCalculation
    BY <1>6 DEF StartCalculation, run, books, Calls
  <1>7. CASE StartReset
    BY <1>7 DEF StartReset, run, books, Calls
  <1>8. ASSUME NEW d \in Dates, ListTransactions(d)
        PROVE  TypeInv'
    <2>1. CASE Finish
      BY <1>8, <2>1, FinishType DEF ListTransactions, books, Calls
    <2>2. CASE ~Finish
      <3>1. queue' \in Queues /\ local' \in [Purchases -> PurchaseRecords]
        BY <1>l, <1>8, <2>2
      <3>2. QED
        BY <1>8, <2>2, <3>1 DEF ListTransactions, books, Calls
    <2>3. QED
      BY <2>1, <2>2
  <1>9. ASSUME NEW n \in CreditNotes, ProcessCreditNote(n)
        PROVE  TypeInv'
    <2> DEFINE q == note[n].quantity
    <2>1. q \in Nat
      BY DEF EntryRecords
    <2>2. CASE Finish
      BY <1>9, <2>2, FinishType DEF ProcessCreditNote, books, Calls
    <2>3. CASE queue' = [queue EXCEPT !.notes = @ \ {n}] /\ UNCHANGED <<pc, copy, local, current, plan>>
      <3>1. queue' \in Queues
        BY <2>3 DEF Queues
      <3>2. QED
        BY <1>9, <2>3, <3>1 DEF ProcessCreditNote, books
    <2>4. ASSUME NEW p \in queue.buys, ~ReturnsAll(local[p], q),
                 queue' = [queue EXCEPT !.notes = @ \ {n}],
                 local' = [local EXCEPT ![p] = AfterReturn(@, q)],
                 plan' = [plan EXCEPT !.splits[p] = WithReturn(@, q),
                                      !.buys = @ \cup {p}, !.notes = @ \cup {n},
                                      !.locked = @ \/ Locked(buy[p].date)
                                                   \/ Locked(note[n].date)],
                 UNCHANGED <<pc, copy, current>>
          PROVE  TypeInv'
      <3>1. p \in Purchases
        BY DEF Queues
      <3>2. queue' \in Queues
        BY <2>4 DEF Queues
      <3>3. local' \in [Purchases -> PurchaseRecords]
        BY <2>1, <2>4, <3>1, AfterReturnFacts
      <3>4. plan' \in Plans
        <4> DEFINE t == WithReturn(plan.splits[p], q)
                   S == [plan.splits EXCEPT ![p] = t]
                   B == plan.buys \cup {p}
                   N == plan.notes \cup {n}
                   L == plan.locked \/ Locked(buy[p].date) \/ Locked(note[n].date)
        <4>1. plan.splits \in [Purchases -> Totals]
          BY DEF Plans
        <4>2. t \in Totals
          BY <2>1, <3>1, <4>1, WithReturnFacts
        <4>3. /\ S \in [Purchases -> Totals] /\ L \in BOOLEAN
              /\ B \in SUBSET Purchases /\ N \in SUBSET CreditNotes
          BY <3>1, <4>1, <4>2 DEF Plans, Locked
        <4>4. plan' = [plan EXCEPT !.splits = S, !.buys = B, !.notes = N, !.locked = L]
          BY <2>4
        <4> HIDE DEF S, B, N, L
        <4>5. QED
          BY <4>3, <4>4 DEF Plans
      <3>5. QED
        BY <1>9, <2>4, <3>2, <3>3, <3>4 DEF ProcessCreditNote, books
    <2>5. QED
      BY <1>9, <2>2, <2>3, <2>4 DEF ProcessCreditNote
  <1>10. CASE CreditNotesDone
    BY <1>10 DEF CreditNotesDone, run, books, Calls
  <1>11. ASSUME NEW s \in Sales, NextSale(s)
         PROVE  TypeInv'
    <2>1. sell[s].quantity \in Nat
      BY DEF SaleRecords
    <2>2. queue' \in Queues
      BY <1>11 DEF NextSale, Queues
    <2>3. current' \in CurrentSales /\ current'.sale = s
      BY <1>11, <2>1 DEF NextSale, CurrentSales
    <2>4. QED
      BY <1>11, <2>2, <2>3 DEF NextSale, books, Calls
  <1>12. CASE SalesDone
    BY <1>12 DEF SalesDone, fireBatchOperations, run, books, Calls
  <1>13. ASSUME NEW p \in Purchases, LiquidatePurchase(p)
         PROVE  TypeInv'
    <2> DEFINE w == WithExtras(local[p], getAdditionalCostsAndCreditNotes(p))
    <2>1. w \in PurchaseRecords /\ w.amount = local[p].amount
      BY WithExtrasFacts DEF getAdditionalCostsAndCreditNotes
    <2>2. Liquidated(w) \in PurchaseRecords
      BY <2>1, LiquidatedFacts
    <2>3. current.sold - w.amount \in Nat /\ current.cost + CostOfAll(w) \in Int
      <3>1. w.amount \in Nat /\ w.totalCost \in Int
        BY <2>1 DEF PurchaseRecords
      <3>2. current.sold \in Nat /\ current.cost \in Int
        BY DEF CurrentSales
      <3>3. current.sold >= w.amount
        BY <1>13, <2>1 DEF LiquidatePurchase
      <3>4. QED
        BY <3>1, <3>2, <3>3 DEF CostOfAll
    <2>4. /\ local' = [local EXCEPT ![p] = Liquidated(w)]
          /\ current' = [sale |-> current.sale, sold |-> current.sold - w.amount,
                         cost |-> current.cost + CostOfAll(w)]
          /\ plan' = [plan EXCEPT !.buys = @ \cup {p}, !.locked = @ \/ Locked(buy[p].date)]
      BY <1>13 DEF LiquidatePurchase
    <2> HIDE DEF w
    <2>5. current' \in CurrentSales /\ current'.sale = current.sale
      BY <2>3, <2>4 DEF CurrentSales
    <2>6. plan' \in Plans
      BY <2>4 DEF Plans, Locked
    <2>7. local' \in [Purchases -> PurchaseRecords]
      BY <2>2, <2>4
    <2>8. QED
      BY <1>13, <2>5, <2>6, <2>7 DEF LiquidatePurchase, books
  <1>14. ASSUME NEW p \in Purchases, SplitPurchase(p)
         PROVE  TypeInv'
    <2> DEFINE w == WithExtras(local[p], getAdditionalCostsAndCreditNotes(p))
               cost == current.sold * UnitCost(w.totalCost, w.amount)
               t == WithSale(plan.splits[p], current.sold, cost)
               S == [plan.splits EXCEPT ![p] = t]
    <2>1. w \in PurchaseRecords /\ w.amount = local[p].amount
      BY WithExtrasFacts DEF getAdditionalCostsAndCreditNotes
    <2>2. current.sold \in Nat /\ current.sold < w.amount
      BY <1>14, <2>1 DEF SplitPurchase, CurrentSales
    <2>3. Remaining(w, current.sold) \in PurchaseRecords /\ cost \in Int
      BY <2>1, <2>2, RemainingFacts
    <2>4. /\ local' = [local EXCEPT ![p] = Remaining(w, current.sold)]
          /\ current' = [sale |-> current.sale, sold |-> 0, cost |-> current.cost + cost]
          /\ plan' = [plan EXCEPT !.splits = S, !.buys = @ \cup {p},
                                  !.locked = @ \/ Locked(buy[p].date)]
      BY <1>14 DEF SplitPurchase
    <2> HIDE DEF w, cost
    <2>5. current' \in CurrentSales /\ current'.sale = current.sale
      BY <2>3, <2>4 DEF CurrentSales
    <2>6. plan' \in Plans
      <3>1. t \in Totals
        BY <2>2, <2>3, WithSaleFacts DEF Plans
      <3> HIDE DEF t
      <3>2. S \in [Purchases -> Totals]
        BY <3>1 DEF Plans
      <3> HIDE DEF S
      <3>3. QED
        BY <2>4, <3>2 DEF Plans, Locked
    <2>7. local' \in [Purchases -> PurchaseRecords]
      BY <2>3, <2>4
    <2>8. QED
      BY <1>14, <2>5, <2>6, <2>7 DEF SplitPurchase, books
  <1>r. ASSUME NEW p \in Purchases, RejectSplit(p)
        PROVE  TypeInv'
    BY <1>r, FinishType DEF RejectSplit, books, Calls
  <1>15. CASE FinishSale
    <2>1. CASE Finish
      BY <1>15, <2>1, FinishType DEF FinishSale, books, Calls
    <2>2. CASE ~Finish
      <3> DEFINE s == current.sale
                 D == IF current.sold = 0 THEN plan.sells \cup {s} ELSE plan.sells
                 C == [plan.cost EXCEPT ![s] = current.cost]
      <3>1. s \in Sales /\ current.cost \in Int
        BY <1>15 DEF FinishSale, CurrentSales
      <3>2. D \in SUBSET Sales /\ C \in [Sales -> Int]
        BY <3>1 DEF Plans
      <3>3. /\ plan' = [plan EXCEPT !.sells = D, !.cogs = @ \cup {s}, !.cost = C]
            /\ current' = NoCurrentSale
            /\ pc' = "sales" /\ UNCHANGED <<copy, local, queue>>
        BY <1>15, <2>2 DEF FinishSale
      <3> HIDE DEF D, C
      <3>4. plan' \in Plans
        BY <3>1, <3>2, <3>3 DEF Plans
      <3>5. current' \in CurrentSales
        BY <3>3, EmptyTypes
      <3>6. QED
        BY <1>15, <3>3, <3>4, <3>5 DEF FinishSale, books, Calls
    <2>3. QED
      BY <2>1, <2>2
  <1>16. CASE CreateInventoryTransactions
    <2>1. ASSUME NEW p \in Purchases
          PROVE  /\ splits[p].quantity + plan.splits[p].quantity \in Nat
                 /\ splits[p].cost + plan.splits[p].cost \in Int
                 /\ splits[p].credited + plan.splits[p].credited \in Nat
                 /\ splits[p].loose \in Nat
      BY DEF Plans, Totals
    <2>t. splits' \in [Purchases -> Totals]
      BY <1>16, <2>1 DEF CreateInventoryTransactions, Totals
    <2>2. QED
      BY <1>16, <2>t DEF CreateInventoryTransactions, fireBatchOperations, run, Calls
  <1>17. CASE UpdateInventoryTransactions
    <2>1. buy' \in [Purchases -> PurchaseRecords]
      BY <1>17 DEF UpdateInventoryTransactions
    <2>2. sell' \in [Sales -> SaleRecords] /\ note' \in [CreditNotes -> EntryRecords]
      BY <1>17, CheckAllType, LogAllType DEF UpdateInventoryTransactions
    <2>s. splits' \in [Purchases -> Totals]
      <3>1. ASSUME NEW p \in queue.splits PROVE WithPart(splits[p], local[p]) \in Totals
        <4>1. p \in Purchases
          BY DEF Queues
        <4>2. /\ splits[p].loose <= splits[p].credited /\ splits[p].credited <= splits[p].quantity
              /\ local[p].amount <= local[p].quantity /\ local[p].quantity <= splits[p].loose
          BY <1>17, <3>1, <4>1 DEF SplitsInv, UpdateInventoryTransactions
        <4>3. QED
          BY <4>1, <4>2, WithPartFacts
      <3>2. QED
        BY <1>17, <3>1 DEF UpdateInventoryTransactions
    <2>3. QED
      BY <1>17, <2>1, <2>2, <2>s DEF UpdateInventoryTransactions, fireBatchOperations, run, Calls
  <1>18. CASE CreateFinancialTransactions
    <2>1. cogs' \in [Sales -> Seq(Int)]
      BY <1>18 DEF CreateFinancialTransactions, Plans
    <2>2. QED
      BY <1>18, <2>1 DEF CreateFinancialTransactions, fireBatchOperations, run, Calls
  <1>19. CASE storeLastCalcTxDate
    <2>1. props' \in Props
      <3>1. [copy EXCEPT !.calcDate = queue.lastDate] \in Props
        BY DEF Props, Queues
      <3>2. QED
        BY <1>19, <3>1, UpdatePropsType DEF storeLastCalcTxDate
    <2>2. QED
      BY <1>19, <2>1, FinishType DEF storeLastCalcTxDate, Calls
  <1>20. CASE ReadAccountToReset
    BY <1>20 DEF ReadAccountToReset, run, books, Calls
  <1>21. CASE ListTransactionsToReset
    <2>1. CASE Finish
      BY <1>21, <2>1, FinishType DEF ListTransactionsToReset, books, Calls
    <2>2. CASE ~Finish
      <3>1. plan' \in Plans /\ \A s \in plan'.cogs : cogs[s] # <<>>
        <4> DEFINE sales == {s \in Posted(sell) : sell[s].logged /\ sell[s].bot}
                   T == SplitsToTrash
                   C == {s \in sales : cogs[s] # <<>>}
        <4>1. plan' = [splits |-> EmptyPlan.splits, trash |-> T,
                       buys |-> Posted(buy), sells |-> sales, notes |-> Posted(note),
                       cogs |-> C, cost |-> EmptyPlan.cost, locked |-> FALSE]
          BY <1>21, <2>2 DEF ListTransactionsToReset
        <4>2. EmptyPlan.splits \in [Purchases -> Totals] /\ EmptyPlan.cost \in [Sales -> Int]
          BY EmptyTypes DEF Plans
        <4>3. /\ T \in SUBSET Purchases /\ Posted(buy) \in SUBSET Purchases
              /\ sales \in SUBSET Sales /\ C \in SUBSET Sales
              /\ Posted(note) \in SUBSET CreditNotes
          BY DEF Posted, SplitsToTrash
        <4>4. \A s \in C : cogs[s] # <<>>
          OBVIOUS
        <4> HIDE DEF sales, T, C
        <4>5. QED
          BY <4>1, <4>2, <4>3, <4>4 DEF Plans
      <3>2. QED
        BY <1>21, <2>2, <3>1 DEF ListTransactionsToReset, fireResetOperations, books, Calls
    <2>3. QED
      BY <2>1, <2>2
  <1>22. CASE TrashFinancialTransactions
    <2>1. cogs' \in [Sales -> Seq(Int)]
      BY <1>22 DEF TrashFinancialTransactions, Plans
    <2>2. QED
      BY <1>22, <2>1 DEF TrashFinancialTransactions, fireResetOperations, run, Calls
  <1>23. CASE RestoreInventoryTransactions
    <2>1. buy' \in [Purchases -> PurchaseRecords]
      BY <1>23, RestoredFacts DEF RestoreInventoryTransactions
    <2>2. sell' \in [Sales -> SaleRecords] /\ note' \in [CreditNotes -> EntryRecords]
      BY <1>23, CheckAllType, LogAllType DEF RestoreInventoryTransactions
    <2>s. splits' \in [Purchases -> Totals]
      <3>1. \A p \in Purchases : [splits[p] EXCEPT !.loose = splits[p].credited] \in Totals
        BY DEF Totals
      <3>2. QED
        BY <1>23, <3>1 DEF RestoreInventoryTransactions
    <2>3. QED
      BY <1>23, <2>1, <2>2, <2>s DEF RestoreInventoryTransactions, fireResetOperations, run, Calls
  <1>24. CASE TrashInventoryTransactions
    <2>1. splits' \in [Purchases -> Totals]
      BY <1>24 DEF TrashInventoryTransactions, Totals, NoTotals
    <2>2. QED
      BY <1>24, <2>1 DEF TrashInventoryTransactions, fireResetOperations, run, Calls
  <1>25. CASE ClearAccount
    <2>1. props' \in Props
      BY <1>25, EmptyTypes, UpdatePropsType DEF ClearAccount
    <2>2. QED
      BY <1>25, <2>1, FinishType DEF ClearAccount, Calls
  <1>26. CASE Crash
    <2>1. torn' \in BOOLEAN
      BY <1>26 DEF Crash, NoLooseSplits
    <2>2. QED
      BY <1>26, <2>1, FinishType DEF Crash, books, Calls
  <1>27. CASE UNCHANGED vars
    BY <1>27 DEF vars, books, run
  <1>28. QED
    BY <1>1, <1>2, <1>3, <1>4, <1>5, <1>6, <1>7, <1>8, <1>9, <1>10, <1>11, <1>12, <1>13,
       <1>14, <1>r, <1>15, <1>16, <1>17, <1>18, <1>19, <1>20, <1>21, <1>22, <1>23, <1>24,
       <1>25, <1>26, <1>27
       DEF Next, Handlers, Calculation, Reset

\* The initial state is of its types.
LEMMA InitType ==
    ASSUME Init
    PROVE  TypeInv
  <1>1. buy \in [Purchases -> PurchaseRecords] /\ local \in [Purchases -> PurchaseRecords]
    BY EmptyTypes DEF Init, NoCopies
  <1>2. splits \in [Purchases -> Totals]
    BY DEF Init, Totals, NoTotals
  <1>3. sell \in [Sales -> SaleRecords] /\ note \in [CreditNotes -> EntryRecords]
    BY DEF Init, EntryRecords, NoEntry, SaleRecords, NoSaleEntry, NoDate
  <1>4. QED
    <2>1. torn \in BOOLEAN /\ crashes \in Nat
      BY DEF Init
    <2>2. QED
      BY <1>1, <1>2, <1>3, <2>1, EmptyTypes DEF Init, TypeInv, TypeOK, Calls

\* A step that leaves the splits alone, those that a run has planned and those it
\* has listed.
LEMMA SplitsStutter ==
    ASSUME SplitsInv, UNCHANGED splits,
           plan'.splits = plan.splits \/ plan'.splits = EmptyPlan.splits,
           (Calculating \/ pc = "updateInventory")' =>
              /\ Calculating \/ pc = "updateInventory"
              /\ queue'.splits = queue.splits /\ local' = local
    PROVE  SplitsInv'
  <1>1. \A p \in Purchases : EmptyPlan.splits[p].credited <= EmptyPlan.splits[p].quantity
    BY DEF EmptyPlan, NoTotals
  <1>2. \A p \in Purchases :
          /\ splits'[p].loose <= splits'[p].credited
          /\ splits'[p].credited <= splits'[p].quantity
          /\ plan'.splits[p].credited <= plan'.splits[p].quantity
    BY <1>1 DEF SplitsInv
  <1>3. (Calculating \/ pc = "updateInventory")' =>
         \A p \in queue'.splits :
            /\ local'[p].amount <= local'[p].quantity
            /\ 0 < local'[p].quantity /\ local'[p].quantity <= splits'[p].loose
    BY DEF SplitsInv
  <1>4. QED
    BY <1>2, <1>3 DEF SplitsInv

\* The end of a run.
LEMMA SplitsFinish ==
    ASSUME SplitsInv, UNCHANGED splits, Finish
    PROVE  SplitsInv'
  <1>1. plan'.splits = EmptyPlan.splits /\ ~(Calculating \/ pc = "updateInventory")'
    BY DEF Finish, Calculating
  <1>2. QED
    BY <1>1, SplitsStutter

\* A run draws on a purchase or on one of its splits.
LEMMA SplitsDraw ==
    ASSUME SplitsInv, Calculating, Calculating', UNCHANGED splits,
           queue'.splits = queue.splits, queue.splits \subseteq Purchases, NEW p \in Purchases,
           \A r \in Purchases : r # p => local'[r] = local[r] /\ plan'.splits[r] = plan.splits[r],
           local'[p].quantity = local[p].quantity,
           local[p].amount \in Nat, local'[p].amount \in Nat, local[p].quantity \in Nat,
           local'[p].amount <= local[p].amount,
           plan'.splits[p].credited <= plan'.splits[p].quantity
    PROVE  SplitsInv'
  <1>1. \A r \in Purchases :
          /\ splits'[r].loose <= splits'[r].credited
          /\ splits'[r].credited <= splits'[r].quantity
          /\ plan'.splits[r].credited <= plan'.splits[r].quantity
    BY DEF SplitsInv
  <1>2. ASSUME NEW r \in queue'.splits
        PROVE  /\ local'[r].amount <= local'[r].quantity
               /\ 0 < local'[r].quantity /\ local'[r].quantity <= splits'[r].loose
    <2>1. /\ local[r].amount <= local[r].quantity
          /\ 0 < local[r].quantity /\ local[r].quantity <= splits[r].loose
      BY <1>2 DEF SplitsInv
    <2>2. CASE r = p
      BY <2>1, <2>2
    <2>3. CASE r # p
      BY <1>2, <2>1, <2>3
    <2>4. QED
      BY <2>2, <2>3
  <1>3. QED
    BY <1>1, <1>2 DEF SplitsInv

\* Every step keeps the splits of credit notes among the splits.
LEMMA SplitsStep ==
    ASSUME TypeInv, SplitsInv, [Next]_vars
    PROVE  SplitsInv'
  <1>t. /\ buy \in [Purchases -> PurchaseRecords] /\ local \in [Purchases -> PurchaseRecords]
        /\ splits \in [Purchases -> Totals] /\ plan.splits \in [Purchases -> Totals]
        /\ sell \in [Sales -> SaleRecords] /\ note \in [CreditNotes -> EntryRecords]
        /\ queue.buys \subseteq Purchases /\ queue.splits \subseteq Purchases
        /\ queue.sales \subseteq Sales /\ queue.notes \subseteq CreditNotes
        /\ current.sold \in Nat
        /\ extras \in [Codes -> [add : Nat, credit : Nat]] /\ CodeOf \in [Purchases -> Codes]
    BY NameAssumption DEF TypeInv, TypeOK, Plans, Queues, CurrentSales
  <1>n. \A p \in Purchases :
          /\ splits[p].quantity \in Nat /\ splits[p].credited \in Nat /\ splits[p].loose \in Nat
          /\ plan.splits[p].quantity \in Nat /\ plan.splits[p].credited \in Nat
          /\ local[p].quantity \in Nat /\ local[p].amount \in Nat
    BY <1>t DEF Totals, PurchaseRecords
  <1>1. CASE Handlers \/ UNCHANGED vars
    <2>1. UNCHANGED <<splits, pc, local, queue, plan>>
      BY <1>1 DEF Handlers, PostPurchase, PostSale, PostCreditNote, RecordAdditionalCost,
                  RecordCredit, CloseBooks, run, vars, books
    <2>2. (Calculating \/ pc = "updateInventory")' => Calculating \/ pc = "updateInventory"
      BY <2>1 DEF Calculating
    <2>3. QED
      BY <2>1, <2>2, SplitsStutter
  <1>2. CASE StartCalculation \/ StartReset \/ ReadAccountToReset \/ TrashFinancialTransactions
             \/ CreateFinancialTransactions
    <2>1. /\ UNCHANGED <<splits, plan>>
          /\ pc' \in {"idle", "list", "reset", "resetList", "storeDate", "restoreInventory"}
      BY <1>2 DEF StartCalculation, StartReset, ReadAccountToReset, CreateFinancialTransactions,
                  TrashFinancialTransactions, fireResetOperations, fireBatchOperations, run, books
    <2>2. QED
      BY <2>1, SplitsStutter DEF Calculating
  <1>3. CASE \/ storeLastCalcTxDate \/ ClearAccount \/ Crash
             \/ \E p \in Purchases : RejectSplit(p)
    BY <1>3, SplitsFinish DEF storeLastCalcTxDate, ClearAccount, Crash, RejectSplit, books
  <1>4. ASSUME NEW d \in Dates, ListTransactions(d) PROVE SplitsInv'
    <2>1. CASE Finish
      BY <1>4, <2>1, SplitsFinish DEF ListTransactions, books
    <2>2. CASE ~Finish
      <3>1. PICK buys \in SUBSET Purchases, parts \in SUBSET Purchases,
                 notes \in SUBSET Unchecked(note, d), last \in Sales :
                 \E amounts \in [parts -> Nat] :
                 /\ parts \subseteq buys /\ buys \ parts \subseteq Unchecked(buy, d)
                 /\ \A p \in parts : 0 < amounts[p] /\ amounts[p] <= splits[p].loose
                 /\ queue' = [buys |-> buys, splits |-> parts, sales |-> Unchecked(sell, d),
                              notes |-> notes, lastDate |-> sell[last].date]
                 /\ local' = CopyPurchases(parts, amounts)
        BY <1>4, <1>t, <2>2, ListedFacts
      <3>2. PICK amounts \in [parts -> Nat] :
                 /\ \A p \in parts : 0 < amounts[p] /\ amounts[p] <= splits[p].loose
                 /\ queue'.splits = parts /\ local' = CopyPurchases(parts, amounts)
        BY <3>1
      <3>3. \A p \in parts : local'[p].quantity = amounts[p] /\ local'[p].amount = amounts[p]
        <4>1. buy \in [Purchases -> PurchaseRecords]
          BY <1>t
        <4>2. \A p \in parts : /\ CopyPurchases(parts, amounts)[p].quantity = amounts[p]
                               /\ CopyPurchases(parts, amounts)[p].amount = amounts[p]
          BY <4>1, CopyFacts
        <4>3. QED
          BY <3>2, <4>2
      <3>4. \A p \in parts : amounts[p] \in Nat
        BY <3>2
      <3>5. UNCHANGED <<splits, plan>>
        BY <1>4, <2>2 DEF ListTransactions, books
      <3>6. QED
        BY <3>2, <3>3, <3>4, <3>5 DEF SplitsInv
    <2>3. QED
      BY <2>1, <2>2
  <1>5. ASSUME NEW n \in CreditNotes, ProcessCreditNote(n) PROVE SplitsInv'
    <2> DEFINE q == note[n].quantity
    <2>1. q \in Nat /\ pc = "credits" /\ Calculating /\ UNCHANGED splits
      BY <1>5, <1>t DEF ProcessCreditNote, EntryRecords, Calculating, books
    <2>2. CASE Finish
      BY <2>1, <2>2, SplitsFinish
    <2>3. CASE queue' = [queue EXCEPT !.notes = @ \ {n}] /\ UNCHANGED <<pc, copy, local, current, plan>>
      <3>1. queue'.splits = queue.splits
        BY <2>3 DEF TypeInv, TypeOK, Queues
      <3>2. QED
        BY <2>1, <2>3, <3>1, SplitsStutter
    <2>4. ASSUME NEW p \in queue.buys, ~ReturnsAll(local[p], q),
                 queue' = [queue EXCEPT !.notes = @ \ {n}],
                 local' = [local EXCEPT ![p] = AfterReturn(@, q)],
                 plan' = [plan EXCEPT !.splits[p] = WithReturn(@, q),
                                      !.buys = @ \cup {p}, !.notes = @ \cup {n},
                                      !.locked = @ \/ Locked(buy[p].date)
                                                   \/ Locked(note[n].date)],
                 UNCHANGED <<pc, copy, current>>
          PROVE  SplitsInv'
      <3>1. queue'.splits = queue.splits /\ p \in Purchases
        BY <1>t, <2>4 DEF TypeInv, TypeOK, Queues
      <3>2. /\ local'[p] = AfterReturn(local[p], q)
            /\ \A r \in Purchases : r # p => local'[r] = local[r]
        BY <1>t, <2>4
      <3>3. /\ local'[p].quantity = local[p].quantity /\ local'[p].amount \in Nat
            /\ local'[p].amount <= local[p].amount
        <4>1. /\ local'[p] \in PurchaseRecords /\ local'[p].quantity = local[p].quantity
              /\ local'[p].amount + q = local[p].amount
          BY <1>t, <2>1, <2>4, <3>1, <3>2, AfterReturnFacts
        <4>2. local'[p].amount \in Nat
          BY <4>1 DEF PurchaseRecords
        <4>3. QED
          BY <1>n, <2>1, <3>1, <4>1, <4>2
      <3>4. plan'.splits = [plan.splits EXCEPT ![p] = WithReturn(plan.splits[p], q)]
        BY <2>4 DEF TypeInv, TypeOK, Plans
      <3>5. /\ plan'.splits[p] = WithReturn(plan.splits[p], q)
            /\ \A r \in Purchases : r # p => plan'.splits[r] = plan.splits[r]
        BY <1>t, <3>1, <3>4
      <3>6. /\ plan'.splits[p].quantity = plan.splits[p].quantity + q
            /\ plan'.splits[p].credited = plan.splits[p].credited + q
        <4>1. plan.splits[p] \in Totals /\ q \in Nat
          BY <1>t, <2>1, <3>1
        <4> HIDE DEF q
        <4>2. /\ WithReturn(plan.splits[p], q).quantity = plan.splits[p].quantity + q
              /\ WithReturn(plan.splits[p], q).credited = plan.splits[p].credited + q
          BY <4>1, WithReturnFacts
        <4>3. QED
          BY <3>5, <4>2
      <3>7. plan'.splits[p].credited <= plan'.splits[p].quantity
        BY <1>n, <2>1, <3>1, <3>6 DEF SplitsInv
      <3>8. Calculating'
        BY <2>1, <2>4 DEF Calculating
      <3>9. QED
        BY <1>n, <1>t, <2>1, <3>1, <3>2, <3>3, <3>5, <3>7, <3>8, SplitsDraw
    <2>5. QED
      BY <1>5, <2>2, <2>3, <2>4 DEF ProcessCreditNote
  <1>6. CASE CreditNotesDone \/ SalesDone \/ \E s \in Sales : NextSale(s)
    <2>1. Calculating /\ queue'.splits = queue.splits /\ UNCHANGED <<splits, local, plan>>
      BY <1>6 DEF CreditNotesDone, SalesDone, NextSale, Calculating, TypeInv, TypeOK, Queues,
                  run, books
    <2>2. QED
      BY <2>1, SplitsStutter
  <1>7. ASSUME NEW p \in Purchases, LiquidatePurchase(p) PROVE SplitsInv'
    <2> DEFINE w == WithExtras(local[p], getAdditionalCostsAndCreditNotes(p))
    <2>1. /\ pc = "purchases" /\ pc' = "purchases" /\ UNCHANGED <<splits, queue>>
          /\ local' = [local EXCEPT ![p] = Liquidated(w)]
          /\ plan' = [plan EXCEPT !.buys = @ \cup {p}, !.locked = @ \/ Locked(buy[p].date)]
      BY <1>7 DEF LiquidatePurchase, books
    <2>2. /\ w \in PurchaseRecords /\ w.quantity = local[p].quantity
          /\ w.amount = local[p].amount
      BY <1>t, WithExtrasFacts DEF getAdditionalCostsAndCreditNotes
    <2> HIDE DEF w
    <2>3. /\ local'[p] = Liquidated(w) /\ \A r \in Purchases : r # p => local'[r] = local[r]
      BY <1>t, <2>1
    <2>4. local'[p].quantity = local[p].quantity /\ local'[p].amount = local[p].amount
      BY <2>2, <2>3, LiquidatedFacts
    <2>5. plan'.splits = plan.splits
      BY <2>1 DEF TypeInv, TypeOK, Plans
    <2>6. plan'.splits[p].credited <= plan'.splits[p].quantity
      BY <2>5 DEF SplitsInv
    <2>7. Calculating /\ Calculating'
      BY <2>1 DEF Calculating
    <2>8. QED
      BY <1>n, <1>t, <2>1, <2>3, <2>4, <2>5, <2>6, <2>7, SplitsDraw
  <1>8. ASSUME NEW p \in Purchases, SplitPurchase(p) PROVE SplitsInv'
    <2> DEFINE w == WithExtras(local[p], getAdditionalCostsAndCreditNotes(p))
               q == current.sold
               cost == q * UnitCost(w.totalCost, w.amount)
    <2>1. /\ pc = "purchases" /\ pc' = "purchases" /\ UNCHANGED <<splits, queue>>
          /\ local' = [local EXCEPT ![p] = Remaining(w, q)]
          /\ plan' = [plan EXCEPT !.splits[p] = WithSale(@, q, cost), !.buys = @ \cup {p},
                                  !.locked = @ \/ Locked(buy[p].date)]
          /\ q \in Nat /\ q < local[p].amount
      BY <1>8, <1>t DEF SplitPurchase, books
    <2>2. /\ w \in PurchaseRecords /\ w.quantity = local[p].quantity
          /\ w.amount = local[p].amount
      BY <1>t, WithExtrasFacts DEF getAdditionalCostsAndCreditNotes
    <2> HIDE DEF w
    <2>3. /\ Remaining(w, q) \in PurchaseRecords /\ cost \in Int
          /\ Remaining(w, q).quantity = local[p].quantity
          /\ Remaining(w, q).amount + q = local[p].amount
      BY <2>1, <2>2, RemainingFacts
    <2> HIDE DEF cost
    <2>4. /\ local'[p] = Remaining(w, q) /\ \A r \in Purchases : r # p => local'[r] = local[r]
      BY <1>t, <2>1
    <2>5. local'[p].amount \in Nat
      BY <2>3, <2>4 DEF PurchaseRecords
    <2>6. local'[p].quantity = local[p].quantity /\ local'[p].amount <= local[p].amount
      BY <1>n, <2>1, <2>3, <2>4, <2>5
    <2>7. plan'.splits = [plan.splits EXCEPT ![p] = WithSale(plan.splits[p], q, cost)]
      BY <2>1 DEF TypeInv, TypeOK, Plans
    <2>8. /\ plan'.splits[p] = WithSale(plan.splits[p], q, cost)
          /\ \A r \in Purchases : r # p => plan'.splits[r] = plan.splits[r]
      BY <1>t, <2>7
    <2>9. /\ plan'.splits[p].quantity = plan.splits[p].quantity + q
          /\ plan'.splits[p].credited = plan.splits[p].credited
      <3>1. plan.splits[p] \in Totals /\ q \in Nat /\ cost \in Int
        BY <1>t, <2>1, <2>3
      <3> HIDE DEF q
      <3>2. /\ WithSale(plan.splits[p], q, cost).quantity = plan.splits[p].quantity + q
            /\ WithSale(plan.splits[p], q, cost).credited = plan.splits[p].credited
        BY <3>1, WithSaleFacts
      <3>3. QED
        BY <2>8, <3>2
    <2>10. plan'.splits[p].credited <= plan'.splits[p].quantity
      BY <1>n, <2>1, <2>9 DEF SplitsInv
    <2>11. Calculating /\ Calculating'
      BY <2>1 DEF Calculating
    <2>12. QED
      BY <1>n, <1>t, <2>1, <2>4, <2>5, <2>6, <2>8, <2>10, <2>11, SplitsDraw
  <1>9. CASE FinishSale
    <2>1. CASE Finish
      BY <1>9, <2>1, SplitsFinish DEF FinishSale, books
    <2>2. CASE ~Finish
      <3>1. Calculating /\ UNCHANGED <<splits, local, queue>>
        BY <1>9, <2>2 DEF FinishSale, Calculating, books
      <3>2. plan'.splits = plan.splits
        BY <1>9, <2>2 DEF FinishSale, TypeInv, TypeOK, Plans
      <3>3. QED
        BY <3>1, <3>2, SplitsStutter
    <2>3. QED
      BY <2>1, <2>2
  <1>10. CASE CreateInventoryTransactions
    <2>1. /\ Calculating /\ UNCHANGED <<local, queue, plan>>
          /\ \A p \in Purchases :
                /\ splits'[p].quantity = splits[p].quantity + plan.splits[p].quantity
                /\ splits'[p].credited = splits[p].credited + plan.splits[p].credited
                /\ splits'[p].loose = splits[p].loose
      BY <1>10 DEF CreateInventoryTransactions, Calculating, run
    <2>2. \A p \in Purchases : /\ splits'[p].loose <= splits'[p].credited
                               /\ splits'[p].credited <= splits'[p].quantity
      BY <1>n, <2>1 DEF SplitsInv
    <2>3. QED
      BY <1>t, <2>1, <2>2 DEF SplitsInv
  <1>11. CASE UpdateInventoryTransactions
    <2>1. /\ pc = "updateInventory" /\ pc' = "createFinancial" /\ UNCHANGED plan
          /\ \A p \in Purchases : splits'[p] = IF p \in plan.buys \cap queue.splits
                                             THEN WithPart(splits[p], local[p]) ELSE splits[p]
      BY <1>11 DEF UpdateInventoryTransactions, fireBatchOperations, run
    <2>2. ASSUME NEW p \in Purchases
          PROVE  /\ splits'[p].loose <= splits'[p].credited
                 /\ splits'[p].credited <= splits'[p].quantity
      <3>1. splits[p].loose <= splits[p].credited /\ splits[p].credited <= splits[p].quantity
        BY DEF SplitsInv
      <3>2. CASE p \in plan.buys \cap queue.splits
        <4>1. local[p].amount <= local[p].quantity /\ local[p].quantity <= splits[p].loose
          BY <2>1, <3>2 DEF SplitsInv
        <4>2. splits'[p] = WithPart(splits[p], local[p])
          BY <2>1, <3>2
        <4>3. QED
          BY <1>t, <3>1, <4>1, <4>2, WithPartFacts
      <3>3. CASE p \notin plan.buys \cap queue.splits
        BY <2>1, <3>1, <3>3
      <3>4. QED
        BY <3>2, <3>3
    <2>3. QED
      BY <2>1, <2>2 DEF SplitsInv, Calculating
  <1>12. CASE ListTransactionsToReset
    <2>1. CASE Finish
      BY <1>12, <2>1, SplitsFinish DEF ListTransactionsToReset, books
    <2>2. CASE ~Finish
      <3>1. /\ plan'.splits = EmptyPlan.splits /\ pc' = "trashFinancial" /\ UNCHANGED splits
        BY <1>12, <2>2 DEF ListTransactionsToReset, fireResetOperations, books
      <3>2. QED
        BY <3>1, SplitsStutter DEF Calculating
    <2>3. QED
      BY <2>1, <2>2
  <1>13. CASE RestoreInventoryTransactions
    <2>1. /\ pc' = "trashInventory" /\ UNCHANGED plan
          /\ \A p \in Purchases :
                splits'[p] = IF p \in plan.trash
                             THEN [splits[p] EXCEPT !.loose = splits[p].credited] ELSE splits[p]
      BY <1>13 DEF RestoreInventoryTransactions, fireResetOperations, run
    <2>2. ASSUME NEW p \in Purchases
          PROVE  /\ splits'[p].loose <= splits'[p].credited
                 /\ splits'[p].credited <= splits'[p].quantity
      <3>1. splits[p].loose <= splits[p].credited /\ splits[p].credited <= splits[p].quantity
        BY DEF SplitsInv
      <3>2. CASE p \in plan.trash
        <4>1. splits[p] \in Totals /\ splits'[p] = [splits[p] EXCEPT !.loose = splits[p].credited]
          BY <1>t, <2>1, <3>2
        <4>2. /\ splits'[p].loose = splits[p].credited /\ splits'[p].credited = splits[p].credited
              /\ splits'[p].quantity = splits[p].quantity
          BY <4>1 DEF Totals
        <4>3. QED
          BY <1>n, <3>1, <4>2
      <3>3. CASE p \notin plan.trash
        BY <2>1, <3>1, <3>3
      <3>4. QED
        BY <3>2, <3>3
    <2>3. QED
      BY <2>1, <2>2 DEF SplitsInv, Calculating
  <1>14. CASE TrashInventoryTransactions
    <2>1. /\ pc' = "clearAccount" /\ UNCHANGED plan
          /\ \A p \in Purchases : splits'[p] = IF p \in plan.trash THEN NoTotals ELSE splits[p]
      BY <1>14 DEF TrashInventoryTransactions, fireResetOperations, run
    <2>2. \A p \in Purchases : /\ splits'[p].loose <= splits'[p].credited
                               /\ splits'[p].credited <= splits'[p].quantity
      BY <2>1 DEF SplitsInv, NoTotals
    <2>3. QED
      BY <2>1, <2>2 DEF SplitsInv, Calculating
  <1>15. QED
    BY <1>1, <1>2, <1>3, <1>4, <1>5, <1>6, <1>7, <1>8, <1>9, <1>10, <1>11, <1>12, <1>13, <1>14
       DEF Next, Calculation, Reset

\* The types hold in every state of every behaviour.
LEMMA TypeInvariant == Spec => [](TypeInv /\ SplitsInv)
  <1>1. Init => TypeInv
    BY InitType
  <1>2. Init => SplitsInv
    BY DEF Init, SplitsInv, Calculating, EmptyPlan, NoTotals
  <1>3. TypeInv /\ SplitsInv /\ [Next]_vars => (TypeInv /\ SplitsInv)'
    BY TypeStep, SplitsStep
  <1>4. QED
    BY <1>1, <1>2, <1>3, PTL DEF Spec

\* The records of the books and of a run always have their types; in
\* particular no quantity ever becomes negative.
THEOREM TypeCorrect == Spec => []TypeOK
  <1>1. TypeInv => TypeOK
    BY DEF TypeInv
  <1>2. QED
    BY <1>1, TypeInvariant, PTL
------------------------------------------------------------------------------
(* The safety invariant *)

\* The invariant does not depend on the rest of the state.
LEMMA SafetyStutter ==
    ASSUME SafetyInv, UNCHANGED <<buy, splits, sell, note, pc, local, queue, current, plan>>
    PROVE  SafetyInv'
  BY DEF SafetyInv, UnpostedInv, BookInv, MemoryInv, CalculationInv, ResetInv,
         Calculating, Found, Untouched

\* A run that ends without touching the Inventory Book.
LEMMA FinishSafety ==
    ASSUME SafetyInv, UNCHANGED <<buy, splits, sell, note>>, Finish
    PROVE  SafetyInv'
  <1>1. UnpostedInv' /\ BookInv'
    BY DEF SafetyInv, UnpostedInv, BookInv
  <1>2. /\ queue'.buys = {} /\ queue'.sales = {} /\ queue'.notes = {}
        /\ current'.sale = NoSale
        /\ plan'.buys = {} /\ plan'.sells = {} /\ plan'.notes = {}
        /\ plan' = EmptyPlan /\ pc' = "idle"
    BY DEF Finish, EmptyQueue, EmptyPlan, NoCurrentSale
  <1>3. MemoryInv'
    BY <1>2, NameAssumption DEF MemoryInv
  <1>4. CalculationInv' /\ ResetInv'
    BY <1>2 DEF CalculationInv, ResetInv, Calculating
  <1>5. QED
    BY <1>1, <1>3, <1>4 DEF SafetyInv

\* A step of a calculation before its batches: only the memory of the run
\* needs to be looked at.
LEMMA CalculationStep ==
    ASSUME SafetyInv, UNCHANGED <<buy, splits, sell, note>>, Calculating',
           MemoryInv', CalculationInv'
    PROVE  SafetyInv'
  <1>1. UnpostedInv' /\ BookInv'
    BY DEF SafetyInv, UnpostedInv, BookInv
  <1>2. ResetInv'
    BY DEF ResetInv, Calculating
  <1>3. QED
    BY <1>1, <1>2 DEF SafetyInv

\* A run draws on a purchase: its copy and its planned splits change, and
\* make up the same quantity as before.
LEMMA DrawOnPurchase ==
    ASSUME TypeInv, SafetyInv, Calculating, Calculating',
           UNCHANGED <<buy, splits>>, queue'.buys = queue.buys, queue'.splits = queue.splits,
           NEW p \in queue.buys, plan'.buys = plan.buys \cup {p},
           \A r \in Purchases : r # p => local'[r] = local[r] /\ plan'.splits[r] = plan.splits[r],
           local'[p].posted = local[p].posted, local'[p].quantity = local[p].quantity,
           local'[p].amount > 0,
           local'[p].amount + plan'.splits[p].quantity = local[p].amount + plan.splits[p].quantity,
           plan'.splits[p].quantity = 0 => plan'.splits[p].cost = 0
    PROVE  CalculationInv'
  <1>1. queue.buys \subseteq Purchases
    BY DEF TypeInv, TypeOK, Queues
  <1>2. \A r \in queue'.buys :
          /\ local'[r].posted /\ local'[r].amount > 0
          /\ r \notin queue'.splits => local'[r].quantity = buy'[r].quantity
    BY <1>1 DEF SafetyInv, CalculationInv
  <1>3. \A r \in queue'.buys :
          /\ local'[r].amount + plan'.splits[r].quantity = Found(r)'
          /\ plan'.splits[r].quantity = 0 => plan'.splits[r].cost = 0
    <2>1. \A r \in queue.buys : Found(r)' = Found(r)
      BY <1>1 DEF Found
    <2>2. QED
      BY <1>1, <2>1 DEF SafetyInv, CalculationInv
  <1>4. \A r \in Purchases : r \notin plan'.buys => plan'.splits[r] = NoTotals
    BY DEF SafetyInv, CalculationInv
  <1>5. plan'.buys \subseteq queue'.buys
    BY DEF SafetyInv, CalculationInv
  <1>6. pc' # "updateInventory"
    BY DEF Calculating
  <1>7. QED
    BY <1>2, <1>3, <1>4, <1>5, <1>6 DEF CalculationInv

\* Every step keeps what the books and the run's copies are known to satisfy.
LEMMA SafetyStep ==
    ASSUME TypeInv, SplitsInv, SafetyInv, [Next]_vars
    PROVE  SafetyInv'
  <1> USE DataAssumption, NameAssumption
  <1>t. /\ buy \in [Purchases -> PurchaseRecords] /\ local \in [Purchases -> PurchaseRecords]
        /\ splits \in [Purchases -> Totals] /\ plan.splits \in [Purchases -> Totals]
        /\ sell \in [Sales -> SaleRecords] /\ note \in [CreditNotes -> EntryRecords]
        /\ plan.buys \subseteq Purchases /\ queue.buys \subseteq Purchases
        /\ plan.trash \subseteq Purchases /\ queue.splits \subseteq Purchases
        /\ plan.sells \subseteq Sales /\ queue.sales \subseteq Sales
        /\ plan.notes \subseteq CreditNotes /\ queue.notes \subseteq CreditNotes
        /\ current.sold \in Nat
        /\ extras \in [Codes -> [add : Nat, credit : Nat]]
    BY DEF TypeInv, TypeOK, Plans, Queues, CurrentSales
  <1>1. ASSUME NEW p \in Purchases, NEW q \in Quantities, NEW c \in Costs, NEW d \in Dates,
               PostPurchase(p, q, c, d)
        PROVE  SafetyInv'
    <2>1. /\ ~buy[p].posted /\ buy' = [buy EXCEPT ![p] = NewPurchase(q, c, d)]
          /\ UNCHANGED <<splits, sell, note, pc, local, queue, current, plan>>
      BY <1>1 DEF PostPurchase, CanRecord, run
    <2>2. /\ splits[p] = NoTotals /\ buy'[p] = NewPurchase(q, c, d)
          /\ \A r \in Purchases : r # p => buy'[r] = buy[r]
          /\ p \notin queue.buys /\ p \notin plan.buys
      BY <1>t, <2>1 DEF SafetyInv, UnpostedInv, MemoryInv
    <2>3. /\ buy'[p].posted /\ buy'[p].amount = q /\ buy'[p].quantity = q
          /\ buy'[p].totalCost = c /\ buy'[p].cost = c /\ ~buy'[p].checked /\ ~buy'[p].seen
          /\ q \in Nat /\ q > 0
      <3>1. q \in Nat /\ q > 0
        OBVIOUS
      <3>2. /\ buy'[p].amount = q /\ buy'[p].quantity = q
            /\ buy'[p].totalCost = c /\ buy'[p].cost = c
        BY <2>2 DEF NewPurchase
      <3>3. buy'[p].posted /\ ~buy'[p].checked /\ ~buy'[p].seen
        BY <2>2 DEF NewPurchase
      <3>4. QED
        BY <3>1, <3>2, <3>3
    <2>4. UnpostedInv'
      BY <2>1, <2>2, <2>3 DEF SafetyInv, UnpostedInv
    <2>5. BookInv'
      BY <2>1, <2>2, <2>3 DEF SafetyInv, BookInv, NoTotals
    <2>6. MemoryInv'
      BY <1>t, <2>1, <2>2 DEF SafetyInv, MemoryInv
    <2>7. CalculationInv'
      BY <1>t, <2>1, <2>2 DEF SafetyInv, CalculationInv, Calculating, Found
    <2>8. ResetInv'
      BY <2>1, <2>2, <2>3 DEF SafetyInv, ResetInv, Untouched
    <2>9. QED
      BY <2>4, <2>5, <2>6, <2>7, <2>8 DEF SafetyInv
  <1>2. ASSUME NEW s \in Sales, NEW q \in Quantities, NEW d \in Dates, PostSale(s, q, d)
        PROVE  SafetyInv'
    <2>1. /\ \A r \in Sales : r # s => sell'[r] = sell[r]
          /\ sell'[s].posted /\ ~sell'[s].checked /\ ~sell'[s].logged /\ sell'[s].bot
          /\ UNCHANGED <<buy, splits, note, pc, local, queue, current, plan>>
      BY <1>2, <1>t DEF PostSale, run
    <2>2. UnpostedInv' /\ BookInv' /\ MemoryInv'
      BY <2>1 DEF SafetyInv, UnpostedInv, BookInv, MemoryInv
    <2>3. CalculationInv' /\ ResetInv'
      BY <2>1 DEF SafetyInv, CalculationInv, ResetInv, Calculating, Found, Untouched
    <2>4. QED
      BY <2>2, <2>3 DEF SafetyInv
  <1>3. ASSUME NEW n \in CreditNotes, NEW q \in Quantities, NEW a \in ExtraAmounts,
               NEW d \in Dates, PostCreditNote(n, q, a, d)
        PROVE  SafetyInv'
    <2>1. /\ \A r \in CreditNotes : r # n => note'[r] = note[r]
          /\ note'[n].posted /\ ~note'[n].checked
          /\ UNCHANGED <<buy, splits, sell, pc, local, queue, current, plan>>
      BY <1>3, <1>t DEF PostCreditNote, run
    <2>2. UnpostedInv' /\ BookInv' /\ MemoryInv'
      BY <2>1, <1>t DEF SafetyInv, UnpostedInv, BookInv, MemoryInv
    <2>3. CalculationInv' /\ ResetInv'
      BY <2>1 DEF SafetyInv, CalculationInv, ResetInv, Calculating, Found, Untouched
    <2>4. QED
      BY <2>2, <2>3 DEF SafetyInv
  <1>4. ASSUME NEW c \in Codes, NEW a \in ExtraAmounts,
               RecordAdditionalCost(c, a) \/ RecordCredit(c, a)
        PROVE  SafetyInv'
    BY <1>4, SafetyStutter DEF RecordAdditionalCost, RecordCredit, run
  <1>5. ASSUME NEW d \in Dates, CloseBooks(d)
        PROVE  SafetyInv'
    BY <1>5, SafetyStutter DEF CloseBooks, run
  <1>6. CASE StartCalculation \/ StartReset \/ ReadAccountToReset
    <2>1. /\ pc \in {"idle", "reset"} /\ pc' \in {"idle", "list", "reset", "resetList"}
          /\ UNCHANGED <<buy, splits, sell, note, local, queue, current, plan>>
      BY <1>6 DEF StartCalculation, StartReset, ReadAccountToReset, run, books
    <2>2. UnpostedInv' /\ BookInv' /\ MemoryInv'
      BY <2>1 DEF SafetyInv, UnpostedInv, BookInv, MemoryInv
    <2>3. CalculationInv' /\ ResetInv'
      BY <2>1 DEF SafetyInv, CalculationInv, ResetInv, Calculating, Found
    <2>4. QED
      BY <2>2, <2>3 DEF SafetyInv
  <1>7. ASSUME NEW d \in Dates, ListTransactions(d)
        PROVE  SafetyInv'
    <2>1. CASE Finish
      BY <1>7, <2>1, FinishSafety DEF ListTransactions, books
    <2>2. CASE ~Finish
      <3>1. PICK buys \in SUBSET Purchases, parts \in SUBSET Purchases,
                 notes \in SUBSET Unchecked(note, d), last \in Sales :
                 \E amounts \in [parts -> Nat] :
                 /\ parts \subseteq buys /\ buys \ parts \subseteq Unchecked(buy, d)
                 /\ \A p \in parts : 0 < amounts[p] /\ amounts[p] <= splits[p].loose
                 /\ queue' = [buys |-> buys, splits |-> parts, sales |-> Unchecked(sell, d),
                              notes |-> notes, lastDate |-> sell[last].date]
                 /\ local' = CopyPurchases(parts, amounts)
        BY <1>7, <1>t, <2>2, ListedFacts
      <3>2. PICK amounts \in [parts -> Nat] :
                 /\ \A p \in parts : 0 < amounts[p] /\ amounts[p] <= splits[p].loose
                 /\ local' = CopyPurchases(parts, amounts)
        BY <3>1
      <3>3. /\ pc = "list" /\ pc' = "credits"
            /\ UNCHANGED <<buy, splits, sell, note, current, plan>>
        BY <1>7, <2>2 DEF ListTransactions, books
      <3>4. /\ plan.buys = {} /\ plan.sells = {} /\ plan.notes = {}
            /\ \A p \in Purchases : plan.splits[p] = NoTotals
        <4>1. plan = EmptyPlan
          BY <3>3 DEF SafetyInv, MemoryInv
        <4>2. QED
          BY <4>1 DEF EmptyPlan
      <3>5. /\ queue'.buys = buys /\ queue'.splits = parts
            /\ queue'.sales = Unchecked(sell, d) /\ queue'.notes = notes
        BY <3>1
      <3>6. \A p \in buys : buy[p].posted
        <4>1. ASSUME NEW p \in parts PROVE buy[p].posted
          <5>1. p \in Purchases /\ 0 < amounts[p] /\ amounts[p] <= splits[p].loose
                /\ amounts[p] \in Nat /\ splits[p].loose \in Nat
            BY <1>t, <3>2, <4>1 DEF Totals
          <5>2. splits[p].loose # 0
            BY <5>1
          <5>3. splits[p] # NoTotals
            BY <5>2 DEF NoTotals
          <5>4. QED
            BY <5>1, <5>3 DEF SafetyInv, UnpostedInv
        <4>2. QED
          BY <3>1, <4>1 DEF Unchecked
      <3>7. MemoryInv'
        <4>1. /\ \A s \in Sales : s \in queue'.sales => sell[s].posted
              /\ \A n \in queue'.notes : note[n].posted
          BY <3>5 DEF Unchecked
        <4>2. QED
          BY <3>3, <3>4, <3>5, <3>6, <4>1 DEF SafetyInv, MemoryInv
      <3>8. /\ \A p \in Purchases : p \notin parts => local'[p] = buy[p]
            /\ \A p \in parts : /\ local'[p].posted /\ local'[p].quantity = amounts[p]
                                /\ local'[p].amount = amounts[p]
        <4>1. buy \in [Purchases -> PurchaseRecords]
          BY <1>t
        <4>2. \A p \in Purchases : p \notin parts => CopyPurchases(parts, amounts)[p] = buy[p]
          BY <4>1, CopyFacts
        <4>3. \A p \in parts : /\ CopyPurchases(parts, amounts)[p].quantity = amounts[p]
                               /\ CopyPurchases(parts, amounts)[p].amount = amounts[p]
          BY <4>1, CopyFacts
        <4>4. \A p \in parts : CopyPurchases(parts, amounts)[p].posted
          BY <4>1, CopyFacts
        <4>5. QED
          BY <3>2, <4>2, <4>3, <4>4
      <3>9. CalculationInv'
        <4>1. ASSUME NEW p \in queue'.buys
              PROVE  /\ local'[p].posted /\ local'[p].amount > 0
                     /\ p \notin queue'.splits => local'[p].quantity = buy'[p].quantity
                     /\ local'[p].amount + plan'.splits[p].quantity = Found(p)'
                     /\ plan'.splits[p].quantity = 0 => plan'.splits[p].cost = 0
          <5>1. p \in buys /\ p \in Purchases /\ buy[p].posted /\ buy[p].amount \in Nat
            BY <1>t, <3>5, <3>6, <4>1 DEF PurchaseRecords
          <5>2. plan'.splits[p].quantity = 0 /\ plan'.splits[p].cost = 0
            BY <3>3, <3>4, <5>1 DEF NoTotals
          <5>3. CASE p \in parts
            <6>1. amounts[p] \in Nat /\ amounts[p] > 0 /\ p \in queue'.splits
              BY <3>2, <3>5, <5>3
            <6>2. QED
              BY <3>8, <5>2, <5>3, <6>1 DEF Found
          <5>4. CASE p \notin parts
            <6>1. local'[p] = buy[p] /\ buy[p].amount > 0 /\ p \notin queue'.splits
              BY <3>5, <3>8, <5>1, <5>4 DEF SafetyInv, BookInv
            <6>2. QED
              BY <3>3, <5>1, <5>2, <6>1 DEF Found
          <5>5. QED
            BY <5>3, <5>4
        <4>2. QED
          BY <3>3, <3>4, <4>1 DEF CalculationInv
      <3>10. QED
        BY <3>3, <3>7, <3>9, CalculationStep DEF Calculating
    <2>3. QED
      BY <2>1, <2>2
  <1>8. ASSUME NEW n \in CreditNotes, ProcessCreditNote(n)
        PROVE  SafetyInv'
    <2> DEFINE q == note[n].quantity
    <2>1. q \in Nat /\ n \in queue.notes /\ note[n].posted /\ pc = "credits"
      BY <1>8, <1>t DEF ProcessCreditNote, SafetyInv, MemoryInv, EntryRecords
    <2>2. CASE Finish
      BY <1>8, <2>2, FinishSafety DEF ProcessCreditNote, books
    <2>3. CASE queue' = [queue EXCEPT !.notes = @ \ {n}] /\ UNCHANGED <<pc, copy, local, current, plan>>
      <3>1. /\ queue'.buys = queue.buys /\ queue'.splits = queue.splits
            /\ queue'.sales = queue.sales /\ queue'.notes \subseteq queue.notes
        BY <2>3 DEF TypeInv, TypeOK, Queues
      <3>2. UNCHANGED <<buy, splits, sell, note, pc, local, current, plan>>
        BY <1>8, <2>3 DEF ProcessCreditNote, books
      <3>3. MemoryInv'
        BY <3>1, <3>2 DEF SafetyInv, MemoryInv
      <3>4. CalculationInv'
        BY <3>1, <3>2 DEF SafetyInv, CalculationInv, Calculating, Found
      <3>5. QED
        BY <2>1, <3>2, <3>3, <3>4, CalculationStep DEF Calculating
    <2>4. ASSUME NEW p \in queue.buys, ~ReturnsAll(local[p], q),
                 queue' = [queue EXCEPT !.notes = @ \ {n}],
                 local' = [local EXCEPT ![p] = AfterReturn(@, q)],
                 plan' = [plan EXCEPT !.splits[p] = WithReturn(@, q),
                                      !.buys = @ \cup {p}, !.notes = @ \cup {n},
                                      !.locked = @ \/ Locked(buy[p].date)
                                                   \/ Locked(note[n].date)],
                 UNCHANGED <<pc, copy, current>>
          PROVE  SafetyInv'
      <3> DEFINE w == local'[p]
                 t == plan'.splits[p]
      <3>1. /\ queue'.buys = queue.buys /\ queue'.splits = queue.splits
            /\ queue'.sales = queue.sales /\ queue'.notes \subseteq queue.notes
        BY <2>4 DEF TypeInv, TypeOK, Queues
      <3>2. UNCHANGED <<buy, splits, sell, note, pc, current>>
        BY <1>8, <2>4 DEF ProcessCreditNote, books
      <3>3. /\ w.posted = local[p].posted /\ w.quantity = local[p].quantity
            /\ w.amount + q = local[p].amount /\ w.amount > 0 /\ w.amount \in Nat
            /\ \A r \in Purchases : r # p => local'[r] = local[r]
        <4>1. w = AfterReturn(local[p], q) /\ \A r \in Purchases : r # p => local'[r] = local[r]
          BY <1>t, <2>4
        <4>2. w \in PurchaseRecords
          BY <1>t, <2>1, <2>4, <4>1, AfterReturnFacts
        <4>3. w.amount \in Nat
          BY <4>2 DEF PurchaseRecords
        <4>4. QED
          BY <1>t, <2>1, <2>4, <4>1, <4>3, AfterReturnFacts
      <3>4. /\ t.quantity = plan.splits[p].quantity + q /\ t.cost = plan.splits[p].cost
            /\ \A r \in Purchases : r # p => plan'.splits[r] = plan.splits[r]
            /\ plan'.buys = plan.buys \cup {p} /\ plan'.notes = plan.notes \cup {n}
            /\ plan'.sells = plan.sells
        <4>1. /\ plan'.splits = [plan.splits EXCEPT ![p] = WithReturn(plan.splits[p], q)]
              /\ plan'.buys = plan.buys \cup {p} /\ plan'.notes = plan.notes \cup {n}
              /\ plan'.sells = plan.sells
          BY <2>4 DEF TypeInv, TypeOK, Plans
        <4>2. /\ t = WithReturn(plan.splits[p], q)
              /\ \A r \in Purchases : r # p => plan'.splits[r] = plan.splits[r]
          BY <1>t, <4>1
        <4>3. plan.splits[p] \in Totals /\ q \in Nat
          BY <1>t, <2>1
        <4> HIDE DEF q, t
        <4>4. /\ WithReturn(plan.splits[p], q).quantity = plan.splits[p].quantity + q
              /\ WithReturn(plan.splits[p], q).cost = plan.splits[p].cost
          BY <4>3, WithReturnFacts
        <4>5. QED
          BY <4>1, <4>2, <4>4
      <3>5. plan.splits[p].quantity \in Nat /\ local[p].amount \in Nat
        BY <1>t DEF Totals, PurchaseRecords
      <3>6. MemoryInv'
        BY <1>t, <2>1, <3>1, <3>2, <3>4 DEF SafetyInv, MemoryInv
      <3>7. CalculationInv'
        <4>1. w.amount + t.quantity = local[p].amount + plan.splits[p].quantity
          BY <2>1, <3>3, <3>4, <3>5
        <4>2. t.quantity = 0 => t.cost = 0
          <5>1. plan.splits[p].quantity = 0 => plan.splits[p].cost = 0
            BY <2>1 DEF SafetyInv, CalculationInv, Calculating
          <5>2. /\ t.quantity = plan.splits[p].quantity + q /\ t.cost = plan.splits[p].cost
                /\ q \in Nat /\ plan.splits[p].quantity \in Nat
            BY <2>1, <3>4, <3>5
          <5> HIDE DEF q, t
          <5>3. QED
            BY <5>1, <5>2
        <4>3. Calculating /\ Calculating'
          BY <2>1, <3>2 DEF Calculating
        <4>4. QED
          BY <3>1, <3>2, <3>3, <3>4, <4>1, <4>2, <4>3, DrawOnPurchase
      <3>8. QED
        BY <2>1, <3>2, <3>6, <3>7, CalculationStep DEF Calculating
    <2>5. QED
      BY <1>8, <2>2, <2>3, <2>4 DEF ProcessCreditNote
  <1>9. CASE CreditNotesDone \/ SalesDone
    <2>1. /\ Calculating /\ Calculating' /\ pc' # "updateInventory"
          /\ pc' \notin {"idle", "list", "reset", "resetList"}
          /\ UNCHANGED <<buy, splits, sell, note, local, queue, current, plan>>
      BY <1>9 DEF CreditNotesDone, SalesDone, fireBatchOperations, Calculating, run, books
    <2>2. MemoryInv'
      BY <2>1 DEF SafetyInv, MemoryInv
    <2>3. CalculationInv'
      BY <2>1 DEF SafetyInv, CalculationInv, Found
    <2>4. QED
      BY <2>1, <2>2, <2>3, CalculationStep
  <1>10. ASSUME NEW s \in Sales, NextSale(s)
         PROVE  SafetyInv'
    <2>1. /\ Calculating /\ Calculating' /\ pc' # "updateInventory"
          /\ pc' \notin {"idle", "list", "reset", "resetList"}
          /\ s \in queue.sales /\ current'.sale = s
          /\ UNCHANGED <<buy, splits, sell, note, local, plan>>
      BY <1>10 DEF NextSale, OldestSales, Calculating, books
    <2>2. /\ queue'.buys = queue.buys /\ queue'.notes = queue.notes
          /\ queue'.sales \subseteq queue.sales /\ queue'.splits = queue.splits
      BY <1>10 DEF NextSale, TypeInv, TypeOK, Queues
    <2>3. MemoryInv'
      BY <2>1, <2>2 DEF SafetyInv, MemoryInv
    <2>4. CalculationInv'
      BY <2>1, <2>2 DEF SafetyInv, CalculationInv, Found
    <2>5. QED
      BY <2>1, <2>3, <2>4, CalculationStep
  <1>11. ASSUME NEW p \in Purchases, LiquidatePurchase(p)
         PROVE  SafetyInv'
    <2> DEFINE w == WithExtras(local[p], getAdditionalCostsAndCreditNotes(p))
    <2>1. /\ p \in queue.buys /\ pc = "purchases" /\ pc' = "purchases"
          /\ UNCHANGED <<buy, splits, sell, note, queue>>
          /\ local' = [local EXCEPT ![p] = Liquidated(w)] /\ current'.sale = current.sale
          /\ plan' = [plan EXCEPT !.buys = @ \cup {p}, !.locked = @ \/ Locked(buy[p].date)]
      BY <1>11 DEF LiquidatePurchase, OldestPurchases, Available, books
    <2>2. /\ w \in PurchaseRecords /\ w.posted = local[p].posted
          /\ w.quantity = local[p].quantity /\ w.amount = local[p].amount
      BY <1>t, WithExtrasFacts DEF getAdditionalCostsAndCreditNotes
    <2> HIDE DEF w
    <2>3. /\ local'[p].posted = local[p].posted /\ local'[p].quantity = local[p].quantity
          /\ local'[p].amount = local[p].amount
          /\ \A r \in Purchases : r # p => local'[r] = local[r]
      BY <1>t, <2>1, <2>2, LiquidatedFacts
    <2>4. /\ plan'.splits = plan.splits /\ plan'.buys = plan.buys \cup {p}
          /\ plan'.sells = plan.sells /\ plan'.notes = plan.notes
      BY <2>1 DEF TypeInv, TypeOK, Plans
    <2>5. Calculating /\ Calculating'
      BY <2>1 DEF Calculating
    <2>6. local[p].amount > 0 /\ (plan.splits[p].quantity = 0 => plan.splits[p].cost = 0)
      BY <2>1, <2>5 DEF SafetyInv, CalculationInv
    <2>7. CalculationInv'
      BY <2>1, <2>3, <2>4, <2>5, <2>6, DrawOnPurchase
    <2>8. MemoryInv'
      BY <2>1, <2>4 DEF SafetyInv, MemoryInv
    <2>9. QED
      BY <2>1, <2>5, <2>7, <2>8, CalculationStep
  <1>12. ASSUME NEW p \in Purchases, SplitPurchase(p)
         PROVE  SafetyInv'
    <2> DEFINE w == WithExtras(local[p], getAdditionalCostsAndCreditNotes(p))
               q == current.sold
               cost == q * UnitCost(w.totalCost, w.amount)
               t == WithSale(plan.splits[p], q, cost)
    <2>1. /\ p \in queue.buys /\ pc = "purchases" /\ pc' = "purchases"
          /\ UNCHANGED <<buy, splits, sell, note, queue>>
          /\ local' = [local EXCEPT ![p] = Remaining(w, q)] /\ current'.sale = current.sale
          /\ plan' = [plan EXCEPT !.splits[p] = t, !.buys = @ \cup {p},
                                  !.locked = @ \/ Locked(buy[p].date)]
          /\ q \in Nat /\ q > 0 /\ q < local[p].amount
      BY <1>12, <1>t DEF SplitPurchase, OldestPurchases, Available, books
    <2>2. /\ w \in PurchaseRecords /\ w.posted = local[p].posted
          /\ w.quantity = local[p].quantity /\ w.amount = local[p].amount
      BY <1>t, WithExtrasFacts DEF getAdditionalCostsAndCreditNotes
    <2> HIDE DEF w, cost, t
    <2>3. /\ local'[p].posted = local[p].posted /\ local'[p].quantity = local[p].quantity
          /\ local'[p].amount + q = local[p].amount /\ local'[p].amount > 0
          /\ local'[p].amount \in Nat
          /\ \A r \in Purchases : r # p => local'[r] = local[r]
      <3>1. local'[p] = Remaining(w, q) /\ \A r \in Purchases : r # p => local'[r] = local[r]
        BY <1>t, <2>1
      <3>2. local'[p] \in PurchaseRecords
        BY <2>1, <2>2, <3>1, RemainingFacts
      <3>3. local'[p].amount \in Nat
        BY <3>2 DEF PurchaseRecords
      <3>4. QED
        BY <2>1, <2>2, <3>1, <3>3, RemainingFacts
    <2>4. /\ plan'.splits = [plan.splits EXCEPT ![p] = t] /\ plan'.buys = plan.buys \cup {p}
          /\ plan'.sells = plan.sells /\ plan'.notes = plan.notes
      BY <2>1 DEF TypeInv, TypeOK, Plans
    <2>5. /\ plan'.splits[p].quantity = plan.splits[p].quantity + q
          /\ \A r \in Purchases : r # p => plan'.splits[r] = plan.splits[r]
      <3>1. plan.splits[p] \in Totals /\ q \in Nat /\ cost \in Int
        BY <1>t, <2>1, <2>2, RemainingFacts DEF cost
      <3> HIDE DEF q
      <3>2. t.quantity = plan.splits[p].quantity + q
        BY <3>1, WithSaleFacts DEF t
      <3>3. /\ plan'.splits[p] = t
            /\ \A r \in Purchases : r # p => plan'.splits[r] = plan.splits[r]
        BY <1>t, <2>4
      <3>4. QED
        BY <3>2, <3>3
    <2>6. plan.splits[p].quantity \in Nat /\ local[p].amount \in Nat
      BY <1>t DEF Totals, PurchaseRecords
    <2>7. /\ local'[p].amount + plan'.splits[p].quantity
               = local[p].amount + plan.splits[p].quantity
          /\ plan'.splits[p].quantity # 0
      BY <2>1, <2>3, <2>5, <2>6
    <2>8. Calculating /\ Calculating'
      BY <2>1 DEF Calculating
    <2>9. CalculationInv'
      BY <2>1, <2>3, <2>4, <2>5, <2>7, <2>8, DrawOnPurchase
    <2>10. MemoryInv'
      BY <2>1, <2>4 DEF SafetyInv, MemoryInv
    <2>11. QED
      BY <2>1, <2>8, <2>9, <2>10, CalculationStep
  <1>13. CASE FinishSale
    <2>1. CASE Finish
      BY <1>13, <2>1, FinishSafety DEF FinishSale, books
    <2>2. CASE ~Finish
      <3>1. /\ pc = "purchases" /\ pc' = "sales" /\ current'.sale = NoSale
            /\ UNCHANGED <<buy, splits, sell, note, local, queue>>
        BY <1>13, <2>2 DEF FinishSale, NoCurrentSale, books
      <3>2. /\ plan'.splits = plan.splits /\ plan'.buys = plan.buys
            /\ plan'.notes = plan.notes /\ plan'.sells \subseteq plan.sells \cup {current.sale}
        BY <1>13, <2>2 DEF FinishSale, TypeInv, TypeOK, Plans
      <3>3. MemoryInv'
        BY <3>1, <3>2 DEF SafetyInv, MemoryInv
      <3>4. CalculationInv'
        BY <3>1, <3>2 DEF SafetyInv, CalculationInv, Calculating, Found
      <3>5. QED
        BY <3>1, <3>3, <3>4, CalculationStep DEF Calculating
    <2>3. QED
      BY <2>1, <2>2
  <1>14. CASE CreateInventoryTransactions
    <2>1. /\ pc = "createInventory" /\ pc' = "updateInventory"
          /\ UNCHANGED <<buy, sell, note, local, queue, current, plan>>
      BY <1>14 DEF CreateInventoryTransactions, fireBatchOperations, run
    <2>2. Calculating /\ ~Calculating'
      BY <2>1 DEF Calculating
    <2>3. ASSUME NEW p \in Purchases
          PROVE  /\ splits'[p].quantity = splits[p].quantity + plan.splits[p].quantity
                 /\ splits'[p].cost = splits[p].cost + plan.splits[p].cost
                 /\ splits[p] \in Totals /\ plan.splits[p] \in Totals
                 /\ plan.splits[p] = NoTotals => splits'[p] = splits[p]
      <3>1. splits'[p] = [quantity |-> splits[p].quantity + plan.splits[p].quantity,
                          cost |-> splits[p].cost + plan.splits[p].cost,
                          credited |-> splits[p].credited + plan.splits[p].credited,
                          loose |-> splits[p].loose]
        BY <1>14 DEF CreateInventoryTransactions
      <3>2. splits[p] \in Totals /\ plan.splits[p] \in Totals
        BY <1>t
      <3>3. QED
        BY <3>1, <3>2 DEF Totals, NoTotals
    <2>4. \A p \in Purchases : /\ splits[p].quantity \in Nat /\ plan.splits[p].quantity \in Nat
                               /\ splits[p].cost \in Int /\ plan.splits[p].cost \in Int
                               /\ buy[p].amount \in Nat /\ buy[p].quantity \in Nat
                               /\ local[p].amount \in Nat
      BY <1>t DEF Totals, PurchaseRecords
    <2>5. \A p \in Purchases : plan.splits[p].quantity = 0 => plan.splits[p].cost = 0
      BY <2>1, <2>2 DEF SafetyInv, CalculationInv, NoTotals
    <2>6. UnpostedInv'
      <3>1. \A p \in Purchases : ~buy[p].posted => splits'[p] = splits[p]
        BY <2>2, <2>3 DEF SafetyInv, MemoryInv, CalculationInv
      <3>2. QED
        BY <2>1, <3>1 DEF SafetyInv, UnpostedInv
    <2>7. BookInv'
      <3>1. \A p \in Purchases :
              /\ splits'[p].quantity >= splits[p].quantity /\ splits'[p].quantity \in Nat
              /\ splits'[p].quantity = 0 => splits[p].quantity = 0 /\ plan.splits[p].quantity = 0
        BY <2>3, <2>4
      <3>2. \A p \in Purchases : splits'[p].quantity = 0 => splits'[p].cost = 0
        BY <2>3, <2>4, <2>5, <3>1 DEF SafetyInv, BookInv
      <3>3. \A p \in Purchases : buy[p].amount + splits'[p].quantity >= buy[p].quantity
        BY <2>4, <3>1 DEF SafetyInv, BookInv
      <3>4. QED
        BY <2>1, <3>2, <3>3 DEF SafetyInv, BookInv
    <2>8. MemoryInv'
      BY <2>1 DEF SafetyInv, MemoryInv
    <2>9. CalculationInv'
      <3>1. plan.buys \subseteq queue.buys /\ plan'.buys \subseteq queue'.buys
        BY <2>1, <2>2 DEF SafetyInv, CalculationInv
      <3>2. ASSUME NEW p \in plan.buys
            PROVE  IF p \in queue.splits
                   THEN buy[p].amount + splits'[p].quantity
                          >= buy[p].quantity + local[p].quantity - local[p].amount
                   ELSE local[p].amount + splits'[p].quantity >= local[p].quantity
        <4>1. /\ local[p].amount + plan.splits[p].quantity = Found(p)
              /\ p \notin queue.splits => local[p].quantity = buy[p].quantity
          BY <2>2, <3>1 DEF SafetyInv, CalculationInv
        <4>2. buy[p].amount + splits[p].quantity >= buy[p].quantity
          BY <1>t DEF SafetyInv, BookInv
        <4>3. /\ splits'[p].quantity = splits[p].quantity + plan.splits[p].quantity
              /\ splits[p].quantity \in Nat /\ plan.splits[p].quantity \in Nat
              /\ buy[p].amount \in Nat /\ buy[p].quantity \in Nat
              /\ local[p].amount \in Nat /\ local[p].quantity \in Nat
          BY <1>t, <2>3, <2>4 DEF PurchaseRecords
        <4>4. CASE p \in queue.splits
          <5>1. local[p].amount + plan.splits[p].quantity = local[p].quantity
            BY <4>1, <4>4 DEF Found
          <5>2. QED
            BY <4>2, <4>3, <4>4, <5>1
        <4>5. CASE p \notin queue.splits
          <5>1. /\ local[p].amount + plan.splits[p].quantity = buy[p].amount
                /\ local[p].quantity = buy[p].quantity
            BY <4>1, <4>5 DEF Found
          <5>2. QED
            BY <4>2, <4>3, <4>5, <5>1
        <4>6. QED
          BY <4>4, <4>5
      <3>3. QED
        BY <2>1, <2>2, <3>1, <3>2 DEF SafetyInv, CalculationInv
    <2>10. ResetInv'
      BY <2>1 DEF ResetInv
    <2>11. QED
      BY <2>6, <2>7, <2>8, <2>9, <2>10 DEF SafetyInv
  <1>15. CASE UpdateInventoryTransactions
    <2>1. /\ pc = "updateInventory" /\ pc' = "createFinancial"
          /\ UNCHANGED <<local, queue, current, plan>>
          /\ \A p \in Purchases :
                buy'[p] = IF p \in plan.buys \ queue.splits THEN local[p] ELSE buy[p]
          /\ \A p \in Purchases : splits'[p] = IF p \in plan.buys \cap queue.splits
                                             THEN WithPart(splits[p], local[p]) ELSE splits[p]
      BY <1>15 DEF UpdateInventoryTransactions, fireBatchOperations, run
    <2>2. /\ \A s \in Sales : /\ sell'[s].posted = sell[s].posted
                              /\ s \notin plan.sells => sell'[s] = sell[s]
                              /\ s \in plan.sells => sell'[s].logged
          /\ \A n \in CreditNotes : /\ note'[n].posted = note[n].posted
                                    /\ n \notin plan.notes => note'[n] = note[n]
      <3>1. /\ sell' = LogAll(sell, plan.sells) /\ note' = CheckAll(note, plan.notes)
            /\ sell \in [Sales -> SaleRecords] /\ note \in [CreditNotes -> EntryRecords]
        BY <1>15, <1>t DEF UpdateInventoryTransactions
      <3>2. \A s \in Sales : /\ sell'[s].posted = sell[s].posted
                             /\ s \notin plan.sells => sell'[s] = sell[s]
                             /\ s \in plan.sells => sell'[s].logged
        BY <3>1 DEF LogAll, SaleRecords
      <3>3. \A n \in CreditNotes : /\ note'[n].posted = note[n].posted
                                   /\ n \notin plan.notes => note'[n] = note[n]
        BY <3>1 DEF CheckAll, EntryRecords
      <3>4. QED
        BY <3>2, <3>3
    <2>3. \A p \in plan.buys : /\ local[p].posted /\ local[p].amount > 0 /\ buy[p].posted
                               /\ p \in queue.buys
      BY <2>1 DEF SafetyInv, MemoryInv, CalculationInv
    <2>4. ASSUME NEW p \in Purchases
          PROVE  /\ buy'[p].posted = buy[p].posted
                 /\ ~buy[p].posted => buy'[p] = buy[p] /\ splits'[p] = splits[p]
                 /\ buy'[p].posted => buy'[p].amount > 0 /\ buy'[p].quantity > 0
                 /\ buy'[p].amount + splits'[p].quantity >= buy'[p].quantity
                 /\ splits'[p].quantity = 0 => splits'[p].cost = 0
                 /\ p \in queue.buys /\ p \notin queue.splits
                      => local[p].quantity = buy'[p].quantity
      <3>1. /\ buy[p].posted => buy[p].amount > 0 /\ buy[p].quantity > 0
            /\ buy[p].amount + splits[p].quantity >= buy[p].quantity
            /\ splits[p].quantity = 0 => splits[p].cost = 0
            /\ p \in queue.buys /\ p \notin queue.splits => local[p].quantity = buy[p].quantity
        BY DEF SafetyInv, BookInv, CalculationInv
      <3>2. CASE p \notin plan.buys
        BY <2>1, <3>1, <3>2
      <3>3. CASE p \in plan.buys /\ p \notin queue.splits
        <4>1. buy'[p] = local[p] /\ splits'[p] = splits[p]
          BY <2>1, <3>3
        <4>2. local[p].amount + splits[p].quantity >= local[p].quantity
          BY <2>1, <3>3 DEF SafetyInv, CalculationInv
        <4>3. local[p].posted /\ local[p].amount > 0 /\ buy[p].posted /\ p \in queue.buys
          BY <2>3, <3>3
        <4>4. local[p].posted = buy[p].posted
          BY <1>t, <4>3 DEF PurchaseRecords
        <4>5. QED
          BY <3>1, <3>3, <4>1, <4>2, <4>3, <4>4
      <3>4. CASE p \in plan.buys /\ p \in queue.splits
        <4>1. buy'[p] = buy[p] /\ splits'[p] = WithPart(splits[p], local[p])
          BY <2>1, <3>4
        <4>2. /\ splits[p] \in Totals /\ local[p] \in PurchaseRecords
              /\ splits[p].loose <= splits[p].credited /\ splits[p].credited <= splits[p].quantity
              /\ local[p].amount <= local[p].quantity /\ local[p].quantity <= splits[p].loose
          BY <1>t, <2>1, <3>4 DEF SplitsInv
        <4> DEFINE u == WithPart(splits[p], local[p])
        <4>3. /\ u \in Totals
              /\ u.quantity = splits[p].quantity - (local[p].quantity - local[p].amount)
              /\ u.quantity >= local[p].amount
          BY <4>2, WithPartFacts
        <4> HIDE DEF u
        <4>4. buy[p].amount + splits[p].quantity
                >= buy[p].quantity + local[p].quantity - local[p].amount
          BY <2>1, <3>4 DEF SafetyInv, CalculationInv
        <4>5. /\ u.quantity \in Nat /\ splits[p].quantity \in Nat /\ buy[p].amount \in Nat
              /\ buy[p].quantity \in Nat /\ local[p].quantity \in Nat /\ local[p].amount \in Nat
          BY <1>t, <4>3 DEF Totals, PurchaseRecords
        <4>6. local[p].amount > 0 /\ buy[p].posted
          BY <2>3, <3>4
        <4>7. u.quantity # 0 /\ buy[p].amount + u.quantity >= buy[p].quantity
          BY <4>3, <4>4, <4>5, <4>6
        <4>8. splits'[p].quantity # 0 /\ buy'[p].amount + splits'[p].quantity >= buy'[p].quantity
          BY <4>1, <4>7 DEF u
        <4>9. QED
          BY <3>1, <3>4, <4>1, <4>6, <4>8
      <3>5. QED
        BY <3>2, <3>3, <3>4
    <2>5. UnpostedInv'
      <3>1. \A s \in Sales : sell'[s].bot = sell[s].bot
        <4>1. sell' = LogAll(sell, plan.sells) /\ sell \in [Sales -> SaleRecords]
          BY <1>15, <1>t DEF UpdateInventoryTransactions
        <4>2. QED
          BY <4>1 DEF LogAll, SaleRecords
      <3>2. \A p \in Purchases : ~buy'[p].posted => buy'[p] = NoPurchase /\ splits'[p] = NoTotals
        BY <2>4 DEF SafetyInv, UnpostedInv
      <3>3. \A s \in Sales : /\ (sell'[s].checked => sell'[s].logged)
                             /\ (sell'[s].logged => sell'[s].posted)
                             /\ sell'[s].posted => sell'[s].bot
        BY <2>2, <3>1 DEF SafetyInv, UnpostedInv, MemoryInv
      <3>4. \A n \in CreditNotes : ~note'[n].posted => ~note'[n].checked
        BY <2>2 DEF SafetyInv, UnpostedInv, MemoryInv
      <3>5. QED
        BY <3>2, <3>3, <3>4 DEF UnpostedInv
    <2>6. BookInv'
      BY <2>4 DEF BookInv
    <2>7. MemoryInv'
      BY <1>t, <2>1, <2>2, <2>4 DEF SafetyInv, MemoryInv
    <2>8. CalculationInv'
      BY <1>t, <2>1, <2>4 DEF SafetyInv, CalculationInv, Calculating
    <2>9. ResetInv'
      BY <2>1 DEF ResetInv
    <2>10. QED
      BY <2>5, <2>6, <2>7, <2>8, <2>9 DEF SafetyInv
  <1>16. CASE CreateFinancialTransactions
    <2>1. /\ pc = "createFinancial" /\ pc' = "storeDate"
          /\ UNCHANGED <<buy, splits, sell, note, local, queue, current, plan>>
      BY <1>16 DEF CreateFinancialTransactions, fireBatchOperations, run
    <2>2. UnpostedInv' /\ BookInv' /\ MemoryInv'
      BY <2>1 DEF SafetyInv, UnpostedInv, BookInv, MemoryInv
    <2>3. CalculationInv' /\ ResetInv'
      BY <2>1 DEF SafetyInv, CalculationInv, ResetInv, Calculating, Found
    <2>4. QED
      BY <2>2, <2>3 DEF SafetyInv
  <1>17. CASE storeLastCalcTxDate \/ ClearAccount \/ Crash \/ \E p \in Purchases : RejectSplit(p)
    BY <1>17, FinishSafety DEF storeLastCalcTxDate, ClearAccount, Crash, RejectSplit, books
  <1>18. CASE ListTransactionsToReset
    <2>1. CASE Finish
      BY <1>18, <2>1, FinishSafety DEF ListTransactionsToReset, books
    <2>2. CASE ~Finish
      <3>1. /\ pc = "resetList" /\ pc' = "trashFinancial"
            /\ UNCHANGED <<buy, splits, sell, note, local, queue, current>>
            /\ plan'.buys = Posted(buy) /\ plan'.notes = Posted(note)
            /\ plan'.sells = {s \in Posted(sell) : sell[s].logged /\ sell[s].bot}
            /\ plan'.trash = {p \in Purchases : splits[p].quantity > 0}
        BY <1>18, <2>2 DEF ListTransactionsToReset, SplitsToTrash, fireResetOperations, books
      <3>2. UnpostedInv' /\ BookInv'
        BY <3>1 DEF SafetyInv, UnpostedInv, BookInv
      <3>3. MemoryInv'
        BY <1>t, <3>1 DEF SafetyInv, MemoryInv, Posted
      <3>4. CalculationInv'
        BY <3>1 DEF SafetyInv, CalculationInv, Calculating
      <3>5. \A p \in Purchases : p \notin plan'.buys => Untouched(p)
        BY <1>t, <3>1 DEF SafetyInv, UnpostedInv, Posted, Untouched, NoPurchase
      <3>6. ASSUME NEW p \in Purchases, p \notin plan'.trash
            PROVE  splits[p] = NoTotals
        <4>1. splits[p] \in Totals /\ ~(splits[p].quantity > 0)
          BY <1>t, <3>1, <3>6
        <4>2. splits[p].quantity = 0
          BY <4>1 DEF Totals
        <4>3. splits[p].cost = 0
          BY <4>2 DEF SafetyInv, BookInv
        <4>4. splits[p].credited = 0 /\ splits[p].loose = 0
          BY <4>1, <4>2 DEF SplitsInv, Totals
        <4>5. QED
          BY <4>1, <4>2, <4>3, <4>4 DEF Totals, NoTotals
      <3>7. /\ \A s \in Sales : s \notin plan'.sells => ~sell[s].checked /\ ~sell[s].logged
            /\ \A n \in CreditNotes : n \notin plan'.notes => ~note[n].checked
        BY <1>t, <3>1 DEF SafetyInv, UnpostedInv, Posted
      <3>8. ResetInv'
        BY <3>1, <3>5, <3>6, <3>7 DEF ResetInv, Untouched
      <3>9. QED
        BY <3>2, <3>3, <3>4, <3>8 DEF SafetyInv
    <2>3. QED
      BY <2>1, <2>2
  <1>19. CASE TrashFinancialTransactions
    <2>1. /\ pc = "trashFinancial" /\ pc' = "restoreInventory"
          /\ UNCHANGED <<buy, splits, sell, note, local, queue, current, plan>>
      BY <1>19 DEF TrashFinancialTransactions, fireResetOperations, run
    <2>2. UnpostedInv' /\ BookInv' /\ MemoryInv'
      BY <2>1 DEF SafetyInv, UnpostedInv, BookInv, MemoryInv
    <2>3. CalculationInv' /\ ResetInv'
      BY <2>1 DEF SafetyInv, CalculationInv, ResetInv, Calculating, Found, Untouched
    <2>4. QED
      BY <2>2, <2>3 DEF SafetyInv
  <1>20. CASE RestoreInventoryTransactions
    <2>1. /\ pc = "restoreInventory" /\ pc' = "trashInventory"
          /\ UNCHANGED <<local, queue, current, plan>>
          /\ \A p \in Purchases :
                buy'[p] = IF p \in plan.buys THEN Restored(buy[p]) ELSE buy[p]
      BY <1>20 DEF RestoreInventoryTransactions, fireResetOperations, run
    <2>s. \A p \in Purchases : /\ splits'[p].quantity = splits[p].quantity
                               /\ splits'[p].cost = splits[p].cost
                               /\ splits[p] = NoTotals => splits'[p] = NoTotals
      <3>1. \A p \in Purchases :
              splits'[p] = IF p \in plan.trash THEN [splits[p] EXCEPT !.loose = splits[p].credited]
                           ELSE splits[p]
        BY <1>20 DEF RestoreInventoryTransactions
      <3>2. ASSUME NEW p \in Purchases
            PROVE  /\ splits'[p].quantity = splits[p].quantity
                   /\ splits'[p].cost = splits[p].cost
                   /\ splits[p] = NoTotals => splits'[p] = NoTotals
        <4>1. splits[p] \in Totals
          BY <1>t
        <4>2. CASE p \in plan.trash
          <5>1. splits'[p] = [splits[p] EXCEPT !.loose = splits[p].credited]
            BY <3>1, <4>2
          <5>2. QED
            BY <4>1, <5>1 DEF Totals, NoTotals
        <4>3. CASE p \notin plan.trash
          BY <3>1, <4>3
        <4>4. QED
          BY <4>2, <4>3
      <3>3. QED
        BY <3>2
    <2>2. /\ \A s \in Sales : /\ sell'[s].posted = sell[s].posted /\ sell'[s].bot = sell[s].bot
                              /\ s \notin plan.sells => sell'[s] = sell[s]
                              /\ s \in plan.sells => ~sell'[s].checked /\ ~sell'[s].logged
          /\ \A n \in CreditNotes : /\ note'[n].posted = note[n].posted
                                    /\ n \notin plan.notes => note'[n] = note[n]
                                    /\ n \in plan.notes => ~note'[n].checked
      <3>1. /\ sell' = UnlogAll(sell, plan.sells) /\ note' = UncheckAll(note, plan.notes)
            /\ sell \in [Sales -> SaleRecords] /\ note \in [CreditNotes -> EntryRecords]
        BY <1>20, <1>t DEF RestoreInventoryTransactions
      <3>2. \A s \in Sales : /\ sell'[s].posted = sell[s].posted /\ sell'[s].bot = sell[s].bot
                             /\ s \notin plan.sells => sell'[s] = sell[s]
                             /\ s \in plan.sells => ~sell'[s].checked /\ ~sell'[s].logged
        BY <3>1 DEF UnlogAll, SaleRecords
      <3>3. \A n \in CreditNotes : /\ note'[n].posted = note[n].posted
                                   /\ n \notin plan.notes => note'[n] = note[n]
                                   /\ n \in plan.notes => ~note'[n].checked
        BY <3>1 DEF UncheckAll, EntryRecords
      <3>4. QED
        BY <3>2, <3>3
    <2>3. \A p \in plan.buys :
            /\ buy'[p].posted = buy[p].posted /\ buy'[p].quantity = buy[p].quantity
            /\ buy'[p].amount = buy[p].quantity /\ buy'[p].totalCost = buy'[p].cost
            /\ ~buy'[p].checked /\ ~buy'[p].seen
      BY <1>t, <2>1, RestoredFacts
    <2>4. \A p \in Purchases : p \notin plan.buys => buy'[p] = buy[p]
      BY <2>1
    <2>5. \A p \in plan.buys : buy[p].posted /\ buy[p].quantity > 0 /\ buy[p].quantity \in Nat
                               /\ splits[p].quantity \in Nat
      BY <1>t DEF SafetyInv, MemoryInv, BookInv, PurchaseRecords, Totals
    <2>6. UnpostedInv'
      BY <1>t, <2>1, <2>2, <2>s, <2>3, <2>4, <2>5 DEF SafetyInv, UnpostedInv
    <2>7. BookInv'
      BY <1>t, <2>1, <2>s, <2>3, <2>4, <2>5 DEF SafetyInv, BookInv
    <2>8. MemoryInv'
      BY <1>t, <2>1, <2>2, <2>3, <2>4 DEF SafetyInv, MemoryInv
    <2>9. CalculationInv'
      BY <1>t, <2>1, <2>3, <2>4 DEF SafetyInv, CalculationInv, Calculating
    <2>10. ResetInv'
      <3>1. \A p \in Purchases : Untouched(p)'
        BY <2>1, <2>3, <2>4 DEF SafetyInv, ResetInv, Untouched
      <3>2. /\ \A s \in Sales : ~sell'[s].checked /\ ~sell'[s].logged
            /\ \A n \in CreditNotes : ~note'[n].checked
        BY <2>1, <2>2 DEF SafetyInv, ResetInv
      <3>3. \A p \in Purchases : p \notin plan'.trash => splits'[p] = NoTotals
        BY <2>1, <2>s DEF SafetyInv, ResetInv
      <3>4. QED
        BY <2>1, <3>1, <3>2, <3>3 DEF ResetInv
    <2>11. QED
      BY <2>6, <2>7, <2>8, <2>9, <2>10 DEF SafetyInv
  <1>21. CASE TrashInventoryTransactions
    <2>1. /\ pc = "trashInventory" /\ pc' = "clearAccount"
          /\ UNCHANGED <<buy, sell, note, local, queue, current, plan>>
          /\ \A p \in Purchases : splits'[p] = IF p \in plan.trash THEN NoTotals ELSE splits[p]
      BY <1>21 DEF TrashInventoryTransactions, fireResetOperations, run
    <2>2. \A p \in Purchases : splits'[p] = NoTotals /\ Untouched(p)
      BY <2>1 DEF SafetyInv, ResetInv
    <2>3. UnpostedInv' /\ MemoryInv'
      BY <2>1, <2>2 DEF SafetyInv, UnpostedInv, MemoryInv
    <2>4. BookInv'
      <3>1. \A p \in Purchases : buy[p].amount = buy[p].quantity /\ buy[p].quantity \in Nat
                                 /\ splits'[p].quantity = 0 /\ splits'[p].cost = 0
        BY <1>t, <2>2 DEF Untouched, NoTotals, PurchaseRecords
      <3>2. QED
        BY <2>1, <3>1 DEF SafetyInv, BookInv
    <2>5. CalculationInv' /\ ResetInv'
      BY <2>1, <2>2 DEF SafetyInv, CalculationInv, ResetInv, Calculating, Untouched
    <2>6. QED
      BY <2>3, <2>4, <2>5 DEF SafetyInv
  <1>22. CASE UNCHANGED vars
    BY <1>22, SafetyStutter DEF vars, books, run
  <1>23. QED
    BY <1>1, <1>2, <1>3, <1>4, <1>5, <1>6, <1>7, <1>8, <1>9, <1>10, <1>11, <1>12, <1>13,
       <1>14, <1>15, <1>16, <1>17, <1>18, <1>19, <1>20, <1>21, <1>22
       DEF Next, Handlers, Calculation, Reset

\* It holds in every state of every behaviour.
LEMMA SafetyInvariant == Spec => []SafetyInv
  <1>1. Init => SafetyInv
    <2> SUFFICES ASSUME Init PROVE SafetyInv
      OBVIOUS
    <2>1. /\ queue.buys = {} /\ queue.sales = {} /\ queue.notes = {}
          /\ current.sale = NoSale
          /\ plan.buys = {} /\ plan.sells = {} /\ plan.notes = {}
          /\ plan = EmptyPlan /\ pc = "idle"
      BY DEF Init, EmptyQueue, EmptyPlan, NoCurrentSale
    <2>2. UnpostedInv
      BY DEF Init, UnpostedInv, NoEntry, NoSaleEntry
    <2>3. BookInv
      BY DEF Init, BookInv, NoPurchase, NoTotals
    <2>4. MemoryInv
      BY <2>1, NameAssumption DEF MemoryInv
    <2>5. CalculationInv /\ ResetInv
      BY <2>1 DEF CalculationInv, ResetInv, Calculating
    <2>6. QED
      BY <2>2, <2>3, <2>4, <2>5 DEF SafetyInv
  <1>2. QED
    BY <1>1, TypeInvariant, SafetyStep, PTL DEF Spec

\* Whatever is recorded and whichever runs die, the Inventory Book never holds
\* less of a purchase than was bought.
THEOREM StockSafe == Spec => []StockNeverUndercounted
  <1>1. SafetyInv => StockNeverUndercounted
    BY DEF SafetyInv, BookInv, StockNeverUndercounted
  <1>2. QED
    BY <1>1, SafetyInvariant, PTL

\* processSale never divides by the quantity of an empty purchase.
THEOREM DivisionSafe == Spec => []NoEmptyPurchase
  <1>1. TypeInv /\ SafetyInv => NoEmptyPurchase
    BY DEF TypeInv, TypeOK, Queues, SafetyInv, BookInv, CalculationInv, NoEmptyPurchase
  <1>2. QED
    BY <1>1, TypeInvariant, SafetyInvariant, PTL

\* A reset that gets to its last call has restored the Inventory Book, also
\* when it follows runs that died between two of their batches.
THEOREM ResetComplete == Spec => []ResetRestores
  <1>1. SafetyInv => ResetRestores
    BY DEF SafetyInv, ResetInv, ResetRestores
  <1>2. QED
    BY <1>1, SafetyInvariant, PTL
------------------------------------------------------------------------------
(* Unchecked splits *)

\* Unchecked splits are left behind only by a run that dies.
LEMMA LooseStep ==
    ASSUME TypeInv, SplitsInv, LooseInv, [Next]_vars,
           pc = "trashInventory" => \A p \in Purchases : p \notin plan.trash => splits[p] = NoTotals
    PROVE  LooseInv'
  <1>t. /\ splits \in [Purchases -> Totals] /\ local \in [Purchases -> PurchaseRecords]
        /\ queue.splits \subseteq Purchases /\ crashes \in Nat
    BY DEF TypeInv, TypeOK, Queues
  <1>1. CASE Crash
    <2>1. crashes' # 0 /\ UNCHANGED splits /\ torn' = (torn \/ ~NoLooseSplits)
      BY <1>1, <1>t DEF Crash, books
    <2>2. ~torn' => NoLooseSplits
      BY <2>1
    <2>3. QED
      BY <2>1, <2>2 DEF LooseInv, NoLooseSplits
  <1>2. CASE CreateInventoryTransactions
    <2>1. /\ UNCHANGED <<crashes, torn>> /\ pc = "createInventory"
          /\ \A p \in Purchases : splits'[p].loose = splits[p].loose
      BY <1>2 DEF CreateInventoryTransactions
    <2>2. QED
      BY <2>1 DEF LooseInv, NoLooseSplits
  <1>3. CASE UpdateInventoryTransactions
    <2>1. /\ UNCHANGED <<crashes, torn>> /\ pc = "updateInventory"
          /\ \A p \in Purchases : p \notin queue.splits => splits'[p] = splits[p]
      BY <1>3 DEF UpdateInventoryTransactions
    <2>2. ASSUME NEW p \in queue.splits PROVE splits[p].loose # 0
      <3>1. splits[p].loose \in Nat /\ local[p].quantity \in Nat
        BY <1>t DEF Totals, PurchaseRecords
      <3>2. QED
        BY <2>1, <3>1 DEF SplitsInv
    <2>3. NoLooseSplits => NoLooseSplits'
      BY <1>t, <2>1, <2>2 DEF NoLooseSplits
    <2>4. QED
      BY <2>1, <2>3 DEF LooseInv
  <1>4. CASE RestoreInventoryTransactions
    BY <1>4 DEF RestoreInventoryTransactions, fireResetOperations, LooseInv
  <1>5. CASE TrashInventoryTransactions
    <2>1. \A p \in Purchases : splits'[p] = NoTotals
      BY <1>5 DEF TrashInventoryTransactions
    <2>2. NoLooseSplits'
      BY <2>1 DEF NoLooseSplits, NoTotals
    <2>3. QED
      BY <1>5, <2>2 DEF TrashInventoryTransactions, LooseInv
  <1>6. CASE Handlers \/ UNCHANGED vars
    <2>1. UNCHANGED <<splits, pc, crashes, torn>>
      BY <1>6 DEF Handlers, PostPurchase, PostSale, PostCreditNote, RecordAdditionalCost,
                  RecordCredit, CloseBooks, vars, books
    <2>2. QED
      BY <2>1 DEF LooseInv, NoLooseSplits
  <1>7. CASE \/ \E d \in Dates : ListTransactions(d)
             \/ \E n \in CreditNotes : ProcessCreditNote(n)
             \/ CreditNotesDone \/ SalesDone \/ FinishSale
             \/ \E s \in Sales : NextSale(s)
             \/ \E p \in Purchases : LiquidatePurchase(p) \/ SplitPurchase(p) \/ RejectSplit(p)
    <2>1. UNCHANGED <<splits, crashes, torn>> /\ pc # "trashInventory"
      BY <1>7 DEF ListTransactions, ProcessCreditNote, CreditNotesDone, SalesDone, FinishSale,
                  NextSale, LiquidatePurchase, SplitPurchase, RejectSplit, books
    <2>2. QED
      BY <2>1 DEF LooseInv, NoLooseSplits
  <1>8. CASE \/ StartCalculation \/ StartReset \/ CreateFinancialTransactions
             \/ storeLastCalcTxDate \/ ReadAccountToReset \/ ListTransactionsToReset
             \/ TrashFinancialTransactions \/ ClearAccount
    <2>1. UNCHANGED <<splits, crashes, torn>> /\ pc # "trashInventory"
      BY <1>8 DEF StartCalculation, StartReset, CreateFinancialTransactions,
                  storeLastCalcTxDate, ReadAccountToReset, ListTransactionsToReset,
                  TrashFinancialTransactions, ClearAccount, books
    <2>2. QED
      BY <2>1 DEF LooseInv, NoLooseSplits
  <1>9. QED
    BY <1>1, <1>2, <1>3, <1>4, <1>5, <1>6, <1>7, <1>8 DEF Next, Calculation, Reset

\* So it is in every state of every behaviour.
LEMMA LooseInvariant == Spec => []LooseInv
  <1>1. Init => LooseInv
    BY DEF Init, LooseInv, NoLooseSplits, NoTotals
  <1>2. SafetyInv /\ pc = "trashInventory" =>
           \A p \in Purchases : p \notin plan.trash => splits[p] = NoTotals
    BY DEF SafetyInv, ResetInv
  <1>3. TypeInv /\ SplitsInv /\ SafetyInv /\ LooseInv /\ [Next]_vars => LooseInv'
    BY <1>2, LooseStep
  <1>4. QED
    BY <1>1, <1>3, TypeInvariant, SafetyInvariant, PTL DEF Spec

\* Without unchecked splits, a calculation has listed no split for a purchase.
LEMMA NoneListed ==
    ASSUME TypeInv, SplitsInv, NoLooseSplits, Calculating \/ pc = "updateInventory"
    PROVE  queue.splits = {}
  <1> SUFFICES ASSUME NEW p \in queue.splits PROVE FALSE
    OBVIOUS
  <1>1. /\ p \in Purchases /\ splits[p].loose \in Nat /\ local[p].quantity \in Nat
    BY DEF TypeInv, TypeOK, Queues, Totals, PurchaseRecords
  <1>2. QED
    BY <1>1 DEF SplitsInv, NoLooseSplits
------------------------------------------------------------------------------
(* Conservation of quantity and cost *)

\* Purchases that nothing has touched are balanced without splits.
LEMMA UntouchedBalanced ==
    ASSUME NEW r \in PurchaseRecords, r.amount = r.quantity, r.totalCost = r.basis
    PROVE  Balanced(r, NoTotals)
  BY DEF Balanced, NoTotals, PurchaseRecords

\* A purchase stays balanced when its cost is updated: nothing has been split
\* off at the old cost.
LEMMA ExtrasBalanced ==
    ASSUME NEW r \in PurchaseRecords, NEW x \in [add : Nat, credit : Nat],
           NEW t \in Totals, Balanced(r, t)
    PROVE  Balanced(WithExtras(r, x), t)
  <1> DEFINE w == WithExtras(r, x)
  <1>1. /\ w \in PurchaseRecords /\ w.quantity = r.quantity /\ w.amount = r.amount
        /\ w.seen
        /\ r.seen => w.totalCost = r.totalCost /\ w.basis = r.basis
        /\ ~r.seen => w.totalCost = w.basis
    BY WithExtrasFacts
  <1>2. w.totalCost \in Int /\ t.cost \in Int
    BY <1>1 DEF PurchaseRecords, Totals
  <1> HIDE DEF w
  <1>3. w.amount + t.quantity = w.quantity
    BY <1>1 DEF Balanced
  <1>4. w.totalCost + t.cost = w.basis
    BY <1>1, <1>2 DEF Balanced
  <1>5. QED
    BY <1>1, <1>3, <1>4 DEF Balanced, w

\* A step that leaves the books alone, outside the calculation.
LEMMA ConservationStutter ==
    ASSUME ConservationInv, UNCHANGED <<buy, splits, crashes>>, ~BetweenBatches,
           ~BetweenBatches', ~Calculating'
    PROVE  ConservationInv'
  BY DEF ConservationInv, BetweenBatches

\* A step of a calculation before its batches: only the copies that changed
\* need to be looked at.
LEMMA ConservationCalculation ==
    ASSUME ConservationInv, UNCHANGED <<buy, splits, crashes>>, ~BetweenBatches, Calculating',
           crashes = 0 => \A p \in queue'.buys : Balanced(local'[p], AllSplits(p)')
    PROVE  ConservationInv'
  BY DEF ConservationInv, BetweenBatches, Calculating

\* A run draws on a purchase.
LEMMA ConservationDraw ==
    ASSUME ConservationInv, UNCHANGED <<buy, splits, crashes>>, Calculating, Calculating',
           queue'.buys = queue.buys, queue.buys \subseteq Purchases, NEW p \in queue.buys,
           \A r \in Purchases : r # p => local'[r] = local[r] /\ plan'.splits[r] = plan.splits[r],
           crashes = 0 => Balanced(local'[p], AllSplits(p)')
    PROVE  ConservationInv'
  <1>1. ~BetweenBatches
    BY DEF Calculating, BetweenBatches
  <1>2. ASSUME crashes = 0, NEW r \in queue.buys, r # p
        PROVE  Balanced(local'[r], AllSplits(r)')
    <2>1. Balanced(local[r], AllSplits(r))
      BY <1>2 DEF ConservationInv
    <2>2. local'[r] = local[r] /\ AllSplits(r)' = AllSplits(r)
      BY <1>2 DEF AllSplits
    <2>3. QED
      BY <2>1, <2>2
  <1>3. QED
    BY <1>1, <1>2, ConservationCalculation

\* Every step keeps the purchases and their splits adding up.
LEMMA ConservationStep ==
    ASSUME TypeInv, SplitsInv, SafetyInv, LooseInv, ConservationInv, [Next]_vars
    PROVE  ConservationInv'
  <1> USE DataAssumption, NameAssumption
  <1>t. /\ buy \in [Purchases -> PurchaseRecords] /\ local \in [Purchases -> PurchaseRecords]
        /\ splits \in [Purchases -> Totals] /\ plan.splits \in [Purchases -> Totals]
        /\ note \in [CreditNotes -> EntryRecords] /\ sell \in [Sales -> SaleRecords]
        /\ plan.buys \subseteq Purchases /\ queue.buys \subseteq Purchases
        /\ current.sold \in Nat /\ crashes \in Nat
        /\ extras \in [Codes -> [add : Nat, credit : Nat]]
    BY DEF TypeInv, TypeOK, Plans, Queues, CurrentSales
  <1>s. \A p \in Purchases : AllSplits(p) \in Totals
    <2> SUFFICES ASSUME NEW p \in Purchases PROVE AllSplits(p) \in Totals
      OBVIOUS
    <2>1. splits[p] \in Totals /\ plan.splits[p] \in Totals
      BY <1>t
    <2>2. QED
      BY <2>1 DEF AllSplits, Totals
  <1>1. ASSUME NEW p \in Purchases, NEW q \in Quantities, NEW c \in Costs, NEW d \in Dates,
               PostPurchase(p, q, c, d)
        PROVE  ConservationInv'
    <2>1. /\ ~buy[p].posted /\ buy' = [buy EXCEPT ![p] = NewPurchase(q, c, d)]
          /\ UNCHANGED <<splits, pc, local, queue, plan, crashes>>
      BY <1>1 DEF PostPurchase, CanRecord, run
    <2>2. /\ splits[p] = NoTotals /\ buy'[p] = NewPurchase(q, c, d)
          /\ \A r \in Purchases : r # p => buy'[r] = buy[r]
          /\ p \notin queue.buys /\ p \notin plan.buys
      BY <1>t, <2>1 DEF SafetyInv, UnpostedInv, MemoryInv
    <2>3. Balanced(buy'[p], splits[p]) /\ buy'[p].totalCost = buy'[p].basis
      <3>1. /\ q \in Nat /\ c \in Int
            /\ buy'[p].amount = q /\ buy'[p].quantity = q
            /\ buy'[p].totalCost = c /\ buy'[p].basis = c
        BY <2>2 DEF NewPurchase
      <3>2. QED
        BY <2>2, <3>1 DEF Balanced, NoTotals
    <2>4. QED
      BY <2>1, <2>2, <2>3 DEF ConservationInv, BetweenBatches, Calculating, AllSplits
  <1>2. CASE \/ \E s \in Sales, q \in Quantities, d \in Dates : PostSale(s, q, d)
             \/ \E n \in CreditNotes, q \in Quantities, a \in ExtraAmounts, d \in Dates :
                   PostCreditNote(n, q, a, d)
             \/ \E c \in Codes, a \in ExtraAmounts :
                   RecordAdditionalCost(c, a) \/ RecordCredit(c, a)
             \/ \E d \in Dates : CloseBooks(d)
             \/ UNCHANGED vars
    <2>1. UNCHANGED <<buy, splits, pc, local, queue, plan, crashes>>
      BY <1>2 DEF PostSale, PostCreditNote, RecordAdditionalCost, RecordCredit, CloseBooks,
                  run, books, vars
    <2>2. QED
      BY <2>1 DEF ConservationInv, BetweenBatches, Calculating, AllSplits
  <1>3. CASE StartCalculation \/ StartReset \/ ReadAccountToReset
    <2>1. /\ pc \in {"idle", "reset"} /\ pc' \in {"idle", "list", "reset", "resetList"}
          /\ UNCHANGED <<buy, splits, crashes>>
      BY <1>3 DEF StartCalculation, StartReset, ReadAccountToReset, run, books
    <2>2. QED
      BY <2>1, ConservationStutter DEF BetweenBatches, Calculating
  <1>4. ASSUME NEW d \in Dates, ListTransactions(d)
        PROVE  ConservationInv'
    <2>1. CASE Finish
      BY <1>4, <2>1, ConservationStutter
         DEF ListTransactions, Finish, BetweenBatches, Calculating, books
    <2>2. CASE ~Finish
      <3>1. /\ pc = "list" /\ pc' = "credits" /\ UNCHANGED <<buy, splits, plan, crashes>>
        BY <1>4, <2>2 DEF ListTransactions, books
      <3>2. \A p \in Purchases : plan.splits[p] = NoTotals
        BY <3>1 DEF SafetyInv, MemoryInv, EmptyPlan
      <3>3. ASSUME NEW p \in Purchases PROVE AllSplits(p)' = splits[p]
        <4>1. splits[p] \in Totals
          BY <1>t
        <4>2. AllSplits(p)' = [quantity |-> splits[p].quantity + 0, cost |-> splits[p].cost + 0,
                               credited |-> splits[p].credited + 0, loose |-> splits[p].loose]
          BY <3>1, <3>2 DEF AllSplits, NoTotals
        <4>3. QED
          BY <4>1, <4>2 DEF Totals
      <3>l. ASSUME crashes = 0
            PROVE  queue'.buys \subseteq Purchases /\ \A p \in Purchases : local'[p] = buy[p]
        <4>1. PICK buys \in SUBSET Purchases, parts \in SUBSET Purchases,
                   notes \in SUBSET Unchecked(note, d), last \in Sales :
                   \E amounts \in [parts -> Nat] :
                   /\ parts \subseteq buys /\ buys \ parts \subseteq Unchecked(buy, d)
                   /\ \A p \in parts : 0 < amounts[p] /\ amounts[p] <= splits[p].loose
                   /\ queue' = [buys |-> buys, splits |-> parts, sales |-> Unchecked(sell, d),
                                notes |-> notes, lastDate |-> sell[last].date]
                   /\ local' = CopyPurchases(parts, amounts)
          BY <1>4, <1>t, <2>2, ListedFacts
        <4>2. PICK amounts \in [parts -> Nat] :
                   /\ \A p \in parts : 0 < amounts[p] /\ amounts[p] <= splits[p].loose
                   /\ queue'.buys = buys /\ local' = CopyPurchases(parts, amounts)
          BY <4>1
        <4>3. NoLooseSplits
          BY <3>1, <3>l DEF LooseInv
        <4>4. ASSUME NEW p \in parts PROVE FALSE
          <5>1. splits[p].loose = 0 /\ amounts[p] \in Nat
            BY <4>2, <4>3 DEF NoLooseSplits
          <5>2. QED
            BY <4>2, <4>4, <5>1
        <4>5. \A p \in Purchases : CopyPurchases(parts, amounts)[p] = buy[p]
          BY <4>4 DEF CopyPurchases
        <4>6. QED
          BY <4>2, <4>5
      <3>4. crashes = 0 => \A p \in Purchases : Balanced(buy[p], splits[p])
        BY <3>1 DEF ConservationInv, BetweenBatches
      <3>5. ~BetweenBatches /\ Calculating'
        BY <3>1 DEF BetweenBatches, Calculating
      <3>6. QED
        BY <3>1, <3>3, <3>l, <3>4, <3>5, ConservationCalculation
    <2>3. QED
      BY <2>1, <2>2
  <1>5. ASSUME NEW n \in CreditNotes, ProcessCreditNote(n)
        PROVE  ConservationInv'
    <2> DEFINE q == note[n].quantity
    <2>1. /\ q \in Nat /\ pc = "credits" /\ UNCHANGED <<buy, splits, crashes>>
          /\ Calculating /\ ~BetweenBatches
      BY <1>5, <1>t DEF ProcessCreditNote, EntryRecords, Calculating, BetweenBatches, books
    <2>2. CASE Finish
      BY <2>1, <2>2, ConservationStutter DEF Finish, BetweenBatches, Calculating
    <2>3. CASE queue' = [queue EXCEPT !.notes = @ \ {n}] /\ UNCHANGED <<pc, copy, local, current, plan>>
      <3>1. queue'.buys = queue.buys
        BY <2>3 DEF TypeInv, TypeOK, Queues
      <3>2. QED
        BY <2>1, <2>3, <3>1 DEF ConservationInv, BetweenBatches, Calculating, AllSplits
    <2>4. ASSUME NEW p \in queue.buys, ~ReturnsAll(local[p], q),
                 queue' = [queue EXCEPT !.notes = @ \ {n}],
                 local' = [local EXCEPT ![p] = AfterReturn(@, q)],
                 plan' = [plan EXCEPT !.splits[p] = WithReturn(@, q),
                                      !.buys = @ \cup {p}, !.notes = @ \cup {n},
                                      !.locked = @ \/ Locked(buy[p].date)
                                                   \/ Locked(note[n].date)],
                 UNCHANGED <<pc, copy, current>>
          PROVE  ConservationInv'
      <3> DEFINE w == local'[p]
                 t == plan'.splits[p]
      <3>1. queue'.buys = queue.buys /\ Calculating'
        BY <2>1, <2>4 DEF TypeInv, TypeOK, Queues, Calculating
      <3>2. w = AfterReturn(local[p], q) /\ \A r \in Purchases : r # p => local'[r] = local[r]
        BY <1>t, <2>4
      <3>3. /\ w.quantity = local[p].quantity /\ w.amount + q = local[p].amount
            /\ w.seen = local[p].seen /\ w.totalCost = local[p].totalCost
            /\ w.basis = local[p].basis /\ w \in PurchaseRecords
        BY <1>t, <2>1, <2>4, <3>2, AfterReturnFacts
      <3>4. /\ t.quantity = plan.splits[p].quantity + q /\ t.cost = plan.splits[p].cost
            /\ \A r \in Purchases : r # p => plan'.splits[r] = plan.splits[r]
        <4>1. plan'.splits = [plan.splits EXCEPT ![p] = WithReturn(plan.splits[p], q)]
          BY <2>4 DEF TypeInv, TypeOK, Plans
        <4>2. /\ t = WithReturn(plan.splits[p], q)
              /\ \A r \in Purchases : r # p => plan'.splits[r] = plan.splits[r]
          BY <1>t, <4>1
        <4>3. plan.splits[p] \in Totals /\ q \in Nat
          BY <1>t, <2>1
        <4> HIDE DEF q, t
        <4>4. /\ WithReturn(plan.splits[p], q).quantity = plan.splits[p].quantity + q
              /\ WithReturn(plan.splits[p], q).cost = plan.splits[p].cost
          BY <4>3, WithReturnFacts
        <4>5. QED
          BY <4>2, <4>4
      <3>5. /\ plan.splits[p].quantity \in Nat /\ splits[p].quantity \in Nat
            /\ local[p].amount \in Nat /\ w.amount \in Nat
        BY <1>t, <3>3 DEF Totals, PurchaseRecords
      <3>6. ASSUME crashes = 0 PROVE Balanced(w, AllSplits(p)')
        <4>1. Balanced(local[p], AllSplits(p))
          BY <2>1, <3>6 DEF ConservationInv
        <4>2. /\ AllSplits(p)'.quantity = splits[p].quantity + (plan.splits[p].quantity + q)
              /\ AllSplits(p)'.cost = AllSplits(p).cost
              /\ AllSplits(p).quantity = splits[p].quantity + plan.splits[p].quantity
          BY <2>1, <3>4 DEF AllSplits
        <4>3. w.amount + AllSplits(p)'.quantity = local[p].amount + AllSplits(p).quantity
          BY <2>1, <3>3, <3>5, <4>2
        <4>4. QED
          BY <3>3, <4>1, <4>2, <4>3 DEF Balanced
      <3>7. QED
        BY <1>t, <2>1, <3>1, <3>2, <3>4, <3>6, ConservationDraw
    <2>5. QED
      BY <1>5, <2>2, <2>3, <2>4 DEF ProcessCreditNote
  <1>6. CASE CreditNotesDone \/ SalesDone \/ \E s \in Sales : NextSale(s)
    <2>1. /\ Calculating /\ Calculating' /\ ~BetweenBatches /\ queue'.buys = queue.buys
          /\ UNCHANGED <<buy, splits, local, plan, crashes>>
      BY <1>6 DEF CreditNotesDone, SalesDone, NextSale, fireBatchOperations, Calculating,
                  BetweenBatches, TypeInv, TypeOK, Queues, run, books
    <2>2. QED
      BY <2>1, ConservationCalculation DEF ConservationInv, AllSplits
  <1>7. ASSUME NEW p \in Purchases, LiquidatePurchase(p)
        PROVE  ConservationInv'
    <2> DEFINE w == WithExtras(local[p], getAdditionalCostsAndCreditNotes(p))
    <2>1. /\ p \in queue.buys /\ pc = "purchases" /\ pc' = "purchases"
          /\ UNCHANGED <<buy, splits, queue, crashes>>
          /\ local' = [local EXCEPT ![p] = Liquidated(w)]
          /\ plan' = [plan EXCEPT !.buys = @ \cup {p}, !.locked = @ \/ Locked(buy[p].date)]
      BY <1>7 DEF LiquidatePurchase, OldestPurchases, Available, books
    <2>2. w \in PurchaseRecords
      BY <1>t, WithExtrasFacts DEF getAdditionalCostsAndCreditNotes
    <2>3. Calculating /\ Calculating'
      BY <2>1 DEF Calculating
    <2>4. crashes = 0 => Balanced(w, AllSplits(p))
      BY <1>t, <1>s, <2>1, <2>3, ExtrasBalanced
         DEF ConservationInv, getAdditionalCostsAndCreditNotes
    <2> HIDE DEF w
    <2>5. plan'.splits = plan.splits
      BY <2>1 DEF TypeInv, TypeOK, Plans
    <2>6. local'[p] = Liquidated(w) /\ \A r \in Purchases : r # p => local'[r] = local[r]
      BY <1>t, <2>1
    <2>7. AllSplits(p)' = AllSplits(p)
      BY <2>1, <2>5 DEF AllSplits
    <2>8. crashes = 0 => Balanced(local'[p], AllSplits(p)')
      BY <2>2, <2>4, <2>6, <2>7, LiquidatedFacts DEF Balanced
    <2>9. QED
      BY <1>t, <2>1, <2>3, <2>5, <2>6, <2>8, ConservationDraw
  <1>8. ASSUME NEW p \in Purchases, SplitPurchase(p)
        PROVE  ConservationInv'
    <2> DEFINE w == WithExtras(local[p], getAdditionalCostsAndCreditNotes(p))
               q == current.sold
               cost == q * UnitCost(w.totalCost, w.amount)
               t == WithSale(plan.splits[p], q, cost)
    <2>1. /\ p \in queue.buys /\ pc = "purchases" /\ pc' = "purchases"
          /\ UNCHANGED <<buy, splits, queue, crashes>>
          /\ local' = [local EXCEPT ![p] = Remaining(w, q)]
          /\ plan' = [plan EXCEPT !.splits[p] = t, !.buys = @ \cup {p},
                                  !.locked = @ \/ Locked(buy[p].date)]
          /\ q \in Nat /\ q < local[p].amount
      BY <1>8, <1>t DEF SplitPurchase, OldestPurchases, Available, books
    <2>2. w \in PurchaseRecords /\ w.amount = local[p].amount /\ w.seen
      BY <1>t, WithExtrasFacts DEF getAdditionalCostsAndCreditNotes
    <2>3. Calculating /\ Calculating'
      BY <2>1 DEF Calculating
    <2>4. crashes = 0 => Balanced(w, AllSplits(p))
      BY <1>t, <1>s, <2>1, <2>3, ExtrasBalanced
         DEF ConservationInv, getAdditionalCostsAndCreditNotes
    <2> DEFINE l == Remaining(w, q)
    <2> HIDE DEF w, t
    <2>5. /\ l \in PurchaseRecords /\ cost \in Int /\ l.quantity = w.quantity
          /\ l.amount + q = w.amount /\ l.totalCost + cost = w.totalCost
          /\ l.seen = w.seen /\ l.basis = w.basis
      BY <2>1, <2>2, RemainingFacts
    <2>t. t.quantity = plan.splits[p].quantity + q /\ t.cost = plan.splits[p].cost + cost
      <3>1. plan.splits[p] \in Totals /\ q \in Nat /\ cost \in Int
        BY <1>t, <2>1, <2>5
      <3> HIDE DEF q, cost
      <3>2. QED
        BY <3>1, WithSaleFacts DEF t
    <2> HIDE DEF cost, l
    <2>6. local'[p] = l /\ \A r \in Purchases : r # p => local'[r] = local[r]
      BY <1>t, <2>1 DEF l
    <2>7. plan'.splits = [plan.splits EXCEPT ![p] = t]
      BY <2>1 DEF TypeInv, TypeOK, Plans
    <2>8. plan'.splits[p] = t /\ \A r \in Purchases : r # p => plan'.splits[r] = plan.splits[r]
      BY <1>t, <2>7
    <2>9. /\ plan.splits[p].quantity \in Nat /\ splits[p].quantity \in Nat
          /\ plan.splits[p].cost \in Int /\ splits[p].cost \in Int
          /\ l.amount \in Nat /\ l.totalCost \in Int /\ w.amount \in Nat /\ w.totalCost \in Int
      BY <1>t, <2>2, <2>5 DEF Totals, PurchaseRecords
    <2>10. ASSUME crashes = 0 PROVE Balanced(l, AllSplits(p)')
      <3>1. /\ AllSplits(p)'.quantity = splits[p].quantity + (plan.splits[p].quantity + q)
            /\ AllSplits(p)'.cost = splits[p].cost + (plan.splits[p].cost + cost)
            /\ AllSplits(p).quantity = splits[p].quantity + plan.splits[p].quantity
            /\ AllSplits(p).cost = splits[p].cost + plan.splits[p].cost
        BY <2>1, <2>t, <2>8 DEF AllSplits
      <3>2. l.amount + AllSplits(p)'.quantity = w.amount + AllSplits(p).quantity
        BY <2>1, <2>5, <2>9, <3>1
      <3>3. l.totalCost + AllSplits(p)'.cost = w.totalCost + AllSplits(p).cost
        BY <2>5, <2>9, <3>1
      <3>4. QED
        BY <2>2, <2>4, <2>5, <2>10, <3>2, <3>3 DEF Balanced
    <2>11. QED
      BY <1>t, <2>1, <2>3, <2>6, <2>8, <2>10, ConservationDraw
  <1>9. CASE FinishSale
    <2>1. CASE Finish
      BY <1>9, <2>1, ConservationStutter
         DEF FinishSale, Finish, BetweenBatches, Calculating, books
    <2>2. CASE ~Finish
      <3>1. /\ Calculating /\ Calculating' /\ ~BetweenBatches
            /\ UNCHANGED <<buy, splits, local, queue, crashes>>
        BY <1>9, <2>2 DEF FinishSale, Calculating, BetweenBatches, books
      <3>2. plan'.splits = plan.splits
        BY <1>9, <2>2 DEF FinishSale, TypeInv, TypeOK, Plans
      <3>3. QED
        BY <3>1, <3>2, ConservationCalculation DEF ConservationInv, AllSplits
    <2>3. QED
      BY <2>1, <2>2
  <1>10. CASE CreateInventoryTransactions
    <2>1. /\ pc = "createInventory" /\ pc' = "updateInventory"
          /\ UNCHANGED <<buy, local, plan, crashes>>
          /\ \A p \in Purchases : splits'[p] = AllSplits(p)
      BY <1>10 DEF CreateInventoryTransactions, fireBatchOperations, AllSplits, run
    <2>2. Calculating /\ ~BetweenBatches /\ ~Calculating'
      BY <2>1 DEF Calculating, BetweenBatches
    <2>3. ASSUME NEW p \in Purchases, p \notin plan.buys PROVE splits'[p] = splits[p]
      <3>1. plan.splits[p] = NoTotals /\ splits[p] \in Totals
        BY <1>t, <2>2, <2>3 DEF SafetyInv, CalculationInv
      <3>2. splits'[p] = [quantity |-> splits[p].quantity + 0, cost |-> splits[p].cost + 0,
                          credited |-> splits[p].credited + 0, loose |-> splits[p].loose]
        BY <2>1, <3>1 DEF AllSplits, NoTotals
      <3>3. QED
        BY <3>1, <3>2 DEF Totals
    <2>4. plan.buys \subseteq queue.buys
      BY <2>2 DEF SafetyInv, CalculationInv
    <2>5. QED
      BY <2>1, <2>2, <2>3, <2>4 DEF ConservationInv, BetweenBatches
  <1>11. CASE UpdateInventoryTransactions
    <2>1. pc = "updateInventory" /\ pc' = "createFinancial" /\ UNCHANGED crashes
      BY <1>11 DEF UpdateInventoryTransactions, fireBatchOperations
    <2>2. ASSUME crashes = 0
          PROVE  \A p \in Purchases : /\ splits'[p] = splits[p]
                                      /\ buy'[p] = IF p \in plan.buys THEN local[p] ELSE buy[p]
      <3>1. NoLooseSplits
        BY <2>1, <2>2 DEF LooseInv
      <3>2. queue.splits = {}
        BY <2>1, <3>1, NoneListed
      <3>3. QED
        BY <1>11, <3>2 DEF UpdateInventoryTransactions
    <2>3. QED
      BY <2>1, <2>2 DEF ConservationInv, BetweenBatches, Calculating
  <1>12. CASE CreateFinancialTransactions \/ TrashFinancialTransactions
    <2>1. /\ pc \in {"createFinancial", "trashFinancial"}
          /\ pc' \in {"storeDate", "restoreInventory"}
          /\ UNCHANGED <<buy, splits, crashes>>
      BY <1>12 DEF CreateFinancialTransactions, TrashFinancialTransactions,
                   fireBatchOperations, fireResetOperations
    <2>2. QED
      BY <2>1, ConservationStutter DEF BetweenBatches, Calculating
  <1>13. CASE storeLastCalcTxDate \/ ClearAccount \/ \E p \in Purchases : RejectSplit(p)
    <2>1. /\ pc \in {"storeDate", "clearAccount", "purchases"} /\ pc' = "idle"
          /\ UNCHANGED <<buy, splits, crashes>>
      BY <1>13 DEF storeLastCalcTxDate, ClearAccount, RejectSplit, Finish, books
    <2>2. QED
      BY <2>1, ConservationStutter DEF BetweenBatches, Calculating
  <1>14. CASE ListTransactionsToReset
    <2>1. pc = "resetList" /\ pc' \in {"idle", "trashFinancial"} /\ UNCHANGED <<buy, splits, crashes>>
      BY <1>14 DEF ListTransactionsToReset, Finish, fireResetOperations, books
    <2>2. QED
      BY <2>1, ConservationStutter DEF BetweenBatches, Calculating
  <1>15. CASE RestoreInventoryTransactions
    <2>1. /\ pc = "restoreInventory" /\ pc' = "trashInventory" /\ UNCHANGED crashes
          /\ \A p \in Purchases :
                buy'[p] = IF p \in plan.buys THEN Restored(buy[p]) ELSE buy[p]
      BY <1>15 DEF RestoreInventoryTransactions, fireResetOperations
    <2>2. ASSUME NEW p \in Purchases, crashes = 0
          PROVE  buy'[p].totalCost = buy'[p].basis
      <3>1. CASE p \in plan.buys
        BY <1>t, <2>1, <3>1, RestoredFacts
      <3>2. CASE p \notin plan.buys
        <4>1. Balanced(buy[p], splits[p]) /\ ~buy[p].seen /\ buy'[p] = buy[p]
          BY <2>1, <2>2, <3>2
             DEF ConservationInv, BetweenBatches, SafetyInv, ResetInv, Untouched
        <4>2. buy[p].totalCost \in Int
          BY <1>t DEF PurchaseRecords
        <4>3. QED
          BY <4>1, <4>2 DEF Balanced
      <3>3. QED
        BY <3>1, <3>2
    <2>3. QED
      BY <2>1, <2>2 DEF ConservationInv, BetweenBatches, Calculating
  <1>16. CASE TrashInventoryTransactions
    <2>1. /\ pc = "trashInventory" /\ pc' = "clearAccount" /\ UNCHANGED <<buy, crashes>>
          /\ \A p \in Purchases : splits'[p] = IF p \in plan.trash THEN NoTotals ELSE splits[p]
      BY <1>16 DEF TrashInventoryTransactions, fireResetOperations
    <2>2. \A p \in Purchases : splits'[p] = NoTotals /\ buy[p].amount = buy[p].quantity
      BY <2>1 DEF SafetyInv, ResetInv, Untouched
    <2>3. crashes = 0 => \A p \in Purchases : Balanced(buy[p], NoTotals)
      BY <1>t, <2>1, <2>2, UntouchedBalanced DEF ConservationInv
    <2>4. QED
      BY <2>1, <2>2, <2>3 DEF ConservationInv, BetweenBatches, Calculating
  <1>17. CASE Crash
    <2>1. crashes' # 0
      BY <1>17, <1>t DEF Crash
    <2>2. QED
      BY <2>1 DEF ConservationInv
  <1>18. QED
    BY <1>1, <1>2, <1>3, <1>4, <1>5, <1>6, <1>7, <1>8, <1>9, <1>10, <1>11, <1>12, <1>13,
       <1>14, <1>15, <1>16, <1>17
       DEF Next, Handlers, Calculation, Reset

\* They add up in every state of every behaviour.
LEMMA ConservationInvariant == Spec => []ConservationInv
  <1>1. Init => ConservationInv
    <2> SUFFICES ASSUME Init PROVE ConservationInv
      OBVIOUS
    <2>1. \A p \in Purchases : Balanced(buy[p], splits[p])
      BY DEF Init, Balanced, NoPurchase, NoTotals
    <2>2. pc = "idle"
      BY DEF Init
    <2>3. QED
      BY <2>1, <2>2 DEF ConservationInv, Calculating
  <1>2. QED
    BY <1>1, TypeInvariant, SafetyInvariant, LooseInvariant, ConservationStep, PTL DEF Spec

\* As long as no run has died, no unit of a purchase is created or lost.
THEOREM StockConservation == Spec => []StockConserved
  <1>1. ConservationInv => StockConserved
    BY DEF ConservationInv, StockConserved, Balanced
  <1>2. QED
    BY <1>1, ConservationInvariant, PTL

\* As long as no run has died, the cost of a purchase is passed on in full,
\* whatever the unit costs were rounded to.
THEOREM CostConservation == Spec => []CostConserved
  <1>1. ConservationInv => CostConserved
    BY DEF ConservationInv, CostConserved, Balanced
  <1>2. QED
    BY <1>1, ConservationInvariant, PTL
------------------------------------------------------------------------------
(* The rebuild flag *)

\* Only the last call of a reset takes the rebuild flag away.
LEMMA FlagStep ==
    ASSUME MergeProps, TypeInv, [Next]_vars, props.needsRebuild, ~ClearAccount
    PROVE  props'.needsRebuild
  <1>1. ASSUME NEW stored \in Props, NEW sent, stored.needsRebuild
        PROVE  UpdateProps(stored, sent, {}).needsRebuild
    BY <1>1 DEF UpdateProps
  <1>2. props \in Props /\ NoProps \in Props
    BY EmptyTypes DEF TypeInv, TypeOK
  <1>3. ASSUME NEW stored \in Props, NEW read, NEW date, stored.needsRebuild
        PROVE  checkLastTxDate(stored, read, date).needsRebuild
    BY <1>1, <1>3 DEF checkLastTxDate
  <1>4. ASSUME NEW p \in Purchases, NEW q \in Quantities, NEW c \in Costs, NEW d \in Dates,
               PostPurchase(p, q, c, d)
        PROVE  props'.needsRebuild
    <2>1. /\ checkInventoryAccount(props) \in Props
          /\ checkInventoryAccount(props).needsRebuild
      BY <1>1, <1>2, UpdatePropsType DEF checkInventoryAccount
    <2>2. QED
      BY <1>2, <1>3, <1>4, <2>1 DEF PostPurchase
  <1>5. ASSUME NEW s \in Sales, NEW q \in Quantities, NEW d \in Dates, PostSale(s, q, d)
        PROVE  props'.needsRebuild
    BY <1>2, <1>3, <1>5 DEF PostSale
  <1>6. ASSUME NEW n \in CreditNotes, NEW q \in Quantities, NEW a \in ExtraAmounts,
               NEW d \in Dates, PostCreditNote(n, q, a, d)
        PROVE  props'.needsRebuild
    BY <1>2, <1>3, <1>6 DEF PostCreditNote
  <1>7. CASE storeLastCalcTxDate
    BY <1>1, <1>2, <1>7 DEF storeLastCalcTxDate
  <1>8. CASE \/ \E c \in Codes, a \in ExtraAmounts :
                   RecordAdditionalCost(c, a) \/ RecordCredit(c, a)
             \/ \E d \in Dates : CloseBooks(d)
             \/ StartCalculation \/ StartReset \/ Crash \/ UNCHANGED vars
    BY <1>8 DEF RecordAdditionalCost, RecordCredit, CloseBooks, StartCalculation, StartReset,
                Crash, vars, books
  <1>9. CASE \/ \E d \in Dates : ListTransactions(d)
             \/ \E n \in CreditNotes : ProcessCreditNote(n)
             \/ CreditNotesDone \/ SalesDone \/ FinishSale
             \/ \E s \in Sales : NextSale(s)
             \/ \E p \in Purchases : LiquidatePurchase(p) \/ SplitPurchase(p) \/ RejectSplit(p)
    BY <1>9 DEF ListTransactions, ProcessCreditNote, CreditNotesDone, SalesDone, FinishSale,
                NextSale, LiquidatePurchase, SplitPurchase, RejectSplit, books
  <1>10. CASE \/ CreateInventoryTransactions \/ UpdateInventoryTransactions
              \/ CreateFinancialTransactions
              \/ ReadAccountToReset \/ ListTransactionsToReset \/ TrashFinancialTransactions
              \/ RestoreInventoryTransactions \/ TrashInventoryTransactions
    BY <1>10 DEF CreateInventoryTransactions, UpdateInventoryTransactions,
                 CreateFinancialTransactions, ReadAccountToReset, ListTransactionsToReset,
                 TrashFinancialTransactions, RestoreInventoryTransactions,
                 TrashInventoryTransactions, books
  <1>11. QED
    BY <1>4, <1>5, <1>6, <1>7, <1>8, <1>9, <1>10
       DEF Next, Handlers, Calculation, Reset

\* If Bkper keeps the account properties that an update does not send, only the
\* last call of a reset takes the rebuild flag away, whatever copies of the
\* account handlers and runs write back.
THEOREM FlagSafe == ASSUME MergeProps PROVE Spec => FlagKept
  <1>1. TypeInv /\ [Next]_vars
          => [props.needsRebuild /\ ~props'.needsRebuild => pc = "clearAccount"]_vars
    BY FlagStep DEF ClearAccount
  <1>2. QED
    BY <1>1, TypeInvariant, PTL DEF Spec, FlagKept
==============================================================================
