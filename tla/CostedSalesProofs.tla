-------------------------- MODULE CostedSalesProofs --------------------------
(***************************************************************************)
(* Proofs about what the cost-of-sales engine computes: every sale is      *)
(* costed to its last unit, the Financial Book holds costs of costed sales *)
(* only, these costs are what has left the purchases, and the purchases    *)
(* are used first in, first out.                                           *)
(***************************************************************************)
EXTENDS CostOfSalesProofs, SumTheorems, SequenceTheorems

\* Every purchase has its own code.
OwnPurchaseCodes == \A p, r \in Purchases : CodeOf[p] = CodeOf[r] => p = r

\* The quantities and amounts whose sums the invariants compare: what each sale
\* sells, what each credit note returns, what is left of the copy of each purchase.
SaleQuantities == [s \in Sales |-> sell[s].quantity]
NoteQuantities == [n \in CreditNotes |-> note[n].quantity]
CopiedAmounts == [p \in Purchases |-> local[p].amount]

\* The calls between the listing of the transactions and the end of the last sale.
InProcess == pc \in {"credits", "sales", "purchases"}

\* What the run still has to cost and to return is no more than what is left of
\* the purchases that it holds, unless a reset that died has left unchecked splits.
EnoughInv ==
    InProcess /\ NoLooseSplits =>
        SumOf(SaleQuantities, queue.sales) + SumOf(NoteQuantities, queue.notes) + current.sold
          <= SumOf(CopiedAmounts, Available)

\* Each sale is in one place at a time, and the costs that are planned are those of
\* the sales that have been costed to the end.
PlaceInv ==
    /\ pc # "purchases" => current = NoCurrentSale
    /\ InProcess \/ pc \in {"createInventory", "updateInventory"} =>
         /\ NoLooseSplits => plan.cogs = plan.sells
         /\ queue.sales \cap plan.cogs = {}
         /\ current.sale \notin queue.sales \cup plan.cogs
         /\ \A s \in Sales : s \in queue.sales \cup plan.cogs \cup {current.sale} =>
               ~sell[s].checked
         /\ \A s \in Sales : s \notin plan.cogs => plan.cost[s] = 0

\* The Financial Book holds costs of costed sales only; a run that is about to post
\* costs posts them once, and a reset trashes every one.
CogsInv ==
    /\ CogsOnlyForCostedSales
    /\ ~torn =>
         /\ pc = "createFinancial" => \A s \in plan.cogs : sell[s].checked /\ cogs[s] = <<>>
         /\ pc = "trashFinancial" => \A s \in Sales : cogs[s] # <<>> => s \in plan.cogs
         /\ pc \in {"restoreInventory", "trashInventory", "clearAccount"} =>
              \A s \in Sales : cogs[s] = <<>>

\* A run works on purchases that no one has checked.
OpenInv ==
    Calculating /\ NoLooseSplits => \A p \in queue.buys : ~buy[p].checked

\* What each sale has cost according to the Financial Book, and according to the run.
PostedCosts == [s \in Sales |-> SumOf(cogs[s], DOMAIN cogs[s])]
PlannedCosts == [s \in Sales |-> plan.cost[s]]
\* What a used-up purchase has cost.
Used(r) == IF r.checked THEN r.totalCost ELSE 0
\* The cost that has left each purchase: in the books, in the plan of the run, and
\* once updateInventory has written the copies of the run.
OutCosts == [p \in Purchases |-> splits[p].cost + Used(buy[p])]
PlannedOut == [p \in Purchases |-> plan.splits[p].cost + (IF p \in queue.buys THEN Used(local[p]) ELSE 0)]
AfterUpdate == [p \in Purchases |-> splits[p].cost + Used(IF p \in plan.buys THEN local[p] ELSE buy[p])]

\* The cost of the sales is the cost that has left the purchases: in the books between
\* runs, in the plan during a calculation, and in both together while the calculation
\* writes its plan.
TiedBooks ==
    /\ pc \notin {"updateInventory", "createFinancial", "restoreInventory",
                  "trashInventory", "clearAccount"} =>
         SumOf(PostedCosts, Sales) = SumOf(OutCosts, Purchases)
    /\ Calculating =>
         /\ SumOf(PlannedCosts, Sales) + current.cost = SumOf(PlannedOut, Purchases)
         /\ \A p \in queue.buys : local[p].checked => p \in plan.buys
    /\ pc = "updateInventory" =>
         SumOf(PostedCosts, Sales) + SumOf(PlannedCosts, Sales) = SumOf(AfterUpdate, Purchases)
    /\ pc = "createFinancial" =>
         /\ SumOf(PostedCosts, Sales) + SumOf(PlannedCosts, Sales) = SumOf(OutCosts, Purchases)
         /\ \A s \in Sales : s \notin plan.cogs => plan.cost[s] = 0

\* So it is as long as no run has died.
TieInv == crashes = 0 => TiedBooks

\* While a run is at work, no other step touches the sales: every sale up to its
\* last date is checked, or on its way to be.
DateInv ==
    /\ \A s \in Sales : sell[s].posted => sell[s].date > NoDate
    /\ crashes = 0 =>
         /\ InProcess \/ pc \in {"createInventory", "updateInventory"} =>
              \A s \in Sales : sell[s].posted /\ sell[s].date <= queue.lastDate =>
                  sell[s].checked \/ s \in queue.sales \cup plan.sells \cup {current.sale}
         /\ pc \in {"createInventory", "updateInventory"} => queue.sales = {}
         /\ pc \in {"createFinancial", "storeDate"} =>
              \A s \in Sales :
                  sell[s].posted /\ sell[s].date <= queue.lastDate => sell[s].checked
         /\ ~props.needsRebuild /\ pc \notin {"trashInventory", "clearAccount"} =>
              \A s \in Sales :
                  sell[s].posted /\ sell[s].date <= props.calcDate => sell[s].checked
------------------------------------------------------------------------------
(* What the steps do *)

\* The parts of the type invariant that the proofs below need.
LEMMA Types ==
    ASSUME TypeInv
    PROVE  /\ buy \in [Purchases -> PurchaseRecords] /\ local \in [Purchases -> PurchaseRecords]
           /\ splits \in [Purchases -> Totals] /\ plan.splits \in [Purchases -> Totals]
           /\ sell \in [Sales -> SaleRecords] /\ note \in [CreditNotes -> EntryRecords]
           /\ cogs \in [Sales -> Seq(Int)] /\ plan.cost \in [Sales -> Int]
           /\ queue.buys \subseteq Purchases /\ queue.splits \subseteq Purchases
           /\ queue.sales \subseteq Sales
           /\ queue.notes \subseteq CreditNotes /\ queue.lastDate \in Nat
           /\ plan.buys \subseteq Purchases /\ plan.sells \subseteq Sales
           /\ plan.cogs \subseteq Sales /\ plan.notes \subseteq CreditNotes
           /\ plan.trash \subseteq Purchases
           /\ current.sale \in Sales \cup {NoSale} /\ current.sold \in Nat /\ current.cost \in Int
           /\ extras \in [Codes -> [add : Nat, credit : Nat]]
           /\ props \in Props /\ copy \in Props /\ crashes \in Nat
  BY DEF TypeInv, TypeOK, Plans, Queues, CurrentSales

\* An event that a handler records changes only transactions that were not there.
LEMMA HandlerEffect ==
    ASSUME TypeInv, Handlers
    PROVE  /\ UNCHANGED <<pc, copy, local, queue, current, plan, splits, cogs, crashes, torn>>
           /\ \A p \in Purchases : buy'[p] # buy[p] =>
                 /\ ~buy[p].posted /\ buy'[p].posted /\ ~buy'[p].checked /\ ~buy'[p].seen
                 /\ buy'[p].amount = buy'[p].quantity /\ buy'[p].totalCost = buy'[p].cost
           /\ \A s \in Sales : sell'[s] # sell[s] =>
                 ~sell[s].posted /\ sell'[s].posted /\ ~sell'[s].checked /\ ~sell'[s].logged
           /\ \A n \in CreditNotes : note'[n] # note[n] =>
                 ~note[n].posted /\ note'[n].posted /\ ~note'[n].checked
  <1> USE Types
  <1>1. ASSUME NEW p \in Purchases, NEW q \in Quantities, NEW c \in Costs, NEW d \in Dates,
               PostPurchase(p, q, c, d)
        PROVE  /\ UNCHANGED <<pc, copy, local, queue, current, plan, splits, cogs, crashes, torn>>
               /\ UNCHANGED <<sell, note>> /\ ~buy[p].posted
               /\ \A r \in Purchases : r # p => buy'[r] = buy[r]
               /\ buy'[p].posted /\ ~buy'[p].checked /\ ~buy'[p].seen
               /\ buy'[p].amount = buy'[p].quantity /\ buy'[p].totalCost = buy'[p].cost
    BY <1>1 DEF PostPurchase, CanRecord, NewPurchase, run
  <1>2. ASSUME NEW s \in Sales, NEW q \in Quantities, NEW d \in Dates, PostSale(s, q, d)
        PROVE  /\ UNCHANGED <<pc, copy, local, queue, current, plan, splits, cogs, crashes, torn>>
               /\ UNCHANGED <<buy, note>> /\ ~sell[s].posted
               /\ \A r \in Sales : r # s => sell'[r] = sell[r]
               /\ sell'[s].posted /\ ~sell'[s].checked /\ ~sell'[s].logged
    BY <1>2 DEF PostSale, CanRecord, run
  <1>3. ASSUME NEW n \in CreditNotes, NEW q \in Quantities, NEW a \in ExtraAmounts,
               NEW d \in Dates, PostCreditNote(n, q, a, d)
        PROVE  /\ UNCHANGED <<pc, copy, local, queue, current, plan, splits, cogs, crashes, torn>>
               /\ UNCHANGED <<buy, sell>> /\ ~note[n].posted
               /\ \A r \in CreditNotes : r # n => note'[r] = note[r]
               /\ note'[n].posted /\ ~note'[n].checked
    BY <1>3 DEF PostCreditNote, CanRecord, run
  <1>4. ASSUME \/ \E c \in Codes, a \in ExtraAmounts :
                     RecordAdditionalCost(c, a) \/ RecordCredit(c, a)
               \/ \E d \in Dates : CloseBooks(d)
        PROVE  UNCHANGED <<pc, copy, local, queue, current, plan, splits, cogs, crashes, torn,
                           buy, sell, note>>
    BY <1>4 DEF RecordAdditionalCost, RecordCredit, CloseBooks, run
  <1>5. QED
    BY <1>1, <1>2, <1>3, <1>4 DEF Handlers

\* A run that ends forgets what it was about.
LEMMA FinishEffect ==
    ASSUME Finish
    PROVE  /\ pc' = "idle" /\ plan' = EmptyPlan /\ current' = NoCurrentSale
           /\ queue'.buys = {} /\ queue'.sales = {} /\ queue'.notes = {}
  BY DEF Finish, EmptyQueue

\* A credit note that does not abort the run.
LEMMA CreditNoteEffect ==
    ASSUME TypeInv, NEW n \in CreditNotes, ProcessCreditNote(n), ~Finish
    PROVE  /\ pc = "credits" /\ pc' = "credits" /\ n \in queue.notes
           /\ UNCHANGED <<books, copy, current, crashes, torn>>
           /\ queue'.notes = queue.notes \ {n} /\ queue'.buys = queue.buys
           /\ queue'.sales = queue.sales /\ queue'.lastDate = queue.lastDate
           /\ queue'.splits = queue.splits
           /\ plan'.sells = plan.sells /\ plan'.cogs = plan.cogs /\ plan'.cost = plan.cost
           /\ \/ /\ UNCHANGED <<local, plan>>
                 /\ \A p \in queue.buys : CodeOf[p] # NoteCode[n]
              \/ \E p \in queue.buys :
                    /\ CodeOf[p] = NoteCode[n]
                    /\ local'[p].amount = local[p].amount - note[n].quantity
                    /\ note[n].quantity < local[p].amount
                    /\ local'[p].checked = local[p].checked
                    /\ local'[p].posted = local[p].posted /\ local'[p].quantity = local[p].quantity
                    /\ local'[p].totalCost = local[p].totalCost
                    /\ plan'.splits[p].cost = plan.splits[p].cost
                    /\ plan'.splits[p].quantity = plan.splits[p].quantity + note[n].quantity
                    /\ plan'.notes = plan.notes \cup {n} /\ plan'.buys = plan.buys \cup {p}
                    /\ \A r \in Purchases : r # p =>
                          local'[r] = local[r] /\ plan'.splits[r] = plan.splits[r]
  <1> DEFINE q == note[n].quantity
             linked == {p \in queue.buys : CodeOf[p] = NoteCode[n]}
  <1>t. /\ local \in [Purchases -> PurchaseRecords] /\ plan.splits \in [Purchases -> Totals]
        /\ queue.buys \subseteq Purchases /\ q \in Nat
    BY Types DEF EntryRecords
  <1>1. /\ pc = "credits" /\ n \in queue.notes /\ UNCHANGED <<books, copy, current, crashes, torn, pc>>
        /\ queue' = [queue EXCEPT !.notes = @ \ {n}]
    BY DEF ProcessCreditNote
  <1>2. /\ queue'.notes = queue.notes \ {n} /\ queue'.buys = queue.buys
        /\ queue'.sales = queue.sales /\ queue'.lastDate = queue.lastDate
        /\ queue'.splits = queue.splits
    BY <1>1 DEF TypeInv, TypeOK, Queues
  <1>3. CASE linked = {} /\ UNCHANGED <<local, plan>>
    BY <1>1, <1>2, <1>3
  <1>4. ASSUME NEW p \in linked, ~ReturnsAll(local[p], q),
               local' = [local EXCEPT ![p] = AfterReturn(@, q)],
               plan' = [plan EXCEPT !.splits[p] = WithReturn(@, q),
                                    !.buys = @ \cup {p}, !.notes = @ \cup {n},
                                    !.locked = @ \/ Locked(buy[p].date)
                                                 \/ Locked(note[n].date)]
        PROVE  /\ p \in queue.buys /\ CodeOf[p] = NoteCode[n]
               /\ local'[p].amount = local[p].amount - q /\ q < local[p].amount
               /\ local'[p].checked = local[p].checked /\ local'[p].totalCost = local[p].totalCost
               /\ local'[p].posted = local[p].posted /\ local'[p].quantity = local[p].quantity
               /\ plan'.splits[p].cost = plan.splits[p].cost
               /\ plan'.splits[p].quantity = plan.splits[p].quantity + q
               /\ plan'.notes = plan.notes \cup {n} /\ plan'.buys = plan.buys \cup {p}
               /\ plan'.sells = plan.sells /\ plan'.cogs = plan.cogs /\ plan'.cost = plan.cost
               /\ \A r \in Purchases : r # p =>
                     local'[r] = local[r] /\ plan'.splits[r] = plan.splits[r]
    <2>1. local'[p] = AfterReturn(local[p], q) /\ \A r \in Purchases : r # p => local'[r] = local[r]
      BY <1>t, <1>4
    <2>2. /\ local'[p].amount = local[p].amount - q /\ q < local[p].amount
          /\ local'[p].checked = local[p].checked /\ local'[p].totalCost = local[p].totalCost
          /\ local'[p].posted = local[p].posted /\ local'[p].quantity = local[p].quantity
      BY <1>t, <1>4, <2>1 DEF AfterReturn, ReturnsAll, PurchaseRecords
    <2>3. /\ plan'.splits[p].cost = plan.splits[p].cost
          /\ plan'.splits[p].quantity = plan.splits[p].quantity + q
          /\ \A r \in Purchases : r # p => plan'.splits[r] = plan.splits[r]
      <3>1. plan.splits[p] \in Totals /\ q \in Nat
        BY <1>t
      <3>2. plan'.splits = [plan.splits EXCEPT ![p] = WithReturn(plan.splits[p], q)]
        BY <1>4 DEF TypeInv, TypeOK, Plans
      <3>3. /\ plan'.splits[p] = WithReturn(plan.splits[p], q)
            /\ \A r \in Purchases : r # p => plan'.splits[r] = plan.splits[r]
        BY <1>t, <3>2
      <3> HIDE DEF q
      <3>4. QED
        BY <3>1, <3>3, WithReturnFacts
    <2>4. /\ plan'.notes = plan.notes \cup {n} /\ plan'.buys = plan.buys \cup {p}
          /\ plan'.sells = plan.sells /\ plan'.cogs = plan.cogs /\ plan'.cost = plan.cost
      BY <1>4 DEF TypeInv, TypeOK, Plans
    <2>5. QED
      BY <1>4, <2>1, <2>2, <2>3, <2>4
  <1>5. QED
    <2>1. \/ linked = {} /\ UNCHANGED <<local, plan>>
          \/ \E p \in linked :
                /\ ~ReturnsAll(local[p], q)
                /\ local' = [local EXCEPT ![p] = AfterReturn(@, q)]
                /\ plan' = [plan EXCEPT !.splits[p] = WithReturn(@, q),
                                        !.buys = @ \cup {p}, !.notes = @ \cup {n},
                                        !.locked = @ \/ Locked(buy[p].date)
                                                     \/ Locked(note[n].date)]
      BY DEF ProcessCreditNote
    <2>2. QED
      BY <1>1, <1>2, <1>3, <1>4, <2>1

\* Looking up the extra costs and splitting leave the tick of a purchase alone.
LEMMA TickKept ==
    ASSUME NEW r \in PurchaseRecords, NEW x \in [add : Nat, credit : Nat], NEW q \in Nat
    PROVE  /\ WithExtras(r, x).checked = r.checked
           /\ Liquidated(r).checked
           /\ Remaining(r, q).checked = r.checked
  BY DEF WithExtras, Liquidated, Remaining, PurchaseRecords

\* A sale that takes all that is left of a purchase.
LEMMA LiquidateEffect ==
    ASSUME TypeInv, NEW p \in Purchases, LiquidatePurchase(p)
    PROVE  /\ pc = "purchases" /\ pc' = "purchases"
           /\ UNCHANGED <<books, copy, queue, crashes, torn>>
           /\ p \in OldestPurchases(Available) /\ p \in Available
           /\ current.sold > 0 /\ current.sold >= local[p].amount
           /\ current'.sale = current.sale
           /\ current'.sold = current.sold - local[p].amount
           /\ current'.cost = current.cost + local'[p].totalCost
           /\ local'[p].checked /\ local'[p].amount = local[p].amount
           /\ local'[p].posted = local[p].posted /\ local'[p].quantity = local[p].quantity
           /\ \A r \in Purchases : r # p => local'[r] = local[r]
           /\ plan'.splits = plan.splits /\ plan'.buys = plan.buys \cup {p}
           /\ plan'.sells = plan.sells /\ plan'.cogs = plan.cogs /\ plan'.cost = plan.cost
           /\ plan'.notes = plan.notes
  <1> DEFINE w == WithExtras(local[p], getAdditionalCostsAndCreditNotes(p))
  <1>t. local \in [Purchases -> PurchaseRecords] /\ extras \in [Codes -> [add : Nat, credit : Nat]]
    BY Types
  <1>1. /\ pc = "purchases" /\ pc' = "purchases" /\ UNCHANGED <<books, copy, queue, crashes, torn>>
        /\ p \in OldestPurchases(Available) /\ p \in Available
        /\ current.sold > 0 /\ current.sold >= local[p].amount
        /\ local' = [local EXCEPT ![p] = Liquidated(w)]
        /\ current' = [sale |-> current.sale, sold |-> current.sold - w.amount,
                       cost |-> current.cost + CostOfAll(w)]
        /\ plan' = [plan EXCEPT !.buys = @ \cup {p}, !.locked = @ \/ Locked(buy[p].date)]
    BY DEF LiquidatePurchase, OldestPurchases
  <1>2. /\ w \in PurchaseRecords /\ w.amount = local[p].amount /\ w.posted = local[p].posted
        /\ w.quantity = local[p].quantity
    BY <1>t, WithExtrasFacts, NameAssumption DEF getAdditionalCostsAndCreditNotes
  <1> HIDE DEF w
  <1>3. /\ local'[p].checked /\ local'[p].amount = local[p].amount
        /\ local'[p].totalCost = w.totalCost /\ local'[p].posted = local[p].posted
        /\ local'[p].quantity = local[p].quantity
        /\ \A r \in Purchases : r # p => local'[r] = local[r]
    <2>1. local'[p] = Liquidated(w) /\ \A r \in Purchases : r # p => local'[r] = local[r]
      BY <1>t, <1>1
    <2>2. Liquidated(w).checked
      BY <1>2 DEF Liquidated, PurchaseRecords
    <2>3. QED
      BY <1>2, <2>1, <2>2, LiquidatedFacts
  <1>4. /\ current'.sale = current.sale /\ current'.sold = current.sold - local[p].amount
        /\ current'.cost = current.cost + local'[p].totalCost
    BY <1>1, <1>2, <1>3 DEF CostOfAll
  <1>5. /\ plan'.splits = plan.splits /\ plan'.buys = plan.buys \cup {p}
        /\ plan'.sells = plan.sells /\ plan'.cogs = plan.cogs /\ plan'.cost = plan.cost
        /\ plan'.notes = plan.notes
    BY <1>1 DEF TypeInv, TypeOK, Plans
  <1>6. QED
    BY <1>1, <1>3, <1>4, <1>5

\* A sale that takes a part of what is left of a purchase.
LEMMA SplitEffect ==
    ASSUME TypeInv, NEW p \in Purchases, SplitPurchase(p)
    PROVE  /\ pc = "purchases" /\ pc' = "purchases"
           /\ UNCHANGED <<books, copy, queue, crashes, torn>>
           /\ p \in OldestPurchases(Available) /\ p \in Available
           /\ current.sold > 0 /\ current.sold < local[p].amount
           /\ current'.sale = current.sale /\ current'.sold = 0
           /\ local'[p].checked = local[p].checked /\ local'[p].posted = local[p].posted
           /\ local'[p].quantity = local[p].quantity
           /\ local'[p].amount = local[p].amount - current.sold
           /\ \A r \in Purchases : r # p =>
                 local'[r] = local[r] /\ plan'.splits[r] = plan.splits[r]
           /\ \E cost \in Int : /\ plan'.splits[p].cost = plan.splits[p].cost + cost
                                /\ current'.cost = current.cost + cost
           /\ plan'.splits[p].quantity = plan.splits[p].quantity + current.sold
           /\ plan'.buys = plan.buys \cup {p} /\ plan'.notes = plan.notes
           /\ plan'.sells = plan.sells /\ plan'.cogs = plan.cogs /\ plan'.cost = plan.cost
  <1> DEFINE w == WithExtras(local[p], getAdditionalCostsAndCreditNotes(p))
             q == current.sold
             cost == q * UnitCost(w.totalCost, w.amount)
             t == WithSale(plan.splits[p], q, cost)
  <1>t. /\ local \in [Purchases -> PurchaseRecords] /\ plan.splits \in [Purchases -> Totals]
        /\ extras \in [Codes -> [add : Nat, credit : Nat]] /\ q \in Nat
        /\ plan.splits[p] \in Totals
    BY Types
  <1>1. /\ pc = "purchases" /\ pc' = "purchases" /\ UNCHANGED <<books, copy, queue, crashes, torn>>
        /\ p \in OldestPurchases(Available) /\ p \in Available
        /\ q > 0 /\ q < local[p].amount
        /\ local' = [local EXCEPT ![p] = Remaining(w, q)]
        /\ current' = [sale |-> current.sale, sold |-> 0, cost |-> current.cost + cost]
        /\ plan' = [plan EXCEPT !.splits[p] = t, !.buys = @ \cup {p},
                                !.locked = @ \/ Locked(buy[p].date)]
    BY DEF SplitPurchase, OldestPurchases
  <1>2. /\ w \in PurchaseRecords /\ w.amount = local[p].amount /\ w.checked = local[p].checked
        /\ local[p].amount \in Nat /\ w.posted = local[p].posted
        /\ w.quantity = local[p].quantity
    <2>1. getAdditionalCostsAndCreditNotes(p) \in [add : Nat, credit : Nat]
      BY <1>t, NameAssumption DEF getAdditionalCostsAndCreditNotes
    <2>2. QED
      BY <1>t, <2>1, WithExtrasFacts, TickKept DEF PurchaseRecords
  <1> HIDE DEF w
  <1>3. /\ local'[p].checked = local[p].checked /\ local'[p].posted = local[p].posted
        /\ local'[p].quantity = local[p].quantity
        /\ local'[p].amount = local[p].amount - q
        /\ \A r \in Purchases : r # p => local'[r] = local[r]
        /\ cost \in Int
    <2>1. local'[p] = Remaining(w, q) /\ \A r \in Purchases : r # p => local'[r] = local[r]
      BY <1>t, <1>1
    <2>2. /\ Remaining(w, q).amount = w.amount - q
          /\ Remaining(w, q).checked = w.checked /\ Remaining(w, q).posted = w.posted
          /\ Remaining(w, q).quantity = w.quantity
      BY <1>2 DEF Remaining, PurchaseRecords
    <2>3. cost \in Int
      BY <1>t, <1>1, <1>2, RemainingFacts
    <2> HIDE DEF cost
    <2>4. QED
      BY <1>2, <2>1, <2>2, <2>3
  <1> HIDE DEF cost
  <1>4. plan'.splits = [plan.splits EXCEPT ![p] = t] /\ plan'.buys = plan.buys \cup {p}
    BY <1>1 DEF TypeInv, TypeOK, Plans
  <1>5. /\ plan'.sells = plan.sells /\ plan'.cogs = plan.cogs /\ plan'.cost = plan.cost
        /\ plan'.notes = plan.notes
    BY <1>1 DEF TypeInv, TypeOK, Plans
  <1>6. /\ plan'.splits[p].cost = plan.splits[p].cost + cost
        /\ plan'.splits[p].quantity = plan.splits[p].quantity + q
        /\ \A r \in Purchases : r # p => plan'.splits[r] = plan.splits[r]
    <2>1. /\ t.quantity = plan.splits[p].quantity + q /\ t.cost = plan.splits[p].cost + cost
      <3> HIDE DEF q
      <3>1. QED
        BY <1>t, <1>3, WithSaleFacts
    <2> HIDE DEF t
    <2>2. plan'.splits[p] = t /\ \A r \in Purchases : r # p => plan'.splits[r] = plan.splits[r]
      BY <1>t, <1>4
    <2>3. QED
      BY <2>1, <2>2
  <1>7. current'.sale = current.sale /\ current'.sold = 0 /\ current'.cost = current.cost + cost
    BY <1>1
  <1>8. QED
    BY <1>1, <1>3, <1>4, <1>5, <1>6, <1>7

\* The end of a sale that does not abort the run.
LEMMA FinishSaleEffect ==
    ASSUME TypeInv, FinishSale, ~Finish
    PROVE  /\ pc = "purchases" /\ pc' = "sales" /\ SaleProcessed
           /\ UNCHANGED <<books, copy, local, queue, crashes, torn>>
           /\ current' = NoCurrentSale
           /\ plan'.splits = plan.splits /\ plan'.buys = plan.buys /\ plan'.notes = plan.notes
           /\ plan'.sells = IF current.sold = 0 THEN plan.sells \cup {current.sale} ELSE plan.sells
           /\ plan'.cogs = plan.cogs \cup {current.sale}
           /\ plan'.cost = [plan.cost EXCEPT ![current.sale] = current.cost]
  BY DEF FinishSale, TypeInv, TypeOK, Plans

\* A listing that finds sales, and stock for them.
LEMMA ListEffect ==
    ASSUME TypeInv, NEW d \in Dates, ListTransactions(d), ~Finish
    PROVE  /\ pc = "list" /\ pc' = "credits"
           /\ UNCHANGED <<books, copy, current, plan, crashes, torn>>
           /\ EnoughStock(Unchecked(sell, d), Unchecked(buy, d), WithLooseSplits(d),
                          Unchecked(note, d))
           /\ queue'.notes \in OnePerKey(Unchecked(note, d), NoteNumber)
           /\ queue'.sales = Unchecked(sell, d)
           /\ \E last \in Unchecked(sell, d) : queue'.lastDate = sell[last].date
           /\ \A s \in Unchecked(sell, d) : sell[s].date <= queue'.lastDate
           /\ NoLooseSplits => /\ local' = buy /\ queue'.splits = {}
                               /\ queue'.buys \in OnePerKey(Unchecked(buy, d), CodeOf)
  <1> DEFINE S == Unchecked(sell, d)
             P == Unchecked(buy, d)
             L == WithLooseSplits(d)
             N == Unchecked(note, d)
  <1>1. /\ pc = "list" /\ pc' = "credits"
        /\ UNCHANGED <<books, copy, current, plan, crashes, torn>>
        /\ EnoughStock(S, P, L, N)
    BY DEF ListTransactions
  <1>2. PICK buys \in OnePerKey(P \cup L, CodeOf), notes \in OnePerKey(N, NoteNumber), last \in S :
             \E parts \in SUBSET (buys \cap L) :
             \E amounts \in [parts -> UNION {1..splits[p].loose : p \in parts}] :
                /\ \A s \in S : sell[s].date <= sell[last].date
                /\ queue' = [buys |-> buys, splits |-> parts, sales |-> S,
                             notes |-> notes, lastDate |-> sell[last].date]
                /\ local' = CopyPurchases(parts, amounts)
    BY DEF ListTransactions
  <1>3. PICK parts \in SUBSET (buys \cap L) :
             \E amounts \in [parts -> UNION {1..splits[p].loose : p \in parts}] :
                /\ \A s \in S : sell[s].date <= sell[last].date
                /\ queue' = [buys |-> buys, splits |-> parts, sales |-> S,
                             notes |-> notes, lastDate |-> sell[last].date]
                /\ local' = CopyPurchases(parts, amounts)
    BY <1>2
  <1>4. ASSUME NoLooseSplits
        PROVE  L = {} /\ parts = {} /\ P \cup L = P /\ local' = buy
    <2>1. L = {}
      BY <1>4, Types DEF WithLooseSplits, NoLooseSplits, Totals
    <2> HIDE DEF L
    <2>2. parts = {}
      BY <2>1
    <2>3. PICK amounts : local' = CopyPurchases(parts, amounts)
      BY <1>3
    <2>4. local' = buy
      BY <2>2, <2>3, Types DEF CopyPurchases
    <2>5. QED
      BY <2>1, <2>2, <2>4
  <1> HIDE DEF S, P, L, N
  <1>5. /\ queue'.notes \in OnePerKey(N, NoteNumber) /\ queue'.sales = S
        /\ queue'.lastDate = sell[last].date /\ last \in S
        /\ \A s \in S : sell[s].date <= queue'.lastDate
        /\ queue'.buys \in OnePerKey(P \cup L, CodeOf) /\ queue'.splits = parts
    BY <1>3
  <1>6. QED
    BY <1>1, <1>4, <1>5 DEF S, P, L, N
------------------------------------------------------------------------------
(* There is always enough stock: no sale is left partly costed *)

\* The quantities and amounts that are summed up are natural numbers, and the
\* sets they are summed over are finite.
LEMMA SupplyTypes ==
    ASSUME TypeInv
    PROVE  /\ \A s \in Sales : SaleQuantities[s] = sell[s].quantity /\ SaleQuantities[s] \in Nat
           /\ \A n \in CreditNotes :
                 NoteQuantities[n] = note[n].quantity /\ NoteQuantities[n] \in Nat
           /\ \A p \in Purchases :
                 CopiedAmounts[p] = local[p].amount /\ CopiedAmounts[p] \in Nat
           /\ queue.sales \subseteq Sales /\ IsFiniteSet(queue.sales)
           /\ queue.notes \subseteq CreditNotes /\ IsFiniteSet(queue.notes)
           /\ Available \subseteq Purchases /\ IsFiniteSet(Available)
           /\ SumOf(SaleQuantities, queue.sales) \in Int
           /\ SumOf(NoteQuantities, queue.notes) \in Int
           /\ SumOf(CopiedAmounts, Available) \in Int
           /\ current.sold \in Nat
  <1>1. /\ \A s \in Sales : SaleQuantities[s] = sell[s].quantity /\ SaleQuantities[s] \in Nat
        /\ \A n \in CreditNotes :
              NoteQuantities[n] = note[n].quantity /\ NoteQuantities[n] \in Nat
        /\ \A p \in Purchases :
              CopiedAmounts[p] = local[p].amount /\ CopiedAmounts[p] \in Nat
    BY Types DEF SaleQuantities, NoteQuantities, CopiedAmounts, SaleRecords, EntryRecords,
                 PurchaseRecords
  <1>2. /\ queue.sales \subseteq Sales /\ queue.notes \subseteq CreditNotes
        /\ Available \subseteq Purchases /\ current.sold \in Nat
    BY Types DEF Available
  <1>3. IsFiniteSet(queue.sales) /\ IsFiniteSet(queue.notes) /\ IsFiniteSet(Available)
    BY <1>2, FS_Subset, FiniteAssumption
  <1>4. /\ \A s \in queue.sales : SaleQuantities[s] \in Int
        /\ \A n \in queue.notes : NoteQuantities[n] \in Int
        /\ \A p \in Available : CopiedAmounts[p] \in Int
    BY <1>1, <1>2
  <1>5. /\ SumOf(SaleQuantities, queue.sales) \in Int
        /\ SumOf(NoteQuantities, queue.notes) \in Int
        /\ SumOf(CopiedAmounts, Available) \in Int
    BY <1>3, <1>4, SumType
  <1>6. QED
    BY <1>1, <1>2, <1>3, <1>5

\* The sums of the check that there is stock for all sales.
LEMMA EnoughStockSums ==
    ASSUME TypeInv, NEW S \in SUBSET Sales, NEW P \in SUBSET Purchases,
           NEW N \in SUBSET CreditNotes, EnoughStock(S, P, {}, N)
    PROVE  SumOf(SaleQuantities, S) + SumOf(NoteQuantities, N)
             <= SumOf([p \in Purchases |-> buy[p].amount], P)
  <1> DEFINE bought == [p \in Purchases |-> buy[p].amount]
  <1>1. IsFiniteSet(S) /\ IsFiniteSet(P) /\ IsFiniteSet(N)
    BY FS_Subset, FiniteAssumption
  <1>2. MapThenSumSet(LAMBDA s : sell[s].quantity, S) = SumOf(SaleQuantities, S)
    <2>1. MapThenSumSet(LAMBDA s : sell[s].quantity, S) = Iter([s \in S |-> sell[s].quantity], S)[S]
      BY Zenon DEF MapThenSumSet, MapThenFoldSet, Iter, IsIter, First
    <2>2. \A s \in S : /\ SaleQuantities[s] \in Int
                       /\ [t \in S |-> sell[t].quantity][s] = SaleQuantities[s]
      BY SupplyTypes
    <2>3. QED
      BY <1>1, <2>1, <2>2, SumIsIter, SumEqual
  <1>3. MapThenSumSet(LAMBDA n : note[n].quantity, N) = SumOf(NoteQuantities, N)
    <2>1. MapThenSumSet(LAMBDA n : note[n].quantity, N) = Iter([n \in N |-> note[n].quantity], N)[N]
      BY Zenon DEF MapThenSumSet, MapThenFoldSet, Iter, IsIter, First
    <2>2. \A n \in N : /\ NoteQuantities[n] \in Int
                       /\ [m \in N |-> note[m].quantity][n] = NoteQuantities[n]
      BY SupplyTypes
    <2>3. QED
      BY <1>1, <2>1, <2>2, SumIsIter, SumEqual
  <1>4. MapThenSumSet(LAMBDA p : buy[p].amount, P) = SumOf(bought, P)
    <2>1. MapThenSumSet(LAMBDA p : buy[p].amount, P) = Iter([p \in P |-> buy[p].amount], P)[P]
      BY Zenon DEF MapThenSumSet, MapThenFoldSet, Iter, IsIter, First
    <2>2. \A p \in P : /\ bought[p] \in Int
                       /\ [r \in P |-> buy[r].amount][p] = bought[p]
      BY Types DEF PurchaseRecords
    <2> HIDE DEF bought
    <2>3. QED
      BY <1>1, <2>1, <2>2, SumIsIter, SumEqual
  <1>5. MapThenSumSet(LAMBDA p : splits[p].loose, {}) = 0
    <2> DEFINE L == {}
    <2> HIDE DEF L
    <2>1. MapThenSumSet(LAMBDA p : splits[p].loose, L) = Iter([p \in L |-> splits[p].loose], L)[L]
      BY Zenon DEF MapThenSumSet, MapThenFoldSet, Iter, IsIter, First
    <2>2. SumOf([p \in L |-> splits[p].loose], L) = 0
      BY SumEmpty DEF L
    <2>3. MapThenSumSet(LAMBDA p : splits[p].loose, L) = 0
      BY <2>1, <2>2, SumIsIter
    <2>4. QED
      BY <2>3 DEF L
  <1>6. SumOf(bought, P) \in Int
    <2>1. \A p \in P : bought[p] \in Int
      BY Types DEF PurchaseRecords
    <2> HIDE DEF bought
    <2>2. QED
      BY <1>1, <2>1, SumType
  <1> HIDE DEF bought
  <1>7. QED
    BY <1>2, <1>3, <1>4, <1>5, <1>6 DEF EnoughStock, bought

\* With a code for each purchase, a listing keeps every purchase it finds.
LEMMA OwnCodesKept ==
    ASSUME OwnPurchaseCodes, NEW P \in SUBSET Purchases, NEW U \in OnePerKey(P, CodeOf)
    PROVE  U = P
  <1>1. U \subseteq P /\ \A t \in P : \E u \in U : {v \in U : CodeOf[v] = CodeOf[t]} = {u}
    BY DEF OnePerKey
  <1>2. ASSUME NEW t \in P PROVE t \in U
    <2>1. PICK u \in U : {v \in U : CodeOf[v] = CodeOf[t]} = {u}
      BY <1>1
    <2>2. u \in Purchases /\ CodeOf[u] = CodeOf[t]
      BY <1>1, <2>1
    <2>3. QED
      BY <2>2 DEF OwnPurchaseCodes
  <1>3. QED
    BY <1>1, <1>2

\* The steps after which a run is costing sales.
LEMMA ProcessSteps ==
    ASSUME [Next]_vars, InProcess'
    PROVE  \/ UNCHANGED vars
           \/ Handlers
           \/ \E d \in Dates : ListTransactions(d) /\ ~Finish
           \/ \E n \in CreditNotes : ProcessCreditNote(n) /\ ~Finish
           \/ CreditNotesDone
           \/ \E s \in Sales : NextSale(s)
           \/ \E p \in Purchases : LiquidatePurchase(p)
           \/ \E p \in Purchases : SplitPurchase(p)
           \/ FinishSale /\ ~Finish
  <1>1. pc' \in {"credits", "sales", "purchases"}
    BY DEF InProcess
  <1>2. ~Finish /\ ~Crash /\ ~storeLastCalcTxDate /\ ~ClearAccount
        /\ \A p \in Purchases : ~RejectSplit(p)
    BY <1>1 DEF Finish, Crash, storeLastCalcTxDate, ClearAccount, RejectSplit
  <1>3. ~StartCalculation /\ ~StartReset /\ ~SalesDone /\ ~CreateInventoryTransactions
        /\ ~UpdateInventoryTransactions /\ ~CreateFinancialTransactions
    BY <1>1 DEF StartCalculation, StartReset, SalesDone, CreateInventoryTransactions,
                UpdateInventoryTransactions, CreateFinancialTransactions, fireBatchOperations
  <1>4. ~Reset
    BY <1>1, <1>2 DEF Reset, ReadAccountToReset, ListTransactionsToReset,
          TrashFinancialTransactions, RestoreInventoryTransactions,
          TrashInventoryTransactions, fireResetOperations
  <1>5. QED
    BY <1>2, <1>3, <1>4 DEF Next, Calculation

\* The steps after which a run has costed all sales and fires its batches.
LEMMA CreateInventorySteps ==
    ASSUME [Next]_vars, pc' = "createInventory"
    PROVE  UNCHANGED vars \/ Handlers \/ SalesDone
  <1>1. ~Finish /\ ~Crash /\ ~storeLastCalcTxDate /\ ~ClearAccount
    BY DEF Finish, Crash, storeLastCalcTxDate, ClearAccount
  <1>2. ~StartCalculation /\ ~StartReset /\ ~CreateInventoryTransactions
        /\ ~UpdateInventoryTransactions /\ ~CreateFinancialTransactions
    BY DEF StartCalculation, StartReset, CreateInventoryTransactions,
                 UpdateInventoryTransactions, CreateFinancialTransactions,
                 fireBatchOperations
  <1>3. ~Reset
    BY <1>1 DEF Reset, ReadAccountToReset, ListTransactionsToReset,
          TrashFinancialTransactions, RestoreInventoryTransactions,
          TrashInventoryTransactions, fireResetOperations
  <1>4. /\ \A d \in Dates : ~ListTransactions(d)
        /\ \A n \in CreditNotes : ~ProcessCreditNote(n)
        /\ ~CreditNotesDone /\ ~FinishSale
        /\ \A s \in Sales : ~NextSale(s)
        /\ \A r \in Purchases : ~LiquidatePurchase(r) /\ ~SplitPurchase(r) /\ ~RejectSplit(r)
    BY <1>1 DEF ListTransactions, ProcessCreditNote, CreditNotesDone, FinishSale,
          NextSale, LiquidatePurchase, SplitPurchase, RejectSplit
  <1>5. QED
    BY <1>1, <1>2, <1>3, <1>4 DEF Next, Calculation

\* None of these steps touches the splits in the book.
LEMMA LooseKept ==
    ASSUME TypeInv, [Next]_vars, Calculating'
    PROVE  splits' = splits /\ NoLooseSplits' = NoLooseSplits
  <1>1. ASSUME \/ UNCHANGED vars
               \/ Handlers
               \/ \E d \in Dates : ListTransactions(d)
               \/ \E n \in CreditNotes : ProcessCreditNote(n)
               \/ CreditNotesDone \/ SalesDone \/ FinishSale
               \/ \E s \in Sales : NextSale(s)
               \/ \E p \in Purchases : LiquidatePurchase(p) \/ SplitPurchase(p)
        PROVE  splits' = splits
    <2>1. CASE Handlers
      BY <2>1, HandlerEffect
    <2>2. CASE ~Handlers
      BY <1>1, <2>2 DEF vars, ListTransactions, ProcessCreditNote, CreditNotesDone, SalesDone,
            FinishSale, NextSale, LiquidatePurchase, SplitPurchase, books
    <2>3. QED
      BY <2>1, <2>2
  <1>2. splits' = splits
    <2>1. CASE InProcess'
      BY <1>1, <2>1, ProcessSteps
    <2>2. CASE ~InProcess'
      BY <1>1, <2>2, CreateInventorySteps DEF Calculating, InProcess
    <2>3. QED
      BY <2>1, <2>2
  <1>3. QED
    BY <1>2 DEF NoLooseSplits

\* No step lets the demand outgrow the supply.
LEMMA EnoughStep ==
    ASSUME OwnPurchaseCodes, TypeInv, TypeInv', MemoryInv, EnoughInv, PlaceInv, [Next]_vars
    PROVE  EnoughInv'
  <1> DEFINE D == SumOf(SaleQuantities, queue.sales)
             C == SumOf(NoteQuantities, queue.notes)
             A == SumOf(CopiedAmounts, Available)
  <1> SUFFICES ASSUME InProcess', NoLooseSplits'
               PROVE  SumOf(SaleQuantities', queue'.sales) + SumOf(NoteQuantities', queue'.notes)
                        + current'.sold <= SumOf(CopiedAmounts', Available')
    BY DEF EnoughInv
  <1>t. /\ D \in Int /\ C \in Int /\ A \in Int /\ current.sold \in Nat
    BY SupplyTypes
  <1>l. NoLooseSplits
    BY LooseKept DEF Calculating, InProcess
  <1>i. InProcess => D + C + current.sold <= A
    BY <1>l DEF EnoughInv
  <1>f. IsFiniteSet(queue.sales) /\ IsFiniteSet(queue.notes) /\ IsFiniteSet(Available)
    BY SupplyTypes
  <1>q. /\ \A s \in Sales : SaleQuantities[s] = sell[s].quantity /\ SaleQuantities[s] \in Int
        /\ \A n \in CreditNotes : NoteQuantities[n] = note[n].quantity /\ NoteQuantities[n] \in Int
        /\ \A p \in Purchases : CopiedAmounts[p] = local[p].amount /\ CopiedAmounts[p] \in Int
        /\ queue.sales \subseteq Sales /\ queue.notes \subseteq CreditNotes
        /\ Available \subseteq Purchases
    BY SupplyTypes
  <1>p. /\ \A s \in Sales : SaleQuantities'[s] = sell'[s].quantity
        /\ \A n \in CreditNotes : NoteQuantities'[n] = note'[n].quantity
        /\ \A p \in Purchases : CopiedAmounts'[p] = local'[p].amount
    BY DEF SaleQuantities, NoteQuantities, CopiedAmounts
  <1> HIDE DEF D, C, A
  <1>1. CASE UNCHANGED vars
    <2>1. /\ SaleQuantities' = SaleQuantities /\ NoteQuantities' = NoteQuantities
          /\ CopiedAmounts' = CopiedAmounts /\ Available' = Available
          /\ queue' = queue /\ current' = current /\ InProcess
      BY <1>1 DEF vars, books, run, SaleQuantities, NoteQuantities, CopiedAmounts, Available,
                  InProcess
    <2>2. QED
      BY <1>i, <2>1 DEF D, C, A
  <1>2. CASE Handlers
    <2>1. UNCHANGED <<pc, local, queue, current>>
      BY <1>2, HandlerEffect
    <2>2. InProcess /\ Available' = Available /\ CopiedAmounts' = CopiedAmounts
      BY <2>1 DEF InProcess, Available, CopiedAmounts
    <2>3. SumOf(SaleQuantities', queue.sales) = D
      <3>1. ASSUME NEW s \in queue.sales
            PROVE  SaleQuantities[s] \in Int /\ SaleQuantities'[s] = SaleQuantities[s]
        <4>1. s \in Sales /\ sell[s].posted
          BY <1>q DEF MemoryInv
        <4>2. sell'[s] = sell[s]
          BY <1>2, <4>1, HandlerEffect
        <4>3. QED
          BY <1>p, <1>q, <4>1, <4>2
      <3>2. QED
        BY <1>f, <3>1, SumEqual DEF D
    <2>4. SumOf(NoteQuantities', queue.notes) = C
      <3>1. ASSUME NEW n \in queue.notes
            PROVE  NoteQuantities[n] \in Int /\ NoteQuantities'[n] = NoteQuantities[n]
        <4>1. n \in CreditNotes /\ note[n].posted
          BY <1>q DEF MemoryInv
        <4>2. note'[n] = note[n]
          BY <1>2, <4>1, HandlerEffect
        <4>3. QED
          BY <1>p, <1>q, <4>1, <4>2
      <3>2. QED
        BY <1>f, <3>1, SumEqual DEF C
    <2>5. QED
      BY <1>i, <2>1, <2>2, <2>3, <2>4 DEF A
  <1>3. ASSUME NEW d \in Dates, ListTransactions(d), ~Finish
        PROVE  SumOf(SaleQuantities', queue'.sales) + SumOf(NoteQuantities', queue'.notes)
                 + current'.sold <= SumOf(CopiedAmounts', Available')
    <2> DEFINE S == Unchecked(sell, d)
               P == Unchecked(buy, d)
               N == Unchecked(note, d)
               bought == [p \in Purchases |-> buy[p].amount]
    <2>1. /\ S \in SUBSET Sales /\ P \in SUBSET Purchases /\ N \in SUBSET CreditNotes
          /\ \A p \in P : ~buy[p].checked
      BY Types DEF Unchecked
    <2>e. EnoughStock(S, P, {}, N)
      <3>1. WithLooseSplits(d) = {}
        BY <1>l, Types DEF WithLooseSplits, NoLooseSplits, Totals
      <3>2. EnoughStock(S, P, WithLooseSplits(d), N)
        BY <1>3, ListEffect
      <3>3. QED
        BY <3>1, <3>2
    <2> HIDE DEF S, P, N
    <2>2. SumOf(SaleQuantities, S) + SumOf(NoteQuantities, N) <= SumOf(bought, P)
      BY <2>1, <2>e, EnoughStockSums
    <2>3. /\ queue'.sales = S /\ queue'.buys = P /\ queue'.notes \subseteq N
          /\ local' = buy /\ UNCHANGED <<books, current>> /\ current = NoCurrentSale
      <3>1. queue'.buys = P
        BY <1>3, <1>l, <2>1, ListEffect, OwnCodesKept DEF P
      <3>2. queue'.notes \subseteq N
        BY <1>3, <2>1, ListEffect DEF N, OnePerKey
      <3>3. QED
        BY <1>3, <1>l, <3>1, <3>2, ListEffect DEF S, PlaceInv
    <2>4. Available' = P
      BY <2>1, <2>3 DEF Available
    <2>5. CopiedAmounts' = bought /\ SaleQuantities' = SaleQuantities /\ NoteQuantities' = NoteQuantities
      BY <2>3 DEF CopiedAmounts, SaleQuantities, NoteQuantities, books
    <2>6. SumOf(NoteQuantities, queue'.notes) <= SumOf(NoteQuantities, N)
      BY <2>1, <2>3, SumSubset, SupplyTypes, FS_Subset, FiniteAssumption
    <2>7. /\ SumOf(SaleQuantities, S) \in Int /\ SumOf(NoteQuantities, N) \in Int
          /\ SumOf(NoteQuantities, queue'.notes) \in Int /\ SumOf(bought, P) \in Int
      <3>1. IsFiniteSet(S) /\ IsFiniteSet(N) /\ IsFiniteSet(P) /\ IsFiniteSet(queue'.notes)
        BY <2>1, <2>3, FS_Subset, FiniteAssumption
      <3>2. \A p \in P : bought[p] \in Int
        BY <2>1, Types DEF PurchaseRecords
      <3> HIDE DEF bought
      <3>3. QED
        BY <1>q, <2>1, <2>3, <3>1, <3>2, SumType
    <2> HIDE DEF bought
    <2>8. current'.sold = 0
      BY <2>3 DEF NoCurrentSale
    <2>9. QED
      BY <2>2, <2>3, <2>4, <2>5, <2>6, <2>7, <2>8
  <1>4. ASSUME NEW n \in CreditNotes, ProcessCreditNote(n), ~Finish
        PROVE  SumOf(SaleQuantities', queue'.sales) + SumOf(NoteQuantities', queue'.notes)
                 + current'.sold <= SumOf(CopiedAmounts', Available')
    <2>1. /\ InProcess /\ n \in queue.notes /\ UNCHANGED <<books, current>>
          /\ queue'.sales = queue.sales /\ queue'.notes = queue.notes \ {n}
          /\ queue'.buys = queue.buys
      BY <1>4, CreditNoteEffect DEF InProcess
    <2>2. SaleQuantities' = SaleQuantities /\ NoteQuantities' = NoteQuantities
      BY <2>1 DEF SaleQuantities, NoteQuantities, books
    <2>3. C = note[n].quantity + SumOf(NoteQuantities, queue.notes \ {n})
      BY <1>f, <1>q, <2>1, SumRemove DEF C
    <2>4. SumOf(NoteQuantities, queue.notes \ {n}) \in Int /\ note[n].quantity \in Nat
      <3>1. IsFiniteSet(queue.notes \ {n})
        BY <1>f, FS_Subset
      <3>2. QED
        BY <1>q, <3>1, SumType, SupplyTypes
    <2>5. SumOf(CopiedAmounts', Available') >= A - note[n].quantity
      <3>1. CASE UNCHANGED local
        <4>1. CopiedAmounts' = CopiedAmounts /\ Available' = Available
          BY <2>1, <3>1 DEF CopiedAmounts, Available
        <4>2. QED
          BY <1>t, <2>4, <4>1 DEF A
      <3>2. ASSUME NEW p \in queue.buys,
                   local'[p].amount = local[p].amount - note[n].quantity,
                   local'[p].checked = local[p].checked,
                   \A r \in Purchases : r # p => local'[r] = local[r]
            PROVE  SumOf(CopiedAmounts', Available') >= A - note[n].quantity
        <4>1. queue.buys \subseteq Purchases /\ p \in Purchases
          BY Types
        <4>2. Available' = Available
          BY <2>1, <3>2, <4>1 DEF Available
        <4>3. CASE p \in Available
          <5>1. \A r \in Available : /\ CopiedAmounts[r] \in Int
                                     /\ CopiedAmounts'[r] = IF r = p
                                           THEN CopiedAmounts[r] + (-note[n].quantity)
                                           ELSE CopiedAmounts[r]
            BY <1>p, <1>q, <2>4, <3>2, <4>1
          <5>2. -note[n].quantity \in Int
            BY <2>4
          <5>3. SumOf(CopiedAmounts', Available) = A + (-note[n].quantity)
            BY <1>f, <4>3, <5>1, <5>2, SumChange DEF A
          <5>4. QED
            BY <1>t, <2>4, <4>2, <5>3
        <4>4. CASE p \notin Available
          <5>1. \A r \in Available : CopiedAmounts[r] \in Int /\ CopiedAmounts'[r] = CopiedAmounts[r]
            BY <1>p, <1>q, <3>2, <4>4
          <5>2. SumOf(CopiedAmounts', Available) = A
            BY <1>f, <5>1, SumEqual DEF A
          <5>3. QED
            BY <1>t, <2>4, <4>2, <5>2
        <4>5. QED
          BY <4>3, <4>4
      <3>3. QED
        BY <1>4, <3>1, <3>2, CreditNoteEffect
    <2>6. SumOf(CopiedAmounts', Available') \in Int
      <3>1. Available' \subseteq Purchases /\ \A p \in Purchases : CopiedAmounts'[p] \in Int
        <4>1. local' \in [Purchases -> PurchaseRecords] /\ queue'.buys \subseteq Purchases
          BY DEF TypeInv, TypeOK, Queues
        <4>2. QED
          BY <1>p, <4>1 DEF Available, PurchaseRecords
      <3>2. QED
        BY <3>1, SumType, FS_Subset, FiniteAssumption
    <2>7. QED
      BY <1>t, <1>i, <2>1, <2>2, <2>3, <2>4, <2>5, <2>6 DEF D
  <1>5. CASE CreditNotesDone
    <2>1. /\ SaleQuantities' = SaleQuantities /\ NoteQuantities' = NoteQuantities
          /\ CopiedAmounts' = CopiedAmounts /\ Available' = Available
          /\ queue' = queue /\ current' = current /\ InProcess
      BY <1>5 DEF CreditNotesDone, books, run, SaleQuantities, NoteQuantities, CopiedAmounts,
                  Available, InProcess
    <2>2. QED
      BY <1>i, <2>1 DEF D, C, A
  <1>6. ASSUME NEW s \in Sales, NextSale(s)
        PROVE  SumOf(SaleQuantities', queue'.sales) + SumOf(NoteQuantities', queue'.notes)
                 + current'.sold <= SumOf(CopiedAmounts', Available')
    <2>1. /\ SaleQuantities' = SaleQuantities /\ NoteQuantities' = NoteQuantities
          /\ CopiedAmounts' = CopiedAmounts /\ InProcess /\ s \in queue.sales
          /\ current = NoCurrentSale /\ current'.sold = sell[s].quantity
      BY <1>6 DEF NextSale, OldestSales, books, run, SaleQuantities, NoteQuantities,
                  CopiedAmounts, InProcess, PlaceInv
    <2>2. queue'.sales = queue.sales \ {s} /\ queue'.notes = queue.notes /\ Available' = Available
      BY <1>6 DEF NextSale, Available, TypeInv, TypeOK, Queues
    <2>3. D = sell[s].quantity + SumOf(SaleQuantities, queue.sales \ {s})
      BY <1>f, <1>q, <2>1, SumRemove DEF D
    <2>4. SumOf(SaleQuantities, queue.sales \ {s}) \in Int /\ sell[s].quantity \in Nat
      <3>1. IsFiniteSet(queue.sales \ {s})
        BY <1>f, FS_Subset
      <3>2. QED
        BY <1>q, <3>1, SumType, SupplyTypes
    <2>5. QED
      BY <1>t, <1>i, <2>1, <2>2, <2>3, <2>4 DEF C, A, NoCurrentSale
  <1>7. ASSUME NEW p \in Purchases, LiquidatePurchase(p)
        PROVE  SumOf(SaleQuantities', queue'.sales) + SumOf(NoteQuantities', queue'.notes)
                 + current'.sold <= SumOf(CopiedAmounts', Available')
    <2>1. /\ InProcess /\ UNCHANGED <<books, queue>> /\ p \in Available
          /\ current'.sold = current.sold - local[p].amount
          /\ local'[p].checked /\ \A r \in Purchases : r # p => local'[r] = local[r]
      BY <1>7, LiquidateEffect DEF InProcess
    <2>2. SaleQuantities' = SaleQuantities /\ NoteQuantities' = NoteQuantities
      BY <2>1 DEF SaleQuantities, NoteQuantities, books
    <2>3. Available' = Available \ {p}
      BY <2>1, Types DEF Available
    <2>4. A = local[p].amount + SumOf(CopiedAmounts, Available \ {p})
      BY <1>f, <1>q, <2>1, SumRemove DEF A
    <2>5. /\ SumOf(CopiedAmounts', Available \ {p}) = SumOf(CopiedAmounts, Available \ {p})
          /\ SumOf(CopiedAmounts, Available \ {p}) \in Int
      <3>1. IsFiniteSet(Available \ {p})
        BY <1>f, FS_Subset
      <3>2. \A r \in Available \ {p} :
               CopiedAmounts[r] \in Int /\ CopiedAmounts'[r] = CopiedAmounts[r]
        BY <1>p, <1>q, <2>1
      <3>3. QED
        BY <3>1, <3>2, SumEqual, SumType
    <2>6. local[p].amount \in Int
      BY <1>q
    <2>7. QED
      BY <1>t, <1>i, <2>1, <2>2, <2>3, <2>4, <2>5, <2>6 DEF D, C
  <1>8. ASSUME NEW p \in Purchases, SplitPurchase(p)
        PROVE  SumOf(SaleQuantities', queue'.sales) + SumOf(NoteQuantities', queue'.notes)
                 + current'.sold <= SumOf(CopiedAmounts', Available')
    <2>1. /\ InProcess /\ UNCHANGED <<books, queue>> /\ p \in Available /\ current'.sold = 0
          /\ local'[p].amount = local[p].amount - current.sold
          /\ local'[p].checked = local[p].checked
          /\ \A r \in Purchases : r # p => local'[r] = local[r]
      BY <1>8, SplitEffect DEF InProcess
    <2>2. SaleQuantities' = SaleQuantities /\ NoteQuantities' = NoteQuantities
      BY <2>1 DEF SaleQuantities, NoteQuantities, books
    <2>3. Available' = Available
      BY <2>1, Types DEF Available
    <2>4. \A r \in Available : /\ CopiedAmounts[r] \in Int
                               /\ CopiedAmounts'[r] = IF r = p
                                     THEN CopiedAmounts[r] + (-current.sold)
                                     ELSE CopiedAmounts[r]
      BY <1>t, <1>p, <1>q, <2>1
    <2>5. -current.sold \in Int
      BY <1>t
    <2>6. SumOf(CopiedAmounts', Available) = A + (-current.sold)
      BY <1>f, <2>1, <2>4, <2>5, SumChange DEF A
    <2>7. QED
      BY <1>t, <1>i, <2>1, <2>2, <2>3, <2>6 DEF D, C
  <1>9. ASSUME FinishSale, ~Finish
        PROVE  SumOf(SaleQuantities', queue'.sales) + SumOf(NoteQuantities', queue'.notes)
                 + current'.sold <= SumOf(CopiedAmounts', Available')
    <2>1. InProcess /\ UNCHANGED <<books, local, queue>> /\ current' = NoCurrentSale
      BY <1>9, FinishSaleEffect DEF InProcess
    <2>2. /\ SaleQuantities' = SaleQuantities /\ NoteQuantities' = NoteQuantities
          /\ CopiedAmounts' = CopiedAmounts /\ Available' = Available
      BY <2>1 DEF SaleQuantities, NoteQuantities, CopiedAmounts, Available, books
    <2>3. current'.sold = 0
      BY <2>1 DEF NoCurrentSale
    <2>4. QED
      BY <1>t, <1>i, <2>1, <2>2, <2>3 DEF D, C, A
  <1>10. QED
    BY <1>1, <1>2, <1>3, <1>4, <1>5, <1>6, <1>7, <1>8, <1>9, ProcessSteps

\* A run with enough stock costs each sale to its last unit.
LEMMA CostedToTheEnd ==
    ASSUME TypeInv, EnoughInv
    PROVE  EverySaleCosted
  <1> SUFFICES ASSUME pc = "purchases", Available = {}, NoLooseSplits
               PROVE  current.sold = 0
    BY DEF EverySaleCosted, SaleProcessed
  <1>1. SumOf(CopiedAmounts, Available) = 0
    BY SumEmpty
  <1>2. 0 <= SumOf(SaleQuantities, queue.sales) /\ 0 <= SumOf(NoteQuantities, queue.notes)
    BY SupplyTypes, SumSubset
  <1>3. QED
    BY <1>1, <1>2, SupplyTypes DEF EnoughInv, InProcess
------------------------------------------------------------------------------
(* Where the sales are, and what the Financial Book says of them *)

\* The purchases that a run holds are not used up in the book.
LEMMA OpenStep ==
    ASSUME TypeInv, MemoryInv, OpenInv, [Next]_vars
    PROVE  OpenInv'
  <1> SUFFICES ASSUME Calculating', NoLooseSplits', NEW p \in queue'.buys
               PROVE  ~buy'[p].checked
    BY DEF OpenInv
  <1>l. NoLooseSplits
    BY LooseKept
  <1>1. CASE UNCHANGED vars
    BY <1>1, <1>l DEF OpenInv, Calculating, vars, books, run
  <1>2. CASE Handlers
    <2>1. Calculating /\ p \in queue.buys /\ p \in Purchases /\ buy[p].posted
      BY <1>2, HandlerEffect, Types DEF Calculating, MemoryInv
    <2>2. buy'[p] = buy[p]
      BY <1>2, <2>1, HandlerEffect
    <2>3. QED
      BY <1>l, <2>1, <2>2 DEF OpenInv
  <1>3. ASSUME NEW d \in Dates, ListTransactions(d), ~Finish
        PROVE  ~buy'[p].checked
    <2>1. p \in Unchecked(buy, d) /\ buy' = buy
      BY <1>3, <1>l, ListEffect DEF OnePerKey, books
    <2>2. QED
      BY <2>1 DEF Unchecked
  <1>4. ASSUME NEW n \in CreditNotes, ProcessCreditNote(n), ~Finish
        PROVE  ~buy'[p].checked
    BY <1>4, <1>l, CreditNoteEffect DEF OpenInv, Calculating, books
  <1>5. ASSUME NEW r \in Purchases, LiquidatePurchase(r)
        PROVE  ~buy'[p].checked
    BY <1>5, <1>l, LiquidateEffect DEF OpenInv, Calculating, books
  <1>6. ASSUME NEW r \in Purchases, SplitPurchase(r)
        PROVE  ~buy'[p].checked
    BY <1>6, <1>l, SplitEffect DEF OpenInv, Calculating, books
  <1>7. ASSUME NEW s \in Sales, NextSale(s)
        PROVE  ~buy'[p].checked
    BY <1>7, <1>l, Types DEF NextSale, OpenInv, Calculating, books, TypeInv, TypeOK, Queues
  <1>8. CASE CreditNotesDone \/ SalesDone
    BY <1>8, <1>l DEF CreditNotesDone, SalesDone, OpenInv, Calculating, books, run
  <1>9. CASE FinishSale /\ ~Finish
    BY <1>9, <1>l, FinishSaleEffect DEF OpenInv, Calculating, books
  <1>10. CASE InProcess'
    BY <1>10, <1>1, <1>2, <1>3, <1>4, <1>5, <1>6, <1>7, <1>8, <1>9, ProcessSteps
  <1>11. CASE pc' = "createInventory"
    <2>1. UNCHANGED vars \/ Handlers \/ SalesDone
      BY <1>11, CreateInventorySteps
    <2>2. QED
      BY <1>1, <1>2, <1>8, <2>1
  <1>12. QED
    BY <1>10, <1>11 DEF Calculating, InProcess

\* Each sale stays in one place: to be costed, at hand, or costed.
LEMMA PlaceStep ==
    ASSUME TypeInv, MemoryInv, EverySaleCosted, PlaceInv, [Next]_vars
    PROVE  PlaceInv'
  <1>a. plan.sells \subseteq Sales /\ plan.cogs \subseteq Sales /\ queue.sales \subseteq Sales
    BY Types
  <1>b. current.sale \in Sales \cup {NoSale} /\ NoSale \notin Sales
    BY Types, NameAssumption
  <1>1. CASE UNCHANGED vars
    BY <1>1 DEF PlaceInv, vars, books, run, InProcess, NoLooseSplits
  <1>2. CASE Handlers
    <2>1. UNCHANGED <<pc, queue, current, plan, splits>>
      BY <1>2, HandlerEffect
    <2>2. \A s \in Sales : ~sell[s].checked => ~sell'[s].checked
      BY <1>2, HandlerEffect
    <2>3. QED
      BY <2>1, <2>2 DEF PlaceInv, InProcess, NoLooseSplits
  <1>3. CASE Finish
    <2>1. pc' = "idle" /\ current' = NoCurrentSale
      BY <1>3 DEF Finish
    <2>2. QED
      BY <2>1 DEF PlaceInv, InProcess
  <1>4. ASSUME NEW d \in Dates, ListTransactions(d), ~Finish
        PROVE  PlaceInv'
    <2>1. /\ pc = "list" /\ pc' = "credits" /\ UNCHANGED <<books, current, plan>>
          /\ queue'.sales = Unchecked(sell, d)
      BY <1>4, ListEffect
    <2>2. plan = EmptyPlan /\ current = NoCurrentSale
      BY <2>1 DEF MemoryInv, PlaceInv
    <2>3. /\ plan'.cogs = {} /\ plan'.sells = {} /\ \A s \in Sales : plan'.cost[s] = 0
          /\ current'.sale = NoSale /\ sell' = sell /\ current' = NoCurrentSale
      BY <2>1, <2>2 DEF EmptyPlan, NoCurrentSale, books
    <2>4. \A s \in queue'.sales : s \in Sales /\ ~sell[s].checked
      BY <2>1, Types DEF Unchecked
    <2>5. QED
      BY <1>b, <2>1, <2>3, <2>4 DEF PlaceInv
  <1>5. ASSUME NEW n \in CreditNotes, ProcessCreditNote(n), ~Finish
        PROVE  PlaceInv'
    <2>1. /\ pc = "credits" /\ pc' = "credits" /\ UNCHANGED <<sell, splits, current>>
          /\ queue'.sales = queue.sales /\ plan'.sells = plan.sells
          /\ plan'.cogs = plan.cogs /\ plan'.cost = plan.cost
      BY <1>5, CreditNoteEffect DEF books
    <2>2. QED
      BY <2>1 DEF PlaceInv, InProcess, NoLooseSplits
  <1>6. CASE CreditNotesDone \/ SalesDone
    <2>1. /\ pc \in {"credits", "sales"} /\ pc' \in {"sales", "createInventory"}
          /\ UNCHANGED <<sell, splits, queue, current, plan>>
      BY <1>6 DEF CreditNotesDone, SalesDone, fireBatchOperations, books, run
    <2>2. QED
      BY <2>1 DEF PlaceInv, InProcess, NoLooseSplits
  <1>7. ASSUME NEW s \in Sales, NextSale(s)
        PROVE  PlaceInv'
    <2>1. /\ pc = "sales" /\ pc' = "purchases" /\ s \in queue.sales
          /\ UNCHANGED <<sell, splits, plan>> /\ current'.sale = s
      BY <1>7 DEF NextSale, OldestSales, books
    <2>2. queue'.sales = queue.sales \ {s}
      BY <1>7 DEF NextSale, TypeInv, TypeOK, Queues
    <2>3. QED
      BY <2>1, <2>2 DEF PlaceInv, InProcess, NoLooseSplits
  <1>8. ASSUME NEW p \in Purchases, LiquidatePurchase(p) \/ SplitPurchase(p)
        PROVE  PlaceInv'
    <2>1. /\ pc = "purchases" /\ pc' = "purchases" /\ UNCHANGED <<sell, splits, queue>>
          /\ current'.sale = current.sale /\ plan'.sells = plan.sells
          /\ plan'.cogs = plan.cogs /\ plan'.cost = plan.cost
      BY <1>8, LiquidateEffect, SplitEffect DEF books
    <2>2. QED
      BY <2>1 DEF PlaceInv, InProcess, NoLooseSplits
  <1>9. CASE FinishSale /\ ~Finish
    <2>1. /\ pc = "purchases" /\ pc' = "sales" /\ UNCHANGED <<sell, splits, queue>>
          /\ current' = NoCurrentSale
          /\ NoLooseSplits => plan'.sells = plan.sells \cup {current.sale}
          /\ plan'.cogs = plan.cogs \cup {current.sale}
          /\ plan'.cost = [plan.cost EXCEPT ![current.sale] = current.cost]
      BY <1>9, FinishSaleEffect DEF books, EverySaleCosted
    <2>2. current'.sale = NoSale
      BY <2>1 DEF NoCurrentSale
    <2>3. \A s \in Sales : s # current.sale => plan'.cost[s] = plan.cost[s]
      BY <2>1, Types
    <2>4. current.sale \in Sales
      BY <2>1 DEF TypeInv
    <2>5. QED
      BY <1>a, <1>b, <2>1, <2>2, <2>3, <2>4 DEF PlaceInv, InProcess, NoLooseSplits
  <1>10. CASE CreateInventoryTransactions
    <2>1. /\ pc = "createInventory" /\ pc' = "updateInventory"
          /\ UNCHANGED <<sell, queue, current, plan>>
          /\ \A p \in Purchases : splits'[p].loose = splits[p].loose
      BY <1>10 DEF CreateInventoryTransactions, fireBatchOperations, books, run
    <2>2. QED
      BY <2>1 DEF PlaceInv, InProcess, NoLooseSplits
  <1>11. ASSUME pc \notin {"credits", "sales", "purchases"},
                pc' \notin {"credits", "sales", "purchases", "createInventory", "updateInventory"},
                current' = current
         PROVE  PlaceInv'
    BY <1>11 DEF PlaceInv, InProcess
  <1>12. CASE \/ StartCalculation \/ StartReset \/ UpdateInventoryTransactions
              \/ CreateFinancialTransactions
    BY <1>12, <1>11 DEF StartCalculation, StartReset, UpdateInventoryTransactions,
              CreateFinancialTransactions, fireBatchOperations, run
  <1>13. CASE Reset /\ ~Finish
    BY <1>13, <1>11 DEF Reset, ReadAccountToReset, ListTransactionsToReset,
              TrashFinancialTransactions, RestoreInventoryTransactions,
              TrashInventoryTransactions, ClearAccount, fireResetOperations, run
  <1>14. CASE Crash \/ storeLastCalcTxDate \/ \E p \in Purchases : RejectSplit(p)
    BY <1>14, <1>3 DEF Crash, storeLastCalcTxDate, RejectSplit
  <1>15. QED
    BY <1>1, <1>2, <1>3, <1>4, <1>5, <1>6, <1>7, <1>8, <1>9, <1>10, <1>12, <1>13, <1>14
       DEF Next, Calculation

\* A list of one element less that element is empty, and an empty list with one
\* element more has one.
LEMMA OneElement ==
    ASSUME NEW q \in Seq(Int), NEW x \in Int
    PROVE  /\ Len(q) = 1 => Tail(q) = <<>>
           /\ Append(<<>>, x) # <<>> /\ Len(Append(<<>>, x)) = 1
  <1>1. Len(<<>>) = 0 /\ <<>> \in Seq(Int)
    BY EmptySeq
  <1>2. ASSUME Len(q) = 1 PROVE Tail(q) = <<>>
    <2>1. q # <<>>
      <3>1. q = <<>> => Len(q) = 0
        BY <1>1, Zenon
      <3>2. QED
        BY <1>2, <3>1
    <2>2. Tail(q) \in Seq(Int) /\ Len(Tail(q)) = 0
      BY <1>2, <2>1, HeadTailProperties
    <2>3. QED
      BY <2>2, EmptySeq
  <1>3. QED
    BY <1>1, <1>2, AppendProperties

\* No batch, and no dead run, leaves a cost for a sale that is not costed.
LEMMA CogsStep ==
    ASSUME TypeInv, TypeInv', SafetyInv, LooseInv, PlaceInv, CogsInv, [Next]_vars
    PROVE  CogsInv'
  <1>l. torn => torn'
    <2>1. CASE Handlers
      BY <2>1, HandlerEffect
    <2>2. CASE Calculation
      BY <2>2 DEF Calculation, ListTransactions, ProcessCreditNote, CreditNotesDone, NextSale,
            LiquidatePurchase, SplitPurchase, RejectSplit, FinishSale, SalesDone,
            CreateInventoryTransactions, UpdateInventoryTransactions,
            CreateFinancialTransactions, storeLastCalcTxDate
    <2>3. CASE Reset \/ StartCalculation \/ StartReset
      BY <2>3 DEF Reset, ReadAccountToReset, ListTransactionsToReset,
            TrashFinancialTransactions, RestoreInventoryTransactions,
            TrashInventoryTransactions, ClearAccount, StartCalculation, StartReset
    <2>4. CASE Crash \/ UNCHANGED vars
      BY <2>4 DEF Crash, vars
    <2>5. QED
      BY <2>1, <2>2, <2>3, <2>4 DEF Next
  <1> SUFFICES ASSUME ~torn' PROVE CogsInv'
    BY DEF CogsInv, CogsOnlyForCostedSales
  <1>w. ~torn
    BY <1>l
  <1>a. CogsOnlyForCostedSales
    BY DEF CogsInv
  <1>b. \A s \in Sales : sell[s].checked => sell[s].logged /\ sell[s].posted /\ sell[s].bot
    BY DEF SafetyInv, UnpostedInv
  <1>1. CASE UNCHANGED vars
    BY <1>1, <1>w DEF CogsInv, CogsOnlyForCostedSales, vars, books, run
  <1>2. CASE Handlers
    <2>1. UNCHANGED <<pc, plan, cogs>>
      BY <1>2, HandlerEffect
    <2>2. \A s \in Sales : sell[s].checked => sell'[s].checked
      BY <1>2, <1>b, HandlerEffect
    <2>3. QED
      BY <1>w, <2>1, <2>2, Types DEF CogsInv, CogsOnlyForCostedSales
  <1>3. ASSUME UNCHANGED <<sell, cogs>>,
               pc' \notin {"createFinancial", "trashFinancial", "restoreInventory",
                           "trashInventory", "clearAccount"}
        PROVE  CogsInv'
    BY <1>3, <1>w DEF CogsInv, CogsOnlyForCostedSales
  <1>4. CASE Finish /\ UNCHANGED <<sell, cogs>>
    BY <1>3, <1>4 DEF Finish
  <1>5. CASE StartCalculation \/ StartReset \/ CreditNotesDone \/ SalesDone
             \/ CreateInventoryTransactions \/ ReadAccountToReset
    BY <1>3, <1>5 DEF StartCalculation, StartReset, CreditNotesDone, SalesDone,
          CreateInventoryTransactions, ReadAccountToReset, fireBatchOperations, books
  <1>6. CASE FinishSale \/ \E d \in Dates : ListTransactions(d)
    BY <1>3, <1>4, <1>6 DEF FinishSale, ListTransactions, books
  <1>7. CASE \E n \in CreditNotes : ProcessCreditNote(n)
    BY <1>3, <1>4, <1>7 DEF ProcessCreditNote, books
  <1>8. CASE \/ \E s \in Sales : NextSale(s)
             \/ \E p \in Purchases : LiquidatePurchase(p) \/ SplitPurchase(p) \/ RejectSplit(p)
    BY <1>3, <1>4, <1>8 DEF NextSale, LiquidatePurchase, SplitPurchase, RejectSplit, books
  <1>9. CASE Crash \/ storeLastCalcTxDate \/ ClearAccount
    BY <1>4, <1>9 DEF Crash, storeLastCalcTxDate, ClearAccount, books
  <1>10. CASE UpdateInventoryTransactions
    <2>1. /\ pc = "updateInventory" /\ pc' = "createFinancial" /\ UNCHANGED <<plan, cogs>>
          /\ sell' = LogAll(sell, plan.sells)
      BY <1>10 DEF UpdateInventoryTransactions, fireBatchOperations, run
    <2>2. /\ plan.cogs = plan.sells /\ plan.cogs \subseteq Sales
          /\ \A s \in plan.cogs : ~sell[s].checked
      BY <1>w, <2>1, Types DEF PlaceInv, LooseInv
    <2>3. /\ \A s \in Sales : sell[s].checked => sell'[s].checked
          /\ \A s \in plan.cogs : sell'[s].checked
      <3>1. sell \in [Sales -> SaleRecords]
        BY Types
      <3>2. \A s \in Sales : sell'[s] = IF s \in plan.sells
               THEN [sell[s] EXCEPT !.checked = TRUE, !.logged = TRUE] ELSE sell[s]
        BY <2>1, <3>1 DEF LogAll
      <3>3. QED
        BY <2>2, <3>1, <3>2 DEF SaleRecords
    <2>4. QED
      BY <1>a, <1>w, <2>1, <2>2, <2>3 DEF CogsInv, CogsOnlyForCostedSales
  <1>11. CASE CreateFinancialTransactions
    <2>1. /\ pc = "createFinancial" /\ pc' = "storeDate" /\ UNCHANGED <<sell, plan>>
          /\ \A s \in Sales : cogs'[s] = IF s \in plan.cogs THEN Append(cogs[s], plan.cost[s])
                                         ELSE cogs[s]
      BY <1>11 DEF CreateFinancialTransactions, fireBatchOperations, run
    <2>2. \A s \in plan.cogs : sell[s].checked /\ cogs[s] = <<>>
      BY <1>w, <2>1 DEF CogsInv
    <2>3. ASSUME NEW s \in Sales, cogs'[s] # <<>>
          PROVE  sell'[s].checked /\ Len(cogs'[s]) = 1
      <3>1. CASE s \in plan.cogs
        <4>1. plan.cost[s] \in Int /\ cogs'[s] = Append(<<>>, plan.cost[s])
          BY <2>1, <2>2, <3>1, Types
        <4>2. QED
          BY <2>1, <2>2, <3>1, <4>1, OneElement, Types
      <3>2. CASE s \notin plan.cogs
        BY <1>a, <1>w, <2>1, <2>3, <3>2 DEF CogsOnlyForCostedSales
      <3>3. QED
        BY <3>1, <3>2
    <2>4. QED
      BY <2>1, <2>3 DEF CogsInv, CogsOnlyForCostedSales
  <1>12. CASE ListTransactionsToReset /\ ~Finish
    <2>1. /\ pc' = "trashFinancial" /\ UNCHANGED <<sell, cogs>>
          /\ plan'.cogs = {s \in {t \in Posted(sell) : sell[t].logged /\ sell[t].bot} :
                            cogs[s] # <<>>}
      BY <1>12 DEF ListTransactionsToReset, fireResetOperations, books
    <2>2. \A s \in Sales : cogs[s] # <<>> => s \in plan'.cogs
      BY <1>a, <1>b, <1>w, <2>1, Types DEF CogsOnlyForCostedSales, Posted
    <2>3. QED
      BY <1>a, <1>w, <2>1, <2>2 DEF CogsInv, CogsOnlyForCostedSales
  <1>13. CASE TrashFinancialTransactions
    <2>1. /\ pc = "trashFinancial" /\ pc' = "restoreInventory" /\ UNCHANGED sell
          /\ \A s \in Sales : cogs'[s] = IF s \in plan.cogs THEN Tail(cogs[s]) ELSE cogs[s]
      BY <1>13 DEF TrashFinancialTransactions, fireResetOperations
    <2>2. \A s \in Sales : cogs[s] # <<>> => s \in plan.cogs /\ Len(cogs[s]) = 1
      BY <1>a, <1>w, <2>1 DEF CogsInv, CogsOnlyForCostedSales
    <2>3. ASSUME NEW s \in Sales PROVE cogs'[s] = <<>>
      <3>1. cogs[s] \in Seq(Int)
        BY Types
      <3>2. cogs[s] # <<>> => Tail(cogs[s]) = <<>>
        BY <2>2, <3>1, OneElement
      <3>3. s \in plan.cogs => cogs[s] # <<>>
        BY <2>1 DEF TypeInv
      <3>4. CASE s \in plan.cogs
        BY <2>1, <3>2, <3>3, <3>4
      <3>5. CASE s \notin plan.cogs
        BY <2>1, <2>2, <3>5
      <3>6. QED
        BY <3>4, <3>5
    <2>4. QED
      BY <2>1, <2>3 DEF CogsInv, CogsOnlyForCostedSales
  <1>14. CASE RestoreInventoryTransactions \/ TrashInventoryTransactions
    <2>1. \A s \in Sales : cogs[s] = <<>>
      BY <1>14, <1>w DEF RestoreInventoryTransactions, TrashInventoryTransactions, CogsInv
    <2>2. cogs' = cogs /\ pc' \in {"trashInventory", "clearAccount"}
      BY <1>14 DEF RestoreInventoryTransactions, TrashInventoryTransactions, fireResetOperations
    <2>3. QED
      BY <2>1, <2>2 DEF CogsInv, CogsOnlyForCostedSales
  <1>15. CASE ListTransactionsToReset /\ Finish
    BY <1>4, <1>15 DEF ListTransactionsToReset, books
  <1>16. QED
    BY <1>1, <1>2, <1>5, <1>6, <1>7, <1>8, <1>9, <1>10, <1>11, <1>12, <1>13, <1>14, <1>15
       DEF Next, Calculation, Reset

\* The inductive invariant, on top of TypeInv and SafetyInv.
CostedInv == OpenInv /\ EnoughInv /\ PlaceInv /\ CogsInv

\* CostedInv is an invariant.
LEMMA CostedInvariant == ASSUME OwnPurchaseCodes PROVE Spec => []CostedInv
  <1>1. Init => CostedInv
    <2> SUFFICES ASSUME Init PROVE CostedInv
      OBVIOUS
    <2>1. /\ pc = "idle" /\ current = NoCurrentSale /\ \A s \in Sales : cogs[s] = <<>>
      BY DEF Init
    <2>2. QED
      BY <2>1 DEF CostedInv, OpenInv, EnoughInv, PlaceInv, CogsInv, CogsOnlyForCostedSales,
                  Calculating, InProcess
  <1>2. TypeInv /\ TypeInv' /\ SafetyInv /\ LooseInv /\ CostedInv /\ [Next]_vars => CostedInv'
    <2> SUFFICES ASSUME TypeInv, TypeInv', SafetyInv, LooseInv, CostedInv, [Next]_vars
                 PROVE  CostedInv'
      OBVIOUS
    <2>1. OpenInv /\ EnoughInv /\ PlaceInv /\ CogsInv
      BY DEF CostedInv
    <2>2. EverySaleCosted /\ MemoryInv
      BY <2>1, CostedToTheEnd DEF SafetyInv
    <2>3. OpenInv' /\ EnoughInv' /\ PlaceInv' /\ CogsInv'
      BY <2>1, <2>2, OpenStep, EnoughStep, PlaceStep, CogsStep
    <2>4. QED
      BY <2>3 DEF CostedInv
  <1>3. QED
    BY <1>1, <1>2, TypeInvariant, SafetyInvariant, LooseInvariant, PTL DEF Spec

\* When every purchase has its own code, no sale is left partly costed: the check
\* of the quantities before the loops of calculateCostOfSalesForAccount is enough
\* for every sale, although the credit notes are taken off the purchases before
\* the sales and the event bot records transactions meanwhile. The exception are runs
\* that meet unchecked splits of credit notes, which a reset that died left behind.
THEOREM SalesCostedToTheEnd == ASSUME OwnPurchaseCodes PROVE Spec => []EverySaleCosted
  <1>1. TypeInv /\ CostedInv => EverySaleCosted
    BY CostedToTheEnd DEF CostedInv
  <1>2. QED
    BY <1>1, TypeInvariant, CostedInvariant, PTL

\* When every purchase has its own code, the Financial Book shows at most one cost
\* for a sale, and only for one that is checked, whatever runs have died, as long as
\* none of them was a reset between unchecking splits of credit notes and trashing them.
THEOREM CogsSafe == ASSUME OwnPurchaseCodes PROVE Spec => []CogsOnlyForCostedSales
  <1>1. CostedInv => CogsOnlyForCostedSales
    BY DEF CostedInv, CogsInv
  <1>2. QED
    BY <1>1, CostedInvariant, PTL

\* When every purchase has its own code, a reset that gets to its last call has
\* trashed every cost of sales, whatever runs have died before, as long as none of
\* them was a reset between unchecking splits of credit notes and trashing them.
THEOREM ResetTrashesCogs == ASSUME OwnPurchaseCodes PROVE Spec => []ResetLeavesNoCogs
  <1>1. CostedInv => ResetLeavesNoCogs
    BY DEF CostedInv, CogsInv, ResetLeavesNoCogs
  <1>2. QED
    BY <1>1, CostedInvariant, PTL
------------------------------------------------------------------------------
(* The Financial Book and the Inventory Book agree *)

\* A sale without costs of sales, and a sale with one.
LEMMA SumOfNone == SumOf(<<>>, DOMAIN <<>>) = 0
  <1>1. DOMAIN <<>> = {}
    OBVIOUS
  <1>2. QED
    BY <1>1, SumEmpty

\* The costs of a sale that has one.
LEMMA SumOfOne ==
    ASSUME NEW x \in Int
    PROVE  SumOf(Append(<<>>, x), DOMAIN Append(<<>>, x)) = x
  <1> DEFINE q == Append(<<>>, x)
  <1>1. q \in Seq(Int) /\ Len(q) = 1 /\ q[1] = x
    BY EmptySeq, AppendProperties
  <1>2. DOMAIN q = {1}
    BY <1>1, LenProperties
  <1>3. IsFiniteSet({1}) /\ {1} \ {1} = {}
    BY FS_Singleton
  <1> HIDE DEF q
  <1>4. SumOf(q, {1}) = q[1] + SumOf(q, {1} \ {1})
    BY <1>1, <1>3, SumRemove
  <1>5. SumOf(q, {1} \ {1}) = 0
    BY <1>3, SumEmpty
  <1>6. SumOf(q, {1}) = x
    BY <1>1, <1>4, <1>5
  <1>7. QED
    BY <1>2, <1>6 DEF q

\* The amounts that are added up are integers.
LEMMA CostTypes ==
    ASSUME TypeInv
    PROVE  /\ \A s \in Sales : PostedCosts[s] \in Int
           /\ \A s \in Sales : PlannedCosts[s] = plan.cost[s] /\ PlannedCosts[s] \in Int
           /\ \A p \in Purchases : OutCosts[p] = splits[p].cost + Used(buy[p])
           /\ \A p \in Purchases : OutCosts[p] \in Int
           /\ \A p \in Purchases :
                 PlannedOut[p] = plan.splits[p].cost
                                   + (IF p \in queue.buys THEN Used(local[p]) ELSE 0)
           /\ \A p \in Purchases : PlannedOut[p] \in Int
           /\ \A p \in Purchases : AfterUpdate[p] \in Int
           /\ \A p \in Purchases : Used(buy[p]) \in Int /\ Used(local[p]) \in Int
           /\ \A p \in Purchases : splits[p].cost \in Int /\ plan.splits[p].cost \in Int
           /\ SumOf(PostedCosts, Sales) \in Int /\ SumOf(PlannedCosts, Sales) \in Int
           /\ SumOf(OutCosts, Purchases) \in Int /\ SumOf(PlannedOut, Purchases) \in Int
           /\ SumOf(AfterUpdate, Purchases) \in Int
           /\ current.cost \in Int
  <1>1. ASSUME NEW s \in Sales PROVE PostedCosts[s] \in Int
    <2>1. cogs[s] \in Seq(Int)
      BY Types
    <2>2. /\ DOMAIN cogs[s] = 1..Len(cogs[s]) /\ Len(cogs[s]) \in Nat
          /\ \A i \in 1..Len(cogs[s]) : cogs[s][i] \in Int
      BY <2>1, LenProperties, ElementOfSeq
    <2>3. IsFiniteSet(DOMAIN cogs[s])
      BY <2>2, FS_Interval
    <2>4. SumOf(cogs[s], DOMAIN cogs[s]) \in Int
      BY <2>2, <2>3, SumType
    <2>5. QED
      BY <2>4 DEF PostedCosts
  <1>2. \A s \in Sales : PlannedCosts[s] = plan.cost[s] /\ PlannedCosts[s] \in Int
    BY Types DEF PlannedCosts
  <1>3. /\ \A p \in Purchases : Used(buy[p]) \in Int /\ Used(local[p]) \in Int
        /\ \A p \in Purchases : splits[p].cost \in Int /\ plan.splits[p].cost \in Int
    <2>1. \A r \in PurchaseRecords : Used(r) \in Int
      BY DEF Used, PurchaseRecords
    <2>2. \A t \in Totals : t.cost \in Int
      BY DEF Totals
    <2>3. QED
      BY <2>1, <2>2, Types
  <1>4. \A p \in Purchases : OutCosts[p] = splits[p].cost + Used(buy[p]) /\ OutCosts[p] \in Int
    BY <1>3 DEF OutCosts
  <1>5. \A p \in Purchases :
           PlannedOut[p] = plan.splits[p].cost + (IF p \in queue.buys THEN Used(local[p]) ELSE 0)
    BY DEF PlannedOut
  <1>6. \A p \in Purchases : PlannedOut[p] \in Int
    BY <1>3, <1>5
  <1>7. ASSUME NEW p \in Purchases PROVE AfterUpdate[p] \in Int
    <2>1. AfterUpdate[p] = splits[p].cost + Used(IF p \in plan.buys THEN local[p] ELSE buy[p])
      BY DEF AfterUpdate
    <2>2. CASE p \in plan.buys
      BY <1>3, <2>1, <2>2
    <2>3. CASE p \notin plan.buys
      BY <1>3, <2>1, <2>3
    <2>4. QED
      BY <2>2, <2>3
  <1>8. /\ SumOf(PostedCosts, Sales) \in Int /\ SumOf(PlannedCosts, Sales) \in Int
        /\ SumOf(OutCosts, Purchases) \in Int /\ SumOf(PlannedOut, Purchases) \in Int
        /\ SumOf(AfterUpdate, Purchases) \in Int
    BY <1>1, <1>2, <1>4, <1>6, <1>7, SumType, FiniteAssumption
  <1>9. QED
    BY <1>1, <1>2, <1>3, <1>4, <1>5, <1>6, <1>7, <1>8, Types

\* The steps of a run that is costing sales move cost from the purchases that it
\* holds to the sale at hand, and from there to the costed sales.
LEMMA TieCalculation ==
    ASSUME TypeInv, TypeInv', MemoryInv, PlaceInv, TiedBooks, [Next]_vars,
           Calculating', ~Handlers, vars' # vars, pc # "trashInventory" => NoLooseSplits
    PROVE  /\ SumOf(PlannedCosts', Sales) + current'.cost = SumOf(PlannedOut', Purchases)
           /\ \A p \in queue'.buys : local'[p].checked => p \in plan'.buys
           /\ UNCHANGED <<PostedCosts, OutCosts, crashes>>
           /\ pc \in {"list", "credits", "sales", "purchases"}
  <1> DEFINE G == SumOf(PlannedCosts', Sales) + current'.cost = SumOf(PlannedOut', Purchases)
             K == \A p \in queue'.buys : local'[p].checked => p \in plan'.buys
             U == UNCHANGED <<PostedCosts, OutCosts, crashes>>
             R == pc \in {"list", "credits", "sales", "purchases"}
  <1>t. /\ \A s \in Sales : PlannedCosts[s] = plan.cost[s] /\ PlannedCosts[s] \in Int
        /\ \A p \in Purchases :
              PlannedOut[p] = plan.splits[p].cost
                                + (IF p \in queue.buys THEN Used(local[p]) ELSE 0)
        /\ \A p \in Purchases : PlannedOut[p] \in Int
        /\ \A p \in Purchases : plan.splits[p].cost \in Int
        /\ SumOf(PlannedCosts, Sales) \in Int /\ SumOf(PlannedOut, Purchases) \in Int
        /\ current.cost \in Int
    BY CostTypes
  <1>p. /\ \A s \in Sales : PlannedCosts'[s] = plan'.cost[s]
        /\ \A p \in Purchases :
              PlannedOut'[p] = plan'.splits[p].cost
                                 + (IF p \in queue'.buys THEN Used(local'[p]) ELSE 0)
    BY DEF PlannedCosts, PlannedOut, Used
  <1>f. IsFiniteSet(Sales) /\ IsFiniteSet(Purchases)
    BY FiniteAssumption
  <1>i. /\ Calculating => SumOf(PlannedCosts, Sales) + current.cost = SumOf(PlannedOut, Purchases)
        /\ Calculating => \A p \in queue.buys : local[p].checked => p \in plan.buys
    BY DEF TiedBooks
  <1>u. UNCHANGED <<books, crashes>> => U
    <2> SUFFICES ASSUME UNCHANGED <<books, crashes>> PROVE U
      OBVIOUS
    <2>1. UNCHANGED <<buy, splits, cogs, crashes>>
      BY DEF books
    <2>2. PostedCosts' = PostedCosts
      BY <2>1 DEF PostedCosts
    <2>3. OutCosts' = OutCosts
      BY <2>1 DEF OutCosts, Used
    <2>4. QED
      BY <2>1, <2>2, <2>3
  <1>b. queue.buys \subseteq Purchases
    BY Types
  <1>1. ASSUME NEW d \in Dates, ListTransactions(d), ~Finish
        PROVE  G /\ K /\ U /\ R
    <2>1. /\ pc = "list" /\ UNCHANGED <<books, current, plan, crashes>> /\ local' = buy
          /\ queue'.buys \subseteq Unchecked(buy, d)
      BY <1>1, ListEffect DEF OnePerKey
    <2>2. plan = EmptyPlan /\ current = NoCurrentSale
      BY <2>1 DEF MemoryInv, PlaceInv
    <2>3. \A p \in queue'.buys : p \in Purchases /\ ~local'[p].checked
      BY <2>1, Types DEF Unchecked
    <2>4. \A s \in Sales : PlannedCosts'[s] = 0
      BY <1>p, <2>1, <2>2 DEF EmptyPlan
    <2>5. \A p \in Purchases : PlannedOut'[p] = 0
      BY <1>p, <2>1, <2>2, <2>3 DEF EmptyPlan, NoTotals, Used
    <2>6. SumOf(PlannedCosts', Sales) = 0 /\ SumOf(PlannedOut', Purchases) = 0
      BY <1>f, <2>4, <2>5, SumZero
    <2>7. current'.cost = 0
      BY <2>1, <2>2 DEF NoCurrentSale
    <2>8. QED
      BY <1>u, <2>1, <2>3, <2>6, <2>7
  <1>2. ASSUME NEW n \in CreditNotes, ProcessCreditNote(n), ~Finish
        PROVE  G /\ K /\ U /\ R
    <2>1. /\ pc = "credits" /\ UNCHANGED <<books, current, crashes>>
          /\ queue'.buys = queue.buys /\ plan'.cost = plan.cost
          /\ \A p \in Purchases : /\ local'[p].checked = local[p].checked
                                  /\ local'[p].totalCost = local[p].totalCost
                                  /\ plan'.splits[p].cost = plan.splits[p].cost
          /\ plan.buys \subseteq plan'.buys
      BY <1>2, CreditNoteEffect
    <2>2. Calculating
      BY <2>1 DEF Calculating
    <2>3. \A s \in Sales : PlannedCosts[s] \in Int /\ PlannedCosts'[s] = PlannedCosts[s]
      BY <1>t, <1>p, <2>1
    <2>4. \A p \in Purchases : Used(local'[p]) = Used(local[p])
      BY <2>1 DEF Used
    <2>5. \A p \in Purchases : PlannedOut[p] \in Int /\ PlannedOut'[p] = PlannedOut[p]
      BY <1>t, <1>p, <2>1, <2>4
    <2>6. /\ SumOf(PlannedCosts', Sales) = SumOf(PlannedCosts, Sales)
          /\ SumOf(PlannedOut', Purchases) = SumOf(PlannedOut, Purchases)
      BY <1>f, <2>3, <2>5, SumEqual
    <2>7. QED
      BY <1>b, <1>i, <1>u, <2>1, <2>2, <2>6
  <1>3. CASE CreditNotesDone \/ SalesDone
    <2>1. UNCHANGED <<books, run, crashes>> /\ Calculating /\ R
      BY <1>3 DEF CreditNotesDone, SalesDone, Calculating
    <2>2. PlannedCosts' = PlannedCosts /\ PlannedOut' = PlannedOut
      BY <2>1 DEF PlannedCosts, PlannedOut, Used, run
    <2>3. UNCHANGED <<queue, local, plan, current>>
      BY <2>1 DEF run
    <2>4. QED
      BY <1>i, <1>u, <2>1, <2>2, <2>3
  <1>4. ASSUME NEW s \in Sales, NextSale(s)
        PROVE  G /\ K /\ U /\ R
    <2>1. /\ UNCHANGED <<books, local, plan, crashes>> /\ Calculating /\ R
          /\ current.cost = 0 /\ current'.cost = 0
      BY <1>4 DEF NextSale, Calculating, PlaceInv, NoCurrentSale
    <2>2. queue'.buys = queue.buys
      BY <1>4 DEF NextSale, TypeInv, TypeOK, Queues
    <2>3. PlannedCosts' = PlannedCosts /\ PlannedOut' = PlannedOut
      BY <2>1, <2>2 DEF PlannedCosts, PlannedOut, Used
    <2>4. QED
      BY <1>i, <1>u, <2>1, <2>2, <2>3
  <1>5. ASSUME NEW p \in Purchases, NEW cost \in Int, NEW d \in Int,
               Calculating, R, UNCHANGED <<books, queue, crashes>>,
               plan'.cost = plan.cost, plan'.buys = plan.buys \cup {p},
               \A r \in Purchases : r # p =>
                  local'[r] = local[r] /\ plan'.splits[r] = plan.splits[r],
               PlannedOut'[p] = PlannedOut[p] + cost,
               current'.cost = current.cost + cost
        PROVE  G /\ K /\ U /\ R
    <2>1. \A s \in Sales : PlannedCosts[s] \in Int /\ PlannedCosts'[s] = PlannedCosts[s]
      BY <1>t, <1>p, <1>5
    <2>2. \A r \in Purchases : /\ PlannedOut[r] \in Int
                               /\ PlannedOut'[r] = IF r = p THEN PlannedOut[r] + cost
                                                   ELSE PlannedOut[r]
      BY <1>t, <1>p, <1>5
    <2>3. /\ SumOf(PlannedCosts', Sales) = SumOf(PlannedCosts, Sales)
          /\ SumOf(PlannedOut', Purchases) = SumOf(PlannedOut, Purchases) + cost
      <3>1. SumOf(PlannedCosts', Sales) = SumOf(PlannedCosts, Sales)
        BY <1>f, <2>1, SumEqual
      <3>2. SumOf(PlannedOut', Purchases) = SumOf(PlannedOut, Purchases) + cost
        BY <1>f, <2>2, SumChange
      <3>3. QED
        BY <3>1, <3>2
    <2>4. G
      BY <1>t, <1>i, <1>5, <2>3
    <2>5. QED
      BY <1>b, <1>i, <1>u, <1>5, <2>4
  <1>6. ASSUME NEW p \in Purchases, LiquidatePurchase(p)
        PROVE  G /\ K /\ U /\ R
    <2>1. /\ pc = "purchases" /\ UNCHANGED <<books, queue, crashes>> /\ p \in Available
          /\ plan'.cost = plan.cost /\ plan'.buys = plan.buys \cup {p}
          /\ plan'.splits = plan.splits /\ local'[p].checked
          /\ \A r \in Purchases : r # p => local'[r] = local[r]
          /\ current'.cost = current.cost + local'[p].totalCost
      BY <1>6, LiquidateEffect
    <2>2. p \in queue.buys /\ ~local[p].checked
      BY <2>1 DEF Available
    <2>3. local'[p].totalCost \in Int
      BY DEF TypeInv, TypeOK, PurchaseRecords
    <2>4. PlannedOut'[p] = PlannedOut[p] + local'[p].totalCost
      BY <1>t, <1>p, <2>1, <2>2, <2>3 DEF Used
    <2>5. QED
      BY <1>5, <2>1, <2>3, <2>4 DEF Calculating
  <1>7. ASSUME NEW p \in Purchases, SplitPurchase(p)
        PROVE  G /\ K /\ U /\ R
    <2>1. /\ pc = "purchases" /\ UNCHANGED <<books, queue, crashes>> /\ p \in Available
          /\ plan'.cost = plan.cost /\ plan'.buys = plan.buys \cup {p}
          /\ local'[p].checked = local[p].checked
          /\ \A r \in Purchases : r # p =>
                local'[r] = local[r] /\ plan'.splits[r] = plan.splits[r]
      BY <1>7, SplitEffect
    <2>2. PICK cost \in Int : /\ plan'.splits[p].cost = plan.splits[p].cost + cost
                              /\ current'.cost = current.cost + cost
      BY <1>7, SplitEffect
    <2>3. p \in queue.buys /\ ~local[p].checked /\ ~local'[p].checked
      BY <2>1 DEF Available
    <2>4. PlannedOut'[p] = PlannedOut[p] + cost
      BY <1>t, <1>p, <2>1, <2>2, <2>3 DEF Used
    <2>5. QED
      BY <1>5, <2>1, <2>2, <2>4 DEF Calculating
  <1>8. CASE FinishSale /\ ~Finish
    <2> DEFINE s == current.sale
    <2>1. /\ pc = "purchases" /\ UNCHANGED <<books, local, queue, crashes>>
          /\ current' = NoCurrentSale /\ plan'.splits = plan.splits /\ plan'.buys = plan.buys
          /\ plan'.cost = [plan.cost EXCEPT ![s] = current.cost]
      BY <1>8, FinishSaleEffect
    <2>2. Calculating /\ R /\ s \in Sales /\ current'.cost = 0
      BY <2>1 DEF Calculating, TypeInv, NoCurrentSale
    <2>3. plan.cost[s] = 0
      BY <2>1, <2>2 DEF PlaceInv, InProcess
    <2>4. \A t \in Sales : /\ PlannedCosts[t] \in Int
                           /\ PlannedCosts'[t] = IF t = s THEN PlannedCosts[t] + current.cost
                                                 ELSE PlannedCosts[t]
      BY <1>t, <1>p, <2>1, <2>2, <2>3, Types
    <2>5. PlannedOut' = PlannedOut
      BY <2>1 DEF PlannedOut, Used
    <2> HIDE DEF s
    <2>6. SumOf(PlannedCosts', Sales) = SumOf(PlannedCosts, Sales) + current.cost
      <3>1. s \in Sales /\ current.cost \in Int
        BY <1>t, <2>2
      <3>2. QED
        BY <1>f, <2>4, <3>1, SumChange
    <2>7. QED
      BY <1>t, <1>i, <1>u, <2>1, <2>2, <2>5, <2>6
  <1>9. QED
    <2>1. CASE InProcess'
      BY <2>1, <1>1, <1>2, <1>3, <1>4, <1>6, <1>7, <1>8, ProcessSteps
    <2>2. CASE ~InProcess'
      BY <2>2, <1>3, CreateInventorySteps DEF Calculating, InProcess
    <2>3. QED
      BY <2>1, <2>2

\* The steps of users and runs, runs that die left out.
LivingSteps ==
    Handlers \/ StartCalculation \/ StartReset \/ Calculation \/ Reset \/ UNCHANGED vars

\* A step other than the last call of a reset keeps the costs in the two books tied.
LEMMA TiedStep ==
    ASSUME TypeInv, TypeInv', SplitsInv, MemoryInv, PlaceInv, OpenInv, TiedBooks,
           LivingSteps, ~ClearAccount, pc # "trashInventory" => NoLooseSplits,
           \A p \in Purchases : ~buy[p].posted => ~buy[p].checked,
           Calculating =>
              /\ plan.buys \subseteq queue.buys
              /\ \A p \in Purchases : p \notin plan.buys => plan.splits[p] = NoTotals,
           pc = "createFinancial" => \A s \in plan.cogs : cogs[s] = <<>>
    PROVE  TiedBooks'
  <1> DEFINE Tied == SumOf(PostedCosts, Sales) = SumOf(OutCosts, Purchases)
             Apart == {"updateInventory", "createFinancial", "restoreInventory",
                       "trashInventory", "clearAccount"}
  <1>n. [Next]_vars
    BY DEF LivingSteps, Next
  <1>i. /\ pc \notin Apart => Tied
        /\ Calculating =>
             /\ SumOf(PlannedCosts, Sales) + current.cost = SumOf(PlannedOut, Purchases)
             /\ \A p \in queue.buys : local[p].checked => p \in plan.buys
        /\ pc = "updateInventory" =>
             SumOf(PostedCosts, Sales) + SumOf(PlannedCosts, Sales) = SumOf(AfterUpdate, Purchases)
        /\ pc = "createFinancial" =>
             /\ SumOf(PostedCosts, Sales) + SumOf(PlannedCosts, Sales) = SumOf(OutCosts, Purchases)
             /\ \A s \in Sales : s \notin plan.cogs => plan.cost[s] = 0
    BY DEF TiedBooks
  <1>f. IsFiniteSet(Sales) /\ IsFiniteSet(Purchases)
    BY FiniteAssumption
  <1>g. UNCHANGED <<buy, splits, cogs>> => UNCHANGED <<PostedCosts, OutCosts>>
    BY DEF PostedCosts, OutCosts, Used
  <1>h. ASSUME UNCHANGED <<PostedCosts, OutCosts>>, pc \notin Apart,
               pc' \notin Apart, ~Calculating'
        PROVE  TiedBooks'
    <2>1. Tied' <=> Tied
      BY <1>h
    <2>2. QED
      BY <1>h, <1>i, <2>1 DEF TiedBooks
  <1>1. CASE Handlers
    <2>1. UNCHANGED <<pc, local, queue, current, plan, splits, cogs>>
      BY <1>1, HandlerEffect
    <2>2. \A p \in Purchases : Used(buy'[p]) = Used(buy[p])
      <3>1. \A p \in Purchases : buy'[p] # buy[p] => ~buy[p].checked /\ ~buy'[p].checked
        BY <1>1, HandlerEffect
      <3>2. QED
        BY <3>1 DEF Used
    <2>3. \A p \in plan.buys : p \in Purchases /\ buy'[p] = buy[p]
      BY <1>1, HandlerEffect, Types DEF MemoryInv
    <2>4. PostedCosts' = PostedCosts /\ PlannedCosts' = PlannedCosts
      BY <2>1 DEF PostedCosts, PlannedCosts
    <2>5. OutCosts' = OutCosts
      <3>1. \A p \in Purchases : splits'[p].cost + Used(buy'[p]) = splits[p].cost + Used(buy[p])
        BY <2>1, <2>2
      <3>2. OutCosts' = [p \in Purchases |-> splits'[p].cost + Used(buy'[p])]
        BY DEF OutCosts, Used
      <3>3. QED
        BY <3>1, <3>2, Zenon DEF OutCosts
    <2>6. PlannedOut' = PlannedOut
      BY <2>1 DEF PlannedOut, Used
    <2>7. AfterUpdate' = AfterUpdate
      <3>1. \A p \in Purchases :
               splits'[p].cost + Used(IF p \in plan'.buys THEN local'[p] ELSE buy'[p])
                 = splits[p].cost + Used(IF p \in plan.buys THEN local[p] ELSE buy[p])
        BY <2>1, <2>2
      <3>2. AfterUpdate' = [p \in Purchases |->
               splits'[p].cost + Used(IF p \in plan'.buys THEN local'[p] ELSE buy'[p])]
        BY DEF AfterUpdate, Used
      <3>3. QED
        BY <3>1, <3>2, Zenon DEF AfterUpdate
    <2>8. QED
      BY <2>1, <2>4, <2>5, <2>6, <2>7 DEF TiedBooks, Calculating
  <1>2. CASE UNCHANGED vars
    <2>1. UNCHANGED <<buy, splits, sell, cogs, pc, local, queue, current, plan, crashes>>
      BY <1>2 DEF vars, books, run
    <2>2. /\ PostedCosts' = PostedCosts /\ PlannedCosts' = PlannedCosts
          /\ OutCosts' = OutCosts /\ PlannedOut' = PlannedOut /\ AfterUpdate' = AfterUpdate
      BY <2>1 DEF PostedCosts, PlannedCosts, OutCosts, PlannedOut, AfterUpdate, Used
    <2>3. QED
      BY <2>1, <2>2 DEF TiedBooks, Calculating
  <1>3. CASE Calculating' /\ ~Handlers /\ vars' # vars
    <2>1. /\ SumOf(PlannedCosts', Sales) + current'.cost = SumOf(PlannedOut', Purchases)
          /\ \A p \in queue'.buys : local'[p].checked => p \in plan'.buys
          /\ UNCHANGED <<PostedCosts, OutCosts>>
          /\ pc \in {"list", "credits", "sales", "purchases"}
      BY <1>3, <1>n, TieCalculation
    <2>2. Tied' <=> Tied
      BY <2>1
    <2>3. QED
      BY <1>3, <1>i, <2>1, <2>2 DEF TiedBooks, Calculating
  <1>4. CASE CreateInventoryTransactions
    <2>1. /\ pc = "createInventory" /\ pc' = "updateInventory"
          /\ UNCHANGED <<buy, cogs, local, queue, current, plan>>
          /\ \A p \in Purchases : splits'[p].cost = splits[p].cost + plan.splits[p].cost
      BY <1>4 DEF CreateInventoryTransactions, fireBatchOperations, run
    <2>2. Calculating /\ current.cost = 0
      BY <2>1 DEF Calculating, PlaceInv, NoCurrentSale
    <2>3. PostedCosts' = PostedCosts /\ PlannedCosts' = PlannedCosts
      BY <2>1 DEF PostedCosts, PlannedCosts
    <2>4. ASSUME NEW p \in Purchases
          PROVE  /\ OutCosts[p] \in Int /\ PlannedOut[p] \in Int
                 /\ AfterUpdate'[p] = OutCosts[p] + PlannedOut[p]
      <3>1. /\ OutCosts[p] = splits[p].cost + Used(buy[p])
            /\ PlannedOut[p] = plan.splits[p].cost
                                 + (IF p \in queue.buys THEN Used(local[p]) ELSE 0)
            /\ splits[p].cost \in Int /\ plan.splits[p].cost \in Int
            /\ Used(buy[p]) \in Int /\ Used(local[p]) \in Int
            /\ OutCosts[p] \in Int /\ PlannedOut[p] \in Int
        BY CostTypes
      <3>2. AfterUpdate'[p] = splits[p].cost + plan.splits[p].cost
                                + Used(IF p \in plan.buys THEN local[p] ELSE buy[p])
        BY <2>1 DEF AfterUpdate, Used
      <3>3. CASE p \in plan.buys
        <4>1. p \in queue.buys /\ ~buy[p].checked
          BY <2>1, <2>2, <3>3 DEF OpenInv
        <4>2. Used(buy[p]) = 0
          BY <4>1 DEF Used
        <4>3. QED
          BY <3>1, <3>2, <3>3, <4>1, <4>2
      <3>4. CASE p \notin plan.buys
        <4>1. plan.splits[p].cost = 0
          BY <2>2, <3>4 DEF NoTotals
        <4>2. (IF p \in queue.buys THEN Used(local[p]) ELSE 0) = 0
          BY <1>i, <2>2, <3>4 DEF Used
        <4>3. QED
          BY <3>1, <3>2, <3>4, <4>1, <4>2
      <3>5. QED
        BY <3>3, <3>4
    <2>5. SumOf(AfterUpdate', Purchases) = SumOf(OutCosts, Purchases) + SumOf(PlannedOut, Purchases)
      BY <1>f, <2>4, SumPlus
    <2>6. SumOf(PostedCosts', Sales) + SumOf(PlannedCosts', Sales) = SumOf(AfterUpdate', Purchases)
      BY <1>i, <2>1, <2>2, <2>3, <2>5, CostTypes
    <2>7. QED
      BY <2>1, <2>6 DEF TiedBooks, Calculating
  <1>5. CASE UpdateInventoryTransactions
    <2>1. /\ pc = "updateInventory" /\ pc' = "createFinancial"
          /\ UNCHANGED <<splits, cogs, plan>>
          /\ \A p \in Purchases : buy'[p] = IF p \in plan.buys THEN local[p] ELSE buy[p]
      <3>1. pc = "updateInventory"
        BY <1>5 DEF UpdateInventoryTransactions
      <3>2. queue.splits = {}
        BY <3>1, NoneListed
      <3>3. splits' = splits
        BY <1>5, <3>2, Types DEF UpdateInventoryTransactions
      <3>4. QED
        BY <1>5, <3>2, <3>3 DEF UpdateInventoryTransactions, fireBatchOperations, run
    <2>2. PostedCosts' = PostedCosts /\ PlannedCosts' = PlannedCosts
      BY <2>1 DEF PostedCosts, PlannedCosts
    <2>3. \A p \in Purchases : AfterUpdate[p] \in Int /\ OutCosts'[p] = AfterUpdate[p]
      <3>1. ASSUME NEW p \in Purchases PROVE OutCosts'[p] = AfterUpdate[p]
        <4>1. OutCosts'[p] = splits'[p].cost + Used(buy'[p])
          BY DEF OutCosts, Used
        <4>2. AfterUpdate[p] = splits[p].cost + Used(IF p \in plan.buys THEN local[p] ELSE buy[p])
          BY DEF AfterUpdate
        <4>3. QED
          BY <2>1, <4>1, <4>2
      <3>2. QED
        BY <3>1, CostTypes
    <2>4. SumOf(OutCosts', Purchases) = SumOf(AfterUpdate, Purchases)
      BY <1>f, <2>3, SumEqual
    <2>5. \A s \in Sales : s \notin plan.cogs => plan.cost[s] = 0
      BY <2>1 DEF PlaceInv
    <2>6. QED
      BY <1>i, <2>1, <2>2, <2>4, <2>5 DEF TiedBooks, Calculating
  <1>6. CASE CreateFinancialTransactions
    <2>1. /\ pc = "createFinancial" /\ pc' = "storeDate" /\ UNCHANGED <<buy, splits>>
          /\ \A s \in Sales : cogs'[s] = IF s \in plan.cogs THEN Append(cogs[s], plan.cost[s])
                                         ELSE cogs[s]
      BY <1>6 DEF CreateFinancialTransactions, fireBatchOperations, run
    <2>2. OutCosts' = OutCosts
      BY <2>1 DEF OutCosts, Used
    <2>3. ASSUME NEW s \in Sales
          PROVE  /\ PostedCosts[s] \in Int /\ PlannedCosts[s] \in Int
                 /\ PostedCosts'[s] = PostedCosts[s] + PlannedCosts[s]
      <3>1. /\ PostedCosts[s] \in Int /\ PlannedCosts[s] \in Int
            /\ PlannedCosts[s] = plan.cost[s]
        BY CostTypes
      <3>2. /\ PostedCosts[s] = SumOf(cogs[s], DOMAIN cogs[s])
            /\ PostedCosts'[s] = SumOf(cogs'[s], DOMAIN cogs'[s])
        BY DEF PostedCosts
      <3>3. CASE s \in plan.cogs
        <4>1. cogs[s] = <<>>
          BY <2>1, <3>3
        <4>2. cogs'[s] = Append(<<>>, plan.cost[s])
          BY <2>1, <3>3, <4>1
        <4>3. PostedCosts[s] = 0 /\ PostedCosts'[s] = plan.cost[s]
          BY <3>1, <3>2, <4>1, <4>2, SumOfNone, SumOfOne
        <4>4. QED
          BY <3>1, <4>3
      <3>4. CASE s \notin plan.cogs
        <4>1. plan.cost[s] = 0 /\ cogs'[s] = cogs[s]
          BY <1>i, <2>1, <3>4
        <4>2. QED
          BY <3>1, <3>2, <4>1
      <3>5. QED
        BY <3>3, <3>4
    <2>4. SumOf(PostedCosts', Sales) = SumOf(PostedCosts, Sales) + SumOf(PlannedCosts, Sales)
      BY <1>f, <2>3, SumPlus
    <2>5. QED
      BY <1>i, <2>1, <2>2, <2>4 DEF TiedBooks, Calculating
  <1>8. CASE \/ TrashFinancialTransactions \/ RestoreInventoryTransactions
             \/ TrashInventoryTransactions
    BY <1>8 DEF TrashFinancialTransactions, RestoreInventoryTransactions,
          TrashInventoryTransactions, fireResetOperations, TiedBooks, Calculating
  <1>9. CASE \/ StartCalculation \/ StartReset \/ ReadAccountToReset
             \/ ListTransactionsToReset \/ storeLastCalcTxDate
    BY <1>g, <1>h, <1>9 DEF StartCalculation, StartReset, ReadAccountToReset,
          ListTransactionsToReset, storeLastCalcTxDate, Finish, fireResetOperations,
          books, Calculating
  <1>10. CASE /\ Finish
              /\ \/ FinishSale
                 \/ \E d \in Dates : ListTransactions(d)
                 \/ \E n \in CreditNotes : ProcessCreditNote(n)
                 \/ \E p \in Purchases : RejectSplit(p)
    <2>1. UNCHANGED books /\ pc \in {"list", "credits", "purchases"} /\ pc' = "idle"
      BY <1>10 DEF FinishSale, ListTransactions, ProcessCreditNote, RejectSplit, Finish
    <2>2. UNCHANGED <<buy, splits, cogs>>
      BY <2>1 DEF books
    <2>3. QED
      BY <1>g, <1>h, <2>1, <2>2 DEF Calculating
  <1>11. CASE \/ FinishSale \/ CreditNotesDone \/ SalesDone
              \/ \E d \in Dates : ListTransactions(d)
              \/ \E n \in CreditNotes : ProcessCreditNote(n)
              \/ \E s \in Sales : NextSale(s)
              \/ \E p \in Purchases : LiquidatePurchase(p) \/ SplitPurchase(p) \/ RejectSplit(p)
    <2>1. CASE Calculating'
      BY <1>1, <1>2, <1>3, <2>1
    <2>2. CASE ~Calculating'
      BY <1>10, <1>11, <2>2 DEF FinishSale, ListTransactions, ProcessCreditNote,
            CreditNotesDone, SalesDone, NextSale, LiquidatePurchase, SplitPurchase,
            RejectSplit, fireBatchOperations, Calculating
    <2>3. QED
      BY <2>1, <2>2
  <1>12. QED
    BY <1>1, <1>2, <1>4, <1>5, <1>6, <1>8, <1>9, <1>11 DEF LivingSteps, Calculation, Reset

\* The last call of a reset that has put everything back.
LEMMA ClearedTied ==
    ASSUME ClearAccount, \A s \in Sales : cogs[s] = <<>>,
           \A p \in Purchases : Untouched(p) /\ splits[p] = NoTotals
    PROVE  TiedBooks'
  <1>1. pc = "clearAccount" /\ pc' = "idle" /\ UNCHANGED <<buy, splits, cogs>>
    BY DEF ClearAccount, Finish
  <1>2. \A s \in Sales : PostedCosts'[s] = 0
    <2>1. \A s \in Sales : PostedCosts'[s] = SumOf(cogs[s], DOMAIN cogs[s])
      BY <1>1 DEF PostedCosts
    <2>2. \A s \in Sales : cogs[s] = <<>>
      OBVIOUS
    <2>3. SumOf(<<>>, DOMAIN <<>>) = 0
      BY SumOfNone
    <2>4. QED
      BY <2>1, <2>2, <2>3
  <1>3. \A p \in Purchases : OutCosts'[p] = 0
    BY <1>1 DEF OutCosts, Used, Untouched, NoTotals
  <1>4. SumOf(PostedCosts', Sales) = 0 /\ SumOf(OutCosts', Purchases) = 0
    BY <1>2, <1>3, SumZero, FiniteAssumption
  <1>5. QED
    BY <1>1, <1>4 DEF TiedBooks, Calculating

\* With no run dead, every step keeps the costs in the two books tied.
LEMMA TieStep ==
    ASSUME TypeInv, TypeInv', SplitsInv, SafetyInv, LooseInv, CostedInv, TieInv, [Next]_vars
    PROVE  TieInv'
  <1> SUFFICES ASSUME crashes' = 0 PROVE TiedBooks'
    BY DEF TieInv
  <1>c. crashes = 0 /\ ~Crash
    <2>1. ~Crash
      BY Types DEF Crash
    <2>2. crashes' = crashes
      <3>1. CASE Handlers
        BY <3>1, HandlerEffect
      <3>2. CASE Calculation
        BY <3>2 DEF Calculation, ListTransactions, ProcessCreditNote, CreditNotesDone, NextSale,
              LiquidatePurchase, SplitPurchase, RejectSplit, FinishSale, SalesDone,
              CreateInventoryTransactions, UpdateInventoryTransactions,
              CreateFinancialTransactions, storeLastCalcTxDate
      <3>3. CASE Reset \/ StartCalculation \/ StartReset
        BY <3>3 DEF Reset, ReadAccountToReset, ListTransactionsToReset,
              TrashFinancialTransactions, RestoreInventoryTransactions,
              TrashInventoryTransactions, ClearAccount, StartCalculation, StartReset
      <3>4. CASE UNCHANGED vars
        BY <3>4 DEF vars
      <3>5. QED
        BY <2>1, <3>1, <3>2, <3>3, <3>4 DEF Next
    <2>3. QED
      BY <2>1, <2>2
  <1>1. TiedBooks
    BY <1>c DEF TieInv
  <1>l. ~torn /\ (pc # "trashInventory" => NoLooseSplits)
    BY <1>c DEF LooseInv
  <1>2. CASE ClearAccount
    <2>1. /\ \A s \in Sales : cogs[s] = <<>>
          /\ \A p \in Purchases : Untouched(p) /\ splits[p] = NoTotals
      BY <1>2, <1>l DEF ClearAccount, CostedInv, CogsInv, SafetyInv, ResetInv
    <2>2. QED
      BY <1>2, <2>1, ClearedTied
  <1>3. CASE ~ClearAccount
    <2>1. LivingSteps
      BY <1>c DEF Next, LivingSteps
    <2>2. MemoryInv /\ PlaceInv /\ OpenInv
      BY DEF SafetyInv, CostedInv
    <2>3. \A p \in Purchases : ~buy[p].posted => ~buy[p].checked
      BY DEF SafetyInv, UnpostedInv, NoPurchase
    <2>4. Calculating =>
            /\ plan.buys \subseteq queue.buys
            /\ \A p \in Purchases : p \notin plan.buys => plan.splits[p] = NoTotals
      BY DEF SafetyInv, CalculationInv
    <2>5. pc = "createFinancial" => \A s \in plan.cogs : cogs[s] = <<>>
      BY <1>l DEF CostedInv, CogsInv
    <2>6. QED
      BY <1>1, <1>3, <1>l, <2>1, <2>2, <2>3, <2>4, <2>5, TiedStep
  <1>4. QED
    BY <1>2, <1>3

\* At first no cost has left any purchase.
LEMMA InitTied == ASSUME Init PROVE TiedBooks
  <1>1. pc = "idle" /\ \A s \in Sales : cogs[s] = <<>>
    BY DEF Init
  <1>2. \A s \in Sales : PostedCosts[s] = 0
    <2>1. \A s \in Sales : PostedCosts[s] = SumOf(cogs[s], DOMAIN cogs[s])
      BY DEF PostedCosts
    <2>2. QED
      BY <1>1, <2>1, SumOfNone
  <1>3. \A p \in Purchases : OutCosts[p] = 0
    BY DEF Init, OutCosts, Used, NoPurchase, NoTotals
  <1>4. SumOf(PostedCosts, Sales) = 0 /\ SumOf(OutCosts, Purchases) = 0
    BY <1>2, <1>3, SumZero, FiniteAssumption
  <1>5. QED
    BY <1>1, <1>4 DEF TiedBooks, Calculating

\* TieInv is an invariant.
LEMMA TieInvariant == ASSUME OwnPurchaseCodes PROVE Spec => []TieInv
  <1>1. Init => TieInv
    BY InitTied DEF TieInv
  <1>2. QED
    BY <1>1, TypeInvariant, SafetyInvariant, LooseInvariant, CostedInvariant, TieStep, PTL
       DEF Spec

\* What TiedBooks says between runs, in the terms of BooksTieOut.
LEMMA TiedOut == ASSUME TypeInv, TiedBooks, pc = "idle" PROVE BooksTieOut
  <1> SUFFICES MapThenSumSet(LAMBDA s : FoldFunction(LAMBDA x, y : x + y, 0, cogs[s]), Sales)
                 = MapThenSumSet(LAMBDA p : splits[p].cost
                     + (IF buy[p].checked THEN buy[p].totalCost ELSE 0), Purchases)
    BY DEF BooksTieOut
  <1> DEFINE folds == [s \in Sales |-> FoldFunction(LAMBDA x, y : x + y, 0, cogs[s])]
             out == [p \in Purchases |-> splits[p].cost
                            + (IF buy[p].checked THEN buy[p].totalCost ELSE 0)]
  <1>1. MapThenSumSet(LAMBDA s : FoldFunction(LAMBDA x, y : x + y, 0, cogs[s]), Sales)
          = Iter(folds, Sales)[Sales]
    BY Zenon DEF MapThenSumSet, MapThenFoldSet, Iter, IsIter, First
  <1>2. MapThenSumSet(LAMBDA p : splits[p].cost
                        + (IF buy[p].checked THEN buy[p].totalCost ELSE 0), Purchases)
          = Iter(out, Purchases)[Purchases]
    BY Zenon DEF MapThenSumSet, MapThenFoldSet, Iter, IsIter, First
  <1>3. folds = PostedCosts
    <2>1. \A s \in Sales : FoldFunction(LAMBDA x, y : x + y, 0, cogs[s])
                             = SumOf(cogs[s], DOMAIN cogs[s])
      BY Zenon DEF FoldFunction, FoldFunctionOnSet, SumOf, MapThenSumSet, MapThenFoldSet
    <2>2. QED
      BY <2>1, Zenon DEF PostedCosts
  <1>4. out = OutCosts
    BY DEF OutCosts, Used
  <1> HIDE DEF folds, out
  <1>5. SumOf(PostedCosts, Sales) = SumOf(OutCosts, Purchases)
    BY DEF TiedBooks
  <1>6. QED
    BY <1>1, <1>2, <1>3, <1>4, <1>5, SumIsIter, Zenon

\* When every purchase has its own code, and as long as no run has died, the cost
\* of goods sold in the Financial Book is, between runs, the cost that has left the
\* purchases of the Inventory Book: for any number of purchases, sales, partial
\* sales, returns, extra costs, calculations and resets.
THEOREM BooksAgree == ASSUME OwnPurchaseCodes PROVE Spec => []BooksTieOut
  <1>1. TypeInv /\ TieInv => BooksTieOut
    BY TiedOut DEF TieInv, BooksTieOut
  <1>2. QED
    BY <1>1, TypeInvariant, TieInvariant, PTL
------------------------------------------------------------------------------
(* Sales of days that have been calculated *)

\* What a handler does to the properties of the account: it leaves them, flags the
\* account, or loses the date.
LEMMA HandlerProps ==
    ASSUME TypeInv, Handlers
    PROVE  /\ \/ props'.needsRebuild
              \/ props'.calcDate = NoDate
              \/ /\ props'.needsRebuild = props.needsRebuild
                 /\ props'.calcDate = props.calcDate
           /\ \A s \in Sales : sell'[s] # sell[s] =>
                 /\ sell'[s].date > NoDate
                 /\ props'.needsRebuild \/ props'.calcDate = NoDate
                      \/ sell'[s].date > props'.calcDate
  <1> DEFINE Kept == \/ props'.needsRebuild
                     \/ props'.calcDate = NoDate
                     \/ /\ props'.needsRebuild = props.needsRebuild
                        /\ props'.calcDate = props.calcDate
  <1>t. props \in Props /\ props.calcDate \in Nat /\ sell \in [Sales -> SaleRecords]
    BY Types DEF Props
  <1>1. ASSUME NEW date \in Dates
        PROVE  LET after == checkLastTxDate(props, props, date) IN
               /\ \/ after.needsRebuild \/ after = props
               /\ after.needsRebuild \/ after.calcDate = NoDate \/ date > after.calcDate
    BY <1>t, DataAssumption DEF checkLastTxDate, UpdateProps, Props, NoDate
  <1>2. ASSUME NEW p \in Purchases, NEW q \in Quantities, NEW c \in Costs, NEW d \in Dates,
               PostPurchase(p, q, c, d)
        PROVE  Kept /\ sell' = sell
    <2>1. \A stored \in Props : LET after == checkLastTxDate(stored, props, d) IN
             after.needsRebuild \/ after = stored
      BY <1>t DEF checkLastTxDate, UpdateProps, Props
    <2>2. /\ checkInventoryAccount(props) \in Props
          /\ \/ checkInventoryAccount(props).calcDate = NoDate
             \/ checkInventoryAccount(props) = props
      BY <1>t DEF checkInventoryAccount, UpdateProps, NoProps, Props, NoDate
    <2>3. sell' = sell
      BY <1>2 DEF PostPurchase
    <2>4. \/ props' = checkLastTxDate(props, props, d)
          \/ props' = checkLastTxDate(checkInventoryAccount(props), props, d)
      BY <1>2 DEF PostPurchase
    <2>5. QED
      BY <1>t, <2>1, <2>2, <2>3, <2>4
  <1>3. ASSUME NEW s \in Sales, NEW q \in Quantities, NEW d \in Dates, PostSale(s, q, d)
        PROVE  /\ Kept /\ \A r \in Sales : r # s => sell'[r] = sell[r]
               /\ sell'[s].date > NoDate
               /\ props'.needsRebuild \/ props'.calcDate = NoDate
                    \/ sell'[s].date > props'.calcDate
    <2>1. props' = checkLastTxDate(props, props, d)
      BY <1>3 DEF PostSale
    <2>2. sell'[s].date = d /\ \A r \in Sales : r # s => sell'[r] = sell[r]
      BY <1>t, <1>3 DEF PostSale
    <2>3. d > NoDate
      BY DataAssumption DEF NoDate
    <2>4. QED
      BY <1>1, <2>1, <2>2, <2>3
  <1>4. ASSUME NEW n \in CreditNotes, NEW q \in Quantities, NEW a \in ExtraAmounts,
               NEW d \in Dates, PostCreditNote(n, q, a, d)
        PROVE  Kept /\ sell' = sell
    BY <1>1, <1>4 DEF PostCreditNote
  <1>5. ASSUME \/ \E c \in Codes, a \in ExtraAmounts :
                     RecordAdditionalCost(c, a) \/ RecordCredit(c, a)
               \/ \E d \in Dates : CloseBooks(d)
        PROVE  Kept /\ sell' = sell
    BY <1>5 DEF RecordAdditionalCost, RecordCredit, CloseBooks
  <1>6. QED
    BY <1>2, <1>3, <1>4, <1>5 DEF Handlers

\* Handlers that do not fire during a run leave no uncosted sale behind it.
LEMMA DateStep ==
    ASSUME ~Concurrent, TypeInv, TypeInv', SafetyInv, LooseInv, EverySaleCosted, CostedInv,
           DateInv, [Next]_vars
    PROVE  DateInv'
  <1> DEFINE Covered == \A s \in Sales : sell[s].posted /\ sell[s].date <= queue.lastDate =>
                           sell[s].checked
                             \/ s \in queue.sales \cup plan.sells \cup {current.sale}
             Costed == \A s \in Sales :
                          sell[s].posted /\ sell[s].date <= queue.lastDate => sell[s].checked
             Flagged == ~props.needsRebuild => \A s \in Sales :
                          sell[s].posted /\ sell[s].date <= props.calcDate => sell[s].checked
             Cleared == {"trashInventory", "clearAccount"}
  <1>d. \A s \in Sales : sell[s].posted => sell[s].date > NoDate
    BY DEF DateInv
  <1>i. crashes = 0 =>
          /\ InProcess \/ pc \in {"createInventory", "updateInventory"} => Covered
          /\ pc \in {"createInventory", "updateInventory"} => queue.sales = {}
          /\ pc \in {"createFinancial", "storeDate"} => Costed
          /\ pc \notin Cleared => Flagged
    BY DEF DateInv
  <1>t. sell \in [Sales -> SaleRecords] /\ queue.sales \subseteq Sales /\ crashes \in Nat
    BY Types
  <1>1. CASE UNCHANGED vars
    <2>1. UNCHANGED <<sell, props, pc, queue, current, plan, crashes>>
      BY <1>1 DEF vars, books, run
    <2>2. QED
      BY <2>1 DEF DateInv, InProcess
  <1>2. CASE Handlers
    <2>1. UNCHANGED <<pc, queue, current, plan, crashes>>
      BY <1>2, HandlerEffect
    <2>2. pc = "idle"
      BY <1>2 DEF Handlers, PostPurchase, PostSale, PostCreditNote, RecordAdditionalCost,
            RecordCredit, CloseBooks, CanRecord, HandlersMayRun
    <2>3. \A s \in Sales : sell'[s].posted => sell'[s].date > NoDate
      BY <1>d, <1>2, HandlerProps
    <2>4. ASSUME crashes = 0, ~props'.needsRebuild, NEW s \in Sales,
                 sell'[s].posted, sell'[s].date <= props'.calcDate
          PROVE  sell'[s].checked
      <3>1. props'.calcDate \in Nat /\ sell'[s].date \in Nat
        BY DEF TypeInv, TypeOK, Props, SaleRecords
      <3>2. props'.calcDate # NoDate
        BY <2>3, <2>4, <3>1 DEF NoDate
      <3>3. sell'[s] = sell[s]
        BY <1>2, <2>4, <3>1, <3>2, HandlerProps
      <3>4. props'.needsRebuild = props.needsRebuild /\ props'.calcDate = props.calcDate
        BY <1>2, <2>4, <3>2, HandlerProps
      <3>5. QED
        BY <1>i, <2>2, <2>4, <3>3, <3>4
    <2>5. QED
      BY <2>1, <2>2, <2>3, <2>4 DEF DateInv, InProcess
  <1>3. ASSUME UNCHANGED <<sell, props, crashes>>, pc \notin Cleared,
               pc' \notin {"credits", "sales", "purchases", "createInventory",
                           "updateInventory", "createFinancial", "storeDate"}
        PROVE  DateInv'
    BY <1>3, <1>d, <1>i DEF DateInv, InProcess
  <1>4. CASE /\ Finish /\ pc \notin Cleared /\ UNCHANGED <<sell, props, crashes>>
    BY <1>3, <1>4 DEF Finish
  <1>5. CASE Crash
    <2>1. crashes' # 0 /\ sell' = sell
      BY <1>5, <1>t DEF Crash, books
    <2>2. QED
      BY <1>d, <2>1 DEF DateInv
  <1>6. CASE StartCalculation \/ StartReset \/ ReadAccountToReset
    BY <1>3, <1>6 DEF StartCalculation, StartReset, ReadAccountToReset, books
  <1>7. ASSUME NEW d \in Dates, ListTransactions(d), ~Finish
        PROVE  DateInv'
    <2>1. /\ pc = "list" /\ pc' = "credits" /\ UNCHANGED <<sell, props, crashes>>
          /\ queue'.sales = Unchecked(sell, d)
          /\ \E last \in Unchecked(sell, d) : queue'.lastDate = sell[last].date
      BY <1>7, ListEffect DEF books
    <2>2. queue'.lastDate <= d
      BY <2>1 DEF Unchecked
    <2>3. queue'.lastDate \in Nat /\ d \in Nat
      BY DataAssumption DEF TypeInv, TypeOK, Queues
    <2>4. ASSUME NEW s \in Sales, sell[s].posted, sell[s].date <= queue'.lastDate
          PROVE  sell[s].checked \/ s \in queue'.sales
      <3>1. sell[s].date \in Nat
        BY <1>t DEF SaleRecords
      <3>2. sell[s].date <= d
        BY <2>2, <2>3, <2>4, <3>1
      <3>3. QED
        BY <1>t, <2>1, <2>4, <3>2 DEF Unchecked
    <2>5. QED
      BY <1>d, <1>i, <2>1, <2>4 DEF DateInv, InProcess
  <1>8. ASSUME UNCHANGED <<sell, props, crashes>>, queue'.lastDate = queue.lastDate,
               InProcess \/ pc = "createInventory",
               pc' \in {"credits", "sales", "purchases", "createInventory", "updateInventory"},
               queue.sales \cup plan.sells \cup ({current.sale} \cap Sales)
                  \subseteq queue'.sales \cup plan'.sells \cup {current'.sale},
               pc' \in {"createInventory", "updateInventory"} => queue'.sales = {}
        PROVE  DateInv'
    <2>1. crashes = 0 => Covered'
      BY <1>8, <1>i
    <2>2. pc \notin Cleared
      BY <1>8 DEF InProcess
    <2>3. QED
      BY <1>8, <1>d, <1>i, <2>1, <2>2 DEF DateInv, InProcess
  <1>9. ASSUME NEW n \in CreditNotes, ProcessCreditNote(n), ~Finish
        PROVE  DateInv'
    BY <1>8, <1>9, CreditNoteEffect DEF books, InProcess
  <1>10. CASE CreditNotesDone \/ SalesDone
    BY <1>8, <1>10 DEF CreditNotesDone, SalesDone, fireBatchOperations, books, run, InProcess
  <1>11. ASSUME NEW s \in Sales, NextSale(s)
         PROVE  DateInv'
    <2>1. /\ pc = "sales" /\ pc' = "purchases" /\ s \in queue.sales /\ current = NoCurrentSale
          /\ UNCHANGED <<sell, props, plan, crashes>> /\ current'.sale = s
      BY <1>11 DEF NextSale, OldestSales, books, CostedInv, PlaceInv
    <2>2. queue'.sales = queue.sales \ {s} /\ queue'.lastDate = queue.lastDate
      BY <1>11 DEF NextSale, TypeInv, TypeOK, Queues
    <2>3. current.sale \notin Sales
      BY <2>1, NameAssumption DEF NoCurrentSale
    <2>4. QED
      BY <1>8, <2>1, <2>2, <2>3 DEF InProcess
  <1>12. ASSUME NEW p \in Purchases, LiquidatePurchase(p)
         PROVE  DateInv'
    BY <1>8, <1>12, LiquidateEffect DEF books, InProcess
  <1>13. ASSUME NEW p \in Purchases, SplitPurchase(p)
         PROVE  DateInv'
    BY <1>8, <1>13, SplitEffect DEF books, InProcess
  <1>14. CASE FinishSale /\ ~Finish
    <2>1. /\ pc = "purchases" /\ pc' = "sales" /\ UNCHANGED <<sell, props, queue, crashes>>
          /\ NoLooseSplits => plan'.sells = plan.sells \cup {current.sale}
      BY <1>14, FinishSaleEffect DEF books, EverySaleCosted
    <2>2. CASE crashes = 0
      <3>1. NoLooseSplits
        BY <2>1, <2>2 DEF LooseInv
      <3>2. QED
        BY <1>8, <2>1, <3>1 DEF InProcess
    <2>3. CASE crashes # 0
      BY <1>d, <2>1, <2>3 DEF DateInv
    <2>4. QED
      BY <2>2, <2>3
  <1>15. CASE CreateInventoryTransactions
    BY <1>8, <1>15, <1>i DEF CreateInventoryTransactions, fireBatchOperations, run, DateInv,
          InProcess
  <1>16. CASE UpdateInventoryTransactions
    <2>1. /\ pc = "updateInventory" /\ pc' = "createFinancial"
          /\ UNCHANGED <<props, queue, crashes>> /\ sell' = LogAll(sell, plan.sells)
      BY <1>16 DEF UpdateInventoryTransactions, fireBatchOperations, run
    <2>2. \A s \in Sales : /\ sell'[s].posted = sell[s].posted /\ sell'[s].date = sell[s].date
                           /\ sell[s].checked => sell'[s].checked
                           /\ s \in plan.sells => sell'[s].checked
      <3>1. \A s \in Sales : sell'[s] = IF s \in plan.sells
               THEN [sell[s] EXCEPT !.checked = TRUE, !.logged = TRUE] ELSE sell[s]
        BY <1>t, <2>1 DEF LogAll
      <3>2. QED
        BY <1>t, <3>1 DEF SaleRecords
    <2>3. current.sale \notin Sales
      BY <2>1, NameAssumption DEF CostedInv, PlaceInv, NoCurrentSale
    <2>4. QED
      BY <1>d, <1>i, <2>1, <2>2, <2>3 DEF DateInv, InProcess
  <1>17. CASE CreateFinancialTransactions
    BY <1>17, <1>d, <1>i DEF CreateFinancialTransactions, fireBatchOperations, run, DateInv,
          InProcess
  <1>18. CASE storeLastCalcTxDate
    <2>1. pc = "storeDate" /\ pc' = "idle" /\ UNCHANGED <<sell, crashes>>
      BY <1>18 DEF storeLastCalcTxDate, Finish
    <2>2. queue.lastDate \in Nat /\ copy.calcDate \in Nat
      BY Types DEF Props
    <2>3. props' = props \/ props'.calcDate = queue.lastDate
      BY <1>18, <2>2, Types DEF storeLastCalcTxDate, UpdateProps, Props, NoDate
    <2>4. QED
      BY <1>d, <1>i, <2>1, <2>3 DEF DateInv, InProcess
  <1>19. CASE ListTransactionsToReset
    BY <1>3, <1>4, <1>19 DEF ListTransactionsToReset, fireResetOperations, books
  <1>20. CASE TrashFinancialTransactions
    BY <1>3, <1>20 DEF TrashFinancialTransactions, fireResetOperations
  <1>21. CASE RestoreInventoryTransactions
    <2>1. /\ pc' = "trashInventory" /\ sell' = UnlogAll(sell, plan.sells)
      BY <1>21 DEF RestoreInventoryTransactions, fireResetOperations
    <2>2. \A s \in Sales : sell'[s].posted = sell[s].posted /\ sell'[s].date = sell[s].date
      BY <1>t, <2>1 DEF UnlogAll, SaleRecords
    <2>3. QED
      BY <1>d, <2>1, <2>2 DEF DateInv, InProcess
  <1>22. CASE TrashInventoryTransactions
    BY <1>d, <1>22 DEF TrashInventoryTransactions, fireResetOperations, DateInv, InProcess
  <1>23. CASE ClearAccount
    <2>1. pc' = "idle" /\ sell' = sell /\ props'.calcDate = NoDate
      BY <1>23 DEF ClearAccount, Finish, UpdateProps, NoProps
    <2>2. \A s \in Sales : sell[s].posted => ~(sell[s].date <= NoDate)
      BY <1>d, <1>t DEF SaleRecords, NoDate
    <2>3. QED
      BY <1>d, <2>1, <2>2 DEF DateInv, InProcess
  <1>24. CASE /\ Finish
              /\ \/ FinishSale
                 \/ \E d \in Dates : ListTransactions(d)
                 \/ \E n \in CreditNotes : ProcessCreditNote(n)
                 \/ \E p \in Purchases : RejectSplit(p)
    BY <1>4, <1>24 DEF FinishSale, ListTransactions, ProcessCreditNote, RejectSplit, books
  <1>25. QED
    BY <1>1, <1>2, <1>5, <1>6, <1>7, <1>9, <1>10, <1>11, <1>12, <1>13, <1>14, <1>15, <1>16,
       <1>17, <1>18, <1>19, <1>20, <1>21, <1>22, <1>23, <1>24 DEF Next, Calculation, Reset,
       RejectSplit

\* DateInv is an invariant.
LEMMA DateInvariant == ASSUME OwnPurchaseCodes, ~Concurrent PROVE Spec => []DateInv
  <1>1. Init => DateInv
    BY DEF Init, DateInv, NoSaleEntry, InProcess
  <1>2. TypeInv /\ CostedInv => EverySaleCosted
    BY CostedToTheEnd DEF CostedInv
  <1>3. QED
    BY <1>1, <1>2, TypeInvariant, SafetyInvariant, LooseInvariant, CostedInvariant, DateStep,
       PTL DEF Spec

\* When every purchase has its own code and the event bot does not record during a
\* run, then, as long as no run has died, an account that is not flagged has no
\* uncosted sale on or before its calculation date. This holds whether or not an
\* update of the account keeps the properties that are not sent: one that loses
\* the flag loses the date with it.
THEOREM BackdatedSalesFlagged ==
    ASSUME OwnPurchaseCodes, ~Concurrent
    PROVE  Spec => [](crashes = 0 => BackdatedSaleFlagged)
  <1>1. DateInv => (crashes = 0 => BackdatedSaleFlagged)
    BY DEF DateInv, BackdatedSaleFlagged
  <1>2. QED
    BY <1>1, DateInvariant, PTL
------------------------------------------------------------------------------
(* First in, first out *)

\* compareToFIFO tells any two purchases of one day apart.
NoTies ==
    \A p, r \in Purchases :
        /\ OrderOf[p] = OrderOf[r]
        /\ getMilliseconds(CreatedAt[p]) = getMilliseconds(CreatedAt[r])
        => p = r

\* The run draws on r before p.
Before(r, p) == compareToFIFO(PurchaseKey(r), PurchaseKey(p)) < 0

\* What the credit notes of the run return of p, and what is left of p then.
Returned(p) == {n \in plan.notes : NoteCode[n] = CodeOf[p]}
StockOf == [p \in Purchases |-> buy[p].amount - SumOf(NoteQuantities, Returned(p))]

\* What the sales of the run have taken from each purchase.
Drawn == [p \in Purchases |->
            StockOf[p] - (IF local[p].checked THEN 0 ELSE local[p].amount)]

\* What of the sale at hand has been costed.
Costing == IF pc = "purchases" THEN sell[current.sale].quantity - current.sold ELSE 0

\* The run has drawn what it has costed, and on no purchase before the ones that
\* compareToFIFO places before it were used up.
FifoInv ==
    Calculating /\ NoLooseSplits =>
        /\ queue.notes \cap plan.notes = {}
        /\ \A p \in queue.buys : local[p].amount <= StockOf[p]
        /\ pc = "credits" => \A p \in queue.buys :
              ~local[p].checked /\ local[p].amount = StockOf[p]
        /\ \A p, r \in queue.buys : Drawn[p] > 0 /\ Before(r, p) => local[r].checked
        /\ SumOf(Drawn, queue.buys) = SumOf(SaleQuantities, plan.cogs) + Costing

\* The types of what FifoInv speaks of.
LEMMA FifoTypes ==
    ASSUME TypeInv
    PROVE  /\ \A p \in Purchases : /\ IsFiniteSet(Returned(p)) /\ Returned(p) \subseteq CreditNotes
                                   /\ SumOf(NoteQuantities, Returned(p)) \in Int
                                   /\ buy[p].amount \in Nat /\ local[p].amount \in Nat
           /\ \A p \in Purchases : StockOf[p] = buy[p].amount - SumOf(NoteQuantities, Returned(p))
           /\ \A p \in Purchases : StockOf[p] \in Int
           /\ \A p \in Purchases :
                 Drawn[p] = StockOf[p] - (IF local[p].checked THEN 0 ELSE local[p].amount)
           /\ \A p \in Purchases : Drawn[p] \in Int
           /\ queue.buys \subseteq Purchases /\ IsFiniteSet(queue.buys)
           /\ plan.cogs \subseteq Sales /\ IsFiniteSet(plan.cogs)
           /\ SumOf(Drawn, queue.buys) \in Int /\ SumOf(SaleQuantities, plan.cogs) \in Int
           /\ \A s \in Sales : SaleQuantities[s] = sell[s].quantity /\ SaleQuantities[s] \in Int
  <1>1. /\ queue.buys \subseteq Purchases /\ plan.cogs \subseteq Sales
        /\ plan.notes \subseteq CreditNotes
    BY Types
  <1>2. IsFiniteSet(queue.buys) /\ IsFiniteSet(plan.cogs) /\ IsFiniteSet(plan.notes)
    BY <1>1, FS_Subset, FiniteAssumption
  <1>3. ASSUME NEW p \in Purchases
        PROVE  /\ IsFiniteSet(Returned(p)) /\ Returned(p) \subseteq CreditNotes
               /\ SumOf(NoteQuantities, Returned(p)) \in Int
    <2>1. Returned(p) \subseteq plan.notes
      BY DEF Returned
    <2>2. IsFiniteSet(Returned(p))
      BY <1>2, <2>1, FS_Subset
    <2>3. \A n \in Returned(p) : NoteQuantities[n] \in Int
      BY <1>1, <2>1, SupplyTypes
    <2>4. QED
      BY <1>1, <2>1, <2>2, <2>3, SumType
  <1>4. \A p \in Purchases : buy[p].amount \in Nat /\ local[p].amount \in Nat
    BY Types DEF PurchaseRecords
  <1>5. \A p \in Purchases : StockOf[p] = buy[p].amount - SumOf(NoteQuantities, Returned(p))
    BY DEF StockOf
  <1>6. \A p \in Purchases : StockOf[p] \in Int
    BY <1>3, <1>4, <1>5
  <1>7. \A p \in Purchases :
           Drawn[p] = StockOf[p] - (IF local[p].checked THEN 0 ELSE local[p].amount)
    BY DEF Drawn
  <1>8. \A p \in Purchases : Drawn[p] \in Int
    BY <1>4, <1>6, <1>7
  <1>9. \A s \in Sales : SaleQuantities[s] = sell[s].quantity /\ SaleQuantities[s] \in Int
    BY SupplyTypes
  <1>10. SumOf(Drawn, queue.buys) \in Int /\ SumOf(SaleQuantities, plan.cogs) \in Int
    BY <1>1, <1>2, <1>8, <1>9, SumType
  <1>11. QED
    BY <1>1, <1>2, <1>3, <1>4, <1>5, <1>6, <1>7, <1>8, <1>9, <1>10

\* The keys of purchases can be compared: one of two goes first.
LEMMA BeforeFacts ==
    ASSUME NoTies, TypeInv, queue.splits = {}, NEW p \in Purchases, NEW r \in Purchases
    PROVE  /\ ~(Before(p, r) /\ Before(r, p))
           /\ p # r => Before(p, r) \/ Before(r, p)
           /\ ~Before(p, p)
           /\ Before(r, p) => ~(compareToFIFO(PurchaseKey(p), PurchaseKey(r)) <= 0)
  <1>1. /\ buy[p].date \in Int /\ buy[r].date \in Int
        /\ OrderOf[p] \in Int /\ OrderOf[r] \in Int
        /\ CreatedAt[p] \in Nat /\ CreatedAt[r] \in Nat
    <2>1. buy[p] \in PurchaseRecords /\ buy[r] \in PurchaseRecords
      BY Types
    <2>2. buy[p].date \in Int /\ buy[r].date \in Int
      BY <2>1 DEF PurchaseRecords
    <2>3. QED
      BY <2>2, NameAssumption
  <1>2. getMilliseconds(CreatedAt[p]) \in Int /\ getMilliseconds(CreatedAt[r]) \in Int
    BY <1>1 DEF getMilliseconds
  <1>3. QED
    BY <1>1, <1>2 DEF Before, PurchaseKey, compareToFIFO, NoTies

\* What a step of the run that leaves its inputs alone has to respect.
LEMMA FifoDraw ==
    ASSUME NoTies, TypeInv, FifoInv, NoLooseSplits, queue.splits = {},
           pc = "purchases", pc' = "purchases",
           UNCHANGED <<books, queue>>, plan'.notes = plan.notes, plan'.cogs = plan.cogs,
           NEW p \in OldestPurchases(Available), NEW taken \in Int,
           current'.sale = current.sale, current'.sold = current.sold - taken,
           \A r \in Purchases : r # p => local'[r] = local[r],
           \/ local'[p].checked /\ local'[p].amount = local[p].amount /\ taken = local[p].amount
           \/ /\ ~local'[p].checked /\ local'[p].amount = local[p].amount - taken
              /\ taken >= 0
    PROVE  FifoInv'
  <1>t. /\ p \in Purchases /\ p \in queue.buys /\ ~local[p].checked
        /\ queue.buys \subseteq Purchases /\ current.sold \in Nat
        /\ plan.notes \subseteq CreditNotes
    BY Types DEF OldestPurchases, Available
  <1>i. /\ queue.notes \cap plan.notes = {}
        /\ \A r \in queue.buys : local[r].amount <= StockOf[r]
        /\ \A r, q \in queue.buys : Drawn[r] > 0 /\ Before(q, r) => local[q].checked
        /\ SumOf(Drawn, queue.buys) = SumOf(SaleQuantities, plan.cogs) + Costing
    BY DEF FifoInv, Calculating
  <1>1. StockOf' = StockOf /\ SaleQuantities' = SaleQuantities
    BY DEF StockOf, Returned, NoteQuantities, SaleQuantities, books
  <1>2. \A q, r : Before(q, r)' <=> Before(q, r)
    BY DEF Before, PurchaseKey, books
  <1>3. /\ \A r \in Purchases : StockOf[r] \in Int /\ Drawn[r] \in Int /\ local[r].amount \in Nat
        /\ \A r \in Purchases :
              Drawn[r] = StockOf[r] - (IF local[r].checked THEN 0 ELSE local[r].amount)
        /\ IsFiniteSet(queue.buys)
        /\ SumOf(Drawn, queue.buys) \in Int /\ SumOf(SaleQuantities, plan.cogs) \in Int
    BY FifoTypes
  <1>4. \A r \in Purchases :
           Drawn'[r] = StockOf[r] - (IF local'[r].checked THEN 0 ELSE local'[r].amount)
    BY <1>1 DEF Drawn
  <1>5. \A r \in queue.buys : /\ Drawn[r] \in Int
                              /\ Drawn'[r] = IF r = p THEN Drawn[r] + taken ELSE Drawn[r]
    BY <1>t, <1>3, <1>4
  <1>6. SumOf(Drawn', queue.buys) = SumOf(Drawn, queue.buys) + taken
    BY <1>t, <1>3, <1>5, SumChange
  <1>7. \A r \in queue.buys : local'[r].amount <= StockOf[r]
    BY <1>t, <1>i, <1>3
  <1>8. ASSUME NEW r \in queue.buys, NEW q \in queue.buys, Drawn'[r] > 0, Before(q, r)
        PROVE  local'[q].checked
    <2>1. CASE r = p
      <3>1. q # p
        BY <1>t, <1>8, <2>1, BeforeFacts
      <3>2. ~(compareToFIFO(PurchaseKey(p), PurchaseKey(q)) <= 0)
        BY <1>t, <1>8, <2>1, BeforeFacts
      <3>3. q \notin Available
        BY <3>2 DEF OldestPurchases
      <3>4. QED
        BY <1>t, <3>1, <3>3 DEF Available
    <2>2. CASE r # p
      <3>1. local[q].checked
        BY <1>i, <1>5, <1>8, <2>2
      <3>2. QED
        BY <1>t, <3>1
    <2>3. QED
      BY <2>1, <2>2
  <1>9. /\ Costing = sell[current.sale].quantity - current.sold
        /\ Costing' = sell[current.sale].quantity - (current.sold - taken)
        /\ sell[current.sale].quantity \in Int
    <2>1. current.sale \in Sales
      BY DEF TypeInv
    <2>2. sell[current.sale].quantity \in Int
      BY <2>1, SupplyTypes
    <2>3. QED
      BY <2>2 DEF Costing, books
  <1>10. SumOf(Drawn', queue.buys) = SumOf(SaleQuantities', plan'.cogs) + Costing'
    BY <1>t, <1>i, <1>1, <1>3, <1>6, <1>9
  <1>11. QED
    BY <1>i, <1>1, <1>2, <1>7, <1>8, <1>10 DEF FifoInv, Calculating

\* A credit note takes what it returns from the stock of its purchase, and from no
\* other.
LEMMA FifoReturn ==
    ASSUME OwnPurchaseCodes, TypeInv, FifoInv, NoLooseSplits, pc = "credits", NEW n \in queue.notes,
           NEW p \in queue.buys, CodeOf[p] = NoteCode[n], UNCHANGED books,
           plan'.notes = plan.notes \cup {n}
    PROVE  /\ StockOf'[p] = StockOf[p] - note[n].quantity
           /\ \A r \in queue.buys : r # p => StockOf'[r] = StockOf[r]
  <1>t. /\ queue.buys \subseteq Purchases /\ plan.notes \subseteq CreditNotes
        /\ queue.notes \subseteq CreditNotes
    BY Types
  <1>1. n \notin plan.notes
    BY DEF FifoInv, Calculating
  <1>2. NoteQuantities' = NoteQuantities /\ buy' = buy
    BY DEF NoteQuantities, books
  <1>3. Returned(p)' = Returned(p) \cup {n} /\ n \notin Returned(p)
    BY <1>1 DEF Returned
  <1>4. ASSUME NEW r \in queue.buys, r # p PROVE Returned(r)' = Returned(r)
    BY <1>t, <1>4 DEF Returned, OwnPurchaseCodes
  <1>5. \A r \in Purchases : StockOf'[r] = buy[r].amount - SumOf(NoteQuantities, Returned(r)')
    BY <1>2 DEF StockOf
  <1>6. SumOf(NoteQuantities, Returned(p) \cup {n})
          = note[n].quantity + SumOf(NoteQuantities, Returned(p))
    <2> DEFINE R == Returned(p) \cup {n}
    <2>1. IsFiniteSet(R)
      BY <1>t, FifoTypes, FS_AddElement
    <2>2. \A m \in R : NoteQuantities[m] \in Int
      BY <1>t, SupplyTypes DEF Returned
    <2>3. n \in R /\ R \ {n} = Returned(p) /\ NoteQuantities[n] = note[n].quantity
      BY <1>t, <1>3, SupplyTypes
    <2> HIDE DEF R
    <2>4. SumOf(NoteQuantities, R) = NoteQuantities[n] + SumOf(NoteQuantities, R \ {n})
      BY <2>1, <2>2, <2>3, SumRemove
    <2>5. QED
      BY <2>3, <2>4 DEF R
  <1>7. note[n].quantity \in Int
    BY <1>t, SupplyTypes
  <1>8. StockOf'[p] = StockOf[p] - note[n].quantity
    <2>1. /\ p \in Purchases /\ buy[p].amount \in Int
          /\ SumOf(NoteQuantities, Returned(p)) \in Int
          /\ StockOf[p] = buy[p].amount - SumOf(NoteQuantities, Returned(p))
      BY <1>t, FifoTypes
    <2>2. StockOf'[p] = buy[p].amount
                          - (note[n].quantity + SumOf(NoteQuantities, Returned(p)))
      BY <1>3, <1>5, <1>6, <2>1
    <2>3. QED
      BY <1>7, <2>1, <2>2
  <1>9. ASSUME NEW r \in queue.buys, r # p PROVE StockOf'[r] = StockOf[r]
    BY <1>t, <1>4, <1>5, <1>9, FifoTypes
  <1>10. QED
    BY <1>8, <1>9

\* Every step of a run draws on the purchases in FIFO order.
LEMMA FifoStep ==
    ASSUME OwnPurchaseCodes, NoTies, TypeInv, TypeInv', SplitsInv, SafetyInv, CostedInv,
           EverySaleCosted, FifoInv, [Next]_vars
    PROVE  FifoInv'
  <1> SUFFICES ASSUME Calculating', NoLooseSplits' PROVE FifoInv'
    BY DEF FifoInv
  <1>l. NoLooseSplits
    BY LooseKept
  <1>n. Calculating => queue.splits = {}
    BY <1>l, NoneListed
  <1>t. /\ queue.buys \subseteq Purchases /\ plan.notes \subseteq CreditNotes
        /\ plan.cogs \subseteq Sales /\ queue.notes \subseteq CreditNotes
        /\ queue.sales \subseteq Sales /\ current.sold \in Nat
    BY Types
  <1>f. /\ IsFiniteSet(queue.buys) /\ IsFiniteSet(plan.cogs)
        /\ \A p \in Purchases : StockOf[p] \in Int /\ Drawn[p] \in Int /\ local[p].amount \in Nat
        /\ \A p \in Purchases :
              Drawn[p] = StockOf[p] - (IF local[p].checked THEN 0 ELSE local[p].amount)
        /\ \A s \in Sales : SaleQuantities[s] = sell[s].quantity /\ SaleQuantities[s] \in Int
        /\ SumOf(Drawn, queue.buys) \in Int /\ SumOf(SaleQuantities, plan.cogs) \in Int
    BY FifoTypes
  <1>p. \A p \in Purchases :
           Drawn'[p] = StockOf'[p] - (IF local'[p].checked THEN 0 ELSE local'[p].amount)
    BY DEF Drawn
  <1>i. Calculating =>
          /\ queue.notes \cap plan.notes = {}
          /\ \A p \in queue.buys : local[p].amount <= StockOf[p]
          /\ pc = "credits" => \A p \in queue.buys :
                ~local[p].checked /\ local[p].amount = StockOf[p]
          /\ \A p, r \in queue.buys : Drawn[p] > 0 /\ Before(r, p) => local[r].checked
          /\ SumOf(Drawn, queue.buys) = SumOf(SaleQuantities, plan.cogs) + Costing
    BY <1>l DEF FifoInv
  <1>s. ASSUME UNCHANGED <<books, local>>, Calculating, pc' # "credits",
               queue'.buys = queue.buys, queue'.splits = queue.splits,
               queue'.notes = queue.notes, plan'.notes = plan.notes,
               SumOf(SaleQuantities, plan'.cogs) + Costing'
                 = SumOf(SaleQuantities, plan.cogs) + Costing
        PROVE  FifoInv'
    <2>1. /\ StockOf' = StockOf /\ SaleQuantities' = SaleQuantities
          /\ \A q, r : Before(q, r)' <=> Before(q, r)
      BY <1>s DEF StockOf, Returned, NoteQuantities, SaleQuantities, Before, PurchaseKey, books
    <2>2. Drawn' = Drawn
      BY <1>s, <2>1 DEF Drawn
    <2>3. QED
      BY <1>s, <1>i, <2>1, <2>2 DEF FifoInv
  <1>1. CASE UNCHANGED vars
    <2>1. UNCHANGED <<books, pc, local, queue, current, plan>>
      BY <1>1 DEF vars, run
    <2>2. /\ StockOf' = StockOf /\ SaleQuantities' = SaleQuantities /\ Costing' = Costing
          /\ \A q, r : Before(q, r)' <=> Before(q, r)
      BY <2>1 DEF StockOf, Returned, NoteQuantities, SaleQuantities, Before, PurchaseKey,
                  Costing, books
    <2>3. Drawn' = Drawn
      BY <2>1, <2>2 DEF Drawn
    <2>4. QED
      BY <1>i, <2>1, <2>2, <2>3 DEF FifoInv, Calculating
  <1>2. CASE Handlers
    <2>1. UNCHANGED <<pc, local, queue, current, plan>>
      BY <1>2, HandlerEffect
    <2>2. Calculating
      BY <2>1 DEF Calculating
    <2>3. \A p \in queue.buys : buy'[p] = buy[p]
      BY <1>2, <1>t, HandlerEffect DEF SafetyInv, MemoryInv
    <2>4. \A n \in plan.notes : NoteQuantities'[n] = NoteQuantities[n] /\ NoteQuantities[n] \in Int
      <3>1. \A n \in plan.notes : note'[n] = note[n]
        BY <1>2, <1>t, HandlerEffect DEF SafetyInv, MemoryInv
      <3>2. \A n \in CreditNotes : NoteQuantities'[n] = note'[n].quantity
        BY DEF NoteQuantities
      <3>3. QED
        BY <1>t, <3>1, <3>2, SupplyTypes
    <2>5. \A s \in Sales : s \in plan.cogs \cup {current.sale} => sell'[s] = sell[s]
      <3>1. plan.cogs = plan.sells
        BY <1>l, <2>2 DEF CostedInv, PlaceInv, InProcess, Calculating
      <3>2. QED
        BY <1>2, <3>1, HandlerEffect DEF SafetyInv, MemoryInv
    <2>6. ASSUME NEW p \in queue.buys PROVE StockOf'[p] = StockOf[p]
      <3>1. Returned(p)' = Returned(p)
        BY <2>1 DEF Returned
      <3>2. \A n \in Returned(p) : NoteQuantities[n] \in Int /\ NoteQuantities'[n] = NoteQuantities[n]
        BY <2>4 DEF Returned
      <3>3. SumOf(NoteQuantities', Returned(p)) = SumOf(NoteQuantities, Returned(p))
        BY <1>t, <3>2, FifoTypes, SumEqual
      <3>4. StockOf'[p] = buy'[p].amount - SumOf(NoteQuantities', Returned(p)')
        BY <1>t DEF StockOf
      <3>5. QED
        BY <1>t, <2>3, <3>1, <3>3, <3>4, FifoTypes
    <2>7. \A p \in queue.buys : Drawn[p] \in Int /\ Drawn'[p] = Drawn[p]
      BY <1>t, <1>f, <1>p, <2>1, <2>6
    <2>8. SumOf(Drawn', queue.buys) = SumOf(Drawn, queue.buys)
      BY <1>f, <2>7, SumEqual
    <2>9. SumOf(SaleQuantities', plan.cogs) = SumOf(SaleQuantities, plan.cogs)
      <3>1. \A s \in Sales : SaleQuantities'[s] = sell'[s].quantity
        BY DEF SaleQuantities
      <3>2. \A s \in plan.cogs : SaleQuantities[s] \in Int /\ SaleQuantities'[s] = SaleQuantities[s]
        BY <1>t, <1>f, <2>5, <3>1
      <3>3. QED
        BY <1>f, <3>2, SumEqual
    <2>10. Costing' = Costing
      BY <2>1, <2>5 DEF Costing, TypeInv
    <2>11. \A q, r \in queue.buys : Before(q, r)' <=> Before(q, r)
      BY <2>1, <2>3 DEF Before, PurchaseKey
    <2>12. QED
      BY <1>i, <2>1, <2>2, <2>6, <2>7, <2>8, <2>9, <2>10, <2>11 DEF FifoInv
  <1>3. ASSUME NEW d \in Dates, ListTransactions(d), ~Finish
        PROVE  FifoInv'
    <2>1. /\ pc = "list" /\ pc' = "credits" /\ UNCHANGED <<books, current, plan>> /\ local' = buy
          /\ queue'.buys \subseteq Unchecked(buy, d)
      BY <1>3, <1>l, ListEffect DEF OnePerKey
    <2>2. plan.notes = {} /\ plan.cogs = {}
      BY <2>1 DEF SafetyInv, MemoryInv, EmptyPlan
    <2>3. \A p \in queue'.buys : p \in Purchases /\ ~local'[p].checked
      BY <2>1, Types DEF Unchecked
    <2>4. \A p \in Purchases : StockOf'[p] = buy[p].amount
      <3>1. \A p \in Purchases : Returned(p)' = {}
        BY <2>1, <2>2 DEF Returned
      <3>2. \A p \in Purchases : StockOf'[p] = buy'[p].amount - SumOf(NoteQuantities', Returned(p)')
        BY DEF StockOf
      <3>3. SumOf(NoteQuantities', {}) = 0
        BY SumEmpty
      <3>4. QED
        <4>1. buy' = buy /\ \A p \in Purchases : buy[p].amount \in Int
          BY <2>1, FifoTypes DEF books
        <4>2. QED
          BY <3>1, <3>2, <3>3, <4>1
    <2>5. \A p \in queue'.buys : Drawn'[p] = 0 /\ local'[p].amount = StockOf'[p]
                                  /\ local'[p].amount <= StockOf'[p]
      BY <1>p, <2>1, <2>3, <2>4, FifoTypes
    <2>6. SumOf(Drawn', queue'.buys) = 0
      <3>1. IsFiniteSet(queue'.buys)
        BY <2>3, FS_Subset, FiniteAssumption
      <3>2. QED
        BY <2>5, <3>1, SumZero
    <2>7. SumOf(SaleQuantities', plan'.cogs) = 0 /\ Costing' = 0
      BY <2>1, <2>2, SumEmpty DEF Costing
    <2>8. QED
      BY <2>1, <2>2, <2>3, <2>5, <2>6, <2>7 DEF FifoInv
  <1>4. ASSUME NEW n \in CreditNotes, ProcessCreditNote(n), ~Finish
        PROVE  FifoInv'
    <2>1. /\ pc = "credits" /\ pc' = "credits" /\ n \in queue.notes /\ UNCHANGED <<books, current>>
          /\ queue'.notes = queue.notes \ {n} /\ queue'.buys = queue.buys
          /\ plan'.cogs = plan.cogs
      BY <1>4, CreditNoteEffect
    <2>2. \A p \in queue.buys : ~local[p].checked /\ local[p].amount = StockOf[p]
      BY <1>i, <2>1 DEF Calculating
    <2>3. /\ queue'.notes \cap plan'.notes = {}
          /\ \A p \in queue.buys : ~local'[p].checked /\ local'[p].amount = StockOf'[p]
                                    /\ local'[p].amount \in Nat
      <3>1. CASE UNCHANGED <<local, plan>>
        <4>1. StockOf' = StockOf
          BY <2>1, <3>1 DEF StockOf, Returned, NoteQuantities, books
        <4>2. QED
          BY <1>i, <1>t, <1>f, <2>1, <2>2, <3>1, <4>1 DEF Calculating
      <3>2. ASSUME NEW p \in queue.buys, CodeOf[p] = NoteCode[n],
                   local'[p].amount = local[p].amount - note[n].quantity,
                   local'[p].checked = local[p].checked,
                   plan'.notes = plan.notes \cup {n},
                   \A r \in Purchases : r # p => local'[r] = local[r]
            PROVE  /\ queue'.notes \cap plan'.notes = {}
                   /\ \A r \in queue.buys : ~local'[r].checked /\ local'[r].amount = StockOf'[r]
                                             /\ local'[r].amount \in Nat
        <4>1. /\ StockOf'[p] = StockOf[p] - note[n].quantity
              /\ \A r \in queue.buys : r # p => StockOf'[r] = StockOf[r]
          BY <1>l, <2>1, <3>2, FifoReturn
        <4>2. \A r \in Purchases : local'[r].amount \in Nat
          BY DEF TypeInv, TypeOK, PurchaseRecords
        <4>3. queue'.notes \cap plan'.notes = {}
          BY <1>i, <2>1, <3>2 DEF Calculating
        <4>4. QED
          BY <1>t, <2>2, <3>2, <4>1, <4>2, <4>3
      <3>3. QED
        BY <1>4, <3>1, <3>2, CreditNoteEffect
    <2>4. \A p \in queue.buys : Drawn'[p] = 0 /\ local'[p].amount <= StockOf'[p]
      BY <1>t, <1>p, <2>3
    <2>5. SumOf(Drawn', queue.buys) = 0
      BY <1>f, <2>4, SumZero
    <2>6. SumOf(Drawn, queue.buys) = 0
      <3>1. \A p \in queue.buys : Drawn[p] = 0
        BY <1>t, <1>f, <2>2
      <3>2. QED
        BY <1>f, <3>1, SumZero
    <2>7. SaleQuantities' = SaleQuantities /\ Costing' = Costing
      BY <2>1 DEF SaleQuantities, Costing, books
    <2>8. SumOf(Drawn', queue'.buys) = SumOf(SaleQuantities', plan'.cogs) + Costing'
      BY <1>i, <2>1, <2>5, <2>6, <2>7 DEF Calculating
    <2>9. QED
      BY <2>1, <2>3, <2>4, <2>8 DEF FifoInv
  <1>5. CASE CreditNotesDone \/ SalesDone
    BY <1>s, <1>5 DEF CreditNotesDone, SalesDone, fireBatchOperations, books, run, Calculating,
          Costing
  <1>6. ASSUME NEW s \in Sales, NextSale(s)
        PROVE  FifoInv'
    <2>1. /\ UNCHANGED <<books, local, plan>> /\ pc = "sales" /\ pc' = "purchases"
          /\ current'.sale = s /\ current'.sold = sell[s].quantity
      BY <1>6 DEF NextSale
    <2>2. queue'.buys = queue.buys /\ queue'.notes = queue.notes /\ queue'.splits = queue.splits
      BY <1>6 DEF NextSale, TypeInv, TypeOK, Queues
    <2>3. Costing = 0 /\ Costing' = 0
      BY <1>f, <2>1 DEF Costing, books
    <2>4. QED
      BY <1>s, <2>1, <2>2, <2>3 DEF Calculating
  <1>7. ASSUME NEW p \in Purchases, LiquidatePurchase(p)
        PROVE  FifoInv'
    <2>1. local[p].amount \in Int
      BY <1>f
    <2>2. QED
      BY <1>7, <1>l, <1>n, <2>1, LiquidateEffect, FifoDraw DEF Calculating
  <1>8. ASSUME NEW p \in Purchases, SplitPurchase(p)
        PROVE  FifoInv'
    <2>1. /\ current.sold \in Int /\ current.sold >= 0
          /\ current'.sold = current.sold - current.sold
      BY <1>t, <1>8, SplitEffect
    <2>2. ~local'[p].checked
      BY <1>8, SplitEffect DEF Available
    <2>3. QED
      BY <1>8, <1>l, <1>n, <2>1, <2>2, SplitEffect, FifoDraw DEF Calculating
  <1>9. CASE FinishSale /\ ~Finish
    <2> DEFINE s == current.sale
    <2>1. /\ pc = "purchases" /\ pc' = "sales" /\ UNCHANGED <<books, local, queue>>
          /\ current.sold = 0 /\ plan'.notes = plan.notes
          /\ plan'.cogs = plan.cogs \cup {s}
      BY <1>9, <1>l, FinishSaleEffect DEF EverySaleCosted
    <2>2. s \in Sales /\ s \notin plan.cogs
      BY <2>1 DEF TypeInv, CostedInv, PlaceInv, InProcess
    <2>3. Costing = SaleQuantities[s] /\ Costing' = 0 /\ SaleQuantities[s] \in Int
      BY <1>f, <2>1, <2>2 DEF Costing
    <2> HIDE DEF s
    <2>4. SumOf(SaleQuantities, plan'.cogs) = SaleQuantities[s] + SumOf(SaleQuantities, plan.cogs)
      <3>1. /\ IsFiniteSet(plan'.cogs) /\ \A x \in plan'.cogs : SaleQuantities[x] \in Int
            /\ s \in plan'.cogs /\ plan'.cogs \ {s} = plan.cogs
        BY <1>t, <1>f, <2>1, <2>2, FS_AddElement
      <3>2. SumOf(SaleQuantities, plan'.cogs)
              = SaleQuantities[s] + SumOf(SaleQuantities, plan'.cogs \ {s})
        BY <3>1, SumRemove
      <3>3. QED
        BY <3>1, <3>2
    <2>5. SumOf(SaleQuantities, plan'.cogs) + Costing'
            = SumOf(SaleQuantities, plan.cogs) + Costing
      BY <1>f, <2>3, <2>4
    <2>6. QED
      BY <1>s, <2>1, <2>5 DEF Calculating
  <1>10. QED
    <2>1. CASE InProcess'
      BY <2>1, <1>1, <1>2, <1>3, <1>4, <1>5, <1>6, <1>7, <1>8, <1>9, ProcessSteps
    <2>2. CASE pc' = "createInventory"
      BY <2>2, <1>1, <1>2, <1>5, CreateInventorySteps
    <2>3. QED
      BY <2>1, <2>2 DEF Calculating, InProcess

\* FifoInv is an invariant.
LEMMA FifoInvariant == ASSUME OwnPurchaseCodes, NoTies PROVE Spec => []FifoInv
  <1>1. Init => FifoInv
    BY DEF Init, FifoInv, Calculating
  <1>2. TypeInv /\ CostedInv => EverySaleCosted
    BY CostedToTheEnd DEF CostedInv
  <1>3. QED
    BY <1>1, <1>2, TypeInvariant, SafetyInvariant, CostedInvariant, FifoStep, PTL DEF Spec

\* What Max and Min of two numbers are.
LEMMA MinMax ==
    ASSUME NEW a \in Int, NEW b \in Int
    PROVE  /\ Max({a, b}) = IF a >= b THEN a ELSE b
           /\ Min({a, b}) = IF a <= b THEN a ELSE b
  BY DEF Max, Min

\* The stock of a purchase as the property computes it.
LEMMA StockIsStockOf ==
    ASSUME TypeInv, NEW p \in Purchases
    PROVE  Stock(p) = StockOf[p]
  <1> DEFINE R == {n \in plan.notes : NoteCode[n] = CodeOf[p]}
  <1>1. R = Returned(p) /\ IsFiniteSet(R) /\ R \subseteq CreditNotes
    BY FifoTypes DEF Returned
  <1>2. Stock(p) = buy[p].amount - MapThenSumSet(LAMBDA n : note[n].quantity, R)
    BY DEF Stock
  <1> HIDE DEF R
  <1>3. MapThenSumSet(LAMBDA n : note[n].quantity, R) = Iter([n \in R |-> note[n].quantity], R)[R]
    BY Zenon DEF MapThenSumSet, MapThenFoldSet, Iter, IsIter, First
  <1>4. \A n \in R : /\ NoteQuantities[n] \in Int
                     /\ [m \in R |-> note[m].quantity][n] = NoteQuantities[n]
    BY <1>1, SupplyTypes
  <1>5. SumOf([n \in R |-> note[n].quantity], R) = SumOf(NoteQuantities, R)
    BY <1>1, <1>4, SumEqual
  <1>6. SumOf([n \in R |-> note[n].quantity], R) = Iter([n \in R |-> note[n].quantity], R)[R]
    BY SumIsIter
  <1>7. MapThenSumSet(LAMBDA n : note[n].quantity, R) = SumOf(NoteQuantities, Returned(p))
    BY <1>3, <1>1, <1>5, <1>6
  <1>8. QED
    BY <1>2, <1>7 DEF StockOf

\* In a set of purchases that has been drawn upon in FIFO order, what a purchase
\* supplies is the part of the demand that the ones before it could not.
LEMMA FifoClosedForm ==
    ASSUME NoTies, TypeInv, queue.splits = {}, NEW Q \in SUBSET Purchases, NEW p \in Q,
           \A r \in Q : local[r].amount > 0 /\ local[r].amount <= StockOf[r],
           \A q, r \in Q : Drawn[q] > 0 /\ Before(r, q) => local[r].checked
    PROVE  LET older == {r \in Q : Before(r, p)}
               short == SumOf(Drawn, Q) - SumOf(StockOf, older)
           IN  Drawn[p] = Min({StockOf[p], Max({0, short})})
  <1> DEFINE O == {r \in Q : Before(r, p)}
             Y == {r \in Q : Before(p, r)}
  <1>t. /\ \A r \in Q : r \in Purchases
        /\ \A r \in Purchases : /\ StockOf[r] \in Int /\ Drawn[r] \in Int
                                /\ local[r].amount \in Nat
        /\ \A r \in Purchases :
              Drawn[r] = StockOf[r] - (IF local[r].checked THEN 0 ELSE local[r].amount)
    BY FifoTypes
  <1>1. /\ Q = (O \cup Y) \cup {p} /\ (O \cup Y) \cap {p} = {} /\ O \cap Y = {}
        /\ p \notin O \cup Y
    BY <1>t, BeforeFacts
  <1>2. IsFiniteSet(Q) /\ IsFiniteSet(O) /\ IsFiniteSet(Y) /\ IsFiniteSet(O \cup Y)
    <2>1. IsFiniteSet(Q)
      BY FiniteAssumption, FS_Subset
    <2>2. O \subseteq Q /\ Y \subseteq Q /\ O \cup Y \subseteq Q
      OBVIOUS
    <2>3. QED
      BY <2>1, <2>2, FS_Subset
  <1>3. ASSUME NEW r \in Q
        PROVE  /\ 0 <= Drawn[r] /\ Drawn[r] <= StockOf[r] /\ StockOf[r] > 0
               /\ local[r].checked <=> Drawn[r] = StockOf[r]
    BY <1>t
  <1>4. SumOf(Drawn, Q) = Drawn[p] + SumOf(Drawn, O) + SumOf(Drawn, Y)
    <2>1. SumOf(Drawn, Q) = Drawn[p] + SumOf(Drawn, Q \ {p})
      BY <1>t, <1>2, SumRemove
    <2>2. Q \ {p} = O \cup Y
      BY <1>1
    <2> DEFINE R == O \cup Y
    <2>r. SumOf(Drawn, Q) = Drawn[p] + SumOf(Drawn, R)
      BY <2>1, <2>2
    <2>3. SumOf(Drawn, R) = SumOf(Drawn, O) + SumOf(Drawn, Y)
      BY <1>t, <1>1, <1>2, SumUnion
    <2>4. SumOf(Drawn, O) \in Int /\ SumOf(Drawn, Y) \in Int
      BY <1>t, <1>1, <1>2, SumType
    <2>5. Drawn[p] \in Int
      BY <1>t
    <2> HIDE DEF O, Y, R
    <2>6. QED
      BY <2>r, <2>3, <2>4, <2>5
  <1>5. /\ SumOf(Drawn, O) \in Int /\ SumOf(Drawn, Y) \in Int /\ SumOf(StockOf, O) \in Int
        /\ SumOf(Drawn, O) <= SumOf(StockOf, O) /\ 0 <= SumOf(Drawn, Y)
    <2>1. \A r \in O : Drawn[r] \in Int /\ StockOf[r] \in Int /\ Drawn[r] <= StockOf[r]
      BY <1>t, <1>3
    <2>2. \A r \in Y : Drawn[r] \in Nat
      BY <1>t, <1>3
    <2> HIDE DEF O, Y
    <2>3. 0 <= SumOf(Drawn, Y)
      BY <1>2, <2>2, SumSubset
    <2>4. SumOf(Drawn, Y) \in Int
      BY <1>2, <2>2, SumType
    <2>5. SumOf(Drawn, O) \in Int /\ SumOf(StockOf, O) \in Int
      BY <1>2, <2>1, SumType
    <2>6. SumOf(Drawn, O) <= SumOf(StockOf, O)
      BY <1>2, <2>1, SumLeq
    <2>7. QED
      BY <2>3, <2>4, <2>5, <2>6
  <1>6. Drawn[p] > 0 => SumOf(Drawn, O) = SumOf(StockOf, O)
    <2>1. ASSUME Drawn[p] > 0 PROVE \A r \in O : Drawn[r] \in Int /\ StockOf[r] = Drawn[r]
      BY <1>t, <1>3, <2>1
    <2> HIDE DEF O, Y
    <2>2. QED
      BY <1>2, <2>1, SumEqual
  <1>7. Drawn[p] < StockOf[p] => SumOf(Drawn, Y) = 0
    <2>1. ASSUME Drawn[p] < StockOf[p] PROVE \A r \in Y : Drawn[r] = 0
      <3>1. ~local[p].checked
        BY <1>t, <1>3, <2>1
      <3>2. \A r \in Y : ~(Drawn[r] > 0)
        BY <3>1
      <3>3. QED
        BY <1>t, <1>3, <3>2
    <2> HIDE DEF O, Y
    <2>2. QED
      BY <1>2, <2>1, SumZero
  <1> DEFINE short == SumOf(Drawn, Q) - SumOf(StockOf, O)
  <1>8. Drawn[p] = Min({StockOf[p], Max({0, short})})
    <2>t. /\ p \in Purchases /\ StockOf[p] \in Int /\ Drawn[p] \in Int
          /\ 0 <= Drawn[p] /\ Drawn[p] <= StockOf[p] /\ StockOf[p] > 0
      BY <1>t, <1>3
    <2> HIDE DEF O, Y
    <2>1. short \in Int /\ short = Drawn[p] + SumOf(Drawn, O) + SumOf(Drawn, Y) - SumOf(StockOf, O)
      BY <1>4, <1>5, <2>t
    <2> HIDE DEF short
    <2>2. Max({0, short}) = IF 0 >= short THEN 0 ELSE short
      BY <2>1, MinMax
    <2>3. Max({0, short}) \in Int
      BY <2>1, <2>2
    <2>4. Min({StockOf[p], Max({0, short})})
            = IF StockOf[p] <= Max({0, short}) THEN StockOf[p] ELSE Max({0, short})
      BY <2>t, <2>3, MinMax
    <2>5. CASE Drawn[p] = 0
      <3>1. short <= 0
        BY <1>5, <1>7, <2>t, <2>1, <2>5
      <3>2. Max({0, short}) = 0
        BY <2>1, <2>2, <3>1
      <3>3. QED
        BY <2>t, <2>4, <2>5, <3>2
    <2>6. CASE Drawn[p] > 0 /\ Drawn[p] < StockOf[p]
      <3>1. short = Drawn[p]
        BY <1>5, <1>6, <1>7, <2>t, <2>1, <2>6
      <3>2. Max({0, short}) = Drawn[p]
        BY <2>1, <2>2, <2>6, <3>1
      <3>3. QED
        BY <2>t, <2>4, <2>6, <3>2
    <2>7. CASE Drawn[p] > 0 /\ Drawn[p] = StockOf[p]
      <3>1. short >= StockOf[p]
        BY <1>5, <1>6, <2>t, <2>1, <2>7
      <3>2. StockOf[p] <= Max({0, short})
        BY <2>t, <2>1, <2>2, <3>1
      <3>3. QED
        BY <2>4, <2>7, <3>2
    <2>8. QED
      BY <2>t, <2>5, <2>6, <2>7
  <1>9. QED
    BY <1>8

\* When every purchase has its own code and compareToFIFO ties no two purchases, the
\* run hands the quantity sold to the purchases first in, first out, whatever the
\* order of the sales, the returns and the partial sales in between, and with the
\* event bot recording meanwhile. Unchecked splits of credit notes, which a reset that
\* died leaves behind, are left out: they have no order.
THEOREM FifoOrderKept == ASSUME OwnPurchaseCodes, NoTies PROVE Spec => []FifoAllocation
  <1>1. TypeInv /\ SplitsInv /\ SafetyInv /\ FifoInv => FifoAllocation
    <2> SUFFICES ASSUME TypeInv, SplitsInv, SafetyInv, FifoInv, pc = "createInventory",
                        NoLooseSplits, NEW p \in queue.buys
                 PROVE  LET demand == MapThenSumSet(LAMBDA s : sell[s].quantity, plan.cogs)
                            older == {r \in queue.buys :
                                        compareToFIFO(PurchaseKey(r), PurchaseKey(p)) < 0}
                            drawn == Stock(p) - (IF local[p].checked THEN 0
                                                 ELSE local[p].amount)
                            short == demand - MapThenSumSet(Stock, older)
                        IN  drawn = Min({Stock(p), Max({0, short})})
      BY Zenon DEF FifoAllocation
    <2> DEFINE O == {r \in queue.buys : Before(r, p)}
               C == plan.cogs
               Q == queue.buys
    <2>t. Q \in SUBSET Purchases /\ O \subseteq Purchases /\ p \in Purchases /\ p \in Q
      BY FifoTypes
    <2>1. {r \in queue.buys : compareToFIFO(PurchaseKey(r), PurchaseKey(p)) < 0} = O
      BY DEF Before
    <2>2. /\ \A r \in Q : local[r].amount > 0 /\ local[r].amount <= StockOf[r]
          /\ \A q, r \in Q : Drawn[q] > 0 /\ Before(r, q) => local[r].checked
      BY DEF SafetyInv, CalculationInv, FifoInv, Calculating
    <2>3. SumOf(Drawn, Q) = SumOf(SaleQuantities, C)
      <3>1. Costing = 0
        BY DEF Costing
      <3>2. SumOf(SaleQuantities, C) \in Int
        BY FifoTypes
      <3>3. QED
        BY <3>1, <3>2 DEF FifoInv, Calculating
    <2>4. Drawn[p] = Min({StockOf[p], Max({0, SumOf(Drawn, Q) - SumOf(StockOf, O)})})
      BY <2>t, <2>2, FifoClosedForm, NoneListed DEF Calculating
    <2>f. IsFiniteSet(C) /\ C \subseteq Sales /\ IsFiniteSet(O)
      BY <2>t, FifoTypes, FS_Subset, FiniteAssumption
    <2> HIDE DEF O, C, Q
    <2>5. MapThenSumSet(LAMBDA s : sell[s].quantity, C) = SumOf(SaleQuantities, C)
      <3>1. MapThenSumSet(LAMBDA s : sell[s].quantity, C) = Iter([s \in C |-> sell[s].quantity], C)[C]
        BY Zenon DEF MapThenSumSet, MapThenFoldSet, Iter, IsIter, First
      <3>2. \A s \in C : /\ SaleQuantities[s] \in Int
                         /\ [t \in C |-> sell[t].quantity][s] = SaleQuantities[s]
        BY <2>f, SupplyTypes
      <3>3. QED
        BY <2>f, <3>1, <3>2, SumIsIter, SumEqual
    <2>6. MapThenSumSet(Stock, O) = SumOf(StockOf, O)
      <3>1. MapThenSumSet(Stock, O) = Iter([r \in O |-> Stock(r)], O)[O]
        BY Zenon DEF MapThenSumSet, MapThenFoldSet, Iter, IsIter, First
      <3>2. \A r \in O : StockOf[r] \in Int /\ [q \in O |-> Stock(q)][r] = StockOf[r]
        BY <2>t, StockIsStockOf, FifoTypes
      <3>3. QED
        BY <2>f, <3>1, <3>2, SumIsIter, SumEqual
    <2>7. /\ Stock(p) = StockOf[p]
          /\ Drawn[p] = StockOf[p] - (IF local[p].checked THEN 0 ELSE local[p].amount)
      BY <2>t, StockIsStockOf, FifoTypes
    <2>8. QED
      BY <2>1, <2>3, <2>4, <2>5, <2>6, <2>7 DEF C
  <1>2. QED
    BY <1>1, TypeInvariant, SafetyInvariant, FifoInvariant, PTL
==============================================================================
