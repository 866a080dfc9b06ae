--------------------------- MODULE DeletionsProofs ---------------------------
(***************************************************************************)
(* Proofs about the handlers of deletions and of hand-made changes,        *)
(* composed with the cost-of-sales engine.                                 *)
(***************************************************************************)
EXTENDS Deletions, CostedSalesProofs

(* The inductive invariants *)

\* A handler has come as far as its event lets it, and what it has trashed is gone.
JobInv ==
    /\ job.step \in {"root", "trash", "flagIfNeeded"} =>
         /\ job.tx \in gone
         /\ \/ job.kind = "purchase" /\ job.tx \in Purchases
            \/ job.kind \in {"sale", "posted"} /\ job.tx \in Sales
    /\ job.step = "splits" =>
         job.kind = "purchase" /\ job.tx \in gone \cap Purchases /\ ~buy[job.tx].posted
    /\ job.step = "cogs" =>
         job.kind = "sale" /\ job.tx \in gone \cap Sales /\ ~sell[job.tx].posted
    /\ job.step = "flag" => job.kind = "ticked"

\* The types of the engine and of the handlers.
DeletionTypeInv ==
    /\ TypeInv /\ SplitsInv /\ JobInv
    /\ job \in Jobs /\ gone \subseteq Transactions /\ missed \in BOOLEAN /\ failures \in Nat

\* Nothing is left of a purchase that is not there but its splits, and only sales and
\* credit notes that are there count as processed.
GoneInv ==
    /\ \A p \in Purchases : ~buy[p].posted => buy[p] = NoPurchase
    /\ \A s \in Sales : sell[s].logged => sell[s].posted
    /\ \A n \in CreditNotes : note[n].checked => note[n].posted
    /\ \A p \in Purchases : splits[p].quantity = 0 => splits[p].cost = 0

\* A run that has listed nothing holds nothing that a user could delete.
EmptyHandedInv ==
    pc \in {"idle", "list", "reset", "resetList"} =>
        queue.buys = {} /\ queue.sales = {} /\ queue.notes = {} /\ current.sale = NoSale

\* The purchases that a calculation writes are there, and the splits it creates are
\* theirs.
PlannedInv ==
    /\ \A p \in queue.buys : local[p].posted
    /\ Calculating \/ pc = "updateInventory" => plan.buys \subseteq queue.buys
    /\ Calculating => \A p \in Purchases :
         /\ plan.splits[p].quantity = 0 => plan.splits[p].cost = 0
         /\ p \notin plan.buys => plan.splits[p] = NoTotals

\* What a reset has not collected needs no reset, but for sales that a user has posted;
\* a sale may keep a tick that was given by hand.
RepairedInv ==
    /\ pc \in {"trashFinancial", "restoreInventory"} =>
         /\ \A p \in Purchases : p \notin plan.buys => Untouched(p)
         /\ \A s \in Sales : s \notin plan.sells /\ sell[s].bot => ~sell[s].logged
         /\ \A n \in CreditNotes : n \notin plan.notes => ~note[n].checked
    /\ pc \in {"trashFinancial", "restoreInventory", "trashInventory"} =>
         \A p \in Purchases : p \notin plan.trash => splits[p] = NoTotals
    /\ pc \in {"trashInventory", "clearAccount"} =>
         /\ \A p \in Purchases : Untouched(p)
         /\ \A s \in Sales : sell[s].bot => ~sell[s].logged
         /\ \A n \in CreditNotes : ~note[n].checked
    /\ pc = "clearAccount" => \A p \in Purchases : splits[p] = NoTotals

\* The inductive invariant behind ResetRepairs, on top of the types.
RepairInv == GoneInv /\ EmptyHandedInv /\ MemoryInv /\ PlannedInv /\ RepairedInv

\* No run dies: credit note splits are unchecked only between two calls of a reset.
CalmInv == crashes = 0 /\ ~torn /\ (pc # "trashInventory" => NoLooseSplits)

\* The calls of a calculation.
CalculationCalls ==
    {"list", "credits", "sales", "purchases", "createInventory", "updateInventory",
     "createFinancial", "storeDate"}

\* As long as no edit was missed, a sale that a user has posted is about to be trashed.
HandInv == ~missed =>
    \A s \in Sales : sell[s].posted /\ ~sell[s].bot =>
        job.kind = "posted" /\ job.step \in {"root", "trash"} /\ job.tx = s

\* A sale that was costed and has lost its tick is on its way to a reset or about to be
\* trashed, unless an edit was missed: no calculation finds it.
TickInv ==
    /\ \A s \in Sales : sell[s].logged /\ ~sell[s].checked =>
          \/ missed \/ props.needsRebuild \/ job.step = "flag"
          \/ job.step = "trash" /\ job.tx = s
    /\ ~missed /\ pc \in CalculationCalls => \A s \in Sales : sell[s].logged => sell[s].checked
    /\ pc # "idle" /\ job.kind \in {"posted", "ticked"} => job.step = "none"
    /\ pc # "idle" /\ job.kind = "sale" => job.step # "trash"

\* As long as no edit was missed, splits and costs of sales are of transactions that
\* are there, or are about to be trashed by the handler that has trashed those; no
\* sale has two costs.
CascadeInv == ~missed =>
    /\ \A p \in Purchases : ~buy[p].posted =>
          splits[p] = NoTotals \/ (job.step = "splits" /\ job.tx = p)
    /\ \A s \in Sales : cogs[s] # <<>> =>
          Len(cogs[s]) = 1 /\ (sell[s].logged \/ (job.step = "cogs" /\ job.tx = s))
    /\ job.step \in {"root", "trash"} /\ job.kind = "posted" => ~sell[job.tx].logged
    /\ pc = "createFinancial" => \A s \in plan.cogs : sell[s].logged /\ cogs[s] = <<>>
    /\ pc = "trashFinancial" => \A s \in Sales : sell[s].logged /\ cogs[s] # <<>> => s \in plan.cogs
    /\ pc \in {"restoreInventory", "trashInventory", "clearAccount"} =>
          \A s \in Sales : sell[s].logged => cogs[s] = <<>>
------------------------------------------------------------------------------
(* What users and handlers do *)

\* What is left when one of the splits of a purchase is trashed.
LEMMA SplitsLeftFacts ==
    ASSUME NEW totals \in Totals, NEW left \in SplitsLeft(totals)
    PROVE  /\ left \in Totals /\ left.loose = 0 /\ left.credited <= left.quantity
           /\ left.quantity = 0 => left = NoTotals
  <1>1. CASE left = NoTotals
    BY <1>1 DEF NoTotals, Totals
  <1>2. CASE left # NoTotals
    <2> DEFINE Costs1 == Min({0, totals.cost})..Max({0, totals.cost})
    <2>1. /\ left \in [quantity : 1..(totals.quantity - 1), cost : Costs1,
                        credited : 0..totals.credited, loose : {0}]
          /\ left.credited <= left.quantity
      BY <1>2 DEF SplitsLeft
    <2>2. Costs1 \subseteq Int
      OBVIOUS
    <2> HIDE DEF Costs1
    <2>3. totals.quantity \in Nat /\ totals.credited \in Nat
      BY DEF Totals
    <2>a. left.quantity \in Nat /\ left.quantity # 0 /\ left.credited \in Nat
      BY <2>1, <2>3
    <2>b. left.cost \in Int /\ left.loose = 0
      BY <2>1, <2>2
    <2>c. left = [quantity |-> left.quantity, cost |-> left.cost,
                  credited |-> left.credited, loose |-> left.loose]
      BY <2>1
    <2>4. left \in Totals /\ left.loose = 0
      BY <2>a, <2>b, <2>c DEF Totals
    <2>5. left.quantity # 0
      BY <2>a
    <2>6. QED
      BY <2>1, <2>4, <2>5
  <1>3. QED
    BY <1>1, <1>2

\* Between runs, edits and handlers keep the types of the books.
LEMMA IdleTypes ==
    ASSUME TypeInv, SplitsInv, pc = "idle", UNCHANGED <<pc, run, crashes, torn, status, lockDate>>,
           buy' \in [Purchases -> PurchaseRecords], splits' \in [Purchases -> Totals],
           \A p \in Purchases : splits'[p] = splits[p] \/ splits'[p] \in SplitsLeft(splits[p]),
           sell' \in [Sales -> SaleRecords], note' \in [CreditNotes -> EntryRecords],
           props' \in Props, cogs' \in [Sales -> Seq(Int)],
           extras' \in [Codes -> [add : Nat, credit : Nat]]
    PROVE  TypeInv' /\ SplitsInv'
  <1>1. TypeInv'
    BY DEF TypeInv, TypeOK, run
  <1>2. ASSUME NEW p \in Purchases
        PROVE  splits'[p].loose <= splits'[p].credited /\ splits'[p].credited <= splits'[p].quantity
    <2>1. CASE splits'[p] = splits[p]
      BY <2>1 DEF SplitsInv
    <2>2. CASE splits'[p] \in SplitsLeft(splits[p])
      <3>1. splits[p] \in Totals
        BY Types
      <3>2. /\ splits'[p] \in Totals /\ splits'[p].loose = 0
            /\ splits'[p].credited <= splits'[p].quantity
        BY <2>2, <3>1, SplitsLeftFacts
      <3>3. QED
        BY <3>2 DEF Totals
    <2>3. QED
      BY <2>1, <2>2
  <1>3. \A p \in Purchases : plan'.splits[p].credited <= plan'.splits[p].quantity
    BY DEF SplitsInv, run
  <1>4. ~(Calculating \/ pc = "updateInventory")'
    BY DEF Calculating
  <1>5. QED
    BY <1>1, <1>2, <1>3, <1>4 DEF SplitsInv

\* An edit starts a handler.
LEMMA EditJob ==
    ASSUME NEW kind \in Kinds, NEW tx \in Transactions \cup Codes \cup {NoTx}, NEW date \in Nat,
           NEW used \in BOOLEAN, NEW step \in Steps, Edit(kind, tx, date, used, step),
           DeletionTypeInv
    PROVE  /\ pc = "idle" /\ job.step = "none" /\ UNCHANGED <<pc, run, crashes, torn, failures>>
           /\ job' \in Jobs /\ job'.kind = kind /\ job'.tx = tx /\ job'.step = step
           /\ missed' \in BOOLEAN /\ failures' \in Nat
           /\ (missed => missed') /\ (used /\ step = "answer" => missed')
  BY DEF Edit, Idle, Jobs, DeletionTypeInv

\* What an edit does to a purchase, a sale, a credit note, and the costs of sales. It
\* takes away what a calculation has used only if this is noticed or missed.
PurchaseEdited(p) ==
    \/ buy'[p] = buy[p]
    \/ buy'[p] = NoPurchase /\ (UsedPurchase(p) => missed')
    \/ /\ buy[p].posted /\ buy'[p].posted
       /\ buy'[p].amount = buy[p].amount /\ buy'[p].quantity = buy[p].quantity

SaleEdited(s) ==
    \/ sell'[s] = sell[s]
    \/ sell'[s] = NoSaleEntry /\ (sell[s].logged => missed')
    \/ /\ ~sell[s].posted /\ sell'[s].posted /\ ~sell'[s].logged
       /\ job'.kind = "posted" /\ job'.step = "root" /\ job'.tx = s
    \/ /\ sell[s].posted /\ sell'[s].posted /\ sell'[s].logged = sell[s].logged
       /\ sell'[s].bot = sell[s].bot /\ job'.step = "flag"

NoteEdited(n) == note'[n] = note[n] \/ (note[n].posted /\ note'[n].posted)

\* What an edit leaves alone, and where it starts its handler.
Edited ==
    /\ pc = "idle" /\ job.step = "none"
    /\ UNCHANGED <<pc, copy, local, queue, current, plan, crashes, torn, splits, props>>
    /\ TypeInv' /\ SplitsInv' /\ job' \in Jobs /\ gone' \subseteq Transactions
    /\ missed' \in BOOLEAN /\ failures' \in Nat /\ (missed => missed')
    /\ \A p \in Purchases : PurchaseEdited(p)
    /\ \A s \in Sales : SaleEdited(s)
    /\ \A n \in CreditNotes : NoteEdited(n)
    /\ cogs' = cogs \/ missed'
    /\ job'.step \in {"root", "flag", "lookup", "answer"}
    /\ job'.step = "root" =>
         /\ job'.tx \in gone'
         /\ \/ job'.kind = "purchase" /\ job'.tx \in Purchases
            \/ job'.kind = "sale" /\ job'.tx \in Sales
            \/ job'.kind = "posted" /\ job'.tx \in Sales /\ ~sell'[job'.tx].logged
    /\ job'.step = "flag" => job'.kind = "ticked"

\* The edits of a purchase.
LEMMA PurchaseEditEffect ==
    ASSUME DeletionTypeInv, NEW p \in Purchases,
           DeletePurchase(p) \/ DeletePurchaseGoods(p) \/ TickPurchase(p)
    PROVE  Edited
  <1>t. /\ TypeInv /\ SplitsInv /\ buy \in [Purchases -> PurchaseRecords] /\ buy[p] \in PurchaseRecords
        /\ splits \in [Purchases -> Totals] /\ sell \in [Sales -> SaleRecords]
        /\ note \in [CreditNotes -> EntryRecords] /\ props \in Props
        /\ cogs \in [Sales -> Seq(Int)] /\ extras \in [Codes -> [add : Nat, credit : Nat]]
        /\ p \in Transactions /\ gone \subseteq Transactions
    BY Types DEF DeletionTypeInv, Transactions
  <1>u. UsedPurchase(p) \in BOOLEAN /\ buy[p].date \in Nat
    BY <1>t DEF UsedPurchase, PurchaseRecords
  <1>k. {"purchase", "goods", "ticked"} \subseteq Kinds /\ {"root", "answer", "flag"} \subseteq Steps
    BY DEF Kinds, Steps
  <1>1. CASE DeletePurchase(p)
    <2>1. /\ Edit("purchase", p, buy[p].date, UsedPurchase(p), "root")
          /\ gone' = gone \cup {p} /\ UNCHANGED books
      BY <1>1 DEF DeletePurchase
    <2>2. /\ pc = "idle" /\ job.step = "none" /\ UNCHANGED <<pc, run, crashes, torn, failures>>
          /\ job' \in Jobs /\ job'.kind = "purchase" /\ job'.tx = p /\ job'.step = "root"
          /\ missed' \in BOOLEAN /\ failures' \in Nat /\ (missed => missed')
      BY <1>t, <1>u, <1>k, <2>1, EditJob
    <2>3. TypeInv' /\ SplitsInv'
      BY <1>t, <2>1, <2>2, IdleTypes DEF books
    <2>4. QED
      BY <1>t, <2>1, <2>2, <2>3
         DEF Edited, PurchaseEdited, SaleEdited, NoteEdited, books, run
  <1>2. CASE DeletePurchaseGoods(p)
    <2>1. /\ Edit("goods", p, buy[p].date, UsedPurchase(p), "answer")
          /\ buy' = [buy EXCEPT ![p] = NoPurchase] /\ gone' = gone \cup {p}
          /\ UNCHANGED <<splits, sell, note, status, props, cogs, extras, lockDate>>
      BY <1>2 DEF DeletePurchaseGoods
    <2>2. /\ pc = "idle" /\ job.step = "none" /\ UNCHANGED <<pc, run, crashes, torn, failures>>
          /\ job' \in Jobs /\ job'.step = "answer"
          /\ missed' \in BOOLEAN /\ failures' \in Nat /\ (missed => missed')
          /\ UsedPurchase(p) => missed'
      BY <1>t, <1>u, <1>k, <2>1, EditJob
    <2>3. /\ buy' \in [Purchases -> PurchaseRecords] /\ buy'[p] = NoPurchase
          /\ \A r \in Purchases : r # p => buy'[r] = buy[r]
      BY <1>t, <2>1, EmptyTypes
    <2>4. TypeInv' /\ SplitsInv'
      BY <1>t, <2>1, <2>2, <2>3, IdleTypes
    <2>5. QED
      BY <1>t, <2>1, <2>2, <2>3, <2>4
         DEF Edited, PurchaseEdited, SaleEdited, NoteEdited, run
  <1>3. CASE TickPurchase(p)
    <2>1. /\ Edit("ticked", p, buy[p].date, UsedPurchase(p), "flag") /\ buy[p].posted
          /\ buy' = [buy EXCEPT ![p].checked = ~@] /\ gone' = gone
          /\ UNCHANGED <<splits, sell, note, status, props, cogs, extras, lockDate>>
      BY <1>3 DEF TickPurchase, GuardStep
    <2>2. /\ pc = "idle" /\ job.step = "none" /\ UNCHANGED <<pc, run, crashes, torn, failures>>
          /\ job' \in Jobs /\ job'.step = "flag" /\ job'.kind = "ticked"
          /\ missed' \in BOOLEAN /\ failures' \in Nat /\ (missed => missed')
      BY <1>t, <1>u, <1>k, <2>1, EditJob
    <2>3. /\ [buy[p] EXCEPT !.checked = ~@] \in PurchaseRecords
          /\ [buy[p] EXCEPT !.checked = ~@].posted = buy[p].posted
          /\ [buy[p] EXCEPT !.checked = ~@].amount = buy[p].amount
          /\ [buy[p] EXCEPT !.checked = ~@].quantity = buy[p].quantity
      BY <1>t DEF PurchaseRecords
    <2>4. /\ buy' \in [Purchases -> PurchaseRecords] /\ buy'[p].posted
          /\ buy'[p].amount = buy[p].amount /\ buy'[p].quantity = buy[p].quantity
          /\ \A r \in Purchases : r # p => buy'[r] = buy[r]
      BY <1>t, <2>1, <2>3
    <2>5. TypeInv' /\ SplitsInv'
      BY <1>t, <2>1, <2>2, <2>4, IdleTypes
    <2>6. QED
      BY <1>t, <2>1, <2>2, <2>4, <2>5
         DEF Edited, PurchaseEdited, SaleEdited, NoteEdited, run
  <1>4. QED
    BY <1>1, <1>2, <1>3

\* The edits of a sale.
LEMMA SaleEditEffect ==
    ASSUME DeletionTypeInv, NEW s \in Sales,
           \/ DeleteSale(s) \/ DeleteCogs(s) \/ DeleteSaleGoods(s) \/ TickSale(s)
           \/ \E q \in Quantities, d \in Dates : PostSaleGoods(s, q, d)
    PROVE  Edited
  <1>t. /\ TypeInv /\ SplitsInv /\ buy \in [Purchases -> PurchaseRecords] /\ sell[s] \in SaleRecords
        /\ splits \in [Purchases -> Totals] /\ sell \in [Sales -> SaleRecords]
        /\ note \in [CreditNotes -> EntryRecords] /\ props \in Props
        /\ cogs \in [Sales -> Seq(Int)] /\ extras \in [Codes -> [add : Nat, credit : Nat]]
        /\ s \in Transactions /\ gone \subseteq Transactions
    BY Types DEF DeletionTypeInv, Transactions
  <1>u. sell[s].logged \in BOOLEAN /\ sell[s].date \in Nat /\ (sell[s].logged /\ s \in DebitIncoming) \in BOOLEAN
    BY <1>t DEF SaleRecords
  <1>k. /\ {"sale", "cogs", "goods", "posted", "ticked"} \subseteq Kinds
        /\ {"root", "answer", "flag"} \subseteq Steps
    BY DEF Kinds, Steps
  <1>1. CASE DeleteSale(s)
    <2>1. /\ Edit("sale", s, sell[s].date, sell[s].logged /\ s \in DebitIncoming, DeletedSaleStep(s))
          /\ DeletedSaleStep(s) \in {"root", "answer"}
          /\ gone' = gone \cup {s} /\ UNCHANGED books
      BY <1>1 DEF DeleteSale, DeletedSaleStep
    <2>2. /\ pc = "idle" /\ job.step = "none" /\ UNCHANGED <<pc, run, crashes, torn, failures>>
          /\ job' \in Jobs /\ job'.kind = "sale" /\ job'.tx = s /\ job'.step \in {"root", "answer"}
          /\ missed' \in BOOLEAN /\ failures' \in Nat /\ (missed => missed')
      BY <1>t, <1>u, <1>k, <2>1, EditJob
    <2>3. TypeInv' /\ SplitsInv'
      BY <1>t, <2>1, <2>2, IdleTypes DEF books
    <2>4. QED
      BY <1>t, <2>1, <2>2, <2>3
         DEF Edited, PurchaseEdited, SaleEdited, NoteEdited, books, run
  <1>2. CASE DeleteCogs(s)
    <2>1. /\ Edit("cogs", s, sell[s].date, TRUE, "answer") /\ cogs[s] # <<>>
          /\ cogs' = [cogs EXCEPT ![s] = Tail(@)]
          /\ UNCHANGED <<buy, splits, sell, note, status, props, extras, lockDate, gone>>
      BY <1>2 DEF DeleteCogs
    <2>2. /\ pc = "idle" /\ job.step = "none" /\ UNCHANGED <<pc, run, crashes, torn, failures>>
          /\ job' \in Jobs /\ job'.step = "answer" /\ missed' \in BOOLEAN /\ missed'
          /\ failures' \in Nat
      BY <1>t, <1>u, <1>k, <2>1, EditJob
    <2>3. cogs' \in [Sales -> Seq(Int)]
      BY <1>t, <2>1
    <2>4. TypeInv' /\ SplitsInv'
      BY <1>t, <2>1, <2>2, <2>3, IdleTypes
    <2>5. QED
      BY <1>t, <2>1, <2>2, <2>4
         DEF Edited, PurchaseEdited, SaleEdited, NoteEdited, run
  <1>3. CASE DeleteSaleGoods(s)
    <2>1. /\ Edit("goods", s, sell[s].date, sell[s].logged, "answer")
          /\ sell' = [sell EXCEPT ![s] = NoSaleEntry] /\ gone' = gone \cup {s}
          /\ UNCHANGED <<buy, splits, note, status, props, cogs, extras, lockDate>>
      BY <1>3 DEF DeleteSaleGoods
    <2>2. /\ pc = "idle" /\ job.step = "none" /\ UNCHANGED <<pc, run, crashes, torn, failures>>
          /\ job' \in Jobs /\ job'.step = "answer"
          /\ missed' \in BOOLEAN /\ failures' \in Nat /\ (missed => missed')
          /\ sell[s].logged => missed'
      BY <1>t, <1>u, <1>k, <2>1, EditJob
    <2>3. /\ sell' \in [Sales -> SaleRecords] /\ sell'[s] = NoSaleEntry
          /\ \A r \in Sales : r # s => sell'[r] = sell[r]
      <3>1. NoSaleEntry \in SaleRecords
        BY DEF NoSaleEntry, SaleRecords, NoDate
      <3>2. QED
        BY <1>t, <2>1, <3>1
    <2>4. TypeInv' /\ SplitsInv'
      BY <1>t, <2>1, <2>2, <2>3, IdleTypes
    <2>5. QED
      BY <1>t, <2>1, <2>2, <2>3, <2>4
         DEF Edited, PurchaseEdited, SaleEdited, NoteEdited, run
  <1>4. CASE TickSale(s)
    <2>1. /\ Edit("ticked", s, sell[s].date, sell[s].logged, "flag") /\ sell[s].posted
          /\ sell' = [sell EXCEPT ![s].checked = ~@] /\ gone' = gone
          /\ UNCHANGED <<buy, splits, note, status, props, cogs, extras, lockDate>>
      BY <1>4 DEF TickSale, GuardStep
    <2>2. /\ pc = "idle" /\ job.step = "none" /\ UNCHANGED <<pc, run, crashes, torn, failures>>
          /\ job' \in Jobs /\ job'.step = "flag" /\ job'.kind = "ticked"
          /\ missed' \in BOOLEAN /\ failures' \in Nat /\ (missed => missed')
      BY <1>t, <1>u, <1>k, <2>1, EditJob
    <2>3. /\ [sell[s] EXCEPT !.checked = ~@] \in SaleRecords
          /\ [sell[s] EXCEPT !.checked = ~@].posted = sell[s].posted
          /\ [sell[s] EXCEPT !.checked = ~@].logged = sell[s].logged
          /\ [sell[s] EXCEPT !.checked = ~@].bot = sell[s].bot
      BY <1>t DEF SaleRecords
    <2>4. /\ sell' \in [Sales -> SaleRecords] /\ sell'[s].posted
          /\ sell'[s].logged = sell[s].logged /\ sell'[s].bot = sell[s].bot
          /\ \A r \in Sales : r # s => sell'[r] = sell[r]
      BY <1>t, <2>1, <2>3
    <2>5. TypeInv' /\ SplitsInv'
      BY <1>t, <2>1, <2>2, <2>4, IdleTypes
    <2>6. QED
      BY <1>t, <2>1, <2>2, <2>4, <2>5
         DEF Edited, PurchaseEdited, SaleEdited, NoteEdited, run
  <1>5. ASSUME NEW q \in Quantities, NEW d \in Dates, PostSaleGoods(s, q, d)
        PROVE  Edited
    <2> DEFINE new == [posted |-> TRUE, date |-> d, quantity |-> q,
                       checked |-> FALSE, logged |-> FALSE, bot |-> FALSE]
    <2>1. /\ Edit("posted", s, d, FALSE, "root") /\ ~sell[s].posted
          /\ sell' = [sell EXCEPT ![s] = new] /\ gone' = gone \cup {s}
          /\ UNCHANGED <<buy, splits, note, status, props, cogs, extras, lockDate>>
      BY <1>5 DEF PostSaleGoods
    <2>2. new \in SaleRecords /\ new.posted /\ ~new.logged /\ d \in Nat
      BY DataAssumption DEF SaleRecords
    <2>3. /\ pc = "idle" /\ job.step = "none" /\ UNCHANGED <<pc, run, crashes, torn, failures>>
          /\ job' \in Jobs /\ job'.kind = "posted" /\ job'.tx = s /\ job'.step = "root"
          /\ missed' \in BOOLEAN /\ failures' \in Nat /\ (missed => missed')
      BY <1>t, <1>k, <2>1, <2>2, EditJob
    <2> HIDE DEF new
    <2>4. /\ sell' \in [Sales -> SaleRecords] /\ sell'[s] = new
          /\ \A r \in Sales : r # s => sell'[r] = sell[r]
      BY <1>t, <2>1, <2>2
    <2>5. TypeInv' /\ SplitsInv'
      BY <1>t, <2>1, <2>3, <2>4, IdleTypes
    <2>6. QED
      BY <1>t, <2>1, <2>2, <2>3, <2>4, <2>5
         DEF Edited, PurchaseEdited, SaleEdited, NoteEdited, run
  <1>6. QED
    BY <1>1, <1>2, <1>3, <1>4, <1>5

\* The edits of credit notes and of additional costs.
LEMMA OtherEditEffect ==
    ASSUME DeletionTypeInv,
           \/ \E n \in CreditNotes, a \in ExtraAmounts : DeleteCreditNote(n, a)
           \/ \E n \in CreditNotes : TickCreditNote(n)
           \/ \E c \in Codes, a \in ExtraAmounts : DeleteAdditionalCost(c, a)
    PROVE  Edited
  <1>t. /\ TypeInv /\ SplitsInv /\ buy \in [Purchases -> PurchaseRecords]
        /\ splits \in [Purchases -> Totals] /\ sell \in [Sales -> SaleRecords]
        /\ note \in [CreditNotes -> EntryRecords] /\ props \in Props
        /\ cogs \in [Sales -> Seq(Int)] /\ extras \in [Codes -> [add : Nat, credit : Nat]]
        /\ gone \subseteq Transactions
    BY Types DEF DeletionTypeInv
  <1>k. /\ {"creditNote", "additionalCost", "ticked"} \subseteq Kinds
        /\ {"lookup", "answer"} \subseteq Steps
    BY DEF Kinds, Steps
  <1>x. ASSUME NEW c \in Codes, NEW a \in Nat
        PROVE  /\ extras[c].add >= a => [extras[c] EXCEPT !.add = @ - a] \in [add : Nat, credit : Nat]
               /\ extras[c].credit >= a => [extras[c] EXCEPT !.credit = @ - a] \in [add : Nat, credit : Nat]
    <2>1. extras[c] \in [add : Nat, credit : Nat]
      BY <1>t
    <2>2. extras[c].add >= a => extras[c].add - a \in Nat
      BY <2>1
    <2>3. extras[c].credit >= a => extras[c].credit - a \in Nat
      BY <2>1
    <2>4. QED
      BY <2>1, <2>2, <2>3
  <1>1. ASSUME NEW n \in CreditNotes, NEW a \in ExtraAmounts, DeleteCreditNote(n, a)
        PROVE  Edited
    <2>1. /\ Edit("creditNote", n, note[n].date, note[n].checked, "lookup")
          /\ extras[NoteCode[n]].credit >= a
          /\ extras' = [extras EXCEPT ![NoteCode[n]].credit = @ - a] /\ gone' = gone \cup {n}
          /\ UNCHANGED <<buy, splits, sell, note, status, props, cogs, lockDate>>
      BY <1>1 DEF DeleteCreditNote
    <2>2. /\ note[n].date \in Nat /\ note[n].checked \in BOOLEAN /\ n \in Transactions
          /\ NoteCode[n] \in Codes /\ a \in Nat
      BY <1>t, NameAssumption, DataAssumption DEF EntryRecords, Transactions
    <2>3. /\ pc = "idle" /\ job.step = "none" /\ UNCHANGED <<pc, run, crashes, torn, failures>>
          /\ job' \in Jobs /\ job'.step = "lookup"
          /\ missed' \in BOOLEAN /\ failures' \in Nat /\ (missed => missed')
      BY <1>k, <2>1, <2>2, EditJob
    <2>4. extras' \in [Codes -> [add : Nat, credit : Nat]]
      BY <1>t, <1>x, <2>1, <2>2
    <2>5. TypeInv' /\ SplitsInv'
      BY <1>t, <2>1, <2>3, <2>4, IdleTypes
    <2>6. QED
      BY <1>t, <2>1, <2>2, <2>3, <2>5
         DEF Edited, PurchaseEdited, SaleEdited, NoteEdited, run
  <1>2. ASSUME NEW n \in CreditNotes, TickCreditNote(n)
        PROVE  Edited
    <2>1. /\ Edit("ticked", n, note[n].date, TRUE, "answer") /\ note[n].posted
          /\ note' = [note EXCEPT ![n].checked = ~@] /\ gone' = gone
          /\ UNCHANGED <<buy, splits, sell, status, props, cogs, extras, lockDate>>
      BY <1>2 DEF TickCreditNote
    <2>2. note[n] \in EntryRecords /\ note[n].date \in Nat /\ n \in Transactions
      BY <1>t DEF EntryRecords, Transactions
    <2>3. /\ pc = "idle" /\ job.step = "none" /\ UNCHANGED <<pc, run, crashes, torn, failures>>
          /\ job' \in Jobs /\ job'.step = "answer"
          /\ missed' \in BOOLEAN /\ failures' \in Nat /\ (missed => missed')
      BY <1>k, <2>1, <2>2, EditJob
    <2>4. /\ [note[n] EXCEPT !.checked = ~@] \in EntryRecords
          /\ [note[n] EXCEPT !.checked = ~@].posted = note[n].posted
      BY <2>2 DEF EntryRecords
    <2>5. /\ note' \in [CreditNotes -> EntryRecords] /\ note'[n].posted
          /\ \A r \in CreditNotes : r # n => note'[r] = note[r]
      BY <1>t, <2>1, <2>4
    <2>6. TypeInv' /\ SplitsInv'
      BY <1>t, <2>1, <2>3, <2>5, IdleTypes
    <2>7. QED
      BY <1>t, <2>1, <2>3, <2>5, <2>6
         DEF Edited, PurchaseEdited, SaleEdited, NoteEdited, run
  <1>3. ASSUME NEW c \in Codes, NEW a \in ExtraAmounts, DeleteAdditionalCost(c, a)
        PROVE  Edited
    <2> DEFINE used == \E p \in Purchases : CodeOf[p] = c /\ UsedPurchase(p)
    <2>1. /\ Edit("additionalCost", c, NoDate, used, "answer") /\ extras[c].add >= a
          /\ extras' = [extras EXCEPT ![c].add = @ - a] /\ gone' = gone
          /\ UNCHANGED <<buy, splits, sell, note, status, props, cogs, lockDate>>
      BY <1>3 DEF DeleteAdditionalCost
    <2>2. used \in BOOLEAN /\ NoDate \in Nat /\ a \in Nat
      BY DataAssumption DEF NoDate
    <2> HIDE DEF used
    <2>3. /\ pc = "idle" /\ job.step = "none" /\ UNCHANGED <<pc, run, crashes, torn, failures>>
          /\ job' \in Jobs /\ job'.step = "answer"
          /\ missed' \in BOOLEAN /\ failures' \in Nat /\ (missed => missed')
      BY <1>k, <2>1, <2>2, EditJob
    <2>4. extras' \in [Codes -> [add : Nat, credit : Nat]]
      BY <1>t, <1>x, <2>1, <2>2
    <2>5. TypeInv' /\ SplitsInv'
      BY <1>t, <2>1, <2>3, <2>4, IdleTypes
    <2>6. QED
      BY <1>t, <2>1, <2>2, <2>3, <2>5
         DEF Edited, PurchaseEdited, SaleEdited, NoteEdited, run
  <1>4. QED
    BY <1>1, <1>2, <1>3

\* Every edit of a user.
LEMMA EditEffect ==
    ASSUME DeletionTypeInv, UserEdits
    PROVE  Edited
  BY PurchaseEditEffect, SaleEditEffect, OtherEditEffect DEF UserEdits

\* What a call of a handler does to a purchase, a sale, and the splits of a purchase.
PurchaseHandled(p) ==
    \/ buy'[p] = buy[p]
    \/ /\ buy[p].posted /\ buy'[p].posted
       /\ buy'[p].amount = buy[p].amount /\ buy'[p].quantity = buy[p].quantity
       /\ job.step = "root" /\ job'.step = "trash" /\ job'.tx = p /\ UsedPurchase(p) /\ job'.used
    \/ buy'[p] = NoPurchase /\ job'.step = "splits" /\ job'.tx = p

SaleHandled(s) ==
    \/ sell'[s] = sell[s]
    \/ /\ sell[s].posted /\ sell'[s].posted /\ sell'[s].logged = sell[s].logged
       /\ sell'[s].bot = sell[s].bot
       /\ job.step = "root" /\ job'.step = "trash" /\ job'.tx = s
    \/ /\ sell'[s] = NoSaleEntry /\ job.step \in {"root", "trash"} /\ job.tx = s
       /\ job.kind = "posted" \/ (job'.step = "cogs" /\ job'.tx = s)

SplitsHandled(p) ==
    \/ splits'[p] = splits[p]
    \/ /\ splits'[p] \in SplitsLeft(splits[p]) /\ job.step = "splits" /\ job.tx = p
       /\ splits[p].quantity > 0 /\ job' = job

\* It goes on from what it has trashed, and leaves the rest alone.
Handled ==
    /\ pc = "idle" /\ UNCHANGED <<pc, copy, local, queue, current, plan, crashes, torn, note, gone>>
    /\ DeletionTypeInv' /\ (missed => missed')
    /\ \A p \in Purchases : PurchaseHandled(p)
    /\ \A s \in Sales : SaleHandled(s)
    /\ \A p \in Purchases : SplitsHandled(p)
    /\ job.step = "splits" => job' = job \/ (splits[job.tx].quantity = 0 /\ splits' = splits)
    /\ \A s \in Sales : cogs'[s] = cogs[s] \/ (job.step = "cogs" /\ job.tx = s)
    /\ job.step = "cogs" =>
          cogs'[job.tx] = IF cogs[job.tx] = <<>> THEN <<>> ELSE Tail(cogs[job.tx])
    /\ (props.needsRebuild \/ job.step = "flag") => props'.needsRebuild
    /\ job'.step \in {"none", "trash", "splits", "cogs", "flagIfNeeded", "answer"}
    /\ job'.step # "none" => job'.kind = job.kind /\ job'.tx = job.tx
    /\ job.step \in {"root", "trash"} /\ job.kind = "posted" =>
          ~sell'[job.tx].posted \/ job'.step = "trash"
    /\ job'.step = "trash" => job.step = "root"

\* Flagging an account.
LEMMA FlaggedFacts ==
    ASSUME props \in Props
    PROVE  Flagged \in Props /\ Flagged.needsRebuild
  <1>1. [props EXCEPT !.needsRebuild = TRUE] \in Props
    BY DEF Props
  <1>2. Flagged \in Props
    BY <1>1, UpdatePropsType DEF Flagged
  <1>3. QED
    BY <1>2 DEF Flagged, UpdateProps, Props

\* A handler that goes to its next call.
LEMMA NextCall ==
    ASSUME DeletionTypeInv, NEW step \in Steps, Goto(step)
    PROVE  /\ job' \in Jobs /\ job'.kind = job.kind /\ job'.tx = job.tx /\ job'.step = step
           /\ job'.date = job.date
  BY DEF DeletionTypeInv, Jobs, Goto

\* A handler does not find the transaction of its event.
LEMMA NotFoundEffect ==
    ASSUME DeletionTypeInv, NotFound
    PROVE  Handled
  <1>t. /\ TypeInv /\ SplitsInv /\ buy \in [Purchases -> PurchaseRecords]
        /\ splits \in [Purchases -> Totals] /\ sell \in [Sales -> SaleRecords]
        /\ note \in [CreditNotes -> EntryRecords] /\ props \in Props
        /\ cogs \in [Sales -> Seq(Int)] /\ extras \in [Codes -> [add : Nat, credit : Nat]]
        /\ job \in Jobs /\ gone \subseteq Transactions /\ missed \in BOOLEAN /\ failures \in Nat
    BY Types DEF DeletionTypeInv
  <1>1. /\ job.step = "root" /\ pc = "idle" /\ Goto("answer")
        /\ UNCHANGED <<books, pc, run, crashes, torn, gone, missed, failures>>
        /\ \/ job.tx \in Purchases /\ ~buy[job.tx].posted
           \/ job.tx \in Sales /\ ~sell[job.tx].posted
    BY DEF NotFound, At
  <1>2. /\ job' \in Jobs /\ job'.step = "answer" /\ job'.kind = job.kind /\ job'.tx = job.tx
    <2>1. "answer" \in Steps
      BY DEF Steps
    <2>2. QED
      BY <1>1, <2>1, NextCall
  <1>3. TypeInv' /\ SplitsInv'
    BY <1>t, <1>1, IdleTypes DEF books
  <1>4. DeletionTypeInv'
    BY <1>t, <1>1, <1>2, <1>3 DEF DeletionTypeInv, JobInv
  <1>5. job.kind = "posted" => ~sell'[job.tx].posted
    BY <1>1, DeletionAssumption DEF DeletionTypeInv, JobInv, books
  <1>6. QED
    BY <1>1, <1>2, <1>4, <1>5
       DEF Handled, PurchaseHandled, SaleHandled, SplitsHandled, books, run

\* A handler unchecks the transaction of its event, or trashes it.
LEMMA TrashEffect ==
    ASSUME DeletionTypeInv, UncheckPurchase \/ TrashPurchase \/ UncheckSale \/ TrashSale
    PROVE  Handled
  <1>t. /\ TypeInv /\ SplitsInv /\ buy \in [Purchases -> PurchaseRecords]
        /\ splits \in [Purchases -> Totals] /\ sell \in [Sales -> SaleRecords]
        /\ note \in [CreditNotes -> EntryRecords] /\ props \in Props
        /\ cogs \in [Sales -> Seq(Int)] /\ extras \in [Codes -> [add : Nat, credit : Nat]]
        /\ job \in Jobs /\ gone \subseteq Transactions /\ missed \in BOOLEAN /\ failures \in Nat
    BY Types DEF DeletionTypeInv
  <1>k. {"trash", "splits", "cogs", "answer"} \subseteq Steps /\ job.used \in BOOLEAN
    BY <1>t DEF Steps, Jobs
  <1>j. /\ job.step \in {"root", "trash"} /\ pc = "idle" /\ job.tx \in gone
        /\ \/ job.kind = "purchase" /\ job.tx \in Purchases
           \/ job.kind \in {"sale", "posted"} /\ job.tx \in Sales
        /\ UNCHANGED <<pc, run, copy, local, queue, current, plan, crashes, torn, splits, note,
                       status, props, cogs, extras, lockDate, gone, missed, failures>>
    BY DEF UncheckPurchase, TrashPurchase, UncheckSale, TrashSale, At, DeletionTypeInv, JobInv,
           run
  <1>1. CASE UncheckPurchase
    <2>1. /\ job.tx \in Purchases /\ job.step = "root" /\ sell' = sell
          /\ buy[job.tx].posted /\ buy[job.tx].checked
          /\ buy' = [buy EXCEPT ![job.tx].checked = FALSE]
          /\ job' = [job EXCEPT !.step = "trash", !.used = TRUE]
      BY <1>1 DEF UncheckPurchase, At
    <2>2. job.kind = "purchase"
      BY <1>j, <2>1, DeletionAssumption
    <2>3. /\ job' \in Jobs /\ job'.step = "trash" /\ job'.tx = job.tx
          /\ job'.kind = "purchase" /\ job'.used
      BY <1>t, <1>k, <2>1, <2>2 DEF Jobs
    <2>4. /\ [buy[job.tx] EXCEPT !.checked = FALSE] \in PurchaseRecords
          /\ [buy[job.tx] EXCEPT !.checked = FALSE].posted = buy[job.tx].posted
          /\ [buy[job.tx] EXCEPT !.checked = FALSE].amount = buy[job.tx].amount
          /\ [buy[job.tx] EXCEPT !.checked = FALSE].quantity = buy[job.tx].quantity
      BY <1>t, <2>1 DEF PurchaseRecords
    <2>5. /\ buy' \in [Purchases -> PurchaseRecords] /\ buy'[job.tx].posted
          /\ buy'[job.tx].amount = buy[job.tx].amount
          /\ buy'[job.tx].quantity = buy[job.tx].quantity
          /\ \A r \in Purchases : r # job.tx => buy'[r] = buy[r]
      BY <1>t, <2>1, <2>4
    <2>6. TypeInv' /\ SplitsInv'
      BY <1>t, <1>j, <2>1, <2>5, IdleTypes
    <2>7. DeletionTypeInv'
      BY <1>t, <1>j, <2>1, <2>3, <2>6 DEF DeletionTypeInv, JobInv
    <2>8. UsedPurchase(job.tx)
      BY <2>1 DEF UsedPurchase
    <2>9. \A p \in Purchases : PurchaseHandled(p)
      BY <2>1, <2>3, <2>5, <2>8 DEF PurchaseHandled
    <2>10. /\ \A s \in Sales : SaleHandled(s)
           /\ \A p \in Purchases : SplitsHandled(p)
      BY <1>j, <2>1 DEF SaleHandled, SplitsHandled
    <2>11. QED
      BY <1>j, <2>1, <2>2, <2>3, <2>7, <2>9, <2>10 DEF Handled
  <1>2. CASE TrashPurchase
    <2>1. /\ job.tx \in Purchases /\ buy' = [buy EXCEPT ![job.tx] = NoPurchase] /\ sell' = sell
          /\ job' = [job EXCEPT !.step = deleteOnInventoryBook[job.kind],
                                !.used = @ \/ UsedPurchase(job.tx)]
      BY <1>2 DEF TrashPurchase
    <2>2. job.kind = "purchase" /\ deleteOnInventoryBook[job.kind] = "splits"
      BY <1>j, <2>1, DeletionAssumption DEF deleteOnInventoryBook
    <2>3. UsedPurchase(job.tx) \in BOOLEAN
      BY <1>t, <2>1 DEF UsedPurchase, PurchaseRecords
    <2>4. /\ job' \in Jobs /\ job'.step = "splits" /\ job'.tx = job.tx
          /\ job'.kind = "purchase"
      BY <1>t, <1>k, <2>1, <2>2, <2>3 DEF Jobs
    <2>5. /\ buy' \in [Purchases -> PurchaseRecords] /\ buy'[job.tx] = NoPurchase
          /\ \A r \in Purchases : r # job.tx => buy'[r] = buy[r]
      BY <1>t, <2>1, EmptyTypes
    <2>6. TypeInv' /\ SplitsInv'
      BY <1>t, <1>j, <2>1, <2>5, IdleTypes
    <2>7. ~buy'[job'.tx].posted
      BY <2>4, <2>5 DEF NoPurchase
    <2>8. DeletionTypeInv'
      BY <1>t, <1>j, <2>1, <2>4, <2>6, <2>7 DEF DeletionTypeInv, JobInv
    <2>9. /\ \A p \in Purchases : PurchaseHandled(p)
          /\ \A s \in Sales : SaleHandled(s)
          /\ \A p \in Purchases : SplitsHandled(p)
      BY <1>j, <2>1, <2>4, <2>5 DEF PurchaseHandled, SaleHandled, SplitsHandled
    <2>10. QED
      BY <1>j, <2>1, <2>2, <2>4, <2>8, <2>9 DEF Handled
  <1>3. CASE UncheckSale
    <2>1. /\ job.tx \in Sales /\ job.step = "root" /\ buy' = buy
          /\ sell[job.tx].posted /\ sell[job.tx].checked
          /\ sell' = [sell EXCEPT ![job.tx].checked = FALSE]
          /\ job' = [job EXCEPT !.step = "trash", !.used = @ \/ sell[job.tx].logged]
      BY <1>3 DEF UncheckSale, At
    <2>2. job.kind \in {"sale", "posted"} /\ sell[job.tx].logged \in BOOLEAN
      BY <1>t, <1>j, <2>1, DeletionAssumption DEF SaleRecords
    <2>3. /\ job' \in Jobs /\ job'.step = "trash" /\ job'.tx = job.tx
          /\ job'.kind = job.kind
      BY <1>t, <1>k, <2>1, <2>2 DEF Jobs
    <2>4. /\ [sell[job.tx] EXCEPT !.checked = FALSE] \in SaleRecords
          /\ [sell[job.tx] EXCEPT !.checked = FALSE].posted = sell[job.tx].posted
          /\ [sell[job.tx] EXCEPT !.checked = FALSE].logged = sell[job.tx].logged
          /\ [sell[job.tx] EXCEPT !.checked = FALSE].bot = sell[job.tx].bot
      BY <1>t, <2>1 DEF SaleRecords
    <2>5. /\ sell' \in [Sales -> SaleRecords] /\ sell'[job.tx].posted
          /\ sell'[job.tx].logged = sell[job.tx].logged
          /\ sell'[job.tx].bot = sell[job.tx].bot
          /\ \A r \in Sales : r # job.tx => sell'[r] = sell[r]
      BY <1>t, <2>1, <2>4
    <2>6. TypeInv' /\ SplitsInv'
      BY <1>t, <1>j, <2>1, <2>5, IdleTypes
    <2>7. DeletionTypeInv'
      BY <1>t, <1>j, <2>1, <2>2, <2>3, <2>6 DEF DeletionTypeInv, JobInv
    <2>8. \A s \in Sales : SaleHandled(s)
      BY <2>1, <2>3, <2>5 DEF SaleHandled
    <2>9. /\ \A p \in Purchases : PurchaseHandled(p)
          /\ \A p \in Purchases : SplitsHandled(p)
      BY <1>j, <2>1 DEF PurchaseHandled, SplitsHandled
    <2>10. QED
      BY <1>j, <2>1, <2>3, <2>7, <2>8, <2>9 DEF Handled
  <1>4. CASE TrashSale
    <2>1. /\ job.tx \in Sales /\ sell' = [sell EXCEPT ![job.tx] = NoSaleEntry] /\ buy' = buy
          /\ job' = [job EXCEPT !.step = deleteOnInventoryBook[job.kind],
                                !.used = @ \/ sell[job.tx].logged]
      BY <1>4 DEF TrashSale
    <2>2. /\ job.kind \in {"sale", "posted"}
          /\ deleteOnInventoryBook[job.kind] = IF job.kind = "sale" THEN "cogs" ELSE "answer"
      BY <1>j, <2>1, DeletionAssumption DEF deleteOnInventoryBook
    <2>3. sell[job.tx].logged \in BOOLEAN
      BY <1>t, <2>1 DEF SaleRecords
    <2>4. /\ job' \in Jobs /\ job'.tx = job.tx /\ job'.kind = job.kind
          /\ job'.step = IF job.kind = "sale" THEN "cogs" ELSE "answer"
      BY <1>t, <1>k, <2>1, <2>2, <2>3 DEF Jobs
    <2>5. /\ sell' \in [Sales -> SaleRecords] /\ sell'[job.tx] = NoSaleEntry
          /\ \A r \in Sales : r # job.tx => sell'[r] = sell[r]
      <3>1. NoSaleEntry \in SaleRecords
        BY DEF NoSaleEntry, SaleRecords, NoDate
      <3>2. QED
        BY <1>t, <2>1, <3>1
    <2>6. TypeInv' /\ SplitsInv'
      BY <1>t, <1>j, <2>1, <2>5, IdleTypes
    <2>7. ~sell'[job'.tx].posted
      BY <2>4, <2>5 DEF NoSaleEntry
    <2>8. DeletionTypeInv'
      BY <1>t, <1>j, <2>1, <2>2, <2>4, <2>6, <2>7 DEF DeletionTypeInv, JobInv
    <2>9. /\ \A p \in Purchases : PurchaseHandled(p)
          /\ \A s \in Sales : SaleHandled(s)
          /\ \A p \in Purchases : SplitsHandled(p)
      BY <1>j, <2>1, <2>2, <2>4, <2>5 DEF PurchaseHandled, SaleHandled, SplitsHandled
    <2>10. QED
      BY <1>j, <2>1, <2>2, <2>4, <2>7, <2>8, <2>9 DEF Handled
  <1>5. QED
    BY <1>1, <1>2, <1>3, <1>4

\* A handler trashes what hangs on the transaction of its event.
LEMMA CascadeEffect ==
    ASSUME DeletionTypeInv,
           cascadeDeleteInventoryTransactions \/ cascadeDeleteFinancialTransactions
    PROVE  Handled
  <1>t. /\ TypeInv /\ SplitsInv /\ buy \in [Purchases -> PurchaseRecords]
        /\ splits \in [Purchases -> Totals] /\ sell \in [Sales -> SaleRecords]
        /\ note \in [CreditNotes -> EntryRecords] /\ props \in Props
        /\ cogs \in [Sales -> Seq(Int)] /\ extras \in [Codes -> [add : Nat, credit : Nat]]
        /\ job \in Jobs /\ gone \subseteq Transactions /\ missed \in BOOLEAN /\ failures \in Nat
    BY Types DEF DeletionTypeInv
  <1>k. "flagIfNeeded" \in Steps
    BY DEF Steps
  <1>j. /\ pc = "idle" /\ job \in Jobs
        /\ UNCHANGED <<pc, run, copy, local, queue, current, plan, crashes, torn, buy, sell, note,
                       status, props, extras, lockDate, gone, missed, failures>>
    BY <1>t DEF cascadeDeleteInventoryTransactions, cascadeDeleteFinancialTransactions, At, run
  <1>g. ASSUME Goto("flagIfNeeded")
        PROVE  job' \in Jobs /\ job'.kind = job.kind /\ job'.tx = job.tx
               /\ job'.step = "flagIfNeeded"
    BY <1>g, <1>k, NextCall
  <1>1. CASE cascadeDeleteInventoryTransactions
    <2>1. job.step = "splits" /\ cogs' = cogs
      BY <1>1 DEF cascadeDeleteInventoryTransactions, At
    <2>2. job.kind = "purchase" /\ job.tx \in gone \cap Purchases /\ ~buy[job.tx].posted
      BY <2>1 DEF DeletionTypeInv, JobInv
    <2>3. CASE splits[job.tx].quantity > 0 /\ UNCHANGED job
      <3>1. PICK left \in SplitsLeft(splits[job.tx]) : splits' = [splits EXCEPT ![job.tx] = left]
        BY <1>1, <1>t, <2>2, <2>3 DEF cascadeDeleteInventoryTransactions, Totals
      <3>2. left \in Totals
        BY <1>t, <2>2, <3>1, SplitsLeftFacts
      <3>3. /\ splits' \in [Purchases -> Totals] /\ splits'[job.tx] = left
            /\ \A p \in Purchases : p # job.tx => splits'[p] = splits[p]
        BY <1>t, <2>2, <3>1, <3>2
      <3>4. \A p \in Purchases : SplitsHandled(p)
        BY <2>1, <2>2, <2>3, <3>1, <3>3 DEF SplitsHandled
      <3>5. \A p \in Purchases : splits'[p] = splits[p] \/ splits'[p] \in SplitsLeft(splits[p])
        BY <3>4 DEF SplitsHandled
      <3>6. TypeInv' /\ SplitsInv'
        BY <1>t, <1>j, <2>1, <3>3, <3>5, IdleTypes
      <3>7. DeletionTypeInv'
        BY <1>t, <1>j, <2>1, <2>2, <2>3, <3>6 DEF DeletionTypeInv, JobInv
      <3>8. /\ \A p \in Purchases : PurchaseHandled(p)
            /\ \A s \in Sales : SaleHandled(s)
        BY <1>j DEF PurchaseHandled, SaleHandled
      <3>9. QED
        BY <1>j, <2>1, <2>2, <2>3, <3>4, <3>7, <3>8 DEF Handled
    <2>4. CASE splits[job.tx].quantity = 0 /\ Goto("flagIfNeeded") /\ UNCHANGED splits
      <3>1. TypeInv' /\ SplitsInv'
        BY <1>t, <1>j, <2>1, <2>4, IdleTypes
      <3>2. DeletionTypeInv'
        BY <1>t, <1>j, <1>g, <2>2, <2>4, <3>1 DEF DeletionTypeInv, JobInv
      <3>3. /\ \A p \in Purchases : PurchaseHandled(p)
            /\ \A s \in Sales : SaleHandled(s)
            /\ \A p \in Purchases : SplitsHandled(p)
        BY <1>j, <2>4 DEF PurchaseHandled, SaleHandled, SplitsHandled
      <3>4. QED
        BY <1>j, <1>g, <2>1, <2>2, <2>4, <3>2, <3>3 DEF Handled
    <2>5. QED
      BY <1>1, <2>3, <2>4 DEF cascadeDeleteInventoryTransactions
  <1>2. CASE cascadeDeleteFinancialTransactions
    <2>1. /\ job.step = "cogs" /\ splits' = splits /\ Goto("flagIfNeeded")
          /\ cogs' = [cogs EXCEPT ![job.tx] = IF @ = <<>> THEN @ ELSE Tail(@)]
      BY <1>2 DEF cascadeDeleteFinancialTransactions, At
    <2>2. job.kind = "sale" /\ job.tx \in gone \cap Sales
      BY <2>1 DEF DeletionTypeInv, JobInv
    <2>3. /\ cogs' \in [Sales -> Seq(Int)]
          /\ cogs'[job.tx] = IF cogs[job.tx] = <<>> THEN <<>> ELSE Tail(cogs[job.tx])
          /\ \A s \in Sales : s # job.tx => cogs'[s] = cogs[s]
      BY <1>t, <2>1, <2>2
    <2>4. TypeInv' /\ SplitsInv'
      BY <1>t, <1>j, <2>1, <2>3, IdleTypes
    <2>5. DeletionTypeInv'
      BY <1>t, <1>j, <1>g, <2>1, <2>2, <2>4 DEF DeletionTypeInv, JobInv
    <2>6. /\ \A p \in Purchases : PurchaseHandled(p)
          /\ \A s \in Sales : SaleHandled(s)
          /\ \A p \in Purchases : SplitsHandled(p)
      BY <1>j, <2>1 DEF PurchaseHandled, SaleHandled, SplitsHandled
    <2>7. QED
      BY <1>j, <1>g, <2>1, <2>3, <2>5, <2>6 DEF Handled
  <1>3. QED
    BY <1>1, <1>2

\* A handler flags the account, looks up a purchase code, or answers.
LEMMA FlagEffect ==
    ASSUME DeletionTypeInv,
           \/ flagInventoryAccountForRebuildIfNeeded \/ FlagRebuild \/ LookUpPurchaseCode
           \/ Answer
    PROVE  Handled
  <1>t. /\ TypeInv /\ SplitsInv /\ buy \in [Purchases -> PurchaseRecords]
        /\ splits \in [Purchases -> Totals] /\ sell \in [Sales -> SaleRecords]
        /\ note \in [CreditNotes -> EntryRecords] /\ props \in Props
        /\ cogs \in [Sales -> Seq(Int)] /\ extras \in [Codes -> [add : Nat, credit : Nat]]
        /\ job \in Jobs /\ gone \subseteq Transactions /\ missed \in BOOLEAN /\ failures \in Nat
    BY Types DEF DeletionTypeInv
  <1>1. /\ pc = "idle"
        /\ UNCHANGED <<pc, run, copy, local, queue, current, plan, crashes, torn, buy, splits,
                       sell, note, status, cogs, extras, lockDate, gone, failures>>
    BY DEF flagInventoryAccountForRebuildIfNeeded, FlagRebuild, LookUpPurchaseCode, Answer, At,
           run, books
  <1>2. props' \in {props, Flagged} /\ (job.step = "flag" => props'.needsRebuild)
    <2>1. CASE flagInventoryAccountForRebuildIfNeeded \/ FlagRebuild \/ Answer
      BY <2>1, FlaggedFacts, <1>t
         DEF flagInventoryAccountForRebuildIfNeeded, FlagRebuild, Answer, At, books
    <2>2. CASE LookUpPurchaseCode
      BY <2>2 DEF LookUpPurchaseCode, At
    <2>3. QED
      BY <2>1, <2>2
  <1>3. props' \in Props /\ (props.needsRebuild => props'.needsRebuild)
    BY <1>t, <1>2, FlaggedFacts
  <1>4. /\ job' \in Jobs /\ job'.step \in {"none", "answer"}
        /\ job'.step # "none" => job'.kind = job.kind /\ job'.tx = job.tx
        /\ missed' \in BOOLEAN /\ (missed => missed')
    <2>1. CASE Answer
      <3>1. NoJob \in Jobs /\ NoJob.step = "none"
        BY DEF NoJob, Jobs, Kinds, Steps, NoDate, NoTx
      <3>2. QED
        BY <1>t, <2>1, <3>1 DEF Answer, Props, Jobs
    <2>2. CASE Goto("answer") /\ missed' = missed
      <3>1. "answer" \in Steps
        BY DEF Steps
      <3>2. QED
        BY <1>t, <2>2, <3>1, NextCall
    <2>3. QED
      BY <2>1, <2>2 DEF flagInventoryAccountForRebuildIfNeeded, FlagRebuild, LookUpPurchaseCode
  <1>5. TypeInv' /\ SplitsInv'
    BY <1>t, <1>1, <1>3, IdleTypes
  <1>6. DeletionTypeInv'
    BY <1>t, <1>1, <1>4, <1>5 DEF DeletionTypeInv, JobInv
  <1>7. job.step \notin {"root", "trash", "splits", "cogs"}
    BY DEF flagInventoryAccountForRebuildIfNeeded, FlagRebuild, LookUpPurchaseCode, Answer, At
  <1>8. /\ \A p \in Purchases : PurchaseHandled(p)
        /\ \A s \in Sales : SaleHandled(s)
        /\ \A p \in Purchases : SplitsHandled(p)
    BY <1>1 DEF PurchaseHandled, SaleHandled, SplitsHandled
  <1>9. QED
    BY <1>1, <1>2, <1>3, <1>4, <1>6, <1>7, <1>8 DEF Handled

\* Every call of a handler.
LEMMA HandlerStepEffect ==
    ASSUME DeletionTypeInv, HandlerSteps
    PROVE  Handled
  BY NotFoundEffect, TrashEffect, CascadeEffect, FlagEffect DEF HandlerSteps

\* A handler that dies leaves the books as they are.
LEMMA HandlerFailsEffect ==
    ASSUME DeletionTypeInv, HandlerFails
    PROVE  /\ UNCHANGED <<books, pc, copy, local, queue, current, plan, crashes, torn>>
           /\ missed' /\ DeletionTypeInv' /\ job.step # "none" /\ pc = pc'
           /\ \/ job'.step = "none"
              \/ job'.step = "root" /\ job'.kind = job.kind /\ job.kind \in {"purchase", "sale", "posted"}
  <1>1. /\ UNCHANGED <<books, pc, copy, local, queue, current, plan, crashes, torn, gone>>
        /\ missed' = TRUE /\ job.step \notin {"none", "answer"} /\ failures' = failures + 1
        /\ \/ job' = NoJob
           \/ job.step \in {"trash", "splits", "cogs", "flagIfNeeded"} /\ Goto("root")
    BY DEF HandlerFails, run
  <1>2. TypeInv' /\ SplitsInv'
    BY <1>1 DEF DeletionTypeInv, TypeInv, TypeOK, SplitsInv, Calculating, books
  <1>3. NoJob \in Jobs /\ NoJob.step = "none" /\ "root" \in Steps
    BY DEF NoJob, Jobs, Kinds, Steps, NoDate, NoTx
  <1>4. CASE job' = NoJob
    BY <1>1, <1>2, <1>3, <1>4 DEF DeletionTypeInv, JobInv
  <1>5. CASE job.step \in {"trash", "splits", "cogs", "flagIfNeeded"} /\ Goto("root")
    <2>1. /\ job.tx \in gone
          /\ \/ job.kind = "purchase" /\ job.tx \in Purchases
             \/ job.kind \in {"sale", "posted"} /\ job.tx \in Sales
      BY <1>5 DEF DeletionTypeInv, JobInv
    <2>2. job' \in Jobs /\ job'.kind = job.kind /\ job'.tx = job.tx /\ job'.step = "root"
      BY <1>3, <1>5, NextCall
    <2>3. QED
      BY <1>1, <1>2, <2>1, <2>2 DEF DeletionTypeInv, JobInv
  <1>6. QED
    BY <1>1, <1>4, <1>5
------------------------------------------------------------------------------
(* The types *)

\* A step of the engine, or none at all, leaves the handler where it is.
LEMMA EngineType ==
    ASSUME DeletionTypeInv, Engine \/ UNCHANGED deletionVars
    PROVE  /\ DeletionTypeInv' /\ [Next]_vars
           /\ UNCHANGED <<job, gone, missed, failures, crashes, torn>>
  <1>1. [Next]_vars /\ UNCHANGED <<job, gone, missed, failures>>
    BY DEF Engine, Next, deletionVars
  <1>2. TypeInv' /\ SplitsInv'
    BY <1>1, TypeStep, SplitsStep DEF DeletionTypeInv
  <1>3. /\ \A p \in gone \cap Purchases : buy'[p].posted => buy[p].posted
        /\ \A s \in gone \cap Sales : sell'[s].posted => sell[s].posted
    BY DEF Engine, NotRecordedAgain, deletionVars, vars, books
  <1>4. ASSUME UNCHANGED deletionVars PROVE UNCHANGED <<crashes, torn>>
    BY <1>4 DEF deletionVars, vars
  <1>5. ASSUME StartCalculation \/ StartReset \/ Handlers PROVE UNCHANGED <<crashes, torn>>
    BY <1>5 DEF StartCalculation, StartReset, Handlers, PostPurchase, PostSale, PostCreditNote,
       RecordAdditionalCost, RecordCredit, CloseBooks
  <1>6. ASSUME Calculation PROVE UNCHANGED <<crashes, torn>>
    BY <1>6 DEF Calculation, ListTransactions, ProcessCreditNote, CreditNotesDone, NextSale,
       LiquidatePurchase, SplitPurchase, RejectSplit, FinishSale, SalesDone,
       CreateInventoryTransactions, UpdateInventoryTransactions, CreateFinancialTransactions,
       storeLastCalcTxDate
  <1>7. ASSUME Reset PROVE UNCHANGED <<crashes, torn>>
    BY <1>7 DEF Reset, ReadAccountToReset, ListTransactionsToReset, TrashFinancialTransactions,
       RestoreInventoryTransactions, TrashInventoryTransactions, ClearAccount
  <1>8. UNCHANGED <<crashes, torn>>
    BY <1>4, <1>5, <1>6, <1>7 DEF Engine
  <1>9. QED
    BY <1>1, <1>2, <1>3, <1>8 DEF DeletionTypeInv, JobInv

\* DeletionTypeInv is an invariant.
LEMMA DeletionTypeInvariant == DeletionSpec => []DeletionTypeInv
  <1>1. DeletionInit => DeletionTypeInv
    <2> SUFFICES ASSUME DeletionInit PROVE DeletionTypeInv
      OBVIOUS
    <2>0. SplitsInv
      BY DEF DeletionInit, Init, SplitsInv, NoTotals, EmptyPlan, Calculating
    <2>1. /\ TypeInv /\ SplitsInv
          /\ job = NoJob /\ gone = {} /\ missed = FALSE /\ failures = 0
      BY <2>0, InitType DEF DeletionInit
    <2>2. NoJob \in Jobs /\ NoJob.step = "none"
      BY DEF NoJob, Jobs, Kinds, Steps, NoDate, NoTx
    <2>3. JobInv
      BY <2>1, <2>2 DEF JobInv
    <2>4. QED
      BY <2>1, <2>2, <2>3 DEF DeletionTypeInv
  <1>2. DeletionTypeInv /\ [DeletionNext]_deletionVars => DeletionTypeInv'
    <2> SUFFICES ASSUME DeletionTypeInv, [DeletionNext]_deletionVars PROVE DeletionTypeInv'
      OBVIOUS
    <2>1. CASE Engine \/ UNCHANGED deletionVars
      BY <2>1, EngineType
    <2>2. CASE UserEdits
      BY <2>2, EditEffect DEF Edited, DeletionTypeInv, JobInv
    <2>3. CASE HandlerSteps
      BY <2>3, HandlerStepEffect DEF Handled
    <2>4. CASE HandlerFails
      BY <2>4, HandlerFailsEffect
    <2>5. QED
      BY <2>1, <2>2, <2>3, <2>4 DEF DeletionNext
  <1>3. QED
    BY <1>1, <1>2, PTL DEF DeletionSpec

\* Whatever users delete, tick and untick, and wherever handlers die, the records of
\* the books, of the runs and of the handlers keep their types: no handler gets to a
\* call for which its event has no transaction.
THEOREM DeletionTypes == DeletionSpec => []DeletionTypeOK
  <1>1. DeletionTypeInv => DeletionTypeOK
    BY DEF DeletionTypeInv, DeletionTypeOK, TypeInv
  <1>2. QED
    BY <1>1, DeletionTypeInvariant, PTL
\* A purchase without units or costs in its splits has none.
LEMMA NoSplitsLeft ==
    ASSUME SplitsInv, NEW p \in Purchases, splits[p] \in Totals,
           splits[p].quantity = 0, splits[p].cost = 0
    PROVE  splits[p] = NoTotals
  <1>1. splits[p].credited <= splits[p].quantity /\ splits[p].loose <= splits[p].credited
    BY DEF SplitsInv
  <1>2. splits[p].credited = 0 /\ splits[p].loose = 0
    BY <1>1 DEF Totals
  <1>3. QED
    BY <1>2 DEF Totals, NoTotals
------------------------------------------------------------------------------
(* A reset repairs what is left after any edits *)

\* A run that ends without touching the Inventory Book.
LEMMA RepairFinish ==
    ASSUME RepairInv, UNCHANGED <<buy, splits, sell, note>>, Finish
    PROVE  RepairInv'
  <1>1. /\ queue'.buys = {} /\ queue'.sales = {} /\ queue'.notes = {}
        /\ current'.sale = NoSale
        /\ plan'.buys = {} /\ plan'.sells = {} /\ plan'.notes = {}
        /\ plan' = EmptyPlan /\ pc' = "idle"
    BY DEF Finish, EmptyQueue, EmptyPlan, NoCurrentSale
  <1>2. GoneInv'
    BY DEF RepairInv, GoneInv
  <1>3. MemoryInv'
    BY <1>1, NameAssumption DEF MemoryInv
  <1>4. EmptyHandedInv' /\ PlannedInv' /\ RepairedInv'
    BY <1>1 DEF EmptyHandedInv, PlannedInv, RepairedInv, Calculating
  <1>5. QED
    BY <1>2, <1>3, <1>4 DEF RepairInv

\* A step of a calculation before its batches.
LEMMA RepairCalculation ==
    ASSUME RepairInv, UNCHANGED <<buy, splits, sell, note>>, Calculating',
           MemoryInv', PlannedInv'
    PROVE  RepairInv'
  <1>1. GoneInv'
    BY DEF RepairInv, GoneInv
  <1>2. EmptyHandedInv' /\ RepairedInv'
    BY DEF EmptyHandedInv, RepairedInv, Calculating
  <1>3. QED
    BY <1>1, <1>2 DEF RepairInv

\* The steps of the loops over credit notes, sales and purchases.
LEMMA RepairLoops ==
    ASSUME TypeInv, RepairInv, NoLooseSplits,
           \/ \E d \in Dates : ListTransactions(d) /\ ~Finish
           \/ \E n \in CreditNotes : ProcessCreditNote(n) /\ ~Finish
           \/ CreditNotesDone \/ SalesDone
           \/ \E s \in Sales : NextSale(s)
           \/ \E p \in Purchases : LiquidatePurchase(p) \/ SplitPurchase(p)
           \/ FinishSale /\ ~Finish
    PROVE  RepairInv'
  <1>t. /\ buy \in [Purchases -> PurchaseRecords] /\ local \in [Purchases -> PurchaseRecords]
        /\ plan.splits \in [Purchases -> Totals]
        /\ sell \in [Sales -> SaleRecords] /\ note \in [CreditNotes -> EntryRecords]
        /\ plan.buys \subseteq Purchases /\ queue.buys \subseteq Purchases
        /\ plan.sells \subseteq Sales /\ queue.sales \subseteq Sales
        /\ plan.notes \subseteq CreditNotes /\ queue.notes \subseteq CreditNotes
        /\ current.sold \in Nat
    BY Types
  <1>m. MemoryInv /\ PlannedInv
    BY DEF RepairInv
  <1>q. \A p \in Purchases : plan.splits[p].quantity \in Nat /\ plan.splits[p].cost \in Int
    BY <1>t DEF Totals
  <1>1. ASSUME NEW d \in Dates, ListTransactions(d), ~Finish
        PROVE  RepairInv'
    <2>1. /\ pc = "list" /\ pc' = "credits" /\ local' = buy
          /\ UNCHANGED <<buy, splits, sell, note, current, plan>>
          /\ queue'.buys \in OnePerKey(Unchecked(buy, d), CodeOf)
          /\ queue'.notes \in OnePerKey(Unchecked(note, d), NoteNumber)
          /\ queue'.sales = Unchecked(sell, d)
      BY <1>1, ListEffect DEF books
    <2>2. plan = EmptyPlan
      BY <1>m, <2>1 DEF MemoryInv
    <2>3. /\ plan'.buys = {} /\ plan'.sells = {} /\ plan'.notes = {}
          /\ \A p \in Purchases : plan'.splits[p] = NoTotals
      BY <2>1, <2>2 DEF EmptyPlan
    <2>4. /\ \A p \in queue'.buys : buy[p].posted
          /\ \A s \in queue'.sales : sell[s].posted
          /\ \A n \in queue'.notes : note[n].posted
      BY <2>1 DEF OnePerKey, Unchecked
    <2>5. MemoryInv'
      BY <1>m, <2>1, <2>3, <2>4 DEF MemoryInv
    <2>6. PlannedInv'
      BY <2>1, <2>3, <2>4 DEF PlannedInv, NoTotals
    <2>7. QED
      BY <2>1, <2>5, <2>6, RepairCalculation DEF Calculating
  <1>2. ASSUME NEW n \in CreditNotes, ProcessCreditNote(n), ~Finish
        PROVE  RepairInv'
    <2>1. /\ pc = "credits" /\ pc' = "credits" /\ n \in queue.notes
          /\ UNCHANGED <<buy, splits, sell, note, current>>
          /\ queue'.notes = queue.notes \ {n} /\ queue'.buys = queue.buys
          /\ queue'.sales = queue.sales /\ plan'.sells = plan.sells
      BY <1>2, CreditNoteEffect DEF books
    <2>2. note[n].quantity \in Nat /\ note[n].posted
      BY <1>t, <1>m, <2>1 DEF EntryRecords, MemoryInv
    <2>3. CASE UNCHANGED <<local, plan>>
      <3>1. MemoryInv'
        BY <1>m, <2>1, <2>3 DEF MemoryInv
      <3>2. PlannedInv'
        BY <1>m, <2>1, <2>3 DEF PlannedInv, Calculating
      <3>3. QED
        BY <2>1, <3>1, <3>2, RepairCalculation DEF Calculating
    <2>4. ASSUME NEW p \in queue.buys, local'[p].posted = local[p].posted,
                 plan'.splits[p].cost = plan.splits[p].cost,
                 plan'.splits[p].quantity = plan.splits[p].quantity + note[n].quantity,
                 plan'.notes = plan.notes \cup {n}, plan'.buys = plan.buys \cup {p},
                 \A r \in Purchases : r # p =>
                    local'[r] = local[r] /\ plan'.splits[r] = plan.splits[r]
          PROVE  RepairInv'
      <3>1. MemoryInv'
        BY <1>m, <2>1, <2>2, <2>4 DEF MemoryInv
      <3>2. plan'.splits[p].quantity = 0 => plan'.splits[p].cost = 0
        BY <1>t, <1>m, <1>q, <2>1, <2>2, <2>4 DEF PlannedInv, Calculating
      <3>3. PlannedInv'
        BY <1>t, <1>m, <2>1, <2>4, <3>2 DEF PlannedInv, Calculating
      <3>4. QED
        BY <2>1, <3>1, <3>3, RepairCalculation DEF Calculating
    <2>5. QED
      BY <1>2, <2>3, <2>4, CreditNoteEffect
  <1>3. CASE CreditNotesDone \/ SalesDone
    <2>1. /\ pc \in {"credits", "sales"} /\ pc' \in {"sales", "createInventory"}
          /\ UNCHANGED <<buy, splits, sell, note, local, queue, current, plan>>
      BY <1>3 DEF CreditNotesDone, SalesDone, fireBatchOperations, run, books
    <2>2. MemoryInv'
      BY <1>m, <2>1 DEF MemoryInv
    <2>3. PlannedInv'
      BY <1>m, <2>1 DEF PlannedInv, Calculating
    <2>4. QED
      BY <2>1, <2>2, <2>3, RepairCalculation DEF Calculating
  <1>4. ASSUME NEW s \in Sales, NextSale(s)
        PROVE  RepairInv'
    <2>1. /\ pc = "sales" /\ pc' = "purchases" /\ s \in queue.sales /\ current'.sale = s
          /\ UNCHANGED <<buy, splits, sell, note, local, plan>>
      BY <1>4 DEF NextSale, OldestSales, books
    <2>2. /\ queue'.buys = queue.buys /\ queue'.notes = queue.notes
          /\ queue'.sales \subseteq queue.sales
      BY <1>4 DEF NextSale, TypeInv, TypeOK, Queues
    <2>3. MemoryInv'
      BY <1>m, <2>1, <2>2 DEF MemoryInv
    <2>4. PlannedInv'
      BY <1>m, <2>1, <2>2 DEF PlannedInv, Calculating
    <2>5. QED
      BY <2>1, <2>3, <2>4, RepairCalculation DEF Calculating
  <1>5. ASSUME NEW p \in Purchases, LiquidatePurchase(p)
        PROVE  RepairInv'
    <2>1. /\ pc = "purchases" /\ pc' = "purchases" /\ UNCHANGED <<buy, splits, sell, note, queue>>
          /\ p \in queue.buys /\ current'.sale = current.sale
          /\ local'[p].posted = local[p].posted
          /\ \A r \in Purchases : r # p => local'[r] = local[r]
          /\ plan'.splits = plan.splits /\ plan'.buys = plan.buys \cup {p}
          /\ plan'.sells = plan.sells /\ plan'.notes = plan.notes
      BY <1>5, LiquidateEffect DEF Available, books
    <2>2. MemoryInv'
      BY <1>m, <2>1 DEF MemoryInv
    <2>3. PlannedInv'
      BY <1>t, <1>m, <2>1 DEF PlannedInv, Calculating
    <2>4. QED
      BY <2>1, <2>2, <2>3, RepairCalculation DEF Calculating
  <1>6. ASSUME NEW p \in Purchases, SplitPurchase(p)
        PROVE  RepairInv'
    <2>1. /\ pc = "purchases" /\ pc' = "purchases" /\ UNCHANGED <<buy, splits, sell, note, queue>>
          /\ p \in queue.buys /\ current'.sale = current.sale /\ current.sold > 0
          /\ local'[p].posted = local[p].posted
          /\ \A r \in Purchases : r # p =>
                local'[r] = local[r] /\ plan'.splits[r] = plan.splits[r]
          /\ plan'.splits[p].quantity = plan.splits[p].quantity + current.sold
          /\ plan'.buys = plan.buys \cup {p}
          /\ plan'.sells = plan.sells /\ plan'.notes = plan.notes
      BY <1>6, SplitEffect DEF Available, books
    <2>2. plan'.splits[p].quantity # 0
      BY <1>t, <1>q, <2>1
    <2>3. MemoryInv'
      BY <1>m, <2>1 DEF MemoryInv
    <2>4. PlannedInv'
      BY <1>t, <1>m, <2>1, <2>2 DEF PlannedInv, Calculating
    <2>5. QED
      BY <2>1, <2>3, <2>4, RepairCalculation DEF Calculating
  <1>7. CASE FinishSale /\ ~Finish
    <2>1. /\ pc = "purchases" /\ pc' = "sales" /\ UNCHANGED <<buy, splits, sell, note, local, queue>>
          /\ current'.sale = NoSale
          /\ plan'.splits = plan.splits /\ plan'.buys = plan.buys /\ plan'.notes = plan.notes
          /\ plan'.sells \subseteq plan.sells \cup {current.sale}
      BY <1>7, FinishSaleEffect DEF books, NoCurrentSale
    <2>2. MemoryInv'
      BY <1>m, <2>1, NameAssumption DEF MemoryInv
    <2>3. PlannedInv'
      BY <1>m, <2>1 DEF PlannedInv, Calculating
    <2>4. QED
      BY <2>1, <2>2, <2>3, RepairCalculation DEF Calculating
  <1>8. QED
    BY <1>1, <1>2, <1>3, <1>4, <1>5, <1>6, <1>7

\* The steps of the engine keep RepairInv.
LEMMA RepairStep ==
    ASSUME TypeInv, SplitsInv, RepairInv, CalmInv, [Next]_vars, UNCHANGED <<crashes, torn>>
    PROVE  RepairInv' /\ CalmInv'
  <1>t. /\ buy \in [Purchases -> PurchaseRecords] /\ local \in [Purchases -> PurchaseRecords]
        /\ splits \in [Purchases -> Totals] /\ plan.splits \in [Purchases -> Totals]
        /\ sell \in [Sales -> SaleRecords] /\ note \in [CreditNotes -> EntryRecords]
        /\ plan.buys \subseteq Purchases /\ queue.buys \subseteq Purchases
        /\ plan.trash \subseteq Purchases
        /\ plan.sells \subseteq Sales /\ queue.sales \subseteq Sales
        /\ plan.notes \subseteq CreditNotes /\ queue.notes \subseteq CreditNotes
    BY Types
  <1>m. GoneInv /\ EmptyHandedInv /\ MemoryInv /\ PlannedInv /\ RepairedInv
    BY DEF RepairInv
  <1>0. CalmInv'
    <2>1. LooseInv
      BY DEF CalmInv, LooseInv
    <2>2. pc = "trashInventory" => \A p \in Purchases : p \notin plan.trash => splits[p] = NoTotals
      BY <1>m DEF RepairedInv
    <2>3. LooseInv'
      BY <2>1, <2>2, LooseStep
    <2>4. QED
      BY <2>3 DEF CalmInv, LooseInv
  <1> SUFFICES RepairInv'
    BY <1>0
  <1>1. CASE UNCHANGED vars
    BY <1>1 DEF vars, books, run, RepairInv, GoneInv, EmptyHandedInv, MemoryInv, PlannedInv,
                RepairedInv, Untouched, Calculating
  <1>2. CASE Handlers
    <2>1. /\ UNCHANGED <<pc, local, queue, current, plan, splits>>
          /\ \A p \in Purchases : buy'[p] # buy[p] =>
                /\ ~buy[p].posted /\ buy'[p].posted /\ ~buy'[p].checked /\ ~buy'[p].seen
                /\ buy'[p].amount = buy'[p].quantity /\ buy'[p].totalCost = buy'[p].cost
          /\ \A s \in Sales : sell'[s] # sell[s] =>
                ~sell[s].posted /\ sell'[s].posted /\ ~sell'[s].logged
          /\ \A n \in CreditNotes : note'[n] # note[n] =>
                ~note[n].posted /\ note'[n].posted /\ ~note'[n].checked
      BY <1>2, HandlerEffect
    <2>2. GoneInv'
      BY <1>m, <2>1 DEF GoneInv
    <2>3. EmptyHandedInv'
      BY <1>m, <2>1 DEF EmptyHandedInv
    <2>4. PlannedInv'
      BY <1>m, <2>1 DEF PlannedInv, Calculating
    <2>5. MemoryInv'
      BY <1>t, <1>m, <2>1 DEF MemoryInv
    <2>6. \A p \in Purchases : Untouched(p) => Untouched(p)'
      BY <2>1 DEF Untouched
    <2>7. /\ \A s \in Sales : ~sell[s].logged => ~sell'[s].logged
          /\ \A n \in CreditNotes : ~note[n].checked => ~note'[n].checked
      BY <2>1
    <2>8. RepairedInv'
      BY <1>m, <2>1, <2>6, <2>7 DEF RepairedInv
    <2>9. QED
      BY <2>2, <2>3, <2>4, <2>5, <2>8 DEF RepairInv
  <1>3. CASE Finish /\ UNCHANGED <<buy, splits, sell, note>>
    BY <1>3, RepairFinish
  <1>4. CASE StartCalculation \/ StartReset \/ ReadAccountToReset
    <2>1. /\ pc \in {"idle", "reset"} /\ pc' \in {"idle", "list", "reset", "resetList"}
          /\ UNCHANGED <<buy, splits, sell, note, local, queue, current, plan>>
      BY <1>4 DEF StartCalculation, StartReset, ReadAccountToReset, run, books
    <2>2. GoneInv' /\ EmptyHandedInv' /\ MemoryInv'
      BY <1>m, <2>1 DEF GoneInv, EmptyHandedInv, MemoryInv
    <2>3. PlannedInv' /\ RepairedInv'
      BY <1>m, <2>1 DEF PlannedInv, RepairedInv, Calculating
    <2>4. QED
      BY <2>2, <2>3 DEF RepairInv
  <1>5. CASE \/ \E d \in Dates : ListTransactions(d)
             \/ \E n \in CreditNotes : ProcessCreditNote(n)
             \/ FinishSale
    <2>1. CASE Finish
      BY <1>3, <1>5, <2>1 DEF ListTransactions, ProcessCreditNote, FinishSale, books
    <2>2. CASE ~Finish
      <3>1. NoLooseSplits
        BY <1>5 DEF CalmInv, ListTransactions, ProcessCreditNote, FinishSale
      <3>2. QED
        BY <1>5, <2>2, <3>1, RepairLoops
    <2>3. QED
      BY <2>1, <2>2
  <1>6. CASE \/ CreditNotesDone \/ SalesDone
             \/ \E s \in Sales : NextSale(s)
             \/ \E p \in Purchases : LiquidatePurchase(p) \/ SplitPurchase(p)
    <2>1. NoLooseSplits
      BY <1>6 DEF CalmInv, CreditNotesDone, SalesDone, NextSale, LiquidatePurchase, SplitPurchase
    <2>2. QED
      BY <1>6, <2>1, RepairLoops
  <1>7. CASE CreateInventoryTransactions
    <2>1. /\ pc = "createInventory" /\ pc' = "updateInventory"
          /\ UNCHANGED <<buy, sell, note, local, queue, current, plan>>
      BY <1>7 DEF CreateInventoryTransactions, fireBatchOperations, run
    <2>2. \A p \in Purchases : /\ splits[p].quantity \in Nat /\ plan.splits[p].quantity \in Nat
                               /\ splits[p].cost \in Int /\ plan.splits[p].cost \in Int
      BY <1>t DEF Totals
    <2>3. \A p \in Purchases : plan.splits[p].quantity = 0 => plan.splits[p].cost = 0
      BY <1>m, <2>1 DEF PlannedInv, Calculating
    <2>4. \A p \in Purchases : splits'[p].quantity = 0 => splits'[p].cost = 0
      <3> SUFFICES ASSUME NEW p \in Purchases, splits'[p].quantity = 0
                   PROVE  splits'[p].cost = 0
        OBVIOUS
      <3>1. /\ splits'[p].quantity = splits[p].quantity + plan.splits[p].quantity
            /\ splits'[p].cost = splits[p].cost + plan.splits[p].cost
        <4>1. splits'[p] = [quantity |-> splits[p].quantity + plan.splits[p].quantity,
                            cost |-> splits[p].cost + plan.splits[p].cost,
                            credited |-> splits[p].credited + plan.splits[p].credited,
                            loose |-> splits[p].loose]
          BY <1>7 DEF CreateInventoryTransactions
        <4>2. QED
          BY <4>1
      <3>2. splits[p].quantity = 0 /\ plan.splits[p].quantity = 0
        BY <2>2, <3>1
      <3>3. splits[p].cost = 0 /\ plan.splits[p].cost = 0
        BY <1>m, <2>3, <3>2 DEF GoneInv
      <3>4. QED
        BY <3>1, <3>3
    <2>5. GoneInv' /\ EmptyHandedInv' /\ MemoryInv'
      BY <1>m, <2>1, <2>4 DEF GoneInv, EmptyHandedInv, MemoryInv
    <2>6. PlannedInv' /\ RepairedInv'
      BY <1>m, <2>1 DEF PlannedInv, RepairedInv, Calculating
    <2>7. QED
      BY <2>5, <2>6 DEF RepairInv
  <1>8. CASE UpdateInventoryTransactions
    <2>0. queue.splits = {} /\ pc = "updateInventory"
      <3>1. pc = "updateInventory" /\ NoLooseSplits
        BY <1>8 DEF UpdateInventoryTransactions, CalmInv
      <3>2. QED
        BY <3>1, NoneListed
    <2>1. /\ pc = "updateInventory" /\ pc' = "createFinancial"
          /\ UNCHANGED <<local, queue, current, plan>>
          /\ \A p \in Purchases : buy'[p] = IF p \in plan.buys THEN local[p] ELSE buy[p]
          /\ \A p \in Purchases : splits'[p] = splits[p]
          /\ sell' = LogAll(sell, plan.sells) /\ note' = CheckAll(note, plan.notes)
      BY <1>8, <2>0 DEF UpdateInventoryTransactions, fireBatchOperations, run
    <2>2. \A s \in Sales : /\ sell'[s].posted = sell[s].posted
                           /\ s \notin plan.sells => sell'[s] = sell[s]
      BY <1>t, <2>1 DEF LogAll, SaleRecords
    <2>3. \A n \in CreditNotes : /\ note'[n].posted = note[n].posted
                                 /\ n \notin plan.notes => note'[n] = note[n]
      BY <1>t, <2>1 DEF CheckAll, EntryRecords
    <2>4. \A p \in plan.buys : local[p].posted
      BY <1>m, <2>1 DEF PlannedInv
    <2>5. GoneInv'
      BY <1>m, <2>1, <2>2, <2>3, <2>4 DEF GoneInv, MemoryInv
    <2>6. MemoryInv'
      BY <1>t, <1>m, <2>1, <2>2, <2>3, <2>4 DEF MemoryInv
    <2>7. EmptyHandedInv' /\ PlannedInv' /\ RepairedInv'
      BY <1>m, <2>1 DEF EmptyHandedInv, PlannedInv, RepairedInv, Calculating
    <2>8. QED
      BY <2>5, <2>6, <2>7 DEF RepairInv
  <1>9. CASE CreateFinancialTransactions \/ TrashFinancialTransactions
    <2>1. /\ <<pc, pc'>> \in {<<"createFinancial", "storeDate">>,
                              <<"trashFinancial", "restoreInventory">>}
          /\ UNCHANGED <<buy, splits, sell, note, local, queue, current, plan>>
      BY <1>9 DEF CreateFinancialTransactions, TrashFinancialTransactions, fireBatchOperations,
                  fireResetOperations, run
    <2>2. GoneInv' /\ EmptyHandedInv' /\ MemoryInv'
      BY <1>m, <2>1 DEF GoneInv, EmptyHandedInv, MemoryInv
    <2>3. PlannedInv' /\ RepairedInv'
      BY <1>m, <2>1 DEF PlannedInv, RepairedInv, Calculating, Untouched
    <2>4. QED
      BY <2>2, <2>3 DEF RepairInv
  <1>10. CASE \/ storeLastCalcTxDate \/ ClearAccount \/ Crash
              \/ \E p \in Purchases : RejectSplit(p)
    BY <1>3, <1>10 DEF storeLastCalcTxDate, ClearAccount, Crash, RejectSplit, books
  <1>11. CASE ListTransactionsToReset /\ Finish
    BY <1>3, <1>11 DEF ListTransactionsToReset, books
  <1>12. CASE ListTransactionsToReset /\ ~Finish
    <2>1. /\ pc = "resetList" /\ pc' = "trashFinancial"
          /\ UNCHANGED <<buy, splits, sell, note, local, queue, current>>
          /\ plan'.buys = Posted(buy) /\ plan'.notes = Posted(note)
          /\ plan'.sells = {s \in Posted(sell) : sell[s].logged /\ sell[s].bot}
          /\ plan'.trash = {p \in Purchases : splits[p].quantity > 0}
      BY <1>12 DEF ListTransactionsToReset, SplitsToTrash, fireResetOperations, books
    <2>2. GoneInv' /\ EmptyHandedInv'
      BY <1>m, <2>1 DEF GoneInv, EmptyHandedInv
    <2>3. MemoryInv'
      BY <1>t, <1>m, <2>1 DEF MemoryInv, Posted
    <2>4. PlannedInv'
      BY <1>m, <2>1 DEF PlannedInv, Calculating
    <2>5. \A p \in Purchases : p \notin plan'.buys => Untouched(p)
      BY <1>t, <1>m, <2>1 DEF GoneInv, Posted, Untouched, NoPurchase
    <2>6. ASSUME NEW p \in Purchases, p \notin plan'.trash
          PROVE  splits[p] = NoTotals
      <3>1. splits[p] \in Totals /\ ~(splits[p].quantity > 0)
        BY <1>t, <2>1, <2>6
      <3>2. splits[p].quantity = 0
        BY <3>1 DEF Totals
      <3>3. splits[p].cost = 0
        BY <1>m, <3>2 DEF GoneInv
      <3>4. QED
        BY <3>1, <3>2, <3>3, NoSplitsLeft
    <2>7. /\ \A s \in Sales : s \notin plan'.sells /\ sell[s].bot => ~sell[s].logged
          /\ \A n \in CreditNotes : n \notin plan'.notes => ~note[n].checked
      BY <1>t, <1>m, <2>1 DEF GoneInv, Posted
    <2>8. RepairedInv'
      BY <2>1, <2>5, <2>6, <2>7 DEF RepairedInv, Untouched
    <2>9. QED
      BY <2>2, <2>3, <2>4, <2>8 DEF RepairInv
  <1>13. CASE RestoreInventoryTransactions
    <2>1. /\ pc = "restoreInventory" /\ pc' = "trashInventory"
          /\ UNCHANGED <<local, queue, current, plan>>
          /\ \A p \in Purchases :
                buy'[p] = IF p \in plan.buys THEN Restored(buy[p]) ELSE buy[p]
          /\ \A p \in Purchases :
                splits'[p] = IF p \in plan.trash THEN [splits[p] EXCEPT !.loose = splits[p].credited]
                             ELSE splits[p]
          /\ sell' = UnlogAll(sell, plan.sells) /\ note' = UncheckAll(note, plan.notes)
      BY <1>13 DEF RestoreInventoryTransactions, fireResetOperations, run
    <2>s. \A p \in Purchases : splits'[p].quantity = splits[p].quantity
                              /\ splits'[p].cost = splits[p].cost
      BY <1>t, <2>1 DEF Totals
    <2>2. \A s \in Sales : /\ sell'[s].posted = sell[s].posted /\ sell'[s].bot = sell[s].bot
                           /\ s \notin plan.sells => sell'[s] = sell[s]
                           /\ s \in plan.sells => ~sell'[s].logged
      BY <1>t, <2>1 DEF UnlogAll, SaleRecords
    <2>3. \A n \in CreditNotes : /\ note'[n].posted = note[n].posted
                                 /\ n \notin plan.notes => note'[n] = note[n]
                                 /\ n \in plan.notes => ~note'[n].checked
      BY <1>t, <2>1 DEF UncheckAll, EntryRecords
    <2>4. \A p \in plan.buys :
            /\ buy'[p].posted = buy[p].posted
            /\ buy'[p].quantity = buy[p].quantity
            /\ buy'[p].amount = buy[p].quantity /\ buy'[p].totalCost = buy'[p].cost
            /\ ~buy'[p].checked /\ ~buy'[p].seen
      BY <1>t, <2>1, RestoredFacts
    <2>5. \A p \in Purchases : p \notin plan.buys => buy'[p] = buy[p]
      BY <2>1
    <2>6. \A p \in plan.buys : buy[p].posted
      BY <1>m DEF MemoryInv
    <2>7. GoneInv'
      BY <1>t, <1>m, <2>1, <2>s, <2>2, <2>3, <2>4, <2>5, <2>6 DEF GoneInv
    <2>8. MemoryInv'
      BY <1>t, <1>m, <2>1, <2>2, <2>3, <2>4, <2>5 DEF MemoryInv
    <2>9. EmptyHandedInv' /\ PlannedInv'
      BY <1>m, <2>1 DEF EmptyHandedInv, PlannedInv, Calculating
    <2>10. \A p \in Purchases : Untouched(p)'
      BY <1>m, <2>1, <2>4, <2>5 DEF RepairedInv, Untouched
    <2>11. /\ \A s \in Sales : sell'[s].bot => ~sell'[s].logged
           /\ \A n \in CreditNotes : ~note'[n].checked
      BY <1>m, <2>1, <2>2, <2>3 DEF RepairedInv
    <2>12. \A p \in Purchases : p \notin plan'.trash => splits'[p] = NoTotals
      BY <1>m, <2>1 DEF RepairedInv
    <2>13. RepairedInv'
      BY <2>1, <2>10, <2>11, <2>12 DEF RepairedInv
    <2>14. QED
      BY <2>7, <2>8, <2>9, <2>13 DEF RepairInv
  <1>14. CASE TrashInventoryTransactions
    <2>1. /\ pc = "trashInventory" /\ pc' = "clearAccount"
          /\ UNCHANGED <<buy, sell, note, local, queue, current, plan>>
          /\ \A p \in Purchases : splits'[p] = IF p \in plan.trash THEN NoTotals ELSE splits[p]
      BY <1>14 DEF TrashInventoryTransactions, fireResetOperations, run
    <2>2. \A p \in Purchases : splits'[p] = NoTotals /\ Untouched(p)
      BY <1>m, <2>1 DEF RepairedInv
    <2>3. GoneInv' /\ EmptyHandedInv' /\ MemoryInv'
      BY <1>m, <2>1, <2>2 DEF GoneInv, EmptyHandedInv, MemoryInv, NoTotals
    <2>4. PlannedInv' /\ RepairedInv'
      BY <1>m, <2>1, <2>2 DEF PlannedInv, RepairedInv, Calculating, Untouched
    <2>5. QED
      BY <2>3, <2>4 DEF RepairInv
  <1>15. QED
    BY <1>1, <1>2, <1>4, <1>5, <1>6, <1>7, <1>8, <1>9, <1>10, <1>11, <1>12, <1>13, <1>14
       DEF Next, Calculation, Reset

\* Between runs nothing is held in memory, so that edits and handlers change only the
\* books.
LEMMA RepairIdle ==
    ASSUME TypeInv, RepairInv, CalmInv, pc = "idle",
           UNCHANGED <<pc, local, queue, current, plan, crashes, torn>>, GoneInv',
           \A p \in Purchases : splits'[p] = splits[p] \/ splits'[p].loose = 0
    PROVE  RepairInv' /\ CalmInv'
  <1>1. /\ queue'.buys = {} /\ queue'.sales = {} /\ queue'.notes = {}
        /\ current'.sale = NoSale /\ plan' = EmptyPlan /\ pc' = "idle"
    BY DEF RepairInv, EmptyHandedInv, MemoryInv
  <1>2. plan'.buys = {} /\ plan'.sells = {} /\ plan'.notes = {}
    BY <1>1 DEF EmptyPlan
  <1>3. MemoryInv'
    BY <1>1, <1>2, NameAssumption DEF MemoryInv
  <1>4. EmptyHandedInv' /\ PlannedInv' /\ RepairedInv'
    BY <1>1 DEF EmptyHandedInv, PlannedInv, RepairedInv, Calculating
  <1>5. CalmInv'
    BY DEF CalmInv, NoLooseSplits
  <1>6. QED
    BY <1>3, <1>4, <1>5 DEF RepairInv

\* So do the steps of users and handlers.
LEMMA RepairDeletions ==
    ASSUME DeletionTypeInv, RepairInv, CalmInv, [DeletionNext]_deletionVars
    PROVE  RepairInv' /\ CalmInv'
  <1>t. TypeInv /\ SplitsInv /\ splits \in [Purchases -> Totals]
    BY Types DEF DeletionTypeInv
  <1>1. CASE Engine \/ UNCHANGED deletionVars
    BY <1>t, <1>1, EngineType, RepairStep
  <1>2. CASE UserEdits
    <2>1. Edited
      BY <1>2, EditEffect
    <2>2. GoneInv'
      BY <2>1 DEF Edited, PurchaseEdited, SaleEdited, NoteEdited, RepairInv, GoneInv, NoSaleEntry
    <2>3. QED
      BY <1>t, <2>1, <2>2, RepairIdle DEF Edited
  <1>3. CASE HandlerSteps
    <2>1. Handled
      BY <1>3, HandlerStepEffect
    <2>2. \A p \in Purchases :
             \/ splits'[p] = splits[p]
             \/ splits'[p].loose = 0 /\ (splits'[p].quantity = 0 => splits'[p] = NoTotals)
      BY <1>t, <2>1, SplitsLeftFacts DEF Handled, SplitsHandled
    <2>3. \A p \in Purchases : splits'[p].quantity = 0 => splits'[p].cost = 0
      BY <2>2 DEF RepairInv, GoneInv, NoTotals
    <2>4. GoneInv'
      BY <2>1, <2>3
         DEF Handled, PurchaseHandled, SaleHandled, RepairInv, GoneInv, NoSaleEntry
    <2>5. QED
      BY <1>t, <2>1, <2>2, <2>4, RepairIdle DEF Handled
  <1>4. CASE HandlerFails
    BY <1>4, HandlerFailsEffect
       DEF books, RepairInv, GoneInv, EmptyHandedInv, MemoryInv, PlannedInv, RepairedInv,
           Untouched, Calculating, CalmInv, NoLooseSplits
  <1>5. QED
    BY <1>1, <1>2, <1>3, <1>4 DEF DeletionNext

\* RepairInv and CalmInv are invariants.
LEMMA RepairInvariant == DeletionSpec => [](RepairInv /\ CalmInv)
  <1>1. DeletionInit => RepairInv /\ CalmInv
    <2> SUFFICES ASSUME Init PROVE RepairInv /\ CalmInv
      BY DEF DeletionInit
    <2>1. /\ \A p \in Purchases : buy[p] = NoPurchase /\ splits[p] = NoTotals
          /\ \A s \in Sales : ~sell[s].logged
          /\ \A n \in CreditNotes : ~note[n].checked
      BY DEF Init, NoSaleEntry, NoEntry
    <2>2. /\ pc = "idle" /\ queue.buys = {} /\ queue.sales = {} /\ queue.notes = {}
          /\ current.sale = NoSale /\ plan = EmptyPlan
      BY DEF Init, EmptyQueue, NoCurrentSale
    <2>3. plan.buys = {} /\ plan.sells = {} /\ plan.notes = {}
      BY <2>2 DEF EmptyPlan
    <2>4. GoneInv
      BY <2>1 DEF GoneInv, NoTotals
    <2>5. MemoryInv
      BY <2>2, <2>3, NameAssumption DEF MemoryInv
    <2>6. EmptyHandedInv /\ PlannedInv /\ RepairedInv
      BY <2>2 DEF EmptyHandedInv, PlannedInv, RepairedInv, Calculating
    <2>7. CalmInv
      BY <2>1 DEF Init, CalmInv, NoLooseSplits, NoTotals
    <2>8. QED
      BY <2>4, <2>5, <2>6, <2>7 DEF RepairInv
  <1>2. /\ DeletionTypeInv /\ RepairInv /\ CalmInv /\ [DeletionNext]_deletionVars
        => (RepairInv /\ CalmInv)'
    BY RepairDeletions
  <1>3. QED
    BY <1>1, <1>2, DeletionTypeInvariant, PTL DEF DeletionSpec

\* Whatever users have deleted or ticked, before whichever of their calls handlers have
\* died and whatever runs have come in between, a reset that gets to its last call has
\* restored every purchase, trashed every split, those of deleted purchases too, and taken
\* every credit note and every sale that the bot has posted out of the calculation.
THEOREM ResetRepairsBooks == DeletionSpec => []ResetRepairs
  <1>1. RepairInv => ResetRepairs
    BY DEF RepairInv, RepairedInv, ResetRepairs
  <1>2. QED
    BY <1>1, RepairInvariant, PTL
------------------------------------------------------------------------------
(* Deletions leave nothing behind *)

\* The handlers of hand-made changes end before the next run starts, and none starts
\* between the calls that uncheck and trash a sale.
PromptHandlers ==
    /\ \A kind \in {"posted", "ticked"}, step \in Steps : <<kind, step>> \in Prompt
    /\ <<"sale", "trash">> \in Prompt

\* The engine logs a sale and ticks it in one call, and takes both away in one call. The
\* sales that it posts are the bot's.
LEMMA SaleSteps ==
    ASSUME TypeInv, [Next]_vars
    PROVE  \A s \in Sales :
              /\ sell'[s].logged /\ ~sell'[s].checked => sell[s].logged /\ ~sell[s].checked
              /\ sell'[s].posted /\ ~sell'[s].bot => sell[s].posted /\ ~sell[s].bot
  <1>t. sell \in [Sales -> SaleRecords] /\ plan.sells \subseteq Sales
    BY Types
  <1>1. CASE Handlers
    <2>1. ASSUME NEW s \in Sales, NEW q \in Quantities, NEW d \in Dates, PostSale(s, q, d)
          PROVE  \A r \in Sales : sell'[r] = sell[r] \/ sell'[r].bot
      BY <1>t, <2>1 DEF PostSale
    <2>2. \A r \in Sales : sell'[r] = sell[r] \/ sell'[r].bot
      BY <1>1, <2>1 DEF Handlers, PostPurchase, PostCreditNote, RecordAdditionalCost,
         RecordCredit, CloseBooks
    <2>3. QED
      BY <1>1, <2>2, HandlerEffect
  <1>2. CASE UpdateInventoryTransactions
    <2>1. \A s \in Sales : /\ s \in plan.sells => sell'[s].checked
                           /\ sell'[s].posted = sell[s].posted /\ sell'[s].bot = sell[s].bot
                           /\ s \notin plan.sells => sell'[s] = sell[s]
      BY <1>t, <1>2 DEF UpdateInventoryTransactions, LogAll, SaleRecords
    <2>2. QED
      BY <2>1
  <1>3. CASE RestoreInventoryTransactions
    <2>1. \A s \in Sales : /\ s \in plan.sells => ~sell'[s].logged
                           /\ sell'[s].posted = sell[s].posted /\ sell'[s].bot = sell[s].bot
                           /\ s \notin plan.sells => sell'[s] = sell[s]
      BY <1>t, <1>3 DEF RestoreInventoryTransactions, UnlogAll, SaleRecords
    <2>2. QED
      BY <2>1
  <1>4. CASE \/ StartCalculation \/ StartReset \/ Crash \/ UNCHANGED vars
             \/ \E d \in Dates : ListTransactions(d)
             \/ \E n \in CreditNotes : ProcessCreditNote(n)
             \/ CreditNotesDone
             \/ \E s \in Sales : NextSale(s)
             \/ \E p \in Purchases : LiquidatePurchase(p) \/ SplitPurchase(p) \/ RejectSplit(p)
             \/ FinishSale \/ SalesDone \/ CreateInventoryTransactions
             \/ CreateFinancialTransactions \/ storeLastCalcTxDate
             \/ ReadAccountToReset \/ ListTransactionsToReset \/ TrashFinancialTransactions
             \/ TrashInventoryTransactions \/ ClearAccount
    <2>1. sell' = sell
      BY <1>4 DEF StartCalculation, StartReset, Crash, vars, books, ListTransactions,
         ProcessCreditNote, CreditNotesDone, NextSale, LiquidatePurchase, SplitPurchase,
         RejectSplit,         FinishSale, SalesDone, CreateInventoryTransactions, CreateFinancialTransactions,
         storeLastCalcTxDate, ReadAccountToReset, ListTransactionsToReset,
         TrashFinancialTransactions, TrashInventoryTransactions, ClearAccount
    <2>2. QED
      BY <2>1
  <1>5. QED
    BY <1>1, <1>2, <1>3, <1>4 DEF Next, Calculation, Reset

\* A run that has started does not turn into a calculation.
LEMMA CalculationGoesOn ==
    ASSUME [Next]_vars, pc' = "idle" \/ pc # "idle", pc' \in CalculationCalls
    PROVE  pc \in CalculationCalls
  <1>1. pc' # "idle" /\ pc # "idle" /\ pc' \notin {"reset", "resetList", "trashFinancial",
            "restoreInventory", "trashInventory", "clearAccount"}
    BY DEF CalculationCalls
  <1>2. ~Finish /\ ~StartCalculation /\ ~StartReset
    BY <1>1 DEF Finish, StartCalculation, StartReset
  <1>3. ~Crash /\ ~Reset
    BY <1>1, <1>2 DEF Crash, Reset, ReadAccountToReset, ListTransactionsToReset,
       TrashFinancialTransactions, RestoreInventoryTransactions, TrashInventoryTransactions,
       ClearAccount, fireResetOperations
  <1>4. CASE UNCHANGED vars
    BY <1>4 DEF vars
  <1>5. CASE Handlers
    BY <1>5 DEF Handlers, PostPurchase, PostSale, PostCreditNote, RecordAdditionalCost,
       RecordCredit, CloseBooks
  <1>6. CASE Calculation
    BY <1>6 DEF Calculation, CalculationCalls,
       ListTransactions, ProcessCreditNote, CreditNotesDone, NextSale, LiquidatePurchase,
       SplitPurchase, RejectSplit, Finish, FinishSale, SalesDone, CreateInventoryTransactions,
       UpdateInventoryTransactions, CreateFinancialTransactions, storeLastCalcTxDate
  <1>7. QED
    BY <1>2, <1>3, <1>4, <1>5, <1>6 DEF Next

\* No step of the engine loses sight of a sale that has lost its tick.
LEMMA TickEngine ==
    ASSUME MergeProps, PromptHandlers, DeletionTypeInv, RepairInv, HandInv, TickInv,
           Engine \/ UNCHANGED deletionVars
    PROVE  TickInv'
  <1>t. TypeInv /\ sell \in [Sales -> SaleRecords] /\ plan.sells \subseteq Sales
    BY Types DEF DeletionTypeInv
  <1>e. [Next]_vars /\ UNCHANGED <<job, missed>>
    BY EngineType
  <1>r. GoneInv /\ RepairedInv
    BY DEF RepairInv
  <1>1. CASE pc' = "idle" \/ pc # "idle"
    <2>1. /\ \A s \in Sales : sell[s].logged /\ ~sell[s].checked =>
                \/ missed \/ props.needsRebuild \/ job.step = "flag"
                \/ job.step = "trash" /\ job.tx = s
          /\ ~missed /\ pc \in CalculationCalls => \A s \in Sales : sell[s].logged => sell[s].checked
      BY DEF TickInv
    <2>2. /\ pc' # "idle" /\ job'.kind \in {"posted", "ticked"} => job'.step = "none"
          /\ pc' # "idle" /\ job'.kind = "sale" => job'.step # "trash"
      BY <1>1, <1>e DEF TickInv
    <2>3. CASE pc = "clearAccount"
      <3> SUFFICES ASSUME ~missed PROVE TickInv'
        BY <1>e, <2>2 DEF TickInv
      <3>0. \A s \in Sales : sell[s].posted => sell[s].bot
        BY <2>3 DEF HandInv, TickInv
      <3>1. \A s \in Sales : ~sell[s].logged
        BY <1>r, <2>3, <3>0 DEF RepairedInv, GoneInv
      <3>2. \A s \in Sales : ~sell'[s].logged
        <4>1. ClearAccount \/ Crash \/ Handlers \/ UNCHANGED vars
          BY <1>e, <2>3 DEF Next, StartCalculation, StartReset, Calculation, Reset,
             ListTransactions, ProcessCreditNote, CreditNotesDone, NextSale, LiquidatePurchase,
             SplitPurchase, RejectSplit, FinishSale, SalesDone, CreateInventoryTransactions,
             UpdateInventoryTransactions, CreateFinancialTransactions, storeLastCalcTxDate,
             ReadAccountToReset, ListTransactionsToReset, TrashFinancialTransactions,
             RestoreInventoryTransactions, TrashInventoryTransactions
        <4>2. sell' = sell \/ Handlers
          BY <4>1 DEF ClearAccount, Crash, vars, books
        <4>3. QED
          BY <1>t, <3>1, <4>2, HandlerEffect
      <3>3. QED
        BY <2>2, <3>2 DEF TickInv
    <2>4. CASE pc # "clearAccount"
      <3>1. props.needsRebuild => props'.needsRebuild
        BY <1>t, <1>e, <2>4, FlagStep DEF ClearAccount
      <3>2. \A s \in Sales : sell'[s].logged /\ ~sell'[s].checked =>
               sell[s].logged /\ ~sell[s].checked
        BY <1>t, <1>e, SaleSteps
      <3>3. pc' \in CalculationCalls => pc \in CalculationCalls
        BY <1>1, <1>e, CalculationGoesOn
      <3>4. QED
        BY <1>e, <2>1, <2>2, <3>1, <3>2, <3>3 DEF TickInv
    <2>5. QED
      BY <2>3, <2>4
  <1>2. CASE pc = "idle" /\ pc' # "idle"
    <2>1. /\ StartCalculation \/ StartReset
          /\ MayStartRun /\ UNCHANGED <<sell, props>>
      <3>1. ~Handlers
        BY <1>t, <1>2, HandlerEffect
      <3>2. ~Calculation /\ ~Reset
        BY <1>2 DEF Calculation, Reset,
             ListTransactions, ProcessCreditNote, CreditNotesDone, NextSale, LiquidatePurchase,
             SplitPurchase, RejectSplit, FinishSale, SalesDone, CreateInventoryTransactions,
             UpdateInventoryTransactions, CreateFinancialTransactions, storeLastCalcTxDate,
             ReadAccountToReset, ListTransactionsToReset, TrashFinancialTransactions,
             RestoreInventoryTransactions, TrashInventoryTransactions, ClearAccount
      <3>3. ~UNCHANGED deletionVars
        BY <1>2 DEF deletionVars, vars
      <3>4. MayStartRun /\ (StartCalculation \/ StartReset)
        BY <3>1, <3>2, <3>3 DEF Engine
      <3>5. QED
        BY <3>4 DEF StartCalculation, StartReset, books
    <2>2. /\ job.kind \in {"posted", "ticked"} => job.step = "none"
          /\ job.kind = "sale" => job.step # "trash"
      BY <2>1 DEF MayStartRun, PromptHandlers, DeletionTypeInv, Jobs
    <2>3. /\ job.step # "flag"
          /\ \A s \in Sales : ~(job.step = "trash" /\ job.tx = s)
      BY <2>2, DeletionAssumption DEF DeletionTypeInv, JobInv
    <2>4. pc' \in CalculationCalls => ~props.needsRebuild
      BY <2>1 DEF StartCalculation, StartReset, CalculationCalls
    <2>5. QED
      BY <1>e, <2>1, <2>2, <2>3, <2>4 DEF TickInv
  <1>3. QED
    BY <1>1, <1>2

\* A sale at whose trashing a handler is gets trashed.
LEMMA TrashedSale ==
    ASSUME DeletionTypeInv, GoneInv, HandlerSteps, job.step = "trash", job.tx \in Sales,
           sell[job.tx].logged
    PROVE  sell'[job.tx] = NoSaleEntry
  <1>1. TrashPurchase \/ TrashSale
    BY DEF HandlerSteps, NotFound, UncheckPurchase, UncheckSale, At,
       cascadeDeleteInventoryTransactions, cascadeDeleteFinancialTransactions,
       flagInventoryAccountForRebuildIfNeeded, FlagRebuild, LookUpPurchaseCode, Answer
  <1>2. TrashSale
    BY <1>1, DeletionAssumption DEF TrashPurchase
  <1>3. sell \in [Sales -> SaleRecords]
    BY Types DEF DeletionTypeInv
  <1>4. QED
    BY <1>2, <1>3 DEF TrashSale

\* Neither do edits and handlers.
LEMMA TickDeletions ==
    ASSUME MergeProps, PromptHandlers, DeletionTypeInv, RepairInv, HandInv, TickInv,
           [DeletionNext]_deletionVars
    PROVE  TickInv'
  <1>1. CASE Engine \/ UNCHANGED deletionVars
    BY <1>1, TickEngine
  <1>2. CASE UserEdits
    <2>1. Edited
      BY <1>2, EditEffect
    <2>2. \A s \in Sales : sell'[s].logged /\ ~sell'[s].checked =>
             missed' \/ props'.needsRebuild \/ job'.step = "flag"
      BY <2>1 DEF Edited, SaleEdited, NoSaleEntry, TickInv
    <2>3. QED
      BY <2>1, <2>2 DEF Edited, TickInv, CalculationCalls
  <1>3. CASE HandlerSteps
    <2>1. Handled
      BY <1>3, HandlerStepEffect
    <2>2. ASSUME NEW s \in Sales, sell'[s].logged, ~sell'[s].checked
          PROVE  missed' \/ props'.needsRebuild \/ (job'.step = "trash" /\ job'.tx = s)
      <3>1. CASE sell'[s] = sell[s]
        <4>1. \/ missed \/ props.needsRebuild \/ job.step = "flag"
              \/ job.step = "trash" /\ job.tx = s
          BY <2>2, <3>1 DEF TickInv
        <4>2. ~(job.step = "trash" /\ job.tx = s)
          BY <1>3, <2>2, <3>1, TrashedSale DEF NoSaleEntry, RepairInv
        <4>3. QED
          BY <2>1, <4>1, <4>2 DEF Handled
      <3>2. CASE job'.step = "trash" /\ job'.tx = s
        BY <3>2
      <3>3. CASE sell'[s] = NoSaleEntry
        BY <2>2, <3>3 DEF NoSaleEntry
      <3>4. QED
        BY <2>1, <3>1, <3>2, <3>3 DEF Handled, SaleHandled
    <2>3. QED
      BY <2>1, <2>2 DEF Handled, TickInv, CalculationCalls
  <1>4. CASE HandlerFails
    <2>1. /\ UNCHANGED <<sell, props, pc>> /\ job.step # "none" /\ missed'
          /\ job'.step = "none" \/ (job'.step = "root" /\ job'.kind = job.kind)
      BY <1>4, HandlerFailsEffect DEF books
    <2>2. QED
      BY <2>1 DEF TickInv
  <1>5. QED
    BY <1>1, <1>2, <1>3, <1>4 DEF DeletionNext

\* Sales that users have posted stay in the hands of their handlers.
LEMMA HandDeletions ==
    ASSUME DeletionTypeInv, HandInv, [DeletionNext]_deletionVars
    PROVE  HandInv'
  <1> SUFFICES ASSUME ~missed', NEW s \in Sales, sell'[s].posted, ~sell'[s].bot
               PROVE  job'.kind = "posted" /\ job'.step \in {"root", "trash"} /\ job'.tx = s
    BY DEF HandInv
  <1>1. CASE Engine \/ UNCHANGED deletionVars
    <2>1. TypeInv /\ [Next]_vars /\ UNCHANGED <<job, missed>>
      BY <1>1, EngineType DEF DeletionTypeInv
    <2>2. sell[s].posted /\ ~sell[s].bot
      BY <2>1, SaleSteps
    <2>3. QED
      BY <2>1, <2>2 DEF HandInv
  <1>2. CASE UserEdits
    <2>1. Edited
      BY <1>2, EditEffect
    <2>2. ~missed /\ job.step = "none"
      BY <2>1 DEF Edited
    <2>3. ~sell[s].posted \/ sell[s].bot
      BY <2>2 DEF HandInv
    <2>4. QED
      BY <2>1, <2>3 DEF Edited, SaleEdited, NoSaleEntry
  <1>3. CASE HandlerSteps
    <2>1. Handled /\ ~missed
      BY <1>3, HandlerStepEffect DEF Handled
    <2>2. sell[s].posted /\ ~sell[s].bot
      BY <2>1 DEF Handled, SaleHandled, NoSaleEntry
    <2>3. job.kind = "posted" /\ job.step \in {"root", "trash"} /\ job.tx = s
      BY <2>1, <2>2 DEF HandInv
    <2>4. job'.step = "trash"
      BY <2>1, <2>3 DEF Handled
    <2>5. QED
      BY <2>1, <2>3, <2>4 DEF Handled
  <1>4. CASE HandlerFails
    BY <1>4, HandlerFailsEffect
  <1>5. QED
    BY <1>1, <1>2, <1>3, <1>4 DEF DeletionNext

\* What a run still has to cost and where each sale is: edits come between runs, so
\* that the invariants of the engine hold here too.
LEMMA SupplyDeletions ==
    ASSUME OwnPurchaseCodes, DeletionTypeInv, DeletionTypeInv', RepairInv, EnoughInv, PlaceInv,
           [DeletionNext]_deletionVars
    PROVE  EnoughInv' /\ PlaceInv'
  <1>t. TypeInv /\ TypeInv' /\ MemoryInv
    BY DEF DeletionTypeInv, RepairInv
  <1>1. CASE Engine \/ UNCHANGED deletionVars
    BY <1>t, <1>1, EngineType, CostedToTheEnd, EnoughStep, PlaceStep
  <1>2. CASE pc = "idle" /\ pc' = "idle" /\ current' = current
    BY <1>2 DEF EnoughInv, PlaceInv, InProcess
  <1>3. CASE UserEdits
    BY <1>2, <1>3, EditEffect DEF Edited
  <1>4. CASE HandlerSteps
    BY <1>2, <1>4, HandlerStepEffect DEF Handled
  <1>5. CASE HandlerFails
    BY <1>5, HandlerFailsEffect
       DEF books, EnoughInv, PlaceInv, InProcess, NoLooseSplits, Available, SaleQuantities, NoteQuantities,
           CopiedAmounts
  <1>6. QED
    BY <1>1, <1>3, <1>4, <1>5 DEF DeletionNext

\* The parts of CascadeInv that hold whatever call comes next.
SplitsKept ==
    \A p \in Purchases : ~buy[p].posted =>
        splits[p] = NoTotals \/ (job.step = "splits" /\ job.tx = p)
CostsKept ==
    /\ \A s \in Sales : cogs[s] # <<>> =>
          Len(cogs[s]) = 1 /\ (sell[s].logged \/ (job.step = "cogs" /\ job.tx = s))
    /\ job.step \in {"root", "trash"} /\ job.kind = "posted" => ~sell[job.tx].logged

\* The steps of the engine keep CascadeInv.
LEMMA CascadeEngine ==
    ASSUME DeletionTypeInv, RepairInv, CalmInv, HandInv, TickInv, PlaceInv, CascadeInv,
           Engine \/ UNCHANGED deletionVars
    PROVE  CascadeInv'
  <1> SUFFICES ASSUME ~missed'
               PROVE  CascadeInv'
    BY DEF CascadeInv
  <1>t. /\ TypeInv /\ SplitsInv /\ JobInv /\ sell \in [Sales -> SaleRecords] /\ cogs \in [Sales -> Seq(Int)]
        /\ plan.cost \in [Sales -> Int] /\ splits \in [Purchases -> Totals]
        /\ plan.sells \subseteq Sales /\ plan.cogs \subseteq Sales /\ plan.buys \subseteq Purchases
    BY Types DEF DeletionTypeInv
  <1>e. [Next]_vars /\ UNCHANGED <<job, missed>>
    BY EngineType
  <1>r. GoneInv /\ MemoryInv /\ PlannedInv
    BY DEF RepairInv
  <1>c. /\ SplitsKept /\ CostsKept
        /\ pc = "createFinancial" => \A s \in plan.cogs : sell[s].logged /\ cogs[s] = <<>>
        /\ pc = "trashFinancial" =>
             \A s \in Sales : sell[s].logged /\ cogs[s] # <<>> => s \in plan.cogs
        /\ pc \in {"restoreInventory", "trashInventory", "clearAccount"} =>
             \A s \in Sales : sell[s].logged => cogs[s] = <<>>
    BY <1>e DEF CascadeInv, SplitsKept, CostsKept
  <1>s. job.step \in {"root", "trash", "splits", "cogs"} =>
          job.tx \in Purchases \cup Sales /\ (job.kind = "posted" => job.tx \in Sales)
    BY <1>t, DeletionAssumption DEF JobInv
  <1>o. ASSUME SplitsKept', CostsKept',
               pc' \notin {"createFinancial", "trashFinancial", "restoreInventory",
                           "trashInventory", "clearAccount"}
        PROVE  CascadeInv'
    BY <1>o DEF CascadeInv, SplitsKept, CostsKept
  <1>u. ASSUME UNCHANGED <<buy, splits>> PROVE SplitsKept'
    BY <1>c, <1>e, <1>u DEF SplitsKept
  <1>v. ASSUME UNCHANGED <<sell, cogs>> PROVE CostsKept'
    BY <1>c, <1>e, <1>v DEF CostsKept
  <1>1. CASE UNCHANGED vars
    <2>1. UNCHANGED <<buy, splits, sell, cogs, pc, plan>>
      BY <1>1 DEF vars, books, run
    <2>2. QED
      BY <1>c, <1>u, <1>v, <2>1 DEF CascadeInv, SplitsKept, CostsKept
  <1>2. CASE Handlers
    <2>1. /\ UNCHANGED <<pc, plan, splits, cogs>>
          /\ \A p \in Purchases : buy'[p] # buy[p] => buy'[p].posted
          /\ \A s \in Sales : sell'[s] # sell[s] => ~sell[s].posted /\ ~sell'[s].logged
      BY <1>t, <1>2, HandlerEffect
    <2>2. \A s \in Sales : sell'[s].logged <=> sell[s].logged
      BY <1>r, <2>1 DEF GoneInv
    <2>3. SplitsKept'
      BY <1>c, <1>e, <2>1 DEF SplitsKept
    <2>4. CostsKept'
      BY <1>c, <1>e, <1>s, <2>1, <2>2 DEF CostsKept
    <2>5. QED
      BY <1>t, <1>c, <2>1, <2>2, <2>3, <2>4 DEF CascadeInv, SplitsKept, CostsKept
  <1>3. CASE Finish /\ UNCHANGED <<buy, splits, sell, cogs>>
    <2>1. pc' = "idle"
      BY <1>3 DEF Finish
    <2>2. QED
      BY <1>3, <1>o, <1>u, <1>v, <2>1
  <1>4. CASE \/ StartCalculation \/ StartReset \/ CreditNotesDone \/ SalesDone
             \/ ReadAccountToReset
    BY <1>4, <1>o, <1>u, <1>v DEF StartCalculation, StartReset, CreditNotesDone, SalesDone,
       ReadAccountToReset, fireBatchOperations, books
  <1>5. CASE FinishSale \/ \E d \in Dates : ListTransactions(d)
    BY <1>3, <1>5, <1>o, <1>u, <1>v DEF FinishSale, ListTransactions, books
  <1>6. CASE \E n \in CreditNotes : ProcessCreditNote(n)
    BY <1>3, <1>6, <1>o, <1>u, <1>v DEF ProcessCreditNote, books
  <1>7. CASE \/ \E s \in Sales : NextSale(s)
             \/ \E p \in Purchases : LiquidatePurchase(p) \/ SplitPurchase(p) \/ RejectSplit(p)
    BY <1>3, <1>7, <1>o, <1>u, <1>v
       DEF NextSale, LiquidatePurchase, SplitPurchase, RejectSplit, books
  <1>8. CASE Crash \/ storeLastCalcTxDate \/ ClearAccount
    BY <1>3, <1>8 DEF Crash, storeLastCalcTxDate, ClearAccount, books
  <1>9. CASE CreateInventoryTransactions
    <2>1. /\ pc = "createInventory" /\ pc' = "updateInventory" /\ UNCHANGED <<buy, sell, cogs>>
      BY <1>9 DEF CreateInventoryTransactions, fireBatchOperations
    <2>2. ASSUME NEW p \in Purchases, ~buy[p].posted PROVE splits'[p] = splits[p]
      <3>1. plan.splits[p] = NoTotals
        BY <1>r, <2>1, <2>2 DEF MemoryInv, PlannedInv, Calculating
      <3>2. splits'[p] = [quantity |-> splits[p].quantity + plan.splits[p].quantity,
                          cost |-> splits[p].cost + plan.splits[p].cost,
                          credited |-> splits[p].credited + plan.splits[p].credited,
                          loose |-> splits[p].loose]
        BY <1>9 DEF CreateInventoryTransactions
      <3>3. splits[p] \in Totals
        BY <1>t
      <3>4. QED
        BY <3>1, <3>2, <3>3 DEF Totals, NoTotals
    <2>3. SplitsKept'
      BY <1>c, <1>e, <2>1, <2>2 DEF SplitsKept
    <2>4. QED
      BY <1>o, <1>v, <2>1, <2>3
  <1>10. CASE UpdateInventoryTransactions
    <2>0. pc = "updateInventory" /\ NoLooseSplits
      BY <1>10 DEF UpdateInventoryTransactions, CalmInv
    <2>a. queue.splits = {}
      BY <1>t, <2>0, NoneListed
    <2>1. /\ pc = "updateInventory" /\ pc' = "createFinancial" /\ UNCHANGED <<plan, cogs>>
          /\ \A p \in Purchases : buy'[p] = IF p \in plan.buys THEN local[p] ELSE buy[p]
          /\ \A p \in Purchases : splits'[p] = splits[p]
          /\ sell' = LogAll(sell, plan.sells)
      BY <1>10, <2>a DEF UpdateInventoryTransactions, fireBatchOperations, run
    <2>2. \A s \in Sales : /\ s \in plan.sells => sell'[s].logged
                           /\ s \notin plan.sells => sell'[s] = sell[s]
      BY <1>t, <2>1 DEF LogAll, SaleRecords
    <2>3. /\ plan.cogs = plan.sells
          /\ \A s \in plan.cogs : ~sell[s].checked /\ sell[s].posted
      BY <1>t, <1>r, <2>0, <2>1 DEF PlaceInv, MemoryInv
    <2>4. \A s \in plan.cogs : ~sell[s].logged
      BY <1>t, <1>e, <2>1, <2>3 DEF TickInv, CalculationCalls
    <2>5. \A s \in plan.cogs : ~(job.step = "cogs" /\ job.tx = s)
      BY <1>t, <2>3 DEF JobInv
    <2>6. \A s \in plan.cogs : cogs[s] = <<>>
      BY <1>t, <1>c, <2>4, <2>5 DEF CostsKept
    <2>7. ~(job.step \in {"root", "trash"} /\ job.kind = "posted")
      BY <2>1 DEF TickInv
    <2>8. CostsKept'
      BY <1>c, <1>e, <2>1, <2>2, <2>7 DEF CostsKept
    <2>9. SplitsKept'
      BY <1>c, <1>e, <1>r, <2>1 DEF SplitsKept, PlannedInv
    <2>10. QED
      BY <1>t, <2>1, <2>2, <2>3, <2>6, <2>8, <2>9 DEF CascadeInv, SplitsKept, CostsKept
  <1>11. CASE CreateFinancialTransactions
    <2>1. /\ pc = "createFinancial" /\ pc' = "storeDate" /\ UNCHANGED <<buy, splits, sell, plan>>
          /\ \A s \in Sales : cogs'[s] = IF s \in plan.cogs THEN Append(cogs[s], plan.cost[s])
                                         ELSE cogs[s]
      BY <1>11 DEF CreateFinancialTransactions, fireBatchOperations, run
    <2>2. ASSUME NEW s \in Sales, cogs'[s] # <<>>
          PROVE  Len(cogs'[s]) = 1 /\ (sell'[s].logged \/ (job'.step = "cogs" /\ job'.tx = s))
      <3>1. CASE s \in plan.cogs
        <4>1. plan.cost[s] \in Int /\ cogs'[s] = Append(<<>>, plan.cost[s]) /\ sell[s].logged
          BY <1>t, <1>c, <2>1, <3>1
        <4>2. Len(cogs'[s]) = 1
          BY <1>t, <4>1, OneElement
        <4>3. QED
          BY <2>1, <4>1, <4>2
      <3>2. CASE s \notin plan.cogs
        BY <1>c, <1>e, <2>1, <2>2, <3>2 DEF CostsKept
      <3>3. QED
        BY <3>1, <3>2
    <2>3. CostsKept'
      BY <1>c, <1>e, <2>1, <2>2 DEF CostsKept
    <2>4. QED
      BY <1>o, <1>u, <2>1, <2>3
  <1>12. CASE ListTransactionsToReset /\ Finish
    BY <1>3, <1>12 DEF ListTransactionsToReset, books
  <1>13. CASE ListTransactionsToReset /\ ~Finish
    <2>1. /\ pc' = "trashFinancial" /\ UNCHANGED <<buy, splits, sell, cogs>>
          /\ plan'.cogs = {s \in {t \in Posted(sell) : sell[t].logged /\ sell[t].bot} : cogs[s] # <<>>}
          /\ pc = "resetList"
      BY <1>13 DEF ListTransactionsToReset, fireResetOperations, books
    <2>2. \A s \in Sales : sell[s].logged /\ cogs[s] # <<>> => s \in plan'.cogs
      <3>1. \A s \in Sales : sell[s].posted => sell[s].bot
        BY <1>e, <2>1 DEF HandInv, TickInv
      <3>2. QED
        BY <1>t, <1>r, <2>1, <3>1 DEF GoneInv, Posted
    <2>3. SplitsKept' /\ CostsKept'
      BY <1>u, <1>v, <2>1
    <2>4. QED
      BY <2>1, <2>2, <2>3 DEF CascadeInv, SplitsKept, CostsKept
  <1>14. CASE TrashFinancialTransactions
    <2>1. /\ pc = "trashFinancial" /\ pc' = "restoreInventory" /\ UNCHANGED <<buy, splits, sell>>
          /\ \A s \in Sales : cogs'[s] = IF s \in plan.cogs THEN Tail(cogs[s]) ELSE cogs[s]
      BY <1>14 DEF TrashFinancialTransactions, fireResetOperations
    <2>2. ASSUME NEW s \in plan.cogs PROVE cogs'[s] = <<>>
      <3>1. s \in Sales /\ cogs[s] \in Seq(Int) /\ cogs[s] # <<>>
        BY <1>t, <2>1 DEF TypeInv
      <3>2. Len(cogs[s]) = 1
        BY <1>c, <3>1 DEF CostsKept
      <3>3. Tail(cogs[s]) = <<>>
        BY <3>1, <3>2, OneElement
      <3>4. QED
        BY <2>1, <3>1, <3>3
    <2>3. \A s \in Sales : sell[s].logged => cogs'[s] = <<>>
      BY <1>c, <2>1, <2>2
    <2>4. CostsKept'
      BY <1>c, <1>e, <2>1, <2>2 DEF CostsKept
    <2>5. SplitsKept'
      BY <1>u, <2>1
    <2>6. QED
      BY <2>1, <2>3, <2>4, <2>5 DEF CascadeInv, SplitsKept, CostsKept
  <1>15. CASE RestoreInventoryTransactions
    <2>1. /\ pc = "restoreInventory" /\ pc' = "trashInventory" /\ UNCHANGED cogs
          /\ \A p \in Purchases :
                splits'[p] = IF p \in plan.trash THEN [splits[p] EXCEPT !.loose = splits[p].credited]
                             ELSE splits[p]
          /\ \A p \in Purchases :
                buy'[p] = IF p \in plan.buys THEN Restored(buy[p]) ELSE buy[p]
          /\ sell' = UnlogAll(sell, plan.sells)
      BY <1>15 DEF RestoreInventoryTransactions, fireResetOperations
    <2>2. \A s \in Sales : sell'[s].logged => sell[s].logged
      BY <1>t, <2>1 DEF UnlogAll, SaleRecords
    <2>3. \A p \in Purchases : buy'[p].posted = buy[p].posted
      <3>1. buy \in [Purchases -> PurchaseRecords]
        BY <1>t, Types
      <3>2. QED
        BY <2>1, <3>1, RestoredFacts
    <2>a. \A p \in Purchases : splits[p] = NoTotals => splits'[p] = NoTotals
      BY <2>1 DEF NoTotals
    <2>4. SplitsKept'
      BY <1>c, <1>e, <2>1, <2>a, <2>3 DEF SplitsKept
    <2>5. CostsKept'
      BY <1>c, <1>e, <1>s, <2>1, <2>2 DEF CostsKept
    <2>6. \A s \in Sales : sell'[s].logged => cogs'[s] = <<>>
      BY <1>c, <2>1, <2>2
    <2>7. QED
      BY <2>1, <2>4, <2>5, <2>6 DEF CascadeInv, SplitsKept, CostsKept
  <1>16. CASE TrashInventoryTransactions
    <2>1. /\ pc = "trashInventory" /\ pc' = "clearAccount" /\ UNCHANGED <<buy, sell, cogs>>
          /\ \A p \in Purchases : splits'[p] = IF p \in plan.trash THEN NoTotals ELSE splits[p]
      BY <1>16 DEF TrashInventoryTransactions, fireResetOperations
    <2>2. SplitsKept'
      BY <1>c, <1>e, <2>1 DEF SplitsKept
    <2>3. CostsKept'
      BY <1>v, <2>1
    <2>4. QED
      BY <1>c, <2>1, <2>2, <2>3 DEF CascadeInv, SplitsKept, CostsKept
  <1>17. QED
    BY <1>e, <1>1, <1>2, <1>4, <1>5, <1>6, <1>7, <1>8, <1>9, <1>10, <1>11, <1>12, <1>13, <1>14,
       <1>15, <1>16 DEF Next, Calculation, Reset

\* So do the steps of users and handlers.
LEMMA CascadeDeletions ==
    ASSUME DeletionTypeInv, RepairInv, CalmInv, HandInv, TickInv, PlaceInv, CascadeInv,
           [DeletionNext]_deletionVars
    PROVE  CascadeInv'
  <1>t. /\ splits \in [Purchases -> Totals] /\ cogs \in [Sales -> Seq(Int)] /\ GoneInv
        /\ SplitsInv /\ JobInv
    BY Types DEF DeletionTypeInv, RepairInv
  <1>1. CASE Engine \/ UNCHANGED deletionVars
    BY <1>1, CascadeEngine
  <1>2. ASSUME UserEdits, ~missed'
        PROVE  CascadeInv'
    <2>1. Edited /\ ~missed /\ pc' = "idle" /\ cogs' = cogs /\ job.step = "none"
      BY <1>2, EditEffect DEF Edited
    <2>2. ASSUME NEW p \in Purchases, ~buy'[p].posted
          PROVE  splits'[p] = NoTotals
      <3>1. splits'[p] = splits[p]
        BY <2>1 DEF Edited
      <3>2. CASE buy'[p] = buy[p]
        BY <2>1, <2>2, <3>1, <3>2 DEF CascadeInv
      <3>3. CASE ~UsedPurchase(p)
        <4>1. splits[p] \in Totals /\ ~(splits[p].quantity > 0)
          BY <1>t, <3>3 DEF UsedPurchase
        <4>2. splits[p].quantity = 0
          BY <4>1 DEF Totals
        <4>3. splits[p].cost = 0
          BY <1>t, <4>2 DEF GoneInv
        <4>4. QED
          BY <1>t, <3>1, <4>1, <4>2, <4>3, NoSplitsLeft
      <3>4. QED
        BY <1>2, <2>1, <2>2, <3>2, <3>3 DEF Edited, PurchaseEdited
    <2>3. ASSUME NEW s \in Sales, cogs'[s] # <<>>
          PROVE  Len(cogs'[s]) = 1 /\ sell'[s].logged
      <3>1. Len(cogs[s]) = 1 /\ sell[s].logged /\ sell[s].posted
        BY <1>t, <2>1, <2>3 DEF CascadeInv, GoneInv
      <3>2. QED
        BY <1>2, <2>1, <3>1 DEF Edited, SaleEdited
    <2>4. /\ job'.step = "root" /\ job'.kind = "posted" => ~sell'[job'.tx].logged
          /\ job'.step # "trash"
      BY <2>1 DEF Edited
    <2>5. QED
      BY <2>1, <2>2, <2>3, <2>4 DEF CascadeInv
  <1>3. ASSUME HandlerSteps, ~missed'
        PROVE  CascadeInv'
    <2>1. Handled /\ ~missed /\ pc' = "idle"
      BY <1>3, HandlerStepEffect DEF Handled
    <2>2. ASSUME NEW p \in Purchases, ~buy'[p].posted
          PROVE  splits'[p] = NoTotals \/ (job'.step = "splits" /\ job'.tx = p)
      <3>1. CASE job'.step = "splits" /\ job'.tx = p
        BY <3>1
      <3>2. CASE buy'[p] = buy[p] /\ ~(job'.step = "splits" /\ job'.tx = p)
        <4>1. splits[p] = NoTotals \/ (job.step = "splits" /\ job.tx = p)
          BY <2>1, <2>2, <3>2 DEF CascadeInv
        <4>2. CASE job.step = "splits" /\ job.tx = p
          <5>1. splits[p].quantity = 0 /\ splits' = splits
            BY <2>1, <3>2, <4>2 DEF Handled
          <5>2. splits[p].cost = 0 /\ splits[p] \in Totals
            BY <1>t, <5>1 DEF GoneInv
          <5>3. QED
            BY <1>t, <5>1, <5>2, NoSplitsLeft
        <4>3. CASE splits[p] = NoTotals
          <5>1. splits'[p] = splits[p] \/ splits[p].quantity > 0
            BY <2>1 DEF Handled, SplitsHandled
          <5>2. QED
            BY <4>3, <5>1 DEF NoTotals
        <4>4. QED
          BY <4>1, <4>2, <4>3
      <3>3. QED
        BY <2>1, <2>2, <3>1, <3>2 DEF Handled, PurchaseHandled
    <2>3. ASSUME NEW s \in Sales, cogs'[s] # <<>>
          PROVE  Len(cogs'[s]) = 1 /\ (sell'[s].logged \/ (job'.step = "cogs" /\ job'.tx = s))
      <3>1. CASE job.step = "cogs" /\ job.tx = s
        <4>1. cogs[s] # <<>> => Len(cogs[s]) = 1
          BY <2>1 DEF CascadeInv
        <4>2. cogs[s] # <<>> => Tail(cogs[s]) = <<>>
          BY <1>t, <4>1, OneElement
        <4>3. cogs'[s] = <<>>
          BY <2>1, <3>1, <4>2 DEF Handled
        <4>4. QED
          BY <2>3, <4>3
      <3>2. CASE ~(job.step = "cogs" /\ job.tx = s)
        <4>1. cogs'[s] = cogs[s]
          BY <2>1, <3>2 DEF Handled
        <4>2. Len(cogs[s]) = 1 /\ sell[s].logged
          BY <2>1, <2>3, <3>2, <4>1 DEF CascadeInv
        <4>3. ~(job.step \in {"root", "trash"} /\ job.tx = s /\ job.kind = "posted")
          BY <2>1, <4>2 DEF CascadeInv
        <4>4. QED
          BY <2>1, <4>1, <4>2, <4>3 DEF Handled, SaleHandled
      <3>3. QED
        BY <3>1, <3>2
    <2>4. job'.step \in {"root", "trash"} /\ job'.kind = "posted" => ~sell'[job'.tx].logged
      <3> SUFFICES ASSUME job'.step = "trash", job'.kind = "posted"
                   PROVE  ~sell'[job'.tx].logged
        BY <2>1 DEF Handled
      <3>1. /\ job'.tx = job.tx /\ job.kind = "posted" /\ job.step \in {"root", "trash"}
            /\ job.tx \in Sales
        <4>1. job'.tx = job.tx /\ job.kind = "posted"
          BY <2>1 DEF Handled
        <4>2. job.step = "root"
          BY <2>1 DEF Handled
        <4>3. QED
          BY <1>t, <4>1, <4>2 DEF JobInv
      <3>2. ~sell[job.tx].logged
        BY <2>1, <3>1 DEF CascadeInv
      <3>3. QED
        BY <2>1, <3>1, <3>2 DEF Handled, SaleHandled, NoSaleEntry
    <2>5. QED
      BY <2>1, <2>2, <2>3, <2>4 DEF CascadeInv
  <1>4. CASE HandlerFails
    BY <1>4, HandlerFailsEffect DEF CascadeInv
  <1>5. CASE missed'
    BY <1>5 DEF CascadeInv
  <1>6. QED
    BY <1>1, <1>2, <1>3, <1>4, <1>5 DEF DeletionNext

\* The inductive invariant, on top of DeletionTypeInv and RepairInv.
DeletedInv == EnoughInv /\ PlaceInv /\ HandInv /\ TickInv /\ CascadeInv

\* DeletedInv is an invariant.
LEMMA DeletedInvariant ==
    ASSUME OwnPurchaseCodes, MergeProps, PromptHandlers
    PROVE  DeletionSpec => []DeletedInv
  <1>1. DeletionInit => DeletedInv
    <2> SUFFICES ASSUME DeletionInit PROVE DeletedInv
      OBVIOUS
    <2>1. /\ \A p \in Purchases : splits[p] = NoTotals
          /\ \A s \in Sales : ~sell[s].logged /\ ~sell[s].posted /\ cogs[s] = <<>>
          /\ pc = "idle" /\ current = NoCurrentSale
      BY DEF DeletionInit, Init, NoSaleEntry
    <2>2. job.step = "none"
      BY DEF DeletionInit, NoJob
    <2>3. EnoughInv /\ PlaceInv
      BY <2>1 DEF EnoughInv, PlaceInv, InProcess
    <2>4. HandInv /\ TickInv /\ CascadeInv
      BY <2>1, <2>2 DEF HandInv, TickInv, CascadeInv, CalculationCalls
    <2>5. QED
      BY <2>3, <2>4 DEF DeletedInv
  <1>2. /\ DeletionTypeInv /\ DeletionTypeInv' /\ RepairInv /\ CalmInv /\ DeletedInv
        /\ [DeletionNext]_deletionVars
        => DeletedInv'
    BY SupplyDeletions, HandDeletions, TickDeletions, CascadeDeletions DEF DeletedInv
  <1>3. QED
    BY <1>1, <1>2, DeletionTypeInvariant, RepairInvariant, PTL DEF DeletionSpec

\* When every purchase has its own code, updates keep the properties that are not sent,
\* the handlers of hand-made changes are done before the next run and no run comes
\* between unchecking and trashing a sale, deletions that were noticed leave no split
\* without its purchase and no cost of sales without its sale, whatever other runs came
\* between the calls of their handlers.
THEOREM DeletionsLeaveNothing ==
    ASSUME OwnPurchaseCodes, MergeProps, PromptHandlers
    PROVE  DeletionSpec => []NothingDangling
  <1>1. DeletionTypeInv /\ RepairInv /\ DeletedInv => NothingDangling
    <2> SUFFICES ASSUME DeletionTypeInv, RepairInv, CascadeInv, Idle, ~missed
                 PROVE  /\ \A p \in Purchases : ~buy[p].posted => splits[p] = NoTotals
                        /\ \A s \in Sales : ~sell[s].posted => cogs[s] = <<>>
      BY DEF NothingDangling, DeletedInv
    <2>1. job.step = "none" /\ GoneInv
      BY DEF Idle, RepairInv
    <2>2. QED
      BY <2>1 DEF CascadeInv, GoneInv
  <1>2. QED
    BY <1>1, DeletionTypeInvariant, RepairInvariant, DeletedInvariant, PTL
------------------------------------------------------------------------------
(* Accounts that are not flagged *)

\* The account is flagged, or is about to be, or an edit was missed. Only the last
\* call of a reset ends this.
Off ==
    missed \/ props.needsRebuild \/ job.step = "flag" \/ (job.step # "none" /\ job.used)

\* A handler that has not come upon anything used has nothing to trash but the
\* transaction of its event.
UsedInv == ~missed /\ ~job.used =>
    /\ job.step = "splits" => splits[job.tx] = NoTotals
    /\ job.step = "cogs" => cogs[job.tx] = <<>>

\* What an edit and its handler may do without the account being flagged or the edit
\* being missed: only transactions that no calculation has used come and go.
Noticed ==
    /\ ~Off /\ pc = "idle" /\ pc' = "idle" /\ note' = note
    /\ \A p \in Purchases : splits'[p] = splits[p]
    /\ \A s \in Sales : cogs'[s] = cogs[s]
    /\ \A p \in Purchases : buy'[p] = buy[p] \/ (buy'[p] = NoPurchase /\ ~UsedPurchase(p))
    /\ \A s \in Sales : sell'[s] = sell[s] \/ (~sell[s].logged /\ ~sell'[s].logged)

\* The handler that an edit starts remembers whether something used was taken away.
LEMMA EditOff ==
    ASSUME NEW kind, NEW tx, NEW date, NEW used \in BOOLEAN, NEW step,
           Edit(kind, tx, date, used, step), step # "none",
           DeletionTypeInv, props' = props, ~Off'
    PROVE  ~Off /\ ~used /\ step # "flag" /\ pc = "idle" /\ pc' = "idle"
  <1>1. /\ pc = "idle" /\ pc' = pc /\ job.step = "none"
        /\ job' = [kind |-> kind, tx |-> tx, date |-> date, used |-> used, step |-> step]
        /\ missed' = (missed \/ (used /\ step = "answer"))
    BY DEF Edit, Idle
  <1>2. job'.step = step /\ job'.used = used
    BY <1>1
  <1>3. ~missed' /\ ~props'.needsRebuild /\ job'.step # "flag" /\ ~(job'.step # "none" /\ job'.used)
    BY DEF Off
  <1>4. ~missed
    BY <1>1, <1>3
  <1>5. ~used
    BY <1>2, <1>3
  <1>6. QED
    BY <1>1, <1>2, <1>3, <1>4, <1>5 DEF Off

\* An edit after which the account is in order has taken away nothing used.
LEMMA EditNoticed ==
    ASSUME DeletionTypeInv, GoneInv, UserEdits, ~Off'
    PROVE  Noticed
  <1>t. /\ buy \in [Purchases -> PurchaseRecords] /\ sell \in [Sales -> SaleRecords]
        /\ note \in [CreditNotes -> EntryRecords] /\ cogs \in [Sales -> Seq(Int)]
        /\ splits \in [Purchases -> Totals]
    BY Types DEF DeletionTypeInv
  <1>u. \A p \in Purchases : UsedPurchase(p) \in BOOLEAN
    BY <1>t DEF UsedPurchase, PurchaseRecords
  <1>v. \A s \in Sales : sell[s].logged \in BOOLEAN
    BY <1>t DEF SaleRecords
  <1>1. ASSUME NEW p \in Purchases, DeletePurchase(p)
        PROVE  Noticed
    <2>1. /\ Edit("purchase", p, buy[p].date, UsedPurchase(p), "root") /\ UNCHANGED books
      BY <1>1 DEF DeletePurchase
    <2>2. UNCHANGED <<buy, splits, sell, note, props, cogs>>
      BY <2>1 DEF books
    <2>3. ~Off /\ pc = "idle" /\ pc' = "idle"
      BY <1>u, <2>1, <2>2, EditOff
    <2>4. QED
      BY <2>2, <2>3 DEF Noticed
  <1>2. ASSUME NEW p \in Purchases, DeletePurchaseGoods(p)
        PROVE  Noticed
    <2>1. /\ Edit("goods", p, buy[p].date, UsedPurchase(p), "answer")
          /\ buy' = [buy EXCEPT ![p] = NoPurchase]
          /\ UNCHANGED <<splits, sell, note, props, cogs>>
      BY <1>2 DEF DeletePurchaseGoods
    <2>2. ~Off /\ ~UsedPurchase(p) /\ pc = "idle" /\ pc' = "idle"
      BY <1>u, <2>1, EditOff
    <2>3. buy'[p] = NoPurchase /\ \A r \in Purchases : r # p => buy'[r] = buy[r]
      BY <1>t, <2>1
    <2>4. QED
      BY <2>1, <2>2, <2>3 DEF Noticed
  <1>3. ASSUME NEW p \in Purchases, TickPurchase(p)
        PROVE  Noticed
    <2>1. /\ Edit("ticked", p, buy[p].date, UsedPurchase(p), "flag") /\ props' = props
      BY <1>3 DEF TickPurchase, GuardStep
    <2>2. QED
      BY <1>u, <2>1, EditOff
  <1>4. ASSUME NEW s \in Sales, DeleteSale(s)
        PROVE  Noticed
    <2>1. /\ Edit("sale", s, sell[s].date, sell[s].logged /\ s \in DebitIncoming,
                  DeletedSaleStep(s))
          /\ UNCHANGED books /\ DeletedSaleStep(s) # "none"
      BY <1>4 DEF DeleteSale, DeletedSaleStep
    <2>2. UNCHANGED <<buy, splits, sell, note, props, cogs>>
      BY <2>1 DEF books
    <2>3. (sell[s].logged /\ s \in DebitIncoming) \in BOOLEAN
      OBVIOUS
    <2>4. ~Off /\ pc = "idle" /\ pc' = "idle"
      BY <2>1, <2>2, <2>3, EditOff
    <2>5. QED
      BY <2>2, <2>4 DEF Noticed
  <1>5. ASSUME NEW s \in Sales, DeleteCogs(s)
        PROVE  Noticed
    <2>1. Edit("cogs", s, sell[s].date, TRUE, "answer") /\ props' = props
      BY <1>5 DEF DeleteCogs
    <2>2. QED
      BY <2>1, EditOff
  <1>6. ASSUME NEW s \in Sales, DeleteSaleGoods(s)
        PROVE  Noticed
    <2>1. /\ Edit("goods", s, sell[s].date, sell[s].logged, "answer")
          /\ sell' = [sell EXCEPT ![s] = NoSaleEntry]
          /\ UNCHANGED <<buy, splits, note, props, cogs>>
      BY <1>6 DEF DeleteSaleGoods
    <2>2. ~Off /\ ~sell[s].logged /\ pc = "idle" /\ pc' = "idle"
      BY <1>v, <2>1, EditOff
    <2>3. ~sell'[s].logged /\ \A r \in Sales : r # s => sell'[r] = sell[r]
      BY <1>t, <2>1 DEF NoSaleEntry
    <2>4. QED
      BY <2>1, <2>2, <2>3 DEF Noticed
  <1>7. ASSUME NEW s \in Sales, TickSale(s)
        PROVE  Noticed
    <2>1. Edit("ticked", s, sell[s].date, sell[s].logged, "flag") /\ props' = props
      BY <1>7 DEF TickSale, GuardStep
    <2>2. QED
      BY <1>v, <2>1, EditOff
  <1>8. ASSUME NEW s \in Sales, NEW q \in Quantities, NEW d \in Dates, PostSaleGoods(s, q, d)
        PROVE  Noticed
    <2>1. /\ Edit("posted", s, d, FALSE, "root") /\ ~sell[s].posted
          /\ sell' = [sell EXCEPT ![s] = [posted |-> TRUE, date |-> d, quantity |-> q,
                                          checked |-> FALSE, logged |-> FALSE, bot |-> FALSE]]
          /\ UNCHANGED <<buy, splits, note, props, cogs>>
      BY <1>8 DEF PostSaleGoods
    <2>2. ~Off /\ pc = "idle" /\ pc' = "idle"
      BY <2>1, EditOff
    <2>3. ~sell'[s].logged /\ \A r \in Sales : r # s => sell'[r] = sell[r]
      BY <1>t, <2>1
    <2>4. ~sell[s].logged
      BY <2>1 DEF GoneInv
    <2>5. QED
      BY <2>1, <2>2, <2>3, <2>4 DEF Noticed
  <1>9. ASSUME NEW n \in CreditNotes, NEW a \in ExtraAmounts, DeleteCreditNote(n, a)
        PROVE  Noticed
    <2>1. /\ Edit("creditNote", n, note[n].date, note[n].checked, "lookup")
          /\ UNCHANGED <<buy, splits, sell, note, props, cogs>>
      BY <1>9 DEF DeleteCreditNote
    <2>2. note[n].checked \in BOOLEAN
      BY <1>t DEF EntryRecords
    <2>3. ~Off /\ pc = "idle" /\ pc' = "idle"
      BY <2>1, <2>2, EditOff
    <2>4. QED
      BY <2>1, <2>3 DEF Noticed
  <1>10. ASSUME NEW n \in CreditNotes, TickCreditNote(n)
         PROVE  Noticed
    <2>1. Edit("ticked", n, note[n].date, TRUE, "answer") /\ props' = props
      BY <1>10 DEF TickCreditNote
    <2>2. QED
      BY <2>1, EditOff
  <1>11. ASSUME NEW c \in Codes, NEW a \in ExtraAmounts, DeleteAdditionalCost(c, a)
         PROVE  Noticed
    <2> DEFINE used == \E p \in Purchases : CodeOf[p] = c /\ UsedPurchase(p)
    <2>1. /\ Edit("additionalCost", c, NoDate, used, "answer")
          /\ UNCHANGED <<buy, splits, sell, note, props, cogs>>
      BY <1>11 DEF DeleteAdditionalCost
    <2>2. used \in BOOLEAN
      OBVIOUS
    <2> HIDE DEF used
    <2>3. ~Off /\ pc = "idle" /\ pc' = "idle"
      BY <2>1, <2>2, EditOff
    <2>4. QED
      BY <2>1, <2>3 DEF Noticed
  <1>12. QED
    BY <1>1, <1>2, <1>3, <1>4, <1>5, <1>6, <1>7, <1>8, <1>9, <1>10, <1>11 DEF UserEdits

\* Nor has a handler after whose call the account is in order.
LEMMA HandlerNoticed ==
    ASSUME DeletionTypeInv, UsedInv, HandlerSteps, ~Off'
    PROVE  Noticed
  <1>t. /\ buy \in [Purchases -> PurchaseRecords] /\ sell \in [Sales -> SaleRecords]
        /\ cogs \in [Sales -> Seq(Int)] /\ splits \in [Purchases -> Totals] /\ props \in Props
        /\ job \in Jobs /\ job.used \in BOOLEAN /\ missed \in BOOLEAN
    BY Types DEF DeletionTypeInv, Jobs
  <1>o. /\ ~missed' /\ ~props'.needsRebuild /\ job'.step # "flag"
        /\ job'.step # "none" => ~job'.used
    BY DEF Off
  <1>g. ASSUME NEW step, Goto(step), step \notin {"none", "flag"}, missed' = missed
        PROVE  ~job.used /\ ~missed /\ job'.step = step
    <2>1. job' = [job EXCEPT !.step = step]
      BY <1>g DEF Goto
    <2>2. job'.step = step /\ job'.used = job.used
      BY <1>t, <2>1 DEF Jobs
    <2>3. QED
      BY <1>g, <1>o, <2>2
  <1>n. CASE NotFound
    <2>1. /\ pc = "idle" /\ pc' = pc /\ Goto("answer")
          /\ UNCHANGED <<buy, splits, sell, note, props, cogs, missed>>
      BY <1>n DEF NotFound, At, books
    <2>2. ~job.used /\ ~missed
      BY <1>g, <2>1
    <2>3. job.step = "root"
      BY <1>n DEF NotFound, At
    <2>4. QED
      BY <1>o, <2>1, <2>2, <2>3 DEF Noticed, Off
  <1>1. CASE TrashPurchase
    <2>1. /\ job.step \in {"root", "trash"} /\ pc = "idle" /\ pc' = pc /\ job.tx \in Purchases
          /\ UNCHANGED <<splits, sell, note, props, cogs, missed>>
      BY <1>1 DEF TrashPurchase, At
    <2>2. /\ buy' = [buy EXCEPT ![job.tx] = NoPurchase]
          /\ job' = [job EXCEPT !.step = deleteOnInventoryBook[job.kind],
                                !.used = @ \/ UsedPurchase(job.tx)]
      BY <1>1 DEF TrashPurchase
    <2>3. job.kind = "purchase" /\ deleteOnInventoryBook[job.kind] = "splits"
      BY <2>1, DeletionAssumption DEF deleteOnInventoryBook, DeletionTypeInv, JobInv
    <2>4. job'.step = "splits" /\ (job'.used <=> job.used \/ UsedPurchase(job.tx))
      BY <1>t, <2>2, <2>3 DEF Jobs
    <2>5. ~job.used /\ ~UsedPurchase(job.tx)
      BY <1>o, <2>4
    <2>6. buy'[job.tx] = NoPurchase /\ \A r \in Purchases : r # job.tx => buy'[r] = buy[r]
      BY <1>t, <2>1, <2>2
    <2>7. QED
      BY <1>o, <2>1, <2>5, <2>6 DEF Noticed, Off
  <1>a. CASE UncheckPurchase
    <2>1. job' = [job EXCEPT !.step = "trash", !.used = TRUE]
      BY <1>a DEF UncheckPurchase
    <2>2. job'.step = "trash" /\ job'.used
      BY <1>t, <2>1 DEF Jobs
    <2>3. QED
      BY <1>o, <2>2
  <1>2. CASE TrashSale
    <2>1. /\ job.step \in {"root", "trash"} /\ pc = "idle" /\ pc' = pc /\ job.tx \in Sales
          /\ UNCHANGED <<buy, splits, note, props, cogs, missed>>
      BY <1>2 DEF TrashSale, At
    <2>2. /\ sell' = [sell EXCEPT ![job.tx] = NoSaleEntry]
          /\ job' = [job EXCEPT !.step = deleteOnInventoryBook[job.kind],
                                !.used = @ \/ sell[job.tx].logged]
      BY <1>2 DEF TrashSale
    <2>3. deleteOnInventoryBook[job.kind] \in {"cogs", "answer"}
      BY <2>1, DeletionAssumption DEF deleteOnInventoryBook, DeletionTypeInv, JobInv
    <2>4. job'.step # "none" /\ (job'.used <=> job.used \/ sell[job.tx].logged)
      BY <1>t, <2>2, <2>3 DEF Jobs
    <2>5. ~job.used /\ ~sell[job.tx].logged
      BY <1>o, <2>4
    <2>6. ~sell'[job.tx].logged /\ \A r \in Sales : r # job.tx => sell'[r] = sell[r]
      BY <1>t, <2>1, <2>2 DEF NoSaleEntry
    <2>7. QED
      BY <1>o, <2>1, <2>5, <2>6 DEF Noticed, Off
  <1>b. CASE UncheckSale
    <2>1. /\ job.step = "root" /\ pc = "idle" /\ pc' = pc /\ job.tx \in Sales
          /\ UNCHANGED <<buy, splits, note, props, cogs, missed>>
      BY <1>b DEF UncheckSale, At
    <2>2. /\ sell' = [sell EXCEPT ![job.tx].checked = FALSE]
          /\ job' = [job EXCEPT !.step = "trash", !.used = @ \/ sell[job.tx].logged]
      BY <1>b DEF UncheckSale
    <2>3. job'.step = "trash" /\ (job'.used <=> job.used \/ sell[job.tx].logged)
      BY <1>t, <2>2 DEF Jobs
    <2>4. ~job.used /\ ~sell[job.tx].logged
      BY <1>o, <2>3
    <2>5. /\ sell'[job.tx].logged = sell[job.tx].logged
          /\ \A r \in Sales : r # job.tx => sell'[r] = sell[r]
      BY <1>t, <2>1, <2>2 DEF SaleRecords
    <2>6. QED
      BY <1>o, <2>1, <2>4, <2>5 DEF Noticed, Off
  <1>3. CASE cascadeDeleteInventoryTransactions
    <2>1. /\ job.step = "splits" /\ pc = "idle" /\ pc' = pc
          /\ UNCHANGED <<buy, sell, note, props, cogs, missed>>
          /\ \/ splits[job.tx].quantity > 0 /\ job' = job
             \/ Goto("flagIfNeeded") /\ splits' = splits
      BY <1>3 DEF cascadeDeleteInventoryTransactions, At
    <2>2. CASE splits[job.tx].quantity > 0 /\ job' = job
      <3>1. ~job.used /\ ~missed
        BY <1>o, <2>1, <2>2
      <3>2. splits[job.tx] = NoTotals
        BY <2>1, <3>1 DEF UsedInv
      <3>3. QED
        BY <2>2, <3>2 DEF NoTotals
    <2>3. CASE Goto("flagIfNeeded") /\ splits' = splits
      <3>1. ~job.used /\ ~missed
        BY <1>g, <2>1, <2>3
      <3>2. QED
        BY <1>o, <2>1, <2>3, <3>1 DEF Noticed, Off
    <2>4. QED
      BY <2>1, <2>2, <2>3
  <1>4. CASE cascadeDeleteFinancialTransactions
    <2>1. /\ job.step = "cogs" /\ pc = "idle" /\ pc' = pc
          /\ cogs' = [cogs EXCEPT ![job.tx] = IF @ = <<>> THEN @ ELSE Tail(@)]
          /\ Goto("flagIfNeeded") /\ UNCHANGED <<buy, splits, sell, note, props, missed>>
      BY <1>4 DEF cascadeDeleteFinancialTransactions, At
    <2>2. ~job.used /\ ~missed
      BY <1>g, <2>1
    <2>3. cogs[job.tx] = <<>>
      BY <2>1, <2>2 DEF UsedInv
    <2>4. \A s \in Sales : cogs'[s] = cogs[s]
      BY <1>t, <2>1, <2>3
    <2>5. QED
      BY <1>o, <2>1, <2>2, <2>4 DEF Noticed, Off
  <1>5. CASE flagInventoryAccountForRebuildIfNeeded \/ LookUpPurchaseCode
    <2>1. /\ job.step \in {"flagIfNeeded", "lookup"} /\ pc = "idle" /\ pc' = pc /\ Goto("answer")
          /\ UNCHANGED <<buy, splits, sell, note, cogs, missed>>
      BY <1>5 DEF flagInventoryAccountForRebuildIfNeeded, LookUpPurchaseCode, At
    <2>2. props' \in {props, Flagged}
      BY <1>5 DEF flagInventoryAccountForRebuildIfNeeded, LookUpPurchaseCode
    <2>3. ~props.needsRebuild
      BY <1>t, <1>o, <2>2, FlaggedFacts
    <2>4. ~job.used /\ ~missed
      BY <1>g, <2>1
    <2>5. QED
      BY <2>1, <2>3, <2>4 DEF Noticed, Off
  <1>6. CASE FlagRebuild
    BY <1>t, <1>o, <1>6, FlaggedFacts DEF FlagRebuild
  <1>7. CASE Answer
    <2>1. /\ job.step = "answer" /\ pc = "idle" /\ pc' = pc
          /\ missed' = (missed \/ (job.used /\ ~props.needsRebuild))
          /\ UNCHANGED <<buy, splits, sell, note, props, cogs>>
      BY <1>7 DEF Answer, At, books
    <2>2. ~missed /\ ~job.used
      BY <1>o, <2>1
    <2>3. QED
      BY <1>o, <2>1, <2>2 DEF Noticed, Off
  <1>8. QED
    BY <1>n, <1>1, <1>a, <1>2, <1>b, <1>3, <1>4, <1>5, <1>6, <1>7 DEF HandlerSteps

\* A handler that goes on to trash what hangs on a transaction that was not used finds
\* nothing.
LEMMA HandlerUsed ==
    ASSUME DeletionTypeInv, GoneInv, CascadeInv, UsedInv, HandlerSteps
    PROVE  UsedInv'
  <1> SUFFICES ASSUME ~missed', ~job'.used
               PROVE  /\ job'.step = "splits" => splits'[job'.tx] = NoTotals
                      /\ job'.step = "cogs" => cogs'[job'.tx] = <<>>
    BY DEF UsedInv
  <1>t. /\ SplitsInv /\ buy \in [Purchases -> PurchaseRecords] /\ sell \in [Sales -> SaleRecords]
        /\ splits \in [Purchases -> Totals] /\ job \in Jobs /\ job.used \in BOOLEAN
    BY Types DEF DeletionTypeInv, Jobs
  <1>g. ASSUME NEW step, Goto(step) PROVE job'.step = step
    BY <1>t, <1>g DEF Goto, Jobs
  <1>1. CASE TrashPurchase
    <2>1. /\ job.tx \in Purchases /\ splits' = splits
          /\ job' = [job EXCEPT !.step = deleteOnInventoryBook[job.kind],
                                !.used = @ \/ UsedPurchase(job.tx)]
      BY <1>1 DEF TrashPurchase, At
    <2>a. job.step \in {"root", "trash"}
      BY <1>1 DEF TrashPurchase, At
    <2>2. job.kind = "purchase" /\ deleteOnInventoryBook[job.kind] = "splits"
      BY <2>1, <2>a, DeletionAssumption DEF deleteOnInventoryBook, DeletionTypeInv, JobInv
    <2>3. /\ job'.step = "splits" /\ job'.tx = job.tx
          /\ job'.used <=> job.used \/ UsedPurchase(job.tx)
      BY <1>t, <2>1, <2>2 DEF Jobs
    <2>4. splits[job.tx] \in Totals /\ ~(splits[job.tx].quantity > 0)
      BY <1>t, <2>1, <2>3 DEF UsedPurchase
    <2>5. splits[job.tx].quantity = 0
      BY <2>4 DEF Totals
    <2>6. splits[job.tx].cost = 0
      BY <2>1, <2>5 DEF GoneInv
    <2>7. splits[job.tx] = NoTotals
      BY <1>t, <2>1, <2>4, <2>5, <2>6, NoSplitsLeft
    <2>8. QED
      BY <2>1, <2>3, <2>7
  <1>2. CASE TrashSale
    <2>1. /\ job.tx \in Sales /\ cogs' = cogs /\ missed' = missed
          /\ job' = [job EXCEPT !.step = deleteOnInventoryBook[job.kind],
                                !.used = @ \/ sell[job.tx].logged]
      BY <1>2 DEF TrashSale, At
    <2>a. job.step \in {"root", "trash"}
      BY <1>2 DEF TrashSale, At
    <2>2. deleteOnInventoryBook[job.kind] \in {"cogs", "answer"}
      BY <2>1, <2>a, DeletionAssumption DEF deleteOnInventoryBook, DeletionTypeInv, JobInv
    <2>3. /\ job'.step # "splits" /\ job'.tx = job.tx
          /\ job'.used <=> job.used \/ sell[job.tx].logged
      BY <1>t, <2>1, <2>2 DEF Jobs
    <2>4. ~sell[job.tx].logged
      BY <2>3
    <2>5. cogs[job.tx] = <<>>
      BY <2>1, <2>a, <2>4 DEF CascadeInv
    <2>6. QED
      BY <2>1, <2>3, <2>5
  <1>3. CASE \/ NotFound \/ cascadeDeleteFinancialTransactions
             \/ flagInventoryAccountForRebuildIfNeeded \/ FlagRebuild \/ LookUpPurchaseCode
    BY <1>g, <1>3 DEF NotFound, cascadeDeleteFinancialTransactions,
       flagInventoryAccountForRebuildIfNeeded, FlagRebuild, LookUpPurchaseCode
  <1>a. CASE UncheckPurchase \/ UncheckSale
    <2>1. /\ job.tx \in Transactions
          /\ \E used \in BOOLEAN : job' = [job EXCEPT !.step = "trash", !.used = used]
      BY <1>a, <1>t DEF UncheckPurchase, UncheckSale, Transactions, SaleRecords
    <2>2. job'.step = "trash"
      BY <1>t, <2>1 DEF Jobs
    <2>3. QED
      BY <2>2
  <1>b. CASE cascadeDeleteInventoryTransactions
    <2>1. /\ job.step = "splits" /\ missed' = missed
          /\ \/ splits[job.tx].quantity > 0 /\ job' = job
             \/ Goto("flagIfNeeded")
      BY <1>b DEF cascadeDeleteInventoryTransactions, At
    <2>2. CASE splits[job.tx].quantity > 0 /\ job' = job
      <3>1. splits[job.tx] = NoTotals
        BY <2>1, <2>2 DEF UsedInv
      <3>2. QED
        BY <2>2, <3>1 DEF NoTotals
    <2>3. QED
      BY <1>g, <2>1, <2>2
  <1>4. CASE Answer
    BY <1>4 DEF Answer, NoJob
  <1>5. QED
    BY <1>1, <1>2, <1>3, <1>4, <1>a, <1>b DEF HandlerSteps

\* The engine touches nothing of a transaction that a handler has trashed.
LEMMA EngineUsed ==
    ASSUME DeletionTypeInv, RepairInv, CalmInv, CascadeInv, UsedInv, Engine \/ UNCHANGED deletionVars
    PROVE  UsedInv'
  <1> SUFFICES ASSUME ~missed', ~job'.used
               PROVE  /\ job'.step = "splits" => splits'[job'.tx] = NoTotals
                      /\ job'.step = "cogs" => cogs'[job'.tx] = <<>>
    BY DEF UsedInv
  <1>t. /\ TypeInv /\ SplitsInv /\ JobInv /\ splits \in [Purchases -> Totals]
    BY Types DEF DeletionTypeInv
  <1>e. [Next]_vars /\ UNCHANGED <<job, missed>>
    BY EngineType
  <1>r. GoneInv /\ MemoryInv /\ PlannedInv
    BY DEF RepairInv
  <1>u. /\ job.step = "splits" =>
             job.tx \in Purchases /\ ~buy[job.tx].posted /\ splits[job.tx] = NoTotals
        /\ job.step = "cogs" =>
             job.tx \in Sales /\ ~sell[job.tx].posted /\ cogs[job.tx] = <<>>
    BY <1>t, <1>e DEF JobInv, UsedInv
  <1>1. CASE CreateInventoryTransactions
    <2>1. pc = "createInventory" /\ cogs' = cogs
      BY <1>1 DEF CreateInventoryTransactions
    <2>2. ASSUME job.step = "splits" PROVE splits'[job.tx] = NoTotals
      <3>0. job.tx \in Purchases
        BY <1>u, <2>2
      <3>1. plan.splits[job.tx] = NoTotals
        BY <1>r, <1>u, <2>1, <2>2 DEF MemoryInv, PlannedInv, Calculating
      <3>2. splits'[job.tx] =
               [quantity |-> splits[job.tx].quantity + plan.splits[job.tx].quantity,
                cost |-> splits[job.tx].cost + plan.splits[job.tx].cost,
                credited |-> splits[job.tx].credited + plan.splits[job.tx].credited,
                loose |-> splits[job.tx].loose]
        BY <1>1, <3>0 DEF CreateInventoryTransactions
      <3>3. splits[job.tx] = NoTotals
        BY <1>u, <2>2
      <3>4. QED
        BY <3>1, <3>2, <3>3 DEF NoTotals
    <2>3. QED
      BY <1>e, <1>u, <2>1, <2>2
  <1>2. CASE TrashInventoryTransactions
    BY <1>e, <1>u, <1>2 DEF TrashInventoryTransactions
  <1>3. CASE CreateFinancialTransactions
    <2>1. pc = "createFinancial" /\ splits' = splits
          /\ \A s \in Sales : s \notin plan.cogs => cogs'[s] = cogs[s]
      BY <1>3 DEF CreateFinancialTransactions
    <2>2. job.step = "cogs" => job.tx \notin plan.cogs
      BY <1>e, <1>r, <1>u, <2>1 DEF CascadeInv, GoneInv
    <2>3. QED
      BY <1>e, <1>u, <2>1, <2>2
  <1>4. CASE TrashFinancialTransactions
    <2>1. pc = "trashFinancial" /\ splits' = splits
          /\ \A s \in Sales : s \notin plan.cogs => cogs'[s] = cogs[s]
      BY <1>4 DEF TrashFinancialTransactions
    <2>2. job.step = "cogs" => job.tx \notin plan.cogs
      BY <1>t, <1>u, <2>1 DEF TypeInv
    <2>3. QED
      BY <1>e, <1>u, <2>1, <2>2
  <1>5. CASE Handlers
    BY <1>e, <1>t, <1>u, <1>5, HandlerEffect
  <1>a. CASE RestoreInventoryTransactions
    <2>1. cogs' = cogs /\ \A p \in Purchases : splits[p] = NoTotals => splits'[p] = NoTotals
      BY <1>a DEF RestoreInventoryTransactions, NoTotals
    <2>2. QED
      BY <1>e, <1>u, <2>1
  <1>b. CASE UpdateInventoryTransactions
    <2>0. pc = "updateInventory" /\ NoLooseSplits
      BY <1>b DEF UpdateInventoryTransactions, CalmInv
    <2>1. queue.splits = {}
      BY <1>t, <2>0, NoneListed
    <2>2. cogs' = cogs /\ \A p \in Purchases : splits'[p] = splits[p]
      BY <1>b, <2>1 DEF UpdateInventoryTransactions
    <2>3. QED
      BY <1>e, <1>u, <2>2
  <1>6. CASE UNCHANGED <<splits, cogs>>
    BY <1>e, <1>u, <1>6
  <1>7. CASE \/ StartCalculation \/ StartReset \/ Crash \/ UNCHANGED vars
             \/ \E d \in Dates : ListTransactions(d)
             \/ \E n \in CreditNotes : ProcessCreditNote(n)
             \/ CreditNotesDone
             \/ \E s \in Sales : NextSale(s)
             \/ \E p \in Purchases : LiquidatePurchase(p) \/ SplitPurchase(p) \/ RejectSplit(p)
             \/ FinishSale \/ SalesDone \/ storeLastCalcTxDate
             \/ ReadAccountToReset \/ ListTransactionsToReset \/ ClearAccount
    BY <1>6, <1>7 DEF StartCalculation, StartReset, Crash, vars, books, ListTransactions,
       ProcessCreditNote, CreditNotesDone, NextSale, LiquidatePurchase, SplitPurchase,
       RejectSplit, FinishSale, SalesDone, storeLastCalcTxDate, ReadAccountToReset,
       ListTransactionsToReset, ClearAccount
  <1>8. QED
    BY <1>e, <1>1, <1>2, <1>3, <1>4, <1>5, <1>7, <1>a, <1>b DEF Next, Calculation, Reset

\* Every step keeps UsedInv, and the purchases that a run holds open.
LEMMA UsedDeletions ==
    ASSUME DeletionTypeInv, RepairInv, CalmInv, CascadeInv, UsedInv, OpenInv,
           [DeletionNext]_deletionVars
    PROVE  UsedInv' /\ OpenInv'
  <1>t. TypeInv /\ MemoryInv /\ GoneInv
    BY DEF DeletionTypeInv, RepairInv
  <1>1. CASE Engine \/ UNCHANGED deletionVars
    BY <1>t, <1>1, EngineType, EngineUsed, OpenStep
  <1>2. CASE UserEdits
    BY <1>2, EditEffect DEF Edited, UsedInv, OpenInv, Calculating
  <1>3. CASE HandlerSteps
    <2>1. UsedInv'
      BY <1>t, <1>3, HandlerUsed
    <2>2. QED
      BY <1>3, <2>1, HandlerStepEffect DEF Handled, OpenInv, Calculating
  <1>4. CASE HandlerFails
    BY <1>4, HandlerFailsEffect DEF UsedInv, OpenInv, Calculating, books, NoLooseSplits
  <1>5. QED
    BY <1>1, <1>2, <1>3, <1>4 DEF DeletionNext

\* In the engine, only the last call of a reset puts an account in order.
LEMMA EngineOff ==
    ASSUME MergeProps, DeletionTypeInv, Engine \/ UNCHANGED deletionVars, ~Off'
    PROVE  /\ LivingSteps /\ ~missed /\ (~ClearAccount => ~Off)
           /\ job.step # "none" => ~job.used
  <1>1. LivingSteps
    BY DEF Engine, LivingSteps, deletionVars
  <1>2. TypeInv /\ [Next]_vars /\ UNCHANGED <<job, missed>>
    BY EngineType DEF DeletionTypeInv
  <1>3. props.needsRebuild /\ ~ClearAccount => props'.needsRebuild
    BY <1>2, FlagStep
  <1>4. QED
    BY <1>1, <1>2, <1>3 DEF Off

\* What edits and handlers do unnoticed leaves the two books tied.
LEMMA NoticedTied ==
    ASSUME TypeInv, TiedBooks, Noticed
    PROVE  TiedBooks'
  <1>1. pc = "idle" /\ pc' = "idle"
    BY DEF Noticed
  <1>2. ASSUME NEW s \in Sales PROVE PostedCosts[s] \in Int /\ PostedCosts'[s] = PostedCosts[s]
    BY CostTypes DEF Noticed, PostedCosts
  <1>3. ASSUME NEW p \in Purchases PROVE OutCosts[p] \in Int /\ OutCosts'[p] = OutCosts[p]
    <2>1. OutCosts[p] \in Int /\ OutCosts[p] = splits[p].cost + Used(buy[p])
      BY CostTypes
    <2>2. OutCosts'[p] = splits'[p].cost + Used(buy'[p])
      BY DEF OutCosts, Used
    <2>3. Used(buy'[p]) = Used(buy[p])
      <3>1. CASE buy'[p] = buy[p]
        BY <3>1
      <3>2. CASE buy'[p] = NoPurchase /\ ~UsedPurchase(p)
        BY <3>2 DEF Used, UsedPurchase, NoPurchase
      <3>3. QED
        BY <3>1, <3>2 DEF Noticed
    <2>4. QED
      BY <2>1, <2>2, <2>3 DEF Noticed
  <1>4. /\ SumOf(PostedCosts, Sales) = SumOf(PostedCosts', Sales)
        /\ SumOf(OutCosts, Purchases) = SumOf(OutCosts', Purchases)
    BY <1>2, <1>3, SumEqual, FiniteAssumption
  <1>5. QED
    BY <1>1, <1>4 DEF TiedBooks, Calculating

\* When a reset gets to its last call and all is in order then, nothing is left.
LEMMA ClearedBooks ==
    ASSUME DeletionTypeInv, RepairInv, HandInv, TickInv, CascadeInv, UsedInv, ClearAccount, ~missed,
           job.step # "none" => ~job.used
    PROVE  /\ \A s \in Sales : cogs[s] = <<>> /\ ~sell[s].logged
           /\ \A p \in Purchases : Untouched(p) /\ splits[p] = NoTotals
           /\ \A n \in CreditNotes : ~note[n].checked
  <1>1. pc = "clearAccount"
    BY DEF ClearAccount
  <1>h. \A s \in Sales : sell[s].logged => sell[s].bot
    BY <1>1 DEF HandInv, TickInv, RepairInv, GoneInv
  <1>2. /\ \A p \in Purchases : Untouched(p) /\ splits[p] = NoTotals
        /\ \A s \in Sales : ~sell[s].logged
        /\ \A n \in CreditNotes : ~note[n].checked
    BY <1>1, <1>h DEF RepairInv, RepairedInv
  <1>3. \A s \in Sales : cogs[s] = <<>>
    BY <1>2 DEF CascadeInv, UsedInv
  <1>4. QED
    BY <1>2, <1>3

\* Every step after which an account is in order leaves the two books tied.
LEMMA TiedDeletions ==
    ASSUME MergeProps, DeletionTypeInv, DeletionTypeInv', RepairInv, CalmInv, DeletedInv, UsedInv, OpenInv,
           ~Off => TiedBooks, [DeletionNext]_deletionVars, ~Off'
    PROVE  TiedBooks'
  <1>t. /\ TypeInv /\ TypeInv' /\ GoneInv /\ MemoryInv /\ PlannedInv /\ PlaceInv /\ CascadeInv
        /\ HandInv /\ TickInv /\ SplitsInv
    BY DEF DeletionTypeInv, RepairInv, DeletedInv
  <1>1. CASE Engine \/ UNCHANGED deletionVars
    <2>1. /\ LivingSteps /\ ~missed /\ (~ClearAccount => ~Off)
          /\ job.step # "none" => ~job.used
      BY <1>1, EngineOff
    <2>2. CASE ClearAccount
      BY <1>t, <2>1, <2>2, ClearedBooks, ClearedTied
    <2>3. CASE ~ClearAccount
      <3>1. TiedBooks
        BY <2>1, <2>3
      <3>2. \A p \in Purchases : ~buy[p].posted => ~buy[p].checked
        BY <1>t DEF GoneInv, NoPurchase
      <3>3. Calculating =>
              /\ plan.buys \subseteq queue.buys
              /\ \A p \in Purchases : p \notin plan.buys => plan.splits[p] = NoTotals
        BY <1>t DEF PlannedInv
      <3>4. pc = "createFinancial" => \A s \in plan.cogs : cogs[s] = <<>>
        BY <1>t, <2>1 DEF CascadeInv
      <3>5. pc # "trashInventory" => NoLooseSplits
        BY DEF CalmInv
      <3>6. QED
        BY <1>t, <2>1, <2>3, <3>1, <3>2, <3>3, <3>4, <3>5, TiedStep
    <2>4. QED
      BY <2>2, <2>3
  <1>2. CASE UserEdits \/ HandlerSteps
    <2>1. Noticed
      BY <1>t, <1>2, EditNoticed, HandlerNoticed
    <2>2. ~Off
      BY <2>1 DEF Noticed
    <2>3. QED
      BY <1>t, <2>1, <2>2, NoticedTied
  <1>3. CASE HandlerFails
    BY <1>3, HandlerFailsEffect DEF Off
  <1>4. QED
    BY <1>1, <1>2, <1>3 DEF DeletionNext

\* The inductive invariant, on top of DeletionTypeInv, RepairInv and DeletedInv.
UnflaggedInv == OpenInv /\ UsedInv /\ (~Off => TiedBooks)

\* UnflaggedInv is an invariant.
LEMMA UnflaggedInvariant ==
    ASSUME OwnPurchaseCodes, MergeProps, PromptHandlers
    PROVE  DeletionSpec => []UnflaggedInv
  <1>1. DeletionInit => UnflaggedInv
    <2> SUFFICES ASSUME DeletionInit PROVE UnflaggedInv
      OBVIOUS
    <2>1. Init /\ pc = "idle" /\ job.step = "none"
      BY DEF DeletionInit, Init, NoJob
    <2>2. TiedBooks
      BY <2>1, InitTied
    <2>3. QED
      BY <2>1, <2>2 DEF UnflaggedInv, OpenInv, UsedInv, Calculating
  <1>2. /\ DeletionTypeInv /\ DeletionTypeInv' /\ RepairInv /\ CalmInv /\ DeletedInv /\ UnflaggedInv
        /\ [DeletionNext]_deletionVars
        => UnflaggedInv'
    BY UsedDeletions, TiedDeletions DEF UnflaggedInv, DeletedInv
  <1>3. QED
    BY <1>1, <1>2, DeletionTypeInvariant, RepairInvariant, DeletedInvariant, PTL DEF DeletionSpec

\* When every purchase has its own code, updates keep the properties that are not sent,
\* the handlers of hand-made changes are done before the next run and no run comes
\* between unchecking and trashing a sale, an account that is not flagged has the
\* Financial Book agree with the Inventory Book once the handlers have answered, whatever
\* was deleted or ticked in between and whatever other runs came between the calls of the
\* handlers, unless an edit was missed.
THEOREM UnflaggedBooksAgree ==
    ASSUME OwnPurchaseCodes, MergeProps, PromptHandlers
    PROVE  DeletionSpec => []UnflaggedTieOut
  <1>1. DeletionTypeInv /\ UnflaggedInv => UnflaggedTieOut
    BY TiedOut DEF UnflaggedTieOut, UnflaggedInv, Idle, Off, DeletionTypeInv
  <1>2. QED
    BY <1>1, DeletionTypeInvariant, UnflaggedInvariant, PTL
------------------------------------------------------------------------------
(* The stock of accounts that are not flagged *)

\* What is left of a purchase record.
Left(r) == IF r.checked THEN 0 ELSE r.amount

\* The units that have left each purchase in the book, and those that the run takes
\* from it.
OutUnits == [p \in Purchases |-> buy[p].quantity - Left(buy[p])]
PlannedUnits == [p \in Purchases |->
    IF p \in queue.buys THEN buy[p].amount - Left(local[p]) ELSE 0]

\* The sales and the credit notes that they went to.
LoggedSales == {s \in Sales : sell[s].logged}
CheckedNotes == {n \in CreditNotes : note[n].checked}

\* The units that have left the purchases are those of the costed sales and of the
\* processed credit notes.
UnitsTied ==
    SumOf(OutUnits, Purchases)
      = SumOf(SaleQuantities, LoggedSales) + SumOf(NoteQuantities, CheckedNotes)

\* The copies of a run until it writes them.
Planning == Calculating \/ pc = "updateInventory"

\* The units that a calculation takes are those of the sales it has costed, of the
\* credit notes it has processed and of the sale at hand, none of which counted as
\* processed when it began.
UnitsInv ==
    Planning =>
        /\ queue.notes \cap plan.notes = {}
        /\ \A n \in queue.notes \cup plan.notes : ~note[n].checked
        /\ \A p \in queue.buys : ~buy[p].checked
        /\ \A p \in queue.buys : p \notin plan.buys => local[p] = buy[p]
        /\ pc = "credits" => \A p \in queue.buys : ~local[p].checked
        /\ SumOf(PlannedUnits, Purchases)
             = SumOf(SaleQuantities, plan.cogs) + SumOf(NoteQuantities, plan.notes) + Costing

\* What is left of a purchase and its splits cover it, and no more than it is left,
\* also in the copies and the splits of a run.
CoveredInv ==
    /\ \A p \in Purchases :
          /\ buy[p].amount <= buy[p].quantity
          /\ buy[p].amount + splits[p].quantity >= buy[p].quantity
    /\ Planning => \A p \in queue.buys :
          local[p].amount <= buy[p].amount /\ local[p].quantity = buy[p].quantity
    /\ Calculating => \A p \in queue.buys :
          local[p].amount + plan.splits[p].quantity >= buy[p].amount
    /\ pc = "updateInventory" => \A p \in plan.buys :
          local[p].amount + splits[p].quantity >= buy[p].quantity

\* The types of what UnitsInv and UnitsTied speak of.
LEMMA UnitTypes ==
    ASSUME TypeInv
    PROVE  /\ \A p \in Purchases : /\ buy[p].amount \in Nat /\ buy[p].quantity \in Nat
                                   /\ local[p].amount \in Nat /\ local[p].quantity \in Nat
                                   /\ splits[p].quantity \in Nat
                                   /\ plan.splits[p].quantity \in Nat
                                   /\ Left(buy[p]) \in Nat /\ Left(local[p]) \in Nat
           /\ \A p \in Purchases :
                 OutUnits[p] = buy[p].quantity - Left(buy[p]) /\ OutUnits[p] \in Int
           /\ \A p \in Purchases : PlannedUnits[p] =
                 IF p \in queue.buys THEN buy[p].amount - Left(local[p]) ELSE 0
           /\ \A p \in Purchases : PlannedUnits[p] \in Int
           /\ \A s \in Sales : SaleQuantities[s] = sell[s].quantity /\ SaleQuantities[s] \in Int
           /\ \A n \in CreditNotes : NoteQuantities[n] = note[n].quantity /\ NoteQuantities[n] \in Int
           /\ IsFiniteSet(Purchases) /\ IsFiniteSet(Sales) /\ IsFiniteSet(CreditNotes)
           /\ plan.cogs \subseteq Sales /\ IsFiniteSet(plan.cogs)
           /\ plan.notes \subseteq CreditNotes /\ IsFiniteSet(plan.notes)
           /\ SumOf(OutUnits, Purchases) \in Int /\ SumOf(PlannedUnits, Purchases) \in Int
           /\ SumOf(SaleQuantities, plan.cogs) \in Int /\ SumOf(NoteQuantities, plan.notes) \in Int
  <1>1. \A r \in PurchaseRecords : r.amount \in Nat /\ r.quantity \in Nat /\ Left(r) \in Nat
    BY DEF PurchaseRecords, Left
  <1>2. \A t \in Totals : t.quantity \in Nat
    BY DEF Totals
  <1>3. \A p \in Purchases : /\ buy[p].amount \in Nat /\ buy[p].quantity \in Nat
                             /\ local[p].amount \in Nat /\ local[p].quantity \in Nat
                             /\ splits[p].quantity \in Nat
                             /\ plan.splits[p].quantity \in Nat
                             /\ Left(buy[p]) \in Nat /\ Left(local[p]) \in Nat
    BY <1>1, <1>2, Types
  <1>4. \A p \in Purchases : OutUnits[p] = buy[p].quantity - Left(buy[p]) /\ OutUnits[p] \in Int
    BY <1>3 DEF OutUnits
  <1>5. \A p \in Purchases : PlannedUnits[p] =
           IF p \in queue.buys THEN buy[p].amount - Left(local[p]) ELSE 0
    BY DEF PlannedUnits
  <1>6. \A p \in Purchases : PlannedUnits[p] \in Int
    BY <1>3, <1>5
  <1>7. /\ \A s \in Sales : SaleQuantities[s] = sell[s].quantity /\ SaleQuantities[s] \in Int
        /\ \A n \in CreditNotes : NoteQuantities[n] = note[n].quantity /\ NoteQuantities[n] \in Int
    BY SupplyTypes
  <1>8. /\ plan.cogs \subseteq Sales /\ IsFiniteSet(plan.cogs)
        /\ plan.notes \subseteq CreditNotes /\ IsFiniteSet(plan.notes)
    BY Types, FS_Subset, FiniteAssumption
  <1>9. SumOf(OutUnits, Purchases) \in Int /\ SumOf(PlannedUnits, Purchases) \in Int
    BY <1>4, <1>6, SumType, FiniteAssumption
  <1>10. SumOf(SaleQuantities, plan.cogs) \in Int /\ SumOf(NoteQuantities, plan.notes) \in Int
    BY <1>7, <1>8, SumType
  <1>11. QED
    BY <1>3, <1>4, <1>5, <1>6, <1>7, <1>8, <1>9, <1>10, FiniteAssumption

\* What a run holds after a step of its loops: the units still add up, and its
\* copies and splits cover the purchases.
HeldNotes(q, pl) ==
    q.notes \cap pl.notes = {} /\ \A n \in q.notes \cup pl.notes : ~note[n].checked
HeldPurchases(q, l, pl) ==
    \A p \in q.buys :
        /\ ~buy[p].checked /\ (p \notin pl.buys => l[p] = buy[p])
        /\ l[p].amount <= buy[p].amount /\ l[p].quantity = buy[p].quantity
        /\ l[p].amount + pl.splits[p].quantity >= buy[p].amount

\* The steps of a run that is costing sales.
LEMMA UnitsCalculation ==
    ASSUME TypeInv, TypeInv', SplitsInv, CalmInv, EverySaleCosted, MemoryInv, PlaceInv, UnitsInv, CoveredInv,
           [Next]_vars, Calculating', ~Handlers, vars' # vars
    PROVE  /\ UNCHANGED <<buy, splits, sell, note>> /\ HeldNotes(queue', plan')
           /\ HeldPurchases(queue', local', plan')
           /\ pc' = "credits" => \A p \in queue'.buys : ~local'[p].checked
           /\ SumOf(PlannedUnits', Purchases)
                = SumOf(SaleQuantities, plan'.cogs) + SumOf(NoteQuantities, plan'.notes) + Costing'
  <1> DEFINE G == SumOf(PlannedUnits', Purchases)
                    = SumOf(SaleQuantities, plan'.cogs) + SumOf(NoteQuantities, plan'.notes)
                        + Costing'
             U == UNCHANGED <<buy, splits, sell, note>>
             N == HeldNotes(queue', plan')
             P == /\ HeldPurchases(queue', local', plan')
                  /\ pc' = "credits" => \A p \in queue'.buys : ~local'[p].checked
             TU == SumOf(PlannedUnits, Purchases)
             TS == SumOf(SaleQuantities, plan.cogs)
             TN == SumOf(NoteQuantities, plan.notes)
  <1>t. /\ \A p \in Purchases : /\ buy[p].amount \in Nat /\ local[p].amount \in Nat
                                /\ plan.splits[p].quantity \in Nat
                                /\ Left(buy[p]) \in Nat /\ Left(local[p]) \in Nat
        /\ \A p \in Purchases : PlannedUnits[p] =
              IF p \in queue.buys THEN buy[p].amount - Left(local[p]) ELSE 0
        /\ \A p \in Purchases : PlannedUnits[p] \in Int
        /\ \A s \in Sales : SaleQuantities[s] = sell[s].quantity /\ SaleQuantities[s] \in Int
        /\ \A n \in CreditNotes : NoteQuantities[n] = note[n].quantity /\ NoteQuantities[n] \in Int
        /\ IsFiniteSet(Purchases) /\ IsFiniteSet(plan.cogs) /\ IsFiniteSet(plan.notes)
        /\ plan.cogs \subseteq Sales /\ plan.notes \subseteq CreditNotes
        /\ TU \in Int /\ TS \in Int /\ TN \in Int
    BY UnitTypes
  <1>p. \A p \in Purchases : PlannedUnits'[p] =
           IF p \in queue'.buys THEN buy'[p].amount - Left(local'[p]) ELSE 0
    BY DEF PlannedUnits, Left
  <1>b. /\ queue.buys \subseteq Purchases /\ queue.notes \subseteq CreditNotes
        /\ current.sold \in Nat /\ plan.splits \in [Purchases -> Totals]
        /\ buy \in [Purchases -> PurchaseRecords] /\ note \in [CreditNotes -> EntryRecords]
    BY Types
  <1>i. Calculating =>
          /\ HeldNotes(queue, plan) /\ HeldPurchases(queue, local, plan)
          /\ pc = "credits" => \A p \in queue.buys : ~local[p].checked
          /\ TU = TS + TN + Costing
    BY DEF UnitsInv, CoveredInv, Planning, HeldNotes, HeldPurchases
  <1> HIDE DEF TU, TS, TN
  <1>1. ASSUME NEW d \in Dates, ListTransactions(d), ~Finish
        PROVE  U /\ N /\ P /\ G
    <2>1. /\ pc = "list" /\ pc' = "credits" /\ UNCHANGED <<books, plan>> /\ local' = buy
          /\ queue'.buys \subseteq Unchecked(buy, d) /\ queue'.notes \subseteq Unchecked(note, d)
      <3>1. pc = "list"
        BY <1>1 DEF ListTransactions
      <3>2. NoLooseSplits
        BY <3>1 DEF CalmInv
      <3>3. QED
        BY <1>1, <3>2, ListEffect DEF OnePerKey
    <2>2. plan = EmptyPlan
      BY <2>1 DEF MemoryInv
    <2>3. /\ plan'.cogs = {} /\ plan'.notes = {} /\ plan'.buys = {}
          /\ \A p \in Purchases : plan'.splits[p].quantity = 0
      BY <2>1, <2>2 DEF EmptyPlan, NoTotals
    <2>4. /\ \A p \in queue'.buys : p \in Purchases /\ ~buy[p].checked
          /\ \A n \in queue'.notes : ~note[n].checked
      BY <1>b, <2>1 DEF Unchecked
    <2>5. U
      BY <2>1 DEF books
    <2>6. \A p \in Purchases : PlannedUnits'[p] = 0
      BY <1>t, <1>p, <2>1, <2>4, <2>5 DEF Left
    <2>7. SumOf(PlannedUnits', Purchases) = 0
      BY <1>t, <2>6, SumZero
    <2>8. Costing' = 0
      BY <2>1 DEF Costing
    <2>9. SumOf(SaleQuantities, plan'.cogs) = 0 /\ SumOf(NoteQuantities, plan'.notes) = 0
      BY <2>3, SumEmpty
    <2>10. N /\ P
      BY <1>t, <2>1, <2>3, <2>4 DEF HeldNotes, HeldPurchases
    <2>11. QED
      BY <2>5, <2>7, <2>8, <2>9, <2>10
  <1>2. ASSUME NEW n \in CreditNotes, ProcessCreditNote(n), ~Finish
        PROVE  U /\ N /\ P /\ G
    <2>1. /\ pc = "credits" /\ pc' = "credits" /\ n \in queue.notes /\ UNCHANGED books
          /\ queue'.notes = queue.notes \ {n} /\ queue'.buys = queue.buys
          /\ plan'.cogs = plan.cogs
      BY <1>2, CreditNoteEffect
    <2>2. Calculating /\ U /\ Costing = 0 /\ Costing' = 0
      BY <2>1 DEF Calculating, Costing, books
    <2>i. /\ queue.notes \cap plan.notes = {}
          /\ \A m \in queue.notes \cup plan.notes : ~note[m].checked
          /\ TU = TS + TN
      BY <1>i, <1>t, <2>2 DEF HeldNotes
    <2>3. CASE UNCHANGED <<local, plan>>
      <3>1. PlannedUnits' = PlannedUnits
        BY <2>1, <2>2, <2>3 DEF PlannedUnits, Left
      <3>2. N /\ P
        BY <1>i, <2>1, <2>2, <2>3 DEF HeldNotes, HeldPurchases
      <3>3. QED
        BY <1>t, <2>i, <2>2, <2>3, <3>1, <3>2 DEF TU, TS, TN
    <2>4. ASSUME NEW p \in queue.buys,
                 local'[p].amount = local[p].amount - note[n].quantity,
                 local'[p].checked = local[p].checked, local'[p].quantity = local[p].quantity,
                 note[n].quantity < local[p].amount,
                 plan'.splits[p].quantity = plan.splits[p].quantity + note[n].quantity,
                 plan'.notes = plan.notes \cup {n}, plan'.buys = plan.buys \cup {p},
                 \A r \in Purchases : r # p =>
                    local'[r] = local[r] /\ plan'.splits[r] = plan.splits[r]
          PROVE  U /\ N /\ P /\ G
      <3> DEFINE q == note[n].quantity
      <3>1. q \in Nat
        BY <1>b DEF EntryRecords
      <3>2. Left(local[p]) = local[p].amount /\ Left(local'[p]) = local[p].amount - q
        BY <1>i, <2>1, <2>2, <2>4 DEF Left
      <3>3. n \notin plan.notes /\ NoteQuantities[n] = q /\ p \in Purchases
            /\ \A m \in plan.notes \cup {n} : NoteQuantities[m] \in Int
        BY <1>b, <1>t, <2>i, <2>1, <2>4
      <3> HIDE DEF q
      <3>4. SumOf(PlannedUnits', Purchases) = TU + q
        <4>1. \A r \in Purchases : r # p => PlannedUnits'[r] = PlannedUnits[r]
          BY <1>t, <1>p, <2>1, <2>2, <2>4
        <4>2. PlannedUnits'[p] = PlannedUnits[p] + q
          BY <1>b, <1>t, <1>p, <2>1, <2>2, <2>4, <3>1, <3>2
        <4>3. \A r \in Purchases :
                 /\ PlannedUnits[r] \in Int
                 /\ PlannedUnits'[r] = IF r = p THEN PlannedUnits[r] + q ELSE PlannedUnits[r]
          BY <1>t, <4>1, <4>2
        <4>4. IsFiniteSet(Purchases) /\ q \in Int /\ p \in Purchases
          BY <1>t, <3>1, <3>3
        <4>5. SumOf(PlannedUnits', Purchases) = SumOf(PlannedUnits, Purchases) + q
          BY <4>3, <4>4, SumChange
        <4>6. QED
          BY <4>5 DEF TU
      <3>5. SumOf(NoteQuantities, plan'.notes) = TN + q
        <4>1. SumOf(NoteQuantities, plan.notes \cup {n}) = TN + q
          BY <1>t, <3>3, SumAdd DEF TN
        <4>2. QED
          BY <2>4, <4>1
      <3>6. N
        BY <2>i, <2>1, <2>4 DEF HeldNotes
      <3>7. P
        BY <1>b, <1>t, <1>i, <2>1, <2>2, <2>4, <3>1 DEF HeldPurchases, q
      <3>8. QED
        BY <1>t, <2>i, <2>1, <2>2, <3>1, <3>4, <3>5, <3>6, <3>7 DEF TS
    <2>5. QED
      BY <1>2, <2>3, <2>4, CreditNoteEffect
  <1>3. CASE CreditNotesDone \/ SalesDone
    <2>1. /\ pc \in {"credits", "sales"} /\ pc' \in {"sales", "createInventory"}
          /\ U /\ UNCHANGED <<local, queue, current, plan>>
      BY <1>3 DEF CreditNotesDone, SalesDone, fireBatchOperations, run, books
    <2>2. Calculating /\ Costing = 0 /\ Costing' = 0
      BY <2>1 DEF Calculating, Costing
    <2>3. PlannedUnits' = PlannedUnits
      BY <2>1 DEF PlannedUnits, Left
    <2>4. N /\ P
      BY <1>i, <2>1, <2>2 DEF HeldNotes, HeldPurchases
    <2>5. QED
      BY <1>i, <2>1, <2>2, <2>3, <2>4 DEF TU, TS, TN
  <1>4. ASSUME NEW s \in Sales, NextSale(s)
        PROVE  U /\ N /\ P /\ G
    <2>1. /\ pc = "sales" /\ pc' = "purchases" /\ U /\ UNCHANGED <<local, plan>>
          /\ current'.sale = s /\ current'.sold = sell[s].quantity
      BY <1>4 DEF NextSale, books
    <2>2. queue'.buys = queue.buys /\ queue'.notes = queue.notes
      BY <1>4 DEF NextSale, TypeInv, TypeOK, Queues
    <2>3. Calculating /\ Costing = 0 /\ Costing' = 0
      <3>1. sell[s].quantity \in Int
        BY <1>t
      <3>2. QED
        BY <2>1, <3>1 DEF Calculating, Costing
    <2>4. PlannedUnits' = PlannedUnits
      BY <2>1, <2>2 DEF PlannedUnits, Left
    <2>5. N /\ P
      BY <1>i, <2>1, <2>2, <2>3 DEF HeldNotes, HeldPurchases
    <2>6. QED
      BY <1>i, <2>1, <2>3, <2>4, <2>5 DEF TU, TS, TN
  <1>5. ASSUME NEW p \in queue.buys, NEW taken \in Nat, pc = "purchases", pc' = "purchases",
               U, UNCHANGED queue, ~local[p].checked, local'[p].quantity = local[p].quantity,
               Left(local'[p]) = local[p].amount - taken,
               current'.sale = current.sale, current'.sold = current.sold - taken,
               plan'.cogs = plan.cogs, plan'.notes = plan.notes, plan'.buys = plan.buys \cup {p},
               \A r \in Purchases : r # p =>
                  local'[r] = local[r] /\ plan'.splits[r] = plan.splits[r],
               local'[p].amount <= local[p].amount,
               local'[p].amount + plan'.splits[p].quantity
                 >= local[p].amount + plan.splits[p].quantity,
               local'[p].amount \in Nat, plan'.splits[p].quantity \in Nat
        PROVE  U /\ N /\ P /\ G
    <2>1. Calculating
      BY <1>5 DEF Calculating
    <2>2. \A r \in Purchases : /\ PlannedUnits[r] \in Int
                               /\ PlannedUnits'[r] = IF r = p THEN PlannedUnits[r] + taken
                                                     ELSE PlannedUnits[r]
      <3>1. Left(local[p]) = local[p].amount
        BY <1>5 DEF Left
      <3>2. \A r \in Purchases : r # p => PlannedUnits'[r] = PlannedUnits[r]
        BY <1>t, <1>p, <1>5
      <3>3. PlannedUnits'[p] = PlannedUnits[p] + taken
        BY <1>b, <1>t, <1>p, <1>5, <3>1
      <3>4. QED
        BY <1>t, <3>2, <3>3
    <2>3. SumOf(PlannedUnits', Purchases) = TU + taken
      BY <1>b, <1>t, <1>5, <2>2, SumChange DEF TU
    <2>4. Costing \in Int /\ Costing' = Costing + taken
      <3>1. current.sale \in Sales
        BY <1>5 DEF TypeInv
      <3>2. sell[current.sale].quantity \in Int
        BY <1>t, <3>1
      <3>3. /\ Costing = sell[current.sale].quantity - current.sold
            /\ Costing' = sell[current.sale].quantity - (current.sold - taken)
        BY <1>5 DEF Costing
      <3>4. QED
        BY <1>b, <3>2, <3>3
    <2>5. N
      BY <1>i, <1>5, <2>1 DEF HeldNotes
    <2>6. P
      <3>1. HeldPurchases(queue', local', plan')
        BY <1>b, <1>t, <1>i, <1>5, <2>1 DEF HeldPurchases
      <3>2. QED
        BY <1>5, <3>1
    <2>7. QED
      BY <1>t, <1>i, <1>5, <2>1, <2>3, <2>4, <2>5, <2>6 DEF TS, TN
  <1>6. ASSUME NEW p \in Purchases, LiquidatePurchase(p)
        PROVE  U /\ N /\ P /\ G
    <2>1. /\ pc = "purchases" /\ pc' = "purchases" /\ U /\ UNCHANGED queue
          /\ p \in queue.buys /\ ~local[p].checked
          /\ current'.sale = current.sale /\ current'.sold = current.sold - local[p].amount
          /\ local'[p].checked /\ local'[p].amount = local[p].amount
          /\ local'[p].quantity = local[p].quantity
          /\ \A r \in Purchases : r # p => local'[r] = local[r]
          /\ plan'.splits = plan.splits /\ plan'.buys = plan.buys \cup {p}
          /\ plan'.cogs = plan.cogs /\ plan'.notes = plan.notes
      BY <1>6, LiquidateEffect DEF Available, books
    <2>2. Left(local'[p]) = local[p].amount - local[p].amount
      BY <1>t, <2>1 DEF Left
    <2>3. QED
      BY <1>t, <1>5, <2>1, <2>2
  <1>7. ASSUME NEW p \in Purchases, SplitPurchase(p)
        PROVE  U /\ N /\ P /\ G
    <2>1. /\ pc = "purchases" /\ pc' = "purchases" /\ U /\ UNCHANGED queue
          /\ p \in queue.buys /\ ~local[p].checked /\ current.sold < local[p].amount
          /\ current'.sale = current.sale /\ current'.sold = 0
          /\ local'[p].checked = local[p].checked
          /\ local'[p].amount = local[p].amount - current.sold
          /\ local'[p].quantity = local[p].quantity
          /\ \A r \in Purchases : r # p =>
                local'[r] = local[r] /\ plan'.splits[r] = plan.splits[r]
          /\ plan'.splits[p].quantity = plan.splits[p].quantity + current.sold
          /\ plan'.buys = plan.buys \cup {p} /\ plan'.cogs = plan.cogs /\ plan'.notes = plan.notes
      BY <1>7, SplitEffect DEF Available, books
    <2>2. Left(local'[p]) = local[p].amount - current.sold
      BY <2>1 DEF Left
    <2>3. /\ current'.sold = current.sold - current.sold
          /\ local'[p].amount <= local[p].amount /\ local'[p].amount \in Nat
          /\ plan'.splits[p].quantity \in Nat
          /\ local'[p].amount + plan'.splits[p].quantity
               >= local[p].amount + plan.splits[p].quantity
      BY <1>b, <1>t, <2>1
    <2>4. QED
      BY <1>b, <1>5, <2>1, <2>2, <2>3
  <1>8. CASE FinishSale /\ ~Finish
    <2> DEFINE s == current.sale
    <2>1. /\ pc = "purchases" /\ pc' = "sales" /\ SaleProcessed /\ U
          /\ UNCHANGED <<local, queue>> /\ plan'.splits = plan.splits /\ plan'.buys = plan.buys
          /\ plan'.notes = plan.notes /\ plan'.cogs = plan.cogs \cup {s}
      BY <1>8, FinishSaleEffect DEF books
    <2>2. Calculating /\ s \in Sales /\ s \notin plan.cogs /\ current.sold = 0
      BY <2>1 DEF Calculating, TypeInv, PlaceInv, InProcess, EverySaleCosted, CalmInv
    <2>3. Costing = sell[s].quantity /\ Costing' = 0
      <3>1. sell[s].quantity \in Int
        BY <1>t, <2>2
      <3>2. QED
        BY <2>1, <2>2, <3>1 DEF Costing
    <2>4. SumOf(SaleQuantities, plan'.cogs) = TS + sell[s].quantity
      <3> HIDE DEF s
      <3>1. SaleQuantities[s] = sell[s].quantity
            /\ \A t \in plan.cogs \cup {s} : SaleQuantities[t] \in Int
        BY <1>t, <2>2
      <3>2. SumOf(SaleQuantities, plan.cogs \cup {s})
              = SumOf(SaleQuantities, plan.cogs) + SaleQuantities[s]
        <4>1. IsFiniteSet(plan.cogs) /\ s \notin plan.cogs
          BY <1>t, <2>2
        <4>2. QED
          BY <3>1, <4>1, SumAdd
      <3>3. QED
        BY <2>1, <3>1, <3>2 DEF TS
    <2>5. PlannedUnits' = PlannedUnits
      BY <2>1 DEF PlannedUnits, Left
    <2>6. N /\ P
      BY <1>i, <2>1, <2>2 DEF HeldNotes, HeldPurchases
    <2> HIDE DEF s
    <2>7. sell[s].quantity \in Int
      BY <1>t, <2>2
    <2>8. QED
      BY <1>t, <1>i, <2>1, <2>2, <2>3, <2>4, <2>5, <2>6, <2>7 DEF TU, TN
  <1>9. QED
    <2>1. CASE InProcess'
      BY <2>1, <1>1, <1>2, <1>3, <1>4, <1>6, <1>7, <1>8, ProcessSteps
    <2>2. CASE ~InProcess'
      BY <2>2, <1>3, CreateInventorySteps DEF Calculating, InProcess
    <2>3. QED
      BY <2>1, <2>2

\* A step that changes neither the Inventory Book nor the run keeps them.
LEMMA UnitsUnchanged ==
    ASSUME UnitsInv, CoveredInv,
           UNCHANGED <<buy, splits, sell, note, pc, local, queue, current, plan>>
    PROVE  UnitsInv' /\ CoveredInv'
  <1>1. /\ PlannedUnits' = PlannedUnits /\ SaleQuantities' = SaleQuantities
        /\ NoteQuantities' = NoteQuantities /\ Costing' = Costing
    BY DEF PlannedUnits, Left, SaleQuantities, NoteQuantities, Costing
  <1>2. UnitsInv'
    BY <1>1 DEF UnitsInv, Planning, Calculating
  <1>3. QED
    BY <1>2 DEF CoveredInv, Planning, Calculating

\* Every step of the engine keeps the units of a calculation adding up, and every
\* purchase covered.
LEMMA UnitsStep ==
    ASSUME TypeInv, TypeInv', SplitsInv, CalmInv, EverySaleCosted, RepairInv, RepairInv', PlaceInv, UnitsInv,
           CoveredInv, [Next]_vars
    PROVE  UnitsInv' /\ CoveredInv'
  <1>t. /\ \A p \in Purchases : /\ buy[p].amount \in Nat /\ buy[p].quantity \in Nat
                                /\ local[p].amount \in Nat /\ local[p].quantity \in Nat
                                /\ splits[p].quantity \in Nat /\ plan.splits[p].quantity \in Nat
        /\ queue.buys \subseteq Purchases /\ plan.buys \subseteq Purchases
        /\ queue.notes \subseteq CreditNotes /\ plan.notes \subseteq CreditNotes
        /\ plan.cogs \subseteq Sales
    BY Types, UnitTypes
  <1>m. MemoryInv /\ PlannedInv /\ RepairedInv'
    BY DEF RepairInv
  <1>c. /\ \A p \in Purchases : /\ buy[p].amount <= buy[p].quantity
                                /\ buy[p].amount + splits[p].quantity >= buy[p].quantity
        /\ Planning => \A p \in queue.buys :
              local[p].amount <= buy[p].amount /\ local[p].quantity = buy[p].quantity
        /\ Calculating => \A p \in queue.buys :
              local[p].amount + plan.splits[p].quantity >= buy[p].amount
        /\ pc = "updateInventory" => \A p \in plan.buys :
              local[p].amount + splits[p].quantity >= buy[p].quantity
    BY DEF CoveredInv
  <1>1. CASE UNCHANGED vars
    BY <1>1, UnitsUnchanged DEF vars, books, run
  <1>2. CASE Handlers
    <2>1. /\ UNCHANGED <<pc, local, queue, current, plan, splits>>
          /\ \A p \in Purchases : buy'[p] # buy[p] =>
                ~buy[p].posted /\ buy'[p].amount = buy'[p].quantity
          /\ \A s \in Sales : sell'[s] # sell[s] => ~sell[s].posted
          /\ \A n \in CreditNotes : note'[n] # note[n] => ~note[n].posted
      BY <1>2, HandlerEffect
    <2>2. /\ \A p \in queue.buys \cup plan.buys : buy'[p] = buy[p]
          /\ \A n \in queue.notes \cup plan.notes : note'[n] = note[n]
          /\ \A s \in Sales : s \in plan.sells \cup {current.sale} => sell'[s] = sell[s]
      BY <1>t, <1>m, <2>1 DEF MemoryInv
    <2>3. CoveredInv'
      <3>1. ASSUME NEW p \in Purchases
            PROVE  /\ buy'[p].amount <= buy'[p].quantity
                   /\ buy'[p].amount + splits'[p].quantity >= buy'[p].quantity
        <4>1. buy'[p].amount \in Nat
          BY UnitTypes DEF TypeInv, TypeOK, PurchaseRecords
        <4>2. QED
          BY <1>t, <1>c, <2>1, <4>1
      <3>2. QED
        BY <1>c, <2>1, <2>2, <3>1 DEF CoveredInv, Planning, Calculating
    <2>4. ASSUME Planning PROVE UnitsInv'
      <3>1. plan.cogs = plan.sells
        BY <2>4 DEF PlaceInv, Planning, Calculating, InProcess, CalmInv
      <3>2. \A s \in plan.cogs : SaleQuantities[s] \in Int /\ SaleQuantities'[s] = SaleQuantities[s]
        BY <1>t, <2>2, <3>1, UnitTypes DEF SaleQuantities
      <3>3. \A n \in plan.notes : NoteQuantities[n] \in Int /\ NoteQuantities'[n] = NoteQuantities[n]
        BY <1>t, <2>2, UnitTypes DEF NoteQuantities
      <3>4. \A p \in Purchases : PlannedUnits[p] \in Int /\ PlannedUnits'[p] = PlannedUnits[p]
        BY <2>1, <2>2, UnitTypes DEF PlannedUnits, Left
      <3>5. /\ SumOf(SaleQuantities', plan.cogs) = SumOf(SaleQuantities, plan.cogs)
            /\ SumOf(NoteQuantities', plan.notes) = SumOf(NoteQuantities, plan.notes)
            /\ SumOf(PlannedUnits', Purchases) = SumOf(PlannedUnits, Purchases)
        <4>1. IsFiniteSet(plan.cogs) /\ IsFiniteSet(plan.notes) /\ IsFiniteSet(Purchases)
          BY UnitTypes
        <4>2. QED
          BY <3>2, <3>3, <3>4, <4>1, SumEqual
      <3>6. Costing' = Costing
        BY <2>1, <2>2 DEF Costing, TypeInv
      <3>7. QED
        BY <2>1, <2>2, <2>4, <3>5, <3>6 DEF UnitsInv, Planning, Calculating
    <2>5. QED
      BY <2>1, <2>3, <2>4 DEF UnitsInv, Planning, Calculating
  <1>3. CASE Calculating' /\ ~Handlers /\ vars' # vars
    <2>1. /\ UNCHANGED <<buy, splits, sell, note>> /\ HeldNotes(queue', plan')
          /\ HeldPurchases(queue', local', plan')
          /\ pc' = "credits" => \A p \in queue'.buys : ~local'[p].checked
          /\ SumOf(PlannedUnits', Purchases)
               = SumOf(SaleQuantities, plan'.cogs) + SumOf(NoteQuantities, plan'.notes) + Costing'
      BY <1>3, <1>m, UnitsCalculation
    <2>2. SaleQuantities' = SaleQuantities /\ NoteQuantities' = NoteQuantities
      BY <2>1 DEF SaleQuantities, NoteQuantities
    <2>3. UnitsInv'
      BY <2>1, <2>2 DEF UnitsInv, HeldNotes, HeldPurchases
    <2>4. pc' # "updateInventory"
      BY <1>3 DEF Calculating
    <2>5. QED
      BY <1>c, <2>1, <2>3, <2>4 DEF CoveredInv, HeldPurchases
  <1>4. CASE CreateInventoryTransactions
    <2>1. /\ pc = "createInventory" /\ pc' = "updateInventory"
          /\ UNCHANGED <<buy, sell, note, local, queue, current, plan>>
          /\ \A p \in Purchases :
                splits'[p].quantity = splits[p].quantity + plan.splits[p].quantity
      BY <1>4 DEF CreateInventoryTransactions, fireBatchOperations, run
    <2>2. Calculating /\ Planning
      BY <2>1 DEF Calculating, Planning
    <2>3. /\ PlannedUnits' = PlannedUnits /\ SaleQuantities' = SaleQuantities
          /\ NoteQuantities' = NoteQuantities /\ Costing = 0 /\ Costing' = 0
      BY <2>1 DEF PlannedUnits, Left, SaleQuantities, NoteQuantities, Costing
    <2>4. UnitsInv'
      BY <2>1, <2>2, <2>3 DEF UnitsInv, Planning
    <2>5. \A p \in Purchases : buy[p].amount + splits'[p].quantity >= buy[p].quantity
      BY <1>t, <1>c, <2>1
    <2>6. \A p \in plan.buys : local[p].amount + splits'[p].quantity >= buy[p].quantity
      <3>1. plan.buys \subseteq queue.buys
        BY <1>m, <2>2 DEF PlannedInv
      <3>2. QED
        BY <1>t, <1>c, <2>1, <2>2, <3>1
    <2>7. QED
      BY <1>c, <2>1, <2>2, <2>4, <2>5, <2>6 DEF CoveredInv, Calculating
  <1>5. CASE UpdateInventoryTransactions
    <2>a. pc = "updateInventory" /\ NoLooseSplits
      BY <1>5 DEF UpdateInventoryTransactions, CalmInv
    <2>b. queue.splits = {}
      BY <2>a, NoneListed
    <2>1. /\ pc = "updateInventory" /\ pc' = "createFinancial" /\ UNCHANGED plan
          /\ \A p \in Purchases : splits'[p] = splits[p]
          /\ \A p \in Purchases : buy'[p] = IF p \in plan.buys THEN local[p] ELSE buy[p]
      BY <1>5, <2>b DEF UpdateInventoryTransactions, fireBatchOperations, run
    <2>2. plan.buys \subseteq queue.buys /\ Planning
      BY <1>m, <2>1 DEF PlannedInv, Planning
    <2>3. ASSUME NEW p \in Purchases
          PROVE  /\ buy'[p].amount <= buy'[p].quantity
                 /\ buy'[p].amount + splits'[p].quantity >= buy'[p].quantity
      <3>1. CASE p \in plan.buys
        <4>1. /\ local[p].amount <= buy[p].amount /\ local[p].quantity = buy[p].quantity
              /\ local[p].amount + splits[p].quantity >= buy[p].quantity
          BY <1>c, <2>1, <2>2, <3>1
        <4>2. QED
          BY <1>t, <1>c, <2>1, <3>1, <4>1
      <3>2. CASE p \notin plan.buys
        BY <1>c, <2>1, <3>2
      <3>3. QED
        BY <3>1, <3>2
    <2>4. QED
      BY <2>1, <2>3 DEF CoveredInv, UnitsInv, Planning, Calculating
  <1>6. CASE RestoreInventoryTransactions \/ TrashInventoryTransactions
    <2>1. pc' \in {"trashInventory", "clearAccount"}
      BY <1>6 DEF RestoreInventoryTransactions, TrashInventoryTransactions, fireResetOperations
    <2>2. \A p \in Purchases : buy'[p].amount = buy'[p].quantity
      BY <1>m, <2>1 DEF RepairedInv, Untouched
    <2>3. \A p \in Purchases : buy'[p].amount \in Nat /\ splits'[p].quantity \in Nat
      BY DEF TypeInv, TypeOK, PurchaseRecords, Totals
    <2>4. \A p \in Purchases : /\ buy'[p].amount <= buy'[p].quantity
                               /\ buy'[p].amount + splits'[p].quantity >= buy'[p].quantity
      BY <2>2, <2>3
    <2>5. QED
      BY <2>1, <2>4 DEF CoveredInv, UnitsInv, Planning, Calculating
  <1>7. CASE ~Calculating' /\ pc' # "updateInventory" /\ UNCHANGED <<buy, splits>>
    BY <1>c, <1>7 DEF CoveredInv, UnitsInv, Planning
  <1>8. CASE \/ StartCalculation \/ StartReset \/ Crash
             \/ \E d \in Dates : ListTransactions(d)
             \/ \E n \in CreditNotes : ProcessCreditNote(n)
             \/ CreditNotesDone
             \/ \E s \in Sales : NextSale(s)
             \/ \E p \in Purchases : LiquidatePurchase(p) \/ SplitPurchase(p) \/ RejectSplit(p)
             \/ FinishSale \/ SalesDone \/ CreateFinancialTransactions \/ storeLastCalcTxDate
             \/ ReadAccountToReset \/ ListTransactionsToReset \/ TrashFinancialTransactions
             \/ ClearAccount
    <2>1. UNCHANGED <<buy, splits>> /\ pc' # "updateInventory"
      BY <1>8 DEF StartCalculation, StartReset, Crash, books, ListTransactions,
         ProcessCreditNote, CreditNotesDone, NextSale, LiquidatePurchase, SplitPurchase,
         RejectSplit, FinishSale, SalesDone, CreateFinancialTransactions, storeLastCalcTxDate,
         ReadAccountToReset, ListTransactionsToReset, TrashFinancialTransactions, ClearAccount,
         Finish, fireBatchOperations, fireResetOperations
    <2>2. QED
      BY <1>1, <1>2, <1>3, <1>7, <2>1
  <1>9. QED
    BY <1>1, <1>2, <1>4, <1>5, <1>6, <1>8 DEF Next, Calculation, Reset

\* So does every edit, and every call of a handler: a purchase is trashed before its
\* splits are.
LEMMA UnitsDeletions ==
    ASSUME DeletionTypeInv, DeletionTypeInv', RepairInv, RepairInv', CalmInv, EnoughInv, PlaceInv,
           UnitsInv, CoveredInv, [DeletionNext]_deletionVars
    PROVE  UnitsInv' /\ CoveredInv'
  <1>t. TypeInv /\ TypeInv' /\ SplitsInv
    BY DEF DeletionTypeInv
  <1>1. CASE Engine \/ UNCHANGED deletionVars
    BY <1>t, <1>1, EngineType, CostedToTheEnd, UnitsStep
  <1>2. ASSUME pc' = "idle",
               \A p \in Purchases : /\ buy'[p].amount <= buy'[p].quantity
                                    /\ buy'[p].amount + splits'[p].quantity >= buy'[p].quantity
        PROVE  UnitsInv' /\ CoveredInv'
    BY <1>2 DEF UnitsInv, CoveredInv, Planning, Calculating
  <1>c. \A p \in Purchases : /\ buy[p].amount <= buy[p].quantity
                             /\ buy[p].amount + splits[p].quantity >= buy[p].quantity
    BY DEF CoveredInv
  <1>n. /\ NoPurchase.amount = 0 /\ NoPurchase.quantity = 0
        /\ \A p \in Purchases : splits'[p].quantity \in Nat
    BY <1>t DEF NoPurchase, TypeInv, TypeOK, Totals
  <1>3. CASE UserEdits
    <2>1. Edited
      BY <1>3, EditEffect
    <2>2. ASSUME NEW p \in Purchases
          PROVE  /\ buy'[p].amount <= buy'[p].quantity
                 /\ buy'[p].amount + splits'[p].quantity >= buy'[p].quantity
      <3>1. PurchaseEdited(p) /\ splits' = splits
        BY <2>1 DEF Edited
      <3>2. QED
        BY <1>c, <1>n, <3>1 DEF PurchaseEdited
    <2>3. QED
      BY <1>2, <2>1, <2>2 DEF Edited
  <1>4. CASE HandlerSteps
    <2>1. Handled
      BY <1>4, HandlerStepEffect
    <2>2. ASSUME NEW p \in Purchases
          PROVE  /\ buy'[p].amount <= buy'[p].quantity
                 /\ buy'[p].amount + splits'[p].quantity >= buy'[p].quantity
      <3>1. CASE buy'[p] = NoPurchase
        BY <1>n, <3>1
      <3>2. CASE buy'[p] = buy[p] /\ splits'[p] = splits[p]
        BY <1>c, <3>2
      <3>3. CASE buy'[p] = buy[p] /\ job.step = "splits" /\ job.tx = p
        <4>1. buy[p] = NoPurchase
          BY <3>3 DEF DeletionTypeInv, JobInv, RepairInv, GoneInv
        <4>2. QED
          BY <3>1, <3>3, <4>1
      <3>4. QED
        <4>1. CASE splits'[p] = splits[p]
          BY <1>c, <2>1, <3>1, <3>2, <4>1 DEF Handled, PurchaseHandled
        <4>2. CASE job.step = "splits" /\ job.tx = p
          BY <2>1, <3>1, <3>3, <4>2 DEF Handled, PurchaseHandled
        <4>3. QED
          BY <2>1, <4>1, <4>2 DEF Handled, SplitsHandled
    <2>3. QED
      BY <1>2, <2>1, <2>2 DEF Handled
  <1>5. CASE HandlerFails
    BY <1>5, HandlerFailsEffect, UnitsUnchanged DEF books
  <1>6. QED
    BY <1>1, <1>3, <1>4, <1>5 DEF DeletionNext

\* Nothing has left the purchases, and nothing counts as processed.
LEMMA NothingOut ==
    ASSUME TypeInv, \A p \in Purchases : Untouched(p), \A s \in Sales : ~sell[s].logged,
           \A n \in CreditNotes : ~note[n].checked
    PROVE  UnitsTied
  <1>1. \A p \in Purchases : OutUnits[p] = 0
    BY UnitTypes DEF Untouched, Left
  <1>2. SumOf(OutUnits, Purchases) = 0
    BY <1>1, UnitTypes, SumZero
  <1>3. LoggedSales = {} /\ CheckedNotes = {}
    BY DEF LoggedSales, CheckedNotes
  <1>4. SumOf(SaleQuantities, LoggedSales) = 0 /\ SumOf(NoteQuantities, CheckedNotes) = 0
    BY <1>3, SumEmpty
  <1>5. QED
    BY <1>2, <1>4 DEF UnitsTied

\* What is not used and not processed may come and go.
LEMMA UnitsKept ==
    ASSUME TypeInv, TypeInv', UnitsTied,
           \A p \in Purchases : buy'[p] = buy[p] \/ (OutUnits[p] = 0 /\ OutUnits'[p] = 0),
           \A s \in Sales : sell'[s] = sell[s] \/ (~sell[s].logged /\ ~sell'[s].logged),
           \A n \in CreditNotes : note'[n] = note[n] \/ (~note[n].checked /\ ~note'[n].checked)
    PROVE  UnitsTied'
  <1>t. /\ \A p \in Purchases : OutUnits[p] = buy[p].quantity - Left(buy[p]) /\ OutUnits[p] \in Int
        /\ \A s \in Sales : SaleQuantities[s] = sell[s].quantity /\ SaleQuantities[s] \in Int
        /\ \A n \in CreditNotes : NoteQuantities[n] = note[n].quantity /\ NoteQuantities[n] \in Int
        /\ IsFiniteSet(Purchases) /\ IsFiniteSet(Sales) /\ IsFiniteSet(CreditNotes)
    BY UnitTypes
  <1>1. ASSUME NEW p \in Purchases PROVE OutUnits[p] \in Int /\ OutUnits'[p] = OutUnits[p]
    <2>1. OutUnits'[p] = buy'[p].quantity - Left(buy'[p])
      BY DEF OutUnits, Left
    <2>2. QED
      BY <1>t, <2>1
  <1>2. LoggedSales' = LoggedSales /\ CheckedNotes' = CheckedNotes
    <2>1. LoggedSales' = LoggedSales
      BY DEF LoggedSales
    <2>2. CheckedNotes' = CheckedNotes
      BY DEF CheckedNotes
    <2>3. QED
      BY <2>1, <2>2
  <1>3. \A s \in LoggedSales : SaleQuantities[s] \in Int /\ SaleQuantities'[s] = SaleQuantities[s]
    BY <1>t DEF LoggedSales, SaleQuantities
  <1>4. \A n \in CheckedNotes : NoteQuantities[n] \in Int /\ NoteQuantities'[n] = NoteQuantities[n]
    BY <1>t DEF CheckedNotes, NoteQuantities
  <1>5. IsFiniteSet(LoggedSales) /\ IsFiniteSet(CheckedNotes)
    <2>1. LoggedSales \subseteq Sales /\ CheckedNotes \subseteq CreditNotes
      BY DEF LoggedSales, CheckedNotes
    <2>2. QED
      BY <1>t, <2>1, FS_Subset
  <1>6. SumOf(OutUnits', Purchases) = SumOf(OutUnits, Purchases)
    BY <1>t, <1>1, SumEqual
  <1>7. /\ SumOf(SaleQuantities', LoggedSales) = SumOf(SaleQuantities, LoggedSales)
        /\ SumOf(NoteQuantities', CheckedNotes) = SumOf(NoteQuantities, CheckedNotes)
    BY <1>3, <1>4, <1>5, SumEqual
  <1>8. QED
    BY <1>2, <1>6, <1>7 DEF UnitsTied

\* The batch that updates the Inventory Book moves the units of the plan to the book.
LEMMA UnitsWritten ==
    ASSUME TypeInv, TypeInv', SplitsInv, NoLooseSplits, PlaceInv, PlannedInv, UnitsInv, CoveredInv, UnitsTied,
           UpdateInventoryTransactions, \A s \in Sales : sell[s].logged => sell[s].checked
    PROVE  UnitsTied'
  <1> DEFINE A == SumOf(OutUnits, Purchases)
             B == SumOf(PlannedUnits, Purchases)
  <1>t. /\ \A p \in Purchases : /\ buy[p].amount \in Nat /\ buy[p].quantity \in Nat
                                /\ Left(buy[p]) \in Nat /\ Left(local[p]) \in Nat
        /\ \A p \in Purchases : OutUnits[p] = buy[p].quantity - Left(buy[p]) /\ OutUnits[p] \in Int
        /\ \A p \in Purchases : PlannedUnits[p] =
              IF p \in queue.buys THEN buy[p].amount - Left(local[p]) ELSE 0
        /\ \A p \in Purchases : PlannedUnits[p] \in Int
        /\ \A s \in Sales : SaleQuantities[s] = sell[s].quantity /\ SaleQuantities[s] \in Int
        /\ \A n \in CreditNotes : NoteQuantities[n] = note[n].quantity /\ NoteQuantities[n] \in Int
        /\ IsFiniteSet(Purchases) /\ IsFiniteSet(Sales) /\ IsFiniteSet(CreditNotes)
        /\ plan.cogs \subseteq Sales /\ IsFiniteSet(plan.cogs)
        /\ plan.notes \subseteq CreditNotes /\ IsFiniteSet(plan.notes)
        /\ A \in Int /\ B \in Int
    BY UnitTypes
  <1>b. /\ sell \in [Sales -> SaleRecords] /\ note \in [CreditNotes -> EntryRecords]
        /\ queue.buys \subseteq Purchases
    BY Types
  <1>q. queue.splits = {}
    <2>1. pc = "updateInventory"
      BY DEF UpdateInventoryTransactions
    <2>2. QED
      BY <2>1, NoneListed
  <1>1. /\ pc = "updateInventory" /\ UNCHANGED <<queue, local, plan>>
        /\ \A p \in Purchases : buy'[p] = IF p \in plan.buys THEN local[p] ELSE buy[p]
        /\ sell' = LogAll(sell, plan.sells) /\ note' = CheckAll(note, plan.notes)
    BY <1>q DEF UpdateInventoryTransactions, run
  <1>2. /\ plan.cogs = plan.sells /\ \A s \in plan.cogs : ~sell[s].checked
        /\ plan.buys \subseteq queue.buys
    BY <1>t, <1>1 DEF PlaceInv, PlannedInv
  <1>3. /\ \A n \in plan.notes : ~note[n].checked
        /\ \A p \in queue.buys : ~buy[p].checked
        /\ \A p \in queue.buys : p \notin plan.buys => local[p] = buy[p]
        /\ \A p \in queue.buys : local[p].quantity = buy[p].quantity
        /\ B = SumOf(SaleQuantities, plan.cogs) + SumOf(NoteQuantities, plan.notes) + Costing
        /\ Costing = 0
    BY <1>1 DEF UnitsInv, CoveredInv, Planning, Costing
  <1> HIDE DEF A, B
  <1>4. ASSUME NEW p \in Purchases PROVE OutUnits'[p] = OutUnits[p] + PlannedUnits[p]
    <2>1. OutUnits'[p] = buy'[p].quantity - Left(buy'[p])
      BY DEF OutUnits, Left
    <2>2. p \in queue.buys => Left(buy[p]) = buy[p].amount
      BY <1>3 DEF Left
    <2>3. CASE p \in plan.buys
      <3>1. p \in queue.buys /\ buy'[p] = local[p] /\ local[p].quantity = buy[p].quantity
        BY <1>1, <1>2, <1>3, <2>3
      <3>2. QED
        BY <1>t, <2>1, <2>2, <3>1
    <2>4. CASE p \notin plan.buys
      <3>1. buy'[p] = buy[p] /\ (p \in queue.buys => local[p] = buy[p])
        BY <1>1, <1>3, <2>4
      <3>2. PlannedUnits[p] = 0
        BY <1>t, <2>2, <3>1
      <3>3. QED
        BY <1>t, <2>1, <3>1, <3>2
    <2>5. QED
      BY <2>3, <2>4
  <1>5. SumOf(OutUnits', Purchases) = A + B
    <2>1. \A p \in Purchases : /\ OutUnits[p] \in Int /\ PlannedUnits[p] \in Int
                               /\ OutUnits'[p] = OutUnits[p] + PlannedUnits[p]
      BY <1>t, <1>4
    <2>2. QED
      BY <1>t, <2>1, SumPlus DEF A, B
  <1>6. /\ LoggedSales' = LoggedSales \cup plan.cogs /\ LoggedSales \cap plan.cogs = {}
        /\ \A s \in Sales : sell'[s].quantity = sell[s].quantity
    <2>1. \A s \in Sales : /\ sell'[s].quantity = sell[s].quantity
                           /\ sell'[s].logged <=> s \in plan.cogs \/ sell[s].logged
      <3>1. ASSUME NEW s \in Sales
            PROVE  sell'[s] = IF s \in plan.cogs
                              THEN [sell[s] EXCEPT !.checked = TRUE, !.logged = TRUE] ELSE sell[s]
        BY <1>b, <1>1, <1>2 DEF LogAll
      <3>2. \A s \in Sales : sell[s] \in SaleRecords
        BY <1>b
      <3>3. QED
        BY <3>1, <3>2 DEF SaleRecords
    <2>2. LoggedSales' = LoggedSales \cup plan.cogs
      BY <1>t, <2>1 DEF LoggedSales
    <2>3. LoggedSales \cap plan.cogs = {}
      BY <1>t, <1>2 DEF LoggedSales
    <2>4. QED
      BY <2>1, <2>2, <2>3
  <1>7. /\ CheckedNotes' = CheckedNotes \cup plan.notes /\ CheckedNotes \cap plan.notes = {}
        /\ \A n \in CreditNotes : note'[n].quantity = note[n].quantity
    <2>1. \A n \in CreditNotes : /\ note'[n].quantity = note[n].quantity
                                 /\ note'[n].checked <=> n \in plan.notes \/ note[n].checked
      <3>1. ASSUME NEW n \in CreditNotes
            PROVE  note'[n] = IF n \in plan.notes THEN [note[n] EXCEPT !.checked = TRUE] ELSE note[n]
        BY <1>b, <1>1 DEF CheckAll
      <3>2. \A n \in CreditNotes : note[n] \in EntryRecords
        BY <1>b
      <3>3. QED
        BY <3>1, <3>2 DEF EntryRecords
    <2>2. CheckedNotes' = CheckedNotes \cup plan.notes
      BY <1>t, <2>1 DEF CheckedNotes
    <2>3. CheckedNotes \cap plan.notes = {}
      BY <1>t, <1>3 DEF CheckedNotes
    <2>4. QED
      BY <2>1, <2>2, <2>3
  <1>8. SaleQuantities' = SaleQuantities /\ NoteQuantities' = NoteQuantities
    <2>1. SaleQuantities' = [s \in Sales |-> sell'[s].quantity]
          /\ NoteQuantities' = [n \in CreditNotes |-> note'[n].quantity]
      BY DEF SaleQuantities, NoteQuantities
    <2>2. QED
      BY <1>6, <1>7, <2>1 DEF SaleQuantities, NoteQuantities
  <1>9. /\ LoggedSales \subseteq Sales /\ IsFiniteSet(LoggedSales)
        /\ CheckedNotes \subseteq CreditNotes /\ IsFiniteSet(CheckedNotes)
    <2>1. LoggedSales \subseteq Sales /\ CheckedNotes \subseteq CreditNotes
      BY DEF LoggedSales, CheckedNotes
    <2>2. QED
      BY <1>t, <2>1, FS_Subset
  <1>10. SumOf(SaleQuantities, LoggedSales \cup plan.cogs)
           = SumOf(SaleQuantities, LoggedSales) + SumOf(SaleQuantities, plan.cogs)
    <2>1. \A s \in LoggedSales \cup plan.cogs : SaleQuantities[s] \in Int
      BY <1>t, <1>9
    <2>2. QED
      BY <1>t, <1>6, <1>9, <2>1, SumUnion
  <1>11. SumOf(NoteQuantities, CheckedNotes \cup plan.notes)
           = SumOf(NoteQuantities, CheckedNotes) + SumOf(NoteQuantities, plan.notes)
    <2>1. \A n \in CheckedNotes \cup plan.notes : NoteQuantities[n] \in Int
      BY <1>t, <1>9
    <2>2. QED
      BY <1>t, <1>7, <1>9, <2>1, SumUnion
  <1>12. /\ SumOf(SaleQuantities, LoggedSales) \in Int /\ SumOf(SaleQuantities, plan.cogs) \in Int
         /\ SumOf(NoteQuantities, CheckedNotes) \in Int
         /\ SumOf(NoteQuantities, plan.notes) \in Int
    <2>1. /\ \A s \in LoggedSales : SaleQuantities[s] \in Int
          /\ \A n \in CheckedNotes : NoteQuantities[n] \in Int
      BY <1>t, <1>9
    <2>2. QED
      BY <1>9, <2>1, SumType, UnitTypes
  <1>13. A = SumOf(SaleQuantities, LoggedSales) + SumOf(NoteQuantities, CheckedNotes)
    BY DEF UnitsTied, A
  <1>14. SumOf(OutUnits', Purchases)
           = SumOf(SaleQuantities, LoggedSales \cup plan.cogs)
             + SumOf(NoteQuantities, CheckedNotes \cup plan.notes)
    BY <1>t, <1>3, <1>5, <1>10, <1>11, <1>12, <1>13
  <1>15. QED
    BY <1>6, <1>7, <1>8, <1>14 DEF UnitsTied

\* What edits and handlers do unnoticed takes no units away, nor gives any back.
LEMMA NoticedUnits ==
    ASSUME TypeInv, TypeInv', CoveredInv, UnitsTied, Noticed
    PROVE  UnitsTied'
  <1>1. ASSUME NEW p \in Purchases
        PROVE  buy'[p] = buy[p] \/ (OutUnits[p] = 0 /\ OutUnits'[p] = 0)
    <2>1. CASE buy'[p] = buy[p]
      BY <2>1
    <2>2. CASE buy'[p] = NoPurchase /\ ~UsedPurchase(p)
      <3>1. /\ buy[p].amount \in Nat /\ buy[p].quantity \in Nat /\ splits[p].quantity \in Nat
            /\ OutUnits[p] = buy[p].quantity - Left(buy[p])
        BY UnitTypes
      <3>2. ~buy[p].checked /\ splits[p].quantity = 0
        BY <2>2, <3>1 DEF UsedPurchase
      <3>3. /\ buy[p].amount <= buy[p].quantity
            /\ buy[p].amount + splits[p].quantity >= buy[p].quantity
        BY DEF CoveredInv
      <3>4. OutUnits[p] = 0
        BY <3>1, <3>2, <3>3 DEF Left
      <3>5. OutUnits'[p] = buy'[p].quantity - Left(buy'[p])
        BY DEF OutUnits, Left
      <3>6. OutUnits'[p] = 0
        BY <2>2, <3>5 DEF Left, NoPurchase
      <3>7. QED
        BY <3>4, <3>6
    <2>3. QED
      BY <2>1, <2>2 DEF Noticed
  <1>2. \A s \in Sales : sell'[s] = sell[s] \/ (~sell[s].logged /\ ~sell'[s].logged)
    BY DEF Noticed
  <1>3. \A n \in CreditNotes : note'[n] = note[n]
    BY DEF Noticed
  <1>4. QED
    BY <1>1, <1>2, <1>3, UnitsKept

\* Nor does recording purchases, sales and credit notes.
LEMMA RecordedUnits ==
    ASSUME TypeInv, TypeInv', GoneInv, UnitsTied, Handlers
    PROVE  UnitsTied'
  <1>1. ASSUME NEW p \in Purchases
        PROVE  buy'[p] = buy[p] \/ (OutUnits[p] = 0 /\ OutUnits'[p] = 0)
    <2>1. CASE buy'[p] = buy[p]
      BY <2>1
    <2>2. CASE buy'[p] # buy[p]
      <3>1. ~buy[p].posted /\ ~buy'[p].checked /\ buy'[p].amount = buy'[p].quantity
        BY <2>2, HandlerEffect
      <3>2. buy[p] = NoPurchase
        BY <3>1 DEF GoneInv
      <3>3. OutUnits[p] = buy[p].quantity - Left(buy[p])
        BY DEF OutUnits
      <3>4. OutUnits[p] = 0
        BY <3>2, <3>3 DEF Left, NoPurchase
      <3>5. OutUnits'[p] = buy'[p].quantity - Left(buy'[p])
        BY DEF OutUnits, Left
      <3>6. buy'[p].quantity \in Nat
        BY DEF TypeInv, TypeOK, PurchaseRecords
      <3>7. OutUnits'[p] = 0
        BY <3>1, <3>5, <3>6 DEF Left
      <3>8. QED
        BY <3>4, <3>7
    <2>3. QED
      BY <2>1, <2>2
  <1>2. \A s \in Sales : sell'[s] = sell[s] \/ (~sell[s].logged /\ ~sell'[s].logged)
    BY HandlerEffect DEF GoneInv
  <1>3. \A n \in CreditNotes : note'[n] = note[n] \/ (~note[n].checked /\ ~note'[n].checked)
    BY HandlerEffect DEF GoneInv
  <1>4. QED
    BY <1>1, <1>2, <1>3, UnitsKept

\* Once a reset has restored the Inventory Book, nothing has left the purchases.
LEMMA RestoredUnits ==
    ASSUME TypeInv', RepairInv', HandInv', TickInv', ~missed', RestoreInventoryTransactions
    PROVE  UnitsTied'
  <1>1. pc' = "trashInventory" \/ pc' = "clearAccount"
    BY DEF RestoreInventoryTransactions, fireResetOperations
  <1>h. \A s \in Sales : sell'[s].logged => sell'[s].bot
    BY <1>1 DEF HandInv, TickInv, RepairInv, GoneInv
  <1>2. /\ \A p \in Purchases : Untouched(p)'
        /\ \A s \in Sales : ~sell'[s].logged
        /\ \A n \in CreditNotes : ~note'[n].checked
    BY <1>1, <1>h DEF RepairInv, RepairedInv
  <1>3. \A p \in Purchases : buy'[p].amount \in Nat /\ buy'[p].quantity \in Nat
    BY DEF TypeInv, TypeOK, PurchaseRecords
  <1>4. \A p \in Purchases : OutUnits'[p] = buy'[p].quantity - Left(buy'[p])
    BY DEF OutUnits, Left
  <1>5. \A p \in Purchases : OutUnits'[p] = 0
    BY <1>2, <1>3, <1>4 DEF Untouched, Left
  <1>6. SumOf(OutUnits', Purchases) = 0
    BY <1>5, SumZero, FiniteAssumption
  <1>7. LoggedSales' = {} /\ CheckedNotes' = {}
    <2>1. LoggedSales' = {}
      BY <1>2 DEF LoggedSales
    <2>2. CheckedNotes' = {}
      BY <1>2 DEF CheckedNotes
    <2>3. QED
      BY <2>1, <2>2
  <1>8. SumOf(SaleQuantities', LoggedSales') = 0 /\ SumOf(NoteQuantities', CheckedNotes') = 0
    BY <1>7, SumEmpty
  <1>9. QED
    BY <1>6, <1>8 DEF UnitsTied

\* Every step after which an account is in order leaves the units tied.
LEMMA TiedUnitsDeletions ==
    ASSUME MergeProps, DeletionTypeInv, DeletionTypeInv', RepairInv, RepairInv', CalmInv,
           DeletedInv, DeletedInv',
           UsedInv, UnitsInv, CoveredInv, ~Off => UnitsTied, [DeletionNext]_deletionVars, ~Off'
    PROVE  UnitsTied'
  <1>t. /\ TypeInv /\ TypeInv' /\ GoneInv /\ PlannedInv /\ PlaceInv /\ CascadeInv
        /\ HandInv /\ TickInv /\ HandInv' /\ TickInv' /\ SplitsInv
    BY DEF DeletionTypeInv, RepairInv, DeletedInv
  <1>k. ASSUME UnitsTied, UNCHANGED <<buy, sell, note>> PROVE UnitsTied'
    BY <1>k, <1>t, UnitsKept
  <1>1. CASE Engine \/ UNCHANGED deletionVars
    <2>1. /\ ~missed /\ (~ClearAccount => ~Off) /\ (job.step # "none" => ~job.used)
      BY <1>1, EngineOff
    <2>2. [Next]_vars
      BY <1>1, EngineType
    <2>3. CASE ClearAccount
      <3>1. UnitsTied
        BY <1>t, <2>1, <2>3, ClearedBooks, NothingOut
      <3>2. UNCHANGED <<buy, sell, note>>
        BY <2>3 DEF ClearAccount, books
      <3>3. QED
        BY <1>k, <3>1, <3>2
    <2>4. CASE ~ClearAccount
      <3>1. UnitsTied
        BY <2>1, <2>4
      <3>2. CASE Handlers
        BY <1>t, <3>1, <3>2, RecordedUnits
      <3>3. CASE RestoreInventoryTransactions
        <4>1. ~missed'
          BY DEF Off
        <4>2. QED
          BY <1>t, <3>3, <4>1, RestoredUnits
      <3>4. CASE UpdateInventoryTransactions
        <4>1. pc \in CalculationCalls
          BY <3>4 DEF UpdateInventoryTransactions, CalculationCalls
        <4>2. \A s \in Sales : sell[s].logged => sell[s].checked
          BY <1>t, <2>1, <4>1 DEF TickInv
        <4>3. NoLooseSplits
          BY <4>1 DEF CalmInv, CalculationCalls
        <4>4. QED
          BY <1>t, <3>1, <3>4, <4>2, <4>3, UnitsWritten
      <3>5. CASE \/ StartCalculation \/ StartReset \/ Crash \/ UNCHANGED vars
                 \/ \E d \in Dates : ListTransactions(d)
                 \/ \E n \in CreditNotes : ProcessCreditNote(n)
                 \/ CreditNotesDone
                 \/ \E s \in Sales : NextSale(s)
                 \/ \E p \in Purchases : LiquidatePurchase(p) \/ SplitPurchase(p) \/ RejectSplit(p)
                 \/ FinishSale \/ SalesDone \/ CreateInventoryTransactions
                 \/ CreateFinancialTransactions \/ storeLastCalcTxDate
                 \/ ReadAccountToReset \/ ListTransactionsToReset
                 \/ TrashFinancialTransactions \/ TrashInventoryTransactions
        <4>1. UNCHANGED <<buy, sell, note>>
          BY <3>5 DEF StartCalculation, StartReset, Crash, vars, books, ListTransactions,
             ProcessCreditNote, CreditNotesDone, NextSale, LiquidatePurchase, SplitPurchase,
             RejectSplit, FinishSale, SalesDone, CreateInventoryTransactions, CreateFinancialTransactions,
             storeLastCalcTxDate, ReadAccountToReset, ListTransactionsToReset,
             TrashFinancialTransactions, TrashInventoryTransactions
        <4>2. QED
          BY <1>k, <3>1, <4>1
      <3>6. QED
        BY <2>2, <2>4, <3>2, <3>3, <3>4, <3>5 DEF Next, Calculation, Reset
    <2>5. QED
      BY <2>3, <2>4
  <1>2. CASE UserEdits \/ HandlerSteps
    <2>1. Noticed
      BY <1>t, <1>2, EditNoticed, HandlerNoticed
    <2>2. ~Off
      BY <2>1 DEF Noticed
    <2>3. QED
      BY <1>t, <2>1, <2>2, NoticedUnits
  <1>3. CASE HandlerFails
    BY <1>3, HandlerFailsEffect DEF Off
  <1>4. QED
    BY <1>1, <1>2, <1>3 DEF DeletionNext

\* The inductive invariant, on top of DeletionTypeInv, RepairInv, DeletedInv and
\* UnflaggedInv.
StockInv == UnitsInv /\ CoveredInv /\ (~Off => UnitsTied)

\* StockInv is an invariant.
LEMMA StockInvariant ==
    ASSUME OwnPurchaseCodes, MergeProps, PromptHandlers
    PROVE  DeletionSpec => []StockInv
  <1>1. DeletionInit /\ DeletionTypeInv => StockInv
    <2> SUFFICES ASSUME DeletionInit, DeletionTypeInv PROVE StockInv
      OBVIOUS
    <2>1. /\ \A p \in Purchases : splits[p] = NoTotals /\ buy[p] = NoPurchase
          /\ \A s \in Sales : ~sell[s].logged
          /\ \A n \in CreditNotes : ~note[n].checked
          /\ pc = "idle" /\ TypeInv
      BY DEF DeletionInit, Init, NoSaleEntry, NoEntry, DeletionTypeInv
    <2>2. \A p \in Purchases : Untouched(p)
      BY <2>1 DEF Untouched, NoPurchase
    <2>3. UnitsTied
      BY <2>1, <2>2, NothingOut
    <2>4. \A p \in Purchases :
             buy[p].amount = 0 /\ buy[p].quantity = 0 /\ splits[p].quantity = 0
      BY <2>1 DEF NoPurchase, NoTotals
    <2>5. UnitsInv /\ CoveredInv
      BY <2>1, <2>4 DEF UnitsInv, CoveredInv, Planning, Calculating
    <2>6. QED
      BY <2>3, <2>5 DEF StockInv
  <1>2. /\ DeletionTypeInv /\ DeletionTypeInv' /\ RepairInv /\ RepairInv' /\ CalmInv /\ DeletedInv
        /\ DeletedInv' /\ UnflaggedInv /\ StockInv /\ [DeletionNext]_deletionVars
        => StockInv'
    BY UnitsDeletions, TiedUnitsDeletions DEF StockInv, DeletedInv, UnflaggedInv
  <1>3. QED
    BY <1>1, <1>2, DeletionTypeInvariant, RepairInvariant, DeletedInvariant,
       UnflaggedInvariant, PTL DEF DeletionSpec

\* When every purchase has its own code, updates keep the properties that are not sent,
\* the handlers of hand-made changes are done before the next run and no run comes
\* between unchecking and trashing a sale, an account that is not flagged has in its
\* purchases what was bought less what the costed sales and the applied credit notes took,
\* once the handlers have answered: whatever was deleted or ticked, unless an edit was
\* missed.
THEOREM UnflaggedUnits ==
    ASSUME OwnPurchaseCodes, MergeProps, PromptHandlers
    PROVE  DeletionSpec => []UnflaggedStock
  <1>1. ASSUME TypeInv, UnitsTied
        PROVE  MapThenSumSet(LAMBDA p : buy[p].quantity
                               - (IF buy[p].checked THEN 0 ELSE buy[p].amount), Purchases)
                 = MapThenSumSet(LAMBDA s : sell[s].quantity, {t \in Sales : sell[t].logged})
                   + MapThenSumSet(LAMBDA n : note[n].quantity,
                                   {m \in CreditNotes : note[m].checked})
    <2> DEFINE out == [p \in Purchases |->
                         buy[p].quantity - (IF buy[p].checked THEN 0 ELSE buy[p].amount)]
               S == {t \in Sales : sell[t].logged}
               N == {m \in CreditNotes : note[m].checked}
               sold == [s \in S |-> sell[s].quantity]
               credited == [n \in N |-> note[n].quantity]
    <2>1. MapThenSumSet(LAMBDA p : buy[p].quantity
                          - (IF buy[p].checked THEN 0 ELSE buy[p].amount), Purchases)
            = Iter(out, Purchases)[Purchases]
      BY Zenon DEF MapThenSumSet, MapThenFoldSet, Iter, IsIter, First
    <2>2. S \subseteq Sales /\ S = LoggedSales /\ N \subseteq CreditNotes /\ N = CheckedNotes
      BY DEF LoggedSales, CheckedNotes
    <2>3. IsFiniteSet(S) /\ IsFiniteSet(N)
      BY <2>2, FS_Subset, FiniteAssumption
    <2>4. \A s \in S : SaleQuantities[s] \in Int /\ sold[s] = SaleQuantities[s]
      BY <1>1, <2>2, UnitTypes
    <2>5. \A n \in N : NoteQuantities[n] \in Int /\ credited[n] = NoteQuantities[n]
      BY <1>1, <2>2, UnitTypes
    <2>6. out = OutUnits
      BY DEF OutUnits, Left
    <2>7. MapThenSumSet(LAMBDA s : sell[s].quantity, S) = SumOf(sold, S)
      <3> HIDE DEF S
      <3>1. MapThenSumSet(LAMBDA s : sell[s].quantity, S) = Iter(sold, S)[S]
        BY Zenon DEF MapThenSumSet, MapThenFoldSet, Iter, IsIter, First
      <3>2. QED
        BY <3>1, SumIsIter
    <2>8. MapThenSumSet(LAMBDA n : note[n].quantity, N) = SumOf(credited, N)
      <3> HIDE DEF N
      <3>1. MapThenSumSet(LAMBDA n : note[n].quantity, N) = Iter(credited, N)[N]
        BY Zenon DEF MapThenSumSet, MapThenFoldSet, Iter, IsIter, First
      <3>2. QED
        BY <3>1, SumIsIter
    <2> HIDE DEF out, S, N, sold, credited
    <2>9. SumOf(SaleQuantities, S) = SumOf(sold, S)
      BY <2>3, <2>4, SumEqual
    <2>10. SumOf(NoteQuantities, N) = SumOf(credited, N)
      BY <2>3, <2>5, SumEqual
    <2>11. Iter(out, Purchases)[Purchases] = SumOf(OutUnits, Purchases)
      BY <2>6, SumIsIter
    <2>12. SumOf(OutUnits, Purchases) = SumOf(sold, S) + SumOf(credited, N)
      BY <1>1, <2>2, <2>9, <2>10 DEF UnitsTied
    <2>13. QED
      BY <2>1, <2>7, <2>8, <2>11, <2>12, Zenon DEF S, N
  <1>2. DeletionTypeInv /\ StockInv => UnflaggedStock
    BY <1>1 DEF UnflaggedStock, StockInv, Idle, Off, DeletionTypeInv
  <1>3. QED
    BY <1>2, DeletionTypeInvariant, StockInvariant, PTL

\* On the same terms no edit, no call of a handler and no handler that dies makes the
\* stock of a purchase look smaller than it is, noticed or not: what is left of it and
\* its splits cover it at every step.
THEOREM StockSafeUnderEdits ==
    ASSUME OwnPurchaseCodes, MergeProps, PromptHandlers
    PROVE  DeletionSpec => []StockNeverUndercounted
  <1>1. StockInv => StockNeverUndercounted
    BY DEF StockInv, CoveredInv, StockNeverUndercounted
  <1>2. QED
    BY <1>1, StockInvariant, PTL
==============================================================================
