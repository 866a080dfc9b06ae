------------------------------ MODULE Deletions ------------------------------
(***************************************************************************)
(* Deletions and hand-made changes: the TRANSACTION_DELETED, _POSTED,      *)
(* _CHECKED and _UNCHECKED handlers of the event bot that tidy the books   *)
(* up, or flag the good account for rebuild, composed with the cost-of-    *)
(* sales engine. A handler is a sequence of calls: posts, calculations and *)
(* resets may come between two of them, and it may die before any of them. *)
(* Looking a transaction up is one step with the call that follows it; so  *)
(* is unchecking with trashing for a split or a cost of sales.             *)
(*                                                                         *)
(* What Bkper does with a batch that updates a transaction trashed         *)
(* meanwhile is not visible in the repository, so that users and handlers  *)
(* delete only between script runs, never during one. Runs do not die      *)
(* here; what they leave when they do is the subject of CostOfSales.       *)
(***************************************************************************)
EXTENDS CostOfSales

CONSTANTS
    Edits,          \* kinds of edits that users make
    DebitIncoming,  \* sales whose financial transaction debits an INCOMING account
    HandTicked,     \* transactions of the Inventory Book checked or unchecked by hand
    Prompt,         \* kinds and steps of handlers during which no script run starts
    MaxFailures     \* bound on the handlers that die

Kinds ==
    {"purchase", "sale", "creditNote", "additionalCost", "cogs", "goods", "posted", "ticked"}
Steps ==
    {"none", "root", "trash", "splits", "cogs", "lookup", "flagIfNeeded", "flag", "answer"}

ASSUME DeletionAssumption ==
    /\ Purchases \cap Sales = {} /\ Edits \subseteq Kinds /\ DebitIncoming \subseteq Sales
    /\ HandTicked \subseteq Purchases \cup Sales \cup CreditNotes
    /\ Prompt \subseteq Kinds \X Steps /\ MaxFailures \in Nat

VARIABLES
    job,      \* the handler at work
    gone,     \* transactions deleted by users
    missed,   \* history: was an edit of what a calculation had used not noticed?
    failures

deletionVars == <<vars, job, gone, missed, failures>>

Transactions == Purchases \cup Sales \cup CreditNotes
NoTx == NoSale

\* used is history: the edit, or its handler, takes away something that a
\* calculation had used.
Jobs ==
    [kind : Kinds, tx : Transactions \cup Codes \cup {NoTx}, date : Nat,
     used : BOOLEAN, step : Steps]
NoJob == [kind |-> "purchase", tx |-> NoTx, date |-> NoDate, used |-> FALSE, step |-> "none"]

Idle == job.step = "none" /\ pc = "idle"

DeletionTypeOK ==
    /\ TypeOK
    /\ job \in Jobs
    /\ gone \subseteq Transactions
    /\ missed \in BOOLEAN /\ failures \in Nat

DeletionInit == Init /\ job = NoJob /\ gone = {} /\ missed = FALSE /\ failures = 0

At(step) == job.step = step /\ pc = "idle"
Goto(step) == job' = [job EXCEPT !.step = step]

\* A calculation has drawn on the purchase, or has costed the sale.
UsedPurchase(p) == splits[p].quantity > 0 \/ buy[p].checked
------------------------------------------------------------------------------
(* What users do *)

\* The user makes an edit; the event starts the handler at its first step, which
\* for edits that the handler ignores is the answer.
Edit(kind, tx, date, used, step) ==
    /\ Idle /\ kind \in Edits
    /\ job' = [kind |-> kind, tx |-> tx, date |-> date, used |-> used, step |-> step]
    /\ missed' = (missed \/ (used /\ step = "answer"))
    /\ UNCHANGED <<pc, run, crashes, torn, failures>>

DeletePurchase(p) ==
    /\ buy[p].posted /\ p \notin gone /\ ~Locked(buy[p].date)
    /\ Edit("purchase", p, buy[p].date, UsedPurchase(p), "root")
    /\ gone' = gone \cup {p}
    /\ UNCHANGED books

\* The handler takes a transaction for a sale only when it debits an INCOMING
\* account.
DeletedSaleStep(s) == IF s \in DebitIncoming THEN "root" ELSE "answer"

DeleteSale(s) ==
    /\ sell[s].posted /\ s \notin gone /\ ~Locked(sell[s].date)
    /\ Edit("sale", s, sell[s].date, sell[s].logged /\ s \in DebitIncoming, DeletedSaleStep(s))
    /\ gone' = gone \cup {s}
    /\ UNCHANGED books

\* The credited amount leaves the Financial Book; which amount was the one of
\* this credit note is not recorded.
DeleteCreditNote(n, amount) ==
    /\ note[n].posted /\ n \notin gone /\ ~Locked(note[n].date)
    /\ extras[NoteCode[n]].credit >= amount
    /\ Edit("creditNote", n, note[n].date, note[n].checked, "lookup")
    /\ extras' = [extras EXCEPT ![NoteCode[n]].credit = @ - amount]
    /\ gone' = gone \cup {n}
    /\ UNCHANGED <<buy, splits, sell, note, status, props, cogs, lockDate>>

\* The handler looks for the good under the name of the credit account, which
\* in an additional cost is whoever is paid: it finds none and returns.
DeleteAdditionalCost(code, amount) ==
    /\ extras[code].add >= amount
    /\ Edit("additionalCost", code, NoDate,
            \E p \in Purchases : CodeOf[p] = code /\ UsedPurchase(p), "answer")
    /\ extras' = [extras EXCEPT ![code].add = @ - amount]
    /\ UNCHANGED <<buy, splits, sell, note, status, props, cogs, lockDate, gone>>

\* The handler looks for the hashtag #cost_of_sale in the description, which
\* addCostOfSales starts with #COGS: it finds none and returns.
DeleteCogs(s) ==
    /\ cogs[s] # <<>> /\ ~Locked(sell[s].date)
    /\ Edit("cogs", s, sell[s].date, TRUE, "answer")
    /\ cogs' = [cogs EXCEPT ![s] = Tail(@)]
    /\ UNCHANGED <<buy, splits, sell, note, status, props, extras, lockDate, gone>>

\* A deletion in the Inventory Book. The handler expects the type INCOMING of
\* the debit account or OUTGOING of the credit account; a purchase credits Buy
\* and a sale debits Sell, so that it finds no good account and returns.
DeletePurchaseGoods(p) ==
    /\ buy[p].posted /\ ~Locked(buy[p].date)
    /\ Edit("goods", p, buy[p].date, UsedPurchase(p), "answer")
    /\ buy' = [buy EXCEPT ![p] = NoPurchase]
    /\ gone' = gone \cup {p}
    /\ UNCHANGED <<splits, sell, note, status, props, cogs, extras, lockDate>>

DeleteSaleGoods(s) ==
    /\ sell[s].posted /\ ~Locked(sell[s].date)
    /\ Edit("goods", s, sell[s].date, sell[s].logged, "answer")
    /\ sell' = [sell EXCEPT ![s] = NoSaleEntry]
    /\ gone' = gone \cup {s}
    /\ UNCHANGED <<buy, splits, note, status, props, cogs, extras, lockDate>>

\* A user posts a sale in the Inventory Book itself.
PostSaleGoods(s, quantity, date) ==
    /\ status # "absent" /\ ~sell[s].posted /\ s \notin gone /\ ~Locked(date)
    /\ Edit("posted", s, date, FALSE, "root")
    /\ sell' = [sell EXCEPT ![s] = [posted |-> TRUE, date |-> date, quantity |-> quantity,
                                    checked |-> FALSE, logged |-> FALSE, bot |-> FALSE]]
    /\ gone' = gone \cup {s}
    /\ UNCHANGED <<buy, splits, note, status, props, cogs, extras, lockDate>>

\* Mutant: only a tick that is taken away flags the account.
GuardStep_Unchecked(checked) == IF checked THEN "answer" ELSE "flag"

\* InterceptorFlagRebuild looks for the good account, whatever the new tick.
GuardStep(checked) == "flag"

\* A user checks or unchecks a transaction of the Inventory Book. The guard
\* knows the good account of purchases and sales only.
TickPurchase(p) ==
    /\ p \in HandTicked /\ buy[p].posted /\ ~Locked(buy[p].date)
    /\ Edit("ticked", p, buy[p].date, UsedPurchase(p), GuardStep(~buy[p].checked))
    /\ buy' = [buy EXCEPT ![p].checked = ~@]
    /\ UNCHANGED <<splits, sell, note, status, props, cogs, extras, lockDate, gone>>

TickSale(s) ==
    /\ s \in HandTicked /\ sell[s].posted /\ ~Locked(sell[s].date)
    /\ Edit("ticked", s, sell[s].date, sell[s].logged, GuardStep(~sell[s].checked))
    /\ sell' = [sell EXCEPT ![s].checked = ~@]
    /\ UNCHANGED <<buy, splits, note, status, props, cogs, extras, lockDate, gone>>

TickCreditNote(n) ==
    /\ n \in HandTicked /\ note[n].posted /\ ~Locked(note[n].date)
    /\ Edit("ticked", n, note[n].date, TRUE, "answer")
    /\ note' = [note EXCEPT ![n].checked = ~@]
    /\ UNCHANGED <<buy, splits, sell, status, props, cogs, extras, lockDate, gone>>

UserEdits ==
    \/ \E p \in Purchases : DeletePurchase(p) \/ DeletePurchaseGoods(p) \/ TickPurchase(p)
    \/ \E s \in Sales : DeleteSale(s) \/ DeleteCogs(s) \/ DeleteSaleGoods(s) \/ TickSale(s)
    \/ \E s \in Sales, q \in Quantities, d \in Dates : PostSaleGoods(s, q, d)
    \/ \E n \in CreditNotes, a \in ExtraAmounts : DeleteCreditNote(n, a)
    \/ \E n \in CreditNotes : TickCreditNote(n)
    \/ \E c \in Codes, a \in ExtraAmounts : DeleteAdditionalCost(c, a)
------------------------------------------------------------------------------
(* What the handlers do *)

\* Mutant: the splits of a deleted purchase are forgotten.
deleteOnInventoryBook_NoCascade ==
    [purchase |-> "flagIfNeeded", sale |-> "cogs", posted |-> "answer"]

\* What follows when the transaction of the Inventory Book has been trashed.
deleteOnInventoryBook == [purchase |-> "splits", sale |-> "cogs", posted |-> "answer"]

\* deleteTransactionByRemoteId: a transaction that is not found, because an
\* earlier delivery of the event has trashed it, ends the handler.
NotFound ==
    /\ At("root")
    /\ \/ job.tx \in Purchases /\ ~buy[job.tx].posted
       \/ job.tx \in Sales /\ ~sell[job.tx].posted
    /\ Goto("answer")
    /\ UNCHANGED <<books, pc, run, crashes, torn, gone, missed, failures>>

\* uncheckAndTrash: what is checked is unchecked first, in a call of its own.
UncheckPurchase ==
    /\ At("root") /\ job.tx \in Purchases
    /\ buy[job.tx].posted /\ buy[job.tx].checked
    /\ buy' = [buy EXCEPT ![job.tx].checked = FALSE]
    /\ job' = [job EXCEPT !.step = "trash", !.used = TRUE]
    /\ UNCHANGED <<splits, sell, note, status, props, cogs, extras, lockDate,
                   pc, run, crashes, torn, gone, missed, failures>>

TrashPurchase ==
    /\ job.tx \in Purchases /\ buy[job.tx].posted
    /\ At("trash") \/ (At("root") /\ ~buy[job.tx].checked)
    /\ buy' = [buy EXCEPT ![job.tx] = NoPurchase]
    /\ job' = [job EXCEPT !.step = deleteOnInventoryBook[job.kind],
                          !.used = @ \/ UsedPurchase(job.tx)]
    /\ UNCHANGED <<splits, sell, note, status, props, cogs, extras, lockDate,
                   pc, run, crashes, torn, gone, missed, failures>>

UncheckSale ==
    /\ At("root") /\ job.tx \in Sales
    /\ sell[job.tx].posted /\ sell[job.tx].checked
    /\ sell' = [sell EXCEPT ![job.tx].checked = FALSE]
    /\ job' = [job EXCEPT !.step = "trash", !.used = @ \/ sell[job.tx].logged]
    /\ UNCHANGED <<buy, splits, note, status, props, cogs, extras, lockDate,
                   pc, run, crashes, torn, gone, missed, failures>>

TrashSale ==
    /\ job.tx \in Sales /\ sell[job.tx].posted
    /\ At("trash") \/ (At("root") /\ ~sell[job.tx].checked)
    /\ sell' = [sell EXCEPT ![job.tx] = NoSaleEntry]
    /\ job' = [job EXCEPT !.step = deleteOnInventoryBook[job.kind],
                          !.used = @ \/ sell[job.tx].logged]
    /\ UNCHANGED <<buy, splits, note, status, props, cogs, extras, lockDate,
                   pc, run, crashes, torn, gone, missed, failures>>

\* What may be left of the splits of a purchase when one of them is trashed.
SplitsLeft(totals) ==
    {NoTotals} \cup
    {left \in [quantity : 1..(totals.quantity - 1),
               cost : Min({0, totals.cost})..Max({0, totals.cost}),
               credited : 0..totals.credited, loose : {0}] : left.credited <= left.quantity}

\* One split is trashed, or there is none any more.
cascadeDeleteInventoryTransactions ==
    /\ At("splits")
    /\ \/ /\ splits[job.tx].quantity > 0
          /\ \E left \in SplitsLeft(splits[job.tx]) : splits' = [splits EXCEPT ![job.tx] = left]
          /\ UNCHANGED job
       \/ /\ splits[job.tx].quantity = 0
          /\ Goto("flagIfNeeded")
          /\ UNCHANGED splits
    /\ UNCHANGED <<buy, sell, note, status, props, cogs, extras, lockDate,
                   pc, run, crashes, torn, gone, missed, failures>>

\* The first transaction that carries the remote id of the sale.
cascadeDeleteFinancialTransactions ==
    /\ At("cogs")
    /\ cogs' = [cogs EXCEPT ![job.tx] = IF @ = <<>> THEN @ ELSE Tail(@)]
    /\ Goto("flagIfNeeded")
    /\ UNCHANGED <<buy, splits, sell, note, status, props, extras, lockDate,
                   pc, run, crashes, torn, gone, missed, failures>>

Flagged == UpdateProps(props, [props EXCEPT !.needsRebuild = TRUE], {})

flagInventoryAccountForRebuildIfNeeded ==
    /\ At("flagIfNeeded")
    /\ props' = IF props.calcDate # NoDate /\ job.date <= props.calcDate THEN Flagged ELSE props
    /\ Goto("answer")
    /\ UNCHANGED <<buy, splits, sell, note, status, cogs, extras, lockDate,
                   pc, run, crashes, torn, gone, missed, failures>>

\* A hand-made tick flags the account, unless it is flagged already.
FlagRebuild ==
    /\ At("flag")
    /\ props' = IF props.needsRebuild THEN props ELSE Flagged
    /\ Goto("answer")
    /\ UNCHANGED <<buy, splits, sell, note, status, cogs, extras, lockDate,
                   pc, run, crashes, torn, gone, missed, failures>>

\* original_quantity differs from the amount of a transaction that carries the
\* purchase code: a purchase that was split, or a split or a credit note, which
\* have no original_quantity. One of them comes first in the list.
ProcessedByFifo(code) ==
    {buy[p].quantity # buy[p].amount : p \in {r \in Purchases : CodeOf[r] = code /\ buy[r].posted}}
      \cup {TRUE : p \in {r \in Purchases : CodeOf[r] = code /\ splits[r].quantity > 0}}
      \cup {TRUE : n \in {m \in CreditNotes : NoteCode[m] = code /\ note[m].posted}}

\* A deleted credit note flags the account when the first transaction found
\* under its purchase code looks processed. The credit note of the Inventory
\* Book stays.
LookUpPurchaseCode ==
    /\ At("lookup")
    /\ LET found == ProcessedByFifo(NoteCode[job.tx])
       IN  \E processed \in (IF found = {} THEN {FALSE} ELSE found) :
              props' = IF processed THEN Flagged ELSE props
    /\ Goto("answer")
    /\ UNCHANGED <<buy, splits, sell, note, status, cogs, extras, lockDate,
                   pc, run, crashes, torn, gone, missed, failures>>

\* The handler answers the event.
Answer ==
    /\ At("answer")
    /\ job' = NoJob
    /\ missed' = (missed \/ (job.used /\ ~props.needsRebuild))
    /\ UNCHANGED <<books, pc, run, crashes, torn, gone, failures>>

\* The handler dies before a call; the event is lost or, which makes a difference
\* once a call has been made, delivered again.
HandlerFails ==
    /\ job.step \notin {"none", "answer"} /\ failures < MaxFailures
    /\ failures' = failures + 1 /\ missed' = TRUE
    /\ job' = NoJob \/ (job.step \in {"trash", "splits", "cogs", "flagIfNeeded"} /\ Goto("root"))
    /\ UNCHANGED <<books, pc, run, crashes, torn, gone>>

HandlerSteps ==
    \/ NotFound
    \/ UncheckPurchase \/ TrashPurchase \/ UncheckSale \/ TrashSale
    \/ cascadeDeleteInventoryTransactions \/ cascadeDeleteFinancialTransactions
    \/ flagInventoryAccountForRebuildIfNeeded \/ FlagRebuild \/ LookUpPurchaseCode
    \/ Answer
------------------------------------------------------------------------------
(* Specification *)

\* A deleted transaction is never recorded again.
NotRecordedAgain ==
    /\ \A p \in gone \cap Purchases : buy'[p].posted => buy[p].posted
    /\ \A s \in gone \cap Sales : sell'[s].posted => sell[s].posted
    /\ \A n \in gone \cap CreditNotes : note'[n].posted => note[n].posted

MayStartRun == job.step # "none" => <<job.kind, job.step>> \notin Prompt

Engine ==
    /\ \/ Handlers
       \/ MayStartRun /\ (StartCalculation \/ StartReset)
       \/ Calculation \/ Reset
    /\ NotRecordedAgain
    /\ UNCHANGED <<job, gone, missed, failures>>

DeletionNext == Engine \/ UserEdits \/ HandlerSteps \/ HandlerFails

DeletionSpec == DeletionInit /\ [][DeletionNext]_deletionVars
------------------------------------------------------------------------------
(* Properties *)

\* Deletions leave nothing behind: once their handlers have answered there are no
\* splits without their purchase and no cost of sales without its sale, whatever
\* runs came between the calls of a handler but those in Prompt, unless an edit
\* was missed.
NothingDangling ==
    Idle /\ ~missed =>
        /\ \A p \in Purchases : ~buy[p].posted => splits[p] = NoTotals
        /\ \A s \in Sales : ~sell[s].posted => cogs[s] = <<>>

\* When no handler is at work and no edit was missed, an account that is not
\* flagged for rebuild has the cost of goods sold of the Financial Book tie out
\* with the cost that has left the purchases still there, however many purchases
\* and sales were deleted and however many ticks were changed by hand.
UnflaggedTieOut ==
    Idle /\ ~missed /\ ~props.needsRebuild => BooksTieOut

\* When no handler is at work and no edit was missed, an account that is not
\* flagged for rebuild has in its purchases what was bought less what the costed
\* sales and the applied credit notes took.
UnflaggedStock ==
    Idle /\ ~missed /\ ~props.needsRebuild =>
        MapThenSumSet(LAMBDA p : buy[p].quantity - (IF buy[p].checked THEN 0 ELSE buy[p].amount),
                      Purchases)
          = MapThenSumSet(LAMBDA s : sell[s].quantity, {t \in Sales : sell[t].logged})
            + MapThenSumSet(LAMBDA n : note[n].quantity, {m \in CreditNotes : note[m].checked})

\* A reset repairs what is left after the edits, after handlers that died before
\* any of their calls and after runs that came between them: purchases are as
\* posted, no split is left, also of purchases that are gone, and no sale or credit
\* note counts as processed. It passes by the sales that a user posted by hand and
\* a run has costed before they were trashed, and the tick a user gave to a sale.
ResetRepairs ==
    pc = "clearAccount" =>
        /\ \A p \in Purchases : Untouched(p) /\ splits[p] = NoTotals
        /\ \A s \in Sales : sell[s].bot => ~sell[s].logged
        /\ \A n \in CreditNotes : ~note[n].checked

\* A comment of the handlers says that a purchase drawn on by FIFO flags the account
\* for rebuild when it is deleted.
DeletedPurchaseFlagged ==
    job.step = "answer" /\ job.kind = "purchase" /\ job.used => props.needsRebuild
==============================================================================
