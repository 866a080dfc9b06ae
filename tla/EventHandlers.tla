---------------------------- MODULE EventHandlers ----------------------------
(***************************************************************************)
(* The event bot: webhook calls for the transactions of a Financial Book,  *)
(* their dispatch, and the replication of checked transactions into the    *)
(* Inventory Book. A handler is a sequence of calls to Bkper; every call   *)
(* is a step, so that other handlers, and calculations and resets of the   *)
(* menu, come between them. An event may be delivered again, and a handler *)
(* may die after any call.                                                 *)
(*                                                                         *)
(* One good account is modelled, with the accounts Buy and Sell. A query   *)
(* for an account and its creation when it is missing are one step; the    *)
(* failure of a creation, because somebody else has created the account    *)
(* meanwhile, is one of the failures a handler may meet.                   *)
(***************************************************************************)
EXTENDS Integers

CONSTANTS
    Txs,          \* transactions of the Financial Book about the good
    PropsOf,      \* the properties each of them has
    DateOf,       \* their dates
    Foreign,      \* those whose good has another exc_code than the book
    Slots,        \* handlers that may be at work at a time
    MaxEvents,    \* bound on the events pending for one transaction
    MaxFailures,  \* bound on the handlers that die half-way
    OneAtATime,   \* are the events of one transaction handled one after the other?
    QuietRuns,    \* do calculations wait until no handler is at work?
    NoTx

PropertyNames ==
    {"good", "quantity", "sale_invoice", "purchase_invoice", "credit_note"}

ASSUME TxAssumption ==
    /\ PropsOf \in [Txs -> SUBSET PropertyNames]
    /\ DateOf \in [Txs -> Nat \ {0}]
    /\ Foreign \subseteq Txs /\ NoTx \notin Txs

ASSUME HandlerAssumption ==
    /\ MaxEvents \in Nat /\ MaxFailures \in Nat
    /\ OneAtATime \in BOOLEAN /\ QuietRuns \in BOOLEAN

VARIABLES
    asked,      \* transactions of the Financial Book that have been checked
    events,     \* pending TRANSACTION_CHECKED events for each of them
    replicas,   \* transactions of the Inventory Book with its remote id
    accounts,   \* accounts of the Inventory Book: the good, Buy, Sell
    grouped,    \* has the good account the groups that lead to the Financial Book?
    props,      \* needs_rebuild and cogs_calc_date of the good account
    costed,     \* replicas that a calculation has taken into account
    handler,    \* the handlers at work
    failures

vars == <<asked, events, replicas, accounts, grouped, props, costed, handler, failures>>

Calls == {"none", "query", "account", "align", "counter", "post", "flag"}
Props == [needsRebuild : BOOLEAN, calcDate : Nat]
NoProps == [needsRebuild |-> FALSE, calcDate |-> 0]

\* copy: the properties of the good account when the handler read it.
HandlerRecords == [tx : Txs \cup {NoTx}, pc : Calls, copy : Props]
NoHandler == [tx |-> NoTx, pc |-> "none", copy |-> NoProps]

HandlersTypeOK ==
    /\ asked \subseteq Txs
    /\ events \in [Txs -> 0..MaxEvents]
    /\ replicas \in [Txs -> Nat]
    /\ accounts \subseteq {"good", "Buy", "Sell"} /\ grouped \in BOOLEAN
    /\ props \in Props
    /\ costed \subseteq Txs
    /\ handler \in [Slots -> HandlerRecords]
    /\ failures \in 0..MaxFailures

Init ==
    /\ asked = {}
    /\ events = [t \in Txs |-> 0]
    /\ replicas = [t \in Txs |-> 0]
    /\ accounts = {} /\ grouped = FALSE
    /\ props = NoProps
    /\ costed = {}
    /\ handler = [h \in Slots |-> NoHandler]
    /\ failures = 0

book == <<replicas, accounts, grouped, props, costed>>
------------------------------------------------------------------------------
(* The transactions *)

\* What the handler takes a transaction for, by its properties.
KindOf(t) ==
    IF "quantity" \notin PropsOf[t] THEN "none"
    ELSE IF "sale_invoice" \in PropsOf[t] THEN "sale"
    ELSE IF "purchase_invoice" \in PropsOf[t] THEN "purchase"
    ELSE IF "credit_note" \in PropsOf[t] THEN "creditNote"
    ELSE "none"

\* Is the account whose exchange code is looked at the good? It is the one that the
\* property good names or else the debit account, which is the good in a purchase and
\* another account, taken to have no exchange code, in a credit note.
CodeOfGood(t) == "good" \in PropsOf[t] \/ KindOf(t) = "purchase"

\* The exchange code found, if any, is the one of the book.
matchGoodExchange(t) == CodeOfGood(t) => t \notin Foreign

\* The account on the other side of the replica.
CounterAccount(t) == IF KindOf(t) = "sale" THEN "Sell" ELSE "Buy"

Replicable == {t \in Txs : KindOf(t) # "none" /\ matchGoodExchange(t)}
------------------------------------------------------------------------------
(* Users *)

Emit(t) ==
    /\ events[t] < MaxEvents
    /\ events' = [events EXCEPT ![t] = @ + 1]

\* A user checks a transaction, for the first time or again: unchecking it in
\* between has no effect, its handler guards the Inventory Book only.
Check(t) ==
    /\ asked' = asked \cup {t}
    /\ Emit(t)
    /\ UNCHANGED <<book, handler, failures>>
------------------------------------------------------------------------------
(* The webhook *)

Free == {h \in Slots : handler[h].pc = "none"}
At(h, pc) == handler[h].pc = pc
Goto(h, pc) == handler' = [handler EXCEPT ![h].pc = pc]

\* The handler returns and the webhook answers.
Return(h) == handler' = [handler EXCEPT ![h] = NoHandler]

\* Nothing in the bot keeps two handlers of one transaction apart: both may find
\* no replica and post one. OneAtATime is a property of the delivery.
MayHandle(t) == OneAtATime => \A g \in Slots : handler[g].tx # t

\* Mutant: a handler starts without an event.
handleEvent_Spurious(h, t) ==
    /\ h \in Free /\ MayHandle(t)
    /\ events' = [events EXCEPT ![t] = @ - 1]
    /\ handler' = [handler EXCEPT ![h] = [tx |-> t, pc |-> "query", copy |-> NoProps]]
    /\ UNCHANGED <<asked, book, failures>>

\* handleEvent starts the handler of a checked transaction.
handleEvent(h, t) ==
    /\ h \in Free /\ events[t] > 0 /\ MayHandle(t)
    /\ events' = [events EXCEPT ![t] = @ - 1]
    /\ handler' = [handler EXCEPT ![h] = [tx |-> t, pc |-> "query", copy |-> NoProps]]
    /\ UNCHANGED <<asked, book, failures>>

\* Mutant: the Inventory Book is not searched for an earlier replica.
Found_Never(t) == FALSE

\* The query for the remote id finds a replica.
Found(t) == replicas[t] > 0

\* Mutant: the exchange codes are not compared.
processObject_AnyCode(h) ==
    /\ At(h, "query")
    /\ LET t == handler[h].tx
       IN  IF KindOf(t) # "none" /\ ~Found(t) THEN Goto(h, "account") ELSE Return(h)
    /\ UNCHANGED <<asked, events, book, failures>>

\* processObject: a purchase or sale of a good of another currency, a transaction
\* that has a replica and one that moves no goods are left alone.
processObject(h) ==
    /\ At(h, "query")
    /\ LET t == handler[h].tx
       IN  IF t \in Replicable /\ ~Found(t) THEN Goto(h, "account") ELSE Return(h)
    /\ UNCHANGED <<asked, events, book, failures>>

\* Mutant: the sale of a good that has no account yet is dropped.
GetGoodAccount_SaleDropped(h) ==
    /\ At(h, "account")
    /\ LET existed == "good" \in accounts
           kind == KindOf(handler[h].tx)
       IN  /\ accounts' = IF kind = "sale" THEN accounts ELSE accounts \cup {"good"}
           /\ grouped' = (grouped \/ (~existed /\ kind # "sale"))
           /\ IF ~existed /\ kind = "sale" THEN Return(h) ELSE Goto(h, "counter")
    /\ UNCHANGED <<asked, events, replicas, props, costed, failures>>

\* The account of the good is read, or created: on a sale without groups.
GetGoodAccount(h) ==
    /\ At(h, "account")
    /\ LET existed == "good" \in accounts
           kind == KindOf(handler[h].tx)
       IN  /\ accounts' = accounts \cup {"good"}
           /\ grouped' = (grouped \/ (~existed /\ kind # "sale"))
           /\ handler' = [handler EXCEPT
                ![h].pc = IF existed /\ kind = "purchase" THEN "align" ELSE "counter",
                ![h].copy = IF existed THEN props ELSE NoProps]
    /\ UNCHANGED <<asked, events, replicas, props, costed, failures>>

\* Mutant: the groups are not brought up to date.
checkInventoryAccount_NoGroups(h) ==
    /\ At(h, "align")
    /\ Goto(h, "counter")
    /\ UNCHANGED <<asked, events, book, failures>>

\* checkInventoryAccount sends the properties and groups of the financial
\* account. Bkper is taken to keep stored properties that are not sent.
checkInventoryAccount(h) ==
    /\ At(h, "align")
    /\ grouped' = TRUE
    /\ Goto(h, "counter")
    /\ UNCHANGED <<asked, events, replicas, accounts, props, costed, failures>>

\* Buy or Sell is read, or created.
GetCounterAccount(h) ==
    /\ At(h, "counter")
    /\ accounts' = accounts \cup {CounterAccount(handler[h].tx)}
    /\ Goto(h, "post")
    /\ UNCHANGED <<asked, events, replicas, grouped, props, costed, failures>>

PostReplica(h) ==
    /\ At(h, "post")
    /\ replicas' = [replicas EXCEPT ![handler[h].tx] = @ + 1]
    /\ Goto(h, "flag")
    /\ UNCHANGED <<asked, events, accounts, grouped, props, costed, failures>>

\* Mutant: the calculation date is written back as it was read.
checkLastTxDate_Rewrite(h) ==
    /\ At(h, "flag")
    /\ LET t == handler[h].tx
           copy == handler[h].copy
       IN  props' = IF copy.calcDate # 0 /\ DateOf[t] <= copy.calcDate
                    THEN [needsRebuild |-> TRUE, calcDate |-> copy.calcDate]
                    ELSE copy
    /\ Return(h)
    /\ UNCHANGED <<asked, events, replicas, accounts, grouped, costed, failures>>

\* Mutant: the check is missing after a sale.
checkLastTxDate_PurchasesOnly(h) ==
    /\ At(h, "flag")
    /\ LET t == handler[h].tx
           copy == handler[h].copy
       IN  props' = IF KindOf(t) # "sale" /\ copy.calcDate # 0 /\ DateOf[t] <= copy.calcDate
                    THEN [needsRebuild |-> TRUE, calcDate |-> copy.calcDate]
                    ELSE props
    /\ Return(h)
    /\ UNCHANGED <<asked, events, replicas, accounts, grouped, costed, failures>>

\* checkLastTxDate flags the account through the copy read by GetGoodAccount.
checkLastTxDate(h) ==
    /\ At(h, "flag")
    /\ LET t == handler[h].tx
           copy == handler[h].copy
       IN  props' = IF copy.calcDate # 0 /\ DateOf[t] <= copy.calcDate
                    THEN [needsRebuild |-> TRUE, calcDate |-> copy.calcDate]
                    ELSE props
    /\ Return(h)
    /\ UNCHANGED <<asked, events, replicas, accounts, grouped, costed, failures>>

\* A call fails: the error is answered, and the event may be delivered again.
HandlerFails(h) ==
    /\ handler[h].pc # "none" /\ failures < MaxFailures
    /\ failures' = failures + 1
    /\ Return(h)
    /\ \/ UNCHANGED events
       \/ Emit(handler[h].tx)
    /\ UNCHANGED <<asked, book>>

\* Bkper delivers an event a second time.
DeliverAgain(t) ==
    /\ t \in asked /\ failures < MaxFailures
    /\ failures' = failures + 1
    /\ Emit(t)
    /\ UNCHANGED <<asked, book, handler>>
------------------------------------------------------------------------------
(* The menu, seen from the handlers: a calculation and a reset in one step. *)

Uncosted == {t \in Txs : replicas[t] > 0 /\ KindOf(t) = "sale"} \ costed

\* A calculation costs the sales up to a date and stores the last of their
\* dates.
Calculate(toDate) ==
    /\ grouped /\ ~props.needsRebuild /\ (QuietRuns => Free = Slots)
    /\ LET S == {t \in Uncosted : DateOf[t] <= toDate}
       IN  \E last \in S :
              /\ \A t \in S : DateOf[t] <= DateOf[last]
              /\ costed' = costed \cup S
              /\ props' = IF DateOf[last] > props.calcDate
                          THEN [props EXCEPT !.calcDate = DateOf[last]] ELSE props
    /\ UNCHANGED <<asked, events, replicas, accounts, grouped, handler, failures>>

Reset ==
    /\ grouped
    /\ costed' = {} /\ props' = NoProps
    /\ UNCHANGED <<asked, events, replicas, accounts, grouped, handler, failures>>
------------------------------------------------------------------------------
(* Specification *)

HandlerStep(h) ==
    \/ processObject(h) \/ GetGoodAccount(h) \/ checkInventoryAccount(h)
    \/ GetCounterAccount(h) \/ PostReplica(h) \/ checkLastTxDate(h)

Deliver(t) == \E h \in Slots : handleEvent(h, t)

Next ==
    \/ \E t \in Txs : Check(t) \/ DeliverAgain(t) \/ Deliver(t)
    \/ \E h \in Slots : HandlerStep(h) \/ HandlerFails(h)
    \/ \E t \in Txs : Calculate(DateOf[t])
    \/ Reset

Spec == Init /\ [][Next]_vars

\* Bkper delivers the events of every transaction, and a call that a handler
\* has made returns.
FairSpec ==
    /\ Spec
    /\ \A t \in Txs : SF_vars(Deliver(t))
    /\ \A h \in Slots : WF_vars(HandlerStep(h))
------------------------------------------------------------------------------
(* Properties *)

\* However often a transaction is unchecked and checked again, an event is
\* delivered again and a handler dies, the Inventory Book gets one replica of
\* a transaction at most, provided that its events are handled one after the other.
\* Handlers of other transactions and resets come between its calls.
AtMostOnce == \A t \in Txs : replicas[t] <= 1

\* A purchase in the Inventory Book has a good account whose
\* groups lead to the Financial Book, even when the account was created by the
\* handler of a sale in the middle of the handler of the purchase.
PurchaseHasBook ==
    \A t \in Txs : replicas[t] > 0 /\ KindOf(t) = "purchase" => grouped

\* With QuietRuns, that is, when no calculation comes between the calls of a handler
\* (one that does makes the copy stale and leaves the sale unflagged): when no handler
\* is at work and none has died, a good account that is not flagged has no uncosted
\* sale on or before its calculation date, although the handlers judge by a copy of
\* the account read before they post, and others flag or reset it meanwhile.
BackdatedFlagged ==
    Free = Slots /\ failures = 0 /\ ~props.needsRebuild =>
        \A t \in Uncosted : DateOf[t] > props.calcDate

\* No handler that writes the good account through an old copy takes the
\* rebuild flag away, or puts back the calculation date of before a reset
\* without the flag.
StaleCopyHarmless ==
    [][/\ props.needsRebuild /\ ~props'.needsRebuild => costed' = {}
       /\ props'.calcDate # props.calcDate =>
             props'.needsRebuild \/ costed' # costed \/ props' = NoProps]_vars

\* What Replication promises, with the state of the handlers left out.
Promised == INSTANCE Replication
    WITH Txs <- Txs, Replicable <- Replicable, asked <- asked, replicas <- replicas

\* The handlers implement the promise, whatever fails and is delivered again: the
\* six calls of a handler look like one step that happens once per transaction.
RefinesPromise == Promised!Promise

\* When no handler fails, it also gets there: every transaction about goods that
\* has been checked is replicated in the end.
RefinesFairPromise == Promised!FairPromise

\* The documentation asks for good and quantity in a sale and calls the sale
\* invoice optional: such a transaction is replicated once it has been checked.
SaleReplicated ==
    \A t \in Txs : {"good", "quantity"} \subseteq PropsOf[t] =>
        (t \in asked ~> replicas[t] > 0)
==============================================================================
