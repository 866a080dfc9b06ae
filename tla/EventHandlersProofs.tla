------------------------- MODULE EventHandlersProofs -------------------------
(***************************************************************************)
(* Proofs that every transaction is replicated at most once, for any       *)
(* transactions, any number of handlers at work, of events, of repeated    *)
(* deliveries and of handlers that die, and that the handlers implement    *)
(* the promise of Replication, provided that the events of one transaction *)
(* are handled one after the other.                                        *)
(***************************************************************************)
EXTENDS EventHandlers, TLAPS

\* No two handlers work on one transaction.
Apart == \A g, h \in Slots : handler[g].tx \in Txs /\ handler[g].tx = handler[h].tx => g = h

\* Events are pending for, and handlers work on, transactions that have been
\* checked; a handler that is past its query and has not posted yet works on a
\* transaction about goods that has no replica.
HandlerInv ==
    /\ \A t \in Txs : events[t] > 0 => t \in asked
    /\ \A h \in Slots : handler[h].pc # "none" => handler[h].tx \in asked
    /\ \A h \in Slots : handler[h].pc \in {"account", "align", "counter", "post"} =>
          handler[h].tx \in Replicable /\ replicas[handler[h].tx] = 0

LEMMA EmptyRecords == NoProps \in Props /\ NoHandler \in HandlerRecords
  BY DEF NoProps, Props, NoHandler, HandlerRecords, Calls

\* What the moves of a handler do to its record.
LEMMA MoveTypes ==
    ASSUME handler \in [Slots -> HandlerRecords], NEW h \in Slots
    PROVE  /\ \A pc \in Calls : Goto(h, pc) => handler' \in [Slots -> HandlerRecords]
           /\ Return(h) => handler' \in [Slots -> HandlerRecords]
  <1>1. ASSUME NEW pc \in Calls, Goto(h, pc) PROVE handler' \in [Slots -> HandlerRecords]
    BY <1>1 DEF Goto, HandlerRecords
  <1>2. ASSUME Return(h) PROVE handler' \in [Slots -> HandlerRecords]
    BY <1>2, EmptyRecords DEF Return
  <1>3. QED
    BY <1>1, <1>2

\* The records of the handlers and of the good account have their types, with
\* any number of handlers at work.
THEOREM HandlersTypeCorrect == Spec => []HandlersTypeOK
  <1> USE TxAssumption, HandlerAssumption
  <1>1. Init => HandlersTypeOK
    <2> SUFFICES ASSUME Init PROVE HandlersTypeOK
      OBVIOUS
    <2>1. events \in [Txs -> 0..MaxEvents] /\ failures \in 0..MaxFailures
      BY DEF Init
    <2>2. props \in Props /\ handler \in [Slots -> HandlerRecords]
      BY EmptyRecords DEF Init
    <2>3. grouped \in BOOLEAN
      BY DEF Init
    <2>4. QED
      BY <2>1, <2>2, <2>3 DEF Init, HandlersTypeOK
  <1>2. HandlersTypeOK /\ [Next]_vars => HandlersTypeOK'
    <2> SUFFICES ASSUME HandlersTypeOK, [Next]_vars PROVE HandlersTypeOK'
      OBVIOUS
    <2> USE DEF HandlersTypeOK
    <2>1. ASSUME NEW t \in Txs, Check(t) \/ DeliverAgain(t) PROVE HandlersTypeOK'
      <3>1. events' \in [Txs -> 0..MaxEvents]
        BY <2>1 DEF Check, DeliverAgain, Emit
      <3>2. failures' \in 0..MaxFailures
        BY <2>1 DEF Check, DeliverAgain
      <3>3. QED
        BY <2>1, <3>1, <3>2 DEF Check, DeliverAgain, book
    <2>2. ASSUME NEW t \in Txs, NEW h \in Slots, handleEvent(h, t) PROVE HandlersTypeOK'
      <3>1. [tx |-> t, pc |-> "query", copy |-> NoProps] \in HandlerRecords
        BY EmptyRecords DEF HandlerRecords, Calls
      <3>2. handler' \in [Slots -> HandlerRecords]
        BY <2>2, <3>1 DEF handleEvent
      <3>3. events' \in [Txs -> 0..MaxEvents]
        BY <2>2 DEF handleEvent
      <3>4. QED
        BY <2>2, <3>2, <3>3 DEF handleEvent, book
    <2>3. ASSUME NEW h \in Slots, processObject(h) PROVE HandlersTypeOK'
      BY <2>3, MoveTypes DEF processObject, book, Calls
    <2>4. ASSUME NEW h \in Slots, GetGoodAccount(h) PROVE HandlersTypeOK'
      <3>1. PICK pc \in Calls, copy \in Props :
               handler' = [handler EXCEPT ![h].pc = pc, ![h].copy = copy]
        BY <2>4, EmptyRecords DEF GetGoodAccount, Calls
      <3>2. handler' \in [Slots -> HandlerRecords]
        BY <3>1 DEF HandlerRecords
      <3>3. accounts' \subseteq {"good", "Buy", "Sell"} /\ grouped' \in BOOLEAN
        BY <2>4 DEF GetGoodAccount
      <3>4. QED
        BY <2>4, <3>2, <3>3 DEF GetGoodAccount
    <2>5. ASSUME NEW h \in Slots, checkInventoryAccount(h) PROVE HandlersTypeOK'
      BY <2>5, MoveTypes DEF checkInventoryAccount, Calls
    <2>6. ASSUME NEW h \in Slots, GetCounterAccount(h) PROVE HandlersTypeOK'
      BY <2>6, MoveTypes DEF GetCounterAccount, CounterAccount, Calls
    <2>7. ASSUME NEW h \in Slots, PostReplica(h) PROVE HandlersTypeOK'
      <3>1. replicas' \in [Txs -> Nat]
        <4>1. replicas' = [t \in Txs |-> IF t = handler[h].tx THEN replicas[t] + 1
                                        ELSE replicas[t]]
          BY <2>7 DEF PostReplica
        <4>2. \A t \in Txs : replicas[t] + 1 \in Nat
          OBVIOUS
        <4>3. QED
          BY <4>1, <4>2
      <3>2. QED
        BY <2>7, <3>1, MoveTypes DEF PostReplica, Calls
    <2>8. ASSUME NEW h \in Slots, checkLastTxDate(h) PROVE HandlersTypeOK'
      <3>1. handler[h].copy \in Props
        BY DEF HandlerRecords
      <3>2. props' \in Props
        BY <2>8, <3>1 DEF checkLastTxDate, Props
      <3>3. QED
        BY <2>8, <3>2, MoveTypes DEF checkLastTxDate
    <2>9. ASSUME NEW h \in Slots, HandlerFails(h) PROVE HandlersTypeOK'
      <3>1. events' \in [Txs -> 0..MaxEvents]
        BY <2>9 DEF HandlerFails, Emit
      <3>2. failures' \in 0..MaxFailures
        BY <2>9 DEF HandlerFails
      <3>3. QED
        BY <2>9, <3>1, <3>2, MoveTypes DEF HandlerFails, book
    <2>10. ASSUME NEW d \in Nat, Calculate(d) PROVE HandlersTypeOK'
      BY <2>10 DEF Calculate, Uncosted, Props
    <2>11. CASE Reset
      BY <2>11 DEF Reset, NoProps, Props
    <2>12. CASE UNCHANGED vars
      BY <2>12 DEF vars
    <2>13. QED
      BY <2>1, <2>2, <2>3, <2>4, <2>5, <2>6, <2>7, <2>8, <2>9, <2>10, <2>11, <2>12
         DEF Next, Deliver, HandlerStep
  <1>3. QED
    BY <1>1, <1>2, PTL DEF Spec
------------------------------------------------------------------------------
(* One handler at a time for each transaction *)

\* Only handleEvent gives a handler a transaction, and only one that no other
\* handler has.
LEMMA HandlersApart ==
    ASSUME OneAtATime, HandlersTypeOK, Apart, [Next]_vars
    PROVE  Apart'
  <1>t. handler \in [Slots -> HandlerRecords] /\ \A h \in Slots : handler[h] \in HandlerRecords
    BY DEF HandlersTypeOK
  <1>1. ASSUME NEW t \in Txs, NEW h \in Slots, handleEvent(h, t)
        PROVE  Apart'
    <2>1. /\ \A g \in Slots : handler[g].tx # t
          /\ \A g \in Slots : g # h => handler'[g] = handler[g]
          /\ handler'[h].tx = t
      BY <1>1, <1>t DEF handleEvent, MayHandle
    <2>2. QED
      BY <2>1 DEF Apart
  <1>2. ASSUME \A h \in Slots : handler'[h].tx \in {handler[h].tx, NoTx}
        PROVE  Apart'
    BY <1>2, TxAssumption DEF Apart
  <1>3. ASSUME NEW h \in Slots, HandlerStep(h) \/ HandlerFails(h)
        PROVE  Apart'
    <2>1. \A g \in Slots : g # h => handler'[g] = handler[g]
      BY <1>3, <1>t DEF HandlerStep, HandlerFails, processObject, GetGoodAccount,
            checkInventoryAccount, GetCounterAccount, PostReplica, checkLastTxDate, Goto, Return
    <2>2. CASE GetGoodAccount(h)
      <3>1. handler'[h].tx = handler[h].tx
        BY <2>2, <1>t DEF GetGoodAccount, HandlerRecords
      <3>2. QED
        BY <1>2, <2>1, <3>1
    <2>3. ASSUME NEW pc, Goto(h, pc) PROVE Apart'
      <3>1. handler'[h].tx = handler[h].tx
        BY <2>3, <1>t DEF Goto, HandlerRecords
      <3>2. QED
        BY <1>2, <2>1, <3>1
    <2>4. CASE Return(h)
      <3>1. handler'[h].tx = NoTx
        BY <2>4, <1>t DEF Return, NoHandler
      <3>2. QED
        BY <1>2, <2>1, <3>1
    <2>5. QED
      BY <1>3, <2>2, <2>3, <2>4 DEF HandlerStep, HandlerFails, processObject,
            checkInventoryAccount, GetCounterAccount, PostReplica, checkLastTxDate
  <1>4. CASE UNCHANGED handler
    BY <1>2, <1>4
  <1>5. QED
    BY <1>1, <1>3, <1>4 DEF Next, Check, DeliverAgain, Deliver, Calculate, Reset, vars

\* A step that posts nothing, and after which every handler is where it was, or
\* idle, or asks for a transaction that has been checked, or has moved on.
LEMMA NothingPosted ==
    ASSUME HandlersTypeOK, HandlerInv, AtMostOnce, UNCHANGED replicas, asked \subseteq asked',
           \A t \in Txs : events'[t] > 0 => t \in asked',
           \A h \in Slots : \/ handler'[h].pc = "none"
                            \/ handler'[h].pc = "query" /\ handler'[h].tx \in asked'
                            \/ /\ handler'[h].tx = handler[h].tx /\ handler[h].pc # "none"
                               /\ \/ handler'[h].pc \in {handler[h].pc, "flag"}
                                  \/ handler[h].pc \in {"account", "align", "counter", "post"}
                                  \/ handler[h].tx \in Replicable /\ replicas[handler[h].tx] = 0
    PROVE  HandlerInv' /\ AtMostOnce'
  BY DEF HandlerInv, AtMostOnce, Replicable, KindOf, matchGoodExchange

LEMMA HandlerStepInv ==
    ASSUME Apart, HandlersTypeOK, HandlerInv, AtMostOnce, [Next]_vars
    PROVE  HandlerInv' /\ AtMostOnce'
  <1>t. /\ handler \in [Slots -> HandlerRecords] /\ events \in [Txs -> 0..MaxEvents]
        /\ replicas \in [Txs -> Nat] /\ asked \subseteq Txs
        /\ \A h \in Slots : handler[h] \in HandlerRecords
    BY DEF HandlersTypeOK
  <1>1. ASSUME NEW t \in Txs, Check(t) \/ DeliverAgain(t)
        PROVE  HandlerInv' /\ AtMostOnce'
    <2>1. /\ asked \subseteq asked' /\ UNCHANGED <<replicas, handler>>
          /\ t \in asked' /\ \A r \in Txs : r # t => events'[r] = events[r]
      BY <1>1, <1>t DEF Check, DeliverAgain, Emit, book
    <2>2. \A r \in Txs : events'[r] > 0 => r \in asked'
      BY <2>1 DEF HandlerInv
    <2>3. QED
      BY <2>1, <2>2, NothingPosted DEF HandlerInv
  <1>2. ASSUME NEW t \in Txs, NEW h \in Slots, handleEvent(h, t)
        PROVE  HandlerInv' /\ AtMostOnce'
    <2>1. /\ UNCHANGED <<replicas, asked>> /\ t \in asked
          /\ \A r \in Txs : r # t => events'[r] = events[r]
          /\ \A g \in Slots : g # h => handler'[g] = handler[g]
          /\ handler'[h].pc = "query" /\ handler'[h].tx = t
      BY <1>2, <1>t DEF handleEvent, book, HandlerInv
    <2>2. \A r \in Txs : events'[r] > 0 => r \in asked'
      BY <2>1 DEF HandlerInv
    <2>3. QED
      BY <2>1, <2>2, NothingPosted DEF HandlerInv
  <1>3. ASSUME NEW h \in Slots, processObject(h)
        PROVE  HandlerInv' /\ AtMostOnce'
    <2>1. /\ UNCHANGED <<replicas, asked, events>> /\ handler[h].pc = "query"
          /\ \A g \in Slots : g # h => handler'[g] = handler[g]
      BY <1>3, <1>t DEF processObject, book, At, Goto, Return
    <2>2. \/ handler'[h].pc = "none"
          \/ /\ handler'[h].tx = handler[h].tx
             /\ handler[h].tx \in Replicable /\ ~(replicas[handler[h].tx] > 0)
      BY <1>3, <1>t DEF processObject, Goto, Return, NoHandler, Found, HandlerRecords
    <2>3. \A r \in Replicable : ~(replicas[r] > 0) => replicas[r] = 0
      BY <1>t DEF Replicable
    <2>4. QED
      BY <2>1, <2>2, <2>3, NothingPosted DEF HandlerInv
  <1>4. ASSUME NEW h \in Slots,
               GetGoodAccount(h) \/ checkInventoryAccount(h) \/ GetCounterAccount(h)
        PROVE  HandlerInv' /\ AtMostOnce'
    <2>1. /\ UNCHANGED <<replicas, asked, events>>
          /\ handler[h].pc \in {"account", "align", "counter"}
          /\ \A g \in Slots : g # h => handler'[g] = handler[g]
          /\ handler'[h].tx = handler[h].tx
      BY <1>4, <1>t DEF GetGoodAccount, checkInventoryAccount, GetCounterAccount, At, Goto,
                        HandlerRecords
    <2>2. QED
      BY <2>1, NothingPosted DEF HandlerInv
  <1>5. ASSUME NEW h \in Slots, PostReplica(h)
        PROVE  HandlerInv' /\ AtMostOnce'
    <2>1. /\ UNCHANGED <<asked, events>> /\ handler[h].pc = "post"
          /\ handler'[h].pc = "flag" /\ handler'[h].tx = handler[h].tx
      BY <1>5, <1>t DEF PostReplica, At, Goto, HandlerRecords
    <2>2. handler[h].tx \in Txs /\ replicas[handler[h].tx] = 0
      BY <2>1 DEF HandlerInv, Replicable
    <2>3. replicas' = [replicas EXCEPT ![handler[h].tx] = 1]
      BY <1>5, <1>t, <2>2 DEF PostReplica
    <2>4. AtMostOnce'
      BY <1>t, <2>3 DEF AtMostOnce
    <2>5. /\ \A g \in Slots : g # h => handler'[g] = handler[g]
          /\ \A g \in Slots : g # h => handler[g].tx # handler[h].tx
          /\ \A r \in Txs : r # handler[h].tx => replicas'[r] = replicas[r]
      BY <1>5, <1>t, <2>2, <2>3 DEF PostReplica, Goto, Apart
    <2>6. HandlerInv'
      <3>1. ASSUME NEW g \in Slots, handler'[g].pc \in {"account", "align", "counter", "post"}
            PROVE  handler'[g].tx \in Replicable /\ replicas'[handler'[g].tx] = 0
        <4>1. g # h /\ handler'[g] = handler[g]
          BY <2>1, <2>5, <3>1
        <4>2. handler[g].tx \in Replicable /\ replicas[handler[g].tx] = 0
          BY <3>1, <4>1 DEF HandlerInv
        <4>3. QED
          BY <4>1, <4>2, <2>5 DEF Replicable
      <3>2. \A g \in Slots : handler'[g].pc # "none" => handler'[g].tx \in asked'
        BY <2>1, <2>5 DEF HandlerInv
      <3>3. QED
        BY <2>1, <3>1, <3>2 DEF HandlerInv, Replicable, KindOf, matchGoodExchange
    <2>7. QED
      BY <2>4, <2>6
  <1>6. ASSUME NEW h \in Slots, checkLastTxDate(h) \/ HandlerFails(h)
        PROVE  HandlerInv' /\ AtMostOnce'
    <2>1. /\ UNCHANGED <<replicas, asked>> /\ handler[h].pc # "none"
          /\ \A g \in Slots : g # h => handler'[g] = handler[g]
          /\ handler'[h].pc = "none"
      BY <1>6, <1>t DEF checkLastTxDate, HandlerFails, At, Return, NoHandler, book
    <2>2. handler[h].tx \in asked
      BY <2>1 DEF HandlerInv
    <2>3. \A r \in Txs : r # handler[h].tx => events'[r] = events[r]
      BY <1>6, <1>t DEF checkLastTxDate, HandlerFails, Emit
    <2>4. \A r \in Txs : events'[r] > 0 => r \in asked'
      BY <2>1, <2>2, <2>3 DEF HandlerInv
    <2>5. QED
      BY <2>1, <2>4, NothingPosted DEF HandlerInv
  <1>7. ASSUME NEW d \in Nat, Calculate(d) \/ Reset
        PROVE  HandlerInv' /\ AtMostOnce'
    BY <1>7 DEF Calculate, Reset, HandlerInv, AtMostOnce
  <1>8. CASE UNCHANGED vars
    BY <1>8 DEF vars, HandlerInv, AtMostOnce
  <1>9. QED
    BY <1>1, <1>2, <1>3, <1>4, <1>5, <1>6, <1>7, <1>8, TxAssumption
       DEF Next, Deliver, HandlerStep

LEMMA ReplicaInvariant ==
    ASSUME OneAtATime
    PROVE  Spec => [](HandlerInv /\ AtMostOnce)
  <1>1. Init => Apart /\ (HandlerInv /\ AtMostOnce)
    BY TxAssumption DEF Init, Apart, HandlerInv, AtMostOnce, NoHandler
  <1>2. HandlersTypeOK /\ (Apart /\ (HandlerInv /\ AtMostOnce)) /\ [Next]_vars
          => (Apart /\ (HandlerInv /\ AtMostOnce))'
    BY HandlerStepInv, HandlersApart
  <1>3. QED
    BY <1>1, <1>2, HandlersTypeCorrect, PTL DEF Spec

\* When the events of a transaction are handled one after the other, none is ever
\* replicated twice, however often it is checked, its event delivered and its
\* handler dying half-way, and whatever other handlers are at work.
THEOREM ReplicatedAtMostOnce ==
    ASSUME OneAtATime
    PROVE  Spec => []AtMostOnce
  BY ReplicaInvariant, PTL

\* Under the same assumption the handlers implement the promise:
\* only PostReplica is a step of Replication, of a checked transaction about
\* goods that has no replica.
THEOREM ReplicationPromise ==
    ASSUME OneAtATime
    PROVE  Spec => RefinesPromise
  <1>1. Init => Promised!PromiseInit
    BY DEF Init, Promised!PromiseInit
  <1>2. HandlersTypeOK /\ (HandlerInv /\ AtMostOnce) /\ [Next]_vars
          => [Promised!PromiseNext]_(Promised!PromiseVars)
    <2> SUFFICES ASSUME HandlersTypeOK, HandlerInv, [Next]_vars
                 PROVE  [Promised!PromiseNext]_(Promised!PromiseVars)
      OBVIOUS
    <2>1. ASSUME NEW t \in Txs, Check(t)
          PROVE  Promised!PromiseNext
      BY <2>1 DEF Check, Promised!Ask, Promised!PromiseNext, book
    <2>2. ASSUME NEW h \in Slots, PostReplica(h)
          PROVE  Promised!PromiseNext
      <3>1. handler[h].pc = "post"
        BY <2>2 DEF PostReplica, At
      <3>2. /\ handler[h].tx \in Replicable /\ handler[h].tx \in asked
            /\ replicas[handler[h].tx] = 0
        BY <3>1 DEF HandlerInv
      <3>3. handler[h].tx \in Txs /\ replicas \in [Txs -> Nat]
        BY <3>2 DEF Replicable, HandlersTypeOK
      <3>4. replicas' = [replicas EXCEPT ![handler[h].tx] = 1] /\ UNCHANGED asked
        BY <2>2, <3>2, <3>3 DEF PostReplica
      <3>5. Promised!Replicate(handler[h].tx)
        BY <3>2, <3>4 DEF Promised!Replicate
      <3>6. QED
        BY <3>3, <3>5 DEF Promised!PromiseNext
    <2>3. ASSUME NEW t \in Txs, DeliverAgain(t) \/ Deliver(t)
          PROVE  UNCHANGED <<asked, replicas>>
      BY <2>3 DEF DeliverAgain, Deliver, handleEvent, book
    <2>4. ASSUME NEW h \in Slots,
                 \/ processObject(h) \/ GetGoodAccount(h) \/ checkInventoryAccount(h)
                 \/ GetCounterAccount(h) \/ checkLastTxDate(h) \/ HandlerFails(h)
          PROVE  UNCHANGED <<asked, replicas>>
      BY <2>4 DEF HandlerFails, processObject, GetGoodAccount,
                  checkInventoryAccount, GetCounterAccount, checkLastTxDate, book
    <2>5. ASSUME NEW t \in Txs, Calculate(DateOf[t])
          PROVE  UNCHANGED <<asked, replicas>>
      BY <2>5 DEF Calculate
    <2>6. CASE Reset
      BY <2>6 DEF Reset, Promised!PromiseVars
    <2>7. CASE UNCHANGED vars
      BY <2>7 DEF vars, Promised!PromiseVars
    <2>8. CASE \E t \in Txs : Check(t) \/ DeliverAgain(t) \/ Deliver(t)
      BY <2>8, <2>1, <2>3 DEF Promised!PromiseVars
    <2>9. CASE \E h \in Slots : HandlerStep(h) \/ HandlerFails(h)
      BY <2>9, <2>2, <2>4 DEF Promised!PromiseVars, HandlerStep
    <2>10. CASE \E t \in Txs : Calculate(DateOf[t])
      BY <2>10, <2>5 DEF Promised!PromiseVars
    <2>11. QED
      BY <2>6, <2>7, <2>8, <2>9, <2>10 DEF Next
  <1>3. QED
    BY <1>1, <1>2, HandlersTypeCorrect, ReplicaInvariant, PTL
       DEF Spec, RefinesPromise, Promised!Promise
------------------------------------------------------------------------------
(* The good account, with any number of handlers at work *)

Past == {"align", "counter", "post", "flag"}

\* An account that does not exist has no groups and no properties. A handler past
\* GetGoodAccount has an account, and one of a purchase that goes on to Buy has seen
\* to its groups.
AccountInv ==
    /\ "good" \notin accounts => ~grouped /\ props = NoProps
    /\ \A h \in Slots : handler[h].pc \in Past => "good" \in accounts
    /\ \A h \in Slots : handler[h].pc \in Past \ {"align"} /\ KindOf(handler[h].tx) = "purchase"
                          => grouped
    /\ PurchaseHasBook

\* A step that posts nothing and takes neither the account nor its groups away.
LEMMA AccountKept ==
    ASSUME AccountInv, UNCHANGED replicas, accounts \subseteq accounts',
           grouped => grouped',
           "good" \notin accounts' => ~grouped' /\ props' = NoProps,
           \A h \in Slots : \/ handler'[h].pc \notin Past
                            \/ handler'[h].tx = handler[h].tx /\ handler'[h].pc = handler[h].pc
                            \/ /\ "good" \in accounts'
                               /\ handler'[h].pc # "align"
                                     /\ KindOf(handler'[h].tx) = "purchase" => grouped'
    PROVE  AccountInv'
  BY DEF AccountInv, PurchaseHasBook, KindOf

LEMMA AccountStepInv ==
    ASSUME HandlersTypeOK, AccountInv, [Next]_vars
    PROVE  AccountInv'
  <1>t. /\ handler \in [Slots -> HandlerRecords] /\ replicas \in [Txs -> Nat]
        /\ \A h \in Slots : handler[h] \in HandlerRecords
        /\ grouped \in BOOLEAN
    BY DEF HandlersTypeOK
  <1>1. ASSUME NEW t \in Txs, Check(t) \/ DeliverAgain(t)
        PROVE  AccountInv'
    <2>1. UNCHANGED <<book, handler>>
      BY <1>1 DEF Check, DeliverAgain
    <2>2. QED
      BY <2>1, AccountKept DEF book, AccountInv
  <1>2. ASSUME NEW t \in Txs, NEW h \in Slots, handleEvent(h, t)
        PROVE  AccountInv'
    <2>1. /\ UNCHANGED book /\ handler'[h].pc = "query"
          /\ \A g \in Slots : g # h => handler'[g] = handler[g]
      BY <1>2, <1>t DEF handleEvent
    <2>2. QED
      BY <2>1, AccountKept DEF book, AccountInv, Past
  <1>3. ASSUME NEW h \in Slots, processObject(h) \/ HandlerFails(h)
        PROVE  AccountInv'
    <2>1. /\ UNCHANGED book /\ handler'[h].pc \in {"account", "none"}
          /\ \A g \in Slots : g # h => handler'[g] = handler[g]
      BY <1>3, <1>t DEF processObject, HandlerFails, Goto, Return, NoHandler, HandlerRecords
    <2>2. QED
      BY <2>1, AccountKept DEF book, AccountInv, Past
  <1>4. ASSUME NEW h \in Slots, GetGoodAccount(h)
        PROVE  AccountInv'
    <2>1. /\ UNCHANGED <<replicas, props>> /\ accounts' = accounts \cup {"good"}
          /\ \A g \in Slots : g # h => handler'[g] = handler[g]
          /\ handler'[h].tx = handler[h].tx
      BY <1>4, <1>t DEF GetGoodAccount, HandlerRecords
    <2>2. grouped' = (grouped \/ ("good" \notin accounts /\ KindOf(handler[h].tx) # "sale"))
      BY <1>4 DEF GetGoodAccount
    <2>3. handler'[h].pc = IF "good" \in accounts /\ KindOf(handler[h].tx) = "purchase"
                           THEN "align" ELSE "counter"
      BY <1>4, <1>t DEF GetGoodAccount, HandlerRecords
    <2>4. handler'[h].pc # "align" /\ KindOf(handler'[h].tx) = "purchase" => grouped'
      BY <2>1, <2>2, <2>3
    <2>5. QED
      BY <2>1, <2>2, <2>4, AccountKept
  <1>5. ASSUME NEW h \in Slots, checkInventoryAccount(h)
        PROVE  AccountInv'
    <2>1. /\ UNCHANGED <<replicas, accounts, props>> /\ grouped'
          /\ \A g \in Slots : g # h => handler'[g] = handler[g]
          /\ "good" \in accounts
      BY <1>5, <1>t DEF checkInventoryAccount, Goto, At, AccountInv, Past
    <2>2. QED
      BY <2>1, AccountKept
  <1>6. ASSUME NEW h \in Slots, GetCounterAccount(h)
        PROVE  AccountInv'
    <2>1. /\ UNCHANGED <<replicas, grouped, props>> /\ accounts \subseteq accounts'
          /\ \A g \in Slots : g # h => handler'[g] = handler[g]
          /\ handler[h].pc = "counter" /\ handler'[h].tx = handler[h].tx
      BY <1>6, <1>t DEF GetCounterAccount, Goto, At, HandlerRecords
    <2>2. /\ "good" \in accounts'
          /\ KindOf(handler'[h].tx) = "purchase" => grouped'
      BY <2>1 DEF AccountInv, Past
    <2>3. QED
      BY <2>1, <2>2, AccountKept
  <1>7. ASSUME NEW h \in Slots, PostReplica(h)
        PROVE  AccountInv'
    <2>1. /\ UNCHANGED <<accounts, grouped, props>>
          /\ \A g \in Slots : g # h => handler'[g] = handler[g]
          /\ handler[h].pc = "post" /\ handler'[h].pc = "flag"
          /\ handler'[h].tx = handler[h].tx
      BY <1>7, <1>t DEF PostReplica, Goto, At, HandlerRecords
    <2>2. \A r \in Txs : r # handler[h].tx => replicas'[r] = replicas[r]
      BY <1>7, <1>t DEF PostReplica
    <2>3. KindOf(handler[h].tx) = "purchase" => grouped
      BY <2>1 DEF AccountInv, Past
    <2>4. PurchaseHasBook'
      BY <2>1, <2>2, <2>3 DEF AccountInv, PurchaseHasBook, KindOf
    <2>5. QED
      BY <2>1, <2>4 DEF AccountInv, Past, KindOf
  <1>8. ASSUME NEW h \in Slots, checkLastTxDate(h)
        PROVE  AccountInv'
    <2>1. /\ UNCHANGED <<replicas, accounts, grouped>> /\ handler'[h].pc = "none"
          /\ \A g \in Slots : g # h => handler'[g] = handler[g]
          /\ "good" \in accounts
      BY <1>8, <1>t DEF checkLastTxDate, Return, NoHandler, At, AccountInv, Past
    <2>2. QED
      BY <2>1, AccountKept DEF Past
  <1>9. ASSUME NEW d \in Nat, Calculate(d) \/ Reset
        PROVE  AccountInv'
    <2>1. UNCHANGED <<replicas, accounts, grouped, handler>> /\ grouped
      BY <1>9 DEF Calculate, Reset
    <2>2. QED
      BY <2>1, AccountKept DEF AccountInv
  <1>10. CASE UNCHANGED vars
    BY <1>10, AccountKept DEF vars, AccountInv
  <1>11. QED
    BY <1>1, <1>2, <1>3, <1>4, <1>5, <1>6, <1>7, <1>8, <1>9, <1>10, TxAssumption
       DEF Next, Deliver, HandlerStep

LEMMA AccountInvariant == Spec => []AccountInv
  <1>1. Init => AccountInv
    BY DEF Init, AccountInv, PurchaseHasBook, NoHandler, Past
  <1>2. HandlersTypeOK /\ AccountInv /\ [Next]_vars => AccountInv'
    BY AccountStepInv
  <1>3. QED
    BY <1>1, <1>2, HandlersTypeCorrect, PTL DEF Spec

\* A purchase that has been replicated has a good account whose groups lead to the
\* Financial Book, whichever handler created the account, and whenever.
THEOREM PurchasesHaveBook == Spec => []PurchaseHasBook
  <1>1. AccountInv => PurchaseHasBook
    BY DEF AccountInv
  <1>2. QED
    BY <1>1, AccountInvariant, PTL

\* What a handler has read is never behind what is stored, unless the account has
\* been flagged meanwhile: calculations wait for it, resets go back. And while no
\* handler has died, an uncosted sale on or before the calculation date of an
\* account that is not flagged has a handler that is about to flag it.
CopyInv ==
    /\ \A h \in Slots : handler[h].pc \in Past /\ ~props.needsRebuild =>
          props.calcDate <= handler[h].copy.calcDate
    /\ failures = 0 /\ ~props.needsRebuild =>
          \A t \in Uncosted : DateOf[t] <= props.calcDate =>
             \E h \in Slots : handler[h].pc = "flag" /\ handler[h].tx = t

\* A step that neither posts nor costs nor writes the properties, of handlers of
\* which none ends after it has posted.
LEMMA CopyKept ==
    ASSUME HandlersTypeOK, CopyInv, UNCHANGED <<replicas, props, costed>>,
           failures' = 0 => failures = 0,
           \A h \in Slots : \/ handler'[h].pc \notin Past
                            \/ handler[h].pc \in Past /\ handler'[h].copy = handler[h].copy
                            \/ props.calcDate <= handler'[h].copy.calcDate,
           failures' = 0 => \A h \in Slots : handler[h].pc = "flag" =>
                               handler'[h].pc = "flag" /\ handler'[h].tx = handler[h].tx
    PROVE  CopyInv'
  <1>1. Uncosted' = Uncosted
    BY DEF Uncosted, KindOf
  <1>2. QED
    BY <1>1 DEF CopyInv

LEMMA CopyStepInv ==
    ASSUME QuietRuns, HandlersTypeOK, AccountInv, CopyInv, [Next]_vars
    PROVE  CopyInv'
  <1>t. /\ handler \in [Slots -> HandlerRecords] /\ replicas \in [Txs -> Nat]
        /\ \A h \in Slots : handler[h] \in HandlerRecords
        /\ props \in Props /\ failures \in Nat /\ MaxFailures \in Nat
    BY HandlerAssumption DEF HandlersTypeOK
  <1>1. ASSUME NEW t \in Txs, Check(t) \/ DeliverAgain(t)
        PROVE  CopyInv'
    <2>1. UNCHANGED <<replicas, props, costed, handler>> /\ (failures' = 0 => failures = 0)
      BY <1>1, <1>t DEF Check, DeliverAgain, book
    <2>2. QED
      BY <2>1, CopyKept
  <1>2. ASSUME NEW t \in Txs, NEW h \in Slots, handleEvent(h, t)
        PROVE  CopyInv'
    <2>1. /\ UNCHANGED <<replicas, props, costed, failures>> /\ handler'[h].pc = "query"
          /\ \A g \in Slots : g # h => handler'[g] = handler[g]
          /\ handler[h].pc = "none"
      BY <1>2, <1>t DEF handleEvent, Free, book
    <2>2. QED
      BY <2>1, CopyKept DEF Past
  <1>3. ASSUME NEW h \in Slots, processObject(h)
        PROVE  CopyInv'
    <2>1. /\ UNCHANGED <<replicas, props, costed, failures>>
          /\ handler'[h].pc \in {"account", "none"}
          /\ \A g \in Slots : g # h => handler'[g] = handler[g]
          /\ handler[h].pc = "query"
      BY <1>3, <1>t DEF processObject, Goto, Return, NoHandler, HandlerRecords, book, At
    <2>2. QED
      BY <2>1, CopyKept DEF Past
  <1>4. ASSUME NEW h \in Slots, GetGoodAccount(h)
        PROVE  CopyInv'
    <2>1. /\ UNCHANGED <<replicas, props, costed, failures>>
          /\ \A g \in Slots : g # h => handler'[g] = handler[g]
          /\ handler[h].pc = "account"
          /\ handler'[h].copy = IF "good" \in accounts THEN props ELSE NoProps
      BY <1>4, <1>t DEF GetGoodAccount, HandlerRecords, At
    <2>2. handler'[h].copy = props
      BY <2>1 DEF AccountInv
    <2>3. props.calcDate <= handler'[h].copy.calcDate
      BY <2>2, <1>t DEF Props
    <2>4. QED
      BY <2>1, <2>3, CopyKept DEF Past
  <1>5. ASSUME NEW h \in Slots, checkInventoryAccount(h) \/ GetCounterAccount(h)
        PROVE  CopyInv'
    <2>1. /\ UNCHANGED <<replicas, props, costed, failures>>
          /\ \A g \in Slots : g # h => handler'[g] = handler[g]
          /\ handler[h].pc \in {"align", "counter"} /\ handler'[h].copy = handler[h].copy
      BY <1>5, <1>t DEF checkInventoryAccount, GetCounterAccount, Goto, At, HandlerRecords
    <2>2. QED
      BY <2>1, CopyKept DEF Past
  <1>6. ASSUME NEW h \in Slots, PostReplica(h)
        PROVE  CopyInv'
    <2>1. /\ UNCHANGED <<props, costed, failures>>
          /\ \A g \in Slots : g # h => handler'[g] = handler[g]
          /\ handler[h].pc = "post" /\ handler'[h].pc = "flag"
          /\ handler'[h].tx = handler[h].tx /\ handler'[h].copy = handler[h].copy
          /\ \A r \in Txs : r # handler[h].tx => replicas'[r] = replicas[r]
      BY <1>6, <1>t DEF PostReplica, Goto, At, HandlerRecords
    <2>2. Uncosted' \subseteq Uncosted \cup {handler[h].tx}
      BY <2>1 DEF Uncosted, KindOf
    <2>3. \A g \in Slots : handler'[g].pc \in Past =>
             handler[g].pc \in Past /\ handler'[g].copy = handler[g].copy
      BY <2>1 DEF Past
    <2>4. \A t \in Uncosted' :
             (\E g \in Slots : handler[g].pc = "flag" /\ handler[g].tx = t) \/ t = handler[h].tx =>
                \E g \in Slots : handler'[g].pc = "flag" /\ handler'[g].tx = t
      BY <2>1
    <2>5. QED
      BY <2>1, <2>2, <2>3, <2>4 DEF CopyInv
  <1>7. ASSUME NEW h \in Slots, checkLastTxDate(h)
        PROVE  CopyInv'
    <2>1. /\ UNCHANGED <<replicas, costed, failures>> /\ handler'[h].pc = "none"
          /\ \A g \in Slots : g # h => handler'[g] = handler[g]
          /\ handler[h].pc = "flag" /\ handler[h].tx \in Txs \cup {NoTx}
      BY <1>7, <1>t DEF checkLastTxDate, Return, NoHandler, At, HandlerRecords
    <2>2. CASE props'.needsRebuild
      BY <2>2 DEF CopyInv
    <2>3. CASE ~props'.needsRebuild
      <3>1. /\ UNCHANGED props
            /\ ~(handler[h].copy.calcDate # 0 /\ DateOf[handler[h].tx] <= handler[h].copy.calcDate)
        BY <1>7, <2>3 DEF checkLastTxDate
      <3>2. Uncosted' = Uncosted
        BY <2>1 DEF Uncosted, KindOf
      <3>3. /\ props.calcDate <= handler[h].copy.calcDate
            /\ props.calcDate \in Nat /\ handler[h].copy.calcDate \in Nat
        BY <1>t, <2>1, <2>3, <3>1 DEF CopyInv, Past, HandlerRecords, Props
      <3>4. ASSUME handler[h].tx \in Txs, DateOf[handler[h].tx] <= props.calcDate
            PROVE  FALSE
        <4>1. DateOf[handler[h].tx] \in Nat \ {0}
          BY <3>4, TxAssumption
        <4>2. QED
          BY <3>1, <3>3, <3>4, <4>1
      <3>5. \A g \in Slots : handler'[g].pc \in Past => handler'[g] = handler[g]
        BY <2>1 DEF Past
      <3>6. ASSUME failures = 0, NEW t \in Uncosted, DateOf[t] <= props.calcDate
            PROVE  \E g \in Slots : handler'[g].pc = "flag" /\ handler'[g].tx = t
        <4>1. PICK g \in Slots : handler[g].pc = "flag" /\ handler[g].tx = t
          BY <2>3, <3>1, <3>6 DEF CopyInv
        <4>2. g # h
          BY <3>4, <3>6, <4>1 DEF Uncosted
        <4>3. QED
          BY <2>1, <4>1, <4>2
      <3>7. QED
        BY <2>1, <3>1, <3>2, <3>5, <3>6 DEF CopyInv
    <2>4. QED
      BY <2>2, <2>3
  <1>8. ASSUME NEW h \in Slots, HandlerFails(h)
        PROVE  CopyInv'
    <2>1. /\ UNCHANGED <<replicas, props, costed>> /\ failures' # 0
          /\ handler'[h].pc = "none"
          /\ \A g \in Slots : g # h => handler'[g] = handler[g]
      BY <1>8, <1>t DEF HandlerFails, Return, NoHandler, book
    <2>2. \A g \in Slots : handler'[g].pc \in Past => handler'[g] = handler[g]
      BY <2>1 DEF Past
    <2>3. QED
      BY <2>1, <2>2 DEF CopyInv
  <1>9. ASSUME NEW d \in Nat, Calculate(d)
        PROVE  CopyInv'
    <2> DEFINE S == {t \in Uncosted : DateOf[t] <= d}
    <2>1. PICK last \in S : /\ costed' = costed \cup S
                            /\ props' = IF DateOf[last] > props.calcDate
                                        THEN [props EXCEPT !.calcDate = DateOf[last]] ELSE props
      BY <1>9 DEF Calculate
    <2>2. UNCHANGED <<replicas, handler, failures>> /\ \A h \in Slots : handler[h].pc = "none"
      BY <1>9 DEF Calculate, Free
    <2>3. Uncosted' \subseteq {t \in Uncosted : ~(DateOf[t] <= d)}
      BY <2>1, <2>2 DEF Uncosted, KindOf
    <2>4. DateOf[last] <= d /\ DateOf[last] \in Nat
      BY TxAssumption DEF Uncosted
    <2>5. /\ props'.calcDate = props.calcDate \/ props'.calcDate = DateOf[last]
          /\ props'.needsRebuild = props.needsRebuild
      BY <2>1, <1>t DEF Props
    <2>6. ASSUME failures = 0, ~props.needsRebuild, NEW t \in Uncosted'
          PROVE  ~(DateOf[t] <= props'.calcDate)
      <3>1. t \in Uncosted /\ ~(DateOf[t] <= d) /\ DateOf[t] \in Nat
        BY <2>3, <2>6, TxAssumption DEF Uncosted
      <3>2. ~(DateOf[t] <= props.calcDate)
        BY <2>2, <2>6, <3>1 DEF CopyInv
      <3>3. QED
        BY <2>4, <2>5, <3>1, <3>2
    <2>7. QED
      BY <2>2, <2>5, <2>6 DEF CopyInv, Past
  <1>10. CASE Reset
    <2>1. props' = NoProps /\ UNCHANGED <<handler, failures>>
      BY <1>10 DEF Reset
    <2>2. \A h \in Slots : handler[h].copy.calcDate \in Nat
      BY <1>t DEF HandlerRecords, Props
    <2>3. \A t \in Uncosted' : ~(DateOf[t] <= 0)
      BY TxAssumption DEF Uncosted
    <2>4. QED
      BY <2>1, <2>2, <2>3 DEF CopyInv, NoProps
  <1>11. CASE UNCHANGED vars
    BY <1>11, CopyKept DEF vars
  <1>12. QED
    BY <1>1, <1>2, <1>3, <1>4, <1>5, <1>6, <1>7, <1>8, <1>9, <1>10, <1>11, TxAssumption
       DEF Next, Deliver, HandlerStep

\* When calculations wait for the handlers at work, and none of them dies, no late
\* sale goes unnoticed: with any number of handlers, and resets at any time, an
\* uncosted sale on or before the calculation date has flagged the account once its
\* handler has answered.
THEOREM LateSalesFlagged ==
    ASSUME QuietRuns
    PROVE  Spec => []BackdatedFlagged
  <1>1. Init => CopyInv
    BY DEF Init, CopyInv, NoHandler, Past, Uncosted
  <1>2. HandlersTypeOK /\ AccountInv /\ CopyInv /\ [Next]_vars => CopyInv'
    BY CopyStepInv
  <1>3. HandlersTypeOK /\ CopyInv => BackdatedFlagged
    <2> SUFFICES ASSUME HandlersTypeOK, CopyInv, Free = Slots, failures = 0,
                        ~props.needsRebuild, NEW t \in Uncosted
                 PROVE  DateOf[t] > props.calcDate
      BY DEF BackdatedFlagged
    <2>1. ~(DateOf[t] <= props.calcDate)
      BY DEF CopyInv, Free
    <2>2. DateOf[t] \in Nat /\ props.calcDate \in Nat
      BY TxAssumption DEF Uncosted, HandlersTypeOK, Props
    <2>3. QED
      BY <2>1, <2>2
  <1>4. QED
    BY <1>1, <1>2, <1>3, HandlersTypeCorrect, AccountInvariant, PTL DEF Spec

\* A handler that writes the account through the copy it read before the other calls
\* never takes the rebuild flag away, nor puts an old calculation date back without it,
\* also when calculations do not wait.
THEOREM StaleCopies == Spec => StaleCopyHarmless
  <1> DEFINE Harmless ==
         /\ props.needsRebuild /\ ~props'.needsRebuild => costed' = {}
         /\ props'.calcDate # props.calcDate =>
               props'.needsRebuild \/ costed' # costed \/ props' = NoProps
  <1>1. HandlersTypeOK /\ [Next]_vars => [Harmless]_vars
    <2> SUFFICES ASSUME HandlersTypeOK, [Next]_vars PROVE Harmless
      OBVIOUS
    <2>1. CASE UNCHANGED props
      BY <2>1
    <2>2. ASSUME NEW h \in Slots, checkLastTxDate(h) PROVE Harmless
      <3>1. UNCHANGED props \/ props'.needsRebuild
        BY <2>2 DEF checkLastTxDate
      <3>2. QED
        BY <3>1
    <2>3. ASSUME NEW t \in Txs, Calculate(DateOf[t]) PROVE Harmless
      <3>1. PICK last \in Uncosted : last \in costed'
        BY <2>3 DEF Calculate
      <3>2. costed' # costed /\ ~props.needsRebuild
        BY <2>3, <3>1 DEF Uncosted, Calculate
      <3>3. QED
        BY <3>2
    <2>4. CASE Reset
      BY <2>4 DEF Reset
    <2>5. QED
      BY <2>1, <2>2, <2>3, <2>4 DEF Next, vars, book, Check, DeliverAgain, Deliver, handleEvent,
         HandlerStep, HandlerFails, processObject, GetGoodAccount, checkInventoryAccount,
         GetCounterAccount, PostReplica
  <1>2. QED
    BY <1>1, HandlersTypeCorrect, PTL DEF Spec, StaleCopyHarmless
==============================================================================
