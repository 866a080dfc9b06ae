-------------------------- MODULE ScriptRunsProofs --------------------------
(***************************************************************************)
(* Proofs about the runs of any number of users that overlap or die: a     *)
(* reset that runs alone puts the Inventory Book right, no unit is lost    *)
(* unless a calculation and a reset overlap, and from a lone reset on the  *)
(* books are sound for as long as runs neither overlap nor die.            *)
(***************************************************************************)
EXTENDS ScriptRuns, FiniteSetTheorems, TLAPS

\* The initial values have their types.
LEMMA EmptyRecords == NoScript \in ScriptRecords /\ Untouched \in PurchaseCopies
  BY RunAssumption DEF NoScript, ScriptRecords, Calls, Untouched, PurchaseCopies

\* A step that changes the run of one user.
LEMMA ScriptReplaced ==
    ASSUME script \in [Users -> ScriptRecords], NEW u \in Users, NEW new \in ScriptRecords,
           script' = [script EXCEPT ![u] = new]
    PROVE  /\ script' \in [Users -> ScriptRecords] /\ script'[u] = new
           /\ \A w \in Users : w # u => script'[w] = script[w]
  OBVIOUS

\* A call that has returned: only the program counter of the run has changed.
LEMMA Moved ==
    ASSUME script \in [Users -> ScriptRecords], NEW u \in Users, NEW pc \in Calls, Goto(u, pc)
    PROVE  /\ script' \in [Users -> ScriptRecords]
           /\ \A w \in Users : w # u => script'[w] = script[w]
           /\ script'[u].pc = pc /\ script'[u].sales = script[u].sales
           /\ script'[u].id = script[u].id /\ script'[u].copy = script[u].copy
           /\ script'[u].pieces = script[u].pieces /\ script'[u].posts = script[u].posts
           /\ script'[u].alone = script[u].alone
  <1> DEFINE new == [script[u] EXCEPT !.pc = pc]
  <1>1. /\ new \in ScriptRecords /\ new.pc = pc /\ new.sales = script[u].sales
        /\ new.id = script[u].id /\ new.copy = script[u].copy
        /\ new.pieces = script[u].pieces /\ new.posts = script[u].posts
        /\ new.alone = script[u].alone
    BY DEF ScriptRecords
  <1>2. script' = [script EXCEPT ![u] = new]
    BY DEF Goto
  <1> HIDE DEF new
  <1>3. QED
    BY <1>1, <1>2, ScriptReplaced

\* A run that has returned is idle.
LEMMA Returned ==
    ASSUME script \in [Users -> ScriptRecords], NEW u \in Users, Return(u)
    PROVE  /\ script' \in [Users -> ScriptRecords]
           /\ script'[u].pc = "idle" /\ script'[u].id = NoRun
           /\ \A w \in Users : w # u => script'[w] = script[w]
  <1>1. NoScript \in ScriptRecords /\ NoScript.pc = "idle" /\ NoScript.id = NoRun
    BY EmptyRecords DEF NoScript
  <1>2. QED
    BY <1>1, ScriptReplaced DEF Return

\* What a run that starts looks like, and what it does to the others.
LEMMA Started ==
    ASSUME script \in [Users -> ScriptRecords], NEW u \in Users, NEW pc \in Calls,
           NEW id \in RunIds \cup {NoRun}, Start(u, pc, id)
    PROVE  /\ script' \in [Users -> ScriptRecords] /\ script'[u].pc = pc
           /\ script'[u].id = id /\ script'[u].alone = AllIdle
           /\ \A w \in Users : w # u =>
                 /\ script'[w].pc = script[w].pc /\ script'[w].id = script[w].id
                 /\ script'[w].pieces = script[w].pieces /\ script'[w].copy = script[w].copy
                 /\ script'[w].posts = script[w].posts
                 /\ script'[w].alone => script[w].pc = "idle"
  <1> DEFINE new == [NoScript EXCEPT !.pc = pc, !.id = id, !.alone = AllIdle]
             other(w) == [script[w] EXCEPT !.alone = @ /\ w \notin Working]
  <1>1. AllIdle \in BOOLEAN
    BY DEF AllIdle
  <1>2. new \in ScriptRecords /\ new.pc = pc /\ new.id = id /\ new.alone = AllIdle
    BY <1>1, EmptyRecords DEF ScriptRecords, NoScript
  <1>3. ASSUME NEW w \in Users
        PROVE  /\ other(w) \in ScriptRecords /\ other(w).pc = script[w].pc
               /\ other(w).id = script[w].id /\ other(w).pieces = script[w].pieces
               /\ other(w).copy = script[w].copy /\ other(w).posts = script[w].posts
               /\ other(w).alone => script[w].pc = "idle"
    BY DEF ScriptRecords, Working
  <1>4. script' = [w \in Users |-> IF w = u THEN new ELSE other(w)]
    BY DEF Start
  <1> HIDE DEF new, other
  <1>5. QED
    BY <1>2, <1>3, <1>4

\* A calculation that has yet to list the transactions has an identity.
TypeInv == ScriptsTypeOK /\ \A u \in Users : script[u].pc = "list" => script[u].id \in RunIds

\* Drawing on the purchase leaves a quantity: sales of all that is left check it.
LEMMA DrawnType ==
    ASSUME NEW p \in PurchaseCopies, NEW n \in Nat, n <= p.amount
    PROVE  Drawn(p, n) \in PurchaseCopies
  <1>1. p.amount \in Nat \ {0} /\ p.checked \in BOOLEAN
    BY DEF PurchaseCopies
  <1>2. CASE n = p.amount
    BY <1>2 DEF Drawn, PurchaseCopies
  <1>3. CASE n # p.amount
    <2>1. p.amount - n \in Nat \ {0}
      BY <1>1, <1>3
    <2>2. Drawn(p, n) = [p EXCEPT !.amount = p.amount - n]
      BY <1>3 DEF Drawn
    <2>3. QED
      BY <2>1, <2>2 DEF PurchaseCopies
  <1>4. QED
    BY <1>2, <1>3

\* A calculation that has listed its transactions.
LEMMA ListingTypes ==
    ASSUME TypeInv, NEW u \in Users, ListTransactions(u)
    PROVE  /\ script' \in [Users -> ScriptRecords]
           /\ script'[u].pc \in {"idle", "createInventory"}
           /\ \A w \in Users : w # u => script'[w] = script[w]
  <1>1. /\ script \in [Users -> ScriptRecords] /\ script[u] \in ScriptRecords
        /\ purchase \in PurchaseCopies /\ script[u].id \in RunIds
    BY DEF TypeInv, ScriptsTypeOK, ListTransactions, At
  <1>2. Unchecked \subseteq Sales /\ Cardinality(Unchecked) \in Nat
    <2>1. Unchecked \subseteq Sales
      BY DEF Unchecked
    <2>2. QED
      BY <2>1, RunAssumption, FS_Subset, FS_CardinalityType
  <1> DEFINE copy == Drawn(purchase, Cardinality(Unchecked))
  <1>3. CASE Return(u)
    BY <1>1, <1>3, Returned
  <1>4. ASSUME Cardinality(Unchecked) <= Available, NEW split \in SUBSET Unchecked,
               script' = [script EXCEPT ![u] = Costed(u, Unchecked, split, copy)]
        PROVE  /\ script' \in [Users -> ScriptRecords]
               /\ script'[u].pc \in {"idle", "createInventory"}
               /\ \A w \in Users : w # u => script'[w] = script[w]
    <2> DEFINE new == Costed(u, Unchecked, split, copy)
    <2>1. copy \in PurchaseCopies
      <3>1. Cardinality(Unchecked) <= purchase.amount
        BY <1>1, <1>2, <1>4 DEF Available, PurchaseCopies
      <3>2. QED
        BY <1>1, <1>2, <3>1, DrawnType
    <2>2. PiecesOf(u, split) \subseteq Pieces /\ PiecesOf(u, Unchecked) \subseteq Pieces
      BY <1>1, <1>2 DEF PiecesOf, Pieces
    <2> HIDE DEF copy
    <2>3. new \in ScriptRecords /\ new.pc = "createInventory"
      BY <1>1, <1>2, <2>1, <2>2 DEF Costed, ScriptRecords, Calls
    <2> HIDE DEF new
    <2>4. QED
      BY <1>1, <1>4, <2>3, ScriptReplaced DEF new
  <1>5. QED
    <2>1. ASSUME ~Return(u)
          PROVE  /\ Cardinality(Unchecked) <= Available
                 /\ \E last \in Unchecked :
                      script' = [script EXCEPT ![u] = Costed(u, Unchecked,
                         IF copy.checked THEN Unchecked \ {last} ELSE Unchecked, copy)]
      BY <2>1 DEF ListTransactions
    <2> HIDE DEF copy
    <2>2. QED
      BY <1>3, <1>4, <2>1

\* A reset that has listed its transactions.
LEMMA CollectedTypes ==
    ASSUME ScriptsTypeOK, NEW u \in Users, ListTransactionsToReset(u)
    PROVE  /\ script' \in [Users -> ScriptRecords] /\ script'[u].pc = "trashFinancial"
           /\ script'[u].pieces = splits /\ script'[u].alone = script[u].alone
           /\ script'[u].id = script[u].id
           /\ script'[u].sales = {s \in Sales : sell[s] = "logged"}
           /\ \A w \in Users : w # u => script'[w] = script[w]
  <1> DEFINE S == {s \in Sales : sell[s] = "logged"}
  <1>1. script \in [Users -> ScriptRecords] /\ script[u] \in ScriptRecords
    BY DEF ScriptsTypeOK
  <1>2. PICK posts \in FirstOfEach(S) : script' = [script EXCEPT ![u] = Collected(u, S, posts)]
    BY DEF ListTransactionsToReset
  <1>3. S \subseteq Sales /\ posts \subseteq Pieces /\ splits \subseteq Pieces
    BY DEF ScriptsTypeOK, FirstOfEach
  <1> DEFINE new == Collected(u, S, posts)
  <1> HIDE DEF S
  <1>4. /\ new \in ScriptRecords /\ new.pc = "trashFinancial" /\ new.pieces = splits
        /\ new.alone = script[u].alone /\ new.sales = S /\ new.id = script[u].id
    BY <1>1, <1>3 DEF Collected, SplitsToTrash, ScriptRecords, Calls
  <1> HIDE DEF new
  <1>5. script' = [script EXCEPT ![u] = new]
    BY <1>2 DEF new
  <1>6. QED
    BY <1>1, <1>4, <1>5, ScriptReplaced DEF S

\* TypeInv is an invariant.
LEMMA TypeInvariant == Spec => []TypeInv
  <1>1. Init => TypeInv
    <2> SUFFICES ASSUME Init PROVE TypeInv
      OBVIOUS
    <2>1. mixed \in BOOLEAN /\ tainted \in BOOLEAN /\ orphans \subseteq Pieces
      BY DEF Init
    <2>2. script \in [Users -> ScriptRecords] /\ \A u \in Users : script[u].pc = "idle"
      BY EmptyRecords DEF Init, NoScript
    <2>3. QED
      BY <2>1, <2>2, EmptyRecords DEF Init, TypeInv, ScriptsTypeOK
  <1>2. TypeInv /\ [Next]_vars => TypeInv'
    <2> SUFFICES ASSUME TypeInv, [Next]_vars PROVE TypeInv'
      OBVIOUS
    <2>t. /\ script \in [Users -> ScriptRecords] /\ purchase \in PurchaseCopies
          /\ splits \subseteq Pieces /\ cogs \subseteq Pieces
          /\ sell \in [Sales -> {"absent", "posted", "logged"}]
          /\ mixed \in BOOLEAN /\ tainted \in BOOLEAN /\ orphans \subseteq Pieces
          /\ \A u \in Users : script[u].pc = "list" => script[u].id \in RunIds
      BY DEF TypeInv, ScriptsTypeOK
    <2>1. ASSUME NEW s \in Sales, PostSale(s) PROVE TypeInv'
      <3>1. sell' \in [Sales -> {"absent", "posted", "logged"}]
        BY <2>1, <2>t DEF PostSale
      <3>2. QED
        BY <2>1, <2>t, <3>1 DEF PostSale, TypeInv, ScriptsTypeOK
    <2>2. ASSUME NEW u \in Users, NEW pc \in {"list", "resetList"},
                 NEW id \in RunIds \cup {NoRun}, pc = "list" => id \in RunIds, Start(u, pc, id)
          PROVE  TypeInv'
      <3>1. /\ script' \in [Users -> ScriptRecords]
            /\ \A w \in Users : script'[w].pc = "list" => script'[w].id \in RunIds
        BY <2>2, <2>t, Started DEF Calls
      <3>2. UNCHANGED <<books, orphans>> /\ mixed' \in BOOLEAN /\ tainted' \in BOOLEAN
        BY <2>2, <2>t DEF Start
      <3>3. QED
        BY <2>t, <3>1, <3>2 DEF books, TypeInv, ScriptsTypeOK
    <2>3. ASSUME NEW u \in Users, ListTransactions(u) PROVE TypeInv'
      <3>1. /\ script' \in [Users -> ScriptRecords]
            /\ \A w \in Users : script'[w].pc = "list" => script'[w].id \in RunIds
        BY <2>3, <2>t, ListingTypes
      <3>2. UNCHANGED <<books, mixed, tainted, orphans>>
        BY <2>3 DEF ListTransactions
      <3>3. QED
        BY <2>t, <3>1, <3>2 DEF books, TypeInv, ScriptsTypeOK
    <2>4. ASSUME NEW u \in Users, NEW pc \in Calls \ {"list"}, Goto(u, pc),
                 purchase' \in PurchaseCopies, splits' \subseteq Pieces, cogs' \subseteq Pieces,
                 sell' \in [Sales -> {"absent", "posted", "logged"}], UNCHANGED <<mixed, tainted, orphans>>
          PROVE  TypeInv'
      <3>1. /\ script' \in [Users -> ScriptRecords]
            /\ \A w \in Users : script'[w].pc = "list" => script'[w].id \in RunIds
        BY <2>4, <2>t, Moved
      <3>2. QED
        BY <2>4, <2>t, <3>1 DEF TypeInv, ScriptsTypeOK
    <2>5. ASSUME NEW u \in Users, Return(u), cogs' \subseteq Pieces,
                 UNCHANGED <<purchase, splits, sell>>, mixed' \in BOOLEAN, tainted' \in BOOLEAN,
                 orphans' \subseteq Pieces
          PROVE  TypeInv'
      <3>1. /\ script' \in [Users -> ScriptRecords]
            /\ \A w \in Users : script'[w].pc = "list" => script'[w].id \in RunIds
        BY <2>5, <2>t, Returned
      <3>2. QED
        BY <2>5, <2>t, <3>1 DEF TypeInv, ScriptsTypeOK
    <2>6. ASSUME NEW u \in Users, RunStep(u) PROVE TypeInv'
      <3>r. /\ script[u].sales \subseteq Sales /\ script[u].pieces \subseteq Pieces
            /\ script[u].posts \subseteq Pieces /\ script[u].copy \in PurchaseCopies
        BY <2>t DEF ScriptRecords
      <3>1. CASE ListTransactions(u)
        BY <2>3, <3>1
      <3>2. CASE CreateInventoryTransactions(u)
        BY <2>4, <2>t, <3>2, <3>r DEF CreateInventoryTransactions, Calls
      <3>3. CASE UpdateInventoryTransactions(u)
        BY <2>4, <2>t, <3>3, <3>r DEF UpdateInventoryTransactions, Calls
      <3>4. CASE CreateFinancialTransactions(u)
        BY <2>5, <2>t, <3>4, <3>r DEF CreateFinancialTransactions
      <3>5. CASE ListTransactionsToReset(u)
        <4>1. /\ script' \in [Users -> ScriptRecords]
              /\ \A w \in Users : script'[w].pc = "list" => script'[w].id \in RunIds
          BY <2>t, <3>5, CollectedTypes DEF TypeInv
        <4>2. QED
          BY <2>t, <3>5, <4>1 DEF ListTransactionsToReset, books, TypeInv, ScriptsTypeOK
      <3>6. CASE TrashFinancialTransactions(u)
        BY <2>4, <2>t, <3>6 DEF TrashFinancialTransactions, Calls
      <3>7. CASE RestoreInventoryTransactions(u)
        BY <2>4, <2>t, <3>7, EmptyRecords DEF RestoreInventoryTransactions, Calls
      <3>8. CASE TrashInventoryTransactions(u)
        BY <2>4, <2>t, <3>8 DEF TrashInventoryTransactions, Calls
      <3>9. CASE ClearAccount(u)
        <4>1. mixed' \in BOOLEAN /\ tainted' \in BOOLEAN /\ orphans' \subseteq Pieces
          BY <2>t, <3>9 DEF ClearAccount
        <4>2. QED
          BY <2>5, <2>t, <3>9, <4>1 DEF ClearAccount, books
      <3>10. CASE Die(u)
        <4>1. mixed' \in BOOLEAN /\ tainted' \in BOOLEAN /\ orphans' \subseteq Pieces
          BY <2>t, <3>10 DEF Die
        <4>2. QED
          BY <2>5, <2>t, <3>10, <4>1 DEF Die, books
      <3>11. QED
        BY <2>6, <3>1, <3>2, <3>3, <3>4, <3>5, <3>6, <3>7, <3>8, <3>9, <3>10 DEF RunStep
    <2>7. ASSUME NEW u \in Users, Calculate(u) \/ Reset(u) PROVE TypeInv'
      BY <2>2, <2>7 DEF Calculate, Reset
    <2>8. CASE UNCHANGED vars
      BY <2>t, <2>8 DEF vars, books, TypeInv, ScriptsTypeOK
    <2>9. QED
      BY <2>1, <2>6, <2>7, <2>8 DEF Next
  <1>3. QED
    BY <1>1, <1>2, PTL DEF Spec

\* The books and the copies of the runs keep their types; in particular nothing of
\* what overlapping runs write leaves the purchase with quantity zero, by which the
\* next calculation would divide.
THEOREM ScriptsTypeCorrect == Spec => []ScriptsTypeOK
  <1>1. TypeInv => ScriptsTypeOK
    BY DEF TypeInv
  <1>2. QED
    BY <1>1, TypeInvariant, PTL
------------------------------------------------------------------------------
(* A reset that runs alone *)

\* No sale is costed.
NoneLogged == \A s \in Sales : sell[s] # "logged"

\* A run that is alone has no other at work; a reset that is alone has collected all
\* there is to restore, and keeps what it has restored.
LoneInv ==
    \A u \in Users : script[u].alone /\ script[u].pc # "idle" =>
        /\ \A w \in Users : w # u => script[w].pc = "idle"
        /\ script[u].pc \in {"trashFinancial", "restoreInventory"} =>
              /\ splits \subseteq script[u].pieces
              /\ \A s \in Sales : sell[s] = "logged" => s \in script[u].sales
        /\ script[u].pc = "trashInventory" =>
              splits \subseteq script[u].pieces /\ purchase = Untouched /\ NoneLogged
        /\ script[u].pc = "clearAccount" =>
              splits = {} /\ purchase = Untouched /\ NoneLogged

\* A step of the run of u keeps the invariant if it does so for u.
LEMMA LoneStep ==
    ASSUME LoneInv, NEW u \in Users, script[u].pc # "idle",
           \A w \in Users : w # u => script'[w] = script[w],
           script'[u].pc # "idle" =>
              /\ script'[u].alone = script[u].alone
              /\ script[u].alone =>
                    /\ script'[u].pc \in {"trashFinancial", "restoreInventory"} =>
                          /\ splits' \subseteq script'[u].pieces
                          /\ \A s \in Sales : sell'[s] = "logged" => s \in script'[u].sales
                    /\ script'[u].pc = "trashInventory" =>
                          /\ splits' \subseteq script'[u].pieces
                          /\ purchase' = Untouched /\ NoneLogged'
                    /\ script'[u].pc = "clearAccount" =>
                          splits' = {} /\ purchase' = Untouched /\ NoneLogged'
    PROVE  LoneInv'
  BY DEF LoneInv

\* The steps of a reset keep LoneInv.
LEMMA LoneReset ==
    ASSUME ScriptsTypeOK, NEW u \in Users, LoneInv,
           \/ ListTransactionsToReset(u) \/ TrashFinancialTransactions(u)
           \/ RestoreInventoryTransactions(u) \/ TrashInventoryTransactions(u)
           \/ ClearAccount(u)
    PROVE  LoneInv'
  <1>t. script \in [Users -> ScriptRecords] /\ sell \in [Sales -> {"absent", "posted", "logged"}]
    BY DEF ScriptsTypeOK
  <1>1. CASE ListTransactionsToReset(u)
    <2>1. UNCHANGED <<splits, sell, purchase>> /\ script[u].pc = "resetList"
      BY <1>1 DEF ListTransactionsToReset, books, At
    <2>2. QED
      BY <1>1, <2>1, CollectedTypes, LoneStep
  <1>2. CASE TrashFinancialTransactions(u)
    <2>1. /\ UNCHANGED <<splits, sell, purchase>> /\ script[u].pc = "trashFinancial"
          /\ Goto(u, "restoreInventory") /\ "restoreInventory" \in Calls
      BY <1>2 DEF TrashFinancialTransactions, At, Calls
    <2>2. /\ script'[u].pc = "restoreInventory" /\ script'[u].sales = script[u].sales
          /\ script'[u].pieces = script[u].pieces /\ script'[u].alone = script[u].alone
          /\ \A w \in Users : w # u => script'[w] = script[w]
      BY <1>t, <2>1, Moved
    <2>3. script[u].alone => /\ splits \subseteq script[u].pieces
                             /\ \A s \in Sales : sell[s] = "logged" => s \in script[u].sales
      BY <2>1 DEF LoneInv
    <2>4. QED
      BY <2>1, <2>2, <2>3, LoneStep
  <1>3. CASE RestoreInventoryTransactions(u)
    <2>1. /\ UNCHANGED splits /\ script[u].pc = "restoreInventory" /\ purchase' = Untouched
          /\ sell' = [s \in Sales |-> IF s \in script[u].sales THEN "posted" ELSE sell[s]]
          /\ Goto(u, "trashInventory") /\ "trashInventory" \in Calls
      BY <1>3 DEF RestoreInventoryTransactions, At, Calls
    <2>2. /\ script'[u].pc = "trashInventory" /\ script'[u].pieces = script[u].pieces
          /\ script'[u].alone = script[u].alone
          /\ \A w \in Users : w # u => script'[w] = script[w]
      BY <1>t, <2>1, Moved
    <2>3. script[u].alone => /\ splits \subseteq script[u].pieces
                             /\ \A s \in Sales : sell[s] = "logged" => s \in script[u].sales
      BY <2>1 DEF LoneInv
    <2>4. script[u].alone => NoneLogged'
      BY <2>1, <2>3 DEF NoneLogged
    <2>5. QED
      BY <2>1, <2>2, <2>3, <2>4, LoneStep
  <1>4. CASE TrashInventoryTransactions(u)
    <2>1. /\ UNCHANGED <<sell, purchase>> /\ script[u].pc = "trashInventory"
          /\ splits' = splits \ script[u].pieces
          /\ Goto(u, "clearAccount") /\ "clearAccount" \in Calls
      BY <1>4 DEF TrashInventoryTransactions, At, Calls
    <2>2. /\ script'[u].pc = "clearAccount" /\ script'[u].alone = script[u].alone
          /\ \A w \in Users : w # u => script'[w] = script[w]
      BY <1>t, <2>1, Moved
    <2>3. script[u].alone => splits' = {} /\ purchase' = Untouched /\ NoneLogged'
      BY <2>1 DEF LoneInv, NoneLogged
    <2>4. QED
      BY <2>1, <2>2, <2>3, LoneStep
  <1>5. CASE ClearAccount(u)
    <2>1. Return(u) /\ script[u].pc = "clearAccount"
      BY <1>5 DEF ClearAccount, At
    <2>2. script'[u].pc = "idle" /\ \A w \in Users : w # u => script'[w] = script[w]
      BY <1>t, <2>1, Returned
    <2>3. QED
      BY <2>1, <2>2, LoneStep
  <1>6. QED
    BY <1>1, <1>2, <1>3, <1>4, <1>5

\* The calls of a calculation are not those of a reset.
LEMMA LoneCalculation ==
    ASSUME TypeInv, LoneInv, NEW u \in Users,
           \/ ListTransactions(u) \/ CreateInventoryTransactions(u)
           \/ UpdateInventoryTransactions(u) \/ CreateFinancialTransactions(u) \/ Die(u)
    PROVE  LoneInv'
  <1>t. script \in [Users -> ScriptRecords]
    BY DEF TypeInv, ScriptsTypeOK
  <1>1. script[u].pc # "idle"
    BY DEF ListTransactions, CreateInventoryTransactions, UpdateInventoryTransactions,
           CreateFinancialTransactions, Die, At
  <1>2. CASE Return(u)
    <2>1. script'[u].pc = "idle" /\ \A w \in Users : w # u => script'[w] = script[w]
      BY <1>t, <1>2, Returned
    <2>2. QED
      BY <1>1, <2>1, LoneStep
  <1>3. ASSUME NEW pc \in {"updateInventory", "createFinancial"}, Goto(u, pc)
        PROVE  LoneInv'
    <2>1. /\ script'[u].pc = pc /\ script'[u].alone = script[u].alone
          /\ \A w \in Users : w # u => script'[w] = script[w]
      BY <1>t, <1>3, Moved DEF Calls
    <2>2. QED
      BY <1>1, <1>3, <2>1, LoneStep
  <1>4. CASE ListTransactions(u)
    <2>1. /\ script'[u].pc \in {"idle", "createInventory"}
          /\ \A w \in Users : w # u => script'[w] = script[w]
      BY <1>4, ListingTypes
    <2>2. script'[u].pc # "idle" => script'[u].alone = script[u].alone
      <3>1. CASE Return(u)
        BY <1>t, <3>1, Returned
      <3>2. ASSUME NEW S, NEW split, NEW copy,
                   script' = [script EXCEPT ![u] = Costed(u, S, split, copy)]
            PROVE  script'[u].alone = script[u].alone
        BY <1>t, <3>2 DEF Costed, ScriptRecords
      <3>3. QED
        BY <1>4, <3>1, <3>2 DEF ListTransactions
    <2>3. QED
      BY <1>1, <2>1, <2>2, LoneStep
  <1>5. QED
    BY <1>2, <1>3, <1>4 DEF CreateInventoryTransactions, UpdateInventoryTransactions,
                            CreateFinancialTransactions, Die

\* LoneInv is an invariant.
LEMMA LoneInvariant == Spec => []LoneInv
  <1>1. Init => LoneInv
    BY DEF Init, LoneInv, NoScript
  <1>2. TypeInv /\ LoneInv /\ [Next]_vars => LoneInv'
    <2> SUFFICES ASSUME TypeInv, LoneInv, [Next]_vars PROVE LoneInv'
      OBVIOUS
    <2>t. script \in [Users -> ScriptRecords] /\ ScriptsTypeOK
      BY DEF TypeInv, ScriptsTypeOK
    <2>1. ASSUME NEW s \in Sales, PostSale(s) PROVE LoneInv'
      <3>1. \A r \in Sales : sell'[r] = "logged" => sell[r] = "logged"
        BY <2>1, <2>t DEF PostSale, ScriptsTypeOK
      <3>2. UNCHANGED <<script, splits, purchase>>
        BY <2>1 DEF PostSale
      <3>3. QED
        BY <3>1, <3>2 DEF LoneInv, NoneLogged
    <2>2. ASSUME NEW u \in Users, NEW pc \in {"list", "resetList"},
                 NEW id \in RunIds \cup {NoRun}, Start(u, pc, id)
          PROVE  LoneInv'
      <3>1. /\ script'[u].pc = pc /\ (script'[u].alone => AllIdle)
            /\ \A w \in Users : w # u =>
                  /\ script'[w].pc = script[w].pc
                  /\ script'[w].alone => script[w].pc = "idle"
        BY <2>2, <2>t, Started DEF Calls
      <3>2. AllIdle => \A w \in Users : script[w].pc = "idle"
        BY DEF AllIdle, Working
      <3>3. QED
        BY <3>1, <3>2 DEF LoneInv
    <2>3. ASSUME NEW u \in Users, RunStep(u) PROVE LoneInv'
      BY <2>3, <2>t, LoneReset, LoneCalculation DEF RunStep
    <2>4. CASE UNCHANGED vars
      BY <2>4 DEF vars, books, LoneInv, NoneLogged
    <2>5. QED
      BY <2>1, <2>2, <2>3, <2>4 DEF Next, Calculate, Reset
  <1>3. QED
    BY <1>1, <1>2, TypeInvariant, PTL DEF Spec

\* Whatever runs that overlapped or died have done to the Inventory Book, a reset
\* that runs alone restores the purchase and the sales and leaves no split.
THEOREM LoneResetRepairs == Spec => []LoneResetRestores
  <1>1. LoneInv => LoneResetRestores
    BY DEF LoneInv, LoneResetRestores, NoneLogged, At
  <1>2. QED
    BY <1>1, LoneInvariant, PTL
------------------------------------------------------------------------------
(* Identities and quantities *)

\* Runs at work have identities of their own, and a calculation that has yet to list
\* the transactions has left nothing in the books.
IdInv ==
    /\ \A u \in Users : script[u].pc = "list" => \A x \in splits \cup cogs : x.run # script[u].id
    /\ \A u \in Users : script[u].pc = "createInventory" =>
          \A x \in script[u].pieces : x.run = script[u].id
    /\ \A u \in Users : script[u].pc \in {"createInventory", "updateInventory", "createFinancial"} =>
          \A x \in script[u].posts : x.run = script[u].id
    /\ \A u, w \in Users : u # w => script[u].id # script[w].id \/ script[u].id = NoRun

\* As long as calculations and resets have not overlapped, runs at work are of one
\* kind; the purchase as it is, and as each calculation will write it, counts all
\* that its splits leave; and resets that have restored the purchase find it restored.
CountInv == ~mixed =>
    /\ \A u, w \in Working : (script[u].pc \in Resetting) = (script[w].pc \in Resetting)
    /\ purchase.amount + Cardinality(splits) >= Bought
    /\ \A u \in Users : script[u].pc = "createInventory" =>
          script[u].copy.amount + Cardinality(splits \cup script[u].pieces) >= Bought
    /\ \A u \in Users : script[u].pc = "updateInventory" =>
          script[u].copy.amount + Cardinality(splits) >= Bought
    /\ \A u \in Users : script[u].pc = "trashInventory" => purchase = Untouched

\* The costed sales; the unit that a checked purchase holds; the sales of splits
\* and of costs.
Logged == {s \in Sales : sell[s] = "logged"}
LastUnit(p) == IF p.checked THEN 1 ELSE 0
SalesOf(X) == {x.sale : x \in X}

\* What was drawn from p, leaving the splits X, is what the sales L have sold.
Drew(p, X, L) ==
    /\ p.amount + Cardinality(X) = Bought
    /\ Cardinality(L) = Cardinality(X) + LastUnit(p)

\* Each of the sales L, and no other, has exactly one cost of sales among X.
OneCostEach(X, L) ==
    /\ \A s \in L : \E c \in X : {x \in X : x.sale = s} = {c}
    /\ \A x \in X : x.sale \in L

\* The books agree; costs left behind by a reset are still there.
SoundBooks ==
    /\ Drew(purchase, splits, Logged)
    /\ orphans \subseteq cogs /\ OneCostEach(cogs \ orphans, Logged)

\* The sales L have their costs; the run will post one, with its own identity, for
\* each of the sales it has costed.
PostsToCome(r, L) ==
    /\ orphans \subseteq cogs /\ OneCostEach(cogs \ orphans, L)
    /\ r.posts = {[run |-> r.id, sale |-> s] : s \in r.sales}
    /\ \A c \in cogs : c.run # r.id

\* As long as runs have neither overlapped nor died since the last lone reset, the run
\* at work is alone, and what it has in memory and has yet to write agrees with the
\* books as they will be then.
SoundInv == ~tainted =>
    /\ \A u \in Working : script[u].alone
    /\ \A u \in Users :
          /\ script[u].pc \in {"list", "resetList"} => SoundBooks
          /\ script[u].pc = "createInventory" =>
                /\ Drew(script[u].copy, splits \cup script[u].pieces, Logged \cup script[u].sales)
                /\ PostsToCome(script[u], Logged) /\ script[u].sales \cap Logged = {}
          /\ script[u].pc = "updateInventory" =>
                /\ Drew(script[u].copy, splits, Logged \cup script[u].sales)
                /\ PostsToCome(script[u], Logged) /\ script[u].sales \cap Logged = {}
          /\ script[u].pc = "createFinancial" =>
                /\ Drew(purchase, splits, Logged)
                /\ PostsToCome(script[u], Logged \ script[u].sales) /\ script[u].sales \subseteq Logged
    /\ AllIdle => SoundBooks

\* Sets of the model that are finite.
LEMMA FiniteBooks ==
    ASSUME NEW X \in SUBSET Pieces
    PROVE  IsFiniteSet(X) /\ Cardinality(X) \in Nat
  <1>1. IsFiniteSet(RunIds \X Sales)
    BY RunAssumption, FS_Product
  <1> DEFINE f == [p \in RunIds \X Sales |-> [run |-> p[1], sale |-> p[2]]]
  <1>2. ASSUME NEW x \in Pieces PROVE \E p \in RunIds \X Sales : f[p] = x
    <2>1. x.run \in RunIds /\ x.sale \in Sales /\ x = [run |-> x.run, sale |-> x.sale]
      BY DEF Pieces
    <2>2. <<x.run, x.sale>> \in RunIds \X Sales
      BY <2>1
    <2>3. QED
      BY <2>1, <2>2
  <1>3. f \in Surjection(RunIds \X Sales, Pieces)
    BY <1>2 DEF Surjection, Pieces
  <1>4. IsFiniteSet(Pieces)
    BY <1>1, <1>3, FS_Surjection
  <1>5. QED
    BY <1>4, FS_Subset, FS_CardinalityType

\* Sets of sales are finite.
LEMMA FiniteSales ==
    ASSUME NEW S \in SUBSET Sales
    PROVE  IsFiniteSet(S) /\ Cardinality(S) \in Nat
  BY RunAssumption, FS_Subset, FS_CardinalityType

\* Splits that are added are counted, each of them once if they are new.
LEMMA MoreSplits ==
    ASSUME NEW X \in SUBSET Pieces, NEW Y \in SUBSET Pieces
    PROVE  /\ Cardinality(X) <= Cardinality(X \cup Y)
           /\ X \cap Y = {} => Cardinality(X \cup Y) = Cardinality(X) + Cardinality(Y)
  <1>1. IsFiniteSet(X) /\ IsFiniteSet(Y) /\ IsFiniteSet(X \cup Y) /\ X \subseteq X \cup Y
    BY FiniteBooks
  <1>2. Cardinality(X) <= Cardinality(X \cup Y)
    BY <1>1, FS_Subset
  <1>3. ASSUME X \cap Y = {} PROVE Cardinality(X \cup Y) = Cardinality(X) + Cardinality(Y)
    <2>1. /\ Cardinality(X) \in Nat /\ Cardinality(Y) \in Nat
          /\ Cardinality(X \cup Y) = Cardinality(X) + Cardinality(Y) - Cardinality(X \cap Y)
      BY <1>1, FS_Union, FS_CardinalityType
    <2>2. Cardinality(X \cap Y) = 0
      BY <1>3, FS_EmptySet
    <2>3. QED
      BY <2>1, <2>2
  <1>4. QED
    BY <1>2, <1>3

\* There are as many pieces of a run as sales they are for.
LEMMA PiecesCounted ==
    ASSUME NEW u \in Users, script[u].id \in RunIds, NEW S \in SUBSET Sales
    PROVE  /\ PiecesOf(u, S) \subseteq Pieces /\ SalesOf(PiecesOf(u, S)) = S
           /\ \A x \in PiecesOf(u, S) : x.run = script[u].id
           /\ Cardinality(PiecesOf(u, S)) = Cardinality(S)
  <1>1. PiecesOf(u, S) \subseteq Pieces /\ \A x \in PiecesOf(u, S) : x.run = script[u].id
    BY DEF PiecesOf, Pieces
  <1> DEFINE f == [s \in S |-> [run |-> script[u].id, sale |-> s]]
  <1>f. ASSUME NEW s \in S PROVE f[s] \in PiecesOf(u, S) /\ f[s].sale = s
    BY DEF PiecesOf
  <1>g. ASSUME NEW x \in PiecesOf(u, S) PROVE x.sale \in S /\ f[x.sale] = x
    BY DEF PiecesOf
  <1>d. DOMAIN f = S
    OBVIOUS
  <1>h. f \in [S -> PiecesOf(u, S)]
    BY <1>f
  <1> HIDE DEF f
  <1>2. SalesOf(PiecesOf(u, S)) = S
    <2>1. ASSUME NEW s \in S PROVE s \in SalesOf(PiecesOf(u, S))
      BY <1>f DEF SalesOf
    <2>2. ASSUME NEW s \in SalesOf(PiecesOf(u, S)) PROVE s \in S
      BY <1>g DEF SalesOf
    <2>3. QED
      BY <2>1, <2>2
  <1>3. f \in Bijection(S, PiecesOf(u, S))
    <2>1. f \in Injection(S, PiecesOf(u, S))
      BY <1>f, <1>h DEF Injection, IsInjective
    <2>2. f \in Surjection(S, PiecesOf(u, S))
      BY <1>g, <1>h DEF Surjection
    <2>3. QED
      BY <2>1, <2>2 DEF Bijection
  <1>4. IsFiniteSet(S)
    BY FiniteSales
  <1>5. Cardinality(PiecesOf(u, S)) = Cardinality(S)
    BY <1>3, <1>4, FS_Bijection DEF ExistsBijection
  <1>6. QED
    BY <1>1, <1>2, <1>5

\* A calculation that has costed sales holds, in its copy of the purchase and in the
\* splits it will create, the quantity that it has found, and what it has drawn is one
\* unit for each of the sales.
LEMMA Listed ==
    ASSUME TypeInv, IdInv, NEW u \in Users, ListTransactions(u), ~Return(u)
    PROVE  /\ script'[u].pc = "createInventory" /\ script'[u].alone = script[u].alone
           /\ script'[u].id = script[u].id
           /\ \A x \in script'[u].pieces : x.run = script[u].id
           /\ \A w \in Users : w # u => script'[w] = script[w]
           /\ script'[u].copy \in PurchaseCopies /\ script'[u].pieces \subseteq Pieces
           /\ script'[u].sales = Unchecked /\ script'[u].posts = PiecesOf(u, Unchecked)
           /\ ~purchase.checked
           /\ script'[u].copy.amount + Cardinality(splits \cup script'[u].pieces)
                = purchase.amount + Cardinality(splits)
           /\ Cardinality(splits \cup script'[u].pieces) + LastUnit(script'[u].copy)
                = Cardinality(splits) + Cardinality(Unchecked)
  <1>1. /\ script \in [Users -> ScriptRecords] /\ script[u] \in ScriptRecords
        /\ purchase \in PurchaseCopies /\ script[u].id \in RunIds /\ script[u].pc = "list"
        /\ splits \subseteq Pieces /\ Unchecked \subseteq Sales
    BY DEF TypeInv, ScriptsTypeOK, ListTransactions, At, Unchecked
  <1> DEFINE n == Cardinality(Unchecked)
             copy == Drawn(purchase, n)
             split(last) == IF copy.checked THEN Unchecked \ {last} ELSE Unchecked
  <1>2. PICK last \in Unchecked :
           /\ n <= Available
           /\ script' = [script EXCEPT ![u] = Costed(u, Unchecked, split(last), copy)]
    BY DEF ListTransactions
  <1>3. n \in Nat \ {0} /\ IsFiniteSet(Unchecked) /\ Cardinality(splits) \in Nat
    <2>1. IsFiniteSet(Unchecked) /\ n \in Nat /\ Cardinality(splits) \in Nat
      BY <1>1, FiniteSales, FiniteBooks
    <2>2. n # 0
      BY <1>2, <2>1, FS_EmptySet
    <2>3. QED
      BY <2>1, <2>2
  <1>4. /\ purchase.amount \in Nat \ {0} /\ ~purchase.checked /\ n <= purchase.amount
        /\ purchase = [amount |-> purchase.amount, checked |-> FALSE]
    <2>1. purchase.amount \in Nat \ {0} /\ purchase.checked \in BOOLEAN
      BY <1>1 DEF PurchaseCopies
    <2>2. ~purchase.checked /\ n <= purchase.amount
      BY <1>2, <1>3, <2>1 DEF Available
    <2>3. QED
      BY <1>1, <2>1, <2>2 DEF PurchaseCopies
  <1>5. /\ copy \in PurchaseCopies
        /\ n = purchase.amount => copy.amount = 1 /\ copy.checked
        /\ n # purchase.amount => copy.amount = purchase.amount - n /\ ~copy.checked
    <2>1. copy \in PurchaseCopies
      BY <1>1, <1>3, <1>4, DrawnType
    <2>2. CASE n = purchase.amount
      <3>1. copy = [amount |-> 1, checked |-> TRUE]
        BY <2>2 DEF Drawn
      <3> HIDE DEF copy
      <3>2. QED
        BY <2>1, <2>2, <3>1
    <2>3. CASE n # purchase.amount
      <3>1. copy = [purchase EXCEPT !.amount = purchase.amount - n]
        BY <2>3 DEF Drawn
      <3> HIDE DEF copy, n
      <3>2. copy.amount = purchase.amount - n /\ copy.checked = purchase.checked
        BY <1>1, <3>1 DEF PurchaseCopies
      <3>3. QED
        BY <1>4, <2>1, <2>3, <3>2
    <2>4. QED
      BY <2>1, <2>2, <2>3
  <1>6. /\ split(last) \subseteq Sales
        /\ Cardinality(split(last)) = IF copy.checked THEN n - 1 ELSE n
    <2>1. Cardinality(Unchecked \ {last}) = n - 1
      BY <1>2, <1>3, FS_RemoveElement
    <2>2. QED
      BY <1>1, <2>1
  <1> HIDE DEF n, copy, split
  <1> DEFINE pieces == PiecesOf(u, split(last))
             posts == PiecesOf(u, Unchecked)
  <1>7. /\ pieces \subseteq Pieces /\ posts \subseteq Pieces /\ SalesOf(posts) = Unchecked
        /\ \A x \in pieces : x.run = script[u].id
        /\ Cardinality(pieces) = Cardinality(split(last))
    BY <1>1, <1>6, PiecesCounted
  <1>8. Cardinality(splits \cup pieces) = Cardinality(splits) + Cardinality(split(last))
    <2>1. splits \cap pieces = {}
      BY <1>1, <1>7 DEF IdInv
    <2>2. QED
      BY <1>1, <1>7, <2>1, MoreSplits
  <1> HIDE DEF pieces, posts
  <1>9. /\ copy.amount + Cardinality(splits \cup pieces) = purchase.amount + Cardinality(splits)
        /\ Cardinality(splits \cup pieces) + LastUnit(copy) = Cardinality(splits) + n
    <2>1. CASE n = purchase.amount
      <3>1. copy.amount = 1 /\ copy.checked
        BY <1>5, <2>1
      <3>2. QED
        BY <1>3, <1>4, <1>6, <1>8, <2>1, <3>1 DEF LastUnit
    <2>2. CASE n # purchase.amount
      <3>1. copy.amount = purchase.amount - n /\ ~copy.checked
        BY <1>5, <2>2
      <3>2. QED
        BY <1>3, <1>4, <1>6, <1>8, <2>2, <3>1 DEF LastUnit
    <2>3. QED
      BY <2>1, <2>2
  <1> DEFINE new == Costed(u, Unchecked, split(last), copy)
  <1>10. /\ new \in ScriptRecords /\ new.pc = "createInventory" /\ new.alone = script[u].alone
         /\ new.id = script[u].id /\ new.pieces = pieces /\ new.posts = posts
         /\ new.sales = Unchecked /\ new.copy = copy
    BY <1>1, <1>5, <1>7 DEF Costed, ScriptRecords, Calls, pieces, posts
  <1> HIDE DEF new
  <1>11. script'[u] = new /\ \A w \in Users : w # u => script'[w] = script[w]
    BY <1>1, <1>2, <1>10, ScriptReplaced DEF new
  <1>12. QED
    BY <1>4, <1>5, <1>7, <1>9, <1>10, <1>11 DEF n, posts

\* What the steps of a run that works on its copies do to the runs: it goes on to its
\* next call with all it has in memory, or returns.
LEMMA WentOn ==
    ASSUME TypeInv, NEW u \in Users, RunStep(u)
    PROVE  /\ script[u].pc # "idle" /\ \A w \in Users : w # u => script'[w] = script[w]
           /\ \/ ListTransactions(u) /\ ~Return(u)
              \/ ListTransactionsToReset(u)
              \/ script'[u].pc = "idle" /\ script'[u].id = NoRun
              \/ /\ <<script[u].pc, script'[u].pc>> \in
                       {<<"createInventory", "updateInventory">>,
                        <<"updateInventory", "createFinancial">>,
                        <<"trashFinancial", "restoreInventory">>,
                        <<"restoreInventory", "trashInventory">>,
                        <<"trashInventory", "clearAccount">>}
                 /\ script'[u].id = script[u].id /\ script'[u].pieces = script[u].pieces
                 /\ script'[u].copy = script[u].copy /\ script'[u].sales = script[u].sales
                 /\ script'[u].posts = script[u].posts /\ script'[u].alone = script[u].alone
  <1>t. script \in [Users -> ScriptRecords] /\ ScriptsTypeOK
    BY DEF TypeInv, ScriptsTypeOK
  <1>1. CASE Return(u)
    <2>1. script[u].pc # "idle"
      BY DEF RunStep, ListTransactions, CreateInventoryTransactions, At,
             UpdateInventoryTransactions, CreateFinancialTransactions, ListTransactionsToReset,
             TrashFinancialTransactions, RestoreInventoryTransactions,
             TrashInventoryTransactions, ClearAccount, Die
    <2>2. QED
      BY <1>t, <1>1, <2>1, Returned
  <1>2. CASE ListTransactions(u) /\ ~Return(u)
    BY <1>2, ListingTypes DEF ListTransactions, At
  <1>3. CASE ListTransactionsToReset(u)
    BY <1>t, <1>3, CollectedTypes DEF ListTransactionsToReset, At
  <1>4. CASE CreateInventoryTransactions(u)
    BY <1>t, <1>4, Moved DEF CreateInventoryTransactions, At, Calls
  <1>5. CASE UpdateInventoryTransactions(u)
    BY <1>t, <1>5, Moved DEF UpdateInventoryTransactions, At, Calls
  <1>6. CASE TrashFinancialTransactions(u)
    BY <1>t, <1>6, Moved DEF TrashFinancialTransactions, At, Calls
  <1>7. CASE RestoreInventoryTransactions(u)
    BY <1>t, <1>7, Moved DEF RestoreInventoryTransactions, At, Calls
  <1>8. CASE TrashInventoryTransactions(u)
    BY <1>t, <1>8, Moved DEF TrashInventoryTransactions, At, Calls
  <1>9. QED
    BY <1>1, <1>2, <1>3, <1>4, <1>5, <1>6, <1>7, <1>8
       DEF RunStep, CreateFinancialTransactions, ClearAccount, Die

\* IdInv is an invariant.
LEMMA IdInvariant == Spec => []IdInv
  <1>1. Init => IdInv
    BY DEF Init, IdInv, NoScript
  <1>2. TypeInv /\ IdInv /\ [Next]_vars => IdInv'
    <2> SUFFICES ASSUME TypeInv, IdInv, [Next]_vars PROVE IdInv'
      OBVIOUS
    <2>t. /\ script \in [Users -> ScriptRecords] /\ ScriptsTypeOK /\ splits \subseteq Pieces
          /\ \A w \in Users : script[w].pc = "list" => script[w].id \in RunIds
          /\ NoRun \notin RunIds
      BY RunAssumption DEF TypeInv, ScriptsTypeOK
    <2>1. ASSUME NEW u \in Users, Calculate(u) PROVE IdInv'
      <3>1. PICK id \in RunIds \ UsedIds : Start(u, "list", id)
        BY <2>1 DEF Calculate
      <3>2. /\ script'[u].pc = "list" /\ script'[u].id = id
            /\ \A w \in Users : w # u =>
                  /\ script'[w].pc = script[w].pc /\ script'[w].id = script[w].id
                  /\ script'[w].pieces = script[w].pieces /\ script'[w].posts = script[w].posts
        BY <2>t, <3>1, Started DEF Calls
      <3>3. (\A x \in splits \cup cogs : x.run # id) /\ (\A w \in Users : script[w].id # id)
        BY DEF UsedIds
      <3>4. splits' = splits /\ cogs' = cogs
        BY <3>1 DEF Start, books
      <3>5. QED
        BY <3>2, <3>3, <3>4 DEF IdInv
    <2>2. ASSUME NEW u \in Users, Reset(u) PROVE IdInv'
      <3>1. Start(u, "resetList", NoRun) /\ splits' = splits /\ cogs' = cogs
        BY <2>2 DEF Reset, Start, books
      <3>2. /\ script'[u].pc = "resetList" /\ script'[u].id = NoRun
            /\ \A w \in Users : w # u =>
                  /\ script'[w].pc = script[w].pc /\ script'[w].id = script[w].id
                  /\ script'[w].pieces = script[w].pieces /\ script'[w].posts = script[w].posts
        BY <2>t, <3>1, Started DEF Calls
      <3>3. QED
        BY <3>1, <3>2 DEF IdInv
    <2>3. ASSUME NEW u \in Users, RunStep(u) PROVE IdInv'
      <3>1. CASE ListTransactions(u) /\ ~Return(u)
        <4>1. /\ script'[u].pc = "createInventory" /\ script'[u].id = script[u].id
              /\ \A x \in script'[u].pieces : x.run = script[u].id
              /\ script'[u].posts = PiecesOf(u, Unchecked)
              /\ \A w \in Users : w # u => script'[w] = script[w]
          BY <3>1, Listed
        <4>2. splits' = splits /\ cogs' = cogs
          BY <3>1 DEF ListTransactions, books
        <4>3. \A x \in script'[u].posts : x.run = script'[u].id
          BY <4>1 DEF PiecesOf
        <4>4. QED
          BY <4>1, <4>2, <4>3 DEF IdInv
      <3>2. CASE ListTransactionsToReset(u)
        <4>1. /\ script'[u].pc = "trashFinancial" /\ script'[u].id = script[u].id
              /\ \A w \in Users : w # u => script'[w] = script[w]
          BY <2>t, <3>2, CollectedTypes
        <4>2. splits' = splits /\ cogs' = cogs
          BY <3>2 DEF ListTransactionsToReset, books
        <4>3. QED
          BY <4>1, <4>2 DEF IdInv
      <3>3. ASSUME ~(ListTransactions(u) /\ ~Return(u)), ~ListTransactionsToReset(u)
            PROVE  IdInv'
        <4>1. /\ \A w \in Users : w # u => script'[w] = script[w]
              /\ script'[u].id = NoRun \/ script'[u].id = script[u].id
              /\ script'[u].pc # "list" /\ script'[u].pc # "createInventory"
              /\ script'[u].pc \in {"updateInventory", "createFinancial"} =>
                    /\ script[u].pc \in {"createInventory", "updateInventory"}
                    /\ script'[u].posts = script[u].posts /\ script'[u].id = script[u].id
          BY <2>3, <3>3, WentOn
        \* What the step adds to the books has the identity of the run.
        <4>2. ASSUME NEW x \in splits' \cup cogs', x \notin splits \cup cogs
              PROVE  x.run = script[u].id
          <5>1. CASE CreateInventoryTransactions(u)
            BY <4>2, <5>1 DEF IdInv, CreateInventoryTransactions, At
          <5>2. CASE CreateFinancialTransactions(u)
            BY <4>2, <5>2 DEF IdInv, CreateFinancialTransactions, At
          <5>3. CASE ~CreateInventoryTransactions(u) /\ ~CreateFinancialTransactions(u)
            <6>1. splits' \subseteq splits /\ cogs' \subseteq cogs
              BY <2>3, <5>3 DEF RunStep, ListTransactions, books,
                    UpdateInventoryTransactions,
                    ListTransactionsToReset, TrashFinancialTransactions,
                    RestoreInventoryTransactions, TrashInventoryTransactions, ClearAccount, Die
            <6>2. QED
              BY <4>2, <6>1
          <5>4. QED
            BY <5>1, <5>2, <5>3
        <4>3. ASSUME NEW w \in Users, script'[w].pc = "list", NEW x \in splits' \cup cogs'
              PROVE  x.run # script'[w].id
          <5>1. /\ w # u /\ script[w].pc = "list" /\ script'[w].id = script[w].id
                /\ script[w].id # NoRun
            BY <2>t, <4>1, <4>3
          <5>2. CASE x \in splits \cup cogs
            BY <5>1, <5>2 DEF IdInv
          <5>3. CASE x \notin splits \cup cogs
            BY <4>2, <4>3, <5>1, <5>3 DEF IdInv
          <5>4. QED
            BY <5>2, <5>3
        <4>4. ASSUME NEW w \in Users, NEW x \in script'[w].posts,
                     script'[w].pc \in {"createInventory", "updateInventory", "createFinancial"}
              PROVE  x.run = script'[w].id
          BY <4>1, <4>4 DEF IdInv
        <4>5. QED
          BY <4>1, <4>3, <4>4 DEF IdInv
      <3>4. QED
        BY <3>1, <3>2, <3>3
    <2>4. CASE UNCHANGED <<script, splits, cogs>>
      BY <2>4 DEF IdInv
    <2>5. QED
      BY <2>1, <2>2, <2>3, <2>4 DEF Next, vars, books, PostSale
  <1>3. QED
    BY <1>1, <1>2, TypeInvariant, PTL DEF Spec

\* The work of a run keeps the runs of one kind.
LEMMA OneKind ==
    ASSUME TypeInv, NEW u \in Users, RunStep(u),
           \A v, w \in Working : (script[v].pc \in Resetting) = (script[w].pc \in Resetting)
    PROVE  (\A v, w \in Working : (script[v].pc \in Resetting) = (script[w].pc \in Resetting))'
  <1>1. CASE ListTransactions(u) /\ ~Return(u)
    <2>1. script[u].pc = "list" /\ script'[u].pc \in {"idle", "createInventory"}
      BY <1>1, ListingTypes DEF ListTransactions, At
    <2>2. QED
      BY <2>1, WentOn DEF Working, Resetting
  <1>2. CASE ListTransactionsToReset(u)
    <2>1. script[u].pc = "resetList" /\ script'[u].pc = "trashFinancial"
      BY <1>2, CollectedTypes DEF ListTransactionsToReset, At, TypeInv
    <2>2. QED
      BY <2>1, WentOn DEF Working, Resetting
  <1>3. ASSUME ~(ListTransactions(u) /\ ~Return(u)), ~ListTransactionsToReset(u)
        PROVE  (\A v, w \in Working : (script[v].pc \in Resetting) = (script[w].pc \in Resetting))'
    <2>1. \/ script'[u].pc = "idle"
          \/ script[u].pc # "idle" /\ (script'[u].pc \in Resetting) = (script[u].pc \in Resetting)
      BY <1>3, WentOn DEF Resetting
    <2>2. \A w \in Users : w # u => script'[w] = script[w]
      BY WentOn
    <2>3. QED
      BY <2>1, <2>2 DEF Working
  <1>4. QED
    BY <1>1, <1>2, <1>3

\* CountInv is an invariant.
LEMMA CountInvariant == Spec => []CountInv
  <1>1. Init => CountInv
    <2>1. ASSUME Init PROVE purchase.amount + Cardinality(splits) >= Bought
      BY <2>1, RunAssumption, FS_EmptySet DEF Init, Untouched
    <2>2. ASSUME Init PROVE Working = {} /\ \A u \in Users : script[u].pc = "idle"
      BY <2>2 DEF Init, NoScript, Working
    <2>3. QED
      BY <2>1, <2>2 DEF CountInv
  <1>2. TypeInv /\ LoneInv /\ IdInv /\ CountInv /\ [Next]_vars => CountInv'
    <2> SUFFICES ASSUME TypeInv, LoneInv, IdInv, CountInv, [Next]_vars, ~mixed' PROVE CountInv'
      BY DEF CountInv
    <2>t. /\ script \in [Users -> ScriptRecords] /\ ScriptsTypeOK /\ splits \subseteq Pieces
          /\ \A w \in Users : script[w] \in ScriptRecords /\ script[w].pieces \subseteq Pieces
          /\ \A w \in Users : script[w].copy.amount \in Nat
          /\ purchase.amount \in Nat /\ Cardinality(splits) \in Nat /\ Bought \in Nat
      <3>1. script \in [Users -> ScriptRecords] /\ ScriptsTypeOK /\ splits \subseteq Pieces
        BY DEF TypeInv, ScriptsTypeOK
      <3>2. ASSUME NEW w \in Users
            PROVE  /\ script[w] \in ScriptRecords /\ script[w].pieces \subseteq Pieces
                   /\ script[w].copy.amount \in Nat
        BY <3>1 DEF ScriptRecords, PurchaseCopies
      <3>3. purchase.amount \in Nat
        BY DEF TypeInv, ScriptsTypeOK, PurchaseCopies
      <3>4. QED
        BY <3>1, <3>2, <3>3, RunAssumption, FiniteBooks
    <2>1. ASSUME NEW u \in Users, NEW pc \in {"list", "resetList"},
                 NEW id \in RunIds \cup {NoRun}, Start(u, pc, id)
          PROVE  CountInv'
      <3>1. /\ script'[u].pc = pc
            /\ \A w \in Users : w # u =>
                  /\ script'[w].pc = script[w].pc /\ script'[w].pieces = script[w].pieces
                  /\ script'[w].copy = script[w].copy
        BY <2>1, <2>t, Started DEF Calls
      <3>2. /\ ~mixed /\ UNCHANGED <<purchase, splits>> /\ script[u].pc = "idle"
            /\ \A w \in Working : (script[w].pc \in Resetting) = (pc \in Resetting)
        BY <2>1 DEF Start, books, At, Resetting
      <3>3. (\A v, w \in Working : (script[v].pc \in Resetting) = (script[w].pc \in Resetting))'
        BY <3>1, <3>2 DEF Working, Resetting
      <3>4. QED
        BY <3>1, <3>2, <3>3 DEF CountInv
    <2>2. ASSUME NEW u \in Users, RunStep(u) PROVE CountInv'
      <3>1. CASE mixed
        <4>1. ClearAccount(u) /\ script[u].alone
          BY <2>2, <3>1 DEF RunStep, ListTransactions, CreateInventoryTransactions,
                UpdateInventoryTransactions, CreateFinancialTransactions,
                ListTransactionsToReset, TrashFinancialTransactions,
                RestoreInventoryTransactions, TrashInventoryTransactions, ClearAccount, Die
        <4>2. splits = {} /\ purchase = Untouched /\ \A w \in Users : w # u => script[w].pc = "idle"
          BY <4>1 DEF ClearAccount, At, LoneInv
        <4>3. UNCHANGED <<purchase, splits>> /\ \A w \in Users : script'[w].pc = "idle"
          BY <2>t, <4>1, <4>2, Returned DEF ClearAccount, books
        <4>4. purchase'.amount + Cardinality(splits') >= Bought
          BY <2>t, <4>2, <4>3, FS_EmptySet DEF Untouched
        <4>5. QED
          BY <4>3, <4>4 DEF CountInv, Working
      <3>2. CASE ~mixed
        <4>k. (\A v, w \in Working : (script[v].pc \in Resetting) = (script[w].pc \in Resetting))'
          BY <2>2, <3>2, OneKind DEF CountInv
        <4>w. script[u].pc # "idle" /\ \A w \in Users : w # u => script'[w] = script[w]
          BY <2>2, WentOn
        \* The others are at work on the same kind of run.
        <4>o. ASSUME NEW w \in Users, script[w].pc # "idle"
              PROVE  (script[w].pc \in Resetting) = (script[u].pc \in Resetting)
          BY <3>2, <4>o, <4>w DEF CountInv, Working
        <4>1. CASE ListTransactions(u) /\ ~Return(u)
          <5>1. /\ script'[u].pc = "createInventory" /\ UNCHANGED <<purchase, splits>>
                /\ script'[u].copy.amount + Cardinality(splits \cup script'[u].pieces)
                      = purchase.amount + Cardinality(splits)
            BY <4>1, Listed DEF ListTransactions, books
          <5>2. QED
            BY <3>2, <4>k, <4>w, <5>1 DEF CountInv
        <4>2. CASE /\ script'[u].pc \notin {"createInventory", "updateInventory", "trashInventory"}
                   /\ UNCHANGED <<purchase, splits>>
          BY <3>2, <4>k, <4>w, <4>2 DEF CountInv
        <4>3. CASE CreateInventoryTransactions(u)
          <5>1. /\ script[u].pc = "createInventory" /\ script'[u].pc = "updateInventory"
                /\ splits' = splits \cup script[u].pieces /\ purchase' = purchase
                /\ script'[u].copy = script[u].copy
            BY <2>t, <4>3, Moved DEF CreateInventoryTransactions, At, Calls
          <5>2. /\ Cardinality(splits) <= Cardinality(splits')
                /\ splits' \subseteq Pieces /\ Cardinality(splits') \in Nat
            BY <2>t, <5>1, MoreSplits, FiniteBooks
          <5>3. ASSUME NEW w \in Users, w # u, script[w].pc = "createInventory"
                PROVE  script[w].copy.amount + Cardinality(splits' \cup script[w].pieces) >= Bought
            <6>1. splits' \cup script[w].pieces = (splits \cup script[w].pieces) \cup script[u].pieces
              BY <5>1
            <6>2. splits \cup script[w].pieces \subseteq Pieces
              BY <2>t
            <6>3. /\ Cardinality(splits \cup script[w].pieces) <= Cardinality(splits' \cup script[w].pieces)
                  /\ Cardinality(splits \cup script[w].pieces) \in Nat
                  /\ Cardinality(splits' \cup script[w].pieces) \in Nat
              BY <2>t, <5>2, <6>1, <6>2, MoreSplits, FiniteBooks
            <6>4. script[w].copy.amount + Cardinality(splits \cup script[w].pieces) >= Bought
              BY <3>2, <5>3 DEF CountInv
            <6>5. QED
              BY <2>t, <6>3, <6>4
          <5>4. ASSUME NEW w \in Users, w # u, script[w].pc = "updateInventory"
                PROVE  script[w].copy.amount + Cardinality(splits') >= Bought
            <6>1. script[w].copy.amount + Cardinality(splits) >= Bought
              BY <3>2, <5>4 DEF CountInv
            <6>2. QED
              BY <2>t, <5>2, <6>1
          <5>5. /\ purchase.amount + Cardinality(splits') >= Bought
                /\ script[u].copy.amount + Cardinality(splits') >= Bought
            <6>1. /\ purchase.amount + Cardinality(splits) >= Bought
                  /\ script[u].copy.amount + Cardinality(splits') >= Bought
              BY <3>2, <5>1 DEF CountInv
            <6>2. QED
              BY <2>t, <5>2, <6>1
          <5>6. QED
            BY <3>2, <4>k, <4>w, <5>1, <5>3, <5>4, <5>5 DEF CountInv
        <4>4. CASE UpdateInventoryTransactions(u)
          <5>1. /\ script[u].pc = "updateInventory" /\ script'[u].pc = "createFinancial"
                /\ splits' = splits /\ purchase' = script[u].copy
            BY <2>t, <4>4, Moved DEF UpdateInventoryTransactions, At, Calls
          <5>2. purchase'.amount + Cardinality(splits) >= Bought
            BY <3>2, <5>1 DEF CountInv
          <5>3. \A w \in Users : script'[w].pc # "trashInventory"
            BY <4>o, <4>w, <5>1 DEF Resetting
          <5>4. QED
            BY <3>2, <4>k, <4>w, <5>1, <5>2, <5>3 DEF CountInv
        <4>5. CASE RestoreInventoryTransactions(u) \/ TrashInventoryTransactions(u)
          <5>1. /\ script[u].pc \in Resetting
                /\ script'[u].pc \in {"trashInventory", "clearAccount"}
            BY <2>t, <4>5, Moved DEF RestoreInventoryTransactions, TrashInventoryTransactions,
                                     At, Calls, Resetting
          <5>2. \A w \in Users : script'[w].pc \notin {"createInventory", "updateInventory"}
            BY <4>o, <4>w, <5>1 DEF Resetting
          <5>3. purchase' = Untouched
            BY <3>2, <4>5 DEF RestoreInventoryTransactions, TrashInventoryTransactions, CountInv, At
          <5>4. splits' \subseteq Pieces /\ Cardinality(splits') \in Nat
            <6>1. splits' \subseteq Pieces
              BY <2>t, <4>5 DEF RestoreInventoryTransactions, TrashInventoryTransactions
            <6>2. QED
              BY <6>1, FiniteBooks
          <5>5. purchase'.amount + Cardinality(splits') >= Bought
            BY <2>t, <5>3, <5>4 DEF Untouched
          <5>6. QED
            BY <4>k, <5>2, <5>3, <5>5 DEF CountInv
        <4>6. ASSUME Return(u), UNCHANGED <<purchase, splits>> PROVE CountInv'
          BY <2>t, <4>2, <4>6, Returned
        <4>7. CASE ListTransactionsToReset(u)
          BY <2>t, <4>2, <4>7, CollectedTypes DEF ListTransactionsToReset, books
        <4>8. CASE TrashFinancialTransactions(u)
          BY <2>t, <4>2, <4>8, Moved DEF TrashFinancialTransactions, Calls
        <4>9. QED
          BY <2>2, <4>1, <4>3, <4>4, <4>5, <4>6, <4>7, <4>8
             DEF RunStep, ListTransactions, CreateFinancialTransactions, ClearAccount, Die, books
      <3>3. QED
        BY <3>1, <3>2
    <2>3. CASE UNCHANGED <<purchase, splits, script, mixed>>
      BY <2>3 DEF CountInv, Working
    <2>4. QED
      BY <2>1, <2>2, <2>3 DEF Next, vars, books, PostSale, Calculate, Reset
  <1>3. QED
    BY <1>1, <1>2, TypeInvariant, LoneInvariant, IdInvariant, PTL DEF Spec

\* Runs of any number of users that overlap and die lose no unit of the purchase, as
\* long as no calculation overlaps a reset: a calculation creates its splits before it
\* writes the purchase, and a reset restores the purchase before it trashes the splits.
THEOREM UnitsNeverLost == Spec => []NeverUndercounted
  <1>1. CountInv => NeverUndercounted
    BY DEF CountInv, NeverUndercounted
  <1>2. QED
    BY <1>1, CountInvariant, PTL
------------------------------------------------------------------------------
(* After a reset that ran alone *)

\* A calculation that is alone, and has costed the sales, holds books that agree.
LEMMA ListedSound ==
    ASSUME TypeInv, IdInv, NEW u \in Users, ListTransactions(u), ~Return(u),
           Drew(purchase, splits, Logged)
    PROVE  /\ Drew(script'[u].copy, splits \cup script'[u].pieces, Logged \cup script'[u].sales)
           /\ script'[u].sales = Unchecked /\ script'[u].posts = PiecesOf(u, Unchecked)
           /\ script'[u].sales \cap Logged = {}
  <1>1. /\ script'[u].sales = Unchecked /\ script'[u].posts = PiecesOf(u, Unchecked)
        /\ ~purchase.checked /\ script'[u].copy \in PurchaseCopies
        /\ script'[u].pieces \subseteq Pieces
        /\ script'[u].copy.amount + Cardinality(splits \cup script'[u].pieces)
             = purchase.amount + Cardinality(splits)
        /\ Cardinality(splits \cup script'[u].pieces) + LastUnit(script'[u].copy)
             = Cardinality(splits) + Cardinality(Unchecked)
    BY Listed
  <1>2. Unchecked \subseteq Sales /\ Logged \subseteq Sales /\ Unchecked \cap Logged = {}
    BY DEF Unchecked, Logged
  <1>3. Cardinality(Logged \cup Unchecked) = Cardinality(Logged) + Cardinality(Unchecked)
    <2>1. /\ IsFiniteSet(Unchecked) /\ IsFiniteSet(Logged)
          /\ Cardinality(Unchecked) \in Nat /\ Cardinality(Logged) \in Nat
      BY <1>2, FiniteSales
    <2>2. Cardinality(Logged \cup Unchecked)
            = Cardinality(Logged) + Cardinality(Unchecked) - Cardinality(Logged \cap Unchecked)
      BY <2>1, FS_Union
    <2>3. Logged \cap Unchecked = {}
      BY <1>2
    <2>4. Cardinality(Logged \cap Unchecked) = 0
      BY <2>3, FS_EmptySet
    <2>5. QED
      BY <2>1, <2>2, <2>4
  <1>4. /\ Cardinality(splits) \in Nat /\ Cardinality(splits \cup script'[u].pieces) \in Nat
        /\ Cardinality(Logged) \in Nat /\ Cardinality(Unchecked) \in Nat
        /\ LastUnit(script'[u].copy) \in Nat /\ LastUnit(purchase) = 0
    <2>1. splits \subseteq Pieces
      BY DEF TypeInv, ScriptsTypeOK
    <2>2. splits \cup script'[u].pieces \subseteq Pieces
      BY <1>1, <2>1
    <2>3. QED
      BY <1>1, <1>2, <2>1, <2>2, FiniteBooks, FiniteSales DEF LastUnit
  <1>5. QED
    BY <1>1, <1>2, <1>3, <1>4 DEF Drew

\* A sale that is posted is not logged yet.
LEMMA LoggedPost ==
    ASSUME TypeInv, NEW s \in Sales, PostSale(s)
    PROVE  Logged' = Logged /\ UNCHANGED <<purchase, splits, cogs, script, tainted, orphans>>
  <1>1. sell \in [Sales -> {"absent", "posted", "logged"}]
    BY DEF TypeInv, ScriptsTypeOK
  <1>2. QED
    BY <1>1 DEF PostSale, Logged

\* When the costs of a run have been posted, its sales have one each.
LEMMA Posted ==
    ASSUME NEW u \in Users, NEW L, script[u].sales \subseteq L,
           PostsToCome(script[u], L \ script[u].sales), cogs' = cogs \cup script[u].posts
    PROVE  OneCostEach(cogs' \ orphans, L)
  <1> DEFINE old == cogs \ orphans
             new == cogs' \ orphans
             Piece(s) == [run |-> script[u].id, sale |-> s]
  <1>1. /\ OneCostEach(old, L \ script[u].sales)
        /\ script[u].posts = {Piece(s) : s \in script[u].sales}
        /\ orphans \subseteq cogs /\ \A c \in cogs : c.run # script[u].id
    BY DEF PostsToCome
  <1>2. \A s \in script[u].sales : Piece(s) \in new /\ Piece(s).sale = s
    BY <1>1
  <1>3. \A x \in new : x \in old \/ \E s \in script[u].sales : x = Piece(s)
    BY <1>1
  <1>4. old \subseteq new
    OBVIOUS
  <1> HIDE DEF old, new
  <1>5. \A x \in new : x.sale \in L
    BY <1>1, <1>2, <1>3 DEF OneCostEach
  <1> HIDE DEF Piece
  <1>6. ASSUME NEW s \in L PROVE \E c \in new : {x \in new : x.sale = s} = {c}
    <2>1. CASE s \in script[u].sales
      <3>1. \A x \in old : x.sale # s
        BY <1>1, <2>1 DEF OneCostEach
      <3>2. \A x \in new : x.sale = s => x = Piece(s)
        BY <1>2, <1>3, <3>1
      <3>3. {x \in new : x.sale = s} = {Piece(s)}
        BY <1>2, <2>1, <3>2
      <3>4. QED
        BY <1>2, <2>1, <3>3
    <2>2. CASE s \notin script[u].sales
      <3>1. PICK c \in old : {x \in old : x.sale = s} = {c}
        BY <1>1, <2>2 DEF OneCostEach
      <3>2. \A x \in new : x.sale = s => x \in old
        BY <1>2, <1>3, <2>2
      <3>3. {x \in new : x.sale = s} = {c}
        BY <1>4, <3>1, <3>2
      <3>4. QED
        BY <1>4, <3>1, <3>3
    <2>3. QED
      BY <2>1, <2>2
  <1>7. QED
    BY <1>5, <1>6 DEF OneCostEach, new

\* SoundInv is an invariant.
LEMMA SoundInvariant == Spec => []SoundInv
  <1>1. Init => SoundInv
    <2> SUFFICES ASSUME Init PROVE SoundInv
      OBVIOUS
    <2>1. Working = {} /\ \A u \in Users : script[u].pc = "idle"
      BY DEF Init, NoScript, Working
    <2>2. Logged = {} /\ splits = {} /\ cogs = {} /\ orphans = {} /\ purchase = Untouched
      BY DEF Init, Logged
    <2>3. Drew(purchase, splits, Logged)
      BY <2>2, RunAssumption, FS_EmptySet DEF Drew, LastUnit, Untouched
    <2>4. SoundBooks
      BY <2>2, <2>3 DEF SoundBooks, OneCostEach
    <2>5. QED
      BY <2>1, <2>4 DEF SoundInv
  <1>2. TypeInv /\ LoneInv /\ IdInv /\ SoundInv /\ [Next]_vars => SoundInv'
    <2> SUFFICES ASSUME TypeInv, LoneInv, IdInv, SoundInv, [Next]_vars, ~tainted' PROVE SoundInv'
      BY DEF SoundInv
    <2>t. script \in [Users -> ScriptRecords] /\ ScriptsTypeOK
      BY DEF TypeInv, ScriptsTypeOK
    <2>1. ASSUME NEW u \in Users, NEW pc \in {"list", "resetList"},
                 NEW id \in RunIds \cup {NoRun}, Start(u, pc, id)
          PROVE  SoundInv'
      <3>1. /\ script'[u].pc = pc /\ script'[u].alone = AllIdle
            /\ \A w \in Users : w # u => script'[w].pc = script[w].pc
        BY <2>1, <2>t, Started DEF Calls
      <3>2. ~tainted /\ AllIdle /\ UNCHANGED <<purchase, splits, sell, cogs, orphans>>
        BY <2>1 DEF Start, books
      <3>3. \A w \in Users : w # u => script'[w].pc = "idle"
        BY <3>1, <3>2 DEF AllIdle, Working
      <3>4. Logged' = Logged /\ SoundBooks
        BY <3>2 DEF SoundInv, Logged
      <3>5. SoundBooks'
        BY <3>2, <3>4 DEF SoundBooks
      <3>6. ~AllIdle'
        BY <3>1 DEF AllIdle, Working
      <3>7. QED
        BY <3>1, <3>2, <3>3, <3>5, <3>6 DEF SoundInv, Working
    <2>2. ASSUME NEW u \in Users, RunStep(u) PROVE SoundInv'
      <3>w. script[u].pc # "idle" /\ \A w \in Users : w # u => script'[w] = script[w]
        BY <2>2, WentOn
      <3>a. script[u].alone
        <4>1. CASE tainted
          BY <2>2, <4>1 DEF RunStep, ListTransactions, CreateInventoryTransactions,
                UpdateInventoryTransactions, CreateFinancialTransactions,
                ListTransactionsToReset, TrashFinancialTransactions,
                RestoreInventoryTransactions, TrashInventoryTransactions, ClearAccount, Die
        <4>2. QED
          BY <3>w, <4>1 DEF SoundInv, Working
      <3>o. \A w \in Users : w # u => script'[w].pc = "idle"
        BY <3>a, <3>w DEF LoneInv
      <3>u. ClearAccount(u) \/ (~tainted /\ ~Die(u))
        BY <2>2 DEF RunStep, ListTransactions, CreateInventoryTransactions,
              UpdateInventoryTransactions, CreateFinancialTransactions,
              ListTransactionsToReset, TrashFinancialTransactions,
              RestoreInventoryTransactions, TrashInventoryTransactions, Die
      \* A run that returns leaves the books sound.
      <3>1. ASSUME Return(u), SoundBooks'
            PROVE  SoundInv'
        <4>1. \A w \in Users : script'[w].pc = "idle"
          BY <2>t, <3>1, <3>o, Returned
        <4>2. QED
          BY <3>1, <4>1 DEF SoundInv, Working
      \* A run that goes on only needs what its next call says.
      <3>2. ASSUME script'[u].pc \notin {"idle", "list", "resetList"}, script'[u].alone,
                   script'[u].pc = "createInventory" =>
                      /\ Drew(script[u].copy, splits \cup script[u].pieces, Logged \cup script[u].sales)'
                      /\ (PostsToCome(script[u], Logged) /\ script[u].sales \cap Logged = {})',
                   script'[u].pc = "updateInventory" =>
                      /\ Drew(script[u].copy, splits, Logged \cup script[u].sales)'
                      /\ (PostsToCome(script[u], Logged) /\ script[u].sales \cap Logged = {})',
                   script'[u].pc = "createFinancial" =>
                      /\ Drew(purchase, splits, Logged)'
                      /\ (PostsToCome(script[u], Logged \ script[u].sales) /\ script[u].sales \subseteq Logged)'
            PROVE  SoundInv'
        <4>1. ~AllIdle'
          BY <3>2 DEF AllIdle, Working
        <4>2. QED
          BY <3>2, <3>o, <4>1 DEF SoundInv, Working
      <3>3. CASE ListTransactions(u)
        <4>1. /\ UNCHANGED <<purchase, splits, sell, cogs, orphans>> /\ script[u].pc = "list"
              /\ Logged' = Logged
          BY <3>3 DEF ListTransactions, books, At, Logged
        <4>2. ~tainted /\ SoundBooks
          BY <3>3, <3>u, <4>1 DEF SoundInv, ClearAccount, At
        <4>3. CASE Return(u)
          BY <3>1, <4>1, <4>2, <4>3 DEF SoundBooks
        <4>4. CASE ~Return(u)
          <5>1. script'[u].pc = "createInventory" /\ script'[u].alone /\ script'[u].id = script[u].id
            BY <3>3, <3>a, <4>4, Listed
          <5>2. /\ Drew(script'[u].copy, splits \cup script'[u].pieces, Logged \cup script'[u].sales)
                /\ script'[u].sales = Unchecked /\ script'[u].posts = PiecesOf(u, Unchecked)
                /\ script'[u].sales \cap Logged = {}
            BY <3>3, <4>2, <4>4, ListedSound DEF SoundBooks
          <5>3. \A c \in cogs : c.run # script[u].id
            BY <4>1 DEF IdInv
          <5>4. PostsToCome(script'[u], Logged)
            BY <4>2, <5>1, <5>2, <5>3 DEF PostsToCome, SoundBooks, PiecesOf
          <5>5. PostsToCome(script[u], Logged)'
            BY <4>1, <5>4 DEF PostsToCome
          <5>6. QED
            BY <3>2, <4>1, <5>1, <5>2, <5>5
        <4>5. QED
          BY <4>3, <4>4
      <3>4. CASE CreateInventoryTransactions(u)
        <4>1. /\ UNCHANGED <<purchase, sell, cogs, orphans>> /\ script[u].pc = "createInventory"
              /\ splits' = splits \cup script[u].pieces /\ Logged' = Logged
              /\ Goto(u, "updateInventory") /\ "updateInventory" \in Calls
          BY <3>4 DEF CreateInventoryTransactions, At, Logged, Calls
        <4>2. /\ script'[u].pc = "updateInventory" /\ script'[u].alone
              /\ script'[u].copy = script[u].copy /\ script'[u].sales = script[u].sales
              /\ script'[u].posts = script[u].posts /\ script'[u].id = script[u].id
          BY <2>t, <3>a, <4>1, Moved
        <4>3. /\ Drew(script[u].copy, splits \cup script[u].pieces, Logged \cup script[u].sales)
              /\ PostsToCome(script[u], Logged) /\ script[u].sales \cap Logged = {}
          BY <3>u, <4>1 DEF SoundInv, ClearAccount, At
        <4>4. PostsToCome(script[u], Logged)'
          BY <4>1, <4>2, <4>3 DEF PostsToCome
        <4>5. QED
          BY <3>2, <4>1, <4>2, <4>3, <4>4
      <3>5. CASE UpdateInventoryTransactions(u)
        <4>1. /\ UNCHANGED <<splits, cogs, orphans>> /\ script[u].pc = "updateInventory"
              /\ purchase' = script[u].copy
              /\ sell' = [s \in Sales |-> IF s \in script[u].sales THEN "logged" ELSE sell[s]]
              /\ Goto(u, "createFinancial") /\ "createFinancial" \in Calls
          BY <3>5 DEF UpdateInventoryTransactions, At, Calls
        <4>2. /\ script'[u].pc = "createFinancial" /\ script'[u].alone
              /\ script'[u].posts = script[u].posts /\ script'[u].id = script[u].id
              /\ script'[u].sales = script[u].sales
          BY <2>t, <3>a, <4>1, Moved
        <4>3. /\ Drew(script[u].copy, splits, Logged \cup script[u].sales)
              /\ PostsToCome(script[u], Logged) /\ script[u].sales \cap Logged = {}
          BY <3>u, <4>1 DEF SoundInv, ClearAccount, At
        <4>4. Logged' = Logged \cup script[u].sales
          <5>1. script[u].sales \subseteq Sales
            BY <2>t DEF ScriptRecords
          <5>2. QED
            BY <4>1, <5>1 DEF Logged
        <4>5. Logged' \ script[u].sales = Logged
          BY <4>3, <4>4
        <4>6. PostsToCome(script[u], Logged \ script[u].sales)'
          BY <4>1, <4>2, <4>3, <4>5 DEF PostsToCome
        <4>7. QED
          BY <3>2, <4>1, <4>2, <4>3, <4>4, <4>6
      <3>6. CASE CreateFinancialTransactions(u)
        <4>1. /\ UNCHANGED <<purchase, splits, sell, orphans>> /\ script[u].pc = "createFinancial"
              /\ cogs' = cogs \cup script[u].posts
              /\ Return(u) /\ Logged' = Logged
          BY <3>6 DEF CreateFinancialTransactions, At, Logged
        <4>2. /\ Drew(purchase, splits, Logged) /\ script[u].sales \subseteq Logged
              /\ PostsToCome(script[u], Logged \ script[u].sales)
          BY <3>u, <4>1 DEF SoundInv, ClearAccount, At
        <4>3. OneCostEach(cogs' \ orphans, Logged)
          BY <4>1, <4>2, Posted
        <4>4. SoundBooks'
          BY <4>1, <4>2, <4>3 DEF SoundBooks, PostsToCome
        <4>5. QED
          BY <3>1, <4>1, <4>4
      <3>7. CASE ClearAccount(u)
        <4>1. /\ splits = {} /\ purchase = Untouched /\ NoneLogged
              /\ UNCHANGED <<purchase, splits, sell>> /\ Return(u)
          BY <3>7, <3>a DEF ClearAccount, At, LoneInv, books
        <4>2. Logged' = {} /\ splits' = {} /\ purchase' = Untouched
          BY <4>1 DEF Logged, NoneLogged
        <4>3. Drew(purchase, splits, Logged)'
          BY <4>2, RunAssumption, FS_EmptySet DEF Drew, LastUnit, Untouched
        <4>4. orphans' = cogs'
          BY <3>7, <3>a DEF ClearAccount, books
        <4>5. SoundBooks'
          BY <4>2, <4>3, <4>4 DEF SoundBooks, OneCostEach
        <4>6. QED
          BY <3>1, <4>1, <4>5
      <3>8. CASE \/ ListTransactionsToReset(u) \/ TrashFinancialTransactions(u)
                 \/ RestoreInventoryTransactions(u) \/ TrashInventoryTransactions(u)
        <4>1. /\ script'[u].pc \in {"trashFinancial", "restoreInventory", "trashInventory",
                                    "clearAccount"}
              /\ script'[u].alone
          BY <2>t, <3>8, <3>a, Moved, CollectedTypes DEF ListTransactionsToReset,
             TrashFinancialTransactions, RestoreInventoryTransactions,
             TrashInventoryTransactions, Calls
        <4>2. QED
          BY <3>2, <4>1
      <3>9. QED
        BY <2>2, <3>3, <3>4, <3>5, <3>6, <3>7, <3>8, <3>u DEF RunStep
    <2>3. CASE Logged' = Logged /\ UNCHANGED <<purchase, splits, cogs, script, tainted, orphans>>
      BY <2>3 DEF SoundInv, SoundBooks, PostsToCome, Working, AllIdle
    <2>4. QED
      BY <2>1, <2>2, <2>3, LoggedPost DEF Next, vars, books, Calculate, Reset, Logged
  <1>3. QED
    BY <1>1, <1>2, TypeInvariant, LoneInvariant, IdInvariant, PTL DEF Spec

\* A reset that runs alone starts afresh: as long as the runs after it neither overlap
\* nor die, what was drawn from the purchase is what the logged sales have sold, and
\* each of them has one cost of sales of its own, besides the costs that the runs
\* before the reset have left behind.
THEOREM SoundFromThenOn == Spec => []SoundAfterReset
  <1>1. SoundInv => SoundAfterReset
    <2> SUFFICES ASSUME SoundInv, AllIdle, ~tainted PROVE SoundAfterReset
      BY DEF SoundAfterReset
    <2>1. Drew(purchase, splits, Logged) /\ OneCostEach(cogs \ orphans, Logged)
      BY DEF SoundInv, SoundBooks
    <2>2. ASSUME NEW s \in Sales
          PROVE  LET own == {c \in cogs \ orphans : c.sale = s} IN
                 IF sell[s] = "logged" THEN \E c \in own : own = {c} ELSE own = {}
      <3> DEFINE own == {c \in cogs \ orphans : c.sale = s}
      <3>1. CASE sell[s] = "logged"
        <4>1. PICK c \in cogs \ orphans : own = {c}
          BY <2>1, <3>1 DEF OneCostEach, Logged
        <4>2. QED
          BY <3>1, <4>1
      <3>2. CASE sell[s] # "logged"
        BY <2>1, <3>2 DEF OneCostEach, Logged
      <3>3. QED
        BY <3>1, <3>2
    <2>3. QED
      BY <2>1, <2>2 DEF SoundAfterReset, Drew, LastUnit, Logged
  <1>2. QED
    BY <1>1, SoundInvariant, PTL
==============================================================================
