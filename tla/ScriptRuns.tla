----------------------------- MODULE ScriptRuns -----------------------------
(***************************************************************************)
(* Script runs of several users on one good account. validate looks at the *)
(* backlog of the Inventory Book only, which a run in progress need not    *)
(* fill, so that runs may overlap: each lists the transactions, works on   *)
(* its copies and fires its batches between the calls of the others.       *)
(*                                                                         *)
(* Data. There is one purchase, and every sale is of one unit; costs, and  *)
(* the properties of the account, are left to CostOfSales. Splits and      *)
(* costs of sales have an identity here, the run that created them and     *)
(* the sale, because a run trashes those it has listed and no others. A    *)
(* calculation of an account that is flagged for rebuild is a reset.       *)
(***************************************************************************)
EXTENDS Integers, FiniteSets

CONSTANTS
    Users,
    Sales,
    Bought,     \* quantity of the purchase
    RunIds,     \* bounds the calculations that left traces in the books
    NoRun

ASSUME RunAssumption ==
    Bought \in Nat \ {0} /\ IsFiniteSet(Sales) /\ IsFiniteSet(RunIds) /\ NoRun \notin RunIds

VARIABLES
    purchase,  \* what is left of the purchase, and whether it is checked
    splits,    \* its splits in the Inventory Book
    sell,      \* sales: absent, posted, or logged (costed and checked)
    cogs,      \* costs of sales in the Financial Book
    script,    \* the script run of each user
    mixed,     \* history: did a calculation and a reset overlap?
    tainted,   \* history: did any runs overlap, or did one die?
    orphans    \* history: the costs of sales that the last lone reset left behind

books == <<purchase, splits, sell, cogs>>
vars == <<books, script, mixed, tainted, orphans>>

Pieces == [run : RunIds, sale : Sales]
PurchaseCopies == [amount : Nat \ {0}, checked : BOOLEAN]
Untouched == [amount |-> Bought, checked |-> FALSE]

Calls ==
    {"idle", "list", "createInventory", "updateInventory", "createFinancial",
     "resetList", "trashFinancial", "restoreInventory", "trashInventory", "clearAccount"}
Resetting == {"resetList", "trashFinancial", "restoreInventory", "trashInventory", "clearAccount"}
Calculating == Calls \ (Resetting \cup {"idle"})

\* sales: those to log or restore; pieces: splits to create or trash; posts: costs
\* of sales to create or trash; copy: the purchase as it will be written.
\* alone is history: no other run has been at work since this one started.
ScriptRecords ==
    [pc : Calls, id : RunIds \cup {NoRun}, sales : SUBSET Sales, pieces : SUBSET Pieces,
     posts : SUBSET Pieces, copy : PurchaseCopies, alone : BOOLEAN]
NoScript ==
    [pc |-> "idle", id |-> NoRun, sales |-> {}, pieces |-> {}, posts |-> {},
     copy |-> Untouched, alone |-> TRUE]

ScriptsTypeOK ==
    /\ purchase \in PurchaseCopies
    /\ splits \subseteq Pieces /\ cogs \subseteq Pieces
    /\ sell \in [Sales -> {"absent", "posted", "logged"}]
    /\ script \in [Users -> ScriptRecords]
    /\ mixed \in BOOLEAN /\ tainted \in BOOLEAN /\ orphans \subseteq Pieces

Init ==
    /\ purchase = Untouched
    /\ splits = {} /\ cogs = {}
    /\ sell = [s \in Sales |-> "absent"]
    /\ script = [u \in Users |-> NoScript]
    /\ mixed = FALSE /\ tainted = FALSE /\ orphans = {}
------------------------------------------------------------------------------
Working == {u \in Users : script[u].pc # "idle"}
AllIdle == Working = {}
At(u, pc) == script[u].pc = pc
Goto(u, pc) == script' = [script EXCEPT ![u].pc = pc]

PostSale(s) ==
    /\ sell[s] = "absent"
    /\ sell' = [sell EXCEPT ![s] = "posted"]
    /\ UNCHANGED <<purchase, splits, cogs, script, mixed, tainted, orphans>>

\* validate lets the user through, and the view fires the run: no run of another
\* user is looked for.
Start(u, pc, id) ==
    /\ At(u, "idle")
    /\ script' = [w \in Users |->
          IF w = u THEN [NoScript EXCEPT !.pc = pc, !.id = id, !.alone = AllIdle]
          ELSE [script[w] EXCEPT !.alone = @ /\ w \notin Working]]
    /\ tainted' = (tainted \/ ~AllIdle)
    /\ mixed' = (mixed \/ \E w \in Working :
                    (script[w].pc \in Resetting) # (pc \in Resetting))
    /\ UNCHANGED <<books, orphans>>

\* The identities of calculations that are at work or have left a trace.
UsedIds == {x.run : x \in splits \cup cogs} \cup {script[u].id : u \in Users}

Calculate(u) == \E id \in RunIds \ UsedIds : Start(u, "list", id)
Reset(u) == Start(u, "resetList", NoRun)

\* The run returns to its user.
Return(u) == script' = [script EXCEPT ![u] = NoScript]
------------------------------------------------------------------------------
(* A calculation *)

\* Mutant: a sale of all that is left is split off like any other.
Drawn_Split(p, n) == [p EXCEPT !.amount = @ - n]

\* The purchase after the units of n sales have been drawn from it, one split for
\* each, or checked when the last sale takes all that is left.
Drawn(p, n) ==
    IF n = p.amount THEN [amount |-> 1, checked |-> TRUE]
    ELSE [p EXCEPT !.amount = @ - n]

\* The purchase counts as long as it is not checked.
Available == IF purchase.checked THEN 0 ELSE purchase.amount

Unchecked == {s \in Sales : sell[s] = "posted"}

\* A transaction for each of the sales, created by the run of u.
PiecesOf(u, S) == {[run |-> script[u].id, sale |-> s] : s \in S}

\* The run after it has costed the sales S in memory, with a split for some of them.
Costed(u, S, split, copy) ==
    [script[u] EXCEPT !.pc = "createInventory", !.sales = S, !.copy = copy,
                      !.pieces = PiecesOf(u, split), !.posts = PiecesOf(u, S)]

\* The posted sales and the purchase are listed and the sales costed in memory; the
\* sale that takes all that is left of the purchase needs no split.
ListTransactions(u) ==
    /\ At(u, "list")
    /\ LET S == Unchecked
           copy == Drawn(purchase, Cardinality(S))
       IN  \/ /\ S = {} \/ Cardinality(S) > Available
              /\ Return(u)
           \/ /\ S # {} /\ Cardinality(S) <= Available
              /\ \E last \in S :
                    script' = [script EXCEPT ![u] =
                        Costed(u, S, IF copy.checked THEN S \ {last} ELSE S, copy)]
    /\ UNCHANGED <<books, mixed, tainted, orphans>>

\* Mutant: the run stores the purchase before its splits exist.
CreateInventoryTransactions_Late(u) ==
    /\ At(u, "createInventory")
    /\ purchase' = script[u].copy
    /\ Goto(u, "updateInventory")
    /\ UNCHANGED <<splits, sell, cogs, mixed, tainted, orphans>>

CreateInventoryTransactions(u) ==
    /\ At(u, "createInventory")
    /\ splits' = splits \cup script[u].pieces
    /\ Goto(u, "updateInventory")
    /\ UNCHANGED <<purchase, sell, cogs, mixed, tainted, orphans>>

\* The purchase is written as the run has it in memory.
UpdateInventoryTransactions(u) ==
    /\ At(u, "updateInventory")
    /\ purchase' = script[u].copy
    /\ sell' = [s \in Sales |-> IF s \in script[u].sales THEN "logged" ELSE sell[s]]
    /\ Goto(u, "createFinancial")
    /\ UNCHANGED <<splits, cogs, mixed, tainted, orphans>>

\* Mutant: a sale that has a cost of sales gets no other.
CreateFinancialTransactions_Once(u) ==
    /\ At(u, "createFinancial")
    /\ cogs' = cogs \cup {c \in script[u].posts : \A d \in cogs : d.sale # c.sale}
    /\ Return(u)
    /\ UNCHANGED <<purchase, splits, sell, mixed, tainted, orphans>>

\* Nobody looks whether a sale has a cost of sales already.
CreateFinancialTransactions(u) ==
    /\ At(u, "createFinancial")
    /\ cogs' = cogs \cup script[u].posts
    /\ Return(u)
    /\ UNCHANGED <<purchase, splits, sell, mixed, tainted, orphans>>
------------------------------------------------------------------------------
(* A reset *)

\* Mutant: only the splits of sales that are logged are trashed.
SplitsToTrash_OfLogged == {x \in splits : sell[x.sale] = "logged"}

SplitsToTrash == splits

\* The first cost of sales that the query returns for each of the sales S.
FirstOfEach(S) ==
    {X \in SUBSET {c \in cogs : c.sale \in S} :
        \A c \in cogs : c.sale \in S => \E x \in X : {y \in X : y.sale = c.sale} = {x}}

\* The run after it has collected the sales S, costs of sales and the splits.
Collected(u, S, posts) ==
    [script[u] EXCEPT !.pc = "trashFinancial", !.sales = S, !.pieces = SplitsToTrash,
                      !.posts = posts]

\* Everything is listed: the sales with a purchase log, one cost of sales of each,
\* the purchase and its splits.
ListTransactionsToReset(u) ==
    /\ At(u, "resetList")
    /\ LET S == {s \in Sales : sell[s] = "logged"} IN
       \E posts \in FirstOfEach(S) : script' = [script EXCEPT ![u] = Collected(u, S, posts)]
    /\ UNCHANGED <<books, mixed, tainted, orphans>>

TrashFinancialTransactions(u) ==
    /\ At(u, "trashFinancial")
    /\ cogs' = cogs \ script[u].posts
    /\ Goto(u, "restoreInventory")
    /\ UNCHANGED <<purchase, splits, sell, mixed, tainted, orphans>>

RestoreInventoryTransactions(u) ==
    /\ At(u, "restoreInventory")
    /\ purchase' = Untouched
    /\ sell' = [s \in Sales |-> IF s \in script[u].sales THEN "posted" ELSE sell[s]]
    /\ Goto(u, "trashInventory")
    /\ UNCHANGED <<splits, cogs, mixed, tainted, orphans>>

TrashInventoryTransactions(u) ==
    /\ At(u, "trashInventory")
    /\ splits' = splits \ script[u].pieces
    /\ Goto(u, "clearAccount")
    /\ UNCHANGED <<purchase, sell, cogs, mixed, tainted, orphans>>

ClearAccount(u) ==
    /\ At(u, "clearAccount")
    /\ mixed' = (mixed /\ ~script[u].alone)
    /\ tainted' = (tainted /\ ~script[u].alone)
    /\ orphans' = IF script[u].alone THEN cogs ELSE orphans
    /\ Return(u)
    /\ UNCHANGED books

\* A run dies between two calls.
Die(u) ==
    /\ script[u].pc # "idle"
    /\ tainted' = TRUE
    /\ Return(u)
    /\ UNCHANGED <<books, mixed, orphans>>
------------------------------------------------------------------------------
(* Specification *)

RunStep(u) ==
    \/ ListTransactions(u) \/ CreateInventoryTransactions(u)
    \/ UpdateInventoryTransactions(u) \/ CreateFinancialTransactions(u)
    \/ ListTransactionsToReset(u) \/ TrashFinancialTransactions(u)
    \/ RestoreInventoryTransactions(u) \/ TrashInventoryTransactions(u)
    \/ ClearAccount(u) \/ Die(u)

Next ==
    \/ \E s \in Sales : PostSale(s)
    \/ \E u \in Users : Calculate(u) \/ Reset(u) \/ RunStep(u)

Spec == Init /\ [][Next]_vars
------------------------------------------------------------------------------
(* Properties *)

\* Calculations that overlap, and die, may split off too much but never lose a
\* unit, and neither do resets that overlap: only a calculation that writes its
\* copy of the purchase over the work of a reset does.
NeverUndercounted == ~mixed => purchase.amount + Cardinality(splits) >= Bought

\* Whatever runs that overlapped or died have done to the Inventory Book, a reset
\* that runs alone puts it right.
LoneResetRestores ==
    \A u \in Users : At(u, "clearAccount") /\ script[u].alone =>
        /\ purchase = Untouched /\ splits = {}
        /\ \A s \in Sales : sell[s] # "logged"

\* From then on, as long as runs neither overlap nor die, what was drawn from the
\* purchase is what the logged sales have sold, and each logged sale, and no other,
\* has exactly one cost of sales besides those that the reset has left behind: a
\* run that overlapped or died may have posted costs that no reset finds.
SoundAfterReset ==
    AllIdle /\ ~tainted =>
        /\ purchase.amount + Cardinality(splits) = Bought
        /\ Cardinality({s \in Sales : sell[s] = "logged"})
             = Cardinality(splits) + (IF purchase.checked THEN 1 ELSE 0)
        /\ \A s \in Sales : LET own == {c \in cogs \ orphans : c.sale = s} IN
              IF sell[s] = "logged" THEN \E c \in own : own = {c} ELSE own = {}
==============================================================================
