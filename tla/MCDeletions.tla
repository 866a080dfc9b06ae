----------------------------- MODULE MCDeletions -----------------------------
(***************************************************************************)
(* Instances of Deletions for TLC: two purchases, two sales and one credit *)
(* note of one good.                                                       *)
(***************************************************************************)
EXTENDS Deletions, TLC

CONSTANTS p1, p2, s1, s2, n1, codeA, codeB

OwnCodes == [p \in Purchases |-> IF p = p1 THEN codeA ELSE codeB]
OneNote == n1 :> codeA
OneNumber == n1 :> 1
NoNote == <<>>

\* Transactions posted or ticked by hand are dealt with before the next run; no run
\* comes between the two calls that uncheck and trash a sale. The other kinds are
\* those whose handlers change nothing, so that it is all the same when they answer.
Unhandled == {"goods", "cogs", "additionalCost"}
PromptHandlers ==
    (({"posted", "ticked"} \cup Unhandled) \X Steps) \cup {<<"sale", "trash">>}

Orders == [t \in Purchases \cup Sales |-> 0]
Instants == [t \in Purchases \cup Sales |->
                CASE t = p1 -> 10 [] t = p2 -> 20 [] t = s1 -> 30 [] t = s2 -> 40]
==============================================================================
