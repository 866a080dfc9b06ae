----------------------------- MODULE Replication -----------------------------
(***************************************************************************)
(* What the replication of financial transactions promises: a transaction  *)
(* that a user has checked, and that describes a movement of goods, gets   *)
(* exactly one transaction in the Inventory Book, in one step.             *)
(***************************************************************************)
EXTENDS Naturals

CONSTANTS
    Txs,         \* transactions of the Financial Book
    Replicable   \* those that describe a purchase, a sale or a credit note

VARIABLES
    asked,    \* transactions that have been checked
    replicas  \* the number of transactions of the Inventory Book for each

PromiseInit ==
    /\ asked = {}
    /\ replicas = [t \in Txs |-> 0]

Ask(t) ==
    /\ asked' = asked \cup {t}
    /\ UNCHANGED replicas

Replicate(t) ==
    /\ t \in asked \cap Replicable /\ replicas[t] = 0
    /\ replicas' = [replicas EXCEPT ![t] = 1]
    /\ UNCHANGED asked

PromiseNext == \E t \in Txs : Ask(t) \/ Replicate(t)

PromiseVars == <<asked, replicas>>

Promise == PromiseInit /\ [][PromiseNext]_PromiseVars

\* Every transaction that has been asked for is replicated in the end.
FairPromise == Promise /\ \A t \in Txs : WF_PromiseVars(Replicate(t))
==============================================================================
