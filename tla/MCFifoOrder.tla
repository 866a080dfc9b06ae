----------------------------- MODULE MCFifoOrder -----------------------------
(***************************************************************************)
(* Enumerates pairs of transactions, so that TLC can compare the order     *)
(* compareToFIFO puts them in with the order they were recorded in.        *)
(***************************************************************************)
EXTENDS FifoOrder

CONSTANTS
    DateValues,   \* dates of the enumerated transactions
    OrderValues,  \* values of the order property, 0 for none
    Instants      \* creation instants, in milliseconds

VARIABLES t1, t2

keys == <<t1, t2>>

EnumeratedKeys == [date : DateValues, order : OrderValues, createdAt : Instants]

Init == t1 \in EnumeratedKeys /\ t2 \in EnumeratedKeys

\* The pair is given; there is nothing more to do.
Next == UNCHANGED keys

Spec == Init /\ [][Next]_keys

\* First in, first out: the comparator never places a transaction before one
\* that was recorded earlier (README: "based on the oldest purchases still in
\* inventory").
OldestFirst ==
    RecordedBefore(t1, t2) => compareToFIFO(t1, t2) <= 0

==============================================================================
