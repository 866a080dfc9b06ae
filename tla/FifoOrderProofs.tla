--------------------------- MODULE FifoOrderProofs ---------------------------
(***************************************************************************)
(* compareToFIFO is a comparator that Array.sort can rely on, for any      *)
(* dates, orders and instants.                                             *)
(***************************************************************************)
EXTENDS FifoOrder, TLAPS

LEMMA MillisecondsType ==
    \A t \in FifoKeys : getMilliseconds(t.createdAt) \in Int
  BY DEF FifoKeys, getMilliseconds

\* Swapping the arguments of compareToFIFO flips its sign.
THEOREM CompareAntisymmetric ==
    ASSUME NEW t1 \in FifoKeys, NEW t2 \in FifoKeys
    PROVE  compareToFIFO(t1, t2) = -compareToFIFO(t2, t1)
  <1>1. /\ getMilliseconds(t1.createdAt) \in Int /\ getMilliseconds(t2.createdAt) \in Int
        /\ t1.date \in Int /\ t2.date \in Int /\ t1.order \in Int /\ t2.order \in Int
    BY MillisecondsType DEF FifoKeys
  <1>2. QED
    BY <1>1 DEF compareToFIFO

\* "Not after" is transitive, ties included, so that compareToFIFO sorts
\* purchases and sales into the same order whatever the sort algorithm, up to
\* ties.
THEOREM CompareTransitive ==
    ASSUME NEW t1 \in FifoKeys, NEW t2 \in FifoKeys, NEW t3 \in FifoKeys,
           compareToFIFO(t1, t2) <= 0, compareToFIFO(t2, t3) <= 0
    PROVE  compareToFIFO(t1, t3) <= 0
  <1>1. /\ getMilliseconds(t1.createdAt) \in Int /\ getMilliseconds(t2.createdAt) \in Int
        /\ getMilliseconds(t3.createdAt) \in Int
    BY MillisecondsType
  <1>2. /\ t1.date \in Int /\ t2.date \in Int /\ t3.date \in Int
        /\ t1.order \in Int /\ t2.order \in Int /\ t3.order \in Int
    BY DEF FifoKeys
  <1>3. QED
    BY <1>1, <1>2 DEF compareToFIFO
==============================================================================
