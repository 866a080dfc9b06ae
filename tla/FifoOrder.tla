------------------------------ MODULE FifoOrder ------------------------------
(***************************************************************************)
(* The order in which the cost-of-sales service walks through sales and    *)
(* purchases: BotService.compareToFIFO of the menu server, the comparator  *)
(* handed to Array.sort.                                                   *)
(*                                                                         *)
(* A transaction is seen through the three values the comparator reads:    *)
(*   date      getDateValue(), the date as a number that grows with time;  *)
(*   order     the order property as a number, 0 when it is not set;       *)
(*   createdAt the instant Bkper recorded the transaction, in              *)
(*             milliseconds.                                               *)
(***************************************************************************)
EXTENDS Integers

FifoKeys == [date : Int, order : Int, createdAt : Nat]

\* Date.prototype.getMilliseconds: the millisecond within the second, 0..999.
getMilliseconds(instant) == instant % 1000

\* Negative: t1 goes first; positive: t2 goes first; zero: Array.sort keeps
\* them in the order the query returned them.
compareToFIFO(t1, t2) ==
    IF t1.date # t2.date THEN t1.date - t2.date
    ELSE IF t1.order # t2.order THEN t1.order - t2.order
    ELSE getMilliseconds(t1.createdAt) - getMilliseconds(t2.createdAt)

\* Recording order, the one a reader expects of "first in": date, then the
\* explicit order within the day, then the instant of creation.
RecordedBefore(t1, t2) ==
    \/ t1.date < t2.date
    \/ t1.date = t2.date /\ t1.order < t2.order
    \/ t1.date = t2.date /\ t1.order = t2.order /\ t1.createdAt < t2.createdAt

==============================================================================
