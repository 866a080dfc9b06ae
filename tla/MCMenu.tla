------------------------------- MODULE MCMenu -------------------------------
(***************************************************************************)
(* An instance of Menu for TLC: two goods and an account that is no asset; *)
(* pages are opened for one of each, for a group and for the book.         *)
(***************************************************************************)
EXTENDS Menu

AllKinds ==
    {[kind |-> "account", accounts |-> {2}],
     [kind |-> "account", accounts |-> {3}],
     [kind |-> "group", accounts |-> {1, 3}],
     [kind |-> "book", accounts |-> {}]}
==============================================================================
