------------------------------- MODULE Ordered --------------------------------
(***************************************************************************)
(* Lists in order: the numbers of a finite set, and the items of a list at *)
(* some of its positions.  A service answers rows and columns sorted, and  *)
(* a screen filters the rows of a grid; both are written here with plain   *)
(* functions, so that they can be reasoned about.                          *)
(***************************************************************************)
EXTENDS Integers, FiniteSets

\* how many numbers of a set are below one of them
Rank(r, S) == Cardinality({q \in S : q < r})
\* the numbers of a finite set, in order
InOrder(S) == [i \in 1..Cardinality(S) |-> CHOOSE s \in S : Rank(s, S) = i - 1]
\* the items of a list at some of its positions, in order
At(list, S) == LET at == InOrder(S) IN [i \in DOMAIN at |-> list[at[i]]]
===============================================================================
