------------------------------ MODULE Listing ------------------------------
(***************************************************************************)
(* Lists as both packages make them: a set of results put in the order of  *)
(* a sort key, some of them picked out, and the first few of those.        *)
(***************************************************************************)
EXTENDS Integers, Sequences

\* The elements of S in an order that respects R, a set of pairs whose first
\* element goes before its second; elements R does not tell apart are in some
\* fixed order.
InOrder(S, R) ==
    LET sorted[T \in SUBSET S] ==
          IF T = {} THEN <<>>
          ELSE LET first == CHOOSE x \in T : \A y \in T : <<y, x>> \notin R
               IN  <<first>> \o sorted[T \ {first}]
    IN  sorted[S]

\* The elements of s that are in P, in their order: SelectSeq with a set for
\* the test.
Those(s, P) ==
    LET kept[n \in 0..Len(s)] ==
          IF n = 0 THEN <<>>
          ELSE IF s[n] \in P THEN Append(kept[n - 1], s[n]) ELSE kept[n - 1]
    IN  kept[Len(s)]

\* The first n elements of s, or all of them.
Upto(s, n) == SubSeq(s, 1, IF Len(s) < n THEN Len(s) ELSE n)
=============================================================================
