------------------------------ MODULE Listings ------------------------------
(***************************************************************************)
(* How the server lists things: the newest first (ORDER BY created_at DESC *)
(* and the like), a higher number being newer.                             *)
(***************************************************************************)
EXTENDS Integers, FiniteSets

\* The n-th of the list is the one with n - 1 newer ones.
Newer(S, i) == {j \in S : j > i}
Descending(S) ==
    [n \in 1..Cardinality(S) |-> CHOOSE i \in S : Cardinality(Newer(S, i)) = n - 1]

=============================================================================
