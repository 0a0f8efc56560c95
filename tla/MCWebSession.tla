---------------------------- MODULE MCWebSession ----------------------------
(* Instances of WebSession for TLC. *)
EXTENDS WebSession, TLC

\* Tokens, call slots and accounts are interchangeable.
Symmetry == Permutations(Token) \cup Permutations(Req) \cup Permutations(User)

=============================================================================
