---------------------------- MODULE MCAuthTokens ----------------------------
(* Instances of AuthTokens for TLC. *)
EXTENDS AuthTokens, TLC

\* Tokens and request slots are interchangeable.
Symmetry == Permutations(Token) \cup Permutations(Req)

=============================================================================
