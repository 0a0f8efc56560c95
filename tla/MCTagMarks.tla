----------------------------- MODULE MCTagMarks -----------------------------
(* Instances of TagMarks for TLC. *)
EXTENDS TagMarks, TLC

\* Images, users, names and request slots are interchangeable.
Symmetry == Permutations(Image) \cup Permutations(User)
            \cup Permutations(Name) \cup Permutations(Req)

=============================================================================
