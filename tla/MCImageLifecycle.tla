-------------------------- MODULE MCImageLifecycle --------------------------
(* Instances of ImageLifecycle for TLC. *)
EXTENDS ImageLifecycle, TLC

\* Images and request slots are interchangeable (not in runs with liveness).
Symmetry == Permutations(Image) \cup Permutations(Req)

=============================================================================
