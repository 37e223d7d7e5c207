----------------------------- MODULE MCSession -----------------------------
(* TLC instances of Session. *)
EXTENDS Session, TLC

Symmetry == Permutations(Threads)
=============================================================================
