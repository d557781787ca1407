----------------------------- MODULE MCWeakRef ------------------------------
(* Instances of WeakRef for TLC. *)
EXTENDS WeakRef, TLC

Interchangeable == Permutations(Closure) \cup Permutations(Weak)
=============================================================================
