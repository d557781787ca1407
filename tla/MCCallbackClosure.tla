------------------------- MODULE MCCallbackClosure -------------------------
(* Instances of CallbackClosure for TLC. *)
EXTENDS CallbackClosure, TLC

Interchangeable == Permutations(Block) \cup Permutations(Call)
=============================================================================
