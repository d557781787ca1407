-------------------------- MODULE MCObjectWrapper --------------------------
(* Instances of ObjectWrapper for TLC. *)
EXTENDS ObjectWrapper, TLC

CONSTANTS o1, o2, w1, w2, w3, base, sub, v0, v1

MixedType == [o \in Object |-> IF o = o1 THEN sub ELSE base]
Blocks == Permutations(Wrapper)
=============================================================================
