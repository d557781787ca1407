---------------------------- MODULE MCAwaitable ----------------------------
(* Instances of Awaitable for TLC. *)
EXTENDS Awaitable, TLC
=============================================================================
