--------------------------- MODULE SigintFallback ---------------------------
(***************************************************************************)
(* Ctrl+C in blocking calls (gi/_ossighelper.py): while the default        *)
(* handler is active, the outermost call that runs a main loop installs a  *)
(* handler of its own; nested calls only add the function that ends their  *)
(* loop.  SIGINT ends the innermost loop, and each level that returns ends *)
(* the next one; the outermost raises KeyboardInterrupt.                   *)
(*                                                                         *)
(* A callback is named by the loop it quits.  All of it runs on the main   *)
(* thread of a program that leaves the handler of SIGINT alone.            *)
(***************************************************************************)
EXTENDS Integers, Sequences, SequencesExt

VARIABLES
    callback_stack, \* _callback_stack
    sigint_called,  \* _sigint_called
    handler         \* the handler of SIGINT: "default" or "ours"

svars == <<callback_stack, sigint_called, handler>>

SigintInit ==
    /\ callback_stack = <<>>
    /\ sigint_called = FALSE
    /\ handler = "default"

\* What register_sigint_fallback does for a level that begins now: "base"
\* installs the handler, "inner" adds a callback, "none" does nothing.
Registration ==
    IF handler = "default" THEN "base"
    ELSE IF callback_stack # <<>> THEN "inner" ELSE "none"

Register(cb) ==
    /\ callback_stack' = IF Registration = "none" THEN callback_stack
                         ELSE Append(callback_stack, cb)
    /\ sigint_called' = IF Registration = "base" THEN FALSE ELSE sigint_called
    /\ handler' = IF Registration = "base" THEN "ours" ELSE handler

\* A level ends: the callbacks that are called by it.
CalledOnExit(kind) ==
    IF kind = "inner" /\ sigint_called THEN {Last(callback_stack)} ELSE {}

Unregister(kind) ==
    /\ callback_stack' = IF kind = "inner" \/ (kind = "base" /\ ~sigint_called)
                         THEN Front(callback_stack) ELSE callback_stack
    /\ handler' = IF kind = "base" /\ handler = "ours" THEN "default" ELSE handler
    /\ UNCHANGED sigint_called

\* Fault: the outermost level is told first.
FirstCallback == [called |-> Head(callback_stack), left |-> Tail(callback_stack)]

\* _callback_stack.pop().
PoppedCallback == [called |-> Last(callback_stack), left |-> Front(callback_stack)]

\* sigint_handler; later signals are ignored.
HandleSigint ==
    /\ handler = "ours"
    /\ ~sigint_called
    /\ sigint_called' = TRUE
    /\ callback_stack' = PoppedCallback.left
    /\ UNCHANGED handler
=============================================================================
