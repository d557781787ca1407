-------------------------- MODULE CallbackClosure --------------------------
(***************************************************************************)
(* The native closures through which C code calls Python callables:       *)
(* creation while a call is marshalled (gi/pygi-cache-closure.c), the     *)
(* handler libffi enters, the list of closures of finished async          *)
(* callbacks, and the three ways a closure is freed (gi/pygi-closure.c).  *)
(*                                                                         *)
(* An action runs with the GIL; between two actions of one handler or of  *)
(* one free Python code runs, which may do anything the model does, as    *)
(* may other threads.                                                      *)
(***************************************************************************)
EXTENDS Integers, FiniteSets, Sequences, SequencesExt

CONSTANTS
    Block,       \* memory blocks of closures; a freed one is used again
    Call,        \* activations of the handler
    NULL,
    NotifyInUse, \* C destroys its user_data inside the callback
    MaxCreated   \* bound on the closures created

ASSUME BlocksAssumption ==
    /\ IsFiniteSet(Block) /\ NULL \notin Block
    /\ NotifyInUse \in BOOLEAN /\ MaxCreated \in Nat

Scope == {"call", "async", "notified", "forever"}

VARIABLES
    block,           \* of each block: "free", "live", or "freeing" while
                     \* _pygi_invoke_closure_free clears the Python data
    scope,           \* closure->scope
    notify,          \* C has _pygi_invoke_closure_free as destroy notify
    holder,          \* "marshal", "callee" during the C call, "c" after it
    callable,        \* C may still invoke it
    function,        \* closure->function and user_data are set
    async_free_list,
    on, phase, ret,  \* of each activation: closure, progress, C return value
    created

blocks == <<block, scope, notify, holder, callable, function>>
calls == <<on, phase, ret>>
callback_vars == <<blocks, async_free_list, calls, created>>

CallbackInit ==
    /\ block = [c \in Block |-> "free"]
    /\ scope = [c \in Block |-> "call"]
    /\ notify = [c \in Block |-> FALSE]
    /\ holder = [c \in Block |-> "marshal"]
    /\ callable = [c \in Block |-> FALSE]
    /\ function = [c \in Block |-> FALSE]
    /\ async_free_list = <<>>
    /\ on = [k \in Call |-> NULL]
    /\ phase = [k \in Call |-> "idle"]
    /\ ret = [k \in Call |-> "unset"]
    /\ created = 0

InUse(c) == \E k \in Call : on[k] = c

(***************************************************************************)
(* Creation.                                                               *)
(***************************************************************************)

\* Fault: the list is not emptied.
SweptKeepsList == async_free_list

\* _pygi_make_native_closure first frees the closures on the list; they have
\* no Python data any more, so no Python code runs meanwhile.
Swept == <<>>

\* A scope, and whether C gets a destroy notify that frees: one without
\* user_data is a dummy, and a virtual method's closure has none.
Make(c, s, n) ==
    /\ created < MaxCreated
    /\ block[c] = "free" \/ c \in Range(async_free_list)
    /\ n => s = "notified"
    /\ block' = [d \in Block |-> IF d = c THEN "live"
                                   ELSE IF d \in Range(async_free_list) THEN "free"
                                   ELSE block[d]]
    /\ async_free_list' = Swept
    /\ scope' = [scope EXCEPT ![c] = s]
    /\ notify' = [notify EXCEPT ![c] = n]
    /\ holder' = [holder EXCEPT ![c] = "marshal"]
    /\ callable' = [callable EXCEPT ![c] = FALSE]
    /\ function' = [function EXCEPT ![c] = TRUE]
    /\ created' = created + 1
    /\ UNCHANGED calls

\* _pygi_invoke_closure_free up to Py_CLEAR, whose destructors are Python code.
BeginFree(c) ==
    /\ block' = [block EXCEPT ![c] = "freeing"]
    /\ function' = [function EXCEPT ![c] = FALSE]
    /\ callable' = [callable EXCEPT ![c] = FALSE]

EndFree(c) ==
    /\ block[c] = "freeing"
    /\ block' = [block EXCEPT ![c] = "free"]
    /\ UNCHANGED <<scope, notify, holder, callable, function, async_free_list,
                   calls, created>>

\* The warning about a missing user_data is an error, or a later argument does
\* not marshal: freed whatever its scope.
MarshalFails(c) ==
    /\ block[c] = "live" /\ holder[c] = "marshal"
    /\ BeginFree(c)
    /\ UNCHANGED <<scope, notify, holder, async_free_list, calls, created>>

\* ffi_call.
CallBegins(c) ==
    /\ block[c] = "live" /\ holder[c] = "marshal"
    /\ holder' = [holder EXCEPT ![c] = "callee"]
    /\ callable' = [callable EXCEPT ![c] = TRUE]
    /\ UNCHANGED <<block, scope, notify, function, async_free_list, calls, created>>

\* Fault: the cleanup frees whatever it finds.
FreedAfterCall(c) == scope[c] \in {"call", "async"}

\* The cleanup of a call that was made frees closures of scope call.
FreedByCleanup(c) == scope[c] = "call"

CallEnds(c) ==
    /\ block[c] = "live" /\ holder[c] = "callee"
    /\ FreedByCleanup(c) => ~InUse(c)
    /\ holder' = [holder EXCEPT ![c] = "c"]
    /\ IF FreedByCleanup(c) THEN BeginFree(c)
       ELSE UNCHANGED <<block, callable, function>>
    /\ UNCHANGED <<scope, notify, async_free_list, calls, created>>

(***************************************************************************)
(* _pygi_closure_handle.                                                   *)
(***************************************************************************)

\* C calls a scope async callback once, and none after it gave it back (which
\* closure->cache being NULL would tell) or after Python has ended.
Enter(k, c) ==
    /\ on[k] = NULL
    /\ block[c] = "live" /\ callable[c]
    /\ on' = [on EXCEPT ![k] = c]
    /\ phase' = [phase EXCEPT ![k] = "python"]
    /\ ret' = [ret EXCEPT ![k] = "unset"]
    /\ callable' = [callable EXCEPT ![c] = scope[c] # "async"]
    /\ UNCHANGED <<block, scope, notify, holder, function, async_free_list, created>>

\* The arguments do not convert, or the callable raises.
Raised(k) ==
    /\ phase[k] = "python"
    /\ phase' = [phase EXCEPT ![k] = "end"]
    /\ ret' = [ret EXCEPT ![k] = "zero"]
    /\ UNCHANGED <<blocks, async_free_list, on, created>>

\* The callable returns.  Its value converts, or not: the failure is or-ed into
\* a success that is TRUE already, so nothing clears the return value then.
Returned(k) ==
    /\ phase[k] = "python"
    /\ phase' = [phase EXCEPT ![k] = "end"]
    /\ \E r \in {"set", "unset"} : ret' = [ret EXCEPT ![k] = r]
    /\ UNCHANGED <<blocks, async_free_list, on, created>>

\* Scopes other than async leave the closure alone.
Leave(k) ==
    /\ phase[k] = "end"
    /\ scope[on[k]] # "async"
    /\ on' = [on EXCEPT ![k] = NULL]
    /\ phase' = [phase EXCEPT ![k] = "idle"]
    /\ UNCHANGED <<blocks, async_free_list, ret, created>>

\* Fault: the Python data is left for the free.
ClearLater(k) ==
    /\ phase[k] = "end"
    /\ scope[on[k]] = "async"
    /\ phase' = [phase EXCEPT ![k] = "cleared"]
    /\ UNCHANGED <<blocks, async_free_list, on, ret, created>>

\* Scope async: the Python data goes first, ...
ClearData(k) ==
    /\ phase[k] = "end"
    /\ scope[on[k]] = "async"
    /\ function' = [function EXCEPT ![on[k]] = FALSE]
    /\ phase' = [phase EXCEPT ![k] = "cleared"]
    /\ UNCHANGED <<block, scope, notify, holder, callable, async_free_list, on,
                   ret, created>>

\* ... then the closure is put on the list.
List(k) ==
    /\ phase[k] = "cleared"
    /\ async_free_list' = <<on[k]>> \o async_free_list
    /\ on' = [on EXCEPT ![k] = NULL]
    /\ phase' = [phase EXCEPT ![k] = "idle"]
    /\ UNCHANGED <<blocks, ret, created>>

\* C is done with a scope notified callback.
Destroy(c) ==
    /\ block[c] = "live" /\ notify[c] /\ callable[c]
    /\ InUse(c) => NotifyInUse
    /\ BeginFree(c)
    /\ UNCHANGED <<scope, notify, holder, async_free_list, calls, created>>

CallbackNext ==
    \/ \E c \in Block :
          \/ \E s \in Scope, n \in BOOLEAN : Make(c, s, n)
          \/ EndFree(c) \/ MarshalFails(c) \/ CallBegins(c) \/ CallEnds(c)
          \/ Destroy(c)
          \/ \E k \in Call : Enter(k, c)
    \/ \E k \in Call :
          Raised(k) \/ Returned(k) \/ Leave(k) \/ ClearData(k) \/ List(k)

CallbackSpec == CallbackInit /\ [][CallbackNext]_callback_vars

\* Callables return, C calls return, and the code goes on.
FairCallbackSpec ==
    /\ CallbackSpec
    /\ \A c \in Block :
          WF_callback_vars(EndFree(c)) /\ WF_callback_vars(CallEnds(c))
    /\ \A k \in Call :
          /\ WF_callback_vars(Raised(k) \/ Returned(k))
          /\ WF_callback_vars(Leave(k)) /\ WF_callback_vars(ClearData(k))
          /\ WF_callback_vars(List(k))

(***************************************************************************)
(* Properties.                                                             *)
(***************************************************************************)
CallbackTypeOK ==
    /\ block \in [Block -> {"free", "live", "freeing"}]
    /\ scope \in [Block -> Scope] /\ notify \in [Block -> BOOLEAN]
    /\ holder \in [Block -> {"marshal", "callee", "c"}]
    /\ callable \in [Block -> BOOLEAN] /\ function \in [Block -> BOOLEAN]
    /\ async_free_list \in Seq(Block)
    /\ on \in [Call -> Block \cup {NULL}]
    /\ phase \in [Call -> {"idle", "python", "end", "cleared"}]
    /\ \A k \in Call : on[k] = NULL <=> phase[k] = "idle"
    /\ ret \in [Call -> {"unset", "set", "zero"}]
    /\ created \in Nat

\* A handler only ever uses a closure that exists (the comment in
\* _pygi_closure_handle: "you can't free the closure you are currently using").
UsedAlive == \A k \in Call : on[k] # NULL => block[on[k]] = "live"

\* The closures that somebody will free, and who.
FreedByCall(c) == \/ holder[c] = "marshal"
                  \/ scope[c] = "call" /\ holder[c] = "callee"
FreedByNotify(c) == holder[c] # "marshal" /\ notify[c] /\ callable[c]
FreedByHandler(c) == \/ scope[c] = "async" /\ callable[c]
                     \/ scope[c] = "async" /\ InUse(c)
FreedByList(c) == c \in Range(async_free_list)

\* A closure is freed once: whoever will free it is the only one, and only
\* those C has no way to give back are freed by nobody.
FreedOnce ==
    /\ IsInjective(async_free_list)
    /\ \A c \in Block :
          LET who == {f \in 1..4 : <<FreedByCall(c), FreedByNotify(c),
                                     FreedByHandler(c), FreedByList(c)>>[f]}
          IN /\ FreedByList(c) => block[c] = "live"
             /\ block[c] = "live" =>
                   IF scope[c] \in {"call", "async"} \/ notify[c]
                   THEN Cardinality(who) = 1 ELSE Cardinality(who) <= 1

\* Freeing what is on the list runs no Python code, which could create another
\* closure and walk the same list again.
ListedBare == \A c \in Range(async_free_list) : ~function[c] /\ ~InUse(c)

\* Every closure has the one who frees it, at the time that its scope says
\* (_pygi_closure_handle, _pygi_make_native_closure, _pygi_invoke_closure_free).
ClosuresOwned == CallbackTypeOK /\ FreedOnce /\ ListedBare

\* C code gets no return value that nobody wrote when the callable raises, or
\* its value raises while it is converted (NEWS: "Clear return value of closures
\* to zero when an exception occurs").  A value that does not convert breaks it.
ReturnWritten == \A k \in Call : phase[k] = "end" => ret[k] # "unset"

\* Once C cannot call a callback any more, its Python data is released.
DataReleased == \A c \in Block :
    (block[c] # "free" /\ holder[c] # "marshal" /\ ~callable[c]) ~> ~function[c]
(***************************************************************************)
(* The inductive invariant.                                                *)
(***************************************************************************)
OnList(c) == c \in Range(async_free_list)

\* What C may call, and what a handler runs, is live and was handed to C.
HandedOver == \A c \in Block :
    callable[c] \/ InUse(c) => block[c] = "live" /\ holder[c] # "marshal"

\* A closure on the list is one C is done with.
ListedDone == \A c \in Block : OnList(c) =>
    /\ block[c] = "live" /\ scope[c] = "async" /\ holder[c] # "marshal"
    /\ ~callable[c] /\ ~InUse(c) /\ ~function[c]

\* The callback of scope async is still to come, running, or on the list.
AsyncStages == \A c \in Block :
    block[c] = "live" /\ scope[c] = "async" /\ holder[c] # "marshal" =>
       /\ callable[c] \/ InUse(c) \/ OnList(c)
       /\ ~(callable[c] /\ InUse(c))

\* C calls it once, and a handler clears the data of no other scope.
AsyncOnce == \A k \in Call : on[k] # NULL =>
    /\ scope[on[k]] = "async" => \A l \in Call : on[l] = on[k] => l = k
    /\ phase[k] = "cleared" => scope[on[k]] = "async" /\ ~function[on[k]]

\* The cleanup has freed what ended with the call; C can destroy what notifies.
Ends == \A c \in Block :
    /\ notify[c] => scope[c] = "notified"
    /\ block[c] = "live" /\ holder[c] = "c" => scope[c] # "call"
    /\ block[c] = "live" /\ holder[c] # "marshal" /\ notify[c] => callable[c]

CallbackInv ==
    /\ CallbackTypeOK /\ IsInjective(async_free_list)
    /\ HandedOver /\ ListedDone /\ AsyncStages /\ AsyncOnce /\ Ends
=============================================================================
