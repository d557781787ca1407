----------------------------- MODULE Awaitable -----------------------------
(***************************************************************************)
(* gi.Async, the awaitable a Gio style asynchronous call returns when no   *)
(* callback is given (gi/pygi-async.c), from the marshalling of the call   *)
(* (gi/pygi-invoke.c, gi/pygi-cache-closure.c) to its finalizer, with the  *)
(* asyncio tasks that await it and the ready queue of their loop.          *)
(*                                                                         *)
(* One awaitable is modelled: two of them share nothing but the loop.      *)
(***************************************************************************)
EXTENDS Integers, FiniteSets, Sequences, SequencesExt

CONSTANTS
    Callback,     \* callables given to add_done_callback
    Waiter,       \* those that are the wakeup of an asyncio.Task
    Bad,          \* callables loop.call_soon raises for (asyncio debug mode)
    CallMayFail,  \* the call fails after its callback was marshalled
    LoopMayClose, \* loop.close() while operations are pending
    Reentrant,    \* Python code run inside call_soon touches the callbacks
    KeepFuture,   \* the loop's exception handler keeps context["future"]
    MaxAdds,      \* bound on the calls of add_done_callback
    MaxPyRefs     \* bound on the references Python code holds

ASSUME ConstantsAssumption ==
    /\ Waiter \subseteq Callback /\ Bad \subseteq Callback
    /\ IsFiniteSet(Callback)
    /\ {CallMayFail, LoopMayClose, Reentrant, KeepFuture} \subseteq BOOLEAN
    /\ MaxAdds \in Nat /\ MaxPyRefs \in Nat

VARIABLES
    invoking,   \* inside pygi_invoke_c_callable, which owns state->py_async
    op,         \* the C operation: see Op
    cancelled,  \* the Gio.Cancellable was cancelled
    outcome,    \* self->result and self->exception
    log_tb,     \* self->log_tb
    callbacks,  \* self->callbacks
    func_refs,  \* references the array owns on each callable
    next,       \* loop index of pygi_async_finish_cb, 0 outside
    in_call,    \* inside call_soon of that loop
    ob_refcnt,  \* of the awaitable
    py_refs,    \* references Python code holds on it
    task,       \* of each waiter: "idle", "waiting" or what it went on with
    queue,      \* the loop's ready handles for this awaitable
    closed,     \* the loop is closed
    added,      \* calls of add_done_callback so far
    raised,     \* history: a call_soon of the finish callback raised
    retrieved,  \* history: result() or exception() gave the exception out
    delivered,  \* history: await raised the exception
    reported    \* history: calls of loop.call_exception_handler

cvars == <<callbacks, func_refs>>
fvars == <<next, in_call, raised>>
hvars == <<retrieved, delivered, reported>>
lvars == <<queue, closed>>
vars == <<invoking, op, cancelled, outcome, log_tb, cvars, fvars, ob_refcnt,
          py_refs, task, lvars, added, hvars>>

Outcome == {"result", "exception"}

\* "stranded": the call failed after the awaitable was handed to C, which
\* never learnt of it; "crashed": Py_DECREF of the array's terminator.
Op == {"none", "running", "finishing", "over", "stranded", "crashed"}

Flag(b) == IF b THEN 1 ELSE 0
Done == outcome # "pending"
Revived == op = "over" /\ ~Done   \* finalized: it has no loop any more
Waiting == {t \in Waiter : task[t] = "waiting"}

Init ==
    /\ invoking = FALSE /\ op = "none"
    /\ cancelled = FALSE /\ outcome = "pending" /\ log_tb = FALSE
    /\ callbacks = <<>> /\ func_refs = [f \in Callback |-> 0]
    /\ next = 0 /\ in_call = FALSE /\ raised = FALSE
    /\ ob_refcnt = 0 /\ py_refs = 0
    /\ task = [t \in Waiter |-> "idle"]
    /\ queue = <<>> /\ closed = FALSE
    /\ added = 0
    /\ retrieved = FALSE /\ delivered = FALSE /\ reported = 0

(***************************************************************************)
(* Building blocks.                                                        *)
(***************************************************************************)

\* async_finalize: report an exception nobody asked for.
Report(log) == Flag(log)

\* Give up n references; log, held and entries are log_tb, py_refs and callbacks
\* after the step this is part of.  At zero async_finalize reports, lets an
\* exception handler that keeps the awaitable revive it, and clears its fields
\* all the same: the array is freed, not what its entries refer to.  (The
\* outcome of what is freed stays as history.)
Drop(n, log, held, entries) ==
    IF ob_refcnt > n
    THEN /\ ob_refcnt' = ob_refcnt - n
         /\ log_tb' = log
         /\ py_refs' = held
         /\ callbacks' = entries
         /\ UNCHANGED <<outcome, reported>>
    ELSE /\ reported' = reported + Report(log)
         /\ log_tb' = FALSE
         /\ callbacks' = <<>>
         /\ \E kept \in IF log /\ KeepFuture THEN BOOLEAN ELSE {FALSE} :
               /\ ob_refcnt' = Flag(kept)
               /\ py_refs' = Flag(kept)
               /\ outcome' = IF kept THEN "pending" ELSE outcome

\* call_soon raises for what the loop refuses; else the handle's arguments
\* hold the awaitable.  The caller takes more references besides.
Raises(f) == closed \/ f \in Bad
Schedule(f, more) ==
    /\ queue' = IF Raises(f) THEN queue ELSE Append(queue, f)
    /\ ob_refcnt' = ob_refcnt + more + Flag(~Raises(f))

\* Python code reaches the callbacks: never while the loop's thread is in the
\* finish callback, except for what call_soon itself runs.
MayTouch ==
    /\ py_refs > 0
    /\ op = "finishing" => Reentrant /\ in_call

\* add_done_callback: scheduled at once when the awaitable is done.
Register(f, more) ==
    IF Done THEN Schedule(f, more) /\ UNCHANGED cvars
    ELSE /\ callbacks' = Append(callbacks, f)
         /\ func_refs' = [func_refs EXCEPT ![f] = @ + 1]
         /\ ob_refcnt' = ob_refcnt + more
         /\ UNCHANGED queue

\* Fault: __next__ forgets that the outcome may be an exception.
ResultOnly == "result"

\* What __next__ ends the iteration with.
NextGives == outcome

(***************************************************************************)
(* The call.                                                               *)
(***************************************************************************)

\* pygi_async_new, and the reference the callback's user_data owns.
Start ==
    /\ op = "none"
    /\ invoking' = TRUE
    /\ op' = "running"
    /\ ob_refcnt' = 2
    /\ UNCHANGED <<cancelled, outcome, log_tb, cvars, fvars, py_refs, task,
                   lvars, added, hvars>>

\* A later argument does not marshal, or the function reports a GError: the
\* user_data reference has no owner that would ever release it.
CallFails ==
    /\ CallMayFail
    /\ invoking /\ op = "running"
    /\ invoking' = FALSE
    /\ op' = "stranded"
    /\ Drop(1, log_tb, py_refs, callbacks)
    /\ UNCHANGED <<cancelled, func_refs, fvars, task, lvars, added, retrieved,
                   delivered>>

\* The awaitable is the return value: one reference more for the caller, one
\* less of _invoke_state_clear.
CallReturns ==
    /\ invoking
    /\ invoking' = FALSE
    /\ py_refs' = py_refs + 1
    /\ UNCHANGED <<op, cancelled, outcome, log_tb, cvars, fvars, ob_refcnt,
                   task, lvars, added, hvars>>

(***************************************************************************)
(* pygi_async_finish_cb.                                                   *)
(***************************************************************************)

\* The finish function is invoked and its outcome stored.
FinishBegins(r) ==
    /\ op = "running"
    /\ op' = "finishing"
    /\ outcome' = r
    /\ log_tb' = (r = "exception")
    /\ next' = 1
    /\ UNCHANGED <<invoking, cancelled, cvars, in_call, raised, ob_refcnt,
                   py_refs, task, lvars, added, hvars>>

\* Fault: nothing is scheduled any more after an exception.
CallSoonUntilRaised ==
    /\ op = "finishing" /\ ~in_call
    /\ next <= Len(callbacks)
    /\ in_call' = TRUE
    /\ IF raised THEN UNCHANGED <<queue, ob_refcnt>>
       ELSE Schedule(callbacks[next], 0)
    /\ raised' = (raised \/ Raises(callbacks[next]))
    /\ UNCHANGED <<invoking, op, cancelled, outcome, log_tb, cvars, next,
                   py_refs, task, closed, added, hvars>>

\* One round of the loop: call_soon, whose exception PyErr_PrintEx prints and
\* thereby clears, so that the next round does not see it, ...
CallSoon ==
    /\ op = "finishing" /\ ~in_call
    /\ next <= Len(callbacks)
    /\ in_call' = TRUE
    /\ Schedule(callbacks[next], 0)
    /\ raised' = (raised \/ Raises(callbacks[next]))
    /\ UNCHANGED <<invoking, op, cancelled, outcome, log_tb, cvars, next,
                   py_refs, task, closed, added, hvars>>

\* Fault: a callback that could not be scheduled keeps its reference.
ReleaseIfScheduled ==
    /\ in_call
    /\ in_call' = FALSE
    /\ next' = next + 1
    /\ func_refs' = [func_refs EXCEPT ![callbacks[next]] = @ - Flag(~raised)]
    /\ UNCHANGED <<op, invoking, cancelled, outcome, log_tb, callbacks, raised,
                   ob_refcnt, py_refs, task, lvars, added, hvars>>

\* ... and release of what the array now holds at that index.
ReleaseEntry ==
    /\ in_call
    /\ in_call' = FALSE
    /\ next' = next + 1
    /\ IF next <= Len(callbacks)
       THEN /\ func_refs' = [func_refs EXCEPT ![callbacks[next]] = @ - 1]
            /\ UNCHANGED op
       ELSE /\ op' = "crashed"
            /\ UNCHANGED func_refs
    /\ UNCHANGED <<invoking, cancelled, outcome, log_tb, callbacks, raised,
                   ob_refcnt, py_refs, task, lvars, added, hvars>>

\* The array is freed and the reference of the user_data given up.
FinishEnds ==
    /\ op = "finishing" /\ ~in_call
    /\ next > Len(callbacks)
    /\ op' = "over"
    /\ next' = 0
    /\ Drop(1, log_tb, py_refs, <<>>)
    /\ UNCHANGED <<invoking, cancelled, func_refs, in_call, raised, task, lvars,
                   added, retrieved, delivered>>

(***************************************************************************)
(* Python code.                                                            *)
(***************************************************************************)
AddDone(f) ==
    /\ MayTouch
    /\ added < MaxAdds
    /\ added' = added + 1
    /\ Register(f, 0)
    /\ UNCHANGED <<invoking, op, cancelled, outcome, log_tb, fvars, py_refs,
                   task, closed, hvars>>

\* What the loop of remove_done_callback leaves of the array.
Without(s, f) ==
    LET kept[n \in 0 .. Len(s)] ==
            IF n = 0 THEN <<>>
            ELSE IF s[n] = f THEN kept[n - 1] ELSE Append(kept[n - 1], s[n])
    IN kept[Len(s)]

\* Fault: the comparison the wrong way round.
RemoveOthers(f) ==
    /\ MayTouch
    /\ f \in Range(callbacks)
    /\ callbacks' = SelectSeq(callbacks, LAMBDA g : g = f)
    /\ UNCHANGED <<func_refs, invoking, op, cancelled, outcome, log_tb, fvars,
                   ob_refcnt, py_refs, task, lvars, added, hvars>>

RemoveDone(f) ==
    /\ MayTouch
    /\ f \in Range(callbacks)
    /\ callbacks' = Without(callbacks, f)
    /\ func_refs' = [func_refs EXCEPT
                        ![f] = @ - (Len(callbacks) - Len(callbacks'))]
    /\ UNCHANGED <<invoking, op, cancelled, outcome, log_tb, fvars, ob_refcnt,
                   py_refs, task, lvars, added, hvars>>

\* await: a task registers its wakeup, or __next__ gives it the outcome of an
\* awaitable that is done, without a look at log_tb.
Await(t) ==
    /\ MayTouch /\ ~Revived /\ ~closed
    /\ task[t] = "idle"
    /\ IF Done
       THEN /\ task' = [task EXCEPT ![t] = NextGives]
            /\ delivered' = (delivered \/ outcome = "exception")
            /\ UNCHANGED <<cvars, ob_refcnt, queue>>
       ELSE /\ task' = [task EXCEPT ![t] = "waiting"]
            /\ Register(t, 1)   \* the suspended task holds the awaitable
            /\ UNCHANGED delivered
    /\ UNCHANGED <<invoking, op, cancelled, outcome, log_tb, fvars, py_refs,
                   closed, added, retrieved, reported>>

\* Fault: the exception is given out and still reported.
QueryKeepsLog == log_tb

QueryClearsLog == FALSE

\* result() or exception() on an awaitable that is done.
Query ==
    /\ py_refs > 0 /\ Done
    /\ log_tb' = QueryClearsLog
    /\ retrieved' = (retrieved \/ outcome = "exception")
    /\ UNCHANGED <<invoking, op, cancelled, outcome, cvars, fvars, ob_refcnt,
                   py_refs, task, lvars, added, delivered, reported>>

\* cancel(), also reached through Task.cancel of a task that waits.
Cancel ==
    /\ py_refs > 0 \/ Waiting # {}
    /\ ~cancelled /\ ~Revived
    /\ cancelled' = TRUE
    /\ UNCHANGED <<invoking, op, outcome, log_tb, cvars, fvars, ob_refcnt,
                   py_refs, task, lvars, added, hvars>>

DropRef ==
    /\ py_refs > 0
    /\ Drop(1, log_tb, py_refs - 1, callbacks)
    /\ UNCHANGED <<invoking, op, cancelled, func_refs, fvars, task, lvars, added,
                   retrieved, delivered>>

(***************************************************************************)
(* asyncio.                                                                *)
(***************************************************************************)

\* The loop runs a handle.  Task.__wakeup calls result() and resumes the
\* coroutine with what it gives (a cancelled task raises CancelledError then); another callback may ask for the outcome, or keep the awaitable.
RunHandle ==
    /\ queue # <<>> /\ op # "finishing"
    /\ queue' = Tail(queue)
    /\ LET f == Head(queue)
       IN \E asks \in IF f \in Waiter THEN {TRUE} ELSE BOOLEAN,
             keeps \in IF py_refs < MaxPyRefs THEN BOOLEAN ELSE {FALSE} :
            /\ retrieved' = (retrieved \/ (asks /\ outcome = "exception"))
            /\ task' = IF f \in Waiting THEN [task EXCEPT ![f] = outcome] ELSE task
            /\ Drop(1 + Flag(f \in Waiting) - Flag(keeps), log_tb /\ ~asks,
                    py_refs + Flag(keeps), callbacks)
    /\ UNCHANGED <<invoking, op, cancelled, func_refs, fvars, closed, added, delivered>>

\* loop.close() forgets the handles it did not run.
CloseLoop ==
    /\ LoopMayClose /\ ~closed /\ op # "finishing"
    /\ closed' = TRUE
    /\ queue' = <<>>
    /\ IF queue = <<>> THEN UNCHANGED <<ob_refcnt, log_tb, py_refs, outcome, reported, callbacks>>
       ELSE Drop(Len(queue), log_tb, py_refs, callbacks)
    /\ UNCHANGED <<invoking, op, cancelled, func_refs, fvars, task, added,
                   retrieved, delivered>>

Next ==
    /\ op # "crashed"
    /\ \/ Start \/ CallFails \/ CallReturns
       \/ \E r \in Outcome : FinishBegins(r)
       \/ CallSoon \/ ReleaseEntry \/ FinishEnds
       \/ \E f \in Callback \ Waiter : AddDone(f) \/ RemoveDone(f)
       \/ \E t \in Waiter : Await(t)
       \/ Query \/ Cancel \/ DropRef
       \/ RunHandle \/ CloseLoop

Spec == Init /\ [][Next]_vars

\* The finish callback goes on, the loop runs, a cancelled operation ends;
\* nothing makes an operation end that is not cancelled.
Fairness ==
    /\ WF_vars(cancelled /\ \E r \in Outcome : FinishBegins(r))
    /\ WF_vars(CallSoon) /\ WF_vars(ReleaseEntry) /\ WF_vars(FinishEnds)
    /\ WF_vars(RunHandle)

FairSpec == Spec /\ Fairness

(***************************************************************************)
(* Properties.                                                             *)
(***************************************************************************)
TypeOK ==
    /\ invoking \in BOOLEAN /\ op \in Op /\ cancelled \in BOOLEAN
    /\ outcome \in Outcome \cup {"pending"} /\ log_tb \in BOOLEAN
    /\ callbacks \in Seq(Callback) /\ func_refs \in [Callback -> Int]
    /\ next \in Nat /\ in_call \in BOOLEAN /\ raised \in BOOLEAN
    /\ ob_refcnt \in Nat /\ py_refs \in Nat
    /\ task \in [Waiter -> Outcome \cup {"idle", "waiting"}]
    /\ queue \in Seq(Callback) /\ closed \in BOOLEAN
    /\ added \in Nat
    /\ retrieved \in BOOLEAN /\ delivered \in BOOLEAN /\ reported \in Nat

\* ob_refcnt is what the call, the operation, Python code, queued handles and
\* suspended tasks will release.
RefExact ==
    ob_refcnt = Flag(invoking) + Flag(op \in Op \ {"none", "over"})
                + py_refs + Len(queue) + Cardinality(Waiting)

\* The array gives up each reference to a callable exactly once.
ReleasedOnce ==
    /\ op # "crashed"
    /\ \A f \in Callback :
          /\ func_refs[f] >= 0
          /\ op = "over" => func_refs[f] = 0

\* References are counted exactly, those to the awaitable and those it has, on
\* every path of pygi_async_finish_cb and of async_finalize.
RefsBalanced == TypeOK /\ RefExact /\ ReleasedOnce

\* No wakeup is lost: the wakeup of a suspended task is still registered or
\* already queued, as long as its loop accepts it.
NoLostWakeup ==
    \A t \in Waiting \ Bad :
        \/ closed
        \/ t \in Range(queue)
        \/ \E i \in DOMAIN callbacks : i >= next /\ callbacks[i] = t

\* An awaitable is what Future says: tasks go on with its one outcome.
Promise == INSTANCE Future
IsFuture == Promise!Spec

\* An exception is reported when the awaitable goes away if, and only if,
\* nobody obtained it through result() or exception().
ReportedUnlessRetrieved ==
    [][(ob_refcnt > 0 /\ outcome = "exception" /\ (ob_refcnt' = 0 \/ ~Done'))
          => reported' - reported = Flag(~retrieved')]_vars

\* A task that awaits a cancelled operation is resumed, unless its loop closes.
CancelResumes == \A t \in Waiter :
    (cancelled /\ task[t] = "waiting") ~> (task[t] # "waiting" \/ closed)

(***************************************************************************)
(* The inductive invariant, without Reentrant and KeepFuture.              *)
(***************************************************************************)
FuncRefsExact == \A f \in Callback :
    func_refs[f] = Cardinality({i \in DOMAIN callbacks : i >= next /\ callbacks[i] = f})

\* How far the operation is, and what that says of the rest.
Progress ==
    /\ op # "crashed"
    /\ Done <=> op \in {"finishing", "over"}
    /\ op = "finishing" <=> next > 0
    /\ next <= Len(callbacks) + 1
    /\ in_call => next \in 1..Len(callbacks)
    /\ op = "over" => callbacks = <<>>
    /\ op = "none" => ob_refcnt = 0 /\ callbacks = <<>>
    /\ queue # <<>> => Done

\* What call_soon took stays in the queue until the entry is released.
Scheduled == in_call => Raises(callbacks[next]) \/ callbacks[next] \in Range(queue)

\* log_tb tells whether the exception still is to be reported.
LogKept ==
    /\ retrieved => outcome = "exception"
    /\ ob_refcnt > 0 /\ outcome = "exception" => (log_tb <=> ~retrieved)

IInv == /\ TypeOK /\ RefExact /\ FuncRefsExact /\ Progress
        /\ NoLostWakeup /\ Scheduled /\ LogKept
=============================================================================
