------------------------------ MODULE EventLoop ------------------------------
(***************************************************************************)
(* GLibEventLoop (gi/events.py): asyncio run by GLib's main context, on    *)
(* one thread, which is also the thread SigintFallback is about.           *)
(*                                                                         *)
(* GLib calls into Python and Python calls into GLib, so the state of the  *)
(* program is a stack of calls.  From the bottom:                          *)
(*   code     Python code: the program itself or a callback;               *)
(*   run      GLib.MainLoop.run, run_forever, Gtk.main, Gio.Application.run *)
(*            or Gtk.Dialog.run: a level that runs a loop until it is quit; *)
(*   iterate  GLib.MainContext.iteration: dispatches one source at most;   *)
(*   select   asyncio's _run_once, dispatched through the selector's source; *)
(*   idle     _glib_idle_dispatch, dispatched through _idle_source.        *)
(*                                                                         *)
(* The event loop never runs twice at once.  It is kept from that by       *)
(* _may_iterate, by detaching the selector's source, and by GLib, which    *)
(* does not dispatch a source again that it is dispatching.                *)
(***************************************************************************)
EXTENDS SigintFallback, FiniteSets

CONSTANTS
    Handle,   \* asyncio handles; each is scheduled once
    Loop,     \* the GMainLoops the program may run
    MainLoop, \* the event loop's own, run by run_forever
    Prio,     \* task priorities other than PRIORITY_DEFAULT (0)
    MaxDepth, \* bound: calls in progress, except for asyncio and another run
    NoSource

ASSUME EventLoopAssumption ==
    /\ IsFiniteSet(Loop) /\ MainLoop \in Loop
    /\ Prio \subseteq Int \ {0}
    /\ MaxDepth \in Nat
    /\ NoSource \notin Int

VARIABLES
    stack,       \* the calls in progress
    ready,       \* _ready: handles for _run_once
    idle_tasks,  \* _idle_tasks: pairs of priority and handle, sorted
    idle_source, \* the priority of _idle_source, or NoSource
    may_iterate, \* _may_iterate
    attached,    \* whether the selector's source is in the main context
    removed,     \* sources GLib removed because their dispatch raised
    running,     \* is_running()
    stopping,    \* _stopping
    quit_funcs,  \* _quit_funcs: the loops they quit
    looping,     \* loops whose is_running flag is set
    status       \* of each handle: see Status

avars == <<ready, idle_tasks, idle_source, may_iterate, attached, removed>>
lvars == <<running, stopping, quit_funcs, looping>>
vars == <<svars, avars, lvars, stack, status>>

Status == {"new", "waiting", "ran", "cancelled", "lost"}

Code == [kind |-> "code", called |-> FALSE]

Init ==
    /\ SigintInit
    /\ stack = <<Code>>
    /\ ready = <<>>
    /\ idle_tasks = <<>>
    /\ idle_source = NoSource
    /\ may_iterate = FALSE
    /\ attached = FALSE
    /\ removed = {}
    /\ running = FALSE
    /\ stopping = FALSE
    /\ quit_funcs = <<>>
    /\ looping = {}
    /\ status = [h \in Handle |-> "new"]

\* Calls that run a loop, and those of them that SIGINT is told of.
RunFrame ==
    [kind : {"run"}, loop : Loop, outer : BOOLEAN, sig : {"base", "inner", "none"},
     begun : BOOLEAN, batch : BOOLEAN, late : BOOLEAN, after : BOOLEAN]
SigintFrame == {f \in RunFrame : f.sig # "none"}

\* The elements of s that are in S, in their order.
Only(s, S) ==
    LET kept[n \in 0 .. Len(s)] ==
            IF n = 0 THEN <<>>
            ELSE IF s[n] \in S THEN Append(kept[n - 1], s[n]) ELSE kept[n - 1]
    IN kept[Len(s)]

Top == Last(stack)
InCode == Top.kind = "code"

\* Bound: a callback makes one call at most, the program (at the bottom) many.
Call(f) ==
    /\ Len(stack) <= MaxDepth
    /\ ~Top.called
    /\ stack' = Front(stack) \o <<[Top EXCEPT !.called = Len(stack) > 1], f>>
CallReturns == stack' = Front(stack)
Replace(f) == stack' = Append(Front(stack), f)
Active(kind) == \E i \in DOMAIN stack : stack[i].kind = kind
Levels == Only(stack, RunFrame)
IsRunBy(l) == \E i \in DOMAIN Levels : Levels[i].loop = l

(***************************************************************************)
(* Scheduling.                                                             *)
(***************************************************************************)
\* self._idle_tasks.append(...), then sort by priority, which keeps the order of
\* equal ones.
InsertTask(p, h) ==
    \E n \in 0 .. Len(idle_tasks) :
        /\ \A i \in DOMAIN idle_tasks : i <= n <=> idle_tasks[i][1] <= p
        /\ idle_tasks' = InsertAt(idle_tasks, n + 1, <<p, h>>)

\* _call_soon with a priority.  When the loop is not running this raises, but
\* the task has been added and runs later.
CallSoonIdle(h, p) ==
    /\ InCode
    /\ status[h] = "new"
    /\ status' = [status EXCEPT ![h] = "waiting"]
    /\ InsertTask(p, h)
    /\ idle_source' = IF idle_source = NoSource THEN NoSource ELSE Head(idle_tasks')[1]
    /\ UNCHANGED <<svars, lvars, ready, may_iterate, attached, removed, stack>>

\* call_soon, or call_soon_threadsafe of another thread at any time.
CallSoon(h) ==
    /\ status[h] = "new"
    /\ status' = [status EXCEPT ![h] = "waiting"]
    /\ ready' = Append(ready, h)
    /\ UNCHANGED <<svars, lvars, idle_tasks, idle_source, may_iterate, attached, removed,
                   stack>>

\* Handle.cancel; the handle stays where it is.
Cancel(h) ==
    /\ InCode
    /\ status[h] = "waiting"
    /\ status' = [status EXCEPT ![h] = "cancelled"]
    /\ UNCHANGED <<svars, avars, lvars, stack>>

(***************************************************************************)
(* Levels.                                                                 *)
(***************************************************************************)
\* Enter register_sigint_fallback and running(quit), then call run.  late
\* tells, for properties, a level entered when stop() or SIGINT already had
\* their effect.
RunLoop(l) ==
    /\ InCode
    /\ ~IsRunBy(l)
    /\ l = MainLoop => ~running
    /\ Call([kind |-> "run", loop |-> l, outer |-> ~running, sig |-> Registration,
             begun |-> FALSE, batch |-> TRUE, late |-> stopping,
             after |-> Registration # "base" /\ sigint_called])
    /\ Register(l)
    /\ quit_funcs' = Append(quit_funcs, l)
    /\ IF running THEN UNCHANGED avars
       ELSE /\ may_iterate' = TRUE
            /\ attached' = TRUE
            /\ idle_source' = IF idle_tasks = <<>> THEN 0 ELSE Head(idle_tasks)[1]
            /\ UNCHANGED <<ready, idle_tasks, removed>>
    /\ running' = TRUE
    /\ UNCHANGED <<stopping, looping, status>>

\* g_main_loop_run sets the flag; a quit before it is lost.
Begin ==
    /\ Top.kind = "run" /\ ~Top.begun
    /\ Replace([Top EXCEPT !.begun = TRUE])
    /\ looping' = looping \cup {Top.loop}
    /\ UNCHANGED <<svars, avars, running, stopping, quit_funcs, status>>

\* Fault: a level that ends does not pass stop() on.
StopHere == {}

\* When stop() was called, a nested level quits the one it was called from.
StopNext == IF stopping /\ ~Top.outer THEN {Last(Front(quit_funcs))} ELSE {}

QuitFuncsLeft == Front(quit_funcs)

\* The loop was quit: g_main_loop_run returns, running() and then
\* register_sigint_fallback are left.
Leave ==
    /\ Top.kind = "run" /\ Top.begun
    /\ Top.loop \notin looping
    /\ CallReturns
    /\ quit_funcs' = QuitFuncsLeft
    /\ looping' = looping \ (StopNext \cup CalledOnExit(Top.sig))
    /\ Unregister(Top.sig)
    /\ IF Top.outer
       THEN /\ may_iterate' = FALSE
            /\ attached' = FALSE
            /\ idle_source' = NoSource
            /\ removed' = {}
            /\ running' = FALSE
            /\ stopping' = FALSE
            /\ UNCHANGED <<ready, idle_tasks>>
       ELSE UNCHANGED <<avars, running, stopping>>
    /\ UNCHANGED status

\* stop().
Stop ==
    /\ InCode
    /\ stopping' = TRUE
    /\ looping' = IF quit_funcs = <<>> THEN looping ELSE looping \ {Last(quit_funcs)}
    /\ UNCHANGED <<svars, avars, running, quit_funcs, stack, status>>

\* g_main_loop_quit by anybody else.
Quit(l) ==
    /\ l \in looping
    /\ looping' = looping \ {l}
    /\ UNCHANGED <<svars, avars, running, stopping, quit_funcs, stack, status>>

Sigint ==
    /\ HandleSigint
    /\ looping' = looping \ {PoppedCallback.called}
    /\ UNCHANGED <<avars, running, stopping, quit_funcs, stack, status>>

(***************************************************************************)
(* Iterating the main context.                                             *)
(***************************************************************************)
\* GLib dispatches a source for the call on top of the stack.  A loop that was
\* quit still dispatches what it had found ready (bound: one source).
Iterating == \/ Top.kind = "run" /\ Top.begun /\ (Top.loop \in looping \/ Top.batch)
             \/ Top.kind = "iterate" /\ ~Top.dispatched

\* An iteration looks for sources once.
Dispatched == IF Top.kind = "iterate" THEN [Top EXCEPT !.dispatched = TRUE]
              ELSE [Top EXCEPT !.batch = Top.loop \in looping]
Dispatch(f) ==
    /\ Iterating
    /\ stack' = Front(stack) \o <<Dispatched, f>>

\* GLib.MainContext.iteration within paused().
Iterate ==
    /\ InCode /\ Len(stack) < MaxDepth
    /\ Call([kind |-> "iterate", paused |-> may_iterate, dispatched |-> FALSE])
    /\ may_iterate' = FALSE
    /\ attached' = (attached /\ ~may_iterate)
    /\ UNCHANGED <<svars, lvars, ready, idle_tasks, idle_source, removed, status>>

\* Fault: resume even if nothing was paused.
ResumeAlways(paused) ==
    /\ may_iterate' = TRUE
    /\ attached' = TRUE

\* Leaving paused().
Resume(paused) ==
    /\ may_iterate' = (may_iterate \/ paused)
    /\ attached' = (attached \/ paused)

IterationEnds ==
    /\ Top.kind = "iterate"
    /\ CallReturns
    /\ Resume(Top.paused)
    /\ UNCHANGED <<svars, lvars, ready, idle_tasks, idle_source, removed, status>>

\* The callback of a source that has nothing to do with asyncio.
DispatchOther ==
    /\ Len(stack) < MaxDepth
    /\ Dispatch(Code)
    /\ UNCHANGED <<svars, avars, lvars, status>>

SelectReady == attached /\ ~Active("select") /\ ready # <<>>

\* _IdleSource.prepare and check.
IdleReady == idle_source # NoSource /\ may_iterate /\ idle_tasks # <<>>

IdleDispatchable == IdleReady /\ "idle" \notin removed /\ ~Active("idle")

\* _glib_dispatch: the selector's source has priority 0.
DispatchSelect ==
    /\ SelectReady
    /\ ~(IdleDispatchable /\ idle_source < 0)
    /\ Dispatch([kind |-> "select", todo |-> Len(ready)])
    /\ may_iterate' = FALSE
    /\ UNCHANGED <<svars, lvars, ready, idle_tasks, idle_source, attached, removed, status>>

\* _run_once: the next handle.
RunHandle ==
    /\ Top.kind = "select" /\ Top.todo > 0
    /\ LET h == Head(ready)
           rest == [Top EXCEPT !.todo = @ - 1]
       IN IF status[h] = "cancelled" THEN Replace(rest) /\ UNCHANGED status
          ELSE /\ stack' = Front(stack) \o <<rest, Code>>
               /\ status' = [status EXCEPT ![h] = "ran"]
    /\ ready' = Tail(ready)
    /\ UNCHANGED <<svars, lvars, idle_tasks, idle_source, may_iterate, attached, removed>>

SelectEnds ==
    /\ Top.kind = "select" /\ Top.todo = 0
    /\ CallReturns
    /\ may_iterate' = TRUE
    /\ UNCHANGED <<svars, lvars, ready, idle_tasks, idle_source, attached, removed, status>>

\* _glib_idle_dispatch, within paused(): the tasks of this priority.
DispatchIdle ==
    /\ IdleDispatchable
    /\ ~(SelectReady /\ idle_source > 0)
    /\ \E n \in 0 .. Len(idle_tasks) :
          /\ \A i \in 1 .. n : idle_tasks[i][1] = idle_source
          /\ n < Len(idle_tasks) => idle_tasks[n + 1][1] # idle_source
          /\ Dispatch([kind |-> "idle", paused |-> may_iterate,
                       todo |-> [i \in 1 .. n |-> idle_tasks[i][2]]])
          /\ idle_tasks' = SubSeq(idle_tasks, n + 1, Len(idle_tasks))
    /\ may_iterate' = FALSE
    /\ attached' = (attached /\ ~may_iterate)
    /\ UNCHANGED <<svars, lvars, ready, idle_source, removed, status>>

\* Running a cancelled handle fails inside Handle._run.
RunIdle ==
    /\ Top.kind = "idle" /\ Top.todo # <<>>
    /\ LET h == Head(Top.todo)
           rest == [Top EXCEPT !.todo = Tail(@)]
       IN IF status[h] = "cancelled" THEN Replace(rest) /\ UNCHANGED status
          ELSE /\ stack' = Front(stack) \o <<rest, Code>>
               /\ status' = [status EXCEPT ![h] = "ran"]
    /\ UNCHANGED <<svars, avars, lvars>>

\* Fault: the source keeps the priority of the tasks that were run.
KeepPriority == idle_source

\* "There are (new) tasks available to run, ensure the priority is correct".
NextPriority == IF idle_tasks = <<>> THEN idle_source ELSE Head(idle_tasks)[1]

IdleEnds ==
    /\ Top.kind = "idle" /\ Top.todo = <<>>
    /\ CallReturns
    /\ idle_source' = NextPriority
    /\ Resume(Top.paused)
    /\ UNCHANGED <<svars, lvars, ready, idle_tasks, removed, status>>

(***************************************************************************)
(* Callbacks return or raise.                                              *)
(***************************************************************************)
Return ==
    /\ InCode /\ Len(stack) > 1
    /\ CallReturns
    /\ UNCHANGED <<svars, avars, lvars, status>>

\* KeyboardInterrupt in a handle goes through Handle._run and the dispatch:
\* GLib removes the source.  _may_iterate stays FALSE if it was the selector's;
\* of idle handles, those not yet run are forgotten.
Raise ==
    /\ InCode
    /\ Len(stack) > 1
    /\ LET f == stack[Len(stack) - 1]
       IN /\ f.kind \in {"select", "idle"}
          /\ stack' = SubSeq(stack, 1, Len(stack) - 2)
          /\ removed' = removed \cup {f.kind}
          /\ IF f.kind = "select"
             THEN attached' = FALSE /\ UNCHANGED <<may_iterate, status>>
             ELSE /\ Resume(f.paused)
                  /\ status' = [h \in Handle |->
                        IF Contains(f.todo, h) /\ status[h] = "waiting" THEN "lost"
                        ELSE status[h]]
    /\ UNCHANGED <<svars, lvars, ready, idle_tasks, idle_source>>

Next ==
    \/ \E h \in Handle : CallSoon(h) \/ Cancel(h) \/ \E p \in Prio : CallSoonIdle(h, p)
    \/ \E l \in Loop : RunLoop(l) \/ Quit(l)
    \/ Begin \/ Leave \/ Stop \/ Sigint
    \/ Iterate \/ IterationEnds \/ DispatchOther
    \/ DispatchSelect \/ RunHandle \/ SelectEnds
    \/ DispatchIdle \/ RunIdle \/ IdleEnds
    \/ Return \/ Raise

\* A loop that keeps asyncio from running, because it was started by one of
\* its callbacks or by code that an iteration() called.
QuitBlocking(l) ==
    /\ \E i, j \in DOMAIN stack :
          /\ i < j
          /\ stack[i].kind \in {"select", "idle"}
                \/ (stack[i].kind = "iterate" /\ stack[i].paused)
          /\ stack[j].kind = "run" /\ stack[j].loop = l
    /\ Quit(l)

\* GLib keeps dispatching sources that are ready, callbacks return, and the
\* program does not keep asyncio from running forever.
Fairness ==
    /\ WF_vars(Begin \/ Leave \/ RunHandle \/ SelectEnds \/ RunIdle \/ IdleEnds
               \/ IterationEnds \/ Return)
    /\ SF_vars(DispatchSelect) /\ SF_vars(DispatchIdle)
    /\ \A l \in Loop : WF_vars(QuitBlocking(l))

Spec == Init /\ [][Next]_vars
FairSpec == Spec /\ Fairness

(***************************************************************************)
(* Properties.                                                             *)
(***************************************************************************)
Frame ==
    [kind : {"code"}, called : BOOLEAN] \cup RunFrame
    \cup [kind : {"iterate"}, paused : BOOLEAN, dispatched : BOOLEAN]
    \cup [kind : {"select"}, todo : Nat]
    \cup [kind : {"idle"}, paused : BOOLEAN, todo : Seq(Handle)]

\* Types, and the bounds the code relies on: no more quit functions than
\* loops.
TypeOK ==
    /\ stack \in Seq(Frame) /\ Len(stack) \in 1 .. MaxDepth + 3
    /\ ready \in Seq(Handle)
    /\ idle_tasks \in Seq(Prio \X Handle)
    /\ idle_source \in Prio \cup {0, NoSource}
    /\ removed \subseteq {"select", "idle"}
    /\ {may_iterate, attached, running, stopping, sigint_called} \subseteq BOOLEAN
    /\ quit_funcs \in Seq(Loop) /\ Len(quit_funcs) <= Cardinality(Loop)
    /\ looping \subseteq Loop
    /\ status \in [Handle -> Status]
    /\ callback_stack \in Seq(Loop)
    /\ handler \in {"default", "ours"}

\* The python part of the main loop is never entered while it is running
\* (events.py: "It is *not* safe to run the *python* part of the mainloop
\* recursively").
AsyncioFrames == {i \in DOMAIN stack : stack[i].kind \in {"select", "idle"}}
NeverRecursive == Cardinality(AsyncioFrames) <= 1

\* asyncio may be iterated exactly when it runs and nobody down the stack
\* keeps it from that; then the selector's source is in the context, and so
\* _glib_dispatch's assertion holds; and the idle source has the priority of
\* the first task.  The quit functions are those of the levels in progress.
Paused == \E i \in DOMAIN stack : stack[i].kind = "iterate" /\ stack[i].paused
FlagsTrue ==
    /\ may_iterate <=> /\ running /\ AsyncioFrames = {} /\ ~Paused
                       /\ "select" \notin removed
    /\ attached <=> may_iterate \/ Active("select")
    /\ running <=> idle_source # NoSource
    /\ running /\ idle_tasks # <<>> /\ ~Active("idle") /\ "idle" \notin removed
        => idle_source = Head(idle_tasks)[1]
    /\ quit_funcs = [i \in DOMAIN Levels |-> Levels[i].loop]

\* _run_once takes no more handles than there are.
HandlesThere == \A i \in DOMAIN stack : stack[i].kind = "select" => stack[i].todo <= Len(ready)

\* What the loop remembers of the levels it runs at agrees with them.
LoopConsistent == TypeOK /\ NeverRecursive /\ FlagsTrue /\ HandlesThere

\* stop() reaches every level: of the levels that were there when it was
\* called, the innermost that is left has been told to quit.
StopPassedOn ==
    \A i \in DOMAIN Levels :
        /\ stopping /\ ~Levels[i].late
        /\ \A j \in DOMAIN Levels : j > i => Levels[j].late
        => Levels[i].loop \notin looping

\* SIGINT tells the levels in the reverse order of their registration: no
\* callback is missing or called before its turn, and the handler is
\* installed exactly as long as a level needs it.
Registered == Only(Levels, SigintFrame)
Callbacks == [i \in DOMAIN Registered |-> Registered[i].loop]
SigintInOrder ==
    /\ handler = "ours" <=> Registered # <<>>
    /\ IF handler # "ours" \/ ~sigint_called THEN callback_stack = Callbacks
       ELSE \E i \in DOMAIN Callbacks :
              /\ callback_stack = RemoveAt(Callbacks, i)
              /\ \A j \in DOMAIN Registered : j > i => Registered[j].after

(***************************************************************************)
(* The inductive invariant of all this.                                    *)
(***************************************************************************)
\* Frames that keep asyncio from being iterated.
Blocks(f) == f.kind \in {"select", "idle"} \/ (f.kind = "iterate" /\ f.paused)

\* The program is at the bottom; nothing is removed before a level runs.  How
\* deep each call may be; a level is on top until its loop has begun; what
\* blocks asyncio is alone in that, was called by a level, and found the
\* selector's source there.
StackShaped ==
    /\ stack[1].kind = "code"
    /\ ~running => removed = {}
    /\ \A i \in DOMAIN stack : LET f == stack[i] IN
          /\ f.kind \in {"run", "iterate"} => i <= MaxDepth + 1
          /\ f.kind \in {"select", "idle"} => i <= MaxDepth + 2
          /\ f.kind = "run" /\ ~f.begun => i = Len(stack) /\ (f.late <=> stopping)
          /\ f.kind = "idle" => f.paused
          /\ Blocks(f) => /\ "select" \notin removed
                          /\ \E j \in 1 .. i - 1 : stack[j].kind = "run"
    /\ \A i, j \in DOMAIN stack : Blocks(stack[i]) /\ Blocks(stack[j]) => i = j

\* The first level is the outer one, no two have the same loop, and those that
\* were entered after stop() are the innermost.
LevelsOrdered ==
    /\ running <=> Levels # <<>>
    /\ \A i \in DOMAIN Levels :
          /\ Levels[i].outer <=> i = 1
          /\ Levels[i].late => stopping
          /\ \A j \in DOMAIN Levels : /\ Levels[i].loop = Levels[j].loop => i = j
                                      /\ i < j /\ Levels[i].late => Levels[j].late

\* The first of the levels that SIGINT is told of has installed the handler.
BaseFirst ==
    \A i \in DOMAIN Registered : Registered[i].sig = IF i = 1 THEN "base" ELSE "inner"

IInv ==
    /\ LoopConsistent /\ StackShaped /\ LevelsOrdered /\ StopPassedOn
    /\ SigintInOrder /\ BaseFirst

\* A handle that was scheduled is run, unless it is cancelled, the loop
\* stops, or a callback raised KeyboardInterrupt.
HandleRuns ==
    \A h \in Handle :
        running /\ status[h] = "waiting"
            ~> status[h] # "waiting" \/ ~running \/ removed # {}
=============================================================================
