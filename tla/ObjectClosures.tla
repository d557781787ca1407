--------------------------- MODULE ObjectClosures ---------------------------
(***************************************************************************)
(* The Python callables connected to the signals of one GObject: the       *)
(* closures that hold them (gi/pygi-type.c, gi/pygi-signal-closure.c), the *)
(* list of them in the instance data, which the collector visits and the   *)
(* object's finalization walks (gi/pygobject-object.c), and GLib's rules   *)
(* for invalidating a closure.                                             *)
(*                                                                         *)
(* A step runs with the GIL; Python code (destructors, callables, other    *)
(* threads) runs between any two steps.                                    *)
(***************************************************************************)
EXTENDS Integers, FiniteSets, Sequences, SequencesExt

CONSTANTS
    Closure,     \* memory blocks of closures; a freed one is used again
    MaxHeld,     \* bound on the references of Python code to the wrapper
    MaxMade,     \* bound on the closures created
    LateUse      \* the object is used while it goes: through a weak reference
                 \* (Python's or a GWeakRef) in the middle of a collection, or
                 \* by a signal emitted while it is disposed of

ASSUME ConstantsAssumption ==
    /\ IsFiniteSet(Closure)
    /\ MaxHeld \in Nat \ {0} /\ MaxMade \in Nat /\ LateUse \in BOOLEAN

VARIABLES
    obj,       \* "alive", "disposing" (last unref), "freeing" (in
               \* pygobject_data_free) or "gone"
    owned,     \* C code owns a reference to the object
    wrapper,   \* the wrapper exists, and owns a reference to the object
    held,      \* references to the wrapper other than those of callables
    do_dispose, \* data->call_do_dispose: do_dispose is to be called
    stage,     \* of each closure: "none"; "live"; "invalid" (its notifiers
               \* are about to run); "unwatched"; "dropping" (the Python
               \* references go, the fields still point to them); "dead"
    handler,   \* a signal handler owns a reference to the closure
    kept,      \* a C extension does
    running,   \* an emission does, which also owns one to the object
    cyclic,    \* the callable refers to the wrapper
    closures,  \* data->closures
    tmp,       \* what pygobject_data_free has left to walk
    released,  \* closures that their extension gave up last, which began to
               \* invalidate them at a time of its own (history)
    search,    \* the closure whose callable gclosure_from_pyfunc compares, as a
               \* set of one or none
    lost,      \* its link was freed meanwhile (history)
    gc,        \* the collector: "idle", "found" (finalizers run) or "clearing"
    cleared,   \* closures whose callables the collector cleared
    made

closure_vars == <<stage, handler, kept, running, cyclic>>
object_vars == <<obj, owned, wrapper, held, do_dispose>>
walks == <<tmp, released, search, lost>>
gc_vars == <<gc, cleared>>
vars == <<object_vars, closure_vars, closures, walks, gc_vars, made>>

Init ==
    /\ obj = "alive" /\ owned = FALSE /\ wrapper = TRUE /\ held = 1
    /\ do_dispose \in BOOLEAN
    /\ stage = [c \in Closure |-> "none"]
    /\ handler = [c \in Closure |-> FALSE]
    /\ kept = [c \in Closure |-> FALSE]
    /\ running = [c \in Closure |-> FALSE]
    /\ cyclic = [c \in Closure |-> FALSE]
    /\ closures = <<>> /\ tmp = <<>>
    /\ released = {} /\ search = {} /\ lost = FALSE
    /\ gc = "idle" /\ cleared = {}
    /\ made = 0

\* The Python references of a closure have not been given up.
HasPython(c) == stage[c] \in {"live", "invalid", "unwatched"}

Invalidating(c) == stage[c] \in {"invalid", "unwatched", "dropping"}

\* Whoever disposes of the object or frees it waits for invalidations of its
\* own; an extension may be at one in another thread.
Awaited(c) == Invalidating(c) /\ c \notin released

\* The references to the object, g_object ref_count.
RefCount ==
    (IF owned THEN 1 ELSE 0) + (IF wrapper THEN 1 ELSE 0)
        + Cardinality({c \in Closure : running[c]})

\* What becomes of a closure when one of its references goes and others stay
\* or not: the last one invalidates it, or frees what is invalid already.
AfterUnref(c, others) ==
    CASE others \/ Invalidating(c) -> stage[c]
      [] ~others /\ stage[c] = "live" -> "invalid"
      [] OTHER -> "none"

(***************************************************************************)
(* Connecting, emitting, disconnecting.                                    *)
(***************************************************************************)

\* A closure for a callable that refers to the wrapper or does not.
NewClosure(c, cyc) ==
    /\ stage[c] = "none" /\ made < MaxMade
    /\ stage' = [stage EXCEPT ![c] = "live"]
    /\ cyclic' = [cyclic EXCEPT ![c] = cyc]
    /\ released' = released \ {c}
    /\ made' = made + 1

Watched(c) == <<c>> \o closures

\* connect_helper; a handler, or (the C API has pygobject_watch_closure) an
\* extension owns the closure.
Connect(c, ext, cyc) ==
    /\ held > 0 /\ obj \in {"alive", "disposing"}
    /\ NewClosure(c, cyc)
    /\ handler' = [handler EXCEPT ![c] = ~ext]
    /\ kept' = [kept EXCEPT ![c] = ext]
    /\ closures' = Watched(c)
    /\ UNCHANGED <<object_vars, running, tmp, search, lost, gc_vars>>

\* disconnect_by_func and its like: gclosure_from_pyfunc compares the callables
\* of the list with the one it is given.  That runs their __eq__, which may do
\* anything, and the search goes on with the link it was at.
Search(c) ==
    /\ held > 0 /\ obj \in {"alive", "disposing"}
    /\ search = {} /\ closures # <<>> /\ c = Head(closures)
    /\ search' = {c}
    /\ UNCHANGED <<object_vars, closure_vars, closures, tmp, released, lost,
                   gc_vars, made>>

\* They differ.
SearchOn(c) ==
    /\ search = {c} /\ ~lost
    /\ \E i \in 1..(Len(closures) - 1) :
          closures[i] = c /\ search' = {closures[i + 1]}
    /\ UNCHANGED <<object_vars, closure_vars, closures, tmp, released, lost,
                   gc_vars, made>>

\* No callable is the one, or it is, but is blocked or not connected.  What a
\* search that has lost its link does is undefined, and not followed.
SearchEnds ==
    /\ search # {}
    /\ search' = {} /\ lost' = FALSE
    /\ UNCHANGED <<object_vars, closure_vars, closures, tmp, released, gc_vars, made>>

HandlerGoes(c) ==
    /\ handler[c]
    /\ handler' = [handler EXCEPT ![c] = FALSE]
    /\ stage' = [stage EXCEPT ![c] = AfterUnref(c, kept[c] \/ running[c])]
    /\ UNCHANGED <<object_vars, kept, running, cyclic, closures, tmp, released,
                   gc_vars, made>>

\* The search found the callable, and disconnects its handlers.
DisconnectFound(c) ==
    /\ search = {c} /\ ~lost
    /\ HandlerGoes(c)
    /\ search' = {} /\ UNCHANGED lost

\* Whoever has the object disconnects a handler by its number.
Disconnect(c) ==
    /\ held > 0 \/ owned
    /\ HandlerGoes(c)
    /\ UNCHANGED <<search, lost>>

\* The extension lets go of its closure, whatever happens to the object.
Release(c) ==
    /\ kept[c]
    /\ kept' = [kept EXCEPT ![c] = FALSE]
    /\ stage' = [stage EXCEPT ![c] = AfterUnref(c, handler[c] \/ running[c])]
    /\ released' = IF stage[c] = "live" /\ ~handler[c] /\ ~running[c]
                   THEN released \cup {c} ELSE released
    /\ UNCHANGED <<object_vars, handler, running, cyclic, closures, tmp, search,
                   lost, gc_vars, made>>

\* An emission reaches the handler: pyg_closure_marshal calls the callable.
Emit(c) ==
    /\ held > 0 \/ owned \/ (LateUse /\ obj = "disposing")
    /\ handler[c] /\ stage[c] = "live" /\ ~running[c]
    /\ running' = [running EXCEPT ![c] = TRUE]
    /\ UNCHANGED <<object_vars, stage, handler, kept, cyclic, closures, walks,
                   gc_vars, made>>

\* The callable returns; the emission gives up the closure and the object.
Return(c) ==
    /\ running[c]
    /\ running' = [running EXCEPT ![c] = FALSE]
    /\ stage' = [stage EXCEPT ![c] = AfterUnref(c, handler[c] \/ kept[c])]
    /\ UNCHANGED <<object_vars, handler, kept, cyclic, closures, walks, gc_vars,
                   made>>

(***************************************************************************)
(* Invalidation: the notifier added last runs first.                       *)
(***************************************************************************)

\* pygobject_unwatch_closure frees the link: a search that is at it loses it,
\* and a walk of the same list (of a build with NDEBUG) passes over it, unless
\* it is the link the walk has saved.
Unwatch(c) ==
    /\ stage[c] = "invalid"
    /\ closures' = RemoveFirst(closures, c)
    /\ tmp' = IF tmp # <<>> /\ c \in ToSet(closures) /\ c # Head(tmp)
              THEN RemoveFirst(tmp, c) ELSE tmp
    /\ lost' = (lost \/ c \in search)
    /\ stage' = [stage EXCEPT ![c] = "unwatched"]
    /\ UNCHANGED <<object_vars, handler, kept, running, cyclic, released, search,
                   gc_vars, made>>

\* pyg_closure_invalidate up to the destructors its Py_XDECREFs run.
DropPython(c) ==
    /\ stage[c] = "unwatched"
    /\ stage' = [stage EXCEPT ![c] = "dropping"]
    /\ cyclic' = [cyclic EXCEPT ![c] = FALSE]
    /\ cleared' = cleared \ {c}
    /\ UNCHANGED <<object_vars, handler, kept, running, closures, walks, gc, made>>

\* The fields are cleared; nobody's closure is freed.
Invalidated(c) ==
    /\ stage[c] = "dropping"
    /\ stage' = [stage EXCEPT ![c] =
                    IF handler[c] \/ kept[c] \/ running[c] THEN "dead" ELSE "none"]
    /\ UNCHANGED <<object_vars, handler, kept, running, cyclic, closures, walks,
                   gc_vars, made>>

(***************************************************************************)
(* The object and its wrapper.                                             *)
(***************************************************************************)
Cyclic == {c \in Closure : cyclic[c] /\ HasPython(c)}

\* Fault: the closures are visited whoever owns the object.
VisitsAlways == ToSet(closures)

\* pygobject_traverse.
Visited == IF RefCount = 1 THEN ToSet(closures) ELSE {}

\* All references to the wrapper come from callables it is the only owner of.
Unreachable == wrapper /\ held = 0 /\ Cyclic # {} /\ Cyclic \subseteq Visited

\* The collector is taking the object's callables apart.
Collected == gc = "clearing" \/ cleared # {}

\* Python code gets the wrapper from C code, or a copy of a reference it has; a
\* callable that refers to it hands it on while it runs, a finalizer is given it.
Hold ==
    /\ \/ owned \/ held > 0
       \/ wrapper /\ (gc = "found" \/ \E c \in Closure : running[c])
    /\ obj \in {"alive", "disposing"}
    /\ held < MaxHeld
    /\ held' = held + 1 /\ wrapper' = TRUE
    /\ UNCHANGED <<obj, owned, do_dispose, closure_vars, closures, walks, gc_vars,
                   made>>

\* Whoever searches has one.
LetGo ==
    /\ held > IF search = {} THEN 0 ELSE 1
    /\ held' = held - 1
    /\ UNCHANGED <<obj, owned, wrapper, do_dispose, closure_vars, closures, walks,
                   gc_vars, made>>

\* pygobject_finalize, of a wrapper whose references are gone or unreachable:
\* g_object_run_dispose calls do_dispose, and destroys the handlers.
RunDispose ==
    /\ wrapper /\ held = 0 /\ obj = "alive"
    /\ IF gc = "idle" THEN Cyclic = {} ELSE gc = "found" /\ Unreachable
    /\ do_dispose /\ RefCount = 1
    /\ obj' = "disposing" /\ held' = 1 /\ do_dispose' = FALSE
    /\ UNCHANGED <<owned, wrapper, closure_vars, closures, walks, gc_vars, made>>

\* pygobject_dealloc: the wrapper's last reference is gone.
WrapperDies ==
    /\ wrapper /\ held = 0 /\ Cyclic = {}
    /\ obj = "alive" => ~(do_dispose /\ RefCount = 1)
    /\ wrapper' = FALSE /\ gc' = "idle"
    /\ UNCHANGED <<obj, owned, held, do_dispose, closure_vars, closures, walks,
                   cleared, made>>

\* C code gets a reference from code that has one; or out of a GWeakRef.
COwns ==
    /\ ~owned /\ obj = "alive"
    /\ held > 0 \/ LateUse
    /\ owned' = TRUE
    /\ UNCHANGED <<obj, wrapper, held, do_dispose, closure_vars, closures, walks,
                   gc_vars, made>>

CLetsGo ==
    /\ owned /\ owned' = FALSE
    /\ UNCHANGED <<obj, wrapper, held, do_dispose, closure_vars, closures, walks,
                   gc_vars, made>>

\* g_object_unref of the last reference disposes of the object first: do_dispose
\* is called with a wrapper, ...
Dispose ==
    /\ obj = "alive" /\ RefCount = 0
    /\ obj' = "disposing"
    /\ IF do_dispose
       THEN wrapper' = TRUE /\ held' = 1 /\ do_dispose' = FALSE
       ELSE UNCHANGED <<wrapper, held, do_dispose>>
    /\ UNCHANGED <<owned, closure_vars, closures, walks, gc_vars, made>>

\* ... which destroys its handlers, one after the other.
DestroyHandler(c) ==
    /\ obj = "disposing" /\ handler[c]
    /\ \A d \in Closure : ~Awaited(d)
    /\ handler' = [handler EXCEPT ![c] = FALSE]
    /\ stage' = [stage EXCEPT ![c] = AfterUnref(c, kept[c] \/ running[c])]
    /\ UNCHANGED <<object_vars, kept, running, cyclic, closures, walks, gc_vars,
                   made>>

HandlersDestroyed ==
    /\ obj = "disposing"
    /\ \A c \in Closure : ~handler[c] /\ ~Awaited(c)

\* Python code that ran meanwhile took the object: it lives on.
Revive ==
    /\ HandlersDestroyed /\ RefCount > 0
    /\ obj' = "alive"
    /\ UNCHANGED <<owned, wrapper, held, do_dispose, closure_vars, closures, walks,
                   gc_vars, made>>

\* pygobject_data_free takes the list, and empties it unless built with
\* NDEBUG, ...
Finalize ==
    /\ HandlersDestroyed /\ RefCount = 0
    /\ obj' = "freeing"
    /\ tmp' = closures
    /\ \E ndebug \in BOOLEAN : closures' = IF ndebug THEN closures ELSE <<>>
    /\ UNCHANGED <<owned, wrapper, held, do_dispose, closure_vars, released, search,
                   lost, gc_vars, made>>

\* Fault: the link after next, as if the next one had been unlinked.
SkipsLink == IF Len(tmp) > 1 THEN Tail(Tail(tmp)) ELSE <<>>

NextLink == Tail(tmp)

\* ... and invalidates its closures, one after the other, ...
Walk ==
    /\ obj = "freeing" /\ tmp # <<>>
    /\ \A c \in Closure : ~Awaited(c)
    /\ tmp' = NextLink
    /\ stage' = [stage EXCEPT ![Head(tmp)] = IF @ = "live" THEN "invalid" ELSE @]
    /\ UNCHANGED <<object_vars, handler, kept, running, cyclic, closures, released,
                   search, lost, gc_vars, made>>

\* ... and frees the data, and GLib the object.
Freed ==
    /\ obj = "freeing" /\ tmp = <<>>
    /\ \A c \in Closure : ~Awaited(c)
    /\ obj' = "gone"
    /\ UNCHANGED <<owned, wrapper, held, do_dispose, closure_vars, closures, walks,
                   gc_vars, made>>

(***************************************************************************)
(* The collector.                                                          *)
(***************************************************************************)

Collect ==
    /\ gc = "idle" /\ Unreachable
    /\ gc' = "found"
    /\ UNCHANGED <<object_vars, closure_vars, closures, walks, cleared, made>>

\* After the finalizers the collector traverses again.
Recheck ==
    /\ gc = "found" /\ obj = "alive" /\ ~(Unreachable /\ do_dispose)
    /\ gc' = IF Unreachable THEN "clearing" ELSE "idle"
    /\ UNCHANGED <<object_vars, closure_vars, closures, walks, cleared, made>>

\* tp_clear of a callable in the garbage.
ClearCallable(c) ==
    /\ gc = "clearing" /\ c \in Cyclic \ cleared
    /\ cleared' = cleared \cup {c}
    /\ UNCHANGED <<object_vars, closure_vars, closures, walks, gc, made>>

\* pygobject_clear, by the collector.
ClearWrapper ==
    /\ gc = "clearing" /\ wrapper
    /\ wrapper' = FALSE /\ gc' = "idle"
    /\ UNCHANGED <<obj, owned, held, do_dispose, closure_vars, closures, walks,
                   cleared, made>>

ClosureStep(c) ==
    \/ \E ext, cyc \in BOOLEAN : Connect(c, ext, cyc)
    \/ Search(c) \/ SearchOn(c) \/ DisconnectFound(c)
    \/ Disconnect(c) \/ Release(c) \/ Emit(c) \/ Return(c)
    \/ Unwatch(c) \/ DropPython(c) \/ Invalidated(c)
    \/ DestroyHandler(c) \/ ClearCallable(c)

NotFinalize ==
    \/ \E c \in Closure : ClosureStep(c)
    \/ Hold \/ LetGo \/ RunDispose \/ WrapperDies \/ COwns \/ CLetsGo
    \/ Dispose \/ Revive \/ Walk \/ Freed
    \/ SearchEnds \/ Collect \/ Recheck \/ ClearWrapper

Next == NotFinalize \/ Finalize

Spec == Init /\ [][Next]_vars

(***************************************************************************)
(* Properties.                                                             *)
(***************************************************************************)
TypeOK ==
    /\ obj \in {"alive", "disposing", "freeing", "gone"}
    /\ owned \in BOOLEAN /\ wrapper \in BOOLEAN /\ do_dispose \in BOOLEAN
    /\ held \in 0..MaxHeld
    /\ stage \in [Closure -> {"none", "live", "invalid", "unwatched",
                              "dropping", "dead"}]
    /\ handler \in [Closure -> BOOLEAN] /\ kept \in [Closure -> BOOLEAN]
    /\ running \in [Closure -> BOOLEAN] /\ cyclic \in [Closure -> BOOLEAN]
    /\ closures \in Seq(Closure) /\ tmp \in Seq(Closure)
    /\ released \subseteq Closure /\ search \subseteq Closure /\ lost \in BOOLEAN
    /\ gc \in {"idle", "found", "clearing"} /\ cleared \subseteq Closure
    /\ made \in 0..MaxMade
    /\ \A c \in Closure : stage[c] = "none" =>
          ~handler[c] /\ ~kept[c] /\ ~running[c] /\ ~cyclic[c]

\* Who looks at the list (the collector, at any time; a search for a callable
\* when it begins) finds closures that exist and whose callables do, each once;
\* and every closure of the object is found ("The list must be protected by
\* GIL as it is used by GC in pygobject_traverse").
ListedHavePython ==
    /\ IsInjective(closures)
    /\ \A c \in ToSet(closures) : stage[c] \in {"live", "invalid"}
    /\ obj \in {"alive", "disposing"} =>
          \A c \in Closure : stage[c] = "live" => c \in ToSet(closures)

\* The walk of pygobject_data_free meets closures that exist, leaves none live,
\* and none unlinks itself later from instance data that is freed, whatever
\* Python code runs on the way; but for those whose extension lets go of them
\* meanwhile.
UnwatchedBeforeFree ==
    /\ \A c \in ToSet(tmp) : stage[c] # "none" \/ c \in released
    /\ obj = "gone" => \A c \in Closure :
          stage[c] # "live" /\ (stage[c] = "invalid" => c \in released)

\* The list of closures is sound for the collector and for the object's end.
ClosuresListed == ListedHavePython /\ UnwatchedBeforeFree

\* The walk of pygobject_data_free meets closures that exist, without exception
\* ("we get next item first, because the current link gets invalidated by
\* pygobject_unwatch_closure").  Closures in released break it.
WalkMeetsClosures == \A c \in ToSet(tmp) : stage[c] # "none"

\* A search in the list keeps its link, which is "protected by GIL" says
\* pygobject_unwatch_closure, while it compares callables.  A callable whose
\* __eq__ disconnects the closure breaks it.
SearchKeepsLink == ~lost

\* The collector only takes apart callables that no signal reaches any more
\* ("Only let the GC track the closures when tp_clear() would free them").
ClearedNotCalled == \A c \in cleared : ~running[c]

(***************************************************************************)
(* What ClosuresListed and ClearedNotCalled rest on besides.               *)
(***************************************************************************)
NoPythonLeft == \A c \in Closure : stage[c] \in {"none", "dropping", "dead"} => ~cyclic[c]

\* Nobody has a reference to an object that is freed.
FreedAlone == obj \in {"freeing", "gone"} =>
    /\ ~owned /\ ~wrapper
    /\ \A c \in Closure : ~running[c] /\ ~handler[c]

\* What pygobject_data_free has left to walk is what is left to invalidate.
WalkedLive ==
    /\ obj # "freeing" => tmp = <<>>
    /\ IsInjective(tmp)
    /\ \A c \in ToSet(tmp) : stage[c] = "live" \/ c \in released
    /\ obj = "freeing" => \A c \in Closure : stage[c] = "live" => c \in ToSet(tmp)

\* Without LateUse nobody gets at an object whose callables are taken apart.
CollectedAlone ==
    /\ held > 0 => wrapper
    /\ gc = "clearing" => wrapper /\ obj = "alive"
    /\ Collected =>
          /\ ~owned /\ held = 0 /\ ~do_dispose
          /\ wrapper => gc = "clearing"
          /\ \A c \in Closure : ~running[c]

ClosuresIInv ==
    /\ TypeOK /\ ListedHavePython /\ UnwatchedBeforeFree
    /\ NoPythonLeft /\ FreedAlone /\ WalkedLive
=============================================================================
