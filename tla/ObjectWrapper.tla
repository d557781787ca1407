--------------------------- MODULE ObjectWrapper ---------------------------
(***************************************************************************)
(* The life of the Python wrappers of GObjects (gi/pygobject-object.c and  *)
(* the dispose hook of gi/pygobject-class.c).                              *)
(*                                                                         *)
(* A wrapper owns one reference to its GObject.  The GObject points back   *)
(* at its current wrapper through the qdata key pygobject_wrapper_key,     *)
(* which owns nothing, and keeps what must outlive the wrapper (Python     *)
(* class, instance dictionary, pending do_dispose) in PyGObjectData.       *)
(*                                                                         *)
(* Every action is one section executed under the GIL, or one call made    *)
(* with the GIL released; between two actions any other thread may run.    *)
(***************************************************************************)
EXTENDS Integers, FiniteSets

CONSTANTS
    Object,         \* GObject instances
    Wrapper,        \* memory blocks for PyGObject structs, reused once freed
    Class,          \* Python classes an instance may have
    Val,            \* values of the instance dictionary
    Runner,         \* threads that may call g_object_run_dispose
    NULL,           \* no object, no wrapper, no data
    PyTyped,        \* objects whose GType is registered by a Python class
    TypeOf,         \* the class pygobject_lookup_class finds for an object
    CustomDispose,  \* classes that override do_dispose
    Empty,          \* the value of a fresh instance dictionary
    RewrapDying,    \* a weak reference callback, or a thread running during
                    \* it, asks for the object of the dying wrapper again
    MaxRefs,        \* bound on the references C code holds on one object
    MaxHeld         \* bound on the references Python holds on one wrapper

ASSUME ConstantsAssumption ==
    /\ IsFiniteSet(Wrapper) /\ IsFiniteSet(Runner)
    /\ NULL \notin Object \cup Wrapper
    /\ PyTyped \subseteq Object
    /\ Class # {} /\ TypeOf \in [Object -> Class]
    /\ CustomDispose \subseteq Class
    /\ Empty \in Val
    /\ RewrapDying \in BOOLEAN
    /\ MaxRefs \in Nat /\ MaxHeld \in Nat
    /\ Runner \cap {"finalizer", "last"} = {}

\* Who may be inside GObjectClass.dispose of one object: the thread dropping
\* the last reference, tp_finalize of its wrapper, and explicit callers.
Disposer == Runner \cup {"finalizer", "last"}

VARIABLES
    ostate,       \* "absent", "alive" or "finalized"
    ref_count,    \* GObject.ref_count
    floating,     \* the reference of ref_count nobody owns yet
    cref,         \* references owned by C code
    wrapper_key,  \* qdata pygobject_wrapper_key
    inst_data,    \* qdata pygobject_instance_data_key
    dispose,      \* progress of each disposer inside dispose
    frame,        \* the wrapper whose do_dispose that disposer runs
    last_by,      \* the wrapper whose g_object_unref is the last, if one
    phase,        \* of a wrapper: see Phase
    obj,          \* PyGObject.obj
    dropping,     \* the object pygobject_clear is unreferencing
    ob_refcnt,    \* PyObject.ob_refcnt
    held,         \* references to the wrapper owned by Python code
    pyclass,      \* Py_TYPE(wrapper)
    finalized,    \* CPython's mark that tp_finalize ran
    disposed      \* history: how often do_dispose was called for an object

gvars == <<ostate, ref_count, floating, cref>>
qvars == <<wrapper_key, inst_data>>
dvars == <<dispose, frame, last_by, disposed>>
wvars == <<phase, obj, dropping, ob_refcnt, held, pyclass, finalized>>
vars == <<gvars, qvars, dvars, wvars>>

InstData == [type : Class, inst_dict : Val, call_do_dispose : BOOLEAN]

ASSUME NullIsNoData == NULL \notin InstData

\* "weakrefs": deallocated up to PyObject_ClearWeakRefs; "unref": inside the
\* g_object_unref of pygobject_clear, with the GIL released.
Phase == {"free", "live", "finalizing", "weakrefs", "unref"}
Usable == {"live", "finalizing"}

(***************************************************************************)
(* Building blocks.  A definition whose comment begins with "Fault:" is    *)
(* not the code: it is a plausible bug, kept to show that a property would *)
(* notice it.                                                              *)
(***************************************************************************)
Flag(b) == IF b THEN 1 ELSE 0

\* pygobject_get_inst_data and the dictionary half of
\* pygobject_register_wrapper: data made for the first wrapper, of class c.
NewData(c) == [type |-> c, inst_dict |-> Empty,
               call_do_dispose |-> c \in CustomDispose]
DataOf(o) == IF inst_data[o] = NULL THEN NewData(TypeOf[o]) ELSE inst_data[o]

\* pyg_object_dispose calls Python only for types that install it.
PendingDispose(o) == /\ o \in PyTyped
                     /\ inst_data[o] # NULL
                     /\ inst_data[o].call_do_dispose

\* A caller with a valid pointer to o exists: an owner, or code called from
\* dispose.  (GWeakRef, which can revive an object from another thread, is
\* not modelled.)
Reachable(o) ==
    /\ ostate[o] = "alive"
    /\ \/ cref[o] > 0
       \/ floating[o]
       \/ \E k \in Disposer : dispose[o][k] \in {"running", "done"}
       \/ \E w \in Wrapper : obj[w] = o /\ held[w] > 0

\* C owns a reference that no running g_object_run_dispose call relies on.
CMayUnref(o) ==
    cref[o] > Cardinality({r \in Runner : dispose[o][r] # "idle"})

\* Fault: a wrapper being deallocated is passed over.
RegisteredAlive(o) ==
    IF wrapper_key[o] # NULL /\ ob_refcnt[wrapper_key[o]] = 0 THEN NULL
    ELSE wrapper_key[o]

\* The wrapper pygobject_new_full finds in the qdata.
Registered(o) == wrapper_key[o]

\* The wrapper half of pygobject_new_full: a new reference (h of them kept
\* by Python) to the registered wrapper, or a fresh one of the saved class.
Obtain(o, w, h, data) ==
    /\ inst_data' = [inst_data EXCEPT ![o] = data]
    /\ held' = [held EXCEPT ![w] = @ + h]
    /\ ob_refcnt' = [ob_refcnt EXCEPT ![w] = @ + 1]
    /\ \/ /\ Registered(o) = w
          /\ phase[w] = "weakrefs" => RewrapDying
          /\ UNCHANGED <<wrapper_key, phase, obj, pyclass, finalized>>
       \/ /\ Registered(o) = NULL
          /\ phase[w] = "free"
          /\ wrapper_key' = [wrapper_key EXCEPT ![o] = w]
          /\ phase' = [phase EXCEPT ![w] = "live"]
          /\ obj' = [obj EXCEPT ![w] = o]
          /\ pyclass' = [pyclass EXCEPT ![w] = data.type]
          /\ finalized' = [finalized EXCEPT ![w] = FALSE]


(***************************************************************************)
(* Initial state.                                                          *)
(***************************************************************************)
Init ==
    /\ ostate = [o \in Object |-> "absent"]
    /\ ref_count = [o \in Object |-> 0]
    /\ floating = [o \in Object |-> FALSE]
    /\ cref = [o \in Object |-> 0]
    /\ wrapper_key = [o \in Object |-> NULL]
    /\ inst_data = [o \in Object |-> NULL]
    /\ dispose = [o \in Object |-> [k \in Disposer |-> "idle"]]
    /\ frame = [o \in Object |-> [k \in Disposer |-> NULL]]
    /\ last_by = [o \in Object |-> NULL]
    /\ disposed = [o \in Object |-> 0]
    /\ phase = [w \in Wrapper |-> "free"]
    /\ obj = [w \in Wrapper |-> NULL]
    /\ dropping = [w \in Wrapper |-> NULL]
    /\ ob_refcnt = [w \in Wrapper |-> 0]
    /\ held = [w \in Wrapper |-> 0]
    /\ pyclass = [w \in Wrapper |-> CHOOSE c \in Class : TRUE]
    /\ finalized = [w \in Wrapper |-> FALSE]

(***************************************************************************)
(* C code: creating, referencing and sinking objects.                      *)
(***************************************************************************)

\* g_object_new from C.  For a Python-registered type the wrapper made by
\* pygobject__g_instance_init is released again by pyg_object_constructed;
\* only its instance data stays.
CCreate(o, f) ==
    /\ ostate[o] = "absent"
    /\ ostate' = [ostate EXCEPT ![o] = "alive"]
    /\ ref_count' = [ref_count EXCEPT ![o] = 1]
    /\ floating' = [floating EXCEPT ![o] = f]
    /\ cref' = [cref EXCEPT ![o] = IF f THEN 0 ELSE 1]
    /\ inst_data' = [inst_data EXCEPT ![o] =
                        IF o \in PyTyped THEN NewData(TypeOf[o]) ELSE NULL]
    /\ UNCHANGED <<wrapper_key, dvars, wvars>>

\* pygobject_init: Python constructs the object and its wrapper.  A floating
\* reference is sunk, so either way the wrapper owns the only reference.
PyCreate(o, w) ==
    /\ ostate[o] = "absent"
    /\ phase[w] = "free"
    /\ ostate' = [ostate EXCEPT ![o] = "alive"]
    /\ ref_count' = [ref_count EXCEPT ![o] = 1]
    /\ Obtain(o, w, 1, NewData(TypeOf[o]))
    /\ UNCHANGED <<floating, cref, dvars, dropping>>

CRef(o) ==
    /\ Reachable(o)
    /\ cref[o] < MaxRefs
    /\ ref_count' = [ref_count EXCEPT ![o] = @ + 1]
    /\ cref' = [cref EXCEPT ![o] = @ + 1]
    /\ UNCHANGED <<ostate, floating, qvars, dvars, wvars>>

\* g_object_ref_sink by a container: it takes over the floating reference.
CSink(o) ==
    /\ floating[o]
    /\ cref[o] < MaxRefs
    /\ floating' = [floating EXCEPT ![o] = FALSE]
    /\ cref' = [cref EXCEPT ![o] = @ + 1]
    /\ UNCHANGED <<ostate, ref_count, qvars, dvars, wvars>>

\* g_object_unref: drop a reference that is not the last, or enter dispose.
\* The flag is read here, before PyGILState_Ensure.
Unref(o) ==
    IF ref_count[o] > 1
    THEN /\ ref_count' = [ref_count EXCEPT ![o] = @ - 1]
         /\ UNCHANGED dispose
    ELSE /\ dispose[o]["last"] = "idle"
         /\ dispose' = [dispose EXCEPT ![o]["last"] =
                           IF PendingDispose(o) THEN "checked" ELSE "done"]
         /\ UNCHANGED ref_count

CUnref(o) ==
    /\ CMayUnref(o)
    /\ cref' = [cref EXCEPT ![o] = @ - 1]
    /\ Unref(o)
    /\ UNCHANGED <<ostate, floating, qvars, frame, last_by, disposed, wvars>>

(***************************************************************************)
(* Wrapping.                                                               *)
(***************************************************************************)

\* Fault: a fresh wrapper takes over the reference of the caller.
RefsNotSunk(o, steal) ==
    IF Registered(o) # NULL THEN ref_count[o] - Flag(steal) ELSE ref_count[o]

\* Fault: a stolen reference to an object that has a wrapper is forgotten.
RefsLeaked(o, steal) ==
    IF Registered(o) # NULL THEN ref_count[o]
    ELSE ref_count[o] + Flag(~steal /\ ~floating[o])

\* ref_count after pygobject_new_full: a registered wrapper needs no second
\* reference, a fresh one steals, sinks or adds its own.
RefsAfterWrap(o, steal) ==
    IF Registered(o) # NULL THEN ref_count[o] - Flag(steal)
    ELSE ref_count[o] + Flag(~steal /\ ~floating[o])

\* pygobject_new_full(obj, steal): C hands obj to Python.  A stolen reference
\* is one C owns or, for a fresh object without wrapper, the floating one.
NewFull(o, w, steal) ==
    /\ Reachable(o)
    /\ held[w] < MaxHeld
    /\ steal => IF floating[o] THEN wrapper_key[o] = NULL ELSE CMayUnref(o)
    /\ Obtain(o, w, 1, DataOf(o))
    /\ cref' = [cref EXCEPT ![o] = IF steal /\ ~floating[o] THEN @ - 1 ELSE @]
    /\ ref_count' = [ref_count EXCEPT ![o] = RefsAfterWrap(o, steal)]
    /\ floating' = [floating EXCEPT ![o] = @ /\ Registered(o) # NULL]
    /\ UNCHANGED <<ostate, dvars, dropping>>

\* pyg_object_new_retain_floating, as called by the property vfuncs: C keeps
\* the floating reference, a fresh wrapper adds one of its own.
RetainFloating(o, w) ==
    /\ Reachable(o)
    /\ held[w] < MaxHeld
    /\ Obtain(o, w, 1, DataOf(o))
    /\ ref_count' = [ref_count EXCEPT ![o] = @ + Flag(Registered(o) = NULL)]
    /\ UNCHANGED <<ostate, floating, cref, dvars, dropping>>

(***************************************************************************)
(* Python code holding a wrapper.                                          *)
(***************************************************************************)
SetAttr(w, v) ==
    /\ held[w] > 0 /\ obj[w] # NULL
    /\ inst_data' = [inst_data EXCEPT ![obj[w]].inst_dict = v]
    /\ UNCHANGED <<gvars, wrapper_key, dvars, wvars>>

\* wrapper.__class__ = c: the saved class is only updated by pygobject_clear.
SetClass(w, c) ==
    /\ held[w] > 0 /\ obj[w] # NULL
    /\ pyclass' = [pyclass EXCEPT ![w] = c]
    /\ UNCHANGED <<gvars, qvars, dvars, phase, obj, dropping, ob_refcnt, held,
                   finalized>>

\* do_dispose stores its self somewhere.
KeepSelf(o, k) ==
    /\ dispose[o][k] = "running"
    /\ LET w == frame[o][k]
       IN /\ held[w] < MaxHeld
          /\ held' = [held EXCEPT ![w] = @ + 1]
          /\ ob_refcnt' = [ob_refcnt EXCEPT ![w] = @ + 1]
    /\ UNCHANGED <<gvars, qvars, dvars, phase, obj, dropping, pyclass, finalized>>

\* tp_finalize decides to run dispose now (pygobject_finalize).
RunsDispose(w) ==
    /\ ~finalized[w]
    /\ PendingDispose(obj[w])
    /\ ref_count[obj[w]] = 1

\* Py_DECREF by Python code: not the last reference; the last, and
\* tp_finalize runs do_dispose with the wrapper revived; or deallocation.
DropHandle(w) ==
    /\ held[w] > 0
    /\ held' = [held EXCEPT ![w] = @ - 1]
    /\ \/ /\ ob_refcnt[w] > 1
          /\ ob_refcnt' = [ob_refcnt EXCEPT ![w] = @ - 1]
          /\ UNCHANGED <<gvars, qvars, dvars, phase, obj, dropping, pyclass,
                         finalized>>
       \/ /\ ob_refcnt[w] = 1 /\ RunsDispose(w)
          /\ LET o == obj[w]
             IN /\ ref_count' = [ref_count EXCEPT ![o] = @ + 1]
                /\ inst_data' = [inst_data EXCEPT ![o].call_do_dispose = FALSE]
                /\ dispose' = [dispose EXCEPT ![o]["finalizer"] = "running"]
                /\ frame' = [frame EXCEPT ![o]["finalizer"] = w]
                /\ disposed' = [disposed EXCEPT ![o] = @ + 1]
          /\ finalized' = [finalized EXCEPT ![w] = TRUE]
          /\ phase' = [phase EXCEPT ![w] = "finalizing"]
          /\ ob_refcnt' = [ob_refcnt EXCEPT ![w] = 2]
          /\ UNCHANGED <<ostate, floating, cref, wrapper_key, last_by, obj,
                         dropping, pyclass>>
       \/ /\ ob_refcnt[w] = 1 /\ ~RunsDispose(w)
          /\ ob_refcnt' = [ob_refcnt EXCEPT ![w] = 0]
          /\ finalized' = [finalized EXCEPT ![w] = TRUE]
          /\ phase' = [phase EXCEPT ![w] = "weakrefs"]
          /\ UNCHANGED <<gvars, qvars, dvars, obj, dropping, pyclass>>

(***************************************************************************)
(* Deallocation.                                                           *)
(***************************************************************************)

\* Fault: an assigned __class__ is forgotten with the wrapper.
ClassAtCreation(w) == inst_data[obj[w]].type

\* The class pygobject_clear saves for the next wrapper.
SavedClass(w) == pyclass[w]

\* PyObject_ClearWeakRefs returned: pygobject_clear saves the class, forgets
\* the wrapper and takes obj out of it before it lets go of the GIL.
Clear(w) ==
    /\ phase[w] = "weakrefs"
    /\ phase' = [phase EXCEPT ![w] = "unref"]
    /\ inst_data' = [inst_data EXCEPT ![obj[w]].type = SavedClass(w)]
    /\ wrapper_key' = [wrapper_key EXCEPT ![obj[w]] = NULL]
    /\ obj' = [obj EXCEPT ![w] = NULL]
    /\ dropping' = [dropping EXCEPT ![w] = obj[w]]
    /\ UNCHANGED <<gvars, dvars, ob_refcnt, held, pyclass, finalized>>

\* g_object_unref of pygobject_clear without the GIL, then PyObject_GC_Del.
WrapperUnref(w) ==
    /\ phase[w] = "unref"
    /\ LET o == dropping[w]
       IN /\ last_by[o] # w
          /\ Unref(o)
          /\ IF ref_count[o] > 1
             THEN /\ phase' = [phase EXCEPT ![w] = "free"]
                  /\ dropping' = [dropping EXCEPT ![w] = NULL]
                  /\ UNCHANGED last_by
             ELSE /\ last_by' = [last_by EXCEPT ![o] = w]
                  /\ UNCHANGED <<phase, dropping>>
    /\ UNCHANGED <<ostate, floating, cref, qvars, frame, disposed, obj,
                   ob_refcnt, held, pyclass, finalized>>

(***************************************************************************)
(* Dispose (pyg_object_dispose).                                           *)
(***************************************************************************)

\* g_object_run_dispose by a thread whose caller owns a reference: take a
\* reference, enter dispose, read call_do_dispose without the GIL.
RunDispose(o, r) ==
    /\ dispose[o][r] = "idle"
    /\ ostate[o] = "alive"
    /\ CMayUnref(o)
    /\ PendingDispose(o)
    /\ ref_count' = [ref_count EXCEPT ![o] = @ + 1]
    /\ dispose' = [dispose EXCEPT ![o][r] = "checked"]
    /\ UNCHANGED <<ostate, floating, cref, qvars, frame, last_by, disposed, wvars>>

\* Fault: the flag stays up, as if dispose ran once by itself.
FlagKept(o) == inst_data[o]

FlagDown(o) == [inst_data[o] EXCEPT !.call_do_dispose = FALSE]

\* Fault: do_dispose runs with a borrowed reference to an existing wrapper.
CallDoDisposeBorrowed(o, k, w) ==
    /\ dispose[o][k] = "checked"
    /\ wrapper_key[o] = w
    /\ inst_data' = [inst_data EXCEPT ![o] = FlagDown(o)]
    /\ dispose' = [dispose EXCEPT ![o][k] = "running"]
    /\ frame' = [frame EXCEPT ![o][k] = w]
    /\ disposed' = [disposed EXCEPT ![o] = @ + 1]
    /\ UNCHANGED <<gvars, wrapper_key, last_by, wvars>>

\* The GIL is held: wrap the object, clear the flag, call do_dispose.
CallDoDispose(o, k, w) ==
    /\ dispose[o][k] = "checked"
    /\ Obtain(o, w, 0, FlagDown(o))
    /\ ref_count' = [ref_count EXCEPT ![o] = @ + Flag(Registered(o) = NULL)]
    /\ dispose' = [dispose EXCEPT ![o][k] = "running"]
    /\ frame' = [frame EXCEPT ![o][k] = w]
    /\ disposed' = [disposed EXCEPT ![o] = @ + 1]
    /\ UNCHANGED <<ostate, floating, cref, last_by, dropping>>

\* Release n references to w; the flag is down, so nothing runs dispose.
Release(w, n) ==
    /\ ob_refcnt' = [ob_refcnt EXCEPT ![w] = @ - n]
    /\ phase' = [phase EXCEPT ![w] = IF ob_refcnt[w] > n THEN "live" ELSE "weakrefs"]
    /\ finalized' = [finalized EXCEPT ![w] = @ \/ ob_refcnt[w] = n]

\* do_dispose returned and the dispose of the first class that is not
\* Python's ran.  tp_finalize also gives up the reference that revived the
\* wrapper; a caller of g_object_run_dispose its reference to the object.
DoDisposeReturns(o, k) ==
    /\ dispose[o][k] = "running"
    /\ frame' = [frame EXCEPT ![o][k] = IF k = "last" THEN @ ELSE NULL]
    /\ LET w == frame[o][k]
       IN IF k = "finalizer" THEN Release(w, 2)
          ELSE IF phase[w] = "finalizing"
               THEN /\ ob_refcnt' = [ob_refcnt EXCEPT ![w] = @ - 1]
                    /\ UNCHANGED <<phase, finalized>>
               ELSE Release(w, 1)
    /\ IF k = "last"
       THEN /\ dispose' = [dispose EXCEPT ![o][k] = "done"]
            /\ UNCHANGED ref_count
       ELSE /\ dispose' = [dispose EXCEPT ![o][k] = "idle"]
            /\ ref_count' = [ref_count EXCEPT ![o] = @ - 1]
    /\ UNCHANGED <<ostate, floating, cref, qvars, last_by, disposed, obj, dropping,
                   held, pyclass>>

\* The end of the last g_object_unref, once the wrapper do_dispose ran with
\* is deallocated or known to stay: the object was revived during dispose, or
\* it is finalized and pygobject_data_free runs.
LastUnrefEnds(o) ==
    /\ dispose[o]["last"] = "done"
    /\ frame[o]["last"] # NULL => phase[frame[o]["last"]] \notin {"weakrefs", "unref"}
    /\ frame' = [frame EXCEPT ![o]["last"] = NULL]
    /\ dispose' = [dispose EXCEPT ![o]["last"] = "idle"]
    /\ last_by' = [last_by EXCEPT ![o] = NULL]
    /\ ref_count' = [ref_count EXCEPT ![o] = @ - 1]
    /\ IF ref_count[o] > 1
       THEN UNCHANGED <<ostate, qvars>>
       ELSE /\ ostate' = [ostate EXCEPT ![o] = "finalized"]
            /\ inst_data' = [inst_data EXCEPT ![o] = NULL]
            /\ wrapper_key' = [wrapper_key EXCEPT ![o] = NULL]
    /\ IF last_by[o] = NULL THEN UNCHANGED <<phase, dropping>>
       ELSE /\ phase' = [phase EXCEPT ![last_by[o]] = "free"]
            /\ dropping' = [dropping EXCEPT ![last_by[o]] = NULL]
    /\ UNCHANGED <<floating, cref, disposed, obj, ob_refcnt, held, pyclass,
                   finalized>>

Code == \* steps a thread that is inside the code takes without being asked
    \/ \E w \in Wrapper : Clear(w) \/ WrapperUnref(w)
    \/ \E o \in Object : LastUnrefEnds(o)
    \/ \E o \in Object, k \in Disposer :
          DoDisposeReturns(o, k) \/ \E w \in Wrapper : CallDoDispose(o, k, w)

Next ==
    \/ \E o \in Object : \/ \E f \in BOOLEAN : CCreate(o, f)
                         \/ CRef(o) \/ CSink(o) \/ CUnref(o)
                         \/ \E r \in Runner : RunDispose(o, r)
    \/ \E o \in Object, w \in Wrapper :
          \/ PyCreate(o, w)
          \/ \E steal \in BOOLEAN : NewFull(o, w, steal)
          \/ RetainFloating(o, w)
    \/ \E o \in Object, k \in Disposer : KeepSelf(o, k)
    \/ \E w \in Wrapper : \/ DropHandle(w)
                          \/ \E v \in Val : SetAttr(w, v)
                          \/ \E c \in Class : SetClass(w, c)
    \/ Code

Spec == Init /\ [][Next]_vars

(***************************************************************************)
(* Properties.                                                             *)
(***************************************************************************)
TypeOK ==
    /\ ostate \in [Object -> {"absent", "alive", "finalized"}]
    /\ ref_count \in [Object -> Nat]
    /\ floating \in [Object -> BOOLEAN]
    /\ cref \in [Object -> Nat]
    /\ wrapper_key \in [Object -> Wrapper \cup {NULL}]
    /\ inst_data \in [Object -> InstData \cup {NULL}]
    /\ dispose \in [Object -> [Disposer -> {"idle", "checked", "running", "done"}]]
    /\ frame \in [Object -> [Disposer -> Wrapper \cup {NULL}]]
    /\ last_by \in [Object -> Wrapper \cup {NULL}]
    /\ disposed \in [Object -> Nat]
    /\ phase \in [Wrapper -> Phase]
    /\ obj \in [Wrapper -> Object \cup {NULL}]
    /\ dropping \in [Wrapper -> Object \cup {NULL}]
    /\ ob_refcnt \in [Wrapper -> Nat]
    /\ held \in [Wrapper -> Nat]
    /\ pyclass \in [Wrapper -> Class]
    /\ finalized \in [Wrapper -> BOOLEAN]

\* A wrapper Python holds can be used: it is not being torn down and wraps an
\* object that has not been finalized.
HandlesUsable ==
    \A w \in Wrapper : held[w] > 0 =>
        /\ phase[w] \in Usable
        /\ obj[w] # NULL
        /\ ostate[obj[w]] = "alive"

\* A GObject never has two wrappers, and the one it has is the one every
\* later pygobject_new_full finds.
OneWrapper ==
    \A w \in Wrapper : obj[w] # NULL => wrapper_key[obj[w]] = w

\* ref_count is exactly the references somebody will release.
Wrappers(o) == {w \in Wrapper : obj[w] = o \/ dropping[w] = o}
Running(o) == {k \in Disposer \ {"last"} : dispose[o][k] # "idle"}
RefCountExact ==
    \A o \in Object :
        ref_count[o] = cref[o] + Flag(floating[o]) + Cardinality(Wrappers(o))
                       + Cardinality(Running(o))
                       + Flag(dispose[o]["last"] # "idle" /\ last_by[o] = NULL)

\* do_dispose runs with the live wrapper of its object, of the saved class.
DisposeSeesObject ==
    \A o \in Object, k \in Disposer : dispose[o][k] = "running" =>
        /\ frame[o][k] \in Wrapper
        /\ phase[frame[o][k]] \in Usable
        /\ obj[frame[o][k]] = o

\* do_dispose is called once per object, and no object is finalized with its
\* do_dispose still pending (pygobject_finalize; pyg_object_dispose: "Avoid
\* redundant calls to do_dispose()").
DisposedInTime ==
    [][\A o \in Object :
          /\ disposed'[o] <= 1
          /\ o \in PyTyped /\ ostate[o] = "alive" /\ ostate'[o] = "finalized"
                => ~inst_data[o].call_do_dispose]_vars

\* Python instances survive their wrappers: the refinement of
\* PersistentInstance by instance data, wrapper and __class__.
Instance == INSTANCE PersistentInstance WITH
    state <- [o \in Object |->
                 IF ostate[o] = "finalized" THEN "gone"
                 ELSE IF inst_data[o] = NULL THEN "unbound" ELSE "bound"],
    attr <- [o \in Object |-> DataOf(o).inst_dict],
    class <- [o \in Object |-> IF wrapper_key[o] = NULL THEN DataOf(o).type
                               ELSE pyclass[wrapper_key[o]]],
    in_hand <- [o \in Object |-> IF wrapper_key[o] = NULL THEN 0
                                 ELSE held[wrapper_key[o]]]
InstancePersists == Instance!Spec

(***************************************************************************)
(* The inductive invariant behind HandlesUsable, OneWrapper and            *)
(* RefCountExact.                                                          *)
(***************************************************************************)
FramesOf(w) == {k \in Disposer : /\ obj[w] # NULL
                                 /\ dispose[obj[w]][k] = "running"
                                 /\ frame[obj[w]][k] = w}

Lifetime == \A o \in Object : ostate[o] = "alive" <=> ref_count[o] > 0
KeyPointsBack == \A o \in Object :
    wrapper_key[o] # NULL => obj[wrapper_key[o]] = o
Phases == \A w \in Wrapper :
    /\ phase[w] \in Usable \cup {"weakrefs"} <=> obj[w] # NULL
    /\ phase[w] = "unref" <=> dropping[w] # NULL
    /\ phase[w] \notin Usable => ob_refcnt[w] = 0
DataBound == \A o \in Object :
    /\ wrapper_key[o] # NULL => inst_data[o] # NULL
    /\ \A k \in Disposer :
          dispose[o][k] \in {"checked", "running"} => inst_data[o] # NULL
FramesLive == \A o \in Object, k \in Disposer :
    dispose[o][k] = "running" => frame[o][k] \in Wrapper /\ obj[frame[o][k]] = o
PyRefCountExact == \A w \in Wrapper :
    ob_refcnt[w] = held[w] + Cardinality(FramesOf(w))
                   + Flag(phase[w] = "finalizing")
FinalizerFrame ==
    /\ \A w \in Wrapper : phase[w] = "finalizing" =>
          /\ dispose[obj[w]]["finalizer"] = "running"
          /\ frame[obj[w]]["finalizer"] = w
    /\ \A o \in Object :
          /\ dispose[o]["finalizer"] \in {"idle", "running"}
          /\ dispose[o]["finalizer"] = "running" =>
                phase[frame[o]["finalizer"]] = "finalizing"
LastUnref == \A o \in Object :
    /\ last_by[o] # NULL => /\ dropping[last_by[o]] = o
                            /\ dispose[o]["last"] # "idle"
    /\ \A k \in Disposer \ {"last"} : dispose[o][k] # "done"

IInv ==
    /\ TypeOK /\ OneWrapper /\ RefCountExact
    /\ Lifetime /\ KeyPointsBack /\ Phases /\ DataBound /\ FramesLive
    /\ PyRefCountExact /\ FinalizerFrame /\ LastUnref

(***************************************************************************)
(* What InstancePersists and DisposedInTime rest on besides.               *)
(***************************************************************************)
DataLifetime == \A o \in Object : ostate[o] # "alive" => inst_data[o] = NULL

Undisposed(o) == inst_data[o] = NULL \/ inst_data[o].call_do_dispose

DisposedOnce(o) ==
    /\ ostate[o] = "alive" /\ o \in PyTyped => inst_data[o] # NULL
    /\ disposed[o] <= 1
    /\ ostate[o] # "finalized" /\ Undisposed(o) => disposed[o] = 0
    /\ \A k \in Disposer :
          /\ dispose[o][k] = "checked" => inst_data[o].call_do_dispose
          /\ dispose[o][k] = "running" => ~inst_data[o].call_do_dispose
    /\ dispose[o]["last"] = "checked" => ref_count[o] = 1
    /\ dispose[o]["last"] = "done" /\ o \in PyTyped => ~inst_data[o].call_do_dispose

DisposeOnce == \A o \in Object : DisposedOnce(o)
=============================================================================
