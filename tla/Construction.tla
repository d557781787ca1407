---------------------------- MODULE Construction ----------------------------
(***************************************************************************)
(* How a GObject and its Python wrapper come to know each other while      *)
(* g_object_new is running: from Python (pygobject_init and pyg_object_new *)
(* of gi/pygobject-object.c) or from C, through the instance_init and      *)
(* constructed functions gi/pygobject-class.c gives classes that Python    *)
(* registered.                                                             *)
(*                                                                         *)
(* One thread constructs objects inside the construction of others: C code *)
(* runs in the instance_init, property setters and constructed of C        *)
(* ancestors, Python code in the hooks.  Each frame of the stack is one    *)
(* g_object_new_with_properties.  What the wrapper of a finished object    *)
(* does is in ObjectWrapper; here its deallocation is one step.            *)
(***************************************************************************)
EXTENDS Integers, FiniteSets, SequencesExt

CONSTANTS
    Object,     \* GObject instances
    Wrapper,    \* memory blocks for PyGObject structs
    Class,      \* classes, each with a GType
    NULL,       \* no object, no wrapper
    TypeOf,     \* the class of each object
    Levels,     \* how many of the classes a class derives from, itself
                \* included, were registered by Python; these come last
    Unowned,    \* classes whose instances start with a floating reference
    Templates,  \* classes with a hook for GtkTemplate
    EarlyUse,   \* C code that runs before a new object has met its wrapper
                \* shows the object to Python or creates one of a Python class
    KeptByNew,  \* code keeps an object that GObject.new() is constructing
    MaxDepth,   \* bound on constructions inside one another
    MaxRefs,    \* bound on the references C code holds on one object
    MaxHeld     \* bound on the references Python holds on one wrapper

ASSUME ConstructionAssumption ==
    /\ IsFiniteSet(Object) /\ IsFiniteSet(Wrapper)
    /\ NULL \notin Object \cup Wrapper
    /\ TypeOf \in [Object -> Class] /\ Levels \in [Class -> Nat]
    /\ Unowned \subseteq Class
    /\ Templates \subseteq {c \in Class : Levels[c] > 0}
    /\ EarlyUse \in BOOLEAN /\ KeptByNew \in BOOLEAN
    /\ MaxDepth \in Nat /\ MaxRefs \in Nat /\ MaxHeld \in Nat

VARIABLES
    state,         \* of an object: "absent", "making", "made" or "gone"
    ref_count,     \* GObject.ref_count
    floating,      \* g_object_is_floating
    cref,          \* references owned by C code that asked for one
    wrapper_key,   \* qdata pygobject_wrapper_key
    init_refs,     \* qdata pygobject_instance_init_ref_count
    obj,           \* of a wrapper: PyGObject.obj
    ob_refcnt,     \* PyObject.ob_refcnt
    held,          \* references to the wrapper owned by Python code
    pyclass,       \* Py_TYPE(wrapper), NULL of a free block
    construction,  \* pygobject_construction_wrapper, private to the thread
    error,         \* PyErr_Occurred()
    stack          \* the constructions in progress, the innermost last

ovars == <<state, ref_count, floating, cref>>
qvars == <<wrapper_key, init_refs>>
wvars == <<obj, ob_refcnt, held, pyclass>>
vars == <<ovars, qvars, wvars, construction, error, stack>>

\* Where a construction is.  "ancestors": the instance_init functions of C;
\* "levels": between those of Python classes; "bound" and "templated": inside
\* one; "template", "init", "setter" and "do_constructed": in a hook;
\* "constructing": construct properties and the constructed functions of C;
\* "settled": setters of other properties, then the return.
Hooks == {"template", "init", "setter", "do_constructed"}
Step == Hooks \cup {"ancestors", "levels", "bound", "templated", "constructing", "settled", "crashed"}
Frame == [by : {"init", "new", "c"}, o : Object, self : Wrapper \cup {NULL}, at : Step,
          level : Nat, w : Wrapper \cup {NULL}, fresh : BOOLEAN, floated : BOOLEAN, back : Step]

Top == Last(stack)
At == IF stack = <<>> THEN "bottom" ELSE Top.at
Goes(f) == stack' = Append(Front(stack), f)
Proceeds(at) == Goes([Top EXCEPT !.at = at, !.w = NULL, !.fresh = FALSE, !.floated = FALSE])
Frames == ToSet(stack)
Flag(b) == IF b THEN 1 ELSE 0
Registered(o) == Levels[TypeOf[o]] > 0
IsFloating(o) == TypeOf[o] \in Unowned

\* Other code runs: at the bottom, in hooks, in C and in the handlers of what C
\* emits.
CodeRuns == At \in Hooks \cup {"bottom", "ancestors", "constructing"}

Init ==
    /\ state = [o \in Object |-> "absent"]
    /\ ref_count = [o \in Object |-> 0]
    /\ floating = [o \in Object |-> FALSE]
    /\ cref = [o \in Object |-> 0]
    /\ wrapper_key = [o \in Object |-> NULL]
    /\ init_refs = [o \in Object |-> 0]
    /\ obj = [w \in Wrapper |-> NULL]
    /\ ob_refcnt = [w \in Wrapper |-> 0]
    /\ held = [w \in Wrapper |-> 0]
    /\ pyclass = [w \in Wrapper |-> NULL]
    /\ construction = NULL
    /\ error = FALSE
    /\ stack = <<>>

(***************************************************************************)
(* The beginning.                                                          *)
(***************************************************************************)

\* pygobject_construction_wrapper names the wrapper an object of a Python class
\* is meant for, and no other such object may come between the two.
Undisturbed(by, o) ==
    construction # NULL /\ ~EarlyUse =>
        IF by = "init" THEN Levels[pyclass[construction]] = 0 ELSE ~Registered(o)

Begin(by, o, self) ==
    /\ state[o] = "absent"
    /\ Len(stack) < MaxDepth
    /\ Undisturbed(by, o)
    /\ state' = [state EXCEPT ![o] = "making"]
    /\ ref_count' = [ref_count EXCEPT ![o] = 1]
    /\ floating' = [floating EXCEPT ![o] = IsFloating(o)]
    /\ stack' = Append(stack, [by |-> by, o |-> o, self |-> self, at |-> "ancestors", level |-> 0,
                               w |-> NULL, fresh |-> FALSE, floated |-> FALSE, back |-> "settled"])
    /\ UNCHANGED <<cref, qvars, wvars, error>>

\* tp_new: an instance without object, whose __init__ Python runs next.
Alloc(w, c) ==
    /\ CodeRuns
    /\ ob_refcnt[w] = 0
    /\ \E o \in Object : state[o] = "absent" /\ TypeOf[o] = c
    /\ \A v \in Wrapper : ob_refcnt[v] > 0 /\ obj[v] = NULL => \E f \in Frames : f.self = v
    /\ ob_refcnt' = [ob_refcnt EXCEPT ![w] = 1]
    /\ held' = [held EXCEPT ![w] = 1]
    /\ pyclass' = [pyclass EXCEPT ![w] = c]
    /\ UNCHANGED <<ovars, qvars, obj, construction, error, stack>>

\* __init__ does nothing for an instance that wraps an object already.
NeedsObject(w) == obj[w] = NULL

\* pygobject_init up to the call of g_object_new.  One __init__ of an instance
\* is running at a time.
PyInit(w, o) ==
    /\ CodeRuns
    /\ held[w] > 0 \/ (At = "init" /\ Top.w = w)
    /\ NeedsObject(w)
    /\ pyclass[w] = TypeOf[o]
    /\ \A f \in Frames : f.self # w
    /\ construction' = w
    /\ Begin("init", o, w)

\* GObject.new(), and C code that calls g_object_new.
PyNew(o) == CodeRuns /\ Begin("new", o, NULL) /\ UNCHANGED construction
CNew(o) == CodeRuns /\ Begin("c", o, NULL) /\ UNCHANGED construction

(***************************************************************************)
(* References.                                                             *)
(***************************************************************************)

\* n references to w are dropped; with the last one goes its deallocation,
\* which forgets the wrapper and drops the reference to the object.
Decref(w, n) ==
    /\ ob_refcnt' = [ob_refcnt EXCEPT ![w] = @ - n]
    /\ pyclass' = [pyclass EXCEPT ![w] = IF ob_refcnt[w] = n THEN NULL ELSE @]
    /\ IF ob_refcnt[w] = n /\ obj[w] # NULL
       THEN /\ wrapper_key' = [wrapper_key EXCEPT ![obj[w]] = NULL]
            /\ ref_count' = [ref_count EXCEPT ![obj[w]] = @ - 1]
            /\ state' = [state EXCEPT ![obj[w]] = IF ref_count[obj[w]] = 1 THEN "gone" ELSE @]
            /\ obj' = [obj EXCEPT ![w] = NULL]
       ELSE UNCHANGED <<wrapper_key, ref_count, state, obj>>

\* Fault: the class an instance has while the instance_init of a class it
\* derives from is running.
ClassSoFar(o) ==
    IF At \in {"ancestors", "levels"} THEN CHOOSE c \in Class : Levels[c] = Top.level + 1
    ELSE TypeOf[o]

\* The class that instance_init is told, G_OBJECT_CLASS_TYPE(g_class).
ClassOf(o) == TypeOf[o]

\* The object o has no wrapper yet: w becomes it, allocated with one reference.
Wraps(w, o) ==
    /\ ob_refcnt[w] = 0
    /\ ob_refcnt' = [ob_refcnt EXCEPT ![w] = 1]
    /\ pyclass' = [pyclass EXCEPT ![w] = ClassOf(o)]
    /\ obj' = [obj EXCEPT ![w] = o]
    /\ wrapper_key' = [wrapper_key EXCEPT ![o] = w]

\* pyg_object_new_retain_floating: a reference to the wrapper, and one to the
\* object if the wrapper is new.
RetainFloating(o, w) ==
    /\ \/ /\ wrapper_key[o] = w
          /\ ob_refcnt' = [ob_refcnt EXCEPT ![w] = @ + 1]
          /\ UNCHANGED <<obj, pyclass, wrapper_key>>
       \/ /\ wrapper_key[o] = NULL
          /\ Wraps(w, o)
    /\ ref_count' = [ref_count EXCEPT ![o] = @ + Flag(wrapper_key[o] = NULL)]

\* Nobody but its constructor may have what GObject.new() is constructing.
MayKeep(o) == KeptByNew \/ \A f \in Frames : f.o = o => f.by # "new"

\* The object is shown before it has met the wrapper it is meant for, or while
\* nobody owns it.
Early(o) ==
    /\ wrapper_key[o] = NULL
    /\ \E f \in Frames : f.o = o /\ (f.by = "init" \/ (Registered(o) /\ f.at = "ancestors") \/ floating[o])

\* pygobject_new_full while the object is constructed: Python code gets it, in a
\* hook from its own arguments, elsewhere from C, and keeps a reference.
Handed(o, w) ==
    /\ CodeRuns
    /\ state[o] = "making"
    /\ MayKeep(o)
    /\ Early(o) => EarlyUse
    /\ held[w] < MaxHeld
    /\ held' = [held EXCEPT ![w] = @ + 1]
    /\ \/ /\ wrapper_key[o] = w
          /\ ob_refcnt' = [ob_refcnt EXCEPT ![w] = @ + 1]
          /\ UNCHANGED <<obj, pyclass, wrapper_key, ref_count, floating>>
       \/ /\ wrapper_key[o] = NULL
          /\ Wraps(w, o)
          /\ ref_count' = [ref_count EXCEPT ![o] = @ + Flag(~floating[o])]
          /\ floating' = [floating EXCEPT ![o] = FALSE]
    /\ UNCHANGED <<state, cref, init_refs, construction, error, stack>>

\* Python drops a reference; the caller of __init__ keeps its own.
Drop(w) ==
    /\ CodeRuns
    /\ held[w] > Flag(\E f \in Frames : f.self = w)
    /\ held' = [held EXCEPT ![w] = @ - 1]
    /\ Decref(w, 1)
    /\ UNCHANGED <<floating, cref, init_refs, construction, error, stack>>

\* C code, such as a container, takes the object: g_object_ref_sink.
Adopt(o) ==
    /\ CodeRuns
    /\ state[o] = "making"
    /\ IsFloating(o) => MayKeep(o)
    /\ cref[o] < MaxRefs
    /\ cref' = [cref EXCEPT ![o] = @ + 1]
    /\ ref_count' = [ref_count EXCEPT ![o] = @ + Flag(~floating[o])]
    /\ floating' = [floating EXCEPT ![o] = FALSE]
    /\ UNCHANGED <<state, qvars, wvars, construction, error, stack>>

\* C lets go of it again, though not of the reference that was the floating one.
Abandon(o) ==
    /\ CodeRuns
    /\ state[o] = "making"
    /\ cref[o] > Flag(IsFloating(o) /\ ~floating[o])
    /\ cref' = [cref EXCEPT ![o] = @ - 1]
    /\ ref_count' = [ref_count EXCEPT ![o] = @ - 1]
    /\ UNCHANGED <<state, floating, qvars, wvars, construction, error, stack>>

(***************************************************************************)
(* pygobject__g_instance_init, once for each class registered by Python.   *)
(***************************************************************************)
Unbound(w) == w # NULL /\ obj[w] = NULL

\* Fault: one reference stands for the levels of all classes.
KeptOnce(n) == 1

\* A further class takes a further reference.
KeptFor(n) == n + 1

\* The object is bound to the wrapper under construction or, created from C,
\* to a new one.
InstanceInit(w) ==
    /\ At \in {"ancestors", "levels"}
    /\ LET o == Top.o
           found == IF wrapper_key[o] # NULL THEN wrapper_key[o] ELSE construction
       IN /\ Top.level < Levels[TypeOf[o]]
          /\ construction' = NULL
          /\ \/ /\ found = w
                /\ IF wrapper_key[o] = NULL /\ Unbound(w)
                   THEN /\ obj' = [obj EXCEPT ![w] = o]
                        /\ wrapper_key' = [wrapper_key EXCEPT ![o] = w]
                   ELSE UNCHANGED <<obj, wrapper_key>>
                /\ UNCHANGED <<ref_count, ob_refcnt, pyclass>>
             \/ /\ found = NULL
                /\ Wraps(w, o)
                /\ ref_count' = [ref_count EXCEPT ![o] = @ + 1]
          /\ Goes([Top EXCEPT !.level = @ + 1, !.w = w, !.fresh = found = NULL, !.at = "bound"])
    /\ UNCHANGED <<state, floating, cref, init_refs, held, error>>

\* What a hook raises is printed, and with it goes an exception it was called with.
Printed == error' \in {error, FALSE}

\* The outermost class has a hook for its template, for which the object does
\* not float.
CallTemplate ==
    /\ At = "bound"
    /\ Top.level = Levels[TypeOf[Top.o]] /\ TypeOf[Top.o] \in Templates
    /\ ref_count' = [ref_count EXCEPT ![Top.o] = @ + Flag(~floating[Top.o])]
    /\ floating' = [floating EXCEPT ![Top.o] = FALSE]
    /\ Goes([Top EXCEPT !.at = "template", !.floated = floating[Top.o]])
    /\ UNCHANGED <<state, cref, qvars, wvars, construction, error>>

TemplateReturns ==
    /\ At = "template"
    /\ floating' = [floating EXCEPT ![Top.o] = Top.floated]
    /\ ref_count' = [ref_count EXCEPT ![Top.o] = @ - Flag(~Top.floated)]
    /\ Goes([Top EXCEPT !.at = "templated", !.floated = FALSE])
    /\ Printed
    /\ UNCHANGED <<state, cref, qvars, wvars, construction>>

\* Otherwise, or then, an object created from C gets its __init__ called, and a
\* wrapper that was there gets a reference until the object is constructed.
Inited ==
    /\ \/ At = "templated"
       \/ At = "bound" /\ ~(Top.level = Levels[TypeOf[Top.o]] /\ TypeOf[Top.o] \in Templates)
    /\ IF Top.fresh
       THEN /\ Goes([Top EXCEPT !.at = "init"])
            /\ UNCHANGED <<ob_refcnt, init_refs>>
       ELSE /\ ob_refcnt' = [ob_refcnt EXCEPT ![Top.w] = @ + 1]
            /\ init_refs' = [init_refs EXCEPT ![Top.o] = KeptFor(@)]
            /\ Proceeds("levels")
    /\ UNCHANGED <<ovars, wrapper_key, obj, held, pyclass, construction, error>>

\* The reference of the new wrapper is the first of those that
\* pyg_object_constructed releases.
InitReturns ==
    /\ At = "init"
    /\ init_refs' = [init_refs EXCEPT ![Top.o] = 1]
    /\ Proceeds("levels")
    /\ Printed
    /\ UNCHANGED <<ovars, wrapper_key, wvars, construction>>

(***************************************************************************)
(* Properties, and pyg_object_constructed.                                 *)
(***************************************************************************)
Constructing ==
    /\ At \in {"ancestors", "levels"}
    /\ Top.level = Levels[TypeOf[Top.o]]
    /\ Proceeds("constructing")
    /\ UNCHANGED <<ovars, qvars, wvars, construction, error>>

\* pyg_object_set_property and pyg_object_get_property call Python with the
\* wrapper, a passing one for a finished object of C.
CallSetter(w) ==
    /\ At \in {"constructing", "settled"}
    /\ Registered(Top.o)
    /\ RetainFloating(Top.o, w)
    /\ Goes([Top EXCEPT !.at = "setter", !.back = Top.at, !.w = w])
    /\ UNCHANGED <<state, floating, cref, init_refs, held, construction, error>>

SetterReturns ==
    /\ At = "setter"
    /\ Decref(Top.w, 1)
    /\ Proceeds(Top.back)
    /\ Printed
    /\ UNCHANGED <<floating, cref, init_refs, held, construction>>

\* The references that the levels took are released.
Release(o, w) ==
    /\ Decref(w, init_refs[o])
    /\ init_refs' = [init_refs EXCEPT ![o] = 0]
    /\ Proceeds("settled")

\* pyg_object_constructed calls do_constructed, but not with an exception.  An
\* object without its wrapper stops the program.
Constructed ==
    /\ At = "constructing"
    /\ LET o == Top.o  w == wrapper_key[o] IN
          IF ~Registered(o)
          THEN Proceeds("settled") /\ UNCHANGED <<ovars, qvars, wvars>>
          ELSE IF w = NULL
          THEN Proceeds("crashed") /\ UNCHANGED <<ovars, qvars, wvars>>
          ELSE IF error
          THEN Release(o, w) /\ UNCHANGED <<floating, cref, held>>
          ELSE /\ Goes([Top EXCEPT !.at = "do_constructed", !.w = w])
               /\ UNCHANGED <<ovars, qvars, wvars>>
    /\ UNCHANGED <<construction, error>>

\* What do_constructed raises is left to whoever called g_object_new.
ConstructedReturns ==
    /\ At = "do_constructed"
    /\ Release(Top.o, Top.w)
    /\ error' \in BOOLEAN
    /\ UNCHANGED <<floating, cref, held, construction>>

(***************************************************************************)
(* The end.                                                                *)
(***************************************************************************)

\* g_object_ref_sink, which pygobject_init and pyg_object_new call for classes
\* that derive from GInitiallyUnowned.
Sunk(o) == ref_count[o] + Flag(IsFloating(o) /\ ~floating[o])

Returns(o) ==
    /\ At = "settled" /\ Top.o = o
    /\ stack' = Front(stack)

\* The rest of pygobject_init.  Python code gets the exception.
InitEnds(o) ==
    /\ Returns(o) /\ Top.by = "init"
    /\ construction' = NULL
    /\ ref_count' = [ref_count EXCEPT ![o] = Sunk(o)]
    /\ floating' = [floating EXCEPT ![o] = FALSE]
    /\ obj' = [obj EXCEPT ![Top.self] = o]
    /\ wrapper_key' = [wrapper_key EXCEPT ![o] = Top.self]
    /\ state' = [state EXCEPT ![o] = "made"]
    /\ error' = FALSE
    /\ UNCHANGED <<cref, init_refs, ob_refcnt, held, pyclass>>

\* The rest of pyg_object_new.  A wrapper that exists is returned as it is: it
\* gets no reference, and the object keeps the one it was created with.
NewEnds(o, w) ==
    /\ Returns(o) /\ Top.by = "new"
    /\ error' = FALSE
    /\ IF error
       THEN /\ ref_count' = [ref_count EXCEPT ![o] = @ - 1]
            /\ state' = [state EXCEPT ![o] = IF ref_count[o] = 1 THEN "gone" ELSE "made"]
            /\ floating' = [floating EXCEPT ![o] = @ /\ ref_count[o] > 1]
            /\ UNCHANGED <<wrapper_key, wvars>>
       ELSE /\ state' = [state EXCEPT ![o] = "made"]
            /\ floating' = [floating EXCEPT ![o] = FALSE]
            /\ ref_count' = [ref_count EXCEPT ![o] = Sunk(o)]
            /\ held' = [held EXCEPT ![w] = @ + 1]
            /\ IF wrapper_key[o] = w THEN UNCHANGED <<obj, ob_refcnt, pyclass, wrapper_key>>
               ELSE wrapper_key[o] = NULL /\ Wraps(w, o)
    /\ UNCHANGED <<cref, init_refs, construction>>

\* g_object_new returns to C, which owns the object unless it floats or the
\* reference was taken over.  Python code that called C gets the exception.
CEnds(o) ==
    /\ Returns(o) /\ Top.by = "c"
    /\ cref' = [cref EXCEPT ![o] = @ + Flag(~IsFloating(o))]
    /\ state' = [state EXCEPT ![o] = "made"]
    /\ error' \in IF At' \in Hooks \cup {"bottom"} THEN {FALSE} ELSE {error, FALSE}
    /\ UNCHANGED <<ref_count, floating, qvars, wvars, construction>>

Next ==
    \/ \E w \in Wrapper :
          \/ \E c \in Class : Alloc(w, c)
          \/ \E o \in Object : PyInit(w, o) \/ Handed(o, w) \/ NewEnds(o, w)
          \/ Drop(w) \/ InstanceInit(w) \/ CallSetter(w)
    \/ \E o \in Object : PyNew(o) \/ CNew(o) \/ Adopt(o) \/ Abandon(o) \/ InitEnds(o) \/ CEnds(o)
    \/ CallTemplate \/ TemplateReturns \/ InitReturns \/ Inited \/ Constructing \/ SetterReturns
    \/ Constructed \/ ConstructedReturns

Spec == Init /\ [][Next]_vars

(***************************************************************************)
(* Properties.                                                             *)
(***************************************************************************)
TypeOK ==
    /\ state \in [Object -> {"absent", "making", "made", "gone"}]
    /\ ref_count \in [Object -> Nat] /\ cref \in [Object -> 0 .. MaxRefs + 1]
    /\ floating \in [Object -> BOOLEAN] /\ init_refs \in [Object -> Nat]
    /\ wrapper_key \in [Object -> Wrapper \cup {NULL}] /\ obj \in [Wrapper -> Object \cup {NULL}]
    /\ ob_refcnt \in [Wrapper -> Nat] /\ held \in [Wrapper -> Nat] /\ pyclass \in [Wrapper -> Class \cup {NULL}]
    /\ construction \in Wrapper \cup {NULL} /\ error \in BOOLEAN
    /\ stack \in Seq(Frame)

\* A wrapper and its object name each other, also while it is constructed
\* (pygobject_register_wrapper: "the same wrapper instance will always be used
\* for this GObject instance"), and a constructed function finds one.
TiedTogether ==
    /\ \A w \in Wrapper : obj[w] # NULL => wrapper_key[obj[w]] = w
    /\ \A o \in Object : wrapper_key[o] # NULL => obj[wrapper_key[o]] = o
    /\ \A f \in Frames : f.at # "crashed"

\* ref_count is what C owns, the floating reference, the wrapper's but for the
\* one whose constructor has yet to hand it over, what the creation of an object
\* gave its constructor, and what the template hook is guarded with.
Creators(o) == {f \in Frames : f.o = o /\ ~IsFloating(o)}
Guards(o) == {f \in Frames : f.o = o /\ f.at = "template"}
Wrappers(o) == {w \in Wrapper : obj[w] = o /\ \A f \in Frames : f.self # w}
RefCountExact ==
    \A o \in Object :
        ref_count[o] = cref[o] + Flag(floating[o]) + Cardinality(Wrappers(o))
                       + Cardinality(Creators(o)) + Cardinality(Guards(o))

\* ob_refcnt is what Python holds, the levels took and the hooks use.
Uses(w) == {f \in Frames : f.w = w /\ (f.at = "setter" \/ (f.fresh /\ f.at \in {"bound", "template", "templated", "init"}))}
PyRefCountExact ==
    \A w \in Wrapper :
        ob_refcnt[w] = held[w] + (IF obj[w] = NULL THEN 0 ELSE init_refs[obj[w]])
                       + Cardinality(Uses(w))

\* Whatever is constructed inside whatever else, object and wrapper own each
\* other exactly once: nothing leaks, nothing is released twice.
ConstructionBalanced == TypeOK /\ TiedTogether /\ RefCountExact /\ PyRefCountExact

\* To Python, an object has one instance, of its own class, from the first hook
\* on, and does not vanish while Python has it in hand.
Instance == INSTANCE PersistentInstance WITH
    Val <- {NULL}, Empty <- NULL,
    state <- [o \in Object |-> CASE state[o] = "absent" -> "unbound"
                                 [] state[o] = "gone" -> "gone"
                                 [] OTHER -> "bound"],
    attr <- [o \in Object |-> NULL],
    class <- [o \in Object |-> IF wrapper_key[o] = NULL THEN TypeOf[o] ELSE pyclass[wrapper_key[o]]],
    in_hand <- [o \in Object |-> IF wrapper_key[o] = NULL THEN 0 ELSE held[wrapper_key[o]]]
IsInstance == Instance!Spec

(***************************************************************************)
(* The inductive invariant, while nothing is shown too early or kept by    *)
(* GObject.new (~EarlyUse, ~KeptByNew).                                    *)
(***************************************************************************)
\* Each construction in progress is of an object of its own, and so is each
\* instance whose __init__ is running.
Apart ==
    \A i, j \in DOMAIN stack :
        stack[i].o = stack[j].o \/ (stack[i].self = stack[j].self /\ stack[i].self # NULL) => i = j

\* Where the instance_init functions of Python classes have all run, and where
\* the references they took have been released.
PastLevels(f) == f.at \in {"constructing", "setter", "do_constructed", "settled"}
Released(f) == f.at = "settled" \/ (f.at = "setter" /\ f.back = "settled")
AtLevel(f) == f.at \in {"bound", "template", "templated", "init"}
Using(f) == f.at = "setter" \/ (f.fresh /\ AtLevel(f))

\* How far a construction has come, and which of its classes were initialized.
Progress(f) ==
    /\ f.at # "crashed" /\ f.level <= Levels[TypeOf[f.o]]
    /\ f.at = "ancestors" => f.level = 0
    /\ AtLevel(f) \/ f.at = "levels" => f.level > 0
    /\ PastLevels(f) => f.level = Levels[TypeOf[f.o]]
    /\ f.at \in {"setter", "do_constructed"} => Registered(f.o)
    /\ f.at = "setter" => f.back \in {"constructing", "settled"}
    /\ f.fresh => AtLevel(f) /\ f.level = 1 /\ f.by # "init"
    /\ f.at = "init" => f.fresh

\* When the object has met its wrapper, and which one.
Meeting(f) ==
    /\ f.by = "init" <=> f.self # NULL
    /\ f.by = "init" => /\ held[f.self] > 0 /\ pyclass[f.self] = TypeOf[f.o]
                        /\ IF f.level = 0 THEN obj[f.self] = NULL ELSE wrapper_key[f.o] = f.self
    /\ f.level = 0 /\ (f.by # "c" \/ Registered(f.o)) => wrapper_key[f.o] = NULL
    /\ f.level > 0 /\ ~Released(f) => wrapper_key[f.o] # NULL
    /\ AtLevel(f) \/ f.at \in {"setter", "do_constructed"} => f.w # NULL /\ wrapper_key[f.o] = f.w

\* Which references the levels have taken.
Taken(f) ==
    /\ f.level = 0 \/ Released(f) \/ f.fresh => init_refs[f.o] = 0
    /\ f.level > 0 /\ ~Released(f) /\ (~AtLevel(f) \/ (~f.fresh /\ f.by # "init")) => init_refs[f.o] > 0

\* Who owns the object until its constructor does: C code cannot let it go, and
\* nobody else has what GObject.new() constructs.
Owned(f) ==
    /\ cref[f.o] <= MaxRefs
    /\ IsFloating(f.o) => floating[f.o] \/ cref[f.o] > 0 \/ (f.at = "template" /\ f.floated)
    /\ f.at = "template" => ~floating[f.o]
    /\ f.floated => f.at = "template" /\ IsFloating(f.o)
    /\ f.by = "new" => /\ IsFloating(f.o) => cref[f.o] = 0
                       /\ wrapper_key[f.o] # NULL => held[wrapper_key[f.o]] = 0
                       /\ f.at = "settled" => wrapper_key[f.o] = NULL

FrameOK(f) == state[f.o] = "making" /\ Progress(f) /\ Meeting(f) /\ Taken(f) /\ Owned(f)

\* The counts, object by object and wrapper by wrapper.
ByInit(o) == \E f \in Frames : f.o = o /\ f.by = "init"
Guarded(o) == \E f \in Frames : f.o = o /\ f.at = "template"
Used(w) == obj[w] # NULL /\ \E f \in Frames : f.o = obj[w] /\ Using(f)
ObjectOK(o) ==
    /\ state[o] = "making" <=> \E f \in Frames : f.o = o
    /\ state[o] # "making" => init_refs[o] = 0
    /\ state[o] = "absent" => cref[o] = 0 /\ ~floating[o] /\ wrapper_key[o] = NULL
    /\ floating[o] => IsFloating(o)
    /\ wrapper_key[o] # NULL => obj[wrapper_key[o]] = o
    /\ ref_count[o] = cref[o] + Flag(floating[o]) + Flag(wrapper_key[o] # NULL /\ ~ByInit(o))
                      + Flag(state[o] = "making" /\ ~IsFloating(o)) + Flag(Guarded(o))
WrapperOK(w) ==
    /\ obj[w] # NULL => wrapper_key[obj[w]] = w /\ ob_refcnt[w] > 0
    /\ ob_refcnt[w] = held[w] + (IF obj[w] = NULL THEN 0 ELSE init_refs[obj[w]]) + Flag(Used(w))
    /\ obj[w] # NULL => pyclass[w] = TypeOf[obj[w]]

\* The wrapper under construction is that of the innermost __init__, and only
\* objects without a Python class were created since; nobody else waits.
Waiting(f) == f.by = "init" /\ f.level = 0 /\ (f.at = "ancestors" \/ ~Registered(f.o))
ConstructionOK ==
    /\ construction # NULL =>
          \E i \in DOMAIN stack :
              /\ stack[i].self = construction /\ Waiting(stack[i])
              /\ \A j \in DOMAIN stack : j > i => stack[j].by # "init" /\ ~Registered(stack[j].o)
    /\ \A f \in Frames : Waiting(f) /\ Registered(f.o) => construction = f.self

IInv ==
    /\ TypeOK /\ Apart /\ ConstructionOK
    /\ \A f \in Frames : FrameOK(f)
    /\ \A o \in Object : ObjectOK(o)
    /\ \A w \in Wrapper : WrapperOK(w)

\* Python gets a further reference only to an instance that has its object.
Unshared == \A w \in Wrapper : obj[w] = NULL => held[w] <= 1
=============================================================================
