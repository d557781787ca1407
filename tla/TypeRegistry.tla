---------------------------- MODULE TypeRegistry ----------------------------
(***************************************************************************)
(* Which Python class stands for a GType.  The GType has it in its qdata,  *)
(* for C code that wraps values (pygobject_lookup_class in                 *)
(* gi/pygobject-object.c, pyg_enum_from_gtype in gi/pygenum.c), and a      *)
(* namespace has it among its attributes, made when first asked for        *)
(* (gi/module.py) or replaced by an override (gi/overrides/__init__.py).   *)
(* Threads may be switched wherever Python code runs.  What is said of an  *)
(* enumeration (gi/pygenum.c) holds of flags (gi/pygflags.c), line by line.*)
(***************************************************************************)
EXTENDS Integers, FiniteSets

CONSTANTS
    Thread,
    Loader,     \* the thread that imports the namespace with its overrides
    Types,
    TypesUsed,   \* the sets of types that a program uses
    Kind,       \* of each type, see below
    HiddenParent, \* of the objects outside any typelib: their introspected class
    MaxClasses, \* bound: the classes made for one type
    None

(* The kinds of types: a root class that had a static one (_gi.GObject), a *)
(* class and an enumeration of a typelib, a structure of a typelib without *)
(* a GType, a class and an enumeration outside any typelib, and a class    *)
(* and an enumeration of Python.                                           *)
Kinds == {"root", "object", "enum", "struct", "hidden", "anon", "sub", "mine"}
ASSUME KindOfTypes ==
    /\ Kind \in [Types -> Kinds] /\ TypesUsed \subseteq SUBSET Types
    /\ HiddenParent \in Types /\ Kind[HiddenParent] \in {"root", "object"}
    /\ None \notin Types \cup Thread \cup Types \X Nat
    /\ IsFiniteSet(Types) /\ IsFiniteSet(Thread) /\ Loader \in Thread
    /\ MaxClasses \in Nat

Introspected(t) == Kind[t] \in {"root", "object", "enum", "struct"}
HasGType(t) == Kind[t] # "struct"
ClassId == Types \X (0 .. MaxClasses)
Static(t) == <<t, 0>>

VARIABLES
    uses,     \* the types that this program uses
    made,     \* how many classes were made for each type
    refs,     \* references to each class, but for those of its own members
    gone,     \* the classes that were collected
    base,     \* the class for the same type that each class derives from
    mro,      \* the classes for the same type among its __mro__
    named,    \* the class in the qdata of each type
    dict,     \* the attributes of the introspection module
    over,     \* those of the module with the overrides
    loading,  \* the namespace is being imported
    lock,     \* of the introspection module
    at,       \* where each thread is: [pc, t, w, by, goal, bases]
    held,     \* the classes the program refers to
    handed,   \* those it was ever given, by type
    overlap   \* the types two threads were making a class for at once
registry == <<uses, made, refs, gone, base, mro, named, dict, over, loading, lock, at, held, handed, overlap>>

Idle == [pc |-> "idle", t |-> None, w |-> None, by |-> None, goal |-> None, bases |-> None]
Attr(t) == IF over[t] # None THEN over[t] ELSE dict[t]

RegistryInit ==
    /\ uses \in TypesUsed
    /\ made = [t \in Types |-> 0]
    /\ refs = [c \in ClassId |-> IF c[2] = 0 /\ Kind[c[1]] = "root" THEN 2 ELSE 0]
    /\ gone = {}
    /\ base = [c \in ClassId |-> None]
    /\ mro = [c \in ClassId |-> {c}]
    /\ named = [t \in Types |-> IF Kind[t] = "root" THEN Static(t) ELSE None]
    /\ dict = [t \in Types |-> None]
    /\ over = [t \in Types |-> None]
    /\ loading = TRUE
    /\ lock = None
    /\ at = [th \in Thread |-> Idle]
    /\ held = {}
    /\ handed = [t \in Types |-> {}]
    /\ overlap = {}

Fresh(t) == <<t, made[t] + 1>>
Plus(rs, c, n) == IF c = None THEN rs ELSE [rs EXCEPT ![c] = @ + n]

\* A class for t is made, which derives from class b for t if there is one.
Create(t, b) ==
    /\ made[t] < MaxClasses
    /\ made' = [made EXCEPT ![t] = @ + 1]
    /\ base' = [base EXCEPT ![Fresh(t)] = b]
    /\ mro' = [mro EXCEPT ![Fresh(t)] = {Fresh(t)} \cup (IF b = None THEN {} ELSE mro[b])]

\* The program is given class c of type t, with a reference of its own.
Given(t, c, rs) ==
    /\ held' = held \cup {c}
    /\ handed' = [handed EXCEPT ![t] = @ \cup {c}]
    /\ refs' = IF c \in held THEN rs ELSE Plus(rs, c, 1)

\* The lookup of an attribute ends with a new reference to c.  In Python it is
\* the program's; C code wraps an instance and never lets go of it, and goes on
\* to the class it wanted the parent for (pygi_type_import_by_g_type).  The
\* reference to what the class derives from goes.
Return(th, t, c, rs) ==
    LET left == Plus(rs, at[th].bases, -1) IN
    IF at[th].by = "python"
    THEN Given(t, c, Plus(left, c, -1)) /\ at' = [at EXCEPT ![th] = Idle]
    ELSE IF at[th].goal # None
    THEN /\ at' = [at EXCEPT ![th] = [Idle EXCEPT !.pc = "new", !.t = at[th].goal]]
         /\ refs' = left /\ UNCHANGED <<held, handed>>
    ELSE Given(t, c, left) /\ at' = [at EXCEPT ![th] = Idle]

\* g_type.pytype = c, and self.__dict__[name] = c.
SetPytype(t, c, rs) == Plus(Plus(rs, named[t], -1), c, 1)
SetAttr(t, c, rs) == Plus(Plus(rs, dict[t], -1), c, 1)

(***************************************************************************)
(* IntrospectionModule.__getattr__.                                        *)
(***************************************************************************)
Starts(th, ts) == overlap' = overlap \cup UNION {ts \cap {at[o].t, at[o].goal} : o \in Thread \ {th}}
Find(th, t, by, goal) ==
    /\ at' = [at EXCEPT ![th] = [pc |-> IF Kind[t] = "root" THEN "bases" ELSE "lock", t |-> t, w |-> None,
                                 by |-> by, goal |-> goal, bases |-> None]]
    /\ Starts(th, {t, goal} \ {None})
    /\ UNCHANGED <<made, refs, gone, base, mro, named, dict, over, loading, lock, held, handed>>

Attribute(th, t) ==
    /\ at[th].pc = "idle" /\ Introspected(t)
    /\ IF Attr(t) = None THEN Find(th, t, "python", None)
       ELSE Given(t, Attr(t), refs)
            /\ UNCHANGED <<made, gone, base, mro, named, dict, over, loading, lock, at, overlap>>

\* get_parent_for_object: a class without a parent derives from the one the GType has.
get_parent_for_object(th) ==
    /\ at[th].pc = "bases"
    /\ at' = [at EXCEPT ![th].bases = named[at[th].t], ![th].pc = "lock"]
    /\ refs' = Plus(refs, named[at[th].t], 1)
    /\ UNCHANGED <<made, gone, base, mro, named, dict, over, loading, lock, held, handed, overlap>>

Lock(th) ==
    /\ at[th].pc = "lock" /\ lock = None
    /\ lock' = th
    /\ at' = [at EXCEPT ![th].pc = "locked"]
    /\ UNCHANGED <<made, refs, gone, base, mro, named, dict, over, loading, held, handed, overlap>>

\* Fault: what another thread made meanwhile is not looked for.
MakesAnother(th) ==
    /\ at[th].pc = "locked"
    /\ at' = [at EXCEPT ![th].pc = "make"]
    /\ UNCHANGED <<made, refs, gone, base, mro, named, dict, over, loading, lock, held, handed, overlap>>
\* Fault: the lock is kept when there is a class already.
KeepsLock(th) ==
    LET t == at[th].t
        c == IF HasGType(t) THEN named[t] ELSE None
    IN  /\ at[th].pc = "locked"
        /\ IF c = None \/ c = at[th].bases
           THEN at' = [at EXCEPT ![th].pc = "make"] /\ UNCHANGED <<refs, dict, lock, held, handed>>
           ELSE IF Kind[t] = "enum"
           THEN /\ at' = [at EXCEPT ![th].pc = "name", ![th].w = c]
                /\ refs' = Plus(refs, c, 1) /\ UNCHANGED <<dict, lock, held, handed>>
           ELSE /\ dict' = [dict EXCEPT ![t] = c]
                /\ Return(th, t, c, Plus(SetAttr(t, c, refs), c, 1))
                /\ UNCHANGED lock
        /\ UNCHANGED <<made, gone, base, mro, named, over, loading, overlap>>
ReadName(th) ==
    LET t == at[th].t
        c == IF HasGType(t) THEN named[t] ELSE None
    IN  /\ at[th].pc = "locked"
        /\ IF c = None \/ c = at[th].bases
           THEN at' = [at EXCEPT ![th].pc = "make"] /\ UNCHANGED <<refs, dict, lock, held, handed>>
           ELSE IF Kind[t] = "enum"
           THEN /\ at' = [at EXCEPT ![th].pc = "name", ![th].w = c]
                /\ refs' = Plus(refs, c, 1) /\ UNCHANGED <<dict, lock, held, handed>>
           ELSE /\ dict' = [dict EXCEPT ![t] = c]
                /\ Return(th, t, c, Plus(SetAttr(t, c, refs), c, 1))
                /\ lock' = None
        /\ UNCHANGED <<made, gone, base, mro, named, over, loading, overlap>>

\* A new class for the type th is at, deriving from b.
DeriveClass(th, b, n) ==
    LET t == at[th].t IN
    /\ Create(t, b)
    /\ refs' = Plus(Plus(refs, Fresh(t), n), b, 1)
    /\ UNCHANGED overlap

\* enum_add names the class without a reference; a metaclass does not name it.
Make(th) ==
    LET t == at[th].t IN
    /\ at[th].pc = "make"
    /\ DeriveClass(th, at[th].bases, 1)
    /\ named' = IF Kind[t] = "enum" THEN [named EXCEPT ![t] = Fresh(t)] ELSE named
    /\ at' = [at EXCEPT ![th].w = Fresh(t), ![th].pc = "name"]
    /\ UNCHANGED <<gone, dict, over, loading, lock, held, handed>>

\* g_type.pytype = wrapper, and the end of the block that holds the lock.
Name(th) ==
    LET t == at[th].t
        c == at[th].w
    IN  /\ at[th].pc = "name"
        /\ IF HasGType(t) THEN named' = [named EXCEPT ![t] = c] /\ refs' = SetPytype(t, c, refs)
           ELSE UNCHANGED <<named, refs>>
        /\ lock' = None
        /\ at' = [at EXCEPT ![th].pc = "cache"]
        /\ UNCHANGED <<made, gone, base, mro, dict, over, loading, held, handed, overlap>>

Cache(th) ==
    LET t == at[th].t
        c == at[th].w
    IN  /\ at[th].pc = "cache"
        /\ dict' = [dict EXCEPT ![t] = c]
        /\ Return(th, t, c, SetAttr(t, c, refs))
        /\ UNCHANGED <<made, gone, base, mro, named, over, loading, lock, overlap>>

(***************************************************************************)
(* C code that has a value for Python: an object, or a value of an         *)
(* enumeration.  Without a typelib it makes the class itself.              *)
(***************************************************************************)
Wrapped(t) ==
    /\ Given(t, named[t], refs)
    /\ UNCHANGED <<made, gone, base, mro, named, dict, over, loading, lock, at, overlap>>
Go(th, pc, t) ==
    /\ at' = [at EXCEPT ![th] = [Idle EXCEPT !.pc = pc, !.t = t, !.by = "c"]]
    /\ Starts(th, {t})
    /\ UNCHANGED <<made, refs, gone, base, mro, named, dict, over, loading, lock, held, handed>>

\* A typelib is asked by importing its namespace.  While its overrides run it is
\* in sys.modules already (load_overrides), so that no thread waits for them.
import_by_g_type(th, t, goal) ==
    IF Attr(t) = None THEN Find(th, t, "c", goal)
    ELSE IF goal # None THEN Go(th, "new", goal)
    ELSE /\ Given(t, Attr(t), Plus(refs, Attr(t), 1))
         /\ UNCHANGED <<made, gone, base, mro, named, dict, over, loading, lock, at, overlap>>

\* An object of a class of Python exists only once the class was registered.
pygobject_lookup_class(th, t) ==
    /\ at[th].pc = "idle" /\ Kind[t] \in {"root", "object", "hidden", "sub"}
    /\ Kind[t] = "sub" => named[t] # None
    /\ IF named[t] # None THEN Wrapped(t)
       ELSE IF Introspected(t) THEN import_by_g_type(th, t, None)
       ELSE IF named[HiddenParent] # None THEN Go(th, "new", t)
       ELSE import_by_g_type(th, HiddenParent, t)

pyg_enum_from_gtype(th, t) ==
    /\ at[th].pc = "idle" /\ Kind[t] \in {"enum", "anon", "mine"}
    /\ Kind[t] = "mine" => named[t] # None
    /\ IF named[t] # None THEN Wrapped(t)
       ELSE IF Introspected(t) THEN import_by_g_type(th, t, None)
       ELSE Go(th, "add", t)

\* pygobject_new_with_interfaces, which calls the metaclass: Python code.
new_with_interfaces(th) ==
    /\ at[th].pc = "new"
    /\ DeriveClass(th, None, 1)
    /\ at' = [at EXCEPT ![th].w = Fresh(at[th].t), ![th].pc = "stash"]
    /\ UNCHANGED <<gone, named, dict, over, loading, lock, held, handed>>
\* Fault: the GType names the class without a reference, and the first is let go.
StashesBare(th) ==
    LET t == at[th].t
        c == at[th].w
    IN  /\ at[th].pc = "stash"
        /\ named' = [named EXCEPT ![t] = c]
        /\ Given(t, c, Plus(refs, c, -1))
        /\ at' = [at EXCEPT ![th] = Idle]
        /\ UNCHANGED <<made, gone, base, mro, dict, over, loading, lock, overlap>>
Stash(th) ==
    LET t == at[th].t
        c == at[th].w
    IN  /\ at[th].pc = "stash"
        /\ named' = [named EXCEPT ![t] = c]
        /\ Given(t, c, Plus(refs, c, 1))
        /\ at' = [at EXCEPT ![th] = Idle]
        /\ UNCHANGED <<made, gone, base, mro, dict, over, loading, lock, overlap>>

\* pyg_enum_add, which names the class as soon as the metaclass has returned it.
pyg_enum_add(th) ==
    LET t == at[th].t IN
    /\ at[th].pc = "add"
    /\ Create(t, None)
    /\ named' = [named EXCEPT ![t] = Fresh(t)]
    /\ Given(t, Fresh(t), Plus(refs, Fresh(t), 1))
    /\ at' = [at EXCEPT ![th] = Idle]
    /\ UNCHANGED <<gone, dict, over, loading, lock, overlap>>

(***************************************************************************)
(* Classes of Python, registered as they are defined.                      *)
(***************************************************************************)
Define(t, n) ==
    /\ made[t] = 0
    /\ Create(t, None)
    /\ named' = [named EXCEPT ![t] = Fresh(t)]
    /\ Given(t, Fresh(t), Plus(refs, Fresh(t), n))
    /\ UNCHANGED <<gone, dict, over, loading, lock, overlap, at>>
RegisterClass(th, t) == at[th].pc = "idle" /\ Kind[t] = "sub" /\ Define(t, 1)
pyg_enum_register(th, t) == at[th].pc = "idle" /\ Kind[t] = "mine" /\ Define(t, 0)

(***************************************************************************)
(* The import of the namespace and its overrides.                          *)
(***************************************************************************)
\* Fault: the GType goes on with the class of the typelib.
OverridesAttribute(t) ==
    /\ loading /\ at[Loader].pc = "idle"
    /\ Kind[t] \in {"root", "object"} /\ dict[t] # None /\ over[t] = None
    /\ Create(t, dict[t])
    /\ refs' = Plus(Plus(refs, dict[t], 1), Fresh(t), 1)
    /\ over' = [over EXCEPT ![t] = Fresh(t)]
    /\ UNCHANGED <<gone, named, dict, loading, lock, at, held, handed, overlap>>
override(t) ==
    /\ loading /\ at[Loader].pc = "idle"
    /\ Kind[t] \in {"root", "object"} /\ dict[t] # None /\ over[t] = None
    /\ Create(t, dict[t])
    /\ refs' = SetPytype(t, Fresh(t), Plus(Plus(refs, dict[t], 1), Fresh(t), 1))
    /\ named' = [named EXCEPT ![t] = Fresh(t)]
    /\ over' = [over EXCEPT ![t] = Fresh(t)]
    /\ UNCHANGED <<gone, dict, loading, lock, at, held, handed, overlap>>

\* A deprecated attribute is moved out of the introspection module.
deprecated_attr(t) ==
    /\ loading /\ at[Loader].pc = "idle" /\ dict[t] # None
    /\ over' = [over EXCEPT ![t] = Attr(t)]
    /\ dict' = [dict EXCEPT ![t] = None]
    /\ refs' = Plus(refs, dict[t], IF over[t] = None THEN 0 ELSE -1)
    /\ UNCHANGED <<made, gone, base, mro, named, loading, lock, at, held, handed, overlap>>

Loaded ==
    /\ loading /\ at[Loader].pc = "idle"
    /\ loading' = FALSE
    /\ UNCHANGED <<made, refs, gone, base, mro, named, dict, over, lock, at, held, handed, overlap>>

(***************************************************************************)
(* The program lets go of a class, but for an enumeration of its own, and  *)
(* the collector takes the classes nobody refers to.                       *)
(***************************************************************************)
Drop(c) ==
    /\ c \in held /\ Kind[c[1]] # "mine"
    /\ held' = held \ {c}
    /\ refs' = Plus(refs, c, -1)
    /\ UNCHANGED <<made, gone, base, mro, named, dict, over, loading, lock, at, handed, overlap>>
Collect(c) ==
    /\ c[2] \in 1 .. made[c[1]] /\ refs[c] = 0 /\ c \notin gone
    /\ gone' = gone \cup {c}
    /\ refs' = Plus(refs, base[c], -1)
    /\ UNCHANGED <<made, base, mro, named, dict, over, loading, lock, at, held, handed, overlap>>

Inside(th) ==
    \/ get_parent_for_object(th) \/ Lock(th) \/ ReadName(th) \/ Make(th) \/ Name(th) \/ Cache(th)
    \/ new_with_interfaces(th) \/ Stash(th) \/ pyg_enum_add(th)
RegistryNext ==
    /\ UNCHANGED uses
    /\ \/ \E th \in Thread, t \in uses :
              \/ Attribute(th, t) \/ pygobject_lookup_class(th, t) \/ pyg_enum_from_gtype(th, t)
              \/ RegisterClass(th, t) \/ pyg_enum_register(th, t)
       \/ \E th \in Thread : Inside(th)
       \/ \E t \in uses : override(t) \/ deprecated_attr(t)
       \/ Loaded
       \/ \E c \in ClassId : Drop(c) \/ Collect(c)

RegistrySpec == RegistryInit /\ [][RegistryNext]_registry

\* A thread inside the code runs on.
FairSpec == RegistrySpec /\ \A th \in Thread : WF_registry(UNCHANGED uses /\ Inside(th))

(***************************************************************************)
(* Properties.                                                             *)
(***************************************************************************)
Derives(c, d) == d \in mro[c]

\* Two threads looked for the class of t at once, and it is one made without the
\* lock, or without a GType to name it, or a root's that was replaced meanwhile:
\* get_parent_for_object had read the class of the GType before.
Raced(t) ==
    t \in overlap /\ (Kind[t] \in {"struct", "hidden", "anon"} \/ (Kind[t] = "root" /\ over[t] # None))

\* A type has one class: of two that the program was ever given, one derives
\* from the other, so that isinstance() holds on (the check in
\* IntrospectionModule.__getattr__ that follows its lock, gi/module.py).
OneClass == \A t \in Types : Raced(t) \/ \A c, d \in handed[t] : Derives(c, d) \/ Derives(d, c)

\* The class that a GType names is alive: it is used without a reference
\* (pyg_enum_from_gtype, pygobject_lookup_class).  A typelib's enumeration is
\* kept by its namespace only; one of the program's own, by nothing, which is
\* why the program is taken to keep it.
NamedAlive == \A t \in Types : named[t] # None => named[t] \notin gone /\ refs[named[t]] > 0

\* What C code wraps an object or a value in is what the namespace has for its
\* type, or derives from it, whoever asked first and whatever was overridden.
NamespaceAgrees ==
    \A t \in Types :
        (Introspected(t) /\ HasGType(t) /\ Attr(t) # None /\ ~Raced(t)) => Derives(named[t], Attr(t))

\* A thread that looks for a class comes back: nobody keeps the lock of the
\* module, and nobody waits while holding it.
LookupsEnd == \A th \in Thread : at[th].pc # "idle" ~> at[th].pc = "idle"

(***************************************************************************)
(* The inductive invariant of the three.                                   *)
(***************************************************************************)
PC == {"idle", "bases", "lock", "locked", "make", "name", "cache", "new", "stash", "add"}
Place == [pc : PC, t : Types \cup {None}, w : ClassId \cup {None}, by : {"python", "c", None},
          goal : Types \cup {None}, bases : ClassId \cup {None}]
RegistryTypes ==
    /\ made \in [Types -> 0 .. MaxClasses]
    /\ refs \in [ClassId -> Int]
    /\ gone \subseteq ClassId
    /\ base \in [ClassId -> ClassId \cup {None}]
    /\ mro \in [ClassId -> SUBSET ClassId]
    /\ named \in [Types -> ClassId \cup {None}]
    /\ dict \in [Types -> ClassId \cup {None}]
    /\ over \in [Types -> ClassId \cup {None}]
    /\ at \in [Thread -> Place]
    /\ lock \in Thread \cup {None}
    /\ held \subseteq ClassId
    /\ handed \in [Types -> SUBSET ClassId]
    /\ overlap \subseteq Types
    /\ uses \subseteq Types

\* The classes there are for a type; whatever refers to a class refers to one of
\* these.
Made(t) == {c \in ClassId : c[1] = t /\ c[2] <= made[t] /\ (c[2] = 0 => Kind[t] = "root")}
SomeMade(t, c) == c = None \/ c \in Made(t)
RefersToMade ==
    /\ \A t \in Types : /\ SomeMade(t, named[t]) /\ SomeMade(t, dict[t]) /\ SomeMade(t, over[t])
                        /\ handed[t] \subseteq Made(t)
    /\ \A c \in ClassId : SomeMade(c[1], base[c])
    /\ \A c \in held \cup gone : c \in Made(c[1])
    /\ \A c \in gone : c[2] # 0

\* Where a thread can be with which type.
Finding == {"bases", "lock", "locked", "make", "name", "cache"}
Carrying == {"name", "cache", "stash"}
AtOK(th) ==
    /\ at[th].pc = "idle" => at[th].t = None
    /\ at[th].pc \in Finding => at[th].t \in Types /\ Introspected(at[th].t)
    /\ at[th].pc = "bases" => Kind[at[th].t] = "root"
    /\ at[th].pc \in {"new", "stash"} => at[th].t \in Types /\ Kind[at[th].t] = "hidden"
    /\ at[th].pc = "add" => at[th].t \in Types /\ Kind[at[th].t] = "anon"
    /\ at[th].goal # None => at[th].pc \in Finding /\ Kind[at[th].goal] = "hidden"
    /\ IF at[th].pc \in Carrying THEN at[th].w \in Made(at[th].t) ELSE at[th].w = None
    /\ IF at[th].pc \in Finding \ {"bases"} /\ Kind[at[th].t] = "root"
       THEN at[th].bases \in Made(at[th].t) ELSE at[th].bases = None
LockHeld == \A th \in Thread : lock = th <=> at[th].pc \in {"locked", "make", "name"}
ThreadsOK == LockHeld /\ \A th \in Thread : AtOK(th)

\* Who has a reference to class c: a GType does, but for enumerations that came
\* from enum_add and pyg_enum_register.
Strong(t) == Kind[t] \notin {"enum", "mine"}
Is(x, c) == IF x = c THEN 1 ELSE 0
HowMany(f, c) == Cardinality({x \in DOMAIN f : f[x] = c})
NamedBy(c) == IF Strong(c[1]) THEN Is(named[c[1]], c) ELSE 0
DictBy(c) == Is(dict[c[1]], c)
OverBy(c) == Is(over[c[1]], c)
HeldBy(c) == IF c \in held THEN 1 ELSE 0
CarriedBy(c) == HowMany([th \in Thread |-> at[th].w], c)
BasesBy(c) == HowMany([th \in Thread |-> at[th].bases], c)
ParentOf(c) == IF c \in gone THEN None ELSE base[c]
ParentsBy(c) == HowMany([x \in ClassId |-> ParentOf(x)], c)
References(c) ==
    NamedBy(c) + DictBy(c) + OverBy(c) + HeldBy(c) + CarriedBy(c) + BasesBy(c) + ParentsBy(c)
Counted == \A c \in ClassId : References(c) <= refs[c]
GoneUnowned == \A c \in gone : References(c) = 0

\* An enumeration of a typelib is kept by its namespace, or by the thread that
\* makes it; one of the program's own by the program.
EnumKept ==
    \A t \in Types : named[t] # None =>
        /\ Kind[t] = "enum" => \/ dict[t] = named[t] \/ over[t] = named[t]
                               \/ \E th \in Thread : at[th].w = named[t]
        /\ Kind[t] = "mine" => named[t] \in held

IInvAlive == RegistryTypes /\ RefersToMade /\ ThreadsOK /\ Counted /\ GoneUnowned /\ EnumKept

\* Thread th is with type t, or goes on to it.
Looks(th, t) == at[th].t = t \/ at[th].goal = t
IsAt(th, pc, t) == at[th].pc = pc /\ at[th].t = t
Latest(t) == <<t, made[t]>>
NotBoth == \A t \in Types : \A th, o \in Thread : Looks(th, t) /\ Looks(o, t) => th = o \/ t \in overlap

OneEnum(t) ==
    /\ made[t] <= 1
    /\ made[t] = 1 <=> named[t] # None
    /\ \A th \in Thread : IsAt(th, "make", t) => made[t] = 0
ObjectOrder(t) ==
    /\ over[t] = None => made[t] <= 1
    /\ over[t] # None => over[t] = named[t] /\ named[t] = Latest(t)
    /\ named[t] = None => dict[t] = None /\ (made[t] = 0 \/ \E th \in Thread : IsAt(th, "name", t))
    /\ \A th \in Thread : /\ IsAt(th, "make", t) => named[t] = None /\ made[t] = 0
                          /\ IsAt(th, "name", t) => named[t] = None
                          /\ IsAt(th, "cache", t) => named[t] # None
RootOrder(t) ==
    over[t] = None =>
        /\ named[t] = Latest(t) \/ \E th \in Thread : IsAt(th, "name", t)
        /\ dict[t] # None => dict[t][2] <= named[t][2]
        /\ \A th \in Thread : /\ IsAt(th, "make", t) => at[th].bases = named[t]
                              /\ IsAt(th, "name", t) => at[th].w = Latest(t)
                              /\ IsAt(th, "cache", t) => at[th].w[2] <= named[t][2]
RootAlone(t) ==
    /\ \A th \in Thread : /\ Looks(th, t) => Attr(t) = None
                          /\ IsAt(th, "cache", t) => at[th].w = named[t]
    /\ dict[t] # None /\ over[t] = None => dict[t] = named[t]
    /\ over[t] # None => over[t] = named[t] /\ named[t] = Latest(t)
Closed(t) == IF Kind[t] = "struct" THEN Attr(t) # None ELSE named[t] # None
MadeAlone(t) ==
    /\ made[t] <= 1
    /\ made[t] = 1 => Closed(t) \/ \E th \in Thread : at[th].t = t /\ at[th].pc \in Carrying
    /\ \A th \in Thread : Looks(th, t) /\ made[t] = 1 => at[th].t = t /\ at[th].pc \in Carrying

\* How many classes there are of each kind, and which is the last.
InOrder(t) ==
    /\ Kind[t] = "enum" => OneEnum(t)
    /\ Kind[t] = "object" => ObjectOrder(t)
    /\ Kind[t] = "root" => named[t] # None /\ RootOrder(t) /\ (t \notin overlap => RootAlone(t))
    /\ Kind[t] \in {"struct", "hidden", "anon"} /\ t \notin overlap => MadeAlone(t)
    /\ Kind[t] \in {"sub", "mine"} => made[t] <= 1

\* Each class derives from those made before it.
InLine(t) == \A c, d \in Made(t) : c[2] <= d[2] => Derives(d, c)
IInvOne == NotBoth /\ \A t \in Types : InOrder(t) /\ (Raced(t) \/ InLine(t))
RegistryInv == IInvAlive /\ IInvOne
=============================================================================
