----------------------------- MODULE PythonClass ----------------------------
(***************************************************************************)
(* Classes that Python derives from a class of C.  Each class statement    *)
(* registers a GType (gi/gimodule.c, pyg_type_register) with its signals   *)
(* and properties (gi/pygobject-class.c), then puts each method that is    *)
(* called as a virtual function into the class structure or the table of   *)
(* an interface (gi/types.py, _setup_vfuncs).  A statement may fail at     *)
(* any of these and be tried again.                                        *)
(*                                                                         *)
(* Classes are numbered in the order of their statements; 0 is C code.     *)
(***************************************************************************)
EXTENDS Integers, Sequences, FiniteSets, FiniteSetsExt, Functions

CONSTANTS
    Root,        \* the name of the class of C, without its prefix
    Interfaces,
    Vfuncs,      \* pairs of a base (the root or an interface) and a name
    CSignals,    \* the signals of the root
    Programs,    \* what the class statements of a program may say, and how many there are
    Tries,       \* how many names are tried for a GType, 1000 in the code
    NULL

Named(v) == v[2]
Methods == [of : {NULL, Root} \cup Interfaces, name : {Named(v) : v \in Vfuncs}]   \* do_<of>_<name>
Entries == {"new", "override", "bad"}   \* of __gsignals__; of __gproperties__ "new" and "bad"
ASSUME StatementsType ==
    \A p \in Programs : \A s \in p.says :
        /\ s.lists \subseteq Interfaces /\ s.own \subseteq Methods
        /\ Range(s.gsignals) \subseteq Entries /\ Range(s.gproperties) \subseteq {"new", "bad"}
ASSUME VfuncsType ==
    /\ IsFiniteSet(Vfuncs)
    /\ \A v \in Vfuncs : v = <<v[1], v[2]>> /\ v[1] \in {Root} \cup Interfaces
\* Names that are made and names that are asked for differ.
ASSUME NamesType ==
    /\ Tries \in Nat \ {0}
    /\ \A k \in 0 .. Tries : NULL # <<"auto", k>>
    /\ \A p \in Programs : \A s \in p.says :
          s.gtype_name # NULL => s.gtype_name # "auto" /\ NULL # <<s.gtype_name, 1>>

VARIABLES
    classes,   \* [of: its statement, line: itself and its parents, gtype, state, sigs, props]
    slot,      \* the function that C calls, by the class a table belongs to and the vfunc
    todo       \* the methods of the last class that _setup_vfuncs has not come to
vars == <<classes, slot, todo>>

Class == 1 .. Len(classes)
Says(c) == classes[c].of
Line(c) == classes[c].line
C == <<0, NULL>>

Init == classes = <<>> /\ slot = [s \in {0} \X Vfuncs |-> C] /\ todo = {}

\* Fault: an interface that the parent has is not added again.
HeldByFirst(line, b) ==
    LET listing == {d \in line : b \in Says(d).lists}
    IN  IF b = Root THEN Max(line) ELSE IF listing = {} THEN 0 ELSE Min(listing)
\* The class whose table has the vfuncs of base b for a class with this line.  A
\* class structure is its own; the table of an interface that it does not list is
\* its parent's (pyg_type_add_interfaces and GLib).
Holder(line, b) == Max({0} \cup {d \in line : b = Root \/ b \in Says(d).lists})
HolderOf(c, v) == Holder(Line(c), v[1])

\* The bases of c with information from a typelib.
Bases(c) == {Root} \cup UNION {Says(d).lists : d \in Line(c)}

(***************************************************************************)
(* pyg_type_register.                                                      *)
(***************************************************************************)
Names == {classes[c].gtype : c \in Class}

\* Fault: no serial number is tried.
FirstNameOnly == <<"auto", 1>>
\* The names of all classes begin alike; the last one tried may be taken.
get_type_name_for_class ==
    LET free == {k \in 1 .. Tries - 1 : <<"auto", k>> \notin Names}
    IN  <<"auto", IF free = {} THEN Tries - 1 ELSE Min(free)>>

\* The signals that a class of this line has.
SignalsOf(line) == CSignals \cup UNION {classes[d].sigs : d \in line}
create_signal(name, entry, has) == entry = "new" /\ name \notin has
override_signal(name, entry, has) == entry = "override" /\ name \in has
create_property(entry) == entry = "new"

\* The dictionary's order decides what is installed before an entry fails.
add_signals(gsignals, has) ==
    LET fits == {n \in DOMAIN gsignals : create_signal(n, gsignals[n], has) \/ override_signal(n, gsignals[n], has)}
        New(ns) == {n \in ns : gsignals[n] = "new"}
    IN  IF fits = DOMAIN gsignals THEN {[ok |-> TRUE, sigs |-> New(fits)]}
        ELSE {[ok |-> FALSE, sigs |-> New(ns)] : ns \in SUBSET fits}
\* Fault: an entry that fails is left out.
LeavesOut(gproperties) ==
    {[ok |-> TRUE, props |-> {n \in DOMAIN gproperties : create_property(gproperties[n])}]}
add_properties(gproperties) ==
    LET fits == {n \in DOMAIN gproperties : create_property(gproperties[n])}
    IN  IF fits = DOMAIN gproperties THEN {[ok |-> TRUE, props |-> fits]}
        ELSE {[ok |-> FALSE, props |-> ns] : ns \in SUBSET fits}

\* pygobject__g_class_init: the properties come after the signals.
g_class_init(s, has) ==
    UNION {IF ~r.ok THEN {[ok |-> FALSE, sigs |-> r.sigs, props |-> {}]}
           ELSE {[ok |-> p.ok, sigs |-> r.sigs, props |-> p.props] : p \in add_properties(s.gproperties)} :
               r \in add_signals(s.gsignals, has)}

\* The tables of the new class c begin as copies of its parent's.
NewTables(c, parent, s) ==
    LET From(v) == IF parent = 0 THEN 0 ELSE HolderOf(parent, v)
        own == {<<c, v>> : v \in {w \in Vfuncs : w[1] = Root \/ w[1] \in s.lists}}
    IN  [k \in DOMAIN slot \cup own |-> IF k \in own THEN slot[<<From(k[2]), k[2]>>] ELSE slot[k]]

pyg_type_register(parent, s) ==
    LET c == Len(classes) + 1
        line == {c} \cup (IF parent = 0 THEN {} ELSE Line(parent))
        gtype == IF s.gtype_name = NULL THEN get_type_name_for_class ELSE <<s.gtype_name, 1>>
        New(g, state, r) == [of |-> s, line |-> line, gtype |-> g, state |-> state, sigs |-> r.sigs, props |-> r.props]
    IN  IF gtype \in Names
        THEN /\ classes' = Append(classes, New(NULL, "refused", [sigs |-> {}, props |-> {}]))
             /\ UNCHANGED <<slot, todo>>
        ELSE \E r \in g_class_init(s, SignalsOf(line \ {c})) :
             /\ classes' = Append(classes, New(gtype, IF r.ok THEN "defining" ELSE "refused", r))
             /\ slot' = NewTables(c, parent, s)
             /\ todo' = IF r.ok THEN s.own ELSE {}

(***************************************************************************)
(* _setup_vfuncs, method by method in the order of the dictionary.         *)
(***************************************************************************)
\* The vfunc that the method do_<of>_<name> of class c implements: the prefix is
\* looked for first, then the attributes that the root has, then the interfaces.
Prefixed(c, x) == {v \in Vfuncs : v = <<x.of, x.name>> /\ v[1] \in Bases(c)}
find_vfunc_info_in_interface(c, x) ==
    {v \in Vfuncs : x.of = NULL /\ v[2] = x.name /\ v[1] \in Bases(c) \ {Root}}
vfunc_info(c, x) ==
    IF x.of # NULL THEN Prefixed(c, x)
    ELSE IF <<Root, x.name>> \in Vfuncs THEN {<<Root, x.name>>}
    ELSE find_vfunc_info_in_interface(c, x)
find_vfunc_conflict_in_bases(c, v) == \E b \in Bases(c) \ {v[1]} : <<b, v[2]>> \in Vfuncs

hook_up_vfunc_implementation(c, v, x) == slot' = [slot EXCEPT ![<<HolderOf(c, v), v>>] = <<c, x>>]

SetupVfunc(x) ==
    LET c == Len(classes) IN
    /\ x \in todo
    /\ IF vfunc_info(c, x) = {} THEN todo' = todo \ {x} /\ UNCHANGED <<classes, slot>>
       ELSE \E v \in vfunc_info(c, x) :
            IF x.of = NULL /\ find_vfunc_conflict_in_bases(c, v)
            THEN /\ classes' = [classes EXCEPT ![c].state = "refused"]
                 /\ todo' = {} /\ UNCHANGED slot
            ELSE /\ hook_up_vfunc_implementation(c, v, x)
                 /\ todo' = todo \ {x} /\ UNCHANGED classes

Defined ==
    /\ todo = {} /\ classes # <<>> /\ classes[Len(classes)].state = "defining"
    /\ classes' = [classes EXCEPT ![Len(classes)].state = "ready"]
    /\ UNCHANGED <<slot, todo>>

Next ==
    \/ /\ \A d \in Class : classes[d].state # "defining"
       /\ \E p \in Programs :
            /\ Len(classes) < p.upto /\ \A d \in Class : Says(d) \in p.says
            /\ \E parent \in {0} \cup {d \in Class : classes[d].state = "ready"}, s \in p.says : pyg_type_register(parent, s)
    \/ \E x \in Methods : SetupVfunc(x)
    \/ Defined

Spec == Init /\ [][Next]_vars

(***************************************************************************)
(* Properties.                                                             *)
(***************************************************************************)
Ready == {c \in Class : classes[c].state = "ready"}

\* What the name of a method of class c can mean.
Means(c, x) == {v \in Vfuncs : v[2] = x.name /\ v[1] \in Bases(c) /\ x.of \in {NULL, v[1]}}

\* The classes that put their methods into a table that c calls, or that the
\* table of c was copied from: they inherit an interface that they do not list.
Lister(c, b) == Max({0} \cup {d \in Line(c) : b \in Says(d).lists})
Sharing(c, b) ==
    {e \in Class \ Line(c) :
        /\ classes[e].gtype # NULL /\ b # Root /\ b \notin Says(e).lists /\ Lister(e, b) \in Line(c)
        /\ Lister(e, b) = Lister(c, b) \/ e < Lister(c, b)}

\* C calls the method of the nearest class that has one, or its own function
\* when there is none; but for an interface that a class has from its parent
\* without listing it, the last such class that was defined speaks for all
\* that share the table (pyg_type_add_interfaces and its comment,
\* _wrap_pyg_hook_up_vfunc_implementation), one whose statement failed included.
CallsNearest ==
    \A c \in Ready : \A v \in {w \in Vfuncs : w[1] \in Bases(c)} :
        LET over == {d \in Line(c) : \E x \in Says(d).own : Means(d, x) = {v}}
            called == slot[<<HolderOf(c, v), v>>]
        IN  \/ over = {} /\ called = C
            \/ over # {} /\ called[1] = Max(over) /\ Means(called[1], called[2]) = {v}
            \/ called[1] \in Sharing(c, v[1])

\* A statement fails for a reason of its own: a wrong declaration, a method
\* that can mean two vfuncs, a GType name that it asks for and another class
\* has.  Trying again after a failure is no reason (get_type_name_for_class),
\* until all the names that are tried were used.
FailsForReason ==
    \A c \in Class : classes[c].state = "refused" =>
        LET s == Says(c)
            has == SignalsOf(Line(c) \ {c})
            before == {d \in Class : d < c /\ classes[d].gtype # NULL}
        IN  \/ "bad" \in Range(s.gsignals) \cup Range(s.gproperties)
            \/ \E n \in DOMAIN s.gsignals : (s.gsignals[n] = "new") # (n \notin has)
            \/ \E x \in s.own : Cardinality(Means(c, x)) > 1
            \/ s.gtype_name # NULL /\ \E d \in before : Says(d).gtype_name = s.gtype_name
            \/ s.gtype_name = NULL /\ Cardinality({d \in before : Says(d).gtype_name = NULL}) >= Tries - 1

\* A class that Python was given is whole, whatever failed before it: it has a
\* GType of its own and every signal and property that it declares.
ReadyIsWhole ==
    \A c \in Ready :
        /\ \A d \in Class \ {c} : classes[d].gtype # classes[c].gtype
        /\ classes[c].sigs = {n \in DOMAIN Says(c).gsignals : Says(c).gsignals[n] = "new"}
        /\ classes[c].props = DOMAIN Says(c).gproperties

(***************************************************************************)
(* The inductive invariant of all this.                                    *)
(***************************************************************************)
Statements == UNION {p.says : p \in Programs}
GTypes == {<<"auto", k>> : k \in 0 .. Tries} \cup {<<s.gtype_name, 1>> : s \in Statements}
ClassType == [of : Statements, line : SUBSET Nat, gtype : GTypes \cup {NULL}, state : {"refused", "defining", "ready"},
              sigs : SUBSET UNION {DOMAIN s.gsignals : s \in Statements},
              props : SUBSET UNION {DOMAIN s.gproperties : s \in Statements}]
TypeOK == classes \in Seq(ClassType) /\ todo \subseteq Methods

\* The parents of a class came before it and were defined, with their parents.
Descent ==
    \A c \in Class :
        /\ c \in Line(c) /\ Line(c) \subseteq 1 .. c
        /\ \A d \in Line(c) \ {c} : classes[d].state = "ready" /\ Line(d) \subseteq Line(c)

\* Only the last class is being defined, and it has what it declared so far.
Defining(c) == classes[c].state = "defining"
OneDefined ==
    /\ todo # {} => classes # <<>> /\ Defining(Len(classes)) /\ todo \subseteq Says(Len(classes)).own
    /\ \A c \in Class : Defining(c) => c = Len(classes)

\* Every GType has its name from one class, in the way its statement asked for.
NamesApart ==
    \A c \in Class :
        /\ classes[c].gtype # NULL =>
              /\ \A d \in Class \ {c} : classes[d].gtype # classes[c].gtype
              /\ IF Says(c).gtype_name = NULL THEN \E k \in 0 .. Tries : classes[c].gtype = <<"auto", k>>
                 ELSE classes[c].gtype = <<Says(c).gtype_name, 1>>
        /\ classes[c].state # "refused" => classes[c].gtype # NULL

\* What a class that did not fail declared is there.
Declared ==
    \A c \in Class : classes[c].state # "refused" =>
        /\ classes[c].sigs = {n \in DOMAIN Says(c).gsignals : Says(c).gsignals[n] = "new"}
        /\ classes[c].props = DOMAIN Says(c).gproperties

\* Every registered class has its tables; those of C stay as they are.
Tables ==
    /\ DOMAIN slot = ({0} \X Vfuncs) \cup
          {k \in Class \X Vfuncs : classes[k[1]].gtype # NULL /\ k[2][1] \in {Root} \cup Says(k[1]).lists}
    /\ \A v \in Vfuncs : slot[<<0, v>>] = C

\* CallsNearest, while the methods of the last class are hooked up.
Hooked(d) == IF Defining(d) THEN Says(d).own \ todo ELSE Says(d).own
Over(c, v) == {d \in Line(c) : \E x \in Hooked(d) : Means(d, x) = {v}}
Nearest(c, v) ==
    LET called == slot[<<HolderOf(c, v), v>>]
    IN  \/ Over(c, v) = {} /\ called = C
        \/ Over(c, v) # {} /\ called[1] = Max(Over(c, v)) /\ Means(called[1], called[2]) = {v}
        \/ called[1] \in Sharing(c, v[1])
NearestSoFar ==
    \A c \in Class : classes[c].state # "refused" => \A v \in {w \in Vfuncs : w[1] \in Bases(c)} : Nearest(c, v)

IInv == TypeOK /\ Descent /\ OneDefined /\ NamesApart /\ Declared /\ Tables /\ NearestSoFar /\ FailsForReason
=============================================================================
