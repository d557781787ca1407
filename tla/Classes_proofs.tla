--------------------------- MODULE Classes_proofs --------------------------
(***************************************************************************)
(* Safety of class statements, for any interfaces, vfuncs and statements:  *)
(* C calls the nearest method but for tables that classes share, a         *)
(* statement fails for a reason of its own, and a class that Python was    *)
(* given is whole.  Then the classes that stand for GTypes, for any types  *)
(* and threads: a type has one class, which stays alive while its GType    *)
(* names it, and is the one its namespace has.                             *)
(***************************************************************************)
EXTENDS PythonClass, TypeRegistry, FiniteSetTheorems, SequenceTheorems, WellFoundedInduction, TLAPS

(***************************************************************************)
(* Greatest and least members of a set of numbers.                         *)
(***************************************************************************)
LEMMA LeastNumber ==
    ASSUME NEW T, T \subseteq Nat, T # {}
    PROVE  \E x \in T : \A y \in T : x <= y
<1> DEFINE R == OpToRel(<, Nat)
<1>1. IsWellFoundedOn(R, Nat)
  BY NatLessThanWellFounded
<1>2. \A x, y \in Nat : y < x => <<y, x>> \in R
  BY DEF OpToRel
<1> HIDE DEF R
<1>3. PICK x \in T : \A y \in T : ~(<<y, x>> \in R)
  BY <1>1, WFMin
<1>4. ASSUME NEW y \in T PROVE x <= y
  <2>1. x \in Nat /\ y \in Nat
    OBVIOUS
  <2>2. ~(y < x)
    BY <1>2, <1>3, <2>1
  <2> QED
    BY <2>1, <2>2
<1> QED
  BY <1>4

LEMMA MinIsLeast ==
    ASSUME NEW T, T \subseteq Nat, T # {}
    PROVE  Min(T) \in T /\ \A y \in T : Min(T) <= y
<1>1. \E x \in T : \A y \in T : x =< y
  BY LeastNumber
<1> QED
  BY <1>1 DEF Min

LEMMA MaxIsGreatest ==
    ASSUME NEW n \in Nat, NEW T, T \subseteq 0 .. n, T # {}
    PROVE  Max(T) \in T /\ \A y \in T : Max(T) >= y
<1> DEFINE U == {n - x : x \in T}
<1>1. U \subseteq Nat /\ U # {}
  <2>1. \A x \in T : n - x \in Nat
    OBVIOUS
  <2>2. PICK x \in T : TRUE
    OBVIOUS
  <2>3. n - x \in U
    OBVIOUS
  <2> QED
    BY <2>1, <2>3
<1>2. PICK u \in U : \A y \in U : u <= y
  BY <1>1, LeastNumber
<1>3. PICK x \in T : u = n - x
  BY <1>2
<1>4. \A y \in T : x >= y
  <2> TAKE y \in T
  <2>1. n - y \in U /\ x \in 0 .. n /\ y \in 0 .. n
    OBVIOUS
  <2>2. n - x <= n - y
    BY <1>2, <1>3, <2>1
  <2> QED
    BY <2>1, <2>2
<1> QED
  BY <1>4 DEF Max

\* A greatest member is the only one.
LEMMA MaxIs ==
    ASSUME NEW T, T \subseteq Nat, NEW m \in T, \A y \in T : m >= y
    PROVE  Max(T) = m
<1>1. Max(T) \in T /\ \A y \in T : Max(T) >= y
  BY DEF Max
<1>2. Max(T) >= m /\ m >= Max(T) /\ m \in Nat /\ Max(T) \in Nat
  BY <1>1
<1> QED
  BY <1>2

(***************************************************************************)
(* What the class_init of a statement installs.                            *)
(***************************************************************************)
\* The entries that a statement may have.
LEMMA StatementFacts ==
    ASSUME NEW s \in Statements
    PROVE  /\ s.lists \subseteq Interfaces /\ s.own \subseteq Methods
           /\ \A n \in DOMAIN s.gsignals : s.gsignals[n] \in Entries
           /\ \A n \in DOMAIN s.gproperties : s.gproperties[n] \in {"new", "bad"}
           /\ s.gtype_name # NULL => s.gtype_name # "auto" /\ NULL # <<s.gtype_name, 1>>
  BY StatementsType, NamesType DEF Statements, Range

\* Signals are all installed, or one of them had a reason not to be.
LEMMA AddSignals ==
    ASSUME NEW s \in Statements, NEW has, NEW r \in add_signals(s.gsignals, has)
    PROVE  /\ r.ok \in BOOLEAN /\ r.sigs \subseteq DOMAIN s.gsignals
           /\ r.ok => r.sigs = {n \in DOMAIN s.gsignals : s.gsignals[n] = "new"}
           /\ ~r.ok => \/ "bad" \in Range(s.gsignals)
                       \/ \E n \in DOMAIN s.gsignals : (s.gsignals[n] = "new") # (n \notin has)
<1> DEFINE g == s.gsignals
           fits == {n \in DOMAIN g : create_signal(n, g[n], has) \/ override_signal(n, g[n], has)}
           Fitting(ns) == {n \in ns : g[n] = "new"}
<1>1. CASE fits = DOMAIN g
  <2>1. r = [ok |-> TRUE, sigs |-> Fitting(fits)]
    BY <1>1 DEF add_signals
  <2> QED
    BY <1>1, <2>1
<1>2. CASE fits # DOMAIN g
  <2>1. PICK ns \in SUBSET fits : r = [ok |-> FALSE, sigs |-> Fitting(ns)]
    BY <1>2 DEF add_signals
  <2>2. PICK n \in DOMAIN g : n \notin fits
    BY <1>2
  <2>3. ~create_signal(n, g[n], has) /\ ~override_signal(n, g[n], has)
    BY <2>2
  <2>4. CASE g[n] = "bad"
    BY <2>1, <2>4 DEF Range
  <2>5. CASE g[n] = "new"
    <3>1. n \in has
      BY <2>3, <2>5 DEF create_signal
    <3> QED
      BY <2>1, <2>5, <3>1
  <2>6. CASE g[n] = "override"
    <3>1. n \notin has
      BY <2>3, <2>6 DEF override_signal
    <3>2. (g[n] = "new") # (n \notin has)
      BY <2>6, <3>1
    <3> QED
      BY <2>1, <3>2
  <2> QED
    BY <2>4, <2>5, <2>6, StatementFacts DEF Entries
<1> QED
  BY <1>1, <1>2

\* Properties are all installed, unless one is declared wrong.
LEMMA AddProperties ==
    ASSUME NEW s \in Statements, NEW r \in add_properties(s.gproperties)
    PROVE  /\ r.ok \in BOOLEAN /\ r.props \subseteq DOMAIN s.gproperties
           /\ r.ok => r.props = DOMAIN s.gproperties
           /\ ~r.ok => "bad" \in Range(s.gproperties)
<1> DEFINE g == s.gproperties
           fits == {n \in DOMAIN g : create_property(g[n])}
<1>1. CASE fits = DOMAIN g
  <2>1. r = [ok |-> TRUE, props |-> fits]
    BY <1>1 DEF add_properties
  <2> QED
    BY <1>1, <2>1
<1>2. CASE fits # DOMAIN g
  <2>1. PICK ns \in SUBSET fits : r = [ok |-> FALSE, props |-> ns]
    BY <1>2 DEF add_properties
  <2>2. PICK n \in DOMAIN g : n \notin fits
    BY <1>2
  <2>3. g[n] = "bad"
    BY <2>2, StatementFacts DEF create_property
  <2> QED
    BY <2>1, <2>3 DEF Range
<1> QED
  BY <1>1, <1>2

LEMMA ClassInit ==
    ASSUME NEW s \in Statements, NEW has, NEW r \in g_class_init(s, has)
    PROVE  /\ r.ok \in BOOLEAN
           /\ r.sigs \subseteq DOMAIN s.gsignals /\ r.props \subseteq DOMAIN s.gproperties
           /\ r.ok => /\ r.sigs = {n \in DOMAIN s.gsignals : s.gsignals[n] = "new"}
                      /\ r.props = DOMAIN s.gproperties
           /\ ~r.ok => \/ "bad" \in Range(s.gsignals) \cup Range(s.gproperties)
                       \/ \E n \in DOMAIN s.gsignals : (s.gsignals[n] = "new") # (n \notin has)
<1>1. PICK q \in add_signals(s.gsignals, has) :
        r \in IF ~q.ok THEN {[ok |-> FALSE, sigs |-> q.sigs, props |-> {}]}
              ELSE {[ok |-> p.ok, sigs |-> q.sigs, props |-> p.props] : p \in add_properties(s.gproperties)}
  BY DEF g_class_init
<1>2. CASE ~q.ok
  <2>1. r = [ok |-> FALSE, sigs |-> q.sigs, props |-> {}]
    BY <1>1, <1>2
  <2> QED
    BY <1>2, <2>1, AddSignals
<1>3. CASE q.ok
  <2>1. PICK p \in add_properties(s.gproperties) : r = [ok |-> p.ok, sigs |-> q.sigs, props |-> p.props]
    BY <1>1, <1>3
  <2> QED
    BY <1>3, <2>1, AddSignals, AddProperties
<1> QED
  BY <1>2, <1>3

(***************************************************************************)
(* The names of GTypes.                                                    *)
(***************************************************************************)
GName(s) == IF s.gtype_name = NULL THEN get_type_name_for_class ELSE <<s.gtype_name, 1>>

\* A name that is free, if there is one; the last that is tried, if not.
LEMMA AutoName ==
    \E k \in 0 .. Tries : /\ get_type_name_for_class = <<"auto", k>>
                          /\ get_type_name_for_class \in Names =>
                                \A j \in 1 .. Tries - 1 : <<"auto", j>> \in Names
<1> DEFINE free == {k \in 1 .. Tries - 1 : <<"auto", k>> \notin Names}
<1>1. CASE free = {}
  <2>1. get_type_name_for_class = <<"auto", Tries - 1>>
    BY <1>1 DEF get_type_name_for_class
  <2>2. Tries - 1 \in 0 .. Tries
    BY NamesType
  <2>3. \A j \in 1 .. Tries - 1 : <<"auto", j>> \in Names
    BY <1>1
  <2> QED
    BY <2>1, <2>2, <2>3
<1>2. CASE free # {}
  <2>1. free \subseteq Nat
    BY NamesType
  <2>2. Min(free) \in free
    <3> HIDE DEF free
    <3> QED
      BY <1>2, <2>1, MinIsLeast
  <2>3. get_type_name_for_class = <<"auto", Min(free)>>
    BY <1>2 DEF get_type_name_for_class
  <2>4. Min(free) \in 0 .. Tries /\ <<"auto", Min(free)>> \notin Names
    BY <2>2, NamesType
  <2> QED
    BY <2>3, <2>4
<1> QED
  BY <1>1, <1>2

LEMMA NameFacts ==
    ASSUME NEW s \in Statements
    PROVE  /\ GName(s) \in GTypes /\ GName(s) # NULL
           /\ IF s.gtype_name = NULL THEN \E k \in 0 .. Tries : GName(s) = <<"auto", k>>
              ELSE GName(s) = <<s.gtype_name, 1>>
  BY AutoName, StatementFacts, NamesType DEF GName, GTypes

(***************************************************************************)
(* What pyg_type_register adds to the classes.                             *)
(***************************************************************************)
LineFor(parent) == {Len(classes) + 1} \cup (IF parent = 0 THEN {} ELSE Line(parent))
NewClass(parent, s, g, st, r) ==
    [of |-> s, line |-> LineFor(parent), gtype |-> g, state |-> st, sigs |-> r.sigs, props |-> r.props]

LEMMA Registers ==
    ASSUME NEW parent, NEW s \in Statements, pyg_type_register(parent, s)
    PROVE  \/ /\ GName(s) \in Names
              /\ classes' = Append(classes, NewClass(parent, s, NULL, "refused", [sigs |-> {}, props |-> {}]))
              /\ UNCHANGED <<slot, todo>>
           \/ /\ GName(s) \notin Names
              /\ \E r \in g_class_init(s, SignalsOf(LineFor(parent) \ {Len(classes) + 1})) :
                    /\ classes' = Append(classes, NewClass(parent, s, GName(s), IF r.ok THEN "defining" ELSE "refused", r))
                    /\ slot' = NewTables(Len(classes) + 1, parent, s)
                    /\ todo' = IF r.ok THEN s.own ELSE {}
  BY DEF pyg_type_register, NewClass, LineFor, GName

\* The classes there were stay as they are.
LEMMA Appended ==
    ASSUME TypeOK, NEW k, classes' = Append(classes, k)
    PROVE  /\ Len(classes) \in Nat /\ Len(classes') = Len(classes) + 1
           /\ Class' = Class \cup {Len(classes) + 1} /\ Len(classes) + 1 \notin Class
           /\ \A c \in Class : classes'[c] = classes[c]
           /\ classes'[Len(classes) + 1] = k
<1>1. classes \in Seq(ClassType \cup {k})
  BY SeqDef DEF TypeOK
<1>2. /\ Append(classes, k) \in Seq(ClassType \cup {k})
      /\ Len(Append(classes, k)) = Len(classes) + 1
      /\ \A i \in 1 .. Len(classes) : Append(classes, k)[i] = classes[i]
      /\ Append(classes, k)[Len(classes) + 1] = k
  BY <1>1, AppendProperties
<1>3. Len(classes) \in Nat
  BY DEF TypeOK
<1> QED
  BY <1>2, <1>3 DEF Class

\* What is said of a class does not change once it was registered.
Same ==
    /\ \A d \in Class : d \in Class'
    /\ \A d \in Class : /\ classes'[d].of = classes[d].of /\ classes'[d].line = classes[d].line
                        /\ classes'[d].gtype = classes[d].gtype
                        /\ classes'[d].sigs = classes[d].sigs /\ classes'[d].props = classes[d].props

\* Why the statement of class c failed.
Reason(c) ==
    LET s == Says(c)
        has == SignalsOf(Line(c) \ {c})
        before == {d \in Class : d < c /\ classes[d].gtype # NULL}
    IN  \/ "bad" \in Range(s.gsignals) \cup Range(s.gproperties)
        \/ \E n \in DOMAIN s.gsignals : (s.gsignals[n] = "new") # (n \notin has)
        \/ \E x \in s.own : Cardinality(Means(c, x)) > 1
        \/ s.gtype_name # NULL /\ \E d \in before : Says(d).gtype_name = s.gtype_name
        \/ s.gtype_name = NULL /\ Cardinality({d \in before : Says(d).gtype_name = NULL}) >= Tries - 1

LEMMA LineInClass ==
    ASSUME TypeOK, Descent, NEW d \in Class
    PROVE  /\ d \in Nat /\ 1 <= d /\ d <= Len(classes) /\ Len(classes) \in Nat
           /\ d \in Line(d) /\ Line(d) \subseteq 1 .. d /\ Line(d) \subseteq Class
           /\ \A e \in Line(d) : Line(e) \subseteq Line(d)
<1>1. Len(classes) \in Nat /\ d \in 1 .. Len(classes)
  BY DEF TypeOK, Class
<1>2. d \in Line(d) /\ Line(d) \subseteq 1 .. d /\ \A e \in Line(d) \ {d} : Line(e) \subseteq Line(d)
  BY DEF Descent
<1>3. 1 .. d \subseteq Class
  BY <1>1 DEF Class
<1> QED
  BY <1>1, <1>2, <1>3

LEMMA KeptMeaning ==
    ASSUME TypeOK, Descent, Same, NEW d \in Class
    PROVE  /\ Says(d)' = Says(d) /\ Line(d)' = Line(d)
           /\ Bases(d)' = Bases(d)
           /\ \A x : Means(d, x)' = Means(d, x)
           /\ \A b : Lister(d, b)' = Lister(d, b)
           /\ \A v : HolderOf(d, v)' = HolderOf(d, v)
<1>1. Line(d) \subseteq Class
  BY LineInClass
<1>2. Says(d)' = Says(d) /\ Line(d)' = Line(d)
  BY DEF Same, Says, Line
<1>3. \A e \in Line(d) : Says(e)' = Says(e)
  BY <1>1 DEF Same, Says
<1>4. Bases(d)' = Bases(d)
  BY <1>2, <1>3 DEF Bases
<1>5. \A x : Means(d, x)' = Means(d, x)
  BY <1>4 DEF Means
<1>6. \A b : Lister(d, b)' = Lister(d, b)
  <2> TAKE b
  <2>1. {e \in Line(d)' : b \in Says(e)'.lists} = {e \in Line(d) : b \in Says(e).lists}
    BY <1>2, <1>3
  <2> QED
    BY <2>1 DEF Lister
<1>7. \A v : HolderOf(d, v)' = HolderOf(d, v)
  <2> TAKE v
  <2>1. {e \in Line(d)' : v[1] = Root \/ v[1] \in Says(e)'.lists} = {e \in Line(d) : v[1] = Root \/ v[1] \in Says(e).lists}
    BY <1>2, <1>3
  <2> QED
    BY <2>1 DEF HolderOf, Holder
<1> QED
  BY <1>2, <1>4, <1>5, <1>6, <1>7

LEMMA KeptReason ==
    ASSUME TypeOK, Descent, Same, TypeOK', NEW d \in Class, Reason(d)
    PROVE  Reason(d)'
<1>1. Says(d)' = Says(d) /\ Line(d)' = Line(d) /\ Line(d) \subseteq Class /\ \A x : Means(d, x)' = Means(d, x)
  BY KeptMeaning, LineInClass
<1>2. SignalsOf(Line(d) \ {d})' = SignalsOf(Line(d) \ {d})
  BY <1>1 DEF SignalsOf, Same
<1> DEFINE before == {c \in Class : c < d /\ classes[c].gtype # NULL}
<1>3. {c \in Class' : c < d /\ classes'[c].gtype # NULL} = before
  <2>1. \A c \in Class' : c < d => c \in Class
    <3>1. d \in 1 .. Len(classes) /\ Len(classes) \in Nat /\ Len(classes') \in Nat
      BY DEF TypeOK, Class
    <3> QED
      BY <3>1 DEF Class
  <2> QED
    BY <2>1 DEF Same
<1>4. \A c \in before : Says(c)' = Says(c)
  BY DEF Same, Says
<1>5. {c \in before : Says(c)'.gtype_name = NULL} = {c \in before : Says(c).gtype_name = NULL}
  BY <1>4
<1> HIDE DEF before
<1>6. /\ \/ "bad" \in Range(Says(d).gsignals) \cup Range(Says(d).gproperties)
         \/ \E n \in DOMAIN Says(d).gsignals : (Says(d).gsignals[n] = "new") # (n \notin SignalsOf(Line(d) \ {d}))
         \/ \E x \in Says(d).own : Cardinality(Means(d, x)) > 1
         \/ Says(d).gtype_name # NULL /\ \E c \in before : Says(c).gtype_name = Says(d).gtype_name
         \/ Says(d).gtype_name = NULL /\ Cardinality({c \in before : Says(c).gtype_name = NULL}) >= Tries - 1
  BY DEF Reason, before
<1>7. \/ "bad" \in Range(Says(d)'.gsignals) \cup Range(Says(d)'.gproperties)
      \/ \E n \in DOMAIN Says(d)'.gsignals : (Says(d)'.gsignals[n] = "new") # (n \notin SignalsOf(Line(d) \ {d})')
      \/ \E x \in Says(d)'.own : Cardinality(Means(d, x)') > 1
      \/ Says(d)'.gtype_name # NULL /\ \E c \in before : Says(c)'.gtype_name = Says(d)'.gtype_name
      \/ Says(d)'.gtype_name = NULL /\ Cardinality({c \in before : Says(c)'.gtype_name = NULL}) >= Tries - 1
  BY <1>1, <1>2, <1>4, <1>5, <1>6
<1> QED
  BY <1>3, <1>7 DEF Reason

\* Classes that share a table go on to.
LEMMA KeptSharing ==
    ASSUME TypeOK, Descent, Same, NEW d \in Class, NEW b
    PROVE  Sharing(d, b) \subseteq Sharing(d, b)'
<1>1. Line(d)' = Line(d) /\ Lister(d, b)' = Lister(d, b)
  BY KeptMeaning
<1>2. ASSUME NEW e \in Sharing(d, b) PROVE e \in Sharing(d, b)'
  <2>1. e \in Class
    BY DEF Sharing
  <2>2. Says(e)' = Says(e) /\ Lister(e, b)' = Lister(e, b) /\ e \in Class' /\ classes'[e].gtype = classes[e].gtype
    BY <2>1, KeptMeaning DEF Same
  <2> QED
    BY <1>1, <2>1, <2>2 DEF Sharing
<1> QED
  BY <1>2

(***************************************************************************)
(* Which table has the vfuncs of a base.                                   *)
(***************************************************************************)
LEMMA ListerFacts ==
    ASSUME TypeOK, Descent, NEW c \in Class, NEW b
    PROVE  /\ Lister(c, b) \in {0} \cup {d \in Line(c) : b \in Says(d).lists}
           /\ \A d \in Line(c) : b \in Says(d).lists => d <= Lister(c, b)
           /\ Lister(c, b) \in 0 .. c
<1> DEFINE T == {0} \cup {d \in Line(c) : b \in Says(d).lists}
<1>1. T \subseteq 0 .. c /\ T # {} /\ c \in Nat
  BY LineInClass
<1>2. Max(T) \in T /\ \A y \in T : Max(T) >= y
  <2> HIDE DEF T
  <2> QED
    BY <1>1, MaxIsGreatest
<1>3. Lister(c, b) = Max(T)
  BY DEF Lister
<1>4. \A d \in Line(c) : b \in Says(d).lists => d \in T
  OBVIOUS
<1>5. \A y \in T : y \in Nat
  BY <1>1
<1> QED
  BY <1>1, <1>2, <1>3, <1>4, <1>5

LEMMA HolderFacts ==
    ASSUME TypeOK, Descent, NEW c \in Class, NEW v
    PROVE  HolderOf(c, v) = IF v[1] = Root THEN c ELSE Lister(c, v[1])
<1>1. CASE v[1] = Root
  <2>1. {0} \cup {d \in Line(c) : v[1] = Root \/ v[1] \in Says(d).lists} = {0} \cup Line(c)
    BY <1>1
  <2>2. c \in Line(c) /\ {0} \cup Line(c) \subseteq Nat /\ \A y \in {0} \cup Line(c) : c >= y
    BY LineInClass
  <2>3. Max({0} \cup Line(c)) = c
    BY <2>2, MaxIs
  <2> QED
    BY <1>1, <2>1, <2>3 DEF HolderOf, Holder
<1>2. CASE v[1] # Root
  BY <1>2 DEF HolderOf, Holder, Lister
<1> QED
  BY <1>1, <1>2

\* Every class that may have instances has its tables.
LEMMA HolderHasTable ==
    ASSUME TypeOK, Descent, NamesApart, Tables, NEW c \in Class, classes[c].state # "refused", NEW v \in Vfuncs
    PROVE  <<HolderOf(c, v), v>> \in DOMAIN slot
<1>1. \A d \in Line(c) : d \in Class /\ classes[d].gtype # NULL
  <2>1. \A d \in Line(c) : classes[d].state # "refused"
    BY DEF Descent
  <2> QED
    BY <2>1, LineInClass DEF NamesApart
<1>2. CASE v[1] = Root
  BY <1>1, <1>2, HolderFacts, LineInClass DEF Tables
<1>3. CASE v[1] # Root
  <2>1. HolderOf(c, v) = Lister(c, v[1])
    BY <1>3, HolderFacts
  <2>2. Lister(c, v[1]) = 0 \/ (Lister(c, v[1]) \in Line(c) /\ v[1] \in Says(Lister(c, v[1])).lists)
    BY ListerFacts
  <2> QED
    BY <1>1, <2>1, <2>2 DEF Tables
<1> QED
  BY <1>2, <1>3

\* The parents of a class that was defined have all their methods hooked up.
LEMMA KeptOver ==
    ASSUME TypeOK, Descent, Same, NEW c \in Class,
           classes[c].state = "ready", \A d \in Line(c) : classes'[d].state = classes[d].state, NEW v
    PROVE  Over(c, v)' = Over(c, v)
<1>1. Line(c) \subseteq Class /\ Line(c)' = Line(c)
  BY KeptMeaning, LineInClass
<1>2. \A d \in Line(c) : classes[d].state = "ready"
  BY DEF Descent
<1>3. \A d \in Line(c) : Hooked(d)' = Hooked(d)
  <2> TAKE d \in Line(c)
  <2>1. ~Defining(d) /\ ~Defining(d)'
    BY <1>2 DEF Defining
  <2> QED
    BY <1>1, <2>1, KeptMeaning DEF Hooked
<1>4. \A d \in Line(c) : \A x : Means(d, x)' = Means(d, x)
  BY <1>1, KeptMeaning
<1> QED
  BY <1>1, <1>3, <1>4 DEF Over

\* Which method is nearest, when neither the methods nor the table changed.
LEMMA KeptNearest ==
    ASSUME TypeOK, Descent, Same, NEW c \in Class, NEW v \in Vfuncs,
           Over(c, v)' = Over(c, v),
           slot'[<<HolderOf(c, v), v>>] = slot[<<HolderOf(c, v), v>>],
           Nearest(c, v)
    PROVE  Nearest(c, v)'
<1>1. Line(c) \subseteq Class /\ Line(c)' = Line(c) /\ HolderOf(c, v)' = HolderOf(c, v)
  BY KeptMeaning, LineInClass
<1>2. \A d \in Line(c) : \A x : Means(d, x)' = Means(d, x)
  BY <1>1, KeptMeaning
<1>3. Over(c, v) # {} => Max(Over(c, v)) \in Line(c)
  <2>1. Over(c, v) \subseteq Line(c) /\ Over(c, v) \subseteq 0 .. c /\ c \in Nat
    BY LineInClass DEF Over
  <2> QED
    BY <2>1, MaxIsGreatest
<1>4. PICK called : called = slot[<<HolderOf(c, v), v>>]
  OBVIOUS
<1>5. slot'[<<HolderOf(c, v)', v>>] = called
  BY <1>1, <1>4
<1>6. CASE Over(c, v) = {} /\ called = C
  BY <1>5, <1>6 DEF C, Nearest
<1>7. CASE Over(c, v) # {} /\ called[1] = Max(Over(c, v)) /\ Means(called[1], called[2]) = {v}
  <2>1. Means(called[1], called[2])' = {v}
    BY <1>2, <1>3, <1>7
  <2> QED
    BY <1>5, <1>7, <2>1 DEF Nearest
<1>8. CASE called[1] \in Sharing(c, v[1])
  <2>1. called[1] \in Sharing(c, v[1])'
    BY <1>8, KeptSharing
  <2> QED
    BY <1>5, <2>1 DEF Nearest
<1> QED
  BY <1>4, <1>6, <1>7, <1>8 DEF Nearest

(***************************************************************************)
(* A class statement begins.                                               *)
(***************************************************************************)
Registered(parent, s, g, st, sg, pr) ==
    /\ Class' = Class \cup {Len(classes) + 1} /\ Len(classes) + 1 \notin Class
    /\ Len(classes) \in Nat /\ Len(classes') = Len(classes) + 1
    /\ \A d \in Class : classes'[d] = classes[d]
    /\ classes' = Append(classes, [of |-> s, line |-> LineFor(parent), gtype |-> g, state |-> st, sigs |-> sg, props |-> pr])
    /\ classes'[Len(classes) + 1] = [of |-> s, line |-> LineFor(parent), gtype |-> g, state |-> st, sigs |-> sg, props |-> pr]
    /\ sg \subseteq DOMAIN s.gsignals /\ pr \subseteq DOMAIN s.gproperties
    /\ g = NULL => st = "refused" /\ GName(s) \in Names /\ slot' = slot /\ todo' = todo
    /\ g # NULL => /\ g = GName(s) /\ GName(s) \notin Names
                   /\ slot' = NewTables(Len(classes) + 1, parent, s)
                   /\ todo' = IF st = "defining" THEN s.own ELSE {}
    /\ st = "defining" => sg = {n \in DOMAIN s.gsignals : s.gsignals[n] = "new"} /\ pr = DOMAIN s.gproperties
    /\ g # NULL /\ st = "refused" =>
          \/ "bad" \in Range(s.gsignals) \cup Range(s.gproperties)
          \/ \E n \in DOMAIN s.gsignals :
                (s.gsignals[n] = "new") # (n \notin SignalsOf(LineFor(parent) \ {Len(classes) + 1}))

LEMMA RegisterStep ==
    ASSUME TypeOK, NEW parent, NEW s \in Statements, pyg_type_register(parent, s)
    PROVE  \E g \in GTypes \cup {NULL}, st \in {"refused", "defining"} : \E sg, pr : Registered(parent, s, g, st, sg, pr)
<1>1. CASE /\ GName(s) \in Names
           /\ classes' = Append(classes, NewClass(parent, s, NULL, "refused", [sigs |-> {}, props |-> {}]))
           /\ UNCHANGED <<slot, todo>>
  <2>1. NewClass(parent, s, NULL, "refused", [sigs |-> {}, props |-> {}])
          = [of |-> s, line |-> LineFor(parent), gtype |-> NULL, state |-> "refused", sigs |-> {}, props |-> {}]
    BY DEF NewClass
  <2>2. Registered(parent, s, NULL, "refused", {}, {})
    BY <1>1, <2>1, Appended DEF Registered
  <2> QED
    BY <2>2
<1>2. CASE /\ GName(s) \notin Names
           /\ \E r \in g_class_init(s, SignalsOf(LineFor(parent) \ {Len(classes) + 1})) :
                /\ classes' = Append(classes, NewClass(parent, s, GName(s), IF r.ok THEN "defining" ELSE "refused", r))
                /\ slot' = NewTables(Len(classes) + 1, parent, s)
                /\ todo' = IF r.ok THEN s.own ELSE {}
  <2> DEFINE has == SignalsOf(LineFor(parent) \ {Len(classes) + 1})
  <2>1. PICK r \in g_class_init(s, has) :
            /\ classes' = Append(classes, NewClass(parent, s, GName(s), IF r.ok THEN "defining" ELSE "refused", r))
            /\ slot' = NewTables(Len(classes) + 1, parent, s)
            /\ todo' = IF r.ok THEN s.own ELSE {}
    BY <1>2
  <2> DEFINE st == IF r.ok THEN "defining" ELSE "refused"
  <2>2. NewClass(parent, s, GName(s), st, r)
          = [of |-> s, line |-> LineFor(parent), gtype |-> GName(s), state |-> st, sigs |-> r.sigs, props |-> r.props]
    BY DEF NewClass
  <2>3. /\ r.ok \in BOOLEAN
        /\ r.sigs \subseteq DOMAIN s.gsignals /\ r.props \subseteq DOMAIN s.gproperties
        /\ r.ok => /\ r.sigs = {n \in DOMAIN s.gsignals : s.gsignals[n] = "new"}
                   /\ r.props = DOMAIN s.gproperties
        /\ ~r.ok => \/ "bad" \in Range(s.gsignals) \cup Range(s.gproperties)
                    \/ \E n \in DOMAIN s.gsignals : (s.gsignals[n] = "new") # (n \notin has)
    <3> HIDE DEF has
    <3> QED
      BY <2>1, ClassInit
  <2>4. GName(s) \in GTypes /\ GName(s) # NULL
    BY NameFacts
  <2>5. /\ Class' = Class \cup {Len(classes) + 1} /\ Len(classes) + 1 \notin Class
        /\ Len(classes) \in Nat /\ Len(classes') = Len(classes) + 1
        /\ \A d \in Class : classes'[d] = classes[d]
        /\ classes'[Len(classes) + 1] = NewClass(parent, s, GName(s), st, r)
    BY <2>1, Appended
  <2>6. (st = "defining" <=> r.ok) /\ (st = "refused" <=> ~r.ok) /\ st \in {"refused", "defining"}
    BY <2>3
  <2>7. Registered(parent, s, GName(s), st, r.sigs, r.props)
    BY <1>2, <2>1, <2>2, <2>3, <2>4, <2>5, <2>6 DEF Registered
  <2> QED
    BY <2>4, <2>6, <2>7
<1> QED
  BY <1>1, <1>2, Registers

\* A parent that has been defined, or none.
Parent(p) == p = 0 \/ (p \in Class /\ classes[p].state = "ready")

LEMMA LineOfNew ==
    ASSUME TypeOK, Descent, NEW parent, Parent(parent)
    PROVE  /\ Len(classes) + 1 \in LineFor(parent) /\ LineFor(parent) \subseteq 1 .. Len(classes) + 1
           /\ \A d \in LineFor(parent) \ {Len(classes) + 1} :
                 d \in Class /\ classes[d].state = "ready" /\ Line(d) \subseteq LineFor(parent) \ {Len(classes) + 1}
<1>1. Len(classes) \in Nat
  BY DEF TypeOK
<1>2. CASE parent = 0
  BY <1>1, <1>2 DEF LineFor
<1>3. CASE parent # 0
  <2>1. parent \in Class /\ classes[parent].state = "ready"
    BY <1>3 DEF Parent
  <2>2. Line(parent) \subseteq Class /\ LineFor(parent) = {Len(classes) + 1} \cup Line(parent)
    BY <1>3, <2>1, LineInClass DEF LineFor
  <2>3. \A d \in Line(parent) : classes[d].state = "ready" /\ Line(d) \subseteq Line(parent)
    BY <2>1, LineInClass DEF Descent
  <2>4. Len(classes) + 1 \notin Class /\ \A d \in Class : d \in 1 .. Len(classes) + 1
    BY <1>1 DEF Class
  <2>5. LineFor(parent) \ {Len(classes) + 1} = Line(parent)
    BY <2>2, <2>4
  <2> QED
    BY <1>1, <2>2, <2>3, <2>4, <2>5
<1> QED
  BY <1>2, <1>3

Registering(parent, s, g, st, sg, pr, n) ==
    /\ TypeOK /\ Descent /\ OneDefined /\ NamesApart /\ Declared /\ Tables /\ NearestSoFar /\ FailsForReason
    /\ Parent(parent) /\ s \in Statements /\ g \in GTypes \cup {NULL} /\ st \in {"refused", "defining"}
    /\ \A d \in Class : ~Defining(d)
    /\ Registered(parent, s, g, st, sg, pr) /\ n = Len(classes) + 1

\* What a reader of the new state needs to know.
LEMMA AfterRegistering ==
    ASSUME NEW parent, NEW s, NEW g, NEW st, NEW sg, NEW pr, NEW n, Registering(parent, s, g, st, sg, pr, n)
    PROVE  /\ Same
           /\ Len(classes) \in Nat /\ Len(classes') = n /\ n \notin Class
           /\ Class' = Class \cup {n}
           /\ \A d \in Class : d # n /\ classes'[d] = classes[d] /\ Says(d)' = Says(d)
                               /\ Line(d)' = Line(d) /\ ~Defining(d) /\ ~Defining(d)'
           /\ classes'[n].of = s /\ classes'[n].line = LineFor(parent)
           /\ classes'[n].gtype = g /\ classes'[n].state = st
           /\ classes'[n].sigs = sg /\ classes'[n].props = pr
           /\ Says(n)' = s /\ Line(n)' = LineFor(parent)
           /\ todo = {}
<1>1. Registered(parent, s, g, st, sg, pr) /\ n = Len(classes) + 1
  BY DEF Registering
<1>2. Same
  BY <1>1 DEF Registered, Same
<1>3. todo = {}
  <2>1. Len(classes) \in Nat /\ (classes # <<>> => Len(classes) \in Class)
    <3>1. classes # <<>> => Len(classes) # 0
      BY EmptySeq, SeqDef DEF Registering, TypeOK
    <3> QED
      BY <3>1 DEF Registering, TypeOK, Class
  <2> QED
    BY <2>1 DEF Registering, OneDefined
<1>4. \A d \in Class : d # n /\ classes'[d] = classes[d]
  BY <1>1 DEF Registered
<1>5. \A d \in Class : ~Defining(d) /\ ~Defining(d)'
  BY <1>4 DEF Registering, Defining
<1>6. /\ Len(classes) \in Nat /\ Len(classes') = n /\ n \notin Class /\ Class' = Class \cup {n}
      /\ classes'[n] = [of |-> s, line |-> LineFor(parent), gtype |-> g, state |-> st, sigs |-> sg, props |-> pr]
  BY <1>1 DEF Registered
<1>7. /\ classes'[n].of = s /\ classes'[n].line = LineFor(parent)
      /\ classes'[n].gtype = g /\ classes'[n].state = st
      /\ classes'[n].sigs = sg /\ classes'[n].props = pr
  BY <1>6
<1>8. Says(n)' = s /\ Line(n)' = LineFor(parent)
  BY <1>7 DEF Says, Line
<1>9. \A d \in Class : Says(d)' = Says(d) /\ Line(d)' = Line(d)
  BY <1>4 DEF Says, Line
<1> QED
  BY <1>2, <1>3, <1>4, <1>5, <1>6, <1>7, <1>8, <1>9

LEMMA RegisterType ==
    ASSUME NEW parent, NEW s, NEW g, NEW st, NEW sg, NEW pr, NEW n, Registering(parent, s, g, st, sg, pr, n)
    PROVE  TypeOK'
<1> DEFINE k == [of |-> s, line |-> LineFor(parent), gtype |-> g, state |-> st, sigs |-> sg, props |-> pr]
<1>1. LineFor(parent) \in SUBSET Nat
  <2>1. LineFor(parent) \subseteq 1 .. Len(classes) + 1 /\ Len(classes) \in Nat
    BY LineOfNew DEF Registering, TypeOK
  <2> QED
    BY <2>1
<1>2. sg \in SUBSET UNION {DOMAIN q.gsignals : q \in Statements}
  BY DEF Registering, Registered
<1>3. pr \in SUBSET UNION {DOMAIN q.gproperties : q \in Statements}
  BY DEF Registering, Registered
<1>4. k \in ClassType
  BY <1>1, <1>2, <1>3 DEF Registering, ClassType
<1>5. classes' = Append(classes, k)
  BY DEF Registering, Registered
<1>6. classes' \in Seq(ClassType)
  <2> HIDE DEF k
  <2> QED
    BY <1>4, <1>5, AppendProperties DEF Registering, TypeOK
<1>7. todo' \subseteq Methods
  BY StatementFacts DEF Registering, Registered, TypeOK
<1> QED
  BY <1>6, <1>7 DEF TypeOK

LEMMA RegisterDescent ==
    ASSUME NEW parent, NEW s, NEW g, NEW st, NEW sg, NEW pr, NEW n, Registering(parent, s, g, st, sg, pr, n)
    PROVE  Descent'
<1>1. /\ n \in LineFor(parent) /\ LineFor(parent) \subseteq 1 .. n
      /\ \A d \in LineFor(parent) \ {n} :
            d \in Class /\ classes[d].state = "ready" /\ Line(d) \subseteq LineFor(parent) \ {n}
  BY LineOfNew DEF Registering
<1>2. /\ Class' = Class \cup {n} /\ Line(n)' = LineFor(parent)
      /\ \A d \in Class : Line(d)' = Line(d) /\ classes'[d] = classes[d]
  BY AfterRegistering
<1>3. ASSUME NEW c \in Class
      PROVE  /\ c \in Line(c)' /\ Line(c)' \subseteq 1 .. c
             /\ \A d \in Line(c)' \ {c} : classes'[d].state = "ready" /\ Line(d)' \subseteq Line(c)'
  <2>1. /\ c \in Line(c) /\ Line(c) \subseteq 1 .. c /\ Line(c) \subseteq Class
        /\ \A d \in Line(c) \ {c} : classes[d].state = "ready" /\ Line(d) \subseteq Line(c)
    BY LineInClass DEF Registering, Descent
  <2> QED
    BY <1>2, <2>1
<1>4. /\ n \in Line(n)' /\ Line(n)' \subseteq 1 .. n
      /\ \A d \in Line(n)' \ {n} : classes'[d].state = "ready" /\ Line(d)' \subseteq Line(n)'
  BY <1>1, <1>2
<1> QED
  BY <1>2, <1>3, <1>4 DEF Descent

LEMMA RegisterOneDefined ==
    ASSUME NEW parent, NEW s, NEW g, NEW st, NEW sg, NEW pr, NEW n, Registering(parent, s, g, st, sg, pr, n)
    PROVE  OneDefined' /\ Declared'
<1>1. /\ Class' = Class \cup {n} /\ Len(classes') = n /\ Says(n)' = s /\ classes'[n].state = st
      /\ classes'[n].sigs = sg /\ classes'[n].props = pr /\ todo = {} /\ Len(classes) \in Nat
      /\ \A d \in Class : ~Defining(d)' /\ Says(d)' = Says(d) /\ classes'[d] = classes[d]
  BY AfterRegistering
<1>2. todo' = {} \/ (st = "defining" /\ todo' = s.own)
  BY <1>1 DEF Registering, Registered
<1>3. Defining(n)' <=> st = "defining"
  BY <1>1 DEF Defining
<1>4. classes' # <<>>
  BY <1>1 DEF Registering
<1>5. OneDefined'
  BY <1>1, <1>2, <1>3, <1>4 DEF OneDefined
<1>6. Declared'
  <2>1. Declared /\ (st # "refused" => sg = {m \in DOMAIN s.gsignals : s.gsignals[m] = "new"} /\ pr = DOMAIN s.gproperties)
    BY DEF Registering, Registered
  <2>2. ASSUME NEW c \in Class', classes'[c].state # "refused"
        PROVE  /\ classes'[c].sigs = {m \in DOMAIN Says(c)'.gsignals : Says(c)'.gsignals[m] = "new"}
               /\ classes'[c].props = DOMAIN Says(c)'.gproperties
    <3>1. CASE c = n
      BY <1>1, <2>1, <2>2, <3>1
    <3>2. CASE c \in Class
      <4>1. /\ classes[c].sigs = {m \in DOMAIN Says(c).gsignals : Says(c).gsignals[m] = "new"}
            /\ classes[c].props = DOMAIN Says(c).gproperties
        BY <1>1, <2>1, <2>2, <3>2 DEF Declared
      <4> QED
        BY <1>1, <3>2, <4>1
    <3> QED
      BY <1>1, <3>1, <3>2
  <2> QED
    BY <2>2 DEF Declared
<1> QED
  BY <1>5, <1>6

LEMMA RegisterNames ==
    ASSUME NEW parent, NEW s, NEW g, NEW st, NEW sg, NEW pr, NEW n, Registering(parent, s, g, st, sg, pr, n)
    PROVE  NamesApart'
<1>1. /\ Class' = Class \cup {n} /\ Says(n)' = s /\ classes'[n].state = st /\ classes'[n].gtype = g /\ n \notin Class
      /\ \A d \in Class : Says(d)' = Says(d) /\ classes'[d] = classes[d]
  BY AfterRegistering
<1>2. g # NULL => g = GName(s) /\ \A d \in Class : classes[d].gtype # g
  BY DEF Registering, Registered, Names
<1>3. g # NULL => IF s.gtype_name = NULL THEN \E k \in 0 .. Tries : g = <<"auto", k>>
                  ELSE g = <<s.gtype_name, 1>>
  BY <1>2, NameFacts DEF Registering
<1>4. st # "refused" => g # NULL
  BY DEF Registering, Registered
<1>5. NamesApart
  BY DEF Registering
<1>6. ASSUME NEW c \in Class', classes'[c].gtype # NULL
      PROVE  /\ \A d \in Class' \ {c} : classes'[d].gtype # classes'[c].gtype
             /\ IF Says(c)'.gtype_name = NULL THEN \E k \in 0 .. Tries : classes'[c].gtype = <<"auto", k>>
                ELSE classes'[c].gtype = <<Says(c)'.gtype_name, 1>>
  <2>1. CASE c = n
    BY <1>1, <1>2, <1>3, <1>6, <2>1
  <2>2. CASE c \in Class
    <3>1. classes'[n].gtype # classes'[c].gtype
      BY <1>1, <1>2, <1>6, <2>2
    <3> QED
      BY <1>1, <1>5, <1>6, <2>2, <3>1 DEF NamesApart
  <2> QED
    BY <1>1, <2>1, <2>2
<1>7. \A c \in Class' : classes'[c].state # "refused" => classes'[c].gtype # NULL
  BY <1>1, <1>4, <1>5 DEF NamesApart
<1> QED
  BY <1>6, <1>7 DEF NamesApart

\* What the tables of the new class begin as.
TableFrom(parent, v) == IF parent = 0 THEN 0 ELSE HolderOf(parent, v)
NewKeys(n, s) == {<<n, v>> : v \in {w \in Vfuncs : w[1] = Root \/ w[1] \in s.lists}}

LEMMA RegisterDomain ==
    ASSUME NEW parent, NEW s, NEW g, NEW st, NEW sg, NEW pr, NEW n, Registering(parent, s, g, st, sg, pr, n),
           g # NULL
    PROVE  /\ DOMAIN slot' = DOMAIN slot \cup NewKeys(n, s)
           /\ \A k \in DOMAIN slot : slot'[k] = slot[k]
<1>1. slot' = NewTables(n, parent, s)
  BY DEF Registering, Registered
<1>2. slot' = [k \in DOMAIN slot \cup NewKeys(n, s) |->
                  IF k \in NewKeys(n, s) THEN slot[<<TableFrom(parent, k[2]), k[2]>>] ELSE slot[k]]
  BY <1>1 DEF NewTables, NewKeys, TableFrom
<1>3. ASSUME NEW k \in DOMAIN slot PROVE k \notin NewKeys(n, s)
  <2>1. k[1] \in {0} \cup Class
    BY DEF Registering, Tables
  <2>2. n \notin {0} \cup Class
    BY DEF Registering, TypeOK, Class
  <2> QED
    BY <2>1, <2>2 DEF NewKeys
<1> QED
  BY <1>2, <1>3

LEMMA RegisterSlots ==
    ASSUME NEW parent, NEW s, NEW g, NEW st, NEW sg, NEW pr, NEW n, Registering(parent, s, g, st, sg, pr, n),
           NEW k \in DOMAIN slot
    PROVE  slot'[k] = slot[k]
<1>1. n = Len(classes) + 1
  BY DEF Registering
<1>2. g = NULL => slot' = slot
  BY DEF Registering, Registered
<1> QED
  BY <1>1, <1>2, RegisterDomain

LEMMA RegisterCopies ==
    ASSUME NEW parent, NEW s, NEW g, NEW st, NEW sg, NEW pr, NEW n, Registering(parent, s, g, st, sg, pr, n),
           g # NULL, NEW v \in Vfuncs, v[1] \in {Root} \cup s.lists
    PROVE  slot'[<<n, v>>] = slot[<<TableFrom(parent, v), v>>]
<1>1. slot' = NewTables(n, parent, s)
  BY DEF Registering, Registered
<1>2. slot' = [k \in DOMAIN slot \cup NewKeys(n, s) |->
                  IF k \in NewKeys(n, s) THEN slot[<<TableFrom(parent, k[2]), k[2]>>] ELSE slot[k]]
  BY <1>1 DEF NewTables, NewKeys, TableFrom
<1>3. <<n, v>> \in NewKeys(n, s)
  BY DEF NewKeys
<1> QED
  BY <1>2, <1>3

LEMMA RegisterTables ==
    ASSUME NEW parent, NEW s, NEW g, NEW st, NEW sg, NEW pr, NEW n, Registering(parent, s, g, st, sg, pr, n)
    PROVE  Tables'
<1>1. n = Len(classes) + 1
  BY DEF Registering
<1>2. /\ Class' = Class \cup {n} /\ n \notin Class /\ Says(n)' = s /\ classes'[n].gtype = g
      /\ \A d \in Class : Says(d)' = Says(d) /\ classes'[d] = classes[d]
  BY <1>1, AfterRegistering
<1>3. DOMAIN slot = ({0} \X Vfuncs) \cup
          {k \in Class \X Vfuncs : classes[k[1]].gtype # NULL /\ k[2][1] \in {Root} \cup Says(k[1]).lists}
  BY DEF Registering, Tables
<1> DEFINE new == {k \in {n} \X Vfuncs : g # NULL /\ k[2][1] \in {Root} \cup s.lists}
<1>4. {k \in Class' \X Vfuncs : classes'[k[1]].gtype # NULL /\ k[2][1] \in {Root} \cup Says(k[1])'.lists}
         = {k \in Class \X Vfuncs : classes[k[1]].gtype # NULL /\ k[2][1] \in {Root} \cup Says(k[1]).lists} \cup new
  BY <1>2
<1>5. g # NULL => new = NewKeys(n, s)
  BY DEF NewKeys
<1>6. g = NULL => new = {}
  OBVIOUS
<1>7. DOMAIN slot' = DOMAIN slot \cup new
  <2> HIDE DEF new
  <2>1. CASE g = NULL
    <3>1. slot' = slot
      BY <2>1 DEF Registering, Registered
    <3> QED
      BY <1>6, <2>1, <3>1
  <2>2. CASE g # NULL
    <3>1. DOMAIN slot' = DOMAIN slot \cup NewKeys(n, s)
      BY <1>1, <2>2, RegisterDomain
    <3> QED
      BY <1>5, <2>2, <3>1
  <2> QED
    BY <2>1, <2>2
<1>8. \A v \in Vfuncs : slot'[<<0, v>>] = C
  BY <1>1, <1>3, RegisterSlots DEF Registering, Tables
<1> HIDE DEF new
<1> QED
  BY <1>3, <1>4, <1>7, <1>8 DEF Tables, C

LEMMA ClassHasType ==
    ASSUME TypeOK, NEW d \in Class
    PROVE  classes[d] \in ClassType
<1>1. d \in 1 .. Len(classes) /\ classes \in Seq(ClassType)
  BY DEF TypeOK, Class
<1> QED
  BY <1>1, ElementOfSeq

\* As many classes as names that are tried.
LEMMA NamesUsedUp ==
    ASSUME TypeOK, NamesApart, \A j \in 1 .. Tries - 1 : <<"auto", j>> \in Names
    PROVE  LET B == {d \in Class : classes[d].gtype # NULL /\ Says(d).gtype_name = NULL}
           IN  IsFiniteSet(B) /\ Cardinality(B) >= Tries - 1
<1> DEFINE B == {d \in Class : classes[d].gtype # NULL /\ Says(d).gtype_name = NULL}
           nth(j) == CHOOSE d \in B : classes[d].gtype = <<"auto", j>>
           f == [j \in 1 .. Tries - 1 |-> nth(j)]
<1>1. IsFiniteSet(B)
  <2>1. IsFiniteSet(Class)
    BY FS_Interval DEF Class, TypeOK
  <2> QED
    BY <2>1, FS_Subset
<1>2. ASSUME NEW j \in 1 .. Tries - 1
      PROVE  \E d \in B : classes[d].gtype = <<"auto", j>>
  <2>1. PICK d \in Class : classes[d].gtype = <<"auto", j>>
    BY DEF Names
  <2>2. j \in 0 .. Tries
    BY NamesType
  <2>3. classes[d].gtype # NULL
    BY <2>1, <2>2, NamesType
  <2>4. Says(d) \in Statements
    BY ClassHasType DEF ClassType, Says
  <2>5. Says(d).gtype_name = NULL
    <3>1. SUFFICES ASSUME Says(d).gtype_name # NULL PROVE FALSE
      OBVIOUS
    <3>2. <<"auto", j>> = <<Says(d).gtype_name, 1>>
      BY <2>1, <2>3, <3>1 DEF NamesApart
    <3> QED
      BY <2>4, <3>1, <3>2, StatementFacts
  <2> QED
    BY <2>1, <2>3, <2>5
<1>3. \A j \in 1 .. Tries - 1 : f[j] \in B /\ classes[f[j]].gtype = <<"auto", j>>
  BY <1>2
<1> HIDE DEF B, f
<1>4. f \in [1 .. Tries - 1 -> B]
  BY <1>3 DEF f
<1>5. \A i, j \in 1 .. Tries - 1 : f[i] = f[j] => i = j
  BY <1>3
<1>6. f \in Injection(1 .. Tries - 1, B)
  BY <1>4, <1>5 DEF Injection, IsInjective
<1>7. Cardinality(1 .. Tries - 1) <= Cardinality(B)
  BY <1>1, <1>6, FS_Injection
<1>8. Cardinality(1 .. Tries - 1) = Tries - 1
  BY FS_Interval, NamesType
<1> QED
  BY <1>1, <1>7, <1>8 DEF B

LEMMA RegisterReasons ==
    ASSUME NEW parent, NEW s, NEW g, NEW st, NEW sg, NEW pr, NEW n, Registering(parent, s, g, st, sg, pr, n)
    PROVE  FailsForReason'
<1>1. n = Len(classes) + 1
  BY DEF Registering
<1>2. /\ Same /\ Class' = Class \cup {n} /\ n \notin Class /\ Says(n)' = s /\ Line(n)' = LineFor(parent)
      /\ classes'[n].gtype = g /\ classes'[n].state = st
      /\ \A d \in Class : Says(d)' = Says(d) /\ classes'[d] = classes[d]
  BY <1>1, AfterRegistering
<1>3. TypeOK'
  BY RegisterType
<1>4. TypeOK /\ Descent /\ NamesApart /\ FailsForReason /\ s \in Statements /\ Parent(parent)
  BY DEF Registering
<1>5. ASSUME NEW c \in Class, classes'[c].state = "refused" PROVE Reason(c)'
  <2>1. Reason(c)
    BY <1>2, <1>4, <1>5 DEF FailsForReason, Reason
  <2> QED
    BY <1>2, <1>3, <1>4, <2>1, KeptReason
<1>6. ASSUME st = "refused" PROVE Reason(n)'
  <2>1. CASE g # NULL
    <3>1. SignalsOf(Line(n) \ {n})' = SignalsOf(LineFor(parent) \ {n})
      <4>1. LineFor(parent) \ {n} \subseteq Class
        BY <1>1, <1>4, LineOfNew
      <4> QED
        BY <1>2, <4>1 DEF SignalsOf
    <3>2. \/ "bad" \in Range(s.gsignals) \cup Range(s.gproperties)
          \/ \E m \in DOMAIN s.gsignals :
                (s.gsignals[m] = "new") # (m \notin SignalsOf(LineFor(parent) \ {n}))
      BY <1>1, <1>6, <2>1 DEF Registering, Registered
    <3> QED
      BY <1>2, <3>1, <3>2 DEF Reason
  <2>2. CASE g = NULL /\ s.gtype_name # NULL
    <3>1. GName(s) = <<s.gtype_name, 1>> /\ GName(s) # NULL /\ s.gtype_name # "auto"
      BY <1>4, <2>2, NameFacts, StatementFacts
    <3>2. PICK d \in Class : classes[d].gtype = GName(s)
      BY <2>2 DEF Registering, Registered, Names
    <3>3. Says(d).gtype_name = s.gtype_name
      <4>1. Says(d).gtype_name # NULL
        <5>1. SUFFICES ASSUME Says(d).gtype_name = NULL PROVE FALSE
          OBVIOUS
        <5>2. PICK k \in 0 .. Tries : <<s.gtype_name, 1>> = <<"auto", k>>
          BY <1>4, <3>1, <3>2, <5>1 DEF NamesApart
        <5> QED
          BY <3>1, <5>2
      <4>2. <<Says(d).gtype_name, 1>> = <<s.gtype_name, 1>>
        BY <1>4, <3>1, <3>2, <4>1 DEF NamesApart
      <4> QED
        BY <4>2
    <3>4. d \in Class' /\ d < n /\ classes'[d].gtype # NULL /\ Says(d)'.gtype_name = s.gtype_name
      <4>1. d < n
        BY <1>1, <1>4 DEF TypeOK, Class
      <4> QED
        BY <1>2, <3>1, <3>2, <3>3, <4>1
    <3> QED
      BY <1>2, <2>2, <3>4 DEF Reason
  <2>3. CASE g = NULL /\ s.gtype_name = NULL
    <3>1. get_type_name_for_class \in Names
      BY <2>3 DEF Registering, Registered, GName
    <3>2. \A j \in 1 .. Tries - 1 : <<"auto", j>> \in Names
      BY <3>1, AutoName
    <3> DEFINE B == {d \in Class : classes[d].gtype # NULL /\ Says(d).gtype_name = NULL}
    <3>3. Cardinality(B) >= Tries - 1
      BY <1>4, <3>2, NamesUsedUp
    <3>4. \A d \in Class : d < n
      BY <1>1, <1>4 DEF TypeOK, Class
    <3>5. ~(n < n)
      BY <1>1, <1>4 DEF TypeOK
    <3>6. {d \in {e \in Class' : e < n /\ classes'[e].gtype # NULL} : Says(d)'.gtype_name = NULL} = B
      BY <1>2, <3>4, <3>5
    <3> HIDE DEF B
    <3> QED
      BY <1>2, <2>3, <3>3, <3>6 DEF Reason
  <2> QED
    BY <2>1, <2>2, <2>3
<1>7. ASSUME NEW c \in Class', classes'[c].state = "refused" PROVE Reason(c)'
  BY <1>2, <1>5, <1>6, <1>7
<1> QED
  BY <1>7 DEF FailsForReason, Reason

LEMMA RegisterNearest ==
    ASSUME NEW parent, NEW s, NEW g, NEW st, NEW sg, NEW pr, NEW n, Registering(parent, s, g, st, sg, pr, n)
    PROVE  NearestSoFar'
<1>1. n = Len(classes) + 1
  BY DEF Registering
<1>2. /\ Same /\ Class' = Class \cup {n} /\ n \notin Class /\ Says(n)' = s /\ Line(n)' = LineFor(parent)
      /\ classes'[n].gtype = g /\ classes'[n].state = st
      /\ \A d \in Class : classes'[d] = classes[d] /\ Says(d)' = Says(d) /\ ~Defining(d) /\ ~Defining(d)'
  BY <1>1, AfterRegistering
<1>3. TypeOK' /\ Descent'
  BY RegisterType, RegisterDescent
<1>4. TypeOK /\ Descent /\ NamesApart /\ Tables /\ NearestSoFar /\ s \in Statements /\ Parent(parent)
  BY DEF Registering
<1>5. \A k \in DOMAIN slot : slot'[k] = slot[k]
  BY <1>1, RegisterSlots
<1>6. ASSUME NEW c \in Class, classes'[c].state # "refused", NEW v \in Vfuncs, v[1] \in Bases(c)'
      PROVE  Nearest(c, v)'
  <2>1. classes[c].state # "refused" /\ v[1] \in Bases(c) /\ \A d \in Line(c) : classes'[d].state = classes[d].state
    BY <1>2, <1>4, <1>6, KeptMeaning, LineInClass
  <2>2. Nearest(c, v)
    BY <1>4, <2>1 DEF NearestSoFar
  <2>3. slot'[<<HolderOf(c, v), v>>] = slot[<<HolderOf(c, v), v>>]
    BY <1>4, <1>5, <2>1, HolderHasTable
  <2>4. classes[c].state = "ready"
    <3>1. classes[c].state \in {"refused", "defining", "ready"}
      BY <1>4, ClassHasType DEF ClassType
    <3> QED
      BY <1>2, <2>1, <3>1 DEF Defining
  <2>5. Over(c, v)' = Over(c, v)
    BY <1>2, <1>4, <2>1, <2>4, KeptOver
  <2> QED
    BY <1>2, <1>4, <2>2, <2>3, <2>5, KeptNearest
<1>7. ASSUME st # "refused", NEW v \in Vfuncs, v[1] \in Bases(n)'
      PROVE  Nearest(n, v)'
  <2>1. g # NULL /\ todo' = s.own /\ st = "defining"
    BY <1>7 DEF Registering, Registered
  <2>2. LineFor(parent) = {n} \cup (IF parent = 0 THEN {} ELSE Line(parent))
    BY <1>1 DEF LineFor
  <2>3. /\ n \in LineFor(parent)
        /\ \A d \in LineFor(parent) \ {n} :
              d \in Class /\ classes[d].state = "ready" /\ Line(d) \subseteq LineFor(parent) \ {n}
    BY <1>1, <1>4, LineOfNew
  <2>4. Hooked(n)' = {}
    BY <1>2, <2>1 DEF Hooked, Defining
  <2>5. \A d \in LineFor(parent) \ {n} : Hooked(d)' = Hooked(d) /\ \A x : Means(d, x)' = Means(d, x)
    BY <1>2, <1>4, <2>3, KeptMeaning DEF Hooked
  <2>6. Over(n, v)' = {d \in LineFor(parent) \ {n} : \E x \in Hooked(d) : Means(d, x) = {v}}
    BY <1>2, <2>3, <2>4, <2>5 DEF Over
  <2>7. n \in Class'
    BY <1>2
  <2> DEFINE from == slot[<<TableFrom(parent, v), v>>]
  <2>8. <<TableFrom(parent, v), v>> \in DOMAIN slot
    <3>1. CASE parent = 0
      BY <1>4, <3>1 DEF TableFrom, Tables
    <3>2. CASE parent # 0
      BY <1>4, <3>2, HolderHasTable DEF TableFrom, Parent
    <3> QED
      BY <3>1, <3>2
  <2>9. v[1] \in {Root} \cup s.lists => slot'[<<n, v>>] = from
    BY <1>1, <2>1, RegisterCopies
  <2>10. /\ slot'[<<HolderOf(n, v)', v>>] = from
         /\ HolderOf(n, v)' = n \/ (parent # 0 /\ HolderOf(n, v)' = HolderOf(parent, v))
    <3> DEFINE T == {d \in LineFor(parent) : v[1] = Root \/ v[1] \in Says(d)'.lists}
    <3>1. HolderOf(n, v)' = Max({0} \cup T)
      BY <1>2 DEF HolderOf, Holder
    <3>2. CASE v[1] \in {Root} \cup s.lists
      <4>1. n \in {0} \cup T
        BY <1>2, <2>3, <3>2
      <4>2. {0} \cup T \subseteq Nat /\ \A y \in {0} \cup T : n >= y
        <5>1. LineFor(parent) \subseteq 1 .. n /\ n \in Nat
          BY <1>1, <1>4, LineOfNew DEF TypeOK
        <5> QED
          BY <5>1
      <4>3. Max({0} \cup T) = n
        <5> HIDE DEF T
        <5> QED
          BY <4>1, <4>2, MaxIs
      <4> QED
        BY <2>9, <3>1, <3>2, <4>3
    <3>3. CASE v[1] \notin {Root} \cup s.lists
      <4>1. parent # 0
        BY <1>2, <1>7, <2>2, <3>3 DEF Bases
      <4>2. T = {d \in Line(parent) : v[1] = Root \/ v[1] \in Says(d).lists}
        <5>1. parent \in Class /\ Line(parent) \subseteq Class
          BY <1>4, <4>1, LineInClass DEF Parent
        <5> QED
          BY <1>2, <2>2, <3>3, <4>1, <5>1
      <4>3. HolderOf(n, v)' = TableFrom(parent, v)
        BY <3>1, <4>1, <4>2 DEF TableFrom, HolderOf, Holder
      <4> QED
        BY <1>5, <2>8, <4>1, <4>3 DEF TableFrom
    <3> QED
      BY <3>2, <3>3
  <2>11. CASE parent = 0 \/ v[1] \notin Bases(parent)
    <3>1. TableFrom(parent, v) = 0
      <4>1. CASE parent = 0
        BY <4>1 DEF TableFrom
      <4>2. CASE parent # 0
        <5>1. v[1] \notin Bases(parent) /\ parent \in Class
          BY <1>4, <2>11, <4>2 DEF Parent
        <5>2. HolderOf(parent, v) = Lister(parent, v[1])
          BY <1>4, <5>1, HolderFacts DEF Bases
        <5>3. Lister(parent, v[1]) = 0
          BY <1>4, <5>1, ListerFacts DEF Bases
        <5> QED
          BY <4>2, <5>2, <5>3 DEF TableFrom
      <4> QED
        BY <4>1, <4>2
    <3>2. from = C
      BY <1>4, <3>1 DEF Tables
    <3>3. ASSUME NEW d \in LineFor(parent) \ {n}, NEW x, Means(d, x) = {v} PROVE FALSE
      <4>1. parent # 0 /\ v[1] \notin Bases(parent) /\ LineFor(parent) \ {n} \subseteq Line(parent)
        BY <2>2, <2>11, <3>3
      <4>2. v[1] \in Bases(d)
        BY <3>3 DEF Means
      <4>3. Line(d) \subseteq Line(parent)
        BY <2>3, <4>1
      <4> QED
        BY <4>1, <4>2, <4>3 DEF Bases
    <3>4. Over(n, v)' = {}
      BY <2>6, <3>3
    <3> QED
      BY <2>10, <3>2, <3>4 DEF Nearest, C
  <2>12. CASE parent # 0 /\ v[1] \in Bases(parent)
    <3>1. parent \in Class /\ classes[parent].state = "ready"
      BY <1>4, <2>12 DEF Parent
    <3>2. Line(parent) = LineFor(parent) \ {n} /\ Line(parent) \subseteq Class
      BY <1>2, <1>4, <2>2, <2>12, <3>1, LineInClass
    <3>3. Over(n, v)' = Over(parent, v)
      BY <2>6, <3>2 DEF Over
    <3>4. Nearest(parent, v)
      BY <1>4, <2>12, <3>1 DEF NearestSoFar
    <3>5. PICK called : called = from
      OBVIOUS
    <3>6. called = slot[<<HolderOf(parent, v), v>>] /\ slot'[<<HolderOf(n, v)', v>>] = called
      BY <2>10, <2>12, <3>5 DEF TableFrom
    <3>7. CASE Over(parent, v) = {} /\ called = C
      BY <3>3, <3>6, <3>7 DEF Nearest, C
    <3>8. CASE Over(parent, v) # {} /\ called[1] = Max(Over(parent, v)) /\ Means(called[1], called[2]) = {v}
      <4>1. Over(parent, v) \subseteq Line(parent) /\ Line(parent) \subseteq 0 .. parent /\ parent \in Nat
        BY <1>4, <3>1, LineInClass DEF Over
      <4>2. called[1] \in Line(parent)
        BY <3>8, <4>1, MaxIsGreatest
      <4>3. Means(called[1], called[2])' = {v}
        BY <2>5, <3>2, <3>8, <4>2
      <4> QED
        BY <3>3, <3>6, <3>8, <4>3 DEF Nearest
    <3>9. CASE called[1] \in Sharing(parent, v[1])
      <4>1. PICK e : e = called[1]
        OBVIOUS
      <4>2. /\ e \in Class /\ e \notin Line(parent) /\ classes[e].gtype # NULL /\ v[1] # Root
            /\ v[1] \notin Says(e).lists /\ Lister(e, v[1]) \in Line(parent)
            /\ Lister(e, v[1]) = Lister(parent, v[1]) \/ e < Lister(parent, v[1])
        BY <3>9, <4>1 DEF Sharing
      <4>3. e \in Class' /\ e \notin Line(n)' /\ classes'[e].gtype # NULL /\ v[1] \notin Says(e)'.lists
        BY <1>2, <3>2, <4>2
      <4>4. Lister(e, v[1])' = Lister(e, v[1]) /\ Lister(e, v[1])' \in Line(n)'
        BY <1>2, <1>4, <3>2, <4>2, KeptMeaning
      <4>5. Lister(n, v[1])' = HolderOf(n, v)'
        BY <4>2 DEF HolderOf, Holder, Lister
      <4>6. Lister(n, v[1])' = n \/ Lister(n, v[1])' = Lister(parent, v[1])
        BY <1>4, <2>10, <3>1, <4>2, <4>5, HolderFacts
      <4>7. e < n
        BY <1>1, <1>4, <4>2 DEF TypeOK, Class
      <4>8. Lister(e, v[1])' = Lister(n, v[1])' \/ e < Lister(n, v[1])'
        BY <4>2, <4>4, <4>6, <4>7
      <4>9. e \in Sharing(n, v[1])'
        BY <4>2, <4>3, <4>4, <4>8 DEF Sharing
      <4> QED
        BY <3>6, <4>1, <4>9 DEF Nearest
    <3> QED
      BY <3>4, <3>6, <3>7, <3>8, <3>9 DEF Nearest
  <2> QED
    BY <2>11, <2>12
<1>8. ASSUME NEW c \in Class', classes'[c].state # "refused", NEW v \in Vfuncs, v[1] \in Bases(c)'
      PROVE  Nearest(c, v)'
  BY <1>2, <1>6, <1>7, <1>8
<1> QED
  BY <1>8 DEF NearestSoFar

(***************************************************************************)
(* What the name of a method means.                                        *)
(***************************************************************************)
LEMMA MeansNothing ==
    ASSUME NEW c, NEW x, vfunc_info(c, x) = {}
    PROVE  Means(c, x) = {}
<1>1. SUFFICES ASSUME NEW v \in Means(c, x) PROVE FALSE
  OBVIOUS
<1>2. v \in Vfuncs /\ v[2] = x.name /\ v[1] \in Bases(c) /\ (x.of = NULL \/ x.of = v[1]) /\ v = <<v[1], v[2]>>
  BY VfuncsType DEF Means
<1>3. CASE x.of # NULL
  BY <1>2, <1>3 DEF vfunc_info, Prefixed
<1>4. CASE x.of = NULL
  <2>1. <<Root, x.name>> \notin Vfuncs
    BY <1>4 DEF vfunc_info
  <2>2. v[1] # Root
    BY <1>2, <2>1
  <2> QED
    BY <1>2, <1>4, <2>1, <2>2 DEF vfunc_info, find_vfunc_info_in_interface
<1> QED
  BY <1>3, <1>4

LEMMA InfoIsMeant ==
    ASSUME NEW c, NEW x, NEW v \in vfunc_info(c, x)
    PROVE  v \in Means(c, x)
<1>1. CASE x.of # NULL
  BY <1>1 DEF vfunc_info, Prefixed, Means
<1>2. CASE x.of = NULL /\ <<Root, x.name>> \in Vfuncs
  BY <1>2 DEF vfunc_info, Means, Bases
<1>3. CASE x.of = NULL /\ <<Root, x.name>> \notin Vfuncs
  BY <1>3 DEF vfunc_info, find_vfunc_info_in_interface, Means
<1> QED
  BY <1>1, <1>2, <1>3

LEMMA MeansOne ==
    ASSUME NEW c, NEW x, NEW v \in vfunc_info(c, x), x.of # NULL \/ ~find_vfunc_conflict_in_bases(c, v)
    PROVE  Means(c, x) = {v}
<1>1. v \in Means(c, x)
  BY InfoIsMeant
<1>2. ASSUME NEW w \in Means(c, x) PROVE w = v
  <2>1. /\ w \in Vfuncs /\ w[2] = x.name /\ w[1] \in Bases(c) /\ (x.of = NULL \/ x.of = w[1]) /\ w = <<w[1], w[2]>>
        /\ v \in Vfuncs /\ v[2] = x.name /\ v[1] \in Bases(c) /\ (x.of = NULL \/ x.of = v[1]) /\ v = <<v[1], v[2]>>
    BY <1>1, VfuncsType DEF Means
  <2>2. CASE x.of # NULL
    BY <2>1, <2>2
  <2>3. CASE x.of = NULL
    <3>1. ~find_vfunc_conflict_in_bases(c, v)
      BY <2>3
    <3>2. w[1] = v[1]
      BY <2>1, <3>1 DEF find_vfunc_conflict_in_bases
    <3> QED
      BY <2>1, <3>2
  <2> QED
    BY <2>2, <2>3
<1> QED
  BY <1>1, <1>2

LEMMA MeansMore ==
    ASSUME NEW c, NEW x, NEW v \in vfunc_info(c, x), x.of = NULL, find_vfunc_conflict_in_bases(c, v)
    PROVE  Cardinality(Means(c, x)) > 1
<1>1. v \in Means(c, x) /\ v[2] = x.name
  BY InfoIsMeant DEF Means
<1>2. PICK b \in Bases(c) \ {v[1]} : <<b, v[2]>> \in Vfuncs
  BY DEF find_vfunc_conflict_in_bases
<1>3. PICK w : w = <<b, v[2]>>
  OBVIOUS
<1>4. w \in Means(c, x) /\ w # v
  BY <1>1, <1>2, <1>3 DEF Means
<1>5. IsFiniteSet(Means(c, x))
  BY VfuncsType, FS_Subset DEF Means
<1>6. Cardinality({v} \cup {w}) <= Cardinality(Means(c, x))
  BY <1>1, <1>4, <1>5, FS_Subset
<1>7. Cardinality({v}) = 1 /\ IsFiniteSet({v}) /\ w \notin {v}
  BY <1>4, FS_Singleton
<1>8. Cardinality({v} \cup {w}) = 1 + 1
  BY <1>7, FS_AddElement
<1>9. Cardinality(Means(c, x)) \in Nat
  BY <1>5, FS_CardinalityType
<1> QED
  BY <1>6, <1>8, <1>9

(***************************************************************************)
(* A method of the last class is hooked up.                                *)
(***************************************************************************)
LEMMA LastClass ==
    ASSUME TypeOK, OneDefined, NEW x \in todo, NEW n, n = Len(classes)
    PROVE  /\ n \in Class /\ Defining(n) /\ x \in Says(n).own /\ todo \subseteq Says(n).own
           /\ \A c \in Class : c # n => ~Defining(c) /\ c < n
<1>1. classes # <<>> /\ Defining(n) /\ todo \subseteq Says(n).own
  BY DEF OneDefined
<1>2. n \in Nat /\ n # 0
  BY <1>1, EmptySeq, SeqDef DEF TypeOK
<1> QED
  BY <1>1, <1>2 DEF OneDefined, Class

\* The classes stay as they are, and the methods of the last one but x.
LEMMA HookFrame ==
    ASSUME IInv, NEW x \in todo, todo' = todo \ {x}, classes' = classes
    PROVE  Same /\ TypeOK' /\ Descent' /\ OneDefined' /\ NamesApart' /\ Declared' /\ FailsForReason'
<1>1. TypeOK /\ Descent /\ OneDefined /\ NamesApart /\ Declared /\ FailsForReason
  BY DEF IInv
<1>2. Same
  BY DEF Same, Class
<1>3. Class' = Class /\ (\A c : Says(c)' = Says(c) /\ Line(c)' = Line(c) /\ (Defining(c)' <=> Defining(c)))
  BY DEF Class, Says, Line, Defining
<1>4. TypeOK'
  BY <1>1 DEF TypeOK
<1>5. Descent'
  BY <1>1, <1>3 DEF Descent
<1>6. OneDefined'
  BY <1>1, <1>3 DEF OneDefined
<1>7. NamesApart'
  BY <1>1, <1>3 DEF NamesApart
<1>8. Declared'
  BY <1>1, <1>3 DEF Declared
<1>9. ASSUME NEW c \in Class', classes'[c].state = "refused" PROVE Reason(c)'
  <2>1. Reason(c)
    BY <1>1, <1>3, <1>9 DEF FailsForReason, Reason
  <2> QED
    BY <1>1, <1>2, <1>3, <1>4, <2>1, KeptReason
<1>10. FailsForReason'
  BY <1>9 DEF FailsForReason, Reason
<1> QED
  BY <1>2, <1>4, <1>5, <1>6, <1>7, <1>8, <1>10

\* The class that is defined gets what its own method means, and nothing else.
LEMMA HookOver ==
    ASSUME IInv, NEW x \in todo, todo' = todo \ {x}, classes' = classes, NEW n, n = Len(classes), NEW v
    PROVE  /\ Means(n, x) # {v} => Over(n, v)' = Over(n, v)
           /\ Means(n, x) = {v} => n \in Over(n, v)'
<1>1. TypeOK /\ Descent /\ OneDefined /\ Same
  BY HookFrame DEF IInv
<1>2. n \in Class /\ Defining(n) /\ x \in Says(n).own /\ todo \subseteq Says(n).own
  BY <1>1, LastClass
<1>3. n \in Line(n) /\ Line(n)' = Line(n) /\ Line(n) \subseteq Class
  BY <1>1, <1>2, LineInClass, KeptMeaning
<1>4. Hooked(n)' = Hooked(n) \cup {x}
  BY <1>2 DEF Hooked, Defining, Says
<1>5. \A d \in Line(n) \ {n} : Hooked(d)' = Hooked(d)
  <2>1. \A d \in Line(n) \ {n} : ~Defining(d) /\ ~Defining(d)'
    BY <1>1, <1>2 DEF Descent, Defining
  <2> QED
    BY <2>1 DEF Hooked, Says
<1>6. \A d \in Line(n) : \A y : Means(d, y)' = Means(d, y)
  BY <1>1, <1>3, KeptMeaning
<1>7. CASE Means(n, x) # {v}
  BY <1>3, <1>4, <1>5, <1>6, <1>7 DEF Over
<1>8. CASE Means(n, x) = {v}
  <2>1. \E y \in Hooked(n)' : Means(n, y)' = {v}
    BY <1>3, <1>4, <1>6, <1>8
  <2> QED
    BY <1>3, <1>8, <2>1 DEF Over
<1> QED
  BY <1>7, <1>8

\* A method that means nothing.
LEMMA HookNothing ==
    ASSUME IInv, NEW x \in todo, todo' = todo \ {x}, classes' = classes, slot' = slot,
           vfunc_info(Len(classes), x) = {}
    PROVE  IInv'
<1>1. PICK n : n = Len(classes)
  OBVIOUS
<1>2. TypeOK /\ Descent /\ OneDefined /\ Tables /\ NearestSoFar
  BY DEF IInv
<1>3. Same /\ TypeOK' /\ Descent' /\ OneDefined' /\ NamesApart' /\ Declared' /\ FailsForReason'
  BY HookFrame
<1>4. Means(n, x) = {}
  BY <1>1, MeansNothing
<1>5. n \in Class /\ Defining(n) /\ \A c \in Class : c # n => ~Defining(c)
  BY <1>1, <1>2, LastClass
<1>6. Tables'
  BY <1>2 DEF Tables, Class, Says, C
<1>7. ASSUME NEW c \in Class, classes[c].state # "refused", NEW v \in Vfuncs, v[1] \in Bases(c)
      PROVE  Nearest(c, v)'
  <2>1. Over(c, v)' = Over(c, v)
    <3>1. CASE c = n
      BY <1>1, <1>4, <3>1, HookOver
    <3>2. CASE c # n
      <4>1. classes[c].state = "ready"
        BY <1>2, <1>5, <1>7, <3>2, ClassHasType DEF ClassType, Defining
      <4> QED
        BY <1>2, <1>3, <4>1, KeptOver
    <3> QED
      BY <3>1, <3>2
  <2>2. Nearest(c, v)
    BY <1>2, <1>7 DEF NearestSoFar
  <2> QED
    BY <1>2, <1>3, <2>1, <2>2, KeptNearest
<1>8. ASSUME NEW c \in Class', classes'[c].state # "refused", NEW v \in Vfuncs, v[1] \in Bases(c)'
      PROVE  Nearest(c, v)'
  <2>1. c \in Class /\ classes[c].state # "refused"
    BY <1>8 DEF Class
  <2>2. v[1] \in Bases(c)
    BY <1>2, <1>3, <1>8, <2>1, KeptMeaning
  <2> QED
    BY <1>7, <2>1, <2>2
<1>9. NearestSoFar'
  BY <1>8 DEF NearestSoFar
<1> QED
  BY <1>3, <1>6, <1>9 DEF IInv

\* A method that becomes a vfunc of its class, and of others that share the table.
LEMMA HookMethod ==
    ASSUME IInv, NEW x \in todo, todo' = todo \ {x}, classes' = classes,
           NEW n, n = Len(classes), NEW v \in vfunc_info(n, x),
           x.of # NULL \/ ~find_vfunc_conflict_in_bases(n, v),
           hook_up_vfunc_implementation(n, v, x)
    PROVE  IInv'
<1>1. TypeOK /\ Descent /\ OneDefined /\ NamesApart /\ Tables /\ NearestSoFar
  BY DEF IInv
<1>2. Same /\ TypeOK' /\ Descent' /\ OneDefined' /\ NamesApart' /\ Declared' /\ FailsForReason'
  BY HookFrame
<1>3. Means(n, x) = {v} /\ v \in Vfuncs /\ v[1] \in Bases(n)
  BY MeansOne DEF Means
<1>4. n \in Class /\ Defining(n) /\ \A c \in Class : c # n => ~Defining(c) /\ c < n
  BY <1>1, LastClass
<1>5. n \in Line(n) /\ Line(n) \subseteq Class /\ n \in Nat
  BY <1>1, <1>4, LineInClass
<1>6. PICK h : h = HolderOf(n, v)
  OBVIOUS
<1>7. slot' = [slot EXCEPT ![<<h, v>>] = <<n, x>>] /\ <<h, v>> \in DOMAIN slot
  BY <1>1, <1>3, <1>4, <1>6, HolderHasTable DEF hook_up_vfunc_implementation, Defining
<1>8. v[1] # Root => /\ h = Lister(n, v[1]) /\ h \in Line(n) /\ v[1] \in Says(h).lists
                     /\ (v[1] \in Says(n).lists => h = n)
  <2> HAVE v[1] # Root
  <2>1. h = Lister(n, v[1])
    BY <1>1, <1>4, <1>6, HolderFacts
  <2>2. PICK d \in Line(n) : v[1] \in Says(d).lists
    BY <1>3 DEF Bases
  <2>3. Lister(n, v[1]) # 0
    BY <1>1, <1>4, <1>5, <2>2, ListerFacts, LineInClass
  <2>4. h \in Line(n) /\ v[1] \in Says(h).lists
    BY <1>1, <1>4, <2>1, <2>3, ListerFacts
  <2>5. v[1] \in Says(n).lists => n <= h /\ h \in 0 .. n
    BY <1>1, <1>4, <1>5, <2>1, ListerFacts
  <2> QED
    BY <1>5, <2>1, <2>4, <2>5
<1>9. v[1] = Root => h = n
  BY <1>1, <1>4, <1>6, HolderFacts
<1>10. h # 0
  BY <1>1, <1>4, <1>5, <1>8, <1>9, LineInClass
<1>11. Tables'
  BY <1>1, <1>7, <1>10 DEF Tables, Class, Says, C
<1>12. Nearest(n, v)'
  <2>1. HolderOf(n, v)' = h
    BY <1>1, <1>2, <1>4, <1>6, KeptMeaning
  <2>2. slot'[<<h, v>>] = <<n, x>>
    BY <1>7
  <2>3. n \in Over(n, v)'
    BY <1>3, HookOver
  <2>4. Over(n, v)' \subseteq 1 .. n
    <3>1. Line(n)' = Line(n) /\ Line(n) \subseteq 1 .. n
      BY <1>1, <1>2, <1>4, KeptMeaning, LineInClass
    <3> QED
      BY <3>1 DEF Over
  <2>5. Max(Over(n, v)') = n
    <3>1. Over(n, v)' \subseteq Nat /\ \A d \in Over(n, v)' : n >= d
      BY <1>5, <2>4
    <3> QED
      BY <2>3, <3>1, MaxIs
  <2>6. Means(n, x)' = {v}
    BY <1>1, <1>2, <1>3, <1>4, KeptMeaning
  <2> QED
    BY <2>1, <2>2, <2>3, <2>5, <2>6 DEF Nearest
<1>13. ASSUME NEW c \in Class, classes[c].state # "refused", NEW w \in Vfuncs, w[1] \in Bases(c),
              <<HolderOf(c, w), w>> # <<h, v>>
       PROVE  Nearest(c, w)'
  <2>1. slot'[<<HolderOf(c, w), w>>] = slot[<<HolderOf(c, w), w>>]
    BY <1>1, <1>7, <1>13, HolderHasTable
  <2>2. Nearest(c, w)
    BY <1>1, <1>13 DEF NearestSoFar
  <2>3. Over(c, w)' = Over(c, w)
    <3>1. CASE c = n
      BY <1>3, <1>6, <1>13, <3>1, HookOver
    <3>2. CASE c # n
      <4>1. classes[c].state = "ready"
        BY <1>1, <1>4, <1>13, <3>2, ClassHasType DEF ClassType, Defining
      <4> QED
        BY <1>1, <1>2, <4>1, KeptOver
    <3> QED
      BY <3>1, <3>2
  <2> QED
    BY <1>1, <1>2, <2>1, <2>2, <2>3, KeptNearest
<1>14. ASSUME NEW c \in Class, c # n, classes[c].state # "refused", HolderOf(c, v) = h
       PROVE  Nearest(c, v)'
  <2>1. c \in Nat /\ c < n /\ Line(c) \subseteq 1 .. c
    BY <1>1, <1>4, <1>14, LineInClass
  <2>2. n \notin Line(c)
    BY <1>5, <2>1
  <2>3. v[1] # Root
    BY <1>1, <1>9, <1>14, HolderFacts
  <2>4. Lister(c, v[1]) = h /\ Lister(n, v[1]) = h
    BY <1>1, <1>8, <1>14, <2>3, HolderFacts
  <2>5. h \in Line(c)
    BY <1>1, <1>10, <2>4, ListerFacts
  <2>6. v[1] \notin Says(n).lists
    BY <1>8, <2>2, <2>3, <2>5
  <2>7. classes[n].gtype # NULL
    BY <1>1, <1>4 DEF NamesApart, Defining
  <2>8. n \in Sharing(c, v[1])
    BY <1>4, <2>2, <2>3, <2>4, <2>5, <2>6, <2>7 DEF Sharing
  <2>9. n \in Sharing(c, v[1])'
    BY <1>1, <1>2, <2>8, KeptSharing
  <2>10. HolderOf(c, v)' = h
    BY <1>1, <1>2, <1>14, KeptMeaning
  <2>11. slot'[<<h, v>>] = <<n, x>>
    BY <1>7
  <2> QED
    BY <2>9, <2>10, <2>11 DEF Nearest
<1>15. ASSUME NEW c \in Class', classes'[c].state # "refused", NEW w \in Vfuncs, w[1] \in Bases(c)'
       PROVE  Nearest(c, w)'
  <2>1. c \in Class /\ classes[c].state # "refused"
    BY <1>15 DEF Class
  <2>2. w[1] \in Bases(c)
    BY <1>1, <1>2, <1>15, <2>1, KeptMeaning
  <2> QED
    BY <1>6, <1>12, <1>13, <1>14, <2>1, <2>2
<1>16. NearestSoFar'
  BY <1>15 DEF NearestSoFar
<1> QED
  BY <1>2, <1>11, <1>16 DEF IInv

(***************************************************************************)
(* The statement of the last class ends.                                   *)
(***************************************************************************)
LEMMA StateChange ==
    ASSUME TypeOK, NEW n \in Class, NEW st \in {"refused", "ready"}, classes' = [classes EXCEPT ![n].state = st]
    PROVE  /\ Same /\ Class' = Class /\ Len(classes') = Len(classes) /\ classes' \in Seq(ClassType)
           /\ classes'[n].state = st
           /\ \A d \in Class : d # n => classes'[d] = classes[d]
<1>1. classes \in Seq(ClassType) /\ Class = DOMAIN classes /\ n \in DOMAIN classes
  BY DEF TypeOK, Class
<1>2. classes[n] \in ClassType
  BY ClassHasType
<1>3. PICK k : k = [classes[n] EXCEPT !.state = st]
  OBVIOUS
<1>4. /\ k \in ClassType /\ k.state = st
      /\ k.of = classes[n].of /\ k.line = classes[n].line /\ k.gtype = classes[n].gtype
      /\ k.sigs = classes[n].sigs /\ k.props = classes[n].props
  BY <1>2, <1>3 DEF ClassType
<1>5. classes' = [classes EXCEPT ![n] = k]
  BY <1>3
<1>6. classes' \in Seq(ClassType) /\ Len(classes') = Len(classes)
  BY <1>1, <1>4, <1>5, ExceptSeq
<1>7. classes'[n] = k /\ \A d \in Class : d # n => classes'[d] = classes[d]
  BY <1>1, <1>5
<1>8. Class' = Class
  BY <1>6 DEF Class
<1>9. Same
  BY <1>4, <1>7, <1>8 DEF Same
<1> QED
  BY <1>4, <1>6, <1>7, <1>8, <1>9

\* Its class is ready when all its methods are hooked up, and refused for a reason.
LEMMA Settle ==
    ASSUME IInv, NEW n, n = Len(classes), n \in Class, Defining(n), \A c \in Class : c # n => ~Defining(c) /\ c < n,
           NEW st \in {"refused", "ready"}, classes' = [classes EXCEPT ![n].state = st],
           todo' = {}, slot' = slot,
           st = "ready" => todo = {}, st = "refused" => Reason(n)
    PROVE  IInv'
<1>1. TypeOK /\ Descent /\ OneDefined /\ NamesApart /\ Declared /\ Tables /\ NearestSoFar /\ FailsForReason
  BY DEF IInv
<1>2. /\ Same /\ Class' = Class /\ Len(classes') = Len(classes) /\ classes' \in Seq(ClassType)
      /\ classes'[n].state = st
      /\ \A d \in Class : d # n => classes'[d] = classes[d]
  BY <1>1, StateChange
<1>3. TypeOK'
  BY <1>2 DEF TypeOK
<1>4. \A d \in Class : Says(d)' = Says(d) /\ Line(d)' = Line(d) /\ classes'[d].gtype = classes[d].gtype
                       /\ classes'[d].sigs = classes[d].sigs /\ classes'[d].props = classes[d].props
  BY <1>2 DEF Same, Says, Line
<1>5. \A c \in Class : \A d \in Line(c) \ {c} : d \in Class /\ d # n /\ classes'[d] = classes[d]
  <2>1. \A c \in Class : \A d \in Line(c) \ {c} : d \in Class /\ classes[d].state = "ready"
    BY <1>1, LineInClass DEF Descent
  <2> QED
    BY <1>2, <2>1 DEF Defining
<1>6. Descent'
  BY <1>1, <1>2, <1>4, <1>5 DEF Descent
<1>7. \A d \in Class : ~Defining(d)'
  <2>1. \A d \in Class : d # n => ~Defining(d)'
    BY <1>2 DEF Defining
  <2>2. ~Defining(n)'
    BY <1>2 DEF Defining
  <2> QED
    BY <2>1, <2>2
<1>8. OneDefined'
  BY <1>2, <1>7 DEF OneDefined
<1>9. \A c \in Class : classes'[c].state # "refused" => classes[c].state # "refused"
  BY <1>2 DEF Defining
<1>10. NamesApart'
  BY <1>1, <1>2, <1>4, <1>9 DEF NamesApart
<1>11. Declared'
  BY <1>1, <1>2, <1>4, <1>9 DEF Declared
<1>12. Tables'
  <2>1. {k \in Class \X Vfuncs : classes'[k[1]].gtype # NULL /\ k[2][1] \in {Root} \cup Says(k[1])'.lists}
          = {k \in Class \X Vfuncs : classes[k[1]].gtype # NULL /\ k[2][1] \in {Root} \cup Says(k[1]).lists}
    BY <1>4
  <2> QED
    BY <1>1, <1>2, <2>1 DEF Tables, C
<1>13. ASSUME NEW c \in Class, classes'[c].state = "refused" PROVE Reason(c)'
  <2>1. Reason(c)
    <3>1. CASE c = n
      BY <1>2, <1>13, <3>1
    <3>2. CASE c # n
      BY <1>1, <1>2, <1>13, <3>2 DEF FailsForReason, Reason
    <3> QED
      BY <3>1, <3>2
  <2> QED
    BY <1>1, <1>2, <1>3, <2>1, KeptReason
<1>14. FailsForReason'
  BY <1>2, <1>13 DEF FailsForReason, Reason
<1>15. ASSUME NEW c \in Class, classes'[c].state # "refused", NEW v \in Vfuncs, v[1] \in Bases(c)'
       PROVE  Nearest(c, v)'
  <2>1. v[1] \in Bases(c)
    BY <1>1, <1>2, <1>15, KeptMeaning
  <2>2. Nearest(c, v)
    BY <1>1, <1>9, <1>15, <2>1 DEF NearestSoFar
  <2>3. \A d \in Line(c) : Hooked(d)' = Hooked(d)
    <3> TAKE d \in Line(c)
    <3>1. d \in Class
      BY <1>1, LineInClass
    <3>2. ~Defining(d)' /\ Says(d)' = Says(d)
      BY <1>4, <1>7, <3>1
    <3>3. Defining(d) => todo = {}
      <4>1. c # n => d # n
        BY <1>2, <1>5
      <4>2. c = n => st = "ready"
        BY <1>2, <1>15
      <4> QED
        BY <3>1, <4>1, <4>2
    <3> QED
      BY <3>2, <3>3 DEF Hooked
  <2>4. \A d \in Line(c) : \A x : Means(d, x)' = Means(d, x)
    BY <1>1, <1>2, LineInClass, KeptMeaning
  <2>5. Over(c, v)' = Over(c, v)
    BY <1>4, <2>3, <2>4 DEF Over
  <2> QED
    BY <1>1, <1>2, <2>2, <2>5, KeptNearest
<1>16. NearestSoFar'
  BY <1>2, <1>15 DEF NearestSoFar
<1> QED
  BY <1>3, <1>6, <1>8, <1>10, <1>11, <1>12, <1>14, <1>16 DEF IInv

(***************************************************************************)
(* The steps, one by one.                                                  *)
(***************************************************************************)
LEMMA Register ==
    ASSUME IInv, NEW parent, Parent(parent), \A d \in Class : ~Defining(d), NEW s \in Statements,
           pyg_type_register(parent, s)
    PROVE  IInv'
<1>1. TypeOK /\ Descent /\ OneDefined /\ NamesApart /\ Declared /\ Tables /\ NearestSoFar /\ FailsForReason
  BY DEF IInv
<1>2. PICK g \in GTypes \cup {NULL}, st \in {"refused", "defining"} : \E sg, pr : Registered(parent, s, g, st, sg, pr)
  BY <1>1, RegisterStep
<1>3. PICK sg, pr, n : Registered(parent, s, g, st, sg, pr) /\ n = Len(classes) + 1
  BY <1>2
<1>4. Registering(parent, s, g, st, sg, pr, n)
  BY <1>1, <1>3 DEF Registering
<1> QED
  BY <1>4, RegisterType, RegisterDescent, RegisterOneDefined, RegisterNames, RegisterTables, RegisterReasons,
     RegisterNearest DEF IInv

LEMMA Setup ==
    ASSUME IInv, NEW x, SetupVfunc(x)
    PROVE  IInv'
<1>1. PICK n : n = Len(classes)
  OBVIOUS
<1>2. x \in todo /\ TypeOK /\ Descent /\ OneDefined
  BY DEF SetupVfunc, IInv
<1>3. n \in Class /\ Defining(n) /\ x \in Says(n).own /\ \A c \in Class : c # n => ~Defining(c) /\ c < n
  BY <1>1, <1>2, LastClass
<1>4. CASE vfunc_info(n, x) = {} /\ todo' = todo \ {x} /\ UNCHANGED <<classes, slot>>
  BY <1>1, <1>2, <1>4, HookNothing
<1>5. CASE \E v \in vfunc_info(n, x) :
              /\ ~(x.of = NULL /\ find_vfunc_conflict_in_bases(n, v))
              /\ hook_up_vfunc_implementation(n, v, x)
              /\ todo' = todo \ {x} /\ UNCHANGED classes
  BY <1>1, <1>2, <1>5, HookMethod
<1>6. CASE \E v \in vfunc_info(n, x) :
              /\ x.of = NULL /\ find_vfunc_conflict_in_bases(n, v)
              /\ classes' = [classes EXCEPT ![n].state = "refused"]
              /\ todo' = {} /\ UNCHANGED slot
  <2>1. Cardinality(Means(n, x)) > 1
    BY <1>6, MeansMore
  <2>2. Reason(n)
    BY <1>3, <2>1 DEF Reason
  <2> QED
    BY <1>1, <1>3, <1>6, <2>2, Settle
<1> QED
  BY <1>1, <1>4, <1>5, <1>6 DEF SetupVfunc

LEMMA DefinedStep ==
    ASSUME IInv, Defined
    PROVE  IInv'
<1>1. PICK n : n = Len(classes)
  OBVIOUS
<1>2. TypeOK /\ OneDefined
  BY DEF IInv
<1>3. n \in Class /\ Defining(n)
  <2>1. n \in Nat /\ n # 0
    BY <1>1, <1>2, EmptySeq, SeqDef DEF Defined, TypeOK
  <2> QED
    BY <1>1, <2>1 DEF Class, Defined, Defining
<1>4. \A c \in Class : c # n => ~Defining(c) /\ c < n
  BY <1>1, <1>2 DEF OneDefined, Class, TypeOK
<1> QED
  BY <1>1, <1>3, <1>4, Settle DEF Defined

LEMMA Stutter ==
    ASSUME IInv, UNCHANGED vars
    PROVE  IInv'
<1>1. classes' = classes /\ slot' = slot /\ todo' = todo
  BY DEF vars
<1>2. TypeOK' /\ Descent' /\ OneDefined' /\ NamesApart' /\ Declared' /\ Tables'
  BY <1>1 DEF IInv, TypeOK, Descent, OneDefined, NamesApart, Declared, Tables, Class, Says, Line, Defining, C
<1>3. (\A c, v : Over(c, v)' = Over(c, v) /\ HolderOf(c, v)' = HolderOf(c, v)) /\ \A c : Bases(c)' = Bases(c)
  BY <1>1 DEF Over, Hooked, Defining, Says, Line, Means, Bases, HolderOf, Holder
<1>4. (\A c, b : Sharing(c, b)' = Sharing(c, b)) /\ \A c, x : Means(c, x)' = Means(c, x)
  BY <1>1 DEF Sharing, Lister, Class, Says, Line, Means, Bases
<1>5. \A c, v : Nearest(c, v)' <=> Nearest(c, v)
  BY <1>1, <1>3, <1>4 DEF Nearest, C
<1>6. NearestSoFar'
  BY <1>1, <1>3, <1>5 DEF IInv, NearestSoFar, Class
<1>7. \A c : Reason(c)' <=> Reason(c)
  BY <1>1, <1>4 DEF Reason, SignalsOf, Says, Line, Class
<1>8. FailsForReason'
  BY <1>1, <1>7 DEF IInv, FailsForReason, Reason, Class
<1> QED
  BY <1>2, <1>6, <1>8 DEF IInv

LEMMA Initially ==
    ASSUME Init
    PROVE  IInv
<1>1. classes = <<>> /\ Class = {} /\ todo = {}
  BY DEF Init, Class
<1>2. TypeOK
  BY <1>1 DEF TypeOK
<1>3. Tables
  BY <1>1 DEF Init, Tables, C
<1> QED
  BY <1>1, <1>2, <1>3 DEF IInv, Descent, OneDefined, NamesApart, Declared, NearestSoFar, FailsForReason

(***************************************************************************)
(* Theorems.                                                               *)
(***************************************************************************)
\* Every step keeps the invariant: parents that were defined before their
\* children, GType names apart, a table for each base that a class lists, and
\* the method that C calls, through each class statement.
THEOREM Invariance == Spec => []IInv
<1>1. ASSUME IInv, [Next]_vars PROVE IInv'
  <2>1. ASSUME NEW p \in Programs, NEW parent \in {0} \cup {d \in Class : classes[d].state = "ready"}, NEW s \in p.says,
               \A d \in Class : classes[d].state # "defining", pyg_type_register(parent, s)
        PROVE  IInv'
    <3>1. Parent(parent) /\ s \in Statements /\ \A d \in Class : ~Defining(d)
      BY <2>1 DEF Parent, Statements, Defining
    <3> QED
      BY <1>1, <2>1, <3>1, Register
  <2>2. ASSUME NEW x \in Methods, SetupVfunc(x) PROVE IInv'
    BY <1>1, <2>2, Setup
  <2>3. CASE Defined
    BY <1>1, <2>3, DefinedStep
  <2>4. CASE UNCHANGED vars
    BY <1>1, <2>4, Stutter
  <2> QED
    BY <1>1, <2>1, <2>2, <2>3, <2>4 DEF Next
<1> QED
  BY <1>1, Initially, PTL DEF Spec

\* C calls, for every class that is ready, the method of the nearest class that
\* has one, but for tables that classes share (pyg_type_add_interfaces,
\* _wrap_pyg_hook_up_vfunc_implementation): whatever the order in which methods
\* are hooked up and whichever statements failed before.
THEOREM NearestCalled == Spec => []CallsNearest
<1>1. ASSUME IInv PROVE CallsNearest
  <2>1. TypeOK /\ Descent /\ NearestSoFar
    BY <1>1 DEF IInv
  <2>2. ASSUME NEW c \in Ready, NEW v \in {w \in Vfuncs : w[1] \in Bases(c)}
        PROVE  LET nearest == {d \in Line(c) : \E x \in Says(d).own : Means(d, x) = {v}}
                   called == slot[<<HolderOf(c, v), v>>]
               IN  \/ nearest = {} /\ called = C
                   \/ nearest # {} /\ called[1] = Max(nearest) /\ Means(called[1], called[2]) = {v}
                   \/ called[1] \in Sharing(c, v[1])
    <3>1. c \in Class /\ classes[c].state = "ready"
      BY <2>2 DEF Ready
    <3>2. \A d \in Line(c) : Hooked(d) = Says(d).own
      BY <2>1, <3>1 DEF Descent, Hooked, Defining
    <3>3. Over(c, v) = {d \in Line(c) : \E x \in Says(d).own : Means(d, x) = {v}}
      BY <3>2 DEF Over
    <3>4. Nearest(c, v)
      BY <2>1, <2>2, <3>1 DEF NearestSoFar
    <3> QED
      BY <3>3, <3>4 DEF Nearest
  <2> QED
    BY <2>2 DEF CallsNearest
<1> QED
  BY <1>1, Invariance, PTL

\* A class statement fails only for a reason of its own (pyg_type_register,
\* add_signals, add_properties, _setup_vfuncs), never because an earlier try of
\* the same statement failed, until every name that is tried has been used.
THEOREM ReasonToFail == Spec => []FailsForReason
<1>1. IInv => FailsForReason
  BY DEF IInv
<1> QED
  BY <1>1, Invariance, PTL

\* A class that Python was given has a GType that no other class has, and every
\* signal and property that it declares (pyg_type_register, pygobject__g_class_init).
THEOREM ReadyClassIsWhole == Spec => []ReadyIsWhole
<1>1. ASSUME IInv PROVE ReadyIsWhole
  <2>1. \A c \in Ready : c \in Class /\ classes[c].state # "refused"
    BY DEF Ready
  <2> QED
    BY <1>1, <2>1 DEF IInv, NamesApart, Declared, ReadyIsWhole
<1> QED
  BY <1>1, Invariance, PTL

(***************************************************************************)
(* TypeRegistry: references to classes, and how many there are.  The        *)
(* invariant counts them, and says for each kind which class is the last.  *)
(***************************************************************************)

(***************************************************************************)
(* Counting references.                                                    *)
(***************************************************************************)

\* What is known of classes: they are pairs, and none of them is None.
LEMMA ClassIds ==
    /\ None \notin ClassId /\ None \notin Types /\ None \notin Thread
    /\ \A c \in ClassId : c[1] \in Types /\ c[2] \in Nat /\ c = <<c[1], c[2]>>
    /\ \A t \in Types : \A k \in 0 .. MaxClasses : <<t, k>> \in ClassId
    /\ IsFiniteSet(ClassId) /\ IsFiniteSet(Thread)
<1>1. MaxClasses \in Nat /\ IsFiniteSet(Types) /\ IsFiniteSet(Thread)
    BY KindOfTypes
<1>2. IsFiniteSet(0 .. MaxClasses)
    BY <1>1, FS_Interval
<1>3. IsFiniteSet(ClassId)
    BY <1>1, <1>2, FS_Product DEF ClassId
<1>4. \A c \in ClassId : c[1] \in Types /\ c[2] \in Nat /\ c = <<c[1], c[2]>>
    BY <1>1 DEF ClassId
<1>5. \A t \in Types : \A k \in 0 .. MaxClasses : <<t, k>> \in ClassId
    BY DEF ClassId
<1>6. ClassId \subseteq Types \X Nat
    BY <1>1 DEF ClassId
<1> QED BY <1>1, <1>3, <1>4, <1>5, <1>6, KindOfTypes

\* How many are mapped to d, when one of the arguments is mapped anew.
LEMMA HowManyChange ==
    ASSUME NEW S, IsFiniteSet(S), NEW f, NEW g, DOMAIN f = S, DOMAIN g = S,
           NEW s \in S, \A x \in S : x # s => g[x] = f[x], NEW d
    PROVE /\ HowMany(f, d) \in Nat /\ HowMany(g, d) \in Nat
          /\ HowMany(g, d) = HowMany(f, d) - Is(f[s], d) + Is(g[s], d)
          /\ Is(f[s], d) <= HowMany(f, d)
<1> DEFINE F == {x \in S : f[x] = d}
           G == {x \in S : g[x] = d}
<1>1. IsFiniteSet(F) /\ IsFiniteSet(G)
    BY FS_Subset
<1>2. Cardinality(F) \in Nat /\ Cardinality(G) \in Nat
    BY <1>1, FS_CardinalityType
<1>3. HowMany(f, d) = Cardinality(F) /\ HowMany(g, d) = Cardinality(G)
    BY DEF HowMany
<1>8. Is(f[s], d) <= HowMany(f, d)
    <2>1. CASE f[s] # d
        BY <2>1, <1>2, <1>3 DEF Is
    <2>2. CASE f[s] = d
        <3>1. F # {}
            BY <2>2
        <3>2. Cardinality(F) # 0
            BY <3>1, <1>1, FS_EmptySet
        <3> QED BY <2>2, <3>2, <1>2, <1>3 DEF Is
    <2> QED BY <2>1, <2>2
<1>4. CASE f[s] = d /\ g[s] = d
    <2>1. F = G
        BY <1>4
    <2>2. Is(f[s], d) = 1 /\ Is(g[s], d) = 1
        BY <1>4 DEF Is
    <2>3. HowMany(f, d) \in Nat /\ HowMany(g, d) = HowMany(f, d)
        BY <2>1, <1>2, <1>3
    <2> HIDE DEF F, G
    <2>4. HowMany(f, d) = HowMany(f, d) - 1 + 1
        BY <2>3
    <2> QED BY <1>8, <2>2, <2>3, <2>4
<1>5. CASE f[s] # d /\ g[s] # d
    <2>1. F = G
        BY <1>5
    <2>2. Is(f[s], d) = 0 /\ Is(g[s], d) = 0
        BY <1>5 DEF Is
    <2>3. HowMany(f, d) \in Nat /\ HowMany(g, d) = HowMany(f, d)
        BY <2>1, <1>2, <1>3
    <2> HIDE DEF F, G
    <2> QED BY <2>2, <2>3
<1>6. CASE f[s] = d /\ g[s] # d
    <2>1. s \in F /\ G = F \ {s}
        BY <1>6
    <2>2. Cardinality(G) = Cardinality(F) - 1
        BY <2>1, <1>1, FS_RemoveElement
    <2> QED BY <2>2, <1>2, <1>3, <1>6 DEF Is
<1>7. CASE f[s] # d /\ g[s] = d
    <2>1. s \notin F /\ G = F \cup {s}
        BY <1>7
    <2>2. Cardinality(G) = Cardinality(F) + 1
        BY <2>1, <1>1, FS_AddElement
    <2> QED BY <2>2, <1>2, <1>3, <1>7 DEF Is
<1>9. /\ HowMany(f, d) \in Nat /\ HowMany(g, d) \in Nat
      /\ HowMany(g, d) = HowMany(f, d) - Is(f[s], d) + Is(g[s], d)
    BY <1>4, <1>5, <1>6, <1>7
<1> QED BY <1>8, <1>9

\* Whether an argument is mapped to d.
LEMMA HowManyNone ==
    ASSUME NEW S, IsFiniteSet(S), NEW f, DOMAIN f = S, NEW d
    PROVE /\ HowMany(f, d) \in Nat
          /\ HowMany(f, d) = 0 <=> \A x \in S : f[x] # d
<1> DEFINE F == {x \in S : f[x] = d}
<1>1. IsFiniteSet(F)
    BY FS_Subset
<1>2. Cardinality(F) \in Nat /\ (Cardinality(F) = 0 <=> F = {})
    BY <1>1, FS_CardinalityType, FS_EmptySet
<1>3. HowMany(f, d) = Cardinality(F)
    BY DEF HowMany
<1> QED BY <1>2, <1>3

\* What Py_INCREF and Py_DECREF do, of NULL nothing.
LEMMA Incref ==
    ASSUME NEW rs \in [ClassId -> Int], NEW c \in ClassId \cup {None}
    PROVE /\ Plus(rs, c, 1) \in [ClassId -> Int]
          /\ \A d \in ClassId : Plus(rs, c, 1)[d] = rs[d] + Is(c, d)
BY ClassIds DEF Plus, Is

\* A reference goes.
LEMMA Decref ==
    ASSUME NEW rs \in [ClassId -> Int], NEW c \in ClassId \cup {None}
    PROVE /\ Plus(rs, c, -1) \in [ClassId -> Int]
          /\ \A d \in ClassId : Plus(rs, c, -1)[d] = rs[d] - Is(c, d)
BY ClassIds DEF Plus, Is

\* A reference goes, then one comes.
LEMMA Swapref ==
    ASSUME NEW rs \in [ClassId -> Int], NEW b \in ClassId \cup {None}, NEW c \in ClassId \cup {None}
    PROVE /\ Plus(Plus(rs, b, -1), c, 1) \in [ClassId -> Int]
          /\ \A d \in ClassId : Plus(Plus(rs, b, -1), c, 1)[d] = rs[d] - Is(b, d) + Is(c, d)
<1>1. PICK s : s = Plus(rs, b, -1)
    OBVIOUS
<1>2. s \in [ClassId -> Int] /\ \A d \in ClassId : s[d] = rs[d] - Is(b, d)
    BY <1>1, Decref
<1>3. /\ Plus(s, c, 1) \in [ClassId -> Int]
      /\ \A d \in ClassId : Plus(s, c, 1)[d] = s[d] + Is(c, d)
    BY <1>2, Incref
<1> QED BY <1>1, <1>2, <1>3

\* Two references come.
LEMMA Increfs ==
    ASSUME NEW rs \in [ClassId -> Int], NEW b \in ClassId \cup {None}, NEW c \in ClassId \cup {None}
    PROVE /\ Plus(Plus(rs, b, 1), c, 1) \in [ClassId -> Int]
          /\ \A d \in ClassId : Plus(Plus(rs, b, 1), c, 1)[d] = rs[d] + Is(b, d) + Is(c, d)
<1>1. PICK s : s = Plus(rs, b, 1)
    OBVIOUS
<1>2. s \in [ClassId -> Int] /\ \A d \in ClassId : s[d] = rs[d] + Is(b, d)
    BY <1>1, Incref
<1>3. /\ Plus(s, c, 1) \in [ClassId -> Int]
      /\ \A d \in ClassId : Plus(s, c, 1)[d] = s[d] + Is(c, d)
    BY <1>2, Incref
<1> QED BY <1>1, <1>2, <1>3

\* The counts of a step that moves one thread.
LEMMA ThreadCounts ==
    ASSUME at \in [Thread -> Place], DOMAIN at' = Thread, NEW th \in Thread,
           \A o \in Thread : o # th => at'[o] = at[o], NEW d
    PROVE /\ CarriedBy(d) \in Nat /\ CarriedBy(d)' \in Nat
          /\ CarriedBy(d)' = CarriedBy(d) - Is(at[th].w, d) + Is(at'[th].w, d)
          /\ Is(at[th].w, d) <= CarriedBy(d)
          /\ BasesBy(d) \in Nat /\ BasesBy(d)' \in Nat
          /\ BasesBy(d)' = BasesBy(d) - Is(at[th].bases, d) + Is(at'[th].bases, d)
          /\ Is(at[th].bases, d) <= BasesBy(d)
<1>1. PICK f, g : f = [o \in Thread |-> at[o].w] /\ g = [o \in Thread |-> at'[o].w]
    OBVIOUS
<1>2. /\ DOMAIN f = Thread /\ DOMAIN g = Thread
      /\ \A x \in Thread : f[x] = at[x].w /\ g[x] = at'[x].w
      /\ CarriedBy(d) = HowMany(f, d) /\ CarriedBy(d)' = HowMany(g, d)
    BY <1>1 DEF CarriedBy, HowMany
<1>3. /\ HowMany(f, d) \in Nat /\ HowMany(g, d) \in Nat
      /\ HowMany(g, d) = HowMany(f, d) - Is(f[th], d) + Is(g[th], d)
      /\ Is(f[th], d) <= HowMany(f, d)
    BY <1>2, ClassIds, HowManyChange
<1>4. PICK p, q : p = [o \in Thread |-> at[o].bases] /\ q = [o \in Thread |-> at'[o].bases]
    OBVIOUS
<1>5. /\ DOMAIN p = Thread /\ DOMAIN q = Thread
      /\ \A x \in Thread : p[x] = at[x].bases /\ q[x] = at'[x].bases
      /\ BasesBy(d) = HowMany(p, d) /\ BasesBy(d)' = HowMany(q, d)
    BY <1>4 DEF BasesBy, HowMany
<1>6. /\ HowMany(p, d) \in Nat /\ HowMany(q, d) \in Nat
      /\ HowMany(q, d) = HowMany(p, d) - Is(p[th], d) + Is(q[th], d)
      /\ Is(p[th], d) <= HowMany(p, d)
    BY <1>5, ClassIds, HowManyChange
<1> QED BY <1>2, <1>3, <1>5, <1>6

\* The counts of a step that makes or collects class x.
LEMMA ParentCounts ==
    ASSUME NEW x \in ClassId, \A c \in ClassId : c # x => ParentOf(c)' = ParentOf(c), NEW d
    PROVE /\ ParentsBy(d) \in Nat /\ ParentsBy(d)' \in Nat
          /\ ParentsBy(d)' = ParentsBy(d) - Is(ParentOf(x), d) + Is(ParentOf(x)', d)
          /\ Is(ParentOf(x), d) <= ParentsBy(d)
<1>1. PICK f, g : f = [c \in ClassId |-> ParentOf(c)] /\ g = [c \in ClassId |-> ParentOf(c)']
    OBVIOUS
<1>2. /\ DOMAIN f = ClassId /\ DOMAIN g = ClassId
      /\ \A c \in ClassId : f[c] = ParentOf(c) /\ g[c] = ParentOf(c)'
      /\ ParentsBy(d) = HowMany(f, d) /\ ParentsBy(d)' = HowMany(g, d)
    BY <1>1 DEF ParentsBy, HowMany
<1>3. /\ HowMany(f, d) \in Nat /\ HowMany(g, d) \in Nat
      /\ HowMany(g, d) = HowMany(f, d) - Is(f[x], d) + Is(g[x], d)
      /\ Is(f[x], d) <= HowMany(f, d)
    BY <1>2, ClassIds, HowManyChange
<1> QED BY <1>2, <1>3

\* The counts of a step that binds an attribute anew.
LEMMA BoundCounts ==
    ASSUME NEW f \in [Types -> ClassId \cup {None}], \A u \in Types : f[u] # None => f[u][1] = u,
           NEW t \in Types, NEW c \in ClassId \cup {None}, c # None => c[1] = t, NEW d \in ClassId
    PROVE LET g == [f EXCEPT ![t] = c] IN
          /\ Is(g[d[1]], d) = Is(f[d[1]], d) - Is(f[t], d) + Is(c, d)
          /\ Is(f[t], d) <= Is(f[d[1]], d)
<1>1. d[1] \in Types /\ d # None
    BY ClassIds
<1>2. CASE d[1] = t
    BY <1>1, <1>2 DEF Is
<1>3. CASE d[1] # t
    <2>1. f[t] # d /\ c # d
        BY <1>1, <1>3
    <2> QED BY <1>1, <1>3, <2>1 DEF Is
<1> QED BY <1>2, <1>3

\* The references of GTypes, when one names another class.
LEMMA NamedCounts ==
    ASSUME named \in [Types -> ClassId \cup {None}], \A u \in Types : named[u] # None => named[u][1] = u,
           NEW t \in Types, NEW c \in ClassId \cup {None}, c # None => c[1] = t, NEW d \in ClassId,
           named' = [named EXCEPT ![t] = c]
    PROVE /\ NamedBy(d)' = NamedBy(d) - (IF Strong(t) THEN Is(named[t], d) ELSE 0) + (IF Strong(t) THEN Is(c, d) ELSE 0)
          /\ (IF Strong(t) THEN Is(named[t], d) ELSE 0) <= NamedBy(d)
<1>1. d[1] \in Types /\ d # None
    BY ClassIds
<1>2. CASE d[1] = t
    BY <1>1, <1>2 DEF Is, NamedBy
<1>3. CASE d[1] # t
    <2>1. named[t] # d /\ c # d
        BY <1>1, <1>3
    <2> QED BY <1>1, <1>3, <2>1 DEF Is, NamedBy
<1> QED BY <1>2, <1>3

(***************************************************************************)
(* What the invariant says of what refers to a class.                      *)
(***************************************************************************)

\* A class is of its type, and there is one for whatever refers to one.
LEMMA Known ==
    ASSUME IInvAlive
    PROVE /\ made \in [Types -> 0 .. MaxClasses] /\ refs \in [ClassId -> Int]
          /\ named \in [Types -> ClassId \cup {None}] /\ dict \in [Types -> ClassId \cup {None}]
          /\ over \in [Types -> ClassId \cup {None}] /\ at \in [Thread -> Place]
          /\ base \in [ClassId -> ClassId \cup {None}]
          /\ gone \subseteq ClassId /\ held \subseteq ClassId
          /\ \A u \in Types : /\ Made(u) \subseteq ClassId
                              /\ \A c \in Made(u) : c[1] = u
                              /\ named[u] # None => named[u] \in Made(u) /\ named[u][1] = u
                              /\ dict[u] # None => dict[u] \in Made(u) /\ dict[u][1] = u
                              /\ over[u] # None => over[u] \in Made(u) /\ over[u][1] = u
          /\ \A o \in Thread : at[o].w \in ClassId \cup {None} /\ at[o].bases \in ClassId \cup {None}
BY DEF IInvAlive, RegistryTypes, RefersToMade, SomeMade, Made, Place

\* The references to one class.
LEMMA Terms ==
    ASSUME IInvAlive, NEW d \in ClassId
    PROVE /\ NamedBy(d) \in Nat /\ DictBy(d) \in Nat /\ OverBy(d) \in Nat /\ HeldBy(d) \in Nat
          /\ CarriedBy(d) \in Nat /\ BasesBy(d) \in Nat /\ ParentsBy(d) \in Nat
          /\ refs[d] \in Int
          /\ NamedBy(d) + DictBy(d) + OverBy(d) + HeldBy(d)
                 + CarriedBy(d) + BasesBy(d) + ParentsBy(d) <= refs[d]
          /\ d \in gone => /\ NamedBy(d) = 0 /\ DictBy(d) = 0 /\ OverBy(d) = 0 /\ HeldBy(d) = 0
                           /\ CarriedBy(d) = 0 /\ BasesBy(d) = 0 /\ ParentsBy(d) = 0
<1>1. NamedBy(d) \in Nat /\ DictBy(d) \in Nat /\ OverBy(d) \in Nat /\ HeldBy(d) \in Nat
    BY DEF NamedBy, DictBy, OverBy, HeldBy, Is
<1>2. CarriedBy(d) \in Nat /\ BasesBy(d) \in Nat /\ ParentsBy(d) \in Nat
    <2>1. PICK f, g, h : /\ f = [th \in Thread |-> at[th].w] /\ g = [th \in Thread |-> at[th].bases]
                         /\ h = [x \in ClassId |-> ParentOf(x)]
        OBVIOUS
    <2>2. DOMAIN f = Thread /\ DOMAIN g = Thread /\ DOMAIN h = ClassId
        BY <2>1
    <2>3. HowMany(f, d) \in Nat /\ HowMany(g, d) \in Nat /\ HowMany(h, d) \in Nat
        BY <2>2, ClassIds, HowManyNone
    <2> QED BY <2>1, <2>3 DEF CarriedBy, BasesBy, ParentsBy
<1>3. refs[d] \in Int /\ References(d) <= refs[d] /\ (d \in gone => References(d) = 0)
    BY Known DEF IInvAlive, Counted, GoneUnowned
<1>4. References(d) = NamedBy(d) + DictBy(d) + OverBy(d) + HeldBy(d)
                 + CarriedBy(d) + BasesBy(d) + ParentsBy(d)
    BY DEF References
<1>5. ASSUME d \in gone
      PROVE /\ NamedBy(d) = 0 /\ DictBy(d) = 0 /\ OverBy(d) = 0 /\ HeldBy(d) = 0
            /\ CarriedBy(d) = 0 /\ BasesBy(d) = 0 /\ ParentsBy(d) = 0
    <2>1. PICK a, b, c, e, f, g, h :
              /\ a = NamedBy(d) /\ b = DictBy(d) /\ c = OverBy(d) /\ e = HeldBy(d)
              /\ f = CarriedBy(d) /\ g = BasesBy(d) /\ h = ParentsBy(d)
        OBVIOUS
    <2>2. a \in Nat /\ b \in Nat /\ c \in Nat /\ e \in Nat /\ f \in Nat /\ g \in Nat /\ h \in Nat
        BY <1>1, <1>2, <2>1
    <2>3. a + b + c + e + f + g + h = 0
        BY <1>3, <1>4, <1>5, <2>1
    <2>4. a = 0 /\ b = 0 /\ c = 0 /\ e = 0 /\ f = 0 /\ g = 0 /\ h = 0
        BY <2>2, <2>3
    <2> QED BY <2>1, <2>4
<1> QED BY <1>1, <1>2, <1>3, <1>4, <1>5

\* Nothing that a thread comes upon was collected.
LEMMA NotGone ==
    ASSUME IInvAlive
    PROVE /\ \A u \in Types : named[u] \notin gone /\ dict[u] \notin gone /\ over[u] \notin gone
          /\ \A o \in Thread : at[o].w \notin gone /\ at[o].bases \notin gone
          /\ \A c \in ClassId : c \notin gone => base[c] \notin gone
          /\ None \notin gone
<1>1. /\ \A u \in Types : dict[u] \notin gone /\ over[u] \notin gone
      /\ None \notin gone
    <2>1. None \notin gone
        BY Known, ClassIds
    <2>2. ASSUME NEW u \in Types PROVE dict[u] \notin gone
        BY <2>1, Known, Terms DEF DictBy, Is
    <2>3. ASSUME NEW u \in Types PROVE over[u] \notin gone
        BY <2>1, Known, Terms DEF OverBy, Is
    <2> QED BY <2>1, <2>2, <2>3
<1>2. ASSUME NEW o \in Thread PROVE at[o].w \notin gone /\ at[o].bases \notin gone
    <2>1. PICK f, g : f = [th \in Thread |-> at[th].w] /\ g = [th \in Thread |-> at[th].bases]
        OBVIOUS
    <2>2. DOMAIN f = Thread /\ DOMAIN g = Thread /\ f[o] = at[o].w /\ g[o] = at[o].bases
        BY <2>1
    <2>3. ASSUME NEW d \in gone PROVE f[o] # d /\ g[o] # d
        <3>1. d \in ClassId
            BY Known
        <3>2. HowMany(f, d) = 0 /\ HowMany(g, d) = 0
            BY <3>1, <2>1, Terms DEF CarriedBy, BasesBy, ParentsBy
        <3> QED BY <3>2, <2>2, ClassIds, HowManyNone
    <2> QED BY <2>2, <2>3
<1>3. ASSUME NEW c \in ClassId, c \notin gone PROVE base[c] \notin gone
    <2>1. PICK h : h = [x \in ClassId |-> ParentOf(x)]
        OBVIOUS
    <2>2. DOMAIN h = ClassId /\ h[c] = base[c]
        BY <2>1, <1>3 DEF ParentOf
    <2>3. ASSUME NEW d \in gone PROVE h[c] # d
        <3>1. d \in ClassId
            BY Known
        <3>2. HowMany(h, d) = 0
            BY <3>1, <2>1, Terms DEF CarriedBy, BasesBy, ParentsBy
        <3> QED BY <3>2, <2>2, ClassIds, HowManyNone
    <2> QED BY <2>2, <2>3
<1>4. ASSUME NEW u \in Types PROVE named[u] \notin gone
    <2>1. CASE named[u] = None
        BY <2>1, <1>1
    <2>2. CASE named[u] # None /\ Strong(u)
        BY <2>2, Known, Terms DEF NamedBy, Is
    <2>3. CASE named[u] # None /\ Kind[u] = "enum"
        BY <2>3, <1>1, <1>2 DEF IInvAlive, EnumKept
    <2>4. CASE named[u] # None /\ Kind[u] = "mine"
        <3>1. named[u] \in held /\ named[u] \in ClassId
            BY <2>4, Known DEF IInvAlive, EnumKept
        <3> QED BY <3>1, Terms DEF HeldBy
    <2> QED BY <2>1, <2>2, <2>3, <2>4 DEF Strong
<1> QED BY <1>1, <1>2, <1>3, <1>4

(***************************************************************************)
(* What steps have in common.                                              *)
(***************************************************************************)

\* A step that makes no class.
LEMMA MadeKept ==
    ASSUME made' = made
    PROVE \A u \in Types : Made(u)' = Made(u)
BY DEF Made

\* A step that makes one.
LEMMA MadeGrows ==
    ASSUME made \in [Types -> 0 .. MaxClasses], NEW t \in Types, made[t] < MaxClasses,
           made' = [made EXCEPT ![t] = @ + 1]
    PROVE /\ made' \in [Types -> 0 .. MaxClasses]
          /\ Fresh(t) \in ClassId /\ Fresh(t)[1] = t /\ Fresh(t)[2] = made[t] + 1
          /\ Fresh(t) \in Made(t)' /\ Fresh(t) \notin Made(t)
          /\ \A u \in Types : Made(u) \subseteq Made(u)' /\ (u # t => Made(u)' = Made(u))
          /\ \A c \in Made(t)' : c \in Made(t) \/ c = Fresh(t)
<1>1. MaxClasses \in Nat /\ made[t] \in 0 .. MaxClasses
    BY KindOfTypes
<1>2. Fresh(t) \in ClassId /\ Fresh(t)[1] = t /\ Fresh(t)[2] = made[t] + 1
    BY <1>1 DEF Fresh, ClassId
<1>3. made' \in [Types -> 0 .. MaxClasses]
    BY <1>1
<1>4. Fresh(t) \in Made(t)' /\ Fresh(t) \notin Made(t)
    BY <1>1, <1>2 DEF Made
<1>5. ASSUME NEW u \in Types PROVE Made(u) \subseteq Made(u)' /\ (u # t => Made(u)' = Made(u))
    <2>1. CASE u = t
        BY <2>1, <1>1, ClassIds DEF Made
    <2>2. CASE u # t
        BY <2>2 DEF Made
    <2> QED BY <2>1, <2>2
<1>6. ASSUME NEW c \in Made(t)' PROVE c \in Made(t) \/ c = Fresh(t)
    <2>1. c \in ClassId /\ c[1] = t /\ c[2] <= made[t] + 1 /\ (c[2] = 0 => Kind[t] = "root")
        BY <1>6, <1>1 DEF Made
    <2>2. c[2] \in Nat /\ c = <<c[1], c[2]>>
        BY <2>1, ClassIds
    <2> QED BY <2>1, <2>2, <1>1 DEF Made, Fresh
<1> QED BY <1>2, <1>3, <1>4, <1>5, <1>6

\* A step of one thread.
LEMMA ThreadMoves ==
    ASSUME ThreadsOK, at \in [Thread -> Place], NEW th \in Thread, NEW p \in Place,
           at' = [at EXCEPT ![th] = p], \A u \in Types : Made(u) \subseteq Made(u)',
           IF p.pc \in {"locked", "make", "name"} THEN lock' = th /\ lock \in {th, None}
           ELSE lock' = IF at[th].pc \in {"locked", "make", "name"} THEN None ELSE lock,
           AtOK(th)'
    PROVE ThreadsOK'
<1>1. at'[th] = p /\ \A o \in Thread : o # th => at'[o] = at[o]
    OBVIOUS
<1>2. ASSUME NEW o \in Thread PROVE AtOK(o)'
    <2>1. CASE o = th
        BY <2>1
    <2>2. CASE o # th
        <3>1. at'[o] = at[o] /\ AtOK(o)
            BY <2>2, <1>1 DEF ThreadsOK
        <3>2. at[o].pc \in Carrying \cup Finding => at[o].t \in Types /\ Made(at[o].t) \subseteq Made(at[o].t)'
            BY <3>1 DEF AtOK, Carrying, Finding
        <3> QED BY <3>1, <3>2 DEF AtOK
    <2> QED BY <2>1, <2>2
<1>3. ASSUME NEW o \in Thread PROVE lock' = o <=> at'[o].pc \in {"locked", "make", "name"}
    <2>1. \A x \in Thread : lock = x <=> at[x].pc \in {"locked", "make", "name"}
        BY DEF ThreadsOK, LockHeld
    <2>2. None \notin Thread
        BY ClassIds
    <2> QED BY <1>1, <2>1, <2>2
<1> QED BY <1>2, <1>3 DEF ThreadsOK, LockHeld

\* The references of threads stay when no thread moves.
LEMMA SameThreads ==
    ASSUME at' = at
    PROVE \A d : CarriedBy(d)' = CarriedBy(d) /\ BasesBy(d)' = BasesBy(d)
BY DEF CarriedBy, BasesBy, HowMany

\* Those of derived classes stay when none is made or collected.
LEMMA SameParents ==
    ASSUME gone' = gone, base' = base
    PROVE \A d : ParentsBy(d)' = ParentsBy(d)
BY DEF ParentsBy, HowMany, ParentOf

\* A step after which no thread is elsewhere.
LEMMA ThreadsStay ==
    ASSUME ThreadsOK, at' = at, lock' = lock, \A u \in Types : Made(u) \subseteq Made(u)'
    PROVE ThreadsOK'
BY DEF ThreadsOK, LockHeld, AtOK, Carrying, Finding

\* What a step may refer to anew.
LEMMA RefersStep ==
    ASSUME IInvAlive, \A u \in Types : Made(u) \subseteq Made(u)',
           \A u \in Types : /\ named'[u] \in {named[u], None} \cup Made(u)'
                            /\ dict'[u] \in {dict[u], None} \cup Made(u)'
                            /\ over'[u] \in {over[u], None} \cup Made(u)'
                            /\ handed'[u] \subseteq handed[u] \cup Made(u)',
           \A c \in ClassId : base'[c] \in {base[c], None} \cup Made(c[1])',
           \A c \in held' \cup gone' : c \in held \cup gone \/ (c \in ClassId /\ c \in Made(c[1])'),
           \A c \in gone' : c \in gone \/ c[2] # 0
    PROVE RefersToMade'
<1>1. /\ \A u \in Types : /\ SomeMade(u, named[u]) /\ SomeMade(u, dict[u]) /\ SomeMade(u, over[u])
                           /\ handed[u] \subseteq Made(u)
      /\ \A c \in ClassId : SomeMade(c[1], base[c])
      /\ \A c \in held \cup gone : c \in Made(c[1])
      /\ \A c \in gone : c[2] # 0
    BY DEF IInvAlive, RefersToMade
<1>2. \A c \in ClassId : c[1] \in Types
    BY ClassIds
<1>3. \A u \in Types : /\ SomeMade(u, named[u])' /\ SomeMade(u, dict[u])' /\ SomeMade(u, over[u])'
                       /\ (handed[u] \subseteq Made(u))'
    BY <1>1 DEF SomeMade
<1>4. \A c \in ClassId : SomeMade(c[1], base[c])'
    BY <1>1, <1>2 DEF SomeMade
<1>5. \A c \in (held \cup gone)' : (c \in Made(c[1]))'
    BY <1>1, <1>2, Known
<1> QED BY <1>1, <1>3, <1>4, <1>5 DEF RefersToMade

\* The references of a step, class by class.
LEMMA AliveStep ==
    ASSUME RegistryTypes', RefersToMade', ThreadsOK', EnumKept',
           \A d \in ClassId : References(d)' <= refs'[d] /\ (d \in gone' => References(d)' = 0)
    PROVE IInvAlive'
BY DEF IInvAlive, RegistryTypes, Counted, GoneUnowned

\* There is only one class for an enumeration of a typelib.
LEMMA EnumOnly ==
    ASSUME RegistryInv, NEW t \in Types, Kind[t] = "enum"
    PROVE /\ \A c \in Made(t) : c = <<t, 1>>
          /\ made[t] = 1 <=> named[t] # None
<1>1. made \in [Types -> 0 .. MaxClasses] /\ OneEnum(t) /\ MaxClasses \in Nat
    BY KindOfTypes DEF RegistryInv, IInvAlive, RegistryTypes, IInvOne, InOrder
<1>2. made[t] \in Nat /\ made[t] <= 1
    BY <1>1 DEF OneEnum
<1>3. ASSUME NEW c \in Made(t) PROVE c = <<t, 1>>
    <2>1. c \in ClassId /\ c[1] = t /\ c[2] <= made[t] /\ c[2] # 0
        BY DEF Made
    <2>2. c[2] \in Nat /\ c = <<c[1], c[2]>>
        BY <2>1, ClassIds
    <2> QED BY <1>2, <2>1, <2>2
<1> QED BY <1>1, <1>3 DEF OneEnum

\* A step that moves one thread, but carries nothing away.
LEMMA QuietAlive ==
    ASSUME RegistryInv, uses' = uses, NEW th \in Thread, NEW p \in Place, at' = [at EXCEPT ![th] = p],
           p.w = at[th].w, p.bases = at[th].bases, ThreadsOK', lock' \in Thread \cup {None}, overlap' \subseteq Types,
           UNCHANGED <<made, refs, gone, base, mro, named, dict, over, loading, held, handed>>
    PROVE IInvAlive'
<1>0. IInvAlive
    BY DEF RegistryInv
<1>1. RegistryTypes'
    BY <1>0 DEF IInvAlive, RegistryTypes
<1>2. RefersToMade'
    BY <1>0, MadeKept, RefersStep DEF IInvAlive, RefersToMade
<1>3. EnumKept'
    BY <1>0, Known DEF IInvAlive, EnumKept
<1>4. ASSUME NEW d \in ClassId PROVE References(d)' <= refs'[d] /\ (d \in gone' => References(d)' = 0)
    <2>1. /\ NamedBy(d)' = NamedBy(d) /\ DictBy(d)' = DictBy(d) /\ OverBy(d)' = OverBy(d) /\ HeldBy(d)' = HeldBy(d)
        BY DEF NamedBy, DictBy, OverBy, HeldBy
    <2>2. CarriedBy(d)' = CarriedBy(d) /\ BasesBy(d)' = BasesBy(d)
        BY <1>0, Known, ThreadCounts DEF Is
    <2>3. ParentsBy(d)' = ParentsBy(d)
        BY SameParents
    <2>4. References(d)' = References(d)
        BY <2>1, <2>2, <2>3 DEF References
    <2> QED BY <1>0, <2>4, Known DEF IInvAlive, Counted, GoneUnowned
<1> QED BY <1>1, <1>2, <1>3, <1>4, AliveStep

\* The program is given a class.
LEMMA GivenCounts ==
    ASSUME NEW rs \in [ClassId -> Int], held \subseteq ClassId, NEW t \in Types, NEW c \in ClassId,
           handed \in [Types -> SUBSET ClassId], Given(t, c, rs)
    PROVE /\ refs' \in [ClassId -> Int]
          /\ \A d \in ClassId : /\ HeldBy(d) \in Nat /\ HeldBy(d)' \in Nat
                                /\ HeldBy(d) <= HeldBy(d)' /\ HeldBy(d)' <= HeldBy(d) + Is(c, d)
                                /\ refs'[d] = rs[d] + HeldBy(d)' - HeldBy(d)
          /\ held' = held \cup {c}
          /\ handed' \in [Types -> SUBSET ClassId]
          /\ \A u \in Types : handed'[u] \subseteq handed[u] \cup (IF u = t THEN {c} ELSE {})
<1>1. /\ held' = held \cup {c} /\ handed' = [handed EXCEPT ![t] = @ \cup {c}]
      /\ refs' = IF c \in held THEN rs ELSE Plus(rs, c, 1)
    BY DEF Given
<1>2. CASE c \in held
    <2>1. held' = held /\ refs' = rs
        BY <1>1, <1>2
    <2>2. ASSUME NEW d \in ClassId PROVE HeldBy(d)' = HeldBy(d) /\ HeldBy(d) \in Nat /\ rs[d] \in Int
        BY <2>1 DEF HeldBy
    <2>3. ASSUME NEW d \in ClassId PROVE Is(c, d) \in Nat
        BY DEF Is
    <2> QED BY <1>1, <2>1, <2>2, <2>3
<1>3. CASE c \notin held
    <2>1. refs' = Plus(rs, c, 1)
        BY <1>1, <1>3
    <2>2. refs' \in [ClassId -> Int] /\ \A d \in ClassId : refs'[d] = rs[d] + Is(c, d)
        BY <2>1, Incref
    <2>3. ASSUME NEW d \in ClassId
          PROVE HeldBy(d)' = HeldBy(d) + Is(c, d) /\ HeldBy(d) \in Nat /\ Is(c, d) \in Nat /\ rs[d] \in Int
        BY <1>1, <1>3 DEF HeldBy, Is
    <2> QED BY <1>1, <2>2, <2>3
<1> QED BY <1>2, <1>3

\* A lookup ends.
LEMMA ReturnCounts ==
    ASSUME IInvAlive, NEW rs \in [ClassId -> Int], NEW th \in Thread, NEW t \in Types, NEW c \in ClassId,
           Return(th, t, c, rs)
    PROVE /\ refs' \in [ClassId -> Int]
          /\ \A d \in ClassId :
                 /\ HeldBy(d) \in Nat /\ HeldBy(d)' \in Nat
                 /\ HeldBy(d) <= HeldBy(d)' /\ HeldBy(d)' <= HeldBy(d) + Is(c, d)
                 /\ rs[d] + HeldBy(d)' <= refs'[d] + HeldBy(d) + Is(at[th].bases, d) + Is(c, d)
          /\ held \subseteq held' /\ held' \subseteq held \cup {c}
          /\ handed' \in [Types -> SUBSET ClassId]
          /\ \A u \in Types : handed'[u] \subseteq handed[u] \cup (IF u = t THEN {c} ELSE {})
          /\ at' = [at EXCEPT ![th] = IF at[th].by # "python" /\ at[th].goal # None
                                      THEN [Idle EXCEPT !.pc = "new", !.t = at[th].goal] ELSE Idle]
<1> DEFINE b == at[th].bases
<1>1. /\ held \subseteq ClassId /\ handed \in [Types -> SUBSET ClassId] /\ b \in ClassId \cup {None}
    BY Known DEF IInvAlive, RegistryTypes
<1>2. PICK left : left = Plus(rs, b, -1)
    OBVIOUS
<1>3. left \in [ClassId -> Int] /\ \A d \in ClassId : left[d] = rs[d] - Is(b, d)
    BY <1>1, <1>2, Decref
<1>4. \A x, d : Is(x, d) \in Nat
    BY DEF Is
<1>5. CASE at[th].by = "python"
    <2>1. Given(t, c, Plus(left, c, -1)) /\ at' = [at EXCEPT ![th] = Idle]
        BY <1>2, <1>5 DEF Return
    <2>2. PICK lr : lr = Plus(left, c, -1)
        OBVIOUS
    <2>3. lr \in [ClassId -> Int] /\ \A d \in ClassId : lr[d] = left[d] - Is(c, d)
        BY <1>3, <2>2, Decref
    <2>4. /\ refs' \in [ClassId -> Int]
          /\ \A d \in ClassId : /\ HeldBy(d) \in Nat /\ HeldBy(d)' \in Nat
                                /\ HeldBy(d) <= HeldBy(d)' /\ HeldBy(d)' <= HeldBy(d) + Is(c, d)
                                /\ refs'[d] = lr[d] + HeldBy(d)' - HeldBy(d)
          /\ held' = held \cup {c}
          /\ handed' \in [Types -> SUBSET ClassId]
          /\ \A u \in Types : handed'[u] \subseteq handed[u] \cup (IF u = t THEN {c} ELSE {})
        BY <1>1, <2>1, <2>2, <2>3, GivenCounts
    <2>5. ASSUME NEW d \in ClassId
          PROVE rs[d] + HeldBy(d)' <= refs'[d] + HeldBy(d) + Is(b, d) + Is(c, d)
        <3>1. /\ left[d] = rs[d] - Is(b, d) /\ lr[d] = left[d] - Is(c, d)
              /\ refs'[d] = lr[d] + HeldBy(d)' - HeldBy(d)
              /\ HeldBy(d) \in Nat /\ HeldBy(d)' \in Nat /\ rs[d] \in Int /\ left[d] \in Int /\ lr[d] \in Int
            BY <1>3, <2>3, <2>4
        <3> QED BY <3>1, <1>4
    <2> QED BY <1>5, <2>1, <2>4, <2>5
<1>6. CASE at[th].by # "python" /\ at[th].goal # None
    <2>1. /\ at' = [at EXCEPT ![th] = [Idle EXCEPT !.pc = "new", !.t = at[th].goal]]
          /\ refs' = left /\ UNCHANGED <<held, handed>>
        BY <1>2, <1>6 DEF Return
    <2>2. \A d \in ClassId : HeldBy(d)' = HeldBy(d) /\ HeldBy(d) \in Nat
        BY <2>1 DEF HeldBy
    <2>5. ASSUME NEW d \in ClassId
          PROVE rs[d] + HeldBy(d)' <= refs'[d] + HeldBy(d) + Is(b, d) + Is(c, d)
        <3>1. /\ refs'[d] = rs[d] - Is(b, d) /\ HeldBy(d)' = HeldBy(d)
              /\ HeldBy(d) \in Nat /\ rs[d] \in Int
            BY <1>3, <2>1, <2>2
        <3> QED BY <3>1, <1>4
    <2> QED BY <1>1, <1>3, <1>4, <1>6, <2>1, <2>2, <2>5
<1>7. CASE at[th].by # "python" /\ at[th].goal = None
    <2>1. Given(t, c, left) /\ at' = [at EXCEPT ![th] = Idle]
        BY <1>2, <1>7 DEF Return
    <2>4. /\ refs' \in [ClassId -> Int]
          /\ \A d \in ClassId : /\ HeldBy(d) \in Nat /\ HeldBy(d)' \in Nat
                                /\ HeldBy(d) <= HeldBy(d)' /\ HeldBy(d)' <= HeldBy(d) + Is(c, d)
                                /\ refs'[d] = left[d] + HeldBy(d)' - HeldBy(d)
          /\ held' = held \cup {c}
          /\ handed' \in [Types -> SUBSET ClassId]
          /\ \A u \in Types : handed'[u] \subseteq handed[u] \cup (IF u = t THEN {c} ELSE {})
        BY <1>1, <1>3, <2>1, GivenCounts
    <2>5. ASSUME NEW d \in ClassId
          PROVE rs[d] + HeldBy(d)' <= refs'[d] + HeldBy(d) + Is(b, d) + Is(c, d)
        <3>1. /\ left[d] = rs[d] - Is(b, d)
              /\ refs'[d] = left[d] + HeldBy(d)' - HeldBy(d)
              /\ HeldBy(d) \in Nat /\ HeldBy(d)' \in Nat /\ rs[d] \in Int /\ left[d] \in Int
            BY <1>3, <2>4
        <3> QED BY <3>1, <1>4
    <2> QED BY <1>7, <2>1, <2>4, <2>5
<1> QED BY <1>5, <1>6, <1>7

\* The program, or C code, is given a class that is there.
LEMMA ShowAlive ==
    ASSUME RegistryInv, uses' = uses, NEW t \in Types, NEW c \in Made(t), c \notin gone,
           NEW rs \in {refs, Plus(refs, c, 1)}, Given(t, c, rs),
           UNCHANGED <<made, gone, base, mro, named, dict, over, loading, lock, at, overlap>>
    PROVE IInvAlive'
<1>0. IInvAlive
    BY DEF RegistryInv
<1>1. c \in ClassId /\ refs \in [ClassId -> Int] /\ c[1] = t
    BY <1>0, Known
<1>2. rs \in [ClassId -> Int] /\ \A d \in ClassId : rs[d] \in Int /\ refs[d] \in Int /\ refs[d] <= rs[d]
    <2>1. \A d \in ClassId : Is(c, d) \in Nat
        BY DEF Is
    <2>2. CASE rs = refs
        BY <2>2, <1>1
    <2>3. CASE rs = Plus(refs, c, 1)
        BY <2>1, <2>3, <1>1, Incref
    <2> QED BY <2>2, <2>3
<1>3. /\ refs' \in [ClassId -> Int]
      /\ \A d \in ClassId : /\ HeldBy(d) \in Nat /\ HeldBy(d)' \in Nat
                            /\ HeldBy(d) <= HeldBy(d)' /\ HeldBy(d)' <= HeldBy(d) + Is(c, d)
                            /\ refs'[d] = rs[d] + HeldBy(d)' - HeldBy(d)
      /\ held' = held \cup {c}
      /\ handed' \in [Types -> SUBSET ClassId]
      /\ \A u \in Types : handed'[u] \subseteq handed[u] \cup (IF u = t THEN {c} ELSE {})
    BY <1>0, <1>1, <1>2, Known, GivenCounts DEF IInvAlive, RegistryTypes
<1>4. RegistryTypes'
    BY <1>0, <1>1, <1>3 DEF IInvAlive, RegistryTypes
<1>5. \A u \in Types : Made(u)' = Made(u)
    BY MadeKept
<1>6. RefersToMade'
    BY <1>0, <1>1, <1>3, <1>5, RefersStep
<1>7. ThreadsOK'
    BY <1>0, <1>5, ThreadsStay DEF IInvAlive
<1>8. EnumKept'
    BY <1>0, <1>3 DEF IInvAlive, EnumKept
<1>9. ASSUME NEW d \in ClassId PROVE References(d)' <= refs'[d] /\ (d \in gone' => References(d)' = 0)
    <2>1. /\ NamedBy(d)' = NamedBy(d) /\ DictBy(d)' = DictBy(d) /\ OverBy(d)' = OverBy(d)
          /\ CarriedBy(d)' = CarriedBy(d) /\ BasesBy(d)' = BasesBy(d) /\ ParentsBy(d)' = ParentsBy(d)
        BY SameParents, SameThreads DEF NamedBy, DictBy, OverBy
    <2>2. /\ rs[d] \in Int /\ refs[d] \in Int /\ refs[d] <= rs[d]
          /\ HeldBy(d) \in Nat /\ HeldBy(d)' \in Nat /\ HeldBy(d)' <= HeldBy(d) + Is(c, d)
          /\ refs'[d] = rs[d] + HeldBy(d)' - HeldBy(d)
        BY <1>2, <1>3
    <2>3. References(d)' <= refs'[d]
        BY <2>1, <2>2, <1>0, Terms DEF References
    <2>4. ASSUME d \in gone PROVE References(d)' = 0
        <3>1. Is(c, d) = 0
            BY <2>4 DEF Is
        <3> QED BY <3>1, <2>1, <2>2, <2>4, <1>0, Terms DEF References
    <2> QED BY <2>3, <2>4
<1> QED BY <1>4, <1>6, <1>7, <1>8, <1>9, AliveStep

\* An enumeration is kept through a step that binds nothing.
LEMMA EnumKeptStep ==
    ASSUME EnumKept, NEW th \in Thread, \A o \in Thread : o # th => at'[o] = at[o],
           at[th].w = None \/ at'[th].w = at[th].w, UNCHANGED <<named, dict, over>>, held \subseteq held'
    PROVE EnumKept'
<1>1. ASSUME NEW u \in Types, named[u] # None, NEW o \in Thread, at[o].w = named[u]
      PROVE at'[o].w = named[u]
    BY <1>1
<1> QED BY <1>1 DEF EnumKept

\* The references when a lookup ends: what the thread had goes, what the attribute
\* and the program got comes.
LEMMA ReturnSum ==
    ASSUME NEW n \in Nat, NEW e \in Nat, NEW o \in Nat, NEW h \in Nat, NEW c \in Nat, NEW b \in Nat, NEW p \in Nat,
           NEW h2 \in Nat, NEW r \in Int, NEW r2 \in Int, NEW s \in Int,
           NEW iw \in Nat, NEW ib \in Nat, NEW ic \in Nat, NEW id \in Nat,
           n + e + o + h + c + b + p <= r, s = r - id + ic + ic - iw, s + h2 <= r2 + h + ib + ic
    PROVE n + (e - id + ic) + o + h2 + (c - iw) + (b - ib) + p <= r2
OBVIOUS

\* get_parent_for_object.
LEMMA ParentAlive ==
    ASSUME RegistryInv, uses' = uses, NEW th \in Thread, get_parent_for_object(th)
    PROVE IInvAlive'
<1> DEFINE t == at[th].t
           b == named[t]
           p == [at[th] EXCEPT !.bases = b, !.pc = "lock"]
<1>0. IInvAlive
    BY DEF RegistryInv
<1>1. /\ at[th].pc = "bases" /\ at' = [at EXCEPT ![th].bases = b, ![th].pc = "lock"]
      /\ refs' = Plus(refs, b, 1)
      /\ UNCHANGED <<made, gone, base, mro, named, dict, over, loading, lock, held, handed, overlap>>
    BY DEF get_parent_for_object
<1>2. at[th] \in Place /\ at \in [Thread -> Place] /\ refs \in [ClassId -> Int]
    BY <1>0, Known
<1>3. /\ t \in Types /\ Introspected(t) /\ Kind[t] = "root" /\ at[th].w = None /\ at[th].bases = None
      /\ at[th].goal # None => Kind[at[th].goal] = "hidden"
    BY <1>0, <1>1 DEF IInvAlive, ThreadsOK, AtOK, Finding, Carrying
<1>4. b # None /\ b \in Made(t) /\ b \in ClassId
    BY <1>0, <1>3, Known DEF RegistryInv, IInvOne, InOrder
<1>5. /\ p \in Place /\ at' = [at EXCEPT ![th] = p] /\ at'[th] = p /\ \A o \in Thread : o # th => at'[o] = at[o]
      /\ p.pc = "lock" /\ p.t = t /\ p.w = None /\ p.by = at[th].by /\ p.goal = at[th].goal /\ p.bases = b
    BY <1>1, <1>2, <1>3, <1>4 DEF Place, PC
<1>6. refs' \in [ClassId -> Int] /\ \A d \in ClassId : refs'[d] = refs[d] + Is(b, d)
    BY <1>1, <1>2, <1>4, Incref
<1> HIDE DEF p
<1>7. RegistryTypes'
    BY <1>0, <1>1, <1>5, <1>6 DEF IInvAlive, RegistryTypes
<1>8. \A u \in Types : Made(u)' = Made(u)
    BY <1>1, MadeKept
<1>9. RefersToMade'
    BY <1>0, <1>1, <1>8, RefersStep DEF IInvAlive, RefersToMade
<1>10. AtOK(th)'
    BY <1>3, <1>4, <1>5, <1>8 DEF AtOK, Finding, Carrying
<1>11. ThreadsOK'
    BY <1>0, <1>1, <1>2, <1>5, <1>8, <1>10, ThreadMoves DEF IInvAlive
<1>12. EnumKept'
    BY <1>0, <1>1, <1>3, <1>5, EnumKeptStep DEF IInvAlive
<1>13. ASSUME NEW d \in ClassId PROVE References(d)' <= refs'[d] /\ (d \in gone' => References(d)' = 0)
    <2>1. /\ NamedBy(d)' = NamedBy(d) /\ DictBy(d)' = DictBy(d) /\ OverBy(d)' = OverBy(d) /\ HeldBy(d)' = HeldBy(d)
        BY <1>1 DEF NamedBy, DictBy, OverBy, HeldBy
    <2>2. ParentsBy(d)' = ParentsBy(d)
        BY <1>1, SameParents
    <2>3. CarriedBy(d)' = CarriedBy(d) /\ BasesBy(d)' = BasesBy(d) + Is(b, d)
        <3>1. Is(None, d) = 0
            BY ClassIds DEF Is
        <3>2. /\ CarriedBy(d)' = CarriedBy(d) - Is(None, d) + Is(None, d)
              /\ BasesBy(d)' = BasesBy(d) - Is(None, d) + Is(b, d)
            BY <1>2, <1>3, <1>5, ThreadCounts
        <3> QED BY <3>1, <3>2, <1>0, Terms DEF Is
    <2>4. refs'[d] = refs[d] + Is(b, d)
        BY <1>6
    <2>5. References(d)' <= refs'[d]
        BY <2>1, <2>2, <2>3, <2>4, <1>0, Terms DEF References, Is
    <2>6. ASSUME d \in gone PROVE References(d)' = 0
        <3>1. Is(b, d) = 0
            BY <2>6, <1>0, <1>3, NotGone DEF Is
        <3> QED BY <3>1, <2>1, <2>2, <2>3, <2>6, <1>0, Terms DEF References
    <2> QED BY <2>5, <2>6, <1>1
<1> QED BY <1>7, <1>9, <1>11, <1>12, <1>13, AliveStep

\* IntrospectionModule.__getattr__ finds the class of an enumeration in the GType.
LEMMA FoundAlive ==
    ASSUME RegistryInv, uses' = uses, NEW th \in Thread, NEW t \in Types, t = at[th].t, NEW c \in Made(t), c \notin gone,
           at[th].pc = "locked", at' = [at EXCEPT ![th].pc = "name", ![th].w = c], refs' = Plus(refs, c, 1),
           UNCHANGED <<made, gone, base, mro, named, dict, over, loading, lock, held, handed, overlap>>
    PROVE IInvAlive'
<1> DEFINE p == [at[th] EXCEPT !.pc = "name", !.w = c]
<1>0. IInvAlive
    BY DEF RegistryInv
<1>2. at[th] \in Place /\ at \in [Thread -> Place] /\ refs \in [ClassId -> Int] /\ c \in ClassId
    BY <1>0, Known
<1>3. /\ Introspected(t) /\ at[th].w = None /\ lock = th
      /\ at[th].goal # None => Kind[at[th].goal] = "hidden"
      /\ IF Kind[t] = "root" THEN at[th].bases \in Made(t) ELSE at[th].bases = None
    BY <1>0 DEF IInvAlive, ThreadsOK, LockHeld, AtOK, Finding, Carrying
<1>5. /\ p \in Place /\ at' = [at EXCEPT ![th] = p] /\ at'[th] = p /\ \A o \in Thread : o # th => at'[o] = at[o]
      /\ p.pc = "name" /\ p.t = t /\ p.w = c /\ p.by = at[th].by /\ p.goal = at[th].goal /\ p.bases = at[th].bases
    BY <1>2, <1>3 DEF Place, PC
<1>6. refs' \in [ClassId -> Int] /\ \A d \in ClassId : refs'[d] = refs[d] + Is(c, d)
    BY <1>2, Incref
<1> HIDE DEF p
<1>7. RegistryTypes'
    BY <1>0, <1>5, <1>6 DEF IInvAlive, RegistryTypes
<1>8. \A u \in Types : Made(u)' = Made(u)
    BY MadeKept
<1>9. RefersToMade'
    BY <1>0, <1>8, RefersStep DEF IInvAlive, RefersToMade
<1>10. AtOK(th)'
    BY <1>3, <1>5, <1>8 DEF AtOK, Finding, Carrying
<1>11. ThreadsOK'
    BY <1>0, <1>2, <1>3, <1>5, <1>8, <1>10, ThreadMoves DEF IInvAlive
<1>12. EnumKept'
    BY <1>0, <1>3, <1>5, EnumKeptStep DEF IInvAlive
<1>13. ASSUME NEW d \in ClassId PROVE References(d)' <= refs'[d] /\ (d \in gone' => References(d)' = 0)
    <2>1. /\ NamedBy(d)' = NamedBy(d) /\ DictBy(d)' = DictBy(d) /\ OverBy(d)' = OverBy(d) /\ HeldBy(d)' = HeldBy(d)
        BY DEF NamedBy, DictBy, OverBy, HeldBy
    <2>2. ParentsBy(d)' = ParentsBy(d)
        BY SameParents
    <2>3. CarriedBy(d)' = CarriedBy(d) + Is(c, d) /\ BasesBy(d)' = BasesBy(d)
        <3>1. Is(None, d) = 0
            BY ClassIds DEF Is
        <3>2. /\ CarriedBy(d)' = CarriedBy(d) - Is(None, d) + Is(c, d)
              /\ BasesBy(d)' = BasesBy(d) - Is(at[th].bases, d) + Is(at[th].bases, d)
            BY <1>2, <1>3, <1>5, ThreadCounts
        <3> QED BY <3>1, <3>2, <1>0, Terms DEF Is
    <2>4. refs'[d] = refs[d] + Is(c, d)
        BY <1>6
    <2>5. References(d)' <= refs'[d]
        BY <2>1, <2>2, <2>3, <2>4, <1>0, Terms DEF References, Is
    <2>6. ASSUME d \in gone PROVE References(d)' = 0
        <3>1. Is(c, d) = 0
            BY <2>6 DEF Is
        <3> QED BY <3>1, <2>1, <2>2, <2>3, <2>6, <1>0, Terms DEF References
    <2> QED BY <2>5, <2>6
<1> QED BY <1>7, <1>9, <1>11, <1>12, <1>13, AliveStep

\* IntrospectionModule.__getattr__ ends: the class is an attribute from now on.
LEMMA ReturnAlive ==
    ASSUME RegistryInv, uses' = uses, NEW th \in Thread, NEW t \in Types, t = at[th].t, NEW c \in Made(t), c \notin gone,
           at[th].pc \in {"locked", "cache"}, at[th].w \in {c, None}, NEW rs \in [ClassId -> Int],
           \A d \in ClassId : rs[d] = refs[d] - Is(dict[t], d) + Is(c, d) + Is(c, d) - Is(at[th].w, d),
           Return(th, t, c, rs), dict' = [dict EXCEPT ![t] = c],
           lock' = IF at[th].pc = "locked" THEN None ELSE lock,
           UNCHANGED <<made, gone, base, mro, named, over, loading, overlap>>
    PROVE IInvAlive'
<1> DEFINE p == IF at[th].by # "python" /\ at[th].goal # None
                THEN [Idle EXCEPT !.pc = "new", !.t = at[th].goal] ELSE Idle
           b == at[th].bases
           w == at[th].w
<1>0. IInvAlive
    BY DEF RegistryInv
<1>2. at[th] \in Place /\ at \in [Thread -> Place] /\ refs \in [ClassId -> Int] /\ c \in ClassId /\ c[1] = t
    BY <1>0, Known
<1>3. /\ at[th].goal # None => Kind[at[th].goal] = "hidden"
      /\ at[th].pc = "locked" <=> at[th].pc \in {"locked", "make", "name"}
    BY <1>0 DEF IInvAlive, ThreadsOK, LockHeld, AtOK, Finding, Carrying
<1>4. /\ refs' \in [ClassId -> Int]
      /\ \A d \in ClassId :
             /\ HeldBy(d) \in Nat /\ HeldBy(d)' \in Nat
             /\ HeldBy(d) <= HeldBy(d)' /\ HeldBy(d)' <= HeldBy(d) + Is(c, d)
             /\ rs[d] + HeldBy(d)' <= refs'[d] + HeldBy(d) + Is(b, d) + Is(c, d)
      /\ held \subseteq held' /\ held' \subseteq held \cup {c}
      /\ handed' \in [Types -> SUBSET ClassId]
      /\ \A u \in Types : handed'[u] \subseteq handed[u] \cup (IF u = t THEN {c} ELSE {})
      /\ at' = [at EXCEPT ![th] = p]
    BY <1>0, <1>2, ReturnCounts
<1>5. /\ p \in Place /\ at'[th] = p /\ \A o \in Thread : o # th => at'[o] = at[o]
      /\ p.pc \in {"idle", "new"} /\ p.w = None /\ p.bases = None /\ p.goal = None
      /\ p.pc = "idle" => p.t = None
      /\ p.pc = "new" => p.t \in Types /\ Kind[p.t] = "hidden"
    <2>1. at[th].goal \in Types \cup {None}
        BY <1>2 DEF Place
    <2> QED BY <1>2, <1>3, <1>4, <2>1 DEF Place, PC, Idle
<1> HIDE DEF p
<1>7. RegistryTypes'
    BY <1>0, <1>2, <1>4, <1>5, ClassIds DEF IInvAlive, RegistryTypes
<1>8. \A u \in Types : Made(u)' = Made(u)
    BY MadeKept
<1>9. RefersToMade'
    <2>1. \A u \in Types : dict'[u] \in {dict[u], None} \cup Made(u)'
        BY <1>0, <1>8, Known
    <2>2. \A x \in held' \cup gone' : x \in held \cup gone \/ (x \in ClassId /\ x \in Made(x[1])')
        BY <1>2, <1>4, <1>8
    <2> QED BY <1>0, <1>4, <1>8, <2>1, <2>2, RefersStep
<1>10. AtOK(th)'
    BY <1>5 DEF AtOK, Finding, Carrying
<1>11. ThreadsOK'
    BY <1>0, <1>2, <1>3, <1>4, <1>5, <1>8, <1>10, ThreadMoves DEF IInvAlive
<1>12. EnumKept'
    <2>1. ASSUME NEW u \in Types, named[u] # None, Kind[u] = "enum"
          PROVE dict'[u] = named[u] \/ over[u] = named[u] \/ \E o \in Thread : at'[o].w = named[u]
        <3>1. CASE u = t
            <4>1. c = <<t, 1>> /\ named[t] = <<t, 1>>
                BY <1>0, <2>1, <3>1, Known, EnumOnly
            <4> QED BY <1>0, <3>1, <4>1, Known
        <3>2. CASE u # t
            <4>1. named[u] # w
                BY <1>0, <1>2, <2>1, <3>2, Known
            <4> QED BY <1>0, <1>2, <1>5, <2>1, <3>2, <4>1 DEF IInvAlive, EnumKept
        <3> QED BY <3>1, <3>2
    <2> QED BY <1>0, <1>4, <2>1 DEF IInvAlive, EnumKept
<1>13. ASSUME NEW d \in ClassId PROVE References(d)' <= refs'[d] /\ (d \in gone' => References(d)' = 0)
    <2>1. /\ NamedBy(d)' = NamedBy(d) /\ OverBy(d)' = OverBy(d)
        BY DEF NamedBy, OverBy
    <2>2. ParentsBy(d)' = ParentsBy(d)
        BY SameParents
    <2>3. CarriedBy(d)' = CarriedBy(d) - Is(w, d) /\ BasesBy(d)' = BasesBy(d) - Is(b, d)
        <3>1. Is(None, d) = 0
            BY ClassIds DEF Is
        <3>2. /\ CarriedBy(d)' = CarriedBy(d) - Is(w, d) + Is(None, d)
              /\ BasesBy(d)' = BasesBy(d) - Is(b, d) + Is(None, d)
            BY <1>2, <1>3, <1>4, <1>5, ThreadCounts
        <3> QED BY <3>1, <3>2, <1>0, Terms DEF Is
    <2>4. DictBy(d)' = DictBy(d) - Is(dict[t], d) + Is(c, d)
        BY <1>0, <1>2, Known, BoundCounts DEF DictBy
    <2>5. /\ rs[d] = refs[d] - Is(dict[t], d) + Is(c, d) + Is(c, d) - Is(w, d)
          /\ HeldBy(d) \in Nat /\ HeldBy(d)' \in Nat /\ HeldBy(d)' <= HeldBy(d) + Is(c, d)
          /\ rs[d] + HeldBy(d)' <= refs'[d] + HeldBy(d) + Is(b, d) + Is(c, d)
          /\ refs'[d] \in Int /\ refs[d] \in Int
        BY <1>2, <1>4
    <2>7. Is(w, d) \in Nat /\ Is(b, d) \in Nat /\ Is(c, d) \in Nat /\ Is(dict[t], d) \in Nat
        BY DEF Is
    <2>8. References(d)' <= refs'[d]
        <3>1. /\ NamedBy(d) \in Nat /\ DictBy(d) \in Nat /\ OverBy(d) \in Nat
              /\ CarriedBy(d) \in Nat /\ BasesBy(d) \in Nat /\ ParentsBy(d) \in Nat
              /\ NamedBy(d) + DictBy(d) + OverBy(d) + HeldBy(d) + CarriedBy(d) + BasesBy(d) + ParentsBy(d) <= refs[d]
            BY <1>0, Terms
        <3>2. NamedBy(d) + (DictBy(d) - Is(dict[t], d) + Is(c, d)) + OverBy(d) + HeldBy(d)' + (CarriedBy(d) - Is(w, d))
                 + (BasesBy(d) - Is(b, d)) + ParentsBy(d) <= refs'[d]
            BY <3>1, <2>5, <2>7, ReturnSum
        <3> QED BY <3>2, <2>1, <2>2, <2>3, <2>4 DEF References
    <2>9. ASSUME d \in gone PROVE References(d)' = 0
        <3>1. Is(c, d) = 0 /\ Is(w, d) = 0 /\ Is(dict[t], d) = 0 /\ Is(b, d) = 0
            BY <2>9, <1>0, NotGone DEF Is
        <3> QED BY <3>1, <2>1, <2>2, <2>3, <2>4, <2>5, <2>9, <1>0, Terms DEF References
    <2> QED BY <2>8, <2>9
<1> QED BY <1>7, <1>9, <1>11, <1>12, <1>13, AliveStep

\* A class is made, deriving from b.
LEMMA CreateFacts ==
    ASSUME IInvAlive, NEW t \in Types, NEW b, Create(t, b)
    PROVE /\ made' \in [Types -> 0 .. MaxClasses] /\ made' = [made EXCEPT ![t] = @ + 1]
          /\ Fresh(t) \in ClassId /\ Fresh(t) # None /\ Fresh(t)[1] = t /\ Fresh(t)[2] # 0
          /\ Fresh(t) \in Made(t)' /\ Fresh(t) \notin gone /\ Fresh(t) \notin Made(t)
          /\ \A u \in Types : Made(u) \subseteq Made(u)'
          /\ base' = [base EXCEPT ![Fresh(t)] = b]
          /\ mro' = [mro EXCEPT ![Fresh(t)] = {Fresh(t)} \cup (IF b = None THEN {} ELSE mro[b])]
<1>1. /\ made[t] < MaxClasses /\ made' = [made EXCEPT ![t] = @ + 1]
      /\ base' = [base EXCEPT ![Fresh(t)] = b]
      /\ mro' = [mro EXCEPT ![Fresh(t)] = {Fresh(t)} \cup (IF b = None THEN {} ELSE mro[b])]
    BY DEF Create
<1>2. made \in [Types -> 0 .. MaxClasses]
    BY Known
<1>3. /\ made' \in [Types -> 0 .. MaxClasses]
      /\ Fresh(t) \in ClassId /\ Fresh(t)[1] = t /\ Fresh(t)[2] = made[t] + 1
      /\ Fresh(t) \in Made(t)' /\ Fresh(t) \notin Made(t) /\ \A u \in Types : Made(u) \subseteq Made(u)'
    BY <1>1, <1>2, MadeGrows
<1>4. Fresh(t) \notin gone
    BY <1>3 DEF IInvAlive, RefersToMade
<1>5. Fresh(t) # None
    BY <1>3, ClassIds
<1>6. Fresh(t)[2] # 0
    BY <1>2, <1>3, KindOfTypes
<1> QED BY <1>1, <1>3, <1>4, <1>5, <1>6

\* What the invariant says of the bases and orders of classes stays well formed.
LEMMA CreateTypes ==
    ASSUME IInvAlive, NEW t \in Types, NEW b \in Made(t) \cup {None}, Create(t, b)
    PROVE /\ base' \in [ClassId -> ClassId \cup {None}] /\ mro' \in [ClassId -> SUBSET ClassId]
          /\ \A c \in ClassId : base'[c] \in {base[c], None} \cup Made(c[1])'
          /\ \A d \in ClassId : gone' = gone =>
                 ParentsBy(d)' \in Nat /\ ParentsBy(d)' <= ParentsBy(d) + Is(b, d)
<1>1. /\ Fresh(t) \in ClassId /\ Fresh(t)[1] = t /\ Fresh(t) \notin gone
      /\ Made(t) \subseteq Made(t)'
      /\ base' = [base EXCEPT ![Fresh(t)] = b]
      /\ mro' = [mro EXCEPT ![Fresh(t)] = {Fresh(t)} \cup (IF b = None THEN {} ELSE mro[b])]
    BY CreateFacts
<1>2. /\ base \in [ClassId -> ClassId \cup {None}] /\ mro \in [ClassId -> SUBSET ClassId]
      /\ b \in ClassId \cup {None}
    BY Known DEF IInvAlive, RegistryTypes
<1>3. mro' \in [ClassId -> SUBSET ClassId]
    <2>1. {Fresh(t)} \cup (IF b = None THEN {} ELSE mro[b]) \in SUBSET ClassId
        BY <1>1, <1>2
    <2> QED BY <1>1, <1>2, <2>1
<1>4. base' \in [ClassId -> ClassId \cup {None}]
    BY <1>1, <1>2
<1>5. \A c \in ClassId : base'[c] \in {base[c], None} \cup Made(c[1])'
    BY <1>1, <1>2
<1>6. ASSUME NEW d \in ClassId, gone' = gone
      PROVE ParentsBy(d)' \in Nat /\ ParentsBy(d)' <= ParentsBy(d) + Is(b, d)
    <2>1. PICK x : x = Fresh(t)
        OBVIOUS
    <2>2. x \in ClassId /\ x \notin gone /\ base' = [base EXCEPT ![x] = b]
        BY <1>1, <2>1
    <2>3. \A c \in ClassId : c # x => ParentOf(c)' = ParentOf(c)
        BY <1>2, <1>6, <2>2 DEF ParentOf
    <2>4. ParentOf(x)' = b
        BY <1>2, <1>6, <2>2 DEF ParentOf
    <2>5. /\ ParentsBy(d)' \in Nat /\ ParentsBy(d) \in Nat
          /\ ParentsBy(d)' = ParentsBy(d) - Is(ParentOf(x), d) + Is(ParentOf(x)', d)
        BY <2>2, <2>3, ParentCounts
    <2> QED BY <2>4, <2>5 DEF Is
<1> QED BY <1>3, <1>4, <1>5, <1>6

\* type(name, bases, dict) under the lock, or in pygobject_new_with_interfaces:
\* the thread carries the class.
LEMMA MakeAlive ==
    ASSUME RegistryInv, uses' = uses, NEW th \in Thread, NEW t \in Types, t = at[th].t, NEW b \in Made(t) \cup {None},
           at[th].w = None, DeriveClass(th, b, 1), NEW pc \in {"name", "stash"},
           IF pc = "name" THEN at[th].pc = "make" /\ b = at[th].bases ELSE at[th].pc = "new" /\ b = None,
           at' = [at EXCEPT ![th].w = Fresh(t), ![th].pc = pc],
           named' = IF Kind[t] = "enum" THEN [named EXCEPT ![t] = Fresh(t)] ELSE named,
           UNCHANGED <<gone, dict, over, loading, lock, held, handed>>
    PROVE IInvAlive'
<1> DEFINE x == Fresh(t)
           p == [at[th] EXCEPT !.w = x, !.pc = pc]
<1>0. IInvAlive
    BY DEF RegistryInv
<1>1. /\ Create(t, b) /\ refs' = Plus(Plus(refs, x, 1), b, 1) /\ overlap' = overlap
    BY DEF DeriveClass
<1>2. /\ at[th] \in Place /\ at \in [Thread -> Place] /\ refs \in [ClassId -> Int]
      /\ b \in ClassId \cup {None} /\ named \in [Types -> ClassId \cup {None}] /\ at[th].w = None
    BY <1>0, Known
<1>3. /\ made' \in [Types -> 0 .. MaxClasses]
      /\ x \in ClassId /\ x # None /\ x[1] = t /\ x \in Made(t)' /\ x \notin gone
      /\ \A u \in Types : Made(u) \subseteq Made(u)'
    BY <1>0, <1>1, CreateFacts
<1>4. /\ base' \in [ClassId -> ClassId \cup {None}] /\ mro' \in [ClassId -> SUBSET ClassId]
      /\ \A c \in ClassId : base'[c] \in {base[c], None} \cup Made(c[1])'
      /\ \A d \in ClassId : ParentsBy(d)' \in Nat /\ ParentsBy(d)' <= ParentsBy(d) + Is(b, d)
    BY <1>0, <1>1, CreateTypes
<1>5. /\ p \in Place /\ at' = [at EXCEPT ![th] = p] /\ at'[th] = p /\ \A o \in Thread : o # th => at'[o] = at[o]
      /\ p.pc = pc /\ p.t = t /\ p.w = x /\ p.by = at[th].by /\ p.goal = at[th].goal /\ p.bases = at[th].bases
    BY <1>2, <1>3 DEF Place, PC
<1>6. refs' \in [ClassId -> Int] /\ \A d \in ClassId : refs'[d] = refs[d] + Is(x, d) + Is(b, d)
    BY <1>1, <1>2, <1>3, Increfs
<1> HIDE DEF p, x
<1>7. RegistryTypes'
    <2>1. named' \in [Types -> ClassId \cup {None}]
        BY <1>2, <1>3 DEF x
    <2> QED BY <1>0, <1>1, <1>3, <1>4, <1>5, <1>6, <2>1 DEF IInvAlive, RegistryTypes
<1>9. RefersToMade'
    <2>1. \A u \in Types : named'[u] \in {named[u], None} \cup Made(u)'
        BY <1>2, <1>3 DEF x
    <2> QED BY <1>0, <1>3, <1>4, <2>1, RefersStep DEF IInvAlive, RefersToMade
<1>10. AtOK(th)'
    <2>1. /\ at[th].goal # None => pc = "name" /\ Kind[at[th].goal] = "hidden"
          /\ pc = "name" => Introspected(t)
          /\ pc = "stash" => Kind[t] = "hidden"
          /\ IF pc = "name" /\ Kind[t] = "root" THEN at[th].bases \in Made(t) ELSE at[th].bases = None
        BY <1>0 DEF IInvAlive, ThreadsOK, AtOK, Finding, Carrying
    <2> QED BY <1>3, <1>5, <2>1 DEF AtOK, Finding, Carrying
<1>11. ThreadsOK'
    <2>1. ThreadsOK
        BY <1>0 DEF IInvAlive
    <2>2. IF pc = "name" THEN lock = th ELSE at[th].pc = "new"
        BY <2>1 DEF ThreadsOK, LockHeld
    <2> QED BY <1>2, <1>3, <1>5, <1>10, <2>1, <2>2, ThreadMoves
<1>12. EnumKept'
    <2>1. EnumKept
        BY <1>0 DEF IInvAlive
    <2>2. ASSUME NEW u \in Types, named[u] # None, NEW o \in Thread, at[o].w = named[u]
          PROVE at'[o].w = named[u]
        BY <2>2, <1>5
    <2>3. ASSUME NEW u \in Types, named'[u] # named[u]
          PROVE Kind[u] = "enum" /\ at'[th].w = named'[u]
        BY <2>3, <1>2, <1>5 DEF x
    <2>4. ASSUME NEW u \in Types, named'[u] # None
          PROVE /\ Kind[u] = "enum" => \/ dict[u] = named'[u] \/ over[u] = named'[u]
                                      \/ \E o \in Thread : at'[o].w = named'[u]
                /\ Kind[u] = "mine" => named'[u] \in held
        <3>1. CASE named'[u] = named[u]
            <4>1. /\ Kind[u] = "enum" => \/ dict[u] = named[u] \/ over[u] = named[u]
                                         \/ \E o \in Thread : at[o].w = named[u]
                  /\ Kind[u] = "mine" => named[u] \in held
                BY <2>1, <2>4, <3>1 DEF EnumKept
            <4> QED BY <2>2, <2>4, <3>1, <4>1
        <3>2. CASE named'[u] # named[u]
            BY <2>3, <3>2
        <3> QED BY <3>1, <3>2
    <2> QED BY <2>4 DEF EnumKept
<1>13. ASSUME NEW d \in ClassId PROVE References(d)' <= refs'[d] /\ (d \in gone' => References(d)' = 0)
    <2>1. /\ DictBy(d)' = DictBy(d) /\ OverBy(d)' = OverBy(d) /\ HeldBy(d)' = HeldBy(d)
        BY DEF DictBy, OverBy, HeldBy
    <2>2. NamedBy(d)' = NamedBy(d)
        <3>1. CASE Kind[t] = "enum"
            BY <3>1, <1>2 DEF NamedBy, Strong
        <3>2. CASE Kind[t] # "enum"
            BY <3>2 DEF NamedBy
        <3> QED BY <3>1, <3>2
    <2>3. CarriedBy(d)' = CarriedBy(d) + Is(x, d) /\ BasesBy(d)' = BasesBy(d)
        <3>1. Is(None, d) = 0
            BY ClassIds DEF Is
        <3>2. /\ CarriedBy(d)' = CarriedBy(d) - Is(None, d) + Is(x, d)
              /\ BasesBy(d)' = BasesBy(d) - Is(at[th].bases, d) + Is(at[th].bases, d)
            <4>1. /\ CarriedBy(d)' = CarriedBy(d) - Is(at[th].w, d) + Is(at'[th].w, d)
                  /\ BasesBy(d)' = BasesBy(d) - Is(at[th].bases, d) + Is(at'[th].bases, d)
                <5>1. DOMAIN at' = Thread
                    BY <1>2, <1>5
                <5> QED BY <1>2, <1>5, <5>1, ThreadCounts
            <4>2. at[th].w = None /\ at'[th].w = x /\ at'[th].bases = at[th].bases
                BY <1>2, <1>5
            <4> QED BY <4>1, <4>2
        <3> QED BY <3>1, <3>2, <1>0, Terms DEF Is
    <2>4. /\ refs'[d] = refs[d] + Is(x, d) + Is(b, d)
          /\ ParentsBy(d)' \in Nat /\ ParentsBy(d)' <= ParentsBy(d) + Is(b, d)
        BY <1>4, <1>6
    <2>5. References(d)' <= refs'[d]
        BY <2>1, <2>2, <2>3, <2>4, <1>0, Terms DEF References, Is
    <2>6. ASSUME d \in gone PROVE References(d)' = 0
        <3>1. b \notin gone
            <4>1. CASE b = None
                BY <4>1, <1>0, NotGone
            <4>2. CASE b # None
                <5>1. b = at[th].bases
                    BY <4>2
                <5> QED BY <5>1, <1>0, NotGone
            <4> QED BY <4>1, <4>2
        <3>2. Is(x, d) = 0 /\ Is(b, d) = 0
            BY <2>6, <3>1, <1>3 DEF Is
        <3> QED BY <3>2, <2>1, <2>2, <2>3, <2>4, <2>6, <1>0, Terms DEF References
    <2> QED BY <2>5, <2>6
<1> QED BY <1>7, <1>9, <1>11, <1>12, <1>13, AliveStep

\* g_type.pytype = wrapper.
LEMMA NameAlive ==
    ASSUME RegistryInv, uses' = uses, NEW th \in Thread, Name(th)
    PROVE IInvAlive'
<1>0. IInvAlive
    BY DEF RegistryInv
<1>1. PICK t, c, n : t = at[th].t /\ c = at[th].w /\ n = IF HasGType(t) THEN named[t] ELSE c
    OBVIOUS
<1>2. /\ at[th].pc = "name" /\ lock' = None /\ at' = [at EXCEPT ![th].pc = "cache"]
      /\ IF HasGType(t) THEN named' = [named EXCEPT ![t] = c] /\ refs' = SetPytype(t, c, refs)
         ELSE UNCHANGED <<named, refs>>
      /\ UNCHANGED <<made, gone, base, mro, dict, over, loading, held, handed, overlap>>
    BY <1>1 DEF Name
<1>3. /\ at[th] \in Place /\ at \in [Thread -> Place] /\ refs \in [ClassId -> Int]
      /\ named \in [Types -> ClassId \cup {None}]
    BY <1>0, Known
<1>4. /\ t \in Types /\ Introspected(t) /\ c \in Made(t)
      /\ at[th].goal # None => Kind[at[th].goal] = "hidden"
      /\ IF Kind[t] = "root" THEN at[th].bases \in Made(t) ELSE at[th].bases = None
    BY <1>0, <1>1, <1>2 DEF IInvAlive, ThreadsOK, AtOK, Finding, Carrying
<1>5. c \in ClassId /\ c[1] = t /\ c # None /\ n \in ClassId \cup {None} /\ c \notin gone
    BY <1>0, <1>1, <1>3, <1>4, Known, NotGone, ClassIds
<1>6. PICK p : p = [at[th] EXCEPT !.pc = "cache"]
    OBVIOUS
<1>7. /\ p \in Place /\ at' = [at EXCEPT ![th] = p] /\ at'[th] = p /\ \A o \in Thread : o # th => at'[o] = at[o]
      /\ p.pc = "cache" /\ p.t = t /\ p.w = c /\ p.by = at[th].by /\ p.goal = at[th].goal /\ p.bases = at[th].bases
    BY <1>1, <1>2, <1>3, <1>6 DEF Place, PC
<1>8. refs' \in [ClassId -> Int] /\ \A d \in ClassId : refs'[d] = refs[d] - Is(n, d) + Is(c, d)
    <2>1. CASE HasGType(t)
        BY <2>1, <1>1, <1>2, <1>3, <1>5, Swapref DEF SetPytype
    <2>2. CASE ~HasGType(t)
        <3>1. refs' = refs /\ n = c
            BY <2>2, <1>1, <1>2
        <3>2. \A d \in ClassId : refs[d] \in Int
            BY <1>3
        <3> QED BY <3>1, <3>2, <1>3 DEF Is
    <2> QED BY <2>1, <2>2
<1>9. \A u \in Types : Made(u)' = Made(u)
    BY <1>2, MadeKept
<1>10. RegistryTypes'
    <2>1. named' \in [Types -> ClassId \cup {None}]
        BY <1>2, <1>3, <1>5
    <2> QED BY <1>0, <1>2, <1>7, <1>8, <2>1 DEF IInvAlive, RegistryTypes
<1>11. RefersToMade'
    <2>1. \A u \in Types : named'[u] \in {named[u], None} \cup Made(u)'
        BY <1>2, <1>3, <1>4, <1>9
    <2> QED BY <1>0, <1>2, <1>9, <2>1, RefersStep DEF IInvAlive, RefersToMade
<1>12. ThreadsOK'
    <2>1. AtOK(th)'
        BY <1>4, <1>7, <1>9 DEF AtOK, Finding, Carrying
    <2> QED BY <1>0, <1>2, <1>3, <1>7, <1>9, <2>1, ThreadMoves DEF IInvAlive
\* An enumeration was named by enum_add already.
<1>13. ASSUME Kind[t] = "enum" PROVE named[t] = c /\ n = c
    <2>1. made[t] = 1 /\ c = <<t, 1>>
        <3>1. c = <<t, 1>> /\ made[t] \in Nat
            BY <1>0, <1>4, <1>13, EnumOnly, Known
        <3>2. made[t] <= 1 /\ c[2] <= made[t]
            BY <1>4, <1>13 DEF RegistryInv, IInvOne, InOrder, OneEnum, Made
        <3> QED BY <3>1, <3>2
    <2>2. named[t] # None /\ named[t] \in Made(t)
        BY <2>1, <1>0, <1>4, <1>13, EnumOnly, Known
    <2>3. named[t] = <<t, 1>>
        BY <2>2, <1>4, <1>13, EnumOnly
    <2> QED BY <2>1, <2>3, <1>1
<1>14. EnumKept'
    <2>1. EnumKept
        BY <1>0 DEF IInvAlive
    <2>2. \A o \in Thread : at'[o].w = at[o].w
        BY <1>1, <1>7
    <2>3. ASSUME NEW u \in Types, named'[u] # None
          PROVE /\ Kind[u] = "enum" => \/ dict[u] = named'[u] \/ over[u] = named'[u]
                                      \/ \E o \in Thread : at'[o].w = named'[u]
                /\ Kind[u] = "mine" => named'[u] \in held
        <3>1. CASE Kind[u] \in {"enum", "mine"}
            <4>1. named'[u] = named[u]
                BY <3>1, <1>2, <1>3, <1>4, <1>13 DEF Introspected
            <4> QED BY <2>1, <2>2, <2>3, <4>1 DEF EnumKept
        <3>2. CASE Kind[u] \notin {"enum", "mine"}
            BY <3>2
        <3> QED BY <3>1, <3>2
    <2> QED BY <1>2, <2>3 DEF EnumKept
<1>15. ASSUME NEW d \in ClassId PROVE References(d)' <= refs'[d] /\ (d \in gone' => References(d)' = 0)
    <2>1. /\ DictBy(d)' = DictBy(d) /\ OverBy(d)' = OverBy(d) /\ HeldBy(d)' = HeldBy(d)
        BY <1>2 DEF DictBy, OverBy, HeldBy
    <2>2. NamedBy(d) \in Nat /\ NamedBy(d)' = NamedBy(d) - Is(n, d) + Is(c, d)
        <3>0. NamedBy(d) \in Nat
            BY <1>0, Terms
        <3>1. CASE HasGType(t) /\ Strong(t)
            <4>1. NamedBy(d)' = NamedBy(d) - (IF Strong(t) THEN Is(named[t], d) ELSE 0) + (IF Strong(t) THEN Is(c, d) ELSE 0)
                BY <3>1, <1>0, <1>2, <1>3, <1>4, <1>5, Known, NamedCounts
            <4> QED BY <3>0, <3>1, <4>1, <1>1
        <3>2. CASE ~HasGType(t)
            <4>1. NamedBy(d)' = NamedBy(d) /\ n = c
                BY <3>2, <1>1, <1>2 DEF NamedBy
            <4> QED BY <3>0, <4>1 DEF Is
        <3>3. CASE ~Strong(t)
            <4>1. Kind[t] = "enum"
                BY <3>3, <1>4 DEF Strong, Introspected
            <4>2. n = c /\ named' = named
                BY <4>1, <1>2, <1>3, <1>4, <1>13
            <4>3. NamedBy(d)' = NamedBy(d)
                BY <4>2 DEF NamedBy
            <4> QED BY <3>0, <4>2, <4>3 DEF Is
        <3> QED BY <3>0, <3>1, <3>2, <3>3
    <2>3. CarriedBy(d)' = CarriedBy(d) /\ BasesBy(d)' = BasesBy(d) /\ ParentsBy(d)' = ParentsBy(d)
        <3>1. DOMAIN at' = Thread /\ at'[th].w = at[th].w /\ at'[th].bases = at[th].bases
            BY <1>1, <1>3, <1>7
        <3>2. /\ CarriedBy(d)' = CarriedBy(d) - Is(at[th].w, d) + Is(at'[th].w, d)
              /\ BasesBy(d)' = BasesBy(d) - Is(at[th].bases, d) + Is(at'[th].bases, d)
            BY <1>3, <1>7, <3>1, ThreadCounts
        <3> QED BY <3>1, <3>2, <1>0, <1>2, Terms, SameParents DEF Is
    <2>4. refs'[d] = refs[d] - Is(n, d) + Is(c, d) /\ Is(n, d) \in Nat /\ Is(c, d) \in Nat
        BY <1>8 DEF Is
    <2>5. References(d)' <= refs'[d]
        <3>1. /\ DictBy(d) \in Nat /\ OverBy(d) \in Nat /\ HeldBy(d) \in Nat
              /\ CarriedBy(d) \in Nat /\ BasesBy(d) \in Nat /\ ParentsBy(d) \in Nat /\ refs[d] \in Int
              /\ NamedBy(d) + DictBy(d) + OverBy(d) + HeldBy(d) + CarriedBy(d) + BasesBy(d) + ParentsBy(d) <= refs[d]
            BY <1>0, Terms
        <3> QED BY <3>1, <2>1, <2>2, <2>3, <2>4 DEF References
    <2>6. ASSUME d \in gone PROVE References(d)' = 0
        <3>1. Is(c, d) = 0 /\ Is(n, d) = 0
            BY <2>6, <1>0, <1>1, <1>4, <1>5, NotGone DEF Is
        <3> QED BY <3>1, <2>1, <2>2, <2>3, <2>6, <1>0, Terms DEF References
    <2> QED BY <1>2, <2>5, <2>6
<1> QED BY <1>10, <1>11, <1>12, <1>14, <1>15, AliveStep

\* pygobject_new_with_interfaces: the GType names the class that the thread carries.
LEMMA StashAlive ==
    ASSUME RegistryInv, uses' = uses, NEW th \in Thread, Stash(th)
    PROVE IInvAlive'
<1>0. IInvAlive
    BY DEF RegistryInv
<1>1. PICK t, c, rs : t = at[th].t /\ c = at[th].w /\ rs = Plus(refs, c, 1)
    OBVIOUS
<1>2. /\ at[th].pc = "stash" /\ at' = [at EXCEPT ![th] = Idle]
      /\ named' = [named EXCEPT ![t] = c] /\ Given(t, c, rs)
      /\ UNCHANGED <<made, gone, base, mro, dict, over, loading, lock, overlap>>
    BY <1>1 DEF Stash
<1>3. /\ at[th] \in Place /\ at \in [Thread -> Place] /\ refs \in [ClassId -> Int]
      /\ named \in [Types -> ClassId \cup {None}]
    BY <1>0, Known
<1>4. t \in Types /\ Kind[t] = "hidden" /\ c \in Made(t) /\ at[th].bases = None /\ Strong(t)
    BY <1>0, <1>1, <1>2 DEF IInvAlive, ThreadsOK, AtOK, Finding, Carrying, Strong
<1>5. c \in ClassId /\ c[1] = t /\ c # None /\ c \notin gone
    BY <1>0, <1>1, <1>4, Known, NotGone, ClassIds
<1>6. rs \in [ClassId -> Int] /\ \A d \in ClassId : rs[d] = refs[d] + Is(c, d)
    BY <1>1, <1>3, <1>5, Incref
<1>7. /\ at' = [at EXCEPT ![th] = Idle] /\ at'[th] = Idle /\ \A o \in Thread : o # th => at'[o] = at[o]
      /\ Idle \in Place /\ Idle.pc = "idle" /\ Idle.t = None /\ Idle.w = None /\ Idle.goal = None /\ Idle.bases = None
    BY <1>2, <1>3 DEF Place, PC, Idle
<1>8. /\ refs' \in [ClassId -> Int]
      /\ \A d \in ClassId : /\ HeldBy(d) \in Nat /\ HeldBy(d)' \in Nat
                            /\ HeldBy(d) <= HeldBy(d)' /\ HeldBy(d)' <= HeldBy(d) + Is(c, d)
                            /\ refs'[d] = rs[d] + HeldBy(d)' - HeldBy(d)
      /\ held' = held \cup {c}
      /\ handed' \in [Types -> SUBSET ClassId]
      /\ \A u \in Types : handed'[u] \subseteq handed[u] \cup (IF u = t THEN {c} ELSE {})
    BY <1>0, <1>2, <1>4, <1>5, <1>6, Known, GivenCounts DEF IInvAlive, RegistryTypes
<1>9. \A u \in Types : Made(u)' = Made(u)
    BY <1>2, MadeKept
<1>10. RegistryTypes'
    <2>1. named' \in [Types -> ClassId \cup {None}] /\ at' \in [Thread -> Place] /\ held' \subseteq ClassId
        <3>1. held' \subseteq ClassId
            BY <1>0, <1>5, <1>8, Known
        <3>2. at' \in [Thread -> Place]
            BY <1>3, <1>7
        <3>3. named' \in [Types -> ClassId \cup {None}]
            BY <1>2, <1>3, <1>5
        <3> QED BY <3>1, <3>2, <3>3
    <2> QED BY <1>0, <1>2, <1>8, <2>1 DEF IInvAlive, RegistryTypes
<1>11. RefersToMade'
    <2>1. \A u \in Types : named'[u] \in {named[u], None} \cup Made(u)'
        BY <1>2, <1>3, <1>4, <1>9
    <2>2. \A x \in held' \cup gone' : x \in held \cup gone \/ (x \in ClassId /\ x \in Made(x[1])')
        BY <1>2, <1>4, <1>5, <1>8, <1>9
    <2> QED BY <1>0, <1>2, <1>4, <1>8, <1>9, <2>1, <2>2, RefersStep
<1>12. ThreadsOK'
    <2>1. AtOK(th)'
        BY <1>7 DEF AtOK, Finding, Carrying
    <2> QED BY <1>0, <1>2, <1>3, <1>7, <1>9, <2>1, ThreadMoves DEF IInvAlive
<1>14. EnumKept'
    <2>1. EnumKept
        BY <1>0 DEF IInvAlive
    <2>3. ASSUME NEW u \in Types, named'[u] # None
          PROVE /\ Kind[u] = "enum" => \/ dict[u] = named'[u] \/ over[u] = named'[u]
                                      \/ \E o \in Thread : at'[o].w = named'[u]
                /\ Kind[u] = "mine" => named'[u] \in held'
        <3>1. CASE Kind[u] \in {"enum", "mine"}
            <4>1. named'[u] = named[u] /\ u # t
                BY <3>1, <1>2, <1>3, <1>4
            <4>2. \A o \in Thread : at[o].w = named[u] => o # th
                BY <1>0, <1>1, <1>5, <2>3, <4>1, Known
            <4> QED BY <2>1, <2>3, <4>1, <4>2, <1>7, <1>8 DEF EnumKept
        <3>2. CASE Kind[u] \notin {"enum", "mine"}
            BY <3>2
        <3> QED BY <3>1, <3>2
    <2> QED BY <1>2, <2>3 DEF EnumKept
<1>15. ASSUME NEW d \in ClassId PROVE References(d)' <= refs'[d] /\ (d \in gone' => References(d)' = 0)
    <2>1. /\ DictBy(d)' = DictBy(d) /\ OverBy(d)' = OverBy(d) /\ ParentsBy(d)' = ParentsBy(d)
        BY <1>2, SameParents DEF DictBy, OverBy
    <2>2. NamedBy(d)' = NamedBy(d) - Is(named[t], d) + Is(c, d)
        <3>1. NamedBy(d)' = NamedBy(d) - (IF Strong(t) THEN Is(named[t], d) ELSE 0) + (IF Strong(t) THEN Is(c, d) ELSE 0)
            <4>1. \A u \in Types : named[u] # None => named[u][1] = u
                BY <1>0, Known
            <4> QED BY <1>2, <1>3, <1>4, <1>5, <4>1, NamedCounts
        <3> QED BY <3>1, <1>4
    <2>3. CarriedBy(d)' = CarriedBy(d) - Is(c, d) /\ BasesBy(d)' = BasesBy(d)
        <3>0. Is(None, d) = 0 /\ Is(c, d) \in Nat
            BY ClassIds DEF Is
        <3>1. DOMAIN at' = Thread /\ at'[th].w = None /\ at[th].w = c /\ at'[th].bases = None /\ at[th].bases = None
            BY <1>1, <1>3, <1>4, <1>7
        <3>2. /\ CarriedBy(d)' = CarriedBy(d) - Is(c, d) + Is(None, d)
              /\ BasesBy(d)' = BasesBy(d) - Is(None, d) + Is(None, d)
            BY <1>3, <1>7, <3>1, ThreadCounts
        <3> QED BY <3>0, <3>2, <1>0, Terms
    <2>4. /\ rs[d] = refs[d] + Is(c, d) /\ refs'[d] = rs[d] + HeldBy(d)' - HeldBy(d)
          /\ HeldBy(d) \in Nat /\ HeldBy(d)' \in Nat /\ HeldBy(d)' <= HeldBy(d) + Is(c, d)
          /\ Is(named[t], d) \in Nat /\ Is(c, d) \in Nat
        BY <1>6, <1>8 DEF Is
    <2>5. References(d)' <= refs'[d]
        <3>1. /\ NamedBy(d) \in Nat /\ DictBy(d) \in Nat /\ OverBy(d) \in Nat
              /\ CarriedBy(d) \in Nat /\ BasesBy(d) \in Nat /\ ParentsBy(d) \in Nat /\ refs[d] \in Int
              /\ NamedBy(d) + DictBy(d) + OverBy(d) + HeldBy(d) + CarriedBy(d) + BasesBy(d) + ParentsBy(d) <= refs[d]
            BY <1>0, Terms
        <3> QED BY <3>1, <2>1, <2>2, <2>3, <2>4 DEF References
    <2>6. ASSUME d \in gone PROVE References(d)' = 0
        <3>1. Is(c, d) = 0 /\ Is(named[t], d) = 0
            BY <2>6, <1>0, <1>4, <1>5, NotGone DEF Is
        <3> QED BY <3>1, <2>1, <2>2, <2>3, <2>4, <2>6, <1>0, Terms DEF References
    <2> QED BY <1>2, <2>5, <2>6
<1> QED BY <1>10, <1>11, <1>12, <1>14, <1>15, AliveStep

\* The references of threads stay when they carry the same.
LEMMA SameCarried ==
    ASSUME \A o \in Thread : at'[o].w = at[o].w /\ at'[o].bases = at[o].bases
    PROVE \A d : CarriedBy(d)' = CarriedBy(d) /\ BasesBy(d)' = BasesBy(d)
<1>1. /\ [th \in Thread |-> at'[th].w] = [th \in Thread |-> at[th].w]
      /\ [th \in Thread |-> at'[th].bases] = [th \in Thread |-> at[th].bases]
    OBVIOUS
<1> QED BY <1>1 DEF CarriedBy, BasesBy, HowMany

\* A class that its GType names as soon as there is one, and the program is given.
LEMMA BirthAlive ==
    ASSUME RegistryInv, uses' = uses, NEW t \in Types, Create(t, None), Kind[t] # "enum",
           NEW rs, rs = IF Strong(t) THEN Plus(refs, Fresh(t), 1) ELSE refs,
           named' = [named EXCEPT ![t] = Fresh(t)], Given(t, Fresh(t), rs),
           at' \in [Thread -> Place], \A o \in Thread : at'[o].w = at[o].w /\ at'[o].bases = at[o].bases,
           ThreadsOK', UNCHANGED <<gone, dict, over, loading, lock, overlap>>
    PROVE IInvAlive'
<1>0. IInvAlive
    BY DEF RegistryInv
<1>1. PICK x : x = Fresh(t)
    OBVIOUS
<1>2. /\ made' \in [Types -> 0 .. MaxClasses]
      /\ x \in ClassId /\ x # None /\ x[1] = t /\ x \in Made(t)' /\ x \notin gone
      /\ \A u \in Types : Made(u) \subseteq Made(u)'
    BY <1>0, <1>1, CreateFacts
<1>3. /\ base' \in [ClassId -> ClassId \cup {None}] /\ mro' \in [ClassId -> SUBSET ClassId]
      /\ \A c \in ClassId : base'[c] \in {base[c], None} \cup Made(c[1])'
      /\ \A d \in ClassId : ParentsBy(d)' \in Nat /\ ParentsBy(d)' <= ParentsBy(d) + Is(None, d)
    <2>1. None \in Made(t) \cup {None}
        OBVIOUS
    <2> QED BY <1>0, <2>1, CreateTypes
<1>4. refs \in [ClassId -> Int] /\ named \in [Types -> ClassId \cup {None}] /\ named' = [named EXCEPT ![t] = x]
    BY <1>0, <1>1, Known
<1>6. /\ rs \in [ClassId -> Int]
      /\ \A d \in ClassId : rs[d] = refs[d] + (IF Strong(t) THEN Is(x, d) ELSE 0)
    <2>1. CASE Strong(t)
        BY <2>1, <1>1, <1>2, <1>4, Incref
    <2>2. CASE ~Strong(t)
        BY <2>2, <1>4
    <2> QED BY <2>1, <2>2
<1>8. /\ refs' \in [ClassId -> Int]
      /\ \A d \in ClassId : /\ HeldBy(d) \in Nat /\ HeldBy(d)' \in Nat
                            /\ HeldBy(d) <= HeldBy(d)' /\ HeldBy(d)' <= HeldBy(d) + Is(x, d)
                            /\ refs'[d] = rs[d] + HeldBy(d)' - HeldBy(d)
      /\ held' = held \cup {x}
      /\ handed' \in [Types -> SUBSET ClassId]
      /\ \A u \in Types : handed'[u] \subseteq handed[u] \cup (IF u = t THEN {x} ELSE {})
    BY <1>0, <1>1, <1>2, <1>6, Known, GivenCounts DEF IInvAlive, RegistryTypes
<1>10. RegistryTypes'
    <2>1. named' \in [Types -> ClassId \cup {None}] /\ held' \subseteq ClassId
        BY <1>0, <1>2, <1>4, <1>8, Known
    <2> QED BY <1>0, <1>2, <1>3, <1>8, <2>1 DEF IInvAlive, RegistryTypes
<1>11. RefersToMade'
    <2>1. \A u \in Types : named'[u] \in {named[u], None} \cup Made(u)'
        BY <1>2, <1>4
    <2>2. \A y \in held' \cup gone' : y \in held \cup gone \/ (y \in ClassId /\ y \in Made(y[1])')
        BY <1>2, <1>8
    <2>3. \A u \in Types : handed'[u] \subseteq handed[u] \cup Made(u)'
        BY <1>2, <1>8
    <2> QED BY <1>0, <1>2, <1>3, <2>1, <2>2, <2>3, RefersStep
<1>14. EnumKept'
    <2>1. EnumKept
        BY <1>0 DEF IInvAlive
    <2>3. ASSUME NEW u \in Types, named'[u] # None
          PROVE /\ Kind[u] = "enum" => \/ dict[u] = named'[u] \/ over[u] = named'[u]
                                      \/ \E o \in Thread : at'[o].w = named'[u]
                /\ Kind[u] = "mine" => named'[u] \in held'
        <3>1. CASE u = t
            BY <3>1, <1>4, <1>8
        <3>2. CASE u # t
            <4>1. named'[u] = named[u]
                BY <3>2, <1>4
            <4> QED BY <2>1, <2>3, <4>1, <1>8 DEF EnumKept
        <3> QED BY <3>1, <3>2
    <2> QED BY <2>3 DEF EnumKept
<1>15. ASSUME NEW d \in ClassId PROVE References(d)' <= refs'[d] /\ (d \in gone' => References(d)' = 0)
    <2>1. /\ DictBy(d)' = DictBy(d) /\ OverBy(d)' = OverBy(d)
          /\ CarriedBy(d)' = CarriedBy(d) /\ BasesBy(d)' = BasesBy(d)
        BY SameCarried DEF DictBy, OverBy
    <2>2. NamedBy(d)' = NamedBy(d) - (IF Strong(t) THEN Is(named[t], d) ELSE 0) + (IF Strong(t) THEN Is(x, d) ELSE 0)
        <3>1. \A u \in Types : named[u] # None => named[u][1] = u
            BY <1>0, Known
        <3>2. x \in ClassId \cup {None} /\ (x # None => x[1] = t) /\ named' = [named EXCEPT ![t] = x]
            BY <1>2, <1>4
        <3>3. named \in [Types -> ClassId \cup {None}]
            BY <1>4
        <3>4. d[1] \in Types /\ d # None
            BY ClassIds
        <3>5. CASE d[1] = t
            BY <3>2, <3>3, <3>4, <3>5 DEF NamedBy, Is
        <3>6. CASE d[1] # t
            <4>1. named[t] # d /\ x # d
                BY <3>1, <3>2, <3>4, <3>6
            <4> QED BY <3>2, <3>3, <3>4, <3>6, <4>1 DEF NamedBy, Is
        <3> QED BY <3>5, <3>6
    <2>3. PICK i, j : i = (IF Strong(t) THEN Is(named[t], d) ELSE 0) /\ j = (IF Strong(t) THEN Is(x, d) ELSE 0)
        OBVIOUS
    <2>4. /\ rs[d] = refs[d] + j /\ refs'[d] = rs[d] + HeldBy(d)' - HeldBy(d)
          /\ HeldBy(d) \in Nat /\ HeldBy(d)' \in Nat /\ HeldBy(d)' <= HeldBy(d) + Is(x, d)
          /\ i \in Nat /\ j \in Nat /\ j <= Is(x, d) /\ Is(x, d) \in Nat /\ NamedBy(d)' = NamedBy(d) - i + j
        BY <1>6, <1>8, <2>2, <2>3 DEF Is
    <2>5. ParentsBy(d)' \in Nat /\ ParentsBy(d)' <= ParentsBy(d)
        <3>1. Is(None, d) = 0 /\ ParentsBy(d) \in Nat
            BY <1>0, Terms, ClassIds DEF Is
        <3> QED BY <3>1, <1>3
    <2>6. References(d)' <= refs'[d]
        <3>1. /\ NamedBy(d) \in Nat /\ DictBy(d) \in Nat /\ OverBy(d) \in Nat
              /\ CarriedBy(d) \in Nat /\ BasesBy(d) \in Nat /\ ParentsBy(d) \in Nat /\ refs[d] \in Int
              /\ NamedBy(d) + DictBy(d) + OverBy(d) + HeldBy(d) + CarriedBy(d) + BasesBy(d) + ParentsBy(d) <= refs[d]
            BY <1>0, Terms
        <3> QED BY <3>1, <2>1, <2>4, <2>5 DEF References
    <2>7. ASSUME d \in gone PROVE References(d)' = 0
        <3>1. Is(x, d) = 0
            BY <2>7, <1>2 DEF Is
        <3>2. i = 0 /\ j = 0
            BY <2>3, <2>7, <3>1, <1>0, NotGone DEF Is
        <3> QED BY <3>1, <3>2, <2>1, <2>4, <2>5, <2>7, <1>0, Terms DEF References
    <2> QED BY <2>6, <2>7
<1> QED BY <1>10, <1>11, <1>14, <1>15, AliveStep

\* pyg_enum_add.
LEMMA AddAlive ==
    ASSUME RegistryInv, uses' = uses, NEW th \in Thread, pyg_enum_add(th)
    PROVE IInvAlive'
<1>0. IInvAlive
    BY DEF RegistryInv
<1>1. PICK t : t = at[th].t
    OBVIOUS
<1>2. /\ at[th].pc = "add" /\ Create(t, None) /\ named' = [named EXCEPT ![t] = Fresh(t)]
      /\ Given(t, Fresh(t), Plus(refs, Fresh(t), 1)) /\ at' = [at EXCEPT ![th] = Idle]
      /\ UNCHANGED <<gone, dict, over, loading, lock, overlap>>
    BY <1>1 DEF pyg_enum_add
<1>3. t \in Types /\ Kind[t] = "anon" /\ Strong(t) /\ at[th].w = None /\ at[th].bases = None
    BY <1>0, <1>1, <1>2 DEF IInvAlive, ThreadsOK, AtOK, Finding, Carrying, Strong
<1>4. at \in [Thread -> Place] /\ \A u \in Types : Made(u) \subseteq Made(u)'
    BY <1>0, <1>2, <1>3, Known, CreateFacts
<1>5. /\ at' = [at EXCEPT ![th] = Idle] /\ at'[th] = Idle /\ \A o \in Thread : o # th => at'[o] = at[o]
      /\ Idle \in Place /\ Idle.pc = "idle" /\ Idle.t = None /\ Idle.w = None /\ Idle.goal = None /\ Idle.bases = None
    BY <1>2, <1>4 DEF Place, PC, Idle
<1>6. ThreadsOK'
    <2>1. AtOK(th)'
        BY <1>5 DEF AtOK, Finding, Carrying
    <2> QED BY <1>0, <1>2, <1>4, <1>5, <2>1, ThreadMoves DEF IInvAlive
<1>7. at' \in [Thread -> Place] /\ \A o \in Thread : at'[o].w = at[o].w /\ at'[o].bases = at[o].bases
    BY <1>3, <1>4, <1>5
<1> QED BY <1>2, <1>3, <1>6, <1>7, BirthAlive

\* A class or an enumeration of Python.
LEMMA DefineAlive ==
    ASSUME RegistryInv, uses' = uses, NEW t \in Types, NEW n \in {0, 1},
           IF n = 1 THEN Kind[t] = "sub" ELSE Kind[t] = "mine", Define(t, n)
    PROVE IInvAlive'
<1>0. IInvAlive
    BY DEF RegistryInv
<1>1. /\ Create(t, None) /\ named' = [named EXCEPT ![t] = Fresh(t)]
      /\ Given(t, Fresh(t), Plus(refs, Fresh(t), n))
      /\ UNCHANGED <<gone, dict, over, loading, lock, overlap, at>>
    BY DEF Define
<1>2. Fresh(t) \in ClassId /\ Fresh(t) # None /\ refs \in [ClassId -> Int] /\ \A u \in Types : Made(u) \subseteq Made(u)'
    BY <1>0, <1>1, Known, CreateFacts
<1>3. Plus(refs, Fresh(t), n) = IF Strong(t) THEN Plus(refs, Fresh(t), 1) ELSE refs
    <2>1. CASE n = 1
        BY <2>1 DEF Strong
    <2>2. CASE n = 0
        <3>1. refs[Fresh(t)] + 0 = refs[Fresh(t)]
            BY <1>2
        <3>2. Plus(refs, Fresh(t), 0) = refs
            BY <1>2, <3>1 DEF Plus
        <3> QED BY <2>2, <3>2 DEF Strong
    <2> QED BY <2>1, <2>2
<1>4. ThreadsOK' /\ at' \in [Thread -> Place]
    BY <1>0, <1>1, <1>2, Known, ThreadsStay DEF IInvAlive
<1> QED BY <1>1, <1>3, <1>4, BirthAlive

\* Numbers that sum up to 0 at most do so when one of them is less.
LEMMA NoneLeft ==
    ASSUME NEW a \in Nat, NEW b \in Nat, NEW c \in Nat, NEW e \in Nat, NEW f \in Nat, NEW g \in Nat,
           NEW h \in Nat, NEW h2 \in Nat, NEW i \in Nat, h2 = h - i, a + b + c + e + f + g + h <= 0
    PROVE a + b + c + e + f + g + h2 = 0
OBVIOUS

\* A deprecated attribute is moved out of the introspection module.
LEMMA DeprecatedAlive ==
    ASSUME RegistryInv, uses' = uses, NEW t \in Types, deprecated_attr(t)
    PROVE IInvAlive'
<1>0. IInvAlive
    BY DEF RegistryInv
<1>1. PICK b, v : b = dict[t] /\ v = Attr(t)
    OBVIOUS
<1>2. /\ b # None /\ over' = [over EXCEPT ![t] = v] /\ dict' = [dict EXCEPT ![t] = None]
      /\ refs' = Plus(refs, b, IF over[t] = None THEN 0 ELSE -1)
      /\ v = (IF over[t] # None THEN over[t] ELSE b)
      /\ UNCHANGED <<made, gone, base, mro, named, loading, lock, at, held, handed, overlap>>
    BY <1>1 DEF deprecated_attr, Attr
<1>3. /\ refs \in [ClassId -> Int] /\ over \in [Types -> ClassId \cup {None}] /\ dict \in [Types -> ClassId \cup {None}]
      /\ b \in ClassId /\ b[1] = t /\ v \in ClassId /\ v[1] = t /\ b \in Made(t) /\ v \in Made(t)
    BY <1>0, <1>1, <1>2, Known, ClassIds
<1>4. /\ refs' \in [ClassId -> Int]
      /\ \A d \in ClassId : refs'[d] = refs[d] + Is(v, d) - Is(over[t], d) - Is(b, d)
    <2>1. CASE over[t] = None
        <3>1. refs[b] + 0 = refs[b] /\ v = b
            BY <2>1, <1>2, <1>3
        <3>2. refs' = refs
            BY <1>2, <1>3, <2>1, <3>1 DEF Plus
        <3>3. ASSUME NEW d \in ClassId PROVE refs'[d] = refs[d] + Is(v, d) - Is(over[t], d) - Is(b, d)
            <4>1. Is(over[t], d) = 0 /\ Is(v, d) = Is(b, d) /\ Is(b, d) \in Nat
                BY <2>1, <3>1, ClassIds DEF Is
            <4> QED BY <4>1, <3>2, <1>3
        <3> QED BY <3>2, <3>3, <1>3
    <2>2. CASE over[t] # None
        <3>1. refs' = Plus(refs, b, -1) /\ v = over[t]
            BY <2>2, <1>2
        <3>2. refs' \in [ClassId -> Int] /\ \A d \in ClassId : refs'[d] = refs[d] - Is(b, d)
            BY <3>1, <1>3, Decref
        <3>3. ASSUME NEW d \in ClassId PROVE refs'[d] = refs[d] + Is(v, d) - Is(over[t], d) - Is(b, d)
            BY <3>1, <3>2, <1>3 DEF Is
        <3> QED BY <3>2, <3>3
    <2> QED BY <2>1, <2>2
<1>5. \A u \in Types : Made(u)' = Made(u)
    BY <1>2, MadeKept
<1>6. RegistryTypes'
    BY <1>0, <1>2, <1>3, <1>4 DEF IInvAlive, RegistryTypes
<1>7. RefersToMade'
    <2>1. \A u \in Types : dict'[u] \in {dict[u], None} \cup Made(u)' /\ over'[u] \in {over[u], None} \cup Made(u)'
        BY <1>2, <1>3, <1>5
    <2> QED BY <1>0, <1>2, <1>5, <2>1, RefersStep DEF IInvAlive, RefersToMade
<1>8. ThreadsOK'
    BY <1>0, <1>2, <1>5, ThreadsStay DEF IInvAlive
<1>9. EnumKept'
    <2>1. EnumKept
        BY <1>0 DEF IInvAlive
    <2>2. ASSUME NEW u \in Types, named[u] # None
          PROVE /\ Kind[u] = "enum" => \/ dict'[u] = named[u] \/ over'[u] = named[u]
                                      \/ \E o \in Thread : at[o].w = named[u]
                /\ Kind[u] = "mine" => named[u] \in held
        <3>1. CASE u = t
            <4>1. ASSUME Kind[t] = "enum" PROVE over'[t] = named[t]
                <5>1. v = <<t, 1>> /\ named[t] = <<t, 1>>
                    BY <4>1, <3>1, <2>2, <1>0, <1>3, Known, EnumOnly
                <5> QED BY <5>1, <1>2, <1>3
            <4> QED BY <2>1, <2>2, <3>1, <4>1 DEF EnumKept
        <3>2. CASE u # t
            <4>1. dict'[u] = dict[u] /\ over'[u] = over[u]
                BY <3>2, <1>2, <1>3
            <4> QED BY <2>1, <2>2, <4>1 DEF EnumKept
        <3> QED BY <3>1, <3>2
    <2> QED BY <1>2, <2>2 DEF EnumKept
<1>10. ASSUME NEW d \in ClassId PROVE References(d)' <= refs'[d] /\ (d \in gone' => References(d)' = 0)
    <2>1. /\ NamedBy(d)' = NamedBy(d) /\ HeldBy(d)' = HeldBy(d) /\ CarriedBy(d)' = CarriedBy(d)
          /\ BasesBy(d)' = BasesBy(d) /\ ParentsBy(d)' = ParentsBy(d)
        BY <1>2, SameThreads, SameParents DEF NamedBy, HeldBy
    <2>2. \A u \in Types : /\ dict[u] # None => dict[u][1] = u
                           /\ over[u] # None => over[u][1] = u
        BY <1>0, Known
    <2>3. DictBy(d)' = DictBy(d) - Is(b, d) + Is(None, d)
        <3>1. /\ dict \in [Types -> ClassId \cup {None}] /\ \A u \in Types : dict[u] # None => dict[u][1] = u
              /\ None \in ClassId \cup {None}
            BY <1>3, <2>2
        <3>2. PICK g : g = [dict EXCEPT ![t] = None]
            OBVIOUS
        <3>3. Is(g[d[1]], d) = Is(dict[d[1]], d) - Is(dict[t], d) + Is(None, d)
            BY <3>1, <3>2, BoundCounts
        <3> QED BY <1>1, <1>2, <3>2, <3>3 DEF DictBy
    <2>4. OverBy(d)' = OverBy(d) - Is(over[t], d) + Is(v, d)
        BY <1>2, <1>3, <2>2, BoundCounts DEF OverBy
    <2>5. refs'[d] = refs[d] + Is(v, d) - Is(over[t], d) - Is(b, d)
        BY <1>4
    <2>6. Is(None, d) = 0 /\ Is(b, d) \in Nat /\ Is(v, d) \in Nat /\ Is(over[t], d) \in Nat
        BY ClassIds DEF Is
    <2>7. References(d)' <= refs'[d]
        <3>1. /\ NamedBy(d) \in Nat /\ DictBy(d) \in Nat /\ OverBy(d) \in Nat /\ HeldBy(d) \in Nat
              /\ CarriedBy(d) \in Nat /\ BasesBy(d) \in Nat /\ ParentsBy(d) \in Nat /\ refs[d] \in Int
              /\ NamedBy(d) + DictBy(d) + OverBy(d) + HeldBy(d) + CarriedBy(d) + BasesBy(d) + ParentsBy(d) <= refs[d]
            BY <1>0, Terms
        <3> QED BY <3>1, <2>1, <2>3, <2>4, <2>5, <2>6 DEF References
    <2>8. ASSUME d \in gone PROVE References(d)' = 0
        <3>1. Is(b, d) = 0 /\ Is(v, d) = 0 /\ Is(over[t], d) = 0
            BY <2>8, <1>0, <1>1, <1>2, NotGone DEF Is
        <3> QED BY <3>1, <2>1, <2>3, <2>4, <2>6, <2>8, <1>0, Terms DEF References
    <2> QED BY <2>7, <2>8, <1>2
<1> QED BY <1>6, <1>7, <1>8, <1>9, <1>10, AliveStep

\* The program lets go of a class.
LEMMA DropAlive ==
    ASSUME RegistryInv, uses' = uses, NEW c \in ClassId, Drop(c)
    PROVE IInvAlive'
<1>0. IInvAlive
    BY DEF RegistryInv
<1>1. /\ c \in held /\ Kind[c[1]] # "mine" /\ held' = held \ {c} /\ refs' = Plus(refs, c, -1)
      /\ UNCHANGED <<made, gone, base, mro, named, dict, over, loading, lock, at, handed, overlap>>
    BY DEF Drop
<1>2. refs \in [ClassId -> Int]
    BY <1>0, Known
<1>3. refs' \in [ClassId -> Int] /\ \A d \in ClassId : refs'[d] = refs[d] - Is(c, d)
    BY <1>1, <1>2, Decref
<1>4. \A u \in Types : Made(u)' = Made(u)
    BY <1>1, MadeKept
<1>5. RegistryTypes'
    BY <1>0, <1>1, <1>3 DEF IInvAlive, RegistryTypes
<1>6. RefersToMade'
    BY <1>0, <1>1, <1>4, RefersStep DEF IInvAlive, RefersToMade
<1>7. ThreadsOK'
    BY <1>0, <1>1, <1>4, ThreadsStay DEF IInvAlive
<1>8. EnumKept'
    <2>1. EnumKept
        BY <1>0 DEF IInvAlive
    <2>2. ASSUME NEW u \in Types, named[u] # None, Kind[u] = "mine" PROVE named[u] # c
        BY <2>2, <1>0, <1>1, Known
    <2> QED BY <1>1, <2>1, <2>2 DEF EnumKept
<1>9. ASSUME NEW d \in ClassId PROVE References(d)' <= refs'[d] /\ (d \in gone' => References(d)' = 0)
    <2>1. /\ NamedBy(d)' = NamedBy(d) /\ DictBy(d)' = DictBy(d) /\ OverBy(d)' = OverBy(d)
          /\ CarriedBy(d)' = CarriedBy(d) /\ BasesBy(d)' = BasesBy(d) /\ ParentsBy(d)' = ParentsBy(d)
        BY <1>1, SameThreads, SameParents DEF NamedBy, DictBy, OverBy
    <2>2. HeldBy(d)' = HeldBy(d) - Is(c, d) /\ HeldBy(d)' \in Nat
        BY <1>1 DEF HeldBy, Is
    <2>3. refs'[d] = refs[d] - Is(c, d) /\ Is(c, d) \in Nat
        BY <1>3 DEF Is
    <2>4. References(d)' <= refs'[d]
        BY <2>1, <2>2, <2>3, <1>0, Terms DEF References
    <2>5. ASSUME d \in gone PROVE References(d)' = 0
        <3>1. HeldBy(d)' = 0
            BY <2>5, <2>2, <2>3, <1>0, Terms
        <3> QED BY <3>1, <2>1, <2>5, <1>0, Terms DEF References
    <2> QED BY <2>4, <2>5, <1>1
<1> QED BY <1>5, <1>6, <1>7, <1>8, <1>9, AliveStep

\* The collector takes a class.
LEMMA CollectAlive ==
    ASSUME RegistryInv, uses' = uses, NEW c \in ClassId, Collect(c)
    PROVE IInvAlive'
<1>0. IInvAlive
    BY DEF RegistryInv
<1>1. PICK b : b = base[c]
    OBVIOUS
<1>2. /\ c[2] \in 1 .. made[c[1]] /\ refs[c] = 0 /\ c \notin gone
      /\ gone' = gone \cup {c} /\ refs' = Plus(refs, b, -1)
      /\ UNCHANGED <<made, base, mro, named, dict, over, loading, lock, at, held, handed, overlap>>
    BY <1>1 DEF Collect
<1>3. /\ refs \in [ClassId -> Int] /\ b \in ClassId \cup {None} /\ made \in [Types -> 0 .. MaxClasses]
      /\ c[1] \in Types /\ MaxClasses \in Nat
    BY <1>0, <1>1, Known, ClassIds, KindOfTypes
<1>4. refs' \in [ClassId -> Int] /\ \A d \in ClassId : refs'[d] = refs[d] - Is(b, d)
    BY <1>2, <1>3, Decref
<1>5. \A u \in Types : Made(u)' = Made(u)
    BY <1>2, MadeKept
<1>6. c[2] # 0 /\ c \in Made(c[1])
    BY <1>2, <1>3 DEF Made
<1>7. RegistryTypes'
    BY <1>0, <1>2, <1>4 DEF IInvAlive, RegistryTypes
<1>8. RefersToMade'
    <2>1. \A x \in held' \cup gone' : x \in held \cup gone \/ (x \in ClassId /\ x \in Made(x[1])')
        BY <1>2, <1>3, <1>5, <1>6
    <2>2. \A x \in gone' : x \in gone \/ x[2] # 0
        BY <1>2, <1>6
    <2> QED BY <1>0, <1>2, <1>5, <2>1, <2>2, RefersStep
<1>9. ThreadsOK'
    BY <1>0, <1>2, <1>5, ThreadsStay DEF IInvAlive
<1>10. EnumKept'
    BY <1>0, <1>2 DEF IInvAlive, EnumKept
<1>11. ASSUME NEW d \in ClassId PROVE References(d)' <= refs'[d] /\ (d \in gone' => References(d)' = 0)
    <2>1. /\ NamedBy(d)' = NamedBy(d) /\ DictBy(d)' = DictBy(d) /\ OverBy(d)' = OverBy(d) /\ HeldBy(d)' = HeldBy(d)
          /\ CarriedBy(d)' = CarriedBy(d) /\ BasesBy(d)' = BasesBy(d)
        BY <1>2, SameThreads DEF NamedBy, DictBy, OverBy, HeldBy
    <2>2. /\ ParentsBy(d) \in Nat /\ ParentsBy(d)' \in Nat
          /\ ParentsBy(d)' = ParentsBy(d) - Is(b, d)
        <3>1. ParentOf(c) = b /\ ParentOf(c)' = None /\ \A x \in ClassId : x # c => ParentOf(x)' = ParentOf(x)
            BY <1>1, <1>2 DEF ParentOf
        <3>2. /\ ParentsBy(d) \in Nat /\ ParentsBy(d)' \in Nat
              /\ ParentsBy(d)' = ParentsBy(d) - Is(ParentOf(c), d) + Is(ParentOf(c)', d)
            BY <3>1, ParentCounts
        <3>3. Is(None, d) = 0
            BY ClassIds DEF Is
        <3> QED BY <3>1, <3>2, <3>3 DEF Is
    <2>3. refs'[d] = refs[d] - Is(b, d) /\ Is(b, d) \in Nat
        BY <1>4 DEF Is
    <2>4. References(d)' <= refs'[d]
        BY <2>1, <2>2, <2>3, <1>0, Terms DEF References
    <2>5. ASSUME d \in gone' PROVE References(d)' = 0
        <3>1. CASE d \in gone
            <4>1. ParentsBy(d)' = 0
                BY <3>1, <2>2, <2>3, <1>0, Terms
            <4> QED BY <3>1, <4>1, <2>1, <1>0, Terms DEF References
        <3>2. CASE d = c
            <4>1. refs[d] = 0
                BY <3>2, <1>2
            <4>2. /\ NamedBy(d) \in Nat /\ DictBy(d) \in Nat /\ OverBy(d) \in Nat /\ HeldBy(d) \in Nat
                  /\ CarriedBy(d) \in Nat /\ BasesBy(d) \in Nat /\ ParentsBy(d) \in Nat
                  /\ NamedBy(d) + DictBy(d) + OverBy(d) + HeldBy(d) + CarriedBy(d) + BasesBy(d) + ParentsBy(d) <= refs[d]
                BY <1>0, Terms
            <4>3. /\ References(d)' = NamedBy(d) + DictBy(d) + OverBy(d) + HeldBy(d) + CarriedBy(d) + BasesBy(d) + ParentsBy(d)'
                BY <2>1 DEF References
            <4>4. NamedBy(d) + DictBy(d) + OverBy(d) + HeldBy(d) + CarriedBy(d) + BasesBy(d) + ParentsBy(d) <= 0
                BY <4>1, <4>2
            <4>5. NamedBy(d) + DictBy(d) + OverBy(d) + HeldBy(d) + CarriedBy(d) + BasesBy(d) + ParentsBy(d)' = 0
                BY <4>2, <4>4, <2>2, <2>3, NoneLeft
            <4> QED BY <4>3, <4>5
        <3> QED BY <3>1, <3>2, <2>5, <1>2
    <2> QED BY <2>4, <2>5
<1> QED BY <1>7, <1>8, <1>9, <1>10, <1>11, AliveStep

\* override() in gi/overrides/__init__.py.
LEMMA OverrideAlive ==
    ASSUME RegistryInv, uses' = uses, NEW t \in Types, override(t)
    PROVE IInvAlive'
<1>0. IInvAlive
    BY DEF RegistryInv
<1>1. PICK x, b, n : x = Fresh(t) /\ b = dict[t] /\ n = named[t]
    OBVIOUS
<1>2. /\ Kind[t] \in {"root", "object"} /\ b # None /\ over[t] = None
      /\ Create(t, b) /\ refs' = SetPytype(t, x, Plus(Plus(refs, b, 1), x, 1))
      /\ named' = [named EXCEPT ![t] = x] /\ over' = [over EXCEPT ![t] = x]
      /\ UNCHANGED <<gone, dict, loading, lock, at, held, handed, overlap>>
    BY <1>1 DEF override
<1>3. /\ made' \in [Types -> 0 .. MaxClasses]
      /\ x \in ClassId /\ x # None /\ x[1] = t /\ x \in Made(t)' /\ x \notin gone
      /\ \A u \in Types : Made(u) \subseteq Made(u)'
    BY <1>0, <1>1, <1>2, CreateFacts
<1>4. b \in Made(t) /\ b \in ClassId /\ n \in ClassId \cup {None} /\ refs \in [ClassId -> Int] /\ Strong(t)
    BY <1>0, <1>1, <1>2, Known DEF Strong
<1>5. /\ base' \in [ClassId -> ClassId \cup {None}] /\ mro' \in [ClassId -> SUBSET ClassId]
      /\ \A c \in ClassId : base'[c] \in {base[c], None} \cup Made(c[1])'
      /\ \A d \in ClassId : ParentsBy(d)' \in Nat /\ ParentsBy(d)' <= ParentsBy(d) + Is(b, d)
    BY <1>0, <1>2, <1>4, CreateTypes
<1>6. /\ refs' \in [ClassId -> Int]
      /\ \A d \in ClassId : refs'[d] = refs[d] + Is(b, d) + Is(x, d) - Is(n, d) + Is(x, d)
    <2>2. PICK rs : rs = Plus(Plus(refs, b, 1), x, 1)
        OBVIOUS
    <2>3. rs \in [ClassId -> Int] /\ \A d \in ClassId : rs[d] = refs[d] + Is(b, d) + Is(x, d)
        BY <1>3, <1>4, <2>2, Increfs
    <2>4. refs' = Plus(Plus(rs, n, -1), x, 1)
        BY <1>1, <1>2, <2>2 DEF SetPytype
    <2>5. refs' \in [ClassId -> Int] /\ \A d \in ClassId : refs'[d] = rs[d] - Is(n, d) + Is(x, d)
        BY <1>3, <1>4, <2>3, <2>4, Swapref
    <2>6. ASSUME NEW d \in ClassId PROVE refs'[d] = refs[d] + Is(b, d) + Is(x, d) - Is(n, d) + Is(x, d)
        <3>1. rs[d] = refs[d] + Is(b, d) + Is(x, d)
            BY <2>3
        <3>2. refs'[d] = rs[d] - Is(n, d) + Is(x, d)
            BY <2>5
        <3>3. refs[d] \in Int
            BY <1>4
        <3> QED BY <3>1, <3>2, <3>3 DEF Is
    <2> QED BY <2>5, <2>6
<1>7. RegistryTypes'
    BY <1>0, <1>2, <1>3, <1>5, <1>6 DEF IInvAlive, RegistryTypes
<1>8. /\ named \in [Types -> ClassId \cup {None}] /\ over \in [Types -> ClassId \cup {None}]
      /\ \A u \in Types : named[u] # None => named[u][1] = u
      /\ \A u \in Types : over[u] # None => over[u][1] = u
    BY <1>0, Known
<1>9. RefersToMade'
    <2>1. \A u \in Types : named'[u] \in {named[u], None} \cup Made(u)' /\ over'[u] \in {over[u], None} \cup Made(u)'
        BY <1>2, <1>3, <1>8
    <2> QED BY <1>0, <1>2, <1>3, <1>5, <2>1, RefersStep DEF IInvAlive, RefersToMade
<1>10. ThreadsOK'
    BY <1>0, <1>2, <1>3, ThreadsStay DEF IInvAlive
<1>11. EnumKept'
    <2>1. EnumKept
        BY <1>0 DEF IInvAlive
    <2>2. \A u \in Types : Kind[u] \in {"enum", "mine"} => named'[u] = named[u] /\ over'[u] = over[u]
        BY <1>2, <1>8
    <2> QED BY <1>2, <2>1, <2>2 DEF EnumKept
<1>12. ASSUME NEW d \in ClassId PROVE References(d)' <= refs'[d] /\ (d \in gone' => References(d)' = 0)
    <2>1. /\ DictBy(d)' = DictBy(d) /\ HeldBy(d)' = HeldBy(d)
          /\ CarriedBy(d)' = CarriedBy(d) /\ BasesBy(d)' = BasesBy(d)
        BY <1>2, SameThreads DEF DictBy, HeldBy
    <2>2. NamedBy(d)' = NamedBy(d) - Is(n, d) + Is(x, d)
        <3>1. x \in ClassId \cup {None} /\ (x # None => x[1] = t) /\ named' = [named EXCEPT ![t] = x]
            BY <1>2, <1>3
        <3>2. NamedBy(d)' = NamedBy(d) - (IF Strong(t) THEN Is(named[t], d) ELSE 0) + (IF Strong(t) THEN Is(x, d) ELSE 0)
            BY <1>8, <3>1, NamedCounts
        <3> QED BY <1>1, <1>4, <3>2
    <2>3. OverBy(d)' = OverBy(d) - Is(None, d) + Is(x, d)
        <3>1. x \in ClassId \cup {None} /\ (x # None => x[1] = t) /\ over[t] = None
            BY <1>2, <1>3
        <3>2. PICK g : g = [over EXCEPT ![t] = x]
            OBVIOUS
        <3>3. Is(g[d[1]], d) = Is(over[d[1]], d) - Is(over[t], d) + Is(x, d)
            <4>1. /\ over \in [Types -> ClassId \cup {None}]
                  /\ \A u \in Types : over[u] # None => over[u][1] = u
                BY <1>8
            <4> QED BY <3>1, <3>2, <4>1, BoundCounts
        <3> QED BY <1>2, <3>1, <3>2, <3>3 DEF OverBy
    <2>4. ParentsBy(d)' \in Nat /\ ParentsBy(d)' <= ParentsBy(d) + Is(b, d)
        BY <1>5
    <2>5. refs'[d] = refs[d] + Is(b, d) + Is(x, d) - Is(n, d) + Is(x, d)
        BY <1>6
    <2>6. Is(None, d) = 0 /\ Is(b, d) \in Nat /\ Is(x, d) \in Nat /\ Is(n, d) \in Nat
        BY ClassIds DEF Is
    <2>7. References(d)' <= refs'[d]
        <3>1. /\ NamedBy(d) \in Nat /\ DictBy(d) \in Nat /\ OverBy(d) \in Nat /\ HeldBy(d) \in Nat
              /\ CarriedBy(d) \in Nat /\ BasesBy(d) \in Nat /\ ParentsBy(d) \in Nat /\ refs[d] \in Int
              /\ NamedBy(d) + DictBy(d) + OverBy(d) + HeldBy(d) + CarriedBy(d) + BasesBy(d) + ParentsBy(d) <= refs[d]
            BY <1>0, Terms
        <3> QED BY <3>1, <2>1, <2>2, <2>3, <2>4, <2>5, <2>6 DEF References
    <2>8. ASSUME d \in gone PROVE References(d)' = 0
        <3>1. Is(b, d) = 0 /\ Is(x, d) = 0 /\ Is(n, d) = 0
            BY <2>8, <1>0, <1>1, <1>3, NotGone DEF Is
        <3> QED BY <3>1, <2>1, <2>2, <2>3, <2>4, <2>6, <2>8, <1>0, Terms DEF References
    <2> QED BY <2>7, <2>8, <1>2
<1> QED BY <1>7, <1>9, <1>10, <1>11, <1>12, AliveStep

(***************************************************************************)
(* The steps, one by one.                                                  *)
(***************************************************************************)

\* Where IntrospectionModule.__getattr__ starts, and where C code goes on to make
\* a class itself.
Finds(th, t, by, goal) ==
    /\ at[th].pc = "idle" /\ Introspected(t) /\ Attr(t) = None /\ Find(th, t, by, goal)
    /\ goal # None => Kind[goal] = "hidden" /\ named[goal] = None
Goes(th, pc, t) ==
    /\ at[th].pc = "idle" /\ Kind[t] = (IF pc = "new" THEN "hidden" ELSE "anon") /\ named[t] = None
    /\ Go(th, pc, t)

\* A class is given that the GType, or the namespace, has already.
Shows(t, c, rs) ==
    /\ c # None /\ (c = named[t] \/ c = Attr(t)) /\ rs \in {refs, Plus(refs, c, 1)} /\ Given(t, c, rs)
    /\ UNCHANGED <<made, gone, base, mro, named, dict, over, loading, lock, at, overlap>>

\* The outcomes under the lock: a class is to be made; there is one.
Continues(th) ==
    /\ at[th].pc = "locked" /\ (HasGType(at[th].t) => named[at[th].t] \in {None, at[th].bases})
    /\ at' = [at EXCEPT ![th].pc = "make"]
    /\ UNCHANGED <<made, refs, gone, base, mro, named, dict, over, loading, lock, held, handed, overlap>>
Finishes(th, t, c) ==
    /\ at[th].pc = "locked" /\ Kind[t] \in {"root", "object"} /\ c = named[t] /\ c # None
    /\ dict' = [dict EXCEPT ![t] = c] /\ Return(th, t, c, Plus(SetAttr(t, c, refs), c, 1)) /\ lock' = None
    /\ UNCHANGED <<made, gone, base, mro, named, over, loading, overlap>>
Resumes(th, t, c) ==
    /\ at[th].pc = "locked" /\ Kind[t] = "enum" /\ c = named[t] /\ c # None
    /\ at' = [at EXCEPT ![th].pc = "name", ![th].w = c] /\ refs' = Plus(refs, c, 1)
    /\ UNCHANGED <<made, gone, base, mro, named, dict, over, loading, lock, held, handed, overlap>>

Elementary ==
    \/ \E th \in Thread, t \in Types, by \in {"python", "c"}, goal \in Types \cup {None} : Finds(th, t, by, goal)
    \/ \E th \in Thread, t \in Types, pc \in {"new", "add"} : Goes(th, pc, t)
    \/ \E t \in Types, c \in ClassId, rs \in {refs} \cup {Plus(refs, x, 1) : x \in ClassId} : Shows(t, c, rs)
    \/ \E t \in Types, n \in {0, 1} : (IF n = 1 THEN Kind[t] = "sub" ELSE Kind[t] = "mine") /\ Define(t, n)
    \/ \E th \in Thread : \/ get_parent_for_object(th) \/ Lock(th) \/ Continues(th)
                          \/ Finishes(th, at[th].t, named[at[th].t]) \/ Resumes(th, at[th].t, named[at[th].t])
                          \/ Make(th) \/ Name(th) \/ Cache(th)
                          \/ new_with_interfaces(th) \/ Stash(th) \/ pyg_enum_add(th)
    \/ \E t \in Types : override(t) \/ deprecated_attr(t)
    \/ Loaded
    \/ \E c \in ClassId : Drop(c) \/ Collect(c)

\* C code that asks the typelib does one of these.
LEMMA ImportSteps ==
    ASSUME RegistryInv, NEW th \in Thread, NEW t \in Types, NEW goal \in Types \cup {None},
           at[th].pc = "idle", Introspected(t), goal # None => Kind[goal] = "hidden" /\ named[goal] = None,
           import_by_g_type(th, t, goal)
    PROVE Elementary
<1>1. CASE Attr(t) = None
    <2>1. Finds(th, t, "c", goal)
        BY <1>1 DEF import_by_g_type, Finds
    <2> QED BY <2>1 DEF Elementary
<1>2. CASE Attr(t) # None /\ goal # None
    <2>1. Goes(th, "new", goal) /\ goal \in Types
        BY <1>2 DEF import_by_g_type, Goes
    <2> QED BY <2>1 DEF Elementary
<1>3. CASE Attr(t) # None /\ goal = None
    <2>1. PICK c : c = Attr(t)
        OBVIOUS
    <2>2. /\ Given(t, c, Plus(refs, c, 1))
          /\ UNCHANGED <<made, gone, base, mro, named, dict, over, loading, lock, at, overlap>>
        BY <1>3, <2>1 DEF import_by_g_type
    <2>3. c \in ClassId /\ c # None
        BY <1>3, <2>1, Known DEF RegistryInv, Attr
    <2>4. Shows(t, c, Plus(refs, c, 1))
        BY <2>1, <2>2, <2>3 DEF Shows
    <2> QED BY <2>3, <2>4 DEF Elementary
<1> QED BY <1>1, <1>2, <1>3

\* C code that knows the class does, too.
LEMMA WrappedSteps ==
    ASSUME RegistryInv, NEW t \in Types, named[t] # None, Wrapped(t)
    PROVE Elementary
<1>1. named[t] \in ClassId
    BY Known DEF RegistryInv
<1>2. Shows(t, named[t], refs)
    BY DEF Wrapped, Shows
<1> QED BY <1>1, <1>2 DEF Elementary

\* A step of the code is one of these.
LEMMA Steps ==
    ASSUME RegistryInv, RegistryNext
    PROVE uses' = uses /\ Elementary
<1>1. uses' = uses /\ \A t \in uses : t \in Types
    BY DEF RegistryNext, RegistryInv, IInvAlive, RegistryTypes
<1>2. ASSUME NEW th \in Thread, NEW t \in Types, Attribute(th, t) PROVE Elementary
    <2>1. CASE Attr(t) = None
        <3>1. Finds(th, t, "python", None)
            BY <1>2, <2>1 DEF Attribute, Finds
        <3> QED BY <3>1 DEF Elementary
    <2>2. CASE Attr(t) # None
        <3>1. Attr(t) \in ClassId
            BY <2>2, Known DEF RegistryInv, Attr
        <3>2. Shows(t, Attr(t), refs)
            BY <1>2, <2>2 DEF Attribute, Shows
        <3> QED BY <3>1, <3>2 DEF Elementary
    <2> QED BY <2>1, <2>2
<1>3. ASSUME NEW th \in Thread, NEW t \in Types, pygobject_lookup_class(th, t) PROVE Elementary
    <2>1. at[th].pc = "idle" /\ Kind[t] \in {"root", "object", "hidden", "sub"} /\ (Kind[t] = "sub" => named[t] # None)
        BY <1>3 DEF pygobject_lookup_class
    <2>2. CASE named[t] # None
        BY <1>3, <2>2, WrappedSteps DEF pygobject_lookup_class
    <2>3. CASE named[t] = None /\ Introspected(t)
        BY <1>3, <2>1, <2>3, ImportSteps DEF pygobject_lookup_class
    <2>4. CASE named[t] = None /\ ~Introspected(t)
        <3>1. Kind[t] = "hidden" /\ HiddenParent \in Types /\ Introspected(HiddenParent)
            BY <2>1, <2>4, KindOfTypes DEF Introspected
        <3>2. CASE named[HiddenParent] # None
            <4>1. Goes(th, "new", t)
                BY <1>3, <2>1, <2>4, <3>1, <3>2 DEF pygobject_lookup_class, Goes
            <4> QED BY <4>1 DEF Elementary
        <3>3. CASE named[HiddenParent] = None
            BY <1>3, <2>1, <2>4, <3>1, <3>3, ImportSteps DEF pygobject_lookup_class
        <3> QED BY <3>2, <3>3
    <2> QED BY <2>2, <2>3, <2>4
<1>4. ASSUME NEW th \in Thread, NEW t \in Types, pyg_enum_from_gtype(th, t) PROVE Elementary
    <2>1. at[th].pc = "idle" /\ Kind[t] \in {"enum", "anon", "mine"} /\ (Kind[t] = "mine" => named[t] # None)
        BY <1>4 DEF pyg_enum_from_gtype
    <2>2. CASE named[t] # None
        BY <1>4, <2>2, WrappedSteps DEF pyg_enum_from_gtype
    <2>3. CASE named[t] = None /\ Introspected(t)
        BY <1>4, <2>1, <2>3, ImportSteps DEF pyg_enum_from_gtype
    <2>4. CASE named[t] = None /\ ~Introspected(t)
        <3>1. Goes(th, "add", t)
            BY <1>4, <2>1, <2>4 DEF pyg_enum_from_gtype, Goes, Introspected
        <3> QED BY <3>1 DEF Elementary
    <2> QED BY <2>2, <2>3, <2>4
<1>5. ASSUME NEW th \in Thread, NEW t \in Types, RegisterClass(th, t) \/ pyg_enum_register(th, t) PROVE Elementary
    BY <1>5 DEF RegisterClass, pyg_enum_register, Elementary
<1>6. ASSUME NEW th \in Thread, ReadName(th) PROVE Elementary
    <2>1. PICK t, n : t = at[th].t /\ n = named[t]
        OBVIOUS
    <2>2. t \in Types /\ Introspected(t) /\ at[th].pc = "locked"
        BY <1>6, <2>1 DEF RegistryInv, IInvAlive, ThreadsOK, AtOK, Finding, ReadName
    <2>3. CASE ~HasGType(t) \/ n \in {None, at[th].bases}
        <3>1. Continues(th)
            BY <1>6, <2>1, <2>3 DEF ReadName, Continues
        <3> QED BY <3>1 DEF Elementary
    <2>4. CASE HasGType(t) /\ n \notin {None, at[th].bases} /\ Kind[t] = "enum"
        <3>1. Resumes(th, t, n)
            BY <1>6, <2>1, <2>4 DEF ReadName, Resumes
        <3> QED BY <3>1, <2>1 DEF Elementary
    <2>5. CASE HasGType(t) /\ n \notin {None, at[th].bases} /\ Kind[t] # "enum"
        <3>1. Finishes(th, t, n)
            BY <1>6, <2>1, <2>2, <2>5 DEF ReadName, Finishes, Introspected, HasGType
        <3> QED BY <3>1, <2>1 DEF Elementary
    <2> QED BY <2>3, <2>4, <2>5
<1>7. ASSUME NEW th \in Thread, Inside(th) PROVE Elementary
    BY <1>6, <1>7 DEF Inside, Elementary
<1>8. ASSUME NEW t \in Types, override(t) \/ deprecated_attr(t) PROVE Elementary
    BY <1>8 DEF Elementary
<1>9. Loaded => Elementary
    BY DEF Elementary
<1>10. ASSUME NEW c \in ClassId, Drop(c) \/ Collect(c) PROVE Elementary
    BY <1>10 DEF Elementary
<1>11. \/ \E th \in Thread, t \in uses :
              \/ Attribute(th, t) \/ pygobject_lookup_class(th, t) \/ pyg_enum_from_gtype(th, t)
              \/ RegisterClass(th, t) \/ pyg_enum_register(th, t)
       \/ \E th \in Thread : Inside(th)
       \/ \E t \in uses : override(t) \/ deprecated_attr(t)
       \/ Loaded
       \/ \E c \in ClassId : Drop(c) \/ Collect(c)
    BY DEF RegistryNext
<1> QED BY <1>1, <1>2, <1>3, <1>4, <1>5, <1>7, <1>8, <1>9, <1>10, <1>11

\* A lookup starts (IntrospectionModule.__getattr__).
LEMMA FindsAlive ==
    ASSUME RegistryInv, uses' = uses, NEW th \in Thread, NEW t \in Types, NEW by \in {"python", "c"}, NEW goal \in Types \cup {None},
           Finds(th, t, by, goal)
    PROVE IInvAlive'
<1>1. PICK p : p = [pc |-> IF Kind[t] = "root" THEN "bases" ELSE "lock", t |-> t, w |-> None,
                    by |-> by, goal |-> goal, bases |-> None]
    OBVIOUS
<1>2. /\ at[th].pc = "idle" /\ Introspected(t) /\ at' = [at EXCEPT ![th] = p]
      /\ overlap' = overlap \cup UNION {({t, goal} \ {None}) \cap {at[o].t, at[o].goal} : o \in Thread \ {th}}
      /\ UNCHANGED <<made, refs, gone, base, mro, named, dict, over, loading, lock, held, handed>>
      /\ goal # None => Kind[goal] = "hidden"
    BY <1>1 DEF Finds, Find, Starts
<1>3. /\ at \in [Thread -> Place] /\ at[th].w = None /\ at[th].bases = None /\ ThreadsOK /\ lock \in Thread \cup {None}
      /\ overlap \subseteq Types
    BY <1>2, Known DEF RegistryInv, IInvAlive, RegistryTypes, ThreadsOK, AtOK, Finding, Carrying
<1>4. p \in Place /\ p.w = None /\ p.bases = None /\ at'[th] = p
    BY <1>1, <1>2, <1>3 DEF Place, PC
<1>5. \A u \in Types : Made(u)' = Made(u)
    BY <1>2, MadeKept
<1>6. AtOK(th)'
    BY <1>1, <1>2, <1>4, <1>5 DEF AtOK, Finding, Carrying
<1>7. ThreadsOK'
    BY <1>1, <1>2, <1>3, <1>4, <1>5, <1>6, ThreadMoves
<1>8. overlap' \subseteq Types /\ lock' \in Thread \cup {None}
    BY <1>2, <1>3
<1> QED BY <1>2, <1>3, <1>4, <1>7, <1>8, QuietAlive

\* C code goes on to make the class itself.
LEMMA GoesAlive ==
    ASSUME RegistryInv, uses' = uses, NEW th \in Thread, NEW t \in Types, NEW pc \in {"new", "add"}, Goes(th, pc, t)
    PROVE IInvAlive'
<1>1. PICK p : p = [Idle EXCEPT !.pc = pc, !.t = t, !.by = "c"]
    OBVIOUS
<1>2. /\ at[th].pc = "idle" /\ at' = [at EXCEPT ![th] = p]
      /\ Kind[t] = (IF pc = "new" THEN "hidden" ELSE "anon")
      /\ overlap' = overlap \cup UNION {{t} \cap {at[o].t, at[o].goal} : o \in Thread \ {th}}
      /\ UNCHANGED <<made, refs, gone, base, mro, named, dict, over, loading, lock, held, handed>>
    BY <1>1 DEF Goes, Go, Starts
<1>3. /\ at \in [Thread -> Place] /\ at[th].w = None /\ at[th].bases = None /\ ThreadsOK /\ lock \in Thread \cup {None}
      /\ overlap \subseteq Types
    BY <1>2, Known DEF RegistryInv, IInvAlive, RegistryTypes, ThreadsOK, AtOK, Finding, Carrying
<1>4. /\ p \in Place /\ p.pc = pc /\ p.t = t /\ p.w = None /\ p.bases = None /\ p.goal = None /\ at'[th] = p
    BY <1>1, <1>2, <1>3 DEF Place, PC, Idle
<1>5. \A u \in Types : Made(u)' = Made(u)
    BY <1>2, MadeKept
<1>6. AtOK(th)'
    BY <1>2, <1>4, <1>5 DEF AtOK, Finding, Carrying
<1>7. ThreadsOK'
    BY <1>2, <1>3, <1>4, <1>5, <1>6, ThreadMoves
<1>8. overlap' \subseteq Types /\ lock' \in Thread \cup {None}
    BY <1>2, <1>3
<1> QED BY <1>2, <1>3, <1>4, <1>7, <1>8, QuietAlive

\* Taking the lock, and going on under it.
LEMMA GoesOnAlive ==
    ASSUME RegistryInv, uses' = uses, NEW th \in Thread, Lock(th) \/ Continues(th)
    PROVE IInvAlive'
<1>1. PICK p : p = [at[th] EXCEPT !.pc = IF at[th].pc = "lock" THEN "locked" ELSE "make"]
    OBVIOUS
<1>2. /\ at[th].pc \in {"lock", "locked"} /\ at' = [at EXCEPT ![th] = p] /\ lock' = th
      /\ at[th].pc = "lock" => lock = None
      /\ at[th].pc = "locked" => lock = th
      /\ UNCHANGED <<made, refs, gone, base, mro, named, dict, over, loading, held, handed, overlap>>
    <2>1. at \in [Thread -> Place] /\ ThreadsOK
        BY Known DEF RegistryInv, IInvAlive
    <2>2. CASE Lock(th)
        BY <1>1, <2>1, <2>2 DEF Lock
    <2>3. CASE Continues(th)
        BY <1>1, <2>1, <2>3 DEF Continues, ThreadsOK, LockHeld
    <2> QED BY <2>2, <2>3
<1>3. /\ at \in [Thread -> Place] /\ at[th].w = None /\ ThreadsOK /\ overlap \subseteq Types /\ AtOK(th)
    BY <1>2, Known DEF RegistryInv, IInvAlive, RegistryTypes, ThreadsOK, AtOK, Carrying
<1>4. /\ p \in Place /\ p.pc \in {"locked", "make"} /\ p.t = at[th].t /\ p.w = at[th].w /\ p.bases = at[th].bases
      /\ p.goal = at[th].goal /\ at'[th] = p
    BY <1>1, <1>2, <1>3 DEF Place, PC
<1>5. \A u \in Types : Made(u)' = Made(u)
    BY <1>2, MadeKept
<1>6. AtOK(th)'
    BY <1>2, <1>3, <1>4, <1>5 DEF AtOK, Finding, Carrying
<1>7. ThreadsOK'
    BY <1>2, <1>3, <1>4, <1>5, <1>6, ThreadMoves
<1>8. overlap' \subseteq Types /\ lock' \in Thread \cup {None}
    BY <1>2, <1>3
<1> QED BY <1>2, <1>3, <1>4, <1>7, <1>8, QuietAlive

\* The lookup ends in either way.
LEMMA FinishesAlive ==
    ASSUME RegistryInv, uses' = uses, NEW th \in Thread, NEW t, t = at[th].t, NEW c, Finishes(th, t, c)
    PROVE IInvAlive'
<1>0. IInvAlive
    BY DEF RegistryInv
<1>1. PICK rs : rs = Plus(SetAttr(t, c, refs), c, 1)
    OBVIOUS
<1>2. /\ at[th].pc = "locked" /\ c = named[t] /\ c # None
      /\ dict' = [dict EXCEPT ![t] = c] /\ Return(th, t, c, rs) /\ lock' = None
      /\ UNCHANGED <<made, gone, base, mro, named, over, loading, overlap>>
    BY <1>1 DEF Finishes
<1>3. t \in Types /\ at[th].w = None
    BY <1>0, <1>2 DEF IInvAlive, ThreadsOK, AtOK, Finding, Carrying
<1>4. c \in Made(t) /\ c \in ClassId /\ c \notin gone /\ refs \in [ClassId -> Int] /\ dict[t] \in ClassId \cup {None}
    BY <1>0, <1>2, <1>3, Known, NotGone
<1>5. PICK s : s = Plus(Plus(refs, dict[t], -1), c, 1)
    OBVIOUS
<1>6. s \in [ClassId -> Int] /\ \A d \in ClassId : s[d] = refs[d] - Is(dict[t], d) + Is(c, d)
    BY <1>4, <1>5, Swapref
<1>7. rs = Plus(s, c, 1)
    BY <1>1, <1>5 DEF SetAttr
<1>8. rs \in [ClassId -> Int] /\ \A d \in ClassId : rs[d] = s[d] + Is(c, d)
    BY <1>4, <1>6, <1>7, Incref
<1>9. ASSUME NEW d \in ClassId PROVE rs[d] = refs[d] - Is(dict[t], d) + Is(c, d) + Is(c, d) - Is(at[th].w, d)
    <2>1. Is(at[th].w, d) = 0 /\ Is(c, d) \in Nat /\ Is(dict[t], d) \in Nat
        BY <1>3, ClassIds DEF Is
    <2>2. refs[d] \in Int /\ s[d] = refs[d] - Is(dict[t], d) + Is(c, d) /\ rs[d] = s[d] + Is(c, d)
        BY <1>4, <1>6, <1>8
    <2> QED BY <2>1, <2>2
<1> QED BY <1>2, <1>3, <1>4, <1>8, <1>9, ReturnAlive

\* The lookup ends with a class that the thread has made.
LEMMA CacheAlive ==
    ASSUME RegistryInv, uses' = uses, NEW th \in Thread, Cache(th)
    PROVE IInvAlive'
<1>0. IInvAlive
    BY DEF RegistryInv
<1>1. PICK t, c, rs : t = at[th].t /\ c = at[th].w /\ rs = SetAttr(t, c, refs)
    OBVIOUS
<1>2. /\ at[th].pc = "cache" /\ dict' = [dict EXCEPT ![t] = c] /\ Return(th, t, c, rs)
      /\ UNCHANGED <<made, gone, base, mro, named, over, loading, overlap>> /\ lock' = lock
    BY <1>1 DEF Cache
<1>3. t \in Types /\ c \in Made(t)
    BY <1>0, <1>1, <1>2 DEF IInvAlive, ThreadsOK, AtOK, Finding, Carrying
<1>4. c \in ClassId /\ c \notin gone /\ refs \in [ClassId -> Int] /\ dict[t] \in ClassId \cup {None}
    BY <1>0, <1>1, <1>3, Known, NotGone
<1>5. rs \in [ClassId -> Int] /\ \A d \in ClassId : rs[d] = refs[d] - Is(dict[t], d) + Is(c, d)
    BY <1>1, <1>4, Swapref DEF SetAttr
<1>6. ASSUME NEW d \in ClassId PROVE rs[d] = refs[d] - Is(dict[t], d) + Is(c, d) + Is(c, d) - Is(at[th].w, d)
    <2>1. Is(c, d) \in Nat /\ Is(dict[t], d) \in Nat /\ refs[d] \in Int
        BY <1>4 DEF Is
    <2>2. rs[d] = refs[d] - Is(dict[t], d) + Is(c, d) /\ Is(at[th].w, d) = Is(c, d)
        BY <1>1, <1>5
    <2> QED BY <2>1, <2>2
<1>7. at[th].w \in {c, None} /\ at[th].pc \in {"locked", "cache"} /\ lock' = IF at[th].pc = "locked" THEN None ELSE lock
    BY <1>1, <1>2
<1>8. \A d \in ClassId : rs[d] = refs[d] - Is(dict[t], d) + Is(c, d) + Is(c, d) - Is(at[th].w, d)
    BY <1>6
<1>9. rs \in [ClassId -> Int] /\ t = at[th].t
    BY <1>1, <1>5
<1> QED BY <1>2, <1>3, <1>4, <1>7, <1>8, <1>9, ReturnAlive

\* There is a class for the enumeration already.
LEMMA ResumesAlive ==
    ASSUME RegistryInv, uses' = uses, NEW th \in Thread, NEW t, t = at[th].t, NEW c, Resumes(th, t, c)
    PROVE IInvAlive'
<1>0. IInvAlive
    BY DEF RegistryInv
<1>1. /\ at[th].pc = "locked" /\ c = named[t] /\ c # None
      /\ at' = [at EXCEPT ![th].pc = "name", ![th].w = c] /\ refs' = Plus(refs, c, 1)
      /\ UNCHANGED <<made, gone, base, mro, named, dict, over, loading, lock, held, handed, overlap>>
    BY DEF Resumes
<1>2. t \in Types
    BY <1>0, <1>1 DEF IInvAlive, ThreadsOK, AtOK, Finding
<1>3. c \in Made(t) /\ c \notin gone
    BY <1>0, <1>1, <1>2, Known, NotGone
<1> QED BY <1>1, <1>2, <1>3, FoundAlive

\* A class is made, under the lock or in pygobject_new_with_interfaces.
LEMMA MakesAlive ==
    ASSUME RegistryInv, uses' = uses, NEW th \in Thread, Make(th) \/ new_with_interfaces(th)
    PROVE IInvAlive'
<1>0. IInvAlive
    BY DEF RegistryInv
<1>1. PICK t : t = at[th].t
    OBVIOUS
<1>2. CASE Make(th)
    <2>1. /\ at[th].pc = "make" /\ DeriveClass(th, at[th].bases, 1)
          /\ named' = IF Kind[t] = "enum" THEN [named EXCEPT ![t] = Fresh(t)] ELSE named
          /\ at' = [at EXCEPT ![th].w = Fresh(t), ![th].pc = "name"]
          /\ UNCHANGED <<gone, dict, over, loading, lock, held, handed>>
        BY <1>1, <1>2 DEF Make
    <2>2. t \in Types /\ at[th].w = None /\ at[th].bases \in Made(t) \cup {None}
        BY <1>0, <1>1, <2>1 DEF IInvAlive, ThreadsOK, AtOK, Finding, Carrying
    <2> QED BY <1>1, <2>1, <2>2, MakeAlive
<1>3. CASE new_with_interfaces(th)
    <2>1. /\ at[th].pc = "new" /\ DeriveClass(th, None, 1)
          /\ at' = [at EXCEPT ![th].w = Fresh(t), ![th].pc = "stash"]
          /\ UNCHANGED <<gone, named, dict, over, loading, lock, held, handed>>
        BY <1>1, <1>3 DEF new_with_interfaces
    <2>2. t \in Types /\ Kind[t] = "hidden" /\ at[th].w = None /\ None \in Made(t) \cup {None}
        BY <1>0, <1>1, <2>1 DEF IInvAlive, ThreadsOK, AtOK, Finding, Carrying
    <2>3. named' = IF Kind[t] = "enum" THEN [named EXCEPT ![t] = Fresh(t)] ELSE named
        BY <2>1, <2>2
    <2> QED BY <1>1, <2>1, <2>2, <2>3, MakeAlive
<1> QED BY <1>2, <1>3

\* A class is given that there is already.
LEMMA ShowsAlive ==
    ASSUME RegistryInv, uses' = uses, NEW t \in Types, NEW c, NEW rs, Shows(t, c, rs)
    PROVE IInvAlive'
<1>0. IInvAlive
    BY DEF RegistryInv
<1>1. c \in Made(t) /\ c \notin gone
    BY <1>0, Known, NotGone DEF Shows, Attr
<1> QED BY <1>1, ShowAlive DEF Shows

\* A step that only ends the import, or none.
LEMMA StillAlive ==
    ASSUME RegistryInv, uses' = uses, UNCHANGED <<made, refs, gone, base, mro, named, dict, over, lock, at, held, handed, overlap>>
    PROVE IInvAlive'
<1>0. IInvAlive
    BY DEF RegistryInv
<1>1. UNCHANGED <<made, refs, gone, base, mro, named, dict, over, lock, at, held, handed, overlap>>
    OBVIOUS
<1>2. \A u \in Types : Made(u)' = Made(u)
    BY <1>1, MadeKept
<1>3. RegistryTypes'
    BY <1>0, <1>1 DEF IInvAlive, RegistryTypes
<1>4. RefersToMade'
    BY <1>0, <1>1, <1>2, RefersStep DEF IInvAlive, RefersToMade
<1>5. ThreadsOK'
    BY <1>0, <1>1, <1>2, ThreadsStay DEF IInvAlive
<1>6. EnumKept'
    BY <1>0, <1>1 DEF IInvAlive, EnumKept
<1>7. ASSUME NEW d \in ClassId PROVE References(d)' <= refs'[d] /\ (d \in gone' => References(d)' = 0)
    <2>1. /\ NamedBy(d)' = NamedBy(d) /\ DictBy(d)' = DictBy(d) /\ OverBy(d)' = OverBy(d) /\ HeldBy(d)' = HeldBy(d)
          /\ CarriedBy(d)' = CarriedBy(d) /\ BasesBy(d)' = BasesBy(d) /\ ParentsBy(d)' = ParentsBy(d)
        BY <1>1, SameThreads, SameParents DEF NamedBy, DictBy, OverBy, HeldBy
    <2>2. References(d)' = References(d)
        BY <2>1 DEF References
    <2> QED BY <1>0, <1>1, <2>2 DEF IInvAlive, Counted, GoneUnowned
<1> QED BY <1>3, <1>4, <1>5, <1>6, <1>7, AliveStep

\* Every step keeps the references in order.
LEMMA StepAlive ==
    ASSUME RegistryInv, uses' = uses, Elementary
    PROVE IInvAlive'
<1>1. Loaded => IInvAlive'
    BY StillAlive DEF Loaded
<1> QED BY <1>1, FindsAlive, GoesAlive, ShowsAlive, DefineAlive, ParentAlive, GoesOnAlive, FinishesAlive, ResumesAlive,
           MakesAlive, NameAlive, CacheAlive, StashAlive, AddAlive, OverrideAlive, DeprecatedAlive, DropAlive,
           CollectAlive DEF Elementary

(***************************************************************************)
(* How many classes there are, and which is the last.                      *)
(***************************************************************************)

\* A step that has nothing to do with type u.
LEMMA OrderKept ==
    ASSUME NEW u \in Types, InOrder(u),
           made'[u] = made[u], named'[u] = named[u], dict'[u] = dict[u], over'[u] = over[u],
           u \in overlap => u \in overlap',
           \A o \in Thread : \/ at'[o] = at[o]
                             \/ at[o].t # u /\ at'[o].t # u /\ (at'[o].goal = u => at[o].goal = u)
    PROVE InOrder(u)'
<1>1. \A o \in Thread : /\ at'[o].t = u <=> at[o].t = u
                        /\ at'[o].t = u => at'[o] = at[o]
                        /\ at'[o].goal = u => at[o].goal = u
    OBVIOUS
<1>2. /\ Attr(u)' = Attr(u) /\ Latest(u)' = Latest(u) /\ Closed(u)' = Closed(u)
    BY DEF Attr, Latest, Closed
<1>3. OneEnum(u) => OneEnum(u)'
    BY <1>1 DEF OneEnum, IsAt
<1>4. ObjectOrder(u) => ObjectOrder(u)'
    BY <1>1, <1>2 DEF ObjectOrder, IsAt
<1>5. RootOrder(u) => RootOrder(u)'
    BY <1>1, <1>2 DEF RootOrder, IsAt
<1>6. RootAlone(u) => RootAlone(u)'
    BY <1>1, <1>2 DEF RootAlone, IsAt, Looks
<1>7. MadeAlone(u) => MadeAlone(u)'
    BY <1>1, <1>2 DEF MadeAlone, Looks
<1> QED BY <1>3, <1>4, <1>5, <1>6, <1>7 DEF InOrder

\* A thread that has no class yet comes to where it has none either.
LEMMA OrderWalk ==
    ASSUME NEW u \in Types, InOrder(u), NEW th \in Thread, \A o \in Thread : o # th => at'[o] = at[o],
           at[th].pc \notin Carrying, at'[th].pc \notin Carrying,
           UNCHANGED <<made, named, dict, over>>, u \in overlap => u \in overlap',
           at'[th].pc = "make" /\ at'[th].t = u =>
               /\ Kind[u] = "enum" => made[u] = 0
               /\ Kind[u] = "object" => named[u] = None /\ made[u] = 0
               /\ Kind[u] = "root" => at'[th].bases = named[u],
           Looks(th, u)' /\ u \notin overlap' =>
               \/ Looks(th, u)
               \/ /\ Kind[u] = "root" => Attr(u) = None
                  /\ Kind[u] \in {"struct", "hidden", "anon"} => ~Closed(u) /\ \A o \in Thread \ {th} : ~Looks(o, u)
    PROVE InOrder(u)'
<1>1. \A o \in Thread : \A pc \in {"name", "cache"} : IsAt(o, pc, u)' <=> IsAt(o, pc, u) /\ at'[o] = at[o]
    BY DEF IsAt, Carrying
<1>2. \A o \in Thread : IsAt(o, "make", u)' => (o = th /\ at'[th].pc = "make" /\ at'[th].t = u) \/ (IsAt(o, "make", u) /\ at'[o] = at[o])
    BY DEF IsAt
<1>3. /\ Attr(u)' = Attr(u) /\ Latest(u)' = Latest(u) /\ Closed(u)' = Closed(u)
    BY DEF Attr, Latest, Closed
<1>4. Kind[u] = "enum" => OneEnum(u)'
    BY <1>2 DEF OneEnum, InOrder
<1>9. (\E o \in Thread : IsAt(o, "name", u)) => \E o \in Thread : IsAt(o, "name", u)'
    <2>1. ASSUME NEW o \in Thread, IsAt(o, "name", u) PROVE IsAt(o, "name", u)'
        BY <2>1 DEF IsAt, Carrying
    <2> QED BY <2>1
<1>5. ASSUME Kind[u] = "object" PROVE ObjectOrder(u)'
    <2>1. ObjectOrder(u)
        BY <1>5 DEF InOrder
    <2>2. /\ over'[u] = None => made'[u] <= 1
          /\ over'[u] # None => over'[u] = named'[u] /\ named'[u] = Latest(u)'
          /\ named'[u] = None => dict'[u] = None /\ (made'[u] = 0 \/ \E o \in Thread : IsAt(o, "name", u)')
        BY <1>3, <1>9, <2>1 DEF ObjectOrder
    <2>3. ASSUME NEW o \in Thread
          PROVE /\ IsAt(o, "make", u)' => named'[u] = None /\ made'[u] = 0
                /\ IsAt(o, "name", u)' => named'[u] = None
                /\ IsAt(o, "cache", u)' => named'[u] # None
        BY <1>1, <1>2, <1>5, <2>1 DEF ObjectOrder
    <2> QED BY <2>2, <2>3 DEF ObjectOrder
<1>6. ASSUME Kind[u] = "root" PROVE RootOrder(u)'
    <2>1. RootOrder(u)
        BY <1>6 DEF InOrder
    <2>2. over'[u] = None => /\ named'[u] = Latest(u)' \/ \E o \in Thread : IsAt(o, "name", u)'
                             /\ dict'[u] # None => dict'[u][2] <= named'[u][2]
        BY <1>3, <1>9, <2>1 DEF RootOrder
    <2>3. ASSUME over'[u] = None, NEW o \in Thread
          PROVE /\ IsAt(o, "make", u)' => at'[o].bases = named'[u]
                /\ IsAt(o, "name", u)' => at'[o].w = Latest(u)'
                /\ IsAt(o, "cache", u)' => at'[o].w[2] <= named'[u][2]
        BY <1>1, <1>2, <1>3, <1>6, <2>1, <2>3 DEF RootOrder
    <2> QED BY <2>2, <2>3 DEF RootOrder
<1>7. ASSUME Kind[u] = "root", u \notin overlap' PROVE RootAlone(u)'
    <2>1. RootAlone(u)
        BY <1>7 DEF InOrder
    <2>2. \A o \in Thread : Looks(o, u)' => Attr(u) = None
        BY <1>7, <2>1 DEF RootAlone, Looks
    <2> QED BY <1>1, <1>3, <2>1, <2>2 DEF RootAlone
<1>8. ASSUME Kind[u] \in {"struct", "hidden", "anon"}, u \notin overlap' PROVE MadeAlone(u)'
    <2>1. MadeAlone(u)
        BY <1>8 DEF InOrder
    <2>2. (\E o \in Thread : at[o].t = u /\ at[o].pc \in Carrying) => \E o \in Thread : at'[o].t = u /\ at'[o].pc \in Carrying
        OBVIOUS
    <2>3. ASSUME NEW o \in Thread, Looks(o, u)', made[u] = 1 PROVE at'[o].t = u /\ at'[o].pc \in Carrying
        <3>1. CASE o # th
            BY <2>1, <2>3, <3>1 DEF MadeAlone, Looks
        <3>2. CASE o = th
            <4>1. ~Looks(th, u)
                BY <2>1, <2>3 DEF MadeAlone
            <4>2. ~Closed(u) /\ \A x \in Thread \ {th} : ~Looks(x, u)
                BY <1>8, <2>3, <3>2, <4>1
            <4>3. PICK x \in Thread : at[x].t = u /\ at[x].pc \in Carrying
                BY <2>1, <2>3, <4>2 DEF MadeAlone
            <4> QED BY <4>2, <4>3 DEF Looks
        <3> QED BY <3>1, <3>2
    <2> QED BY <1>3, <2>1, <2>2, <2>3 DEF MadeAlone
<1> QED BY <1>4, <1>5, <1>6, <1>7, <1>8 DEF InOrder

\* Nobody comes to look for a type.
LEMMA NotBothKept ==
    ASSUME NotBoth, overlap \subseteq overlap',
           \A u \in Types : \A o \in Thread : Looks(o, u)' => Looks(o, u)
    PROVE NotBoth'
BY DEF NotBoth

\* No class is made.
LEMMA LineKept ==
    ASSUME NEW u \in Types, Raced(u) \/ InLine(u), made' = made, mro' = mro, overlap \subseteq overlap',
           over[u] # None => over'[u] # None
    PROVE Raced(u)' \/ InLine(u)'
<1>1. Raced(u) => Raced(u)'
    BY DEF Raced
<1>2. InLine(u) => InLine(u)'
    BY DEF InLine, Made, Derives
<1> QED BY <1>1, <1>2

\* A class is made that derives from the one before.
LEMMA LineGrows ==
    ASSUME IInvAlive, NEW t \in Types, NEW b \in Made(t) \cup {None}, Create(t, b),
           NEW u \in Types, Raced(u) \/ InLine(u), overlap \subseteq overlap', over[u] # None => over'[u] # None,
           u = t => Raced(t)' \/ b = Latest(t) \/ Made(t) = {}
    PROVE Raced(u)' \/ InLine(u)'
<1>1. Raced(u) => Raced(u)'
    BY DEF Raced
<1>2. PICK x : x = Fresh(t)
    OBVIOUS
<1>3. /\ x \in ClassId /\ x[1] = t /\ x \notin Made(t) /\ mro \in [ClassId -> SUBSET ClassId]
      /\ mro' = [mro EXCEPT ![x] = {x} \cup (IF b = None THEN {} ELSE mro[b])]
      /\ made' = [made EXCEPT ![t] = @ + 1] /\ made \in [Types -> 0 .. MaxClasses] /\ made[t] < MaxClasses
    BY <1>2, CreateFacts, Known DEF IInvAlive, RegistryTypes, Create
<1>4. x[2] = made[t] + 1
    BY <1>2 DEF Fresh
<1>5. CASE u # t
    <2>1. Made(u)' = Made(u) /\ \A c \in Made(u) : mro'[c] = mro[c]
        BY <1>3, <1>5, MadeGrows DEF Made
    <2> QED BY <1>1, <2>1 DEF InLine, Derives
<1>6. CASE u = t /\ ~Raced(t)'
    <2>1. InLine(t)
        BY <1>1, <1>6
    <2>2. \A c \in Made(t)' : c \in Made(t) \/ c = x
        BY <1>2, <1>3, MadeGrows
    <2>3. \A c \in Made(t) : c # x /\ mro'[c] = mro[c] /\ c[2] \in Nat /\ c[2] <= made[t]
        BY <1>3, ClassIds DEF Made
    <2>4. made[t] \in Nat
        BY <1>3, KindOfTypes
    <2>5. ASSUME NEW c \in Made(t)', NEW d \in Made(t)', c[2] <= d[2] PROVE c \in mro'[d]
        <3>1. CASE d \in Made(t)
            <4>1. c \in Made(t)
                BY <1>4, <2>2, <2>3, <2>4, <2>5, <3>1
            <4> QED BY <2>1, <2>3, <2>5, <3>1, <4>1 DEF InLine, Derives
        <3>2. CASE d = x /\ c = x
            BY <1>3, <3>2
        <3>3. CASE d = x /\ c \in Made(t)
            <4>1. b = Latest(t) /\ b # None /\ b \in Made(t)
                BY <1>6, <3>3, ClassIds, Known DEF Latest
            <4>2. c[2] <= b[2]
                BY <2>3, <3>3, <4>1 DEF Latest
            <4>3. c \in mro[b]
                BY <2>1, <3>3, <4>1, <4>2 DEF InLine, Derives
            <4> QED BY <1>3, <3>3, <4>1, <4>3
        <3> QED BY <2>2, <3>1, <3>2, <3>3
    <2> QED BY <1>6, <2>5 DEF InLine, Derives
<1> QED BY <1>5, <1>6

\* What a step that makes no class leaves to be shown.
LEMMA OneKept ==
    ASSUME RegistryInv, made' = made, mro' = mro, overlap \subseteq overlap', NotBoth',
           \A u \in Types : over[u] # None => over'[u] # None,
           \A u \in Types : InOrder(u)'
    PROVE IInvOne'
<1>1. ASSUME NEW u \in Types PROVE Raced(u)' \/ InLine(u)'
    <2>1. Raced(u) \/ InLine(u)
        BY DEF RegistryInv, IInvOne
    <2> QED BY <2>1, LineKept
<1> QED BY <1>1 DEF IInvOne

\* No thread moves, and nothing is bound.
LEMMA StillOne ==
    ASSUME RegistryInv, UNCHANGED <<made, mro, named, dict, over, at, overlap>>
    PROVE IInvOne'
<1>1. NotBoth'
    BY NotBothKept DEF RegistryInv, IInvOne, Looks
<1>2. ASSUME NEW u \in Types PROVE InOrder(u)'
    <2>1. InOrder(u)
        BY DEF RegistryInv, IInvOne
    <2> QED BY <2>1, OrderKept
<1> QED BY <1>1, <1>2, OneKept

\* A lookup starts: whoever looks for the type, too, is noted.
LEMMA FindsOne ==
    ASSUME RegistryInv, NEW th \in Thread, NEW t \in Types, NEW by, NEW goal \in Types \cup {None},
           Finds(th, t, by, goal)
    PROVE IInvOne'
<1>1. PICK p : p = [pc |-> IF Kind[t] = "root" THEN "bases" ELSE "lock", t |-> t, w |-> None,
                    by |-> by, goal |-> goal, bases |-> None]
    OBVIOUS
<1>2. /\ at[th].pc = "idle" /\ Introspected(t) /\ Attr(t) = None /\ at' = [at EXCEPT ![th] = p]
      /\ goal # None => Kind[goal] = "hidden" /\ named[goal] = None
      /\ overlap' = overlap \cup UNION {({t, goal} \ {None}) \cap {at[o].t, at[o].goal} : o \in Thread \ {th}}
      /\ UNCHANGED <<made, mro, named, dict, over>>
    BY <1>1 DEF Finds, Find, Starts
<1>3. at \in [Thread -> Place]
    BY Known DEF RegistryInv
<1>4. /\ at'[th] = p /\ p.t = t /\ p.goal = goal /\ p.pc \in {"bases", "lock"}
      /\ \A o \in Thread : o # th => at'[o] = at[o]
    BY <1>1, <1>2, <1>3
<1>5. ASSUME NEW u \in Types, NEW o \in Thread, o # th, Looks(o, u), u \in {t, goal} PROVE u \in overlap'
    <2>1. u # None /\ u \in ({t, goal} \ {None}) \cap {at[o].t, at[o].goal}
        BY <1>5, ClassIds DEF Looks
    <2> QED BY <2>1, <1>2, <1>5
<1>6. NotBoth'
    <2>1. ASSUME NEW u \in Types, NEW x \in Thread, NEW o \in Thread, Looks(x, u)', Looks(o, u)', x # o PROVE u \in overlap'
        <3>1. CASE x = th
            BY <2>1, <3>1, <1>4, <1>5 DEF Looks
        <3>2. CASE o = th
            BY <2>1, <3>2, <1>4, <1>5 DEF Looks
        <3>3. CASE x # th /\ o # th
            BY <2>1, <3>3, <1>2, <1>4 DEF Looks, RegistryInv, IInvOne, NotBoth
        <3> QED BY <3>1, <3>2, <3>3
    <2> QED BY <2>1 DEF NotBoth
<1>7. ASSUME NEW u \in Types PROVE InOrder(u)'
    <2>1. InOrder(u)
        BY DEF RegistryInv, IInvOne
    <2>2. ASSUME Looks(th, u)', u \notin overlap'
          PROVE /\ Kind[u] = "root" => Attr(u) = None
                /\ Kind[u] \in {"struct", "hidden", "anon"} => ~Closed(u) /\ \A o \in Thread \ {th} : ~Looks(o, u)
        <3>1. u \in {t, goal} /\ u # None
            BY <2>2, <1>4, ClassIds DEF Looks
        <3>2. \A o \in Thread \ {th} : ~Looks(o, u)
            BY <2>2, <3>1, <1>5
        <3>3. CASE u = t
            BY <3>2, <3>3, <1>2 DEF Closed, Introspected
        <3>4. CASE u = goal
            BY <3>1, <3>2, <3>4, <1>2 DEF Closed
        <3> QED BY <3>1, <3>3, <3>4
    <2>3. at[th].pc \notin Carrying /\ at'[th].pc \notin Carrying /\ at'[th].pc # "make"
        BY <1>2, <1>4 DEF Carrying
    <2>4. u \in overlap => u \in overlap'
        BY <1>2
    <2> QED BY <1>2, <1>4, <2>1, <2>2, <2>3, <2>4, OrderWalk
<1> QED BY <1>2, <1>6, <1>7, OneKept

\* C code goes on to make the class itself.
LEMMA GoesOne ==
    ASSUME RegistryInv, NEW th \in Thread, NEW t \in Types, NEW pc \in {"new", "add"}, Goes(th, pc, t)
    PROVE IInvOne'
<1>1. PICK p : p = [Idle EXCEPT !.pc = pc, !.t = t, !.by = "c"]
    OBVIOUS
<1>2. /\ at[th].pc = "idle" /\ at' = [at EXCEPT ![th] = p] /\ named[t] = None /\ Kind[t] \in {"hidden", "anon"}
      /\ overlap' = overlap \cup UNION {{t} \cap {at[o].t, at[o].goal} : o \in Thread \ {th}}
      /\ UNCHANGED <<made, mro, named, dict, over>>
    BY <1>1 DEF Goes, Go, Starts
<1>3. at \in [Thread -> Place]
    BY Known DEF RegistryInv
<1>4. /\ at'[th] = p /\ p.t = t /\ p.goal = None /\ p.pc \in {"new", "add"}
      /\ \A o \in Thread : o # th => at'[o] = at[o]
    BY <1>1, <1>2, <1>3 DEF Idle
<1>5. ASSUME NEW o \in Thread, o # th, Looks(o, t) PROVE t \in overlap'
    <2>1. t \in {t} \cap {at[o].t, at[o].goal}
        BY <1>5 DEF Looks
    <2> QED BY <2>1, <1>2, <1>5
<1>6. \A u \in Types : Looks(th, u)' => u = t
    BY <1>4, ClassIds DEF Looks
<1>7. NotBoth'
    <2>1. ASSUME NEW u \in Types, NEW x \in Thread, NEW o \in Thread, Looks(x, u)', Looks(o, u)', x # o PROVE u \in overlap'
        <3>1. CASE x = th
            BY <2>1, <3>1, <1>4, <1>5, <1>6 DEF Looks
        <3>2. CASE o = th
            BY <2>1, <3>2, <1>4, <1>5, <1>6 DEF Looks
        <3>3. CASE x # th /\ o # th
            BY <2>1, <3>3, <1>2, <1>4 DEF Looks, RegistryInv, IInvOne, NotBoth
        <3> QED BY <3>1, <3>2, <3>3
    <2> QED BY <2>1 DEF NotBoth
<1>8. ASSUME NEW u \in Types PROVE InOrder(u)'
    <2>1. InOrder(u)
        BY DEF RegistryInv, IInvOne
    <2>2. ASSUME Looks(th, u)', u \notin overlap'
          PROVE /\ Kind[u] = "root" => Attr(u) = None
                /\ Kind[u] \in {"struct", "hidden", "anon"} => ~Closed(u) /\ \A o \in Thread \ {th} : ~Looks(o, u)
        <3>1. u = t
            BY <2>2, <1>6
        <3>2. \A o \in Thread \ {th} : ~Looks(o, u)
            BY <2>2, <3>1, <1>5
        <3> QED BY <3>1, <3>2, <1>2 DEF Closed
    <2>3. at[th].pc \notin Carrying /\ at'[th].pc \notin Carrying /\ at'[th].pc # "make"
        BY <1>2, <1>4 DEF Carrying
    <2>4. u \in overlap => u \in overlap'
        BY <1>2
    <2> QED BY <1>2, <1>4, <2>1, <2>2, <2>3, <2>4, OrderWalk
<1> QED BY <1>2, <1>7, <1>8, OneKept

\* A thread goes on with its type, and binds nothing.
LEMMA GoesOnOne ==
    ASSUME RegistryInv, NEW th \in Thread, get_parent_for_object(th) \/ Lock(th) \/ Continues(th)
    PROVE IInvOne'
<1>1. PICK t : t = at[th].t
    OBVIOUS
<1>2. /\ at[th].pc \in {"bases", "lock", "locked"} /\ UNCHANGED <<made, mro, named, dict, over, overlap>>
      /\ at \in [Thread -> Place]
    BY Known DEF RegistryInv, get_parent_for_object, Lock, Continues
<1>3. /\ at'[th].t = t /\ at'[th].goal = at[th].goal /\ at'[th].pc \in {"lock", "locked", "make"}
      /\ \A o \in Thread : o # th => at'[o] = at[o]
    BY <1>1, <1>2 DEF get_parent_for_object, Lock, Continues, Place
<1>4. \A u \in Types : \A o \in Thread : Looks(o, u)' => Looks(o, u)
    BY <1>1, <1>3 DEF Looks
<1>5. NotBoth'
    BY <1>2, <1>4, NotBothKept DEF RegistryInv, IInvOne
<1>6. ASSUME at'[th].pc = "make", NEW u \in Types, u = t
      PROVE /\ Kind[u] = "enum" => made[u] = 0
            /\ Kind[u] = "object" => named[u] = None /\ made[u] = 0
            /\ Kind[u] = "root" => at'[th].bases = named[u]
    <2>1. /\ at[th].pc = "locked" /\ (HasGType(t) => named[t] \in {None, at[th].bases}) /\ at'[th].bases = at[th].bases
        BY <1>1, <1>2, <1>6 DEF get_parent_for_object, Lock, Continues, Place
    <2>2. /\ InOrder(t) /\ AtOK(th) /\ made \in [Types -> 0 .. MaxClasses] /\ MaxClasses \in Nat
        BY <1>6, KindOfTypes DEF RegistryInv, IInvOne, IInvAlive, RegistryTypes, ThreadsOK
    <2>3. \A o \in Thread : ~IsAt(o, "name", t)
        BY <2>1 DEF IsAt, RegistryInv, IInvAlive, ThreadsOK, LockHeld
    <2>4. Kind[t] # "root" => at[th].bases = None
        BY <1>1, <2>1, <2>2 DEF AtOK
    <2>5. CASE Kind[t] = "enum"
        <3>1. named[t] = None
            BY <2>1, <2>4, <2>5 DEF HasGType
        <3>2. made[t] \in Nat /\ made[t] <= 1 /\ made[t] # 1
            BY <1>6, <2>2, <2>5, <3>1 DEF InOrder, OneEnum
        <3> QED BY <1>6, <2>5, <3>2
    <2>6. CASE Kind[t] = "object"
        <3>1. named[t] = None
            BY <2>1, <2>4, <2>6 DEF HasGType
        <3> QED BY <1>6, <2>2, <2>3, <2>6, <3>1 DEF InOrder, ObjectOrder
    <2>7. CASE Kind[t] = "root"
        <3>1. named[t] # None
            BY <2>2, <2>7 DEF InOrder
        <3> QED BY <1>6, <2>1, <2>7, <3>1 DEF HasGType
    <2> QED BY <1>6, <2>5, <2>6, <2>7
<1>7. ASSUME NEW u \in Types PROVE InOrder(u)'
    <2>1. InOrder(u)
        BY DEF RegistryInv, IInvOne
    <2>2. at[th].pc \notin Carrying /\ at'[th].pc \notin Carrying
        BY <1>2, <1>3 DEF Carrying
    <2>3. at'[th].pc = "make" /\ at'[th].t = u =>
              /\ Kind[u] = "enum" => made[u] = 0
              /\ Kind[u] = "object" => named[u] = None /\ made[u] = 0
              /\ Kind[u] = "root" => at'[th].bases = named[u]
        BY <1>3, <1>6
    <2> QED BY <1>2, <1>3, <1>4, <2>1, <2>2, <2>3, OrderWalk
<1> QED BY <1>2, <1>5, <1>7, OneKept

\* Nobody else is under the lock, or with a type outside "overlap".
LEMMA Alone ==
    ASSUME RegistryInv, NEW th \in Thread, NEW o \in Thread, o # th
    PROVE /\ at[th].pc \in {"locked", "make", "name"} => at[o].pc \notin {"locked", "make", "name"}
          /\ \A u \in Types : Looks(th, u) /\ Looks(o, u) => u \in overlap
BY DEF RegistryInv, IInvAlive, ThreadsOK, LockHeld, IInvOne, NotBoth

\* The end of a lookup, as far as it concerns other types.
LEMMA ReturnMoves ==
    ASSUME RegistryInv, NEW th \in Thread, NEW t \in Types, t = at[th].t, at[th].pc \in Finding, NEW c, NEW rs, Return(th, t, c, rs)
    PROVE /\ \A o \in Thread : o # th => at'[o] = at[o]
          /\ at'[th].goal = None /\ at'[th].pc \in {"idle", "new"} /\ at'[th].t \in {None, at[th].goal}
          /\ ~Looks(th, t)'
          /\ \A u \in Types : \A o \in Thread : Looks(o, u)' => Looks(o, u)
<1>1. PICK g : g = at[th].goal
    OBVIOUS
<1>2. at \in [Thread -> Place] /\ AtOK(th)
    BY Known DEF RegistryInv, IInvAlive, ThreadsOK
<1>3. at' \in {[at EXCEPT ![th] = Idle], [at EXCEPT ![th] = [Idle EXCEPT !.pc = "new", !.t = g]]}
    BY <1>1 DEF Return
<1>4. \A o \in Thread : o # th => at'[o] = at[o]
    BY <1>2, <1>3
<1>5. at'[th].goal = None /\ at'[th].pc \in {"idle", "new"} /\ at'[th].t \in {None, g}
    <2>1. PICK i, p : i = Idle /\ p = [Idle EXCEPT !.pc = "new", !.t = g]
        OBVIOUS
    <2>2. at'[th] \in {i, p}
        BY <1>2, <1>3, <2>1
    <2>3. i.goal = None /\ i.pc = "idle" /\ i.t = None
        BY <2>1 DEF Idle
    <2>4. p.goal = None /\ p.pc = "new" /\ p.t = g
        BY <2>1 DEF Idle
    <2> QED BY <2>2, <2>3, <2>4
<1>6. g # t
    BY <1>1, <1>2, ClassIds DEF AtOK, Introspected
<1>7. t # None
    BY ClassIds
<1>8. ~Looks(th, t)'
    BY <1>5, <1>6, <1>7 DEF Looks
<1>9. ASSUME NEW u \in Types, NEW o \in Thread, Looks(o, u)' PROVE Looks(o, u)
    BY <1>1, <1>4, <1>5, <1>9, ClassIds DEF Looks
<1> QED BY <1>1, <1>4, <1>5, <1>8, <1>9

\* What it leaves alone.
LEMMA ReturnOthers ==
    ASSUME RegistryInv, NEW th \in Thread, NEW t \in Types, t = at[th].t, at[th].pc \in Finding, NEW c, NEW rs, Return(th, t, c, rs),
           UNCHANGED <<made, named, over, overlap>>, NEW u \in Types, u # t, dict'[u] = dict[u]
    PROVE InOrder(u)'
<1>1. /\ \A o \in Thread : o # th => at'[o] = at[o]
      /\ at'[th].goal = None /\ at'[th].t \in {None, at[th].goal} /\ at'[th].pc \in {"idle", "new"}
      /\ \A o \in Thread : Looks(o, u)' => Looks(o, u)
    BY ReturnMoves
<1>2. InOrder(u) /\ u # None /\ AtOK(th) /\ made[u] \in 0 .. MaxClasses
    BY ClassIds DEF RegistryInv, IInvOne, IInvAlive, ThreadsOK, RegistryTypes
<1>3. CASE u # at[th].goal
    <2>1. at[th].t # u /\ at'[th].t # u /\ at'[th].goal # u
        BY <1>1, <1>2, <1>3
    <2> QED BY <1>1, <1>2, <2>1, OrderKept
<1>4. CASE u = at[th].goal
    <2>1. Kind[u] = "hidden" /\ Looks(th, u)
        BY <1>2, <1>4 DEF AtOK, Looks
    <2>2. ASSUME u \notin overlap PROVE made[u] # 1 /\ made[u] <= 1
        BY <1>2, <2>1, <2>2 DEF InOrder, MadeAlone
    <2>3. u \notin overlap' => MadeAlone(u)'
        BY <2>2 DEF MadeAlone
    <2> QED BY <2>1, <2>3 DEF InOrder
<1> QED BY <1>3, <1>4

\* The class that the lookup ends with becomes the attribute.
LEMMA EndsOne ==
    ASSUME RegistryInv, NEW th \in Thread, NEW t \in Types, t = at[th].t, at[th].pc \in {"locked", "cache"},
           NEW c, NEW rs, Return(th, t, c, rs), dict' = [dict EXCEPT ![t] = c],
           IF at[th].pc = "cache" THEN c = at[th].w ELSE c = named[t] /\ c # None /\ Kind[t] \in {"root", "object"},
           UNCHANGED <<made, mro, named, over, overlap>>
    PROVE IInvOne'
<1>1. /\ \A o \in Thread : o # th => at'[o] = at[o]
      /\ at'[th].pc \in {"idle", "new"} /\ ~Looks(th, t)'
      /\ \A u \in Types : \A o \in Thread : Looks(o, u)' => Looks(o, u)
    BY ReturnMoves DEF Finding
<1>2. /\ InOrder(t) /\ Introspected(t) /\ Looks(th, t) /\ AtOK(th) /\ made[t] \in Nat
      /\ dict'[t] = c /\ named \in [Types -> ClassId \cup {None}]
    BY Known, KindOfTypes DEF RegistryInv, IInvOne, IInvAlive, ThreadsOK, AtOK, Finding, Looks
<1>3. c \in ClassId /\ c # None
    BY <1>2, Known, ClassIds DEF AtOK, Carrying, RegistryInv
<1>4. NotBoth'
    BY <1>1, NotBothKept DEF RegistryInv, IInvOne
<1>5. ASSUME t \notin overlap, NEW o \in Thread PROVE ~Looks(o, t)'
    BY <1>1, <1>2, <1>5, Alone
<1>6. \A o \in Thread : \A pc \in {"make", "name", "cache"} : IsAt(o, pc, t)' => IsAt(o, pc, t) /\ at'[o] = at[o]
    BY <1>1 DEF IsAt
<1>7. (\E o \in Thread : IsAt(o, "name", t)) => \E o \in Thread : IsAt(o, "name", t)'
    <2>1. ASSUME NEW o \in Thread, IsAt(o, "name", t) PROVE IsAt(o, "name", t)'
        BY <1>1, <2>1 DEF IsAt
    <2> QED BY <2>1
<1>8. Latest(t)' = Latest(t)
    BY DEF Latest
<1>9. ASSUME Kind[t] = "enum" PROVE InOrder(t)'
    <2>1. OneEnum(t)'
        BY <1>2, <1>6, <1>9 DEF InOrder, OneEnum
    <2> QED BY <1>9, <2>1 DEF InOrder
<1>10. ASSUME Kind[t] = "object" PROVE InOrder(t)'
    <2>1. ObjectOrder(t)
        BY <1>2, <1>10 DEF InOrder
    <2>2. named[t] # None
        BY <2>1, <1>3 DEF ObjectOrder, IsAt
    <2>3. ObjectOrder(t)'
        BY <1>6, <1>8, <2>1, <2>2 DEF ObjectOrder
    <2> QED BY <1>10, <2>3 DEF InOrder
<1>11. ASSUME Kind[t] = "root" PROVE InOrder(t)'
    <2>1. RootOrder(t) /\ named[t] # None /\ (t \notin overlap => RootAlone(t))
        BY <1>2, <1>11 DEF InOrder
    <2>2. over[t] = None => c[2] <= named[t][2]
        <3>1. named[t][2] \in Nat
            BY <1>2, <2>1, ClassIds
        <3> QED BY <2>1, <3>1 DEF RootOrder, IsAt
    <2>3. RootOrder(t)'
        BY <1>2, <1>6, <1>7, <1>8, <2>1, <2>2 DEF RootOrder
    <2>4. ASSUME t \notin overlap PROVE RootAlone(t)'
        <3>1. c = named[t]
            BY <2>1, <2>4 DEF RootAlone, IsAt
        <3>2. \A o \in Thread : ~Looks(o, t)' /\ ~IsAt(o, "cache", t)'
            BY <1>5, <2>4 DEF IsAt, Looks
        <3> QED BY <1>2, <1>8, <2>1, <2>4, <3>1, <3>2 DEF RootAlone
    <2> QED BY <1>11, <2>1, <2>3, <2>4 DEF InOrder
<1>12. ASSUME Kind[t] = "struct" PROVE InOrder(t)'
    <2>1. ASSUME t \notin overlap PROVE MadeAlone(t)'
        <3>1. MadeAlone(t)
            BY <1>2, <1>12, <2>1 DEF InOrder
        <3>2. Closed(t)'
            BY <1>2, <1>3, <1>12 DEF Closed, Attr
        <3> QED BY <1>5, <2>1, <3>1, <3>2 DEF MadeAlone
    <2> QED BY <1>12, <2>1 DEF InOrder
<1>13. InOrder(t)'
    BY <1>2, <1>9, <1>10, <1>11, <1>12 DEF Introspected
<1>14. ASSUME NEW u \in Types, u # t PROVE InOrder(u)'
    <2>1. dict'[u] = dict[u] /\ at[th].pc \in Finding
        BY <1>14 DEF Finding
    <2> QED BY <1>14, <2>1, ReturnOthers
<1> QED BY <1>4, <1>13, <1>14, OneKept

\* There is a class already.
LEMMA FinishesOne ==
    ASSUME RegistryInv, NEW th \in Thread, Finishes(th, at[th].t, named[at[th].t])
    PROVE IInvOne'
<1>1. PICK t, c, rs : t = at[th].t /\ c = named[t] /\ rs = Plus(SetAttr(t, c, refs), c, 1)
    OBVIOUS
<1>2. /\ at[th].pc = "locked" /\ Kind[t] \in {"root", "object"} /\ c # None
      /\ dict' = [dict EXCEPT ![t] = c] /\ Return(th, t, c, rs)
      /\ UNCHANGED <<made, mro, named, over, overlap>>
    BY <1>1 DEF Finishes
<1>3. t \in Types
    BY <1>1, <1>2 DEF RegistryInv, IInvAlive, ThreadsOK, AtOK, Finding
<1> QED BY <1>1, <1>2, <1>3, EndsOne

\* The class that the thread has made becomes the attribute.
LEMMA CacheOne ==
    ASSUME RegistryInv, NEW th \in Thread, Cache(th)
    PROVE IInvOne'
<1>1. PICK t, c, rs : t = at[th].t /\ c = at[th].w /\ rs = SetAttr(t, c, refs)
    OBVIOUS
<1>2. /\ at[th].pc = "cache" /\ dict' = [dict EXCEPT ![t] = c] /\ Return(th, t, c, rs)
      /\ UNCHANGED <<made, mro, named, over, overlap>>
    BY <1>1 DEF Cache
<1>3. t \in Types
    BY <1>1, <1>2 DEF RegistryInv, IInvAlive, ThreadsOK, AtOK, Finding
<1> QED BY <1>1, <1>2, <1>3, EndsOne

\* A step of a thread that stays with its type, as far as it concerns the others.
LEMMA StaysOthers ==
    ASSUME RegistryInv, NEW th \in Thread, NEW t \in Types, at[th].t = t, at'[th].t = t, at'[th].goal = at[th].goal,
           \A o \in Thread : o # th => at'[o] = at[o], overlap' = overlap, NEW u \in Types, u # t,
           made'[u] = made[u], named'[u] = named[u], dict'[u] = dict[u], over'[u] = over[u]
    PROVE InOrder(u)'
<1>1. InOrder(u)
    BY DEF RegistryInv, IInvOne
<1> QED BY <1>1, OrderKept

\* Nobody comes to look for a type.
LEMMA StaysNotBoth ==
    ASSUME RegistryInv, NEW th \in Thread, at'[th].t = at[th].t, at'[th].goal = at[th].goal,
           \A o \in Thread : o # th => at'[o] = at[o], overlap' = overlap
    PROVE NotBoth' /\ \A u \in Types : \A o \in Thread : Looks(o, u)' <=> Looks(o, u)
<1>1. \A u \in Types : \A o \in Thread : Looks(o, u)' <=> Looks(o, u)
    BY DEF Looks
<1> QED BY <1>1, NotBothKept DEF RegistryInv, IInvOne

\* The class of the enumeration goes on to be the attribute.
LEMMA ResumesOne ==
    ASSUME RegistryInv, NEW th \in Thread, Resumes(th, at[th].t, named[at[th].t])
    PROVE IInvOne'
<1>1. PICK t, c : t = at[th].t /\ c = named[t]
    OBVIOUS
<1>2. /\ at[th].pc = "locked" /\ Kind[t] = "enum" /\ at' = [at EXCEPT ![th].pc = "name", ![th].w = c]
      /\ UNCHANGED <<made, mro, named, dict, over, overlap>>
    BY <1>1 DEF Resumes
<1>3. t \in Types /\ at \in [Thread -> Place] /\ InOrder(t)
    BY <1>1, <1>2, Known DEF RegistryInv, IInvOne, IInvAlive, ThreadsOK, AtOK, Finding
<1>4. /\ at'[th].t = t /\ at'[th].goal = at[th].goal /\ at'[th].pc = "name"
      /\ \A o \in Thread : o # th => at'[o] = at[o]
    BY <1>1, <1>2, <1>3 DEF Place
<1>5. NotBoth'
    BY <1>1, <1>2, <1>4, StaysNotBoth
<1>6. InOrder(t)'
    <2>1. \A o \in Thread : IsAt(o, "make", t)' => IsAt(o, "make", t)
        BY <1>4 DEF IsAt
    <2> QED BY <1>2, <1>3, <2>1 DEF InOrder, OneEnum
<1>7. ASSUME NEW u \in Types, u # t PROVE InOrder(u)'
    BY <1>1, <1>2, <1>3, <1>4, <1>7, StaysOthers
<1> QED BY <1>2, <1>5, <1>6, <1>7, OneKept

\* The GType names the class, and the lock is released.
LEMMA NameOne ==
    ASSUME RegistryInv, NEW th \in Thread, Name(th)
    PROVE IInvOne'
<1>1. PICK t, c : t = at[th].t /\ c = at[th].w
    OBVIOUS
<1>2. /\ at[th].pc = "name" /\ at' = [at EXCEPT ![th].pc = "cache"]
      /\ IF HasGType(t) THEN named' = [named EXCEPT ![t] = c] ELSE named' = named
      /\ UNCHANGED <<made, mro, dict, over, overlap>>
    BY <1>1 DEF Name
<1>3. t \in Types /\ at \in [Thread -> Place] /\ InOrder(t) /\ Introspected(t) /\ c \in Made(t) /\ IsAt(th, "name", t)
    BY <1>1, <1>2, Known DEF RegistryInv, IInvOne, IInvAlive, ThreadsOK, AtOK, Finding, Carrying, IsAt
<1>4. /\ at'[th].t = t /\ at'[th].goal = at[th].goal /\ at'[th].pc = "cache" /\ at'[th].w = c
      /\ \A o \in Thread : o # th => at'[o] = at[o]
    BY <1>1, <1>2, <1>3 DEF Place
<1>5. NotBoth' /\ \A o \in Thread : Looks(o, t)' <=> Looks(o, t)
    BY <1>1, <1>2, <1>3, <1>4, StaysNotBoth
<1>6. \A o \in Thread : /\ ~IsAt(o, "make", t)' /\ ~IsAt(o, "name", t)'
                        /\ IsAt(o, "cache", t)' => o = th \/ (IsAt(o, "cache", t) /\ at'[o] = at[o])
    BY <1>2, <1>4, Alone DEF IsAt
<1>7. /\ named \in [Types -> ClassId \cup {None}] /\ made[t] \in Nat /\ Latest(t)' = Latest(t)
      /\ c \in ClassId /\ c # None /\ c[1] = t /\ c[2] \in Nat /\ c[2] <= made[t] /\ (c[2] = 0 => Kind[t] = "root")
      /\ \A d \in Made(t) : d[2] \in Nat /\ d[2] <= made[t]
    BY <1>2, <1>3, Known, KindOfTypes, ClassIds DEF RegistryInv, IInvAlive, RegistryTypes, Made, Latest
<1>8. HasGType(t) => named'[t] = c
    BY <1>2, <1>3, <1>7
<1>9. ASSUME Kind[t] = "enum" PROVE InOrder(t)'
    <2>1. OneEnum(t) /\ made[t] = 1
        BY <1>3, <1>7, <1>9 DEF InOrder, OneEnum
    <2>2. OneEnum(t)'
        BY <1>2, <1>6, <1>7, <1>8, <1>9, <2>1 DEF OneEnum, HasGType
    <2> QED BY <1>9, <2>2 DEF InOrder
<1>10. ASSUME Kind[t] = "object" PROVE InOrder(t)'
    <2>1. ObjectOrder(t) /\ named'[t] = c
        BY <1>3, <1>8, <1>10 DEF InOrder, HasGType
    <2>2. over[t] = None
        BY <1>3, <2>1 DEF ObjectOrder
    <2>3. ObjectOrder(t)'
        BY <1>2, <1>6, <1>7, <2>1, <2>2 DEF ObjectOrder
    <2> QED BY <1>10, <2>3 DEF InOrder
<1>11. ASSUME Kind[t] = "root" PROVE InOrder(t)'
    <2>1. RootOrder(t) /\ named'[t] = c /\ (t \notin overlap => RootAlone(t))
        BY <1>3, <1>8, <1>11 DEF InOrder, HasGType
    <2>2. ASSUME over[t] = None PROVE c = Latest(t)
        BY <1>1, <1>3, <2>1, <2>2 DEF RootOrder
    <2>3. ASSUME over[t] = None, dict[t] # None PROVE dict[t][2] <= c[2]
        <3>1. dict[t] \in Made(t)
            BY <1>3, <2>3, Known DEF RegistryInv
        <3> QED BY <1>7, <2>2, <2>3, <3>1 DEF Latest
    <2>4. ASSUME over[t] = None, NEW o \in Thread, IsAt(o, "cache", t)' PROVE at'[o].w[2] <= c[2]
        <3>1. at'[o].w \in Made(t)
            <4>1. CASE o = th
                BY <1>3, <1>4, <4>1
            <4>2. CASE o # th
                BY <1>4, <2>4, <4>2 DEF IsAt, RegistryInv, IInvAlive, ThreadsOK, AtOK, Carrying
            <4> QED BY <4>1, <4>2
        <3> QED BY <1>7, <2>2, <2>4, <3>1 DEF Latest
    <2>5. RootOrder(t)'
        BY <1>2, <1>6, <1>7, <2>1, <2>2, <2>3, <2>4 DEF RootOrder
    <2>6. ASSUME t \notin overlap PROVE RootAlone(t)'
        <3>1. Attr(t) = None /\ RootAlone(t)
            BY <1>3, <2>1, <2>6 DEF RootAlone, Looks, IsAt
        <3>2. over[t] = None /\ dict[t] = None
            BY <1>7, <3>1 DEF Attr
        <3>3. Attr(t)' = None
            BY <1>2, <3>2 DEF Attr
        <3>4. \A o \in Thread : IsAt(o, "cache", t)' => o = th
            <4>1. \A o \in Thread : Looks(o, t) => o = th
                BY <1>3, <2>6, Alone DEF Looks, IsAt
            <4> QED BY <1>6, <4>1 DEF Looks, IsAt
        <3> QED BY <1>2, <1>4, <2>1, <3>2, <3>3, <3>4 DEF RootAlone
    <2> QED BY <1>2, <1>7, <1>11, <2>1, <2>5, <2>6 DEF InOrder
<1>12. ASSUME Kind[t] = "struct" PROVE InOrder(t)'
    <2>1. ASSUME t \notin overlap PROVE MadeAlone(t)'
        <3>1. MadeAlone(t)
            BY <1>3, <1>12, <2>1 DEF InOrder
        <3>2. \A o \in Thread : at[o].t = t /\ at[o].pc \in Carrying => at'[o].t = t /\ at'[o].pc \in Carrying
            BY <1>4 DEF Carrying
        <3>3. Closed(t)' = Closed(t)
            BY <1>2, <1>12 DEF Closed, HasGType, Attr
        <3> QED BY <1>2, <1>5, <3>1, <3>2, <3>3 DEF MadeAlone
    <2> QED BY <1>2, <1>12, <2>1 DEF InOrder
<1>13. InOrder(t)'
    BY <1>3, <1>9, <1>10, <1>11, <1>12 DEF Introspected
<1>14. ASSUME NEW u \in Types, u # t PROVE InOrder(u)'
    BY <1>1, <1>2, <1>3, <1>4, <1>7, <1>14, StaysOthers
<1> QED BY <1>2, <1>5, <1>13, <1>14, OneKept

\* The GType names the class of pygobject_new_with_interfaces.
LEMMA StashOne ==
    ASSUME RegistryInv, NEW th \in Thread, Stash(th)
    PROVE IInvOne'
<1>1. PICK t, c : t = at[th].t /\ c = at[th].w
    OBVIOUS
<1>2. /\ at[th].pc = "stash" /\ at' = [at EXCEPT ![th] = Idle] /\ named' = [named EXCEPT ![t] = c]
      /\ UNCHANGED <<made, mro, dict, over, overlap>>
    BY <1>1 DEF Stash
<1>3. /\ t \in Types /\ at \in [Thread -> Place] /\ InOrder(t) /\ Kind[t] = "hidden" /\ c \in Made(t) /\ c # None
      /\ named \in [Types -> ClassId \cup {None}] /\ Looks(th, t) /\ at[th].goal = None
    BY <1>1, <1>2, Known, ClassIds DEF RegistryInv, IInvOne, IInvAlive, ThreadsOK, AtOK, Carrying, Finding, Looks
<1>4. /\ at'[th].t = None /\ at'[th].goal = None /\ \A o \in Thread : o # th => at'[o] = at[o]
    BY <1>2, <1>3 DEF Idle
<1>5. \A u \in Types : \A o \in Thread : Looks(o, u)' => Looks(o, u) /\ o # th
    BY <1>4, ClassIds DEF Looks
<1>6. NotBoth'
    BY <1>2, <1>5, NotBothKept DEF RegistryInv, IInvOne
<1>7. InOrder(t)'
    <2>1. ASSUME t \notin overlap PROVE MadeAlone(t)'
        <3>1. MadeAlone(t)
            BY <1>3, <2>1 DEF InOrder
        <3>2. Closed(t)'
            BY <1>2, <1>3 DEF Closed
        <3>3. \A o \in Thread : ~Looks(o, t)'
            BY <1>3, <1>5, <2>1, Alone
        <3> QED BY <1>2, <3>1, <3>2, <3>3 DEF MadeAlone
    <2> QED BY <1>2, <1>3, <2>1 DEF InOrder
<1>8. ASSUME NEW u \in Types, u # t PROVE InOrder(u)'
    <2>1. InOrder(u) /\ u # None
        BY ClassIds DEF RegistryInv, IInvOne
    <2>2. named'[u] = named[u]
        BY <1>2, <1>3, <1>8
    <2>3. at[th].t # u /\ at'[th].t # u /\ at'[th].goal # u
        BY <1>1, <1>4, <1>8, <2>1
    <2> QED BY <1>2, <1>4, <2>1, <2>2, <2>3, OrderKept
<1> QED BY <1>2, <1>6, <1>7, <1>8, OneKept

\* What a step that makes a class leaves to be shown.
LEMMA CreateOne ==
    ASSUME RegistryInv, NEW t \in Types, NEW b \in Made(t) \cup {None}, Create(t, b), overlap' = overlap, NotBoth',
           \A u \in Types : over[u] # None => over'[u] # None,
           Raced(t)' \/ b = Latest(t) \/ Made(t) = {}, \A u \in Types : InOrder(u)'
    PROVE IInvOne'
<1>1. ASSUME NEW u \in Types PROVE Raced(u)' \/ InLine(u)'
    <2>1. IInvAlive /\ (Raced(u) \/ InLine(u)) /\ overlap \subseteq overlap'
        BY DEF RegistryInv, IInvOne
    <2>2. over[u] # None => over'[u] # None
        OBVIOUS
    <2>3. u = t => Raced(t)' \/ b = Latest(t) \/ Made(t) = {}
        OBVIOUS
    <2> QED BY <2>1, <2>2, <2>3, LineGrows
<1> QED BY <1>1 DEF IInvOne

\* What is known of the class that is made.
LEMMA Birth ==
    ASSUME RegistryInv, NEW t \in Types, NEW b, Create(t, b), NEW x, x = Fresh(t)
    PROVE /\ x \in ClassId /\ x # None /\ x[1] = t /\ x[2] = made[t] + 1 /\ x = Latest(t)'
          /\ made[t] \in Nat /\ made'[t] = made[t] + 1 /\ \A u \in Types : u # t => made'[u] = made[u]
          /\ \A c \in Made(t) : c[1] = t /\ c[2] \in Nat /\ c[2] <= made[t] /\ c = <<t, c[2]>> /\ (c[2] = 0 => Kind[t] = "root")
          /\ Kind[t] # "root" /\ made[t] = 0 => Made(t) = {}
<1>1. /\ x \in ClassId /\ x # None /\ x[1] = t /\ made' = [made EXCEPT ![t] = @ + 1]
      /\ made \in [Types -> 0 .. MaxClasses] /\ MaxClasses \in Nat
    BY CreateFacts, Known, KindOfTypes DEF RegistryInv
<1>2. x[2] = made[t] + 1 /\ x = Latest(t)'
    BY <1>1 DEF Fresh, Latest
<1>3. \A c \in Made(t) : c[1] = t /\ c[2] \in Nat /\ c[2] <= made[t] /\ c = <<t, c[2]>> /\ (c[2] = 0 => Kind[t] = "root")
    BY ClassIds DEF Made
<1> QED BY <1>1, <1>2, <1>3

\* Of types without a GType or a lock, one thread alone makes one class.
LEMMA FirstMade ==
    ASSUME RegistryInv, NEW th \in Thread, NEW t \in Types, at[th].t = t, at[th].pc \notin Carrying,
           Kind[t] \in {"struct", "hidden", "anon"}, t \notin overlap, NEW b, Create(t, b)
    PROVE made[t] = 0 /\ made'[t] = 1 /\ \A o \in Thread : Looks(o, t) => o = th
<1>1. MadeAlone(t) /\ Looks(th, t)
    BY DEF RegistryInv, IInvOne, InOrder, Looks
<1>2. made[t] \in Nat /\ made[t] <= 1 /\ made[t] # 1 /\ made'[t] = made[t] + 1
    BY <1>1, Birth DEF MadeAlone
<1>3. \A o \in Thread : Looks(o, t) => o = th
    BY <1>1, Alone
<1> QED BY <1>2, <1>3

\* A class that was the first one is carried by the only thread there.
LEMMA OneCarried ==
    ASSUME NEW t \in Types, made'[t] = 1, NEW th \in Thread, at'[th].t = t, at'[th].pc \in Carrying,
           \A o \in Thread : Looks(o, t)' => o = th
    PROVE MadeAlone(t)'
BY DEF MadeAlone

\* A class is made under the lock, deriving from the last, or without one by the only
\* thread there.
LEMMA MakeOne ==
    ASSUME RegistryInv, NEW th \in Thread, NEW t \in Types, t = at[th].t, NEW b \in Made(t) \cup {None},
           DeriveClass(th, b, 1), NEW pc \in {"name", "stash"},
           IF pc = "name" THEN at[th].pc = "make" /\ b = at[th].bases ELSE at[th].pc = "new" /\ b = None,
           at' = [at EXCEPT ![th].w = Fresh(t), ![th].pc = pc],
           named' = IF Kind[t] = "enum" THEN [named EXCEPT ![t] = Fresh(t)] ELSE named,
           UNCHANGED <<gone, dict, over, loading, lock, held, handed>>
    PROVE IInvOne'
<1>1. PICK x : x = Fresh(t)
    OBVIOUS
<1>2. Create(t, b) /\ overlap' = overlap
    BY DEF DeriveClass
<1>3. /\ x \in ClassId /\ x # None /\ x[1] = t /\ x[2] = made[t] + 1 /\ x = Latest(t)'
      /\ made[t] \in Nat /\ made'[t] = made[t] + 1 /\ \A u \in Types : u # t => made'[u] = made[u]
      /\ \A c \in Made(t) : c[1] = t /\ c[2] \in Nat /\ c[2] <= made[t] /\ c = <<t, c[2]>> /\ (c[2] = 0 => Kind[t] = "root")
      /\ Kind[t] # "root" /\ made[t] = 0 => Made(t) = {}
    BY <1>1, <1>2, Birth
<1>4. /\ at \in [Thread -> Place] /\ named \in [Types -> ClassId \cup {None}] /\ InOrder(t)
      /\ IF pc = "name" THEN Introspected(t) ELSE Kind[t] = "hidden"
    BY Known DEF RegistryInv, IInvOne, IInvAlive, ThreadsOK, AtOK, Finding
<1>5. /\ at'[th].t = t /\ at'[th].goal = at[th].goal /\ at'[th].pc = pc /\ at'[th].w = x
      /\ \A o \in Thread : o # th => at'[o] = at[o]
    BY <1>1, <1>4 DEF Place
<1>6. NotBoth' /\ \A o \in Thread : Looks(o, t)' <=> Looks(o, t)
    BY <1>2, <1>5, StaysNotBoth
<1>7. \A o \in Thread : IsAt(o, "cache", t)' => IsAt(o, "cache", t) /\ at'[o] = at[o]
    BY <1>5 DEF IsAt
<1>8. ASSUME pc = "name"
      PROVE /\ IsAt(th, "make", t) /\ \A o \in Thread : ~IsAt(o, "name", t)
            /\ IsAt(th, "name", t)' /\ \A o \in Thread : ~IsAt(o, "make", t)' /\ (IsAt(o, "name", t)' => o = th)
    BY <1>5, <1>8, Alone DEF IsAt
<1>9. ASSUME Kind[t] = "enum" PROVE InOrder(t)' /\ Made(t) = {}
    <2>1. pc = "name" /\ OneEnum(t) /\ named'[t] = x
        BY <1>1, <1>4, <1>9 DEF InOrder
    <2>2. made[t] = 0
        BY <1>8, <2>1 DEF OneEnum
    <2>3. OneEnum(t)'
        BY <1>3, <1>8, <2>1, <2>2 DEF OneEnum
    <2> QED BY <1>3, <1>9, <2>2, <2>3 DEF InOrder
<1>10. ASSUME Kind[t] = "object" PROVE InOrder(t)' /\ Made(t) = {}
    <2>1. pc = "name" /\ ObjectOrder(t) /\ named' = named
        BY <1>4, <1>10 DEF InOrder
    <2>2. made[t] = 0 /\ named[t] = None /\ dict[t] = None /\ over[t] = None
        BY <1>8, <2>1 DEF ObjectOrder
    <2>3. ObjectOrder(t)'
        BY <1>3, <1>7, <1>8, <2>1, <2>2 DEF ObjectOrder
    <2> QED BY <1>3, <1>10, <2>2, <2>3 DEF InOrder
<1>11. ASSUME Kind[t] = "root" PROVE InOrder(t)' /\ (Raced(t)' \/ b = Latest(t))
    <2>1. pc = "name" /\ RootOrder(t) /\ named' = named /\ named[t] # None /\ (t \notin overlap => RootAlone(t))
        BY <1>4, <1>11 DEF InOrder
    <2>2. over[t] = None => b = named[t] /\ b = Latest(t)
        BY <1>8, <2>1 DEF RootOrder
    <2>3. RootOrder(t)'
        BY <1>3, <1>5, <1>7, <1>8, <2>1, <2>2 DEF RootOrder
    <2>4. t \notin overlap => over[t] = None
        <3>1. Looks(th, t)
            BY DEF Looks
        <3>2. t \notin overlap => Attr(t) = None
            BY <2>1, <3>1 DEF RootAlone
        <3> QED BY <3>2 DEF Attr
    <2>5. ASSUME t \notin overlap PROVE RootAlone(t)'
        <3>1. Attr(t)' = Attr(t)
            BY DEF Attr
        <3> QED BY <1>6, <1>7, <2>1, <2>4, <2>5, <3>1 DEF RootAlone
    <2> QED BY <1>2, <1>11, <2>1, <2>2, <2>3, <2>4, <2>5 DEF InOrder, Raced
<1>12. ASSUME Kind[t] \in {"struct", "hidden"} PROVE InOrder(t)' /\ (Raced(t)' \/ Made(t) = {})
    <2>1. ASSUME t \notin overlap PROVE MadeAlone(t)' /\ Made(t) = {}
        <3>1. made[t] = 0 /\ made'[t] = 1 /\ \A o \in Thread : Looks(o, t) => o = th
            BY <1>2, <1>12, <2>1, FirstMade DEF Carrying
        <3>2. at'[th].pc \in Carrying
            BY <1>5 DEF Carrying
        <3>3. \A o \in Thread : Looks(o, t)' => o = th
            BY <1>6, <3>1
        <3>4. MadeAlone(t)'
            BY <1>5, <3>1, <3>2, <3>3, OneCarried
        <3> QED BY <1>3, <1>12, <3>1, <3>4
    <2> QED BY <1>2, <1>12, <2>1 DEF InOrder, Raced
<1>13. InOrder(t)' /\ (Raced(t)' \/ b = Latest(t) \/ Made(t) = {})
    BY <1>4, <1>9, <1>10, <1>11, <1>12 DEF Introspected
<1>14. ASSUME NEW u \in Types PROVE InOrder(u)'
    <2>1. u # t => named'[u] = named[u]
        BY <1>4
    <2> QED BY <1>2, <1>3, <1>5, <1>13, <2>1, StaysOthers
<1> QED BY <1>2, <1>6, <1>13, <1>14, CreateOne

\* Either is what a thread does.
LEMMA MakesOne ==
    ASSUME RegistryInv, NEW th \in Thread, Make(th) \/ new_with_interfaces(th)
    PROVE IInvOne'
<1>0. IInvAlive
    BY DEF RegistryInv
<1>1. PICK t : t = at[th].t
    OBVIOUS
<1>2. CASE Make(th)
    <2>1. /\ at[th].pc = "make" /\ DeriveClass(th, at[th].bases, 1)
          /\ named' = IF Kind[t] = "enum" THEN [named EXCEPT ![t] = Fresh(t)] ELSE named
          /\ at' = [at EXCEPT ![th].w = Fresh(t), ![th].pc = "name"]
          /\ UNCHANGED <<gone, dict, over, loading, lock, held, handed>>
        BY <1>1, <1>2 DEF Make
    <2>2. t \in Types /\ at[th].bases \in Made(t) \cup {None}
        BY <1>0, <1>1, <2>1 DEF IInvAlive, ThreadsOK, AtOK, Finding
    <2> QED BY <1>1, <2>1, <2>2, MakeOne
<1>3. CASE new_with_interfaces(th)
    <2>1. /\ at[th].pc = "new" /\ DeriveClass(th, None, 1)
          /\ at' = [at EXCEPT ![th].w = Fresh(t), ![th].pc = "stash"]
          /\ UNCHANGED <<gone, named, dict, over, loading, lock, held, handed>>
        BY <1>1, <1>3 DEF new_with_interfaces
    <2>2. t \in Types /\ Kind[t] = "hidden" /\ None \in Made(t) \cup {None}
        BY <1>0, <1>1, <2>1 DEF IInvAlive, ThreadsOK, AtOK
    <2>3. named' = IF Kind[t] = "enum" THEN [named EXCEPT ![t] = Fresh(t)] ELSE named
        BY <2>1, <2>2
    <2> QED BY <1>1, <2>1, <2>2, <2>3, MakeOne
<1> QED BY <1>2, <1>3

\* pyg_enum_add names the class that it made.
LEMMA AddOne ==
    ASSUME RegistryInv, NEW th \in Thread, pyg_enum_add(th)
    PROVE IInvOne'
<1>1. PICK t, x : t = at[th].t /\ x = Fresh(t)
    OBVIOUS
<1>2. /\ at[th].pc = "add" /\ Create(t, None) /\ named' = [named EXCEPT ![t] = x] /\ at' = [at EXCEPT ![th] = Idle]
      /\ UNCHANGED <<dict, over, overlap>>
    BY <1>1 DEF pyg_enum_add
<1>3. /\ t \in Types /\ at \in [Thread -> Place] /\ InOrder(t) /\ Kind[t] = "anon"
      /\ named \in [Types -> ClassId \cup {None}]
    BY <1>1, <1>2, Known DEF RegistryInv, IInvOne, IInvAlive, ThreadsOK, AtOK
<1>4. /\ x # None /\ made'[t] = made[t] + 1 /\ (\A u \in Types : u # t => made'[u] = made[u])
      /\ (made[t] = 0 => Made(t) = {})
    BY <1>1, <1>2, <1>3, Birth
<1>5. /\ at'[th].t = None /\ at'[th].goal = None /\ \A o \in Thread : o # th => at'[o] = at[o]
    BY <1>2, <1>3 DEF Idle
<1>6. \A u \in Types : \A o \in Thread : Looks(o, u)' => Looks(o, u) /\ o # th
    BY <1>5, ClassIds DEF Looks
<1>7. NotBoth'
    BY <1>2, <1>6, NotBothKept DEF RegistryInv, IInvOne
<1>8. InOrder(t)' /\ (Raced(t)' \/ Made(t) = {})
    <2>1. ASSUME t \notin overlap PROVE MadeAlone(t)' /\ Made(t) = {}
        <3>1. made[t] = 0 /\ made'[t] = 1 /\ \A o \in Thread : Looks(o, t) => o = th
            BY <1>1, <1>2, <1>3, <2>1, FirstMade DEF Carrying
        <3>2. Closed(t)'
            BY <1>2, <1>3, <1>4 DEF Closed
        <3>3. \A o \in Thread : ~Looks(o, t)'
            BY <1>3, <1>6, <3>1
        <3>4. MadeAlone(t)'
            BY <3>1, <3>2, <3>3 DEF MadeAlone
        <3> QED BY <1>4, <3>1, <3>4
    <2> QED BY <1>2, <1>3, <2>1 DEF InOrder, Raced
<1>9. ASSUME NEW u \in Types PROVE InOrder(u)'
    <2>1. InOrder(u) /\ u # None
        BY ClassIds DEF RegistryInv, IInvOne
    <2>2. CASE u # t
        <3>1. named'[u] = named[u] /\ made'[u] = made[u]
            BY <1>2, <1>3, <1>4, <2>2
        <3>2. at[th].t # u /\ at'[th].t # u /\ at'[th].goal # u
            BY <1>1, <1>5, <2>1, <2>2
        <3> QED BY <1>2, <1>5, <2>1, <3>1, <3>2, OrderKept
    <2> QED BY <1>8, <2>2
<1> QED BY <1>2, <1>3, <1>7, <1>8, <1>9, CreateOne

\* A class of Python is the only one of its type.
LEMMA DefineOne ==
    ASSUME RegistryInv, NEW t \in Types, NEW n \in {0, 1},
           IF n = 1 THEN Kind[t] = "sub" ELSE Kind[t] = "mine", Define(t, n)
    PROVE IInvOne'
<1>1. PICK x : x = Fresh(t)
    OBVIOUS
<1>2. /\ Create(t, None) /\ named' = [named EXCEPT ![t] = x] /\ made[t] = 0
      /\ UNCHANGED <<dict, over, overlap, at>>
    BY <1>1 DEF Define
<1>3. /\ made'[t] = 1 /\ (\A u \in Types : u # t => made'[u] = made[u]) /\ Made(t) = {}
      /\ named \in [Types -> ClassId \cup {None}] /\ Kind[t] \in {"sub", "mine"}
    BY <1>1, <1>2, Birth, Known DEF RegistryInv
<1>4. NotBoth'
    BY <1>2, NotBothKept DEF RegistryInv, IInvOne, Looks
<1>5. ASSUME NEW u \in Types PROVE InOrder(u)'
    <2>1. CASE u = t
        BY <1>3, <2>1 DEF InOrder
    <2>2. CASE u # t
        <3>1. InOrder(u) /\ named'[u] = named[u] /\ made'[u] = made[u]
            BY <1>2, <1>3, <2>2 DEF RegistryInv, IInvOne
        <3> QED BY <1>2, <3>1, OrderKept
    <2> QED BY <2>1, <2>2
<1> QED BY <1>2, <1>3, <1>4, <1>5, CreateOne

\* An override derives from the last class, and takes its place.
LEMMA OverrideOne ==
    ASSUME RegistryInv, NEW t \in Types, override(t)
    PROVE IInvOne'
<1>1. PICK x, b : x = Fresh(t) /\ b = dict[t]
    OBVIOUS
<1>2. /\ Kind[t] \in {"root", "object"} /\ b # None /\ over[t] = None
      /\ Create(t, b) /\ named' = [named EXCEPT ![t] = x] /\ over' = [over EXCEPT ![t] = x]
      /\ UNCHANGED <<dict, at, overlap>>
    BY <1>1 DEF override
<1>3. /\ named \in [Types -> ClassId \cup {None}] /\ over \in [Types -> ClassId \cup {None}] /\ b \in Made(t)
      /\ (named[t] # None => named[t] \in Made(t)) /\ InOrder(t)
    BY <1>1, <1>2, Known DEF RegistryInv, IInvOne
<1>4. /\ x \in ClassId /\ x # None /\ x = Latest(t)'
      /\ made[t] \in Nat /\ made'[t] = made[t] + 1 /\ \A u \in Types : u # t => made'[u] = made[u]
      /\ \A c \in Made(t) : c[1] = t /\ c[2] \in Nat /\ c[2] <= made[t] /\ c = <<t, c[2]>> /\ (c[2] = 0 => Kind[t] = "root")
    BY <1>1, <1>2, <1>3, Birth
<1>5. NotBoth'
    BY <1>2, NotBothKept DEF RegistryInv, IInvOne, Looks
<1>6. \A o \in Thread : \A pc \in {"make", "name", "cache"} : IsAt(o, pc, t)' <=> IsAt(o, pc, t)
    BY <1>2 DEF IsAt
<1>7. named'[t] = x /\ over'[t] = x
    BY <1>2, <1>3
<1>8. ASSUME Kind[t] = "object" PROVE InOrder(t)' /\ b = Latest(t)
    <2>1. ObjectOrder(t)
        BY <1>3, <1>8 DEF InOrder
    <2>2. named[t] # None /\ made[t] <= 1
        BY <1>1, <1>2, <2>1 DEF ObjectOrder
    <2>3. ObjectOrder(t)'
        BY <1>4, <1>6, <1>7, <2>1, <2>2 DEF ObjectOrder
    <2>4. b[2] = made[t]
        BY <1>3, <1>4, <1>8, <2>2
    <2> QED BY <1>3, <1>4, <1>8, <2>3, <2>4 DEF InOrder, Latest
<1>9. ASSUME Kind[t] = "root" PROVE InOrder(t)' /\ (Raced(t)' \/ b = Latest(t))
    <2>1. RootOrder(t) /\ (t \notin overlap => RootAlone(t))
        BY <1>3, <1>9 DEF InOrder
    <2>2. Attr(t) # None
        BY <1>1, <1>2 DEF Attr
    <2>3. RootOrder(t)'
        BY <1>4, <1>7 DEF RootOrder
    <2>4. ASSUME t \notin overlap PROVE RootAlone(t)' /\ b = Latest(t)
        <3>1. \A o \in Thread : ~Looks(o, t)
            BY <2>1, <2>2, <2>4 DEF RootAlone
        <3>2. \A o \in Thread : ~Looks(o, t)' /\ ~IsAt(o, "name", t) /\ ~IsAt(o, "cache", t)'
            BY <1>2, <3>1 DEF Looks, IsAt
        <3>3. b = named[t] /\ named[t] = Latest(t)
            BY <1>1, <1>2, <2>1, <2>4, <3>2 DEF RootAlone, RootOrder
        <3>4. RootAlone(t)'
            BY <1>4, <1>7, <3>2 DEF RootAlone
        <3> QED BY <3>3, <3>4
    <2> QED BY <1>2, <1>4, <1>7, <1>9, <2>3, <2>4 DEF InOrder, Raced
<1>10. InOrder(t)' /\ (Raced(t)' \/ b = Latest(t))
    BY <1>2, <1>8, <1>9
<1>11. ASSUME NEW u \in Types PROVE InOrder(u)'
    <2>1. CASE u # t
        <3>1. InOrder(u) /\ named'[u] = named[u] /\ made'[u] = made[u] /\ over'[u] = over[u]
            BY <1>2, <1>3, <1>4, <2>1 DEF RegistryInv, IInvOne
        <3> QED BY <1>2, <3>1, OrderKept
    <2> QED BY <1>10, <2>1
<1>12. \A u \in Types : over[u] # None => over'[u] # None
    BY <1>2, <1>3, <1>4
<1> QED BY <1>2, <1>3, <1>5, <1>10, <1>11, <1>12, CreateOne

\* The attribute that is moved is the class that the GType names.
LEMMA DeprecatedOne ==
    ASSUME RegistryInv, NEW t \in Types, deprecated_attr(t)
    PROVE IInvOne'
<1>1. PICK b, v : b = dict[t] /\ v = Attr(t)
    OBVIOUS
<1>2. /\ b # None /\ over' = [over EXCEPT ![t] = v] /\ dict' = [dict EXCEPT ![t] = None]
      /\ v = (IF over[t] # None THEN over[t] ELSE b)
      /\ UNCHANGED <<made, mro, named, at, overlap>>
    BY <1>1 DEF deprecated_attr, Attr
<1>3. /\ dict \in [Types -> ClassId \cup {None}] /\ over \in [Types -> ClassId \cup {None}] /\ InOrder(t)
      /\ b \in Made(t) /\ (named[t] # None => named[t] \in Made(t)) /\ made[t] \in Nat
    BY <1>1, <1>2, Known, KindOfTypes DEF RegistryInv, IInvOne
<1>4. v # None /\ over'[t] = v /\ dict'[t] = None /\ Attr(t)' = v
    BY <1>2, <1>3 DEF Attr
<1>5. \A c \in Made(t) : c[2] \in Nat /\ c[2] <= made[t] /\ c = <<t, c[2]>> /\ (c[2] = 0 => Kind[t] = "root")
    BY ClassIds DEF Made
<1>6. \A o \in Thread : /\ \A pc \in {"make", "name", "cache"} : IsAt(o, pc, t)' <=> IsAt(o, pc, t)
                        /\ Looks(o, t)' <=> Looks(o, t)
    BY <1>2 DEF IsAt, Looks
<1>7. Latest(t)' = Latest(t)
    BY <1>2 DEF Latest
<1>8. ASSUME Kind[t] = "enum" PROVE InOrder(t)'
    BY <1>2, <1>3, <1>6, <1>8 DEF InOrder, OneEnum
<1>9. ASSUME Kind[t] = "object" PROVE InOrder(t)'
    <2>1. ObjectOrder(t)
        BY <1>3, <1>9 DEF InOrder
    <2>2. named[t] # None
        BY <1>1, <1>2, <2>1 DEF ObjectOrder
    <2>3. v = named[t] /\ named[t] = Latest(t)
        <3>1. CASE over[t] # None
            BY <1>2, <2>1, <3>1 DEF ObjectOrder
        <3>2. CASE over[t] = None
            <4>1. made[t] <= 1 /\ v = b
                BY <1>2, <2>1, <3>2 DEF ObjectOrder
            <4>2. b[2] = made[t] /\ named[t][2] = made[t]
                BY <1>3, <1>5, <1>9, <2>2, <4>1
            <4> QED BY <1>3, <1>5, <2>2, <4>1, <4>2 DEF Latest
        <3> QED BY <3>1, <3>2
    <2>4. ObjectOrder(t)'
        BY <1>2, <1>4, <1>6, <1>7, <2>1, <2>2, <2>3 DEF ObjectOrder
    <2> QED BY <1>9, <2>4 DEF InOrder
<1>10. ASSUME Kind[t] = "root" PROVE InOrder(t)'
    <2>1. named[t] # None /\ RootOrder(t) /\ (t \notin overlap => RootAlone(t))
        BY <1>3, <1>10 DEF InOrder
    <2>2. RootOrder(t)'
        BY <1>4 DEF RootOrder
    <2>3. ASSUME t \notin overlap PROVE RootAlone(t)'
        <3>1. \A o \in Thread : ~Looks(o, t)
            BY <1>1, <1>4, <2>1, <2>3 DEF RootAlone
        <3>2. \A o \in Thread : ~Looks(o, t)' /\ ~IsAt(o, "name", t) /\ ~IsAt(o, "cache", t)'
            BY <1>6, <3>1 DEF Looks, IsAt
        <3>3. v = named[t] /\ named[t] = Latest(t)
            BY <1>1, <1>2, <2>1, <2>3, <3>2 DEF RootAlone, RootOrder
        <3> QED BY <1>2, <1>4, <1>7, <3>2, <3>3 DEF RootAlone
    <2> QED BY <1>2, <1>10, <2>1, <2>2, <2>3 DEF InOrder
<1>11. ASSUME Kind[t] \in {"struct", "hidden", "anon"} PROVE InOrder(t)'
    <2>1. Closed(t) => Closed(t)'
        BY <1>2, <1>4 DEF Closed
    <2>2. MadeAlone(t) => MadeAlone(t)'
        BY <1>2, <1>6, <2>1 DEF MadeAlone
    <2> QED BY <1>2, <1>3, <1>11, <2>2 DEF InOrder
<1>12. ASSUME Kind[t] \in {"sub", "mine"} PROVE InOrder(t)'
    BY <1>2, <1>3, <1>12 DEF InOrder
<1>13. InOrder(t)'
    BY <1>8, <1>9, <1>10, <1>11, <1>12, KindOfTypes DEF Kinds
<1>14. ASSUME NEW u \in Types PROVE InOrder(u)'
    <2>1. CASE u # t
        <3>1. InOrder(u) /\ dict'[u] = dict[u] /\ over'[u] = over[u]
            BY <1>2, <1>3, <2>1 DEF RegistryInv, IInvOne
        <3> QED BY <1>2, <3>1, OrderKept
    <2> QED BY <1>13, <2>1
<1>15. NotBoth'
    BY <1>2, NotBothKept DEF RegistryInv, IInvOne, Looks
<1>16. \A u \in Types : over[u] # None => over'[u] # None
    BY <1>2, <1>3, <1>4
<1> QED BY <1>2, <1>14, <1>15, <1>16, OneKept

\* Every step keeps the classes in order.
LEMMA StepOne ==
    ASSUME RegistryInv, Elementary
    PROVE IInvOne'
<1>1. (\E t \in Types, c \in ClassId, rs \in {refs} \cup {Plus(refs, x, 1) : x \in ClassId} : Shows(t, c, rs)) => IInvOne'
    BY StillOne DEF Shows
<1>2. Loaded => IInvOne'
    BY StillOne DEF Loaded
<1>3. (\E c \in ClassId : Drop(c) \/ Collect(c)) => IInvOne'
    BY StillOne DEF Drop, Collect
<1> QED BY <1>1, <1>2, <1>3, FindsOne, GoesOne, DefineOne, GoesOnOne, FinishesOne, ResumesOne, MakesOne, NameOne,
           CacheOne, StashOne, AddOne, OverrideOne, DeprecatedOne DEF Elementary

\* Where a program starts, no class was made, but those that the root types had.
LEMMA InitAlive ==
    ASSUME RegistryInit
    PROVE IInvAlive
<1>1. /\ uses \subseteq Types /\ made = [t \in Types |-> 0] /\ gone = {} /\ held = {}
      /\ refs = [c \in ClassId |-> IF c[2] = 0 /\ Kind[c[1]] = "root" THEN 2 ELSE 0]
      /\ base = [c \in ClassId |-> None] /\ mro = [c \in ClassId |-> {c}]
      /\ named = [t \in Types |-> IF Kind[t] = "root" THEN Static(t) ELSE None]
      /\ dict = [t \in Types |-> None] /\ over = [t \in Types |-> None]
      /\ lock = None /\ at = [th \in Thread |-> Idle] /\ handed = [t \in Types |-> {}] /\ overlap = {}
    BY KindOfTypes DEF RegistryInit
<1>2. \A t \in Types : Static(t) \in ClassId /\ Static(t)[1] = t /\ Static(t)[2] = 0
    BY ClassIds, KindOfTypes DEF Static
<1>3. \A th \in Thread : /\ at[th] \in Place /\ at[th].pc = "idle" /\ at[th].t = None /\ at[th].w = None
                         /\ at[th].goal = None /\ at[th].bases = None
    BY <1>1 DEF Place, PC, Idle
<1>4. RegistryTypes
    <2>1. made \in [Types -> 0 .. MaxClasses]
        BY <1>1, KindOfTypes
    <2>2. refs \in [ClassId -> Int] /\ mro \in [ClassId -> SUBSET ClassId]
        BY <1>1
    <2>3. named \in [Types -> ClassId \cup {None}]
        BY <1>1, <1>2
    <2>4. at \in [Thread -> Place]
        BY <1>1, <1>3
    <2> QED BY <1>1, <2>1, <2>2, <2>3, <2>4 DEF RegistryTypes
<1>5. RefersToMade
    <2>1. \A t \in Types : SomeMade(t, named[t])
        BY <1>1, <1>2 DEF SomeMade, Made
    <2> QED BY <1>1, <2>1 DEF RefersToMade, SomeMade
<1>6. ThreadsOK
    BY <1>1, <1>3, ClassIds DEF ThreadsOK, LockHeld, AtOK, Finding, Carrying
<1>7. ASSUME NEW c \in ClassId PROVE References(c) <= refs[c]
    <2>1. /\ c[1] \in Types /\ c # None /\ IsFiniteSet(ClassId) /\ IsFiniteSet(Thread)
        BY ClassIds
    <2>2. DictBy(c) = 0 /\ OverBy(c) = 0 /\ HeldBy(c) = 0
        BY <1>1, <2>1 DEF DictBy, OverBy, HeldBy, Is
    <2>3. CarriedBy(c) = 0
        <3>1. PICK f : f = [th \in Thread |-> at[th].w]
            OBVIOUS
        <3>2. DOMAIN f = Thread /\ \A th \in Thread : f[th] # c
            BY <1>3, <2>1, <3>1
        <3>3. HowMany(f, c) = 0
            BY <2>1, <3>2, HowManyNone
        <3> QED BY <3>1, <3>3 DEF CarriedBy
    <2>4. BasesBy(c) = 0
        <3>1. PICK f : f = [th \in Thread |-> at[th].bases]
            OBVIOUS
        <3>2. DOMAIN f = Thread /\ \A th \in Thread : f[th] # c
            BY <1>3, <2>1, <3>1
        <3>3. HowMany(f, c) = 0
            BY <2>1, <3>2, HowManyNone
        <3> QED BY <3>1, <3>3 DEF BasesBy
    <2>5. ParentsBy(c) = 0
        <3>1. PICK f : f = [x \in ClassId |-> ParentOf(x)]
            OBVIOUS
        <3>2. DOMAIN f = ClassId /\ \A x \in ClassId : f[x] # c
            BY <1>1, <2>1, <3>1 DEF ParentOf
        <3>3. HowMany(f, c) = 0
            BY <2>1, <3>2, HowManyNone
        <3> QED BY <3>1, <3>3 DEF ParentsBy
    <2>6. NamedBy(c) \in {0, 1} /\ (NamedBy(c) = 1 => c[2] = 0 /\ Kind[c[1]] = "root")
        BY <1>1, <1>2, <2>1 DEF NamedBy, Is
    <2>7. refs[c] = IF c[2] = 0 /\ Kind[c[1]] = "root" THEN 2 ELSE 0
        BY <1>1
    <2> QED BY <2>2, <2>3, <2>4, <2>5, <2>6, <2>7 DEF References
<1>8. EnumKept
    BY <1>1 DEF EnumKept
<1> QED BY <1>1, <1>4, <1>5, <1>6, <1>7, <1>8 DEF IInvAlive, Counted, GoneUnowned

\* The classes that the root types had are the only ones.
LEMMA InitOne ==
    ASSUME RegistryInit
    PROVE IInvOne
<1>1. /\ made = [t \in Types |-> 0] /\ mro = [c \in ClassId |-> {c}]
      /\ named = [t \in Types |-> IF Kind[t] = "root" THEN Static(t) ELSE None]
      /\ dict = [t \in Types |-> None] /\ over = [t \in Types |-> None] /\ at = [th \in Thread |-> Idle]
    BY DEF RegistryInit
<1>2. \A th \in Thread : at[th].pc = "idle" /\ at[th].t = None /\ at[th].goal = None
    BY <1>1 DEF Idle
<1>3. \A u \in Types : \A th \in Thread : ~Looks(th, u) /\ \A pc \in {"make", "name", "cache"} : ~IsAt(th, pc, u)
    BY <1>2, ClassIds DEF Looks, IsAt
<1>4. ASSUME NEW u \in Types PROVE InOrder(u)
    <2>1. made[u] = 0 /\ dict[u] = None /\ over[u] = None /\ named[u] = IF Kind[u] = "root" THEN Static(u) ELSE None
        BY <1>1
    <2>2. Static(u) # None /\ Static(u) = Latest(u)
        BY <2>1, KindOfTypes, ClassIds DEF Static, Latest
    <2>3. Kind[u] = "enum" => OneEnum(u)
        BY <2>1 DEF OneEnum
    <2>4. Kind[u] = "object" => ObjectOrder(u)
        BY <1>3, <2>1 DEF ObjectOrder
    <2>5. Kind[u] = "root" => RootOrder(u) /\ RootAlone(u)
        BY <1>3, <2>1, <2>2 DEF RootOrder, RootAlone
    <2>6. MadeAlone(u)
        BY <2>1 DEF MadeAlone
    <2> QED BY <2>1, <2>2, <2>3, <2>4, <2>5, <2>6 DEF InOrder
<1>5. ASSUME NEW u \in Types PROVE InLine(u)
    <2>1. \A c \in Made(u) : c = <<u, 0>> /\ c \in mro[c]
        BY <1>1, ClassIds DEF Made
    <2> QED BY <2>1 DEF InLine, Derives
<1> QED BY <1>3, <1>4, <1>5 DEF IInvOne, NotBoth

\* The invariant is inductive.
THEOREM RegistryKept == RegistrySpec => []RegistryInv
<1>1. RegistryInit => RegistryInv
    BY InitAlive, InitOne DEF RegistryInv
<1>2. RegistryInv /\ [RegistryNext]_registry => RegistryInv'
    <2>1. ASSUME RegistryInv, RegistryNext PROVE RegistryInv'
        <3>1. uses' = uses /\ Elementary
            BY <2>1, Steps
        <3> QED BY <2>1, <3>1, StepAlive, StepOne DEF RegistryInv
    <2>2. ASSUME RegistryInv, UNCHANGED registry PROVE RegistryInv'
        <3>1. /\ uses' = uses /\ UNCHANGED <<made, refs, gone, base, mro, named, dict, over, lock, at, held, handed, overlap>>
              /\ UNCHANGED <<made, mro, named, dict, over, at, overlap>>
            BY <2>2 DEF registry
        <3> QED BY <2>2, <3>1, StillAlive, StillOne DEF RegistryInv
    <2> QED BY <2>1, <2>2
<1> QED BY <1>1, <1>2, PTL DEF RegistrySpec

\* The class that a GType names is never collected, and has a reference: what
\* pyg_enum_from_gtype and pygobject_lookup_class rely on, which use it without
\* one of their own.
THEOREM NamedStayAlive == RegistrySpec => []NamedAlive
<1>1. RegistryInv => NamedAlive
    <2>1. ASSUME RegistryInv, NEW t \in Types, named[t] # None PROVE named[t] \notin gone /\ refs[named[t]] > 0
        <3>1. PICK d : d = named[t]
            OBVIOUS
        <3>2. d \in ClassId /\ d[1] = t /\ d \notin gone /\ d # None
            BY <2>1, <3>1, Known, NotGone DEF RegistryInv
        <3>3. /\ NamedBy(d) \in Nat /\ DictBy(d) \in Nat /\ OverBy(d) \in Nat /\ HeldBy(d) \in Nat
              /\ CarriedBy(d) \in Nat /\ BasesBy(d) \in Nat /\ ParentsBy(d) \in Nat
              /\ refs[d] \in Int
              /\ NamedBy(d) + DictBy(d) + OverBy(d) + HeldBy(d)
                     + CarriedBy(d) + BasesBy(d) + ParentsBy(d) <= refs[d]
            BY <2>1, <3>2, Terms DEF RegistryInv
        <3>4. NamedBy(d) > 0 \/ DictBy(d) > 0 \/ OverBy(d) > 0 \/ HeldBy(d) > 0 \/ CarriedBy(d) > 0
            <4>1. CASE Strong(t)
                BY <3>1, <3>2, <4>1 DEF NamedBy, Is
            <4>2. CASE Kind[t] = "mine"
                BY <2>1, <3>1, <4>2 DEF HeldBy, RegistryInv, IInvAlive, EnumKept
            <4>3. CASE Kind[t] = "enum"
                <5>1. dict[t] = d \/ over[t] = d \/ \E th \in Thread : at[th].w = d
                    BY <2>1, <3>1, <4>3 DEF RegistryInv, IInvAlive, EnumKept
                <5>2. ASSUME NEW th \in Thread, at[th].w = d PROVE CarriedBy(d) # 0
                    <6>1. PICK f : f = [o \in Thread |-> at[o].w]
                        OBVIOUS
                    <6>2. DOMAIN f = Thread /\ f[th] = d
                        BY <5>2, <6>1
                    <6>3. HowMany(f, d) # 0
                        BY <6>2, ClassIds, HowManyNone
                    <6> QED BY <6>1, <6>3 DEF CarriedBy
                <5>3. CarriedBy(d) # 0 => CarriedBy(d) > 0
                    BY <3>3
                <5> QED BY <3>2, <5>1, <5>2, <5>3 DEF DictBy, OverBy, Is
            <4> QED BY <4>1, <4>2, <4>3 DEF Strong
        <3>5. PICK a, b, c, e, f, g, h : /\ a = NamedBy(d) /\ b = DictBy(d) /\ c = OverBy(d) /\ e = HeldBy(d)
                                         /\ f = CarriedBy(d) /\ g = BasesBy(d) /\ h = ParentsBy(d)
            OBVIOUS
        <3>6. refs[d] > 0
            BY <3>3, <3>4, <3>5
        <3> QED BY <3>1, <3>2, <3>6
    <2> QED BY <2>1 DEF NamedAlive
<1> QED BY <1>1, RegistryKept, PTL

\* A type has one class, or a line of them, whatever threads asked for it at once:
\* IntrospectionModule.__getattr__ looks at the GType again under its lock.
THEOREM TypesHaveOneClass == RegistrySpec => []OneClass
<1>1. RegistryInv => OneClass
    <2>1. ASSUME RegistryInv, NEW t \in Types, ~Raced(t), NEW c \in handed[t], NEW d \in handed[t]
          PROVE Derives(c, d) \/ Derives(d, c)
        <3>1. InLine(t) /\ handed[t] \subseteq Made(t)
            BY <2>1 DEF RegistryInv, IInvOne, IInvAlive, RefersToMade
        <3>2. c \in Made(t) /\ d \in Made(t) /\ c[2] \in Nat /\ d[2] \in Nat
            BY <3>1, ClassIds DEF Made
        <3> QED BY <3>1, <3>2 DEF InLine
    <2> QED BY <2>1 DEF OneClass
<1> QED BY <1>1, RegistryKept, PTL

\* C code wraps values in the class that the namespace has for their type, or in
\* one that derives from it, whether the overrides or C code came first.
THEOREM NamespaceAndGTypeAgree == RegistrySpec => []NamespaceAgrees
<1>1. RegistryInv => NamespaceAgrees
    <2>1. ASSUME RegistryInv, NEW t \in Types, Introspected(t), HasGType(t), Attr(t) # None, ~Raced(t)
          PROVE Derives(named[t], Attr(t))
        <3>1. PICK c, d : c = named[t] /\ d = Attr(t)
            OBVIOUS
        <3>2. InLine(t) /\ InOrder(t) /\ d \in Made(t) /\ d # None /\ (c # None => c \in Made(t)) /\ made[t] \in Nat
            BY <2>1, <3>1, Known, KindOfTypes DEF RegistryInv, IInvOne, Attr
        <3>3. \A x \in Made(t) : x[2] \in Nat /\ x[2] <= made[t] /\ (x[2] = 0 => Kind[t] = "root")
            BY ClassIds DEF Made
        <3>4. c # None /\ d[2] <= c[2]
            <4>1. CASE Kind[t] = "enum"
                BY <3>1, <3>2, <3>3, <4>1 DEF InOrder, OneEnum
            <4>2. CASE Kind[t] = "object"
                <5>1. CASE over[t] # None
                    <6>1. c # None /\ d = c
                        BY <3>1, <3>2, <4>2, <5>1 DEF InOrder, ObjectOrder, Attr
                    <6> QED BY <3>2, <3>3, <6>1
                <5>2. CASE over[t] = None
                    <6>1. c # None /\ made[t] <= 1
                        BY <3>1, <3>2, <4>2, <5>2 DEF InOrder, ObjectOrder, Attr
                    <6> QED BY <3>2, <3>3, <4>2, <6>1
                <5> QED BY <5>1, <5>2
            <4>3. CASE Kind[t] = "root"
                <5>1. c # None
                    BY <3>1, <3>2, <4>3 DEF InOrder
                <5>2. CASE over[t] # None
                    <6>1. d = c
                        BY <2>1, <3>1, <3>2, <4>3, <5>2 DEF Raced, InOrder, RootAlone, Attr
                    <6> QED BY <3>2, <3>3, <5>1, <6>1
                <5>3. CASE over[t] = None
                    BY <3>1, <3>2, <4>3, <5>1, <5>3 DEF InOrder, RootOrder, Attr
                <5> QED BY <5>1, <5>2, <5>3
            <4> QED BY <2>1, <4>1, <4>2, <4>3 DEF Introspected, HasGType
        <3> QED BY <3>1, <3>2, <3>4 DEF InLine
    <2> QED BY <2>1 DEF NamespaceAgrees
<1> QED BY <1>1, RegistryKept, PTL
=============================================================================
