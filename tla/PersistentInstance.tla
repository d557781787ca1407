------------------------- MODULE PersistentInstance -------------------------
(***************************************************************************)
(* What the shallow wrappers of ObjectWrapper promise to Python code: an   *)
(* instance (attributes and class) belongs to the GObject.  It is bound    *)
(* once, changes only when code that has the instance in hand assigns to   *)
(* it, and is there whenever the object is handed to Python again, until   *)
(* the object is finalized.                                                *)
(***************************************************************************)
EXTENDS Naturals

CONSTANTS Object, Class, Val, TypeOf, Empty

VARIABLES
    state,    \* "unbound", "bound" or "gone"
    attr,     \* the attributes of the instance
    class,    \* its Python class
    in_hand   \* how many references to it Python code has

vars == <<state, attr, class, in_hand>>

Init ==
    /\ state = [o \in Object |-> "unbound"]
    /\ attr = [o \in Object |-> Empty]
    /\ class = TypeOf
    /\ in_hand = [o \in Object |-> 0]

\* The object becomes known to Python, with or without handing it over.
Bind(o, n) ==
    /\ state[o] = "unbound"
    /\ state' = [state EXCEPT ![o] = "bound"]
    /\ in_hand' = [in_hand EXCEPT ![o] = n]
    /\ UNCHANGED <<attr, class>>

Give(o) ==
    /\ state[o] = "bound"
    /\ in_hand' = [in_hand EXCEPT ![o] = @ + 1]
    /\ UNCHANGED <<state, attr, class>>

Drop(o) ==
    /\ in_hand[o] > 0
    /\ in_hand' = [in_hand EXCEPT ![o] = @ - 1]
    /\ UNCHANGED <<state, attr, class>>

Assign(o, v, c) ==
    /\ in_hand[o] > 0
    /\ attr' = [attr EXCEPT ![o] = v]
    /\ class' = [class EXCEPT ![o] = c]
    /\ UNCHANGED <<state, in_hand>>

\* Only an object nobody has in hand goes away.
Vanish(o) ==
    /\ state[o] # "gone"
    /\ in_hand[o] = 0
    /\ state' = [state EXCEPT ![o] = "gone"]
    /\ attr' = [attr EXCEPT ![o] = Empty]
    /\ class' = [class EXCEPT ![o] = TypeOf[o]]
    /\ UNCHANGED in_hand

\* The last reference may take the object with it.
LetGo(o) ==
    /\ in_hand[o] = 1
    /\ state' = [state EXCEPT ![o] = "gone"]
    /\ in_hand' = [in_hand EXCEPT ![o] = 0]
    /\ attr' = [attr EXCEPT ![o] = Empty]
    /\ class' = [class EXCEPT ![o] = TypeOf[o]]

Next ==
    \E o \in Object :
        \/ \E n \in {0, 1} : Bind(o, n)
        \/ Give(o) \/ Drop(o) \/ Vanish(o) \/ LetGo(o)
        \/ \E v \in Val, c \in Class : Assign(o, v, c)

Spec == Init /\ [][Next]_vars
=============================================================================
