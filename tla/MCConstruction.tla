--------------------------- MODULE MCConstruction ---------------------------
(* Instances of Construction for TLC. *)
EXTENDS Construction

CONSTANTS o1, o2, o3

\* A class of Python derived from another, a widget of Python with a template,
\* and a widget of C.
Classes == {"Derived", "Widget", "Button"}
LevelsOf == [c \in Classes |-> CASE c = "Derived" -> 2 [] c = "Widget" -> 1 [] c = "Button" -> 0]
Types == [o \in Object |-> CASE o = o1 -> "Derived" [] o = o2 -> "Widget" [] o = o3 -> "Button"]
Blocks == Permutations(Wrapper)
=============================================================================
