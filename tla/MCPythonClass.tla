---------------------------- MODULE MCPythonClass ---------------------------
(* Instances of PythonClass for TLC. *)
EXTENDS PythonClass

SomeVfuncs == {<<"r", "m">>, <<"I", "m">>, <<"I", "n">>, <<"J", "n">>}

Plain == [lists |-> {}, own |-> {}, gtype_name |-> NULL, gsignals |-> <<>>, gproperties |-> <<>>]

\* Statements with interfaces and methods.
Do(of, name) == [of |-> of, name |-> name]
Own == {{}} \cup {{x} : x \in {Do(NULL, "m"), Do(NULL, "n"), Do("r", "m"), Do("I", "m"), Do("I", "n")}}
       \cup {{Do("I", "n"), Do(NULL, "m")}, {Do("I", "n"), Do(NULL, "n")}}
WithMethods == {[Plain EXCEPT !.lists = l, !.own = o] : l \in SUBSET Interfaces, o \in Own}

\* Statements with names, signals and properties.
Signals == {<<>>, [s |-> "new"], [s |-> "override"], [s |-> "new", t |-> "bad"], [s |-> "new", c |-> "override"]}
Properties == {<<>>, [p |-> "new"], [p |-> "new", q |-> "bad"]}
WithMembers ==
    {[Plain EXCEPT !.gtype_name = n, !.gsignals = s, !.gproperties = p] :
        n \in {NULL, "X"}, s \in Signals, p \in Properties}

\* A class that fails after its GType was made.
Fails == [Plain EXCEPT !.lists = {"I"}, !.gproperties = [q |-> "bad"]]
SomePrograms == {[says |-> WithMethods \cup {Fails}, upto |-> 3], [says |-> WithMembers, upto |-> 3],
                 [says |-> {Plain, Fails}, upto |-> 5]}
=============================================================================
