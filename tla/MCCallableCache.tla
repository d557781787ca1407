--------------------------- MODULE MCCallableCache ---------------------------
(* Instances of CallableCache for TLC: families of arguments in every order. *)
EXTENDS CallableCache

A(dir, type) == [dir |-> dir, type |-> type, length |-> NoIndex, closure |-> NoIndex,
                 destroy |-> NoIndex, null |-> FALSE]
Plain == A("in", "plain")
Null(x) == [x EXCEPT !.null = TRUE]
Array(dir, length) == [A(dir, "array") EXCEPT !.length = length]
Callback(data, destroy) ==
    [A("in", "callback") EXCEPT !.closure = data, !.destroy = destroy, !.null = TRUE]
Data(k) == [A("in", "pointer") EXCEPT !.closure = k, !.null = TRUE]

R(type, length, skip) == [type |-> type, length |-> length, skip |-> skip]
Void == R("void", NoIndex, FALSE)

\* Each is a return value and arguments that own each other by position.
Families == {
    [ret |-> R("plain", NoIndex, FALSE),
     args |-> <<Array("in", 1), Plain, Null(Plain), A("out", "plain")>>],
    [ret |-> Void, args |-> <<Array("inout", 1), A("inout", "plain"), Plain, A("inout", "plain")>>],
    [ret |-> R("array", 1, FALSE),
     args |-> <<Array("out", 1), A("out", "plain"), A("out", "plain"), Plain>>],
    [ret |-> R("plain", NoIndex, TRUE),
     args |-> <<Array("in", 2), Null(Array("in", 2)), Plain, Null(Plain)>>],
    [ret |-> Void, args |-> <<Array("out", 1), A("out", "plain"), Array("in", 3), Plain>>],
    [ret |-> Void, args |-> <<Callback(1, 2), Data(NoIndex), A("in", "callback"), Plain>>],
    [ret |-> Void, args |-> <<Callback(2, NoIndex), Callback(3, NoIndex), Data(NoIndex), Data(NoIndex)>>],
    [ret |-> Void, args |-> <<Callback(2, NoIndex), Callback(2, NoIndex), Data(NoIndex), Plain>>],
    [ret |-> Void, args |-> <<Callback(1, NoIndex), Data(NoIndex), Array("in", 3), Plain>>],
    [ret |-> R("array", 4, FALSE),
     args |-> <<Callback(1, 2), Data(NoIndex), A("in", "callback"), Array("in", 4), Plain>>],
    [ret |-> R("array", 2, FALSE),
     args |-> <<Array("inout", 1), A("inout", "plain"), A("out", "plain"), Plain, Null(Plain)>>],
    [ret |-> Void, args |-> <<Callback(1, NoIndex), Data(NoIndex), Plain, Data(NoIndex)>>],
    [ret |-> Void, args |-> <<Callback(NoIndex, 1), A("in", "callback"), Plain>>],
    [ret |-> Void, args |-> <<A("in", "pointer"), Plain, Data(NoIndex)>>]}

\* The arguments of a family in the order p, links and all; those of a method
\* count the instance.  Where there is user data, it is also their own.
Ordered(f, p, context, instance, own) ==
    LET offset == IF instance THEN 1 ELSE 0
        Link(k) == IF k = NoIndex THEN NoIndex
                   ELSE (CHOOSE i \in DOMAIN p : p[i] = k + 1) - 1 + offset
        Moved(x, i) ==
            [x EXCEPT !.length = Link(@), !.destroy = Link(@),
                        !.closure = IF own /\ x.type = "pointer" /\ p[i] = Len(p)
                                    THEN i - 1 ELSE Link(@)]
    IN [context |-> context, instance |-> instance,
        ret |-> [f.ret EXCEPT !.length = Link(@)],
        args |-> [i \in DOMAIN p |-> Moved(f.args[p[i]], i)]]

Orders(n) == {p \in [1 .. n -> 1 .. n] : IsInjective(p)}

Callables ==
    {c \in UNION {{Ordered(f, p, ctx[1], ctx[2], own) : p \in Orders(Len(f.args))} :
                    f \in Families, own \in BOOLEAN,
                    ctx \in {<<"py", FALSE>>, <<"py", TRUE>>, <<"c", FALSE>>}} :
        WellFormed(c)}
=============================================================================
