------------------------------ MODULE MCInvoke ------------------------------
(* Instances of Invoke for TLC: signatures and bounds. *)
EXTENDS Invoke, TLC

A(d, k, t, n, bad) == [dir |-> d, kind |-> k, transfer |-> t, n |-> n, bad |-> bad,
                       alloc |-> FALSE, of |-> 0]
Allocates(k, t, bad) == [A("out", k, t, 2, bad) EXCEPT !.alloc = TRUE]
View(i) == [A("out", "string", "nothing", 0, {}) EXCEPT !.of = i]
Void == A("out", "plain", "nothing", 0, {})
S(args, ret, throws) == [args |-> args, ret |-> ret, throws |-> throws]

\* Every kind in the direction and transfer where its conversions differ.
Signatures == {
    S(<<>>, Void, FALSE),
    S(<<A("in", "string", "nothing", 0, {0})>>, View(1), FALSE),
    S(<<A("in", "list", "everything", 2, {2}), A("inout", "string", "everything", 0, {0})>>,
      A("out", "list", "everything", 2, {2}), FALSE),
    S(<<A("in", "object", "everything", 0, {}), A("in", "carray", "container", 2, {0, 2, 3}),
        A("out", "string", "nothing", 0, {0})>>,
      A("out", "object", "everything", 0, {}), TRUE),
    S(<<A("in", "foreign", "everything", 0, {}), A("in", "hash", "nothing", 4, {3, 4})>>,
      A("out", "hash", "everything", 2, {1}), TRUE),
    S(<<A("in", "array", "nothing", 2, {1, 2}), A("in", "hash", "container", 4, {}),
        A("in", "plain", "nothing", 0, {0})>>,
      A("out", "array", "everything", 2, {2}), FALSE),
    S(<<A("in", "closure", "everything", 0, {}), A("in", "foreign", "nothing", 0, {}),
        A("in", "class", "nothing", 0, {0})>>,
      A("out", "struct", "everything", 0, {}), FALSE),
    S(<<A("in", "boxed", "everything", 0, {}), Allocates("boxed", "nothing", {}),
        Allocates("gvalue", "nothing", {0}), A("in", "plain", "nothing", 0, {0})>>,
      A("out", "boxed", "everything", 0, {}), TRUE),
    S(<<A("out", "gvalue", "everything", 0, {}), A("out", "string", "everything", 0, {0})>>,
      A("out", "list", "nothing", 1, {}), FALSE)}
Memory == Permutations(Block)
=============================================================================
