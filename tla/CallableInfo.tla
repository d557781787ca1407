---------------------------- MODULE CallableInfo ----------------------------
(***************************************************************************)
(* A callable as its typelib describes it, and what the description        *)
(* promises: which values Python passes, and which it gets.                *)
(*                                                                         *)
(* A callable is a record:                                                 *)
(*   context   "py" if Python calls it, "c" if C calls a Python callable;  *)
(*   instance  a method: the instance is argument 0 and args come after;   *)
(*   ret       the type and the length index of the return value, and      *)
(*             whether it is skipped;                                      *)
(*   args      a sequence of arguments: dir ("in", "out" or "inout", seen  *)
(*             from the C function), type, the index of the length, of the *)
(*             closure and of the destroy notify (or NoIndex), and null:   *)
(*             it may be NULL.                                             *)
(* Indices count from 0 and include the instance, as in args_cache.        *)
(***************************************************************************)
EXTENDS Integers, Sequences, FiniteSets, FiniteSetsExt, SequencesExt

NoIndex == -1
NoName == -2     \* a keyword that names no argument

Offset(c) == IF c.instance THEN 1 ELSE 0
Size(c) == Offset(c) + Len(c.args)
Positions(c) == 0 .. Size(c) - 1
Described(c) == Offset(c) .. Size(c) - 1
Arg(c, p) == c.args[p - Offset(c) + 1]

LengthsOf(c) == {Arg(c, p).length : p \in Described(c)} \cup {c.ret.length}
DestroysOf(c) == {Arg(c, p).destroy : p \in Described(c)}
Callbacks(c) == {p \in Described(c) : Arg(c, p).type = "callback"}
DataOf(c) == {Arg(c, p).closure : p \in Callbacks(c)}
OwnData(c) == {p \in Described(c) : Arg(c, p).closure = p}

\* What annotations are about: a length has the direction of its arrays, user
\* data and destroy notifies are plain inputs, and a destroy notify comes
\* after its callback.  Only callbacks have user data of their own, which comes
\* last in those that Python calls.
WellFormed(c) ==
    /\ c.context = "c" => ~c.instance
    /\ \A p \in Described(c) : LET a == Arg(c, p) IN
          /\ a.length # NoIndex =>
                /\ a.type = "array" /\ a.length \in Described(c)
                /\ Arg(c, a.length).type = "plain" /\ Arg(c, a.length).dir = a.dir
          /\ a.closure # NoIndex =>
                /\ a.closure \in Described(c) /\ Arg(c, a.closure).type = "pointer"
                /\ Arg(c, a.closure).dir = "in" /\ a.dir = "in"
                /\ a.type = "callback" \/ (a.closure = p /\ ~c.instance)
          /\ a.destroy # NoIndex =>
                /\ a.type = "callback" /\ a.dir = "in" /\ a.destroy \in p + 1 .. Size(c) - 1
                /\ Arg(c, a.destroy).type = "callback" /\ Arg(c, a.destroy).dir = "in"
                /\ Arg(c, a.destroy).closure = NoIndex /\ Arg(c, a.destroy).destroy = NoIndex
                /\ a.destroy \notin {Arg(c, q).destroy : q \in Described(c) \ {p}}
    /\ c.ret.length # NoIndex =>
          /\ c.ret.type = "array" /\ c.ret.length \in Described(c)
          /\ Arg(c, c.ret.length).type = "plain" /\ Arg(c, c.ret.length).dir = "out"
    /\ Cardinality(OwnData(c)) <= 1 /\ OwnData(c) \cap DataOf(c) = {}
    /\ c.context = "py" => OwnData(c) \subseteq {Size(c) - 1}

----------------------------------------------------------------------------
(* Calls from Python. *)

\* What the combined tuple holds: one value, or the tuple of the rest.
Value(v) == [kind |-> "value", of |-> <<v>>]
Rest(s) == [kind |-> "rest", of |-> s]
Default == [kind |-> "default", of |-> <<>>]     \* the placeholder
Positional(k) == <<"positional", k>>
Keyword(p) == <<"keyword", p>>

Subsequence(c, Test(_)) == SelectSeq([i \in 1 .. Size(c) |-> i - 1], Test)
TakesData(c, p) == p \in DataOf(c)

\* What Python passes, in the order of C: every input that nothing owns, the
\* user data of callbacks among them.
Shown(c) ==
    Subsequence(c, LAMBDA p : p < Offset(c) \/
        (/\ Arg(c, p).dir # "out"
         /\ p \notin LengthsOf(c) \cup DestroysOf(c) \cup OwnData(c)))

\* Trailing user data takes the rest of the arguments.
TakesRest(c) == Shown(c) # <<>> /\ TakesData(c, Last(Shown(c)))

\* User data that comes before its callback has lost its description: it can
\* be neither named nor left out.
Remembered(c, p) ==
    p >= Offset(c) /\ ~ \E q \in Callbacks(c) : Arg(c, q).closure = p /\ p < q

\* How Python binds n positional arguments and names to such a signature.
Accepts(c, n, names) ==
    LET shown == Shown(c)
        TakesTail(k) == k = Len(shown) /\ TakesRest(c)
    IN /\ n <= Len(shown) \/ (TakesRest(c) /\ names = {})
       /\ \A p \in names : /\ p \in ToSet(shown) /\ Remembered(c, p)
                           /\ \A k \in DOMAIN shown : shown[k] = p => k > n
       /\ \A k \in DOMAIN shown :
             k <= n \/ shown[k] \in names \/ TakesTail(k)
             \/ (Remembered(c, shown[k]) /\ Arg(c, shown[k]).null)

\* The user data of a callback comes before it, or is that of an earlier one.
DataTaken(c) == \E q \in Callbacks(c) :
    LET d == Arg(c, q).closure
    IN d # NoIndex /\ (d < q \/ \E r \in Callbacks(c) : r < q /\ Arg(c, r).closure = d)

\* The value of the k-th of these arguments.
Promised(c, n, names, k) ==
    LET p == Shown(c)[k]
    IN IF k = Len(Shown(c)) /\ TakesRest(c)
       THEN IF p \in names THEN Rest(<<Keyword(p)>>)
            ELSE Rest([j \in 1 .. Max({n - k + 1, 0}) |-> Positional(k + j - 1)])
       ELSE IF k <= n THEN Value(Positional(k))
       ELSE IF p \in names THEN Value(Keyword(p)) ELSE Default

\* What a Python callable gets: every input in order, lengths included, with
\* the user data, item by item, in its place; what belongs
\* to a nested callback is left out.
DataPosition(c) ==
    LET pointers == {p \in Described(c) : /\ Arg(c, p).type = "pointer" /\ Arg(c, p).dir = "in"
                                          /\ ~ TakesData(c, p)}
    IN IF OwnData(c) # {} THEN OwnData(c)
       ELSE IF pointers # {} THEN {Min(pointers)} ELSE {}

CallableArgs(c, data) ==
    LET before(p) == Subsequence(c, LAMBDA q :
            /\ Arg(c, q).dir # "out"
            /\ q \notin DestroysOf(c) \cup DataOf(c) \cup DataPosition(c) /\ q < p)
        all == before(Size(c))
        rest(p) == SubSeq(all, Len(before(p)) + 1, Len(all))
        place == CHOOSE p \in DataPosition(c) : TRUE
    IN IF DataPosition(c) = {} THEN all
       ELSE before(place) \o data \o rest(place)
=============================================================================
