---------------------------- MODULE CallableCache ----------------------------
(***************************************************************************)
(* How a callable of a typelib is made callable from Python, and Python    *)
(* from C: gi/pygi-cache.c walks the arguments once and decides which of   *)
(* them Python sees, numbers these, and finds the results;                 *)
(* gi/pygi-invoke.c binds the arguments of a Python call to the numbers;   *)
(* gi/pygi-closure.c collects what a Python callable called from C gets.   *)
(*                                                                         *)
(* The difficulty is that arguments own others.  An array owns its length  *)
(* and a callback its user data and destroy notify; an owner takes these   *)
(* over when it is reached, which may be before or after they are, so that *)
(* numbers already given out have to be taken back.                        *)
(***************************************************************************)
EXTENDS CallableInfo

CONSTANTS
    NULL,
    Callable,   \* the callables to build a cache for
    MaxGiven,   \* bound: positional arguments of one call
    MaxNamed    \* bound: keyword arguments of one call

ASSUME CallableAssumption ==
    /\ NULL \notin Callable
    /\ \A c \in Callable : WellFormed(c)
    /\ MaxGiven \in Nat /\ MaxNamed \in Nat

VARIABLES
    callable,   \* the GICallableInfo and its calling context
    cache,      \* the PyGICallableCache
    at,         \* what is built next: -1 the return value, i an argument, or
                \* Aborted
    call        \* the last call, or NULL

vars == <<callable, cache, at, call>>

\* An assertion has failed.
Aborted == -2

\* For vfuncs and callbacks the marshalling directions are reversed.
Direction(dir) ==
    CASE dir = "inout" -> {"from", "to"}
      [] dir = (IF callable.context = "py" THEN "in" ELSE "out") -> {"from"}
      [] OTHER -> {"to"}

----------------------------------------------------------------------------
(* The cache of one argument. *)

\* PyGIArgCache: pygi_arg_cache_alloc zeroes it, so its py_arg_index is 0.
Allocated(meta, dir) ==
    [meta |-> meta, dir |-> dir, py |-> 0, info |-> FALSE, pointer |-> FALSE]
Parent(dir, py, a) ==
    [meta |-> "parent", dir |-> dir, py |-> py, info |-> TRUE,
     pointer |-> a.type = "pointer"]
Instance == [Allocated("parent", {"from"}) EXCEPT !.pointer = TRUE]

Counts(condition) == IF condition THEN 1 ELSE 0

\* The cache before anything but the instance is in it.
EmptyCache(c) ==
    [args |-> [p \in Positions(c) |-> IF p < Offset(c) THEN Instance ELSE NULL],
     n_py_args |-> Offset(c), n_to_py_args |-> 0, n_to_py_child_args |-> 0,
     to_py_args |-> <<>>, user_data_varargs_arg |-> NoIndex,
     user_data_index |-> NoIndex]

\* Fault: nothing moves up.
NotRenumbered(args, length, pos) == args

\* The length gave its number back: those between it and its array move up.
Renumbered(args, length, pos) ==
    [p \in DOMAIN args |->
        IF p \in length + 1 .. pos - 1 THEN [args[p] EXCEPT !.py = @ - 1] ELSE args[p]]

\* The array at pos (-1 for the return value) takes its length over.
LengthSetup(c, dir, length, pos) ==
    LET child == c.args[length]
        unlisted == IF child # NULL /\ "to" \in dir
                    THEN SelectSeq(c.to_py_args, LAMBDA p : p # length)
                    ELSE c.to_py_args
        numbered == length < pos /\ "from" \in dir
        moved == IF numbered THEN Renumbered(c.args, length, pos) ELSE c.args
        taken == IF child = NULL THEN Allocated("child", dir)
                 ELSE [child EXCEPT !.meta = "child", !.dir = dir]
    IN IF child # NULL /\ child.meta = "child"
       THEN [c EXCEPT !.to_py_args = unlisted]      \* shared with another array
       ELSE [c EXCEPT !.to_py_args = unlisted,
                      !.n_to_py_child_args = @ + Counts("to" \in dir),
                      !.n_py_args = @ - Counts(numbered),
                      !.args = [moved EXCEPT ![length] = [taken EXCEPT !.py = NoIndex]]]

\* The callback takes its user data over, which keeps the number it may
\* already have, and its destroy notify.
CallbackSetup(c, dir, a) ==
    LET existing == c.args[a.closure]
        data == [Allocated("child_with_pyarg", dir) EXCEPT
                    !.py = IF existing # NULL THEN existing.py ELSE @]
    IN [c EXCEPT !.args = [p \in DOMAIN @ |->
            CASE p = a.destroy -> Allocated("child", dir)
              [] p = a.closure /\ p # a.destroy -> data
              [] OTHER -> @[p]]]

----------------------------------------------------------------------------
(* Building the cache: _callable_cache_generate_args_cache_real. *)

arg == Arg(callable, at)
direction == Direction(arg.dir)

Init ==
    /\ callable \in Callable
    /\ cache = EmptyCache(callable)
    /\ at = -1
    /\ call = NULL

CacheReturn ==
    /\ at = -1
    /\ cache' = IF callable.ret.length = NoIndex THEN cache
                ELSE LengthSetup(cache, Direction("out"), callable.ret.length, -1)
    /\ at' = Offset(callable)
    /\ UNCHANGED <<callable, call>>

Building == at \in Described(callable)

\* The user data of a callback, as it sees it itself.
CacheClosure ==
    /\ Building /\ arg.closure = at
    /\ cache' = [cache EXCEPT
            !.user_data_index = at,
            !.args[at] = [Allocated("closure", Direction("in")) EXCEPT
                             !.info = TRUE, !.pointer = TRUE]]
    /\ at' = at + 1
    /\ UNCHANGED <<callable, call>>

\* Filled in by its owner, which came first.
CacheChild ==
    /\ Building /\ arg.closure # at /\ cache.args[at] # NULL
    /\ LET seen == cache.args[at].meta = "child_with_pyarg"
       IN cache' = [cache EXCEPT
            !.n_py_args = @ + Counts(seen),
            !.n_to_py_args = @ + Counts("to" \in direction),
            !.args[at] = [@ EXCEPT !.info = TRUE,
                                   !.py = IF seen THEN cache.n_py_args ELSE @]]
    /\ at' = at + 1
    /\ UNCHANGED <<callable, call>>

\* The argument joins the cache, which setup may have changed, as number py.
Store(setup, py) ==
    /\ cache' = [setup EXCEPT
            !.args[at] = Parent(direction, py, arg),
            !.n_to_py_args = @ + Counts("to" \in direction),
            !.to_py_args = IF "to" \in direction THEN Append(@, at) ELSE @]
    /\ at' = at + 1
    /\ UNCHANGED <<callable, call>>

\* The cache and the number of an argument that Python passes.
Numbered == [cache EXCEPT !.n_py_args = @ + Counts("from" \in direction)]
NextNumber == IF "from" \in direction THEN cache.n_py_args ELSE NoIndex

CacheArg ==
    /\ Building /\ arg.closure # at /\ cache.args[at] = NULL
    /\ arg.length = NoIndex /\ arg.type # "callback"
    /\ Store(Numbered, NextNumber)

\* An array whose length came before it has one number less, like all others
\* in between.
CacheArray ==
    /\ Building /\ cache.args[at] = NULL
    /\ arg.length # NoIndex
    /\ LET setup == LengthSetup(Numbered, direction, arg.length, at)
       IN Store(setup, NextNumber + setup.n_py_args - Numbered.n_py_args)

\* The user data of a callback is among what Python gets already, as an argument
\* or as the data of another callback ("user_data should never be (out)").
DataGiven ==
    /\ arg.type = "callback" /\ arg.closure # NoIndex
    /\ cache.args[arg.closure] # NULL /\ "to" \in cache.args[arg.closure].dir

Abort ==
    /\ Building /\ cache.args[at] = NULL
    /\ DataGiven
    /\ at' = Aborted
    /\ UNCHANGED <<callable, cache, call>>

CacheCallback ==
    /\ Building /\ cache.args[at] = NULL
    /\ arg.type = "callback" /\ ~DataGiven
    /\ Store(CallbackSetup(Numbered, direction, arg), NextNumber)

----------------------------------------------------------------------------
(* The finished cache. *)

Seen(args, p) ==
    args[p].meta \notin {"child", "closure"} /\ "from" \in args[p].dir

\* The last argument, if it is user data, takes variable arguments.
VarargsArg(args) ==
    LET seen == {p \in DOMAIN args : Seen(args, p)}
    IN IF seen # {} /\ args[Max(seen)].meta = "child_with_pyarg" THEN Max(seen) ELSE NoIndex

\* Fault: lengths stay hidden.
LengthsHidden(args) == args

\* Closures pass the lengths of arrays on.
LengthsShown(args) ==
    [p \in DOMAIN args |->
        IF p \in {Arg(callable, q).length : q \in Described(callable)}
        THEN [args[p] EXCEPT !.meta = "parent"] ELSE args[p]]

\* The user data of a callback that does not say what it is.
GuessUserData(c) ==
    LET pointers == {p \in DOMAIN c.args : c.args[p].dir = {"to"} /\ c.args[p].pointer}
    IN IF c.user_data_index # NoIndex \/ pointers = {} THEN c.user_data_index
       ELSE Min(pointers)

Ready ==
    /\ at = Size(callable)
    /\ cache' = IF callable.context = "py"
                THEN [cache EXCEPT !.user_data_varargs_arg = VarargsArg(cache.args)]
                ELSE [cache EXCEPT !.user_data_varargs_arg = VarargsArg(cache.args),
                                   !.args = LengthsShown(@),
                                   !.user_data_index = GuessUserData(cache)]
    /\ at' = at + 1
    /\ UNCHANGED <<callable, call>>

Built == at = Size(callable) + 1

----------------------------------------------------------------------------
(* Python calls: _py_args_combine_and_check_length. *)

allow_none(p) == cache.args[p].info /\ Arg(callable, p).null
arg_name_hash == {p \in DOMAIN cache.args : Seen(cache.args, p) /\ cache.args[p].info}

\* Where next_python_argument finds number i after skipping so many.
Candidates(i, skipped) ==
    {p \in DOMAIN cache.args : p >= i + skipped /\ cache.args[p].py = i}

\* Item i when n arguments are positional; so is the state of the scan.
Item(n, i, p) ==
    CASE p = cache.user_data_varargs_arg ->
            Rest([k \in 1 .. Max({n - i, 0}) |-> Positional(i + k)])
      [] p # cache.user_data_varargs_arg /\ i < n -> Value(Positional(i + 1))
      [] p # cache.user_data_varargs_arg /\ i >= n /\ allow_none(p) -> Default
      [] OTHER -> NULL

Fill(n, scan, i) ==
    IF scan.outcome # "bound" \/ scan.items[i] # NULL THEN scan
    ELSE IF Candidates(i, scan.skipped) = {} THEN [scan EXCEPT !.outcome = "crashed"]
    ELSE LET p == Min(Candidates(i, scan.skipped))
         IN [scan EXCEPT !.skipped = p - i, !.items[i] = Item(n, i, p),
                         !.outcome = IF Item(n, i, p) = NULL THEN "refused" ELSE @]

FillAll(n, scan, upto) ==
    FoldLeft(LAMBDA s, i : Fill(n, s, i), scan, [k \in 1 .. upto |-> k - 1])

\* Keywords by name; user data that takes the rest gets a tuple of one.
ByName(scan, names) ==
    LET named == {cache.args[p].py : p \in names}
        One(i) == CHOOSE p \in names : cache.args[p].py = i
    IN IF \/ scan.outcome # "bound"
          \/ ~ (names \subseteq arg_name_hash)
          \/ Cardinality(named) < Cardinality(names)
          \/ \E i \in named : scan.items[i] # NULL
       THEN [scan EXCEPT !.outcome = IF @ = "bound" THEN "refused" ELSE @]
       ELSE [scan EXCEPT !.items = [i \in DOMAIN @ |->
                IF i \notin named THEN @[i]
                ELSE IF One(i) = cache.user_data_varargs_arg THEN Rest(<<Keyword(One(i))>>)
                ELSE Value(Keyword(One(i)))]]

\* The combined tuple for n positional arguments and names.
Combined(n, names) ==
    LET empty == [outcome |-> "bound", skipped |-> 0,
                  items |-> [i \in 0 .. cache.n_py_args - 1 |-> NULL]]
    IN IF n > cache.n_py_args /\ (cache.user_data_varargs_arg = NoIndex \/ names # {})
       THEN [empty EXCEPT !.outcome = "refused"]
       ELSE FillAll(n, ByName(FillAll(n, empty, Min({n, cache.n_py_args})), names),
                    cache.n_py_args)

\* What the from-Python marshaller of argument p is given.
Given(c, p) == c.items[cache.args[p].py]

\* The tuple a callback hands to its closure as user data; NULL for none.
\* The whole item is handed on when any user data takes the rest.
ClosureData(c, p) ==
    LET data == Given(c, Arg(callable, p).closure)
    IN IF Arg(callable, p).closure <= 0 \/ data = Default THEN NULL
       ELSE IF cache.user_data_varargs_arg = NoIndex THEN Rest(data.of) ELSE data

\* At most MaxNamed names, of which one may be nobody's.
Names(c) == UNION {kSubset(k, {NoName} \cup Described(c)) : k \in 0 .. MaxNamed}

Bind(n, names) ==
    /\ Built /\ callable.context = "py" /\ call = NULL
    /\ call' = LET c == Combined(n, names)
               IN [outcome |-> c.outcome, n |-> n, names |-> names, items |-> c.items]
    /\ UNCHANGED <<callable, cache, at>>

----------------------------------------------------------------------------
(* Results: _invoke_marshal_out_args. *)

has_return == ~ callable.ret.skip /\ callable.ret.type # "void"
n_out_args == cache.n_to_py_args - cache.n_to_py_child_args

\* The values of the result: -1 for the return value, NULL where the list of
\* arguments ends too early.
Results ==
    LET out == [i \in 1 .. n_out_args |->
                    IF i <= Len(cache.to_py_args) THEN cache.to_py_args[i] ELSE NULL]
    IN IF has_return THEN <<-1>> \o out ELSE out

----------------------------------------------------------------------------
(* C calls the Python callable: _pygi_closure_convert_arguments. *)

\* The values that argument p contributes, with this much user data; NULL
\* stands for None.
Passed(p, data) ==
    CASE "to" \notin cache.args[p].dir -> <<>>
      [] "to" \in cache.args[p].dir /\ p = cache.user_data_index ->
            IF data = NULL THEN <<NULL>> ELSE data
      [] "to" \in cache.args[p].dir /\ p # cache.user_data_index ->
            IF cache.args[p].meta = "parent" THEN <<p>> ELSE <<>>

UserData == {NULL, <<>>, <<"u1">>, <<"u1", "u2">>}

HandleClosure(data) ==
    /\ Built /\ callable.context = "c" /\ call = NULL
    /\ call' = [outcome |-> "called", data |-> data,
                items |-> FoldLeft(LAMBDA s, k : s \o Passed(k - 1, data), <<>>,
                                   [k \in 1 .. Size(callable) |-> k])]
    /\ UNCHANGED <<callable, cache, at>>

\* The call is over; the cache serves the next one.
Return ==
    /\ call # NULL
    /\ call' = NULL
    /\ UNCHANGED <<callable, cache, at>>

Next ==
    \/ CacheReturn \/ CacheClosure \/ CacheChild
    \/ CacheArg \/ CacheArray \/ CacheCallback \/ Abort
    \/ Ready
    \/ \E n \in 0 .. MaxGiven, names \in Names(callable) :
          Bind(n, names)
    \/ \E data \in UserData : HandleClosure(data)
    \/ Return

Spec == Init /\ [][Next]_vars

----------------------------------------------------------------------------
(* Properties. *)

ArgCache == [meta : {"parent", "child", "child_with_pyarg", "closure"},
             dir : SUBSET {"from", "to"}, py : Int, info : BOOLEAN, pointer : BOOLEAN]

\* The cache has its shape; the two counters and the list of results never
\* leave the range of the arguments, and nothing is listed twice.
TypeOK ==
    /\ WellFormed(callable)
    /\ at \in {Aborted} \cup -1 .. Size(callable) + 1
    /\ DOMAIN cache.args = Positions(callable)
    /\ \A p \in DOMAIN cache.args : cache.args[p] = NULL \/ cache.args[p] \in ArgCache
    /\ cache.n_py_args \in 0 .. Size(callable)
    /\ cache.n_to_py_args \in 0 .. Size(callable)
    /\ cache.n_to_py_child_args \in 0 .. Size(callable)
    /\ ToSet(cache.to_py_args) \subseteq Described(callable) /\ IsInjective(cache.to_py_args)
    /\ cache.user_data_varargs_arg \in {NoIndex} \cup Described(callable)
    /\ cache.user_data_index \in {NoIndex} \cup Described(callable)

\* A call from Python is accepted exactly when the signature that the
\* typelib describes accepts it, and then every argument of the C function
\* is converted from the Python value meant for it, in whatever order
\* owners and what they own come; and each closure keeps the tuple of its own
\* user data.  The last is not so of a callback whose data comes first of
\* all, or does not come last while other data does.
BoundAsDeclared ==
    (call # NULL /\ callable.context = "py") =>
        /\ call.outcome = IF Accepts(callable, call.n, call.names) THEN "bound" ELSE "refused"
        /\ call.outcome = "bound" =>
              \A k \in DOMAIN Shown(callable) :
                 LET p == Shown(callable)[k]
                     promised == Promised(callable, call.n, call.names, k)
                 IN /\ Given(call, p) = promised
                    /\ \A q \in Callbacks(callable) :
                          (Arg(callable, q).closure = p /\ p > 0
                           /\ (TakesRest(callable) => k = Len(Shown(callable)))) =>
                             ClosureData(call, q) =
                                IF promised = Default THEN NULL ELSE Rest(promised.of)

\* The result of a call is the return value and every output of the C
\* function but the lengths, in order: the two counters, kept while owners
\* take lengths over, agree with the list.
ResultsAsDeclared ==
    (Built /\ callable.context = "py") =>
        Results = (IF has_return THEN <<-1>> ELSE <<>>) \o
                  Subsequence(callable, LAMBDA p :
                      /\ p \in Described(callable) /\ Arg(callable, p).dir # "in"
                      /\ p \notin LengthsOf(callable))

\* What Python passes and gets back is what the typelib describes.
SignatureKept == TypeOK /\ BoundAsDeclared /\ ResultsAsDeclared

\* A Python callable gets each input of the C callback once and in order, and
\* the user data it was registered with in the place of the data pointer,
\* even when other callbacks with data are among its arguments; unless such data
\* comes before its callback or is that of two, which ends the process.
CallableGets ==
    /\ at = Aborted => callable.context = "c" /\ DataTaken(callable)
    /\ Built /\ callable.context = "c" => ~DataTaken(callable)
    /\ (call # NULL /\ callable.context = "c") =>
        call.items = CallableArgs(callable, IF call.data = NULL THEN <<NULL>> ELSE call.data)

\* The cache of every callable is built: the user data of a callback is never
\* one of the values that Python gets (pygi_arg_callback_new_from_info:
\* "user_data should never be (out)", and asserts that it is not).  Those for
\* which DataTaken holds break it.
NeverAborts == at # Aborted
=============================================================================
