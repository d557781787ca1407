------------------------------- MODULE Invoke -------------------------------
(***************************************************************************)
(* Calling a C function from Python (gi/pygi-invoke.c,                     *)
(* gi/pygi-marshal-cleanup.c): the arguments are converted one by one, the *)
(* function runs without the GIL, the results are converted, and what the  *)
(* conversions left behind is cleaned up.                                  *)
(*                                                                         *)
(* Conversions run Python code and the call drops the GIL, so calls of     *)
(* several threads, and calls made from within a call, interleave after    *)
(* every argument.  They share free_arg_state, the cache of argument       *)
(* blocks; the cleanup data of a call live in its block.                   *)
(***************************************************************************)
EXTENDS Marshal, Sequences

CONSTANTS
    Call,        \* calls in progress at one time
    Signature,   \* the callables: [args, ret, throws]
    Block,       \* memory for argument blocks
    NMax,        \* PyGI_INVOKE_ARG_STATE_N_MAX
    NULL

ASSUME InvokeAssumption ==
    /\ NULL \notin Block
    /\ NMax \in Nat \ {0}

VARIABLES
    slot,     \* free_arg_state: a block per argument count, or NULL
    size,     \* arguments a block has room for; -1: released
    from_cell,\* block contents: from_py_arg_cleanup_data of each argument
    to_cell,  \* block contents: to_py_arg_cleanup_data
    ret_cell, \* to_py_return_arg_cleanup_data, on the stack of the call
    pc,       \* where the call is
    sig,      \* its signature
    block,    \* its block (state->args), or NULL
    at,       \* the argument to be converted next
    ours,     \* memory the call has to see released
    theirs,   \* memory of the callee
    result,   \* memory the Python result answers for
    over,     \* memory released by somebody who did not own it
    outcome   \* how the call went: see Outcome

bvars == <<slot, size, from_cell, to_cell>>
mvars == <<ours, theirs, result, over>>
vars == <<bvars, mvars, ret_cell, pc, sig, block, at, outcome>>

Outcome == {"", "unbound", "badarg", "gerror", "badresult", "ok"}

\* A chunk of a call: argument (0: the return value), side and position.
Of(i, side, chunks) == {<<i, side, c>> : c \in chunks}
CellsOf(i, side, cells) ==
    {Cell(Of(i, side, c.destroy), Of(i, side, c.failed)) : c \in cells}

NArgs(s) == Len(s.args) + (IF s.throws THEN 1 ELSE 0)

MaxItems == 4   \* bound: items of one container
Parameter == [kind : Kind, dir : {"in", "out", "inout"}, transfer : Transfer,
              n : 0 .. MaxItems, bad : SUBSET (0 .. MaxItems + 1), alloc : BOOLEAN,
              of : Nat]

IsIn(a) == a.dir \in {"in", "inout"}
IsOut(a) == a.dir \in {"out", "inout"}

\* There is a callable with the most arguments; what a result points into is
\* memory that an argument was converted to.
ASSUME SignatureAssumption ==
    /\ \A s \in Signature : /\ s.args \in Seq(Parameter)
                            /\ s.ret \in Parameter
                            /\ s.throws \in BOOLEAN
    /\ \E s \in Signature : \A t \in Signature : NArgs(t) <= NArgs(s)
    /\ \A s \in Signature : \A r \in {s.ret} \cup {s.args[i] : i \in DOMAIN s.args} :
          r.of # 0 => /\ r.of \in DOMAIN s.args
                      /\ IsIn(s.args[r.of])
                      /\ 0 \in FromPy(s.args[r.of], Whole).had

\* What the annotations of a callable can say: only a struct or an array is
\* allocated by the caller, to be filled in (pygi_arg_cache_is_caller_allocates,
\* _caller_alloc); a container alone can be transferred without its items; and a
\* value that comes from C fails as a whole or at one of its items.
Annotated(a) ==
    /\ a.alloc => /\ a.dir = "out"
                  /\ a.kind \in {"boxed", "struct", "gvalue", "foreign", "array", "carray"}
    /\ a.transfer = "container" => a.kind \in Container
    /\ IsOut(a) => a.bad \subseteq Chunks(a)
ASSUME AnnotationAssumption ==
    \A s \in Signature : /\ \A i \in DOMAIN s.args : Annotated(s.args[i])
                         /\ Annotated(s.ret) /\ s.ret.dir = "out" /\ ~s.ret.alloc

Width == CHOOSE n \in {NArgs(s) : s \in Signature} :
            \A s \in Signature : NArgs(s) <= n
Blank == [i \in 1 .. Width |-> {}]
NoSignature == CHOOSE s \in Signature : TRUE

\* Run destructors, each of which releases some chunks.  A chunk that was not
\* the call's to release, or is released twice, is one too many.
Free(c, releases) ==
    LET all == UNION releases
        twice == {x \in all : Cardinality({r \in releases : x \in r}) > 1}
    IN /\ ours' = [ours EXCEPT ![c] = @ \ all]
       /\ over' = [over EXCEPT ![c] = @ \cup (all \ ours[c]) \cup twice]

Init ==
    /\ slot = [n \in 0 .. NMax - 1 |-> NULL]
    /\ size = [b \in Block |-> -1]
    /\ from_cell = [b \in Block |-> Blank]
    /\ to_cell = [b \in Block |-> Blank]
    /\ ret_cell = [c \in Call |-> {}]
    /\ pc = [c \in Call |-> "idle"]
    /\ sig = [c \in Call |-> NoSignature]
    /\ block = [c \in Call |-> NULL]
    /\ at = [c \in Call |-> 0]
    /\ ours = [c \in Call |-> {}]
    /\ theirs = [c \in Call |-> {}]
    /\ result = [c \in Call |-> {}]
    /\ over = [c \in Call |-> {}]
    /\ outcome = [c \in Call |-> ""]

(***************************************************************************)
(* The argument block.                                                     *)
(***************************************************************************)

\* Fault: the slot still names the block while a call uses it.
TakeAndKeep(n, b) ==
    /\ slot[n] = b
    /\ from_cell' = [from_cell EXCEPT ![b] = Blank]
    /\ to_cell' = [to_cell EXCEPT ![b] = Blank]
    /\ UNCHANGED <<slot, size>>

\* _pygi_invoke_arg_state_init, when the cache has a block for n arguments...
TakeBlock(n, b) ==
    /\ slot[n] = b
    /\ slot' = [slot EXCEPT ![n] = NULL]
    /\ from_cell' = [from_cell EXCEPT ![b] = Blank]
    /\ to_cell' = [to_cell EXCEPT ![b] = Blank]
    /\ UNCHANGED size

\* ...and when it has none, or is not used for so many arguments.
NewBlock(n, b) ==
    /\ n < NMax => slot[n] = NULL
    /\ size[b] = -1
    /\ size' = [size EXCEPT ![b] = n]
    /\ from_cell' = [from_cell EXCEPT ![b] = Blank]
    /\ to_cell' = [to_cell EXCEPT ![b] = Blank]
    /\ UNCHANGED slot

InitBlock(n, b) ==
    IF n = 0 THEN b = NULL /\ UNCHANGED bvars
    ELSE /\ b \in Block
         /\ (n < NMax /\ TakeBlock(n, b)) \/ NewBlock(n, b)

\* The slot a block for n arguments goes to.
PutAt(n) == n

\* _pygi_invoke_arg_state_free: keep the block (or nothing, for a call that
\* never had one) if the slot is free.
FreeBlock(n, b) ==
    /\ IF n < NMax /\ slot[PutAt(n)] = NULL
       THEN slot' = [slot EXCEPT ![PutAt(n)] = b] /\ UNCHANGED size
       ELSE /\ size' = IF b = NULL THEN size ELSE [size EXCEPT ![b] = -1]
            /\ UNCHANGED slot
    /\ UNCHANGED <<from_cell, to_cell>>

(***************************************************************************)
(* The call.                                                               *)
(***************************************************************************)

\* The Python arguments are matched with the parameters; then the block.
Enter(c, s, b) ==
    /\ pc[c] = "idle"
    /\ sig' = [sig EXCEPT ![c] = s]
    /\ InitBlock(NArgs(s), b)
    /\ block' = [block EXCEPT ![c] = b]
    /\ pc' = [pc EXCEPT ![c] = "in"]
    /\ at' = [at EXCEPT ![c] = 1]
    /\ outcome' = [outcome EXCEPT ![c] = ""]
    /\ UNCHANGED <<mvars, ret_cell>>

\* Too many, too few or unknown arguments: no block is made.
EnterFails(c, s) ==
    /\ pc[c] = "idle"
    /\ sig' = [sig EXCEPT ![c] = s]
    /\ pc' = [pc EXCEPT ![c] = "clear"]
    /\ outcome' = [outcome EXCEPT ![c] = "unbound"]
    /\ UNCHANGED <<bvars, mvars, ret_cell, block, at>>

Arg(c) == sig[c].args[at[c]]

Advance(c) == at' = [at EXCEPT ![c] = @ + 1] /\ UNCHANGED pc

StoreFrom(b, i, cells) == from_cell' = [from_cell EXCEPT ![b][i] = cells]

\* One argument: allocate the memory of a caller-allocated result, convert
\* the Python value.
MarshalIn(c) ==
    /\ pc[c] = "in" /\ at[c] <= Len(sig[c].args)
    /\ Advance(c)
    /\ LET a == Arg(c)
           i == at[c]
           made == IF IsIn(a) THEN FromPy(a, Whole) ELSE Untouched
       IN /\ ours' = [ours EXCEPT ![c] = @ \cup Of(i, "out", CallerAlloc(a))
                                           \cup Of(i, "in", made.had)]
          /\ IF IsIn(a) THEN StoreFrom(block[c], i, CellsOf(i, "in", made.cells))
             ELSE UNCHANGED from_cell
    /\ UNCHANGED <<slot, size, to_cell, theirs, result, over, ret_cell, sig, block,
                   outcome>>

\* The value at position f cannot be converted, or cannot be allocated.
MarshalInFails(c, f) ==
    /\ pc[c] = "in" /\ at[c] <= Len(sig[c].args)
    /\ f \in Arg(c).bad
    /\ IsIn(Arg(c)) \/ Arg(c).alloc
    /\ LET a == Arg(c)
           i == at[c]
           made == IF IsIn(a) THEN FromPy(a, f) ELSE Untouched
       IN /\ ours' = [ours EXCEPT ![c] = @ \cup Of(i, "in", made.had \ made.gone)]
          /\ IF IsIn(a) THEN StoreFrom(block[c], i, CellsOf(i, "in", made.cells))
             ELSE UNCHANGED from_cell
    /\ pc' = [pc EXCEPT ![c] = "clean from"]
    /\ outcome' = [outcome EXCEPT ![c] = "badarg"]
    /\ UNCHANGED <<slot, size, to_cell, theirs, result, over, ret_cell, sig, block, at>>

\* Py_BEGIN_ALLOW_THREADS, ffi_call: what the annotations say is given away.
StartCall(c) ==
    /\ pc[c] = "in" /\ at[c] > Len(sig[c].args)
    /\ LET gift == UNION {Of(i, "in", When(IsIn(sig[c].args[i]), Given(sig[c].args[i]))) :
                          i \in DOMAIN sig[c].args}
       IN /\ ours' = [ours EXCEPT ![c] = @ \ gift]
          /\ theirs' = [theirs EXCEPT ![c] = gift]
    /\ pc' = [pc EXCEPT ![c] = "callee"]
    /\ UNCHANGED <<bvars, result, over, ret_cell, sig, block, at, outcome>>

\* Fault: arguments are cleaned up as soon as the function has returned.
CallReturnsCleaning(c) ==
    /\ pc[c] = "callee"
    /\ LET cells == UNION {from_cell[block[c]][i] : i \in DOMAIN sig[c].args}
       IN ours' = [ours EXCEPT ![c] = @ \ UNION {x.destroy : x \in cells}]
    /\ pc' = [pc EXCEPT ![c] = "out"]
    /\ at' = [at EXCEPT ![c] = 0]
    /\ UNCHANGED <<bvars, theirs, result, over, ret_cell, sig, block, outcome>>

\* The function returns its results.
CallReturns(c) ==
    /\ pc[c] = "callee"
    /\ LET args == sig[c].args
           got == Of(0, "out", Received(sig[c].ret)) \cup
                  UNION {Of(i, "out", When(IsOut(args[i]), Received(args[i]))) :
                         i \in DOMAIN args}
       IN ours' = [ours EXCEPT ![c] = @ \cup got]
    /\ pc' = [pc EXCEPT ![c] = "out"]
    /\ at' = [at EXCEPT ![c] = 0]
    /\ UNCHANGED <<bvars, theirs, result, over, ret_cell, sig, block, outcome>>

\* It sets a GError instead: there are no results.
CallThrows(c) ==
    /\ pc[c] = "callee"
    /\ sig[c].throws
    /\ pc' = [pc EXCEPT ![c] = "clean from"]
    /\ outcome' = [outcome EXCEPT ![c] = "gerror"]
    /\ UNCHANGED <<bvars, mvars, ret_cell, sig, block, at>>

(***************************************************************************)
(* Results: the return value, then the "out" arguments.                    *)
(***************************************************************************)
Result(c) == IF at[c] = 0 THEN sig[c].ret ELSE Arg(c)

StoreTo(c, cells) ==
    IF at[c] = 0
    THEN ret_cell' = [ret_cell EXCEPT ![c] = cells] /\ UNCHANGED to_cell
    ELSE to_cell' = [to_cell EXCEPT ![block[c]][at[c]] = cells] /\ UNCHANGED ret_cell

MarshalOut(c) ==
    /\ pc[c] = "out" /\ at[c] <= Len(sig[c].args)
    /\ Advance(c)
    /\ IF at[c] > 0 /\ ~IsOut(Arg(c)) THEN UNCHANGED <<mvars, ret_cell, to_cell>>
       ELSE LET shown == ToPy(Result(c), Whole)
                taken == Of(at[c], "out", shown.taken)
            IN /\ StoreTo(c, CellsOf(at[c], "out", shown.cells))
               /\ result' = [result EXCEPT ![c] = @ \cup taken]
               /\ ours' = [ours EXCEPT ![c] = @ \ taken]
               /\ UNCHANGED <<theirs, over>>
    /\ UNCHANGED <<slot, size, from_cell, sig, block, outcome>>

\* A result cannot be converted: the results already made are dropped, with
\* all they answer for.
MarshalOutFails(c, f) ==
    /\ pc[c] = "out" /\ at[c] <= Len(sig[c].args)
    /\ at[c] > 0 => IsOut(Arg(c))
    /\ f \in Result(c).bad
    /\ LET shown == ToPy(Result(c), f)
       IN /\ StoreTo(c, CellsOf(at[c], "out", shown.cells))
          /\ Free(c, {Of(at[c], "out", shown.gone)})
    /\ result' = [result EXCEPT ![c] = {}]
    /\ pc' = [pc EXCEPT ![c] = "clean from"]
    /\ outcome' = [outcome EXCEPT ![c] = "badresult"]
    /\ UNCHANGED <<slot, size, from_cell, theirs, sig, block, at>>

OutDone(c) ==
    /\ pc[c] = "out" /\ at[c] > Len(sig[c].args)
    /\ pc' = [pc EXCEPT ![c] = "clean from"]
    /\ outcome' = [outcome EXCEPT ![c] = "ok"]
    /\ UNCHANGED <<bvars, mvars, ret_cell, sig, block, at>>

(***************************************************************************)
(* Cleaning up.                                                            *)
(***************************************************************************)
Effect(cell, success) == IF success THEN cell.destroy ELSE cell.failed

\* A datum whose function ran is cleared; so is the list of data of a
\* container, whatever it did.  The others stay in the block.
Left(a, cells, success) ==
    IF a.kind \in Container THEN {} ELSE {x \in cells : Effect(x, success) = {}}

\* Fault: the callee is taken to have seen the arguments, called or not.
ProcessedAlways(c) == TRUE

\* success: the callee ran, so it has what was given to it.
Processed(c) == outcome[c] # "badarg"

\* pygi_marshal_cleanup_args_from_py.
CleanFrom(c) ==
    /\ pc[c] = "clean from"
    /\ LET args == sig[c].args
           ins == {i \in DOMAIN args : IsIn(args[i])}
           cells == UNION {from_cell[block[c]][i] : i \in ins}
       IN /\ Free(c, {Effect(x, Processed(c)) : x \in cells})
          /\ from_cell' = [b \in Block |-> IF b # block[c] THEN from_cell[b]
                ELSE [i \in DOMAIN from_cell[b] |->
                        IF i \in ins THEN Left(args[i], from_cell[b][i], Processed(c))
                        ELSE from_cell[b][i]]]
    /\ pc' = [pc EXCEPT ![c] = IF outcome[c] \in {"ok", "badresult"} THEN "clean to"
                               ELSE "clear"]
    /\ UNCHANGED <<slot, size, to_cell, theirs, result, ret_cell, sig, block, at,
                   outcome>>

\* pygi_marshal_cleanup_args_to_py.  A copy in place releases memory that the
\* result answered for and replaces it.
CleanTo(c) ==
    /\ pc[c] = "clean to"
    /\ LET args == sig[c].args
           success == outcome[c] = "ok"
           outs == {i \in DOMAIN args : IsOut(args[i])}
           celled == {i \in outs : to_cell[block[c]][i] # {}}
           cells == ret_cell[c] \cup UNION {to_cell[block[c]][i] : i \in celled}
           effects == {Effect(x, success) : x \in cells} \cup
                      {Of(i, "out", ReleasedAsAllocated(args[i])) : i \in outs \ celled}
       IN /\ Free(c, {e \ result[c] : e \in effects})
          /\ result' = [result EXCEPT ![c] = @ \ UNION effects]
          /\ to_cell' = [b \in Block |-> IF b # block[c] THEN to_cell[b]
                ELSE [i \in DOMAIN to_cell[b] |->
                        IF i \in celled THEN Left(args[i], to_cell[b][i], success)
                        ELSE to_cell[b][i]]]
    /\ pc' = [pc EXCEPT ![c] = "clear"]
    /\ UNCHANGED <<slot, size, from_cell, theirs, ret_cell, sig, block, at, outcome>>

\* _invoke_state_clear: the block goes back and the call is over.
Clear(c) ==
    /\ pc[c] = "clear"
    /\ FreeBlock(NArgs(sig[c]), block[c])
    /\ block' = [block EXCEPT ![c] = NULL]
    /\ pc' = [pc EXCEPT ![c] = "done"]
    /\ UNCHANGED <<mvars, ret_cell, sig, at, outcome>>

\* The caller drops the result.
Finish(c) ==
    /\ pc[c] = "done"
    /\ pc' = [pc EXCEPT ![c] = "idle"]
    /\ sig' = [sig EXCEPT ![c] = NoSignature]
    /\ at' = [at EXCEPT ![c] = 0]
    /\ ours' = [ours EXCEPT ![c] = {}]
    /\ theirs' = [theirs EXCEPT ![c] = {}]
    /\ result' = [result EXCEPT ![c] = {}]
    /\ ret_cell' = [ret_cell EXCEPT ![c] = {}]
    /\ over' = [over EXCEPT ![c] = {}]
    /\ outcome' = [outcome EXCEPT ![c] = ""]
    /\ UNCHANGED <<bvars, block>>

Next ==
    \E c \in Call :
        \/ \E s \in Signature : EnterFails(c, s)
                                \/ \E b \in Block \cup {NULL} : Enter(c, s, b)
        \/ MarshalIn(c) \/ \E f \in 0 .. MaxItems + 1 : MarshalInFails(c, f)
        \/ StartCall(c) \/ CallReturns(c) \/ CallThrows(c)
        \/ MarshalOut(c) \/ \E f \in 0 .. MaxItems + 1 : MarshalOutFails(c, f)
        \/ OutDone(c) \/ CleanFrom(c) \/ CleanTo(c) \/ Clear(c) \/ Finish(c)

Spec == Init /\ [][Next]_vars

(***************************************************************************)
(* Properties.                                                             *)
(***************************************************************************)
ChunkId == (0 .. Width) \X {"in", "out"} \X (0 .. MaxItems)
TypeOK ==
    /\ slot \in [0 .. NMax - 1 -> Block \cup {NULL}]
    /\ size \in [Block -> Int]
    /\ pc \in [Call -> {"idle", "in", "callee", "out", "clean from", "clean to",
                        "clear", "done"}]
    /\ sig \in [Call -> Signature]
    /\ block \in [Call -> Block \cup {NULL}]
    /\ at \in [Call -> 0 .. Width + 1]
    /\ ours \in [Call -> SUBSET ChunkId]
    /\ theirs \in [Call -> SUBSET ChunkId]
    /\ result \in [Call -> SUBSET ChunkId]
    /\ outcome \in [Call -> Outcome]

\* A block belongs to one call, or to one slot of the cache, or to nobody and
\* is then released: no call writes into the arguments of another.
Users(b) == {c \in Call : block[c] = b}
Slots(b) == {n \in 0 .. NMax - 1 : slot[n] = b}
BlockExclusive ==
    \A b \in Block : Cardinality(Users(b)) + Cardinality(Slots(b))
                        = IF size[b] = -1 THEN 0 ELSE 1

\* A block taken from the cache has room for the arguments of the call.
BlockFits ==
    /\ \A n \in 0 .. NMax - 1 : slot[n] # NULL => size[slot[n]] = n
    /\ \A c \in Call : block[c] # NULL => size[block[c]] = NArgs(sig[c])

\* Blocks are shared soundly, however calls nest and interleave
\* (_pygi_invoke_arg_state_init, _pygi_invoke_arg_state_free).
BlocksOwned == TypeOK /\ BlockExclusive /\ BlockFits

\* What is released by somebody who does not own it, or twice.  Of arguments
\* of a call that is given up: the strings of a hash table that an entry fails
\* to convert for, by the table and by the cells of its items ("LEAK:
\* key_cleanup_data and value_cleanup_data are never cleaned",
\* pygi-cache-hashtable.c), and a foreign struct that was only lent to C
\* (pygi_arg_foreign_from_py_marshal).  Of the results made before one that
\* cannot be: what their Python values answered for and have released, and
\* sequences that C keeps; destroy_failed assumes that nobody has, and that
\* nobody does.
ReleasedIfGivenUp(a) == When(IsIn(a) /\ a.kind = "foreign" /\ a.transfer # "everything", {0})
ReleasedIfDropped(a) ==
    When(\/ a.kind \in {"object", "foreign", "boxed", "closure"} /\ a.transfer = "everything"
         \/ a.kind = "boxed" /\ a.alloc
         \/ a.kind \in Sequence /\ a.transfer = "nothing" /\ ~a.alloc, {0})

\* A result by its position: the return value, then the arguments.
ResultAt(s, i) == IF i = 0 THEN s.ret ELSE s.args[i]
IsResult(s, i) == i = 0 \/ (i \in DOMAIN s.args /\ IsOut(s.args[i]))

BeforeFailure(c) == {i \in 0 .. Width : i < at[c]}
GivenUpBefore(c) ==
    UNION {Of(i, "in", ReleasedIfGivenUp(sig[c].args[i])) :
              i \in BeforeFailure(c) \cap DOMAIN sig[c].args}
GivenUpInside(c) ==
    When(IsIn(Arg(c)) /\ Arg(c).kind = "hash", Of(at[c], "in", Items(Arg(c))))
DroppedBefore(c) ==
    UNION {Of(i, "out", ReleasedIfDropped(ResultAt(sig[c], i))) :
              i \in {i \in BeforeFailure(c) : IsResult(sig[c], i)}}
ReleasedInError(c) ==
    CASE outcome[c] = "badarg" -> GivenUpBefore(c) \cup GivenUpInside(c)
      [] outcome[c] = "badresult" -> DroppedBefore(c)
      [] OTHER -> {}
NothingOver == \A c \in Call : over[c] \subseteq ReleasedInError(c)

\* Whatever way a call ends, what it allocated or was given is released, was
\* passed on, or belongs to the result.  What no cell tells of is lost: boxed
\* values copied for C when C is not called ("TODO: fix cleanup",
\* pygi_arg_struct_from_py_marshal), the memory allocated for results when none
\* is converted, GValues that are given ("TODO: clean up GValue if we own it",
\* pygi_arg_gvalue_to_py_marshal) and arrays that were allocated for C to fill,
\* and the results from the one that cannot be converted on.
NeverReleased(a) ==
    When(\/ a.kind = "gvalue" /\ a.transfer = "everything" /\ ~a.alloc
         \/ a.kind \in {"array", "carray"} /\ a.transfer = "nothing" /\ a.alloc, {0})
AllocatedForResults(c) ==
    {<<i, "out", 0>> : i \in {i \in DOMAIN sig[c].args : sig[c].args[i].alloc}}
CopiedForC(c) ==
    {<<i, "in", 0>> : i \in {i \in DOMAIN sig[c].args :
        IsIn(sig[c].args[i]) /\ sig[c].args[i].kind \in {"boxed", "struct"}}}
ResultsKept(c) ==
    UNION {Of(i, "out", NeverReleased(ResultAt(sig[c], i))) :
              i \in {i \in 0 .. Width : IsResult(sig[c], i)}}
ResultsNotMade(c) == (at[c] .. Width) \X {"out"} \X (0 .. MaxItems)
Untold(c) ==
    CASE outcome[c] = "badarg" -> AllocatedForResults(c) \cup CopiedForC(c)
      [] outcome[c] = "gerror" -> AllocatedForResults(c)
      [] outcome[c] = "badresult" -> ResultsKept(c) \cup ResultsNotMade(c)
      [] outcome[c] = "ok" -> ResultsKept(c)
      [] OTHER -> {}
NothingLost == \A c \in Call : pc[c] = "done" => ours[c] \subseteq Untold(c)

\* Every chunk of memory is released exactly once, by its owner, on every exit
\* of pygi_invoke_c_callable, but for the exceptions named above.
MemoryBalanced == NothingOver /\ NothingLost

\* A result that points into an argument is converted before that argument
\* is cleaned up.
ReadBeforeFree ==
    \A c \in Call :
        /\ pc[c] = "out" /\ at[c] <= Len(sig[c].args)
        /\ Result(c).of # 0
        => <<Result(c).of, "in", 0>> \in ours[c] \cup theirs[c]

(***************************************************************************)
(* The inductive invariant of BlocksOwned and ReadBeforeFree.              *)
(***************************************************************************)

\* A call that has matched its arguments has a block if it takes any; a call
\* that is over, or has not begun, has none.
BlockWhileCalling ==
    \A c \in Call :
        /\ pc[c] \in {"idle", "done"} => block[c] = NULL
        /\ pc[c] \in {"in", "callee", "out", "clean from", "clean to"}
           => (block[c] = NULL <=> NArgs(sig[c]) = 0)

\* Calls and the cache hold different blocks, and hold all that are allocated.
OneHolder ==
    /\ \A c, d \in Call : block[c] # NULL /\ block[c] = block[d] => c = d
    /\ \A c \in Call : \A n \in 0 .. NMax - 1 : slot[n] = block[c] => block[c] = NULL
    /\ \A b \in Block : size[b] = -1 \/ Users(b) # {} \/ Slots(b) # {}

\* What the arguments were converted to stays with the call or its callee until
\* the results are made.
Converted(s, i) == Of(i, "in", FromPy(s.args[i], Whole).had)
ArgsKeptBy(c) ==
    \A i \in DOMAIN sig[c].args : IsIn(sig[c].args[i]) =>
        /\ pc[c] = "in" /\ i < at[c] => Converted(sig[c], i) \subseteq ours[c]
        /\ pc[c] \in {"callee", "out"}
           => Converted(sig[c], i) \subseteq ours[c] \cup theirs[c]
ArgsKept == \A c \in Call : ArgsKeptBy(c)

\* Arguments are converted from the first on.
FromFirst == \A c \in Call : pc[c] = "in" => at[c] # 0

IInv ==
    TypeOK /\ BlockFits /\ BlockWhileCalling /\ OneHolder /\ FromFirst /\ ArgsKept

(***************************************************************************)
(* The inductive invariant of MemoryBalanced: what a call holds of each of *)
(* its arguments and results, phase by phase, and what its cells tell.     *)
(***************************************************************************)
CellsShaped ==
    /\ DOMAIN from_cell = Block /\ DOMAIN to_cell = Block
    /\ \A b \in Block : DOMAIN from_cell[b] = 1 .. Width /\ DOMAIN to_cell[b] = 1 .. Width
    /\ DOMAIN ret_cell = Call /\ DOMAIN over = Call

Held(c, i, side) == {k \in 0 .. MaxItems : <<i, side, k>> \in ours[c]}
Answered(c, i) == {k \in 0 .. MaxItems : <<i, "out", k>> \in result[c]}
FromCells(c, i) == from_cell[block[c]][i]
ToCells(c, i) == IF i = 0 THEN ret_cell[c] ELSE to_cell[block[c]][i]

\* The argument was converted, up to position f; it was given to the callee; it
\* has not been looked at.
HasArg(c, i, f) ==
    LET made == FromPy(sig[c].args[i], f)
    IN /\ Held(c, i, "in") = made.had \ made.gone
       /\ FromCells(c, i) = CellsOf(i, "in", made.cells)
GaveArg(c, i) ==
    LET made == FromPy(sig[c].args[i], Whole)
    IN /\ Held(c, i, "in") = made.had \ Given(sig[c].args[i])
       /\ FromCells(c, i) = CellsOf(i, "in", made.cells)
NoArg(c, i) == Held(c, i, "in") = {} /\ FromCells(c, i) = {}

IsArg(s, i) == i \in DOMAIN s.args /\ IsIn(s.args[i])
ArgAccount(c, i) ==
    /\ pc[c] = "in" => IF i < at[c] THEN HasArg(c, i, Whole) ELSE NoArg(c, i)
    /\ pc[c] \in {"callee", "out"} => GaveArg(c, i)
    /\ pc[c] = "clean from" /\ outcome[c] # "badarg" => GaveArg(c, i)
    /\ pc[c] = "clean from" /\ outcome[c] = "badarg"
       => /\ i < at[c] => HasArg(c, i, Whole)
          /\ i = at[c] => \E f \in sig[c].args[i].bad : HasArg(c, i, f)
          /\ i > at[c] => NoArg(c, i)

\* What there is of a result: the memory it is written to, and when the callee
\* has returned, what that handed over.
Got(r) == CallerAlloc(r) \cup Received(r)

\* The result was converted, up to position f; it is to be converted.
HasResult(c, i, f) ==
    LET shown == ToPy(ResultAt(sig[c], i), f)
    IN /\ Held(c, i, "out") = Got(ResultAt(sig[c], i)) \ (shown.taken \cup shown.gone)
       /\ ToCells(c, i) = CellsOf(i, "out", shown.cells)
Awaits(c, i, chunks) ==
    Held(c, i, "out") = chunks /\ ToCells(c, i) = {} /\ Answered(c, i) = {}
Gets(c, i) ==
    HasResult(c, i, Whole) /\ Answered(c, i) = ToPy(ResultAt(sig[c], i), Whole).taken

ResultAccount(c, i) ==
    LET r == ResultAt(sig[c], i)
    IN /\ pc[c] = "in" \/ (pc[c] = "clean from" /\ outcome[c] = "badarg")
          => Awaits(c, i, When(i < at[c], CallerAlloc(r)))
       /\ pc[c] = "callee" \/ (pc[c] = "clean from" /\ outcome[c] = "gerror")
          => Awaits(c, i, CallerAlloc(r))
       /\ pc[c] = "out" => IF i < at[c] THEN Gets(c, i) ELSE Awaits(c, i, Got(r))
       /\ pc[c] \in {"clean from", "clean to"} /\ outcome[c] = "ok" => Gets(c, i)
       /\ pc[c] \in {"clean from", "clean to"} /\ outcome[c] = "badresult"
          => /\ Answered(c, i) = {}
             /\ i < at[c] => HasResult(c, i, Whole)
             /\ i = at[c] => \E f \in r.bad : HasResult(c, i, f)
             /\ i > at[c] => Awaits(c, i, Got(r))

Converting == {"in", "callee", "out", "clean from"}
Working == Converting \cup {"clean to"}
PlaceAccount(c, i) ==
    /\ ~IsArg(sig[c], i) => Held(c, i, "in") = {}
    /\ ~IsResult(sig[c], i) => Held(c, i, "out") = {} /\ Answered(c, i) = {}
    /\ IsResult(sig[c], i) => ResultAccount(c, i)
    /\ IsArg(sig[c], i) => /\ pc[c] \in Converting => ArgAccount(c, i)
                           /\ pc[c] = "clean to" => Held(c, i, "in") = {}
CallAccount(c) ==
    /\ over[c] \subseteq ReleasedInError(c)
    /\ pc[c] = "idle" => ours[c] = {} /\ result[c] = {} /\ ret_cell[c] = {}
    /\ pc[c] \in {"idle", "in", "callee", "out"} => outcome[c] = ""
    /\ pc[c] = "clean from" => outcome[c] \in {"badarg", "gerror", "badresult", "ok"}
    /\ pc[c] = "clean to" => outcome[c] \in {"badresult", "ok"}
    /\ outcome[c] = "badarg" => at[c] \in DOMAIN sig[c].args
    /\ outcome[c] = "badresult" => IsResult(sig[c], at[c])
    /\ pc[c] \in Working => \A i \in 0 .. Width : PlaceAccount(c, i)
    /\ pc[c] \in {"clear", "done"} => ours[c] \subseteq Untold(c)

Accounts == IInv /\ CellsShaped /\ \A c \in Call : CallAccount(c)
=============================================================================
