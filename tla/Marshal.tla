------------------------------ MODULE Marshal ------------------------------
(***************************************************************************)
(* Who owns what after one argument of a C call is converted: the          *)
(* marshallers of gi/pygi-cache-*.c, reduced to the memory they allocate,  *)
(* release, and leave for the end of the call.                             *)
(*                                                                         *)
(* An argument a is a record:                                              *)
(*   kind      see Kind; "list" is a GList or GSList, "array" a GArray or  *)
(*             GPtrArray, "carray" a C array, "struct" a pointer or a      *)
(*             GVariant, "class" a GTypeClass; "plain" what has no memory  *)
(*             of its own: numbers, but also None for a pointer and the    *)
(*             GLib.Value Python passes for a GValue, which is borrowed;   *)
(*   dir       "in", "out" or "inout", seen from the C function;           *)
(*   transfer  "nothing", "container" or "everything";                     *)
(*   n         the number of items (of a hash: keys and values);           *)
(*   bad       the positions where conversion fails: 0 for the value       *)
(*             itself, i for item i;                                       *)
(*   alloc     the caller allocates the result;                            *)
(*   of        the "in" argument whose memory the result points into, or 0.*)
(*                                                                         *)
(* Its memory is a set of chunks: 0 for the value or container, i for item *)
(* i.  "string" stands for filenames and GErrors too; items are strings.   *)
(***************************************************************************)
EXTENDS Integers, FiniteSets

Kind == {"plain", "string", "list", "array", "carray", "hash", "object", "boxed",
         "struct", "gvalue", "closure", "class", "foreign"}
Sequence == {"list", "array", "carray"}
Container == Sequence \cup {"hash"}
Transfer == {"nothing", "container", "everything"}

Items(a) == IF a.kind \in Container THEN 1 .. a.n ELSE {}
Chunks(a) == {0} \cup Items(a)

\* What one cleanup datum releases: PyGIMarshalCleanupData with destroy and
\* destroy_failed applied to data.
Cell(d, f) == [destroy |-> d, failed |-> f]

When(condition, chunks) == IF condition THEN chunks ELSE {}

\* A conversion stops at position f, or at none.
Whole == -1
Reached(a, f) == {i \in Items(a) : f = Whole \/ i < f}

(***************************************************************************)
(* From Python.  A marshaller has allocated chunks (had), released some of *)
(* them before it returned (gone), and left cells for the end of the call. *)
(***************************************************************************)
Made(had, gone, cells) == [had |-> had, gone |-> gone, cells |-> cells]
Untouched == Made({}, {}, {})

\* _caller_alloc: the memory for a result, before anything is converted.
CallerAlloc(a) == When(a.alloc, {0})

\* A hash table frees its strings itself, so its items are always passed on.
ItemTransfer(a) == CASE a.kind = "hash" -> "everything"
                     [] a.kind # "hash" /\ a.transfer = "container" -> "nothing"
                     [] OTHER -> a.transfer

\* The copy of a string, or of anything converted like one.
KeptUnlessGiven(c, t) == Cell(When(t = "nothing", {c}), {c})
Copy(a) == Made({0}, {}, {KeptUnlessGiven(0, a.transfer)})
ItemCells(a, f) == {KeptUnlessGiven(i, ItemTransfer(a)) : i \in Reached(a, f)}

StringFromPy(a, f) == IF f = Whole THEN Copy(a) ELSE Untouched

\* A GValue made from another Python value; one that came as it is is "plain".
GValueFromPy(a, f) == IF f = Whole THEN Copy(a) ELSE Untouched

\* A closure made from a callable, or a reference to the one that came.
ClosureFromPy(a, f) == IF f = Whole THEN Copy(a) ELSE Untouched

\* A reference to the class of a type that has one.
ClassFromPy(a, f) == IF f = Whole THEN Copy(a) ELSE Untouched

\* A failing item leaves the nodes freed and the cells of the items before it.
ListFromPy(a, f) ==
    LET nodes == KeptUnlessGiven(0, a.transfer)
    IN CASE f = 0 -> Untouched
         [] f = Whole -> Made(Chunks(a), {}, ItemCells(a, f) \cup {nodes})
         [] OTHER -> Made({0} \cup Reached(a, f), {0}, ItemCells(a, f))

\* Arrays clean up after a failing item, or a failing length, themselves.
ArrayCells(a) == ItemCells(a, Whole) \cup {KeptUnlessGiven(0, a.transfer)}
ArrayReleased(a, f) == {0} \cup Reached(a, f)
ArrayFromPy(a, f) ==
    CASE f = 0 -> Untouched
      [] f = Whole -> Made(Chunks(a), {}, ArrayCells(a))
      [] OTHER -> Made({0} \cup Reached(a, f), ArrayReleased(a, f), {})

\* Of a table that is given up, only complete pairs were inserted and go with
\* it; the cells of all items stay.
HashFromPy(a, f) ==
    LET table == Cell(When(a.transfer = "nothing", Chunks(a)), {0})
        pairs == {i \in Items(a) : i <= 2 * ((f - 1) \div 2)}
    IN CASE f = 0 -> Untouched
         [] f = Whole -> Made(Chunks(a), {}, ItemCells(a, f) \cup {table})
         [] OTHER -> Made({0} \cup Reached(a, f), {0} \cup pairs, ItemCells(a, f))

\* pygi_marshal_from_py_object: referenced only when C gets to keep it...
Referenced(a) == When(a.transfer = "everything", {0})

\* ...which the adapter undoes when C never ran.
ObjectFromPy(a, f) ==
    IF f # Whole THEN Untouched
    ELSE Made(Referenced(a), {}, When(a.transfer = "everything", {Cell({}, {0})}))

\* A boxed value is copied, a variant referenced, to be kept: without a cell.
StructFromPy(a, f) ==
    IF f # Whole THEN Untouched
    ELSE Made(When(a.transfer = "everything", {0}), {}, {})

ForeignFromPy(a, f) ==
    IF f # Whole THEN Untouched
    ELSE Made(When(a.transfer = "everything", {0}), {}, {Cell({}, {0})})

FromPy(a, f) ==
    CASE a.kind = "plain" -> Untouched
      [] a.kind = "string" -> StringFromPy(a, f)
      [] a.kind = "gvalue" -> GValueFromPy(a, f)
      [] a.kind = "closure" -> ClosureFromPy(a, f)
      [] a.kind = "class" -> ClassFromPy(a, f)
      [] a.kind = "list" -> ListFromPy(a, f)
      [] a.kind \in {"array", "carray"} -> ArrayFromPy(a, f)
      [] a.kind = "hash" -> HashFromPy(a, f)
      [] a.kind = "object" -> ObjectFromPy(a, f)
      [] a.kind \in {"boxed", "struct"} -> StructFromPy(a, f)
      [] a.kind = "foreign" -> ForeignFromPy(a, f)

\* What the callee owns once it has run: what the annotation gives it.
Given(a) ==
    CASE a.transfer = "everything" -> FromPy(a, Whole).had
      [] a.transfer = "container" -> IF a.kind = "hash" THEN Chunks(a) ELSE {0}
      [] OTHER -> {}

(***************************************************************************)
(* To Python.  The new object answers for some chunks (taken), the         *)
(* marshaller has released others (gone) and leaves cells.                 *)
(***************************************************************************)
Shown(taken, gone, cells) == [taken |-> taken, gone |-> gone, cells |-> cells]

\* What the callee hands over with a result, beside what it filled in.
Received(a) ==
    CASE a.kind = "plain" -> {}
      [] a.kind # "plain" /\ a.transfer = "everything" -> Chunks(a) \ CallerAlloc(a)
      [] a.kind # "plain" /\ a.transfer = "container" ->
            (IF a.kind = "hash" THEN Chunks(a) ELSE {0}) \ CallerAlloc(a)
      [] OTHER -> {}

IfAll(a, chunks) == When(a.transfer = "everything", chunks)
IfAny(a, chunks) == When(a.transfer # "nothing", chunks)
ItemCellsTo(a) == {Cell(IfAll(a, {i}), IfAll(a, {i})) : i \in Items(a)}

\* The cell is set whether or not the text could be decoded.
StringToPy(a, f) == Shown({}, {}, {Cell(IfAll(a, {0}), IfAll(a, {0}))})

\* An item that cannot be shown: the cells made so far are dropped.
ListToPy(a, f) ==
    IF f # Whole THEN Shown({}, {}, {})
    ELSE Shown({}, {}, ItemCellsTo(a) \cup {Cell(IfAny(a, {0}), {0})})

\* An array that was given is released, and the items of one that is no C
\* array with it.
ArrayToPy(a, f) ==
    IF f = Whole
    THEN Shown({}, {}, ItemCellsTo(a) \cup {Cell(IfAny(a, {0}), {0})})
    ELSE Shown({}, IfAll(a, {0} \cup IF a.kind = "array" THEN 1 .. f ELSE {}), {})

HashToPy(a, f) ==
    IF f # Whole THEN Shown({}, {}, {})
    ELSE Shown({}, {}, {Cell(IfAny(a, Chunks(a)), IfAny(a, Chunks(a)))})

\* The wrapper steals the reference, or takes one of its own.  The cell is set
\* whether or not there is a wrapper.
ObjectToPy(a, f) ==
    Shown(When(f = Whole, IfAll(a, {0})), {},
          When(a.transfer = "everything", {Cell({}, {0})}))

\* A boxed value that was not transferred is copied in place when the call
\* is over, which releases memory the caller allocated for it.
StructToPy(a, f) ==
    LET taken == When(a.alloc \/ a.transfer = "everything", {0})
    IN IF f # Whole THEN Shown({}, {}, {})
       ELSE Shown(taken, {}, When(a.kind \in {"boxed", "closure"},
                                  {Cell(taken \ IfAll(a, {0}), taken)}))

\* A caller-allocated GValue is copied; any other is not cleaned up.
GValueToPy(a, f) == Shown({}, {}, {})

ForeignToPy(a, f) ==
    Shown(When(f = Whole, When(a.alloc, {0}) \cup IfAll(a, {0})), {},
          When(a.transfer = "everything", {Cell({}, {0})}))

ToPy(a, f) ==
    CASE a.kind = "string" -> StringToPy(a, f)
      [] a.kind = "list" -> ListToPy(a, f)
      [] a.kind \in {"array", "carray"} -> ArrayToPy(a, f)
      [] a.kind = "hash" -> HashToPy(a, f)
      [] a.kind = "object" -> ObjectToPy(a, f)
      [] a.kind \in {"boxed", "struct", "closure", "class"} -> StructToPy(a, f)
      [] a.kind = "gvalue" -> GValueToPy(a, f)
      [] a.kind = "foreign" -> ForeignToPy(a, f)
      [] OTHER -> Shown({}, {}, {})

\* _cleanup_caller_allocates: without a cell, only a GValue is released here.
ReleasedAsAllocated(a) == When(a.alloc /\ a.kind = "gvalue", {0})
=============================================================================
