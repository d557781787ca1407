-------------------------- MODULE Awaitable_proofs --------------------------
(***************************************************************************)
(* Safety of the awaitable, for any callables, waiters and bounds, as long *)
(* as call_soon runs no Python code that touches its callbacks (Reentrant) *)
(* and no exception handler keeps it (KeepFuture); and that it implements  *)
(* Future.                                                                 *)
(***************************************************************************)
EXTENDS Awaitable, FiniteSetTheorems, WellFoundedInduction, TLAPS

USE DEF Flag

(***************************************************************************)
(* Induction, over sets of natural numbers.                                *)
(***************************************************************************)
LEMMA LeastNumber ==
    ASSUME NEW T, T \subseteq Nat, T # {}
    PROVE  \E x \in T : \A y \in T : x <= y
<1> DEFINE R == OpToRel(<, Nat)
<1>1. IsWellFoundedOn(R, Nat)
  BY NatLessThanWellFounded
<1>2. \A x, y \in Nat : y < x => <<y, x>> \in R
  BY DEF OpToRel
<1> HIDE DEF R
<1>3. PICK x \in T : \A y \in T : ~(<<y, x>> \in R)
  BY <1>1, WFMin
<1>4. ASSUME NEW y \in T PROVE x <= y
  <2>1. x \in Nat /\ y \in Nat
    OBVIOUS
  <2>2. ~(y < x)
    BY <1>2, <1>3, <2>1
  <2> QED
    BY <2>1, <2>2
<1> QED
  BY <1>4

LEMMA InductiveSet ==
    ASSUME NEW T, 0 \in T, \A n \in Nat : n \in T => n + 1 \in T
    PROVE  Nat \subseteq T
<1> SUFFICES ASSUME ~(Nat \subseteq T) PROVE FALSE
  OBVIOUS
<1>1. PICK x \in Nat \ T : \A y \in Nat \ T : x <= y
  BY LeastNumber
<1>2. x # 0 /\ x - 1 \in Nat
  BY <1>1
<1>3. x - 1 \in T
  BY <1>1, <1>2
<1> QED
  BY <1>2, <1>3

(***************************************************************************)
(* How often a callable is in the array, from index n on.                  *)
(***************************************************************************)
From(s, n, g) == {i \in DOMAIN s : i >= n /\ s[i] = g}

LEMMA FromFinite ==
    ASSUME NEW S, NEW s \in Seq(S), NEW n, NEW g
    PROVE  /\ IsFiniteSet(From(s, n, g))
           /\ Cardinality(From(s, n, g)) \in Nat
<1>1. DOMAIN s = 1..Len(s) /\ Len(s) \in Nat
  OBVIOUS
<1>2. IsFiniteSet(1..Len(s))
  BY <1>1, FS_Interval
<1>3. From(s, n, g) \subseteq 1..Len(s)
  BY <1>1 DEF From
<1> QED
  BY <1>2, <1>3, FS_Subset, FS_CardinalityType

LEMMA FromEmpty ==
    ASSUME NEW n, NEW g
    PROVE  Cardinality(From(<<>>, n, g)) = 0
<1>1. From(<<>>, n, g) = {}
  BY DEF From
<1> QED
  BY <1>1, FS_EmptySet

LEMMA FromAppend ==
    ASSUME NEW S, NEW s \in Seq(S), NEW e \in S, NEW n \in Nat, n <= Len(s) + 1, NEW g
    PROVE  Cardinality(From(Append(s, e), n, g)) = Cardinality(From(s, n, g)) + Flag(e = g)
<1> DEFINE t == Append(s, e)
<1>1. /\ Len(s) \in Nat /\ DOMAIN s = 1..Len(s) /\ DOMAIN t = 1..(Len(s) + 1)
      /\ t[Len(s) + 1] = e /\ \A i \in 1..Len(s) : t[i] = s[i]
  OBVIOUS
<1> HIDE DEF t
<1>2. CASE e = g
  <2>1. From(t, n, g) = From(s, n, g) \cup {Len(s) + 1}
    <3>1. \A i : i \in 1..(Len(s) + 1) <=> i \in 1..Len(s) \/ i = Len(s) + 1
      BY <1>1
    <3> QED
      BY <1>1, <1>2, <3>1 DEF From
  <2>2. Len(s) + 1 \notin From(s, n, g)
    BY <1>1 DEF From
  <2>3. Cardinality(From(s, n, g) \cup {Len(s) + 1}) = Cardinality(From(s, n, g)) + 1
    BY <2>2, FromFinite, FS_AddElement
  <2> QED
    BY <1>2, <2>1, <2>3 DEF t
<1>3. CASE e # g
  <2>1. From(t, n, g) = From(s, n, g)
    <3>1. \A i : i \in 1..(Len(s) + 1) <=> i \in 1..Len(s) \/ i = Len(s) + 1
      BY <1>1
    <3> QED
      BY <1>1, <1>3, <3>1 DEF From
  <2> QED
    BY <1>3, <2>1, FromFinite DEF t
<1> QED
  BY <1>2, <1>3

LEMMA FromNext ==
    ASSUME NEW S, NEW s \in Seq(S), NEW n \in 1..Len(s), NEW g
    PROVE  Cardinality(From(s, n + 1, g)) = Cardinality(From(s, n, g)) - Flag(s[n] = g)
<1>1. Len(s) \in Nat /\ DOMAIN s = 1..Len(s)
  OBVIOUS
<1>2. CASE s[n] = g
  <2>1. n \in From(s, n, g) /\ From(s, n + 1, g) = From(s, n, g) \ {n}
    BY <1>1, <1>2 DEF From
  <2>2. Cardinality(From(s, n, g) \ {n}) = Cardinality(From(s, n, g)) - 1
    BY <2>1, FromFinite, FS_RemoveElement
  <2> QED
    BY <1>2, <2>1, <2>2
<1>3. CASE s[n] # g
  <2>1. From(s, n + 1, g) = From(s, n, g)
    BY <1>1, <1>3 DEF From
  <2> QED
    BY <1>3, <2>1, FromFinite
<1> QED
  BY <1>2, <1>3

(***************************************************************************)
(* The loop of remove_done_callback.                                       *)
(***************************************************************************)
Round(s, f, kept, n) ==
    IF n = 0 THEN <<>>
    ELSE IF s[n] = f THEN kept[n - 1] ELSE Append(kept[n - 1], s[n])
IsKept(s, f, kept, m) == kept = [n \in 0..m |-> Round(s, f, kept, n)]

LEMMA KeptExists ==
    ASSUME NEW s, NEW f
    PROVE  \A m \in Nat : \E kept : IsKept(s, f, kept, m)
<1> DEFINE T == {m \in Nat : \E kept : IsKept(s, f, kept, m)}
<1>1. 0 \in T
  <2> DEFINE kept == [n \in 0..0 |-> <<>>]
  <2>1. kept = [n \in 0..0 |-> Round(s, f, kept, n)]
    BY DEF Round
  <2> QED
    BY <2>1 DEF IsKept
<1>2. ASSUME NEW m \in Nat, m \in T PROVE m + 1 \in T
  <2>1. PICK k : k = [n \in 0..m |-> Round(s, f, k, n)]
    BY <1>2 DEF IsKept
  <2> DEFINE j == [n \in 0..(m + 1) |-> IF n <= m THEN k[n] ELSE Round(s, f, k, m + 1)]
  <2>2. \A n \in 0..(m + 1) : j[n] = Round(s, f, j, n)
    <3> TAKE n \in 0..(m + 1)
    <3>1. n = 0 \/ n - 1 \in 0..m
      OBVIOUS
    <3>2. n - 1 \in 0..m => j[n - 1] = k[n - 1]
      OBVIOUS
    <3>3. Round(s, f, j, n) = Round(s, f, k, n)
      BY <3>1, <3>2 DEF Round
    <3>4. n <= m => n \in 0..m /\ k[n] = Round(s, f, k, n)
      BY <2>1
    <3> QED
      BY <3>3, <3>4
  <2>3. IsKept(s, f, j, m + 1)
    BY <2>2 DEF IsKept
  <2> QED
    BY <2>3
<1> HIDE DEF T
<1>3. Nat \subseteq T
  BY <1>1, <1>2, InductiveSet
<1> QED
  BY <1>3 DEF T

\* It leaves the others in their order and number.
LEMMA WithoutType ==
    ASSUME NEW S, NEW s \in Seq(S), NEW f
    PROVE  /\ Without(s, f) \in Seq(S)
           /\ Len(Without(s, f)) = Len(s) - Cardinality(From(s, 0, f))
           /\ \A g : Cardinality(From(Without(s, f), 0, g))
                        = IF g = f THEN 0 ELSE Cardinality(From(s, 0, g))
<1>1. Len(s) \in Nat
  OBVIOUS
<1>2. PICK k : IsKept(s, f, k, Len(s)) /\ Without(s, f) = k[Len(s)]
  <2>1. Without(s, f) = (CHOOSE kept : IsKept(s, f, kept, Len(s)))[Len(s)]
    BY DEF Without, IsKept, Round
  <2>2. \E kept : IsKept(s, f, kept, Len(s))
    BY <1>1, KeptExists
  <2>3. IsKept(s, f, CHOOSE kept : IsKept(s, f, kept, Len(s)), Len(s))
    BY <2>2
  <2> QED
    BY <2>1, <2>3
<1>3. \A n \in 0..Len(s) : k[n] = Round(s, f, k, n)
  BY <1>2 DEF IsKept
<1> DEFINE p(n) == SubSeq(s, 1, n)
           Good(n) == /\ k[n] \in Seq(S)
                      /\ Len(k[n]) = n - Cardinality(From(p(n), 0, f))
                      /\ \A g : Cardinality(From(k[n], 0, g))
                                   = IF g = f THEN 0 ELSE Cardinality(From(p(n), 0, g))
           T == {n \in Nat : n <= Len(s) => Good(n)}
<1>p. /\ p(0) = <<>> /\ p(Len(s)) = s
      /\ \A n \in Nat : n + 1 <= Len(s) =>
            /\ n + 1 \in 1..Len(s) /\ s[n + 1] \in S
            /\ p(n) \in Seq(S) /\ Len(p(n)) = n /\ p(n + 1) = Append(p(n), s[n + 1])
  BY <1>1
<1> HIDE DEF p
<1>4. 0 \in T
  <2>1. p(0) = <<>> /\ k[0] = <<>>
    BY <1>1, <1>3, <1>p DEF Round
  <2>2. <<>> \in Seq(S) /\ Len(<<>>) = 0
    OBVIOUS
  <2>3. \A g : Cardinality(From(<<>>, 0, g)) = 0
    BY FromEmpty
  <2>4. Len(k[0]) = 0 - Cardinality(From(p(0), 0, f))
    BY <2>1, <2>2, <2>3
  <2>5. \A g : Cardinality(From(k[0], 0, g))
                  = IF g = f THEN 0 ELSE Cardinality(From(p(0), 0, g))
    BY <2>1, <2>3
  <2>6. k[0] \in Seq(S)
    BY <2>1, <2>2
  <2>7. Good(0)
    BY <2>4, <2>5, <2>6
  <2> QED
    BY <2>7
<1>5. ASSUME NEW n \in Nat, n \in T PROVE n + 1 \in T
  <2> SUFFICES ASSUME n + 1 <= Len(s) PROVE Good(n + 1)
    OBVIOUS
  <2>1. /\ n + 1 \in 1..Len(s) /\ s[n + 1] \in S
        /\ p(n) \in Seq(S) /\ Len(p(n)) = n /\ p(n + 1) = Append(p(n), s[n + 1])
    BY <1>p
  <2>2. Good(n)
    BY <1>1, <1>5
  <2>3. k[n + 1] = IF s[n + 1] = f THEN k[n] ELSE Append(k[n], s[n + 1])
    BY <1>1, <1>3 DEF Round
  <2>4. \A g : Cardinality(From(p(n + 1), 0, g))
                  = Cardinality(From(p(n), 0, g)) + Flag(s[n + 1] = g)
    <3>1. ASSUME NEW q \in Seq(S), NEW e \in S, NEW g
          PROVE  Cardinality(From(Append(q, e), 0, g)) = Cardinality(From(q, 0, g)) + Flag(e = g)
      <4>1. 0 \in Nat /\ 0 <= Len(q) + 1
        OBVIOUS
      <4> QED
        BY <4>1, FromAppend
    <3>2. \A g : Cardinality(From(Append(p(n), s[n + 1]), 0, g))
                    = Cardinality(From(p(n), 0, g)) + Flag(s[n + 1] = g)
      BY <2>1, <3>1
    <3> QED
      BY <2>1, <3>2
  <2>5. \A g : Cardinality(From(p(n), 0, g)) \in Nat
    BY <2>1, FromFinite
  <2>6. CASE s[n + 1] = f
    BY <2>2, <2>3, <2>4, <2>5, <2>6
  <2>7. CASE s[n + 1] # f
    <3>1. \A g : Cardinality(From(k[n + 1], 0, g))
                    = Cardinality(From(k[n], 0, g)) + Flag(s[n + 1] = g)
      <4>1. 0 \in Nat /\ 0 <= Len(k[n]) + 1
        BY <2>2
      <4>2. /\ k[n] \in Seq(S) /\ s[n + 1] \in S
            /\ k[n + 1] = Append(k[n], s[n + 1])
        BY <2>1, <2>2, <2>3, <2>7
      <4>3. ASSUME NEW g
            PROVE  Cardinality(From(Append(k[n], s[n + 1]), 0, g))
                     = Cardinality(From(k[n], 0, g)) + Flag(s[n + 1] = g)
        BY <4>1, <4>2, FromAppend
      <4> QED
        BY <4>2, <4>3
    <3>2. k[n + 1] \in Seq(S) /\ Len(k[n + 1]) = Len(k[n]) + 1
      BY <2>1, <2>2, <2>3, <2>7
    <3> QED
      BY <2>2, <2>4, <2>5, <2>7, <3>1, <3>2
  <2> QED
    BY <2>6, <2>7
<1> HIDE DEF T
<1>6. Nat \subseteq T
  BY <1>4, <1>5, InductiveSet
<1>7. Good(Len(s))
  BY <1>1, <1>6 DEF T
<1> QED
  BY <1>2, <1>7, <1>p

\* What is left of others is where it was looked for.
LEMMA StillIn ==
    ASSUME NEW S, NEW s \in Seq(S), NEW f, NEW t \in Range(s), t # f
    PROVE  t \in Range(Without(s, f))
<1> DEFINE w == Without(s, f)
<1>1. w \in Seq(S) /\ Cardinality(From(w, 0, t)) = Cardinality(From(s, 0, t))
  BY WithoutType
<1> HIDE DEF w
<1>2. DOMAIN s = 1..Len(s)
  OBVIOUS
<1>3. From(s, 0, t) # {}
  BY <1>2 DEF From, Range
<1>4. Cardinality(From(w, 0, t)) # 0
  BY <1>1, <1>3, FromFinite, FS_EmptySet
<1>5. From(w, 0, t) # {}
  BY <1>4, FS_EmptySet
<1> QED
  BY <1>5 DEF From, Range, w

LEMMA RangeAppend ==
    ASSUME NEW S, NEW s \in Seq(S), NEW e \in S
    PROVE  Range(Append(s, e)) = Range(s) \cup {e}
<1> DEFINE t == Append(s, e)
<1>1. /\ Len(s) \in Nat /\ DOMAIN s = 1..Len(s) /\ DOMAIN t = 1..(Len(s) + 1)
      /\ t[Len(s) + 1] = e /\ \A i \in 1..Len(s) : t[i] = s[i]
  OBVIOUS
<1> HIDE DEF t
<1>2. \A i : i \in 1..(Len(s) + 1) <=> i \in 1..Len(s) \/ i = Len(s) + 1
  BY <1>1
<1>3. Range(t) = Range(s) \cup {e}
  BY <1>1, <1>2 DEF Range
<1> QED
  BY <1>3 DEF t

LEMMA RangeTail ==
    ASSUME NEW S, NEW s \in Seq(S), s # <<>>, NEW t \in Range(s), t # Head(s)
    PROVE  t \in Range(Tail(s))
<1>1. /\ Len(s) \in Nat /\ DOMAIN s = 1..Len(s) /\ DOMAIN Tail(s) = 1..(Len(s) - 1)
      /\ \A i \in 1..(Len(s) - 1) : Tail(s)[i] = s[i + 1]
  OBVIOUS
<1>2. PICK i \in 1..Len(s) : s[i] = t
  BY <1>1 DEF Range
<1>3. i # 1
  BY <1>2
<1>4. i - 1 \in 1..(Len(s) - 1) /\ (i - 1) + 1 = i
  BY <1>1, <1>3
<1>5. Tail(s)[i - 1] = t
  BY <1>1, <1>2, <1>4
<1> QED
  BY <1>1, <1>4, <1>5 DEF Range

(***************************************************************************)
(* The references.                                                         *)
(***************************************************************************)
LEMMA WaitingFinite ==
    ASSUME IInv
    PROVE  IsFiniteSet(Waiting) /\ Cardinality(Waiting) \in Nat
<1>1. Waiting \subseteq Callback /\ IsFiniteSet(Callback)
  BY ConstantsAssumption DEF Waiting
<1> QED
  BY <1>1, FS_Subset, FS_CardinalityType

\* A step that gives up no more than there is: nothing but the count and what
\* is reported changes besides what the step asks for.
LEMMA DropEffect ==
    ASSUME IInv, ~KeepFuture,
           NEW n \in Nat, NEW log \in BOOLEAN, NEW held \in Nat, NEW entries,
           n <= ob_refcnt, ob_refcnt = n => held = 0 /\ entries = <<>>,
           Drop(n, log, held, entries)
    PROVE  /\ ob_refcnt' = ob_refcnt - n /\ py_refs' = held
           /\ callbacks' = entries /\ outcome' = outcome
           /\ log_tb' = IF ob_refcnt' > 0 THEN log ELSE FALSE
           /\ reported' = reported + (IF ob_refcnt' = 0 THEN Flag(log) ELSE 0)
           /\ ob_refcnt' \in Nat /\ log_tb' \in BOOLEAN /\ reported' \in Nat
<1>1. ob_refcnt \in Nat /\ reported \in Nat
  BY DEF IInv, TypeOK
<1>2. CASE ob_refcnt > n
  <2>1. ob_refcnt' = ob_refcnt - n /\ ob_refcnt' > 0
    BY <1>1, <1>2 DEF Drop
  <2> QED
    BY <1>1, <1>2, <2>1 DEF Drop
<1>3. CASE ob_refcnt = n
  <2>1. ~(ob_refcnt > n)
    BY <1>1, <1>3
  <2>2. /\ reported' = reported + Flag(log) /\ log_tb' = FALSE /\ callbacks' = <<>>
        /\ \E kept \in {FALSE} :
              /\ ob_refcnt' = Flag(kept) /\ py_refs' = Flag(kept)
              /\ outcome' = IF kept THEN "pending" ELSE outcome
    BY <2>1 DEF Drop, Report
  <2>3. ob_refcnt' = 0 /\ py_refs' = 0 /\ outcome' = outcome
    BY <2>2
  <2>4. log_tb' = IF ob_refcnt' > 0 THEN log ELSE FALSE
    <3>1. ~(ob_refcnt' > 0)
      BY <2>3
    <3> QED
      BY <2>2, <3>1
  <2> QED
    BY <1>1, <1>3, <2>2, <2>3, <2>4
<1>4. ob_refcnt > n \/ ob_refcnt = n
  BY <1>1
<1> QED
  BY <1>2, <1>3, <1>4

\* When nothing refers to the awaitable, its call is over or never began.
LEMMA Unreferenced ==
    ASSUME IInv, ~invoking, op \in {"none", "over"}
    PROVE  callbacks = <<>>
BY DEF IInv, Progress

\* The references of the call and of the operation.
HeldBy(i, o) == Flag(i) + Flag(o \in Op \ {"none", "over"})

LEMMA Counted ==
    ASSUME IInv
    PROVE  /\ HeldBy(invoking, op) \in Nat
           /\ ob_refcnt = HeldBy(invoking, op) + py_refs + Len(queue) + Cardinality(Waiting)
           /\ ob_refcnt \in Nat /\ py_refs \in Nat /\ Len(queue) \in Nat
           /\ Cardinality(Waiting) \in Nat
<1>1. HeldBy(invoking, op) \in Nat
  BY DEF HeldBy
<1>2. ob_refcnt = HeldBy(invoking, op) + py_refs + Len(queue) + Cardinality(Waiting)
  BY DEF IInv, RefExact, HeldBy
<1>3. /\ ob_refcnt \in Nat /\ py_refs \in Nat /\ Len(queue) \in Nat
  BY DEF IInv, TypeOK
<1> QED
  BY <1>1, <1>2, <1>3, WaitingFinite

\* The count stays exact when it changes by what the references change by.
LEMMA CountedNext ==
    ASSUME IInv, NEW h \in Int, NEW p \in Int, NEW l \in Int, NEW w \in Int,
           HeldBy(invoking', op') = HeldBy(invoking, op) + h,
           py_refs' = py_refs + p, Len(queue') = Len(queue) + l,
           Cardinality(Waiting') = Cardinality(Waiting) + w,
           ob_refcnt' = ob_refcnt + (h + p + l + w)
    PROVE  RefExact'
<1>1. /\ HeldBy(invoking, op) \in Nat
      /\ ob_refcnt = HeldBy(invoking, op) + py_refs + Len(queue) + Cardinality(Waiting)
      /\ py_refs \in Nat /\ Len(queue) \in Nat /\ Cardinality(Waiting) \in Nat
  BY Counted
<1>2. PICK a \in Nat, b \in Nat, c \in Nat, d \in Nat :
         /\ a = HeldBy(invoking, op) /\ b = py_refs
         /\ c = Len(queue) /\ d = Cardinality(Waiting)
  BY <1>1
<1>3. ob_refcnt = a + b + c + d
  BY <1>1, <1>2
<1>4. /\ HeldBy(invoking', op') = a + h /\ py_refs' = b + p
      /\ Len(queue') = c + l /\ Cardinality(Waiting') = d + w
  BY <1>2
<1>5. ob_refcnt' = (a + h) + (b + p) + (c + l) + (d + w)
  BY <1>3
<1> QED
  BY <1>4, <1>5 DEF RefExact, HeldBy

LEMMA CountedSame ==
    ASSUME IInv, UNCHANGED <<invoking, op, py_refs, ob_refcnt>>, Len(queue') = Len(queue),
           Waiting' = Waiting
    PROVE  RefExact'
BY DEF IInv, RefExact

LEMMA CountedQueued ==
    ASSUME IInv, UNCHANGED <<invoking, op, py_refs>>, Waiting' = Waiting,
           Len(queue') = Len(queue) + 1, ob_refcnt' = ob_refcnt + 1
    PROVE  RefExact'
<1>1. /\ HeldBy(invoking', op') = HeldBy(invoking, op)
      /\ Cardinality(Waiting') = Cardinality(Waiting)
  BY DEF HeldBy
<1>c. /\ HeldBy(invoking, op) \in Nat
      /\ ob_refcnt = HeldBy(invoking, op) + py_refs + Len(queue) + Cardinality(Waiting)
      /\ ob_refcnt \in Nat /\ py_refs \in Nat /\ Len(queue) \in Nat
      /\ Cardinality(Waiting) \in Nat
  BY Counted
<1>2. HeldBy(invoking', op') = HeldBy(invoking, op) + 0
  BY <1>1, <1>c
<1>3. py_refs' = py_refs + 0
  BY <1>c
<1>4. Cardinality(Waiting') = Cardinality(Waiting) + 0
  BY <1>1, <1>c
<1>5. ob_refcnt' = ob_refcnt + (0 + 0 + 1 + 0) /\ 0 \in Int /\ 1 \in Int
  OBVIOUS
<1> QED
  BY <1>2, <1>3, <1>4, <1>5, CountedNext

LEMMA Started ==
    ASSUME IInv, op = "none"
    PROVE  /\ ob_refcnt = 0 /\ py_refs = 0 /\ Len(queue) = 0 /\ queue = <<>>
           /\ Cardinality(Waiting) = 0 /\ ~invoking /\ callbacks = <<>>
<1>1. ob_refcnt = 0 /\ callbacks = <<>>
  BY DEF IInv, Progress
<1>2. HeldBy(invoking, op) = 0 /\ py_refs = 0 /\ Len(queue) = 0 /\ Cardinality(Waiting) = 0
  BY <1>1, Counted
<1>3. ~invoking
  BY <1>2 DEF HeldBy, Op
<1>4. queue = <<>>
  BY <1>2 DEF IInv, TypeOK
<1> QED
  BY <1>1, <1>2, <1>3, <1>4

\* Steps that leave the array, the wakeups or the exception's report alone.
LEMMA ArrayKept ==
    ASSUME IInv, UNCHANGED <<callbacks, func_refs, next>>
    PROVE  FuncRefsExact'
BY DEF IInv, FuncRefsExact

LEMMA WakeupsKept ==
    ASSUME IInv, UNCHANGED <<callbacks, next, in_call, task, queue, closed>>
    PROVE  NoLostWakeup' /\ Scheduled' /\ Waiting' = Waiting
BY DEF IInv, NoLostWakeup, Scheduled, Waiting, Raises

(***************************************************************************)
(* Each step preserves the invariant.                                      *)
(***************************************************************************)
LEMMA StartKeeps ==
    ASSUME IInv, Start
    PROVE  IInv'
<1> USE DEF cvars, fvars, lvars, hvars
<1>1. TypeOK'
  BY DEF IInv, TypeOK, Start, Op
<1>2. FuncRefsExact' /\ NoLostWakeup' /\ Scheduled' /\ Waiting' = Waiting
  BY ArrayKept, WakeupsKept DEF Start
<1>3. RefExact'
  <2>1. /\ HeldBy(invoking', op') = HeldBy(invoking, op) + 2 /\ py_refs' = py_refs + 0
        /\ Len(queue') = Len(queue) + 0 /\ Cardinality(Waiting') = Cardinality(Waiting) + 0
        /\ ob_refcnt' = ob_refcnt + (2 + 0 + 0 + 0)
        /\ 0 \in Int /\ 2 \in Int
    BY <1>2, Started, Counted DEF Start, HeldBy, Op
  <2> QED
    BY <2>1, CountedNext
<1>4. Progress' /\ LogKept'
  BY Started DEF IInv, Progress, LogKept, Done, Start, TypeOK
<1> QED
  BY <1>1, <1>2, <1>3, <1>4 DEF IInv

LEMMA CallFailsKeeps ==
    ASSUME IInv, CallFails, ~KeepFuture
    PROVE  IInv'
<1> USE DEF cvars, fvars, lvars, hvars
<1>1. op = "running" /\ ob_refcnt >= 2
  <2>1. op = "running" /\ HeldBy(invoking, op) = 2
    BY DEF CallFails, HeldBy, Op
  <2> QED
    BY <2>1, Counted
<1>2. /\ ob_refcnt' = ob_refcnt - 1 /\ ob_refcnt' > 0
      /\ UNCHANGED <<log_tb, py_refs, callbacks, outcome, reported>>
  <2>1. ob_refcnt > 1 /\ ob_refcnt - 1 > 0
    BY <1>1, Counted
  <2> QED
    BY <2>1 DEF CallFails, Drop
<1>3. TypeOK'
  <2>1. ob_refcnt' \in Nat
    BY <1>1, <1>2, Counted
  <2> QED
    BY <1>2, <2>1 DEF IInv, TypeOK, CallFails, Op
<1>4. FuncRefsExact' /\ NoLostWakeup' /\ Scheduled' /\ Waiting' = Waiting
  BY <1>2, ArrayKept, WakeupsKept DEF CallFails
<1>5. RefExact'
  <2>1. HeldBy(invoking, op) = 2 /\ HeldBy(invoking', op') = 1
    BY <1>1 DEF CallFails, HeldBy, Op
  <2>2. queue' = queue /\ py_refs' = py_refs
    BY <1>2 DEF CallFails
  <2>3. /\ HeldBy(invoking', op') = HeldBy(invoking, op) + (-1) /\ py_refs' = py_refs + 0
        /\ Len(queue') = Len(queue) + 0 /\ Cardinality(Waiting') = Cardinality(Waiting) + 0
        /\ ob_refcnt' = ob_refcnt + ((-1) + 0 + 0 + 0)
        /\ -1 \in Int /\ 0 \in Int
    BY <1>2, <1>4, <2>1, <2>2, Counted
  <2> QED
    BY <2>3, CountedNext
<1>6. Progress' /\ LogKept'
  BY <1>1, <1>2, Counted DEF IInv, Progress, LogKept, Done, CallFails
<1> QED
  BY <1>3, <1>4, <1>5, <1>6 DEF IInv

LEMMA CallReturnsKeeps ==
    ASSUME IInv, CallReturns
    PROVE  IInv'
<1> USE DEF cvars, fvars, lvars, hvars
<1>1. TypeOK'
  <2>1. py_refs' \in Nat
    BY Counted DEF CallReturns
  <2> QED
    BY <2>1 DEF IInv, TypeOK, CallReturns
<1>2. FuncRefsExact' /\ NoLostWakeup' /\ Scheduled' /\ Waiting' = Waiting
  BY ArrayKept, WakeupsKept DEF CallReturns
<1>3. RefExact'
  <2>1. HeldBy(invoking', op') = HeldBy(invoking, op) - 1 /\ py_refs' = py_refs + 1
    BY DEF CallReturns, HeldBy
  <2>2. queue' = queue /\ ob_refcnt' = ob_refcnt
    BY DEF CallReturns
  <2>3. /\ HeldBy(invoking', op') = HeldBy(invoking, op) + (-1) /\ py_refs' = py_refs + 1
        /\ Len(queue') = Len(queue) + 0 /\ Cardinality(Waiting') = Cardinality(Waiting) + 0
        /\ ob_refcnt' = ob_refcnt + ((-1) + 1 + 0 + 0)
        /\ -1 \in Int /\ 0 \in Int /\ 1 \in Int
    BY <1>2, <2>1, <2>2, Counted
  <2> QED
    BY <2>3, CountedNext
<1>4. Progress' /\ LogKept'
  BY DEF IInv, Progress, LogKept, Done, CallReturns
<1> QED
  BY <1>1, <1>2, <1>3, <1>4 DEF IInv

LEMMA FinishBeginsKeeps ==
    ASSUME IInv, NEW r \in Outcome, FinishBegins(r)
    PROVE  IInv'
<1> USE DEF cvars, fvars, lvars, hvars
<1>1. TypeOK'
  BY DEF IInv, TypeOK, FinishBegins, Op
<1>2. /\ next = 0 /\ next' = 1 /\ ~Done /\ Done' /\ ~in_call
      /\ DOMAIN callbacks = 1..Len(callbacks) /\ Len(callbacks) \in Nat
  BY DEF IInv, TypeOK, Progress, FinishBegins, Done, Outcome
<1>3. FuncRefsExact'
  <2>1. ASSUME NEW g
        PROVE  {i \in DOMAIN callbacks : i >= 0 /\ callbacks[i] = g}
                 = {i \in DOMAIN callbacks : i >= 1 /\ callbacks[i] = g}
    BY <1>2
  <2> QED
    BY <1>2, <2>1 DEF IInv, FuncRefsExact, FinishBegins
<1>4. NoLostWakeup' /\ Scheduled'
  <2>1. \A i \in DOMAIN callbacks : i >= 1
    BY <1>2
  <2> QED
    BY <1>2, <2>1 DEF IInv, NoLostWakeup, Scheduled, Waiting, FinishBegins
<1>5. RefExact'
  <2>1. HeldBy(invoking', op') = HeldBy(invoking, op) /\ Waiting' = Waiting
    BY DEF FinishBegins, HeldBy, Op, Waiting
  <2>2. /\ HeldBy(invoking', op') = HeldBy(invoking, op) + 0 /\ py_refs' = py_refs + 0
        /\ Len(queue') = Len(queue) + 0 /\ Cardinality(Waiting') = Cardinality(Waiting) + 0
        /\ ob_refcnt' = ob_refcnt + (0 + 0 + 0 + 0)
        /\ 0 \in Int
    BY <2>1, Counted DEF FinishBegins
  <2> QED
    BY <2>2, CountedNext
<1>6. Progress'
  BY <1>2 DEF IInv, Progress, FinishBegins
<1>7. LogKept'
  BY <1>2 DEF IInv, LogKept, FinishBegins, Done, TypeOK
<1> QED
  BY <1>1, <1>3, <1>4, <1>5, <1>6, <1>7 DEF IInv

LEMMA CallSoonKeeps ==
    ASSUME IInv, CallSoon
    PROVE  IInv'
<1> USE DEF cvars, fvars, lvars, hvars
<1> DEFINE f == callbacks[next]
<1>1. /\ next \in 1..Len(callbacks) /\ f \in Callback /\ Done
      /\ queue \in Seq(Callback) /\ Len(queue) \in Nat /\ Waiting' = Waiting
  BY DEF IInv, TypeOK, Progress, CallSoon, Waiting
<1>c. /\ HeldBy(invoking, op) \in Nat
      /\ ob_refcnt = HeldBy(invoking, op) + py_refs + Len(queue) + Cardinality(Waiting)
      /\ ob_refcnt \in Nat /\ py_refs \in Nat /\ Len(queue) \in Nat
      /\ Cardinality(Waiting) \in Nat
  BY Counted
<1>2. /\ queue' \in Seq(Callback) /\ Len(queue') = Len(queue) + Flag(~Raises(f))
      /\ Range(queue) \subseteq Range(queue')
      /\ ~Raises(f) => f \in Range(queue')
  <2>1. CASE Raises(f)
    BY <1>1, <2>1 DEF CallSoon, Schedule
  <2>2. CASE ~Raises(f)
    <3>1. queue' = Append(queue, f)
      BY <2>2 DEF CallSoon, Schedule
    <3>2. Range(queue') = Range(queue) \cup {f}
      BY <1>1, <3>1, RangeAppend
    <3> QED
      BY <1>1, <2>2, <3>1, <3>2
  <2> QED
    BY <2>1, <2>2
<1>3. ob_refcnt' = ob_refcnt + Flag(~Raises(f))
  BY Counted DEF CallSoon, Schedule
<1>4. TypeOK'
  BY <1>2, <1>3 DEF IInv, TypeOK, CallSoon, Raises
<1>5. FuncRefsExact'
  BY ArrayKept DEF CallSoon
<1>6. NoLostWakeup' /\ Scheduled'
  BY <1>1, <1>2 DEF IInv, NoLostWakeup, Scheduled, CallSoon, Raises
<1>7. RefExact'
  <2>1. UNCHANGED <<invoking, op, py_refs>>
    BY DEF CallSoon
  <2>2. \/ ob_refcnt' = ob_refcnt /\ Len(queue') = Len(queue)
        \/ ob_refcnt' = ob_refcnt + 1 /\ Len(queue') = Len(queue) + 1
    <3>1. CASE Raises(f)
      BY <1>1, <1>2, <1>3, <3>1, Counted
    <3>2. CASE ~Raises(f)
      BY <1>1, <1>2, <1>3, <3>2, Counted
    <3> QED
      BY <3>1, <3>2
  <2>3. CASE ob_refcnt' = ob_refcnt /\ Len(queue') = Len(queue)
    BY <1>1, <2>1, <2>3, CountedSame
  <2>4. CASE ob_refcnt' = ob_refcnt + 1 /\ Len(queue') = Len(queue) + 1
    BY <1>1, <2>1, <2>4, CountedQueued
  <2> QED
    BY <2>2, <2>3, <2>4
<1>8. Progress'
  BY <1>1 DEF IInv, Progress, CallSoon, Done
<1>9. LogKept'
  <2>1. ob_refcnt > 0
    BY <1>1, Counted DEF IInv, Progress, CallSoon, HeldBy, Op
  <2> QED
    BY <2>1 DEF IInv, LogKept, CallSoon
<1> QED
  BY <1>4, <1>5, <1>6, <1>7, <1>8, <1>9 DEF IInv

LEMMA ReleaseEntryKeeps ==
    ASSUME IInv, ReleaseEntry
    PROVE  IInv'
<1> USE DEF cvars, fvars, lvars, hvars
<1> DEFINE f == callbacks[next]
<1>1. /\ in_call /\ in_call' = FALSE /\ op' = op /\ op = "finishing"
      /\ next \in 1..Len(callbacks) /\ f \in Callback /\ next' = next + 1
      /\ func_refs' = [func_refs EXCEPT ![f] = @ - 1]
      /\ callbacks \in Seq(Callback) /\ callbacks' = callbacks
      /\ UNCHANGED <<invoking, py_refs, queue, ob_refcnt, task, outcome>>
  BY DEF IInv, TypeOK, Progress, ReleaseEntry
<1>2. TypeOK'
  <2>1. next' \in Nat
    BY <1>1 DEF IInv, TypeOK
  <2>2. func_refs' \in [Callback -> Int]
    <3>1. func_refs \in [Callback -> Int]
      BY DEF IInv, TypeOK
    <3> QED
      BY <1>1, <3>1
  <2> QED
    BY <1>1, <2>1, <2>2 DEF IInv, TypeOK, ReleaseEntry
<1>3. FuncRefsExact'
  <2> SUFFICES ASSUME NEW g \in Callback
               PROVE  func_refs'[g] = Cardinality(From(callbacks, next + 1, g))
    BY <1>1 DEF FuncRefsExact, From
  <2>1. func_refs[g] = Cardinality(From(callbacks, next, g))
    BY DEF IInv, FuncRefsExact, From
  <2>2. func_refs'[g] = func_refs[g] - Flag(f = g)
    BY <1>1 DEF IInv, TypeOK
  <2>3. Cardinality(From(callbacks, next + 1, g))
           = Cardinality(From(callbacks, next, g)) - Flag(f = g)
    BY <1>1, FromNext
  <2> QED
    BY <2>1, <2>2, <2>3
<1>4. NoLostWakeup'
  <2> SUFFICES ASSUME NEW t \in Waiting \ Bad, ~closed, t \notin Range(queue)
               PROVE  \E i \in DOMAIN callbacks : i >= next + 1 /\ callbacks[i] = t
    BY <1>1 DEF NoLostWakeup, ReleaseEntry, Waiting
  <2>1. PICK i \in DOMAIN callbacks : i >= next /\ callbacks[i] = t
    BY DEF IInv, NoLostWakeup
  <2>2. i # next
    BY <1>1, <2>1 DEF IInv, Scheduled, Raises
  <2> QED
    BY <1>1, <2>1, <2>2
<1>5. Scheduled'
  BY <1>1 DEF Scheduled
<1>6. RefExact'
  BY <1>1 DEF IInv, RefExact, Waiting
<1>7. Progress'
  BY <1>1 DEF IInv, Progress, Done
<1>8. LogKept'
  BY <1>1 DEF IInv, LogKept, ReleaseEntry
<1> QED
  BY <1>2, <1>3, <1>4, <1>5, <1>6, <1>7, <1>8 DEF IInv

LEMMA FinishEndsKeeps ==
    ASSUME IInv, FinishEnds, ~KeepFuture
    PROVE  IInv'
<1> USE DEF cvars, fvars, lvars, hvars
<1>1. /\ op = "finishing" /\ op' = "over" /\ Done /\ ~in_call /\ next > Len(callbacks)
      /\ next \in Nat /\ Len(callbacks) \in Nat /\ DOMAIN callbacks = 1..Len(callbacks)
      /\ log_tb \in BOOLEAN /\ Waiting' = Waiting
  BY DEF IInv, TypeOK, Progress, FinishEnds, Waiting
<1>2. HeldBy(invoking', op') = HeldBy(invoking, op) + (-1) /\ HeldBy(invoking, op) >= 1
  BY <1>1 DEF FinishEnds, HeldBy, Op
<1>c. /\ HeldBy(invoking, op) \in Nat
      /\ ob_refcnt = HeldBy(invoking, op) + py_refs + Len(queue) + Cardinality(Waiting)
      /\ ob_refcnt \in Nat /\ py_refs \in Nat /\ Len(queue) \in Nat
      /\ Cardinality(Waiting) \in Nat
  BY Counted
<1>3. ob_refcnt >= 1 /\ (ob_refcnt = 1 => py_refs = 0)
  BY <1>2, <1>c
<1>4. /\ ob_refcnt' = ob_refcnt - 1 /\ py_refs' = py_refs
      /\ callbacks' = <<>> /\ outcome' = outcome
      /\ log_tb' = IF ob_refcnt' > 0 THEN log_tb ELSE FALSE
      /\ reported' = reported + (IF ob_refcnt' = 0 THEN Flag(log_tb) ELSE 0)
  BY <1>1, <1>3, Counted, DropEffect DEF FinishEnds
<1>n. ob_refcnt' = ob_refcnt + (-1) /\ py_refs' = py_refs
  BY <1>4, <1>c
<1>5. TypeOK'
  <2>1. ob_refcnt' \in Nat /\ reported' \in Nat /\ log_tb' \in BOOLEAN
    BY <1>1, <1>3, Counted, DropEffect DEF FinishEnds
  <2>2. callbacks' \in Seq(Callback) /\ next' \in Nat /\ op' \in Op
    BY <1>1, <1>4 DEF FinishEnds, Op
  <2> QED
    BY <1>4, <2>1, <2>2 DEF IInv, TypeOK, FinishEnds
<1>6. FuncRefsExact'
  <2> SUFFICES ASSUME NEW g \in Callback
               PROVE  func_refs[g] = Cardinality(From(<<>>, 0, g))
    BY <1>4 DEF FuncRefsExact, From, FinishEnds
  <2>1. From(callbacks, next, g) = {}
    BY <1>1 DEF From
  <2>2. func_refs[g] = 0
    BY <2>1, FS_EmptySet DEF IInv, FuncRefsExact, From
  <2> QED
    BY <2>2, FromEmpty
<1>7. NoLostWakeup'
  <2> SUFFICES ASSUME NEW t \in Waiting \ Bad, ~closed
               PROVE  t \in Range(queue)
    BY <1>1 DEF NoLostWakeup, FinishEnds
  <2>1. ~\E i \in DOMAIN callbacks : i >= next /\ callbacks[i] = t
    BY <1>1
  <2> QED
    BY <2>1 DEF IInv, NoLostWakeup
<1>8. Scheduled'
  BY <1>1 DEF Scheduled, FinishEnds
<1>9. RefExact'
  <2>1. queue' = queue
    BY DEF FinishEnds
  <2>2. /\ HeldBy(invoking', op') = HeldBy(invoking, op) + (-1) /\ py_refs' = py_refs + 0
        /\ Len(queue') = Len(queue) + 0 /\ Cardinality(Waiting') = Cardinality(Waiting) + 0
        /\ ob_refcnt' = ob_refcnt + ((-1) + 0 + 0 + 0)
        /\ -1 \in Int /\ 0 \in Int
    BY <1>1, <1>2, <1>c, <1>n, <2>1
  <2> QED
    BY <2>2, CountedNext
<1>10. Progress'
  BY <1>1, <1>4 DEF IInv, Progress, Done, FinishEnds
<1>11. LogKept'
  BY <1>4 DEF IInv, LogKept, FinishEnds, TypeOK
<1> QED
  BY <1>5, <1>6, <1>7, <1>8, <1>9, <1>10, <1>11 DEF IInv

\* Outside the finish callback, where alone Python code reaches the callbacks.
LEMMA Touching ==
    ASSUME IInv, MayTouch, ~Reentrant
    PROVE  /\ op \in {"running", "over", "stranded"} /\ next = 0 /\ ~in_call
           /\ ob_refcnt > 0 /\ (Done <=> op = "over")
           /\ (Done => callbacks = <<>>) /\ (~Done => queue = <<>>)
<1>1. ob_refcnt > 0
  BY Counted DEF MayTouch
<1> QED
  BY <1>1 DEF IInv, TypeOK, Progress, MayTouch, Op

\* add_done_callback, of the awaitable that is not done.
LEMMA Registered ==
    ASSUME IInv, next = 0, NEW f \in Callback,
           callbacks' = Append(callbacks, f),
           func_refs' = [func_refs EXCEPT ![f] = @ + 1], next' = next
    PROVE  /\ callbacks' \in Seq(Callback) /\ func_refs' \in [Callback -> Int]
           /\ FuncRefsExact'
           /\ \A t \in Callback : t = f \/ (\E i \in DOMAIN callbacks : callbacks[i] = t)
                 => \E i \in DOMAIN callbacks' : i >= 0 /\ callbacks'[i] = t
<1>1. callbacks \in Seq(Callback) /\ func_refs \in [Callback -> Int]
  BY DEF IInv, TypeOK
<1>2. callbacks' \in Seq(Callback) /\ func_refs' \in [Callback -> Int]
  BY <1>1
<1>3. FuncRefsExact'
  <2> SUFFICES ASSUME NEW g \in Callback
               PROVE  func_refs'[g] = Cardinality(From(Append(callbacks, f), 0, g))
    BY DEF FuncRefsExact, From
  <2>1. func_refs[g] = Cardinality(From(callbacks, 0, g))
    BY DEF IInv, FuncRefsExact, From
  <2>2. func_refs'[g] = func_refs[g] + Flag(f = g)
    BY <1>1
  <2>3. Len(callbacks) \in Nat /\ 0 \in Nat /\ 0 <= Len(callbacks) + 1
    BY <1>1
  <2>4. Cardinality(From(Append(callbacks, f), 0, g))
           = Cardinality(From(callbacks, 0, g)) + Flag(f = g)
    BY <1>1, <2>3, FromAppend
  <2> QED
    BY <2>1, <2>2, <2>4
<1>4. ASSUME NEW t \in Callback, t = f \/ (\E i \in DOMAIN callbacks : callbacks[i] = t)
      PROVE  \E i \in DOMAIN callbacks' : i >= 0 /\ callbacks'[i] = t
  <2>1. Range(callbacks') = Range(callbacks) \cup {f}
    BY <1>1, RangeAppend
  <2>2. t \in Range(callbacks')
    BY <1>4, <2>1 DEF Range
  <2>3. \A i \in DOMAIN callbacks' : i >= 0
    BY <1>2
  <2> QED
    BY <2>2, <2>3 DEF Range
<1> QED
  BY <1>2, <1>3, <1>4

LEMMA AddDoneKeeps ==
    ASSUME IInv, NEW f \in Callback \ Waiter, AddDone(f), ~Reentrant
    PROVE  IInv'
<1> USE DEF cvars, fvars, lvars, hvars
<1>c. /\ HeldBy(invoking, op) \in Nat
      /\ ob_refcnt = HeldBy(invoking, op) + py_refs + Len(queue) + Cardinality(Waiting)
      /\ ob_refcnt \in Nat /\ py_refs \in Nat /\ Len(queue) \in Nat
      /\ Cardinality(Waiting) \in Nat
  BY Counted
<1>1. /\ op \in {"running", "over", "stranded"} /\ next = 0 /\ ~in_call
      /\ ob_refcnt > 0 /\ (Done <=> op = "over") /\ f \in Callback
      /\ (Done => callbacks = <<>>) /\ (~Done => queue = <<>>)
  BY Touching DEF AddDone
<1>2. UNCHANGED <<invoking, op, outcome, next, in_call, py_refs, task, closed, log_tb, retrieved>>
  BY DEF AddDone
<1>3. Waiting' = Waiting
  BY <1>2 DEF Waiting
<1>4. queue \in Seq(Callback) /\ added' \in Nat
  BY DEF IInv, TypeOK, AddDone
<1>5. CASE Done
  <2>1. /\ queue' = IF Raises(f) THEN queue ELSE Append(queue, f)
        /\ ob_refcnt' = ob_refcnt + 0 + Flag(~Raises(f))
        /\ UNCHANGED <<callbacks, func_refs>>
    BY <1>5 DEF AddDone, Register, Schedule
  <2>2. CASE Raises(f)
    <3>1. queue' = queue /\ ob_refcnt' = ob_refcnt
      BY <1>c, <2>1, <2>2
    <3>2. TypeOK'
      BY <1>2, <1>4, <2>1, <3>1 DEF IInv, TypeOK, AddDone
    <3>3. FuncRefsExact' /\ NoLostWakeup' /\ Scheduled'
      BY <1>2, <2>1, <3>1, ArrayKept, WakeupsKept
    <3>4. RefExact'
      BY <1>2, <1>3, <3>1, CountedSame
    <3>5. Progress' /\ LogKept'
      BY <1>2, <2>1, <3>1 DEF IInv, Progress, LogKept, Done
    <3> QED
      BY <3>2, <3>3, <3>4, <3>5 DEF IInv
  <2>3. CASE ~Raises(f)
    <3>1. /\ queue' = Append(queue, f) /\ ob_refcnt' = ob_refcnt + 1
          /\ queue' \in Seq(Callback) /\ Len(queue') = Len(queue) + 1
          /\ ob_refcnt' \in Nat
      <4>1. queue' = Append(queue, f) /\ ob_refcnt' = ob_refcnt + 1
        BY <1>c, <2>1, <2>3
      <4>2. Append(queue, f) \in Seq(Callback) /\ Len(Append(queue, f)) = Len(queue) + 1
        BY <1>1, <1>4
      <4>3. ob_refcnt + 1 \in Nat
        BY <1>c
      <4> QED
        BY <4>1, <4>2, <4>3
    <3>2. TypeOK'
      BY <1>2, <1>4, <2>1, <3>1 DEF IInv, TypeOK, AddDone
    <3>3. Range(queue) \subseteq Range(queue')
      BY <1>1, <1>4, <3>1, RangeAppend
    <3>4. FuncRefsExact' /\ NoLostWakeup' /\ Scheduled'
      <4>1. FuncRefsExact'
        BY <1>2, <2>1, ArrayKept
      <4>2. NoLostWakeup' /\ Scheduled'
        BY <1>1, <1>2, <1>3, <2>1, <3>3 DEF IInv, NoLostWakeup, Scheduled
      <4> QED
        BY <4>1, <4>2
    <3>5. RefExact'
      BY <1>2, <1>3, <3>1, CountedQueued
    <3>6. Progress' /\ LogKept'
      BY <1>1, <1>2, <1>5, <2>1 DEF IInv, Progress, LogKept, Done
    <3> QED
      BY <3>2, <3>4, <3>5, <3>6 DEF IInv
  <2> QED
    BY <2>2, <2>3
<1>6. CASE ~Done
  <2>1. /\ callbacks' = Append(callbacks, f)
        /\ func_refs' = [func_refs EXCEPT ![f] = @ + 1]
        /\ ob_refcnt' = ob_refcnt /\ queue' = queue
    BY <1>c, <1>6 DEF AddDone, Register
  <2>2. /\ callbacks' \in Seq(Callback) /\ func_refs' \in [Callback -> Int]
        /\ FuncRefsExact'
        /\ \A t \in Callback : t = f \/ (\E i \in DOMAIN callbacks : callbacks[i] = t)
              => \E i \in DOMAIN callbacks' : i >= 0 /\ callbacks'[i] = t
    BY <1>1, <1>2, <2>1, Registered
  <2>3. TypeOK'
    BY <1>2, <1>4, <2>1, <2>2 DEF IInv, TypeOK, AddDone
  <2>4. NoLostWakeup' /\ Scheduled'
    <3>1. NoLostWakeup'
      <4> SUFFICES ASSUME NEW t \in Waiting \ Bad, ~closed, t \notin Range(queue)
                   PROVE  \E i \in DOMAIN callbacks' : i >= 0 /\ callbacks'[i] = t
        BY <1>1, <1>2, <1>3, <2>1 DEF NoLostWakeup
      <4>1. t \in Callback
        BY ConstantsAssumption DEF Waiting
      <4> QED
        BY <2>2, <4>1 DEF IInv, NoLostWakeup
    <3> QED
      BY <1>1, <1>2, <3>1 DEF Scheduled
  <2>5. RefExact'
    BY <1>2, <1>3, <2>1, CountedSame
  <2>6. Progress'
    <3>1. Len(callbacks') \in Nat
      BY <2>2
    <3> QED
      BY <1>1, <1>2, <1>6, <2>1, <3>1 DEF IInv, Progress, Done
  <2>7. LogKept'
    BY <1>2, <2>1 DEF IInv, LogKept
  <2> QED
    BY <2>2, <2>3, <2>4, <2>5, <2>6, <2>7 DEF IInv
<1> QED
  BY <1>5, <1>6

LEMMA RemoveDoneKeeps ==
    ASSUME IInv, NEW f \in Callback \ Waiter, RemoveDone(f), ~Reentrant
    PROVE  IInv'
<1> USE DEF cvars, fvars, lvars, hvars
<1>c. /\ HeldBy(invoking, op) \in Nat
      /\ ob_refcnt = HeldBy(invoking, op) + py_refs + Len(queue) + Cardinality(Waiting)
      /\ ob_refcnt \in Nat /\ py_refs \in Nat /\ Len(queue) \in Nat
      /\ Cardinality(Waiting) \in Nat
  BY Counted
<1>1. /\ op \in {"running", "over", "stranded"} /\ next = 0 /\ ~in_call
      /\ ob_refcnt > 0 /\ (Done <=> op = "over") /\ f \in Callback
      /\ (Done => callbacks = <<>>) /\ (~Done => queue = <<>>)
  BY Touching DEF RemoveDone
<1>2. UNCHANGED <<invoking, op, outcome, next, in_call, py_refs, task, queue, closed, log_tb,
                  retrieved, ob_refcnt>>
  BY DEF RemoveDone
<1>3. callbacks \in Seq(Callback) /\ func_refs \in [Callback -> Int]
  BY DEF IInv, TypeOK
<1>4. ~Done
  <2>1. callbacks # <<>>
    BY DEF RemoveDone, Range
  <2> QED
    BY <1>1, <2>1
<1>5. /\ callbacks' = Without(callbacks, f) /\ callbacks' \in Seq(Callback)
      /\ Len(callbacks') = Len(callbacks) - Cardinality(From(callbacks, 0, f))
      /\ \A g : Cardinality(From(callbacks', 0, g))
                   = IF g = f THEN 0 ELSE Cardinality(From(callbacks, 0, g))
  BY <1>3, WithoutType DEF RemoveDone
<1>6. func_refs[f] = Cardinality(From(callbacks, 0, f)) /\ Len(callbacks) \in Nat
  BY <1>1, <1>3 DEF IInv, FuncRefsExact, From
<1>7. func_refs' = [func_refs EXCEPT ![f] = 0]
  <2>1. func_refs[f] - (Len(callbacks) - Len(callbacks')) = 0
    <3>1. func_refs[f] \in Nat
      BY <1>3, <1>6, FromFinite
    <3> QED
      BY <1>5, <1>6, <3>1
  <2> QED
    BY <2>1 DEF RemoveDone
<1>8. TypeOK'
  <2>1. func_refs' \in [Callback -> Int]
    BY <1>3, <1>7
  <2> QED
    BY <1>2, <1>5, <2>1 DEF IInv, TypeOK, RemoveDone
<1>9. FuncRefsExact'
  <2> SUFFICES ASSUME NEW g \in Callback
               PROVE  func_refs'[g] = Cardinality(From(callbacks', 0, g))
    BY <1>1, <1>2 DEF FuncRefsExact, From
  <2>1. func_refs[g] = Cardinality(From(callbacks, 0, g))
    BY <1>1 DEF IInv, FuncRefsExact, From
  <2>2. func_refs'[g] = IF g = f THEN 0 ELSE func_refs[g]
    BY <1>3, <1>7
  <2> QED
    BY <1>5, <2>1, <2>2
<1>10. NoLostWakeup'
  <2> SUFFICES ASSUME NEW t \in Waiting \ Bad, ~closed, t \notin Range(queue)
               PROVE  \E i \in DOMAIN callbacks' : i >= 0 /\ callbacks'[i] = t
    BY <1>1, <1>2 DEF NoLostWakeup, Waiting
  <2>1. \E i \in DOMAIN callbacks : callbacks[i] = t
    BY DEF IInv, NoLostWakeup
  <2>2. t # f
    BY DEF Waiting
  <2>3. \E i \in DOMAIN callbacks' : callbacks'[i] = t
    <3>1. \E i \in DOMAIN Without(callbacks, f) : Without(callbacks, f)[i] = t
      <4>1. t \in Range(callbacks)
        BY <2>1 DEF Range
      <4>2. t \in Range(Without(callbacks, f))
        BY <1>3, <2>2, <4>1, StillIn
      <4> QED
        BY <4>2 DEF Range
    <3> QED
      BY <1>5, <3>1
  <2>4. \A i \in DOMAIN callbacks' : i >= 0
    BY <1>5
  <2> QED
    BY <2>3, <2>4
<1>11. Scheduled'
  BY <1>1, <1>2 DEF Scheduled
<1>12. RefExact'
  BY <1>2 DEF IInv, RefExact, Waiting
<1>13. Progress'
  <2>1. Len(callbacks') \in Nat
    BY <1>5
  <2> QED
    BY <1>1, <1>2, <1>4, <2>1 DEF IInv, Progress, Done
<1>14. LogKept'
  BY <1>2 DEF IInv, LogKept
<1> QED
  BY <1>8, <1>9, <1>10, <1>11, <1>12, <1>13, <1>14 DEF IInv

LEMMA AwaitKeeps ==
    ASSUME IInv, NEW t \in Waiter, Await(t), ~Reentrant
    PROVE  IInv'
<1> USE DEF cvars, fvars, lvars, hvars
<1>c. /\ HeldBy(invoking, op) \in Nat
      /\ ob_refcnt = HeldBy(invoking, op) + py_refs + Len(queue) + Cardinality(Waiting)
      /\ ob_refcnt \in Nat /\ py_refs \in Nat /\ Len(queue) \in Nat
      /\ Cardinality(Waiting) \in Nat
  BY Counted
<1>1. /\ op \in {"running", "over", "stranded"} /\ next = 0 /\ ~in_call
      /\ ob_refcnt > 0 /\ (Done <=> op = "over") /\ t \in Callback
      /\ (Done => callbacks = <<>>) /\ (~Done => queue = <<>>)
  BY Touching, ConstantsAssumption DEF Await
<1>2. UNCHANGED <<invoking, op, outcome, next, in_call, py_refs, closed, log_tb, retrieved>>
  BY DEF Await
<1>3. /\ task \in [Waiter -> Outcome \cup {"idle", "waiting"}] /\ task[t] = "idle"
      /\ outcome \in Outcome \cup {"pending"}
  BY DEF IInv, TypeOK, Await
<1>4. delivered' \in BOOLEAN
  BY DEF IInv, TypeOK, Await
<1>5. CASE Done
  <2>1. task' = [task EXCEPT ![t] = outcome] /\ outcome \in Outcome
    BY <1>3, <1>5 DEF Await, NextGives, Done
  <2>2. UNCHANGED <<callbacks, func_refs, ob_refcnt, queue>>
    BY <1>5 DEF Await
  <2>3. Waiting' = Waiting
    <3>1. \A u \in Waiter : task'[u] = "waiting" <=> task[u] = "waiting"
      BY <1>3, <2>1 DEF Outcome
    <3> QED
      BY <3>1 DEF Waiting
  <2>4. TypeOK'
    <3>1. task' \in [Waiter -> Outcome \cup {"idle", "waiting"}]
      BY <1>3, <2>1
    <3> QED
      BY <1>2, <1>4, <2>2, <3>1 DEF IInv, TypeOK, Await
  <2>5. FuncRefsExact' /\ NoLostWakeup' /\ Scheduled'
    BY <1>1, <1>2, <2>2, <2>3 DEF IInv, FuncRefsExact, NoLostWakeup, Scheduled
  <2>6. RefExact'
    BY <1>2, <2>2, <2>3, CountedSame
  <2>7. Progress' /\ LogKept'
    BY <1>2, <2>2 DEF IInv, Progress, LogKept, Done
  <2> QED
    BY <2>4, <2>5, <2>6, <2>7 DEF IInv
<1>6. CASE ~Done
  <2>1. /\ callbacks' = Append(callbacks, t)
        /\ func_refs' = [func_refs EXCEPT ![t] = @ + 1]
        /\ ob_refcnt' = ob_refcnt + 1 /\ queue' = queue
        /\ task' = [task EXCEPT ![t] = "waiting"]
    BY <1>c, <1>6 DEF Await, Register
  <2>2. /\ callbacks' \in Seq(Callback) /\ func_refs' \in [Callback -> Int]
        /\ FuncRefsExact'
        /\ \A u \in Callback : u = t \/ (\E i \in DOMAIN callbacks : callbacks[i] = u)
              => \E i \in DOMAIN callbacks' : i >= 0 /\ callbacks'[i] = u
    BY <1>1, <1>2, <2>1, Registered
  <2>3. Waiting' = Waiting \cup {t} /\ t \notin Waiting
    BY <1>3, <2>1 DEF Waiting
  <2>4. TypeOK'
    <3>1. task' \in [Waiter -> Outcome \cup {"idle", "waiting"}]
      BY <1>3, <2>1
    <3>2. ob_refcnt' \in Nat
      BY <1>c, <2>1
    <3> QED
      BY <1>2, <1>4, <2>1, <2>2, <3>1, <3>2 DEF IInv, TypeOK, Await
  <2>5. NoLostWakeup'
    <3> SUFFICES ASSUME NEW u \in Waiting' \ Bad, ~closed, u \notin Range(queue)
                 PROVE  \E i \in DOMAIN callbacks' : i >= 0 /\ callbacks'[i] = u
      BY <1>1, <1>2, <2>1 DEF NoLostWakeup
    <3>1. u \in Callback /\ (u = t \/ u \in Waiting)
      BY <1>1, <2>3, ConstantsAssumption DEF Waiting
    <3>2. u \in Waiting => \E i \in DOMAIN callbacks : callbacks[i] = u
      BY DEF IInv, NoLostWakeup
    <3> QED
      BY <2>2, <3>1, <3>2
  <2>6. Scheduled'
    BY <1>1, <1>2 DEF Scheduled
  <2>7. RefExact'
    <3>1. HeldBy(invoking', op') = HeldBy(invoking, op) + 0
      BY <1>c, <1>2
    <3>2. py_refs' = py_refs + 0
      BY <1>c, <1>2
    <3>3. Len(queue') = Len(queue) + 0
      BY <1>c, <2>1
    <3>4. Cardinality(Waiting') = Cardinality(Waiting) + 1
      BY <2>3, WaitingFinite, FS_AddElement
    <3>5. ob_refcnt' = ob_refcnt + (0 + 0 + 0 + 1) /\ 0 \in Int /\ 1 \in Int
      BY <2>1
    <3> QED
      BY <3>1, <3>2, <3>3, <3>4, <3>5, CountedNext
  <2>8. Progress'
    <3>1. Len(callbacks') \in Nat
      BY <2>2
    <3> QED
      BY <1>1, <1>2, <1>6, <2>1, <3>1 DEF IInv, Progress, Done
  <2>9. LogKept'
    BY <1>1, <1>2 DEF IInv, LogKept
  <2> QED
    BY <2>2, <2>4, <2>5, <2>6, <2>7, <2>8, <2>9 DEF IInv
<1> QED
  BY <1>5, <1>6

LEMMA QueryKeeps ==
    ASSUME IInv, Query
    PROVE  IInv'
<1> USE DEF cvars, fvars, lvars, hvars
<1>1. TypeOK'
  BY DEF IInv, TypeOK, Query, QueryClearsLog
<1>2. FuncRefsExact' /\ NoLostWakeup' /\ Scheduled' /\ Waiting' = Waiting
  BY ArrayKept, WakeupsKept DEF Query
<1>3. RefExact'
  BY <1>2, CountedSame DEF Query
<1>4. Progress' /\ LogKept'
  BY DEF IInv, Progress, LogKept, Done, Query, QueryClearsLog
<1> QED
  BY <1>1, <1>2, <1>3, <1>4 DEF IInv

LEMMA CancelKeeps ==
    ASSUME IInv, Cancel
    PROVE  IInv'
<1> USE DEF cvars, fvars, lvars, hvars
<1>1. TypeOK'
  BY DEF IInv, TypeOK, Cancel
<1>2. FuncRefsExact' /\ NoLostWakeup' /\ Scheduled' /\ Waiting' = Waiting
  BY ArrayKept, WakeupsKept DEF Cancel
<1>3. RefExact'
  BY <1>2, CountedSame DEF Cancel
<1>4. Progress' /\ LogKept'
  BY DEF IInv, Progress, LogKept, Done, Cancel
<1> QED
  BY <1>1, <1>2, <1>3, <1>4 DEF IInv

LEMMA DropRefKeeps ==
    ASSUME IInv, DropRef, ~KeepFuture
    PROVE  IInv'
<1> USE DEF cvars, fvars, lvars, hvars
<1>c. /\ HeldBy(invoking, op) \in Nat
      /\ ob_refcnt = HeldBy(invoking, op) + py_refs + Len(queue) + Cardinality(Waiting)
      /\ ob_refcnt \in Nat /\ py_refs \in Nat /\ Len(queue) \in Nat
      /\ Cardinality(Waiting) \in Nat
  BY Counted
<1>1. /\ py_refs > 0 /\ py_refs - 1 \in Nat /\ log_tb \in BOOLEAN
      /\ UNCHANGED <<invoking, op, next, in_call, task, queue, closed, func_refs, retrieved>>
  BY <1>c DEF DropRef, IInv, TypeOK
<1>2. ob_refcnt >= 1 /\ (ob_refcnt = 1 => py_refs - 1 = 0 /\ HeldBy(invoking, op) = 0)
  BY <1>1, <1>c
<1>3. ob_refcnt = 1 => callbacks = <<>>
  <2>1. HeldBy(invoking, op) = 0 => op \in {"none", "over"}
    BY DEF HeldBy, IInv, TypeOK
  <2> QED
    BY <1>2, <2>1 DEF IInv, Progress
<1>4. /\ ob_refcnt' = ob_refcnt - 1 /\ py_refs' = py_refs - 1
      /\ callbacks' = callbacks /\ outcome' = outcome
      /\ log_tb' = IF ob_refcnt' > 0 THEN log_tb ELSE FALSE
      /\ ob_refcnt' \in Nat /\ log_tb' \in BOOLEAN /\ reported' \in Nat
  BY <1>1, <1>2, <1>3, <1>c, DropEffect DEF DropRef
<1>5. TypeOK'
  BY <1>1, <1>4 DEF IInv, TypeOK, DropRef
<1>6. FuncRefsExact' /\ NoLostWakeup' /\ Scheduled' /\ Waiting' = Waiting
  BY <1>1, <1>4, ArrayKept, WakeupsKept
<1>7. RefExact'
  <2>1. HeldBy(invoking', op') = HeldBy(invoking, op) + 0
    BY <1>1, <1>c
  <2>2. py_refs' = py_refs + (-1) /\ ob_refcnt' = ob_refcnt + (0 + (-1) + 0 + 0)
    BY <1>4, <1>c
  <2>3. Len(queue') = Len(queue) + 0
    BY <1>1, <1>c
  <2>4. Cardinality(Waiting') = Cardinality(Waiting) + 0
    BY <1>6, <1>c
  <2>5. 0 \in Int /\ -1 \in Int
    OBVIOUS
  <2> QED
    BY <2>1, <2>2, <2>3, <2>4, <2>5, CountedNext
<1>8. Progress'
  <2>1. op # "none"
    BY <1>2, Started, <1>1
  <2> QED
    BY <1>1, <1>4, <2>1 DEF IInv, Progress, Done
<1>9. LogKept'
  BY <1>1, <1>2, <1>4, <1>c DEF IInv, LogKept
<1> QED
  BY <1>5, <1>6, <1>7, <1>8, <1>9 DEF IInv

\* What RunHandle does with the answers of the callback.
RunsWith(asks, keeps) ==
    /\ retrieved' = (retrieved \/ (asks /\ outcome = "exception"))
    /\ task' = IF Head(queue) \in Waiting THEN [task EXCEPT ![Head(queue)] = outcome] ELSE task
    /\ Drop(1 + Flag(Head(queue) \in Waiting) - Flag(keeps), log_tb /\ ~asks,
            py_refs + Flag(keeps), callbacks)

LEMMA RunHandleKeeps ==
    ASSUME IInv, RunHandle, ~KeepFuture
    PROVE  IInv'
<1> USE DEF cvars, fvars, lvars, hvars
<1>c. /\ HeldBy(invoking, op) \in Nat
      /\ ob_refcnt = HeldBy(invoking, op) + py_refs + Len(queue) + Cardinality(Waiting)
      /\ ob_refcnt \in Nat /\ py_refs \in Nat /\ Len(queue) \in Nat
      /\ Cardinality(Waiting) \in Nat
  BY Counted
<1> DEFINE f == Head(queue)
<1>1. /\ queue # <<>> /\ queue' = Tail(queue) /\ Done /\ op = "over" /\ callbacks = <<>>
      /\ queue \in Seq(Callback) /\ f \in Callback /\ Len(queue) >= 1
      /\ queue' \in Seq(Callback) /\ Len(queue') = Len(queue) + (-1)
      /\ UNCHANGED <<invoking, op, next, in_call, closed, func_refs>>
  BY DEF RunHandle, IInv, TypeOK, Progress
<1>2. PICK asks \in BOOLEAN, keeps \in BOOLEAN : RunsWith(asks, keeps)
  BY DEF RunHandle, RunsWith
<1>3. PICK k \in {0, 1} : k = Flag(keeps)
  OBVIOUS
<1>4. PICK w \in {0, 1} : w = Flag(f \in Waiting)
  OBVIOUS
<1>5. /\ task \in [Waiter -> Outcome \cup {"idle", "waiting"}] /\ outcome \in Outcome
      /\ log_tb \in BOOLEAN /\ (log_tb /\ ~asks) \in BOOLEAN /\ outcome # "waiting"
  BY <1>1 DEF IInv, TypeOK, Done, Outcome
<1>6. /\ Cardinality(Waiting) >= w /\ Cardinality(Waiting') = Cardinality(Waiting) + (-w)
      /\ task' \in [Waiter -> Outcome \cup {"idle", "waiting"}]
      /\ Waiting' = Waiting \ {f}
  <2>1. CASE f \in Waiting
    <3>1. f \in Waiter /\ task' = [task EXCEPT ![f] = outcome]
      BY <1>2, <2>1 DEF RunsWith, Waiting
    <3>2. Waiting' = Waiting \ {f}
      <4>1. \A t \in Waiter : task'[t] = "waiting" <=> task[t] = "waiting" /\ t # f
        BY <1>5, <3>1
      <4> QED
        BY <4>1 DEF Waiting
    <3>3. Cardinality(Waiting \ {f}) = Cardinality(Waiting) - 1
      BY <2>1, WaitingFinite, FS_RemoveElement
    <3>4. Cardinality(Waiting) # 0
      BY <2>1, WaitingFinite, FS_EmptySet
    <3>5. w = 1
      BY <1>4, <2>1
    <3>6. task' \in [Waiter -> Outcome \cup {"idle", "waiting"}]
      BY <1>5, <3>1
    <3>7. Cardinality(Waiting') = Cardinality(Waiting) + (-1) /\ Cardinality(Waiting) >= 1
      BY <1>c, <3>2, <3>3, <3>4
    <3> QED
      BY <3>2, <3>5, <3>6, <3>7
  <2>2. CASE f \notin Waiting
    <3>1. task' = task /\ Waiting' = Waiting /\ w = 0
      BY <1>2, <1>4, <2>2 DEF RunsWith, Waiting
    <3>2. Waiting = Waiting \ {f}
      BY <2>2
    <3> QED
      BY <1>c, <1>5, <3>1, <3>2
  <2> QED
    BY <2>1, <2>2
<1> DEFINE n == 1 + w - k
<1>7. /\ n \in Nat /\ n <= ob_refcnt /\ py_refs + k \in Nat
      /\ ob_refcnt = n => py_refs + k = 0
  <2>1. PICK h \in Nat, p \in Nat, l \in Nat, c \in Nat :
           /\ h = HeldBy(invoking, op) /\ p = py_refs
           /\ l = Len(queue) /\ c = Cardinality(Waiting)
    BY <1>c
  <2>2. ob_refcnt = h + p + l + c /\ l >= 1 /\ c >= w
    BY <1>1, <1>6, <1>c, <2>1
  <2>3. PICK r \in Nat : ob_refcnt = r
    BY <1>c
  <2>4. r = h + p + l + c
    BY <2>2, <2>3
  <2>5. n \in Nat /\ n <= r /\ p + k \in Nat /\ (r = n => p + k = 0)
    BY <2>2, <2>4
  <2> QED
    BY <2>1, <2>3, <2>5
<1>8. Drop(n, log_tb /\ ~asks, py_refs + k, callbacks)
  BY <1>2, <1>3, <1>4 DEF RunsWith
<1> HIDE DEF n
<1>9. /\ ob_refcnt' = ob_refcnt - n /\ py_refs' = py_refs + k
      /\ callbacks' = callbacks /\ outcome' = outcome
      /\ log_tb' = IF ob_refcnt' > 0 THEN log_tb /\ ~asks ELSE FALSE
      /\ ob_refcnt' \in Nat /\ log_tb' \in BOOLEAN /\ reported' \in Nat
  <2> DEFINE log == log_tb /\ ~asks
  <2>1. log \in BOOLEAN /\ (ob_refcnt = n => callbacks = <<>>)
    BY <1>1, <1>5
  <2> HIDE DEF log
  <2>2. Drop(n, log, py_refs + k, callbacks)
    BY <1>8 DEF log
  <2>3. /\ ob_refcnt' = ob_refcnt - n /\ py_refs' = py_refs + k
        /\ callbacks' = callbacks /\ outcome' = outcome
        /\ log_tb' = IF ob_refcnt' > 0 THEN log ELSE FALSE
        /\ ob_refcnt' \in Nat /\ log_tb' \in BOOLEAN /\ reported' \in Nat
    BY <1>7, <2>1, <2>2, DropEffect
  <2> QED
    BY <2>3 DEF log
<1>10. TypeOK'
  <2>1. py_refs' \in Nat /\ retrieved' \in BOOLEAN
    BY <1>2, <1>7, <1>9 DEF RunsWith, IInv, TypeOK
  <2> QED
    BY <1>1, <1>6, <1>9, <2>1 DEF IInv, TypeOK, RunHandle
<1>11. FuncRefsExact'
  BY <1>1, <1>9, ArrayKept
<1>12. NoLostWakeup'
  <2> SUFFICES ASSUME NEW t \in Waiting' \ Bad, ~closed
               PROVE  t \in Range(queue')
    BY <1>1 DEF NoLostWakeup
  <2>1. t \in Waiting \ Bad /\ t # f
    BY <1>6
  <2>2. t \in Range(queue)
    BY <1>1, <2>1 DEF IInv, NoLostWakeup
  <2> QED
    BY <1>1, <2>1, <2>2, RangeTail
<1>13. Scheduled'
  BY <1>1 DEF IInv, Progress, Scheduled
<1>14. RefExact'
  <2>1. HeldBy(invoking', op') = HeldBy(invoking, op) + 0
    BY <1>1, <1>c
  <2>2. ob_refcnt' = ob_refcnt + (0 + k + (-1) + (-w))
    BY <1>9, <1>c DEF n
  <2>3. 0 \in Int /\ -1 \in Int /\ -w \in Int /\ k \in Int
    OBVIOUS
  <2>4. py_refs' = py_refs + k
    BY <1>9
  <2>5. Len(queue') = Len(queue) + (-1)
    BY <1>1
  <2>6. Cardinality(Waiting') = Cardinality(Waiting) + (-w)
    BY <1>6
  <2> QED
    BY <2>1, <2>2, <2>3, <2>4, <2>5, <2>6, CountedNext
<1>15. Progress'
  BY <1>1, <1>9 DEF IInv, Progress, Done
<1>16. LogKept'
  <2>1. ob_refcnt > 0
    BY <1>c, <1>1
  <2>2. CASE asks
    BY <1>2, <1>5, <1>9, <2>2 DEF RunsWith, IInv, LogKept
  <2>3. CASE ~asks
    BY <1>2, <1>5, <1>9, <2>1, <2>3 DEF RunsWith, IInv, LogKept
  <2> QED
    BY <2>2, <2>3
<1> QED
  BY <1>10, <1>11, <1>12, <1>13, <1>14, <1>15, <1>16 DEF IInv

LEMMA CloseLoopKeeps ==
    ASSUME IInv, CloseLoop, ~KeepFuture
    PROVE  IInv'
<1> USE DEF cvars, fvars, lvars, hvars
<1>c. /\ HeldBy(invoking, op) \in Nat
      /\ ob_refcnt = HeldBy(invoking, op) + py_refs + Len(queue) + Cardinality(Waiting)
      /\ ob_refcnt \in Nat /\ py_refs \in Nat /\ Len(queue) \in Nat
      /\ Cardinality(Waiting) \in Nat
  BY Counted
<1>1. /\ queue' = <<>> /\ closed' = TRUE /\ queue \in Seq(Callback) /\ Len(queue') = 0
      /\ queue' \in Seq(Callback) /\ (Len(queue) = 0 => queue = <<>>) /\ ~in_call
      /\ log_tb \in BOOLEAN /\ (queue # <<>> => callbacks = <<>>)
      /\ UNCHANGED <<invoking, op, next, in_call, task, func_refs, retrieved>>
  BY DEF CloseLoop, IInv, TypeOK, Progress
<1>2. /\ ob_refcnt' = ob_refcnt - Len(queue) /\ py_refs' = py_refs
      /\ callbacks' = callbacks /\ outcome' = outcome
      /\ (ob_refcnt > 0 => log_tb' = IF ob_refcnt' > 0 THEN log_tb ELSE FALSE)
      /\ ob_refcnt' \in Nat /\ log_tb' \in BOOLEAN /\ reported' \in Nat
  <2>1. CASE queue = <<>>
    <3>1. UNCHANGED <<ob_refcnt, log_tb, py_refs, outcome, reported, callbacks>> /\ Len(queue) = 0
      BY <2>1 DEF CloseLoop
    <3>2. ob_refcnt' = ob_refcnt - Len(queue)
      BY <1>c, <3>1
    <3> QED
      BY <1>1, <3>1, <3>2 DEF IInv, TypeOK
  <2>2. CASE queue # <<>>
    <3>1. Len(queue) <= ob_refcnt /\ (ob_refcnt = Len(queue) => py_refs = 0)
      BY <1>c
    <3>2. Drop(Len(queue), log_tb, py_refs, callbacks)
      BY <2>2 DEF CloseLoop
    <3> QED
      BY <1>1, <1>c, <2>2, <3>1, <3>2, DropEffect
  <2> QED
    BY <2>1, <2>2
<1>3. TypeOK'
  BY <1>1, <1>2 DEF IInv, TypeOK, CloseLoop
<1>4. Waiting' = Waiting
  BY <1>1 DEF Waiting
<1>5. FuncRefsExact' /\ NoLostWakeup' /\ Scheduled'
  BY <1>1, <1>2, ArrayKept DEF NoLostWakeup, Scheduled
<1>6. RefExact'
  <2>1. HeldBy(invoking', op') = HeldBy(invoking, op) + 0
    BY <1>1, <1>c
  <2>2. py_refs' = py_refs + 0
    BY <1>2, <1>c
  <2>3. Len(queue') = Len(queue) + (-Len(queue))
    BY <1>1, <1>c
  <2>4. Cardinality(Waiting') = Cardinality(Waiting) + 0
    BY <1>4, <1>c
  <2>5. ob_refcnt' = ob_refcnt + (0 + 0 + (-Len(queue)) + 0)
    BY <1>2, <1>c
  <2>6. 0 \in Int /\ -Len(queue) \in Int
    BY <1>c
  <2> QED
    BY <2>1, <2>2, <2>3, <2>4, <2>5, <2>6, CountedNext
<1>7. Progress'
  <2>1. ASSUME op = "none" PROVE ob_refcnt' = 0
    <3>1. ob_refcnt = 0 /\ Len(queue) = 0
      BY <2>1, Started
    <3>2. ob_refcnt' = 0 - 0
      BY <1>2, <3>1
    <3> QED
      BY <3>2
  <2> QED
    BY <1>1, <1>2, <2>1 DEF IInv, Progress, Done
<1>8. LogKept'
  <2>1. ob_refcnt' > 0 => ob_refcnt > 0
    BY <1>2, <1>c
  <2> QED
    BY <1>1, <1>2, <2>1 DEF IInv, LogKept
<1> QED
  BY <1>3, <1>5, <1>6, <1>7, <1>8 DEF IInv

LEMMA InitHolds == Init => IInv
<1> SUFFICES ASSUME Init PROVE IInv
  OBVIOUS
<1>1. TypeOK
  <2>1. <<>> \in Seq(Callback)
    OBVIOUS
  <2>2. /\ func_refs \in [Callback -> Int]
        /\ task \in [Waiter -> Outcome \cup {"idle", "waiting"}]
    BY DEF Init
  <2> QED
    BY <2>1, <2>2 DEF Init, TypeOK, Op
<1>2. Waiting = {}
  BY DEF Init, Waiting
<1>3. RefExact
  <2>1. Cardinality(Waiting) = 0 /\ Len(queue) = 0
    BY <1>2, FS_EmptySet DEF Init
  <2> QED
    BY <2>1 DEF Init, RefExact, Op
<1>4. FuncRefsExact
  <2>1. \A g \in Callback : Cardinality(From(<<>>, 0, g)) = 0
    BY FromEmpty
  <2> QED
    BY <2>1 DEF Init, FuncRefsExact, From
<1>5. Progress /\ NoLostWakeup /\ Scheduled /\ LogKept
  BY <1>2 DEF Init, Progress, NoLostWakeup, Scheduled, LogKept, Done
<1> QED
  BY <1>1, <1>3, <1>4, <1>5 DEF IInv

LEMMA StutterKeeps ==
    ASSUME IInv, UNCHANGED vars
    PROVE  IInv'
BY DEF vars, cvars, fvars, lvars, hvars, IInv, TypeOK, RefExact, FuncRefsExact, Progress,
       NoLostWakeup, Scheduled, LogKept, Waiting, Done, Raises

LEMMA NextKeeps ==
    ASSUME ~Reentrant, ~KeepFuture, IInv, [Next]_vars
    PROVE  IInv'
<1>1. CASE Start
  BY <1>1, StartKeeps
<1>2. CASE CallFails
  BY <1>2, CallFailsKeeps
<1>3. CASE CallReturns
  BY <1>3, CallReturnsKeeps
<1>4. CASE \E r \in Outcome : FinishBegins(r)
  BY <1>4, FinishBeginsKeeps
<1>5. CASE CallSoon
  BY <1>5, CallSoonKeeps
<1>6. CASE ReleaseEntry
  BY <1>6, ReleaseEntryKeeps
<1>7. CASE FinishEnds
  BY <1>7, FinishEndsKeeps
<1>8. CASE \E f \in Callback \ Waiter : AddDone(f) \/ RemoveDone(f)
  BY <1>8, AddDoneKeeps, RemoveDoneKeeps
<1>9. CASE \E t \in Waiter : Await(t)
  BY <1>9, AwaitKeeps
<1>10. CASE Query
  BY <1>10, QueryKeeps
<1>11. CASE Cancel
  BY <1>11, CancelKeeps
<1>12. CASE DropRef
  BY <1>12, DropRefKeeps
<1>13. CASE RunHandle
  BY <1>13, RunHandleKeeps
<1>14. CASE CloseLoop
  BY <1>14, CloseLoopKeeps
<1>15. CASE UNCHANGED vars
  BY <1>15, StutterKeeps
<1> QED
  BY <1>1, <1>2, <1>3, <1>4, <1>5, <1>6, <1>7, <1>8, <1>9, <1>10, <1>11, <1>12, <1>13,
     <1>14, <1>15 DEF Next

(***************************************************************************)
(* What holds of every behaviour.                                          *)
(***************************************************************************)
LEMMA Invariance ==
    ASSUME ~Reentrant, ~KeepFuture
    PROVE  Spec => []IInv
<1>1. ASSUME IInv, [Next]_vars PROVE IInv'
  BY <1>1, NextKeeps
<1> QED
  BY <1>1, InitHolds, PTL DEF Spec

\* References to the awaitable and those it has on callables are counted
\* exactly, on every path of pygi_async_finish_cb and async_finalize, and
\* each entry of the array is released once.
THEOREM BalancesRefs ==
    ASSUME ~Reentrant, ~KeepFuture
    PROVE  Spec => []RefsBalanced
<1>1. IInv => RefsBalanced
  <2> SUFFICES ASSUME IInv PROVE ReleasedOnce
    BY DEF IInv, RefsBalanced
  <2> SUFFICES ASSUME NEW f \in Callback
               PROVE  func_refs[f] >= 0 /\ (op = "over" => func_refs[f] = 0)
    BY DEF ReleasedOnce, IInv, Progress
  <2>1. func_refs[f] = Cardinality(From(callbacks, next, f)) /\ callbacks \in Seq(Callback)
    BY DEF IInv, TypeOK, FuncRefsExact, From
  <2>2. Cardinality(From(callbacks, next, f)) \in Nat
    BY <2>1, FromFinite
  <2>3. op = "over" => callbacks = <<>>
    BY DEF IInv, Progress
  <2>4. op = "over" => Cardinality(From(callbacks, next, f)) = 0
    BY <2>3, FromEmpty
  <2> QED
    BY <2>1, <2>2, <2>4
<1> QED
  BY <1>1, Invariance, PTL

\* The wakeup of a suspended task is still registered or already queued, as
\* long as its loop accepts it.
THEOREM KeepsWakeups ==
    ASSUME ~Reentrant, ~KeepFuture
    PROVE  Spec => []NoLostWakeup
<1>1. IInv => NoLostWakeup
  BY DEF IInv
<1> QED
  BY <1>1, Invariance, PTL

(***************************************************************************)
(* The report of an exception.                                             *)
(***************************************************************************)
LEMMA DropReports ==
    ASSUME IInv, ~KeepFuture, NEW n \in Int, NEW log \in BOOLEAN, NEW held, NEW entries,
           Drop(n, log, held, entries)
    PROVE  outcome' = outcome /\ (ob_refcnt' = 0 => reported' - reported = Flag(log))
<1>1. ob_refcnt \in Nat /\ reported \in Nat
  BY DEF IInv, TypeOK
<1>2. CASE ob_refcnt > n
  <2>1. ob_refcnt' # 0 /\ outcome' = outcome
    BY <1>1, <1>2 DEF Drop
  <2> QED
    BY <2>1
<1>3. CASE ~(ob_refcnt > n)
  <2>1. /\ reported' = reported + Flag(log)
        /\ \E kept \in {FALSE} : outcome' = IF kept THEN "pending" ELSE outcome
    BY <1>3 DEF Drop, Report
  <2> QED
    BY <1>1, <2>1
<1> QED
  BY <1>2, <1>3

\* What ReportedUnlessRetrieved says of one step.
ReportsRight ==
    ob_refcnt > 0 /\ outcome = "exception" /\ (ob_refcnt' = 0 \/ ~Done')
        => reported' - reported = Flag(~retrieved')

LEMMA DropRight ==
    ASSUME IInv, ~KeepFuture, NEW n \in Int, NEW asks \in BOOLEAN, NEW held, NEW entries,
           Drop(n, log_tb /\ ~asks, held, entries),
           retrieved' = (retrieved \/ (asks /\ outcome = "exception"))
    PROVE  ReportsRight
<1> SUFFICES ASSUME ob_refcnt > 0, outcome = "exception", ob_refcnt' = 0 \/ ~Done'
             PROVE  reported' - reported = Flag(~retrieved')
  BY DEF ReportsRight
<1> DEFINE log == log_tb /\ ~asks
<1>1. log \in BOOLEAN /\ log_tb \in BOOLEAN /\ retrieved \in BOOLEAN
  BY DEF IInv, TypeOK
<1>2. log <=> ~(retrieved \/ asks)
  BY DEF IInv, LogKept
<1>3. log <=> ~retrieved'
  BY <1>2
<1> HIDE DEF log
<1>4. Drop(n, log, held, entries)
  BY DEF log
<1>5. outcome' = outcome /\ (ob_refcnt' = 0 => reported' - reported = Flag(log))
  BY <1>1, <1>4, DropReports
<1>6. reported' - reported = Flag(log)
  BY <1>5 DEF Done
<1> QED
  BY <1>3, <1>6

LEMMA KeptRight ==
    ASSUME outcome' = outcome, ob_refcnt' # 0
    PROVE  ReportsRight
BY DEF ReportsRight, Done

LEMMA NextReports ==
    ASSUME ~Reentrant, ~KeepFuture, IInv, [Next]_vars
    PROVE  ReportsRight
<1> USE DEF cvars, fvars, lvars, hvars
<1> SUFFICES ASSUME ob_refcnt > 0, outcome = "exception", Next
             PROVE  ReportsRight
  BY DEF ReportsRight, vars, Done
<1>a. /\ ob_refcnt \in Nat /\ log_tb \in BOOLEAN /\ retrieved \in BOOLEAN
      /\ op \in {"finishing", "over"} /\ Len(queue) \in Nat
  BY DEF IInv, TypeOK, Progress, Done
<1>b. ASSUME NEW n \in Int, NEW held, NEW entries, Drop(n, log_tb, held, entries),
             retrieved' = retrieved
      PROVE  ReportsRight
  <2>1. log_tb /\ ~FALSE <=> log_tb
    OBVIOUS
  <2>2. Drop(n, log_tb /\ ~FALSE, held, entries)
    BY <1>a, <1>b
  <2>3. retrieved' = (retrieved \/ (FALSE /\ outcome = "exception"))
    BY <1>a, <1>b
  <2> QED
    BY <2>2, <2>3, DropRight
<1>1. CASE Start \/ CallFails \/ \E r \in Outcome : FinishBegins(r)
  BY <1>a, <1>1 DEF Start, CallFails, FinishBegins
<1>2. CASE CallReturns
  BY <1>2, KeptRight DEF CallReturns
<1>3. CASE CallSoon
  BY <1>a, <1>3, KeptRight DEF CallSoon, Schedule
<1>4. CASE ReleaseEntry
  BY <1>4, KeptRight DEF ReleaseEntry
<1>5. CASE FinishEnds
  BY <1>5, <1>b DEF FinishEnds
<1>6. CASE \E f \in Callback \ Waiter : AddDone(f) \/ RemoveDone(f)
  BY <1>a, <1>6, KeptRight DEF AddDone, RemoveDone, Register, Schedule
<1>7. CASE \E t \in Waiter : Await(t)
  BY <1>a, <1>7, KeptRight DEF Await, Register, Schedule
<1>8. CASE Query
  BY <1>8, KeptRight DEF Query
<1>9. CASE Cancel
  BY <1>9, KeptRight DEF Cancel
<1>10. CASE DropRef
  BY <1>10, <1>b DEF DropRef
<1>11. CASE RunHandle
  <2>1. PICK asks \in BOOLEAN, keeps \in BOOLEAN : RunsWith(asks, keeps)
    BY <1>11 DEF RunHandle, RunsWith
  <2>2. 1 + Flag(Head(queue) \in Waiting) - Flag(keeps) \in Int
    OBVIOUS
  <2> QED
    BY <2>1, <2>2, DropRight DEF RunsWith
<1>12. CASE CloseLoop
  <2>1. CASE queue = <<>>
    BY <1>12, <2>1, KeptRight DEF CloseLoop
  <2>2. CASE queue # <<>>
    BY <1>12, <1>a, <1>b, <2>2 DEF CloseLoop
  <2> QED
    BY <2>1, <2>2
<1> QED
  BY <1>1, <1>2, <1>3, <1>4, <1>5, <1>6, <1>7, <1>8, <1>9, <1>10, <1>11, <1>12 DEF Next

\* The finalizer reports an exception if, and only if, neither result() nor
\* exception() gave it out.
THEOREM ReportsUnretrieved ==
    ASSUME ~Reentrant, ~KeepFuture
    PROVE  Spec => ReportedUnlessRetrieved
<1>1. ASSUME IInv, [Next]_vars
      PROVE  [(ob_refcnt > 0 /\ outcome = "exception" /\ (ob_refcnt' = 0 \/ ~Done'))
                 => reported' - reported = Flag(~retrieved')]_vars
  BY <1>1, NextReports DEF ReportsRight
<1> QED
  BY <1>1, Invariance, PTL DEF Spec, ReportedUnlessRetrieved

(***************************************************************************)
(* Future.                                                                 *)
(***************************************************************************)
LEMMA StepImplements ==
    ASSUME ~Reentrant, ~KeepFuture, IInv, [Next]_vars
    PROVE  [Promise!Next]_(Promise!vars)
<1> USE DEF cvars, fvars, lvars, hvars
<1>a. /\ ob_refcnt \in Nat /\ log_tb \in BOOLEAN /\ Len(queue) \in Nat
      /\ task \in [Waiter -> Outcome \cup {"idle", "waiting"}]
      /\ (queue # <<>> => Done) /\ (op \notin {"finishing", "over"} => ~Done)
  BY DEF IInv, TypeOK, Progress
<1>b. ASSUME outcome' = outcome, task' = task
      PROVE  [Promise!Next]_(Promise!vars)
  BY <1>b DEF Promise!vars
<1>1. CASE Start
  BY <1>1, <1>b DEF Start
<1>2. CASE CallFails
  <2>1. outcome' = outcome
    BY <1>2, <1>a, DropReports DEF CallFails
  <2> QED
    BY <1>2, <1>b, <2>1 DEF CallFails
<1>3. CASE CallReturns
  BY <1>3, <1>b DEF CallReturns
<1>4. CASE \E r \in Outcome : FinishBegins(r)
  BY <1>4, <1>a DEF FinishBegins, Done, Promise!Next, Promise!Complete, Promise!Outcome, Outcome
<1>5. CASE CallSoon
  BY <1>5, <1>b DEF CallSoon
<1>6. CASE ReleaseEntry
  BY <1>6, <1>b DEF ReleaseEntry
<1>7. CASE FinishEnds
  <2>1. outcome' = outcome
    BY <1>7, <1>a, DropReports DEF FinishEnds
  <2> QED
    BY <1>7, <1>b, <2>1 DEF FinishEnds
<1>8. CASE \E f \in Callback \ Waiter : AddDone(f) \/ RemoveDone(f)
  BY <1>8, <1>b DEF AddDone, RemoveDone
<1>9. CASE \E t \in Waiter : Await(t)
  <2>1. PICK t \in Waiter : Await(t)
    BY <1>9
  <2>2. CASE Done
    <3>1. Promise!GoOn(t)
      BY <2>1, <2>2 DEF Await, NextGives, Promise!GoOn, Done
    <3> QED
      BY <3>1 DEF Promise!Next
  <2>3. CASE ~Done
    <3>1. Promise!Wait(t)
      BY <2>1, <2>3 DEF Await, Promise!Wait, Done
    <3> QED
      BY <3>1 DEF Promise!Next
  <2> QED
    BY <2>2, <2>3
<1>10. CASE Query
  BY <1>10, <1>b DEF Query
<1>11. CASE Cancel
  BY <1>11, <1>b DEF Cancel
<1>12. CASE DropRef
  <2>1. outcome' = outcome
    BY <1>12, <1>a, DropReports DEF DropRef
  <2> QED
    BY <1>12, <1>b, <2>1 DEF DropRef
<1>13. CASE RunHandle
  <2>1. PICK asks \in BOOLEAN, keeps \in BOOLEAN : RunsWith(asks, keeps)
    BY <1>13 DEF RunHandle, RunsWith
  <2>2. /\ 1 + Flag(Head(queue) \in Waiting) - Flag(keeps) \in Int
        /\ (log_tb /\ ~asks) \in BOOLEAN
    OBVIOUS
  <2>3. outcome' = outcome
    BY <2>1, <2>2, DropReports DEF RunsWith
  <2>4. Done
    BY <1>13, <1>a DEF RunHandle
  <2>5. CASE Head(queue) \in Waiting
    <3>1. /\ Head(queue) \in Waiter /\ task[Head(queue)] = "waiting"
          /\ task' = [task EXCEPT ![Head(queue)] = outcome]
      BY <2>1, <2>5 DEF RunsWith, Waiting
    <3>2. Promise!GoOn(Head(queue))
      BY <2>3, <2>4, <3>1 DEF Promise!GoOn, Done
    <3> QED
      BY <3>1, <3>2 DEF Promise!Next
  <2>6. CASE Head(queue) \notin Waiting
    BY <1>b, <2>1, <2>3, <2>6 DEF RunsWith
  <2> QED
    BY <2>5, <2>6
<1>14. CASE CloseLoop
  <2>1. outcome' = outcome
    <3>1. CASE queue = <<>>
      BY <1>14, <3>1 DEF CloseLoop
    <3>2. CASE queue # <<>>
      BY <1>14, <1>a, <3>2, DropReports DEF CloseLoop
    <3> QED
      BY <3>1, <3>2
  <2> QED
    BY <1>14, <1>b, <2>1 DEF CloseLoop
<1>15. CASE UNCHANGED vars
  BY <1>15, <1>b DEF vars
<1> QED
  BY <1>1, <1>2, <1>3, <1>4, <1>5, <1>6, <1>7, <1>8, <1>9, <1>10, <1>11, <1>12, <1>13,
     <1>14, <1>15 DEF Next

\* The awaitable is a Future: it gets one outcome, and every task that awaits
\* it goes on with that outcome and not before.
THEOREM ImplementsFuture ==
    ASSUME ~Reentrant, ~KeepFuture
    PROVE  Spec => IsFuture
<1>1. Init => Promise!Init
  BY DEF Init, Promise!Init
<1>2. ASSUME IInv, [Next]_vars PROVE [Promise!Next]_(Promise!vars)
  BY <1>2, StepImplements
<1> QED
  BY <1>1, <1>2, Invariance, PTL DEF Spec, IsFuture, Promise!Spec
=============================================================================
