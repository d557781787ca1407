-------------------------- MODULE EventLoop_proofs --------------------------
(***************************************************************************)
(* Safety of GLibEventLoop for any handles, loops, priorities and depth of *)
(* calls: the event loop is never iterated recursively and its flags agree *)
(* with the calls in progress, and stop() and SIGINT reach the levels in   *)
(* their order.                                                            *)
(***************************************************************************)
EXTENDS EventLoop, FiniteSetTheorems, SequenceTheorems, WellFoundedInduction, TLAPS

(***************************************************************************)
(* Induction, over sets of natural numbers.                                *)
(***************************************************************************)
LEMMA LeastNumber ==
    ASSUME NEW T, T \subseteq Nat, T # {}
    PROVE  \E x \in T : \A y \in T : x <= y
<1> DEFINE R == OpToRel(<, Nat)
<1>1. IsWellFoundedOn(R, Nat)
  BY NatLessThanWellFounded
<1>2. \A x, y \in Nat : y < x => <<y, x>> \in R
  BY DEF OpToRel
<1> HIDE DEF R
<1>3. PICK x \in T : \A y \in T : ~(<<y, x>> \in R)
  BY <1>1, WFMin
<1>4. ASSUME NEW y \in T PROVE x <= y
  <2>1. x \in Nat /\ y \in Nat
    OBVIOUS
  <2>2. ~(y < x)
    BY <1>2, <1>3, <2>1
  <2> QED
    BY <2>1, <2>2
<1> QED
  BY <1>4

LEMMA InductiveSet ==
    ASSUME NEW T, 0 \in T, \A n \in Nat : n \in T => n + 1 \in T
    PROVE  Nat \subseteq T
<1> SUFFICES ASSUME ~(Nat \subseteq T) PROVE FALSE
  OBVIOUS
<1>1. PICK x \in Nat \ T : \A y \in Nat \ T : x <= y
  BY LeastNumber
<1>2. x # 0 /\ x - 1 \in Nat
  BY <1>1
<1>3. x - 1 \in T
  BY <1>1, <1>2
<1> QED
  BY <1>2, <1>3

(***************************************************************************)
(* The elements of a sequence that are in a set.                           *)
(***************************************************************************)
Round(s, S, kept, n) ==
    IF n = 0 THEN <<>>
    ELSE IF s[n] \in S THEN Append(kept[n - 1], s[n]) ELSE kept[n - 1]
IsKept(s, S, kept, m) == kept = [n \in 0 .. m |-> Round(s, S, kept, n)]

LEMMA KeptExists ==
    ASSUME NEW s, NEW S
    PROVE  \A m \in Nat : \E kept : IsKept(s, S, kept, m)
<1> DEFINE T == {m \in Nat : \E kept : IsKept(s, S, kept, m)}
<1>1. 0 \in T
  <2> DEFINE kept == [n \in 0..0 |-> <<>>]
  <2>1. kept = [n \in 0..0 |-> Round(s, S, kept, n)]
    BY DEF Round
  <2> QED
    BY <2>1 DEF IsKept
<1>2. ASSUME NEW m \in Nat, m \in T PROVE m + 1 \in T
  <2>1. PICK k : k = [n \in 0..m |-> Round(s, S, k, n)]
    BY <1>2 DEF IsKept
  <2> DEFINE j == [n \in 0..(m + 1) |-> IF n <= m THEN k[n] ELSE Round(s, S, k, m + 1)]
  <2>2. \A n \in 0..(m + 1) : j[n] = Round(s, S, j, n)
    <3> TAKE n \in 0..(m + 1)
    <3>1. n = 0 \/ n - 1 \in 0..m
      OBVIOUS
    <3>2. n - 1 \in 0..m => j[n - 1] = k[n - 1]
      OBVIOUS
    <3>3. Round(s, S, j, n) = Round(s, S, k, n)
      BY <3>1, <3>2 DEF Round
    <3>4. n <= m => n \in 0..m /\ k[n] = Round(s, S, k, n)
      BY <2>1
    <3> QED
      BY <3>3, <3>4
  <2>3. IsKept(s, S, j, m + 1)
    BY <2>2 DEF IsKept
  <2> QED
    BY <2>3
<1> HIDE DEF T
<1>3. Nat \subseteq T
  BY <1>1, <1>2, InductiveSet
<1> QED
  BY <1>3 DEF T

LEMMA OnlyKept ==
    ASSUME NEW s, Len(s) \in Nat, NEW S
    PROVE  \E k : /\ Only(s, S) = k[Len(s)]
                  /\ \A n \in 0 .. Len(s) : k[n] = Round(s, S, k, n)
<1>1. Only(s, S) = (CHOOSE kept : IsKept(s, S, kept, Len(s)))[Len(s)]
  BY DEF Only, IsKept, Round
<1>2. \E kept : IsKept(s, S, kept, Len(s))
  BY KeptExists
<1>3. IsKept(s, S, CHOOSE kept : IsKept(s, S, kept, Len(s)), Len(s))
  BY <1>2
<1> QED
  BY <1>1, <1>3 DEF IsKept

LEMMA OnlyEmpty ==
    ASSUME NEW S
    PROVE  Only(<<>>, S) = <<>>
<1>1. Len(<<>>) = 0
  OBVIOUS
<1>2. PICK k : /\ Only(<<>>, S) = k[Len(<<>>)]
               /\ \A n \in 0 .. Len(<<>>) : k[n] = Round(<<>>, S, k, n)
  BY <1>1, OnlyKept
<1> QED
  BY <1>1, <1>2 DEF Round

LEMMA OnlyAppend ==
    ASSUME NEW E, NEW s \in Seq(E), NEW e \in E, NEW S
    PROVE  Only(Append(s, e), S) = IF e \in S THEN Append(Only(s, S), e) ELSE Only(s, S)
<1> DEFINE t == Append(s, e)
<1>1. /\ Len(s) \in Nat /\ Len(t) = Len(s) + 1 /\ Len(t) \in Nat
      /\ t[Len(s) + 1] = e /\ \A i \in 1..Len(s) : t[i] = s[i]
  OBVIOUS
<1> HIDE DEF t
<1>2. PICK k : /\ Only(s, S) = k[Len(s)]
               /\ \A n \in 0 .. Len(s) : k[n] = Round(s, S, k, n)
  BY <1>1, OnlyKept
<1>3. PICK j : /\ Only(t, S) = j[Len(t)]
               /\ \A n \in 0 .. Len(t) : j[n] = Round(t, S, j, n)
  BY <1>1, OnlyKept
<1> DEFINE T == {n \in Nat : n <= Len(s) => j[n] = k[n]}
<1>4. 0 \in T
  BY <1>1, <1>2, <1>3 DEF Round
<1>5. ASSUME NEW n \in Nat, n \in T PROVE n + 1 \in T
  <2> SUFFICES ASSUME n + 1 <= Len(s) PROVE j[n + 1] = k[n + 1]
    OBVIOUS
  <2>1. n + 1 \in 1..Len(s) /\ n + 1 \in 0..Len(s) /\ n + 1 \in 0..Len(t) /\ j[n] = k[n]
    BY <1>1, <1>5
  <2>2. (n + 1) - 1 = n /\ n + 1 # 0
    OBVIOUS
  <2> QED
    BY <1>1, <1>2, <1>3, <2>1, <2>2 DEF Round
<1> HIDE DEF T
<1>6. Len(s) \in T
  BY <1>1, <1>4, <1>5, InductiveSet
<1>7. j[Len(s)] = k[Len(s)]
  BY <1>1, <1>6 DEF T
<1>8. /\ Len(s) + 1 \in 0..Len(t) /\ (Len(s) + 1) - 1 = Len(s) /\ Len(s) + 1 # 0
  BY <1>1
<1>9. j[Len(t)] = Round(t, S, j, Len(s) + 1)
  BY <1>1, <1>3, <1>8
<1>10. Only(t, S) = IF e \in S THEN Append(Only(s, S), e) ELSE Only(s, S)
  BY <1>1, <1>2, <1>3, <1>7, <1>8, <1>9 DEF Round
<1> QED
  BY <1>10 DEF t

LEMMA FrontAppend ==
    ASSUME NEW E, NEW s \in Seq(E), s # <<>>
    PROVE  /\ Front(s) \in Seq(E) /\ Last(s) \in E
           /\ s = Append(Front(s), Last(s))
           /\ Len(Front(s)) = Len(s) - 1 /\ Len(s) - 1 \in Nat
           /\ \A i \in 1 .. Len(s) - 1 : Front(s)[i] = s[i]
<1>1. Len(s) \in Nat /\ Len(s) > 0
  OBVIOUS
<1>2. \A i \in 1..(Len(s) - 1) : s[i] \in E
  BY <1>1
<1>3. s[Len(s)] \in E
  BY <1>1
<1>4. Len(s) - 1 \in Nat
  BY <1>1
<1> DEFINE f == SubSeq(s, 1, Len(s) - 1)
<1>5. f \in Seq(E) /\ Len(f) = Len(s) - 1 /\ \A i \in 1 .. Len(s) - 1 : f[i] = s[i]
  <2>1. /\ f \in Seq(E)
        /\ Len(f) = IF 1 <= Len(s) - 1 THEN (Len(s) - 1) - 1 + 1 ELSE 0
        /\ \A i \in 1 .. (Len(s) - 1) - 1 + 1 : f[i] = s[1 + i - 1]
    <3>1. 1 \in Int /\ Len(s) - 1 \in Int
      BY <1>1
    <3> HIDE DEF f
    <3> DEFINE m == Len(s) - 1
    <3>2. m \in Int /\ \A i \in 1 .. m : s[i] \in E
      BY <1>2, <3>1
    <3> HIDE DEF m
    <3>3. /\ SubSeq(s, 1, m) \in Seq(E)
          /\ Len(SubSeq(s, 1, m)) = IF 1 <= m THEN m - 1 + 1 ELSE 0
          /\ \A i \in 1 .. m - 1 + 1 : SubSeq(s, 1, m)[i] = s[1 + i - 1]
      BY <3>1, <3>2, SubSeqProperties
    <3> QED
      BY <3>3 DEF f, m
  <2>2. (Len(s) - 1) - 1 + 1 = Len(s) - 1
    BY <1>1
  <2> QED
    BY <1>1, <2>1, <2>2
<1> HIDE DEF f
<1>6. s = Append(f, s[Len(s)])
  <2>1. /\ Append(f, s[Len(s)]) \in Seq(E) /\ Len(Append(f, s[Len(s)])) = Len(s)
        /\ \A i \in 1 .. Len(s) - 1 : Append(f, s[Len(s)])[i] = s[i]
        /\ Append(f, s[Len(s)])[Len(s)] = s[Len(s)]
    BY <1>1, <1>3, <1>4, <1>5, AppendProperties
  <2>2. \A i \in 1 .. Len(s) : i \in 1 .. Len(s) - 1 \/ i = Len(s)
    BY <1>1
  <2> QED
    BY <2>1, <2>2, SeqEqual
<1>7. Front(s) = f /\ Last(s) = s[Len(s)]
  BY DEF f, Front, Last
<1> QED
  BY <1>3, <1>4, <1>5, <1>6, <1>7

LEMMA OnlyType ==
    ASSUME NEW E, NEW s \in Seq(E), NEW S
    PROVE  /\ Only(s, S) \in Seq(S)
           /\ Only(s, S) # <<>> <=> \E i \in 1..Len(s) : s[i] \in S
<1> DEFINE Good(r) == /\ Only(r, S) \in Seq(S)
                      /\ Only(r, S) # <<>> <=> \E i \in 1..Len(r) : r[i] \in S
           T == {n \in Nat : \A r \in Seq(E) : Len(r) = n => Good(r)}
<1>1. 0 \in T
  <2> SUFFICES ASSUME NEW r \in Seq(E), Len(r) = 0 PROVE Good(r)
    OBVIOUS
  <2>1. r = <<>> /\ 1..Len(r) = {} /\ <<>> \in Seq(S)
    OBVIOUS
  <2>2. Only(r, S) = <<>>
    BY <2>1, OnlyEmpty
  <2> QED
    BY <2>1, <2>2
<1>2. ASSUME NEW n \in Nat, n \in T PROVE n + 1 \in T
  <2> SUFFICES ASSUME NEW r \in Seq(E), Len(r) = n + 1 PROVE Good(r)
    OBVIOUS
  <2> DEFINE f == Front(r)  e == Last(r)
  <2>1. /\ f \in Seq(E) /\ e \in E /\ r = Append(f, e) /\ Len(f) = n
        /\ \A i \in 1..n : f[i] = r[i]
    <3>1. r # <<>>
      OBVIOUS
    <3> QED
      BY <3>1, FrontAppend
  <2>2. r[n + 1] = e
    BY DEF Last
  <2> HIDE DEF f, e
  <2>3. Good(f)
    BY <1>2, <2>1
  <2>4. Only(r, S) = IF e \in S THEN Append(Only(f, S), e) ELSE Only(f, S)
    BY <2>1, OnlyAppend
  <2>5. \A i : i \in 1..Len(r) <=> i \in 1..n \/ i = n + 1
    OBVIOUS
  <2>6. CASE e \in S
    <3>1. Append(Only(f, S), e) \in Seq(S) /\ Append(Only(f, S), e) # <<>>
      BY <2>3, <2>6, AppendProperties
    <3> QED
      BY <2>2, <2>4, <2>5, <2>6, <3>1
  <2>7. CASE e \notin S
    BY <2>1, <2>2, <2>3, <2>4, <2>5, <2>7
  <2> QED
    BY <2>6, <2>7
<1> HIDE DEF T
<1>3. Len(s) \in T
  BY <1>1, <1>2, InductiveSet
<1> QED
  BY <1>3 DEF T

LEMMA RemoveAtElements ==
    ASSUME NEW E, NEW s \in Seq(E), NEW i \in 1 .. Len(s)
    PROVE  /\ RemoveAt(s, i) \in Seq(E) /\ Len(RemoveAt(s, i)) = Len(s) - 1
           /\ \A j \in 1 .. Len(s) - 1 :
                 RemoveAt(s, i)[j] = IF j < i THEN s[j] ELSE s[j + 1]
<1> DEFINE a == SubSeq(s, 1, i - 1)  b == SubSeq(s, i + 1, Len(s))
<1>1. Len(s) \in Nat /\ i \in Nat /\ i >= 1 /\ i <= Len(s)
  OBVIOUS
<1>2. /\ a \in Seq(E) /\ Len(a) = i - 1 /\ \A j \in 1 .. i - 1 : a[j] = s[j]
  <2> HIDE DEF a
  <2> DEFINE m == i - 1
  <2>1. 1 \in Int /\ m \in Int /\ \A j \in 1 .. m : s[j] \in E
    BY <1>1
  <2> HIDE DEF m
  <2>2. /\ SubSeq(s, 1, m) \in Seq(E)
        /\ Len(SubSeq(s, 1, m)) = IF 1 <= m THEN m - 1 + 1 ELSE 0
        /\ \A j \in 1 .. m - 1 + 1 : SubSeq(s, 1, m)[j] = s[1 + j - 1]
    BY <2>1, SubSeqProperties
  <2> QED
    BY <1>1, <2>2 DEF a, m
<1>3. /\ b \in Seq(E) /\ Len(b) = Len(s) - i /\ \A j \in 1 .. Len(s) - i : b[j] = s[i + j]
  <2> HIDE DEF b
  <2> DEFINE m == i + 1  n == Len(s)
  <2>1. m \in Int /\ n \in Int /\ \A j \in m .. n : s[j] \in E
    BY <1>1
  <2>3. n - m + 1 = Len(s) - i /\ (m <= n <=> 1 <= Len(s) - i) /\ m = i + 1
        /\ \A j \in 1 .. Len(s) - i : m + j - 1 = i + j
    BY <1>1
  <2> HIDE DEF m, n
  <2>2. /\ SubSeq(s, m, n) \in Seq(E)
        /\ Len(SubSeq(s, m, n)) = IF m <= n THEN n - m + 1 ELSE 0
        /\ \A j \in 1 .. n - m + 1 : SubSeq(s, m, n)[j] = s[m + j - 1]
    BY <2>1, SubSeqProperties
  <2>4. b = SubSeq(s, m, n)
    BY DEF b, m, n
  <2>5. Len(b) = Len(s) - i
    BY <1>1, <2>2, <2>3, <2>4
  <2>6. \A j \in 1 .. Len(s) - i : b[j] = s[i + j]
    BY <2>2, <2>3, <2>4
  <2> QED
    BY <2>2, <2>4, <2>5, <2>6
<1> HIDE DEF a, b
<1>4. /\ a \o b \in Seq(E) /\ Len(a \o b) = Len(a) + Len(b)
      /\ \A j \in 1 .. Len(a) + Len(b) :
            (a \o b)[j] = IF j <= Len(a) THEN a[j] ELSE b[j - Len(a)]
  BY <1>2, <1>3, ConcatProperties
<1>5. ASSUME NEW j \in 1 .. Len(s) - 1
      PROVE  (a \o b)[j] = IF j < i THEN s[j] ELSE s[j + 1]
  <2>1. j \in 1 .. Len(a) + Len(b) /\ (j < i <=> j <= Len(a))
    BY <1>1, <1>2, <1>3
  <2>2. j < i => j \in 1 .. i - 1
    BY <1>1
  <2>3. ~(j < i) => j - Len(a) \in 1 .. Len(s) - i /\ i + (j - Len(a)) = j + 1
    BY <1>1, <1>2
  <2> QED
    BY <1>2, <1>3, <1>4, <2>1, <2>2, <2>3
<1>6. RemoveAt(s, i) = a \o b
  BY DEF RemoveAt, a, b
<1>7. Len(a \o b) = Len(s) - 1
  BY <1>1, <1>2, <1>3, <1>4
<1> QED
  BY <1>4, <1>5, <1>6, <1>7

(***************************************************************************)
(* The stack of calls, and how a step changes it.                          *)
(***************************************************************************)
LEMMA FrameKinds ==
    ASSUME NEW f \in Frame
    PROVE  /\ f.kind \in {"code", "run", "iterate", "select", "idle"}
           /\ f \in RunFrame <=> f.kind = "run"
           /\ f.kind = "code" => f \in [kind : {"code"}, called : BOOLEAN]
           /\ f.kind = "iterate" =>
                 f \in [kind : {"iterate"}, paused : BOOLEAN, dispatched : BOOLEAN]
           /\ f.kind = "select" => f \in [kind : {"select"}, todo : Nat]
           /\ f.kind = "idle" => f \in [kind : {"idle"}, paused : BOOLEAN, todo : Seq(Handle)]
BY DEF Frame, RunFrame

LEMMA StackFacts ==
    ASSUME TypeOK
    PROVE  /\ stack \in Seq(Frame) /\ stack # <<>>
           /\ Len(stack) \in Nat /\ Len(stack) >= 1 /\ DOMAIN stack = 1 .. Len(stack)
           /\ Top \in Frame /\ stack[Len(stack)] = Top
           /\ Front(stack) \in Seq(Frame) /\ stack = Append(Front(stack), Top)
           /\ Len(Front(stack)) = Len(stack) - 1
           /\ \A i \in 1 .. Len(stack) - 1 : Front(stack)[i] = stack[i]
<1>1. stack \in Seq(Frame) /\ Len(stack) >= 1
  BY EventLoopAssumption DEF TypeOK, EventLoopAssumption
<1>2. stack # <<>> /\ Len(stack) \in Nat /\ DOMAIN stack = 1 .. Len(stack)
  BY <1>1
<1> QED
  BY <1>1, <1>2, FrontAppend DEF Top, Last

\* One call more, the call on top as f below g; the call on top replaced by f;
\* and the call on top returned.
Grown(f, g) ==
    /\ stack' = Append(Append(Front(stack), f), g)
    /\ stack' \in Seq(Frame) /\ Len(stack') = Len(stack) + 1
    /\ stack'[Len(stack)] = f /\ stack'[Len(stack) + 1] = g
    /\ \A i \in 1 .. Len(stack) - 1 : stack'[i] = stack[i]
Changed(f) ==
    /\ stack' = Append(Front(stack), f)
    /\ stack' \in Seq(Frame) /\ Len(stack') = Len(stack)
    /\ stack'[Len(stack)] = f
    /\ \A i \in 1 .. Len(stack) - 1 : stack'[i] = stack[i]
Popped ==
    /\ stack' = Front(stack)
    /\ stack' \in Seq(Frame) /\ Len(stack') = Len(stack) - 1
    /\ \A i \in 1 .. Len(stack) - 1 : stack'[i] = stack[i]

LEMMA IsGrown ==
    ASSUME TypeOK, NEW f \in Frame, NEW g \in Frame, stack' = Front(stack) \o <<f, g>>
    PROVE  Grown(f, g)
<1> DEFINE b == Front(stack)
<1>1. b \in Seq(Frame) /\ Len(b) = Len(stack) - 1 /\ Len(stack) \in Nat /\ Len(stack) >= 1
      /\ \A i \in 1 .. Len(stack) - 1 : b[i] = stack[i]
  BY StackFacts
<1> HIDE DEF b
<1>2. Append(b, f) \in Seq(Frame) /\ Append(Append(b, f), g) \in Seq(Frame)
  BY <1>1
<1>3. b \o <<f, g>> = Append(Append(b, f), g)
  <2>1. <<f, g>> \in Seq(Frame) /\ Len(<<f, g>>) = 2 /\ <<f, g>>[1] = f /\ <<f, g>>[2] = g
    OBVIOUS
  <2>2. /\ b \o <<f, g>> \in Seq(Frame) /\ Len(b \o <<f, g>>) = Len(b) + 2
        /\ \A i \in 1 .. Len(b) + 2 : (b \o <<f, g>>)[i] =
              IF i <= Len(b) THEN b[i] ELSE <<f, g>>[i - Len(b)]
    BY <1>1, <2>1, ConcatProperties
  <2>3. /\ Len(Append(Append(b, f), g)) = Len(b) + 2
        /\ \A i \in 1 .. Len(b) : Append(Append(b, f), g)[i] = b[i]
        /\ Append(Append(b, f), g)[Len(b) + 1] = f /\ Append(Append(b, f), g)[Len(b) + 2] = g
    BY <1>1
  <2>4. \A i \in 1 .. Len(b) + 2 : i \in 1 .. Len(b) \/ i = Len(b) + 1 \/ i = Len(b) + 2
    BY <1>1
  <2>5. ASSUME NEW i \in 1 .. Len(b) + 2
        PROVE  (b \o <<f, g>>)[i] = Append(Append(b, f), g)[i]
    <3>1. CASE i \in 1 .. Len(b)
      BY <1>1, <2>2, <2>3, <3>1
    <3>2. CASE i = Len(b) + 1
      <4>1. ~(i <= Len(b)) /\ i - Len(b) = 1
        BY <1>1, <3>2
      <4> QED
        BY <2>1, <2>2, <2>3, <3>2, <4>1
    <3>3. CASE i = Len(b) + 2
      <4>1. ~(i <= Len(b)) /\ i - Len(b) = 2
        BY <1>1, <3>3
      <4> QED
        BY <2>1, <2>2, <2>3, <3>3, <4>1
    <3> QED
      BY <2>4, <3>1, <3>2, <3>3
  <2> QED
    BY <1>2, <2>2, <2>3, <2>5, SeqEqual
<1>4. stack' = Append(Append(b, f), g)
  BY <1>3 DEF b
<1> DEFINE c == Append(b, f)
<1>c. /\ c \in Seq(Frame) /\ Len(c) = Len(stack) /\ c[Len(stack)] = f
      /\ \A i \in 1 .. Len(stack) - 1 : c[i] = stack[i]
  BY <1>1
<1>d. stack' = Append(c, g)
  BY <1>4
<1> HIDE DEF c
<1>5. /\ Len(stack') = Len(stack) + 1 /\ stack'[Len(stack)] = f /\ stack'[Len(stack) + 1] = g
      /\ \A i \in 1 .. Len(stack) - 1 : stack'[i] = stack[i]
  <2>1. /\ Len(Append(c, g)) = Len(c) + 1 /\ Append(c, g)[Len(c) + 1] = g
        /\ \A i \in 1 .. Len(c) : Append(c, g)[i] = c[i]
    BY <1>c, AppendProperties
  <2>2. Len(stack) \in 1 .. Len(c) /\ \A i \in 1 .. Len(stack) - 1 : i \in 1 .. Len(c)
    BY <1>1, <1>c
  <2> QED
    BY <1>1, <1>c, <1>d, <2>1, <2>2
<1> QED
  BY <1>2, <1>4, <1>5 DEF Grown, b

LEMMA IsChanged ==
    ASSUME TypeOK, NEW f \in Frame, Replace(f)
    PROVE  Changed(f)
<1> DEFINE b == Front(stack)
<1>1. b \in Seq(Frame) /\ Len(b) = Len(stack) - 1 /\ Len(stack) \in Nat /\ Len(stack) >= 1
      /\ \A i \in 1 .. Len(stack) - 1 : b[i] = stack[i]
  BY StackFacts
<1>2. stack' = Append(b, f)
  BY DEF Replace
<1> HIDE DEF b
<1>3. /\ stack' \in Seq(Frame) /\ Len(stack') = Len(stack) /\ stack'[Len(stack)] = f
      /\ \A i \in 1 .. Len(stack) - 1 : stack'[i] = stack[i]
  BY <1>1, <1>2
<1> QED
  BY <1>2, <1>3 DEF Changed, b

LEMMA IsPopped ==
    ASSUME TypeOK, CallReturns
    PROVE  Popped
BY StackFacts DEF Popped, CallReturns

(***************************************************************************)
(* The levels that a step leaves as they are.                              *)
(***************************************************************************)
Below == Only(Front(stack), RunFrame)

LEMMA LevelsFacts ==
    ASSUME TypeOK
    PROVE  /\ Below \in Seq(RunFrame) /\ Levels \in Seq(RunFrame)
           /\ Levels = IF Top.kind = "run" THEN Append(Below, Top) ELSE Below
           /\ Levels # <<>> <=> \E i \in 1 .. Len(stack) : stack[i].kind = "run"
           /\ Below # <<>> <=> \E i \in 1 .. Len(stack) - 1 : stack[i].kind = "run"
           /\ Registered \in Seq(SigintFrame)
<1>1. /\ stack \in Seq(Frame) /\ Front(stack) \in Seq(Frame) /\ Top \in Frame
      /\ stack = Append(Front(stack), Top) /\ Len(Front(stack)) = Len(stack) - 1
      /\ Len(stack) \in Nat
      /\ \A i \in 1 .. Len(stack) - 1 : Front(stack)[i] = stack[i]
  BY StackFacts
<1>2. Levels = IF Top \in RunFrame THEN Append(Below, Top) ELSE Below
  <2>1. Only(Append(Front(stack), Top), RunFrame)
          = IF Top \in RunFrame THEN Append(Below, Top) ELSE Below
    BY <1>1, OnlyAppend DEF Below
  <2> QED
    BY <1>1, <2>1 DEF Levels
<1>3. \A i \in 1 .. Len(stack) : stack[i] \in Frame /\ (stack[i] \in RunFrame <=> stack[i].kind = "run")
  BY <1>1, FrameKinds
<1>4. /\ Levels \in Seq(RunFrame)
      /\ Levels # <<>> <=> \E i \in 1 .. Len(stack) : stack[i] \in RunFrame
  BY <1>1, OnlyType DEF Levels
<1>5. /\ Below \in Seq(RunFrame)
      /\ Below # <<>> <=> \E i \in 1 .. Len(Front(stack)) : Front(stack)[i] \in RunFrame
  BY <1>1, OnlyType DEF Below
<1>6. Below # <<>> <=> \E i \in 1 .. Len(stack) - 1 : stack[i].kind = "run"
  <2>1. \A i \in 1 .. Len(stack) - 1 : i \in 1 .. Len(stack)
    BY <1>1
  <2> QED
    BY <1>1, <1>3, <1>5, <2>1
<1>7. Registered \in Seq(SigintFrame)
  BY <1>4, OnlyType DEF Registered
<1> QED
  BY <1>1, <1>2, <1>3, <1>4, <1>5, <1>6, <1>7, FrameKinds

LEMMA LevelsGrown ==
    ASSUME TypeOK, NEW f \in Frame, NEW g \in Frame, Grown(f, g)
    PROVE  Levels' = LET b == IF f.kind = "run" THEN Append(Below, f) ELSE Below
                     IN IF g.kind = "run" THEN Append(b, g) ELSE b
<1>1. Front(stack) \in Seq(Frame) /\ Append(Front(stack), f) \in Seq(Frame)
  BY StackFacts
<1>2. Only(Append(Front(stack), f), RunFrame) = IF f \in RunFrame THEN Append(Below, f) ELSE Below
  BY <1>1, OnlyAppend DEF Below
<1>3. Only(stack', RunFrame)
        = IF g \in RunFrame THEN Append(Only(Append(Front(stack), f), RunFrame), g)
          ELSE Only(Append(Front(stack), f), RunFrame)
  BY <1>1, OnlyAppend DEF Grown
<1>4. Levels' = Only(stack', RunFrame)
  BY DEF Levels
<1> QED
  BY <1>2, <1>3, <1>4, FrameKinds

LEMMA LevelsChanged ==
    ASSUME TypeOK, NEW f \in Frame, Changed(f)
    PROVE  Levels' = IF f.kind = "run" THEN Append(Below, f) ELSE Below
<1>1. Front(stack) \in Seq(Frame)
  BY StackFacts
<1>2. Only(stack', RunFrame) = IF f \in RunFrame THEN Append(Below, f) ELSE Below
  BY <1>1, OnlyAppend DEF Below, Changed
<1> QED
  BY <1>2, FrameKinds DEF Levels

LEMMA LevelsPopped ==
    ASSUME TypeOK, Popped
    PROVE  Levels' = Below
BY DEF Levels, Below, Popped

LEMMA LevelsRaised ==
    ASSUME TypeOK, Len(stack) >= 2, stack[Len(stack) - 1].kind # "run",
           stack' = Front(Front(stack))
    PROVE  Levels' = Below
<1>1. /\ Front(stack) \in Seq(Frame) /\ Len(Front(stack)) = Len(stack) - 1 /\ Len(stack) \in Nat
      /\ \A i \in 1 .. Len(stack) - 1 : Front(stack)[i] = stack[i]
  BY StackFacts
<1>2. Front(stack) # <<>>
  BY <1>1
<1>3. /\ Last(Front(stack)) \in Frame /\ Last(Front(stack)).kind # "run"
      /\ Front(stack) = Append(Front(Front(stack)), Last(Front(stack)))
      /\ Front(Front(stack)) \in Seq(Frame)
  <2>1. Len(stack) - 1 \in 1 .. Len(stack) - 1
    BY <1>1
  <2>2. Last(Front(stack)) = stack[Len(stack) - 1]
    BY <1>1, <2>1 DEF Last
  <2> QED
    BY <1>1, <1>2, <2>2, FrontAppend
<1>4. Below = Only(Front(Front(stack)), RunFrame)
  <2>1. Last(Front(stack)) \notin RunFrame
    BY <1>3, FrameKinds
  <2>2. Only(Append(Front(Front(stack)), Last(Front(stack))), RunFrame)
          = Only(Front(Front(stack)), RunFrame)
    BY <1>3, <2>1, OnlyAppend
  <2> QED
    BY <1>3, <2>2 DEF Below
<1> QED
  BY <1>4 DEF Levels

\* Levels that differ at most in what only the top of the stack is asked for.
Alike(f, g) ==
    /\ f.loop = g.loop /\ (f.outer <=> g.outer) /\ f.sig = g.sig
    /\ (f.late <=> g.late) /\ (f.after <=> g.after)
AlikeSeq(s, t) ==
    Len(s) = Len(t) /\ DOMAIN s = DOMAIN t /\ \A i \in DOMAIN s : Alike(s[i], t[i])

LEMMA AlikeSame ==
    ASSUME NEW s
    PROVE  AlikeSeq(s, s)
BY DEF AlikeSeq, Alike

LEMMA AlikeAppend ==
    ASSUME NEW E, NEW s \in Seq(E), NEW f \in E, NEW g \in E, Alike(f, g)
    PROVE  AlikeSeq(Append(s, f), Append(s, g))
<1>1. /\ Len(Append(s, f)) = Len(s) + 1 /\ Len(Append(s, g)) = Len(s) + 1 /\ Len(s) \in Nat
      /\ DOMAIN Append(s, f) = 1 .. Len(s) + 1 /\ DOMAIN Append(s, g) = 1 .. Len(s) + 1
      /\ Append(s, f)[Len(s) + 1] = f /\ Append(s, g)[Len(s) + 1] = g
      /\ \A i \in 1 .. Len(s) : Append(s, f)[i] = s[i] /\ Append(s, g)[i] = s[i]
  OBVIOUS
<1>2. \A i \in 1 .. Len(s) + 1 : i \in 1 .. Len(s) \/ i = Len(s) + 1
  BY <1>1
<1>3. \A h : Alike(h, h)
  BY DEF Alike
<1>4. \A i \in 1 .. Len(s) + 1 : Alike(Append(s, f)[i], Append(s, g)[i])
  BY <1>1, <1>2, <1>3
<1> QED
  BY <1>1, <1>4 DEF AlikeSeq

LEMMA AlikeRegistered ==
    ASSUME NEW s \in Seq(RunFrame), NEW f \in RunFrame, NEW g \in RunFrame, Alike(f, g)
    PROVE  AlikeSeq(Only(Append(s, f), SigintFrame), Only(Append(s, g), SigintFrame))
<1>1. f \in SigintFrame <=> g \in SigintFrame
  BY DEF SigintFrame, Alike
<1>2. /\ Only(Append(s, f), SigintFrame)
            = IF f \in SigintFrame THEN Append(Only(s, SigintFrame), f) ELSE Only(s, SigintFrame)
      /\ Only(Append(s, g), SigintFrame)
            = IF g \in SigintFrame THEN Append(Only(s, SigintFrame), g) ELSE Only(s, SigintFrame)
  BY OnlyAppend
<1>3. Only(s, SigintFrame) \in Seq(SigintFrame)
  BY OnlyType
<1>4. CASE f \in SigintFrame
  BY <1>1, <1>2, <1>3, <1>4, AlikeAppend
<1>5. CASE f \notin SigintFrame
  BY <1>1, <1>2, <1>5, AlikeSame
<1> QED
  BY <1>4, <1>5

LEMMA LevelsAlike ==
    ASSUME TypeOK,
           \/ UNCHANGED stack
           \/ \E f, g \in Frame : /\ Grown(f, g) /\ f.kind = Top.kind /\ g.kind # "run"
                                  /\ f.kind = "run" => Alike(Top, f)
           \/ \E f \in Frame : /\ Changed(f) /\ f.kind = Top.kind
                               /\ f.kind = "run" => Alike(Top, f)
           \/ Popped /\ Top.kind # "run"
           \/ /\ Top.kind # "run" /\ Len(stack) >= 2 /\ stack[Len(stack) - 1].kind # "run"
              /\ stack' = Front(Front(stack))
    PROVE  AlikeSeq(Levels, Levels') /\ AlikeSeq(Registered, Registered')
<1>1. /\ Below \in Seq(RunFrame) /\ Top \in Frame
      /\ Levels = IF Top.kind = "run" THEN Append(Below, Top) ELSE Below
  BY LevelsFacts, StackFacts
<1>2. Registered = Only(Levels, SigintFrame) /\ Registered' = Only(Levels', SigintFrame)
  BY DEF Registered
<1>3. SUFFICES \/ Levels' = Levels
               \/ \E f \in RunFrame : /\ Alike(Top, f) /\ Top \in RunFrame
                                      /\ Levels = Append(Below, Top) /\ Levels' = Append(Below, f)
  BY <1>1, <1>2, AlikeSame, AlikeAppend, AlikeRegistered
<1>4. CASE UNCHANGED stack
  BY <1>4 DEF Levels
<1>5. CASE \E f, g \in Frame : /\ Grown(f, g) /\ f.kind = Top.kind /\ g.kind # "run"
                               /\ f.kind = "run" => Alike(Top, f)
  <2>1. PICK f \in Frame, g \in Frame :
            /\ Grown(f, g) /\ f.kind = Top.kind /\ g.kind # "run"
            /\ f.kind = "run" => Alike(Top, f)
    BY <1>5
  <2>2. Levels' = IF f.kind = "run" THEN Append(Below, f) ELSE Below
    BY <2>1, LevelsGrown
  <2> QED
    BY <1>1, <2>1, <2>2, FrameKinds
<1>6. CASE \E f \in Frame : /\ Changed(f) /\ f.kind = Top.kind
                            /\ f.kind = "run" => Alike(Top, f)
  BY <1>1, <1>6, LevelsChanged, FrameKinds
<1>7. CASE Popped /\ Top.kind # "run"
  BY <1>1, <1>7, LevelsPopped
<1>8. CASE /\ Top.kind # "run" /\ Len(stack) >= 2 /\ stack[Len(stack) - 1].kind # "run"
           /\ stack' = Front(Front(stack))
  BY <1>1, <1>8, LevelsRaised
<1> QED
  BY <1>4, <1>5, <1>6, <1>7, <1>8

(***************************************************************************)
(* What the loop remembers of the levels, for any steps and for those that *)
(* enter, begin, stop and leave one.                                       *)
(***************************************************************************)
QuitFuncsAgree == quit_funcs = [i \in DOMAIN Levels |-> Levels[i].loop]
OrderInv == LevelsOrdered /\ QuitFuncsAgree /\ StopPassedOn
SigintInv == SigintInOrder /\ BaseFirst

LEMMA OrderKept ==
    ASSUME OrderInv, AlikeSeq(Levels, Levels'), Levels \in Seq(RunFrame), Levels' \in Seq(RunFrame),
           UNCHANGED <<running, stopping, quit_funcs>>, looping' \subseteq looping
    PROVE  OrderInv'
<1>1. /\ DOMAIN Levels' = DOMAIN Levels /\ (Levels' = <<>> <=> Levels = <<>>)
      /\ \A i \in DOMAIN Levels : /\ Levels'[i].loop = Levels[i].loop
                                  /\ (Levels'[i].outer <=> Levels[i].outer)
                                  /\ (Levels'[i].late <=> Levels[i].late)
  BY DEF AlikeSeq, Alike
<1>2. LevelsOrdered'
  BY <1>1 DEF OrderInv, LevelsOrdered
<1>3. QuitFuncsAgree'
  BY <1>1 DEF OrderInv, QuitFuncsAgree
<1>4. StopPassedOn'
  BY <1>1 DEF OrderInv, StopPassedOn
<1> QED
  BY <1>2, <1>3, <1>4 DEF OrderInv

LEMMA SigintKept ==
    ASSUME SigintInv, AlikeSeq(Registered, Registered'), Registered \in Seq(SigintFrame),
           Registered' \in Seq(SigintFrame), UNCHANGED svars
    PROVE  SigintInv'
<1>1. /\ DOMAIN Registered' = DOMAIN Registered /\ (Registered' = <<>> <=> Registered = <<>>)
      /\ \A i \in DOMAIN Registered : /\ Registered'[i].loop = Registered[i].loop
                                      /\ Registered'[i].sig = Registered[i].sig
                                      /\ (Registered'[i].after <=> Registered[i].after)
  BY DEF AlikeSeq, Alike
<1>2. BaseFirst'
  BY <1>1 DEF SigintInv, BaseFirst
<1>3. Callbacks' = Callbacks
  BY <1>1 DEF Callbacks
<1>4. SigintInOrder'
  BY <1>1, <1>3 DEF SigintInv, SigintInOrder, svars
<1> QED
  BY <1>2, <1>4 DEF SigintInv

LEMMA AppendElements ==
    ASSUME NEW E, NEW s \in Seq(E), NEW e \in E
    PROVE  /\ DOMAIN s = 1 .. Len(s) /\ Len(s) \in Nat
           /\ DOMAIN Append(s, e) = 1 .. Len(s) + 1 /\ Append(s, e) # <<>>
           /\ Append(s, e) \in Seq(E) /\ Len(Append(s, e)) = Len(s) + 1
           /\ Append(s, e)[Len(s) + 1] = e
           /\ \A i \in 1 .. Len(s) : i # Len(s) + 1 /\ Append(s, e)[i] = s[i]
           /\ \A i \in 1 .. Len(s) + 1 : i \in 1 .. Len(s) \/ i = Len(s) + 1
<1>1. Len(s) \in Nat /\ DOMAIN s = 1 .. Len(s)
  OBVIOUS
<1>2. Append(s, e) \in Seq(E) /\ Len(Append(s, e)) = Len(s) + 1 /\ Append(s, e) # <<>>
  BY AppendProperties
<1>3. /\ Append(s, e)[Len(s) + 1] = e
      /\ \A i \in 1 .. Len(s) : Append(s, e)[i] = s[i]
  OBVIOUS
<1> QED
  BY <1>1, <1>2, <1>3

\* The loops of levels, and of levels to which one is added.
LEMMA LoopsType ==
    ASSUME NEW s \in Seq(RunFrame)
    PROVE  LET q == [i \in DOMAIN s |-> s[i].loop]
           IN /\ q \in Seq(Loop) /\ Len(q) = Len(s) /\ DOMAIN q = 1 .. Len(s)
              /\ (q = <<>> <=> Len(s) = 0)
<1> DEFINE q == [i \in DOMAIN s |-> s[i].loop]
<1>1. DOMAIN s = 1 .. Len(s) /\ Len(s) \in Nat
  OBVIOUS
<1>2. \A i \in 1 .. Len(s) : s[i].loop \in Loop
  <2>1. \A g \in RunFrame : g.loop \in Loop
    BY DEF RunFrame
  <2> QED
    BY <2>1
<1>3. q = [i \in 1 .. Len(s) |-> s[i].loop]
  BY <1>1
<1> HIDE DEF q
<1>4. q \in Seq(Loop) /\ Len(q) = Len(s) /\ DOMAIN q = 1 .. Len(s)
  BY <1>1, <1>2, <1>3
<1>5. q = <<>> <=> Len(s) = 0
  BY <1>4
<1> QED
  BY <1>4, <1>5 DEF q

LEMMA LoopsAppend ==
    ASSUME NEW s \in Seq(RunFrame), NEW f \in RunFrame
    PROVE  /\ [i \in DOMAIN s |-> s[i].loop] \in Seq(Loop)
           /\ [i \in DOMAIN Append(s, f) |-> Append(s, f)[i].loop]
                 = Append([i \in DOMAIN s |-> s[i].loop], f.loop)
<1> DEFINE t == Append(s, f)
           a == [i \in DOMAIN s |-> s[i].loop]
           b == [i \in DOMAIN t |-> t[i].loop]
<1>1. /\ DOMAIN s = 1 .. Len(s) /\ Len(s) \in Nat /\ DOMAIN t = 1 .. Len(s) + 1
      /\ t[Len(s) + 1] = f /\ \A i \in 1 .. Len(s) : i # Len(s) + 1 /\ t[i] = s[i]
      /\ \A i \in 1 .. Len(s) + 1 : i \in 1 .. Len(s) \/ i = Len(s) + 1
  BY AppendElements
<1>2. f.loop \in Loop /\ \A i \in 1 .. Len(s) : s[i].loop \in Loop
  <2>1. \A g \in RunFrame : g.loop \in Loop
    BY DEF RunFrame
  <2> QED
    BY <1>1, <2>1
<1> HIDE DEF t
<1>3. a \in Seq(Loop) /\ Len(a) = Len(s) /\ \A i \in 1 .. Len(s) : a[i] = s[i].loop
  BY <1>1, <1>2
<1>4. b \in Seq(Loop) /\ Len(b) = Len(s) + 1 /\ \A i \in 1 .. Len(s) + 1 : b[i] = t[i].loop
  <2>1. \A i \in 1 .. Len(s) + 1 : t[i].loop \in Loop
    BY <1>1, <1>2
  <2>2. Len(s) + 1 \in Nat
    BY <1>1
  <2> QED
    BY <1>1, <2>1, <2>2
<1> HIDE DEF a, b
<1>5. /\ Append(a, f.loop) \in Seq(Loop) /\ Len(Append(a, f.loop)) = Len(s) + 1
      /\ Append(a, f.loop)[Len(s) + 1] = f.loop
      /\ \A i \in 1 .. Len(s) : Append(a, f.loop)[i] = a[i]
  BY <1>2, <1>3, AppendElements
<1>6. \A i \in 1 .. Len(s) + 1 : b[i] = Append(a, f.loop)[i]
  BY <1>1, <1>3, <1>4, <1>5
<1>7. b = Append(a, f.loop)
  BY <1>4, <1>5, <1>6, SeqEqual
<1> QED
  BY <1>3, <1>7 DEF a, b, t

LEMMA OrderEntered ==
    ASSUME OrderInv, Levels \in Seq(RunFrame), NEW f \in RunFrame, Levels' = Append(Levels, f),
           f.outer <=> ~running, f.late <=> stopping, ~IsRunBy(f.loop),
           running' = TRUE, UNCHANGED <<stopping, looping>>,
           quit_funcs' = Append(quit_funcs, f.loop)
    PROVE  OrderInv'
<1> DEFINE n == Len(Levels)
<1>1. /\ DOMAIN Levels = 1 .. n /\ n \in Nat /\ DOMAIN Levels' = 1 .. n + 1 /\ Levels' # <<>>
      /\ Levels'[n + 1] = f /\ \A i \in 1 .. n : i # n + 1 /\ Levels'[i] = Levels[i]
      /\ \A i \in 1 .. n + 1 : i \in 1 .. n \/ i = n + 1
  BY AppendElements
<1> HIDE DEF n
<1>2. \A i \in 1 .. n : Levels[i].loop # f.loop
  BY <1>1 DEF IsRunBy
<1>3. /\ running <=> n # 0
      /\ \A i \in 1 .. n : /\ Levels[i].outer <=> i = 1
                           /\ Levels[i].late => stopping
                           /\ \A j \in 1 .. n : /\ Levels[i].loop = Levels[j].loop => i = j
                                                /\ i < j /\ Levels[i].late => Levels[j].late
  BY <1>1 DEF OrderInv, LevelsOrdered, n
<1>4. LevelsOrdered'
  <2>1. ASSUME NEW i \in 1 .. n + 1
        PROVE  (Levels'[i].outer <=> i = 1) /\ (Levels'[i].late => stopping')
    BY <1>1, <1>3
  <2>2. ASSUME NEW i \in 1 .. n + 1, NEW j \in 1 .. n + 1
        PROVE  /\ Levels'[i].loop = Levels'[j].loop => i = j
               /\ i < j /\ Levels'[i].late => Levels'[j].late
    <3>1. i < j => i \in 1 .. n
      BY <1>1
    <3> QED
      BY <1>1, <1>2, <1>3, <3>1
  <2> QED
    BY <1>1, <2>1, <2>2 DEF LevelsOrdered
<1>5. QuitFuncsAgree'
  BY LoopsAppend DEF OrderInv, QuitFuncsAgree
<1>6. StopPassedOn'
  <2> SUFFICES ASSUME NEW i \in 1 .. n + 1, stopping, ~Levels'[i].late,
                      \A j \in 1 .. n + 1 : j > i => Levels'[j].late
               PROVE  Levels'[i].loop \notin looping
    BY <1>1 DEF StopPassedOn
  <2>1. i \in 1 .. n
    BY <1>1
  <2>2. \A j \in 1 .. n : j \in 1 .. n + 1
    BY <1>1
  <2> QED
    BY <1>1, <2>1, <2>2 DEF OrderInv, StopPassedOn
<1> QED
  BY <1>4, <1>5, <1>6 DEF OrderInv

LEMMA OrderBegun ==
    ASSUME OrderInv, Below \in Seq(RunFrame), Top \in RunFrame, NEW f \in RunFrame,
           Levels = Append(Below, Top), Levels' = Append(Below, f), Alike(Top, f),
           Top.late <=> stopping, UNCHANGED <<running, stopping, quit_funcs>>,
           looping' = looping \cup {Top.loop}
    PROVE  OrderInv'
<1> DEFINE n == Len(Below)
<1>1. /\ DOMAIN Levels = 1 .. n + 1 /\ n \in Nat /\ DOMAIN Levels' = 1 .. n + 1
      /\ Levels' # <<>> /\ Levels # <<>>
      /\ Levels[n + 1] = Top /\ \A i \in 1 .. n : i # n + 1
      /\ \A i \in 1 .. n + 1 : i \in 1 .. n \/ i = n + 1
  BY AppendElements
<1>a. \A i \in 1 .. n + 1 : Alike(Levels[i], Levels'[i])
  BY <1>1, AlikeAppend DEF AlikeSeq
<1> HIDE DEF n
<1>2. \A i \in 1 .. n + 1 : /\ Levels'[i].loop = Levels[i].loop
                            /\ (Levels'[i].outer <=> Levels[i].outer)
                            /\ (Levels'[i].late <=> Levels[i].late)
  BY <1>a DEF Alike
<1>3. LevelsOrdered'
  BY <1>1, <1>2 DEF OrderInv, LevelsOrdered
<1>4. QuitFuncsAgree'
  BY <1>1, <1>2 DEF OrderInv, QuitFuncsAgree
<1>5. StopPassedOn'
  <2> SUFFICES ASSUME NEW i \in 1 .. n + 1, stopping, ~Levels[i].late,
                      \A j \in 1 .. n + 1 : j > i => Levels[j].late
               PROVE  Levels[i].loop \notin looping'
    BY <1>1, <1>2 DEF StopPassedOn
  <2>1. i # n + 1
    BY <1>1
  <2>2. Levels[i].loop # Top.loop
    BY <1>1, <2>1 DEF OrderInv, LevelsOrdered
  <2> QED
    BY <1>1, <2>2 DEF OrderInv, StopPassedOn
<1> QED
  BY <1>3, <1>4, <1>5 DEF OrderInv

LEMMA OrderStopped ==
    ASSUME OrderInv, Levels \in Seq(RunFrame), UNCHANGED <<stack, running, quit_funcs>>,
           stopping' = TRUE,
           looping' = IF quit_funcs = <<>> THEN looping ELSE looping \ {Last(quit_funcs)}
    PROVE  OrderInv'
<1> DEFINE n == Len(Levels)
<1>1. Levels' = Levels /\ DOMAIN Levels = 1 .. n /\ n \in Nat
  BY DEF Levels
<1>2. LevelsOrdered' /\ QuitFuncsAgree'
  BY <1>1 DEF OrderInv, LevelsOrdered, QuitFuncsAgree
<1>3. StopPassedOn'
  <2> SUFFICES ASSUME NEW i \in 1 .. n, ~Levels[i].late,
                      \A j \in 1 .. n : j > i => Levels[j].late
               PROVE  Levels[i].loop \notin looping'
    BY <1>1 DEF StopPassedOn
  <2>1. CASE i = n
    <3>1. /\ quit_funcs = [k \in 1 .. n |-> Levels[k].loop]
      BY <1>1 DEF OrderInv, QuitFuncsAgree
    <3>2. quit_funcs # <<>> /\ Len(quit_funcs) = n /\ quit_funcs[n] = Levels[n].loop
      BY <1>1, <2>1, <3>1
    <3> QED
      BY <2>1, <3>2 DEF Last
  <2>2. CASE i # n
    <3>1. i + 1 \in 1 .. n /\ i + 1 > i
      <4> HIDE DEF n
      <4> QED
        BY <1>1, <2>2
    <3>2. stopping
      BY <1>1, <3>1 DEF OrderInv, LevelsOrdered
    <3> QED
      BY <1>1, <3>2 DEF OrderInv, StopPassedOn
  <2> QED
    BY <2>1, <2>2
<1> QED
  BY <1>2, <1>3 DEF OrderInv

LEMMA FrontOfAppend ==
    ASSUME NEW E, NEW s \in Seq(E), NEW e \in E
    PROVE  Front(Append(s, e)) = s /\ Last(Append(s, e)) = e
<1>1. Append(s, e) \in Seq(E) /\ Append(s, e) # <<>>
  BY AppendElements
<1>2. /\ Front(Append(s, e)) \in Seq(E) /\ Last(Append(s, e)) \in E
      /\ Append(s, e) = Append(Front(Append(s, e)), Last(Append(s, e)))
  BY <1>1, FrontAppend
<1> QED
  BY <1>2, AppendInjective

LEMMA OrderLeft ==
    ASSUME OrderInv, Below \in Seq(RunFrame), Top \in RunFrame,
           Levels = Append(Below, Top), Levels' = Below,
           quit_funcs' = QuitFuncsLeft,
           looping' \subseteq looping \ StopNext,
           IF Top.outer THEN ~running' /\ ~stopping' ELSE UNCHANGED <<running, stopping>>
    PROVE  OrderInv'
<1> DEFINE n == Len(Below)
           q == [i \in DOMAIN Below |-> Below[i].loop]
<1>1. /\ DOMAIN Levels = 1 .. n + 1 /\ n \in Nat /\ DOMAIN Below = 1 .. n
      /\ Levels[n + 1] = Top /\ \A i \in 1 .. n : i # n + 1 /\ Levels[i] = Below[i]
      /\ \A i \in 1 .. n + 1 : i \in 1 .. n \/ i = n + 1
      /\ Levels # <<>> /\ (Below = <<>> <=> n = 0)
  BY AppendElements
<1>q. q \in Seq(Loop) /\ Len(q) = n /\ (n # 0 => q[n] = Below[n].loop)
  <2> HIDE DEF n
  <2>1. q \in Seq(Loop)
    BY LoopsAppend
  <2>2. q = [i \in 1 .. n |-> Below[i].loop]
    BY <1>1
  <2>3. n # 0 => n \in 1 .. n
    BY <1>1
  <2> HIDE DEF q
  <2> QED
    BY <1>1, <2>1, <2>2, <2>3
<1> HIDE DEF n
<1>2. Top.outer <=> n = 0
  <2>1. n + 1 \in 1 .. n + 1 /\ (n + 1 = 1 <=> n = 0)
    BY <1>1
  <2> QED
    BY <1>1, <2>1 DEF OrderInv, LevelsOrdered
<1>3. \A i \in 1 .. n : i \in 1 .. n + 1 /\ i < n + 1
  BY <1>1
<1>a. /\ running
      /\ \A i \in 1 .. n : /\ Below[i].outer <=> i = 1
                           /\ Below[i].late => stopping /\ Top.late
                           /\ \A j \in 1 .. n : /\ Below[i].loop = Below[j].loop => i = j
                                                /\ i < j /\ Below[i].late => Below[j].late
  <2>1. /\ running
        /\ \A i \in 1 .. n + 1 :
              /\ Levels[i].outer <=> i = 1
              /\ Levels[i].late => stopping
              /\ \A j \in 1 .. n + 1 : /\ Levels[i].loop = Levels[j].loop => i = j
                                       /\ i < j /\ Levels[i].late => Levels[j].late
    BY <1>1 DEF OrderInv, LevelsOrdered
  <2>2. n + 1 \in 1 .. n + 1
    BY <1>1
  <2> QED
    BY <1>1, <1>3, <2>1, <2>2
<1>4. LevelsOrdered'
  <2>1. \A i \in 1 .. n : UNCHANGED <<running, stopping>>
    BY <1>1, <1>2
  <2>2. running' <=> n # 0
    BY <1>1, <1>2, <1>a
  <2>3. \A i \in 1 .. n : /\ Below[i].outer <=> i = 1
                          /\ Below[i].late => stopping'
    <3> TAKE i \in 1 .. n
    <3>1. (Below[i].late => stopping) /\ (Below[i].outer <=> i = 1)
      BY <1>a
    <3>2. stopping' = stopping
      BY <2>1
    <3> QED
      BY <3>1, <3>2
  <2> QED
    BY <1>1, <1>a, <2>2, <2>3 DEF LevelsOrdered
<1>5. quit_funcs = Append(q, Top.loop) /\ quit_funcs' = q
  <2>1. quit_funcs = Append(q, Top.loop)
    BY LoopsAppend DEF OrderInv, QuitFuncsAgree
  <2>2. Top.loop \in Loop
    BY DEF RunFrame
  <2> HIDE DEF q
  <2> QED
    BY <1>q, <2>1, <2>2, FrontOfAppend DEF QuitFuncsLeft
<1>6. QuitFuncsAgree'
  BY <1>5 DEF QuitFuncsAgree
<1>7. StopPassedOn'
  <2> SUFFICES ASSUME NEW i \in 1 .. n, stopping', ~Below[i].late,
                      \A j \in 1 .. n : j > i => Below[j].late
               PROVE  Below[i].loop \notin looping'
    BY <1>1 DEF StopPassedOn
  <2>1. stopping /\ ~Top.outer
    BY <1>1, <1>2
  <2>2. CASE Top.late
    <3>1. \A j \in 1 .. n + 1 : j > i => Levels[j].late
      BY <1>1, <2>2
    <3> QED
      BY <1>1, <1>3, <2>1, <3>1 DEF OrderInv, StopPassedOn
  <2>3. CASE ~Top.late
    <3>1. \A j \in 1 .. n : ~Below[j].late
      BY <1>a, <2>3
    <3>2. i = n
      <4>1. i # n => i + 1 \in 1 .. n /\ i + 1 > i
        BY <1>1
      <4> QED
        BY <3>1, <4>1
    <3>3. Last(Front(quit_funcs)) = Below[i].loop
      BY <1>1, <1>5, <1>q, <3>2 DEF Last, QuitFuncsLeft
    <3> QED
      BY <2>1, <3>3 DEF StopNext
  <2> QED
    BY <2>2, <2>3
<1> QED
  BY <1>4, <1>6, <1>7 DEF OrderInv

(***************************************************************************)
(* The callbacks of SIGINT.                                                *)
(***************************************************************************)
LEMMA RegisteredAppend ==
    ASSUME NEW s \in Seq(RunFrame), NEW f \in RunFrame
    PROVE  Only(Append(s, f), SigintFrame)
              = IF f.sig = "none" THEN Only(s, SigintFrame) ELSE Append(Only(s, SigintFrame), f)
<1>1. f \in SigintFrame <=> f.sig # "none"
  BY DEF SigintFrame
<1> QED
  BY <1>1, OnlyAppend

LEMMA RegisteredType ==
    ASSUME NEW s \in Seq(RunFrame)
    PROVE  Only(s, SigintFrame) \in Seq(RunFrame)
<1>1. Only(s, SigintFrame) \in Seq(SigintFrame)
  BY OnlyType
<1>2. SigintFrame \subseteq RunFrame
  BY DEF SigintFrame
<1> QED
  BY <1>1, <1>2, SeqMonotonic

\* What is removed from a sequence that gets longer, and from one whose last
\* element is dropped.
LEMMA RemoveAppend ==
    ASSUME NEW E, NEW s \in Seq(E), NEW e \in E, NEW i \in 1 .. Len(s)
    PROVE  RemoveAt(Append(s, e), i) = Append(RemoveAt(s, i), e)
<1> DEFINE n == Len(s)  t == Append(s, e)  a == RemoveAt(t, i)  r == RemoveAt(s, i)
           b == Append(r, e)
<1>1. /\ n \in Nat /\ t \in Seq(E) /\ Len(t) = n + 1 /\ t[n + 1] = e /\ i \in 1 .. n + 1
      /\ \A j \in 1 .. n : t[j] = s[j]
  BY AppendElements
<1> HIDE DEF n, t
<1>2. /\ a \in Seq(E) /\ Len(a) = n
      /\ \A j \in 1 .. n : a[j] = IF j < i THEN t[j] ELSE t[j + 1]
  <2>1. Len(t) - 1 = n
    BY <1>1
  <2> QED
    BY <1>1, <2>1, RemoveAtElements
<1>3. /\ r \in Seq(E) /\ Len(r) = n - 1
      /\ \A j \in 1 .. n - 1 : r[j] = IF j < i THEN s[j] ELSE s[j + 1]
  BY RemoveAtElements DEF n
<1> HIDE DEF a, r
<1>4. b \in Seq(E) /\ Len(b) = n /\ b[n] = e /\ \A j \in 1 .. n - 1 : b[j] = r[j]
  <2>1. Len(r) + 1 = n
    BY <1>1, <1>3
  <2> QED
    BY <1>3, <2>1, AppendElements
<1> HIDE DEF b
<1>i. i \in Nat /\ 1 <= i /\ i <= n
  BY DEF n
<1>5. ASSUME NEW j \in 1 .. n PROVE a[j] = b[j]
  <2>1. CASE j = n
    <3>1. ~(j < i)
      BY <1>1, <1>i, <2>1
    <3> QED
      BY <1>1, <1>2, <1>4, <2>1, <3>1
  <2>2. CASE j # n
    <3>1. j \in 1 .. n - 1 /\ j + 1 \in 1 .. n
      BY <1>1, <2>2
    <3> QED
      BY <1>1, <1>2, <1>3, <1>4, <3>1
  <2> QED
    BY <2>1, <2>2
<1>6. a = b
  BY <1>2, <1>4, <1>5, SeqEqual
<1> QED
  BY <1>6 DEF a, b, r, t

LEMMA RemoveLast ==
    ASSUME NEW E, NEW s \in Seq(E), s # <<>>
    PROVE  RemoveAt(s, Len(s)) = Front(s)
<1> DEFINE n == Len(s)  a == RemoveAt(s, n)  b == Front(s)
<1>1. n \in Nat /\ n \in 1 .. Len(s)
  OBVIOUS
<1>2. b \in Seq(E) /\ Len(b) = n - 1 /\ \A j \in 1 .. n - 1 : b[j] = s[j]
  BY FrontAppend
<1>3. /\ a \in Seq(E) /\ Len(a) = n - 1
      /\ \A j \in 1 .. n - 1 : a[j] = IF j < n THEN s[j] ELSE s[j + 1]
  <2> HIDE DEF n
  <2>1. /\ a \in Seq(E) /\ Len(a) = Len(s) - 1
        /\ \A j \in 1 .. Len(s) - 1 : a[j] = IF j < n THEN s[j] ELSE s[j + 1]
    BY <1>1, RemoveAtElements
  <2> QED
    BY <2>1 DEF n
<1> HIDE DEF a, b, n
<1>4. \A j \in 1 .. n - 1 : j < n
  BY <1>1
<1>5. a = b
  BY <1>1, <1>2, <1>3, <1>4, SeqEqual
<1> QED
  BY <1>5 DEF a, b, n

LEMMA SigintEntered ==
    ASSUME SigintInv, Levels \in Seq(RunFrame), NEW f \in RunFrame, Levels' = Append(Levels, f),
           callback_stack \in Seq(Loop), handler \in {"default", "ours"},
           f.sig = Registration, f.after <=> Registration # "base" /\ sigint_called,
           Register(f.loop)
    PROVE  SigintInv'
<1> DEFINE R == Registered  n == Len(Registered)
<1>1. /\ R \in Seq(RunFrame) /\ DOMAIN R = 1 .. n /\ n \in Nat /\ (R = <<>> <=> n = 0)
  BY RegisteredType DEF Registered
<1>2. Registered' = IF f.sig = "none" THEN R ELSE Append(R, f)
  BY RegisteredAppend DEF Registered
<1>3. /\ Callbacks \in Seq(Loop) /\ Len(Callbacks) = n /\ DOMAIN Callbacks = 1 .. n
      /\ (Callbacks = <<>> <=> n = 0)
  BY <1>1, LoopsType DEF Callbacks
<1>4. f.loop \in Loop
  BY DEF RunFrame
<1>a. /\ handler = "ours" <=> n # 0
      /\ \A i \in 1 .. n : R[i].sig = IF i = 1 THEN "base" ELSE "inner"
  BY <1>1 DEF SigintInv, SigintInOrder, BaseFirst
<1>b. handler = "default" <=> n = 0
  BY <1>a
<1> HIDE DEF R, n
<1>5. CASE f.sig = "none"
  <2>1. Registration = "none" /\ UNCHANGED svars /\ Registered' = R
    BY <1>2, <1>5 DEF Register, svars
  <2>2. Registered' = Registered
    BY <2>1 DEF R
  <2>3. Callbacks' = Callbacks /\ BaseFirst' /\ SigintInOrder'
    BY <2>1, <2>2 DEF Callbacks, BaseFirst, SigintInOrder, SigintInv, svars
  <2> QED
    BY <2>3 DEF SigintInv
<1>6. CASE f.sig # "none"
  <2>1. Registered' = Append(R, f)
    BY <1>2, <1>6
  <2>2. /\ DOMAIN Registered' = 1 .. n + 1 /\ Registered' # <<>>
        /\ Registered'[n + 1] = f /\ \A i \in 1 .. n : i # n + 1 /\ Registered'[i] = R[i]
        /\ \A i \in 1 .. n + 1 : i \in 1 .. n \/ i = n + 1
    BY <1>1, <2>1, AppendElements DEF n, R
  <2>3. Callbacks' = Append(Callbacks, f.loop)
    BY <1>1, <2>1, LoopsAppend DEF Callbacks, R
  <2>4. /\ f.sig = IF n = 0 THEN "base" ELSE "inner"
        /\ callback_stack' = Append(callback_stack, f.loop)
        /\ handler' = "ours"
        /\ n = 0 => ~sigint_called'
        /\ n # 0 => sigint_called' = sigint_called /\ handler = "ours"
        /\ n # 0 => (f.after <=> sigint_called)
    BY <1>6, <1>a, <1>b DEF Registration, Register
  <2>5. BaseFirst'
    <3>1. n + 1 \in 1 .. n + 1 /\ (n + 1 = 1 <=> n = 0)
      BY <1>1
    <3> QED
      BY <1>a, <2>2, <2>4, <3>1 DEF BaseFirst
  <2>6. SigintInOrder'
    <3>1. CASE n = 0
      <4>1. handler # "ours" /\ callback_stack = Callbacks
        BY <1>a, <3>1 DEF SigintInv, SigintInOrder
      <4> QED
        BY <2>2, <2>3, <2>4, <3>1, <4>1 DEF SigintInOrder
    <3>2. CASE n # 0 /\ ~sigint_called
      <4>1. callback_stack = Callbacks
        BY <3>2 DEF SigintInv, SigintInOrder
      <4> QED
        BY <2>2, <2>3, <2>4, <3>2, <4>1 DEF SigintInOrder
    <3>3. CASE n # 0 /\ sigint_called
      <4>1. PICK i \in 1 .. n : /\ callback_stack = RemoveAt(Callbacks, i)
                                /\ \A j \in 1 .. n : j > i => R[j].after
        BY <1>1, <1>3, <2>4, <3>3 DEF SigintInv, SigintInOrder, R
      <4>2. callback_stack' = RemoveAt(Callbacks', i)
        BY <1>3, <1>4, <2>3, <2>4, <4>1, RemoveAppend
      <4>3. \A j \in 1 .. n + 1 : j > i => Registered'[j].after
        BY <2>2, <2>4, <3>3, <4>1
      <4>4. i \in 1 .. n + 1 /\ DOMAIN Callbacks' = 1 .. n + 1
        BY <1>1, <1>3, <1>4, <2>3, AppendElements
      <4> QED
        BY <2>2, <2>4, <3>3, <4>2, <4>3, <4>4 DEF SigintInOrder
    <3> QED
      BY <3>1, <3>2, <3>3
  <2> QED
    BY <2>5, <2>6 DEF SigintInv
<1> QED
  BY <1>5, <1>6

LEMMA SigintHandled ==
    ASSUME SigintInv, Levels \in Seq(RunFrame), UNCHANGED stack, HandleSigint
    PROVE  SigintInv'
<1>1. Registered' = Registered /\ Callbacks' = Callbacks
  BY DEF Registered, Levels, Callbacks
<1>2. Registered \in Seq(RunFrame) /\ Registered # <<>>
  BY RegisteredType DEF Registered, SigintInv, SigintInOrder, HandleSigint
<1>3. Callbacks \in Seq(Loop) /\ DOMAIN Callbacks = DOMAIN Registered
  BY <1>2, LoopsType DEF Callbacks
<1>4. DOMAIN Callbacks = 1 .. Len(Callbacks) /\ Len(Callbacks) \in Nat /\ Callbacks # <<>>
      /\ Len(Callbacks) \in DOMAIN Callbacks
  BY <1>2, <1>3
<1>5. callback_stack' = RemoveAt(Callbacks, Len(Callbacks))
  BY <1>3, <1>4, RemoveLast DEF HandleSigint, PoppedCallback, SigintInv, SigintInOrder
<1>6. \A j \in DOMAIN Registered : ~(j > Len(Callbacks))
  BY <1>3, <1>4
<1>7. SigintInOrder'
  BY <1>1, <1>4, <1>5, <1>6 DEF SigintInOrder, HandleSigint, SigintInv
<1>8. BaseFirst'
  BY <1>1 DEF BaseFirst, SigintInv
<1> QED
  BY <1>7, <1>8 DEF SigintInv

LEMMA SigintLeft ==
    ASSUME SigintInv, Below \in Seq(RunFrame), Top \in RunFrame,
           Levels = Append(Below, Top), Levels' = Below,
           callback_stack \in Seq(Loop), handler \in {"default", "ours"}, Unregister(Top.sig)
    PROVE  SigintInv'
<1> DEFINE R == Only(Below, SigintFrame)  n == Len(R)
           C == [i \in DOMAIN R |-> R[i].loop]
<1>1. R \in Seq(RunFrame) /\ DOMAIN R = 1 .. n /\ n \in Nat /\ (R = <<>> <=> n = 0)
  BY RegisteredType
<1>2. Registered' = R /\ Callbacks' = C
  BY DEF Registered, Callbacks
<1>3. Registered = IF Top.sig = "none" THEN R ELSE Append(R, Top)
  BY RegisteredAppend DEF Registered
<1>4. Top.sig \in {"base", "inner", "none"} /\ Top.loop \in Loop
  BY DEF RunFrame
<1>5. C \in Seq(Loop) /\ Len(C) = n /\ DOMAIN C = 1 .. n /\ (C = <<>> <=> n = 0)
  BY <1>1, LoopsType
<1> HIDE DEF R, C, n
<1>6. CASE Top.sig = "none"
  <2>1. UNCHANGED svars /\ Registered' = Registered
    BY <1>2, <1>3, <1>6 DEF Unregister, svars
  <2>2. Callbacks' = Callbacks /\ BaseFirst' /\ SigintInOrder'
    BY <2>1 DEF Callbacks, BaseFirst, SigintInOrder, SigintInv, svars
  <2> QED
    BY <2>2 DEF SigintInv
<1>7. CASE Top.sig # "none"
  <2>1. Registered = Append(R, Top)
    BY <1>3, <1>7
  <2>2. /\ DOMAIN Registered = 1 .. n + 1 /\ Registered # <<>> /\ n + 1 \in 1 .. n + 1
        /\ Registered[n + 1] = Top /\ \A i \in 1 .. n : i \in 1 .. n + 1 /\ Registered[i] = R[i]
    BY <1>1, <2>1, AppendElements DEF n
  <2>3. Callbacks = Append(C, Top.loop)
    BY <1>1, <2>1, LoopsAppend DEF Callbacks, C
  <2>4. /\ DOMAIN Callbacks = 1 .. n + 1 /\ Len(Callbacks) = n + 1 /\ Callbacks # <<>>
        /\ Callbacks \in Seq(Loop) /\ Front(Callbacks) = C
    BY <1>4, <1>5, <2>3, AppendElements, FrontOfAppend
  <2>5. handler = "ours"
    BY <2>2 DEF SigintInv, SigintInOrder
  <2>6. BaseFirst'
    BY <1>1, <1>2, <2>2 DEF SigintInv, BaseFirst
  <2>7. Top.sig = IF n = 0 THEN "base" ELSE "inner"
    <3>1. n + 1 = 1 <=> n = 0
      BY <1>1
    <3> QED
      BY <2>2, <3>1 DEF SigintInv, BaseFirst
  <2>8. ASSUME sigint_called
        PROVE  \E i \in 1 .. n + 1 : /\ callback_stack = RemoveAt(Callbacks, i)
                                     /\ \A j \in 1 .. n + 1 : j > i => Registered[j].after
    BY <2>2, <2>4, <2>5, <2>8 DEF SigintInv, SigintInOrder
  <2>9. ~sigint_called => callback_stack = Callbacks
    BY <2>5 DEF SigintInv, SigintInOrder
  <2>10. CASE n = 0
    <3>1. handler' = "default"
      BY <2>5, <2>7, <2>10 DEF Unregister
    <3>2. callback_stack' = C
      <4>1. CASE ~sigint_called
        BY <2>4, <2>7, <2>9, <2>10, <4>1 DEF Unregister
      <4>2. CASE sigint_called
        <5>1. PICK i \in 1 .. n + 1 : callback_stack = RemoveAt(Callbacks, i)
          BY <2>8, <4>2
        <5>2. i = Len(Callbacks)
          BY <2>4, <2>10, <5>1
        <5>3. callback_stack = C
          BY <2>4, <5>1, <5>2, RemoveLast
        <5> QED
          BY <2>7, <2>10, <4>2, <5>3 DEF Unregister
      <4> QED
        BY <4>1, <4>2
    <3>3. SigintInOrder'
      BY <1>1, <1>2, <2>10, <3>1, <3>2 DEF SigintInOrder
    <3> QED
      BY <2>6, <3>3 DEF SigintInv
  <2>11. CASE n # 0
    <3>1. handler' = "ours" /\ callback_stack' = Front(callback_stack) /\ UNCHANGED sigint_called
      BY <2>5, <2>7, <2>11 DEF Unregister
    <3>2. CASE ~sigint_called
      <4>1. callback_stack' = C
        BY <2>4, <2>9, <3>1, <3>2
      <4> QED
        BY <1>1, <1>2, <2>6, <2>11, <3>1, <3>2, <4>1 DEF SigintInv, SigintInOrder
    <3>3. CASE sigint_called
      <4>1. PICK i \in 1 .. n + 1 : /\ callback_stack = RemoveAt(Callbacks, i)
                                    /\ \A j \in 1 .. n + 1 : j > i => Registered[j].after
        BY <2>8, <3>3
      <4>2. SUFFICES \E k \in 1 .. n : /\ callback_stack' = RemoveAt(C, k)
                                       /\ \A j \in 1 .. n : j > k => R[j].after
        BY <1>1, <1>2, <1>5, <2>6, <2>11, <3>1, <3>3 DEF SigintInv, SigintInOrder
      <4>3. CASE i = n + 1
        <5>1. callback_stack = C
          BY <2>4, <4>1, <4>3, RemoveLast
        <5>2. callback_stack' = RemoveAt(C, n) /\ n \in 1 .. n /\ \A j \in 1 .. n : ~(j > n)
          BY <1>1, <1>5, <2>11, <3>1, <5>1, RemoveLast
        <5> QED
          BY <5>2
      <4>4. CASE i # n + 1
        <5>1. i \in 1 .. n
          BY <1>1, <4>4
        <5>2. RemoveAt(Callbacks, i) = Append(RemoveAt(C, i), Top.loop)
          BY <1>4, <1>5, <2>3, <5>1, RemoveAppend
        <5>3. RemoveAt(C, i) \in Seq(Loop)
          BY <1>5, <5>1, RemoveAtElements
        <5>4. callback_stack' = RemoveAt(C, i)
          BY <1>4, <3>1, <4>1, <5>2, <5>3, FrontOfAppend
        <5> QED
          BY <2>2, <4>1, <5>1, <5>4
      <4> QED
        BY <4>3, <4>4
    <3> QED
      BY <3>2, <3>3
  <2> QED
    BY <2>10, <2>11
<1> QED
  BY <1>6, <1>7

(***************************************************************************)
(* The shape of the stack.                                                 *)
(***************************************************************************)
NoBlock == \A i \in 1 .. Len(stack) : ~Blocks(stack[i])
FlagsInv ==
    /\ may_iterate <=> running /\ NoBlock /\ "select" \notin removed
    /\ attached <=> may_iterate \/ Active("select")
    /\ running <=> idle_source # NoSource
    /\ running /\ idle_tasks # <<>> /\ ~Active("idle") /\ "idle" \notin removed
        => idle_source = Head(idle_tasks)[1]
Parts == TypeOK /\ StackShaped /\ FlagsInv /\ HandlesThere /\ OrderInv /\ SigintInv

LEMMA BlocksKind ==
    ASSUME NEW f
    PROVE  /\ Blocks(f) => f.kind \in {"select", "idle", "iterate"}
           /\ f.kind \in {"select", "idle"} => Blocks(f)
           /\ f.kind = "iterate" => (Blocks(f) <=> f.paused)
BY DEF Blocks

LEMMA NoBlockIs ==
    ASSUME TypeOK
    PROVE  NoBlock <=> AsyncioFrames = {} /\ ~Paused
<1>1. DOMAIN stack = 1 .. Len(stack)
  BY StackFacts
<1> QED
  BY <1>1 DEF NoBlock, AsyncioFrames, Paused, Blocks

LEMMA AtMostOne ==
    ASSUME TypeOK, StackShaped
    PROVE  NeverRecursive
<1>1. \A i, j \in AsyncioFrames : i = j
  BY DEF AsyncioFrames, StackShaped, Blocks
<1>2. CASE AsyncioFrames = {}
  BY <1>2, FS_EmptySet DEF NeverRecursive
<1>3. CASE AsyncioFrames # {}
  <2>1. PICK i : AsyncioFrames = {i}
    BY <1>1, <1>3
  <2>2. Cardinality({i}) = 1
    BY FS_Singleton
  <2> QED
    BY <2>1, <2>2 DEF NeverRecursive
<1> QED
  BY <1>2, <1>3

LEMMA InvariantParts == Parts <=> IInv
<1>1. ASSUME TypeOK PROVE FlagsTrue <=> FlagsInv /\ QuitFuncsAgree
  BY <1>1, NoBlockIs DEF FlagsTrue, FlagsInv, QuitFuncsAgree
<1> QED
  BY <1>1, AtMostOne DEF Parts, IInv, LoopConsistent, OrderInv, SigintInv

LEMMA ShapeGrown ==
    ASSUME TypeOK, StackShaped, NEW f \in Frame, NEW g \in Frame, Grown(f, g),
           f.kind = Top.kind, Blocks(f) <=> Blocks(Top),
           f.kind = "run" => f.begun, f.kind = "idle" => f.paused, g.kind = "idle" => g.paused,
           g.kind \in {"run", "iterate"} => Len(stack) <= MaxDepth,
           g.kind \in {"select", "idle"} => Len(stack) <= MaxDepth + 1,
           g.kind = "run" => (g.late <=> stopping'),
           Blocks(g) => NoBlock /\ "select" \notin removed /\ Levels # <<>>,
           removed' = removed, running => running'
    PROVE  /\ StackShaped'
           /\ NoBlock' <=> NoBlock /\ ~Blocks(g)
           /\ \A k : Active(k)' <=> Active(k) \/ g.kind = k
<1> DEFINE n == Len(stack)
<1>1. /\ n \in Nat /\ n >= 1 /\ DOMAIN stack = 1 .. n /\ stack[n] = Top /\ MaxDepth \in Nat
      /\ Len(stack') = n + 1 /\ DOMAIN stack' = 1 .. n + 1
      /\ stack'[n] = f /\ stack'[n + 1] = g /\ \A i \in 1 .. n - 1 : stack'[i] = stack[i]
  <2>1. stack' \in Seq(Frame) /\ Len(stack') = Len(stack) + 1
    BY DEF Grown
  <2>2. DOMAIN stack' = 1 .. Len(stack')
    BY <2>1
  <2> QED
    BY <2>1, <2>2, StackFacts, EventLoopAssumption DEF Grown, EventLoopAssumption
<1>2. Levels # <<>> <=> \E i \in 1 .. n : stack[i].kind = "run"
  BY LevelsFacts
<1> HIDE DEF n
<1>3. /\ \A i \in 1 .. n + 1 : i \in 1 .. n \/ i = n + 1
      /\ \A i \in 1 .. n : i \in 1 .. n + 1 /\ i # n + 1 /\ (i \in 1 .. n - 1 \/ i = n)
      /\ n \in 1 .. n /\ n + 1 \in 1 .. n + 1 /\ (n + 1) - 1 = n
      /\ \A i \in 1 .. n - 1 : i \in 1 .. n /\ i # n
  BY <1>1
<1>4. \A i \in 1 .. n : /\ stack'[i].kind = stack[i].kind
                        /\ Blocks(stack'[i]) <=> Blocks(stack[i])
  BY <1>1, <1>3
<1>5. NoBlock' <=> NoBlock /\ ~Blocks(g)
  BY <1>1, <1>3, <1>4 DEF NoBlock, n
<1>6. \A k : Active(k)' <=> Active(k) \/ g.kind = k
  BY <1>1, <1>3, <1>4 DEF Active
<1>s. \A i \in 1 .. n :
          /\ stack[i].kind \in {"run", "iterate"} => i <= MaxDepth + 1
          /\ stack[i].kind \in {"select", "idle"} => i <= MaxDepth + 2
          /\ stack[i].kind = "run" /\ ~stack[i].begun => i = n
          /\ stack[i].kind = "idle" => stack[i].paused
          /\ Blocks(stack[i]) => /\ "select" \notin removed
                                 /\ \E j \in 1 .. i - 1 : stack[j].kind = "run"
  BY <1>1 DEF StackShaped, n
<1>7. ASSUME NEW i \in 1 .. n + 1
      PROVE  /\ stack'[i].kind \in {"run", "iterate"} => i <= MaxDepth + 1
             /\ stack'[i].kind \in {"select", "idle"} => i <= MaxDepth + 2
             /\ stack'[i].kind = "run" /\ ~stack'[i].begun
                  => i = n + 1 /\ (stack'[i].late <=> stopping')
             /\ stack'[i].kind = "idle" => stack'[i].paused
             /\ Blocks(stack'[i]) => /\ "select" \notin removed'
                                     /\ \E j \in 1 .. i - 1 : stack'[j].kind = "run"
  <2>1. CASE i = n + 1
    <3>1. g.kind \in {"run", "iterate"} => n + 1 <= MaxDepth + 1
      BY <1>1 DEF n
    <3>2. g.kind \in {"select", "idle"} => n + 1 <= MaxDepth + 2
      BY <1>1 DEF n
    <3>3. Blocks(g) => \E j \in 1 .. n : stack'[j].kind = "run"
      BY <1>2, <1>4
    <3> QED
      BY <1>1, <1>3, <2>1, <3>1, <3>2, <3>3
  <2>2. CASE i = n
    <3>1. \A j \in 1 .. n - 1 : stack'[j].kind = stack[j].kind
      BY <1>3, <1>4
    <3> QED
      BY <1>1, <1>3, <1>4, <1>s, <2>2, <3>1
  <2>3. CASE i \in 1 .. n - 1
    <3>1. stack'[i] = stack[i] /\ i \in 1 .. n /\ i # n
      BY <1>1, <1>3, <2>3
    <3>2. \A j \in 1 .. i - 1 : j \in 1 .. n
      BY <1>1, <2>3
    <3> QED
      BY <1>4, <1>s, <3>1, <3>2
  <2> QED
    BY <1>3, <2>1, <2>2, <2>3
<1>8. ASSUME NEW i \in 1 .. n + 1, NEW j \in 1 .. n + 1, Blocks(stack'[i]), Blocks(stack'[j])
      PROVE  i = j
  <2>1. \A k \in 1 .. n, l \in 1 .. n : Blocks(stack[k]) /\ Blocks(stack[l]) => k = l
    BY <1>1 DEF StackShaped
  <2>2. Blocks(g) => \A k \in 1 .. n : ~Blocks(stack[k])
    BY DEF NoBlock, n
  <2> QED
    BY <1>1, <1>3, <1>4, <1>8, <2>1, <2>2
<1>9. stack'[1].kind = "code" /\ (~running' => removed' = {})
  <2>1. 1 \in 1 .. n /\ stack[1].kind = "code" /\ (~running => removed = {})
    BY <1>1 DEF StackShaped
  <2> QED
    BY <1>4, <2>1
<1>10. StackShaped'
  BY <1>1, <1>7, <1>8, <1>9 DEF StackShaped
<1> QED
  BY <1>5, <1>6, <1>10

LEMMA ShapeChanged ==
    ASSUME TypeOK, StackShaped, NEW f \in Frame, Changed(f),
           f.kind = Top.kind, Blocks(f) <=> Blocks(Top),
           f.kind = "run" => f.begun, f.kind = "idle" => f.paused,
           removed' = removed, running' = running
    PROVE  /\ StackShaped'
           /\ NoBlock' <=> NoBlock
           /\ \A k : Active(k)' <=> Active(k)
<1> DEFINE n == Len(stack)
<1>1. /\ n \in Nat /\ n >= 1 /\ DOMAIN stack = 1 .. n /\ stack[n] = Top
      /\ Len(stack') = n /\ DOMAIN stack' = 1 .. n
      /\ stack'[n] = f /\ \A i \in 1 .. n - 1 : stack'[i] = stack[i]
  BY StackFacts DEF Changed
<1>3. /\ \A i \in 1 .. n : i \in 1 .. n - 1 \/ i = n
      /\ n \in 1 .. n /\ 1 \in 1 .. n
      /\ \A i \in 1 .. n - 1 : i \in 1 .. n /\ i # n
      /\ \A i \in 1 .. n : \A j \in 1 .. i - 1 : j \in 1 .. n
  <2> HIDE DEF n
  <2> QED
    BY <1>1
<1>4. \A i \in 1 .. n : /\ stack'[i].kind = stack[i].kind
                        /\ Blocks(stack'[i]) <=> Blocks(stack[i])
  <2> HIDE DEF n
  <2> QED
    BY <1>1, <1>3
<1>5. NoBlock' <=> NoBlock
  BY <1>1, <1>4 DEF NoBlock
<1>s. /\ \A i \in 1 .. n :
            /\ stack[i].kind \in {"run", "iterate"} => i <= MaxDepth + 1
            /\ stack[i].kind \in {"select", "idle"} => i <= MaxDepth + 2
            /\ stack[i].kind = "run" /\ ~stack[i].begun => i = n
            /\ stack[i].kind = "idle" => stack[i].paused
            /\ Blocks(stack[i]) => /\ "select" \notin removed
                                   /\ \E j \in 1 .. i - 1 : stack[j].kind = "run"
      /\ \A i, j \in 1 .. n : Blocks(stack[i]) /\ Blocks(stack[j]) => i = j
      /\ stack[1].kind = "code" /\ (~running => removed = {})
  BY <1>1 DEF StackShaped
<1> HIDE DEF n
<1>6. \A k : Active(k)' <=> Active(k)
  BY <1>1, <1>4 DEF Active
<1>7. ASSUME NEW i \in 1 .. n
      PROVE  /\ stack'[i].kind \in {"run", "iterate"} => i <= MaxDepth + 1
             /\ stack'[i].kind \in {"select", "idle"} => i <= MaxDepth + 2
             /\ stack'[i].kind = "run" => stack'[i].begun
             /\ stack'[i].kind = "idle" => stack'[i].paused
             /\ Blocks(stack'[i]) => /\ "select" \notin removed'
                                     /\ \E j \in 1 .. i - 1 : stack'[j].kind = "run"
  BY <1>1, <1>3, <1>4, <1>s
<1>8. \A i, j \in 1 .. n : Blocks(stack'[i]) /\ Blocks(stack'[j]) => i = j
  BY <1>4, <1>s
<1>9. stack'[1].kind = "code" /\ (~running' => removed' = {})
  BY <1>3, <1>4, <1>s
<1>10. StackShaped'
  BY <1>1, <1>7, <1>8, <1>9 DEF StackShaped
<1> QED
  BY <1>5, <1>6, <1>10

LEMMA ShapePopped ==
    ASSUME TypeOK, StackShaped, Popped, Top.kind # "code" \/ Len(stack) > 1,
           Top.kind = "run" => Top.begun,
           removed' \subseteq removed, ~running' => removed' = {}
    PROVE  /\ StackShaped' /\ Len(stack) > 1
           /\ Blocks(Top) => NoBlock'
           /\ ~Blocks(Top) => (NoBlock' <=> NoBlock)
           /\ \A k : Top.kind # k => (Active(k)' <=> Active(k))
           /\ \A k \in {"select", "idle"} : Blocks(Top) => ~Active(k)'
<1> DEFINE n == Len(stack)
<1>1. /\ n \in Nat /\ n >= 1 /\ DOMAIN stack = 1 .. n /\ stack[n] = Top
      /\ Len(stack') = n - 1 /\ DOMAIN stack' = 1 .. n - 1
      /\ \A i \in 1 .. n - 1 : stack'[i] = stack[i]
  BY StackFacts DEF Popped
<1>s. /\ \A i \in 1 .. n :
            /\ stack[i].kind \in {"run", "iterate"} => i <= MaxDepth + 1
            /\ stack[i].kind \in {"select", "idle"} => i <= MaxDepth + 2
            /\ stack[i].kind = "run" /\ ~stack[i].begun => i = n
            /\ stack[i].kind = "idle" => stack[i].paused
            /\ Blocks(stack[i]) => /\ "select" \notin removed
                                   /\ \E j \in 1 .. i - 1 : stack[j].kind = "run"
      /\ \A i, j \in 1 .. n : Blocks(stack[i]) /\ Blocks(stack[j]) => i = j
      /\ stack[1].kind = "code"
  BY <1>1 DEF StackShaped
<1> HIDE DEF n
<1>2. n > 1
  <2>1. CASE Top.kind # "code"
    <3>1. n # 1
      BY <1>1, <1>s, <2>1
    <3> QED
      BY <1>1, <3>1
  <2>2. CASE Len(stack) > 1
    BY <2>2 DEF n
  <2> QED
    BY <2>1, <2>2
<1>3. /\ \A i \in 1 .. n : i \in 1 .. n - 1 \/ i = n
      /\ n \in 1 .. n /\ 1 \in 1 .. n - 1
      /\ \A i \in 1 .. n - 1 : i \in 1 .. n /\ i # n
      /\ \A i \in 1 .. n - 1 : \A j \in 1 .. i - 1 : j \in 1 .. n - 1
  BY <1>1, <1>2
<1>5. NoBlock' <=> \A i \in 1 .. n - 1 : ~Blocks(stack[i])
  BY <1>1, <1>3 DEF NoBlock
<1>6. Active("select")' => \E i \in 1 .. n - 1 : Blocks(stack[i])
  BY <1>1, <1>3, BlocksKind DEF Active
<1>i. Active("idle")' => \E i \in 1 .. n - 1 : Blocks(stack[i])
  BY <1>1, <1>3, BlocksKind DEF Active
<1>7. Blocks(Top) => \A i \in 1 .. n - 1 : ~Blocks(stack[i])
  BY <1>1, <1>3, <1>s
<1>8. NoBlock <=> \A i \in 1 .. n : ~Blocks(stack[i])
  BY DEF NoBlock, n
<1>9. ~Blocks(Top) => (NoBlock' <=> NoBlock)
  BY <1>1, <1>3, <1>5, <1>8
<1>10. \A k : Top.kind # k => (Active(k)' <=> Active(k))
  BY <1>1, <1>3 DEF Active
<1>11. StackShaped'
  <2>1. \A i, j \in 1 .. n - 1 : Blocks(stack'[i]) /\ Blocks(stack'[j]) => i = j
    BY <1>1, <1>3, <1>s
  <2>2. ASSUME NEW i \in 1 .. n - 1
        PROVE  /\ stack'[i].kind \in {"run", "iterate"} => i <= MaxDepth + 1
               /\ stack'[i].kind \in {"select", "idle"} => i <= MaxDepth + 2
               /\ stack'[i].kind = "run" => stack'[i].begun
               /\ stack'[i].kind = "idle" => stack'[i].paused
               /\ Blocks(stack'[i]) => /\ "select" \notin removed'
                                       /\ \E j \in 1 .. i - 1 : stack'[j].kind = "run"
    BY <1>1, <1>3, <1>s
  <2>3. stack'[1].kind = "code"
    BY <1>1, <1>3, <1>s
  <2> QED
    BY <1>1, <2>1, <2>2, <2>3 DEF StackShaped
<1> QED
  BY <1>2, <1>5, <1>6, <1>i, <1>7, <1>9, <1>10, <1>11 DEF n

LEMMA FrontFront ==
    ASSUME NEW E, NEW s \in Seq(E), Len(s) >= 2
    PROVE  /\ SubSeq(s, 1, Len(s) - 2) = Front(Front(s))
           /\ Front(Front(s)) \in Seq(E) /\ Len(Front(Front(s))) = Len(s) - 2
           /\ \A i \in 1 .. Len(s) - 2 : Front(Front(s))[i] = s[i]
<1> DEFINE n == Len(s)  f == Front(s)  m == Len(s) - 2  u == SubSeq(s, 1, m)
<1>1. n \in Nat /\ n >= 2 /\ m \in Nat /\ m = n - 2
  OBVIOUS
<1>2. f \in Seq(E) /\ Len(f) = n - 1 /\ \A i \in 1 .. n - 1 : f[i] = s[i]
  BY <1>1, FrontAppend
<1> HIDE DEF f
<1>3. Front(f) \in Seq(E) /\ Len(Front(f)) = m /\ \A i \in 1 .. m : Front(f)[i] = s[i]
  <2>1. f # <<>> /\ Len(f) - 1 = m /\ \A i \in 1 .. m : i \in 1 .. n - 1
    BY <1>1, <1>2
  <2> HIDE DEF n, m
  <2>2. Front(f) \in Seq(E) /\ Len(Front(f)) = m /\ \A i \in 1 .. m : Front(f)[i] = f[i]
    BY <1>2, <2>1, FrontAppend
  <2> QED
    BY <1>2, <2>1, <2>2
<1>4. u \in Seq(E) /\ Len(u) = m /\ \A i \in 1 .. m : u[i] = s[i]
  <2>0. \A i \in 1 .. m : i \in 1 .. Len(s)
    OBVIOUS
  <2>1. 1 \in Int /\ m \in Int /\ \A i \in 1 .. m : s[i] \in E
    BY <1>1, <2>0, ElementOfSeq
  <2>a. m \in Nat
    BY <1>1
  <2> HIDE DEF m
  <2>2. m - 1 + 1 = m /\ (~(1 <= m) => m = 0)
    BY <2>a
  <2>3. /\ SubSeq(s, 1, m) \in Seq(E)
        /\ Len(SubSeq(s, 1, m)) = IF 1 <= m THEN m - 1 + 1 ELSE 0
        /\ \A i \in 1 .. m - 1 + 1 : SubSeq(s, 1, m)[i] = s[1 + i - 1]
    BY <2>1, SubSeqProperties
  <2> QED
    BY <1>1, <2>2, <2>3
<1> HIDE DEF u, m, n
<1>5. u = Front(f)
  BY <1>3, <1>4, SeqEqual
<1> QED
  BY <1>3, <1>5 DEF u, f, m, n

LEMMA ShapeRaised ==
    ASSUME TypeOK, StackShaped, Len(stack) > 1, Top.kind = "code",
           stack[Len(stack) - 1].kind \in {"select", "idle"},
           running <=> Levels # <<>>, running' = running,
           stack' = SubSeq(stack, 1, Len(stack) - 2),
           removed' = removed \cup {stack[Len(stack) - 1].kind}
    PROVE  /\ StackShaped' /\ NoBlock' /\ ~Active("select")' /\ ~Active("idle")'
           /\ stack' = Front(Front(stack)) /\ stack' \in Seq(Frame) /\ Len(stack) > 2
           /\ Len(stack') = Len(stack) - 2
           /\ Levels # <<>> /\ "select" \notin removed /\ ~NoBlock
           /\ stack[Len(stack) - 1] \in Frame
           /\ stack[Len(stack) - 1].kind = "idle" => stack[Len(stack) - 1].paused
           /\ \A k \in {"select", "idle"} : Active(k) <=> k = stack[Len(stack) - 1].kind
<1> DEFINE n == Len(stack)
<1>1. /\ n \in Nat /\ n >= 2 /\ DOMAIN stack = 1 .. n /\ stack[n] = Top /\ stack \in Seq(Frame)
      /\ n - 1 \in 1 .. n /\ n - 1 # n /\ (n - 1) - 1 = n - 2 /\ n - 2 \in Nat
  <2>1. /\ n \in Nat /\ n >= 2 /\ DOMAIN stack = 1 .. n /\ stack[n] = Top
        /\ stack \in Seq(Frame)
    BY StackFacts
  <2> HIDE DEF n
  <2> QED
    BY <2>1
<1>2. /\ stack' = Front(Front(stack)) /\ stack' \in Seq(Frame) /\ Len(stack') = n - 2
      /\ \A i \in 1 .. n - 2 : stack'[i] = stack[i]
  BY <1>1, FrontFront
<1>a. DOMAIN stack' = 1 .. n - 2
  <2> HIDE DEF n
  <2> QED
    BY <1>1, <1>2
<1>s. /\ \A i \in 1 .. n :
            /\ stack[i].kind \in {"run", "iterate"} => i <= MaxDepth + 1
            /\ stack[i].kind \in {"select", "idle"} => i <= MaxDepth + 2
            /\ stack[i].kind = "run" /\ ~stack[i].begun => i = n
            /\ stack[i].kind = "idle" => stack[i].paused
            /\ Blocks(stack[i]) => /\ "select" \notin removed
                                   /\ \E j \in 1 .. i - 1 : stack[j].kind = "run"
      /\ \A i, j \in 1 .. n : Blocks(stack[i]) /\ Blocks(stack[j]) => i = j
      /\ stack[1].kind = "code" /\ (~running => removed = {})
  BY <1>1 DEF StackShaped
<1>r. Levels # <<>> <=> \E i \in 1 .. n : stack[i].kind = "run"
  BY LevelsFacts
<1>k. stack[n - 1].kind \in {"select", "idle"}
  OBVIOUS
<1>n. NoBlock <=> \A i \in 1 .. n : ~Blocks(stack[i])
  BY DEF NoBlock
<1> HIDE DEF n
<1>3. Blocks(stack[n - 1])
  BY <1>k, BlocksKind
<1>4. n > 2
  <2>1. n # 2
    <3>1. n = 2 => n - 1 = 1
      BY <1>1
    <3> QED
      BY <1>s, <1>k, <3>1
  <2> QED
    BY <1>1, <2>1
<1>5. /\ \A i \in 1 .. n - 2 : i \in 1 .. n /\ i # n /\ i # n - 1 /\ \A j \in 1 .. i - 1 : j \in 1 .. n - 2
      /\ \A i \in 1 .. n - 2 : i \in 1 .. n
      /\ 1 \in 1 .. n - 2
  BY <1>1, <1>4
<1>6. \A i \in 1 .. n - 2 : ~Blocks(stack'[i])
  BY <1>1, <1>2, <1>3, <1>5, <1>s
<1>7. NoBlock'
  BY <1>2, <1>6 DEF NoBlock
<1>8. ~Active("select")' /\ ~Active("idle")'
  BY <1>a, <1>6, BlocksKind DEF Active
<1>9. Levels # <<>> /\ "select" \notin removed /\ ~NoBlock
  <2>1. \E j \in 1 .. n - 2 : stack[j].kind = "run"
    BY <1>1, <1>3, <1>s
  <2> QED
    BY <1>1, <1>3, <1>5, <1>r, <1>s, <1>n, <2>1
<1>10. running
  BY <1>9
<1>11. StackShaped'
  BY <1>2, <1>a, <1>5, <1>6, <1>10, <1>s DEF StackShaped
<1>12. \A k \in {"select", "idle"} : Active(k) <=> k = stack[n - 1].kind
  BY <1>1, <1>3, <1>k, <1>s, BlocksKind DEF Active
<1>13. stack[n - 1] \in Frame /\ (stack[n - 1].kind = "idle" => stack[n - 1].paused)
  BY <1>1, <1>s
<1> QED
  BY <1>2, <1>4, <1>7, <1>8, <1>9, <1>11, <1>12, <1>13 DEF n

(***************************************************************************)
(* What every step uses.                                                   *)
(***************************************************************************)
LEMMA FramesTyped ==
    /\ Code \in Frame /\ Code.kind = "code" /\ ~Code.called
    /\ \A f \in Frame, b \in BOOLEAN :
          f.kind = "code" => /\ [f EXCEPT !.called = b] \in Frame
                             /\ [f EXCEPT !.called = b].kind = "code"
    /\ \A f \in RunFrame : f \in Frame /\ f.kind = "run" /\ f.loop \in Loop /\ f.outer \in BOOLEAN
                           /\ f.sig \in {"base", "inner", "none"}
<1>1. /\ Code \in [kind : {"code"}, called : BOOLEAN] /\ Code.kind = "code" /\ ~Code.called
  BY DEF Code
<1>2. \A f \in [kind : {"code"}, called : BOOLEAN], b \in BOOLEAN :
         /\ [f EXCEPT !.called = b] \in [kind : {"code"}, called : BOOLEAN]
         /\ [f EXCEPT !.called = b].kind = "code"
  OBVIOUS
<1>3. \A f \in Frame : f.kind = "code" => f \in [kind : {"code"}, called : BOOLEAN]
  BY FrameKinds
<1>4. [kind : {"code"}, called : BOOLEAN] \subseteq Frame /\ RunFrame \subseteq Frame
  BY DEF Frame
<1>5. \A f \in RunFrame : f.kind = "run" /\ f.loop \in Loop /\ f.outer \in BOOLEAN
                          /\ f.sig \in {"base", "inner", "none"}
  BY DEF RunFrame
<1> QED
  BY <1>1, <1>2, <1>3, <1>4, <1>5

LEMMA DispatchedTyped ==
    ASSUME TypeOK, Iterating
    PROVE  /\ Dispatched \in Frame /\ Dispatched.kind = Top.kind
           /\ Top.kind \in {"run", "iterate"}
           /\ Blocks(Dispatched) <=> Blocks(Top)
           /\ Top.kind = "run" => Dispatched.begun /\ Alike(Top, Dispatched)
<1>1. Top \in Frame
  BY StackFacts
<1>2. CASE Top.kind = "iterate"
  <2>1. Top \in [kind : {"iterate"}, paused : BOOLEAN, dispatched : BOOLEAN]
    BY <1>1, <1>2, FrameKinds
  <2>2. /\ Dispatched \in [kind : {"iterate"}, paused : BOOLEAN, dispatched : BOOLEAN]
        /\ Dispatched.kind = "iterate" /\ Dispatched.paused = Top.paused
    BY <1>2, <2>1 DEF Dispatched
  <2> QED
    BY <1>2, <2>2, BlocksKind DEF Frame
<1>3. CASE Top.kind # "iterate"
  <2>1. Top.kind = "run" /\ Top.begun
    BY <1>3 DEF Iterating
  <2>2. Top \in RunFrame
    BY <1>1, <2>1, FrameKinds
  <2>3. (Top.loop \in looping) \in BOOLEAN
    OBVIOUS
  <2>4. Dispatched = [Top EXCEPT !.batch = Top.loop \in looping]
    BY <1>3 DEF Dispatched
  <2>5. /\ Dispatched \in RunFrame /\ Dispatched.kind = "run"
        /\ Dispatched.begun = Top.begun /\ Alike(Top, Dispatched)
    BY <2>2, <2>3, <2>4 DEF RunFrame, Alike
  <2> QED
    BY <2>1, <2>5, BlocksKind DEF Frame
<1> QED
  BY <1>2, <1>3

LEMMA LevelsUntouched ==
    ASSUME Parts, stack' \in Seq(Frame),
           \/ UNCHANGED stack
           \/ \E f, g \in Frame : /\ Grown(f, g) /\ f.kind = Top.kind /\ g.kind # "run"
                                  /\ f.kind = "run" => Alike(Top, f)
           \/ \E f \in Frame : /\ Changed(f) /\ f.kind = Top.kind
                               /\ f.kind = "run" => Alike(Top, f)
           \/ Popped /\ Top.kind # "run"
           \/ /\ Top.kind # "run" /\ Len(stack) >= 2 /\ stack[Len(stack) - 1].kind # "run"
              /\ stack' = Front(Front(stack)),
           UNCHANGED <<svars, running, stopping, quit_funcs>>, looping' \subseteq looping
    PROVE  OrderInv' /\ SigintInv'
<1>1. /\ Levels \in Seq(RunFrame) /\ Registered \in Seq(SigintFrame)
      /\ Levels' \in Seq(RunFrame) /\ Registered' \in Seq(SigintFrame)
  <2>1. Levels' \in Seq(RunFrame)
    BY OnlyType DEF Levels
  <2>2. Registered' \in Seq(SigintFrame)
    BY <2>1, OnlyType DEF Registered
  <2> QED
    BY <2>1, <2>2, LevelsFacts DEF Parts
<1>2. AlikeSeq(Levels, Levels') /\ AlikeSeq(Registered, Registered')
  BY LevelsAlike DEF Parts
<1>3. OrderInv'
  BY <1>1, <1>2, OrderKept DEF Parts
<1>4. SigintInv'
  BY <1>1, <1>2, SigintKept DEF Parts
<1> QED
  BY <1>3, <1>4

\* Without a change of the stack.
LEMMA StackUntouched ==
    ASSUME Parts, UNCHANGED <<stack, removed, running, stopping>>
    PROVE  /\ StackShaped'
           /\ NoBlock' <=> NoBlock
           /\ \A k : Active(k)' <=> Active(k)
BY DEF Parts, StackShaped, NoBlock, Active, Blocks

LEMMA PartsFacts ==
    ASSUME Parts
    PROVE  /\ TypeOK /\ StackShaped /\ (running <=> Levels # <<>>)
           /\ Len(stack) \in Nat /\ Len(stack) >= 1 /\ MaxDepth \in Nat
           /\ Len(stack) <= MaxDepth + 3 /\ Top \in Frame /\ stack[Len(stack)] = Top
           /\ Top.kind \in {"run", "iterate"} => Len(stack) <= MaxDepth + 1
           /\ Top.kind \in {"select", "idle"} => Len(stack) <= MaxDepth + 2
           /\ Top.kind = "idle" => Top.paused
           /\ \A i \in 1 .. Len(stack) : stack[i].kind = "run" /\ ~stack[i].begun => i = Len(stack)
           /\ Top.kind = "run" /\ ~Top.begun => (Top.late <=> stopping)
           /\ Blocks(Top) => "select" \notin removed /\ ~NoBlock /\ running
<1>1. /\ TypeOK /\ StackShaped /\ (running <=> Levels # <<>>) /\ MaxDepth \in Nat
      /\ Len(stack) <= MaxDepth + 3
  BY EventLoopAssumption DEF Parts, OrderInv, LevelsOrdered, TypeOK, EventLoopAssumption
<1>2. /\ Len(stack) \in Nat /\ Len(stack) >= 1 /\ DOMAIN stack = 1 .. Len(stack)
      /\ Top \in Frame /\ stack[Len(stack)] = Top
  BY <1>1, StackFacts
<1>3. Len(stack) \in 1 .. Len(stack) /\ \A j \in 1 .. Len(stack) - 1 : j \in 1 .. Len(stack)
  BY <1>2
<1>4. Levels # <<>> <=> \E i \in 1 .. Len(stack) : stack[i].kind = "run"
  BY <1>1, LevelsFacts
<1>5. /\ Top.kind \in {"run", "iterate"} => Len(stack) <= MaxDepth + 1
      /\ Top.kind \in {"select", "idle"} => Len(stack) <= MaxDepth + 2
      /\ Top.kind = "idle" => Top.paused
      /\ Top.kind = "run" /\ ~Top.begun => (Top.late <=> stopping)
      /\ Blocks(Top) => /\ "select" \notin removed
                        /\ \E j \in 1 .. Len(stack) - 1 : stack[j].kind = "run"
  BY <1>1, <1>2, <1>3 DEF StackShaped
<1>6. Blocks(Top) => ~NoBlock /\ running
  BY <1>1, <1>2, <1>3, <1>4, <1>5 DEF NoBlock
<1>7. \A i \in 1 .. Len(stack) : stack[i].kind = "run" /\ ~stack[i].begun => i = Len(stack)
  BY <1>1, <1>2 DEF StackShaped
<1> QED
  BY <1>1, <1>2, <1>5, <1>6, <1>7

\* The types of everything but the stack and the quit functions.
DataTyped ==
    /\ ready \in Seq(Handle) /\ idle_tasks \in Seq(Prio \X Handle)
    /\ idle_source \in Prio \cup {0, NoSource}
    /\ removed \subseteq {"select", "idle"} /\ looping \subseteq Loop
    /\ status \in [Handle -> Status]
    /\ callback_stack \in Seq(Loop) /\ handler \in {"default", "ours"}
FlagsTyped ==
    /\ may_iterate \in BOOLEAN /\ attached \in BOOLEAN /\ running \in BOOLEAN
    /\ stopping \in BOOLEAN /\ sigint_called \in BOOLEAN

LEMMA TypeParts ==
    TypeOK <=> /\ stack \in Seq(Frame) /\ Len(stack) \in 1 .. MaxDepth + 3
               /\ quit_funcs \in Seq(Loop) /\ Len(quit_funcs) <= Cardinality(Loop)
               /\ DataTyped /\ FlagsTyped
<1>1. {may_iterate, attached, running, stopping, sigint_called} \subseteq BOOLEAN <=> FlagsTyped
  BY Zenon DEF FlagsTyped
<1> QED
  BY <1>1 DEF TypeOK, DataTyped

\* There are no more levels than loops, as no two have the same.
LEMMA FewLevels ==
    ASSUME NEW s \in Seq(RunFrame),
           \A i, j \in DOMAIN s : s[i].loop = s[j].loop => i = j
    PROVE  Len(s) <= Cardinality(Loop)
<1>1. DOMAIN s = 1 .. Len(s) /\ Len(s) \in Nat
  OBVIOUS
<1> DEFINE q == [i \in 1 .. Len(s) |-> s[i].loop]
<1>2. \A i \in 1 .. Len(s) : s[i].loop \in Loop
  <2>1. \A i \in 1 .. Len(s) : s[i] \in RunFrame
    BY <1>1
  <2> QED
    BY <2>1, FramesTyped
<1>3. q \in Injection(1 .. Len(s), Loop)
  BY <1>1, <1>2 DEF Injection, IsInjective
<1>4. Cardinality(1 .. Len(s)) <= Cardinality(Loop)
  BY <1>3, EventLoopAssumption, FS_Injection DEF EventLoopAssumption
<1>5. Cardinality(1 .. Len(s)) = Len(s)
  BY <1>1, FS_Interval
<1> QED
  BY <1>4, <1>5

LEMMA TypeStep ==
    ASSUME stack' \in Seq(Frame), Len(stack') \in 1 .. MaxDepth + 3, OrderInv',
           DataTyped', FlagsTyped'
    PROVE  TypeOK'
<1>1. Levels' \in Seq(RunFrame)
  BY OnlyType DEF Levels
<1>2. quit_funcs' \in Seq(Loop) /\ Len(quit_funcs') = Len(Levels')
  BY <1>1, LoopsType DEF OrderInv, QuitFuncsAgree
<1>3. \A i, j \in DOMAIN Levels' : Levels'[i].loop = Levels'[j].loop => i = j
  BY DEF OrderInv, LevelsOrdered
<1>4. Len(Levels') <= Cardinality(Loop)
  BY <1>1, <1>3, FewLevels
<1>5. {may_iterate', attached', running', stopping', sigint_called'} \subseteq BOOLEAN
  BY Zenon DEF FlagsTyped
<1> QED
  BY <1>2, <1>4, <1>5 DEF TypeOK, DataTyped

LEMMA HandlesStep ==
    ASSUME Parts, stack' \in Seq(Frame), Len(ready) \in Nat, Len(ready') \in Nat,
           \A i \in 1 .. Len(stack') :
              \/ i \in 1 .. Len(stack) - 1 /\ stack'[i] = stack[i]
              \/ stack'[i].kind = "select" => stack'[i].todo <= Len(ready'),
           Len(ready) <= Len(ready') \/ Blocks(Top)
    PROVE  HandlesThere'
<1>1. DOMAIN stack' = 1 .. Len(stack') /\ DOMAIN stack = 1 .. Len(stack)
      /\ Len(stack) \in Nat /\ Len(stack) >= 1 /\ stack[Len(stack)] = Top
  BY StackFacts DEF Parts
<1> SUFFICES ASSUME NEW i \in 1 .. Len(stack'), stack'[i].kind = "select"
             PROVE  stack'[i].todo <= Len(ready')
  BY <1>1 DEF HandlesThere
<1>2. CASE i \in 1 .. Len(stack) - 1 /\ stack'[i] = stack[i]
  <2>1. i \in 1 .. Len(stack) /\ i # Len(stack) /\ Len(stack) \in 1 .. Len(stack)
    <3> DEFINE n == Len(stack)
    <3>1. n \in Nat /\ n >= 1 /\ i \in 1 .. n - 1
      BY <1>1, <1>2
    <3> HIDE DEF n
    <3>2. i \in 1 .. n /\ i # n /\ n \in 1 .. n
      BY <3>1
    <3> QED
      BY <3>2 DEF n
  <2>2. stack[i].todo <= Len(ready) /\ stack[i] \in Frame
    <3>1. stack[i].kind = "select" /\ i \in DOMAIN stack
      BY <1>1, <1>2, <2>1
    <3>2. stack[i].todo <= Len(ready)
      BY <3>1 DEF Parts, HandlesThere
    <3>3. stack[i] \in Frame
      <4>1. stack \in Seq(Frame)
        BY StackFacts DEF Parts
      <4> QED
        BY <2>1, <4>1, ElementOfSeq
    <3> QED
      BY <3>2, <3>3
  <2>3. stack[i].todo \in Nat
    BY <1>2, <2>2, FrameKinds
  <2>4. ~Blocks(Top)
    BY <1>1, <1>2, <2>1, BlocksKind DEF Parts, StackShaped
  <2> QED
    BY <1>2, <2>2, <2>3, <2>4
<1> QED
  BY <1>2

(***************************************************************************)
(* Steps that leave the stack as it is.                                    *)
(***************************************************************************)
LEMMA HandlesSame ==
    ASSUME Parts, UNCHANGED stack, Len(ready) \in Nat, Len(ready') \in Nat,
           Len(ready) <= Len(ready')
    PROVE  HandlesThere'
<1>1. \A i \in DOMAIN stack : stack[i].kind = "select" => stack[i].todo \in Nat
  BY StackFacts, FrameKinds DEF Parts
<1> QED
  BY <1>1 DEF Parts, HandlesThere

LEMMA CallSoonStep ==
    ASSUME Parts, NEW h \in Handle, CallSoon(h)
    PROVE  Parts'
<1>1. /\ UNCHANGED <<svars, lvars, idle_tasks, idle_source, may_iterate, attached, removed, stack>>
      /\ ready' = Append(ready, h)
      /\ status' = [status EXCEPT ![h] = "waiting"]
  BY DEF CallSoon
<1>t. stack \in Seq(Frame) /\ Len(stack) \in 1 .. MaxDepth + 3 /\ DataTyped /\ FlagsTyped
  BY TypeParts DEF Parts
<1>2. OrderInv' /\ SigintInv'
  BY <1>1, <1>t, LevelsUntouched DEF lvars
<1>3. DataTyped' /\ FlagsTyped' /\ Len(ready') = Len(ready) + 1 /\ Len(ready) \in Nat
  BY <1>1, <1>t DEF DataTyped, FlagsTyped, lvars, svars, Status
<1>4. TypeOK'
  BY <1>1, <1>2, <1>3, <1>t, TypeStep
<1>5. StackShaped' /\ (NoBlock' <=> NoBlock) /\ \A k : Active(k)' <=> Active(k)
  BY <1>1, StackUntouched DEF lvars
<1>6. FlagsInv'
  BY <1>1, <1>5 DEF Parts, FlagsInv, lvars
<1>7. HandlesThere'
  BY <1>1, <1>3, HandlesSame
<1> QED
  BY <1>2, <1>4, <1>5, <1>6, <1>7 DEF Parts

LEMMA CancelStep ==
    ASSUME Parts, NEW h \in Handle, Cancel(h)
    PROVE  Parts'
<1>1. /\ UNCHANGED <<svars, avars, lvars, stack>>
      /\ status' = [status EXCEPT ![h] = "cancelled"]
  BY DEF Cancel
<1>t. stack \in Seq(Frame) /\ Len(stack) \in 1 .. MaxDepth + 3 /\ DataTyped /\ FlagsTyped
  BY TypeParts DEF Parts
<1>2. OrderInv' /\ SigintInv'
  BY <1>1, <1>t, LevelsUntouched DEF lvars
<1>3. DataTyped' /\ FlagsTyped' /\ ready' = ready /\ Len(ready) \in Nat
  BY <1>1, <1>t DEF DataTyped, FlagsTyped, lvars, avars, svars, Status
<1>4. TypeOK'
  BY <1>1, <1>2, <1>3, <1>t, TypeStep
<1>5. StackShaped' /\ (NoBlock' <=> NoBlock) /\ \A k : Active(k)' <=> Active(k)
  BY <1>1, StackUntouched DEF lvars, avars
<1>6. FlagsInv'
  BY <1>1, <1>5 DEF Parts, FlagsInv, lvars, avars
<1>7. HandlesThere'
  BY <1>1, <1>3, HandlesSame
<1> QED
  BY <1>2, <1>4, <1>5, <1>6, <1>7 DEF Parts

LEMMA InsertType ==
    ASSUME NEW E, NEW s \in Seq(E), NEW e \in E, NEW n \in 0 .. Len(s)
    PROVE  InsertAt(s, n + 1, e) \in Seq(E) /\ InsertAt(s, n + 1, e) # <<>>
<1> DEFINE a == SubSeq(s, 1, (n + 1) - 1)  b == SubSeq(s, n + 1, Len(s))
<1>1. a \in Seq(E)
  BY (n + 1) - 1 = n
<1>2. b \in Seq(E)
  OBVIOUS
<1> HIDE DEF a, b
<1>3. <<e>> \in Seq(E) /\ Len(<<e>>) = 1
  OBVIOUS
<1>4. a \o <<e>> \in Seq(E) /\ Len(a \o <<e>>) = Len(a) + 1 /\ Len(a) \in Nat
  BY <1>1, <1>3, ConcatProperties
<1>5. a \o <<e>> \o b \in Seq(E) /\ Len(a \o <<e>> \o b) = Len(a) + 1 + Len(b) /\ Len(b) \in Nat
  BY <1>2, <1>4, ConcatProperties
<1>6. a \o <<e>> \o b # <<>>
  BY <1>4, <1>5
<1> QED
  BY <1>5, <1>6 DEF InsertAt, a, b

LEMMA CallSoonIdleStep ==
    ASSUME Parts, NEW h \in Handle, NEW p \in Prio, CallSoonIdle(h, p)
    PROVE  Parts'
<1>1. /\ UNCHANGED <<svars, lvars, ready, may_iterate, attached, removed, stack>>
      /\ idle_source' = IF idle_source = NoSource THEN NoSource ELSE Head(idle_tasks')[1]
      /\ status' = [status EXCEPT ![h] = "waiting"]
  BY DEF CallSoonIdle
<1>t. stack \in Seq(Frame) /\ Len(stack) \in 1 .. MaxDepth + 3 /\ DataTyped /\ FlagsTyped
  BY TypeParts DEF Parts
<1>2. OrderInv' /\ SigintInv'
  BY <1>1, <1>t, LevelsUntouched DEF lvars
<1>a. idle_tasks' \in Seq(Prio \X Handle) /\ idle_tasks' # <<>>
  <2>1. <<p, h>> \in Prio \X Handle
    OBVIOUS
  <2>2. PICK n \in 0 .. Len(idle_tasks) : idle_tasks' = InsertAt(idle_tasks, n + 1, <<p, h>>)
    BY DEF CallSoonIdle, InsertTask
  <2> QED
    BY <1>t, <2>1, <2>2, InsertType DEF DataTyped
<1>b. Head(idle_tasks')[1] \in Prio /\ NoSource \notin Prio
  <2>1. Head(idle_tasks') \in Prio \X Handle
    BY <1>a
  <2> QED
    BY <2>1, EventLoopAssumption DEF EventLoopAssumption
<1>3. DataTyped' /\ FlagsTyped' /\ ready' = ready /\ Len(ready) \in Nat
  <2>1. FlagsTyped' /\ ready' = ready /\ Len(ready) \in Nat
    BY <1>1, <1>t DEF DataTyped, FlagsTyped, lvars, svars
  <2>2. status' \in [Handle -> Status]
    BY <1>1, <1>t DEF DataTyped, Status
  <2>3. idle_source' \in Prio \cup {0, NoSource}
    BY <1>1, <1>b
  <2> QED
    BY <1>1, <1>a, <1>t, <2>1, <2>2, <2>3 DEF DataTyped, lvars, svars
<1>4. TypeOK'
  BY <1>1, <1>2, <1>3, <1>t, TypeStep
<1>5. StackShaped' /\ (NoBlock' <=> NoBlock) /\ \A k : Active(k)' <=> Active(k)
  BY <1>1, StackUntouched DEF lvars
<1>6. FlagsInv'
  <2>1. idle_source' # NoSource <=> idle_source # NoSource
    BY <1>1, <1>b
  <2>2. running => idle_source' = Head(idle_tasks')[1]
    BY <1>1 DEF Parts, FlagsInv
  <2>3. UNCHANGED <<running, may_iterate, attached, removed>>
    BY <1>1 DEF lvars
  <2> QED
    BY <1>5, <2>1, <2>2, <2>3 DEF Parts, FlagsInv
<1>7. HandlesThere'
  BY <1>1, <1>3, HandlesSame
<1> QED
  BY <1>2, <1>4, <1>5, <1>6, <1>7 DEF Parts

LEMMA StopStep ==
    ASSUME Parts, Stop
    PROVE  Parts'
<1>1. /\ UNCHANGED <<svars, avars, running, quit_funcs, stack, status>>
      /\ stopping' = TRUE /\ Top.kind = "code"
      /\ looping' = IF quit_funcs = <<>> THEN looping ELSE looping \ {Last(quit_funcs)}
  BY DEF Stop, InCode
<1>t. stack \in Seq(Frame) /\ Len(stack) \in 1 .. MaxDepth + 3 /\ DataTyped /\ FlagsTyped
  BY TypeParts DEF Parts
<1>l. Levels \in Seq(RunFrame) /\ Registered \in Seq(SigintFrame) /\ Levels' = Levels
      /\ Registered' = Registered
  BY <1>1, LevelsFacts DEF Parts, Levels, Registered
<1>2. OrderInv'
  BY <1>1, <1>l, OrderStopped DEF Parts
<1>s. SigintInv'
  BY <1>1, <1>l, SigintKept, AlikeSame DEF Parts
<1>3. DataTyped' /\ FlagsTyped' /\ ready' = ready /\ Len(ready) \in Nat
  BY <1>1, <1>t DEF DataTyped, FlagsTyped, avars, svars
<1>4. TypeOK'
  BY <1>1, <1>2, <1>3, <1>t, TypeStep
<1>5. StackShaped' /\ (NoBlock' <=> NoBlock) /\ \A k : Active(k)' <=> Active(k)
  <2>1. \A i \in DOMAIN stack : ~(stack[i].kind = "run" /\ ~stack[i].begun)
    BY <1>1, PartsFacts, StackFacts
  <2>2. removed' = removed
    BY <1>1 DEF avars
  <2>3. StackShaped'
    BY <1>1, <2>1, <2>2 DEF Parts, StackShaped, Blocks
  <2> QED
    BY <1>1, <2>3 DEF NoBlock, Active, Blocks
<1>6. FlagsInv'
  BY <1>1, <1>5 DEF Parts, FlagsInv, avars
<1>7. HandlesThere'
  BY <1>1, <1>3, HandlesSame
<1> QED
  BY <1>2, <1>s, <1>4, <1>5, <1>6, <1>7 DEF Parts

LEMMA QuitStep ==
    ASSUME Parts, NEW l \in Loop, Quit(l)
    PROVE  Parts'
<1>1. /\ UNCHANGED <<svars, avars, running, stopping, quit_funcs, stack, status>>
      /\ looping' = looping \ {l}
  BY DEF Quit
<1>t. stack \in Seq(Frame) /\ Len(stack) \in 1 .. MaxDepth + 3 /\ DataTyped /\ FlagsTyped
  BY TypeParts DEF Parts
<1>2. OrderInv' /\ SigintInv'
  BY <1>1, <1>t, LevelsUntouched
<1>3. DataTyped' /\ FlagsTyped' /\ ready' = ready /\ Len(ready) \in Nat
  BY <1>1, <1>t DEF DataTyped, FlagsTyped, avars, svars
<1>4. TypeOK'
  BY <1>1, <1>2, <1>3, <1>t, TypeStep
<1>5. StackShaped' /\ (NoBlock' <=> NoBlock) /\ \A k : Active(k)' <=> Active(k)
  BY <1>1, StackUntouched DEF avars
<1>6. FlagsInv'
  BY <1>1, <1>5 DEF Parts, FlagsInv, avars
<1>7. HandlesThere'
  BY <1>1, <1>3, HandlesSame
<1> QED
  BY <1>2, <1>4, <1>5, <1>6, <1>7 DEF Parts

LEMMA SigintStep ==
    ASSUME Parts, Sigint
    PROVE  Parts'
<1>1. /\ UNCHANGED <<avars, running, stopping, quit_funcs, stack, status>>
      /\ HandleSigint /\ looping' \subseteq looping
  BY DEF Sigint
<1>t. stack \in Seq(Frame) /\ Len(stack) \in 1 .. MaxDepth + 3 /\ DataTyped /\ FlagsTyped
  BY TypeParts DEF Parts
<1>l. Levels \in Seq(RunFrame) /\ Levels' = Levels
  BY <1>1, LevelsFacts DEF Parts, Levels
<1>2. OrderInv'
  BY <1>1, <1>l, OrderKept, AlikeSame DEF Parts
<1>s. SigintInv'
  BY <1>1, <1>l, SigintHandled DEF Parts
<1>3. DataTyped' /\ FlagsTyped' /\ ready' = ready /\ Len(ready) \in Nat
  <2>1. /\ callback_stack # <<>> /\ callback_stack \in Seq(Loop)
        /\ callback_stack' = Front(callback_stack) /\ sigint_called' = TRUE /\ handler' = handler
    <3>1. callback_stack = Callbacks /\ Registered # <<>>
      BY <1>1 DEF Parts, SigintInv, SigintInOrder, HandleSigint
    <3>2. Registered \in Seq(RunFrame)
      BY <1>l, RegisteredType DEF Registered
    <3>3. Callbacks # <<>>
      BY <3>1, <3>2, LoopsType DEF Callbacks
    <3> QED
      BY <1>1, <1>t, <3>1, <3>3 DEF HandleSigint, PoppedCallback, DataTyped
  <2>2. callback_stack' \in Seq(Loop)
    BY <2>1, FrontAppend
  <2> QED
    BY <1>1, <1>t, <2>1, <2>2 DEF DataTyped, FlagsTyped, avars
<1>4. TypeOK'
  BY <1>1, <1>2, <1>3, <1>t, TypeStep
<1>5. StackShaped' /\ (NoBlock' <=> NoBlock) /\ \A k : Active(k)' <=> Active(k)
  BY <1>1, StackUntouched DEF avars
<1>6. FlagsInv'
  BY <1>1, <1>5 DEF Parts, FlagsInv, avars
<1>7. HandlesThere'
  BY <1>1, <1>3, HandlesSame
<1> QED
  BY <1>2, <1>s, <1>4, <1>5, <1>6, <1>7 DEF Parts

(***************************************************************************)
(* Steps that enter, begin and leave a level.                              *)
(***************************************************************************)
LEMMA CallIsGrown ==
    ASSUME TypeOK, InCode, NEW g \in Frame, Call(g)
    PROVE  \E f \in Frame : Grown(f, g) /\ f.kind = "code" /\ Len(stack) <= MaxDepth
<1> DEFINE f == [Top EXCEPT !.called = Len(stack) > 1]
<1>1. Top \in Frame /\ Top.kind = "code" /\ (Len(stack) > 1) \in BOOLEAN
  BY StackFacts DEF InCode
<1>2. f \in Frame /\ f.kind = "code"
  BY <1>1, FramesTyped
<1>3. Len(stack) <= MaxDepth /\ stack' = Front(stack) \o <<f, g>>
  BY DEF Call
<1> HIDE DEF f
<1>4. Grown(f, g)
  BY <1>2, <1>3, IsGrown
<1> QED
  BY <1>2, <1>3, <1>4

LEMMA RunLoopStep ==
    ASSUME Parts, NEW l \in Loop, RunLoop(l)
    PROVE  Parts'
<1> DEFINE g == [kind |-> "run", loop |-> l, outer |-> ~running, sig |-> Registration,
                 begun |-> FALSE, batch |-> TRUE, late |-> stopping,
                 after |-> Registration # "base" /\ sigint_called]
<1>t. stack \in Seq(Frame) /\ Len(stack) \in 1 .. MaxDepth + 3 /\ DataTyped /\ FlagsTyped
  BY TypeParts DEF Parts
<1>g. /\ g \in RunFrame /\ g.kind = "run" /\ g.loop = l /\ (g.outer <=> ~running)
      /\ g.sig = Registration /\ ~g.begun /\ (g.late <=> stopping)
      /\ (g.after <=> Registration # "base" /\ sigint_called)
  <2>1. /\ Registration \in {"base", "inner", "none"}
        /\ (Registration # "base" /\ sigint_called) \in BOOLEAN /\ (~running) \in BOOLEAN
        /\ stopping \in BOOLEAN
    BY <1>t DEF Registration, FlagsTyped
  <2> QED
    BY <2>1 DEF RunFrame
<1>1. /\ InCode /\ ~IsRunBy(l) /\ Call(g) /\ Register(l)
      /\ quit_funcs' = Append(quit_funcs, l)
      /\ IF running THEN UNCHANGED avars
         ELSE /\ may_iterate' = TRUE
              /\ attached' = TRUE
              /\ idle_source' = IF idle_tasks = <<>> THEN 0 ELSE Head(idle_tasks)[1]
              /\ UNCHANGED <<ready, idle_tasks, removed>>
      /\ running' = TRUE
      /\ UNCHANGED <<stopping, looping, status>>
  BY DEF RunLoop
<1> HIDE DEF g
<1>f. /\ TypeOK /\ StackShaped /\ Top.kind = "code" /\ Len(stack) \in Nat /\ MaxDepth \in Nat
      /\ g \in Frame /\ (running <=> Levels # <<>>) /\ Len(stack) >= 1
  BY <1>1, <1>g, PartsFacts, FramesTyped DEF InCode
<1>2. PICK f \in Frame : Grown(f, g) /\ f.kind = "code" /\ Len(stack) <= MaxDepth
  BY <1>1, <1>f, CallIsGrown
<1>u. ready' = ready /\ idle_tasks' = idle_tasks /\ removed' = removed
  BY <1>1 DEF avars
<1>3. /\ StackShaped' /\ (NoBlock' <=> NoBlock) /\ \A k \in {"select", "idle"} : Active(k)' <=> Active(k)
      /\ stack' \in Seq(Frame) /\ Len(stack') = Len(stack) + 1
  <2>1. ~Blocks(f) /\ ~Blocks(Top) /\ ~Blocks(g)
    BY <1>2, <1>f, <1>g, BlocksKind
  <2>2. /\ StackShaped' /\ (NoBlock' <=> NoBlock /\ ~Blocks(g))
        /\ \A k : Active(k)' <=> Active(k) \/ g.kind = k
    BY <1>1, <1>2, <1>f, <1>g, <1>u, <2>1, ShapeGrown
  <2> QED
    BY <1>2, <1>g, <2>1, <2>2 DEF Grown
<1>4. Levels' = Append(Levels, g) /\ Levels \in Seq(RunFrame)
  BY <1>2, <1>f, <1>g, LevelsGrown, LevelsFacts
<1>5. OrderInv'
  BY <1>1, <1>4, <1>g, OrderEntered DEF Parts
<1>6. SigintInv'
  BY <1>1, <1>4, <1>g, <1>t, SigintEntered DEF Parts, DataTyped
<1>7. ~running => NoBlock /\ removed = {} /\ ~Active("select")
  <2> SUFFICES ASSUME ~running PROVE NoBlock /\ removed = {} /\ ~Active("select")
    OBVIOUS
  <2>1. removed = {} /\ Levels = <<>>
    BY <1>f DEF StackShaped
  <2>2. DOMAIN stack = 1 .. Len(stack) /\ \A i \in 1 .. Len(stack) : stack[i].kind # "run"
    BY <1>f, <2>1, LevelsFacts, StackFacts
  <2>3. \A i \in 1 .. Len(stack) : \A j \in 1 .. i - 1 : j \in 1 .. Len(stack)
    <3> DEFINE n == Len(stack)
    <3>1. n \in Nat
      BY <1>f
    <3> HIDE DEF n
    <3>2. \A i \in 1 .. n : \A j \in 1 .. i - 1 : j \in 1 .. n
      BY <3>1
    <3> QED
      BY <3>2 DEF n
  <2>4. \A i \in 1 .. Len(stack) : ~Blocks(stack[i])
    BY <1>f, <2>2, <2>3 DEF StackShaped
  <2> QED
    BY <2>1, <2>2, <2>4, BlocksKind DEF NoBlock, Active
<1>8. FlagsInv'
  <2>1. CASE running
    BY <1>1, <1>3, <2>1 DEF avars, Parts, FlagsInv
  <2>2. CASE ~running
    <3>1. idle_source' # NoSource
      <4>1. NoSource \notin Prio \cup {0}
        <5>1. NoSource \notin Int /\ Prio \subseteq Int
          BY EventLoopAssumption DEF EventLoopAssumption
        <5>2. 0 \in Int
          OBVIOUS
        <5> QED
          BY <5>1, <5>2, Zenon
      <4>2. idle_tasks # <<>> => Head(idle_tasks)[1] \in Prio
        <5>1. idle_tasks # <<>> => Head(idle_tasks) \in Prio \X Handle
          BY <1>t DEF DataTyped
        <5> QED
          BY <5>1
      <4> QED
        BY <1>1, <2>2, <4>1, <4>2
    <3> QED
      BY <1>1, <1>3, <1>7, <1>u, <2>2, <3>1 DEF FlagsInv
  <2> QED
    BY <2>1, <2>2
<1>9. DataTyped' /\ FlagsTyped'
  <2>1. idle_source' \in Prio \cup {0, NoSource}
    <3>1. idle_tasks # <<>> => Head(idle_tasks) \in Prio \X Handle
      BY <1>t DEF DataTyped
    <3>2. idle_tasks # <<>> => Head(idle_tasks)[1] \in Prio
      BY <3>1
    <3> QED
      BY <1>1, <1>t, <3>2 DEF DataTyped, avars
  <2>2. /\ callback_stack' \in Seq(Loop) /\ handler' \in {"default", "ours"}
    BY <1>1, <1>t DEF Register, DataTyped
  <2>3. sigint_called' \in BOOLEAN
    BY <1>1, <1>t DEF Register, FlagsTyped
  <2>4. may_iterate' \in BOOLEAN /\ attached' \in BOOLEAN /\ running' \in BOOLEAN
    BY <1>1, <1>t DEF FlagsTyped, avars
  <2> QED
    BY <1>1, <1>t, <1>u, <2>1, <2>2, <2>3, <2>4 DEF DataTyped, FlagsTyped
<1>10. TypeOK'
  <2>1. Len(stack') \in 1 .. MaxDepth + 3
    BY <1>2, <1>3, <1>f
  <2> QED
    BY <1>3, <1>5, <1>9, <2>1, TypeStep
<1>11. HandlesThere'
  <2>1. \A i \in 1 .. Len(stack') : \/ i \in 1 .. Len(stack) - 1
                                    \/ i = Len(stack) \/ i = Len(stack) + 1
    BY <1>3, <1>f
  <2>2. \A i \in 1 .. Len(stack') :
           \/ i \in 1 .. Len(stack) - 1 /\ stack'[i] = stack[i]
           \/ stack'[i].kind = "select" => stack'[i].todo <= Len(ready')
    BY <1>2, <1>g, <2>1 DEF Grown
  <2>3. Len(ready) \in Nat /\ Len(ready') = Len(ready)
    BY <1>t, <1>u DEF DataTyped
  <2> QED
    BY <1>3, <2>2, <2>3, HandlesStep
<1> QED
  BY <1>3, <1>5, <1>6, <1>8, <1>10, <1>11 DEF Parts

LEMMA BeginStep ==
    ASSUME Parts, Begin
    PROVE  Parts'
<1> DEFINE f == [Top EXCEPT !.begun = TRUE]
<1>1. /\ Top.kind = "run" /\ ~Top.begun /\ Replace(f)
      /\ looping' = looping \cup {Top.loop}
      /\ UNCHANGED <<svars, avars, running, stopping, quit_funcs, status>>
  BY DEF Begin
<1>t. stack \in Seq(Frame) /\ Len(stack) \in 1 .. MaxDepth + 3 /\ DataTyped /\ FlagsTyped
  BY TypeParts DEF Parts
<1>f. /\ TypeOK /\ StackShaped /\ Top \in RunFrame /\ (Top.late <=> stopping)
      /\ Len(stack) \in Nat /\ Len(stack) >= 1
  BY <1>1, PartsFacts, FrameKinds
<1>g. f \in RunFrame /\ f.kind = "run" /\ f.begun /\ Alike(Top, f)
  BY <1>f DEF RunFrame, Alike
<1> HIDE DEF f
<1>2. f \in Frame /\ Changed(f)
  BY <1>1, <1>f, <1>g, FramesTyped, IsChanged
<1>u. ready' = ready /\ idle_tasks' = idle_tasks /\ removed' = removed
  BY <1>1 DEF avars
<1>3. StackShaped' /\ (NoBlock' <=> NoBlock) /\ \A k : Active(k)' <=> Active(k)
  <2>1. ~Blocks(f) /\ ~Blocks(Top)
    BY <1>1, <1>g, BlocksKind
  <2> QED
    BY <1>1, <1>2, <1>f, <1>g, <1>u, <2>1, ShapeChanged
<1>4. Levels = Append(Below, Top) /\ Levels' = Append(Below, f) /\ Below \in Seq(RunFrame)
  BY <1>1, <1>2, <1>f, <1>g, LevelsChanged, LevelsFacts
<1>5. OrderInv'
  BY <1>1, <1>4, <1>f, <1>g, OrderBegun DEF Parts
<1>6. SigintInv'
  <2>1. AlikeSeq(Registered, Registered')
    BY <1>4, <1>f, <1>g, AlikeRegistered DEF Registered
  <2>2. Registered' \in Seq(SigintFrame) /\ Registered \in Seq(SigintFrame)
    <3>1. Levels' \in Seq(RunFrame) /\ Levels \in Seq(RunFrame)
      BY <1>4, <1>f, <1>g
    <3> QED
      BY <3>1, OnlyType DEF Registered
  <2> QED
    BY <1>1, <2>1, <2>2, SigintKept DEF Parts
<1>7. FlagsInv'
  BY <1>1, <1>3 DEF Parts, FlagsInv, avars
<1>8. DataTyped' /\ FlagsTyped'
  <2>1. Top.loop \in Loop
    BY <1>f, FramesTyped
  <2> QED
    BY <1>1, <1>t, <2>1 DEF DataTyped, FlagsTyped, avars, svars
<1>9. stack' \in Seq(Frame) /\ Len(stack') = Len(stack)
  BY <1>2 DEF Changed
<1>10. TypeOK'
  BY <1>5, <1>8, <1>9, <1>t, TypeStep
<1>11. HandlesThere'
  <2>1. \A i \in 1 .. Len(stack') : i \in 1 .. Len(stack) - 1 \/ i = Len(stack)
    BY <1>9, <1>f
  <2>2. \A i \in 1 .. Len(stack') :
           \/ i \in 1 .. Len(stack) - 1 /\ stack'[i] = stack[i]
           \/ stack'[i].kind = "select" => stack'[i].todo <= Len(ready')
    BY <1>2, <1>g, <2>1 DEF Changed
  <2>3. Len(ready) \in Nat /\ Len(ready') = Len(ready)
    BY <1>t, <1>u DEF DataTyped
  <2> QED
    BY <1>9, <2>2, <2>3, HandlesStep
<1> QED
  BY <1>3, <1>5, <1>6, <1>7, <1>10, <1>11 DEF Parts

LEMMA LeaveStep ==
    ASSUME Parts, Leave
    PROVE  Parts'
<1>1. /\ Top.kind = "run" /\ Top.begun /\ CallReturns
      /\ quit_funcs' = QuitFuncsLeft
      /\ looping' = looping \ (StopNext \cup CalledOnExit(Top.sig))
      /\ Unregister(Top.sig) /\ UNCHANGED status
      /\ IF Top.outer
         THEN /\ may_iterate' = FALSE
              /\ attached' = FALSE
              /\ idle_source' = NoSource
              /\ removed' = {}
              /\ running' = FALSE
              /\ stopping' = FALSE
              /\ UNCHANGED <<ready, idle_tasks>>
         ELSE UNCHANGED <<avars, running, stopping>>
  BY DEF Leave
<1>t. stack \in Seq(Frame) /\ Len(stack) \in 1 .. MaxDepth + 3 /\ DataTyped /\ FlagsTyped
  BY TypeParts DEF Parts
<1>f. /\ TypeOK /\ StackShaped /\ Top \in RunFrame /\ Len(stack) \in Nat /\ Len(stack) >= 1
      /\ ~Blocks(Top) /\ (running <=> Levels # <<>>)
  BY <1>1, PartsFacts, FrameKinds, BlocksKind
<1>2. Popped
  BY <1>1, <1>f, IsPopped
<1>4. Levels = Append(Below, Top) /\ Levels' = Below /\ Below \in Seq(RunFrame)
  BY <1>1, <1>2, <1>f, LevelsPopped, LevelsFacts
<1>5. OrderInv'
  BY <1>1, <1>4, <1>f, OrderLeft DEF Parts
<1>6. SigintInv'
  BY <1>1, <1>4, <1>f, <1>t, SigintLeft DEF Parts, DataTyped
<1>u. ready' = ready /\ idle_tasks' = idle_tasks /\ removed' \subseteq removed
  BY <1>1 DEF avars
<1>r. running
  BY <1>4, <1>f, AppendElements
<1>3. /\ StackShaped' /\ (NoBlock' <=> NoBlock) /\ Len(stack) > 1
      /\ \A k \in {"select", "idle"} : Active(k)' <=> Active(k)
  <2>1. ~running' => removed' = {}
    BY <1>1, <1>r
  <2> QED
    BY <1>1, <1>2, <1>f, <1>u, <2>1, ShapePopped
<1>7. FlagsInv'
  <2>1. CASE ~Top.outer
    BY <1>1, <1>3, <2>1 DEF Parts, FlagsInv, avars
  <2>2. CASE Top.outer
    <3>1. Below = <<>>
      <4>1. ~running'
        BY <1>1, <2>2
      <4> QED
        BY <1>4, <1>5, <4>1 DEF OrderInv, LevelsOrdered
    <3>2. DOMAIN stack' = 1 .. Len(stack') /\ Len(stack') = Len(stack) - 1
          /\ \A i \in 1 .. Len(stack') : stack'[i].kind # "run"
      <4>1. stack' \in Seq(Frame) /\ Len(stack') = Len(stack) - 1
            /\ \A i \in 1 .. Len(stack) - 1 : stack'[i] = stack[i]
        BY <1>2 DEF Popped
      <4>2. \A i \in 1 .. Len(stack) - 1 : stack[i].kind # "run"
        BY <1>f, <3>1, LevelsFacts
      <4> QED
        BY <4>1, <4>2
    <3>3. \A i \in 1 .. Len(stack') : ~Blocks(stack'[i])
      <4>1. \A i \in 1 .. Len(stack') : \A j \in 1 .. i - 1 : j \in 1 .. Len(stack')
        <5> DEFINE n == Len(stack')
        <5>1. n \in Nat
          BY <1>3, <1>f, <3>2
        <5> HIDE DEF n
        <5>2. \A i \in 1 .. n : \A j \in 1 .. i - 1 : j \in 1 .. n
          BY <5>1
        <5> QED
          BY <5>2 DEF n
      <4> QED
        BY <1>3, <3>2, <4>1 DEF StackShaped
    <3>4. ~Active("select")'
      BY <3>2, <3>3, BlocksKind DEF Active
    <3> QED
      BY <1>1, <2>2, <3>4 DEF FlagsInv
  <2> QED
    BY <2>1, <2>2
<1>8. DataTyped' /\ FlagsTyped'
  <2>1. callback_stack' \in Seq(Loop)
    <3>1. CASE callback_stack # <<>>
      BY <1>1, <1>t, <3>1, FrontAppend DEF Unregister, DataTyped
    <3>2. CASE callback_stack = <<>>
      <4>1. Front(<<>>) = <<>>
        BY DEF Front
      <4> QED
        BY <1>1, <1>t, <3>2, <4>1 DEF Unregister, DataTyped
    <3> QED
      BY <3>1, <3>2
  <2>2. handler' \in {"default", "ours"}
    BY <1>1, <1>t DEF Unregister, DataTyped
  <2>3. FlagsTyped'
    <3>1. sigint_called' \in BOOLEAN
      BY <1>1, <1>t DEF Unregister, FlagsTyped
    <3>2. CASE Top.outer
      BY <1>1, <3>1, <3>2 DEF FlagsTyped
    <3>3. CASE ~Top.outer
      BY <1>1, <1>t, <3>1, <3>3 DEF FlagsTyped, avars
    <3> QED
      BY <3>2, <3>3
  <2>4. idle_source' \in Prio \cup {0, NoSource}
    BY <1>1, <1>t DEF DataTyped, avars
  <2> QED
    BY <1>1, <1>t, <1>u, <2>1, <2>2, <2>3, <2>4 DEF DataTyped
<1>9. stack' \in Seq(Frame) /\ Len(stack') = Len(stack) - 1
  BY <1>2 DEF Popped
<1>10. TypeOK'
  <2>1. Len(stack') \in 1 .. MaxDepth + 3
    BY <1>3, <1>9, <1>f, <1>t, PartsFacts
  <2> QED
    BY <1>5, <1>8, <1>9, <2>1, TypeStep
<1>11. HandlesThere'
  <2>2. \A i \in 1 .. Len(stack') : i \in 1 .. Len(stack) - 1 /\ stack'[i] = stack[i]
    BY <1>2 DEF Popped
  <2>3. Len(ready) \in Nat /\ Len(ready') = Len(ready)
    BY <1>t, <1>u DEF DataTyped
  <2> QED
    BY <1>9, <2>2, <2>3, HandlesStep
<1> QED
  BY <1>3, <1>5, <1>6, <1>7, <1>10, <1>11 DEF Parts

(***************************************************************************)
(* Steps that call, return or change the call on top, but not a level.     *)
(***************************************************************************)
LEMMA GrownStep ==
    ASSUME Parts, NEW f \in Frame, NEW g \in Frame, Grown(f, g),
           f.kind = Top.kind, Blocks(f) <=> Blocks(Top), f.kind = "idle" => f.paused,
           f.kind = "run" => f.begun /\ Alike(Top, f),
           g.kind # "run", g.kind = "idle" => g.paused, Len(stack) <= MaxDepth + 2,
           g.kind = "iterate" => Len(stack) <= MaxDepth,
           g.kind \in {"select", "idle"} => Len(stack) <= MaxDepth + 1,
           Blocks(g) => NoBlock /\ "select" \notin removed /\ running,
           f.kind = "select" => f.todo <= Len(ready'),
           g.kind = "select" => g.todo <= Len(ready'),
           Len(ready) <= Len(ready') \/ Blocks(Top),
           UNCHANGED <<svars, lvars, removed>>, DataTyped',
           may_iterate' \in BOOLEAN, attached' \in BOOLEAN,
           may_iterate' <=> running /\ NoBlock /\ ~Blocks(g) /\ "select" \notin removed,
           attached' <=> may_iterate' \/ Active("select") \/ g.kind = "select",
           running <=> idle_source' # NoSource,
           running /\ idle_tasks' # <<>> /\ ~Active("idle") /\ g.kind # "idle" /\ "idle" \notin removed
               => idle_source' = Head(idle_tasks')[1]
    PROVE  Parts'
<1>f. /\ TypeOK /\ StackShaped /\ Len(stack) \in Nat /\ MaxDepth \in Nat
      /\ (running <=> Levels # <<>>) /\ Len(stack) >= 1
  BY PartsFacts
<1>t. DataTyped /\ FlagsTyped
  BY TypeParts DEF Parts
<1>u. UNCHANGED <<svars, running, stopping, quit_funcs, looping>>
  BY DEF lvars
<1>1. stack' \in Seq(Frame) /\ Len(stack') = Len(stack) + 1
  BY DEF Grown
<1>2. OrderInv' /\ SigintInv'
  BY <1>1, <1>u, LevelsUntouched
<1>3. /\ StackShaped'
      /\ NoBlock' <=> NoBlock /\ ~Blocks(g)
      /\ \A k : Active(k)' <=> Active(k) \/ g.kind = k
  BY <1>f, <1>u, ShapeGrown
<1>4. FlagsInv'
  BY <1>3, <1>u DEF FlagsInv
<1>5. TypeOK'
  <2>1. Len(stack') \in 1 .. MaxDepth + 3
    BY <1>1, <1>f
  <2>2. FlagsTyped'
    BY <1>t, <1>u DEF FlagsTyped, svars
  <2> QED
    BY <1>1, <1>2, <2>1, <2>2, TypeStep
<1>6. HandlesThere'
  <2>1. \A i \in 1 .. Len(stack') : \/ i \in 1 .. Len(stack) - 1
                                    \/ i = Len(stack) \/ i = Len(stack) + 1
    BY <1>1, <1>f
  <2>2. \A i \in 1 .. Len(stack') :
           \/ i \in 1 .. Len(stack) - 1 /\ stack'[i] = stack[i]
           \/ stack'[i].kind = "select" => stack'[i].todo <= Len(ready')
    BY <2>1 DEF Grown
  <2>3. Len(ready) \in Nat /\ Len(ready') \in Nat
    BY <1>t DEF DataTyped
  <2> QED
    BY <1>1, <2>2, <2>3, HandlesStep
<1> QED
  BY <1>2, <1>3, <1>4, <1>5, <1>6 DEF Parts

LEMMA ChangedStep ==
    ASSUME Parts, NEW f \in Frame, Changed(f),
           f.kind = Top.kind, f.kind \in {"select", "idle"}, f.kind = "idle" => f.paused,
           f.kind = "select" => f.todo <= Len(ready'),
           UNCHANGED <<svars, lvars, removed, idle_tasks, idle_source, may_iterate, attached>>,
           DataTyped'
    PROVE  Parts'
<1>f. /\ TypeOK /\ StackShaped /\ Len(stack) \in Nat /\ Len(stack) >= 1
      /\ Blocks(Top) /\ Blocks(f)
  BY PartsFacts, BlocksKind
<1>t. DataTyped /\ FlagsTyped /\ Len(stack) \in 1 .. MaxDepth + 3
  BY TypeParts DEF Parts
<1>u. UNCHANGED <<svars, running, stopping, quit_funcs, looping>>
  BY DEF lvars
<1>1. stack' \in Seq(Frame) /\ Len(stack') = Len(stack)
  BY DEF Changed
<1>2. OrderInv' /\ SigintInv'
  BY <1>1, <1>u, LevelsUntouched
<1>3. /\ StackShaped'
      /\ NoBlock' <=> NoBlock
      /\ \A k : Active(k)' <=> Active(k)
  BY <1>f, <1>u, ShapeChanged
<1>4. FlagsInv'
  BY <1>3, <1>u DEF FlagsInv, Parts
<1>5. TypeOK'
  <2>1. FlagsTyped'
    BY <1>t, <1>u DEF FlagsTyped, svars
  <2> QED
    BY <1>1, <1>2, <1>t, <2>1, TypeStep
<1>6. HandlesThere'
  <2>1. \A i \in 1 .. Len(stack') : i \in 1 .. Len(stack) - 1 \/ i = Len(stack)
    BY <1>1, <1>f
  <2>2. \A i \in 1 .. Len(stack') :
           \/ i \in 1 .. Len(stack) - 1 /\ stack'[i] = stack[i]
           \/ stack'[i].kind = "select" => stack'[i].todo <= Len(ready')
    BY <2>1 DEF Changed
  <2>3. Len(ready) \in Nat /\ Len(ready') \in Nat
    BY <1>t DEF DataTyped
  <2> QED
    BY <1>1, <1>f, <2>2, <2>3, HandlesStep
<1> QED
  BY <1>2, <1>3, <1>4, <1>5, <1>6 DEF Parts

LEMMA PoppedStep ==
    ASSUME Parts, CallReturns, Top.kind # "run", Top.kind # "code" \/ Len(stack) > 1,
           UNCHANGED <<svars, lvars, ready, idle_tasks, removed, status>>,
           may_iterate' \in BOOLEAN, attached' \in BOOLEAN,
           idle_source' \in Prio \cup {0, NoSource},
           may_iterate' <=> may_iterate \/ Blocks(Top),
           attached' <=> attached \/ Blocks(Top),
           running <=> idle_source' # NoSource,
           running /\ idle_tasks # <<>> /\ "idle" \notin removed
             /\ (~Active("idle") \/ Top.kind = "idle")
               => idle_source' = Head(idle_tasks)[1]
    PROVE  Parts'
<1>f. /\ TypeOK /\ StackShaped /\ Len(stack) \in Nat /\ Len(stack) >= 1
      /\ Blocks(Top) => "select" \notin removed /\ ~NoBlock /\ running
      /\ Len(stack) <= MaxDepth + 3 /\ MaxDepth \in Nat
  BY PartsFacts
<1>t. DataTyped /\ FlagsTyped
  BY TypeParts DEF Parts
<1>u. UNCHANGED <<svars, running, stopping, quit_funcs, looping>>
  BY DEF lvars
<1>0. Popped
  BY <1>f, IsPopped
<1>1. stack' \in Seq(Frame) /\ Len(stack') = Len(stack) - 1
  BY <1>0 DEF Popped
<1>2. OrderInv' /\ SigintInv'
  BY <1>0, <1>1, <1>u, LevelsUntouched
<1>3. /\ StackShaped' /\ Len(stack) > 1
      /\ Blocks(Top) => NoBlock'
      /\ ~Blocks(Top) => (NoBlock' <=> NoBlock)
      /\ \A k : Top.kind # k => (Active(k)' <=> Active(k))
      /\ \A k \in {"select", "idle"} : Blocks(Top) => ~Active(k)'
  <2>1. ~running' => removed' = {}
    BY <1>f, <1>u DEF StackShaped
  <2> QED
    BY <1>0, <1>f, <2>1, ShapePopped
<1>k. Top.kind \in {"select", "idle"} => Blocks(Top)
  BY BlocksKind
<1>4. FlagsInv'
  <2>1. may_iterate' <=> running' /\ NoBlock' /\ "select" \notin removed'
    BY <1>3, <1>f, <1>u DEF FlagsInv, Parts
  <2>2. attached' <=> may_iterate' \/ Active("select")'
    <3>1. ~Blocks(Top) => (Active("select")' <=> Active("select"))
      BY <1>3, <1>k
    <3> QED
      BY <1>3, <3>1 DEF FlagsInv, Parts
  <2>3. running /\ idle_tasks # <<>> /\ ~Active("idle")' /\ "idle" \notin removed
          => idle_source' = Head(idle_tasks)[1]
    <3>1. Top.kind # "idle" => (Active("idle")' <=> Active("idle"))
      BY <1>3
    <3> QED
      BY <3>1
  <2> QED
    BY <1>u, <2>1, <2>2, <2>3 DEF FlagsInv
<1>5. TypeOK'
  <2>1. Len(stack') \in 1 .. MaxDepth + 3
    BY <1>1, <1>3, <1>f
  <2>2. FlagsTyped'
    BY <1>t, <1>u DEF FlagsTyped, svars
  <2>3. DataTyped'
    BY <1>t, <1>u DEF DataTyped, svars
  <2> QED
    BY <1>1, <1>2, <2>1, <2>2, <2>3, TypeStep
<1>6. HandlesThere'
  <2>1. \A i \in 1 .. Len(stack') : i \in 1 .. Len(stack) - 1 /\ stack'[i] = stack[i]
    BY <1>0 DEF Popped
  <2>2. Len(ready) \in Nat /\ Len(ready') = Len(ready)
    BY <1>t DEF DataTyped
  <2> QED
    BY <1>1, <2>1, <2>2, HandlesStep
<1> QED
  BY <1>2, <1>3, <1>4, <1>5, <1>6 DEF Parts

LEMMA NoneActive ==
    ASSUME TypeOK, NoBlock
    PROVE  ~Active("select") /\ ~Active("idle")
<1>1. DOMAIN stack = 1 .. Len(stack)
  BY StackFacts
<1> QED
  BY <1>1, BlocksKind DEF NoBlock, Active

LEMMA DispatchIsGrown ==
    ASSUME TypeOK, NEW g \in Frame, Dispatch(g)
    PROVE  /\ Dispatched \in Frame /\ Grown(Dispatched, g) /\ Dispatched.kind = Top.kind
           /\ Top.kind \in {"run", "iterate"} /\ (Blocks(Dispatched) <=> Blocks(Top))
           /\ Top.kind = "run" => Dispatched.begun /\ Alike(Top, Dispatched)
<1>1. Iterating /\ stack' = Front(stack) \o <<Dispatched, g>>
  BY DEF Dispatch
<1> QED
  BY <1>1, DispatchedTyped, IsGrown

LEMMA IterateStep ==
    ASSUME Parts, Iterate
    PROVE  Parts'
<1> DEFINE g == [kind |-> "iterate", paused |-> may_iterate, dispatched |-> FALSE]
<1>1. /\ InCode /\ Len(stack) < MaxDepth /\ Call(g)
      /\ may_iterate' = FALSE /\ attached' = (attached /\ ~may_iterate)
      /\ UNCHANGED <<svars, lvars, ready, idle_tasks, idle_source, removed, status>>
  BY DEF Iterate
<1>f. TypeOK /\ Len(stack) \in Nat /\ MaxDepth \in Nat /\ Top.kind = "code"
  BY <1>1, PartsFacts DEF InCode
<1>t. DataTyped /\ FlagsTyped /\ Len(ready) \in Nat
  BY TypeParts DEF Parts, DataTyped
<1>g. g \in Frame /\ g.kind = "iterate" /\ (Blocks(g) <=> may_iterate)
  <2>1. g \in [kind : {"iterate"}, paused : BOOLEAN, dispatched : BOOLEAN] /\ g.kind = "iterate"
    BY <1>t DEF FlagsTyped
  <2> QED
    BY <2>1, BlocksKind DEF Frame
<1> HIDE DEF g
<1>2. PICK f \in Frame : Grown(f, g) /\ f.kind = "code" /\ Len(stack) <= MaxDepth
  BY <1>1, <1>f, <1>g, CallIsGrown
<1>3. ~Blocks(f) /\ ~Blocks(Top)
  BY <1>2, <1>f, BlocksKind
<1>4. DataTyped'
  BY <1>1, <1>t DEF DataTyped, svars, lvars
<1>5. /\ may_iterate <=> running /\ NoBlock /\ "select" \notin removed
      /\ attached <=> may_iterate \/ Active("select")
      /\ running <=> idle_source # NoSource
      /\ running /\ idle_tasks # <<>> /\ ~Active("idle") /\ "idle" \notin removed
          => idle_source = Head(idle_tasks)[1]
      /\ NoBlock => ~Active("select")
  BY <1>f, NoneActive DEF Parts, FlagsInv
<1>6. attached' \in BOOLEAN /\ may_iterate' \in BOOLEAN
  BY <1>1
<1>7. /\ may_iterate' <=> running /\ NoBlock /\ ~Blocks(g) /\ "select" \notin removed
      /\ attached' <=> may_iterate' \/ Active("select") \/ g.kind = "select"
  BY <1>1, <1>5, <1>g
<1> QED
  BY <1>1, <1>2, <1>3, <1>4, <1>5, <1>6, <1>7, <1>f, <1>g, <1>t, GrownStep

LEMMA IterationEndsStep ==
    ASSUME Parts, IterationEnds
    PROVE  Parts'
<1>1. /\ Top.kind = "iterate" /\ CallReturns
      /\ may_iterate' = (may_iterate \/ Top.paused) /\ attached' = (attached \/ Top.paused)
      /\ UNCHANGED <<svars, lvars, ready, idle_tasks, idle_source, removed, status>>
  BY DEF IterationEnds, Resume
<1>t. DataTyped /\ FlagsTyped
  BY TypeParts DEF Parts
<1>2. Blocks(Top) <=> Top.paused
  BY <1>1, BlocksKind
<1>3. /\ running <=> idle_source # NoSource
      /\ running /\ idle_tasks # <<>> /\ ~Active("idle") /\ "idle" \notin removed
          => idle_source = Head(idle_tasks)[1]
  BY DEF Parts, FlagsInv
<1>4. /\ may_iterate' \in BOOLEAN /\ attached' \in BOOLEAN
      /\ idle_source' \in Prio \cup {0, NoSource}
  BY <1>1, <1>t DEF DataTyped
<1>5. /\ may_iterate' <=> may_iterate \/ Blocks(Top)
      /\ attached' <=> attached \/ Blocks(Top)
  BY <1>1, <1>2
<1> QED
  BY <1>1, <1>3, <1>4, <1>5, PoppedStep

LEMMA DispatchOtherStep ==
    ASSUME Parts, DispatchOther
    PROVE  Parts'
<1>1. Len(stack) < MaxDepth /\ Dispatch(Code) /\ UNCHANGED <<svars, avars, lvars, status>>
  BY DEF DispatchOther
<1>f. TypeOK /\ Len(stack) \in Nat /\ MaxDepth \in Nat
  BY PartsFacts
<1>t. DataTyped /\ FlagsTyped /\ Len(ready) \in Nat
  BY TypeParts DEF Parts, DataTyped
<1>g. Code \in Frame /\ Code.kind = "code" /\ ~Blocks(Code)
  BY FramesTyped, BlocksKind
<1>2. /\ Dispatched \in Frame /\ Grown(Dispatched, Code) /\ Dispatched.kind = Top.kind
      /\ Top.kind \in {"run", "iterate"} /\ (Blocks(Dispatched) <=> Blocks(Top))
      /\ Top.kind = "run" => Dispatched.begun /\ Alike(Top, Dispatched)
  BY <1>1, <1>f, <1>g, DispatchIsGrown
<1>4. DataTyped'
  BY <1>1, <1>t DEF DataTyped, svars, lvars, avars
<1>5. UNCHANGED <<ready, idle_tasks, idle_source, may_iterate, attached, removed>>
  BY <1>1 DEF avars
<1>6. attached' \in BOOLEAN /\ may_iterate' \in BOOLEAN
  BY <1>5, <1>t DEF FlagsTyped
<1>7. /\ may_iterate' <=> running /\ NoBlock /\ ~Blocks(Code) /\ "select" \notin removed
      /\ attached' <=> may_iterate' \/ Active("select") \/ Code.kind = "select"
      /\ running <=> idle_source' # NoSource
      /\ running /\ idle_tasks' # <<>> /\ ~Active("idle") /\ Code.kind # "idle" /\ "idle" \notin removed
          => idle_source' = Head(idle_tasks')[1]
  BY <1>5, <1>g DEF Parts, FlagsInv
<1>8. Len(stack) <= MaxDepth + 2
  BY <1>1, <1>f
<1> QED
  BY <1>1, <1>2, <1>4, <1>5, <1>6, <1>7, <1>8, <1>g, <1>t, GrownStep

LEMMA DispatchSelectStep ==
    ASSUME Parts, DispatchSelect
    PROVE  Parts'
<1> DEFINE g == [kind |-> "select", todo |-> Len(ready)]
<1>1. /\ attached /\ ~Active("select") /\ Dispatch(g) /\ may_iterate' = FALSE
      /\ UNCHANGED <<svars, lvars, ready, idle_tasks, idle_source, attached, removed, status>>
  BY DEF DispatchSelect, SelectReady
<1>f. /\ TypeOK /\ Len(stack) \in Nat /\ MaxDepth \in Nat
      /\ Top.kind \in {"run", "iterate"} => Len(stack) <= MaxDepth + 1
  BY PartsFacts
<1>t. DataTyped /\ FlagsTyped /\ Len(ready) \in Nat
  BY TypeParts DEF Parts, DataTyped
<1>g. g \in Frame /\ g.kind = "select" /\ Blocks(g) /\ g.todo <= Len(ready)
  <2>1. g \in [kind : {"select"}, todo : Nat] /\ g.kind = "select" /\ g.todo = Len(ready)
    BY <1>t
  <2> QED
    BY <1>t, <2>1, BlocksKind DEF Frame
<1> HIDE DEF g
<1>2. /\ Dispatched \in Frame /\ Grown(Dispatched, g) /\ Dispatched.kind = Top.kind
      /\ Top.kind \in {"run", "iterate"} /\ (Blocks(Dispatched) <=> Blocks(Top))
      /\ Top.kind = "run" => Dispatched.begun /\ Alike(Top, Dispatched)
  BY <1>1, <1>f, <1>g, DispatchIsGrown
<1>3. NoBlock /\ "select" \notin removed /\ running
  BY <1>1 DEF Parts, FlagsInv
<1>4. DataTyped'
  BY <1>1, <1>t DEF DataTyped, svars, lvars
<1>6. attached' \in BOOLEAN /\ may_iterate' \in BOOLEAN
  BY <1>1, <1>t DEF FlagsTyped
<1>7. /\ may_iterate' <=> running /\ NoBlock /\ ~Blocks(g) /\ "select" \notin removed
      /\ attached' <=> may_iterate' \/ Active("select") \/ g.kind = "select"
      /\ running <=> idle_source' # NoSource
      /\ running /\ idle_tasks' # <<>> /\ ~Active("idle") /\ g.kind # "idle" /\ "idle" \notin removed
          => idle_source' = Head(idle_tasks')[1]
  BY <1>1, <1>g DEF Parts, FlagsInv
<1>8. Len(stack) <= MaxDepth + 2 /\ Len(stack) <= MaxDepth + 1
  BY <1>2, <1>f
<1> QED
  BY <1>1, <1>2, <1>3, <1>4, <1>6, <1>7, <1>8, <1>g, <1>t, GrownStep

LEMMA SelectEndsStep ==
    ASSUME Parts, SelectEnds
    PROVE  Parts'
<1>1. /\ Top.kind = "select" /\ CallReturns /\ may_iterate' = TRUE
      /\ UNCHANGED <<svars, lvars, ready, idle_tasks, idle_source, attached, removed, status>>
  BY DEF SelectEnds
<1>t. DataTyped /\ FlagsTyped
  BY TypeParts DEF Parts
<1>2. Blocks(Top) /\ Active("select")
  <2>1. Len(stack) \in DOMAIN stack /\ stack[Len(stack)] = Top
    BY StackFacts DEF Parts
  <2> QED
    BY <1>1, <2>1, BlocksKind DEF Active
<1>3. /\ running <=> idle_source # NoSource
      /\ running /\ idle_tasks # <<>> /\ ~Active("idle") /\ "idle" \notin removed
          => idle_source = Head(idle_tasks)[1]
      /\ attached
  BY <1>2 DEF Parts, FlagsInv
<1>4. /\ may_iterate' \in BOOLEAN /\ attached' \in BOOLEAN
      /\ idle_source' \in Prio \cup {0, NoSource}
  BY <1>1, <1>t DEF DataTyped, FlagsTyped
<1> QED
  BY <1>1, <1>2, <1>3, <1>4, PoppedStep

LEMMA ReturnStep ==
    ASSUME Parts, Return
    PROVE  Parts'
<1>1. /\ Top.kind = "code" /\ Len(stack) > 1 /\ CallReturns
      /\ UNCHANGED <<svars, avars, lvars, status>>
  BY DEF Return, InCode
<1>t. DataTyped /\ FlagsTyped
  BY TypeParts DEF Parts
<1>2. ~Blocks(Top)
  BY <1>1, BlocksKind
<1>3. /\ running <=> idle_source # NoSource
      /\ running /\ idle_tasks # <<>> /\ ~Active("idle") /\ "idle" \notin removed
          => idle_source = Head(idle_tasks)[1]
  BY DEF Parts, FlagsInv
<1>4. /\ may_iterate' \in BOOLEAN /\ attached' \in BOOLEAN
      /\ idle_source' \in Prio \cup {0, NoSource}
      /\ UNCHANGED <<ready, idle_tasks, idle_source, may_iterate, attached, removed>>
  BY <1>1, <1>t DEF DataTyped, FlagsTyped, avars
<1> QED
  BY <1>1, <1>2, <1>3, <1>4, PoppedStep

LEMMA IdleEndsStep ==
    ASSUME Parts, IdleEnds
    PROVE  Parts'
<1>1. /\ Top.kind = "idle" /\ CallReturns /\ idle_source' = NextPriority
      /\ may_iterate' = (may_iterate \/ Top.paused) /\ attached' = (attached \/ Top.paused)
      /\ UNCHANGED <<svars, lvars, ready, idle_tasks, removed, status>>
  BY DEF IdleEnds, Resume
<1>t. DataTyped /\ FlagsTyped
  BY TypeParts DEF Parts
<1>2. Blocks(Top) /\ Top.paused /\ running
  BY <1>1, BlocksKind, PartsFacts
<1>3. running <=> idle_source # NoSource
  BY DEF Parts, FlagsInv
<1>h. idle_tasks # <<>> => Head(idle_tasks)[1] \in Prio
  <2>1. idle_tasks # <<>> => Head(idle_tasks) \in Prio \X Handle
    BY <1>t DEF DataTyped
  <2> QED
    BY <2>1
<1>n. NoSource \notin Prio
  BY EventLoopAssumption DEF EventLoopAssumption
<1>4. /\ may_iterate' \in BOOLEAN /\ attached' \in BOOLEAN
      /\ idle_source' \in Prio \cup {0, NoSource} /\ idle_source' # NoSource
      /\ idle_tasks # <<>> => idle_source' = Head(idle_tasks)[1]
  <2>1. CASE idle_tasks = <<>>
    BY <1>1, <1>2, <1>3, <1>t, <2>1 DEF NextPriority, DataTyped
  <2>2. CASE idle_tasks # <<>>
    BY <1>1, <1>h, <1>n, <2>2 DEF NextPriority
  <2> QED
    BY <2>1, <2>2
<1>5. /\ may_iterate' <=> may_iterate \/ Blocks(Top)
      /\ attached' <=> attached \/ Blocks(Top)
  BY <1>1, <1>2
<1> QED
  BY <1>1, <1>2, <1>4, <1>5, PoppedStep

LEMMA TopSelect ==
    ASSUME Parts, Top.kind = "select"
    PROVE  /\ Top \in [kind : {"select"}, todo : Nat] /\ Top.todo <= Len(ready)
           /\ Active("select") /\ Blocks(Top)
<1>1. /\ Top \in Frame /\ Len(stack) \in DOMAIN stack /\ stack[Len(stack)] = Top
  BY StackFacts DEF Parts
<1>2. Top.todo <= Len(ready) /\ Active("select")
  BY <1>1 DEF Parts, HandlesThere, Active
<1> QED
  BY <1>1, <1>2, FrameKinds, BlocksKind

LEMMA RunHandleStep ==
    ASSUME Parts, RunHandle
    PROVE  Parts'
<1> DEFINE f == [Top EXCEPT !.todo = @ - 1]
<1>1. /\ Top.kind = "select" /\ Top.todo > 0
      /\ \/ Replace(f) /\ UNCHANGED status
         \/ /\ stack' = Front(stack) \o <<f, Code>>
            /\ status' = [status EXCEPT ![Head(ready)] = "ran"]
      /\ ready' = Tail(ready)
      /\ UNCHANGED <<svars, lvars, idle_tasks, idle_source, may_iterate, attached, removed>>
  BY DEF RunHandle
<1>t. DataTyped /\ FlagsTyped /\ Len(ready) \in Nat /\ ready \in Seq(Handle)
  BY TypeParts DEF Parts, DataTyped
<1>2. /\ Top \in [kind : {"select"}, todo : Nat] /\ Top.todo <= Len(ready)
      /\ Active("select") /\ Blocks(Top)
  BY <1>1, TopSelect
<1>3. TypeOK /\ Len(stack) \in Nat /\ MaxDepth \in Nat /\ Len(stack) <= MaxDepth + 2
  BY <1>1, PartsFacts
<1>f. /\ f \in Frame /\ f.kind = "select" /\ f.todo = Top.todo - 1 /\ Blocks(f)
  <2>1. Top.todo - 1 \in Nat
    BY <1>1, <1>2
  <2>2. f \in [kind : {"select"}, todo : Nat] /\ f.kind = "select" /\ f.todo = Top.todo - 1
    BY <1>2, <2>1
  <2> QED
    BY <2>2, BlocksKind DEF Frame
<1>g. Code \in Frame /\ Code.kind = "code" /\ ~Blocks(Code)
  BY FramesTyped, BlocksKind
<1> HIDE DEF f
<1>4. ready # <<>> /\ ready' \in Seq(Handle) /\ Len(ready') = Len(ready) - 1
  <2>1. ready # <<>>
    BY <1>1, <1>2, <1>t
  <2> QED
    BY <1>1, <1>t, <2>1
<1>5. DataTyped'
  <2>1. status' \in [Handle -> Status]
    BY <1>1, <1>t DEF DataTyped, Status
  <2> QED
    BY <1>1, <1>4, <1>t, <2>1 DEF DataTyped, svars, lvars
<1>6. f.todo <= Len(ready')
  <2>1. Top.todo \in Nat
    BY <1>2
  <2> QED
    BY <1>2, <1>f, <1>4, <1>t, <2>1
<1>7. CASE Replace(f)
  <2>1. Changed(f)
    BY <1>3, <1>7, <1>f, IsChanged
  <2> QED
    BY <1>1, <1>5, <1>6, <1>f, <2>1, ChangedStep
<1>8. CASE stack' = Front(stack) \o <<f, Code>>
  <2>1. Grown(f, Code)
    BY <1>3, <1>8, <1>f, <1>g, IsGrown
  <2>2. /\ may_iterate' <=> running /\ NoBlock /\ ~Blocks(Code) /\ "select" \notin removed
        /\ attached' <=> may_iterate' \/ Active("select") \/ Code.kind = "select"
        /\ running <=> idle_source' # NoSource
        /\ running /\ idle_tasks' # <<>> /\ ~Active("idle") /\ Code.kind # "idle" /\ "idle" \notin removed
            => idle_source' = Head(idle_tasks')[1]
    BY <1>1, <1>g DEF Parts, FlagsInv
  <2>3. attached' \in BOOLEAN /\ may_iterate' \in BOOLEAN
    BY <1>1, <1>t DEF FlagsTyped
  <2> QED
    BY <1>1, <1>2, <1>3, <1>5, <1>6, <1>f, <1>g, <2>1, <2>2, <2>3, GrownStep
<1> QED
  BY <1>1, <1>7, <1>8

LEMMA DispatchIdleStep ==
    ASSUME Parts, DispatchIdle
    PROVE  Parts'
<1>1. PICK n \in 0 .. Len(idle_tasks) :
         /\ Dispatch([kind |-> "idle", paused |-> may_iterate,
                      todo |-> [i \in 1 .. n |-> idle_tasks[i][2]]])
         /\ idle_tasks' = SubSeq(idle_tasks, n + 1, Len(idle_tasks))
  BY DEF DispatchIdle
<1> DEFINE g == [kind |-> "idle", paused |-> may_iterate,
                 todo |-> [i \in 1 .. n |-> idle_tasks[i][2]]]
<1>2. /\ Dispatch(g) /\ may_iterate
      /\ may_iterate' = FALSE /\ attached' = (attached /\ ~may_iterate)
      /\ UNCHANGED <<svars, lvars, ready, idle_source, removed, status>>
  BY <1>1 DEF DispatchIdle, IdleDispatchable, IdleReady
<1>f. /\ TypeOK /\ Len(stack) \in Nat /\ MaxDepth \in Nat
      /\ Top.kind \in {"run", "iterate"} => Len(stack) <= MaxDepth + 1
  BY PartsFacts
<1>t. DataTyped /\ FlagsTyped /\ Len(ready) \in Nat /\ idle_tasks \in Seq(Prio \X Handle)
  BY TypeParts DEF Parts, DataTyped
<1>g. g \in Frame /\ g.kind = "idle" /\ Blocks(g) /\ g.paused
  <2>1. \A i \in 1 .. n : idle_tasks[i][2] \in Handle
    <3>1. \A i \in 1 .. n : i \in 1 .. Len(idle_tasks)
      BY <1>t
    <3>2. \A i \in 1 .. n : idle_tasks[i] \in Prio \X Handle
      BY <1>t, <3>1, ElementOfSeq
    <3> QED
      BY <3>2
  <2>2. [i \in 1 .. n |-> idle_tasks[i][2]] \in Seq(Handle)
    BY <1>t, <2>1
  <2>3. /\ g \in [kind : {"idle"}, paused : BOOLEAN, todo : Seq(Handle)]
        /\ g.kind = "idle" /\ g.paused = may_iterate
    BY <1>t, <2>2 DEF FlagsTyped
  <2> QED
    BY <1>2, <2>3, BlocksKind DEF Frame
<1> HIDE DEF g
<1>3. /\ Dispatched \in Frame /\ Grown(Dispatched, g) /\ Dispatched.kind = Top.kind
      /\ Top.kind \in {"run", "iterate"} /\ (Blocks(Dispatched) <=> Blocks(Top))
      /\ Top.kind = "run" => Dispatched.begun /\ Alike(Top, Dispatched)
  BY <1>2, <1>f, <1>g, DispatchIsGrown
<1>4. NoBlock /\ "select" \notin removed /\ running /\ ~Active("select")
  BY <1>2, <1>f, NoneActive DEF Parts, FlagsInv
<1>5. DataTyped'
  <2>1. idle_tasks' \in Seq(Prio \X Handle)
    BY <1>1, <1>t
  <2> QED
    BY <1>2, <1>t, <2>1 DEF DataTyped, svars, lvars
<1>6. attached' \in BOOLEAN /\ may_iterate' \in BOOLEAN
  BY <1>2
<1>7. /\ may_iterate' <=> running /\ NoBlock /\ ~Blocks(g) /\ "select" \notin removed
      /\ attached' <=> may_iterate' \/ Active("select") \/ g.kind = "select"
      /\ running <=> idle_source' # NoSource
      /\ running /\ idle_tasks' # <<>> /\ ~Active("idle") /\ g.kind # "idle" /\ "idle" \notin removed
          => idle_source' = Head(idle_tasks')[1]
  BY <1>2, <1>4, <1>g DEF Parts, FlagsInv
<1>8. Len(stack) <= MaxDepth + 2 /\ Len(stack) <= MaxDepth + 1
  BY <1>3, <1>f
<1> QED
  BY <1>2, <1>3, <1>4, <1>5, <1>6, <1>7, <1>8, <1>g, <1>t, GrownStep

LEMMA RunIdleStep ==
    ASSUME Parts, RunIdle
    PROVE  Parts'
<1> DEFINE f == [Top EXCEPT !.todo = Tail(@)]
<1>1. /\ Top.kind = "idle" /\ Top.todo # <<>>
      /\ \/ Replace(f) /\ UNCHANGED status
         \/ /\ stack' = Front(stack) \o <<f, Code>>
            /\ status' = [status EXCEPT ![Head(Top.todo)] = "ran"]
      /\ UNCHANGED <<svars, avars, lvars>>
  BY DEF RunIdle
<1>t. DataTyped /\ FlagsTyped /\ Len(ready) \in Nat
  BY TypeParts DEF Parts, DataTyped
<1>3. /\ TypeOK /\ Len(stack) \in Nat /\ MaxDepth \in Nat /\ Len(stack) <= MaxDepth + 2
      /\ Top \in Frame /\ Top.paused /\ Blocks(Top)
  BY <1>1, PartsFacts, BlocksKind
<1>2. Top \in [kind : {"idle"}, paused : BOOLEAN, todo : Seq(Handle)]
  BY <1>1, <1>3, FrameKinds
<1>f. f \in Frame /\ f.kind = "idle" /\ f.paused /\ Blocks(f)
  <2>1. Tail(Top.todo) \in Seq(Handle)
    <3>1. Top.todo \in Seq(Handle)
      BY <1>2
    <3> QED
      BY <1>1, <3>1, HeadTailProperties
  <2>2. /\ f \in [kind : {"idle"}, paused : BOOLEAN, todo : Seq(Handle)]
        /\ f.kind = "idle" /\ f.paused = Top.paused
    BY <1>2, <2>1
  <2> QED
    BY <1>3, <2>2, BlocksKind DEF Frame
<1>g. Code \in Frame /\ Code.kind = "code" /\ ~Blocks(Code)
  BY FramesTyped, BlocksKind
<1> HIDE DEF f
<1>u. UNCHANGED <<ready, idle_tasks, idle_source, may_iterate, attached, removed>>
  BY <1>1 DEF avars
<1>5. DataTyped'
  <2>1. status' \in [Handle -> Status]
    BY <1>1, <1>t DEF DataTyped, Status
  <2> QED
    BY <1>1, <1>u, <1>t, <2>1 DEF DataTyped, svars, lvars
<1>7. CASE Replace(f)
  <2>1. Changed(f)
    BY <1>3, <1>7, <1>f, IsChanged
  <2> QED
    BY <1>1, <1>5, <1>f, <1>u, <2>1, ChangedStep
<1>8. CASE stack' = Front(stack) \o <<f, Code>>
  <2>1. Grown(f, Code)
    BY <1>3, <1>8, <1>f, <1>g, IsGrown
  <2>2. /\ may_iterate' <=> running /\ NoBlock /\ ~Blocks(Code) /\ "select" \notin removed
        /\ attached' <=> may_iterate' \/ Active("select") \/ Code.kind = "select"
        /\ running <=> idle_source' # NoSource
        /\ running /\ idle_tasks' # <<>> /\ ~Active("idle") /\ Code.kind # "idle" /\ "idle" \notin removed
            => idle_source' = Head(idle_tasks')[1]
    BY <1>u, <1>g DEF Parts, FlagsInv
  <2>3. attached' \in BOOLEAN /\ may_iterate' \in BOOLEAN
    BY <1>u, <1>t DEF FlagsTyped
  <2> QED
    BY <1>1, <1>3, <1>5, <1>f, <1>g, <1>t, <1>u, <2>1, <2>2, <2>3, GrownStep
<1> QED
  BY <1>1, <1>7, <1>8

LEMMA RaiseStep ==
    ASSUME Parts, Raise
    PROVE  Parts'
<1> DEFINE f == stack[Len(stack) - 1]
<1>1. /\ Top.kind = "code" /\ Len(stack) > 1 /\ f.kind \in {"select", "idle"}
      /\ stack' = SubSeq(stack, 1, Len(stack) - 2)
      /\ removed' = removed \cup {f.kind}
      /\ UNCHANGED <<svars, lvars, ready, idle_tasks, idle_source>>
  BY DEF Raise, InCode
<1>t. DataTyped /\ FlagsTyped /\ Len(ready) \in Nat /\ Len(stack) \in 1 .. MaxDepth + 3
  BY TypeParts DEF Parts, DataTyped
<1>u. UNCHANGED <<svars, running, stopping, quit_funcs, looping>>
  BY <1>1 DEF lvars
<1>f. /\ TypeOK /\ StackShaped /\ (running <=> Levels # <<>>) /\ Len(stack) \in Nat
      /\ Len(stack) >= 1 /\ MaxDepth \in Nat
  BY PartsFacts
<1>2. /\ StackShaped' /\ NoBlock' /\ ~Active("select")' /\ ~Active("idle")'
      /\ stack' = Front(Front(stack)) /\ stack' \in Seq(Frame) /\ Len(stack) > 2
      /\ Len(stack') = Len(stack) - 2
      /\ Levels # <<>> /\ "select" \notin removed /\ ~NoBlock
      /\ f \in Frame /\ (f.kind = "idle" => f.paused)
      /\ \A k \in {"select", "idle"} : Active(k) <=> k = f.kind
  BY <1>1, <1>f, <1>u, ShapeRaised
<1>s. CASE f.kind = "select"
  <2>1. attached' = FALSE /\ UNCHANGED <<may_iterate, status>>
    BY <1>s DEF Raise
  <2>2. DataTyped' /\ FlagsTyped'
    BY <1>1, <1>t, <1>u, <1>s, <2>1 DEF DataTyped, FlagsTyped, svars
  <2>3. ~may_iterate
    BY <1>2 DEF Parts, FlagsInv
  <2>4. FlagsInv'
    BY <1>1, <1>2, <1>f, <1>s, <1>u, <2>1, <2>3 DEF Parts, FlagsInv
  <2> QED
    <3> HIDE DEF f
    <3>1. OrderInv' /\ SigintInv'
      BY <1>1, <1>2, <1>u, LevelsUntouched DEF f
    <3>2. TypeOK'
      <4>1. Len(stack') \in 1 .. MaxDepth + 3
        BY <1>2, <1>t, <1>f
      <4> QED
        BY <1>2, <2>2, <3>1, <4>1, TypeStep
    <3>3. HandlesThere'
      <4>1. DOMAIN stack' = 1 .. Len(stack')
        BY <1>2
      <4> QED
        BY <1>2, <4>1, BlocksKind DEF HandlesThere, NoBlock
    <3> QED
      BY <1>2, <2>4, <3>1, <3>2, <3>3 DEF Parts
<1>i. CASE f.kind = "idle"
  <2>1. /\ may_iterate' = (may_iterate \/ f.paused) /\ attached' = (attached \/ f.paused)
        /\ status' = [h \in Handle |->
              IF Contains(f.todo, h) /\ status[h] = "waiting" THEN "lost" ELSE status[h]]
    BY <1>i DEF Raise, Resume
  <2>2. f.paused
    BY <1>2, <1>i
  <2> HIDE DEF f
  <2>3. may_iterate' = TRUE /\ attached' = TRUE
    BY <2>1, <2>2
  <2>4. DataTyped' /\ FlagsTyped'
    <3>1. status' \in [Handle -> Status]
      BY <1>t, <2>1 DEF DataTyped, Status
    <3> QED
      BY <1>1, <1>t, <1>u, <1>i, <2>3, <3>1 DEF DataTyped, FlagsTyped, svars
  <2>5. FlagsInv'
    <3>1. running /\ (running <=> idle_source # NoSource)
      BY <1>2, <1>f DEF Parts, FlagsInv
    <3> QED
      BY <1>1, <1>2, <1>i, <1>u, <2>3, <3>1 DEF FlagsInv
  <2>6. OrderInv' /\ SigintInv'
    BY <1>1, <1>2, <1>u, LevelsUntouched DEF f
  <2>7. TypeOK'
    <3>1. Len(stack') \in 1 .. MaxDepth + 3
      BY <1>2, <1>t, <1>f
    <3> QED
      BY <1>2, <2>4, <2>6, <3>1, TypeStep
  <2>8. HandlesThere'
    <3>1. DOMAIN stack' = 1 .. Len(stack')
      BY <1>2
    <3> QED
      BY <1>2, <3>1, BlocksKind DEF HandlesThere, NoBlock
  <2> QED
    BY <1>2, <2>5, <2>6, <2>7, <2>8 DEF Parts
<1> QED
  BY <1>1, <1>s, <1>i

(***************************************************************************)
(* The invariant.                                                          *)
(***************************************************************************)
LEMMA InitParts == Init => Parts
<1> SUFFICES ASSUME Init PROVE Parts
  OBVIOUS
<1>1. /\ stack = <<Code>> /\ ready = <<>> /\ idle_tasks = <<>> /\ idle_source = NoSource
      /\ may_iterate = FALSE /\ attached = FALSE /\ removed = {} /\ running = FALSE
      /\ stopping = FALSE /\ quit_funcs = <<>> /\ looping = {}
      /\ status = [h \in Handle |-> "new"]
      /\ callback_stack = <<>> /\ sigint_called = FALSE /\ handler = "default"
  BY DEF Init, SigintInit
<1>2. Code \in Frame /\ Code.kind = "code" /\ ~Blocks(Code)
  BY FramesTyped, BlocksKind
<1>3. /\ stack \in Seq(Frame) /\ Len(stack) = 1 /\ DOMAIN stack = {1} /\ stack[1] = Code
      /\ \A i \in 1 .. Len(stack) : i = 1
  BY <1>1, <1>2
<1>4. Levels = <<>>
  <2>1. <<>> \in Seq(Frame) /\ <<Code>> = Append(<<>>, Code)
    OBVIOUS
  <2>2. Code \notin RunFrame
    BY <1>2, FrameKinds
  <2>3. Only(Append(<<>>, Code), RunFrame) = Only(<<>>, RunFrame)
    BY <1>2, <2>1, <2>2, OnlyAppend
  <2> QED
    BY <1>1, <2>1, <2>3, OnlyEmpty DEF Levels
<1>5. Registered = <<>>
  BY <1>4, OnlyEmpty DEF Registered
<1>6. OrderInv
  <2>1. DOMAIN <<>> = {}
    OBVIOUS
  <2>2. quit_funcs = [i \in DOMAIN Levels |-> Levels[i].loop]
    BY <1>1, <1>4
  <2> QED
    BY <1>1, <1>4, <2>1, <2>2 DEF OrderInv, LevelsOrdered, QuitFuncsAgree, StopPassedOn
<1>7. SigintInv
  <2>1. DOMAIN <<>> = {} /\ Callbacks = <<>>
    BY <1>5 DEF Callbacks
  <2> QED
    BY <1>1, <1>5, <2>1 DEF SigintInv, SigintInOrder, BaseFirst
<1>8. TypeOK
  <2>1. DataTyped /\ FlagsTyped
    <3>1. FlagsTyped
      BY <1>1 DEF FlagsTyped
    <3>2. /\ ready \in Seq(Handle) /\ idle_tasks \in Seq(Prio \X Handle)
          /\ callback_stack \in Seq(Loop)
      BY <1>1
    <3>3. status \in [Handle -> Status]
      BY <1>1 DEF Status
    <3>4. idle_source \in Prio \cup {0, NoSource} /\ handler \in {"default", "ours"}
      BY <1>1
    <3> QED
      BY <1>1, <3>1, <3>2, <3>3, <3>4 DEF DataTyped
  <2>2. Len(stack) \in 1 .. MaxDepth + 3
    BY <1>3, EventLoopAssumption DEF EventLoopAssumption
  <2>3. quit_funcs \in Seq(Loop) /\ Len(quit_funcs) <= Cardinality(Loop)
    <3>1. Cardinality(Loop) \in Nat
      BY EventLoopAssumption, FS_CardinalityType DEF EventLoopAssumption
    <3>2. quit_funcs \in Seq(Loop) /\ Len(quit_funcs) = 0
      BY <1>1
    <3> QED
      BY <3>1, <3>2
  <2> QED
    BY <1>3, <2>1, <2>2, <2>3, TypeParts
<1>9. StackShaped /\ HandlesThere /\ ~Active("select") /\ ~Active("idle")
  BY <1>1, <1>2, <1>3 DEF StackShaped, HandlesThere, Active
<1>10. FlagsInv
  BY <1>1, <1>9 DEF FlagsInv
<1> QED
  BY <1>6, <1>7, <1>8, <1>9, <1>10 DEF Parts

LEMMA NextParts == Parts /\ [Next]_vars => Parts'
<1> SUFFICES ASSUME Parts, [Next]_vars PROVE Parts'
  OBVIOUS
<1>1. ASSUME NEW h \in Handle, CallSoon(h) PROVE Parts'
  BY <1>1, CallSoonStep
<1>2. ASSUME NEW h \in Handle, Cancel(h) PROVE Parts'
  BY <1>2, CancelStep
<1>3. ASSUME NEW h \in Handle, NEW p \in Prio, CallSoonIdle(h, p) PROVE Parts'
  BY <1>3, CallSoonIdleStep
<1>4. ASSUME NEW l \in Loop, RunLoop(l) PROVE Parts'
  BY <1>4, RunLoopStep
<1>5. ASSUME NEW l \in Loop, Quit(l) PROVE Parts'
  BY <1>5, QuitStep
<1>6. CASE UNCHANGED vars
  <2>1. UNCHANGED <<svars, avars, lvars, stack, status>>
    BY <1>6 DEF vars
  <2>2. UNCHANGED <<callback_stack, sigint_called, handler, ready, idle_tasks, idle_source,
                    may_iterate, attached, removed, running, stopping, quit_funcs, looping>>
    BY <2>1 DEF svars, avars, lvars
  <2>t. stack \in Seq(Frame) /\ Len(stack) \in 1 .. MaxDepth + 3 /\ DataTyped /\ FlagsTyped
    BY TypeParts DEF Parts
  <2>3. OrderInv' /\ SigintInv'
    BY <2>1, <2>2, <2>t, LevelsUntouched
  <2>4. DataTyped' /\ FlagsTyped' /\ Len(ready) \in Nat
    BY <2>1, <2>2, <2>t DEF DataTyped, FlagsTyped
  <2>5. TypeOK'
    BY <2>1, <2>3, <2>4, <2>t, TypeStep
  <2>6. StackShaped' /\ (NoBlock' <=> NoBlock) /\ \A k : Active(k)' <=> Active(k)
    BY <2>1, <2>2, StackUntouched
  <2>7. FlagsInv'
    BY <2>2, <2>6 DEF Parts, FlagsInv
  <2>8. HandlesThere'
    BY <2>1, <2>2, <2>4, HandlesSame
  <2> QED
    BY <2>3, <2>5, <2>6, <2>7, <2>8 DEF Parts
<1>7. Begin \/ Leave \/ Stop \/ Sigint => Parts'
  BY BeginStep, LeaveStep, StopStep, SigintStep
<1>8. Iterate \/ IterationEnds \/ DispatchOther \/ DispatchSelect \/ RunHandle \/ SelectEnds => Parts'
  BY IterateStep, IterationEndsStep, DispatchOtherStep, DispatchSelectStep, RunHandleStep,
     SelectEndsStep
<1>9. DispatchIdle \/ RunIdle \/ IdleEnds \/ Return \/ Raise => Parts'
  BY DispatchIdleStep, RunIdleStep, IdleEndsStep, ReturnStep, RaiseStep
<1> QED
  BY <1>1, <1>2, <1>3, <1>4, <1>5, <1>6, <1>7, <1>8, <1>9 DEF Next

\* Every reachable state satisfies the inductive invariant of EventLoop: the
\* stack has the shape that the actions give it, the levels are in order, and
\* the three properties below.
THEOREM Invariance == Spec => []IInv
<1>1. Init => Parts
  BY InitParts
<1>2. Parts /\ [Next]_vars => Parts'
  BY NextParts
<1>3. Parts => IInv
  BY InvariantParts
<1> QED
  BY <1>1, <1>2, <1>3, PTL DEF Spec

\* The Python part of the main loop is never entered while it is running, the
\* selector's source is attached and asyncio may be iterated exactly when the
\* calls in progress allow it, the idle source has the priority of the first
\* task, and the quit functions are those of the levels (running and paused
\* of _GLibEventLoopMixin, _glib_dispatch, _glib_idle_dispatch).
THEOREM Consistent == Spec => []LoopConsistent
<1>1. IInv => LoopConsistent
  BY DEF IInv
<1> QED
  BY <1>1, Invariance, PTL

\* stop() reaches the innermost level that was there when it was called, and
\* passes on from it when that one is left (running of _GLibEventLoopMixin).
THEOREM StopReaches == Spec => []StopPassedOn
<1>1. IInv => StopPassedOn
  BY DEF IInv
<1> QED
  BY <1>1, Invariance, PTL

\* SIGINT's callbacks are those of the registered levels, called in the
\* reverse order of their registration, and the handler is installed exactly
\* as long as a level needs it (register_sigint_fallback).
THEOREM SigintOrdered == Spec => []SigintInOrder
<1>1. IInv => SigintInOrder
  BY DEF IInv
<1> QED
  BY <1>1, Invariance, PTL
=============================================================================
