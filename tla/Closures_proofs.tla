-------------------------- MODULE Closures_proofs --------------------------
(***************************************************************************)
(* Safety of what C keeps of Python callables.  First the closures of an   *)
(* object and the weak references to it, for any number of both.  Then     *)
(* the native closures, for any number of blocks, activations and calls:   *)
(* as long as C does not destroy a callback inside itself (NotifyInUse).   *)
(***************************************************************************)
EXTENDS WeakRef, CallbackClosure, FiniteSetTheorems, TLAPS

(***************************************************************************)
(* The lists of closures.                                                  *)
(***************************************************************************)

\* g_slist_prepend, of something new.
LEMMA Prepended ==
    ASSUME NEW S, NEW s \in Seq(S), NEW c \in S, IsInjective(s), c \notin ToSet(s)
    PROVE  /\ <<c>> \o s \in Seq(S) /\ IsInjective(<<c>> \o s)
           /\ ToSet(<<c>> \o s) = {c} \cup ToSet(s)
<1> DEFINE t == <<c>> \o s
<1>1. /\ t \in Seq(S) /\ Len(t) = Len(s) + 1 /\ Len(s) \in Nat
      /\ t[1] = c /\ \A i \in 1..Len(s) : t[i + 1] = s[i]
  OBVIOUS
<1>2. DOMAIN s = 1..Len(s) /\ DOMAIN t = 1..(Len(s) + 1)
  BY <1>1
<1>3. \A i \in 2..(Len(s) + 1) : i - 1 \in 1..Len(s) /\ t[i] = s[i - 1]
  <2> TAKE i \in 2..(Len(s) + 1)
  <2>1. i - 1 \in 1..Len(s) /\ (i - 1) + 1 = i
    BY <1>1
  <2> QED
    BY <1>1, <2>1
<1> HIDE DEF t
<1>4. ToSet(t) = {c} \cup ToSet(s)
  <2>1. ASSUME NEW x \in ToSet(t) PROVE x \in {c} \cup ToSet(s)
    <3>1. PICK i \in 1..(Len(s) + 1) : x = t[i]
      BY <1>2, <2>1 DEF ToSet
    <3>2. i = 1 \/ i \in 2..(Len(s) + 1)
      BY <1>1
    <3> QED
      BY <1>1, <1>2, <1>3, <3>1, <3>2 DEF ToSet
  <2>2. c \in ToSet(t)
    BY <1>1, <1>2 DEF ToSet
  <2>3. ASSUME NEW x \in ToSet(s) PROVE x \in ToSet(t)
    <3>1. PICK i \in 1..Len(s) : x = s[i]
      BY <1>2, <2>3 DEF ToSet
    <3>2. i + 1 \in 1..(Len(s) + 1)
      BY <1>1
    <3> QED
      BY <1>1, <1>2, <3>1, <3>2 DEF ToSet
  <2> QED
    BY <2>1, <2>2, <2>3
<1>5. IsInjective(t)
  <2> SUFFICES ASSUME NEW i \in 1..(Len(s) + 1), NEW j \in 1..(Len(s) + 1), t[i] = t[j]
               PROVE  i = j
    BY <1>2 DEF IsInjective
  <2>1. \A k \in 2..(Len(s) + 1) : t[k] # c
    BY <1>2, <1>3 DEF ToSet
  <2>2. CASE i = 1 \/ j = 1
    <3>1. (i = 1 \/ i \in 2..(Len(s) + 1)) /\ (j = 1 \/ j \in 2..(Len(s) + 1))
      BY <1>1
    <3> QED
      BY <1>1, <2>1, <2>2, <3>1
  <2>3. CASE i # 1 /\ j # 1
    <3>1. i \in 2..(Len(s) + 1) /\ j \in 2..(Len(s) + 1)
      BY <1>1, <2>3
    <3>2. s[i - 1] = s[j - 1] /\ i - 1 \in DOMAIN s /\ j - 1 \in DOMAIN s
      BY <1>2, <1>3, <3>1
    <3> QED
      BY <3>1, <3>2 DEF IsInjective
  <2> QED
    BY <2>2, <2>3
<1> QED
  BY <1>1, <1>4, <1>5 DEF t

\* g_slist_remove, from a list that has everything once.
LEMMA Removed ==
    ASSUME NEW S, NEW s \in Seq(S), NEW c, IsInjective(s)
    PROVE  /\ RemoveFirst(s, c) \in Seq(S) /\ IsInjective(RemoveFirst(s, c))
           /\ ToSet(RemoveFirst(s, c)) = ToSet(s) \ {c}
<1>1. CASE ~\E i \in 1..Len(s) : s[i] = c
  <2>1. RemoveFirst(s, c) = s
    BY <1>1 DEF RemoveFirst
  <2>2. c \notin ToSet(s)
    BY <1>1 DEF ToSet
  <2> QED
    BY <2>1, <2>2
<1>2. CASE \E i \in 1..Len(s) : s[i] = c
  <2>1. PICK k \in 1..Len(s) : s[k] = c
    BY <1>2
  <2>2. {i \in 1..Len(s) : s[i] = c} = {k}
    BY <2>1 DEF IsInjective
  <2>3. Min({k}) = k
    BY DEF Min
  <2>4. SelectInSeq(s, LAMBDA v : v = c) = k
    BY <2>2, <2>3 DEF SelectInSeq
  <2> DEFINE t == RemoveAt(s, k)
  <2>5. RemoveFirst(s, c) = t
    BY <1>2, <2>4 DEF RemoveFirst
  <2>6. /\ t \in Seq(S) /\ Len(t) = Len(s) - 1 /\ Len(s) \in Nat
        /\ \A i \in 1..(Len(s) - 1) : t[i] = IF i < k THEN s[i] ELSE s[i + 1]
    <3> DEFINE a == SubSeq(s, 1, k - 1)
               b == SubSeq(s, k + 1, Len(s))
    <3>1. /\ a \in Seq(S) /\ Len(a) = k - 1 /\ \A i \in 1..(k - 1) : a[i] = s[i]
          /\ b \in Seq(S) /\ Len(b) = Len(s) - k /\ \A i \in 1..(Len(s) - k) : b[i] = s[k + i]
      BY <2>1
    <3>2. t = a \o b
      BY DEF RemoveAt
    <3> HIDE DEF a, b
    <3>3. /\ a \o b \in Seq(S) /\ Len(a \o b) = Len(s) - 1
          /\ \A i \in 1..(Len(s) - 1) :
                (a \o b)[i] = IF i <= k - 1 THEN a[i] ELSE b[i - (k - 1)]
      BY <2>1, <3>1
    <3>4. ASSUME NEW i \in 1..(Len(s) - 1)
          PROVE  (a \o b)[i] = IF i < k THEN s[i] ELSE s[i + 1]
      <4>1. CASE i < k
        <5>1. i \in 1..(k - 1) /\ i <= k - 1
          BY <2>1, <4>1
        <5> QED
          BY <3>1, <3>3, <4>1, <5>1
      <4>2. CASE ~(i < k)
        <5>1. i - (k - 1) \in 1..(Len(s) - k) /\ k + (i - (k - 1)) = i + 1 /\ ~(i <= k - 1)
          BY <2>1, <4>2
        <5>2. b[i - (k - 1)] = s[i + 1]
          BY <3>1, <5>1
        <5> QED
          BY <3>3, <4>2, <5>1, <5>2
      <4> QED
        BY <4>1, <4>2
    <3> QED
      BY <3>2, <3>3, <3>4
  <2> HIDE DEF t
  <2>7. DOMAIN s = 1..Len(s) /\ DOMAIN t = 1..(Len(s) - 1)
    BY <2>6
  <2>8. ToSet(t) \subseteq ToSet(s) \ {c}
    <3> SUFFICES ASSUME NEW i \in 1..(Len(s) - 1) PROVE t[i] \in ToSet(s) \ {c}
      BY <2>7 DEF ToSet
    <3>1. CASE i < k
      BY <2>1, <2>6, <2>7, <3>1 DEF ToSet, IsInjective
    <3>2. CASE ~(i < k)
      <4>1. i + 1 \in 1..Len(s) /\ i + 1 # k
        BY <2>6, <3>2
      <4> QED
        BY <2>1, <2>6, <2>7, <3>2, <4>1 DEF ToSet, IsInjective
    <3> QED
      BY <3>1, <3>2
  <2>9. ToSet(s) \ {c} \subseteq ToSet(t)
    <3> SUFFICES ASSUME NEW j \in 1..Len(s), s[j] # c PROVE s[j] \in ToSet(t)
      BY <2>7 DEF ToSet
    <3>1. CASE j < k
      <4>1. j \in 1..(Len(s) - 1) /\ t[j] = s[j]
        BY <2>6, <3>1
      <4> QED
        BY <2>7, <4>1 DEF ToSet
    <3>2. CASE ~(j < k)
      <4>1. j # k
        BY <2>1
      <4>2. j - 1 \in 1..(Len(s) - 1) /\ ~(j - 1 < k) /\ (j - 1) + 1 = j
        BY <2>1, <2>6, <3>2, <4>1
      <4>3. t[j - 1] = s[j]
        BY <2>6, <4>2
      <4> QED
        BY <2>7, <4>2, <4>3 DEF ToSet
    <3> QED
      BY <3>1, <3>2
  <2>10. IsInjective(t)
    <3> SUFFICES ASSUME NEW i \in 1..(Len(s) - 1), NEW j \in 1..(Len(s) - 1), t[i] = t[j]
                 PROVE  i = j
      BY <2>7 DEF IsInjective
    <3> DEFINE at(n) == IF n < k THEN n ELSE n + 1
    <3>1. \A n \in 1..(Len(s) - 1) : at(n) \in 1..Len(s) /\ t[n] = s[at(n)]
      BY <2>6
    <3>2. at(i) = at(j)
      BY <2>7, <3>1 DEF IsInjective
    <3> QED
      BY <3>2
  <2> QED
    BY <2>5, <2>6, <2>8, <2>9, <2>10
<1> QED
  BY <1>1, <1>2

\* The link a walk has done with, of a list that has everything once.
LEMMA Walked ==
    ASSUME NEW S, NEW s \in Seq(S), s # <<>>, IsInjective(s)
    PROVE  /\ Tail(s) \in Seq(S) /\ IsInjective(Tail(s))
           /\ Head(s) \in S /\ Head(s) \in ToSet(s)
           /\ ToSet(Tail(s)) = ToSet(s) \ {Head(s)}
<1> DEFINE t == Tail(s)
<1>1. /\ t \in Seq(S) /\ Len(t) = Len(s) - 1 /\ Len(s) \in Nat \ {0}
      /\ \A i \in 1..(Len(s) - 1) : t[i] = s[i + 1]
      /\ Head(s) = s[1] /\ s[1] \in S
  OBVIOUS
<1>2. DOMAIN s = 1..Len(s) /\ DOMAIN t = 1..(Len(s) - 1) /\ 1 \in 1..Len(s)
  BY <1>1
<1> HIDE DEF t
<1>3. ToSet(t) \subseteq ToSet(s) \ {s[1]}
  <2> SUFFICES ASSUME NEW i \in 1..(Len(s) - 1) PROVE t[i] \in ToSet(s) \ {s[1]}
    BY <1>2 DEF ToSet
  <2>1. i + 1 \in 1..Len(s) /\ i + 1 # 1 /\ t[i] = s[i + 1]
    BY <1>1
  <2> QED
    BY <1>2, <2>1 DEF ToSet, IsInjective
<1>4. ToSet(s) \ {s[1]} \subseteq ToSet(t)
  <2> SUFFICES ASSUME NEW j \in 1..Len(s), s[j] # s[1] PROVE s[j] \in ToSet(t)
    BY <1>2 DEF ToSet
  <2>1. j # 1
    OBVIOUS
  <2>2. j - 1 \in 1..(Len(s) - 1) /\ (j - 1) + 1 = j
    BY <1>1, <2>1
  <2>3. t[j - 1] = s[j]
    BY <1>1, <2>2
  <2> QED
    BY <1>2, <2>2, <2>3 DEF ToSet
<1>5. IsInjective(t)
  <2> SUFFICES ASSUME NEW i \in 1..(Len(s) - 1), NEW j \in 1..(Len(s) - 1), t[i] = t[j]
               PROVE  i = j
    BY <1>2 DEF IsInjective
  <2>1. i + 1 \in 1..Len(s) /\ j + 1 \in 1..Len(s) /\ s[i + 1] = s[j + 1]
    BY <1>1
  <2>2. i + 1 = j + 1
    BY <1>2, <2>1 DEF IsInjective
  <2> QED
    BY <2>2
<1>6. s[1] \in ToSet(s)
  BY <1>2 DEF ToSet
<1> QED
  BY <1>1, <1>3, <1>4, <1>5, <1>6 DEF t

(***************************************************************************)
(* The closures and the object.                                            *)
(***************************************************************************)

\* Steps of the object and its wrapper, and of a search, leave the closures as
\* they are.
LEMMA ObjectStep ==
    ASSUME ClosuresIInv, UNCHANGED <<closure_vars, closures, tmp, released>>,
           search' \subseteq Closure, lost' \in BOOLEAN, owned' \in BOOLEAN, wrapper' \in BOOLEAN, do_dispose' \in BOOLEAN,
           held' \in 0..MaxHeld, gc' \in {"idle", "found", "clearing"},
           cleared' \subseteq Closure, made' = made,
           \/ obj \in {"alive", "disposing"} /\ obj' \in {"alive", "disposing"}
           \/ obj' = obj /\ (owned' => owned) /\ (wrapper' => wrapper)
    PROVE  ClosuresIInv'
<1> USE DEF ClosuresIInv, closure_vars
<1>1. TypeOK'
  BY DEF TypeOK
<1>2. ListedHavePython' /\ UnwatchedBeforeFree' /\ NoPythonLeft'
  BY DEF ListedHavePython, UnwatchedBeforeFree, NoPythonLeft
<1>3. FreedAlone' /\ WalkedLive'
  BY DEF FreedAlone, WalkedLive
<1> QED
  BY <1>1, <1>2, <1>3

\* What becomes of a closure that lost a reference.
LEMMA UnrefStages ==
    ASSUME TypeOK, NEW c \in Closure, NEW others \in BOOLEAN
    PROVE  /\ AfterUnref(c, others) \in {"none", "live", "invalid", "unwatched",
                                         "dropping", "dead"}
           /\ stage[c] = "live" => AfterUnref(c, others) = IF others THEN "live" ELSE "invalid"
           /\ Invalidating(c) => AfterUnref(c, others) = stage[c]
           /\ stage[c] \in {"none", "dead"} =>
                 AfterUnref(c, others) = IF others THEN stage[c] ELSE "none"
BY DEF TypeOK, AfterUnref, Invalidating

LEMMA UnrefStep ==
    ASSUME ClosuresIInv, NEW c \in Closure,
           UNCHANGED <<object_vars, cyclic, closures, tmp, gc_vars, made>>,
           released \subseteq released', released' \subseteq Closure,
           search' \subseteq Closure, lost' \in BOOLEAN,
           obj = "freeing" /\ stage[c] = "live" => c \in released',
           handler' \in [Closure -> BOOLEAN], kept' \in [Closure -> BOOLEAN],
           running' \in [Closure -> BOOLEAN],
           \A d \in Closure : /\ handler'[d] => handler[d]
                              /\ kept'[d] => kept[d]
                              /\ running'[d] => running[d],
           stage' = [stage EXCEPT ![c] = AfterUnref(c, handler'[c] \/ kept'[c] \/ running'[c])]
    PROVE  ClosuresIInv'
<1> USE DEF ClosuresIInv, object_vars, gc_vars
<1> DEFINE others == handler'[c] \/ kept'[c] \/ running'[c]
<1>1. /\ \A d \in Closure \ {c} : stage'[d] = stage[d]
      /\ stage'[c] = AfterUnref(c, others)
  BY DEF TypeOK
<1>2. /\ stage'[c] \in {"none", "live", "invalid", "unwatched", "dropping", "dead"}
      /\ stage[c] = "live" => stage'[c] = IF others THEN "live" ELSE "invalid"
      /\ stage[c] \in {"invalid", "unwatched", "dropping"} => stage'[c] = stage[c]
      /\ stage[c] \in {"none", "dead"} => stage'[c] = IF others THEN stage[c] ELSE "none"
  <2>1. others \in BOOLEAN
    OBVIOUS
  <2> QED
    BY <1>1, <2>1, UnrefStages DEF Invalidating
<1>3. stage[c] \in {"none", "live", "invalid", "unwatched", "dropping", "dead"}
  BY DEF TypeOK
<1> HIDE DEF others
<1>4. TypeOK'
  <2>1. stage' \in [Closure -> {"none", "live", "invalid", "unwatched", "dropping", "dead"}]
    BY <1>1, <1>2 DEF TypeOK
  <2>2. stage'[c] = "none" => ~handler'[c] /\ ~kept'[c] /\ ~running'[c] /\ ~cyclic'[c]
    <3> SUFFICES ASSUME stage'[c] = "none" PROVE ~others /\ ~cyclic[c]
      BY DEF others
    <3>1. stage[c] \in {"none", "dead"}
      BY <1>2, <1>3
    <3>2. ~cyclic[c]
      BY <3>1 DEF NoPythonLeft
    <3>3. ~others
      <4>1. CASE stage[c] = "none"
        BY <4>1 DEF TypeOK, others
      <4>2. CASE stage[c] = "dead"
        BY <1>2, <4>2
      <4> QED
        BY <3>1, <4>1, <4>2
    <3> QED
      BY <3>2, <3>3
  <2>3. \A d \in Closure : stage'[d] = "none" =>
            ~handler'[d] /\ ~kept'[d] /\ ~running'[d] /\ ~cyclic'[d]
    BY <1>1, <2>2 DEF TypeOK
  <2> QED
    BY <2>1, <2>3 DEF TypeOK
<1>5. ListedHavePython'
  BY <1>1, <1>2, <1>3 DEF ListedHavePython
<1>6. UnwatchedBeforeFree' /\ WalkedLive'
  <2>1. ToSet(tmp) \subseteq Closure
    BY DEF TypeOK, ToSet
  <2>2. /\ stage'[c] = stage[c] \/ stage[c] \in {"live", "dead"}
        /\ stage'[c] = "live" => stage[c] = "live"
        /\ stage'[c] = "invalid" => stage[c] \in {"live", "invalid"}
        /\ tmp' = tmp /\ obj' = obj
    BY <1>2, <1>3
  <2>3. UnwatchedBeforeFree'
    <3>1. \A d \in ToSet(tmp) : stage'[d] # "none" \/ d \in released'
      <4> TAKE d \in ToSet(tmp)
      <4>1. d \in Closure /\ (stage[d] = "live" \/ d \in released)
        BY <2>1 DEF WalkedLive
      <4>2. stage[d] = "live" => stage'[d] # "none"
        BY <1>1, <1>2, <4>1
      <4> QED
        BY <4>1, <4>2
    <3>2. obj = "gone" => \A d \in Closure :
             stage'[d] # "live" /\ (stage'[d] = "invalid" => d \in released')
      BY <1>1, <2>2 DEF UnwatchedBeforeFree
    <3> QED
      BY <2>2, <3>1, <3>2 DEF UnwatchedBeforeFree
  <2>4. WalkedLive'
    <3>1. \A d \in ToSet(tmp) : stage'[d] = "live" \/ d \in released'
      BY <1>1, <2>1, <2>2 DEF WalkedLive, ToSet
    <3>2. obj = "freeing" => \A d \in Closure : stage'[d] = "live" => d \in ToSet(tmp)
      BY <1>1, <2>2 DEF WalkedLive
    <3> QED
      BY <2>2, <3>1, <3>2 DEF WalkedLive
  <2> QED
    BY <2>3, <2>4
<1>7. NoPythonLeft' /\ FreedAlone'
  BY <1>1, <1>2, <1>3 DEF NoPythonLeft, FreedAlone
<1> QED
  BY <1>4, <1>5, <1>6, <1>7

LEMMA ClosureStepKeeps ==
    ASSUME ClosuresIInv, NEW c \in Closure, ClosureStep(c)
    PROVE  ClosuresIInv'
<1> USE DEF ClosuresIInv
<1>1. ASSUME NEW ext \in BOOLEAN, NEW cyc \in BOOLEAN, Connect(c, ext, cyc)
      PROVE  ClosuresIInv'
  <2>1. /\ obj \in {"alive", "disposing"} /\ stage[c] = "none" /\ made < MaxMade
        /\ stage' = [stage EXCEPT ![c] = "live"]
        /\ cyclic' = [cyclic EXCEPT ![c] = cyc] /\ made' = made + 1
        /\ handler' = [handler EXCEPT ![c] = ~ext] /\ kept' = [kept EXCEPT ![c] = ext]
        /\ closures' = <<c>> \o closures
        /\ released' = released \ {c}
        /\ UNCHANGED <<object_vars, running, tmp, search, lost, gc_vars>>
    BY <1>1 DEF Connect, NewClosure, Watched
  <2>2. c \notin ToSet(closures)
    BY <2>1 DEF ListedHavePython
  <2>3. /\ closures' \in Seq(Closure) /\ IsInjective(closures')
        /\ ToSet(closures') = {c} \cup ToSet(closures)
    BY <2>1, <2>2, Prepended DEF TypeOK, ListedHavePython
  <2>4. made' \in 0..MaxMade
    BY <2>1, ConstantsAssumption DEF TypeOK
  <2>5. TypeOK'
    BY <2>1, <2>3, <2>4 DEF TypeOK, object_vars, gc_vars
  <2>6. ListedHavePython'
    BY <2>1, <2>3 DEF TypeOK, ListedHavePython, object_vars
  <2>7. tmp = <<>> /\ ToSet(tmp) = {}
    <3>1. tmp = <<>>
      BY <2>1 DEF WalkedLive
    <3> QED
      BY <3>1 DEF ToSet
  <2>8. UnwatchedBeforeFree' /\ NoPythonLeft' /\ FreedAlone' /\ WalkedLive'
    BY <2>1, <2>7 DEF TypeOK, UnwatchedBeforeFree, NoPythonLeft, FreedAlone, WalkedLive,
                object_vars
  <2> QED
    BY <2>5, <2>6, <2>8
<1>2. CASE DisconnectFound(c) \/ Disconnect(c)
  <2>1. /\ handler[c] /\ handler' = [handler EXCEPT ![c] = FALSE] /\ obj # "freeing"
        /\ stage' = [stage EXCEPT ![c] = AfterUnref(c, kept[c] \/ running[c])]
        /\ UNCHANGED <<object_vars, kept, running, cyclic, closures, tmp, released,
                       gc_vars, made>>
        /\ search' \subseteq Closure /\ lost' = lost
    BY <1>2 DEF DisconnectFound, Disconnect, HandlerGoes, FreedAlone, TypeOK
  <2>2. handler' \in [Closure -> BOOLEAN] /\ ~handler'[c] /\ \A d \in Closure : handler'[d] => handler[d]
    BY <2>1 DEF TypeOK
  <2> QED
    BY <2>1, <2>2, UnrefStep DEF TypeOK
<1>3. CASE Release(c)
  <2>1. kept' = [kept EXCEPT ![c] = FALSE]
    BY <1>3 DEF Release
  <2>2. kept' \in [Closure -> BOOLEAN] /\ ~kept'[c] /\ \A d \in Closure : kept'[d] => kept[d]
    BY <2>1 DEF TypeOK
  <2>3. /\ released \subseteq released' /\ released' \subseteq Closure
        /\ obj = "freeing" /\ stage[c] = "live" => c \in released'
    BY <1>3 DEF Release, TypeOK, FreedAlone
  <2> QED
    BY <1>3, <2>1, <2>2, <2>3, UnrefStep DEF Release, TypeOK
<1>4. CASE Emit(c)
  <2>1. /\ handler[c] /\ stage[c] = "live" /\ running' = [running EXCEPT ![c] = TRUE]
        /\ UNCHANGED <<object_vars, stage, handler, kept, cyclic, closures, walks, gc_vars, made>>
    BY <1>4 DEF Emit
  <2>2. obj \notin {"freeing", "gone"}
    BY <2>1 DEF FreedAlone
  <2>3. TypeOK'
    BY <2>1 DEF TypeOK, object_vars, gc_vars, walks
  <2>4. ListedHavePython' /\ UnwatchedBeforeFree' /\ NoPythonLeft' /\ FreedAlone' /\ WalkedLive'
    BY <2>1, <2>2 DEF ListedHavePython, UnwatchedBeforeFree, NoPythonLeft, FreedAlone,
                      WalkedLive, object_vars, walks
  <2> QED
    BY <2>3, <2>4
<1>5. CASE Return(c)
  <2>1. running[c] /\ running' = [running EXCEPT ![c] = FALSE] /\ obj # "freeing"
    BY <1>5 DEF Return, FreedAlone
  <2>2. running' \in [Closure -> BOOLEAN] /\ ~running'[c] /\ \A d \in Closure : running'[d] => running[d]
    BY <2>1 DEF TypeOK
  <2> QED
    BY <1>5, <2>1, <2>2, UnrefStep DEF Return, TypeOK, walks
<1>6. CASE Unwatch(c)
  <2>1. /\ stage[c] = "invalid" /\ stage' = [stage EXCEPT ![c] = "unwatched"]
        /\ closures' = RemoveFirst(closures, c)
        /\ tmp' = IF tmp # <<>> /\ c \in ToSet(closures) /\ c # Head(tmp)
                  THEN RemoveFirst(tmp, c) ELSE tmp
        /\ lost' \in BOOLEAN
        /\ UNCHANGED <<object_vars, handler, kept, running, cyclic, released, search,
                       gc_vars, made>>
    BY <1>6 DEF Unwatch
  <2>2. /\ closures' \in Seq(Closure) /\ IsInjective(closures')
        /\ ToSet(closures') = ToSet(closures) \ {c}
    BY <2>1, Removed DEF TypeOK, ListedHavePython
  <2>3. /\ tmp' \in Seq(Closure) /\ IsInjective(tmp')
        /\ ToSet(tmp') = ToSet(tmp) \/ ToSet(tmp') = ToSet(tmp) \ {c}
        /\ tmp = <<>> => tmp' = <<>>
    <3>1. CASE tmp # <<>> /\ c \in ToSet(closures) /\ c # Head(tmp)
      BY <2>1, <3>1, Removed DEF TypeOK, WalkedLive
    <3>2. CASE ~(tmp # <<>> /\ c \in ToSet(closures) /\ c # Head(tmp))
      BY <2>1, <3>2 DEF TypeOK, WalkedLive
    <3> QED
      BY <3>1, <3>2
  <2>4. TypeOK'
    BY <2>1, <2>2, <2>3 DEF TypeOK, object_vars, gc_vars
  <2>5. ListedHavePython'
    BY <2>1, <2>2 DEF TypeOK, ListedHavePython, object_vars
  <2>6. NoPythonLeft' /\ FreedAlone'
    BY <2>1 DEF TypeOK, NoPythonLeft, FreedAlone, object_vars
  <2>7. /\ ToSet(tmp) \subseteq Closure /\ ToSet(tmp') \subseteq ToSet(tmp)
        /\ obj' = obj /\ released' = released
        /\ \A d \in Closure : (stage'[d] = stage[d] /\ d # c)
                              \/ (d = c /\ stage'[d] = "unwatched")
    <3>1. stage \in [Closure -> {"none", "live", "invalid", "unwatched", "dropping", "dead"}]
      BY DEF TypeOK
    <3>2. ToSet(tmp) \subseteq Closure
      BY DEF TypeOK, ToSet
    <3>3. \A d \in Closure : (stage'[d] = stage[d] /\ d # c)
                           \/ (d = c /\ stage'[d] = "unwatched")
      BY <2>1, <3>1
    <3> QED
      BY <2>1, <2>3, <3>2, <3>3 DEF object_vars
  <2>8. UnwatchedBeforeFree'
    BY <2>1, <2>7 DEF UnwatchedBeforeFree
  <2>9. WalkedLive'
    <3>1. \A d \in ToSet(tmp') : stage'[d] = "live" \/ d \in released
      BY <2>1, <2>7 DEF WalkedLive
    <3>2. obj = "freeing" => \A d \in Closure : stage'[d] = "live" => d \in ToSet(tmp')
      BY <2>1, <2>3, <2>7 DEF WalkedLive
    <3> QED
      BY <2>3, <2>7, <3>1, <3>2 DEF WalkedLive
  <2> QED
    BY <2>4, <2>5, <2>6, <2>8, <2>9
<1>7. CASE DropPython(c)
  <2>1. /\ stage[c] = "unwatched" /\ stage' = [stage EXCEPT ![c] = "dropping"]
        /\ cyclic' = [cyclic EXCEPT ![c] = FALSE] /\ cleared' = cleared \ {c}
        /\ UNCHANGED <<object_vars, handler, kept, running, closures, walks, gc, made>>
    BY <1>7 DEF DropPython
  <2>2. TypeOK'
    BY <2>1 DEF TypeOK, object_vars, walks
  <2>3. ListedHavePython' /\ UnwatchedBeforeFree' /\ NoPythonLeft' /\ FreedAlone' /\ WalkedLive'
    BY <2>1 DEF TypeOK, ListedHavePython, UnwatchedBeforeFree, NoPythonLeft, FreedAlone,
                WalkedLive, object_vars, walks
  <2> QED
    BY <2>2, <2>3
<1>8. CASE Invalidated(c)
  <2>1. /\ stage[c] = "dropping"
        /\ stage' = [stage EXCEPT ![c] =
                        IF handler[c] \/ kept[c] \/ running[c] THEN "dead" ELSE "none"]
        /\ UNCHANGED <<object_vars, handler, kept, running, cyclic, closures, walks, gc_vars, made>>
    BY <1>8 DEF Invalidated
  <2>2. ~cyclic[c]
    BY <2>1 DEF NoPythonLeft
  <2>3. /\ \A d \in Closure \ {c} : stage'[d] = stage[d]
        /\ stage'[c] \in {"dead", "none"}
        /\ stage'[c] = "none" => ~handler[c] /\ ~kept[c] /\ ~running[c]
        /\ stage' \in [Closure -> {"none", "live", "invalid", "unwatched", "dropping", "dead"}]
    BY <2>1 DEF TypeOK
  <2>4. TypeOK'
    BY <2>1, <2>2, <2>3 DEF TypeOK, object_vars, gc_vars, walks
  <2>5. ListedHavePython' /\ NoPythonLeft' /\ FreedAlone'
    BY <2>1, <2>2, <2>3 DEF ListedHavePython, NoPythonLeft, FreedAlone, object_vars
  <2>6. UnwatchedBeforeFree' /\ WalkedLive'
    BY <2>1, <2>3 DEF TypeOK, UnwatchedBeforeFree, WalkedLive, ToSet, object_vars, walks
  <2> QED
    BY <2>4, <2>5, <2>6
<1>9. CASE DestroyHandler(c)
  <2>1. handler' = [handler EXCEPT ![c] = FALSE] /\ obj # "freeing"
    BY <1>9 DEF DestroyHandler
  <2>2. handler' \in [Closure -> BOOLEAN] /\ ~handler'[c] /\ \A d \in Closure : handler'[d] => handler[d]
    BY <2>1 DEF TypeOK
  <2> QED
    BY <1>9, <2>1, <2>2, UnrefStep DEF DestroyHandler, TypeOK, walks
<1>10. CASE ClearCallable(c)
  BY <1>10, ObjectStep DEF walks, ClearCallable, object_vars, TypeOK
<1>11. CASE Search(c) \/ SearchOn(c)
  <2>1. /\ search' \subseteq Closure
        /\ UNCHANGED <<object_vars, closure_vars, closures, tmp, released, lost, gc_vars, made>>
    BY <1>11 DEF Search, SearchOn, TypeOK
  <2> QED
    BY <2>1, ObjectStep DEF object_vars, gc_vars, TypeOK
<1> QED
  BY <1>1, <1>2, <1>3, <1>4, <1>5, <1>6, <1>7, <1>8, <1>9, <1>10, <1>11 DEF ClosureStep

\* An object with no references has no emission.
LEMMA NoReferences ==
    ASSUME TypeOK
    PROVE  /\ RefCount = 0 => ~owned /\ ~wrapper /\ \A c \in Closure : ~running[c]
           /\ RefCount = 1 /\ wrapper => ~owned /\ \A c \in Closure : ~running[c]
<1> DEFINE R == {c \in Closure : running[c]}
<1>1. IsFiniteSet(R) /\ Cardinality(R) \in Nat /\ (Cardinality(R) = 0 => R = {})
  <2>1. IsFiniteSet(R)
    BY ConstantsAssumption, FS_Subset
  <2> QED
    BY <2>1, FS_CardinalityType, FS_EmptySet
<1>2. \A c \in Closure : running[c] => c \in R
  OBVIOUS
<1>3. RefCount = (IF owned THEN 1 ELSE 0) + (IF wrapper THEN 1 ELSE 0) + Cardinality(R)
  BY DEF RefCount
<1> HIDE DEF R
<1>4. RefCount = 0 => ~owned /\ ~wrapper /\ Cardinality(R) = 0
  BY <1>1, <1>3 DEF TypeOK
<1>5. RefCount = 1 /\ wrapper => ~owned /\ Cardinality(R) = 0
  BY <1>1, <1>3 DEF TypeOK
<1> QED
  BY <1>1, <1>2, <1>4, <1>5

\* A step of the walk of pygobject_data_free.
LEMMA WalkKeeps ==
    ASSUME ClosuresIInv, Walk
    PROVE  ClosuresIInv'
<1> USE DEF ClosuresIInv
<1>1. PICK c : c = Head(tmp)
  OBVIOUS
<1>2. /\ obj = "freeing" /\ tmp # <<>> /\ tmp' = Tail(tmp)
      /\ stage' = [stage EXCEPT ![c] = IF @ = "live" THEN "invalid" ELSE @]
      /\ UNCHANGED <<object_vars, handler, kept, running, cyclic, closures, released,
                     search, lost, gc_vars, made>>
  BY <1>1 DEF Walk, NextLink
<1>3. /\ tmp' \in Seq(Closure) /\ IsInjective(tmp')
      /\ c \in Closure /\ c \in ToSet(tmp) /\ ToSet(tmp') = ToSet(tmp) \ {c}
  BY <1>1, <1>2, Walked DEF TypeOK, WalkedLive
<1>4. /\ stage[c] = "live" \/ c \in released
      /\ stage[c] \in {"none", "live", "invalid", "unwatched", "dropping", "dead"}
  BY <1>3 DEF WalkedLive, TypeOK
<1>5. /\ \A d \in Closure \ {c} : stage'[d] = stage[d]
      /\ stage'[c] = IF stage[c] = "live" THEN "invalid" ELSE stage[c]
      /\ stage' \in [Closure -> {"none", "live", "invalid", "unwatched", "dropping", "dead"}]
  BY <1>2, <1>3 DEF TypeOK
<1>6. TypeOK'
  BY <1>2, <1>3, <1>5 DEF TypeOK, object_vars, gc_vars
<1>7. ListedHavePython' /\ NoPythonLeft' /\ FreedAlone'
  BY <1>2, <1>3, <1>4, <1>5 DEF TypeOK, ListedHavePython, NoPythonLeft, FreedAlone, object_vars
<1>8. UnwatchedBeforeFree' /\ WalkedLive'
  <2>1. ToSet(tmp) \subseteq Closure /\ obj' = "freeing" /\ released' = released
    BY <1>2 DEF TypeOK, ToSet, object_vars
  <2>2. \A d \in ToSet(tmp') : stage'[d] = "live" \/ d \in released
    BY <1>3, <1>5, <2>1 DEF WalkedLive
  <2>3. \A d \in Closure : stage'[d] = "live" => d \in ToSet(tmp')
    BY <1>2, <1>3, <1>5 DEF WalkedLive
  <2> QED
    BY <1>3, <2>1, <2>2, <2>3 DEF UnwatchedBeforeFree, WalkedLive
<1> QED
  BY <1>6, <1>7, <1>8

LEMMA FreedKeeps ==
    ASSUME ClosuresIInv, Freed
    PROVE  ClosuresIInv'
<1> USE DEF ClosuresIInv
<1>1. /\ obj = "freeing" /\ tmp = <<>> /\ obj' = "gone"
      /\ \A c \in Closure : c \in released
                              \/ stage[c] \notin {"invalid", "unwatched", "dropping"}
      /\ UNCHANGED <<owned, wrapper, held, do_dispose, closure_vars, closures, walks,
                     gc_vars, made>>
  BY DEF Freed, Awaited, Invalidating
<1>2. ToSet(tmp) = {}
  BY <1>1 DEF ToSet
<1>3. \A c \in Closure : stage[c] # "live" /\ (stage[c] = "invalid" => c \in released)
  BY <1>1, <1>2 DEF WalkedLive, TypeOK
<1>4. TypeOK'
  BY <1>1 DEF TypeOK, closure_vars, gc_vars, walks
<1>5. ListedHavePython' /\ UnwatchedBeforeFree' /\ NoPythonLeft' /\ FreedAlone' /\ WalkedLive'
  BY <1>1, <1>2, <1>3 DEF ListedHavePython, UnwatchedBeforeFree, NoPythonLeft, FreedAlone,
                          WalkedLive, closure_vars, walks
<1> QED
  BY <1>4, <1>5

\* pygobject_data_free takes over the list of an object nobody has.
LEMMA FinalizeKeeps ==
    ASSUME ClosuresIInv, Finalize
    PROVE  ClosuresIInv'
<1> USE DEF ClosuresIInv
<1>1. /\ obj = "disposing" /\ RefCount = 0 /\ obj' = "freeing"
      /\ \A c \in Closure : /\ ~handler[c]
                              /\ \/ c \in released
                                 \/ stage[c] \notin {"invalid", "unwatched", "dropping"}
      /\ tmp' = closures /\ (closures' = closures \/ closures' = <<>>)
      /\ UNCHANGED <<owned, wrapper, held, do_dispose, closure_vars, released, search,
                     lost, gc_vars, made>>
  BY DEF Finalize, HandlersDestroyed, Awaited, Invalidating
<1>2. ~owned /\ ~wrapper /\ \A c \in Closure : ~running[c]
  BY <1>1, NoReferences
<1>3. ToSet(<<>>) = {} /\ IsInjective(<<>>) /\ <<>> \in Seq(Closure)
  BY DEF ToSet, IsInjective
<1>4. TypeOK'
  BY <1>1, <1>3 DEF TypeOK, closure_vars, gc_vars
<1>5. \A c \in ToSet(closures) : stage[c] = "live" \/ c \in released
  <2>1. ToSet(closures) \subseteq Closure
    BY DEF TypeOK, ToSet
  <2> QED
    BY <1>1, <2>1 DEF ListedHavePython
<1>6. ListedHavePython' /\ NoPythonLeft' /\ FreedAlone'
  BY <1>1, <1>2, <1>3 DEF ListedHavePython, NoPythonLeft, FreedAlone, closure_vars
<1>7. UnwatchedBeforeFree' /\ WalkedLive'
  BY <1>1, <1>5 DEF ListedHavePython, UnwatchedBeforeFree, WalkedLive, closure_vars
<1> QED
  BY <1>4, <1>6, <1>7

LEMMA NotFinalizeKeeps ==
    ASSUME ClosuresIInv, NotFinalize
    PROVE  ClosuresIInv'
<1> USE DEF ClosuresIInv
<1>1. MaxHeld \in Nat \ {0} /\ held \in Nat /\ held <= MaxHeld
  BY ConstantsAssumption DEF TypeOK
<1>2. CASE \E c \in Closure : ClosureStep(c)
  BY <1>2, ClosureStepKeeps
<1>3. CASE Hold \/ LetGo
  <2>1. held' \in 0..MaxHeld
    BY <1>1, <1>3 DEF Hold, LetGo
  <2> QED
    <3>1. CASE Hold
      BY <2>1, <3>1, ObjectStep DEF walks, Hold, TypeOK, gc_vars
    <3>2. CASE LetGo
      BY <2>1, <3>2, ObjectStep DEF walks, LetGo, TypeOK, gc_vars
    <3> QED
      BY <1>3, <3>1, <3>2
<1>4. CASE RunDispose \/ Dispose
  <2>1. held' \in 0..MaxHeld
    BY <1>1, <1>4 DEF RunDispose, Dispose
  <2>2. /\ wrapper' \in BOOLEAN /\ do_dispose' \in BOOLEAN
        /\ obj = "alive" /\ obj' = "disposing"
    BY <1>4 DEF RunDispose, Dispose, TypeOK
  <2> QED
    BY <1>4, <2>1, <2>2, ObjectStep DEF walks, RunDispose, Dispose, TypeOK, gc_vars
<1>5. CASE WrapperDies \/ COwns \/ CLetsGo
  <2>1. CASE WrapperDies
    BY <2>1, ObjectStep DEF walks, WrapperDies, TypeOK
  <2>2. CASE COwns
    BY <2>2, ObjectStep DEF walks, COwns, TypeOK, gc_vars
  <2>3. CASE CLetsGo
    BY <2>3, ObjectStep DEF walks, CLetsGo, TypeOK, gc_vars
  <2> QED
    BY <1>5, <2>1, <2>2, <2>3
<1>6. CASE Revive
  BY <1>6, ObjectStep DEF walks, Revive, HandlersDestroyed, TypeOK, gc_vars
<1>7. CASE Walk
  BY <1>7, WalkKeeps
<1>8. CASE Freed
  BY <1>8, FreedKeeps
<1>9. CASE Collect \/ Recheck \/ ClearWrapper
  <2>1. CASE Collect
    BY <2>1, ObjectStep DEF walks, Collect, TypeOK, object_vars
  <2>2. CASE Recheck
    <3>1. gc' \in {"idle", "clearing"}
      BY <2>2 DEF Recheck
    <3> QED
      BY <2>2, <3>1, ObjectStep DEF walks, Recheck, TypeOK, object_vars
  <2>3. CASE ClearWrapper
    BY <2>3, ObjectStep DEF walks, ClearWrapper, TypeOK
  <2> QED
    BY <1>9, <2>1, <2>2, <2>3
<1>10. CASE SearchEnds
  <2>1. /\ search' = {} /\ lost' = FALSE
        /\ UNCHANGED <<object_vars, closure_vars, closures, tmp, released, gc_vars, made>>
    BY <1>10 DEF SearchEnds
  <2> QED
    BY <2>1, ObjectStep DEF object_vars, gc_vars, TypeOK
<1> QED
  BY <1>2, <1>3, <1>4, <1>5, <1>6, <1>7, <1>8, <1>9, <1>10 DEF NotFinalize

LEMMA InitClosures == Init => ClosuresIInv
<1> SUFFICES ASSUME Init PROVE ClosuresIInv
  OBVIOUS
<1>1. ToSet(<<>>) = {} /\ IsInjective(<<>>) /\ <<>> \in Seq(Closure)
  BY DEF ToSet, IsInjective
<1>2. TypeOK
  <2>1. /\ handler \in [Closure -> BOOLEAN] /\ kept \in [Closure -> BOOLEAN]
        /\ running \in [Closure -> BOOLEAN] /\ cyclic \in [Closure -> BOOLEAN]
        /\ \A c \in Closure : ~handler[c] /\ ~kept[c] /\ ~running[c] /\ ~cyclic[c]
    BY DEF Init
  <2>2. held \in 0..MaxHeld /\ made \in 0..MaxMade
    BY ConstantsAssumption DEF Init
  <2> QED
    BY <1>1, <2>1, <2>2 DEF Init, TypeOK
<1>3. \A c \in Closure : stage[c] = "none" /\ ~cyclic[c]
  BY DEF Init
<1>4. obj = "alive" /\ closures = <<>> /\ tmp = <<>>
  BY DEF Init
<1> QED
  BY <1>1, <1>2, <1>3, <1>4 DEF ClosuresIInv, ListedHavePython, UnwatchedBeforeFree,
                                NoPythonLeft, FreedAlone, WalkedLive

(***************************************************************************)
(* The weak references.                                                    *)
(***************************************************************************)

\* What the invariant says of one weak reference.
WeakOK(w) ==
    /\ registered[w] \/ notifying[w] => exists[w]
    /\ users[w] => exists[w] \/ (floating[w] = "unset" /\ ~target[w])
    /\ (exists[w] /\ registered[w]) <=> target[w]
    /\ floating[w] = "set" <=> (callback[w] /\ (target[w] \/ notifying[w]))
    /\ exists[w] => users[w] \/ floating[w] = "set"
    /\ notified[w] <= 1
    /\ notifying[w] => callback[w] /\ ~target[w]
    /\ registered[w] => notified[w] = 0
    /\ obj \in {"freeing", "gone"} => ~target[w] /\ floating[w] # "set"

LEMMA WeakOKAll ==
    (WeakRefsKept /\ NotifiedOnce) <=> \A w \in Weak : WeakOK(w)
BY DEF WeakRefsKept, NotifiedAlive, FloatingGivenBack, NobodyFollowsTheGone, NotifiedOnce,
       WeakOK

\* The object may take any step that does not free it.
LEMMA WeakUnchanged ==
    ASSUME IInv, UNCHANGED weak_vars,
           obj' \in {"freeing", "gone"} => obj \in {"freeing", "gone"}
    PROVE  WeakTypeOK' /\ WeakRefsKept' /\ NotifiedOnce'
<1>1. WeakTypeOK'
  BY DEF IInv, WeakTypeOK, weak_vars
<1>2. \A w \in Weak : WeakOK(w)'
  BY WeakOKAll DEF IInv, WeakOK, weak_vars
<1>3. (WeakRefsKept /\ NotifiedOnce)'
  BY <1>2 DEF WeakRefsKept, NotifiedAlive, FloatingGivenBack, NobodyFollowsTheGone,
              NotifiedOnce, WeakOK
<1> QED
  BY <1>1, <1>3

LEMMA WeakStepKeeps ==
    ASSUME IInv, NEW w \in Weak,
           \/ \E cb \in BOOLEAN : New(w, cb)
           \/ Forget(w) \/ Deref(w) \/ Unref(w) \/ Notify(w) \/ Notified(w)
    PROVE  IInv'
<1> USE DEF IInv
<1>1. \A v \in Weak : WeakOK(v)
  BY WeakOKAll
<1>2. ASSUME ~Deref(w)
      PROVE  /\ UNCHANGED vars
             /\ WeakTypeOK'
             /\ WeakOK(w)'
             /\ \A v \in Weak \ {w} : UNCHANGED <<target[v], callback[v], floating[v],
                    users[v], exists[v], registered[v], notifying[v], notified[v]>>
  <2>1. ASSUME NEW cb \in BOOLEAN, New(w, cb)
        PROVE  /\ UNCHANGED vars /\ WeakTypeOK' /\ WeakOK(w)'
               /\ \A v \in Weak \ {w} : UNCHANGED <<target[v], callback[v], floating[v],
                      users[v], exists[v], registered[v], notifying[v], notified[v]>>
    <3>1. /\ ~exists[w] /\ ~users[w] /\ notified[w] = 0 /\ obj \in {"alive", "disposing"}
          /\ exists' = [exists EXCEPT ![w] = TRUE] /\ users' = [users EXCEPT ![w] = TRUE]
          /\ target' = [target EXCEPT ![w] = TRUE]
          /\ registered' = [registered EXCEPT ![w] = TRUE]
          /\ callback' = [callback EXCEPT ![w] = cb]
          /\ floating' = [floating EXCEPT ![w] = IF cb THEN "set" ELSE "unset"]
          /\ UNCHANGED <<vars, notifying, notified>>
      BY <2>1 DEF New, KeptByItself
    <3>2. ~notifying[w]
      BY <1>1, <3>1 DEF WeakOK
    <3>3. WeakTypeOK'
      BY <3>1 DEF WeakTypeOK
    <3>4. /\ exists'[w] /\ users'[w] /\ target'[w] /\ registered'[w] /\ ~notifying'[w]
          /\ callback'[w] = cb /\ floating'[w] = (IF cb THEN "set" ELSE "unset") /\ notified'[w] = 0 /\ obj' = obj
      BY <3>1, <3>2 DEF WeakTypeOK, vars, object_vars
    <3>5. WeakOK(w)'
      BY <3>1, <3>4 DEF WeakOK
    <3> QED
      BY <3>1, <3>3, <3>5 DEF WeakTypeOK
  <2>2. ASSUME Forget(w)
        PROVE  /\ UNCHANGED vars /\ WeakTypeOK' /\ WeakOK(w)'
               /\ \A v \in Weak \ {w} : UNCHANGED <<target[v], callback[v], floating[v],
                      users[v], exists[v], registered[v], notifying[v], notified[v]>>
    <3>1. /\ users[w] /\ exists[w] /\ users' = [users EXCEPT ![w] = FALSE]
          /\ exists' = [exists EXCEPT ![w] = (floating[w] = "set")]
          /\ target' = [target EXCEPT ![w] = target[w] /\ floating[w] = "set"]
          /\ callback' = [callback EXCEPT ![w] = callback[w] /\ floating[w] = "set"]
          /\ registered' = [registered EXCEPT ![w] =
                               registered[w] /\ (floating[w] = "set" \/ ~target[w])]
          /\ UNCHANGED <<vars, floating, notifying, notified>>
      BY <2>2 DEF Forget, DeallocUnless, WeakTypeOK
    <3>2. WeakTypeOK'
      BY <3>1 DEF WeakTypeOK
    <3>3. /\ ~users'[w] /\ exists'[w] = (floating[w] = "set") /\ floating'[w] = floating[w]
          /\ target'[w] = (target[w] /\ floating[w] = "set")
          /\ callback'[w] = (callback[w] /\ floating[w] = "set")
          /\ registered'[w] = (registered[w] /\ (floating[w] = "set" \/ ~target[w]))
          /\ notifying'[w] = notifying[w] /\ notified'[w] = notified[w] /\ obj' = obj
      BY <3>1 DEF WeakTypeOK, vars, object_vars
    <3>4. WeakOK(w) /\ exists[w] /\ target[w] \in BOOLEAN
      BY <1>1, <3>1 DEF WeakOK, WeakTypeOK
    <3>5. WeakOK(w)'
      BY <3>3, <3>4 DEF WeakOK
    <3> QED
      BY <3>1, <3>2, <3>5 DEF WeakTypeOK
  <2>3. ASSUME Unref(w)
        PROVE  /\ UNCHANGED vars /\ WeakTypeOK' /\ WeakOK(w)'
               /\ \A v \in Weak \ {w} : UNCHANGED <<target[v], callback[v], floating[v],
                      users[v], exists[v], registered[v], notifying[v], notified[v]>>
    <3>1. /\ users[w] /\ target[w]
          /\ target' = [target EXCEPT ![w] = FALSE]
          /\ registered' = [registered EXCEPT ![w] = FALSE]
          /\ floating' = [floating EXCEPT ![w] =
                             IF floating[w] = "set" THEN "clear" ELSE floating[w]]
          /\ UNCHANGED <<vars, callback, users, notifying, notified>>
      BY <2>3 DEF Unref, AfterUnrefFloating
    <3>2. PICK read \in BOOLEAN :
             exists' = [exists EXCEPT ![w] = ~(floating[w] = "unset" /\ read)]
      BY <2>3 DEF Unref
    <3>3. WeakTypeOK'
      BY <3>1, <3>2 DEF WeakTypeOK
    <3>4. /\ ~target'[w] /\ ~registered'[w] /\ obj' = obj /\ users'[w]
          /\ floating'[w] # "set" /\ (floating'[w] = "unset" <=> floating[w] = "unset")
          /\ ~exists'[w] => floating[w] = "unset"
          /\ callback'[w] = callback[w] /\ notifying'[w] = notifying[w]
          /\ notified'[w] = notified[w]
      BY <3>1, <3>2 DEF WeakTypeOK, vars, object_vars
    <3>5. WeakOK(w)'
      BY <1>1, <3>1, <3>4 DEF WeakOK
    <3> QED
      BY <3>1, <3>2, <3>3, <3>5 DEF WeakTypeOK
  <2>4. ASSUME Notify(w)
        PROVE  /\ UNCHANGED vars /\ WeakTypeOK' /\ WeakOK(w)'
               /\ \A v \in Weak \ {w} : UNCHANGED <<target[v], callback[v], floating[v],
                      users[v], exists[v], registered[v], notifying[v], notified[v]>>
    <3>1. /\ registered[w]
          /\ registered' = [registered EXCEPT ![w] = FALSE]
          /\ target' = [target EXCEPT ![w] = FALSE]
          /\ notifying' = [notifying EXCEPT ![w] = callback[w]]
          /\ notified' = [notified EXCEPT ![w] =
                             IF callback[w] THEN notified[w] + 1 ELSE notified[w]]
          /\ UNCHANGED <<vars, callback, floating, users, exists>>
      BY <2>4 DEF Notify
    <3>2. WeakTypeOK'
      <4>1. notified' \in [Weak -> Nat]
        BY <3>1 DEF WeakTypeOK
      <4> QED
        BY <3>1, <4>1 DEF WeakTypeOK
    <3>3. ~target'[w] /\ ~registered'[w] /\ notifying'[w] = callback[w] /\ obj' = obj
      BY <3>1 DEF WeakTypeOK, vars, object_vars
    <3>4. notified'[w] <= 1
      BY <1>1, <3>1 DEF WeakTypeOK, WeakOK
    <3>5. callback[w] \in BOOLEAN
      BY DEF WeakTypeOK
    <3>6. WeakOK(w) /\ exists[w] /\ target[w]
      BY <1>1, <3>1 DEF WeakOK
    <3>7. UNCHANGED <<callback[w], floating[w], users[w], exists[w]>>
      BY <3>1
    <3>8. WeakOK(w)'
      BY <3>3, <3>4, <3>5, <3>6, <3>7 DEF WeakOK
    <3> QED
      BY <3>1, <3>2, <3>8 DEF WeakTypeOK
  <2>5. ASSUME Notified(w)
        PROVE  /\ UNCHANGED vars /\ WeakTypeOK' /\ WeakOK(w)'
               /\ \A v \in Weak \ {w} : UNCHANGED <<target[v], callback[v], floating[v],
                      users[v], exists[v], registered[v], notifying[v], notified[v]>>
    <3>1. /\ notifying[w]
          /\ notifying' = [notifying EXCEPT ![w] = FALSE]
          /\ callback' = [callback EXCEPT ![w] = FALSE]
          /\ floating' = [floating EXCEPT ![w] = "clear"]
          /\ exists' = [exists EXCEPT ![w] = users[w]]
          /\ UNCHANGED <<vars, target, users, registered, notified>>
      BY <2>5 DEF Notified
    <3>2. WeakTypeOK'
      BY <3>1 DEF WeakTypeOK
    <3>3. /\ ~notifying'[w] /\ ~callback'[w] /\ floating'[w] = "clear" /\ exists'[w] = users[w]
          /\ obj' = obj
      BY <3>1 DEF WeakTypeOK, vars, object_vars
    <3>4. WeakOK(w)'
      BY <1>1, <3>1, <3>3 DEF WeakOK
    <3> QED
      BY <3>1, <3>2, <3>4 DEF WeakTypeOK
  <2> QED
    BY <1>2, <2>1, <2>2, <2>3, <2>4, <2>5
<1>3. CASE ~Deref(w)
  <2>1. ClosuresIInv'
    BY <1>2, <1>3 DEF vars, object_vars, closure_vars, walks, gc_vars, ClosuresIInv, TypeOK,
        ListedHavePython, UnwatchedBeforeFree, NoPythonLeft, FreedAlone, WalkedLive
  <2>2. \A v \in Weak \ {w} : WeakOK(v)'
    BY <1>1, <1>2, <1>3 DEF WeakOK, vars, object_vars
  <2>3. \A v \in Weak : WeakOK(v)'
    BY <1>2, <1>3, <2>2
  <2>4. (WeakRefsKept /\ NotifiedOnce)'
    BY <2>3 DEF WeakRefsKept, NotifiedAlive, FloatingGivenBack, NobodyFollowsTheGone,
                NotifiedOnce, WeakOK
  <2> QED
    BY <1>2, <1>3, <2>1, <2>4
<1>4. CASE Deref(w)
  <2>1. /\ target[w] /\ held < MaxHeld /\ held' = held + 1 /\ wrapper' = TRUE
        /\ UNCHANGED <<obj, owned, do_dispose, closure_vars, closures, walks, gc_vars, made,
                       weak_vars>>
    BY <1>4 DEF Deref
  <2>2. obj \in {"alive", "disposing"}
    BY <1>1, <2>1 DEF WeakOK, ClosuresIInv, TypeOK
  <2>3. held' \in 0..MaxHeld
    BY <2>1, ConstantsAssumption DEF ClosuresIInv, TypeOK
  <2>4. ClosuresIInv'
    BY <2>1, <2>2, <2>3, ObjectStep DEF walks, ClosuresIInv, TypeOK, gc_vars
  <2> QED
    BY <2>1, <2>4, WeakUnchanged
<1> QED
  BY <1>3, <1>4

LEMMA WeakNextKeeps ==
    ASSUME IInv, [WeakNext]_all_vars
    PROVE  IInv'
<1> USE DEF IInv
<1>1. CASE UNCHANGED all_vars
  <2>1. ClosuresIInv'
    BY <1>1 DEF all_vars, vars, object_vars, closure_vars, walks, gc_vars, ClosuresIInv, TypeOK,
        ListedHavePython, UnwatchedBeforeFree, NoPythonLeft, FreedAlone, WalkedLive
  <2> QED
    BY <1>1, <2>1, WeakUnchanged DEF all_vars, vars, object_vars
<1>2. CASE NotFinalize /\ UNCHANGED weak_vars
  <2>1. obj' \in {"freeing", "gone"} => obj \in {"freeing", "gone"}
    BY <1>2 DEF NotFinalize, ClosureStep, Connect, Search, SearchOn, SearchEnds,
        HandlerGoes, DisconnectFound, Disconnect, Release, Emit, Return, Unwatch,
        DropPython, Invalidated, DestroyHandler, ClearCallable, Hold, LetGo, RunDispose,
        WrapperDies, COwns, CLetsGo, Dispose, Revive, Walk, Freed, Collect, Recheck,
        ClearWrapper, object_vars
  <2> QED
    BY <1>2, <2>1, NotFinalizeKeeps, WeakUnchanged
<1>3. CASE /\ Finalize
           /\ \A w \in Weak : ~registered[w] /\ ~notifying[w]
           /\ UNCHANGED weak_vars
  <2>1. ClosuresIInv'
    BY <1>3, FinalizeKeeps
  <2>2. WeakTypeOK'
    BY <1>3 DEF WeakTypeOK, weak_vars
  <2>3. \A w \in Weak : WeakOK(w)'
    BY <1>3, WeakOKAll DEF WeakOK, weak_vars
  <2>4. (WeakRefsKept /\ NotifiedOnce)'
    BY <2>3 DEF WeakRefsKept, NotifiedAlive, FloatingGivenBack, NobodyFollowsTheGone,
                NotifiedOnce, WeakOK
  <2> QED
    BY <2>1, <2>2, <2>4
<1>4. CASE \E w \in Weak :
              \/ \E cb \in BOOLEAN : New(w, cb)
              \/ Forget(w) \/ Deref(w) \/ Unref(w) \/ Notify(w) \/ Notified(w)
  BY <1>4, WeakStepKeeps
<1> QED
  BY <1>1, <1>2, <1>3, <1>4 DEF WeakNext

\* The invariant, whether the object is used late or not.
THEOREM Invariance == WeakSpec => []IInv
<1>1. WeakInit => IInv
  <2> SUFFICES ASSUME WeakInit PROVE IInv
    OBVIOUS
  <2>1. /\ WeakTypeOK
        /\ \A w \in Weak : /\ ~target[w] /\ ~callback[w] /\ floating[w] = "unset"
                           /\ ~users[w]
                           /\ ~exists[w] /\ ~registered[w] /\ ~notifying[w]
                           /\ notified[w] = 0
    BY DEF WeakInit, WeakTypeOK
  <2>2. \A w \in Weak : WeakOK(w)
    BY <2>1 DEF WeakOK
  <2> QED
    BY <2>1, <2>2, InitClosures, WeakOKAll DEF WeakInit, IInv
<1>2. IInv /\ [WeakNext]_all_vars => IInv'
  BY WeakNextKeeps
<1> QED
  BY <1>1, <1>2, PTL DEF WeakSpec

\* What the collector, and a search when it begins, finds listed has its
\* callable, each once; the walk of pygobject_data_free meets closures that
\* exist, and none outlives the data, but for those whose extension lets go of
\* them meanwhile.  (What a search finds that goes on after it has run Python
\* code is another matter: see SearchKeepsLink.)
THEOREM ListKept == WeakSpec => []ClosuresListed
<1>1. IInv => ClosuresListed
  BY DEF IInv, ClosuresIInv, ClosuresListed
<1> QED
  BY <1>1, Invariance, PTL

\* A weak reference exists when it is notified, is notified once, and gives
\* back the reference it has to itself; the object outlives its followers; and
\* Python code's reference keeps it, unless it had no callback and unref() was
\* called (see UsersKeep).
THEOREM WeakReferencesKept == WeakSpec => []WeakRefsKept
<1>1. IInv => WeakRefsKept
  BY DEF IInv
<1> QED
  BY <1>1, Invariance, PTL

(***************************************************************************)
(* The collector.                                                          *)
(***************************************************************************)

\* Steps that change neither the object nor the collector's work.
LEMMA SameCollected ==
    ASSUME CollectedAlone, TypeOK, UNCHANGED <<object_vars, gc>>,
           cleared' \subseteq cleared, running' \in [Closure -> BOOLEAN],
           \A c \in Closure : running'[c] => running[c]
    PROVE  CollectedAlone'
BY DEF CollectedAlone, Collected, object_vars

LEMMA ClosureStepCollected ==
    ASSUME CollectedAlone, TypeOK, TypeOK', LateUse = FALSE,
           NEW c \in Closure, ClosureStep(c)
    PROVE  CollectedAlone'
<1>1. ASSUME NEW ext \in BOOLEAN, NEW cyc \in BOOLEAN, Connect(c, ext, cyc)
      PROVE  CollectedAlone'
  BY <1>1, SameCollected DEF Connect, TypeOK, gc_vars
<1>2. CASE \/ Search(c) \/ SearchOn(c) \/ DisconnectFound(c) \/ Disconnect(c)
           \/ Release(c) \/ Unwatch(c) \/ Invalidated(c) \/ DestroyHandler(c)
  <2>1. UNCHANGED <<object_vars, running, gc_vars>>
    BY <1>2 DEF Search, SearchOn, DisconnectFound, Disconnect, HandlerGoes, closure_vars, Release, Unwatch, Invalidated, DestroyHandler
  <2> QED
    BY <2>1, SameCollected DEF TypeOK, gc_vars
<1>3. CASE Return(c) \/ DropPython(c)
  <2>1. /\ UNCHANGED <<object_vars, gc>> /\ cleared' \subseteq cleared
        /\ running' \in [Closure -> BOOLEAN]
        /\ \A d \in Closure : running'[d] => running[d]
    BY <1>3 DEF Return, DropPython, TypeOK, gc_vars
  <2> QED
    BY <2>1, SameCollected
<1>4. CASE Emit(c)
  <2>1. ~Collected /\ UNCHANGED <<object_vars, gc_vars>>
    BY <1>4 DEF Emit, CollectedAlone, TypeOK
  <2> QED
    BY <2>1 DEF CollectedAlone, Collected, object_vars, gc_vars
<1>5. CASE ClearCallable(c)
  BY <1>5 DEF ClearCallable, CollectedAlone, Collected, object_vars, closure_vars
<1> QED
  BY <1>1, <1>2, <1>3, <1>4, <1>5 DEF ClosureStep

\* Between the steps of a collection nobody gets at the object.
LEMMA CollectedKeeps ==
    ASSUME CollectedAlone, IInv, IInv', LateUse = FALSE, [WeakNext]_all_vars
    PROVE  CollectedAlone'
<1>1. /\ TypeOK /\ TypeOK' /\ \A c \in Closure : running'[c] \in BOOLEAN
      /\ held \in Nat
  BY ConstantsAssumption DEF IInv, ClosuresIInv, TypeOK
<1>2. CASE UNCHANGED vars
  BY <1>1, <1>2, SameCollected DEF vars, gc_vars, closure_vars, TypeOK
<1>3. CASE \E c \in Closure : ClosureStep(c)
  BY <1>1, <1>3, ClosureStepCollected
<1>4. CASE Hold
  <2>1. ~Collected
    BY <1>1, <1>4 DEF Hold, CollectedAlone
  <2> QED
    BY <1>1, <1>4, <2>1 DEF Hold, CollectedAlone, Collected, gc_vars
<1>5. CASE LetGo
  <2>1. ~Collected
    BY <1>1, <1>5 DEF LetGo, CollectedAlone
  <2> QED
    BY <1>1, <1>5, <2>1 DEF LetGo, CollectedAlone, Collected, gc_vars
<1>6. CASE RunDispose
  <2>1. ~Collected
    BY <1>6 DEF RunDispose, CollectedAlone
  <2> QED
    BY <1>6, <2>1 DEF RunDispose, CollectedAlone, Collected, gc_vars
<1>7. CASE WrapperDies \/ ClearWrapper
  BY <1>1, <1>7 DEF WrapperDies, ClearWrapper, CollectedAlone, Collected, closure_vars
<1>8. CASE COwns
  <2>1. ~Collected
    BY <1>1, <1>8 DEF COwns, CollectedAlone
  <2> QED
    BY <1>8, <2>1 DEF COwns, CollectedAlone, Collected, gc_vars
<1>9. CASE CLetsGo
  BY <1>9 DEF CLetsGo, CollectedAlone, Collected, gc_vars, closure_vars
<1>10. CASE Dispose
  <2>1. ~wrapper
    BY <1>1, <1>10, NoReferences DEF Dispose
  <2> QED
    BY <1>10, <2>1 DEF Dispose, CollectedAlone, Collected, gc_vars, closure_vars
<1>11. CASE Revive \/ Freed
  BY <1>11 DEF Revive, Freed, HandlersDestroyed, CollectedAlone, Collected, gc_vars, closure_vars
<1>12. CASE Walk
  BY <1>12 DEF Walk, CollectedAlone, Collected, object_vars, gc_vars
<1>13. CASE Collect
  BY <1>13 DEF Collect, Unreachable, CollectedAlone, Collected, object_vars, closure_vars
<1>14. CASE Recheck
  <2>1. CASE Unreachable
    <3>1. RefCount = 1 /\ wrapper /\ held = 0 /\ ~do_dispose /\ obj = "alive"
      BY <1>14, <2>1 DEF Recheck, Unreachable, Visited
    <3>2. ~owned /\ \A c \in Closure : ~running[c]
      BY <1>1, <3>1, NoReferences
    <3> QED
      BY <1>14, <2>1, <3>1, <3>2 DEF Recheck, CollectedAlone, Collected, object_vars, closure_vars
  <2>2. CASE ~Unreachable
    BY <1>14, <2>2 DEF Recheck, CollectedAlone, Collected, object_vars, closure_vars
  <2> QED
    BY <2>1, <2>2
<1>15. CASE Finalize
  BY <1>15 DEF Finalize, HandlersDestroyed, CollectedAlone, Collected, gc_vars, closure_vars
<1>16. CASE \E w \in Weak : Deref(w)
  <2>1. PICK w \in Weak : Deref(w)
    BY <1>16
  <2>2. ~Collected
    BY <2>1 DEF Deref
  <2> QED
    BY <1>1, <2>1, <2>2 DEF Deref, CollectedAlone, Collected, gc_vars
<1>17. CASE \E w \in Weak : \/ \E cb \in BOOLEAN : New(w, cb)
                           \/ Forget(w) \/ Unref(w) \/ Notify(w) \/ Notified(w)
  <2>1. UNCHANGED vars
    BY <1>17 DEF New, Forget, Unref, Notify, Notified
  <2> QED
    BY <1>2, <2>1
<1>18. CASE SearchEnds
  BY <1>1, <1>18, SameCollected DEF SearchEnds, gc_vars, closure_vars, TypeOK
<1>19. CASE NotFinalize
  BY <1>3, <1>4, <1>5, <1>6, <1>7, <1>8, <1>9, <1>10, <1>11, <1>12, <1>13, <1>14, <1>18,
     <1>19 DEF NotFinalize
<1> QED
  BY <1>2, <1>15, <1>16, <1>17, <1>19 DEF WeakNext, all_vars

\* While nobody gets at the object from outside (LateUse), the collector only
\* takes apart callables that no signal reaches.
THEOREM CollectsUnreached ==
    ASSUME LateUse = FALSE PROVE WeakSpec => []ClearedNotCalled
<1>1. WeakInit => CollectedAlone
  BY DEF WeakInit, Init, CollectedAlone, Collected
<1>2. CollectedAlone /\ IInv /\ IInv' /\ [WeakNext]_all_vars => CollectedAlone'
  BY CollectedKeeps
<1>3. CollectedAlone /\ IInv => ClearedNotCalled
  BY DEF CollectedAlone, Collected, ClearedNotCalled, IInv, ClosuresIInv, TypeOK
<1> QED
  BY <1>1, <1>2, <1>3, Invariance, PTL DEF WeakSpec

(***************************************************************************)
(* Native closures of Python callables.                                    *)
(***************************************************************************)

\* What a closure put on the list does to the list.
LEMMA Pushed ==
    ASSUME NEW S, NEW s \in Seq(S), NEW c \in S
    PROVE  /\ <<c>> \o s \in Seq(S)
           /\ Range(<<c>> \o s) = {c} \cup Range(s)
           /\ IsInjective(s) /\ c \notin Range(s) => IsInjective(<<c>> \o s)
<1> DEFINE t == <<c>> \o s
<1>1. /\ t \in Seq(S) /\ Len(t) = Len(s) + 1 /\ Len(s) \in Nat
      /\ t[1] = c /\ \A i \in 1..Len(s) : t[i + 1] = s[i]
  OBVIOUS
<1>2. DOMAIN s = 1..Len(s) /\ DOMAIN t = 1..(Len(s) + 1)
  BY <1>1
<1>3. \A i \in 2..(Len(s) + 1) : i - 1 \in 1..Len(s) /\ t[i] = s[i - 1]
  <2> TAKE i \in 2..(Len(s) + 1)
  <2>1. i - 1 \in 1..Len(s) /\ (i - 1) + 1 = i
    BY <1>1
  <2> QED
    BY <1>1, <2>1
<1> HIDE DEF t
<1>4. Range(t) = {c} \cup Range(s)
  <2>1. ASSUME NEW x \in Range(t) PROVE x \in {c} \cup Range(s)
    <3>1. PICK i \in 1..(Len(s) + 1) : x = t[i]
      BY <1>2 DEF Range
    <3>2. i = 1 \/ i \in 2..(Len(s) + 1)
      BY <1>1
    <3> QED
      BY <1>1, <1>2, <1>3, <3>1, <3>2 DEF Range
  <2>2. ASSUME NEW x \in Range(s) PROVE x \in Range(t)
    <3>1. PICK i \in 1..Len(s) : x = s[i]
      BY <1>2 DEF Range
    <3>2. i + 1 \in 1..(Len(s) + 1)
      BY <1>1
    <3> QED
      BY <1>1, <1>2, <3>1, <3>2 DEF Range
  <2>3. c \in Range(t)
    <3>1. 1 \in 1..(Len(s) + 1)
      BY <1>1
    <3> QED
      BY <1>1, <1>2, <3>1 DEF Range
  <2> QED
    BY <2>1, <2>2, <2>3
<1>5. ASSUME IsInjective(s), c \notin Range(s) PROVE IsInjective(t)
  <2>1. \A i \in 1..Len(s) : s[i] # c
    BY <1>2, <1>5 DEF Range
  <2>2. SUFFICES ASSUME NEW a \in 1..(Len(s) + 1), NEW b \in 1..(Len(s) + 1),
                        t[a] = t[b]
                 PROVE  a = b
    BY <1>2 DEF IsInjective
  <2>3. /\ a = 1 \/ a \in 2..(Len(s) + 1)
        /\ b = 1 \/ b \in 2..(Len(s) + 1)
    BY <1>1
  <2>4. CASE a = 1 /\ b \in 2..(Len(s) + 1)
    BY <1>1, <1>3, <2>1, <2>2, <2>4
  <2>5. CASE b = 1 /\ a \in 2..(Len(s) + 1)
    BY <1>1, <1>3, <2>1, <2>2, <2>5
  <2>6. CASE a \in 2..(Len(s) + 1) /\ b \in 2..(Len(s) + 1)
    <3>1. a - 1 = b - 1
      BY <1>2, <1>3, <1>5, <2>2, <2>6 DEF IsInjective
    <3> QED
      BY <1>1, <2>6, <3>1
  <2> QED
    BY <2>3, <2>4, <2>5, <2>6
<1> QED
  BY <1>1, <1>4, <1>5 DEF t
\* Nothing is listed at the start, and nothing is listed after a sweep.
LEMMA Emptied == Range(<<>>) = {} /\ IsInjective(<<>>)
BY DEF Range, IsInjective

LEMMA CallbacksInit == CallbackInit => CallbackInv
<1> SUFFICES ASSUME CallbackInit PROVE CallbackInv
  OBVIOUS
<1>1. CallbackTypeOK
  BY DEF CallbackInit, CallbackTypeOK, Scope
<1>2. IsInjective(async_free_list) /\ \A c \in Block : ~OnList(c) /\ ~InUse(c)
  BY Emptied, BlocksAssumption DEF CallbackInit, OnList, InUse
<1>3. HandedOver /\ ListedDone /\ AsyncStages /\ AsyncOnce /\ Ends
  BY <1>2 DEF CallbackInit, HandedOver, ListedDone, AsyncStages, AsyncOnce, Ends
<1> QED
  BY <1>1, <1>2, <1>3 DEF CallbackInv

\* A new closure takes a block that is free or on the list, which nobody uses.
LEMMA MakeIInv ==
    ASSUME CallbackInv, NEW c \in Block, NEW s \in Scope, NEW n \in BOOLEAN, Make(c, s, n)
    PROVE  CallbackInv'
<1> USE DEF CallbackInv
<1>1. CallbackTypeOK'
  BY DEF Make, CallbackTypeOK, calls, Swept
<1>2. /\ IsInjective(async_free_list)' /\ \A d \in Block : ~OnList(d)'
  BY Emptied DEF Make, Swept, OnList
<1>3. /\ ~InUse(c) /\ ~callable[c]
      /\ \A d \in Block : InUse(d)' <=> InUse(d)
  BY DEF Make, calls, InUse, HandedOver, ListedDone, OnList
<1>4. \A d \in Block \ {c} :
         /\ block'[d] = IF OnList(d) THEN "free" ELSE block[d]
         /\ scope'[d] = scope[d] /\ notify'[d] = notify[d]
         /\ holder'[d] = holder[d] /\ callable'[d] = callable[d]
         /\ function'[d] = function[d]
  BY DEF Make, CallbackTypeOK, OnList
<1>5. /\ block'[c] = "live" /\ holder'[c] = "marshal" /\ ~callable'[c]
      /\ notify'[c] => scope'[c] = "notified"
  BY DEF Make, CallbackTypeOK
<1>6. HandedOver' /\ ListedDone' /\ AsyncStages' /\ Ends'
  <2> SUFFICES ASSUME NEW d \in Block
               PROVE  /\ (callable[d] \/ InUse(d) =>
                             block[d] = "live" /\ holder[d] # "marshal")'
                      /\ (block[d] = "live" /\ scope[d] = "async" /\ holder[d] # "marshal" =>
                             /\ callable[d] \/ InUse(d) \/ OnList(d)
                             /\ ~(callable[d] /\ InUse(d)))'
                      /\ (/\ notify[d] => scope[d] = "notified"
                          /\ block[d] = "live" /\ holder[d] = "c" => scope[d] # "call"
                          /\ block[d] = "live" /\ holder[d] # "marshal" /\ notify[d]
                                => callable[d])'
    BY <1>2 DEF HandedOver, ListedDone, AsyncStages, Ends
  <2>1. CASE d = c
    BY <1>3, <1>5, <2>1
  <2>2. CASE d # c
    BY <1>2, <1>3, <1>4, <2>2 DEF HandedOver, ListedDone, AsyncStages, Ends
  <2> QED
    BY <2>1, <2>2
<1>7. AsyncOnce'
  <2>1. on' = on /\ phase' = phase
    BY DEF Make, calls
  <2>2. \A k \in Call : on[k] # NULL => on[k] \in Block \ {c}
    BY <1>3 DEF CallbackTypeOK, InUse
  <2> QED
    BY <1>4, <2>1, <2>2 DEF AsyncOnce
<1> QED
  BY <1>1, <1>2, <1>6, <1>7

\* The bodies of a free and of the C call's two ends touch one closure, that no
\* handler runs and that is not on the list.
LEMMA OneClosure ==
    ASSUME CallbackInv, NEW c \in Block, CallbackTypeOK',
           UNCHANGED <<scope, notify, async_free_list, calls>>,
           \A d \in Block \ {c} : /\ block'[d] = block[d] /\ holder'[d] = holder[d]
                                   /\ callable'[d] = callable[d]
                                   /\ function'[d] = function[d],
           ~InUse(c), ~OnList(c),
           callable'[c] => block'[c] = "live" /\ holder'[c] # "marshal",
           block'[c] = "live" /\ holder'[c] # "marshal" =>
              /\ scope[c] \in {"async"} => callable'[c]
              /\ notify[c] => callable'[c]
              /\ holder'[c] = "c" => scope[c] # "call"
    PROVE  CallbackInv'
<1> USE DEF CallbackInv
<1>1. \A d \in Block : (InUse(d)' <=> InUse(d)) /\ (OnList(d)' <=> OnList(d))
  BY DEF InUse, OnList, calls
<1>2. IsInjective(async_free_list)'
  OBVIOUS
<1>3. HandedOver' /\ ListedDone' /\ AsyncStages' /\ Ends'
  BY <1>1 DEF HandedOver, ListedDone, AsyncStages, Ends
<1>4. AsyncOnce'
  <2>1. \A k \in Call : on[k] # NULL => on[k] \in Block \ {c}
    BY DEF CallbackTypeOK, InUse
  <2> QED
    BY <2>1 DEF AsyncOnce, calls
<1> QED
  BY <1>2, <1>3, <1>4
LEMMA FreesIInv ==
    ASSUME CallbackInv, NEW c \in Block,
           \/ MarshalFails(c) \/ CallBegins(c) \/ CallEnds(c) \/ EndFree(c)
           \/ Destroy(c) /\ ~NotifyInUse
    PROVE  CallbackInv'
<1> USE DEF CallbackInv
<1>1. CASE MarshalFails(c)
  <2>1. CallbackTypeOK'
    BY <1>1 DEF MarshalFails, BeginFree, CallbackTypeOK, calls
  <2>2. ~InUse(c) /\ ~OnList(c)
    BY <1>1 DEF MarshalFails, HandedOver, ListedDone
  <2>3. block'[c] = "freeing" /\ ~callable'[c]
    BY <1>1 DEF MarshalFails, BeginFree, CallbackTypeOK
  <2> QED
    BY <1>1, <2>1, <2>2, <2>3, OneClosure DEF MarshalFails, BeginFree, CallbackTypeOK
<1>2. CASE CallBegins(c)
  <2>1. CallbackTypeOK'
    BY <1>2 DEF CallBegins, CallbackTypeOK, calls
  <2>2. ~InUse(c) /\ ~OnList(c)
    BY <1>2 DEF CallBegins, HandedOver, ListedDone
  <2>3. block'[c] = "live" /\ holder'[c] = "callee" /\ callable'[c]
    BY <1>2 DEF CallBegins, CallbackTypeOK
  <2> QED
    BY <1>2, <2>1, <2>2, <2>3, OneClosure DEF CallBegins, CallbackTypeOK
<1>3. CASE CallEnds(c) /\ scope[c] = "call"
  <2>1. CallbackTypeOK'
    BY <1>3 DEF CallEnds, FreedByCleanup, BeginFree, CallbackTypeOK, calls
  <2>2. ~InUse(c) /\ ~OnList(c)
    BY <1>3 DEF CallEnds, FreedByCleanup, ListedDone
  <2>3. block'[c] = "freeing" /\ ~callable'[c]
    BY <1>3 DEF CallEnds, FreedByCleanup, BeginFree, CallbackTypeOK
  <2>4. /\ UNCHANGED <<scope, notify, async_free_list, calls>>
        /\ \A d \in Block \ {c} : /\ block'[d] = block[d] /\ holder'[d] = holder[d]
                                   /\ callable'[d] = callable[d]
                                   /\ function'[d] = function[d]
    BY <1>3 DEF CallEnds, FreedByCleanup, BeginFree, CallbackTypeOK
  <2> QED
    BY <2>1, <2>2, <2>3, <2>4, OneClosure
<1>4. CASE CallEnds(c) /\ scope[c] # "call"
  <2>1. /\ UNCHANGED <<block, scope, notify, callable, function, async_free_list, on, phase>>
        /\ block[c] = "live" /\ holder[c] = "callee"
        /\ holder' = [holder EXCEPT ![c] = "c"]
    BY <1>4 DEF CallEnds, FreedByCleanup, calls
  <2>2. CallbackTypeOK'
    BY <1>4, <2>1 DEF CallEnds, CallbackTypeOK, calls
  <2>3. \A d \in Block : /\ (holder'[d] # "marshal" <=> holder[d] # "marshal")
                         /\ holder'[d] = "c" => holder[d] = "c" \/ d = c
                         /\ (InUse(d)' <=> InUse(d)) /\ (OnList(d)' <=> OnList(d))
    BY <2>1 DEF CallbackTypeOK, InUse, OnList
  <2>4. HandedOver' /\ ListedDone' /\ AsyncStages' /\ Ends'
    BY <1>4, <2>1, <2>3 DEF HandedOver, ListedDone, AsyncStages, Ends
  <2> QED
    BY <2>1, <2>2, <2>4 DEF AsyncOnce
<1>5. CASE EndFree(c)
  <2>1. CallbackTypeOK'
    BY <1>5 DEF EndFree, CallbackTypeOK, calls
  <2>2. ~InUse(c) /\ ~OnList(c) /\ ~callable[c]
    BY <1>5 DEF EndFree, HandedOver, ListedDone
  <2>3. block'[c] = "free" /\ ~callable'[c]
    BY <1>5, <2>2 DEF EndFree, CallbackTypeOK
  <2> QED
    BY <1>5, <2>1, <2>2, <2>3, OneClosure DEF EndFree, CallbackTypeOK
<1>6. CASE Destroy(c) /\ ~NotifyInUse
  <2>1. CallbackTypeOK'
    BY <1>6 DEF Destroy, BeginFree, CallbackTypeOK, calls
  <2>2. ~InUse(c) /\ ~OnList(c)
    BY <1>6 DEF Destroy, ListedDone
  <2>3. block'[c] = "freeing" /\ ~callable'[c]
    BY <1>6 DEF Destroy, BeginFree, CallbackTypeOK
  <2> QED
    BY <1>6, <2>1, <2>2, <2>3, OneClosure DEF Destroy, BeginFree, CallbackTypeOK
<1> QED
  BY <1>1, <1>2, <1>3, <1>4, <1>5, <1>6

\* An activation starts on a closure C may call; that of scope async is the
\* only one it will ever have.
LEMMA EnterIInv ==
    ASSUME CallbackInv, NEW k \in Call, NEW c \in Block, Enter(k, c)
    PROVE  CallbackInv'
<1> USE DEF CallbackInv
<1>1. CallbackTypeOK'
  BY BlocksAssumption DEF Enter, CallbackTypeOK
<1>2. /\ on[k] = NULL /\ block[c] = "live" /\ callable[c] /\ holder[c] # "marshal"
      /\ on' = [on EXCEPT ![k] = c] /\ phase' = [phase EXCEPT ![k] = "python"]
      /\ UNCHANGED <<block, scope, notify, holder, function, async_free_list>>
  BY DEF Enter, HandedOver
<1>3. /\ on'[k] = c /\ \A l \in Call \ {k} : on'[l] = on[l] /\ phase'[l] = phase[l]
      /\ phase'[k] = "python"
  BY <1>2 DEF CallbackTypeOK
<1>4. \A d \in Block : (InUse(d)' <=> InUse(d) \/ d = c) /\ (OnList(d)' <=> OnList(d))
  <2>1. \A d \in Block : d # NULL
    BY BlocksAssumption
  <2> QED
    BY <1>2, <1>3, <2>1 DEF InUse, OnList
<1>5. /\ callable'[c] <=> scope[c] # "async"
      /\ \A d \in Block \ {c} : callable'[d] = callable[d]
  BY DEF Enter, CallbackTypeOK
<1>6. ~OnList(c)
  BY <1>2 DEF ListedDone
<1>7. HandedOver' /\ ListedDone'
  BY <1>2, <1>4, <1>5, <1>6 DEF HandedOver, ListedDone
<1>8. AsyncStages' /\ Ends'
  BY <1>2, <1>4, <1>5 DEF AsyncStages, Ends
<1>9. AsyncOnce'
  <2>1. scope[c] = "async" => ~InUse(c)
    BY <1>2 DEF AsyncStages
  <2> QED
    BY <1>2, <1>3, <2>1 DEF AsyncOnce, InUse
<1> QED
  BY <1>1, <1>2, <1>7, <1>8, <1>9

\* The callable's result, and leaving a closure whose scope is not async.
LEMMA HandlerIInv ==
    ASSUME CallbackInv, NEW k \in Call, Raised(k) \/ Returned(k) \/ Leave(k) \/ ClearData(k)
    PROVE  CallbackInv'
<1> USE DEF CallbackInv
<1>1. CASE Raised(k) \/ Returned(k)
  <2>1. /\ phase[k] = "python" /\ phase' = [phase EXCEPT ![k] = "end"]
        /\ UNCHANGED <<blocks, async_free_list, on, created>>
        /\ \E r \in {"zero", "set", "unset"} : ret' = [ret EXCEPT ![k] = r]
    BY <1>1 DEF Raised, Returned
  <2>2. CallbackTypeOK'
    BY <2>1 DEF CallbackTypeOK, blocks
  <2>3. \A l \in Call : phase'[l] = "cleared" => phase[l] = "cleared"
    BY <2>1 DEF CallbackTypeOK
  <2>4. HandedOver' /\ ListedDone' /\ AsyncStages' /\ Ends'
    BY <2>1 DEF HandedOver, ListedDone, AsyncStages, Ends, InUse, OnList, blocks
  <2> QED
    BY <2>1, <2>2, <2>3, <2>4 DEF AsyncOnce, blocks
<1>2. CASE Leave(k)
  <2>1. /\ phase[k] = "end" /\ scope[on[k]] # "async"
        /\ phase' = [phase EXCEPT ![k] = "idle"] /\ on' = [on EXCEPT ![k] = NULL]
        /\ UNCHANGED <<blocks, async_free_list, ret, created>>
    BY <1>2 DEF Leave
  <2>2. CallbackTypeOK'
    BY <2>1 DEF CallbackTypeOK, blocks
  <2>3. /\ \A l \in Call \ {k} : on'[l] = on[l] /\ phase'[l] = phase[l]
        /\ on'[k] = NULL
    BY <2>1 DEF CallbackTypeOK
  <2>4. \A d \in Block : /\ InUse(d)' => InUse(d)
                         /\ InUse(d) /\ scope[d] = "async" => InUse(d)'
                         /\ OnList(d)' <=> OnList(d)
    BY <2>1, <2>3, BlocksAssumption DEF InUse, OnList
  <2>5. HandedOver' /\ ListedDone' /\ AsyncStages' /\ Ends'
    BY <2>1, <2>4 DEF HandedOver, ListedDone, AsyncStages, Ends, blocks
  <2> QED
    BY <2>1, <2>2, <2>3, <2>5 DEF AsyncOnce, blocks
<1>3. CASE ClearData(k)
  <2>1. /\ phase[k] = "end" /\ scope[on[k]] = "async"
        /\ function' = [function EXCEPT ![on[k]] = FALSE]
        /\ phase' = [phase EXCEPT ![k] = "cleared"]
        /\ UNCHANGED <<block, scope, notify, holder, callable, async_free_list, on,
                       ret, created>>
    BY <1>3 DEF ClearData
  <2>2. CallbackTypeOK'
    BY <2>1 DEF CallbackTypeOK
  <2>3. /\ on[k] \in Block /\ ~function'[on[k]]
        /\ \A d \in Block : function'[d] => function[d]
        /\ \A l \in Call \ {k} : phase'[l] = phase[l]
    BY <2>1 DEF CallbackTypeOK
  <2>4. HandedOver' /\ ListedDone' /\ AsyncStages' /\ Ends'
    BY <2>1, <2>3 DEF HandedOver, ListedDone, AsyncStages, Ends, InUse, OnList
  <2>5. AsyncOnce'
    BY <2>1, <2>3 DEF AsyncOnce, CallbackTypeOK
  <2> QED
    BY <2>1, <2>2, <2>4, <2>5
<1> QED
  BY <1>1, <1>2, <1>3

\* The closure of a finished async callback changes hands once: from the
\* handler to the list.
LEMMA ListIInv ==
    ASSUME CallbackInv, NEW k \in Call, List(k)
    PROVE  CallbackInv'
<1> USE DEF CallbackInv
<1> DEFINE c == on[k]
<1>1. /\ phase[k] = "cleared" /\ async_free_list' = <<c>> \o async_free_list
      /\ phase' = [phase EXCEPT ![k] = "idle"] /\ on' = [on EXCEPT ![k] = NULL]
      /\ UNCHANGED <<blocks, ret, created>>
  BY DEF List
<1>2. /\ c \in Block /\ c # NULL /\ block[c] = "live" /\ holder[c] # "marshal"
      /\ scope[c] = "async" /\ ~function[c] /\ InUse(c) /\ ~callable[c] /\ ~OnList(c)
      /\ \A l \in Call : on[l] = c => l = k
  <2>1. c \in Block /\ c # NULL /\ InUse(c)
    BY <1>1 DEF CallbackTypeOK, InUse
  <2>2. scope[c] = "async" /\ ~function[c] /\ \A l \in Call : on[l] = c => l = k
    BY <1>1, <2>1 DEF AsyncOnce
  <2>3. block[c] = "live" /\ holder[c] # "marshal" /\ ~OnList(c)
    BY <2>1 DEF HandedOver, ListedDone
  <2>4. ~callable[c]
    BY <2>1, <2>2, <2>3 DEF AsyncStages
  <2> QED
    BY <2>1, <2>2, <2>3, <2>4
<1>3. /\ async_free_list' \in Seq(Block) /\ IsInjective(async_free_list')
      /\ Range(async_free_list') = {c} \cup Range(async_free_list)
  BY <1>1, <1>2, Pushed DEF CallbackTypeOK, OnList
<1>4. CallbackTypeOK'
  BY <1>1, <1>3 DEF CallbackTypeOK, blocks
<1>5. /\ \A l \in Call \ {k} : on'[l] = on[l] /\ phase'[l] = phase[l]
      /\ on'[k] = NULL
  BY <1>1 DEF CallbackTypeOK
<1>6. \A d \in Block : /\ InUse(d)' <=> InUse(d) /\ d # c
                       /\ OnList(d)' <=> OnList(d) \/ d = c
  BY <1>2, <1>3, <1>5, BlocksAssumption DEF InUse, OnList
<1>7. HandedOver' /\ ListedDone' /\ AsyncStages' /\ Ends'
  BY <1>1, <1>2, <1>6 DEF HandedOver, ListedDone, AsyncStages, Ends, blocks
<1>8. AsyncOnce'
  BY <1>1, <1>5 DEF AsyncOnce, blocks
<1> QED
  BY <1>3, <1>4, <1>7, <1>8

LEMMA NextIInv ==
    ASSUME CallbackInv, [CallbackNext]_callback_vars, ~NotifyInUse
    PROVE  CallbackInv'
<1>1. CASE UNCHANGED callback_vars
  BY <1>1 DEF CallbackInv, callback_vars, blocks, calls, CallbackTypeOK, HandedOver, ListedDone, AsyncStages,
              AsyncOnce, Ends, InUse, OnList
<1>2. ASSUME NEW c \in Block, \E s \in Scope, n \in BOOLEAN : Make(c, s, n)
      PROVE  CallbackInv'
  BY <1>2, MakeIInv
<1>3. ASSUME NEW c \in Block,
             EndFree(c) \/ MarshalFails(c) \/ CallBegins(c) \/ CallEnds(c) \/ Destroy(c)
      PROVE  CallbackInv'
  BY <1>3, FreesIInv
<1>4. ASSUME NEW c \in Block, NEW k \in Call, Enter(k, c)
      PROVE  CallbackInv'
  BY <1>4, EnterIInv
<1>5. ASSUME NEW k \in Call, Raised(k) \/ Returned(k) \/ Leave(k) \/ ClearData(k) \/ List(k)
      PROVE  CallbackInv'
  BY <1>5, HandlerIInv, ListIInv
<1> QED
  BY <1>1, <1>2, <1>3, <1>4, <1>5 DEF CallbackNext

\* The invariant of the native closures, unless C destroys one in use.
THEOREM CallbackInvariance ==
    ASSUME ~NotifyInUse
    PROVE  CallbackSpec => []CallbackInv
<1>1. CallbackInv /\ [CallbackNext]_callback_vars => CallbackInv'
  BY NextIInv
<1> QED
  BY CallbacksInit, <1>1, PTL DEF CallbackSpec

\* A handler never goes on with a closure that was freed under it: every way to
\* free one is closed while it runs, except C's destroy notify.
THEOREM UsesAlive ==
    ASSUME ~NotifyInUse
    PROVE  CallbackSpec => []UsedAlive
<1>1. CallbackInv => UsedAlive
  BY DEF CallbackInv, CallbackTypeOK, HandedOver, UsedAlive, InUse
<1> QED
  BY <1>1, CallbackInvariance, PTL

\* Every closure has exactly one who will free it, and the list holds closures
\* without Python data, each once.
THEOREM EachFreedOnce ==
    ASSUME ~NotifyInUse
    PROVE  CallbackSpec => []ClosuresOwned
<1>1. ASSUME CallbackInv PROVE FreedOnce
  <2> USE <1>1 DEF CallbackInv
  <2> SUFFICES ASSUME NEW c \in Block
               PROVE  LET who == {f \in 1..4 : <<FreedByCall(c), FreedByNotify(c),
                                                FreedByHandler(c), FreedByList(c)>>[f]}
                      IN /\ FreedByList(c) => block[c] = "live"
                         /\ block[c] = "live" =>
                               IF scope[c] \in {"call", "async"} \/ notify[c]
                               THEN Cardinality(who) = 1 ELSE Cardinality(who) <= 1
    BY DEF FreedOnce
  <2> DEFINE who == {f \in 1..4 : <<FreedByCall(c), FreedByNotify(c),
                                   FreedByHandler(c), FreedByList(c)>>[f]}
  <2>0. /\ FreedByCall(c) /\ ~FreedByNotify(c) /\ ~FreedByHandler(c) /\ ~FreedByList(c)
              => Cardinality(who) = 1
        /\ ~FreedByCall(c) /\ FreedByNotify(c) /\ ~FreedByHandler(c) /\ ~FreedByList(c)
              => Cardinality(who) = 1
        /\ ~FreedByCall(c) /\ ~FreedByNotify(c) /\ FreedByHandler(c) /\ ~FreedByList(c)
              => Cardinality(who) = 1
        /\ ~FreedByCall(c) /\ ~FreedByNotify(c) /\ ~FreedByHandler(c) /\ FreedByList(c)
              => Cardinality(who) = 1
        /\ ~FreedByCall(c) /\ ~FreedByNotify(c) /\ ~FreedByHandler(c) /\ ~FreedByList(c)
              => Cardinality(who) = 0
    <3>1. 1 \in who <=> FreedByCall(c)
      OBVIOUS
    <3>2. 2 \in who <=> FreedByNotify(c)
      OBVIOUS
    <3>3. 3 \in who <=> FreedByHandler(c)
      OBVIOUS
    <3>4. 4 \in who <=> FreedByList(c)
      OBVIOUS
    <3>5. \A f \in who : f = 1 \/ f = 2 \/ f = 3 \/ f = 4
      OBVIOUS
    <3> HIDE DEF who
    <3>6. /\ 1 \in who /\ 2 \notin who /\ 3 \notin who /\ 4 \notin who => who = {1}
          /\ 1 \notin who /\ 2 \in who /\ 3 \notin who /\ 4 \notin who => who = {2}
          /\ 1 \notin who /\ 2 \notin who /\ 3 \in who /\ 4 \notin who => who = {3}
          /\ 1 \notin who /\ 2 \notin who /\ 3 \notin who /\ 4 \in who => who = {4}
          /\ 1 \notin who /\ 2 \notin who /\ 3 \notin who /\ 4 \notin who => who = {}
      BY <3>5
    <3>7. \A f : Cardinality({f}) = 1
      BY FS_Singleton
    <3> QED
      BY <3>1, <3>2, <3>3, <3>4, <3>6, <3>7, FS_EmptySet
  <2> HIDE DEF who
  <2>1. FreedByList(c) <=> OnList(c)
    BY DEF FreedByList, OnList
  <2>2. OnList(c) => block[c] = "live"
    BY DEF ListedDone
  <2>3. ASSUME block[c] = "live", holder[c] = "marshal"
        PROVE  Cardinality(who) = 1
    <3>1. ~callable[c] /\ ~InUse(c) /\ ~OnList(c)
      BY <2>3 DEF HandedOver, ListedDone
    <3>2. FreedByCall(c) /\ ~FreedByNotify(c) /\ ~FreedByHandler(c) /\ ~FreedByList(c)
      BY <2>1, <2>3, <3>1 DEF FreedByCall, FreedByNotify, FreedByHandler
    <3> QED
      BY <2>0, <3>2
  <2>4. ASSUME block[c] = "live", holder[c] # "marshal", scope[c] = "call"
        PROVE  Cardinality(who) = 1
    <3>1. holder[c] = "callee" /\ ~notify[c] /\ ~OnList(c)
      BY <2>4 DEF CallbackTypeOK, Ends, ListedDone
    <3>2. FreedByCall(c) /\ ~FreedByNotify(c) /\ ~FreedByHandler(c) /\ ~FreedByList(c)
      BY <2>1, <2>4, <3>1 DEF FreedByCall, FreedByNotify, FreedByHandler
    <3> QED
      BY <2>0, <3>2
  <2>5. ASSUME block[c] = "live", holder[c] # "marshal", scope[c] = "async"
        PROVE  Cardinality(who) = 1
    <3>1. /\ ~notify[c] /\ (callable[c] \/ InUse(c) \/ OnList(c))
          /\ OnList(c) => ~callable[c] /\ ~InUse(c)
      BY <2>5 DEF Ends, AsyncStages, ListedDone
    <3>2. /\ ~FreedByCall(c) /\ ~FreedByNotify(c)
          /\ FreedByHandler(c) <=> callable[c] \/ InUse(c)
      BY <2>5, <3>1 DEF FreedByCall, FreedByNotify, FreedByHandler
    <3>3. CASE OnList(c)
      BY <2>0, <2>1, <3>1, <3>2, <3>3
    <3>4. CASE ~OnList(c)
      BY <2>0, <2>1, <3>1, <3>2, <3>4
    <3> QED
      BY <3>3, <3>4
  <2>6. ASSUME block[c] = "live", holder[c] # "marshal", scope[c] \notin {"call", "async"}
        PROVE  /\ notify[c] => Cardinality(who) = 1
               /\ ~notify[c] => Cardinality(who) = 0
    <3>1. ~OnList(c) /\ (notify[c] => callable[c])
      BY <2>6 DEF Ends, ListedDone
    <3>2. /\ ~FreedByCall(c) /\ ~FreedByHandler(c) /\ ~FreedByList(c)
          /\ FreedByNotify(c) <=> notify[c]
      BY <2>1, <2>6, <3>1 DEF FreedByCall, FreedByNotify, FreedByHandler
    <3> QED
      BY <2>0, <3>2
  <2> QED
    BY <2>1, <2>2, <2>3, <2>4, <2>5, <2>6 DEF who
<1>2. CallbackInv => ListedBare
  BY DEF CallbackInv, ListedDone, ListedBare, OnList, CallbackTypeOK, Range
<1>3. CallbackInv => ClosuresOwned
  BY <1>1, <1>2 DEF CallbackInv, ClosuresOwned
<1> QED
  BY <1>3, CallbackInvariance, PTL
=============================================================================
