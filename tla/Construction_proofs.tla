------------------------ MODULE Construction_proofs ------------------------
(***************************************************************************)
(* Safety of the construction of objects, for any objects, wrappers,       *)
(* classes and bounds, as long as nothing is shown to Python before it met *)
(* its wrapper, and nothing keeps what GObject.new() constructs.           *)
(***************************************************************************)
EXTENDS Construction, FiniteSetTheorems, SequenceTheorems, TLAPS

(***************************************************************************)
(* The stack.                                                              *)
(***************************************************************************)
LEMMA TopFacts ==
    ASSUME stack \in Seq(Frame), stack # <<>>
    PROVE  /\ Len(stack) \in Nat /\ Len(stack) \in DOMAIN stack /\ DOMAIN stack = 1 .. Len(stack)
           /\ Top = stack[Len(stack)] /\ Top \in Frame /\ Top \in Frames
           /\ Front(stack) \in Seq(Frame) /\ Len(Front(stack)) = Len(stack) - 1
           /\ \A i \in 1 .. Len(stack) - 1 : Front(stack)[i] = stack[i]
<1>1. Len(stack) \in Nat /\ DOMAIN stack = 1 .. Len(stack) /\ Len(stack) # 0
  BY EmptySeq, SeqDef
<1>2. Top = stack[Len(stack)] /\ Top \in Frame /\ Top \in Frames
  BY <1>1 DEF Top, Last, Frames, ToSet
<1>3. /\ Front(stack) \in Seq(Frame) /\ Len(Front(stack)) = Len(stack) - 1
      /\ \A i \in 1 .. Len(stack) - 1 : Front(stack)[i] = stack[i]
  BY <1>1, SubSeqProperties DEF Front
<1> QED
  BY <1>1, <1>2, <1>3

\* The innermost construction goes on.
LEMMA Replaced ==
    ASSUME stack \in Seq(Frame), stack # <<>>, NEW g \in Frame, Goes(g)
    PROVE  /\ stack' \in Seq(Frame) /\ Len(stack') = Len(stack) /\ stack' # <<>>
           /\ DOMAIN stack' = DOMAIN stack /\ stack'[Len(stack)] = g
           /\ \A i \in DOMAIN stack : i # Len(stack) => stack'[i] = stack[i]
<1> DEFINE s == Front(stack)
<1>1. /\ s \in Seq(Frame) /\ Len(s) = Len(stack) - 1 /\ Len(stack) \in Nat /\ DOMAIN stack = 1 .. Len(stack)
      /\ \A i \in 1 .. Len(stack) - 1 : s[i] = stack[i]
  BY TopFacts
<1>2. stack' = Append(s, g)
  BY DEF Goes
<1> HIDE DEF s
<1>3. /\ Append(s, g) \in Seq(Frame) /\ Append(s, g) # <<>>
      /\ Len(Append(s, g)) = Len(stack) /\ Append(s, g)[Len(stack)] = g
      /\ \A i \in 1 .. Len(stack) - 1 : Append(s, g)[i] = stack[i]
  BY <1>1, AppendProperties
<1>4. DOMAIN stack' = 1 .. Len(stack)
  BY <1>1, <1>2, <1>3
<1> QED
  BY <1>1, <1>2, <1>3, <1>4

\* A construction begins inside all others.
LEMMA Pushed ==
    ASSUME stack \in Seq(Frame), NEW g \in Frame, stack' = Append(stack, g)
    PROVE  /\ stack' \in Seq(Frame) /\ Len(stack) \in Nat
           /\ DOMAIN stack = 1 .. Len(stack) /\ DOMAIN stack' = 1 .. Len(stack) + 1
           /\ stack'[Len(stack) + 1] = g /\ \A i \in DOMAIN stack : stack'[i] = stack[i]
           /\ Frames' = Frames \cup {g}
<1>1. /\ stack' \in Seq(Frame) /\ Len(stack') = Len(stack) + 1 /\ Len(stack) \in Nat
      /\ stack'[Len(stack) + 1] = g /\ \A i \in 1 .. Len(stack) : stack'[i] = stack[i]
  BY AppendProperties
<1>2. DOMAIN stack = 1 .. Len(stack) /\ DOMAIN stack' = 1 .. Len(stack) + 1
  BY <1>1
<1>3. Frames' = Frames \cup {g}
  BY <1>1, <1>2 DEF Frames, ToSet
<1> QED
  BY <1>1, <1>2, <1>3

\* The innermost construction ends.
LEMMA Popped ==
    ASSUME stack \in Seq(Frame), stack # <<>>, Apart, stack' = Front(stack)
    PROVE  /\ stack' \in Seq(Frame) /\ DOMAIN stack' = 1 .. Len(stack) - 1
           /\ \A i \in DOMAIN stack' : i \in DOMAIN stack /\ i # Len(stack) /\ stack'[i] = stack[i]
           /\ Frames' = {f \in Frames : f.o # Top.o}
<1>1. /\ stack' \in Seq(Frame) /\ Len(stack') = Len(stack) - 1 /\ Len(stack) \in Nat
      /\ DOMAIN stack = 1 .. Len(stack) /\ Top = stack[Len(stack)] /\ Len(stack) \in DOMAIN stack
      /\ \A i \in 1 .. Len(stack) - 1 : stack'[i] = stack[i]
  BY TopFacts
<1>2. DOMAIN stack' = 1 .. Len(stack) - 1
  BY <1>1
<1>3. \A i \in DOMAIN stack' : i \in DOMAIN stack /\ i # Len(stack) /\ stack'[i] = stack[i]
  BY <1>1, <1>2
<1>4. \A f \in Frames' : f \in Frames /\ f.o # Top.o
  BY <1>1, <1>3 DEF Frames, ToSet, Apart
<1>5. \A f \in Frames : f.o # Top.o => f \in Frames'
  <2> TAKE f \in Frames
  <2> HAVE f.o # Top.o
  <2>1. PICK i \in DOMAIN stack : f = stack[i]
    BY DEF Frames, ToSet
  <2>2. i \in 1 .. Len(stack) - 1
    BY <1>1, <2>1
  <2> QED
    BY <1>1, <1>2, <2>1, <2>2 DEF Frames, ToSet
<1> QED
  BY <1>1, <1>2, <1>3, <1>4, <1>5

(***************************************************************************)
(* Frames, by their objects.                                               *)
(***************************************************************************)
LEMMA OneFrame ==
    ASSUME stack \in Seq(Frame), Apart, NEW f \in Frames, NEW g \in Frames
    PROVE  /\ f.o = g.o => f = g
           /\ f.self = g.self /\ f.self # NULL => f = g
  BY DEF Frames, ToSet, Apart

\* The frame of object o becomes g.
Exchanged(o, g) ==
    /\ g.o = o /\ g \in Frames'
    /\ \A f \in Frames' : f \in Frame /\ (f.o # o => f \in Frames) /\ (f.o = o => f = g)
    /\ \A f \in Frames : f.o # o => f \in Frames'
\* Object o has no frame any more, if it had one.
Removed(o) == Frames' = {f \in Frames : f.o # o}

LEMMA GoesOn ==
    ASSUME stack \in Seq(Frame), stack # <<>>, Apart, NEW g \in Frame, Goes(g),
           g.o = Top.o, g.self = Top.self
    PROVE  stack' \in Seq(Frame) /\ Apart' /\ Exchanged(Top.o, g)
<1>1. /\ Len(stack) \in DOMAIN stack /\ Top = stack[Len(stack)]
  BY TopFacts
<1>2. /\ stack' \in Seq(Frame) /\ DOMAIN stack' = DOMAIN stack /\ stack'[Len(stack)] = g
      /\ \A i \in DOMAIN stack : i # Len(stack) => stack'[i] = stack[i]
  BY Replaced
<1>3. \A i \in DOMAIN stack : stack'[i].o = stack[i].o /\ stack'[i].self = stack[i].self
  BY <1>1, <1>2
<1>4. Apart'
  BY <1>2, <1>3 DEF Apart
<1>5. Exchanged(Top.o, g)
  <2>1. g \in Frames'
    BY <1>1, <1>2 DEF Frames, ToSet
  <2>2. ASSUME NEW f \in Frames' PROVE f \in Frame /\ (f.o # Top.o => f \in Frames) /\ (f.o = Top.o => f = g)
    <3>1. PICK i \in DOMAIN stack : f = stack'[i]
      BY <1>2 DEF Frames, ToSet
    <3>2. f \in Frame
      BY <1>2, <3>1
    <3>3. i = Len(stack) => f = g
      BY <1>2, <3>1
    <3>4. i # Len(stack) => f = stack[i] /\ f \in Frames /\ f.o # Top.o
      BY <1>1, <1>2, <3>1 DEF Frames, ToSet, Apart
    <3> QED
      BY <3>2, <3>3, <3>4
  <2>3. \A f \in Frames : f.o # Top.o => f \in Frames'
    BY <1>1, <1>2 DEF Frames, ToSet
  <2> QED
    BY <2>1, <2>2, <2>3 DEF Exchanged
<1> QED
  BY <1>2, <1>4, <1>5

LEMMA SameStack ==
    ASSUME stack \in Seq(Frame), Apart, stack' = stack
    PROVE  /\ stack' \in Seq(Frame) /\ Apart' /\ Frames' = Frames
           /\ \A f \in Frames : Exchanged(f.o, f)
<1>1. Frames' = Frames /\ Apart' /\ stack' \in Seq(Frame)
  BY DEF Frames, Apart
<1>2. \A f \in Frames : f \in Frame
  BY DEF Frames, ToSet
<1> QED
  BY <1>1, <1>2, OneFrame DEF Exchanged

(***************************************************************************)
(* A step concerns one object and one wrapper.                             *)
(***************************************************************************)
\* Object o, or none, and wrapper w, or none, are not of others.
Only(o, w) ==
    /\ \A p \in Object : p # o => /\ state'[p] = state[p] /\ ref_count'[p] = ref_count[p] /\ floating'[p] = floating[p]
                                  /\ cref'[p] = cref[p] /\ wrapper_key'[p] = wrapper_key[p]
                                  /\ init_refs'[p] = init_refs[p]
    /\ \A v \in Wrapper : v # w => /\ obj'[v] = obj[v] /\ ob_refcnt'[v] = ob_refcnt[v]
                                   /\ held'[v] = held[v] /\ pyclass'[v] = pyclass[v]
    /\ o \in Object => wrapper_key[o] \in {NULL, w} /\ wrapper_key'[o] \in {NULL, w}
    /\ w \in Wrapper => obj[w] \in {NULL, o} /\ obj'[w] \in {NULL, o}
    /\ \A f \in Frames : f.self = w /\ w # NULL => f.o = o

\* The frames of other objects stay.
OtherFrames(o) ==
    /\ \A f \in Frames' : f.o # o => f \in Frames
    /\ \A f \in Frames : f.o # o => f \in Frames'

LEMMA FrameFacts ==
    ASSUME TypeOK, NEW f \in Frames
    PROVE  /\ f \in Frame /\ f.o \in Object /\ f.o # NULL /\ f.self \in Wrapper \cup {NULL} /\ f.w \in Wrapper \cup {NULL}
           /\ f.level \in Nat /\ f.at \in Step /\ f.by \in {"init", "new", "c"} /\ f.fresh \in BOOLEAN /\ f.floated \in BOOLEAN
           /\ f.back \in Step
           /\ TypeOf[f.o] \in Class /\ Levels[TypeOf[f.o]] \in Nat
<1>1. f \in Frame
  BY DEF TypeOK, Frames, ToSet
<1>2. /\ f.o \in Object /\ f.self \in Wrapper \cup {NULL} /\ f.w \in Wrapper \cup {NULL}
      /\ f.level \in Nat /\ f.at \in Step /\ f.by \in {"init", "new", "c"} /\ f.fresh \in BOOLEAN /\ f.floated \in BOOLEAN
      /\ f.back \in Step
  BY <1>1 DEF Frame
<1> QED
  BY <1>1, <1>2, ConstructionAssumption

LEMMA OthersKept ==
    ASSUME IInv, NEW o, NEW w, Only(o, w), OtherFrames(o)
    PROVE  /\ \A f \in Frames' : f.o # o => FrameOK(f)'
           /\ \A p \in Object : p # o => ObjectOK(p)'
           /\ \A v \in Wrapper : v # w => WrapperOK(v)'
<1>1. /\ TypeOK /\ \A f \in Frames : FrameOK(f)
      /\ \A p \in Object : ObjectOK(p)
      /\ \A v \in Wrapper : WrapperOK(v)
  BY DEF IInv
<1>2. ASSUME NEW f \in Frames', f.o # o PROVE FrameOK(f)'
  <2>1. f \in Frames /\ FrameOK(f)
    BY <1>1, <1>2 DEF OtherFrames
  <2>2. f.o \in Object /\ f.self \in Wrapper \cup {NULL} /\ f.o # NULL
    BY <1>1, <2>1, FrameFacts
  <2>3. /\ state'[f.o] = state[f.o] /\ ref_count'[f.o] = ref_count[f.o] /\ floating'[f.o] = floating[f.o]
        /\ cref'[f.o] = cref[f.o] /\ wrapper_key'[f.o] = wrapper_key[f.o] /\ init_refs'[f.o] = init_refs[f.o]
    BY <1>2, <2>2 DEF Only
  <2>4. f.self # NULL => /\ obj'[f.self] = obj[f.self] /\ held'[f.self] = held[f.self]
                         /\ pyclass'[f.self] = pyclass[f.self]
    BY <1>2, <2>1, <2>2 DEF Only
  <2>5. wrapper_key[f.o] # NULL => held'[wrapper_key[f.o]] = held[wrapper_key[f.o]]
    <3> HAVE wrapper_key[f.o] # NULL
    <3>1. obj[wrapper_key[f.o]] = f.o /\ wrapper_key[f.o] \in Wrapper
      BY <1>1, <2>2 DEF ObjectOK, TypeOK
    <3>2. wrapper_key[f.o] # w
      BY <1>2, <2>2, <3>1 DEF Only
    <3> QED
      BY <3>1, <3>2 DEF Only
  <2>6. Progress(f)'
    BY <2>1 DEF FrameOK, Progress, AtLevel, PastLevels, Registered
  <2>7. Meeting(f)'
    BY <2>1, <2>3, <2>4 DEF FrameOK, Meeting, AtLevel, Registered, Released
  <2>8. Taken(f)'
    BY <2>1, <2>3 DEF FrameOK, Taken, AtLevel, Released
  <2>9. Owned(f)'
    BY <2>1, <2>3, <2>5 DEF FrameOK, Owned, IsFloating
  <2> QED
    BY <2>1, <2>3, <2>6, <2>7, <2>8, <2>9 DEF FrameOK
<1>3. \A p : p # o => ((\E f \in Frames' : f.o = p) <=> (\E f \in Frames : f.o = p))
  BY DEF OtherFrames
<1>4. \A p : p # o => (ByInit(p)' <=> ByInit(p)) /\ (Guarded(p)' <=> Guarded(p))
  BY DEF OtherFrames, ByInit, Guarded
<1>5. ASSUME NEW p \in Object, p # o PROVE ObjectOK(p)'
  <2>1. ObjectOK(p) /\ p # NULL /\ wrapper_key[p] \in Wrapper \cup {NULL}
    BY <1>1, ConstructionAssumption DEF TypeOK
  <2>2. /\ state'[p] = state[p] /\ ref_count'[p] = ref_count[p] /\ floating'[p] = floating[p]
        /\ cref'[p] = cref[p] /\ wrapper_key'[p] = wrapper_key[p] /\ init_refs'[p] = init_refs[p]
    BY <1>5 DEF Only
  <2>3. wrapper_key[p] # NULL => obj'[wrapper_key[p]] = p
    <3> HAVE wrapper_key[p] # NULL
    <3>1. obj[wrapper_key[p]] = p
      BY <2>1 DEF ObjectOK
    <3>2. wrapper_key[p] # w
      BY <1>5, <2>1, <3>1 DEF Only
    <3> QED
      BY <2>1, <3>1, <3>2 DEF Only
  <2>4. /\ (state'[p] = "making" <=> \E f \in Frames' : f.o = p)
        /\ (ByInit(p)' <=> ByInit(p)) /\ (Guarded(p)' <=> Guarded(p))
    BY <1>3, <1>4, <1>5, <2>1, <2>2 DEF ObjectOK
  <2> QED
    BY <2>1, <2>2, <2>3, <2>4 DEF ObjectOK, IsFloating, Flag
<1>6. ASSUME NEW v \in Wrapper, v # w PROVE WrapperOK(v)'
  <2>1. WrapperOK(v) /\ obj[v] \in Object \cup {NULL}
    BY <1>1 DEF TypeOK
  <2>2. obj'[v] = obj[v] /\ ob_refcnt'[v] = ob_refcnt[v] /\ held'[v] = held[v] /\ pyclass'[v] = pyclass[v]
    BY <1>6 DEF Only
  <2>3. CASE obj[v] = NULL
    BY <2>1, <2>2, <2>3 DEF WrapperOK, Used
  <2>4. CASE obj[v] # NULL
    <3>1. obj[v] \in Object /\ wrapper_key[obj[v]] = v /\ v # NULL
      BY <2>1, <2>4, ConstructionAssumption DEF WrapperOK
    <3>2. obj[v] # o
      BY <1>6, <3>1 DEF Only
    <3>3. wrapper_key'[obj[v]] = v /\ init_refs'[obj[v]] = init_refs[obj[v]]
      BY <3>1, <3>2 DEF Only
    <3>4. Used(v)' <=> Used(v)
      BY <2>2, <3>2 DEF Used, OtherFrames, Using, AtLevel
    <3> QED
      BY <2>1, <2>2, <2>4, <3>3, <3>4 DEF WrapperOK, Flag
  <2> QED
    BY <2>3, <2>4
<1> QED
  BY <1>2, <1>5, <1>6

(***************************************************************************)
(* The counts of one object with its frame, or without.                    *)
(***************************************************************************)
Counted(o, byInit, making, guarded) ==
    ref_count[o] = cref[o] + Flag(floating[o]) + Flag(wrapper_key[o] # NULL /\ ~byInit)
                   + Flag(making /\ ~IsFloating(o)) + Flag(guarded)
ObjectWith(o, f) ==
    /\ state[o] = "making"
    /\ floating[o] => IsFloating(o)
    /\ wrapper_key[o] # NULL => obj[wrapper_key[o]] = o
    /\ Counted(o, f.by = "init", TRUE, f.at = "template")
ObjectWithout(o) ==
    /\ state[o] # "making" /\ init_refs[o] = 0
    /\ state[o] = "absent" => cref[o] = 0 /\ ~floating[o] /\ wrapper_key[o] = NULL
    /\ floating[o] => IsFloating(o)
    /\ wrapper_key[o] # NULL => obj[wrapper_key[o]] = o
    /\ Counted(o, FALSE, FALSE, FALSE)
\* A wrapper of an object that it is used for, or not.
WrapperWith(w, used) ==
    /\ obj[w] # NULL => wrapper_key[obj[w]] = w /\ ob_refcnt[w] > 0 /\ pyclass[w] = TypeOf[obj[w]]
    /\ ob_refcnt[w] = held[w] + (IF obj[w] = NULL THEN 0 ELSE init_refs[obj[w]]) + Flag(obj[w] # NULL /\ used)

LEMMA WithFrame ==
    ASSUME IInv, NEW f \in Frames
    PROVE  FrameOK(f) /\ ObjectWith(f.o, f)
<1>1. \A g \in Frames : g.o = f.o => g = f
  BY OneFrame DEF IInv, TypeOK
<1>2. f.o \in Object /\ FrameOK(f) /\ ObjectOK(f.o)
  BY FrameFacts DEF IInv
<1>3. (ByInit(f.o) <=> f.by = "init") /\ (Guarded(f.o) <=> f.at = "template")
  BY <1>1 DEF ByInit, Guarded
<1> QED
  BY <1>2, <1>3 DEF ObjectOK, ObjectWith, Counted, FrameOK, Flag

LEMMA WithoutFrame ==
    ASSUME IInv, NEW o \in Object, state[o] # "making"
    PROVE  ObjectWithout(o) /\ \A f \in Frames : f.o # o
<1>1. ObjectOK(o)
  BY DEF IInv
<1>2. \A f \in Frames : f.o # o
  BY <1>1 DEF ObjectOK
<1>3. ~ByInit(o) /\ ~Guarded(o)
  BY <1>2 DEF ByInit, Guarded
<1> QED
  BY <1>1, <1>2, <1>3 DEF ObjectOK, ObjectWithout, Counted, Flag

LEMMA OfFrame ==
    ASSUME IInv, NEW f \in Frames, NEW w \in Wrapper, obj[w] \in {NULL, f.o}
    PROVE  WrapperWith(w, Using(f))
<1>1. \A g \in Frames : g.o = f.o => g = f
  BY OneFrame DEF IInv, TypeOK
<1>2. WrapperOK(w) /\ f.o # NULL
  BY FrameFacts DEF IInv
<1>3. Used(w) <=> obj[w] # NULL /\ Using(f)
  BY <1>1 DEF Used
<1> QED
  BY <1>2, <1>3 DEF WrapperOK, WrapperWith, Flag

LEMMA OfNone ==
    ASSUME IInv, NEW w \in Wrapper, obj[w] # NULL => \A f \in Frames : f.o # obj[w]
    PROVE  WrapperWith(w, FALSE)
<1>1. WrapperOK(w) /\ ~Used(w)
  BY DEF IInv, Used
<1> QED
  BY <1>1 DEF WrapperOK, WrapperWith, Flag

\* A step of a construction, or that finds the object under construction.
LEMMA InFrame ==
    ASSUME IInv, TypeOK', Apart', ConstructionOK', NEW o \in Object, NEW w \in Wrapper \cup {NULL}, Only(o, w),
           NEW g \in Frame, Exchanged(o, g),
           FrameOK(g)', ObjectWith(o, g)', w # NULL => WrapperWith(w, Using(g))'
    PROVE  IInv'
<1>1. \A f \in Frames' : f.o = o <=> f = g
  BY DEF Exchanged
<1>2. g \in Frames' /\ g.o = o
  BY DEF Exchanged
<1>3. OtherFrames(o)
  BY DEF Exchanged, OtherFrames
<1>4. /\ \A f \in Frames' : f.o # o => FrameOK(f)'
      /\ \A p \in Object : p # o => ObjectOK(p)'
      /\ \A v \in Wrapper : v # w => WrapperOK(v)'
  BY <1>3, OthersKept
<1>5. (ByInit(o)' <=> g.by = "init") /\ (Guarded(o)' <=> g.at = "template")
  BY <1>1, <1>2 DEF ByInit, Guarded
<1>6. ObjectOK(o)'
  BY <1>2, <1>5 DEF ObjectOK, ObjectWith, Counted, Flag
<1>7. w \in Wrapper => WrapperOK(w)'
  <2> HAVE w \in Wrapper
  <2>1. WrapperWith(w, Using(g))' /\ obj'[w] \in {NULL, o}
    BY ConstructionAssumption DEF Only
  <2>2. Used(w)' <=> obj'[w] # NULL /\ Using(g)'
    BY <1>1, <1>2, <2>1 DEF Used, Using, AtLevel
  <2> QED
    BY <2>1, <2>2 DEF WrapperOK, WrapperWith, Flag
<1>8. \A f \in Frames' : FrameOK(f)'
  BY <1>1, <1>4
<1>9. \A p \in Object : ObjectOK(p)'
  BY <1>4, <1>6
<1>10. \A v \in Wrapper : WrapperOK(v)'
  BY <1>4, <1>7
<1> QED
  BY <1>8, <1>9, <1>10 DEF IInv

\* A step that concerns no construction, or ends one.
LEMMA InNoFrame ==
    ASSUME IInv, TypeOK', Apart', ConstructionOK', NEW o \in Object \cup {NULL}, NEW w \in Wrapper \cup {NULL}, Only(o, w),
           Removed(o),
           o # NULL => ObjectWithout(o)', w # NULL => WrapperWith(w, FALSE)'
    PROVE  IInv'
<1>1. \A f \in Frames' : f.o # o
  BY DEF Removed
<1>2. OtherFrames(o)
  BY DEF Removed, OtherFrames
<1>3. /\ \A f \in Frames' : f.o # o => FrameOK(f)'
      /\ \A p \in Object : p # o => ObjectOK(p)'
      /\ \A v \in Wrapper : v # w => WrapperOK(v)'
  BY <1>2, OthersKept
<1>4. o \in Object => ObjectOK(o)'
  <2> HAVE o \in Object
  <2>1. ObjectWithout(o)'
    BY ConstructionAssumption
  <2>2. ~ByInit(o)' /\ ~Guarded(o)' /\ ~\E f \in Frames' : f.o = o
    BY <1>1 DEF ByInit, Guarded
  <2> QED
    BY <2>1, <2>2 DEF ObjectOK, ObjectWithout, Counted, Flag
<1>5. w \in Wrapper => WrapperOK(w)'
  <2> HAVE w \in Wrapper
  <2>1. WrapperWith(w, FALSE)' /\ obj'[w] \in {NULL, o}
    BY ConstructionAssumption DEF Only
  <2>2. ~Used(w)'
    BY <1>1, <2>1 DEF Used
  <2> QED
    BY <2>1, <2>2 DEF WrapperOK, WrapperWith, Flag
<1>6. \A f \in Frames' : FrameOK(f)'
  BY <1>1, <1>3
<1>7. \A p \in Object : ObjectOK(p)'
  BY <1>3, <1>4
<1>8. \A v \in Wrapper : WrapperOK(v)'
  BY <1>3, <1>5
<1> QED
  BY <1>6, <1>7, <1>8 DEF IInv

(***************************************************************************)
(* The wrapper under construction.                                         *)
(***************************************************************************)
\* A frame that waits for its instance_init is that of the wrapper under
\* construction, and inside it there is no object of a Python class.
LEMMA Innermost ==
    ASSUME IInv, NEW f \in Frames, Waiting(f), Registered(f.o), NEW i \in DOMAIN stack, f = stack[i]
    PROVE  /\ construction = f.self /\ construction # NULL
           /\ \A j \in DOMAIN stack : j > i => stack[j].by # "init" /\ ~Registered(stack[j].o)
<1>1. ConstructionOK /\ Apart /\ FrameOK(f)
  BY DEF IInv
<1>2. construction = f.self /\ construction # NULL
  BY <1>1 DEF ConstructionOK, FrameOK, Meeting, Waiting
<1>3. PICK k \in DOMAIN stack :
         /\ stack[k].self = construction
         /\ \A j \in DOMAIN stack : j > k => stack[j].by # "init" /\ ~Registered(stack[j].o)
  BY <1>1, <1>2 DEF ConstructionOK
<1>4. k = i
  BY <1>1, <1>2, <1>3 DEF Apart
<1> QED
  BY <1>2, <1>3, <1>4

LEMMA ConstructionSame ==
    ASSUME ConstructionOK, UNCHANGED <<stack, construction>>
    PROVE  ConstructionOK'
  BY DEF ConstructionOK, Frames, Waiting, Registered

LEMMA ConstructionGoesOn ==
    ASSUME IInv, stack # <<>>, NEW f \in Frames, f = Top, NEW g \in Frame, Goes(g),
           g.o = f.o, g.self = f.self, g.by = f.by, Waiting(g) <=> Waiting(f), construction' = construction
    PROVE  ConstructionOK'
<1>1. Len(stack) \in DOMAIN stack /\ f = stack[Len(stack)]
  BY TopFacts DEF IInv, TypeOK
<1>2. /\ DOMAIN stack' = DOMAIN stack /\ stack'[Len(stack)] = g
      /\ \A i \in DOMAIN stack : i # Len(stack) => stack'[i] = stack[i]
  BY Replaced DEF IInv, TypeOK
<1>3. \A i \in DOMAIN stack : /\ stack'[i].o = stack[i].o /\ stack'[i].self = stack[i].self
                              /\ stack'[i].by = stack[i].by /\ (Waiting(stack'[i]) <=> Waiting(stack[i]))
  BY <1>1, <1>2
<1>4. ConstructionOK
  BY DEF IInv
<1>5. construction' # NULL =>
          \E i \in DOMAIN stack' :
              /\ stack'[i].self = construction' /\ Waiting(stack'[i])
              /\ \A j \in DOMAIN stack' : j > i => stack'[j].by # "init" /\ ~Registered(stack'[j].o)
  <2> HAVE construction' # NULL
  <2>1. PICK i \in DOMAIN stack :
            /\ stack[i].self = construction /\ Waiting(stack[i])
            /\ \A j \in DOMAIN stack : j > i => stack[j].by # "init" /\ ~Registered(stack[j].o)
    BY <1>4 DEF ConstructionOK
  <2>2. i \in DOMAIN stack' /\ stack'[i].self = construction' /\ Waiting(stack'[i])
    BY <1>2, <1>3, <2>1
  <2>3. \A j \in DOMAIN stack' : j > i => stack'[j].by # "init" /\ ~Registered(stack'[j].o)
    BY <1>2, <1>3, <2>1 DEF Registered
  <2> QED
    BY <2>2, <2>3
<1>6. \A h \in Frames' : Waiting(h) /\ Registered(h.o) => construction' = h.self
  <2> TAKE h \in Frames'
  <2> HAVE Waiting(h) /\ Registered(h.o)
  <2>1. PICK i \in DOMAIN stack : h = stack'[i]
    BY <1>2 DEF Frames, ToSet
  <2>2. stack[i] \in Frames /\ Waiting(stack[i]) /\ Registered(stack[i].o) /\ h.self = stack[i].self
    BY <1>3, <2>1 DEF Frames, ToSet, Registered
  <2> QED
    BY <1>4, <2>2 DEF ConstructionOK
<1> QED
  BY <1>5, <1>6 DEF ConstructionOK, Waiting, Registered

\* The object has met its wrapper.
LEMMA ConstructionMet ==
    ASSUME IInv, stack # <<>>, NEW f \in Frames, f = Top, NEW g \in Frame, Goes(g),
           g.level > 0, g.level \in Nat, Registered(f.o), construction' = NULL
    PROVE  ConstructionOK'
<1>1. Len(stack) \in DOMAIN stack /\ f = stack[Len(stack)] /\ Len(stack) \in Nat /\ DOMAIN stack = 1 .. Len(stack)
  BY TopFacts DEF IInv, TypeOK
<1>2. /\ DOMAIN stack' = DOMAIN stack /\ stack'[Len(stack)] = g
      /\ \A i \in DOMAIN stack : i # Len(stack) => stack'[i] = stack[i]
  BY Replaced DEF IInv, TypeOK
<1>3. \A h \in Frames' : ~(Waiting(h) /\ Registered(h.o))
  <2> SUFFICES ASSUME NEW h \in Frames', Waiting(h), Registered(h.o) PROVE FALSE
    OBVIOUS
  <2>1. PICK i \in DOMAIN stack : h = stack'[i]
    BY <1>2 DEF Frames, ToSet
  <2>2. i # Len(stack)
    BY <1>2, <2>1 DEF Waiting
  <2>3. h = stack[i] /\ h \in Frames /\ Len(stack) > i
    BY <1>1, <1>2, <2>1, <2>2 DEF Frames, ToSet
  <2> QED
    BY <1>1, <2>3, Innermost
<1> QED
  BY <1>3 DEF ConstructionOK, Waiting, Registered

\* The end of a construction.
LEMMA ConstructionEnds ==
    ASSUME IInv, stack # <<>>, NEW f \in Frames, f = Top, stack' = Front(stack),
           IF f.by = "init" THEN construction' = NULL ELSE construction' = construction
    PROVE  ConstructionOK'
<1>1. Len(stack) \in DOMAIN stack /\ f = stack[Len(stack)] /\ Len(stack) \in Nat /\ DOMAIN stack = 1 .. Len(stack)
  BY TopFacts DEF IInv, TypeOK
<1>2. \A i \in DOMAIN stack' : i \in DOMAIN stack /\ i # Len(stack) /\ stack'[i] = stack[i]
  BY Popped DEF IInv, TypeOK
<1>3. DOMAIN stack' = 1 .. Len(stack) - 1
  BY Popped DEF IInv, TypeOK
<1>4. ConstructionOK
  BY DEF IInv
<1>5. construction' # NULL =>
          \E i \in DOMAIN stack' :
              /\ stack'[i].self = construction' /\ Waiting(stack'[i])
              /\ \A j \in DOMAIN stack' : j > i => stack'[j].by # "init" /\ ~Registered(stack'[j].o)
  <2> HAVE construction' # NULL
  <2>0. f.by # "init" /\ construction' = construction
    OBVIOUS
  <2>1. PICK i \in DOMAIN stack :
            /\ stack[i].self = construction /\ Waiting(stack[i])
            /\ \A j \in DOMAIN stack : j > i => stack[j].by # "init" /\ ~Registered(stack[j].o)
    BY <1>4, <2>0 DEF ConstructionOK
  <2>2. i # Len(stack)
    BY <1>1, <2>0, <2>1 DEF Waiting
  <2>3. i \in DOMAIN stack'
    BY <1>1, <1>3, <2>2
  <2> QED
    BY <1>2, <2>0, <2>1, <2>3
<1>6. \A h \in Frames' : Waiting(h) /\ Registered(h.o) => construction' = h.self
  <2> TAKE h \in Frames'
  <2> HAVE Waiting(h) /\ Registered(h.o)
  <2>1. PICK i \in DOMAIN stack' : h = stack'[i]
    BY DEF Frames, ToSet
  <2>2. h = stack[i] /\ h \in Frames /\ i \in DOMAIN stack /\ Len(stack) > i
    BY <1>1, <1>2, <1>3, <2>1 DEF Frames, ToSet
  <2>3. construction = h.self /\ f.by # "init"
    BY <1>1, <2>2, Innermost
  <2> QED
    BY <2>3
<1> QED
  BY <1>5, <1>6 DEF ConstructionOK, Waiting, Registered

\* The beginning of one.
LEMMA ConstructionBegins ==
    ASSUME IInv, NEW g \in Frame, stack' = Append(stack, g), g.level = 0, g.at = "ancestors",
           IF g.by = "init"
           THEN /\ construction' = g.self
                /\ construction # NULL => Levels[pyclass[construction]] = 0
           ELSE /\ construction' = construction
                /\ construction # NULL => ~Registered(g.o)
    PROVE  ConstructionOK'
<1>1. /\ Len(stack) \in Nat
      /\ DOMAIN stack = 1 .. Len(stack) /\ DOMAIN stack' = 1 .. Len(stack) + 1
      /\ stack'[Len(stack) + 1] = g /\ \A i \in DOMAIN stack : stack'[i] = stack[i]
      /\ Frames' = Frames \cup {g}
  BY Pushed DEF IInv, TypeOK
<1>2. ConstructionOK
  BY DEF IInv
<1>3. construction' # NULL =>
          \E i \in DOMAIN stack' :
              /\ stack'[i].self = construction' /\ Waiting(stack'[i])
              /\ \A j \in DOMAIN stack' : j > i => stack'[j].by # "init" /\ ~Registered(stack'[j].o)
  <2> HAVE construction' # NULL
  <2>1. CASE g.by = "init"
    <3>1. Len(stack) + 1 \in DOMAIN stack' /\ \A j \in DOMAIN stack' : ~(j > Len(stack) + 1)
      BY <1>1
    <3>2. stack'[Len(stack) + 1].self = construction' /\ Waiting(stack'[Len(stack) + 1])
      BY <1>1, <2>1 DEF Waiting
    <3> QED
      BY <3>1, <3>2
  <2>2. CASE g.by # "init"
    <3>1. PICK i \in DOMAIN stack :
              /\ stack[i].self = construction /\ Waiting(stack[i])
              /\ \A j \in DOMAIN stack : j > i => stack[j].by # "init" /\ ~Registered(stack[j].o)
      BY <1>2, <2>2 DEF ConstructionOK
    <3>2. i \in DOMAIN stack' /\ stack'[i] = stack[i]
      BY <1>1
    <3>3. ASSUME NEW j \in DOMAIN stack', j > i PROVE stack'[j].by # "init" /\ ~Registered(stack'[j].o)
      <4>1. CASE j = Len(stack) + 1
        BY <1>1, <2>2, <4>1
      <4>2. CASE j # Len(stack) + 1
        <5>1. j \in DOMAIN stack
          BY <1>1, <4>2
        <5> QED
          BY <1>1, <3>1, <3>3, <5>1
      <4> QED
        BY <4>1, <4>2
    <3> QED
      BY <2>2, <3>1, <3>2, <3>3
  <2> QED
    BY <2>1, <2>2
<1>4. \A h \in Frames' : Waiting(h) /\ Registered(h.o) => construction' = h.self
  <2> TAKE h \in Frames'
  <2> HAVE Waiting(h) /\ Registered(h.o)
  <2>1. CASE h = g
    BY <2>1 DEF Waiting
  <2>2. CASE h \in Frames
    <3>1. PICK i \in DOMAIN stack : h = stack[i]
      BY <2>2 DEF Frames, ToSet
    <3>2. construction = h.self /\ construction # NULL
      BY <2>2, <3>1, Innermost
    <3>3. pyclass[h.self] = TypeOf[h.o]
      BY <2>2 DEF IInv, FrameOK, Meeting, Waiting
    <3>4. g.by # "init"
      BY <3>2, <3>3 DEF Registered
    <3> QED
      BY <3>2, <3>4
  <2> QED
    BY <1>1, <2>1, <2>2
<1> QED
  BY <1>3, <1>4 DEF ConstructionOK, Waiting, Registered

(***************************************************************************)
(* The steps of the construction that is innermost.                        *)
(***************************************************************************)
LEMMA TopOK ==
    ASSUME IInv, At # "bottom"
    PROVE  stack # <<>> /\ Top \in Frames /\ At = Top.at
<1>1. stack # <<>> /\ At = Top.at
  BY DEF At
<1> QED
  BY <1>1, TopFacts DEF IInv, TypeOK

\* A wrapper and its object have nothing to do with other constructions.
LEMMA OwnFrame ==
    ASSUME IInv, NEW w \in Wrapper, obj[w] # NULL, NEW f \in Frames, f.self = w
    PROVE  f.o = obj[w]
<1>1. FrameOK(f) /\ f.o \in Object /\ ObjectOK(f.o) /\ f.level \in Nat
  BY FrameFacts DEF IInv
<1>2. w # NULL
  BY ConstructionAssumption
<1>3. wrapper_key[f.o] = w
  BY <1>1, <1>2 DEF FrameOK, Meeting
<1> QED
  BY <1>1, <1>2, <1>3 DEF ObjectOK

LEMMA Wrapping ==
    ASSUME IInv, NEW o \in Object, wrapper_key[o] # NULL
    PROVE  /\ wrapper_key[o] \in Wrapper /\ obj[wrapper_key[o]] = o /\ o # NULL
           /\ WrapperOK(wrapper_key[o])
           /\ \A f \in Frames : f.self = wrapper_key[o] => f.o = o
<1>1. wrapper_key[o] \in Wrapper /\ obj[wrapper_key[o]] = o /\ o # NULL
  BY ConstructionAssumption DEF IInv, TypeOK, ObjectOK
<1> QED
  BY <1>1, OwnFrame DEF IInv

LEMMA OnlyOwn ==
    ASSUME IInv, NEW o \in Object, UNCHANGED <<wrapper_key, obj>>,
           \A p \in Object : p # o => /\ state'[p] = state[p] /\ ref_count'[p] = ref_count[p] /\ floating'[p] = floating[p]
                                      /\ cref'[p] = cref[p] /\ init_refs'[p] = init_refs[p],
           \A v \in Wrapper : v # wrapper_key[o] => /\ ob_refcnt'[v] = ob_refcnt[v]
                                                    /\ held'[v] = held[v] /\ pyclass'[v] = pyclass[v]
    PROVE  Only(o, wrapper_key[o])
<1>1. wrapper_key[o] \in Wrapper => obj[wrapper_key[o]] = o
  BY ConstructionAssumption, Wrapping
<1>2. \A f \in Frames : f.self = wrapper_key[o] /\ wrapper_key[o] # NULL => f.o = o
  BY Wrapping
<1> QED
  BY <1>1, <1>2 DEF Only

LEMMA GoesInFrame ==
    ASSUME IInv, stack # <<>>, NEW f \in Frames, f = Top, NEW g \in Frame, Goes(g), g.o = f.o, g.self = f.self,
           TypeOK', ConstructionOK', NEW w \in Wrapper \cup {NULL}, Only(f.o, w),
           FrameOK(g)', ObjectWith(f.o, g)', w # NULL => WrapperWith(w, Using(g))'
    PROVE  IInv'
<1>1. Apart' /\ Exchanged(f.o, g)
  BY GoesOn DEF IInv, TypeOK
<1>2. f.o \in Object
  BY FrameFacts DEF IInv
<1> QED
  BY <1>1, <1>2, InFrame

\* The counts of a wrapper that has its object, before a step and after it.
LEMMA WrapperNow ==
    ASSUME IInv, NEW f \in Frames, NEW w \in Wrapper, obj[w] = f.o
    PROVE  /\ wrapper_key[f.o] = w /\ pyclass[w] = TypeOf[f.o]
           /\ ob_refcnt[w] \in Nat /\ held[w] \in Nat /\ init_refs[f.o] \in Nat /\ ob_refcnt[w] > 0
           /\ Using(f) \in BOOLEAN
           /\ ob_refcnt[w] = held[w] + init_refs[f.o] + (IF Using(f) THEN 1 ELSE 0)
<1>1. WrapperWith(w, Using(f)) /\ f.o \in Object /\ f.o # NULL /\ f.fresh \in BOOLEAN
  BY OfFrame, FrameFacts DEF IInv
<1>2. ob_refcnt[w] \in Nat /\ held[w] \in Nat /\ init_refs[f.o] \in Nat
  BY <1>1 DEF IInv, TypeOK
<1>3. Using(f) \in BOOLEAN
  BY <1>1 DEF Using, AtLevel
<1> QED
  BY <1>1, <1>2, <1>3 DEF WrapperWith, Flag

LEMMA WrapperNext ==
    ASSUME NEW o \in Object, NEW w, NEW g \in Frame, obj'[w] = o, wrapper_key'[o] = w, pyclass'[w] = TypeOf[o],
           ob_refcnt'[w] \in Nat, held'[w] \in Nat, init_refs'[o] \in Nat, ob_refcnt'[w] > 0,
           ob_refcnt'[w] = held'[w] + init_refs'[o] + (IF Using(g) THEN 1 ELSE 0)
    PROVE  WrapperWith(w, Using(g))'
<1>1. o # NULL
  BY ConstructionAssumption
<1>2. Using(g)' <=> Using(g)
  BY DEF Using, AtLevel
<1> QED
  BY <1>1, <1>2 DEF WrapperWith, Flag

LEMMA CallTemplateStep ==
    ASSUME IInv, CallTemplate
    PROVE  IInv'
<1>1. PICK f \in Frames : f = Top /\ stack # <<>> /\ f.at = "bound"
  BY TopOK DEF CallTemplate
<1>2. /\ f \in Frame /\ f.o \in Object /\ f.o # NULL /\ f.level \in Nat /\ f.floated \in BOOLEAN /\ f.fresh \in BOOLEAN
      /\ TypeOK /\ FrameOK(f) /\ ObjectWith(f.o, f)
  BY FrameFacts, WithFrame DEF IInv
<1>3. PICK w : w = wrapper_key[f.o] /\ w \in Wrapper /\ obj[w] = f.o /\ w = f.w
  BY <1>1, <1>2, Wrapping DEF FrameOK, Meeting, AtLevel
<1>4. PICK g \in Frame : g = [f EXCEPT !.at = "template", !.floated = floating[f.o]]
  BY <1>2 DEF Frame, Step, Hooks, TypeOK
<1>5. /\ g.o = f.o /\ g.self = f.self /\ g.by = f.by /\ g.at = "template" /\ g.floated = floating[f.o]
      /\ g.level = f.level /\ g.w = f.w /\ g.fresh = f.fresh /\ g.back = f.back
  BY <1>2, <1>4 DEF Frame
<1>6. /\ Goes(g) /\ ref_count' = [ref_count EXCEPT ![f.o] = @ + Flag(~floating[f.o])]
      /\ floating' = [floating EXCEPT ![f.o] = FALSE]
      /\ UNCHANGED <<state, cref, qvars, wvars, construction, error>>
  BY <1>1, <1>4 DEF CallTemplate
<1>7. TypeOK'
  <2>1. stack' \in Seq(Frame)
    BY <1>1, <1>2, <1>6, Replaced DEF TypeOK
  <2> QED
    BY <1>2, <1>6, <2>1 DEF TypeOK, qvars, wvars, Flag
<1>8. ConstructionOK'
  <2>1. Waiting(g) <=> Waiting(f)
    BY <1>1, <1>2, <1>5 DEF Waiting, FrameOK, Progress, AtLevel
  <2> QED
    BY <1>1, <1>5, <1>6, <2>1, ConstructionGoesOn
<1>9. Only(f.o, w)
  BY <1>2, <1>3, <1>6, OnlyOwn DEF TypeOK, qvars, wvars
<1>10. FrameOK(g)'
  <2>1. Progress(g)'
    BY <1>1, <1>2, <1>5 DEF FrameOK, Progress, AtLevel, PastLevels, Registered
  <2>2. Meeting(g)'
    BY <1>1, <1>2, <1>5, <1>6 DEF FrameOK, Meeting, AtLevel, Released, Registered, qvars, wvars
  <2>3. Taken(g)'
    BY <1>1, <1>2, <1>5, <1>6 DEF FrameOK, Taken, AtLevel, Released, qvars
  <2>4. Owned(g)'
    BY <1>1, <1>2, <1>5, <1>6 DEF FrameOK, Owned, TypeOK, IsFloating, ObjectWith, qvars, wvars
  <2> QED
    BY <1>2, <1>5, <1>6, <2>1, <2>2, <2>3, <2>4 DEF FrameOK
<1>11. ObjectWith(f.o, g)'
  BY <1>1, <1>2, <1>5, <1>6 DEF ObjectWith, Counted, Flag, IsFloating, TypeOK, qvars, wvars
<1>12. WrapperWith(w, Using(g))'
  <2>1. WrapperWith(w, Using(f))
    BY <1>1, <1>3, OfFrame
  <2>2. Using(g) <=> Using(f)
    BY <1>1, <1>5 DEF Using, AtLevel
  <2> QED
    BY <1>6, <2>1, <2>2 DEF WrapperWith, Using, AtLevel, qvars, wvars
<1> QED
  BY <1>1, <1>3, <1>5, <1>6, <1>7, <1>8, <1>9, <1>10, <1>11, <1>12, GoesInFrame

LEMMA TemplateReturnsStep ==
    ASSUME IInv, TemplateReturns
    PROVE  IInv'
<1>1. PICK f \in Frames : f = Top /\ stack # <<>> /\ f.at = "template"
  BY TopOK DEF TemplateReturns
<1>2. /\ f \in Frame /\ f.o \in Object /\ f.o # NULL /\ f.level \in Nat /\ f.floated \in BOOLEAN /\ f.fresh \in BOOLEAN
      /\ TypeOK /\ FrameOK(f) /\ ObjectWith(f.o, f)
  BY FrameFacts, WithFrame DEF IInv
<1>3. PICK w : w = wrapper_key[f.o] /\ w \in Wrapper /\ obj[w] = f.o /\ w = f.w
  BY <1>1, <1>2, Wrapping DEF FrameOK, Meeting, AtLevel
<1>4. PICK g \in Frame : g = [f EXCEPT !.at = "templated", !.floated = FALSE]
  BY <1>2 DEF Frame, Step
<1>5. /\ g.o = f.o /\ g.self = f.self /\ g.by = f.by /\ g.at = "templated" /\ g.floated = FALSE
      /\ g.level = f.level /\ g.w = f.w /\ g.fresh = f.fresh /\ g.back = f.back
  BY <1>2, <1>4 DEF Frame
<1>6. /\ Goes(g) /\ ref_count' = [ref_count EXCEPT ![f.o] = @ - Flag(~f.floated)]
      /\ floating' = [floating EXCEPT ![f.o] = f.floated] /\ error' \in {error, FALSE}
      /\ UNCHANGED <<state, cref, qvars, wvars, construction>>
  BY <1>1, <1>4 DEF TemplateReturns, Printed
<1>7. TypeOK'
  <2>1. stack' \in Seq(Frame)
    BY <1>1, <1>2, <1>6, Replaced DEF TypeOK
  <2>2. ref_count[f.o] - Flag(~f.floated) \in Nat
    BY <1>1, <1>2 DEF TypeOK, ObjectWith, Counted, Flag
  <2> QED
    BY <1>2, <1>6, <2>1, <2>2 DEF TypeOK, qvars, wvars
<1>8. ConstructionOK'
  <2>1. Waiting(g) <=> Waiting(f)
    BY <1>1, <1>2, <1>5 DEF Waiting, FrameOK, Progress, AtLevel
  <2> QED
    BY <1>1, <1>5, <1>6, <2>1, ConstructionGoesOn
<1>9. Only(f.o, w)
  BY <1>2, <1>3, <1>6, OnlyOwn DEF TypeOK, qvars, wvars
<1>10. FrameOK(g)'
  <2>1. Progress(g)'
    BY <1>1, <1>2, <1>5 DEF FrameOK, Progress, AtLevel, PastLevels, Registered
  <2>2. Meeting(g)'
    BY <1>1, <1>2, <1>5, <1>6 DEF FrameOK, Meeting, AtLevel, Released, Registered, qvars, wvars
  <2>3. Taken(g)'
    BY <1>1, <1>2, <1>5, <1>6 DEF FrameOK, Taken, AtLevel, Released, qvars
  <2>4. Owned(g)'
    BY <1>1, <1>2, <1>5, <1>6 DEF FrameOK, Owned, TypeOK, IsFloating, ObjectWith, qvars, wvars
  <2> QED
    BY <1>2, <1>5, <1>6, <2>1, <2>2, <2>3, <2>4 DEF FrameOK
<1>11. ObjectWith(f.o, g)'
  <2>1. f.floated => IsFloating(f.o) /\ ~floating[f.o]
    BY <1>1, <1>2 DEF FrameOK, Owned
  <2>2. ~floating[f.o]
    BY <1>1, <1>2 DEF FrameOK, Owned
  <2> QED
    BY <1>1, <1>2, <1>5, <1>6, <2>1, <2>2 DEF ObjectWith, Counted, Flag, IsFloating, TypeOK, qvars, wvars
<1>12. WrapperWith(w, Using(g))'
  <2>1. WrapperWith(w, Using(f))
    BY <1>1, <1>3, OfFrame
  <2>2. Using(g) <=> Using(f)
    BY <1>1, <1>5 DEF Using, AtLevel
  <2> QED
    BY <1>6, <2>1, <2>2 DEF WrapperWith, Using, AtLevel, qvars, wvars
<1> QED
  BY <1>1, <1>3, <1>5, <1>6, <1>7, <1>8, <1>9, <1>10, <1>11, <1>12, GoesInFrame

LEMMA InitedStep ==
    ASSUME IInv, Inited
    PROVE  IInv'
<1>1. PICK f \in Frames : f = Top /\ stack # <<>> /\ f.at \in {"bound", "templated"}
  BY TopOK DEF Inited
<1>2. /\ f \in Frame /\ f.o \in Object /\ f.o # NULL /\ f.level \in Nat /\ f.floated \in BOOLEAN /\ f.fresh \in BOOLEAN
      /\ TypeOK /\ FrameOK(f) /\ ObjectWith(f.o, f)
  BY FrameFacts, WithFrame DEF IInv
<1>3. PICK w : w = wrapper_key[f.o] /\ w \in Wrapper /\ obj[w] = f.o /\ w = f.w
  BY <1>1, <1>2, Wrapping DEF FrameOK, Meeting, AtLevel
<1>4. WrapperWith(w, Using(f))
  BY <1>1, <1>3, OfFrame
<1>5. UNCHANGED <<ovars, wrapper_key, obj, held, pyclass, construction, error>>
  BY DEF Inited
<1>6. CASE f.fresh
  <2>1. PICK g \in Frame : g = [f EXCEPT !.at = "init"]
    BY <1>2 DEF Frame, Step, Hooks
  <2>2. /\ g.o = f.o /\ g.self = f.self /\ g.by = f.by /\ g.at = "init" /\ g.floated = f.floated
        /\ g.level = f.level /\ g.w = f.w /\ g.fresh = f.fresh /\ g.back = f.back
    BY <1>2, <2>1 DEF Frame
  <2>3. Goes(g) /\ UNCHANGED <<ob_refcnt, init_refs>>
    BY <1>1, <1>6, <2>1 DEF Inited
  <2>4. TypeOK'
    <3>1. stack' \in Seq(Frame)
      BY <1>1, <1>2, <2>3, Replaced DEF TypeOK
    <3> QED
      BY <1>2, <1>5, <2>3, <3>1 DEF TypeOK, ovars
  <2>5. ConstructionOK'
    <3>1. Waiting(g) <=> Waiting(f)
      BY <1>1, <1>2, <2>2 DEF Waiting, FrameOK, Progress, AtLevel
    <3> QED
      BY <1>1, <1>5, <2>2, <2>3, <3>1, ConstructionGoesOn
  <2>6. Only(f.o, w)
    BY <1>2, <1>3, <1>5, <2>3, OnlyOwn DEF ovars
  <2>7. FrameOK(g)'
    <3>1. Progress(g)'
      BY <1>1, <1>2, <1>6, <2>2 DEF FrameOK, Progress, AtLevel, PastLevels, Registered
    <3>2. Meeting(g)'
      BY <1>1, <1>2, <1>5, <2>2 DEF FrameOK, Meeting, AtLevel, Released, Registered
    <3>3. Taken(g)'
      BY <1>1, <1>2, <1>6, <2>2, <2>3 DEF FrameOK, Taken, AtLevel, Released
    <3>4. Owned(g)'
      BY <1>1, <1>2, <1>5, <2>2 DEF FrameOK, Owned, IsFloating, ovars
    <3> QED
      BY <1>2, <1>5, <2>2, <3>1, <3>2, <3>3, <3>4 DEF FrameOK, ovars
  <2>8. ObjectWith(f.o, g)'
    BY <1>1, <1>2, <1>5, <2>2 DEF ObjectWith, Counted, Flag, IsFloating, ovars
  <2>9. WrapperWith(w, Using(g))'
    <3>1. Using(g) <=> Using(f)
      BY <1>1, <2>2 DEF Using, AtLevel
    <3> QED
      BY <1>4, <1>5, <2>3, <3>1 DEF WrapperWith, Using, AtLevel
  <2> QED
    BY <1>1, <1>3, <2>2, <2>3, <2>4, <2>5, <2>6, <2>7, <2>8, <2>9, GoesInFrame
<1>7. CASE ~f.fresh
  <2>1. PICK g \in Frame : g = [f EXCEPT !.at = "levels", !.w = NULL, !.fresh = FALSE, !.floated = FALSE]
    BY <1>2 DEF Frame, Step
  <2>2. /\ g.o = f.o /\ g.self = f.self /\ g.by = f.by /\ g.at = "levels" /\ g.floated = FALSE
        /\ g.level = f.level /\ g.w = NULL /\ g.fresh = FALSE /\ g.back = f.back
    BY <1>2, <2>1 DEF Frame
  <2>3. /\ Goes(g) /\ ob_refcnt' = [ob_refcnt EXCEPT ![w] = @ + 1]
        /\ init_refs' = [init_refs EXCEPT ![f.o] = @ + 1]
    BY <1>1, <1>3, <1>7, <2>1 DEF Inited, Proceeds, KeptFor
  <2>4. TypeOK'
    <3>1. stack' \in Seq(Frame)
      BY <1>1, <1>2, <2>3, Replaced DEF TypeOK
    <3> QED
      BY <1>2, <1>3, <1>5, <2>3, <3>1 DEF TypeOK, ovars
  <2>5. ConstructionOK'
    <3>1. Waiting(g) <=> Waiting(f)
      BY <1>1, <1>2, <2>2 DEF Waiting, FrameOK, Progress, AtLevel
    <3> QED
      BY <1>1, <1>5, <2>2, <2>3, <3>1, ConstructionGoesOn
  <2>6. Only(f.o, w)
    BY <1>2, <1>3, <1>5, <2>3, OnlyOwn DEF ovars, TypeOK
  <2>7. FrameOK(g)'
    <3>1. Progress(g)'
      BY <1>1, <1>2, <2>2 DEF FrameOK, Progress, AtLevel, PastLevels, Registered
    <3>2. Meeting(g)'
      BY <1>1, <1>2, <1>5, <2>2 DEF FrameOK, Meeting, AtLevel, Released, Registered
    <3>3. Taken(g)'
      BY <1>1, <1>2, <1>7, <2>2, <2>3 DEF FrameOK, Taken, AtLevel, Released, TypeOK, Progress
    <3>4. Owned(g)'
      BY <1>1, <1>2, <1>5, <2>2 DEF FrameOK, Owned, IsFloating, ovars
    <3> QED
      BY <1>2, <1>5, <2>2, <3>1, <3>2, <3>3, <3>4 DEF FrameOK, ovars
  <2>8. ObjectWith(f.o, g)'
    BY <1>1, <1>2, <1>5, <2>2 DEF ObjectWith, Counted, Flag, IsFloating, ovars
  <2>9. WrapperWith(w, Using(g))'
    <3>1. ~Using(g) /\ ~Using(f)
      BY <1>1, <1>7, <2>2 DEF Using, AtLevel
    <3>2. ob_refcnt'[w] = ob_refcnt[w] + 1 /\ init_refs'[f.o] = init_refs[f.o] + 1
      BY <1>2, <1>3, <2>3 DEF TypeOK
    <3>3. /\ pyclass[w] = TypeOf[f.o] /\ ob_refcnt[w] \in Nat /\ init_refs[f.o] \in Nat /\ held[w] \in Nat
          /\ ob_refcnt[w] = held[w] + init_refs[f.o]
      BY <1>3, <3>1, WrapperNow
    <3>4. /\ ob_refcnt'[w] \in Nat /\ init_refs'[f.o] \in Nat /\ held'[w] \in Nat
          /\ ob_refcnt'[w] = held'[w] + init_refs'[f.o] /\ ob_refcnt'[w] > 0
      BY <1>5, <3>2, <3>3
    <3>5. obj'[w] = f.o /\ wrapper_key'[f.o] = w /\ pyclass'[w] = TypeOf[f.o]
      BY <1>3, <1>5, <3>3
    <3>6. ob_refcnt'[w] = held'[w] + init_refs'[f.o] + (IF Using(g) THEN 1 ELSE 0)
      BY <3>1, <3>4
    <3> QED
      BY <1>2, <3>4, <3>5, <3>6, WrapperNext
  <2> QED
    BY <1>1, <1>3, <2>2, <2>3, <2>4, <2>5, <2>6, <2>7, <2>8, <2>9, GoesInFrame
<1> QED
  BY <1>2, <1>6, <1>7

LEMMA InitReturnsStep ==
    ASSUME IInv, InitReturns
    PROVE  IInv'
<1>1. PICK f \in Frames : f = Top /\ stack # <<>> /\ f.at = "init"
  BY TopOK DEF InitReturns
<1>2. /\ f \in Frame /\ f.o \in Object /\ f.o # NULL /\ f.level \in Nat /\ f.fresh
      /\ TypeOK /\ FrameOK(f) /\ ObjectWith(f.o, f)
  BY <1>1, FrameFacts, WithFrame DEF IInv, FrameOK, Progress
<1>3. PICK w : w = wrapper_key[f.o] /\ w \in Wrapper /\ obj[w] = f.o /\ w = f.w
  BY <1>1, <1>2, Wrapping DEF FrameOK, Meeting, AtLevel
<1>4. PICK g \in Frame : g = [f EXCEPT !.at = "levels", !.w = NULL, !.fresh = FALSE, !.floated = FALSE]
  BY <1>2 DEF Frame, Step
<1>5. /\ g.o = f.o /\ g.self = f.self /\ g.by = f.by /\ g.at = "levels" /\ g.floated = FALSE
      /\ g.level = f.level /\ g.w = NULL /\ g.fresh = FALSE /\ g.back = f.back
  BY <1>2, <1>4 DEF Frame
<1>6. /\ Goes(g) /\ init_refs' = [init_refs EXCEPT ![f.o] = 1] /\ error' \in {error, FALSE}
      /\ UNCHANGED <<ovars, wrapper_key, wvars, construction>>
  BY <1>1, <1>4 DEF InitReturns, Proceeds, Printed
<1>7. TypeOK'
  <2>1. stack' \in Seq(Frame)
    BY <1>1, <1>2, <1>6, Replaced DEF TypeOK
  <2> QED
    BY <1>2, <1>6, <2>1 DEF TypeOK, ovars, wvars
<1>8. ConstructionOK'
  <2>1. Waiting(g) <=> Waiting(f)
    BY <1>1, <1>2, <1>5 DEF Waiting, FrameOK, Progress, AtLevel
  <2> QED
    BY <1>1, <1>5, <1>6, <2>1, ConstructionGoesOn
<1>9. Only(f.o, w)
  BY <1>2, <1>3, <1>6, OnlyOwn DEF TypeOK, ovars, wvars
<1>10. FrameOK(g)'
  <2>1. Progress(g)'
    BY <1>1, <1>2, <1>5 DEF FrameOK, Progress, AtLevel, PastLevels, Registered
  <2>2. Meeting(g)'
    BY <1>1, <1>2, <1>5, <1>6 DEF FrameOK, Meeting, AtLevel, Released, Registered, wvars
  <2>3. Taken(g)'
    BY <1>1, <1>2, <1>5, <1>6 DEF FrameOK, Taken, AtLevel, Released, TypeOK, Progress
  <2>4. Owned(g)'
    BY <1>1, <1>2, <1>5, <1>6 DEF FrameOK, Owned, TypeOK, IsFloating, ovars, wvars
  <2> QED
    BY <1>2, <1>5, <1>6, <2>1, <2>2, <2>3, <2>4 DEF FrameOK, ovars
<1>11. ObjectWith(f.o, g)'
  BY <1>1, <1>2, <1>5, <1>6 DEF ObjectWith, Counted, Flag, IsFloating, ovars, wvars
<1>12. WrapperWith(w, Using(g))'
  <2>1. WrapperWith(w, Using(f)) /\ Using(f) /\ ~Using(g)
    BY <1>1, <1>2, <1>3, <1>5, OfFrame DEF Using, AtLevel
  <2>2. init_refs[f.o] = 0 /\ init_refs'[f.o] = 1
    BY <1>2, <1>6 DEF FrameOK, Taken, TypeOK
  <2>3. /\ pyclass[w] = TypeOf[f.o] /\ ob_refcnt[w] \in Nat /\ held[w] \in Nat
        /\ ob_refcnt[w] = held[w] + 1 /\ ob_refcnt[w] > 0
    BY <1>3, <2>1, <2>2, WrapperNow
  <2>4. /\ ob_refcnt'[w] \in Nat /\ held'[w] \in Nat /\ ob_refcnt'[w] > 0
        /\ obj'[w] = f.o /\ wrapper_key'[f.o] = w /\ pyclass'[w] = TypeOf[f.o]
    BY <1>3, <1>6, <2>3 DEF wvars
  <2>5. init_refs'[f.o] \in Nat
    BY <2>2
  <2>6. ob_refcnt'[w] = held'[w] + init_refs'[f.o] + (IF Using(g) THEN 1 ELSE 0)
    BY <1>6, <2>1, <2>2, <2>3 DEF wvars
  <2> QED
    BY <1>2, <2>4, <2>5, <2>6, WrapperNext
<1> QED
  BY <1>1, <1>3, <1>5, <1>6, <1>7, <1>8, <1>9, <1>10, <1>11, <1>12, GoesInFrame

LEMMA ConstructingStep ==
    ASSUME IInv, Constructing
    PROVE  IInv'
<1>1. PICK f \in Frames : f = Top /\ stack # <<>> /\ f.at \in {"ancestors", "levels"} /\ f.level = Levels[TypeOf[f.o]]
  BY TopOK DEF Constructing
<1>2. /\ f \in Frame /\ f.o \in Object /\ f.o # NULL /\ f.level \in Nat /\ f.fresh \in BOOLEAN
      /\ f.w \in Wrapper \cup {NULL} /\ TypeOK /\ FrameOK(f) /\ ObjectWith(f.o, f)
  BY <1>1, FrameFacts, WithFrame DEF IInv
<1>3. PICK w : w = wrapper_key[f.o] /\ w \in Wrapper \cup {NULL} /\ (w # NULL => obj[w] = f.o)
  BY <1>1, <1>2, Wrapping
<1>4. PICK g \in Frame : g = [f EXCEPT !.at = "constructing", !.w = NULL, !.fresh = FALSE, !.floated = FALSE]
  BY <1>2 DEF Frame, Step
<1>5. /\ g.o = f.o /\ g.self = f.self /\ g.by = f.by /\ g.at = "constructing" /\ g.floated = FALSE
      /\ g.level = f.level /\ g.w = NULL /\ g.fresh = FALSE /\ g.back = f.back
  BY <1>2, <1>4 DEF Frame
<1>6. Goes(g) /\ UNCHANGED <<ovars, qvars, wvars, construction, error>>
  BY <1>1, <1>4 DEF Constructing, Proceeds
<1>7. TypeOK'
  <2>1. stack' \in Seq(Frame)
    BY <1>1, <1>2, <1>6, Replaced DEF TypeOK
  <2> QED
    BY <1>2, <1>6, <2>1 DEF TypeOK, ovars, qvars, wvars
<1>8. ConstructionOK'
  <2>1. Waiting(g) <=> Waiting(f)
    BY <1>1, <1>2, <1>5 DEF Waiting, FrameOK, Progress, Registered
  <2> QED
    BY <1>1, <1>5, <1>6, <2>1, ConstructionGoesOn
<1>9. Only(f.o, w)
  BY <1>2, <1>3, <1>6, OnlyOwn DEF ovars, qvars, wvars
<1>10. FrameOK(g)'
  <2>1. Progress(g)'
    BY <1>1, <1>2, <1>5 DEF FrameOK, Progress, AtLevel, PastLevels, Registered
  <2>2. Meeting(g)'
    BY <1>1, <1>2, <1>5, <1>6 DEF FrameOK, Meeting, AtLevel, Released, Registered, qvars, wvars
  <2>3. Taken(g)'
    BY <1>1, <1>2, <1>5, <1>6 DEF FrameOK, Taken, AtLevel, Released, Progress, qvars
  <2>4. Owned(g)'
    BY <1>1, <1>2, <1>5, <1>6 DEF FrameOK, Owned, IsFloating, ovars, qvars, wvars
  <2> QED
    BY <1>2, <1>5, <1>6, <2>1, <2>2, <2>3, <2>4 DEF FrameOK, ovars
<1>11. ObjectWith(f.o, g)'
  BY <1>1, <1>2, <1>5, <1>6 DEF ObjectWith, Counted, Flag, IsFloating, ovars, qvars, wvars
<1>12. ASSUME w # NULL PROVE WrapperWith(w, Using(g))'
  <2>1. WrapperWith(w, Using(f)) /\ ~Using(f) /\ ~Using(g)
    BY <1>1, <1>2, <1>3, <1>5, <1>12, OfFrame DEF Using, AtLevel
  <2> QED
    BY <1>6, <2>1 DEF WrapperWith, Using, AtLevel, qvars, wvars
<1> QED
  BY <1>1, <1>3, <1>5, <1>6, <1>7, <1>8, <1>9, <1>10, <1>11, <1>12, GoesInFrame

\* A free block of memory.
LEMMA Free ==
    ASSUME IInv, NEW w \in Wrapper, ob_refcnt[w] = 0
    PROVE  obj[w] = NULL /\ held[w] = 0 /\ \A f \in Frames : f.self # w
<1>1. WrapperOK(w) /\ TypeOK
  BY DEF IInv
<1>2. obj[w] = NULL
  BY <1>1 DEF WrapperOK
<1>3. ob_refcnt[w] = held[w] + 0 + Flag(Used(w)) /\ held[w] \in Nat
  BY <1>1, <1>2 DEF WrapperOK, TypeOK
<1>4. held[w] = 0
  BY <1>3 DEF Flag
<1>5. ASSUME NEW f \in Frames, f.self = w PROVE FALSE
  BY <1>4, <1>5, ConstructionAssumption DEF IInv, FrameOK, Meeting
<1> QED
  BY <1>2, <1>4, <1>5

LEMMA OnlyBinds ==
    ASSUME IInv, NEW o \in Object, NEW w \in Wrapper, wrapper_key[o] = NULL, obj[w] = NULL,
           \A f \in Frames : f.self = w => f.o = o,
           wrapper_key' = [wrapper_key EXCEPT ![o] = w], obj' = [obj EXCEPT ![w] = o],
           \A p \in Object : p # o => /\ state'[p] = state[p] /\ ref_count'[p] = ref_count[p] /\ floating'[p] = floating[p]
                                      /\ cref'[p] = cref[p] /\ init_refs'[p] = init_refs[p],
           \A v \in Wrapper : v # w => /\ ob_refcnt'[v] = ob_refcnt[v]
                                       /\ held'[v] = held[v] /\ pyclass'[v] = pyclass[v]
    PROVE  Only(o, w)
<1>1. wrapper_key \in [Object -> Wrapper \cup {NULL}] /\ obj \in [Wrapper -> Object \cup {NULL}]
  BY DEF IInv, TypeOK
<1> QED
  BY <1>1 DEF Only

\* instance_init when the object has its wrapper.
LEMMA FoundStep ==
    ASSUME IInv, NEW w \in Wrapper, InstanceInit(w), wrapper_key[Top.o] # NULL
    PROVE  IInv'
<1>1. PICK f \in Frames : f = Top /\ stack # <<>> /\ f.at \in {"ancestors", "levels"} /\ f.level < Levels[TypeOf[f.o]]
  BY TopOK DEF InstanceInit
<1>2. /\ f \in Frame /\ f.o \in Object /\ f.o # NULL /\ f.level \in Nat /\ f.fresh \in BOOLEAN
      /\ Levels[TypeOf[f.o]] \in Nat /\ TypeOK /\ FrameOK(f) /\ ObjectWith(f.o, f)
  BY FrameFacts, WithFrame DEF IInv
<1>3. f.at = "levels" /\ f.level > 0 /\ Registered(f.o) /\ ~f.fresh
  BY <1>1, <1>2 DEF FrameOK, Progress, Meeting, Registered, AtLevel
<1>4. PICK v : v = wrapper_key[f.o]
  OBVIOUS
<1>5. v = w /\ obj[w] = f.o /\ UNCHANGED <<obj, wrapper_key, ref_count, ob_refcnt, pyclass>>
  BY <1>1, <1>2, <1>4, Wrapping, ConstructionAssumption DEF InstanceInit, Unbound
<1>6. PICK g \in Frame : g = [f EXCEPT !.level = @ + 1, !.w = w, !.fresh = FALSE, !.at = "bound"]
  <2>1. f.level + 1 \in Nat /\ "bound" \in Step
    BY <1>2 DEF Step
  <2> QED
    BY <1>2, <2>1 DEF Frame
<1>7. /\ g.o = f.o /\ g.self = f.self /\ g.by = f.by /\ g.at = "bound" /\ g.floated = f.floated
      /\ g.level = f.level + 1 /\ g.w = w /\ g.fresh = FALSE /\ g.back = f.back
  BY <1>2, <1>6 DEF Frame
<1>8. /\ Goes(g) /\ construction' = NULL
      /\ UNCHANGED <<state, floating, cref, init_refs, held, error>>
  BY <1>1, <1>4, <1>5, <1>6, ConstructionAssumption DEF InstanceInit
<1>9. TypeOK'
  <2>1. stack' \in Seq(Frame)
    BY <1>1, <1>2, <1>8, Replaced DEF TypeOK
  <2> QED
    BY <1>2, <1>5, <1>8, <2>1 DEF TypeOK
<1>10. ConstructionOK'
  BY <1>1, <1>2, <1>3, <1>7, <1>8, ConstructionMet
<1>11. Only(f.o, w)
  BY <1>2, <1>4, <1>5, <1>8, OnlyOwn
<1>12. FrameOK(g)'
  <2>1. Progress(g)'
    BY <1>1, <1>2, <1>7 DEF FrameOK, Progress, AtLevel, PastLevels, Registered
  <2>2. Meeting(g)'
    <3>1. g.level > 0 /\ f.level # 0 /\ g.level # 0
      BY <1>2, <1>3, <1>7
    <3>2. Meeting(f) /\ wrapper_key'[f.o] = w /\ w # NULL
      BY <1>2, <1>4, <1>5, ConstructionAssumption DEF FrameOK
    <3>3. (g.by = "init" <=> g.self # NULL)'
      BY <1>7, <3>2 DEF Meeting
    <3>4. g.by = "init" => held'[g.self] > 0 /\ pyclass'[g.self] = TypeOf[g.o] /\ wrapper_key'[g.o] = g.self
      BY <1>5, <1>7, <1>8, <3>1, <3>2 DEF Meeting
    <3> QED
      BY <1>7, <3>1, <3>2, <3>3, <3>4 DEF Meeting
  <2>3. Taken(g)'
    BY <1>2, <1>3, <1>7, <1>8 DEF FrameOK, Taken, AtLevel, Released
  <2>4. Owned(g)'
    BY <1>2, <1>3, <1>5, <1>7, <1>8 DEF FrameOK, Owned, IsFloating
  <2> QED
    BY <1>2, <1>7, <1>8, <2>1, <2>2, <2>3, <2>4 DEF FrameOK
<1>13. ObjectWith(f.o, g)'
  BY <1>2, <1>3, <1>5, <1>7, <1>8 DEF ObjectWith, Counted, Flag, IsFloating
<1>14. WrapperWith(w, Using(g))'
  <2>1. ~Using(g) /\ ~Using(f)
    BY <1>3, <1>7 DEF Using, AtLevel
  <2>2. /\ wrapper_key[f.o] = w /\ pyclass[w] = TypeOf[f.o]
        /\ ob_refcnt[w] \in Nat /\ held[w] \in Nat /\ init_refs[f.o] \in Nat /\ ob_refcnt[w] > 0
        /\ ob_refcnt[w] = held[w] + init_refs[f.o]
    BY <1>5, <2>1, WrapperNow
  <2> QED
    BY <1>2, <1>5, <1>8, <2>1, <2>2, WrapperNext
<1> QED
  BY <1>1, <1>7, <1>8, <1>9, <1>10, <1>11, <1>12, <1>13, <1>14, GoesInFrame

\* The innermost construction when instance_init finds no wrapper of its object.
LEMMA Unmet ==
    ASSUME IInv, NEW f \in Frames, f = Top, stack # <<>>, f.at \in {"ancestors", "levels"},
           f.level < Levels[TypeOf[f.o]], wrapper_key[f.o] = NULL
    PROVE  /\ f.at = "ancestors" /\ f.level = 0 /\ Registered(f.o) /\ ~f.fresh /\ init_refs[f.o] = 0
           /\ f.by = "init" => construction = f.self /\ f.self \in Wrapper
           /\ construction # NULL => f.self = construction /\ f.by = "init"
<1>1. /\ f.o \in Object /\ f.level \in Nat /\ f.fresh \in BOOLEAN /\ Levels[TypeOf[f.o]] \in Nat
      /\ FrameOK(f) /\ f.self \in Wrapper \cup {NULL}
  BY FrameFacts DEF IInv
<1>2. f.at = "ancestors" /\ f.level = 0 /\ Registered(f.o) /\ ~f.fresh /\ init_refs[f.o] = 0
  BY <1>1 DEF FrameOK, Progress, Meeting, Taken, Registered, AtLevel, Released
<1>3. Len(stack) \in DOMAIN stack /\ DOMAIN stack = 1 .. Len(stack) /\ Len(stack) \in Nat /\ f = stack[Len(stack)]
  BY TopFacts DEF IInv, TypeOK
<1>4. ASSUME f.by = "init" PROVE construction = f.self /\ f.self \in Wrapper
  BY <1>1, <1>2, <1>4 DEF IInv, ConstructionOK, Waiting, FrameOK, Meeting
<1>5. ASSUME construction # NULL PROVE f.self = construction /\ f.by = "init"
  <2>1. PICK i \in DOMAIN stack :
            /\ stack[i].self = construction /\ Waiting(stack[i])
            /\ \A j \in DOMAIN stack : j > i => stack[j].by # "init" /\ ~Registered(stack[j].o)
    BY <1>5 DEF IInv, ConstructionOK
  <2>2. i = Len(stack)
    BY <1>2, <1>3, <2>1
  <2> QED
    BY <1>3, <2>1, <2>2 DEF Waiting
<1> QED
  BY <1>2, <1>4, <1>5

\* instance_init of an object whose __init__ is running.
LEMMA MetStep ==
    ASSUME IInv, NEW w \in Wrapper, InstanceInit(w), wrapper_key[Top.o] = NULL, construction # NULL
    PROVE  IInv'
<1>1. PICK f \in Frames : f = Top /\ stack # <<>> /\ f.at \in {"ancestors", "levels"} /\ f.level < Levels[TypeOf[f.o]]
  BY TopOK DEF InstanceInit
<1>2. /\ f \in Frame /\ f.o \in Object /\ f.o # NULL /\ f.level \in Nat /\ f.fresh \in BOOLEAN
      /\ Levels[TypeOf[f.o]] \in Nat /\ TypeOK /\ FrameOK(f) /\ ObjectWith(f.o, f)
  BY FrameFacts, WithFrame DEF IInv
<1>3. wrapper_key[f.o] = NULL /\ construction = w /\ w # NULL
  BY <1>1, ConstructionAssumption DEF InstanceInit
<1>4. /\ f.at = "ancestors" /\ f.level = 0 /\ Registered(f.o) /\ ~f.fresh /\ init_refs[f.o] = 0
      /\ f.self = w /\ f.by = "init"
  BY <1>1, <1>3, Unmet
<1>5. obj[w] = NULL /\ held[w] > 0 /\ pyclass[w] = TypeOf[f.o]
  BY <1>2, <1>4 DEF FrameOK, Meeting
<1>6. PICK g \in Frame : g = [f EXCEPT !.level = @ + 1, !.w = w, !.fresh = FALSE, !.at = "bound"]
  <2>1. f.level + 1 \in Nat /\ "bound" \in Step
    BY <1>2 DEF Step
  <2> QED
    BY <1>2, <2>1 DEF Frame
<1>7. /\ g.o = f.o /\ g.self = f.self /\ g.by = f.by /\ g.at = "bound" /\ g.floated = f.floated
      /\ g.level = f.level + 1 /\ g.w = w /\ g.fresh = FALSE /\ g.back = f.back
  BY <1>2, <1>6 DEF Frame
<1>8. /\ Goes(g) /\ construction' = NULL
      /\ obj' = [obj EXCEPT ![w] = f.o] /\ wrapper_key' = [wrapper_key EXCEPT ![f.o] = w]
      /\ UNCHANGED <<state, floating, cref, init_refs, held, error, ref_count, ob_refcnt, pyclass>>
  BY <1>1, <1>3, <1>5, <1>6, ConstructionAssumption DEF InstanceInit, Unbound
<1>9. TypeOK'
  <2>1. stack' \in Seq(Frame)
    BY <1>1, <1>2, <1>8, Replaced DEF TypeOK
  <2> QED
    BY <1>2, <1>8, <2>1 DEF TypeOK
<1>10. ConstructionOK'
  BY <1>1, <1>2, <1>4, <1>7, <1>8, ConstructionMet
<1>11. Only(f.o, w)
  <2>1. \A h \in Frames : h.self = w => h.o = f.o
    BY <1>2, <1>3, <1>4, OneFrame DEF IInv, TypeOK
  <2> QED
    BY <1>2, <1>3, <1>5, <1>8, <2>1, OnlyBinds
<1>12. FrameOK(g)'
  <2>1. wrapper_key'[f.o] = w
    BY <1>2, <1>8 DEF TypeOK
  <2>2. Progress(g)'
    BY <1>1, <1>2, <1>7 DEF FrameOK, Progress, AtLevel, PastLevels, Registered
  <2>3. Meeting(g)'
    BY <1>2, <1>3, <1>4, <1>5, <1>7, <1>8, <2>1 DEF Meeting, AtLevel, Released
  <2>4. Taken(g)'
    BY <1>2, <1>4, <1>7, <1>8 DEF Taken, AtLevel, Released
  <2>5. Owned(g)'
    BY <1>2, <1>4, <1>7, <1>8 DEF FrameOK, Owned, IsFloating
  <2> QED
    BY <1>2, <1>7, <1>8, <2>2, <2>3, <2>4, <2>5 DEF FrameOK
<1>13. ObjectWith(f.o, g)'
  <2>1. wrapper_key'[f.o] = w /\ obj'[w] = f.o
    BY <1>2, <1>8 DEF TypeOK
  <2> QED
    BY <1>2, <1>4, <1>7, <1>8, <2>1 DEF ObjectWith, Counted, Flag, IsFloating
<1>14. WrapperWith(w, Using(g))'
  <2>1. ~Using(g)
    BY <1>7 DEF Using, AtLevel
  <2>2. /\ ob_refcnt[w] \in Nat /\ held[w] \in Nat
        /\ ob_refcnt[w] = held[w]
    BY <1>2, <1>5 DEF IInv, WrapperOK, TypeOK, Used, Flag
  <2>3. obj'[w] = f.o /\ wrapper_key'[f.o] = w
    BY <1>2, <1>8 DEF TypeOK
  <2>4. pyclass'[w] = TypeOf[f.o] /\ ob_refcnt'[w] \in Nat /\ held'[w] \in Nat /\ ob_refcnt'[w] > 0
    BY <1>5, <1>8, <2>2
  <2>5. init_refs'[f.o] = 0 /\ init_refs'[f.o] \in Nat
    BY <1>4, <1>8
  <2>6. ob_refcnt'[w] = held'[w] + init_refs'[f.o] + (IF Using(g) THEN 1 ELSE 0)
    BY <1>8, <2>1, <2>2, <2>5
  <2> QED
    BY <1>2, <2>3, <2>4, <2>5, <2>6, WrapperNext
<1> QED
  BY <1>1, <1>7, <1>8, <1>9, <1>10, <1>11, <1>12, <1>13, <1>14, GoesInFrame

\* instance_init of an object created from C.
LEMMA FreshStep ==
    ASSUME IInv, NEW w \in Wrapper, InstanceInit(w), wrapper_key[Top.o] = NULL, construction = NULL
    PROVE  IInv'
<1>1. PICK f \in Frames : f = Top /\ stack # <<>> /\ f.at \in {"ancestors", "levels"} /\ f.level < Levels[TypeOf[f.o]]
  BY TopOK DEF InstanceInit
<1>2. /\ f \in Frame /\ f.o \in Object /\ f.o # NULL /\ f.level \in Nat /\ f.fresh \in BOOLEAN
      /\ Levels[TypeOf[f.o]] \in Nat /\ TypeOK /\ FrameOK(f) /\ ObjectWith(f.o, f)
  BY FrameFacts, WithFrame DEF IInv
<1>3. wrapper_key[f.o] = NULL /\ w # NULL
  BY <1>1, ConstructionAssumption
<1>4. /\ f.at = "ancestors" /\ f.level = 0 /\ Registered(f.o) /\ ~f.fresh /\ init_refs[f.o] = 0
      /\ f.by # "init"
  BY <1>1, <1>3, Unmet, ConstructionAssumption
<1>5. PICK g \in Frame : g = [f EXCEPT !.level = @ + 1, !.w = w, !.fresh = TRUE, !.at = "bound"]
  <2>1. f.level + 1 \in Nat /\ "bound" \in Step
    BY <1>2 DEF Step
  <2> QED
    BY <1>2, <2>1 DEF Frame
<1>6. /\ g.o = f.o /\ g.self = f.self /\ g.by = f.by /\ g.at = "bound" /\ g.floated = f.floated
      /\ g.level = f.level + 1 /\ g.w = w /\ g.fresh = TRUE /\ g.back = f.back
  BY <1>2, <1>5 DEF Frame
<1>7. /\ Goes(g) /\ construction' = NULL /\ ob_refcnt[w] = 0
      /\ ob_refcnt' = [ob_refcnt EXCEPT ![w] = 1] /\ pyclass' = [pyclass EXCEPT ![w] = TypeOf[f.o]]
      /\ obj' = [obj EXCEPT ![w] = f.o] /\ wrapper_key' = [wrapper_key EXCEPT ![f.o] = w]
      /\ ref_count' = [ref_count EXCEPT ![f.o] = @ + 1]
      /\ UNCHANGED <<state, floating, cref, init_refs, held, error>>
  BY <1>1, <1>3, <1>5 DEF InstanceInit, Wraps, ClassOf
<1>8. obj[w] = NULL /\ held[w] = 0 /\ \A h \in Frames : h.self # w
  BY <1>7, Free
<1>9. TypeOK'
  <2>1. stack' \in Seq(Frame)
    BY <1>1, <1>2, <1>7, Replaced DEF TypeOK
  <2>2. TypeOf[f.o] \in Class /\ ref_count[f.o] + 1 \in Nat /\ 1 \in Nat
    BY <1>2, ConstructionAssumption DEF TypeOK
  <2> QED
    BY <1>2, <1>7, <2>1, <2>2 DEF TypeOK
<1>10. ConstructionOK'
  BY <1>1, <1>2, <1>4, <1>6, <1>7, ConstructionMet
<1>11. Only(f.o, w)
  BY <1>2, <1>3, <1>7, <1>8, OnlyBinds DEF TypeOK
<1>12. FrameOK(g)'
  <2>1. wrapper_key'[f.o] = w
    BY <1>2, <1>7 DEF TypeOK
  <2>2. Progress(g)'
    BY <1>1, <1>2, <1>4, <1>6 DEF FrameOK, Progress, AtLevel, PastLevels, Registered
  <2>3. Meeting(g)'
    BY <1>2, <1>3, <1>4, <1>6, <1>7, <2>1 DEF FrameOK, Meeting, AtLevel, Released
  <2>4. Taken(g)'
    BY <1>2, <1>4, <1>6, <1>7 DEF Taken, AtLevel, Released
  <2>5. Owned(g)'
    BY <1>2, <1>4, <1>6, <1>7, <1>8, <2>1 DEF FrameOK, Owned, IsFloating
  <2> QED
    BY <1>2, <1>6, <1>7, <2>2, <2>3, <2>4, <2>5 DEF FrameOK
<1>13. ObjectWith(f.o, g)'
  <2>1. wrapper_key'[f.o] = w /\ obj'[w] = f.o /\ ref_count'[f.o] = ref_count[f.o] + 1
    BY <1>2, <1>7 DEF TypeOK
  <2>2. cref[f.o] \in Nat /\ ref_count[f.o] = cref[f.o] + Flag(floating[f.o]) + Flag(~IsFloating(f.o))
    BY <1>2, <1>3, <1>4 DEF ObjectWith, Counted, Flag, TypeOK
  <2>3. cref'[f.o] \in Nat /\ ref_count'[f.o] = cref'[f.o] + Flag(floating'[f.o]) + 1 + Flag(~IsFloating(f.o)) + 0
    BY <1>7, <2>1, <2>2 DEF Flag
  <2>4. Counted(f.o, g.by = "init", TRUE, g.at = "template")'
    BY <1>3, <1>4, <1>6, <2>1, <2>3 DEF Counted, Flag, IsFloating
  <2> QED
    BY <1>2, <1>6, <1>7, <2>1, <2>4 DEF ObjectWith, IsFloating
<1>14. WrapperWith(w, Using(g))'
  <2>1. Using(g)
    BY <1>6 DEF Using, AtLevel
  <2>2. obj'[w] = f.o /\ wrapper_key'[f.o] = w /\ pyclass'[w] = TypeOf[f.o] /\ ob_refcnt'[w] = 1
    BY <1>2, <1>7 DEF TypeOK
  <2>3. held'[w] = 0 /\ init_refs'[f.o] = 0
    BY <1>4, <1>7, <1>8
  <2>4. held'[w] \in Nat /\ init_refs'[f.o] \in Nat /\ ob_refcnt'[w] \in Nat /\ ob_refcnt'[w] > 0
    BY <2>2, <2>3
  <2>5. ob_refcnt'[w] = held'[w] + init_refs'[f.o] + (IF Using(g) THEN 1 ELSE 0)
    BY <2>1, <2>2, <2>3
  <2> QED
    BY <1>2, <2>2, <2>4, <2>5, WrapperNext
<1> QED
  BY <1>1, <1>6, <1>7, <1>9, <1>10, <1>11, <1>12, <1>13, <1>14, GoesInFrame

LEMMA InstanceInitStep ==
    ASSUME IInv, NEW w \in Wrapper, InstanceInit(w)
    PROVE  IInv'
  BY FoundStep, MetStep, FreshStep

\* A hook of a property is called with the wrapper, or with a passing one.
LEMMA CallSetterStep ==
    ASSUME IInv, NEW w \in Wrapper, CallSetter(w)
    PROVE  IInv'
<1>1. PICK f \in Frames : f = Top /\ stack # <<>> /\ f.at \in {"constructing", "settled"} /\ Registered(f.o)
  BY TopOK DEF CallSetter
<1>2. /\ f \in Frame /\ f.o \in Object /\ f.o # NULL /\ f.level \in Nat /\ f.fresh \in BOOLEAN
      /\ Levels[TypeOf[f.o]] \in Nat /\ TypeOK /\ FrameOK(f) /\ ObjectWith(f.o, f)
  BY FrameFacts, WithFrame DEF IInv
<1>3. f.level > 0 /\ ~f.fresh /\ ~Using(f) /\ w # NULL
  BY <1>1, <1>2, ConstructionAssumption DEF FrameOK, Progress, PastLevels, Registered, AtLevel, Using
<1>4. PICK g \in Frame : g = [f EXCEPT !.at = "setter", !.back = f.at, !.w = w]
  BY <1>2 DEF Frame, Step, Hooks
<1>5. /\ g.o = f.o /\ g.self = f.self /\ g.by = f.by /\ g.at = "setter" /\ g.floated = f.floated
      /\ g.level = f.level /\ g.w = w /\ g.fresh = f.fresh /\ g.back = f.at
  BY <1>2, <1>4 DEF Frame
<1>6. /\ Goes(g) /\ RetainFloating(f.o, w)
      /\ UNCHANGED <<state, floating, cref, init_refs, held, construction, error>>
  BY <1>1, <1>4 DEF CallSetter
<1>7. stack' \in Seq(Frame)
  BY <1>1, <1>2, <1>6, Replaced DEF TypeOK
<1>8. ConstructionOK'
  <2>1. Waiting(g) <=> Waiting(f)
    BY <1>2, <1>3, <1>5 DEF Waiting
  <2> QED
    BY <1>1, <1>5, <1>6, <2>1, ConstructionGoesOn
<1>9. Using(g) /\ Progress(g)' /\ Taken(g)'
  BY <1>1, <1>2, <1>3, <1>5, <1>6 DEF FrameOK, Progress, Taken, AtLevel, PastLevels, Released, Registered, Using
<1>10. CASE wrapper_key[f.o] = w
  <2>1. obj[w] = f.o
    BY <1>2, <1>3, <1>10, Wrapping
  <2>2. /\ ob_refcnt' = [ob_refcnt EXCEPT ![w] = @ + 1]
        /\ ref_count' = [ref_count EXCEPT ![f.o] = @ + Flag(FALSE)]
        /\ UNCHANGED <<obj, pyclass, wrapper_key>>
    BY <1>3, <1>6, <1>10 DEF RetainFloating
  <2>3. UNCHANGED ref_count
    BY <1>2, <2>2 DEF TypeOK, Flag
  <2>4. TypeOK'
    <3>1. ob_refcnt[w] + 1 \in Nat
      BY <1>2 DEF TypeOK
    <3>2. ob_refcnt' \in [Wrapper -> Nat]
      BY <1>2, <2>2, <3>1 DEF TypeOK
    <3> QED
      BY <1>2, <1>6, <1>7, <2>2, <2>3, <3>2 DEF TypeOK
  <2>5. Only(f.o, w)
    BY <1>2, <1>6, <1>10, <2>2, <2>3, OnlyOwn DEF TypeOK
  <2>6. FrameOK(g)'
    <3>1. Meeting(g)'
      BY <1>1, <1>2, <1>3, <1>5, <1>6, <1>10, <2>2 DEF FrameOK, Meeting, AtLevel, Released
    <3>2. Owned(g)'
      BY <1>1, <1>2, <1>5, <1>6, <2>2 DEF FrameOK, Owned, IsFloating
    <3> QED
      BY <1>2, <1>5, <1>6, <1>9, <3>1, <3>2 DEF FrameOK
  <2>7. ObjectWith(f.o, g)'
    BY <1>1, <1>2, <1>5, <1>6, <2>2, <2>3 DEF ObjectWith, Counted, Flag, IsFloating
  <2>8. WrapperWith(w, Using(g))'
    <3>1. /\ pyclass[w] = TypeOf[f.o]
          /\ ob_refcnt[w] \in Nat /\ held[w] \in Nat /\ init_refs[f.o] \in Nat
          /\ ob_refcnt[w] = held[w] + init_refs[f.o]
      BY <1>3, <2>1, WrapperNow
    <3>2. ob_refcnt'[w] = ob_refcnt[w] + 1
      BY <1>2, <2>2 DEF TypeOK
    <3>3. /\ obj'[w] = f.o /\ wrapper_key'[f.o] = w /\ pyclass'[w] = TypeOf[f.o]
          /\ held'[w] \in Nat /\ init_refs'[f.o] \in Nat
      BY <1>6, <1>10, <2>1, <2>2, <3>1
    <3>4. /\ ob_refcnt'[w] \in Nat /\ ob_refcnt'[w] > 0
          /\ ob_refcnt'[w] = held'[w] + init_refs'[f.o] + (IF Using(g) THEN 1 ELSE 0)
      BY <1>6, <1>9, <3>1, <3>2
    <3> QED
      BY <1>2, <3>3, <3>4, WrapperNext
  <2> QED
    BY <1>1, <1>5, <1>6, <1>8, <2>4, <2>5, <2>6, <2>7, <2>8, GoesInFrame
<1>11. CASE wrapper_key[f.o] # w
  <2>1. wrapper_key[f.o] = NULL /\ Wraps(w, f.o)
    BY <1>6, <1>11 DEF RetainFloating
  <2>2. /\ ob_refcnt[w] = 0 /\ ob_refcnt' = [ob_refcnt EXCEPT ![w] = 1] /\ pyclass' = [pyclass EXCEPT ![w] = TypeOf[f.o]]
        /\ obj' = [obj EXCEPT ![w] = f.o] /\ wrapper_key' = [wrapper_key EXCEPT ![f.o] = w]
        /\ ref_count' = [ref_count EXCEPT ![f.o] = @ + 1]
    BY <1>6, <2>1 DEF RetainFloating, Wraps, ClassOf, Flag
  <2>3. obj[w] = NULL /\ held[w] = 0 /\ \A h \in Frames : h.self # w
    BY <2>2, Free
  <2>4. f.at = "settled" /\ f.by # "init" /\ init_refs[f.o] = 0
    BY <1>1, <1>2, <1>3, <2>1 DEF FrameOK, Meeting, Taken, Released
  <2>5. TypeOK'
    <3>1. TypeOf[f.o] \in Class /\ ref_count[f.o] + 1 \in Nat /\ 1 \in Nat
      BY <1>2, ConstructionAssumption DEF TypeOK
    <3> QED
      BY <1>2, <1>6, <1>7, <2>2, <3>1 DEF TypeOK
  <2>6. Only(f.o, w)
    BY <1>2, <1>6, <2>1, <2>2, <2>3, OnlyBinds DEF TypeOK
  <2>7. wrapper_key'[f.o] = w /\ obj'[w] = f.o /\ ref_count'[f.o] = ref_count[f.o] + 1
    BY <1>2, <2>2 DEF TypeOK
  <2>8. FrameOK(g)'
    <3>1. Meeting(g)'
      BY <1>2, <1>3, <1>5, <2>4, <2>7 DEF FrameOK, Meeting, AtLevel, Released
    <3>2. Owned(g)'
      BY <1>1, <1>2, <1>5, <1>6, <2>3, <2>7 DEF FrameOK, Owned, IsFloating
    <3> QED
      BY <1>2, <1>5, <1>6, <1>9, <3>1, <3>2 DEF FrameOK
  <2>9. ObjectWith(f.o, g)'
    <3>1. cref[f.o] \in Nat /\ ref_count[f.o] = cref[f.o] + Flag(floating[f.o]) + Flag(~IsFloating(f.o))
      BY <1>2, <2>1, <2>4 DEF ObjectWith, Counted, Flag, TypeOK
    <3>2. cref'[f.o] \in Nat /\ ref_count'[f.o] = cref'[f.o] + Flag(floating'[f.o]) + 1 + Flag(~IsFloating(f.o)) + 0
      BY <1>6, <2>7, <3>1 DEF Flag
    <3>3. Counted(f.o, g.by = "init", TRUE, g.at = "template")'
      BY <1>3, <1>5, <2>4, <2>7, <3>2 DEF Counted, Flag, IsFloating
    <3> QED
      BY <1>2, <1>5, <1>6, <2>7, <3>3 DEF ObjectWith, IsFloating
  <2>10. WrapperWith(w, Using(g))'
    <3>1. pyclass'[w] = TypeOf[f.o] /\ ob_refcnt'[w] = 1
      BY <1>2, <2>2 DEF TypeOK
    <3>2. held'[w] = 0 /\ init_refs'[f.o] = 0
      BY <1>6, <2>3, <2>4
    <3>3. held'[w] \in Nat /\ init_refs'[f.o] \in Nat /\ ob_refcnt'[w] \in Nat /\ ob_refcnt'[w] > 0
      BY <3>1, <3>2
    <3>4. ob_refcnt'[w] = held'[w] + init_refs'[f.o] + (IF Using(g) THEN 1 ELSE 0)
      BY <1>9, <3>1, <3>2
    <3> QED
      BY <1>2, <2>7, <3>1, <3>3, <3>4, WrapperNext
  <2> QED
    BY <1>1, <1>5, <1>6, <1>8, <2>5, <2>6, <2>8, <2>9, <2>10, GoesInFrame
<1> QED
  BY <1>10, <1>11

\* Whoever constructs the object keeps it, so the last reference to the wrapper
\* does not take it along; an instance whose __init__ is running is kept itself.
LEMMA Dropped ==
    ASSUME IInv, NEW f \in Frames, NEW w \in Wrapper, obj[w] = f.o, NEW n \in Nat, n <= ob_refcnt[w],
           f.by = "init" => n < ob_refcnt[w], Decref(w, n)
    PROVE  /\ state' = state /\ ob_refcnt' = [ob_refcnt EXCEPT ![w] = @ - n] /\ ob_refcnt[w] - n \in Nat
           /\ IF ob_refcnt[w] = n
              THEN /\ obj' = [obj EXCEPT ![w] = NULL] /\ wrapper_key' = [wrapper_key EXCEPT ![f.o] = NULL]
                   /\ pyclass' = [pyclass EXCEPT ![w] = NULL]
                   /\ ref_count' = [ref_count EXCEPT ![f.o] = @ - 1] /\ ref_count[f.o] - 1 \in Nat
              ELSE UNCHANGED <<obj, wrapper_key, pyclass, ref_count>>
<1>1. /\ f.o \in Object /\ f.o # NULL /\ TypeOK /\ FrameOK(f) /\ ObjectWith(f.o, f)
  BY FrameFacts, WithFrame DEF IInv
<1>2. ob_refcnt[w] \in Nat /\ wrapper_key[f.o] = w /\ w # NULL
  BY WrapperNow, ConstructionAssumption
<1>3. ob_refcnt[w] - n \in Nat
  BY <1>2
<1>4. CASE ob_refcnt[w] = n
  <2>1. f.by # "init"
    BY <1>2, <1>4
  <2>2. /\ obj' = [obj EXCEPT ![w] = NULL] /\ wrapper_key' = [wrapper_key EXCEPT ![f.o] = NULL]
        /\ pyclass' = [pyclass EXCEPT ![w] = NULL] /\ ref_count' = [ref_count EXCEPT ![f.o] = @ - 1]
        /\ state' = [state EXCEPT ![f.o] = IF ref_count[f.o] = 1 THEN "gone" ELSE @]
        /\ ob_refcnt' = [ob_refcnt EXCEPT ![w] = @ - n]
    BY <1>1, <1>4 DEF Decref
  <2>3. /\ cref[f.o] \in Nat /\ ref_count[f.o] \in Nat
        /\ ref_count[f.o] = cref[f.o] + Flag(floating[f.o]) + 1 + Flag(~IsFloating(f.o)) + Flag(f.at = "template")
    BY <1>1, <1>2, <2>1 DEF ObjectWith, Counted, Flag, TypeOK
  <2>4. ~IsFloating(f.o) \/ floating[f.o] \/ cref[f.o] > 0 \/ f.at = "template"
    BY <1>1 DEF FrameOK, Owned
  <2>5. ref_count[f.o] > 1
    BY <2>3, <2>4 DEF Flag
  <2>6. state' = state
    BY <1>1, <2>2, <2>5 DEF TypeOK
  <2> QED
    BY <1>3, <1>4, <2>2, <2>3, <2>5, <2>6
<1>5. CASE ob_refcnt[w] # n
  <2>1. UNCHANGED <<obj, wrapper_key, ref_count, state>> /\ ob_refcnt' = [ob_refcnt EXCEPT ![w] = @ - n]
    BY <1>5 DEF Decref
  <2>2. pyclass' = [pyclass EXCEPT ![w] = @]
    BY <1>5 DEF Decref
  <2>3. pyclass' = pyclass
    BY <1>1, <2>2 DEF TypeOK
  <2> QED
    BY <1>3, <1>5, <2>1, <2>3
<1> QED
  BY <1>4, <1>5

\* What that leaves of both, when the frame becomes g.
LEMMA DroppedWith ==
    ASSUME IInv, NEW f \in Frames, NEW w \in Wrapper, obj[w] = f.o, NEW n \in Nat, n <= ob_refcnt[w],
           f.by = "init" => n < ob_refcnt[w], Decref(w, n), UNCHANGED <<floating, cref>>,
           \A p \in Object : p # f.o => init_refs'[p] = init_refs[p],
           \A v \in Wrapper : v # w => held'[v] = held[v],
           init_refs'[f.o] \in Nat, held'[w] \in Nat,
           NEW g \in Frame, g.o = f.o, g.by = f.by, g.at = "template" <=> f.at = "template",
           ob_refcnt[w] - n = held'[w] + init_refs'[f.o] + (IF Using(g) THEN 1 ELSE 0)
    PROVE  Only(f.o, w) /\ ObjectWith(f.o, g)' /\ WrapperWith(w, Using(g))'
<1>1. /\ f.o \in Object /\ f.o # NULL /\ TypeOK /\ FrameOK(f) /\ ObjectWith(f.o, f)
      /\ ref_count[f.o] \in Nat /\ cref[f.o] \in Nat
  <2>1. /\ f.o \in Object /\ f.o # NULL /\ TypeOK /\ FrameOK(f) /\ ObjectWith(f.o, f)
    BY FrameFacts, WithFrame DEF IInv
  <2> QED
    BY <2>1 DEF TypeOK
<1>2. /\ ob_refcnt[w] \in Nat /\ wrapper_key[f.o] = w /\ pyclass[w] = TypeOf[f.o] /\ w # NULL
  BY WrapperNow, ConstructionAssumption
<1>3. /\ state' = state /\ ob_refcnt' = [ob_refcnt EXCEPT ![w] = @ - n] /\ ob_refcnt[w] - n \in Nat
  BY Dropped
<1>4. ob_refcnt'[w] = ob_refcnt[w] - n
  BY <1>1, <1>3 DEF TypeOK
<1>5. /\ \A p \in Object : p # f.o => /\ state'[p] = state[p] /\ floating'[p] = floating[p]
                                      /\ cref'[p] = cref[p] /\ init_refs'[p] = init_refs[p]
      /\ \A v \in Wrapper : v # w => ob_refcnt'[v] = ob_refcnt[v] /\ held'[v] = held[v]
      /\ \A h \in Frames : h.self = w => h.o = f.o
  BY <1>1, <1>2, <1>3, Wrapping DEF TypeOK
<1>6. CASE ob_refcnt[w] = n
  <2>1. /\ obj' = [obj EXCEPT ![w] = NULL] /\ wrapper_key' = [wrapper_key EXCEPT ![f.o] = NULL]
        /\ pyclass' = [pyclass EXCEPT ![w] = NULL] /\ ref_count' = [ref_count EXCEPT ![f.o] = @ - 1]
    BY <1>6, Dropped
  <2>2. obj'[w] = NULL /\ wrapper_key'[f.o] = NULL /\ ref_count'[f.o] = ref_count[f.o] - 1
    BY <1>1, <2>1 DEF TypeOK
  <2>3. Only(f.o, w)
    BY <1>1, <1>2, <1>5, <2>1, <2>2 DEF Only, TypeOK
  <2>4. ob_refcnt'[w] = 0 /\ held'[w] = 0 /\ ~Using(g) /\ ~Using(g)'
    BY <1>2, <1>4, <1>6 DEF Using, AtLevel
  <2>5. WrapperWith(w, Using(g))'
    BY <2>2, <2>4 DEF WrapperWith, Flag
  <2>6. f.by # "init"
    BY <1>2, <1>6
  <2>7. ref_count[f.o] = cref[f.o] + Flag(floating[f.o]) + 1 + Flag(~IsFloating(f.o)) + Flag(f.at = "template")
    BY <1>1, <1>2, <2>6 DEF ObjectWith, Counted, Flag
  <2>8. /\ cref'[f.o] \in Nat
        /\ ref_count'[f.o] = cref'[f.o] + Flag(floating'[f.o]) + 0 + Flag(~IsFloating(f.o)) + Flag(g.at = "template")
    BY <1>1, <2>2, <2>7 DEF Flag
  <2>9. Counted(f.o, g.by = "init", TRUE, g.at = "template")'
    BY <2>2, <2>8 DEF Counted, Flag, IsFloating
  <2>10. ObjectWith(f.o, g)'
    BY <1>1, <1>3, <2>2, <2>9 DEF ObjectWith, IsFloating
  <2> QED
    BY <2>3, <2>5, <2>10
<1>7. CASE ob_refcnt[w] # n
  <2>1. UNCHANGED <<obj, wrapper_key, pyclass, ref_count>>
    BY <1>7, Dropped
  <2>2. Only(f.o, w)
    BY <1>1, <1>2, <1>5, <2>1 DEF Only
  <2>3. ob_refcnt[w] - n # 0 /\ ob_refcnt[w] - n > 0
    BY <1>2, <1>3, <1>7
  <2>4. WrapperWith(w, Using(g))'
    <3>1. obj'[w] = f.o /\ wrapper_key'[f.o] = w /\ pyclass'[w] = TypeOf[f.o]
      BY <1>2, <2>1
    <3>2. ob_refcnt'[w] \in Nat /\ ob_refcnt'[w] > 0
      BY <1>3, <1>4, <2>3
    <3>3. ob_refcnt'[w] = held'[w] + init_refs'[f.o] + (IF Using(g) THEN 1 ELSE 0)
      BY <1>4
    <3> QED
      BY <1>1, <3>1, <3>2, <3>3, WrapperNext
  <2>5. ObjectWith(f.o, g)'
    BY <1>1, <1>3, <2>1 DEF ObjectWith, Counted, Flag, IsFloating
  <2> QED
    BY <2>2, <2>4, <2>5
<1> QED
  BY <1>6, <1>7

LEMMA SetterReturnsStep ==
    ASSUME IInv, SetterReturns
    PROVE  IInv'
<1>1. PICK f \in Frames : f = Top /\ stack # <<>> /\ f.at = "setter"
  BY TopOK DEF SetterReturns
<1>2. /\ f \in Frame /\ f.o \in Object /\ f.o # NULL /\ f.level \in Nat /\ f.fresh \in BOOLEAN /\ f.back \in Step
      /\ f.self \in Wrapper \cup {NULL} /\ Levels[TypeOf[f.o]] \in Nat /\ TypeOK /\ FrameOK(f)
  BY FrameFacts DEF IInv
<1>3. /\ f.level > 0 /\ f.level = Levels[TypeOf[f.o]] /\ ~f.fresh /\ Using(f) /\ f.back \in {"constructing", "settled"}
      /\ Registered(f.o)
  BY <1>1, <1>2 DEF FrameOK, Progress, PastLevels, Registered, AtLevel, Using
<1>4. PICK w : w = wrapper_key[f.o] /\ w \in Wrapper /\ obj[w] = f.o /\ w = f.w
  BY <1>1, <1>2, Wrapping DEF FrameOK, Meeting
<1>5. /\ pyclass[w] = TypeOf[f.o] /\ ob_refcnt[w] \in Nat /\ held[w] \in Nat /\ init_refs[f.o] \in Nat
      /\ ob_refcnt[w] = held[w] + init_refs[f.o] + 1
  BY <1>3, <1>4, WrapperNow
<1>6. PICK g \in Frame : g = [f EXCEPT !.at = f.back, !.w = NULL, !.fresh = FALSE, !.floated = FALSE]
  BY <1>2 DEF Frame
<1>7. /\ g.o = f.o /\ g.self = f.self /\ g.by = f.by /\ g.at = f.back /\ g.floated = FALSE
      /\ g.level = f.level /\ g.w = NULL /\ g.fresh = FALSE /\ g.back = f.back
  BY <1>2, <1>6 DEF Frame
<1>8. /\ Goes(g) /\ Decref(w, 1) /\ error' \in {error, FALSE}
      /\ UNCHANGED <<floating, cref, init_refs, held, construction>>
  BY <1>1, <1>4, <1>6 DEF SetterReturns, Proceeds, Printed
<1>9. ConstructionOK'
  <2>1. Waiting(g) <=> Waiting(f)
    BY <1>2, <1>3, <1>7 DEF Waiting
  <2> QED
    BY <1>1, <1>7, <1>8, <2>1, ConstructionGoesOn
<1>10. f.by = "init" => f.self = w /\ held[w] > 0
  BY <1>2, <1>3, <1>4 DEF FrameOK, Meeting
<1>11. 1 <= ob_refcnt[w] /\ (f.by = "init" => 1 < ob_refcnt[w])
  BY <1>5, <1>10
<1>12. Released(f) <=> f.back = "settled"
  BY <1>1 DEF Released
<1>13. /\ f.back = "constructing" => init_refs[f.o] > 0 /\ ob_refcnt[w] # 1
       /\ f.back = "settled" => init_refs[f.o] = 0
  <2>1. /\ f.back = "constructing" => init_refs[f.o] > 0
        /\ f.back = "settled" => init_refs[f.o] = 0
    BY <1>1, <1>2, <1>3, <1>12 DEF FrameOK, Taken, AtLevel
  <2> QED
    BY <1>5, <2>1
<1>14. /\ state' = state /\ ob_refcnt' = [ob_refcnt EXCEPT ![w] = @ - 1] /\ ob_refcnt[w] - 1 \in Nat
       /\ IF ob_refcnt[w] = 1
          THEN /\ obj' = [obj EXCEPT ![w] = NULL] /\ wrapper_key' = [wrapper_key EXCEPT ![f.o] = NULL]
               /\ pyclass' = [pyclass EXCEPT ![w] = NULL]
               /\ ref_count' = [ref_count EXCEPT ![f.o] = @ - 1] /\ ref_count[f.o] - 1 \in Nat
          ELSE UNCHANGED <<obj, wrapper_key, pyclass, ref_count>>
  BY <1>4, <1>8, <1>11, Dropped
<1>15. TypeOK'
  <2>1. stack' \in Seq(Frame)
    BY <1>1, <1>2, <1>8, Replaced DEF TypeOK
  <2>2. error' \in BOOLEAN
    BY <1>2, <1>8 DEF TypeOK
  <2>3. CASE ob_refcnt[w] = 1
    BY <1>2, <1>4, <1>8, <1>14, <2>1, <2>2, <2>3 DEF TypeOK
  <2>4. CASE ob_refcnt[w] # 1
    BY <1>2, <1>4, <1>8, <1>14, <2>1, <2>2, <2>4 DEF TypeOK
  <2> QED
    BY <2>3, <2>4
<1>16. Only(f.o, w) /\ ObjectWith(f.o, g)' /\ WrapperWith(w, Using(g))'
  <2>1. ~Using(g)
    BY <1>3, <1>7 DEF Using
  <2>2. ob_refcnt[w] - 1 = held'[w] + init_refs'[f.o] + (IF Using(g) THEN 1 ELSE 0)
    BY <1>5, <1>8, <2>1
  <2>3. init_refs'[f.o] \in Nat /\ held'[w] \in Nat
    BY <1>5, <1>8
  <2>4. (g.at = "template" <=> f.at = "template") /\ 1 \in Nat
    BY <1>1, <1>3, <1>7
  <2> QED
    BY <1>4, <1>7, <1>8, <1>11, <2>2, <2>3, <2>4, DroppedWith
<1>17. FrameOK(g)'
  <2>1. Progress(g)'
    BY <1>2, <1>3, <1>7 DEF FrameOK, Progress, AtLevel, PastLevels, Registered
  <2>2. Taken(g)'
    BY <1>3, <1>7, <1>8, <1>13 DEF Taken, AtLevel, Released
  <2>3. ob_refcnt[w] = 1 => f.back = "settled" /\ f.by # "init" /\ wrapper_key'[f.o] = NULL
    BY <1>2, <1>3, <1>11, <1>13, <1>14 DEF TypeOK
  <2>4. ob_refcnt[w] # 1 => wrapper_key'[f.o] = w /\ pyclass'[w] = TypeOf[f.o]
    BY <1>4, <1>5, <1>14
  <2>5. Meeting(g)'
    <3>1. (g.by = "init" <=> g.self # NULL)'
      BY <1>2, <1>7 DEF FrameOK, Meeting
    <3>2. g.by = "init" => held'[g.self] > 0 /\ pyclass'[g.self] = TypeOf[g.o] /\ wrapper_key'[g.o] = g.self
      BY <1>7, <1>8, <1>10, <2>3, <2>4
    <3>3. ~Released(g)' => wrapper_key'[g.o] # NULL
      BY <1>4, <1>7, <2>3, <2>4, ConstructionAssumption DEF Released
    <3> QED
      BY <1>2, <1>3, <1>7, <3>1, <3>2, <3>3 DEF Meeting, AtLevel
  <2>6. Owned(g)'
    <3>1. f.by = "new" => held[w] = 0
      BY <1>2, <1>4, ConstructionAssumption DEF FrameOK, Owned
    <3>2. f.by = "new" /\ f.back = "settled" => ob_refcnt[w] = 1
      BY <1>5, <1>13, <3>1
    <3>3. f.by = "new" => (wrapper_key'[f.o] # NULL => held'[wrapper_key'[f.o]] = 0)
      BY <1>8, <2>3, <2>4, <3>1
    <3>4. /\ cref'[f.o] <= MaxRefs /\ (IsFloating(f.o) => floating'[f.o] \/ cref'[f.o] > 0)
          /\ f.by = "new" /\ IsFloating(f.o) => cref'[f.o] = 0
      BY <1>1, <1>2, <1>8 DEF FrameOK, Owned
    <3> QED
      BY <1>3, <1>7, <2>3, <3>2, <3>3, <3>4 DEF Owned, IsFloating
  <2> QED
    BY <1>2, <1>7, <1>14, <2>1, <2>2, <2>5, <2>6 DEF FrameOK
<1> QED
  BY <1>1, <1>4, <1>7, <1>8, <1>9, <1>15, <1>16, <1>17, GoesInFrame

\* The references that the levels took are released, perhaps with the wrapper.
LEMMA ReleaseStep ==
    ASSUME IInv, NEW f \in Frames, f = Top, stack # <<>>, f.at \in {"constructing", "do_constructed"},
           Registered(f.o), NEW w, w = wrapper_key[f.o], Release(f.o, w), error' \in BOOLEAN,
           UNCHANGED <<floating, cref, held, construction>>
    PROVE  IInv'
<1>1. /\ f \in Frame /\ f.o \in Object /\ f.o # NULL /\ f.level \in Nat /\ f.fresh \in BOOLEAN
      /\ f.self \in Wrapper \cup {NULL} /\ Levels[TypeOf[f.o]] \in Nat /\ TypeOK /\ FrameOK(f)
  BY FrameFacts DEF IInv
<1>2. /\ f.level > 0 /\ f.level = Levels[TypeOf[f.o]] /\ ~f.fresh /\ ~Using(f)
  BY <1>1 DEF FrameOK, Progress, PastLevels, Registered, AtLevel, Using
<1>3. w # NULL /\ init_refs[f.o] > 0
  BY <1>1, <1>2 DEF FrameOK, Meeting, Taken, AtLevel, Released
<1>4. w \in Wrapper /\ obj[w] = f.o
  BY <1>1, <1>3, Wrapping
<1>5. PICK n \in Nat : n = init_refs[f.o]
  BY <1>1 DEF TypeOK
<1>6. /\ pyclass[w] = TypeOf[f.o] /\ ob_refcnt[w] \in Nat /\ held[w] \in Nat
      /\ ob_refcnt[w] = held[w] + n
  BY <1>2, <1>4, <1>5, WrapperNow
<1>7. PICK g \in Frame : g = [f EXCEPT !.at = "settled", !.w = NULL, !.fresh = FALSE, !.floated = FALSE]
  BY <1>1 DEF Frame, Step
<1>8. /\ g.o = f.o /\ g.self = f.self /\ g.by = f.by /\ g.at = "settled" /\ g.floated = FALSE
      /\ g.level = f.level /\ g.w = NULL /\ g.fresh = FALSE /\ g.back = f.back
  BY <1>1, <1>7 DEF Frame
<1>9. Goes(g) /\ Decref(w, n) /\ init_refs' = [init_refs EXCEPT ![f.o] = 0]
  BY <1>5, <1>7 DEF Release, Proceeds
<1>10. ConstructionOK'
  <2>1. Waiting(g) <=> Waiting(f)
    BY <1>1, <1>2, <1>8 DEF Waiting
  <2> QED
    BY <1>8, <1>9, <2>1, ConstructionGoesOn
<1>11. f.by = "init" => f.self = w /\ held[w] > 0
  BY <1>1, <1>2 DEF FrameOK, Meeting
<1>12. n <= ob_refcnt[w] /\ (f.by = "init" => n < ob_refcnt[w]) /\ (ob_refcnt[w] = n <=> held[w] = 0)
  BY <1>6, <1>11
<1>13. /\ state' = state /\ ob_refcnt' = [ob_refcnt EXCEPT ![w] = @ - n] /\ ob_refcnt[w] - n \in Nat
       /\ IF ob_refcnt[w] = n
          THEN /\ obj' = [obj EXCEPT ![w] = NULL] /\ wrapper_key' = [wrapper_key EXCEPT ![f.o] = NULL]
               /\ pyclass' = [pyclass EXCEPT ![w] = NULL]
               /\ ref_count' = [ref_count EXCEPT ![f.o] = @ - 1] /\ ref_count[f.o] - 1 \in Nat
          ELSE UNCHANGED <<obj, wrapper_key, pyclass, ref_count>>
  BY <1>4, <1>9, <1>12, Dropped
<1>14. TypeOK'
  <2>1. stack' \in Seq(Frame)
    BY <1>1, <1>9, Replaced DEF TypeOK
  <2>2. CASE ob_refcnt[w] = n
    BY <1>1, <1>4, <1>9, <1>13, <2>1, <2>2 DEF TypeOK
  <2>3. CASE ob_refcnt[w] # n
    BY <1>1, <1>4, <1>9, <1>13, <2>1, <2>3 DEF TypeOK
  <2> QED
    BY <2>2, <2>3
<1>15. Only(f.o, w) /\ ObjectWith(f.o, g)' /\ WrapperWith(w, Using(g))'
  <2>1. ~Using(g)
    BY <1>8 DEF Using
  <2>2. init_refs'[f.o] = 0 /\ init_refs'[f.o] \in Nat /\ held'[w] \in Nat
    BY <1>1, <1>6, <1>9 DEF TypeOK
  <2>3. ob_refcnt[w] - n = held'[w] + init_refs'[f.o] + (IF Using(g) THEN 1 ELSE 0)
    BY <1>6, <2>1, <2>2
  <2>4. \A p \in Object : p # f.o => init_refs'[p] = init_refs[p]
    BY <1>1, <1>9 DEF TypeOK
  <2>5. g.at = "template" <=> f.at = "template"
    BY <1>8
  <2> QED
    BY <1>4, <1>8, <1>9, <1>12, <2>2, <2>3, <2>4, <2>5, DroppedWith
<1>16. FrameOK(g)'
  <2>1. Progress(g)'
    BY <1>1, <1>2, <1>8 DEF FrameOK, Progress, AtLevel, PastLevels, Registered
  <2>2. Taken(g)'
    BY <1>1, <1>8, <1>9 DEF Taken, AtLevel, Released, TypeOK
  <2>3. ob_refcnt[w] = n => f.by # "init" /\ wrapper_key'[f.o] = NULL
    BY <1>1, <1>12, <1>13 DEF TypeOK
  <2>4. ob_refcnt[w] # n => wrapper_key'[f.o] = w /\ pyclass'[w] = TypeOf[f.o]
    BY <1>6, <1>13
  <2>5. Meeting(g)'
    <3>1. (g.by = "init" <=> g.self # NULL)'
      BY <1>1, <1>8 DEF FrameOK, Meeting
    <3>2. g.by = "init" => held'[g.self] > 0 /\ pyclass'[g.self] = TypeOf[g.o] /\ wrapper_key'[g.o] = g.self
      BY <1>8, <1>11, <2>3, <2>4
    <3> QED
      BY <1>1, <1>2, <1>8, <3>1, <3>2 DEF Meeting, AtLevel, Released
  <2>6. Owned(g)'
    <3>1. f.by = "new" => ob_refcnt[w] = n
      BY <1>1, <1>3, <1>12 DEF FrameOK, Owned
    <3>2. /\ cref'[f.o] <= MaxRefs /\ (IsFloating(f.o) => floating'[f.o] \/ cref'[f.o] > 0)
          /\ f.by = "new" /\ IsFloating(f.o) => cref'[f.o] = 0
      BY <1>1 DEF FrameOK, Owned
    <3> QED
      BY <1>8, <2>3, <3>1, <3>2 DEF Owned, IsFloating
  <2> QED
    BY <1>1, <1>8, <1>13, <2>1, <2>2, <2>5, <2>6 DEF FrameOK
<1> QED
  BY <1>4, <1>8, <1>9, <1>10, <1>14, <1>15, <1>16, GoesInFrame

LEMMA ConstructedReturnsStep ==
    ASSUME IInv, ConstructedReturns
    PROVE  IInv'
<1>1. PICK f \in Frames : f = Top /\ stack # <<>> /\ f.at = "do_constructed"
  BY TopOK DEF ConstructedReturns
<1>2. FrameOK(f)
  BY DEF IInv
<1>3. Registered(f.o) /\ f.w = wrapper_key[f.o]
  BY <1>1, <1>2 DEF FrameOK, Progress, Meeting
<1>4. Release(f.o, f.w) /\ error' \in BOOLEAN /\ UNCHANGED <<floating, cref, held, construction>>
  BY <1>1 DEF ConstructedReturns
<1> QED
  BY <1>1, <1>3, <1>4, ReleaseStep

LEMMA ConstructedStep ==
    ASSUME IInv, Constructed
    PROVE  IInv'
<1>1. PICK f \in Frames : f = Top /\ stack # <<>> /\ f.at = "constructing"
  BY TopOK DEF Constructed
<1>2. /\ f \in Frame /\ f.o \in Object /\ f.o # NULL /\ f.level \in Nat /\ f.fresh \in BOOLEAN
      /\ f.self \in Wrapper \cup {NULL} /\ Levels[TypeOf[f.o]] \in Nat /\ TypeOK /\ FrameOK(f) /\ ObjectWith(f.o, f)
  BY FrameFacts, WithFrame DEF IInv
<1>3. f.level = Levels[TypeOf[f.o]] /\ ~f.fresh /\ ~Using(f)
  BY <1>1, <1>2 DEF FrameOK, Progress, PastLevels, AtLevel, Using
<1>4. PICK w : w = wrapper_key[f.o]
  OBVIOUS
<1>5. w \in Wrapper \cup {NULL} /\ (w # NULL => obj[w] = f.o)
  BY <1>2, <1>4, Wrapping
<1>6. UNCHANGED <<construction, error>>
  BY DEF Constructed
<1>7. ASSUME NEW at \in {"settled", "do_constructed"}, NEW v \in {w, NULL},
             at = "settled" => ~Registered(f.o) /\ v = NULL,
             at = "do_constructed" => Registered(f.o) /\ v = w,
             Goes([f EXCEPT !.at = at, !.w = v, !.fresh = FALSE, !.floated = FALSE]), UNCHANGED <<ovars, qvars, wvars>>
      PROVE  IInv'
  <2>1. PICK g \in Frame : g = [f EXCEPT !.at = at, !.w = v, !.fresh = FALSE, !.floated = FALSE]
    BY <1>2, <1>5, <1>7 DEF Frame, Step, Hooks
  <2>2. /\ g.o = f.o /\ g.self = f.self /\ g.by = f.by /\ g.at = at /\ g.floated = FALSE
        /\ g.level = f.level /\ g.w = v /\ g.fresh = FALSE /\ g.back = f.back
    BY <1>2, <2>1 DEF Frame
  <2>3. Goes(g)
    BY <1>7, <2>1
  <2>4. TypeOK'
    <3>1. stack' \in Seq(Frame)
      BY <1>1, <1>2, <2>3, Replaced DEF TypeOK
    <3> QED
      BY <1>2, <1>6, <1>7, <3>1 DEF TypeOK, ovars, qvars, wvars
  <2>5. ConstructionOK'
    <3>1. Waiting(g) <=> Waiting(f)
      BY <1>1, <1>2, <1>3, <1>7, <2>2 DEF Waiting, Registered
    <3> QED
      BY <1>1, <1>6, <2>2, <2>3, <3>1, ConstructionGoesOn
  <2>6. Only(f.o, w)
    BY <1>2, <1>4, <1>7, OnlyOwn DEF ovars, qvars, wvars
  <2>7. FrameOK(g)'
    <3>1. Progress(g)'
      BY <1>1, <1>2, <1>3, <1>7, <2>2 DEF FrameOK, Progress, AtLevel, PastLevels, Registered
    <3>2. Meeting(g)'
      BY <1>1, <1>2, <1>3, <1>4, <1>7, <2>2 DEF FrameOK, Meeting, AtLevel, Released, Registered, ovars, qvars, wvars
    <3>3. Taken(g)'
      BY <1>1, <1>2, <1>3, <1>7, <2>2 DEF FrameOK, Taken, AtLevel, Released, Registered, qvars
    <3>4. at = "settled" /\ f.by = "new" => wrapper_key'[f.o] = NULL
      BY <1>2, <1>3, <1>7 DEF FrameOK, Meeting, Registered, qvars
    <3>5. Owned(g)'
      BY <1>1, <1>2, <1>7, <2>2, <3>4 DEF FrameOK, Owned, IsFloating, ovars, qvars, wvars
    <3> QED
      BY <1>2, <1>7, <2>2, <3>1, <3>2, <3>3, <3>5 DEF FrameOK, ovars
  <2>8. ObjectWith(f.o, g)'
    BY <1>1, <1>2, <1>7, <2>2 DEF ObjectWith, Counted, Flag, IsFloating, ovars, qvars, wvars
  <2>9. ASSUME w # NULL PROVE WrapperWith(w, Using(g))'
    <3>1. WrapperWith(w, Using(f)) /\ ~Using(f) /\ ~Using(g)
      BY <1>3, <1>5, <1>7, <2>2, <2>9, OfFrame DEF Using
    <3> QED
      BY <1>7, <3>1 DEF WrapperWith, Using, AtLevel, qvars, wvars
  <2> QED
    BY <1>1, <1>5, <2>2, <2>3, <2>4, <2>5, <2>6, <2>7, <2>8, <2>9, GoesInFrame
<1>8. CASE ~Registered(f.o)
  <2>1. Proceeds("settled") /\ UNCHANGED <<ovars, qvars, wvars>>
    BY <1>1, <1>8 DEF Constructed
  <2> QED
    BY <1>1, <1>7, <1>8, <2>1 DEF Proceeds
<1>9. CASE Registered(f.o)
  <2>1. w # NULL
    BY <1>1, <1>2, <1>3, <1>4, <1>9 DEF FrameOK, Meeting, Released, Registered
  <2>2. CASE error
    <3>1. Release(f.o, w) /\ UNCHANGED <<floating, cref, held>>
      BY <1>1, <1>4, <1>9, <2>1, <2>2 DEF Constructed
    <3>2. error' \in BOOLEAN
      BY <1>2, <1>6 DEF TypeOK
    <3> QED
      BY <1>1, <1>4, <1>6, <1>9, <3>1, <3>2, ReleaseStep
  <2>3. CASE ~error
    <3>1. /\ Goes([f EXCEPT !.at = "do_constructed", !.w = w])
          /\ UNCHANGED <<ovars, qvars, wvars>>
      BY <1>1, <1>4, <1>9, <2>1, <2>3 DEF Constructed
    <3>2. f.floated = FALSE /\ f.fresh = FALSE
      BY <1>1, <1>2, <1>3, FrameFacts DEF FrameOK, Owned
    <3>3. [f EXCEPT !.at = "do_constructed", !.w = w]
          = [f EXCEPT !.at = "do_constructed", !.w = w, !.fresh = FALSE, !.floated = FALSE]
      BY <1>2, <3>2 DEF Frame
    <3> QED
      BY <1>7, <1>9, <3>1, <3>3
  <2> QED
    BY <2>2, <2>3
<1> QED
  BY <1>8, <1>9

(***************************************************************************)
(* References that other code takes and drops.                             *)
(***************************************************************************)
LEMMA StaysInFrame ==
    ASSUME IInv, UNCHANGED <<stack, construction>>, NEW f \in Frames, TypeOK',
           NEW w \in Wrapper \cup {NULL}, Only(f.o, w),
           FrameOK(f)', ObjectWith(f.o, f)', w # NULL => WrapperWith(w, Using(f))'
    PROVE  IInv'
<1>1. Apart' /\ Exchanged(f.o, f) /\ ConstructionOK' /\ f.o \in Object /\ f \in Frame
  BY SameStack, ConstructionSame, FrameFacts DEF IInv, TypeOK
<1> QED
  BY <1>1, InFrame

LEMMA StaysOutside ==
    ASSUME IInv, UNCHANGED <<stack, construction>>, NEW o \in Object \cup {NULL}, \A f \in Frames : f.o # o, TypeOK',
           NEW w \in Wrapper \cup {NULL}, Only(o, w),
           o # NULL => ObjectWithout(o)', w # NULL => WrapperWith(w, FALSE)'
    PROVE  IInv'
<1>1. Apart' /\ Removed(o) /\ ConstructionOK'
  BY SameStack, ConstructionSame DEF IInv, TypeOK, Removed
<1> QED
  BY <1>1, InNoFrame

LEMMA AllocStep ==
    ASSUME IInv, NEW w \in Wrapper, NEW c \in Class, Alloc(w, c)
    PROVE  IInv'
<1>1. /\ ob_refcnt[w] = 0 /\ ob_refcnt' = [ob_refcnt EXCEPT ![w] = 1] /\ held' = [held EXCEPT ![w] = 1]
      /\ pyclass' = [pyclass EXCEPT ![w] = c]
      /\ UNCHANGED <<ovars, qvars, obj, construction, error, stack>> /\ TypeOK
  BY DEF Alloc, IInv
<1>2. obj[w] = NULL /\ held[w] = 0 /\ \A f \in Frames : f.self # w
  BY <1>1, Free
<1>3. TypeOK'
  BY <1>1 DEF TypeOK, ovars, qvars
<1>4. Only(NULL, w)
  BY <1>1, <1>2, ConstructionAssumption DEF Only, TypeOK, ovars, qvars
<1>5. WrapperWith(w, FALSE)'
  <2>1. obj'[w] = NULL /\ ob_refcnt'[w] = 1 /\ held'[w] = 1
    BY <1>1, <1>2 DEF TypeOK
  <2> QED
    BY <2>1 DEF WrapperWith, Flag
<1>6. \A f \in Frames : f.o # NULL
  BY <1>1, FrameFacts
<1> QED
  BY <1>1, <1>3, <1>4, <1>5, <1>6, StaysOutside

LEMMA AdoptStep ==
    ASSUME IInv, ~KeptByNew, NEW o \in Object, Adopt(o)
    PROVE  IInv'
<1>1. /\ state[o] = "making" /\ (IsFloating(o) => MayKeep(o)) /\ cref[o] < MaxRefs
      /\ cref' = [cref EXCEPT ![o] = @ + 1] /\ ref_count' = [ref_count EXCEPT ![o] = @ + Flag(~floating[o])]
      /\ floating' = [floating EXCEPT ![o] = FALSE]
      /\ UNCHANGED <<state, qvars, wvars, construction, error, stack>> /\ TypeOK
  BY DEF Adopt, IInv
<1>2. PICK f \in Frames : f.o = o
  BY <1>1 DEF IInv, ObjectOK
<1>3. FrameOK(f) /\ ObjectWith(o, f) /\ (IsFloating(o) => f.by # "new") /\ f.floated \in BOOLEAN
  BY <1>1, <1>2, WithFrame, FrameFacts DEF MayKeep
<1>4. cref[o] \in Nat /\ cref[o] + 1 \in 0 .. MaxRefs + 1 /\ ref_count[o] \in Nat
  BY <1>1, ConstructionAssumption DEF TypeOK
<1>5. TypeOK'
  BY <1>1, <1>4 DEF TypeOK, qvars, wvars, Flag
<1>6. PICK w : w = wrapper_key[o]
  OBVIOUS
<1>7. Only(o, w) /\ w \in Wrapper \cup {NULL}
  BY <1>1, <1>6, OnlyOwn DEF TypeOK, qvars, wvars
<1>8. cref'[o] = cref[o] + 1 /\ floating'[o] = FALSE /\ ref_count'[o] = ref_count[o] + Flag(~floating[o])
  BY <1>1 DEF TypeOK
<1>9. FrameOK(f)'
  <2>1. Progress(f)'
    BY <1>3 DEF FrameOK, Progress, AtLevel, PastLevels, Registered
  <2>2. Meeting(f)'
    BY <1>1, <1>3 DEF FrameOK, Meeting, AtLevel, Released, Registered, qvars, wvars
  <2>3. Taken(f)'
    BY <1>1, <1>3 DEF FrameOK, Taken, AtLevel, Released, qvars
  <2>4. cref'[o] <= MaxRefs /\ cref'[o] > 0
    BY <1>1, <1>4, <1>8, ConstructionAssumption
  <2>5. Owned(f)'
    BY <1>1, <1>2, <1>3, <1>8, <2>4 DEF FrameOK, Owned, IsFloating, qvars, wvars
  <2> QED
    BY <1>1, <1>2, <1>3, <2>1, <2>2, <2>3, <2>5 DEF FrameOK
<1>10. ObjectWith(o, f)'
  BY <1>1, <1>3, <1>4, <1>8 DEF ObjectWith, Counted, Flag, IsFloating, qvars, wvars
<1>11. ASSUME w # NULL PROVE WrapperWith(w, Using(f))'
  <2>1. WrapperWith(w, Using(f))
    BY <1>2, <1>6, <1>7, <1>11, Wrapping, OfFrame
  <2> QED
    BY <1>1, <2>1 DEF WrapperWith, Using, AtLevel, qvars, wvars
<1> QED
  BY <1>1, <1>2, <1>5, <1>7, <1>9, <1>10, <1>11, StaysInFrame

LEMMA AbandonStep ==
    ASSUME IInv, NEW o \in Object, Abandon(o)
    PROVE  IInv'
<1>1. /\ state[o] = "making" /\ cref[o] > Flag(IsFloating(o) /\ ~floating[o])
      /\ cref' = [cref EXCEPT ![o] = @ - 1] /\ ref_count' = [ref_count EXCEPT ![o] = @ - 1]
      /\ UNCHANGED <<state, floating, qvars, wvars, construction, error, stack>> /\ TypeOK
  BY DEF Abandon, IInv
<1>2. PICK f \in Frames : f.o = o
  BY <1>1 DEF IInv, ObjectOK
<1>3. FrameOK(f) /\ ObjectWith(o, f)
  BY <1>2, WithFrame
<1>4. cref[o] \in Nat /\ cref[o] > 0 /\ cref[o] - 1 \in 0 .. MaxRefs + 1 /\ ref_count[o] \in Nat
  <2>1. cref[o] \in 0 .. MaxRefs + 1 /\ ref_count[o] \in Nat
    BY <1>1 DEF TypeOK
  <2>2. cref[o] > 0
    BY <1>1, <2>1 DEF Flag
  <2> QED
    BY <2>1, <2>2, ConstructionAssumption
<1>5. ref_count[o] - 1 \in Nat
  BY <1>3, <1>4 DEF ObjectWith, Counted, Flag
<1>6. TypeOK'
  BY <1>1, <1>4, <1>5 DEF TypeOK, qvars, wvars
<1>7. PICK w : w = wrapper_key[o]
  OBVIOUS
<1>8. Only(o, w) /\ w \in Wrapper \cup {NULL}
  BY <1>1, <1>7, OnlyOwn DEF TypeOK, qvars, wvars
<1>9. cref'[o] = cref[o] - 1 /\ ref_count'[o] = ref_count[o] - 1
  BY <1>1 DEF TypeOK
<1>10. FrameOK(f)'
  <2>1. Progress(f)'
    BY <1>3 DEF FrameOK, Progress, AtLevel, PastLevels, Registered
  <2>2. Meeting(f)'
    BY <1>1, <1>3 DEF FrameOK, Meeting, AtLevel, Released, Registered, qvars, wvars
  <2>3. Taken(f)'
    BY <1>1, <1>3 DEF FrameOK, Taken, AtLevel, Released, qvars
  <2>4. cref'[o] <= MaxRefs /\ (IsFloating(o) /\ ~floating[o] => cref'[o] > 0)
    BY <1>1, <1>2, <1>3, <1>4, <1>9, ConstructionAssumption DEF FrameOK, Owned, Flag
  <2>5. f.by = "new" => ~IsFloating(o)
    BY <1>2, <1>3, <1>4 DEF FrameOK, Owned
  <2>6. Owned(f)'
    BY <1>1, <1>2, <1>3, <2>4, <2>5 DEF FrameOK, Owned, IsFloating, qvars, wvars
  <2> QED
    BY <1>1, <1>2, <1>3, <2>1, <2>2, <2>3, <2>6 DEF FrameOK
<1>11. ObjectWith(o, f)'
  BY <1>1, <1>3, <1>4, <1>9 DEF ObjectWith, Counted, Flag, IsFloating, qvars, wvars
<1>12. ASSUME w # NULL PROVE WrapperWith(w, Using(f))'
  <2>1. WrapperWith(w, Using(f))
    BY <1>2, <1>7, <1>8, <1>12, Wrapping, OfFrame
  <2> QED
    BY <1>1, <2>1 DEF WrapperWith, Using, AtLevel, qvars, wvars
<1> QED
  BY <1>1, <1>2, <1>6, <1>8, <1>10, <1>11, <1>12, StaysInFrame

\* Python gets the object while it is constructed.
LEMMA HandedStep ==
    ASSUME IInv, ~EarlyUse, ~KeptByNew, NEW o \in Object, NEW w \in Wrapper, Handed(o, w)
    PROVE  IInv'
<1>1. /\ state[o] = "making" /\ MayKeep(o) /\ ~Early(o) /\ held' = [held EXCEPT ![w] = @ + 1]
      /\ UNCHANGED <<state, cref, init_refs, construction, error, stack>> /\ TypeOK
  BY DEF Handed, IInv
<1>2. PICK f \in Frames : f.o = o
  BY <1>1 DEF IInv, ObjectOK
<1>3. /\ f \in Frame /\ f.level \in Nat /\ f.fresh \in BOOLEAN /\ f.by \in {"init", "new", "c"} /\ f.by # "new"
      /\ f.at \in Step /\ Levels[TypeOf[o]] \in Nat /\ FrameOK(f) /\ ObjectWith(o, f)
  BY <1>1, <1>2, WithFrame, FrameFacts DEF MayKeep
<1>4. Progress(f)'
  BY <1>3 DEF FrameOK, Progress, AtLevel, PastLevels, Registered
<1>5. Taken(f)'
  BY <1>1, <1>3 DEF FrameOK, Taken, AtLevel, Released
<1>6. w # NULL /\ held[w] \in Nat /\ held'[w] = held[w] + 1 /\ held' \in [Wrapper -> Nat]
  BY <1>1, ConstructionAssumption DEF TypeOK
<1>7. \A v \in Wrapper : held[v] > 0 => held'[v] > 0
  BY <1>1, <1>6 DEF TypeOK
<1>8. CASE wrapper_key[o] = w
  <2>1. /\ ob_refcnt' = [ob_refcnt EXCEPT ![w] = @ + 1]
        /\ UNCHANGED <<obj, pyclass, wrapper_key, ref_count, floating>>
    BY <1>6, <1>8 DEF Handed
  <2>2. obj[w] = o
    BY <1>6, <1>8, Wrapping
  <2>3. ob_refcnt[w] \in Nat /\ ob_refcnt'[w] = ob_refcnt[w] + 1 /\ ob_refcnt' \in [Wrapper -> Nat]
    BY <1>1, <2>1 DEF TypeOK
  <2>4. TypeOK'
    BY <1>1, <1>6, <2>1, <2>3 DEF TypeOK
  <2>5. Only(o, w)
    BY <1>1, <1>8, <2>1, OnlyOwn DEF TypeOK
  <2>6. Meeting(f)'
    <3>1. f.by = "init" => f.self \in Wrapper
      BY <1>2, <1>3, FrameFacts DEF IInv, FrameOK, Meeting
    <3> QED
      BY <1>1, <1>3, <1>7, <2>1, <3>1 DEF FrameOK, Meeting, AtLevel, Released, Registered
  <2>7. Owned(f)'
    BY <1>1, <1>3, <2>1 DEF FrameOK, Owned, IsFloating
  <2>8. FrameOK(f)'
    BY <1>1, <1>2, <1>4, <1>5, <2>6, <2>7 DEF FrameOK
  <2>9. ObjectWith(o, f)'
    BY <1>1, <1>3, <2>1 DEF ObjectWith, Counted, Flag, IsFloating
  <2>10. WrapperWith(w, Using(f))'
    <3>1. /\ pyclass[w] = TypeOf[o] /\ init_refs[o] \in Nat
          /\ ob_refcnt[w] = held[w] + init_refs[o] + (IF Using(f) THEN 1 ELSE 0)
      BY <1>2, <2>2, WrapperNow
    <3>2. obj'[w] = o /\ wrapper_key'[o] = w /\ pyclass'[w] = TypeOf[o] /\ init_refs'[o] \in Nat
      BY <1>1, <1>8, <2>1, <2>2, <3>1
    <3>3. ob_refcnt'[w] \in Nat /\ held'[w] \in Nat /\ ob_refcnt'[w] > 0
      BY <1>6, <2>3
    <3>4. ob_refcnt'[w] = held'[w] + init_refs'[o] + (IF Using(f) THEN 1 ELSE 0)
      BY <1>1, <1>6, <2>3, <3>1
    <3> QED
      BY <1>3, <3>2, <3>3, <3>4, WrapperNext
  <2> QED
    BY <1>1, <1>2, <2>4, <2>5, <2>8, <2>9, <2>10, StaysInFrame
<1>9. CASE wrapper_key[o] # w
  <2>1. /\ wrapper_key[o] = NULL /\ Wraps(w, o) /\ floating' = [floating EXCEPT ![o] = FALSE]
        /\ ref_count' = [ref_count EXCEPT ![o] = @ + Flag(~floating[o])]
    BY <1>9 DEF Handed
  <2>2. /\ ob_refcnt[w] = 0 /\ ob_refcnt' = [ob_refcnt EXCEPT ![w] = 1] /\ pyclass' = [pyclass EXCEPT ![w] = TypeOf[o]]
        /\ obj' = [obj EXCEPT ![w] = o] /\ wrapper_key' = [wrapper_key EXCEPT ![o] = w]
    BY <2>1 DEF Wraps, ClassOf
  <2>3. obj[w] = NULL /\ held[w] = 0 /\ \A h \in Frames : h.self # w
    BY <2>2, Free
  <2>4. f.by = "c" /\ ~floating[o] /\ (Registered(o) => f.at # "ancestors")
    BY <1>1, <1>2, <1>3, <2>1 DEF Early
  <2>5. UNCHANGED floating /\ ref_count' = [ref_count EXCEPT ![o] = @ + 1]
    BY <1>1, <2>1, <2>4 DEF TypeOK, Flag
  <2>6. ~AtLevel(f) /\ ~Using(f) /\ init_refs[o] = 0 /\ (f.level = 0 => ~Registered(o)) /\ f.at \notin {"setter", "do_constructed"}
    <3>1. ~AtLevel(f) /\ f.at \notin {"setter", "do_constructed"} /\ (f.level > 0 => Released(f))
      BY <1>2, <1>3, <2>1, FrameFacts DEF FrameOK, Meeting
    <3>2. init_refs[o] = 0
      BY <1>2, <1>3, <3>1 DEF FrameOK, Taken
    <3>3. f.level = 0 => ~Registered(o)
      BY <1>2, <1>3, <2>4, <3>1 DEF FrameOK, Progress, Step, Hooks, PastLevels, AtLevel, Registered
    <3> QED
      BY <3>1, <3>2, <3>3 DEF Using
  <2>7. TypeOK'
    <3>1. TypeOf[o] \in Class /\ ref_count[o] + 1 \in Nat /\ 1 \in Nat
      BY <1>1, ConstructionAssumption DEF TypeOK
    <3> QED
      BY <1>1, <1>6, <2>2, <2>5, <3>1 DEF TypeOK
  <2>8. Only(o, w)
    BY <1>1, <2>1, <2>2, <2>3, <2>5, OnlyBinds DEF TypeOK
  <2>9. wrapper_key'[o] = w /\ obj'[w] = o /\ ref_count'[o] = ref_count[o] + 1 /\ pyclass'[w] = TypeOf[o] /\ ob_refcnt'[w] = 1
    BY <1>1, <2>2, <2>5 DEF TypeOK
  <2>10. FrameOK(f)'
    <3>1. Meeting(f)'
      BY <1>2, <1>3, <1>6, <2>4, <2>6, <2>9 DEF FrameOK, Meeting, AtLevel, Registered
    <3>2. Owned(f)'
      BY <1>1, <1>2, <1>3, <2>5 DEF FrameOK, Owned, IsFloating
    <3> QED
      BY <1>1, <1>2, <1>4, <1>5, <3>1, <3>2 DEF FrameOK
  <2>11. ObjectWith(o, f)'
    <3>1. /\ cref[o] \in Nat
          /\ ref_count[o] = cref[o] + Flag(floating[o]) + Flag(~IsFloating(o)) + Flag(f.at = "template")
      BY <1>1, <1>3, <2>1 DEF ObjectWith, Counted, Flag, TypeOK
    <3>2. /\ cref'[o] \in Nat
          /\ ref_count'[o] = cref'[o] + Flag(floating'[o]) + 1 + Flag(~IsFloating(o)) + Flag(f.at = "template")
      BY <1>1, <2>5, <2>9, <3>1 DEF Flag
    <3>3. Counted(o, f.by = "init", TRUE, f.at = "template")'
      BY <1>6, <2>4, <2>9, <3>2 DEF Counted, Flag, IsFloating
    <3> QED
      BY <1>1, <1>3, <2>5, <2>9, <3>3 DEF ObjectWith, IsFloating
  <2>12. WrapperWith(w, Using(f))'
    <3>1. held'[w] = 1 /\ init_refs'[o] = 0
      BY <1>1, <1>6, <2>3, <2>6
    <3>2. held'[w] \in Nat /\ init_refs'[o] \in Nat /\ ob_refcnt'[w] \in Nat /\ ob_refcnt'[w] > 0
      BY <2>9, <3>1
    <3>3. ob_refcnt'[w] = held'[w] + init_refs'[o] + (IF Using(f) THEN 1 ELSE 0)
      BY <2>6, <2>9, <3>1
    <3> QED
      BY <1>3, <2>9, <3>2, <3>3, WrapperNext
  <2> QED
    BY <1>1, <1>2, <2>7, <2>8, <2>10, <2>11, <2>12, StaysInFrame
<1> QED
  BY <1>8, <1>9

\* Python drops the wrapper of an object under construction.
LEMMA DropUnfinished ==
    ASSUME IInv, NEW w \in Wrapper, Drop(w), NEW f \in Frames, obj[w] = f.o
    PROVE  IInv'
<1>1. /\ held[w] > Flag(\E h \in Frames : h.self = w) /\ held' = [held EXCEPT ![w] = @ - 1] /\ Decref(w, 1)
      /\ UNCHANGED <<floating, cref, init_refs, construction, error, stack>> /\ TypeOK
  BY DEF Drop, IInv
<1>2. /\ f \in Frame /\ f.o \in Object /\ f.o # NULL /\ f.level \in Nat /\ f.fresh \in BOOLEAN /\ f.by \in {"init", "new", "c"}
      /\ f.at \in Step /\ f.self \in Wrapper \cup {NULL} /\ Levels[TypeOf[f.o]] \in Nat /\ FrameOK(f)
  BY <1>1, FrameFacts DEF IInv
<1>3. /\ wrapper_key[f.o] = w /\ pyclass[w] = TypeOf[f.o] /\ w # NULL
      /\ ob_refcnt[w] \in Nat /\ held[w] \in Nat /\ init_refs[f.o] \in Nat
      /\ ob_refcnt[w] = held[w] + init_refs[f.o] + (IF Using(f) THEN 1 ELSE 0)
  BY WrapperNow, ConstructionAssumption
<1>4. held[w] > 0 /\ held[w] - 1 \in Nat /\ held'[w] = held[w] - 1
  BY <1>1, <1>3 DEF TypeOK, Flag
<1>5. f.by = "init" => f.level > 0 /\ f.self = w /\ held[w] > 1
  <2> HAVE f.by = "init"
  <2>1. f.level > 0 /\ f.self = w
    BY <1>2, <1>3 DEF FrameOK, Meeting
  <2> QED
    BY <1>1, <1>3, <2>1 DEF Flag
<1>6. f.by # "new"
  BY <1>2, <1>3, <1>4 DEF FrameOK, Owned
<1>7. 1 \in Nat /\ 1 <= ob_refcnt[w] /\ (f.by = "init" => 1 < ob_refcnt[w])
  BY <1>3, <1>4, <1>5
<1>8. /\ state' = state /\ ob_refcnt' = [ob_refcnt EXCEPT ![w] = @ - 1] /\ ob_refcnt[w] - 1 \in Nat
      /\ IF ob_refcnt[w] = 1
         THEN /\ obj' = [obj EXCEPT ![w] = NULL] /\ wrapper_key' = [wrapper_key EXCEPT ![f.o] = NULL]
              /\ pyclass' = [pyclass EXCEPT ![w] = NULL]
              /\ ref_count' = [ref_count EXCEPT ![f.o] = @ - 1] /\ ref_count[f.o] - 1 \in Nat
         ELSE UNCHANGED <<obj, wrapper_key, pyclass, ref_count>>
  BY <1>1, <1>7, Dropped
<1>9. TypeOK'
  <2>1. CASE ob_refcnt[w] = 1
    BY <1>1, <1>2, <1>4, <1>8, <2>1 DEF TypeOK
  <2>2. CASE ob_refcnt[w] # 1
    BY <1>1, <1>2, <1>4, <1>8, <2>2 DEF TypeOK
  <2> QED
    BY <2>1, <2>2
<1>10. Only(f.o, w) /\ ObjectWith(f.o, f)' /\ WrapperWith(w, Using(f))'
  <2>1. ob_refcnt[w] - 1 = held'[w] + init_refs'[f.o] + (IF Using(f) THEN 1 ELSE 0)
    BY <1>1, <1>3, <1>4
  <2>2. init_refs'[f.o] \in Nat /\ held'[w] \in Nat
    BY <1>1, <1>3, <1>4
  <2>3. \A v \in Wrapper : v # w => held'[v] = held[v]
    BY <1>1 DEF TypeOK
  <2> QED
    BY <1>1, <1>2, <1>7, <2>1, <2>2, <2>3, DroppedWith
\* Nothing that still needs the wrapper loses it.
<1>11. ob_refcnt[w] = 1 => /\ ~(AtLevel(f) \/ f.at \in {"setter", "do_constructed"})
                           /\ (f.level = 0 \/ Released(f)) /\ f.by # "init" /\ wrapper_key'[f.o] = NULL
  <2> HAVE ob_refcnt[w] = 1
  <2>1. f.by # "init" /\ init_refs[f.o] = 0 /\ ~Using(f)
    BY <1>3, <1>4, <1>7
  <2>2. f.level > 0 /\ ~Released(f) => AtLevel(f) /\ f.fresh
    BY <1>2, <2>1 DEF FrameOK, Taken
  <2>3. f.level = 0 \/ Released(f)
    BY <1>2, <2>1, <2>2 DEF Using
  <2>4. ~AtLevel(f) /\ f.at # "setter" /\ f.at # "do_constructed"
    BY <1>2, <2>1, <2>3 DEF FrameOK, Progress, AtLevel, PastLevels, Released, Using, Registered
  <2>5. wrapper_key' = [wrapper_key EXCEPT ![f.o] = NULL]
    BY <1>8
  <2>6. wrapper_key'[f.o] = NULL
    BY <1>1, <1>2, <2>5 DEF TypeOK
  <2> QED
    BY <2>1, <2>3, <2>4, <2>6
<1>12. FrameOK(f)'
  <2>1. Progress(f)'
    BY <1>2 DEF FrameOK, Progress, AtLevel, PastLevels, Registered
  <2>2. Taken(f)'
    BY <1>1, <1>2 DEF FrameOK, Taken, AtLevel, Released
  <2>3. Owned(f)'
    BY <1>1, <1>2, <1>6 DEF FrameOK, Owned, IsFloating
  <2>4. Meeting(f)'
    <3>1. CASE ob_refcnt[w] = 1
      BY <1>2, <1>11, <3>1 DEF FrameOK, Meeting, AtLevel, Released
    <3>2. CASE ob_refcnt[w] # 1
      <4>1. wrapper_key'[f.o] = w /\ obj' = obj /\ pyclass' = pyclass
        BY <1>3, <1>8, <3>2
      <4>2. f.by = "init" => held'[f.self] > 0 /\ pyclass'[f.self] = TypeOf[f.o] /\ wrapper_key'[f.o] = f.self /\ f.level # 0
        BY <1>2, <1>3, <1>4, <1>5, <4>1
      <4> QED
        BY <1>2, <1>3, <4>1, <4>2 DEF FrameOK, Meeting, AtLevel, Released, Registered
    <3> QED
      BY <3>1, <3>2
  <2> QED
    BY <1>2, <1>8, <2>1, <2>2, <2>3, <2>4 DEF FrameOK
<1> QED
  BY <1>1, <1>9, <1>10, <1>12, StaysInFrame

\* Python drops the wrapper of a finished object.
LEMMA DropFinished ==
    ASSUME IInv, NEW w \in Wrapper, Drop(w), obj[w] # NULL, \A f \in Frames : f.o # obj[w]
    PROVE  IInv'
<1>1. /\ held[w] > Flag(\E h \in Frames : h.self = w) /\ held' = [held EXCEPT ![w] = @ - 1] /\ Decref(w, 1)
      /\ UNCHANGED <<floating, cref, init_refs, construction, error, stack>> /\ TypeOK
  BY DEF Drop, IInv
<1>2. PICK o \in Object : obj[w] = o
  BY <1>1 DEF TypeOK
<1>3. state[o] # "making" /\ wrapper_key[o] = w /\ w # NULL /\ o # NULL /\ pyclass[w] = TypeOf[o]
  BY <1>2, ConstructionAssumption DEF IInv, ObjectOK, WrapperOK
<1>4. ObjectWithout(o) /\ WrapperWith(w, FALSE)
  BY <1>2, <1>3, WithoutFrame, OfNone
<1>5. /\ cref[o] \in Nat /\ ref_count[o] \in Nat /\ ob_refcnt[w] \in Nat /\ held[w] \in Nat
      /\ ref_count[o] = cref[o] + Flag(floating[o]) + 1 /\ init_refs[o] = 0
      /\ ob_refcnt[w] = held[w] /\ state[o] # "absent"
  <2>1. /\ cref[o] \in Nat /\ ref_count[o] \in Nat /\ ob_refcnt[w] \in Nat /\ held[w] \in Nat
    BY <1>1 DEF TypeOK
  <2>2. ref_count[o] = cref[o] + Flag(floating[o]) + 1
    BY <1>3, <1>4, <2>1 DEF ObjectWithout, Counted, Flag
  <2>3. init_refs[o] = 0 /\ state[o] # "absent"
    BY <1>3, <1>4 DEF ObjectWithout
  <2>4. ob_refcnt[w] = held[w]
    BY <1>2, <1>3, <1>4, <2>1, <2>3 DEF WrapperWith, Flag
  <2> QED
    BY <2>1, <2>2, <2>3, <2>4
<1>6. held[w] > 0 /\ held[w] - 1 \in Nat /\ held'[w] = held[w] - 1 /\ held' \in [Wrapper -> Nat]
  BY <1>1, <1>5 DEF TypeOK, Flag
<1>7. ob_refcnt' = [ob_refcnt EXCEPT ![w] = @ - 1] /\ ob_refcnt[w] - 1 \in Nat /\ ob_refcnt'[w] = ob_refcnt[w] - 1
  BY <1>1, <1>5, <1>6 DEF Decref, TypeOK
<1>8. \A f \in Frames : f.self # w
  BY <1>2, <1>3, Wrapping
<1>9. CASE ob_refcnt[w] = 1
  <2>1. /\ obj' = [obj EXCEPT ![w] = NULL] /\ wrapper_key' = [wrapper_key EXCEPT ![o] = NULL]
        /\ pyclass' = [pyclass EXCEPT ![w] = NULL] /\ ref_count' = [ref_count EXCEPT ![o] = @ - 1]
        /\ state' = [state EXCEPT ![o] = IF ref_count[o] = 1 THEN "gone" ELSE @]
    BY <1>1, <1>2, <1>3, <1>9 DEF Decref
  <2>2. /\ obj'[w] = NULL /\ wrapper_key'[o] = NULL /\ ref_count'[o] = ref_count[o] - 1 /\ ref_count[o] - 1 \in Nat
        /\ state'[o] \in {state[o], "gone"}
    BY <1>1, <1>5, <2>1 DEF TypeOK, Flag
  <2>3. TypeOK'
    <3>1. state' \in [Object -> {"absent", "making", "made", "gone"}]
      BY <1>1, <2>1 DEF TypeOK
    <3> QED
      BY <1>1, <1>6, <1>7, <2>1, <2>2, <3>1 DEF TypeOK
  <2>4. Only(o, w)
    BY <1>1, <1>2, <1>3, <1>7, <1>8, <2>1, <2>2 DEF Only, TypeOK
  <2>5. ObjectWithout(o)'
    <3>1. Counted(o, FALSE, FALSE, FALSE)'
      BY <1>1, <1>5, <2>2 DEF Counted, Flag
    <3> QED
      BY <1>1, <1>3, <1>4, <1>5, <2>2, <3>1 DEF ObjectWithout, IsFloating
  <2>6. WrapperWith(w, FALSE)'
    <3>1. ob_refcnt'[w] = 0 /\ held'[w] = 0
      BY <1>5, <1>6, <1>7, <1>9
    <3> QED
      BY <2>2, <3>1 DEF WrapperWith, Flag
  <2> QED
    BY <1>1, <1>2, <2>3, <2>4, <2>5, <2>6, StaysOutside
<1>10. CASE ob_refcnt[w] # 1
  <2>1. UNCHANGED <<wrapper_key, ref_count, state, obj>> /\ pyclass' = [pyclass EXCEPT ![w] = @]
    BY <1>1, <1>10 DEF Decref
  <2>2. pyclass' = pyclass
    BY <1>1, <2>1 DEF TypeOK
  <2>3. TypeOK'
    BY <1>1, <1>6, <1>7, <2>1, <2>2 DEF TypeOK
  <2>4. Only(o, w)
    BY <1>1, <1>2, <1>3, <1>7, <1>8, <2>1, <2>2 DEF Only, TypeOK
  <2>5. ObjectWithout(o)'
    BY <1>1, <1>4, <2>1 DEF ObjectWithout, Counted, Flag, IsFloating
  <2>6. WrapperWith(w, FALSE)'
    <3>1. ob_refcnt'[w] = held'[w] /\ ob_refcnt'[w] > 0 /\ ob_refcnt'[w] \in Nat /\ held'[w] \in Nat
      BY <1>5, <1>6, <1>7, <1>10
    <3>2. obj'[w] = o /\ o # NULL /\ wrapper_key'[o] = w /\ pyclass'[w] = TypeOf[o] /\ init_refs'[o] = 0
      BY <1>1, <1>2, <1>3, <1>5, <2>1, <2>2
    <3> QED
      BY <3>1, <3>2 DEF WrapperWith, Flag
  <2> QED
    BY <1>1, <1>2, <2>3, <2>4, <2>5, <2>6, StaysOutside
<1> QED
  BY <1>9, <1>10

\* Python drops an instance that has no object, or none yet.
LEMMA DropEmpty ==
    ASSUME IInv, NEW w \in Wrapper, Drop(w), obj[w] = NULL
    PROVE  IInv'
<1>1. /\ held[w] > Flag(\E h \in Frames : h.self = w) /\ held' = [held EXCEPT ![w] = @ - 1]
      /\ ob_refcnt' = [ob_refcnt EXCEPT ![w] = @ - 1]
      /\ pyclass' = [pyclass EXCEPT ![w] = IF ob_refcnt[w] = 1 THEN NULL ELSE @]
      /\ UNCHANGED <<wrapper_key, ref_count, state, obj>>
      /\ UNCHANGED <<floating, cref, init_refs, construction, error, stack>> /\ TypeOK /\ w # NULL
  BY ConstructionAssumption DEF Drop, Decref, IInv
<1>2. ob_refcnt[w] \in Nat /\ held[w] \in Nat /\ ob_refcnt[w] = held[w] + 0
  <2>1. ob_refcnt[w] \in Nat /\ held[w] \in Nat /\ WrapperOK(w)
    BY <1>1 DEF TypeOK, IInv
  <2>2. ~Used(w)
    BY DEF Used
  <2> QED
    BY <2>1, <2>2 DEF WrapperOK, Flag
<1>3. held[w] > 0 /\ held[w] - 1 \in Nat /\ ob_refcnt[w] - 1 \in Nat /\ held[w] - 1 = ob_refcnt[w] - 1
  BY <1>1, <1>2 DEF Flag
<1>4. held'[w] = held[w] - 1 /\ ob_refcnt'[w] = ob_refcnt[w] - 1
  BY <1>1 DEF TypeOK
<1>5. TypeOK'
  BY <1>1, <1>3 DEF TypeOK
<1>6. CASE \E f \in Frames : f.self = w
  <2>1. PICK f \in Frames : f.self = w
    BY <1>6
  <2>2. /\ f \in Frame /\ f.o \in Object /\ f.level \in Nat /\ f.fresh \in BOOLEAN /\ f.by = "init"
        /\ FrameOK(f) /\ ObjectWith(f.o, f) /\ Levels[TypeOf[f.o]] \in Nat
    BY <1>1, <2>1, FrameFacts, WithFrame DEF FrameOK, Meeting
  <2>3. held[w] > 1 /\ held'[w] > 0 /\ ob_refcnt[w] # 1
    BY <1>1, <1>2, <1>4, <2>1 DEF Flag
  <2>4. pyclass' = pyclass
    BY <1>1, <2>3 DEF TypeOK
  <2>5. wrapper_key[f.o] = NULL
    <3>1. wrapper_key[f.o] # w
      BY <1>1, <2>2, Wrapping
    <3> QED
      BY <2>1, <2>2, <3>1 DEF FrameOK, Meeting
  <2>6. Only(f.o, w)
    <3>1. \A h \in Frames : h.self = w => h.o = f.o
      BY <1>1, <2>1, OneFrame DEF IInv, TypeOK
    <3> QED
      BY <1>1, <2>4, <2>5, <3>1 DEF Only, TypeOK
  <2>7. FrameOK(f)'
    <3>1. Progress(f)'
      BY <2>2 DEF FrameOK, Progress, AtLevel, PastLevels, Registered
    <3>2. Meeting(f)'
      BY <1>1, <2>1, <2>2, <2>3, <2>4 DEF FrameOK, Meeting, AtLevel, Released, Registered
    <3>3. Taken(f)'
      BY <1>1, <2>2 DEF FrameOK, Taken, AtLevel, Released
    <3>4. Owned(f)'
      BY <1>1, <2>2 DEF FrameOK, Owned, IsFloating
    <3> QED
      BY <1>1, <2>2, <3>1, <3>2, <3>3, <3>4 DEF FrameOK
  <2>8. ObjectWith(f.o, f)'
    BY <1>1, <2>2 DEF ObjectWith, Counted, Flag, IsFloating
  <2>9. WrapperWith(w, Using(f))'
    BY <1>1, <1>2, <1>3, <1>4 DEF WrapperWith, Flag
  <2> QED
    BY <1>1, <1>5, <2>6, <2>7, <2>8, <2>9, StaysInFrame
<1>7. CASE ~\E f \in Frames : f.self = w
  <2>1. Only(NULL, w)
    BY <1>1, <1>7, ConstructionAssumption DEF Only, TypeOK
  <2>2. WrapperWith(w, FALSE)'
    BY <1>1, <1>2, <1>3, <1>4 DEF WrapperWith, Flag
  <2>3. \A f \in Frames : f.o # NULL
    BY <1>1, FrameFacts
  <2> QED
    BY <1>1, <1>5, <2>1, <2>2, <2>3, StaysOutside
<1> QED
  BY <1>6, <1>7

LEMMA DropStep ==
    ASSUME IInv, NEW w \in Wrapper, Drop(w)
    PROVE  IInv'
<1>1. CASE obj[w] = NULL
  BY <1>1, DropEmpty
<1>2. CASE obj[w] # NULL /\ \A f \in Frames : f.o # obj[w]
  BY <1>2, DropFinished
<1>3. CASE \E f \in Frames : f.o = obj[w]
  BY <1>3, DropUnfinished
<1> QED
  BY <1>1, <1>2, <1>3

(***************************************************************************)
(* Beginnings and ends.                                                    *)
(***************************************************************************)
LEMMA BeginStep ==
    ASSUME IInv, ~EarlyUse, NEW by \in {"init", "new", "c"}, NEW o \in Object, NEW self \in Wrapper \cup {NULL},
           Begin(by, o, self), by = "init" <=> self # NULL, by = "new" \/ by = "c" \/ construction' = self,
           by = "init" \/ construction' = construction,
           self # NULL => obj[self] = NULL /\ held[self] > 0 /\ pyclass[self] = TypeOf[o] /\ \A f \in Frames : f.self # self
    PROVE  IInv'
<1>1. /\ state[o] = "absent" /\ Undisturbed(by, o)
      /\ state' = [state EXCEPT ![o] = "making"] /\ ref_count' = [ref_count EXCEPT ![o] = 1]
      /\ floating' = [floating EXCEPT ![o] = IsFloating(o)]
      /\ UNCHANGED <<cref, qvars, wvars, error>> /\ TypeOK
  BY DEF Begin, IInv
<1>2. PICK g \in Frame : g = [by |-> by, o |-> o, self |-> self, at |-> "ancestors", level |-> 0,
                              w |-> NULL, fresh |-> FALSE, floated |-> FALSE, back |-> "settled"]
  BY DEF Frame, Step
<1>3. /\ g.o = o /\ g.self = self /\ g.by = by /\ g.at = "ancestors" /\ g.floated = FALSE
      /\ g.level = 0 /\ g.w = NULL /\ g.fresh = FALSE
  BY <1>2
<1>4. stack' = Append(stack, g)
  BY <1>2 DEF Begin
<1>5. /\ ObjectWithout(o) /\ \A f \in Frames : f.o # o
      /\ cref[o] = 0 /\ ~floating[o] /\ wrapper_key[o] = NULL /\ init_refs[o] = 0
  BY <1>1, WithoutFrame DEF ObjectWithout
<1>6. /\ stack' \in Seq(Frame) /\ Len(stack) \in Nat
      /\ DOMAIN stack = 1 .. Len(stack) /\ DOMAIN stack' = 1 .. Len(stack) + 1
      /\ stack'[Len(stack) + 1] = g /\ \A i \in DOMAIN stack : stack'[i] = stack[i]
      /\ Frames' = Frames \cup {g}
  BY <1>1, <1>4, Pushed DEF TypeOK
<1>7. Apart'
  <2>1. \A i \in DOMAIN stack : stack[i] \in Frames
    BY DEF Frames, ToSet
  <2>2. \A i \in DOMAIN stack : stack[i].o # o /\ (stack[i].self = self => self = NULL)
    BY <1>5, <2>1
  <2>3. Apart
    BY DEF IInv
  <2>4. ASSUME NEW i \in DOMAIN stack', NEW j \in DOMAIN stack',
               stack'[i].o = stack'[j].o \/ (stack'[i].self = stack'[j].self /\ stack'[i].self # NULL)
        PROVE  i = j
    <3>1. CASE i \in DOMAIN stack /\ j \in DOMAIN stack
      BY <1>6, <2>3, <2>4, <3>1 DEF Apart
    <3>2. CASE i \notin DOMAIN stack
      <4>1. i = Len(stack) + 1
        BY <1>6, <3>2
      <4>2. j \notin DOMAIN stack
        BY <1>3, <1>6, <2>2, <2>4, <4>1
      <4> QED
        BY <1>6, <4>1, <4>2
    <3>3. CASE j \notin DOMAIN stack
      <4>1. j = Len(stack) + 1
        BY <1>6, <3>3
      <4>2. i \notin DOMAIN stack
        BY <1>3, <1>6, <2>2, <2>4, <4>1
      <4> QED
        BY <1>6, <4>1, <4>2
    <3> QED
      BY <3>1, <3>2, <3>3
  <2> QED
    BY <2>4 DEF Apart
<1>8. TypeOK'
  <2>1. IsFloating(o) \in BOOLEAN /\ 1 \in Nat
    BY DEF IsFloating
  <2>2. construction' \in Wrapper \cup {NULL}
    BY <1>1 DEF TypeOK
  <2> QED
    BY <1>1, <1>6, <2>1, <2>2 DEF TypeOK, qvars, wvars
<1>9. ConstructionOK'
  <2>1. IF g.by = "init"
        THEN /\ construction' = g.self
             /\ construction # NULL => Levels[pyclass[construction]] = 0
        ELSE /\ construction' = construction
             /\ construction # NULL => ~Registered(g.o)
    BY <1>1, <1>3 DEF Undisturbed
  <2> QED
    BY <1>3, <1>4, <2>1, ConstructionBegins
<1>10. Exchanged(o, g)
  <2>1. \A f \in Frames : f \in Frame
    BY <1>1, FrameFacts
  <2> QED
    BY <1>3, <1>5, <1>6, <2>1 DEF Exchanged
<1>11. Only(o, self)
  BY <1>1, <1>5, ConstructionAssumption DEF Only, TypeOK, qvars, wvars
<1>12. state'[o] = "making" /\ ref_count'[o] = 1 /\ floating'[o] = IsFloating(o)
  BY <1>1 DEF TypeOK
<1>13. FrameOK(g)'
  <2>1. Levels[TypeOf[o]] \in Nat
    BY ConstructionAssumption
  <2>2. Progress(g)'
    BY <1>3, <2>1 DEF Progress, AtLevel, PastLevels
  <2>3. Meeting(g)'
    BY <1>1, <1>3, <1>5 DEF Meeting, AtLevel, Released, qvars, wvars
  <2>4. Taken(g)'
    BY <1>1, <1>3, <1>5 DEF Taken, AtLevel, Released, qvars
  <2>5. 0 <= MaxRefs
    BY ConstructionAssumption
  <2>6. Owned(g)'
    BY <1>1, <1>3, <1>5, <1>12, <2>5 DEF Owned, IsFloating, qvars
  <2> QED
    BY <1>3, <1>12, <2>2, <2>3, <2>4, <2>6 DEF FrameOK
<1>14. ObjectWith(o, g)'
  <2>1. wrapper_key'[o] = NULL /\ cref'[o] = 0
    BY <1>1, <1>5 DEF qvars
  <2>2. Counted(o, g.by = "init", TRUE, g.at = "template")'
    <3>1. Flag(floating'[o]) = Flag(IsFloating(o))
      BY <1>12
    <3>2. ref_count'[o] = cref'[o] + Flag(floating'[o]) + 0 + Flag(~IsFloating(o)) + 0
      BY <1>12, <2>1, <3>1 DEF Flag
    <3> QED
      BY <1>3, <2>1, <3>2 DEF Counted, Flag, IsFloating
  <2> QED
    BY <1>12, <2>1, <2>2 DEF ObjectWith, IsFloating
<1>15. ASSUME self # NULL PROVE WrapperWith(self, Using(g))'
  <2>1. WrapperWith(self, FALSE) /\ obj[self] = NULL
    BY <1>15, OfNone
  <2> QED
    BY <1>1, <2>1 DEF WrapperWith, Flag, qvars, wvars
<1> QED
  BY <1>7, <1>8, <1>9, <1>10, <1>11, <1>13, <1>14, <1>15, InFrame

LEMMA PyInitStep ==
    ASSUME IInv, ~EarlyUse, NEW w \in Wrapper, NEW o \in Object, PyInit(w, o)
    PROVE  IInv'
<1>1. /\ held[w] > 0 \/ (At = "init" /\ Top.w = w)
      /\ obj[w] = NULL /\ pyclass[w] = TypeOf[o] /\ \A f \in Frames : f.self # w
      /\ construction' = w /\ Begin("init", o, w) /\ w # NULL
  BY ConstructionAssumption DEF PyInit, NeedsObject
<1>2. ~(At = "init" /\ Top.w = w)
  <2> SUFFICES ASSUME At = "init", Top.w = w PROVE FALSE
    OBVIOUS
  <2>1. PICK f \in Frames : f = Top /\ f.at = "init"
    BY TopOK
  <2>2. FrameOK(f) /\ f.o \in Object /\ f.o # NULL
    BY FrameFacts DEF IInv
  <2>3. wrapper_key[f.o] = w /\ obj[w] = f.o
    BY <1>1, <2>1, <2>2, Wrapping DEF FrameOK, Meeting, AtLevel
  <2> QED
    BY <1>1, <2>2, <2>3
<1> QED
  BY <1>1, <1>2, BeginStep

LEMMA NewStep ==
    ASSUME IInv, ~EarlyUse, NEW o \in Object, PyNew(o) \/ CNew(o)
    PROVE  IInv'
<1>1. construction' = construction /\ (Begin("new", o, NULL) \/ Begin("c", o, NULL))
  BY DEF PyNew, CNew
<1>2. CASE Begin("new", o, NULL)
  BY <1>1, <1>2, BeginStep
<1>3. CASE Begin("c", o, NULL)
  BY <1>1, <1>3, BeginStep
<1> QED
  BY <1>1, <1>2, <1>3

LEMMA EndsOutside ==
    ASSUME IInv, stack # <<>>, NEW f \in Frames, f = Top, stack' = Front(stack),
           IF f.by = "init" THEN construction' = NULL ELSE construction' = construction,
           TypeOK', NEW w \in Wrapper \cup {NULL}, Only(f.o, w),
           ObjectWithout(f.o)', w # NULL => WrapperWith(w, FALSE)'
    PROVE  IInv'
<1>1. /\ DOMAIN stack' = 1 .. Len(stack) - 1 /\ Removed(f.o)
      /\ \A i \in DOMAIN stack' : i \in DOMAIN stack /\ i # Len(stack) /\ stack'[i] = stack[i]
  BY Popped DEF IInv, TypeOK, Removed
<1>2. Apart'
  BY <1>1 DEF IInv, Apart
<1>3. ConstructionOK' /\ f.o \in Object
  BY ConstructionEnds, FrameFacts DEF IInv
<1> QED
  BY <1>1, <1>2, <1>3, InNoFrame

\* What is known of a construction that comes to its end.
LEMMA Ending ==
    ASSUME IInv, NEW o \in Object, Returns(o)
    PROVE  /\ stack # <<>> /\ Top \in Frames /\ Top.o = o /\ stack' = Front(stack) /\ stack' \in Seq(Frame)
           /\ \E f \in Frames :
                 /\ f = Top /\ f.o = o /\ FrameOK(f) /\ f.at = "settled" /\ ~Using(f)
                 /\ ObjectWith(o, f) /\ init_refs[o] = 0 /\ f.self \in Wrapper \cup {NULL} /\ f.level \in Nat
                 /\ cref[o] \in Nat /\ cref[o] <= MaxRefs /\ ref_count[o] \in Nat
                 /\ ref_count[o] = cref[o] + Flag(floating[o]) + Flag(wrapper_key[o] # NULL /\ f.by # "init") + Flag(~IsFloating(o))
                 /\ floating[o] => IsFloating(o)
                 /\ IsFloating(o) => floating[o] \/ cref[o] > 0
<1>1. stack # <<>> /\ Top \in Frames /\ Top.o = o /\ stack' = Front(stack) /\ At = Top.at /\ Top.at = "settled"
  BY TopOK DEF Returns
<1>2. PICK f \in Frames : f = Top
  BY <1>1
<1>3. stack' \in Seq(Frame) /\ TypeOK
  BY <1>1, TopFacts DEF IInv, TypeOK
<1>4. f.o = o /\ f.at = "settled" /\ FrameOK(f) /\ ObjectWith(o, f) /\ f.self \in Wrapper \cup {NULL} /\ f.level \in Nat
  BY <1>1, <1>2, <1>3, WithFrame, FrameFacts
<1>5. init_refs[o] = 0 /\ ~Using(f) /\ (IsFloating(o) => floating[o] \/ cref[o] > 0) /\ cref[o] <= MaxRefs
  BY <1>4 DEF FrameOK, Taken, Owned, Released, Using, AtLevel
<1>6. cref[o] \in Nat /\ ref_count[o] \in Nat
  BY <1>3 DEF TypeOK
<1>7. /\ ref_count[o] = cref[o] + Flag(floating[o]) + Flag(wrapper_key[o] # NULL /\ f.by # "init") + Flag(~IsFloating(o))
      /\ floating[o] => IsFloating(o)
  BY <1>4, <1>6 DEF ObjectWith, Counted, Flag
<1> QED
  BY <1>1, <1>2, <1>3, <1>4, <1>5, <1>6, <1>7

LEMMA InitEndsStep ==
    ASSUME IInv, NEW o \in Object, InitEnds(o)
    PROVE  IInv'
<1>1. Returns(o) /\ TypeOK
  BY DEF InitEnds, IInv
<1>2. stack # <<>> /\ stack' = Front(stack) /\ stack' \in Seq(Frame)
  BY <1>1, Ending
<1>3. PICK f \in Frames :
         /\ f = Top /\ f.o = o /\ FrameOK(f) /\ f.at = "settled" /\ ~Using(f)
         /\ ObjectWith(o, f) /\ init_refs[o] = 0 /\ f.self \in Wrapper \cup {NULL} /\ f.level \in Nat
         /\ cref[o] \in Nat /\ cref[o] <= MaxRefs /\ ref_count[o] \in Nat
         /\ ref_count[o] = cref[o] + Flag(floating[o]) + Flag(wrapper_key[o] # NULL /\ f.by # "init") + Flag(~IsFloating(o))
         /\ floating[o] => IsFloating(o)
         /\ IsFloating(o) => floating[o] \/ cref[o] > 0
  BY <1>1, Ending
<1>4. /\ f.by = "init" /\ construction' = NULL /\ ref_count' = [ref_count EXCEPT ![o] = Sunk(o)]
      /\ floating' = [floating EXCEPT ![o] = FALSE]
      /\ obj' = [obj EXCEPT ![f.self] = o] /\ wrapper_key' = [wrapper_key EXCEPT ![o] = f.self]
      /\ state' = [state EXCEPT ![o] = "made"] /\ error' = FALSE
      /\ UNCHANGED <<cref, init_refs, ob_refcnt, held, pyclass>>
  BY <1>3 DEF InitEnds
<1>5. PICK w \in Wrapper : w = f.self /\ w # NULL
  BY <1>3, <1>4 DEF FrameOK, Meeting
<1>6. /\ held[w] > 0 /\ pyclass[w] = TypeOf[o] /\ obj[w] \in {NULL, o} /\ wrapper_key[o] \in {NULL, w}
      /\ \A h \in Frames : h.self = w => h.o = o
  <2>1. held[w] > 0 /\ pyclass[w] = TypeOf[o] /\ (obj[w] = NULL \/ wrapper_key[o] = w)
    BY <1>3, <1>4, <1>5 DEF FrameOK, Meeting
  <2>2. f.level = 0 => wrapper_key[o] = NULL
    BY <1>3, <1>4 DEF FrameOK, Meeting
  <2>3. f.level # 0 => wrapper_key[o] = w
    BY <1>3, <1>4, <1>5 DEF FrameOK, Meeting
  <2>4. wrapper_key[o] = w => obj[w] = o
    BY <1>5, Wrapping
  <2>5. \A h \in Frames : h.self = w => h.o = o
    BY <1>1, <1>3, <1>5, OneFrame DEF IInv, TypeOK
  <2> QED
    BY <2>1, <2>2, <2>3, <2>4, <2>5
<1>7. /\ ob_refcnt[w] \in Nat /\ held[w] \in Nat /\ ob_refcnt[w] = held[w]
  <2>1. ob_refcnt[w] \in Nat /\ held[w] \in Nat
    BY <1>1 DEF TypeOK
  <2>2. WrapperWith(w, Using(f))
    BY <1>3, <1>6, OfFrame
  <2> QED
    BY <1>3, <1>6, <2>1, <2>2 DEF WrapperWith, Flag
<1>8. Sunk(o) = cref[o] + 1 /\ Sunk(o) \in Nat
  <2>1. ref_count[o] = cref[o] + Flag(floating[o]) + Flag(~IsFloating(o))
    BY <1>3, <1>4 DEF Flag
  <2> QED
    BY <1>3, <2>1 DEF Sunk, Flag
<1>9. /\ ref_count'[o] = cref[o] + 1 /\ floating'[o] = FALSE /\ obj'[w] = o /\ wrapper_key'[o] = w /\ state'[o] = "made"
  BY <1>1, <1>4, <1>5, <1>8 DEF TypeOK
<1>10. TypeOK'
  BY <1>1, <1>2, <1>4, <1>5, <1>8 DEF TypeOK
<1>11. Only(o, w)
  BY <1>1, <1>4, <1>5, <1>6, <1>9 DEF Only, TypeOK
<1>12. ObjectWithout(o)'
  <2>1. Counted(o, FALSE, FALSE, FALSE)'
    BY <1>3, <1>4, <1>5, <1>9 DEF Counted, Flag
  <2> QED
    BY <1>3, <1>4, <1>9, <2>1 DEF ObjectWithout
<1>13. WrapperWith(w, FALSE)'
  <2>1. /\ o # NULL /\ pyclass'[w] = TypeOf[o] /\ init_refs'[o] = 0 /\ ob_refcnt'[w] > 0
        /\ ob_refcnt'[w] = held'[w] /\ ob_refcnt'[w] \in Nat /\ held'[w] \in Nat
    BY <1>3, <1>4, <1>6, <1>7, ConstructionAssumption
  <2> QED
    BY <1>9, <2>1 DEF WrapperWith, Flag
<1> QED
  BY <1>2, <1>3, <1>4, <1>10, <1>11, <1>12, <1>13, EndsOutside

LEMMA NewEndsStep ==
    ASSUME IInv, NEW o \in Object, NEW w \in Wrapper, NewEnds(o, w)
    PROVE  IInv'
<1>1. Returns(o) /\ TypeOK
  BY DEF NewEnds, IInv
<1>2. stack # <<>> /\ stack' = Front(stack) /\ stack' \in Seq(Frame)
  BY <1>1, Ending
<1>3. PICK f \in Frames :
         /\ f = Top /\ f.o = o /\ FrameOK(f) /\ f.at = "settled" /\ ~Using(f)
         /\ ObjectWith(o, f) /\ init_refs[o] = 0 /\ f.self \in Wrapper \cup {NULL} /\ f.level \in Nat
         /\ cref[o] \in Nat /\ cref[o] <= MaxRefs /\ ref_count[o] \in Nat
         /\ ref_count[o] = cref[o] + Flag(floating[o]) + Flag(wrapper_key[o] # NULL /\ f.by # "init") + Flag(~IsFloating(o))
         /\ floating[o] => IsFloating(o)
         /\ IsFloating(o) => floating[o] \/ cref[o] > 0
  BY <1>1, Ending
<1>4. f.by = "new" /\ error' = FALSE /\ UNCHANGED <<cref, init_refs, construction>> /\ w # NULL /\ o # NULL
  BY <1>3, ConstructionAssumption DEF NewEnds
<1>5. /\ wrapper_key[o] = NULL /\ (IsFloating(o) => cref[o] = 0 /\ floating[o])
  BY <1>3, <1>4 DEF FrameOK, Owned
<1>6. ref_count[o] = cref[o] + 1
  BY <1>3, <1>5 DEF Flag
<1>7. CASE error
  <2>1. /\ ref_count' = [ref_count EXCEPT ![o] = @ - 1]
        /\ state' = [state EXCEPT ![o] = IF ref_count[o] = 1 THEN "gone" ELSE "made"]
        /\ floating' = [floating EXCEPT ![o] = @ /\ ref_count[o] > 1]
        /\ UNCHANGED <<wrapper_key, wvars>>
    BY <1>7 DEF NewEnds
  <2>2. floating[o] /\ ref_count[o] > 1 <=> FALSE
    BY <1>3, <1>5, <1>6
  <2>3. ref_count'[o] = cref[o] /\ state'[o] \in {"gone", "made"} /\ floating'[o] = FALSE
    <3>1. ref_count'[o] = ref_count[o] - 1 /\ state'[o] \in {"gone", "made"}
      BY <1>1, <2>1 DEF TypeOK
    <3>2. floating'[o] = (floating[o] /\ ref_count[o] > 1)
      BY <1>1, <2>1 DEF TypeOK
    <3>3. (floating[o] /\ ref_count[o] > 1) = FALSE
      BY <2>2
    <3>4. floating'[o] = FALSE
      BY <3>2, <3>3
    <3>5. ref_count'[o] = cref[o]
      BY <1>3, <1>6, <3>1
    <3> QED
      BY <3>1, <3>4, <3>5
  <2>4. TypeOK'
    <3>1. ref_count[o] - 1 \in Nat /\ (floating[o] /\ ref_count[o] > 1) \in BOOLEAN
      BY <1>3, <1>6
    <3> QED
      BY <1>1, <1>2, <1>4, <2>1, <3>1 DEF TypeOK, wvars
  <2>5. Only(o, NULL)
    BY <1>1, <1>4, <1>5, <2>1, ConstructionAssumption DEF Only, TypeOK, wvars
  <2>6. ObjectWithout(o)'
    <3>1. Counted(o, FALSE, FALSE, FALSE)'
      BY <1>3, <1>4, <1>5, <2>1, <2>3 DEF Counted, Flag
    <3> QED
      BY <1>3, <1>4, <1>5, <2>1, <2>3, <3>1 DEF ObjectWithout
  <2> QED
    BY <1>2, <1>3, <1>4, <2>4, <2>5, <2>6, EndsOutside
<1>8. CASE ~error
  <2>1. /\ state' = [state EXCEPT ![o] = "made"] /\ floating' = [floating EXCEPT ![o] = FALSE]
        /\ ref_count' = [ref_count EXCEPT ![o] = Sunk(o)] /\ held' = [held EXCEPT ![w] = @ + 1]
        /\ ob_refcnt[w] = 0 /\ ob_refcnt' = [ob_refcnt EXCEPT ![w] = 1] /\ pyclass' = [pyclass EXCEPT ![w] = TypeOf[o]]
        /\ obj' = [obj EXCEPT ![w] = o] /\ wrapper_key' = [wrapper_key EXCEPT ![o] = w]
    BY <1>4, <1>5, <1>8 DEF NewEnds, Wraps, ClassOf
  <2>2. obj[w] = NULL /\ held[w] = 0 /\ \A h \in Frames : h.self # w
    BY <2>1, Free
  <2>3. Sunk(o) = cref[o] + 1 /\ Sunk(o) \in Nat
    BY <1>3, <1>5, <1>6 DEF Sunk, Flag
  <2>4. /\ state'[o] = "made" /\ floating'[o] = FALSE /\ ref_count'[o] = cref[o] + 1 /\ held'[w] = 1
        /\ obj'[w] = o /\ wrapper_key'[o] = w /\ pyclass'[w] = TypeOf[o] /\ ob_refcnt'[w] = 1
    BY <1>1, <2>1, <2>2, <2>3 DEF TypeOK
  <2>5. TypeOK'
    <3>1. TypeOf[o] \in Class /\ 1 \in Nat /\ held[w] + 1 \in Nat
      BY <2>2, ConstructionAssumption
    <3> QED
      BY <1>1, <1>2, <1>4, <2>1, <2>3, <3>1 DEF TypeOK
  <2>6. Only(o, w)
    BY <1>1, <1>4, <1>5, <2>1, <2>2, <2>4 DEF Only, TypeOK
  <2>7. ObjectWithout(o)'
    <3>1. Counted(o, FALSE, FALSE, FALSE)'
      BY <1>3, <1>4, <2>4 DEF Counted, Flag
    <3> QED
      BY <1>3, <1>4, <2>4, <3>1 DEF ObjectWithout
  <2>8. WrapperWith(w, FALSE)'
    <3>1. init_refs'[o] = 0
      BY <1>3, <1>4
    <3> QED
      BY <1>4, <2>4, <3>1 DEF WrapperWith, Flag
  <2> QED
    BY <1>2, <1>3, <1>4, <2>5, <2>6, <2>7, <2>8, EndsOutside
<1> QED
  BY <1>7, <1>8

LEMMA CEndsStep ==
    ASSUME IInv, NEW o \in Object, CEnds(o)
    PROVE  IInv'
<1>1. Returns(o) /\ TypeOK
  BY DEF CEnds, IInv
<1>2. stack # <<>> /\ stack' = Front(stack) /\ stack' \in Seq(Frame)
  BY <1>1, Ending
<1>3. PICK f \in Frames :
         /\ f = Top /\ f.o = o /\ FrameOK(f) /\ f.at = "settled" /\ ~Using(f)
         /\ ObjectWith(o, f) /\ init_refs[o] = 0 /\ f.self \in Wrapper \cup {NULL} /\ f.level \in Nat
         /\ cref[o] \in Nat /\ cref[o] <= MaxRefs /\ ref_count[o] \in Nat
         /\ ref_count[o] = cref[o] + Flag(floating[o]) + Flag(wrapper_key[o] # NULL /\ f.by # "init") + Flag(~IsFloating(o))
         /\ floating[o] => IsFloating(o)
         /\ IsFloating(o) => floating[o] \/ cref[o] > 0
  BY <1>1, Ending
<1>4. /\ f.by = "c" /\ cref' = [cref EXCEPT ![o] = @ + Flag(~IsFloating(o))] /\ state' = [state EXCEPT ![o] = "made"]
      /\ error' \in {error, FALSE}
      /\ UNCHANGED <<ref_count, floating, qvars, wvars, construction>>
  BY <1>3 DEF CEnds
<1>5. PICK w : w = wrapper_key[o]
  OBVIOUS
<1>6. cref[o] + Flag(~IsFloating(o)) \in 0 .. MaxRefs + 1 /\ cref[o] + Flag(~IsFloating(o)) \in Nat
  BY <1>3, ConstructionAssumption DEF Flag
<1>7. cref'[o] = cref[o] + Flag(~IsFloating(o)) /\ state'[o] = "made"
  BY <1>1, <1>4 DEF TypeOK
<1>8. TypeOK'
  BY <1>1, <1>2, <1>4, <1>6 DEF TypeOK, qvars, wvars
<1>9. Only(o, w) /\ w \in Wrapper \cup {NULL}
  BY <1>1, <1>4, <1>5, OnlyOwn DEF TypeOK, qvars, wvars
<1>10. ObjectWithout(o)'
  <2>1. ref_count'[o] = cref'[o] + Flag(floating[o]) + Flag(wrapper_key[o] # NULL) + 0 + 0
    BY <1>3, <1>4, <1>7 DEF Flag
  <2>2. Counted(o, FALSE, FALSE, FALSE)'
    BY <1>4, <1>6, <1>7, <2>1 DEF Counted, Flag, qvars
  <2> QED
    BY <1>3, <1>4, <1>7, <2>2 DEF ObjectWithout, ObjectWith, IsFloating, qvars, wvars
<1>11. ASSUME w # NULL PROVE WrapperWith(w, FALSE)'
  <2>1. WrapperWith(w, Using(f))
    BY <1>3, <1>5, <1>9, <1>11, Wrapping, OfFrame
  <2> QED
    BY <1>3, <1>4, <2>1 DEF WrapperWith, Flag, qvars, wvars
<1> QED
  BY <1>2, <1>3, <1>4, <1>8, <1>9, <1>10, <1>11, EndsOutside

(***************************************************************************)
(* The invariant.                                                          *)
(***************************************************************************)
LEMMA Initially ==
    ASSUME Init
    PROVE  IInv
<1>1. stack = <<>> /\ Frames = {} /\ stack \in Seq(Frame) /\ DOMAIN stack = {}
  BY DEF Init, Frames, ToSet
<1>2. TypeOK
  <2>1. 0 \in 0 .. MaxRefs + 1 /\ 0 \in Nat
    BY ConstructionAssumption
  <2> QED
    BY <1>1, <2>1 DEF Init, TypeOK
<1>3. Apart /\ ConstructionOK
  BY <1>1 DEF Init, Apart, ConstructionOK
<1>4. \A o \in Object : ObjectOK(o)
  BY <1>1 DEF Init, ObjectOK, ByInit, Guarded, Flag
<1>5. \A w \in Wrapper : WrapperOK(w)
  BY <1>1 DEF Init, WrapperOK, Used, Flag
<1> QED
  BY <1>1, <1>2, <1>3, <1>4, <1>5 DEF IInv

LEMMA Stutters ==
    ASSUME IInv, UNCHANGED vars
    PROVE  IInv'
<1>1. TypeOK' /\ UNCHANGED <<stack, construction>>
  BY DEF IInv, TypeOK, vars, ovars, qvars, wvars
<1>2. Only(NULL, NULL)
  BY FrameFacts, ConstructionAssumption DEF Only, vars, ovars, qvars, wvars
<1>3. \A f \in Frames : f.o # NULL
  BY FrameFacts DEF IInv
<1> QED
  BY <1>1, <1>2, <1>3, StaysOutside

LEMMA NextOK ==
    ASSUME ~EarlyUse, ~KeptByNew, IInv, Next
    PROVE  IInv'
<1>1. ASSUME NEW w \in Wrapper, NEW c \in Class, Alloc(w, c) PROVE IInv'
  BY <1>1, AllocStep
<1>2. ASSUME NEW w \in Wrapper, NEW o \in Object, PyInit(w, o) PROVE IInv'
  BY <1>2, PyInitStep
<1>3. ASSUME NEW w \in Wrapper, NEW o \in Object, Handed(o, w) PROVE IInv'
  BY <1>3, HandedStep
<1>4. ASSUME NEW w \in Wrapper, NEW o \in Object, NewEnds(o, w) PROVE IInv'
  BY <1>4, NewEndsStep
<1>5. ASSUME NEW w \in Wrapper, Drop(w) PROVE IInv'
  BY <1>5, DropStep
<1>6. ASSUME NEW w \in Wrapper, InstanceInit(w) PROVE IInv'
  BY <1>6, InstanceInitStep
<1>7. ASSUME NEW w \in Wrapper, CallSetter(w) PROVE IInv'
  BY <1>7, CallSetterStep
<1>8. ASSUME NEW o \in Object, PyNew(o) \/ CNew(o) PROVE IInv'
  BY <1>8, NewStep
<1>9. ASSUME NEW o \in Object, Adopt(o) PROVE IInv'
  BY <1>9, AdoptStep
<1>10. ASSUME NEW o \in Object, Abandon(o) PROVE IInv'
  BY <1>10, AbandonStep
<1>11. ASSUME NEW o \in Object, InitEnds(o) PROVE IInv'
  BY <1>11, InitEndsStep
<1>12. ASSUME NEW o \in Object, CEnds(o) PROVE IInv'
  BY <1>12, CEndsStep
<1>13. CASE CallTemplate \/ TemplateReturns
  BY <1>13, CallTemplateStep, TemplateReturnsStep
<1>14. CASE Inited \/ InitReturns
  BY <1>14, InitedStep, InitReturnsStep
<1>15. CASE Constructing \/ SetterReturns
  BY <1>15, ConstructingStep, SetterReturnsStep
<1>16. CASE Constructed \/ ConstructedReturns
  BY <1>16, ConstructedStep, ConstructedReturnsStep
<1> QED
  BY <1>1, <1>2, <1>3, <1>4, <1>5, <1>6, <1>7, <1>8, <1>9, <1>10, <1>11, <1>12, <1>13, <1>14, <1>15, <1>16 DEF Next

\* The constructions in progress, how far each has come, and what each has
\* taken, in every reachable state.
THEOREM Invariance ==
    ASSUME ~EarlyUse, ~KeptByNew
    PROVE  Spec => []IInv
<1>1. Init => IInv
  BY Initially
<1>2. IInv /\ [Next]_vars => IInv'
  BY NextOK, Stutters
<1> QED
  BY <1>1, <1>2, PTL DEF Spec

(***************************************************************************)
(* The counts.                                                             *)
(***************************************************************************)
LEMMA AtMostOne ==
    ASSUME NEW S, \A x, y \in S : x = y
    PROVE  Cardinality(S) = Flag(S # {})
<1>1. CASE S = {}
  BY <1>1, FS_EmptySet DEF Flag
<1>2. CASE S # {}
  <2>1. PICK x \in S : S = {x}
    BY <1>2
  <2> QED
    BY <1>2, <2>1, FS_Singleton DEF Flag
<1> QED
  BY <1>1, <1>2

LEMMA ObjectCounts ==
    ASSUME IInv, NEW o \in Object
    PROVE  /\ Cardinality(Wrappers(o)) = Flag(wrapper_key[o] # NULL /\ ~ByInit(o))
           /\ Cardinality(Creators(o)) = Flag(state[o] = "making" /\ ~IsFloating(o))
           /\ Cardinality(Guards(o)) = Flag(Guarded(o))
<1>1. \A f, g \in Frames : f.o = g.o => f = g
  BY OneFrame DEF IInv, TypeOK
<1>2. Cardinality(Guards(o)) = Flag(Guards(o) # {}) /\ Cardinality(Creators(o)) = Flag(Creators(o) # {})
  BY <1>1, AtMostOne DEF Guards, Creators
<1>3. Guards(o) # {} <=> Guarded(o)
  BY DEF Guards, Guarded
<1>4. Creators(o) # {} <=> state[o] = "making" /\ ~IsFloating(o)
  BY DEF IInv, ObjectOK, Creators
<1>5. \A w \in Wrapper : obj[w] = o <=> w = wrapper_key[o]
  BY ConstructionAssumption, Wrapping DEF IInv, WrapperOK
<1>6. Cardinality(Wrappers(o)) = Flag(Wrappers(o) # {})
  BY <1>5, AtMostOne DEF Wrappers
<1>7. ASSUME wrapper_key[o] # NULL PROVE ByInit(o) <=> \E f \in Frames : f.self = wrapper_key[o]
  <2>1. ASSUME NEW f \in Frames, f.o = o, f.by = "init" PROVE f.self = wrapper_key[o]
    BY <1>7, <2>1, FrameFacts DEF IInv, FrameOK, Meeting
  <2>2. ASSUME NEW f \in Frames, f.self = wrapper_key[o] PROVE f.o = o /\ f.by = "init"
    BY <1>7, <2>2, Wrapping DEF IInv, FrameOK, Meeting
  <2> QED
    BY <2>1, <2>2 DEF ByInit
<1>8. Wrappers(o) # {} <=> wrapper_key[o] # NULL /\ ~ByInit(o)
  <2>1. ASSUME NEW w \in Wrappers(o) PROVE wrapper_key[o] # NULL /\ ~ByInit(o)
    BY <1>5, <1>7, ConstructionAssumption DEF Wrappers
  <2>2. ASSUME wrapper_key[o] # NULL, ~ByInit(o) PROVE wrapper_key[o] \in Wrappers(o)
    BY <1>7, <2>2, Wrapping DEF Wrappers
  <2> QED
    BY <2>1, <2>2
<1> QED
  BY <1>2, <1>3, <1>4, <1>6, <1>8 DEF Flag

LEMMA WrapperCounts ==
    ASSUME IInv, NEW w \in Wrapper
    PROVE  Cardinality(Uses(w)) = Flag(Used(w))
<1>1. \A f, g \in Frames : f.o = g.o => f = g
  BY OneFrame DEF IInv, TypeOK
<1>2. ASSUME NEW f \in Frames PROVE f \in Uses(w) <=> f.w = w /\ Using(f)
  BY DEF Uses, Using, AtLevel
<1>3. ASSUME NEW f \in Frames, Using(f) PROVE f.w = w <=> f.o = obj[w]
  <2>1. f.w # NULL /\ wrapper_key[f.o] = f.w /\ f.o \in Object /\ f.o # NULL
    BY <1>3, FrameFacts DEF IInv, FrameOK, Meeting, Using
  <2>2. obj[f.w] = f.o
    BY <2>1, Wrapping
  <2>3. obj[w] # NULL => wrapper_key[obj[w]] = w
    BY DEF IInv, WrapperOK
  <2> QED
    BY <2>1, <2>2, <2>3
<1>4. \A f \in Frames : f.o # NULL
  BY FrameFacts DEF IInv
<1>5. Uses(w) # {} <=> Used(w)
  BY <1>2, <1>3, <1>4 DEF Uses, Used
<1>6. \A f, g \in Uses(w) : f = g
  BY <1>1, <1>2, <1>3 DEF Uses
<1> QED
  BY <1>5, <1>6, AtMostOne DEF Flag

LEMMA Balance ==
    ASSUME IInv
    PROVE  ConstructionBalanced
<1>1. TypeOK
  BY DEF IInv
<1>2. TiedTogether
  BY Wrapping DEF IInv, TiedTogether, WrapperOK, FrameOK, Progress
<1>3. RefCountExact
  BY ObjectCounts DEF IInv, ObjectOK, RefCountExact
<1>4. PyRefCountExact
  BY WrapperCounts DEF IInv, WrapperOK, PyRefCountExact
<1> QED
  BY <1>1, <1>2, <1>3, <1>4 DEF ConstructionBalanced

\* However constructions are nested, whatever raises and whoever takes or drops
\* references meanwhile: a wrapper and its object name each other, and both
\* reference counts are what those who know of them own.
THEOREM Balanced ==
    ASSUME ~EarlyUse, ~KeptByNew
    PROVE  Spec => []ConstructionBalanced
<1>1. IInv => ConstructionBalanced
  BY Balance
<1> QED
  BY <1>1, Invariance, PTL

(***************************************************************************)
(* The refinement of PersistentInstance.                                   *)
(***************************************************************************)

\* What Instance makes of one object.
StateOf(o) == CASE state[o] = "absent" -> "unbound"
                [] state[o] = "gone" -> "gone"
                [] OTHER -> "bound"
ClassSeen(o) == IF wrapper_key[o] = NULL THEN TypeOf[o] ELSE pyclass[wrapper_key[o]]
HandOf(o) == IF wrapper_key[o] = NULL THEN 0 ELSE held[wrapper_key[o]]

LEMMA ClassKept ==
    ASSUME IInv, IInv', NEW o \in Object
    PROVE  ClassSeen(o) = TypeOf[o] /\ ClassSeen(o)' = TypeOf[o]
<1>1. ClassSeen(o) = TypeOf[o]
  BY ConstructionAssumption, Wrapping DEF ClassSeen, WrapperOK
<1>2. wrapper_key'[o] # NULL => wrapper_key'[o] \in Wrapper /\ obj'[wrapper_key'[o]] = o /\ o # NULL
  BY ConstructionAssumption DEF IInv, TypeOK, ObjectOK
<1>3. wrapper_key'[o] # NULL => pyclass'[wrapper_key'[o]] = TypeOf[o]
  BY <1>2 DEF IInv, WrapperOK
<1> QED
  BY <1>1, <1>3 DEF ClassSeen

Same(o) == StateOf(o)' = StateOf(o) /\ HandOf(o)' = HandOf(o)

LEMMA StutterMaps ==
    ASSUME IInv, IInv', \A o \in Object : Same(o)
    PROVE  UNCHANGED Instance!vars
BY ClassKept DEF Instance!vars, Same, StateOf, ClassSeen, HandOf

\* A step of one object is a step of PersistentInstance if that object's is.
LEMMA OneMaps ==
    ASSUME IInv, IInv', NEW o \in Object, \A p \in Object \ {o} : Same(p),
           \/ StateOf(o) = "unbound" /\ StateOf(o)' = "bound" /\ HandOf(o)' = 0
           \/ StateOf(o) = "bound" /\ StateOf(o)' = "bound" /\ HandOf(o)' = HandOf(o) + 1
           \/ HandOf(o) > 0 /\ StateOf(o)' = StateOf(o) /\ HandOf(o)' = HandOf(o) - 1
           \/ StateOf(o) # "gone" /\ StateOf(o)' = "gone" /\ HandOf(o) = 0 /\ HandOf(o)' = 0
           \/ StateOf(o)' = "gone" /\ HandOf(o) = 1 /\ HandOf(o)' = 0
    PROVE  Instance!Next
<1> DEFINE st == [p \in Object |-> StateOf(p)]
           at == [p \in Object |-> NULL]
           cl == [p \in Object |-> ClassSeen(p)]
           ih == [p \in Object |-> HandOf(p)]
<1>1. \A p \in Object \ {o} : st'[p] = st[p] /\ ih'[p] = ih[p]
  BY DEF Same
<1>2. cl' = cl /\ cl = [p \in Object |-> TypeOf[p]] /\ at' = at /\ at[o] = NULL /\ cl[o] = TypeOf[o]
  BY ClassKept
<1>3. at' = [at EXCEPT ![o] = NULL] /\ cl' = [cl EXCEPT ![o] = TypeOf[o]]
  BY <1>2
<1>4. CASE StateOf(o) = "unbound" /\ StateOf(o)' = "bound" /\ HandOf(o)' = 0
  <2>1. st' = [st EXCEPT ![o] = "bound"] /\ ih' = [ih EXCEPT ![o] = 0]
    BY <1>1, <1>4
  <2>2. Instance!Bind(o, 0)
    BY <1>2, <1>4, <2>1 DEF Instance!Bind, StateOf, ClassSeen, HandOf
  <2> QED
    BY <2>2 DEF Instance!Next
<1>5. CASE StateOf(o) = "bound" /\ StateOf(o)' = "bound" /\ HandOf(o)' = HandOf(o) + 1
  <2>1. st' = st /\ ih' = [ih EXCEPT ![o] = @ + 1]
    BY <1>1, <1>5
  <2>2. Instance!Give(o)
    BY <1>2, <1>5, <2>1 DEF Instance!Give, StateOf, ClassSeen, HandOf
  <2> QED
    BY <2>2 DEF Instance!Next
<1>6. CASE HandOf(o) > 0 /\ StateOf(o)' = StateOf(o) /\ HandOf(o)' = HandOf(o) - 1
  <2>1. st' = st /\ ih' = [ih EXCEPT ![o] = @ - 1]
    BY <1>1, <1>6
  <2>2. Instance!Drop(o)
    BY <1>2, <1>6, <2>1 DEF Instance!Drop, StateOf, ClassSeen, HandOf
  <2> QED
    BY <2>2 DEF Instance!Next
<1>7. CASE StateOf(o) # "gone" /\ StateOf(o)' = "gone" /\ HandOf(o) = 0 /\ HandOf(o)' = 0
  <2>1. st' = [st EXCEPT ![o] = "gone"] /\ ih' = ih
    BY <1>1, <1>7
  <2>2. Instance!Vanish(o)
    BY <1>3, <1>7, <2>1 DEF Instance!Vanish, StateOf, ClassSeen, HandOf
  <2> QED
    BY <2>2 DEF Instance!Next
<1>8. CASE StateOf(o)' = "gone" /\ HandOf(o) = 1 /\ HandOf(o)' = 0
  <2>1. st' = [st EXCEPT ![o] = "gone"] /\ ih' = [ih EXCEPT ![o] = 0]
    BY <1>1, <1>8
  <2>2. Instance!LetGo(o)
    BY <1>3, <1>8, <2>1 DEF Instance!LetGo, StateOf, ClassSeen, HandOf
  <2> QED
    BY <2>2 DEF Instance!Next
<1> QED
  BY <1>4, <1>5, <1>6, <1>7, <1>8

\* What one step means for the instances.
Maps == Unshared' /\ (Instance!Next \/ UNCHANGED Instance!vars)

\* Python's references stay, and so do the objects.
LEMMA QuietMaps ==
    ASSUME IInv, IInv', Unshared, UNCHANGED <<state, held, wrapper_key, obj>>
    PROVE  Maps
<1>1. Unshared'
  BY DEF Unshared
<1>2. \A o \in Object : Same(o)
  BY DEF Same, StateOf, HandOf
<1> QED
  BY <1>1, <1>2, StutterMaps DEF Maps

\* The innermost construction goes on, so its object is there.
LEMMA StillMaking ==
    ASSUME IInv, IInv', stack # <<>>, NEW g \in Frame, Goes(g), g.o = Top.o
    PROVE  state[Top.o] = "making" /\ state'[Top.o] = "making"
<1>1. Top \in Frames /\ Len(stack) \in DOMAIN stack
  BY TopFacts DEF IInv, TypeOK
<1>2. state[Top.o] = "making"
  BY <1>1 DEF IInv, FrameOK
<1>3. DOMAIN stack' = DOMAIN stack /\ stack'[Len(stack)] = g
  BY <1>1, Replaced DEF IInv, TypeOK
<1>4. g \in Frames'
  BY <1>1, <1>3 DEF Frames, ToSet
<1>5. FrameOK(g)'
  BY <1>4 DEF IInv
<1> QED
  BY <1>2, <1>5 DEF FrameOK

\* A wrapper that goes away while Python's references stay is one Python does
\* not have.
LEMMA HandsStay ==
    ASSUME IInv, IInv', Unshared, NEW w \in Wrapper, NEW n, Decref(w, n), UNCHANGED held
    PROVE  Unshared' /\ \A o \in Object : HandOf(o)' = HandOf(o)
<1>1. TypeOK /\ WrapperOK(w) /\ WrapperOK(w)' /\ TypeOK'
  BY DEF IInv
<1>2. CASE ob_refcnt[w] = n /\ obj[w] # NULL
  <2>1. PICK o \in Object : o = obj[w] /\ o # NULL
    BY <1>1, <1>2 DEF TypeOK
  <2>2. /\ wrapper_key[o] = w /\ wrapper_key' = [wrapper_key EXCEPT ![o] = NULL] /\ obj' = [obj EXCEPT ![w] = NULL]
        /\ ob_refcnt' = [ob_refcnt EXCEPT ![w] = @ - n]
    BY <1>1, <1>2, <2>1 DEF Decref, WrapperOK
  <2>3. ob_refcnt'[w] = 0 /\ obj'[w] = NULL /\ wrapper_key'[o] = NULL
    <3>1. ob_refcnt'[w] = ob_refcnt[w] - n /\ ob_refcnt[w] \in Nat
      BY <1>1, <2>2 DEF TypeOK
    <3> QED
      BY <1>1, <1>2, <2>2, <3>1 DEF TypeOK
  <2>4. held'[w] = 0
    <3>1. ob_refcnt'[w] = held'[w] + 0 + Flag(Used(w)') /\ held'[w] \in Nat
      BY <1>1, <2>3 DEF WrapperOK, TypeOK, Flag
    <3> QED
      BY <2>3, <3>1 DEF Flag
  <2>5. Unshared'
    <3>1. \A v \in Wrapper : v # w => obj'[v] = obj[v] /\ held'[v] = held[v]
      BY <1>1, <2>2 DEF TypeOK
    <3>2. held'[w] <= 1
      BY <2>4
    <3> QED
      BY <3>1, <3>2 DEF Unshared
  <2>6. \A p \in Object : p # o => HandOf(p)' = HandOf(p)
    BY <1>1, <2>2 DEF TypeOK, HandOf
  <2>7. HandOf(o)' = HandOf(o)
    BY <2>1, <2>2, <2>3, <2>4, ConstructionAssumption DEF HandOf
  <2> QED
    BY <2>5, <2>6, <2>7
<1>3. CASE ~(ob_refcnt[w] = n /\ obj[w] # NULL)
  <2>1. UNCHANGED <<wrapper_key, obj>>
    BY <1>3 DEF Decref
  <2> QED
    BY <2>1 DEF Unshared, HandOf
<1> QED
  BY <1>2, <1>3

\* What a hook or the levels had is released while the construction goes on.
LEMMA DecrefMaps ==
    ASSUME IInv, IInv', Unshared, stack # <<>>, NEW w \in Wrapper, NEW n, Decref(w, n), UNCHANGED held,
           obj[w] = Top.o, NEW g \in Frame, Goes(g), g.o = Top.o
    PROVE  Maps
<1>1. Unshared' /\ \A o \in Object : HandOf(o)' = HandOf(o)
  BY HandsStay
<1>2. state[Top.o] = "making" /\ state'[Top.o] = "making"
  BY StillMaking
<1>3. ASSUME NEW o \in Object PROVE StateOf(o)' = StateOf(o)
  <2>1. o # Top.o => state'[o] = state[o]
    BY DEF Decref, IInv, TypeOK
  <2> QED
    BY <1>2, <2>1 DEF StateOf
<1> QED
  BY <1>1, <1>3, StutterMaps DEF Maps, Same

LEMMA HooksMap ==
    ASSUME IInv, IInv', Unshared,
           CallTemplate \/ TemplateReturns \/ Inited \/ InitReturns \/ Constructing
    PROVE  Maps
<1>1. UNCHANGED <<state, held, wrapper_key, obj>>
  BY DEF CallTemplate, TemplateReturns, Inited, InitReturns, Constructing, ovars, qvars, wvars
<1> QED
  BY <1>1, QuietMaps

LEMMA ReferencesMap ==
    ASSUME IInv, IInv', Unshared, NEW o \in Object, Adopt(o) \/ Abandon(o)
    PROVE  Maps
<1>1. UNCHANGED <<state, held, wrapper_key, obj>>
  BY DEF Adopt, Abandon, qvars, wvars
<1> QED
  BY <1>1, QuietMaps

LEMMA SetterReturnsMaps ==
    ASSUME IInv, IInv', Unshared, SetterReturns
    PROVE  Maps
<1>1. PICK f \in Frames : f = Top /\ stack # <<>> /\ f.at = "setter"
  BY TopOK DEF SetterReturns
<1>2. f \in Frame /\ f.o \in Object /\ f.back \in Step /\ FrameOK(f)
  BY FrameFacts DEF IInv
<1>3. PICK w : w = f.w /\ w \in Wrapper /\ obj[w] = f.o
  BY <1>1, <1>2, Wrapping DEF FrameOK, Meeting
<1>4. PICK g \in Frame : g = [f EXCEPT !.at = f.back, !.w = NULL, !.fresh = FALSE, !.floated = FALSE]
  BY <1>2 DEF Frame
<1>5. g.o = f.o
  BY <1>2, <1>4 DEF Frame
<1>6. Goes(g) /\ Decref(w, 1) /\ UNCHANGED held
  BY <1>1, <1>3, <1>4 DEF SetterReturns, Proceeds
<1> QED
  BY <1>1, <1>3, <1>5, <1>6, DecrefMaps

LEMMA ReleaseMaps ==
    ASSUME IInv, IInv', Unshared, NEW f \in Frames, f = Top, stack # <<>>,
           NEW w, w = wrapper_key[f.o], w # NULL, Release(f.o, w), UNCHANGED held
    PROVE  Maps
<1>1. f \in Frame /\ f.o \in Object
  BY FrameFacts DEF IInv
<1>2. w \in Wrapper /\ obj[w] = f.o
  BY <1>1, Wrapping
<1>3. PICK n : n = init_refs[f.o]
  OBVIOUS
<1>4. PICK g \in Frame : g = [f EXCEPT !.at = "settled", !.w = NULL, !.fresh = FALSE, !.floated = FALSE]
  BY <1>1 DEF Frame, Step
<1>5. g.o = f.o
  BY <1>1, <1>4 DEF Frame
<1>6. Goes(g) /\ Decref(w, n)
  BY <1>3, <1>4 DEF Release, Proceeds
<1> QED
  BY <1>2, <1>5, <1>6, DecrefMaps

LEMMA ConstructedMaps ==
    ASSUME IInv, IInv', Unshared, Constructed
    PROVE  Maps
<1>1. PICK f \in Frames : f = Top /\ stack # <<>> /\ f.at = "constructing"
  BY TopOK DEF Constructed
<1>2. CASE UNCHANGED <<ovars, qvars, wvars>>
  <2>1. UNCHANGED <<state, held, wrapper_key, obj>>
    BY <1>2 DEF ovars, qvars, wvars
  <2> QED
    BY <2>1, QuietMaps
<1>3. CASE ~UNCHANGED <<ovars, qvars, wvars>>
  <2>1. PICK w : w = wrapper_key[f.o]
    OBVIOUS
  <2>2. w # NULL /\ Release(f.o, w) /\ UNCHANGED held
    BY <1>1, <1>3, <2>1 DEF Constructed
  <2> QED
    BY <1>1, <2>1, <2>2, ReleaseMaps
<1> QED
  BY <1>2, <1>3

LEMMA ConstructedReturnsMaps ==
    ASSUME IInv, IInv', Unshared, ConstructedReturns
    PROVE  Maps
<1>1. PICK f \in Frames : f = Top /\ stack # <<>> /\ f.at = "do_constructed"
  BY TopOK DEF ConstructedReturns
<1>2. PICK w : w = f.w /\ w = wrapper_key[f.o] /\ w # NULL
  BY <1>1 DEF IInv, FrameOK, Meeting
<1>3. Release(f.o, w) /\ UNCHANGED held
  BY <1>1, <1>2 DEF ConstructedReturns
<1> QED
  BY <1>1, <1>2, <1>3, ReleaseMaps

\* Nothing but the states and the wrappers of one object changes.
LEMMA OthersSame ==
    ASSUME IInv, NEW o, NEW w,
           \A p \in Object : p # o => state'[p] = state[p] /\ wrapper_key'[p] = wrapper_key[p],
           \A v \in Wrapper : v # w => held'[v] = held[v],
           w \in Wrapper => obj[w] \in {NULL, o}
    PROVE  \A p \in Object \ {o} : Same(p)
<1> SUFFICES ASSUME NEW p \in Object \ {o} PROVE Same(p)
  OBVIOUS
<1>1. wrapper_key[p] # NULL => wrapper_key[p] \in Wrapper /\ obj[wrapper_key[p]] = p /\ p # NULL
  BY Wrapping
<1>2. wrapper_key[p] # NULL => wrapper_key[p] # w
  BY <1>1
<1> QED
  BY <1>1, <1>2 DEF Same, StateOf, HandOf

LEMMA BeginMaps ==
    ASSUME IInv, IInv', Unshared, NEW by, NEW o \in Object, NEW self, Begin(by, o, self)
    PROVE  Maps
<1>1. /\ state[o] = "absent" /\ state' = [state EXCEPT ![o] = "making"] /\ TypeOK
      /\ UNCHANGED <<wrapper_key, held, obj>>
  BY DEF Begin, qvars, wvars, IInv
<1>2. Unshared'
  BY <1>1 DEF Unshared
<1>3. wrapper_key[o] = NULL
  BY <1>1 DEF IInv, ObjectOK
<1>4. \A p \in Object \ {o} : Same(p)
  BY <1>1 DEF Same, StateOf, HandOf, TypeOK
<1>5. StateOf(o) = "unbound" /\ StateOf(o)' = "bound" /\ HandOf(o)' = 0
  BY <1>1, <1>3 DEF StateOf, HandOf, TypeOK
<1> QED
  BY <1>2, <1>4, <1>5, OneMaps DEF Maps

LEMMA AllocMaps ==
    ASSUME IInv, IInv', Unshared, NEW w \in Wrapper, NEW c, Alloc(w, c)
    PROVE  Maps
<1>1. /\ ob_refcnt[w] = 0 /\ held' = [held EXCEPT ![w] = 1] /\ TypeOK
      /\ UNCHANGED <<state, wrapper_key, obj>>
  BY DEF Alloc, ovars, qvars, IInv
<1>2. obj[w] = NULL
  BY <1>1, Free
<1>3. \A v \in Wrapper : held'[v] = IF v = w THEN 1 ELSE held[v]
  BY <1>1 DEF TypeOK
<1>4. Unshared'
  BY <1>1, <1>3 DEF Unshared
<1>5. NULL \notin Object
  BY ConstructionAssumption
<1>6. \A p \in Object \ {NULL} : Same(p)
  BY <1>1, <1>2, <1>3, OthersSame
<1> QED
  BY <1>4, <1>5, <1>6, StutterMaps DEF Maps

LEMMA HandedMaps ==
    ASSUME IInv, IInv', Unshared, NEW o \in Object, NEW w \in Wrapper, Handed(o, w)
    PROVE  Maps
<1>1. /\ state[o] = "making" /\ state' = state /\ held' = [held EXCEPT ![w] = @ + 1] /\ TypeOK /\ w # NULL /\ o # NULL
  BY ConstructionAssumption DEF Handed, IInv
<1>2. \A v \in Wrapper : held'[v] = IF v = w THEN held[v] + 1 ELSE held[v]
  BY <1>1 DEF TypeOK
<1>3. StateOf(o) = "bound" /\ StateOf(o)' = "bound"
  BY <1>1 DEF StateOf
<1>4. CASE wrapper_key[o] = w
  <2>1. obj[w] = o /\ UNCHANGED <<wrapper_key, obj>>
    BY <1>1, <1>4, Wrapping DEF Handed
  <2>2. Unshared'
    BY <1>1, <1>2, <2>1 DEF Unshared
  <2>3. \A p \in Object \ {o} : Same(p)
    BY <1>1, <1>2, <2>1, OthersSame
  <2>4. HandOf(o)' = HandOf(o) + 1
    BY <1>1, <1>2, <1>4, <2>1 DEF HandOf
  <2> QED
    BY <1>3, <2>2, <2>3, <2>4, OneMaps DEF Maps
<1>5. CASE wrapper_key[o] # w
  <2>1. /\ wrapper_key[o] = NULL /\ ob_refcnt[w] = 0
        /\ obj' = [obj EXCEPT ![w] = o] /\ wrapper_key' = [wrapper_key EXCEPT ![o] = w]
    BY <1>5 DEF Handed, Wraps
  <2>2. obj[w] = NULL /\ held[w] = 0
    BY <2>1, Free
  <2>3. /\ \A v \in Wrapper : obj'[v] = IF v = w THEN o ELSE obj[v]
        /\ \A p \in Object : wrapper_key'[p] = IF p = o THEN w ELSE wrapper_key[p]
    BY <1>1, <2>1 DEF TypeOK
  <2>4. Unshared'
    BY <1>1, <1>2, <2>3 DEF Unshared
  <2>5. \A p \in Object \ {o} : Same(p)
    BY <1>1, <1>2, <2>2, <2>3, OthersSame
  <2>6. HandOf(o) = 0 /\ HandOf(o)' = 1
    BY <1>1, <1>2, <2>1, <2>2, <2>3 DEF HandOf
  <2> QED
    BY <1>3, <2>4, <2>5, <2>6, OneMaps DEF Maps
<1> QED
  BY <1>4, <1>5

LEMMA DropMaps ==
    ASSUME IInv, IInv', Unshared, NEW w \in Wrapper, Drop(w)
    PROVE  Maps
<1>1. /\ held' = [held EXCEPT ![w] = @ - 1] /\ Decref(w, 1) /\ TypeOK /\ TypeOK' /\ WrapperOK(w) /\ WrapperOK(w)'
      /\ held[w] \in Nat /\ held[w] > 0 /\ held'[w] \in Nat /\ w # NULL
  <2>1. held[w] > Flag(\E f \in Frames : f.self = w) /\ TypeOK /\ TypeOK'
    BY DEF Drop, IInv
  <2>2. held[w] \in Nat /\ held[w] > 0 /\ held'[w] \in Nat
    BY <2>1 DEF TypeOK, Flag
  <2> QED
    BY <2>1, <2>2, ConstructionAssumption DEF Drop, IInv
<1>2. \A v \in Wrapper : held'[v] = IF v = w THEN held[v] - 1 ELSE held[v]
  BY <1>1 DEF TypeOK
<1>3. CASE obj[w] = NULL
  <2>1. UNCHANGED <<state, wrapper_key, obj>>
    BY <1>1, <1>3 DEF Decref
  <2>2. held'[w] <= 1
    BY <1>1, <1>2, <1>3 DEF Unshared
  <2>3. Unshared'
    BY <1>2, <2>1, <2>2 DEF Unshared
  <2>4. \A p \in Object \ {NULL} : Same(p)
    BY <1>2, <1>3, <2>1, OthersSame
  <2>5. NULL \notin Object
    BY ConstructionAssumption
  <2> QED
    BY <2>3, <2>4, <2>5, StutterMaps DEF Maps
<1>4. CASE obj[w] # NULL
  <2>1. PICK o \in Object : o = obj[w] /\ wrapper_key[o] = w /\ HandOf(o) = held[w]
    BY <1>1, <1>4 DEF TypeOK, WrapperOK, HandOf
  <2>2. state[o] # "absent" /\ state[o] \in {"making", "made", "gone"}
    BY <1>1, <2>1 DEF IInv, ObjectOK, TypeOK
  <2>3. CASE ob_refcnt[w] = 1
    <3>1. /\ wrapper_key' = [wrapper_key EXCEPT ![o] = NULL] /\ obj' = [obj EXCEPT ![w] = NULL]
          /\ ob_refcnt' = [ob_refcnt EXCEPT ![w] = @ - 1]
          /\ state' = [state EXCEPT ![o] = IF ref_count[o] = 1 THEN "gone" ELSE @]
      BY <1>1, <1>4, <2>1, <2>3 DEF Decref
    <3>2. /\ wrapper_key'[o] = NULL /\ obj'[w] = NULL /\ ob_refcnt'[w] = 0
          /\ state'[o] = (IF ref_count[o] = 1 THEN "gone" ELSE state[o])
          /\ \A p \in Object : p # o => state'[p] = state[p] /\ wrapper_key'[p] = wrapper_key[p]
          /\ \A v \in Wrapper : v # w => obj'[v] = obj[v]
      BY <1>1, <2>3, <3>1 DEF TypeOK
    <3>3. held'[w] = 0
      <4>1. ob_refcnt'[w] = held'[w] + 0 + Flag(Used(w)')
        BY <1>1, <3>2 DEF WrapperOK, Flag
      <4> QED
        BY <1>1, <3>2, <4>1 DEF Flag
    <3>4. Unshared'
      BY <1>2, <3>2, <3>3 DEF Unshared
    <3>5. \A p \in Object \ {o} : Same(p)
      BY <1>2, <2>1, <3>2, OthersSame
    <3>6. HandOf(o) = 1 /\ HandOf(o)' = 0
      BY <1>1, <1>2, <2>1, <3>2, <3>3 DEF HandOf
    <3>7. StateOf(o)' = "gone" \/ StateOf(o)' = StateOf(o)
      BY <3>2 DEF StateOf
    <3> QED
      BY <3>4, <3>5, <3>6, <3>7, OneMaps DEF Maps
  <2>4. CASE ob_refcnt[w] # 1
    <3>1. UNCHANGED <<state, wrapper_key, obj>>
      BY <1>1, <2>4 DEF Decref
    <3>2. Unshared'
      <4>1. \A v \in Wrapper : obj'[v] = NULL => v # w /\ obj[v] = NULL /\ held'[v] = held[v]
        BY <1>2, <1>4, <3>1
      <4> QED
        BY <4>1 DEF Unshared
    <3>3. \A p \in Object \ {o} : Same(p)
      BY <1>2, <2>1, <3>1, OthersSame
    <3>4. HandOf(o) > 0 /\ HandOf(o)' = HandOf(o) - 1
      BY <1>1, <1>2, <2>1, <3>1 DEF HandOf
    <3>5. StateOf(o)' = StateOf(o)
      BY <3>1 DEF StateOf
    <3> QED
      BY <3>2, <3>3, <3>4, <3>5, OneMaps DEF Maps
  <2> QED
    BY <2>3, <2>4
<1> QED
  BY <1>3, <1>4

LEMMA InstanceInitMaps ==
    ASSUME IInv, IInv', Unshared, NEW w \in Wrapper, InstanceInit(w)
    PROVE  Maps
<1>1. PICK f \in Frames : f = Top /\ stack # <<>> /\ f.at \in {"ancestors", "levels"} /\ f.level < Levels[TypeOf[f.o]]
  BY TopOK DEF InstanceInit
<1>2. PICK o \in Object : o = f.o /\ o # NULL /\ TypeOK /\ FrameOK(f) /\ state[o] = "making" /\ w # NULL
  BY FrameFacts, ConstructionAssumption DEF IInv, FrameOK
<1>3. UNCHANGED <<state, held>>
  BY DEF InstanceInit
<1>4. StateOf(o) = "bound" /\ StateOf(o)' = "bound"
  BY <1>2, <1>3 DEF StateOf
<1>5. CASE wrapper_key[o] # NULL
  <2>1. UNCHANGED <<wrapper_key, obj>>
    BY <1>1, <1>2, <1>5 DEF InstanceInit
  <2> QED
    BY <1>3, <2>1, QuietMaps
<1>6. CASE wrapper_key[o] = NULL
  <2>1. /\ obj' = [obj EXCEPT ![w] = o] /\ wrapper_key' = [wrapper_key EXCEPT ![o] = w]
        /\ obj[w] = NULL /\ held[w] \in {0, 1}
    <3>1. CASE construction # NULL
      <4>1. f.self = construction /\ f.level = 0 /\ f.by = "init"
        BY <1>1, <1>2, <1>6, <3>1, Unmet
      <4>2. construction = w
        BY <1>1, <1>2, <1>6, <3>1 DEF InstanceInit
      <4>3. obj[w] = NULL /\ held[w] > 0
        BY <1>2, <4>1, <4>2 DEF FrameOK, Meeting
      <4>4. held[w] \in Nat /\ held[w] <= 1
        BY <1>2, <4>3 DEF TypeOK, Unshared
      <4> QED
        BY <1>1, <1>2, <1>6, <4>2, <4>3, <4>4, <3>1 DEF InstanceInit, Unbound
    <3>2. CASE construction = NULL
      <4>1. Wraps(w, o)
        BY <1>1, <1>2, <1>6, <3>2 DEF InstanceInit
      <4>2. obj[w] = NULL /\ held[w] = 0
        BY <4>1, Free DEF Wraps
      <4> QED
        BY <4>1, <4>2 DEF Wraps
    <3> QED
      BY <3>1, <3>2
  <2>2. /\ \A v \in Wrapper : obj'[v] = IF v = w THEN o ELSE obj[v]
        /\ \A p \in Object : wrapper_key'[p] = IF p = o THEN w ELSE wrapper_key[p]
    BY <1>2, <2>1 DEF TypeOK
  <2>3. Unshared'
    BY <1>2, <1>3, <2>2 DEF Unshared
  <2>4. \A p \in Object \ {o} : Same(p)
    BY <1>3, <2>1, <2>2, OthersSame
  <2>5. HandOf(o) = 0 /\ HandOf(o)' = held[w]
    BY <1>2, <1>3, <1>6, <2>2 DEF HandOf
  <2>6. CASE held[w] = 0
    <3>1. \A p \in Object : Same(p)
      BY <1>4, <2>4, <2>5, <2>6 DEF Same
    <3> QED
      BY <2>3, <3>1, StutterMaps DEF Maps
  <2>7. CASE held[w] = 1
    BY <1>4, <2>3, <2>4, <2>5, <2>7, OneMaps DEF Maps
  <2> QED
    BY <2>1, <2>6, <2>7
<1> QED
  BY <1>5, <1>6

LEMMA CallSetterMaps ==
    ASSUME IInv, IInv', Unshared, NEW w \in Wrapper, CallSetter(w)
    PROVE  Maps
<1>1. PICK f \in Frames : f = Top /\ stack # <<>>
  BY TopOK DEF CallSetter
<1>2. PICK o \in Object : o = f.o /\ o # NULL /\ TypeOK /\ w # NULL
  BY FrameFacts, ConstructionAssumption DEF IInv
<1>3. UNCHANGED <<state, held>> /\ RetainFloating(o, w)
  BY <1>1, <1>2 DEF CallSetter
<1>4. CASE wrapper_key[o] = w
  <2>1. UNCHANGED <<wrapper_key, obj>>
    BY <1>2, <1>3, <1>4 DEF RetainFloating
  <2> QED
    BY <1>3, <2>1, QuietMaps
<1>5. CASE wrapper_key[o] # w
  <2>1. wrapper_key[o] = NULL /\ Wraps(w, o)
    BY <1>3, <1>5 DEF RetainFloating
  <2>2. obj[w] = NULL /\ held[w] = 0
    BY <2>1, Free DEF Wraps
  <2>3. /\ \A v \in Wrapper : obj'[v] = IF v = w THEN o ELSE obj[v]
        /\ \A p \in Object : wrapper_key'[p] = IF p = o THEN w ELSE wrapper_key[p]
    BY <1>2, <2>1 DEF TypeOK, Wraps
  <2>4. Unshared'
    BY <1>2, <1>3, <2>3 DEF Unshared
  <2>5. \A p \in Object \ {o} : Same(p)
    BY <1>3, <2>2, <2>3, OthersSame
  <2>6. Same(o)
    BY <1>2, <1>3, <2>1, <2>2, <2>3 DEF Same, StateOf, HandOf
  <2>7. \A p \in Object : Same(p)
    BY <2>5, <2>6
  <2> QED
    BY <2>4, <2>7, StutterMaps DEF Maps
<1> QED
  BY <1>4, <1>5

LEMMA NewEndsMaps ==
    ASSUME IInv, IInv', Unshared, NEW o \in Object, NEW w \in Wrapper, NewEnds(o, w)
    PROVE  Maps
<1>1. Returns(o) /\ TypeOK /\ w # NULL /\ o # NULL
  BY ConstructionAssumption DEF NewEnds, IInv
<1>2. PICK f \in Frames : f = Top /\ f.o = o /\ FrameOK(f) /\ f.at = "settled"
  BY <1>1, Ending
<1>3. f.by = "new" /\ wrapper_key[o] = NULL /\ state[o] = "making"
  BY <1>2 DEF NewEnds, FrameOK, Owned
<1>4. StateOf(o) = "bound" /\ HandOf(o) = 0
  BY <1>3 DEF StateOf, HandOf
<1>5. CASE error
  <2>1. UNCHANGED <<wrapper_key, held, obj>> /\ state' = [state EXCEPT ![o] = IF ref_count[o] = 1 THEN "gone" ELSE "made"]
    BY <1>5 DEF NewEnds, wvars
  <2>2. state'[o] \in {"gone", "made"} /\ \A p \in Object : p # o => state'[p] = state[p]
    BY <1>1, <2>1 DEF TypeOK
  <2>3. Unshared'
    BY <2>1 DEF Unshared
  <2>4. \A p \in Object \ {o} : Same(p)
    BY <2>1, <2>2 DEF Same, StateOf, HandOf
  <2>5. HandOf(o)' = 0 /\ StateOf(o)' \in {"gone", "bound"}
    BY <1>3, <2>1, <2>2 DEF HandOf, StateOf
  <2>6. CASE StateOf(o)' = "gone"
    BY <1>4, <2>3, <2>4, <2>5, <2>6, OneMaps DEF Maps
  <2>7. CASE StateOf(o)' = "bound"
    <3>1. \A p \in Object : Same(p)
      BY <1>4, <2>4, <2>5, <2>7 DEF Same
    <3> QED
      BY <2>3, <3>1, StutterMaps DEF Maps
  <2> QED
    BY <2>5, <2>6, <2>7
<1>6. CASE ~error
  <2>1. /\ state' = [state EXCEPT ![o] = "made"] /\ held' = [held EXCEPT ![w] = @ + 1]
        /\ ob_refcnt[w] = 0 /\ obj' = [obj EXCEPT ![w] = o] /\ wrapper_key' = [wrapper_key EXCEPT ![o] = w]
    BY <1>1, <1>3, <1>6 DEF NewEnds, Wraps
  <2>2. obj[w] = NULL /\ held[w] = 0
    BY <2>1, Free
  <2>3. /\ \A v \in Wrapper : obj'[v] = (IF v = w THEN o ELSE obj[v]) /\ held'[v] = (IF v = w THEN 1 ELSE held[v])
        /\ \A p \in Object : /\ wrapper_key'[p] = IF p = o THEN w ELSE wrapper_key[p]
                             /\ state'[p] = IF p = o THEN "made" ELSE state[p]
    BY <1>1, <2>1, <2>2 DEF TypeOK
  <2>4. Unshared'
    BY <1>1, <2>3 DEF Unshared
  <2>5. \A p \in Object \ {o} : Same(p)
    BY <2>2, <2>3, OthersSame
  <2>6. HandOf(o)' = HandOf(o) + 1 /\ StateOf(o)' = "bound"
    BY <1>1, <1>4, <2>3 DEF HandOf, StateOf
  <2> QED
    BY <1>4, <2>4, <2>5, <2>6, OneMaps DEF Maps
<1> QED
  BY <1>5, <1>6

LEMMA InitEndsMaps ==
    ASSUME IInv, IInv', Unshared, NEW o \in Object, InitEnds(o)
    PROVE  Maps
<1>1. Returns(o) /\ TypeOK /\ o # NULL
  BY ConstructionAssumption DEF InitEnds, IInv
<1>2. PICK f \in Frames : f = Top /\ f.o = o /\ FrameOK(f) /\ f.at = "settled" /\ f.self \in Wrapper \cup {NULL} /\ f.level \in Nat
  BY <1>1, Ending
<1>3. PICK w \in Wrapper : w = f.self /\ w # NULL /\ f.by = "init"
  BY <1>2, ConstructionAssumption DEF InitEnds, FrameOK, Meeting
<1>4. /\ obj' = [obj EXCEPT ![w] = o] /\ wrapper_key' = [wrapper_key EXCEPT ![o] = w]
      /\ state' = [state EXCEPT ![o] = "made"] /\ UNCHANGED held
  BY <1>2, <1>3 DEF InitEnds
<1>5. /\ \A v \in Wrapper : obj'[v] = IF v = w THEN o ELSE obj[v]
      /\ \A p \in Object : /\ wrapper_key'[p] = IF p = o THEN w ELSE wrapper_key[p]
                           /\ state'[p] = IF p = o THEN "made" ELSE state[p]
  BY <1>1, <1>4 DEF TypeOK
<1>6. Unshared'
  BY <1>1, <1>4, <1>5 DEF Unshared
<1>7. StateOf(o) = "bound" /\ StateOf(o)' = "bound" /\ HandOf(o)' = held[w]
  BY <1>2, <1>3, <1>4, <1>5 DEF FrameOK, StateOf, HandOf
<1>8. CASE f.level = 0
  <2>1. obj[w] = NULL /\ held[w] > 0 /\ wrapper_key[o] = NULL
    BY <1>2, <1>3, <1>8 DEF FrameOK, Meeting
  <2>2. held[w] = 1
    BY <1>1, <2>1 DEF TypeOK, Unshared
  <2>3. \A p \in Object \ {o} : Same(p)
    BY <1>4, <1>5, <2>1, OthersSame
  <2>4. HandOf(o)' = HandOf(o) + 1
    BY <1>7, <2>1, <2>2 DEF HandOf
  <2> QED
    BY <1>6, <1>7, <2>3, <2>4, OneMaps DEF Maps
<1>9. CASE f.level # 0
  <2>1. wrapper_key[o] = w /\ obj[w] = o
    BY <1>2, <1>3, <1>9, Wrapping DEF FrameOK, Meeting
  <2>2. \A p \in Object \ {o} : Same(p)
    <3>1. /\ obj[w] \in {NULL, o}
          /\ \A p \in Object : p # o => state'[p] = state[p] /\ wrapper_key'[p] = wrapper_key[p]
          /\ \A v \in Wrapper : v # w => held'[v] = held[v]
      BY <1>4, <1>5, <2>1
    <3> QED
      BY <3>1, OthersSame
  <2>3. HandOf(o) = held[w]
    BY <1>3, <2>1 DEF HandOf
  <2>4. \A p \in Object : Same(p)
    BY <1>7, <2>2, <2>3 DEF Same
  <2> QED
    BY <1>6, <2>4, StutterMaps DEF Maps
<1> QED
  BY <1>8, <1>9

LEMMA CEndsMaps ==
    ASSUME IInv, IInv', Unshared, NEW o \in Object, CEnds(o)
    PROVE  Maps
<1>1. Returns(o) /\ TypeOK
  BY DEF CEnds, IInv
<1>2. state[o] = "making"
  BY <1>1, Ending DEF FrameOK
<1>3. state' = [state EXCEPT ![o] = "made"] /\ UNCHANGED <<wrapper_key, obj, held>>
  BY DEF CEnds, qvars, wvars
<1>4. \A p \in Object : Same(p)
  BY <1>1, <1>2, <1>3 DEF Same, StateOf, HandOf, TypeOK
<1> QED
  BY <1>3, <1>4, StutterMaps DEF Maps, Unshared

LEMMA NextMaps ==
    ASSUME ~EarlyUse, ~KeptByNew, IInv, Unshared, [Next]_vars
    PROVE  Unshared' /\ [Instance!Next]_Instance!vars
<1>1. IInv'
  BY NextOK, Stutters
<1>2. CASE UNCHANGED vars
  BY <1>1, <1>2, QuietMaps DEF Maps, vars, ovars, qvars, wvars
<1>3. ASSUME NEW w \in Wrapper, NEW c \in Class, Alloc(w, c) PROVE Maps
  BY <1>1, <1>3, AllocMaps
<1>4. ASSUME NEW w \in Wrapper, NEW o \in Object, PyInit(w, o) PROVE Maps
  BY <1>1, <1>4, BeginMaps DEF PyInit
<1>5. ASSUME NEW w \in Wrapper, NEW o \in Object, Handed(o, w) PROVE Maps
  BY <1>1, <1>5, HandedMaps
<1>6. ASSUME NEW w \in Wrapper, NEW o \in Object, NewEnds(o, w) PROVE Maps
  BY <1>1, <1>6, NewEndsMaps
<1>7. ASSUME NEW w \in Wrapper, Drop(w) PROVE Maps
  BY <1>1, <1>7, DropMaps
<1>8. ASSUME NEW w \in Wrapper, InstanceInit(w) PROVE Maps
  BY <1>1, <1>8, InstanceInitMaps
<1>9. ASSUME NEW w \in Wrapper, CallSetter(w) PROVE Maps
  BY <1>1, <1>9, CallSetterMaps
<1>10. ASSUME NEW o \in Object, PyNew(o) \/ CNew(o) PROVE Maps
  BY <1>1, <1>10, BeginMaps DEF PyNew, CNew
<1>11. ASSUME NEW o \in Object, Adopt(o) \/ Abandon(o) PROVE Maps
  BY <1>1, <1>11, ReferencesMap
<1>12. ASSUME NEW o \in Object, InitEnds(o) PROVE Maps
  BY <1>1, <1>12, InitEndsMaps
<1>13. ASSUME NEW o \in Object, CEnds(o) PROVE Maps
  BY <1>1, <1>13, CEndsMaps
<1>14. ASSUME CallTemplate \/ TemplateReturns \/ Inited \/ InitReturns \/ Constructing PROVE Maps
  BY <1>1, <1>14, HooksMap
<1>15. ASSUME SetterReturns \/ Constructed \/ ConstructedReturns PROVE Maps
  BY <1>1, <1>15, SetterReturnsMaps, ConstructedMaps, ConstructedReturnsMaps
<1>16. ASSUME Next PROVE Maps
  BY <1>3, <1>4, <1>5, <1>6, <1>7, <1>8, <1>9, <1>10, <1>11, <1>12, <1>13, <1>14, <1>15, <1>16 DEF Next
<1> QED
  BY <1>2, <1>16 DEF Maps

\* To Python, each object under construction has one instance, of its own class,
\* from the first hook that sees it on: the wrapper that __init__ was called with
\* or the one that instance_init made, and none that Python holds vanishes.
THEOREM ConstructionImplementsInstance ==
    ASSUME ~EarlyUse, ~KeptByNew
    PROVE  Spec => IsInstance
<1>1. Init => Instance!Init /\ Unshared
  <2> SUFFICES ASSUME Init PROVE Instance!Init /\ Unshared
    OBVIOUS
  <2>1. /\ \A o \in Object : state[o] = "absent" /\ wrapper_key[o] = NULL
        /\ \A w \in Wrapper : held[w] = 0
    BY DEF Init
  <2>2. [o \in Object |-> TypeOf[o]] = TypeOf
    BY ConstructionAssumption
  <2> QED
    BY <2>1, <2>2 DEF Instance!Init, Unshared
<1>2. IInv /\ Unshared /\ [Next]_vars => Unshared' /\ [Instance!Next]_Instance!vars
  BY NextMaps
<1>3. Spec => []IInv
  BY Invariance
<1> QED
  BY <1>1, <1>2, <1>3, PTL DEF Spec, IsInstance, Instance!Spec
=============================================================================
