------------------------ MODULE ObjectWrapper_proofs ------------------------
(***************************************************************************)
(* Safety of the wrapper life cycle, for any number of objects, wrappers   *)
(* and threads, as long as no dying wrapper is asked for (RewrapDying);    *)
(* that it implements PersistentInstance; and that do_dispose runs once    *)
(* and in time while one thread at most calls g_object_run_dispose.        *)
(***************************************************************************)
EXTENDS ObjectWrapper, FiniteSetTheorems, TLAPS

USE DEF Flag

\* The sets the reference counts are compared with are finite.
LEMMA FiniteOwners ==
    ASSUME TypeOK
    PROVE  /\ \A o \in Object : /\ IsFiniteSet(Wrappers(o))
                                /\ Cardinality(Wrappers(o)) \in Nat
                                /\ IsFiniteSet(Running(o))
                                /\ Cardinality(Running(o)) \in Nat
           /\ \A w \in Wrapper : /\ IsFiniteSet(FramesOf(w))
                                 /\ Cardinality(FramesOf(w)) \in Nat
<1>1. IsFiniteSet(Wrapper) /\ IsFiniteSet(Runner)
  BY ConstantsAssumption
<1>2. IsFiniteSet(Disposer)
  <2>1. Disposer = (Runner \cup {"finalizer"}) \cup {"last"}
    BY DEF Disposer
  <2>2. IsFiniteSet(Runner \cup {"finalizer"})
    BY <1>1, FS_AddElement
  <2> QED
    BY <2>1, <2>2, FS_AddElement
<1>3. \A o \in Object : Wrappers(o) \subseteq Wrapper /\ Running(o) \subseteq Disposer
  BY DEF Wrappers, Running
<1>4. \A w \in Wrapper : FramesOf(w) \subseteq Disposer
  BY DEF FramesOf
<1> QED
  BY <1>1, <1>2, <1>3, <1>4, FS_Subset, FS_CardinalityType

\* What pygobject_get_inst_data creates is instance data.
LEMMA NewDataType ==
    /\ \A c \in Class : NewData(c) \in InstData
    /\ \A d \in InstData : d # NULL
<1>1. \A c : (c \in CustomDispose) \in BOOLEAN
  OBVIOUS
<1> QED
  BY <1>1, ConstantsAssumption, NullIsNoData DEF NewData, InstData

LEMMA InitIInv == Init => IInv
<1> SUFFICES ASSUME Init PROVE IInv
  OBVIOUS
<1>1. TypeOK
  <2>1. (CHOOSE c \in Class : TRUE) \in Class
    <3>1. \E c \in Class : TRUE
      BY ConstantsAssumption
    <3> QED
      BY <3>1
  <2> QED
    BY <2>1 DEF Init, TypeOK, Phase
<1>2. RefCountExact
  <2>1. \A o \in Object : Wrappers(o) = {} /\ Running(o) = {}
    BY ConstantsAssumption DEF Init, Wrappers, Running
  <2>2. Cardinality({}) = 0
    BY FS_EmptySet
  <2>3. \A o \in Object : /\ ref_count[o] = 0 /\ cref[o] = 0 /\ floating[o] = FALSE
                          /\ dispose[o]["last"] = "idle"
    BY DEF Init, Disposer
  <2> QED
    BY <2>1, <2>2, <2>3 DEF RefCountExact
<1>3. PyRefCountExact
  <2>1. \A w \in Wrapper : FramesOf(w) = {}
    BY DEF Init, FramesOf
  <2>2. Cardinality({}) = 0
    BY FS_EmptySet
  <2>3. \A w \in Wrapper : ob_refcnt[w] = 0 /\ held[w] = 0 /\ phase[w] = "free"
    BY DEF Init
  <2> QED
    BY <2>1, <2>2, <2>3 DEF PyRefCountExact
<1>4. OneWrapper /\ Lifetime /\ KeyPointsBack /\ Phases
  BY DEF Init, OneWrapper, Lifetime, KeyPointsBack, Phases, Usable
<1>5. DataBound /\ FramesLive /\ FinalizerFrame /\ LastUnref
  BY ConstantsAssumption DEF Init, DataBound, FramesLive, FinalizerFrame, LastUnref, Disposer
<1> QED
  BY <1>1, <1>2, <1>3, <1>4, <1>5 DEF IInv

\* ref_count splits into the parts RefCountExact adds up.
LEMMA Parts ==
    ASSUME IInv, NEW o \in Object
    PROVE  \E c, f, n, r, l \in Nat :
              /\ ref_count[o] = c + f + n + r + l
              /\ c = cref[o] /\ f = Flag(floating[o])
              /\ n = Cardinality(Wrappers(o)) /\ r = Cardinality(Running(o))
              /\ l = Flag(dispose[o]["last"] # "idle" /\ last_by[o] = NULL)
<1>1. /\ cref[o] \in Nat /\ Flag(floating[o]) \in Nat
      /\ Flag(dispose[o]["last"] # "idle" /\ last_by[o] = NULL) \in Nat
  BY DEF IInv, TypeOK
<1>2. Cardinality(Wrappers(o)) \in Nat /\ Cardinality(Running(o)) \in Nat
  BY FiniteOwners DEF IInv
<1> QED
  BY <1>1, <1>2 DEF IInv, RefCountExact

\* An object with ref_count 0 has no owner of any kind.
LEMMA NoOwners ==
    ASSUME IInv, NEW o \in Object, ref_count[o] = 0
    PROVE  /\ cref[o] = 0 /\ ~floating[o] /\ Wrappers(o) = {} /\ Running(o) = {}
           /\ wrapper_key[o] = NULL /\ last_by[o] = NULL
           /\ \A k \in Disposer : dispose[o][k] = "idle"
<1>1. /\ cref[o] = 0 /\ Flag(floating[o]) = 0
      /\ Cardinality(Wrappers(o)) = 0 /\ Cardinality(Running(o)) = 0
      /\ Flag(dispose[o]["last"] # "idle" /\ last_by[o] = NULL) = 0
  BY Parts
<1>2. Wrappers(o) = {} /\ Running(o) = {}
  BY <1>1, FiniteOwners, FS_EmptySet DEF IInv
<1>3. wrapper_key[o] = NULL
  BY <1>2 DEF IInv, TypeOK, KeyPointsBack, Wrappers
<1>4. last_by[o] = NULL
  BY <1>2 DEF IInv, TypeOK, LastUnref, Wrappers
<1>5. dispose[o]["last"] = "idle"
  BY <1>1, <1>4
<1>6. \A k \in Disposer : dispose[o][k] = "idle"
  BY <1>2, <1>5 DEF Running
<1> QED
  BY <1>1, <1>2, <1>3, <1>4, <1>6

\* A step that concerns one object keeps the balance of all the others.
LEMMA RefCountStep ==
    ASSUME RefCountExact, NEW o \in Object,
           ref_count'[o] = cref'[o] + Flag(floating'[o]) + Cardinality(Wrappers(o)')
                             + Cardinality(Running(o)')
                             + Flag(dispose'[o]["last"] # "idle" /\ last_by'[o] = NULL),
           \A p \in Object \ {o} :
              /\ ref_count'[p] = ref_count[p] /\ floating'[p] = floating[p]
              /\ cref'[p] = cref[p] /\ dispose'[p] = dispose[p]
              /\ last_by'[p] = last_by[p] /\ Wrappers(p)' = Wrappers(p)
    PROVE  RefCountExact'
<1>1. \A p \in Object \ {o} : Running(p)' = Running(p)
  BY DEF Running
<1> QED
  BY <1>1 DEF RefCountExact

\* The same for the reference counts of wrappers.
LEMMA PyParts ==
    ASSUME IInv, NEW w \in Wrapper
    PROVE  \E h, n, f \in Nat :
              /\ ob_refcnt[w] = h + n + f
              /\ h = held[w] /\ n = Cardinality(FramesOf(w))
              /\ f = Flag(phase[w] = "finalizing")
<1>1. held[w] \in Nat /\ Flag(phase[w] = "finalizing") \in Nat
  BY DEF IInv, TypeOK
<1>2. Cardinality(FramesOf(w)) \in Nat
  BY FiniteOwners DEF IInv
<1> QED
  BY <1>1, <1>2 DEF IInv, PyRefCountExact

LEMMA PyRefCountStep ==
    ASSUME PyRefCountExact, NEW w \in Wrapper,
           ob_refcnt'[w] = held'[w] + Cardinality(FramesOf(w)')
                             + Flag(phase'[w] = "finalizing"),
           \A v \in Wrapper \ {w} :
              /\ ob_refcnt'[v] = ob_refcnt[v] /\ held'[v] = held[v]
              /\ FramesOf(v)' = FramesOf(v)
              /\ phase'[v] = "finalizing" <=> phase[v] = "finalizing"
    PROVE  PyRefCountExact'
BY DEF PyRefCountExact

(***************************************************************************)
(* One lemma per action.                                                   *)
(***************************************************************************)
LEMMA CCreateStep ==
    ASSUME IInv, NEW o \in Object, NEW f \in BOOLEAN, CCreate(o, f)
    PROVE  IInv'
<1> USE DEF IInv
<1>t. TypeOK'
  <2>1. TypeOf[o] \in Class
    BY ConstantsAssumption
  <2> QED
    BY <2>1, NewDataType DEF TypeOK, CCreate, dvars, wvars
<1>1. \A p \in Object : Wrappers(p)' = Wrappers(p) /\ Running(p)' = Running(p)
  BY DEF CCreate, dvars, wvars, Wrappers, Running
<1>2. ref_count[o] = 0
  BY DEF Lifetime, TypeOK, CCreate
<1>3. RefCountExact'
  <2>1. Cardinality({}) = 0
    BY FS_EmptySet
  <2>2. /\ ref_count'[o] = 1 /\ floating'[o] = f /\ cref'[o] = IF f THEN 0 ELSE 1
        /\ dispose'[o]["last"] = "idle"
        /\ Cardinality(Wrappers(o)') = 0 /\ Cardinality(Running(o)') = 0
    BY <1>1, <1>2, <2>1, NoOwners DEF TypeOK, CCreate, Disposer, dvars, wvars
  <2>3. \A p \in Object \ {o} :
           /\ ref_count'[p] = ref_count[p] /\ floating'[p] = floating[p]
           /\ cref'[p] = cref[p] /\ dispose'[p] = dispose[p]
           /\ last_by'[p] = last_by[p]
    BY DEF TypeOK, CCreate, dvars, wvars
  <2> QED
    BY <1>1, <2>2, <2>3, RefCountStep
<1>4. PyRefCountExact'
  BY DEF PyRefCountExact, FramesOf, CCreate, dvars, wvars
<1>5. OneWrapper' /\ KeyPointsBack' /\ Phases' /\ FramesLive' /\ FinalizerFrame' /\ LastUnref'
  BY DEF OneWrapper, KeyPointsBack, Phases, FramesLive, FinalizerFrame, LastUnref, CCreate, dvars, wvars
<1>6. Lifetime' /\ DataBound'
  <2> QED
    BY <1>2, NoOwners, NewDataType DEF Lifetime, DataBound, CCreate, dvars, wvars, TypeOK
<1> QED
  BY <1>t, <1>3, <1>4, <1>5, <1>6

LEMMA CRefStep ==
    ASSUME IInv, NEW o \in Object, CRef(o)
    PROVE  IInv'
<1> USE DEF IInv
<1>t. TypeOK'
  BY DEF TypeOK, CRef, qvars, dvars, wvars
<1>1. \A p \in Object : Wrappers(p)' = Wrappers(p) /\ Running(p)' = Running(p)
  BY DEF CRef, dvars, wvars, Wrappers, Running
<1>2. RefCountExact'
  <2>1. \A p \in Object \ {o} :
           /\ ref_count'[p] = ref_count[p] /\ floating'[p] = floating[p]
           /\ cref'[p] = cref[p] /\ dispose'[p] = dispose[p]
           /\ last_by'[p] = last_by[p]
    BY DEF TypeOK, CRef, dvars
  <2>2. /\ ref_count'[o] = ref_count[o] + 1 /\ cref'[o] = cref[o] + 1
        /\ floating' = floating /\ dispose' = dispose /\ last_by' = last_by
    BY DEF TypeOK, CRef, dvars
  <2> QED
    BY <1>1, <2>1, <2>2, Parts, RefCountStep
<1>3. PyRefCountExact'
  BY DEF PyRefCountExact, FramesOf, CRef, dvars, wvars
<1>4. /\ OneWrapper' /\ KeyPointsBack' /\ Phases' /\ DataBound' /\ FramesLive'
      /\ FinalizerFrame' /\ LastUnref'
  BY DEF OneWrapper, KeyPointsBack, Phases, DataBound, FramesLive, FinalizerFrame,
         LastUnref, CRef, qvars, dvars, wvars
<1>5. Lifetime'
  BY DEF Lifetime, CRef, Reachable, TypeOK
<1> QED
  BY <1>t, <1>2, <1>3, <1>4, <1>5

LEMMA CSinkStep ==
    ASSUME IInv, NEW o \in Object, CSink(o)
    PROVE  IInv'
<1> USE DEF IInv
<1>t. TypeOK'
  BY DEF TypeOK, CSink, qvars, dvars, wvars
<1>1. \A p \in Object : Wrappers(p)' = Wrappers(p) /\ Running(p)' = Running(p)
  BY DEF CSink, dvars, wvars, Wrappers, Running
<1>2. RefCountExact'
  <2>1. \A p \in Object \ {o} :
           /\ ref_count'[p] = ref_count[p] /\ floating'[p] = floating[p]
           /\ cref'[p] = cref[p] /\ dispose'[p] = dispose[p]
           /\ last_by'[p] = last_by[p]
    BY DEF TypeOK, CSink, dvars
  <2>2. /\ ref_count' = ref_count /\ cref'[o] = cref[o] + 1
        /\ floating[o] /\ ~floating'[o] /\ dispose' = dispose /\ last_by' = last_by
    BY DEF TypeOK, CSink, dvars
  <2> QED
    BY <1>1, <2>1, <2>2, Parts, RefCountStep
<1>3. PyRefCountExact'
  BY DEF PyRefCountExact, FramesOf, CSink, dvars, wvars
<1>4. /\ OneWrapper' /\ KeyPointsBack' /\ Phases' /\ DataBound' /\ FramesLive'
      /\ FinalizerFrame' /\ LastUnref' /\ Lifetime'
  BY DEF OneWrapper, KeyPointsBack, Phases, DataBound, FramesLive, FinalizerFrame,
         LastUnref, Lifetime, CSink, qvars, dvars, wvars
<1> QED
  BY <1>t, <1>2, <1>3, <1>4

LEMMA SetAttrStep ==
    ASSUME IInv, NEW w \in Wrapper, NEW v \in Val, SetAttr(w, v)
    PROVE  IInv'
<1> USE DEF IInv
<1>1. obj[w] \in Object /\ inst_data[obj[w]] \in InstData
  BY ConstantsAssumption DEF SetAttr, TypeOK, OneWrapper, DataBound
<1>t. TypeOK'
  <2>1. [inst_data[obj[w]] EXCEPT !.inst_dict = v] \in InstData
    BY <1>1 DEF InstData
  <2> QED
    BY <1>1, <2>1 DEF TypeOK, SetAttr, gvars, dvars, wvars
<1>2. RefCountExact' /\ PyRefCountExact'
  BY DEF RefCountExact, PyRefCountExact, Wrappers, Running, FramesOf, SetAttr,
         gvars, dvars, wvars
<1>3. /\ OneWrapper' /\ KeyPointsBack' /\ Phases' /\ FramesLive'
      /\ FinalizerFrame' /\ LastUnref' /\ Lifetime'
  BY DEF OneWrapper, KeyPointsBack, Phases, FramesLive, FinalizerFrame,
         LastUnref, Lifetime, SetAttr, gvars, dvars, wvars
<1>4. DataBound'
  <2>1. \A p \in Object : inst_data[p] # NULL => inst_data'[p] # NULL
    BY <1>t, <1>1, NullIsNoData DEF SetAttr, TypeOK, InstData
  <2> QED
    BY <2>1 DEF DataBound, SetAttr, dvars
<1> QED
  BY <1>t, <1>2, <1>3, <1>4

LEMMA SetClassStep ==
    ASSUME IInv, NEW w \in Wrapper, NEW c \in Class, SetClass(w, c)
    PROVE  IInv'
<1> USE DEF IInv
<1>t. TypeOK'
  BY DEF TypeOK, SetClass, gvars, qvars, dvars
<1>1. RefCountExact' /\ PyRefCountExact'
  BY DEF RefCountExact, PyRefCountExact, Wrappers, Running, FramesOf, SetClass,
         gvars, dvars
<1>2. /\ OneWrapper' /\ KeyPointsBack' /\ Phases' /\ DataBound' /\ FramesLive'
      /\ FinalizerFrame' /\ LastUnref' /\ Lifetime'
  BY DEF OneWrapper, KeyPointsBack, Phases, DataBound, FramesLive, FinalizerFrame,
         LastUnref, Lifetime, SetClass, gvars, qvars, dvars
<1> QED
  BY <1>t, <1>1, <1>2

LEMMA KeepSelfStep ==
    ASSUME IInv, NEW o \in Object, NEW k \in Disposer, KeepSelf(o, k)
    PROVE  IInv'
<1> USE DEF IInv
<1> DEFINE w == frame[o][k]
<1>1. w \in Wrapper /\ obj[w] = o
  BY DEF KeepSelf, FramesLive
<1>2. phase[w] \in Usable
  <2>1. k \in FramesOf(w)
    BY <1>1, ConstantsAssumption DEF FramesOf, KeepSelf
  <2>2. Cardinality(FramesOf(w)) # 0
    BY <1>1, <2>1, FiniteOwners, FS_EmptySet
  <2>3. ob_refcnt[w] # 0
    BY <1>1, <2>2, FiniteOwners DEF PyRefCountExact, TypeOK
  <2> QED
    BY <1>1, <2>3 DEF Phases
<1>3. /\ held' = [held EXCEPT ![w] = @ + 1]
      /\ ob_refcnt' = [ob_refcnt EXCEPT ![w] = @ + 1]
  BY DEF KeepSelf
<1>t. TypeOK'
  BY <1>1, <1>3 DEF TypeOK, KeepSelf, gvars, qvars, dvars
<1>4. RefCountExact'
  BY DEF RefCountExact, Wrappers, Running, KeepSelf, gvars, dvars
<1>5. PyRefCountExact'
  <2>1. \A v \in Wrapper : FramesOf(v)' = FramesOf(v)
    BY DEF FramesOf, KeepSelf, dvars
  <2>2. /\ ob_refcnt'[w] = ob_refcnt[w] + 1 /\ held'[w] = held[w] + 1
        /\ phase' = phase
        /\ \A v \in Wrapper \ {w} : ob_refcnt'[v] = ob_refcnt[v] /\ held'[v] = held[v]
    BY <1>1, <1>3 DEF TypeOK, KeepSelf
  <2> QED
    BY <1>1, <2>1, <2>2, PyParts, PyRefCountStep
<1>6. Phases'
  BY <1>1, <1>2, <1>3 DEF Phases, KeepSelf, TypeOK
<1>7. /\ OneWrapper' /\ KeyPointsBack' /\ DataBound' /\ FramesLive'
      /\ FinalizerFrame' /\ LastUnref' /\ Lifetime'
  BY DEF OneWrapper, KeyPointsBack, DataBound, FramesLive, FinalizerFrame,
         LastUnref, Lifetime, KeepSelf, gvars, qvars, dvars
<1> QED
  BY <1>t, <1>4, <1>5, <1>6, <1>7

\* What pygobject_new_full establishes about wrappers, whoever calls it.
LEMMA ObtainFacts ==
    ASSUME IInv, RewrapDying = FALSE,
           NEW o \in Object, NEW w \in Wrapper, NEW h \in {0, 1},
           NEW data \in InstData, Obtain(o, w, h, data), dropping' = dropping
    PROVE  /\ wrapper_key' \in [Object -> Wrapper \cup {NULL}]
           /\ inst_data' \in [Object -> InstData \cup {NULL}]
           /\ phase' \in [Wrapper -> Phase]
           /\ obj' \in [Wrapper -> Object \cup {NULL}]
           /\ ob_refcnt' \in [Wrapper -> Nat] /\ held' \in [Wrapper -> Nat]
           /\ pyclass' \in [Wrapper -> Class]
           /\ finalized' \in [Wrapper -> BOOLEAN]
           /\ OneWrapper' /\ KeyPointsBack' /\ Phases'
           /\ obj'[w] = o /\ phase'[w] \in Usable
           /\ \A v \in Wrapper : obj[v] # NULL => obj'[v] = obj[v]
           /\ \A v \in Wrapper : v # w => obj'[v] = obj[v]
           /\ \A v \in Wrapper : phase'[v] = "finalizing" <=> phase[v] = "finalizing"
           /\ \A p \in Object : p # o => Wrappers(p)' = Wrappers(p)
           /\ Registered(o) # NULL =>
                 Wrappers(o)' = Wrappers(o) /\ obj[w] = o /\ obj' = obj
           /\ Registered(o) = NULL =>
                 /\ Cardinality(Wrappers(o)') = Cardinality(Wrappers(o)) + 1
                 /\ obj[w] = NULL /\ ob_refcnt[w] = 0
           /\ \A p \in Object : p # o => wrapper_key'[p] = wrapper_key[p]
<1> USE DEF IInv, Registered
<1>1. CASE /\ wrapper_key[o] = w
           /\ phase[w] = "weakrefs" => RewrapDying
           /\ UNCHANGED <<wrapper_key, phase, obj, pyclass, finalized>>
  <2>1. obj[w] = o /\ phase[w] \in Usable
    BY <1>1, ConstantsAssumption DEF KeyPointsBack, Phases, Usable
  <2>2. \A p \in Object : Wrappers(p)' = Wrappers(p)
    BY <1>1 DEF Wrappers
  <2>3. /\ inst_data' \in [Object -> InstData \cup {NULL}]
        /\ ob_refcnt' \in [Wrapper -> Nat] /\ held' \in [Wrapper -> Nat]
    BY DEF Obtain, TypeOK
  <2>4. Phases'
    BY <1>1, <2>1 DEF Phases, Obtain, TypeOK, Usable
  <2>5. OneWrapper' /\ KeyPointsBack'
    BY <1>1 DEF OneWrapper, KeyPointsBack
  <2>6. wrapper_key[o] # NULL
    BY <1>1, ConstantsAssumption
  <2> QED
    BY <1>1, <2>1, <2>2, <2>3, <2>4, <2>5, <2>6 DEF TypeOK
<1>2. CASE /\ wrapper_key[o] = NULL
           /\ phase[w] = "free"
           /\ wrapper_key' = [wrapper_key EXCEPT ![o] = w]
           /\ phase' = [phase EXCEPT ![w] = "live"]
           /\ obj' = [obj EXCEPT ![w] = o]
           /\ pyclass' = [pyclass EXCEPT ![w] = data.type]
           /\ finalized' = [finalized EXCEPT ![w] = FALSE]
  <2>1. obj[w] = NULL /\ dropping[w] = NULL /\ ob_refcnt[w] = 0
    BY <1>2 DEF Phases, Usable
  <2>2. \A v \in Wrapper : obj[v] # o
    BY <1>2, ConstantsAssumption DEF OneWrapper
  <2>3. \A p \in Object : p # o => Wrappers(p)' = Wrappers(p)
    BY <1>2, <2>1, ConstantsAssumption DEF Wrappers, TypeOK
  <2>4. Cardinality(Wrappers(o)') = Cardinality(Wrappers(o)) + 1
    <3>1. Wrappers(o)' = Wrappers(o) \cup {w} /\ w \notin Wrappers(o)
      BY <1>2, <2>1, <2>2, ConstantsAssumption DEF Wrappers, TypeOK
    <3> QED
      BY <3>1, FiniteOwners, FS_AddElement
  <2>5. /\ wrapper_key' \in [Object -> Wrapper \cup {NULL}]
        /\ inst_data' \in [Object -> InstData \cup {NULL}]
        /\ phase' \in [Wrapper -> Phase]
        /\ obj' \in [Wrapper -> Object \cup {NULL}]
        /\ ob_refcnt' \in [Wrapper -> Nat] /\ held' \in [Wrapper -> Nat]
        /\ pyclass' \in [Wrapper -> Class]
        /\ finalized' \in [Wrapper -> BOOLEAN]
    BY <1>2 DEF Obtain, TypeOK, InstData, Phase
  <2>6. OneWrapper' /\ KeyPointsBack'
    BY <1>2, <2>1, <2>2, ConstantsAssumption DEF OneWrapper, KeyPointsBack, TypeOK
  <2>7. Phases'
    BY <1>2, <2>1, ConstantsAssumption DEF Phases, Obtain, TypeOK, Usable
  <2> QED
    BY <1>2, <2>1, <2>2, <2>3, <2>4, <2>5, <2>6, <2>7, ConstantsAssumption DEF TypeOK, Usable
<1> QED
  BY <1>1, <1>2 DEF Obtain

\* Obtain leaves the do_dispose calls of every wrapper alone when the caller
\* starts none.
LEMMA ObtainFrames ==
    ASSUME IInv, RewrapDying = FALSE,
           NEW o \in Object, NEW w \in Wrapper, NEW data \in InstData,
           Obtain(o, w, 1, data), dropping' = dropping,
           dispose' = dispose, frame' = frame
    PROVE  PyRefCountExact' /\ FramesLive' /\ FinalizerFrame'
<1> USE DEF IInv
<1>1. /\ obj'[w] = o
      /\ \A v \in Wrapper : obj[v] # NULL => obj'[v] = obj[v]
      /\ \A v \in Wrapper : v # w => obj'[v] = obj[v]
      /\ \A v \in Wrapper : phase'[v] = "finalizing" <=> phase[v] = "finalizing"
  BY ObtainFacts
<1>2. FramesLive'
  BY <1>1, ConstantsAssumption DEF FramesLive
<1>3. \A v \in Wrapper : FramesOf(v)' = FramesOf(v)
  <2>1. obj[w] = NULL => FramesOf(w) = {} /\ FramesOf(w)' = {}
    BY <1>1, ConstantsAssumption DEF FramesOf, FramesLive
  <2> QED
    BY <1>1, <2>1 DEF FramesOf
<1>4. PyRefCountExact'
  <2>1. /\ ob_refcnt'[w] = ob_refcnt[w] + 1 /\ held'[w] = held[w] + 1
        /\ \A v \in Wrapper \ {w} : ob_refcnt'[v] = ob_refcnt[v] /\ held'[v] = held[v]
    BY DEF TypeOK, Obtain
  <2> QED
    BY <1>1, <1>3, <2>1, PyParts, PyRefCountStep
<1>5. FinalizerFrame'
  <2>1. \A v \in Wrapper : phase[v] = "finalizing" => obj[v] # NULL
    BY DEF Phases, Usable
  <2>2. \A p \in Object : dispose[p]["finalizer"] = "running" => frame[p]["finalizer"] \in Wrapper
    BY DEF FramesLive, Disposer
  <2> QED
    BY <1>1, <2>1, <2>2 DEF FinalizerFrame
<1> QED
  BY <1>2, <1>4, <1>5

LEMMA DataOfType ==
    ASSUME TypeOK, NEW o \in Object
    PROVE  DataOf(o) \in InstData
BY NewDataType, ConstantsAssumption DEF DataOf, TypeOK

LEMMA PyCreateStep ==
    ASSUME IInv, RewrapDying = FALSE, NEW o \in Object, NEW w \in Wrapper, PyCreate(o, w)
    PROVE  IInv'
<1> USE DEF IInv
<1>1. NewData(TypeOf[o]) \in InstData /\ inst_data'[o] # NULL
  BY NewDataType, ConstantsAssumption DEF PyCreate, Obtain, TypeOK
<1>2. ref_count[o] = 0
  BY DEF Lifetime, TypeOK, PyCreate
<1>3. /\ Obtain(o, w, 1, NewData(TypeOf[o]))
      /\ dropping' = dropping /\ dispose' = dispose /\ frame' = frame
      /\ last_by' = last_by /\ disposed' = disposed
      /\ floating' = floating /\ cref' = cref
      /\ ref_count' = [ref_count EXCEPT ![o] = 1]
      /\ ostate' = [ostate EXCEPT ![o] = "alive"]
  BY DEF PyCreate, dvars
<1>t. TypeOK'
  BY <1>1, <1>3, ObtainFacts DEF TypeOK
<1>4. OneWrapper' /\ KeyPointsBack' /\ Phases'
  BY <1>1, <1>3, ObtainFacts
<1>5. PyRefCountExact' /\ FramesLive' /\ FinalizerFrame'
  BY <1>1, <1>3, ObtainFrames
<1>6. RefCountExact'
  <2>1. Cardinality(Wrappers(o)') = 1 /\ Cardinality(Running(o)') = 0
    <3>1. Cardinality({}) = 0
      BY FS_EmptySet
    <3>2. Registered(o) = NULL /\ Wrappers(o) = {} /\ Running(o) = {}
      BY <1>2, NoOwners DEF Registered
    <3>3. Running(o)' = Running(o)
      BY <1>3 DEF Running
    <3>4. Cardinality(Wrappers(o)') = Cardinality(Wrappers(o)) + 1
      BY <1>1, <1>3, <3>2, ObtainFacts
    <3> QED
      BY <3>1, <3>2, <3>3, <3>4
  <2>2. ref_count'[o] = 1 /\ cref'[o] = 0 /\ ~floating'[o] /\ dispose'[o]["last"] = "idle"
    BY <1>2, <1>3, NoOwners DEF TypeOK, Disposer
  <2>3. \A p \in Object \ {o} :
           /\ ref_count'[p] = ref_count[p] /\ floating'[p] = floating[p]
           /\ cref'[p] = cref[p] /\ dispose'[p] = dispose[p]
           /\ last_by'[p] = last_by[p] /\ Wrappers(p)' = Wrappers(p)
    BY <1>1, <1>3, ObtainFacts DEF TypeOK
  <2> QED
    BY <2>1, <2>2, <2>3, RefCountStep
<1>7. Lifetime'
  BY <1>3 DEF Lifetime, TypeOK
<1>8. DataBound'
  <2>1. \A p \in Object : inst_data[p] # NULL => inst_data'[p] # NULL
    BY <1>1 DEF PyCreate, Obtain, TypeOK
  <2>2. \A p \in Object : p # o => wrapper_key'[p] = wrapper_key[p]
    BY <1>1, <1>3, ObtainFacts
  <2> QED
    BY <1>1, <1>3, <2>1, <2>2 DEF DataBound
<1>9. LastUnref'
  BY <1>3 DEF LastUnref
<1> QED
  BY <1>t, <1>4, <1>5, <1>6, <1>7, <1>8, <1>9

\* Entering dispose calls no do_dispose yet.
LEMMA DisposeEntered ==
    ASSUME IInv, NEW o \in Object, NEW k \in Disposer, NEW s \in {"checked", "done"},
           dispose[o][k] = "idle", k # "finalizer",
           s = "checked" => inst_data[o] # NULL,
           dispose' = [dispose EXCEPT ![o][k] = s],
           UNCHANGED <<qvars, frame, phase, obj, ob_refcnt, held>>
    PROVE  /\ dispose' \in [Object -> [Disposer -> {"idle", "checked", "running", "done"}]]
           /\ PyRefCountExact' /\ FramesLive' /\ FinalizerFrame'
           /\ DataBound' /\ OneWrapper' /\ KeyPointsBack'
           /\ dispose'[o][k] = s
           /\ \A j \in Disposer : j # k => dispose'[o][j] = dispose[o][j]
           /\ \A p \in Object : p # o => dispose'[p] = dispose[p]
<1> USE DEF IInv
<1>2. /\ dispose'[o][k] = s
      /\ \A j \in Disposer : j # k => dispose'[o][j] = dispose[o][j]
      /\ \A p \in Object : p # o => dispose'[p] = dispose[p]
  BY DEF TypeOK
<1>3. dispose' \in [Object -> [Disposer -> {"idle", "checked", "running", "done"}]]
  BY DEF TypeOK
<1>4. \A p \in Object, j \in Disposer :
         /\ dispose'[p][j] = "running" <=> dispose[p][j] = "running"
         /\ dispose'[p][j] = "checked" =>
               dispose[p][j] = "checked" \/ (p = o /\ inst_data[o] # NULL)
         /\ j = "finalizer" => dispose'[p][j] = dispose[p][j]
  <2> TAKE p \in Object, j \in Disposer
  <2>1. CASE p = o /\ j = k
    BY <1>2, <2>1
  <2>2. CASE ~(p = o /\ j = k)
    <3>1. dispose'[p][j] = dispose[p][j]
      BY <1>2, <2>2
    <3> QED
      BY <3>1
  <2> QED
    BY <2>1, <2>2
<1>5. PyRefCountExact'
  <2>1. \A w \in Wrapper : FramesOf(w)' = FramesOf(w)
    BY <1>4 DEF FramesOf, TypeOK
  <2> QED
    BY <2>1 DEF PyRefCountExact
<1>6. FramesLive'
  BY <1>4 DEF FramesLive
<1>7. FinalizerFrame'
  <2>1. "finalizer" \in Disposer
    BY DEF Disposer
  <2>2. \A w \in Wrapper : phase[w] = "finalizing" => obj[w] \in Object
    BY DEF Phases, Usable, TypeOK
  <2>3. \A p \in Object : dispose[p]["finalizer"] = "running" => frame[p]["finalizer"] \in Wrapper
    BY <2>1 DEF FramesLive
  <2> QED
    BY <1>4, <2>1, <2>2, <2>3 DEF FinalizerFrame
<1>8. DataBound'
  BY <1>4 DEF DataBound, qvars
<1>9. OneWrapper' /\ KeyPointsBack'
  BY DEF OneWrapper, KeyPointsBack, qvars
<1> QED
  BY <1>2, <1>3, <1>5, <1>6, <1>7, <1>8, <1>9

LEMMA CUnrefStep ==
    ASSUME IInv, NEW o \in Object, CUnref(o)
    PROVE  IInv'
<1> USE DEF IInv
<1>1. "last" \in Disposer /\ cref[o] \in Nat /\ cref[o] > 0
  <2>1. {r \in Runner : dispose[o][r] # "idle"} \subseteq Runner
    OBVIOUS
  <2>2. Cardinality({r \in Runner : dispose[o][r] # "idle"}) \in Nat
    BY <2>1, ConstantsAssumption, FS_Subset, FS_CardinalityType
  <2> QED
    BY <2>2 DEF CUnref, CMayUnref, TypeOK, Disposer
<1>2. /\ \A p \in Object \ {o} :
            /\ ref_count'[p] = ref_count[p] /\ floating'[p] = floating[p]
            /\ cref'[p] = cref[p] /\ dispose'[p] = dispose[p]
            /\ last_by'[p] = last_by[p]
      /\ cref'[o] = cref[o] - 1 /\ floating' = floating /\ last_by' = last_by
  BY <1>1 DEF TypeOK, CUnref, Unref
<1>3. \A p \in Object : Wrappers(p)' = Wrappers(p)
  BY DEF CUnref, wvars, Wrappers
<1>4. CASE ref_count[o] > 1
  <2>1. ref_count'[o] = ref_count[o] - 1 /\ dispose' = dispose
    BY <1>4 DEF CUnref, Unref, TypeOK
  <2>t. TypeOK'
    <3>1. /\ ref_count' = [ref_count EXCEPT ![o] = @ - 1]
          /\ cref' = [cref EXCEPT ![o] = @ - 1]
      BY <1>4 DEF CUnref, Unref
    <3>2. ref_count[o] - 1 \in Nat /\ cref[o] - 1 \in Nat
      BY <1>1, <1>4 DEF TypeOK
    <3>3. ref_count' \in [Object -> Nat] /\ cref' \in [Object -> Nat]
      BY <3>1, <3>2 DEF TypeOK
    <3> QED
      BY <2>1, <3>3 DEF TypeOK, CUnref, qvars, wvars
  <2>2. RefCountExact'
    <3>1. Running(o)' = Running(o)
      BY <2>1 DEF Running
    <3> QED
      BY <1>1, <1>2, <1>3, <2>1, <3>1, Parts, RefCountStep
  <2>3. Lifetime'
    <3>1. ref_count[o] \in Nat /\ ref_count[o] - 1 > 0 /\ ref_count[o] > 0
      BY <1>4 DEF TypeOK
    <3>2. ostate' = ostate
      BY DEF CUnref
    <3> QED
      BY <1>2, <2>1, <3>1, <3>2 DEF Lifetime
  <2>4. PyRefCountExact'
    BY <2>1 DEF PyRefCountExact, FramesOf, CUnref, wvars
  <2> QED
    BY <2>t, <2>1, <2>2, <2>3, <2>4
       DEF OneWrapper, KeyPointsBack, Phases, DataBound, FramesLive,
           FinalizerFrame, LastUnref, CUnref, qvars, wvars
<1>5. CASE ~(ref_count[o] > 1)
  <2>1. /\ ref_count' = ref_count
        /\ dispose[o]["last"] = "idle"
        /\ dispose' = [dispose EXCEPT ![o]["last"] =
                          IF PendingDispose(o) THEN "checked" ELSE "done"]
    BY <1>5 DEF CUnref, Unref
  <2>2. PICK s \in {"checked", "done"} :
           /\ s = "checked" => inst_data[o] # NULL
           /\ dispose' = [dispose EXCEPT ![o]["last"] = s]
    BY <2>1 DEF PendingDispose
  <2>3. /\ dispose' \in [Object -> [Disposer -> {"idle", "checked", "running", "done"}]]
        /\ PyRefCountExact' /\ FramesLive' /\ FinalizerFrame'
        /\ DataBound' /\ OneWrapper' /\ KeyPointsBack'
        /\ dispose'[o]["last"] = s
        /\ \A j \in Disposer : j # "last" => dispose'[o][j] = dispose[o][j]
    <3>1. UNCHANGED <<qvars, frame, phase, obj, ob_refcnt, held>>
      BY DEF CUnref, wvars
    <3>2. dispose[o]["last"] = "idle" /\ "last" # "finalizer" /\ "last" \in Disposer
      BY <1>1, <2>1
    <3> HIDE DEF IInv
    <3> QED
      BY <2>2, <3>1, <3>2, DisposeEntered
  <2>t. TypeOK'
    BY <1>1, <2>1, <2>3 DEF TypeOK, CUnref, qvars, wvars
  <2>4. RefCountExact'
    <3>1. Running(o)' = Running(o)
      BY <2>3 DEF Running
    <3>2. last_by[o] = NULL
      BY <2>1 DEF LastUnref
    <3> QED
      BY <1>1, <1>2, <1>3, <2>1, <2>3, <3>1, <3>2, Parts, RefCountStep
  <2>5. LastUnref'
    BY <1>2, <2>3 DEF LastUnref, CUnref, wvars
  <2> QED
    BY <2>t, <2>1, <2>3, <2>4, <2>5 DEF Phases, Lifetime, CUnref, qvars, wvars
<1> QED
  BY <1>4, <1>5

LEMMA NewFullStep ==
    ASSUME IInv, RewrapDying = FALSE, NEW o \in Object, NEW w \in Wrapper,
           NEW steal \in BOOLEAN, NewFull(o, w, steal)
    PROVE  IInv'
<1> USE DEF IInv
<1>1. DataOf(o) \in InstData /\ DataOf(o) # NULL
  BY DataOfType, NewDataType
<1>2. /\ Obtain(o, w, 1, DataOf(o))
      /\ dropping' = dropping /\ dispose' = dispose /\ frame' = frame
      /\ last_by' = last_by /\ disposed' = disposed /\ ostate' = ostate
      /\ ostate[o] = "alive" /\ ref_count[o] > 0
  BY DEF NewFull, dvars, Reachable, Lifetime
<1>3. /\ floating'[o] = (floating[o] /\ Registered(o) # NULL)
      /\ cref'[o] = cref[o] - Flag(steal /\ ~floating[o])
      /\ ref_count'[o] = RefsAfterWrap(o, steal)
      /\ \A p \in Object \ {o} :
           /\ ref_count'[p] = ref_count[p] /\ floating'[p] = floating[p]
           /\ cref'[p] = cref[p]
  BY DEF NewFull, TypeOK
<1>4. steal => IF floating[o] THEN Registered(o) = NULL ELSE cref[o] > 0
  <2>1. {r \in Runner : dispose[o][r] # "idle"} \subseteq Runner
    OBVIOUS
  <2>2. Cardinality({r \in Runner : dispose[o][r] # "idle"}) \in Nat
    BY <2>1, ConstantsAssumption, FS_Subset, FS_CardinalityType
  <2> QED
    BY <2>2 DEF NewFull, CMayUnref, TypeOK, Registered
<1>5. /\ cref[o] \in Nat /\ floating[o] \in BOOLEAN
      /\ Registered(o) # NULL => Wrappers(o)' = Wrappers(o)
      /\ Registered(o) = NULL => Cardinality(Wrappers(o)') = Cardinality(Wrappers(o)) + 1
      /\ \A p \in Object \ {o} : Wrappers(p)' = Wrappers(p)
  <2>1. cref[o] \in Nat /\ floating[o] \in BOOLEAN
    BY DEF TypeOK
  <2>2. /\ Registered(o) # NULL => Wrappers(o)' = Wrappers(o)
        /\ Registered(o) = NULL => Cardinality(Wrappers(o)') = Cardinality(Wrappers(o)) + 1
        /\ \A p \in Object : p # o => Wrappers(p)' = Wrappers(p)
    BY <1>1, <1>2, ObtainFacts
  <2> QED
    BY <2>1, <2>2
<1>6. RefCountExact' /\ ref_count'[o] > 0
  <2>1. Running(o)' = Running(o)
    BY <1>2 DEF Running
  <2>2. Registered(o) # NULL => Cardinality(Wrappers(o)) > 0
    <3>1. Registered(o) # NULL => Registered(o) \in Wrappers(o)
      BY DEF Registered, KeyPointsBack, Wrappers, TypeOK
    <3> QED
      BY <3>1, FiniteOwners, FS_EmptySet
  <2>3. Cardinality(Wrappers(o)) \in Nat /\ Cardinality(Running(o)) \in Nat
    BY FiniteOwners
  <2>4. PICK c, f, n, r, l \in Nat :
              /\ ref_count[o] = c + f + n + r + l
              /\ c = cref[o] /\ f = Flag(floating[o])
              /\ n = Cardinality(Wrappers(o)) /\ r = Cardinality(Running(o))
              /\ l = Flag(dispose[o]["last"] # "idle" /\ last_by[o] = NULL)
    BY Parts
  <2>5. /\ ref_count'[o] = cref'[o] + Flag(floating'[o]) + Cardinality(Wrappers(o)')
                             + Cardinality(Running(o)')
                             + Flag(dispose'[o]["last"] # "idle" /\ last_by'[o] = NULL)
        /\ ref_count'[o] > 0
    <3>1. CASE Registered(o) # NULL
      BY <1>2, <1>3, <1>4, <1>5, <2>1, <2>2, <2>4, <3>1 DEF RefsAfterWrap
    <3>2. CASE Registered(o) = NULL
      <4>1. /\ ~floating'[o]
            /\ ref_count'[o] = ref_count[o] + Flag(~steal /\ ~floating[o])
            /\ Cardinality(Wrappers(o)') = Cardinality(Wrappers(o)) + 1
        BY <1>3, <1>5, <3>2 DEF RefsAfterWrap
      <4>2. /\ Cardinality(Running(o)') = Cardinality(Running(o))
            /\ dispose' = dispose /\ last_by' = last_by
        BY <1>2, <2>1
      <4>3. CASE floating[o]
        BY <1>2, <1>3, <1>5, <2>4, <4>1, <4>2, <4>3
      <4>4. CASE ~floating[o]
        BY <1>2, <1>3, <1>4, <1>5, <2>4, <4>1, <4>2, <4>4
      <4> QED
        BY <4>3, <4>4
    <3> QED
      BY <3>1, <3>2
  <2> QED
    BY <1>2, <1>3, <1>5, <2>5, RefCountStep
<1>t. TypeOK'
  <2>1. ref_count'[o] \in Nat /\ cref'[o] \in Nat
    BY <1>3, <1>4, <1>2 DEF RefsAfterWrap, TypeOK
  <2>2. ref_count' \in [Object -> Nat] /\ cref' \in [Object -> Nat] /\ floating' \in [Object -> BOOLEAN]
    BY <2>1, <1>3 DEF NewFull, TypeOK
  <2> QED
    BY <1>1, <1>2, <2>2, ObtainFacts DEF TypeOK
<1>7. OneWrapper' /\ KeyPointsBack' /\ Phases'
  BY <1>1, <1>2, ObtainFacts
<1>8. PyRefCountExact' /\ FramesLive' /\ FinalizerFrame'
  BY <1>1, <1>2, ObtainFrames
<1>9. Lifetime'
  BY <1>2, <1>3, <1>6 DEF Lifetime
<1>10. DataBound'
  <2>1. \A p \in Object : inst_data[p] # NULL => inst_data'[p] # NULL
    BY <1>1, <1>2 DEF Obtain, TypeOK
  <2>2. \A p \in Object : p # o => wrapper_key'[p] = wrapper_key[p]
    BY <1>1, <1>2, ObtainFacts
  <2>3. inst_data'[o] # NULL
    BY <1>1, <1>2 DEF Obtain, TypeOK
  <2> QED
    BY <1>2, <2>1, <2>2, <2>3 DEF DataBound
<1>11. LastUnref'
  BY <1>2 DEF LastUnref
<1> QED
  BY <1>t, <1>6, <1>7, <1>8, <1>9, <1>10, <1>11

LEMMA RetainFloatingStep ==
    ASSUME IInv, RewrapDying = FALSE, NEW o \in Object, NEW w \in Wrapper,
           RetainFloating(o, w)
    PROVE  IInv'
<1> USE DEF IInv
<1>1. DataOf(o) \in InstData /\ DataOf(o) # NULL
  BY DataOfType, NewDataType
<1>2. /\ Obtain(o, w, 1, DataOf(o))
      /\ dropping' = dropping /\ dispose' = dispose /\ frame' = frame
      /\ last_by' = last_by /\ disposed' = disposed /\ ostate' = ostate
      /\ floating' = floating /\ cref' = cref
      /\ ostate[o] = "alive" /\ ref_count[o] > 0
      /\ ref_count' = [ref_count EXCEPT ![o] = @ + Flag(Registered(o) = NULL)]
  BY DEF RetainFloating, dvars, Reachable, Lifetime
<1>3. /\ ref_count'[o] = ref_count[o] + Flag(Registered(o) = NULL)
      /\ ref_count[o] \in Nat
      /\ \A p \in Object : p # o => ref_count'[p] = ref_count[p]
  BY <1>2 DEF TypeOK
<1>5. /\ Registered(o) # NULL => Wrappers(o)' = Wrappers(o)
      /\ Registered(o) = NULL => Cardinality(Wrappers(o)') = Cardinality(Wrappers(o)) + 1
      /\ \A p \in Object : p # o => Wrappers(p)' = Wrappers(p)
  BY <1>1, <1>2, ObtainFacts
<1>6. RefCountExact'
  <2>1. Running(o)' = Running(o)
    BY <1>2 DEF Running
  <2> QED
    BY <1>2, <1>3, <1>5, <2>1, Parts, RefCountStep
<1>t. TypeOK'
  <2>1. ref_count' \in [Object -> Nat]
    BY <1>2, <1>3 DEF TypeOK
  <2> QED
    BY <1>1, <1>2, <2>1, ObtainFacts DEF TypeOK
<1>7. OneWrapper' /\ KeyPointsBack' /\ Phases'
  BY <1>1, <1>2, ObtainFacts
<1>8. PyRefCountExact' /\ FramesLive' /\ FinalizerFrame'
  BY <1>1, <1>2, ObtainFrames
<1>9. Lifetime'
  BY <1>2, <1>3 DEF Lifetime
<1>10. DataBound'
  <2>1. \A p \in Object : inst_data[p] # NULL => inst_data'[p] # NULL
    BY <1>1, <1>2 DEF Obtain, TypeOK
  <2>2. \A p \in Object : p # o => wrapper_key'[p] = wrapper_key[p]
    BY <1>1, <1>2, ObtainFacts
  <2>3. inst_data'[o] # NULL
    BY <1>1, <1>2 DEF Obtain, TypeOK
  <2> QED
    BY <1>2, <2>1, <2>2, <2>3 DEF DataBound
<1>11. LastUnref'
  BY <1>2 DEF LastUnref
<1> QED
  BY <1>t, <1>6, <1>7, <1>8, <1>9, <1>10, <1>11

\* A wrapper Python still holds or do_dispose runs with is usable.
LEMMA ReferencedUsable ==
    ASSUME IInv, NEW w \in Wrapper
    PROVE  /\ ob_refcnt[w] # 0 => /\ phase[w] \in Usable
                                  /\ obj[w] \in Object
                                  /\ wrapper_key[obj[w]] = w
                                  /\ inst_data[obj[w]] \in InstData
                                  /\ ref_count[obj[w]] > 0
           /\ held[w] > 0 => ob_refcnt[w] # 0
           /\ FramesOf(w) # {} => ob_refcnt[w] # 0
<1> USE DEF IInv
<1>1. ASSUME ob_refcnt[w] # 0
      PROVE  /\ phase[w] \in Usable
             /\ obj[w] \in Object
             /\ wrapper_key[obj[w]] = w
             /\ inst_data[obj[w]] \in InstData
             /\ ref_count[obj[w]] > 0
  <2>1. phase[w] \in Usable /\ obj[w] \in Object
    BY <1>1 DEF Phases, TypeOK
  <2>2. wrapper_key[obj[w]] = w
    BY <2>1, ConstantsAssumption DEF OneWrapper
  <2>3. inst_data[obj[w]] \in InstData
    BY <2>1, <2>2, ConstantsAssumption DEF DataBound, TypeOK
  <2>4. ref_count[obj[w]] # 0
    BY <2>1, <2>2, NoOwners, ConstantsAssumption
  <2>5. ref_count[obj[w]] \in Nat
    BY <2>1 DEF TypeOK
  <2> QED
    BY <2>1, <2>2, <2>3, <2>4, <2>5
<1>2. held[w] > 0 => ob_refcnt[w] # 0
  BY PyParts
<1>3. FramesOf(w) # {} => ob_refcnt[w] # 0
  <2>1. FramesOf(w) # {} => Cardinality(FramesOf(w)) # 0
    BY FiniteOwners, FS_EmptySet
  <2> QED
    BY <2>1, PyParts
<1> QED
  BY <1>1, <1>2, <1>3

LEMMA DropHandleStep ==
    ASSUME IInv, NEW w \in Wrapper, DropHandle(w)
    PROVE  IInv'
<1> USE DEF IInv
<1> DEFINE o == obj[w]
<1>1. /\ held[w] \in Nat /\ held[w] > 0 /\ ob_refcnt[w] \in Nat /\ ob_refcnt[w] > 0
      /\ phase[w] \in Usable /\ o \in Object /\ wrapper_key[o] = w
      /\ inst_data[o] \in InstData /\ ref_count[o] > 0
  BY ReferencedUsable DEF DropHandle, TypeOK
<1>2. held' = [held EXCEPT ![w] = @ - 1]
  BY DEF DropHandle
<1>h. held' \in [Wrapper -> Nat] /\ held'[w] = held[w] - 1
  BY <1>1, <1>2 DEF TypeOK
<1>3. CASE /\ ob_refcnt[w] > 1
           /\ ob_refcnt' = [ob_refcnt EXCEPT ![w] = @ - 1]
           /\ UNCHANGED <<gvars, qvars, dvars, phase, obj, dropping, pyclass,
                          finalized>>
  <2>t. TypeOK'
    <3>1. ob_refcnt' \in [Wrapper -> Nat]
      BY <1>1, <1>3 DEF TypeOK
    <3> QED
      BY <1>3, <1>h, <3>1 DEF TypeOK, gvars, qvars, dvars
  <2>1. RefCountExact'
    BY <1>3 DEF RefCountExact, Wrappers, Running, gvars, dvars
  <2>2. PyRefCountExact'
    <3>1. \A v \in Wrapper : FramesOf(v)' = FramesOf(v)
      BY <1>3 DEF FramesOf, dvars
    <3>2. /\ ob_refcnt'[w] = ob_refcnt[w] - 1
          /\ phase' = phase
          /\ \A v \in Wrapper \ {w} : ob_refcnt'[v] = ob_refcnt[v] /\ held'[v] = held[v]
      BY <1>2, <1>3 DEF TypeOK
    <3> QED
      BY <1>1, <1>h, <3>1, <3>2, PyParts, PyRefCountStep
  <2>3. Phases'
    BY <1>1, <1>3 DEF Phases, TypeOK
  <2> QED
    BY <2>t, <2>1, <2>2, <2>3, <1>3
       DEF OneWrapper, KeyPointsBack, DataBound, FramesLive, FinalizerFrame,
           LastUnref, Lifetime, gvars, qvars, dvars
<1>4. CASE /\ ob_refcnt[w] = 1 /\ RunsDispose(w)
           /\ ref_count' = [ref_count EXCEPT ![o] = @ + 1]
           /\ inst_data' = [inst_data EXCEPT ![o].call_do_dispose = FALSE]
           /\ dispose' = [dispose EXCEPT ![o]["finalizer"] = "running"]
           /\ frame' = [frame EXCEPT ![o]["finalizer"] = w]
           /\ disposed' = [disposed EXCEPT ![o] = @ + 1]
           /\ finalized' = [finalized EXCEPT ![w] = TRUE]
           /\ phase' = [phase EXCEPT ![w] = "finalizing"]
           /\ ob_refcnt' = [ob_refcnt EXCEPT ![w] = 2]
           /\ UNCHANGED <<ostate, floating, cref, wrapper_key, last_by, obj,
                          dropping, pyclass>>
  <2>1. "finalizer" \in Disposer /\ "last" \in Disposer
    BY DEF Disposer
  <2>2. FramesOf(w) = {} /\ phase[w] # "finalizing" /\ held[w] = 1
    <3>1. Cardinality(FramesOf(w)) = 0 /\ phase[w] # "finalizing" /\ held[w] = 1
      BY <1>1, <1>4, PyParts
    <3> QED
      BY <3>1, FiniteOwners, FS_EmptySet
  <2>3. dispose[o]["finalizer"] = "idle"
    <3>1. dispose[o]["finalizer"] # "running"
      <4>1. SUFFICES ASSUME dispose[o]["finalizer"] = "running" PROVE FALSE
        OBVIOUS
      <4>2. frame[o]["finalizer"] \in Wrapper /\ obj[frame[o]["finalizer"]] = o
        BY <1>1, <2>1, <4>1 DEF FramesLive
      <4>3. frame[o]["finalizer"] = w
        BY <1>1, <4>2, ConstantsAssumption DEF OneWrapper
      <4>4. "finalizer" \in FramesOf(w)
        BY <1>1, <2>1, <4>1, <4>3, ConstantsAssumption DEF FramesOf
      <4> QED
        BY <4>4, <2>2
    <3> QED
      BY <1>1, <3>1 DEF FinalizerFrame
  <2>4. /\ [inst_data[o] EXCEPT !.call_do_dispose = FALSE] \in InstData
        /\ [inst_data[o] EXCEPT !.call_do_dispose = FALSE] # NULL
    <3>1. [inst_data[o] EXCEPT !.call_do_dispose = FALSE] \in InstData
      BY <1>1 DEF InstData
    <3> QED
      BY <3>1, NewDataType
  <2>5. inst_data' = [inst_data EXCEPT ![o] = [inst_data[o] EXCEPT !.call_do_dispose = FALSE]]
    BY <1>4
  <2>t. TypeOK'
    <3>1. inst_data' \in [Object -> InstData \cup {NULL}]
      BY <2>4, <2>5 DEF TypeOK
    <3>2. ref_count' \in [Object -> Nat] /\ disposed' \in [Object -> Nat] /\ ob_refcnt' \in [Wrapper -> Nat]
      BY <1>1, <1>4 DEF TypeOK
    <3>3. /\ dispose' \in [Object -> [Disposer -> {"idle", "checked", "running", "done"}]]
          /\ frame' \in [Object -> [Disposer -> Wrapper \cup {NULL}]]
          /\ finalized' \in [Wrapper -> BOOLEAN]
          /\ phase' \in [Wrapper -> Phase]
      BY <1>1, <1>4, <2>1 DEF TypeOK, Phase
    <3> QED
      BY <1>4, <1>h, <3>1, <3>2, <3>3 DEF TypeOK
  <2>6. /\ \A p \in Object : p # o => /\ dispose'[p] = dispose[p]
                                      /\ frame'[p] = frame[p]
                                      /\ ref_count'[p] = ref_count[p]
        /\ \A k \in Disposer : k # "finalizer" => dispose'[o][k] = dispose[o][k] /\ frame'[o][k] = frame[o][k]
        /\ dispose'[o]["finalizer"] = "running" /\ frame'[o]["finalizer"] = w
        /\ ref_count'[o] = ref_count[o] + 1
        /\ ob_refcnt'[w] = 2 /\ phase'[w] = "finalizing"
        /\ \A v \in Wrapper : v # w => /\ ob_refcnt'[v] = ob_refcnt[v] /\ held'[v] = held[v]
                                       /\ phase'[v] = phase[v]
    BY <1>1, <1>2, <1>4, <2>1 DEF TypeOK
  <2>7. RefCountExact'
    <3>1. \A p \in Object : Wrappers(p)' = Wrappers(p)
      BY <1>4 DEF Wrappers
    <3>2. Cardinality(Running(o)') = Cardinality(Running(o)) + 1
      <4>1. Running(o)' = Running(o) \cup {"finalizer"} /\ "finalizer" \notin Running(o)
        <5>1. obj' = obj
          BY <1>4
        <5> QED
          BY <2>1, <2>3, <2>6, <5>1 DEF Running
      <4> QED
        BY <4>1, <1>1, FiniteOwners, FS_AddElement
    <3>3. dispose'[o]["last"] = dispose[o]["last"]
      BY <2>1, <2>6
    <3> QED
      BY <1>1, <1>4, <2>6, <3>1, <3>2, <3>3, Parts, RefCountStep
  <2>8. PyRefCountExact'
    <3>1. FramesOf(w)' = {"finalizer"}
      <4>1. \A k \in Disposer : k # "finalizer" => ~(dispose[o][k] = "running" /\ frame[o][k] = w)
        BY <1>1, <2>2, ConstantsAssumption DEF FramesOf
      <4>2. obj' = obj /\ obj[w] # NULL
        BY <1>1, <1>4, ConstantsAssumption
      <4> QED
        BY <2>1, <2>6, <4>1, <4>2 DEF FramesOf
    <3>2. Cardinality({"finalizer"}) = 1
      BY FS_Singleton
    <3>3. \A v \in Wrapper \ {w} : FramesOf(v)' = FramesOf(v)
      <4>1. \A v \in Wrapper \ {w} : obj[v] # o
        BY <1>1, ConstantsAssumption DEF OneWrapper
      <4>2. \A v \in Wrapper : obj[v] # NULL => obj[v] \in Object
        BY DEF TypeOK
      <4> QED
        BY <1>4, <2>6, <4>1, <4>2 DEF FramesOf
    <3> QED
      <4>1. ob_refcnt'[w] = held'[w] + Cardinality(FramesOf(w)') + Flag(phase'[w] = "finalizing")
        BY <1>h, <2>2, <2>6, <3>1, <3>2
      <4> QED
        BY <2>6, <3>3, <4>1, PyRefCountStep
  <2>9. Phases'
    BY <1>1, <1>4, <2>6 DEF Phases, Usable
  <2>10. DataBound'
    <3>1. \A p \in Object : inst_data[p] # NULL => inst_data'[p] # NULL
      BY <2>4, <2>5 DEF TypeOK
    <3>2. inst_data[o] # NULL
      BY <1>1, NewDataType
    <3>3. \A p \in Object, k \in Disposer : dispose'[p][k] = dispose[p][k] \/ p = o
      BY <2>6
    <3> QED
      BY <1>4, <3>1, <3>2, <3>3 DEF DataBound
  <2>11. FramesLive'
    <3>1. \A p \in Object, k \in Disposer :
             \/ dispose'[p][k] = dispose[p][k] /\ frame'[p][k] = frame[p][k]
             \/ p = o /\ frame'[p][k] = w
      BY <2>6
    <3> QED
      BY <1>4, <3>1 DEF FramesLive
  <2>12. FinalizerFrame'
    <3>1. \A v \in Wrapper : phase[v] = "finalizing" => obj[v] # o /\ obj[v] \in Object
      BY <1>1, <2>2, ConstantsAssumption DEF OneWrapper, Phases, Usable, TypeOK
    <3>2. \A v \in Wrapper : phase'[v] = "finalizing" => v = w \/ phase[v] = "finalizing"
      BY <2>6
    <3>3. \A p \in Object : p # o /\ dispose[p]["finalizer"] = "running"
               => frame[p]["finalizer"] # w /\ frame[p]["finalizer"] \in Wrapper
      BY <2>1, <1>1 DEF FramesLive
    <3> QED
      BY <1>4, <2>6, <3>1, <3>2, <3>3 DEF FinalizerFrame
  <2>13. LastUnref'
    <3>1. \A p \in Object, k \in Disposer \ {"last"} : dispose'[p][k] # "done"
      <4> TAKE p \in Object, k \in Disposer \ {"last"}
      <4>1. dispose'[p][k] = dispose[p][k] \/ dispose'[p][k] = "running"
        BY <2>6
      <4> QED
        BY <4>1 DEF LastUnref
    <3>2. \A p \in Object : dispose'[p]["last"] = dispose[p]["last"]
      BY <2>1, <2>6
    <3> QED
      BY <1>4, <3>1, <3>2 DEF LastUnref
  <2>14. OneWrapper' /\ KeyPointsBack' /\ Lifetime'
    <3>1. Lifetime'
      BY <1>1, <1>4, <2>6 DEF Lifetime, TypeOK
    <3> QED
      BY <1>4, <3>1 DEF OneWrapper, KeyPointsBack
  <2> QED
    BY <2>t, <2>7, <2>8, <2>9, <2>10, <2>11, <2>12, <2>13, <2>14
<1>5. CASE /\ ob_refcnt[w] = 1 /\ ~RunsDispose(w)
           /\ ob_refcnt' = [ob_refcnt EXCEPT ![w] = 0]
           /\ finalized' = [finalized EXCEPT ![w] = TRUE]
           /\ phase' = [phase EXCEPT ![w] = "weakrefs"]
           /\ UNCHANGED <<gvars, qvars, dvars, obj, dropping, pyclass>>
  <2>t. TypeOK'
    BY <1>5, <1>h DEF TypeOK, gvars, qvars, dvars, Phase
  <2>1. RefCountExact'
    BY <1>5 DEF RefCountExact, Wrappers, Running, gvars, dvars
  <2>2. FramesOf(w) = {} /\ Cardinality(FramesOf(w)) = 0 /\ phase[w] # "finalizing" /\ held[w] = 1
    <3>1. Cardinality(FramesOf(w)) = 0 /\ phase[w] # "finalizing" /\ held[w] = 1
      <4>1. ob_refcnt[w] = 1
        BY <1>5
      <4> QED
        BY <1>1, <4>1, PyParts
    <3> QED
      BY <3>1, FiniteOwners, FS_EmptySet
  <2>3. PyRefCountExact'
    <3>1. \A v \in Wrapper : FramesOf(v)' = FramesOf(v)
      BY <1>5 DEF FramesOf, dvars
    <3>2. /\ ob_refcnt'[w] = 0 /\ phase'[w] = "weakrefs"
          /\ \A v \in Wrapper \ {w} : ob_refcnt'[v] = ob_refcnt[v] /\ held'[v] = held[v]
                                     /\ phase'[v] = phase[v]
      BY <1>2, <1>5 DEF TypeOK
    <3> QED
      BY <1>h, <2>2, <3>1, <3>2, PyRefCountStep
  <2>4. Phases'
    BY <1>1, <1>5 DEF Phases, TypeOK, Usable
  <2>5. FinalizerFrame'
    <3>1. \A v \in Wrapper : phase'[v] = "finalizing" <=> phase[v] = "finalizing"
      BY <1>5, <2>2 DEF TypeOK
    <3>2. \A p \in Object : dispose[p]["finalizer"] = "running" => frame[p]["finalizer"] \in Wrapper
      BY DEF FramesLive, Disposer
    <3> QED
      BY <1>5, <3>1, <3>2 DEF FinalizerFrame, dvars
  <2> QED
    BY <2>t, <2>1, <2>3, <2>4, <2>5, <1>5
       DEF OneWrapper, KeyPointsBack, DataBound, FramesLive,
           LastUnref, Lifetime, gvars, qvars, dvars
<1> QED
  BY <1>3, <1>4, <1>5 DEF DropHandle

LEMMA ClearStep ==
    ASSUME IInv, NEW w \in Wrapper, Clear(w)
    PROVE  IInv'
<1> USE DEF IInv
<1>0. PICK o \in Object : o = obj[w]
  BY DEF Clear, Phases, TypeOK
<1>1. /\ phase[w] = "weakrefs" /\ obj[w] # NULL /\ dropping[w] = NULL
      /\ ob_refcnt[w] = 0 /\ wrapper_key[o] = w
      /\ FramesOf(w) = {} /\ held[w] = 0
  <2>1. /\ phase[w] = "weakrefs" /\ obj[w] # NULL /\ dropping[w] = NULL
        /\ ob_refcnt[w] = 0 /\ wrapper_key[o] = w
    BY <1>0, ConstantsAssumption DEF Clear, Phases, Usable, OneWrapper
  <2>2. FramesOf(w) = {} /\ ~(held[w] > 0)
    BY <2>1, ReferencedUsable
  <2> QED
    BY <2>1, <2>2 DEF TypeOK
<1>2. /\ phase' = [phase EXCEPT ![w] = "unref"]
      /\ wrapper_key' = [wrapper_key EXCEPT ![o] = NULL]
      /\ obj' = [obj EXCEPT ![w] = NULL]
      /\ dropping' = [dropping EXCEPT ![w] = o]
      /\ UNCHANGED <<gvars, dvars, ob_refcnt, held, pyclass, finalized>>
  BY <1>0 DEF Clear
<1>3. inst_data[o] \in InstData
  BY <1>1, ConstantsAssumption DEF DataBound, TypeOK
<1>4. /\ inst_data' = [inst_data EXCEPT ![o] = [inst_data[o] EXCEPT !.type = pyclass[w]]]
      /\ [inst_data[o] EXCEPT !.type = pyclass[w]] \in InstData
  <2>1. pyclass[w] \in Class
    BY DEF TypeOK
  <2> QED
    BY <1>0, <1>3, <2>1 DEF InstData, Clear, SavedClass
<1>t. TypeOK'
  BY <1>2, <1>4 DEF TypeOK, gvars, dvars, Phase
<1>5. \A v \in Wrapper : v # w => /\ obj'[v] = obj[v] /\ obj[v] # o
                                  /\ dropping'[v] = dropping[v] /\ phase'[v] = phase[v]
  BY <1>1, <1>2, ConstantsAssumption DEF OneWrapper, TypeOK
<1>6. obj'[w] = NULL /\ dropping'[w] = o /\ phase'[w] = "unref"
  BY <1>2 DEF TypeOK
<1>7. RefCountExact'
  <2>1. \A p \in Object : Wrappers(p)' = Wrappers(p)
    BY <1>0, <1>1, <1>5, <1>6, ConstantsAssumption DEF Wrappers
  <2>2. \A p \in Object : Running(p)' = Running(p)
    BY <1>2 DEF Running, dvars
  <2> QED
    BY <1>2, <2>1, <2>2 DEF RefCountExact, gvars, dvars
<1>8. PyRefCountExact'
  <2>1. \A v \in Wrapper : FramesOf(v)' = FramesOf(v)
    <3>1. FramesOf(w)' = {}
      BY <1>6 DEF FramesOf
    <3>2. \A v \in Wrapper : v # w => FramesOf(v)' = FramesOf(v)
      BY <1>2, <1>5 DEF FramesOf, dvars
    <3> QED
      BY <1>1, <3>1, <3>2
  <2>2. \A v \in Wrapper : phase'[v] = "finalizing" <=> phase[v] = "finalizing"
    BY <1>1, <1>5, <1>6
  <2> QED
    BY <1>2, <2>1, <2>2 DEF PyRefCountExact
<1>9. OneWrapper' /\ KeyPointsBack'
  BY <1>0, <1>1, <1>2, <1>5, <1>6, ConstantsAssumption DEF OneWrapper, KeyPointsBack, TypeOK
<1>10. Phases'
  BY <1>1, <1>2, <1>5, <1>6, ConstantsAssumption DEF Phases, Usable
<1>11. DataBound'
  <2>1. \A p \in Object : inst_data[p] # NULL => inst_data'[p] # NULL
    BY <1>4, NewDataType DEF TypeOK
  <2>2. \A p \in Object : wrapper_key'[p] # NULL => wrapper_key[p] # NULL
    BY <1>1, <1>2, ConstantsAssumption DEF TypeOK
  <2> QED
    BY <1>2, <2>1, <2>2 DEF DataBound, dvars
<1>12. \A p \in Object, k \in Disposer : dispose[p][k] = "running" => frame[p][k] # w
  <2> SUFFICES ASSUME NEW p \in Object, NEW k \in Disposer,
                      dispose[p][k] = "running", frame[p][k] = w
               PROVE  FALSE
    OBVIOUS
  <2>1. p = o
    BY <1>0 DEF FramesLive
  <2>2. k \in FramesOf(w)
    BY <1>0, <1>1, <2>1 DEF FramesOf
  <2> QED
    BY <1>1, <2>2
<1>13. FramesLive'
  BY <1>2, <1>5, <1>12 DEF FramesLive, dvars
<1>14. FinalizerFrame'
  <2>1. "finalizer" \in Disposer
    BY DEF Disposer
  <2>2. \A p \in Object : dispose[p]["finalizer"] = "running" =>
           frame[p]["finalizer"] \in Wrapper /\ frame[p]["finalizer"] # w
    BY <1>12, <2>1 DEF FramesLive
  <2> QED
    BY <1>2, <1>5, <1>6, <2>2 DEF FinalizerFrame, dvars
<1>15. LastUnref'
  <2>1. \A p \in Object : last_by[p] # NULL => last_by[p] \in Wrapper /\ last_by[p] # w
    BY <1>1, ConstantsAssumption DEF LastUnref, TypeOK
  <2> QED
    BY <1>2, <1>5, <2>1 DEF LastUnref, dvars
<1>16. Lifetime'
  BY <1>2 DEF Lifetime, gvars
<1> QED
  BY <1>t, <1>7, <1>8, <1>9, <1>10, <1>11, <1>13, <1>14, <1>15, <1>16

LEMMA WrapperUnrefStep ==
    ASSUME IInv, NEW w \in Wrapper, WrapperUnref(w)
    PROVE  IInv'
<1> USE DEF IInv
<1>0. PICK o \in Object : o = dropping[w]
  BY DEF WrapperUnref, Phases, TypeOK
<1>1. /\ phase[w] = "unref" /\ obj[w] = NULL /\ ob_refcnt[w] = 0
      /\ last_by[o] # w /\ "last" \in Disposer
      /\ ref_count[o] \in Nat
  BY <1>0 DEF WrapperUnref, Phases, Usable, Disposer, TypeOK
<1>2. /\ UNCHANGED <<ostate, floating, cref, qvars, frame, disposed, obj,
                     ob_refcnt, held, pyclass, finalized>>
      /\ Unref(o)
  BY <1>0 DEF WrapperUnref
<1>3. w \in Wrappers(o)
  BY <1>0 DEF Wrappers
<1>4. CASE ref_count[o] > 1
  <2>1. /\ ref_count' = [ref_count EXCEPT ![o] = @ - 1] /\ dispose' = dispose
        /\ phase' = [phase EXCEPT ![w] = "free"]
        /\ dropping' = [dropping EXCEPT ![w] = NULL]
        /\ last_by' = last_by
    BY <1>0, <1>4 DEF WrapperUnref, Unref
  <2>2. /\ ref_count'[o] = ref_count[o] - 1 /\ ref_count'[o] \in Nat /\ ref_count'[o] > 0
        /\ \A p \in Object : p # o => ref_count'[p] = ref_count[p]
    BY <1>1, <1>4, <2>1 DEF TypeOK
  <2>3. /\ phase'[w] = "free" /\ dropping'[w] = NULL
        /\ \A v \in Wrapper : v # w => phase'[v] = phase[v] /\ dropping'[v] = dropping[v]
    BY <2>1 DEF TypeOK
  <2>t. TypeOK'
    <3>1. ref_count' \in [Object -> Nat]
      BY <2>1, <2>2 DEF TypeOK
    <3> QED
      BY <1>2, <2>1, <3>1 DEF TypeOK, qvars, Phase
  <2>4. RefCountExact'
    <3>1. Cardinality(Wrappers(o)') = Cardinality(Wrappers(o)) - 1
      <4>1. Wrappers(o)' = Wrappers(o) \ {w}
        BY <1>1, <1>2, <2>3, ConstantsAssumption DEF Wrappers
      <4> QED
        BY <1>3, <4>1, FiniteOwners, FS_RemoveElement
    <3>2. \A p \in Object : p # o => Wrappers(p)' = Wrappers(p)
      BY <1>0, <1>1, <1>2, <2>3, ConstantsAssumption DEF Wrappers
    <3>3. Running(o)' = Running(o)
      BY <2>1 DEF Running
    <3> QED
      BY <1>2, <2>1, <2>2, <3>1, <3>2, <3>3, Parts, RefCountStep
  <2>5. Phases'
    BY <1>1, <1>2, <2>3, ConstantsAssumption DEF Phases, Usable
  <2>6. Lifetime'
    <3>1. ref_count[o] > 0
      BY <1>1, <1>4
    <3> QED
      BY <1>2, <2>2, <3>1 DEF Lifetime
  <2>7. PyRefCountExact' /\ FinalizerFrame'
    <3>1. \A v \in Wrapper : phase'[v] = "finalizing" <=> phase[v] = "finalizing"
      BY <1>1, <2>3
    <3>2. \A v \in Wrapper : FramesOf(v)' = FramesOf(v)
      BY <1>2, <2>1 DEF FramesOf
    <3>3. \A p \in Object : dispose[p]["finalizer"] = "running" => frame[p]["finalizer"] \in Wrapper
      BY DEF FramesLive, Disposer
    <3> QED
      BY <1>2, <2>1, <3>1, <3>2, <3>3 DEF PyRefCountExact, FinalizerFrame
  <2>8. LastUnref'
    <3>1. \A p \in Object : last_by[p] # NULL => last_by[p] \in Wrapper /\ last_by[p] # w
      BY <1>0, <1>1 DEF LastUnref, TypeOK
    <3> QED
      BY <2>1, <2>3, <3>1 DEF LastUnref
  <2> QED
    BY <2>t, <2>4, <2>5, <2>6, <2>7, <2>8, <1>2, <2>1
       DEF OneWrapper, KeyPointsBack, DataBound, FramesLive, qvars
<1>5. CASE ~(ref_count[o] > 1)
  <2>1. /\ ref_count' = ref_count /\ phase' = phase /\ dropping' = dropping
        /\ last_by' = [last_by EXCEPT ![o] = w]
        /\ dispose[o]["last"] = "idle"
        /\ dispose' = [dispose EXCEPT ![o]["last"] =
                          IF PendingDispose(o) THEN "checked" ELSE "done"]
    BY <1>0, <1>5 DEF WrapperUnref, Unref
  <2>2. PICK s \in {"checked", "done"} :
           /\ s = "checked" => inst_data[o] # NULL
           /\ dispose' = [dispose EXCEPT ![o]["last"] = s]
    BY <2>1 DEF PendingDispose
  <2>3. /\ dispose' \in [Object -> [Disposer -> {"idle", "checked", "running", "done"}]]
        /\ PyRefCountExact' /\ FramesLive' /\ FinalizerFrame'
        /\ DataBound' /\ OneWrapper' /\ KeyPointsBack'
        /\ dispose'[o]["last"] = s
        /\ \A j \in Disposer : j # "last" => dispose'[o][j] = dispose[o][j]
        /\ \A p \in Object : p # o => dispose'[p] = dispose[p]
    BY <1>1, <1>2, <2>1, <2>2, DisposeEntered
  <2>t. TypeOK'
    BY <1>2, <2>1, <2>3 DEF TypeOK, qvars
  <2>4. last_by'[o] = w /\ \A p \in Object : p # o => last_by'[p] = last_by[p]
    BY <2>1 DEF TypeOK
  <2>5. RefCountExact'
    <3>1. Running(o)' = Running(o)
      BY <2>3 DEF Running
    <3>2. \A p \in Object : Wrappers(p)' = Wrappers(p)
      BY <1>2, <2>1 DEF Wrappers
    <3> QED
      BY <1>2, <2>1, <2>3, <2>4, <3>1, <3>2, ConstantsAssumption, Parts, RefCountStep
  <2>6. LastUnref'
    <3>1. \A p \in Object, k \in Disposer \ {"last"} : dispose'[p][k] = dispose[p][k]
      BY <2>3
    <3>2. \A p \in Object : p # o => dispose'[p]["last"] = dispose[p]["last"]
      BY <2>3
    <3> QED
      BY <1>0, <2>1, <2>3, <2>4, <3>1, <3>2 DEF LastUnref
  <2>7. Phases' /\ Lifetime'
    BY <1>2, <2>1 DEF Phases, Lifetime
  <2> QED
    BY <2>t, <2>3, <2>5, <2>6, <2>7
<1> QED
  BY <1>4, <1>5

LEMMA RunDisposeStep ==
    ASSUME IInv, NEW o \in Object, NEW r \in Runner, RunDispose(o, r)
    PROVE  IInv'
<1> USE DEF IInv
<1>1. /\ r \in Disposer /\ r # "last" /\ r # "finalizer"
      /\ dispose[o][r] = "idle" /\ inst_data[o] # NULL /\ ostate[o] = "alive"
      /\ dispose' = [dispose EXCEPT ![o][r] = "checked"]
      /\ ref_count' = [ref_count EXCEPT ![o] = @ + 1]
      /\ UNCHANGED <<ostate, floating, cref, qvars, frame, last_by, disposed, wvars>>
  BY ConstantsAssumption DEF RunDispose, PendingDispose, Disposer
<1>2. /\ dispose' \in [Object -> [Disposer -> {"idle", "checked", "running", "done"}]]
      /\ PyRefCountExact' /\ FramesLive' /\ FinalizerFrame'
      /\ DataBound' /\ OneWrapper' /\ KeyPointsBack'
      /\ dispose'[o][r] = "checked"
      /\ \A j \in Disposer : j # r => dispose'[o][j] = dispose[o][j]
      /\ \A p \in Object : p # o => dispose'[p] = dispose[p]
  BY <1>1, DisposeEntered DEF wvars
<1>3. /\ ref_count'[o] = ref_count[o] + 1 /\ ref_count[o] \in Nat
      /\ \A p \in Object : p # o => ref_count'[p] = ref_count[p]
  BY <1>1 DEF TypeOK
<1>t. TypeOK'
  <2>1. ref_count' \in [Object -> Nat]
    BY <1>1, <1>3 DEF TypeOK
  <2> QED
    BY <1>1, <1>2, <2>1 DEF TypeOK, qvars, wvars
<1>4. RefCountExact'
  <2>1. Cardinality(Running(o)') = Cardinality(Running(o)) + 1
    <3>1. Running(o)' = Running(o) \cup {r} /\ r \notin Running(o)
      BY <1>1, <1>2 DEF Running
    <3> QED
      BY <3>1, FiniteOwners, FS_AddElement
  <2>2. \A p \in Object : Wrappers(p)' = Wrappers(p)
    BY <1>1 DEF Wrappers, wvars
  <2>3. dispose'[o]["last"] = dispose[o]["last"]
    BY <1>1, <1>2 DEF Disposer
  <2> QED
    BY <1>1, <1>2, <1>3, <2>1, <2>2, <2>3, Parts, RefCountStep
<1>5. LastUnref'
  <2>1. \A p \in Object, k \in Disposer \ {"last"} : dispose'[p][k] # "done"
    <3> TAKE p \in Object, k \in Disposer \ {"last"}
    <3>1. dispose'[p][k] = dispose[p][k] \/ dispose'[p][k] = "checked"
      BY <1>2
    <3> QED
      BY <3>1 DEF LastUnref
  <2>2. \A p \in Object : dispose'[p]["last"] = dispose[p]["last"]
    BY <1>1, <1>2 DEF Disposer
  <2> QED
    BY <1>1, <2>1, <2>2 DEF LastUnref, wvars
<1>6. Phases' /\ Lifetime'
  BY <1>1, <1>3 DEF Phases, Lifetime, wvars
<1> QED
  BY <1>t, <1>2, <1>4, <1>5, <1>6

LEMMA CallDoDisposeStep ==
    ASSUME IInv, RewrapDying = FALSE, NEW o \in Object, NEW k \in Disposer,
           NEW w \in Wrapper, CallDoDispose(o, k, w)
    PROVE  IInv'
<1> USE DEF IInv
<1>1. /\ dispose[o][k] = "checked" /\ k # "finalizer" /\ inst_data[o] # NULL
      /\ Obtain(o, w, 0, FlagDown(o))
      /\ ref_count' = [ref_count EXCEPT ![o] = @ + Flag(Registered(o) = NULL)]
      /\ dispose' = [dispose EXCEPT ![o][k] = "running"]
      /\ frame' = [frame EXCEPT ![o][k] = w]
      /\ disposed' = [disposed EXCEPT ![o] = @ + 1]
      /\ UNCHANGED <<ostate, floating, cref, last_by, dropping>>
  BY DEF CallDoDispose, FinalizerFrame, DataBound
<1>2. FlagDown(o) \in InstData /\ FlagDown(o) # NULL
  <2>1. inst_data[o] \in InstData
    BY <1>1 DEF TypeOK
  <2>2. FlagDown(o) \in InstData
    BY <2>1 DEF FlagDown, InstData
  <2> QED
    BY <2>2, NewDataType
<1>3. /\ wrapper_key' \in [Object -> Wrapper \cup {NULL}]
      /\ inst_data' \in [Object -> InstData \cup {NULL}]
      /\ phase' \in [Wrapper -> Phase]
      /\ obj' \in [Wrapper -> Object \cup {NULL}]
      /\ ob_refcnt' \in [Wrapper -> Nat] /\ held' \in [Wrapper -> Nat]
      /\ pyclass' \in [Wrapper -> Class]
      /\ finalized' \in [Wrapper -> BOOLEAN]
      /\ OneWrapper' /\ KeyPointsBack' /\ Phases'
      /\ obj'[w] = o
      /\ \A v \in Wrapper : obj[v] # NULL => obj'[v] = obj[v]
      /\ \A v \in Wrapper : v # w => obj'[v] = obj[v]
      /\ \A v \in Wrapper : phase'[v] = "finalizing" <=> phase[v] = "finalizing"
      /\ \A p \in Object : p # o => Wrappers(p)' = Wrappers(p)
      /\ Registered(o) # NULL => Wrappers(o)' = Wrappers(o)
      /\ Registered(o) = NULL => Cardinality(Wrappers(o)') = Cardinality(Wrappers(o)) + 1
      /\ \A p \in Object : p # o => wrapper_key'[p] = wrapper_key[p]
  BY <1>1, <1>2, ObtainFacts
<1>4. /\ dispose'[o][k] = "running" /\ frame'[o][k] = w
      /\ \A j \in Disposer : j # k => dispose'[o][j] = dispose[o][j] /\ frame'[o][j] = frame[o][j]
      /\ \A p \in Object : p # o => /\ dispose'[p] = dispose[p] /\ frame'[p] = frame[p]
                                    /\ ref_count'[p] = ref_count[p]
      /\ ref_count'[o] = ref_count[o] + Flag(Registered(o) = NULL)
      /\ ref_count[o] \in Nat
  BY <1>1 DEF TypeOK
<1>5. /\ ob_refcnt'[w] = ob_refcnt[w] + 1 /\ held'[w] = held[w]
      /\ ob_refcnt[w] \in Nat /\ held[w] \in Nat
      /\ \A v \in Wrapper : v # w => ob_refcnt'[v] = ob_refcnt[v] /\ held'[v] = held[v]
  BY <1>1 DEF Obtain, TypeOK
<1>t. TypeOK'
  <2>1. /\ dispose' \in [Object -> [Disposer -> {"idle", "checked", "running", "done"}]]
        /\ frame' \in [Object -> [Disposer -> Wrapper \cup {NULL}]]
        /\ disposed' \in [Object -> Nat]
    BY <1>1 DEF TypeOK
  <2>2. ref_count' \in [Object -> Nat]
    BY <1>1, <1>4 DEF TypeOK
  <2> QED
    BY <1>1, <1>3, <2>1, <2>2 DEF TypeOK
<1>6. RefCountExact'
  <2>1. Running(o)' = Running(o)
    BY <1>1, <1>4 DEF Running
  <2>2. (dispose'[o]["last"] # "idle") <=> (dispose[o]["last"] # "idle")
    BY <1>1, <1>4 DEF Disposer
  <2> QED
    BY <1>1, <1>3, <1>4, <2>1, <2>2, Parts, RefCountStep
<1>7. \A p \in Object, j \in Disposer :
         \/ p = o /\ j = k
         \/ dispose'[p][j] = dispose[p][j] /\ frame'[p][j] = frame[p][j]
  BY <1>4
<1>8. PyRefCountExact'
  <2>1. Cardinality(FramesOf(w)') = Cardinality(FramesOf(w)) + 1
    <3>1. FramesOf(w)' = FramesOf(w) \cup {k}
      <4>1. \A j \in Disposer : j # k => (j \in FramesOf(w)' <=> j \in FramesOf(w))
        <5>1. \A j \in Disposer : dispose[o][j] = "running" /\ frame[o][j] = w => obj[w] = o
          BY DEF FramesLive
        <5>2. obj[w] # NULL => obj[w] = o
          BY <1>3
        <5> QED
          BY <1>3, <1>4, <5>1, <5>2, ConstantsAssumption DEF FramesOf
      <4>2. k \in FramesOf(w)'
        BY <1>3, <1>4, ConstantsAssumption DEF FramesOf
      <4> QED
        BY <4>1, <4>2 DEF FramesOf
    <3>2. k \notin FramesOf(w)
      BY <1>1, <1>3 DEF FramesOf
    <3> QED
      BY <3>1, <3>2, FiniteOwners, FS_AddElement
  <2>2. \A v \in Wrapper \ {w} : FramesOf(v)' = FramesOf(v)
    <3>1. \A v \in Wrapper \ {w} : obj[v] # NULL => obj[v] \in Object
      BY DEF TypeOK
    <3>2. \A v \in Wrapper \ {w} : obj[v] # o
      BY <1>1, <1>3, ConstantsAssumption DEF OneWrapper
    <3> QED
      BY <1>3, <1>4, <3>1, <3>2 DEF FramesOf
  <2>3. ob_refcnt'[w] = held'[w] + Cardinality(FramesOf(w)') + Flag(phase'[w] = "finalizing")
    BY <1>3, <1>5, <2>1, PyParts
  <2> QED
    BY <1>3, <1>5, <2>2, <2>3, PyRefCountStep
<1>9. FramesLive'
  <2> SUFFICES ASSUME NEW p \in Object, NEW j \in Disposer, dispose'[p][j] = "running"
               PROVE  frame'[p][j] \in Wrapper /\ obj'[frame'[p][j]] = p
    BY DEF FramesLive
  <2>1. CASE p = o /\ j = k
    BY <1>3, <1>4, <2>1
  <2>2. CASE ~(p = o /\ j = k)
    BY <1>3, <1>7, <2>2, ConstantsAssumption DEF FramesLive
  <2> QED
    BY <2>1, <2>2
<1>10. FinalizerFrame'
  <2>1. \A v \in Wrapper : phase[v] = "finalizing" => obj[v] \in Object /\ obj'[v] = obj[v]
    BY <1>3 DEF Phases, Usable, TypeOK
  <2>2. \A p \in Object : dispose'[p]["finalizer"] = dispose[p]["finalizer"]
                          /\ frame'[p]["finalizer"] = frame[p]["finalizer"]
    BY <1>1, <1>7 DEF Disposer
  <2>3. \A p \in Object : dispose[p]["finalizer"] = "running" => frame[p]["finalizer"] \in Wrapper
    BY DEF FramesLive, Disposer
  <2> QED
    BY <1>3, <2>1, <2>2, <2>3 DEF FinalizerFrame
<1>11. DataBound'
  <2>1. \A p \in Object : inst_data[p] # NULL => inst_data'[p] # NULL
    BY <1>1, <1>2 DEF Obtain, TypeOK
  <2>2. inst_data'[o] # NULL
    BY <1>1, <2>1
  <2> QED
    BY <1>3, <1>7, <2>1, <2>2 DEF DataBound
<1>12. LastUnref'
  <2>1. \A p \in Object, j \in Disposer \ {"last"} : dispose'[p][j] # "done"
    <3> TAKE p \in Object, j \in Disposer \ {"last"}
    <3>1. dispose'[p][j] = dispose[p][j] \/ dispose'[p][j] = "running"
      BY <1>4, <1>7
    <3> QED
      BY <3>1 DEF LastUnref
  <2>2. \A p \in Object : dispose[p]["last"] # "idle" => dispose'[p]["last"] # "idle"
    BY <1>4, <1>7 DEF Disposer
  <2> QED
    BY <1>1, <2>1, <2>2 DEF LastUnref
<1>13. Lifetime'
  <2>1. ref_count'[o] > 0 <=> ref_count[o] > 0
    <3>1. ref_count[o] # 0
      BY <1>1, NoOwners
    <3> QED
      BY <1>4, <3>1
  <2> QED
    BY <1>1, <1>4, <2>1 DEF Lifetime
<1> QED
  BY <1>t, <1>3, <1>6, <1>8, <1>9, <1>10, <1>11, <1>12, <1>13

\* What every way for do_dispose to return has in common.
LEMMA FrameReturns ==
    ASSUME IInv, NEW o \in Object, NEW k \in Disposer, NEW w \in Wrapper,
           DoDisposeReturns(o, k), frame[o][k] = w
    PROVE  /\ obj[w] = o /\ phase[w] \in Usable /\ dispose[o][k] = "running"
           /\ wrapper_key[o] = w /\ inst_data[o] # NULL
           /\ k \in FramesOf(w)
           /\ ref_count[o] \in Nat /\ ref_count[o] > Flag(k # "last")
           /\ dispose'[o][k] = IF k = "last" THEN "done" ELSE "idle"
           /\ \A j \in Disposer : j # k => /\ dispose'[o][j] = dispose[o][j]
                                           /\ frame'[o][j] = frame[o][j]
           /\ \A p \in Object : p # o => dispose'[p] = dispose[p] /\ frame'[p] = frame[p]
           /\ Cardinality(FramesOf(w)') = Cardinality(FramesOf(w)) - 1
           /\ \A v \in Wrapper : v # w => FramesOf(v)' = FramesOf(v)
<1> USE DEF IInv
<1>1. dispose[o][k] = "running" /\ obj[w] = o /\ obj' = obj /\ obj[w] # NULL
  BY ConstantsAssumption DEF DoDisposeReturns, FramesLive
<1>2. k \in FramesOf(w)
  BY <1>1 DEF FramesOf
<1>3. /\ ob_refcnt[w] # 0 /\ phase[w] \in Usable /\ wrapper_key[o] = w
      /\ inst_data[o] # NULL
  BY <1>1, <1>2, ReferencedUsable, NewDataType
<1>4. ref_count[o] \in Nat /\ ref_count[o] > Flag(k # "last")
  <2>1. Cardinality(Wrappers(o)) # 0
    <3>1. w \in Wrappers(o)
      BY <1>1 DEF Wrappers
    <3> QED
      BY <3>1, FiniteOwners, FS_EmptySet
  <2>2. k # "last" => Cardinality(Running(o)) # 0
    <3>1. k # "last" => k \in Running(o)
      BY <1>1 DEF Running
    <3> QED
      BY <3>1, FiniteOwners, FS_EmptySet
  <2>3. ref_count[o] \in Nat
    BY DEF TypeOK
  <2> QED
    BY <2>1, <2>2, <2>3, Parts
<1>5. /\ dispose' = [dispose EXCEPT ![o][k] = IF k = "last" THEN "done" ELSE "idle"]
      /\ frame' = [frame EXCEPT ![o][k] = IF k = "last" THEN @ ELSE NULL]
  BY DEF DoDisposeReturns
<1>6. /\ dispose'[o][k] = IF k = "last" THEN "done" ELSE "idle"
      /\ \A j \in Disposer : j # k => dispose'[o][j] = dispose[o][j] /\ frame'[o][j] = frame[o][j]
      /\ \A p \in Object : p # o => dispose'[p] = dispose[p] /\ frame'[p] = frame[p]
  BY <1>5 DEF TypeOK
<1>7. Cardinality(FramesOf(w)') = Cardinality(FramesOf(w)) - 1
  <2>1. FramesOf(w)' = FramesOf(w) \ {k}
    BY <1>1, <1>6 DEF FramesOf
  <2> QED
    BY <1>2, <2>1, FiniteOwners, FS_RemoveElement
<1>8. \A v \in Wrapper : v # w => FramesOf(v)' = FramesOf(v)
  <2> TAKE v \in Wrapper
  <2>1. v # w => obj[v] # o
    BY <1>3, ConstantsAssumption DEF OneWrapper
  <2>2. obj[v] # NULL => obj[v] \in Object
    BY DEF TypeOK
  <2> QED
    BY <1>1, <1>6, <2>1, <2>2 DEF FramesOf
<1> QED
  BY <1>1, <1>2, <1>3, <1>4, <1>6, <1>7, <1>8

LEMMA DoDisposeReturnsStep ==
    ASSUME IInv, NEW o \in Object, NEW k \in Disposer, DoDisposeReturns(o, k)
    PROVE  IInv'
<1> USE DEF IInv
<1>0. PICK w \in Wrapper : frame[o][k] = w
  BY DEF DoDisposeReturns, FramesLive
<1>1. /\ obj[w] = o /\ phase[w] \in Usable /\ dispose[o][k] = "running"
      /\ wrapper_key[o] = w /\ inst_data[o] # NULL
      /\ k \in FramesOf(w)
      /\ ref_count[o] \in Nat /\ ref_count[o] > Flag(k # "last")
      /\ dispose'[o][k] = IF k = "last" THEN "done" ELSE "idle"
      /\ \A j \in Disposer : j # k => /\ dispose'[o][j] = dispose[o][j]
                                      /\ frame'[o][j] = frame[o][j]
      /\ \A p \in Object : p # o => dispose'[p] = dispose[p] /\ frame'[p] = frame[p]
      /\ Cardinality(FramesOf(w)') = Cardinality(FramesOf(w)) - 1
      /\ \A v \in Wrapper : v # w => FramesOf(v)' = FramesOf(v)
  BY <1>0, FrameReturns
<1>2. /\ UNCHANGED <<ostate, floating, cref, qvars, last_by, disposed, obj, dropping,
                     held, pyclass>>
      /\ frame' = [frame EXCEPT ![o][k] = IF k = "last" THEN @ ELSE NULL]
      /\ dispose' = [dispose EXCEPT ![o][k] = IF k = "last" THEN "done" ELSE "idle"]
      /\ ref_count' = IF k = "last" THEN ref_count ELSE [ref_count EXCEPT ![o] = @ - 1]
  BY DEF DoDisposeReturns
<1>3. /\ ref_count'[o] = ref_count[o] - Flag(k # "last")
      /\ \A p \in Object : p # o => ref_count'[p] = ref_count[p]
  BY <1>1, <1>2 DEF TypeOK
<1>4. k = "finalizer" <=> (phase[w] = "finalizing" /\ k = "finalizer")
  BY <1>0, <1>1 DEF FinalizerFrame
<1>5. PICK n \in {1, 2} :
         /\ n = 2 <=> k = "finalizer"
         /\ ob_refcnt' = [ob_refcnt EXCEPT ![w] = @ - n]
         /\ \/ /\ Release(w, n)
               /\ n = 2 \/ phase[w] # "finalizing"
            \/ /\ n = 1 /\ phase[w] = "finalizing"
               /\ UNCHANGED <<phase, finalized>>
  BY <1>0, <1>4 DEF DoDisposeReturns, Release
<1>6. /\ \A v \in Wrapper : v # w => /\ ob_refcnt'[v] = ob_refcnt[v] /\ phase'[v] = phase[v]
      /\ ob_refcnt'[w] = ob_refcnt[w] - n
      /\ held' = held
  BY <1>2, <1>5 DEF Release, TypeOK
<1>7. PICK h, c, f \in Nat :
         /\ ob_refcnt[w] = h + c + f
         /\ h = held[w] /\ c = Cardinality(FramesOf(w))
         /\ f = Flag(phase[w] = "finalizing") /\ c > 0
  <2>1. Cardinality(FramesOf(w)) # 0
    BY <1>1, FiniteOwners, FS_EmptySet
  <2> QED
    BY <2>1, PyParts
<1>8. \/ /\ n = 2 /\ phase[w] = "finalizing" /\ k = "finalizer"
         /\ phase'[w] = IF ob_refcnt[w] > n THEN "live" ELSE "weakrefs"
      \/ /\ n = 1 /\ phase[w] = "live" /\ k # "finalizer"
         /\ phase'[w] = IF ob_refcnt[w] > n THEN "live" ELSE "weakrefs"
      \/ /\ n = 1 /\ phase[w] = "finalizing" /\ k # "finalizer"
         /\ phase'[w] = "finalizing"
  BY <1>1, <1>4, <1>5 DEF Release, Usable, TypeOK
<1>9. /\ ob_refcnt'[w] \in Nat
      /\ ob_refcnt'[w] = held[w] + Cardinality(FramesOf(w)') + Flag(phase'[w] = "finalizing")
      /\ phase'[w] \notin Usable => ob_refcnt'[w] = 0
      /\ phase'[w] \in Usable \cup {"weakrefs"}
  BY <1>1, <1>6, <1>7, <1>8 DEF Usable
<1>t. TypeOK'
  <2>1. ref_count' \in [Object -> Nat]
    <3>1. ref_count'[o] \in Nat
      BY <1>1, <1>3
    <3> QED
      BY <1>2, <3>1 DEF TypeOK
  <2>2. ob_refcnt' \in [Wrapper -> Nat]
    BY <1>5, <1>9 DEF TypeOK
  <2>3. phase' \in [Wrapper -> Phase] /\ finalized' \in [Wrapper -> BOOLEAN]
    BY <1>5 DEF Release, TypeOK, Phase
  <2>4. /\ dispose' \in [Object -> [Disposer -> {"idle", "checked", "running", "done"}]]
        /\ frame' \in [Object -> [Disposer -> Wrapper \cup {NULL}]]
    BY <1>2 DEF TypeOK
  <2> QED
    BY <1>2, <2>1, <2>2, <2>3, <2>4 DEF TypeOK, qvars
<1>10. PyRefCountExact'
  BY <1>1, <1>6, <1>9, PyRefCountStep
<1>11. RefCountExact'
  <2>1. Cardinality(Running(o)') = Cardinality(Running(o)) - Flag(k # "last")
    <3>1. CASE k = "last"
      <4>1. Running(o)' = Running(o)
        BY <1>1, <3>1 DEF Running
      <4>2. Cardinality(Running(o)) \in Nat
        BY FiniteOwners
      <4> QED
        BY <3>1, <4>1, <4>2
    <3>2. CASE k # "last"
      <4>1. Running(o)' = Running(o) \ {k} /\ k \in Running(o)
        BY <1>1, <3>2 DEF Running
      <4> QED
        BY <3>2, <4>1, FiniteOwners, FS_RemoveElement
    <3> QED
      BY <3>1, <3>2
  <2>2. \A p \in Object : Wrappers(p)' = Wrappers(p)
    BY <1>2 DEF Wrappers
  <2>3. (dispose'[o]["last"] # "idle") <=> (dispose[o]["last"] # "idle")
    BY <1>1 DEF Disposer
  <2> QED
    BY <1>1, <1>2, <1>3, <2>1, <2>2, <2>3, Parts, RefCountStep
<1>12. Phases'
  <2>1. obj[w] # NULL /\ dropping[w] = NULL
    BY <1>1, ConstantsAssumption DEF Phases, Usable
  <2> QED
    BY <1>2, <1>6, <1>9, <2>1 DEF Phases, Usable
<1>13. \A p \in Object, j \in Disposer :
          \/ p = o /\ j = k
          \/ dispose'[p][j] = dispose[p][j] /\ frame'[p][j] = frame[p][j]
  BY <1>1
<1>14. DataBound' /\ FramesLive'
  <2>1. \A p \in Object, j \in Disposer :
           dispose'[p][j] \in {"checked", "running"} =>
              dispose'[p][j] = dispose[p][j] /\ frame'[p][j] = frame[p][j]
    BY <1>1, <1>13
  <2> QED
    BY <1>2, <2>1 DEF DataBound, FramesLive, qvars
<1>15. FinalizerFrame'
  <2>1. CASE k = "finalizer"
    <3>1. phase[w] = "finalizing" /\ phase'[w] # "finalizing"
      BY <1>8, <2>1
    <3>2. dispose'[o]["finalizer"] = "idle"
      BY <1>1, <2>1
    <3>3. \A v \in Wrapper : v # w /\ phase[v] = "finalizing" => obj[v] \in Object /\ obj[v] # o
      BY <1>1, ConstantsAssumption DEF OneWrapper, Phases, Usable, TypeOK
    <3>4. \A p \in Object : p # o /\ dispose[p]["finalizer"] = "running" =>
             frame[p]["finalizer"] \in Wrapper /\ frame[p]["finalizer"] # w
      BY <1>1 DEF FramesLive, Disposer
    <3> QED
      BY <1>1, <1>2, <1>6, <3>1, <3>2, <3>3, <3>4 DEF FinalizerFrame
  <2>2. CASE k # "finalizer"
    <3>1. \A v \in Wrapper : phase'[v] = "finalizing" <=> phase[v] = "finalizing"
      BY <1>6, <1>8, <2>2
    <3>2. \A p \in Object : /\ dispose'[p]["finalizer"] = dispose[p]["finalizer"]
                            /\ frame'[p]["finalizer"] = frame[p]["finalizer"]
      BY <1>13, <2>2 DEF Disposer
    <3>3. \A p \in Object : dispose[p]["finalizer"] = "running" => frame[p]["finalizer"] \in Wrapper
      BY DEF FramesLive, Disposer
    <3>4. \A v \in Wrapper : phase[v] = "finalizing" => obj[v] \in Object
      BY DEF Phases, Usable, TypeOK
    <3> QED
      BY <1>2, <3>1, <3>2, <3>3, <3>4 DEF FinalizerFrame
  <2> QED
    BY <2>1, <2>2
<1>16. LastUnref'
  <2>1. \A p \in Object, j \in Disposer \ {"last"} : dispose'[p][j] # "done"
    BY <1>1, <1>13 DEF LastUnref
  <2>2. \A p \in Object : dispose[p]["last"] # "idle" => dispose'[p]["last"] # "idle"
    BY <1>1, <1>13 DEF Disposer
  <2> QED
    BY <1>2, <2>1, <2>2 DEF LastUnref
<1>17. Lifetime'
  <2>1. ref_count[o] > 0 /\ ref_count'[o] > 0
    BY <1>1, <1>3
  <2> QED
    BY <1>2, <1>3, <2>1 DEF Lifetime
<1>18. OneWrapper' /\ KeyPointsBack'
  BY <1>2 DEF OneWrapper, KeyPointsBack, qvars
<1> QED
  BY <1>t, <1>10, <1>11, <1>12, <1>14, <1>15, <1>16, <1>17, <1>18

LEMMA LastUnrefEndsStep ==
    ASSUME IInv, NEW o \in Object, LastUnrefEnds(o)
    PROVE  IInv'
<1> USE DEF IInv
<1>1. /\ "last" \in Disposer
      /\ dispose[o]["last"] = "done" /\ ref_count[o] \in Nat /\ ref_count[o] # 0
      /\ dispose' = [dispose EXCEPT ![o]["last"] = "idle"]
      /\ frame' = [frame EXCEPT ![o]["last"] = NULL]
      /\ last_by' = [last_by EXCEPT ![o] = NULL]
      /\ ref_count' = [ref_count EXCEPT ![o] = @ - 1]
      /\ UNCHANGED <<floating, cref, disposed, obj, ob_refcnt, held, pyclass, finalized>>
  <2>1. "last" \in Disposer
    BY DEF Disposer
  <2>2. dispose[o]["last"] = "done"
    BY DEF LastUnrefEnds
  <2>3. ref_count[o] # 0
    BY <2>1, <2>2, NoOwners
  <2> QED
    BY <2>1, <2>2, <2>3 DEF LastUnrefEnds, TypeOK
<1>2. /\ dispose'[o]["last"] = "idle" /\ last_by'[o] = NULL
      /\ ref_count'[o] = ref_count[o] - 1 /\ ref_count'[o] \in Nat
      /\ \A j \in Disposer : j # "last" => dispose'[o][j] = dispose[o][j] /\ frame'[o][j] = frame[o][j]
      /\ \A p \in Object : p # o => /\ dispose'[p] = dispose[p] /\ frame'[p] = frame[p]
                                    /\ last_by'[p] = last_by[p] /\ ref_count'[p] = ref_count[p]
  <2>1. ref_count[o] - 1 \in Nat
    BY <1>1
  <2> QED
    BY <1>1, <2>1 DEF TypeOK
<1>3. last_by[o] # NULL => /\ last_by[o] \in Wrapper /\ dropping[last_by[o]] = o
                           /\ phase[last_by[o]] = "unref" /\ obj[last_by[o]] = NULL
                           /\ ob_refcnt[last_by[o]] = 0
  <2> SUFFICES ASSUME last_by[o] # NULL
               PROVE  /\ last_by[o] \in Wrapper /\ dropping[last_by[o]] = o
                      /\ phase[last_by[o]] = "unref" /\ obj[last_by[o]] = NULL
                      /\ ob_refcnt[last_by[o]] = 0
    OBVIOUS
  <2>1. last_by[o] \in Wrapper /\ dropping[last_by[o]] = o
    BY DEF LastUnref, TypeOK
  <2> QED
    BY <2>1, ConstantsAssumption DEF Phases, Usable
<1>4. \A p \in Object, j \in Disposer :
         \/ p = o /\ j = "last"
         \/ dispose'[p][j] = dispose[p][j] /\ frame'[p][j] = frame[p][j]
  BY <1>2
<1>5. \A p \in Object, j \in Disposer :
         dispose'[p][j] # "idle" => dispose'[p][j] = dispose[p][j] /\ frame'[p][j] = frame[p][j]
  BY <1>2, <1>4
<1>6. /\ phase' = IF last_by[o] = NULL THEN phase
                  ELSE [phase EXCEPT ![last_by[o]] = "free"]
      /\ dropping' = IF last_by[o] = NULL THEN dropping
                     ELSE [dropping EXCEPT ![last_by[o]] = NULL]
  BY DEF LastUnrefEnds
<1>7. \A v \in Wrapper :
         \/ v = last_by[o] /\ phase'[v] = "free" /\ dropping'[v] = NULL
         \/ v # last_by[o] /\ phase'[v] = phase[v] /\ dropping'[v] = dropping[v]
  <2>1. CASE last_by[o] = NULL
    BY <1>6, <2>1, ConstantsAssumption
  <2>2. CASE last_by[o] # NULL
    BY <1>3, <1>6, <2>2 DEF TypeOK
  <2> QED
    BY <2>1, <2>2
<1>8. Cardinality(Wrappers(o)') = Cardinality(Wrappers(o)) - Flag(last_by[o] # NULL)
  <2>1. CASE last_by[o] = NULL
    <3>1. Wrappers(o)' = Wrappers(o)
      BY <1>1, <1>6, <2>1 DEF Wrappers
    <3> QED
      BY <2>1, <3>1, FiniteOwners
  <2>2. CASE last_by[o] # NULL
    <3>1. Wrappers(o)' = Wrappers(o) \ {last_by[o]} /\ last_by[o] \in Wrappers(o)
      BY <1>1, <1>3, <1>7, <2>2, ConstantsAssumption DEF Wrappers
    <3> QED
      BY <2>2, <3>1, FiniteOwners, FS_RemoveElement
  <2> QED
    BY <2>1, <2>2
<1>9. RefCountExact'
  <2>1. \A p \in Object : p # o => Wrappers(p)' = Wrappers(p)
    BY <1>1, <1>3, <1>7, ConstantsAssumption DEF Wrappers
  <2>2. Running(o)' = Running(o)
    BY <1>2 DEF Running
  <2>3. ref_count'[o] = cref'[o] + Flag(floating'[o]) + Cardinality(Wrappers(o)')
                          + Cardinality(Running(o)')
                          + Flag(dispose'[o]["last"] # "idle" /\ last_by'[o] = NULL)
    <3>1. floating' = floating /\ cref' = cref /\ dispose[o]["last"] # "idle"
      BY <1>1
    <3> QED
      BY <1>2, <1>8, <2>2, <3>1, Parts
  <2>4. floating' = floating /\ cref' = cref
    BY <1>1
  <2> QED
    BY <1>2, <2>1, <2>3, <2>4, RefCountStep
<1>a. ~(ref_count[o] > 1) =>
         /\ Cardinality(Wrappers(o)) = Flag(last_by[o] # NULL)
         /\ Cardinality(Running(o)) = 0
  <2>1. last_by[o] # NULL => Cardinality(Wrappers(o)) # 0
    <3>1. last_by[o] # NULL => last_by[o] \in Wrappers(o)
      BY <1>3 DEF Wrappers
    <3> QED
      BY <3>1, FiniteOwners, FS_EmptySet
  <2>2. PICK c, f, n, r, l \in Nat :
           /\ ref_count[o] = c + f + n + r + l
           /\ c = cref[o] /\ f = Flag(floating[o])
           /\ n = Cardinality(Wrappers(o)) /\ r = Cardinality(Running(o))
           /\ l = Flag(dispose[o]["last"] # "idle" /\ last_by[o] = NULL)
    BY Parts
  <2>3. dispose[o]["last"] # "idle"
    BY <1>1
  <2>4. CASE last_by[o] = NULL
    BY <2>2, <2>3, <2>4
  <2>5. CASE last_by[o] # NULL
    BY <2>1, <2>2, <2>3, <2>5
  <2> QED
    BY <2>4, <2>5
<1>10. Lifetime' /\ wrapper_key' = wrapper_key /\ ostate' \in [Object -> {"absent", "alive", "finalized"}]
  <2>1. CASE ref_count[o] > 1
    <3>1. UNCHANGED <<ostate, qvars>>
      BY <2>1 DEF LastUnrefEnds
    <3>2. ref_count[o] > 0 /\ ref_count'[o] > 0
      BY <1>1, <1>2, <2>1
    <3> QED
      BY <1>2, <3>1, <3>2 DEF Lifetime, qvars, TypeOK
  <2>2. CASE ~(ref_count[o] > 1)
    <3>1. /\ ostate' = [ostate EXCEPT ![o] = "finalized"]
          /\ wrapper_key' = [wrapper_key EXCEPT ![o] = NULL]
      BY <2>2 DEF LastUnrefEnds
    <3>2. ref_count[o] = 1 /\ ref_count'[o] = 0
      BY <1>1, <1>2, <2>2
    <3>3. wrapper_key[o] = NULL
      <4>1. Cardinality(Wrappers(o)) = Flag(last_by[o] # NULL)
        BY <1>a, <2>2
      <4>2. \A v \in Wrapper : obj[v] # o
        <5>1. last_by[o] = NULL => Wrappers(o) = {}
          BY <4>1, FiniteOwners, FS_EmptySet
        <5>2. last_by[o] # NULL => Wrappers(o) = {last_by[o]}
          <6>1. last_by[o] # NULL =>
                   /\ Cardinality(Wrappers(o)) = 1 /\ last_by[o] \in Wrappers(o)
                   /\ IsFiniteSet(Wrappers(o))
            BY <1>3, <4>1, FiniteOwners DEF Wrappers
          <6>2. ASSUME last_by[o] # NULL
                PROVE  /\ Cardinality(Wrappers(o) \ {last_by[o]}) = 0
                       /\ IsFiniteSet(Wrappers(o) \ {last_by[o]})
            <7>1. /\ IsFiniteSet(Wrappers(o) \ {last_by[o]})
                  /\ Cardinality(Wrappers(o) \ {last_by[o]}) = Cardinality(Wrappers(o)) - 1
              BY <6>1, <6>2, FS_RemoveElement
            <7> QED
              BY <6>1, <6>2, <7>1
          <6>3. last_by[o] # NULL => Wrappers(o) \ {last_by[o]} = {}
            BY <6>2, FS_EmptySet
          <6> QED
            BY <6>1, <6>3
        <5> QED
          BY <1>3, <5>1, <5>2, ConstantsAssumption DEF Wrappers
      <4> QED
        BY <4>2 DEF KeyPointsBack, TypeOK
    <3> QED
      BY <1>2, <3>1, <3>2, <3>3 DEF Lifetime, TypeOK
  <2> QED
    BY <2>1, <2>2
<1>11. /\ inst_data' \in [Object -> InstData \cup {NULL}]
       /\ \A p \in Object :
            \/ inst_data'[p] = inst_data[p]
            \/ p = o /\ wrapper_key[o] = NULL /\ \A j \in Disposer : dispose'[o][j] = "idle"
  <2>1. CASE ref_count[o] > 1
    <3>1. inst_data' = inst_data
      BY <2>1 DEF LastUnrefEnds, qvars
    <3> QED
      BY <3>1 DEF TypeOK
  <2>2. CASE ~(ref_count[o] > 1)
    <3>1. /\ inst_data' = [inst_data EXCEPT ![o] = NULL]
          /\ wrapper_key' = [wrapper_key EXCEPT ![o] = NULL]
      BY <2>2 DEF LastUnrefEnds
    <3>2. wrapper_key[o] = NULL
      BY <1>10, <3>1 DEF TypeOK
    <3>3. Running(o) = {}
      <4>1. Cardinality(Running(o)) = 0
        BY <1>a, <2>2
      <4> QED
        BY <4>1, FiniteOwners, FS_EmptySet
    <3>4. \A j \in Disposer : dispose'[o][j] = "idle"
      BY <1>2, <3>3 DEF Running
    <3> QED
      BY <3>1, <3>2, <3>4 DEF TypeOK
  <2> QED
    BY <2>1, <2>2
<1>t. TypeOK'
  <2>1. /\ ref_count' \in [Object -> Nat]
        /\ dispose' \in [Object -> [Disposer -> {"idle", "checked", "running", "done"}]]
        /\ frame' \in [Object -> [Disposer -> Wrapper \cup {NULL}]]
        /\ last_by' \in [Object -> Wrapper \cup {NULL}]
    BY <1>1, <1>2 DEF TypeOK
  <2>2. phase' \in [Wrapper -> Phase] /\ dropping' \in [Wrapper -> Object \cup {NULL}]
    BY <1>6 DEF TypeOK, Phase
  <2> QED
    BY <1>1, <1>10, <1>11, <2>1, <2>2 DEF TypeOK
<1>12. \A v \in Wrapper : phase'[v] = "finalizing" <=> phase[v] = "finalizing"
  BY <1>3, <1>7, ConstantsAssumption
<1>13. PyRefCountExact'
  <2>1. \A v \in Wrapper : FramesOf(v)' = FramesOf(v)
    <3>1. \A p \in Object, j \in Disposer :
             dispose'[p][j] = "running" \/ dispose[p][j] = "running" =>
                dispose'[p][j] = dispose[p][j] /\ frame'[p][j] = frame[p][j]
      BY <1>1, <1>4, <1>5
    <3>2. \A v \in Wrapper : obj[v] # NULL => obj[v] \in Object
      BY DEF TypeOK
    <3> QED
      BY <1>1, <3>1, <3>2 DEF FramesOf
  <2> QED
    BY <1>1, <1>12, <2>1 DEF PyRefCountExact
<1>14. Phases'
  BY <1>1, <1>3, <1>7, ConstantsAssumption DEF Phases, Usable
<1>15. OneWrapper' /\ KeyPointsBack' /\ FramesLive'
  BY <1>1, <1>5, <1>10 DEF OneWrapper, KeyPointsBack, FramesLive
<1>16. DataBound'
  BY <1>5, <1>10, <1>11 DEF DataBound
<1>17. FinalizerFrame'
  <2>1. \A p \in Object : /\ dispose'[p]["finalizer"] = dispose[p]["finalizer"]
                          /\ frame'[p]["finalizer"] = frame[p]["finalizer"]
    BY <1>4 DEF Disposer
  <2>2. \A v \in Wrapper : phase[v] = "finalizing" => obj[v] \in Object
    BY DEF Phases, Usable, TypeOK
  <2>3. \A p \in Object : dispose[p]["finalizer"] = "running" => frame[p]["finalizer"] \in Wrapper
    BY DEF FramesLive, Disposer
  <2> QED
    BY <1>1, <1>12, <2>1, <2>2, <2>3 DEF FinalizerFrame
<1>18. LastUnref'
  <2>1. \A p \in Object, j \in Disposer \ {"last"} : dispose'[p][j] # "done"
    BY <1>5 DEF LastUnref
  <2>2. \A p \in Object : last_by'[p] # NULL =>
           /\ p # o /\ last_by[p] # NULL /\ last_by[p] \in Wrapper
           /\ last_by'[p] = last_by[p] /\ dispose'[p] = dispose[p]
    BY <1>2 DEF TypeOK
  <2>3. \A p \in Object : p # o /\ last_by[p] # NULL => last_by[p] # last_by[o]
    BY <1>3 DEF LastUnref
  <2> QED
    BY <1>7, <2>1, <2>2, <2>3 DEF LastUnref
<1> QED
  BY <1>t, <1>9, <1>10, <1>13, <1>14, <1>15, <1>16, <1>17, <1>18

LEMMA StutterStep ==
    ASSUME IInv, UNCHANGED vars
    PROVE  IInv'
<1> USE DEF IInv, vars, gvars, qvars, dvars, wvars
<1>1. TypeOK'
  BY DEF TypeOK
<1>2. RefCountExact' /\ PyRefCountExact'
  BY DEF RefCountExact, PyRefCountExact, Wrappers, Running, FramesOf
<1>3. /\ OneWrapper' /\ KeyPointsBack' /\ Phases' /\ DataBound' /\ FramesLive'
      /\ FinalizerFrame' /\ LastUnref' /\ Lifetime'
  BY DEF OneWrapper, KeyPointsBack, Phases, DataBound, FramesLive, FinalizerFrame,
         LastUnref, Lifetime
<1> QED
  BY <1>1, <1>2, <1>3

(***************************************************************************)
(* The theorems.                                                           *)
(***************************************************************************)
LEMMA NextIInv ==
    ASSUME IInv, RewrapDying = FALSE, [Next]_vars
    PROVE  IInv'
<1>1. CASE UNCHANGED vars
  BY <1>1, StutterStep
<1>2. CASE Next
  <2>1. ASSUME NEW o \in Object, NEW f \in BOOLEAN, CCreate(o, f)
        PROVE  IInv'
    BY <2>1, CCreateStep
  <2>2. ASSUME NEW o \in Object, CRef(o) \/ CSink(o) \/ CUnref(o)
        PROVE  IInv'
    BY <2>2, CRefStep, CSinkStep, CUnrefStep
  <2>3. ASSUME NEW o \in Object, NEW r \in Runner, RunDispose(o, r)
        PROVE  IInv'
    BY <2>3, RunDisposeStep
  <2>4. ASSUME NEW o \in Object, NEW w \in Wrapper, PyCreate(o, w) \/ RetainFloating(o, w)
        PROVE  IInv'
    BY <2>4, PyCreateStep, RetainFloatingStep
  <2>5. ASSUME NEW o \in Object, NEW w \in Wrapper, NEW steal \in BOOLEAN, NewFull(o, w, steal)
        PROVE  IInv'
    BY <2>5, NewFullStep
  <2>6. ASSUME NEW o \in Object, NEW k \in Disposer, KeepSelf(o, k) \/ DoDisposeReturns(o, k)
        PROVE  IInv'
    BY <2>6, KeepSelfStep, DoDisposeReturnsStep
  <2>7. ASSUME NEW w \in Wrapper, DropHandle(w) \/ Clear(w) \/ WrapperUnref(w)
        PROVE  IInv'
    BY <2>7, DropHandleStep, ClearStep, WrapperUnrefStep
  <2>8. ASSUME NEW w \in Wrapper, NEW v \in Val, SetAttr(w, v)
        PROVE  IInv'
    BY <2>8, SetAttrStep
  <2>9. ASSUME NEW w \in Wrapper, NEW c \in Class, SetClass(w, c)
        PROVE  IInv'
    BY <2>9, SetClassStep
  <2>10. ASSUME NEW o \in Object, LastUnrefEnds(o)
         PROVE  IInv'
    BY <2>10, LastUnrefEndsStep
  <2>11. ASSUME NEW o \in Object, NEW k \in Disposer, NEW w \in Wrapper, CallDoDispose(o, k, w)
         PROVE  IInv'
    BY <2>11, CallDoDisposeStep
  <2> QED
    BY <1>2, <2>1, <2>2, <2>3, <2>4, <2>5, <2>6, <2>7, <2>8, <2>9, <2>10, <2>11
       DEF Next, Code
<1> QED
  BY <1>1, <1>2

LEMMA IInvHolds == ASSUME RewrapDying = FALSE PROVE Spec => []IInv
<1>1. Init => IInv
  BY InitIInv
<1>2. IInv /\ [Next]_vars => IInv'
  <2> SUFFICES ASSUME IInv, [Next]_vars PROVE IInv'
    OBVIOUS
  <2> QED
    BY NextIInv
<1> QED
  BY <1>1, <1>2, PTL DEF Spec

\* Every variable keeps its type: no count goes below zero, no field holds
\* the wrong kind of pointer.
THEOREM TypeCorrect == ASSUME RewrapDying = FALSE PROVE Spec => []TypeOK
<1>1. IInv => TypeOK
  BY DEF IInv
<1> QED
  BY <1>1, IInvHolds, PTL

\* pygobject_register_wrapper, pygobject_clear and the qdata key never leave
\* a GObject with two wrappers.
THEOREM WrapperUnique == ASSUME RewrapDying = FALSE PROVE Spec => []OneWrapper
<1>1. IInv => OneWrapper
  BY DEF IInv
<1> QED
  BY <1>1, IInvHolds, PTL

\* Stealing, sinking and adding references balance: GObject.ref_count is what
\* the owners will release, in every interleaving.
THEOREM NoLeakNoDoubleUnref ==
    ASSUME RewrapDying = FALSE PROVE Spec => []RefCountExact
<1>1. IInv => RefCountExact
  BY DEF IInv
<1> QED
  BY <1>1, IInvHolds, PTL

\* A wrapper Python holds is never one being torn down, nor one whose object
\* is finalized.
THEOREM HandlesStayUsable ==
    ASSUME RewrapDying = FALSE PROVE Spec => []HandlesUsable
<1>1. IInv => HandlesUsable
  <2> SUFFICES ASSUME IInv, NEW w \in Wrapper, held[w] > 0
               PROVE  phase[w] \in Usable /\ obj[w] # NULL /\ ostate[obj[w]] = "alive"
    BY DEF HandlesUsable
  <2>1. phase[w] \in Usable /\ obj[w] \in Object /\ ref_count[obj[w]] > 0
    BY ReferencedUsable
  <2> QED
    BY <2>1, ConstantsAssumption DEF IInv, Lifetime
<1> QED
  BY <1>1, IInvHolds, PTL

\* do_dispose always runs with the live wrapper of its own object.
THEOREM DisposeHasWrapper ==
    ASSUME RewrapDying = FALSE PROVE Spec => []DisposeSeesObject
<1>1. IInv => DisposeSeesObject
  <2> SUFFICES ASSUME IInv, NEW o \in Object, NEW k \in Disposer, dispose[o][k] = "running"
               PROVE  /\ frame[o][k] \in Wrapper
                      /\ phase[frame[o][k]] \in Usable
                      /\ obj[frame[o][k]] = o
    BY DEF DisposeSeesObject
  <2>1. frame[o][k] \in Wrapper /\ obj[frame[o][k]] = o
    BY DEF IInv, FramesLive
  <2>2. k \in FramesOf(frame[o][k])
    BY <2>1, ConstantsAssumption DEF FramesOf
  <2> QED
    BY <2>1, <2>2, ReferencedUsable
<1> QED
  BY <1>1, IInvHolds, PTL

(***************************************************************************)
(* The refinement of PersistentInstance.                                   *)
(***************************************************************************)

\* What Instance makes of one object.
StateOf(o) == IF ostate[o] = "finalized" THEN "gone"
              ELSE IF inst_data[o] = NULL THEN "unbound" ELSE "bound"
AttrOf(o) == DataOf(o).inst_dict
ClassOf(o) == IF wrapper_key[o] = NULL THEN DataOf(o).type ELSE pyclass[wrapper_key[o]]
InHandOf(o) == IF wrapper_key[o] = NULL THEN 0 ELSE held[wrapper_key[o]]

Same(o) == /\ StateOf(o)' = StateOf(o) /\ AttrOf(o)' = AttrOf(o)
           /\ ClassOf(o)' = ClassOf(o) /\ InHandOf(o)' = InHandOf(o)

LEMMA StutterMaps ==
    ASSUME \A o \in Object : Same(o)
    PROVE  UNCHANGED Instance!vars
BY DEF Instance!vars, Same, StateOf, AttrOf, ClassOf, InHandOf

\* A step of one object is a step of PersistentInstance if that object's is.
LEMMA OneMaps ==
    ASSUME NEW o \in Object, \A p \in Object \ {o} : Same(p),
           \/ /\ \E n \in {0, 1} : StateOf(o) = "unbound" /\ InHandOf(o)' = n
              /\ StateOf(o)' = "bound"
              /\ AttrOf(o)' = AttrOf(o) /\ ClassOf(o)' = ClassOf(o)
           \/ /\ StateOf(o) = "bound" /\ InHandOf(o)' = InHandOf(o) + 1
              /\ StateOf(o)' = "bound"
              /\ AttrOf(o)' = AttrOf(o) /\ ClassOf(o)' = ClassOf(o)
           \/ /\ InHandOf(o) > 0 /\ InHandOf(o)' = InHandOf(o) - 1
              /\ StateOf(o)' = StateOf(o)
              /\ AttrOf(o)' = AttrOf(o) /\ ClassOf(o)' = ClassOf(o)
           \/ /\ InHandOf(o) > 0 /\ InHandOf(o)' = InHandOf(o)
              /\ StateOf(o)' = StateOf(o)
              /\ AttrOf(o)' \in Val /\ ClassOf(o)' \in Class
           \/ /\ StateOf(o) # "gone" /\ InHandOf(o) = 0 /\ InHandOf(o)' = 0
              /\ StateOf(o)' = "gone"
              /\ AttrOf(o)' = Empty /\ ClassOf(o)' = TypeOf[o]
    PROVE  Instance!Next
<1> DEFINE st == [p \in Object |-> StateOf(p)]
           at == [p \in Object |-> AttrOf(p)]
           cl == [p \in Object |-> ClassOf(p)]
           ih == [p \in Object |-> InHandOf(p)]
<1>1. \A p \in Object \ {o} : st'[p] = st[p] /\ at'[p] = at[p] /\ cl'[p] = cl[p] /\ ih'[p] = ih[p]
  BY DEF Same
<1>2. CASE /\ \E n \in {0, 1} : StateOf(o) = "unbound" /\ InHandOf(o)' = n
           /\ StateOf(o)' = "bound"
           /\ AttrOf(o)' = AttrOf(o) /\ ClassOf(o)' = ClassOf(o)
  <2>1. PICK n \in {0, 1} : StateOf(o) = "unbound" /\ InHandOf(o)' = n
    BY <1>2
  <2>2. /\ st' = [st EXCEPT ![o] = "bound"] /\ ih' = [ih EXCEPT ![o] = n]
        /\ at' = at /\ cl' = cl
    BY <1>1, <1>2, <2>1
  <2>3. Instance!Bind(o, n)
    BY <2>1, <2>2 DEF Instance!Bind, StateOf, AttrOf, ClassOf, InHandOf
  <2> QED
    BY <2>3 DEF Instance!Next
<1>3. CASE /\ StateOf(o) = "bound" /\ InHandOf(o)' = InHandOf(o) + 1
           /\ StateOf(o)' = "bound"
           /\ AttrOf(o)' = AttrOf(o) /\ ClassOf(o)' = ClassOf(o)
  <2>1. /\ ih' = [ih EXCEPT ![o] = @ + 1]
        /\ st' = st /\ at' = at /\ cl' = cl
    BY <1>1, <1>3
  <2>2. Instance!Give(o)
    BY <1>3, <2>1 DEF Instance!Give, StateOf, AttrOf, ClassOf, InHandOf
  <2> QED
    BY <2>2 DEF Instance!Next
<1>4. CASE /\ InHandOf(o) > 0 /\ InHandOf(o)' = InHandOf(o) - 1
           /\ StateOf(o)' = StateOf(o)
           /\ AttrOf(o)' = AttrOf(o) /\ ClassOf(o)' = ClassOf(o)
  <2>1. /\ ih' = [ih EXCEPT ![o] = @ - 1]
        /\ st' = st /\ at' = at /\ cl' = cl
    BY <1>1, <1>4
  <2>2. Instance!Drop(o)
    BY <1>4, <2>1 DEF Instance!Drop, StateOf, AttrOf, ClassOf, InHandOf
  <2> QED
    BY <2>2 DEF Instance!Next
<1>5. CASE /\ InHandOf(o) > 0 /\ InHandOf(o)' = InHandOf(o)
           /\ StateOf(o)' = StateOf(o)
           /\ AttrOf(o)' \in Val /\ ClassOf(o)' \in Class
  <2>0. PICK v \in Val, c \in Class : AttrOf(o)' = v /\ ClassOf(o)' = c
    BY <1>5
  <2>1. /\ at' = [at EXCEPT ![o] = v] /\ cl' = [cl EXCEPT ![o] = c]
        /\ st' = st /\ ih' = ih
    BY <1>1, <1>5, <2>0
  <2>2. Instance!Assign(o, v, c)
    BY <1>5, <2>1 DEF Instance!Assign, StateOf, AttrOf, ClassOf, InHandOf
  <2> QED
    BY <1>5, <2>2 DEF Instance!Next
<1>6. CASE /\ StateOf(o) # "gone" /\ InHandOf(o) = 0 /\ InHandOf(o)' = 0
           /\ StateOf(o)' = "gone"
           /\ AttrOf(o)' = Empty /\ ClassOf(o)' = TypeOf[o]
  <2>1. /\ at' = [at EXCEPT ![o] = Empty] /\ cl' = [cl EXCEPT ![o] = TypeOf[o]]
        /\ st' = [st EXCEPT ![o] = "gone"] /\ ih' = ih
    BY <1>1, <1>6
  <2>2. Instance!Vanish(o)
    BY <1>6, <2>1 DEF Instance!Vanish, StateOf, AttrOf, ClassOf, InHandOf
  <2> QED
    BY <2>2 DEF Instance!Next
<1> QED
  BY <1>2, <1>3, <1>4, <1>5, <1>6

\* What the abstract instance of an object depends on.
LEMMA Unchanged ==
    ASSUME IInv, NEW o \in Object,
           ostate'[o] = ostate[o], inst_data'[o] = inst_data[o],
           wrapper_key'[o] = wrapper_key[o],
           wrapper_key[o] # NULL => /\ pyclass'[wrapper_key[o]] = pyclass[wrapper_key[o]]
                                    /\ held'[wrapper_key[o]] = held[wrapper_key[o]]
    PROVE  Same(o)
BY DEF Same, StateOf, AttrOf, ClassOf, InHandOf, DataOf

\* A wrapper without references is in nobody's hand.
LEMMA Forgotten ==
    ASSUME IInv, NEW w \in Wrapper, ob_refcnt[w] = 0
    PROVE  held[w] = 0
<1>1. held[w] \in Nat /\ Cardinality(FramesOf(w)) \in Nat
  BY FiniteOwners DEF IInv, TypeOK
<1> QED
  BY <1>1 DEF IInv, PyRefCountExact, Flag

\* Wrapping keeps the attributes and the class, however the wrapper is found.
LEMMA ObtainKeeps ==
    ASSUME IInv, DataLifetime, RewrapDying = FALSE,
           NEW o \in Object, NEW w \in Wrapper, NEW h \in {0, 1}, NEW data \in InstData,
           Obtain(o, w, h, data), dropping' = dropping,
           data.type = DataOf(o).type, data.inst_dict = DataOf(o).inst_dict,
           ostate[o] # "finalized", ostate' = [ostate EXCEPT ![o] = "alive"]
    PROVE  /\ \A p \in Object \ {o} : Same(p)
           /\ StateOf(o) \in {"unbound", "bound"} /\ StateOf(o)' = "bound"
           /\ AttrOf(o)' = AttrOf(o) /\ ClassOf(o)' = ClassOf(o)
           /\ InHandOf(o)' = InHandOf(o) + h /\ InHandOf(o) \in Nat
           /\ StateOf(o) = "unbound" => InHandOf(o) = 0
           /\ DataLifetime'
<1> USE DEF IInv
<1>1. /\ inst_data' = [inst_data EXCEPT ![o] = data] /\ data # NULL
      /\ held' = [held EXCEPT ![w] = @ + h]
  BY NewDataType DEF Obtain
<1>2. ostate'[o] = "alive" /\ inst_data'[o] = data /\ held'[w] = held[w] + h
  BY <1>1 DEF TypeOK
<1>3. DataLifetime'
  BY <1>1, <1>2 DEF DataLifetime, TypeOK
<1>4. StateOf(o) \in {"unbound", "bound"} /\ StateOf(o)' = "bound" /\ AttrOf(o)' = AttrOf(o)
  BY <1>1, <1>2 DEF StateOf, AttrOf, DataOf
<1>5. CASE Registered(o) = w /\ UNCHANGED <<wrapper_key, phase, obj, pyclass, finalized>>
  <2>1. wrapper_key[o] = w /\ wrapper_key' = wrapper_key /\ pyclass' = pyclass /\ w # NULL
    BY <1>5, ConstantsAssumption DEF Registered
  <2>2. obj[w] = o
    BY <2>1 DEF KeyPointsBack
  <2>3. inst_data[o] # NULL
    BY <2>1 DEF DataBound
  <2>4. /\ ClassOf(o)' = ClassOf(o) /\ InHandOf(o) = held[w] /\ InHandOf(o)' = held'[w]
        /\ StateOf(o) = "bound"
    BY <1>4, <2>1, <2>3 DEF ClassOf, InHandOf, StateOf
  <2>5. ASSUME NEW p \in Object \ {o} PROVE Same(p)
    <3>1. wrapper_key[p] # NULL => wrapper_key[p] \in Wrapper \ {w}
      BY <2>2 DEF KeyPointsBack, TypeOK
    <3>2. ostate'[p] = ostate[p] /\ inst_data'[p] = inst_data[p]
      BY <1>1 DEF TypeOK
    <3> QED
      BY <1>1, <2>1, <3>1, <3>2, Unchanged DEF TypeOK
  <2> QED
    BY <1>2, <1>3, <1>4, <2>4, <2>5 DEF TypeOK
<1>6. CASE /\ Registered(o) = NULL /\ phase[w] = "free"
           /\ wrapper_key' = [wrapper_key EXCEPT ![o] = w]
           /\ pyclass' = [pyclass EXCEPT ![w] = data.type]
  <2>1. wrapper_key[o] = NULL /\ wrapper_key'[o] = w /\ w # NULL
    BY <1>6, ConstantsAssumption DEF Registered, TypeOK
  <2>2. obj[w] = NULL /\ ob_refcnt[w] = 0
    BY <1>6 DEF Phases, Usable
  <2>3. held[w] = 0
    BY <2>2, Forgotten
  <2>4. ClassOf(o)' = ClassOf(o) /\ InHandOf(o) = 0 /\ InHandOf(o)' = held'[w]
    BY <1>6, <2>1 DEF ClassOf, InHandOf, TypeOK
  <2>5. ASSUME NEW p \in Object \ {o} PROVE Same(p)
    <3>1. wrapper_key[p] # NULL => wrapper_key[p] \in Wrapper \ {w}
      BY <2>2, ConstantsAssumption DEF KeyPointsBack, TypeOK
    <3>2. ostate'[p] = ostate[p] /\ inst_data'[p] = inst_data[p]
      BY <1>1 DEF TypeOK
    <3>3. wrapper_key'[p] = wrapper_key[p]
      BY <1>6 DEF TypeOK
    <3> QED
      BY <1>1, <1>6, <3>1, <3>2, <3>3, Unchanged DEF TypeOK
  <2> QED
    BY <1>2, <1>3, <1>4, <2>3, <2>4, <2>5
<1> QED
  BY <1>5, <1>6 DEF Obtain
\* While the last g_object_unref of an object nobody took meanwhile is under
\* way, it is the only owner.
LEMMA LastOwner ==
    ASSUME IInv, NEW o \in Object, dispose[o]["last"] # "idle", ref_count[o] = 1
    PROVE  /\ wrapper_key[o] = NULL /\ cref[o] = 0 /\ ~floating[o] /\ Running(o) = {}
           /\ \A w \in Wrapper : obj[w] # o
<1> USE DEF IInv
<1>1. Cardinality(Wrappers(o)) \in Nat /\ Cardinality(Running(o)) \in Nat
  BY FiniteOwners
<1>2. \A w \in Wrapper : obj[w] # o
  <2> SUFFICES ASSUME NEW w \in Wrapper, obj[w] = o PROVE FALSE
    OBVIOUS
  <2>1. w \in Wrappers(o)
    BY DEF Wrappers
  <2>2. Cardinality(Wrappers(o) \ {w}) = Cardinality(Wrappers(o)) - 1
    BY <2>1, FiniteOwners, FS_RemoveElement
  <2>3. CASE last_by[o] = NULL
    <3>1. Cardinality(Wrappers(o)) # 0
      BY <2>1, FiniteOwners, FS_EmptySet
    <3> QED
      BY <1>1, <2>3, <3>1, Parts
  <2>4. CASE last_by[o] # NULL
    <3>0. last_by[o] \in Wrapper /\ dropping[last_by[o]] = o
      BY <2>4 DEF LastUnref, TypeOK
    <3>1. /\ last_by[o] \in Wrapper /\ dropping[last_by[o]] = o
          /\ obj[last_by[o]] = NULL
      BY <3>0, ConstantsAssumption DEF Phases, Usable
    <3>2. last_by[o] \in Wrappers(o) \ {w}
      BY <3>1, ConstantsAssumption DEF Wrappers
    <3>3. IsFiniteSet(Wrappers(o) \ {w})
      BY FiniteOwners, FS_RemoveElement
    <3>4. Cardinality(Wrappers(o) \ {w}) # 0
      BY <3>2, <3>3, FS_EmptySet
    <3>5. Cardinality(Wrappers(o) \ {w}) \in Nat
      BY <3>3, FS_CardinalityType
    <3> QED
      BY <1>1, <2>2, <3>4, <3>5, Parts
  <2> QED
    BY <2>3, <2>4
<1>3. wrapper_key[o] = NULL
  BY <1>2 DEF KeyPointsBack, TypeOK
<1>4. Flag(dispose[o]["last"] # "idle" /\ last_by[o] = NULL) + Cardinality(Wrappers(o)) >= 1
  <2>1. CASE last_by[o] = NULL
    BY <1>1, <2>1
  <2>2. CASE last_by[o] # NULL
    <3>1. last_by[o] \in Wrappers(o)
      BY <2>2 DEF LastUnref, Wrappers, TypeOK
    <3>2. Cardinality(Wrappers(o)) # 0
      BY <3>1, FiniteOwners, FS_EmptySet
    <3> QED
      BY <1>1, <2>2, <3>2
  <2> QED
    BY <2>1, <2>2
<1>5. cref[o] = 0 /\ ~floating[o] /\ Cardinality(Running(o)) = 0
  <2>1. PICK c, f, n, r, l \in Nat :
           /\ ref_count[o] = c + f + n + r + l
           /\ c = cref[o] /\ f = Flag(floating[o])
           /\ n = Cardinality(Wrappers(o)) /\ r = Cardinality(Running(o))
           /\ l = Flag(dispose[o]["last"] # "idle" /\ last_by[o] = NULL)
    BY Parts
  <2>2. l + n >= 1
    BY <1>4, <2>1
  <2>3. c = 0 /\ f = 0 /\ r = 0
    BY <2>1, <2>2
  <2> QED
    BY <2>1, <2>3
<1>6. Running(o) = {}
  BY <1>5, FiniteOwners, FS_EmptySet
<1> QED
  BY <1>2, <1>3, <1>5, <1>6

\* Steps that touch no instance.
LEMMA QuietMaps ==
    ASSUME IInv, DataLifetime,
           UNCHANGED <<ostate, inst_data, wrapper_key, pyclass, held>>
    PROVE  UNCHANGED Instance!vars /\ DataLifetime'
<1>1. \A o \in Object : Same(o)
  BY Unchanged
<1> QED
  BY <1>1, StutterMaps DEF DataLifetime

LEMMA CCreateMaps ==
    ASSUME IInv, DataLifetime, NEW o \in Object, NEW f \in BOOLEAN, CCreate(o, f)
    PROVE  (Instance!Next \/ UNCHANGED Instance!vars) /\ DataLifetime'
<1> USE DEF IInv
<1>1. /\ ostate[o] = "absent" /\ ostate' = [ostate EXCEPT ![o] = "alive"]
      /\ inst_data' = [inst_data EXCEPT ![o] =
                          IF o \in PyTyped THEN NewData(TypeOf[o]) ELSE NULL]
      /\ UNCHANGED <<wrapper_key, pyclass, held>>
  BY DEF CCreate, wvars
<1>2. \A p \in Object \ {o} : Same(p)
  BY <1>1, Unchanged DEF TypeOK
<1>3. inst_data[o] = NULL /\ wrapper_key[o] = NULL
  <2>1. ref_count[o] = 0
    BY <1>1 DEF Lifetime, TypeOK
  <2> QED
    BY <1>1, <2>1, NoOwners DEF DataLifetime
<1>4. /\ ostate'[o] = "alive"
      /\ inst_data'[o] = IF o \in PyTyped THEN NewData(TypeOf[o]) ELSE NULL
  BY <1>1 DEF TypeOK
<1>5. /\ StateOf(o) = "unbound" /\ AttrOf(o)' = AttrOf(o) /\ ClassOf(o)' = ClassOf(o)
      /\ InHandOf(o)' = 0 /\ InHandOf(o) = 0
  BY <1>1, <1>3, <1>4 DEF StateOf, AttrOf, ClassOf, InHandOf, DataOf
<1>6. DataLifetime'
  BY <1>1, <1>4 DEF DataLifetime, TypeOK
<1>7. CASE o \in PyTyped
  <2>1. NewData(TypeOf[o]) # NULL
    BY NewDataType, ConstantsAssumption
  <2>2. StateOf(o)' = "bound"
    BY <1>4, <1>7, <2>1 DEF StateOf
  <2> QED
    BY <1>2, <1>5, <1>6, <2>2, OneMaps
<1>8. CASE o \notin PyTyped
  <2>1. StateOf(o)' = "unbound"
    BY <1>4, <1>8 DEF StateOf
  <2> QED
    BY <1>2, <1>5, <1>6, <2>1, StutterMaps DEF Same
<1> QED
  BY <1>7, <1>8

\* Handing an object to Python binds its instance, or gives one more handle
\* to the instance it has; do_dispose gets the same.
LEMMA WrapMaps ==
    ASSUME IInv, DataLifetime, RewrapDying = FALSE, NEW o \in Object, NEW w \in Wrapper,
           \/ PyCreate(o, w) \/ RetainFloating(o, w)
           \/ \E steal \in BOOLEAN : NewFull(o, w, steal)
           \/ \E k \in Disposer : CallDoDispose(o, k, w)
    PROVE  (Instance!Next \/ UNCHANGED Instance!vars) /\ DataLifetime'
<1> USE DEF IInv
<1>1. \E h \in {0, 1}, data \in InstData :
         /\ Obtain(o, w, h, data) /\ dropping' = dropping
         /\ data.type = DataOf(o).type /\ data.inst_dict = DataOf(o).inst_dict
         /\ ostate[o] # "finalized" /\ ostate' = [ostate EXCEPT ![o] = "alive"]
  <2>1. CASE PyCreate(o, w)
    <3>1. inst_data[o] = NULL /\ ostate[o] = "absent"
      BY <2>1 DEF PyCreate, DataLifetime
    <3>2. NewData(TypeOf[o]) \in InstData /\ DataOf(o) = NewData(TypeOf[o])
      BY <3>1, NewDataType, ConstantsAssumption DEF DataOf
    <3> QED
      BY <2>1, <3>1, <3>2 DEF PyCreate
  <2>2. CASE RetainFloating(o, w) \/ \E steal \in BOOLEAN : NewFull(o, w, steal)
    <3>1. /\ Obtain(o, w, 1, DataOf(o)) /\ dropping' = dropping
          /\ ostate[o] = "alive" /\ ostate' = ostate
      BY <2>2 DEF RetainFloating, NewFull, Reachable
    <3>2. ostate' = [ostate EXCEPT ![o] = "alive"]
      BY <3>1 DEF TypeOK
    <3> QED
      BY <3>1, <3>2, DataOfType
  <2>3. CASE \E k \in Disposer : CallDoDispose(o, k, w)
    <3>1. PICK k \in Disposer : CallDoDispose(o, k, w)
      BY <2>3
    <3>2. /\ dispose[o][k] = "checked" /\ Obtain(o, w, 0, FlagDown(o))
          /\ dropping' = dropping /\ ostate' = ostate
      BY <3>1 DEF CallDoDispose
    <3>3. ref_count[o] # 0
      BY <3>2, NoOwners
    <3>4. ostate[o] = "alive" /\ inst_data[o] # NULL
      BY <3>2, <3>3 DEF Lifetime, DataBound, TypeOK
    <3>5. /\ FlagDown(o) \in InstData /\ DataOf(o) = inst_data[o]
          /\ FlagDown(o).type = inst_data[o].type
          /\ FlagDown(o).inst_dict = inst_data[o].inst_dict
      BY <3>4 DEF FlagDown, DataOf, InstData, TypeOK
    <3>6. ostate' = [ostate EXCEPT ![o] = "alive"]
      BY <3>2, <3>4 DEF TypeOK
    <3> QED
      BY <3>2, <3>4, <3>5, <3>6
  <2> QED
    BY <2>1, <2>2, <2>3
<1>2. PICK h \in {0, 1}, data \in InstData :
         /\ Obtain(o, w, h, data) /\ dropping' = dropping
         /\ data.type = DataOf(o).type /\ data.inst_dict = DataOf(o).inst_dict
         /\ ostate[o] # "finalized" /\ ostate' = [ostate EXCEPT ![o] = "alive"]
  BY <1>1
<1>3. /\ \A p \in Object \ {o} : Same(p)
      /\ StateOf(o) \in {"unbound", "bound"} /\ StateOf(o)' = "bound"
      /\ AttrOf(o)' = AttrOf(o) /\ ClassOf(o)' = ClassOf(o)
      /\ InHandOf(o)' = InHandOf(o) + h /\ InHandOf(o) \in Nat
      /\ StateOf(o) = "unbound" => InHandOf(o) = 0
      /\ DataLifetime'
  BY <1>2, ObtainKeeps
<1>4. CASE StateOf(o) = "unbound"
  <2>1. \E n \in {0, 1} : StateOf(o) = "unbound" /\ InHandOf(o)' = n
    BY <1>3, <1>4
  <2> QED
    BY <1>3, <2>1, OneMaps
<1>5. CASE StateOf(o) = "bound" /\ h = 1
  BY <1>3, <1>5, OneMaps
<1>6. CASE StateOf(o) = "bound" /\ h = 0
  <2>1. Same(o)
    BY <1>3, <1>6 DEF Same
  <2> QED
    BY <1>3, <2>1, StutterMaps
<1> QED
  BY <1>3, <1>4, <1>5, <1>6
\* What code that has a wrapper in hand does concerns the instance of one
\* object, whose wrapper it is.
LEMMA HeldMaps ==
    ASSUME IInv, DataLifetime, NEW w \in Wrapper,
           \/ DropHandle(w)
           \/ \E v \in Val : SetAttr(w, v)
           \/ \E c \in Class : SetClass(w, c)
    PROVE  Instance!Next /\ DataLifetime'
<1> USE DEF IInv
<1>1. held[w] > 0 /\ held[w] \in Nat /\ UNCHANGED <<ostate, wrapper_key>>
  BY DEF DropHandle, SetAttr, SetClass, gvars, qvars, TypeOK
<1>0. PICK o \in Object : obj[w] = o
  BY <1>1, ReferencedUsable
<1>2. o \in Object /\ wrapper_key[o] = w /\ inst_data[o] \in InstData /\ ref_count[o] > 0
  BY <1>0, <1>1, ReferencedUsable
<1>3. ostate[o] = "alive" /\ w # NULL /\ inst_data[o] # NULL
  BY <1>2, NewDataType, ConstantsAssumption DEF Lifetime
<1>4. StateOf(o) = "bound" /\ InHandOf(o) = held[w] /\ InHandOf(o)' = held'[w]
  BY <1>1, <1>2, <1>3 DEF StateOf, InHandOf
<1>5. \A p \in Object \ {o} : wrapper_key[p] # NULL => wrapper_key[p] \in Wrapper \ {w}
  BY <1>0 DEF KeyPointsBack, TypeOK
<1>6. ASSUME \A p \in Object \ {o} : inst_data'[p] = inst_data[p],
             \A v \in Wrapper \ {w} : held'[v] = held[v] /\ pyclass'[v] = pyclass[v],
             inst_data'[o] \in InstData
      PROVE  (\A p \in Object \ {o} : Same(p)) /\ DataLifetime' /\ StateOf(o)' = "bound"
  <2>1. \A p \in Object \ {o} : Same(p)
    BY <1>1, <1>5, <1>6, Unchanged
  <2>2. inst_data'[o] # NULL
    BY <1>6, NewDataType
  <2>3. DataLifetime'
    BY <1>1, <1>3, <1>6 DEF DataLifetime
  <2> QED
    BY <1>1, <1>3, <2>1, <2>2, <2>3 DEF StateOf
<1>7. CASE DropHandle(w)
  <2>1. /\ held' = [held EXCEPT ![w] = @ - 1] /\ pyclass' = pyclass
        /\ \/ inst_data' = inst_data
           \/ inst_data' = [inst_data EXCEPT ![o].call_do_dispose = FALSE]
    BY <1>0, <1>7 DEF DropHandle, qvars
  <2>2. /\ \A p \in Object \ {o} : inst_data'[p] = inst_data[p]
        /\ \A v \in Wrapper \ {w} : held'[v] = held[v] /\ pyclass'[v] = pyclass[v]
        /\ held'[w] = held[w] - 1
    BY <2>1 DEF TypeOK
  <2>a. \/ inst_data'[o] = inst_data[o]
        \/ inst_data'[o] = [inst_data[o] EXCEPT !.call_do_dispose = FALSE]
    BY <2>1 DEF TypeOK
  <2>3. /\ inst_data'[o] \in InstData
        /\ inst_data'[o].inst_dict = inst_data[o].inst_dict
    BY <1>2, <2>a DEF InstData
  <2>4. inst_data'[o] # NULL
    BY <2>3, NewDataType
  <2>5. AttrOf(o)' = AttrOf(o) /\ ClassOf(o)' = ClassOf(o)
    BY <1>1, <1>2, <1>3, <2>1, <2>3, <2>4 DEF AttrOf, ClassOf, DataOf
  <2>6. (\A p \in Object \ {o} : Same(p)) /\ DataLifetime' /\ StateOf(o)' = "bound"
    BY <1>6, <2>2, <2>3
  <2> QED
    BY <1>1, <1>2, <1>4, <2>2, <2>5, <2>6, OneMaps
<1>8. ASSUME NEW v \in Val, SetAttr(w, v) PROVE Instance!Next /\ DataLifetime'
  <2>1. /\ inst_data' = [inst_data EXCEPT ![o].inst_dict = v]
        /\ pyclass' = pyclass /\ held' = held
    BY <1>0, <1>8 DEF SetAttr, wvars
  <2>2. /\ \A p \in Object \ {o} : inst_data'[p] = inst_data[p]
        /\ \A u \in Wrapper \ {w} : held'[u] = held[u] /\ pyclass'[u] = pyclass[u]
    BY <2>1 DEF TypeOK
  <2>3. inst_data'[o] \in InstData /\ inst_data'[o].inst_dict = v
    BY <1>2, <2>1 DEF TypeOK, InstData
  <2>4. inst_data'[o] # NULL
    BY <2>3, NewDataType
  <2>5. AttrOf(o)' \in Val /\ ClassOf(o)' \in Class
    BY <1>1, <1>2, <1>3, <2>1, <2>3, <2>4 DEF AttrOf, ClassOf, DataOf, TypeOK
  <2>6. (\A p \in Object \ {o} : Same(p)) /\ DataLifetime' /\ StateOf(o)' = "bound"
    BY <1>6, <2>2, <2>3
  <2> QED
    BY <1>1, <1>2, <1>4, <2>1, <2>5, <2>6, OneMaps
<1>9. ASSUME NEW c \in Class, SetClass(w, c) PROVE Instance!Next /\ DataLifetime'
  <2>1. /\ pyclass' = [pyclass EXCEPT ![w] = c]
        /\ inst_data' = inst_data /\ held' = held
    BY <1>9 DEF SetClass, qvars
  <2>2. /\ \A u \in Wrapper \ {w} : held'[u] = held[u] /\ pyclass'[u] = pyclass[u]
        /\ pyclass'[w] = c
    BY <2>1 DEF TypeOK
  <2>3. AttrOf(o)' \in Val /\ ClassOf(o)' \in Class
    BY <1>1, <1>2, <1>3, <2>1, <2>2 DEF AttrOf, ClassOf, DataOf, InstData
  <2>4. (\A p \in Object \ {o} : Same(p)) /\ DataLifetime' /\ StateOf(o)' = "bound"
    BY <1>2, <1>6, <2>1, <2>2
  <2> QED
    BY <1>1, <1>2, <1>4, <2>1, <2>3, <2>4, OneMaps
<1> QED
  BY <1>7, <1>8, <1>9

LEMMA KeepSelfMaps ==
    ASSUME IInv, DataLifetime, NEW o \in Object, NEW k \in Disposer, KeepSelf(o, k)
    PROVE  Instance!Next /\ DataLifetime'
<1> USE DEF IInv
<1> DEFINE w == frame[o][k]
<1>1. /\ w \in Wrapper /\ obj[w] = o /\ w # NULL
      /\ held' = [held EXCEPT ![w] = @ + 1]
      /\ UNCHANGED <<ostate, inst_data, wrapper_key, pyclass>>
  BY ConstantsAssumption DEF KeepSelf, FramesLive, gvars, qvars
<1>2. wrapper_key[o] = w
  BY <1>1, ConstantsAssumption DEF OneWrapper
<1>3. inst_data[o] # NULL
  BY <1>1, <1>2 DEF DataBound
<1>4. ostate[o] # "finalized"
  BY <1>3 DEF DataLifetime
<1>5. StateOf(o) = "bound" /\ InHandOf(o) = held[w] /\ InHandOf(o)' = held'[w]
  BY <1>1, <1>2, <1>3, <1>4 DEF StateOf, InHandOf
<1>6. held'[w] = held[w] + 1
  BY <1>1 DEF TypeOK
<1>7. \A p \in Object \ {o} : Same(p)
  <2>1. \A p \in Object \ {o} : wrapper_key[p] # NULL => wrapper_key[p] \in Wrapper \ {w}
    BY <1>1 DEF KeyPointsBack, TypeOK
  <2> QED
    BY <1>1, <2>1, Unchanged DEF TypeOK
<1>8. /\ StateOf(o)' = "bound" /\ AttrOf(o)' = AttrOf(o) /\ ClassOf(o)' = ClassOf(o)
      /\ DataLifetime'
  BY <1>1, <1>3, <1>4 DEF StateOf, AttrOf, ClassOf, DataOf, DataLifetime
<1> QED
  BY <1>5, <1>6, <1>7, <1>8, OneMaps

\* pygobject_clear saves the class in time: the instance does not notice that
\* its wrapper goes.
LEMMA ClearMaps ==
    ASSUME IInv, DataLifetime, NEW w \in Wrapper, Clear(w)
    PROVE  UNCHANGED Instance!vars /\ DataLifetime'
<1> USE DEF IInv
<1>0. phase[w] = "weakrefs" /\ obj[w] \in Object /\ ob_refcnt[w] = 0
  BY DEF Clear, Phases, Usable, TypeOK
<1>p. PICK o \in Object : obj[w] = o
  BY <1>0
<1>1. /\ phase[w] = "weakrefs"
      /\ inst_data' = [inst_data EXCEPT ![o].type = pyclass[w]]
      /\ wrapper_key' = [wrapper_key EXCEPT ![o] = NULL]
      /\ UNCHANGED <<ostate, pyclass, held>>
  BY <1>p DEF Clear, SavedClass, gvars
<1>3. wrapper_key[o] = w /\ w # NULL
  BY <1>p, ConstantsAssumption DEF OneWrapper
<1>4. inst_data[o] \in InstData
  BY <1>3 DEF DataBound, TypeOK
<1>5. /\ inst_data'[o] \in InstData /\ wrapper_key'[o] = NULL
      /\ inst_data'[o].type = pyclass[w]
      /\ inst_data'[o].inst_dict = inst_data[o].inst_dict
  BY <1>1, <1>4 DEF TypeOK, InstData
<1>6. inst_data[o] # NULL /\ inst_data'[o] # NULL
  BY <1>4, <1>5, NewDataType
<1>7. held[w] = 0
  BY <1>0, Forgotten
<1>8. Same(o)
  BY <1>1, <1>3, <1>5, <1>6, <1>7 DEF Same, StateOf, AttrOf, ClassOf, InHandOf, DataOf
<1>9. \A p \in Object \ {o} : Same(p)
  BY <1>1, Unchanged DEF TypeOK
<1>10. DataLifetime'
  BY <1>1, <1>6 DEF DataLifetime, TypeOK
<1> QED
  BY <1>8, <1>9, <1>10, StutterMaps

\* Only an instance nobody has in hand goes with its object.
LEMMA LastUnrefEndsMaps ==
    ASSUME IInv, DataLifetime, NEW o \in Object, LastUnrefEnds(o)
    PROVE  (Instance!Next \/ UNCHANGED Instance!vars) /\ DataLifetime'
<1> USE DEF IInv
<1>1. /\ dispose[o]["last"] = "done" /\ UNCHANGED <<pyclass, held>>
      /\ ref_count[o] \in Nat
  BY DEF LastUnrefEnds, TypeOK
<1>2. ref_count[o] # 0 /\ ostate[o] = "alive"
  <2>1. ref_count[o] # 0
    BY <1>1, NoOwners DEF Disposer
  <2> QED
    BY <1>1, <2>1 DEF Lifetime
<1>3. CASE ref_count[o] > 1
  <2>1. UNCHANGED <<ostate, inst_data, wrapper_key>>
    BY <1>3 DEF LastUnrefEnds, qvars
  <2>2. \A p \in Object : Same(p)
    BY <1>1, <2>1, Unchanged
  <2> QED
    BY <2>1, <2>2, StutterMaps DEF DataLifetime
<1>4. CASE ~(ref_count[o] > 1)
  <2>1. ref_count[o] = 1
    BY <1>1, <1>2, <1>4
  <2>2. wrapper_key[o] = NULL
    BY <1>1, <2>1, LastOwner
  <2>3. /\ ostate' = [ostate EXCEPT ![o] = "finalized"]
        /\ inst_data' = [inst_data EXCEPT ![o] = NULL]
        /\ wrapper_key' = [wrapper_key EXCEPT ![o] = NULL]
    BY <1>4 DEF LastUnrefEnds
  <2>4. ostate'[o] = "finalized" /\ inst_data'[o] = NULL /\ wrapper_key'[o] = NULL
    BY <2>3 DEF TypeOK
  <2>5. /\ StateOf(o) # "gone" /\ InHandOf(o) = 0 /\ InHandOf(o)' = 0
        /\ StateOf(o)' = "gone" /\ AttrOf(o)' = Empty /\ ClassOf(o)' = TypeOf[o]
    BY <1>2, <2>2, <2>4 DEF StateOf, InHandOf, AttrOf, ClassOf, DataOf, NewData
  <2>6. \A p \in Object \ {o} : Same(p)
    BY <1>1, <2>3, Unchanged DEF TypeOK
  <2>7. DataLifetime'
    BY <2>3, <2>4 DEF DataLifetime, TypeOK
  <2> QED
    BY <2>5, <2>6, <2>7, OneMaps
<1> QED
  BY <1>3, <1>4

LEMMA NextMaps ==
    ASSUME IInv, DataLifetime, RewrapDying = FALSE, [Next]_vars
    PROVE  (Instance!Next \/ UNCHANGED Instance!vars) /\ DataLifetime'
<1> DEFINE Maps == (Instance!Next \/ UNCHANGED Instance!vars) /\ DataLifetime'
<1>1. CASE UNCHANGED vars
  BY <1>1, QuietMaps DEF vars, gvars, qvars, wvars
<1>2. CASE Next
  <2>1. ASSUME NEW o \in Object, NEW f \in BOOLEAN, CCreate(o, f)
        PROVE  Maps
    BY <2>1, CCreateMaps
  <2>2. ASSUME NEW o \in Object, CRef(o) \/ CSink(o) \/ CUnref(o)
        PROVE  Maps
    BY <2>2, QuietMaps DEF CRef, CSink, CUnref, qvars, wvars
  <2>3. ASSUME NEW o \in Object, NEW r \in Runner, RunDispose(o, r)
        PROVE  Maps
    BY <2>3, QuietMaps DEF RunDispose, qvars, wvars
  <2>4. ASSUME NEW o \in Object, NEW w \in Wrapper, PyCreate(o, w) \/ RetainFloating(o, w)
        PROVE  Maps
    BY <2>4, WrapMaps
  <2>5. ASSUME NEW o \in Object, NEW w \in Wrapper, NEW steal \in BOOLEAN, NewFull(o, w, steal)
        PROVE  Maps
    BY <2>5, WrapMaps
  <2>6. ASSUME NEW o \in Object, NEW k \in Disposer, KeepSelf(o, k)
        PROVE  Maps
    BY <2>6, KeepSelfMaps
  <2>7. ASSUME NEW o \in Object, NEW k \in Disposer, DoDisposeReturns(o, k)
        PROVE  Maps
    BY <2>7, QuietMaps DEF DoDisposeReturns, qvars
  <2>8. ASSUME NEW w \in Wrapper, DropHandle(w)
        PROVE  Maps
    BY <2>8, HeldMaps
  <2>9. ASSUME NEW w \in Wrapper, NEW v \in Val, SetAttr(w, v)
        PROVE  Maps
    BY <2>9, HeldMaps
  <2>10. ASSUME NEW w \in Wrapper, NEW c \in Class, SetClass(w, c)
         PROVE  Maps
    BY <2>10, HeldMaps
  <2>11. ASSUME NEW w \in Wrapper, Clear(w)
         PROVE  Maps
    BY <2>11, ClearMaps
  <2>12. ASSUME NEW w \in Wrapper, WrapperUnref(w)
         PROVE  Maps
    BY <2>12, QuietMaps DEF WrapperUnref, qvars
  <2>13. ASSUME NEW o \in Object, LastUnrefEnds(o)
         PROVE  Maps
    BY <2>13, LastUnrefEndsMaps
  <2>14. ASSUME NEW o \in Object, NEW k \in Disposer, NEW w \in Wrapper, CallDoDispose(o, k, w)
         PROVE  Maps
    BY <2>14, WrapMaps
  <2> QED
    <3>1. ASSUME NEW w \in Wrapper, Clear(w) \/ WrapperUnref(w) PROVE Maps
      BY <2>11, <2>12, <3>1
    <3>2. ASSUME NEW o \in Object, NEW k \in Disposer,
                 DoDisposeReturns(o, k) \/ \E w \in Wrapper : CallDoDispose(o, k, w)
          PROVE  Maps
      BY <2>7, <2>14, <3>2
    <3>3. Code => Maps
      BY <2>13, <3>1, <3>2 DEF Code
    <3> QED
      BY <1>2, <2>1, <2>2, <2>3, <2>4, <2>5, <2>6, <2>8, <2>9, <2>10, <3>3 DEF Next
<1> QED
  BY <1>1, <1>2

\* The shallow wrappers implement what Python code is promised: attributes and
\* class belong to the GObject, whatever wrappers come and go.
THEOREM WrappersImplementInstance ==
    ASSUME RewrapDying = FALSE PROVE Spec => InstancePersists
<1>1. Init => Instance!Init /\ DataLifetime
  <2> SUFFICES ASSUME Init PROVE Instance!Init /\ DataLifetime
    OBVIOUS
  <2>1. /\ \A o \in Object : ostate[o] = "absent" /\ inst_data[o] = NULL /\ wrapper_key[o] = NULL
    BY DEF Init
  <2>2. [o \in Object |-> TypeOf[o]] = TypeOf
    BY ConstantsAssumption
  <2>3. \A o \in Object : DataOf(o).inst_dict = Empty /\ DataOf(o).type = TypeOf[o]
    BY <2>1 DEF DataOf, NewData
  <2>4. Instance!Init
    BY <2>1, <2>2, <2>3 DEF Instance!Init
  <2> QED
    BY <2>1, <2>4 DEF DataLifetime
<1>2. ASSUME IInv, DataLifetime, [Next]_vars
      PROVE  DataLifetime' /\ [Instance!Next]_Instance!vars
  BY <1>2, NextMaps
<1>3. Spec => []IInv
  BY IInvHolds
<1> QED
  BY <1>1, <1>2, <1>3, PTL DEF Spec, InstancePersists, Instance!Spec
(***************************************************************************)
(* do_dispose is called once, as long as one thread at the most calls      *)
(* g_object_run_dispose.                                                   *)
(***************************************************************************)

\* What DisposedInTime says of one object.
InTime(o) == /\ disposed'[o] <= 1
             /\ o \in PyTyped /\ ostate[o] = "alive" /\ ostate'[o] = "finalized"
                   => ~inst_data[o].call_do_dispose

\* What DisposedOnce depends on.
LEMMA OnceKept ==
    ASSUME NEW o \in Object, DisposedOnce(o), DataBound, DataLifetime,
           ostate'[o] = ostate[o], disposed'[o] = disposed[o], dispose'[o] = dispose[o],
           \/ inst_data'[o] = inst_data[o]
           \/ /\ inst_data[o] # NULL /\ inst_data'[o] # NULL
              /\ inst_data'[o].call_do_dispose = inst_data[o].call_do_dispose
           \/ /\ inst_data[o] = NULL /\ inst_data'[o] # NULL
              /\ ostate[o] = "alive",
           dispose[o]["last"] = "checked" => ref_count'[o] = ref_count[o]
    PROVE  DisposedOnce(o)' /\ InTime(o)
BY DEF DisposedOnce, Undisposed, InTime, DataBound, DataLifetime

\* While the last g_object_unref has only checked whether do_dispose is pending,
\* nobody else reaches the object.
LEMMA CheckedAlone ==
    ASSUME IInv, NEW o \in Object, DisposedOnce(o), dispose[o]["last"] = "checked"
    PROVE  /\ ref_count[o] = 1 /\ cref[o] = 0 /\ ~Reachable(o) /\ ~CMayUnref(o)
           /\ wrapper_key[o] = NULL /\ \A k \in Disposer \ {"last"} : dispose[o][k] = "idle"
<1>1. ref_count[o] = 1
  BY DEF DisposedOnce
<1>2. /\ wrapper_key[o] = NULL /\ cref[o] = 0 /\ ~floating[o] /\ Running(o) = {}
      /\ \A w \in Wrapper : obj[w] # o
  BY <1>1, LastOwner
<1>3. \A k \in Disposer \ {"last"} : dispose[o][k] = "idle"
  BY <1>2 DEF Running
<1>4. ~Reachable(o)
  <2>1. \A k \in Disposer : dispose[o][k] \notin {"running", "done"}
    BY <1>3
  <2> QED
    BY <1>2, <2>1 DEF Reachable
<1>5. Cardinality({r \in Runner : dispose[o][r] # "idle"}) \in Nat
  BY ConstantsAssumption, FS_Subset, FS_CardinalityType
<1> QED
  BY <1>1, <1>2, <1>3, <1>4, <1>5 DEF CMayUnref

\* Who is about to start the last g_object_unref, or to finalize the wrapper, is
\* alone as well.
LEMMA SoleOwner ==
    ASSUME IInv, NEW o \in Object, ref_count[o] = 1, dispose[o]["last"] = "idle",
           cref[o] > 0 \/ Wrappers(o) # {}
    PROVE  \A k \in Disposer : dispose[o][k] = "idle"
<1>1. PICK c, f, n, r, l \in Nat :
         /\ ref_count[o] = c + f + n + r + l
         /\ c = cref[o] /\ f = Flag(floating[o])
         /\ n = Cardinality(Wrappers(o)) /\ r = Cardinality(Running(o))
         /\ l = Flag(dispose[o]["last"] # "idle" /\ last_by[o] = NULL)
  BY Parts
<1>2. Wrappers(o) # {} => n # 0
  BY <1>1, FiniteOwners, FS_EmptySet DEF IInv
<1>3. r = 0
  BY <1>1, <1>2
<1>4. Running(o) = {}
  BY <1>1, <1>3, FiniteOwners, FS_EmptySet DEF IInv
<1> QED
  BY <1>4 DEF Running
OnceAll == \A o \in Object : DisposedOnce(o)' /\ InTime(o)

\* An object comes into being with its do_dispose pending.
LEMMA CreateOnce ==
    ASSUME IInv, DataLifetime, DisposeOnce, NEW o \in Object,
           (\E f \in BOOLEAN : CCreate(o, f)) \/ \E w \in Wrapper : PyCreate(o, w)
    PROVE  OnceAll
<1> USE DEF IInv
<1>1. /\ ostate[o] = "absent" /\ ostate' = [ostate EXCEPT ![o] = "alive"]
      /\ UNCHANGED <<dispose, disposed>> /\ ref_count' = [ref_count EXCEPT ![o] = 1]
      /\ \/ inst_data' = [inst_data EXCEPT ![o] =
                             IF o \in PyTyped THEN NewData(TypeOf[o]) ELSE NULL]
         \/ inst_data' = [inst_data EXCEPT ![o] = NewData(TypeOf[o])]
  BY DEF CCreate, PyCreate, Obtain, dvars
<1>2. /\ \A p \in Object \ {o} : /\ ostate'[p] = ostate[p] /\ ref_count'[p] = ref_count[p]
                                 /\ inst_data'[p] = inst_data[p]
      /\ ostate'[o] = "alive" /\ (o \in PyTyped => inst_data'[o] = NewData(TypeOf[o]))
  BY <1>1 DEF TypeOK
<1>3. \A p \in Object \ {o} : DisposedOnce(p)' /\ InTime(p)
  BY <1>1, <1>2, OnceKept DEF DisposeOnce
<1>4. ref_count[o] = 0 /\ inst_data[o] = NULL
  BY <1>1 DEF Lifetime, TypeOK, DataLifetime
<1>5. disposed[o] = 0 /\ \A k \in Disposer : dispose[o][k] = "idle"
  BY <1>1, <1>4, NoOwners DEF DisposeOnce, DisposedOnce, Undisposed
<1>6. NewData(TypeOf[o]) # NULL
  BY NewDataType, ConstantsAssumption
<1>7. DisposedOnce(o)' /\ InTime(o)
  BY <1>1, <1>2, <1>5, <1>6 DEF DisposedOnce, InTime, Disposer
<1> QED
  BY <1>3, <1>7 DEF OnceAll

\* Steps that neither start nor end a dispose: references come and go only
\* where somebody reaches the object.
LEMMA ReferenceOnce ==
    ASSUME IInv, DataLifetime, DisposeOnce, NEW o \in Object,
           UNCHANGED <<ostate, dispose, disposed>>,
           Reachable(o),
           \A p \in Object \ {o} : inst_data'[p] = inst_data[p] /\ ref_count'[p] = ref_count[p],
           \/ inst_data'[o] = inst_data[o]
           \/ inst_data[o] = NULL /\ inst_data'[o] # NULL
    PROVE  OnceAll
<1>1. \A p \in Object \ {o} : DisposedOnce(p)' /\ InTime(p)
  BY OnceKept DEF DisposeOnce, IInv
<1>2. dispose[o]["last"] # "checked"
  BY CheckedAlone DEF DisposeOnce
<1>3. ostate[o] = "alive"
  BY DEF Reachable
<1>4. DisposedOnce(o)' /\ InTime(o)
  BY <1>2, <1>3, OnceKept DEF DisposeOnce, IInv
<1> QED
  BY <1>1, <1>4 DEF OnceAll

LEMMA WrapOnce ==
    ASSUME IInv, DataLifetime, DisposeOnce, NEW o \in Object,
           \/ CRef(o)
           \/ \E w \in Wrapper : RetainFloating(o, w) \/ \E steal \in BOOLEAN : NewFull(o, w, steal)
    PROVE  OnceAll
<1> USE DEF IInv
<1> DEFINE Elsewhere == \A p \in Object \ {o} : ref_count'[p] = ref_count[p]
<1>1. CASE CRef(o)
  <2>1. /\ Reachable(o) /\ UNCHANGED <<ostate, dispose, disposed, inst_data>> /\ Elsewhere
    BY <1>1 DEF CRef, dvars, qvars, TypeOK
  <2> QED
    BY <2>1, ReferenceOnce
<1>2. ASSUME NEW w \in Wrapper,
             RetainFloating(o, w) \/ \E steal \in BOOLEAN : NewFull(o, w, steal)
      PROVE  OnceAll
  <2>1. /\ Reachable(o) /\ UNCHANGED <<ostate, dispose, disposed>> /\ Elsewhere
    BY <1>2 DEF RetainFloating, NewFull, dvars, TypeOK
  <2>2. inst_data' = [inst_data EXCEPT ![o] = DataOf(o)]
    BY <1>2 DEF RetainFloating, NewFull, Obtain
  <2>3. \A p \in Object \ {o} : inst_data'[p] = inst_data[p]
    BY <2>2 DEF TypeOK
  <2>4. \/ inst_data'[o] = inst_data[o]
        \/ inst_data[o] = NULL /\ inst_data'[o] # NULL
    BY <2>2, NewDataType, ConstantsAssumption DEF TypeOK, DataOf
  <2> QED
    BY <2>1, <2>3, <2>4, ReferenceOnce
<1> QED
  BY <1>1, <1>2

\* Assignments, handles, and the steps that only move a floating reference.
LEMMA QuietOnce ==
    ASSUME IInv, DataLifetime, DisposeOnce,
           UNCHANGED <<ostate, ref_count, dispose, disposed>>,
           \A p \in Object :
              \/ inst_data'[p] = inst_data[p]
              \/ /\ inst_data[p] # NULL /\ inst_data'[p] # NULL
                 /\ inst_data'[p].call_do_dispose = inst_data[p].call_do_dispose
    PROVE  OnceAll
BY OnceKept DEF OnceAll, DisposeOnce, IInv

LEMMA AssignOnce ==
    ASSUME IInv, DataLifetime, DisposeOnce, NEW w \in Wrapper,
           \/ Clear(w)
           \/ \E v \in Val : SetAttr(w, v)
    PROVE  OnceAll
<1> USE DEF IInv
<1>1. obj[w] # NULL
  BY DEF Clear, SetAttr, Phases
<1>2. PICK o \in Object : obj[w] = o
  BY <1>1 DEF TypeOK
<1>3. wrapper_key[o] = w /\ inst_data[o] \in InstData
  BY <1>2, ConstantsAssumption DEF OneWrapper, DataBound, TypeOK
<1>4. /\ UNCHANGED <<ostate, ref_count, dispose, disposed>>
      /\ \/ inst_data' = [inst_data EXCEPT ![o].type = pyclass[w]]
         \/ \E v \in Val : inst_data' = [inst_data EXCEPT ![o].inst_dict = v]
  BY <1>2 DEF Clear, SetAttr, SavedClass, gvars, dvars
<1>5. \A p \in Object \ {o} : inst_data'[p] = inst_data[p]
  BY <1>4 DEF TypeOK
<1>6. \/ inst_data'[o] = [inst_data[o] EXCEPT !.type = pyclass[w]]
      \/ \E v \in Val : inst_data'[o] = [inst_data[o] EXCEPT !.inst_dict = v]
  BY <1>4 DEF TypeOK
<1>7. /\ inst_data'[o] \in InstData
      /\ inst_data'[o].call_do_dispose = inst_data[o].call_do_dispose
  BY <1>3, <1>6 DEF InstData, TypeOK
<1> QED
  BY <1>3, <1>4, <1>5, <1>7, NewDataType, QuietOnce

\* g_object_unref reads the flag when it is the last owner.
LEMMA UnrefOnce ==
    ASSUME IInv, DataLifetime, DisposeOnce, NEW o \in Object, Unref(o),
           cref[o] > 0 \/ Wrappers(o) # {},
           UNCHANGED <<ostate, inst_data, disposed>>
    PROVE  OnceAll
<1> USE DEF IInv
<1>1. ref_count[o] # 0
  <2>1. ref_count[o] = 0 => cref[o] = 0 /\ Wrappers(o) = {}
    BY NoOwners
  <2> QED
    BY <2>1
<1>2. \A p \in Object \ {o} : ref_count'[p] = ref_count[p] /\ dispose'[p] = dispose[p]
  BY DEF Unref, TypeOK
<1>3. \A p \in Object \ {o} : DisposedOnce(p)' /\ InTime(p)
  BY <1>2, OnceKept DEF DisposeOnce
<1>4. ostate[o] = "alive" /\ ref_count[o] \in Nat
  BY <1>1 DEF Lifetime, TypeOK
<1>5. CASE ref_count[o] > 1
  <2>1. dispose[o]["last"] # "checked" /\ dispose' = dispose
    BY <1>4, <1>5 DEF DisposeOnce, DisposedOnce, Unref
  <2> QED
    BY <1>3, <2>1, OnceKept DEF DisposeOnce, OnceAll
<1>6. CASE ~(ref_count[o] > 1)
  <2>1. /\ ref_count[o] = 1 /\ ref_count' = ref_count /\ dispose[o]["last"] = "idle"
        /\ dispose' = [dispose EXCEPT ![o]["last"] =
                          IF PendingDispose(o) THEN "checked" ELSE "done"]
    BY <1>1, <1>4, <1>6 DEF Unref
  <2>2. /\ dispose'[o]["last"] = IF PendingDispose(o) THEN "checked" ELSE "done"
        /\ \A k \in Disposer : k # "last" => dispose'[o][k] = dispose[o][k]
    BY <2>1 DEF TypeOK, Disposer
  <2>3. DisposedOnce(o)
    BY DEF DisposeOnce
  <2>4. DisposedOnce(o)' /\ InTime(o)
    BY <1>4, <2>1, <2>2, <2>3 DEF DisposedOnce, InTime, PendingDispose, Undisposed
  <2> QED
    BY <1>3, <2>4 DEF OnceAll
<1> QED
  BY <1>5, <1>6
LEMMA CUnrefOnce ==
    ASSUME IInv, DataLifetime, DisposeOnce, NEW o \in Object, CUnref(o)
    PROVE  OnceAll
<1>1. Cardinality({r \in Runner : dispose[o][r] # "idle"}) \in Nat
  BY ConstantsAssumption, FS_Subset, FS_CardinalityType
<1>2. cref[o] > 0
  BY <1>1 DEF CUnref, CMayUnref, IInv, TypeOK
<1> QED
  BY <1>2, UnrefOnce DEF CUnref, qvars

LEMMA WrapperUnrefOnce ==
    ASSUME IInv, DataLifetime, DisposeOnce, NEW w \in Wrapper, WrapperUnref(w)
    PROVE  OnceAll
<1>1. dropping[w] \in Object
  BY DEF WrapperUnref, IInv, Phases, TypeOK
<1>2. w \in Wrappers(dropping[w])
  BY DEF Wrappers
<1> QED
  BY <1>1, <1>2, UnrefOnce DEF WrapperUnref, qvars

\* A thread that calls g_object_run_dispose owns a reference, so that none is
\* the last.
LEMMA RunDisposeOnce ==
    ASSUME IInv, DataLifetime, DisposeOnce, NEW o \in Object, NEW r \in Runner, RunDispose(o, r)
    PROVE  OnceAll
<1> USE DEF IInv
<1>1. /\ CMayUnref(o) /\ ostate[o] = "alive" /\ inst_data[o].call_do_dispose
      /\ ref_count' = [ref_count EXCEPT ![o] = @ + 1]
      /\ dispose' = [dispose EXCEPT ![o][r] = "checked"]
      /\ UNCHANGED <<ostate, inst_data, disposed>>
  BY DEF RunDispose, PendingDispose, qvars
<1>2. \A p \in Object \ {o} : ref_count'[p] = ref_count[p] /\ dispose'[p] = dispose[p]
  BY <1>1 DEF TypeOK
<1>3. \A p \in Object \ {o} : DisposedOnce(p)' /\ InTime(p)
  BY <1>1, <1>2, OnceKept DEF DisposeOnce
<1>4. r \in Disposer /\ r # "last"
  BY ConstantsAssumption DEF Disposer
<1>5. /\ dispose'[o][r] = "checked"
      /\ \A k \in Disposer : k # r => dispose'[o][k] = dispose[o][k]
  BY <1>1, <1>4 DEF TypeOK
<1>6. DisposedOnce(o) /\ dispose[o]["last"] # "checked" /\ "last" \in Disposer
  BY <1>1, CheckedAlone DEF DisposeOnce, Disposer
<1>7. dispose'[o]["last"] = dispose[o]["last"]
  BY <1>4, <1>5, <1>6
<1>8. DisposedOnce(o)' /\ InTime(o)
  BY <1>1, <1>5, <1>6, <1>7 DEF DisposedOnce, InTime, Undisposed
<1> QED
  BY <1>3, <1>8 DEF OnceAll

\* tp_finalize calls do_dispose as the owner of the only reference.
LEMMA DropHandleOnce ==
    ASSUME IInv, DataLifetime, DisposeOnce, NEW w \in Wrapper, DropHandle(w)
    PROVE  OnceAll
<1> USE DEF IInv
<1>1. held[w] > 0
  BY DEF DropHandle
<1>2. PICK o \in Object : obj[w] = o
  BY <1>1, ReferencedUsable
<1>3. inst_data[o] \in InstData /\ inst_data[o] # NULL /\ ref_count[o] > 0
  BY <1>1, <1>2, ReferencedUsable, NewDataType
<1>4. CASE UNCHANGED <<gvars, qvars, dvars>>
  BY <1>4, QuietOnce DEF gvars, qvars, dvars
<1>5. CASE /\ RunsDispose(w)
           /\ ref_count' = [ref_count EXCEPT ![o] = @ + 1]
           /\ inst_data' = [inst_data EXCEPT ![o].call_do_dispose = FALSE]
           /\ dispose' = [dispose EXCEPT ![o]["finalizer"] = "running"]
           /\ disposed' = [disposed EXCEPT ![o] = @ + 1]
           /\ ostate' = ostate
  <2>1. \A p \in Object \ {o} : /\ ref_count'[p] = ref_count[p] /\ dispose'[p] = dispose[p]
                               /\ inst_data'[p] = inst_data[p] /\ disposed'[p] = disposed[p]
    BY <1>5 DEF TypeOK
  <2>2. \A p \in Object \ {o} : DisposedOnce(p)' /\ InTime(p)
    BY <1>5, <2>1, OnceKept DEF DisposeOnce
  <2>3. ref_count[o] = 1 /\ inst_data[o].call_do_dispose /\ ostate[o] = "alive"
    BY <1>2, <1>3, <1>5 DEF RunsDispose, PendingDispose, Lifetime
  <2>4. \A k \in Disposer : dispose[o][k] = "idle"
    <3>1. w \in Wrappers(o)
      BY <1>2 DEF Wrappers
    <3>2. dispose[o]["last"] = "idle"
      BY <1>2, <2>3, LastOwner
    <3> QED
      BY <2>3, <3>1, <3>2, SoleOwner
  <2>5. disposed[o] = 0 /\ disposed'[o] = 1
    BY <1>5, <2>3 DEF DisposeOnce, DisposedOnce, Undisposed, TypeOK
  <2>6. inst_data'[o] = [inst_data[o] EXCEPT !.call_do_dispose = FALSE]
    BY <1>5 DEF TypeOK
  <2>7. inst_data'[o] \in InstData /\ ~inst_data'[o].call_do_dispose
    BY <1>3, <2>6 DEF InstData
  <2>8. \A k \in Disposer : dispose'[o][k] = IF k = "finalizer" THEN "running" ELSE "idle"
    <3>1. "finalizer" \in Disposer
      BY DEF Disposer
    <3> QED
      BY <1>5, <2>4, <3>1 DEF TypeOK
  <2>9. "last" \in Disposer /\ dispose'[o]["last"] = "idle"
    BY <2>8 DEF Disposer
  <2>10. inst_data'[o] # NULL /\ inst_data[o] # NULL
    BY <1>3, <2>7, NullIsNoData
  <2>11. \A k \in Disposer : dispose'[o][k] # "checked"
    BY <2>8
  <2>12. ostate'[o] = "alive"
    BY <1>5, <2>3
  <2>13. DisposedOnce(o)'
    BY <2>5, <2>7, <2>9, <2>10, <2>11 DEF DisposedOnce, Undisposed
  <2>14. InTime(o)
    BY <2>5, <2>12 DEF InTime
  <2> QED
    BY <2>2, <2>13, <2>14 DEF OnceAll
<1> QED
  BY <1>2, <1>4, <1>5 DEF DropHandle

\* Of those that read the flag, only one gets to call do_dispose.
LEMMA CallDoDisposeOnce ==
    ASSUME IInv, DataLifetime, DisposeOnce, RewrapDying = FALSE,
           \A r, s \in Runner : r = s,
           NEW o \in Object, NEW k \in Disposer, NEW w \in Wrapper, CallDoDispose(o, k, w)
    PROVE  OnceAll
<1> USE DEF IInv
<1>1. /\ dispose[o][k] = "checked" /\ ostate' = ostate
      /\ inst_data' = [inst_data EXCEPT ![o] = FlagDown(o)]
      /\ ref_count' = [ref_count EXCEPT ![o] = @ + Flag(Registered(o) = NULL)]
      /\ dispose' = [dispose EXCEPT ![o][k] = "running"]
      /\ disposed' = [disposed EXCEPT ![o] = @ + 1]
  BY DEF CallDoDispose, Obtain
<1>2. \A p \in Object \ {o} : /\ ref_count'[p] = ref_count[p] /\ dispose'[p] = dispose[p]
                             /\ inst_data'[p] = inst_data[p] /\ disposed'[p] = disposed[p]
  BY <1>1 DEF TypeOK
<1>3. \A p \in Object \ {o} : DisposedOnce(p)' /\ InTime(p)
  BY <1>1, <1>2, OnceKept DEF DisposeOnce
<1>4. /\ inst_data[o] \in InstData /\ inst_data[o].call_do_dispose
      /\ ostate[o] = "alive" /\ disposed[o] = 0
  <2>1. ref_count[o] # 0
    BY <1>1, NoOwners
  <2>2. inst_data[o] \in InstData /\ ostate[o] = "alive"
    BY <1>1, <2>1 DEF DataBound, Lifetime, TypeOK
  <2> QED
    BY <1>1, <2>2 DEF DisposeOnce, DisposedOnce, Undisposed
<1>5. inst_data'[o] \in InstData /\ ~inst_data'[o].call_do_dispose
  BY <1>1, <1>4 DEF FlagDown, InstData, TypeOK
<1>6. \A j \in Disposer : j # k => dispose[o][j] # "checked"
  <2> SUFFICES ASSUME NEW j \in Disposer, j # k, dispose[o][j] = "checked" PROVE FALSE
    OBVIOUS
  <2>1. j # "last" /\ k # "last"
    BY <1>1, CheckedAlone DEF DisposeOnce
  <2>2. j # "finalizer" /\ k # "finalizer"
    BY <1>1 DEF FinalizerFrame
  <2> QED
    BY <2>1, <2>2 DEF Disposer
<1>7. /\ dispose'[o][k] = "running"
      /\ \A j \in Disposer : j # k => dispose'[o][j] = dispose[o][j]
      /\ disposed'[o] = 1
  BY <1>1, <1>4 DEF TypeOK
<1>8. "last" \in Disposer /\ (k # "last" => dispose'[o]["last"] = dispose[o]["last"])
  BY <1>7 DEF Disposer
<1>9. DisposedOnce(o)' /\ InTime(o)
  BY <1>1, <1>4, <1>5, <1>6, <1>7, <1>8, NewDataType
     DEF DisposedOnce, InTime, Undisposed
<1> QED
  BY <1>3, <1>9 DEF OnceAll
LEMMA DoDisposeReturnsOnce ==
    ASSUME IInv, DataLifetime, DisposeOnce, NEW o \in Object, NEW k \in Disposer,
           DoDisposeReturns(o, k)
    PROVE  OnceAll
<1> USE DEF IInv
<1>1. /\ dispose[o][k] = "running" /\ UNCHANGED <<ostate, inst_data, disposed>>
      /\ IF k = "last"
         THEN /\ dispose' = [dispose EXCEPT ![o][k] = "done"]
              /\ UNCHANGED ref_count
         ELSE /\ dispose' = [dispose EXCEPT ![o][k] = "idle"]
              /\ ref_count' = [ref_count EXCEPT ![o] = @ - 1]
  BY DEF DoDisposeReturns, qvars
<1>2. \A p \in Object \ {o} : ref_count'[p] = ref_count[p] /\ dispose'[p] = dispose[p]
  BY <1>1 DEF TypeOK
<1>3. \A p \in Object \ {o} : DisposedOnce(p)' /\ InTime(p)
  BY <1>1, <1>2, OnceKept DEF DisposeOnce
<1>4. /\ dispose'[o][k] = IF k = "last" THEN "done" ELSE "idle"
      /\ \A j \in Disposer : j # k => dispose'[o][j] = dispose[o][j]
      /\ "last" \in Disposer
  BY <1>1 DEF TypeOK, Disposer
<1>5. DisposedOnce(o) /\ dispose[o]["last"] # "checked" /\ ~inst_data[o].call_do_dispose
  <2>1. DisposedOnce(o)
    BY DEF DisposeOnce
  <2>2. ~inst_data[o].call_do_dispose
    BY <1>1, <2>1 DEF DisposedOnce
  <2>3. dispose[o]["last"] # "checked"
    BY <1>1, <2>1, CheckedAlone
  <2> QED
    BY <2>1, <2>2, <2>3
<1>6. DisposedOnce(o)' /\ InTime(o)
  BY <1>1, <1>4, <1>5 DEF DisposedOnce, InTime, Undisposed
<1> QED
  BY <1>3, <1>6 DEF OnceAll

\* By the time an object goes, its do_dispose has been called.
LEMMA LastUnrefEndsOnce ==
    ASSUME IInv, DataLifetime, DisposeOnce, NEW o \in Object, LastUnrefEnds(o)
    PROVE  OnceAll
<1> USE DEF IInv
<1>1. /\ dispose[o]["last"] = "done" /\ disposed' = disposed
      /\ dispose' = [dispose EXCEPT ![o]["last"] = "idle"]
      /\ ref_count' = [ref_count EXCEPT ![o] = @ - 1]
      /\ IF ref_count[o] > 1 THEN UNCHANGED <<ostate, inst_data>>
         ELSE /\ ostate' = [ostate EXCEPT ![o] = "finalized"]
              /\ inst_data' = [inst_data EXCEPT ![o] = NULL]
  BY DEF LastUnrefEnds, qvars
<1>2. \A p \in Object \ {o} : /\ ref_count'[p] = ref_count[p] /\ dispose'[p] = dispose[p]
                             /\ ostate'[p] = ostate[p] /\ inst_data'[p] = inst_data[p]
  BY <1>1 DEF TypeOK
<1>3. \A p \in Object \ {o} : DisposedOnce(p)' /\ InTime(p)
  BY <1>1, <1>2, OnceKept DEF DisposeOnce
<1>4. /\ "last" \in Disposer /\ dispose'[o]["last"] = "idle"
      /\ \A k \in Disposer : k # "last" => dispose'[o][k] = dispose[o][k]
  BY <1>1 DEF TypeOK, Disposer
<1>5. DisposedOnce(o)
  BY DEF DisposeOnce
<1>6. CASE ref_count[o] > 1
  <2>1. /\ ostate'[o] = ostate[o] /\ inst_data'[o] = inst_data[o]
        /\ disposed'[o] = disposed[o]
    BY <1>1, <1>6
  <2>2. DisposedOnce(o)'
    BY <1>4, <1>5, <2>1 DEF DisposedOnce, Undisposed
  <2>3. InTime(o)
    BY <1>5, <2>1 DEF DisposedOnce, InTime
  <2> QED
    BY <1>3, <2>2, <2>3 DEF OnceAll
<1>7. CASE ~(ref_count[o] > 1)
  <2>1. ref_count[o] = 1
    <3>1. ref_count[o] # 0 /\ ref_count[o] \in Nat
      BY <1>1, <1>4, NoOwners DEF TypeOK
    <3> QED
      BY <1>7, <3>1
  <2>2. Running(o) = {}
    BY <1>1, <2>1, LastOwner
  <2>3. \A k \in Disposer : dispose'[o][k] = "idle"
    BY <1>4, <2>2 DEF Running, Disposer
  <2>4. ostate'[o] = "finalized" /\ disposed'[o] <= 1
    BY <1>1, <1>5, <1>7 DEF TypeOK, DisposedOnce
  <2>5. o \in PyTyped => ~inst_data[o].call_do_dispose
    BY <1>1, <1>5 DEF DisposedOnce
  <2>6. "last" \in Disposer /\ dispose'[o]["last"] = "idle"
    BY <1>4
  <2>7. DisposedOnce(o)'
    BY <2>3, <2>4, <2>6 DEF DisposedOnce
  <2>8. InTime(o)
    BY <2>4, <2>5 DEF InTime
  <2> QED
    BY <1>3, <2>7, <2>8 DEF OnceAll
<1> QED
  BY <1>6, <1>7

LEMMA NextOnce ==
    ASSUME IInv, DataLifetime, DisposeOnce, RewrapDying = FALSE,
           \A r, s \in Runner : r = s, [Next]_vars
    PROVE  OnceAll
<1>1. CASE UNCHANGED vars
  BY <1>1, QuietOnce DEF vars, gvars, qvars, dvars
<1>2. CASE Next
  <2>1. ASSUME NEW o \in Object,
               \/ \E f \in BOOLEAN : CCreate(o, f)
               \/ \E w \in Wrapper : PyCreate(o, w)
        PROVE  OnceAll
    BY <2>1, CreateOnce
  <2>2. ASSUME NEW o \in Object, CRef(o)
        PROVE  OnceAll
    BY <2>2, WrapOnce
  <2>3. ASSUME NEW o \in Object, CSink(o)
        PROVE  OnceAll
    BY <2>3, QuietOnce DEF CSink, qvars, dvars
  <2>4. ASSUME NEW o \in Object, CUnref(o)
        PROVE  OnceAll
    BY <2>4, CUnrefOnce
  <2>5. ASSUME NEW o \in Object, NEW r \in Runner, RunDispose(o, r)
        PROVE  OnceAll
    BY <2>5, RunDisposeOnce
  <2>6. ASSUME NEW o \in Object, NEW w \in Wrapper,
               RetainFloating(o, w) \/ \E steal \in BOOLEAN : NewFull(o, w, steal)
        PROVE  OnceAll
    BY <2>6, WrapOnce
  <2>7. ASSUME NEW o \in Object, NEW k \in Disposer, KeepSelf(o, k)
        PROVE  OnceAll
    BY <2>7, QuietOnce DEF KeepSelf, gvars, qvars, dvars
  <2>8. ASSUME NEW o \in Object, NEW k \in Disposer, DoDisposeReturns(o, k)
        PROVE  OnceAll
    BY <2>8, DoDisposeReturnsOnce
  <2>9. ASSUME NEW w \in Wrapper, DropHandle(w)
        PROVE  OnceAll
    BY <2>9, DropHandleOnce
  <2>10. ASSUME NEW w \in Wrapper, Clear(w) \/ \E v \in Val : SetAttr(w, v)
         PROVE  OnceAll
    BY <2>10, AssignOnce
  <2>11. ASSUME NEW w \in Wrapper, NEW c \in Class, SetClass(w, c)
         PROVE  OnceAll
    BY <2>11, QuietOnce DEF SetClass, gvars, qvars, dvars
  <2>12. ASSUME NEW w \in Wrapper, WrapperUnref(w)
         PROVE  OnceAll
    BY <2>12, WrapperUnrefOnce
  <2>13. ASSUME NEW o \in Object, LastUnrefEnds(o)
         PROVE  OnceAll
    BY <2>13, LastUnrefEndsOnce
  <2>14. ASSUME NEW o \in Object, NEW k \in Disposer, NEW w \in Wrapper, CallDoDispose(o, k, w)
         PROVE  OnceAll
    BY <2>14, CallDoDisposeOnce
  <2>15. CASE Code
    <3>1. CASE \E w \in Wrapper : Clear(w) \/ WrapperUnref(w)
      BY <2>10, <2>12, <3>1
    <3>2. CASE \E o \in Object : LastUnrefEnds(o)
      BY <2>13, <3>2
    <3>3. CASE \E o \in Object, k \in Disposer :
                  DoDisposeReturns(o, k) \/ \E w \in Wrapper : CallDoDispose(o, k, w)
      BY <2>8, <2>14, <3>3
    <3> QED
      BY <2>15, <3>1, <3>2, <3>3 DEF Code
  <2>16. CASE ~Code
    <3>1. CASE \E o \in Object : \/ \E f \in BOOLEAN : CCreate(o, f)
                                 \/ CRef(o) \/ CSink(o) \/ CUnref(o)
                                 \/ \E r \in Runner : RunDispose(o, r)
      BY <2>1, <2>2, <2>3, <2>4, <2>5, <3>1
    <3>2. CASE \E o \in Object, w \in Wrapper :
                  \/ PyCreate(o, w)
                  \/ \E steal \in BOOLEAN : NewFull(o, w, steal)
                  \/ RetainFloating(o, w)
      BY <2>1, <2>6, <3>2
    <3>3. CASE \E o \in Object, k \in Disposer : KeepSelf(o, k)
      BY <2>7, <3>3
    <3>4. CASE \E w \in Wrapper : \/ DropHandle(w)
                                  \/ \E v \in Val : SetAttr(w, v)
                                  \/ \E c \in Class : SetClass(w, c)
      BY <2>9, <2>10, <2>11, <3>4
    <3> QED
      BY <1>2, <2>16, <3>1, <3>2, <3>3, <3>4 DEF Next
  <2> QED
    BY <2>15, <2>16
<1> QED
  BY <1>1, <1>2

\* do_dispose is called once for an object at the most, and before the object
\* goes: in every interleaving of the last unref, tp_finalize and one thread
\* that calls g_object_run_dispose.
THEOREM DisposesInTime ==
    ASSUME RewrapDying = FALSE, \A r, s \in Runner : r = s
    PROVE  Spec => DisposedInTime
<1>1. Init => DataLifetime /\ DisposeOnce
  <2> SUFFICES ASSUME Init PROVE DataLifetime /\ DisposeOnce
    OBVIOUS
  <2>1. \A o \in Object : /\ ostate[o] = "absent" /\ inst_data[o] = NULL /\ disposed[o] = 0
                         /\ \A k \in Disposer : dispose[o][k] = "idle"
    BY DEF Init
  <2> QED
    BY <2>1 DEF DataLifetime, DisposeOnce, DisposedOnce, Disposer
<1>2. ASSUME IInv, DataLifetime, DisposeOnce, [Next]_vars
      PROVE  /\ DataLifetime' /\ DisposeOnce'
             /\ \A o \in Object :
                   /\ disposed'[o] <= 1
                   /\ o \in PyTyped /\ ostate[o] = "alive" /\ ostate'[o] = "finalized"
                         => ~inst_data[o].call_do_dispose
  BY <1>2, NextMaps, NextOnce DEF OnceAll, InTime, DisposeOnce
<1>3. Spec => []IInv
  BY IInvHolds
<1> QED
  BY <1>1, <1>2, <1>3, PTL DEF Spec, DisposedInTime
=============================================================================
