---------------------------- MODULE Invoke_proofs ----------------------------
(***************************************************************************)
(* Proofs about calls of C functions: their argument blocks, the memory    *)
(* that a result points into, and the accounts of all the memory a call    *)
(* allocates, is given and gives away.                                     *)
(***************************************************************************)
EXTENDS Invoke, FiniteSetTheorems, SequenceTheorems, TLAPS

(***************************************************************************)
(* Signatures and chunks.                                                  *)
(***************************************************************************)

\* Every callable has at most Width arguments.
LEMMA WidthLargest ==
    /\ Width \in Nat
    /\ \A s \in Signature : NArgs(s) \in Nat /\ NArgs(s) <= Width
    /\ \A s \in Signature : Len(s.args) \in Nat /\ Len(s.args) <= NArgs(s)
    /\ \A s \in Signature : DOMAIN s.args = 1 .. Len(s.args)
<1>1. ASSUME NEW s \in Signature
      PROVE /\ NArgs(s) \in Nat
            /\ Len(s.args) \in Nat
            /\ Len(s.args) <= NArgs(s)
            /\ DOMAIN s.args = 1 .. Len(s.args)
    <2>1. s.args \in Seq(Parameter) /\ s.throws \in BOOLEAN
        BY SignatureAssumption
    <2>2. Len(s.args) \in Nat /\ DOMAIN s.args = 1 .. Len(s.args)
        BY <2>1, LenProperties
    <2>3. CASE s.throws
        <3>1. NArgs(s) = Len(s.args) + 1
            BY <2>3 DEF NArgs
        <3> QED BY <3>1, <2>2
    <2>4. CASE ~s.throws
        <3>1. NArgs(s) = Len(s.args) + 0
            BY <2>4 DEF NArgs
        <3> QED BY <3>1, <2>2
    <2> QED BY <2>3, <2>4
<1>2. \E n \in {NArgs(s) : s \in Signature} : \A s \in Signature : NArgs(s) <= n
    BY SignatureAssumption
<1>3. /\ Width \in {NArgs(s) : s \in Signature}
      /\ \A s \in Signature : NArgs(s) <= Width
    BY <1>2 DEF Width
<1> QED BY <1>1, <1>3

LEMMA SignatureTyped ==
    /\ NoSignature \in Signature
    /\ \A s \in Signature : s.ret \in Parameter
    /\ \A s \in Signature : \A i \in DOMAIN s.args : s.args[i] \in Parameter
<1>1. NoSignature \in Signature
    BY SignatureAssumption DEF NoSignature
<1>2. ASSUME NEW s \in Signature, NEW i \in DOMAIN s.args
      PROVE s.args[i] \in Parameter
    BY SignatureAssumption
<1> QED BY <1>1, <1>2, SignatureAssumption

\* A conversion allocates, and a result answers for, chunks of its argument.
LEMMA ConvertedChunks ==
    ASSUME NEW a \in Parameter, NEW f \in Int
    PROVE /\ FromPy(a, f).had \subseteq 0 .. MaxItems
          /\ Given(a) \subseteq 0 .. MaxItems
          /\ Received(a) \subseteq 0 .. MaxItems
          /\ CallerAlloc(a) \subseteq 0 .. MaxItems
          /\ ToPy(a, f).taken \subseteq 0 .. MaxItems
<1> USE DEF MaxItems
<1>1. a.n \in 0 .. MaxItems /\ a.kind \in Kind
    BY DEF Parameter
<1>2. Chunks(a) \subseteq 0 .. MaxItems /\ {0} \subseteq 0 .. MaxItems
    BY <1>1 DEF Chunks, Items
<1>3. ASSUME NEW g \in Int PROVE {0} \cup Reached(a, g) \subseteq 0 .. MaxItems
    BY <1>2 DEF Reached, Chunks
<1>4. ASSUME NEW g \in Int PROVE FromPy(a, g).had \subseteq 0 .. MaxItems
    <2>1. CASE a.kind \in {"string", "gvalue", "closure", "class", "plain"}
        BY <2>1, <1>2 DEF FromPy, StringFromPy, GValueFromPy, ClosureFromPy, ClassFromPy,
           Copy, Untouched, Made
    <2>2. CASE a.kind = "list"
        BY <2>2, <1>2, <1>3 DEF FromPy, ListFromPy, Untouched, Made
    <2>3. CASE a.kind \in {"array", "carray"}
        BY <2>3, <1>2, <1>3 DEF FromPy, ArrayFromPy, Untouched, Made
    <2>4. CASE a.kind = "hash"
        BY <2>4, <1>2, <1>3 DEF FromPy, HashFromPy, Untouched, Made
    <2>5. CASE a.kind \in {"object", "boxed", "struct", "foreign"}
        BY <2>5, <1>2 DEF FromPy, ObjectFromPy, StructFromPy, ForeignFromPy, Referenced,
           When, Untouched, Made
    <2> QED BY <1>1, <2>1, <2>2, <2>3, <2>4, <2>5 DEF Kind
<1>5. Given(a) \subseteq 0 .. MaxItems
    <2>1. Whole \in Int
        BY DEF Whole
    <2>2. FromPy(a, Whole).had \subseteq 0 .. MaxItems
        BY <2>1, <1>4
    <2> QED BY <2>2, <1>2 DEF Given
<1>6. Received(a) \subseteq 0 .. MaxItems /\ CallerAlloc(a) \subseteq 0 .. MaxItems
    BY <1>2 DEF Received, CallerAlloc, When
<1>7. ToPy(a, f).taken \subseteq {0}
    <2>1. CASE a.kind \in {"string", "list", "array", "carray", "hash"}
        BY <2>1 DEF ToPy, StringToPy, ListToPy, ArrayToPy, HashToPy, Shown
    <2>2. CASE a.kind \in {"object", "boxed", "struct", "closure", "class", "gvalue", "foreign"}
        BY <2>2 DEF ToPy, ObjectToPy, StructToPy, GValueToPy, ForeignToPy, Shown, IfAll, When
    <2>3. CASE a.kind = "plain"
        BY <2>3 DEF ToPy, Shown
    <2> QED BY <1>1, <2>1, <2>2, <2>3 DEF Kind
<1> QED BY <1>2, <1>4, <1>5, <1>6, <1>7

\* The chunks of one argument, named by it.
LEMMA OfTyped ==
    ASSUME NEW i \in 0 .. Width, NEW side \in {"in", "out"}, NEW chunks,
           chunks \subseteq 0 .. MaxItems
    PROVE Of(i, side, chunks) \subseteq ChunkId
BY DEF Of, ChunkId

(***************************************************************************)
(* Argument blocks.                                                        *)
(***************************************************************************)

\* What does not touch blocks leaves them with their holders.
LEMMA SameBlocks ==
    ASSUME IInv, slot' = slot, size' = size, block' = block,
           \A c \in Call : block[c] # NULL => sig'[c] = sig[c]
    PROVE BlockFits' /\ OneHolder'
<1>1. BlockFits'
    BY DEF IInv, BlockFits
<1>2. OneHolder'
    BY DEF IInv, OneHolder, Users, Slots
<1> QED BY <1>1, <1>2

\* A call takes the block of the cache for its number of arguments, or a new one.
LEMMA InitBlockKeeps ==
    ASSUME IInv, NEW c \in Call, NEW s \in Signature, NEW b \in Block \cup {NULL},
           InitBlock(NArgs(s), b), block[c] = NULL,
           block' = [block EXCEPT ![c] = b], sig' = [sig EXCEPT ![c] = s]
    PROVE /\ slot' \in [0 .. NMax - 1 -> Block \cup {NULL}]
          /\ size' \in [Block -> Int]
          /\ b = NULL <=> NArgs(s) = 0
          /\ BlockFits' /\ OneHolder'
<1> DEFINE n == NArgs(s)
<1>1. n \in Nat /\ NULL \notin Block /\ NMax \in Nat
    BY WidthLargest, InvokeAssumption
<1>2. /\ block \in [Call -> Block \cup {NULL}] /\ sig \in [Call -> Signature]
      /\ slot \in [0 .. NMax - 1 -> Block \cup {NULL}] /\ size \in [Block -> Int]
    BY DEF IInv, TypeOK
<1>3. /\ block'[c] = b /\ \A d \in Call : d # c => block'[d] = block[d]
      /\ sig'[c] = s /\ \A d \in Call : d # c => sig'[d] = sig[d]
    BY <1>2
<1>4. BlockFits /\ OneHolder
    BY DEF IInv
<1>5. CASE n = 0
    <2>1. b = NULL /\ slot' = slot /\ size' = size
        BY <1>5 DEF InitBlock, bvars
    <2>2. block' = block
        BY <2>1, <1>2, <1>3
    <2>3. BlockFits' /\ OneHolder'
        BY <2>1, <2>2, <1>3, SameBlocks
    <2> QED BY <2>1, <2>3, <1>2, <1>5
<1>6. CASE n # 0 /\ n < NMax /\ TakeBlock(n, b)
    <2>1. b \in Block /\ slot[n] = b /\ size' = size /\ slot' = [slot EXCEPT ![n] = NULL]
        BY <1>6 DEF InitBlock, TakeBlock
    <2>2. n \in 0 .. NMax - 1 /\ b # NULL
        BY <2>1, <1>6, <1>1
    <2>3. /\ slot'[n] = NULL
          /\ \A m \in 0 .. NMax - 1 : m # n => slot'[m] = slot[m]
        BY <2>1, <2>2, <1>2
    <2>4. size[b] = n /\ \A m \in 0 .. NMax - 1 : slot[m] = b => m = n
        BY <2>1, <2>2, <1>4 DEF BlockFits
    <2>5. BlockFits'
        BY <2>1, <2>2, <2>3, <2>4, <1>3, <1>4 DEF BlockFits
    <2>6. \A d \in Call : block[d] # b
        BY <2>1, <2>2, <1>4 DEF OneHolder
    <2>7. \A d, e \in Call : block'[d] # NULL /\ block'[d] = block'[e] => d = e
        BY <2>6, <1>3, <1>4 DEF OneHolder
    <2>8. \A d \in Call : \A m \in 0 .. NMax - 1 : slot'[m] = block'[d] => block'[d] = NULL
        BY <2>2, <2>3, <2>4, <1>3, <1>4 DEF OneHolder
    <2>9. ASSUME NEW x \in Block PROVE size'[x] = -1 \/ Users(x)' # {} \/ Slots(x)' # {}
        <3>1. CASE x = b
            BY <3>1, <1>3 DEF Users
        <3>2. CASE x # b /\ Slots(x) # {}
            BY <3>2, <2>1, <2>3 DEF Slots
        <3>3. CASE x # b /\ Users(x) # {}
            <4>1. PICK d \in Call : block[d] = x
                BY <3>3 DEF Users
            <4>2. d # c
                BY <4>1, <1>1
            <4> QED BY <4>1, <4>2, <1>3 DEF Users
        <3>4. CASE size[x] = -1
            BY <3>4, <2>1
        <3> QED BY <3>1, <3>2, <3>3, <3>4, <1>4 DEF OneHolder
    <2>10. OneHolder'
        BY <2>7, <2>8, <2>9 DEF OneHolder
    <2> QED BY <2>1, <2>2, <2>5, <2>10, <1>2, <1>6
<1>7. CASE n # 0 /\ NewBlock(n, b)
    <2>1. /\ b \in Block /\ size[b] = -1 /\ slot' = slot
          /\ size' = [size EXCEPT ![b] = n]
        BY <1>7 DEF InitBlock, NewBlock
    <2>2. size'[b] = n /\ \A x \in Block : x # b => size'[x] = size[x]
        BY <2>1, <1>2
    <2>3. \A m \in 0 .. NMax - 1 : slot[m] # b
        BY <2>1, <1>1, <1>4 DEF BlockFits
    <2>4. \A d \in Call : block[d] # b
        <3>1. \A d \in Call : NArgs(sig[d]) # -1
            BY <1>2, WidthLargest
        <3> QED BY <3>1, <2>1, <1>1, <1>4 DEF BlockFits
    <2>5. BlockFits'
        BY <2>1, <2>2, <2>3, <2>4, <1>2, <1>3, <1>4 DEF BlockFits
    <2>6. \A d, e \in Call : block'[d] # NULL /\ block'[d] = block'[e] => d = e
        BY <2>4, <1>3, <1>4 DEF OneHolder
    <2>7. \A d \in Call : \A m \in 0 .. NMax - 1 : slot'[m] = block'[d] => block'[d] = NULL
        BY <2>1, <2>3, <1>3, <1>4 DEF OneHolder
    <2>8. ASSUME NEW x \in Block PROVE size'[x] = -1 \/ Users(x)' # {} \/ Slots(x)' # {}
        <3>1. CASE x = b
            BY <3>1, <1>3 DEF Users
        <3>2. CASE x # b /\ Slots(x) # {}
            BY <3>2, <2>1 DEF Slots
        <3>3. CASE x # b /\ Users(x) # {}
            <4>1. PICK d \in Call : block[d] = x
                BY <3>3 DEF Users
            <4>2. d # c
                BY <4>1, <1>1
            <4> QED BY <4>1, <4>2, <1>3 DEF Users
        <3>4. CASE x # b /\ size[x] = -1
            BY <3>4, <2>2
        <3> QED BY <3>1, <3>2, <3>3, <3>4, <1>4 DEF OneHolder
    <2>9. OneHolder'
        BY <2>6, <2>7, <2>8 DEF OneHolder
    <2>10. size' \in [Block -> Int] /\ b # NULL
        BY <2>1, <1>1, <1>2
    <2> QED BY <2>1, <2>5, <2>9, <2>10, <1>2, <1>7
<1> QED BY <1>5, <1>6, <1>7 DEF InitBlock

\* The block of a call that is over goes to the cache, or is released.
LEMMA FreeBlockKeeps ==
    ASSUME IInv, NEW c \in Call, FreeBlock(NArgs(sig[c]), block[c]),
           block' = [block EXCEPT ![c] = NULL], sig' = sig
    PROVE /\ slot' \in [0 .. NMax - 1 -> Block \cup {NULL}]
          /\ size' \in [Block -> Int]
          /\ BlockFits' /\ OneHolder'
<1> DEFINE n == NArgs(sig[c])
           b == block[c]
<1>1. /\ block \in [Call -> Block \cup {NULL}] /\ sig \in [Call -> Signature]
      /\ slot \in [0 .. NMax - 1 -> Block \cup {NULL}] /\ size \in [Block -> Int]
    BY DEF IInv, TypeOK
<1>2. n \in Nat /\ NULL \notin Block /\ NMax \in Nat
    BY <1>1, WidthLargest, InvokeAssumption
<1>3. block'[c] = NULL /\ \A d \in Call : d # c => block'[d] = block[d]
    BY <1>1
<1>4. BlockFits /\ OneHolder
    BY DEF IInv
<1>5. \A d \in Call : d # c /\ b # NULL => block[d] # b
    BY <1>4 DEF OneHolder
<1>6. \A m \in 0 .. NMax - 1 : b # NULL => slot[m] # b
    BY <1>4 DEF OneHolder
<1>7. \A d, e \in Call : block'[d] # NULL /\ block'[d] = block'[e] => d = e
    BY <1>3, <1>4 DEF OneHolder
<1>8. ASSUME NEW x \in Block, x # b, Users(x) # {} PROVE Users(x)' # {}
    <2>1. PICK d \in Call : block[d] = x
        BY <1>8 DEF Users
    <2> QED BY <2>1, <1>8, <1>3 DEF Users
<1>9. CASE n < NMax /\ slot[n] = NULL
    <2>1. slot' = [slot EXCEPT ![n] = b] /\ size' = size /\ n \in 0 .. NMax - 1
        BY <1>9, <1>2 DEF FreeBlock, PutAt
    <2>2. slot'[n] = b /\ \A m \in 0 .. NMax - 1 : m # n => slot'[m] = slot[m]
        BY <2>1, <1>1
    <2>3. BlockFits'
        BY <2>1, <2>2, <1>3, <1>4 DEF BlockFits
    <2>4. \A d \in Call : \A m \in 0 .. NMax - 1 : slot'[m] = block'[d] => block'[d] = NULL
        BY <2>1, <2>2, <1>3, <1>4, <1>5 DEF OneHolder
    <2>5. ASSUME NEW x \in Block PROVE size'[x] = -1 \/ Users(x)' # {} \/ Slots(x)' # {}
        <3>1. CASE x = b
            BY <3>1, <2>1, <2>2 DEF Slots
        <3>2. CASE x # b /\ Slots(x) # {}
            <4>1. PICK m \in 0 .. NMax - 1 : slot[m] = x
                BY <3>2 DEF Slots
            <4>2. m # n
                BY <4>1, <1>9, <1>2
            <4> QED BY <4>1, <4>2, <2>2 DEF Slots
        <3>3. CASE x # b /\ Users(x) # {}
            BY <3>3, <1>8
        <3>4. CASE size[x] = -1
            BY <3>4, <2>1
        <3> QED BY <3>1, <3>2, <3>3, <3>4, <1>4 DEF OneHolder
    <2>6. OneHolder'
        BY <1>7, <2>4, <2>5 DEF OneHolder
    <2>7. b \in Block \cup {NULL}
        BY <1>1
    <2> QED BY <2>1, <2>3, <2>6, <2>7, <1>1
<1>10. CASE ~(n < NMax /\ slot[n] = NULL)
    <2>1. slot' = slot /\ size' = IF b = NULL THEN size ELSE [size EXCEPT ![b] = -1]
        BY <1>10 DEF FreeBlock, PutAt
    <2>2. /\ \A x \in Block : x # b => size'[x] = size[x]
          /\ b \in Block => size'[b] = -1
          /\ size' \in [Block -> Int]
        BY <2>1, <1>1, <1>2
    <2>3. BlockFits'
        BY <2>1, <2>2, <1>1, <1>3, <1>4, <1>5, <1>6 DEF BlockFits
    <2>4. \A d \in Call : \A m \in 0 .. NMax - 1 : slot'[m] = block'[d] => block'[d] = NULL
        BY <2>1, <1>3, <1>4 DEF OneHolder
    <2>5. ASSUME NEW x \in Block PROVE size'[x] = -1 \/ Users(x)' # {} \/ Slots(x)' # {}
        <3>1. CASE x = b
            BY <3>1, <2>2
        <3>2. CASE x # b /\ Slots(x) # {}
            BY <3>2, <2>1 DEF Slots
        <3>3. CASE x # b /\ Users(x) # {}
            BY <3>3, <1>8
        <3>4. CASE x # b /\ size[x] = -1
            BY <3>4, <2>2
        <3> QED BY <3>1, <3>2, <3>3, <3>4, <1>4 DEF OneHolder
    <2>6. OneHolder'
        BY <1>7, <2>4, <2>5 DEF OneHolder
    <2> QED BY <2>1, <2>2, <2>3, <2>6, <1>1
<1> QED BY <1>9, <1>10

\* What each block's holders are says how many there are.
LEMMA HolderCounted ==
    ASSUME IInv
    PROVE BlockExclusive
<1> SUFFICES ASSUME NEW b \in Block
             PROVE Cardinality(Users(b)) + Cardinality(Slots(b))
                      = IF size[b] = -1 THEN 0 ELSE 1
    BY DEF BlockExclusive
<1>1. NULL # b /\ NMax \in Nat
    BY InvokeAssumption
<1>2. /\ block \in [Call -> Block \cup {NULL}] /\ sig \in [Call -> Signature]
      /\ size \in [Block -> Int] /\ BlockFits /\ OneHolder
    BY DEF IInv, TypeOK
<1>3. ASSUME NEW c \in Users(b)
      PROVE Users(b) = {c} /\ Slots(b) = {} /\ size[b] # -1
    <2>1. c \in Call /\ block[c] = b
        BY DEF Users
    <2>2. Users(b) = {c} /\ Slots(b) = {}
        BY <2>1, <1>1, <1>2 DEF Users, Slots, OneHolder
    <2>3. NArgs(sig[c]) # -1
        BY <2>1, <1>2, WidthLargest
    <2> QED BY <2>1, <2>2, <2>3, <1>1, <1>2 DEF BlockFits
<1>4. ASSUME NEW n \in Slots(b)
      PROVE Users(b) = {} /\ Slots(b) = {n} /\ size[b] # -1
    <2>1. n \in 0 .. NMax - 1 /\ slot[n] = b
        BY DEF Slots
    <2>2. Users(b) = {}
        BY <1>3
    <2>3. size[b] = n /\ Slots(b) = {n}
        BY <2>1, <1>1, <1>2 DEF BlockFits, Slots
    <2> QED BY <2>1, <2>2, <2>3, <1>1
<1>5. Cardinality({}) = 0 /\ \A x : Cardinality({x}) = 1
    BY FS_EmptySet, FS_Singleton
<1>6. CASE Users(b) # {}
    <2>1. PICK c : c \in Users(b)
        BY <1>6
    <2>2. Cardinality(Users(b)) = 1 /\ Cardinality(Slots(b)) = 0 /\ size[b] # -1
        BY <2>1, <1>3, <1>5
    <2> QED BY <2>2
<1>7. CASE Users(b) = {} /\ Slots(b) # {}
    <2>1. PICK n : n \in Slots(b)
        BY <1>7
    <2>2. Cardinality(Users(b)) = 0 /\ Cardinality(Slots(b)) = 1 /\ size[b] # -1
        BY <2>1, <1>4, <1>5
    <2> QED BY <2>2
<1>8. CASE Users(b) = {} /\ Slots(b) = {}
    <2>1. size[b] = -1
        BY <1>8, <1>2 DEF OneHolder
    <2> QED BY <2>1, <1>8, <1>5
<1> QED BY <1>6, <1>7, <1>8

(***************************************************************************)
(* Invariance.                                                             *)
(***************************************************************************)

\* The types of a call's progress and memory.
CallTyped ==
    /\ pc \in [Call -> {"idle", "in", "callee", "out", "clean from", "clean to",
                        "clear", "done"}]
    /\ sig \in [Call -> Signature]
    /\ block \in [Call -> Block \cup {NULL}]
    /\ at \in [Call -> 0 .. Width + 1]
    /\ ours \in [Call -> SUBSET ChunkId]
    /\ theirs \in [Call -> SUBSET ChunkId]
    /\ result \in [Call -> SUBSET ChunkId]
    /\ outcome \in [Call -> Outcome]

\* A step of one call leaves what other calls converted alone.
LEMMA OthersKeep ==
    ASSUME ArgsKept, NEW c \in Call,
           \A d \in Call : d # c => /\ pc'[d] = pc[d] /\ sig'[d] = sig[d] /\ at'[d] = at[d]
                                    /\ ours'[d] = ours[d] /\ theirs'[d] = theirs[d],
           ArgsKeptBy(c)'
    PROVE ArgsKept'
<1>1. ASSUME NEW d \in Call, d # c PROVE ArgsKeptBy(d)'
    BY <1>1 DEF ArgsKept, ArgsKeptBy
<1> QED BY <1>1 DEF ArgsKept

\* The same for having a block.
LEMMA OthersBlocks ==
    ASSUME BlockWhileCalling, NEW c \in Call,
           \A d \in Call : d # c => /\ pc'[d] = pc[d] /\ sig'[d] = sig[d]
                                    /\ block'[d] = block[d],
           /\ pc'[c] \in {"idle", "done"} => block'[c] = NULL
           /\ pc'[c] \in {"in", "callee", "out", "clean from", "clean to"}
              => (block'[c] = NULL <=> NArgs(sig'[c]) = 0)
    PROVE BlockWhileCalling'
BY DEF BlockWhileCalling

LEMMA EnterKeeps ==
    ASSUME IInv, NEW c \in Call, NEW s \in Signature, NEW b \in Block \cup {NULL},
           Enter(c, s, b)
    PROVE IInv'
<1>1. CallTyped
    BY DEF IInv, TypeOK, CallTyped
<1>2. /\ pc[c] = "idle" /\ block[c] = NULL /\ InitBlock(NArgs(s), b)
      /\ block' = [block EXCEPT ![c] = b] /\ sig' = [sig EXCEPT ![c] = s]
    BY DEF Enter, IInv, BlockWhileCalling
<1>3. /\ slot' \in [0 .. NMax - 1 -> Block \cup {NULL}]
      /\ size' \in [Block -> Int]
      /\ b = NULL <=> NArgs(s) = 0
      /\ BlockFits' /\ OneHolder'
    BY <1>2, InitBlockKeeps
<1>4. /\ pc' = [pc EXCEPT ![c] = "in"] /\ at' = [at EXCEPT ![c] = 1]
      /\ outcome' = [outcome EXCEPT ![c] = ""]
      /\ ours' = ours /\ theirs' = theirs /\ result' = result
    BY DEF Enter, mvars
<1>5. CallTyped'
    <2>1. 1 \in 0 .. Width + 1
        BY WidthLargest
    <2>2. at' \in [Call -> 0 .. Width + 1]
        BY <2>1, <1>1, <1>4 DEF CallTyped
    <2> QED BY <2>2, <1>1, <1>2, <1>4 DEF CallTyped, Outcome
<1>6. BlockWhileCalling'
    BY <1>1, <1>2, <1>3, <1>4, OthersBlocks DEF IInv, CallTyped
<1>7. ArgsKeptBy(c)'
    <2>1. pc'[c] = "in" /\ at'[c] = 1 /\ sig'[c] = s
        BY <1>1, <1>2, <1>4 DEF CallTyped
    <2>2. \A i \in DOMAIN s.args : ~(i < 1)
        BY WidthLargest
    <2> QED BY <2>1, <2>2 DEF ArgsKeptBy
<1>8. ArgsKept'
    BY <1>1, <1>2, <1>4, <1>7, OthersKeep DEF IInv, CallTyped
<1>9. FromFirst'
    <2>1. at'[c] = 1
        BY <1>1, <1>4 DEF CallTyped
    <2>2. \A d \in Call : d # c => at'[d] = at[d] /\ pc'[d] = pc[d]
        BY <1>1, <1>4 DEF CallTyped
    <2> QED BY <2>1, <2>2 DEF IInv, FromFirst
<1> QED BY <1>3, <1>5, <1>6, <1>8, <1>9 DEF IInv, TypeOK, CallTyped

\* Steps that leave the blocks alone.
LEMMA InsideCall ==
    ASSUME IInv, NEW c \in Call, slot' = slot, size' = size, block' = block,
           \A d \in Call : block[d] # NULL => sig'[d] = sig[d],
           \A d \in Call : d # c => /\ pc'[d] = pc[d] /\ sig'[d] = sig[d] /\ at'[d] = at[d]
                                    /\ ours'[d] = ours[d] /\ theirs'[d] = theirs[d],
           /\ pc'[c] \in {"idle", "done"} => block'[c] = NULL
           /\ pc'[c] \in {"in", "callee", "out", "clean from", "clean to"}
              => (block'[c] = NULL <=> NArgs(sig'[c]) = 0),
           pc'[c] = "in" => at'[c] # 0,
           CallTyped', ArgsKeptBy(c)'
    PROVE IInv'
<1>1. BlockFits' /\ OneHolder'
    BY SameBlocks
<1>2. BlockWhileCalling'
    BY OthersBlocks DEF IInv
<1>3. ArgsKept'
    BY OthersKeep DEF IInv
<1>4. TypeOK'
    BY DEF IInv, TypeOK, CallTyped
<1>5. FromFirst'
    BY DEF IInv, FromFirst
<1> QED BY <1>1, <1>2, <1>3, <1>4, <1>5 DEF IInv

LEMMA EnterFailsKeeps ==
    ASSUME IInv, NEW c \in Call, NEW s \in Signature, EnterFails(c, s)
    PROVE IInv'
<1>1. CallTyped /\ block[c] = NULL
    BY DEF IInv, TypeOK, CallTyped, BlockWhileCalling, EnterFails
<1>2. CallTyped'
    BY <1>1 DEF EnterFails, CallTyped, Outcome, bvars, mvars
<1>3. pc'[c] = "clear"
    BY <1>1 DEF EnterFails, CallTyped
<1>4. ArgsKeptBy(c)'
    BY <1>3 DEF ArgsKeptBy
<1>5. /\ \A d \in Call : d # c => /\ pc'[d] = pc[d] /\ sig'[d] = sig[d] /\ at'[d] = at[d]
                                  /\ ours'[d] = ours[d] /\ theirs'[d] = theirs[d]
      /\ slot' = slot /\ size' = size /\ block' = block
    BY <1>1 DEF EnterFails, CallTyped, bvars, mvars
<1>6. \A d \in Call : block[d] # NULL => sig'[d] = sig[d]
    BY <1>1, <1>5
<1> QED BY <1>2, <1>3, <1>4, <1>5, <1>6, InsideCall


\* What is read of the argument to be converted next.
LEMMA AtTyped ==
    ASSUME CallTyped, NEW c \in Call, at[c] <= Len(sig[c].args)
    PROVE /\ at[c] \in 0 .. Width /\ at[c] + 1 \in 0 .. Width + 1
          /\ at[c] > 0 => at[c] \in DOMAIN sig[c].args /\ Arg(c) \in Parameter
          /\ Result(c) \in Parameter
<1>1. sig[c] \in Signature /\ at[c] \in 0 .. Width + 1
    BY DEF CallTyped
<1>2. Width \in Nat /\ Len(sig[c].args) \in Nat /\ Len(sig[c].args) <= Width
    <2>1. /\ Width \in Nat /\ Len(sig[c].args) \in Nat /\ NArgs(sig[c]) \in Nat
          /\ Len(sig[c].args) <= NArgs(sig[c]) /\ NArgs(sig[c]) <= Width
        BY <1>1, WidthLargest
    <2> QED BY <2>1
<1>3. at[c] > 0 => at[c] \in DOMAIN sig[c].args
    BY <1>1, <1>2, WidthLargest
<1>4. at[c] > 0 => Arg(c) \in Parameter
    BY <1>1, <1>3, SignatureTyped DEF Arg
<1>5. Result(c) \in Parameter
    BY <1>1, <1>4, SignatureTyped DEF Result
<1> QED BY <1>1, <1>2, <1>3, <1>4, <1>5

LEMMA MarshalInKeeps ==
    ASSUME IInv, NEW c \in Call, MarshalIn(c)
    PROVE IInv'
<1> DEFINE a == Arg(c)
           i == at[c]
           made == IF IsIn(a) THEN FromPy(a, Whole) ELSE Untouched
           new == Of(i, "out", CallerAlloc(a)) \cup Of(i, "in", made.had)
<1>1. CallTyped /\ ArgsKeptBy(c)
    BY DEF IInv, TypeOK, CallTyped, ArgsKept
<1>2. /\ pc[c] = "in" /\ i <= Len(sig[c].args)
      /\ at' = [at EXCEPT ![c] = @ + 1] /\ pc' = pc /\ sig' = sig
      /\ ours' = [ours EXCEPT ![c] = @ \cup Of(i, "out", CallerAlloc(a))
                                        \cup Of(i, "in", made.had)]
      /\ theirs' = theirs /\ result' = result /\ outcome' = outcome
      /\ slot' = slot /\ size' = size /\ block' = block
    BY DEF MarshalIn, Advance
<1>3. /\ i \in 0 .. Width /\ i + 1 \in 0 .. Width + 1
      /\ i > 0 => i \in DOMAIN sig[c].args /\ a \in Parameter
    BY <1>1, <1>2, AtTyped
<1>4. i > 0
    BY <1>2, <1>3, WidthLargest DEF IInv, FromFirst
<1>5. new \subseteq ChunkId
    <2>1. Whole \in Int
        BY DEF Whole
    <2>2. CallerAlloc(a) \subseteq 0 .. MaxItems /\ FromPy(a, Whole).had \subseteq 0 .. MaxItems
        BY <2>1, <1>3, <1>4, ConvertedChunks
    <2>3. made.had \subseteq 0 .. MaxItems
        BY <2>2 DEF Untouched, Made
    <2> QED BY <2>2, <2>3, <1>3, OfTyped
<1>6. ours'[c] = ours[c] \cup new
    BY <1>1, <1>2 DEF CallTyped
<1>7. CallTyped'
    <2>1. at' \in [Call -> 0 .. Width + 1]
        BY <1>1, <1>2, <1>3 DEF CallTyped
    <2>2. ours' \in [Call -> SUBSET ChunkId]
        BY <1>1, <1>2, <1>5 DEF CallTyped
    <2> QED BY <2>1, <2>2, <1>1, <1>2 DEF CallTyped
<1>8. ArgsKeptBy(c)'
    <2>1. at'[c] = i + 1
        BY <1>1, <1>2 DEF CallTyped
    <2> SUFFICES ASSUME NEW j \in DOMAIN sig[c].args, IsIn(sig[c].args[j]), j < i + 1
                 PROVE Converted(sig[c], j) \subseteq ours'[c]
        BY <2>1, <1>2 DEF ArgsKeptBy, Converted
    <2>2. j \in Int
        <3>1. sig[c] \in Signature
            BY <1>1 DEF CallTyped
        <3>2. DOMAIN sig[c].args = 1 .. Len(sig[c].args)
            BY <3>1, WidthLargest
        <3> QED BY <3>2
    <2>3. CASE j < i
        BY <2>3, <1>1, <1>2, <1>6 DEF ArgsKeptBy
    <2>4. CASE j = i
        <3>1. Converted(sig[c], j) = Of(i, "in", made.had)
            BY <2>4 DEF Converted, Arg
        <3> QED BY <3>1, <1>6
    <2> QED BY <2>2, <2>3, <2>4, <1>3
<1>9. \A d \in Call : d # c => at'[d] = at[d] /\ ours'[d] = ours[d]
    BY <1>1, <1>2 DEF CallTyped
<1>10. block'[c] = NULL <=> NArgs(sig'[c]) = 0
    BY <1>2 DEF IInv, BlockWhileCalling
<1>11. at'[c] # 0
    <2>1. at'[c] = i + 1
        BY <1>1, <1>2 DEF CallTyped
    <2> QED BY <2>1, <1>3, <1>4
<1> QED BY <1>2, <1>7, <1>8, <1>9, <1>10, <1>11, InsideCall


LEMMA MarshalInFailsKeeps ==
    ASSUME IInv, NEW c \in Call, NEW f \in 0 .. MaxItems + 1, MarshalInFails(c, f)
    PROVE IInv'
<1> DEFINE a == Arg(c)
           i == at[c]
           made == IF IsIn(a) THEN FromPy(a, f) ELSE Untouched
<1>1. CallTyped
    BY DEF IInv, TypeOK, CallTyped
<1>2. /\ pc[c] = "in" /\ i <= Len(sig[c].args)
      /\ at' = at /\ pc' = [pc EXCEPT ![c] = "clean from"] /\ sig' = sig
      /\ ours' = [ours EXCEPT ![c] = @ \cup Of(i, "in", made.had \ made.gone)]
      /\ theirs' = theirs /\ result' = result
      /\ outcome' = [outcome EXCEPT ![c] = "badarg"]
      /\ slot' = slot /\ size' = size /\ block' = block
    BY DEF MarshalInFails
<1>3. i \in 0 .. Width /\ (i > 0 => a \in Parameter)
    BY <1>1, <1>2, AtTyped
<1>4. i > 0
    <2>1. i # 0
        BY <1>2 DEF IInv, FromFirst
    <2>2. Width \in Nat
        BY WidthLargest
    <2> QED BY <2>1, <2>2, <1>3
<1>5. Of(i, "in", made.had \ made.gone) \subseteq ChunkId
    <2>1. f \in Int
        BY DEF MaxItems
    <2>2. FromPy(a, f).had \subseteq 0 .. MaxItems
        BY <2>1, <1>3, <1>4, ConvertedChunks
    <2>3. made.had \ made.gone \subseteq 0 .. MaxItems
        BY <2>2 DEF Untouched, Made
    <2> QED BY <2>3, <1>3, OfTyped
<1>6. CallTyped'
    <2>1. ours' \in [Call -> SUBSET ChunkId]
        BY <1>1, <1>2, <1>5 DEF CallTyped
    <2> QED BY <2>1, <1>1, <1>2 DEF CallTyped, Outcome
<1>7. /\ pc'[c] = "clean from"
      /\ \A d \in Call : d # c => pc'[d] = pc[d] /\ ours'[d] = ours[d]
    BY <1>1, <1>2 DEF CallTyped
<1>8. ArgsKeptBy(c)'
    BY <1>7 DEF ArgsKeptBy
<1>9. block'[c] = NULL <=> NArgs(sig'[c]) = 0
    BY <1>2 DEF IInv, BlockWhileCalling
<1> QED BY <1>2, <1>6, <1>7, <1>8, <1>9, InsideCall

\* The callee gets no more than was converted, and what it gets is not lost.
LEMMA StartCallKeeps ==
    ASSUME IInv, NEW c \in Call, StartCall(c)
    PROVE IInv'
<1> DEFINE args == sig[c].args
           gift == UNION {Of(i, "in", When(IsIn(args[i]), Given(args[i]))) : i \in DOMAIN args}
<1>1. CallTyped /\ ArgsKeptBy(c) /\ sig[c] \in Signature
    BY DEF IInv, TypeOK, CallTyped, ArgsKept
<1>2. /\ pc[c] = "in" /\ at[c] > Len(args)
      /\ ours' = [ours EXCEPT ![c] = @ \ gift] /\ theirs' = [theirs EXCEPT ![c] = gift]
      /\ pc' = [pc EXCEPT ![c] = "callee"]
      /\ slot' = slot /\ size' = size /\ block' = block /\ sig' = sig /\ at' = at
      /\ result' = result /\ outcome' = outcome
    BY DEF StartCall, bvars
<1>3. gift \subseteq ChunkId
    <2>1. ASSUME NEW i \in DOMAIN args
          PROVE Of(i, "in", When(IsIn(args[i]), Given(args[i]))) \subseteq ChunkId
        <3>1. Width \in Nat /\ Len(args) \in Nat /\ Len(args) <= NArgs(sig[c])
              /\ NArgs(sig[c]) \in Nat /\ NArgs(sig[c]) <= Width /\ DOMAIN args = 1 .. Len(args)
            BY <1>1, WidthLargest
        <3>2. i \in 0 .. Width
            BY <3>1
        <3>3. args[i] \in Parameter
            BY <1>1, SignatureTyped
        <3>4. When(IsIn(args[i]), Given(args[i])) \subseteq 0 .. MaxItems
            BY <3>3, ConvertedChunks DEF When
        <3> QED BY <3>2, <3>4, OfTyped
    <2> QED BY <2>1
<1>4. /\ pc'[c] = "callee" /\ ours'[c] = ours[c] \ gift /\ theirs'[c] = gift
      /\ \A d \in Call : d # c => /\ pc'[d] = pc[d] /\ ours'[d] = ours[d]
                                   /\ theirs'[d] = theirs[d]
    BY <1>1, <1>2 DEF CallTyped
<1>5. CallTyped'
    <2> HIDE DEF gift
    <2>1. ours' \in [Call -> SUBSET ChunkId] /\ theirs' \in [Call -> SUBSET ChunkId]
        BY <1>1, <1>2, <1>3 DEF CallTyped
    <2> QED BY <2>1, <1>1, <1>2 DEF CallTyped
<1>6. ArgsKeptBy(c)'
    <2> HIDE DEF gift
    <2>1. ASSUME NEW j \in DOMAIN args, IsIn(args[j])
          PROVE Converted(sig[c], j) \subseteq ours[c]
        <3>1. j < at[c]
            <4>1. DOMAIN args = 1 .. Len(args) /\ Len(args) \in Nat
                BY <1>1, WidthLargest
            <4>2. at[c] \in Int
                <5>1. at[c] \in 0 .. Width + 1
                    BY <1>1 DEF CallTyped
                <5> QED BY <5>1, WidthLargest
            <4> QED BY <4>1, <4>2, <1>2
        <3> QED BY <3>1, <2>1, <1>1, <1>2 DEF ArgsKeptBy
    <2>2. ours[c] \subseteq ours'[c] \cup theirs'[c]
        BY <1>4
    <2> QED BY <2>1, <2>2, <1>2, <1>4 DEF ArgsKeptBy, Converted
<1>7. block'[c] = NULL <=> NArgs(sig'[c]) = 0
    BY <1>2 DEF IInv, BlockWhileCalling
<1> QED BY <1>2, <1>4, <1>5, <1>6, <1>7, InsideCall

LEMMA CallReturnsKeeps ==
    ASSUME IInv, NEW c \in Call, CallReturns(c)
    PROVE IInv'
<1> DEFINE args == sig[c].args
           got == Of(0, "out", Received(sig[c].ret)) \cup
                  UNION {Of(i, "out", When(IsOut(args[i]), Received(args[i]))) : i \in DOMAIN args}
<1>1. CallTyped /\ ArgsKeptBy(c) /\ sig[c] \in Signature
    BY DEF IInv, TypeOK, CallTyped, ArgsKept
<1>2. /\ pc[c] = "callee"
      /\ ours' = [ours EXCEPT ![c] = @ \cup got] /\ theirs' = theirs
      /\ pc' = [pc EXCEPT ![c] = "out"] /\ at' = [at EXCEPT ![c] = 0]
      /\ slot' = slot /\ size' = size /\ block' = block /\ sig' = sig
      /\ result' = result /\ outcome' = outcome
    BY DEF CallReturns, bvars
<1>3. got \subseteq ChunkId
    <2>1. /\ Width \in Nat /\ Len(args) \in Nat /\ Len(args) <= NArgs(sig[c])
          /\ NArgs(sig[c]) \in Nat /\ NArgs(sig[c]) <= Width /\ DOMAIN args = 1 .. Len(args)
        BY <1>1, WidthLargest
    <2>2. ASSUME NEW i \in DOMAIN args
          PROVE Of(i, "out", When(IsOut(args[i]), Received(args[i]))) \subseteq ChunkId
        <3>1. i \in 0 .. Width
            BY <2>1
        <3>2. args[i] \in Parameter /\ 0 \in Int
            BY <1>1, SignatureTyped
        <3>3. When(IsOut(args[i]), Received(args[i])) \subseteq 0 .. MaxItems
            BY <3>2, ConvertedChunks DEF When
        <3> QED BY <3>1, <3>3, OfTyped
    <2>3. Of(0, "out", Received(sig[c].ret)) \subseteq ChunkId
        <3>1. sig[c].ret \in Parameter /\ 0 \in Int
            BY <1>1, SignatureTyped
        <3>2. Received(sig[c].ret) \subseteq 0 .. MaxItems
            BY <3>1, ConvertedChunks
        <3>3. 0 \in 0 .. Width
            BY <2>1
        <3> QED BY <3>2, <3>3, OfTyped
    <2> QED BY <2>2, <2>3
<1> HIDE DEF got
<1>4. /\ pc'[c] = "out" /\ ours'[c] = ours[c] \cup got
      /\ \A d \in Call : d # c => pc'[d] = pc[d] /\ ours'[d] = ours[d] /\ at'[d] = at[d]
    BY <1>1, <1>2 DEF CallTyped
<1>5. CallTyped'
    <2>1. ours' \in [Call -> SUBSET ChunkId]
        BY <1>1, <1>2, <1>3 DEF CallTyped
    <2>2. 0 \in 0 .. Width + 1
        BY WidthLargest
    <2>3. at' \in [Call -> 0 .. Width + 1]
        BY <2>2, <1>1, <1>2 DEF CallTyped
    <2> QED BY <2>1, <2>3, <1>1, <1>2 DEF CallTyped
<1>6. ArgsKeptBy(c)'
    BY <1>1, <1>2, <1>4 DEF ArgsKeptBy, Converted
<1>7. block'[c] = NULL <=> NArgs(sig'[c]) = 0
    BY <1>2 DEF IInv, BlockWhileCalling
<1> QED BY <1>2, <1>4, <1>5, <1>6, <1>7, InsideCall


\* Steps of a call that only end its stage, or take memory from it.
LEMMA StageKeeps ==
    ASSUME IInv, NEW c \in Call, slot' = slot, size' = size, block' = block,
           sig' = sig, at' = at, theirs' = theirs,
           NEW to \in {"clean from", "clean to", "clear"}, pc' = [pc EXCEPT ![c] = to],
           pc[c] \notin {"idle", "done", "clear"},
           ours' \in [Call -> SUBSET ChunkId], \A d \in Call : d # c => ours'[d] = ours[d],
           result' \in [Call -> SUBSET ChunkId], outcome' \in [Call -> Outcome]
    PROVE IInv'
<1>1. CallTyped
    BY DEF IInv, TypeOK, CallTyped
<1>2. CallTyped'
    BY <1>1 DEF CallTyped
<1>3. pc'[c] = to /\ \A d \in Call : d # c => pc'[d] = pc[d]
    BY <1>1 DEF CallTyped
<1>4. ArgsKeptBy(c)'
    BY <1>3 DEF ArgsKeptBy
<1>5. block'[c] = NULL <=> NArgs(sig'[c]) = 0
    BY <1>1 DEF IInv, BlockWhileCalling, CallTyped
<1> QED BY <1>2, <1>3, <1>4, <1>5, InsideCall

LEMMA CallThrowsKeeps ==
    ASSUME IInv, NEW c \in Call, CallThrows(c)
    PROVE IInv'
<1>1. CallTyped
    BY DEF IInv, TypeOK, CallTyped
<1>2. outcome' \in [Call -> Outcome]
    BY <1>1 DEF CallTyped, CallThrows, Outcome
<1>3. ours' \in [Call -> SUBSET ChunkId] /\ result' \in [Call -> SUBSET ChunkId]
    BY <1>1 DEF CallTyped, CallThrows, mvars
<1> QED BY <1>2, <1>3, StageKeeps DEF CallThrows, bvars, mvars

LEMMA OutDoneKeeps ==
    ASSUME IInv, NEW c \in Call, OutDone(c)
    PROVE IInv'
<1>1. CallTyped
    BY DEF IInv, TypeOK, CallTyped
<1>2. outcome' \in [Call -> Outcome]
    BY <1>1 DEF CallTyped, OutDone, Outcome
<1>3. ours' \in [Call -> SUBSET ChunkId] /\ result' \in [Call -> SUBSET ChunkId]
    BY <1>1 DEF CallTyped, OutDone, mvars
<1> QED BY <1>2, <1>3, StageKeeps DEF OutDone, bvars, mvars

\* Releasing takes memory from the call that releases it.
LEMMA FreeTyped ==
    ASSUME CallTyped, NEW c \in Call, NEW releases, Free(c, releases)
    PROVE /\ ours' \in [Call -> SUBSET ChunkId]
          /\ \A d \in Call : d # c => ours'[d] = ours[d]
BY DEF CallTyped, Free

LEMMA MarshalOutFailsKeeps ==
    ASSUME IInv, NEW c \in Call, NEW f \in 0 .. MaxItems + 1, MarshalOutFails(c, f)
    PROVE IInv'
<1>1. CallTyped
    BY DEF IInv, TypeOK, CallTyped
<1>2. /\ Free(c, {Of(at[c], "out", ToPy(Result(c), f).gone)})
      /\ pc[c] = "out" /\ pc' = [pc EXCEPT ![c] = "clean from"]
      /\ result' = [result EXCEPT ![c] = {}]
      /\ outcome' = [outcome EXCEPT ![c] = "badresult"]
      /\ slot' = slot /\ size' = size /\ theirs' = theirs /\ sig' = sig
      /\ block' = block /\ at' = at
    BY DEF MarshalOutFails
<1>3. /\ ours' \in [Call -> SUBSET ChunkId]
      /\ \A d \in Call : d # c => ours'[d] = ours[d]
    BY <1>1, <1>2, FreeTyped
<1>4. result' \in [Call -> SUBSET ChunkId] /\ outcome' \in [Call -> Outcome]
    BY <1>1, <1>2 DEF CallTyped, Outcome
<1> QED BY <1>2, <1>3, <1>4, StageKeeps

LEMMA CleanFromKeeps ==
    ASSUME IInv, NEW c \in Call, CleanFrom(c)
    PROVE IInv'
<1>1. CallTyped
    BY DEF IInv, TypeOK, CallTyped
<1>2. PICK releases : Free(c, releases)
    BY DEF CleanFrom
<1>3. PICK to \in {"clean to", "clear"} : pc' = [pc EXCEPT ![c] = to]
    BY DEF CleanFrom
<1>4. /\ pc[c] = "clean from" /\ slot' = slot /\ size' = size /\ theirs' = theirs
      /\ sig' = sig /\ block' = block /\ at' = at /\ result' = result /\ outcome' = outcome
    BY DEF CleanFrom
<1>5. /\ ours' \in [Call -> SUBSET ChunkId]
      /\ \A d \in Call : d # c => ours'[d] = ours[d]
    BY <1>1, <1>2, FreeTyped
<1>6. result' \in [Call -> SUBSET ChunkId] /\ outcome' \in [Call -> Outcome]
    BY <1>1, <1>4 DEF CallTyped
<1> QED BY <1>3, <1>4, <1>5, <1>6, StageKeeps

LEMMA CleanToKeeps ==
    ASSUME IInv, NEW c \in Call, CleanTo(c)
    PROVE IInv'
<1>1. CallTyped
    BY DEF IInv, TypeOK, CallTyped
<1>2. PICK releases : Free(c, releases)
    BY DEF CleanTo
<1>3. PICK effects : result' = [result EXCEPT ![c] = @ \ effects]
    BY DEF CleanTo
<1>4. /\ pc[c] = "clean to" /\ slot' = slot /\ size' = size /\ theirs' = theirs
      /\ sig' = sig /\ block' = block /\ at' = at /\ outcome' = outcome
      /\ pc' = [pc EXCEPT ![c] = "clear"]
    BY DEF CleanTo
<1>5. /\ ours' \in [Call -> SUBSET ChunkId]
      /\ \A d \in Call : d # c => ours'[d] = ours[d]
    BY <1>1, <1>2, FreeTyped
<1>6. result' \in [Call -> SUBSET ChunkId] /\ outcome' \in [Call -> Outcome]
    BY <1>1, <1>3, <1>4 DEF CallTyped
<1> QED BY <1>4, <1>5, <1>6, StageKeeps

\* A conversion of a result takes chunks of results only.
LEMMA MarshalOutKeeps ==
    ASSUME IInv, NEW c \in Call, MarshalOut(c)
    PROVE IInv'
<1> DEFINE taken == Of(at[c], "out", ToPy(Result(c), Whole).taken)
<1>1. CallTyped /\ ArgsKeptBy(c)
    BY DEF IInv, TypeOK, CallTyped, ArgsKept
<1>2. /\ pc[c] = "out" /\ at[c] <= Len(sig[c].args)
      /\ at' = [at EXCEPT ![c] = @ + 1] /\ pc' = pc /\ sig' = sig /\ theirs' = theirs
      /\ outcome' = outcome /\ slot' = slot /\ size' = size /\ block' = block
    BY DEF MarshalOut, Advance, mvars
<1>3. /\ at[c] \in 0 .. Width /\ at[c] + 1 \in 0 .. Width + 1
      /\ Result(c) \in Parameter
    BY <1>1, <1>2, AtTyped
<1>4. taken \subseteq ChunkId
    <2>1. Whole \in Int
        BY DEF Whole
    <2>2. ToPy(Result(c), Whole).taken \subseteq 0 .. MaxItems
        BY <2>1, <1>3, ConvertedChunks
    <2> QED BY <2>2, <1>3, OfTyped
<1>5. \/ ours' = ours /\ result' = result
      \/ /\ ours' = [ours EXCEPT ![c] = @ \ taken]
         /\ result' = [result EXCEPT ![c] = @ \cup taken]
    BY DEF MarshalOut, mvars
<1>6. \A j, chunks : Of(j, "in", chunks) \cap taken = {}
    BY DEF Of
<1> HIDE DEF taken
<1>7. CallTyped'
    <2>1. at' \in [Call -> 0 .. Width + 1]
        BY <1>1, <1>2, <1>3 DEF CallTyped
    <2>2. ours' \in [Call -> SUBSET ChunkId] /\ result' \in [Call -> SUBSET ChunkId]
        BY <1>1, <1>4, <1>5 DEF CallTyped
    <2> QED BY <2>1, <2>2, <1>1, <1>2 DEF CallTyped
<1>8. ours[c] \ taken \subseteq ours'[c] /\ \A d \in Call : d # c => ours'[d] = ours[d]
    BY <1>1, <1>5 DEF CallTyped
<1>9. ArgsKeptBy(c)'
    <2>1. ASSUME NEW j \in DOMAIN sig[c].args, IsIn(sig[c].args[j])
          PROVE Converted(sig[c], j) \subseteq ours'[c] \cup theirs[c]
        <3>1. Converted(sig[c], j) \subseteq ours[c] \cup theirs[c]
            BY <2>1, <1>1, <1>2 DEF ArgsKeptBy
        <3>2. Converted(sig[c], j) \cap taken = {}
            BY <1>6 DEF Converted
        <3> QED BY <3>1, <3>2, <1>8
    <2> QED BY <2>1, <1>2 DEF ArgsKeptBy, Converted
<1>10. block'[c] = NULL <=> NArgs(sig'[c]) = 0
    BY <1>2 DEF IInv, BlockWhileCalling
<1>11. \A d \in Call : d # c => at'[d] = at[d]
    BY <1>1, <1>2 DEF CallTyped
<1> QED BY <1>2, <1>7, <1>8, <1>9, <1>10, <1>11, InsideCall

LEMMA ClearKeeps ==
    ASSUME IInv, NEW c \in Call, Clear(c)
    PROVE IInv'
<1>1. CallTyped
    BY DEF IInv, TypeOK, CallTyped
<1>2. /\ FreeBlock(NArgs(sig[c]), block[c]) /\ block' = [block EXCEPT ![c] = NULL]
      /\ pc' = [pc EXCEPT ![c] = "done"] /\ sig' = sig /\ at' = at /\ outcome' = outcome
      /\ ours' = ours /\ theirs' = theirs /\ result' = result
    BY DEF Clear, mvars
<1>3. /\ slot' \in [0 .. NMax - 1 -> Block \cup {NULL}]
      /\ size' \in [Block -> Int]
      /\ BlockFits' /\ OneHolder'
    BY <1>2, FreeBlockKeeps
<1>4. CallTyped'
    BY <1>1, <1>2 DEF CallTyped
<1>5. /\ pc'[c] = "done" /\ block'[c] = NULL
      /\ \A d \in Call : d # c => pc'[d] = pc[d] /\ block'[d] = block[d]
    BY <1>1, <1>2 DEF CallTyped
<1>6. BlockWhileCalling'
    BY <1>2, <1>5, OthersBlocks DEF IInv
<1>7. ArgsKeptBy(c)'
    BY <1>5 DEF ArgsKeptBy
<1>8. ArgsKept'
    BY <1>2, <1>5, <1>7, OthersKeep DEF IInv
<1>9. FromFirst'
    BY <1>2, <1>5 DEF IInv, FromFirst
<1> QED BY <1>3, <1>4, <1>6, <1>8, <1>9 DEF IInv, TypeOK, CallTyped

LEMMA FinishKeeps ==
    ASSUME IInv, NEW c \in Call, Finish(c)
    PROVE IInv'
<1>1. CallTyped /\ block[c] = NULL
    BY DEF IInv, TypeOK, CallTyped, BlockWhileCalling, Finish
<1>2. /\ pc' = [pc EXCEPT ![c] = "idle"] /\ sig' = [sig EXCEPT ![c] = NoSignature]
      /\ at' = [at EXCEPT ![c] = 0] /\ ours' = [ours EXCEPT ![c] = {}]
      /\ theirs' = [theirs EXCEPT ![c] = {}] /\ result' = [result EXCEPT ![c] = {}]
      /\ outcome' = [outcome EXCEPT ![c] = ""]
      /\ slot' = slot /\ size' = size /\ block' = block
    BY DEF Finish, bvars
<1>3. CallTyped'
    <2>1. 0 \in 0 .. Width + 1
        BY WidthLargest
    <2>2. at' \in [Call -> 0 .. Width + 1]
        BY <2>1, <1>1, <1>2 DEF CallTyped
    <2> QED BY <2>2, <1>1, <1>2, SignatureTyped DEF CallTyped, Outcome
<1>4. pc'[c] = "idle"
    BY <1>1, <1>2 DEF CallTyped
<1>5. ArgsKeptBy(c)'
    BY <1>4 DEF ArgsKeptBy
<1>6. \A d \in Call : d # c => /\ pc'[d] = pc[d] /\ sig'[d] = sig[d] /\ at'[d] = at[d]
                                /\ ours'[d] = ours[d] /\ theirs'[d] = theirs[d]
    BY <1>1, <1>2 DEF CallTyped
<1>7. \A d \in Call : block[d] # NULL => sig'[d] = sig[d]
    BY <1>1, <1>6
<1> QED BY <1>1, <1>2, <1>3, <1>4, <1>5, <1>6, <1>7, InsideCall

LEMMA InitHolds ==
    ASSUME Init
    PROVE IInv
<1>1. NMax \in Nat /\ NULL \notin Block
    BY InvokeAssumption
<1>2. TypeOK
    <2>1. at \in [Call -> 0 .. Width + 1]
        <3>1. 0 \in 0 .. Width + 1
            BY WidthLargest
        <3> QED BY <3>1 DEF Init
    <2>2. size \in [Block -> Int] /\ slot \in [0 .. NMax - 1 -> Block \cup {NULL}]
        <3>1. -1 \in Int
            OBVIOUS
        <3>2. size \in [Block -> Int]
            BY <3>1 DEF Init
        <3> QED BY <3>2 DEF Init
    <2>3. sig \in [Call -> Signature] /\ block \in [Call -> Block \cup {NULL}]
        BY SignatureTyped DEF Init
    <2> QED BY <2>1, <2>2, <2>3 DEF TypeOK, Init, Outcome
<1>3. BlockFits /\ BlockWhileCalling /\ FromFirst
    BY DEF Init, BlockFits, BlockWhileCalling, FromFirst
<1>4. OneHolder
    BY DEF Init, OneHolder
<1>5. ArgsKept
    BY DEF Init, ArgsKept, ArgsKeptBy
<1> QED BY <1>2, <1>3, <1>4, <1>5 DEF IInv

LEMMA NextKeeps ==
    ASSUME IInv, [Next]_vars
    PROVE IInv'
<1>1. CASE UNCHANGED vars
    BY <1>1 DEF vars, bvars, mvars, IInv, TypeOK, BlockFits, BlockWhileCalling, OneHolder,
       Users, Slots, FromFirst, ArgsKept, ArgsKeptBy
<1>2. ASSUME NEW c \in Call, NEW s \in Signature, EnterFails(c, s)
      PROVE IInv'
    BY <1>2, EnterFailsKeeps
<1>3. ASSUME NEW c \in Call, NEW s \in Signature, NEW b \in Block \cup {NULL}, Enter(c, s, b)
      PROVE IInv'
    BY <1>3, EnterKeeps
<1>4. ASSUME NEW c \in Call, MarshalIn(c) PROVE IInv'
    BY <1>4, MarshalInKeeps
<1>5. ASSUME NEW c \in Call, NEW f \in 0 .. MaxItems + 1, MarshalInFails(c, f) PROVE IInv'
    BY <1>5, MarshalInFailsKeeps
<1>6. ASSUME NEW c \in Call, StartCall(c) PROVE IInv'
    BY <1>6, StartCallKeeps
<1>7. ASSUME NEW c \in Call, CallReturns(c) PROVE IInv'
    BY <1>7, CallReturnsKeeps
<1>8. ASSUME NEW c \in Call, CallThrows(c) PROVE IInv'
    BY <1>8, CallThrowsKeeps
<1>9. ASSUME NEW c \in Call, MarshalOut(c) PROVE IInv'
    BY <1>9, MarshalOutKeeps
<1>10. ASSUME NEW c \in Call, NEW f \in 0 .. MaxItems + 1, MarshalOutFails(c, f) PROVE IInv'
    BY <1>10, MarshalOutFailsKeeps
<1>11. ASSUME NEW c \in Call, OutDone(c) PROVE IInv'
    BY <1>11, OutDoneKeeps
<1>12. ASSUME NEW c \in Call, CleanFrom(c) PROVE IInv'
    BY <1>12, CleanFromKeeps
<1>13. ASSUME NEW c \in Call, CleanTo(c) PROVE IInv'
    BY <1>13, CleanToKeeps
<1>14. ASSUME NEW c \in Call, Clear(c) PROVE IInv'
    BY <1>14, ClearKeeps
<1>15. ASSUME NEW c \in Call, Finish(c) PROVE IInv'
    BY <1>15, FinishKeeps
<1> QED
    BY <1>1, <1>2, <1>3, <1>4, <1>5, <1>6, <1>7, <1>8, <1>9, <1>10, <1>11, <1>12, <1>13,
       <1>14, <1>15 DEF Next

\* Calls, however they nest and interleave, keep the strengthened invariant.
THEOREM Invariance == Spec => []IInv
<1>1. Init => IInv
    BY InitHolds
<1>2. IInv /\ [Next]_vars => IInv'
    BY NextKeeps
<1> QED BY <1>1, <1>2, PTL DEF Spec

\* No argument block is used by two calls, or by a call and the cache, and each
\* has room for the arguments of its call (_pygi_invoke_arg_state_init,
\* _pygi_invoke_arg_state_free).
THEOREM SharesBlocks == Spec => []BlocksOwned
<1>1. IInv => BlocksOwned
    BY HolderCounted DEF IInv, BlocksOwned
<1> QED BY <1>1, Invariance, PTL

\* When a result is converted, the argument it points into has not been cleaned
\* up (pygi_invoke_c_callable cleans up after _invoke_marshal_out_args).
THEOREM ReadsInTime == Spec => []ReadBeforeFree
<1>1. ASSUME IInv PROVE ReadBeforeFree
    <2> SUFFICES ASSUME NEW c \in Call, pc[c] = "out", at[c] <= Len(sig[c].args),
                        Result(c).of # 0
                 PROVE <<Result(c).of, "in", 0>> \in ours[c] \cup theirs[c]
        BY DEF ReadBeforeFree
    <2> DEFINE s == sig[c]
               i == Result(c).of
    <2>1. CallTyped /\ ArgsKeptBy(c) /\ s \in Signature
        BY <1>1 DEF IInv, TypeOK, CallTyped, ArgsKept
    <2>2. Result(c) \in {s.ret} \cup {s.args[j] : j \in DOMAIN s.args}
        <3>1. at[c] \in 0 .. Width /\ (at[c] > 0 => at[c] \in DOMAIN s.args)
            BY <2>1, AtTyped
        <3>2. at[c] = 0 \/ at[c] \in DOMAIN s.args
            <4>1. Width \in Nat
                BY WidthLargest
            <4>2. at[c] = 0 \/ at[c] > 0
                BY <3>1, <4>1
            <4> QED BY <3>1, <4>2
        <3> QED BY <3>2 DEF Result, Arg
    <2>3. /\ i \in DOMAIN s.args /\ IsIn(s.args[i])
          /\ 0 \in FromPy(s.args[i], Whole).had
        BY <2>1, <2>2, SignatureAssumption
    <2>4. Converted(s, i) \subseteq ours[c] \cup theirs[c]
        BY <2>1, <2>3 DEF ArgsKeptBy
    <2>5. <<i, "in", 0>> \in Converted(s, i)
        BY <2>3 DEF Converted, Of
    <2> QED BY <2>4, <2>5
<1> QED BY <1>1, Invariance, PTL

(***************************************************************************)
(* What the cells of one argument tell.                                    *)
(***************************************************************************)

\* No two cells release the same; together they release no more than some
\* chunks; and no less.
Separate(cells, success) ==
    \A x, y \in cells : x # y => Effect(x, success) \cap Effect(y, success) = {}
Within(cells, success, chunks) == \A x \in cells : Effect(x, success) \subseteq chunks
Covers(cells, success, chunks) ==
    \A k \in chunks : \E x \in cells : k \in Effect(x, success)

\* The copy of something that may be given away.
LEMMA KeptCell ==
    ASSUME NEW i, NEW t
    PROVE /\ KeptUnlessGiven(i, t).failed = {i}
          /\ KeptUnlessGiven(i, t).destroy = When(t = "nothing", {i})
BY DEF KeptUnlessGiven, Cell

\* The cells of the items that were reached.
LEMMA ItemCellsTell ==
    ASSUME NEW a \in Parameter, NEW f \in Int
    PROVE /\ \A t \in BOOLEAN : Separate(ItemCells(a, f), t)
          /\ Within(ItemCells(a, f), FALSE, Reached(a, f))
          /\ Covers(ItemCells(a, f), FALSE, Reached(a, f))
          /\ Within(ItemCells(a, f), TRUE, When(ItemTransfer(a) = "nothing", Reached(a, f)))
          /\ Covers(ItemCells(a, f), TRUE, When(ItemTransfer(a) = "nothing", Reached(a, f)))
          /\ 0 \notin Reached(a, f)
<1>1. a.n \in Nat
    BY DEF Parameter, MaxItems
<1>2. 0 \notin Reached(a, f)
    BY <1>1 DEF Reached, Items
<1> DEFINE t == ItemTransfer(a)
<1>3. ASSUME NEW x \in ItemCells(a, f)
      PROVE \E i \in Reached(a, f) : x.failed = {i} /\ x.destroy = When(t = "nothing", {i})
                                     /\ x = KeptUnlessGiven(i, t)
    <2>1. PICK i \in Reached(a, f) : x = KeptUnlessGiven(i, t)
        BY DEF ItemCells
    <2> QED BY <2>1, KeptCell
<1>4. ASSUME NEW i \in Reached(a, f)
      PROVE \E x \in ItemCells(a, f) : x.failed = {i} /\ x.destroy = When(t = "nothing", {i})
    <2>1. KeptUnlessGiven(i, t) \in ItemCells(a, f)
        BY DEF ItemCells
    <2> QED BY <2>1, KeptCell
<1> HIDE DEF t
<1>5. ASSUME NEW s \in BOOLEAN, NEW x \in ItemCells(a, f), NEW y \in ItemCells(a, f), x # y
      PROVE Effect(x, s) \cap Effect(y, s) = {}
    <2>1. PICK i \in Reached(a, f) : x.failed = {i} /\ x.destroy = When(t = "nothing", {i})
                                     /\ x = KeptUnlessGiven(i, t)
        BY <1>3
    <2>2. PICK j \in Reached(a, f) : y.failed = {j} /\ y.destroy = When(t = "nothing", {j})
                                     /\ y = KeptUnlessGiven(j, t)
        BY <1>3
    <2>3. i # j
        BY <2>1, <2>2, <1>5
    <2> QED BY <2>1, <2>2, <2>3 DEF Effect, When
<1>6. \A s \in BOOLEAN : Separate(ItemCells(a, f), s)
    BY <1>5 DEF Separate
<1>7. /\ Within(ItemCells(a, f), FALSE, Reached(a, f))
      /\ Within(ItemCells(a, f), TRUE, When(t = "nothing", Reached(a, f)))
    BY <1>3 DEF Within, Effect, When
<1>8. /\ Covers(ItemCells(a, f), FALSE, Reached(a, f))
      /\ Covers(ItemCells(a, f), TRUE, When(t = "nothing", Reached(a, f)))
    BY <1>4 DEF Covers, Effect, When
<1> QED BY <1>2, <1>6, <1>7, <1>8 DEF t

\* A cell more, for other chunks.
LEMMA OneMore ==
    ASSUME NEW cells, NEW z, NEW s, NEW A, NEW B,
           Separate(cells, s), Within(cells, s, A), Covers(cells, s, A),
           Effect(z, s) = B, A \cap B = {}
    PROVE /\ Separate(cells \cup {z}, s)
          /\ Within(cells \cup {z}, s, A \cup B)
          /\ Covers(cells \cup {z}, s, A \cup B)
<1>1. \A x \in cells : Effect(x, s) \cap Effect(z, s) = {}
    BY DEF Within
<1>2. Separate(cells \cup {z}, s)
    BY <1>1 DEF Separate
<1>3. Within(cells \cup {z}, s, A \cup B) /\ Covers(cells \cup {z}, s, A \cup B)
    BY DEF Within, Covers
<1> QED BY <1>2, <1>3

\* One cell, or none.
LEMMA OneCell ==
    ASSUME NEW z, NEW s
    PROVE /\ Separate({z}, s) /\ Within({z}, s, Effect(z, s)) /\ Covers({z}, s, Effect(z, s))
          /\ Separate({}, s) /\ Within({}, s, {}) /\ Covers({}, s, {})
BY DEF Separate, Within, Covers

\* An argument that was converted: its cells release what the callee was not
\* given, or all of it if there was no call.
LEMMA WholeArg ==
    ASSUME NEW a \in Parameter, Annotated(a), IsIn(a)
    PROVE LET m == FromPy(a, Whole)
          IN /\ m.gone = {}
             /\ Separate(m.cells, TRUE) /\ Separate(m.cells, FALSE)
             /\ Within(m.cells, TRUE, m.had \ Given(a))
             /\ Covers(m.cells, TRUE, m.had \ Given(a))
             /\ Within(m.cells, FALSE, m.had \cup ReleasedIfGivenUp(a))
             /\ a.kind \notin {"boxed", "struct"} => Covers(m.cells, FALSE, m.had)
             /\ a.kind \in {"boxed", "struct"} => m.had \subseteq {0}
<1> DEFINE m == FromPy(a, Whole)
<1>1. a.kind \in Kind /\ a.transfer \in Transfer /\ a.n \in Nat
    BY DEF Parameter, MaxItems
<1>2. Whole \in Int /\ Reached(a, Whole) = Items(a) /\ 0 \notin Items(a)
    BY <1>1 DEF Whole, Reached, Items
<1>3. a.transfer = "container" => a.kind \in Container
    BY DEF Annotated
<1>4. CASE a.kind \in {"string", "gvalue", "closure", "class"}
    <2>1. m = Copy(a)
        BY <1>4 DEF FromPy, StringFromPy, GValueFromPy, ClosureFromPy, ClassFromPy
    <2> DEFINE z == KeptUnlessGiven(0, a.transfer)
    <2>2. m.had = {0} /\ m.gone = {} /\ m.cells = {z}
        BY <2>1 DEF Copy, Made
    <2>3. Given(a) = IF a.transfer = "nothing" THEN {} ELSE {0}
        BY <2>2, <1>1, <1>3, <1>4 DEF Given, Transfer, Container, Sequence
    <2>4. Effect(z, FALSE) = {0} /\ Effect(z, TRUE) = {0} \ Given(a)
        <3>1. z.failed = {0} /\ z.destroy = When(a.transfer = "nothing", {0})
            BY KeptCell
        <3> QED BY <3>1, <2>3 DEF Effect, When
    <2> HIDE DEF z
    <2> QED BY <2>2, <2>4, <1>4, OneCell DEF Within
<1>5. CASE a.kind \in Sequence
    <2> DEFINE z == KeptUnlessGiven(0, a.transfer)
               I == Reached(a, Whole)
               t == ItemTransfer(a)
    <2>1. m.had = {0} \cup I /\ m.gone = {} /\ m.cells = ItemCells(a, Whole) \cup {z}
        <3>1. CASE a.kind = "list"
            BY <3>1, <1>2 DEF FromPy, ListFromPy, Made, Chunks, Whole
        <3>2. CASE a.kind \in {"array", "carray"}
            BY <3>2, <1>2 DEF FromPy, ArrayFromPy, ArrayCells, Made, Chunks, Whole
        <3> QED BY <3>1, <3>2, <1>5 DEF Sequence
    <2>2. t = IF a.transfer = "container" THEN "nothing" ELSE a.transfer
        BY <1>5 DEF ItemTransfer, Sequence
    <2>3. Given(a) = CASE a.transfer = "everything" -> {0} \cup I
                       [] a.transfer = "container" -> {0}
                       [] OTHER -> {}
        BY <2>1, <1>5 DEF Given, Sequence
    <2>4. Effect(z, FALSE) = {0} /\ Effect(z, TRUE) = When(a.transfer = "nothing", {0})
        BY KeptCell DEF Effect
    <2>5. m.had \ Given(a) = When(t = "nothing", I) \cup When(a.transfer = "nothing", {0})
        BY <2>1, <2>2, <2>3, <1>1, <1>2 DEF When, Transfer
    <2>6. 0 \notin I
        BY <1>2
    <2> HIDE DEF z, I, t
    <2>7. When(t = "nothing", I) \cap When(a.transfer = "nothing", {0}) = {} /\ I \cap {0} = {}
        BY <2>6 DEF When
    <2>8. /\ Separate(m.cells, TRUE)
          /\ Within(m.cells, TRUE, m.had \ Given(a)) /\ Covers(m.cells, TRUE, m.had \ Given(a))
        <3>1. /\ Separate(ItemCells(a, Whole), TRUE)
              /\ Within(ItemCells(a, Whole), TRUE, When(t = "nothing", I))
              /\ Covers(ItemCells(a, Whole), TRUE, When(t = "nothing", I))
            BY <1>2, ItemCellsTell DEF t, I
        <3> DEFINE A == When(t = "nothing", I)
                   B == Effect(z, TRUE)
        <3>2. A \cap B = {} /\ m.had \ Given(a) = A \cup B
            BY <2>4, <2>5, <2>7
        <3> HIDE DEF A, B
        <3>3. LET N == ItemCells(a, Whole) \cup {z}
              IN Separate(N, TRUE) /\ Within(N, TRUE, A \cup B) /\ Covers(N, TRUE, A \cup B)
            <4>1. Within(ItemCells(a, Whole), TRUE, A) /\ Covers(ItemCells(a, Whole), TRUE, A)
                BY <3>1 DEF A
            <4>2. Effect(z, TRUE) = B
                BY DEF B
            <4> QED BY <4>1, <4>2, <3>1, <3>2, OneMore
        <3> QED BY <3>2, <3>3, <2>1
    <2>9. /\ Separate(m.cells, FALSE)
          /\ Within(m.cells, FALSE, m.had) /\ Covers(m.cells, FALSE, m.had)
        <3>1. /\ Separate(ItemCells(a, Whole), FALSE)
              /\ Within(ItemCells(a, Whole), FALSE, I)
              /\ Covers(ItemCells(a, Whole), FALSE, I)
            BY <1>2, ItemCellsTell DEF I
        <3> DEFINE B == Effect(z, FALSE)
        <3>4. I \cap B = {} /\ B = {0}
            BY <2>4, <2>7
        <3>2. LET N == ItemCells(a, Whole) \cup {z}
              IN Separate(N, FALSE) /\ Within(N, FALSE, I \cup B)
                 /\ Covers(N, FALSE, I \cup B)
            BY <3>1, <3>4, OneMore
        <3>3. m.had = I \cup B
            BY <2>1, <3>4
        <3> QED BY <3>2, <3>3, <2>1
    <2> QED BY <2>1, <2>8, <2>9, <1>5 DEF Within, Sequence
<1>6. CASE a.kind = "hash"
    <2> DEFINE z == Cell(When(a.transfer = "nothing", Chunks(a)), {0})
               I == Reached(a, Whole)
    <2>1. m.had = {0} \cup I /\ m.gone = {} /\ m.cells = ItemCells(a, Whole) \cup {z}
        BY <1>6, <1>2 DEF FromPy, HashFromPy, Made, Chunks, Whole
    <2>2. ItemTransfer(a) = "everything"
        BY <1>6 DEF ItemTransfer
    <2>3. Given(a) = IF a.transfer = "nothing" THEN {} ELSE {0} \cup I
        BY <2>1, <1>1, <1>2, <1>6 DEF Given, Chunks, Transfer
    <2>4. Effect(z, FALSE) = {0} /\ Effect(z, TRUE) = When(a.transfer = "nothing", {0} \cup I)
        BY <1>2 DEF Effect, Cell, Chunks
    <2>5. m.had \ Given(a) = When(a.transfer = "nothing", {0} \cup I)
        BY <2>1, <2>3 DEF When
    <2>6. 0 \notin I
        BY <1>2
    <2> HIDE DEF z, I
    <2>7. /\ Separate(m.cells, TRUE)
          /\ Within(m.cells, TRUE, m.had \ Given(a)) /\ Covers(m.cells, TRUE, m.had \ Given(a))
        <3>1. /\ Separate(ItemCells(a, Whole), TRUE)
              /\ Within(ItemCells(a, Whole), TRUE, {})
              /\ Covers(ItemCells(a, Whole), TRUE, {})
            BY <1>2, <2>2, ItemCellsTell DEF When
        <3>2. LET N == ItemCells(a, Whole) \cup {z}
                  X == {} \cup Effect(z, TRUE)
              IN Separate(N, TRUE) /\ Within(N, TRUE, X) /\ Covers(N, TRUE, X)
            BY <3>1, OneMore
        <3>3. m.had \ Given(a) = {} \cup Effect(z, TRUE)
            BY <2>4, <2>5
        <3> QED BY <3>2, <3>3, <2>1
    <2>8. /\ Separate(m.cells, FALSE)
          /\ Within(m.cells, FALSE, m.had) /\ Covers(m.cells, FALSE, m.had)
        <3>1. /\ Separate(ItemCells(a, Whole), FALSE)
              /\ Within(ItemCells(a, Whole), FALSE, I)
              /\ Covers(ItemCells(a, Whole), FALSE, I)
            BY <1>2, ItemCellsTell DEF I
        <3> DEFINE B == Effect(z, FALSE)
        <3>4. I \cap B = {} /\ B = {0}
            BY <2>4, <2>6
        <3>2. LET N == ItemCells(a, Whole) \cup {z}
              IN Separate(N, FALSE) /\ Within(N, FALSE, I \cup B)
                 /\ Covers(N, FALSE, I \cup B)
            BY <3>1, <3>4, OneMore
        <3>3. m.had = I \cup B
            BY <2>1, <3>4
        <3> QED BY <3>2, <3>3, <2>1
    <2> QED BY <2>1, <2>7, <2>8, <1>6 DEF Within
<1>7. CASE a.kind \in {"object", "foreign"}
    <2> DEFINE z == Cell({}, {0})
    <2>1. /\ m.had = When(a.transfer = "everything", {0}) /\ m.gone = {}
          /\ a.kind = "foreign" => m.cells = {z}
          /\ a.kind = "object" => m.cells = When(a.transfer = "everything", {z})
        BY <1>7 DEF FromPy, ObjectFromPy, ForeignFromPy, Referenced, Made
    <2>2. m.had \ Given(a) = {}
        BY <2>1 DEF Given, When
    <2>3. Effect(z, TRUE) = {} /\ Effect(z, FALSE) = {0}
        BY DEF Effect, Cell
    <2>4. /\ a.kind = "foreign" => m.had \cup ReleasedIfGivenUp(a) = {0}
          /\ a.kind = "object" => m.had \subseteq m.had \cup ReleasedIfGivenUp(a)
        BY <2>1 DEF ReleasedIfGivenUp, When
    <2> HIDE DEF z
    <2>5. CASE a.kind = "foreign"
        <3>1. m.cells = {z}
            BY <2>5, <2>1
        <3>2. Covers(m.cells, FALSE, m.had)
            BY <3>1, <2>1, <2>3 DEF Covers, When
        <3>3. Separate({z}, TRUE) /\ Separate({z}, FALSE)
              /\ Within({z}, TRUE, {}) /\ Within({z}, FALSE, {0}) /\ Covers({z}, TRUE, {})
            BY <2>3, OneCell
        <3> QED BY <3>1, <3>2, <3>3, <2>1, <2>2, <2>4, <2>5
    <2>6. CASE a.kind = "object" /\ a.transfer = "everything"
        <3>1. m.cells = {z} /\ m.had = {0}
            BY <2>6, <2>1 DEF When
        <3> QED BY <3>1, <2>1, <2>2, <2>3, <2>4, <2>6, OneCell DEF Within
    <2>7. CASE a.kind = "object" /\ a.transfer # "everything"
        <3>1. m.cells = {} /\ m.had = {}
            BY <2>7, <2>1 DEF When
        <3> QED BY <3>1, <2>1, <2>2, <2>7, OneCell DEF Within
    <2> QED BY <2>5, <2>6, <2>7, <1>7
<1>8. CASE a.kind \in {"boxed", "struct"}
    <2>1. m.had = When(a.transfer = "everything", {0}) /\ m.gone = {} /\ m.cells = {}
        BY <1>8 DEF FromPy, StructFromPy, Made
    <2>2. m.had \ Given(a) = {} /\ m.had \subseteq {0}
        BY <2>1 DEF Given, When
    <2> QED BY <2>1, <2>2, <1>8, OneCell DEF Within
<1>9. CASE a.kind = "plain"
    <2>1. m.had = {} /\ m.gone = {} /\ m.cells = {}
        BY <1>9 DEF FromPy, Untouched, Made
    <2> QED BY <2>1, <1>9, OneCell DEF Within
<1> QED BY <1>1, <1>4, <1>5, <1>6, <1>7, <1>8, <1>9 DEF Kind, Sequence

\* An argument that could not be converted: its cells release what it left, and
\* the strings of a hash table.
LEMMA FailedArg ==
    ASSUME NEW a \in Parameter, NEW f \in a.bad
    PROVE LET m == FromPy(a, f)
          IN /\ Separate(m.cells, FALSE)
             /\ Within(m.cells, FALSE, (m.had \ m.gone) \cup When(a.kind = "hash", Items(a)))
             /\ Covers(m.cells, FALSE, m.had \ m.gone)
<1> DEFINE m == FromPy(a, f)
<1>1. a.kind \in Kind /\ a.n \in Nat /\ f \in Int /\ f # Whole
    BY DEF Parameter, MaxItems, Whole
<1>2. CASE m.had = {} /\ m.cells = {}
    BY <1>2, OneCell DEF Within, Covers, Separate
<1>3. CASE a.kind = "list" /\ f # 0
    <2>1. m.had = {0} \cup Reached(a, f) /\ m.gone = {0} /\ m.cells = ItemCells(a, f)
        BY <1>1, <1>3 DEF FromPy, ListFromPy, Made
    <2>2. 0 \notin Reached(a, f) /\ Separate(ItemCells(a, f), FALSE)
          /\ Within(ItemCells(a, f), FALSE, Reached(a, f))
          /\ Covers(ItemCells(a, f), FALSE, Reached(a, f))
        BY <1>1, ItemCellsTell
    <2>3. m.had \ m.gone = Reached(a, f)
        BY <2>1, <2>2
    <2> QED BY <2>1, <2>2, <2>3 DEF Within
<1>4. CASE a.kind \in {"array", "carray"} /\ f # 0
    <2>1. m.had = {0} \cup Reached(a, f) /\ m.gone = m.had /\ m.cells = {}
        BY <1>1, <1>4 DEF FromPy, ArrayFromPy, ArrayReleased, Made
    <2> QED BY <2>1, OneCell DEF Within, Covers, Separate
<1>5. CASE a.kind = "hash" /\ f # 0
    <2>1. /\ m.had = {0} \cup Reached(a, f) /\ {0} \subseteq m.gone
          /\ m.cells = ItemCells(a, f)
        BY <1>1, <1>5 DEF FromPy, HashFromPy, Made
    <2>2. Separate(ItemCells(a, f), FALSE)
          /\ Within(ItemCells(a, f), FALSE, Reached(a, f))
          /\ Covers(ItemCells(a, f), FALSE, Reached(a, f))
        BY <1>1, ItemCellsTell
    <2>3. m.had \ m.gone \subseteq Reached(a, f) /\ Reached(a, f) \subseteq Items(a)
        BY <2>1 DEF Reached
    <2> QED BY <2>1, <2>2, <2>3, <1>5 DEF Within, Covers, When
<1>6. (m.had = {} /\ m.cells = {}) \/ (a.kind \in Container /\ f # 0)
    <2>1. CASE a.kind \in {"string", "gvalue", "closure", "class", "plain"}
        BY <2>1, <1>1 DEF FromPy, StringFromPy, GValueFromPy, ClosureFromPy, ClassFromPy,
           Untouched, Made
    <2>2. CASE a.kind \in {"object", "boxed", "struct", "foreign"}
        BY <2>2, <1>1 DEF FromPy, ObjectFromPy, StructFromPy, ForeignFromPy, Untouched, Made
    <2>3. CASE a.kind = "list" /\ f = 0
        BY <2>3, <1>1 DEF FromPy, ListFromPy, Untouched, Made, Whole
    <2>4. CASE a.kind \in {"array", "carray"} /\ f = 0
        BY <2>4, <1>1 DEF FromPy, ArrayFromPy, Untouched, Made, Whole
    <2>5. CASE a.kind = "hash" /\ f = 0
        BY <2>5, <1>1 DEF FromPy, HashFromPy, Untouched, Made, Whole
    <2> QED BY <1>1, <2>1, <2>2, <2>3, <2>4, <2>5 DEF Kind, Container, Sequence
<1> QED BY <1>2, <1>3, <1>4, <1>5, <1>6 DEF Container, Sequence

\* What the cells of the items of a result release.
LEMMA ItemCellsToTell ==
    ASSUME NEW a, NEW s \in BOOLEAN
    PROVE /\ Separate(ItemCellsTo(a), s)
          /\ Within(ItemCellsTo(a), s, IfAll(a, Items(a)))
          /\ Covers(ItemCellsTo(a), s, IfAll(a, Items(a)))
<1>1. ASSUME NEW x \in ItemCellsTo(a)
      PROVE \E i \in Items(a) : x = Cell(IfAll(a, {i}), IfAll(a, {i}))
                                /\ Effect(x, s) = IfAll(a, {i})
    BY DEF ItemCellsTo, Cell, Effect
<1>2. ASSUME NEW i \in Items(a)
      PROVE \E x \in ItemCellsTo(a) : Effect(x, s) = IfAll(a, {i})
    <2>1. Cell(IfAll(a, {i}), IfAll(a, {i})) \in ItemCellsTo(a)
        BY DEF ItemCellsTo
    <2>2. Effect(Cell(IfAll(a, {i}), IfAll(a, {i})), s) = IfAll(a, {i})
        BY DEF Effect, Cell
    <2> QED BY <2>1, <2>2
<1>3. ASSUME NEW x \in ItemCellsTo(a), NEW y \in ItemCellsTo(a), x # y
      PROVE Effect(x, s) \cap Effect(y, s) = {}
    <2>1. PICK i \in Items(a) : x = Cell(IfAll(a, {i}), IfAll(a, {i}))
                                /\ Effect(x, s) = IfAll(a, {i})
        BY <1>1
    <2>2. PICK j \in Items(a) : y = Cell(IfAll(a, {j}), IfAll(a, {j}))
                                /\ Effect(y, s) = IfAll(a, {j})
        BY <1>1
    <2>3. i # j
        BY <2>1, <2>2, <1>3
    <2> QED BY <2>1, <2>2, <2>3 DEF IfAll, When
<1>4. Separate(ItemCellsTo(a), s)
    BY <1>3 DEF Separate
<1>5. Within(ItemCellsTo(a), s, IfAll(a, Items(a)))
    BY <1>1 DEF Within, IfAll, When
<1>6. Covers(ItemCellsTo(a), s, IfAll(a, Items(a)))
    BY <1>2 DEF Covers, IfAll, When
<1> QED BY <1>4, <1>5, <1>6

\* A result that was converted: its cells release what its Python value does
\* not answer for, and what it does only where that is named.
LEMMA WholeResult ==
    ASSUME NEW a \in Parameter, Annotated(a)
    PROVE LET s == ToPy(a, Whole)
              told == Got(a) \ (s.taken \cup NeverReleased(a) \cup ReleasedAsAllocated(a))
          IN /\ s.gone = {}
             /\ Separate(s.cells, TRUE) /\ Separate(s.cells, FALSE)
             /\ Within(s.cells, TRUE, Got(a))
             /\ Covers(s.cells, TRUE, told)
             /\ Within(s.cells, FALSE, (Got(a) \ s.taken) \cup ReleasedIfDropped(a))
             /\ Covers(s.cells, FALSE, told)
             /\ s.cells # {} => ReleasedAsAllocated(a) = {}
             /\ ReleasedAsAllocated(a) \subseteq Got(a) \ s.taken
<1> DEFINE s == ToPy(a, Whole)
           told == Got(a) \ (s.taken \cup NeverReleased(a) \cup ReleasedAsAllocated(a))
<1>1. a.kind \in Kind /\ a.transfer \in Transfer /\ a.n \in Nat /\ a.alloc \in BOOLEAN
    BY DEF Parameter, MaxItems
<1>2. 0 \notin Items(a) /\ Chunks(a) = {0} \cup Items(a)
      /\ (a.kind \notin Container => Items(a) = {})
    BY <1>1 DEF Items, Chunks
<1>3. /\ a.transfer = "container" => a.kind \in Container
      /\ a.alloc => a.kind \in {"boxed", "struct", "gvalue", "foreign", "array", "carray"}
    BY DEF Annotated
<1>4. CASE a.kind = "plain"
    <2>1. s.taken = {} /\ s.gone = {} /\ s.cells = {}
        BY <1>4 DEF ToPy, Shown
    <2>2. Got(a) = {} /\ ReleasedAsAllocated(a) = {}
        BY <1>3, <1>4 DEF Got, Received, CallerAlloc, ReleasedAsAllocated, When
    <2> QED BY <2>1, <2>2 DEF Within, Covers, Separate
<1>5. CASE a.kind = "string"
    <2> DEFINE z == Cell(IfAll(a, {0}), IfAll(a, {0}))
    <2>1. s.taken = {} /\ s.gone = {} /\ s.cells = {z}
        BY <1>5 DEF ToPy, StringToPy, Shown
    <2>2. Got(a) = IfAll(a, {0}) /\ ReleasedAsAllocated(a) = {}
        BY <1>1, <1>2, <1>3, <1>5 DEF Got, Received, CallerAlloc, ReleasedAsAllocated, When,
           IfAll, Transfer, Container, Sequence
    <2>3. Effect(z, TRUE) = Got(a) /\ Effect(z, FALSE) = Got(a)
        BY <2>2 DEF Effect, Cell
    <2> HIDE DEF z
    <2> QED BY <2>1, <2>2, <2>3 DEF Within, Covers, Separate
<1>6. CASE a.kind \in Sequence
    <2> DEFINE z == Cell(IfAny(a, {0}), {0})
    <2>1. s.taken = {} /\ s.gone = {} /\ s.cells = ItemCellsTo(a) \cup {z}
        <3>1. CASE a.kind = "list"
            BY <3>1 DEF ToPy, ListToPy, Shown
        <3>2. CASE a.kind \in {"array", "carray"}
            BY <3>2 DEF ToPy, ArrayToPy, Shown
        <3> QED BY <3>1, <3>2, <1>6 DEF Sequence
    <2>2. /\ Got(a) = When(a.alloc \/ a.transfer # "nothing", {0}) \cup IfAll(a, Items(a))
          /\ ReleasedAsAllocated(a) = {}
        <3>1. CASE a.transfer = "everything"
            BY <3>1, <1>2, <1>6 DEF Got, Received, CallerAlloc, ReleasedAsAllocated, When,
               IfAll, Sequence
        <3>2. CASE a.transfer = "container"
            BY <3>2, <1>2, <1>6 DEF Got, Received, CallerAlloc, ReleasedAsAllocated, When,
               IfAll, Sequence
        <3>3. CASE a.transfer = "nothing"
            BY <3>3, <1>2, <1>6 DEF Got, Received, CallerAlloc, ReleasedAsAllocated, When,
               IfAll, Sequence
        <3> QED BY <3>1, <3>2, <3>3, <1>1 DEF Transfer
    <2>3. Effect(z, FALSE) = {0} /\ Effect(z, TRUE) = IfAny(a, {0})
        BY DEF Effect, Cell
    <2>4. a.alloc => a.kind \in {"array", "carray"}
        BY <1>3, <1>6 DEF Sequence
    <2> HIDE DEF z
    <2> DEFINE N == ItemCellsTo(a) \cup {z}
               A == IfAll(a, Items(a))
    <2>5. ASSUME NEW t \in BOOLEAN
          PROVE /\ Separate(N, t)
                /\ Within(N, t, A \cup Effect(z, t)) /\ Covers(N, t, A \cup Effect(z, t))
        <3>1. A \cap Effect(z, t) = {}
            BY <2>3, <1>2 DEF IfAll, IfAny, When
        <3>2. Separate(ItemCellsTo(a), t) /\ Within(ItemCellsTo(a), t, A)
              /\ Covers(ItemCellsTo(a), t, A)
            BY ItemCellsToTell
        <3> HIDE DEF A
        <3> DEFINE B == Effect(z, t)
        <3> QED BY <3>1, <3>2, OneMore
    <2>6. /\ A \cup Effect(z, TRUE) \subseteq Got(a)
          /\ A \cup Effect(z, FALSE) \subseteq Got(a) \cup ReleasedIfDropped(a)
        BY <2>2, <2>3, <1>6 DEF IfAny, When, ReleasedIfDropped, IfAll
    <2>7. /\ told \subseteq A \cup Effect(z, TRUE)
          /\ told \subseteq A \cup Effect(z, FALSE)
        BY <2>2, <2>3, <2>4, <1>6 DEF IfAny, When, NeverReleased, IfAll
    <2>8. /\ Separate(N, TRUE) /\ Separate(N, FALSE)
          /\ Within(N, TRUE, Got(a)) /\ Within(N, FALSE, Got(a) \cup ReleasedIfDropped(a))
        BY <2>5, <2>6 DEF Within
    <2>9. Covers(N, TRUE, told) /\ Covers(N, FALSE, told)
        <3>1. Covers(N, TRUE, A \cup Effect(z, TRUE)) /\ Covers(N, FALSE, A \cup Effect(z, FALSE))
            BY <2>5
        <3> HIDE DEF N, A, told
        <3> QED BY <3>1, <2>7 DEF Covers
    <2>10. s.cells = N
        BY <2>1
    <2> HIDE DEF N
    <2> QED BY <2>1, <2>2, <2>8, <2>9, <2>10
<1>7. CASE a.kind = "hash"
    <2> DEFINE z == Cell(IfAny(a, Chunks(a)), IfAny(a, Chunks(a)))
    <2>1. s.taken = {} /\ s.gone = {} /\ s.cells = {z}
        BY <1>7 DEF ToPy, HashToPy, Shown
    <2>2. Got(a) = IfAny(a, Chunks(a)) /\ ReleasedAsAllocated(a) = {}
        BY <1>1, <1>3, <1>7 DEF Got, Received, CallerAlloc, ReleasedAsAllocated, When,
           IfAny, Transfer
    <2>3. Effect(z, TRUE) = Got(a) /\ Effect(z, FALSE) = Got(a)
        BY <2>2 DEF Effect, Cell
    <2> HIDE DEF z
    <2> QED BY <2>1, <2>2, <2>3 DEF Within, Covers, Separate
<1>8. CASE a.kind \in {"object", "foreign"}
    <2> DEFINE z == Cell({}, {0})
    <2>1. /\ s.taken = IfAll(a, {0}) \cup When(a.alloc, {0}) /\ s.gone = {}
          /\ s.cells = When(a.transfer = "everything", {z})
        BY <1>3, <1>8 DEF ToPy, ObjectToPy, ForeignToPy, Shown, When
    <2>2. Got(a) = s.taken /\ ReleasedAsAllocated(a) = {}
        <3>1. CASE a.transfer = "everything"
            BY <3>1, <2>1, <1>2, <1>8 DEF Got, Received, CallerAlloc, ReleasedAsAllocated, When,
               IfAll, Container, Sequence
        <3>2. CASE a.transfer = "nothing"
            BY <3>2, <2>1, <1>2, <1>8 DEF Got, Received, CallerAlloc, ReleasedAsAllocated, When,
               IfAll, Container, Sequence
        <3> QED BY <3>1, <3>2, <1>1, <1>3, <1>8 DEF Transfer, Container, Sequence
    <2>3. Effect(z, TRUE) = {} /\ Effect(z, FALSE) = {0}
        BY DEF Effect, Cell
    <2>4. a.transfer = "everything" => ReleasedIfDropped(a) = {0}
        BY <1>8 DEF ReleasedIfDropped, When
    <2> HIDE DEF z
    <2> QED BY <2>1, <2>2, <2>3, <2>4 DEF Within, Covers, Separate, When
<1>9. CASE a.kind \in {"boxed", "struct", "closure", "class"}
    <2> DEFINE z == Cell(s.taken \ IfAll(a, {0}), s.taken)
    <2>1. /\ s.taken = When(a.alloc \/ a.transfer = "everything", {0}) /\ s.gone = {}
          /\ s.cells = When(a.kind \in {"boxed", "closure"}, {z})
        BY <1>9 DEF ToPy, StructToPy, Shown
    <2>2. Got(a) = s.taken /\ ReleasedAsAllocated(a) = {}
        <3>1. CASE a.transfer = "everything"
            BY <3>1, <2>1, <1>2, <1>9 DEF Got, Received, CallerAlloc, ReleasedAsAllocated, When,
               IfAll, Container, Sequence
        <3>2. CASE a.transfer = "nothing"
            BY <3>2, <2>1, <1>2, <1>9 DEF Got, Received, CallerAlloc, ReleasedAsAllocated, When,
               IfAll, Container, Sequence
        <3> QED BY <3>1, <3>2, <1>1, <1>3, <1>9 DEF Transfer, Container, Sequence
    <2>3. Effect(z, TRUE) \subseteq s.taken /\ Effect(z, FALSE) = s.taken
        BY DEF Effect, Cell
    <2>4. a.kind \in {"boxed", "closure"} => s.taken \subseteq ReleasedIfDropped(a)
        BY <2>1, <1>3 DEF ReleasedIfDropped, When
    <2> HIDE DEF z
    <2> QED BY <2>1, <2>2, <2>3, <2>4 DEF Within, Covers, Separate, When
<1>10. CASE a.kind = "gvalue"
    <2>1. s.taken = {} /\ s.gone = {} /\ s.cells = {}
        BY <1>10 DEF ToPy, GValueToPy, Shown
    <2>2. /\ ReleasedAsAllocated(a) = When(a.alloc, {0})
          /\ Got(a) = When(a.alloc \/ a.transfer = "everything", {0})
        <3>1. CASE a.transfer = "everything"
            BY <3>1, <1>2, <1>10 DEF Got, Received, CallerAlloc, ReleasedAsAllocated, When,
               Container, Sequence
        <3>2. CASE a.transfer = "nothing"
            BY <3>2, <1>2, <1>10 DEF Got, Received, CallerAlloc, ReleasedAsAllocated, When,
               Container, Sequence
        <3> QED BY <3>1, <3>2, <1>1, <1>3, <1>10 DEF Transfer, Container, Sequence
    <2>3. told = {}
        BY <2>1, <2>2, <1>10 DEF NeverReleased, When
    <2>4. ReleasedAsAllocated(a) \subseteq Got(a)
        BY <2>2 DEF When
    <2> QED BY <2>1, <2>3, <2>4 DEF Within, Covers, Separate
<1> QED BY <1>1, <1>4, <1>5, <1>6, <1>7, <1>8, <1>9, <1>10 DEF Kind, Sequence

\* A result that could not be converted.
LEMMA FailedResult ==
    ASSUME NEW a \in Parameter, Annotated(a), IsOut(a), NEW f \in a.bad
    PROVE LET s == ToPy(a, f)
          IN /\ s.taken = {} /\ s.gone \subseteq Got(a)
             /\ Separate(s.cells, FALSE)
             /\ Within(s.cells, FALSE, Got(a) \ s.gone)
             /\ s.cells # {} => ReleasedAsAllocated(a) = {}
             /\ ReleasedAsAllocated(a) \subseteq Got(a) \ s.gone
<1> DEFINE s == ToPy(a, f)
<1>1. /\ a.kind \in Kind /\ a.transfer \in Transfer /\ a.n \in Nat /\ a.alloc \in BOOLEAN
      /\ f \in Int /\ f # Whole
    BY DEF Parameter, MaxItems, Whole
<1>2. 0 \notin Items(a) /\ Chunks(a) = {0} \cup Items(a) /\ f \in Chunks(a)
      /\ (a.kind \notin Container => Items(a) = {})
    BY <1>1 DEF Items, Chunks, Annotated
<1>3. /\ a.transfer = "container" => a.kind \in Container
      /\ a.alloc => a.kind \in {"boxed", "struct", "gvalue", "foreign", "array", "carray"}
    BY DEF Annotated
<1>4. a.kind # "gvalue" => ReleasedAsAllocated(a) = {}
    BY DEF ReleasedAsAllocated, When
<1>5. CASE a.kind = "plain"
    <2>1. s.taken = {} /\ s.gone = {} /\ s.cells = {}
        BY <1>5 DEF ToPy, Shown
    <2> QED BY <2>1, <1>4, <1>5 DEF Within, Separate
<1>6. CASE a.kind = "string"
    <2> DEFINE z == Cell(IfAll(a, {0}), IfAll(a, {0}))
    <2>1. s.taken = {} /\ s.gone = {} /\ s.cells = {z}
        BY <1>6 DEF ToPy, StringToPy, Shown
    <2>2. IfAll(a, {0}) \subseteq Got(a)
        BY <1>2, <1>3, <1>6 DEF Got, Received, CallerAlloc, When, IfAll
    <2>3. Effect(z, FALSE) \subseteq Got(a)
        BY <2>2 DEF Effect, Cell
    <2> HIDE DEF z
    <2> QED BY <2>1, <2>3, <1>4, <1>6 DEF Within, Separate
<1>7. CASE a.kind \in {"list", "hash"}
    <2>1. s.taken = {} /\ s.gone = {} /\ s.cells = {}
        BY <1>7, <1>1 DEF ToPy, ListToPy, HashToPy, Shown
    <2> QED BY <2>1, <1>4, <1>7 DEF Within, Separate
<1>8. CASE a.kind \in {"array", "carray"}
    <2>1. /\ s.taken = {} /\ s.cells = {}
          /\ s.gone = IfAll(a, {0} \cup IF a.kind = "array" THEN 1 .. f ELSE {})
        BY <1>8, <1>1 DEF ToPy, ArrayToPy, Shown
    <2>2. Items(a) = 1 .. a.n
        BY <1>8 DEF Items, Container, Sequence
    <2>3. 1 .. f \subseteq Items(a)
        BY <1>1, <1>2, <2>2
    <2>4. a.transfer = "everything" => Got(a) = {0} \cup Items(a)
        BY <1>2, <1>8 DEF Got, Received, CallerAlloc, When
    <2>5. s.gone \subseteq Got(a)
        BY <2>1, <2>3, <2>4 DEF IfAll, When
    <2> QED BY <2>1, <2>5, <1>4, <1>8 DEF Within, Separate
<1>9. CASE a.kind \in {"object", "foreign"}
    <2> DEFINE z == Cell({}, {0})
    <2>1. s.taken = {} /\ s.gone = {} /\ s.cells = When(a.transfer = "everything", {z})
        BY <1>1, <1>9 DEF ToPy, ObjectToPy, ForeignToPy, Shown, When
    <2>2. a.transfer = "everything" => 0 \in Got(a)
        BY <1>2, <1>9 DEF Got, Received, CallerAlloc, When
    <2>3. Effect(z, FALSE) = {0}
        BY DEF Effect, Cell
    <2> HIDE DEF z
    <2> QED BY <2>1, <2>2, <2>3, <1>4, <1>9 DEF Within, Separate, When
<1>10. CASE a.kind \in {"boxed", "struct", "closure", "class"}
    <2>1. s.taken = {} /\ s.gone = {} /\ s.cells = {}
        BY <1>10, <1>1 DEF ToPy, StructToPy, Shown
    <2> QED BY <2>1, <1>4, <1>10 DEF Within, Separate
<1>11. CASE a.kind = "gvalue"
    <2>1. s.taken = {} /\ s.gone = {} /\ s.cells = {}
        BY <1>11 DEF ToPy, GValueToPy, Shown
    <2>2. ReleasedAsAllocated(a) \subseteq Got(a)
        BY DEF ReleasedAsAllocated, Got, CallerAlloc, When
    <2> QED BY <2>1, <2>2 DEF Within, Separate
<1> QED BY <1>1, <1>5, <1>6, <1>7, <1>8, <1>9, <1>10, <1>11 DEF Kind

\* Chunks named by their argument.
LEMMA OfMember ==
    ASSUME NEW i, NEW side, NEW chunks, NEW j, NEW t, NEW k
    PROVE <<j, t, k>> \in Of(i, side, chunks) <=> j = i /\ t = side /\ k \in chunks
BY DEF Of

\* The cells of an argument name its chunks.
LEMMA CellsNamed ==
    ASSUME NEW i, NEW side, NEW cells, NEW success \in BOOLEAN,
           NEW x \in CellsOf(i, side, cells)
    PROVE \E y \in cells : /\ x = Cell(Of(i, side, y.destroy), Of(i, side, y.failed))
                           /\ Effect(x, success) = Of(i, side, Effect(y, success))
<1>1. PICK y \in cells : x = Cell(Of(i, side, y.destroy), Of(i, side, y.failed))
    BY DEF CellsOf
<1>2. Effect(x, success) = Of(i, side, Effect(y, success))
    BY <1>1 DEF Effect, Cell
<1> QED BY <1>1, <1>2

\* What a cell of a place releases.
LEMMA NamedCells ==
    ASSUME NEW i, NEW side, NEW cells, NEW success \in BOOLEAN, NEW y \in cells
    PROVE \E x \in CellsOf(i, side, cells) : Effect(x, success) = Of(i, side, Effect(y, success))
<1> DEFINE x == Cell(Of(i, side, y.destroy), Of(i, side, y.failed))
<1>1. x \in CellsOf(i, side, cells)
    BY DEF CellsOf
<1>2. Effect(x, success) = Of(i, side, Effect(y, success))
    BY DEF Effect, Cell
<1> QED BY <1>1, <1>2

\* What cells that release no chunk twice tell of an argument, they tell of the
\* chunks named by it.
LEMMA NamedSeparate ==
    ASSUME NEW i, NEW side, NEW cells, NEW success \in BOOLEAN, Separate(cells, success)
    PROVE Separate(CellsOf(i, side, cells), success)
<1> SUFFICES ASSUME NEW x \in CellsOf(i, side, cells), NEW y \in CellsOf(i, side, cells), x # y
             PROVE Effect(x, success) \cap Effect(y, success) = {}
    BY DEF Separate
<1>1. PICK v \in cells : /\ x = Cell(Of(i, side, v.destroy), Of(i, side, v.failed))
                         /\ Effect(x, success) = Of(i, side, Effect(v, success))
    BY CellsNamed
<1>2. PICK w \in cells : /\ y = Cell(Of(i, side, w.destroy), Of(i, side, w.failed))
                         /\ Effect(y, success) = Of(i, side, Effect(w, success))
    BY CellsNamed
<1>3. v # w
    BY <1>1, <1>2
<1>4. Effect(v, success) \cap Effect(w, success) = {}
    BY <1>3 DEF Separate
<1> QED BY <1>1, <1>2, <1>4 DEF Of

(***************************************************************************)
(* What cleaning up releases; the accounts of calls that do nothing.       *)
(***************************************************************************)

\* Destructors that release different chunks, of the call or of others that are
\* named.
LEMMA FreeTells ==
    ASSUME NEW c \in Call, NEW releases, NEW allowed,
           ours \in [Call -> SUBSET ChunkId], DOMAIN over = Call, Free(c, releases),
           \A r \in releases : r \subseteq ours[c] \cup allowed,
           \A r, q \in releases : r # q => r \cap q = {}
    PROVE /\ ours'[c] = ours[c] \ UNION releases
          /\ \A d \in Call : d # c => ours'[d] = ours[d]
          /\ DOMAIN over' = Call
          /\ over'[c] \subseteq over[c] \cup allowed
          /\ \A d \in Call : d # c => over'[d] = over[d]
<1> DEFINE all == UNION releases
           twice == {x \in all : Cardinality({r \in releases : x \in r}) > 1}
<1>1. /\ ours' = [ours EXCEPT ![c] = @ \ all]
      /\ over' = [over EXCEPT ![c] = @ \cup (all \ ours[c]) \cup twice]
    BY DEF Free
<1>2. ASSUME NEW x \in all
      PROVE x \notin twice
    <2>1. PICK r \in releases : x \in r
        OBVIOUS
    <2>2. {q \in releases : x \in q} = {r}
        BY <2>1
    <2>3. Cardinality({q \in releases : x \in q}) = 1
        BY <2>2, FS_Singleton
    <2>4. ~(Cardinality({q \in releases : x \in q}) > 1)
        BY <2>3
    <2> HIDE DEF all
    <2> QED BY <2>4
<1>3. twice = {}
    BY <1>2
<1>4. all \ ours[c] \subseteq allowed
    OBVIOUS
<1> HIDE DEF twice, all
<1>5. over'[c] = over[c] \cup (all \ ours[c]) \cup twice
    BY <1>1
<1>6. over'[c] \subseteq over[c] \cup allowed
    BY <1>3, <1>4, <1>5
<1>7. ours'[c] = ours[c] \ all
    BY <1>1
<1> QED BY <1>1, <1>6, <1>7 DEF all

(***************************************************************************)
(* The accounts of a call.                                                 *)
(***************************************************************************)

\* Arguments and results of a signature.
LEMMA Places ==
    ASSUME NEW s \in Signature
    PROVE /\ Width \in Nat /\ Len(s.args) \in Nat /\ Len(s.args) <= Width
          /\ DOMAIN s.args = 1 .. Len(s.args)
          /\ \A i \in DOMAIN s.args : /\ s.args[i] \in Parameter /\ Annotated(s.args[i])
                                      /\ i \in 1 .. Width
          /\ \A i : IsArg(s, i) => /\ s.args[i] \in Parameter /\ Annotated(s.args[i])
                                   /\ IsIn(s.args[i]) /\ i \in 1 .. Width
          /\ \A i : IsResult(s, i) => /\ ResultAt(s, i) \in Parameter /\ Annotated(ResultAt(s, i))
                                      /\ IsOut(ResultAt(s, i)) /\ i \in 0 .. Width
                                      /\ i # 0 => i \in DOMAIN s.args
          /\ ~s.ret.alloc
<1>1. /\ Width \in Nat /\ Len(s.args) \in Nat /\ Len(s.args) <= Width
      /\ DOMAIN s.args = 1 .. Len(s.args)
    <2>1. NArgs(s) \in Nat /\ NArgs(s) <= Width /\ Len(s.args) \in Nat
          /\ Len(s.args) <= NArgs(s) /\ Width \in Nat
        BY WidthLargest
    <2> QED BY <2>1, WidthLargest
<1>2. \A i \in DOMAIN s.args : s.args[i] \in Parameter /\ Annotated(s.args[i]) /\ i \in 1 .. Width
    BY <1>1, SignatureTyped, AnnotationAssumption
<1>3. s.ret \in Parameter /\ Annotated(s.ret) /\ IsOut(s.ret) /\ ~s.ret.alloc
    BY SignatureTyped, AnnotationAssumption DEF IsOut
<1>4. \A i : IsArg(s, i) => /\ s.args[i] \in Parameter /\ Annotated(s.args[i])
                            /\ IsIn(s.args[i]) /\ i \in 1 .. Width
    BY <1>2 DEF IsArg
<1>5. ASSUME NEW i, IsResult(s, i)
      PROVE /\ ResultAt(s, i) \in Parameter /\ Annotated(ResultAt(s, i))
            /\ IsOut(ResultAt(s, i)) /\ i \in 0 .. Width
            /\ i # 0 => i \in DOMAIN s.args
    <2>1. CASE i = 0
        BY <2>1, <1>1, <1>3 DEF ResultAt
    <2>2. CASE i # 0
        <3>1. i \in DOMAIN s.args /\ IsOut(s.args[i])
            BY <2>2, <1>5 DEF IsResult
        <3> QED BY <3>1, <2>2, <1>1, <1>2 DEF ResultAt
    <2> QED BY <2>1, <2>2
<1> QED BY <1>1, <1>2, <1>3, <1>4, <1>5

\* A call at work has a block for the cells of its arguments.
LEMMA CallAtWork ==
    ASSUME Accounts, NEW c \in Call
    PROVE /\ sig[c] \in Signature /\ at[c] \in 0 .. Width + 1
          /\ ours \in [Call -> SUBSET ChunkId] /\ result \in [Call -> SUBSET ChunkId]
          /\ block[c] \in Block \cup {NULL}
          /\ pc[c] \in Working /\ DOMAIN sig[c].args # {} => block[c] \in Block
<1>1. /\ sig[c] \in Signature /\ at[c] \in 0 .. Width + 1 /\ block[c] \in Block \cup {NULL}
      /\ ours \in [Call -> SUBSET ChunkId] /\ result \in [Call -> SUBSET ChunkId]
    BY DEF Accounts, IInv, TypeOK
<1>2. ASSUME pc[c] \in Working, DOMAIN sig[c].args # {}
      PROVE block[c] \in Block
    <2>1. NArgs(sig[c]) # 0
        <3>1. /\ Len(sig[c].args) \in Nat /\ Len(sig[c].args) <= NArgs(sig[c])
              /\ NArgs(sig[c]) \in Nat /\ DOMAIN sig[c].args = 1 .. Len(sig[c].args)
            BY <1>1, WidthLargest
        <3>2. Len(sig[c].args) # 0
            BY <3>1, <1>2
        <3> QED BY <3>1, <3>2
    <2>2. block[c] # NULL
        BY <2>1, <1>2 DEF Accounts, IInv, BlockWhileCalling, Working, Converting
    <2> QED BY <2>2, <1>1
<1> QED BY <1>1, <1>2

\* The accounts of a call do not change with what other calls do.
LEMMA AccountStays ==
    ASSUME Accounts, NEW d \in Call,
           pc'[d] = pc[d], sig'[d] = sig[d], at'[d] = at[d], ours'[d] = ours[d],
           result'[d] = result[d], over'[d] = over[d], outcome'[d] = outcome[d],
           ret_cell'[d] = ret_cell[d], block'[d] = block[d],
           block[d] \in Block => /\ from_cell'[block[d]] = from_cell[block[d]]
                                 /\ to_cell'[block[d]] = to_cell[block[d]]
    PROVE CallAccount(d)'
<1> DEFINE s == sig[d]
<1>1. CallAccount(d)
    BY DEF Accounts
<1>2. /\ \A i, side : Held(d, i, side)' = Held(d, i, side)
      /\ \A i : Answered(d, i)' = Answered(d, i)
    BY DEF Held, Answered
<1>3. /\ Untold(d)' = Untold(d)
      /\ ReleasedInError(d)' = ReleasedInError(d)
    BY DEF Untold, AllocatedForResults, CopiedForC,
           ResultsKept, ResultsNotMade, ReleasedInError, BeforeFailure, GivenUpBefore,
           GivenUpInside, DroppedBefore, Arg
<1>4. ASSUME NEW i, IsArg(s, i), pc[d] \in Working
      PROVE FromCells(d, i)' = FromCells(d, i)
    BY <1>4, CallAtWork DEF FromCells, IsArg
<1>5. ASSUME NEW i, IsResult(s, i), pc[d] \in Working
      PROVE ToCells(d, i)' = ToCells(d, i)
    BY <1>5, CallAtWork DEF ToCells, IsResult
<1>6. ASSUME NEW i, IsArg(s, i), pc[d] \in Working
      PROVE ArgAccount(d, i)' <=> ArgAccount(d, i)
    BY <1>2, <1>4, <1>6 DEF ArgAccount, HasArg, GaveArg, NoArg
<1>7. ASSUME NEW i, IsResult(s, i), pc[d] \in Working
      PROVE ResultAccount(d, i)' <=> ResultAccount(d, i)
    BY <1>2, <1>5, <1>7 DEF ResultAccount, HasResult, Awaits, Gets
<1>8. ASSUME NEW i, PlaceAccount(d, i), pc[d] \in Working
      PROVE PlaceAccount(d, i)'
    BY <1>2, <1>6, <1>7, <1>8 DEF PlaceAccount
<1>9. pc'[d] \in Working => \A i \in 0 .. Width : PlaceAccount(d, i)'
    BY <1>1, <1>8 DEF CallAccount
<1> QED BY <1>1, <1>3, <1>9 DEF CallAccount

(***************************************************************************)
(* The accounts through the steps of a call: arguments.                    *)
(***************************************************************************)

\* What a step of a call sets, of variables that are functions of the calls.
LEMMA Functions ==
    ASSUME Accounts
    PROVE /\ pc \in [Call -> {"idle", "in", "callee", "out", "clean from", "clean to",
                              "clear", "done"}]
          /\ sig \in [Call -> Signature] /\ at \in [Call -> 0 .. Width + 1]
          /\ block \in [Call -> Block \cup {NULL}] /\ outcome \in [Call -> Outcome]
          /\ ours \in [Call -> SUBSET ChunkId] /\ result \in [Call -> SUBSET ChunkId]
          /\ DOMAIN over = Call /\ DOMAIN ret_cell = Call
          /\ DOMAIN from_cell = Block /\ DOMAIN to_cell = Block
          /\ \A b \in Block : DOMAIN from_cell[b] = 1 .. Width /\ DOMAIN to_cell[b] = 1 .. Width
BY DEF Accounts, IInv, TypeOK, CellsShaped

\* Nothing has gone wrong while a call is at work.
LEMMA NothingWrong ==
    ASSUME Accounts, NEW c \in Call, outcome[c] = ""
    PROVE over[c] = {}
<1>1. ReleasedInError(c) = {}
    BY DEF ReleasedInError, BeforeFailure, GivenUpBefore,
           GivenUpInside, DroppedBefore
<1> QED BY <1>1 DEF Accounts, CallAccount

\* A call that has matched its arguments holds nothing yet (Enter).
LEMMA EnterAccount ==
    ASSUME Accounts, NEW c \in Call, NEW s \in Signature, NEW b \in Block \cup {NULL},
           Enter(c, s, b)
    PROVE CallAccount(c)'
<1>1. /\ pc[c] = "idle" /\ pc'[c] = "in" /\ sig'[c] = s /\ block'[c] = b /\ at'[c] = 1
      /\ outcome'[c] = "" /\ ours'[c] = ours[c] /\ result'[c] = result[c]
      /\ over'[c] = over[c] /\ ret_cell'[c] = ret_cell[c]
    BY Functions DEF Enter, mvars
<1>2. /\ ours'[c] = {} /\ result'[c] = {} /\ ret_cell'[c] = {} /\ over'[c] = {}
    BY <1>1, NothingWrong DEF Accounts, CallAccount
<1>3. DOMAIN s.args # {} => b \in Block /\ from_cell'[b] = Blank /\ to_cell'[b] = Blank
    <2>1. block[c] = NULL
        BY <1>1 DEF Accounts, IInv, BlockWhileCalling
    <2>2. DOMAIN s.args # {} => NArgs(s) # 0
        BY WidthLargest
    <2>3. ASSUME NArgs(s) # 0
          PROVE b \in Block /\ from_cell'[b] = Blank /\ to_cell'[b] = Blank
        <3>1. b \in Block /\ (TakeBlock(NArgs(s), b) \/ NewBlock(NArgs(s), b))
            BY <2>3 DEF Enter, InitBlock
        <3>2. /\ from_cell' = [from_cell EXCEPT ![b] = Blank]
              /\ to_cell' = [to_cell EXCEPT ![b] = Blank]
            BY <3>1 DEF TakeBlock, NewBlock
        <3> QED BY <3>1, <3>2, Functions
    <2> QED BY <2>2, <2>3
<1>4. /\ \A i, side : Held(c, i, side)' = {}
      /\ \A i : Answered(c, i)' = {}
    BY <1>2 DEF Held, Answered
<1>5. ASSUME NEW i, IsArg(s, i)
      PROVE ArgAccount(c, i)'
    <2>1. i \in 1 .. Width /\ i \in DOMAIN s.args /\ ~(i < 1) /\ Width \in Nat
        BY <1>5, Places DEF IsArg
    <2>2. FromCells(c, i)' = {}
        BY <2>1, <1>1, <1>3 DEF FromCells, Blank
    <2> QED BY <2>1, <2>2, <1>1, <1>4 DEF ArgAccount, NoArg
<1>6. ASSUME NEW i, IsResult(s, i)
      PROVE ResultAccount(c, i)'
    <2>1. ToCells(c, i)' = {}
        <3>1. i \in 0 .. Width /\ (i # 0 => i \in DOMAIN s.args) /\ Width \in Nat
            BY <1>6, Places
        <3>2. CASE i = 0
            BY <3>2, <1>2 DEF ToCells
        <3>3. CASE i # 0
            <4>1. i \in 1 .. Width /\ to_cell'[b] = Blank
                BY <3>1, <3>3, <1>3
            <4> QED BY <4>1, <3>3, <1>1 DEF ToCells, Blank
        <3> QED BY <3>2, <3>3
    <2>2. When(i < 1, CallerAlloc(ResultAt(s, i))) = {}
        <3>1. CASE i = 0
            BY <3>1, Places DEF ResultAt, CallerAlloc, When
        <3>2. CASE i # 0
            <4>1. ~(i < 1)
                BY <3>2, <1>6, Places
            <4> QED BY <4>1 DEF When
        <3> QED BY <3>1, <3>2
    <2> QED BY <2>1, <2>2, <1>1, <1>4 DEF ResultAccount, Awaits
<1>7. \A i \in 0 .. Width : PlaceAccount(c, i)'
    BY <1>1, <1>4, <1>5, <1>6 DEF PlaceAccount
<1>8. ours'[c] = {} /\ over'[c] \subseteq ReleasedInError(c)'
    BY <1>2
<1> QED BY <1>1, <1>2, <1>7, <1>8 DEF CallAccount

\* Nor does one whose arguments do not match.
LEMMA EnterFailsAccount ==
    ASSUME Accounts, NEW c \in Call, NEW s \in Signature, EnterFails(c, s)
    PROVE CallAccount(c)'
<1>1. /\ pc[c] = "idle" /\ pc'[c] = "clear" /\ outcome'[c] = "unbound"
      /\ ours'[c] = ours[c] /\ over'[c] = over[c]
    BY Functions DEF EnterFails, mvars
<1>2. ours'[c] = {} /\ over'[c] = {}
    BY <1>1, NothingWrong DEF Accounts, CallAccount
<1>3. ours'[c] \subseteq Untold(c)' /\ over'[c] \subseteq ReleasedInError(c)'
    BY <1>2
<1> QED BY <1>1, <1>3 DEF CallAccount, Working, Converting

\* What a call holds after it allocated something.
LEMMA HeldMore ==
    ASSUME Accounts, NEW c \in Call, NEW i \in 1 .. Width, NEW made, NEW alloc,
           made \subseteq 0 .. MaxItems, alloc \subseteq 0 .. MaxItems,
           ours' = [ours EXCEPT ![c] = @ \cup Of(i, "out", alloc) \cup Of(i, "in", made)]
    PROVE /\ Held(c, i, "in")' = Held(c, i, "in") \cup made
          /\ Held(c, i, "out")' = Held(c, i, "out") \cup alloc
          /\ \A j : j # i => /\ Held(c, j, "in")' = Held(c, j, "in")
                             /\ Held(c, j, "out")' = Held(c, j, "out")
<1>1. ours'[c] = ours[c] \cup Of(i, "out", alloc) \cup Of(i, "in", made)
    BY Functions
<1>2. ASSUME NEW j, NEW k
      PROVE /\ <<j, "in", k>> \in ours'[c] <=> <<j, "in", k>> \in ours[c] \/ (j = i /\ k \in made)
            /\ <<j, "out", k>> \in ours'[c] <=> <<j, "out", k>> \in ours[c] \/ (j = i /\ k \in alloc)
    <2>1. /\ <<j, "in", k>> \in Of(i, "in", made) <=> j = i /\ k \in made
          /\ <<j, "in", k>> \notin Of(i, "out", alloc)
          /\ <<j, "out", k>> \in Of(i, "out", alloc) <=> j = i /\ k \in alloc
          /\ <<j, "out", k>> \notin Of(i, "in", made)
        BY OfMember
    <2> QED BY <2>1, <1>1
<1>3. Held(c, i, "in")' = Held(c, i, "in") \cup made
    BY <1>2 DEF Held
<1>4. Held(c, i, "out")' = Held(c, i, "out") \cup alloc
    BY <1>2 DEF Held
<1>5. ASSUME NEW j, j # i
      PROVE Held(c, j, "in")' = Held(c, j, "in") /\ Held(c, j, "out")' = Held(c, j, "out")
    <2>1. ASSUME NEW k
          PROVE /\ <<j, "in", k>> \in ours'[c] <=> <<j, "in", k>> \in ours[c]
                /\ <<j, "out", k>> \in ours'[c] <=> <<j, "out", k>> \in ours[c]
        BY <1>2, <1>5
    <2>2. Held(c, j, "in")' = Held(c, j, "in")
        BY <2>1 DEF Held
    <2>3. Held(c, j, "out")' = Held(c, j, "out")
        BY <2>1 DEF Held
    <2> QED BY <2>2, <2>3
<1> QED BY <1>3, <1>4, <1>5

\* Before an argument is converted nothing is held of it.
LEMMA NothingHeld ==
    ASSUME Accounts, NEW c \in Call, pc[c] = "in", NEW i \in 0 .. Width, ~(i < at[c])
    PROVE /\ Held(c, i, "in") = {} /\ Held(c, i, "out") = {} /\ Answered(c, i) = {}
          /\ IsArg(sig[c], i) => FromCells(c, i) = {}
          /\ IsResult(sig[c], i) => ToCells(c, i) = {}
<1>1. PlaceAccount(c, i)
    BY DEF Accounts, CallAccount, Working, Converting
<1>2. IsArg(sig[c], i) => NoArg(c, i)
    BY <1>1 DEF PlaceAccount, ArgAccount, Converting
<1>3. IsResult(sig[c], i) => Awaits(c, i, {})
    BY <1>1 DEF PlaceAccount, ResultAccount, When
<1> QED BY <1>1, <1>2, <1>3 DEF PlaceAccount, NoArg, Awaits

\* One more argument was converted: the call holds what FromPy allocated, and the
\* cells of the argument tell of it.
LEMMA MarshalInAccount ==
    ASSUME Accounts, NEW c \in Call, MarshalIn(c)
    PROVE CallAccount(c)'
<1>0. PICK s, n : s = sig[c] /\ n = at[c]
    OBVIOUS
<1> DEFINE a == s.args[n]
           made == IF IsIn(a) THEN FromPy(a, Whole) ELSE Untouched
<1>1. /\ pc[c] = "in" /\ pc'[c] = "in" /\ n <= Len(s.args) /\ at'[c] = n + 1
      /\ sig'[c] = s /\ block'[c] = block[c] /\ outcome'[c] = outcome[c]
      /\ result'[c] = result[c] /\ over'[c] = over[c] /\ ret_cell'[c] = ret_cell[c]
      /\ to_cell' = to_cell
      /\ ours' = [ours EXCEPT ![c] = @ \cup Of(n, "out", CallerAlloc(a)) \cup Of(n, "in", made.had)]
      /\ IsIn(a) => from_cell' = [from_cell EXCEPT ![block[c]][n] = CellsOf(n, "in", made.cells)]
      /\ ~IsIn(a) => from_cell' = from_cell
    BY <1>0, Functions DEF MarshalIn, Advance, Arg, StoreFrom
<1>2. /\ s \in Signature /\ n \in DOMAIN s.args /\ n \in 1 .. Width /\ n \in Nat
      /\ a \in Parameter /\ Annotated(a) /\ block[c] \in Block
    <2>1. n # 0 /\ n \in 0 .. Width + 1 /\ s \in Signature
        BY <1>0, <1>1, CallAtWork DEF Accounts, IInv, FromFirst
    <2>2. n \in 1 .. Len(s.args) /\ DOMAIN s.args = 1 .. Len(s.args)
        BY <2>1, <1>1, Places
    <2>3. n \in DOMAIN s.args /\ n \in 1 .. Width /\ n \in Nat /\ a \in Parameter /\ Annotated(a)
        BY <2>1, <2>2, Places
    <2> QED BY <2>1, <2>3, <1>0, <1>1, CallAtWork DEF Working, Converting
<1>3. Whole \in Int /\ made.had \subseteq 0 .. MaxItems /\ CallerAlloc(a) \subseteq 0 .. MaxItems
    <2>1. Whole \in Int
        BY DEF Whole
    <2> QED BY <2>1, <1>2, ConvertedChunks DEF Untouched, Made
<1>4. /\ \A i \in 0 .. Width : PlaceAccount(c, i)
      /\ outcome[c] = "" /\ over[c] = {}
    BY <1>1, NothingWrong DEF Accounts, CallAccount, Working, Converting
<1> HIDE DEF a, made
<1>5. /\ Held(c, n, "in")' = Held(c, n, "in") \cup made.had
      /\ Held(c, n, "out")' = Held(c, n, "out") \cup CallerAlloc(a)
      /\ \A j : j # n => /\ Held(c, j, "in")' = Held(c, j, "in")
                         /\ Held(c, j, "out")' = Held(c, j, "out")
    <2> DEFINE had == made.had
               alloc == CallerAlloc(a)
    <2>1. /\ ours' = [ours EXCEPT ![c] = @ \cup Of(n, "out", alloc) \cup Of(n, "in", had)]
          /\ n \in 1 .. Width /\ had \subseteq 0 .. MaxItems /\ alloc \subseteq 0 .. MaxItems
        BY <1>1, <1>2, <1>3
    <2> HIDE DEF had, alloc
    <2>2. /\ Held(c, n, "in")' = Held(c, n, "in") \cup had
          /\ Held(c, n, "out")' = Held(c, n, "out") \cup alloc
          /\ \A j : j # n => /\ Held(c, j, "in")' = Held(c, j, "in")
                             /\ Held(c, j, "out")' = Held(c, j, "out")
        BY <2>1, HeldMore
    <2> QED BY <2>2 DEF had, alloc
<1>6. /\ \A j : Answered(c, j)' = Answered(c, j)
      /\ \A j : ToCells(c, j)' = ToCells(c, j)
    BY <1>1 DEF Answered, ToCells
<1>7. ASSUME NEW j, IsArg(s, j)
      PROVE FromCells(c, j)' = IF j = n THEN CellsOf(n, "in", made.cells) ELSE FromCells(c, j)
    <2>1. /\ DOMAIN from_cell = Block /\ DOMAIN from_cell[block[c]] = 1 .. Width
          /\ j \in 1 .. Width
        BY <1>2, <1>7, Functions, Places
    <2>2. CASE IsIn(a)
        BY <2>1, <2>2, <1>1, <1>2 DEF FromCells
    <2>3. CASE ~IsIn(a)
        <3>1. j # n
            BY <2>3, <1>7 DEF IsArg, a
        <3> QED BY <3>1, <2>3, <1>1 DEF FromCells
    <2> QED BY <2>2, <2>3
<1>8. /\ Held(c, n, "in") = {} /\ Held(c, n, "out") = {} /\ Answered(c, n) = {}
      /\ IsResult(s, n) => ToCells(c, n) = {}
    <2>1. n \in 0 .. Width /\ ~(n < at[c])
        BY <1>0, <1>2
    <2> QED BY <2>1, <1>1, <1>0, NothingHeld
<1>9. ASSUME NEW i \in 0 .. Width
      PROVE PlaceAccount(c, i)'
    <2>0. PlaceAccount(c, i) /\ s = sig[c]
        BY <1>0, <1>4
    <2>1. CASE i = n
        <3>1. i < at'[c] /\ (IsArg(s, i) <=> IsIn(a)) /\ sig'[c].args[n] = a
            BY <2>1, <1>1, <1>2 DEF IsArg, a
        <3>2. IsArg(s, i) => HasArg(c, i, Whole)'
            <4>1. SUFFICES ASSUME IsArg(s, i)
                           PROVE HasArg(c, i, Whole)'
                OBVIOUS
            <4>2. made = FromPy(a, Whole)
                BY <4>1, <3>1 DEF made
            <4>3. made.gone = {}
                BY <4>1, <4>2, <3>1, <1>2, WholeArg
            <4>4. Held(c, i, "in")' = made.had \ made.gone
                BY <4>3, <2>1, <1>5, <1>8
            <4>5. FromCells(c, i)' = CellsOf(i, "in", made.cells)
                BY <4>1, <2>1, <1>7
            <4> QED BY <4>2, <4>4, <4>5, <3>1, <2>1 DEF HasArg
        <3>3. ~IsArg(s, i) => Held(c, i, "in")' = {}
            <4>1. ~IsArg(s, i) => made.had = {}
                BY <3>1 DEF made, Untouched, Made
            <4> QED BY <4>1, <2>1, <1>5, <1>8
        <3>4. Held(c, i, "out")' = CallerAlloc(a) /\ Answered(c, i)' = {}
            BY <2>1, <1>5, <1>6, <1>8
        <3>5. ~IsResult(s, i) => Held(c, i, "out")' = {}
            <4>1. ~IsOut(a) => ~a.alloc
                BY <1>2 DEF Annotated, IsOut
            <4>2. ~IsResult(s, i) => ~IsOut(a)
                BY <2>1, <1>2 DEF IsResult, a
            <4> QED BY <4>1, <4>2, <3>4 DEF CallerAlloc, When
        <3>6. IsResult(s, i) => Awaits(c, i, When(i < at[c], CallerAlloc(ResultAt(sig[c], i))))'
            <4>1. ResultAt(sig'[c], i) = a
                BY <2>1, <1>1, <1>2 DEF ResultAt, a
            <4>2. When(i < at'[c], CallerAlloc(ResultAt(sig'[c], i))) = CallerAlloc(a)
                BY <4>1, <3>1 DEF When
            <4>3. IsResult(s, i) => ToCells(c, i)' = {}
                BY <2>1, <1>6, <1>8
            <4> QED BY <4>2, <4>3, <3>4 DEF Awaits
        <3>7. IsArg(s, i) => ArgAccount(c, i)'
            BY <3>1, <3>2, <1>1 DEF ArgAccount
        <3>8. IsResult(s, i) => ResultAccount(c, i)'
            BY <3>6, <1>1 DEF ResultAccount
        <3> QED BY <3>3, <3>4, <3>5, <3>7, <3>8, <1>1 DEF PlaceAccount
    <2>2. CASE i # n
        <3>1. i < at'[c] <=> i < at[c]
            BY <2>2, <1>0, <1>1, <1>2
        <3>2. /\ Held(c, i, "in")' = Held(c, i, "in") /\ Held(c, i, "out")' = Held(c, i, "out")
              /\ Answered(c, i)' = Answered(c, i) /\ ToCells(c, i)' = ToCells(c, i)
              /\ IsArg(s, i) => FromCells(c, i)' = FromCells(c, i)
            BY <2>2, <1>5, <1>6, <1>7
        <3>3. IsArg(s, i) => ArgAccount(c, i)'
            <4>1. IsArg(s, i) => IF i < at[c] THEN HasArg(c, i, Whole) ELSE NoArg(c, i)
                BY <2>0, <1>1 DEF PlaceAccount, ArgAccount, Converting
            <4>2. IsArg(s, i) => IF i < at'[c] THEN HasArg(c, i, Whole)' ELSE NoArg(c, i)'
                BY <4>1, <3>1, <3>2, <2>0, <1>1 DEF HasArg, NoArg
            <4> QED BY <4>2, <1>1 DEF ArgAccount
        <3>4. IsResult(s, i) => ResultAccount(c, i)'
            <4>1. IsResult(s, i) => Awaits(c, i, When(i < at[c], CallerAlloc(ResultAt(s, i))))
                BY <2>0, <1>1 DEF PlaceAccount, ResultAccount
            <4>2. IsResult(s, i) => Awaits(c, i, When(i < at[c], CallerAlloc(ResultAt(sig[c], i))))'
                BY <4>1, <3>1, <3>2, <1>1 DEF Awaits, When
            <4> QED BY <4>2, <1>1 DEF ResultAccount
        <3> QED BY <3>2, <3>3, <3>4, <2>0, <1>1 DEF PlaceAccount
    <2> QED BY <2>1, <2>2
<1> QED BY <1>1, <1>4, <1>9 DEF CallAccount, Working, Converting

\* What a call holds, and what its result answers for, after a step that
\* releases and allocates.
LEMMA HeldChange ==
    ASSUME NEW c \in Call, NEW released, NEW made,
           ours'[c] = (ours[c] \ released) \cup made
    PROVE \A i, side, k : k \in Held(c, i, side)' <=>
             \/ k \in Held(c, i, side) /\ <<i, side, k>> \notin released
             \/ k \in 0 .. MaxItems /\ <<i, side, k>> \in made
BY DEF Held

\* The same for a step that only releases.
LEMMA HeldLess ==
    ASSUME NEW c \in Call, NEW released, ours'[c] = ours[c] \ released
    PROVE \A i, side, k : k \in Held(c, i, side)' <=>
             k \in Held(c, i, side) /\ <<i, side, k>> \notin released
BY DEF Held

\* The same for what the result answers for.
LEMMA AnsweredChange ==
    ASSUME NEW c \in Call, NEW released, NEW made,
           result'[c] = (result[c] \ released) \cup made
    PROVE \A i, k : k \in Answered(c, i)' <=>
             \/ k \in Answered(c, i) /\ <<i, "out", k>> \notin released
             \/ k \in 0 .. MaxItems /\ <<i, "out", k>> \in made
BY DEF Answered

\* What the accounts say of one argument or result of a call at work.
LEMMA PlaceSays ==
    ASSUME Accounts, NEW c \in Call, NEW i \in 0 .. Width
    PROVE /\ pc[c] \in Working => PlaceAccount(c, i)
          /\ IsArg(sig[c], i) /\ pc[c] \in Converting => ArgAccount(c, i)
          /\ IsResult(sig[c], i) /\ pc[c] \in Working => ResultAccount(c, i)
          /\ ~IsArg(sig[c], i) /\ pc[c] \in Working => Held(c, i, "in") = {}
          /\ ~IsResult(sig[c], i) /\ pc[c] \in Working
             => Held(c, i, "out") = {} /\ Answered(c, i) = {}
<1>1. pc[c] \in Working => PlaceAccount(c, i)
    BY DEF Accounts, CallAccount
<1> QED BY <1>1 DEF PlaceAccount, Working

\* An argument was not converted: what of it was converted is held and told of, up
\* to where it failed.
LEMMA MarshalInFailsAccount ==
    ASSUME Accounts, NEW c \in Call, NEW f \in 0 .. MaxItems + 1, MarshalInFails(c, f)
    PROVE CallAccount(c)'
<1>0. PICK s, n : s = sig[c] /\ n = at[c]
    OBVIOUS
<1> DEFINE a == s.args[n]
           made == IF IsIn(a) THEN FromPy(a, f) ELSE Untouched
           rest == made.had \ made.gone
<1>1. /\ pc[c] = "in" /\ pc'[c] = "clean from" /\ n <= Len(s.args) /\ at'[c] = n
      /\ f \in a.bad /\ (IsIn(a) \/ a.alloc)
      /\ sig'[c] = s /\ block'[c] = block[c] /\ outcome'[c] = "badarg"
      /\ result'[c] = result[c] /\ over'[c] = over[c] /\ ret_cell'[c] = ret_cell[c]
      /\ to_cell' = to_cell
      /\ ours'[c] = (ours[c] \ {}) \cup Of(n, "in", rest)
      /\ IsIn(a) => from_cell' = [from_cell EXCEPT ![block[c]][n] = CellsOf(n, "in", made.cells)]
      /\ ~IsIn(a) => from_cell' = from_cell
    BY <1>0, Functions DEF MarshalInFails, Arg, StoreFrom
<1>2. /\ s \in Signature /\ n \in DOMAIN s.args /\ n \in 1 .. Width /\ n \in Nat
      /\ a \in Parameter /\ Annotated(a) /\ block[c] \in Block /\ Width \in Nat
    <2>1. n # 0 /\ n \in 0 .. Width + 1 /\ s \in Signature
        BY <1>0, <1>1, CallAtWork DEF Accounts, IInv, FromFirst
    <2>0. DOMAIN s.args = 1 .. Len(s.args) /\ Width \in Nat /\ Len(s.args) \in Nat
        BY <2>1, Places
    <2>2. n \in 1 .. Len(s.args)
        <3>0. n <= Len(s.args)
            BY <1>1
        <3>1. n \in Int /\ 1 <= n /\ n <= Len(s.args) /\ Len(s.args) \in Int
            BY <2>0, <2>1, <3>0
        <3> QED BY <3>1
    <2>3. n \in DOMAIN s.args /\ n \in 1 .. Width /\ n \in Nat /\ a \in Parameter /\ Annotated(a)
        BY <2>0, <2>1, <2>2, Places
    <2> QED BY <2>0, <2>1, <2>3, <1>0, <1>1, CallAtWork DEF Working, Converting
<1>3. rest \subseteq 0 .. MaxItems
    <2>1. f \in Int
        BY DEF MaxItems
    <2> QED BY <2>1, <1>2, ConvertedChunks DEF Untouched, Made
<1>4. outcome[c] = "" /\ over[c] = {}
    BY <1>1, NothingWrong DEF Accounts, CallAccount
<1>1a. /\ at'[c] = n /\ sig'[c] = s /\ pc[c] = "in" /\ pc'[c] = "clean from" /\ block'[c] = block[c]
       /\ outcome'[c] = "badarg"
    BY <1>1
<1> HIDE DEF a, made, rest
<1>5. /\ \A i, side : i # n \/ side # "in" => Held(c, i, side)' = Held(c, i, side)
      /\ Held(c, n, "in")' = Held(c, n, "in") \cup rest
    <2> DEFINE M == Of(n, "in", rest)
    <2>1. ours'[c] = (ours[c] \ {}) \cup M
        BY <1>1
    <2>2. \A i, side, k : <<i, side, k>> \in M <=> i = n /\ side = "in" /\ k \in rest
        BY OfMember
    <2> HIDE DEF M
    <2>3. \A i, side, k : k \in Held(c, i, side)' <=>
             \/ k \in Held(c, i, side) /\ <<i, side, k>> \notin {}
             \/ k \in 0 .. MaxItems /\ <<i, side, k>> \in M
        BY <2>1, HeldChange
    <2>4. \A i, side, k : k \in Held(c, i, side)' <=>
             k \in Held(c, i, side) \/ (i = n /\ side = "in" /\ k \in rest)
        BY <2>2, <2>3, <1>3
    <2>5. ASSUME NEW i, NEW side, i # n \/ side # "in"
          PROVE Held(c, i, side)' = Held(c, i, side)
        BY <2>4, <2>5
    <2>6. Held(c, n, "in")' = Held(c, n, "in") \cup rest
        BY <2>4
    <2> QED BY <2>5, <2>6
<1>6. /\ \A j : Answered(c, j)' = Answered(c, j)
      /\ \A j : ToCells(c, j)' = ToCells(c, j)
    BY <1>1 DEF Answered, ToCells
<1>7. ASSUME NEW j, IsArg(s, j)
      PROVE FromCells(c, j)' = IF j = n THEN CellsOf(n, "in", made.cells) ELSE FromCells(c, j)
    <2>1. /\ DOMAIN from_cell = Block /\ DOMAIN from_cell[block[c]] = 1 .. Width
          /\ j \in 1 .. Width
        BY <1>2, <1>7, Functions, Places
    <2>2. CASE IsIn(a)
        <3>1. from_cell' = [from_cell EXCEPT ![block[c]][n] = CellsOf(n, "in", made.cells)]
            BY <2>2, <1>1
        <3>2. /\ j = n => from_cell'[block[c]][j] = CellsOf(n, "in", made.cells)
              /\ j # n => from_cell'[block[c]][j] = from_cell[block[c]][j]
            BY <3>1, <2>1, <1>2
        <3> QED BY <3>2, <1>1a DEF FromCells
    <2>3. CASE ~IsIn(a)
        <3>1. j # n
            BY <2>3, <1>7 DEF IsArg, a
        <3> QED BY <3>1, <2>3, <1>1 DEF FromCells
    <2> QED BY <2>2, <2>3
<1>8. Held(c, n, "in") = {}
    <2>1. n \in 0 .. Width /\ ~(n < at[c])
        BY <1>0, <1>2
    <2> QED BY <2>1, <1>1, <1>0, NothingHeld
<1>9. ASSUME NEW i \in 0 .. Width, IsArg(s, i)
      PROVE ArgAccount(c, i)'
    <2>1. IF i < at[c] THEN HasArg(c, i, Whole) ELSE NoArg(c, i)
        BY <1>0, <1>1, <1>9, PlaceSays DEF ArgAccount, Converting
    <2>2. CASE i = n
        <3>1. IsIn(a) /\ sig'[c].args[i] = a
            BY <2>2, <1>1, <1>9 DEF IsArg, a
        <3>2. made = FromPy(a, f)
            BY <3>1 DEF made
        <3>3. Held(c, i, "in")' = made.had \ made.gone
            BY <2>2, <1>5, <1>8 DEF rest
        <3>4. FromCells(c, i)' = CellsOf(i, "in", made.cells)
            BY <2>2, <1>9, <1>7
        <3>5. HasArg(c, i, f)'
            BY <3>1, <3>2, <3>3, <3>4 DEF HasArg
        <3>6. \E g \in sig'[c].args[i].bad : HasArg(c, i, g)'
            BY <3>1, <3>5, <1>1
        <3>7. ~(i < at'[c]) /\ ~(i > at'[c])
            <4>0. n \in Int
                BY <1>2
            <4>1. n \in Int /\ at'[c] = i
                BY <4>0, <2>2, <1>1a
            <4> QED BY <4>1, <2>2
        <3> QED BY <3>6, <3>7, <1>1a DEF ArgAccount
    <2>3. CASE i # n
        <3>1. Held(c, i, "in")' = Held(c, i, "in") /\ FromCells(c, i)' = FromCells(c, i)
            BY <2>3, <1>5, <1>7, <1>9
        <3>2. /\ i < n => HasArg(c, i, Whole)'
              /\ ~(i < n) => NoArg(c, i)'
            BY <2>1, <3>1, <1>0, <1>1 DEF HasArg, NoArg
        <3>3. i > n => ~(i < n)
            BY <1>2
        <3> QED BY <2>3, <3>2, <3>3, <1>1 DEF ArgAccount
    <2> QED BY <2>2, <2>3
<1>10. ASSUME NEW i \in 0 .. Width
       PROVE PlaceAccount(c, i)'
    <2>0. /\ ~IsArg(s, i) => Held(c, i, "in") = {}
          /\ ~IsResult(s, i) => Held(c, i, "out") = {} /\ Answered(c, i) = {}
        BY <1>0, <1>1a, PlaceSays DEF Working, Converting
    <2>1. IsResult(s, i) => ResultAccount(c, i)'
        <3>1. IsResult(s, i) => Awaits(c, i, When(i < at[c], CallerAlloc(ResultAt(s, i))))
            BY <1>0, <1>1, PlaceSays DEF ResultAccount, Working, Converting
        <3>2. IsResult(s, i) => Awaits(c, i, When(i < at[c], CallerAlloc(ResultAt(sig[c], i))))'
            BY <3>1, <1>0, <1>1, <1>5, <1>6 DEF Awaits, When
        <3> QED BY <3>2, <1>1 DEF ResultAccount
    <2>2. ~IsArg(s, i) => Held(c, i, "in")' = {}
        <3>1. ~IsArg(s, n) => rest = {}
            BY <1>2 DEF IsArg, a, rest, made, Untouched, Made
        <3> QED BY <3>1, <2>0, <1>5, <1>8
    <2>3. ~IsResult(s, i) => Held(c, i, "out")' = {} /\ Answered(c, i)' = {}
        BY <2>0, <1>5, <1>6
    <2> QED BY <2>1, <2>2, <2>3, <1>1, <1>9 DEF PlaceAccount
<1>11. at'[c] \in DOMAIN sig'[c].args /\ over'[c] = {}
    BY <1>1, <1>2, <1>4
<1> QED BY <1>1, <1>10, <1>11 DEF CallAccount, Working, Converting

\* What is given away is held no more when the function starts.
LEMMA StartCallAccount ==
    ASSUME Accounts, NEW c \in Call, StartCall(c)
    PROVE CallAccount(c)'
<1>0. PICK s : s = sig[c]
    OBVIOUS
<1> DEFINE gift == UNION {Of(i, "in", When(IsIn(s.args[i]), Given(s.args[i]))) : i \in DOMAIN s.args}
<1>1. /\ pc[c] = "in" /\ pc'[c] = "callee" /\ at[c] > Len(s.args)
      /\ sig'[c] = s /\ block'[c] = block[c] /\ outcome'[c] = outcome[c]
      /\ result'[c] = result[c] /\ over'[c] = over[c] /\ ret_cell'[c] = ret_cell[c]
      /\ to_cell' = to_cell /\ from_cell' = from_cell
      /\ ours'[c] = ours[c] \ gift
    BY <1>0, Functions DEF StartCall, bvars
<1>2. s \in Signature /\ at[c] \in 0 .. Width + 1
    BY <1>0, CallAtWork
<1>3. outcome[c] = "" /\ over[c] = {}
    BY <1>1, NothingWrong DEF Accounts, CallAccount
<1>4. \A i, k : /\ <<i, "out", k>> \notin gift
                /\ IsArg(s, i) => (<<i, "in", k>> \in gift <=> k \in Given(s.args[i]))
                /\ ~IsArg(s, i) => <<i, "in", k>> \notin gift
    BY OfMember DEF IsArg, When
<1> HIDE DEF gift
<1>5. \A i, side, k : k \in Held(c, i, side)' <=> k \in Held(c, i, side) /\ <<i, side, k>> \notin gift
    BY <1>1, HeldLess
<1>6. /\ \A i : Held(c, i, "out")' = Held(c, i, "out")
      /\ \A i : IsArg(s, i) => Held(c, i, "in")' = Held(c, i, "in") \ Given(s.args[i])
      /\ \A i : ~IsArg(s, i) => Held(c, i, "in")' = Held(c, i, "in")
    <2>1. \A i : Held(c, i, "out")' = Held(c, i, "out")
        <3> SUFFICES ASSUME NEW i PROVE Held(c, i, "out")' = Held(c, i, "out")
            OBVIOUS
        <3>1. \A k : k \in Held(c, i, "out")' <=> k \in Held(c, i, "out")
            BY <1>4, <1>5
        <3> QED BY <3>1
    <2>2. \A i : ~IsArg(s, i) => Held(c, i, "in")' = Held(c, i, "in")
        <3> SUFFICES ASSUME NEW i, ~IsArg(s, i) PROVE Held(c, i, "in")' = Held(c, i, "in")
            OBVIOUS
        <3>1. \A k : <<i, "in", k>> \notin gift
            BY <1>4
        <3>2. \A k : k \in Held(c, i, "in")' <=> k \in Held(c, i, "in")
            BY <3>1, <1>5
        <3> QED BY <3>2
    <2>3. ASSUME NEW i, IsArg(s, i)
          PROVE Held(c, i, "in")' = Held(c, i, "in") \ Given(s.args[i])
        <3>1. \A k : <<i, "in", k>> \in gift <=> k \in Given(s.args[i])
            BY <1>4, <2>3
        <3>2. \A k : k \in Held(c, i, "in")' <=> k \in Held(c, i, "in") /\ k \notin Given(s.args[i])
            BY <3>1, <1>5
        <3> QED BY <3>2
    <2> QED BY <2>1, <2>2, <2>3
<1>7. \A i : /\ Answered(c, i)' = Answered(c, i) /\ ToCells(c, i)' = ToCells(c, i)
             /\ FromCells(c, i)' = FromCells(c, i)
    BY <1>1 DEF Answered, ToCells, FromCells
<1>8. ASSUME NEW i \in 0 .. Width
      PROVE PlaceAccount(c, i)'
    <2>1. IsArg(s, i) \/ IsResult(s, i) => i < at[c]
        BY <1>1, <1>2, Places DEF IsArg, IsResult
    <2>2. IsArg(s, i) => GaveArg(c, i)'
        <3>1. IsArg(s, i) => HasArg(c, i, Whole)
            BY <2>1, <1>0, <1>1, PlaceSays DEF ArgAccount, Converting
        <3>2. IsArg(s, i) => FromPy(s.args[i], Whole).gone = {}
            BY <1>2, Places, WholeArg
        <3>3. IsArg(s, i) => Held(c, i, "in") = FromPy(s.args[i], Whole).had
            BY <3>1, <3>2, <1>0 DEF HasArg
        <3> QED BY <3>1, <3>3, <1>0, <1>1, <1>6, <1>7 DEF GaveArg, HasArg
    <2>3. IsResult(s, i) => Awaits(c, i, CallerAlloc(ResultAt(sig[c], i)))'
        <3>1. IsResult(s, i) => Awaits(c, i, When(i < at[c], CallerAlloc(ResultAt(s, i))))
            BY <1>0, <1>1, PlaceSays DEF ResultAccount, Working, Converting
        <3>2. IsResult(s, i) => Awaits(c, i, CallerAlloc(ResultAt(s, i)))
            BY <3>1, <2>1 DEF When
        <3> QED BY <3>2, <1>1, <1>6, <1>7 DEF Awaits
    <2>4. IsArg(s, i) => ArgAccount(c, i)'
        BY <2>2, <1>1 DEF ArgAccount
    <2>5. IsResult(s, i) => ResultAccount(c, i)'
        BY <2>3, <1>1 DEF ResultAccount
    <2>6. ~IsArg(s, i) => Held(c, i, "in")' = {}
        BY <1>0, <1>1, <1>6, PlaceSays DEF Working, Converting
    <2>7. ~IsResult(s, i) => Held(c, i, "out")' = {} /\ Answered(c, i)' = {}
        BY <1>0, <1>1, <1>6, <1>7, PlaceSays DEF Working, Converting
    <2> QED BY <2>4, <2>5, <2>6, <2>7, <1>1 DEF PlaceAccount
<1> QED BY <1>1, <1>3, <1>8 DEF CallAccount, Working, Converting

(***************************************************************************)
(* Results.                                                                *)
(***************************************************************************)

\* What a call holds after a step that only allocates.
LEMMA HeldGets ==
    ASSUME NEW c \in Call, NEW made, ours'[c] = ours[c] \cup made
    PROVE \A i, side, k : k \in Held(c, i, side)' <=>
             \/ k \in Held(c, i, side)
             \/ k \in 0 .. MaxItems /\ <<i, side, k>> \in made
BY DEF Held

\* The function has handed over its results.
LEMMA CallReturnsAccount ==
    ASSUME Accounts, NEW c \in Call, CallReturns(c)
    PROVE CallAccount(c)'
<1>0. PICK s : s = sig[c]
    OBVIOUS
<1> DEFINE given == UNION {Of(i, "out", When(IsOut(s.args[i]), Received(s.args[i]))) :
                           i \in DOMAIN s.args}
           got == Of(0, "out", Received(s.ret)) \cup given
<1>1. /\ pc[c] = "callee" /\ pc'[c] = "out" /\ at'[c] = 0
      /\ sig'[c] = s /\ block'[c] = block[c] /\ outcome'[c] = outcome[c]
      /\ result'[c] = result[c] /\ over'[c] = over[c] /\ ret_cell'[c] = ret_cell[c]
      /\ to_cell' = to_cell /\ from_cell' = from_cell
      /\ ours'[c] = ours[c] \cup got
    BY <1>0, Functions DEF CallReturns, bvars
<1>2. s \in Signature
    BY <1>0, CallAtWork
<1>3. outcome[c] = "" /\ over[c] = {}
    BY <1>1, NothingWrong DEF Accounts, CallAccount
<1>4. \A i, k : /\ <<i, "in", k>> \notin got
                /\ IsResult(s, i) => (<<i, "out", k>> \in got <=> k \in Received(ResultAt(s, i)))
                /\ ~IsResult(s, i) => <<i, "out", k>> \notin got
    <2>1. 0 \notin DOMAIN s.args
        BY <1>2, Places
    <2>2. \A i, t, k : <<i, t, k>> \in given <=> i \in DOMAIN s.args /\ IsOut(s.args[i])
                                                 /\ t = "out" /\ k \in Received(s.args[i])
        <3>1. \A i, t, k : <<i, t, k>> \in given <=>
                 \E j \in DOMAIN s.args :
                    <<i, t, k>> \in Of(j, "out", When(IsOut(s.args[j]), Received(s.args[j])))
            OBVIOUS
        <3> HIDE DEF given
        <3>2. ASSUME NEW i, NEW t, NEW k, NEW j
              PROVE <<i, t, k>> \in Of(j, "out", When(IsOut(s.args[j]), Received(s.args[j])))
                    <=> i = j /\ t = "out" /\ IsOut(s.args[j]) /\ k \in Received(s.args[j])
            <4>1. <<i, t, k>> \in Of(j, "out", When(IsOut(s.args[j]), Received(s.args[j])))
                  <=> i = j /\ t = "out" /\ k \in When(IsOut(s.args[j]), Received(s.args[j]))
                BY OfMember
            <4> QED BY <4>1 DEF When
        <3> SUFFICES ASSUME NEW i, NEW t, NEW k
                     PROVE <<i, t, k>> \in given <=> i \in DOMAIN s.args /\ IsOut(s.args[i])
                                                     /\ t = "out" /\ k \in Received(s.args[i])
            OBVIOUS
        <3> DEFINE in(j) == <<i, t, k>> \in Of(j, "out", When(IsOut(s.args[j]), Received(s.args[j])))
        <3>3. <<i, t, k>> \in given <=> \E j \in DOMAIN s.args : in(j)
            BY <3>1
        <3>4. \A j : in(j) <=> i = j /\ t = "out" /\ IsOut(s.args[j]) /\ k \in Received(s.args[j])
            BY <3>2
        <3> HIDE DEF in
        <3> QED BY <3>3, <3>4
    <2>3. \A i, t, k : <<i, t, k>> \in Of(0, "out", Received(s.ret))
                       <=> i = 0 /\ t = "out" /\ k \in Received(s.ret)
        BY OfMember
    <2> HIDE DEF given
    <2>4. \A i, t, k : <<i, t, k>> \in got <=>
             \/ i \in DOMAIN s.args /\ IsOut(s.args[i]) /\ t = "out" /\ k \in Received(s.args[i])
             \/ i = 0 /\ t = "out" /\ k \in Received(s.ret)
        BY <2>2, <2>3
    <2> HIDE DEF got
    <2> QED BY <2>1, <2>4 DEF IsResult, ResultAt
<1> HIDE DEF given, got
<1>5. \A i, side, k : k \in Held(c, i, side)' <=>
         \/ k \in Held(c, i, side)
         \/ k \in 0 .. MaxItems /\ <<i, side, k>> \in got
    BY <1>1, HeldGets
<1>6. ASSUME NEW i
      PROVE /\ Held(c, i, "in")' = Held(c, i, "in")
            /\ ~IsResult(s, i) => Held(c, i, "out")' = Held(c, i, "out")
            /\ IsResult(s, i)
               => Held(c, i, "out")' = Held(c, i, "out") \cup Received(ResultAt(s, i))
    <2>1. \A k : k \in Held(c, i, "in")' <=> k \in Held(c, i, "in")
        BY <1>4, <1>5
    <2>2. ~IsResult(s, i) => \A k : k \in Held(c, i, "out")' <=> k \in Held(c, i, "out")
        BY <1>4, <1>5
    <2>3. ASSUME IsResult(s, i)
          PROVE \A k : k \in Held(c, i, "out")' <=>
                       k \in Held(c, i, "out") \/ k \in Received(ResultAt(s, i))
        <3>1. Received(ResultAt(s, i)) \subseteq 0 .. MaxItems
            <4>1. 1 \in Int /\ ResultAt(s, i) \in Parameter
                BY <1>2, <2>3, Places
            <4> QED BY <4>1, ConvertedChunks
        <3> QED BY <3>1, <2>3, <1>4, <1>5
    <2>4. Held(c, i, "in")' = Held(c, i, "in")
        BY <2>1
    <2>5. ~IsResult(s, i) => Held(c, i, "out")' = Held(c, i, "out")
        BY <2>2
    <2>6. IsResult(s, i)
          => Held(c, i, "out")' = Held(c, i, "out") \cup Received(ResultAt(s, i))
        BY <2>3
    <2> QED BY <2>4, <2>5, <2>6
<1>7. \A i : /\ Answered(c, i)' = Answered(c, i) /\ ToCells(c, i)' = ToCells(c, i)
             /\ FromCells(c, i)' = FromCells(c, i)
    BY <1>1 DEF Answered, ToCells, FromCells
<1>8. ASSUME NEW i \in 0 .. Width
      PROVE PlaceAccount(c, i)'
    <2>0. /\ ~IsArg(s, i) => Held(c, i, "in") = {}
          /\ ~IsResult(s, i) => Held(c, i, "out") = {} /\ Answered(c, i) = {}
          /\ IsArg(s, i) => ArgAccount(c, i)
          /\ IsResult(s, i) => ResultAccount(c, i)
        BY <1>0, <1>1, PlaceSays DEF Working, Converting
    <2>1. ~(i < at'[c])
        BY <1>1
    <2>2. IsArg(s, i) => GaveArg(c, i)'
        <3>1. IsArg(s, i) => GaveArg(c, i)
            BY <2>0, <1>1 DEF ArgAccount
        <3> QED BY <3>1, <1>0, <1>1, <1>6, <1>7 DEF GaveArg
    <2>3. IsResult(s, i) => Awaits(c, i, Got(ResultAt(sig[c], i)))'
        <3>1. IsResult(s, i) => Awaits(c, i, CallerAlloc(ResultAt(s, i)))
            BY <2>0, <1>0, <1>1 DEF ResultAccount
        <3>2. IsResult(s, i) => Held(c, i, "out")' = Got(ResultAt(s, i))
            BY <3>1, <1>6 DEF Got, Awaits
        <3> QED BY <3>1, <3>2, <1>1, <1>7 DEF Awaits
    <2>4. IsArg(s, i) => ArgAccount(c, i)'
        BY <2>2, <1>1 DEF ArgAccount
    <2>5. IsResult(s, i) => ResultAccount(c, i)'
        BY <2>1, <2>3, <1>1 DEF ResultAccount
    <2>6. ~IsArg(s, i) => Held(c, i, "in")' = {}
        BY <2>0, <1>6
    <2>7. ~IsResult(s, i) => Held(c, i, "out")' = {} /\ Answered(c, i)' = {}
        BY <2>0, <1>6, <1>7
    <2> QED BY <2>4, <2>5, <2>6, <2>7, <1>1 DEF PlaceAccount
<1> QED BY <1>1, <1>3, <1>8 DEF CallAccount, Working, Converting

\* It has set an error: there is nothing of the results but what was allocated for
\* them.
LEMMA CallThrowsAccount ==
    ASSUME Accounts, NEW c \in Call, CallThrows(c)
    PROVE CallAccount(c)'
<1>1. /\ pc[c] = "callee" /\ pc'[c] = "clean from" /\ at'[c] = at[c]
      /\ sig'[c] = sig[c] /\ block'[c] = block[c] /\ outcome'[c] = "gerror"
      /\ result'[c] = result[c] /\ over'[c] = over[c] /\ ret_cell'[c] = ret_cell[c]
      /\ to_cell' = to_cell /\ from_cell' = from_cell
      /\ ours'[c] = ours[c]
    BY Functions DEF CallThrows, bvars, mvars
<1>2. over[c] = {}
    BY <1>1, NothingWrong DEF Accounts, CallAccount
<1>3. /\ \A i, side : Held(c, i, side)' = Held(c, i, side)
      /\ \A i : /\ Answered(c, i)' = Answered(c, i) /\ ToCells(c, i)' = ToCells(c, i)
                /\ FromCells(c, i)' = FromCells(c, i)
    BY <1>1 DEF Held, Answered, ToCells, FromCells
<1>4. ASSUME NEW i \in 0 .. Width
      PROVE PlaceAccount(c, i)'
    <2>0. /\ ~IsArg(sig[c], i) => Held(c, i, "in") = {}
          /\ ~IsResult(sig[c], i) => Held(c, i, "out") = {} /\ Answered(c, i) = {}
          /\ IsArg(sig[c], i) => ArgAccount(c, i)
          /\ IsResult(sig[c], i) => ResultAccount(c, i)
        BY <1>1, PlaceSays DEF Working, Converting
    <2>2. IsArg(sig[c], i) => GaveArg(c, i)'
        <3>1. IsArg(sig[c], i) => GaveArg(c, i)
            BY <2>0, <1>1 DEF ArgAccount
        <3> QED BY <3>1, <1>1, <1>3 DEF GaveArg
    <2>3. IsResult(sig[c], i) => Awaits(c, i, CallerAlloc(ResultAt(sig[c], i)))'
        <3>1. IsResult(sig[c], i) => Awaits(c, i, CallerAlloc(ResultAt(sig[c], i)))
            BY <2>0, <1>1 DEF ResultAccount
        <3> QED BY <3>1, <1>1, <1>3 DEF Awaits
    <2>4. IsArg(sig[c], i) => ArgAccount(c, i)'
        BY <2>2, <1>1 DEF ArgAccount
    <2>5. IsResult(sig[c], i) => ResultAccount(c, i)'
        BY <2>3, <1>1 DEF ResultAccount
    <2> QED BY <2>0, <2>4, <2>5, <1>1, <1>3 DEF PlaceAccount
<1> QED BY <1>1, <1>2, <1>4 DEF CallAccount, Working, Converting

\* All results are converted.
LEMMA OutDoneAccount ==
    ASSUME Accounts, NEW c \in Call, OutDone(c)
    PROVE CallAccount(c)'
<1>1. /\ pc[c] = "out" /\ pc'[c] = "clean from" /\ at'[c] = at[c] /\ at[c] > Len(sig[c].args)
      /\ sig'[c] = sig[c] /\ block'[c] = block[c] /\ outcome'[c] = "ok"
      /\ result'[c] = result[c] /\ over'[c] = over[c] /\ ret_cell'[c] = ret_cell[c]
      /\ to_cell' = to_cell /\ from_cell' = from_cell
      /\ ours'[c] = ours[c]
    BY Functions DEF OutDone, bvars, mvars
<1>2. over[c] = {}
    BY <1>1, NothingWrong DEF Accounts, CallAccount
<1>3. /\ \A i, side : Held(c, i, side)' = Held(c, i, side)
      /\ \A i : /\ Answered(c, i)' = Answered(c, i) /\ ToCells(c, i)' = ToCells(c, i)
                /\ FromCells(c, i)' = FromCells(c, i)
    BY <1>1 DEF Held, Answered, ToCells, FromCells
<1>4. ASSUME NEW i \in 0 .. Width
      PROVE PlaceAccount(c, i)'
    <2>0. /\ ~IsArg(sig[c], i) => Held(c, i, "in") = {}
          /\ ~IsResult(sig[c], i) => Held(c, i, "out") = {} /\ Answered(c, i) = {}
          /\ IsArg(sig[c], i) => ArgAccount(c, i)
          /\ IsResult(sig[c], i) => ResultAccount(c, i)
        BY <1>1, PlaceSays DEF Working, Converting
    <2>1. IsResult(sig[c], i) => i < at[c]
        <3>1. sig[c] \in Signature /\ at[c] \in Int
            BY CallAtWork
        <3>2. Len(sig[c].args) \in Nat /\ DOMAIN sig[c].args = 1 .. Len(sig[c].args)
            BY <3>1, Places
        <3>0. at[c] > Len(sig[c].args)
            BY <1>1
        <3>3. CASE i = 0
            BY <3>0, <3>1, <3>2, <3>3
        <3>4. CASE i # 0
            <4>1. IsResult(sig[c], i) => i \in 1 .. Len(sig[c].args)
                BY <3>2, <3>4 DEF IsResult
            <4> QED BY <4>1, <3>0, <3>1, <3>2
        <3> QED BY <3>3, <3>4
    <2>2. IsArg(sig[c], i) => GaveArg(c, i)'
        <3>1. IsArg(sig[c], i) => GaveArg(c, i)
            BY <2>0, <1>1 DEF ArgAccount
        <3> QED BY <3>1, <1>1, <1>3 DEF GaveArg
    <2>3. IsResult(sig[c], i) => Gets(c, i)'
        <3>1. IsResult(sig[c], i) => Gets(c, i)
            BY <2>0, <2>1, <1>1 DEF ResultAccount
        <3> QED BY <3>1, <1>1, <1>3 DEF Gets, HasResult
    <2>4. IsArg(sig[c], i) => ArgAccount(c, i)'
        BY <2>2, <1>1 DEF ArgAccount
    <2>5. IsResult(sig[c], i) => ResultAccount(c, i)'
        BY <2>3, <1>1 DEF ResultAccount
    <2> QED BY <2>0, <2>4, <2>5, <1>1, <1>3 DEF PlaceAccount
<1> QED BY <1>1, <1>2, <1>4 DEF CallAccount, Working, Converting

\* The block goes back; what the call holds stays what it was.
LEMMA ClearAccount ==
    ASSUME Accounts, NEW c \in Call, Clear(c)
    PROVE CallAccount(c)'
<1>1. /\ pc[c] = "clear" /\ pc'[c] = "done" /\ at'[c] = at[c]
      /\ sig'[c] = sig[c] /\ outcome'[c] = outcome[c]
      /\ over'[c] = over[c] /\ ours'[c] = ours[c]
    BY Functions DEF Clear, mvars
<1>2. Untold(c)' = Untold(c) /\ ReleasedInError(c)' = ReleasedInError(c)
    BY <1>1 DEF Untold, AllocatedForResults, CopiedForC,
           ResultsKept, ResultsNotMade, ReleasedInError, BeforeFailure, GivenUpBefore,
           GivenUpInside, DroppedBefore, Arg
<1>3. CallAccount(c)
    BY DEF Accounts
<1> QED BY <1>1, <1>2, <1>3 DEF CallAccount, Working, Converting

\* The caller drops everything.
LEMMA FinishAccount ==
    ASSUME Accounts, NEW c \in Call, Finish(c)
    PROVE CallAccount(c)'
<1>1. /\ pc'[c] = "idle" /\ outcome'[c] = "" /\ over'[c] = {} /\ ours'[c] = {}
      /\ result'[c] = {} /\ ret_cell'[c] = {}
    BY Functions DEF Finish
<1> QED BY <1>1 DEF CallAccount, Working, Converting

\* The argument or result that is converted next to Python.
LEMMA NextResult ==
    ASSUME Accounts, NEW c \in Call, pc[c] = "out", NEW s, s = sig[c], NEW n, n = at[c],
           n <= Len(s.args)
    PROVE /\ s \in Signature /\ n \in 0 .. Width /\ n \in Int
          /\ n # 0 => n \in DOMAIN s.args
          /\ IsResult(s, n) <=> ~(n > 0 /\ ~IsOut(s.args[n]))
          /\ Result(c) = ResultAt(s, n)
          /\ n # 0 => block[c] \in Block
<1>1. s \in Signature /\ n \in 0 .. Width + 1
    BY CallAtWork
<1>2. Width \in Nat /\ Len(s.args) \in Nat /\ Len(s.args) <= Width
      /\ DOMAIN s.args = 1 .. Len(s.args)
    BY <1>1, Places
<1>3. n \in Int /\ n \in 0 .. Width
    BY <1>1, <1>2
<1>4. n # 0 => n \in DOMAIN s.args
    BY <1>2, <1>3
<1>5. IsResult(s, n) <=> ~(n > 0 /\ ~IsOut(s.args[n]))
    <2>1. CASE n = 0
        BY <2>1 DEF IsResult
    <2>2. CASE n # 0
        BY <2>2, <1>3, <1>4 DEF IsResult
    <2> QED BY <2>1, <2>2
<1>6. Result(c) = ResultAt(s, n)
    BY DEF Result, ResultAt, Arg
<1>7. n # 0 => block[c] \in Block
    BY <1>4, CallAtWork DEF Working, Converting
<1> QED BY <1>1, <1>3, <1>4, <1>5, <1>6, <1>7

\* Storing the cells of one result.
LEMMA CellsStored ==
    ASSUME Accounts, NEW c \in Call, NEW n \in 0 .. Width, n = at[c], NEW cells,
           n # 0 => block[c] \in Block, StoreTo(c, cells), block'[c] = block[c]
    PROVE /\ \A j \in 0 .. Width : ToCells(c, j)' = IF j = n THEN cells ELSE ToCells(c, j)
          /\ DOMAIN ret_cell' = Call
          /\ \A d \in Call : d # c => ret_cell'[d] = ret_cell[d]
          /\ DOMAIN to_cell' = Block
          /\ \A b \in Block : /\ DOMAIN to_cell'[b] = 1 .. Width
                              /\ b # block[c] => to_cell'[b] = to_cell[b]
<1>1. /\ DOMAIN ret_cell = Call /\ DOMAIN to_cell = Block
      /\ \A b \in Block : DOMAIN to_cell[b] = 1 .. Width
    BY Functions
<1>2. CASE n = 0
    <2>1. ret_cell' = [ret_cell EXCEPT ![c] = cells] /\ to_cell' = to_cell
        BY <1>2 DEF StoreTo
    <2>2. ret_cell'[c] = cells
        BY <2>1, <1>1
    <2>3. \A j \in 0 .. Width : ToCells(c, j)' = IF j = n THEN cells ELSE ToCells(c, j)
        BY <2>1, <2>2, <1>2 DEF ToCells
    <2> QED BY <2>1, <2>3, <1>1
<1>3. CASE n # 0
    <2>1. to_cell' = [to_cell EXCEPT ![block[c]][n] = cells] /\ ret_cell' = ret_cell
        BY <1>3 DEF StoreTo
    <2>2. n \in 1 .. Width /\ block[c] \in Block
        BY <1>3
    <2>3. to_cell'[block[c]] = [to_cell[block[c]] EXCEPT ![n] = cells]
        BY <2>1, <2>2, <1>1
    <2>4. ASSUME NEW j \in 0 .. Width
          PROVE ToCells(c, j)' = IF j = n THEN cells ELSE ToCells(c, j)
        <3>1. CASE j = 0
            BY <3>1, <2>1, <1>3 DEF ToCells
        <3>2. CASE j # 0
            <4>1. j \in 1 .. Width
                BY <3>2
            <4>2. to_cell'[block[c]][j] = IF j = n THEN cells ELSE to_cell[block[c]][j]
                BY <4>1, <2>2, <2>3, <1>1
            <4> QED BY <4>2, <3>2 DEF ToCells
        <3> QED BY <3>1, <3>2
    <2>5. ASSUME NEW b \in Block
          PROVE DOMAIN to_cell'[b] = 1 .. Width /\ (b # block[c] => to_cell'[b] = to_cell[b])
        BY <2>1, <2>2, <2>3, <1>1
    <2>6. DOMAIN to_cell' = Block
        BY <2>1, <1>1
    <2> QED BY <2>1, <2>4, <2>5, <2>6, <1>1
<1> QED BY <1>2, <1>3

\* One more result was converted: the Python value answers for what it took, the
\* cells tell of the rest.
LEMMA MarshalOutAccount ==
    ASSUME Accounts, NEW c \in Call, MarshalOut(c)
    PROVE CallAccount(c)'
<1>0. PICK s, n : s = sig[c] /\ n = at[c]
    OBVIOUS
<1> DEFINE r == ResultAt(s, n)
           shown == ToPy(r, Whole)
           taken == Of(n, "out", shown.taken)
           cells == CellsOf(n, "out", shown.cells)
<1>1. /\ pc[c] = "out" /\ pc'[c] = "out" /\ n <= Len(s.args) /\ at'[c] = n + 1
      /\ sig'[c] = s /\ block'[c] = block[c] /\ outcome'[c] = outcome[c]
      /\ from_cell' = from_cell
    BY <1>0, Functions DEF MarshalOut, Advance
<1>2. /\ s \in Signature /\ n \in 0 .. Width /\ n \in Int
      /\ IsResult(s, n) <=> ~(n > 0 /\ ~IsOut(s.args[n]))
      /\ Result(c) = r
      /\ n # 0 => block[c] \in Block
    BY <1>0, <1>1, NextResult
<1>3. outcome[c] = "" /\ over[c] = {}
    BY <1>1, NothingWrong DEF Accounts, CallAccount
<1>4. ~IsResult(s, n) => /\ ours' = ours /\ result' = result /\ over' = over
                         /\ ret_cell' = ret_cell /\ to_cell' = to_cell
    BY <1>0, <1>2 DEF MarshalOut, mvars, Arg
<1>5. IsResult(s, n) => /\ StoreTo(c, cells) /\ over' = over
                        /\ ours' = [ours EXCEPT ![c] = @ \ taken]
                        /\ result' = [result EXCEPT ![c] = @ \cup taken]
    BY <1>0, <1>2 DEF MarshalOut, Arg
<1>6. over'[c] = {}
    BY <1>3, <1>4, <1>5
<1>7. ASSUME IsResult(s, n)
      PROVE /\ r \in Parameter /\ Annotated(r) /\ shown.taken \subseteq 0 .. MaxItems
            /\ shown.gone = {}
    <2>1. r \in Parameter /\ Annotated(r) /\ Whole \in Int
        BY <1>2, <1>7, Places DEF Whole
    <2> QED BY <2>1, ConvertedChunks, WholeResult
<1> HIDE DEF r, shown, taken, cells
<1>8. ASSUME IsResult(s, n)
      PROVE /\ \A i : Held(c, i, "in")' = Held(c, i, "in")
            /\ \A i : i # n => Held(c, i, "out")' = Held(c, i, "out")
            /\ Held(c, n, "out")' = Held(c, n, "out") \ shown.taken
            /\ \A i : i # n => Answered(c, i)' = Answered(c, i)
            /\ Answered(c, n)' = Answered(c, n) \cup shown.taken
            /\ \A i \in 0 .. Width : ToCells(c, i)' = IF i = n THEN cells ELSE ToCells(c, i)
    <2>1. ours'[c] = ours[c] \ taken /\ result'[c] = (result[c] \ {}) \cup taken
        BY <1>5, <1>8, Functions
    <2>2. \A i, t, k : <<i, t, k>> \in taken <=> i = n /\ t = "out" /\ k \in shown.taken
        BY OfMember DEF taken
    <2>3. \A i, t, k : k \in Held(c, i, t)' <=> k \in Held(c, i, t) /\ <<i, t, k>> \notin taken
        BY <2>1, HeldLess
    <2>4. \A i, k : k \in Answered(c, i)' <=>
             \/ k \in Answered(c, i) /\ <<i, "out", k>> \notin {}
             \/ k \in 0 .. MaxItems /\ <<i, "out", k>> \in taken
        BY <2>1, AnsweredChange
    <2>5. ASSUME NEW i
          PROVE Held(c, i, "in")' = Held(c, i, "in")
        <3>0. \A k : <<i, "in", k>> \notin taken
            BY <2>2
        <3>1. \A k : k \in Held(c, i, "in")' <=> k \in Held(c, i, "in")
            BY <3>0, <2>3
        <3> QED BY <3>1
    <2>6. ASSUME NEW i, i # n
          PROVE Held(c, i, "out")' = Held(c, i, "out") /\ Answered(c, i)' = Answered(c, i)
        <3>1. \A k : k \in Held(c, i, "out")' <=> k \in Held(c, i, "out")
            BY <2>2, <2>3, <2>6
        <3>2. \A k : k \in Answered(c, i)' <=> k \in Answered(c, i)
            BY <2>2, <2>4, <2>6
        <3>3. Held(c, i, "out")' = Held(c, i, "out")
            BY <3>1
        <3>4. Answered(c, i)' = Answered(c, i)
            BY <3>2
        <3> QED BY <3>3, <3>4
    <2>7. Held(c, n, "out")' = Held(c, n, "out") \ shown.taken
        <3>1. \A k : k \in Held(c, n, "out")' <=> k \in Held(c, n, "out") /\ k \notin shown.taken
            BY <2>2, <2>3
        <3> QED BY <3>1
    <2>8. Answered(c, n)' = Answered(c, n) \cup shown.taken
        <3>1. \A k : k \in Answered(c, n)' <=> k \in Answered(c, n) \/ k \in shown.taken
            BY <2>2, <2>4, <1>7, <1>8
        <3> QED BY <3>1
    <2>9. \A i \in 0 .. Width : ToCells(c, i)' = IF i = n THEN cells ELSE ToCells(c, i)
        BY <1>0, <1>1, <1>2, <1>5, <1>8, CellsStored
    <2> QED BY <2>5, <2>6, <2>7, <2>8, <2>9
<1>9. ASSUME NEW i, i # n \/ ~IsResult(s, n), i \in 0 .. Width
      PROVE /\ Held(c, i, "in")' = Held(c, i, "in") /\ Held(c, i, "out")' = Held(c, i, "out")
            /\ Answered(c, i)' = Answered(c, i) /\ ToCells(c, i)' = ToCells(c, i)
    <2>1. CASE IsResult(s, n)
        BY <2>1, <1>8, <1>9
    <2>2. CASE ~IsResult(s, n)
        BY <2>2, <1>1, <1>4 DEF Held, Answered, ToCells
    <2> QED BY <2>1, <2>2
<1>10. \A i : /\ FromCells(c, i)' = FromCells(c, i) /\ Held(c, i, "in")' = Held(c, i, "in")
    BY <1>1, <1>4, <1>8 DEF FromCells, Held
<1>11. ASSUME NEW i \in 0 .. Width
       PROVE PlaceAccount(c, i)'
    <2>0. /\ ~IsArg(s, i) => Held(c, i, "in") = {}
          /\ ~IsResult(s, i) => Held(c, i, "out") = {} /\ Answered(c, i) = {}
          /\ IsArg(s, i) => ArgAccount(c, i)
          /\ IsResult(s, i) => ResultAccount(c, i)
        BY <1>0, <1>1, PlaceSays DEF Working, Converting
    <2>1. IsArg(s, i) => ArgAccount(c, i)'
        <3>1. IsArg(s, i) => GaveArg(c, i)
            BY <2>0, <1>1 DEF ArgAccount
        <3>2. IsArg(s, i) => GaveArg(c, i)'
            BY <3>1, <1>0, <1>1, <1>10 DEF GaveArg
        <3> QED BY <3>2, <1>1 DEF ArgAccount
    <2>2. ASSUME IsResult(s, i)
          PROVE IF i < n THEN Gets(c, i) ELSE Awaits(c, i, Got(ResultAt(s, i)))
        BY <2>0, <2>2, <1>0, <1>1 DEF ResultAccount
    <2>3. CASE i = n /\ IsResult(s, n)
        <3>1. Awaits(c, n, Got(r)) /\ ResultAt(sig'[c], n) = r
            BY <2>2, <2>3, <1>1, <1>2 DEF r
        <3>2. HasResult(c, n, Whole)'
            <4>1. Held(c, n, "out")' = Got(r) \ (shown.taken \cup shown.gone)
                BY <2>3, <3>1, <1>7, <1>8 DEF Awaits
            <4>2. ToCells(c, n)' = CellsOf(n, "out", shown.cells)
                BY <2>3, <1>8 DEF cells
            <4> QED BY <3>1, <4>1, <4>2 DEF HasResult, shown
        <3>3. Answered(c, n)' = shown.taken
            BY <2>3, <3>1, <1>8 DEF Awaits
        <3>4. Gets(c, n)'
            BY <3>1, <3>2, <3>3 DEF Gets, shown
        <3>5. i < at'[c]
            BY <2>3, <1>1, <1>2
        <3>6. ResultAccount(c, i)'
            BY <2>3, <3>4, <3>5, <1>1 DEF ResultAccount
        <3> QED BY <2>0, <2>1, <2>3, <3>6, <1>1, <1>10 DEF PlaceAccount
    <2>4. CASE i # n \/ ~IsResult(s, n)
        <3>1. /\ Held(c, i, "out")' = Held(c, i, "out")
              /\ Answered(c, i)' = Answered(c, i) /\ ToCells(c, i)' = ToCells(c, i)
            BY <2>4, <1>9
        <3>2. ASSUME IsResult(s, i)
              PROVE ResultAccount(c, i)'
            <4>1. i < at'[c] <=> i < n
                BY <2>4, <3>2, <1>1, <1>2
            <4>2. IF i < at'[c] THEN Gets(c, i)' ELSE Awaits(c, i, Got(ResultAt(sig[c], i)))'
                BY <4>1, <2>2, <3>1, <3>2, <1>0, <1>1 DEF Gets, HasResult, Awaits
            <4> QED BY <4>2, <1>1 DEF ResultAccount
        <3> QED BY <2>0, <2>1, <3>1, <3>2, <1>1, <1>10 DEF PlaceAccount
    <2> QED BY <2>3, <2>4
<1> QED BY <1>1, <1>3, <1>6, <1>11 DEF CallAccount, Working, Converting

\* A result was not converted: the Python values made before it have released what
\* they answered for.
LEMMA MarshalOutFailsAccount ==
    ASSUME Accounts, NEW c \in Call, NEW f \in 0 .. MaxItems + 1, MarshalOutFails(c, f)
    PROVE CallAccount(c)'
<1>0. PICK s, n : s = sig[c] /\ n = at[c]
    OBVIOUS
<1> DEFINE r == ResultAt(s, n)
           shown == ToPy(r, f)
           gone == Of(n, "out", shown.gone)
           cells == CellsOf(n, "out", shown.cells)
<1>1. /\ pc[c] = "out" /\ pc'[c] = "clean from" /\ n <= Len(s.args) /\ at'[c] = n
      /\ sig'[c] = s /\ block'[c] = block[c] /\ outcome'[c] = "badresult"
      /\ from_cell' = from_cell /\ result'[c] = {}
    BY <1>0, Functions DEF MarshalOutFails
<1>2. /\ s \in Signature /\ n \in 0 .. Width /\ n \in Int
      /\ IsResult(s, n) /\ Result(c) = r
      /\ n # 0 => block[c] \in Block
    <2>1. /\ s \in Signature /\ n \in 0 .. Width /\ n \in Int
          /\ IsResult(s, n) <=> ~(n > 0 /\ ~IsOut(s.args[n]))
          /\ Result(c) = r
          /\ n # 0 => block[c] \in Block
        BY <1>0, <1>1, NextResult
    <2>2. n > 0 => IsOut(s.args[n])
        BY <1>0 DEF MarshalOutFails, Arg
    <2> QED BY <2>1, <2>2
<1>3. outcome[c] = "" /\ over[c] = {}
    BY <1>1, NothingWrong DEF Accounts, CallAccount
<1>4. f \in r.bad /\ StoreTo(c, cells) /\ Free(c, {gone})
    BY <1>0, <1>2 DEF MarshalOutFails
<1>5. /\ r \in Parameter /\ Annotated(r) /\ IsOut(r)
      /\ shown.taken = {} /\ shown.gone \subseteq Got(r)
    <2>1. r \in Parameter /\ Annotated(r) /\ IsOut(r)
        BY <1>2, Places
    <2> QED BY <2>1, <1>4, FailedResult
<1> HIDE DEF r, shown, gone, cells
<1>6. Awaits(c, n, Got(r))
    <2>1. ResultAccount(c, n)
        BY <1>0, <1>1, <1>2, PlaceSays DEF Working, Converting
    <2>2. ~(n < n)
        BY <1>2
    <2> QED BY <2>1, <2>2, <1>0, <1>1 DEF ResultAccount, r
<1>7. gone \subseteq ours[c]
    <2>1. \A x \in gone : \E k \in shown.gone : x = <<n, "out", k>>
        BY DEF gone, Of
    <2>2. \A k \in shown.gone : <<n, "out", k>> \in ours[c]
        BY <1>5, <1>6 DEF Awaits, Held
    <2> QED BY <2>1, <2>2
<1>8. ours'[c] = ours[c] \ gone /\ over'[c] = {}
    <2> DEFINE R == {gone}
               none == {}
    <2>1. /\ \A x \in R : x \subseteq ours[c] \cup none
          /\ \A x, y \in R : x # y => x \cap y = {}
          /\ UNION R = gone /\ Free(c, R) /\ DOMAIN over = Call
          /\ ours \in [Call -> SUBSET ChunkId]
        BY <1>4, <1>7, Functions
    <2> HIDE DEF R, none
    <2>2. ours'[c] = ours[c] \ UNION R /\ over'[c] \subseteq over[c] \cup none
        BY <2>1, FreeTells
    <2> QED BY <2>1, <2>2, <1>3 DEF none
<1>9. /\ \A i : Held(c, i, "in")' = Held(c, i, "in")
      /\ \A i : i # n => Held(c, i, "out")' = Held(c, i, "out")
      /\ Held(c, n, "out")' = Held(c, n, "out") \ shown.gone
    <2>2. \A i, t, k : <<i, t, k>> \in gone <=> i = n /\ t = "out" /\ k \in shown.gone
        BY OfMember DEF gone
    <2>3. \A i, t, k : k \in Held(c, i, t)' <=> k \in Held(c, i, t) /\ <<i, t, k>> \notin gone
        BY <1>8, HeldLess
    <2>5. ASSUME NEW i
          PROVE Held(c, i, "in")' = Held(c, i, "in")
        <3>0. \A k : <<i, "in", k>> \notin gone
            BY <2>2
        <3>1. \A k : k \in Held(c, i, "in")' <=> k \in Held(c, i, "in")
            BY <3>0, <2>3
        <3> QED BY <3>1
    <2>6. ASSUME NEW i, i # n
          PROVE Held(c, i, "out")' = Held(c, i, "out")
        <3>1. \A k : k \in Held(c, i, "out")' <=> k \in Held(c, i, "out")
            BY <2>2, <2>3, <2>6
        <3> QED BY <3>1
    <2>7. Held(c, n, "out")' = Held(c, n, "out") \ shown.gone
        <3>1. \A k : k \in Held(c, n, "out")' <=> k \in Held(c, n, "out") /\ k \notin shown.gone
            BY <2>2, <2>3
        <3> QED BY <3>1
    <2> QED BY <2>5, <2>6, <2>7
<1>10. /\ \A i \in 0 .. Width : ToCells(c, i)' = IF i = n THEN cells ELSE ToCells(c, i)
       /\ \A i : FromCells(c, i)' = FromCells(c, i) /\ Answered(c, i)' = {}
    <2>1. \A i \in 0 .. Width : ToCells(c, i)' = IF i = n THEN cells ELSE ToCells(c, i)
        BY <1>0, <1>1, <1>2, <1>4, CellsStored
    <2> QED BY <2>1, <1>1 DEF FromCells, Answered
<1>11. ASSUME NEW i \in 0 .. Width
       PROVE PlaceAccount(c, i)'
    <2>0. /\ ~IsArg(s, i) => Held(c, i, "in") = {}
          /\ ~IsResult(s, i) => Held(c, i, "out") = {} /\ Answered(c, i) = {}
          /\ IsArg(s, i) => ArgAccount(c, i)
          /\ IsResult(s, i) => ResultAccount(c, i)
        BY <1>0, <1>1, PlaceSays DEF Working, Converting
    <2>1. IsArg(s, i) => ArgAccount(c, i)'
        <3>1. IsArg(s, i) => GaveArg(c, i)
            BY <2>0, <1>1 DEF ArgAccount
        <3>2. IsArg(s, i) => GaveArg(c, i)'
            BY <3>1, <1>0, <1>1, <1>9, <1>10 DEF GaveArg
        <3> QED BY <3>2, <1>1 DEF ArgAccount
    <2>2. ASSUME IsResult(s, i)
          PROVE IF i < n THEN Gets(c, i) ELSE Awaits(c, i, Got(ResultAt(s, i)))
        BY <2>0, <2>2, <1>0, <1>1 DEF ResultAccount
    <2>3. CASE i = n
        <3>1. ResultAt(sig'[c], n) = r
            BY <1>1 DEF r
        <3>2. HasResult(c, n, f)'
            <4>1. Held(c, n, "out")' = Got(r) \ (shown.taken \cup shown.gone)
                BY <1>5, <1>6, <1>9 DEF Awaits
            <4>2. ToCells(c, n)' = CellsOf(n, "out", shown.cells)
                BY <2>3, <1>10 DEF cells
            <4> QED BY <3>1, <4>1, <4>2 DEF HasResult, shown
        <3>3. \E g \in ResultAt(sig'[c], i).bad : HasResult(c, i, g)'
            BY <2>3, <3>1, <3>2, <1>4
        <3>4. ~(i < at'[c]) /\ ~(i > at'[c])
            <4>1. n \in Int /\ at'[c] = n
                BY <1>1, <1>2
            <4> QED BY <4>1, <2>3
        <3>5. ResultAccount(c, i)'
            BY <3>3, <3>4, <1>1, <1>10 DEF ResultAccount
        <3> QED BY <2>0, <2>1, <2>3, <3>5, <1>1, <1>2, <1>9 DEF PlaceAccount
    <2>4. CASE i # n
        <3>1. Held(c, i, "out")' = Held(c, i, "out") /\ ToCells(c, i)' = ToCells(c, i)
            BY <2>4, <1>9, <1>10
        <3>2. ASSUME IsResult(s, i)
              PROVE ResultAccount(c, i)'
            <4>1. i < n => HasResult(c, i, Whole)'
                BY <2>2, <3>1, <3>2, <1>0, <1>1 DEF Gets, HasResult
            <4>2. ~(i < n) => Awaits(c, i, Got(ResultAt(sig[c], i)))'
                BY <2>2, <3>1, <3>2, <1>0, <1>1, <1>10 DEF Awaits
            <4>3. i > n => ~(i < n)
                BY <1>2
            <4> QED BY <4>1, <4>2, <4>3, <2>4, <1>1, <1>10 DEF ResultAccount
        <3> QED BY <2>0, <2>1, <3>1, <3>2, <1>1, <1>9, <1>10 DEF PlaceAccount
    <2> QED BY <2>3, <2>4
<1> QED BY <1>1, <1>2, <1>8, <1>11 DEF CallAccount, Working, Converting

(***************************************************************************)
(* Cleaning up after the arguments.                                        *)
(***************************************************************************)

\* Cells N release chunks of one argument or result: no chunk twice, none but A,
\* and all of D.
Tells(N, success, i, side, A, D) ==
    /\ Separate(N, success)
    /\ \A x \in N : Effect(x, success) \subseteq Of(i, side, A)
    /\ \A k \in D : \E x \in N : <<i, side, k>> \in Effect(x, success)

\* Cells that tell of chunks by their number tell of the chunks of a place.
LEMMA NamedTell ==
    ASSUME NEW i, NEW side, NEW cells, NEW success \in BOOLEAN, NEW A, NEW D,
           Separate(cells, success), Within(cells, success, A), Covers(cells, success, D)
    PROVE Tells(CellsOf(i, side, cells), success, i, side, A, D)
<1> DEFINE N == CellsOf(i, side, cells)
<1>1. Separate(N, success)
    BY NamedSeparate
<1>2. ASSUME NEW x \in N
      PROVE Effect(x, success) \subseteq Of(i, side, A)
    <2>1. PICK y \in cells : Effect(x, success) = Of(i, side, Effect(y, success))
        BY CellsNamed
    <2>2. Effect(y, success) \subseteq A
        BY DEF Within
    <2> QED BY <2>1, <2>2 DEF Of
<1>3. ASSUME NEW k \in D
      PROVE \E x \in N : <<i, side, k>> \in Effect(x, success)
    <2>1. PICK y \in cells : k \in Effect(y, success)
        BY DEF Covers
    <2>2. PICK x \in N : Effect(x, success) = Of(i, side, Effect(y, success))
        BY NamedCells
    <2> QED BY <2>1, <2>2, OfMember
<1> QED BY <1>1, <1>2, <1>3 DEF Tells

\* What is held of an argument, by name.
LEMMA HeldNamed ==
    ASSUME NEW c \in Call, NEW i, NEW side
    PROVE Of(i, side, Held(c, i, side)) \subseteq ours[c]
BY DEF Of, Held

\* A number is before, at or after another.
LEMMA Between ==
    ASSUME NEW i \in 1 .. Width, NEW n \in 0 .. Width + 1
    PROVE n \in Int /\ i \in Int /\ i \in 0 .. Width /\ (i < n \/ i = n \/ i > n)
<1>1. Width \in Nat
    BY WidthLargest
<1> QED BY <1>1

\* What the cells of an argument release when the call is over.
LEMMA ArgTells ==
    ASSUME Accounts, NEW c \in Call, pc[c] = "clean from", NEW i \in 1 .. Width, IsArg(sig[c], i),
           NEW t \in BOOLEAN, t = Processed(c)
    PROVE \E A, D : /\ Tells(FromCells(c, i), t, i, "in", A, D)
                    /\ Of(i, "in", A) \subseteq ours[c] \cup ReleasedInError(c)
                    /\ \A k \in Held(c, i, "in") \ D :
                          outcome[c] = "badarg" /\ <<i, "in", k>> \in Untold(c)
<1>. Width \in Nat
    BY WidthLargest
<1>0. PICK s, n, a : /\ s \in Signature /\ n \in 0 .. Width + 1
                     /\ s = sig[c] /\ n = at[c] /\ a = s.args[i]
    BY CallAtWork
<1>1. /\ s \in Signature /\ i \in DOMAIN s.args /\ i \in 0 .. Width /\ i \in 1 .. Width
      /\ IsIn(a) /\ a \in Parameter /\ Annotated(a) /\ n \in Int /\ Width \in Nat
    <2>1. i \in DOMAIN s.args /\ IsIn(a)
        BY <1>0 DEF IsArg
    <2>2. a \in Parameter /\ Annotated(a)
        BY <1>0, <2>1, Places
    <2>3. n \in Int /\ i \in 0 .. Width
        BY <1>0, Between
    <2> QED BY <1>0, <2>1, <2>2, <2>3
<1>2. ArgAccount(c, i)
    BY <1>1, PlaceSays DEF Converting
<1>3. Of(i, "in", Held(c, i, "in")) \subseteq ours[c]
    BY HeldNamed
<1>4. CASE outcome[c] # "badarg"
    <2> DEFINE m == FromPy(a, Whole)
               A == m.had \ Given(a)
    <2>1. Held(c, i, "in") = A /\ FromCells(c, i) = CellsOf(i, "in", m.cells)
        BY <1>0, <1>2, <1>4 DEF ArgAccount, GaveArg
    <2>2. Separate(m.cells, TRUE) /\ Within(m.cells, TRUE, A) /\ Covers(m.cells, TRUE, A)
        BY <1>1, WholeArg
    <2>3. t = TRUE
        BY <1>4 DEF Processed
    <2> HIDE DEF m, A
    <2>4. Tells(CellsOf(i, "in", m.cells), TRUE, i, "in", A, A)
        BY <2>2, NamedTell
    <2>5. Tells(FromCells(c, i), t, i, "in", A, A)
        BY <2>1, <2>3, <2>4
    <2> QED BY <2>1, <2>5, <1>3
<1>5. CASE outcome[c] = "badarg"
    <2>1. t = FALSE
        BY <1>5 DEF Processed
    <2>2. /\ \A j \in {j \in 0 .. Width : j < n} \cap DOMAIN s.args :
                Of(j, "in", ReleasedIfGivenUp(s.args[j])) \subseteq ReleasedInError(c)
          /\ When(IsIn(s.args[n]) /\ s.args[n].kind = "hash", Of(n, "in", Items(s.args[n])))
             \subseteq ReleasedInError(c)
        <3>1. ReleasedInError(c) = GivenUpBefore(c) \cup GivenUpInside(c)
            BY <1>5 DEF ReleasedInError
        <3>2. ASSUME NEW j \in {j \in 0 .. Width : j < n} \cap DOMAIN s.args
              PROVE Of(j, "in", ReleasedIfGivenUp(s.args[j])) \subseteq GivenUpBefore(c)
            BY <1>0 DEF GivenUpBefore, BeforeFailure
        <3>3. GivenUpInside(c) = When(IsIn(s.args[n]) /\ s.args[n].kind = "hash",
                                      Of(n, "in", Items(s.args[n])))
            BY <1>0 DEF GivenUpInside, Arg
        <3> QED BY <3>1, <3>2, <3>3
    <2>3. CASE i < n
        <3> DEFINE m == FromPy(a, Whole)
                   A == m.had \cup ReleasedIfGivenUp(a)
                   D == IF a.kind \in {"boxed", "struct"} THEN {} ELSE m.had
        <3>1. Held(c, i, "in") = m.had \ m.gone /\ FromCells(c, i) = CellsOf(i, "in", m.cells)
            BY <1>0, <1>2, <1>5, <2>3 DEF ArgAccount, HasArg
        <3>2. /\ Separate(m.cells, FALSE) /\ Within(m.cells, FALSE, A) /\ m.gone = {}
              /\ a.kind \notin {"boxed", "struct"} => Covers(m.cells, FALSE, m.had)
              /\ a.kind \in {"boxed", "struct"} => m.had \subseteq {0}
            BY <1>1, WholeArg
        <3>3. Covers(m.cells, FALSE, D)
            BY <3>2 DEF Covers
        <3>4. Held(c, i, "in") = m.had
            BY <3>1, <3>2
        <3>5. Of(i, "in", ReleasedIfGivenUp(a)) \subseteq ReleasedInError(c)
            <4>1. i \in {j \in 0 .. Width : j < n} \cap DOMAIN s.args
                BY <1>1, <2>3
            <4> QED BY <4>1, <2>2, <1>0
        <3>6. Of(i, "in", A) \subseteq ours[c] \cup ReleasedInError(c)
            <4>1. Of(i, "in", A) = Of(i, "in", m.had) \cup Of(i, "in", ReleasedIfGivenUp(a))
                BY DEF Of
            <4> QED BY <4>1, <3>4, <3>5, <1>3
        <3>7. ASSUME NEW k \in Held(c, i, "in") \ D
              PROVE outcome[c] = "badarg" /\ <<i, "in", k>> \in Untold(c)
            <4>1. a.kind \in {"boxed", "struct"} /\ k = 0
                BY <3>2, <3>4, <3>7
            <4>2. i \in {j \in DOMAIN s.args : IsIn(s.args[j]) /\ s.args[j].kind \in {"boxed", "struct"}}
                BY <4>1, <1>0, <1>1
            <4>3. <<i, "in", 0>> \in Untold(c)
                BY <4>2, <1>0, <1>5 DEF Untold, AllocatedForResults, CopiedForC,
           ResultsKept, ResultsNotMade
            <4> QED BY <4>1, <4>3, <1>5
        <3> HIDE DEF m, A, D
        <3>8. Tells(CellsOf(i, "in", m.cells), FALSE, i, "in", A, D)
            BY <3>2, <3>3, NamedTell
        <3>9. Tells(FromCells(c, i), t, i, "in", A, D)
            BY <3>1, <3>8, <2>1
        <3> QED BY <3>6, <3>7, <3>9
    <2>4. CASE i = n
        <3>1. PICK f \in a.bad : HasArg(c, i, f)
            BY <1>0, <1>2, <1>5, <2>4 DEF ArgAccount
        <3> DEFINE m == FromPy(a, f)
                   H == m.had \ m.gone
                   X == When(a.kind = "hash", Items(a))
                   A == H \cup X
        <3>2. Held(c, i, "in") = H /\ FromCells(c, i) = CellsOf(i, "in", m.cells)
            BY <1>0, <3>1 DEF HasArg
        <3>3. Separate(m.cells, FALSE) /\ Within(m.cells, FALSE, A) /\ Covers(m.cells, FALSE, H)
            BY <1>1, FailedArg
        <3>4. Of(i, "in", X) \subseteq ReleasedInError(c)
            <4>1. a = s.args[n] /\ IsIn(a) /\ i = n
                BY <1>0, <1>1, <2>4
            <4>2. CASE a.kind = "hash"
                <5>1. X = Items(a) /\ When(IsIn(a) /\ a.kind = "hash", Of(n, "in", Items(a)))
                                    = Of(n, "in", Items(a))
                    BY <4>1, <4>2 DEF When
                <5>2. Of(n, "in", Items(a)) \subseteq ReleasedInError(c)
                    <6>1. When(IsIn(s.args[n]) /\ s.args[n].kind = "hash",
                               Of(n, "in", Items(s.args[n]))) = Of(n, "in", Items(a))
                        BY <5>1, <4>1
                    <6> QED BY <6>1, <2>2
                <5> QED BY <5>1, <5>2, <4>1
            <4>3. CASE a.kind # "hash"
                BY <4>3 DEF When, Of
            <4> QED BY <4>2, <4>3
        <3>5. Of(i, "in", A) = Of(i, "in", H) \cup Of(i, "in", X)
            BY DEF Of
        <3> HIDE DEF m, A, H, X
        <3>6. Tells(CellsOf(i, "in", m.cells), FALSE, i, "in", A, H)
            BY <3>3, NamedTell
        <3>7. Tells(FromCells(c, i), t, i, "in", A, H)
            BY <3>2, <3>6, <2>1
        <3>8. Of(i, "in", A) \subseteq ours[c] \cup ReleasedInError(c)
            BY <3>2, <3>4, <3>5, <1>3
        <3> QED BY <3>2, <3>7, <3>8
    <2>5. CASE i > n
        <3>1. Held(c, i, "in") = {} /\ FromCells(c, i) = {}
            BY <1>0, <1>2, <1>5, <2>5 DEF ArgAccount, NoArg
        <3>2. Tells({}, t, i, "in", {}, {})
            BY DEF Tells, Separate
        <3>3. Of(i, "in", {}) = {}
            BY DEF Of
        <3> QED BY <3>1, <3>2, <3>3
    <2>6. i < n \/ i = n \/ i > n
        BY <1>0, Between
    <2> QED BY <2>3, <2>4, <2>5, <2>6
<1> QED BY <1>4, <1>5

\* pygi_marshal_cleanup_args_from_py leaves nothing of an argument, but for what
\* no cell tells of, and does not touch results.
LEMMA CleanFromAccount ==
    ASSUME Accounts, NEW c \in Call, CleanFrom(c)
    PROVE CallAccount(c)'
<1>0. PICK s, b, F, t : s = sig[c] /\ b = block[c] /\ F = from_cell /\ t = Processed(c)
    OBVIOUS
<1> DEFINE ins == {i \in DOMAIN s.args : IsIn(s.args[i])}
           cells == UNION {F[b][i] : i \in ins}
           releases == {Effect(x, t) : x \in cells}
           gone == UNION releases
<1>1. /\ pc[c] = "clean from" /\ sig'[c] = s /\ block'[c] = b /\ at'[c] = at[c]
      /\ pc'[c] = IF outcome[c] \in {"ok", "badresult"} THEN "clean to" ELSE "clear"
      /\ outcome'[c] = outcome[c] /\ result'[c] = result[c] /\ ret_cell'[c] = ret_cell[c]
      /\ to_cell' = to_cell
    BY <1>0, Functions DEF CleanFrom
<1>2. Free(c, releases)
    BY <1>0 DEF CleanFrom
<1>3. /\ s \in Signature /\ t \in BOOLEAN
      /\ \A i : i \in ins <=> IsArg(s, i)
      /\ \A i \in ins : i \in 1 .. Width
    <2>1. s \in Signature /\ t \in BOOLEAN /\ \A i : i \in ins <=> IsArg(s, i)
        BY <1>0, CallAtWork DEF Processed, IsArg
    <2> QED BY <2>1, Places
<1>4. \A i : IsArg(s, i) => F[b][i] = FromCells(c, i)
    BY <1>0 DEF FromCells
<1>5. ASSUME NEW i \in 1 .. Width, IsArg(s, i)
      PROVE \E A, D : /\ Tells(F[b][i], t, i, "in", A, D)
                      /\ Of(i, "in", A) \subseteq ours[c] \cup ReleasedInError(c)
                      /\ \A k \in Held(c, i, "in") \ D :
                          outcome[c] = "badarg" /\ <<i, "in", k>> \in Untold(c)
    BY <1>0, <1>1, <1>3, <1>4, <1>5, ArgTells
<1> HIDE DEF ins
<1>6. ASSUME NEW x \in cells
      PROVE \E i \in ins : x \in F[b][i] /\ (\A y \in Effect(x, t) : \E k : y = <<i, "in", k>>)
                          /\ Effect(x, t) \subseteq ours[c] \cup ReleasedInError(c)
    <2>1. PICK i \in ins : x \in F[b][i]
        OBVIOUS
    <2>2. PICK A : /\ Effect(x, t) \subseteq Of(i, "in", A)
                   /\ Of(i, "in", A) \subseteq ours[c] \cup ReleasedInError(c)
        BY <2>1, <1>3, <1>5 DEF Tells
    <2> QED BY <2>1, <2>2 DEF Of
<1>7. ASSUME NEW r \in releases, NEW q \in releases, r # q
      PROVE r \cap q = {}
    <2>1. PICK x \in cells, y \in cells : r = Effect(x, t) /\ q = Effect(y, t)
        OBVIOUS
    <2>2. PICK i \in ins : x \in F[b][i] /\ (\A z \in Effect(x, t) : \E k : z = <<i, "in", k>>)
        BY <1>6
    <2>3. PICK j \in ins : y \in F[b][j] /\ (\A z \in Effect(y, t) : \E k : z = <<j, "in", k>>)
        BY <1>6
    <2>4. CASE i = j
        <3>1. Separate(F[b][i], t)
            BY <1>3, <1>5 DEF Tells
        <3> QED BY <3>1, <2>1, <2>2, <2>3, <2>4, <1>7 DEF Separate
    <2>5. CASE i # j
        BY <2>1, <2>2, <2>3, <2>5
    <2> QED BY <2>4, <2>5
<1>8. ASSUME NEW r \in releases
      PROVE r \subseteq ours[c] \cup ReleasedInError(c)
    BY <1>6
<1>9. ASSUME NEW y \in gone
      PROVE \E i, k : y = <<i, "in", k>>
    BY <1>6
<1>10. ASSUME NEW i \in ins, NEW k \in Held(c, i, "in"), <<i, "in", k>> \notin gone
       PROVE outcome[c] = "badarg" /\ <<i, "in", k>> \in Untold(c)
    <2>1. PICK D : /\ \A j \in D : \E x \in F[b][i] : <<i, "in", j>> \in Effect(x, t)
                   /\ \A j \in Held(c, i, "in") \ D :
                         outcome[c] = "badarg" /\ <<i, "in", j>> \in Untold(c)
        BY <1>3, <1>5, <1>10 DEF Tells
    <2>2. k \notin D
        <3>1. \A x \in F[b][i] : <<i, "in", k>> \notin Effect(x, t)
            BY <1>10
        <3> QED BY <2>1, <3>1
    <2> QED BY <2>1, <2>2
<1> HIDE DEF cells
<1>11. ours'[c] = ours[c] \ gone /\ over'[c] \subseteq ReleasedInError(c)
    <2> DEFINE allowed == ReleasedInError(c)
    <2>1. /\ \A r \in releases : r \subseteq ours[c] \cup allowed
          /\ \A r, q \in releases : r # q => r \cap q = {}
          /\ DOMAIN over = Call /\ ours \in [Call -> SUBSET ChunkId]
          /\ over[c] \subseteq allowed
        BY <1>7, <1>8, Functions DEF Accounts, CallAccount
    <2>2. PICK free : free = allowed
        OBVIOUS
    <2>3. \A r \in releases : r \subseteq ours[c] \cup free
        BY <2>1, <2>2
    <2> HIDE DEF allowed, releases
    <2>3a. \A r, q \in releases : r # q => r \cap q = {}
        BY <2>1
    <2>3b. DOMAIN over = Call /\ ours \in [Call -> SUBSET ChunkId] /\ Free(c, releases)
        BY <2>1, <1>2
    <2>4. ours'[c] = ours[c] \ UNION releases /\ over'[c] \subseteq over[c] \cup free
        BY <2>3, <2>3a, <2>3b, FreeTells
    <2> QED BY <2>1, <2>2, <2>4 DEF allowed
<1> HIDE DEF gone, releases
<1>12. /\ Untold(c)' = Untold(c) /\ ReleasedInError(c)' = ReleasedInError(c)
    BY <1>0, <1>1 DEF Untold, AllocatedForResults, CopiedForC,
           ResultsKept, ResultsNotMade, ReleasedInError, BeforeFailure, GivenUpBefore,
           GivenUpInside, DroppedBefore, Arg
<1>13. \A i : /\ Held(c, i, "out")' = Held(c, i, "out") /\ Answered(c, i)' = Answered(c, i)
              /\ ToCells(c, i)' = ToCells(c, i)
    <2>1. \A i, k : <<i, "out", k>> \notin gone
        BY <1>9
    <2>2. \A i, u, k : k \in Held(c, i, u)' <=> k \in Held(c, i, u) /\ <<i, u, k>> \notin gone
        BY <1>11, HeldLess
    <2>3. ASSUME NEW i
          PROVE Held(c, i, "out")' = Held(c, i, "out")
        <3>1. \A k : k \in Held(c, i, "out")' <=> k \in Held(c, i, "out")
            BY <2>1, <2>2
        <3> QED BY <3>1
    <2>4. ASSUME NEW i
          PROVE Answered(c, i)' = Answered(c, i) /\ ToCells(c, i)' = ToCells(c, i)
        BY <1>0, <1>1 DEF Answered, ToCells
    <2> QED BY <2>3, <2>4
<1>14. \A i \in 0 .. Width : IsResult(s, i) => ResultAccount(c, i)
    BY <1>0, <1>1, PlaceSays DEF Working, Converting
<1>14a. \A i : \A k \in Held(c, i, "in")' : k \in Held(c, i, "in") /\ <<i, "in", k>> \notin gone
    BY <1>11, HeldLess
<1>15. CASE outcome[c] \in {"ok", "badresult"}
    <2>1. pc'[c] = "clean to" /\ outcome[c] # "badarg" /\ outcome[c] # "gerror"
        BY <1>1, <1>15
    <2>2. ASSUME NEW i \in 0 .. Width
          PROVE Held(c, i, "in")' = {}
        <3>1. CASE IsArg(s, i)
            <4>1. i \in ins
                BY <3>1, <1>3
            <4> QED BY <4>1, <2>1, <1>10, <1>14a
        <3>2. CASE ~IsArg(s, i)
            <4>1. Held(c, i, "in") = {}
                BY <1>0, <1>1, <3>2, PlaceSays DEF Working, Converting
            <4> QED BY <4>1, <1>14a
        <3> QED BY <3>1, <3>2
    <2>3. ASSUME NEW i \in 0 .. Width, IsResult(s, i)
          PROVE ResultAccount(c, i)'
        <3>1. ResultAccount(c, i)
            BY <1>14, <2>3
        <3>2. CASE outcome[c] = "ok"
            <4>1. Gets(c, i)
                BY <3>1, <3>2, <1>1 DEF ResultAccount
            <4>2. Gets(c, i)'
                BY <4>1, <1>0, <1>1, <1>13 DEF Gets, HasResult
            <4> QED BY <4>2, <3>2, <2>1, <1>1 DEF ResultAccount
        <3>3. CASE outcome[c] = "badresult"
            <4> DEFINE r == ResultAt(s, i)
            <4>1. /\ Answered(c, i) = {}
                  /\ i < at[c] => HasResult(c, i, Whole)
                  /\ i = at[c] => \E f \in r.bad : HasResult(c, i, f)
                  /\ i > at[c] => Awaits(c, i, Got(r))
                BY <3>1, <3>3, <1>0, <1>1 DEF ResultAccount
            <4>2. /\ Answered(c, i)' = {}
                  /\ i < at[c] => HasResult(c, i, Whole)'
                  /\ i = at[c] => \E f \in r.bad : HasResult(c, i, f)'
                  /\ i > at[c] => Awaits(c, i, Got(r))'
                BY <4>1, <1>0, <1>1, <1>13 DEF HasResult, Awaits
            <4> HIDE DEF r
            <4>3. ResultAt(sig'[c], i) = r
                BY <1>1 DEF r
            <4> QED BY <4>2, <4>3, <3>3, <2>1, <1>1 DEF ResultAccount
        <3> QED BY <3>2, <3>3, <1>15
    <2>4. ASSUME NEW i \in 0 .. Width
          PROVE PlaceAccount(c, i)'
        <3>1. ~IsResult(s, i) => Held(c, i, "out")' = {} /\ Answered(c, i)' = {}
            BY <1>0, <1>1, <1>13, PlaceSays DEF Working, Converting
        <3> QED BY <3>1, <2>1, <2>2, <2>3, <1>1 DEF PlaceAccount, Converting
    <2>5. outcome[c] = "badresult" => IsResult(sig[c], at[c])
        BY DEF Accounts, CallAccount
    <2> QED BY <2>1, <2>4, <2>5, <1>0, <1>1, <1>11, <1>12, <1>15 DEF CallAccount, Converting
<1>16. CASE outcome[c] \notin {"ok", "badresult"}
    <2>1. pc'[c] = "clear"
        BY <1>1, <1>16
    <2>2. outcome[c] \in {"badarg", "gerror"}
        BY <1>1, <1>16 DEF Accounts, CallAccount
    <2>3. ASSUME NEW i \in 0 .. Width, NEW k \in Held(c, i, "in")'
          PROVE <<i, "in", k>> \in Untold(c)
        <3>1. IsArg(s, i)
            BY <2>3, <1>0, <1>1, <1>14a, PlaceSays DEF Working, Converting
        <3> QED BY <3>1, <2>3, <1>3, <1>10, <1>14a
    <2>4. ASSUME NEW i \in 0 .. Width, NEW k \in Held(c, i, "out")
          PROVE <<i, "out", k>> \in Untold(c)
        <3>1. IsResult(s, i) /\ ResultAccount(c, i)
            BY <2>4, <1>0, <1>1, <1>14, PlaceSays DEF Working, Converting
        <3>2. Held(c, i, "out") \subseteq CallerAlloc(ResultAt(s, i))
            BY <3>1, <2>2, <1>0, <1>1 DEF ResultAccount, Awaits, When
        <3>3. k = 0 /\ ResultAt(s, i).alloc
            BY <3>2 DEF CallerAlloc, When
        <3>4. i \in DOMAIN s.args /\ s.args[i].alloc
            BY <3>1, <3>3, <1>3, Places DEF ResultAt
        <3>5. <<i, "out", 0>> \in {<<j, "out", 0>> : j \in {j \in DOMAIN s.args : s.args[j].alloc}}
            BY <3>4
        <3> QED BY <3>3, <3>5, <2>2, <1>0 DEF Untold, AllocatedForResults, CopiedForC,
           ResultsKept, ResultsNotMade
    <2>5. ASSUME NEW y \in ours'[c]
          PROVE y \in Untold(c)
        <3>1. y \in ours[c] /\ y \notin gone
            BY <1>11
        <3>2. PICK i \in 0 .. Width, u \in {"in", "out"}, k \in 0 .. MaxItems : y = <<i, u, k>>
            BY <3>1, CallAtWork DEF ChunkId
        <3>3. u = "in" => k \in Held(c, i, "in")'
            BY <3>2, <2>5 DEF Held
        <3>4. u = "out" => k \in Held(c, i, "out")
            BY <3>1, <3>2 DEF Held
        <3> QED BY <3>2, <3>3, <3>4, <2>3, <2>4
    <2> QED BY <2>1, <2>5, <1>0, <1>1, <1>11, <1>12, <2>2 DEF CallAccount, Working, Converting,
            Accounts
<1> QED BY <1>15, <1>16

(***************************************************************************)
(* Cleaning up after the results.                                          *)
(***************************************************************************)

\* The places of a call before, at and after one of them.
LEMMA Order ==
    ASSUME NEW i \in 0 .. Width, NEW n \in 0 .. Width + 1
    PROVE /\ i < n \/ i = n \/ i > n
          /\ i = n => i >= n
          /\ i > n => i >= n
          /\ i >= n => i \in n .. Width
<1>1. Width \in Nat
    BY WidthLargest
<1> QED BY <1>1

\* What the cells of a result release when the call is over.
LEMMA ResultTells ==
    ASSUME Accounts, NEW c \in Call, pc[c] = "clean to", NEW i \in 0 .. Width,
           NEW s \in Signature, s = sig[c], IsResult(s, i),
           NEW t \in BOOLEAN, t = (outcome[c] = "ok")
    PROVE \E A, D :
             /\ Tells(ToCells(c, i), t, i, "out", A, D)
             /\ Of(i, "out", A) \subseteq ours[c] \cup result[c] \cup ReleasedInError(c)
             /\ \A k \in Held(c, i, "out") :
                   /\ <<i, "out", k>> \notin result[c]
                   /\ \/ k \in D
                      \/ k \in ReleasedAsAllocated(ResultAt(s, i)) /\ ToCells(c, i) = {}
                      \/ <<i, "out", k>> \in Untold(c)
             /\ Of(i, "out", ReleasedAsAllocated(ResultAt(s, i))) \subseteq ours[c]
<1>0. PICK n, r : n \in 0 .. Width + 1 /\ n = at[c] /\ r = ResultAt(s, i)
    BY CallAtWork
<1>1. r \in Parameter /\ Annotated(r) /\ IsOut(r)
    BY <1>0, Places
<1>2. ResultAccount(c, i)
    BY PlaceSays DEF Working
<1>3. Of(i, "out", Held(c, i, "out")) \subseteq ours[c]
    BY HeldNamed
<1>4. ASSUME NEW cells PROVE cells = {} <=> CellsOf(i, "out", cells) = {}
    BY DEF CellsOf
<1>5. ASSUME NEW k \in Held(c, i, "out"), k \notin Answered(c, i)
      PROVE <<i, "out", k>> \notin result[c]
    BY <1>5 DEF Held, Answered
<1> DEFINE w == ToPy(r, Whole)
           raa == ReleasedAsAllocated(r)
           told == Got(r) \ (w.taken \cup NeverReleased(r) \cup raa)
<1>6. /\ w.gone = {}
      /\ Separate(w.cells, TRUE) /\ Separate(w.cells, FALSE)
      /\ Within(w.cells, TRUE, Got(r)) /\ Covers(w.cells, TRUE, told)
      /\ Within(w.cells, FALSE, (Got(r) \ w.taken) \cup ReleasedIfDropped(r))
      /\ Covers(w.cells, FALSE, told)
      /\ w.cells # {} => raa = {}
      /\ raa \subseteq Got(r) \ w.taken
    BY <1>1, WholeResult
<1> HIDE DEF w, raa
<1>7. ASSUME HasResult(c, i, Whole)
      PROVE /\ Held(c, i, "out") = Got(r) \ w.taken
            /\ ToCells(c, i) = CellsOf(i, "out", w.cells)
            /\ Of(i, "out", raa) \subseteq ours[c]
            /\ ToCells(c, i) # {} => raa = {}
    <2>1. Held(c, i, "out") = Got(r) \ w.taken /\ ToCells(c, i) = CellsOf(i, "out", w.cells)
        BY <1>0, <1>6, <1>7 DEF HasResult, w
    <2>2. Of(i, "out", raa) \subseteq Of(i, "out", Held(c, i, "out"))
        BY <2>1, <1>6 DEF Of
    <2> QED BY <2>1, <2>2, <1>3, <1>4, <1>6
<1>8. ASSUME HasResult(c, i, Whole), outcome[c] \in {"ok", "badresult"},
             NEW k \in Held(c, i, "out"), k \notin told
      PROVE \/ k \in raa /\ ToCells(c, i) = {}
            \/ <<i, "out", k>> \in Untold(c)
    <2>1. k \in raa \/ k \in NeverReleased(r)
        BY <1>7, <1>8
    <2>2. CASE k \in NeverReleased(r)
        <3>1. i \in {j \in 0 .. Width : IsResult(sig[c], j)}
            OBVIOUS
        <3>2. <<i, "out", k>> \in Of(i, "out", NeverReleased(ResultAt(sig[c], i)))
            BY <2>2, <1>0, OfMember
        <3>3. <<i, "out", k>> \in ResultsKept(c)
            BY <3>1, <3>2 DEF ResultsKept
        <3> QED BY <3>3, <1>8 DEF Untold
    <2>3. CASE k \in raa
        BY <2>3, <1>7, <1>8
    <2> QED BY <2>1, <2>2, <2>3
<1>9. outcome[c] \in {"ok", "badresult"}
    BY DEF Accounts, CallAccount
<1>10. CASE outcome[c] = "ok"
    <2>1. HasResult(c, i, Whole) /\ Answered(c, i) = w.taken
        BY <1>0, <1>2, <1>10 DEF ResultAccount, Gets, w
    <2>2. Tells(CellsOf(i, "out", w.cells), TRUE, i, "out", Got(r), told)
        BY <1>6, NamedTell
    <2>3. Tells(ToCells(c, i), t, i, "out", Got(r), told)
        BY <2>1, <2>2, <1>7, <1>10
    <2>4. Of(i, "out", Got(r)) \subseteq ours[c] \cup result[c] \cup ReleasedInError(c)
        <3>1. ASSUME NEW k \in Got(r) PROVE <<i, "out", k>> \in ours[c] \cup result[c]
            <4>1. k \in Held(c, i, "out") \/ k \in Answered(c, i)
                BY <2>1, <1>7
            <4> QED BY <4>1 DEF Held, Answered
        <3> QED BY <3>1 DEF Of
    <2>5. ASSUME NEW k \in Held(c, i, "out")
          PROVE /\ <<i, "out", k>> \notin result[c]
                /\ \/ k \in told
                   \/ k \in raa /\ ToCells(c, i) = {}
                   \/ <<i, "out", k>> \in Untold(c)
        <3>1. k \notin Answered(c, i)
            BY <2>1, <1>7
        <3> QED BY <3>1, <2>1, <1>5, <1>8, <1>9
    <2> HIDE DEF told
    <2> QED BY <2>1, <2>3, <2>4, <2>5, <1>0, <1>7 DEF raa
<1>11. CASE outcome[c] = "badresult"
    <2>0. t = FALSE
        BY <1>11
    <2>1. /\ Answered(c, i) = {}
          /\ i < n => HasResult(c, i, Whole)
          /\ i = n => \E f \in r.bad : HasResult(c, i, f)
          /\ i > n => Awaits(c, i, Got(r))
        BY <1>0, <1>2, <1>11 DEF ResultAccount
    <2>2. \A k \in Held(c, i, "out") : <<i, "out", k>> \notin result[c]
        BY <2>1, <1>5
    <2>3. ASSUME i >= n, NEW k \in Held(c, i, "out")
          PROVE <<i, "out", k>> \in Untold(c)
        <3>1. i \in n .. Width /\ k \in 0 .. MaxItems
            BY <2>3, <1>0, Order DEF Held
        <3>2. <<i, "out", k>> \in ResultsNotMade(c)
            BY <3>1, <1>0 DEF ResultsNotMade
        <3> QED BY <3>2, <1>11 DEF Untold
    <2>4. CASE i < n
        <3> DEFINE A == (Got(r) \ w.taken) \cup ReleasedIfDropped(r)
        <3>1. HasResult(c, i, Whole)
            BY <2>1, <2>4
        <3>2. Tells(CellsOf(i, "out", w.cells), FALSE, i, "out", A, told)
            BY <1>6, NamedTell
        <3>3. Tells(ToCells(c, i), t, i, "out", A, told)
            BY <3>1, <3>2, <2>0, <1>7
        <3>4. Of(i, "out", ReleasedIfDropped(r)) \subseteq ReleasedInError(c)
            <4>1. i \in {j \in BeforeFailure(c) : IsResult(sig[c], j)}
                BY <2>4, <1>0 DEF BeforeFailure
            <4>2. Of(i, "out", ReleasedIfDropped(r)) \subseteq DroppedBefore(c)
                BY <4>1, <1>0 DEF DroppedBefore
            <4> QED BY <4>2, <1>11 DEF ReleasedInError
        <3>5. Of(i, "out", A) \subseteq ours[c] \cup result[c] \cup ReleasedInError(c)
            <4>1. Of(i, "out", A) = Of(i, "out", Held(c, i, "out"))
                                    \cup Of(i, "out", ReleasedIfDropped(r))
                BY <3>1, <1>7 DEF Of
            <4> QED BY <4>1, <3>4, <1>3
        <3>6. ASSUME NEW k \in Held(c, i, "out")
              PROVE \/ k \in told
                    \/ k \in raa /\ ToCells(c, i) = {}
                    \/ <<i, "out", k>> \in Untold(c)
            BY <3>1, <1>8, <1>9
        <3> HIDE DEF A, told
        <3> QED BY <3>1, <3>3, <3>5, <3>6, <2>2, <1>0, <1>7 DEF raa
    <2>5. CASE i = n
        <3>1. PICK f \in r.bad : HasResult(c, i, f)
            BY <2>1, <2>5
        <3> DEFINE m == ToPy(r, f)
                   H == Got(r) \ m.gone
        <3>2. /\ m.taken = {} /\ Separate(m.cells, FALSE) /\ Within(m.cells, FALSE, H)
              /\ raa \subseteq H
            BY <1>1, FailedResult DEF raa
        <3>3. Held(c, i, "out") = H /\ ToCells(c, i) = CellsOf(i, "out", m.cells)
            BY <1>0, <3>1, <3>2 DEF HasResult
        <3>4. Covers(m.cells, FALSE, {})
            BY DEF Covers
        <3> HIDE DEF m, H
        <3>5. Tells(CellsOf(i, "out", m.cells), FALSE, i, "out", H, {})
            BY <3>2, <3>4, NamedTell
        <3>6. Tells(ToCells(c, i), t, i, "out", H, {})
            BY <3>3, <3>5, <2>0
        <3>7. Of(i, "out", H) \subseteq ours[c]
            BY <3>3, <1>3
        <3>8. Of(i, "out", raa) \subseteq Of(i, "out", H)
            BY <3>2 DEF Of
        <3>9. \A k \in Held(c, i, "out") : <<i, "out", k>> \in Untold(c)
            BY <2>3, <2>5, <1>0, Order
        <3> QED BY <3>6, <3>7, <3>8, <3>9, <2>2, <1>0 DEF raa
    <2>6. CASE i > n
        <3>1. Held(c, i, "out") = Got(r) /\ ToCells(c, i) = {}
            BY <2>1, <2>6 DEF Awaits
        <3>2. Tells({}, t, i, "out", {}, {})
            BY DEF Tells, Separate
        <3>3. Of(i, "out", {}) = {}
            BY DEF Of
        <3>4. Of(i, "out", raa) \subseteq Of(i, "out", Held(c, i, "out"))
            BY <3>1, <1>6 DEF Of
        <3>5. \A k \in Held(c, i, "out") : <<i, "out", k>> \in Untold(c)
            BY <2>3, <2>6, <1>0, Order
        <3> QED BY <3>1, <3>2, <3>3, <3>4, <3>5, <2>2, <1>0, <1>3 DEF raa
    <2> QED BY <2>4, <2>5, <2>6, <1>0, Order
<1> QED BY <1>9, <1>10, <1>11

\* The data that pygi_marshal_cleanup_args_to_py releases.
ReleasedTo(s, rc, F, o, res) ==
    LET outs == {i \in DOMAIN s.args : IsOut(s.args[i])}
        celled == {i \in outs : F[i] # {}}
        cells == rc \cup UNION {F[i] : i \in celled}
        effects == {Effect(x, o = "ok") : x \in cells} \cup
                   {Of(i, "out", ReleasedAsAllocated(s.args[i])) : i \in outs \ celled}
    IN {e \ res : e \in effects}

\* pygi_marshal_cleanup_args_to_py leaves nothing of a result that was converted,
\* but for what no cell tells of.
LEMMA CleanToAccount ==
    ASSUME Accounts, NEW c \in Call, CleanTo(c)
    PROVE CallAccount(c)'
<1>0. PICK s, F, rc, res, o :
          /\ s = sig[c] /\ F = to_cell[block[c]] /\ rc = ret_cell[c]
          /\ res = result[c] /\ o = outcome[c]
    OBVIOUS
<1> DEFINE t == (o = "ok")
           outs == {i \in DOMAIN s.args : IsOut(s.args[i])}
           celled == {i \in outs : F[i] # {}}
           cells == rc \cup UNION {F[i] : i \in celled}
           effects == {Effect(x, t) : x \in cells} \cup
                      {Of(i, "out", ReleasedAsAllocated(s.args[i])) : i \in outs \ celled}
           releases == {e \ res : e \in effects}
           gone == UNION releases
           C(i) == IF i = 0 THEN rc ELSE F[i]
           L(i) == Of(i, "out", ReleasedAsAllocated(ResultAt(s, i)))
<1>1. /\ pc[c] = "clean to" /\ sig'[c] = s /\ at'[c] = at[c]
      /\ pc'[c] = "clear" /\ outcome'[c] = outcome[c]
    BY <1>0, Functions DEF CleanTo
<1>2. Free(c, releases)
    <2>1. Free(c, ReleasedTo(sig[c], ret_cell[c], to_cell[block[c]], outcome[c], result[c]))
        BY DEF CleanTo, ReleasedTo
    <2>2. Free(c, ReleasedTo(s, rc, F, o, res))
        BY <2>1, <1>0
    <2> QED BY <2>2 DEF ReleasedTo
<1>3. s \in Signature /\ t \in BOOLEAN /\ 0 \notin DOMAIN s.args
    <2>1. s \in Signature /\ t \in BOOLEAN
        BY <1>0, CallAtWork
    <2> QED BY <2>1, Places
<1>4. /\ \A i : IsResult(s, i) <=> i = 0 \/ i \in outs
      /\ \A i : IsResult(s, i) => i \in 0 .. Width /\ ToCells(c, i) = C(i)
      /\ \A i \in outs : i # 0 /\ ResultAt(s, i) = s.args[i]
    <2>1. \A i : IsResult(s, i) <=> i = 0 \/ i \in outs
        BY DEF IsResult
    <2>2. \A i : IsResult(s, i) => i \in 0 .. Width
        BY <1>3, Places
    <2>3. \A i \in outs : i # 0 /\ ResultAt(s, i) = s.args[i]
        BY <1>3 DEF ResultAt
    <2>4. \A i : ToCells(c, i) = C(i)
        BY <1>0 DEF ToCells
    <2> QED BY <2>1, <2>2, <2>3, <2>4
<1>5. ASSUME NEW i, IsResult(s, i)
      PROVE \E A, D :
             /\ Tells(C(i), t, i, "out", A, D)
             /\ Of(i, "out", A) \subseteq ours[c] \cup res \cup ReleasedInError(c)
             /\ \A k \in Held(c, i, "out") :
                   /\ <<i, "out", k>> \notin res
                   /\ \/ k \in D
                      \/ k \in ReleasedAsAllocated(ResultAt(s, i)) /\ C(i) = {}
                      \/ <<i, "out", k>> \in Untold(c)
             /\ L(i) \subseteq ours[c]
    <2>1. i \in 0 .. Width /\ C(i) = ToCells(c, i)
        BY <1>4, <1>5
    <2>2. t = (outcome[c] = "ok")
        BY <1>0
    <2> HIDE DEF C, t
    <2>3. \E A, D :
             /\ Tells(ToCells(c, i), t, i, "out", A, D)
             /\ Of(i, "out", A) \subseteq ours[c] \cup result[c] \cup ReleasedInError(c)
             /\ \A k \in Held(c, i, "out") :
                   /\ <<i, "out", k>> \notin result[c]
                   /\ \/ k \in D
                      \/ k \in ReleasedAsAllocated(ResultAt(s, i)) /\ ToCells(c, i) = {}
                      \/ <<i, "out", k>> \in Untold(c)
             /\ Of(i, "out", ReleasedAsAllocated(ResultAt(s, i))) \subseteq ours[c]
        BY <2>1, <2>2, <1>0, <1>1, <1>3, <1>5, ResultTells
    <2> QED BY <2>1, <2>3, <1>0
\* Every effect is that of a cell of a result, or of one that has none.
<1>6. ASSUME NEW e \in effects
      PROVE \E i : /\ IsResult(s, i)
                   /\ \/ \E x \in C(i) : e = Effect(x, t)
                      \/ C(i) = {} /\ e = L(i)
    <2>1. CASE e \in {Of(i, "out", ReleasedAsAllocated(s.args[i])) : i \in outs \ celled}
        <3>1. PICK i \in outs \ celled : e = Of(i, "out", ReleasedAsAllocated(s.args[i]))
            BY <2>1
        <3>2. IsResult(s, i) /\ C(i) = {} /\ e = L(i)
            BY <3>1, <1>4
        <3> QED BY <3>2
    <2>2. CASE \E x \in cells : e = Effect(x, t)
        <3>1. PICK x \in cells : e = Effect(x, t)
            BY <2>2
        <3>2. CASE x \in rc
            <4>1. IsResult(s, 0) /\ x \in C(0)
                BY <3>2 DEF IsResult
            <4> QED BY <3>1, <4>1
        <3>3. CASE x \notin rc
            <4>1. PICK i \in celled : x \in F[i]
                BY <3>3
            <4>2. IsResult(s, i) /\ x \in C(i)
                BY <4>1, <1>4
            <4> QED BY <3>1, <4>2
        <3> QED BY <3>2, <3>3
    <2> QED BY <2>1, <2>2
<1>7. ASSUME NEW i, IsResult(s, i)
      PROVE /\ \A x \in C(i) : Effect(x, t) \in effects
            /\ C(i) = {} /\ i # 0 => L(i) \in effects
    <2>1. CASE i = 0
        BY <2>1
    <2>2. CASE i # 0
        <3>1. i \in outs /\ C(i) = F[i] /\ L(i) = Of(i, "out", ReleasedAsAllocated(s.args[i]))
            BY <2>2, <1>4, <1>7
        <3>2. CASE C(i) = {}
            <4>1. i \in outs \ celled
                BY <3>1, <3>2
            <4> QED BY <3>1, <3>2, <4>1
        <3>3. CASE C(i) # {}
            <4>1. i \in celled
                BY <3>1, <3>3
            <4>2. \A x \in C(i) : x \in cells
                BY <3>1, <4>1
            <4> QED BY <3>3, <4>2
        <3> QED BY <3>2, <3>3
    <2> QED BY <2>1, <2>2
<1> HIDE DEF t, outs, celled, cells, effects
<1>8. ASSUME NEW e \in effects
      PROVE /\ e \ res \subseteq ours[c] \cup ReleasedInError(c)
            /\ \A y \in e : \E i, k : y = <<i, "out", k>>
    <2> HIDE DEF C, L
    <2>1. PICK i : /\ IsResult(s, i)
                   /\ \/ \E x \in C(i) : e = Effect(x, t)
                      \/ C(i) = {} /\ e = L(i)
        BY <1>6
    <2>2. PICK A : /\ \A x \in C(i) : Effect(x, t) \subseteq Of(i, "out", A)
                   /\ Of(i, "out", A) \subseteq ours[c] \cup res \cup ReleasedInError(c)
                   /\ L(i) \subseteq ours[c]
        BY <2>1, <1>5 DEF Tells
    <2>3. CASE \E x \in C(i) : e = Effect(x, t)
        <3>1. e \subseteq Of(i, "out", A)
            BY <2>2, <2>3
        <3>2. e \ res \subseteq ours[c] \cup ReleasedInError(c)
            BY <3>1, <2>2
        <3> QED BY <3>1, <3>2 DEF Of
    <2>4. CASE e = L(i)
        BY <2>2, <2>4 DEF L, Of
    <2> QED BY <2>1, <2>3, <2>4
<1>9. ASSUME NEW e \in effects, NEW g \in effects, e # g
      PROVE e \cap g = {}
    <2>0. ASSUME NEW i, IsResult(s, i)
          PROVE /\ Separate(C(i), t)
                /\ \A x \in C(i) : \A y \in Effect(x, t) : \E k : y = <<i, "out", k>>
                /\ \A y \in L(i) : \E k : y = <<i, "out", k>>
        <3>1. PICK A : Separate(C(i), t) /\ \A x \in C(i) : Effect(x, t) \subseteq Of(i, "out", A)
            BY <1>5, <2>0 DEF Tells
        <3>2. \A x \in C(i) : \A y \in Effect(x, t) : \E k : y = <<i, "out", k>>
            BY <3>1 DEF Of
        <3>3. \A y \in L(i) : \E k : y = <<i, "out", k>>
            BY DEF Of
        <3> QED BY <3>1, <3>2, <3>3
    <2> HIDE DEF C, L
    <2>1. PICK i : /\ IsResult(s, i)
                   /\ \/ \E x \in C(i) : e = Effect(x, t)
                      \/ C(i) = {} /\ e = L(i)
        BY <1>6
    <2>2. PICK j : /\ IsResult(s, j)
                   /\ \/ \E x \in C(j) : g = Effect(x, t)
                      \/ C(j) = {} /\ g = L(j)
        BY <1>6
    <2>3. (\A y \in e : \E k : y = <<i, "out", k>>) /\ (\A y \in g : \E k : y = <<j, "out", k>>)
        BY <2>0, <2>1, <2>2
    <2>4. CASE i # j
        BY <2>3, <2>4
    <2>5. CASE i = j
        <3>1. PICK x \in C(i), z \in C(i) : e = Effect(x, t) /\ g = Effect(z, t)
            BY <2>1, <2>2, <2>5, <1>9
        <3> QED BY <3>1, <2>0, <2>1, <1>9 DEF Separate
    <2> QED BY <2>4, <2>5
<1>10. /\ \A r \in releases : r \subseteq ours[c] \cup ReleasedInError(c)
       /\ \A r, q \in releases : r # q => r \cap q = {}
    <2>1. \A r \in releases : r \subseteq ours[c] \cup ReleasedInError(c)
        BY <1>8
    <2>2. ASSUME NEW r \in releases, NEW q \in releases, r # q
          PROVE r \cap q = {}
        <3>1. PICK e \in effects, g \in effects : r = e \ res /\ q = g \ res
            OBVIOUS
        <3> QED BY <3>1, <2>2, <1>9
    <2> QED BY <2>1, <2>2
<1>11. ASSUME NEW e \in effects, NEW y \in e, y \notin res
       PROVE y \in gone
    <2>1. e \ res \in releases
        OBVIOUS
    <2> QED BY <2>1, <1>11
<1> HIDE DEF releases
<1>12. ours'[c] = ours[c] \ gone /\ over'[c] \subseteq ReleasedInError(c)
    <2>1. PICK free : free = ReleasedInError(c)
        OBVIOUS
    <2>2. \A r \in releases : r \subseteq ours[c] \cup free
        BY <2>1, <1>10
    <2>3. \A r, q \in releases : r # q => r \cap q = {}
        BY <1>10
    <2>4. DOMAIN over = Call /\ ours \in [Call -> SUBSET ChunkId] /\ Free(c, releases)
        BY <1>2, Functions
    <2>5. ours'[c] = ours[c] \ UNION releases /\ over'[c] \subseteq over[c] \cup free
        BY <2>2, <2>3, <2>4, FreeTells
    <2>6. over[c] \subseteq ReleasedInError(c)
        BY DEF Accounts, CallAccount
    <2> QED BY <2>1, <2>5, <2>6
<1> HIDE DEF gone
<1>13. ASSUME NEW i \in 0 .. Width, NEW k \in Held(c, i, "out"), <<i, "out", k>> \notin gone
       PROVE <<i, "out", k>> \in Untold(c)
    <2>1. IsResult(s, i)
        BY <1>0, <1>1, <1>13, PlaceSays DEF Working
    <2> DEFINE w == <<i, "out", k>>
    <2>2. PICK D : /\ \A j \in D : \E x \in C(i) : <<i, "out", j>> \in Effect(x, t)
                   /\ w \notin res
                   /\ \/ k \in D
                      \/ k \in ReleasedAsAllocated(ResultAt(s, i)) /\ C(i) = {}
                      \/ w \in Untold(c)
        BY <2>1, <1>5 DEF Tells
    <2>3. CASE k \in D
        <3>1. PICK x \in C(i) : w \in Effect(x, t)
            BY <2>2, <2>3
        <3>2. Effect(x, t) \in effects
            BY <2>1, <1>7
        <3> HIDE DEF w
        <3>3. w \in gone
            BY <3>1, <3>2, <2>2, <1>11
        <3> QED BY <3>3, <1>13 DEF w
    <2>4. CASE k \in ReleasedAsAllocated(ResultAt(s, i)) /\ C(i) = {}
        <3>1. i # 0
            <4>1. ~s.ret.alloc
                BY <1>3, Places
            <4> QED BY <4>1, <2>4 DEF ReleasedAsAllocated, ResultAt, When
        <3>2. L(i) \in effects /\ w \in L(i)
            BY <3>1, <2>1, <2>4, <1>7, OfMember
        <3> HIDE DEF w, L
        <3>3. w \in gone
            BY <3>2, <2>2, <1>11
        <3> QED BY <3>3, <1>13 DEF w
    <2> QED BY <2>2, <2>3, <2>4
<1>14. ASSUME NEW y \in ours'[c]
       PROVE y \in Untold(c)
    <2>1. y \in ours[c] /\ y \notin gone
        BY <1>12
    <2>2. PICK i \in 0 .. Width, u \in {"in", "out"}, k \in 0 .. MaxItems : y = <<i, u, k>>
        BY <2>1, CallAtWork DEF ChunkId
    <2>3. u # "in"
        <3>1. Held(c, i, "in") = {}
            <4>1. PlaceAccount(c, i)
                BY <2>2, <1>1, PlaceSays DEF Working
            <4> QED BY <4>1, <1>1 DEF PlaceAccount
        <3> QED BY <3>1, <2>1, <2>2 DEF Held
    <2>4. k \in Held(c, i, "out")
        BY <2>1, <2>2, <2>3 DEF Held
    <2> QED BY <2>1, <2>2, <2>3, <2>4, <1>13
<1>15. /\ Untold(c)' = Untold(c) /\ ReleasedInError(c)' = ReleasedInError(c)
    BY <1>0, <1>1 DEF Untold, AllocatedForResults, CopiedForC, ResultsKept, ResultsNotMade,
       ReleasedInError, BeforeFailure, GivenUpBefore, GivenUpInside, DroppedBefore, Arg
<1>16. outcome[c] = "badresult" => IsResult(sig[c], at[c])
    BY DEF Accounts, CallAccount
<1>17. outcome[c] \in {"badresult", "ok"}
    BY <1>1 DEF Accounts, CallAccount
<1> QED BY <1>0, <1>1, <1>12, <1>14, <1>15, <1>16, <1>17 DEF CallAccount, Working, Converting

(***************************************************************************)
(* The other calls.                                                        *)
(***************************************************************************)

\* A step of call c that writes no block and nothing of other calls.
OthersSame(c) ==
    \A d \in Call : d # c =>
        /\ pc'[d] = pc[d] /\ sig'[d] = sig[d] /\ at'[d] = at[d] /\ ours'[d] = ours[d]
        /\ result'[d] = result[d] /\ over'[d] = over[d] /\ outcome'[d] = outcome[d]
        /\ ret_cell'[d] = ret_cell[d] /\ block'[d] = block[d]

\* A block that is written is that of call c, or new to it; blocks keep their size.
BlocksApart(c) ==
    /\ DOMAIN from_cell' = Block /\ DOMAIN to_cell' = Block
    /\ \A b \in Block : DOMAIN from_cell'[b] = 1 .. Width /\ DOMAIN to_cell'[b] = 1 .. Width
    /\ \A d \in Call : d # c /\ block[d] \in Block =>
          /\ from_cell'[block[d]] = from_cell[block[d]]
          /\ to_cell'[block[d]] = to_cell[block[d]]
    /\ DOMAIN ret_cell' = Call /\ DOMAIN over' = Call

\* Then the accounts of the other calls stay as they are.
LEMMA OthersAccount ==
    ASSUME Accounts, NEW c \in Call, OthersSame(c), BlocksApart(c), CallAccount(c)'
    PROVE CellsShaped' /\ \A d \in Call : CallAccount(d)'
<1>1. CellsShaped'
    BY DEF BlocksApart, CellsShaped
<1>2. ASSUME NEW d \in Call, d # c
      PROVE CallAccount(d)'
    BY <1>2, AccountStays DEF OthersSame, BlocksApart
<1> QED BY <1>1, <1>2

\* Another call has another block.
LEMMA OtherBlock ==
    ASSUME Accounts, NEW c \in Call, NEW d \in Call, d # c, block[d] \in Block
    PROVE block[d] # block[c]
<1>1. block[d] # NULL
    BY InvokeAssumption
<1> QED BY <1>1 DEF Accounts, IInv, OneHolder

\* A step that writes no cells leaves those of the other calls alone.
LEMMA CellsSame ==
    ASSUME Accounts, NEW c \in Call, from_cell' = from_cell, to_cell' = to_cell,
           DOMAIN ret_cell' = Call, DOMAIN over' = Call
    PROVE BlocksApart(c)
BY Functions DEF BlocksApart

\* Each action changes the accounts of no other call: Enter clears a block that
\* nobody else has.
LEMMA EnterFrame ==
    ASSUME Accounts, NEW c \in Call, NEW s \in Signature, NEW b \in Block \cup {NULL},
           Enter(c, s, b)
    PROVE OthersSame(c) /\ BlocksApart(c)
<1>1. OthersSame(c)
    BY Functions DEF Enter, OthersSame, mvars
<1>2. DOMAIN ret_cell' = Call /\ DOMAIN over' = Call
    BY Functions DEF Enter, mvars
<1>3. CASE NArgs(s) = 0
    <2>1. from_cell' = from_cell /\ to_cell' = to_cell
        BY <1>3 DEF Enter, InitBlock, bvars
    <2> QED BY <2>1, <1>1, <1>2, CellsSame
<1>4. CASE NArgs(s) # 0
    <2>1. b \in Block /\ ((NArgs(s) < NMax /\ TakeBlock(NArgs(s), b)) \/ NewBlock(NArgs(s), b))
        BY <1>4 DEF Enter, InitBlock
    <2>2. /\ from_cell' = [from_cell EXCEPT ![b] = Blank]
          /\ to_cell' = [to_cell EXCEPT ![b] = Blank]
        BY <2>1 DEF TakeBlock, NewBlock
    <2>3. ASSUME NEW d \in Call, block[d] = b
          PROVE FALSE
        <3>1. block[d] # NULL
            BY <2>1, <2>3, InvokeAssumption
        <3>2. NArgs(s) \in Nat /\ NArgs(sig[d]) \in Nat
            BY WidthLargest, Functions
        <3>3. CASE NArgs(s) < NMax /\ TakeBlock(NArgs(s), b)
            <4>1. NArgs(s) \in 0 .. NMax - 1 /\ slot[NArgs(s)] = block[d]
                BY <3>2, <3>3, <2>3, InvokeAssumption DEF TakeBlock
            <4> QED BY <4>1, <3>1 DEF Accounts, IInv, OneHolder
        <3>4. CASE NewBlock(NArgs(s), b)
            <4>1. size[b] = -1
                BY <3>4 DEF NewBlock
            <4>2. size[b] = NArgs(sig[d])
                BY <2>3, <3>1 DEF Accounts, IInv, BlockFits
            <4> QED BY <4>1, <4>2, <3>2
        <3> QED BY <2>1, <3>3, <3>4
    <2>4. DOMAIN Blank = 1 .. Width
        BY DEF Blank
    <2>5. BlocksApart(c)
        BY <1>2, <2>1, <2>2, <2>3, <2>4, Functions DEF BlocksApart
    <2> QED BY <1>1, <2>5
<1> QED BY <1>3, <1>4

\* The cells of an argument are written to the block of its call.
LEMMA StoredApart ==
    ASSUME Accounts, NEW c \in Call, NEW n, NEW cells,
           from_cell' = from_cell \/ StoreFrom(block[c], n, cells), to_cell' = to_cell,
           DOMAIN ret_cell' = Call, DOMAIN over' = Call
    PROVE BlocksApart(c)
<1>1. CASE from_cell' = from_cell
    BY <1>1, CellsSame
<1>2. CASE StoreFrom(block[c], n, cells)
    <2>1. from_cell' = [from_cell EXCEPT ![block[c]] = [@ EXCEPT ![n] = cells]]
        BY <1>2 DEF StoreFrom
    <2>2. /\ DOMAIN from_cell' = Block
          /\ \A b \in Block : b # block[c] => from_cell'[b] = from_cell[b]
          /\ \A b \in Block : DOMAIN from_cell'[b] = 1 .. Width
        BY <2>1, Functions
    <2> QED BY <2>2, Functions, OtherBlock DEF BlocksApart
<1> QED BY <1>1, <1>2

\* Conversions of arguments write cells in the block of their call.
LEMMA MarshalInFrame ==
    ASSUME Accounts, NEW c \in Call,
           MarshalIn(c) \/ \E f \in 0 .. MaxItems + 1 : MarshalInFails(c, f)
    PROVE OthersSame(c) /\ BlocksApart(c)
<1>1. CASE MarshalIn(c)
    <2>1. OthersSame(c)
        BY <1>1, Functions DEF MarshalIn, Advance, OthersSame
    <2>2. /\ to_cell' = to_cell /\ DOMAIN ret_cell' = Call /\ DOMAIN over' = Call
          /\ \E n, cells : from_cell' = from_cell \/ StoreFrom(block[c], n, cells)
        BY <1>1, Functions DEF MarshalIn
    <2> QED BY <2>1, <2>2, StoredApart
<1>2. ASSUME NEW f \in 0 .. MaxItems + 1, MarshalInFails(c, f)
      PROVE OthersSame(c) /\ BlocksApart(c)
    <2>1. OthersSame(c)
        BY <1>2, Functions DEF MarshalInFails, OthersSame
    <2>2. /\ to_cell' = to_cell /\ DOMAIN ret_cell' = Call /\ DOMAIN over' = Call
          /\ \E n, cells : from_cell' = from_cell \/ StoreFrom(block[c], n, cells)
        BY <1>2, Functions DEF MarshalInFails
    <2> QED BY <2>1, <2>2, StoredApart
<1> QED BY <1>1, <1>2

\* Steps that write no cells.
LEMMA OtherFrames ==
    ASSUME Accounts, NEW c \in Call,
           \/ \E s \in Signature : EnterFails(c, s)
           \/ StartCall(c) \/ CallReturns(c) \/ CallThrows(c) \/ OutDone(c)
           \/ Clear(c) \/ Finish(c)
    PROVE OthersSame(c) /\ BlocksApart(c)
<1>1. CASE \E s \in Signature : EnterFails(c, s)
    <2>1. OthersSame(c)
        BY <1>1, Functions DEF EnterFails, OthersSame, bvars, mvars
    <2>2. /\ from_cell' = from_cell /\ to_cell' = to_cell
          /\ DOMAIN ret_cell' = Call /\ DOMAIN over' = Call
        BY <1>1, Functions DEF EnterFails, bvars, mvars
    <2> QED BY <2>1, <2>2, CellsSame
<1>2. CASE StartCall(c)
    <2>1. OthersSame(c)
        BY <1>2, Functions DEF StartCall, OthersSame, bvars
    <2>2. /\ from_cell' = from_cell /\ to_cell' = to_cell
          /\ DOMAIN ret_cell' = Call /\ DOMAIN over' = Call
        BY <1>2, Functions DEF StartCall, bvars
    <2> QED BY <2>1, <2>2, CellsSame
<1>3. CASE CallReturns(c)
    <2>1. OthersSame(c)
        BY <1>3, Functions DEF CallReturns, OthersSame, bvars
    <2>2. /\ from_cell' = from_cell /\ to_cell' = to_cell
          /\ DOMAIN ret_cell' = Call /\ DOMAIN over' = Call
        BY <1>3, Functions DEF CallReturns, bvars
    <2> QED BY <2>1, <2>2, CellsSame
<1>4. CASE CallThrows(c) \/ OutDone(c)
    <2>1. OthersSame(c)
        BY <1>4, Functions DEF CallThrows, OutDone, OthersSame, bvars, mvars
    <2>2. /\ from_cell' = from_cell /\ to_cell' = to_cell
          /\ DOMAIN ret_cell' = Call /\ DOMAIN over' = Call
        BY <1>4, Functions DEF CallThrows, OutDone, bvars, mvars
    <2> QED BY <2>1, <2>2, CellsSame
<1>5. CASE Clear(c)
    <2>1. OthersSame(c)
        BY <1>5, Functions DEF Clear, OthersSame, mvars
    <2>2. /\ from_cell' = from_cell /\ to_cell' = to_cell
          /\ DOMAIN ret_cell' = Call /\ DOMAIN over' = Call
        BY <1>5, Functions DEF Clear, FreeBlock, mvars
    <2> QED BY <2>1, <2>2, CellsSame
<1>6. CASE Finish(c)
    <2>1. OthersSame(c)
        BY <1>6, Functions DEF Finish, OthersSame, bvars
    <2>2. /\ from_cell' = from_cell /\ to_cell' = to_cell
          /\ DOMAIN ret_cell' = Call /\ DOMAIN over' = Call
        BY <1>6, Functions DEF Finish, bvars
    <2> QED BY <2>1, <2>2, CellsSame
<1> QED BY <1>1, <1>2, <1>3, <1>4, <1>5, <1>6

\* Conversions of results, too.
LEMMA MarshalOutFrame ==
    ASSUME Accounts, NEW c \in Call,
           MarshalOut(c) \/ \E f \in 0 .. MaxItems + 1 : MarshalOutFails(c, f)
    PROVE OthersSame(c) /\ BlocksApart(c)
<1>1. PICK s, n : s = sig[c] /\ n = at[c]
    OBVIOUS
<1>2. pc[c] = "out" /\ n <= Len(s.args)
    BY <1>1 DEF MarshalOut, MarshalOutFails
<1>3. n \in 0 .. Width /\ (n # 0 => block[c] \in Block)
    BY <1>1, <1>2, NextResult
<1>4. CASE MarshalOut(c)
    <2>1. CASE UNCHANGED <<mvars, ret_cell, to_cell>>
        <3>1. OthersSame(c)
            BY <1>4, <2>1, Functions DEF MarshalOut, Advance, OthersSame, mvars
        <3>2. /\ from_cell' = from_cell /\ to_cell' = to_cell
              /\ DOMAIN ret_cell' = Call /\ DOMAIN over' = Call
            BY <1>4, <2>1, Functions DEF MarshalOut, mvars
        <3> QED BY <3>1, <3>2, CellsSame
    <2>2. CASE ~(at[c] > 0 /\ ~IsOut(Arg(c)))
        <3>1. PICK cells, taken :
                 /\ StoreTo(c, cells) /\ over' = over
                 /\ ours' = [ours EXCEPT ![c] = @ \ taken]
                 /\ result' = [result EXCEPT ![c] = @ \cup taken]
            BY <1>4, <2>2 DEF MarshalOut
        <3>2. block' = block /\ from_cell' = from_cell /\ sig' = sig /\ outcome' = outcome
              /\ pc' = pc /\ at' = [at EXCEPT ![c] = @ + 1]
            BY <1>4 DEF MarshalOut, Advance
        <3>3. /\ DOMAIN ret_cell' = Call
              /\ \A d \in Call : d # c => ret_cell'[d] = ret_cell[d]
              /\ DOMAIN to_cell' = Block
              /\ \A b \in Block : /\ DOMAIN to_cell'[b] = 1 .. Width
                                  /\ b # block[c] => to_cell'[b] = to_cell[b]
            BY <1>1, <1>3, <3>1, <3>2, CellsStored
        <3>4. OthersSame(c)
            BY <3>1, <3>2, <3>3, Functions DEF OthersSame
        <3>5. BlocksApart(c)
            BY <3>1, <3>2, <3>3, Functions, OtherBlock DEF BlocksApart
        <3> QED BY <3>4, <3>5
    <2> QED BY <1>4, <2>1, <2>2 DEF MarshalOut
<1>5. ASSUME NEW f \in 0 .. MaxItems + 1, MarshalOutFails(c, f)
      PROVE OthersSame(c) /\ BlocksApart(c)
    <2>1. PICK cells, gone : StoreTo(c, cells) /\ Free(c, gone)
        BY <1>5 DEF MarshalOutFails
    <2>2. /\ block' = block /\ from_cell' = from_cell /\ sig' = sig /\ at' = at
          /\ pc' = [pc EXCEPT ![c] = "clean from"]
          /\ outcome' = [outcome EXCEPT ![c] = "badresult"]
          /\ result' = [result EXCEPT ![c] = {}]
        BY <1>5 DEF MarshalOutFails
    <2>3. /\ DOMAIN ret_cell' = Call
          /\ \A d \in Call : d # c => ret_cell'[d] = ret_cell[d]
          /\ DOMAIN to_cell' = Block
          /\ \A b \in Block : /\ DOMAIN to_cell'[b] = 1 .. Width
                              /\ b # block[c] => to_cell'[b] = to_cell[b]
        BY <1>1, <1>3, <2>1, <2>2, CellsStored
    <2>4. /\ DOMAIN over' = Call
          /\ \A d \in Call : d # c => over'[d] = over[d] /\ ours'[d] = ours[d]
        BY <2>1, Functions DEF Free
    <2>5. OthersSame(c)
        BY <2>2, <2>3, <2>4, Functions DEF OthersSame
    <2>6. BlocksApart(c)
        BY <2>2, <2>3, <2>4, Functions, OtherBlock DEF BlocksApart
    <2> QED BY <2>5, <2>6
<1> QED BY <1>4, <1>5

\* Cleaning up clears cells in the block of its call.
LEMMA CleanFrame ==
    ASSUME Accounts, NEW c \in Call, CleanFrom(c) \/ CleanTo(c)
    PROVE OthersSame(c) /\ BlocksApart(c)
<1>1. CASE CleanFrom(c)
    <2>1. PICK gone : Free(c, gone)
        BY <1>1 DEF CleanFrom
    <2>2. /\ to_cell' = to_cell /\ result' = result /\ ret_cell' = ret_cell /\ sig' = sig
          /\ block' = block /\ at' = at /\ outcome' = outcome
          /\ \E p : pc' = [pc EXCEPT ![c] = p]
        BY <1>1 DEF CleanFrom
    <2>3. /\ DOMAIN over' = Call
          /\ \A d \in Call : d # c => over'[d] = over[d] /\ ours'[d] = ours[d]
        BY <2>1, Functions DEF Free
    <2>4. /\ DOMAIN from_cell' = Block
          /\ \A b \in Block : /\ DOMAIN from_cell'[b] = 1 .. Width
                              /\ b # block[c] => from_cell'[b] = from_cell[b]
        BY <1>1, Functions DEF CleanFrom
    <2>5. OthersSame(c)
        BY <2>2, <2>3, Functions DEF OthersSame
    <2>6. BlocksApart(c)
        BY <2>2, <2>3, <2>4, Functions, OtherBlock DEF BlocksApart
    <2> QED BY <2>5, <2>6
<1>2. CASE CleanTo(c)
    <2>1. PICK gone : Free(c, gone)
        BY <1>2 DEF CleanTo
    <2>2. /\ from_cell' = from_cell /\ ret_cell' = ret_cell /\ sig' = sig
          /\ block' = block /\ at' = at /\ outcome' = outcome
          /\ pc' = [pc EXCEPT ![c] = "clear"]
          /\ \E p : result' = [result EXCEPT ![c] = @ \ p]
        BY <1>2 DEF CleanTo
    <2>3. /\ DOMAIN over' = Call
          /\ \A d \in Call : d # c => over'[d] = over[d] /\ ours'[d] = ours[d]
        BY <2>1, Functions DEF Free
    <2>4. /\ DOMAIN to_cell' = Block
          /\ \A b \in Block : /\ DOMAIN to_cell'[b] = 1 .. Width
                              /\ b # block[c] => to_cell'[b] = to_cell[b]
        BY <1>2, Functions DEF CleanTo
    <2>5. OthersSame(c)
        BY <2>2, <2>3, Functions DEF OthersSame
    <2>6. BlocksApart(c)
        BY <2>2, <2>3, <2>4, Functions, OtherBlock DEF BlocksApart
    <2> QED BY <2>5, <2>6
<1> QED BY <1>1, <1>2

(***************************************************************************)
(* The invariant.                                                          *)
(***************************************************************************)

\* Nothing is held before the first call.
LEMMA InitAccounts ==
    ASSUME Init
    PROVE Accounts
<1>1. IInv
    BY InitHolds
<1>2. CellsShaped
    BY DEF Init, CellsShaped, Blank
<1>3. ASSUME NEW c \in Call
      PROVE CallAccount(c)
    <2>1. /\ pc[c] = "idle" /\ outcome[c] = "" /\ ours[c] = {} /\ result[c] = {}
          /\ ret_cell[c] = {} /\ over[c] = {}
        BY DEF Init
    <2>2. "idle" \notin Working
        BY DEF Working, Converting
    <2> QED BY <2>1, <2>2 DEF CallAccount
<1> QED BY <1>1, <1>2, <1>3 DEF Accounts

\* Every step keeps the accounts: of its call by the lemma of its action, of the
\* others because it leaves them alone.
LEMMA NextAccounts ==
    ASSUME Accounts, [Next]_vars
    PROVE Accounts'
<1>1. IInv'
    BY NextKeeps DEF Accounts
<1>2. CASE UNCHANGED vars
    <2>1. CellsShaped'
        BY <1>2 DEF vars, bvars, mvars, CellsShaped, Accounts
    <2>2. ASSUME NEW d \in Call PROVE CallAccount(d)'
        BY <1>2, AccountStays DEF vars, bvars, mvars
    <2> QED BY <1>1, <2>1, <2>2 DEF Accounts
<1>3. ASSUME NEW c \in Call, CallAccount(c)', OthersSame(c), BlocksApart(c)
      PROVE Accounts'
    BY <1>1, <1>3, OthersAccount DEF Accounts
<1>4. ASSUME NEW c \in Call, NEW s \in Signature, EnterFails(c, s)
      PROVE Accounts'
    BY <1>3, <1>4, EnterFailsAccount, OtherFrames
<1>5. ASSUME NEW c \in Call, NEW s \in Signature, NEW b \in Block \cup {NULL}, Enter(c, s, b)
      PROVE Accounts'
    BY <1>3, <1>5, EnterAccount, EnterFrame
<1>6. ASSUME NEW c \in Call, MarshalIn(c) PROVE Accounts'
    BY <1>3, <1>6, MarshalInAccount, MarshalInFrame
<1>7. ASSUME NEW c \in Call, NEW f \in 0 .. MaxItems + 1, MarshalInFails(c, f) PROVE Accounts'
    BY <1>3, <1>7, MarshalInFailsAccount, MarshalInFrame
<1>8. ASSUME NEW c \in Call, StartCall(c) PROVE Accounts'
    BY <1>3, <1>8, StartCallAccount, OtherFrames
<1>9. ASSUME NEW c \in Call, CallReturns(c) PROVE Accounts'
    BY <1>3, <1>9, CallReturnsAccount, OtherFrames
<1>10. ASSUME NEW c \in Call, CallThrows(c) PROVE Accounts'
    BY <1>3, <1>10, CallThrowsAccount, OtherFrames
<1>11. ASSUME NEW c \in Call, MarshalOut(c) PROVE Accounts'
    BY <1>3, <1>11, MarshalOutAccount, MarshalOutFrame
<1>12. ASSUME NEW c \in Call, NEW f \in 0 .. MaxItems + 1, MarshalOutFails(c, f) PROVE Accounts'
    BY <1>3, <1>12, MarshalOutFailsAccount, MarshalOutFrame
<1>13. ASSUME NEW c \in Call, OutDone(c) PROVE Accounts'
    BY <1>3, <1>13, OutDoneAccount, OtherFrames
<1>14. ASSUME NEW c \in Call, CleanFrom(c) PROVE Accounts'
    BY <1>3, <1>14, CleanFromAccount, CleanFrame
<1>15. ASSUME NEW c \in Call, CleanTo(c) PROVE Accounts'
    BY <1>3, <1>15, CleanToAccount, CleanFrame
<1>16. ASSUME NEW c \in Call, Clear(c) PROVE Accounts'
    BY <1>3, <1>16, ClearAccount, OtherFrames
<1>17. ASSUME NEW c \in Call, Finish(c) PROVE Accounts'
    BY <1>3, <1>17, FinishAccount, OtherFrames
<1> QED
    BY <1>2, <1>4, <1>5, <1>6, <1>7, <1>8, <1>9, <1>10, <1>11, <1>12, <1>13, <1>14,
       <1>15, <1>16, <1>17 DEF Next

\* Calls, however they nest and interleave, keep the accounts of what they hold.
THEOREM AccountsKept == Spec => []Accounts
<1>1. Init => Accounts
    BY InitAccounts
<1>2. Accounts /\ [Next]_vars => Accounts'
    BY NextAccounts
<1> QED BY <1>1, <1>2, PTL DEF Spec

\* Whatever way a call of a C function ends, nothing is released that was not its
\* to release, or twice, and nothing stays with it, but for the exceptions that
\* MemoryBalanced names (pygi_invoke_c_callable).
THEOREM BalancesMemory == Spec => []MemoryBalanced
<1>1. ASSUME Accounts PROVE MemoryBalanced
    <2>1. \A c \in Call : CallAccount(c)
        BY <1>1 DEF Accounts
    <2>2. NothingOver
        BY <2>1 DEF NothingOver, CallAccount
    <2>3. NothingLost
        BY <2>1 DEF NothingLost, CallAccount
    <2> QED BY <2>2, <2>3 DEF MemoryBalanced
<1> QED BY <1>1, AccountsKept, PTL
==============================================================================
