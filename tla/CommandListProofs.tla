--------------------------- MODULE CommandListProofs ---------------------------
(***************************************************************************)
(* Proofs about CommandList, for any lists, buffers, pipelines and layouts  *)
(* of push data, any size of a chunk and any bounds.                        *)
(*                                                                          *)
(* That every descriptor is found needs that a list never outgrows its      *)
(* chunk (Roomy), and the barriers need that lists are recorded one after   *)
(* the other; the ownership of chunks, and the descriptors a dispatch wrote *)
(* itself, need nothing.                                                    *)
(***************************************************************************)
EXTENDS CommandList, DataFacts

-----------------------------------------------------------------------------
(* The inductive invariant *)

Fields == {"phase", "id", "pipeline", "pipelineChanged", "bindings", "active",
           "touched", "push", "dispatches", "reads", "open"}

ChunkType == [capacity : Nat, cursor : Nat, slots : MapsOf(Nat, Buffers)]

Shape ==
    /\ TypeOK
    /\ DOMAIN list = Lists
    /\ \A l \in Lists :
        /\ DOMAIN list[l] = Fields
        /\ list[l].bindings \in MapsOf(Keys, BindingType)
        /\ IsFiniteSet(DOMAIN list[l].bindings)
        /\ list[l].pipelineChanged \in BOOLEAN
        /\ list[l].push \in MapsOf(Offsets, Nat \cup {None})
    /\ heap \in Seq(ChunkType)
    /\ reclaim \in Seq(Nat) /\ Len(reclaim) = Len(heap)

InList(l, c) == Recording(l) /\ c \in Range(list[l].touched)

(* What ChunkHasOneOwner counts: a chunk is in the free pool, or belongs to *)
(* a list that is being recorded, or is queued, and only one of these.      *)
Ownership ==
    /\ IsInjective(freePool)
    /\ \A l \in Lists : Recording(l) =>
        /\ IsInjective(list[l].touched)
        /\ list[l].active # None => list[l].active \in Range(list[l].touched)
    /\ \A c \in Chunks :
        c \in Range(freePool) \/ (\E l \in Lists : InList(l, c)) \/ reclaim[c] # 0
    /\ \A c \in Range(freePool) : reclaim[c] = 0
    /\ \A c \in Chunks, l \in Lists : InList(l, c) =>
        /\ c \notin Range(freePool) /\ reclaim[c] = 0
        /\ \A m \in Lists : InList(m, c) => m = l

(* A list in flight has not finished, and no other has an id.               *)
Stamped ==
    \A l \in Lists : /\ InFlight(l) => finished < list[l].id
                     /\ ~InFlight(l) => list[l].id = 0

(* The slots written of a chunk are those below its cursor.                 *)
Slots ==
    /\ \A c \in Range(freePool) : DOMAIN heap[c].slots = {}
    /\ \A c \in Chunks :
        /\ \A s \in DOMAIN heap[c].slots : s < heap[c].cursor
        /\ ChunkSlots <= heap[c].capacity

(* All descriptors a list writes fit into one chunk.                        *)
Roomy == IsFiniteSet(Keys) /\ MaxDispatches * Cardinality(Keys) <= ChunkSlots

(* What a pending dispatch wrote, or all it reads if there is room, is in a *)
(* chunk that nobody else will write.                                       *)
ReadsFound ==
    \A l \in Pending : \A read \in list[l].reads : read.fresh \/ Roomy =>
        /\ read.chunk \in Chunks /\ Finds(read)
        /\ Recording(l) => read.chunk \in Range(list[l].touched)
        /\ InFlight(l) => reclaim[read.chunk] = list[l].id

(* A binding that will not be resolved again has its index in the push      *)
(* data, and its descriptor in the active chunk.                            *)
Clean(l, key) == ~list[l].pipelineChanged /\ ~list[l].bindings[key].dirty

FoundAt(l, key) ==
    LET offset == PushOffset[list[l].pipeline][key]
        slots == heap[list[l].active].slots
    IN  /\ list[l].active # None
        /\ offset \in DOMAIN list[l].push
        /\ list[l].push[offset] \in DOMAIN slots
        /\ slots[list[l].push[offset]] = list[l].bindings[key].buffer

CleanFound ==
    Roomy => \A l \in Lists : Recording(l) /\ list[l].pipeline # None =>
        \A key \in Used(l) : Clean(l, key) => FoundAt(l, key)

RoomLeft ==
    Roomy => \A l \in Lists : Recording(l) /\ list[l].active # None =>
        heap[list[l].active].cursor <= list[l].dispatches * Cardinality(Keys)

IInv ==
    /\ Shape
    /\ Ownership
    /\ Stamped
    /\ Slots
    /\ ReadsFound
    /\ CleanFound
    /\ RoomLeft

-----------------------------------------------------------------------------
(* Facts about sequences *)

LEMMA AppendRange ==
    ASSUME NEW S, NEW s \in Seq(S), NEW e \in S
    PROVE  /\ Append(s, e) \in Seq(S) /\ Range(Append(s, e)) = Range(s) \cup {e}
           /\ IsInjective(s) /\ e \notin Range(s) => IsInjective(Append(s, e))
<1> DEFINE n == Len(s)
           longer == Append(s, e)
<1>1. n \in Nat /\ DOMAIN s = 1 .. n
  OBVIOUS
<1> HIDE DEF n
<1>2. /\ longer \in Seq(S) /\ longer \in [1 .. n + 1 -> S]
      /\ longer[n + 1] = e /\ \A i \in 1 .. n : longer[i] = s[i]
  BY <1>1, AppendFacts DEF n
<1> HIDE DEF longer
<1>3. DOMAIN longer = 1 .. n + 1 /\ 1 .. n + 1 = 1 .. n \cup {n + 1}
  BY <1>1, <1>2
<1>4. Range(longer) = Range(s) \cup {e}
  BY <1>1, <1>2, <1>3 DEF Range
<1>5. IsInjective(s) /\ e \notin Range(s) => IsInjective(longer)
  BY <1>1, <1>2, <1>3 DEF Range, IsInjective
<1> QED
  BY <1>2, <1>4, <1>5 DEF longer

LEMMA ConcatRange ==
    ASSUME NEW S, NEW s \in Seq(S), NEW t \in Seq(S)
    PROVE  /\ s \o t \in Seq(S) /\ Range(s \o t) = Range(s) \cup Range(t)
           /\ IsInjective(s) /\ IsInjective(t) /\ Range(s) \cap Range(t) = {}
                => IsInjective(s \o t)
<1> DEFINE m == Len(s)
           n == Len(t)
           all == s \o t
<1>1. m \in Nat /\ n \in Nat /\ DOMAIN s = 1 .. m /\ DOMAIN t = 1 .. n
  OBVIOUS
<1>2. /\ all \in Seq(S) /\ DOMAIN all = 1 .. m + n
      /\ \A i \in 1 .. m : all[i] = s[i]
      /\ \A i \in 1 .. n : all[m + i] = t[i]
  BY <1>1
<1> HIDE DEF m, n, all
<1>3. /\ \A i \in 1 .. m : i \in 1 .. m + n
      /\ \A i \in 1 .. n : m + i \in 1 .. m + n
      /\ \A i \in 1 .. m + n : i \in 1 .. m \/ (i - m \in 1 .. n /\ i = m + (i - m))
  BY <1>1
<1>4. Range(all) = Range(s) \cup Range(t)
  <2>1. ASSUME NEW i \in 1 .. m + n PROVE all[i] \in Range(s) \cup Range(t)
    <3>1. CASE i \in 1 .. m
      BY <1>1, <1>2, <3>1 DEF Range
    <3>2. CASE i - m \in 1 .. n /\ i = m + (i - m)
      <4>1. all[i] = t[i - m]
        BY <1>2, <3>2
      <4> QED
        BY <1>1, <3>2, <4>1 DEF Range
    <3> QED
      BY <1>3, <3>1, <3>2
  <2>2. \A i \in 1 .. m : s[i] \in Range(all)
    BY <1>2, <1>3 DEF Range
  <2>3. \A i \in 1 .. n : t[i] \in Range(all)
    BY <1>2, <1>3 DEF Range
  <2> QED
    BY <1>1, <1>2, <2>1, <2>2, <2>3 DEF Range
<1>5. ASSUME IsInjective(s), IsInjective(t), Range(s) \cap Range(t) = {}
      PROVE  IsInjective(all)
  <2>1. \A i \in 1 .. m, j \in 1 .. n : s[i] # t[j]
    BY <1>1, <1>5 DEF Range
  <2> SUFFICES ASSUME NEW i \in 1 .. m + n, NEW j \in 1 .. m + n, all[i] = all[j]
               PROVE  i = j
    BY <1>2 DEF IsInjective
  <2>2. CASE i \in 1 .. m /\ j \in 1 .. m
    BY <1>1, <1>2, <1>5, <2>2 DEF IsInjective
  <2>3. ASSUME NEW a \in 1 .. n, NEW b \in 1 .. n, all[m + a] = all[m + b]
        PROVE  a = b
    <3>1. t[a] = t[b]
      BY <1>2, <2>3
    <3> QED
      BY <1>1, <1>5, <3>1 DEF IsInjective
  <2>4. \A a \in 1 .. m, b \in 1 .. n : all[a] # all[m + b]
    BY <1>2, <2>1
  <2> QED
    BY <1>3, <2>2, <2>3, <2>4
<1> QED
  BY <1>2, <1>4, <1>5 DEF all

LEMMA RemoveAtRange ==
    ASSUME NEW S, NEW s \in Seq(S), NEW k \in DOMAIN s, IsInjective(s)
    PROVE  /\ RemoveAt(s, k) \in Seq(S)
           /\ Range(RemoveAt(s, k)) = Range(s) \ {s[k]}
           /\ IsInjective(RemoveAt(s, k))
<1> DEFINE n == Len(s)
           front == SubSeq(s, 1, k - 1)
           back == SubSeq(s, k + 1, n)
<1>1. /\ n \in Nat /\ DOMAIN s = 1 .. n /\ k \in 1 .. n
      /\ s \in [1 .. n -> S]
  OBVIOUS
<1>2. front \in Seq(S) /\ DOMAIN front = 1 .. k - 1
      /\ \A j \in 1 .. k - 1 : front[j] = s[j]
  BY <1>1
<1>3. back \in Seq(S) /\ DOMAIN back = 1 .. n - k
      /\ \A j \in 1 .. n - k : back[j] = s[k + j]
  BY <1>1
<1> HIDE DEF n, front, back
<1>4. /\ \A j \in 1 .. k - 1 : j \in 1 .. n /\ j # k
      /\ \A j \in 1 .. n - k : k + j \in 1 .. n /\ k + j # k
      /\ \A j \in 1 .. n : j # k => j \in 1 .. k - 1 \/ (j - k \in 1 .. n - k /\ k + (j - k) = j)
      /\ \A i \in 1 .. k - 1, j \in 1 .. n - k : i # k + j
  BY <1>1
<1>5. Range(front) \cup Range(back) = Range(s) \ {s[k]}
  <2>1. ASSUME NEW j \in 1 .. n, j # k
        PROVE  s[j] \in Range(front) \cup Range(back)
    <3>1. CASE j \in 1 .. k - 1
      BY <1>2, <3>1 DEF Range
    <3>2. CASE j - k \in 1 .. n - k /\ k + (j - k) = j
      <4>1. back[j - k] = s[j]
        BY <1>3, <3>2
      <4> QED
        BY <1>3, <3>2, <4>1 DEF Range
    <3> QED
      BY <1>4, <2>1, <3>1, <3>2
  <2>2. \A j \in 1 .. k - 1 : front[j] \in Range(s) \ {s[k]}
    BY <1>1, <1>2, <1>4 DEF Range, IsInjective
  <2>3. \A j \in 1 .. n - k : back[j] \in Range(s) \ {s[k]}
    BY <1>1, <1>3, <1>4 DEF Range, IsInjective
  <2>4. Range(s) \ {s[k]} \subseteq Range(front) \cup Range(back)
    BY <1>1, <2>1 DEF Range
  <2>5. Range(front) \subseteq Range(s) \ {s[k]}
    BY <1>2, <2>2 DEF Range
  <2>6. Range(back) \subseteq Range(s) \ {s[k]}
    BY <1>3, <2>3 DEF Range
  <2> QED
    BY <2>4, <2>5, <2>6
<1>6. IsInjective(front) /\ IsInjective(back)
  <2>1. IsInjective(front)
    BY <1>1, <1>2, <1>4 DEF IsInjective
  <2>2. ASSUME NEW i \in 1 .. n - k, NEW j \in 1 .. n - k, s[k + i] = s[k + j]
        PROVE  i = j
    <3>1. k + i = k + j
      BY <1>1, <1>4, <2>2 DEF IsInjective
    <3> QED
      BY <1>1, <3>1
  <2> QED
    BY <1>3, <2>1, <2>2 DEF IsInjective
<1>7. Range(front) \cap Range(back) = {}
  BY <1>1, <1>2, <1>3, <1>4 DEF Range, IsInjective
<1>8. RemoveAt(s, k) = front \o back
  BY DEF RemoveAt, front, back, n
<1> QED
  BY <1>2, <1>3, <1>5, <1>6, <1>7, <1>8, ConcatRange


-----------------------------------------------------------------------------
(* The parts of Shape *)

(* What Shape says of one list, with ids up to n and the chunks of C.       *)
GoodList(e, n, C) ==
    /\ DOMAIN e = Fields
    /\ e.phase \in {"none", "recording", "submitted"}
    /\ e.id \in 0 .. n
    /\ e.pipeline \in Pipelines \cup {None}
    /\ e.pipelineChanged \in BOOLEAN
    /\ e.bindings \in MapsOf(Keys, BindingType)
    /\ IsFiniteSet(DOMAIN e.bindings)
    /\ e.active \in C \cup {None}
    /\ e.touched \in Seq(C)
    /\ e.push \in MapsOf(Offsets, Nat \cup {None})
    /\ e.dispatches \in 0 .. MaxDispatches
    /\ e.open \in [Buffers -> SUBSET {"read", "write"}]

LEMMA ShapeFacts ==
    ASSUME Shape
    PROVE  /\ DOMAIN list = Lists
           /\ \A l \in Lists : GoodList(list[l], submitted, Chunks)
           /\ submitted \in 0 .. MaxSubmissions /\ finished \in 0 .. submitted
           /\ lastAccess \in [Buffers -> Accesses \cup {"none"}]
           /\ heap \in Seq(ChunkType) /\ Chunks = 1 .. Len(heap) /\ Len(heap) \in Nat
           /\ \A c \in Chunks : /\ heap[c] \in ChunkType
                                 /\ heap[c].cursor \in 0 .. heap[c].capacity
           /\ freePool \in Seq(Chunks)
           /\ reclaim \in [Chunks -> 0 .. submitted]
           /\ reclaim \in Seq(Nat) /\ Len(reclaim) = Len(heap)
<1>1. heap \in Seq(ChunkType)
  BY DEF Shape
<1>2. /\ Chunks = 1 .. Len(heap) /\ Len(heap) \in Nat
      /\ \A c \in Chunks : heap[c] \in ChunkType
  BY <1>1, LenProperties, ElementOfSeq DEF Chunks
<1>3. \A l \in Lists : GoodList(list[l], submitted, Chunks)
  BY DEF Shape, TypeOK, GoodList
<1> QED
  BY <1>1, <1>2, <1>3 DEF Shape, TypeOK, TimelineTypeOK

LEMMA ShapeNext ==
    ASSUME DOMAIN list' = Lists,
           \A l \in Lists : GoodList(list'[l], submitted', Chunks'),
           submitted' \in 0 .. MaxSubmissions, finished' \in 0 .. submitted',
           lastAccess' \in [Buffers -> Accesses \cup {"none"}],
           heap' \in Seq(ChunkType),
           \A c \in Chunks' : heap'[c].cursor \in 0 .. heap'[c].capacity,
           freePool' \in Seq(Chunks'), reclaim' \in [Chunks' -> 0 .. submitted'],
           reclaim' \in Seq(Nat), Len(reclaim') = Len(heap')
    PROVE  Shape'
<1>1. \A l \in Lists : /\ DOMAIN list'[l].bindings \subseteq Keys
                       /\ Range(list'[l].bindings) \subseteq BindingType
                       /\ DOMAIN list'[l].push \subseteq Offsets
  BY MapFacts DEF GoodList, Range
<1> QED
  BY <1>1 DEF Shape, TypeOK, TimelineTypeOK, GoodList

(* A good list stays one when there are more ids and more chunks.           *)
LEMMA GoodListGrows ==
    ASSUME NEW e, NEW n \in Nat, NEW C, GoodList(e, n, C),
           NEW m \in Nat, n <= m, NEW D, C \subseteq D
    PROVE  GoodList(e, m, D)
<1>1. e.touched \in Seq(D)
  BY SeqMonotonic DEF GoodList
<1>2. e.id \in 0 .. m
  BY DEF GoodList
<1> QED
  BY <1>1, <1>2 DEF GoodList

-----------------------------------------------------------------------------
(* The beginning *)

LEMMA NewListFacts ==
    /\ DOMAIN NewList = Fields
    /\ NewList.phase = "none" /\ NewList.id = 0 /\ NewList.pipeline = None
    /\ NewList.pipelineChanged = FALSE /\ NewList.active = None
    /\ NewList.dispatches = 0 /\ NewList.reads = {}
    /\ NewList.open \in [Buffers -> SUBSET {"read", "write"}]
    /\ \A b \in Buffers : NewList.open[b] = {}
    /\ \A S : NewList.touched \in Seq(S)
    /\ Range(NewList.touched) = {} /\ IsInjective(NewList.touched)
    /\ NewList.bindings \in MapsOf(Keys, BindingType)
    /\ DOMAIN NewList.bindings = {} /\ IsFiniteSet(DOMAIN NewList.bindings)
    /\ NewList.push \in MapsOf(Offsets, Nat \cup {None})
<1>1. /\ NewList.bindings = <<>> /\ NewList.push = <<>> /\ NewList.touched = <<>>
  BY DEF NewList
<1>2. DOMAIN NewList = Fields
  BY DEF NewList, Fields
<1>3. /\ NewList.phase = "none" /\ NewList.id = 0 /\ NewList.pipeline = None
      /\ NewList.pipelineChanged = FALSE /\ NewList.active = None
      /\ NewList.dispatches = 0 /\ NewList.reads = {}
      /\ NewList.open = [b \in Buffers |-> {}]
  BY DEF NewList
<1>4. /\ NewList.bindings \in MapsOf(Keys, BindingType)
      /\ NewList.push \in MapsOf(Offsets, Nat \cup {None})
  BY <1>1, EmptyMap
<1>5. DOMAIN NewList.bindings = {} /\ IsFiniteSet(DOMAIN NewList.bindings)
  BY <1>1, FS_EmptySet
<1>6. /\ \A S : NewList.touched \in Seq(S)
      /\ Range(NewList.touched) = {} /\ IsInjective(NewList.touched)
  BY <1>1 DEF Range, IsInjective
<1> QED
  BY <1>2, <1>3, <1>4, <1>5, <1>6

LEMMA NewListIsGood ==
    ASSUME NEW n \in Nat, NEW C
    PROVE  GoodList(NewList, n, C)
<1>1. 0 \in 0 .. MaxDispatches /\ 0 \in 0 .. n
  BY CommandListAssumption
<1> QED
  BY <1>1, NewListFacts DEF GoodList

LEMMA InitIInv == Init => IInv
<1> SUFFICES ASSUME Init PROVE IInv
  OBVIOUS
<1>1. /\ DOMAIN list = Lists /\ \A l \in Lists : list[l] = NewList
      /\ heap = <<>> /\ freePool = <<>> /\ reclaim = <<>>
      /\ submitted = 0 /\ finished = 0
      /\ lastAccess \in [Buffers -> Accesses \cup {"none"}]
  BY DEF Init, TimelineInit
<1>2. /\ Chunks = {} /\ Range(freePool) = {} /\ DOMAIN freePool = {}
      /\ \A l \in Lists : ~Recording(l) /\ ~InFlight(l)
  BY <1>1, NewListFacts DEF Chunks, Range, Recording, InFlight
<1>3. TypeOK
  <2>1. ASSUME NEW l \in Lists
        PROVE  /\ list[l].phase \in {"none", "recording", "submitted"}
               /\ list[l].id \in 0 .. submitted
               /\ list[l].pipeline \in Pipelines \cup {None}
               /\ DOMAIN list[l].bindings \subseteq Keys
               /\ Range(list[l].bindings) \subseteq BindingType
               /\ list[l].active \in Chunks \cup {None}
               /\ list[l].touched \in Seq(Chunks)
               /\ DOMAIN list[l].push \subseteq Offsets
               /\ list[l].dispatches \in 0 .. MaxDispatches
               /\ list[l].open \in [Buffers -> SUBSET {"read", "write"}]
    <3>1. DOMAIN NewList.push \subseteq Offsets /\ Range(NewList.bindings) = {}
      BY NewListFacts, MapFacts DEF Range
    <3>2. 0 \in 0 .. MaxDispatches
      BY CommandListAssumption
    <3> QED
      BY <1>1, <3>1, <3>2, NewListFacts
  <2>2. reclaim \in [Chunks -> 0 .. submitted] /\ freePool \in Seq(Chunks)
    BY <1>1, <1>2
  <2>3. TimelineTypeOK
    BY <1>1, MaxSubmissionsAssumption DEF TimelineTypeOK
  <2> QED
    BY <1>1, <1>2, <2>1, <2>2, <2>3 DEF TypeOK
<1>4. Shape
  <2>1. heap \in Seq(ChunkType) /\ reclaim \in Seq(Nat) /\ Len(reclaim) = Len(heap)
    BY <1>1
  <2>2. \A l \in Lists : list[l].pipelineChanged \in BOOLEAN
    BY <1>1, NewListFacts
  <2> QED
    BY <1>1, <1>3, <2>1, <2>2, NewListFacts DEF Shape
<1>5. Ownership
  BY <1>2 DEF Ownership, InList, IsInjective
<1>6. Stamped /\ Slots /\ ReadsFound /\ CleanFound /\ RoomLeft
  BY <1>1, <1>2, NewListFacts DEF Stamped, Slots, ReadsFound, CleanFound, RoomLeft, Pending
<1> QED
  BY <1>4, <1>5, <1>6 DEF IInv

-----------------------------------------------------------------------------
(* Steps of the list alone *)

(* What a list is bound to changes, and nothing that was recorded.          *)
LEMMA BindingStep ==
    ASSUME IInv, NEW l \in Lists, Recording(l),
           UNCHANGED <<submitted, finished, lastAccess, heap, freePool, reclaim>>,
           DOMAIN list' = Lists, \A m \in Lists : m # l => list'[m] = list[m],
           DOMAIN list'[l] = Fields,
           list'[l].phase = list[l].phase, list'[l].id = list[l].id,
           list'[l].active = list[l].active, list'[l].touched = list[l].touched,
           list'[l].dispatches = list[l].dispatches,
           list'[l].reads = list[l].reads, list'[l].open = list[l].open,
           list'[l].pipeline \in Pipelines \cup {None},
           list'[l].pipelineChanged \in BOOLEAN,
           list'[l].bindings \in MapsOf(Keys, BindingType),
           IsFiniteSet(DOMAIN list'[l].bindings),
           list'[l].push \in MapsOf(Offsets, Nat \cup {None}),
           Roomy /\ list'[l].pipeline # None =>
               \A key \in Used(l)' : Clean(l, key)' => FoundAt(l, key)'
    PROVE  IInv'
<1>1. /\ Shape /\ Ownership /\ Stamped /\ Slots /\ ReadsFound /\ CleanFound /\ RoomLeft
  BY DEF IInv
<1>2. /\ Chunks' = Chunks
      /\ \A m \in Lists : /\ Recording(m)' = Recording(m) /\ InFlight(m)' = InFlight(m)
                          /\ list'[m].id = list[m].id
                          /\ list'[m].active = list[m].active
                          /\ list'[m].touched = list[m].touched
                          /\ list'[m].dispatches = list[m].dispatches
                          /\ list'[m].reads = list[m].reads
      /\ \A m \in Lists : \A c : InList(m, c)' = InList(m, c)
  BY DEF Recording, InFlight, InList, Chunks
<1>3. Shape'
  <2>1. \A m \in Lists :
        /\ DOMAIN list'[m] = Fields
        /\ list'[m].bindings \in MapsOf(Keys, BindingType)
        /\ IsFiniteSet(DOMAIN list'[m].bindings)
        /\ list'[m].pipelineChanged \in BOOLEAN
        /\ list'[m].push \in MapsOf(Offsets, Nat \cup {None})
    BY <1>1 DEF Shape
  <2>2. \A m \in Lists :
        /\ list'[m].phase \in {"none", "recording", "submitted"}
        /\ list'[m].id \in 0 .. submitted
        /\ list'[m].pipeline \in Pipelines \cup {None}
        /\ list'[m].active \in Chunks \cup {None}
        /\ list'[m].touched \in Seq(Chunks)
        /\ list'[m].dispatches \in 0 .. MaxDispatches
        /\ list'[m].open \in [Buffers -> SUBSET {"read", "write"}]
    BY <1>1 DEF Shape, TypeOK
  <2>3. \A m \in Lists :
        /\ DOMAIN list'[m].bindings \subseteq Keys
        /\ Range(list'[m].bindings) \subseteq BindingType
        /\ DOMAIN list'[m].push \subseteq Offsets
    BY <2>1, MapFacts DEF Range
  <2> QED
    BY <1>1, <1>2, <2>1, <2>2, <2>3 DEF Shape, TypeOK, TimelineTypeOK
<1>4. Ownership'
  BY <1>1, <1>2 DEF Ownership
<1>5. Stamped' /\ Slots'
  BY <1>1, <1>2 DEF Stamped, Slots
<1>6. ReadsFound'
  BY <1>1, <1>2 DEF ReadsFound, Pending, Finds
<1>7. CleanFound'
  <2> SUFFICES ASSUME Roomy, NEW m \in Lists, Recording(m)', list'[m].pipeline # None,
                      NEW key \in Used(m)', Clean(m, key)'
               PROVE  FoundAt(m, key)'
    BY DEF CleanFound
  <2>1. CASE m = l
    BY <2>1
  <2>2. CASE m # l
    <3>1. /\ list'[m] = list[m] /\ Used(m)' = Used(m) /\ Clean(m, key)' = Clean(m, key)
          /\ FoundAt(m, key)' = FoundAt(m, key) /\ Recording(m)' = Recording(m)
      BY <2>2 DEF Used, Clean, FoundAt, Recording
    <3> QED
      BY <1>1, <3>1 DEF CleanFound
  <2> QED
    BY <2>1, <2>2
<1>8. RoomLeft'
  BY <1>1, <1>2 DEF RoomLeft
<1> QED
  BY <1>3, <1>4, <1>5, <1>6, <1>7, <1>8 DEF IInv


LEMMA BeginStep ==
    ASSUME IInv, NEW l \in Lists, Begin(l)
    PROVE  IInv'
<1>1. /\ Shape /\ Ownership /\ Stamped /\ Slots /\ ReadsFound /\ CleanFound /\ RoomLeft
  BY DEF IInv
<1> DEFINE fresh == [NewList EXCEPT !.phase = "recording"]
<1>2. /\ ~Recording(l) /\ ~InFlight(l) /\ list' = [list EXCEPT ![l] = fresh]
      /\ UNCHANGED <<submitted, finished, lastAccess, heap, freePool, reclaim>>
  BY DEF Begin, timelineVars
<1>3. /\ DOMAIN fresh = Fields /\ fresh.phase = "recording"
      /\ fresh.id = 0 /\ fresh.pipeline = None /\ fresh.pipelineChanged = FALSE
      /\ fresh.bindings = NewList.bindings /\ fresh.active = None
      /\ fresh.touched = NewList.touched /\ fresh.push = NewList.push
      /\ fresh.dispatches = 0 /\ fresh.reads = {} /\ fresh.open = NewList.open
  BY NewListFacts DEF Fields
<1> HIDE DEF fresh
<1>4. GoodList(fresh, submitted, Chunks)
  <2>1. GoodList(NewList, submitted, Chunks)
    BY <1>1, ShapeFacts, NewListIsGood
  <2> QED
    BY <1>3, <2>1, NewListFacts DEF GoodList
<1>5. /\ DOMAIN list' = Lists /\ list'[l] = fresh
      /\ \A m \in Lists : m # l => list'[m] = list[m]
  BY <1>1, <1>2, ShapeFacts
<1>6. /\ Chunks' = Chunks
      /\ \A m \in Lists : m # l => Recording(m)' = Recording(m)
      /\ \A m \in Lists : InFlight(m)' = InFlight(m)
      /\ \A m \in Lists : \A c : InList(m, c)' = InList(m, c)
  BY <1>2, <1>3, <1>5, NewListFacts DEF Recording, InFlight, InList, Chunks
<1>7. Shape'
  BY <1>1, <1>2, <1>4, <1>5, <1>6, ShapeFacts, ShapeNext
<1>8. Ownership'
  <2>1. IsInjective(fresh.touched)
    BY <1>3, NewListFacts
  <2>2. \A m \in Lists : Recording(m)' =>
          /\ IsInjective(list'[m].touched)
          /\ list'[m].active # None => list'[m].active \in Range(list'[m].touched)
    BY <1>1, <1>3, <1>5, <1>6, <2>1 DEF Ownership
  <2> QED
    BY <1>1, <1>2, <1>6, <2>2 DEF Ownership
<1>9. Stamped' /\ Slots'
  BY <1>1, <1>2, <1>3, <1>5, <1>6 DEF Stamped, Slots, InFlight
<1>10. ReadsFound'
  BY <1>1, <1>2, <1>3, <1>5, <1>6 DEF ReadsFound, Pending, Finds
<1>11. CleanFound'
  <2> SUFFICES ASSUME Roomy, NEW m \in Lists, Recording(m)', list'[m].pipeline # None,
                      NEW key \in Used(m)', Clean(m, key)'
               PROVE  FoundAt(m, key)'
    BY DEF CleanFound
  <2>1. m # l
    BY <1>3, <1>5
  <2>2. /\ list'[m] = list[m] /\ Used(m)' = Used(m) /\ Clean(m, key)' = Clean(m, key)
        /\ FoundAt(m, key)' = FoundAt(m, key) /\ Recording(m)' = Recording(m)
    BY <1>2, <1>5, <2>1 DEF Used, Clean, FoundAt, Recording
  <2> QED
    BY <1>1, <2>2 DEF CleanFound
<1>12. RoomLeft'
  BY <1>1, <1>2, <1>3, <1>5, <1>6 DEF RoomLeft
<1> QED
  BY <1>7, <1>8, <1>9, <1>10, <1>11, <1>12 DEF IInv

LEMMA BindPipelineStep ==
    ASSUME IInv, NEW l \in Lists, NEW p \in Pipelines, BindPipeline(l, p)
    PROVE  IInv'
<1>1. Shape
  BY DEF IInv
<1>2. /\ Recording(l) /\ list[l].bindings \in MapsOf(Keys, BindingType)
      /\ DOMAIN list = Lists /\ GoodList(list[l], submitted, Chunks)
      /\ UNCHANGED <<submitted, finished, lastAccess, heap, freePool, reclaim>>
      /\ list' = [list EXCEPT ![l].pipeline = p, ![l].pipelineChanged = TRUE]
  BY <1>1, ShapeFacts DEF BindPipeline, timelineVars, GoodList
<1>3. /\ DOMAIN list' = Lists /\ \A m \in Lists : m # l => list'[m] = list[m]
      /\ list'[l] = [list[l] EXCEPT !.pipeline = p, !.pipelineChanged = TRUE]
  BY <1>2
<1>4. /\ DOMAIN list'[l] = Fields
      /\ list'[l].phase = list[l].phase /\ list'[l].id = list[l].id
      /\ list'[l].active = list[l].active /\ list'[l].touched = list[l].touched
      /\ list'[l].dispatches = list[l].dispatches
      /\ list'[l].reads = list[l].reads /\ list'[l].open = list[l].open
      /\ list'[l].pipeline = p /\ list'[l].pipelineChanged = TRUE
      /\ list'[l].bindings = list[l].bindings /\ list'[l].push = list[l].push
  BY <1>2, <1>3 DEF GoodList, Fields
<1>5. \A key : ~Clean(l, key)'
  BY <1>4 DEF Clean
<1> QED
  BY <1>2, <1>3, <1>4, <1>5, BindingStep DEF GoodList

LEMMA BindBufferStep ==
    ASSUME IInv, NEW l \in Lists, NEW key \in Keys, NEW b \in Buffers,
           NEW access \in Accesses, BindBuffer(l, key, b, access)
    PROVE  IInv'
<1>1. Shape /\ CleanFound
  BY DEF IInv
<1> DEFINE bound == [buffer |-> b, access |-> access, dirty |-> TRUE]
           bindings == Put(list[l].bindings, key, bound)
<1>2. /\ Recording(l) /\ DOMAIN list = Lists /\ GoodList(list[l], submitted, Chunks)
      /\ UNCHANGED <<submitted, finished, lastAccess, heap, freePool, reclaim>>
      /\ list' = [list EXCEPT ![l].bindings = bindings]
  BY <1>1, ShapeFacts DEF BindBuffer, timelineVars
<1>3. bound \in BindingType /\ bound.dirty
  BY DEF BindingType
<1> HIDE DEF bound
<1>4. /\ bindings \in MapsOf(Keys, BindingType)
      /\ DOMAIN bindings = DOMAIN list[l].bindings \cup {key}
      /\ bindings[key] = bound
      /\ \A k \in DOMAIN list[l].bindings : k # key => bindings[k] = list[l].bindings[k]
  <2>1. list[l].bindings \in MapsOf(Keys, BindingType)
    BY <1>2 DEF GoodList
  <2>2. bindings \in MapsOf(Keys, BindingType)
    BY <1>3, <2>1, PutFacts
  <2> QED
    BY <2>2 DEF Put
<1>5. IsFiniteSet(DOMAIN bindings)
  BY <1>2, <1>4, FS_AddElement DEF GoodList
<1> HIDE DEF bindings
<1>6. /\ DOMAIN list' = Lists /\ \A m \in Lists : m # l => list'[m] = list[m]
      /\ list'[l] = [list[l] EXCEPT !.bindings = bindings]
  BY <1>2
<1>7. /\ DOMAIN list'[l] = Fields
      /\ list'[l].phase = list[l].phase /\ list'[l].id = list[l].id
      /\ list'[l].active = list[l].active /\ list'[l].touched = list[l].touched
      /\ list'[l].dispatches = list[l].dispatches
      /\ list'[l].reads = list[l].reads /\ list'[l].open = list[l].open
      /\ list'[l].pipeline = list[l].pipeline
      /\ list'[l].pipelineChanged = list[l].pipelineChanged
      /\ list'[l].bindings = bindings /\ list'[l].push = list[l].push
  BY <1>2, <1>6 DEF GoodList, Fields
<1>8. ASSUME Roomy, list'[l].pipeline # None, NEW k \in Used(l)', Clean(l, k)'
      PROVE  FoundAt(l, k)'
  <2>1. k # key
    BY <1>3, <1>4, <1>7, <1>8 DEF Clean
  <2>2. /\ k \in Used(l) /\ list'[l].bindings[k] = list[l].bindings[k]
    BY <1>4, <1>7, <1>8, <2>1 DEF Used
  <2>3. Clean(l, k)
    BY <1>7, <1>8, <2>2 DEF Clean
  <2>4. FoundAt(l, k)
    BY <1>1, <1>2, <1>7, <1>8, <2>2, <2>3 DEF CleanFound
  <2> QED
    BY <1>2, <1>7, <2>2, <2>4 DEF FoundAt
<1> QED
  BY <1>2, <1>4, <1>5, <1>6, <1>7, <1>8, BindingStep DEF GoodList

(* The constants lie apart from the indices the pipeline reads.             *)
LEMMA SetPushConstantsStep ==
    ASSUME IInv, NEW l \in Lists, SetPushConstants(l)
    PROVE  IInv'
<1>1. Shape /\ CleanFound
  BY DEF IInv
<1> DEFINE p == list[l].pipeline
           constants == [o \in PushConstants[p] |-> None]
           push == PutAll(list[l].push, constants)
<1>2. /\ Recording(l) /\ DOMAIN list = Lists /\ GoodList(list[l], submitted, Chunks)
      /\ p \in Pipelines
      /\ UNCHANGED <<submitted, finished, lastAccess, heap, freePool, reclaim>>
      /\ list' = [list EXCEPT ![l].push = push]
  BY <1>1, ShapeFacts DEF SetPushConstants, timelineVars, GoodList
<1>3. PushLayout(p) /\ PushConstants[p] \subseteq Offsets
  BY <1>2, CommandListAssumption DEF Offsets
<1>4. constants \in MapsOf(Offsets, Nat \cup {None}) /\ DOMAIN constants = PushConstants[p]
  BY <1>3 DEF MapsOf
<1> HIDE DEF constants
<1>5. /\ push \in MapsOf(Offsets, Nat \cup {None})
      /\ DOMAIN push = DOMAIN list[l].push \cup PushConstants[p]
      /\ \A o \in DOMAIN list[l].push :
            o \notin PushConstants[p] => push[o] = list[l].push[o]
  <2>1. list[l].push \in MapsOf(Offsets, Nat \cup {None})
    BY <1>2 DEF GoodList
  <2>2. push \in MapsOf(Offsets, Nat \cup {None})
    BY <1>4, <2>1, PutAllFacts
  <2> QED
    BY <1>4, <2>2 DEF PutAll
<1> HIDE DEF push
<1>6. /\ DOMAIN list' = Lists /\ \A m \in Lists : m # l => list'[m] = list[m]
      /\ list'[l] = [list[l] EXCEPT !.push = push]
  BY <1>2
<1>7. /\ DOMAIN list'[l] = Fields
      /\ list'[l].phase = list[l].phase /\ list'[l].id = list[l].id
      /\ list'[l].active = list[l].active /\ list'[l].touched = list[l].touched
      /\ list'[l].dispatches = list[l].dispatches
      /\ list'[l].reads = list[l].reads /\ list'[l].open = list[l].open
      /\ list'[l].pipeline = list[l].pipeline
      /\ list'[l].pipelineChanged = list[l].pipelineChanged
      /\ list'[l].bindings = list[l].bindings /\ list'[l].push = push
  BY <1>2, <1>6 DEF GoodList, Fields
<1>8. ASSUME Roomy, list'[l].pipeline # None, NEW k \in Used(l)', Clean(l, k)'
      PROVE  FoundAt(l, k)'
  <2>1. k \in Used(l) /\ Clean(l, k)
    BY <1>7, <1>8 DEF Used, Clean
  <2>2. FoundAt(l, k)
    BY <1>1, <1>2, <1>7, <1>8, <2>1 DEF CleanFound
  <2>3. PushOffset[p][k] \notin PushConstants[p]
    BY <1>3, <2>1 DEF PushLayout, Range, Used
  <2> QED
    BY <1>2, <1>5, <1>7, <2>2, <2>3 DEF FoundAt
<1> QED
  BY <1>2, <1>5, <1>6, <1>7, <1>8, BindingStep DEF GoodList


-----------------------------------------------------------------------------
(* Steps that give chunks back *)

(* Forgetting the slots of some chunks leaves the others as they are.       *)
LEMMA ForgetFacts ==
    ASSUME Shape, NEW C, heap' = Forget(C)
    PROVE  /\ heap' \in Seq(ChunkType) /\ Len(heap') = Len(heap) /\ Chunks' = Chunks
           /\ \A c \in Chunks : /\ heap'[c].capacity = heap[c].capacity
                                /\ heap'[c].cursor = heap[c].cursor
                                /\ c \in C => DOMAIN heap'[c].slots = {}
                                /\ c \notin C => heap'[c] = heap[c]
<1>1. /\ Chunks = 1 .. Len(heap) /\ Len(heap) \in Nat
      /\ \A c \in Chunks : heap[c] \in ChunkType
  BY ShapeFacts
<1>2. \A c \in Chunks : heap'[c] = IF c \in C THEN [heap[c] EXCEPT !.slots = <<>>]
                                               ELSE heap[c]
  BY DEF Forget
<1>3. <<>> \in MapsOf(Nat, Buffers) /\ DOMAIN <<>> = {}
  BY EmptyMap
<1>4. \A c \in Chunks : /\ heap'[c] \in ChunkType
                        /\ heap'[c].capacity = heap[c].capacity
                        /\ heap'[c].cursor = heap[c].cursor
                        /\ c \in C => DOMAIN heap'[c].slots = {}
                        /\ c \notin C => heap'[c] = heap[c]
  BY <1>1, <1>2, <1>3 DEF ChunkType
<1>5. heap' \in [1 .. Len(heap) -> ChunkType]
  BY <1>1, <1>4 DEF Forget
<1>6. heap' \in Seq(ChunkType) /\ Len(heap') = Len(heap) /\ Chunks' = Chunks
  BY <1>1, <1>5 DEF Chunks
<1> QED
  BY <1>4, <1>6

LEMMA SubmitListStep ==
    ASSUME IInv, NEW l \in Lists, SubmitList(l)
    PROVE  IInv'
<1>1. /\ Shape /\ Ownership /\ Stamped /\ Slots /\ ReadsFound /\ CleanFound /\ RoomLeft
  BY DEF IInv
<1> DEFINE gone == [NewList EXCEPT !.phase = "submitted", !.id = submitted + 1,
                                   !.reads = list[l].reads]
           taken == Range(list[l].touched)
<1>2. /\ Recording(l) /\ list' = [list EXCEPT ![l] = gone]
      /\ submitted < MaxSubmissions /\ submitted' = submitted + 1
      /\ UNCHANGED <<finished, lastAccess, heap, freePool>>
      /\ reclaim' = [c \in Chunks |-> IF c \in taken THEN submitted + 1 ELSE reclaim[c]]
  BY DEF SubmitList, Submit, OnSubmitted, StampOf
<1>3. /\ DOMAIN gone = Fields /\ gone.phase = "submitted"
      /\ gone.id = submitted + 1 /\ gone.pipeline = None /\ gone.pipelineChanged = FALSE
      /\ gone.bindings = NewList.bindings /\ gone.active = None
      /\ gone.touched = NewList.touched /\ gone.push = NewList.push
      /\ gone.dispatches = 0 /\ gone.reads = list[l].reads /\ gone.open = NewList.open
  BY NewListFacts DEF Fields
<1> HIDE DEF gone
<1>4. /\ DOMAIN list = Lists /\ \A m \in Lists : GoodList(list[m], submitted, Chunks)
      /\ submitted \in Nat /\ submitted + 1 \in Nat /\ finished \in Nat
      /\ finished <= submitted /\ submitted + 1 \in 0 .. MaxSubmissions
      /\ Chunks = 1 .. Len(heap) /\ Len(heap) \in Nat
      /\ reclaim \in [Chunks -> 0 .. submitted]
  BY <1>1, <1>2, ShapeFacts, MaxSubmissionsAssumption
<1>5. GoodList(gone, submitted + 1, Chunks)
  <2>1. GoodList(NewList, submitted + 1, Chunks)
    BY <1>4, NewListIsGood
  <2>2. submitted + 1 \in 0 .. submitted + 1
    BY <1>4
  <2> QED
    BY <1>3, <2>1, <2>2, NewListFacts DEF GoodList
<1>6. /\ DOMAIN list' = Lists /\ list'[l] = gone
      /\ \A m \in Lists : m # l => list'[m] = list[m]
  BY <1>2, <1>4
<1>7. Chunks' = Chunks
  BY <1>2 DEF Chunks
<1>8. /\ \A m \in Lists : m # l => /\ Recording(m)' = Recording(m)
                                   /\ InFlight(m)' = InFlight(m)
                                   /\ \A c : InList(m, c)' = InList(m, c)
      /\ ~Recording(l)' /\ InFlight(l)' /\ \A c : ~InList(l, c)'
      /\ ~InFlight(l) /\ \A c \in taken : InList(l, c)
  BY <1>2, <1>3, <1>6 DEF Recording, InFlight, InList
<1>9. /\ \A c \in taken \cap Chunks : reclaim'[c] = submitted + 1
      /\ \A c \in Chunks \ taken : reclaim'[c] = reclaim[c]
  BY <1>2
<1>10. Shape'
  <2>1. reclaim' \in [1 .. Len(heap) -> 0 .. submitted + 1]
    BY <1>2, <1>4
  <2>2. reclaim' \in Seq(Nat) /\ Len(reclaim') = Len(heap)
    BY <1>4, <2>1
  <2>3. \A m \in Lists : GoodList(list'[m], submitted + 1, Chunks)
    BY <1>4, <1>5, <1>6, GoodListGrows
  <2>4. finished' \in 0 .. submitted' /\ submitted' \in 0 .. MaxSubmissions
    BY <1>2, <1>4
  <2> QED
    BY <1>1, <1>2, <1>4, <1>6, <1>7, <2>1, <2>2, <2>3, <2>4, ShapeFacts, ShapeNext
<1>11. Ownership'
  <2>1. \A m \in Lists : Recording(m)' =>
          /\ IsInjective(list'[m].touched)
          /\ list'[m].active # None => list'[m].active \in Range(list'[m].touched)
    BY <1>1, <1>6, <1>8 DEF Ownership
  <2>2. ASSUME NEW c \in Chunks
        PROVE  c \in Range(freePool) \/ (\E m \in Lists : InList(m, c)') \/ reclaim'[c] # 0
    <3>1. CASE c \in taken
      BY <1>4, <1>9, <3>1
    <3>2. CASE c \notin taken
      <4>1. ~InList(l, c)
        BY <3>2 DEF InList
      <4> QED
        BY <1>1, <1>8, <1>9, <3>2, <4>1 DEF Ownership
    <3> QED
      BY <3>1, <3>2
  <2>3. Range(freePool) \subseteq Chunks
    BY <1>1, ShapeFacts DEF Range
  <2>4. \A c \in Range(freePool) : reclaim'[c] = 0
    BY <1>1, <1>8, <1>9, <2>3 DEF Ownership
  <2>5. \A c \in Chunks, m \in Lists : InList(m, c)' =>
          /\ c \notin Range(freePool) /\ reclaim'[c] = 0
          /\ \A k \in Lists : InList(k, c)' => k = m
    BY <1>1, <1>8, <1>9 DEF Ownership
  <2> QED
    BY <1>1, <1>2, <1>7, <2>1, <2>2, <2>4, <2>5 DEF Ownership
<1>12. Stamped'
  <2>1. finished < submitted + 1
    BY <1>4
  <2> QED
    BY <1>1, <1>2, <1>3, <1>6, <1>8, <2>1 DEF Stamped
<1>13. Slots'
  BY <1>1, <1>2, <1>7 DEF Slots
<1>14. ReadsFound'
  <2> SUFFICES ASSUME NEW m \in Pending', NEW read \in list'[m].reads, read.fresh \/ Roomy
               PROVE  /\ read.chunk \in Chunks /\ Finds(read)'
                      /\ Recording(m)' => read.chunk \in Range(list'[m].touched)
                      /\ InFlight(m)' => reclaim'[read.chunk] = list'[m].id
    BY <1>7 DEF ReadsFound
  <2>1. /\ m \in Lists /\ m \in Pending /\ read \in list[m].reads
        /\ Finds(read)' = Finds(read)
    BY <1>2, <1>3, <1>6, <1>8 DEF Pending, Finds
  <2>2. /\ read.chunk \in Chunks /\ Finds(read)
        /\ Recording(m) => read.chunk \in Range(list[m].touched)
        /\ InFlight(m) => reclaim[read.chunk] = list[m].id
    BY <1>1, <2>1 DEF ReadsFound
  <2>3. CASE m = l
    BY <1>2, <1>3, <1>6, <1>8, <1>9, <2>1, <2>2, <2>3
  <2>4. CASE m # l
    <3>1. ASSUME InFlight(m) PROVE read.chunk \notin taken
      <4>1. reclaim[read.chunk] # 0
        BY <1>1, <1>4, <2>1, <2>2, <3>1 DEF Stamped, GoodList
      <4> QED
        BY <1>1, <1>8, <2>2, <4>1 DEF Ownership
    <3> QED
      BY <1>6, <1>8, <1>9, <2>1, <2>2, <2>4, <3>1
  <2> QED
    BY <2>3, <2>4
<1>15. CleanFound'
  <2> SUFFICES ASSUME Roomy, NEW m \in Lists, Recording(m)', list'[m].pipeline # None,
                      NEW key \in Used(m)', Clean(m, key)'
               PROVE  FoundAt(m, key)'
    BY DEF CleanFound
  <2>1. m # l
    BY <1>8
  <2>2. /\ list'[m] = list[m] /\ Used(m)' = Used(m) /\ Clean(m, key)' = Clean(m, key)
        /\ FoundAt(m, key)' = FoundAt(m, key) /\ Recording(m)' = Recording(m)
    BY <1>2, <1>6, <2>1 DEF Used, Clean, FoundAt, Recording
  <2> QED
    BY <1>1, <2>2 DEF CleanFound
<1>16. RoomLeft'
  BY <1>1, <1>2, <1>6, <1>8 DEF RoomLeft
<1> QED
  BY <1>10, <1>11, <1>12, <1>13, <1>14, <1>15, <1>16 DEF IInv


(* What a list found in its active chunk, it finds while that chunk keeps   *)
(* the slots it has.                                                        *)
LEMMA StillClean ==
    ASSUME CleanFound, Roomy, NEW m \in Lists, list'[m] = list[m], Recording(m)',
           list'[m].pipeline # None, NEW key \in Used(m)', Clean(m, key)',
           NEW kept, kept = heap'[list[m].active].slots,
           list[m].active # None =>
               \A s \in DOMAIN heap[list[m].active].slots :
                   /\ s \in DOMAIN kept
                   /\ kept[s] = heap[list[m].active].slots[s]
    PROVE  FoundAt(m, key)'
<1>1. /\ Used(m)' = Used(m) /\ Clean(m, key)' = Clean(m, key)
      /\ Recording(m)' = Recording(m)
  BY DEF Used, Clean, Recording
<1>2. FoundAt(m, key)
  BY <1>1 DEF CleanFound
<1> QED
  BY <1>2 DEF FoundAt

LEMMA ReclaimStep ==
    ASSUME IInv, NEW c \in Chunks, Reclaim(c)
    PROVE  IInv'
<1>1. /\ Shape /\ Ownership /\ Stamped /\ Slots /\ ReadsFound /\ CleanFound /\ RoomLeft
  BY DEF IInv
<1>2. /\ reclaim[c] # 0 /\ reclaim[c] <= finished
      /\ freePool' = Append(freePool, c) /\ reclaim' = [reclaim EXCEPT ![c] = 0]
      /\ heap' = Forget({c})
      /\ UNCHANGED <<submitted, finished, list, lastAccess>>
  BY DEF Reclaim, Due, timelineVars
<1>3. /\ DOMAIN list = Lists /\ \A m \in Lists : GoodList(list[m], submitted, Chunks)
      /\ Chunks = 1 .. Len(heap) /\ Len(heap) \in Nat
      /\ \A d \in Chunks : /\ heap[d] \in ChunkType
                           /\ heap[d].cursor \in 0 .. heap[d].capacity
      /\ freePool \in Seq(Chunks) /\ reclaim \in [Chunks -> 0 .. submitted]
      /\ submitted \in Nat /\ finished \in Nat
  BY <1>1, ShapeFacts, MaxSubmissionsAssumption
<1>4. /\ heap' \in Seq(ChunkType) /\ Len(heap') = Len(heap) /\ Chunks' = Chunks
      /\ \A d \in Chunks : /\ heap'[d].capacity = heap[d].capacity
                           /\ heap'[d].cursor = heap[d].cursor
      /\ DOMAIN heap'[c].slots = {}
      /\ \A d \in Chunks : d # c => heap'[d] = heap[d]
  <2>1. /\ heap' \in Seq(ChunkType) /\ Len(heap') = Len(heap) /\ Chunks' = Chunks
        /\ \A d \in Chunks : /\ heap'[d].capacity = heap[d].capacity
                             /\ heap'[d].cursor = heap[d].cursor
                             /\ d \in {c} => DOMAIN heap'[d].slots = {}
                             /\ d \notin {c} => heap'[d] = heap[d]
    BY <1>1, <1>2, ForgetFacts, Zenon
  <2> QED
    BY <2>1
<1>5. /\ \A m \in Lists : Recording(m)' = Recording(m) /\ InFlight(m)' = InFlight(m)
      /\ \A m \in Lists : \A d : InList(m, d)' = InList(m, d)
      /\ \A m \in Lists : ~InList(m, c)
  BY <1>1, <1>2 DEF Recording, InFlight, InList, Ownership
<1>6. c \notin Range(freePool)
  BY <1>1, <1>2 DEF Ownership
<1>7. /\ freePool' \in Seq(Chunks) /\ Range(freePool') = Range(freePool) \cup {c}
      /\ IsInjective(freePool')
  BY <1>1, <1>2, <1>3, <1>6, AppendRange DEF Ownership
<1>8. /\ reclaim'[c] = 0 /\ \A d \in Chunks : d # c => reclaim'[d] = reclaim[d]
      /\ reclaim' \in [Chunks -> 0 .. submitted]
  BY <1>2, <1>3
<1>9. Shape'
  <2>1. reclaim' \in Seq(Nat) /\ Len(reclaim') = Len(heap)
    <3>1. Len(heap) \in Nat /\ reclaim' \in [1 .. Len(heap) -> Nat]
      BY <1>3, <1>8
    <3> QED
      BY <3>1
  <2>2. \A d \in Chunks : heap'[d].cursor \in 0 .. heap'[d].capacity
    BY <1>3, <1>4
  <2> QED
    BY <1>1, <1>2, <1>3, <1>4, <1>7, <1>8, <2>1, <2>2, ShapeFacts, ShapeNext
<1>10. Ownership'
  <2>1. \A m \in Lists : Recording(m)' =>
          /\ IsInjective(list'[m].touched)
          /\ list'[m].active # None => list'[m].active \in Range(list'[m].touched)
    BY <1>1, <1>2, <1>5 DEF Ownership
  <2>2. \A d \in Chunks :
          d \in Range(freePool') \/ (\E m \in Lists : InList(m, d)') \/ reclaim'[d] # 0
    BY <1>1, <1>5, <1>7, <1>8 DEF Ownership
  <2>3. Range(freePool) \subseteq Chunks
    BY <1>3 DEF Range
  <2>4. \A d \in Range(freePool') : reclaim'[d] = 0
    BY <1>1, <1>7, <1>8, <2>3 DEF Ownership
  <2>5. \A d \in Chunks, m \in Lists : InList(m, d)' =>
          /\ d \notin Range(freePool') /\ reclaim'[d] = 0
          /\ \A k \in Lists : InList(k, d)' => k = m
    BY <1>1, <1>5, <1>7, <1>8 DEF Ownership
  <2> QED
    BY <1>4, <1>7, <2>1, <2>2, <2>4, <2>5 DEF Ownership
<1>11. Stamped'
  BY <1>1, <1>2, <1>5 DEF Stamped
<1>12. Slots'
  <2>1. Range(freePool) \subseteq Chunks
    BY <1>3 DEF Range
  <2>2. \A d \in Range(freePool') : DOMAIN heap'[d].slots = {}
    BY <1>1, <1>4, <1>7, <2>1 DEF Slots
  <2>3. \A d \in Chunks : /\ \A s \in DOMAIN heap'[d].slots : s < heap'[d].cursor
                          /\ ChunkSlots <= heap'[d].capacity
    BY <1>1, <1>4 DEF Slots
  <2> QED
    BY <1>4, <2>2, <2>3 DEF Slots
<1>13. ReadsFound'
  <2> SUFFICES ASSUME NEW m \in Pending', NEW read \in list'[m].reads, read.fresh \/ Roomy
               PROVE  /\ read.chunk \in Chunks /\ Finds(read)'
                      /\ Recording(m)' => read.chunk \in Range(list'[m].touched)
                      /\ InFlight(m)' => reclaim'[read.chunk] = list'[m].id
    BY <1>4 DEF ReadsFound
  <2>1. m \in Lists /\ m \in Pending /\ read \in list[m].reads
    BY <1>2, <1>5 DEF Pending
  <2>2. /\ read.chunk \in Chunks /\ Finds(read)
        /\ Recording(m) => read.chunk \in Range(list[m].touched)
        /\ InFlight(m) => reclaim[read.chunk] = list[m].id
    BY <1>1, <2>1 DEF ReadsFound
  <2>3. read.chunk # c
    <3>1. CASE Recording(m)
      BY <1>5, <2>1, <2>2, <3>1 DEF InList
    <3>2. CASE InFlight(m)
      <4>1. finished < list[m].id /\ list[m].id \in Nat
        BY <1>1, <1>3, <2>1, <3>2 DEF Stamped, GoodList
      <4> QED
        BY <1>2, <1>3, <2>2, <3>2, <4>1
    <3> QED
      BY <2>1, <3>1, <3>2 DEF Pending
  <2>4. Finds(read)'
    BY <1>4, <2>2, <2>3 DEF Finds
  <2> QED
    BY <1>2, <1>5, <1>8, <2>1, <2>2, <2>3, <2>4
<1>14. CleanFound'
  <2> SUFFICES ASSUME Roomy, NEW m \in Lists, Recording(m)', list'[m].pipeline # None,
                      NEW key \in Used(m)', Clean(m, key)'
               PROVE  FoundAt(m, key)'
    BY DEF CleanFound
  <2>1. /\ list[m].active # None => InList(m, list[m].active)
        /\ list[m].active \in Chunks \cup {None}
    BY <1>1, <1>3, <1>5 DEF Ownership, InList, GoodList
  <2>2. list[m].active # None => heap'[list[m].active] = heap[list[m].active]
    BY <1>4, <1>5, <2>1
  <2> QED
    BY <1>1, <1>2, <2>2, StillClean
<1>15. RoomLeft'
  <2>1. \A m \in Lists : list[m].active # None => list[m].active \in Chunks
    BY <1>3 DEF GoodList
  <2> QED
    BY <1>1, <1>2, <1>4, <1>5, <2>1 DEF RoomLeft
<1> QED
  BY <1>9, <1>10, <1>11, <1>12, <1>13, <1>14, <1>15 DEF IInv

LEMMA ReleaseUnsubmittedStep ==
    ASSUME IInv, NEW l \in Lists, ReleaseUnsubmitted(l)
    PROVE  IInv'
<1>1. /\ Shape /\ Ownership /\ Stamped /\ Slots /\ ReadsFound /\ CleanFound /\ RoomLeft
  BY DEF IInv
<1> DEFINE taken == Range(list[l].touched)
<1>2. /\ Recording(l) /\ list' = [list EXCEPT ![l] = NewList]
      /\ freePool' = freePool \o list[l].touched /\ heap' = Forget(taken)
      /\ UNCHANGED <<submitted, finished, lastAccess, reclaim>>
  BY DEF ReleaseUnsubmitted, timelineVars
<1>3. /\ DOMAIN list = Lists /\ \A m \in Lists : GoodList(list[m], submitted, Chunks)
      /\ Chunks = 1 .. Len(heap) /\ Len(heap) \in Nat
      /\ \A d \in Chunks : /\ heap[d] \in ChunkType
                           /\ heap[d].cursor \in 0 .. heap[d].capacity
      /\ freePool \in Seq(Chunks) /\ submitted \in Nat
      /\ list[l].touched \in Seq(Chunks)
  <2>1. submitted \in Nat
    BY <1>1, ShapeFacts
  <2>2. list[l].touched \in Seq(Chunks)
    BY <1>1, ShapeFacts DEF GoodList
  <2> QED
    BY <1>1, <2>1, <2>2, ShapeFacts
<1>4. /\ heap' \in Seq(ChunkType) /\ Len(heap') = Len(heap) /\ Chunks' = Chunks
      /\ \A d \in Chunks : /\ heap'[d].capacity = heap[d].capacity
                           /\ heap'[d].cursor = heap[d].cursor
                           /\ d \in taken => DOMAIN heap'[d].slots = {}
                           /\ d \notin taken => heap'[d] = heap[d]
  BY <1>1, <1>2, ForgetFacts
<1>5. taken \subseteq Chunks /\ Range(freePool) \subseteq Chunks
  BY <1>3 DEF Range
<1>6. /\ \A c \in taken : InList(l, c)
      /\ \A c \in taken : c \notin Range(freePool) /\ reclaim[c] = 0
      /\ \A c \in taken : \A m \in Lists : InList(m, c) => m = l
  BY <1>1, <1>2, <1>5 DEF Ownership, InList
<1>7. /\ freePool' \in Seq(Chunks) /\ Range(freePool') = Range(freePool) \cup taken
      /\ IsInjective(freePool')
  <2>1. IsInjective(freePool) /\ IsInjective(list[l].touched)
    BY <1>1, <1>2 DEF Ownership
  <2>2. Range(freePool) \cap taken = {}
    BY <1>6
  <2> QED
    BY <1>2, <1>3, <2>1, <2>2, ConcatRange
<1>8. /\ DOMAIN list' = Lists /\ list'[l] = NewList
      /\ \A m \in Lists : m # l => list'[m] = list[m]
  BY <1>2, <1>3
<1>9. /\ \A m \in Lists : m # l => /\ Recording(m)' = Recording(m)
                                   /\ InFlight(m)' = InFlight(m)
                                   /\ \A c : InList(m, c)' = InList(m, c)
      /\ ~Recording(l)' /\ ~InFlight(l)' /\ \A c : ~InList(l, c)'
  BY <1>8, NewListFacts DEF Recording, InFlight, InList
<1>10. Shape'
  <2>1. \A m \in Lists : GoodList(list'[m], submitted, Chunks)
    BY <1>3, <1>8, NewListIsGood
  <2>2. \A d \in Chunks : heap'[d].cursor \in 0 .. heap'[d].capacity
    BY <1>3, <1>4
  <2> QED
    BY <1>1, <1>2, <1>4, <1>7, <1>8, <2>1, <2>2, ShapeFacts, ShapeNext
<1>11. Ownership'
  <2>1. \A m \in Lists : Recording(m)' =>
          /\ IsInjective(list'[m].touched)
          /\ list'[m].active # None => list'[m].active \in Range(list'[m].touched)
    BY <1>1, <1>8, <1>9 DEF Ownership
  <2>2. ASSUME NEW c \in Chunks
        PROVE  c \in Range(freePool') \/ (\E m \in Lists : InList(m, c)') \/ reclaim[c] # 0
    <3>1. InList(l, c) => c \in taken
      BY DEF InList
    <3> QED
      BY <1>1, <1>7, <1>9, <3>1 DEF Ownership
  <2>3. \A c \in Range(freePool') : reclaim[c] = 0
    BY <1>1, <1>6, <1>7 DEF Ownership
  <2>4. \A c \in Chunks, m \in Lists : InList(m, c)' =>
          /\ c \notin Range(freePool') /\ reclaim[c] = 0
          /\ \A k \in Lists : InList(k, c)' => k = m
    BY <1>1, <1>6, <1>7, <1>9 DEF Ownership
  <2> QED
    BY <1>2, <1>4, <1>7, <2>1, <2>2, <2>3, <2>4 DEF Ownership
<1>12. Stamped'
  BY <1>1, <1>2, <1>8, <1>9, NewListFacts DEF Stamped
<1>13. Slots'
  <2>1. \A c \in Range(freePool') : DOMAIN heap'[c].slots = {}
    BY <1>1, <1>4, <1>5, <1>7 DEF Slots
  <2>2. \A c \in Chunks : /\ \A s \in DOMAIN heap'[c].slots : s < heap'[c].cursor
                          /\ ChunkSlots <= heap'[c].capacity
    BY <1>1, <1>4 DEF Slots
  <2> QED
    BY <1>4, <2>1, <2>2 DEF Slots
<1>14. ReadsFound'
  <2> SUFFICES ASSUME NEW m \in Pending', NEW read \in list'[m].reads, read.fresh \/ Roomy
               PROVE  /\ read.chunk \in Chunks /\ Finds(read)'
                      /\ Recording(m)' => read.chunk \in Range(list'[m].touched)
                      /\ InFlight(m)' => reclaim[read.chunk] = list'[m].id
    BY <1>2, <1>4 DEF ReadsFound
  <2>1. m \in Lists /\ m # l /\ m \in Pending /\ read \in list[m].reads
    BY <1>8, <1>9 DEF Pending
  <2>2. /\ read.chunk \in Chunks /\ Finds(read)
        /\ Recording(m) => read.chunk \in Range(list[m].touched)
        /\ InFlight(m) => reclaim[read.chunk] = list[m].id
    BY <1>1, <2>1 DEF ReadsFound
  <2>3. read.chunk \notin taken
    <3>1. CASE Recording(m)
      BY <1>6, <2>1, <2>2, <3>1 DEF InList
    <3>2. CASE InFlight(m)
      <4>1. list[m].id # 0
        BY <1>1, <1>3, <2>1, <3>2, ShapeFacts DEF Stamped, GoodList
      <4> QED
        BY <1>6, <2>2, <3>2, <4>1
    <3> QED
      BY <2>1, <3>1, <3>2 DEF Pending
  <2>4. Finds(read)'
    BY <1>4, <2>2, <2>3 DEF Finds
  <2> QED
    BY <1>8, <1>9, <2>1, <2>2, <2>4
<1>15. CleanFound'
  <2> SUFFICES ASSUME Roomy, NEW m \in Lists, Recording(m)', list'[m].pipeline # None,
                      NEW key \in Used(m)', Clean(m, key)'
               PROVE  FoundAt(m, key)'
    BY DEF CleanFound
  <2>1. m # l /\ Recording(m)
    BY <1>9
  <2>2. /\ list[m].active # None => InList(m, list[m].active)
        /\ list[m].active \in Chunks \cup {None}
    BY <1>1, <1>3, <2>1 DEF Ownership, InList, GoodList
  <2>3. list[m].active # None => heap'[list[m].active] = heap[list[m].active]
    BY <1>4, <1>6, <2>1, <2>2
  <2> QED
    BY <1>1, <1>8, <2>1, <2>3, StillClean
<1>16. RoomLeft'
  <2>1. \A m \in Lists : list[m].active # None => list[m].active \in Chunks
    BY <1>3 DEF GoodList
  <2> QED
    BY <1>1, <1>4, <1>8, <1>9, <2>1 DEF RoomLeft
<1> QED
  BY <1>10, <1>11, <1>12, <1>13, <1>14, <1>15, <1>16 DEF IInv

LEMMA GpuFinishStep ==
    ASSUME IInv, GpuFinish
    PROVE  IInv'
<1>1. /\ Shape /\ Ownership /\ Stamped /\ Slots /\ ReadsFound /\ CleanFound /\ RoomLeft
  BY DEF IInv
<1> DEFINE done == {l \in Lists : list[l].id = finished + 1}
<1>2. /\ finished < submitted /\ finished' = finished + 1
      /\ list' = [l \in Lists |-> IF l \in done THEN NewList ELSE list[l]]
      /\ UNCHANGED <<submitted, lastAccess, heap, freePool, reclaim>>
  BY DEF GpuFinish, Finish
<1>3. /\ DOMAIN list = Lists /\ \A m \in Lists : GoodList(list[m], submitted, Chunks)
      /\ submitted \in Nat /\ finished \in Nat
  BY <1>1, ShapeFacts, MaxSubmissionsAssumption
<1>4. \A l \in done : InFlight(l) /\ ~Recording(l)
  BY <1>1, <1>3 DEF Stamped, InFlight, Recording
<1>5. /\ DOMAIN list' = Lists /\ \A l \in done : list'[l] = NewList
      /\ \A l \in Lists : l \notin done => list'[l] = list[l]
  BY <1>2
<1> HIDE DEF done
<1>6. /\ Chunks' = Chunks
      /\ \A l \in done : ~Recording(l)' /\ ~InFlight(l)'
      /\ \A l \in Lists : l \notin done =>
            Recording(l)' = Recording(l) /\ InFlight(l)' = InFlight(l)
      /\ \A l \in Lists : \A c : InList(l, c)' = InList(l, c)
  BY <1>2, <1>4, <1>5, NewListFacts DEF Recording, InFlight, InList, Chunks
<1>7. Shape'
  <2>1. \A l \in Lists : GoodList(list'[l], submitted, Chunks)
    BY <1>3, <1>5, NewListIsGood
  <2>2. finished' \in 0 .. submitted
    BY <1>2, <1>3
  <2> QED
    BY <1>1, <1>2, <1>5, <1>6, <2>1, <2>2, ShapeFacts, ShapeNext
<1>8. Ownership'
  <2>1. \A m \in Lists : Recording(m)' =>
          /\ IsInjective(list'[m].touched)
          /\ list'[m].active # None => list'[m].active \in Range(list'[m].touched)
    BY <1>1, <1>5, <1>6 DEF Ownership
  <2> QED
    BY <1>1, <1>2, <1>6, <2>1 DEF Ownership
<1>9. Stamped'
  <2> SUFFICES ASSUME NEW l \in Lists
               PROVE  /\ InFlight(l)' => finished + 1 < list'[l].id
                      /\ ~InFlight(l)' => list'[l].id = 0
    BY <1>2 DEF Stamped
  <2>1. CASE l \in done
    BY <1>5, <1>6, <2>1, NewListFacts
  <2>2. CASE l \notin done
    <3>1. list[l].id \in Nat /\ list[l].id # finished + 1
      BY <1>3, <2>2 DEF GoodList, done
    <3> QED
      BY <1>1, <1>3, <1>5, <1>6, <2>2, <3>1 DEF Stamped
  <2> QED
    BY <2>1, <2>2
<1>10. Slots'
  BY <1>1, <1>2, <1>6 DEF Slots
<1>11. ReadsFound'
  <2>1. /\ \A m \in Pending' : m \in Pending /\ m \notin done
    BY <1>6 DEF Pending
  <2> QED
    BY <1>1, <1>2, <1>5, <1>6, <2>1 DEF ReadsFound, Finds, Pending
<1>12. CleanFound'
  <2> SUFFICES ASSUME Roomy, NEW m \in Lists, Recording(m)', list'[m].pipeline # None,
                      NEW key \in Used(m)', Clean(m, key)'
               PROVE  FoundAt(m, key)'
    BY DEF CleanFound
  <2>1. list'[m] = list[m]
    BY <1>5, <1>6
  <2> QED
    BY <1>1, <1>2, <2>1, StillClean
<1>13. RoomLeft'
  BY <1>1, <1>2, <1>5, <1>6 DEF RoomLeft
<1> QED
  BY <1>7, <1>8, <1>9, <1>10, <1>11, <1>12, <1>13 DEF IInv


-----------------------------------------------------------------------------
(* A dispatch *)

(* The bindings resolved get slots of their own, as many as there are.      *)
LEMMA SlotFacts ==
    ASSUME Shape, NEW l \in Lists, NEW base \in Nat
    PROVE  /\ Resolved(l) \subseteq Used(l) /\ Used(l) \subseteq DOMAIN list[l].bindings
           /\ Used(l) \subseteq Keys /\ Used(l) \subseteq Nat
           /\ IsFiniteSet(Resolved(l)) /\ Cardinality(Resolved(l)) \in Nat
           /\ DOMAIN SlotOf(l, base) = Resolved(l)
           /\ \A key \in Resolved(l) : /\ SlotOf(l, base)[key] \in Nat
                                       /\ base <= SlotOf(l, base)[key]
                                       /\ SlotOf(l, base)[key] < base + Cardinality(Resolved(l))
           /\ \A j, k \in Resolved(l) : SlotOf(l, base)[j] = SlotOf(l, base)[k] => j = k
<1>1. /\ list[l].bindings \in MapsOf(Keys, BindingType)
      /\ IsFiniteSet(DOMAIN list[l].bindings)
  BY ShapeFacts DEF GoodList
<1>2. /\ Resolved(l) \subseteq Used(l) /\ Used(l) \subseteq DOMAIN list[l].bindings
      /\ Used(l) \subseteq Keys /\ Used(l) \subseteq Nat
  BY <1>1, MapFacts, CommandListAssumption DEF Resolved, Used
<1>3. /\ IsFiniteSet(Resolved(l)) /\ Resolved(l) \in SUBSET Nat
      /\ Cardinality(Resolved(l)) \in Nat
  BY <1>1, <1>2, FS_Subset, FS_CardinalityType
<1> DEFINE S == Resolved(l)
           count == Cardinality(S)
           rank(k) == Cardinality({j \in S : j < k})
<1>4. /\ \A k \in S : rank(k) \in Nat /\ rank(k) < count
      /\ \A j, k \in S : rank(j) = rank(k) => j = k
  BY <1>3, RankFacts
<1>5. SlotOf(l, base) = [key \in S |-> base + rank(key)]
  BY DEF SlotOf
<1>6. count \in Nat
  BY <1>3
<1> HIDE DEF rank, count, S
<1>7. /\ \A k \in S : /\ base + rank(k) \in Nat /\ base <= base + rank(k)
                      /\ base + rank(k) < base + count
      /\ \A j, k \in S : base + rank(j) = base + rank(k) => j = k
  BY <1>4, <1>6
<1>8. /\ DOMAIN SlotOf(l, base) = S
      /\ \A k \in S : /\ SlotOf(l, base)[k] \in Nat /\ base <= SlotOf(l, base)[k]
                      /\ SlotOf(l, base)[k] < base + count
      /\ \A j, k \in S : SlotOf(l, base)[j] = SlotOf(l, base)[k] => j = k
  BY <1>5, <1>7
<1> QED
  BY <1>2, <1>3, <1>8 DEF S, count

(* The chunk a dispatch writes to, before it does.                          *)
Target(chunk, count) == IF chunk \in Chunks THEN heap[chunk] ELSE CreatedChunk(count)

LEMMA CreatedFacts ==
    ASSUME NEW count \in Nat
    PROVE  /\ CreatedChunk(count) \in ChunkType /\ CreatedChunk(count).cursor = 0
           /\ DOMAIN CreatedChunk(count).slots = {}
           /\ ChunkSlots <= CreatedChunk(count).capacity
           /\ count <= CreatedChunk(count).capacity
<1> DEFINE S == {ChunkSlots, count}
           most == Max(S)
<1>1. /\ S \in SUBSET Nat /\ S # {} /\ ChunkSlots + count \in Nat
      /\ \A x \in S : x <= ChunkSlots + count
  BY CommandListAssumption
<1>2. most \in S /\ \A x \in S : x <= most
  BY <1>1, MaxFacts
<1>3. most \in Nat /\ ChunkSlots <= most /\ count <= most
  BY <1>1, <1>2
<1>4. <<>> \in MapsOf(Nat, Buffers) /\ DOMAIN <<>> = {}
  BY EmptyMap
<1>5. CreatedChunk(count) = [capacity |-> most, cursor |-> 0, slots |-> <<>>]
  BY DEF CreatedChunk
<1> HIDE DEF most
<1> QED
  BY <1>3, <1>4, <1>5 DEF ChunkType

(* Behind what the chunk held, every binding resolved has its descriptor.   *)
LEMMA WriteFacts ==
    ASSUME Shape, NEW l \in Lists, NEW base \in Nat, NEW count,
           count = Cardinality(Resolved(l)),
           NEW chunk \in 1 .. Len(heap) + 1, WriteDescriptors(l, chunk, base),
           \A s \in DOMAIN Target(chunk, count).slots : s < base,
           base + count <= Target(chunk, count).capacity
    PROVE  /\ heap' \in Seq(ChunkType) /\ Chunks' = Chunks \cup {chunk}
           /\ Len(heap') = IF chunk \in Chunks THEN Len(heap) ELSE Len(heap) + 1
           /\ \A c \in Chunks : c # chunk => heap'[c] = heap[c]
           /\ heap'[chunk].capacity = Target(chunk, count).capacity
           /\ heap'[chunk].cursor = base + count
           /\ \A s \in DOMAIN Target(chunk, count).slots :
                /\ s \in DOMAIN heap'[chunk].slots
                /\ heap'[chunk].slots[s] = Target(chunk, count).slots[s]
           /\ \A key \in Resolved(l) :
                /\ SlotOf(l, base)[key] \in DOMAIN heap'[chunk].slots
                /\ heap'[chunk].slots[SlotOf(l, base)[key]] = list[l].bindings[key].buffer
           /\ \A s \in DOMAIN heap'[chunk].slots : s < base + count
<1> DEFINE slot == SlotOf(l, base)
           old == Target(chunk, count)
           n == Len(heap)
           chunks == IF chunk \in Chunks THEN heap ELSE Append(heap, CreatedChunk(count))
           written == [s \in Range(slot) |->
               list[l].bindings[CHOOSE k \in Resolved(l) : slot[k] = s].buffer]
           slots == PutAll(old.slots, written)
<1>1. /\ heap \in Seq(ChunkType) /\ Chunks = 1 .. n /\ n \in Nat
      /\ \A c \in Chunks : heap[c] \in ChunkType
      /\ list[l].bindings \in MapsOf(Keys, BindingType)
  <2>1. list[l].bindings \in MapsOf(Keys, BindingType)
    BY ShapeFacts DEF GoodList
  <2> QED
    BY <2>1, ShapeFacts
<1>2. /\ Resolved(l) \subseteq DOMAIN list[l].bindings /\ count \in Nat
      /\ DOMAIN slot = Resolved(l)
      /\ \A key \in Resolved(l) : slot[key] \in Nat /\ slot[key] < base + count /\ base <= slot[key]
      /\ \A j, k \in Resolved(l) : slot[j] = slot[k] => j = k
  BY SlotFacts
<1>3. old \in ChunkType
  BY <1>1, <1>2, CreatedFacts DEF Target
<1>4. heap' = [chunks EXCEPT ![chunk].cursor = base + count,
                             ![chunk].slots = PutAll(@, written)]
  BY DEF WriteDescriptors, CursorAfter
<1> HIDE DEF slot, old
<1>5. /\ chunks \in Seq(ChunkType)
      /\ Len(chunks) = IF chunk \in Chunks THEN n ELSE n + 1
      /\ DOMAIN chunks = Chunks \cup {chunk} /\ chunks[chunk] = old
      /\ \A c \in Chunks : chunks[c] = heap[c]
      /\ chunks \in [Chunks \cup {chunk} -> ChunkType]
  <2>1. CASE chunk \in Chunks
    <3>1. chunks = heap /\ Chunks \cup {chunk} = Chunks /\ old = heap[chunk]
      BY <2>1 DEF old, Target
    <3>2. heap \in [1 .. n -> ChunkType] /\ DOMAIN heap = 1 .. n
      BY <1>1
    <3> QED
      BY <1>1, <2>1, <3>1, <3>2
  <2>2. CASE chunk \notin Chunks
    <3>1. chunk = n + 1 /\ old = CreatedChunk(count) /\ chunks = Append(heap, old)
      BY <1>1, <2>2 DEF old, Target
    <3>2. /\ Append(heap, old) \in Seq(ChunkType) /\ Len(Append(heap, old)) = n + 1
          /\ Append(heap, old) \in [1 .. n + 1 -> ChunkType]
          /\ Append(heap, old)[n + 1] = old
          /\ \A i \in 1 .. n : Append(heap, old)[i] = heap[i]
      BY <1>1, <1>3, AppendFacts
    <3>3. 1 .. n + 1 = Chunks \cup {chunk}
      BY <1>1, <3>1
    <3> HIDE DEF chunks, n
    <3>4. DOMAIN chunks = Chunks \cup {chunk}
      BY <3>1, <3>2, <3>3
    <3> QED
      BY <1>1, <2>2, <3>1, <3>2, <3>3, <3>4
  <2> QED
    BY <2>1, <2>2
<1>6. /\ written \in MapsOf(Nat, Buffers)
      /\ DOMAIN written = Range(slot)
      /\ \A key \in Resolved(l) :
            slot[key] \in Range(slot) /\ written[slot[key]] = list[l].bindings[key].buffer
      /\ \A s \in Range(slot) : s \in Nat /\ base <= s /\ s < base + count
  <2>1. \A key \in Resolved(l) : slot[key] \in Range(slot)
    BY <1>2 DEF Range
  <2>2. \A s \in Range(slot) : \E k \in Resolved(l) : slot[k] = s
    BY <1>2 DEF Range
  <2>3. \A key \in Resolved(l) : (CHOOSE k \in Resolved(l) : slot[k] = slot[key]) = key
    BY <1>2
  <2>4. \A key \in Resolved(l) : written[slot[key]] = list[l].bindings[key].buffer
    BY <2>1, <2>3
  <2>5. \A key \in Resolved(l) : list[l].bindings[key].buffer \in Buffers
    <3>1. \A key \in DOMAIN list[l].bindings : list[l].bindings[key] \in BindingType
      BY <1>1, MapFacts
    <3> QED
      BY <1>2, <3>1 DEF BindingType
  <2>6. \A s \in Range(slot) : s \in Nat /\ base <= s /\ s < base + count
    BY <1>2, <2>2
  <2>7. \A s \in Range(slot) : written[s] \in Buffers
    <3> SUFFICES ASSUME NEW s \in Range(slot) PROVE written[s] \in Buffers
      OBVIOUS
    <3>1. PICK k \in Resolved(l) : slot[k] = s
      BY <2>2
    <3> QED
      BY <2>4, <2>5, <3>1
  <2>8. DOMAIN written = Range(slot)
    OBVIOUS
  <2>9. written = [s \in Range(slot) |-> written[s]]
    OBVIOUS
  <2> HIDE DEF written
  <2>10. written \in [Range(slot) -> Buffers] /\ Range(slot) \in SUBSET Nat
    BY <2>6, <2>7, <2>9
  <2> QED
    BY <2>1, <2>4, <2>6, <2>8, <2>10 DEF MapsOf
<1>7. /\ slots \in MapsOf(Nat, Buffers)
      /\ DOMAIN slots = DOMAIN old.slots \cup Range(slot)
      /\ \A s \in Range(slot) : slots[s] = written[s]
      /\ \A s \in DOMAIN old.slots : s \notin Range(slot) => slots[s] = old.slots[s]
  <2>1. old.slots \in MapsOf(Nat, Buffers)
    BY <1>3 DEF ChunkType
  <2>2. slots \in MapsOf(Nat, Buffers)
    BY <1>6, <2>1, PutAllFacts
  <2> HIDE DEF written
  <2> QED
    BY <1>6, <2>2 DEF PutAll
<1>8. /\ DOMAIN heap' = Chunks \cup {chunk}
      /\ heap'[chunk] = [old EXCEPT !.cursor = base + count, !.slots = slots]
      /\ \A c \in Chunks : c # chunk => heap'[c] = heap[c]
  <2> HIDE DEF chunks, written
  <2> QED
    BY <1>3, <1>4, <1>5
<1> HIDE DEF chunks, written, slots
<1>9. /\ heap'[chunk].capacity = old.capacity /\ heap'[chunk].cursor = base + count
      /\ heap'[chunk].slots = slots /\ heap'[chunk] \in ChunkType
  <2>1. base + count \in Nat
    BY <1>2
  <2>2. /\ old = [capacity |-> old.capacity, cursor |-> old.cursor, slots |-> old.slots]
        /\ old.capacity \in Nat
    BY <1>3 DEF ChunkType
  <2>3. heap'[chunk] = [capacity |-> old.capacity, cursor |-> base + count, slots |-> slots]
    BY <1>8, <2>2
  <2> QED
    BY <1>7, <2>1, <2>2, <2>3 DEF ChunkType
<1>10. /\ heap' \in Seq(ChunkType) /\ Chunks' = Chunks \cup {chunk}
       /\ Len(heap') = IF chunk \in Chunks THEN n ELSE n + 1
  <2>1. heap' \in [Chunks \cup {chunk} -> ChunkType]
    BY <1>1, <1>4, <1>8, <1>9
  <2>2. PICK k \in Nat : k = Len(chunks) /\ Chunks \cup {chunk} = 1 .. k
    BY <1>5, LenProperties
  <2>3. heap' \in Seq(ChunkType) /\ Len(heap') = k
    <3>1. k \in Nat /\ heap' \in [1 .. k -> ChunkType]
      BY <2>1, <2>2
    <3> QED
      BY <3>1
  <2> QED
    BY <1>5, <1>8, <2>2, <2>3 DEF Chunks
<1>11. /\ \A s \in DOMAIN old.slots : s \notin Range(slot)
       /\ \A s \in DOMAIN old.slots : s < base + count
  <2>1. \A s \in DOMAIN old.slots : s \in Nat /\ s < base
    BY <1>3, MapFacts DEF ChunkType, old
  <2> QED
    BY <1>2, <1>6, <2>1
<1> QED
  BY <1>6, <1>7, <1>8, <1>9, <1>10, <1>11 DEF slot, old, n


(* The index of every binding resolved is pushed at its offset, and what is *)
(* at the offsets of the others stays.                                      *)
Pushed(l, base, push) ==
    LET offset == PushOffset[list[l].pipeline]
    IN  /\ push \in MapsOf(Offsets, Nat \cup {None})
        /\ \A key \in Resolved(l) : /\ offset[key] \in DOMAIN push
                                    /\ push[offset[key]] = SlotOf(l, base)[key]
        /\ \A key \in Used(l) \ Resolved(l) : offset[key] \in DOMAIN list[l].push =>
            /\ offset[key] \in DOMAIN push
            /\ push[offset[key]] = list[l].push[offset[key]]

LEMMA PushFacts ==
    ASSUME Shape, NEW l \in Lists, list[l].pipeline # None, NEW base \in Nat
    PROVE  Pushed(l, base, PushAfter(l, base))
<1> DEFINE offset == PushOffset[list[l].pipeline]
           push == PushAfter(l, base)
           slot == SlotOf(l, base)
           S == Resolved(l)
           pushed == {offset[key] : key \in S}
           indices == [o \in pushed |-> slot[CHOOSE key \in S : offset[key] = o]]
<1>1. /\ list[l].pipeline \in Pipelines
      /\ list[l].push \in MapsOf(Offsets, Nat \cup {None})
  BY ShapeFacts DEF GoodList
<1>2. /\ Used(l) \subseteq DOMAIN offset /\ IsInjective(offset)
      /\ \A key \in Used(l) : offset[key] \in Offsets
  BY <1>1, CommandListAssumption DEF PushLayout, Offsets, Range, Used
<1>3. S \subseteq Used(l) /\ \A key \in S : slot[key] \in Nat
  BY SlotFacts
<1>4. push = PutAll(list[l].push, indices)
  BY DEF PushAfter
<1> HIDE DEF offset, push, slot, S
<1>5. \A key \in S : (CHOOSE k \in S : offset[k] = offset[key]) = key
  BY <1>2, <1>3 DEF IsInjective
<1>6. /\ DOMAIN indices = pushed
      /\ \A key \in S : offset[key] \in pushed /\ indices[offset[key]] = slot[key]
  BY <1>5
<1>7. \A o \in pushed : indices[o] \in Nat \cup {None} /\ o \in Offsets
  BY <1>2, <1>3, <1>6
<1>8. indices = [o \in pushed |-> indices[o]]
  OBVIOUS
<1>9. \A key \in Used(l) \ S : offset[key] \notin pushed
  BY <1>2, <1>3 DEF IsInjective
<1> HIDE DEF indices, pushed
<1>10. indices \in MapsOf(Offsets, Nat \cup {None})
  <2>1. indices \in [pushed -> Nat \cup {None}] /\ pushed \in SUBSET Offsets
    BY <1>7, <1>8
  <2> QED
    BY <2>1 DEF MapsOf
<1>11. push \in MapsOf(Offsets, Nat \cup {None})
  BY <1>1, <1>4, <1>10, PutAllFacts
<1>12. /\ \A key \in S : offset[key] \in DOMAIN push /\ push[offset[key]] = slot[key]
       /\ \A key \in Used(l) \ S : offset[key] \in DOMAIN list[l].push =>
             offset[key] \in DOMAIN push /\ push[offset[key]] = list[l].push[offset[key]]
  BY <1>4, <1>6, <1>9 DEF PutAll
<1> QED
  BY <1>11, <1>12 DEF Pushed, S, slot, offset, push

Allocate(active, count, chunk, base) ==
    \/ AllocateActive(active, count, chunk, base)
    \/ AllocateRecycled(active, count, chunk, base)
    \/ AllocateNew(active, count, chunk, base)

(* The chunk a list gets is its active one or nobody's, and has room.       *)
Allocated(l, count, chunk, base) ==
    LET old == Target(chunk, count)
        active == list[l].active
    IN  /\ base \in Nat /\ \A s \in DOMAIN old.slots : s < base
        /\ base + count <= old.capacity /\ ChunkSlots <= old.capacity
        /\ freePool' \in Seq(Chunks \cup {chunk}) /\ IsInjective(freePool')
        /\ Range(freePool') = Range(freePool) \ {chunk}
        /\ reclaim' \in [Chunks \cup {chunk} -> 0 .. submitted]
        /\ reclaim' \in Seq(Nat)
        /\ Len(reclaim') = IF chunk \in Chunks THEN Len(heap) ELSE Len(heap) + 1
        /\ reclaim'[chunk] = 0 /\ \A c \in Chunks : reclaim'[c] = reclaim[c]
        /\ chunk # active => \A m \in Lists : ~InList(m, chunk)
        /\ HasRoom(active, count) => chunk = active /\ base = heap[chunk].cursor
        /\ ~HasRoom(active, count) => base = 0

LEMMA AllocateFacts ==
    ASSUME IInv, NEW l \in Lists, Recording(l), NEW count \in Nat,
           NEW chunk \in 1 .. Len(heap) + 1, NEW base,
           Allocate(list[l].active, count, chunk, base)
    PROVE  Allocated(l, count, chunk, base)
<1> DEFINE active == list[l].active
<1>1. Shape /\ Ownership /\ Slots
  BY DEF IInv
<1>2. /\ heap \in Seq(ChunkType) /\ Chunks = 1 .. Len(heap) /\ Len(heap) \in Nat
      /\ \A c \in Chunks : /\ heap[c] \in ChunkType
                           /\ heap[c].cursor \in 0 .. heap[c].capacity
      /\ freePool \in Seq(Chunks)
      /\ reclaim \in [Chunks -> 0 .. submitted] /\ submitted \in Nat
      /\ reclaim \in Seq(Nat) /\ Len(reclaim) = Len(heap)
  BY <1>1, ShapeFacts
<1>3. active \in Chunks \cup {None}
  BY <1>1, ShapeFacts DEF GoodList
<1>4. IsInjective(freePool) /\ Range(freePool) \subseteq Chunks
  BY <1>1, <1>2 DEF Ownership, Range
<1>5. CASE AllocateActive(active, count, chunk, base)
  <2>1. /\ HasRoom(active, count) /\ chunk = active /\ base = heap[chunk].cursor
        /\ freePool' = freePool /\ reclaim' = reclaim
        /\ base + count <= heap[chunk].capacity
    BY <1>5 DEF AllocateActive, HasRoom
  <2>2. chunk \in Chunks /\ Chunks \cup {chunk} = Chunks
    BY <1>3, <2>1 DEF HasRoom
  <2>3. Target(chunk, count) = heap[chunk]
    BY <2>2 DEF Target
  <2>4. /\ \A s \in DOMAIN heap[chunk].slots : s < heap[chunk].cursor
        /\ ChunkSlots <= heap[chunk].capacity /\ heap[chunk].cursor \in Nat
    BY <1>1, <1>2, <2>2 DEF Slots, ChunkType
  <2>5. InList(l, chunk)
    BY <1>1, <2>1 DEF Ownership, InList, HasRoom
  <2>6. chunk \notin Range(freePool) /\ reclaim[chunk] = 0
    BY <1>1, <2>2, <2>5 DEF Ownership
  <2> QED
    BY <1>2, <1>4, <2>1, <2>2, <2>3, <2>4, <2>6 DEF Allocated
<1>6. CASE AllocateRecycled(active, count, chunk, base)
  <2> DEFINE i == Min(Suitable(count))
  <2>1. /\ ~HasRoom(active, count) /\ Suitable(count) # {} /\ base = 0
        /\ chunk = freePool[i] /\ freePool' = RemoveAt(freePool, i)
        /\ reclaim' = reclaim
    BY <1>6 DEF AllocateRecycled, FreePoolWithout
  <2>2. Suitable(count) \in SUBSET Nat
    <3>1. DOMAIN freePool \subseteq Nat
      BY <1>2
    <3> QED
      BY <3>1 DEF Suitable
  <2>3. i \in Suitable(count)
    BY <2>1, <2>2, MinFacts
  <2> HIDE DEF i
  <2>4. i \in DOMAIN freePool /\ heap[chunk].capacity >= count
    BY <2>1, <2>3 DEF Suitable
  <2>5. chunk \in Range(freePool) /\ chunk \in Chunks /\ Chunks \cup {chunk} = Chunks
    BY <1>4, <2>1, <2>4 DEF Range
  <2>6. Target(chunk, count) = heap[chunk]
    BY <2>5 DEF Target
  <2>7. /\ freePool' \in Seq(Chunks) /\ Range(freePool') = Range(freePool) \ {chunk}
        /\ IsInjective(freePool')
    BY <1>2, <1>4, <2>1, <2>4, RemoveAtRange
  <2>8. /\ DOMAIN heap[chunk].slots = {} /\ ChunkSlots <= heap[chunk].capacity
        /\ heap[chunk].capacity \in Nat
    BY <1>1, <1>2, <2>5 DEF Slots, ChunkType
  <2>9. reclaim[chunk] = 0 /\ \A m \in Lists : ~InList(m, chunk)
    BY <1>1, <2>5 DEF Ownership
  <2>10. 0 + count <= heap[chunk].capacity
    BY <2>4, <2>8
  <2> QED
    BY <1>2, <2>1, <2>5, <2>6, <2>7, <2>8, <2>9, <2>10 DEF Allocated
<1>7. CASE AllocateNew(active, count, chunk, base)
  <2>1. /\ ~HasRoom(active, count) /\ base = 0 /\ chunk = Len(heap) + 1
        /\ reclaim' = Append(reclaim, 0) /\ freePool' = freePool
    BY <1>7 DEF AllocateNew
  <2>2. chunk \notin Chunks /\ Chunks \cup {chunk} = 1 .. Len(heap) + 1
    BY <1>2, <2>1
  <2>3. Target(chunk, count) = CreatedChunk(count)
    BY <2>2 DEF Target
  <2>4. /\ DOMAIN CreatedChunk(count).slots = {}
        /\ ChunkSlots <= CreatedChunk(count).capacity
        /\ count <= CreatedChunk(count).capacity
    BY CreatedFacts
  <2>5. /\ reclaim' \in Seq(Nat) /\ Len(reclaim') = Len(heap) + 1
        /\ reclaim' \in [1 .. Len(heap) + 1 -> Nat]
        /\ reclaim'[chunk] = 0 /\ \A c \in Chunks : reclaim'[c] = reclaim[c]
    <3> DEFINE n == Len(heap)
    <3>1. /\ n \in Nat /\ 0 \in Nat /\ reclaim \in Seq(Nat) /\ Len(reclaim) = n
          /\ chunk = n + 1 /\ Chunks = 1 .. n
      BY <1>2, <2>1
    <3> HIDE DEF n
    <3>2. /\ reclaim' \in Seq(Nat) /\ Len(reclaim') = n + 1
          /\ reclaim' \in [1 .. n + 1 -> Nat]
          /\ reclaim'[n + 1] = 0 /\ \A c \in 1 .. n : reclaim'[c] = reclaim[c]
      <4> DEFINE zero == 0
                 Ids == Nat
                 longer == Append(reclaim, zero)
      <4>1. zero \in Ids /\ reclaim \in Seq(Ids)
        BY <3>1
      <4> HIDE DEF zero, Ids
      <4>2. /\ longer \in Seq(Ids) /\ Len(longer) = n + 1
            /\ longer \in [1 .. n + 1 -> Ids]
            /\ longer[n + 1] = zero
            /\ \A c \in 1 .. n : longer[c] = reclaim[c]
        BY <3>1, <4>1, AppendFacts
      <4> HIDE DEF longer
      <4>3. reclaim' = longer
        BY <2>1 DEF longer, zero
      <4> QED
        BY <4>2, <4>3 DEF zero, Ids
    <3> QED
      BY <3>1, <3>2 DEF n
  <2>6. \A c \in Chunks \cup {chunk} : reclaim'[c] \in 0 .. submitted
    <3>1. 0 \in 0 .. submitted
      BY <1>2
    <3>2. \A c \in Chunks : reclaim[c] \in 0 .. submitted
      BY <1>2, Zenon
    <3> QED
      BY <2>5, <3>1, <3>2, Zenon
  <2>7. reclaim' \in [Chunks \cup {chunk} -> 0 .. submitted]
    BY <2>2, <2>5, <2>6
  <2>8. freePool' \in Seq(Chunks \cup {chunk})
    BY <1>2, <2>1, SeqMonotonic
  <2>9. Range(freePool') = Range(freePool) \ {chunk}
    BY <1>4, <2>1, <2>2
  <2>10. \A m \in Lists : ~InList(m, chunk)
    <3>1. ASSUME NEW m \in Lists PROVE Range(list[m].touched) \subseteq Chunks
      <4>1. list[m].touched \in Seq(Chunks)
        BY <1>1, ShapeFacts DEF GoodList
      <4> QED
        BY <4>1 DEF Range
    <3> QED
      BY <2>2, <3>1 DEF InList
  <2>11. base \in Nat /\ base + count <= CreatedChunk(count).capacity
    BY <2>1, <2>4
  <2> QED
    BY <1>4, <2>1, <2>2, <2>3, <2>4, <2>5, <2>7, <2>8, <2>9, <2>10, <2>11
     DEF Allocated
<1> QED
  BY <1>5, <1>6, <1>7 DEF Allocate


(* The last binding of a buffer decides; there is one if any is used.       *)
LEMMA AccessFacts ==
    ASSUME Shape, NEW l \in Lists, NEW b \in Buffers
    PROVE  LET keys == {key \in Used(l) : list[l].bindings[key].buffer = b}
           IN  \/ keys = {} /\ AccessAfter(l)[b] = lastAccess[b]
               \/ \E key \in keys : AccessAfter(l)[b] = list[l].bindings[key].access
<1> DEFINE keys == {key \in Used(l) : list[l].bindings[key].buffer = b}
<1>1. AccessAfter(l)[b] = IF keys = {} THEN lastAccess[b]
                                       ELSE list[l].bindings[Max(keys)].access
  BY DEF AccessAfter
<1>2. keys \in SUBSET Nat /\ IsFiniteSet(keys)
  <2>1. /\ IsFiniteSet(DOMAIN list[l].bindings) /\ keys \subseteq DOMAIN list[l].bindings
        /\ keys \subseteq Nat
    BY ShapeFacts, SlotFacts DEF GoodList
  <2> QED
    BY <2>1, FS_Subset
<1> HIDE DEF keys
<1>3. CASE keys = {}
  BY <1>1, <1>3 DEF keys
<1>4. CASE keys # {}
  <2>1. PICK n \in Nat : \A x \in keys : x <= n
    BY <1>2, FiniteIsBounded
  <2>2. Max(keys) \in keys
    BY <1>2, <1>4, <2>1, MaxFacts
  <2> QED
    BY <1>1, <1>4, <2>2 DEF keys
<1> QED
  BY <1>3, <1>4

LEMMA CleanedFacts ==
    ASSUME NEW bindings \in MapsOf(Keys, BindingType)
    PROVE  /\ Cleaned(bindings) \in MapsOf(Keys, BindingType)
           /\ DOMAIN Cleaned(bindings) = DOMAIN bindings
           /\ \A key \in DOMAIN bindings :
                Cleaned(bindings)[key].buffer = bindings[key].buffer
<1>1. /\ DOMAIN bindings \in SUBSET Keys
      /\ \A key \in DOMAIN bindings : bindings[key] \in BindingType
  BY MapFacts
<1>2. \A key \in DOMAIN bindings :
        /\ [bindings[key] EXCEPT !.dirty = FALSE] \in BindingType
        /\ [bindings[key] EXCEPT !.dirty = FALSE].buffer = bindings[key].buffer
  BY <1>1 DEF BindingType
<1>3. /\ DOMAIN Cleaned(bindings) = DOMAIN bindings
      /\ \A key \in DOMAIN bindings :
            Cleaned(bindings)[key] = [bindings[key] EXCEPT !.dirty = FALSE]
      /\ Cleaned(bindings) \in [DOMAIN bindings -> BindingType]
  BY <1>2 DEF Cleaned
<1> QED
  BY <1>1, <1>2, <1>3 DEF MapsOf

LEMMA RecordFacts ==
    ASSUME Shape, NEW l \in Lists, NEW chunk, NEW push, Record(l, chunk, push)
    PROVE  /\ DOMAIN list' = Lists /\ \A m \in Lists : m # l => list'[m] = list[m]
           /\ UNCHANGED <<submitted, finished>> /\ lastAccess' = AccessAfter(l)
           /\ DOMAIN list'[l] = Fields
           /\ list'[l].phase = list[l].phase /\ list'[l].id = list[l].id
           /\ list'[l].pipeline = list[l].pipeline
           /\ list'[l].pipelineChanged = FALSE
           /\ list'[l].bindings = Cleaned(list[l].bindings)
           /\ list'[l].active = chunk
           /\ list'[l].touched = TouchedAfter(l, chunk)
           /\ list'[l].push = push
           /\ list'[l].dispatches = list[l].dispatches + 1
           /\ list'[l].reads = list[l].reads \cup HeapReads(l, chunk, push)
           /\ list'[l].open = [b \in Buffers |-> OpenBefore(l, b) \cup Effects(l, b)]
<1>1. DOMAIN list = Lists /\ DOMAIN list[l] = Fields
  BY ShapeFacts DEF GoodList
<1> DEFINE bindings == Cleaned(list[l].bindings)
           touched == TouchedAfter(l, chunk)
           reads == list[l].reads \cup HeapReads(l, chunk, push)
           open == [b \in Buffers |-> OpenBefore(l, b) \cup Effects(l, b)]
           after == [list[l] EXCEPT
               !.bindings = bindings, !.pipelineChanged = FALSE, !.active = chunk,
               !.touched = touched, !.push = push,
               !.dispatches = list[l].dispatches + 1,
               !.reads = reads, !.open = open]
<1>2. /\ DOMAIN list' = Lists /\ \A m \in Lists : m # l => list'[m] = list[m]
      /\ list'[l] = after
  BY <1>1 DEF Record
<1>3. UNCHANGED <<submitted, finished>> /\ lastAccess' = AccessAfter(l)
  BY DEF Record, timelineVars
<1> HIDE DEF bindings, touched, reads, open
<1>4. /\ DOMAIN after = Fields
      /\ after.phase = list[l].phase /\ after.id = list[l].id
      /\ after.pipeline = list[l].pipeline
      /\ after.pipelineChanged = FALSE /\ after.bindings = bindings
      /\ after.active = chunk /\ after.touched = touched /\ after.push = push
      /\ after.dispatches = list[l].dispatches + 1
      /\ after.reads = reads /\ after.open = open
  BY <1>1 DEF Fields
<1> QED
  BY <1>2, <1>3, <1>4 DEF bindings, touched, reads, open


(* What a dispatch may do to the chunks: it takes its active one or nobody's, *)
(* and keeps all that was written.                                          *)
Extended(l, chunk) ==
    /\ Chunks' = Chunks \cup ({chunk} \ {None})
    /\ chunk # list[l].active =>
            chunk # None /\ \A m \in Lists : ~InList(m, chunk)
    /\ heap' \in Seq(ChunkType)
    /\ \A c \in Chunks :
        /\ \A s \in DOMAIN heap[c].slots :
            s \in DOMAIN heap'[c].slots /\ heap'[c].slots[s] = heap[c].slots[s]
        /\ c # chunk => heap'[c] = heap[c]
    /\ \A c \in Chunks' : /\ heap'[c].cursor \in 0 .. heap'[c].capacity
                          /\ \A s \in DOMAIN heap'[c].slots : s < heap'[c].cursor
                          /\ ChunkSlots <= heap'[c].capacity
    /\ freePool' \in Seq(Chunks') /\ IsInjective(freePool')
    /\ Range(freePool') = Range(freePool) \ {chunk}
    /\ reclaim' \in [Chunks' -> 0 .. submitted] /\ reclaim' \in Seq(Nat)
    /\ Len(reclaim') = Len(heap') /\ \A c \in Chunks : reclaim'[c] = reclaim[c]
    /\ chunk # None => reclaim'[chunk] = 0

(* The push data leads to a descriptor of each binding.                     *)
Placed(l, chunk, push) ==
    LET offset == PushOffset[list[l].pipeline]
    IN  /\ push \in MapsOf(Offsets, Nat \cup {None})
        /\ \A key \in Used(l) : key \in Resolved(l) \/ Roomy =>
            /\ chunk # None /\ offset[key] \in DOMAIN push
            /\ push[offset[key]] \in DOMAIN heap'[chunk].slots
            /\ heap'[chunk].slots[push[offset[key]]] = list[l].bindings[key].buffer
        /\ Roomy /\ chunk # None =>
            heap'[chunk].cursor <= (list[l].dispatches + 1) * Cardinality(Keys)

(* Recording a dispatch keeps the invariant once its descriptors are in     *)
(* place.                                                                   *)
LEMMA RecordStep ==
    ASSUME IInv, NEW l \in Lists, Recording(l), list[l].pipeline # None,
           list[l].dispatches < MaxDispatches,
           NEW chunk, NEW push, Record(l, chunk, push),
           Extended(l, chunk), Placed(l, chunk, push)
    PROVE  IInv'
<1>chunk. /\ Chunks' = Chunks \cup ({chunk} \ {None})
          /\ Chunks \subseteq Chunks' /\ (chunk = None \/ chunk \in Chunks')
          /\ chunk # list[l].active => chunk # None /\ \A m \in Lists : ~InList(m, chunk)
  BY DEF Extended
<1>heap. /\ heap' \in Seq(ChunkType)
         /\ \A c \in Chunks :
            /\ \A s \in DOMAIN heap[c].slots :
                s \in DOMAIN heap'[c].slots /\ heap'[c].slots[s] = heap[c].slots[s]
            /\ c # chunk => heap'[c] = heap[c]
         /\ \A c \in Chunks' : /\ heap'[c].cursor \in 0 .. heap'[c].capacity
                               /\ \A s \in DOMAIN heap'[c].slots : s < heap'[c].cursor
                               /\ ChunkSlots <= heap'[c].capacity
  BY DEF Extended
<1>pool. /\ freePool' \in Seq(Chunks') /\ IsInjective(freePool')
         /\ Range(freePool') = Range(freePool) \ {chunk}
  BY DEF Extended
<1>queue. /\ reclaim' \in [Chunks' -> 0 .. submitted] /\ reclaim' \in Seq(Nat)
          /\ Len(reclaim') = Len(heap') /\ \A c \in Chunks : reclaim'[c] = reclaim[c]
          /\ chunk # None => reclaim'[chunk] = 0
  BY DEF Extended
<1> DEFINE offset == PushOffset[list[l].pipeline]
<1>placed. /\ push \in MapsOf(Offsets, Nat \cup {None})
           /\ \A key \in Used(l) : key \in Resolved(l) \/ Roomy =>
                /\ chunk # None /\ offset[key] \in DOMAIN push
                /\ push[offset[key]] \in DOMAIN heap'[chunk].slots
                /\ heap'[chunk].slots[push[offset[key]]] = list[l].bindings[key].buffer
           /\ Roomy /\ chunk # None =>
                heap'[chunk].cursor <= (list[l].dispatches + 1) * Cardinality(Keys)
  BY DEF Placed
<1>1. /\ Shape /\ Ownership /\ Stamped /\ Slots /\ ReadsFound /\ CleanFound /\ RoomLeft
  BY DEF IInv
<1>2. /\ DOMAIN list' = Lists /\ \A m \in Lists : m # l => list'[m] = list[m]
      /\ UNCHANGED <<submitted, finished>> /\ lastAccess' = AccessAfter(l)
      /\ DOMAIN list'[l] = Fields
      /\ list'[l].phase = list[l].phase /\ list'[l].id = list[l].id
      /\ list'[l].pipeline = list[l].pipeline
      /\ list'[l].pipelineChanged = FALSE
      /\ list'[l].bindings = Cleaned(list[l].bindings)
      /\ list'[l].active = chunk
      /\ list'[l].touched = TouchedAfter(l, chunk)
      /\ list'[l].push = push
      /\ list'[l].dispatches = list[l].dispatches + 1
      /\ list'[l].reads = list[l].reads \cup HeapReads(l, chunk, push)
      /\ list'[l].open = [b \in Buffers |-> OpenBefore(l, b) \cup Effects(l, b)]
  BY <1>1, RecordFacts, Zenon
<1>3. /\ \A m \in Lists : GoodList(list[m], submitted, Chunks)
      /\ submitted \in 0 .. MaxSubmissions /\ finished \in 0 .. submitted
      /\ submitted \in Nat
      /\ lastAccess \in [Buffers -> Accesses \cup {"none"}]
      /\ \A c \in Chunks : c \in Nat
  BY <1>1, ShapeFacts, MaxSubmissionsAssumption
<1>4. /\ list[l].bindings \in MapsOf(Keys, BindingType)
      /\ IsFiniteSet(DOMAIN list[l].bindings)
      /\ list[l].touched \in Seq(Chunks) /\ list[l].active \in Chunks \cup {None}
      /\ list[l].dispatches \in 0 .. MaxDispatches
      /\ list[l].open \in [Buffers -> SUBSET {"read", "write"}]
  BY <1>3 DEF GoodList
<1>5. /\ list'[l].bindings \in MapsOf(Keys, BindingType)
      /\ DOMAIN list'[l].bindings = DOMAIN list[l].bindings
      /\ \A key \in DOMAIN list[l].bindings :
            list'[l].bindings[key].buffer = list[l].bindings[key].buffer
  BY <1>2, <1>4, CleanedFacts
<1>7. /\ list'[l].touched \in Seq(Chunks')
      /\ chunk # list[l].active => Range(list'[l].touched) = Range(list[l].touched) \cup {chunk}
      /\ chunk = list[l].active => Range(list'[l].touched) = Range(list[l].touched)
      /\ IsInjective(list'[l].touched)
      /\ chunk # None => chunk \in Range(list'[l].touched)
      /\ Range(list[l].touched) \subseteq Range(list'[l].touched)
  <2>1. list[l].touched \in Seq(Chunks') /\ IsInjective(list[l].touched)
    BY <1>1, <1>4, <1>chunk, SeqMonotonic DEF Ownership
  <2>2. CASE chunk = list[l].active
    <3>1. list'[l].touched = list[l].touched
      BY <1>2, <2>2 DEF TouchedAfter
    <3>2. chunk # None => chunk \in Range(list[l].touched)
      BY <1>1, <2>2 DEF Ownership
    <3> QED
      BY <2>1, <2>2, <3>1, <3>2
  <2>3. CASE chunk # list[l].active
    <3>1. list'[l].touched = Append(list[l].touched, chunk) /\ chunk \in Chunks'
      BY <1>2, <1>chunk, <2>3 DEF TouchedAfter
    <3>2. chunk \notin Range(list[l].touched)
      BY <1>chunk, <2>3 DEF InList
    <3> QED
      BY <2>1, <2>3, <3>1, <3>2, AppendRange
  <2> QED
    BY <2>2, <2>3
<1>8. /\ \A m \in Lists : Recording(m)' = Recording(m) /\ InFlight(m)' = InFlight(m)
      /\ \A m \in Lists : m # l => \A c : InList(m, c)' = InList(m, c)
      /\ \A c : InList(l, c) => InList(l, c)'
      /\ \A c : InList(l, c)' => InList(l, c) \/ c = chunk
      /\ chunk # None => InList(l, chunk)'
  <2>1. \A m \in Lists : Recording(m)' = Recording(m) /\ InFlight(m)' = InFlight(m)
    BY <1>2 DEF Recording, InFlight
  <2> QED
    BY <1>2, <1>7, <2>1 DEF InList
<1>9. Shape'
  <2>1. GoodList(list'[l], submitted, Chunks')
    <3>1. list[l].dispatches + 1 \in 0 .. MaxDispatches
      BY <1>4, CommandListAssumption
    <3>2. [b \in Buffers |-> OpenBefore(l, b) \cup Effects(l, b)]
            \in [Buffers -> SUBSET {"read", "write"}]
      BY <1>4 DEF OpenBefore, Effects
    <3>3. GoodList(list[l], submitted, Chunks)
      BY <1>3
    <3> QED
      BY <1>2, <1>4, <1>5, <1>7, <1>chunk, <1>placed, <3>1, <3>2, <3>3 DEF GoodList
  <2>2. \A m \in Lists : m # l => GoodList(list'[m], submitted, Chunks')
    BY <1>2, <1>3, <1>chunk, GoodListGrows
  <2>3. lastAccess' \in [Buffers -> Accesses \cup {"none"}]
    <3>1. lastAccess' = [b \in Buffers |-> lastAccess'[b]]
      BY <1>2 DEF AccessAfter
    <3>2. ASSUME NEW b \in Buffers PROVE lastAccess'[b] \in Accesses \cup {"none"}
      <4>1. \A key \in Used(l) : list[l].bindings[key] \in BindingType
        BY <1>1, <1>4, SlotFacts, MapFacts DEF Used
      <4>2. \A key \in Used(l) : list[l].bindings[key].access \in Accesses
        BY <4>1 DEF BindingType
      <4>3. \/ AccessAfter(l)[b] = lastAccess[b]
            \/ \E key \in Used(l) : AccessAfter(l)[b] = list[l].bindings[key].access
        BY <1>1, AccessFacts
      <4> QED
        BY <1>2, <1>3, <4>2, <4>3
    <3> QED
      BY <3>1, <3>2
  <2>4. \A m \in Lists : GoodList(list'[m], submitted', Chunks')
    BY <1>2, <2>1, <2>2
  <2> QED
    BY <1>2, <1>3, <1>heap, <1>pool, <1>queue, <2>3, <2>4, ShapeNext
<1>10. Ownership'
  <2>1. \A m \in Lists : Recording(m)' =>
          /\ IsInjective(list'[m].touched)
          /\ list'[m].active # None => list'[m].active \in Range(list'[m].touched)
    <3>1. \A m \in Lists : Recording(m) =>
            /\ IsInjective(list[m].touched)
            /\ list[m].active # None => list[m].active \in Range(list[m].touched)
      BY <1>1 DEF Ownership
    <3> QED
      BY <1>2, <1>7, <1>8, <3>1
  <2>2. ASSUME NEW c \in Chunks'
        PROVE  c \in Range(freePool') \/ (\E m \in Lists : InList(m, c)') \/ reclaim'[c] # 0
    <3>1. CASE c = chunk /\ chunk # None
      BY <1>8, <3>1
    <3>2. CASE c \in Chunks /\ c # chunk
      <4>1. c \in Range(freePool) \/ (\E m \in Lists : InList(m, c)) \/ reclaim[c] # 0
        BY <1>1, <3>2 DEF Ownership
      <4>2. \A m \in Lists : InList(m, c) => InList(m, c)'
        BY <1>8
      <4> QED
        BY <1>pool, <1>queue, <3>2, <4>1, <4>2
    <3>3. c \in Chunks => c # None
      BY <1>3, CommandListAssumption
    <3> QED
      BY <1>chunk, <3>1, <3>2, <3>3
  <2>3. Range(freePool) \subseteq Chunks
    <3>1. freePool \in Seq(Chunks)
      BY <1>1, ShapeFacts
    <3> QED
      BY <3>1 DEF Range
  <2>4. \A c \in Range(freePool') : reclaim'[c] = 0
    BY <1>1, <1>pool, <1>queue, <2>3 DEF Ownership
  <2>5. ASSUME NEW c \in Chunks', NEW m \in Lists, InList(m, c)'
        PROVE  /\ c \notin Range(freePool') /\ reclaim'[c] = 0
               /\ \A k \in Lists : InList(k, c)' => k = m
    <3>1. CASE c = chunk
      <4>1. \A k \in Lists : InList(k, chunk) => k = l
        <5>1. CASE chunk = list[l].active
          <6>1. chunk \in Chunks => InList(l, chunk)
            BY <1>1, <1>3, <5>1, CommandListAssumption DEF Ownership, InList
          <6>2. \A k \in Lists : InList(k, chunk) => chunk \in Chunks
            BY <1>3, <1>chunk, <3>1, <5>1 DEF GoodList
          <6> QED
            BY <1>1, <6>1, <6>2 DEF Ownership
        <5>2. CASE chunk # list[l].active
          BY <1>chunk, <5>2
        <5> QED
          BY <5>1, <5>2
      <4>2. \A k \in Lists : InList(k, chunk)' => k = l
        BY <1>8, <4>1
      <4>3. chunk # None
        BY <1>3, <1>chunk, <3>1, CommandListAssumption
      <4> QED
        BY <1>pool, <1>queue, <2>5, <3>1, <4>2, <4>3
    <3>2. CASE c # chunk
      <4>1. c \in Chunks /\ InList(m, c) /\ \A k \in Lists : InList(k, c)' => InList(k, c)
        BY <1>8, <1>chunk, <2>5, <3>2
      <4> QED
        BY <1>1, <1>pool, <1>queue, <4>1 DEF Ownership
    <3> QED
      BY <3>1, <3>2
  <2> QED
    BY <1>pool, <2>1, <2>2, <2>4, <2>5 DEF Ownership
<1>11. Stamped'
  BY <1>1, <1>2, <1>8 DEF Stamped
<1>12. Slots'
  <2>1. Range(freePool) \subseteq Chunks
    <3>1. freePool \in Seq(Chunks)
      BY <1>1, ShapeFacts
    <3> QED
      BY <3>1 DEF Range
  <2>2. \A c \in Range(freePool') : DOMAIN heap'[c].slots = {}
    BY <1>1, <1>heap, <1>pool, <2>1 DEF Slots
  <2> QED
    BY <1>heap, <2>2 DEF Slots
<1>13. ReadsFound'
  <2> SUFFICES ASSUME NEW m \in Pending', NEW read \in list'[m].reads, read.fresh \/ Roomy
               PROVE  /\ read.chunk \in Chunks' /\ Finds(read)'
                      /\ Recording(m)' => read.chunk \in Range(list'[m].touched)
                      /\ InFlight(m)' => reclaim'[read.chunk] = list'[m].id
    BY DEF ReadsFound
  <2>1. m \in Lists /\ m \in Pending
    BY <1>8 DEF Pending
  <2>2. CASE read \in list[m].reads
    <3>1. /\ read.chunk \in Chunks /\ Finds(read)
          /\ Recording(m) => read.chunk \in Range(list[m].touched)
          /\ InFlight(m) => reclaim[read.chunk] = list[m].id
      BY <1>1, <2>1, <2>2 DEF ReadsFound
    <3>2. Finds(read)'
      BY <1>heap, <3>1 DEF Finds
    <3>3. Recording(m)' => read.chunk \in Range(list'[m].touched)
      BY <1>2, <1>7, <1>8, <2>1, <3>1
    <3> QED
      BY <1>2, <1>8, <1>chunk, <1>queue, <2>1, <3>1, <3>2, <3>3
  <2>3. CASE read \notin list[m].reads
    <3>1. m = l /\ read \in HeapReads(l, chunk, push)
      BY <1>2, <2>1, <2>3
    <3>2. PICK key \in Used(l) : read = [chunk |-> chunk, slot |-> push[offset[key]],
                                         buffer |-> list[l].bindings[key].buffer,
                                         fresh |-> key \in Resolved(l)]
      BY <3>1 DEF HeapReads
    <3>3. /\ read.chunk = chunk /\ read.slot = push[offset[key]]
          /\ read.buffer = list[l].bindings[key].buffer
      BY <3>2
    <3>4. read.fresh => key \in Resolved(l)
      BY <3>2
    <3>5. Finds(read)' /\ chunk # None
      BY <1>placed, <3>3, <3>4 DEF Finds
    <3>6. ~InFlight(m)'
      BY <1>8, <3>1 DEF Recording, InFlight
    <3> QED
      BY <1>7, <1>chunk, <3>1, <3>3, <3>5, <3>6
  <2> QED
    BY <2>2, <2>3
<1>14. CleanFound'
  <2> SUFFICES ASSUME Roomy, NEW m \in Lists, Recording(m)', list'[m].pipeline # None,
                      NEW key \in Used(m)', Clean(m, key)'
               PROVE  FoundAt(m, key)'
    BY DEF CleanFound
  <2>1. CASE m = l
    <3>1. key \in Used(l) /\ key \in DOMAIN list[l].bindings
      BY <1>2, <1>5, <2>1 DEF Used
    <3> QED
      BY <1>2, <1>5, <1>placed, <2>1, <3>1 DEF FoundAt
  <2>2. CASE m # l
    <3>1. list[m].active # None => list[m].active \in Chunks
      BY <1>3 DEF GoodList
    <3>2. list[m].active # None =>
            \A s \in DOMAIN heap[list[m].active].slots :
               /\ s \in DOMAIN heap'[list[m].active].slots
               /\ heap'[list[m].active].slots[s] = heap[list[m].active].slots[s]
      BY <1>heap, <3>1
    <3>3. list'[m] = list[m]
      BY <1>2, <2>2
    <3> QED
      BY <1>1, <3>2, <3>3, StillClean
  <2> QED
    BY <2>1, <2>2
<1>15. RoomLeft'
  <2> SUFFICES ASSUME Roomy, NEW m \in Lists, Recording(m)', list'[m].active # None
               PROVE  heap'[list'[m].active].cursor <= list'[m].dispatches * Cardinality(Keys)
    BY DEF RoomLeft
  <2>1. CASE m = l
    BY <1>2, <1>placed, <2>1
  <2>2. CASE m # l
    <3>1. list'[m] = list[m] /\ Recording(m) /\ list[m].active \in Chunks
      <4>1. list'[m] = list[m] /\ Recording(m)
        BY <1>2, <1>8, <2>2
      <4>2. list[m].active \in Chunks \cup {None}
        BY <1>3 DEF GoodList
      <4> QED
        BY <4>1, <4>2
    <3>2. list[m].active # chunk
      <4>1. InList(m, list[m].active)
        BY <1>1, <3>1, <2>2 DEF Ownership, InList
      <4>2. ASSUME list[m].active = list[l].active PROVE FALSE
        <5>1. InList(l, list[m].active)
          BY <1>1, <3>1, <4>2 DEF Ownership, InList
        <5> QED
          BY <1>1, <2>2, <3>1, <4>1, <5>1 DEF Ownership
      <4> QED
        BY <1>chunk, <4>1, <4>2
    <3> QED
      BY <1>1, <1>heap, <3>1, <3>2 DEF RoomLeft
  <2> QED
    BY <2>1, <2>2
<1> QED
  BY <1>9, <1>10, <1>11, <1>12, <1>13, <1>14, <1>15 DEF IInv


(* With room for all, a list stays in its active chunk.                     *)
LEMMA RoomFacts ==
    ASSUME IInv, NEW l \in Lists, Recording(l), list[l].dispatches < MaxDispatches,
           Roomy, NEW count, count = Cardinality(Resolved(l)),
           NEW d, d = list[l].dispatches, NEW n, n = Cardinality(Keys)
    PROVE  /\ d * n <= (d + 1) * n /\ count <= (d + 1) * n
           /\ list[l].active # None =>
                /\ HasRoom(list[l].active, count)
                /\ heap[list[l].active].cursor <= d * n
                /\ heap[list[l].active].cursor + count <= (d + 1) * n
<1>1. Shape /\ Slots /\ RoomLeft
  BY DEF IInv
<1>2. n \in Nat /\ MaxDispatches * n <= ChunkSlots /\ IsFiniteSet(Keys)
  BY FS_CardinalityType DEF Roomy
<1>3. d \in Nat /\ d + 1 <= MaxDispatches /\ MaxDispatches \in Nat /\ ChunkSlots \in Nat
  BY <1>1, ShapeFacts, CommandListAssumption DEF GoodList
<1>4. count \in Nat /\ count <= n
  <2>1. Resolved(l) \subseteq Keys /\ count \in Nat
    BY <1>1, SlotFacts
  <2> QED
    BY <1>2, <2>1, FS_Subset
<1>5. /\ d * n \in Nat /\ (d + 1) * n = d * n + n
      /\ (d + 1) * n <= MaxDispatches * n /\ MaxDispatches * n \in Nat
  <2>1. PICK k \in Nat : MaxDispatches = (d + 1) + k
    <3>1. MaxDispatches - (d + 1) \in Nat
      BY <1>3
    <3>2. MaxDispatches = (d + 1) + (MaxDispatches - (d + 1))
      BY <1>3
    <3> QED
      BY <3>1, <3>2
  <2>2. MaxDispatches * n = (d + 1) * n + k * n
    BY <1>2, <1>3, <2>1
  <2>3. k * n \in Nat /\ d * n \in Nat /\ (d + 1) * n \in Nat
    BY <1>2, <1>3
  <2>4. (d + 1) * n = d * n + n
    BY <1>2, <1>3
  <2> QED
    BY <2>2, <2>3, <2>4
<1>6. ASSUME list[l].active # None
      PROVE  /\ HasRoom(list[l].active, count)
             /\ heap[list[l].active].cursor <= d * n
             /\ heap[list[l].active].cursor + count <= (d + 1) * n
  <2> DEFINE chunk == heap[list[l].active]
  <2>1. list[l].active \in Chunks
    BY <1>1, <1>6, ShapeFacts DEF GoodList
  <2>2. chunk.cursor \in Nat /\ chunk.capacity \in Nat /\ ChunkSlots <= chunk.capacity
    BY <1>1, <2>1, ShapeFacts DEF Slots, ChunkType
  <2>3. chunk.cursor <= d * n
    BY <1>1, <1>6 DEF RoomLeft
  <2> HIDE DEF chunk
  <2>4. /\ chunk.cursor + count <= (d + 1) * n
        /\ chunk.cursor + count <= chunk.capacity
    <3> DEFINE a == d * n
               b == (d + 1) * n
               c == MaxDispatches * n
    <3>1. /\ a \in Nat /\ b = a + n /\ b <= c /\ c \in Nat /\ c <= ChunkSlots
          /\ chunk.cursor <= a
      BY <1>2, <1>5, <2>3
    <3> HIDE DEF a, b, c
    <3>2. chunk.cursor + count <= b /\ chunk.cursor + count <= chunk.capacity
      BY <1>2, <1>3, <1>4, <2>2, <3>1
    <3> QED
      BY <3>2 DEF b
  <2> QED
    BY <1>6, <2>3, <2>4 DEF HasRoom, chunk
<1>7. d * n <= (d + 1) * n /\ count <= (d + 1) * n
  <2> DEFINE a == d * n
             b == (d + 1) * n
  <2>1. a \in Nat /\ b = a + n
    BY <1>5
  <2> HIDE DEF a, b
  <2>2. a <= b /\ count <= b
    BY <1>2, <1>4, <2>1
  <2> QED
    BY <2>2 DEF a, b
<1> QED
  BY <1>6, <1>7

(* What is not resolved has a descriptor already.                           *)
LEMMA CleanFacts ==
    ASSUME Shape, NEW l \in Lists, NEW key \in Used(l), key \notin Resolved(l)
    PROVE  Clean(l, key)
<1>1. /\ list[l].pipelineChanged \in BOOLEAN
      /\ list[l].bindings \in MapsOf(Keys, BindingType)
  BY ShapeFacts DEF GoodList
<1>2. list[l].bindings[key] \in BindingType
  BY <1>1, SlotFacts, MapFacts DEF Used
<1>3. list[l].bindings[key].dirty \in BOOLEAN
  BY <1>2 DEF BindingType
<1> QED
  BY <1>1, <1>3 DEF Clean, Resolved

(* Without a new descriptor, everything is where it was.                    *)
LEMMA DispatchCleanStep ==
    ASSUME IInv, NEW l \in Lists, Recording(l), list[l].pipeline # None,
           list[l].dispatches < MaxDispatches, Cardinality(Resolved(l)) = 0,
           Record(l, list[l].active, list[l].push),
           UNCHANGED <<heap, freePool, reclaim>>
    PROVE  IInv'
<1> DEFINE active == list[l].active
<1>1. Shape /\ Ownership /\ Slots /\ CleanFound
  BY DEF IInv
<1>2. /\ active \in Chunks \cup {None}
      /\ list[l].push \in MapsOf(Offsets, Nat \cup {None})
  BY <1>1, ShapeFacts DEF GoodList
<1>3. Resolved(l) = {}
  BY <1>1, SlotFacts, FS_EmptySet
<1>4. active # None => active \notin Range(freePool) /\ reclaim[active] = 0
  BY <1>1, <1>2 DEF Ownership, InList
<1>5. Extended(l, active)
  <2>1. Chunks' = Chunks /\ Chunks = Chunks \cup ({active} \ {None})
    BY <1>2 DEF Chunks
  <2>2. /\ heap \in Seq(ChunkType)
        /\ \A c \in Chunks : /\ heap[c].cursor \in 0 .. heap[c].capacity
                             /\ \A s \in DOMAIN heap[c].slots : s < heap[c].cursor
                             /\ ChunkSlots <= heap[c].capacity
    BY <1>1, ShapeFacts DEF Slots
  <2>3. Range(freePool) \subseteq Chunks /\ None \notin Chunks
    <3>1. freePool \in Seq(Chunks) /\ \A c \in Chunks : c \in Nat
      BY <1>1, ShapeFacts
    <3>2. Range(freePool) \subseteq Chunks
      BY <3>1 DEF Range
    <3> QED
      BY <3>1, <3>2, CommandListAssumption
  <2>4. Range(freePool) = Range(freePool) \ {active}
    BY <1>4, <2>3
  <2>5. /\ freePool \in Seq(Chunks) /\ IsInjective(freePool)
        /\ reclaim \in [Chunks -> 0 .. submitted] /\ reclaim \in Seq(Nat)
        /\ Len(reclaim) = Len(heap)
    BY <1>1, ShapeFacts DEF Ownership
  <2> QED
    BY <1>4, <2>1, <2>2, <2>4, <2>5 DEF Extended
<1>6. Placed(l, active, list[l].push)
  <2>1. ASSUME NEW key \in Used(l), Roomy PROVE FoundAt(l, key)
    <3>1. Clean(l, key)
      BY <1>1, <1>3, CleanFacts
    <3> QED
      BY <1>1, <2>1, <3>1 DEF CleanFound
  <2>2. ASSUME Roomy, active # None
        PROVE  heap[active].cursor <= (list[l].dispatches + 1) * Cardinality(Keys)
    <3> DEFINE d == list[l].dispatches
               n == Cardinality(Keys)
    <3>1. /\ d * n <= (d + 1) * n /\ heap[active].cursor <= d * n
      BY <2>2, RoomFacts
    <3>2. d \in Nat /\ n \in Nat /\ heap[active].cursor \in Nat
      <4>1. heap[active] \in ChunkType
        BY <1>1, <1>2, <2>2, ShapeFacts
      <4> QED
        BY <1>1, <2>2, <4>1, ShapeFacts, FS_CardinalityType DEF Roomy, GoodList, ChunkType
    <3> HIDE DEF d, n
    <3>3. d * n \in Nat /\ (d + 1) * n \in Nat
      BY <3>2
    <3>4. heap[active].cursor <= (d + 1) * n
      BY <3>1, <3>2, <3>3
    <3> QED
      BY <3>4 DEF d, n
  <2> QED
    BY <1>2, <1>3, <2>1, <2>2 DEF Placed, FoundAt
<1> QED
  BY <1>5, <1>6, RecordStep

LEMMA DispatchWriteStep ==
    ASSUME IInv, NEW l \in Lists, Recording(l), list[l].pipeline # None,
           list[l].dispatches < MaxDispatches,
           NEW count, count = Cardinality(Resolved(l)),
           NEW chunk \in 1 .. Len(heap) + 1, NEW base,
           Allocate(list[l].active, count, chunk, base),
           WriteDescriptors(l, chunk, base), Record(l, chunk, PushAfter(l, base))
    PROVE  IInv'
<1> DEFINE active == list[l].active
           old == Target(chunk, count)
           push == PushAfter(l, base)
           offset == PushOffset[list[l].pipeline]
<1>1. Shape /\ Ownership /\ Slots /\ CleanFound
  BY DEF IInv
<1>2. count \in Nat
  BY <1>1, SlotFacts
<1>3. /\ base \in Nat /\ \A s \in DOMAIN old.slots : s < base
      /\ base + count <= old.capacity /\ ChunkSlots <= old.capacity
      /\ freePool' \in Seq(Chunks \cup {chunk}) /\ IsInjective(freePool')
      /\ Range(freePool') = Range(freePool) \ {chunk}
      /\ reclaim' \in [Chunks \cup {chunk} -> 0 .. submitted]
      /\ reclaim' \in Seq(Nat)
      /\ Len(reclaim') = IF chunk \in Chunks THEN Len(heap) ELSE Len(heap) + 1
      /\ reclaim'[chunk] = 0 /\ \A c \in Chunks : reclaim'[c] = reclaim[c]
      /\ chunk # active => \A m \in Lists : ~InList(m, chunk)
      /\ HasRoom(active, count) => chunk = active /\ base = heap[chunk].cursor
      /\ ~HasRoom(active, count) => base = 0
  <2>1. Allocated(l, count, chunk, base)
    BY <1>2, AllocateFacts
  <2> QED
    BY <2>1 DEF Allocated
<1>4. /\ heap' \in Seq(ChunkType) /\ Chunks' = Chunks \cup {chunk}
      /\ Len(heap') = IF chunk \in Chunks THEN Len(heap) ELSE Len(heap) + 1
      /\ \A c \in Chunks : c # chunk => heap'[c] = heap[c]
      /\ heap'[chunk].capacity = old.capacity
      /\ heap'[chunk].cursor = base + count
      /\ \A s \in DOMAIN old.slots : /\ s \in DOMAIN heap'[chunk].slots
                                     /\ heap'[chunk].slots[s] = old.slots[s]
      /\ \A key \in Resolved(l) :
            /\ SlotOf(l, base)[key] \in DOMAIN heap'[chunk].slots
            /\ heap'[chunk].slots[SlotOf(l, base)[key]] = list[l].bindings[key].buffer
      /\ \A s \in DOMAIN heap'[chunk].slots : s < base + count
  BY <1>1, <1>3, WriteFacts
<1>5. chunk # None /\ old.capacity \in Nat
  <2>1. chunk \in Nat
    BY <1>1, ShapeFacts
  <2>2. old \in ChunkType
    BY <1>1, <1>2, ShapeFacts, CreatedFacts DEF Target
  <2> QED
    BY <2>1, <2>2, CommandListAssumption DEF ChunkType
<1>6. chunk \in Chunks => old = heap[chunk]
  BY DEF Target
<1> HIDE DEF old, push
<1>7. Extended(l, chunk)
  <2>1. Chunks' = Chunks \cup ({chunk} \ {None})
    BY <1>4, <1>5
  <2>2. \A c \in Chunks :
          /\ \A s \in DOMAIN heap[c].slots :
                s \in DOMAIN heap'[c].slots /\ heap'[c].slots[s] = heap[c].slots[s]
          /\ c # chunk => heap'[c] = heap[c]
    BY <1>4, <1>6
  <2>3. \A c \in Chunks : /\ heap[c].cursor \in 0 .. heap[c].capacity
                          /\ \A s \in DOMAIN heap[c].slots : s < heap[c].cursor
                          /\ ChunkSlots <= heap[c].capacity
    BY <1>1, ShapeFacts DEF Slots
  <2>4. base + count \in 0 .. old.capacity
    BY <1>2, <1>3, <1>5
  <2>5. \A c \in Chunks' : /\ heap'[c].cursor \in 0 .. heap'[c].capacity
                           /\ \A s \in DOMAIN heap'[c].slots : s < heap'[c].cursor
                           /\ ChunkSlots <= heap'[c].capacity
    <3>1. /\ heap'[chunk].cursor \in 0 .. heap'[chunk].capacity
          /\ \A s \in DOMAIN heap'[chunk].slots : s < heap'[chunk].cursor
          /\ ChunkSlots <= heap'[chunk].capacity
      BY <1>3, <1>4, <2>4
    <3> QED
      BY <1>4, <2>3, <3>1, Zenon
  <2> QED
    BY <1>3, <1>4, <1>5, <2>1, <2>2, <2>5 DEF Extended
<1>8. Placed(l, chunk, push)
  <2>1. /\ push \in MapsOf(Offsets, Nat \cup {None})
        /\ \A key \in Resolved(l) : /\ offset[key] \in DOMAIN push
                                    /\ push[offset[key]] = SlotOf(l, base)[key]
        /\ \A key \in Used(l) \ Resolved(l) : offset[key] \in DOMAIN list[l].push =>
             /\ offset[key] \in DOMAIN push
             /\ push[offset[key]] = list[l].push[offset[key]]
    <3>1. Pushed(l, base, push)
      BY <1>1, <1>3, PushFacts DEF push
    <3> QED
      BY <3>1 DEF Pushed
  <2>2. ASSUME Roomy, active # None
        PROVE  chunk = active /\ base = heap[chunk].cursor /\ chunk \in Chunks
    <3>1. HasRoom(active, count)
      BY <2>2, RoomFacts
    <3>2. active \in Chunks
      BY <1>1, <2>2, ShapeFacts DEF GoodList
    <3> QED
      BY <1>3, <3>1, <3>2
  <2>3. ASSUME NEW key \in Used(l), key \in Resolved(l) \/ Roomy
        PROVE  /\ offset[key] \in DOMAIN push
               /\ push[offset[key]] \in DOMAIN heap'[chunk].slots
               /\ heap'[chunk].slots[push[offset[key]]] = list[l].bindings[key].buffer
    <3>1. CASE key \in Resolved(l)
      BY <1>4, <2>1, <3>1
    <3>2. CASE key \notin Resolved(l)
      <4>1. Clean(l, key)
        BY <1>1, <3>2, CleanFacts
      <4>2. FoundAt(l, key)
        BY <1>1, <2>3, <3>2, <4>1 DEF CleanFound
      <4>3. chunk = active /\ old = heap[active]
        BY <1>6, <2>2, <2>3, <3>2, <4>2 DEF FoundAt
      <4>4. /\ offset[key] \in DOMAIN push
            /\ push[offset[key]] = list[l].push[offset[key]]
        BY <2>1, <3>2, <4>2 DEF FoundAt
      <4> QED
        BY <1>4, <4>2, <4>3, <4>4 DEF FoundAt
    <3> QED
      BY <3>1, <3>2
  <2>4. ASSUME Roomy
        PROVE  heap'[chunk].cursor <= (list[l].dispatches + 1) * Cardinality(Keys)
    <3>1. CASE active # None
      BY <1>4, <2>2, <2>4, <3>1, RoomFacts
    <3>2. CASE active = None
      <4>1. base = 0
        BY <1>3, <3>2 DEF HasRoom
      <4>2. count <= (list[l].dispatches + 1) * Cardinality(Keys)
        BY <2>4, RoomFacts
      <4>3. base + count = count
        BY <1>2, <4>1
      <4> QED
        BY <1>4, <4>2, <4>3
    <3> QED
      BY <3>1, <3>2
  <2> QED
    BY <1>5, <2>1, <2>3, <2>4 DEF Placed
<1> QED
  BY <1>7, <1>8, RecordStep DEF push


LEMMA DispatchStep ==
    ASSUME IInv, NEW l \in Lists, Dispatch(l)
    PROVE  IInv'
<1> DEFINE active == list[l].active
           count == Cardinality(Resolved(l))
<1>1. /\ Recording(l) /\ list[l].pipeline # None /\ list[l].dispatches < MaxDispatches
  BY DEF Dispatch, Dispatchable
<1>2. CASE /\ count = 0 /\ Record(l, active, list[l].push)
           /\ UNCHANGED <<heap, freePool, reclaim>>
  BY <1>1, <1>2, DispatchCleanStep
<1>3. ASSUME NEW chunk \in 1 .. Len(heap) + 1, NEW base,
             Allocate(active, count, chunk, base),
             WriteDescriptors(l, chunk, base), Record(l, chunk, PushAfter(l, base))
      PROVE  IInv'
  BY <1>1, <1>3, DispatchWriteStep
<1> QED
  BY <1>2, <1>3 DEF Dispatch, Allocate

(* Every step keeps the invariant.                                          *)
LEMMA IInvStep ==
    ASSUME IInv, [Next]_vars
    PROVE  IInv'
<1>1. ASSUME NEW l \in Lists, Begin(l) PROVE IInv'
  BY <1>1, BeginStep
<1>2. ASSUME NEW l \in Lists, NEW p \in Pipelines, BindPipeline(l, p) PROVE IInv'
  BY <1>2, BindPipelineStep
<1>3. ASSUME NEW l \in Lists, NEW key \in Keys, NEW b \in Buffers,
             NEW access \in Accesses, BindBuffer(l, key, b, access)
      PROVE  IInv'
  BY <1>3, BindBufferStep
<1>4. ASSUME NEW l \in Lists, SetPushConstants(l) PROVE IInv'
  BY <1>4, SetPushConstantsStep
<1>5. ASSUME NEW l \in Lists, Dispatch(l) PROVE IInv'
  BY <1>5, DispatchStep
<1>6. ASSUME NEW l \in Lists, SubmitList(l) PROVE IInv'
  BY <1>6, SubmitListStep
<1>7. ASSUME NEW l \in Lists, ReleaseUnsubmitted(l) PROVE IInv'
  BY <1>7, ReleaseUnsubmittedStep
<1>8. ASSUME NEW c \in Chunks, Reclaim(c) PROVE IInv'
  BY <1>8, ReclaimStep
<1>9. CASE GpuFinish
  BY <1>9, GpuFinishStep
<1>10. CASE UNCHANGED vars
  <2>1. /\ UNCHANGED <<submitted, finished, list, lastAccess, heap, freePool, reclaim>>
        /\ Shape /\ Ownership /\ Stamped /\ Slots /\ ReadsFound /\ CleanFound /\ RoomLeft
    BY <1>10 DEF vars, IInv
  <2>2. Shape'
    BY <2>1 DEF Shape, TypeOK, TimelineTypeOK, Chunks
  <2>3. Ownership' /\ Stamped' /\ Slots' /\ RoomLeft'
    BY <2>1 DEF Ownership, Stamped, Slots, RoomLeft, Chunks, Recording, InFlight, InList
  <2>4. ReadsFound'
    BY <2>1 DEF ReadsFound, Pending, Finds, Recording, InFlight, Chunks
  <2>5. CleanFound'
    BY <2>1 DEF CleanFound, Recording, Used, Clean, FoundAt
  <2> QED
    BY <2>2, <2>3, <2>4, <2>5 DEF IInv
<1> QED
  BY <1>1, <1>2, <1>3, <1>4, <1>5, <1>6, <1>7, <1>8, <1>9, <1>10 DEF Next, Use

-----------------------------------------------------------------------------
(* What every behaviour keeps *)

(* The invariant behind the theorems holds in every state that recording,   *)
(* submitting, reclaiming and the GPU reach together.                       *)
THEOREM Inductive == SafetySpec => []IInv
<1>1. Init => IInv
  BY InitIInv
<1>2. IInv /\ [Next]_vars => IInv'
  BY IInvStep
<1> QED
  BY <1>1, <1>2, PTL DEF SafetySpec

(* Lists, heap, free pool and queue keep their types: in particular no      *)
(* allocation moves a cursor past the end of its chunk.                     *)
THEOREM TypeCorrect == SafetySpec => []TypeOK
<1>1. IInv => TypeOK
  BY DEF IInv, Shape
<1> QED
  BY <1>1, Inductive, PTL

(* What is said of at most one member, counted.                             *)
LEMMA CountAtMostOne ==
    ASSUME NEW S, \A x, y \in S : x = y
    PROVE  Cardinality(S) = IF S = {} THEN 0 ELSE 1
<1>1. CASE S = {}
  BY <1>1, FS_EmptySet
<1>2. CASE S # {}
  <2>1. PICK x : x \in S
    BY <1>2
  <2>2. S = {x}
    BY <2>1
  <2> QED
    BY <1>2, <2>2, FS_Singleton
<1> QED
  BY <1>1, <1>2

(* A chunk is in the free pool, once, or belongs to one list that is being  *)
(* recorded, or waits to be reclaimed: allocateSlots, submission, reclaim   *)
(* and the release of a list never share one and never lose one.            *)
THEOREM ChunksHaveOneOwner == SafetySpec => []ChunkHasOneOwner
<1>1. ASSUME IInv PROVE ChunkHasOneOwner
  <2> SUFFICES ASSUME NEW c \in Chunks
               PROVE  Cardinality({i \in DOMAIN freePool : freePool[i] = c})
                      + Cardinality({l \in Lists : Recording(l) /\ c \in Range(list[l].touched)})
                      + (IF reclaim[c] = 0 THEN 0 ELSE 1) = 1
    BY DEF ChunkHasOneOwner
  <2>1. Ownership
    BY <1>1 DEF IInv
  <2> DEFINE places == {i \in DOMAIN freePool : freePool[i] = c}
             owners == {l \in Lists : Recording(l) /\ c \in Range(list[l].touched)}
  <2>2. Cardinality(places) = IF c \in Range(freePool) THEN 1 ELSE 0
    <3>1. \A i, j \in places : i = j
      BY <2>1 DEF Ownership, IsInjective
    <3>2. places = {} <=> c \notin Range(freePool)
      BY DEF Range
    <3> HIDE DEF places
    <3> QED
      BY <3>1, <3>2, CountAtMostOne
  <2>3. Cardinality(owners) = IF \E l \in Lists : InList(l, c) THEN 1 ELSE 0
    <3>1. \A l, m \in owners : l = m
      BY <2>1 DEF Ownership, InList
    <3>2. owners = {} <=> ~ \E l \in Lists : InList(l, c)
      BY DEF InList
    <3> HIDE DEF owners
    <3> QED
      BY <3>1, <3>2, CountAtMostOne
  <2>4. /\ c \in Range(freePool) \/ (\E l \in Lists : InList(l, c)) \/ reclaim[c] # 0
        /\ c \in Range(freePool) => reclaim[c] = 0 /\ ~ \E l \in Lists : InList(l, c)
        /\ (\E l \in Lists : InList(l, c)) => reclaim[c] = 0
    BY <2>1 DEF Ownership
  <2> HIDE DEF places, owners
  <2>5. Cardinality(places) + Cardinality(owners) + (IF reclaim[c] = 0 THEN 0 ELSE 1) = 1
    BY <2>2, <2>3, <2>4
  <2> QED
    BY <2>5 DEF places, owners
<1> QED
  BY <1>1, Inductive, PTL

(* The descriptors a dispatch wrote are those the GPU finds when it         *)
(* executes it, however long after and whatever else was recorded.          *)
THEOREM ResolvedStayCurrent == SafetySpec => []ResolvedCurrent
<1>1. IInv => ResolvedCurrent
  BY DEF IInv, ReadsFound, ResolvedCurrent
<1> QED
  BY <1>1, Inductive, PTL

(* Where the descriptors of a list all fit into one chunk, a dispatch finds *)
(* those of the earlier dispatches as well ("Sets not rebound between       *)
(* dispatches remain bound", README.md:171).                                *)
THEOREM DescriptorsStayCurrent ==
    ASSUME Roomy
    PROVE  SafetySpec => []DescriptorsCurrent
<1>1. IInv => DescriptorsCurrent
  BY DEF IInv, ReadsFound, DescriptorsCurrent
<1> QED
  BY <1>1, Inductive, PTL


-----------------------------------------------------------------------------
(* Barriers between the dispatches of a list *)

(* Device callers that record one list after the other.                     *)
OneRecording ==
    \A l, m \in Lists : Recording(l) /\ Recording(m) => l = m

(* While a list is recorded, the buffers remember its writes that no        *)
(* barrier has followed: m_lastAccess belongs to the buffer, not to a list. *)
WritesRemembered ==
    \A l \in Lists : Recording(l) =>
        \A b \in Buffers : "write" \in list[l].open[b] => Writes(lastAccess[b])

BarrierInv == OneRecording /\ WritesRemembered

(* A dispatch that touches what was written without a barrier since gets    *)
(* one.                                                                     *)
LEMMA BarrierComes ==
    ASSUME WritesRemembered, NEW l \in Lists, Recording(l), NEW b \in Buffers,
           Effects(l, b) # {}
    PROVE  "write" \notin OpenBefore(l, b)
<1>1. PICK key \in Used(l) : list[l].bindings[key].buffer = b
  BY DEF Effects
<1>2. "write" \in list[l].open[b] => NeedsBarrier(l)
  BY <1>1 DEF WritesRemembered, NeedsBarrier
<1> QED
  BY <1>2 DEF OpenBefore

LEMMA BarrierDispatch ==
    ASSUME ~AliasedBindings, Shape, BarrierInv, NEW l \in Lists, Dispatch(l)
    PROVE  BarrierInv'
<1>1. Recording(l) /\ \E chunk, push : Record(l, chunk, push)
  BY DEF Dispatch, Dispatchable
<1>2. /\ \A m \in Lists : m # l => list'[m] = list[m]
      /\ list'[l].phase = list[l].phase /\ lastAccess' = AccessAfter(l)
      /\ list'[l].open = [b \in Buffers |-> OpenBefore(l, b) \cup Effects(l, b)]
  BY <1>1, RecordFacts
<1>3. /\ \A m \in Lists : Recording(m)' = Recording(m)
      /\ \A m \in Lists : Recording(m) => m = l
  BY <1>1, <1>2 DEF Recording, BarrierInv, OneRecording
<1>4. ASSUME NEW b \in Buffers, "write" \in OpenBefore(l, b) \cup Effects(l, b)
      PROVE  Writes(AccessAfter(l)[b])
  <2> DEFINE keys == {key \in Used(l) : list[l].bindings[key].buffer = b}
  <2>1. \/ keys = {} /\ AccessAfter(l)[b] = lastAccess[b]
        \/ \E key \in keys : AccessAfter(l)[b] = list[l].bindings[key].access
    BY AccessFacts
  <2>2. CASE keys = {}
    <3>1. Effects(l, b) = {}
      BY <2>2 DEF Effects
    <3>2. "write" \in list[l].open[b]
      BY <1>4, <3>1 DEF OpenBefore
    <3> QED
      BY <1>1, <2>1, <2>2, <3>2 DEF BarrierInv, WritesRemembered
  <2>3. ASSUME NEW key \in keys, AccessAfter(l)[b] = list[l].bindings[key].access
        PROVE  Writes(AccessAfter(l)[b])
    <3>1. \A j \in keys : list[l].bindings[j].access = list[l].bindings[key].access
      BY <2>3 DEF Dispatch, Dispatchable
    <3>2. list[l].bindings[key].access \in {"read", "write", "readWrite"}
      <4>1. list[l].bindings \in MapsOf(Keys, BindingType)
        BY ShapeFacts DEF GoodList
      <4>2. list[l].bindings[key] \in BindingType
        BY <4>1, SlotFacts, MapFacts
      <4> QED
        BY <4>2, CommandListAssumption DEF BindingType
    <3>3. Effects(l, b) # {}
      BY <3>2 DEF Effects
    <3>4. "write" \in Effects(l, b)
      BY <1>1, <1>4, <3>3, BarrierComes DEF BarrierInv
    <3>5. list[l].bindings[key].access \in {"write", "readWrite"}
      BY <3>1, <3>4 DEF Effects
    <3> QED
      BY <2>3, <3>5 DEF Writes
  <2> QED
    BY <2>1, <2>2, <2>3
<1>5. WritesRemembered'
  BY <1>2, <1>3, <1>4 DEF WritesRemembered
<1>6. OneRecording'
  BY <1>3 DEF BarrierInv, OneRecording
<1> QED
  BY <1>5, <1>6 DEF BarrierInv

LEMMA BarrierStep ==
    ASSUME ~Interleaved, ~AliasedBindings, IInv, BarrierInv, [Next]_vars
    PROVE  BarrierInv'
<1>1. Shape /\ DOMAIN list = Lists
  BY ShapeFacts DEF IInv
<1>2. ASSUME NEW l \in Lists, Begin(l) PROVE BarrierInv'
  <2>1. /\ \A m \in Lists : ~Recording(m)
        /\ \A m \in Lists : m # l => list'[m] = list[m]
        /\ list'[l] = [NewList EXCEPT !.phase = "recording"]
    BY <1>1, <1>2 DEF Begin
  <2>2. list'[l].open = NewList.open
    BY <2>1, NewListFacts
  <2>3. \A m \in Lists : m # l => ~Recording(m)'
    BY <2>1 DEF Recording
  <2> QED
    BY <2>2, <2>3, NewListFacts DEF BarrierInv, OneRecording, WritesRemembered
<1>3. ASSUME \A m \in Lists : Recording(m)' => Recording(m) /\ list'[m].open = list[m].open,
             lastAccess' = lastAccess
      PROVE  BarrierInv'
  BY <1>3 DEF BarrierInv, OneRecording, WritesRemembered
<1>4. ASSUME NEW l \in Lists, NEW p \in Pipelines, BindPipeline(l, p) PROVE BarrierInv'
  <2>1. /\ list' = [list EXCEPT ![l].pipeline = p, ![l].pipelineChanged = TRUE]
        /\ lastAccess' = lastAccess
    BY <1>4 DEF BindPipeline
  <2>2. \A m \in Lists : list'[m].phase = list[m].phase /\ list'[m].open = list[m].open
    BY <1>1, <2>1
  <2> QED
    BY <1>3, <2>1, <2>2 DEF Recording
<1>5. ASSUME NEW l \in Lists, NEW key \in Keys, NEW b \in Buffers,
             NEW access \in Accesses, BindBuffer(l, key, b, access)
      PROVE  BarrierInv'
  <2> DEFINE bindings == Put(list[l].bindings, key,
                             [buffer |-> b, access |-> access, dirty |-> TRUE])
  <2>1. list' = [list EXCEPT ![l].bindings = bindings] /\ lastAccess' = lastAccess
    BY <1>5 DEF BindBuffer
  <2> HIDE DEF bindings
  <2>2. \A m \in Lists : list'[m].phase = list[m].phase /\ list'[m].open = list[m].open
    BY <1>1, <2>1
  <2> QED
    BY <1>3, <2>1, <2>2 DEF Recording
<1>6. ASSUME NEW l \in Lists, SetPushConstants(l) PROVE BarrierInv'
  <2> DEFINE push == PutAll(list[l].push, [o \in PushConstants[list[l].pipeline] |-> None])
  <2>1. list' = [list EXCEPT ![l].push = push] /\ lastAccess' = lastAccess
    BY <1>6 DEF SetPushConstants
  <2> HIDE DEF push
  <2>2. \A m \in Lists : list'[m].phase = list[m].phase /\ list'[m].open = list[m].open
    BY <1>1, <2>1
  <2> QED
    BY <1>3, <2>1, <2>2 DEF Recording
<1>7. ASSUME NEW l \in Lists, Dispatch(l) PROVE BarrierInv'
  BY <1>1, <1>7, BarrierDispatch
<1>8. ASSUME NEW l \in Lists, SubmitList(l) PROVE BarrierInv'
  <2>1. /\ list' = [list EXCEPT ![l] = [NewList EXCEPT
             !.phase = "submitted", !.id = submitted + 1, !.reads = list[l].reads]]
        /\ lastAccess' = lastAccess
    BY <1>8 DEF SubmitList
  <2>2. ~Recording(l)'
    BY <1>1, <2>1, NewListFacts DEF Recording, Fields
  <2>3. \A m \in Lists : m # l => list'[m] = list[m]
    BY <1>1, <2>1
  <2> QED
    BY <1>3, <2>1, <2>2, <2>3 DEF Recording
<1>9. ASSUME NEW l \in Lists, ReleaseUnsubmitted(l) PROVE BarrierInv'
  <2>1. /\ list'[l] = NewList /\ \A m \in Lists : m # l => list'[m] = list[m]
        /\ lastAccess' = lastAccess
    BY <1>1, <1>9 DEF ReleaseUnsubmitted
  <2> QED
    BY <1>3, <2>1, NewListFacts DEF Recording
<1>10. CASE GpuFinish
  <2>1. /\ \A m \in Lists : list'[m] = NewList \/ list'[m] = list[m]
        /\ lastAccess' = lastAccess
    BY <1>10 DEF GpuFinish
  <2> QED
    BY <1>3, <2>1, NewListFacts DEF Recording
<1>11. ASSUME UNCHANGED <<list, lastAccess>> PROVE BarrierInv'
  BY <1>3, <1>11 DEF Recording
<1>12. ASSUME NEW c \in Chunks, Reclaim(c) PROVE BarrierInv'
  BY <1>11, <1>12 DEF Reclaim
<1>13. CASE UNCHANGED vars
  BY <1>11, <1>13 DEF vars
<1> QED
  BY <1>2, <1>4, <1>5, <1>6, <1>7, <1>8, <1>9, <1>10, <1>12, <1>13 DEF Next, Use

(* A dispatch sees what an earlier one of its list wrote, and never writes  *)
(* at the same time: dispatch puts the barrier that m_lastAccess calls for  *)
(* ("inserted automatically", README.md:152).  It needs that lists are      *)
(* recorded one after the other, and that no buffer is bound twice with     *)
(* different accesses.                                                      *)
THEOREM WritesAreSeen ==
    ASSUME ~Interleaved, ~AliasedBindings
    PROVE  SafetySpec => BarrierAfterWrite
<1>1. Init => BarrierInv
  BY NewListFacts DEF Init, BarrierInv, OneRecording, WritesRemembered, Recording
<1>2. IInv /\ BarrierInv /\ [Next]_vars => BarrierInv'
  BY BarrierStep
<1>3. ASSUME BarrierInv
      PROVE  \A l \in Lists : Dispatch(l) =>
                \A b \in Buffers : Effects(l, b) # {} => "write" \notin OpenBefore(l, b)
  BY <1>3, BarrierComes DEF BarrierInv, Dispatch, Dispatchable
<1>4. BarrierInv => [\A l \in Lists : Dispatch(l) =>
          \A b \in Buffers : Effects(l, b) # {} => "write" \notin OpenBefore(l, b)]_vars
  BY <1>3
<1> QED
  BY <1>1, <1>2, <1>4, Inductive, PTL DEF SafetySpec, BarrierAfterWrite
=============================================================================
