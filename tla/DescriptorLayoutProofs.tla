----------------------- MODULE DescriptorLayoutProofs -----------------------
(***************************************************************************)
(* Proofs about DescriptorLayout, for any shaders and drivers, any buffers  *)
(* and any size of a chunk.                                                 *)
(***************************************************************************)
EXTENDS DescriptorLayout, DataFacts

-----------------------------------------------------------------------------
(* The inductive invariant *)

Kinds == {"storage", "uniform"}

Bound == [buffer : Buffers, type : Kinds, dirty : BOOLEAN]

DescriptorByte == [buffer : Buffers, type : Kinds, part : Nat]

PushedByte == [index : Nat \cup {None}, part : Nat]

Shape ==
    /\ TypeOK
    /\ bindings \in MapsOf(Nat \X Nat, Bound)
    /\ heap \in MapsOf(Nat, DescriptorByte)
    /\ pushData \in MapsOf(Nat, PushedByte)

(* The index of a binding follows those before it.                          *)
OffsetIn(s, i) == IndexTableOffset(s) + IndexSize * (i - 1)

IndexOffset(i) == OffsetIn(shader, i)

(* The entries of the pipeline's map and of the driver's for a binding.     *)
EntryOf(s, i) == [key |-> Reflected(s)[i].key, pushOffset |-> OffsetIn(s, i)]

MappedAs(s, stride, i) ==
    [key |-> Reflected(s)[i].key, pushOffset |-> OffsetIn(s, i),
     type |-> Reflected(s)[i].type, heapIndexStride |-> stride]

Layout ==
    /\ Len(mappings) \in Nat
    /\ bindingMap = [i \in 1 .. Len(mappings) |-> EntryOf(shader, i)]
    /\ mappings = [i \in 1 .. Len(mappings) |-> MappedAs(shader, SlotStride, i)]
    /\ phase \in {"mapping", "created"} =>
        /\ Fits(shader)
        /\ nextPushOffset = OffsetIn(shader, Len(mappings) + 1)
    /\ phase = "reflected" => mappings = <<>>
    /\ phase = "created" => Len(mappings) = Len(Reflected(shader))

(* No list uses a pipeline before it exists.                                *)
Fresh ==
    phase # "created" =>
        /\ DOMAIN bindings = {} /\ DOMAIN heap = {} /\ DOMAIN pushData = {}
        /\ cursor = 0 /\ ~constantsSet /\ reads = {}

(* The push constants are what lies below the index table.                  *)
Constants ==
    /\ \A o \in DOMAIN pushData :
        /\ o < limits.maxPushDataSize
        /\ o < IndexTableOffset(shader) => pushData[o] = [index |-> None, part |-> o]
    /\ constantsSet => Bytes(0, shader.constants) \subseteq DOMAIN pushData

(* The bytes written of the chunk are those of the slots handed out.        *)
Descriptors ==
    \A byte \in DOMAIN heap :
        byte < cursor * SlotStride /\ 0 < limits.bufferDescriptorSize

(* The whole index is in the push data, ...                                 *)
IndexAt(push, offset, slot) ==
    \A part \in Bytes(0, IndexSize) :
        /\ offset + part \in DOMAIN push
        /\ push[offset + part] = [index |-> slot, part |-> part]

(* ... and the whole descriptor in the chunk.                               *)
DescriptorAt(bytes, size, address, b, type) ==
    \A part \in Bytes(0, size) :
        /\ address + part \in DOMAIN bytes
        /\ bytes[address + part] = [buffer |-> b, type |-> type, part |-> part]

(* A binding that will not be resolved again has both.                      *)
CleanFound ==
    \A i \in DOMAIN mappings :
        LET key == mappings[i].key
        IN  key \in DOMAIN bindings /\ ~bindings[key].dirty /\ ~pipelineChanged =>
            \E slot \in 0 .. cursor - 1 :
                /\ IndexAt(pushData, OffsetIn(shader, i), slot)
                /\ DescriptorAt(heap, limits.bufferDescriptorSize, slot * SlotStride,
                       bindings[key].buffer, bindings[key].type)

(* So has every read of a dispatch, wherever the list is now.               *)
ReadsFound ==
    \A read \in reads :
        /\ read.address \in Nat
        /\ \E type \in Kinds :
            DescriptorAt(heap, limits.bufferDescriptorSize, read.address,
                read.buffer, type)

IInv ==
    /\ Shape
    /\ Layout
    /\ Fresh
    /\ Constants
    /\ Descriptors
    /\ CleanFound
    /\ ReadsFound

-----------------------------------------------------------------------------
(* Numbers *)

(* alignUp never gives less than it gets.                                   *)
LEMMA AlignUpFacts ==
    ASSUME NEW v \in Nat, NEW a \in Nat
    PROVE  AlignUp(v, a) \in Nat /\ v <= AlignUp(v, a)
<1>1. CASE a = 0
  BY <1>1 DEF AlignUp
<1>2. CASE a # 0
  <2> DEFINE n == v + a - 1
             q == n \div a
  <2>1. n \in Nat /\ a > 0 /\ n = v + a - 1
    BY <1>2
  <2> HIDE DEF n
  <2>2. q \in Nat /\ n = (a * q) + (n % a) /\ n % a \in 0 .. a - 1
    BY <2>1
  <2> HIDE DEF q
  <2>3. a * q \in Nat /\ a * q = q * a /\ n % a \in Nat
    BY <2>1, <2>2
  <2>4. v <= q * a
    BY <2>1, <2>2, <2>3
  <2> QED
    BY <1>2, <2>3, <2>4 DEF AlignUp, n, q
<1> QED
  BY <1>1, <1>2

(* A slot ends where the next begins, or before.                            *)
LEMMA SlotsApart ==
    ASSUME NEW j \in Nat, NEW k \in Nat, NEW stride \in Nat, j < k
    PROVE  /\ j * stride \in Nat /\ k * stride \in Nat
           /\ j * stride + stride <= k * stride
<1>1. PICK d \in Nat : k = j + 1 + d
  <2>1. k - (j + 1) \in Nat /\ k = j + 1 + (k - (j + 1))
    OBVIOUS
  <2> QED
    BY <2>1
<1>2. k * stride = j * stride + stride + d * stride
  BY <1>1
<1>3. j * stride \in Nat /\ d * stride \in Nat
  OBVIOUS
<1> QED
  BY <1>2, <1>3

LEMMA SlotsInOrder ==
    ASSUME NEW j \in Nat, NEW k \in Nat, NEW stride \in Nat, j <= k
    PROVE  /\ j * stride \in Nat /\ k * stride \in Nat
           /\ j * stride <= k * stride
<1>1. j * stride \in Nat /\ k * stride \in Nat
  OBVIOUS
<1>2. CASE j = k
  BY <1>1, <1>2
<1>3. CASE j < k
  BY <1>1, <1>3, SlotsApart
<1> QED
  BY <1>2, <1>3

-----------------------------------------------------------------------------
(* Facts about the state and the operators of the module *)

(* The push constants lie below the index table, descriptors in their slots.*)
LEMMA DriverFacts ==
    ASSUME Shape
    PROVE  /\ limits.bufferDescriptorSize \in Nat /\ limits.resourceHeapAlignment \in Nat
           /\ limits.maxPushDataSize \in Nat
           /\ SlotStride \in Nat /\ limits.bufferDescriptorSize <= SlotStride
           /\ shader.constants \in Nat /\ PushConstSize(shader) \in Nat
           /\ shader.constants <= PushConstSize(shader)
           /\ IndexTableOffset(shader) \in Nat
           /\ PushConstSize(shader) <= IndexTableOffset(shader)
<1>1. limits \in [bufferDescriptorSize : Nat, bufferDescriptorAlignment : Nat,
                  resourceHeapAlignment : Nat, maxPushDataSize : Nat]
  BY DescriptorLayoutAssumption DEF Shape, TypeOK
<1>2. shader.constants \in Nat
  BY DescriptorLayoutAssumption DEF Shape, TypeOK
<1>3. SlotStride \in Nat /\ limits.bufferDescriptorSize <= SlotStride
  BY <1>1, AlignUpFacts DEF SlotStride
<1>4. PushConstSize(shader) \in Nat /\ shader.constants <= PushConstSize(shader)
  <2>1. 16 \in Nat
    OBVIOUS
  <2> QED
    BY <1>2, <2>1, AlignUpFacts DEF PushConstSize
<1>5. /\ IndexTableOffset(shader) \in Nat
      /\ PushConstSize(shader) <= IndexTableOffset(shader)
  <2>1. 4 \in Nat
    OBVIOUS
  <2> QED
    BY <1>4, <2>1, AlignUpFacts DEF IndexTableOffset
<1> QED
  BY <1>1, <1>2, <1>3, <1>4, <1>5

(* What reflection reports: no two variables at the same place.             *)
LEMMA ReflectedFacts ==
    ASSUME Shape
    PROVE  /\ Reflected(shader) \in Seq(Variable) /\ Len(Reflected(shader)) \in Nat
           /\ DOMAIN Reflected(shader) = 1 .. Len(Reflected(shader))
           /\ \A i \in DOMAIN Reflected(shader) :
               /\ Reflected(shader)[i].key \in Nat \X Nat
               /\ Reflected(shader)[i].type \in Kinds
           /\ \A i, j \in DOMAIN Reflected(shader) :
               Reflected(shader)[i].key = Reflected(shader)[j].key => i = j
<1> DEFINE vars_ == Reflected(shader)
<1>1. /\ vars_ \in Seq(Variable)
      /\ \A i, j \in DOMAIN vars_ : vars_[i].key = vars_[j].key => i = j
  BY DescriptorLayoutAssumption DEF Shape, TypeOK
<1> HIDE DEF vars_
<1>2. Len(vars_) \in Nat /\ DOMAIN vars_ = 1 .. Len(vars_)
  BY <1>1
<1>3. \A i \in DOMAIN vars_ : vars_[i] \in Variable
  BY <1>1, <1>2
<1>4. \A i \in DOMAIN vars_ : vars_[i].key \in Nat \X Nat /\ vars_[i].type \in Kinds
  BY <1>3 DEF Variable, Kinds
<1>5. /\ vars_ \in Seq(Variable) /\ Len(vars_) \in Nat
      /\ DOMAIN vars_ = 1 .. Len(vars_)
      /\ \A i \in DOMAIN vars_ : vars_[i].key \in Nat \X Nat /\ vars_[i].type \in Kinds
      /\ \A i, j \in DOMAIN vars_ : vars_[i].key = vars_[j].key => i = j
  BY <1>1, <1>2, <1>4
<1> QED
  BY <1>5 DEF vars_

LEMMA InitIInv == Init => IInv
<1> SUFFICES ASSUME Init PROVE IInv
  OBVIOUS
<1>1. /\ DOMAIN bindings = {} /\ DOMAIN heap = {} /\ DOMAIN pushData = {}
      /\ bindings \in MapsOf(Nat \X Nat, Bound)
      /\ heap \in MapsOf(Nat, DescriptorByte)
      /\ pushData \in MapsOf(Nat, PushedByte)
  BY EmptyMap DEF Init
<1>2. Len(bindingMap) = 0 /\ Len(mappings) = 0
  BY DEF Init
<1>3. Shape
  <2>1. Len(Reflected(shader)) \in Nat
    <3>1. Reflected(shader) \in Seq(Variable)
      BY DescriptorLayoutAssumption DEF Init
    <3> QED
      BY <3>1
  <2> QED
    <3>1. /\ limits \in Limits /\ shader \in Shaders
          /\ phase = "reflected" /\ nextPushOffset = 0
          /\ pipelineChanged = TRUE /\ constantsSet = FALSE
          /\ cursor = 0 /\ dispatches = 0
      BY DEF Init
    <3>2. ChunkSlots \in Nat /\ MaxDispatches \in Nat
      BY DescriptorLayoutAssumption
    <3>3. /\ Len(bindingMap) = Len(mappings) /\ Len(mappings) <= Len(Reflected(shader))
          /\ nextPushOffset \in Nat
          /\ cursor \in 0 .. ChunkSlots /\ dispatches \in 0 .. MaxDispatches
      BY <1>2, <2>1, <3>1, <3>2
    <3>4. pipelineChanged \in BOOLEAN /\ constantsSet \in BOOLEAN
      BY <3>1
    <3>5. TypeOK
      BY <1>1, <3>1, <3>3, <3>4 DEF TypeOK
    <3> QED
      BY <1>1, <3>5 DEF Shape
<1>4. Layout
  <2>1. /\ bindingMap = [i \in 1 .. 0 |-> EntryOf(shader, i)]
        /\ mappings = [i \in 1 .. 0 |-> MappedAs(shader, SlotStride, i)]
    BY DEF Init
  <2>2. phase = "reflected" /\ mappings = <<>> /\ Len(mappings) \in Nat
    BY <1>2 DEF Init
  <2> QED
    BY <1>2, <2>1, <2>2 DEF Layout
<1>5. Fresh /\ Constants /\ Descriptors
  BY <1>1 DEF Init, Fresh, Constants, Descriptors
<1>6. CleanFound /\ ReadsFound
  BY <1>1, <1>2 DEF Init, CleanFound, ReadsFound
<1> QED
  BY <1>3, <1>4, <1>5, <1>6 DEF IInv

(* The offsets of the index table.                                          *)
LEMMA OffsetFacts ==
    ASSUME Shape, NEW i \in Nat \ {0}
    PROVE  /\ IndexOffset(i) \in Nat /\ IndexTableOffset(shader) <= IndexOffset(i)
           /\ IndexOffset(i + 1) = IndexOffset(i) + IndexSize
           /\ \A j \in Nat : i < j => IndexOffset(i) + IndexSize <= IndexOffset(j)
BY DriverFacts DEF IndexOffset, OffsetIn, IndexSize

(* What has been mapped so far: the map of the pipeline and the mappings of *)
(* the driver agree.                                                        *)
LEMMA LayoutFacts ==
    ASSUME Shape, Layout
    PROVE  /\ Len(mappings) \in Nat /\ Len(mappings) <= Len(Reflected(shader))
           /\ DOMAIN mappings = 1 .. Len(mappings) /\ DOMAIN bindingMap = DOMAIN mappings
           /\ \A i \in DOMAIN mappings :
               /\ i \in Nat \ {0} /\ i \in DOMAIN Reflected(shader)
               /\ mappings[i].key = Reflected(shader)[i].key
               /\ mappings[i].key \in Nat \X Nat
               /\ mappings[i].type = Reflected(shader)[i].type
               /\ mappings[i].type \in Kinds
               /\ mappings[i].pushOffset = IndexOffset(i)
               /\ mappings[i].heapIndexStride = SlotStride
               /\ bindingMap[i].key = mappings[i].key
               /\ bindingMap[i].pushOffset = IndexOffset(i)
               /\ IndexOffset(i) + IndexSize <= IndexOffset(Len(mappings) + 1)
           /\ \A i, j \in DOMAIN mappings : mappings[i].key = mappings[j].key => i = j
<1> DEFINE n == Len(mappings)
           r == Reflected(shader)
<1>1. n \in Nat /\ n <= Len(r)
  BY DEF Layout, Shape, TypeOK
<1>2. /\ bindingMap = [i \in 1 .. n |-> EntryOf(shader, i)]
      /\ mappings = [i \in 1 .. n |-> MappedAs(shader, SlotStride, i)]
  BY DEF Layout
<1>3. /\ Len(r) \in Nat /\ DOMAIN r = 1 .. Len(r)
      /\ \A i \in DOMAIN r : r[i].key \in Nat \X Nat /\ r[i].type \in Kinds
      /\ \A i, j \in DOMAIN r : r[i].key = r[j].key => i = j
  BY ReflectedFacts
<1> HIDE DEF n, r
<1>4. DOMAIN mappings = 1 .. n /\ DOMAIN bindingMap = 1 .. n
  BY <1>2
<1>5. \A i \in 1 .. n : /\ i \in Nat \ {0} /\ i \in DOMAIN r /\ n + 1 \in Nat
                        /\ i < n + 1
  BY <1>1, <1>3
<1>6. \A i \in 1 .. n :
        bindingMap[i].key = r[i].key /\ bindingMap[i].pushOffset = IndexOffset(i)
  BY <1>2 DEF EntryOf, IndexOffset, r
<1>7. \A i \in 1 .. n :
        /\ mappings[i].key = r[i].key /\ mappings[i].type = r[i].type
        /\ mappings[i].pushOffset = IndexOffset(i)
        /\ mappings[i].heapIndexStride = SlotStride
  BY <1>2 DEF MappedAs, IndexOffset, r
<1>8. \A i \in 1 .. n : IndexOffset(i) + IndexSize <= IndexOffset(n + 1)
  BY <1>5, OffsetFacts
<1>9. \A i, j \in 1 .. n : mappings[i].key = mappings[j].key => i = j
  BY <1>3, <1>5, <1>7
<1>10. \A i \in 1 .. n : mappings[i].key \in Nat \X Nat /\ mappings[i].type \in Kinds
  BY <1>3, <1>5, <1>7
<1> QED
  BY <1>1, <1>4, <1>5, <1>6, <1>7, <1>8, <1>9, <1>10 DEF n, r

(* findBinding finds the entry of a key, and nothing else.                  *)
LEMMA BindingFacts ==
    ASSUME Shape, Layout
    PROVE  /\ Keys = {mappings[i].key : i \in DOMAIN mappings}
           /\ \A i \in DOMAIN mappings :
               FindBinding(mappings[i].key).pushOffset = IndexOffset(i)
<1>1. DOMAIN mappings \subseteq Nat /\ DOMAIN bindingMap = DOMAIN mappings
  BY LayoutFacts
<1>2. Keys = {mappings[i].key : i \in DOMAIN mappings}
  BY LayoutFacts DEF Keys
<1>3. ASSUME NEW i \in DOMAIN mappings
      PROVE  FindBinding(mappings[i].key).pushOffset = IndexOffset(i)
  <2> DEFINE S == {j \in DOMAIN bindingMap : bindingMap[j].key = mappings[i].key}
  <2>1. S = {i}
    BY LayoutFacts
  <2>2. S \in SUBSET Nat /\ S # {}
    BY <1>1, <2>1
  <2> HIDE DEF S
  <2>3. Min(S) = i
    BY <2>1, <2>2, MinFacts
  <2>4. FindBinding(mappings[i].key) = bindingMap[i]
    BY <2>3 DEF FindBinding, S
  <2> QED
    BY <2>4, LayoutFacts
<1> QED
  BY <1>2, <1>3

-----------------------------------------------------------------------------
(* The creation of a pipeline *)

(* No list uses the pipeline yet.                                           *)
LEMMA CreationKept ==
    ASSUME IInv, phase # "created", UNCHANGED <<limits, shader, listVars>>
    PROVE  (Fresh /\ Constants /\ Descriptors /\ CleanFound /\ ReadsFound)'
<1>1. /\ DOMAIN bindings = {} /\ DOMAIN heap = {} /\ DOMAIN pushData = {}
      /\ cursor = 0 /\ ~constantsSet /\ reads = {}
  BY DEF IInv, Fresh
<1>2. /\ DOMAIN bindings' = {} /\ DOMAIN heap' = {} /\ DOMAIN pushData' = {}
      /\ cursor' = 0 /\ ~constantsSet' /\ reads' = {}
  BY <1>1 DEF listVars
<1> QED
  BY <1>2 DEF Fresh, Constants, Descriptors, CleanFound, ReadsFound

LEMMA StrideKept == ASSUME UNCHANGED limits PROVE SlotStride' = SlotStride
BY DEF SlotStride

LEMMA ReserveStep == IInv /\ ReserveIndexTable => IInv'
<1> SUFFICES ASSUME IInv, ReserveIndexTable PROVE IInv'
  OBVIOUS
<1> USE DEF IInv
<1>1. /\ phase = "reflected" /\ mappings = <<>> /\ UNCHANGED <<limits, shader, listVars>>
      /\ UNCHANGED <<bindingMap, mappings>>
      /\ phase' \in {"mapping", "aborted"} /\ (phase' = "mapping" => Fits(shader))
      /\ nextPushOffset' = IndexTableOffset(shader)
  BY DEF ReserveIndexTable, Layout
<1>2. Len(mappings) = 0
  BY <1>1
<1>3. IndexOffset(1) = IndexTableOffset(shader) /\ IndexTableOffset(shader) \in Nat
  BY DriverFacts DEF IndexOffset, OffsetIn, IndexSize
<1>4. Shape'
  BY <1>1, <1>3 DEF Shape, TypeOK, listVars
<1>5. Layout'
  <2>1. /\ bindingMap' = [i \in 1 .. Len(mappings') |-> EntryOf(shader', i)]
        /\ mappings' = [i \in 1 .. Len(mappings') |-> MappedAs(shader', SlotStride', i)]
    BY <1>1, StrideKept DEF Layout
  <2>2. nextPushOffset' = OffsetIn(shader', Len(mappings') + 1) /\ Len(mappings') \in Nat
    BY <1>1, <1>2, <1>3 DEF IndexOffset
  <2>3. Fits(shader)' = Fits(shader)
    BY <1>1 DEF Fits
  <2> QED
    BY <1>1, <2>1, <2>2, <2>3 DEF Layout
<1>6. (Fresh /\ Constants /\ Descriptors /\ CleanFound /\ ReadsFound)'
  BY <1>1, CreationKept
<1> QED
  BY <1>4, <1>5, <1>6

LEMMA MapBindingStep == IInv /\ MapBinding => IInv'
<1> SUFFICES ASSUME IInv, MapBinding PROVE IInv'
  OBVIOUS
<1> USE DEF IInv
<1> DEFINE n == Len(mappings)
           r == Reflected(shader)
           entry == [key |-> r[n + 1].key, pushOffset |-> nextPushOffset]
           mapping == MappingOf(r[n + 1], nextPushOffset)
<1>1. /\ phase = "mapping" /\ phase' = phase /\ n < Len(r)
      /\ UNCHANGED <<limits, shader, listVars>>
      /\ bindingMap' = Append(bindingMap, entry) /\ mappings' = Append(mappings, mapping)
      /\ nextPushOffset' = nextPushOffset + IndexSize
  BY DEF MapBinding
<1>2. /\ n \in Nat /\ Len(r) \in Nat /\ Fits(shader) /\ nextPushOffset = IndexOffset(n + 1)
  BY <1>1, ReflectedFacts DEF Layout, IndexOffset
<1>3. /\ bindingMap = [i \in 1 .. n |-> EntryOf(shader, i)]
      /\ mappings = [i \in 1 .. n |-> MappedAs(shader, SlotStride, i)]
  BY DEF Layout
<1>4. bindingMap = [i \in 1 .. n |-> bindingMap[i]] /\ mappings = [i \in 1 .. n |-> mappings[i]]
  BY <1>3
<1> HIDE DEF n, entry, mapping
<1>5. /\ Len(bindingMap') = n + 1 /\ Len(mappings') = n + 1
      /\ bindingMap' = [i \in 1 .. n + 1 |-> IF i = n + 1 THEN entry ELSE bindingMap[i]]
      /\ mappings' = [i \in 1 .. n + 1 |-> IF i = n + 1 THEN mapping ELSE mappings[i]]
  BY <1>1, <1>2, <1>4, ExtendFacts
<1>6. \A i \in 1 .. n + 1 : i # n + 1 => i \in 1 .. n
  BY <1>2
<1>7. bindingMap' = [i \in 1 .. n + 1 |-> EntryOf(shader, i)]
  <2>1. \A i \in 1 .. n : bindingMap[i] = EntryOf(shader, i)
    BY <1>3
  <2>2. entry = EntryOf(shader, n + 1)
    BY <1>2 DEF entry, EntryOf, IndexOffset
  <2> QED
    BY <1>5, <1>6, <2>1, <2>2
<1>8. mappings' = [i \in 1 .. n + 1 |-> MappedAs(shader, SlotStride, i)]
  <2>1. \A i \in 1 .. n : mappings[i] = MappedAs(shader, SlotStride, i)
    BY <1>3
  <2>2. mapping = MappedAs(shader, SlotStride, n + 1)
    BY <1>2 DEF mapping, MappingOf, MappedAs, IndexOffset
  <2> QED
    BY <1>5, <1>6, <2>1, <2>2
<1>9. /\ n + 1 \in Nat /\ n + 1 <= Len(r) /\ nextPushOffset' \in Nat
      /\ nextPushOffset' = IndexOffset(n + 1 + 1)
  <2>1. n + 1 \in Nat \ {0}
    BY <1>2
  <2>2. IndexOffset(n + 1) \in Nat /\ IndexOffset(n + 1 + 1) = IndexOffset(n + 1) + IndexSize
    BY <2>1, OffsetFacts
  <2> QED
    BY <1>1, <1>2, <2>1, <2>2 DEF IndexSize
<1>10. Shape'
  BY <1>1, <1>5, <1>9 DEF Shape, TypeOK, listVars
<1>11. Layout'
  <2>1. Fits(shader)' = Fits(shader)
    BY <1>1 DEF Fits
  <2>2. /\ Len(mappings') \in Nat
        /\ nextPushOffset' = OffsetIn(shader', Len(mappings') + 1)
    BY <1>1, <1>5, <1>9 DEF IndexOffset
  <2>3. /\ bindingMap' = [i \in 1 .. Len(mappings') |-> EntryOf(shader', i)]
        /\ mappings' = [i \in 1 .. Len(mappings') |-> MappedAs(shader', SlotStride', i)]
    BY <1>1, <1>5, <1>7, <1>8, StrideKept
  <2> QED
    BY <1>1, <1>2, <2>1, <2>2, <2>3 DEF Layout
<1>12. (Fresh /\ Constants /\ Descriptors /\ CleanFound /\ ReadsFound)'
  BY <1>1, CreationKept
<1> QED
  BY <1>10, <1>11, <1>12

LEMMA CreatedStep == IInv /\ PipelineCreated => IInv'
<1> SUFFICES ASSUME IInv, PipelineCreated PROVE IInv'
  OBVIOUS
<1> USE DEF IInv
<1>1. /\ phase = "mapping" /\ phase' = "created"
      /\ Len(mappings) = Len(Reflected(shader))
      /\ UNCHANGED <<limits, shader, nextPushOffset, bindingMap, mappings, listVars>>
  BY DEF PipelineCreated
<1>2. nextPushOffset' <= limits'.maxPushDataSize
  <2>1. /\ Fits(shader) /\ nextPushOffset = IndexOffset(Len(mappings) + 1)
        /\ Len(mappings) \in Nat
    BY <1>1 DEF Layout, IndexOffset
  <2> QED
    BY <1>1, <2>1, DriverFacts DEF IndexOffset, OffsetIn, IndexSize, Fits, BindingCount
<1>3. Shape'
  BY <1>1, <1>2 DEF Shape, TypeOK, listVars
<1>4. Layout'
  <2>1. Fits(shader)' = Fits(shader)
    BY <1>1 DEF Fits
  <2> QED
    BY <1>1, <2>1, StrideKept DEF Layout
<1>5. (Fresh /\ Constants /\ Descriptors /\ CleanFound /\ ReadsFound)'
  BY <1>1, CreationKept
<1> QED
  BY <1>3, <1>4, <1>5

-----------------------------------------------------------------------------
(* Binding and push constants *)

(* What a step of the list leaves alone.                                    *)
LEMMA PipelineKept ==
    ASSUME UNCHANGED pipelineVars
    PROVE  /\ Layout => Layout'
           /\ SlotStride' = SlotStride
BY DEF pipelineVars, Layout, Fits, SlotStride

LEMMA BytesFacts ==
    ASSUME NEW first \in Nat, NEW size \in Nat
    PROVE  /\ \A x : x \in Bytes(first, size) <=>
                x \in Nat /\ first <= x /\ x < first + size
           /\ \A part \in Bytes(0, size) : part \in Nat /\ first + part \in Bytes(first, size)
           /\ \A x \in Bytes(first, size) : x - first \in Bytes(0, size)
BY DEF Bytes

(* The index table ends where the driver has no more room.                  *)
LEMMA TableFits ==
    ASSUME IInv, phase = "created"
    PROVE  /\ IndexTableOffset(shader) <= limits.maxPushDataSize
           /\ \A i \in DOMAIN mappings :
                /\ IndexTableOffset(shader) <= IndexOffset(i) /\ IndexOffset(i) \in Nat
                /\ IndexOffset(i) + IndexSize <= limits.maxPushDataSize
<1> USE DEF IInv
<1>1. /\ nextPushOffset <= limits.maxPushDataSize
      /\ nextPushOffset = IndexOffset(Len(mappings) + 1) /\ Len(mappings) \in Nat
  BY DEF Shape, TypeOK, Layout, IndexOffset
<1>2. Len(mappings) + 1 \in Nat \ {0}
  BY <1>1
<1>3. /\ IndexTableOffset(shader) <= IndexOffset(Len(mappings) + 1)
      /\ IndexOffset(Len(mappings) + 1) \in Nat /\ limits.maxPushDataSize \in Nat
      /\ IndexTableOffset(shader) \in Nat
  BY <1>2, OffsetFacts, DriverFacts
<1>4. \A i \in DOMAIN mappings :
        /\ IndexTableOffset(shader) <= IndexOffset(i) /\ IndexOffset(i) \in Nat
        /\ IndexOffset(i) + IndexSize <= IndexOffset(Len(mappings) + 1)
  BY LayoutFacts, OffsetFacts
<1> QED
  BY <1>1, <1>3, <1>4 DEF IndexSize

LEMMA BindBufferStep ==
    ASSUME IInv, NEW i \in DOMAIN Reflected(shader), NEW b \in Buffers,
           BindBuffer(Reflected(shader)[i], b)
    PROVE  IInv'
<1> USE DEF IInv
<1> DEFINE var == Reflected(shader)[i]
           bound == [buffer |-> b, type |-> DescriptorType(b), dirty |-> TRUE]
<1>1. /\ phase = "created"
      /\ bindings' = Put(bindings, var.key, bound)
      /\ UNCHANGED <<pipelineVars, pipelineChanged, cursor, heap, pushData,
                     constantsSet, dispatches, reads>>
  BY DEF BindBuffer
<1>2. /\ bound \in Bound /\ bound.dirty = TRUE /\ bound.type = DescriptorType(b)
  BY DEF DescriptorType, Bound, Kinds
<1>3. var.key \in Nat \X Nat /\ var.type \in Kinds
  BY ReflectedFacts
<1>4. /\ UNCHANGED <<limits, shader, phase, nextPushOffset, bindingMap, mappings>>
      /\ UNCHANGED <<pipelineChanged, cursor, heap, pushData, constantsSet,
                     dispatches, reads>>
  BY <1>1 DEF pipelineVars
<1> HIDE DEF var, bound
<1>5. bindings' \in MapsOf(Nat \X Nat, Bound)
  BY <1>1, <1>2, <1>3, PutFacts DEF Shape
<1>6. Shape'
  <2>1. \A key \in DOMAIN bindings' : bindings'[key].buffer \in Buffers
    <3>1. \A key \in DOMAIN bindings' : bindings'[key] \in Bound
      BY <1>5, MapFacts
    <3> QED
      BY <3>1 DEF Bound
  <2> QED
    BY <1>4, <1>5, <2>1 DEF Shape, TypeOK
<1>7. Layout' /\ SlotStride' = SlotStride
  BY <1>1, PipelineKept
<1>8. Fresh' /\ Constants' /\ Descriptors' /\ ReadsFound'
  BY <1>1, <1>4, <1>7
     DEF Fresh, Constants, Descriptors, ReadsFound
<1>9. \A key : key # var.key =>
        /\ key \in DOMAIN bindings' <=> key \in DOMAIN bindings
        /\ key \in DOMAIN bindings => bindings'[key] = bindings[key]
  BY <1>1 DEF Put
<1>10. var.key \in DOMAIN bindings' /\ bindings'[var.key] = bound
  BY <1>1 DEF Put
<1>11. CleanFound'
  <2> SUFFICES ASSUME NEW j \in DOMAIN mappings, mappings[j].key \in DOMAIN bindings',
                      ~bindings'[mappings[j].key].dirty, ~pipelineChanged
               PROVE  \E slot \in 0 .. cursor - 1 :
                        /\ IndexAt(pushData, OffsetIn(shader, j), slot)
                        /\ DescriptorAt(heap, limits.bufferDescriptorSize,
                               slot * SlotStride, bindings'[mappings[j].key].buffer,
                               bindings'[mappings[j].key].type)
    BY <1>4, <1>7 DEF CleanFound
  <2>1. mappings[j].key # var.key
    BY <1>2, <1>10
  <2> QED
    BY <1>9, <2>1 DEF CleanFound
<1> QED
  BY <1>6, <1>7, <1>8, <1>11

(* An entry that is not replaced stays.                                     *)
LEMMA PutAllKeeps ==
    ASSUME NEW map, NEW entries, NEW k \in DOMAIN map, k \notin DOMAIN entries
    PROVE  k \in DOMAIN PutAll(map, entries) /\ PutAll(map, entries)[k] = map[k]
BY DEF PutAll

LEMMA PutAllGives ==
    ASSUME NEW map, NEW entries, NEW k \in DOMAIN entries
    PROVE  k \in DOMAIN PutAll(map, entries) /\ PutAll(map, entries)[k] = entries[k]
BY DEF PutAll

(* Whatever is pushed below the index table leaves the indices alone.       *)
LEMMA SetPushConstantsStep ==
    ASSUME IInv, NEW size \in {shader.constants, PushConstSize(shader)},
           SetPushConstants(size)
    PROVE  IInv'
<1> USE DEF IInv
<1> DEFINE pushed == Pushed(None, 0, size)
<1>1. /\ phase = "created" /\ size > 0 /\ constantsSet' = TRUE
      /\ pushData' = PutAll(pushData, pushed)
      /\ UNCHANGED <<limits, shader, phase, nextPushOffset, bindingMap, mappings>>
      /\ UNCHANGED <<pipelineVars, pipelineChanged, bindings, cursor, heap,
                     dispatches, reads>>
  BY DEF SetPushConstants, pipelineVars
<1>2. /\ size \in Nat /\ shader.constants <= size /\ size <= IndexTableOffset(shader)
      /\ IndexTableOffset(shader) \in Nat /\ shader.constants \in Nat
      /\ IndexTableOffset(shader) <= limits.maxPushDataSize
      /\ limits.maxPushDataSize \in Nat
  BY <1>1, DriverFacts, TableFits
<1>3. /\ DOMAIN pushed = Bytes(0, size)
      /\ \A o \in DOMAIN pushed :
           /\ o \in Nat /\ o < size
           /\ pushed[o] = [index |-> None, part |-> o]
  <2>1. pushed = [o \in Bytes(0, size) |-> [index |-> None, part |-> o - 0]]
    BY DEF Pushed
  <2>2. \A o \in Bytes(0, size) : o \in Nat /\ o < size /\ o - 0 = o
    BY <1>2, BytesFacts
  <2> QED
    BY <2>1, <2>2
<1> HIDE DEF pushed
<1>4. \A o \in DOMAIN pushed : pushed[o] \in PushedByte
  BY <1>3 DEF PushedByte
<1>5. pushed \in MapsOf(Nat, PushedByte)
  <2>1. pushed = [o \in DOMAIN pushed |-> pushed[o]]
    BY DEF pushed, Pushed
  <2>2. DOMAIN pushed \in SUBSET Nat
    BY <1>3
  <2> QED
    BY <1>4, <2>1, <2>2 DEF MapsOf
<1>6. Shape'
  <2>1. pushData' \in MapsOf(Nat, PushedByte)
    BY <1>1, <1>5, PutAllFacts DEF Shape
  <2> QED
    BY <1>1, <2>1 DEF Shape, TypeOK
<1>7. Layout' /\ SlotStride' = SlotStride
  BY <1>1, PipelineKept
<1>8. Fresh' /\ Descriptors' /\ ReadsFound'
  BY <1>1, <1>7 DEF Fresh, Descriptors, ReadsFound
<1>9. Constants'
  <2>1. ASSUME NEW o \in DOMAIN pushData'
        PROVE  /\ o < limits.maxPushDataSize
               /\ o < IndexTableOffset(shader) => pushData'[o] = [index |-> None, part |-> o]
    <3>1. CASE o \in DOMAIN pushed
      BY <1>1, <1>2, <1>3, <3>1, PutAllGives
    <3>2. CASE o \notin DOMAIN pushed
      <4>1. o \in DOMAIN pushData
        BY <1>1, <3>2 DEF PutAll
      <4> QED
        BY <1>1, <3>2, <4>1, PutAllKeeps DEF Constants
    <3> QED
      BY <3>1, <3>2
  <2>2. \A o \in Bytes(0, shader.constants) : o \in DOMAIN pushData'
    <3> TAKE o \in Bytes(0, shader.constants)
    <3>1. o \in Bytes(0, size)
      BY <1>2, BytesFacts
    <3> QED
      BY <1>1, <1>3, <3>1, PutAllGives
  <2> QED
    BY <1>1, <2>1, <2>2 DEF Constants
<1>10. CleanFound'
  <2> SUFFICES ASSUME NEW j \in DOMAIN mappings, NEW slot,
                      IndexAt(pushData, OffsetIn(shader, j), slot)
               PROVE  IndexAt(pushData', OffsetIn(shader, j), slot)
    BY <1>1, <1>7 DEF CleanFound
  <2> SUFFICES ASSUME NEW part \in Bytes(0, IndexSize)
               PROVE  OffsetIn(shader, j) + part \notin DOMAIN pushed
    BY <1>1, PutAllKeeps DEF IndexAt
  <2>1. IndexOffset(j) \in Nat /\ IndexTableOffset(shader) <= IndexOffset(j)
    BY <1>1, TableFits
  <2>2. part \in Nat
    BY BytesFacts DEF IndexSize
  <2> QED
    BY <1>2, <1>3, <2>1, <2>2 DEF IndexOffset
<1> QED
  BY <1>6, <1>7, <1>8, <1>9, <1>10

-----------------------------------------------------------------------------
(* What a dispatch writes *)

(* The bindings resolved get a slot each, from the cursor on.               *)
LEMMA ResolvedFacts ==
    ASSUME IInv
    PROVE  /\ Cardinality(Resolved) \in Nat
           /\ \A key \in Resolved :
               /\ key \in DOMAIN bindings
               /\ \E i \in DOMAIN mappings : key = mappings[i].key
               /\ SlotOf(key) \in Nat /\ cursor <= SlotOf(key)
               /\ SlotOf(key) < cursor + Cardinality(Resolved)
           /\ \A j, k \in Resolved : SlotOf(j) = SlotOf(k) => j = k
<1> USE DEF IInv
<1>1. Keys = {mappings[i].key : i \in DOMAIN mappings} /\ Keys \subseteq Nat \X Nat
  BY BindingFacts, LayoutFacts
<1>2. IsFiniteSet(Keys)
  <2> DEFINE n == Len(mappings)
             f == [i \in 1 .. n |-> mappings[i].key]
  <2>1. n \in Nat /\ DOMAIN mappings = 1 .. n
    BY LayoutFacts
  <2> HIDE DEF n
  <2>2. f \in Surjection(1 .. n, Keys)
    BY <1>1, <2>1 DEF Surjection
  <2> QED
    BY <2>1, <2>2, FS_NatSurjection DEF ExistsSurjection
<1>3. /\ IsFiniteSet(Resolved) /\ Resolved \subseteq Keys
      /\ \A key \in Resolved : key \in DOMAIN bindings
  BY <1>2, FS_Subset DEF Resolved
<1>4. Cardinality(Resolved) \in Nat /\ cursor \in Nat
  BY <1>3, FS_CardinalityType DEF Shape, TypeOK
<1> DEFINE S == Resolved
           Order == {p \in (Nat \X Nat) \X (Nat \X Nat) : Before(p[1], p[2])}
           rank(k) == Cardinality({j \in S : <<j, k>> \in Order})
<1>5. S \subseteq Nat \X Nat /\ IsFiniteSet(S)
  BY <1>1, <1>3
<1>6. \A j, k \in S : <<j, k>> \in Order <=> Before(j, k)
  BY <1>5
<1> HIDE DEF Order, S
<1>7. \A k \in S : SlotOf(k) = cursor + rank(k)
  <2> TAKE k \in S
  <2>1. {j \in S : Before(j, k)} = {j \in S : <<j, k>> \in Order}
    BY <1>6
  <2> QED
    BY <2>1 DEF SlotOf, S
<1>8. /\ \A k \in S : <<k, k>> \notin Order
      /\ \A i, j, k \in S : <<i, j>> \in Order /\ <<j, k>> \in Order => <<i, k>> \in Order
      /\ \A j, k \in S : j = k \/ <<j, k>> \in Order \/ <<k, j>> \in Order
  <2>1. \A k \in S : k[1] \in Nat /\ k[2] \in Nat /\ k = <<k[1], k[2]>>
    BY <1>5
  <2>2. \A k \in S : ~Before(k, k)
    BY <2>1 DEF Before
  <2>3. \A i, j, k \in S : Before(i, j) /\ Before(j, k) => Before(i, k)
    BY <2>1 DEF Before
  <2>4. \A j, k \in S : j = k \/ Before(j, k) \/ Before(k, j)
    BY <2>1 DEF Before
  <2> QED
    BY <1>6, <2>2, <2>3, <2>4
<1>9. /\ \A k \in S : rank(k) \in Nat /\ rank(k) < Cardinality(S)
      /\ \A j, k \in S : rank(j) = rank(k) => j = k
  BY <1>5, <1>8, OrderRanks
<1> HIDE DEF rank
<1>10. /\ \A k \in S : /\ SlotOf(k) \in Nat /\ cursor <= SlotOf(k)
                       /\ SlotOf(k) < cursor + Cardinality(S)
       /\ \A j, k \in S : SlotOf(j) = SlotOf(k) => j = k
  BY <1>4, <1>7, <1>9 DEF S
<1> QED
  BY <1>1, <1>3, <1>4, <1>10 DEF S

(* Two bindings share no byte of the push data.                             *)
LEMMA IndicesApart ==
    ASSUME Shape, Layout, NEW i \in DOMAIN mappings, NEW j \in DOMAIN mappings,
           NEW o \in Bytes(IndexOffset(i), IndexSize),
           o \in Bytes(IndexOffset(j), IndexSize)
    PROVE  i = j
<1>1. i \in Nat \ {0} /\ j \in Nat \ {0}
  BY LayoutFacts
<1>2. IndexOffset(i) \in Nat /\ IndexOffset(j) \in Nat
  BY <1>1, OffsetFacts
<1>3. /\ o \in Nat /\ IndexOffset(i) <= o /\ o < IndexOffset(i) + IndexSize
      /\ IndexOffset(j) <= o /\ o < IndexOffset(j) + IndexSize
  BY <1>2, BytesFacts DEF IndexSize
<1>4. /\ i < j => IndexOffset(i) + IndexSize <= IndexOffset(j)
      /\ j < i => IndexOffset(j) + IndexSize <= IndexOffset(i)
  BY <1>1, OffsetFacts
<1>5. ~(i < j) /\ ~(j < i)
  BY <1>2, <1>3, <1>4 DEF IndexSize
<1> QED
  BY <1>1, <1>5

(* The indices of the bindings resolved are pushed, and nothing else is.    *)
LEMMA IndexBytesFacts ==
    ASSUME IInv, phase = "created"
    PROVE  /\ IndexBytes \in MapsOf(Nat, PushedByte)
           /\ \A o \in DOMAIN IndexBytes :
                IndexTableOffset(shader) <= o /\ o < limits.maxPushDataSize
           /\ \A i \in DOMAIN mappings :
                IF mappings[i].key \in Resolved
                THEN IndexAt(IndexBytes, IndexOffset(i), SlotOf(mappings[i].key))
                ELSE \A part \in Bytes(0, IndexSize) :
                        IndexOffset(i) + part \notin DOMAIN IndexBytes
<1> USE DEF IInv
<1> DEFINE offset(k) == FindBinding(k).pushOffset
           bytes(k) == Bytes(offset(k), IndexSize)
           pick(o) == CHOOSE k \in Resolved : o \in bytes(k)
           all == UNION {bytes(k) : k \in Resolved}
<1>1. \A k \in Resolved : \E i \in DOMAIN mappings :
        k = mappings[i].key /\ offset(k) = IndexOffset(i)
  BY ResolvedFacts, BindingFacts
<1>2. \A i \in DOMAIN mappings : offset(mappings[i].key) = IndexOffset(i)
  BY BindingFacts
<1>3. \A o \in all : pick(o) \in Resolved /\ o \in bytes(pick(o))
  OBVIOUS
<1>4. IndexBytes = [o \in all |-> [index |-> SlotOf(pick(o)), part |-> o - offset(pick(o))]]
  BY DEF IndexBytes
<1>5. IndexSize \in Nat /\ IndexTableOffset(shader) \in Nat /\ limits.maxPushDataSize \in Nat
  BY DriverFacts DEF IndexSize
<1>6. ASSUME NEW i \in DOMAIN mappings, mappings[i].key \in Resolved,
             NEW o \in Bytes(IndexOffset(i), IndexSize)
      PROVE  o \in all /\ pick(o) = mappings[i].key
  <2>1. o \in all
    BY <1>2, <1>6
  <2>2. PICK j \in DOMAIN mappings :
            pick(o) = mappings[j].key /\ offset(pick(o)) = IndexOffset(j)
    BY <1>1, <1>3, <2>1
  <2>3. o \in Bytes(IndexOffset(j), IndexSize)
    BY <1>3, <2>1, <2>2
  <2>4. i = j
    BY <2>3, IndicesApart
  <2> QED
    BY <2>1, <2>2, <2>4
<1>7. ASSUME NEW o \in all
      PROVE  \E i \in DOMAIN mappings :
                /\ mappings[i].key = pick(o) /\ pick(o) \in Resolved
                /\ o \in Bytes(IndexOffset(i), IndexSize)
                /\ offset(pick(o)) = IndexOffset(i)
  BY <1>1, <1>3
<1> HIDE DEF offset, pick, all
<1>8. ASSUME NEW o \in DOMAIN IndexBytes
      PROVE  /\ o \in Nat /\ IndexTableOffset(shader) <= o /\ o < limits.maxPushDataSize
             /\ IndexBytes[o] \in PushedByte
  <2>1. o \in all
    BY <1>4
  <2>2. PICK i \in DOMAIN mappings :
            /\ pick(o) \in Resolved /\ o \in Bytes(IndexOffset(i), IndexSize)
            /\ offset(pick(o)) = IndexOffset(i)
    BY <1>7, <2>1
  <2>3. /\ IndexOffset(i) \in Nat /\ IndexTableOffset(shader) <= IndexOffset(i)
        /\ IndexOffset(i) + IndexSize <= limits.maxPushDataSize
    BY TableFits
  <2>4. /\ o \in Nat /\ IndexOffset(i) <= o /\ o < IndexOffset(i) + IndexSize
        /\ o - IndexOffset(i) \in Nat
    BY <1>5, <2>2, <2>3, BytesFacts
  <2>5. SlotOf(pick(o)) \in Nat
    BY <2>2, ResolvedFacts
  <2>6. IndexBytes[o] \in PushedByte
    BY <1>4, <2>1, <2>2, <2>4, <2>5 DEF PushedByte
  <2> QED
    BY <1>5, <2>3, <2>4, <2>6
<1>9. IndexBytes \in MapsOf(Nat, PushedByte)
  <2>1. IndexBytes = [o \in DOMAIN IndexBytes |-> IndexBytes[o]]
    BY <1>4
  <2>2. DOMAIN IndexBytes \in SUBSET Nat
    BY <1>8
  <2> HIDE DEF IInv
  <2> QED
    BY <1>8, <2>1, <2>2 DEF MapsOf
<1>10. ASSUME NEW i \in DOMAIN mappings, mappings[i].key \in Resolved
       PROVE  IndexAt(IndexBytes, IndexOffset(i), SlotOf(mappings[i].key))
  <2> SUFFICES ASSUME NEW part \in Bytes(0, IndexSize)
               PROVE  /\ IndexOffset(i) + part \in DOMAIN IndexBytes
                      /\ IndexBytes[IndexOffset(i) + part]
                            = [index |-> SlotOf(mappings[i].key), part |-> part]
    BY DEF IndexAt
  <2> DEFINE o == IndexOffset(i) + part
  <2>1. IndexOffset(i) \in Nat
    BY TableFits
  <2>2. o \in Bytes(IndexOffset(i), IndexSize) /\ part \in Nat
    BY <1>5, <2>1, BytesFacts
  <2>3. o - IndexOffset(i) = part
    BY <2>1, <2>2
  <2> HIDE DEF o
  <2>4. o \in all /\ pick(o) = mappings[i].key
    BY <1>6, <1>10, <2>2
  <2>5. offset(pick(o)) = IndexOffset(i)
    BY <1>2, <2>4
  <2>6. o \in DOMAIN IndexBytes
        /\ IndexBytes[o] = [index |-> SlotOf(mappings[i].key), part |-> part]
    BY <1>4, <2>3, <2>4, <2>5
  <2> QED
    BY <2>6 DEF o
<1>11. ASSUME NEW i \in DOMAIN mappings, mappings[i].key \notin Resolved,
              NEW part \in Bytes(0, IndexSize), IndexOffset(i) + part \in DOMAIN IndexBytes
       PROVE  FALSE
  <2> DEFINE o == IndexOffset(i) + part
  <2>1. o \in all
    BY <1>4, <1>11
  <2>2. o \in Bytes(IndexOffset(i), IndexSize)
    BY <1>5, TableFits, BytesFacts
  <2> HIDE DEF o
  <2>3. PICK j \in DOMAIN mappings :
            mappings[j].key \in Resolved /\ o \in Bytes(IndexOffset(j), IndexSize)
    BY <1>7, <2>1
  <2>4. i = j
    BY <2>2, <2>3, IndicesApart
  <2> QED
    BY <1>11, <2>3, <2>4
<1> QED
  BY <1>8, <1>9, <1>10, <1>11

(* The descriptors of the bindings resolved are written to their slots,     *)
(* which lie between the old cursor and the new one.                        *)
LEMMA DescriptorBytesFacts ==
    ASSUME IInv, phase = "created"
    PROVE  /\ DescriptorBytes \in MapsOf(Nat, DescriptorByte)
           /\ \A byte \in DOMAIN DescriptorBytes :
                /\ cursor * SlotStride <= byte
                /\ byte < (cursor + Cardinality(Resolved)) * SlotStride
                /\ 0 < limits.bufferDescriptorSize
           /\ \A key \in Resolved :
                DescriptorAt(DescriptorBytes, limits.bufferDescriptorSize,
                    SlotOf(key) * SlotStride, bindings[key].buffer, bindings[key].type)
<1> USE DEF IInv
<1> DEFINE size == limits.bufferDescriptorSize
           stride == SlotStride
           address(k) == DescriptorAddress(SlotOf(k))
           bytes(k) == Bytes(address(k), size)
           pick(x) == CHOOSE k \in Resolved : x \in bytes(k)
           all == UNION {bytes(k) : k \in Resolved}
           value(x) == [buffer |-> bindings[pick(x)].buffer,
                        type   |-> bindings[pick(x)].type,
                        part   |-> x - address(pick(x))]
           end == cursor + Cardinality(Resolved)
<1>1. \A x \in all : pick(x) \in Resolved /\ x \in bytes(pick(x))
  OBVIOUS
<1>2. DescriptorBytes = [x \in all |-> value(x)]
  BY DEF DescriptorBytes
<1>3. /\ size \in Nat /\ stride \in Nat /\ size <= stride /\ cursor \in Nat
      /\ end \in Nat
  BY DriverFacts, ResolvedFacts DEF Shape, TypeOK
<1>4. \A k \in Resolved : address(k) = SlotOf(k) * stride
  BY DEF DescriptorAddress
<1> HIDE DEF stride, size, address
<1>5. ASSUME NEW k \in Resolved
      PROVE  /\ address(k) \in Nat /\ cursor * stride \in Nat /\ end * stride \in Nat
             /\ cursor * stride <= address(k) /\ address(k) + stride <= end * stride
  <2>1. SlotOf(k) \in Nat /\ cursor <= SlotOf(k) /\ SlotOf(k) < end
    BY ResolvedFacts
  <2> HIDE DEF end
  <2>2. /\ SlotOf(k) * stride \in Nat /\ end * stride \in Nat
        /\ SlotOf(k) * stride + stride <= end * stride
    BY <1>3, <2>1, SlotsApart
  <2>3. cursor * stride \in Nat /\ cursor * stride <= SlotOf(k) * stride
    BY <1>3, <2>1, SlotsInOrder
  <2> QED
    BY <1>4, <2>2, <2>3
<1>6. ASSUME NEW k \in Resolved, NEW x \in bytes(k)
      PROVE  /\ x \in Nat /\ x - address(k) \in Nat
             /\ address(k) <= x /\ x < address(k) + size
             /\ cursor * stride <= x /\ x < end * stride /\ 0 < size
  <2>1. address(k) \in Nat
    BY <1>5
  <2>2. x \in Nat /\ address(k) <= x /\ x < address(k) + size
    BY <1>3, <2>1, BytesFacts
  <2> HIDE DEF bytes, end
  <2> QED
    BY <1>3, <1>5, <2>1, <2>2
<1>7. ASSUME NEW j \in Resolved, NEW k \in Resolved, NEW x \in bytes(j), x \in bytes(k),
             SlotOf(j) < SlotOf(k)
      PROVE  FALSE
  <2>1. SlotOf(j) \in Nat /\ SlotOf(k) \in Nat
    BY ResolvedFacts
  <2>2. address(j) + stride <= address(k)
    BY <1>3, <1>4, <1>7, <2>1, SlotsApart
  <2>3. x \in Nat /\ x < address(j) + size /\ address(k) <= x
    BY <1>6, <1>7
  <2> HIDE DEF bytes
  <2> QED
    BY <1>3, <1>5, <2>2, <2>3
<1>8. ASSUME NEW k \in Resolved, NEW x \in bytes(k)
      PROVE  x \in all /\ pick(x) = k
  <2>1. x \in all
    OBVIOUS
  <2>2. pick(x) \in Resolved /\ x \in bytes(pick(x))
    BY <1>1, <2>1
  <2> HIDE DEF pick, bytes, all
  <2>3. ~(SlotOf(k) < SlotOf(pick(x))) /\ ~(SlotOf(pick(x)) < SlotOf(k))
    BY <1>7, <1>8, <2>2
  <2>4. SlotOf(k) \in Nat /\ SlotOf(pick(x)) \in Nat
    BY <2>2, ResolvedFacts
  <2>5. SlotOf(k) = SlotOf(pick(x))
    BY <2>3, <2>4
  <2> QED
    BY <2>1, <2>2, <2>5, ResolvedFacts
<1> HIDE DEF pick, bytes, all, end
<1>9. ASSUME NEW x \in DOMAIN DescriptorBytes
      PROVE  /\ x \in Nat /\ cursor * stride <= x /\ x < end * stride /\ 0 < size
             /\ DescriptorBytes[x] \in DescriptorByte
  <2>1. x \in all
    BY <1>2
  <2>2. pick(x) \in Resolved /\ x \in bytes(pick(x))
    BY <1>1, <2>1
  <2>3. /\ x \in Nat /\ x - address(pick(x)) \in Nat
        /\ cursor * stride <= x /\ x < end * stride /\ 0 < size
    BY <1>6, <2>2
  <2>4. bindings[pick(x)] \in Bound
    BY <2>2, ResolvedFacts, MapFacts DEF Shape
  <2>5. value(x) \in DescriptorByte
    BY <2>3, <2>4 DEF Bound, DescriptorByte
  <2> QED
    BY <1>2, <2>1, <2>3, <2>5
<1>10. DescriptorBytes \in MapsOf(Nat, DescriptorByte)
  <2>1. DescriptorBytes = [x \in DOMAIN DescriptorBytes |-> DescriptorBytes[x]]
    BY <1>2
  <2>2. DOMAIN DescriptorBytes \in SUBSET Nat
    BY <1>9
  <2> HIDE DEF IInv
  <2> QED
    BY <1>9, <2>1, <2>2 DEF MapsOf
<1>11. ASSUME NEW k \in Resolved
       PROVE  DescriptorAt(DescriptorBytes, size, address(k), bindings[k].buffer,
                  bindings[k].type)
  <2> SUFFICES ASSUME NEW part \in Bytes(0, size)
               PROVE  /\ address(k) + part \in DOMAIN DescriptorBytes
                      /\ DescriptorBytes[address(k) + part]
                            = [buffer |-> bindings[k].buffer,
                               type |-> bindings[k].type, part |-> part]
    BY DEF DescriptorAt
  <2> DEFINE x == address(k) + part
  <2>1. address(k) \in Nat
    BY <1>5
  <2>2. x \in bytes(k) /\ part \in Nat
    BY <1>3, <2>1, BytesFacts DEF bytes
  <2>3. x - address(k) = part
    BY <2>1, <2>2
  <2> HIDE DEF x
  <2>4. x \in all /\ pick(x) = k
    BY <1>8, <2>2
  <2>5. /\ x \in DOMAIN DescriptorBytes
        /\ DescriptorBytes[x] = [buffer |-> bindings[k].buffer,
                                 type |-> bindings[k].type, part |-> part]
    BY <1>2, <2>3, <2>4
  <2> QED
    BY <2>5 DEF x
<1> QED
  BY <1>4, <1>9, <1>10, <1>11 DEF size, stride, end

-----------------------------------------------------------------------------
(* A dispatch *)

(* The descriptors it writes cover none that are there.                     *)
LEMMA DescriptorStays ==
    ASSUME IInv, Dispatch, NEW address, NEW b, NEW type,
           DescriptorAt(heap, limits.bufferDescriptorSize, address, b, type)
    PROVE  DescriptorAt(heap', limits.bufferDescriptorSize, address, b, type)
<1> USE DEF IInv
<1>1. phase = "created" /\ heap' = PutAll(heap, DescriptorBytes)
  BY DEF Dispatch
<1>2. cursor * SlotStride \in Nat
  BY DriverFacts DEF Shape, TypeOK
<1>3. \A byte \in DOMAIN heap : byte \in Nat /\ byte < cursor * SlotStride
  BY MapFacts DEF Shape, Descriptors
<1>4. \A byte \in DOMAIN DescriptorBytes : byte \in Nat /\ cursor * SlotStride <= byte
  BY <1>1, DescriptorBytesFacts, MapFacts
<1> DEFINE start == cursor * SlotStride
<1> HIDE DEF start, IInv
<1>5. \A byte \in DOMAIN heap : byte \notin DOMAIN DescriptorBytes
  BY <1>2, <1>3, <1>4 DEF start
<1> QED
  BY <1>1, <1>5, PutAllKeeps DEF DescriptorAt

(* Every binding leads to its descriptor: it was resolved now, or both its  *)
(* index and its descriptor are still there.                                *)
LEMMA BindingFound ==
    ASSUME IInv, Dispatch, NEW i \in DOMAIN mappings
    PROVE  \E slot \in 0 .. cursor' - 1 :
             /\ IndexAt(pushData', OffsetIn(shader, i), slot)
             /\ DescriptorAt(heap', limits.bufferDescriptorSize, slot * SlotStride,
                    bindings[mappings[i].key].buffer, bindings[mappings[i].key].type)
<1> USE DEF IInv
<1> DEFINE key == mappings[i].key
<1>1. /\ phase = "created" /\ Keys \subseteq DOMAIN bindings
      /\ pushData' = PutAll(pushData, IndexBytes)
      /\ heap' = PutAll(heap, DescriptorBytes)
      /\ cursor' = cursor + Cardinality(Resolved)
  BY DEF Dispatch
<1>2. key \in Keys /\ key \in DOMAIN bindings
  BY <1>1, BindingFacts
<1>3. cursor \in Nat /\ cursor' \in Nat /\ cursor <= cursor'
  BY <1>1, ResolvedFacts DEF Shape, TypeOK
<1>4. CASE key \in Resolved
  <2>1. SlotOf(key) \in 0 .. cursor' - 1
    <3>1. SlotOf(key) \in Nat /\ SlotOf(key) < cursor'
      BY <1>1, <1>4, ResolvedFacts
    <3> HIDE DEF IInv, key
    <3> QED
      BY <1>3, <3>1
  <2>2. IndexAt(IndexBytes, OffsetIn(shader, i), SlotOf(key))
    BY <1>1, <1>4, IndexBytesFacts DEF IndexOffset
  <2>3. DescriptorAt(DescriptorBytes, limits.bufferDescriptorSize,
            SlotOf(key) * SlotStride, bindings[key].buffer, bindings[key].type)
    BY <1>1, <1>4, DescriptorBytesFacts
  <2> HIDE DEF IInv
  <2>4. IndexAt(pushData', OffsetIn(shader, i), SlotOf(key))
    BY <1>1, <2>2, PutAllGives DEF IndexAt
  <2>5. DescriptorAt(heap', limits.bufferDescriptorSize, SlotOf(key) * SlotStride,
            bindings[key].buffer, bindings[key].type)
    BY <1>1, <2>3, PutAllGives DEF DescriptorAt
  <2> QED
    BY <2>1, <2>4, <2>5
<1>5. CASE key \notin Resolved
  <2>1. ~bindings[key].dirty /\ ~pipelineChanged
    BY <1>2, <1>5 DEF Resolved
  <2>2. PICK slot \in 0 .. cursor - 1 :
            /\ IndexAt(pushData, OffsetIn(shader, i), slot)
            /\ DescriptorAt(heap, limits.bufferDescriptorSize, slot * SlotStride,
                   bindings[key].buffer, bindings[key].type)
    BY <1>2, <2>1 DEF CleanFound
  <2>3. slot \in 0 .. cursor' - 1
    <3>1. \A m, n \in Nat : m <= n => 0 .. m - 1 \subseteq 0 .. n - 1
      OBVIOUS
    <3> QED
      BY <1>3, <3>1
  <2>4. DescriptorAt(heap', limits.bufferDescriptorSize, slot * SlotStride,
            bindings[key].buffer, bindings[key].type)
    BY <2>2, DescriptorStays
  <2>5. \A part \in Bytes(0, IndexSize) : OffsetIn(shader, i) + part \notin DOMAIN IndexBytes
    BY <1>1, <1>5, IndexBytesFacts DEF IndexOffset
  <2>6. IndexAt(pushData', OffsetIn(shader, i), slot)
    BY <1>1, <2>2, <2>5, PutAllKeeps DEF IndexAt
  <2> QED
    BY <2>3, <2>4, <2>6
<1> QED
  BY <1>4, <1>5

(* What the shader then reads is what was bound.                            *)
LEMMA ReadFound ==
    ASSUME IInv, Dispatch, NEW i \in DOMAIN mappings
    PROVE  LET read == ShaderRead(mappings[i], pushData')
           IN  /\ read.address \in Nat
               /\ \E type \in Kinds :
                    DescriptorAt(heap', limits.bufferDescriptorSize, read.address,
                        read.buffer, type)
<1> USE DEF IInv
<1> DEFINE key == mappings[i].key
           read == ShaderRead(mappings[i], pushData')
           offset == mappings[i].pushOffset
<1>1. PICK slot \in 0 .. cursor' - 1 :
          /\ IndexAt(pushData', OffsetIn(shader, i), slot)
          /\ DescriptorAt(heap', limits.bufferDescriptorSize, slot * SlotStride,
                 bindings[key].buffer, bindings[key].type)
  BY BindingFound
<1>2. slot \in Nat /\ slot # None
  BY <1>1, DescriptorLayoutAssumption
<1>3. /\ offset = OffsetIn(shader, i) /\ offset \in Nat
      /\ mappings[i].heapIndexStride = SlotStride
  <2>1. /\ offset = IndexOffset(i) /\ i \in Nat \ {0}
        /\ mappings[i].heapIndexStride = SlotStride
    BY LayoutFacts
  <2>2. IndexOffset(i) \in Nat
    BY <2>1, OffsetFacts
  <2> QED
    BY <2>1, <2>2 DEF IndexOffset
<1>4. /\ key \in DOMAIN bindings
      /\ bindings[key] \in Bound
  <2>1. key \in DOMAIN bindings
    BY BindingFacts DEF Dispatch
  <2> QED
    BY <2>1, MapFacts DEF Shape
<1>6. slot * SlotStride \in Nat
  BY <1>2, DriverFacts
<1> HIDE DEF IInv, offset
<1>7. 0 \in Bytes(0, IndexSize) /\ offset + 0 = offset
  BY <1>3 DEF Bytes, IndexSize
<1>8. pushData'[offset].index = slot
  <2>1. pushData'[offset + 0] = [index |-> slot, part |-> 0]
    BY <1>1, <1>3, <1>7 DEF IndexAt
  <2> QED
    BY <1>7, <2>1
<1>9. /\ read.address = slot * SlotStride
      /\ read.type = mappings[i].type /\ read.buffer = bindings[key].buffer
  BY <1>1, <1>2, <1>3, <1>8 DEF ShaderRead, IndexAt, offset
<1>10. bindings[key].type \in Kinds
  BY <1>4 DEF Bound
<1> QED
  BY <1>1, <1>6, <1>9, <1>10

LEMMA DispatchStep == IInv /\ Dispatch => IInv'
<1> SUFFICES ASSUME IInv, Dispatch PROVE IInv'
  OBVIOUS
<1> USE DEF IInv
<1>1. /\ phase = "created" /\ Keys \subseteq DOMAIN bindings
      /\ dispatches < MaxDispatches /\ dispatches' = dispatches + 1
      /\ cursor + Cardinality(Resolved) <= ChunkSlots
      /\ cursor' = cursor + Cardinality(Resolved)
      /\ pushData' = PutAll(pushData, IndexBytes)
      /\ heap' = PutAll(heap, DescriptorBytes)
      /\ pipelineChanged' = FALSE
      /\ UNCHANGED <<pipelineVars, constantsSet>>
  BY DEF Dispatch
<1>2. bindings' = [key \in DOMAIN bindings |-> [bindings[key] EXCEPT !.dirty = FALSE]]
  BY DEF Dispatch
<1>3. reads' = reads \cup {ShaderRead(mappings[k], pushData') : k \in DOMAIN mappings}
  BY DEF Dispatch
<1>4. UNCHANGED <<limits, shader, phase, nextPushOffset, bindingMap, mappings>>
  BY <1>1 DEF pipelineVars
<1>5. Layout' /\ SlotStride' = SlotStride
  BY <1>1, PipelineKept
<1>6. /\ DOMAIN bindings' = DOMAIN bindings
      /\ \A key \in DOMAIN bindings :
          /\ bindings[key] \in Bound /\ bindings'[key] \in Bound
          /\ bindings'[key].buffer = bindings[key].buffer
          /\ bindings'[key].type = bindings[key].type
  <2>1. \A key \in DOMAIN bindings : bindings[key] \in Bound
    BY MapFacts DEF Shape
  <2> QED
    BY <1>2, <2>1 DEF Bound
<1>7. bindings' \in MapsOf(Nat \X Nat, Bound)
  <2>1. bindings' = [key \in DOMAIN bindings' |-> bindings'[key]]
    BY <1>2
  <2>2. DOMAIN bindings' \in SUBSET (Nat \X Nat)
    BY <1>6, MapFacts DEF Shape
  <2> HIDE DEF IInv
  <2> QED
    BY <1>6, <2>1, <2>2 DEF MapsOf
<1>8. cursor \in Nat /\ cursor' \in 0 .. ChunkSlots /\ cursor' \in Nat /\ cursor <= cursor'
  BY <1>1, ResolvedFacts DEF Shape, TypeOK
<1>9. Shape'
  <2>1. heap' \in MapsOf(Nat, DescriptorByte)
    BY <1>1, DescriptorBytesFacts, PutAllFacts DEF Shape
  <2>2. pushData' \in MapsOf(Nat, PushedByte)
    BY <1>1, IndexBytesFacts, PutAllFacts DEF Shape
  <2>3. dispatches' \in 0 .. MaxDispatches
    BY <1>1, DescriptorLayoutAssumption DEF Shape, TypeOK
  <2>4. \A key \in DOMAIN bindings' : bindings'[key].buffer \in Buffers
    BY <1>6 DEF Bound
  <2>5. TypeOK'
    BY <1>1, <1>4, <1>8, <2>3, <2>4 DEF Shape, TypeOK
  <2> QED
    BY <1>7, <2>1, <2>2, <2>5 DEF Shape
<1>10. Fresh'
  BY <1>1, <1>4 DEF Fresh
<1>11. Constants'
  <2>1. \A o \in DOMAIN IndexBytes :
          o \in Nat /\ IndexTableOffset(shader) <= o /\ o < limits.maxPushDataSize
    BY <1>1, IndexBytesFacts, MapFacts
  <2>2. IndexTableOffset(shader) \in Nat
    BY DriverFacts
  <2>3. ASSUME NEW o \in DOMAIN pushData'
        PROVE  /\ o < limits.maxPushDataSize
               /\ o < IndexTableOffset(shader) => pushData'[o] = [index |-> None, part |-> o]
    <3>1. CASE o \in DOMAIN IndexBytes
      BY <2>1, <2>2, <3>1
    <3>2. CASE o \notin DOMAIN IndexBytes
      <4>1. o \in DOMAIN pushData /\ pushData'[o] = pushData[o]
        BY <1>1, <2>3, <3>2 DEF PutAll
      <4> QED
        BY <4>1 DEF Constants
    <3> QED
      BY <3>1, <3>2
  <2>4. DOMAIN pushData \subseteq DOMAIN pushData'
    BY <1>1 DEF PutAll
  <2> QED
    BY <1>1, <1>4, <2>3, <2>4 DEF Constants
<1>12. Descriptors'
  <2>1. /\ cursor * SlotStride \in Nat /\ cursor' * SlotStride \in Nat
        /\ cursor * SlotStride <= cursor' * SlotStride
    BY <1>8, DriverFacts, SlotsInOrder
  <2>2. \A byte \in DOMAIN heap :
          byte \in Nat /\ byte < cursor * SlotStride /\ 0 < limits.bufferDescriptorSize
    BY MapFacts DEF Shape, Descriptors
  <2>3. \A byte \in DOMAIN DescriptorBytes :
          byte < cursor' * SlotStride /\ 0 < limits.bufferDescriptorSize
    BY <1>1, DescriptorBytesFacts
  <2> DEFINE start == cursor * SlotStride
             end == cursor' * SlotStride
  <2> HIDE DEF IInv, start, end
  <2>4. \A byte \in DOMAIN heap : byte < end /\ 0 < limits.bufferDescriptorSize
    BY <2>1, <2>2 DEF start, end
  <2>5. DOMAIN heap' = DOMAIN heap \cup DOMAIN DescriptorBytes
    BY <1>1 DEF PutAll
  <2> QED
    BY <1>4, <1>5, <2>3, <2>4, <2>5 DEF Descriptors, end
<1>13. CleanFound'
  <2> SUFFICES ASSUME NEW i \in DOMAIN mappings, mappings[i].key \in DOMAIN bindings'
               PROVE  \E slot \in 0 .. cursor' - 1 :
                        /\ IndexAt(pushData', OffsetIn(shader, i), slot)
                        /\ DescriptorAt(heap', limits.bufferDescriptorSize,
                               slot * SlotStride, bindings'[mappings[i].key].buffer,
                               bindings'[mappings[i].key].type)
    BY <1>4, <1>5 DEF CleanFound
  <2>1. /\ bindings'[mappings[i].key].buffer = bindings[mappings[i].key].buffer
        /\ bindings'[mappings[i].key].type = bindings[mappings[i].key].type
    BY <1>6
  <2> QED
    BY <2>1, BindingFound
<1>14. ReadsFound'
  <2> SUFFICES ASSUME NEW read \in reads'
               PROVE  /\ read.address \in Nat
                      /\ \E type \in Kinds :
                          DescriptorAt(heap', limits.bufferDescriptorSize,
                              read.address, read.buffer, type)
    BY <1>4 DEF ReadsFound
  <2>1. CASE read \in reads
    BY <2>1, DescriptorStays DEF ReadsFound
  <2>2. CASE read \notin reads
    <3>1. PICK i \in DOMAIN mappings : read = ShaderRead(mappings[i], pushData')
      BY <1>3, <2>2
    <3> QED
      BY <3>1, ReadFound
  <2> QED
    BY <2>1, <2>2
<1> QED
  BY <1>5, <1>9, <1>10, <1>11, <1>12, <1>13, <1>14

-----------------------------------------------------------------------------
(* The theorems *)

LEMMA StutterStep == ASSUME IInv, UNCHANGED vars PROVE IInv'
<1>1. /\ UNCHANGED pipelineVars /\ UNCHANGED listVars
      /\ UNCHANGED <<limits, shader, phase, nextPushOffset, bindingMap, mappings>>
      /\ UNCHANGED <<bindings, pipelineChanged, cursor, heap, pushData, constantsSet,
                     dispatches, reads>>
  BY DEF vars, pipelineVars, listVars
<1>2. Layout' /\ SlotStride' = SlotStride
  BY <1>1, PipelineKept DEF IInv
<1>3. Shape'
  BY <1>1 DEF IInv, Shape, TypeOK
<1>4. Fresh' /\ Constants' /\ Descriptors'
  BY <1>1, <1>2 DEF IInv, Fresh, Constants, Descriptors
<1>5. CleanFound' /\ ReadsFound'
  BY <1>1, <1>2 DEF IInv, CleanFound, ReadsFound
<1> QED
  BY <1>2, <1>3, <1>4, <1>5 DEF IInv

LEMMA NextStep == IInv /\ [Next]_vars => IInv'
<1> SUFFICES ASSUME IInv, [Next]_vars PROVE IInv'
  OBVIOUS
<1>1. CASE ReserveIndexTable
  BY <1>1, ReserveStep
<1>2. CASE MapBinding
  BY <1>2, MapBindingStep
<1>3. CASE PipelineCreated
  BY <1>3, CreatedStep
<1>4. CASE \E i \in DOMAIN Reflected(shader), b \in Buffers : BindBuffer(Reflected(shader)[i], b)
  BY <1>4, BindBufferStep
<1>5. CASE \E size \in {shader.constants, PushConstSize(shader)} : SetPushConstants(size)
  BY <1>5, SetPushConstantsStep
<1>6. CASE Dispatch
  BY <1>6, DispatchStep
<1>7. CASE UNCHANGED vars
  BY <1>7, StutterStep
<1> QED
  BY <1>1, <1>2, <1>3, <1>4, <1>5, <1>6, <1>7 DEF Next

THEOREM Inductive == Spec => []IInv
BY InitIInv, NextStep, PTL DEF Spec

(* Neither the counters nor the tables leave their bounds: in a debug build *)
(* the index table a pipeline was created with fits in the push data of the *)
(* driver, since the assertion of device.cpp:218 ends the creation of any   *)
(* other; a release build does not check it.                                *)
THEOREM TypeCorrect == Spec => []TypeOK
<1>1. IInv => TypeOK
  BY DEF IInv, Shape
<1> QED
  BY <1>1, Inductive, PTL

(* Whatever the driver reports and whatever the shader declares, the shader *)
(* finds the descriptor of the buffer that was bound for it: the offsets of *)
(* device.cpp:229-266, the strides of descriptor_heap_backend.cpp and what  *)
(* command_list.cpp:156-182 writes agree.                                   *)
THEOREM ShadersFindDescriptors == Spec => []ShaderFindsDescriptors
<1>1. ASSUME IInv PROVE ShaderFindsDescriptors
  <2>1. ASSUME NEW read \in reads
        PROVE  /\ read.address \in Nat
               /\ \A part \in Bytes(0, limits.bufferDescriptorSize) :
                    /\ read.address + part \in DOMAIN heap
                    /\ heap[read.address + part].buffer = read.buffer
                    /\ heap[read.address + part].part = part
    <3>1. read.address \in Nat
      BY <1>1 DEF IInv, ReadsFound
    <3>2. PICK type \in Kinds :
            DescriptorAt(heap, limits.bufferDescriptorSize, read.address, read.buffer, type)
      BY <1>1 DEF IInv, ReadsFound
    <3>3. \A part \in Bytes(0, limits.bufferDescriptorSize) :
            /\ read.address + part \in DOMAIN heap
            /\ heap[read.address + part]
                  = [buffer |-> read.buffer, type |-> type, part |-> part]
      BY <3>2 DEF DescriptorAt
    <3>4. ASSUME NEW part \in Bytes(0, limits.bufferDescriptorSize)
          PROVE  /\ heap[read.address + part].buffer = read.buffer
                 /\ heap[read.address + part].part = part
      <4>1. heap[read.address + part]
                = [buffer |-> read.buffer, type |-> type, part |-> part]
        BY <3>3
      <4> QED
        BY <4>1
    <3> QED
      BY <3>1, <3>3, <3>4
  <2>2. \A read \in reads : read.address # None
    BY <2>1, DescriptorLayoutAssumption
  <2> QED
    BY <2>1, <2>2 DEF ShaderFindsDescriptors
<1> QED
  BY <1>1, Inductive, PTL

(* The indices a dispatch pushes never touch the push constants             *)
(* (command_list.cpp:177-181 against 201-206).                              *)
THEOREM ConstantsStay == Spec => []ConstantsKept
<1>1. ASSUME IInv PROVE ConstantsKept
  <2> SUFFICES ASSUME constantsSet, NEW o \in Bytes(0, shader.constants)
               PROVE  pushData[o] = [index |-> None, part |-> o]
    BY DEF ConstantsKept
  <2>1. /\ shader.constants \in Nat /\ IndexTableOffset(shader) \in Nat
        /\ shader.constants <= IndexTableOffset(shader)
    BY <1>1, DriverFacts DEF IInv
  <2>2. o \in Nat /\ o < shader.constants
    BY <2>1, BytesFacts
  <2>3. o < IndexTableOffset(shader)
    BY <2>1, <2>2
  <2> QED
    BY <1>1, <2>3 DEF IInv, Constants
<1> QED
  BY <1>1, Inductive, PTL

(* What CommandList assumes of a pipeline's push data (PushLayout) is what  *)
(* createComputePipeline computes (device.cpp:217, 229-239).                *)
THEOREM IndicesLieApart == Spec => []LayoutApart
<1>1. ASSUME IInv PROVE LayoutApart
  <2>1. /\ DOMAIN bindingMap = DOMAIN mappings
        /\ \A i \in DOMAIN mappings : bindingMap[i].pushOffset = IndexOffset(i)
    BY <1>1, LayoutFacts DEF IInv
  <2>2. /\ PushConstSize(shader) \in Nat /\ IndexTableOffset(shader) \in Nat
        /\ PushConstSize(shader) <= IndexTableOffset(shader) /\ IndexSize \in Nat
    BY <1>1, DriverFacts DEF IInv, IndexSize
  <2>3. ASSUME NEW i \in DOMAIN mappings,
               NEW o \in Bytes(IndexOffset(i), IndexSize), o \in Bytes(0, PushConstSize(shader))
        PROVE  FALSE
    <3>1. IndexOffset(i) \in Nat /\ IndexTableOffset(shader) <= IndexOffset(i)
      BY <1>1, LayoutFacts, OffsetFacts DEF IInv
    <3>2. o \in Nat /\ IndexOffset(i) <= o /\ o < PushConstSize(shader)
      BY <2>2, <2>3, <3>1, BytesFacts
    <3> QED
      BY <2>2, <3>1, <3>2
  <2>4. \A i, j \in DOMAIN mappings : i # j =>
            Bytes(IndexOffset(i), IndexSize) \cap Bytes(IndexOffset(j), IndexSize) = {}
    BY <1>1, IndicesApart DEF IInv
  <2> QED
    BY <2>1, <2>3, <2>4 DEF LayoutApart
<1> QED
  BY <1>1, Inductive, PTL

(* Nothing is pushed beyond what the driver has room for, and no descriptor *)
(* is written into the range of a chunk that is the driver's own            *)
(* (descriptor_heap_backend.cpp:44-48).  For what is pushed this is so in   *)
(* debug builds only (device.cpp:218).                                      *)
THEOREM EverythingFits == Spec => []WithinLimits
<1>1. ASSUME IInv PROVE WithinLimits
  <2>1. \A o \in DOMAIN pushData : o < limits.maxPushDataSize
    BY <1>1 DEF IInv, Constants
  <2> DEFINE used == cursor * SlotStride
             room == ChunkSlots * SlotStride
  <2>2. used \in Nat /\ room \in Nat /\ used <= room
    <3>1. cursor \in Nat /\ ChunkSlots \in Nat /\ cursor <= ChunkSlots /\ SlotStride \in Nat
      BY <1>1, DriverFacts, DescriptorLayoutAssumption DEF IInv, Shape, TypeOK
    <3> QED
      BY <3>1, SlotsInOrder
  <2>3. \A byte \in DOMAIN heap : byte \in Nat /\ byte < used
    BY <1>1, MapFacts DEF IInv, Shape, Descriptors
  <2> HIDE DEF used, room
  <2>4. ReservedRangeOffset \in Nat /\ room <= ReservedRangeOffset
    BY <1>1, <2>2, DriverFacts, AlignUpFacts DEF IInv, ReservedRangeOffset, room
  <2>5. \A byte \in DOMAIN heap : byte < ReservedRangeOffset
    BY <2>2, <2>3, <2>4
  <2> QED
    BY <2>1, <2>5 DEF WithinLimits
<1> QED
  BY <1>1, Inductive, PTL

(* What the assumption PushLayout of CommandList says of the constants      *)
(* PushOffset and PushConstants of a pipeline, said of a pipeline that      *)
(* createComputePipeline has made: findBinding gives each binding an offset *)
(* of its own, outside the push constants (pipeline.cpp:47-54).             *)
PushLayoutMade ==
    LET PushOffset == [key \in Keys |-> FindBinding(key).pushOffset]
        PushConstants == Bytes(0, PushConstSize(shader))
    IN  /\ IsInjective(PushOffset)
        /\ Range(PushOffset) \cap PushConstants = {}

(* CommandList may assume of every pipeline what it does.                   *)
THEOREM PipelinesAreAsAssumed == Spec => []PushLayoutMade
<1>1. ASSUME IInv PROVE PushLayoutMade
  <2> DEFINE offset == [key \in Keys |-> FindBinding(key).pushOffset]
  <2>1. \A key \in Keys : \E i \in DOMAIN mappings :
            key = mappings[i].key /\ offset[key] = IndexOffset(i)
    BY <1>1, BindingFacts DEF IInv
  <2>2. \A i \in DOMAIN mappings : i \in Nat \ {0}
    BY <1>1, LayoutFacts DEF IInv
  <2>3. IsInjective(offset)
    <3> SUFFICES ASSUME NEW j \in Keys, NEW k \in Keys, offset[j] = offset[k]
                 PROVE  j = k
      BY DEF IsInjective
    <3>1. PICK a \in DOMAIN mappings : j = mappings[a].key /\ offset[j] = IndexOffset(a)
      BY <2>1
    <3>2. PICK b \in DOMAIN mappings : k = mappings[b].key /\ offset[k] = IndexOffset(b)
      BY <2>1
    <3> HIDE DEF offset
    <3>3. a = b
      <4>1. a \in Nat \ {0} /\ b \in Nat \ {0} /\ IndexOffset(a) = IndexOffset(b)
        BY <2>2, <3>1, <3>2
      <4>2. /\ IndexOffset(a) \in Nat /\ IndexOffset(b) \in Nat
            /\ a < b => IndexOffset(a) + IndexSize <= IndexOffset(b)
            /\ b < a => IndexOffset(b) + IndexSize <= IndexOffset(a)
        BY <1>1, <4>1, OffsetFacts DEF IInv
      <4> QED
        BY <4>1, <4>2 DEF IndexSize
    <3> QED
      BY <3>1, <3>2, <3>3
  <2>4. ASSUME NEW key \in Keys PROVE offset[key] \notin Bytes(0, PushConstSize(shader))
    <3>1. PICK i \in DOMAIN mappings : offset[key] = IndexOffset(i)
      BY <2>1
    <3>2. IndexOffset(i) \in Nat /\ IndexTableOffset(shader) <= IndexOffset(i)
      BY <1>1, <2>2, OffsetFacts DEF IInv
    <3>3. /\ PushConstSize(shader) \in Nat /\ IndexTableOffset(shader) \in Nat
          /\ PushConstSize(shader) <= IndexTableOffset(shader)
      BY <1>1, DriverFacts DEF IInv
    <3> HIDE DEF offset
    <3>4. \A x \in Bytes(0, PushConstSize(shader)) : x < PushConstSize(shader)
      BY <3>3, BytesFacts
    <3> QED
      BY <3>1, <3>2, <3>3, <3>4
  <2> QED
    BY <2>3, <2>4 DEF PushLayoutMade, Range
<1> QED
  BY <1>1, Inductive, PTL
=============================================================================
