-------------------------- MODULE DescriptorLayout --------------------------
(***************************************************************************)
(* How a shader finds its buffers, byte by byte.  Device::createCompute-    *)
(* Pipeline (src/src/device.cpp) decides where in the push data the index   *)
(* of each binding lies; descriptor_heap_backend.cpp decides where in a     *)
(* chunk the descriptor with that index lies; a dispatch writes both.  What *)
(* the shader goes by is another description of the same layout, the        *)
(* mappings given to the driver.                                            *)
(*                                                                          *)
(* One pipeline, one command list and one chunk, which is large enough: the *)
(* life of chunks, lists and pipelines is module CommandList, for which     *)
(* the layout computed here is an assumption (PushLayout).                  *)
(***************************************************************************)
EXTENDS Naturals, SequencesExt, FiniteSetsExt, Maps

CONSTANTS
    Shaders,                  \* shaders: the bytes of their push constants
                              \* and, by set, their bindings
    Limits,                   \* what drivers report (HeapLimits)
    Buffers,
    Usage,                    \* of each buffer: its BufferUsage for shaders
    ChunkSlots,               \* kDefaultChunkSlots; bound: all a list needs
    MaxDispatches,            \* bound
    None

(* The variables of a shader, in the order of the loops over the sets and   *)
(* their bindings.                                                          *)
Reflected(s) ==
    FlattenSeq([i \in DOMAIN s.sets |->
        [j \in DOMAIN s.sets[i].bindings |->
            [key  |-> <<s.sets[i].set, s.sets[i].bindings[j].binding>>,
             type |-> s.sets[i].bindings[j].type]]])

(* A variable is declared at a set and a binding, as one of two kinds.      *)
Variable == [key : Nat \X Nat, type : {"storage", "uniform"}]

(* Two variables of a shader may be declared at the same set and binding;   *)
(* reflection then reports both.  findBinding knows only the first, so the  *)
(* index of the second is never pushed: such shaders are left out.          *)
ASSUME DescriptorLayoutAssumption ==
    /\ Usage \in [Buffers -> (SUBSET {"storage", "uniform"}) \ {{}}]
    /\ \A s \in Shaders :
        /\ s.constants \in Nat
        /\ Reflected(s) \in Seq(Variable)
        /\ \A i, j \in DOMAIN Reflected(s) :
            Reflected(s)[i].key = Reflected(s)[j].key => i = j
    /\ Limits \subseteq [bufferDescriptorSize : Nat, bufferDescriptorAlignment : Nat,
                         resourceHeapAlignment : Nat, maxPushDataSize : Nat]
    /\ ChunkSlots \in Nat /\ MaxDispatches \in Nat
    /\ None \notin Nat

VARIABLES
    limits, shader,           \* the driver and the shader
    phase,                    \* of the pipeline: reflected, mapping, created
    nextPushOffset,
    bindingMap,               \* ComputePipeline::m_bindingMap
    mappings,                 \* what the driver is told
    bindings,                 \* CommandList::m_bindings, with the buffers
    pipelineChanged,
    cursor,                   \* of the chunk
    heap,                     \* the bytes written to the chunk
    pushData,                 \* the bytes pushed
    constantsSet,
    dispatches,
    reads                     \* what the dispatches will read

pipelineVars == <<limits, shader, phase, nextPushOffset, bindingMap, mappings>>
listVars == <<bindings, pipelineChanged, cursor, heap, pushData, constantsSet,
              dispatches, reads>>
vars == <<pipelineVars, listVars>>

TypeOK ==
    /\ limits \in Limits /\ shader \in Shaders
    /\ phase \in {"reflected", "mapping", "created", "aborted"}
    /\ nextPushOffset \in Nat
    /\ phase = "created" => nextPushOffset <= limits.maxPushDataSize
    /\ Len(bindingMap) = Len(mappings)
    /\ Len(mappings) <= Len(Reflected(shader))
    /\ \A key \in DOMAIN bindings : bindings[key].buffer \in Buffers
    /\ pipelineChanged \in BOOLEAN /\ constantsSet \in BOOLEAN
    /\ cursor \in 0 .. ChunkSlots
    /\ dispatches \in 0 .. MaxDispatches

Init ==
    /\ limits \in Limits /\ shader \in Shaders
    /\ phase = "reflected"
    /\ nextPushOffset = 0
    /\ bindingMap = <<>> /\ mappings = <<>>
    /\ bindings = <<>> /\ pipelineChanged = TRUE
    /\ cursor = 0 /\ heap = <<>> /\ pushData = <<>> /\ constantsSet = FALSE
    /\ dispatches = 0 /\ reads = {}

-----------------------------------------------------------------------------
(* createComputePipeline *)

AlignUp(value, alignment) ==
    IF alignment = 0 THEN value
    ELSE ((value + alignment - 1) \div alignment) * alignment

Bytes(first, size) == first .. first + size - 1

(* External: spirv-reflect rounds the size of a block up to 16 bytes. *)
PushConstSize(s) == AlignUp(s.constants, 16)

IndexSize == 4                \* sizeof(uint32_t)

(* Faulty variant: the index table begins behind the last member. *)
IndexTableOffset_Unrounded(s) == AlignUp(s.constants, 4)

(* Faulty variant: the push constants are not counted. *)
IndexTableOffset_First(s) == 0

IndexTableOffset(s) == AlignUp(PushConstSize(s), 4)

(* Faulty variant: one index for each set. *)
BindingCount_Sets(s) == Len(s.sets)

BindingCount(s) == Len(Reflected(s))

Fits(s) ==
    IndexTableOffset(s) + BindingCount(s) * IndexSize <= limits.maxPushDataSize

(* The assertion that the index table fits: a debug build ends here when it *)
(* does not, a release build, which has no assertions (utils.h:6), goes on  *)
(* and is not modelled then.                                                *)
ReserveIndexTable ==
    /\ phase = "reflected"
    /\ phase' = IF Fits(shader) THEN "mapping" ELSE "aborted"
    /\ nextPushOffset' = IndexTableOffset(shader)
    /\ UNCHANGED <<limits, shader, bindingMap, mappings, listVars>>

SlotStride ==
    AlignUp(limits.bufferDescriptorSize, limits.bufferDescriptorAlignment)

(* Faulty variant: the driver is told the size of a descriptor. *)
MappingOf_Unaligned(var, pushOffset) ==
    [key |-> var.key, pushOffset |-> pushOffset, type |-> var.type,
     heapIndexStride |-> limits.bufferDescriptorSize]

(* The resource mask admits the kind of buffer the shader declares. *)
MappingOf(var, pushOffset) ==
    [key |-> var.key, pushOffset |-> pushOffset, type |-> var.type,
     heapIndexStride |-> SlotStride]

(* One turn of the inner loop. *)
MapBinding ==
    /\ phase = "mapping"
    /\ Len(mappings) < Len(Reflected(shader))
    /\ LET var == Reflected(shader)[Len(mappings) + 1]
       IN  /\ bindingMap' = Append(bindingMap,
                  [key |-> var.key, pushOffset |-> nextPushOffset])
           /\ mappings' = Append(mappings, MappingOf(var, nextPushOffset))
    /\ nextPushOffset' = nextPushOffset + IndexSize
    /\ UNCHANGED <<limits, shader, phase, listVars>>

PipelineCreated ==
    /\ phase = "mapping"
    /\ Len(mappings) = Len(Reflected(shader))
    /\ phase' = "created"
    /\ UNCHANGED <<limits, shader, nextPushOffset, bindingMap, mappings, listVars>>

Keys == {bindingMap[i].key : i \in DOMAIN bindingMap}

(* ComputePipeline::findBinding: the first entry that matches. *)
FindBinding(key) ==
    bindingMap[Min({i \in DOMAIN bindingMap : bindingMap[i].key = key})]

-----------------------------------------------------------------------------
(* createChunk and bindHeap *)

(* Faulty variant: room for the descriptors without their alignment. *)
ReservedRangeOffset_Packed ==
    AlignUp(ChunkSlots * limits.bufferDescriptorSize, limits.resourceHeapAlignment)

ReservedRangeOffset ==
    AlignUp(ChunkSlots * SlotStride, limits.resourceHeapAlignment)

-----------------------------------------------------------------------------
(* The command list, which has the pipeline bound *)

(* A buffer that can be a uniform buffer is taken for one. *)
DescriptorType(b) == IF "uniform" \in Usage[b] THEN "uniform" ELSE "storage"

(* The caller binds a buffer that was created for the use the shader makes  *)
(* of it, and perhaps for the other one as well.                            *)
BindBuffer(var, b) ==
    /\ phase = "created"
    /\ var.type \in Usage[b]
    /\ bindings' = Put(bindings, var.key,
                       [buffer |-> b, type |-> DescriptorType(b), dirty |-> TRUE])
    /\ UNCHANGED <<pipelineVars, pipelineChanged, cursor, heap, pushData,
                   constantsSet, dispatches, reads>>

(* The bytes of an index, or with None those of the constants. *)
Pushed(index, offset, size) ==
    [o \in Bytes(offset, size) |-> [index |-> index, part |-> o - offset]]

(* The C++ type may be padded, as the block in the shader is. *)
SetPushConstants(size) ==
    /\ phase = "created"
    /\ size > 0
    /\ pushData' = PutAll(pushData, Pushed(None, 0, size))
    /\ constantsSet' = TRUE
    /\ UNCHANGED <<pipelineVars, bindings, pipelineChanged, cursor, heap,
                   dispatches, reads>>

(* The bindings a dispatch writes descriptors for, ... *)
Resolved ==
    {key \in DOMAIN bindings \cap Keys : bindings[key].dirty \/ pipelineChanged}

(* ... and the slot each of them gets, in the order of the map m_bindings.  *)
Before(j, k) == j[1] < k[1] \/ (j[1] = k[1] /\ j[2] < k[2])

SlotOf(key) == cursor + Cardinality({k \in Resolved : Before(k, key)})

(* Faulty variant: descriptors are packed in the chunk. *)
DescriptorAddress_Packed(slot) == slot * limits.bufferDescriptorSize

DescriptorAddress(slot) == slot * SlotStride

(* writeDescriptors: what each byte of the chunk will be. *)
DescriptorBytes ==
    LET address(key) == DescriptorAddress(SlotOf(key))
        bytes(key) == Bytes(address(key), limits.bufferDescriptorSize)
    IN  [byte \in UNION {bytes(key) : key \in Resolved} |->
            LET key == CHOOSE k \in Resolved : byte \in bytes(k)
            IN  [buffer |-> bindings[key].buffer, type |-> bindings[key].type,
                 part   |-> byte - address(key)]]

(* pushData, once for each binding resolved: no two indices share a byte    *)
(* (LayoutApart).                                                           *)
IndexBytes ==
    LET offset(key) == FindBinding(key).pushOffset
        bytes(key) == Bytes(offset(key), IndexSize)
    IN  [o \in UNION {bytes(key) : key \in Resolved} |->
            LET key == CHOOSE k \in Resolved : o \in bytes(k)
            IN  [index |-> SlotOf(key), part |-> o - offset(key)]]

(* External: what the shader does for a variable.  The index in the push    *)
(* data, times the stride, is where the descriptor should be.               *)
ShaderRead(mapping, push) ==
    LET index == push[mapping.pushOffset].index
        whole == \A part \in Bytes(0, IndexSize) :
            push[mapping.pushOffset + part] = [index |-> index, part |-> part]
    IN  [address |-> IF index = None \/ ~whole THEN None
                     ELSE index * mapping.heapIndexStride,
         type |-> mapping.type,
         buffer |-> bindings[mapping.key].buffer]

Dispatch ==
    /\ phase = "created"
    /\ Keys \subseteq DOMAIN bindings
    /\ dispatches < MaxDispatches
    /\ cursor + Cardinality(Resolved) <= ChunkSlots
    /\ LET push == PutAll(pushData, IndexBytes)
       IN  /\ heap' = PutAll(heap, DescriptorBytes)
           /\ pushData' = push
           /\ reads' = reads \cup {ShaderRead(mappings[k], push) :
                                       k \in DOMAIN mappings}
    /\ cursor' = cursor + Cardinality(Resolved)
    /\ bindings' = [key \in DOMAIN bindings |-> [bindings[key] EXCEPT !.dirty = FALSE]]
    /\ pipelineChanged' = FALSE
    /\ dispatches' = dispatches + 1
    /\ UNCHANGED <<pipelineVars, constantsSet>>

Next ==
    \/ ReserveIndexTable
    \/ MapBinding
    \/ PipelineCreated
    \/ \E i \in DOMAIN Reflected(shader), b \in Buffers :
        BindBuffer(Reflected(shader)[i], b)
    \/ \E size \in {shader.constants, PushConstSize(shader)} : SetPushConstants(size)
    \/ Dispatch

Spec == Init /\ [][Next]_vars

-----------------------------------------------------------------------------
(* Properties *)

(* Every variable of the shader, in every dispatch, leads through the index *)
(* in the push data to the whole descriptor of the buffer that was bound:   *)
(* the index was not overwritten by constants, the strides agree, and no    *)
(* later descriptor covers it (device.cpp:221, "Every (set,binding) maps to *)
(* a push-data index").                                                     *)
ShaderFindsDescriptors ==
    \A read \in reads :
        /\ read.address # None
        /\ \A part \in Bytes(0, limits.bufferDescriptorSize) :
            /\ read.address + part \in DOMAIN heap
            /\ heap[read.address + part].buffer = read.buffer
            /\ heap[read.address + part].part = part

(* The descriptor found is of the kind the shader declares, whatever other  *)
(* uses the buffer has: a buffer's flags "describe all the ways the buffer  *)
(* will be used" (README.md:97).  The kind is taken from those flags when   *)
(* the buffer is bound (command_list.cpp:86), and from reflection when the  *)
(* driver is told what to expect (device.cpp:258).  A buffer for both uses  *)
(* breaks it where the shader declares a storage buffer.                    *)
DescriptorKindsAgree ==
    \A read \in reads :
        read.address \in DOMAIN heap => heap[read.address].type = read.type

(* Once set, the push constants stay as they are: no index is pushed over   *)
(* them (command_list.cpp:173-181).                                         *)
ConstantsKept ==
    constantsSet =>
        \A o \in Bytes(0, shader.constants) :
            pushData[o] = [index |-> None, part |-> o]

(* What CommandList assumes of every pipeline (PushLayout): the indices of  *)
(* its bindings and its push constants lie apart in the push data, also     *)
(* when a C++ type is as large as the block.                                *)
LayoutApart ==
    \A i \in DOMAIN bindingMap :
        LET taken == Bytes(bindingMap[i].pushOffset, IndexSize)
        IN  /\ taken \cap Bytes(0, PushConstSize(shader)) = {}
            /\ \A j \in DOMAIN bindingMap \ {i} :
                taken \cap Bytes(bindingMap[j].pushOffset, IndexSize) = {}

(* Everything pushed lies within what the driver has room for, and no       *)
(* descriptor lies in the range of the chunk that is reserved for it        *)
(* (descriptor_heap_backend.h:43).  For the indices this rests on the       *)
(* assertion of device.cpp:218, thus on a debug build.                      *)
WithinLimits ==
    /\ \A o \in DOMAIN pushData : o < limits.maxPushDataSize
    /\ \A byte \in DOMAIN heap : byte < ReservedRangeOffset
=============================================================================
