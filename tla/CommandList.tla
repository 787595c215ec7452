---------------------------- MODULE CommandList ----------------------------
(***************************************************************************)
(* src/src/command_list.cpp and src/src/descriptor_heap_backend.cpp: what a *)
(* command list records, which barriers it puts between dispatches, and the *)
(* chunks of descriptor slots it takes from the heap and gives back.        *)
(*                                                                          *)
(* What was recorded is modelled by what the GPU will make of it: the slots *)
(* the dispatches read and the buffers they should find there, and the      *)
(* accesses that no barrier separates from what comes next.  Lists are      *)
(* recorded on any threads; the heap is used under m_cacheMutex and         *)
(* m_freePoolMutex, so one dispatch is one step.  Reclaiming chunks goes    *)
(* through the retirement queue, which appears by what it promises          *)
(* (DeferredDestruction).                                                   *)
(***************************************************************************)
EXTENDS Timeline, SequencesExt, FiniteSetsExt, Maps

CONSTANTS
    Lists, Buffers, Pipelines,
    Accesses,                 \* the accesses buffers are bound with
    PushOffset,               \* of each pipeline: binding |-> pushOffset
    PushConstants,            \* of each pipeline: the push data it covers
    ChunkSlots,               \* kDefaultChunkSlots
    MaxDispatches,            \* bound: per list
    MaxChunks,                \* bound: chunks ever created
    AliasedBindings,          \* one buffer bound twice, with two accesses
    Interleaved,              \* lists recorded at the same time
    None

Keys == UNION {DOMAIN PushOffset[p] : p \in Pipelines}
Offsets == UNION {Range(PushOffset[p]) \cup PushConstants[p] : p \in Pipelines}

(* A pipeline's index table lies behind its push constants, without overlap. *)
PushLayout(p) ==
    /\ IsInjective(PushOffset[p])
    /\ Range(PushOffset[p]) \cap PushConstants[p] = {}

ASSUME CommandListAssumption ==
    /\ Keys \subseteq Nat     \* in the order of the map m_bindings
    /\ None \notin Nat
    /\ Accesses \subseteq {"read", "write", "readWrite"}
    /\ ChunkSlots \in Nat \ {0}
    /\ MaxDispatches \in Nat /\ MaxChunks \in Nat
    /\ \A p \in Pipelines : PushLayout(p)

VARIABLES
    list,                     \* the command lists
    lastAccess,               \* Buffer::m_lastAccess
    heap,                     \* m_allChunks
    freePool,                 \* m_freePool
    reclaim                   \* the chunks a reclaim callback is queued for

vars == <<submitted, finished, list, lastAccess, heap, freePool, reclaim>>

NewList == [phase |-> "none", id |-> 0, pipeline |-> None,
            pipelineChanged |-> FALSE, bindings |-> <<>>, active |-> None,
            touched |-> <<>>, push |-> <<>>, dispatches |-> 0,
            reads |-> {}, open |-> [b \in Buffers |-> {}]]

Recording(l) == list[l].phase = "recording"
InFlight(l) == list[l].phase = "submitted"
Chunks == DOMAIN heap

BindingType == [buffer : Buffers, access : Accesses, dirty : BOOLEAN]

TypeOK ==
    /\ TimelineTypeOK
    /\ \A l \in Lists :
        /\ list[l].phase \in {"none", "recording", "submitted"}
        /\ list[l].id \in 0 .. submitted
        /\ list[l].pipeline \in Pipelines \cup {None}
        /\ DOMAIN list[l].bindings \subseteq Keys
        /\ Range(list[l].bindings) \subseteq BindingType
        /\ list[l].active \in Chunks \cup {None}
        /\ list[l].touched \in Seq(Chunks)
        /\ DOMAIN list[l].push \subseteq Offsets
        /\ list[l].dispatches \in 0 .. MaxDispatches
        /\ list[l].open \in [Buffers -> SUBSET {"read", "write"}]
    /\ lastAccess \in [Buffers -> Accesses \cup {"none"}]
    /\ \A c \in Chunks : heap[c].cursor \in 0 .. heap[c].capacity
    /\ freePool \in Seq(Chunks)
    /\ reclaim \in [Chunks -> 0 .. submitted]

Init ==
    /\ TimelineInit
    /\ list = [l \in Lists |-> NewList]
    /\ lastAccess = [b \in Buffers |-> "none"]
    /\ heap = <<>> /\ freePool = <<>> /\ reclaim = <<>>

-----------------------------------------------------------------------------
(* Device::createCommandList, into a list variable that is free; bound:     *)
(* none that could not be submitted any more.                               *)
Begin(l) ==
    /\ ~Recording(l) /\ ~InFlight(l)
    /\ submitted < MaxSubmissions
    /\ Interleaved \/ \A m \in Lists : ~Recording(m)
    /\ list' = [list EXCEPT ![l] = [NewList EXCEPT !.phase = "recording"]]
    /\ UNCHANGED <<timelineVars, lastAccess, heap, freePool, reclaim>>

BindPipeline(l, p) ==
    /\ Recording(l)
    /\ list' = [list EXCEPT ![l].pipeline = p, ![l].pipelineChanged = TRUE]
    /\ UNCHANGED <<timelineVars, lastAccess, heap, freePool, reclaim>>

BindBuffer(l, key, b, access) ==
    /\ Recording(l)
    /\ LET bound == [buffer |-> b, access |-> access, dirty |-> TRUE]
       IN  list' = [list EXCEPT ![l].bindings = Put(@, key, bound)]
    /\ UNCHANGED <<timelineVars, lastAccess, heap, freePool, reclaim>>

(* The constants overwrite whatever push data was at their offsets. *)
SetPushConstants(l) ==
    /\ Recording(l)
    /\ list[l].pipeline # None
    /\ PushConstants[list[l].pipeline] # {}
    /\ list' = [list EXCEPT ![l].push =
           PutAll(@, [o \in PushConstants[list[l].pipeline] |-> None])]
    /\ UNCHANGED <<timelineVars, lastAccess, heap, freePool, reclaim>>

-----------------------------------------------------------------------------
(* dispatch *)

(* The pipeline's offsets, by binding, for what is bound. *)
Used(l) == DOMAIN list[l].bindings \cap DOMAIN PushOffset[list[l].pipeline]

(* Faulty variant: only what was bound since the last dispatch. *)
Resolved_DirtyOnly(l) == {key \in Used(l) : list[l].bindings[key].dirty}

(* The bindings that get a new descriptor. *)
Resolved(l) ==
    {key \in Used(l) : list[l].bindings[key].dirty \/ list[l].pipelineChanged}

Writes(access) == access \in {"write", "readWrite"}

(* Faulty variant: only the bindings with new descriptors are looked at. *)
NeedsBarrier_Resolved(l) ==
    \E key \in Resolved(l) : Writes(lastAccess[list[l].bindings[key].buffer])

NeedsBarrier(l) ==
    \E key \in Used(l) : Writes(lastAccess[list[l].bindings[key].buffer])

(* Faulty variant: the active chunk is never given up. *)
HasRoom_Always(chunk, count) == chunk # None

(* allocateSlots: count slots of chunk from base on. *)
HasRoom(chunk, count) ==
    chunk # None /\ heap[chunk].cursor + count <= heap[chunk].capacity

Suitable(count) == {i \in DOMAIN freePool : heap[freePool[i]].capacity >= count}

(* Faulty variant: the chunk taken from the free pool stays in it. *)
FreePoolWithout_Kept(i) == freePool

FreePoolWithout(i) == RemoveAt(freePool, i)

AllocateActive(active, count, chunk, base) ==
    /\ HasRoom(active, count)
    /\ chunk = active
    /\ base = heap[chunk].cursor
    /\ UNCHANGED <<freePool, reclaim>>

AllocateRecycled(active, count, chunk, base) ==
    /\ ~HasRoom(active, count)
    /\ Suitable(count) # {}
    /\ LET i == Min(Suitable(count))
       IN  chunk = freePool[i] /\ freePool' = FreePoolWithout(i)
    /\ base = 0
    /\ UNCHANGED reclaim

AllocateNew(active, count, chunk, base) ==
    /\ ~HasRoom(active, count)
    /\ Suitable(count) = {}
    /\ Len(heap) < MaxChunks
    /\ chunk = Len(heap) + 1
    /\ base = 0
    /\ reclaim' = Append(reclaim, 0)
    /\ UNCHANGED freePool

CreatedChunk(count) ==
    [capacity |-> Max({ChunkSlots, count}), cursor |-> 0, slots |-> <<>>]

(* The slot of each binding resolved: consecutive ones, in map order. *)
SlotOf(l, base) ==
    [key \in Resolved(l) |->
        base + Cardinality({k \in Resolved(l) : k < key})]

(* Faulty variant: the cursor of the chunk is not advanced. *)
CursorAfter_Unchanged(base, count) == base

CursorAfter(base, count) == base + count

(* writeDescriptors, with the cursor allocateSlots advanced. *)
WriteDescriptors(l, chunk, base) ==
    LET count == Cardinality(Resolved(l))
        slot == SlotOf(l, base)
        chunks == IF chunk \in Chunks THEN heap
                                      ELSE Append(heap, CreatedChunk(count))
        written == [s \in Range(slot) |->
            list[l].bindings[CHOOSE k \in Resolved(l) : slot[k] = s].buffer]
    IN  heap' = [chunks EXCEPT ![chunk].cursor = CursorAfter(base, count),
                               ![chunk].slots = PutAll(@, written)]

(* Push data after one index was pushed for each binding resolved. *)
PushAfter(l, base) ==
    LET offset == PushOffset[list[l].pipeline]
    IN  PutAll(list[l].push,
            [o \in {offset[key] : key \in Resolved(l)} |->
                SlotOf(l, base)[CHOOSE key \in Resolved(l) : offset[key] = o]])

(* The heap reads of a dispatch: for each binding the slot whose index is   *)
(* in the push data, and the buffer bound; fresh if it was just written.    *)
HeapReads(l, chunk, push) ==
    {[chunk |-> chunk,
      slot |-> push[PushOffset[list[l].pipeline][key]],
      buffer |-> list[l].bindings[key].buffer,
      fresh |-> key \in Resolved(l)] : key \in Used(l)}

(* What a dispatch does to a buffer. *)
Effects(l, b) ==
    {effect \in {"read", "write"} :
        \E key \in Used(l) :
            /\ list[l].bindings[key].buffer = b
            /\ list[l].bindings[key].access \in {effect, "readWrite"}}

(* The earlier accesses that no barrier separates from this dispatch.       *)
OpenBefore(l, b) == IF NeedsBarrier(l) THEN {} ELSE list[l].open[b]

(* m_bindings is walked in order: the last binding of a buffer decides. *)
AccessAfter(l) ==
    [b \in Buffers |->
        LET keys == {key \in Used(l) : list[l].bindings[key].buffer = b}
        IN  IF keys = {} THEN lastAccess[b]
                         ELSE list[l].bindings[Max(keys)].access]

(* Faulty variant: a recycled chunk is not noted as touched. *)
TouchedAfter_NewOnly(l, chunk) ==
    IF chunk \in Chunks THEN list[l].touched ELSE Append(list[l].touched, chunk)

TouchedAfter(l, chunk) ==
    IF chunk = list[l].active THEN list[l].touched
                              ELSE Append(list[l].touched, chunk)

Cleaned(bindings) ==
    [key \in DOMAIN bindings |-> [bindings[key] EXCEPT !.dirty = FALSE]]

Record(l, chunk, push) ==
    /\ list' = [list EXCEPT
           ![l].bindings = Cleaned(@),
           ![l].pipelineChanged = FALSE,
           ![l].active = chunk,
           ![l].touched = TouchedAfter(l, chunk),
           ![l].push = push,
           ![l].dispatches = @ + 1,
           ![l].reads = @ \cup HeapReads(l, chunk, push),
           ![l].open = [b \in Buffers |-> OpenBefore(l, b) \cup Effects(l, b)]]
    /\ lastAccess' = AccessAfter(l)
    /\ UNCHANGED timelineVars

(* The caller's part: everything the shader reads is bound, nothing else    *)
(* was bound since the last dispatch (asserted at command_list.cpp:116).    *)
Dispatchable(l) ==
    /\ Recording(l)
    /\ list[l].pipeline # None
    /\ Used(l) = DOMAIN PushOffset[list[l].pipeline]
    /\ \A key \in DOMAIN list[l].bindings \ Used(l) : ~list[l].bindings[key].dirty
    /\ list[l].dispatches < MaxDispatches
    /\ AliasedBindings \/ \A j, k \in Used(l) :
        list[l].bindings[j].buffer = list[l].bindings[k].buffer
            => list[l].bindings[j].access = list[l].bindings[k].access

Dispatch(l) ==
    /\ Dispatchable(l)
    /\ LET active == list[l].active
           count == Cardinality(Resolved(l))
       IN  \/ /\ count = 0
              /\ Record(l, active, list[l].push)
              /\ UNCHANGED <<heap, freePool, reclaim>>
           \/ /\ count > 0
              /\ \E chunk \in 1 .. Len(heap) + 1 :
                 \E base \in 0 .. IF active = None THEN 0 ELSE heap[active].cursor :
                    /\ \/ AllocateActive(active, count, chunk, base)
                       \/ AllocateRecycled(active, count, chunk, base)
                       \/ AllocateNew(active, count, chunk, base)
                    /\ WriteDescriptors(l, chunk, base)
                    /\ Record(l, chunk, PushAfter(l, base))

-----------------------------------------------------------------------------
(* Device::submit: the chunks touched go to the retirement queue, stamped.  *)
(* Nothing more can be recorded: of the list only the heap reads matter.    *)

(* Faulty variant: the chunks are stamped with the submission before. *)
StampOf_Previous(id) == id - 1

StampOf(id) == id

OnSubmitted(touched, id) ==
    reclaim' = [c \in Chunks |->
                   IF c \in Range(touched) THEN StampOf(id) ELSE reclaim[c]]

SubmitList(l) ==
    /\ Recording(l)
    /\ Submit
    /\ list' = [list EXCEPT ![l] = [NewList EXCEPT
           !.phase = "submitted", !.id = submitted + 1,
           !.reads = list[l].reads]]
    /\ OnSubmitted(list[l].touched, submitted + 1)
    /\ UNCHANGED <<lastAccess, heap, freePool>>

(* What is in the slots of a chunk in the free pool will be overwritten.    *)
Forget(chunks) ==
    [c \in Chunks |-> IF c \in chunks THEN [heap[c] EXCEPT !.slots = <<>>]
                                      ELSE heap[c]]

(* Faulty variant: a later submission has to finish as well. *)
Due_Later(c) == reclaim[c] # 0 /\ reclaim[c] < finished

(* The retirement thread runs a callback whose id has finished. *)
Due(c) == reclaim[c] # 0 /\ reclaim[c] <= finished

(* The reclaim callback. *)
Reclaim(c) ==
    /\ Due(c)
    /\ freePool' = Append(freePool, c)
    /\ reclaim' = [reclaim EXCEPT ![c] = 0]
    /\ heap' = Forget({c})
    /\ UNCHANGED <<timelineVars, list, lastAccess>>

(* A list destroyed, or assigned over, before it was submitted.             *)
ReleaseUnsubmitted(l) ==
    /\ Recording(l)
    /\ freePool' = freePool \o list[l].touched
    /\ heap' = Forget(Range(list[l].touched))
    /\ list' = [list EXCEPT ![l] = NewList]
    /\ UNCHANGED <<timelineVars, lastAccess, reclaim>>

(* A list that has finished is forgotten. *)
GpuFinish ==
    /\ Finish
    /\ list' = [l \in Lists |->
           IF list[l].id = finished' THEN NewList ELSE list[l]]
    /\ UNCHANGED <<lastAccess, heap, freePool, reclaim>>

Use ==
  \E l \in Lists :
    \/ Begin(l)
    \/ \E p \in Pipelines : BindPipeline(l, p)
    \/ \E key \in Keys, b \in Buffers, access \in Accesses :
        BindBuffer(l, key, b, access)
    \/ SetPushConstants(l)
    \/ Dispatch(l)
    \/ SubmitList(l)
    \/ ReleaseUnsubmitted(l)

Next ==
    \/ Use
    \/ \E c \in Chunks : Reclaim(c)
    \/ GpuFinish

SafetySpec == Init /\ [][Next]_vars

(* The GPU finishes what it was given, and the retirement thread runs what  *)
(* is due (RetirementQueue).                                                *)
Spec ==
    /\ SafetySpec
    /\ WF_vars(GpuFinish)
    /\ \A c \in 1 .. MaxChunks : WF_vars(c \in Chunks /\ Reclaim(c))

-----------------------------------------------------------------------------
(* Properties.  They are about the lists the GPU may still execute.         *)

Pending == {l \in Lists : Recording(l) \/ InFlight(l)}

(* The slot leads, in the heap chunk bound, to the buffer that was bound.   *)
Finds(read) ==
    LET slots == heap[read.chunk].slots
    IN  read.slot \in DOMAIN slots /\ slots[read.slot] = read.buffer

(* Every dispatch finds every buffer it was meant to use, when it executes: *)
(* no slot was written again, no chunk went to another list, no push data   *)
(* was left from another pipeline.  README.md:171: "Sets not rebound        *)
(* between dispatches remain bound from the previous dispatch".             *)
DescriptorsCurrent ==
    \A l \in Pending : \A read \in list[l].reads : Finds(read)

(* The same for the descriptors a dispatch wrote itself. *)
ResolvedCurrent ==
    \A l \in Pending : \A read \in list[l].reads : read.fresh => Finds(read)

(* A chunk is in the free pool, once, or belongs to one list that is being  *)
(* recorded, or waits to be reclaimed: never shared, never lost             *)
(* (descriptor_heap_backend.h:61).                                          *)
ChunkHasOneOwner ==
    \A c \in Chunks :
        Cardinality({i \in DOMAIN freePool : freePool[i] = c})
        + Cardinality({l \in Lists : Recording(l) /\ c \in Range(list[l].touched)})
        + (IF reclaim[c] = 0 THEN 0 ELSE 1) = 1

(* A chunk that left with a submission gets back into the free pool, after  *)
(* any number of others; until then each is a piece of memory nobody uses   *)
(* (descriptor_heap_backend.cpp:171).                                       *)
BackInThePool ==
    \A c \in 1 .. MaxChunks :
        c \in Chunks /\ reclaim[c] # 0 ~> c \in Range(freePool)

(* A dispatch sees what an earlier one of its list wrote, and does not      *)
(* write at the same time (README.md:152: "Barriers between dispatches on   *)
(* the same buffer are inserted automatically").                            *)
BarrierAfterWrite ==
    [][\A l \in Lists : Dispatch(l) =>
        \A b \in Buffers :
            Effects(l, b) # {} => "write" \notin OpenBefore(l, b)]_vars

(* A dispatch does not overwrite what an earlier one may still be reading   *)
(* (the same sentence of README.md).                                        *)
BarrierBeforeWrite ==
    [][\A l \in Lists : Dispatch(l) =>
        \A b \in Buffers :
            "write" \in Effects(l, b) => "read" \notin OpenBefore(l, b)]_vars
=============================================================================
