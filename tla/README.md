# A TLA+ model of voco

voco is a compute library on Vulkan: buffers, compute pipelines, command lists
that record dispatches, one queue, futures for asynchronous copies.  What makes
it work is bookkeeping.  Every submission gets a number, one timeline semaphore
says up to which number the GPU has finished, and from these two numbers voco
decides when to wait, when to reuse and when to destroy.  The models here are
about that bookkeeping: who may touch what while the GPU, a background thread
and several user threads go on at the same time.

Paths like `queue.cpp` are below `src/src/`, `README.md:152` is the repository's
README.

## The system

| Component | State | Operations | What makes it correct |
|---|---|---|---|
| `Queue` (queue.cpp) | last id submitted, command buffers in flight and in the pool, semaphores to wait for | `acquire`, `release`, `submit` (ends with `retire`), `wait`, `addWaitSemaphore` | a command buffer has one owner, is reset only when finished; ids finish in order; no wait is for ever |
| `RetirementQueue` (retirement_queue.cpp) | entries ordered by id, a running flag, one thread | `push` from any thread, the loop, the destructor | each entry destroyed once, not before its id, in the end always |
| `Device` (device.cpp) | the parts, the allocator | `submit`, eight copies, creation, destructor | submissions and host accesses that conflict never overlap; the push-data layout of a shader fits the driver |
| `Buffer`, `ComputePipeline` (buffer.cpp, pipeline.cpp) | the last submission that used it; the last access | destruction, moves | the Vulkan object has one handle and outlives every use; its stamp moves with it |
| `Future` (future.cpp) | id and completion callback | `wait`, moves, destructor | the callback runs once, after the copy |
| `CommandList` (command_list.cpp) | bindings, active and touched heap chunks, pipeline | binds, `setPushConstants`, `dispatch`, destructor | barriers where dispatches conflict; each dispatch finds its buffers |
| `DescriptorHeapBackend` (descriptor_heap_backend.cpp) | chunks of descriptor slots, a free pool | slot allocation, descriptor writes, reclaiming | no slot is rewritten while the GPU may read it |

How they interact: `Device::submit` and the copies look at a buffer's last id,
ask the queue how far the GPU is, wait or add a wait semaphore, submit and stamp
the objects used.  Destroying a stamped object pushes a callback to the retirement
queue; so do finished chunks and upload staging buffers.  The retirement thread
polls the queue and runs the callbacks, which for chunks call back into the heap.

What is hard here: the retirement thread against pushes and the destructor;
reading the GPU's progress and acting on it later; stamps that every path that
submits must set; state kept per buffer but used per command list; descriptors
that are written long before they are read.

Parts without a model are listed under "Not modelled".

## The modules

| Module | Models | Composition |
|---|---|---|
| `Timeline` | the promise of the queue: ids 1, 2, 3, ... that finish in order | abstract |
| `DeferredDestruction` | the promise of destroying: once, not too early, in the end | extends `Timeline`; abstract |
| `GpuQueue` | external: VkQueue and the timeline semaphore, as queue.cpp uses them | |
| `Queue` | queue.cpp | extends `GpuQueue`; implements `Timeline` |
| `RetirementQueue` | retirement_queue.cpp | extends `Timeline`; implements `DeferredDestruction` |
| `DeviceShutdown` | the destructor of the device, with every step of the retirement queue's | extends `RetirementQueue` |
| `Device` | device.cpp, buffer.cpp, pipeline.cpp, future.cpp | extends `GpuQueue` with the promises of the two queues |
| `Handles` | buffer.cpp, pipeline.cpp and the stamps device.cpp sets, with objects that move between variables | extends `GpuQueue`; `Device` identifies object and variable |
| `CommandList` | command_list.cpp, descriptor_heap_backend.cpp | extends `Timeline` |
| `DescriptorLayout` | the layout computed in createComputePipeline, and the bytes command_list.cpp and descriptor_heap_backend.cpp write by it | shows what `CommandList` assumes of a pipeline |
| `Maps` | std::map and ranges of bytes as functions whose domain grows | used by `Device`, `CommandList`, `DescriptorLayout` |
| `RetirementQueueProofs`, `QueueProofs`, `HandlesProofs`, `DeviceProofs`, `CommandListProofs`, `DescriptorLayoutProofs` | the inductive invariant of each and its theorems | each extends its component |
| `DataFacts`, `GpuQueueProofs` | lemmas the proofs share: about numbers, sequences and maps, about `GpuQueue` | |
| `MC...` | instances for TLC | |

The layers are checked separately: `Queue` is shown to implement `Timeline` and
`RetirementQueue` to implement `DeferredDestruction`, and `Device` and
`CommandList` use the promises instead of the parts.  `CommandList` assumes of each
pipeline that the indices of its bindings and its push constants lie apart
(`PushLayout`); `DescriptorLayout` shows that for the layouts device.cpp computes
(`LayoutApart` and `PipelinesAreAsAssumed`, proved for all of them).

### Queue

A thread's place in a call is `pc`.  `acquire` is one locked step (`Acquire`, or
`AcquireMiss` followed by the unlocked `Create`); `release` and each turn of
`retire` reset the command pool first and lock later, so `ReleaseReset`/`Release`
and `RetireReset`/`RetirePush` are separate.  `retire` erases its entry only after the
unlock (`RetireErase`): in between the buffer is in the pool and in `m_inFlight`, and
another thread may acquire it, record with it and release it.  `OneOwner` therefore
counts the entries not yet retired (`Unretired`), and `RecordingKept` says that the
entry left over does no harm to what is recorded meanwhile.  `submit` has no lock of its own;
as in tests/test_threading.cpp:85 the caller has one, so the submit points exclude
each other, while acquiring and releasing go on.  The GPU starts submissions in
order when their wait values are reached, may execute several at once, and
signals in order.  `asked` keeps what each caller asked to wait for, to compare with
what its submission waits for.  The pool and the list in flight are sets, since it makes no
difference which of several reusable buffers is taken.

### RetirementQueue

The retirement thread's places are the points between which other threads can get
in: before the lock, between the wait's predicate and its block (where the mutex is
still held), blocked, holding the mutex, destroying without it.  `notify_one` wakes
the thread only when it is blocked; spurious wake-ups happen.  `push` inserts under
the mutex (`PushInsert`) and notifies after it (`PushNotify`).  The destructor
stores the flag without the mutex, notifies, joins, waits for the GPU and destroys
the rest.

### DeviceShutdown

`~Device` destroys the retirement queue, the heap, the queue and the allocator, in that
order (`ResetOrder`); `resets` counts those that are gone.  The first takes all the
steps of `~RetirementQueue`, the join that may never return included, while the
retirement thread and the GPU go on.  `PartsOutliveUsers` says who may still need each
part: the GPU and the callbacks of chunks the heap, the GPU and the retirement thread
the queue, every other callback the allocator.  That the destructor returns is not
claimed: `retirement_shutdown` shows that it need not.  The runs of the retirement
queue are runs of this module, whose steps are those of `RetirementQueue` and the
resets.

### Device

One call that submits or copies is under way at a time (the caller's lock); futures
are waited for, objects destroyed, and the retirement thread and the GPU run in
between.  `usesOf` records what each submission uses, so that the properties speak
about the GPU's accesses and not about voco's own stamps; `content` says which
submission wrote a buffer last and `fetched` what a download found, so that
`DownloadsCurrent` can compare what reaches the host with the order of the calls.
The eight copies are two synchronous ones with a mapped or a staged path, and two
asynchronous ones; the asynchronous copies of a host-visible buffer do what the
synchronous ones do.  A future is its submission's id and its callback; moving one onto
itself (`SelfMove`) clears the former and may keep the latter, as future.cpp has no
check for that.  The destructor of the device is in `DeviceShutdown`.

### Handles

A `Buffer` or `ComputePipeline` is a variable that holds an object or nothing, and a
stamp.  Moving takes both along and leaves the stamp behind as well; assigning over a
variable destroys what it held; destroying gives the object to the retirement queue
or, for a buffer that was never submitted, frees it.  A command list keeps pointers
to variables (`bound`), while its commands use objects (`recorded`): `submit` stamps
the former and the GPU uses the latter.  Submissions, staged copies that block and
asynchronous copies are there in the form that matters for stamps; `submit` is one
step here and two in `Device`.  The discipline of the caller is that nothing moves
while a list or a call under way points to it (`MovedWhileBound` is FALSE).

### CommandList

What is recorded is modelled by what the GPU will make of it.  `reads` holds, for
each binding of each dispatch, the chunk bound, the slot that the push data names
and the buffer that was meant; `open` holds the accesses that no barrier separates
from the next dispatch.  A dispatch is one step: it reads and writes shared state
only under the heap's mutexes, or state of the buffers, which belongs to the user's
own synchronisation.  Descriptor types, addresses and alignment are in
`DescriptorLayout`.  After the last submission of the bound no list is begun.

### DescriptorLayout

One pipeline is created from any of several shaders, for any of several drivers, and
one list dispatches with it.  `heap` and `pushData` are maps from bytes to what the
host wrote there, last write last; `mappings` is what the driver is told.  A dispatch
adds to `reads` what the shader will do with them: the address its index leads to,
and the descriptor it should find there.  The loop over the reflected bindings is a
step for each (`MapBinding`).  That spirv-reflect rounds the size of a push constant
block up to 16 bytes, and what a shader does with a mapping, are external.  The order
of `std::map` decides which slot a binding gets (`Before`, `SlotOf`).  When the
index table does not fit, the assertion at device.cpp:218 ends the creation.  That is
so in debug builds only: with `NDEBUG`, `DEBUG_ASSERT` does nothing (utils.h:6-7), the
creation goes on and indices are pushed beyond what the driver has room for.  What
`TypeOK` and `WithinLimits` say of the index table and the push data, in the runs and
in the theorems, is about debug builds; what they say of chunks is about all.  A
buffer may have been created for more uses than the shader makes of it.

## What the runs check

Every property is the `INVARIANTS` or `PROPERTIES` of a cfg; each is shown to be
sensitive by a faulty variant of a definition of the code (`..._Kept`,
`..._OneTooMany` and the like beside the definition they vary).

| Run | Bounds | Shows |
|---|---|---|
| `retirement_queue` | 3 objects, one of them a chunk, 2 submissions, ~Device | type, `NoLostPush`, `NothingLeaked`, `DrainIsComplete`, `PartsOutliveUsers`, refinement of `DeferredDestruction` with its liveness |
| `queue` | 2 threads, 3 command buffers, 3 submissions | `OneOwner`, `RecordingKept`, `PoolReusable`, `WaitsAsAsked`, `GpuCanGoOn`, `ResetOnlyFinished`, `CallsReturn`, refinement of `Timeline` with its liveness |
| `device` | a device buffer, a mapped one, a pipeline, 2 futures, 2 submissions | `NoOverlap`, `HostAccessExclusive`, `NoUseAfterFree`, `FutureOwnsStaging`, `NoDownloadLost`, `DownloadsCurrent`, `CallsReturn`, `FreedInTheEnd` |
| `handles` | 2 buffer and 2 pipeline variables, 2 objects, a list, 3 submissions or copies | `OneOwner`, `NoUseAfterFree`, `NoOverlap`, `StampsCover` while handles move |
| `descriptor_layout` | 12 shaders, 18 drivers, 3 buffers, 4 slots, 3 dispatches | `ShaderFindsDescriptors`, `ConstantsKept`, `LayoutApart`, `WithinLimits` |
| `list_dispatches` | 1 list at a time, 2 buffers, 2 pipelines, 3 dispatches, chunks that suffice | `DescriptorsCurrent`, `BarrierAfterWrite` |
| `list_chunks` | 2 lists at once, 3 chunks of one slot, 2 submissions | type, `ResolvedCurrent`, `ChunkHasOneOwner`, `BackInThePool` |

Why the bounds are enough.  Three entries and two ids (and id 0) put an entry
before, between and after others and behind an equal one.  Three submissions on
three command buffers make one buffer be reused while another is being retired.
Two submissions are every pair of conflicting uses; the third one of
`handles` is the one a wait for the newest hazard might miss, and two objects of the
same kind are what an assignment moves and overwrites.  Three dispatches are write,
unrelated, use, or bind, rebind, return to what was bound; two lists share chunks,
and one chunk passes from list to list.  In `list_dispatches` no list can fill a
chunk: that case is the finding below.  The shaders of `descriptor_layout` have no, a
short and a longer push constant block, one or two sets, both kinds of binding,
bindings with gaps; the buffers have one use, the other, or both; the drivers have descriptors whose size is a multiple of their
alignment or not, and push data in which all, some or none of the shaders fit.
Every `Max...` constant, the command buffers and the chunks are bounds of the runs;
they appear as guards where something new is created.

Deadlock is checked in `queue`, which never stops.  Elsewhere stopping is right: when
everything is destroyed or the submissions of the bound are used up, when a program
has nothing left to do, or when an assertion has ended the creation of a pipeline.

### Findings

These runs check a statement of the repository and TLC shows a behaviour of the
code that contradicts it.

| Run | Statement | What the code does |
|---|---|---|
| `retirement_shutdown` | device.cpp:106, the destructor waits and returns | flag and notification fall between predicate and block of the retirement thread; `join` waits for ever |
| `list_read_then_write` | README.md:152, barriers are inserted automatically | a read followed by a write gets none |
| `list_interleaved` | the same | the last access is kept per buffer, not per list: lists recorded in turns hide each other's writes |
| `list_overflow` | README.md:171, sets not rebound remain bound | after a change of chunk they are looked up in the new one |
| `device_assign_future` | README.md:79, objects release their resources | assigning to a future with a pending download leaks it |

Where a discipline of the caller avoids this it is a constant (`Interleaved`,
`AssignOverPending`), so that the passing runs show what holds with it.  The following
are in no run; they are hazards of PROJECT.json that no property covers, and TLC
shows the effect when the constant is set or the invariant is added.

* `AliasedBindings`: a buffer bound at two bindings of one dispatch is remembered by
  the access of the last one (command_list.cpp:188).  With it in
  `MCCommandListDispatches.cfg` a write through the first gets no barrier:
  `BarrierAfterWrite` is violated.
* `SelfMoves`: a future with a pending download that is moved onto itself clears its
  queue and id and may keep its callback (future.cpp:32-40), while `Buffer` and
  `ComputePipeline` test for this case (buffer.cpp:45, pipeline.cpp:27).  With it in
  `MCDevice.cfg` a later `wait` does not wait, copies what is not written yet and
  destroys the staging buffer under the GPU, or finds no callback: `DownloadsCurrent`,
  `NoUseAfterFree` and `NoDownloadLost` are violated, `FutureOwnsStaging` is not.
* `MovedWhileBound`: with it in `MCHandles.cfg` a buffer assigned over between bind and
  submit is freed at once, since it was never submitted, and the list goes on using
  it: `NoUseAfterFree` is violated.  The repository promises nothing else: a list
  keeps raw pointers (command_list.h).
* `DescriptorKindsAgree`: README.md:97 says of usage flags that they "can be combined
  with `|` to describe all the ways the buffer will be used"; bindBuffer takes a buffer
  with both usages for a uniform buffer (command_list.cpp:86), also where the shader
  declares a storage buffer and the driver was told so (device.cpp:258).  As an
  invariant of `MCDescriptorLayout.cfg`, which has such a buffer, it is violated.

A passage of README.md describes an earlier design: "Descriptor sets"
(README.md:163) speaks of cached descriptor sets, while the code writes descriptors
into heap chunks whenever something is bound again (descriptor_heap_backend.h:50).

### Fairness

Weak fairness, on threads that can run and on the GPU: a call that has begun goes
on (`InCall`, `Continue`), the retirement thread takes its steps, the destructor of the
retirement queue goes on, the GPU starts and finishes what it was given.  This is what an operating
system's scheduler and a device that is not lost provide.  In
`CommandList` the GPU finishes submissions and the callbacks that are due run, which
`RetirementQueue` shows for the retirement thread; `BackInThePool` needs both.
`CallsReturn` of `Device` is about the calls on a device that exists; no fairness makes
`~Device` return, as `DeviceShutdown` takes over that of `RetirementQueue` and adds none.
Nothing obliges a user to make a call, an owner to destroy an object, a list to be
submitted or a wait to wake spuriously.  `Handles` and `DescriptorLayout` have safety
properties only, and no fairness.

## What is proved

TLC checks the instances above; the theorems below hold for every number of
threads, command buffers, objects, variables, futures, lists and submissions, every
chunk size, every layout of push data that `PushLayout` admits and, in
`DescriptorLayout`, all shaders and all sizes and alignments a driver reports.  They assume what
the modules assume of their constants (the `ASSUME` of each: bounds are natural
numbers, sets that stand for different things are disjoint, the value for "none" is
not one of the others) and are about the safety part of each specification
(`SafetySpec`, or `Spec` where there is no fairness).

| Module | Theorems | Property |
|---|---|---|
| `RetirementQueueProofs` | `TypeCorrect`, `PushIsNoticed`, `DestructorLeaksNothing`, `LoopDrainsAllDue` | `TypeOK`, `NoLostPush`, `NothingLeaked`, `DrainIsComplete` |
| | `KeepsThePromise` | the safety part of `ImplementsDeferredDestruction` |
| | `PartsAreDestroyedInOrder` | `PartsOutliveUsers` of `DeviceShutdown` |
| `QueueProofs` | `TypeCorrect`, `BuffersHaveOneOwner`, `RecordingIsKept`, `PoolHoldsReusable`, `WaitsArePassedOn`, `GpuIsNeverStuck`, `ResetsAreSafe` | `TypeOK`, `OneOwner`, `RecordingKept`, `PoolReusable`, `WaitsAsAsked`, `GpuCanGoOn`, `ResetOnlyFinished` |
| | `QueueImplementsTimeline` | the safety part of `ImplementsTimeline` |
| `HandlesProofs` | `TypeCorrect`, `HandlesOwnOnce` | `TypeOK`, `OneOwner` |
| | if not `MovedWhileBound`: `StampsTravel`, `HandlesOutliveUses`, `HandlesDoNotOverlap` | `StampsCover`, `NoUseAfterFree`, `NoOverlap` |
| `DeviceProofs` | `TypeCorrect`, `SubmissionsDoNotOverlap`, `HostAccessIsExclusive`, `FuturesOwnStaging` | `TypeOK`, `NoOverlap`, `HostAccessExclusive`, `FutureOwnsStaging` |
| | if not `SelfMoves`: `NothingUsedAfterFree`, `DownloadsAreCurrent` | `NoUseAfterFree`, `DownloadsCurrent` |
| | if neither `SelfMoves` nor `AssignOverPending`: `NoDownloadIsLost` | `NoDownloadLost` |
| `CommandListProofs` | `TypeCorrect`, `ChunksHaveOneOwner`, `ResolvedStayCurrent` | `TypeOK`, `ChunkHasOneOwner`, `ResolvedCurrent` |
| | if `Roomy`: `DescriptorsStayCurrent` | `DescriptorsCurrent` |
| | if neither `Interleaved` nor `AliasedBindings`: `WritesAreSeen` | `BarrierAfterWrite` |
| `DescriptorLayoutProofs` | `TypeCorrect`, `ShadersFindDescriptors`, `ConstantsStay`, `IndicesLieApart`, `EverythingFits` | `TypeOK`, `ShaderFindsDescriptors`, `ConstantsKept`, `LayoutApart`, `WithinLimits` |
| | `PipelinesAreAsAssumed` | every pipeline made satisfies `PushLayout` of `CommandList` |

The conditions are those under which the passing runs check the property
(`MCHandles.cfg`, `MCDevice.cfg`, `MCCommandListDispatches.cfg`, where three dispatches of at most two bindings fit
into chunks of six slots), and TLC
violates the property without them (under "Findings").  A proof that never uses the
condition is given without it: which parts need the caller's discipline is itself a
result.

### RetirementQueue

Everything rests on one inductive invariant, `IInv`.  `TypeOK` is not inductive: that a
callback runs at most once needs that an object is in one place only, `m_pending` or
the entries taken out, once, and not yet destroyed (`Entries`); that what is taken
out is due (`Entries` again) carries the promise from the locked part of the loop to
the callbacks after the unlock; that nothing is lost needs the converse (`Tracked`);
that the loop may stop early needs the order (`Sorted`); and that the destructor may
destroy without looking at ids needs that the thread has exited and everything has
finished (`Control`).  Each action has a lemma; the steps that move no entry share
`EntriesKept`.  `InsertAtFacts`, `CutFacts` and `TailFacts` say what inserting,
splitting and taking the first element do to a sequence.

`PartsAreDestroyedInOrder` is about `DeviceShutdown`, whose steps are those of
`RetirementQueue` or leave its variables alone (`DeviceRefinesQueue`), so `IInv` holds
there as well; `ResetInv` adds that a part after the retirement queue goes only once its
destructor has returned, when the thread has exited, nothing is pending and the GPU
has finished everything.

### Queue

`OneOwner` needs only who is at which place of a call (`Control`): the one thread at
"erasing" has the one entry in flight whose buffer may be in the pool, or with
another thread, again.  `RecordingKept`, part of `Clean`, holds because the buffers
`retire` resets are in flight while no entry is left over, and `OneOwner` gives those
to no thread.  That a reset is safe
needs `Flight`: the id kept for a buffer in flight is the last one it was submitted
with (`LastUse`), and a buffer that is not in flight is not pending at all.  What was
read of the GPU's progress (`completed`) may be old, but is never ahead.  `Clean` says
the same of the reset itself.  `WaitsAsAsked` needs that the values not yet submitted
belong to the one thread at "submitting" (`Asked`), and `GpuCanGoOn` that waits go
back only (`Earlier`): the submission to start next waits for ids before it, all
of them finished when nothing is executing.

### Handles

Ownership comes first, for any program: `Owned` says without counting that two
variables have different objects, no entry has the object of a variable or of
another entry, and each object in memory is in one of them.  Lemmas say how a
variable gives its object up (`GiveUp`), gets a new one (`GetNew`) or that of another
(`GetOther`); every action is a composition of these.  `OneOwner` follows by counting.
For the rest a list's pointers matter (`Pointers`): the objects it recorded are
still in the variables it points to, which is what stamping the variables at submit
relies on, and what `MovedWhileBound` breaks.  From `StampsCover` then follow `Live`,
since an object is destroyed at stamp 0 or when its stamp has been reached, and
`Ordered`: a submission waits for an earlier one that shares a buffer, or for a later
one than that.  Submissions finish in order, so the newest hazard is enough.

### Device

The invariant says who covers each unfinished use: the stamp of the object, but for
the copy a blocking call waits for itself, which stamps nothing (`StampsCover`, `Calls`).
With that `Ordered`, as in `Handles`, gives `NoOverlap`, and `UsesExist` gives
`NoUseAfterFree`; `StagingOwned` adds the staging buffers.  That a callback runs only
when its copy has finished is `Timely`, which a future moved onto itself breaks;
whom a staging buffer belongs to does not depend on it.  `DownloadsCurrent` needs
to say what the data is at each moment (`Data`): a buffer has what the newest
finished writer wrote (`Writers`, a maximum over the submissions so far), and a
download that has started has found what the last writer before it wrote, since
`Ordered` keeps the writers after it away until it has finished.
`NoneForgotten` is the part that needs `AssignOverPending` and `SelfMoves` to be false:
each staging buffer is queued, or has a pending future, or is waited for.

### CommandList

`Ownership` says without counting what `ChunkHasOneOwner` counts.  `Slots` says that
what is written in a chunk lies below its cursor, so that an allocation never meets
a descriptor.  `ReadsFound` is the property for the reads so far, and who owns the
chunk each names: the list while it is recorded, the queue with that list's id
afterwards (`Stamped`: such an id has not been reached), so that no one else may
write it.  `CleanFound` is what a dispatch leaves for the next: a binding that is not
dirty under an unchanged pipeline has its index in the push data and its
descriptor in the active chunk.  This is what a second chunk breaks, hence `Roomy`;
`RoomLeft` shows that with it no second chunk is taken.  `WritesAreSeen` has an
invariant of its own (`BarrierInv`): a write no barrier separates from what follows
is the buffer's last access.

### DescriptorLayout

The pipeline, the driver and the dispatch each go by the layout, and the invariant says
what each has of it.
`Layout` gives the maps of the pipeline and of the driver in closed form: the index
of the i-th variable lies at `IndexOffset(i)`, which the running sum `nextPushOffset`
is the next of.  `Constants` says that nothing but push constants lies below the index
table, `Descriptors` that all descriptors written lie in slots below the cursor.
From the first two, indices are apart from each other and from the constants
(`IndicesApart`); from the third, the slots of a dispatch, which begin at the cursor,
cover no descriptor already there (`DescriptorStays`).  `CleanFound` is again what a
dispatch leaves for the next: it writes only what is dirty, so every other binding
needs its old index in the push data and its old descriptor in the chunk, whole.
`ReadsFound` says the same of what was dispatched, which no later step may disturb.
The lemmas about arithmetic are `AlignUpFacts` (alignUp never gives less than it
gets) and `SlotsApart` (a slot ends where the next begins); they hold because a stride is
an aligned size, which is what the faulty variants `DescriptorAddress_Packed` and
`MappingOf_Unaligned` get wrong.  `ResolvedFacts` says that the order of the map gives
each binding a slot of its own.  `PipelinesAreAsAssumed` restates `IndicesLieApart` in
the words of `PushLayout`, the assumption of `CommandList`.

### Shared lemmas

`DataFacts` has the least and greatest element of a set of numbers, the ranks of
the keys of a finite set, and the types of maps; where one would use induction the
proofs take a least counterexample (`LeastElement`, from the well-foundedness of
the natural numbers).  `GpuQueueProofs` says what enqueueing, starting and
signalling do to `Submissions` and `Unfinished`.

### Only model-checked

* Liveness, which is beyond the prover: that what is pushed is destroyed in the end
  (`FreedInTheEnd`), that calls return (`CallsReturn`), that chunks come back
  (`BackInThePool`), and the liveness parts of the two refinements.
* That `~Device` returns: a run refutes it for the retirement queue, on which it waits.
* That the modules fit together as parts of one program: `Timeline` in `CommandList` is
  what `Queue` implements, `PushLayout` what `PipelinesAreAsAssumed` shows.  They are
  connected by these statements, not by one specification of everything.

## Not modelled

* Reading shader files, parsing SPIR-V and compiling GLSL: third-party calls, no state
  of voco's own.  What reflection reports is the input of `DescriptorLayout`.  Feature
  checks neither.
* Shaders with two variables at the same set and binding (`findBinding` knows the
  first only, pipeline.cpp:49), and push constants of a C++ type that is larger than
  the block of the shader: errors of the caller that nothing in voco detects, and
  hazards of the list in PROJECT.json.
* Failing Vulkan calls.  `VK_CHECK` asserts in debug builds and goes on otherwise.
* Calls that submit, made without the lock the tests use: their behaviour is
  undefined.
* `addSignalSemaphore`, which nothing calls; images, which are empty files; vendored
  code.

## Plan

1. Done: the models and their runs; proofs about `RetirementQueue`, `Queue`,
   `Handles`, `Device`, `CommandList` and `DescriptorLayout`.
2. Every safety property the passing runs check is stated by a theorem.  Left: the action
   property behind `BackInThePool` (a chunk leaves the wait for reclaiming only for the
   pool), and a refinement that joins `CommandList` to `GpuQueue`.
