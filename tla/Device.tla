------------------------------- MODULE Device -------------------------------
(***************************************************************************)
(* src/src/device.cpp, buffer.cpp, pipeline.cpp and future.cpp: what a user *)
(* can do with a Device, and which memory the GPU and the host touch while. *)
(*                                                                          *)
(* Calls that submit or copy are serialised by a lock of the caller (the    *)
(* contract of src/tests/test_threading.cpp), so one call is under way at   *)
(* a time; the GPU, the retirement thread, owners that destroy an object    *)
(* and threads that wait for a future go on during a call.  Queue and       *)
(* RetirementQueue appear by what they promise: GpuQueue with consecutive   *)
(* ids, and DeferredDestruction.  ~Device is in DeviceShutdown.             *)
(***************************************************************************)
EXTENDS GpuQueue, FiniteSetsExt, Maps

CONSTANTS
    Buffers,
    HostVisible,              \* the buffers the host writes without staging
    Pipelines,
    Futures,                  \* the future variables of the program
    MaxSubmissions,           \* bound: the submissions of a behaviour
    AssignOverPending,        \* a pending future may be assigned another
    SelfMoves                 \* a pending future may be moved onto itself

ASSUME DeviceAssumption ==
    /\ HostVisible \subseteq Buffers
    /\ Buffers \cap Pipelines = {}
    /\ MaxSubmissions \in Nat
    /\ AssignOverPending \in BOOLEAN
    /\ SelfMoves \in BOOLEAN

Objects == Buffers \cup Pipelines

VARIABLES
    handle,                   \* does the program have the object?
    memory,                   \* the objects whose Vulkan resources exist
    lastSubmissionID,         \* m_lastSubmissionID of each object
    call,                     \* the call under way
    staging,                  \* the copies whose staging buffer exists
    retiredStaging,           \* those given to the retirement queue
    future,                   \* m_submissionID, and m_onComplete by its download
    delivered,                \* of each download that is over, what the host got
    usesOf,                   \* the objects each submission uses
    copies,                   \* of each staged copy, its direction
    content,                  \* of each buffer, the submission that wrote it
    fetched                   \* of each download that ran, the content it found

hostVars == <<handle, memory, lastSubmissionID, call, staging, retiredStaging,
              future, delivered, usesOf, copies>>
executionVars == <<gpuVars, content, fetched>>
vars == <<hostVars, executionVars, waitsOf>>

Idle == [op |-> "idle", uses |-> {}, id |-> 0]
NoFuture == [id |-> 0, onComplete |-> 0]

Operations == {"idle", "submit", "toDevice", "toHost", "accessing",
               "copyingToDevice", "copyingToHost"}

TypeOK ==
    /\ handle \in [Objects -> {"unborn", "live", "dropped"}]
    /\ memory \subseteq {o \in Objects : handle[o] # "unborn"}
    /\ lastSubmissionID \in [Objects -> 0 .. Len(waitsOf)]
    /\ call \in [op : Operations, uses : SUBSET Objects, id : 0 .. Len(waitsOf)]
    /\ staging \subseteq DOMAIN copies
    /\ retiredStaging \subseteq staging
    /\ future \in [Futures -> [id : 0 .. Len(waitsOf),
                               onComplete : 0 .. Len(waitsOf)]]
    /\ DOMAIN delivered \subseteq DOMAIN copies \ staging
    /\ DOMAIN copies \subseteq Submissions
    /\ content \in [Buffers -> 0 .. counter]
    /\ DOMAIN fetched \subseteq 1 .. started
    /\ usesOf \in [Submissions -> SUBSET Objects]
    /\ GpuTypeOK

Init ==
    /\ handle = [o \in Objects |-> "unborn"]
    /\ memory = {}
    /\ lastSubmissionID = [o \in Objects |-> 0]
    /\ call = Idle
    /\ staging = {} /\ retiredStaging = {} /\ copies = <<>> /\ delivered = <<>>
    /\ content = [b \in Buffers |-> 0] /\ fetched = <<>>
    /\ future = [f \in Futures |-> NoFuture]
    /\ usesOf = <<>>
    /\ GpuInit

objectVars == <<handle, memory>>
stagingVars == <<staging, retiredStaging, future, delivered, copies>>
submissionVars == <<waitsOf, usesOf, lastSubmissionID>>

Live(objects) == \A o \in objects : handle[o] = "live"
NewID == Len(waitsOf) + 1
MaySubmit == call = Idle /\ Len(waitsOf) < MaxSubmissions

-----------------------------------------------------------------------------
(* createBuffer, createComputePipeline; ~Buffer and ~ComputePipeline *)

CreateObject(o) ==
    /\ handle[o] = "unborn"
    /\ handle' = [handle EXCEPT ![o] = "live"]
    /\ memory' = memory \cup {o}
    /\ UNCHANGED <<submissionVars, stagingVars, executionVars, call>>

(* Faulty variant: what the GPU has been given may be destroyed at once. *)
DestroyedAtOnce_Started(o) == lastSubmissionID[o] <= started

(* A buffer never submitted does not go through the retirement queue. *)
DestroyedAtOnce(o) == o \in Buffers /\ lastSubmissionID[o] = 0

(* The owner may do this on a thread of its own, but not during a call that *)
(* was given the object.                                                    *)
DestroyHandle(o) ==
    /\ handle[o] = "live"
    /\ o \notin call.uses
    /\ handle' = [handle EXCEPT ![o] = "dropped"]
    /\ memory' = IF DestroyedAtOnce(o) THEN memory \ {o} ELSE memory
    /\ UNCHANGED <<submissionVars, stagingVars, executionVars, call>>

-----------------------------------------------------------------------------
(* submit *)

(* Faulty variant: the buffers are stamped before hazards are looked for. *)
WaitsFor_StampedFirst(buffers, lastFinished) ==
    IF buffers = {} THEN {} ELSE {NewID}

(* The value of addWaitSemaphore: the newest unfinished use of a buffer. *)
WaitsFor(buffers, lastFinished) ==
    LET hazards == {lastSubmissionID[b] : b \in buffers}
                       \cap (lastFinished + 1 .. MaxSubmissions)
    IN  IF hazards = {} THEN {} ELSE {Max(hazards)}

(* Faulty variant: pipelines are not stamped. *)
Stamped_BuffersOnly(objects) == objects \cap Buffers

Stamped(objects) == objects

Stamp(objects) ==
    lastSubmissionID' = [o \in Objects |->
        IF o \in Stamped(objects) THEN NewID ELSE lastSubmissionID[o]]

Enter(objects, values) ==
    /\ Enqueue(values)
    /\ usesOf' = Append(usesOf, objects)

(* A list with these buffers and pipelines bound; m_queue tells how far the *)
(* GPU is.                                                                  *)
SubmitBegin(objects) ==
    /\ MaySubmit
    /\ objects # {} /\ Live(objects)
    /\ call' = [op |-> "submit", uses |-> objects, id |-> counter]
    /\ UNCHANGED <<submissionVars, stagingVars, objectVars, executionVars>>

(* The list goes to the queue and everything bound to it is stamped. *)
SubmitEnd ==
    /\ call.op = "submit"
    /\ Enter(call.uses, WaitsFor(call.uses \cap Buffers, call.id))
    /\ Stamp(call.uses)
    /\ call' = Idle
    /\ UNCHANGED <<stagingVars, objectVars, executionVars>>

-----------------------------------------------------------------------------
(* copyToDevice, copyToHost; also the asynchronous copies of host-visible   *)
(* buffers, which do the same and return a future that is complete          *)

CopyBegin(op, b) ==
    /\ MaySubmit
    /\ Live({b})
    /\ call' = [op |-> op, uses |-> {b}, id |-> 0]
    /\ UNCHANGED <<submissionVars, stagingVars, objectVars, executionVars>>

(* Faulty variant: the copy waits for the submission to start. *)
Ready_Started(b) == lastSubmissionID[b] <= started

(* m_queue->wait(m_lastSubmissionID), when it has not finished, returned. *)
Ready(b) == lastSubmissionID[b] <= counter

(* The host reads or writes the mapped buffer ... *)
AccessBegin(b) ==
    /\ call.op \in {"toDevice", "toHost"}
    /\ call.uses = {b} /\ b \in HostVisible
    /\ Ready(b)
    /\ call' = [call EXCEPT !.op = "accessing"]
    /\ UNCHANGED <<submissionVars, stagingVars, objectVars, executionVars>>

(* ... and is done. *)
AccessEnd ==
    /\ call.op = "accessing"
    /\ call' = Idle
    /\ UNCHANGED <<submissionVars, stagingVars, objectVars, executionVars>>

(* allocStaging and submitCopy *)
StagedCopy(b, direction, values) ==
    /\ Enter({b}, values)
    /\ staging' = staging \cup {NewID}
    /\ copies' = Put(copies, NewID, direction)

StageBegin(b) ==
    /\ call.op \in {"toDevice", "toHost"}
    /\ call.uses = {b} /\ b \notin HostVisible
    /\ Ready(b)
    /\ StagedCopy(b, call.op, {})
    /\ call' = [op |-> IF call.op = "toDevice" THEN "copyingToDevice"
                                               ELSE "copyingToHost",
                uses |-> {b}, id |-> NewID]
    /\ UNCHANGED <<lastSubmissionID, retiredStaging, future, delivered,
                   objectVars, executionVars>>

(* memcpy from the staging buffer; Garbage if the copy has not finished.     *)
Garbage == MaxSubmissions + 1
Deliver(id) ==
    delivered' = Put(delivered, id, IF id <= counter THEN fetched[id] ELSE Garbage)

(* m_queue->wait(id) returned: staging is destroyed. Only an upload stamps. *)
StageEnd ==
    /\ call.op \in {"copyingToDevice", "copyingToHost"}
    /\ call.id <= counter
    /\ staging' = staging \ {call.id}
    /\ IF call.op = "copyingToHost"
       THEN /\ Deliver(call.id)
            /\ UNCHANGED lastSubmissionID
       ELSE /\ lastSubmissionID' = [o \in Objects |->
                   IF o \in call.uses THEN Len(waitsOf) ELSE lastSubmissionID[o]]
            /\ UNCHANGED delivered
    /\ call' = Idle
    /\ UNCHANGED <<waitsOf, usesOf, retiredStaging, future, copies, objectVars,
                   executionVars>>

-----------------------------------------------------------------------------
(* copyToDeviceAsync, copyToHostAsync of a buffer that needs staging.  The  *)
(* future returned is assigned to f.                                        *)

Pending(f) == future[f].onComplete # 0

(* Discipline of the caller, unless AssignOverPending. *)
Assignable(f) == AssignOverPending \/ ~Pending(f)

(* Faulty variant: the copy does not wait for unfinished uses. *)
CopyWaitsFor_None(b) == {}

CopyWaitsFor(b) == WaitsFor({b}, counter)

CopyAsync(b, f, direction) ==
    /\ MaySubmit
    /\ Live({b}) /\ b \notin HostVisible
    /\ Assignable(f)
    /\ StagedCopy(b, direction, CopyWaitsFor(b))
    /\ Stamp({b})
    /\ UNCHANGED <<delivered, call, objectVars, executionVars>>

CopyToDeviceAsync(b, f) ==
    /\ CopyAsync(b, f, "toDevice")
    /\ retiredStaging' = retiredStaging \cup {NewID}
    /\ future' = [future EXCEPT ![f] = [id |-> NewID, onComplete |-> 0]]

CopyToHostAsync(b, f) ==
    /\ CopyAsync(b, f, "toHost")
    /\ future' = [future EXCEPT ![f] = [id |-> NewID, onComplete |-> NewID]]
    /\ UNCHANGED retiredStaging

-----------------------------------------------------------------------------
(* Future *)

(* Faulty variant: the callback is copied, not moved. *)
MovedFrom_Copied(f) == [future[f] EXCEPT !.id = 0]

MovedFrom(f) == NoFuture

futureOnly == <<submissionVars, executionVars, objectVars, call, staging,
                retiredStaging, delivered, copies>>

MoveAssign(f, g) ==
    /\ f # g
    /\ Assignable(f)
    /\ future' = [future EXCEPT ![f] = future[g], ![g] = MovedFrom(g)]
    /\ UNCHANGED futureOnly

(* operator= does not test for itself, as Buffer's does: the queue and the  *)
(* id are cleared, and std::function may keep its target or lose it.        *)
SelfMove(f) ==
    /\ SelfMoves \/ ~Pending(f)
    /\ \E onComplete \in {0, future[f].onComplete} :
        future' = [future EXCEPT ![f] = [id |-> 0, onComplete |-> onComplete]]
    /\ UNCHANGED futureOnly

(* Faulty variant: the data is read, the staging buffer is left. *)
Complete_KeepsStaging(f) ==
    /\ IF Pending(f) THEN Deliver(future[f].onComplete) ELSE UNCHANGED delivered
    /\ UNCHANGED staging

(* What m_onComplete does: read the staging buffer and destroy it. *)
Complete(f) ==
    IF Pending(f)
    THEN /\ Deliver(future[f].onComplete)
         /\ staging' = staging \ {future[f].onComplete}
    ELSE UNCHANGED <<delivered, staging>>

(* Faulty variant: the wait is for the submission to start. *)
WaitReturns_Started(f) == future[f].id <= started

(* m_queue->wait(m_submissionID) returned, or there was nothing to wait for. *)
WaitReturns(f) == future[f].id <= counter

Wait(f) ==
    /\ WaitReturns(f)
    /\ Complete(f)
    /\ future' = [future EXCEPT ![f].onComplete = 0]
    /\ UNCHANGED <<submissionVars, executionVars, objectVars, call, retiredStaging,
                   copies>>

(* Faulty variant: the destructor does not complete the future. *)
DestroyCompletes_Never(f) == FALSE

DestroyCompletes(f) == Pending(f)

(* ~Future waits if there is something to complete. *)
DestroyFuture(f) ==
    /\ IF DestroyCompletes(f)
       THEN WaitReturns(f) /\ Complete(f)
       ELSE UNCHANGED <<delivered, staging>>
    /\ future' = [future EXCEPT ![f] = NoFuture]
    /\ UNCHANGED <<submissionVars, executionVars, objectVars, call, retiredStaging,
                   copies>>

-----------------------------------------------------------------------------
(* The retirement queue (what DeferredDestruction promises) *)

Doomed == {o \in memory : handle[o] = "dropped"}

(* Faulty variant: an entry is due when a later submission has finished. *)
Due_Later(id) == id < counter

Due(id) == id <= counter

RetireObject(o) ==
    /\ o \in Doomed
    /\ Due(lastSubmissionID[o])
    /\ memory' = memory \ {o}
    /\ UNCHANGED <<submissionVars, stagingVars, executionVars, call, handle>>

RetireStaging(id) ==
    /\ id \in retiredStaging
    /\ Due(id)
    /\ retiredStaging' = retiredStaging \ {id}
    /\ staging' = staging \ {id}
    /\ UNCHANGED <<submissionVars, executionVars, objectVars, call, future, delivered,
                   copies>>

-----------------------------------------------------------------------------
(* The GPU.  A download reads its buffer when it starts, anything else may  *)
(* write all the buffers it uses until it finishes.                         *)

Download(id) == id \in DOMAIN copies /\ copies[id] = "toHost"

Source(id) == CHOOSE b \in Buffers : usesOf[id] = {b}

GpuStart ==
    /\ Start
    /\ fetched' = IF Download(started')
                  THEN Put(fetched, started', content[Source(started')])
                  ELSE fetched
    /\ UNCHANGED <<hostVars, content>>

GpuSignal ==
    /\ Signal
    /\ content' = [b \in Buffers |->
           IF b \in usesOf[counter'] /\ ~Download(counter') THEN counter'
                                                           ELSE content[b]]
    /\ UNCHANGED <<hostVars, fetched>>

Begin ==
    \/ \E o \in Objects : CreateObject(o) \/ DestroyHandle(o)
    \/ \E objects \in SUBSET Objects : SubmitBegin(objects)
    \/ \E b \in Buffers :
        \/ CopyBegin("toDevice", b)
        \/ CopyBegin("toHost", b)
        \/ \E f \in Futures : CopyToDeviceAsync(b, f) \/ CopyToHostAsync(b, f)
    \/ \E f, g \in Futures : MoveAssign(f, g)
    \/ \E f \in Futures : SelfMove(f) \/ Wait(f) \/ DestroyFuture(f)

Continue ==
    \/ SubmitEnd
    \/ \E b \in Buffers : AccessBegin(b) \/ StageBegin(b)
    \/ AccessEnd
    \/ StageEnd

Retirement ==
    \/ \E o \in Objects : RetireObject(o)
    \/ \E id \in Submissions : RetireStaging(id)

Next == Begin \/ Continue \/ Retirement \/ GpuStart \/ GpuSignal

SafetySpec == Init /\ [][Next]_vars

(* A call that has begun goes on, the retirement thread and the GPU work;   *)
(* nothing makes the user begin a call.                                     *)
Spec ==
    /\ SafetySpec
    /\ WF_vars(Continue)
    /\ WF_vars(Retirement)
    /\ WF_vars(GpuStart)
    /\ WF_vars(GpuSignal)

-----------------------------------------------------------------------------
(* Properties *)

(* Submissions that use the same buffer never execute at the same time: the *)
(* stamps of the buffers are enough to find every hazard.                   *)
NoOverlap ==
    \A i, j \in Executing :
        i # j => usesOf[i] \cap usesOf[j] \cap Buffers = {}

(* While the host reads or writes a mapped buffer no submission uses it,    *)
(* whichever call made the submission.                                      *)
HostAccessExclusive ==
    call.op = "accessing" =>
        \A id \in Unfinished : usesOf[id] \cap call.uses = {}

(* The memory of buffers, pipelines and staging buffers exists as long as a *)
(* submission, or the host, may still touch it.                             *)
NoUseAfterFree ==
    /\ call.op = "accessing" => call.uses \subseteq memory
    /\ \A id \in Unfinished :
        /\ usesOf[id] \subseteq memory
        /\ id \in DOMAIN copies => id \in staging

(* A pending download has a staging buffer of its own, which neither        *)
(* another future nor the retirement queue will destroy, however futures    *)
(* are moved, onto themselves included (future.cpp:32).                     *)
FutureOwnsStaging ==
    \A f \in Futures : Pending(f) =>
        /\ future[f].onComplete \in staging \ retiredStaging
        /\ \A g \in Futures : future[g].onComplete = future[f].onComplete => g = f

(* A download brings what the calls before it left in the buffer, whatever  *)
(* is submitted, executed or waited for meanwhile: the content written last *)
(* before it in the order of the calls, complete (future.cpp:47).           *)
LastWrite(id) ==
    Max({0} \cup {w \in 1 .. id - 1 : Source(id) \in usesOf[w] /\ ~Download(w)})

DownloadsCurrent ==
    \A id \in DOMAIN delivered : delivered[id] = LastWrite(id)

(* No staging buffer is forgotten: the retirement queue, a pending future   *)
(* or the call under way destroys it, so no download is lost.  README.md:   *)
(* "All voco objects follow RAII and release their Vulkan resources when    *)
(* they go out of scope."                                                   *)
NoDownloadLost ==
    \A id \in staging :
        \/ id \in retiredStaging
        \/ \E f \in Futures : future[f].onComplete = id
        \/ call.id = id

(* Every call on the device that waits for the GPU returns: no submission   *)
(* waits for something that never happens.                                  *)
CallsReturn == call # Idle ~> call = Idle

(* What its owner destroyed is freed, without any further call. *)
FreedInTheEnd ==
    \A o \in Objects : handle[o] = "dropped" ~> o \notin memory
=============================================================================
