-------------------------------- MODULE Queue --------------------------------
(***************************************************************************)
(* src/src/queue.cpp: command buffers are acquired, recorded, submitted and *)
(* recycled, and a timeline semaphore says which submissions have finished. *)
(* Threads acquire and release concurrently (m_mutex guards m_pool); calls  *)
(* that submit are serialised by a lock of the caller, as the tests do      *)
(* (src/tests/test_threading.cpp:85).                                       *)
(*                                                                          *)
(* m_pool and m_inFlight are sets: which of several reusable buffers is     *)
(* taken, and the order in which retire meets them, make no difference.     *)
(***************************************************************************)
EXTENDS GpuQueue, FiniteSets

CONSTANTS
    Threads,
    CommandBuffers,           \* bound: the buffers that may ever be created
    MaxSubmissions,           \* bound: the submissions of a behaviour
    NoBuffer

ASSUME QueueAssumption ==
    /\ MaxSubmissions \in Nat
    /\ NoBuffer \notin CommandBuffers

VARIABLES
    lastSubmittedID,          \* m_lastSubmittedID
    inFlight,                 \* m_inFlight
    pool,                     \* m_pool
    waitValues,               \* m_waitSemaphoreValues
    submissionID,             \* TrackedCommandBuffer::submissionID
    made,                     \* the buffers created so far
    recorded,                 \* those with commands: begun and not yet reset
    pc,                       \* where each thread is in a call
    held,                     \* the buffer it holds
    target,                   \* the id it waits for
    completed, entry,         \* locals of retire, which one thread runs
    cmdOf,                    \* the buffer of each submission, by id
    asked                     \* the ids its caller asked each to wait for

hostVars == <<lastSubmittedID, inFlight, pool, waitValues, submissionID, made,
              recorded, pc, held, target, completed, entry, cmdOf, asked>>
vars == <<hostVars, waitsOf, started, counter>>

Ids == 1 .. lastSubmittedID

(* The points of a call that the caller's lock covers. *)
SubmitPoints == {"submitting", "submitted", "retiring", "recycling", "erasing"}
Points == {"idle", "creating", "recording", "releasing", "waiting"}
              \cup SubmitPoints

TypeOK ==
    /\ lastSubmittedID \in 0 .. MaxSubmissions
    /\ inFlight \subseteq made
    /\ pool \subseteq made
    /\ made \subseteq CommandBuffers
    /\ recorded \subseteq made
    /\ waitValues \subseteq Ids
    /\ submissionID \in [CommandBuffers -> 0 .. MaxSubmissions]
    /\ pc \in [Threads -> Points]
    /\ held \in [Threads -> made \cup {NoBuffer}]
    /\ target \in [Threads -> 0 .. lastSubmittedID]
    /\ completed \in 0 .. lastSubmittedID
    /\ entry \in inFlight \cup {NoBuffer}
    /\ cmdOf \in [Ids -> CommandBuffers]
    /\ asked \in Seq(SUBSET Ids)
    /\ GpuTypeOK
    /\ waitsOf \in [Ids -> SUBSET Ids]

Init ==
    /\ lastSubmittedID = 0
    /\ inFlight = {} /\ pool = {} /\ made = {} /\ recorded = {}
    /\ waitValues = {}
    /\ submissionID = [c \in CommandBuffers |-> 0]
    /\ pc = [t \in Threads |-> "idle"]
    /\ held = [t \in Threads |-> NoBuffer]
    /\ target = [t \in Threads |-> 0]
    /\ completed = 0 /\ entry = NoBuffer
    /\ cmdOf = <<>> /\ asked = <<>>
    /\ GpuInit

Goto(t, from, to) == pc[t] = from /\ pc' = [pc EXCEPT ![t] = to]
Take(t, c) == held' = [held EXCEPT ![t] = c]

idVars == <<lastSubmittedID, submissionID, cmdOf, waitsOf>>
submissionVars == <<idVars, waitValues, asked>>
retireVars == <<completed, entry>>

-----------------------------------------------------------------------------
(* acquire *)

(* Faulty variant: the buffer handed out stays in the pool. *)
PoolWithout_Kept(c) == pool

PoolWithout(c) == pool \ {c}

(* The locked part finds a buffer; the caller begins to record. *)
Acquire(t) ==
    /\ Goto(t, "idle", "recording")
    /\ \E c \in pool :
        /\ pool' = PoolWithout(c)
        /\ recorded' = recorded \cup {c}
        /\ Take(t, c)
    /\ UNCHANGED <<submissionVars, gpuVars, inFlight, made, target, retireVars>>

(* Bound: a buffer is left for every thread that creates one. *)
BuffersLeft ==
    Cardinality({u \in Threads : pc[u] = "creating"})
        < Cardinality(CommandBuffers \ made)

(* The locked part finds the pool empty. *)
AcquireMiss(t) ==
    /\ BuffersLeft
    /\ pool = {}
    /\ Goto(t, "idle", "creating")
    /\ UNCHANGED <<submissionVars, gpuVars, inFlight, pool, made, recorded,
                   held, target, retireVars>>

(* Unlocked: a pool and a buffer of its own; the caller begins to record. *)
Create(t) ==
    /\ Goto(t, "creating", "recording")
    /\ \E c \in CommandBuffers \ made :
        /\ made' = made \cup {c}
        /\ recorded' = recorded \cup {c}
        /\ Take(t, c)
    /\ UNCHANGED <<submissionVars, gpuVars, inFlight, pool, target, retireVars>>

-----------------------------------------------------------------------------
(* release: reset the buffer, then put it into the pool under the lock *)

ReleaseReset(t) ==
    /\ Goto(t, "recording", "releasing")
    /\ recorded' = recorded \ {held[t]}
    /\ UNCHANGED <<submissionVars, gpuVars, inFlight, pool, made, held, target,
                   retireVars>>

Release(t) ==
    /\ Goto(t, "releasing", "idle")
    /\ pool' = pool \cup {held[t]}
    /\ Take(t, NoBuffer)
    /\ UNCHANGED <<submissionVars, gpuVars, inFlight, made, recorded, target,
                   retireVars>>

-----------------------------------------------------------------------------
(* submit, under the caller's lock *)

EnterSubmit(t) ==
    /\ lastSubmittedID < MaxSubmissions
    /\ \A u \in Threads : pc[u] \notin SubmitPoints
    /\ Goto(t, "recording", "submitting")
    /\ asked' = Append(asked, {})
    /\ UNCHANGED <<idVars, waitValues, gpuVars, inFlight, pool, made, recorded,
                   held, target, retireVars>>

(* The caller waits for ids it was given earlier (Device::submit). *)
AddWaitSemaphore(t, id) ==
    /\ pc[t] = "submitting"
    /\ waitValues' = waitValues \cup {id}
    /\ asked' = [asked EXCEPT ![Len(asked)] = @ \cup {id}]
    /\ UNCHANGED <<idVars, gpuVars, inFlight, pool, made, recorded, pc, held,
                   target, retireVars>>

(* Faulty variant: the id is used without being incremented. *)
NextID_NotIncremented == lastSubmittedID

NextID == lastSubmittedID + 1

(* Faulty variant: the semaphores waited for are not cleared. *)
WaitValuesAfterSubmit_Kept == waitValues

WaitValuesAfterSubmit == {}

(* Faulty variant: the value to signal is also one to wait for. *)
WaitsSubmitted_Own == waitValues \cup {NextID}

WaitsSubmitted == waitValues

SubmitBuffer(t) ==
    /\ Goto(t, "submitting", "submitted")
    /\ lastSubmittedID' = NextID
    /\ submissionID' = [submissionID EXCEPT ![held[t]] = NextID]
    /\ cmdOf' = Append(cmdOf, held[t])
    /\ Enqueue(WaitsSubmitted)
    /\ waitValues' = WaitValuesAfterSubmit
    /\ inFlight' = inFlight \cup {held[t]}
    /\ Take(t, NoBuffer)
    /\ UNCHANGED <<gpuVars, pool, made, recorded, target, retireVars, asked>>

-----------------------------------------------------------------------------
(* retire, which submit ends with *)

RetireBegin(t) ==
    /\ Goto(t, "submitted", "retiring")
    /\ completed' = counter
    /\ UNCHANGED <<submissionVars, gpuVars, inFlight, pool, made, recorded,
                   held, target, entry>>

(* Faulty variant: every buffer up to the last submission is retired. *)
Retirable_Submitted(c) == c \in inFlight /\ submissionID[c] < lastSubmittedID

Retirable(c) == c \in inFlight /\ submissionID[c] <= completed

RetireReset(t, c) ==
    /\ Goto(t, "retiring", "recycling")
    /\ Retirable(c)
    /\ recorded' = recorded \ {c}
    /\ entry' = c
    /\ UNCHANGED <<submissionVars, gpuVars, inFlight, pool, made, held, target,
                   completed>>

(* The locked part: from here on another thread can acquire the buffer.     *)
RetirePush(t) ==
    /\ Goto(t, "recycling", "erasing")
    /\ pool' = pool \cup {entry}
    /\ UNCHANGED <<submissionVars, gpuVars, inFlight, made, recorded, held,
                   target, retireVars>>

(* Faulty variant: the entry recycled stays in m_inFlight. *)
InFlightWithout_Kept(c) == inFlight

InFlightWithout(c) == inFlight \ {c}

(* After the unlock. *)
RetireErase(t) ==
    /\ Goto(t, "erasing", "retiring")
    /\ inFlight' = InFlightWithout(entry)
    /\ entry' = NoBuffer
    /\ UNCHANGED <<submissionVars, gpuVars, pool, made, recorded, held, target,
                   completed>>

RetireEnd(t) ==
    /\ Goto(t, "retiring", "idle")
    /\ \A c \in inFlight : ~Retirable(c)
    /\ UNCHANGED <<submissionVars, gpuVars, inFlight, pool, made, recorded,
                   held, target, retireVars>>

-----------------------------------------------------------------------------
(* wait *)

WaitBegin(t, id) ==
    /\ Goto(t, "idle", "waiting")
    /\ target' = [target EXCEPT ![t] = id]
    /\ UNCHANGED <<submissionVars, gpuVars, inFlight, pool, made, recorded,
                   held, retireVars>>

(* Faulty variant: the wait is for a later value than the one asked for. *)
WaitOver_Later(t) == target[t] < counter

WaitOver(t) == target[t] <= counter

WaitEnd(t) ==
    /\ WaitOver(t)
    /\ Goto(t, "waiting", "idle")
    /\ target' = [target EXCEPT ![t] = 0]
    /\ UNCHANGED <<submissionVars, gpuVars, inFlight, pool, made, recorded,
                   held, retireVars>>

-----------------------------------------------------------------------------
GpuStart == Start /\ UNCHANGED hostVars
GpuSignal == Signal /\ UNCHANGED hostVars

-----------------------------------------------------------------------------
(* A call that has begun; acquire, release and submit after their locks. *)
InCall(t) ==
    \/ Create(t) \/ Release(t) \/ SubmitBuffer(t) \/ RetireBegin(t)
    \/ \E c \in CommandBuffers : RetireReset(t, c)
    \/ RetirePush(t) \/ RetireErase(t) \/ RetireEnd(t) \/ WaitEnd(t)

Call(t) ==
    \/ Acquire(t) \/ AcquireMiss(t) \/ ReleaseReset(t) \/ EnterSubmit(t)
    \/ \E id \in Ids : AddWaitSemaphore(t, id) \/ WaitBegin(t, id)

Next ==
    \/ \E t \in Threads : Call(t) \/ InCall(t)
    \/ GpuStart
    \/ GpuSignal

SafetySpec == Init /\ [][Next]_vars

(* Calls that can go on do, and so does the GPU; no call need be made. *)
Spec ==
    /\ SafetySpec
    /\ \A t \in Threads : WF_vars(InCall(t))
    /\ WF_vars(GpuStart)
    /\ WF_vars(GpuSignal)

-----------------------------------------------------------------------------
(* Properties *)

Pending(c) == \E id \in Unfinished : cmdOf[id] = c

(* The entries of m_inFlight that retire has not put into the pool yet: the *)
(* one it has is still in the list until it is erased (queue.cpp:156), when *)
(* another thread may have acquired or even released it again.              *)
Unretired == {c \in inFlight : c = entry => \A t \in Threads : pc[t] # "erasing"}

(* A buffer has one owner: the pool, the list of those in flight, or one    *)
(* thread, and none that was created is lost.                               *)
OneOwner ==
    /\ pool \cap Unretired = {}
    /\ \A t \in Threads : held[t] # NoBuffer =>
        /\ held[t] \notin pool \cup Unretired
        /\ \A u \in Threads : held[u] = held[t] => u = t
    /\ \A c \in made :
        c \in pool \cup Unretired \/ \E t \in Threads : held[t] = c

(* What a thread records stays recorded until it submits or releases it,    *)
(* although retire may still have the entry of an earlier submission of the *)
(* buffer in its list (queue.cpp:151).                                      *)
RecordingKept ==
    \A t \in Threads :
        pc[t] \in {"recording", "submitting"} => held[t] \in recorded

(* vkResetCommandPool is never called for a buffer the GPU still executes. *)
ResetOnlyFinished == [][\A c \in recorded \ recorded' : ~Pending(c)]_vars

(* What the pool hands out was reset, and no submission refers to it. *)
PoolReusable == \A c \in pool : c \notin recorded /\ ~Pending(c)

(* Every submission waits for what its own caller asked for, all of it and  *)
(* nothing that was meant for another: the values pass through members      *)
(* (queue.cpp:185) that no lock of the queue protects.                      *)
WaitsAsAsked == SubSeq(asked, 1, Len(waitsOf)) = waitsOf

(* As long as a submission is unfinished the GPU can start or finish one:   *)
(* none waits for a value that only it, or a later one, would signal.       *)
GpuCanGoOn ==
    counter < lastSubmittedID =>
        \/ counter < started
        \/ \A value \in waitsOf[started + 1] : value <= counter

(* Every call returns, the wait for a submission among them. *)
CallsReturn ==
    \A t \in Threads :
        pc[t] \in {"creating", "releasing", "waiting"} \cup SubmitPoints
            ~> pc[t] \in {"idle", "recording"}

(* The queue is a timeline: consecutive ids, finished in order, and each    *)
(* finishes, because a submission can only wait for an earlier one.         *)
Order == INSTANCE Timeline WITH submitted <- lastSubmittedID,
                                finished <- counter
ImplementsTimeline == Order!TimelineSpec
=============================================================================
