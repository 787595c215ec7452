--------------------------- MODULE RetirementQueue ---------------------------
(***************************************************************************)
(* src/src/retirement_queue.cpp: objects that the GPU may still be using    *)
(* are pushed with the id of their last submission and destroyed by a       *)
(* background thread once that submission has finished.  Any number of      *)
(* threads push, one thread retires, and the destructor stops that thread   *)
(* and destroys what is left.                                               *)
(*                                                                          *)
(* One step is one critical section or one access to shared state between   *)
(* them.  m_retirementMutex is held by the retirement thread exactly at the *)
(* control points of HoldsMutex; a push takes and releases it in one step.  *)
(***************************************************************************)
EXTENDS Timeline, Sequences, SequencesExt

CONSTANT Resources            \* the objects that may be given up

VARIABLES
    pending,                  \* m_pending: a sequence of resources
    idOf,                     \* PendingDestroy::submissionID
    running,                  \* m_running
    retirer,                  \* where the retirement thread is
    deletedEntries,           \* its local vector
    pusher,                   \* how far the push of each resource is
    destructor,               \* where ~RetirementQueue is
    destroyCalls              \* how often each destroy callback has run

vars == <<submitted, finished, pending, idOf, running, retirer,
          deletedEntries, pusher, destructor, destroyCalls>>

timelineOnly == <<pending, idOf, running, retirer, deletedEntries, pusher,
                  destructor, destroyCalls>>

RetirerPoints ==
    {"loop", "locking", "toBlock", "blocked", "holding", "destroying", "exited"}
PusherPoints == {"live", "inserted", "pushed"}
DestructorPoints ==
    {"alive", "notifying", "joining", "waitIdle", "draining", "done"}

TypeOK ==
    /\ TimelineTypeOK
    /\ pending \in Seq(Resources)
    /\ idOf \in [Resources -> 0 .. MaxSubmissions]
    /\ running \in BOOLEAN
    /\ retirer \in RetirerPoints
    /\ deletedEntries \in Seq(Resources)
    /\ pusher \in [Resources -> PusherPoints]
    /\ destructor \in DestructorPoints
    /\ destroyCalls \in [Resources -> {0, 1}]

Init ==
    /\ TimelineInit
    /\ pending = <<>>
    /\ idOf = [r \in Resources |-> 0]
    /\ running = TRUE
    /\ retirer = "loop"
    /\ deletedEntries = <<>>
    /\ pusher = [r \in Resources |-> "live"]
    /\ destructor = "alive"
    /\ destroyCalls = [r \in Resources |-> 0]

(* Faulty variant: the mutex is given up before the wait begins. *)
HoldsMutex_NotToBlock == retirer = "holding"

(* Between the evaluation of the wait's predicate and the block itself the  *)
(* thread still holds the mutex.                                            *)
HoldsMutex == retirer \in {"toBlock", "holding"}

(* m_retirementCV.notify_one(): the retirement thread is the only waiter,   *)
(* and nothing is remembered when it is not waiting.                        *)
Notify ==
    retirer' = IF retirer = "blocked" THEN "locking" ELSE retirer

Due(r) == idOf[r] <= finished

Callback(r) == destroyCalls' = [destroyCalls EXCEPT ![r] = @ + 1]

-----------------------------------------------------------------------------
(* push *)

(* Faulty variant: the entry is placed as if m_pending held no later id. *)
InsertPosition_Back(id, k) == k = Len(pending) + 1

(* Position k is what std::upper_bound returns for id. *)
InsertPosition(id, k) ==
    /\ \A j \in 1 .. k - 1 : idOf[pending[j]] <= id
    /\ \A j \in k .. Len(pending) : id < idOf[pending[j]]

PushInsert(r, id) ==
    /\ destructor = "alive"
    /\ pusher[r] = "live"
    /\ ~HoldsMutex
    /\ \E k \in 1 .. Len(pending) + 1 :
        /\ InsertPosition(id, k)
        /\ pending' = InsertAt(pending, k, r)
    /\ idOf' = [idOf EXCEPT ![r] = id]
    /\ pusher' = [pusher EXCEPT ![r] = "inserted"]
    /\ UNCHANGED <<submitted, finished, running, retirer, deletedEntries,
                   destructor, destroyCalls>>

PushNotify(r) ==
    /\ pusher[r] = "inserted"
    /\ pusher' = [pusher EXCEPT ![r] = "pushed"]
    /\ Notify
    /\ UNCHANGED <<submitted, finished, pending, idOf, running, deletedEntries,
                   destructor, destroyCalls>>

-----------------------------------------------------------------------------
(* retirementLoop *)

retirerOnly == <<submitted, finished, pending, idOf, running, deletedEntries,
                 pusher, destructor, destroyCalls>>

LoopTest ==
    /\ retirer = "loop"
    /\ retirer' = IF running THEN "locking" ELSE "exited"
    /\ UNCHANGED retirerOnly

(* Lock, at first or on waking up, and evaluate the predicate of the wait. *)
EvaluatePredicate ==
    /\ retirer = "locking"
    /\ retirer' = IF pending # <<>> \/ ~running THEN "holding" ELSE "toBlock"
    /\ UNCHANGED retirerOnly

(* Release the mutex and start to wait, in one step. *)
Block ==
    /\ retirer = "toBlock"
    /\ retirer' = "blocked"
    /\ UNCHANGED retirerOnly

SpuriousWakeup ==
    /\ retirer = "blocked"
    /\ retirer' = "locking"
    /\ UNCHANGED retirerOnly

Continue ==
    /\ retirer = "holding"
    /\ pending = <<>>
    /\ retirer' = "loop"
    /\ UNCHANGED retirerOnly

(* Faulty variant: the loop also takes the first entry that is not due. *)
DrainLength_OneTooMany(k) ==
    /\ k > 0
    /\ \A j \in 1 .. k - 1 : Due(pending[j])
    /\ k < Len(pending) => ~Due(pending[k])

(* k entries are popped: all due, and the next one is not. *)
DrainLength(k) ==
    /\ \A j \in 1 .. k : Due(pending[j])
    /\ k < Len(pending) => ~Due(pending[k + 1])

(* Faulty variants: an entry is popped without being collected, and the     *)
(* entries are collected without being popped.                              *)
Popped_OneMore(k) == SubSeq(pending, k + 2, Len(pending))
Popped_None(k) == pending

Popped(k) == SubSeq(pending, k + 1, Len(pending))

Drain ==
    /\ retirer = "holding"
    /\ pending # <<>>
    /\ \E k \in 0 .. Len(pending) :
        /\ DrainLength(k)
        /\ deletedEntries' = SubSeq(pending, 1, k)
        /\ pending' = Popped(k)
    /\ retirer' = "destroying"
    /\ UNCHANGED <<submitted, finished, idOf, running, pusher, destructor,
                   destroyCalls>>

DestroyEntry ==
    /\ retirer = "destroying"
    /\ deletedEntries # <<>>
    /\ Callback(Head(deletedEntries))
    /\ deletedEntries' = Tail(deletedEntries)
    /\ UNCHANGED <<submitted, finished, pending, idOf, running, retirer, pusher,
                   destructor>>

DestroyDone ==
    /\ retirer = "destroying"
    /\ deletedEntries = <<>>
    /\ retirer' = "loop"
    /\ UNCHANGED retirerOnly

-----------------------------------------------------------------------------
(* ~RetirementQueue: the objects are gone, so no push is under way. *)

(* m_running = false, without the mutex. *)
StopRunning ==
    /\ destructor = "alive"
    /\ \A r \in Resources : pusher[r] # "inserted"
    /\ running' = FALSE
    /\ destructor' = "notifying"
    /\ UNCHANGED <<submitted, finished, pending, idOf, retirer, deletedEntries,
                   pusher, destroyCalls>>

StopNotify ==
    /\ destructor = "notifying"
    /\ Notify
    /\ destructor' = "joining"
    /\ UNCHANGED <<submitted, finished, pending, idOf, running, deletedEntries,
                   pusher, destroyCalls>>

Join ==
    /\ destructor = "joining"
    /\ retirer = "exited"
    /\ destructor' = "waitIdle"
    /\ UNCHANGED <<submitted, finished, pending, idOf, running, retirer,
                   deletedEntries, pusher, destroyCalls>>

(* m_queue.wait(m_queue.getLastSubmittedID()) *)
WaitIdle ==
    /\ destructor = "waitIdle"
    /\ finished >= submitted
    /\ destructor' = "draining"
    /\ UNCHANGED <<submitted, finished, pending, idOf, running, retirer,
                   deletedEntries, pusher, destroyCalls>>

DestroyPending ==
    /\ destructor = "draining"
    /\ pending # <<>>
    /\ Callback(Head(pending))
    /\ pending' = Tail(pending)
    /\ UNCHANGED <<submitted, finished, idOf, running, retirer, deletedEntries,
                   pusher, destructor>>

Destructed ==
    /\ destructor = "draining"
    /\ pending = <<>>
    /\ destructor' = "done"
    /\ UNCHANGED <<submitted, finished, pending, idOf, running, retirer,
                   deletedEntries, pusher, destroyCalls>>

-----------------------------------------------------------------------------
(* The rest of the device: it submits while it is alive, the GPU works on. *)
UserSubmit == destructor = "alive" /\ Submit /\ UNCHANGED timelineOnly
GpuFinish == Finish /\ UNCHANGED timelineOnly

Retire ==
    \/ LoopTest \/ EvaluatePredicate \/ Block \/ Continue
    \/ Drain \/ DestroyEntry \/ DestroyDone

Destruct ==
    \/ StopNotify \/ Join \/ WaitIdle \/ DestroyPending \/ Destructed

Next ==
    \/ UserSubmit
    \/ GpuFinish
    \/ \E r \in Resources :
        \/ \E id \in 0 .. submitted : PushInsert(r, id)
        \/ PushNotify(r)
    \/ Retire
    \/ SpuriousWakeup
    \/ StopRunning
    \/ Destruct

SafetySpec == Init /\ [][Next]_vars

(* Threads that can run do run and the GPU works on; nothing makes a user   *)
(* submit, push or destroy, and nothing makes a spurious wakeup happen.     *)
Fairness ==
    /\ WF_vars(GpuFinish)
    /\ \A r \in Resources : WF_vars(PushNotify(r))
    /\ WF_vars(Retire)
    /\ WF_vars(Destruct)

Spec == SafetySpec /\ Fairness

-----------------------------------------------------------------------------
(* Properties *)

(* A pass of the retirement loop leaves nothing behind that could have been *)
(* destroyed: it stops at the first entry that is not due, which is right   *)
(* only as long as push keeps m_pending ordered by submission id.           *)
DrainIsComplete ==
    [][Drain => \A i \in 1 .. Len(pending') : ~Due(pending'[i])]_vars

(* The retirement thread never sleeps on an entry nobody will wake it for:  *)
(* when it waits, or is about to, and there is an entry, the push that      *)
(* inserted one has still to notify.                                        *)
NoLostPush ==
    retirer \in {"toBlock", "blocked"} /\ pending # <<>> =>
        \E r \in Resources : pusher[r] = "inserted"

(* When the destructor is done every object pushed was destroyed, once. *)
NothingLeaked ==
    destructor = "done" =>
        \A r \in Resources :
            destroyCalls[r] = IF pusher[r] = "live" THEN 0 ELSE 1

(* The queue does what it promises: each object once, only after its last   *)
(* submission, and in the end always (also when the destructor cuts in).    *)
Promise == INSTANCE DeferredDestruction
    WITH doomed <- {r \in Resources : pusher[r] # "live"}
ImplementsDeferredDestruction == Promise!Spec

(* Device::~Device (src/src/device.cpp:106) expects the destructor to       *)
(* return once the GPU is idle.                                             *)
ShutdownReturns == destructor # "alive" ~> destructor = "done"
=============================================================================
