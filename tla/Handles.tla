------------------------------- MODULE Handles -------------------------------
(***************************************************************************)
(* src/src/buffer.cpp and pipeline.cpp: Buffer and ComputePipeline are      *)
(* handles.  The Vulkan object moves from variable to variable, and with    *)
(* it the id of the last submission that used it; a command list remembers  *)
(* the variables it was given, and Device::submit stamps those, not the     *)
(* objects (src/src/device.cpp:326).  Module Device identifies the two.     *)
(*                                                                          *)
(* As in Device, calls that submit or copy are serialised by the caller,    *)
(* and the retirement queue appears by its promise.                         *)
(***************************************************************************)
EXTENDS GpuQueue, FiniteSetsExt

CONSTANTS
    BufferVars, PipelineVars, \* the variables of the program
    Lists,
    MaxObjects,               \* bound: the objects ever created
    MaxSubmissions,           \* bound: the submissions of a behaviour
    MovedWhileBound,          \* a variable may change under a list's pointer
    None

ASSUME HandlesAssumption ==
    /\ BufferVars \cap PipelineVars = {}
    /\ MaxObjects \in Nat /\ MaxSubmissions \in Nat
    /\ MovedWhileBound \in BOOLEAN
    /\ None \notin 1 .. MaxObjects
    /\ None \notin BufferVars \cup PipelineVars
    /\ \A used \in SUBSET (BufferVars \cup PipelineVars) : used # None

Vars == BufferVars \cup PipelineVars
Objects == 1 .. MaxObjects

VARIABLES
    object,                   \* what each variable holds: m_buffer, m_pipeline
    lastSubmissionID,         \* m_lastSubmissionID of each variable
    created,                  \* the objects 1 .. created have been created
    memory,                   \* the objects whose Vulkan resources exist
    retiring,                 \* the entries of the retirement queue
    bound,                    \* m_boundBuffers and m_boundPipelines; None: no list
    recorded,                 \* the objects the commands of a list use
    copying,                  \* the copy under way: its variable and its id
    usesOf                    \* the objects each submission uses

handleVars == <<object, lastSubmissionID, created, memory, retiring>>
listVars == <<bound, recorded>>
submissionVars == <<waitsOf, usesOf>>
vars == <<handleVars, listVars, copying, usesOf, waitsOf, gpuVars>>

NoCopy == [var |-> None, id |-> 0]
Use == [buffers : SUBSET Objects, pipelines : SUBSET Objects]
NoUse == [buffers |-> {}, pipelines |-> {}]
UsedBy(use) == use.buffers \cup use.pipelines

TypeOK ==
    /\ object \in [Vars -> Objects \cup {None}]
    /\ lastSubmissionID \in [Vars -> 0 .. Len(waitsOf)]
    /\ created \in 0 .. MaxObjects
    /\ memory \subseteq 1 .. created
    /\ retiring \subseteq [object : 1 .. created, id : 0 .. Len(waitsOf)]
    /\ bound \in [Lists -> (SUBSET Vars) \cup {None}]
    /\ recorded \in [Lists -> Use]
    /\ copying \in [var : BufferVars \cup {None}, id : 0 .. Len(waitsOf)]
    /\ usesOf \in [Submissions -> Use]
    /\ GpuTypeOK

Init ==
    /\ object = [v \in Vars |-> None]
    /\ lastSubmissionID = [v \in Vars |-> 0]
    /\ created = 0 /\ memory = {} /\ retiring = {}
    /\ bound = [l \in Lists |-> None]
    /\ recorded = [l \in Lists |-> NoUse]
    /\ copying = NoCopy
    /\ usesOf = <<>>
    /\ GpuInit

NewID == Len(waitsOf) + 1
MaySubmit == copying = NoCopy /\ Len(waitsOf) < MaxSubmissions

-----------------------------------------------------------------------------
(* Creating, moving and destroying.  Unless MovedWhileBound, the caller     *)
(* leaves the variables alone that a list or a call has a pointer to.       *)

Pointed(v) == \E l \in Lists : bound[l] # None /\ v \in bound[l]

Movable(v) == (MovedWhileBound \/ ~Pointed(v)) /\ copying.var # v

(* Faulty variant: what the GPU has begun to use is destroyed at once. *)
DestroyedAtOnce_Started(v) == lastSubmissionID[v] <= started

(* A buffer that was never submitted; a pipeline is always handed over. *)
DestroyedAtOnce(v) == v \in BufferVars /\ lastSubmissionID[v] = 0

(* destroy, which does nothing if the variable holds nothing. *)
Destroyed(v) == IF object[v] # None /\ DestroyedAtOnce(v) THEN {object[v]} ELSE {}

(* Faulty variant: a variable that was moved from is destroyed again. *)
Entries_MovedFrom(v) ==
    IF ~DestroyedAtOnce(v)
    THEN {[object |-> object[v], id |-> lastSubmissionID[v]]} ELSE {}

Entries(v) ==
    IF object[v] # None /\ ~DestroyedAtOnce(v)
    THEN {[object |-> object[v], id |-> lastSubmissionID[v]]} ELSE {}

Kind(v) == IF v \in BufferVars THEN BufferVars ELSE PipelineVars

(* A new object, in a variable whose old one is destroyed. *)
Create(v) ==
    /\ Movable(v)
    /\ created < MaxObjects
    /\ created' = created + 1
    /\ memory' = (memory \ Destroyed(v)) \cup {created + 1}
    /\ retiring' = retiring \cup Entries(v)
    /\ object' = [object EXCEPT ![v] = created + 1]
    /\ lastSubmissionID' = [lastSubmissionID EXCEPT ![v] = 0]
    /\ UNCHANGED <<listVars, copying, submissionVars, gpuVars>>

(* Faulty variant: the stamp stays behind. *)
MovedStamp_Fresh(w) == 0

MovedStamp(w) == lastSubmissionID[w]

(* Faulty variant: the variable moved from keeps the object. *)
MovedFrom_Kept(w) == object[w]

MovedFrom(w) == None

(* Faulty variant: what the variable held is not destroyed. *)
Overwritten_Forgotten(v) == {}

Overwritten(v) == Entries(v)

(* The move assignment; into a variable that holds nothing, construction.   *)
(* The stamp of the variable moved from is not reset.                       *)
Move(v, w) ==
    /\ v # w /\ w \in Kind(v)
    /\ Movable(v) /\ Movable(w)
    /\ memory' = memory \ Destroyed(v)
    /\ retiring' = retiring \cup Overwritten(v)
    /\ object' = [object EXCEPT ![v] = object[w], ![w] = MovedFrom(w)]
    /\ lastSubmissionID' = [lastSubmissionID EXCEPT ![v] = MovedStamp(w)]
    /\ UNCHANGED <<created, listVars, copying, submissionVars, gpuVars>>

(* The destructor. *)
Destroy(v) ==
    /\ Movable(v)
    /\ object[v] # None
    /\ memory' = memory \ Destroyed(v)
    /\ retiring' = retiring \cup Entries(v)
    /\ object' = [object EXCEPT ![v] = None]
    /\ UNCHANGED <<lastSubmissionID, created, listVars, copying, submissionVars,
                   gpuVars>>

-----------------------------------------------------------------------------
(* Lists *)

Begin(l) ==
    /\ bound[l] = None
    /\ bound' = [bound EXCEPT ![l] = {}]
    /\ UNCHANGED <<recorded, handleVars, copying, submissionVars, gpuVars>>

(* What a list uses once it also uses what v holds. *)
With(use, v) ==
    IF v \in BufferVars THEN [use EXCEPT !.buffers = @ \cup {object[v]}]
                        ELSE [use EXCEPT !.pipelines = @ \cup {object[v]}]

(* bindBuffer or bindPipeline, and a dispatch that uses it. *)
Bind(l, v) ==
    /\ bound[l] # None
    /\ object[v] # None
    /\ bound' = [bound EXCEPT ![l] = @ \cup {v}]
    /\ recorded' = [recorded EXCEPT ![l] = With(recorded[l], v)]
    /\ UNCHANGED <<handleVars, copying, submissionVars, gpuVars>>

Drop(l) ==
    /\ bound[l] # None
    /\ bound' = [bound EXCEPT ![l] = None]
    /\ recorded' = [recorded EXCEPT ![l] = NoUse]
    /\ UNCHANGED <<handleVars, copying, submissionVars, gpuVars>>

Hazards(v) == {lastSubmissionID[b] : b \in v \cap BufferVars} \ (0 .. counter)

(* Faulty variant: the oldest hazard instead of the newest. *)
WaitsFor_Oldest(hazards) == IF hazards = {} THEN {} ELSE {Min(hazards)}

WaitsFor(hazards) == IF hazards = {} THEN {} ELSE {Max(hazards)}

(* Faulty variant: pipelines are not stamped. *)
Stamped_BuffersOnly(pointers) == pointers \cap BufferVars

Stamped(pointers) == pointers

Stamp(pointers, id) ==
    lastSubmissionID' = [v \in Vars |->
        IF v \in Stamped(pointers) THEN id ELSE lastSubmissionID[v]]

Submit(l) ==
    /\ MaySubmit
    /\ bound[l] # None
    /\ Enqueue(WaitsFor(Hazards(bound[l])))
    /\ usesOf' = Append(usesOf, recorded[l])
    /\ Stamp(bound[l], NewID)
    /\ bound' = [bound EXCEPT ![l] = None]
    /\ recorded' = [recorded EXCEPT ![l] = NoUse]
    /\ UNCHANGED <<object, created, memory, retiring, copying, gpuVars>>

-----------------------------------------------------------------------------
(* Copies.  One that blocks waits for the last submission of the buffer,    *)
(* submits and waits again; an upload stamps the variable, a download does  *)
(* not.                                                                     *)

SubmitCopy(v, values) ==
    /\ Enqueue(values)
    /\ usesOf' = Append(usesOf, [NoUse EXCEPT !.buffers = {object[v]}])

CopyAsync(v) ==
    /\ MaySubmit
    /\ object[v] # None
    /\ SubmitCopy(v, WaitsFor(Hazards({v})))
    /\ Stamp({v}, NewID)
    /\ UNCHANGED <<object, created, memory, retiring, listVars, copying, gpuVars>>

(* Faulty variant: the copy waits for the submission to start. *)
Ready_Started(v) == lastSubmissionID[v] <= started

Ready(v) == lastSubmissionID[v] <= counter

CopyBegin(v) ==
    /\ MaySubmit
    /\ object[v] # None
    /\ Ready(v)
    /\ SubmitCopy(v, {})
    /\ copying' = [var |-> v, id |-> NewID]
    /\ UNCHANGED <<handleVars, listVars, gpuVars>>

CopyReturns == copying # NoCopy /\ copying.id <= counter

UploadEnd ==
    /\ CopyReturns
    /\ Stamp({copying.var}, Len(waitsOf))
    /\ copying' = NoCopy
    /\ UNCHANGED <<object, created, memory, retiring, listVars, submissionVars,
                   gpuVars>>

DownloadEnd ==
    /\ CopyReturns
    /\ copying' = NoCopy
    /\ UNCHANGED <<handleVars, listVars, submissionVars, gpuVars>>

-----------------------------------------------------------------------------
(* The retirement thread runs a callback whose id has finished. *)
Retire(entry) ==
    /\ entry.id <= counter
    /\ retiring' = retiring \ {entry}
    /\ memory' = memory \ {entry.object}
    /\ UNCHANGED <<object, lastSubmissionID, created, listVars, copying,
                   submissionVars, gpuVars>>

hostVars == <<handleVars, listVars, copying, usesOf>>
GpuStart == Start /\ UNCHANGED hostVars
GpuSignal == Signal /\ UNCHANGED hostVars

Next ==
    \/ \E v \in Vars : Create(v) \/ Destroy(v) \/ \E w \in Vars : Move(v, w)
    \/ \E l \in Lists : Begin(l) \/ Drop(l) \/ Submit(l) \/ \E v \in Vars : Bind(l, v)
    \/ \E v \in BufferVars : CopyAsync(v) \/ CopyBegin(v)
    \/ UploadEnd
    \/ DownloadEnd
    \/ \E entry \in retiring : Retire(entry)
    \/ GpuStart
    \/ GpuSignal

Spec == Init /\ [][Next]_vars

-----------------------------------------------------------------------------
(* Properties *)

(* Every object has one owner, a variable or an entry of the retirement     *)
(* queue, and none is left that nothing will destroy: a move never leaves   *)
(* two handles or none.                                                     *)
OneOwner ==
    /\ \A o \in memory :
        Cardinality({v \in Vars : object[v] = o})
            + Cardinality({entry \in retiring : entry.object = o}) = 1
    /\ \A v \in Vars : object[v] \in memory \cup {None}
    /\ \A entry \in retiring : entry.object \in memory

(* What a submission, or a list still being recorded, uses exists, whoever  *)
(* has owned it since.                                                      *)
NoUseAfterFree ==
    /\ \A id \in Unfinished : UsedBy(usesOf[id]) \subseteq memory
    /\ \A l \in Lists : UsedBy(recorded[l]) \subseteq memory

(* Submissions that use the same buffer never execute at the same time.     *)
NoOverlap ==
    \A i, j \in Executing :
        i # j => usesOf[i].buffers \cap usesOf[j].buffers = {}

(* The stamp travels with the object: wherever it is now, no unfinished     *)
(* submission that uses it is newer than the stamp found there, but for     *)
(* the copy the caller waits for.                                           *)
StampsCover ==
    \A id \in Unfinished \ {copying.id} :
        /\ \A v \in Vars :
            object[v] \in UsedBy(usesOf[id]) => id <= lastSubmissionID[v]
        /\ \A entry \in retiring :
            entry.object \in UsedBy(usesOf[id]) => id <= entry.id
=============================================================================
