----------------------------- MODULE DeviceProofs -----------------------------
(***************************************************************************)
(* Proofs about Device, for any buffers, pipelines, futures and bounds.     *)
(*                                                                          *)
(* What holds whatever the caller does is proved without a condition.  That *)
(* no download is lost needs that no pending future is assigned another     *)
(* (~AssignOverPending), what a download brings that no pending future is   *)
(* moved onto itself (~SelfMoves): it waits for nothing after that.         *)
(***************************************************************************)
EXTENDS Device, GpuQueueProofs

-----------------------------------------------------------------------------
(* The inductive invariant *)

Shape ==
    /\ TypeOK
    /\ usesOf \in Seq(SUBSET Objects) /\ Len(usesOf) = Len(waitsOf)
    /\ Len(waitsOf) <= MaxSubmissions

(* The call that waits for a copy it submitted.                             *)
Copying == call.op \in {"copyingToDevice", "copyingToHost"}

(* What a call has been given stays while it is under way, and no other     *)
(* call submits.                                                            *)
Calls ==
    /\ call.op = "idle" => call = Idle
    /\ call.op # "idle" => Live(call.uses)
    /\ call.op \notin {"idle", "submit"} => \E b \in Buffers : call.uses = {b}
    /\ call.op \in {"submit", "toDevice", "toHost"} =>
        call.id <= counter /\ Len(waitsOf) < MaxSubmissions
    /\ call.op = "accessing" => \A b \in call.uses : lastSubmissionID[b] <= counter
    /\ Copying => /\ call.id = Len(waitsOf) /\ call.id # 0
                  /\ usesOf[call.id] = call.uses

HandlesExist == \A o \in Objects : handle[o] = "live" => o \in memory

(* Every unfinished use of an object is covered by its stamp, but for the   *)
(* copy the call under way waits for.                                       *)
StampsCover ==
    \A id \in Unfinished : ~(Copying /\ id = call.id) =>
        \A o \in usesOf[id] : id <= lastSubmissionID[o]

UsesExist == \A id \in Unfinished : usesOf[id] \subseteq memory

(* A submission waits for an earlier one that uses the same buffer, or for  *)
(* a later one than that, and starts once its waits are over.               *)
Ordered ==
    /\ \A id \in 1 .. started : \A value \in waitsOf[id] : value <= counter
    /\ \A id \in Submissions, i \in Unfinished :
        i < id /\ usesOf[i] \cap usesOf[id] \cap Buffers # {} =>
            \E value \in waitsOf[id] : i <= value

(* Whoever will destroy a staging buffer is the only one to do so, and does *)
(* not before the copy has finished, unless a self-move made it forget.     *)
StagingOwned ==
    /\ FutureOwnsStaging
    /\ Copying => /\ call.id \in staging \ retiredStaging
                  /\ \A f \in Futures : future[f].onComplete # call.id

Timely ==
    ~SelfMoves =>
        /\ \A f \in Futures : Pending(f) => future[f].id = future[f].onComplete
        /\ \A id \in Unfinished : id \in DOMAIN copies => id \in staging

(* Who will bring the data of a download, and from where.                   *)
Downloads ==
    /\ \A id \in DOMAIN copies : \E b \in Buffers : usesOf[id] = {b}
    /\ \A f \in Futures : Pending(f) => Download(future[f].onComplete)
    /\ call.op = "copyingToHost" => Download(call.id)

(* The submissions among the first n that write b, after none.              *)
Writers(b, n) == {0} \cup {w \in 1 .. n : b \in usesOf[w] /\ ~Download(w)}

(* The buffers have what the finished submissions wrote, the staging        *)
(* buffers what the downloads found, and the host got that.                 *)
Data ==
    /\ \A b \in Buffers : content[b] = Max(Writers(b, counter))
    /\ \A id \in 1 .. started : Download(id) =>
        id \in DOMAIN fetched /\ fetched[id] = LastWrite(id)
    /\ \A id \in DOMAIN delivered :
        /\ Download(id)
        /\ ~SelfMoves => id <= counter /\ delivered[id] = LastWrite(id)

IInv ==
    /\ Shape
    /\ Calls
    /\ HandlesExist
    /\ StampsCover
    /\ UsesExist
    /\ Ordered
    /\ StagingOwned
    /\ Timely
    /\ Downloads
    /\ Data

(* The same for a program that does not assign over pending futures.        *)
NoneForgotten ==
    \A id \in staging :
        \/ id \in retiredStaging
        \/ \E f \in Futures : future[f].onComplete = id
        \/ Copying /\ call.id = id


LEMMA InitIInv == Init => IInv
<1> SUFFICES ASSUME Init PROVE IInv
  OBVIOUS
<1>1. /\ Len(waitsOf) = 0 /\ started = 0 /\ counter = 0
      /\ Submissions = {} /\ Unfinished = {}
  BY DEF Init, GpuInit, Submissions, Unfinished
<1>2. Shape
  <2>1. /\ waitsOf \in Seq(SUBSET Nat) /\ usesOf \in Seq(SUBSET Objects)
        /\ Len(usesOf) = 0 /\ usesOf \in [{} -> SUBSET Objects]
    BY DEF Init, GpuInit
  <2>2. DOMAIN copies = {} /\ DOMAIN delivered = {} /\ DOMAIN fetched = {}
    BY DEF Init
  <2> QED
    BY <1>1, <2>1, <2>2, DeviceAssumption
       DEF Init, Shape, TypeOK, GpuTypeOK, Idle, NoFuture, Operations
<1>3. ~Copying /\ Calls
  BY DEF Init, Copying, Calls, Idle
<1>4. HandlesExist /\ StampsCover /\ UsesExist
  BY <1>1 DEF Init, HandlesExist, StampsCover, UsesExist
<1>5. Ordered
  BY <1>1 DEF Ordered
<1>6. StagingOwned /\ Timely /\ Downloads
  BY <1>1, <1>3
     DEF Init, StagingOwned, FutureOwnsStaging, Timely, Downloads, Pending, NoFuture,
         Idle
<1>7. Data
  <2>1. ASSUME NEW b \in Buffers PROVE content[b] = Max(Writers(b, counter))
    <3>1. Writers(b, counter) = {0}
      BY <1>1 DEF Writers
    <3>2. Max({0}) = 0
      BY MaxIs
    <3> QED
      BY <3>1, <3>2 DEF Init
  <2>2. DOMAIN delivered = {}
    BY DEF Init
  <2> QED
    BY <1>1, <2>1, <2>2 DEF Data
<1> QED
  BY <1>2, <1>3, <1>4, <1>5, <1>6, <1>7 DEF IInv

-----------------------------------------------------------------------------
(* Facts about the state and the operators of the module *)

LEMMA ShapeFacts ==
    ASSUME Shape
    PROVE  /\ GpuTypeOK
           /\ Len(waitsOf) \in Nat /\ counter \in Nat /\ started \in Nat
           /\ counter <= started /\ started <= Len(waitsOf)
           /\ Submissions = 1 .. Len(waitsOf)
           /\ Unfinished = counter + 1 .. Len(waitsOf)
           /\ \A id \in Submissions : usesOf[id] \in SUBSET Objects
           /\ lastSubmissionID \in [Objects -> 0 .. Len(waitsOf)]
           /\ call \in [op : Operations, uses : SUBSET Objects, id : 0 .. Len(waitsOf)]
           /\ future \in [Futures -> [id : 0 .. Len(waitsOf), onComplete : 0 .. Len(waitsOf)]]
           /\ staging \subseteq DOMAIN copies /\ DOMAIN copies \subseteq Submissions
           /\ Buffers \subseteq Objects
BY IdFacts DEF Shape, TypeOK, Objects

LEMMA OrderedKept ==
    ASSUME Ordered, UNCHANGED <<waitsOf, usesOf, started, counter>>
    PROVE  Ordered'
BY DEF Ordered, Submissions, Unfinished

LEMMA OperatorsKept ==
    ASSUME UNCHANGED <<usesOf, copies>>
    PROVE  /\ \A id : Download(id)' = Download(id) /\ LastWrite(id)' = LastWrite(id)
           /\ \A b, n : Writers(b, n)' = Writers(b, n)
<1>1. \A id : Download(id)' = Download(id) /\ LastWrite(id)' = LastWrite(id)
  BY DEF Download, LastWrite, Source
<1>2. \A b, n : Writers(b, n)' = Writers(b, n)
  BY <1>1 DEF Writers
<1> QED
  BY <1>1, <1>2

LEMMA TimelyKept ==
    ASSUME Timely, UNCHANGED <<waitsOf, counter, future, copies, staging>>
    PROVE  Timely'
BY DEF Timely, Pending, Submissions, Unfinished

LEMMA DataKept ==
    ASSUME Data, UNCHANGED <<usesOf, copies, started, counter, content, fetched,
                             delivered>>
    PROVE  Data'
BY OperatorsKept DEF Data

(* The host gets what a download that has finished found.                   *)
LEMMA DeliverData ==
    ASSUME IInv, NEW id \in Submissions, Download(id), ~SelfMoves => id <= counter,
           Deliver(id), UNCHANGED <<usesOf, copies, started, counter, content, fetched>>
    PROVE  Data' /\ DOMAIN delivered' = DOMAIN delivered \cup {id}
<1>1. Shape /\ Data
  BY DEF IInv
<1>2. /\ DOMAIN delivered' = DOMAIN delivered \cup {id}
      /\ \A k \in DOMAIN delivered : k # id => delivered'[k] = delivered[k]
  <2>1. PICK v : delivered' = Put(delivered, id, v)
    BY DEF Deliver
  <2>2. DOMAIN delivered' = DOMAIN delivered \cup {id}
    BY <2>1 DEF Put
  <2>3. \A k \in DOMAIN delivered : k # id => delivered'[k] = delivered[k]
    BY <2>1 DEF Put
  <2> QED
    BY <2>2, <2>3
<1>3. ~SelfMoves => delivered'[id] = LastWrite(id)
  <2> SUFFICES ASSUME ~SelfMoves PROVE delivered'[id] = LastWrite(id)
    OBVIOUS
  <2>1. id \in 1 .. started
    BY <1>1, ShapeFacts
  <2>2. fetched[id] = LastWrite(id)
    BY <1>1, <2>1 DEF Data
  <2>3. delivered' = Put(delivered, id, fetched[id])
    BY DEF Deliver
  <2> QED
    BY <2>2, <2>3 DEF Put
<1>4. \A k \in DOMAIN delivered' :
         /\ Download(k)
         /\ ~SelfMoves => k <= counter /\ delivered'[k] = LastWrite(k)
  BY <1>1, <1>2, <1>3 DEF Data
<1> QED
  BY <1>1, <1>2, <1>4, OperatorsKept DEF Data


-----------------------------------------------------------------------------
(* Steps that begin or continue a call without submitting                   *)

LEMMA CallStep ==
    ASSUME IInv,
           UNCHANGED <<handle, memory, lastSubmissionID, staging, retiredStaging,
                       future, delivered, usesOf, copies, waitsOf, started,
                       counter, content, fetched>>,
           ~Copying, ~Copying', Calls',
           call' \in [op : Operations, uses : SUBSET Objects, id : 0 .. Len(waitsOf)]
    PROVE  IInv'
<1>1. /\ Shape /\ HandlesExist /\ StampsCover /\ UsesExist /\ Ordered
      /\ StagingOwned /\ Timely /\ Downloads /\ Data
  BY DEF IInv
<1>2. Submissions' = Submissions /\ Unfinished' = Unfinished
  BY DEF Submissions, Unfinished
<1>3. Shape'
  BY <1>1, <1>2 DEF Shape, TypeOK, GpuTypeOK
<1>4. HandlesExist' /\ UsesExist'
  BY <1>1, <1>2 DEF HandlesExist, UsesExist
<1>5. StampsCover'
  BY <1>1, <1>2 DEF StampsCover
<1>6. StagingOwned'
  BY <1>1, <1>2 DEF StagingOwned, FutureOwnsStaging, Pending
<1>7. Downloads'
  BY <1>1, OperatorsKept DEF Downloads, Pending, Copying
<1> QED
  BY <1>1, <1>3, <1>4, <1>5, <1>6, <1>7, OrderedKept, TimelyKept, DataKept DEF IInv

LEMMA SubmitBeginStep ==
    ASSUME IInv, NEW objects \in SUBSET Objects, SubmitBegin(objects)
    PROVE  IInv'
<1>1. /\ call = Idle /\ Len(waitsOf) < MaxSubmissions
      /\ Live(objects)
      /\ call' = [op |-> "submit", uses |-> objects, id |-> counter]
      /\ UNCHANGED <<handle, memory, lastSubmissionID, staging, retiredStaging,
                     future, delivered, usesOf, copies, waitsOf, started,
                     counter, content, fetched>>
  BY DEF SubmitBegin, MaySubmit, submissionVars, stagingVars, objectVars,
         executionVars, gpuVars
<1>2. Shape
  BY DEF IInv
<1>3. ~Copying /\ ~Copying'
  BY <1>1 DEF Copying, Idle
<1>4. call' \in [op : Operations, uses : SUBSET Objects, id : 0 .. Len(waitsOf)]
  BY <1>1, <1>2, ShapeFacts DEF Operations
<1>5. Calls'
  BY <1>1, <1>2, <1>3, ShapeFacts DEF Calls, Live
<1> QED
  BY <1>1, <1>3, <1>4, <1>5, CallStep

LEMMA CopyBeginStep ==
    ASSUME IInv, NEW op \in {"toDevice", "toHost"}, NEW b \in Buffers,
           CopyBegin(op, b)
    PROVE  IInv'
<1>1. /\ call = Idle /\ Len(waitsOf) < MaxSubmissions
      /\ Live({b})
      /\ call' = [op |-> op, uses |-> {b}, id |-> 0]
      /\ UNCHANGED <<handle, memory, lastSubmissionID, staging, retiredStaging,
                     future, delivered, usesOf, copies, waitsOf, started,
                     counter, content, fetched>>
  BY DEF CopyBegin, MaySubmit, submissionVars, stagingVars, objectVars,
         executionVars, gpuVars
<1>2. Shape
  BY DEF IInv
<1>3. ~Copying /\ ~Copying'
  BY <1>1 DEF Copying, Idle
<1>4. call' \in [op : Operations, uses : SUBSET Objects, id : 0 .. Len(waitsOf)]
  BY <1>1, <1>2, ShapeFacts DEF Operations
<1>5. Calls'
  BY <1>1, <1>2, <1>3, ShapeFacts DEF Calls, Live
<1> QED
  BY <1>1, <1>3, <1>4, <1>5, CallStep

LEMMA AccessBeginStep ==
    ASSUME IInv, NEW b \in Buffers, AccessBegin(b)
    PROVE  IInv'
<1>1. /\ call.op \in {"toDevice", "toHost"} /\ call.uses = {b}
      /\ lastSubmissionID[b] <= counter
      /\ call' = [call EXCEPT !.op = "accessing"]
      /\ UNCHANGED <<handle, memory, lastSubmissionID, staging, retiredStaging,
                     future, delivered, usesOf, copies, waitsOf, started,
                     counter, content, fetched>>
  BY DEF AccessBegin, Ready, submissionVars, stagingVars, objectVars,
         executionVars, gpuVars
<1>2. Shape /\ Calls
  BY DEF IInv
<1>3. ~Copying
  BY <1>1 DEF Copying
<1>4. call \in [op : Operations, uses : SUBSET Objects, id : 0 .. Len(waitsOf)]
  BY <1>2, ShapeFacts
<1>5. call'.op = "accessing" /\ call'.uses = {b}
  BY <1>1, <1>4
<1>6. ~Copying'
  BY <1>5 DEF Copying
<1>7. call' \in [op : Operations, uses : SUBSET Objects, id : 0 .. Len(waitsOf)]
  BY <1>1, <1>4 DEF Operations
<1>8. Calls'
  BY <1>1, <1>2, <1>5, <1>6 DEF Calls, Live
<1> QED
  BY <1>1, <1>3, <1>6, <1>7, <1>8, CallStep

LEMMA AccessEndStep ==
    ASSUME IInv, AccessEnd
    PROVE  IInv'
<1>1. /\ call.op = "accessing" /\ call' = Idle
      /\ UNCHANGED <<handle, memory, lastSubmissionID, staging, retiredStaging,
                     future, delivered, usesOf, copies, waitsOf, started,
                     counter, content, fetched>>
  BY DEF AccessEnd, submissionVars, stagingVars, objectVars, executionVars, gpuVars
<1>2. Shape
  BY DEF IInv
<1>3. ~Copying /\ ~Copying'
  BY <1>1 DEF Copying, Idle
<1>4. call' \in [op : Operations, uses : SUBSET Objects, id : 0 .. Len(waitsOf)]
  BY <1>1, <1>2, ShapeFacts DEF Operations, Idle
<1>5. Calls'
  BY <1>1, <1>3 DEF Calls, Idle
<1> QED
  BY <1>1, <1>3, <1>4, <1>5, CallStep

-----------------------------------------------------------------------------
(* Steps of the objects: creation and destruction                             *)

LEMMA ObjectStep ==
    ASSUME IInv,
           UNCHANGED <<lastSubmissionID, call, staging, retiredStaging, future,
                       delivered, usesOf, copies, waitsOf, started, counter, content,
                       fetched>>,
           handle' \in [Objects -> {"unborn", "live", "dropped"}],
           memory' \subseteq {o \in Objects : handle'[o] # "unborn"},
           call.op # "idle" => Live(call.uses)',
           HandlesExist', UsesExist'
    PROVE  IInv'
<1>1. /\ Shape /\ Calls /\ StampsCover /\ Ordered /\ StagingOwned /\ Timely
      /\ Downloads /\ Data
  BY DEF IInv
<1>2. Submissions' = Submissions /\ Unfinished' = Unfinished /\ Copying' = Copying
  BY DEF Submissions, Unfinished, Copying
<1>3. Shape'
  BY <1>1, <1>2 DEF Shape, TypeOK, GpuTypeOK
<1>4. Calls'
  BY <1>1, <1>2 DEF Calls, Live
<1>5. StampsCover'
  BY <1>1, <1>2 DEF StampsCover
<1>6. StagingOwned'
  BY <1>1, <1>2 DEF StagingOwned, FutureOwnsStaging, Pending
<1>7. Downloads'
  BY <1>1, OperatorsKept DEF Downloads, Pending
<1> QED
  BY <1>1, <1>3, <1>4, <1>5, <1>6, <1>7, OrderedKept, TimelyKept, DataKept DEF IInv

(* An object no call under way was given, whose last use has finished, is   *)
(* used by no submission any more.                                          *)
LEMMA UnusedFacts ==
    ASSUME IInv, NEW o \in Objects, o \notin call.uses,
           lastSubmissionID[o] <= counter, NEW id \in Unfinished
    PROVE  o \notin usesOf[id]
<1>1. Shape /\ Calls /\ StampsCover
  BY DEF IInv
<1>2. /\ lastSubmissionID[o] \in Nat /\ counter \in Nat /\ id \in Nat
      /\ counter < id
  BY <1>1, ShapeFacts
<1>3. CASE Copying /\ id = call.id
  BY <1>1, <1>3 DEF Calls
<1>4. CASE ~(Copying /\ id = call.id)
  BY <1>1, <1>2, <1>4 DEF StampsCover
<1> QED
  BY <1>3, <1>4

LEMMA CreateObjectStep ==
    ASSUME IInv, NEW o \in Objects, CreateObject(o)
    PROVE  IInv'
<1>1. /\ handle[o] = "unborn" /\ handle' = [handle EXCEPT ![o] = "live"]
      /\ memory' = memory \cup {o}
      /\ UNCHANGED <<lastSubmissionID, call, staging, retiredStaging, future,
                     delivered, usesOf, copies, waitsOf, started, counter, content,
                     fetched>>
  BY DEF CreateObject, submissionVars, stagingVars, executionVars, gpuVars
<1>2. /\ Shape /\ Calls /\ HandlesExist /\ UsesExist
      /\ handle \in [Objects -> {"unborn", "live", "dropped"}]
      /\ memory \subseteq {p \in Objects : handle[p] # "unborn"}
      /\ call.uses \subseteq Objects
  BY DEF IInv, Shape, TypeOK
<1>3. /\ handle' \in [Objects -> {"unborn", "live", "dropped"}]
      /\ handle'[o] = "live" /\ \A p \in Objects : p # o => handle'[p] = handle[p]
  BY <1>1, <1>2
<1>4. memory' \subseteq {p \in Objects : handle'[p] # "unborn"}
  BY <1>1, <1>2, <1>3
<1>5. call.op # "idle" => Live(call.uses)'
  BY <1>1, <1>2, <1>3 DEF Calls, Live
<1>6. HandlesExist'
  BY <1>1, <1>2, <1>3 DEF HandlesExist
<1>7. UsesExist'
  BY <1>1, <1>2 DEF UsesExist, Unfinished, Submissions
<1> QED
  BY <1>1, <1>2, <1>3, <1>4, <1>5, <1>6, <1>7, ObjectStep

LEMMA DestroyHandleStep ==
    ASSUME IInv, NEW o \in Objects, DestroyHandle(o)
    PROVE  IInv'
<1>1. /\ handle[o] = "live" /\ handle' = [handle EXCEPT ![o] = "dropped"]
      /\ o \notin call.uses
      /\ memory' = IF DestroyedAtOnce(o) THEN memory \ {o} ELSE memory
      /\ UNCHANGED <<lastSubmissionID, call, staging, retiredStaging, future,
                     delivered, usesOf, copies, waitsOf, started, counter, content,
                     fetched>>
  BY DEF DestroyHandle, submissionVars, stagingVars, executionVars, gpuVars
<1>2. /\ Shape /\ Calls /\ HandlesExist /\ UsesExist
      /\ handle \in [Objects -> {"unborn", "live", "dropped"}]
      /\ memory \subseteq {p \in Objects : handle[p] # "unborn"}
      /\ call.uses \subseteq Objects
  BY DEF IInv, Shape, TypeOK
<1>3. /\ handle' \in [Objects -> {"unborn", "live", "dropped"}]
      /\ handle'[o] = "dropped" /\ \A p \in Objects : p # o => handle'[p] = handle[p]
  BY <1>1, <1>2
<1>4. memory' \subseteq {p \in Objects : handle'[p] # "unborn"}
  BY <1>1, <1>2, <1>3
<1>5. call.op # "idle" => Live(call.uses)'
  BY <1>1, <1>2, <1>3 DEF Calls, Live
<1>6. HandlesExist'
  BY <1>1, <1>2, <1>3 DEF HandlesExist
<1>7. UsesExist'
  <2>1. CASE DestroyedAtOnce(o)
    <3>1. lastSubmissionID[o] <= counter
      BY <1>2, <2>1, ShapeFacts DEF DestroyedAtOnce
    <3>2. \A id \in Unfinished : o \notin usesOf[id]
      BY <1>1, <3>1, UnusedFacts
    <3> QED
      BY <1>1, <1>2, <2>1, <3>2 DEF UsesExist, Unfinished, Submissions
  <2>2. CASE ~DestroyedAtOnce(o)
    BY <1>1, <1>2, <2>2 DEF UsesExist, Unfinished, Submissions
  <2> QED
    BY <2>1, <2>2
<1> QED
  BY <1>1, <1>2, <1>3, <1>4, <1>5, <1>6, <1>7, ObjectStep

LEMMA RetireObjectStep ==
    ASSUME IInv, NEW o \in Objects, RetireObject(o)
    PROVE  IInv'
<1>1. /\ handle[o] = "dropped" /\ lastSubmissionID[o] <= counter
      /\ memory' = memory \ {o}
      /\ UNCHANGED <<lastSubmissionID, call, staging, retiredStaging, future,
                     delivered, usesOf, copies, waitsOf, started, counter, content,
                     fetched, handle>>
  BY DEF RetireObject, Doomed, Due, submissionVars, stagingVars, executionVars,
         gpuVars
<1>2. /\ Shape /\ Calls /\ HandlesExist /\ UsesExist
      /\ handle \in [Objects -> {"unborn", "live", "dropped"}]
      /\ memory \subseteq {p \in Objects : handle[p] # "unborn"}
  BY DEF IInv, Shape, TypeOK
<1>3. o \notin call.uses
  BY <1>1, <1>2 DEF Calls, Live, Idle
<1>4. call.op # "idle" => Live(call.uses)'
  BY <1>1, <1>2 DEF Calls, Live
<1>5. HandlesExist'
  BY <1>1, <1>2 DEF HandlesExist
<1>6. UsesExist'
  <2>1. \A id \in Unfinished : o \notin usesOf[id]
    BY <1>1, <1>3, UnusedFacts
  <2> QED
    BY <1>1, <1>2, <2>1 DEF UsesExist, Unfinished, Submissions
<1> QED
  BY <1>1, <1>2, <1>4, <1>5, <1>6, ObjectStep

-----------------------------------------------------------------------------
(* Steps of the futures and of the staging buffers                          *)

(* What may be in a future variable.                                        *)
FutureValues == [id : 0 .. Len(waitsOf), onComplete : 0 .. Len(waitsOf)]

LEMMA FutureValuesFacts ==
    ASSUME Shape
    PROVE  /\ future \in [Futures -> FutureValues]
           /\ NoFuture \in FutureValues /\ NoFuture.onComplete = 0
           /\ \A v \in FutureValues :
                /\ v.id \in Nat /\ v.onComplete \in 0 .. Len(waitsOf)
                /\ [v EXCEPT !.onComplete = 0] \in FutureValues
           /\ \A n \in 0 .. Len(waitsOf) : [id |-> 0, onComplete |-> n] \in FutureValues
<1>1. Len(waitsOf) \in Nat
  BY ShapeFacts
<1>2. 0 \in 0 .. Len(waitsOf)
  BY <1>1
<1> QED
  BY <1>1, <1>2, ShapeFacts DEF FutureValues, NoFuture

LEMMA StagingStep ==
    ASSUME IInv,
           UNCHANGED <<handle, memory, lastSubmissionID, call, usesOf, copies,
                       waitsOf, started, counter, content, fetched>>,
           future' \in [Futures -> FutureValues],
           staging' \subseteq DOMAIN copies, retiredStaging' \subseteq staging',
           DOMAIN delivered' \subseteq DOMAIN copies \ staging',
           \A f \in Futures : future'[f].onComplete # 0 => Download(future'[f].onComplete),
           StagingOwned', Timely', Data'
    PROVE  IInv'
<1>1. /\ Shape /\ Calls /\ HandlesExist /\ StampsCover /\ UsesExist /\ Ordered
      /\ Downloads
  BY DEF IInv
<1>2. Submissions' = Submissions /\ Unfinished' = Unfinished /\ Copying' = Copying
  BY DEF Submissions, Unfinished, Copying
<1>3. Shape'
  BY <1>1, <1>2 DEF Shape, TypeOK, GpuTypeOK, FutureValues
<1>4. Calls'
  BY <1>1, <1>2 DEF Calls, Live
<1>5. HandlesExist' /\ UsesExist'
  BY <1>1, <1>2 DEF HandlesExist, UsesExist
<1>6. StampsCover'
  BY <1>1, <1>2 DEF StampsCover
<1>7. Downloads'
  BY <1>1, OperatorsKept DEF Downloads, Pending
<1> QED
  BY <1>1, <1>3, <1>4, <1>5, <1>6, <1>7, OrderedKept DEF IInv

LEMMA MoveAssignStep ==
    ASSUME IInv, NEW f \in Futures, NEW g \in Futures, MoveAssign(f, g)
    PROVE  IInv'
<1>1. /\ f # g
      /\ future' = [future EXCEPT ![f] = future[g], ![g] = NoFuture]
      /\ UNCHANGED <<handle, memory, lastSubmissionID, call, usesOf, copies,
                     waitsOf, started, counter, content, fetched, staging,
                     retiredStaging, delivered>>
  BY DEF MoveAssign, MovedFrom, futureOnly, submissionVars, executionVars, objectVars,
         gpuVars
<1>2. /\ Shape /\ StagingOwned /\ Timely /\ Downloads /\ Data
      /\ staging \subseteq DOMAIN copies /\ retiredStaging \subseteq staging
      /\ DOMAIN delivered \subseteq DOMAIN copies \ staging
  BY DEF IInv, Shape, TypeOK
<1>3. future \in [Futures -> FutureValues] /\ NoFuture \in FutureValues
  BY <1>2, FutureValuesFacts
<1>4. future' \in [Futures -> FutureValues]
  BY <1>1, <1>3
<1>5. /\ future'[f] = future[g] /\ future'[g].onComplete = 0
      /\ \A h \in Futures : h # f /\ h # g => future'[h] = future[h]
  BY <1>1, <1>3 DEF NoFuture
<1>6. \A h \in Futures : future'[h].onComplete # 0 =>
         \E k \in Futures : future[k] = future'[h] /\ (h = f <=> k = g)
  <2> SUFFICES ASSUME NEW h \in Futures, future'[h].onComplete # 0
               PROVE  \E k \in Futures : future[k] = future'[h] /\ (h = f <=> k = g)
    OBVIOUS
  <2>1. CASE h = f
    BY <1>5, <2>1
  <2>2. CASE h # f
    BY <1>5, <2>2
  <2> QED
    BY <2>1, <2>2
<1>7. \A h \in Futures : future'[h].onComplete # 0 => Download(future'[h].onComplete)
  BY <1>2, <1>6 DEF Downloads, Pending
<1>8. FutureOwnsStaging'
  <2>1. \A h \in Futures : future'[h].onComplete # 0 =>
           future'[h].onComplete \in staging \ retiredStaging
    BY <1>2, <1>6 DEF StagingOwned, FutureOwnsStaging, Pending
  <2>2. ASSUME NEW h \in Futures, NEW k \in Futures,
               future'[h].onComplete # 0,
               future'[k].onComplete = future'[h].onComplete
        PROVE  k = h
    <3>1. h # g /\ k # g
      BY <1>5, <2>2
    <3>2. \A m, n \in Futures :
             future[m].onComplete # 0 /\ future[n].onComplete = future[m].onComplete
                 => n = m
      BY <1>2 DEF StagingOwned, FutureOwnsStaging, Pending
    <3>3. CASE h = f /\ k # f
      BY <1>5, <2>2, <3>1, <3>2, <3>3
    <3>4. CASE h # f /\ k = f
      BY <1>5, <2>2, <3>1, <3>2, <3>4
    <3>5. CASE h # f /\ k # f
      BY <1>5, <2>2, <3>1, <3>2, <3>5
    <3> QED
      BY <3>3, <3>4, <3>5
  <2> QED
    BY <1>1, <2>1, <2>2 DEF FutureOwnsStaging, Pending
<1>9. StagingOwned'
  <2>1. Copying => \A h \in Futures : future'[h].onComplete # call.id
    <3>1. Copying => call.id # 0
      BY DEF IInv, Calls
    <3> QED
      BY <1>2, <1>6, <3>1 DEF StagingOwned
  <2> QED
    BY <1>1, <1>2, <1>8, <2>1 DEF StagingOwned, Copying
<1>10. Timely'
  <2>1. ~SelfMoves => \A h \in Futures : future'[h].onComplete # 0 =>
           future'[h].id = future'[h].onComplete
    <3> SUFFICES ASSUME ~SelfMoves, NEW h \in Futures, future'[h].onComplete # 0
                 PROVE  future'[h].id = future'[h].onComplete
      OBVIOUS
    <3>1. PICK k \in Futures : future[k] = future'[h]
      BY <1>6
    <3> QED
      BY <1>2, <3>1 DEF Timely, Pending
  <2>2. ~SelfMoves => \A id \in Unfinished : id \in DOMAIN copies => id \in staging
    BY <1>2 DEF Timely
  <2>3. Unfinished' = Unfinished
    BY <1>1 DEF Unfinished, Submissions
  <2> QED
    BY <1>1, <2>1, <2>2, <2>3 DEF Timely, Pending
<1> QED
  BY <1>1, <1>2, <1>4, <1>7, <1>9, <1>10, StagingStep, DataKept

(* A future moved onto itself still owns what it owned, or dropped it.      *)
LEMMA SelfMoveStep ==
    ASSUME IInv, NEW f \in Futures, SelfMove(f)
    PROVE  IInv'
<1>1. PICK n \in {0, future[f].onComplete} :
         future' = [future EXCEPT ![f] = [id |-> 0, onComplete |-> n]]
  BY DEF SelfMove
<1>2. /\ SelfMoves \/ ~Pending(f)
      /\ UNCHANGED <<handle, memory, lastSubmissionID, call, usesOf, copies,
                     waitsOf, started, counter, content, fetched, staging,
                     retiredStaging, delivered>>
  BY DEF SelfMove, futureOnly, submissionVars, executionVars, objectVars, gpuVars
<1>3. /\ Shape /\ StagingOwned /\ Timely /\ Downloads /\ Data
      /\ staging \subseteq DOMAIN copies /\ retiredStaging \subseteq staging
      /\ DOMAIN delivered \subseteq DOMAIN copies \ staging
  BY DEF IInv, Shape, TypeOK
<1>4. future \in [Futures -> FutureValues] /\ [id |-> 0, onComplete |-> n] \in FutureValues
  <2>1. n \in 0 .. Len(waitsOf)
    BY <1>1, <1>3, ShapeFacts, FutureValuesFacts
  <2> QED
    BY <1>3, <2>1, FutureValuesFacts
<1>5. future' \in [Futures -> FutureValues]
  BY <1>1, <1>4
<1>6. \A h \in Futures :
         /\ future'[h].onComplete \in {0, future[h].onComplete}
         /\ h # f => future'[h] = future[h]
         /\ h = f => future'[h].onComplete = n
  BY <1>1, <1>4
<1>7. \A h \in Futures : future'[h].onComplete # 0 => Download(future'[h].onComplete)
  BY <1>3, <1>6 DEF Downloads, Pending
<1>8. FutureOwnsStaging'
  <2>1. \A h \in Futures : future'[h].onComplete # 0 =>
           /\ future'[h].onComplete \in staging \ retiredStaging
           /\ \A k \in Futures : future'[k].onComplete = future'[h].onComplete => k = h
    BY <1>3, <1>6 DEF StagingOwned, FutureOwnsStaging, Pending
  <2> QED
    BY <1>2, <2>1 DEF FutureOwnsStaging, Pending
<1>9. StagingOwned'
  <2>1. Copying => \A h \in Futures : future'[h].onComplete # call.id
    <3>1. Copying => call.id # 0
      BY DEF IInv, Calls
    <3> QED
      BY <1>3, <1>6, <3>1 DEF StagingOwned
  <2> QED
    BY <1>2, <1>3, <1>8, <2>1 DEF StagingOwned, Copying
<1>10. Timely'
  <2>1. ~SelfMoves => n = 0
    BY <1>1, <1>2 DEF Pending
  <2> QED
    BY <1>2, <1>3, <1>6, <2>1 DEF Timely, Pending, Unfinished, Submissions
<1> QED
  BY <1>2, <1>3, <1>5, <1>7, <1>9, <1>10, StagingStep, DataKept

(* A future that was waited for, or destroyed.                              *)
LEMMA FutureEnds ==
    ASSUME IInv, NEW f \in Futures,
           Pending(f) => future[f].id <= counter,
           Complete(f),
           NEW new \in FutureValues,
           new.onComplete = 0, future' = [future EXCEPT ![f] = new],
           UNCHANGED <<handle, memory, lastSubmissionID, call, usesOf, copies,
                       waitsOf, started, counter, content, fetched, retiredStaging>>
    PROVE  IInv'
<1>1. /\ Shape /\ StagingOwned /\ Timely /\ Downloads /\ Data
      /\ staging \subseteq DOMAIN copies /\ retiredStaging \subseteq staging
      /\ DOMAIN delivered \subseteq DOMAIN copies \ staging
      /\ DOMAIN copies \subseteq Submissions
  BY DEF IInv, Shape, TypeOK
<1>2. /\ future' \in [Futures -> FutureValues]
      /\ future'[f].onComplete = 0
      /\ \A h \in Futures : h # f => future'[h] = future[h]
  BY <1>1, FutureValuesFacts
<1>3. \A h \in Futures : future'[h].onComplete # 0 => Download(future'[h].onComplete)
  BY <1>1, <1>2 DEF Downloads, Pending
<1>4. Copying => call.id # 0
  BY DEF IInv, Calls
<1>5. CASE ~Pending(f)
  <2>1. UNCHANGED <<delivered, staging>>
    BY <1>5 DEF Complete
  <2>2. StagingOwned'
    BY <1>1, <1>2, <1>4, <2>1 DEF StagingOwned, FutureOwnsStaging, Pending, Copying
  <2>3. Timely'
    BY <1>1, <1>2, <2>1 DEF Timely, Pending, Unfinished, Submissions
  <2> QED
    BY <1>1, <1>2, <1>3, <2>1, <2>2, <2>3, StagingStep, DataKept
<1>6. CASE Pending(f)
  <2> DEFINE id == future[f].onComplete
  <2>1. /\ Deliver(id) /\ staging' = staging \ {id}
        /\ Download(id) /\ id \in staging /\ id \notin retiredStaging
        /\ id \in Submissions
    BY <1>1, <1>6 DEF Complete, StagingOwned, FutureOwnsStaging, Downloads
  <2>2. ~SelfMoves => id <= counter
    BY <1>1, <1>6 DEF Timely
  <2>3. \A h \in Futures : h # f => future[h].onComplete # id
    BY <1>1, <1>6 DEF StagingOwned, FutureOwnsStaging
  <2>4. Copying => call.id # id
    BY <1>1 DEF StagingOwned
  <2>5. id # 0
    BY <1>6 DEF Pending
  <2> HIDE DEF id
  <2>6. Data' /\ DOMAIN delivered' = DOMAIN delivered \cup {id}
    BY <2>1, <2>2, DeliverData
  <2>7. \A h \in Futures : future'[h].onComplete # id
    BY <1>2, <2>3, <2>5
  <2>8. StagingOwned'
    <3>1. FutureOwnsStaging'
      BY <1>1, <1>2, <2>1, <2>7 DEF StagingOwned, FutureOwnsStaging, Pending
    <3>2. Copying => /\ call.id \in staging' \ retiredStaging
                     /\ \A h \in Futures : future'[h].onComplete # call.id
      BY <1>1, <1>2, <1>4, <2>1, <2>4 DEF StagingOwned
    <3> QED
      BY <3>1, <3>2 DEF StagingOwned, Copying
  <2>9. Timely'
    <3>1. ~SelfMoves => \A i \in Unfinished : i \in DOMAIN copies => i \in staging'
      BY <1>1, <2>1, <2>2, ShapeFacts DEF Timely
    <3>2. ~SelfMoves => \A h \in Futures : future'[h].onComplete # 0 =>
             future'[h].id = future'[h].onComplete
      BY <1>1, <1>2 DEF Timely, Pending
    <3> QED
      BY <3>1, <3>2 DEF Timely, Pending, Unfinished, Submissions
  <2>10. /\ staging' \subseteq DOMAIN copies /\ retiredStaging' \subseteq staging'
         /\ DOMAIN delivered' \subseteq DOMAIN copies \ staging'
    BY <1>1, <2>1, <2>6
  <2> QED
    BY <1>2, <1>3, <2>6, <2>8, <2>9, <2>10, StagingStep
<1> QED
  BY <1>5, <1>6

LEMMA WaitStep ==
    ASSUME IInv, NEW f \in Futures, Wait(f)
    PROVE  IInv'
<1>1. /\ future[f].id <= counter /\ Complete(f)
      /\ UNCHANGED <<handle, memory, lastSubmissionID, call, usesOf, copies,
                     waitsOf, started, counter, content, fetched, retiredStaging>>
  BY DEF Wait, WaitReturns, submissionVars, executionVars, objectVars, gpuVars
<1>2. Shape
  BY DEF IInv
<1>3. /\ future[f] \in FutureValues
      /\ future' = [future EXCEPT ![f] = [future[f] EXCEPT !.onComplete = 0]]
  BY <1>2, FutureValuesFacts DEF Wait
<1>4. /\ [future[f] EXCEPT !.onComplete = 0] \in FutureValues
      /\ [future[f] EXCEPT !.onComplete = 0].onComplete = 0
  BY <1>2, <1>3, FutureValuesFacts DEF FutureValues
<1> QED
  BY <1>1, <1>3, <1>4, FutureEnds

LEMMA DestroyFutureStep ==
    ASSUME IInv, NEW f \in Futures, DestroyFuture(f)
    PROVE  IInv'
<1>1. /\ Pending(f) => future[f].id <= counter
      /\ Complete(f)
      /\ future' = [future EXCEPT ![f] = NoFuture]
      /\ UNCHANGED <<handle, memory, lastSubmissionID, call, usesOf, copies,
                     waitsOf, started, counter, content, fetched, retiredStaging>>
  BY DEF DestroyFuture, DestroyCompletes, WaitReturns, Complete, submissionVars,
         executionVars, objectVars, gpuVars
<1>2. NoFuture \in FutureValues /\ NoFuture.onComplete = 0
  BY FutureValuesFacts DEF IInv
<1> QED
  BY <1>1, <1>2, FutureEnds

LEMMA RetireStagingStep ==
    ASSUME IInv, NEW id \in Submissions, RetireStaging(id)
    PROVE  IInv'
<1>1. /\ id \in retiredStaging /\ id <= counter
      /\ retiredStaging' = retiredStaging \ {id}
      /\ staging' = staging \ {id}
      /\ UNCHANGED <<handle, memory, lastSubmissionID, call, usesOf, copies,
                     waitsOf, started, counter, content, fetched, future, delivered>>
  BY DEF RetireStaging, Due, submissionVars, executionVars, objectVars, gpuVars
<1>2. /\ Shape /\ StagingOwned /\ Timely /\ Downloads /\ Data
      /\ staging \subseteq DOMAIN copies /\ retiredStaging \subseteq staging
      /\ DOMAIN delivered \subseteq DOMAIN copies \ staging
  BY DEF IInv, Shape, TypeOK
<1>3. future' \in [Futures -> FutureValues]
  BY <1>1, <1>2, FutureValuesFacts
<1>4. \A f \in Futures : future'[f].onComplete # 0 => Download(future'[f].onComplete)
  BY <1>1, <1>2 DEF Downloads, Pending
<1>5. StagingOwned'
  <2>1. FutureOwnsStaging'
    BY <1>1, <1>2 DEF StagingOwned, FutureOwnsStaging, Pending
  <2>2. Copying => call.id \in staging' \ retiredStaging'
    BY <1>1, <1>2 DEF StagingOwned
  <2> QED
    BY <1>1, <1>2, <2>1, <2>2 DEF StagingOwned, Copying
<1>6. Timely'
  <2>1. ~SelfMoves => \A i \in Unfinished : i \in DOMAIN copies => i \in staging'
    BY <1>1, <1>2, ShapeFacts DEF Timely
  <2> QED
    BY <1>1, <1>2, <2>1 DEF Timely, Pending, Unfinished, Submissions
<1>7. /\ staging' \subseteq DOMAIN copies /\ retiredStaging' \subseteq staging'
      /\ DOMAIN delivered' \subseteq DOMAIN copies \ staging'
  BY <1>1, <1>2
<1> QED
  BY <1>1, <1>2, <1>3, <1>4, <1>5, <1>6, <1>7, StagingStep, DataKept

(* The copy the call waits for has finished: the call gets its data, or     *)
(* stamps what it wrote, and destroys the staging buffer.                   *)
LEMMA StageEndStep ==
    ASSUME IInv, StageEnd
    PROVE  IInv'
<1>1. /\ Copying /\ call.id <= counter /\ call' = Idle
      /\ staging' = staging \ {call.id}
      /\ IF call.op = "copyingToHost"
         THEN Deliver(call.id) /\ UNCHANGED lastSubmissionID
         ELSE /\ lastSubmissionID' = [o \in Objects |->
                    IF o \in call.uses THEN Len(waitsOf) ELSE lastSubmissionID[o]]
              /\ UNCHANGED delivered
      /\ UNCHANGED <<handle, memory, usesOf, copies, waitsOf, started, counter,
                     content, fetched, future, retiredStaging>>
  BY DEF StageEnd, Copying, executionVars, objectVars, gpuVars
<1>2. /\ Shape /\ HandlesExist /\ StampsCover /\ UsesExist /\ Ordered
      /\ StagingOwned /\ Timely /\ Downloads /\ Data
  BY DEF IInv
<1>3. /\ call.id \in staging /\ call.id \notin retiredStaging
      /\ staging \subseteq DOMAIN copies /\ retiredStaging \subseteq staging
      /\ DOMAIN delivered \subseteq DOMAIN copies \ staging
      /\ DOMAIN copies \subseteq Submissions
  BY <1>1, <1>2 DEF StagingOwned, Shape, TypeOK
<1>4. Submissions' = Submissions /\ Unfinished' = Unfinished /\ ~Copying'
  BY <1>1 DEF Submissions, Unfinished, Copying, Idle
<1>5. \A id \in Unfinished : id # call.id /\ id \in Nat /\ id <= Len(waitsOf)
  BY <1>1, <1>2, <1>3, ShapeFacts
<1>6. Data' /\ DOMAIN delivered' \subseteq DOMAIN copies \ staging'
  <2>1. CASE call.op = "copyingToHost"
    <3>1. Download(call.id) /\ Deliver(call.id) /\ call.id \in Submissions
      BY <1>1, <1>2, <1>3, <2>1 DEF Downloads
    <3>2. Data' /\ DOMAIN delivered' = DOMAIN delivered \cup {call.id}
      BY <1>1, <3>1, DeliverData
    <3> QED
      BY <1>1, <1>3, <3>2
  <2>2. CASE call.op # "copyingToHost"
    BY <1>1, <1>2, <1>3, <2>2, DataKept
  <2> QED
    BY <2>1, <2>2
<1>7. lastSubmissionID' \in [Objects -> 0 .. Len(waitsOf)]
  BY <1>1, <1>2, ShapeFacts
<1>8. Idle \in [op : Operations, uses : SUBSET Objects, id : 0 .. Len(waitsOf)]
  BY <1>2, ShapeFacts DEF Idle, Operations
<1>9. Shape'
  BY <1>1, <1>2, <1>3, <1>4, <1>6, <1>7, <1>8 DEF Shape, TypeOK, GpuTypeOK
<1>10. Calls'
  BY <1>1, <1>4 DEF Calls, Idle
<1>11. HandlesExist' /\ UsesExist'
  BY <1>1, <1>2, <1>4 DEF HandlesExist, UsesExist
<1>12. StampsCover'
  <2> SUFFICES ASSUME NEW id \in Unfinished, NEW o \in usesOf[id]
               PROVE  id <= lastSubmissionID'[o]
    BY <1>1, <1>4 DEF StampsCover
  <2>1. id <= lastSubmissionID[o] /\ o \in Objects
    BY <1>2, <1>4, <1>5, ShapeFacts DEF StampsCover
  <2>2. CASE o \in call.uses /\ call.op # "copyingToHost"
    BY <1>1, <1>5, <2>1, <2>2
  <2>3. CASE ~(o \in call.uses /\ call.op # "copyingToHost")
    BY <1>1, <2>1, <2>3
  <2> QED
    BY <2>2, <2>3
<1>13. StagingOwned'
  <2>1. FutureOwnsStaging'
    BY <1>1, <1>2 DEF StagingOwned, FutureOwnsStaging, Pending
  <2> QED
    BY <1>4, <2>1 DEF StagingOwned
<1>14. Timely'
  <2>1. ~SelfMoves => \A id \in Unfinished : id \in DOMAIN copies => id \in staging'
    BY <1>1, <1>2, <1>5 DEF Timely
  <2> QED
    BY <1>1, <1>2, <1>4, <2>1 DEF Timely, Pending
<1>15. Downloads'
  BY <1>1, <1>2, OperatorsKept DEF Downloads, Pending, Idle
<1> QED
  BY <1>1, <1>2, <1>6, <1>9, <1>10, <1>11, <1>12, <1>13, <1>14, <1>15, OrderedKept
     DEF IInv


-----------------------------------------------------------------------------
(* Submissions                                                              *)

LEMMA EnterFacts ==
    ASSUME Shape, NEW objects \in SUBSET Objects, NEW values \in SUBSET Nat,
           Enter(objects, values), UNCHANGED <<started, counter>>
    PROVE  /\ Len(waitsOf) \in Nat /\ NewID = Len(waitsOf) + 1
           /\ NewID \in Nat /\ counter < NewID /\ started < NewID
           /\ Len(waitsOf') = NewID /\ Len(usesOf') = NewID
           /\ waitsOf'[NewID] = values /\ usesOf'[NewID] = objects
           /\ \A id \in Submissions :
                waitsOf'[id] = waitsOf[id] /\ usesOf'[id] = usesOf[id]
           /\ Submissions = 1 .. Len(waitsOf) /\ Submissions' = 1 .. NewID
           /\ Submissions' = Submissions \cup {NewID} /\ NewID \notin Submissions
           /\ Unfinished' = Unfinished \cup {NewID} /\ NewID \notin Unfinished
           /\ Unfinished \subseteq Submissions
           /\ usesOf' \in Seq(SUBSET Objects)
           /\ usesOf' \in [Submissions' -> SUBSET Objects]
           /\ GpuTypeOK'
<1> DEFINE n == Len(waitsOf)
<1>1. /\ GpuTypeOK /\ usesOf \in Seq(SUBSET Objects) /\ Len(usesOf) = n
      /\ Enqueue(values) /\ usesOf' = Append(usesOf, objects)
      /\ counter <= n /\ started <= n /\ n \in Nat
      /\ counter \in Nat /\ started \in Nat
  BY ShapeFacts DEF Shape, TypeOK, Enter
<1>2. /\ Len(waitsOf') = n + 1 /\ waitsOf'[n + 1] = values
      /\ \A id \in Submissions : waitsOf'[id] = waitsOf[id]
      /\ Submissions = 1 .. n /\ Submissions' = 1 .. n + 1
      /\ Unfinished' = Unfinished \cup {n + 1}
      /\ GpuTypeOK'
  BY <1>1, EnqueueFacts
<1> HIDE DEF n
<1>3. /\ Append(usesOf, objects) \in Seq(SUBSET Objects)
      /\ Len(Append(usesOf, objects)) = n + 1
      /\ Append(usesOf, objects) \in [1 .. n + 1 -> SUBSET Objects]
      /\ Append(usesOf, objects)[n + 1] = objects
      /\ \A id \in 1 .. n : Append(usesOf, objects)[id] = usesOf[id]
  BY <1>1, AppendFacts
<1>4. /\ usesOf' \in Seq(SUBSET Objects) /\ Len(usesOf') = n + 1
      /\ usesOf' \in [1 .. n + 1 -> SUBSET Objects] /\ usesOf'[n + 1] = objects
      /\ \A id \in 1 .. n : usesOf'[id] = usesOf[id]
  BY <1>1, <1>3
<1>5. Unfinished \subseteq Submissions
  BY DEF Unfinished
<1>6. 1 .. n + 1 = 1 .. n \cup {n + 1} /\ n + 1 \notin 1 .. n
  BY <1>1
<1>7. NewID = n + 1
  BY DEF NewID, n
<1>8. n + 1 \in Nat /\ counter < n + 1 /\ started < n + 1
  BY <1>1
<1> QED
  BY <1>1, <1>2, <1>4, <1>5, <1>6, <1>7, <1>8 DEF n

(* The newest hazard among the stamps of the buffers.                       *)
LEMMA WaitsForFacts ==
    ASSUME Shape, NEW buffers \in SUBSET Buffers, NEW last \in 0 .. counter
    PROVE  /\ WaitsFor(buffers, last) \in SUBSET Nat
           /\ \A b \in buffers : counter < lastSubmissionID[b] =>
                \E value \in WaitsFor(buffers, last) : lastSubmissionID[b] <= value
<1> DEFINE hazards == {lastSubmissionID[b] : b \in buffers}
                          \cap (last + 1 .. MaxSubmissions)
<1>1. /\ counter \in Nat /\ last \in Nat /\ last <= counter
      /\ Len(waitsOf) \in Nat /\ Len(waitsOf) <= MaxSubmissions
      /\ MaxSubmissions \in Nat
      /\ \A b \in buffers : lastSubmissionID[b] \in 0 .. Len(waitsOf)
  BY ShapeFacts, DeviceAssumption DEF Shape
<1>2. hazards \in SUBSET Nat /\ \A x \in hazards : x <= MaxSubmissions
  BY <1>1
<1>3. \A b \in buffers :
         counter < lastSubmissionID[b] => lastSubmissionID[b] \in hazards
  BY <1>1
<1>4. WaitsFor(buffers, last) = IF hazards = {} THEN {} ELSE {Max(hazards)}
  BY DEF WaitsFor
<1> HIDE DEF hazards
<1>5. CASE hazards = {}
  BY <1>3, <1>4, <1>5
<1>6. CASE hazards # {}
  <2>1. Max(hazards) \in hazards /\ \A x \in hazards : x <= Max(hazards)
    BY <1>1, <1>2, <1>6, MaxFacts
  <2> QED
    BY <1>2, <1>3, <1>4, <1>6, <2>1
<1> QED
  BY <1>5, <1>6

(* A submission that waits for the newest stamp of the buffers it uses      *)
(* waits for every unfinished submission that uses one of them.             *)
LEMMA NewSubmission ==
    ASSUME IInv, ~Copying,
           NEW objects \in SUBSET Objects, NEW values \in SUBSET Nat,
           Enter(objects, values), Live(objects),
           UNCHANGED <<memory, started, counter>>,
           \A b \in objects \cap Buffers : counter < lastSubmissionID[b] =>
               \E value \in values : lastSubmissionID[b] <= value
    PROVE  UsesExist' /\ Ordered'
<1>1. Shape /\ HandlesExist /\ StampsCover /\ UsesExist /\ Ordered
  BY DEF IInv
<1>2. /\ Len(waitsOf) \in Nat /\ NewID = Len(waitsOf) + 1
      /\ started < NewID
      /\ waitsOf'[NewID] = values /\ usesOf'[NewID] = objects
      /\ \A id \in Submissions :
           waitsOf'[id] = waitsOf[id] /\ usesOf'[id] = usesOf[id]
      /\ Submissions = 1 .. Len(waitsOf)
      /\ Submissions' = Submissions \cup {NewID} /\ NewID \notin Submissions
      /\ Unfinished' = Unfinished \cup {NewID}
      /\ Unfinished \subseteq Submissions
  BY <1>1, EnterFacts
<1>3. UsesExist'
  <2>1. objects \subseteq memory
    BY <1>1 DEF HandlesExist, Live
  <2> QED
    BY <1>1, <1>2, <2>1 DEF UsesExist
<1>4. \A id \in 1 .. started' : \A value \in waitsOf'[id] : value <= counter'
  <2>1. 1 .. started \subseteq Submissions
    BY <1>1, ShapeFacts
  <2> QED
    BY <1>1, <1>2, <2>1 DEF Ordered
<1>5. ASSUME NEW id \in Submissions', NEW i \in Unfinished', i < id,
             usesOf'[i] \cap usesOf'[id] \cap Buffers # {}
      PROVE  \E value \in waitsOf'[id] : i <= value
  <2>1. i \in Nat /\ id \in Nat /\ id <= NewID
    BY <1>2
  <2>2. i # NewID
    BY <1>2, <1>5, <2>1
  <2>3. i \in Unfinished /\ i \in Submissions /\ usesOf'[i] = usesOf[i]
    BY <1>2, <2>2
  <2>4. CASE id \in Submissions
    BY <1>1, <1>2, <1>5, <2>3, <2>4 DEF Ordered
  <2>5. CASE id = NewID
    <3>1. PICK b \in usesOf[i] : b \in objects /\ b \in Buffers
      BY <1>2, <1>5, <2>3, <2>5
    <3>2. i <= lastSubmissionID[b]
      BY <1>1, <2>3, <3>1 DEF StampsCover
    <3>3. /\ counter \in Nat /\ counter < i /\ lastSubmissionID[b] \in Nat
      BY <1>1, <2>3, <3>1, ShapeFacts
    <3>4. PICK value \in values : lastSubmissionID[b] <= value
      BY <2>1, <3>1, <3>2, <3>3
    <3>5. value \in Nat
      OBVIOUS
    <3>6. i <= value
      BY <2>1, <3>2, <3>3, <3>4, <3>5
    <3> QED
      BY <1>2, <2>5, <3>4, <3>6
  <2> QED
    BY <1>2, <2>4, <2>5
<1> QED
  BY <1>3, <1>4, <1>5 DEF Ordered

(* It leaves everything about the submissions before it as it was.          *)
LEMMA DataExtended ==
    ASSUME IInv, NEW objects \in SUBSET Objects, NEW values \in SUBSET Nat,
           Enter(objects, values),
           \/ copies' = copies
           \/ \E direction : copies' = Put(copies, NewID, direction),
           UNCHANGED <<started, counter, content, fetched, delivered>>
    PROVE  /\ Data'
           /\ \A id \in Submissions : Download(id)' = Download(id)
<1>1. Shape /\ Data
  BY DEF IInv
<1>2. /\ Len(waitsOf) \in Nat /\ NewID = Len(waitsOf) + 1
      /\ \A id \in Submissions : usesOf'[id] = usesOf[id]
      /\ Submissions = 1 .. Len(waitsOf) /\ NewID \notin Submissions
      /\ DOMAIN copies \subseteq Submissions
      /\ 1 .. started \subseteq Submissions /\ 1 .. counter \subseteq Submissions
      /\ counter \in Nat
  <2>1. /\ Len(waitsOf) \in Nat /\ NewID = Len(waitsOf) + 1
        /\ \A id \in Submissions : usesOf'[id] = usesOf[id]
        /\ Submissions = 1 .. Len(waitsOf) /\ NewID \notin Submissions
    BY <1>1, EnterFacts
  <2>2. /\ DOMAIN copies \subseteq Submissions
        /\ counter \in Nat /\ started \in Nat
        /\ counter <= started /\ started <= Len(waitsOf)
    BY <1>1, ShapeFacts
  <2>3. 1 .. started \subseteq Submissions /\ 1 .. counter \subseteq Submissions
    BY <2>1, <2>2
  <2> QED
    BY <2>1, <2>2, <2>3
<1>3. \A id \in Submissions : Download(id)' = Download(id)
  <2>1. CASE copies' = copies
    BY <2>1 DEF Download
  <2>2. ASSUME NEW direction, copies' = Put(copies, NewID, direction)
        PROVE  \A id \in Submissions : Download(id)' = Download(id)
    BY <1>2, <2>2 DEF Download, Put
  <2> QED
    BY <2>1, <2>2
<1>4. \A id \in Submissions : LastWrite(id)' = LastWrite(id)
  <2> TAKE id \in Submissions
  <2>1. 1 .. id - 1 \subseteq Submissions
    BY <1>2
  <2>2. Source(id)' = Source(id)
    BY <1>2 DEF Source
  <2>3. {w \in 1 .. id - 1 : Source(id) \in usesOf[w] /\ ~Download(w)}'
            = {w \in 1 .. id - 1 : Source(id) \in usesOf[w] /\ ~Download(w)}
    BY <1>2, <1>3, <2>1, <2>2
  <2> QED
    BY <2>3 DEF LastWrite
<1>5. \A b \in Buffers : Writers(b, counter)' = Writers(b, counter)
  BY <1>2, <1>3 DEF Writers
<1>6. \A id \in DOMAIN delivered : id \in Submissions
  BY <1>1, <1>2 DEF Data, Download
<1>7. \A b \in Buffers : content'[b] = Max(Writers(b, counter)')
  BY <1>1, <1>5 DEF Data
<1>8. \A id \in 1 .. started' : Download(id)' =>
         id \in DOMAIN fetched' /\ fetched'[id] = LastWrite(id)'
  BY <1>1, <1>2, <1>3, <1>4 DEF Data
<1>9. \A id \in DOMAIN delivered' :
         /\ Download(id)'
         /\ ~SelfMoves => id <= counter' /\ delivered'[id] = LastWrite(id)'
  BY <1>1, <1>3, <1>4, <1>6 DEF Data
<1> QED
  BY <1>3, <1>7, <1>8, <1>9 DEF Data


LEMMA SubmissionShape ==
    ASSUME Shape, NEW objects \in SUBSET Objects, NEW values \in SUBSET Nat,
           Enter(objects, values), Len(waitsOf) < MaxSubmissions,
           UNCHANGED <<handle, memory, delivered, content, fetched, started,
                       counter>>,
           lastSubmissionID' \in [Objects -> 0 .. NewID],
           call' \in [op : Operations, uses : SUBSET Objects, id : 0 .. NewID],
           future' \in [Futures -> [id : 0 .. NewID, onComplete : 0 .. NewID]],
           \/ copies' = copies /\ staging' = staging
           \/ /\ DOMAIN copies' = DOMAIN copies \cup {NewID}
              /\ staging' = staging \cup {NewID},
           retiredStaging' \subseteq staging'
    PROVE  Shape'
<1>1. /\ Len(waitsOf) \in Nat /\ NewID = Len(waitsOf) + 1
      /\ Len(waitsOf') = NewID /\ Len(usesOf') = NewID
      /\ Submissions' = Submissions \cup {NewID} /\ NewID \notin Submissions
      /\ usesOf' \in Seq(SUBSET Objects)
      /\ usesOf' \in [Submissions' -> SUBSET Objects]
      /\ GpuTypeOK'
  BY EnterFacts
<1>2. /\ staging \subseteq DOMAIN copies
      /\ DOMAIN delivered \subseteq DOMAIN copies \ staging
      /\ DOMAIN copies \subseteq Submissions
  BY DEF Shape, TypeOK
<1>3. /\ staging' \subseteq DOMAIN copies'
      /\ DOMAIN delivered \subseteq DOMAIN copies' \ staging'
      /\ DOMAIN copies' \subseteq Submissions'
  BY <1>1, <1>2
<1>4. Len(waitsOf') <= MaxSubmissions
  BY <1>1, DeviceAssumption
<1> QED
  BY <1>1, <1>3, <1>4 DEF Shape, TypeOK

LEMMA StampedSubmission ==
    ASSUME IInv, ~Copying,
           NEW objects \in SUBSET Objects, NEW values \in SUBSET Nat,
           Enter(objects, values), Stamp(objects), UNCHANGED <<started, counter>>
    PROVE  /\ StampsCover'
           /\ lastSubmissionID' \in [Objects -> 0 .. NewID]
<1>1. Shape /\ StampsCover
  BY DEF IInv
<1>2. /\ Len(waitsOf) \in Nat /\ NewID = Len(waitsOf) + 1 /\ NewID \in Nat
      /\ usesOf'[NewID] = objects
      /\ \A id \in Submissions : usesOf'[id] = usesOf[id]
      /\ Submissions = 1 .. Len(waitsOf)
      /\ Unfinished' = Unfinished \cup {NewID}
      /\ Unfinished \subseteq Submissions
  BY <1>1, EnterFacts
<1>3. \A o \in Objects : lastSubmissionID'[o] =
         IF o \in objects THEN NewID ELSE lastSubmissionID[o]
  BY DEF Stamp, Stamped
<1>4. lastSubmissionID \in [Objects -> 0 .. Len(waitsOf)]
  BY <1>1, ShapeFacts
<1>5. lastSubmissionID' \in [Objects -> 0 .. NewID]
  <2>1. \A o \in Objects : lastSubmissionID[o] \in 0 .. NewID /\ NewID \in 0 .. NewID
    BY <1>2, <1>4
  <2> QED
    BY <2>1 DEF Stamp
<1>6. ASSUME NEW id \in Unfinished', NEW o \in usesOf'[id]
      PROVE  id <= lastSubmissionID'[o]
  <2>1. CASE id = NewID
    BY <1>2, <1>3, <1>6, <2>1
  <2>2. CASE id # NewID
    <3>1. id \in Unfinished /\ id \in Submissions /\ o \in usesOf[id]
      BY <1>2, <1>6, <2>2
    <3>2. id <= lastSubmissionID[o] /\ o \in Objects
      BY <1>1, <3>1, ShapeFacts DEF StampsCover
    <3>3. id <= NewID
      BY <1>2, <3>1
    <3> QED
      BY <1>3, <3>2, <3>3
  <2> QED
    BY <2>1, <2>2
<1> QED
  BY <1>5, <1>6 DEF StampsCover

(* A stamp, or an id, of before is one after.                               *)
LEMMA IdsGrow ==
    ASSUME Shape, NewID = Len(waitsOf) + 1
    PROVE  /\ call \in [op : Operations, uses : SUBSET Objects, id : 0 .. NewID]
           /\ Idle \in [op : Operations, uses : SUBSET Objects, id : 0 .. NewID]
           /\ future \in [Futures -> [id : 0 .. NewID, onComplete : 0 .. NewID]]
           /\ lastSubmissionID \in [Objects -> 0 .. NewID]
<1>1. Len(waitsOf) \in Nat
  BY ShapeFacts
<1>2. 0 .. Len(waitsOf) \subseteq 0 .. NewID /\ 0 \in 0 .. NewID
  BY <1>1
<1> QED
  BY <1>2, ShapeFacts DEF Idle, Operations

LEMMA SubmitEndStep ==
    ASSUME IInv, SubmitEnd
    PROVE  IInv'
<1> DEFINE values == WaitsFor(call.uses \cap Buffers, call.id)
<1>1. /\ call.op = "submit" /\ Enter(call.uses, values) /\ Stamp(call.uses)
      /\ call' = Idle
      /\ UNCHANGED <<handle, memory, staging, retiredStaging, future, delivered,
                     copies, started, counter, content, fetched>>
  BY DEF SubmitEnd, stagingVars, objectVars, executionVars, gpuVars
<1>2. Shape /\ Calls /\ HandlesExist /\ StagingOwned /\ Timely /\ Downloads
  BY DEF IInv
<1>3. /\ call.uses \in SUBSET Objects /\ call.id \in 0 .. counter
      /\ Live(call.uses) /\ Len(waitsOf) < MaxSubmissions
      /\ ~Copying /\ ~Copying'
  BY <1>1, <1>2, ShapeFacts DEF Calls, Copying, Idle
<1>4. /\ values \in SUBSET Nat
      /\ \A b \in call.uses \cap Buffers : counter < lastSubmissionID[b] =>
           \E value \in values : lastSubmissionID[b] <= value
  BY <1>2, <1>3, WaitsForFacts
<1> HIDE DEF values
<1>5. /\ NewID = Len(waitsOf) + 1
      /\ \A id \in Submissions : usesOf'[id] = usesOf[id]
      /\ NewID \notin Submissions /\ DOMAIN copies \subseteq Submissions
      /\ Unfinished' = Unfinished \cup {NewID}
  BY <1>1, <1>2, <1>3, <1>4, EnterFacts, ShapeFacts
<1>6. UsesExist' /\ Ordered'
  BY <1>1, <1>3, <1>4, NewSubmission
<1>7. StampsCover' /\ lastSubmissionID' \in [Objects -> 0 .. NewID]
  BY <1>1, <1>3, <1>4, StampedSubmission
<1>8. /\ Data'
      /\ \A id \in Submissions : Download(id)' = Download(id)
  BY <1>1, <1>3, <1>4, DataExtended
<1>9. Shape'
  <2>1. retiredStaging' \subseteq staging'
    BY <1>1, <1>2 DEF Shape, TypeOK
  <2>2. /\ call' \in [op : Operations, uses : SUBSET Objects, id : 0 .. NewID]
        /\ future' \in [Futures -> [id : 0 .. NewID, onComplete : 0 .. NewID]]
    BY <1>1, <1>2, <1>5, IdsGrow
  <2> QED
    BY <1>1, <1>2, <1>3, <1>4, <1>7, <2>1, <2>2, SubmissionShape
<1>10. Calls'
  BY <1>1, <1>3 DEF Calls, Idle
<1>11. HandlesExist'
  BY <1>1, <1>2 DEF HandlesExist
<1>12. StagingOwned'
  BY <1>1, <1>2, <1>3 DEF StagingOwned, FutureOwnsStaging, Pending
<1>13. Timely'
  <2>1. ~SelfMoves => \A id \in Unfinished' : id \in DOMAIN copies => id \in staging
    BY <1>2, <1>5 DEF Timely
  <2> QED
    BY <1>1, <1>2, <2>1 DEF Timely, Pending
<1>14. Downloads'
  <2>1. \A id \in DOMAIN copies' : \E b \in Buffers : usesOf'[id] = {b}
    BY <1>1, <1>2, <1>5 DEF Downloads
  <2>2. \A f \in Futures : future'[f].onComplete # 0 =>
           /\ future'[f].onComplete \in DOMAIN copies'
           /\ copies'[future'[f].onComplete] = "toHost"
    BY <1>1, <1>2 DEF Downloads, Download, Pending
  <2> QED
    BY <1>1, <2>1, <2>2 DEF Downloads, Download, Pending, Idle
<1> QED
  BY <1>6, <1>7, <1>8, <1>9, <1>10, <1>11, <1>12, <1>13, <1>14 DEF IInv

LEMMA StageBeginStep ==
    ASSUME IInv, NEW b \in Buffers, StageBegin(b)
    PROVE  IInv'
<1>1. /\ call.op \in {"toDevice", "toHost"} /\ call.uses = {b}
      /\ lastSubmissionID[b] <= counter
      /\ Enter({b}, {})
      /\ staging' = staging \cup {NewID}
      /\ copies' = Put(copies, NewID, call.op)
      /\ call' = [op |-> IF call.op = "toDevice" THEN "copyingToDevice"
                                                 ELSE "copyingToHost",
                  uses |-> {b}, id |-> NewID]
      /\ UNCHANGED <<handle, memory, lastSubmissionID, retiredStaging, future,
                     delivered, started, counter, content, fetched>>
  BY DEF StageBegin, Ready, StagedCopy, objectVars, executionVars, gpuVars
<1>2. /\ Shape /\ Calls /\ HandlesExist /\ StampsCover /\ StagingOwned /\ Timely
      /\ Downloads
  BY DEF IInv
<1>3. /\ {b} \in SUBSET Objects /\ {} \in SUBSET Nat
      /\ Live({b}) /\ Len(waitsOf) < MaxSubmissions
      /\ ~Copying
  BY <1>1, <1>2, ShapeFacts DEF Calls, Copying
<1>4. \A c \in {b} \cap Buffers : counter < lastSubmissionID[c] =>
         \E value \in {} : lastSubmissionID[c] <= value
  <2>1. lastSubmissionID[b] \in Nat /\ counter \in Nat
    BY <1>2, ShapeFacts
  <2> QED
    BY <1>1, <2>1
<1>5. /\ NewID = Len(waitsOf) + 1 /\ NewID \in Nat /\ NewID # 0
      /\ Len(waitsOf') = NewID /\ usesOf'[NewID] = {b}
      /\ \A id \in Submissions : usesOf'[id] = usesOf[id]
      /\ NewID \notin Submissions /\ DOMAIN copies \subseteq Submissions
      /\ Unfinished' = Unfinished \cup {NewID} /\ Unfinished \subseteq Submissions
      /\ \A f \in Futures : future[f].onComplete # NewID
  <2>1. /\ NewID = Len(waitsOf) + 1 /\ NewID \in Nat /\ Len(waitsOf) \in Nat
        /\ Len(waitsOf') = NewID /\ usesOf'[NewID] = {b}
        /\ \A id \in Submissions : usesOf'[id] = usesOf[id]
        /\ NewID \notin Submissions
        /\ Unfinished' = Unfinished \cup {NewID} /\ Unfinished \subseteq Submissions
    BY <1>1, <1>2, <1>3, EnterFacts
  <2>2. \A f \in Futures : future[f].onComplete \in 0 .. Len(waitsOf)
    BY <1>2, ShapeFacts
  <2> QED
    BY <1>2, <2>1, <2>2, ShapeFacts
<1>6. /\ DOMAIN copies' = DOMAIN copies \cup {NewID}
      /\ copies'[NewID] = call.op
      /\ \A id \in DOMAIN copies : copies'[id] = copies[id]
  BY <1>1, <1>5 DEF Put
<1>7. call'.op \in {"copyingToDevice", "copyingToHost"}
      /\ call'.uses = {b} /\ call'.id = NewID
  BY <1>1
<1>8. UsesExist' /\ Ordered'
  BY <1>1, <1>3, <1>4, NewSubmission
<1>9. StampsCover'
  <2> SUFFICES ASSUME NEW id \in Unfinished', id # NewID
               PROVE  \A o \in usesOf'[id] : id <= lastSubmissionID[o]
    BY <1>1, <1>7 DEF StampsCover, Copying
  <2> QED
    BY <1>2, <1>3, <1>5 DEF StampsCover
<1>10. /\ Data'
       /\ \A id \in Submissions : Download(id)' = Download(id)
  BY <1>1, <1>3, DataExtended
<1>11. Shape'
  <2>1. retiredStaging' \subseteq staging'
    BY <1>1, <1>2 DEF Shape, TypeOK
  <2>2. call' \in [op : Operations, uses : SUBSET Objects, id : 0 .. NewID]
    BY <1>1, <1>3, <1>5 DEF Operations
  <2>3. /\ future' \in [Futures -> [id : 0 .. NewID, onComplete : 0 .. NewID]]
        /\ lastSubmissionID' \in [Objects -> 0 .. NewID]
    BY <1>1, <1>2, <1>5, IdsGrow
  <2> QED
    BY <1>1, <1>2, <1>3, <1>6, <2>1, <2>2, <2>3, SubmissionShape
<1>12. Calls'
  BY <1>1, <1>3, <1>5, <1>7 DEF Calls, Copying, Live
<1>13. HandlesExist'
  BY <1>1, <1>2 DEF HandlesExist
<1>14. StagingOwned'
  <2>1. FutureOwnsStaging'
    BY <1>1, <1>2 DEF StagingOwned, FutureOwnsStaging, Pending
  <2>2. NewID \notin retiredStaging
    BY <1>2, <1>5 DEF Shape, TypeOK
  <2> QED
    BY <1>1, <1>5, <1>7, <2>1, <2>2 DEF StagingOwned
<1>15. Timely'
  <2>1. ~SelfMoves => \A id \in Unfinished' : id \in DOMAIN copies' => id \in staging'
    BY <1>1, <1>2, <1>5, <1>6 DEF Timely
  <2> QED
    BY <1>1, <1>2, <2>1 DEF Timely, Pending
<1>16. Downloads'
  <2>1. \A id \in DOMAIN copies' : \E c \in Buffers : usesOf'[id] = {c}
    BY <1>2, <1>5, <1>6 DEF Downloads
  <2>2. \A f \in Futures : future'[f].onComplete # 0 =>
           /\ future'[f].onComplete \in DOMAIN copies'
           /\ copies'[future'[f].onComplete] = "toHost"
    BY <1>1, <1>2, <1>6 DEF Downloads, Download, Pending
  <2>3. call'.op = "copyingToHost" =>
           call'.id \in DOMAIN copies' /\ copies'[call'.id] = "toHost"
    BY <1>1, <1>6, <1>7
  <2> QED
    BY <2>1, <2>2, <2>3 DEF Downloads, Download, Pending
<1> QED
  BY <1>8, <1>9, <1>10, <1>11, <1>12, <1>13, <1>14, <1>15, <1>16 DEF IInv


LEMMA CopyAsyncStep ==
    ASSUME IInv, NEW b \in Buffers, NEW f \in Futures,
           NEW direction \in {"toDevice", "toHost"}, CopyAsync(b, f, direction),
           NEW n, n = IF direction = "toHost" THEN NewID ELSE 0,
           future' = [future EXCEPT ![f] = [id |-> NewID, onComplete |-> n]],
           retiredStaging' = IF direction = "toHost"
                             THEN retiredStaging ELSE retiredStaging \cup {NewID}
    PROVE  IInv'
<1> DEFINE values == WaitsFor({b}, counter)
<1>1. /\ call = Idle /\ Len(waitsOf) < MaxSubmissions /\ Live({b})
      /\ Enter({b}, values) /\ Stamp({b})
      /\ staging' = staging \cup {NewID}
      /\ copies' = Put(copies, NewID, direction)
      /\ UNCHANGED <<handle, memory, delivered, call, started, counter,
                     content, fetched>>
  BY DEF CopyAsync, CopyWaitsFor, MaySubmit, StagedCopy, objectVars,
         executionVars, gpuVars
<1>2. Shape /\ Calls /\ HandlesExist /\ StagingOwned /\ Timely /\ Downloads
  BY DEF IInv
<1>3. /\ {b} \in SUBSET Objects /\ counter \in 0 .. counter
      /\ ~Copying /\ ~Copying'
  BY <1>1, <1>2, ShapeFacts DEF Copying, Idle
<1>4. /\ values \in SUBSET Nat
      /\ \A c \in {b} \cap Buffers : counter < lastSubmissionID[c] =>
           \E value \in values : lastSubmissionID[c] <= value
  BY <1>2, <1>3, WaitsForFacts
<1> HIDE DEF values
<1>5. /\ NewID = Len(waitsOf) + 1 /\ NewID \in Nat /\ usesOf'[NewID] = {b}
      /\ \A id \in Submissions : usesOf'[id] = usesOf[id]
      /\ NewID \notin Submissions /\ DOMAIN copies \subseteq Submissions
      /\ Unfinished' = Unfinished \cup {NewID} /\ Unfinished \subseteq Submissions
  BY <1>1, <1>2, <1>3, <1>4, EnterFacts, ShapeFacts
<1>6. /\ DOMAIN copies' = DOMAIN copies \cup {NewID}
      /\ copies'[NewID] = direction
      /\ \A id \in DOMAIN copies : copies'[id] = copies[id]
  BY <1>1, <1>5 DEF Put
<1>7. /\ NewID \notin staging /\ NewID \notin retiredStaging
      /\ retiredStaging \subseteq staging
      /\ \A g \in Futures : future[g].onComplete # NewID
  <2>1. /\ NewID \notin staging /\ NewID \notin retiredStaging
        /\ retiredStaging \subseteq staging
    BY <1>2, <1>5 DEF Shape, TypeOK
  <2>2. \A g \in Futures : future[g].onComplete # NewID
    BY <1>2, <1>5 DEF Downloads, Download, Pending
  <2> QED
    BY <2>1, <2>2
<1>8. /\ future' \in [Futures -> [id : 0 .. NewID, onComplete : 0 .. NewID]]
      /\ future'[f].id = NewID /\ future'[f].onComplete = n
      /\ \A g \in Futures : g # f => future'[g] = future[g]
  <2>1. future \in [Futures -> [id : 0 .. NewID, onComplete : 0 .. NewID]]
    BY <1>2, <1>5, IdsGrow
  <2>2. NewID \in 0 .. NewID /\ n \in 0 .. NewID
    BY <1>5
  <2> QED
    BY <2>1, <2>2
<1>9. UsesExist' /\ Ordered'
  BY <1>1, <1>3, <1>4, NewSubmission
<1>10. StampsCover' /\ lastSubmissionID' \in [Objects -> 0 .. NewID]
  BY <1>1, <1>3, <1>4, StampedSubmission
<1>11. Data'
  BY <1>1, <1>3, <1>4, DataExtended
<1>12. Shape'
  <2>1. retiredStaging' \subseteq staging'
    BY <1>1, <1>7
  <2>2. call' \in [op : Operations, uses : SUBSET Objects, id : 0 .. NewID]
    BY <1>1, <1>2, <1>5, IdsGrow
  <2> QED
    BY <1>1, <1>2, <1>3, <1>4, <1>6, <1>8, <1>10, <2>1, <2>2, SubmissionShape
<1>13. Calls'
  BY <1>1, <1>3 DEF Calls, Idle
<1>14. HandlesExist'
  BY <1>1, <1>2 DEF HandlesExist
<1>15. StagingOwned'
  <2>1. ASSUME NEW g \in Futures, future'[g].onComplete # 0
        PROVE  future'[g].onComplete \in staging' \ retiredStaging'
    <3>1. CASE g = f
      BY <1>1, <1>7, <1>8, <2>1, <3>1
    <3>2. CASE g # f
      BY <1>1, <1>2, <1>7, <1>8, <2>1, <3>2 DEF StagingOwned, FutureOwnsStaging, Pending
    <3> QED
      BY <3>1, <3>2
  <2>2. ASSUME NEW g \in Futures, NEW h \in Futures, future'[g].onComplete # 0,
               future'[h].onComplete = future'[g].onComplete
        PROVE  h = g
    BY <1>2, <1>7, <1>8, <2>2 DEF StagingOwned, FutureOwnsStaging, Pending
  <2> QED
    BY <1>3, <2>1, <2>2 DEF StagingOwned, FutureOwnsStaging, Pending
<1>16. Timely'
  <2>1. ~SelfMoves => \A id \in Unfinished' : id \in DOMAIN copies' => id \in staging'
    BY <1>1, <1>2, <1>5, <1>6 DEF Timely
  <2>2. ~SelfMoves => \A g \in Futures : future'[g].onComplete # 0 =>
           future'[g].id = future'[g].onComplete
    BY <1>2, <1>8 DEF Timely, Pending
  <2> QED
    BY <2>1, <2>2 DEF Timely, Pending
<1>17. Downloads'
  <2>1. \A id \in DOMAIN copies' : \E c \in Buffers : usesOf'[id] = {c}
    BY <1>2, <1>5, <1>6 DEF Downloads
  <2>2. ASSUME NEW g \in Futures, future'[g].onComplete # 0
        PROVE  /\ future'[g].onComplete \in DOMAIN copies'
               /\ copies'[future'[g].onComplete] = "toHost"
    <3>1. CASE g = f
      <4>1. direction = "toHost" /\ future'[g].onComplete = NewID
        BY <1>8, <2>2, <3>1
      <4> QED
        BY <1>6, <4>1
    <3>2. CASE g # f
      BY <1>2, <1>6, <1>8, <2>2, <3>2 DEF Downloads, Download, Pending
    <3> QED
      BY <3>1, <3>2
  <2> QED
    BY <1>1, <2>1, <2>2 DEF Downloads, Download, Pending, Idle
<1> QED
  BY <1>9, <1>10, <1>11, <1>12, <1>13, <1>14, <1>15, <1>16, <1>17 DEF IInv

-----------------------------------------------------------------------------
(* The GPU *)

LEMMA GpuStartStep ==
    ASSUME IInv, GpuStart
    PROVE  IInv'
<1>1. /\ Start
      /\ fetched' = IF Download(started')
                    THEN Put(fetched, started', content[Source(started')])
                    ELSE fetched
      /\ UNCHANGED <<handle, memory, lastSubmissionID, call, staging, retiredStaging,
                     future, delivered, usesOf, copies, content, waitsOf,
                     counter>>
  BY DEF GpuStart, hostVars, Start
<1>2. /\ Shape /\ Calls /\ HandlesExist /\ StampsCover /\ UsesExist /\ Ordered
      /\ StagingOwned /\ Timely /\ Downloads /\ Data
  BY DEF IInv
<1>3. /\ started \in Nat /\ started' = started + 1 /\ started' \in Submissions
      /\ counter < started'
      /\ \A value \in waitsOf[started'] : value <= counter
      /\ Unfinished' = Unfinished /\ Submissions' = Submissions
      /\ GpuTypeOK'
      /\ counter \in Nat
      /\ 1 .. started' = 1 .. started \cup {started'} /\ started' \in Nat
  <2>1. /\ started \in Nat /\ started' = started + 1 /\ started' \in Submissions
        /\ counter < started'
        /\ \A value \in waitsOf[started'] : value <= counter
        /\ Unfinished' = Unfinished /\ Submissions' = Submissions
        /\ GpuTypeOK' /\ counter \in Nat
    BY <1>1, <1>2, ShapeFacts, StartFacts
  <2>2. 1 .. started' = 1 .. started \cup {started'} /\ started' \in Nat
    BY <2>1
  <2> QED
    BY <2>1, <2>2
<1>4. Copying' = Copying
  BY <1>1 DEF Copying
<1>5. /\ DOMAIN fetched' \subseteq 1 .. started'
      /\ \A id \in DOMAIN fetched : fetched'[id] = fetched[id]
      /\ DOMAIN fetched \subseteq DOMAIN fetched'
  <2>1. DOMAIN fetched \subseteq 1 .. started /\ started' \notin 1 .. started
    BY <1>2, <1>3 DEF Shape, TypeOK
  <2>2. CASE Download(started')
    <3>1. fetched' = Put(fetched, started', content[Source(started')])
      BY <1>1, <2>2
    <3>2. DOMAIN fetched' = DOMAIN fetched \cup {started'}
      BY <3>1 DEF Put
    <3>3. \A id \in DOMAIN fetched : fetched'[id] = fetched[id]
      BY <2>1, <3>1 DEF Put
    <3> QED
      BY <1>3, <2>1, <3>2, <3>3
  <2>3. CASE ~Download(started')
    BY <1>1, <1>3, <2>1, <2>3
  <2> QED
    BY <2>2, <2>3
<1>6. Shape'
  BY <1>1, <1>2, <1>3, <1>5 DEF Shape, TypeOK
<1>7. Calls' /\ HandlesExist' /\ StampsCover' /\ UsesExist'
  <2>1. Calls'
    BY <1>1, <1>2, <1>4 DEF Calls, Live
  <2>2. HandlesExist' /\ UsesExist'
    BY <1>1, <1>2, <1>3 DEF HandlesExist, UsesExist
  <2>3. StampsCover'
    BY <1>1, <1>2, <1>3, <1>4 DEF StampsCover
  <2> QED
    BY <2>1, <2>2, <2>3
<1>8. Ordered'
  <2>1. \A id \in 1 .. started' : \A value \in waitsOf[id] : value <= counter
    BY <1>2, <1>3 DEF Ordered
  <2> QED
    BY <1>1, <1>2, <1>3, <2>1 DEF Ordered
<1>9. StagingOwned' /\ Timely' /\ Downloads'
  <2>1. StagingOwned'
    BY <1>1, <1>2, <1>4 DEF StagingOwned, FutureOwnsStaging, Pending
  <2>2. Timely'
    BY <1>1, <1>2, TimelyKept
  <2>3. Downloads'
    BY <1>1, <1>2 DEF Downloads, Download, Pending
  <2> QED
    BY <2>1, <2>2, <2>3
<1>10. /\ \A id : Download(id)' = Download(id) /\ LastWrite(id)' = LastWrite(id)
       /\ \A b, n : Writers(b, n)' = Writers(b, n)
  BY <1>1, OperatorsKept
<1>11. ASSUME Download(started')
       PROVE  started' \in DOMAIN fetched' /\ fetched'[started'] = LastWrite(started')
  <2> DEFINE s == started + 1
  <2>1. s = started' /\ s \in Submissions /\ Download(s) /\ s \in Nat /\ counter < s
    BY <1>3, <1>11
  <2>2. \A value \in waitsOf[s] : value <= counter
    BY <1>3
  <2> HIDE DEF s
  <2>3. PICK b \in Buffers : usesOf[s] = {b}
    BY <1>2, <2>1 DEF Downloads, Download
  <2>4. Source(s) = b
    BY <2>3 DEF Source
  <2>5. s \in DOMAIN fetched' /\ fetched'[s] = content[b]
    <3>1. fetched' = Put(fetched, s, content[b])
      BY <1>1, <2>1, <2>4
    <3> QED
      BY <3>1 DEF Put
  <2>6. ASSUME NEW w \in 1 .. s - 1, b \in usesOf[w]
        PROVE  w \in 1 .. counter
    <3> SUFFICES ASSUME counter < w PROVE FALSE
      BY <1>3, <2>1
    <3>1. w \in Nat /\ w < s /\ w \in Unfinished
      BY <1>2, <1>3, <2>1, ShapeFacts
    <3>2. PICK value \in waitsOf[s] : w <= value
      BY <1>2, <2>1, <2>3, <2>6, <3>1 DEF Ordered
    <3>3. value \in Nat /\ value <= counter
      BY <1>2, <2>1, <2>2, ShapeFacts, IdFacts
    <3> QED
      BY <1>3, <3>1, <3>2, <3>3
  <2>7. 1 .. counter \subseteq 1 .. s - 1
    BY <1>3, <2>1
  <2>8. {w \in 1 .. s - 1 : b \in usesOf[w] /\ ~Download(w)}
            = {w \in 1 .. counter : b \in usesOf[w] /\ ~Download(w)}
    BY <2>6, <2>7
  <2>9. LastWrite(s) = Max(Writers(b, counter))
    BY <2>4, <2>8 DEF LastWrite, Writers
  <2> QED
    BY <1>2, <2>1, <2>5, <2>9 DEF Data
<1>12. Data'
  <2>1. \A b \in Buffers : content'[b] = Max(Writers(b, counter)')
    BY <1>1, <1>2, <1>10 DEF Data
  <2>2. ASSUME NEW id \in 1 .. started', Download(id)
        PROVE  id \in DOMAIN fetched' /\ fetched'[id] = LastWrite(id)
    <3>1. CASE id = started'
      BY <1>11, <2>2, <3>1
    <3>2. CASE id # started'
      BY <1>2, <1>3, <1>5, <2>2, <3>2 DEF Data
    <3> QED
      BY <3>1, <3>2
  <2> QED
    BY <1>1, <1>2, <1>10, <2>1, <2>2 DEF Data
<1> QED
  BY <1>6, <1>7, <1>8, <1>9, <1>12 DEF IInv

LEMMA GpuSignalStep ==
    ASSUME IInv, GpuSignal
    PROVE  IInv'
<1>1. /\ Signal
      /\ content' = [b \in Buffers |->
             IF b \in usesOf[counter'] /\ ~Download(counter') THEN counter'
                                                             ELSE content[b]]
      /\ UNCHANGED <<handle, memory, lastSubmissionID, call, staging, retiredStaging,
                     future, delivered, usesOf, copies, fetched, waitsOf,
                     started>>
  BY DEF GpuSignal, hostVars, Signal
<1>2. /\ Shape /\ Calls /\ HandlesExist /\ StampsCover /\ UsesExist /\ Ordered
      /\ StagingOwned /\ Timely /\ Downloads /\ Data
  BY DEF IInv
<1>3. /\ counter \in Nat /\ counter' = counter + 1 /\ counter' \in Submissions
      /\ counter' <= started
      /\ Unfinished' = Unfinished \ {counter'} /\ Submissions' = Submissions
      /\ GpuTypeOK'
  BY <1>1, <1>2, ShapeFacts, SignalFacts
<1>4. Copying' = Copying
  BY <1>1 DEF Copying
<1>5. content' \in [Buffers -> 0 .. counter']
  <2>1. content \in [Buffers -> 0 .. counter]
    BY <1>2 DEF Shape, TypeOK
  <2>2. \A b \in Buffers : content[b] \in 0 .. counter' /\ counter' \in 0 .. counter'
    BY <1>3, <2>1
  <2> QED
    BY <1>1, <2>2
<1>6. Shape'
  BY <1>1, <1>2, <1>3, <1>5 DEF Shape, TypeOK
<1>7. Calls'
  <2>1. \A n \in Nat : n <= counter => n <= counter'
    BY <1>3
  <2>2. call.id \in Nat /\ \A o \in Objects : lastSubmissionID[o] \in Nat
    BY <1>2, ShapeFacts
  <2>3. call.uses \subseteq Objects
    BY <1>2, ShapeFacts
  <2> QED
    BY <1>1, <1>2, <1>4, <2>1, <2>2, <2>3 DEF Calls, Live
<1>8. HandlesExist' /\ UsesExist' /\ StampsCover'
  <2>1. HandlesExist' /\ UsesExist'
    BY <1>1, <1>2, <1>3 DEF HandlesExist, UsesExist
  <2>2. StampsCover'
    BY <1>1, <1>2, <1>3, <1>4 DEF StampsCover
  <2> QED
    BY <2>1, <2>2
<1>9. Ordered'
  <2>1. ASSUME NEW id \in 1 .. started, NEW value \in waitsOf[id]
        PROVE  value <= counter'
    <3>1. id \in Submissions
      BY <1>2, ShapeFacts
    <3>2. value \in Nat /\ value <= counter
      BY <1>2, <3>1, ShapeFacts, IdFacts DEF Ordered
    <3> QED
      BY <1>3, <3>2
  <2> QED
    BY <1>1, <1>2, <1>3, <2>1 DEF Ordered
<1>10. StagingOwned' /\ Timely' /\ Downloads'
  <2>1. StagingOwned'
    BY <1>1, <1>2, <1>4 DEF StagingOwned, FutureOwnsStaging, Pending
  <2>2. Timely'
    BY <1>1, <1>2, <1>3 DEF Timely, Pending
  <2>3. Downloads'
    BY <1>1, <1>2 DEF Downloads, Download, Pending
  <2> QED
    BY <2>1, <2>2, <2>3
<1>11. \A id : Download(id)' = Download(id) /\ LastWrite(id)' = LastWrite(id)
  BY <1>1, OperatorsKept
<1>12. ASSUME NEW b \in Buffers
       PROVE  content'[b] = Max(Writers(b, counter)')
  <2> DEFINE k == counter + 1
             before == Writers(b, counter)
             after == {0} \cup {w \in 1 .. k : b \in usesOf[w] /\ ~Download(w)}
  <2>1. /\ counter' = k /\ k \in Nat /\ 1 .. k = 1 .. counter \cup {k}
        /\ before \in SUBSET Nat /\ \A w \in before : w <= k
    BY <1>3 DEF Writers
  <2>2. Writers(b, counter)' = after
    BY <1>1, <1>11, <2>1 DEF Writers
  <2>3. before = {0} \cup {w \in 1 .. counter : b \in usesOf[w] /\ ~Download(w)}
    BY DEF Writers
  <2>4. content[b] = Max(before)
    BY <1>2 DEF Data
  <2>5. content'[b] = IF b \in usesOf[k] /\ ~Download(k) THEN k ELSE content[b]
    BY <1>1, <2>1
  <2> HIDE DEF before, k
  <2>6. CASE b \in usesOf[k] /\ ~Download(k)
    <3>1. after = before \cup {k}
      BY <2>1, <2>3, <2>6
    <3>2. Max(before \cup {k}) = k
      BY <2>1, MaxIs
    <3> QED
      BY <2>2, <2>5, <2>6, <3>1, <3>2
  <2>7. CASE ~(b \in usesOf[k] /\ ~Download(k))
    <3>1. after = before
      BY <2>1, <2>3, <2>7
    <3> QED
      BY <2>2, <2>4, <2>5, <2>7, <3>1
  <2> QED
    BY <2>6, <2>7
<1>13. Data'
  <2>1. \A id \in 1 .. started' : Download(id)' =>
           id \in DOMAIN fetched' /\ fetched'[id] = LastWrite(id)'
    BY <1>1, <1>2, <1>11 DEF Data
  <2>2. \A id \in DOMAIN delivered' :
           /\ Download(id)'
           /\ ~SelfMoves => id <= counter' /\ delivered'[id] = LastWrite(id)'
    <3> SUFFICES ASSUME NEW id \in DOMAIN delivered
                 PROVE  /\ Download(id)'
                        /\ ~SelfMoves =>
                             id <= counter' /\ delivered'[id] = LastWrite(id)'
      BY <1>1
    <3>1. /\ Download(id)
          /\ ~SelfMoves => id <= counter /\ delivered[id] = LastWrite(id)
      BY <1>2 DEF Data
    <3>2. id \in Nat
      BY <1>2, <3>1, ShapeFacts DEF Download
    <3>3. ~SelfMoves => id <= counter'
      BY <1>3, <3>1, <3>2
    <3> QED
      BY <1>1, <1>11, <3>1, <3>3
  <2> QED
    BY <1>12, <2>1, <2>2 DEF Data
<1> QED
  BY <1>6, <1>7, <1>8, <1>9, <1>10, <1>13 DEF IInv


-----------------------------------------------------------------------------
(* The invariant holds, whatever the caller does with its futures *)

LEMMA IInvStep ==
    ASSUME IInv, [Next]_vars
    PROVE  IInv'
<1>1. CASE UNCHANGED vars
  <2>1. UNCHANGED <<handle, memory, lastSubmissionID, call, staging, retiredStaging,
                    future, delivered, usesOf, copies, waitsOf, started,
                    counter, content, fetched>>
    BY <1>1 DEF vars, hostVars, executionVars, gpuVars
  <2>2. /\ Shape' /\ Calls' /\ HandlesExist' /\ StampsCover' /\ UsesExist'
        /\ StagingOwned'
    BY <2>1
       DEF IInv, Shape, TypeOK, GpuTypeOK, Submissions, Unfinished, Calls, Copying,
           Live, HandlesExist, StampsCover, UsesExist, StagingOwned,
           FutureOwnsStaging, Pending
  <2>3. Downloads' /\ Ordered' /\ Timely' /\ Data'
    BY <2>1, OrderedKept, TimelyKept, DataKept
       DEF IInv, Downloads, Download, Pending
  <2> QED
    BY <2>2, <2>3 DEF IInv
<1>2. CASE Begin
  <2>1. ASSUME NEW o \in Objects, CreateObject(o) \/ DestroyHandle(o)
        PROVE  IInv'
    BY <2>1, CreateObjectStep, DestroyHandleStep
  <2>2. ASSUME NEW objects \in SUBSET Objects, SubmitBegin(objects)
        PROVE  IInv'
    BY <2>2, SubmitBeginStep
  <2>3. ASSUME NEW b \in Buffers, CopyBegin("toDevice", b) \/ CopyBegin("toHost", b)
        PROVE  IInv'
    BY <2>3, CopyBeginStep
  <2>4. ASSUME NEW b \in Buffers, NEW f \in Futures, CopyToDeviceAsync(b, f)
        PROVE  IInv'
    BY <2>4, CopyAsyncStep DEF CopyToDeviceAsync
  <2>5. ASSUME NEW b \in Buffers, NEW f \in Futures, CopyToHostAsync(b, f)
        PROVE  IInv'
    BY <2>5, CopyAsyncStep DEF CopyToHostAsync
  <2>6. ASSUME NEW f \in Futures, NEW g \in Futures, MoveAssign(f, g)
        PROVE  IInv'
    BY <2>6, MoveAssignStep
  <2>7. ASSUME NEW f \in Futures, SelfMove(f) \/ Wait(f) \/ DestroyFuture(f)
        PROVE  IInv'
    BY <2>7, SelfMoveStep, WaitStep, DestroyFutureStep
  <2> QED
    BY <1>2, <2>1, <2>2, <2>3, <2>4, <2>5, <2>6, <2>7 DEF Begin
<1>3. CASE Continue
  <2>1. ASSUME NEW b \in Buffers, AccessBegin(b) \/ StageBegin(b)
        PROVE  IInv'
    BY <2>1, AccessBeginStep, StageBeginStep
  <2> QED
    BY <1>3, <2>1, SubmitEndStep, AccessEndStep, StageEndStep DEF Continue
<1>4. CASE Retirement
  BY <1>4, RetireObjectStep, RetireStagingStep DEF Retirement
<1> QED
  BY <1>1, <1>2, <1>3, <1>4, GpuStartStep, GpuSignalStep DEF Next

(* The handles, the stamps, what the submissions wait for and use, and the  *)
(* data on its way, agree after any steps of the calls, the owners, the     *)
(* retirement thread and the GPU.                                           *)
THEOREM Inductive == SafetySpec => []IInv
<1>1. Init => IInv
  BY InitIInv
<1>2. IInv /\ [Next]_vars => IInv'
  BY IInvStep
<1> QED
  BY <1>1, <1>2, PTL DEF SafetySpec

(* Every variable of device.cpp's state keeps its type.                     *)
THEOREM TypeCorrect == SafetySpec => []TypeOK
<1>1. IInv => TypeOK
  BY DEF IInv, Shape
<1> QED
  BY <1>1, Inductive, PTL

LEMMA OrderExcludes == IInv => NoOverlap
<1> SUFFICES ASSUME IInv, NEW i \in Executing, NEW j \in Executing, i # j
             PROVE  usesOf[i] \cap usesOf[j] \cap Buffers = {}
  BY DEF NoOverlap
<1>1. Shape /\ Ordered
  BY DEF IInv
<1>2. \A id \in Executing : /\ id \in Unfinished /\ id \in Submissions /\ id \in Nat
                            /\ counter < id /\ id \in 1 .. started
  <2> TAKE id \in Executing
  <2>1. id \in Unfinished /\ id <= started
    BY DEF Executing
  <2>2. /\ Submissions = 1 .. Len(waitsOf) /\ Unfinished = counter + 1 .. Len(waitsOf)
        /\ counter \in Nat /\ started \in Nat /\ Len(waitsOf) \in Nat
    BY <1>1, ShapeFacts
  <2>3. id \in Nat /\ counter < id /\ 1 <= id /\ id <= Len(waitsOf)
    BY <2>1, <2>2
  <2> QED
    BY <2>1, <2>2, <2>3
<1>3. ASSUME NEW k \in Executing, NEW m \in Executing, k < m,
             usesOf[k] \cap usesOf[m] \cap Buffers # {}
      PROVE  FALSE
  <2>1. PICK value \in waitsOf[m] : k <= value
    BY <1>1, <1>2, <1>3 DEF Ordered
  <2>2. value \in Nat /\ value <= counter /\ counter \in Nat
    BY <1>1, <1>2, ShapeFacts, IdFacts DEF Ordered
  <2> QED
    BY <1>2, <2>1, <2>2
<1>4. i < j \/ j < i
  BY <1>2
<1> QED
  BY <1>3, <1>4

(* device.cpp:311-336: the newest stamp of the buffers is enough to wait    *)
(* for, so submissions that share a buffer never execute together.          *)
THEOREM SubmissionsDoNotOverlap == SafetySpec => []NoOverlap
BY Inductive, OrderExcludes, PTL

LEMMA AccessIsExclusive == IInv => HostAccessExclusive
<1> SUFFICES ASSUME IInv, call.op = "accessing", NEW id \in Unfinished
             PROVE  usesOf[id] \cap call.uses = {}
  BY DEF HostAccessExclusive
<1>1. Shape /\ Calls /\ StampsCover
  BY DEF IInv
<1>2. id \in Nat /\ counter < id /\ counter \in Nat /\ id \in Submissions
  BY <1>1, ShapeFacts
<1>3. \A o \in usesOf[id] : id <= lastSubmissionID[o] /\ lastSubmissionID[o] \in Nat
  BY <1>1, <1>2, ShapeFacts DEF StampsCover, Copying
<1>4. \A o \in call.uses : lastSubmissionID[o] <= counter
  BY <1>1 DEF Calls
<1> QED
  BY <1>2, <1>3, <1>4

(* device.cpp:387, 403, 419, 432: no submission uses a mapped buffer while  *)
(* the host reads or writes it.                                             *)
THEOREM HostAccessIsExclusive == SafetySpec => []HostAccessExclusive
BY Inductive, AccessIsExclusive, PTL

LEMMA UsesAreAlive ==
    ASSUME ~SelfMoves
    PROVE  IInv => NoUseAfterFree
<1> SUFFICES ASSUME IInv PROVE NoUseAfterFree
  OBVIOUS
<1>1. Shape /\ Calls /\ HandlesExist /\ UsesExist /\ Timely
  BY DEF IInv
<1>2. call.op = "accessing" => call.uses \subseteq memory
  BY <1>1, ShapeFacts DEF Calls, Live, HandlesExist
<1> QED
  BY <1>1, <1>2 DEF NoUseAfterFree, UsesExist, Timely

(* buffer.cpp:79-92, device.cpp:513: no Vulkan resource is destroyed while  *)
(* a submission, or the host, may touch it, whoever does it, unless a       *)
(* pending future is moved onto itself (future.cpp:32), which then waits    *)
(* for nothing before it destroys its staging buffer.                       *)
THEOREM NothingUsedAfterFree ==
    ASSUME ~SelfMoves
    PROVE  SafetySpec => []NoUseAfterFree
BY Inductive, UsesAreAlive, PTL

(* future.cpp:23-40: the staging buffer of a pending download is destroyed  *)
(* by one future and nobody else, however futures are moved and assigned,   *)
(* onto themselves and over pending ones included.                          *)
THEOREM FuturesOwnStaging == SafetySpec => []FutureOwnsStaging
<1>1. IInv => FutureOwnsStaging
  BY DEF IInv, StagingOwned
<1> QED
  BY <1>1, Inductive, PTL

(* device.cpp:438-442, future.cpp:44-50: the host gets what the             *)
(* last submission before the download wrote, even when later submissions   *)
(* and other waits come in between, if no pending future is moved onto      *)
(* itself: the run device_self_move shows what happens then.                *)
THEOREM DownloadsAreCurrent ==
    ASSUME ~SelfMoves
    PROVE  SafetySpec => []DownloadsCurrent
<1>1. IInv => DownloadsCurrent
  BY DEF IInv, Data, DownloadsCurrent
<1> QED
  BY <1>1, Inductive, PTL


-----------------------------------------------------------------------------
(* A program that assigns nothing to pending futures, not even themselves   *)


(* Steps that do not concern staging buffers.                               *)
LEMMA OthersForgetNothing ==
    ASSUME NoneForgotten, UNCHANGED <<staging, retiredStaging, future>>,
           UNCHANGED call \/ ~Copying
    PROVE  NoneForgotten'
BY DEF NoneForgotten, Copying

(* A variable that holds no id holds none of an existing staging buffer.    *)
LEMMA StagingIsPositive ==
    ASSUME IInv
    PROVE  0 \notin staging
BY ShapeFacts DEF IInv

LEMMA CopyRemembered ==
    ASSUME ~AssignOverPending, IInv, NoneForgotten,
           NEW b \in Buffers, NEW f \in Futures,
           CopyToDeviceAsync(b, f) \/ CopyToHostAsync(b, f)
    PROVE  NoneForgotten'
<1>1. /\ staging' = staging \cup {NewID} /\ ~Pending(f) /\ call = Idle
      /\ retiredStaging \subseteq retiredStaging'
  BY DEF CopyToDeviceAsync, CopyToHostAsync, CopyAsync, StagedCopy, Assignable,
         MaySubmit
<1>2. \A g \in Futures : g # f => future'[g] = future[g]
  BY DEF CopyToDeviceAsync, CopyToHostAsync, IInv, Shape, TypeOK
<1>3. \/ NewID \in retiredStaging'
      \/ \E g \in Futures : future'[g].onComplete = NewID
  <2>1. CASE CopyToDeviceAsync(b, f)
    BY <2>1 DEF CopyToDeviceAsync
  <2>2. CASE CopyToHostAsync(b, f)
    <3>1. future'[f].onComplete = NewID
      BY <2>2 DEF CopyToHostAsync, IInv, Shape, TypeOK
    <3> QED
      BY <3>1
  <2> QED
    BY <2>1, <2>2
<1>4. \A id \in staging :
         \/ id \in retiredStaging
         \/ \E g \in Futures : future[g].onComplete = id /\ g # f
  <2>1. 0 \notin staging
    BY StagingIsPositive
  <2> QED
    BY <1>1, <2>1 DEF NoneForgotten, Copying, Idle, Pending
<1> QED
  BY <1>1, <1>2, <1>3, <1>4 DEF NoneForgotten

LEMMA MoveRemembered ==
    ASSUME ~AssignOverPending, IInv, NoneForgotten,
           NEW f \in Futures, NEW g \in Futures, MoveAssign(f, g)
    PROVE  NoneForgotten'
<1>1. /\ f # g /\ future[f].onComplete = 0
      /\ future' = [future EXCEPT ![f] = future[g], ![g] = NoFuture]
      /\ UNCHANGED <<staging, retiredStaging, call>>
  BY DEF MoveAssign, Assignable, Pending, MovedFrom, futureOnly
<1>2. /\ future'[f] = future[g]
      /\ \A h \in Futures : h # f /\ h # g => future'[h] = future[h]
  BY <1>1 DEF IInv, Shape, TypeOK
<1>3. ASSUME NEW id \in staging, NEW h \in Futures, future[h].onComplete = id
      PROVE  \E x \in Futures : future'[x].onComplete = id
  <2>1. h # f
    BY <1>1, <1>3, StagingIsPositive
  <2>2. CASE h = g
    BY <1>2, <1>3, <2>2
  <2>3. CASE h # g
    BY <1>2, <1>3, <2>1, <2>3
  <2> QED
    BY <2>2, <2>3
<1>4. Copying' = Copying /\ call'.id = call.id
  BY <1>1 DEF Copying
<1> QED
  BY <1>1, <1>3, <1>4 DEF NoneForgotten

(* Moving an empty future onto itself loses nothing.                        *)
LEMMA SelfMoveRemembered ==
    ASSUME ~SelfMoves, IInv, NoneForgotten, NEW f \in Futures, SelfMove(f)
    PROVE  NoneForgotten'
<1>1. /\ future[f].onComplete = 0
      /\ UNCHANGED <<staging, retiredStaging, call>>
  BY DEF SelfMove, Pending, futureOnly
<1>2. \A g \in Futures : g # f => future'[g] = future[g]
  BY DEF SelfMove, IInv, Shape, TypeOK
<1>3. ASSUME NEW id \in staging, NEW g \in Futures, future[g].onComplete = id
      PROVE  future'[g].onComplete = id
  BY <1>1, <1>2, <1>3, StagingIsPositive
<1>4. Copying' = Copying /\ call'.id = call.id
  BY <1>1 DEF Copying
<1> QED
  BY <1>1, <1>3, <1>4 DEF NoneForgotten

(* The future that ends has destroyed what it kept.                         *)
LEMMA EndRemembered ==
    ASSUME IInv, NoneForgotten, NEW f \in Futures, Wait(f) \/ DestroyFuture(f)
    PROVE  NoneForgotten'
<1>1. /\ staging' = IF Pending(f) THEN staging \ {future[f].onComplete} ELSE staging
      /\ UNCHANGED <<retiredStaging, call>>
  BY DEF Wait, DestroyFuture, DestroyCompletes, Complete
<1>2. \A g \in Futures : g # f => future'[g] = future[g]
  BY DEF Wait, DestroyFuture, IInv, Shape, TypeOK
<1>3. \A id \in staging' : id \in staging /\ future[f].onComplete # id
  BY <1>1, StagingIsPositive DEF Pending
<1>4. ASSUME NEW id \in staging', NEW g \in Futures, future[g].onComplete = id
      PROVE  future'[g].onComplete = id
  BY <1>2, <1>3, <1>4
<1>5. Copying' = Copying /\ call'.id = call.id
  BY <1>1 DEF Copying
<1> QED
  BY <1>1, <1>3, <1>4, <1>5 DEF NoneForgotten

LEMMA StageRemembered ==
    ASSUME IInv, NoneForgotten,
           \/ \E b \in Buffers : StageBegin(b)
           \/ StageEnd
    PROVE  NoneForgotten'
<1>1. CASE \E b \in Buffers : StageBegin(b)
  <2>1. /\ staging' = staging \cup {NewID} /\ ~Copying /\ Copying' /\ call'.id = NewID
        /\ UNCHANGED <<retiredStaging, future>>
    BY <1>1 DEF StageBegin, StagedCopy, Copying
  <2> QED
    BY <2>1 DEF NoneForgotten
<1>2. CASE StageEnd
  <2>1. staging' = staging \ {call.id} /\ UNCHANGED <<retiredStaging, future>>
    BY <1>2 DEF StageEnd
  <2> QED
    BY <2>1 DEF NoneForgotten
<1> QED
  BY <1>1, <1>2

LEMMA NoneForgottenStep ==
    ASSUME ~AssignOverPending, ~SelfMoves, IInv, NoneForgotten, [Next]_vars
    PROVE  NoneForgotten'
<1>1. CASE Begin
  <2>1. ASSUME NEW o \in Objects, CreateObject(o) \/ DestroyHandle(o)
        PROVE  NoneForgotten'
    BY <2>1, OthersForgetNothing DEF CreateObject, DestroyHandle, stagingVars
  <2>2. ASSUME NEW objects \in SUBSET Objects, SubmitBegin(objects)
        PROVE  NoneForgotten'
    BY <2>2, OthersForgetNothing
       DEF SubmitBegin, MaySubmit, stagingVars, Idle, Copying
  <2>3. ASSUME NEW b \in Buffers, CopyBegin("toDevice", b) \/ CopyBegin("toHost", b)
        PROVE  NoneForgotten'
    BY <2>3, OthersForgetNothing
       DEF CopyBegin, MaySubmit, stagingVars, Idle, Copying
  <2> QED
    BY <1>1, <2>1, <2>2, <2>3, CopyRemembered, MoveRemembered, SelfMoveRemembered,
       EndRemembered DEF Begin
<1>2. CASE Continue
  <2>1. SubmitEnd => NoneForgotten'
    BY OthersForgetNothing DEF SubmitEnd, stagingVars, Copying
  <2>2. ASSUME NEW b \in Buffers, AccessBegin(b)
        PROVE  NoneForgotten'
    BY <2>2, OthersForgetNothing DEF AccessBegin, stagingVars, Copying
  <2>3. AccessEnd => NoneForgotten'
    BY OthersForgetNothing DEF AccessEnd, stagingVars, Copying
  <2> QED
    BY <1>2, <2>1, <2>2, <2>3, StageRemembered DEF Continue
<1>3. CASE Retirement
  <2>1. ASSUME NEW o \in Objects, RetireObject(o) PROVE NoneForgotten'
    BY <2>1, OthersForgetNothing DEF RetireObject, stagingVars
  <2>2. ASSUME NEW id \in Submissions, RetireStaging(id) PROVE NoneForgotten'
    BY <2>2 DEF RetireStaging, NoneForgotten, Copying
  <2> QED
    BY <1>3, <2>1, <2>2 DEF Retirement
<1>4. CASE GpuStart \/ GpuSignal \/ UNCHANGED vars
  BY <1>4, OthersForgetNothing DEF GpuStart, GpuSignal, vars, hostVars
<1> QED
  BY <1>1, <1>2, <1>3, <1>4 DEF Next

(* Who destroys a staging buffer is known at any time.                      *)
THEOREM InductiveWhenDisciplined ==
    ASSUME ~AssignOverPending, ~SelfMoves
    PROVE  SafetySpec => []NoneForgotten
<1>1. Init => NoneForgotten
  BY DEF Init, NoneForgotten
<1>2. IInv /\ NoneForgotten /\ [Next]_vars => NoneForgotten'
  BY NoneForgottenStep
<1> QED
  BY <1>1, <1>2, Inductive, PTL DEF SafetySpec

(* future.cpp:17-40, device.cpp:513: every staging buffer has someone who   *)
(* will destroy it, so every download begun is brought to its end, if       *)
(* nothing is assigned to a pending future, itself included.                *)
THEOREM NoDownloadIsLost ==
    ASSUME ~AssignOverPending, ~SelfMoves
    PROVE  SafetySpec => []NoDownloadLost
<1>1. NoneForgotten => NoDownloadLost
  BY DEF NoneForgotten, NoDownloadLost
<1> QED
  BY <1>1, InductiveWhenDisciplined, PTL
=============================================================================
