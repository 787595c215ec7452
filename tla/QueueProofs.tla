----------------------------- MODULE QueueProofs -----------------------------
(***************************************************************************)
(* Proofs about Queue, for any set of threads and of command buffers and    *)
(* any bound on the submissions.                                            *)
(***************************************************************************)
EXTENDS Queue, SequenceTheorems, TLAPS

-----------------------------------------------------------------------------
(* The inductive invariant *)

Holds == {"recording", "releasing", "submitting"}
Retires == {"recycling", "erasing"}

Shape ==
    /\ TypeOK
    /\ waitsOf \in Seq(SUBSET Ids) /\ Len(waitsOf) = lastSubmittedID
    /\ cmdOf \in Seq(CommandBuffers) /\ Len(cmdOf) = lastSubmittedID
    /\ completed <= counter

(* The caller's lock is held by one thread, which may have an entry of      *)
(* m_inFlight; a thread that is to submit has an id left.                   *)
Control ==
    /\ \A t \in Threads : held[t] # NoBuffer <=> pc[t] \in Holds
    /\ \A t, u \in Threads :
        pc[t] \in SubmitPoints /\ pc[u] \in SubmitPoints => t = u
    /\ entry # NoBuffer <=> \E t \in Threads : pc[t] \in Retires
    /\ \A t \in Threads : pc[t] = "submitting" => lastSubmittedID < MaxSubmissions

(* The id kept for a buffer in flight is the last it was submitted with.    *)
LastUse(c) ==
    /\ submissionID[c] \in Ids
    /\ \A id \in Ids : cmdOf[id] = c => id <= submissionID[c]

Flight ==
    /\ \A c \in inFlight : LastUse(c)
    /\ \A c \in CommandBuffers \ inFlight : ~Pending(c)
    /\ entry # NoBuffer => submissionID[entry] <= completed

(* A buffer in the pool, or on its way there, was reset; one that is being  *)
(* recorded was not.                                                        *)
Clean ==
    /\ pool \cap recorded = {}
    /\ \A t \in Threads :
        /\ pc[t] = "releasing" => held[t] \notin recorded
        /\ pc[t] = "recycling" => entry \notin recorded
    /\ RecordingKept

(* The values not yet submitted belong to the one thread that is to submit. *)
Asked ==
    IF \E t \in Threads : pc[t] = "submitting"
    THEN asked = Append(waitsOf, waitValues)
    ELSE asked = waitsOf /\ waitValues = {}

(* A submission only waits for earlier ones.                                *)
Earlier ==
    \A id \in DOMAIN waitsOf : \A value \in waitsOf[id] : value < id

IInv ==
    /\ Shape
    /\ Control
    /\ OneOwner
    /\ Flight
    /\ Clean
    /\ Asked
    /\ Earlier

LEMMA InitIInv == Init => IInv
<1> SUFFICES ASSUME Init PROVE IInv
  OBVIOUS
<1>1. /\ Len(waitsOf) = 0 /\ waitsOf = <<>> /\ Ids = {}
      /\ Unfinished = {}
  BY DEF Init, GpuInit, Ids, Unfinished, Submissions
<1>2. Shape
  BY <1>1, QueueAssumption DEF Init, GpuInit, Shape, TypeOK, GpuTypeOK, Points
<1>3. Control /\ OneOwner
  BY DEF Init, Control, OneOwner, Unretired, Holds, Retires, SubmitPoints
<1>4. Flight /\ Clean /\ Asked /\ Earlier
  BY <1>1 DEF Init, GpuInit, Flight, Clean, RecordingKept, Asked,
     Earlier, Pending
<1> QED
  BY <1>2, <1>3, <1>4 DEF IInv

-----------------------------------------------------------------------------
(* What a step leaves alone stays true. *)

(* No step but SubmitBuffer makes a buffer pending.                         *)
LEMMA PendingKept ==
    ASSUME Shape, UNCHANGED <<waitsOf, cmdOf>>, counter' \in Nat,
           counter <= counter'
    PROVE  \A c : Pending(c)' => Pending(c)
BY DEF Shape, TypeOK, GpuTypeOK, Pending, Unfinished, Submissions

LEMMA AskedKept ==
    ASSUME Asked, UNCHANGED <<asked, waitsOf, waitValues>>,
           \A t \in Threads : pc'[t] = "submitting" <=> pc[t] = "submitting"
    PROVE  Asked'
BY DEF Asked

(* Steps that leave the submissions and the list in flight alone.           *)
LEMMA FlightKept ==
    ASSUME Flight,
           UNCHANGED <<lastSubmittedID, submissionID, cmdOf, waitsOf, inFlight,
                       counter, completed, entry>>
    PROVE  Flight'
BY DEF Flight, LastUse, Pending, Unfinished, Submissions, Ids

(* Steps that hand no buffer over.                                          *)
LEMMA OwnersKept ==
    ASSUME OneOwner, UNCHANGED <<pool, inFlight, entry, held, made>>,
           \A t \in Threads : pc'[t] = "erasing" <=> pc[t] = "erasing"
    PROVE  OneOwner'
BY DEF OneOwner, Unretired

(* A thread that holds the caller's lock has all of m_inFlight before it,   *)
(* unless it is about to erase an entry.                                    *)
LEMMA AllUnretired ==
    ASSUME Control, NEW t \in Threads, pc[t] \in SubmitPoints, pc[t] # "erasing"
    PROVE  Unretired = inFlight
BY DEF Control, SubmitPoints, Unretired

LEMMA UnretiredKept ==
    ASSUME UNCHANGED <<inFlight, entry>>,
           \A t \in Threads : pc'[t] = "erasing" <=> pc[t] = "erasing"
    PROVE  Unretired' = Unretired
BY DEF Unretired

(* A buffer in flight whose last submission has finished is not pending.    *)
LEMMA RetiredNotPending ==
    ASSUME Shape, Flight, NEW c \in inFlight, submissionID[c] <= completed
    PROVE  ~Pending(c)
<1> SUFFICES ASSUME NEW id \in Unfinished, cmdOf[id] = c
             PROVE  FALSE
  BY DEF Pending
<1>1. id \in Ids /\ counter < id
  BY DEF Shape, TypeOK, Unfinished, Submissions
<1>2. id <= submissionID[c]
  BY <1>1 DEF Flight, LastUse
<1> QED
  BY <1>1, <1>2 DEF Shape, TypeOK, GpuTypeOK, Ids

(* Only buffers of Unretired are pending.                                   *)
LEMMA UnretiredPending ==
    ASSUME Shape, Flight, NEW c \in CommandBuffers, c \notin Unretired
    PROVE  ~Pending(c)
<1>1. CASE c \notin inFlight
  BY <1>1 DEF Flight
<1>2. CASE c \in inFlight
  <2>1. c = entry /\ entry # NoBuffer
    BY <1>2, QueueAssumption DEF Unretired
  <2> QED
    BY <1>2, <2>1, RetiredNotPending DEF Flight
<1> QED
  BY <1>1, <1>2

(* What Goto and Take mean for the other threads.                           *)
LEMMA GotoFacts ==
    ASSUME Shape, NEW t \in Threads, NEW from, NEW to \in Points,
           Goto(t, from, to)
    PROVE  /\ pc[t] = from /\ pc'[t] = to
           /\ pc' \in [Threads -> Points]
           /\ \A u \in Threads : u # t => pc'[u] = pc[u]
BY DEF Shape, TypeOK, Goto

LEMMA TakeFacts ==
    ASSUME Shape, NEW t \in Threads, NEW c \in CommandBuffers \cup {NoBuffer},
           Take(t, c)
    PROVE  /\ held'[t] = c
           /\ held' \in [Threads -> CommandBuffers \cup {NoBuffer}]
           /\ \A u \in Threads : u # t => held'[u] = held[u]
BY DEF Shape, TypeOK, Take

(* A thread takes a buffer no thread holds: a new one, or one of the pool.  *)
LEMMA OwnersTake ==
    ASSUME OneOwner, NEW t \in Threads, NEW c, c # NoBuffer,
           held[t] = NoBuffer, NoBuffer \notin made, c \notin Unretired,
           \A u \in Threads : held[u] # c,
           pool' = pool \ {c}, Unretired' = Unretired, made' = made \cup {c},
           held'[t] = c, \A u \in Threads : u # t => held'[u] = held[u]
    PROVE  OneOwner'
<1>1. pool' \cap Unretired' = {}
  BY DEF OneOwner
<1>2. ASSUME NEW u \in Threads, held'[u] # NoBuffer
      PROVE  /\ held'[u] \notin pool' \cup Unretired'
             /\ \A v \in Threads : held'[v] = held'[u] => v = u
  <2>1. CASE u = t
    BY <2>1
  <2>2. CASE u # t
    BY <1>2, <2>2 DEF OneOwner
  <2> QED
    BY <2>1, <2>2
<1>3. ASSUME NEW d \in made'
      PROVE  d \in pool' \cup Unretired' \/ \E u \in Threads : held'[u] = d
  <2>1. CASE d = c
    BY <2>1
  <2>2. CASE d # c
    BY <2>2 DEF OneOwner
  <2> QED
    BY <2>1, <2>2
<1> QED
  BY <1>1, <1>2, <1>3 DEF OneOwner

(* A thread gives the buffer it holds to the pool or to the list in flight. *)
LEMMA OwnersGive ==
    ASSUME OneOwner, NEW t \in Threads, NEW c,
           held[t] = c, c # NoBuffer,
           pool' \ {c} = pool \ {c}, Unretired' \ {c} = Unretired \ {c},
           made' = made, c \in pool' <=> c \notin Unretired',
           held'[t] = NoBuffer, \A u \in Threads : u # t => held'[u] = held[u]
    PROVE  OneOwner'
<1>1. pool' \cap Unretired' = {}
  BY DEF OneOwner
<1>2. ASSUME NEW u \in Threads, held'[u] # NoBuffer
      PROVE  /\ held'[u] \notin pool' \cup Unretired'
             /\ \A v \in Threads : held'[v] = held'[u] => v = u
  <2>1. u # t /\ held'[u] = held[u] /\ held[u] # c
    BY <1>2 DEF OneOwner
  <2>2. held'[u] \notin pool' \cup Unretired'
    BY <1>2, <2>1 DEF OneOwner
  <2>3. \A v \in Threads : held'[v] = held'[u] => v = u
    BY <1>2, <2>1 DEF OneOwner
  <2> QED
    BY <2>2, <2>3
<1>3. ASSUME NEW d \in made'
      PROVE  d \in pool' \cup Unretired' \/ \E u \in Threads : held'[u] = d
  <2>1. CASE d = c
    BY <2>1
  <2>2. CASE d # c
    BY <2>2 DEF OneOwner
  <2> QED
    BY <2>1, <2>2
<1> QED
  BY <1>1, <1>2, <1>3 DEF OneOwner

-----------------------------------------------------------------------------
(* One lemma per action *)

LEMMA AcquireStep ==
    ASSUME IInv, NEW t \in Threads, Acquire(t)
    PROVE  IInv'
<1>1. Shape /\ Control /\ OneOwner /\ Flight /\ Clean /\ Asked /\ Earlier
  BY DEF IInv
<1>2. PICK c \in pool : /\ pool' = pool \ {c}
                        /\ recorded' = recorded \cup {c}
                        /\ Take(t, c)
  BY DEF Acquire, PoolWithout
<1>3. UNCHANGED <<submissionVars, gpuVars, inFlight, made, target, completed, entry>>
        /\ UNCHANGED <<lastSubmittedID, submissionID, cmdOf, waitsOf, waitValues,
                       asked, started, counter>>
  BY DEF Acquire, submissionVars, retireVars, idVars, gpuVars
<1>4. c \in CommandBuffers /\ c \in made /\ c # NoBuffer
  BY <1>1, QueueAssumption DEF Shape, TypeOK
<1>5. /\ pc[t] = "idle" /\ pc'[t] = "recording"
      /\ pc' \in [Threads -> Points]
      /\ \A u \in Threads : u # t => pc'[u] = pc[u]
  BY <1>1, GotoFacts DEF Acquire, Points
<1>6. /\ held'[t] = c
      /\ held' \in [Threads -> CommandBuffers \cup {NoBuffer}]
      /\ \A u \in Threads : u # t => held'[u] = held[u]
  BY <1>1, <1>2, <1>4, TakeFacts
<1>7. Shape'
  BY <1>1, <1>2, <1>3, <1>4, <1>5, <1>6 DEF Shape, TypeOK, Ids, GpuTypeOK, Take
<1>8. Control'
  BY <1>1, <1>3, <1>4, <1>5, <1>6 DEF Control, Holds, Retires, SubmitPoints
<1>9. OneOwner'
  <2>1. held[t] = NoBuffer /\ c \notin Unretired /\ \A u \in Threads : held[u] # c
    BY <1>1, <1>4, <1>5 DEF OneOwner, Control, Holds
  <2>2. made' = made \cup {c} /\ Unretired' = Unretired
    BY <1>3, <1>4, <1>5, UnretiredKept
  <2>3. NoBuffer \notin made
    BY <1>1, QueueAssumption DEF Shape, TypeOK
  <2> QED
    BY <1>1, <1>2, <1>4, <1>6, <2>1, <2>2, <2>3, OwnersTake
<1>10. Flight'
  BY <1>1, <1>3, FlightKept
<1>11. Clean'
  <2>1. \A u \in Threads : held[u] # c
    BY <1>1, <1>4 DEF OneOwner
  <2>2. ASSUME NEW u \in Threads, pc[u] = "recycling"
        PROVE  entry # c
    <3>1. entry \in Unretired
      BY <1>1, <2>2, AllUnretired, QueueAssumption
         DEF Shape, TypeOK, Control, Retires, SubmitPoints
    <3> QED
      BY <1>1, <3>1 DEF OneOwner
  <2> QED
    BY <1>1, <1>2, <1>3, <1>5, <1>6, <2>1, <2>2 DEF Clean, RecordingKept
<1>12. Asked'
  BY <1>1, <1>3, <1>5, AskedKept
<1>13. Earlier'
  BY <1>1, <1>3 DEF Earlier
<1> QED
  BY <1>7, <1>8, <1>9, <1>10, <1>11, <1>12, <1>13 DEF IInv

LEMMA CreateStep ==
    ASSUME IInv, NEW t \in Threads, Create(t)
    PROVE  IInv'
<1>1. Shape /\ Control /\ OneOwner /\ Flight /\ Clean /\ Asked /\ Earlier
  BY DEF IInv
<1>2. PICK c \in CommandBuffers \ made : /\ made' = made \cup {c}
                                         /\ recorded' = recorded \cup {c}
                                         /\ Take(t, c)
  BY DEF Create
<1>3. /\ UNCHANGED <<inFlight, pool, target, completed, entry>>
      /\ UNCHANGED <<lastSubmittedID, submissionID, cmdOf, waitsOf, waitValues,
                       asked, started, counter>>
  BY DEF Create, submissionVars, retireVars, idVars, gpuVars
<1>4. c # NoBuffer
  BY QueueAssumption
<1>5. /\ pc[t] = "creating" /\ pc'[t] = "recording"
      /\ pc' \in [Threads -> Points]
      /\ \A u \in Threads : u # t => pc'[u] = pc[u]
  BY <1>1, GotoFacts DEF Create, Points, SubmitPoints
<1>6. /\ held'[t] = c
      /\ held' \in [Threads -> CommandBuffers \cup {NoBuffer}]
      /\ \A u \in Threads : u # t => held'[u] = held[u]
  BY <1>1, <1>2, TakeFacts
<1>7. Shape'
  BY <1>1, <1>2, <1>3, <1>4, <1>5, <1>6 DEF Shape, TypeOK, Ids, GpuTypeOK, Take
<1>8. Control'
  BY <1>1, <1>3, <1>4, <1>5, <1>6 DEF Control, Holds, Retires, SubmitPoints
<1>9. OneOwner'
  <2>1. c \notin pool /\ c \notin Unretired /\ \A u \in Threads : held[u] # c
    BY <1>1, <1>4 DEF Shape, TypeOK, Unretired
  <2>2. held[t] = NoBuffer /\ pool' = pool \ {c}
    BY <1>1, <1>3, <1>5, <2>1 DEF Control, Holds
  <2>3. Unretired' = Unretired /\ NoBuffer \notin made
    BY <1>1, <1>3, <1>5, UnretiredKept, QueueAssumption DEF Shape, TypeOK
  <2> QED
    BY <1>1, <1>2, <1>4, <1>6, <2>1, <2>2, <2>3, OwnersTake
<1>10. Flight'
  BY <1>1, <1>3, FlightKept
<1>11. Clean'
  <2>1. c \notin pool /\ entry # c /\ \A u \in Threads : held[u] # c
    BY <1>1, <1>4 DEF Shape, TypeOK
  <2> QED
    BY <1>1, <1>2, <1>3, <1>5, <1>6, <2>1 DEF Clean, RecordingKept
<1>12. Asked'
  BY <1>1, <1>3, <1>5, AskedKept
<1>13. Earlier'
  BY <1>1, <1>3 DEF Earlier
<1> QED
  BY <1>7, <1>8, <1>9, <1>10, <1>11, <1>12, <1>13 DEF IInv

LEMMA AcquireMissStep ==
    ASSUME IInv, NEW t \in Threads, AcquireMiss(t)
    PROVE  IInv'
<1>1. Shape /\ Control /\ OneOwner /\ Flight /\ Clean /\ Asked /\ Earlier
  BY DEF IInv
<1>3. /\ UNCHANGED <<inFlight, pool, made, recorded, held, target, completed, entry>>
      /\ UNCHANGED <<lastSubmittedID, submissionID, cmdOf, waitsOf, waitValues,
                       asked, started, counter>>
  BY DEF AcquireMiss, submissionVars, retireVars, idVars, gpuVars
<1>5. /\ pc[t] = "idle" /\ pc'[t] = "creating"
      /\ pc' \in [Threads -> Points]
      /\ \A u \in Threads : u # t => pc'[u] = pc[u]
  BY <1>1, GotoFacts DEF AcquireMiss, Points, SubmitPoints
<1>7. Shape'
  BY <1>1, <1>3, <1>5 DEF Shape, TypeOK, Ids, GpuTypeOK
<1>8. Control'
  BY <1>1, <1>3, <1>5 DEF Control, Holds, Retires, SubmitPoints
<1>9. OneOwner'
  BY <1>1, <1>3, <1>5, OwnersKept
<1>10. Flight'
  BY <1>1, <1>3, FlightKept
<1>11. Clean'
  BY <1>1, <1>3, <1>5 DEF Clean, RecordingKept
<1>12. Asked'
  BY <1>1, <1>3, <1>5, AskedKept
<1>13. Earlier'
  BY <1>1, <1>3 DEF Earlier
<1> QED
  BY <1>7, <1>8, <1>9, <1>10, <1>11, <1>12, <1>13 DEF IInv

LEMMA RetireEndStep ==
    ASSUME IInv, NEW t \in Threads, RetireEnd(t)
    PROVE  IInv'
<1>1. Shape /\ Control /\ OneOwner /\ Flight /\ Clean /\ Asked /\ Earlier
  BY DEF IInv
<1>3. /\ UNCHANGED <<inFlight, pool, made, recorded, held, target, completed, entry>>
      /\ UNCHANGED <<lastSubmittedID, submissionID, cmdOf, waitsOf, waitValues,
                       asked, started, counter>>
  BY DEF RetireEnd, submissionVars, retireVars, idVars, gpuVars
<1>5. /\ pc[t] = "retiring" /\ pc'[t] = "idle"
      /\ pc' \in [Threads -> Points]
      /\ \A u \in Threads : u # t => pc'[u] = pc[u]
  BY <1>1, GotoFacts DEF RetireEnd, Points, SubmitPoints
<1>7. Shape'
  BY <1>1, <1>3, <1>5 DEF Shape, TypeOK, Ids, GpuTypeOK
<1>8. Control'
  BY <1>1, <1>3, <1>5 DEF Control, Holds, Retires, SubmitPoints
<1>9. OneOwner'
  BY <1>1, <1>3, <1>5, OwnersKept
<1>10. Flight'
  BY <1>1, <1>3, FlightKept
<1>11. Clean'
  BY <1>1, <1>3, <1>5 DEF Clean, RecordingKept
<1>12. Asked'
  BY <1>1, <1>3, <1>5, AskedKept
<1>13. Earlier'
  BY <1>1, <1>3 DEF Earlier
<1> QED
  BY <1>7, <1>8, <1>9, <1>10, <1>11, <1>12, <1>13 DEF IInv

LEMMA WaitBeginStep ==
    ASSUME IInv, NEW t \in Threads, NEW id \in Ids, WaitBegin(t, id)
    PROVE  IInv'
<1>1. Shape /\ Control /\ OneOwner /\ Flight /\ Clean /\ Asked /\ Earlier
  BY DEF IInv
<1>3. /\ UNCHANGED <<inFlight, pool, made, recorded, held, completed, entry>>
      /\ UNCHANGED <<lastSubmittedID, submissionID, cmdOf, waitsOf, waitValues,
                       asked, started, counter>>
  BY DEF WaitBegin, submissionVars, retireVars, idVars, gpuVars
<1>5. /\ pc[t] = "idle" /\ pc'[t] = "waiting"
      /\ pc' \in [Threads -> Points]
      /\ \A u \in Threads : u # t => pc'[u] = pc[u]
  BY <1>1, GotoFacts DEF WaitBegin, Points, SubmitPoints
<1>7. Shape'
  BY <1>1, <1>3, <1>5 DEF Shape, TypeOK, Ids, GpuTypeOK, WaitBegin
<1>8. Control'
  BY <1>1, <1>3, <1>5 DEF Control, Holds, Retires, SubmitPoints
<1>9. OneOwner'
  BY <1>1, <1>3, <1>5, OwnersKept
<1>10. Flight'
  BY <1>1, <1>3, FlightKept
<1>11. Clean'
  BY <1>1, <1>3, <1>5 DEF Clean, RecordingKept
<1>12. Asked'
  BY <1>1, <1>3, <1>5, AskedKept
<1>13. Earlier'
  BY <1>1, <1>3 DEF Earlier
<1> QED
  BY <1>7, <1>8, <1>9, <1>10, <1>11, <1>12, <1>13 DEF IInv

LEMMA WaitEndStep ==
    ASSUME IInv, NEW t \in Threads, WaitEnd(t)
    PROVE  IInv'
<1>1. Shape /\ Control /\ OneOwner /\ Flight /\ Clean /\ Asked /\ Earlier
  BY DEF IInv
<1>3. /\ UNCHANGED <<inFlight, pool, made, recorded, held, completed, entry>>
      /\ UNCHANGED <<lastSubmittedID, submissionID, cmdOf, waitsOf, waitValues,
                       asked, started, counter>>
  BY DEF WaitEnd, submissionVars, retireVars, idVars, gpuVars
<1>5. /\ pc[t] = "waiting" /\ pc'[t] = "idle"
      /\ pc' \in [Threads -> Points]
      /\ \A u \in Threads : u # t => pc'[u] = pc[u]
  BY <1>1, GotoFacts DEF WaitEnd, Points, SubmitPoints
<1>7. Shape'
  BY <1>1, <1>3, <1>5 DEF Shape, TypeOK, Ids, GpuTypeOK, WaitEnd
<1>8. Control'
  BY <1>1, <1>3, <1>5 DEF Control, Holds, Retires, SubmitPoints
<1>9. OneOwner'
  BY <1>1, <1>3, <1>5, OwnersKept
<1>10. Flight'
  BY <1>1, <1>3, FlightKept
<1>11. Clean'
  BY <1>1, <1>3, <1>5 DEF Clean, RecordingKept
<1>12. Asked'
  BY <1>1, <1>3, <1>5, AskedKept
<1>13. Earlier'
  BY <1>1, <1>3 DEF Earlier
<1> QED
  BY <1>7, <1>8, <1>9, <1>10, <1>11, <1>12, <1>13 DEF IInv

LEMMA ReleaseResetStep ==
    ASSUME IInv, NEW t \in Threads, ReleaseReset(t)
    PROVE  IInv'
<1>1. Shape /\ Control /\ OneOwner /\ Flight /\ Clean /\ Asked /\ Earlier
  BY DEF IInv
<1>3. /\ UNCHANGED <<inFlight, pool, made, held, target, completed, entry>>
      /\ UNCHANGED <<lastSubmittedID, submissionID, cmdOf, waitsOf, waitValues,
                       asked, started, counter>>
      /\ recorded' = recorded \ {held[t]}
  BY DEF ReleaseReset, submissionVars, retireVars, idVars, gpuVars
<1>5. /\ pc[t] = "recording" /\ pc'[t] = "releasing"
      /\ pc' \in [Threads -> Points]
      /\ \A u \in Threads : u # t => pc'[u] = pc[u]
  BY <1>1, GotoFacts DEF ReleaseReset, Points, SubmitPoints
<1>7. Shape'
  BY <1>1, <1>3, <1>5 DEF Shape, TypeOK, Ids, GpuTypeOK
<1>8. Control'
  BY <1>1, <1>3, <1>5 DEF Control, Holds, Retires, SubmitPoints
<1>9. OneOwner'
  BY <1>1, <1>3, <1>5, OwnersKept
<1>10. Flight'
  BY <1>1, <1>3, FlightKept
<1>11. Clean'
  <2>1. held[t] # NoBuffer
    BY <1>1, <1>5 DEF Control, Holds
  <2>2. \A u \in Threads : u # t => held[u] # held[t]
    BY <1>1, <2>1 DEF OneOwner
  <2> QED
    BY <1>1, <1>3, <1>5, <2>2 DEF Clean, RecordingKept
<1>12. Asked'
  BY <1>1, <1>3, <1>5, AskedKept
<1>13. Earlier'
  BY <1>1, <1>3 DEF Earlier
<1> QED
  BY <1>7, <1>8, <1>9, <1>10, <1>11, <1>12, <1>13 DEF IInv

LEMMA ReleaseStep ==
    ASSUME IInv, NEW t \in Threads, Release(t)
    PROVE  IInv'
<1>1. Shape /\ Control /\ OneOwner /\ Flight /\ Clean /\ Asked /\ Earlier
  BY DEF IInv
<1>2. pool' = pool \cup {held[t]} /\ Take(t, NoBuffer)
  BY DEF Release
<1>3. /\ UNCHANGED <<inFlight, made, recorded, target, completed, entry>>
      /\ UNCHANGED <<lastSubmittedID, submissionID, cmdOf, waitsOf, waitValues,
                       asked, started, counter>>
  BY DEF Release, submissionVars, retireVars, idVars, gpuVars
<1>5. /\ pc[t] = "releasing" /\ pc'[t] = "idle"
      /\ pc' \in [Threads -> Points]
      /\ \A u \in Threads : u # t => pc'[u] = pc[u]
  BY <1>1, GotoFacts DEF Release, Points, SubmitPoints
<1>4. held[t] # NoBuffer /\ held[t] \in made /\ held[t] \notin Unretired
  BY <1>1, <1>5 DEF Shape, TypeOK, Control, Holds, OneOwner
<1>6. /\ held'[t] = NoBuffer
      /\ held' \in [Threads -> CommandBuffers \cup {NoBuffer}]
      /\ \A u \in Threads : u # t => held'[u] = held[u]
  BY <1>1, <1>2, TakeFacts
<1>7. Shape'
  BY <1>1, <1>2, <1>3, <1>4, <1>5 DEF Shape, TypeOK, Ids, GpuTypeOK, Take
<1>8. Control'
  BY <1>1, <1>3, <1>5, <1>6 DEF Control, Holds, Retires, SubmitPoints
<1>9. OneOwner'
  <2>1. Unretired' = Unretired
    BY <1>3, <1>5, UnretiredKept
  <2> QED
    BY <1>1, <1>2, <1>3, <1>4, <1>6, <2>1, OwnersGive
<1>10. Flight'
  BY <1>1, <1>3, FlightKept
<1>11. Clean'
  BY <1>1, <1>2, <1>3, <1>5, <1>6 DEF Clean, RecordingKept
<1>12. Asked'
  BY <1>1, <1>3, <1>5, AskedKept
<1>13. Earlier'
  BY <1>1, <1>3 DEF Earlier
<1> QED
  BY <1>7, <1>8, <1>9, <1>10, <1>11, <1>12, <1>13 DEF IInv

LEMMA RetireBeginStep ==
    ASSUME IInv, NEW t \in Threads, RetireBegin(t)
    PROVE  IInv'
<1>1. Shape /\ Control /\ OneOwner /\ Flight /\ Clean /\ Asked /\ Earlier
  BY DEF IInv
<1>3. /\ UNCHANGED <<inFlight, pool, made, recorded, held, target, entry>>
      /\ UNCHANGED <<lastSubmittedID, submissionID, cmdOf, waitsOf, waitValues,
                       asked, started, counter>>
      /\ completed' = counter
  BY DEF RetireBegin, submissionVars, retireVars, idVars, gpuVars
<1>5. /\ pc[t] = "submitted" /\ pc'[t] = "retiring"
      /\ pc' \in [Threads -> Points]
      /\ \A u \in Threads : u # t => pc'[u] = pc[u]
  BY <1>1, GotoFacts DEF RetireBegin, Points, SubmitPoints
<1>7. Shape'
  BY <1>1, <1>3, <1>5 DEF Shape, TypeOK, Ids, GpuTypeOK
<1>8. Control'
  BY <1>1, <1>3, <1>5 DEF Control, Holds, Retires, SubmitPoints
<1>9. OneOwner'
  BY <1>1, <1>3, <1>5, OwnersKept
<1>10. Flight'
  <2>1. entry = NoBuffer
    BY <1>1, <1>5 DEF Control, SubmitPoints, Retires
  <2> QED
    BY <1>1, <1>3, <2>1 DEF Flight, LastUse, Pending, Unfinished, Submissions, Ids
<1>11. Clean'
  BY <1>1, <1>3, <1>5 DEF Clean, RecordingKept
<1>12. Asked'
  BY <1>1, <1>3, <1>5, AskedKept
<1>13. Earlier'
  BY <1>1, <1>3 DEF Earlier
<1> QED
  BY <1>7, <1>8, <1>9, <1>10, <1>11, <1>12, <1>13 DEF IInv

LEMMA RetireResetStep ==
    ASSUME IInv, NEW t \in Threads, NEW c \in CommandBuffers, RetireReset(t, c)
    PROVE  IInv'
<1>1. Shape /\ Control /\ OneOwner /\ Flight /\ Clean /\ Asked /\ Earlier
  BY DEF IInv
<1>2. /\ c \in inFlight /\ submissionID[c] <= completed
      /\ recorded' = recorded \ {c} /\ entry' = c
  BY DEF RetireReset, Retirable
<1>3. /\ UNCHANGED <<inFlight, pool, made, held, target, completed>>
      /\ UNCHANGED <<lastSubmittedID, submissionID, cmdOf, waitsOf, waitValues,
                       asked, started, counter>>
  BY DEF RetireReset, submissionVars, idVars, gpuVars
<1>4. c # NoBuffer
  BY QueueAssumption
<1>5. /\ pc[t] = "retiring" /\ pc'[t] = "recycling"
      /\ pc' \in [Threads -> Points]
      /\ \A u \in Threads : u # t => pc'[u] = pc[u]
  BY <1>1, GotoFacts DEF RetireReset, Points, SubmitPoints
<1>6. /\ Unretired = inFlight /\ Unretired' = inFlight
      /\ \A u \in Threads : pc[u] # "erasing" /\ pc'[u] # "erasing"
  <2>1. \A u \in Threads : pc[u] # "erasing" /\ pc'[u] # "erasing"
    BY <1>1, <1>5 DEF Control, SubmitPoints
  <2> QED
    BY <1>3, <2>1 DEF Unretired
<1>7. Shape'
  BY <1>1, <1>2, <1>3, <1>5 DEF Shape, TypeOK, Ids, GpuTypeOK
<1>8. Control'
  BY <1>1, <1>2, <1>3, <1>4, <1>5 DEF Control, Holds, Retires, SubmitPoints
<1>9. OneOwner'
  BY <1>1, <1>3, <1>6 DEF OneOwner
<1>10. Flight'
  BY <1>1, <1>2, <1>3 DEF Flight, LastUse, Pending, Unfinished, Submissions, Ids
<1>11. Clean'
  <2>1. \A u \in Threads : held[u] # c
    BY <1>1, <1>2, <1>4, <1>6 DEF OneOwner
  <2> QED
    BY <1>1, <1>2, <1>3, <1>5, <2>1 DEF Clean, RecordingKept
<1>12. Asked'
  BY <1>1, <1>3, <1>5, AskedKept
<1>13. Earlier'
  BY <1>1, <1>3 DEF Earlier
<1> QED
  BY <1>7, <1>8, <1>9, <1>10, <1>11, <1>12, <1>13 DEF IInv

LEMMA RetirePushStep ==
    ASSUME IInv, NEW t \in Threads, RetirePush(t)
    PROVE  IInv'
<1>1. Shape /\ Control /\ OneOwner /\ Flight /\ Clean /\ Asked /\ Earlier
  BY DEF IInv
<1>2. pool' = pool \cup {entry}
  BY DEF RetirePush
<1>3. /\ UNCHANGED <<inFlight, made, recorded, held, target, completed, entry>>
      /\ UNCHANGED <<lastSubmittedID, submissionID, cmdOf, waitsOf, waitValues,
                       asked, started, counter>>
  BY DEF RetirePush, submissionVars, retireVars, idVars, gpuVars
<1>5. /\ pc[t] = "recycling" /\ pc'[t] = "erasing"
      /\ pc' \in [Threads -> Points]
      /\ \A u \in Threads : u # t => pc'[u] = pc[u]
  BY <1>1, GotoFacts DEF RetirePush, Points, SubmitPoints
<1>4. entry # NoBuffer /\ entry \in inFlight /\ entry \in made
  BY <1>1, <1>5 DEF Shape, TypeOK, Control, Retires
<1>6. Unretired = inFlight /\ Unretired' = inFlight \ {entry}
  <2>1. Unretired = inFlight
    BY <1>1, <1>5, AllUnretired DEF SubmitPoints
  <2> QED
    BY <1>3, <1>5, <2>1 DEF Unretired
<1>7. Shape'
  BY <1>1, <1>2, <1>3, <1>4, <1>5 DEF Shape, TypeOK, Ids, GpuTypeOK
<1>8. Control'
  BY <1>1, <1>3, <1>5 DEF Control, Holds, Retires, SubmitPoints
<1>9. OneOwner'
  BY <1>1, <1>2, <1>3, <1>4, <1>6 DEF OneOwner
<1>10. Flight'
  BY <1>1, <1>3, FlightKept
<1>11. Clean'
  BY <1>1, <1>2, <1>3, <1>5 DEF Clean, RecordingKept
<1>12. Asked'
  BY <1>1, <1>3, <1>5, AskedKept
<1>13. Earlier'
  BY <1>1, <1>3 DEF Earlier
<1> QED
  BY <1>7, <1>8, <1>9, <1>10, <1>11, <1>12, <1>13 DEF IInv

LEMMA RetireEraseStep ==
    ASSUME IInv, NEW t \in Threads, RetireErase(t)
    PROVE  IInv'
<1>1. Shape /\ Control /\ OneOwner /\ Flight /\ Clean /\ Asked /\ Earlier
  BY DEF IInv
<1>2. inFlight' = inFlight \ {entry} /\ entry' = NoBuffer
  BY DEF RetireErase, InFlightWithout
<1>3. /\ UNCHANGED <<pool, made, recorded, held, target, completed>>
      /\ UNCHANGED <<lastSubmittedID, submissionID, cmdOf, waitsOf, waitValues,
                       asked, started, counter>>
  BY DEF RetireErase, submissionVars, idVars, gpuVars
<1>5. /\ pc[t] = "erasing" /\ pc'[t] = "retiring"
      /\ pc' \in [Threads -> Points]
      /\ \A u \in Threads : u # t => pc'[u] = pc[u]
  BY <1>1, GotoFacts DEF RetireErase, Points, SubmitPoints
<1>4. entry # NoBuffer /\ entry \in inFlight /\ entry \in CommandBuffers
  BY <1>1, <1>5 DEF Shape, TypeOK, Control, Retires
<1>6. Unretired' = Unretired
  <2>1. \A u \in Threads : pc'[u] # "erasing"
    BY <1>1, <1>5 DEF Control, SubmitPoints
  <2> QED
    BY <1>2, <1>5, <2>1 DEF Unretired
<1>7. Shape'
  BY <1>1, <1>2, <1>3, <1>5 DEF Shape, TypeOK, Ids, GpuTypeOK
<1>8. Control'
  BY <1>1, <1>2, <1>3, <1>5 DEF Control, Holds, Retires, SubmitPoints
<1>9. OneOwner'
  BY <1>1, <1>3, <1>6 DEF OneOwner
<1>10. Flight'
  <2>1. ~Pending(entry)
    BY <1>1, <1>4, RetiredNotPending DEF Flight
  <2>2. \A d : Pending(d)' = Pending(d)
    BY <1>3 DEF Pending, Unfinished, Submissions
  <2>3. \A d \in inFlight' : LastUse(d)'
    BY <1>1, <1>2, <1>3 DEF Flight, LastUse, Ids
  <2>4. \A d \in CommandBuffers \ inFlight' : ~Pending(d)'
    BY <1>1, <1>2, <2>1, <2>2 DEF Flight
  <2> QED
    BY <1>2, <2>3, <2>4 DEF Flight
<1>11. Clean'
  BY <1>1, <1>3, <1>5 DEF Clean, RecordingKept, Control, SubmitPoints
<1>12. Asked'
  BY <1>1, <1>3, <1>5, AskedKept
<1>13. Earlier'
  BY <1>1, <1>3 DEF Earlier
<1> QED
  BY <1>7, <1>8, <1>9, <1>10, <1>11, <1>12, <1>13 DEF IInv

-----------------------------------------------------------------------------
(* The steps of a submission *)

(* Append, and a change of the last element.                                *)
LEMMA AppendLast ==
    ASSUME NEW S, NEW s \in Seq(S), NEW a, NEW b
    PROVE  /\ Len(Append(s, a)) = Len(s) + 1
           /\ Append(s, a)[Len(s) + 1] = a
           /\ [Append(s, a) EXCEPT ![Len(s) + 1] = b] = Append(s, b)
<1> DEFINE T == S \cup {a, b}
           n == Len(s)
           c == [Append(s, a) EXCEPT ![n + 1] = b]
<1>1. s \in Seq(T) /\ n \in Nat
  BY SeqMonotonic
<1>2. /\ Append(s, a) \in Seq(T) /\ Len(Append(s, a)) = n + 1
      /\ \A i \in 1 .. n : Append(s, a)[i] = s[i]
      /\ Append(s, a)[n + 1] = a
  BY <1>1, AppendProperties
<1>3. /\ Append(s, b) \in Seq(T) /\ Len(Append(s, b)) = n + 1
      /\ \A i \in 1 .. n : Append(s, b)[i] = s[i]
      /\ Append(s, b)[n + 1] = b
  BY <1>1, AppendProperties
<1>4. n + 1 \in 1 .. Len(Append(s, a)) /\ b \in T
  BY <1>1, <1>2
<1>5. /\ c \in Seq(T) /\ Len(c) = n + 1
      /\ \A i \in 1 .. n + 1 : c[i] = IF i = n + 1 THEN b ELSE Append(s, a)[i]
  <2> DEFINE q == Append(s, a)
  <2> SUFFICES /\ [q EXCEPT ![n + 1] = b] \in Seq(T)
               /\ Len([q EXCEPT ![n + 1] = b]) = n + 1
               /\ \A i \in 1 .. n + 1 :
                     [q EXCEPT ![n + 1] = b][i] = IF i = n + 1 THEN b ELSE q[i]
    OBVIOUS
  <2>1. q \in Seq(T) /\ Len(q) = n + 1 /\ n + 1 \in 1 .. Len(q)
    BY <1>2, <1>4
  <2> HIDE DEF q, T, n
  <2> QED
    BY <1>4, <2>1, ExceptSeq
<1>6. \A i \in 1 .. n + 1 : c[i] = Append(s, b)[i]
  BY <1>1, <1>2, <1>3, <1>5
<1>7. c = Append(s, b)
  <2> HIDE DEF c, T
  <2> QED
    BY <1>3, <1>5, <1>6, SeqEqual
<1> QED
  BY <1>2, <1>7

LEMMA EnterSubmitStep ==
    ASSUME IInv, NEW t \in Threads, EnterSubmit(t)
    PROVE  IInv'
<1>1. Shape /\ Control /\ OneOwner /\ Flight /\ Clean /\ Asked /\ Earlier
  BY DEF IInv
<1>3. /\ UNCHANGED <<lastSubmittedID, submissionID, cmdOf, waitsOf, waitValues,
                     started, counter>>
      /\ UNCHANGED <<inFlight, pool, made, recorded, held, target, completed, entry>>
      /\ asked' = Append(asked, {})
      /\ lastSubmittedID < MaxSubmissions
      /\ \A u \in Threads : pc[u] \notin SubmitPoints
  BY DEF EnterSubmit, idVars, retireVars, gpuVars
<1>4. asked = waitsOf /\ waitValues = {}
  BY <1>1, <1>3 DEF Asked, SubmitPoints
<1>5. /\ pc[t] = "recording" /\ pc'[t] = "submitting"
      /\ pc' \in [Threads -> Points]
      /\ \A u \in Threads : u # t => pc'[u] = pc[u]
  BY <1>1, GotoFacts DEF EnterSubmit, Points, SubmitPoints
<1>7. Shape'
  <2>1. asked' \in Seq(SUBSET Ids)
    BY <1>1, <1>3 DEF Shape, TypeOK
  <2> QED
    BY <1>1, <1>3, <1>5, <2>1 DEF Shape, TypeOK, Ids, GpuTypeOK
<1>8. Control'
  BY <1>1, <1>3, <1>5 DEF Control, Holds, Retires, SubmitPoints
<1>9. OneOwner'
  BY <1>1, <1>3, <1>5, OwnersKept
<1>10. Flight'
  BY <1>1, <1>3, FlightKept
<1>11. Clean'
  BY <1>1, <1>3, <1>5 DEF Clean, RecordingKept
<1>12. Asked'
  BY <1>3, <1>4, <1>5 DEF Asked
<1>13. Earlier'
  BY <1>1, <1>3 DEF Earlier
<1> QED
  BY <1>7, <1>8, <1>9, <1>10, <1>11, <1>12, <1>13 DEF IInv

LEMMA AddWaitSemaphoreStep ==
    ASSUME IInv, NEW t \in Threads, NEW id \in Ids, AddWaitSemaphore(t, id)
    PROVE  IInv'
<1>1. Shape /\ Control /\ OneOwner /\ Flight /\ Clean /\ Asked /\ Earlier
  BY DEF IInv
<1>2. waitValues' = waitValues \cup {id}
      /\ asked' = [asked EXCEPT ![Len(asked)] = asked[Len(asked)] \cup {id}]
      /\ pc[t] = "submitting"
  BY DEF AddWaitSemaphore
<1>3. /\ UNCHANGED <<lastSubmittedID, submissionID, cmdOf, waitsOf, started,
                     counter>>
      /\ UNCHANGED <<inFlight, pool, made, recorded, pc, held, target, completed, entry>>
  BY DEF AddWaitSemaphore, idVars, retireVars, gpuVars
<1>4. asked' = Append(waitsOf, waitValues')
  <2>1. asked = Append(waitsOf, waitValues)
    BY <1>1, <1>2 DEF Asked
  <2>2. waitsOf \in Seq(SUBSET Nat)
    BY <1>1 DEF Shape, TypeOK, GpuTypeOK
  <2>3. Len(asked) = Len(waitsOf) + 1 /\ asked[Len(asked)] = waitValues
    BY <2>1, <2>2, AppendLast
  <2>4. asked' = [Append(waitsOf, waitValues) EXCEPT ![Len(waitsOf) + 1] = waitValues']
    BY <1>2, <2>1, <2>3
  <2> QED
    BY <2>2, <2>4, AppendLast
<1>7. Shape'
  <2>1. waitValues' \subseteq Ids
    BY <1>1, <1>2 DEF Shape, TypeOK
  <2>2. asked' \in Seq(SUBSET Ids)
    <3>1. waitsOf \in Seq(SUBSET Ids)
      BY <1>1 DEF Shape, TypeOK, GpuTypeOK
    <3> QED
      BY <1>4, <2>1, <3>1
  <2> QED
    BY <1>1, <1>3, <2>1, <2>2 DEF Shape, TypeOK, Ids, GpuTypeOK
<1>8. Control'
  BY <1>1, <1>3 DEF Control
<1>9. OneOwner'
  BY <1>1, <1>3, OwnersKept
<1>10. Flight'
  BY <1>1, <1>3, FlightKept
<1>11. Clean'
  BY <1>1, <1>3 DEF Clean, RecordingKept
<1>12. Asked'
  BY <1>2, <1>3, <1>4 DEF Asked
<1>13. Earlier'
  BY <1>1, <1>3 DEF Earlier
<1> QED
  BY <1>7, <1>8, <1>9, <1>10, <1>11, <1>12, <1>13 DEF IInv

LEMMA SubmitBufferStep ==
    ASSUME IInv, NEW t \in Threads, SubmitBuffer(t)
    PROVE  IInv' /\ lastSubmittedID < MaxSubmissions
<1> DEFINE id == lastSubmittedID + 1
<1>0. PICK c : c = held[t]
  OBVIOUS
<1>1. Shape /\ Control /\ OneOwner /\ Flight /\ Clean /\ Asked /\ Earlier
  BY DEF IInv
<1>2. /\ lastSubmittedID' = id
      /\ submissionID' = [submissionID EXCEPT ![c] = id]
      /\ cmdOf' = Append(cmdOf, c)
      /\ waitsOf' = Append(waitsOf, waitValues)
      /\ waitValues' = {}
      /\ inFlight' = inFlight \cup {c}
      /\ Take(t, NoBuffer)
  BY <1>0 DEF SubmitBuffer, NextID, Enqueue, WaitsSubmitted, WaitValuesAfterSubmit
<1>3. UNCHANGED <<started, counter, pool, made, recorded, target, completed, entry, asked>>
  BY DEF SubmitBuffer, retireVars, gpuVars
<1>5. /\ pc[t] = "submitting" /\ pc'[t] = "submitted"
      /\ pc' \in [Threads -> Points]
      /\ \A u \in Threads : u # t => pc'[u] = pc[u]
  BY <1>1, GotoFacts DEF SubmitBuffer, Points, SubmitPoints
<1>e. Unretired = inFlight /\ Unretired' = inFlight' /\ entry = NoBuffer
  <2>1. entry = NoBuffer /\ \A u \in Threads : pc'[u] # "erasing"
    BY <1>1, <1>5 DEF Control, Retires, SubmitPoints
  <2>2. Unretired = inFlight
    BY <1>1, <1>5, AllUnretired DEF SubmitPoints
  <2> QED
    BY <2>1, <2>2 DEF Unretired
<1>4. /\ c # NoBuffer /\ c \in made /\ c \in CommandBuffers
      /\ c \notin inFlight /\ c \notin pool
  BY <1>0, <1>1, <1>5, <1>e DEF Shape, TypeOK, Control, Holds, OneOwner
<1>6. /\ held'[t] = NoBuffer
      /\ held' \in [Threads -> CommandBuffers \cup {NoBuffer}]
      /\ \A u \in Threads : u # t => held'[u] = held[u]
  BY <1>1, <1>2, TakeFacts
<1>a. /\ lastSubmittedID \in Nat /\ MaxSubmissions \in Nat
      /\ lastSubmittedID < MaxSubmissions
      /\ lastSubmittedID = Len(waitsOf) /\ lastSubmittedID = Len(cmdOf)
  BY <1>1, <1>5, QueueAssumption DEF Shape, TypeOK, Control
<1>b. Ids \subseteq Ids' /\ Ids' = Ids \cup {id} /\ id \notin Ids
  BY <1>2, <1>a DEF Ids
<1>c. /\ cmdOf' \in Seq(CommandBuffers) /\ Len(cmdOf') = id
      /\ cmdOf'[id] = c /\ \A i \in Ids : cmdOf'[i] = cmdOf[i]
  BY <1>1, <1>2, <1>4, <1>a DEF Shape, Ids
<1>d. waitsOf' = asked /\ waitsOf' \in Seq(SUBSET Ids) /\ Len(waitsOf') = id
  <2>1. waitsOf' = asked
    BY <1>1, <1>2, <1>5 DEF Asked
  <2>2. waitsOf \in Seq(SUBSET Ids) /\ waitValues \in SUBSET Ids
    BY <1>1 DEF Shape, TypeOK, GpuTypeOK
  <2>3. Append(waitsOf, waitValues) \in Seq(SUBSET Ids)
          /\ Len(Append(waitsOf, waitValues)) = Len(waitsOf) + 1
    BY <2>2, AppendProperties
  <2> QED
    BY <1>2, <1>a, <2>1, <2>3
<1>7. Shape'
  <2>1. /\ waitsOf' \in Seq(SUBSET Nat) /\ waitsOf' \in [Ids' -> SUBSET Ids']
        /\ asked' \in Seq(SUBSET Ids')
    <3>1. SUBSET Ids \subseteq SUBSET Ids' /\ SUBSET Ids \subseteq SUBSET Nat
      BY <1>b DEF Ids
    <3>2. waitsOf' \in Seq(SUBSET Ids') /\ waitsOf' \in Seq(SUBSET Nat)
      BY <1>d, <3>1, SeqMonotonic
    <3>3. Ids' = 1 .. id
      BY <1>2 DEF Ids
    <3> QED
      BY <1>3, <1>d, <3>2, <3>3
  <2>2. cmdOf' \in [Ids' -> CommandBuffers]
    <3>1. cmdOf' \in [1 .. Len(cmdOf') -> CommandBuffers]
      BY <1>c
    <3> QED
      BY <1>2, <1>c, <3>1 DEF Ids
  <2>3. submissionID' \in [CommandBuffers -> 0 .. MaxSubmissions]
    BY <1>1, <1>2, <1>4, <1>a DEF Shape, TypeOK
  <2>4. held' \in [Threads -> made \cup {NoBuffer}]
    BY <1>1, <1>2 DEF Shape, TypeOK, Take
  <2>5. target' \in [Threads -> 0 .. lastSubmittedID']
    BY <1>1, <1>2, <1>3, <1>a DEF Shape, TypeOK
  <2>6. /\ lastSubmittedID' \in 0 .. MaxSubmissions
        /\ completed' \in 0 .. lastSubmittedID' /\ completed' <= counter'
        /\ started' \in 0 .. Len(waitsOf') /\ counter' \in 0 .. started'
    BY <1>1, <1>2, <1>3, <1>a, <1>d DEF Shape, TypeOK, GpuTypeOK
  <2>7. /\ inFlight' \subseteq made' /\ pool' \subseteq made'
        /\ made' \subseteq CommandBuffers /\ recorded' \subseteq made'
        /\ waitValues' \subseteq Ids' /\ entry' \in inFlight' \cup {NoBuffer}
    BY <1>1, <1>2, <1>3, <1>4 DEF Shape, TypeOK
  <2> QED
    BY <1>2, <1>3, <1>5, <1>c, <1>d, <2>1, <2>2, <2>3, <2>4, <2>5, <2>6, <2>7
       DEF Shape, TypeOK, GpuTypeOK
<1>8. Control'
  BY <1>1, <1>3, <1>5, <1>6, <1>e DEF Control, Holds, Retires, SubmitPoints
<1>9. OneOwner'
  BY <1>0, <1>1, <1>2, <1>3, <1>4, <1>6, <1>e, OwnersGive
<1>10. Flight'
  <2>1. LastUse(c)'
    <3>1. submissionID'[c] = id
      BY <1>1, <1>2, <1>4 DEF Shape, TypeOK
    <3> QED
      BY <1>2, <1>a, <3>1 DEF LastUse, Ids
  <2>2. ASSUME NEW d \in inFlight
        PROVE  LastUse(d)'
    <3>1. d # c /\ d \in CommandBuffers /\ submissionID'[d] = submissionID[d]
      BY <1>1, <1>2, <1>4 DEF Shape, TypeOK
    <3>2. \A i \in Ids' : cmdOf'[i] = d => i \in Ids /\ cmdOf[i] = d
      BY <1>b, <1>c, <3>1
    <3> QED
      BY <1>1, <1>b, <3>1, <3>2 DEF Flight, LastUse
  <2>3. ASSUME NEW d \in CommandBuffers \ inFlight'
        PROVE  ~Pending(d)'
    <3> SUFFICES ASSUME NEW i \in Unfinished', cmdOf'[i] = d
                 PROVE  FALSE
      BY DEF Pending
    <3>1. d # c /\ d \in CommandBuffers \ inFlight
      BY <1>2
    <3>2. i \in Ids' /\ counter < i
      BY <1>3, <1>d, <1>2 DEF Unfinished, Submissions, Ids
    <3>3. i \in Ids /\ cmdOf[i] = d
      BY <1>b, <1>c, <3>1, <3>2
    <3>4. i \in Unfinished
      BY <1>1, <3>2, <3>3 DEF Unfinished, Submissions, Shape, TypeOK
    <3> QED
      BY <1>1, <3>1, <3>3, <3>4 DEF Flight, Pending
  <2>4. entry' = NoBuffer
    BY <1>3, <1>e
  <2>5. \A d \in inFlight' : LastUse(d)'
    BY <1>2, <2>1, <2>2
  <2> QED
    BY <2>3, <2>4, <2>5 DEF Flight
<1>11. Clean'
  BY <1>1, <1>2, <1>3, <1>5, <1>6 DEF Clean, RecordingKept
<1>12. Asked'
  <2>1. \A u \in Threads : pc'[u] # "submitting"
    BY <1>1, <1>5 DEF Control, SubmitPoints
  <2> QED
    BY <1>2, <1>3, <1>d, <2>1 DEF Asked
<1>13. Earlier'
  <2>1. DOMAIN waitsOf = Ids /\ waitsOf \in Seq(SUBSET Ids) /\ waitValues \in SUBSET Ids
    BY <1>1 DEF Shape, TypeOK
  <2>2. /\ DOMAIN waitsOf' = Ids' /\ waitsOf'[id] = waitValues
        /\ \A i \in Ids : waitsOf'[i] = waitsOf[i]
    <3>1. /\ waitsOf' = Append(waitsOf, waitValues)
          /\ waitsOf \in Seq(SUBSET Ids) /\ waitValues \in SUBSET Ids
      BY <1>2, <2>1
    <3>2. waitsOf'[Len(waitsOf) + 1] = waitValues
            /\ \A i \in 1 .. Len(waitsOf) : waitsOf'[i] = waitsOf[i]
      BY <3>1, AppendProperties
    <3>3. DOMAIN waitsOf' = 1 .. id
      BY <1>d
    <3> QED
      BY <1>2, <1>a, <3>2, <3>3 DEF Ids
  <2>3. \A value \in waitValues : value < id
    BY <1>a, <2>1 DEF Ids
  <2> QED
    BY <1>1, <1>b, <2>1, <2>2, <2>3 DEF Earlier
<1> QED
  BY <1>7, <1>8, <1>9, <1>10, <1>11, <1>12, <1>13, <1>a DEF IInv

-----------------------------------------------------------------------------
(* The GPU's steps *)

LEMMA GpuStartStep ==
    ASSUME IInv, GpuStart
    PROVE  IInv' /\ UNCHANGED counter
<1>1. Shape /\ Control /\ OneOwner /\ Flight /\ Clean /\ Asked /\ Earlier
  BY DEF IInv
<1>2. started < Len(waitsOf) /\ started' = started + 1
  BY DEF GpuStart, Start
<1>3. UNCHANGED <<waitsOf, counter, lastSubmittedID, inFlight, pool, waitValues,
                 submissionID, made, recorded, pc, held, target, completed, entry,
                 cmdOf, asked>>
  BY DEF GpuStart, Start, hostVars
<1>7. Shape'
  BY <1>1, <1>2, <1>3 DEF Shape, TypeOK, Ids, GpuTypeOK
<1>8. Control' /\ Clean' /\ Asked' /\ Earlier' /\ OneOwner'
  BY <1>1, <1>3, AskedKept, OwnersKept DEF Control, Clean, RecordingKept,
     Earlier
<1>9. Flight'
  BY <1>1, <1>3, FlightKept
<1> QED
  BY <1>3, <1>7, <1>8, <1>9 DEF IInv

LEMMA GpuSignalStep ==
    ASSUME IInv, GpuSignal
    PROVE  IInv' /\ counter' = counter + 1 /\ counter < lastSubmittedID
<1>1. Shape /\ Control /\ OneOwner /\ Flight /\ Clean /\ Asked /\ Earlier
  BY DEF IInv
<1>2. counter < started /\ counter' = counter + 1
  BY DEF GpuSignal, Signal
<1>3. UNCHANGED <<waitsOf, started, lastSubmittedID, inFlight, pool, waitValues,
                 submissionID, made, recorded, pc, held, target, completed, entry,
                 cmdOf, asked>>
  BY DEF GpuSignal, Signal, hostVars
<1>4. /\ counter \in Nat /\ counter' \in Nat /\ counter <= counter'
      /\ counter < lastSubmittedID /\ counter' <= started
  BY <1>1, <1>2 DEF Shape, TypeOK, GpuTypeOK
<1>7. Shape'
  BY <1>1, <1>2, <1>3, <1>4 DEF Shape, TypeOK, Ids, GpuTypeOK
<1>8. Control' /\ Clean' /\ Asked' /\ Earlier' /\ OneOwner'
  BY <1>1, <1>3, AskedKept, OwnersKept DEF Control, Clean, RecordingKept,
     Earlier
<1>9. Flight'
  <2>1. \A c : Pending(c)' => Pending(c)
    BY <1>1, <1>3, <1>4, PendingKept
  <2>2. \A c \in inFlight : LastUse(c)'
    BY <1>1, <1>3 DEF Flight, LastUse, Ids
  <2> QED
    BY <1>1, <1>3, <2>1, <2>2 DEF Flight
<1> QED
  BY <1>2, <1>4, <1>7, <1>8, <1>9 DEF IInv

-----------------------------------------------------------------------------
(* Steps of the specification *)

LEMMA NextStep ==
    ASSUME IInv, [Next]_vars
    PROVE  IInv'
<1>1. ASSUME NEW t \in Threads, Call(t)
      PROVE  IInv'
  BY <1>1, AcquireStep, AcquireMissStep, ReleaseResetStep, EnterSubmitStep,
     AddWaitSemaphoreStep, WaitBeginStep DEF Call
<1>2. ASSUME NEW t \in Threads, InCall(t)
      PROVE  IInv'
  BY <1>2, CreateStep, ReleaseStep, SubmitBufferStep, RetireBeginStep,
     RetireResetStep, RetirePushStep, RetireEraseStep, RetireEndStep,
     WaitEndStep DEF InCall
<1>3. CASE GpuStart
  BY <1>3, GpuStartStep
<1>4. CASE GpuSignal
  BY <1>4, GpuSignalStep
<1>5. CASE UNCHANGED vars
  <2>1. /\ UNCHANGED <<waitsOf, counter, lastSubmittedID, inFlight, pool,
                       waitValues, submissionID, made, recorded, pc, held,
                       target, completed, entry, cmdOf, asked>>
        /\ UNCHANGED started
    BY <1>5 DEF vars, hostVars
  <2>2. Shape /\ Control /\ OneOwner /\ Flight /\ Clean /\ Asked /\ Earlier
    BY DEF IInv
  <2>3. Shape'
    BY <2>1, <2>2 DEF Shape, TypeOK, Ids, GpuTypeOK
  <2>4. Control' /\ Clean' /\ Asked' /\ Earlier' /\ OneOwner'
    BY <2>1, <2>2, AskedKept, OwnersKept DEF Control, Clean, RecordingKept,
       Earlier
  <2>5. Flight'
    BY <2>1, <2>2, FlightKept
  <2> QED
    BY <2>3, <2>4, <2>5 DEF IInv
<1> QED
  BY <1>1, <1>2, <1>3, <1>4, <1>5 DEF Next

(* The two steps that reset a buffer find it finished.                      *)
LEMMA ResetFinished ==
    ASSUME IInv, [Next]_vars, NEW c \in recorded, c \notin recorded'
    PROVE  ~Pending(c)
<1>1. Shape /\ Control /\ OneOwner /\ Flight
  BY DEF IInv
<1>2. ASSUME NEW t \in Threads, ReleaseReset(t)
      PROVE  ~Pending(c)
  <2>1. c = held[t] /\ pc[t] = "recording" /\ c \in CommandBuffers
    BY <1>1, <1>2 DEF ReleaseReset, Goto, Shape, TypeOK
  <2>2. c \notin Unretired
    BY <1>1, <2>1, QueueAssumption DEF OneOwner
  <2> QED
    BY <1>1, <2>1, <2>2, UnretiredPending
<1>3. ASSUME NEW t \in Threads, NEW d \in CommandBuffers, RetireReset(t, d)
      PROVE  ~Pending(c)
  <2>1. c = d /\ c \in inFlight /\ submissionID[c] <= completed
    BY <1>3 DEF RetireReset, Retirable
  <2> QED
    BY <1>1, <2>1, RetiredNotPending
<1>4. ASSUME NEW t \in Threads, Call(t)
      PROVE  ~Pending(c)
  BY <1>2, <1>4 DEF Call, Acquire, AcquireMiss, EnterSubmit, AddWaitSemaphore,
     WaitBegin
<1>5. ASSUME NEW t \in Threads, InCall(t)
      PROVE  ~Pending(c)
  BY <1>3, <1>5 DEF InCall, Create, Release, SubmitBuffer, RetireBegin,
     RetirePush, RetireErase, RetireEnd, WaitEnd
<1>6. CASE GpuStart \/ GpuSignal \/ UNCHANGED vars
  BY <1>6 DEF GpuStart, GpuSignal, hostVars, vars
<1> QED
  BY <1>4, <1>5, <1>6 DEF Next

(* Every step is one of Timeline's, or leaves ids and counter alone.        *)
LEMMA TimelineStep ==
    ASSUME IInv, [Next]_vars
    PROVE  [Order!TimelineNext]_(Order!timelineVars)
<1>1. ASSUME NEW t \in Threads, SubmitBuffer(t)
      PROVE  Order!Submit
  BY <1>1, SubmitBufferStep DEF SubmitBuffer, NextID, gpuVars, Order!Submit
<1>2. ASSUME GpuSignal
      PROVE  Order!Finish
  BY <1>2, GpuSignalStep DEF GpuSignal, hostVars, Order!Finish
<1>3. CASE GpuStart \/ UNCHANGED vars
  BY <1>3, GpuStartStep DEF GpuStart, hostVars, vars, Order!timelineVars
<1>4. ASSUME NEW t \in Threads, Call(t)
      PROVE  UNCHANGED Order!timelineVars
  BY <1>4 DEF Call, Acquire, AcquireMiss, ReleaseReset, EnterSubmit,
     AddWaitSemaphore, WaitBegin, submissionVars, idVars, gpuVars,
     Order!timelineVars
<1>5. ASSUME NEW t \in Threads, InCall(t), ~SubmitBuffer(t)
      PROVE  UNCHANGED Order!timelineVars
  BY <1>5 DEF InCall, Create, Release, RetireBegin, RetireReset, RetirePush,
     RetireErase, RetireEnd, WaitEnd, submissionVars, idVars, gpuVars, Order!timelineVars
<1>6. CASE \E t \in Threads : SubmitBuffer(t)
  BY <1>1, <1>6 DEF Order!TimelineNext
<1>7. CASE GpuSignal
  BY <1>2, <1>7 DEF Order!TimelineNext
<1>8. CASE UNCHANGED Order!timelineVars
  BY <1>8
<1> QED
  BY <1>3, <1>4, <1>5, <1>6, <1>7, <1>8 DEF Next

-----------------------------------------------------------------------------
(* Theorems *)

(* What the other theorems rest on.                                         *)
THEOREM Inductive == SafetySpec => []IInv
<1>1. Init => IInv
  BY InitIInv
<1>2. IInv /\ [Next]_vars => IInv'
  BY NextStep
<1> QED
  BY <1>1, <1>2, PTL DEF SafetySpec

(* Every variable keeps its type; no id goes beyond the last submitted.     *)
THEOREM TypeCorrect == SafetySpec => []TypeOK
<1>1. IInv => TypeOK
  BY DEF IInv, Shape
<1> QED
  BY <1>1, Inductive, PTL

(* queue.cpp:41, 66, 127, 152, 156: a command buffer is in the pool, in     *)
(* flight or with one thread, whatever the interleaving, and none is lost.  *)
(* The entry that retire has put into the pool and not erased yet is no     *)
(* second owner: it refers to nothing the GPU still executes, and retire    *)
(* does no more with it than take it off the list.                          *)
THEOREM BuffersHaveOneOwner == SafetySpec => []OneOwner
<1>1. IInv => OneOwner
  BY DEF IInv
<1> QED
  BY <1>1, Inductive, PTL

(* queue.cpp:151: retire resets no buffer another thread records, although  *)
(* one it has given back may be recorded before it is erased from the list. *)
THEOREM RecordingIsKept == SafetySpec => []RecordingKept
<1>1. IInv => RecordingKept
  BY DEF IInv, Clean
<1> QED
  BY <1>1, Inductive, PTL

(* queue.cpp:41: what acquire takes from the pool was reset and the GPU is  *)
(* done with it.                                                            *)
THEOREM PoolHoldsReusable == SafetySpec => []PoolReusable
<1>1. ASSUME IInv PROVE PoolReusable
  <2>1. Shape /\ OneOwner /\ Flight /\ Clean
    BY <1>1 DEF IInv
  <2>2. \A c \in pool : c \in CommandBuffers /\ c \notin Unretired
    BY <2>1 DEF Shape, TypeOK, OneOwner
  <2>3. \A c \in pool : ~Pending(c)
    BY <2>1, <2>2, UnretiredPending
  <2> QED
    BY <2>1, <2>3 DEF PoolReusable, Clean
<1> QED
  BY <1>1, Inductive, PTL

(* queue.cpp:186: a submission carries the values its own caller added.     *)
THEOREM WaitsArePassedOn == SafetySpec => []WaitsAsAsked
<1>1. ASSUME IInv PROVE WaitsAsAsked
  <2>1. waitsOf \in Seq(SUBSET Ids) /\ waitValues \in SUBSET Ids
    BY <1>1 DEF IInv, Shape, TypeOK
  <2>2. SubSeq(waitsOf, 1, Len(waitsOf)) = waitsOf
    BY <2>1, SubSeqFull
  <2>3. CASE asked = Append(waitsOf, waitValues)
    <3>1. /\ asked \in Seq(SUBSET Ids) /\ Len(asked) = Len(waitsOf) + 1
          /\ \A i \in 1 .. Len(waitsOf) : asked[i] = waitsOf[i]
      BY <2>1, <2>3, AppendProperties
    <3> QED
      BY <2>1, <3>1 DEF WaitsAsAsked
  <2> QED
    BY <1>1, <2>2, <2>3 DEF WaitsAsAsked, IInv, Asked
<1> QED
  BY <1>1, Inductive, PTL

(* queue.cpp:186: a submission can only wait for ids handed out before it,  *)
(* so the GPU is never stuck: what the waits of callers rest on.            *)
THEOREM GpuIsNeverStuck == SafetySpec => []GpuCanGoOn
<1>1. ASSUME IInv PROVE GpuCanGoOn
  <2> SUFFICES ASSUME counter < lastSubmittedID, ~(counter < started),
                      NEW value \in waitsOf[started + 1]
               PROVE  value <= counter
    BY DEF GpuCanGoOn
  <2>1. Shape /\ Earlier
    BY <1>1 DEF IInv
  <2>2. /\ counter \in Nat /\ started = counter
        /\ started + 1 \in Ids /\ DOMAIN waitsOf = Ids
    BY <2>1 DEF Shape, TypeOK, GpuTypeOK, Ids
  <2>3. value < started + 1 /\ value \in Nat
    BY <2>1, <2>2 DEF Earlier, Shape, TypeOK, Ids
  <2> QED
    BY <2>2, <2>3
<1> QED
  BY <1>1, Inductive, PTL

(* queue.cpp:136, 151: neither release nor retire resets a buffer that a     *)
(* submission not yet finished refers to.                                   *)
THEOREM ResetsAreSafe == SafetySpec => ResetOnlyFinished
<1>1. IInv /\ [Next]_vars => [\A c \in recorded \ recorded' : ~Pending(c)]_vars
  BY ResetFinished
<1> QED
  BY <1>1, Inductive, PTL DEF SafetySpec, ResetOnlyFinished

(* The safety part of ImplementsTimeline: ids are handed out one by one and *)
(* the timeline counts them in that order, never past the last.             *)
THEOREM QueueImplementsTimeline ==
    SafetySpec => Order!TimelineInit /\ [][Order!TimelineNext]_(Order!timelineVars)
<1>1. Init => Order!TimelineInit
  BY DEF Init, GpuInit, Order!TimelineInit
<1>2. IInv /\ [Next]_vars => [Order!TimelineNext]_(Order!timelineVars)
  BY TimelineStep
<1> QED
  BY <1>1, <1>2, Inductive, PTL DEF SafetySpec
==============================================================================
