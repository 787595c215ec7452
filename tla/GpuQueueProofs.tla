---------------------------- MODULE GpuQueueProofs ----------------------------
(***************************************************************************)
(* What the modules that submit to the GPU need of GpuQueue.                *)
(***************************************************************************)
EXTENDS GpuQueue, DataFacts

(* One more submission.                                                     *)
LEMMA EnqueueFacts ==
    ASSUME GpuTypeOK, NEW values \in SUBSET Nat, Enqueue(values),
           UNCHANGED <<started, counter>>
    PROVE  /\ Len(waitsOf) \in Nat /\ Len(waitsOf') = Len(waitsOf) + 1
           /\ waitsOf'[Len(waitsOf) + 1] = values
           /\ \A id \in Submissions : waitsOf'[id] = waitsOf[id]
           /\ Submissions = 1 .. Len(waitsOf)
           /\ Submissions' = 1 .. Len(waitsOf) + 1
           /\ Unfinished' = Unfinished \cup {Len(waitsOf) + 1}
           /\ GpuTypeOK'
<1> DEFINE n == Len(waitsOf)
<1>1. /\ waitsOf \in Seq(SUBSET Nat) /\ waitsOf' = Append(waitsOf, values)
      /\ started \in 0 .. n /\ counter \in 0 .. started
  BY DEF GpuTypeOK, Enqueue
<1>2. n \in Nat
  BY <1>1
<1>3. /\ waitsOf' \in Seq(SUBSET Nat) /\ Len(waitsOf') = n + 1
      /\ waitsOf'[n + 1] = values
      /\ \A id \in 1 .. n : waitsOf'[id] = waitsOf[id]
  BY <1>1, AppendProperties
<1>4. Submissions = 1 .. n /\ Submissions' = 1 .. n + 1
  BY <1>1, <1>3 DEF Submissions
<1>5. GpuTypeOK'
  BY <1>1, <1>2, <1>3 DEF GpuTypeOK
<1>6. Unfinished' = Unfinished \cup {n + 1}
  BY <1>1, <1>2, <1>4 DEF Unfinished
<1> HIDE DEF n
<1> QED
  BY <1>2, <1>3, <1>4, <1>5, <1>6 DEF n

LEMMA StartFacts ==
    ASSUME GpuTypeOK, Start
    PROVE  /\ started \in Nat /\ started' = started + 1 /\ started' \in Submissions
           /\ counter < started'
           /\ \A value \in waitsOf[started'] : value <= counter
           /\ Unfinished' = Unfinished /\ Submissions' = Submissions
           /\ GpuTypeOK'
BY DEF GpuTypeOK, Start, Unfinished, Submissions

LEMMA SignalFacts ==
    ASSUME GpuTypeOK, Signal
    PROVE  /\ counter \in Nat /\ counter' = counter + 1 /\ counter' \in Submissions
           /\ counter' <= started
           /\ Unfinished' = Unfinished \ {counter'} /\ Submissions' = Submissions
           /\ GpuTypeOK'
BY DEF GpuTypeOK, Signal, Unfinished, Submissions

(* The ids, as numbers.                                                     *)
LEMMA IdFacts ==
    ASSUME GpuTypeOK
    PROVE  /\ Submissions = 1 .. Len(waitsOf) /\ Len(waitsOf) \in Nat
           /\ started \in 0 .. Len(waitsOf) /\ counter \in 0 .. started
           /\ Unfinished = counter + 1 .. Len(waitsOf)
           /\ \A id \in Submissions : waitsOf[id] \subseteq Nat
BY DEF GpuTypeOK, Unfinished, Submissions
=============================================================================
