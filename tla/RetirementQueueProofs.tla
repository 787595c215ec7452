----------------------- MODULE RetirementQueueProofs -----------------------
(***************************************************************************)
(* Proofs about RetirementQueue, and about ~Device on top of it, for any    *)
(* set of resources and any bound on the submissions.                       *)
(***************************************************************************)
EXTENDS DeviceShutdown, SequenceTheorems, TLAPS

Elements(s) == {s[i] : i \in 1 .. Len(s)}
Distinct(s) == \A i, j \in 1 .. Len(s) : s[i] = s[j] => i = j

(* InsertAt puts one element into a sequence and keeps the others, in order *)
LEMMA InsertAtFacts ==
    ASSUME NEW S, NEW s \in Seq(S), NEW e \in S, NEW k \in 1 .. Len(s) + 1
    PROVE  /\ InsertAt(s, k, e) \in Seq(S)
           /\ Len(InsertAt(s, k, e)) = Len(s) + 1
           /\ \A j \in 1 .. Len(s) + 1 : InsertAt(s, k, e)[j] =
                IF j < k THEN s[j] ELSE IF j = k THEN e ELSE s[j - 1]
<1> DEFINE front == SubSeq(s, 1, k - 1)
           back == SubSeq(s, k, Len(s))
<1>1. front \in Seq(S) /\ Len(front) = k - 1
        /\ \A j \in 1 .. k - 1 : front[j] = s[j]
  OBVIOUS
<1>2. back \in Seq(S) /\ Len(back) = Len(s) - k + 1
        /\ \A j \in 1 .. Len(s) - k + 1 : back[j] = s[k + j - 1]
  OBVIOUS
<1>3. <<e>> \in Seq(S) /\ Len(<<e>>) = 1 /\ <<e>>[1] = e
  OBVIOUS
<1> HIDE DEF front, back
<1> DEFINE begin == front \o <<e>>
<1>4. begin \in Seq(S) /\ Len(begin) = k
        /\ \A j \in 1 .. k : begin[j] = IF j = k THEN e ELSE s[j]
  BY <1>1, <1>3
<1> HIDE DEF begin
<1> DEFINE all == begin \o back
<1>5. all \in Seq(S) /\ Len(all) = Len(s) + 1
  <2>1. all \in Seq(S) /\ Len(all) = Len(begin) + Len(back)
    BY <1>2, <1>4, ConcatProperties
  <2>2. k + (Len(s) - k + 1) = Len(s) + 1
    OBVIOUS
  <2> QED
    BY <1>2, <1>4, <2>1, <2>2
<1>6. \A j \in 1 .. k : all[j] = begin[j]
  BY <1>2, <1>4
<1>7. \A j \in k + 1 .. Len(s) + 1 : all[j] = back[j - k]
  BY <1>2, <1>4
<1>8. \A j \in k + 1 .. Len(s) + 1 : all[j] = s[j - 1]
  <2> TAKE j \in k + 1 .. Len(s) + 1
  <2>1. j - k \in 1 .. Len(s) - k + 1 /\ k + (j - k) - 1 = j - 1
    OBVIOUS
  <2> QED
    BY <1>2, <1>7, <2>1
<1> HIDE DEF all
<1>9. \A j \in 1 .. Len(s) + 1 :
         all[j] = IF j < k THEN s[j] ELSE IF j = k THEN e ELSE s[j - 1]
  BY <1>4, <1>6, <1>8
<1> QED
  BY <1>5, <1>9 DEF InsertAt, all, begin, front, back

-----------------------------------------------------------------------------
(* The inductive invariant *)

Shape ==
    /\ TimelineTypeOK
    /\ pending \in Seq(Resources)
    /\ idOf \in [Resources -> 0 .. MaxSubmissions]
    /\ running \in BOOLEAN
    /\ retirer \in RetirerPoints
    /\ deletedEntries \in Seq(Resources)
    /\ pusher \in [Resources -> PusherPoints]
    /\ destructor \in DestructorPoints
    /\ destroyCalls \in [Resources -> {0, 1}]
    /\ \A r \in Resources : idOf[r] <= submitted

(* An object in one of the queue's sequences was pushed, is there once and  *)
(* has not been destroyed.                                                  *)
Waiting(s) ==
    /\ Distinct(s)
    /\ \A i \in 1 .. Len(s) : pusher[s[i]] # "live" /\ destroyCalls[s[i]] = 0

Entries ==
    /\ Waiting(pending)
    /\ Waiting(deletedEntries)
    /\ \A i \in 1 .. Len(pending), j \in 1 .. Len(deletedEntries) :
        pending[i] # deletedEntries[j]
    /\ \A j \in 1 .. Len(deletedEntries) : Due(deletedEntries[j])

(* Every object pushed is in one of the sequences or has been destroyed. *)
Tracked ==
    \A r \in Resources :
        IF pusher[r] = "live"
        THEN destroyCalls[r] = 0
        ELSE \/ destroyCalls[r] = 1
             \/ r \in Elements(pending) \cup Elements(deletedEntries)

Sorted ==
    \A i, j \in 1 .. Len(pending) :
        i < j => idOf[pending[i]] <= idOf[pending[j]]

Control ==
    /\ retirer # "destroying" => deletedEntries = <<>>
    /\ retirer = "toBlock" => pending = <<>>
    /\ destructor \in {"waitIdle", "draining", "done"} => retirer = "exited"
    /\ destructor \in {"draining", "done"} => finished = submitted
    /\ destructor = "done" => pending = <<>>

IInv ==
    /\ Shape
    /\ Entries
    /\ Tracked
    /\ Sorted
    /\ Control
    /\ NoLostPush

LEMMA InitIInv == Init => IInv
BY MaxSubmissionsAssumption
   DEF Init, TimelineInit, IInv, Shape, TimelineTypeOK, Entries, Waiting,
       Distinct, Tracked, Sorted, Control, NoLostPush, RetirerPoints,
       PusherPoints, DestructorPoints

(* Steps that move no entry: what is said of the entries stays true.        *)
LEMMA EntriesKept ==
    ASSUME IInv,
           UNCHANGED <<pending, idOf, deletedEntries, destroyCalls>>,
           finished' \in Nat, finished <= finished',
           pusher' \in [Resources -> PusherPoints],
           \A r \in Resources : pusher'[r] = "live" <=> pusher[r] = "live"
    PROVE  Entries' /\ Tracked' /\ Sorted'
<1>1. Shape /\ Entries /\ Tracked /\ Sorted
  BY DEF IInv
<1>2. \A i \in 1 .. Len(pending) : pending[i] \in Resources
  BY <1>1 DEF Shape
<1>3. \A i \in 1 .. Len(deletedEntries) : deletedEntries[i] \in Resources
  BY <1>1 DEF Shape
<1>4. Entries'
  <2>1. Waiting(pending)' /\ Waiting(deletedEntries)'
    BY <1>1, <1>2, <1>3 DEF Entries, Waiting, Distinct
  <2>2. \A j \in 1 .. Len(deletedEntries) : Due(deletedEntries[j])'
    BY <1>1, <1>3 DEF Entries, Due, Shape, TimelineTypeOK
  <2> QED
    BY <1>1, <2>1, <2>2 DEF Entries
<1>5. Tracked'
  BY <1>1 DEF Tracked, Elements
<1>6. Sorted'
  BY <1>1 DEF Sorted
<1> QED
  BY <1>4, <1>5, <1>6

LEMMA TimelineStep ==
    ASSUME IInv, UserSubmit \/ GpuFinish
    PROVE  IInv'
<1> USE MaxSubmissionsAssumption DEF timelineOnly, timelineVars
<1>1. finished' \in Nat /\ finished <= finished'
  BY DEF IInv, Shape, TimelineTypeOK, UserSubmit, GpuFinish, Submit, Finish
<1>2. Entries' /\ Tracked' /\ Sorted'
  BY <1>1, EntriesKept DEF UserSubmit, GpuFinish, IInv, Shape
<1>3. Shape'
  BY DEF IInv, Shape, TimelineTypeOK, UserSubmit, GpuFinish, Submit, Finish
<1>4. Control'
  BY DEF IInv, Shape, TimelineTypeOK, Control, UserSubmit, GpuFinish, Submit,
         Finish
<1>5. NoLostPush'
  BY DEF IInv, NoLostPush, UserSubmit, GpuFinish
<1> QED
  BY <1>2, <1>3, <1>4, <1>5 DEF IInv

(* The steps of the two loops that only change where a thread is. *)
ControlMove ==
    \/ LoopTest \/ EvaluatePredicate \/ Block \/ SpuriousWakeup \/ Continue
    \/ DestroyDone \/ StopRunning \/ StopNotify \/ Join \/ WaitIdle
    \/ Destructed

LEMMA ControlStep ==
    ASSUME IInv, ControlMove
    PROVE  IInv'
<1> USE DEF retirerOnly
<1>1. UNCHANGED <<submitted, finished, pending, idOf, deletedEntries,
                  destroyCalls, pusher>>
  BY DEF ControlMove, LoopTest, EvaluatePredicate, Block, SpuriousWakeup,
         Continue, DestroyDone, StopRunning, StopNotify, Join, WaitIdle,
         Destructed
<1>2. Entries' /\ Tracked' /\ Sorted'
  BY <1>1, EntriesKept DEF IInv, Shape, TimelineTypeOK
<1>3. running' \in BOOLEAN /\ retirer' \in RetirerPoints
        /\ destructor' \in DestructorPoints
  BY DEF ControlMove, LoopTest, EvaluatePredicate, Block, SpuriousWakeup,
         Continue, DestroyDone, StopRunning, StopNotify, Join, WaitIdle,
         Destructed, Notify, IInv, Shape, RetirerPoints, DestructorPoints
<1>4. Shape'
  BY <1>1, <1>3 DEF IInv, Shape, TimelineTypeOK
<1>5. Control'
  BY <1>1 DEF ControlMove, LoopTest, EvaluatePredicate, Block, SpuriousWakeup,
         Continue, DestroyDone, StopRunning, StopNotify, Join, WaitIdle,
         Destructed, Notify, IInv, Control, Shape, TimelineTypeOK
<1>6. NoLostPush'
  BY <1>1 DEF ControlMove, LoopTest, EvaluatePredicate, Block, SpuriousWakeup,
         Continue, DestroyDone, StopRunning, StopNotify, Join, WaitIdle,
         Destructed, Notify, IInv, Control, NoLostPush
<1> QED
  BY <1>2, <1>4, <1>5, <1>6 DEF IInv

LEMMA PushNotifyStep ==
    ASSUME IInv, NEW r \in Resources, PushNotify(r)
    PROVE  IInv'
<1>1. \A q \in Resources : pusher'[q] = "live" <=> pusher[q] = "live"
  BY DEF IInv, Shape, PushNotify
<1>2. pusher' \in [Resources -> PusherPoints]
  BY DEF IInv, Shape, PushNotify, PusherPoints
<1>3. Entries' /\ Tracked' /\ Sorted'
  BY <1>1, <1>2, EntriesKept DEF IInv, Shape, TimelineTypeOK, PushNotify
<1>4. Shape'
  BY <1>2 DEF IInv, Shape, TimelineTypeOK, PushNotify, Notify, RetirerPoints
<1>5. Control'
  BY DEF IInv, Control, PushNotify, Notify
<1>6. NoLostPush'
  BY DEF IInv, Control, NoLostPush, PushNotify, Notify
<1> QED
  BY <1>3, <1>4, <1>5, <1>6 DEF IInv

LEMMA PushInsertStep ==
    ASSUME IInv, NEW r \in Resources, NEW id \in 0 .. submitted,
           PushInsert(r, id)
    PROVE  IInv'
<1>1. Shape /\ Entries /\ Tracked /\ Sorted /\ Control
  BY DEF IInv
<1>2. PICK k \in 1 .. Len(pending) + 1 :
         InsertPosition(id, k) /\ pending' = InsertAt(pending, k, r)
  BY DEF PushInsert
<1>3. pending \in Seq(Resources) /\ Len(pending) \in Nat
  BY <1>1 DEF Shape
<1> DEFINE n == Len(pending)
<1>4. /\ pending' \in Seq(Resources)
      /\ Len(pending') = n + 1
      /\ \A j \in 1 .. n + 1 : pending'[j] =
            IF j < k THEN pending[j] ELSE IF j = k THEN r ELSE pending[j - 1]
  <2> DEFINE inserted == InsertAt(pending, k, r)
  <2>1. inserted \in Seq(Resources) /\ Len(inserted) = n + 1
    BY <1>3, InsertAtFacts
  <2>2. \A j \in 1 .. n + 1 : inserted[j] =
           IF j < k THEN pending[j] ELSE IF j = k THEN r ELSE pending[j - 1]
    BY <1>3, InsertAtFacts
  <2>3. pending' = inserted
    BY <1>2
  <2> HIDE DEF inserted
  <2> QED
    BY <2>1, <2>2, <2>3
<1>5. \A j \in 1 .. n : pending[j] \in Resources
  BY <1>3
<1> HIDE DEF n
(* Each position of pending' comes from pending or is the new one. *)
<1> DEFINE from(j) == IF j < k THEN j ELSE j - 1
<1>a. pending'[k] = r /\ k \in 1 .. n + 1 /\ n \in Nat
  BY <1>3, <1>4 DEF n
<1>b. \A j \in 1 .. n + 1 : j # k =>
         from(j) \in 1 .. n /\ pending'[j] = pending[from(j)]
  BY <1>4, <1>a
<1>c. \A i, j \in 1 .. n + 1 : i < j /\ i # k /\ j # k => from(i) < from(j)
  BY <1>a
<1>d. \A j \in 1 .. n + 1 : /\ j < k => from(j) \in 1 .. k - 1
                            /\ j > k => from(j) \in k .. n
  BY <1>a
<1> HIDE DEF from
<1>6. /\ pusher[r] = "live" /\ destroyCalls[r] = 0
      /\ \A j \in 1 .. n : pending[j] # r
      /\ \A j \in 1 .. Len(deletedEntries) : deletedEntries[j] # r
  <2>1. pusher[r] = "live" /\ destroyCalls[r] = 0
    BY <1>1 DEF PushInsert, Tracked
  <2>2. \A j \in 1 .. n : pending[j] # r
    BY <1>1, <2>1 DEF Entries, Waiting, n
  <2>3. \A j \in 1 .. Len(deletedEntries) : deletedEntries[j] # r
    BY <1>1, <2>1 DEF Entries, Waiting
  <2> QED
    BY <2>1, <2>2, <2>3
<1>7. /\ pusher' = [pusher EXCEPT ![r] = "inserted"]
      /\ idOf' = [idOf EXCEPT ![r] = id]
      /\ UNCHANGED <<submitted, finished, running, retirer, deletedEntries,
                     destructor, destroyCalls>>
      /\ ~HoldsMutex /\ destructor = "alive"
  BY DEF PushInsert
<1>8. Shape'
  <2>1. idOf' \in [Resources -> 0 .. MaxSubmissions]
          /\ \A q \in Resources : idOf'[q] <= submitted
    BY <1>1, <1>7, MaxSubmissionsAssumption DEF Shape, TimelineTypeOK
  <2>2. pusher' \in [Resources -> PusherPoints]
    BY <1>1, <1>7 DEF Shape, PusherPoints
  <2> QED
    BY <1>1, <1>4, <1>7, <2>1, <2>2 DEF Shape, TimelineTypeOK
<1>9. Entries'
  <2>1. Distinct(pending)'
    <3> SUFFICES ASSUME NEW i \in 1 .. n + 1, NEW j \in 1 .. n + 1, i < j
                 PROVE  pending'[i] # pending'[j]
      BY <1>4, <1>a DEF Distinct, n
    <3>1. \A g, h \in 1 .. n : pending[g] = pending[h] => g = h
      BY <1>1 DEF Entries, Waiting, Distinct, n
    <3>2. \A g \in 1 .. n : pending[g] # r
      BY <1>6 DEF n
    <3>3. CASE i # k /\ j # k
      <4>1. from(i) < from(j) /\ from(i) \in 1 .. n /\ from(j) \in 1 .. n
        BY <1>b, <1>c, <3>3
      <4>2. from(i) # from(j)
        BY <4>1
      <4> QED
        BY <1>b, <3>1, <3>3, <4>1, <4>2
    <3>4. CASE i = k
      BY <1>a, <1>b, <3>2, <3>4
    <3>5. CASE j = k
      BY <1>a, <1>b, <3>2, <3>5
    <3> QED
      BY <3>3, <3>4, <3>5
  <2>2. \A i \in 1 .. n + 1 : pending'[i] = r \/ \E j \in 1 .. n : pending'[i] = pending[j]
    BY <1>a, <1>b
  <2>3. Waiting(pending)'
    <3>1. \A i \in 1 .. n + 1 : pusher'[pending'[i]] # "live" /\ destroyCalls[pending'[i]] = 0
      <4> TAKE i \in 1 .. n + 1
      <4>1. CASE pending'[i] = r
        BY <1>1, <1>6, <1>7, <4>1 DEF Shape
      <4>2. CASE pending'[i] # r
        <5>1. PICK j \in 1 .. n : pending'[i] = pending[j]
          BY <2>2, <4>2
        <5>2. pusher[pending[j]] # "live" /\ destroyCalls[pending[j]] = 0
          BY <1>1 DEF Entries, Waiting, n
        <5>3. pusher'[pending[j]] = pusher[pending[j]]
          BY <1>1, <1>5, <1>7, <4>2, <5>1 DEF Shape
        <5> QED
          BY <5>1, <5>2, <5>3
      <4> QED
        BY <4>1, <4>2
    <3> QED
      BY <1>4, <1>7, <2>1, <3>1 DEF Waiting, n
  <2>4. \A j \in 1 .. Len(deletedEntries) :
           deletedEntries[j] \in Resources /\ deletedEntries[j] # r
    BY <1>1, <1>6 DEF Shape
  <2>5. Waiting(deletedEntries)'
    BY <1>1, <1>7, <2>4 DEF Entries, Waiting, Distinct, Shape
  <2>6. \A j \in 1 .. Len(deletedEntries) : Due(deletedEntries[j])'
    BY <1>1, <1>7, <2>4 DEF Entries, Due, Shape
  <2>7. \A i \in 1 .. n + 1, j \in 1 .. Len(deletedEntries) :
           pending'[i] # deletedEntries[j]
    <3> TAKE i \in 1 .. n + 1, j \in 1 .. Len(deletedEntries)
    <3>1. CASE pending'[i] = r
      BY <2>4, <3>1
    <3>2. CASE pending'[i] # r
      <4>1. PICK h \in 1 .. n : pending'[i] = pending[h]
        BY <2>2, <3>2
      <4> QED
        BY <1>1, <4>1 DEF Entries, n
    <3> QED
      BY <3>1, <3>2
  <2> QED
    BY <1>4, <1>7, <2>3, <2>5, <2>6, <2>7 DEF Entries, n
<1>10. Tracked'
  <2>1. \A q \in Elements(pending) : q \in Elements(pending')
    <3> SUFFICES ASSUME NEW j \in 1 .. n
                 PROVE  \E i \in 1 .. n + 1 : pending'[i] = pending[j]
      BY <1>4 DEF Elements, n
    <3>1. CASE j < k
      <4>1. j \in 1 .. n + 1 /\ j # k /\ from(j) = j
        BY <1>a, <3>1 DEF from
      <4> QED
        BY <1>b, <4>1
    <3>2. CASE ~(j < k)
      <4>1. j + 1 \in 1 .. n + 1 /\ j + 1 # k /\ from(j + 1) = j
        BY <1>a, <3>2 DEF from
      <4> QED
        BY <1>b, <4>1
    <3> QED
      BY <3>1, <3>2
  <2>2. r \in Elements(pending')
    BY <1>4, <1>a DEF Elements, n
  <2> SUFFICES ASSUME NEW q \in Resources
               PROVE  (IF pusher[q] = "live" THEN destroyCalls[q] = 0
                       ELSE \/ destroyCalls[q] = 1
                            \/ q \in Elements(pending) \cup Elements(deletedEntries))'
    BY DEF Tracked
  <2>3. CASE q = r
    BY <1>1, <1>7, <2>2, <2>3 DEF Shape
  <2>4. CASE q # r
    BY <1>1, <1>7, <2>1, <2>4 DEF Shape, Tracked, Elements
  <2> QED
    BY <2>3, <2>4
<1>11. Sorted'
  <2>1. idOf'[r] = id /\ \A j \in 1 .. n : idOf'[pending[j]] = idOf[pending[j]]
    BY <1>1, <1>5, <1>6, <1>7 DEF Shape, n
  <2>2. /\ \A j \in 1 .. k - 1 : idOf[pending[j]] <= id
        /\ \A j \in k .. n : id < idOf[pending[j]]
    BY <1>2 DEF InsertPosition, n
  <2>3. \A j \in 1 .. n : idOf[pending[j]] \in Nat
    BY <1>1, <1>5, MaxSubmissionsAssumption DEF Shape
  <2>4. \A i, j \in 1 .. n : i < j => idOf[pending[i]] <= idOf[pending[j]]
    BY <1>1 DEF Sorted, n
  <2> SUFFICES ASSUME NEW i \in 1 .. n + 1, NEW j \in 1 .. n + 1, i < j
               PROVE  idOf'[pending'[i]] <= idOf'[pending'[j]]
    BY <1>4 DEF Sorted, n
  <2>5. \A h \in 1 .. n + 1 : h # k => idOf'[pending'[h]] = idOf[pending[from(h)]]
    BY <1>b, <2>1
  <2>6. CASE i # k /\ j # k
    BY <1>b, <1>c, <2>4, <2>5, <2>6
  <2>7. CASE i = k
    <3>1. from(j) \in k .. n /\ from(j) \in 1 .. n /\ j # k
      BY <1>b, <1>d, <2>7
    <3> QED
      BY <1>a, <2>1, <2>2, <2>3, <2>5, <2>7, <3>1
  <2>8. CASE j = k
    <3>1. from(i) \in 1 .. k - 1 /\ from(i) \in 1 .. n /\ i # k
      BY <1>b, <1>d, <2>8
    <3> QED
      BY <1>a, <2>1, <2>2, <2>3, <2>5, <2>8, <3>1
  <2> QED
    BY <2>6, <2>7, <2>8
<1>12. Control'
  BY <1>1, <1>7 DEF Control, HoldsMutex, Shape, TimelineTypeOK
<1>13. NoLostPush'
  BY <1>1, <1>7 DEF NoLostPush, Shape
<1> QED
  BY <1>8, <1>9, <1>10, <1>11, <1>12, <1>13 DEF IInv

(* A sequence with no repetition, cut in two, has nothing in both parts. *)
LEMMA CutFacts ==
    ASSUME NEW S, NEW s \in Seq(S), NEW k \in 0 .. Len(s)
    PROVE  /\ SubSeq(s, 1, k) \in Seq(S) /\ SubSeq(s, k + 1, Len(s)) \in Seq(S)
           /\ Len(SubSeq(s, 1, k)) = k
           /\ Len(SubSeq(s, k + 1, Len(s))) = Len(s) - k
           /\ \A j \in 1 .. k : SubSeq(s, 1, k)[j] = s[j]
           /\ \A j \in 1 .. Len(s) - k : SubSeq(s, k + 1, Len(s))[j] = s[k + j]
OBVIOUS

(* Taking the first element away. *)
LEMMA TailFacts ==
    ASSUME NEW S, NEW s \in Seq(S), s # <<>>
    PROVE  /\ Head(s) \in S /\ Head(s) = s[1]
           /\ Len(s) \in Nat /\ Len(s) > 0
           /\ Tail(s) \in Seq(S) /\ Len(Tail(s)) = Len(s) - 1
           /\ \A j \in 1 .. Len(s) - 1 : Tail(s)[j] = s[j + 1]
OBVIOUS

LEMMA DrainStep ==
    ASSUME IInv, Drain
    PROVE  IInv'
<1>1. Shape /\ Entries /\ Tracked /\ Sorted /\ Control
  BY DEF IInv
<1>2. PICK k \in 0 .. Len(pending) :
         /\ \A j \in 1 .. k : Due(pending[j])
         /\ deletedEntries' = SubSeq(pending, 1, k)
         /\ pending' = SubSeq(pending, k + 1, Len(pending))
  BY DEF Drain, DrainLength, Popped
<1>3. /\ UNCHANGED <<submitted, finished, idOf, running, pusher, destructor,
                      destroyCalls>>
      /\ retirer = "holding" /\ retirer' = "destroying" /\ deletedEntries = <<>>
  BY <1>1 DEF Drain, Control
<1> DEFINE n == Len(pending)
<1>4. /\ pending \in Seq(Resources) /\ n \in Nat
      /\ \A j \in 1 .. n : pending[j] \in Resources
  BY <1>1 DEF Shape
<1>5. /\ deletedEntries' \in Seq(Resources) /\ pending' \in Seq(Resources)
      /\ Len(deletedEntries') = k
      /\ Len(pending') = n - k
      /\ \A j \in 1 .. k : deletedEntries'[j] = pending[j]
      /\ \A j \in 1 .. n - k : pending'[j] = pending[k + j]
  <2>1. /\ SubSeq(pending, 1, k) \in Seq(Resources)
        /\ SubSeq(pending, k + 1, n) \in Seq(Resources)
        /\ Len(SubSeq(pending, 1, k)) = k
        /\ Len(SubSeq(pending, k + 1, n)) = n - k
        /\ \A j \in 1 .. k : SubSeq(pending, 1, k)[j] = pending[j]
        /\ \A j \in 1 .. n - k :
              SubSeq(pending, k + 1, n)[j] = pending[k + j]
    BY <1>4, CutFacts
  <2> HIDE DEF n
  <2>2. deletedEntries' = SubSeq(pending, 1, k)
          /\ pending' = SubSeq(pending, k + 1, n)
    BY <1>2 DEF n
  <2> QED
    BY <2>1, <2>2, Zenon
<1>6. /\ \A i, j \in 1 .. n : pending[i] = pending[j] => i = j
      /\ \A i \in 1 .. n : pusher[pending[i]] # "live" /\ destroyCalls[pending[i]] = 0
  BY <1>1 DEF Entries, Waiting, Distinct
<1> HIDE DEF n
<1>7. \A j \in 1 .. n - k : k + j \in 1 .. n
  BY <1>4 DEF n
<1>8. \A j \in 1 .. k : j \in 1 .. n
  BY <1>4 DEF n
<1>9. Shape'
  BY <1>1, <1>3, <1>5 DEF Shape, TimelineTypeOK, RetirerPoints
<1>10. Entries'
  <2>1. Waiting(pending)'
    <3>1. \A i, j \in 1 .. n - k : pending'[i] = pending'[j] => i = j
      <4> TAKE i, j \in 1 .. n - k
      <4>1. /\ pending'[i] = pending[k + i] /\ k + i \in 1 .. n
            /\ pending'[j] = pending[k + j] /\ k + j \in 1 .. n
        BY <1>5, <1>7
      <4>2. pending'[i] = pending'[j] => k + i = k + j
        BY <1>6, <4>1
      <4> QED
        BY <4>2
    <3>2. \A i \in 1 .. n - k : pusher[pending'[i]] # "live" /\ destroyCalls[pending'[i]] = 0
      <4> TAKE i \in 1 .. n - k
      <4>1. pending'[i] = pending[k + i] /\ k + i \in 1 .. n
        BY <1>5, <1>7
      <4> QED
        BY <1>6, <4>1
    <3> QED
      BY <1>3, <1>5, <3>1, <3>2 DEF Waiting, Distinct
  <2>2. Waiting(deletedEntries)'
    <3>1. \A i, j \in 1 .. k : deletedEntries'[i] = deletedEntries'[j] => i = j
      <4> TAKE i, j \in 1 .. k
      <4>1. /\ deletedEntries'[i] = pending[i] /\ i \in 1 .. n
            /\ deletedEntries'[j] = pending[j] /\ j \in 1 .. n
        BY <1>5, <1>8
      <4> QED
        BY <1>6, <4>1
    <3>2. \A i \in 1 .. k : /\ pusher[deletedEntries'[i]] # "live"
                            /\ destroyCalls[deletedEntries'[i]] = 0
      <4> TAKE i \in 1 .. k
      <4>1. deletedEntries'[i] = pending[i] /\ i \in 1 .. n
        BY <1>5, <1>8
      <4> QED
        BY <1>6, <4>1
    <3> QED
      BY <1>3, <1>5, <3>1, <3>2 DEF Waiting, Distinct
  <2>3. \A i \in 1 .. n - k, j \in 1 .. k : pending'[i] # deletedEntries'[j]
    <3> TAKE i \in 1 .. n - k, j \in 1 .. k
    <3>1. k + i # j /\ k + i \in 1 .. n /\ j \in 1 .. n
      BY <1>7, <1>8
    <3> QED
      BY <1>5, <1>6, <3>1
  <2>4. \A j \in 1 .. k : Due(deletedEntries[j])'
    BY <1>2, <1>3, <1>5 DEF Due
  <2> QED
    BY <1>5, <2>1, <2>2, <2>3, <2>4 DEF Entries
<1>11. Tracked'
  <2>1. \A q \in Elements(pending) : q \in Elements(pending') \cup Elements(deletedEntries')
    <3> SUFFICES ASSUME NEW j \in 1 .. n
                 PROVE  pending[j] \in Elements(pending') \cup Elements(deletedEntries')
      BY DEF Elements, n
    <3>1. CASE j <= k
      BY <1>5, <3>1 DEF Elements
    <3>2. CASE ~(j <= k)
      <4>1. j - k \in 1 .. n - k /\ k + (j - k) = j
        BY <1>4, <3>2
      <4> QED
        BY <1>5, <4>1 DEF Elements
    <3> QED
      BY <3>1, <3>2
  <2>2. Elements(deletedEntries) = {}
    BY <1>3 DEF Elements
  <2> QED
    BY <1>1, <1>3, <2>1, <2>2 DEF Tracked
<1>12. Sorted'
  <2>1. \A i, j \in 1 .. n : i < j => idOf[pending[i]] <= idOf[pending[j]]
    BY <1>1 DEF Sorted, n
  <2>2. \A i, j \in 1 .. n - k : i < j => k + i < k + j
    BY <1>4
  <2>3. \A i, j \in 1 .. n - k : i < j => idOf[pending'[i]] <= idOf[pending'[j]]
    BY <1>5, <1>7, <2>1, <2>2
  <2> QED
    BY <1>3, <1>5, <2>3 DEF Sorted
<1>13. Control'
  BY <1>1, <1>3 DEF Control
<1>14. NoLostPush'
  BY <1>3 DEF NoLostPush
<1> QED
  BY <1>9, <1>10, <1>11, <1>12, <1>13, <1>14 DEF IInv

(* The callback of the first of the entries drained runs. *)
LEMMA DestroyEntryStep ==
    ASSUME IInv, DestroyEntry
    PROVE  IInv'
<1>1. Shape /\ Entries /\ Tracked /\ Sorted /\ Control /\ NoLostPush
  BY DEF IInv
<1> DEFINE n == Len(deletedEntries)
           r == Head(deletedEntries)
<1>2. /\ r \in Resources /\ r = deletedEntries[1]
      /\ n \in Nat /\ n > 0
      /\ deletedEntries' \in Seq(Resources) /\ Len(deletedEntries') = n - 1
      /\ \A j \in 1 .. n - 1 : deletedEntries'[j] = deletedEntries[j + 1]
  BY <1>1, TailFacts DEF Shape, DestroyEntry
<1>3. /\ UNCHANGED <<submitted, finished, pending, idOf, running, retirer,
                      pusher, destructor>>
      /\ destroyCalls' = [destroyCalls EXCEPT ![r] = @ + 1]
  BY DEF DestroyEntry, Callback
<1>4. /\ \A i, j \in 1 .. n : deletedEntries[i] = deletedEntries[j] => i = j
      /\ \A i \in 1 .. n : /\ deletedEntries[i] \in Resources
                           /\ pusher[deletedEntries[i]] # "live"
                           /\ destroyCalls[deletedEntries[i]] = 0
                           /\ Due(deletedEntries[i])
  BY <1>1 DEF Entries, Waiting, Distinct, Shape
<1>5. /\ \A i \in 1 .. Len(pending) : pending[i] # r /\ pending[i] \in Resources
      /\ \A i, j \in 1 .. Len(pending) : pending[i] = pending[j] => i = j
      /\ \A i \in 1 .. Len(pending) : /\ pusher[pending[i]] # "live"
                                      /\ destroyCalls[pending[i]] = 0
  BY <1>1, <1>2 DEF Entries, Waiting, Distinct, Shape
<1> HIDE DEF n, r
<1>6. /\ destroyCalls[r] = 0 /\ destroyCalls'[r] = 1
      /\ destroyCalls' \in [Resources -> {0, 1}]
      /\ \A q \in Resources : q # r => destroyCalls'[q] = destroyCalls[q]
  BY <1>1, <1>2, <1>3, <1>4 DEF Shape
<1>7. \A j \in 1 .. n - 1 : /\ j + 1 \in 1 .. n
                            /\ deletedEntries'[j] = deletedEntries[j + 1]
                            /\ deletedEntries'[j] # r
  BY <1>2, <1>4
<1>8. Shape'
  BY <1>1, <1>2, <1>3, <1>6 DEF Shape, TimelineTypeOK
<1>9. Entries'
  <2>1. \A i, j \in 1 .. n - 1 : deletedEntries'[i] = deletedEntries'[j] => i = j
    BY <1>2, <1>4, <1>7
  <2>2. \A i \in 1 .. n - 1 : /\ pusher[deletedEntries'[i]] # "live"
                             /\ destroyCalls'[deletedEntries'[i]] = 0
                             /\ Due(deletedEntries'[i])
    <3> TAKE i \in 1 .. n - 1
    <3>1. deletedEntries'[i] = deletedEntries[i + 1] /\ i + 1 \in 1 .. n
            /\ deletedEntries'[i] # r
      BY <1>7
    <3> QED
      BY <1>4, <1>6, <3>1
  <2>3. Waiting(deletedEntries)'
    BY <1>2, <1>3, <2>1, <2>2 DEF Waiting, Distinct
  <2>4. Waiting(pending)'
    BY <1>3, <1>5, <1>6 DEF Waiting, Distinct
  <2>5. \A i \in 1 .. Len(pending), j \in 1 .. n - 1 : pending[i] # deletedEntries'[j]
    BY <1>1, <1>7 DEF Entries, n
  <2>6. \A j \in 1 .. n - 1 : Due(deletedEntries[j])'
    BY <1>3, <2>2 DEF Due
  <2> QED
    BY <1>2, <1>3, <2>3, <2>4, <2>5, <2>6 DEF Entries
<1>10. Tracked'
  <2>1. \A q \in Elements(deletedEntries) : q = r \/ q \in Elements(deletedEntries')
    <3> SUFFICES ASSUME NEW j \in 1 .. n, deletedEntries[j] # r
                 PROVE  \E i \in 1 .. n - 1 : deletedEntries'[i] = deletedEntries[j]
      BY <1>2 DEF Elements, n
    <3>1. j - 1 \in 1 .. n - 1 /\ (j - 1) + 1 = j
      BY <1>2
    <3> QED
      BY <1>7, <3>1
  <2>2. pusher[r] # "live"
    BY <1>2, <1>4
  <2> QED
    BY <1>1, <1>3, <1>6, <2>1, <2>2 DEF Tracked
<1>11. Sorted'
  BY <1>1, <1>3 DEF Sorted
<1>12. Control' /\ NoLostPush'
  BY <1>1, <1>3 DEF Control, NoLostPush, DestroyEntry
<1> QED
  BY <1>8, <1>9, <1>10, <1>11, <1>12 DEF IInv

(* The destructor runs the callback of the first entry that is left. *)
LEMMA DestroyPendingStep ==
    ASSUME IInv, DestroyPending
    PROVE  IInv'
<1>1. Shape /\ Entries /\ Tracked /\ Sorted /\ Control /\ NoLostPush
  BY DEF IInv
<1> DEFINE n == Len(pending)
           r == Head(pending)
<1>2. /\ r \in Resources /\ r = pending[1]
      /\ n \in Nat /\ n > 0
      /\ pending' \in Seq(Resources) /\ Len(pending') = n - 1
      /\ \A j \in 1 .. n - 1 : pending'[j] = pending[j + 1]
  BY <1>1, TailFacts DEF Shape, DestroyPending
<1>3. /\ UNCHANGED <<submitted, finished, idOf, running, retirer,
                      deletedEntries, pusher, destructor>>
      /\ destroyCalls' = [destroyCalls EXCEPT ![r] = @ + 1]
      /\ destructor = "draining" /\ retirer = "exited" /\ deletedEntries = <<>>
  BY <1>1 DEF DestroyPending, Callback, Control
<1>4. /\ \A i, j \in 1 .. n : pending[i] = pending[j] => i = j
      /\ \A i \in 1 .. n : /\ pending[i] \in Resources
                           /\ pusher[pending[i]] # "live"
                           /\ destroyCalls[pending[i]] = 0
  BY <1>1 DEF Entries, Waiting, Distinct, Shape
<1>5. \A i, j \in 1 .. n : i < j => idOf[pending[i]] <= idOf[pending[j]]
  BY <1>1 DEF Sorted
<1> HIDE DEF n, r
<1>6. /\ destroyCalls[r] = 0 /\ destroyCalls'[r] = 1
      /\ destroyCalls' \in [Resources -> {0, 1}]
      /\ \A q \in Resources : q # r => destroyCalls'[q] = destroyCalls[q]
  BY <1>1, <1>2, <1>3, <1>4 DEF Shape
<1>7. \A j \in 1 .. n - 1 : /\ j + 1 \in 1 .. n
                            /\ pending'[j] = pending[j + 1]
                            /\ pending'[j] # r
  BY <1>2, <1>4
<1>8. Shape'
  BY <1>1, <1>2, <1>3, <1>6 DEF Shape, TimelineTypeOK
<1>9. Entries'
  <2>1. \A i, j \in 1 .. n - 1 : pending'[i] = pending'[j] => i = j
    BY <1>2, <1>4, <1>7
  <2>2. \A i \in 1 .. n - 1 : /\ pusher[pending'[i]] # "live"
                             /\ destroyCalls'[pending'[i]] = 0
    <3> TAKE i \in 1 .. n - 1
    <3>1. pending'[i] = pending[i + 1] /\ i + 1 \in 1 .. n /\ pending'[i] # r
      BY <1>7
    <3> QED
      BY <1>4, <1>6, <3>1
  <2>3. Waiting(pending)'
    BY <1>2, <1>3, <2>1, <2>2 DEF Waiting, Distinct
  <2> QED
    BY <1>3, <2>3 DEF Entries, Waiting, Distinct
<1>10. Tracked'
  <2>1. \A q \in Elements(pending) : q = r \/ q \in Elements(pending')
    <3> SUFFICES ASSUME NEW j \in 1 .. n, pending[j] # r
                 PROVE  \E i \in 1 .. n - 1 : pending'[i] = pending[j]
      BY <1>2 DEF Elements, n
    <3>1. j - 1 \in 1 .. n - 1 /\ (j - 1) + 1 = j
      BY <1>2
    <3> QED
      BY <1>7, <3>1
  <2>2. pusher[r] # "live"
    BY <1>2, <1>4
  <2> QED
    BY <1>1, <1>3, <1>6, <2>1, <2>2 DEF Tracked
<1>11. Sorted'
  <2> SUFFICES ASSUME NEW i \in 1 .. n - 1, NEW j \in 1 .. n - 1, i < j
               PROVE  idOf[pending'[i]] <= idOf[pending'[j]]
    BY <1>2, <1>3 DEF Sorted
  <2>1. i + 1 < j + 1 /\ i + 1 \in 1 .. n /\ j + 1 \in 1 .. n
    BY <1>2
  <2> QED
    BY <1>5, <1>7, <2>1
<1>12. Control' /\ NoLostPush'
  BY <1>1, <1>3 DEF Control, NoLostPush
<1> QED
  BY <1>8, <1>9, <1>10, <1>11, <1>12 DEF IInv

LEMMA NextIInv == IInv /\ [Next]_vars => IInv'
<1> SUFFICES ASSUME IInv, [Next]_vars
             PROVE  IInv'
  OBVIOUS
<1>1. CASE UserSubmit \/ GpuFinish
  BY <1>1, TimelineStep
<1>2. CASE \E r \in Resources : \E id \in 0 .. submitted : PushInsert(r, id)
  BY <1>2, PushInsertStep
<1>3. CASE \E r \in Resources : PushNotify(r)
  BY <1>3, PushNotifyStep
<1>4. CASE Drain
  BY <1>4, DrainStep
<1>5. CASE DestroyEntry
  BY <1>5, DestroyEntryStep
<1>6. CASE DestroyPending
  BY <1>6, DestroyPendingStep
<1>7. CASE ControlMove
  BY <1>7, ControlStep
<1>8. CASE UNCHANGED vars
  <2>1. Shape' /\ Control' /\ NoLostPush' /\ Tracked' /\ Sorted'
    BY <1>8 DEF vars, IInv, Shape, TimelineTypeOK, Control, NoLostPush, Tracked,
                Elements, Sorted
  <2>2. Entries'
    BY <1>8 DEF vars, IInv, Entries, Waiting, Distinct, Due
  <2> QED
    BY <2>1, <2>2 DEF IInv
<1> QED
  BY <1>1, <1>2, <1>3, <1>4, <1>5, <1>6, <1>7, <1>8
     DEF Next, Retire, Destruct, ControlMove

(* The invariant holds in every reachable state. *)
THEOREM Invariance == SafetySpec => []IInv
BY InitIInv, NextIInv, PTL DEF SafetySpec

-----------------------------------------------------------------------------
(* The theorems *)

(* Every variable keeps its type; in particular no destroy callback runs    *)
(* twice.                                                                   *)
THEOREM TypeCorrect == SafetySpec => []TypeOK
<1>1. IInv => TypeOK
  BY DEF IInv, Shape, TypeOK
<1> QED
  BY <1>1, Invariance, PTL

(* No push is lost on the retirement thread: it never sleeps on an entry    *)
(* without a notification to come, for any number of pushing threads.       *)
THEOREM PushIsNoticed == SafetySpec => []NoLostPush
<1>1. IInv => NoLostPush
  BY DEF IInv
<1> QED
  BY <1>1, Invariance, PTL

(* When ~RetirementQueue returns, what was pushed was destroyed, once, and  *)
(* nothing else was.                                                        *)
THEOREM DestructorLeaksNothing == SafetySpec => []NothingLeaked
<1>1. IInv => NothingLeaked
  <2> SUFFICES ASSUME IInv, destructor = "done", NEW r \in Resources
               PROVE  destroyCalls[r] = IF pusher[r] = "live" THEN 0 ELSE 1
    BY DEF NothingLeaked
  <2>1. pending = <<>> /\ deletedEntries = <<>>
    BY DEF IInv, Control
  <2>2. Elements(pending) = {} /\ Elements(deletedEntries) = {}
    BY <2>1 DEF Elements
  <2> QED
    BY <2>2 DEF IInv, Tracked
<1> QED
  BY <1>1, Invariance, PTL

(* The retirement loop, which stops at the first entry that is not due,     *)
(* leaves no due entry behind, however pushes interleave.                   *)
THEOREM LoopDrainsAllDue == SafetySpec => DrainIsComplete
<1> DEFINE Complete == Drain => \A i \in 1 .. Len(pending') : ~Due(pending'[i])
<1>1. IInv /\ [Next]_vars => [Complete]_vars
  <2> SUFFICES ASSUME IInv, Drain, NEW i \in 1 .. Len(pending')
               PROVE  ~Due(pending'[i])
    OBVIOUS
  <2>1. PICK k \in 0 .. Len(pending) :
           /\ k < Len(pending) => ~Due(pending[k + 1])
           /\ pending' = SubSeq(pending, k + 1, Len(pending))
    BY DEF Drain, DrainLength, Popped
  <2> DEFINE n == Len(pending)
  <2>2. /\ pending \in Seq(Resources) /\ n \in Nat
        /\ \A j \in 1 .. n : pending[j] \in Resources
    BY DEF IInv, Shape
  <2>3. Len(pending') = n - k /\ pending'[i] = pending[k + i]
    BY <2>1, <2>2, CutFacts
  <2>4. k + i \in 1 .. n /\ k + 1 \in 1 .. n /\ k < n /\ (k + 1 < k + i \/ k + 1 = k + i)
    BY <2>2, <2>3
  <2>5. idOf[pending[k + 1]] <= idOf[pending[k + i]]
    <3>1. \A g, h \in 1 .. n : g < h => idOf[pending[g]] <= idOf[pending[h]]
      BY DEF IInv, Sorted
    <3>2. \A g \in 1 .. n : idOf[pending[g]] \in Nat
      BY <2>2, MaxSubmissionsAssumption DEF IInv, Shape
    <3> HIDE DEF n
    <3> QED
      BY <2>4, <3>1, <3>2
  <2>6. finished \in Nat /\ idOf[pending[k + 1]] \in Nat /\ idOf[pending[k + i]] \in Nat
    <3>1. finished \in Nat
      BY MaxSubmissionsAssumption DEF IInv, Shape, TimelineTypeOK
    <3>2. \A g \in 1 .. n : idOf[pending[g]] \in Nat
      BY <2>2, MaxSubmissionsAssumption DEF IInv, Shape
    <3> HIDE DEF n
    <3> QED
      BY <2>4, <3>1, <3>2
  <2> HIDE DEF n
  <2>7. ~(idOf[pending[k + 1]] <= finished)
    BY <2>1, <2>4 DEF Due, n
  <2> QED
    BY <2>3, <2>5, <2>6, <2>7 DEF Due
<1> QED
  BY <1>1, Invariance, PTL DEF SafetySpec, DrainIsComplete

(* The queue implements the promise of DeferredDestruction: every step      *)
(* gives up an object, destroys one that may be destroyed and was not yet,  *)
(* moves the timeline, or changes nothing the promise speaks of.            *)
THEOREM KeepsThePromise == SafetySpec => Promise!SafetySpec
<1> DEFINE doomed == {r \in Resources : pusher[r] # "live"}
<1>1. Init => Promise!Init
  BY DEF Init, Promise!Init, TimelineInit, Promise!TimelineInit
<1>2. IInv /\ [Next]_vars => [Promise!Next]_(Promise!vars)
  <2> SUFFICES ASSUME IInv, [Next]_vars
               PROVE  Promise!Next \/ UNCHANGED Promise!vars
    OBVIOUS
  <2> USE DEF Promise!vars
  <2>1. CASE UserSubmit \/ GpuFinish
    BY <2>1 DEF UserSubmit, GpuFinish, Submit, Finish, timelineOnly,
         Promise!Next, Promise!Work, Promise!TimelineNext, Promise!Submit,
         Promise!Finish
  <2>2. ASSUME NEW r \in Resources, NEW id \in 0 .. submitted, PushInsert(r, id)
        PROVE  Promise!Doom(r, id)
    <3>1. pusher' = [pusher EXCEPT ![r] = "inserted"] /\ pusher[r] = "live"
      BY <2>2 DEF PushInsert
    <3>2. doomed' = doomed \cup {r} /\ r \notin doomed
      BY <3>1 DEF IInv, Shape
    <3> QED
      BY <2>2, <3>2 DEF PushInsert, Promise!Doom
  <2>3. ASSUME NEW r \in Resources, PushNotify(r)
        PROVE  UNCHANGED Promise!vars
    <3>1. doomed' = doomed
      BY <2>3 DEF PushNotify, IInv, Shape
    <3> QED
      BY <2>3, <3>1 DEF PushNotify
  <2>4. CASE Drain
    BY <2>4 DEF Drain
  <2>5. CASE DestroyEntry
    <3>1. /\ deletedEntries \in Seq(Resources) /\ deletedEntries # <<>>
          /\ destroyCalls \in [Resources -> {0, 1}]
          /\ Entries
      BY <2>5 DEF IInv, Shape, DestroyEntry
    <3> DEFINE r == Head(deletedEntries)
    <3>2. r \in Resources /\ r = deletedEntries[1] /\ 1 \in 1 .. Len(deletedEntries)
      BY <3>1, TailFacts
    <3>3. destroyCalls[r] = 0 /\ pusher[r] # "live" /\ Due(r)
      BY <3>1, <3>2 DEF Entries, Waiting
    <3> HIDE DEF r
    <3>4. destroyCalls' = [destroyCalls EXCEPT ![r] = 1]
      BY <2>5, <3>1, <3>2, <3>3 DEF DestroyEntry, Callback, r
    <3>5. Promise!Destroy(r)
      BY <2>5, <3>2, <3>3, <3>4 DEF DestroyEntry, Due, Promise!Destroy
    <3> QED
      BY <3>2, <3>5 DEF Promise!Next
  <2>6. CASE DestroyPending
    <3>1. /\ pending \in Seq(Resources) /\ pending # <<>>
          /\ destroyCalls \in [Resources -> {0, 1}]
          /\ Entries /\ finished = submitted
      BY <2>6 DEF IInv, Shape, Control, DestroyPending
    <3> DEFINE r == Head(pending)
    <3>2. r \in Resources /\ r = pending[1] /\ 1 \in 1 .. Len(pending)
      BY <3>1, TailFacts
    <3>3. destroyCalls[r] = 0 /\ pusher[r] # "live"
      BY <3>1, <3>2 DEF Entries, Waiting
    <3> HIDE DEF r
    <3>4. idOf[r] <= finished
      BY <3>1, <3>2 DEF IInv, Shape
    <3>5. destroyCalls' = [destroyCalls EXCEPT ![r] = 1]
      BY <2>6, <3>1, <3>2, <3>3 DEF DestroyPending, Callback, r
    <3>6. Promise!Destroy(r)
      BY <2>6, <3>2, <3>3, <3>4, <3>5 DEF DestroyPending, Promise!Destroy
    <3> QED
      BY <3>2, <3>6 DEF Promise!Next
  <2>7. CASE ControlMove
    BY <2>7 DEF ControlMove, LoopTest, EvaluatePredicate, Block,
         SpuriousWakeup, Continue, DestroyDone, StopRunning, StopNotify, Join,
         WaitIdle, Destructed, retirerOnly
  <2>8. CASE UNCHANGED vars
    BY <2>8 DEF vars
  <2> QED
    BY <2>1, <2>2, <2>3, <2>4, <2>5, <2>6, <2>7, <2>8
       DEF Next, Retire, Destruct, ControlMove, Promise!Next
<1> QED
  BY <1>1, <1>2, Invariance, PTL DEF SafetySpec, Promise!SafetySpec

-----------------------------------------------------------------------------
(* ~Device *)

(* The other parts are destroyed after the retirement queue.                *)
ResetInv ==
    /\ resets \in 0 .. 4
    /\ resets # 0 => destructor = "done"

(* What ~Device does to the retirement queue are steps of RetirementQueue.  *)
LEMMA DeviceRefinesQueue == DeviceSpec => []IInv
<1>1. DeviceInit => Init
  BY DEF DeviceInit
<1>2. [DeviceNext]_deviceVars => [Next]_vars
  BY DEF DeviceNext, deviceVars, Use, Background, ResetRetirementQueue, ResetOthers,
         ResetPart, Next, Destruct
<1>3. DeviceSpec => SafetySpec
  BY <1>1, <1>2, PTL DEF DeviceSpec, SafetySpec
<1> QED
  BY <1>3, Invariance, PTL

LEMMA ResetStep == ResetInv /\ [DeviceNext]_deviceVars => ResetInv'
<1> SUFFICES ASSUME ResetInv, [DeviceNext]_deviceVars
             PROVE  ResetInv'
  OBVIOUS
<1>1. CASE Use \/ Background
  <2>1. UNCHANGED resets
    BY <1>1 DEF Use, Background
  <2>2. CASE resets = 0
    BY <2>1, <2>2 DEF ResetInv
  <2>3. CASE resets # 0
    <3>1. GpuFinish \/ Retire \/ SpuriousWakeup
      BY <1>1, <2>3 DEF Use, Background
    <3>2. UNCHANGED destructor
      BY <3>1
         DEF GpuFinish, timelineOnly, Retire, LoopTest, EvaluatePredicate, Block,
             Continue, Drain, DestroyEntry, DestroyDone, SpuriousWakeup, retirerOnly
    <3> QED
      BY <2>1, <3>2 DEF ResetInv
  <2> QED
    BY <2>2, <2>3
<1>2. CASE ResetRetirementQueue
  <2>1. resets = 0
    BY <1>2 DEF ResetRetirementQueue, Turn, ResetOrder, ResetInv
  <2> QED
    BY <1>2, <2>1 DEF ResetRetirementQueue, Destructed, ResetInv
<1>3. CASE ResetOthers
  <2>1. resets \in 1 .. 3 /\ resets' = resets + 1 /\ UNCHANGED destructor
    BY <1>3 DEF ResetOthers, ResetPart, Turn, ResetOrder, ResetInv, vars
  <2> QED
    BY <2>1 DEF ResetInv
<1>4. CASE UNCHANGED deviceVars
  BY <1>4 DEF deviceVars, vars, ResetInv
<1> QED
  BY <1>1, <1>2, <1>3, <1>4 DEF DeviceNext

(* device.cpp:111-116: the order of the resets is right: when the heap, the *)
(* queue and the allocator go, the GPU is idle, the retirement thread has   *)
(* exited and every callback that reaches into them has run.                *)
THEOREM PartsAreDestroyedInOrder == DeviceSpec => []PartsOutliveUsers
<1>1. DeviceInit => ResetInv
  BY DEF DeviceInit, ResetInv
<1>2. IInv /\ ResetInv => PartsOutliveUsers
  <2> SUFFICES ASSUME IInv, ResetInv
               PROVE  PartsOutliveUsers
    OBVIOUS
  <2>1. CASE resets = 0
    BY <2>1 DEF PartsOutliveUsers, Gone
  <2>2. CASE resets # 0
    <3>1. retirer = "exited" /\ finished = submitted /\ pending = <<>>
          /\ deletedEntries = <<>>
      BY <2>2 DEF ResetInv, IInv, Control
    <3>2. ~GpuBusy
      BY <3>1 DEF GpuBusy, IInv, Shape, TimelineTypeOK
    <3>3. \A r \in Resources : ~Awaited(r)
      <4>1. Elements(pending) = {} /\ Elements(deletedEntries) = {}
        BY <3>1 DEF Elements
      <4> QED
        BY <4>1 DEF Awaited, IInv, Tracked
    <3>4. Gone("allocator") => Gone("heap")
      BY DEF Gone, ResetOrder, ResetInv
    <3> QED
      BY <3>1, <3>2, <3>3, <3>4, ChunksAssumption DEF PartsOutliveUsers
  <2> QED
    BY <2>1, <2>2
<1> QED
  BY <1>1, <1>2, ResetStep, DeviceRefinesQueue, PTL DEF DeviceSpec
=============================================================================
