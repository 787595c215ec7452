---------------------------- MODULE HandlesProofs ----------------------------
(***************************************************************************)
(* Proofs about Handles, for any variables, lists and bounds.               *)
(*                                                                          *)
(* That every object has one owner holds whatever the program does with its *)
(* variables; the rest needs what Device and CommandList leave to their     *)
(* caller: a variable a list points to is not changed (~MovedWhileBound).   *)
(***************************************************************************)
EXTENDS Handles, GpuQueueProofs

-----------------------------------------------------------------------------
(* The inductive invariant *)

Shape ==
    /\ TypeOK
    /\ usesOf \in Seq(Use) /\ Len(usesOf) = Len(waitsOf)

(* OneOwner without counting.                                               *)
Owned(obj, mem, ret) ==
    /\ \A v, w \in Vars : obj[v] = obj[w] /\ obj[v] # None => v = w
    /\ \A e, f \in ret : e.object = f.object => e = f
    /\ \A v \in Vars, e \in ret : obj[v] # e.object
    /\ \A v \in Vars : obj[v] \in mem \cup {None}
    /\ \A e \in ret : e.object \in mem
    /\ \A o \in mem : (\E v \in Vars : obj[v] = o) \/ (\E e \in ret : e.object = o)

Owners == Owned(object, memory, retiring)

(* What a list uses is still where the variables it points to have it.      *)
Held(vars_) == {object[v] : v \in vars_}

Pointers ==
    \A l \in Lists :
        IF bound[l] = None
        THEN recorded[l] = NoUse
        ELSE /\ recorded[l].buffers \subseteq Held(bound[l] \cap BufferVars)
             /\ recorded[l].pipelines \subseteq Held(bound[l] \cap PipelineVars)

(* A copy under way is the last submission, of the buffer its variable has. *)
Copies ==
    \/ copying = NoCopy
    \/ /\ copying.var \in BufferVars
       /\ copying.id = Len(waitsOf) /\ copying.id # 0
       /\ UsedBy(usesOf[copying.id]) = {object[copying.var]}

Live == \A id \in Unfinished : UsedBy(usesOf[id]) \subseteq memory

(* A submission waits for an earlier one that uses the same buffer, or for  *)
(* a later one than that, and starts once its waits are over.               *)
Ordered ==
    /\ \A id \in 1 .. started : \A value \in waitsOf[id] : value <= counter
    /\ \A id \in Submissions, i \in Unfinished :
        i < id /\ usesOf[i].buffers \cap usesOf[id].buffers # {} =>
            \E value \in waitsOf[id] : i <= value

Ownership == Shape /\ Owners

IInv ==
    /\ Ownership
    /\ Pointers
    /\ Copies
    /\ Live
    /\ StampsCover
    /\ Ordered

LEMMA InitIInv == Init => IInv
<1> SUFFICES ASSUME Init PROVE IInv
  OBVIOUS
<1>1. Submissions = {} /\ Unfinished = {} /\ Len(waitsOf) = 0
  BY DEF Init, GpuInit, Submissions, Unfinished
<1>2. Shape
  BY <1>1, HandlesAssumption
     DEF Init, GpuInit, Shape, TypeOK, GpuTypeOK, Use, NoUse, NoCopy
<1>3. Owners
  BY DEF Init, Owners, Owned
<1>4. Pointers /\ Copies
  BY DEF Init, Pointers, Copies
<1>5. Live /\ StampsCover /\ Ordered
  BY <1>1 DEF Init, GpuInit, Live, StampsCover, Ordered
<1> QED
  BY <1>2, <1>3, <1>4, <1>5 DEF IInv, Ownership

-----------------------------------------------------------------------------
(* Facts about the operators of the module *)

(* What destroy does: nothing, or the object is gone, or an entry has it.   *)
LEMMA DiscardFacts ==
    ASSUME NEW v \in Vars
    PROVE  \/ object[v] = None /\ Destroyed(v) = {} /\ Entries(v) = {}
           \/ /\ object[v] # None /\ lastSubmissionID[v] = 0
              /\ Destroyed(v) = {object[v]} /\ Entries(v) = {}
           \/ /\ object[v] # None /\ Destroyed(v) = {}
              /\ Entries(v) = {[object |-> object[v], id |-> lastSubmissionID[v]]}
BY DEF Destroyed, Entries, DestroyedAtOnce

-----------------------------------------------------------------------------
(* Ownership, for any program *)

(* A variable gives its object up.                                          *)
LEMMA GiveUp ==
    ASSUME NEW obj \in [Vars -> Objects \cup {None}], NEW mem, NEW ret,
           Owned(obj, mem, ret), NEW v \in Vars, NEW id, NEW mem2, NEW ret2,
           mem \subseteq Objects,
           \/ obj[v] = None /\ mem2 = mem /\ ret2 = ret
           \/ obj[v] # None /\ mem2 = mem \ {obj[v]} /\ ret2 = ret
           \/ /\ obj[v] # None /\ mem2 = mem
              /\ ret2 = ret \cup {[object |-> obj[v], id |-> id]}
    PROVE  Owned([obj EXCEPT ![v] = None], mem2, ret2)
<1> DEFINE new == [obj EXCEPT ![v] = None]
           entry == [object |-> obj[v], id |-> id]
<1>1. /\ new[v] = None /\ \A w \in Vars : w # v => new[w] = obj[w]
      /\ None \notin Objects
  BY HandlesAssumption DEF Objects
<1>2. entry.object = obj[v]
  OBVIOUS
<1>3. CASE obj[v] = None /\ mem2 = mem /\ ret2 = ret
  <2>1. new = obj
    BY <1>1, <1>3
  <2> QED
    BY <1>3, <2>1
<1> HIDE DEF new, entry
<1>4. CASE obj[v] # None /\ mem2 = mem \ {obj[v]} /\ ret2 = ret
  <2>1. \A u, w \in Vars : new[u] = new[w] /\ new[u] # None => u = w
    BY <1>1 DEF Owned
  <2>2. \A e, f \in ret2 : e.object = f.object => e = f
    BY <1>4 DEF Owned
  <2>3. \A u \in Vars, e \in ret2 : new[u] # e.object
    BY <1>1, <1>4 DEF Owned
  <2>4. \A u \in Vars : new[u] \in mem2 \cup {None}
    BY <1>1, <1>4 DEF Owned
  <2>5. \A e \in ret2 : e.object \in mem2
    BY <1>4 DEF Owned
  <2>6. ASSUME NEW o \in mem2
        PROVE  (\E u \in Vars : new[u] = o) \/ (\E e \in ret2 : e.object = o)
    BY <1>1, <1>4, <2>6 DEF Owned
  <2> QED
    BY <2>1, <2>2, <2>3, <2>4, <2>5, <2>6 DEF Owned, new
<1>5. CASE obj[v] # None /\ mem2 = mem /\ ret2 = ret \cup {entry}
  <2>1. \A u, w \in Vars : new[u] = new[w] /\ new[u] # None => u = w
    BY <1>1 DEF Owned
  <2>2. \A e \in ret : e.object # obj[v]
    BY DEF Owned
  <2>3. \A e, f \in ret2 : e.object = f.object => e = f
    BY <1>2, <1>5, <2>2 DEF Owned
  <2>4. \A u \in Vars : new[u] # obj[v]
    BY <1>1, <1>5 DEF Owned
  <2>5. \A u \in Vars, e \in ret2 : new[u] # e.object
    <3> SUFFICES ASSUME NEW u \in Vars, NEW e \in ret2
                 PROVE  new[u] # e.object
      OBVIOUS
    <3>1. CASE e = entry
      BY <1>2, <2>4, <3>1
    <3>2. CASE e \in ret /\ u # v
      BY <1>1, <3>2 DEF Owned
    <3>3. CASE e \in ret /\ u = v
      BY <1>1, <3>3 DEF Owned
    <3> QED
      BY <1>5, <3>1, <3>2, <3>3
  <2>6. \A u \in Vars : new[u] \in mem2 \cup {None}
    BY <1>1, <1>5 DEF Owned
  <2>7. \A e \in ret2 : e.object \in mem2
    BY <1>2, <1>5 DEF Owned
  <2>8. ASSUME NEW o \in mem2
        PROVE  (\E u \in Vars : new[u] = o) \/ (\E e \in ret2 : e.object = o)
    <3>1. CASE o = obj[v]
      BY <1>2, <1>5, <3>1
    <3>2. CASE o # obj[v]
      BY <1>1, <1>5, <3>2 DEF Owned
    <3> QED
      BY <3>1, <3>2
  <2> QED
    BY <2>1, <2>3, <2>5, <2>6, <2>7, <2>8 DEF Owned, new
<1> QED
  BY <1>3, <1>4, <1>5 DEF new, entry

(* A variable that holds nothing gets a new object.                         *)
LEMMA GetNew ==
    ASSUME NEW obj \in [Vars -> Objects \cup {None}], NEW mem, NEW ret,
           Owned(obj, mem, ret), NEW v \in Vars, obj[v] = None,
           NEW o \in Objects, o \notin mem, mem \subseteq Objects
    PROVE  Owned([obj EXCEPT ![v] = o], mem \cup {o}, ret)
<1> DEFINE new == [obj EXCEPT ![v] = o]
<1>1. /\ new[v] = o /\ \A w \in Vars : w # v => new[w] = obj[w]
      /\ o # None /\ None \notin mem
  BY HandlesAssumption DEF Objects
<1>2. \A w \in Vars : obj[w] # o
  BY <1>1 DEF Owned
<1>3. \A e \in ret : e.object # o
  BY DEF Owned
<1> HIDE DEF new
<1>4. \A u, w \in Vars : new[u] = new[w] /\ new[u] # None => u = w
  BY <1>1, <1>2 DEF Owned
<1>5. \A u \in Vars, e \in ret : new[u] # e.object
  BY <1>1, <1>3 DEF Owned
<1>6. \A u \in Vars : new[u] \in mem \cup {o} \cup {None}
  BY <1>1 DEF Owned
<1>7. ASSUME NEW q \in mem \cup {o}
      PROVE  (\E u \in Vars : new[u] = q) \/ (\E e \in ret : e.object = q)
  <2>1. CASE q = o
    BY <1>1, <2>1
  <2>2. CASE \E u \in Vars : obj[u] = q
    <3>1. PICK u \in Vars : obj[u] = q
      BY <2>2
    <3>2. CASE u = v
      BY <1>1, <1>7, <2>1, <3>1, <3>2
    <3>3. CASE u # v
      BY <1>1, <3>1, <3>3
    <3> QED
      BY <3>2, <3>3
  <2>3. CASE \E e \in ret : e.object = q
    BY <2>3
  <2> QED
    BY <1>7, <2>1, <2>2, <2>3 DEF Owned
<1> QED
  BY <1>4, <1>5, <1>6, <1>7 DEF Owned, new

(* A variable that holds nothing gets the object of another.                *)
LEMMA GetOther ==
    ASSUME NEW obj \in [Vars -> Objects \cup {None}], NEW mem, NEW ret,
           Owned(obj, mem, ret), mem \subseteq Objects,
           NEW v \in Vars, obj[v] = None, NEW w \in Vars, v # w
    PROVE  Owned([obj EXCEPT ![v] = obj[w], ![w] = None], mem, ret)
<1> DEFINE new == [obj EXCEPT ![v] = obj[w], ![w] = None]
<1>1. /\ new[v] = obj[w] /\ new[w] = None
      /\ \A u \in Vars : u # v /\ u # w => new[u] = obj[u]
      /\ None \notin Objects
  BY HandlesAssumption DEF Objects
<1> HIDE DEF new
<1>2. \A u, x \in Vars : new[u] = new[x] /\ new[u] # None => u = x
  BY <1>1 DEF Owned
<1>3. \A u \in Vars, e \in ret : new[u] # e.object
  <2>1. \A e \in ret : e.object # None
    BY <1>1 DEF Owned
  <2> QED
    BY <1>1, <2>1 DEF Owned
<1>4. \A u \in Vars : new[u] \in mem \cup {None}
  BY <1>1 DEF Owned
<1>5. ASSUME NEW q \in mem
      PROVE  (\E u \in Vars : new[u] = q) \/ (\E e \in ret : e.object = q)
  <2>1. CASE \E u \in Vars : obj[u] = q
    <3>1. PICK u \in Vars : obj[u] = q
      BY <2>1
    <3>2. u # v
      BY <1>1, <3>1
    <3>3. CASE u = w
      BY <1>1, <3>1, <3>3
    <3>4. CASE u # w
      BY <1>1, <3>1, <3>2, <3>4
    <3> QED
      BY <3>3, <3>4
  <2>2. CASE \E e \in ret : e.object = q
    BY <2>2
  <2> QED
    BY <2>1, <2>2 DEF Owned
<1> QED
  BY <1>2, <1>3, <1>4, <1>5 DEF Owned, new

(* What the three ways of discarding leave of the resources.                *)
LEMMA DiscardOwned ==
    ASSUME Ownership, NEW v \in Vars
    PROVE  /\ Owned([object EXCEPT ![v] = None], memory \ Destroyed(v),
                    retiring \cup Entries(v))
           /\ [object EXCEPT ![v] = None] \in [Vars -> Objects \cup {None}]
           /\ Entries(v) \subseteq [object : 1 .. created, id : 0 .. Len(waitsOf)]
           /\ memory \subseteq Objects
<1>1. /\ object \in [Vars -> Objects \cup {None}] /\ memory \subseteq Objects
      /\ memory \subseteq 1 .. created
      /\ lastSubmissionID[v] \in 0 .. Len(waitsOf)
  BY HandlesAssumption DEF Ownership, Shape, TypeOK, Objects
<1>2. Owned(object, memory, retiring)
  BY DEF Ownership, Owners
<1> DEFINE mem2 == memory \ Destroyed(v)
           ret2 == retiring \cup Entries(v)
<1>3. \/ object[v] = None /\ mem2 = memory /\ ret2 = retiring
      \/ object[v] # None /\ mem2 = memory \ {object[v]} /\ ret2 = retiring
      \/ /\ object[v] # None /\ mem2 = memory
         /\ ret2 = retiring
              \cup {[object |-> object[v], id |-> lastSubmissionID[v]]}
  BY DiscardFacts
<1>4. Entries(v) \subseteq [object : 1 .. created, id : 0 .. Len(waitsOf)]
  <2>1. object[v] # None => object[v] \in 1 .. created
    BY <1>1, <1>2 DEF Owned
  <2>2. object[v] # None => [object |-> object[v], id |-> lastSubmissionID[v]]
                               \in [object : 1 .. created, id : 0 .. Len(waitsOf)]
    BY <1>1, <2>1
  <2> QED
    BY <2>2, DiscardFacts
<1> HIDE DEF mem2, ret2
<1>5. Owned([object EXCEPT ![v] = None], mem2, ret2)
  BY <1>1, <1>2, <1>3, GiveUp
<1> QED
  BY <1>1, <1>4, <1>5 DEF mem2, ret2

LEMMA CreateOwned ==
    ASSUME Ownership, NEW v \in Vars, Create(v)
    PROVE  Ownership'
<1>1. /\ created < MaxObjects /\ created' = created + 1
      /\ memory' = (memory \ Destroyed(v)) \cup {created + 1}
      /\ retiring' = retiring \cup Entries(v)
      /\ object' = [object EXCEPT ![v] = created + 1]
      /\ lastSubmissionID' = [lastSubmissionID EXCEPT ![v] = 0]
      /\ UNCHANGED <<bound, recorded, copying, waitsOf, usesOf, started, counter>>
  BY DEF Create, listVars, submissionVars, gpuVars
<1>2. Shape
  BY DEF Ownership
<1>3. created + 1 \in Objects /\ created + 1 \notin memory /\ created \in Nat
  BY <1>1, <1>2, HandlesAssumption DEF Shape, TypeOK, Objects
<1>4. Shape'
  <2>a. /\ 1 .. created \subseteq 1 .. created' /\ created + 1 \in 1 .. created'
        /\ created' \in 0 .. MaxObjects
    BY <1>1, <1>3, HandlesAssumption DEF Objects
  <2>1. memory' \subseteq 1 .. created'
    BY <1>1, <1>2, <2>a DEF Shape, TypeOK
  <2>2. retiring' \subseteq [object : 1 .. created', id : 0 .. Len(waitsOf')]
    <3>1. retiring' \subseteq [object : 1 .. created, id : 0 .. Len(waitsOf)]
      BY <1>1, <1>2, DiscardOwned DEF Shape, TypeOK
    <3>2. [object : 1 .. created, id : 0 .. Len(waitsOf)]
            \subseteq [object : 1 .. created', id : 0 .. Len(waitsOf)]
      BY <2>a
    <3> QED
      BY <1>1, <3>1, <3>2
  <2>3. object' \in [Vars -> Objects \cup {None}]
    BY <1>1, <1>2, <1>3 DEF Shape, TypeOK
  <2>4. lastSubmissionID' \in [Vars -> 0 .. Len(waitsOf')]
    BY <1>1, <1>2 DEF Shape, TypeOK, GpuTypeOK
  <2> QED
    BY <1>1, <1>2, <2>a, <2>1, <2>2, <2>3, <2>4
       DEF Shape, TypeOK, Submissions, GpuTypeOK
<1>5. Owners'
  <2> DEFINE obj == [object EXCEPT ![v] = None]
             mem == memory \ Destroyed(v)
             ret == retiring \cup Entries(v)
  <2>1. /\ Owned(obj, mem, ret) /\ obj \in [Vars -> Objects \cup {None}]
        /\ mem \subseteq Objects /\ created + 1 \notin mem
    BY <1>3, DiscardOwned
  <2>2. obj[v] = None
    BY <1>2 DEF Shape, TypeOK
  <2>3. object' = [obj EXCEPT ![v] = created + 1]
    BY <1>1, <1>2 DEF Shape, TypeOK
  <2>4. memory' = mem \cup {created + 1} /\ retiring' = ret
    BY <1>1
  <2> HIDE DEF obj, mem, ret
  <2>5. Owned([obj EXCEPT ![v] = created + 1], mem \cup {created + 1}, ret)
    BY <1>3, <2>1, <2>2, GetNew
  <2> QED
    BY <2>3, <2>4, <2>5 DEF Owners
<1> QED
  BY <1>4, <1>5 DEF Ownership

LEMMA MoveOwned ==
    ASSUME Ownership, NEW v \in Vars, NEW w \in Vars, Move(v, w)
    PROVE  Ownership'
<1>1. /\ v # w
      /\ memory' = memory \ Destroyed(v)
      /\ retiring' = retiring \cup Entries(v)
      /\ object' = [object EXCEPT ![v] = object[w], ![w] = None]
      /\ lastSubmissionID' = [lastSubmissionID EXCEPT ![v] = lastSubmissionID[w]]
      /\ UNCHANGED <<created, bound, recorded, copying, waitsOf, usesOf, started,
                     counter>>
  BY DEF Move, Overwritten, MovedFrom, MovedStamp, listVars, submissionVars,
         gpuVars
<1>2. Shape
  BY DEF Ownership
<1>3. Shape'
  <2>1. memory' \subseteq 1 .. created'
    BY <1>1, <1>2 DEF Shape, TypeOK
  <2>2. retiring' \subseteq [object : 1 .. created', id : 0 .. Len(waitsOf')]
    BY <1>1, <1>2, DiscardOwned DEF Shape, TypeOK
  <2>3. object' \in [Vars -> Objects \cup {None}]
    BY <1>1, <1>2 DEF Shape, TypeOK
  <2>4. lastSubmissionID' \in [Vars -> 0 .. Len(waitsOf')]
    BY <1>1, <1>2 DEF Shape, TypeOK
  <2> QED
    BY <1>1, <1>2, <2>1, <2>2, <2>3, <2>4
       DEF Shape, TypeOK, Submissions, GpuTypeOK
<1>4. Owners'
  <2> DEFINE obj == [object EXCEPT ![v] = None]
             mem == memory \ Destroyed(v)
             ret == retiring \cup Entries(v)
  <2>1. /\ Owned(obj, mem, ret) /\ obj \in [Vars -> Objects \cup {None}]
        /\ mem \subseteq Objects
    BY DiscardOwned
  <2>2. obj[v] = None
    BY <1>2 DEF Shape, TypeOK
  <2>3. object' = [obj EXCEPT ![v] = obj[w], ![w] = None]
    BY <1>1, <1>2 DEF Shape, TypeOK
  <2>4. memory' = mem /\ retiring' = ret
    BY <1>1
  <2> HIDE DEF obj, mem, ret
  <2>5. Owned([obj EXCEPT ![v] = obj[w], ![w] = None], mem, ret)
    BY <1>1, <2>1, <2>2, GetOther
  <2> QED
    BY <2>3, <2>4, <2>5 DEF Owners
<1> QED
  BY <1>3, <1>4 DEF Ownership

LEMMA DestroyOwned ==
    ASSUME Ownership, NEW v \in Vars, Destroy(v)
    PROVE  Ownership'
<1>1. /\ memory' = memory \ Destroyed(v)
      /\ retiring' = retiring \cup Entries(v)
      /\ object' = [object EXCEPT ![v] = None]
      /\ UNCHANGED <<lastSubmissionID, created, bound, recorded, copying, waitsOf,
                     usesOf, started, counter>>
  BY DEF Destroy, listVars, submissionVars, gpuVars
<1>2. Shape
  BY DEF Ownership
<1>3. Shape'
  <2>1. memory' \subseteq 1 .. created'
    BY <1>1, <1>2 DEF Shape, TypeOK
  <2>2. retiring' \subseteq [object : 1 .. created', id : 0 .. Len(waitsOf')]
    BY <1>1, <1>2, DiscardOwned DEF Shape, TypeOK
  <2> QED
    BY <1>1, <1>2, <2>1, <2>2, DiscardOwned
       DEF Shape, TypeOK, Submissions, GpuTypeOK
<1>4. Owners'
  BY <1>1, DiscardOwned DEF Owners
<1> QED
  BY <1>3, <1>4 DEF Ownership

LEMMA RetireOwned ==
    ASSUME Ownership, NEW entry \in retiring, Retire(entry)
    PROVE  Ownership'
<1>1. /\ retiring' = retiring \ {entry}
      /\ memory' = memory \ {entry.object}
      /\ UNCHANGED <<object, lastSubmissionID, created, bound, recorded, copying,
                     waitsOf, usesOf, started, counter>>
  BY DEF Retire, listVars, submissionVars, gpuVars
<1>2. Shape /\ Owned(object, memory, retiring)
  BY DEF Ownership, Owners
<1>3. Shape'
  BY <1>1, <1>2 DEF Shape, TypeOK, Submissions, GpuTypeOK
<1>4. Owned(object, memory', retiring')
  <2>1. \A v \in Vars : object[v] \in memory' \cup {None}
    BY <1>1, <1>2 DEF Owned
  <2>2. \A e \in retiring' : e.object \in memory'
    BY <1>1, <1>2 DEF Owned
  <2>3. ASSUME NEW o \in memory'
        PROVE  (\E v \in Vars : object[v] = o) \/ (\E e \in retiring' : e.object = o)
    BY <1>1, <1>2, <2>3 DEF Owned
  <2> QED
    BY <1>1, <1>2, <2>1, <2>2, <2>3 DEF Owned
<1> QED
  BY <1>1, <1>3, <1>4 DEF Ownership, Owners

(* The values a submission waits for: none, or the last of the hazards.     *)
LEMMA WaitsForFacts ==
    ASSUME Shape, NEW vs \in SUBSET Vars
    PROVE  /\ WaitsFor(Hazards(vs)) \in SUBSET (0 .. Len(waitsOf))
           /\ \A v \in vs \cap BufferVars :
                counter < lastSubmissionID[v] =>
                    \E value \in WaitsFor(Hazards(vs)) : lastSubmissionID[v] <= value
<1> DEFINE n == Len(waitsOf)
           hazards == Hazards(vs)
<1>1. /\ n \in Nat /\ counter \in Nat
      /\ \A v \in Vars : lastSubmissionID[v] \in 0 .. n
  BY DEF Shape, TypeOK, GpuTypeOK
<1>2. hazards \subseteq 0 .. n
  BY <1>1 DEF Hazards
<1>3. \A v \in vs \cap BufferVars :
         counter < lastSubmissionID[v] => lastSubmissionID[v] \in hazards
  BY <1>1 DEF Hazards
<1> HIDE DEF n, hazards
<1>4. CASE hazards = {}
  BY <1>3, <1>4 DEF WaitsFor, hazards
<1>5. CASE hazards # {}
  <2>1. Max(hazards) \in hazards /\ \A x \in hazards : x <= Max(hazards)
    <3>1. hazards \in SUBSET Nat /\ \A x \in hazards : x <= n
      BY <1>1, <1>2
    <3> QED
      BY <1>1, <1>5, <3>1, MaxFacts
  <2>2. WaitsFor(hazards) = {Max(hazards)}
    BY <1>5 DEF WaitsFor
  <2> QED
    BY <1>2, <1>3, <2>1, <2>2 DEF n, hazards
<1> QED
  BY <1>4, <1>5

(* One more submission.                                                     *)
LEMMA SubmissionFacts ==
    ASSUME Shape, NEW values \in SUBSET Nat, NEW use \in Use,
           waitsOf' = Append(waitsOf, values), usesOf' = Append(usesOf, use),
           UNCHANGED <<started, counter>>
    PROVE  /\ Len(waitsOf) \in Nat /\ NewID = Len(waitsOf) + 1
           /\ Len(waitsOf') = NewID /\ Len(usesOf') = NewID
           /\ usesOf' \in Seq(Use) /\ usesOf' \in [Submissions' -> Use]
           /\ GpuTypeOK'
           /\ waitsOf'[NewID] = values /\ usesOf'[NewID] = use
           /\ Submissions = 1 .. Len(waitsOf) /\ Submissions' = 1 .. NewID
           /\ \A id \in Submissions :
                waitsOf'[id] = waitsOf[id] /\ usesOf'[id] = usesOf[id]
           /\ Unfinished' = Unfinished \cup {NewID} /\ NewID \notin Unfinished
<1>1. GpuTypeOK /\ usesOf \in Seq(Use) /\ Len(usesOf) = Len(waitsOf)
  BY DEF Shape, TypeOK
<1>2. /\ Len(waitsOf) \in Nat /\ Len(waitsOf') = Len(waitsOf) + 1
      /\ waitsOf'[Len(waitsOf) + 1] = values
      /\ \A id \in Submissions : waitsOf'[id] = waitsOf[id]
      /\ Submissions = 1 .. Len(waitsOf) /\ Submissions' = 1 .. Len(waitsOf) + 1
      /\ Unfinished' = Unfinished \cup {Len(waitsOf) + 1}
      /\ GpuTypeOK'
  BY <1>1, EnqueueFacts DEF Enqueue
<1> DEFINE n == Len(waitsOf)
<1>3. n \in Nat /\ Len(usesOf) = n
  BY <1>1, <1>2
<1> HIDE DEF n
<1>4. /\ usesOf' \in Seq(Use) /\ Len(usesOf') = n + 1
      /\ usesOf' \in [1 .. n + 1 -> Use] /\ usesOf'[n + 1] = use
      /\ \A id \in 1 .. n : usesOf'[id] = usesOf[id]
  <2>1. /\ Append(usesOf, use) \in Seq(Use) /\ Len(Append(usesOf, use)) = n + 1
        /\ Append(usesOf, use) \in [1 .. n + 1 -> Use]
        /\ Append(usesOf, use)[n + 1] = use
        /\ \A id \in 1 .. n : Append(usesOf, use)[id] = usesOf[id]
    BY <1>1, <1>3, AppendFacts
  <2> QED
    BY <2>1
<1>5. Len(waitsOf) + 1 \notin Unfinished
  BY <1>2 DEF Unfinished
<1> QED
  BY <1>2, <1>4, <1>5 DEF n, NewID

(* Steps that leave the objects and their owners alone.                     *)
LEMMA OwnersKept ==
    ASSUME Owners, UNCHANGED <<object, memory, retiring>>
    PROVE  Owners'
BY DEF Owners

(* A submission, by a list or a copy: it stamps variables or none.          *)
LEMMA SubmissionShape ==
    ASSUME Shape, NEW values \in SUBSET Nat, NEW use \in Use,
           waitsOf' = Append(waitsOf, values), usesOf' = Append(usesOf, use),
           UNCHANGED <<object, created, memory, retiring, started, counter>>,
           lastSubmissionID' \in [Vars -> 0 .. NewID],
           bound' \in [Lists -> (SUBSET Vars) \cup {None}],
           recorded' \in [Lists -> Use],
           copying' \in [var : BufferVars \cup {None}, id : 0 .. NewID]
    PROVE  Shape'
<1>1. /\ Len(waitsOf') = NewID /\ Len(usesOf') = NewID
      /\ NewID \in Nat /\ Len(waitsOf) \in Nat /\ Len(waitsOf) <= NewID
      /\ usesOf' \in Seq(Use) /\ usesOf' \in [Submissions' -> Use]
      /\ GpuTypeOK'
  BY SubmissionFacts
<1>2. retiring' \subseteq [object : 1 .. created', id : 0 .. Len(waitsOf')]
  <2>1. 0 .. Len(waitsOf) \subseteq 0 .. Len(waitsOf')
    BY <1>1
  <2> QED
    BY <2>1 DEF Shape, TypeOK
<1> QED
  BY <1>1, <1>2 DEF Shape, TypeOK

(* What a dispatch or a copy uses.                                          *)
LEMMA UseFacts ==
    ASSUME Shape, NEW v \in Vars, object[v] # None
    PROVE  /\ object[v] \in Objects
           /\ [NoUse EXCEPT !.buffers = {object[v]}] \in Use
           /\ [NoUse EXCEPT !.buffers = {object[v]}].buffers = {object[v]}
           /\ [NoUse EXCEPT !.buffers = {object[v]}].pipelines = {}
           /\ UsedBy([NoUse EXCEPT !.buffers = {object[v]}]) = {object[v]}
           /\ NoUse \in Use
BY DEF Shape, TypeOK, Use, NoUse, UsedBy

LEMMA StampFacts ==
    ASSUME Shape, NEW vs, Stamp(vs, NewID)
    PROVE  /\ lastSubmissionID' \in [Vars -> 0 .. NewID]
           /\ \A v \in Vars :
                lastSubmissionID'[v] = IF v \in vs THEN NewID ELSE lastSubmissionID[v]
BY DEF Shape, TypeOK, GpuTypeOK, Stamp, Stamped, NewID

LEMMA SubmitOwned ==
    ASSUME Ownership, NEW l \in Lists, Submit(l)
    PROVE  Ownership'
<1>1. Shape /\ Owners
  BY DEF Ownership
<1>2. /\ waitsOf' = Append(waitsOf, WaitsFor(Hazards(bound[l])))
      /\ usesOf' = Append(usesOf, recorded[l])
      /\ Stamp(bound[l], NewID)
      /\ bound' = [bound EXCEPT ![l] = None]
      /\ recorded' = [recorded EXCEPT ![l] = NoUse]
      /\ UNCHANGED <<object, created, memory, retiring, copying, started,
                     counter>>
  BY DEF Submit, Enqueue, gpuVars
<1>3. bound[l] \in SUBSET Vars /\ recorded[l] \in Use /\ NoUse \in Use
  BY <1>1 DEF Submit, Shape, TypeOK, Use, NoUse
<1>4. WaitsFor(Hazards(bound[l])) \in SUBSET Nat
  BY <1>1, <1>3, WaitsForFacts
<1>5. lastSubmissionID' \in [Vars -> 0 .. NewID]
  BY <1>1, <1>2, StampFacts
<1>6. /\ bound' \in [Lists -> (SUBSET Vars) \cup {None}]
      /\ recorded' \in [Lists -> Use]
  BY <1>1, <1>2, <1>3 DEF Shape, TypeOK
<1>7. copying' \in [var : BufferVars \cup {None}, id : 0 .. NewID]
  BY <1>1, <1>2 DEF Shape, TypeOK, NewID, GpuTypeOK
<1> QED
  BY <1>1, <1>2, <1>3, <1>4, <1>5, <1>6, <1>7, SubmissionShape, OwnersKept
     DEF Ownership

LEMMA CopyAsyncOwned ==
    ASSUME Ownership, NEW v \in BufferVars, CopyAsync(v)
    PROVE  Ownership'
<1> DEFINE use == [NoUse EXCEPT !.buffers = {object[v]}]
<1>1. Shape /\ Owners
  BY DEF Ownership
<1>2. /\ waitsOf' = Append(waitsOf, WaitsFor(Hazards({v})))
      /\ usesOf' = Append(usesOf, use)
      /\ Stamp({v}, NewID) /\ object[v] # None
      /\ UNCHANGED <<object, created, memory, retiring, bound, recorded, copying,
                     started, counter>>
  BY DEF CopyAsync, SubmitCopy, Enqueue, listVars, gpuVars
<1>3. use \in Use /\ {v} \in SUBSET Vars
  BY <1>1, <1>2, UseFacts DEF Vars
<1>4. WaitsFor(Hazards({v})) \in SUBSET Nat
  BY <1>1, <1>3, WaitsForFacts
<1>5. lastSubmissionID' \in [Vars -> 0 .. NewID]
  BY <1>1, <1>2, StampFacts
<1>6. /\ bound' \in [Lists -> (SUBSET Vars) \cup {None}]
      /\ recorded' \in [Lists -> Use]
  BY <1>1, <1>2 DEF Shape, TypeOK
<1>7. copying' \in [var : BufferVars \cup {None}, id : 0 .. NewID]
  BY <1>1, <1>2 DEF Shape, TypeOK, NewID, GpuTypeOK
<1> HIDE DEF use
<1> QED
  BY <1>1, <1>2, <1>3, <1>4, <1>5, <1>6, <1>7, SubmissionShape, OwnersKept
     DEF Ownership

LEMMA CopyBeginOwned ==
    ASSUME Ownership, NEW v \in BufferVars, CopyBegin(v)
    PROVE  Ownership'
<1> DEFINE use == [NoUse EXCEPT !.buffers = {object[v]}]
<1>1. Shape /\ Owners
  BY DEF Ownership
<1>2. /\ waitsOf' = Append(waitsOf, {})
      /\ usesOf' = Append(usesOf, use)
      /\ object[v] # None /\ copying' = [var |-> v, id |-> NewID]
      /\ UNCHANGED <<object, created, memory, retiring, bound, recorded,
                     lastSubmissionID, started, counter>>
  BY DEF CopyBegin, SubmitCopy, Enqueue, handleVars, listVars, gpuVars
<1>3. use \in Use
  BY <1>1, <1>2, UseFacts DEF Vars
<1>4. Len(waitsOf) \in Nat /\ NewID \in 0 .. NewID
  BY <1>1 DEF Shape, TypeOK, NewID, GpuTypeOK
<1>5. lastSubmissionID' \in [Vars -> 0 .. NewID]
  BY <1>1, <1>2 DEF Shape, TypeOK, NewID, GpuTypeOK
<1>6. /\ bound' \in [Lists -> (SUBSET Vars) \cup {None}]
      /\ recorded' \in [Lists -> Use]
  BY <1>1, <1>2 DEF Shape, TypeOK
<1>7. copying' \in [var : BufferVars \cup {None}, id : 0 .. NewID]
  BY <1>2, <1>4
<1> HIDE DEF use
<1> QED
  BY <1>1, <1>2, <1>3, <1>5, <1>6, <1>7, SubmissionShape, OwnersKept
     DEF Ownership

LEMMA BeginOwned ==
    ASSUME Ownership, NEW l \in Lists, Begin(l)
    PROVE  Ownership'
<1>1. Shape /\ Owners
  BY DEF Ownership
<1>2. UNCHANGED <<object, lastSubmissionID, created, memory, retiring, copying,
                  waitsOf, usesOf, started, counter>>
  BY DEF Begin, handleVars, submissionVars, gpuVars
<1>3. Shape'
  BY <1>1, <1>2 DEF Begin, Shape, TypeOK, Submissions, GpuTypeOK
<1> QED
  BY <1>1, <1>2, <1>3, OwnersKept DEF Ownership

LEMMA BindOwned ==
    ASSUME Ownership, NEW l \in Lists, NEW v \in Vars, Bind(l, v)
    PROVE  Ownership'
<1>1. Shape /\ Owners
  BY DEF Ownership
<1>2. /\ bound[l] # None /\ object[v] # None
      /\ bound' = [bound EXCEPT ![l] = @ \cup {v}]
      /\ UNCHANGED <<object, lastSubmissionID, created, memory, retiring, copying,
                     waitsOf, usesOf, started, counter>>
  BY DEF Bind, handleVars, submissionVars, gpuVars
<1>3. bound' \in [Lists -> (SUBSET Vars) \cup {None}]
  BY <1>1, <1>2 DEF Shape, TypeOK
<1>4. recorded' \in [Lists -> Use]
  <2>1. recorded \in [Lists -> Use] /\ object[v] \in Objects
    BY <1>1, <1>2, UseFacts DEF Shape, TypeOK
  <2>2. With(recorded[l], v) \in Use
    <3>1. recorded[l] \in [buffers : SUBSET Objects, pipelines : SUBSET Objects]
      BY <2>1 DEF Use
    <3> QED
      BY <2>1, <3>1 DEF Use, With
  <2>3. recorded' = [recorded EXCEPT ![l] = With(recorded[l], v)]
    BY DEF Bind
  <2> QED
    BY <2>1, <2>2, <2>3
<1>5. Shape'
  BY <1>1, <1>2, <1>3, <1>4 DEF Shape, TypeOK, Submissions, GpuTypeOK
<1> QED
  BY <1>1, <1>2, <1>5, OwnersKept DEF Ownership

LEMMA DropOwned ==
    ASSUME Ownership, NEW l \in Lists, Drop(l)
    PROVE  Ownership'
<1>1. Shape /\ Owners
  BY DEF Ownership
<1>2. UNCHANGED <<object, lastSubmissionID, created, memory, retiring, copying,
                  waitsOf, usesOf, started, counter>>
  BY DEF Drop, handleVars, submissionVars, gpuVars
<1>3. Shape'
  BY <1>1, <1>2 DEF Drop, Shape, TypeOK, Submissions, GpuTypeOK, Use, NoUse
<1> QED
  BY <1>1, <1>2, <1>3, OwnersKept DEF Ownership

LEMMA UploadEndOwned ==
    ASSUME Ownership, UploadEnd
    PROVE  Ownership'
<1>1. Shape /\ Owners
  BY DEF Ownership
<1>2. UNCHANGED <<object, created, memory, retiring, bound, recorded, waitsOf,
                  usesOf, started, counter>>
  BY DEF UploadEnd, listVars, submissionVars, gpuVars
<1>3. Shape'
  BY <1>1, <1>2 DEF UploadEnd, Shape, TypeOK, Submissions, GpuTypeOK, Stamp, Stamped, NoCopy
<1> QED
  BY <1>1, <1>2, <1>3, OwnersKept DEF Ownership

LEMMA DownloadEndOwned ==
    ASSUME Ownership, DownloadEnd
    PROVE  Ownership'
<1>1. Shape /\ Owners
  BY DEF Ownership
<1>2. UNCHANGED <<object, lastSubmissionID, created, memory, retiring, bound,
                  recorded, waitsOf, usesOf, started, counter>>
  BY DEF DownloadEnd, handleVars, listVars, submissionVars, gpuVars
<1>3. Shape'
  BY <1>1, <1>2 DEF DownloadEnd, Shape, TypeOK, Submissions, GpuTypeOK, NoCopy
<1> QED
  BY <1>1, <1>2, <1>3, OwnersKept DEF Ownership

LEMMA GpuStartOwned ==
    ASSUME Ownership, GpuStart
    PROVE  Ownership'
<1>1. Shape /\ Owners
  BY DEF Ownership
<1>2. UNCHANGED <<object, lastSubmissionID, created, memory, retiring, bound,
                  recorded, copying, usesOf, waitsOf, counter>>
  BY DEF GpuStart, Start, hostVars, handleVars, listVars
<1>3. Shape'
  BY <1>1, <1>2 DEF GpuStart, Shape, TypeOK, Submissions, GpuTypeOK, Start
<1> QED
  BY <1>1, <1>2, <1>3, OwnersKept DEF Ownership

LEMMA GpuSignalOwned ==
    ASSUME Ownership, GpuSignal
    PROVE  Ownership'
<1>1. Shape /\ Owners
  BY DEF Ownership
<1>2. UNCHANGED <<object, lastSubmissionID, created, memory, retiring, bound,
                  recorded, copying, usesOf, waitsOf, started>>
  BY DEF GpuSignal, Signal, hostVars, handleVars, listVars
<1>3. Shape'
  BY <1>1, <1>2 DEF GpuSignal, Shape, TypeOK, Submissions, GpuTypeOK, Signal
<1> QED
  BY <1>1, <1>2, <1>3, OwnersKept DEF Ownership

LEMMA OwnershipStep ==
    ASSUME Ownership, [Next]_vars
    PROVE  Ownership'
<1>1. CASE UNCHANGED vars
  BY <1>1 DEF Ownership, Owners, Owned, Shape, TypeOK, Submissions, GpuTypeOK,
              vars, handleVars, listVars, gpuVars
<1>2. CASE Next
  <2>1. ASSUME NEW v \in Vars,
               Create(v) \/ Destroy(v) \/ \E w \in Vars : Move(v, w)
        PROVE  Ownership'
    BY <2>1, CreateOwned, DestroyOwned, MoveOwned
  <2>2. ASSUME NEW l \in Lists,
               Begin(l) \/ Drop(l) \/ Submit(l) \/ \E v \in Vars : Bind(l, v)
        PROVE  Ownership'
    BY <2>2, BeginOwned, DropOwned, SubmitOwned, BindOwned
  <2>3. ASSUME NEW v \in BufferVars, CopyAsync(v) \/ CopyBegin(v)
        PROVE  Ownership'
    BY <2>3, CopyAsyncOwned, CopyBeginOwned
  <2> QED
    BY <1>2, <2>1, <2>2, <2>3, UploadEndOwned, DownloadEndOwned, RetireOwned,
       GpuStartOwned, GpuSignalOwned DEF Next
<1> QED
  BY <1>1, <1>2

(* Every step, of any program, keeps the types and the owners.              *)
THEOREM OwnershipInductive == Spec => []Ownership
<1>1. Init => Ownership
  BY InitIInv DEF IInv
<1>2. Ownership /\ [Next]_vars => Ownership'
  BY OwnershipStep
<1> QED
  BY <1>1, <1>2, PTL DEF Spec

(* buffer.cpp, pipeline.cpp: the state of the handles is what Handles says  *)
(* it is, whatever the program does with its variables.                     *)
THEOREM TypeCorrect == Spec => []TypeOK
<1>1. Ownership => TypeOK
  BY DEF Ownership, Shape
<1> QED
  BY <1>1, OwnershipInductive, PTL

LEMMA OwnersCounted == Ownership => OneOwner
<1> SUFFICES ASSUME Ownership PROVE OneOwner
  OBVIOUS
<1>1. Owned(object, memory, retiring) /\ memory \subseteq Objects
  BY HandlesAssumption DEF Ownership, Owners, Shape, TypeOK, Objects
<1>2. None \notin Objects
  BY HandlesAssumption DEF Objects
<1>3. ASSUME NEW o \in memory
      PROVE  Cardinality({v \in Vars : object[v] = o})
               + Cardinality({entry \in retiring : entry.object = o}) = 1
  <2> DEFINE holders == {v \in Vars : object[v] = o}
             entries == {entry \in retiring : entry.object = o}
  <2>1. CASE \E v \in Vars : object[v] = o
    <3>1. PICK v \in Vars : object[v] = o
      BY <2>1
    <3>2. holders = {v}
      BY <1>1, <1>2, <3>1 DEF Owned
    <3>3. entries = {}
      BY <1>1, <3>1 DEF Owned
    <3>4. Cardinality(holders) = 1 /\ Cardinality(entries) = 0
      BY <3>2, <3>3, FS_Singleton, FS_EmptySet
    <3> QED
      BY <3>4
  <2>2. CASE \E e \in retiring : e.object = o
    <3>1. PICK e \in retiring : e.object = o
      BY <2>2
    <3>2. entries = {e}
      BY <1>1, <3>1 DEF Owned
    <3>3. holders = {}
      BY <1>1, <3>1 DEF Owned
    <3>4. Cardinality(holders) = 0 /\ Cardinality(entries) = 1
      BY <3>2, <3>3, FS_Singleton, FS_EmptySet
    <3> QED
      BY <3>4
  <2> QED
    BY <1>1, <2>1, <2>2 DEF Owned
<1> QED
  BY <1>1, <1>3 DEF OneOwner, Owned

(* buffer.cpp, pipeline.cpp: however variables are assigned, moved from and *)
(* destroyed, every object has one variable or one entry of the retirement  *)
(* queue to destroy it, and never two.                                      *)
THEOREM HandlesOwnOnce == Spec => []OneOwner
BY OwnershipInductive, OwnersCounted, PTL

-----------------------------------------------------------------------------
(* Stamps cover submissions, when variables stay put under a list's pointer *)

(* What a submission uses is an object.                                     *)
LEMMA UsedFacts ==
    ASSUME IInv, NEW id \in Unfinished
    PROVE  /\ id \in Submissions /\ id \in Nat /\ id # 0 /\ counter < id
           /\ id <= Len(waitsOf) /\ counter \in Nat
           /\ usesOf[id] \in Use
           /\ UsedBy(usesOf[id]) \subseteq Objects
           /\ None \notin UsedBy(usesOf[id])
           /\ UsedBy(usesOf[id]) \subseteq memory
<1>1. Shape /\ Live
  BY DEF IInv, Ownership
<1>2. id \in Submissions /\ counter < id
  BY DEF Unfinished
<1>3. /\ Submissions = 1 .. Len(waitsOf) /\ Len(waitsOf) \in Nat
      /\ counter \in Nat
  BY <1>1 DEF Shape, TypeOK, GpuTypeOK, Submissions
<1>4. usesOf[id] \in [buffers : SUBSET Objects, pipelines : SUBSET Objects]
  BY <1>1, <1>2 DEF Shape, TypeOK, Use
<1>5. UsedBy(usesOf[id]) \subseteq Objects /\ usesOf[id] \in Use
  BY <1>4 DEF UsedBy, Use
<1>6. None \notin Objects
  BY HandlesAssumption DEF Objects
<1>7. UsedBy(usesOf[id]) \subseteq memory
  BY <1>1 DEF Live
<1> QED
  BY <1>2, <1>3, <1>5, <1>6, <1>7

(* The stamp of a variable covers its object, but for a copy from or to it. *)
LEMMA StampCovers ==
    ASSUME IInv, NEW v \in Vars, copying.var # v,
           NEW id \in Unfinished, object[v] \in UsedBy(usesOf[id])
    PROVE  id <= lastSubmissionID[v]
<1>1. CASE id # copying.id
  BY <1>1 DEF IInv, StampsCover
<1>2. CASE id = copying.id
  <2>1. id # 0 /\ object[v] # None
    BY UsedFacts
  <2>2. copying # NoCopy
    BY <1>2, <2>1 DEF NoCopy
  <2>3. /\ copying.var \in BufferVars
        /\ UsedBy(usesOf[copying.id]) = {object[copying.var]}
    BY <2>2 DEF IInv, Copies
  <2>4. object[v] = object[copying.var] /\ copying.var \in Vars
    BY <1>2, <2>3 DEF Vars
  <2> QED
    BY <2>1, <2>4 DEF IInv, Ownership, Owners, Owned
<1> QED
  BY <1>1, <1>2

(* The id of an entry of the retirement queue covers its object.            *)
LEMMA EntryCovers ==
    ASSUME IInv, NEW entry \in retiring,
           NEW id \in Unfinished, entry.object \in UsedBy(usesOf[id])
    PROVE  id <= entry.id
<1>1. CASE id # copying.id
  BY <1>1 DEF IInv, StampsCover
<1>2. CASE id = copying.id
  <2>1. id # 0
    BY UsedFacts
  <2>2. copying # NoCopy
    BY <1>2, <2>1 DEF NoCopy
  <2>3. /\ copying.var \in BufferVars
        /\ UsedBy(usesOf[copying.id]) = {object[copying.var]}
    BY <2>2 DEF IInv, Copies
  <2>4. entry.object = object[copying.var] /\ copying.var \in Vars
    BY <1>2, <2>3 DEF Vars
  <2> QED
    BY <2>4 DEF IInv, Ownership, Owners, Owned
<1> QED
  BY <1>1, <1>2

(* So nothing that a submission still uses is destroyed at once, and the    *)
(* entry of what is handed over covers it.                                  *)
LEMMA DiscardCovers ==
    ASSUME IInv, NEW v \in Vars, copying.var # v, NEW id \in Unfinished
    PROVE  /\ UsedBy(usesOf[id]) \subseteq memory \ Destroyed(v)
           /\ \A e \in retiring \cup Entries(v) :
                e.object \in UsedBy(usesOf[id]) => id <= e.id
<1>1. /\ None \notin UsedBy(usesOf[id]) /\ UsedBy(usesOf[id]) \subseteq memory
      /\ id \in Nat /\ id # 0
  BY UsedFacts
<1>2. \A e \in retiring : e.object \in UsedBy(usesOf[id]) => id <= e.id
  BY EntryCovers
<1>3. object[v] \in UsedBy(usesOf[id]) => id <= lastSubmissionID[v]
  BY StampCovers
<1>4. CASE object[v] # None /\ lastSubmissionID[v] = 0
           /\ Destroyed(v) = {object[v]} /\ Entries(v) = {}
  BY <1>1, <1>2, <1>3, <1>4
<1>5. CASE Destroyed(v) = {} /\ Entries(v) = {}
  BY <1>1, <1>2, <1>5
<1>6. CASE /\ Destroyed(v) = {}
           /\ Entries(v) = {[object |-> object[v], id |-> lastSubmissionID[v]]}
  BY <1>1, <1>2, <1>3, <1>6
<1> QED
  BY <1>4, <1>5, <1>6, DiscardFacts

(* A step of the handles alone.                                             *)
LEMMA HandleStep ==
    ASSUME IInv,
           UNCHANGED <<bound, recorded, copying, waitsOf, usesOf, started, counter>>,
           \A l \in Lists : \A v \in Vars :
               bound[l] # None /\ v \in bound[l] => object'[v] = object[v],
           copying # NoCopy => object'[copying.var] = object[copying.var],
           \A id \in Unfinished :
               /\ UsedBy(usesOf[id]) \subseteq memory'
               /\ \A e \in retiring' :
                    e.object \in UsedBy(usesOf[id]) => id <= e.id,
           \A id \in Unfinished \ {copying.id}, v \in Vars :
               object'[v] \in UsedBy(usesOf[id]) => id <= lastSubmissionID'[v]
    PROVE  Pointers' /\ Copies' /\ Live' /\ StampsCover' /\ Ordered'
<1>1. Unfinished' = Unfinished /\ Submissions' = Submissions
  BY DEF Unfinished, Submissions
<1>2. Pointers'
  <2> SUFFICES ASSUME NEW l \in Lists, bound[l] # None
               PROVE  /\ recorded[l].buffers
                           \subseteq Held(bound[l] \cap BufferVars)'
                      /\ recorded[l].pipelines
                           \subseteq Held(bound[l] \cap PipelineVars)'
    BY DEF IInv, Pointers
  <2>1. \A v \in bound[l] \cap Vars : object'[v] = object[v]
    OBVIOUS
  <2>2. Held(bound[l] \cap BufferVars)' = Held(bound[l] \cap BufferVars)
    BY <2>1 DEF Held, Vars
  <2>3. Held(bound[l] \cap PipelineVars)' = Held(bound[l] \cap PipelineVars)
    BY <2>1 DEF Held, Vars
  <2> QED
    BY <2>2, <2>3 DEF IInv, Pointers
<1>3. Copies'
  BY DEF IInv, Copies
<1>4. Live' /\ StampsCover'
  BY <1>1 DEF Live, StampsCover
<1>5. Ordered'
  BY <1>1 DEF IInv, Ordered
<1> QED
  BY <1>2, <1>3, <1>4, <1>5

LEMMA CreateStep ==
    ASSUME ~MovedWhileBound, IInv, NEW v \in Vars, Create(v)
    PROVE  IInv'
<1>1. /\ ~Pointed(v) /\ copying.var # v
      /\ memory' = (memory \ Destroyed(v)) \cup {created + 1}
      /\ retiring' = retiring \cup Entries(v)
      /\ object' = [object EXCEPT ![v] = created + 1]
      /\ lastSubmissionID' = [lastSubmissionID EXCEPT ![v] = 0]
      /\ UNCHANGED <<bound, recorded, copying, waitsOf, usesOf, started, counter>>
  BY DEF Create, Movable, listVars, submissionVars, gpuVars
<1>2. Shape
  BY DEF IInv, Ownership
<1>3. \A u \in Vars : u # v => /\ object'[u] = object[u]
                               /\ lastSubmissionID'[u] = lastSubmissionID[u]
  BY <1>1, <1>2 DEF Shape, TypeOK
<1>4. object'[v] = created + 1 /\ created + 1 \notin memory
  BY <1>1, <1>2 DEF Shape, TypeOK
<1>5. \A l \in Lists : \A u \in Vars :
         bound[l] # None /\ u \in bound[l] => object'[u] = object[u]
  BY <1>1, <1>3 DEF Pointed
<1>6. copying # NoCopy => object'[copying.var] = object[copying.var]
  BY <1>1, <1>3 DEF IInv, Copies, Vars
<1>7. ASSUME NEW id \in Unfinished
      PROVE  /\ UsedBy(usesOf[id]) \subseteq memory'
             /\ \A e \in retiring' :
                  e.object \in UsedBy(usesOf[id]) => id <= e.id
  BY <1>1, DiscardCovers
<1>8. ASSUME NEW id \in Unfinished \ {copying.id}, NEW u \in Vars,
             object'[u] \in UsedBy(usesOf[id])
      PROVE  id <= lastSubmissionID'[u]
  <2>1. u # v
    BY <1>4, <1>8, UsedFacts
  <2> QED
    BY <1>3, <1>8, <2>1 DEF IInv, StampsCover
<1>9. Ownership'
  BY CreateOwned DEF IInv
<1> QED
  BY <1>1, <1>5, <1>6, <1>7, <1>8, <1>9, HandleStep DEF IInv

LEMMA MoveStep ==
    ASSUME ~MovedWhileBound, IInv, NEW v \in Vars, NEW w \in Vars, Move(v, w)
    PROVE  IInv'
<1>1. /\ v # w /\ ~Pointed(v) /\ ~Pointed(w)
      /\ copying.var # v /\ copying.var # w
      /\ memory' = memory \ Destroyed(v)
      /\ retiring' = retiring \cup Entries(v)
      /\ object' = [object EXCEPT ![v] = object[w], ![w] = None]
      /\ lastSubmissionID' = [lastSubmissionID EXCEPT ![v] = lastSubmissionID[w]]
      /\ UNCHANGED <<bound, recorded, copying, waitsOf, usesOf, started, counter>>
  BY DEF Move, Movable, Overwritten, MovedFrom, MovedStamp, listVars,
         submissionVars, gpuVars
<1>2. Shape
  BY DEF IInv, Ownership
<1>3. \A u \in Vars : u # v /\ u # w =>
         object'[u] = object[u] /\ lastSubmissionID'[u] = lastSubmissionID[u]
  BY <1>1, <1>2 DEF Shape, TypeOK
<1>4. /\ object'[v] = object[w] /\ lastSubmissionID'[v] = lastSubmissionID[w]
      /\ object'[w] = None
  BY <1>1, <1>2 DEF Shape, TypeOK
<1>5. \A l \in Lists : \A u \in Vars :
         bound[l] # None /\ u \in bound[l] => object'[u] = object[u]
  BY <1>1, <1>3 DEF Pointed
<1>6. copying # NoCopy => object'[copying.var] = object[copying.var]
  BY <1>1, <1>3 DEF IInv, Copies, Vars
<1>7. ASSUME NEW id \in Unfinished
      PROVE  /\ UsedBy(usesOf[id]) \subseteq memory'
             /\ \A e \in retiring' :
                  e.object \in UsedBy(usesOf[id]) => id <= e.id
  BY <1>1, DiscardCovers
<1>8. ASSUME NEW id \in Unfinished \ {copying.id}, NEW u \in Vars,
             object'[u] \in UsedBy(usesOf[id])
      PROVE  id <= lastSubmissionID'[u]
  <2>1. CASE u = v
    BY <1>4, <1>8, <2>1 DEF IInv, StampsCover
  <2>2. CASE u = w
    BY <1>4, <1>8, <2>2, UsedFacts
  <2>3. CASE u # v /\ u # w
    BY <1>3, <1>8, <2>3 DEF IInv, StampsCover
  <2> QED
    BY <2>1, <2>2, <2>3
<1>9. Ownership'
  BY MoveOwned DEF IInv
<1> QED
  BY <1>1, <1>5, <1>6, <1>7, <1>8, <1>9, HandleStep DEF IInv

LEMMA DestroyStep ==
    ASSUME ~MovedWhileBound, IInv, NEW v \in Vars, Destroy(v)
    PROVE  IInv'
<1>1. /\ ~Pointed(v) /\ copying.var # v
      /\ memory' = memory \ Destroyed(v)
      /\ retiring' = retiring \cup Entries(v)
      /\ object' = [object EXCEPT ![v] = None]
      /\ UNCHANGED <<lastSubmissionID, bound, recorded, copying, waitsOf, usesOf,
                     started, counter>>
  BY DEF Destroy, Movable, listVars, submissionVars, gpuVars
<1>2. Shape
  BY DEF IInv, Ownership
<1>3. /\ object'[v] = None
      /\ \A u \in Vars : u # v => object'[u] = object[u]
  BY <1>1, <1>2 DEF Shape, TypeOK
<1>4. \A l \in Lists : \A u \in Vars :
         bound[l] # None /\ u \in bound[l] => object'[u] = object[u]
  BY <1>1, <1>3 DEF Pointed
<1>5. copying # NoCopy => object'[copying.var] = object[copying.var]
  BY <1>1, <1>3 DEF IInv, Copies, Vars
<1>6. ASSUME NEW id \in Unfinished
      PROVE  /\ UsedBy(usesOf[id]) \subseteq memory'
             /\ \A e \in retiring' :
                  e.object \in UsedBy(usesOf[id]) => id <= e.id
  BY <1>1, DiscardCovers
<1>7. ASSUME NEW id \in Unfinished \ {copying.id}, NEW u \in Vars,
             object'[u] \in UsedBy(usesOf[id])
      PROVE  id <= lastSubmissionID'[u]
  <2>1. u # v
    BY <1>3, <1>7, UsedFacts
  <2> QED
    BY <1>1, <1>3, <1>7, <2>1 DEF IInv, StampsCover
<1>8. Ownership'
  BY DestroyOwned DEF IInv
<1> QED
  BY <1>1, <1>4, <1>5, <1>6, <1>7, <1>8, HandleStep DEF IInv

(* What the retirement queue destroys no unfinished submission uses.        *)
LEMMA RetireStep ==
    ASSUME IInv, NEW entry \in retiring, Retire(entry)
    PROVE  IInv'
<1>1. /\ entry.id <= counter
      /\ retiring' = retiring \ {entry}
      /\ memory' = memory \ {entry.object}
      /\ UNCHANGED <<object, lastSubmissionID, bound, recorded, copying, waitsOf,
                     usesOf, started, counter>>
  BY DEF Retire, listVars, submissionVars, gpuVars
<1>2. entry.id \in Nat
  BY DEF IInv, Ownership, Shape, TypeOK
<1>3. ASSUME NEW id \in Unfinished
      PROVE  /\ UsedBy(usesOf[id]) \subseteq memory'
             /\ \A e \in retiring' :
                  e.object \in UsedBy(usesOf[id]) => id <= e.id
  <2>1. id \in Nat /\ counter \in Nat /\ counter < id
        /\ UsedBy(usesOf[id]) \subseteq memory
    BY UsedFacts
  <2>2. entry.object \notin UsedBy(usesOf[id])
    BY <1>1, <1>2, <2>1, EntryCovers
  <2> QED
    BY <1>1, <2>1, <2>2, EntryCovers
<1>4. \A id \in Unfinished \ {copying.id}, u \in Vars :
         object'[u] \in UsedBy(usesOf[id]) => id <= lastSubmissionID'[u]
  BY <1>1 DEF IInv, StampsCover
<1>5. Ownership'
  BY RetireOwned DEF IInv
<1> QED
  BY <1>1, <1>3, <1>4, <1>5, HandleStep DEF IInv

-----------------------------------------------------------------------------
(* Lists *)

(* A step that changes a list at most.                                      *)
LEMMA ListStep ==
    ASSUME IInv, Ownership', Pointers',
           UNCHANGED <<object, lastSubmissionID, memory, retiring, copying,
                       waitsOf, usesOf, started, counter>>
    PROVE  IInv'
<1>1. Unfinished' = Unfinished /\ Submissions' = Submissions
  BY DEF Unfinished, Submissions
<1>2. Copies'
  BY DEF IInv, Copies
<1>3. Live' /\ StampsCover'
  BY <1>1 DEF IInv, Live, StampsCover
<1>4. Ordered'
  BY <1>1 DEF IInv, Ordered
<1> QED
  BY <1>2, <1>3, <1>4 DEF IInv

LEMMA BeginStep ==
    ASSUME IInv, NEW l \in Lists, Begin(l)
    PROVE  IInv'
<1>1. Shape /\ Pointers
  BY DEF IInv, Ownership
<1>2. /\ bound[l] = None /\ recorded' = recorded
      /\ bound' = [bound EXCEPT ![l] = {}]
      /\ UNCHANGED <<object, lastSubmissionID, memory, retiring, copying, waitsOf,
                     usesOf, started, counter>>
  BY DEF Begin, handleVars, submissionVars, gpuVars
<1>3. recorded[l] = NoUse
  BY <1>1, <1>2 DEF Pointers
<1>4. bound'[l] = {} /\ \A k \in Lists : k # l => bound'[k] = bound[k]
  BY <1>1, <1>2 DEF Shape, TypeOK
<1>5. Pointers'
  <2> SUFFICES ASSUME NEW k \in Lists
               PROVE  IF bound'[k] = None
                      THEN recorded[k] = NoUse
                      ELSE /\ recorded[k].buffers
                                \subseteq Held(bound[k] \cap BufferVars)'
                           /\ recorded[k].pipelines
                                \subseteq Held(bound[k] \cap PipelineVars)'
    BY <1>2 DEF Pointers
  <2>1. CASE k = l
    BY <1>3, <2>1 DEF NoUse
  <2>2. CASE k # l
    BY <1>1, <1>2, <1>4, <2>2 DEF Pointers, Held
  <2> QED
    BY <2>1, <2>2
<1>6. Ownership'
  BY BeginOwned DEF IInv
<1> QED
  BY <1>2, <1>5, <1>6, ListStep

LEMMA BindStep ==
    ASSUME IInv, NEW l \in Lists, NEW v \in Vars, Bind(l, v)
    PROVE  IInv'
<1>1. Shape /\ Pointers
  BY DEF IInv, Ownership
<1>2. /\ bound[l] # None
      /\ bound' = [bound EXCEPT ![l] = @ \cup {v}]
      /\ recorded' = [recorded EXCEPT ![l] = With(recorded[l], v)]
      /\ UNCHANGED <<object, lastSubmissionID, memory, retiring, copying, waitsOf,
                     usesOf, started, counter>>
  BY DEF Bind, handleVars, submissionVars, gpuVars
<1>3. /\ bound'[l] = bound[l] \cup {v}
      /\ recorded'[l] = With(recorded[l], v)
      /\ \A k \in Lists : k # l => bound'[k] = bound[k] /\ recorded'[k] = recorded[k]
  BY <1>1, <1>2 DEF Shape, TypeOK
<1>4. recorded[l] \in [buffers : SUBSET Objects, pipelines : SUBSET Objects]
  BY <1>1 DEF Shape, TypeOK, Use
<1>5. /\ recorded[l].buffers \subseteq Held(bound[l] \cap BufferVars)
      /\ recorded[l].pipelines \subseteq Held(bound[l] \cap PipelineVars)
  BY <1>1, <1>2 DEF Pointers
<1>6. /\ recorded'[l].buffers \subseteq Held(bound'[l] \cap BufferVars)
      /\ recorded'[l].pipelines \subseteq Held(bound'[l] \cap PipelineVars)
  <2>1. CASE v \in BufferVars
    <3>1. /\ recorded'[l].buffers = recorded[l].buffers \cup {object[v]}
          /\ recorded'[l].pipelines = recorded[l].pipelines
      BY <1>3, <1>4, <2>1 DEF With
    <3> QED
      BY <1>3, <1>5, <2>1, <3>1 DEF Held
  <2>2. CASE v \notin BufferVars
    <3>1. /\ recorded'[l].pipelines = recorded[l].pipelines \cup {object[v]}
          /\ recorded'[l].buffers = recorded[l].buffers
      BY <1>3, <1>4, <2>2 DEF With
    <3>2. v \in PipelineVars
      BY <2>2 DEF Vars
    <3> QED
      BY <1>3, <1>5, <3>1, <3>2 DEF Held
  <2> QED
    BY <2>1, <2>2
<1>7. bound'[l] # None
  BY <1>1, <1>2, <1>3, HandlesAssumption DEF Shape, TypeOK, Vars
<1>8. Pointers'
  BY <1>1, <1>2, <1>3, <1>6, <1>7 DEF Pointers, Held
<1>9. Ownership'
  BY BindOwned DEF IInv
<1> QED
  BY <1>2, <1>8, <1>9, ListStep

LEMMA DropStep ==
    ASSUME IInv, NEW l \in Lists, Drop(l)
    PROVE  IInv'
<1>1. Shape /\ Pointers
  BY DEF IInv, Ownership
<1>2. /\ bound' = [bound EXCEPT ![l] = None]
      /\ recorded' = [recorded EXCEPT ![l] = NoUse]
      /\ UNCHANGED <<object, lastSubmissionID, memory, retiring, copying, waitsOf,
                     usesOf, started, counter>>
  BY DEF Drop, handleVars, submissionVars, gpuVars
<1>3. /\ bound'[l] = None /\ recorded'[l] = NoUse
      /\ \A k \in Lists : k # l => bound'[k] = bound[k] /\ recorded'[k] = recorded[k]
  BY <1>1, <1>2 DEF Shape, TypeOK
<1>4. Pointers'
  BY <1>1, <1>2, <1>3 DEF Pointers, Held
<1>5. Ownership'
  BY DropOwned DEF IInv
<1> QED
  BY <1>2, <1>4, <1>5, ListStep

-----------------------------------------------------------------------------
(* Submissions and copies *)

(* A submission that waits for the newest stamp of the buffers it uses      *)
(* waits for everything that uses them, and uses what exists.               *)
LEMMA NewSubmission ==
    ASSUME IInv, copying = NoCopy,
           NEW values \in SUBSET Nat, NEW use \in Use, NEW vs \in SUBSET Vars,
           use.buffers \subseteq Held(vs \cap BufferVars),
           UsedBy(use) \subseteq Held(vs),
           \A v \in vs \cap BufferVars :
               counter < lastSubmissionID[v] =>
                   \E value \in values : lastSubmissionID[v] <= value,
           waitsOf' = Append(waitsOf, values), usesOf' = Append(usesOf, use),
           UNCHANGED <<object, memory, started, counter>>
    PROVE  Live' /\ Ordered'
<1>1. Shape /\ Owners /\ Live /\ Ordered
  BY DEF IInv, Ownership
<1>2. /\ NewID = Len(waitsOf) + 1 /\ Len(waitsOf) \in Nat
      /\ waitsOf'[NewID] = values /\ usesOf'[NewID] = use
      /\ Submissions = 1 .. Len(waitsOf) /\ Submissions' = 1 .. NewID
      /\ \A id \in Submissions :
           waitsOf'[id] = waitsOf[id] /\ usesOf'[id] = usesOf[id]
      /\ Unfinished' = Unfinished \cup {NewID}
  BY <1>1, SubmissionFacts
<1>3. /\ Unfinished \subseteq Submissions /\ NewID \notin Submissions
      /\ Submissions' = Submissions \cup {NewID}
  BY <1>2 DEF Unfinished
<1>4. Live'
  <2>1. UsedBy(use) \subseteq memory
    <3>1. UsedBy(use) \subseteq Objects /\ None \notin Objects
      BY HandlesAssumption DEF Use, UsedBy, Objects
    <3> QED
      BY <1>1, <3>1 DEF Owners, Owned, Held
  <2> QED
    BY <1>1, <1>2, <1>3, <2>1 DEF Live
<1>5. \A id \in 1 .. started' : \A value \in waitsOf'[id] : value <= counter'
  <2>1. 1 .. started \subseteq Submissions
    BY <1>1, <1>2 DEF Shape, TypeOK, GpuTypeOK
  <2> QED
    BY <1>1, <1>2, <2>1 DEF Ordered
<1>6. ASSUME NEW id \in Submissions', NEW i \in Unfinished', i < id,
             usesOf'[i].buffers \cap usesOf'[id].buffers # {}
      PROVE  \E value \in waitsOf'[id] : i <= value
  <2>1. i # NewID /\ i \in Unfinished /\ i \in Submissions
    BY <1>2, <1>3, <1>6
  <2>2. CASE id \in Submissions
    BY <1>1, <1>2, <1>6, <2>1, <2>2 DEF Ordered
  <2>3. CASE id = NewID
    <3>1. PICK o \in usesOf[i].buffers : o \in use.buffers
      BY <1>2, <1>6, <2>1, <2>3
    <3>2. PICK v \in vs \cap BufferVars : o = object[v]
      BY <3>1 DEF Held
    <3>3. copying.var # v /\ v \in Vars
      BY HandlesAssumption DEF NoCopy, Vars
    <3>4. i <= lastSubmissionID[v]
      BY <2>1, <3>1, <3>2, <3>3, StampCovers DEF UsedBy
    <3>5. /\ i \in Nat /\ counter \in Nat /\ counter < i
          /\ lastSubmissionID[v] \in Nat
      BY <1>1, <2>1, <3>3, UsedFacts DEF Shape, TypeOK
    <3>6. PICK value \in values : lastSubmissionID[v] <= value
      BY <3>4, <3>5
    <3>7. value \in Nat
      OBVIOUS
    <3>8. i <= value
      BY <3>4, <3>5, <3>6, <3>7
    <3> QED
      BY <1>2, <2>3, <3>6, <3>8
  <2> QED
    BY <1>3, <2>2, <2>3
<1> QED
  BY <1>4, <1>5, <1>6 DEF Ordered

(* The variables it stamps are those whose objects it uses.                 *)
LEMMA StampedSubmission ==
    ASSUME IInv, copying = NoCopy,
           NEW values \in SUBSET Nat, NEW use \in Use, NEW vs \in SUBSET Vars,
           UsedBy(use) \subseteq Held(vs),
           waitsOf' = Append(waitsOf, values), usesOf' = Append(usesOf, use),
           Stamp(vs, NewID),
           UNCHANGED <<object, memory, retiring, copying, started, counter>>
    PROVE  StampsCover'
<1>1. Shape /\ Owners /\ StampsCover
  BY DEF IInv, Ownership
<1>2. /\ NewID = Len(waitsOf) + 1 /\ Len(waitsOf) \in Nat
      /\ usesOf'[NewID] = use
      /\ Submissions = 1 .. Len(waitsOf)
      /\ \A id \in Submissions : usesOf'[id] = usesOf[id]
      /\ Unfinished' = Unfinished \cup {NewID}
  BY <1>1, SubmissionFacts
<1>3. \A v \in Vars :
         lastSubmissionID'[v] = IF v \in vs THEN NewID ELSE lastSubmissionID[v]
  BY <1>1, StampFacts
<1>4. None \notin UsedBy(use)
  BY HandlesAssumption DEF Use, UsedBy, Objects
<1> SUFFICES ASSUME NEW id \in Unfinished', id # copying.id
             PROVE  /\ \A v \in Vars : object[v] \in UsedBy(usesOf'[id])
                                          => id <= lastSubmissionID'[v]
                    /\ \A e \in retiring : e.object \in UsedBy(usesOf'[id])
                                              => id <= e.id
  BY DEF StampsCover
<1>5. CASE id \in Unfinished
  <2>1. id \in Submissions /\ id \in Nat /\ id <= Len(waitsOf)
    BY <1>5, UsedFacts
  <2>2. usesOf'[id] = usesOf[id]
    BY <1>2, <2>1
  <2>3. id <= NewID
    BY <1>2, <2>1
  <2>4. id \in Unfinished \ {copying.id}
    BY <1>5
  <2> QED
    BY <1>1, <1>3, <2>2, <2>3, <2>4 DEF StampsCover
<1>6. CASE id = NewID
  <2>1. ASSUME NEW v \in Vars, object[v] \in UsedBy(use)
        PROVE  lastSubmissionID'[v] = NewID
    <3>1. PICK u \in vs : object[v] = object[u]
      BY <2>1 DEF Held
    <3>2. v = u
      BY <1>1, <1>4, <2>1, <3>1 DEF Owners, Owned
    <3> QED
      BY <1>3, <3>2
  <2>2. \A e \in retiring : e.object \notin UsedBy(use)
    BY <1>1 DEF Owners, Owned, Held
  <2>3. usesOf'[id] = use
    BY <1>2, <1>6
  <2>4. id <= NewID
    BY <1>2, <1>6
  <2> QED
    BY <1>6, <2>1, <2>2, <2>3, <2>4
<1> QED
  BY <1>2, <1>5, <1>6

LEMMA SubmitStep ==
    ASSUME IInv, NEW l \in Lists, Submit(l)
    PROVE  IInv'
<1> DEFINE values == WaitsFor(Hazards(bound[l]))
<1>1. Shape /\ Pointers
  BY DEF IInv, Ownership
<1>2. /\ copying = NoCopy /\ bound[l] # None
      /\ waitsOf' = Append(waitsOf, values)
      /\ usesOf' = Append(usesOf, recorded[l])
      /\ Stamp(bound[l], NewID)
      /\ bound' = [bound EXCEPT ![l] = None]
      /\ recorded' = [recorded EXCEPT ![l] = NoUse]
      /\ UNCHANGED <<object, memory, retiring, copying, started, counter>>
  BY DEF Submit, MaySubmit, Enqueue, gpuVars
<1>3. bound[l] \in SUBSET Vars /\ recorded[l] \in Use
  BY <1>1, <1>2 DEF Shape, TypeOK
<1>4. /\ values \in SUBSET Nat
      /\ \A v \in bound[l] \cap BufferVars :
           counter < lastSubmissionID[v] =>
               \E value \in values : lastSubmissionID[v] <= value
  BY <1>1, <1>3, WaitsForFacts
<1>5. /\ recorded[l].buffers \subseteq Held(bound[l] \cap BufferVars)
      /\ UsedBy(recorded[l]) \subseteq Held(bound[l])
  BY <1>1, <1>2 DEF Pointers, Held, UsedBy
<1> HIDE DEF values
<1>6. Live' /\ Ordered'
  BY <1>2, <1>3, <1>4, <1>5, NewSubmission
<1>7. StampsCover'
  BY <1>2, <1>3, <1>4, <1>5, StampedSubmission
<1>8. Pointers'
  <2>1. /\ bound'[l] = None /\ recorded'[l] = NoUse
        /\ \A k \in Lists : k # l => bound'[k] = bound[k] /\ recorded'[k] = recorded[k]
    BY <1>1, <1>2 DEF Shape, TypeOK
  <2> QED
    BY <1>1, <1>2, <2>1 DEF Pointers, Held
<1>9. Copies'
  BY <1>2 DEF Copies, NoCopy
<1>10. Ownership'
  BY SubmitOwned DEF IInv
<1> QED
  BY <1>6, <1>7, <1>8, <1>9, <1>10 DEF IInv

LEMMA CopyAsyncStep ==
    ASSUME IInv, NEW v \in BufferVars, CopyAsync(v)
    PROVE  IInv'
<1> DEFINE use == [NoUse EXCEPT !.buffers = {object[v]}]
           values == WaitsFor(Hazards({v}))
<1>1. Shape /\ Pointers
  BY DEF IInv, Ownership
<1>2. /\ copying = NoCopy /\ object[v] # None
      /\ waitsOf' = Append(waitsOf, values)
      /\ usesOf' = Append(usesOf, use)
      /\ Stamp({v}, NewID)
      /\ UNCHANGED <<object, memory, retiring, bound, recorded, copying, started,
                     counter>>
  BY DEF CopyAsync, MaySubmit, SubmitCopy, Enqueue, listVars, gpuVars
<1>3. /\ v \in Vars /\ {v} \in SUBSET Vars /\ use \in Use
      /\ use.buffers = {object[v]} /\ UsedBy(use) = {object[v]}
  BY <1>1, <1>2, UseFacts DEF Vars
<1>4. /\ values \in SUBSET Nat
      /\ \A u \in {v} \cap BufferVars :
           counter < lastSubmissionID[u] =>
               \E value \in values : lastSubmissionID[u] <= value
  BY <1>1, <1>3, WaitsForFacts
<1>5. use.buffers \subseteq Held({v} \cap BufferVars) /\ UsedBy(use) \subseteq Held({v})
  BY <1>3 DEF Held
<1> HIDE DEF use, values
<1>6. Live' /\ Ordered'
  BY <1>2, <1>3, <1>4, <1>5, NewSubmission
<1>7. StampsCover'
  BY <1>2, <1>3, <1>4, <1>5, StampedSubmission
<1>8. Pointers' /\ Copies'
  BY <1>1, <1>2 DEF Pointers, Held, Copies, NoCopy
<1>9. Ownership'
  BY CopyAsyncOwned DEF IInv
<1> QED
  BY <1>6, <1>7, <1>8, <1>9 DEF IInv

LEMMA CopyBeginStep ==
    ASSUME IInv, NEW v \in BufferVars, CopyBegin(v)
    PROVE  IInv'
<1> DEFINE use == [NoUse EXCEPT !.buffers = {object[v]}]
<1>1. Shape /\ Pointers /\ StampsCover
  BY DEF IInv, Ownership
<1>2. /\ copying = NoCopy /\ object[v] # None /\ lastSubmissionID[v] <= counter
      /\ waitsOf' = Append(waitsOf, {})
      /\ usesOf' = Append(usesOf, use)
      /\ copying' = [var |-> v, id |-> NewID]
      /\ UNCHANGED <<object, lastSubmissionID, memory, retiring, bound, recorded,
                     started, counter>>
  BY DEF CopyBegin, MaySubmit, Ready, SubmitCopy, Enqueue, handleVars, listVars,
         gpuVars
<1>3. /\ v \in Vars /\ {v} \in SUBSET Vars /\ use \in Use
      /\ use.buffers = {object[v]} /\ UsedBy(use) = {object[v]}
  BY <1>1, <1>2, UseFacts DEF Vars
<1>4. \A u \in {v} \cap BufferVars :
         counter < lastSubmissionID[u] =>
             \E value \in {} : lastSubmissionID[u] <= value
  BY <1>1, <1>2, <1>3 DEF Shape, TypeOK, GpuTypeOK
<1>5. use.buffers \subseteq Held({v} \cap BufferVars) /\ UsedBy(use) \subseteq Held({v})
  BY <1>3 DEF Held
<1>a. {} \in SUBSET Nat
  OBVIOUS
<1>6. /\ NewID = Len(waitsOf) + 1 /\ Len(waitsOf) \in Nat
      /\ Len(waitsOf') = NewID /\ usesOf'[NewID] = use
      /\ \A id \in Submissions : usesOf'[id] = usesOf[id]
      /\ Unfinished' = Unfinished \cup {NewID} /\ NewID \notin Unfinished
  BY <1>1, <1>2, <1>3, <1>a, SubmissionFacts
<1> HIDE DEF use
<1>7. Live' /\ Ordered'
  BY <1>2, <1>3, <1>4, <1>5, <1>a, NewSubmission
<1>8. StampsCover'
  <2>1. Unfinished' \ {copying'.id} = Unfinished
    BY <1>2, <1>6
  <2>2. \A id \in Unfinished : id # copying.id /\ usesOf'[id] = usesOf[id]
    BY <1>2, <1>6, UsedFacts DEF NoCopy
  <2> QED
    BY <1>1, <1>2, <2>1, <2>2 DEF StampsCover
<1>9. Pointers'
  BY <1>1, <1>2 DEF Pointers, Held
<1>10. Copies'
  <2>1. copying'.var = v /\ copying'.id = NewID
    BY <1>2
  <2>2. NewID # 0
    BY <1>6
  <2>3. UsedBy(usesOf'[NewID]) = {object'[v]}
    BY <1>2, <1>3, <1>6
  <2> QED
    BY <1>6, <2>1, <2>2, <2>3 DEF Copies, UsedBy
<1>11. Ownership'
  BY CopyBeginOwned DEF IInv
<1> QED
  BY <1>7, <1>8, <1>9, <1>10, <1>11 DEF IInv

(* The copy whose call returns is finished: nothing is left uncovered.      *)
LEMMA CopyEndStep ==
    ASSUME IInv, UploadEnd \/ DownloadEnd
    PROVE  IInv'
<1>1. Shape /\ Pointers /\ StampsCover
  BY DEF IInv, Ownership
<1>2. /\ copying # NoCopy /\ copying.id <= counter /\ copying' = NoCopy
      /\ UNCHANGED <<object, memory, retiring, bound, recorded, waitsOf, usesOf,
                     started, counter>>
  BY DEF UploadEnd, DownloadEnd, CopyReturns, handleVars, listVars,
         submissionVars, gpuVars
<1>3. Unfinished' = Unfinished /\ Submissions' = Submissions
  BY <1>2 DEF Unfinished, Submissions
<1>4. \A id \in Unfinished : id # copying.id
  BY <1>1, <1>2, UsedFacts DEF Shape, TypeOK
<1>5. \A id \in Unfinished, v \in Vars :
         object[v] \in UsedBy(usesOf[id]) => id <= lastSubmissionID'[v]
  <2>1. CASE UploadEnd
    <3>1. \A v \in Vars : lastSubmissionID'[v] =
             IF v = copying.var THEN Len(waitsOf) ELSE lastSubmissionID[v]
      BY <2>1 DEF UploadEnd, Stamp, Stamped
    <3> QED
      BY <1>1, <1>4, <3>1, UsedFacts DEF StampsCover
  <2>2. CASE DownloadEnd
    BY <1>1, <1>4, <2>2 DEF DownloadEnd, handleVars, StampsCover
  <2> QED
    BY <2>1, <2>2
<1>6. StampsCover'
  BY <1>1, <1>2, <1>3, <1>4, <1>5 DEF StampsCover
<1>7. Pointers' /\ Copies'
  BY <1>1, <1>2 DEF Pointers, Held, Copies
<1>8. Live' /\ Ordered'
  BY <1>2, <1>3 DEF IInv, Live, Ordered
<1>9. Ownership'
  BY UploadEndOwned, DownloadEndOwned DEF IInv
<1> QED
  BY <1>6, <1>7, <1>8, <1>9 DEF IInv

LEMMA GpuStartStep ==
    ASSUME IInv, GpuStart
    PROVE  IInv'
<1>1. Shape
  BY DEF IInv, Ownership
<1>2. /\ \A value \in waitsOf[started + 1] : value <= counter
      /\ started' = started + 1
      /\ UNCHANGED <<object, lastSubmissionID, memory, retiring, bound, recorded,
                     copying, waitsOf, usesOf, counter>>
  BY DEF GpuStart, Start, hostVars, handleVars, listVars
<1>3. Unfinished' = Unfinished /\ Submissions' = Submissions
  BY <1>2 DEF Unfinished, Submissions
<1>4. started \in Nat
  BY <1>1 DEF Shape, TypeOK, GpuTypeOK
<1>5. \A id \in 1 .. started' : id \in 1 .. started \/ id = started + 1
  BY <1>2, <1>4
<1>6. Ordered'
  BY <1>2, <1>3, <1>5 DEF IInv, Ordered
<1>7. Pointers' /\ Copies' /\ Live' /\ StampsCover'
  BY <1>2, <1>3 DEF IInv, Pointers, Held, Copies, Live, StampsCover
<1>8. Ownership'
  BY GpuStartOwned DEF IInv
<1> QED
  BY <1>6, <1>7, <1>8 DEF IInv

LEMMA GpuSignalStep ==
    ASSUME IInv, GpuSignal
    PROVE  IInv'
<1>1. Shape
  BY DEF IInv, Ownership
<1>2. /\ counter' = counter + 1
      /\ UNCHANGED <<object, lastSubmissionID, memory, retiring, bound, recorded,
                     copying, waitsOf, usesOf, started>>
  BY DEF GpuSignal, Signal, hostVars, handleVars, listVars
<1>3. counter \in Nat /\ Submissions \subseteq Nat /\ waitsOf \in Seq(SUBSET Nat)
      /\ 1 .. started \subseteq 1 .. Len(waitsOf)
  BY <1>1 DEF Shape, TypeOK, GpuTypeOK, Submissions
<1>4. Unfinished' \subseteq Unfinished /\ Submissions' = Submissions
  BY <1>2, <1>3 DEF Unfinished, Submissions
<1>5. \A id \in 1 .. started : \A value \in waitsOf[id] :
         value \in Nat /\ value <= counter
  BY <1>3 DEF IInv, Ordered
<1>6. \A id \in 1 .. started' : \A value \in waitsOf'[id] : value <= counter'
  BY <1>2, <1>3, <1>5
<1>7. Ordered'
  BY <1>2, <1>4, <1>6 DEF IInv, Ordered
<1>8. Pointers' /\ Copies' /\ Live' /\ StampsCover'
  BY <1>2, <1>4 DEF IInv, Pointers, Held, Copies, Live, StampsCover
<1>9. Ownership'
  BY GpuSignalOwned DEF IInv
<1> QED
  BY <1>7, <1>8, <1>9 DEF IInv

-----------------------------------------------------------------------------
(* The theorems *)

LEMMA IInvStep ==
    ASSUME ~MovedWhileBound, IInv, [Next]_vars
    PROVE  IInv'
<1>1. CASE UNCHANGED vars
  <2>1. /\ UNCHANGED <<object, lastSubmissionID, memory, retiring, bound, recorded,
                       copying, waitsOf, usesOf, started, counter>>
    BY <1>1 DEF vars, handleVars, listVars, gpuVars
  <2>2. Pointers'
    BY <2>1 DEF IInv, Pointers, Held
  <2>3. Ownership'
    BY OwnershipStep DEF IInv
  <2> QED
    BY <2>1, <2>2, <2>3, ListStep
<1>2. CASE Next
  <2>1. ASSUME NEW v \in Vars,
               Create(v) \/ Destroy(v) \/ \E w \in Vars : Move(v, w)
        PROVE  IInv'
    BY <2>1, CreateStep, DestroyStep, MoveStep
  <2>2. ASSUME NEW l \in Lists,
               Begin(l) \/ Drop(l) \/ Submit(l) \/ \E v \in Vars : Bind(l, v)
        PROVE  IInv'
    BY <2>2, BeginStep, DropStep, SubmitStep, BindStep
  <2>3. ASSUME NEW v \in BufferVars, CopyAsync(v) \/ CopyBegin(v)
        PROVE  IInv'
    BY <2>3, CopyAsyncStep, CopyBeginStep
  <2> QED
    BY <1>2, <2>1, <2>2, <2>3, CopyEndStep, RetireStep, GpuStartStep,
       GpuSignalStep DEF Next
<1> QED
  BY <1>1, <1>2

(* When no variable changes under a list's pointer, the whole invariant     *)
(* holds: pointers, stamps, waits and what exists agree.                    *)
THEOREM Inductive ==
    ASSUME ~MovedWhileBound
    PROVE  Spec => []IInv
<1>1. Init => IInv
  BY InitIInv
<1>2. IInv /\ [Next]_vars => IInv'
  BY IInvStep
<1> QED
  BY <1>1, <1>2, PTL DEF Spec

(* buffer.cpp:17-24, pipeline.cpp:17-24: the stamp a move passes on covers  *)
(* every unfinished submission that uses the object, wherever it is now.    *)
THEOREM StampsTravel ==
    ASSUME ~MovedWhileBound
    PROVE  Spec => []StampsCover
<1>1. IInv => StampsCover
  BY DEF IInv
<1> QED
  BY <1>1, Inductive, PTL

LEMMA UsesExist == IInv => NoUseAfterFree
<1> SUFFICES ASSUME IInv PROVE NoUseAfterFree
  OBVIOUS
<1>1. Shape /\ Owners /\ Pointers /\ Live
  BY DEF IInv, Ownership
<1>2. ASSUME NEW l \in Lists PROVE UsedBy(recorded[l]) \subseteq memory
  <2>1. CASE bound[l] = None
    <3>1. recorded[l] = NoUse
      BY <1>1, <2>1 DEF Pointers
    <3>2. UsedBy(NoUse) = {}
      BY DEF NoUse, UsedBy
    <3> QED
      BY <3>1, <3>2
  <2>2. CASE bound[l] # None
    <3>1. UsedBy(recorded[l]) \subseteq Held(bound[l] \cap Vars)
      BY <1>1, <2>2 DEF Pointers, Held, UsedBy, Vars
    <3>2. UsedBy(recorded[l]) \subseteq Objects /\ None \notin Objects
      BY <1>1, HandlesAssumption DEF Shape, TypeOK, Use, UsedBy, Objects
    <3> QED
      BY <1>1, <3>1, <3>2 DEF Owners, Owned, Held
  <2> QED
    BY <2>1, <2>2
<1> QED
  BY <1>1, <1>2 DEF NoUseAfterFree, Live

(* device.cpp:326, buffer.cpp, pipeline.cpp: destroying a handle, or what   *)
(* it is assigned over, never destroys what a submission or a list uses.    *)
THEOREM HandlesOutliveUses ==
    ASSUME ~MovedWhileBound
    PROVE  Spec => []NoUseAfterFree
BY Inductive, UsesExist, PTL

LEMMA OrderExcludes == IInv => NoOverlap
<1> SUFFICES ASSUME IInv, NEW i \in Executing, NEW j \in Executing, i # j
             PROVE  usesOf[i].buffers \cap usesOf[j].buffers = {}
  BY DEF NoOverlap
<1>1. Shape /\ Ordered
  BY DEF IInv, Ownership
<1>2. ASSUME NEW k \in Executing, NEW m \in Executing, k < m,
             usesOf[k].buffers \cap usesOf[m].buffers # {}
      PROVE  FALSE
  <2>1. /\ k \in Unfinished /\ m \in Unfinished /\ m <= started
    BY DEF Executing
  <2>2. /\ k \in Nat /\ counter < k /\ counter \in Nat /\ m \in Submissions
        /\ m \in Nat /\ m # 0
    BY <2>1, UsedFacts
  <2>3. PICK value \in waitsOf[m] : k <= value
    BY <1>1, <1>2, <2>1, <2>2 DEF Ordered
  <2>4. started \in Nat /\ waitsOf \in Seq(SUBSET Nat) /\ m \in 1 .. Len(waitsOf)
    BY <1>1, <2>2 DEF Shape, TypeOK, GpuTypeOK, Submissions
  <2>5. value <= counter /\ value \in Nat
    BY <1>1, <2>1, <2>2, <2>3, <2>4 DEF Ordered
  <2> QED
    BY <2>2, <2>3, <2>5
<1>3. i \in Nat /\ j \in Nat
  BY UsedFacts DEF Executing
<1>4. i < j \/ j < i
  BY <1>3
<1> QED
  BY <1>2, <1>4

(* device.cpp:311-341: the hazards of the variables a list points to are    *)
(* those of the objects it uses, so submissions that share a buffer never   *)
(* execute together, whatever variables the buffer has been in.             *)
THEOREM HandlesDoNotOverlap ==
    ASSUME ~MovedWhileBound
    PROVE  Spec => []NoOverlap
BY Inductive, OrderExcludes, PTL
=============================================================================
