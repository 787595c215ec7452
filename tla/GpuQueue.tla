------------------------------ MODULE GpuQueue ------------------------------
(***************************************************************************)
(* External: the VkQueue voco submits to and its timeline semaphore, as     *)
(* src/src/queue.cpp uses them.  Submission id carries the timeline values  *)
(* it waits for and signals the value id.  Submissions start in order, each *)
(* once its values are reached, and several may execute at once; the        *)
(* signals come in order.                                                   *)
(***************************************************************************)
EXTENDS Naturals, Sequences

VARIABLES
    waitsOf,                  \* the values each submission waits for, by id
    started,                  \* the submissions 1 .. started have started
    counter                   \* the timeline: 1 .. counter have finished

gpuVars == <<started, counter>>

Submissions == DOMAIN waitsOf

(* Submitted and not finished; a started one may be executing.              *)
Unfinished == {id \in Submissions : counter < id}
Executing == {id \in Unfinished : id <= started}

GpuTypeOK ==
    /\ waitsOf \in Seq(SUBSET Nat)
    /\ started \in 0 .. Len(waitsOf)
    /\ counter \in 0 .. started

GpuInit == waitsOf = <<>> /\ started = 0 /\ counter = 0

Enqueue(values) == waitsOf' = Append(waitsOf, values)

Start ==
    /\ started < Len(waitsOf)
    /\ \A value \in waitsOf[started + 1] : value <= counter
    /\ started' = started + 1
    /\ UNCHANGED <<waitsOf, counter>>

Signal ==
    /\ counter < started
    /\ counter' = counter + 1
    /\ UNCHANGED <<waitsOf, started>>
=============================================================================
