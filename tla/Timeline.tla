------------------------------ MODULE Timeline ------------------------------
(***************************************************************************)
(* The promise every part of voco relies on: one queue hands out the        *)
(* submission ids 1, 2, 3, ... and one timeline semaphore counts the        *)
(* submissions that have finished, in that order.                           *)
(*                                                                          *)
(* Module Queue is shown to implement it; RetirementQueue and Device are    *)
(* built on it.                                                             *)
(***************************************************************************)
EXTENDS Naturals

CONSTANT MaxSubmissions       \* bound: a behaviour has at most this many

ASSUME MaxSubmissionsAssumption == MaxSubmissions \in Nat

VARIABLES
    submitted,                \* Queue::m_lastSubmittedID
    finished                  \* the value of the timeline semaphore

timelineVars == <<submitted, finished>>

TimelineTypeOK ==
    /\ submitted \in 0 .. MaxSubmissions
    /\ finished \in 0 .. submitted

TimelineInit ==
    /\ submitted = 0
    /\ finished = 0

(* Queue::submit takes the next id. *)
Submit ==
    /\ submitted < MaxSubmissions
    /\ submitted' = submitted + 1
    /\ UNCHANGED finished

(* The GPU finishes the oldest unfinished submission and signals its id. *)
Finish ==
    /\ finished < submitted
    /\ finished' = finished + 1
    /\ UNCHANGED submitted

TimelineNext == Submit \/ Finish

(* The GPU never stops working on what was submitted. *)
TimelineSpec ==
    /\ TimelineInit
    /\ [][TimelineNext]_timelineVars
    /\ WF_timelineVars(Finish)
=============================================================================
