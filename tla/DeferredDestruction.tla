------------------------- MODULE DeferredDestruction -------------------------
(***************************************************************************)
(* What destroying a voco object promises, without saying how: an object    *)
(* given up with the id of the last submission that uses it is destroyed    *)
(* once, not before that submission has finished, and in the end always.    *)
(***************************************************************************)
EXTENDS Timeline

CONSTANT Resources

VARIABLES
    doomed,                   \* the objects given up by their owner
    idOf,                     \* the last submission that uses each of them
    destroyCalls              \* how often each was destroyed

vars == <<submitted, finished, doomed, idOf, destroyCalls>>

Init ==
    /\ TimelineInit
    /\ doomed = {}
    /\ idOf = [r \in Resources |-> 0]
    /\ destroyCalls = [r \in Resources |-> 0]

Doom(r, id) ==
    /\ r \notin doomed
    /\ doomed' = doomed \cup {r}
    /\ idOf' = [idOf EXCEPT ![r] = id]
    /\ UNCHANGED <<submitted, finished, destroyCalls>>

Destroy(r) ==
    /\ r \in doomed
    /\ destroyCalls[r] = 0
    /\ idOf[r] <= finished
    /\ destroyCalls' = [destroyCalls EXCEPT ![r] = 1]
    /\ UNCHANGED <<submitted, finished, doomed, idOf>>

Work ==
    /\ TimelineNext
    /\ UNCHANGED <<doomed, idOf, destroyCalls>>

Next ==
    \/ Work
    \/ \E r \in Resources :
        \/ \E id \in 0 .. submitted : Doom(r, id)
        \/ Destroy(r)

SafetySpec == Init /\ [][Next]_vars

Spec ==
    /\ SafetySpec
    /\ WF_vars(Finish /\ UNCHANGED <<doomed, idOf, destroyCalls>>)
    /\ \A r \in Resources : WF_vars(Destroy(r))
=============================================================================
