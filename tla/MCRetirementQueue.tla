------------------------- MODULE MCRetirementQueue -------------------------
(* Three objects and two submissions: enough for an entry to be inserted    *)
(* before, between and after others, and for equal ids.  One object is a    *)
(* chunk of descriptors.                                                    *)
EXTENDS DeviceShutdown

CONSTANTS r1, r2, r3

MCResources == {r1, r2, r3}
MCChunks == {r1}
=============================================================================
