------------------------------ MODULE MCDevice ------------------------------
(* A buffer that needs staging and a host-visible one, a pipeline and two   *)
(* future variables.  Two submissions find every hazard between a pair; the *)
(* third one, behind another hazard, is in MCHandles.                       *)
EXTENDS Device

CONSTANTS b1, h1, p1, f1, f2

OneOfEach == {b1, h1}
MappedBuffers == {h1}
OnePipeline == {p1}
NoPipelines == {}
TwoFutures == {f1, f2}
OneFuture == {f1}
=============================================================================
