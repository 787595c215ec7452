------------------------------- MODULE MCQueue -------------------------------
(* Two threads and three submissions of two or three command buffers: a     *)
(* buffer is reused, and one is retired while another thread acquires.      *)
EXTENDS Queue

CONSTANTS t1, t2, c1, c2, c3

MCThreads == {t1, t2}
MCCommandBuffers == {c1, c2, c3}
=============================================================================
