--------------------------- MODULE MCCommandList ---------------------------
(* Pipeline pA has bindings 1 and 2 and no push constants; pB has binding 2 *)
(* behind a push constant, so that their push data overlaps.                *)
EXTENDS CommandList

CONSTANTS l1, l2, x, y, pA, pB

OneList == {l1}
TwoLists == {l1, l2}
TwoBuffers == {x, y}
OneBuffer == {x}

OnePipeline == {pA}
OneOffsets == [p \in {pA} |-> (1 :> 0) @@ (2 :> 1)]
NoConstants == [p \in {pA} |-> {}]

TwoPipelines == {pA, pB}
TwoOffsets == (pA :> ((1 :> 0) @@ (2 :> 1))) @@ (pB :> (2 :> 1))
SomeConstants == (pA :> {}) @@ (pB :> {0})

ReadOrWrite == {"read", "write"}
ReadWrite == {"readWrite"}

(* The buffers are interchangeable, and so are the lists. *)
Symmetric == Permutations(TwoBuffers) \cup Permutations(TwoLists)
SymmetricBuffers == Permutations(TwoBuffers)
=============================================================================
