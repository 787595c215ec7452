------------------------- MODULE MCDescriptorLayout -------------------------
(* Shaders without push constants, with a scalar and with three of them;    *)
(* one or two sets, bindings that begin at 0 or not.  Drivers with aligned  *)
(* and unaligned descriptors, and push data that is too small for some.     *)
(* Two buffers have one use, the third has both.                            *)
EXTENDS DescriptorLayout

CONSTANTS x, u, both

Storage(n) == [binding |-> n, type |-> "storage"]
Uniform(n) == [binding |-> n, type |-> "uniform"]
SetOf(n, list) == [set |-> n, bindings |-> list]

SomeShaders ==
    [constants : {0, 4, 12},
     sets : {<<>>,
             <<SetOf(0, <<Storage(1)>>)>>,
             <<SetOf(0, <<Storage(0), Storage(2)>>)>>,
             <<SetOf(0, <<Storage(1)>>), SetOf(2, <<Uniform(0)>>)>>}]

SomeLimits ==
    {[bufferDescriptorSize |-> descriptor[1],
      bufferDescriptorAlignment |-> descriptor[2],
      resourceHeapAlignment |-> alignment,
      maxPushDataSize |-> room] :
        descriptor \in {<<2, 0>>, <<3, 1>>, <<3, 4>>},
        alignment \in {1, 8},
        room \in {4, 20, 24}}

AllBuffers == {x, u, both}
AllUsages == (x :> {"storage"}) @@ (u :> {"uniform"}) @@ (both :> {"storage", "uniform"})
=============================================================================
