--------------------------- MODULE DeviceShutdown ---------------------------
(***************************************************************************)
(* ~Device (src/src/device.cpp:103-117) on top of RetirementQueue: the      *)
(* parts of the device are destroyed one after the other while the          *)
(* retirement thread runs callbacks and the GPU executes what it was given. *)
(* The destructor of the retirement queue takes all its steps, the join     *)
(* that may never return included.                                          *)
(***************************************************************************)
EXTENDS RetirementQueue

(* The chunks of descriptors of command lists: their callbacks give them    *)
(* back to the heap.  Everything else frees memory of the allocator.        *)
CONSTANT Chunks

ASSUME ChunksAssumption == Chunks \subseteq Resources

VARIABLE resets               \* how many parts have been destroyed

deviceVars == <<vars, resets>>

(* Faulty variant: what is created last is destroyed first. *)
ResetOrder_LastFirst == <<"heap", "retirementQueue", "queue", "allocator">>

ResetOrder == <<"retirementQueue", "heap", "queue", "allocator">>

Turn(part) == resets < 4 /\ ResetOrder[resets + 1] = part
Gone(part) == \E i \in 1 .. resets : ResetOrder[i] = part

DeviceInit == Init /\ resets = 0

(* While the program has the device. *)
Use ==
    /\ resets = 0
    /\ \/ UserSubmit
       \/ \E r \in Resources :
           \/ \E id \in 0 .. submitted : PushInsert(r, id)
           \/ PushNotify(r)
    /\ UNCHANGED resets

(* The retirement thread and the GPU, at any time. *)
Background ==
    /\ GpuFinish \/ Retire \/ SpuriousWakeup
    /\ UNCHANGED resets

(* m_retirementQueue.reset() *)
ResetRetirementQueue ==
    /\ Turn("retirementQueue")
    /\ \/ /\ StopRunning \/ StopNotify \/ Join \/ WaitIdle \/ DestroyPending
          /\ UNCHANGED resets
       \/ Destructed /\ resets' = resets + 1

ResetPart(part) ==
    /\ Turn(part)
    /\ resets' = resets + 1
    /\ UNCHANGED vars

(* m_heap.reset(), m_queue.reset() and vmaDestroyAllocator *)
ResetOthers == ResetPart("heap") \/ ResetPart("queue") \/ ResetPart("allocator")

DeviceNext == Use \/ Background \/ ResetRetirementQueue \/ ResetOthers

DeviceSpec == DeviceInit /\ [][DeviceNext]_deviceVars

(* The fairness of the retirement queue, whose destructor need not return   *)
(* for all that; what ~Device does after it is not assumed to happen.       *)
FairDeviceSpec == DeviceSpec /\ Fairness

-----------------------------------------------------------------------------
(* Properties *)

GpuBusy == finished < submitted

(* An object was pushed and its callback has still to run. *)
Awaited(r) == pusher[r] # "live" /\ destroyCalls[r] = 0

(* No part of the device is destroyed while anybody may still use it: the   *)
(* shaders and the callbacks of the chunks the heap; the GPU (semaphore,    *)
(* command buffers) and the retirement thread the queue; the other          *)
(* callbacks, and the heap, the allocator.  device.cpp:106-110;             *)
(* descriptor_heap_backend.cpp:38-41: "no chunk can still be in flight or   *)
(* referenced by a pending callback here."                                  *)
PartsOutliveUsers ==
    /\ Gone("heap") => ~GpuBusy /\ \A r \in Chunks : ~Awaited(r)
    /\ Gone("queue") => ~GpuBusy /\ retirer = "exited"
    /\ Gone("allocator") => Gone("heap") /\ \A r \in Resources : ~Awaited(r)
=============================================================================
