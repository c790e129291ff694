--------------------------- MODULE MCSemaphoreUse ---------------------------
(***************************************************************************)
(* Instances of SemaphoreUse for TLC, with one or two semaphores.          *)
(***************************************************************************)
EXTENDS SemaphoreUse

CONSTANTS S, T

TwoSems == {S, T}
AnyTimeout == {KeepWait, TryWait, 2}
StartEmpty == [s \in Sems |-> 0]
=============================================================================
