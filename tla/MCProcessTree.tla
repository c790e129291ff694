---------------------------- MODULE MCProcessTree ----------------------------
(***************************************************************************)
(* Instances of ProcessTree for TLC: who waits for children.               *)
(***************************************************************************)
EXTENDS ProcessTree

AllButBoot == Proc \ {0}
OnlyBoot == {0}
=============================================================================
