------------------------------ MODULE MCMutex ------------------------------
(***************************************************************************)
(* Instances of Mutex for TLC: process 0 idles, the others use the mutex.  *)
(***************************************************************************)
EXTENDS Mutex
=============================================================================
