------------------------------- MODULE MCZone -------------------------------
(***************************************************************************)
(* Instances of Zone for TLC.  Ten pages under sixteen leaves are pages    *)
(* that InitArea lists all, as the theorems about the lists assume.        *)
(***************************************************************************)
EXTENDS Zone

ASSUME AllListed == InitListsAll
=============================================================================
