----------------------------- MODULE MCVMSpace -----------------------------
\* VMSpace, whose constants the cfg files give, as TLC checks it.
EXTENDS VMSpace
=============================================================================
