---------------------------- MODULE MCFileTable ----------------------------
\* Values of the constants of FileTable for TLC.
EXTENDS FileTable, TLC

MCSymmetry == Permutations(Processes)
=============================================================================
