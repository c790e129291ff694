----------------------------- MODULE MCTempFile -----------------------------
\* Symmetry of the constants of TempFile for TLC: the handles are alike, and so
\* are the bytes.
EXTENDS TempFile, TLC

MCSymmetry == Permutations(Handles) \union Permutations(Bytes)
=============================================================================
