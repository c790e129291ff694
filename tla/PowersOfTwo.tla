---------------------------- MODULE PowersOfTwo ----------------------------
(***************************************************************************)
(* Powers of two, and how often a number can be halved.                    *)
(***************************************************************************)
EXTENDS Integers

\* kpow2
Pow2[k \in Nat] == IF k = 0 THEN 1 ELSE 2 * Pow2[k - 1]

\* klog2, which is 0 of 0: how often n can be halved before it is 1.
Log2(n) == IF n = 0 THEN 0 ELSE CHOOSE k \in 0 .. n : Pow2[k] <= n /\ n < Pow2[k + 1]
=============================================================================
