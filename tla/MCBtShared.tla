----------------------------- MODULE MCBtShared -----------------------------
(* BtShared for TLC: three handles, each used by a thread of its own.      *)
EXTENDS BtShared, TLC

CONSTANTS b1, b2, b3, u1, u2, u3

ThreeCallers == b1 :> u1 @@ b2 :> u2 @@ b3 :> u3

\* The pieces of memory a BtShared can be in are interchangeable.
ObjectSymmetry == Permutations(Object)
=============================================================================
