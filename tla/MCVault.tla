------------------------------- MODULE MCVault -------------------------------
(***************************************************************************)
(* A small vault: two sellers, one buyer, amounts around the boundary      *)
(* (-1, 0, 1, 2), and a settlement that passes every list of at most two   *)
(* allocations, the zero and negative ones included.                       *)
(***************************************************************************)
EXTENDS Vault, SequencesExt

CONSTANTS s1, s2, b1

MCSellers == {s1, s2}
MCBuyers == {b1}
MCAmounts == {-1, 0, 1, 2}
MCCovers == {0, 1, 2}
MCCommitments == {"opaque"}
MCAllocationLists ==
  BoundedSeq([buyer : {b1, s1}, amount : {-1, 0, 1, 2}], 2)

\* Total is the sum the contracts add up in a loop.
ASSUME \A f \in [1..3 -> 0..3] : Total(f) = FoldFunction(+, 0, f)
=============================================================================
