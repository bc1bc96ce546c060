------------------------------ MODULE MCKeeper ------------------------------
(***************************************************************************)
(* A confidential vault with one or two sellers, one buyer and a keeper.   *)
(***************************************************************************)
EXTENDS Keeper, TLC

CONSTANTS s1, s2, b1, admin

MCAllocationLists == {<<[buyer |-> b1, amount |-> 1]>>}
MCInitialTokens == [a \in Accounts |-> IF a = admin THEN 0 ELSE 2]
MCSymmetry == Permutations(Sellers)
=============================================================================
