------------------------------- MODULE MCYield -------------------------------
(***************************************************************************)
(* A small protected family: rates of a half, two pBOND holders, and       *)
(* payouts of one unit to the first buyer.                                 *)
(***************************************************************************)
EXTENDS YieldRouter

CONSTANTS s1, s2, b1, b2, admin

MCAllocationLists == {<<[buyer |-> b1, amount |-> 1]>>}
MCInitialTokens == [a \in Accounts |-> IF a = admin THEN 3 ELSE IF a \in Sellers THEN 2 ELSE 1]
=============================================================================
