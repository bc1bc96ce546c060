------------------------------- MODULE MCClaim -------------------------------
(***************************************************************************)
(* A claimable instrument with two buyers, one of whom may hold a larger   *)
(* and a smaller position, a commitment nobody can open, and one coupon at *)
(* time 0.                                                                 *)
(***************************************************************************)
EXTENDS ClaimSettlement

CONSTANTS s1, b1, b2, h1, ours, opaque

MCOpenings == [buyer : {b1, b2}, cover : {1}] \cup [buyer : {b1}, cover : {3}]
MCCommitments == MCOpenings \cup {opaque}
MCConfig ==
  [i \in {ours} |->
     [schedule |-> <<[epoch |-> 1, deadline |-> 0]>>,
      snapshot |-> <<[id |-> h1, balance |-> 4, trustline |-> TRUE, frozen |-> FALSE]>>,
      rate |-> 5000]]
=============================================================================
