------------------------------ MODULE Solvency ------------------------------
(***************************************************************************)
(* The guest solvency_v1, prover/guests/solvency_v1/src/lib.rs, whose      *)
(* proofs gate the purchases and withdrawals of the confidential vaults.   *)
(* A commitment to the aggregate cover is modelled by what it binds,       *)
(* [total, salt]: two are equal exactly when their openings are.  A check  *)
(* that fails is a proof that does not exist.                              *)
(***************************************************************************)
EXTENDS Integers

Opening(total, salt) == [total |-> total, salt |-> salt]

\* check: the aggregate grown by the cover fits the collateral.
Solvent(opening, cover, collateral) ==
  cover > 0 /\ opening.total >= 0 /\ opening.total + cover <= collateral

BuyJournal(opening, cover, salt, collateral) ==
  [prev |-> opening, new |-> Opening(opening.total + cover, salt),
   cover |-> cover, collateral |-> collateral]

\* check_withdraw: the aggregate fits what the withdrawal leaves.
SolventAfter(opening, after) == opening.total >= 0 /\ opening.total <= after

WithdrawJournal(opening, after) == [prev |-> opening, after |-> after]
=============================================================================
