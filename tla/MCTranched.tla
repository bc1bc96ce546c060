------------------------------ MODULE MCTranched ------------------------------
(***************************************************************************)
(* Two tranches of weights 2 and 1, two sellers and payouts that fall into *)
(* the junior tranche or reach beyond it.  The vault is of one of the two  *)
(* kinds with tranches, chosen at the start: one that hides its cover      *)
(* sells up to MaxPositions = 2 positions, a public one the first only.    *)
(***************************************************************************)
EXTENDS ConfidentialTranchedVault, TLC

CONSTANTS s1, s2, b1, admin

VARIABLE confidential  \* whether the vault hides its cover

MCWeights == [r \in 0..1 |-> 2 - r]
MCAllocationLists == {<<[buyer |-> b1, amount |-> 1]>>,
                      <<[buyer |-> b1, amount |-> 1], [buyer |-> b1, amount |-> 2]>>}
MCInitialTokens == [a \in Accounts |-> IF a = admin THEN 0 ELSE IF a \in Sellers THEN 3 ELSE 2]
MCFigures == 0..4
MCSymmetry == Permutations(Sellers)

MCPublicPositions == 1

MCInit == HiddenInit /\ confidential \in BOOLEAN

MCNext ==
  /\ \/ /\ ~confidential /\ TranchedNext /\ UNCHANGED hiddenVars
        /\ folded' <= MCPublicPositions
     \/ confidential /\ HiddenNext
  /\ UNCHANGED confidential

MCSpec == MCInit /\ [][MCNext]_<<hiddenTranchedVars, confidential>>
===============================================================================
