------------------------------- MODULE Factories -------------------------------
(***************************************************************************)
(* The three factories on one ledger.  They share no storage but the       *)
(* deployer's; what connects them is that the base factory and that of the *)
(* claimable instruments derive the same ids.                              *)
(***************************************************************************)
EXTENDS ClaimFactory, YieldFactory

registryVars == <<factoryVars, claimFactoryVars>>
factoriesVars == <<contracts, registryVars, yieldFactoryVars>>

FactoriesInit ==
  /\ contracts = <<>>
  /\ FactoryInit /\ ClaimFactoryInit /\ YieldFactoryInit

FactoriesNext ==
  \/ FactoryNext /\ UNCHANGED <<claimFactoryVars, yieldFactoryVars>>
  \/ ClaimFactoryNext /\ UNCHANGED <<factoryVars, yieldFactoryVars>>
  \/ YieldFactoryNext /\ UNCHANGED registryVars

FactoriesSpec == FactoriesInit /\ [][FactoriesNext]_factoriesVars
=============================================================================
