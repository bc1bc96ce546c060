------------------------------ MODULE MCFactories ------------------------------
(***************************************************************************)
(* The three factories on one ledger: one type symbol with two versions of *)
(* its guest, two configurations that differ in their deadlines alone, two *)
(* tiers' worth of bands and two ids for the tiered families.              *)
(***************************************************************************)
EXTENDS Factories

MCTypeEntries ==
  {[image |-> "guest1", version |-> 1, vaultWasm |-> "vault", settlementWasm |-> "settlement"],
   [image |-> "guest2", version |-> 1, vaultWasm |-> "vault", settlementWasm |-> "settlement"]}
MCClaimTypeEntries ==
  {[settleImage |-> "guest1", claimImage |-> "claim1", version |-> 1, grace |-> 1]}
MCInstrumentConfigs ==
  {[terms |-> "bond", token |-> "usdc", deadlines |-> d] : d \in {<<1>>, <<2>>}}
MCClaimWasms == [vault |-> "vault", settlement |-> "claim_settlement"]

MCBands == {[min |-> 100, max |-> 200, haircut |-> 500],
            [min |-> 200, max |-> 300, haircut |-> 0],
            [min |-> 300, max |-> 200, haircut |-> 0]}
MCProtectedConfigs ==
  [id : {<<"i1">>, <<"i2">>}, image : {"guest1"}, premium : {100, 200}, distFee : {0},
   deadlines : {<<1>>}]
MCTranchedConfigs ==
  [id : {<<"i1">>}, image : {"guest1"}, premium : {200, 301}, weights : {<<>>, <<0>>, <<3, 1>>},
   deadlines : {<<2>>}]
MCYieldWasms == [vault |-> "yield_vault", settlement |-> "settlement", router |-> "router"]
=============================================================================
