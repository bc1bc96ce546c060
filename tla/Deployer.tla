------------------------------- MODULE Deployer -------------------------------
(***************************************************************************)
(* The ledger's contract deployer as the factories use it.  The address of *)
(* a deployed contract follows from the factory and the salt, which is the *)
(* hash of the instrument_id and a tag; a contract is the record of what   *)
(* its initialisation stored.                                              *)
(***************************************************************************)
EXTENDS Naturals, Sequences, FiniteSets

VARIABLE contracts  \* every contract deployed, by its address

Address(factory, id, tag) == [factory |-> factory, id |-> id, tag |-> tag]

\* A storage entry set, whether there was one under the key or not.
Stored(map, key, value) ==
  [x \in DOMAIN map \cup {key} |-> IF x = key THEN value ELSE map[x]]

\* deploy_v2, in a transaction that reverts if there is a contract at one of the
\* addresses it deploys to.
Vacant(addresses) == addresses \cap DOMAIN contracts = {}
Deploy(map, address, contract) == Stored(map, address, contract)

\* A vault and its settlement name each other, for good.
Bound(vault, settlement) ==
  /\ {vault, settlement} \subseteq DOMAIN contracts
  /\ contracts[vault].settlement = settlement
  /\ contracts[settlement].vault = vault
=============================================================================
