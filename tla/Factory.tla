-------------------------------- MODULE Factory --------------------------------
(***************************************************************************)
(* The registry and factory, contracts/factory/src/lib.rs: the admin       *)
(* registers immutable instrument types and lists the eligible collateral; *)
(* anybody deploys an instrument of a registered type.                     *)
(*                                                                         *)
(* A configuration is a record [terms, token, deadlines]; terms stands for *)
(* the fields the contracts only hash (reference asset, terms_hash,        *)
(* schedule_root, snapshot_root, premium_bps).                             *)
(***************************************************************************)
EXTENDS Deployer

CONSTANTS
  TypeIds,            \* type symbols
  TypeEntries,        \* what the admin may register: [image, version, vaultWasm, settlementWasm]
  InstrumentConfigs,  \* the configurations people deploy
  Tokens              \* assets

VARIABLES
  types,       \* DataKey::Type
  eligible,    \* DataKey::Eligible
  instruments  \* DataKey::Instrument

factoryVars == <<types, eligible, instruments>>

-----------------------------------------------------------------------------
\* The configuration an id stands for; the mutant forgets the deadlines.
HashWithoutDeadlines(config) == <<config.terms, config.token>>
HashConfig(config) == <<config.terms, config.token, config.deadlines>>

InstrumentId(typeId, version, config) == <<typeId, version, HashConfig(config)>>

FactoryInit ==
  /\ types = <<>>
  /\ eligible = [token \in Tokens |-> FALSE]
  /\ instruments = <<>>

\* A registered type is immutable; the mutant lets the admin edit it.
AnyType(typeId) == TRUE
NewType(typeId) == typeId \notin DOMAIN types

RegisterType(typeId, entry) ==
  /\ NewType(typeId)
  /\ types' = Stored(types, typeId, entry)
  /\ UNCHANGED <<eligible, instruments, contracts>>

\* At any time, for deployed instruments too.
SetCollateralEligible(token, flag) ==
  /\ eligible' = [eligible EXCEPT ![token] = flag]
  /\ UNCHANGED <<types, instruments, contracts>>

DeployInstrument(typeId, config) ==
  /\ typeId \in DOMAIN types
  /\ eligible[config.token]
  /\ LET type == types[typeId]
         id == InstrumentId(typeId, type.version, config)
         vault == Address("factory", id, 0)
         settlement == Address("factory", id, 1)
         withVault ==
           Deploy(contracts, vault,
             [wasm |-> type.vaultWasm, settlement |-> settlement, token |-> config.token])
     IN  /\ Vacant({vault, settlement})
         /\ contracts' =
              Deploy(withVault, settlement,
                [wasm |-> type.settlementWasm, image |-> type.image, id |-> id,
                 vault |-> vault, deadlines |-> config.deadlines])
         /\ instruments' =
              Stored(instruments, id,
                [typeId |-> typeId, vault |-> vault, settlement |-> settlement,
                 configHash |-> HashConfig(config)])
  /\ UNCHANGED <<types, eligible>>

FactoryNext ==
  \/ \E typeId \in TypeIds, entry \in TypeEntries : RegisterType(typeId, entry)
  \/ \E token \in Tokens, flag \in BOOLEAN : SetCollateralEligible(token, flag)
  \/ \E typeId \in TypeIds, config \in InstrumentConfigs : DeployInstrument(typeId, config)

-----------------------------------------------------------------------------
\* An instrument runs forever on the guest and the code its type had when it was
\* deployed, whatever the admin registers later: the registry never comes to
\* disagree with a live pair, and each pair is bound to each other only.
PinnedToType ==
  \A id \in DOMAIN instruments :
    LET instrument == instruments[id]
        type == types[instrument.typeId]
    IN  /\ Bound(instrument.vault, instrument.settlement)
        /\ contracts[instrument.settlement].image = type.image
        /\ contracts[instrument.settlement].wasm = type.settlementWasm
        /\ contracts[instrument.vault].wasm = type.vaultWasm
        /\ id = <<instrument.typeId, type.version, instrument.configHash>>
=============================================================================
