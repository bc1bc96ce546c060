----------------------------- MODULE ClaimFactory -----------------------------
(***************************************************************************)
(* The factory of claimable instruments,                                   *)
(* contracts/claim_factory/src/lib.rs, beside the base factory.  Its code  *)
(* is fixed at construction, only the admin deploys, and the ids are those *)
(* of the base factory: one id may name an instrument of each, and a proof *)
(* of one is then a proof of the other.                                    *)
(***************************************************************************)
EXTENDS Factory

CONSTANTS
  ClaimTypeEntries,  \* [settleImage, claimImage, version, grace]
  ClaimWasms         \* [vault, settlement], set by the constructor

VARIABLES
  claimTypes,       \* DataKey::Type
  claimEligible,    \* DataKey::Eligible
  claimInstruments  \* DataKey::Instrument

claimFactoryVars == <<claimTypes, claimEligible, claimInstruments>>

ClaimFactoryInit ==
  /\ claimTypes = <<>>
  /\ claimEligible = [token \in Tokens |-> FALSE]
  /\ claimInstruments = <<>>

\* hash_config and derive_instrument_id, written a second time in this contract.
ClaimId(typeId, version, config) == InstrumentId(typeId, version, config)

RegisterClaimableType(typeId, entry) ==
  /\ typeId \notin DOMAIN claimTypes
  /\ claimTypes' = Stored(claimTypes, typeId, entry)
  /\ UNCHANGED <<claimEligible, claimInstruments, contracts>>

SetClaimEligible(token, flag) ==
  /\ claimEligible' = [claimEligible EXCEPT ![token] = flag]
  /\ UNCHANGED <<claimTypes, claimInstruments, contracts>>

DeployClaimable(typeId, config) ==
  /\ typeId \in DOMAIN claimTypes
  /\ claimEligible[config.token]
  /\ LET type == claimTypes[typeId]
         id == ClaimId(typeId, type.version, config)
         vault == Address("claim_factory", id, 0)
         settlement == Address("claim_factory", id, 2)
         withVault ==
           Deploy(contracts, vault,
             [wasm |-> ClaimWasms.vault, settlement |-> settlement, token |-> config.token])
     IN  /\ Vacant({vault, settlement})
         /\ contracts' =
              Deploy(withVault, settlement,
                [wasm |-> ClaimWasms.settlement, image |-> type.settleImage,
                 claimImage |-> type.claimImage, id |-> id, vault |-> vault,
                 deadlines |-> config.deadlines, grace |-> type.grace])
         /\ claimInstruments' =
              Stored(claimInstruments, id,
                [typeId |-> typeId, vault |-> vault, settlement |-> settlement,
                 configHash |-> HashConfig(config)])
  /\ UNCHANGED <<claimTypes, claimEligible>>

ClaimFactoryNext ==
  \/ \E typeId \in TypeIds, entry \in ClaimTypeEntries :
       RegisterClaimableType(typeId, entry)
  \/ \E token \in Tokens, flag \in BOOLEAN : SetClaimEligible(token, flag)
  \/ \E typeId \in TypeIds, config \in InstrumentConfigs : DeployClaimable(typeId, config)

-----------------------------------------------------------------------------
\* The settlements that a proof naming an id may be submitted to.
Named(id) ==
  {instruments[x].settlement : x \in DOMAIN instruments \cap {id}} \cup
  {claimInstruments[x].settlement : x \in DOMAIN claimInstruments \cap {id}}

\* An id names one configuration across both factories: a proof made for it is
\* accepted, by whichever settlement, only for the deadlines it was made for,
\* and is paid out of a vault that holds the same asset.
IdNamesOneConfig ==
  \A id \in DOMAIN instruments \cup DOMAIN claimInstruments :
    \A x, y \in Named(id) :
      /\ contracts[x].deadlines = contracts[y].deadlines
      /\ contracts[contracts[x].vault].token = contracts[contracts[y].vault].token
=============================================================================
