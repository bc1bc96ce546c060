----------------------------- MODULE YieldFactory -----------------------------
(***************************************************************************)
(* The tiered factory, contracts/yield_factory/src/lib.rs: the admin       *)
(* registers risk tiers and deploys protected families (yield vault,       *)
(* settlement, router) and tranched ones (tranched vault, settlement) into *)
(* them.  Here the instrument_id is an argument; both families may be      *)
(* deployed under one id, for their tags differ.                           *)
(***************************************************************************)
EXTENDS Deployer

CONSTANTS
  TierIds,           \* tier symbols
  Bands,             \* what the admin may register: [min, max, haircut]
  ProtectedConfigs,  \* [id, image, premium, distFee, deadlines]
  TranchedConfigs,   \* [id, image, premium, weights, deadlines]
  YieldWasms,        \* [vault, settlement, router], set by the constructor
  TranchedWasms      \* what the admin may set as the tranched vault's code

VARIABLES
  tiers,          \* DataKey::Tier
  tierCount,      \* DataKey::TierCount
  tranchedWasm,   \* DataKey::TranchedWasm
  protected,      \* DataKey::Instrument
  tranched        \* DataKey::TranchedInst

yieldFactoryVars == <<tiers, tierCount, tranchedWasm, protected, tranched>>

BPS == 10000
NoWasm == "none"

YieldFactoryInit ==
  /\ tiers = <<>>
  /\ tierCount = [t \in TierIds |-> 0]
  /\ tranchedWasm = NoWasm
  /\ protected = <<>>
  /\ tranched = <<>>

\* A tier is immutable once registered; the mutant re-prices it.
AnyTier(t) == TRUE
NewTier(t) == t \notin DOMAIN tiers

RegisterTier(t, band) ==
  /\ band.min <= band.max /\ band.max <= BPS /\ band.haircut < BPS
  /\ NewTier(t)
  /\ tiers' = Stored(tiers, t, band)
  /\ UNCHANGED <<tierCount, tranchedWasm, protected, tranched, contracts>>

\* The premium is priced within the band of the tier.
InBand(t, premium) == tiers[t].min <= premium /\ premium <= tiers[t].max

\* One more family in the tier.
Counted(t) == [tierCount EXCEPT ![t] = @ + 1]

DeployProtected(t, config) ==
  /\ t \in DOMAIN tiers
  /\ InBand(t, config.premium)
  /\ config.distFee <= BPS
  /\ LET vault == Address("yield_factory", config.id, 0)
         settlement == Address("yield_factory", config.id, 1)
         router == Address("yield_factory", config.id, 2)
         withVault ==
           Deploy(contracts, vault,
             [wasm |-> YieldWasms.vault, settlement |-> settlement,
              premium |-> config.premium, haircut |-> tiers[t].haircut, router |-> router])
         withSettlement ==
           Deploy(withVault, settlement,
             [wasm |-> YieldWasms.settlement, image |-> config.image, id |-> config.id,
              vault |-> vault, deadlines |-> config.deadlines])
     IN  /\ Vacant({vault, settlement, router})
         /\ contracts' =
              Deploy(withSettlement, router,
                [wasm |-> YieldWasms.router, vault |-> vault,
                 premium |-> config.premium, distFee |-> config.distFee])
         /\ protected' =
              Stored(protected, config.id,
                [tier |-> t, vault |-> vault, settlement |-> settlement,
                 router |-> router, premium |-> config.premium])
  /\ tierCount' = Counted(t)
  /\ UNCHANGED <<tiers, tranchedWasm, tranched>>

\* Nothing keeps the admin from setting it again.
SetTranchedWasm(wasm) ==
  /\ tranchedWasm' = wasm
  /\ UNCHANGED <<tiers, tierCount, protected, tranched, contracts>>

\* The initialisation of the vault refuses weights that are all zero.
DeployTranched(t, config) ==
  /\ t \in DOMAIN tiers
  /\ InBand(t, config.premium)
  /\ config.weights # <<>> /\ \E n \in DOMAIN config.weights : config.weights[n] > 0
  /\ tranchedWasm # NoWasm
  /\ LET vault == Address("yield_factory", config.id, 3)
         settlement == Address("yield_factory", config.id, 4)
         withVault ==
           Deploy(contracts, vault,
             [wasm |-> tranchedWasm, settlement |-> settlement,
              premium |-> config.premium, weights |-> config.weights])
     IN  /\ Vacant({vault, settlement})
         /\ contracts' =
              Deploy(withVault, settlement,
                [wasm |-> YieldWasms.settlement, image |-> config.image, id |-> config.id,
                 vault |-> vault, deadlines |-> config.deadlines])
         /\ tranched' =
              Stored(tranched, config.id,
                [tier |-> t, vault |-> vault, settlement |-> settlement,
                 premium |-> config.premium, numTranches |-> Len(config.weights)])
  /\ tierCount' = Counted(t)
  /\ UNCHANGED <<tiers, tranchedWasm, protected>>

YieldFactoryNext ==
  \/ \E t \in TierIds, band \in Bands : RegisterTier(t, band)
  \/ \E t \in TierIds, config \in ProtectedConfigs : DeployProtected(t, config)
  \/ \E wasm \in TranchedWasms : SetTranchedWasm(wasm)
  \/ \E t \in TierIds, config \in TranchedConfigs : DeployTranched(t, config)

-----------------------------------------------------------------------------
\* The families live in a tier; a family is named by its vault.
FamiliesIn(t) ==
  {protected[id].vault : id \in {x \in DOMAIN protected : protected[x].tier = t}} \cup
  {tranched[id].vault : id \in {x \in DOMAIN tranched : tranched[x].tier = t}}

\* Every live family of a tier is priced within the band the tier has, at any
\* later time ("re-pricing a tier would silently re-rate live instruments"), with
\* its haircut, the router charges the premium the vault expects, and tier_count
\* is the number of the families, although both kinds count into it and an id may
\* be used once by each.
TiersHold ==
  /\ \A t \in DOMAIN tiers : \A v \in FamiliesIn(t) : InBand(t, contracts[v].premium)
  /\ \A t \in TierIds : tierCount[t] = Cardinality(FamiliesIn(t))
  /\ \A id \in DOMAIN protected :
       LET family == protected[id]
       IN  /\ Bound(family.vault, family.settlement)
           /\ contracts[family.vault].haircut = tiers[family.tier].haircut
           /\ contracts[family.vault].router = family.router
           /\ contracts[family.router].vault = family.vault
           /\ contracts[family.router].premium = contracts[family.vault].premium
=============================================================================
