---------------------------- MODULE FactoryProofs ----------------------------
(***************************************************************************)
(* What the three factories deploy stays as it was deployed, and the       *)
(* registries keep describing it, for any types, tiers, configurations and *)
(* order of calls.  The argument is that a contract is never deployed over *)
(* another one and a type or tier never registered over another one, so    *)
(* that what an entry of a registry says of its family when it is written  *)
(* it says forever.                                                        *)
(***************************************************************************)
EXTENDS Factories, FiniteSetTheorems, TLAPS

\* Two contracts deployed one after the other at vacant addresses.
LEMMA PairDeployed ==
  ASSUME NEW vault, NEW settlement, Vacant({vault, settlement}), vault # settlement,
         NEW v, NEW s,
         contracts' = Deploy(Deploy(contracts, vault, v), settlement, s)
  PROVE  /\ DOMAIN contracts' = DOMAIN contracts \cup {vault, settlement}
         /\ contracts'[vault] = v /\ contracts'[settlement] = s
         /\ \A a \in DOMAIN contracts : contracts'[a] = contracts[a]
<1>1. PICK withVault : withVault = Stored(contracts, vault, v)
  OBVIOUS
<1>2. /\ DOMAIN withVault = DOMAIN contracts \cup {vault}
      /\ withVault[vault] = v
      /\ \A a \in DOMAIN contracts : a # vault => withVault[a] = contracts[a]
  BY <1>1 DEF Stored
<1>3. contracts' = Stored(withVault, settlement, s)
  BY <1>1 DEF Deploy
<1>4. /\ DOMAIN contracts' = DOMAIN withVault \cup {settlement}
      /\ contracts'[settlement] = s
      /\ \A a \in DOMAIN withVault : a # settlement => contracts'[a] = withVault[a]
  BY <1>3 DEF Stored
<1>5. vault \notin DOMAIN contracts /\ settlement \notin DOMAIN contracts
  BY DEF Vacant
<1> QED BY <1>2, <1>4, <1>5

\* Nothing that was deployed is ever replaced.
Kept == \A a \in DOMAIN contracts : a \in DOMAIN contracts' /\ contracts'[a] = contracts[a]

-----------------------------------------------------------------------------
(* The base factory and that of the claimable instruments.                 *)

\* A settlement runs the deadlines, and its vault holds the asset, of the
\* configuration behind a hash.
OfConfig(settlement, hash) ==
  /\ settlement \in DOMAIN contracts
  /\ contracts[settlement].vault \in DOMAIN contracts
  /\ contracts[settlement].deadlines = hash[3]
  /\ contracts[contracts[settlement].vault].token = hash[2]

\* What the registry of the base factory says of an instrument.
InstrumentOK(id) ==
  LET instrument == instruments[id]
      type == types[instrument.typeId]
  IN  /\ instrument.typeId \in DOMAIN types
      /\ id = <<instrument.typeId, type.version, instrument.configHash>>
      /\ Bound(instrument.vault, instrument.settlement)
      /\ contracts[instrument.settlement].image = type.image
      /\ contracts[instrument.settlement].wasm = type.settlementWasm
      /\ contracts[instrument.vault].wasm = type.vaultWasm
      /\ OfConfig(instrument.settlement, id[3])

ClaimInstrumentOK(id) == OfConfig(claimInstruments[id].settlement, id[3])

RegistryInv ==
  /\ \A id \in DOMAIN instruments : InstrumentOK(id)
  /\ \A id \in DOMAIN claimInstruments : ClaimInstrumentOK(id)

\* An entry that stays, of a type that stays, says of the family what it said.
LEMMA InstrumentStays ==
  ASSUME Kept, NEW id, InstrumentOK(id), instruments'[id] = instruments[id],
         \A t \in DOMAIN types : t \in DOMAIN types' /\ types'[t] = types[t]
  PROVE  InstrumentOK(id)'
<1> DEFINE i == instruments[id]
<1>1. /\ i.typeId \in DOMAIN types /\ types'[i.typeId] = types[i.typeId]
      /\ i.typeId \in DOMAIN types'
  BY DEF InstrumentOK
<1>2. /\ i.vault \in DOMAIN contracts /\ i.settlement \in DOMAIN contracts
      /\ contracts[i.settlement].vault = i.vault
  BY DEF InstrumentOK, Bound
<1>3. /\ i.vault \in DOMAIN contracts' /\ contracts'[i.vault] = contracts[i.vault]
      /\ i.settlement \in DOMAIN contracts'
      /\ contracts'[i.settlement] = contracts[i.settlement]
  BY <1>2 DEF Kept
<1>4. instruments'[id] = i
  OBVIOUS
<1> HIDE DEF i
<1>5. /\ id = <<i.typeId, types[i.typeId].version, i.configHash>>
      /\ contracts[i.vault].settlement = i.settlement
      /\ contracts[i.settlement].image = types[i.typeId].image
      /\ contracts[i.settlement].wasm = types[i.typeId].settlementWasm
      /\ contracts[i.vault].wasm = types[i.typeId].vaultWasm
      /\ contracts[i.settlement].deadlines = id[3][3]
      /\ contracts[i.vault].token = id[3][2]
  BY <1>2 DEF InstrumentOK, Bound, OfConfig, i
<1> QED BY <1>1, <1>2, <1>3, <1>4, <1>5 DEF InstrumentOK, Bound, OfConfig

LEMMA ClaimInstrumentStays ==
  ASSUME Kept, NEW id, ClaimInstrumentOK(id), claimInstruments'[id] = claimInstruments[id]
  PROVE  ClaimInstrumentOK(id)'
BY DEF Kept, ClaimInstrumentOK, OfConfig

LEMMA DeployInstrumentInv ==
  ASSUME RegistryInv, NEW typeId, NEW config, DeployInstrument(typeId, config),
         UNCHANGED claimFactoryVars
  PROVE  RegistryInv' /\ Kept
<1>1. PICK type : type = types[typeId]
  OBVIOUS
<1>2. PICK id : id = InstrumentId(typeId, type.version, config)
  OBVIOUS
<1>3. PICK vault, settlement : /\ vault = Address("factory", id, 0)
                               /\ settlement = Address("factory", id, 1)
  OBVIOUS
<1>4. PICK v : v = [wasm |-> type.vaultWasm, settlement |-> settlement,
                    token |-> config.token]
  OBVIOUS
<1>5. PICK s : s = [wasm |-> type.settlementWasm, image |-> type.image, id |-> id,
                    vault |-> vault, deadlines |-> config.deadlines]
  OBVIOUS
<1>6. PICK entry : entry = [typeId |-> typeId, vault |-> vault, settlement |-> settlement,
                            configHash |-> HashConfig(config)]
  OBVIOUS
<1>7. /\ typeId \in DOMAIN types
      /\ Vacant({vault, settlement})
      /\ contracts' = Deploy(Deploy(contracts, vault, v), settlement, s)
      /\ instruments' = Stored(instruments, id, entry)
      /\ types' = types
  BY <1>1, <1>2, <1>3, <1>4, <1>5, <1>6 DEF DeployInstrument
<1>8. vault # settlement
  BY <1>3 DEF Address
<1>9. /\ id = <<typeId, type.version, HashConfig(config)>>
      /\ id[3] = HashConfig(config)
      /\ id[3][2] = config.token /\ id[3][3] = config.deadlines
  BY <1>2 DEF InstrumentId, HashConfig
<1>10. /\ v.wasm = type.vaultWasm /\ v.settlement = settlement /\ v.token = config.token
       /\ s.wasm = type.settlementWasm /\ s.image = type.image /\ s.vault = vault
       /\ s.deadlines = config.deadlines
       /\ entry.typeId = typeId /\ entry.vault = vault /\ entry.settlement = settlement
       /\ entry.configHash = HashConfig(config)
  BY <1>4, <1>5, <1>6
<1>11. /\ DOMAIN contracts' = DOMAIN contracts \cup {vault, settlement}
       /\ contracts'[vault] = v /\ contracts'[settlement] = s
       /\ \A a \in DOMAIN contracts : contracts'[a] = contracts[a]
  BY <1>7, <1>8, PairDeployed
<1>12. Kept
  BY <1>11 DEF Kept
<1>13. /\ DOMAIN instruments' = DOMAIN instruments \cup {id}
       /\ instruments'[id] = entry
       /\ \A x \in DOMAIN instruments : x # id => instruments'[x] = instruments[x]
  BY <1>7 DEF Stored
<1>14. InstrumentOK(id)'
  <2>1. Bound(vault, settlement)'
    BY <1>10, <1>11 DEF Bound
  <2>2. OfConfig(settlement, id[3])'
    BY <1>9, <1>10, <1>11 DEF OfConfig
  <2>3. types'[typeId] = type
    BY <1>1, <1>7
  <2> QED BY <1>7, <1>9, <1>10, <1>11, <1>13, <2>1, <2>2, <2>3 DEF InstrumentOK
<1>15. \A x \in DOMAIN instruments' : InstrumentOK(x)'
  <2>1. ASSUME NEW x \in DOMAIN instruments, x # id PROVE InstrumentOK(x)'
    BY <1>7, <1>12, <1>13, <2>1, InstrumentStays DEF RegistryInv
  <2> QED BY <1>13, <1>14, <2>1
<1>16. \A x \in DOMAIN claimInstruments' : ClaimInstrumentOK(x)'
  BY <1>12, ClaimInstrumentStays DEF RegistryInv, claimFactoryVars
<1> QED BY <1>12, <1>15, <1>16 DEF RegistryInv

LEMMA DeployClaimableInv ==
  ASSUME RegistryInv, NEW typeId, NEW config, DeployClaimable(typeId, config),
         UNCHANGED factoryVars
  PROVE  RegistryInv' /\ Kept
<1>1. PICK type : type = claimTypes[typeId]
  OBVIOUS
<1>2. PICK id : id = ClaimId(typeId, type.version, config)
  OBVIOUS
<1>3. PICK vault, settlement : /\ vault = Address("claim_factory", id, 0)
                               /\ settlement = Address("claim_factory", id, 2)
  OBVIOUS
<1>4. PICK v : v = [wasm |-> ClaimWasms.vault, settlement |-> settlement,
                    token |-> config.token]
  OBVIOUS
<1>5. PICK s : s = [wasm |-> ClaimWasms.settlement, image |-> type.settleImage,
                    claimImage |-> type.claimImage, id |-> id, vault |-> vault,
                    deadlines |-> config.deadlines, grace |-> type.grace]
  OBVIOUS
<1>6. PICK entry : entry = [typeId |-> typeId, vault |-> vault, settlement |-> settlement,
                            configHash |-> HashConfig(config)]
  OBVIOUS
<1>7. /\ Vacant({vault, settlement})
      /\ contracts' = Deploy(Deploy(contracts, vault, v), settlement, s)
      /\ claimInstruments' = Stored(claimInstruments, id, entry)
  BY <1>1, <1>2, <1>3, <1>4, <1>5, <1>6 DEF DeployClaimable
<1>8. vault # settlement
  BY <1>3 DEF Address
<1>9. id[3][2] = config.token /\ id[3][3] = config.deadlines
  BY <1>2 DEF ClaimId, InstrumentId, HashConfig
<1>10. /\ v.token = config.token /\ s.vault = vault /\ s.deadlines = config.deadlines
       /\ entry.settlement = settlement
  BY <1>4, <1>5, <1>6
<1>11. /\ DOMAIN contracts' = DOMAIN contracts \cup {vault, settlement}
       /\ contracts'[vault] = v /\ contracts'[settlement] = s
       /\ \A a \in DOMAIN contracts : contracts'[a] = contracts[a]
  BY <1>7, <1>8, PairDeployed
<1>12. Kept
  BY <1>11 DEF Kept
<1>13. /\ DOMAIN claimInstruments' = DOMAIN claimInstruments \cup {id}
       /\ claimInstruments'[id] = entry
       /\ \A x \in DOMAIN claimInstruments :
            x # id => claimInstruments'[x] = claimInstruments[x]
  BY <1>7 DEF Stored
<1>14. ClaimInstrumentOK(id)'
  BY <1>9, <1>10, <1>11, <1>13 DEF ClaimInstrumentOK, OfConfig
<1>15. \A x \in DOMAIN claimInstruments' : ClaimInstrumentOK(x)'
  <2>1. ASSUME NEW x \in DOMAIN claimInstruments, x # id PROVE ClaimInstrumentOK(x)'
    BY <1>12, <1>13, <2>1, ClaimInstrumentStays DEF RegistryInv
  <2> QED BY <1>13, <1>14, <2>1
<1>16. \A x \in DOMAIN instruments' : InstrumentOK(x)'
  BY <1>12, InstrumentStays DEF RegistryInv, factoryVars
<1> QED BY <1>12, <1>15, <1>16 DEF RegistryInv

\* A step that leaves both registries as they are and deploys over nothing.
LEMMA RegistriesStay ==
  ASSUME RegistryInv, Kept, UNCHANGED <<instruments, claimInstruments>>,
         \A t \in DOMAIN types : t \in DOMAIN types' /\ types'[t] = types[t]
  PROVE  RegistryInv'
BY InstrumentStays, ClaimInstrumentStays DEF RegistryInv

-----------------------------------------------------------------------------
(* The tiered factory.                                                     *)

\* Three contracts deployed one after the other at vacant addresses.
LEMMA TripleDeployed ==
  ASSUME NEW vault, NEW settlement, NEW router, Vacant({vault, settlement, router}),
         vault # settlement, vault # router, settlement # router, NEW v, NEW s, NEW r,
         contracts' = Deploy(Deploy(Deploy(contracts, vault, v), settlement, s), router, r)
  PROVE  /\ DOMAIN contracts' = DOMAIN contracts \cup {vault, settlement, router}
         /\ contracts'[vault] = v /\ contracts'[settlement] = s /\ contracts'[router] = r
         /\ \A a \in DOMAIN contracts : contracts'[a] = contracts[a]
<1>1. PICK withVault : withVault = Stored(contracts, vault, v)
  OBVIOUS
<1>2. PICK withBoth : withBoth = Stored(withVault, settlement, s)
  OBVIOUS
<1>3. /\ DOMAIN withVault = DOMAIN contracts \cup {vault}
      /\ withVault[vault] = v
      /\ \A a \in DOMAIN contracts : a # vault => withVault[a] = contracts[a]
  BY <1>1 DEF Stored
<1>4. /\ DOMAIN withBoth = DOMAIN withVault \cup {settlement}
      /\ withBoth[settlement] = s
      /\ \A a \in DOMAIN withVault : a # settlement => withBoth[a] = withVault[a]
  BY <1>2 DEF Stored
<1>5. contracts' = Stored(withBoth, router, r)
  BY <1>1, <1>2 DEF Deploy
<1>6. /\ DOMAIN contracts' = DOMAIN withBoth \cup {router}
      /\ contracts'[router] = r
      /\ \A a \in DOMAIN withBoth : a # router => contracts'[a] = withBoth[a]
  BY <1>5 DEF Stored
<1>7. /\ vault \notin DOMAIN contracts /\ settlement \notin DOMAIN contracts
      /\ router \notin DOMAIN contracts
  BY DEF Vacant
<1> QED BY <1>3, <1>4, <1>6, <1>7

\* What the registry says of a protected family, and of a tranched one.
ProtectedOK(id) ==
  LET family == protected[id]
  IN  /\ family.tier \in DOMAIN tiers
      /\ family.vault = Address("yield_factory", id, 0)
      /\ Bound(family.vault, family.settlement)
      /\ family.router \in DOMAIN contracts
      /\ InBand(family.tier, contracts[family.vault].premium)
      /\ contracts[family.vault].haircut = tiers[family.tier].haircut
      /\ contracts[family.vault].router = family.router
      /\ contracts[family.router].vault = family.vault
      /\ contracts[family.router].premium = contracts[family.vault].premium

TranchedOK(id) ==
  LET family == tranched[id]
  IN  /\ family.tier \in DOMAIN tiers
      /\ family.vault = Address("yield_factory", id, 3)
      /\ family.vault \in DOMAIN contracts
      /\ InBand(family.tier, contracts[family.vault].premium)

\* The counter of a tier is the number of its families.
CountHolds(t) ==
  /\ IsFiniteSet(FamiliesIn(t))
  /\ tierCount[t] = Cardinality(FamiliesIn(t))

TierInv ==
  /\ DOMAIN tierCount = TierIds
  /\ \A id \in DOMAIN protected : ProtectedOK(id)
  /\ \A id \in DOMAIN tranched : TranchedOK(id)
  /\ \A t \in TierIds : CountHolds(t)

TiersKept == \A t \in DOMAIN tiers : t \in DOMAIN tiers' /\ tiers'[t] = tiers[t]

LEMMA ProtectedStays ==
  ASSUME Kept, TiersKept, NEW id, ProtectedOK(id), protected'[id] = protected[id]
  PROVE  ProtectedOK(id)'
<1>1. PICK f : f = protected[id]
  OBVIOUS
<1>2. /\ f.tier \in DOMAIN tiers' /\ tiers'[f.tier] = tiers[f.tier]
  BY <1>1 DEF ProtectedOK, TiersKept
<1>3. /\ f.vault \in DOMAIN contracts' /\ contracts'[f.vault] = contracts[f.vault]
      /\ f.settlement \in DOMAIN contracts'
      /\ contracts'[f.settlement] = contracts[f.settlement]
      /\ f.router \in DOMAIN contracts' /\ contracts'[f.router] = contracts[f.router]
  BY <1>1 DEF ProtectedOK, Bound, Kept
<1>4. /\ f.vault = Address("yield_factory", id, 0)
      /\ contracts[f.vault].settlement = f.settlement
      /\ contracts[f.settlement].vault = f.vault
      /\ tiers[f.tier].min <= contracts[f.vault].premium
      /\ contracts[f.vault].premium <= tiers[f.tier].max
      /\ contracts[f.vault].haircut = tiers[f.tier].haircut
      /\ contracts[f.vault].router = f.router
      /\ contracts[f.router].vault = f.vault
      /\ contracts[f.router].premium = contracts[f.vault].premium
  BY <1>1 DEF ProtectedOK, Bound, InBand
<1>5. protected'[id] = f
  BY <1>1
<1> QED BY <1>2, <1>3, <1>4, <1>5 DEF ProtectedOK, Bound, InBand

LEMMA TranchedStays ==
  ASSUME Kept, TiersKept, NEW id, TranchedOK(id), tranched'[id] = tranched[id]
  PROVE  TranchedOK(id)'
<1>1. PICK f : f = tranched[id]
  OBVIOUS
<1>2. /\ f.tier \in DOMAIN tiers' /\ tiers'[f.tier] = tiers[f.tier]
      /\ f.vault \in DOMAIN contracts' /\ contracts'[f.vault] = contracts[f.vault]
  BY <1>1 DEF TranchedOK, TiersKept, Kept
<1>3. /\ f.vault = Address("yield_factory", id, 3)
      /\ tiers[f.tier].min <= contracts[f.vault].premium
      /\ contracts[f.vault].premium <= tiers[f.tier].max
  BY <1>1 DEF TranchedOK, InBand
<1>4. tranched'[id] = f
  BY <1>1
<1> QED BY <1>2, <1>3, <1>4 DEF TranchedOK, InBand

\* The vaults of the families are deployed.
LEMMA FamiliesDeployed ==
  ASSUME TierInv, NEW t
  PROVE  FamiliesIn(t) \subseteq DOMAIN contracts
BY DEF TierInv, ProtectedOK, TranchedOK, Bound, FamiliesIn

\* One more family, at an address where there was none, is one more to count.
LEMMA CountGrows ==
  ASSUME TierInv, NEW t \in TierIds, NEW vault, vault \notin DOMAIN contracts,
         tierCount' = Counted(t),
         FamiliesIn(t)' = FamiliesIn(t) \cup {vault},
         \A u \in TierIds \ {t} : FamiliesIn(u)' = FamiliesIn(u)
  PROVE  DOMAIN tierCount' = TierIds /\ \A u \in TierIds : CountHolds(u)'
<1>1. DOMAIN tierCount = TierIds
  BY DEF TierInv
<1>2. /\ DOMAIN tierCount' = TierIds /\ tierCount'[t] = tierCount[t] + 1
      /\ \A u \in TierIds \ {t} : tierCount'[u] = tierCount[u]
  BY <1>1 DEF Counted
<1>3. CountHolds(t)'
  <2>1. PICK F : F = FamiliesIn(t)
    OBVIOUS
  <2>2. IsFiniteSet(F) /\ tierCount[t] = Cardinality(F) /\ vault \notin F
    BY <2>1, FamiliesDeployed DEF TierInv, CountHolds
  <2>3. IsFiniteSet(F \cup {vault}) /\ Cardinality(F \cup {vault}) = Cardinality(F) + 1
    BY <2>2, FS_AddElement
  <2> QED BY <1>2, <2>1, <2>2, <2>3 DEF CountHolds
<1>4. ASSUME NEW u \in TierIds, u # t PROVE CountHolds(u)'
  BY <1>2, <1>4 DEF TierInv, CountHolds
<1> QED BY <1>2, <1>3, <1>4

LEMMA DeployProtectedInv ==
  ASSUME TierInv, NEW t \in TierIds, NEW config, DeployProtected(t, config)
  PROVE  TierInv' /\ Kept
<1>1. PICK id : id = config.id
  OBVIOUS
<1>2. PICK vault, settlement, router : /\ vault = Address("yield_factory", id, 0)
                                       /\ settlement = Address("yield_factory", id, 1)
                                       /\ router = Address("yield_factory", id, 2)
  OBVIOUS
<1>3. PICK v : v = [wasm |-> YieldWasms.vault, settlement |-> settlement,
                    premium |-> config.premium, haircut |-> tiers[t].haircut,
                    router |-> router]
  OBVIOUS
<1>4. PICK s : s = [wasm |-> YieldWasms.settlement, image |-> config.image, id |-> id,
                    vault |-> vault, deadlines |-> config.deadlines]
  OBVIOUS
<1>5. PICK r : r = [wasm |-> YieldWasms.router, vault |-> vault,
                    premium |-> config.premium, distFee |-> config.distFee]
  OBVIOUS
<1>6. PICK entry : entry = [tier |-> t, vault |-> vault, settlement |-> settlement,
                            router |-> router, premium |-> config.premium]
  OBVIOUS
<1>7. /\ t \in DOMAIN tiers /\ InBand(t, config.premium)
      /\ Vacant({vault, settlement, router})
      /\ contracts' = Deploy(Deploy(Deploy(contracts, vault, v), settlement, s), router, r)
      /\ protected' = Stored(protected, id, entry)
      /\ tierCount' = Counted(t) /\ tiers' = tiers /\ tranched' = tranched
  BY <1>1, <1>2, <1>3, <1>4, <1>5, <1>6 DEF DeployProtected
<1>8. vault # settlement /\ vault # router /\ settlement # router
  BY <1>2 DEF Address
<1>9. /\ DOMAIN contracts' = DOMAIN contracts \cup {vault, settlement, router}
      /\ contracts'[vault] = v /\ contracts'[settlement] = s /\ contracts'[router] = r
      /\ \A a \in DOMAIN contracts : contracts'[a] = contracts[a]
  BY <1>7, <1>8, TripleDeployed
<1>10. Kept /\ TiersKept
  BY <1>7, <1>9 DEF Kept, TiersKept
<1>11. vault \notin DOMAIN contracts
  BY <1>7 DEF Vacant
<1>12. id \notin DOMAIN protected
  BY <1>2, <1>11 DEF TierInv, ProtectedOK, Bound
<1>13. /\ DOMAIN protected' = DOMAIN protected \cup {id}
       /\ protected'[id] = entry
       /\ \A x \in DOMAIN protected : x # id => protected'[x] = protected[x]
  BY <1>7 DEF Stored
<1>14. ProtectedOK(id)'
  <2>1. /\ entry.tier = t /\ entry.vault = vault /\ entry.settlement = settlement
        /\ entry.router = router
    BY <1>6
  <2>2. /\ v.settlement = settlement /\ v.premium = config.premium
        /\ v.haircut = tiers[t].haircut /\ v.router = router
        /\ s.vault = vault /\ r.vault = vault /\ r.premium = config.premium
    BY <1>3, <1>4, <1>5
  <2>3. Bound(vault, settlement)'
    BY <1>9, <2>2 DEF Bound
  <2>4. /\ tiers[t].min <= v.premium /\ v.premium <= tiers[t].max
    BY <1>7, <2>2 DEF InBand
  <2>5. InBand(t, v.premium)'
    BY <1>7, <2>4 DEF InBand
  <2> QED BY <1>2, <1>7, <1>9, <1>13, <2>1, <2>2, <2>3, <2>5 DEF ProtectedOK
<1>15. \A x \in DOMAIN protected' : ProtectedOK(x)'
  <2>1. ASSUME NEW x \in DOMAIN protected PROVE ProtectedOK(x)'
    BY <1>10, <1>12, <1>13, ProtectedStays DEF TierInv
  <2> QED BY <1>13, <1>14, <2>1
<1>16. \A x \in DOMAIN tranched' : TranchedOK(x)'
  BY <1>7, <1>10, TranchedStays DEF TierInv
<1>17. /\ FamiliesIn(t)' = FamiliesIn(t) \cup {vault}
       /\ \A u \in TierIds \ {t} : FamiliesIn(u)' = FamiliesIn(u)
  <2>1. entry.tier = t /\ entry.vault = vault
    BY <1>6
  <2> QED BY <1>7, <1>12, <1>13, <2>1 DEF FamiliesIn
<1>18. DOMAIN tierCount' = TierIds /\ \A u \in TierIds : CountHolds(u)'
  BY <1>7, <1>11, <1>17, CountGrows
<1> QED BY <1>10, <1>15, <1>16, <1>18 DEF TierInv

LEMMA DeployTranchedInv ==
  ASSUME TierInv, NEW t \in TierIds, NEW config, DeployTranched(t, config)
  PROVE  TierInv' /\ Kept
<1>1. PICK id : id = config.id
  OBVIOUS
<1>2. PICK vault, settlement : /\ vault = Address("yield_factory", id, 3)
                               /\ settlement = Address("yield_factory", id, 4)
  OBVIOUS
<1>3. PICK v : v = [wasm |-> tranchedWasm, settlement |-> settlement,
                    premium |-> config.premium, weights |-> config.weights]
  OBVIOUS
<1>4. PICK s : s = [wasm |-> YieldWasms.settlement, image |-> config.image, id |-> id,
                    vault |-> vault, deadlines |-> config.deadlines]
  OBVIOUS
<1>5. PICK entry : entry = [tier |-> t, vault |-> vault, settlement |-> settlement,
                            premium |-> config.premium,
                            numTranches |-> Len(config.weights)]
  OBVIOUS
<1>6. /\ t \in DOMAIN tiers /\ InBand(t, config.premium)
      /\ Vacant({vault, settlement})
      /\ contracts' = Deploy(Deploy(contracts, vault, v), settlement, s)
      /\ tranched' = Stored(tranched, id, entry)
      /\ tierCount' = Counted(t) /\ tiers' = tiers /\ protected' = protected
  BY <1>1, <1>2, <1>3, <1>4, <1>5 DEF DeployTranched
<1>7. vault # settlement
  BY <1>2 DEF Address
<1>8. /\ DOMAIN contracts' = DOMAIN contracts \cup {vault, settlement}
      /\ contracts'[vault] = v /\ contracts'[settlement] = s
      /\ \A a \in DOMAIN contracts : contracts'[a] = contracts[a]
  BY <1>6, <1>7, PairDeployed
<1>9. Kept /\ TiersKept
  BY <1>6, <1>8 DEF Kept, TiersKept
<1>10. vault \notin DOMAIN contracts
  BY <1>6 DEF Vacant
<1>11. id \notin DOMAIN tranched
  BY <1>2, <1>10 DEF TierInv, TranchedOK
<1>12. /\ DOMAIN tranched' = DOMAIN tranched \cup {id}
       /\ tranched'[id] = entry
       /\ \A x \in DOMAIN tranched : x # id => tranched'[x] = tranched[x]
  BY <1>6 DEF Stored
<1>13. entry.tier = t /\ entry.vault = vault /\ v.premium = config.premium
  BY <1>3, <1>5
<1>14. TranchedOK(id)'
  <2>1. tiers[t].min <= v.premium /\ v.premium <= tiers[t].max
    BY <1>6, <1>13 DEF InBand
  <2>2. InBand(t, v.premium)'
    BY <1>6, <2>1 DEF InBand
  <2> QED BY <1>2, <1>6, <1>8, <1>12, <1>13, <2>2 DEF TranchedOK
<1>15. \A x \in DOMAIN tranched' : TranchedOK(x)'
  <2>1. ASSUME NEW x \in DOMAIN tranched PROVE TranchedOK(x)'
    BY <1>9, <1>11, <1>12, TranchedStays DEF TierInv
  <2> QED BY <1>12, <1>14, <2>1
<1>16. \A x \in DOMAIN protected' : ProtectedOK(x)'
  BY <1>6, <1>9, ProtectedStays DEF TierInv
<1>17. /\ FamiliesIn(t)' = FamiliesIn(t) \cup {vault}
       /\ \A u \in TierIds \ {t} : FamiliesIn(u)' = FamiliesIn(u)
  BY <1>6, <1>11, <1>12, <1>13 DEF FamiliesIn
<1>18. DOMAIN tierCount' = TierIds /\ \A u \in TierIds : CountHolds(u)'
  BY <1>6, <1>10, <1>17, CountGrows
<1> QED BY <1>9, <1>15, <1>16, <1>18 DEF TierInv

\* A step that leaves the families as they are and deploys over nothing.
LEMMA FamiliesStay ==
  ASSUME TierInv, Kept, TiersKept, UNCHANGED <<tierCount, protected, tranched>>
  PROVE  TierInv'
<1>1. \A id \in DOMAIN protected' : ProtectedOK(id)'
  BY ProtectedStays DEF TierInv
<1>2. \A id \in DOMAIN tranched' : TranchedOK(id)'
  BY TranchedStays DEF TierInv
<1>3. \A t \in TierIds : CountHolds(t)'
  BY DEF TierInv, CountHolds, FamiliesIn
<1> QED BY <1>1, <1>2, <1>3 DEF TierInv

\* Registering, a type or a tier, deploys nothing and replaces nothing.
LEMMA TypesKept ==
  ASSUME NEW typeId, NEW entry, RegisterType(typeId, entry)
  PROVE  \A t \in DOMAIN types : t \in DOMAIN types' /\ types'[t] = types[t]
BY DEF RegisterType, NewType, Stored

LEMMA TierRegistered ==
  ASSUME NEW t, NEW band, RegisterTier(t, band)
  PROVE  TiersKept
BY DEF RegisterTier, NewTier, Stored, TiersKept

-----------------------------------------------------------------------------
FactoriesInv == RegistryInv /\ TierInv

LEMMA InitFactoriesInv == FactoriesInit => FactoriesInv
<1> SUFFICES ASSUME FactoriesInit PROVE FactoriesInv
  OBVIOUS
<1>1. RegistryInv
  BY DEF FactoriesInit, FactoryInit, ClaimFactoryInit, RegistryInv
<1>2. /\ DOMAIN tierCount = TierIds /\ \A t \in TierIds : tierCount[t] = 0
      /\ DOMAIN protected = {} /\ DOMAIN tranched = {}
  BY DEF FactoriesInit, YieldFactoryInit
<1>3. ASSUME NEW t \in TierIds PROVE CountHolds(t)
  <2>1. FamiliesIn(t) = {}
    BY <1>2 DEF FamiliesIn
  <2> QED BY <1>2, <2>1, FS_EmptySet DEF CountHolds
<1> QED BY <1>1, <1>2, <1>3 DEF FactoriesInv, TierInv

LEMMA NextFactoriesInv == FactoriesInv /\ [FactoriesNext]_factoriesVars => FactoriesInv'
<1> SUFFICES ASSUME FactoriesInv, [FactoriesNext]_factoriesVars PROVE FactoriesInv'
  OBVIOUS
<1> USE DEF FactoriesInv
<1>1. CASE UNCHANGED factoriesVars
  <2>1. UNCHANGED <<contracts, types, instruments, claimInstruments, tiers, tierCount,
                    protected, tranched>>
    BY <1>1 DEF factoriesVars, registryVars, factoryVars, claimFactoryVars,
                yieldFactoryVars
  <2>2. Kept /\ TiersKept
    BY <2>1 DEF Kept, TiersKept
  <2> QED BY <2>1, <2>2, RegistriesStay, FamiliesStay
<1>2. ASSUME FactoryNext, UNCHANGED <<claimFactoryVars, yieldFactoryVars>>
      PROVE FactoriesInv'
  <2>1. /\ UNCHANGED claimFactoryVars /\ UNCHANGED claimInstruments
        /\ UNCHANGED <<tierCount, protected, tranched>>
    BY <1>2 DEF claimFactoryVars, yieldFactoryVars
  <2>2. TiersKept
    BY <1>2 DEF TiersKept, yieldFactoryVars
  <2>3. ASSUME NEW typeId, NEW entry, RegisterType(typeId, entry) PROVE RegistryInv' /\ Kept
    <3>1. Kept /\ UNCHANGED instruments
      BY <2>3 DEF RegisterType, Kept
    <3> QED BY <2>1, <2>3, <3>1, TypesKept, RegistriesStay
  <2>4. ASSUME NEW token, NEW flag, SetCollateralEligible(token, flag)
        PROVE  RegistryInv' /\ Kept
    <3>1. Kept /\ UNCHANGED <<instruments, types>>
      BY <2>4 DEF SetCollateralEligible, Kept
    <3> QED BY <2>1, <3>1, RegistriesStay
  <2>5. RegistryInv' /\ Kept
    BY <1>2, <2>1, <2>3, <2>4, DeployInstrumentInv DEF FactoryNext
  <2> QED BY <2>1, <2>2, <2>5, FamiliesStay
<1>3. ASSUME ClaimFactoryNext, UNCHANGED <<factoryVars, yieldFactoryVars>>
      PROVE FactoriesInv'
  <2>1. /\ UNCHANGED factoryVars /\ UNCHANGED <<instruments, types>>
        /\ UNCHANGED <<tierCount, protected, tranched>>
    BY <1>3 DEF factoryVars, yieldFactoryVars
  <2>2. TiersKept
    BY <1>3 DEF TiersKept, yieldFactoryVars
  <2>3. ASSUME NEW typeId, NEW entry, RegisterClaimableType(typeId, entry)
        PROVE  RegistryInv' /\ Kept
    <3>1. Kept /\ UNCHANGED claimInstruments
      BY <2>3 DEF RegisterClaimableType, Kept
    <3> QED BY <2>1, <3>1, RegistriesStay
  <2>4. ASSUME NEW token, NEW flag, SetClaimEligible(token, flag) PROVE RegistryInv' /\ Kept
    <3>1. Kept /\ UNCHANGED claimInstruments
      BY <2>4 DEF SetClaimEligible, Kept
    <3> QED BY <2>1, <3>1, RegistriesStay
  <2>5. RegistryInv' /\ Kept
    BY <1>3, <2>1, <2>3, <2>4, DeployClaimableInv DEF ClaimFactoryNext
  <2> QED BY <2>1, <2>2, <2>5, FamiliesStay
<1>4. ASSUME YieldFactoryNext, UNCHANGED registryVars PROVE FactoriesInv'
  <2>1. UNCHANGED <<types, instruments, claimInstruments>>
    BY <1>4 DEF registryVars, factoryVars, claimFactoryVars
  <2>2. ASSUME NEW t, NEW band, RegisterTier(t, band) PROVE TierInv' /\ Kept
    <3>1. Kept /\ UNCHANGED <<tierCount, protected, tranched>>
      BY <2>2 DEF RegisterTier, Kept
    <3> QED BY <2>2, <3>1, TierRegistered, FamiliesStay
  <2>3. ASSUME NEW wasm, SetTranchedWasm(wasm) PROVE TierInv' /\ Kept
    <3>1. Kept /\ TiersKept /\ UNCHANGED <<tierCount, protected, tranched>>
      BY <2>3 DEF SetTranchedWasm, Kept, TiersKept
    <3> QED BY <3>1, FamiliesStay
  <2>4. TierInv' /\ Kept
    BY <1>4, <2>2, <2>3, DeployProtectedInv, DeployTranchedInv DEF YieldFactoryNext
  <2> QED BY <2>1, <2>4, RegistriesStay
<1> QED BY <1>1, <1>2, <1>3, <1>4 DEF FactoriesNext

\* What the registries say of the families they list is so, in every state.
THEOREM FactoriesInvHolds == FactoriesSpec => []FactoriesInv
<1> QED BY InitFactoriesInv, NextFactoriesInv, PTL DEF FactoriesSpec

\* A deployed instrument runs on the guest and code of the type it was deployed as,
\* and its vault and settlement are bound to each other, whatever the admins of the
\* three factories register afterwards (DeployInstrument, RegisterType).
THEOREM PinnedToTypeHolds == FactoriesSpec => []PinnedToType
<1>1. FactoriesInv => PinnedToType
  BY DEF FactoriesInv, RegistryInv, InstrumentOK, PinnedToType
<1> QED BY <1>1, FactoriesInvHolds, PTL

\* An id names one configuration across the two factories that derive it in the
\* same way, so a proof for it is a proof about the same deadlines and asset
\* wherever it is submitted (InstrumentId, DeployInstrument, DeployClaimable).
THEOREM IdNamesOneConfigHolds == FactoriesSpec => []IdNamesOneConfig
<1>1. ASSUME FactoriesInv, NEW id, NEW x \in Named(id) PROVE OfConfig(x, id[3])
  BY <1>1 DEF FactoriesInv, RegistryInv, InstrumentOK, ClaimInstrumentOK, Named
<1>2. FactoriesInv => IdNamesOneConfig
  BY <1>1 DEF IdNamesOneConfig, OfConfig
<1> QED BY <1>2, FactoriesInvHolds, PTL

\* The families of a tier are priced within its band, for good, with its haircut;
\* the counter of the tier is their number, the two kinds together; and the router
\* of a protected family charges what its vault expects (RegisterTier,
\* DeployProtected, DeployTranched).
THEOREM TiersHoldAlways == FactoriesSpec => []TiersHold
<1>1. ASSUME FactoriesInv, NEW t \in DOMAIN tiers, NEW v \in FamiliesIn(t)
      PROVE  InBand(t, contracts[v].premium)
  BY <1>1 DEF FactoriesInv, TierInv, ProtectedOK, TranchedOK, FamiliesIn
<1>2. FactoriesInv => TiersHold
  BY <1>1 DEF FactoriesInv, TierInv, CountHolds, ProtectedOK, TiersHold
<1> QED BY <1>2, FactoriesInvHolds, PTL
=============================================================================
