# Parallar in TLA+

Parallar sells protection on tokenized bonds on Stellar/Soroban. Sellers lock
collateral in a vault, buyers add commitments to the vault's book, and when a
coupon is missed anybody may prove it from the public payment history (a RISC
Zero guest) and submit the proof to a settlement contract, which pays the whole
book out of the vault. This directory models the contracts, the guests and the
keepers between them, model-checks them with TLC and proves the main safety
properties with TLAPS.

## The system

| part | source | state | operations |
|---|---|---|---|
| vault | contracts/vault | collateral pool, aggregate cover, accumulator of commitments, window flag, seller balances | deposit, buy_protection, withdraw, pay_allocations, set_window |
| settlement | contracts/settlement | deadline and settled flag per epoch, bindings | settle |
| claim_settlement | contracts/claim_settlement | the same, has-claims flag, claimed addresses, grace | settle, claim_direct |
| credit guests | prover/guests/settle_credit_v1, claim_credit_v1 | none (pure) | settle, claim |
| prover host | prover/host (history_builder.rs, main.rs) | files: scan, witness, artifact | history-builder, prove, submit |
| bond | contracts/bond | configuration | pay_coupon |
| yield_vault | contracts/yield_vault | vault + premium accumulator, protocol fee, routed cover | vault's + receive_premium, harvest_float, claims, set_routed_cover |
| yield_router | contracts/yield_router | pBOND supply and balances, net-coupon accumulator, distribution fee | wrap, unwrap, route_coupon, claims, transfer |
| factories | contracts/factory, claim_factory, yield_factory | registries of types, tiers, instruments | register, deploy |
| tranched_vault | contracts/tranched_vault | vault + collateral, shares and premium accumulator of each tranche | deposit, buy_protection, receive_premium, withdraw (by burning shares), pay_allocations, claims, set_window |
| confidential_vault | contracts/confidential_vault, guest solvency_v1 | vault with a commitment in place of the aggregate cover | deposit, buy_protection_proven, withdraw_proven, pay_allocations, claims, set_window |
| confidential_tranched_vault | contracts/confidential_tranched_vault | both | both |
| keeper | prover/host/src/keeper.rs, main.rs | a file with the opening of the hidden aggregate | keeper-init, keeper-buy, keeper-withdraw |
| other guests | settle_credit_v2, settle_credit_v3, settle_weather_v1 | none (pure) | attested histories, record dates, drought trigger |

Contracts call each other inside one transaction, which is atomic: settle calls
`vault.position_root` and `vault.pay_allocations`; the router calls
`receive_premium` and `set_routed_cover`. Everything else is asynchronous: a
proof takes minutes, and while it is made sellers and buyers call the vault,
coupons arrive and are clawed back, ledgers close and other keepers submit. The
book and the history a proof is about are therefore old when it is used. That
is where the hard behaviours are: stale proofs, double submission, the race of
keepers and claimants, reserves that change between a default and its payout,
and books (seller balances, aggregate cover, premium accumulators, wrapped
supply) that different calls update and that must stay in step.

What makes each part correct:

* vault: the tokens back the books, sellers and cover differ from the pool by
  what was paid out, a held window really holds;
* settlement: one payment per epoch, of what the history entitles to, to the
  book of that moment; every missed epoch is settled in the end;
* claim_settlement: settlement and claims exclude each other, nobody is paid
  twice, nobody can withhold a payout;
* yield_vault and yield_router: every pool is funded, cover sold through both
  doors stays under one floor, accruals survive changes of stake;
* tranched vault: losses hit the junior tranche first, shares keep their value
  except in a payout;
* confidential vaults and keeper: the aggregate nobody sees fits the reserve,
  whatever a keeper proves, after crashes and failed submissions too;
* attested and weather guests: a signature or a reading opens nothing but the
  epoch it is about, and what is paid is what the whole record entitles to;
* factories: a pair is bound to each other and to one configuration, once, and
  keeps the code, guest and tier it was deployed with.

## Modules

| module | models | notes |
|---|---|---|
| Sums | totals of money, allocation lists | a sum is the cardinality of its units, so that the finite-set theorems apply; MCVault compares it with a fold |
| Vault | the vault against any settlement | the public state of the contract, the token balances, and `paidOut`, a history variable |
| CreditGuest | settle_credit_v1 | pure operators: `Provable` is "the guest does not panic", `Journal` what it commits |
| Settlement | vault + settlement + guest + keepers + issuer | EXTENDS Vault and CreditGuest |
| Protection | the abstract instrument | what the instrument promises: each epoch pays at most once, after its deadline, the same fraction to every position of the book |
| ClaimGuest, ClaimSettlement | claim_credit_v1, claim_settlement | EXTENDS Settlement |
| AttestedGuest, WeatherGuest | settle_credit_v2 and v3, settle_weather_v1 | pure operators on CreditGuest |
| Family | the vault and settlement of Settlement under these three guests, with an issuer that signs and stations that report | EXTENDS Settlement; the rule is a variable that never changes, so one run holds all three |
| YieldVault, YieldRouter | yield_vault, yield_router on one coupon token | YieldRouter EXTENDS YieldVault |
| TranchedVault | tranched_vault against any settlement and admin | one record per tranche, one stake per seller and tranche |
| Solvency | solvency_v1 | both checks and their journals |
| ConfidentialVault | confidential_vault | actions take the journal of a proof; EXTENDED by Keeper, which says which journals exist |
| Keeper | keeper.rs and the keeper commands, over ConfidentialVault | the state file and the artifacts written so far |
| ConfidentialTranchedVault | confidential_tranched_vault | EXTENDS TranchedVault: the calls both contracts share are written once; the artifacts are all those the guest accepts for any opening so far |
| Deployer | deployment by salt | an address is deployed to once, or the transaction reverts |
| Factory, ClaimFactory, YieldFactory | the three factories | each against the ledger of Deployer |
| Factories | the three on one ledger | EXTENDS ClaimFactory (which has the base factory) and YieldFactory |
| SumsProofs | lemmas: totals, products and quotients, ledgers of stakes and their accruals | used by all that follow |
| SettlementProofs | Vault, CreditGuest, Settlement; that Settlement implements Protection | |
| OverpaymentProofs | what is paid, against the history: Settlement, and Family under all three guests | EXTENDS SettlementProofs |
| ClaimProofs | ClaimSettlement | EXTENDS SettlementProofs |
| YieldProofs | YieldVault and YieldRouter together | |
| TranchedProofs | TranchedVault and ConfidentialTranchedVault | |
| KeeperProofs | ConfidentialVault and Keeper | |
| FactoryProofs | Factories | |
| MCVault, MCSettlement, MCClaim, MCYield, MCTranched, MCKeeper, MCFamily, MCFactories | instances for TLC | |

### How the code is read

* A contract call is one step. An assert that fails, a trap or an overflow
  reverts it, so a call that would revert is an action that is not enabled; the
  release profile has overflow checks, and `I128Max` stands for the largest
  i128 (a small number in MCVault, so that it is reached).
* Authorization: a call that needs an address's signature is a step anybody may
  be willing to make; the calls only the bound settlement or router may make
  are reachable only through them, except in the vaults taken alone (VaultNext,
  VaultCall, TranchedNext, VaultStep of Keeper), where the settlement is
  arbitrary on purpose; the registrations of a factory are its admin's.
  `receive_premium` of the tranched vault believes its admin that the tokens
  came; `unbooked` says what he has sent.
* The token is external: a transfer moves a non-negative amount the payer has.
  Anybody may send tokens to the vault (`Donate`).
* Hashes are what they bind. A commitment is its opening `[buyer, cover]` or a
  model value nobody can open; a root is the sequence folded into it; an
  instrument_id is its committed configuration. The proof system is ideal: an
  artifact verifies exactly when the guest accepted its inputs. Two positions
  with one opening are told apart by their place in the book, as their salts do.
* A keeper is honest about the history it observes but free about when it does
  so: `Prove` reads the whole history known at that moment (the repository
  names the completeness of the history as a matter of trust, not of proof).
  `EarlyProving` says whether keepers also prove before the deadline. Artifacts
  are never lost, so any of them may be submitted later, again, or by others.
* The issuer of an attested instrument is truthful: it signs the history as it
  stands, once a deadline has passed, and may sign again later. It signs for one
  instrument: a key that signs for several bonds is outside the model, although
  the messages of credit_v2 and credit_v3 name no instrument. Stations report
  at the time they measure; a reading that arrives after the proof with an
  earlier time is outside the model, as is one that is withdrawn. Keepers prove
  a weather cover after the deadline: an assumption on them, which neither the
  host nor the guest enforces. A weather
  cover commits one window of time for all its epochs, as its guest does.
* The position root of the vaults with premium is kept as the number of
  commitments or the covers they stand for: no settlement is bound to them in
  these modules, so nobody reads it.
* `Faithful` says whether buyers commit to the cover they declare; the vault
  cannot tell.
* Mutated forms of single definitions (`WindowIgnored`, `CreditedOverwrite`,
  ...) stand above the definition they vary. They are plausible bugs; each
  property of a passing run is violated when one of them replaces the original.

## Runs

All runs finish within three minutes on two workers.

| run | configuration | properties | states |
|---|---|---|---|
| vault | MCVault | VaultTypeOK, Custody, SellerBooks, CoverBacked, WindowHoldsReserve | 32 k |
| settlement | MCSettlement | SettlementTypeOK, NoOverpayment, FirstDefaultFunded, DefaultsSettle | 4.5 k |
| settlement_stale | MCSettlementStale | PaidExactlyReceipts, ScheduledTwiceNeverSettles, KeepsPromise | 329 k |
| claim | MCClaim | ClaimTypeOK, OnePathPerEpoch, NoDoublePay, LateClaimsFunded, NobodyWithholds | 38 k |
| yield | MCYield | PoolsFunded, HaircutFloor, CoverIsWrapped, CouponsFunded, StakesKeepAccrual | 1.5 M |
| tranched | MCTranched | TranchedTypeOK, TranchesAreReserve, FullyFunded, PremiumFunded, HiddenBookBacked, JuniorFirst, NobodyDiluted, LiveTrancheKeepsDeposits, ExitsLeaveHiddenCover | 494 k |
| keeper | MCKeeper | HiddenSolvency, BookIsAggregate, PoolsFunded, ExitsLeaveCover | 881 k |
| family | MCFamily | SignaturesHold, DroughtPaidExactly | 127 k |
| factory | MCFactories | PinnedToType, IdNamesOneConfig, TiersHold | 164 k |
| yield_reserve | MCYieldReserve | ReserveUntouched (violated) | |
| router_self | MCYieldSelf | PbondIsSupply (violated) | |
| attested_doc | MCFamilyV2 | NoPaymentOmitted (violated) | |

What they show:

* **vault.** Two sellers, amounts -1..2, every list of up to two allocations:
  the refused amounts, the boundary of i128, payouts to sellers and buyers, and
  a window opened and closed at any time.
* **settlement.** Two epochs, and a sibling instrument on the same bond with a
  higher coupon, whose epochs are missed when ours are not: its artifacts
  verify, and only the bindings refuse them. One coupon delivery, which can be
  clawed back, at any time. The run is fair: every epoch that stays in default
  is settled, or an earlier payout has left a reserve that cannot pay the whole
  book (`Unfunded`, the all-or-nothing of pay_allocations).
* **settlement_stale.** Nothing is assumed of keepers or buyers: early proofs,
  proofs of old books, an epoch listed twice in the schedule, a frozen holder
  and one without trustline, commitments with another cover than declared or
  with none. The contracts still implement Protection.tla.
* **claim.** Two buyers, one of whom can hold a larger and a smaller position,
  a commitment nobody can open, all interleavings of settle and claims around
  the grace period. NobodyWithholds promises a buyer one of his positions, and
  no more: whoever submits a claim first chooses which (see below).
* **yield.** Vault and router with rates of one half, so that rounding happens
  in every division. The two rounding terms (`roundedOff`, `netRounded`) state
  exactly what rounding the debts down costs: in units of 1/AccScale of a
  token.
* **tranched.** Two sellers in two tranches of weights 2 and 1, payouts of 1
  and 3 against deposits of 2: a payout stays in the junior tranche, empties
  it, or reaches the senior one. The vault of a behaviour sells cover publicly
  or by proof, as the two contracts do; by proof twice, so that artifacts made
  over one opening compete and only the first is accepted. Cover is taken off with each payout,
  so, unlike the generic vault, the public one never has more cover on sale
  than reserve; the commitment of the confidential one is not taken down.
  A tranche wiped to zero keeps its shares, and a later deposit mints one to
  one beside them (lib.rs:140), so the old holders share in it;
  LiveTrancheKeepsDeposits therefore speaks of tranches with collateral left.
* **keeper.** Purchases and withdrawals are proved against any figure and any
  state of the file, artifacts are submitted late, in another order, by others
  or never, and the keeper dies between its two writes, which loses the new
  salt: no artifact can be proved any more, and nothing the vault accepts
  breaks its books.
* **family.** The bond changes hands between the record dates of two epochs,
  coupons arrive and are clawed back between signatures, and keepers hand any
  signature to the guest; under weather_v1 two stations report dry and wet days
  before, in and after the deadline of an epoch. SignaturesHold and
  attested_doc belong together: binding the epoch is what credit_v3 adds, and
  credit_v2 keeps the promise only for epochs that no signature predates. In
  attested_doc the bond has one holder, so that one coupon pays an epoch in
  full: the second epoch is paid in time and its book is paid in full all the
  same, on a signature made for the first.
* **factory.** One type symbol, two guests the admin may register for it, two
  configurations that differ only in a deadline, two tiers, both families under
  one id. Instruments of the base and of the claim factory may carry one
  instrument_id; then they have one configuration (IdNamesOneConfig), which
  matters because a proof is bound to the id and not to the contract. The
  claim factory has the same `hash_config` a second time (lib.rs:36); the model
  reads both and has one definition, so it would not notice if one of the two
  were changed.

The findings, with the quoted sentences, are in PROJECT.json. Two are bugs of
the code (`yield_reserve`: sellers are over-credited after a payout;
`router_self`: a pBOND transfer to oneself creates balance). The third is a
sentence of the documentation that the code does not bear out (`attested_doc`).

More sentences differ from the code and have no run:

* README.md:55 calls the reserve "fully funded by construction": after the
  first payout the cover sold may exceed what is left (vault lib.rs:144 reduces
  the pool alone), which is why CoverBacked has `paidOut` in it.
* `settle` never closes the window of the vault (docs/TECH_SPEC.md:89 freezes
  withdrawals while a settlement is due); the cover floor funds the first
  default all the same, FirstDefaultFunded.
* A proof made before the deadline settles an epoch that is paid in time
  afterwards (docs/TECH_SPEC.md:250 scans to the true deadline; the assumption
  of NeverOverpays).
* A buyer with two positions is paid by claims for one of them, after which the
  epoch is closed to his address (claim_settlement lib.rs:193) and to the full
  settlement (lib.rs:170). `claim_direct` asks nobody's authorization, so a
  third party who can open it may submit the smaller position and shut out the
  larger. Against this stand claim_settlement/src/lib.rs:5-6 ("ANY single buyer
  can be paid against a single-allocation proof — so no keeper can withhold a
  payout"), claim_credit_v1/src/lib.rs:82-83 ("byte-identical to what a full
  settlement would pay") and docs/OPERATIONS.md:44-45 ("any buyer can
  `claim_direct` their own share"). NobodyWithholds is stated for one position
  for this reason.
* keeper.rs:23 gives as an invariant that the state file opens the vault's
  commitment, and keeper.rs:62 persists the next state only on a successful
  submission; the command persists it when the proof is made (main.rs:250), and
  a purchase that is refused then leaves the file ahead of the vault for good.
* confidential_vault lib.rs:245 and confidential_tranched_vault lib.rs:273 have
  the keeper rebase the commitment per epoch; there is no call that does so.
* `set_tranched_wasm` of the yield factory may be called again: "one-time" is
  not enforced. Families keep the code they were deployed with.

### Bounds, and why they are enough

* `MaxBook` (1 or 2 positions), one or two buyers: payouts are linear in the
  book; stale books, double positions and mutual exclusion need at most two.
  It is 1 in `settlement`, whose liveness is the costly part; books of two are
  in `settlement_stale` and `claim`, and of any size in the theorems.
* `MaxPayments` 0 or 1: on time, late, partial, full, clawed back; the proofs
  carry the general sum.
* `MaxTime` 2: before, at and after every deadline and grace period.
* One seller in the settlement runs: sellers interact only through the pool,
  and the theorems are for any number; two in vault and yield, where stakes
  interact.
* `AccScale` 6 instead of 10^12, `MaxRounding`/`MaxNetRounding` 0: a change of
  stake is allowed as long as no fraction has been lost yet, so each behaviour
  has at most one lossy change on each side. `MaxPositions` is 1 in the yield
  run; in the tranched run a hidden book has up to 2, and a public one the first
  of them (`MCPublicPositions`), for its purchases do not race on a commitment.
* Two tranches: with more, a payout that empties one and reaches the next
  repeats what two tranches show. Weights 2 and 1 make the cuts round.
* `MaxSales` 2 purchases proved: two against one commitment, or one in sequence
  to another, with any number of withdrawals over the figures 0, 1 and 2.
* `Figures` 0 to 4 in the tranched run: the collateral of one deposit by each
  seller. A withdrawal that would leave more has no artifact there.
* `MaxReadings` 2, falls of 1 and 3 mm against a band of 2 to 5 mm: above the
  trigger (never paid), in the band, at and below the exhaustion point.
* Two values of whatever the admin registers, and of each configuration: the
  factory properties compare two instruments, or one with its registry. The
  instances have no counter, so the runs are finite without a bound.
* `U64Max`, `I128Max` are large in the settlement runs: the overflow guards of
  the guest are there and do not bind.

CHECK_DEADLOCK is FALSE in the settlement, claim and family runs, where time
stops at `MaxTime` and an instrument whose epochs are over may stop, and in the
factory run, where everything may have been deployed. Sellers of a vault
are symmetric in the tranched and keeper runs, and SYMMETRY is used there: these
runs check no liveness.

### Fairness

* `Tick`: ledgers keep closing.
* `Prove` of each epoch and `Settle` of some artifact (FairSettlementSpec):
  proving and submitting are permissionless, so it is enough that one keeper
  keeps trying; weak fairness, because an epoch that stays provable is proved
  and an artifact that stays acceptable is submitted. Nothing is assumed of
  issuers, sellers or buyers. Purchases stop only because the book is bounded;
  a purchase makes a proof stale, so buyers without end could starve keepers,
  and DefaultsSettle does not claim otherwise. A later epoch may find the
  reserve already spent, which DefaultsSettle names (`Unfunded`);
  NobodyWithholds is checked on one epoch for the same reason.
* `ProveClaim` and `ClaimDirect` (FairClaimSpec): no keeper acts at all; some
  buyer who can claim does.

## Proofs

All theorems hold for every value of the constants that satisfies the ASSUMEs.
Every invariant and every action property that a passing run checks, and the
refinement, is a theorem; the two liveness properties are not. Five theorems
have a hypothesis of their own, and each needs it: `~EarlyProving`
(NeverOverpays), `Faithful` (LateClaimsPayable, FirstDefaultAlwaysFunded) and
`~SelfTransfers` (CoverIsWrappedHolds, CouponsFundedHolds).

* **Vault.** `VaultInv` is VaultTypeOK with the three accounting invariants;
  it is inductive. Theorems VaultTypeCorrect, VaultCustody, SellersOverstated
  and CoverStaysBacked follow, and the action property ClosedWindowHolds. The
  steps that move a seller's balance rest on SumsProofs: a total changes by what
  one entry changes.
* **Settlement.** `InstrumentInv` is VaultInv, StateOK, `JournalOK` of every
  artifact ever proved, ReceiptsKept and PaidExactlyReceipts. JournalOK is what
  the guest vouches for (lemma GuestSound, by ShortfallBound and
  AllocationsBound): the journal carries exactly the payouts of its own, fully
  opened book, at one shortfall in 1..owed, all of them positive. Without it
  neither the vault's arithmetic (allocations are integers of unknown sign) nor
  the refinement would be inductive. Theorems SettlementTypeCorrect and
  PaidOnReceipt.
* **Refinement.** InstrumentKeepsPromise: initial states map to initial states
  and every step maps to a step of Protection or a stutter. For Settle,
  JournalOK and the binding of the book (BookCurrent) give the one shortfall
  that PayEpoch asks for and that every position can be opened.
* **TwoDeadlinesNeverSettle**: an artifact carries the first deadline its guest
  finds for the epoch (GuestDeadlines), the contract keeps the last, and settle
  compares the two, so a vault whose schedule lists an epoch twice with
  different deadlines never pays it.
* **NeverOverpays**, if keepers scan after the deadline (`~EarlyProving`):
  once the deadline has passed no new payment counts and a clawback only raises
  the shortfall, so the shortfall is monotone; `ScanInv` says that every
  artifact that can bind is covered by the shortfall known now, and payouts are
  monotone in the shortfall. The assumption is needed: an artifact proved
  before the deadline, while the coupon is still missing, stays valid after the
  coupon has arrived in time.
* **FirstDefaultAlwaysFunded**, if buyers are `Faithful`: `BookInv` says that
  the covers of the book add up to the aggregate cover, which the vault keeps
  below the pool until the first payout.
* **Attested and weather instruments.** `FamilyInv` has the types, that a signed
  history misses no earlier payment that still counts (`Records`), and a fact
  about every artifact (`ProofOK`). An attested one was computed from a history
  the issuer signed, under credit_v3 for its own epoch (`SignedProof`). A
  weather one that the settlement could take was computed from all rain of its
  window (`WeatherProof`), because it was proved after the deadline and stations
  report when they measure; no later reading changes that sum (WeatherStays). A
  receipt is an artifact that bound, so both survive the payout. A signature
  made after the deadline shows no larger shortfall than any later scan
  (SignedCovers), which is the argument of NeverOverpays without a hypothesis
  about keepers: SignaturesAlwaysHold. DroughtAlwaysPaidExactly turns the fact
  about the rain into one about each position of the book, through the two
  divisions of the guest, to less than one token.
* **Claimable settlement.** `ClaimInv` is the invariant of the books and of
  keepers' artifacts (BooksInv, from SettlementProofs), `ClaimJournalOK` of the
  claim artifacts, and ClaimTypeOK, OnePathPerEpoch and NoDoublePay, which need
  one another: that an address claims once (NotYetClaimed) says something about
  money only because `claimed` are the addresses with a positive claim, and a
  settlement adds to what buyers got only because its epoch has no receipt yet.
  Theorems ClaimRecordsCorrect, PathsExclude, PaidOnce. Of NoDoublePay the step
  that matters is ClaimDirect: the sum over epochs grows by the claim at one
  epoch where it was 0 (TotalAdd).
* **LateClaimsPayable**, if the openings that can be claimed were declared
  truly (`Faithful`): `FundInv` says that every claim, paid or only proved, is
  at most the cover of some position of its buyer (Entitled), and that the
  covers that can be opened are within the cover sold. Buyers own distinct
  positions, so what was claimed of an epoch and one claim more fit distinct
  terms of that sum (TotalInjects), which the vault keeps below the pool.
* **Accruals.** Sellers of the yield and confidential vaults, stakes of one
  tranche and holders of pBOND are all the same *ledger*: stakes, debts and
  claimables against one accumulator. SumsProofs states once what the contracts
  rely on (`Funded`): the earnings of all stakes, at the accumulator's scale,
  are within what is spare, plus the fractions by which debts were rounded down.
  Its lemmas say that this survives a grant (the accumulator grows by the
  quotient, the spare tokens by the whole), a change of stake (the earnings move
  into `claimable` and the new debt is rounded down, which is the rounding term)
  and a claim.
* **Yield vault and router.** `RouterInv` is the vault's ledger, which is funded
  until the first payout, HaircutFloor, the holders' ledger, and
  `CoverRegistered`: what the vault counts as routed is the supply. Theorems
  PremiumPoolsFunded, ReserveFloorHolds, CoverIsWrappedHolds,
  CouponsFundedHolds and the action property StakesKeepAccrualHolds. That the
  balances add up to the supply, and with it everything the router owes, is
  proved for holders who do not transfer to themselves: a self-transfer adds
  the amount to the balance (finding `router_self`), and the run of that name
  is the counterexample to the theorem without the hypothesis. What the vault
  counts (CoverRegisteredHolds) and the reserve do not depend on it.
* **Tranched vaults.** `TrancheInv` has one ledger for each rank, whose stakes
  are the shares, and says that the earnings of all of them, added up over the
  ranks, are within the spare tokens (TotalOfRows exchanges the two sums). Here a
  payout lowers the collateral and no stake, and premium is divided by shares,
  so PremiumFundedHolds has no exception for the time after a payout. That the
  cut of absorb_loss loses exactly the payout, from the junior tranche up, is
  proved for any number of tranches. JuniorFirstHolds reads it as an action
  property. NobodyDilutedHolds and DepositsKeptHolds compare quotients of
  collateral and shares before and after a step: minting rounds down, burning
  rounds down, so the ratio of those who stay never falls. TranchedTypes,
  TranchesAreReserveHolds and these are theorems of the public vault and of the
  confidential one (`HiddenInv` adds the commitment and its book); FullyFunded
  is of the public one, HiddenBookBacked and ExitsLeaveHiddenCover of the
  confidential one.
* **Hidden book.** `KeeperInv` says of every artifact ever written that it is
  true of the opening it starts from (SaleOK, ExitOK), with types. Which
  openings the keeper's file has had does not matter, so crashes and wrong
  figures do not either: the vault accepts an artifact only for its own
  commitment and collateral. Theorems HiddenBookSolvent, AggregateFollowsBook
  and NoExitUncovers. `PoolInv` is the ledger of its sellers; it needs
  KeeperInv, for a withdrawal is only as small as its artifact says. Theorem
  PoolsFundedHolds.
* **Factories.** A contract is never deployed over another (`Kept`), and types
  and tiers are never registered over others, so what a registry entry says of
  its family when it is written it says for good: `RegistryInv` and `TierInv`
  state it for one entry at a time. For IdNamesOneConfigHolds the invariant
  says more than the property: the settlements of *each* entry run the
  configuration hashed into its id (`OfConfig`), which makes any two of them
  agree. For the counter of TiersHoldAlways a family is known by its vault, at
  an address the id and the tag determine: a family deployed now was in no tier.

Model-checked only: the liveness properties DefaultsSettle and NobodyWithholds
(liveness under fairness is beyond the prover). Theorem statements use no
recursive operators. Two formulations of the model are there for the prover's sake
and change no step: Deployer has its own `Stored` instead of the function
operators of module TLC, and records that one call updates in several fields are
written out.

## Not modelled

Of the modelled vaults with premium the i128 bounds are left out (Vault and
CreditGuest have theirs), and `set_router` of the yield vault, which its factory
calls at deployment. `harvest_float` moves no tokens and believes its admin that
they came; `HarvestFloat` is his transfer and the call in one step, so an admin
who misreports is outside the model. YieldFactory leaves out the protocol fee,
which it passes through to the init of the vault. A settlement composed with a vault other than the generic
one, two keepers on one state file, and an issuer that lies are left out: the
vaults with premium are checked against an arbitrary settlement instead, which
includes the real one. Schedules of epochs longer than two, and books of more
than two positions, are the theorems' business.

TTLs and archival of ledger entries, events, getters, hashing and encodings, the
proof system and its verifier, the guests' entry points (prover/methods), the
command line, the web front end, the scripts and the spikes are left out for
good: they keep no state of the protocol.

## Plan

Done: all components of the table above with their runs, and the theorems on
every safety property of those runs. Left, in this order:

1. Two keepers on one file, and recovery by re-sync as docs/RUNBOOK.md has it.
2. A refinement for the claimable settlement: Protection with a choice, per
   epoch, between one payment to the book and single payments after the grace
   period.
3. The i128 bounds of the premium accumulators, with a theorem that bounds them
   by the total of all premium received.
