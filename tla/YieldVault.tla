----------------------------- MODULE YieldVault -----------------------------
(***************************************************************************)
(* The premium-aware vault, contracts/yield_vault/src/lib.rs: sellers'     *)
(* collateral backs the cover as in Vault.tla, and premium, routed coupons *)
(* and float yield accrue to the sellers through an accumulator of premium *)
(* per unit of collateral.  Reserve, unclaimed premium and protocol fee    *)
(* share one token balance.                                                *)
(*                                                                         *)
(* VaultCall is the step of a caller other than the bound router, whose    *)
(* calls are receive_premium and set_routed_cover (YieldRouter.tla).       *)
(* Commitments are opaque here: only their number is kept.                 *)
(***************************************************************************)
EXTENDS Sums

CONSTANTS
  Sellers, Buyers, Admin,
  Amounts,         \* what sellers deposit and withdraw, and float yields
  Covers,          \* what buyers declare
  AllocationLists, \* what the bound settlement pays
  InitialTokens,   \* the token balance of every account
  PremiumBps, ProtocolFeeBps, HaircutBps, FloatFees,
  AccScale,        \* ACC_SCALE, smaller than 10^12 for TLC
  MaxRounding,     \* bound on roundedOff, in the guards of deposit and withdraw
  MaxPositions     \* bound on purchases

BPS == 10000

Accounts == Sellers \cup Buyers \cup {Admin}

ASSUME YieldAssumption ==
  /\ IsFiniteSet(Accounts)
  /\ PremiumBps \in Nat /\ ProtocolFeeBps \in 0..BPS /\ HaircutBps \in 0..(BPS - 1)
  /\ FloatFees \subseteq 0..BPS
  /\ AccScale \in Nat \ {0}
  /\ InitialTokens \in [Accounts -> Nat]

ASSUME AmountsAssumption == Amounts \subseteq Int /\ Covers \subseteq Int

\* A Vec<(Address, i128)>: its places mapped to payee and amount.
ASSUME ListsAssumption ==
  \A allocs \in AllocationLists :
    IsFiniteSet(DOMAIN allocs) /\ \A i \in DOMAIN allocs : allocs[i].amount \in Int

VARIABLES
  totalCollateral, \* DataKey::TotalCollateral
  totalCover,      \* DataKey::TotalCover, sold against commitments
  routedCover,     \* DataKey::RoutedCover, registered by the router
  folded,          \* commitments folded into DataKey::PositionRoot
  frozen,          \* DataKey::Frozen
  acc,             \* DataKey::AccPremiumPerColl
  feeAccrued,      \* DataKey::ProtocolFeeAccrued
  floatFee,        \* DataKey::FloatFeeBps
  seller,          \* DataKey::Seller, SellerDebt and SellerClaimable
  held,            \* the vault's token balance
  wallet,          \* every other account's token balance
  paidOut,         \* history: all that pay_allocations paid
  roundedOff       \* history: what debts of new stakes were rounded down by,
                   \* in units of 1/AccScale of a token

reserveVars == <<totalCollateral, totalCover, routedCover, folded, frozen, paidOut>>
premiumVars == <<acc, feeAccrued>>
tokenVars == <<held, wallet>>
yieldVars == <<reserveVars, premiumVars, floatFee, seller, tokenVars, roundedOff>>

-----------------------------------------------------------------------------
YieldInit ==
  /\ totalCollateral = 0 /\ totalCover = 0 /\ routedCover = 0 /\ folded = 0
  /\ frozen = FALSE
  /\ acc = 0 /\ feeAccrued = 0 /\ floatFee = 0
  /\ seller = [s \in Sellers |-> [coll |-> 0, debt |-> 0, claimable |-> 0]]
  /\ held = 0
  /\ wallet = InitialTokens
  /\ paidOut = 0 /\ roundedOff = 0

TransferIn(from, amount) ==
  /\ 0 <= amount /\ amount <= wallet[from]
  /\ wallet' = [wallet EXCEPT ![from] = wallet[from] - amount]
  /\ held' = held + amount

TransferOut(to, amount) ==
  /\ 0 <= amount /\ amount <= held
  /\ wallet' = [wallet EXCEPT ![to] = wallet[to] + amount]
  /\ held' = held - amount

\* What the accumulator grants a stake.
Accrued(coll) == (coll * acc) \div AccScale

\* What is lost when the debt of a stake is rounded down.
RoundedBy(coll) == (coll * acc) % AccScale

\* The premium accrued since the debt was set: at least 0, see PendingPremium.
Pending(s) == Accrued(seller[s].coll) - seller[s].debt

\* settle_seller, then a stake of coll: what is pending becomes claimable and
\* the debt is set to what the new stake has been granted so far.  The mutant
\* leaves the debt of a seller who deposits where it was.
StakeKeepsDebt(s, coll) ==
  [seller EXCEPT ![s] = [coll |-> coll, debt |-> Accrued(seller[s].coll),
                         claimable |-> seller[s].claimable + Pending(s)]]
Stake(s, coll) ==
  [seller EXCEPT ![s] = [coll |-> coll, debt |-> Accrued(coll),
                         claimable |-> seller[s].claimable + Pending(s)]]

\* distribute_premium, the protocol's share in basis points; the mutant gives
\* the sellers the protocol's cut too.
SellersCutAll(amount, feeBps) == amount
SellersCut(amount, feeBps) == amount - (amount * feeBps) \div BPS

Distribute(amount, feeBps) ==
  /\ totalCollateral > 0
  /\ acc' = acc + (SellersCut(amount, feeBps) * AccScale) \div totalCollateral
  /\ feeAccrued' = feeAccrued + (amount * feeBps) \div BPS

\* cover, sealed and routed together, within (1 - h) of the collateral.
Floor(cover, collateral) == cover * BPS <= collateral * (BPS - HaircutBps)

-----------------------------------------------------------------------------
Deposit(s, amount) ==
  /\ amount > 0
  /\ roundedOff <= MaxRounding
  /\ TransferIn(s, amount)
  /\ totalCollateral' = totalCollateral + amount
  /\ seller' = Stake(s, seller[s].coll + amount)
  /\ roundedOff' = roundedOff + RoundedBy(seller[s].coll + amount)
  /\ UNCHANGED <<totalCover, routedCover, folded, frozen, premiumVars, floatFee, paidOut>>

\* The floor of a purchase; the mutant forgets the routed cover.
SealedFits(cover) == Floor(totalCover + cover, totalCollateral)
PurchaseFits(cover) == Floor(totalCover + routedCover + cover, totalCollateral)

PremiumOf(cover) == (cover * PremiumBps) \div BPS

BuyProtection(b, cover) ==
  /\ cover > 0
  /\ ~frozen
  /\ PurchaseFits(cover)
  /\ folded < MaxPositions
  /\ TransferIn(b, PremiumOf(cover))
  /\ IF PremiumOf(cover) > 0 THEN Distribute(PremiumOf(cover), ProtocolFeeBps)
                             ELSE UNCHANGED premiumVars
  /\ folded' = folded + 1
  /\ totalCover' = totalCover + cover
  /\ UNCHANGED <<totalCollateral, routedCover, frozen, floatFee, seller, paidOut, roundedOff>>

ClaimPremium(s) ==
  LET claimable == seller[s].claimable + Pending(s)
  IN  /\ claimable > 0
      /\ TransferOut(s, claimable)
      /\ seller' = [Stake(s, seller[s].coll) EXCEPT ![s].claimable = 0]
      /\ UNCHANGED <<reserveVars, premiumVars, floatFee, roundedOff>>

ClaimProtocolFee ==
  /\ feeAccrued > 0
  /\ TransferOut(Admin, feeAccrued)
  /\ feeAccrued' = 0
  /\ UNCHANGED <<reserveVars, acc, floatFee, seller, roundedOff>>

SetFloatFee(bps) ==
  /\ floatFee' = bps
  /\ UNCHANGED <<reserveVars, premiumVars, seller, tokenVars, roundedOff>>

\* The strategy adapter (external) sends the yield, the admin has it harvested.
HarvestFloat(amount) ==
  /\ amount > 0
  /\ TransferIn(Admin, amount)
  /\ Distribute(amount, floatFee)
  /\ UNCHANGED <<reserveVars, floatFee, seller, roundedOff>>

Withdraw(s, amount) ==
  /\ amount > 0
  /\ ~frozen
  /\ seller[s].coll >= amount
  /\ Floor(totalCover + routedCover, totalCollateral - amount)
  /\ roundedOff <= MaxRounding
  /\ TransferOut(s, amount)
  /\ totalCollateral' = totalCollateral - amount
  /\ seller' = Stake(s, seller[s].coll - amount)
  /\ roundedOff' = roundedOff + RoundedBy(seller[s].coll - amount)
  /\ UNCHANGED <<totalCover, routedCover, folded, frozen, premiumVars, floatFee, paidOut>>

\* Called by the bound settlement; the stakes keep their size.
PayAllocations(allocs) ==
  /\ \A i \in DOMAIN allocs : allocs[i].amount > 0
  /\ AllocationSum(allocs) <= totalCollateral
  /\ AllocationSum(allocs) <= held
  /\ wallet' = [a \in Accounts |-> wallet[a] + PaidTo(allocs, a)]
  /\ held' = held - AllocationSum(allocs)
  /\ totalCollateral' = totalCollateral - AllocationSum(allocs)
  /\ paidOut' = paidOut + AllocationSum(allocs)
  /\ UNCHANGED <<totalCover, routedCover, folded, frozen, premiumVars, floatFee,
                 seller, roundedOff>>

SetWindow(open) ==
  /\ frozen' = open
  /\ UNCHANGED <<totalCollateral, totalCover, routedCover, folded, premiumVars,
                 floatFee, seller, tokenVars, paidOut, roundedOff>>

VaultCall ==
  \/ \E s \in Sellers, amount \in Amounts : Deposit(s, amount)
  \/ \E b \in Buyers, cover \in Covers : BuyProtection(b, cover)
  \/ \E s \in Sellers : ClaimPremium(s)
  \/ ClaimProtocolFee
  \/ \E bps \in FloatFees : SetFloatFee(bps)
  \/ \E amount \in Amounts : HarvestFloat(amount)
  \/ \E s \in Sellers, amount \in Amounts : Withdraw(s, amount)
  \/ \E allocs \in AllocationLists : PayAllocations(allocs)
  \/ \E open \in BOOLEAN : SetWindow(open)

-----------------------------------------------------------------------------
\* What the vault owes a seller besides his collateral (pending_premium).
PendingPremium(s) == seller[s].claimable + Pending(s)

PremiumOwed == feeAccrued + Total([s \in Sellers |-> PendingPremium(s)])

\* The stakes of the sellers are the pool and what was paid out of it: a payout
\* debits the pool and no seller.  Until the first one the token balance covers
\* the reserve, the premium of all sellers and the fee, but for the fractions of
\* a token by which the debts of new stakes were rounded down, in the sellers'
\* favour; no seller is ever granted less than his debt.
PoolsFunded ==
  /\ Total([s \in Sellers |-> seller[s].coll]) = totalCollateral + paidOut
  /\ \A s \in Sellers : Pending(s) >= 0
  /\ paidOut = 0 =>
       held * AccScale + roundedOff >= (totalCollateral + PremiumOwed) * AccScale

\* Sealed and routed cover stay within the haircut reserve, as it was before
\* the payouts, whichever of the two lines sells and whoever withdraws.
HaircutFloor == Floor(totalCover + routedCover, totalCollateral + paidOut)

\* Changing a stake distorts no accrual, neither the seller's own nor that of
\* the others: what was earned on the old stake stays earned.
StakesKeepAccrual ==
  [][(\E s \in Sellers : seller'[s].coll # seller[s].coll) =>
       \A s \in Sellers : PendingPremium(s)' = PendingPremium(s)]_yieldVars

\* "neither path can spend the other's funds" (yield_vault/src/lib.rs:16): the
\* tokens of the reserve are there.  After a payout the stakes exceed the pool
\* that the accumulator divides by, and sellers are granted more premium than
\* came in; claim_premium takes the difference out of the reserve.
ReserveUntouched == held >= totalCollateral
=============================================================================
