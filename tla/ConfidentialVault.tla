-------------------------- MODULE ConfidentialVault --------------------------
(***************************************************************************)
(* The confidential vault, contracts/confidential_vault/src/lib.rs: the    *)
(* cover sold is known to the chain only as a commitment to the running    *)
(* aggregate.  A purchase comes with a proof that advances the commitment  *)
(* by a hidden cover, a withdrawal with one that the aggregate still fits. *)
(* The contract only compares commitments (Solvency.tla says what they     *)
(* are).                                                                   *)
(***************************************************************************)
EXTENDS Sums, Solvency

CONSTANTS
  Sellers, Buyers, Admin,
  Amounts,         \* what sellers deposit and withdraw
  Premiums,        \* what buyers declare to pay
  AllocationLists, \* what the bound settlement pays
  InitialTokens,   \* the token balance of every account
  ProtocolFeeBps,
  AccScale,        \* ACC_SCALE, smaller than 10^12 for TLC
  MaxRounding      \* bound on roundedOff, in the guards of deposit and withdraw

BPS == 10000

Accounts == Sellers \cup Buyers \cup {Admin}

ASSUME ConfidentialAssumption ==
  /\ IsFiniteSet(Accounts)
  /\ ProtocolFeeBps \in 0..(BPS - 1)
  /\ AccScale \in Nat \ {0}
  /\ InitialTokens \in [Accounts -> Nat]

ASSUME AmountsAssumption == Amounts \subseteq Int /\ Premiums \subseteq Int

\* The amounts of a payout are the u64 figures of a journal.
ASSUME ListsAssumption ==
  \A allocs \in AllocationLists :
    IsFiniteSet(DOMAIN allocs) /\ \A i \in DOMAIN allocs : allocs[i].amount \in Nat

VARIABLES
  commitment,      \* DataKey::CoverCommitment
  bookCover,       \* history: the covers of the positions folded so far
  totalCollateral, \* DataKey::TotalCollateral
  frozen,          \* DataKey::Frozen
  acc,             \* DataKey::AccPremiumPerColl
  feeAccrued,      \* DataKey::ProtocolFeeAccrued
  seller,          \* DataKey::Seller, SellerDebt and SellerClaimable
  held,            \* the vault's token balance
  wallet,          \* every other account's token balance
  paidOut,         \* history: all that pay_allocations paid
  roundedOff       \* history: what debts of new stakes were rounded down by,
                   \* in units of 1/AccScale of a token

aggregateVars == <<commitment, bookCover>>
premiumVars == <<acc, feeAccrued>>
tokenVars == <<held, wallet>>
confidentialVars == <<aggregateVars, totalCollateral, frozen, premiumVars, seller,
                      tokenVars, paidOut, roundedOff>>

-----------------------------------------------------------------------------
ConfidentialInit ==
  /\ commitment = Opening(0, 0) /\ bookCover = 0
  /\ totalCollateral = 0
  /\ frozen = FALSE
  /\ acc = 0 /\ feeAccrued = 0
  /\ seller = [s \in Sellers |-> [coll |-> 0, debt |-> 0, claimable |-> 0]]
  /\ held = 0
  /\ wallet = InitialTokens
  /\ paidOut = 0 /\ roundedOff = 0

TransferIn(from, amount) ==
  /\ 0 <= amount /\ amount <= wallet[from]
  /\ wallet' = [wallet EXCEPT ![from] = wallet[from] - amount]
  /\ held' = held + amount

TransferOut(to, amount) ==
  /\ 0 <= amount /\ amount <= held
  /\ wallet' = [wallet EXCEPT ![to] = wallet[to] + amount]
  /\ held' = held - amount

Accrued(coll) == (coll * acc) \div AccScale
RoundedBy(coll) == (coll * acc) % AccScale
Pending(s) == Accrued(seller[s].coll) - seller[s].debt

\* settle_premium, the new stake and reset_debt.
Stake(s, coll) ==
  [seller EXCEPT ![s] = [coll |-> coll, debt |-> Accrued(coll),
                         claimable |-> seller[s].claimable + Pending(s)]]

\* distribute_premium: without underwriters all of it is the protocol's.  The
\* mutant accrues the protocol's cut to the sellers as well.
ProtocolCut(premium) == (premium * ProtocolFeeBps) \div BPS
SellersCutAll(premium) == premium
SellersCut(premium) == premium - ProtocolCut(premium)

Distribute(premium) ==
  IF totalCollateral > 0 /\ SellersCut(premium) > 0
  THEN /\ acc' = acc + (SellersCut(premium) * AccScale) \div totalCollateral
       /\ feeAccrued' = feeAccrued + ProtocolCut(premium)
  ELSE /\ feeAccrued' = feeAccrued + premium
       /\ UNCHANGED acc

-----------------------------------------------------------------------------
Deposit(s, amount) ==
  /\ ~frozen
  /\ amount > 0
  /\ roundedOff <= MaxRounding
  /\ TransferIn(s, amount)
  /\ totalCollateral' = totalCollateral + amount
  /\ seller' = Stake(s, seller[s].coll + amount)
  /\ roundedOff' = roundedOff + RoundedBy(seller[s].coll + amount)
  /\ UNCHANGED <<aggregateVars, frozen, premiumVars, paidOut>>

\* What a proof must agree with; the mutants trust the proof alone.
AnyAggregate(prev) == TRUE
AggregateCurrent(prev) == prev = commitment

AnyReserve(collateral) == TRUE
ReserveCovers(collateral) == collateral <= totalCollateral

AnyRemainder(after, amount) == TRUE
RemainderExact(after, amount) == after = totalCollateral - amount

\* A seller withdraws at most what he deposited.
SellerHas(s, amount) == amount <= seller[s].coll

\* The declared premium is not compared with the hidden cover.
BuyProtectionProven(b, sale, premium) ==
  /\ ~frozen
  /\ AggregateCurrent(sale.prev)
  /\ ReserveCovers(sale.collateral)
  /\ TransferIn(b, premium)
  /\ IF premium > 0 THEN Distribute(premium) ELSE UNCHANGED premiumVars
  /\ commitment' = sale.new
  /\ bookCover' = bookCover + sale.cover
  /\ UNCHANGED <<totalCollateral, frozen, seller, paidOut, roundedOff>>

\* Withdrawals are not frozen with the window.
WithdrawProven(s, amount, exit) ==
  /\ amount > 0
  /\ AggregateCurrent(exit.prev)
  /\ RemainderExact(exit.after, amount)
  /\ SellerHas(s, amount)
  /\ roundedOff <= MaxRounding
  /\ TransferOut(s, amount)
  /\ totalCollateral' = totalCollateral - amount
  /\ seller' = Stake(s, seller[s].coll - amount)
  /\ roundedOff' = roundedOff + RoundedBy(seller[s].coll - amount)
  /\ UNCHANGED <<aggregateVars, frozen, premiumVars, paidOut>>

ClaimPremium(s) ==
  LET claimable == seller[s].claimable + Pending(s)
  IN  /\ claimable > 0
      /\ TransferOut(s, claimable)
      /\ seller' = [Stake(s, seller[s].coll) EXCEPT ![s].claimable = 0]
      /\ UNCHANGED <<aggregateVars, totalCollateral, frozen, premiumVars, paidOut,
                     roundedOff>>

ClaimProtocolFee ==
  /\ feeAccrued > 0
  /\ TransferOut(Admin, feeAccrued)
  /\ feeAccrued' = 0
  /\ UNCHANGED <<aggregateVars, totalCollateral, frozen, acc, seller, paidOut,
                 roundedOff>>

\* Called by the bound settlement only; neither the commitment nor a seller's
\* balance is touched.
PayAllocations(allocs) ==
  LET loss == AllocationSum(allocs)
  IN  /\ loss <= totalCollateral
      /\ loss <= held
      /\ totalCollateral' = totalCollateral - loss
      /\ wallet' = [a \in Accounts |-> wallet[a] + PaidTo(allocs, a)]
      /\ held' = held - loss
      /\ paidOut' = paidOut + loss
      /\ UNCHANGED <<aggregateVars, frozen, premiumVars, seller, roundedOff>>

SetWindow(open) ==
  /\ frozen' = ~open
  /\ UNCHANGED <<aggregateVars, totalCollateral, premiumVars, seller, tokenVars,
                 paidOut, roundedOff>>

-----------------------------------------------------------------------------
PendingPremium(s) == seller[s].claimable + Pending(s)

\* The hidden aggregate fits the reserve as it was before payouts, although no
\* step of the contract ever sees a cover.
HiddenSolvency == commitment.total <= totalCollateral + paidOut

\* The aggregate is the sum of the covers in the book: of purchases proved
\* against one commitment only the first is accepted, and none twice.
BookIsAggregate == commitment.total = bookCover

\* No withdrawal leaves less collateral than the hidden aggregate, also after a
\* payout and with proofs made long before.
ExitsLeaveCover ==
  [][totalCollateral' < totalCollateral /\ paidOut' = paidOut =>
       commitment.total <= totalCollateral']_confidentialVars

\* The stakes of the sellers are the pool and what was paid out of it: a payout
\* debits the pool and no seller.  Until the first one the token balance covers
\* the reserve, the premium of all sellers and the fee, but for the roundings in
\* the sellers' favour.
PoolsFunded ==
  /\ Total([s \in Sellers |-> seller[s].coll]) = totalCollateral + paidOut
  /\ \A s \in Sellers : Pending(s) >= 0
  /\ paidOut = 0 =>
       held * AccScale + roundedOff >=
         (totalCollateral + feeAccrued + Total([s \in Sellers |-> PendingPremium(s)]))
           * AccScale
=============================================================================
