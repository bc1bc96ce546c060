---------------------------- MODULE TranchedVault ----------------------------
(***************************************************************************)
(* The tranched vault, contracts/tranched_vault/src/lib.rs: underwriters   *)
(* take a tranche by seniority (rank 0 is the junior, first-loss one).  A  *)
(* payout consumes the collateral of the junior tranches first and leaves  *)
(* the shares as they are, so the holders of a tranche bear its loss pro   *)
(* rata.  Premium is split over the tranches by weight and accrues per     *)
(* share.                                                                  *)
(*                                                                         *)
(* As in Vault.tla the bound settlement may pay any list once there is a   *)
(* position; commitments are opaque and only their number is kept.         *)
(***************************************************************************)
EXTENDS Sums

CONSTANTS
  Sellers, Buyers, Admin,
  Weights,         \* DataKey::Weights, from the rank of a tranche
  Amounts,         \* what sellers deposit and routers send
  Burns,           \* the shares sellers burn
  Covers,          \* what buyers declare
  AllocationLists, \* what the bound settlement pays
  InitialTokens,   \* the token balance of every account
  PremiumBps, ProtocolFeeBps,
  AccScale,        \* ACC_SCALE, smaller than 10^12 for TLC
  MaxRounding,     \* bound on roundedOff, in the guards of deposit and withdraw
  MaxPositions     \* bound on purchases

BPS == 10000

Accounts == Sellers \cup Buyers \cup {Admin}
Ranks == DOMAIN Weights
TotalWeight == Total(Weights)

ASSUME TranchedAssumption ==
  /\ IsFiniteSet(Accounts)
  /\ IsFiniteSet(Ranks) /\ Ranks \subseteq Nat /\ Weights \in [Ranks -> Nat]
  /\ TotalWeight > 0
  /\ PremiumBps \in Nat /\ ProtocolFeeBps \in 0..(BPS - 1)
  /\ AccScale \in Nat \ {0}
  /\ InitialTokens \in [Accounts -> Nat]

ASSUME AmountsAssumption ==
  Amounts \subseteq Int /\ Burns \subseteq Int /\ Covers \subseteq Int

\* The amounts of a payout are the u64 figures of a journal.
ASSUME ListsAssumption ==
  \A allocs \in AllocationLists :
    IsFiniteSet(DOMAIN allocs) /\ \A i \in DOMAIN allocs : allocs[i].amount \in Nat

VARIABLES
  tranche,         \* DataKey::TrancheColl, TrancheShares and AccPremPerShare
  stake,           \* DataKey::Shares, PremDebt and PremClaimable
  totalCollateral, \* DataKey::TotalCollateral
  totalCover,      \* DataKey::TotalCover
  folded,          \* commitments folded into DataKey::PositionRoot
  frozen,          \* DataKey::Frozen
  feeAccrued,      \* DataKey::ProtocolFeeAccrued
  held,            \* the vault's token balance
  wallet,          \* every other account's token balance
  unbooked,        \* premium a router has sent and receive_premium not yet booked
  paidOut,         \* history: all that pay_allocations paid
  roundedOff       \* history: what debts of new stakes were rounded down by,
                   \* in units of 1/AccScale of a token

coverVars == <<totalCover, folded, frozen>>
tokenVars == <<held, wallet>>
historyVars == <<paidOut, roundedOff>>
tranchedVars == <<tranche, stake, totalCollateral, coverVars, feeAccrued,
                  tokenVars, unbooked, historyVars>>

-----------------------------------------------------------------------------
TranchedInit ==
  /\ tranche = [r \in Ranks |-> [coll |-> 0, shares |-> 0, acc |-> 0]]
  /\ stake = [r \in Ranks |-> [s \in Sellers |->
                [shares |-> 0, debt |-> 0, claimable |-> 0]]]
  /\ totalCollateral = 0 /\ totalCover = 0 /\ folded = 0
  /\ frozen = FALSE
  /\ feeAccrued = 0
  /\ held = 0
  /\ wallet = InitialTokens
  /\ unbooked = 0 /\ paidOut = 0 /\ roundedOff = 0

TransferIn(from, amount) ==
  /\ 0 <= amount /\ amount <= wallet[from]
  /\ wallet' = [wallet EXCEPT ![from] = wallet[from] - amount]
  /\ held' = held + amount

TransferOut(to, amount) ==
  /\ 0 <= amount /\ amount <= held
  /\ wallet' = [wallet EXCEPT ![to] = wallet[to] + amount]
  /\ held' = held - amount

-----------------------------------------------------------------------------
\* The premium a number of shares of a tranche has been granted so far.
Granted(r, shares) == (shares * tranche[r].acc) \div AccScale

Pending(r, s) == Granted(r, stake[r][s].shares) - stake[r][s].debt

\* settle_premium, then a stake of so many shares with its debt reset; the
\* mutant resets it for the shares held before.
DebtOfOldStake(r, s, shares) == Granted(r, stake[r][s].shares)
DebtOf(r, s, shares) == Granted(r, shares)

Stake(r, s, shares) ==
  [stake EXCEPT ![r][s] = [shares |-> shares, debt |-> DebtOf(r, s, shares),
                           claimable |-> stake[r][s].claimable + Pending(r, s)]]

\* distribute_premium.  A tranche without underwriters accrues nothing; its
\* cut and all rounding fall to the protocol.
ProtocolCut(premium) == (premium * ProtocolFeeBps) \div BPS
SellersTotal(premium) == premium - ProtocolCut(premium)
Cut(r, premium) == (SellersTotal(premium) * Weights[r]) \div TotalWeight
Accruing(premium) == {r \in Ranks : tranche[r].shares > 0 /\ Cut(r, premium) > 0}

\* What no tranche accrued; the mutant takes all of the sellers' share for it.
StrandedAll(premium) == SellersTotal(premium)
Stranded(premium) ==
  SellersTotal(premium) - Total([r \in Accruing(premium) |-> Cut(r, premium)])

Distribute(premium) ==
  /\ tranche' = [r \in Ranks |->
       IF r \in Accruing(premium)
       THEN [tranche[r] EXCEPT
               !.acc = @ + (Cut(r, premium) * AccScale) \div tranche[r].shares]
       ELSE tranche[r]]
  /\ feeAccrued' = feeAccrued + ProtocolCut(premium) + Stranded(premium)

\* absorb_loss: what a tranche loses when those below it are used up first.
\* One mutant starts with the senior tranche, one empties each it touches.
Below(r) == Total([q \in {x \in Ranks : x < r} |-> tranche[q].coll])
Above(r) == Total([q \in {x \in Ranks : x > r} |-> tranche[q].coll])
AbsorbedSeniorFirst(r, loss) ==
  IF loss > Above(r) THEN Lesser(tranche[r].coll, loss - Above(r)) ELSE 0
AbsorbedWhole(r, loss) == IF loss > Below(r) THEN tranche[r].coll ELSE 0
Absorbed(r, loss) ==
  IF loss > Below(r) THEN Lesser(tranche[r].coll, loss - Below(r)) ELSE 0

-----------------------------------------------------------------------------
\* Shares for a deposit: at the tranche's collateral per share, or one to one
\* when it has no shares, or no collateral left.  The mutant takes the ratio
\* upside down.
MintedInverted(r, amount) ==
  IF tranche[r].shares = 0 \/ tranche[r].coll = 0
  THEN amount
  ELSE (amount * tranche[r].coll) \div tranche[r].shares
Minted(r, amount) ==
  IF tranche[r].shares = 0 \/ tranche[r].coll = 0
  THEN amount
  ELSE (amount * tranche[r].shares) \div tranche[r].coll

Deposit(s, r, amount) ==
  LET shares == stake[r][s].shares + Minted(r, amount)
  IN  /\ ~frozen
      /\ amount > 0
      /\ roundedOff <= MaxRounding
      /\ TransferIn(s, amount)
      /\ tranche' = [tranche EXCEPT ![r] =
                        [coll |-> tranche[r].coll + amount,
                         shares |-> tranche[r].shares + Minted(r, amount),
                         acc |-> tranche[r].acc]]
      /\ stake' = Stake(r, s, shares)
      /\ totalCollateral' = totalCollateral + amount
      /\ roundedOff' = roundedOff + ((shares * tranche[r].acc) % AccScale)
      /\ UNCHANGED <<coverVars, feeAccrued, unbooked, paidOut>>

PremiumOf(cover) == (cover * PremiumBps) \div BPS

BuyProtection(b, cover) ==
  /\ ~frozen
  /\ cover > 0
  /\ totalCover + cover <= totalCollateral
  /\ folded < MaxPositions
  /\ TransferIn(b, PremiumOf(cover))
  /\ IF PremiumOf(cover) > 0 THEN Distribute(PremiumOf(cover))
                             ELSE UNCHANGED <<tranche, feeAccrued>>
  /\ totalCover' = totalCover + cover
  /\ folded' = folded + 1
  /\ UNCHANGED <<stake, totalCollateral, frozen, unbooked, historyVars>>

\* A router sends premium ahead of the call that books it.
SendPremium(amount) ==
  /\ TransferIn(Admin, amount)
  /\ unbooked' = unbooked + amount
  /\ UNCHANGED <<tranche, stake, totalCollateral, coverVars, feeAccrued, historyVars>>

\* receive_premium checks the admin's signature and not that the tokens came:
\* amount <= unbooked is what the contract trusts the admin for.
ReceivePremium(amount) ==
  /\ amount > 0
  /\ amount <= unbooked
  /\ unbooked' = unbooked - amount
  /\ Distribute(amount)
  /\ UNCHANGED <<stake, totalCollateral, coverVars, tokenVars, historyVars>>

ClaimPremium(s, r) ==
  LET claimable == stake[r][s].claimable + Pending(r, s)
  IN  /\ claimable > 0
      /\ TransferOut(s, claimable)
      /\ stake' = [Stake(r, s, stake[r][s].shares) EXCEPT ![r][s].claimable = 0]
      /\ UNCHANGED <<tranche, totalCollateral, coverVars, feeAccrued, unbooked,
                     historyVars>>

ClaimProtocolFee ==
  /\ feeAccrued > 0
  /\ TransferOut(Admin, feeAccrued)
  /\ feeAccrued' = 0
  /\ UNCHANGED <<tranche, stake, totalCollateral, coverVars, unbooked, historyVars>>

\* The collateral that burned shares return; the mutant ignores losses.
RedeemedAtPar(r, burn) == burn
Redeemed(r, burn) == (burn * tranche[r].coll) \div tranche[r].shares

\* Withdrawals are not frozen with the window.
Withdraw(s, r, burn) ==
  LET shares == stake[r][s].shares - burn
  IN  /\ burn > 0
      /\ burn <= stake[r][s].shares
      /\ totalCollateral - Redeemed(r, burn) >= totalCover
      /\ roundedOff <= MaxRounding
      /\ TransferOut(s, Redeemed(r, burn))
      /\ tranche' = [tranche EXCEPT ![r] =
                        [coll |-> tranche[r].coll - Redeemed(r, burn),
                         shares |-> tranche[r].shares - burn,
                         acc |-> tranche[r].acc]]
      /\ stake' = Stake(r, s, shares)
      /\ totalCollateral' = totalCollateral - Redeemed(r, burn)
      /\ roundedOff' = roundedOff + ((shares * tranche[r].acc) % AccScale)
      /\ UNCHANGED <<coverVars, feeAccrued, unbooked, paidOut>>

\* The cover left after a payout; the mutant leaves it, as Vault.tla does.
CoverKept(loss) == totalCover
CoverAfter(loss) == IF loss > totalCover THEN 0 ELSE totalCover - loss

\* Called by the bound settlement contract only.
PayAllocations(allocs) ==
  LET loss == AllocationSum(allocs)
  IN  /\ loss <= totalCollateral
      /\ loss <= held
      /\ tranche' = [r \in Ranks |-> [tranche[r] EXCEPT !.coll = @ - Absorbed(r, loss)]]
      /\ totalCollateral' = totalCollateral - loss
      /\ totalCover' = CoverAfter(loss)
      /\ wallet' = [a \in Accounts |-> wallet[a] + PaidTo(allocs, a)]
      /\ held' = held - loss
      /\ paidOut' = paidOut + loss
      /\ UNCHANGED <<stake, folded, frozen, feeAccrued, unbooked, roundedOff>>

SetWindow(open) ==
  /\ frozen' = ~open
  /\ UNCHANGED <<tranche, stake, totalCollateral, totalCover, folded, feeAccrued,
                 tokenVars, unbooked, historyVars>>

TranchedNext ==
  \/ \E s \in Sellers, r \in Ranks, amount \in Amounts : Deposit(s, r, amount)
  \/ \E b \in Buyers, cover \in Covers : BuyProtection(b, cover)
  \/ \E amount \in Amounts : SendPremium(amount)
  \/ \E amount \in Amounts : ReceivePremium(amount)
  \/ \E s \in Sellers, r \in Ranks : ClaimPremium(s, r)
  \/ ClaimProtocolFee
  \/ \E s \in Sellers, r \in Ranks, burn \in Burns : Withdraw(s, r, burn)
  \/ \E allocs \in AllocationLists : folded > 0 /\ PayAllocations(allocs)
  \/ \E open \in BOOLEAN : SetWindow(open)

TranchedSpec == TranchedInit /\ [][TranchedNext]_tranchedVars

-----------------------------------------------------------------------------
\* A seller's loss-adjusted collateral (seller_value).
Value(r, s) ==
  IF tranche[r].shares = 0
  THEN 0
  ELSE (stake[r][s].shares * tranche[r].coll) \div tranche[r].shares

\* What the vault owes beside the collateral (pending_premium and the fee).
PremiumOwed ==
  feeAccrued + Total([p \in Ranks \X Sellers |->
                        stake[p[1]][p[2]].claimable + Pending(p[1], p[2])])

\* Type of the state; no stake is ever granted less than its debt.
TranchedTypeOK ==
  /\ tranche \in [Ranks -> [coll : Nat, shares : Nat, acc : Nat]]
  /\ stake \in [Ranks -> [Sellers -> [shares : Nat, debt : Nat, claimable : Nat]]]
  /\ totalCollateral \in Nat /\ totalCover \in Nat /\ feeAccrued \in Nat
  /\ held \in Nat /\ wallet \in [Accounts -> Nat]
  /\ \A r \in Ranks, s \in Sellers : Pending(r, s) >= 0

\* The tranches are the reserve and the stakes the tranches: absorb_loss loses
\* exactly the payout ("remaining is 0 here", lib.rs:400), shares are never
\* worth more than one token each, and a tranche without shares is empty.
TranchesAreReserve ==
  /\ Total([r \in Ranks |-> tranche[r].coll]) = totalCollateral
  /\ \A r \in Ranks :
       /\ Total([s \in Sellers |-> stake[r][s].shares]) = tranche[r].shares
       /\ tranche[r].coll <= tranche[r].shares

\* Cover on sale never exceeds the reserve: unlike the generic vault, this one
\* takes a payout off both.
FullyFunded == totalCover <= totalCollateral

\* At every moment, after payouts too, the token balance covers the reserve,
\* the premium of every stake and the fee, but for the fractions of a token by
\* which the debts of new stakes were rounded down, in the sellers' favour.
PremiumFunded ==
  (held - unbooked) * AccScale + roundedOff >= (totalCollateral + PremiumOwed) * AccScale

\* A tranche loses collateral to a payout only when every junior one is empty,
\* whatever deposits and withdrawals came before.
JuniorFirst ==
  [][\A r \in Ranks :
       paidOut' > paidOut /\ tranche'[r].coll < tranche[r].coll =>
         \A q \in Ranks : q < r => tranche'[q].coll = 0]_tranchedVars

\* No call of somebody else, no deposit and no premium lowers the value of a
\* stake: only a payout or a withdrawal of its own does.
NobodyDiluted ==
  [][\A r \in Ranks, s \in Sellers :
       Value(r, s)' < Value(r, s) =>
         paidOut' > paidOut \/ stake'[r][s].shares < stake[r][s].shares]_tranchedVars

\* A deposit adds its amount, less rounding, to the depositor's value: the
\* losses before it are borne by those who held shares then.
KeepsDeposit(r, s) ==
  LET deposited == tranche'[r].coll - tranche[r].coll
  IN  deposited > 0 /\ wallet'[s] < wallet[s] =>
        Value(r, s)' + 1 >= Value(r, s) + deposited

Wiped(r) == tranche[r].coll = 0 /\ tranche[r].shares > 0

\* That holds of every tranche with collateral left, at any ratio of collateral
\* to shares that payouts, withdrawals and rounding have brought about.  A wiped
\* tranche mints one to one beside the old shares (lib.rs:140), whose holders
\* share in the deposit.
LiveTrancheKeepsDeposits ==
  [][\A r \in Ranks, s \in Sellers : ~Wiped(r) => KeepsDeposit(r, s)]_tranchedVars
=============================================================================
