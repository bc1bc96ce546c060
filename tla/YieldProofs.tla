----------------------------- MODULE YieldProofs -----------------------------
(***************************************************************************)
(* The protected family, vault and router together: their books agree, the *)
(* cover stays within the haircut reserve, and the premium and the coupons *)
(* they owe are there.  Sellers and holders of pBOND are the ledgers of    *)
(* SumsProofs.tla, whose lemmas carry the rounding of the accumulators.    *)
(***************************************************************************)
EXTENDS YieldRouter, SumsProofs

VaultTyped ==
  /\ totalCollateral \in Nat /\ totalCover \in Nat /\ routedCover \in Nat
  /\ acc \in Nat /\ feeAccrued \in Nat /\ floatFee \in 0..BPS
  /\ seller \in [Sellers -> [coll : Nat, debt : Nat, claimable : Nat]]
  /\ held \in Nat /\ wallet \in [Accounts -> Nat]
  /\ paidOut \in Nat /\ roundedOff \in Nat

SellerLedger ==
  [s \in Sellers |-> [stake |-> seller[s].coll, debt |-> seller[s].debt,
                      claimable |-> seller[s].claimable]]

\* The tokens of the vault beyond the reserve and the protocol's fee.
Spare == held - (totalCollateral + feeAccrued)

\* A payout takes from the pool and leaves the stakes, so that after the first
\* one the accumulator divides by less than the stakes it grants to: from then
\* on nothing is said of the tokens.
SellersFunded ==
  /\ IsLedger(Sellers, SellerLedger, acc, AccScale)
  /\ Total(StakesIn(SellerLedger)) = totalCollateral + paidOut
  /\ paidOut = 0 => Funded(SellerLedger, acc, AccScale, Spare, roundedOff)

PoolInv == VaultTyped /\ SellersFunded

YieldInv == PoolInv /\ HaircutFloor

-----------------------------------------------------------------------------
LEMMA ScaleTypes ==
  /\ AccScale \in Nat \ {0} /\ BPS \in Nat \ {0}
  /\ PremiumBps \in Nat /\ ProtocolFeeBps \in 0..BPS /\ HaircutBps \in 0..(BPS - 1)
  /\ DistFeeBps \in 0..BPS
BY YieldAssumption, RouterAssumption DEF BPS

LEMMA PartiesFinite == IsFiniteSet(Sellers) /\ IsFiniteSet(Holders)
BY YieldAssumption, FS_Subset DEF Accounts, Holders

\* A share of at most all, in basis points, is no more than the amount.
LEMMA ShareOf ==
  ASSUME NEW amount \in Nat, NEW bps \in 0..BPS
  PROVE  (amount * bps) \div BPS \in 0..amount
<1>1. bps \in Nat /\ bps <= 10000
  BY DEF BPS
<1>2. amount * bps \in Nat /\ amount * bps <= amount * 10000
  BY <1>1
<1> DEFINE x == amount * bps
<1>3. x \in Nat /\ x <= amount * 10000
  BY <1>2
<1> HIDE DEF x
<1>4. x \div 10000 \in 0..amount
  BY <1>3
<1> QED BY <1>4 DEF BPS, x

\* What the ledger says of a seller is what the contract computes.
LEMMA SellerClaims ==
  /\ \A s \in Sellers : Claims(SellerLedger, acc, AccScale)[s] = PendingPremium(s)
  /\ \A s \in Sellers : Claims(SellerLedger', acc', AccScale)[s] = PendingPremium(s)'
BY DEF Claims, SellerLedger, PendingPremium, Pending, Accrued

LEMMA SellerFigures ==
  ASSUME PoolInv, NEW s \in Sellers
  PROVE  /\ SellerLedger[s].stake = seller[s].coll /\ seller[s].coll \in Nat
         /\ PendingPremium(s) \in Nat /\ Pending(s) \in Nat
<1>1. /\ seller[s].coll \in Nat /\ seller[s].debt \in Nat /\ seller[s].claimable \in Nat
      /\ acc \in Nat /\ AccScale \in Nat \ {0}
      /\ seller[s].debt * AccScale <= seller[s].coll * acc
      /\ SellerLedger[s].stake = seller[s].coll
  BY ScaleTypes DEF PoolInv, SellersFunded, VaultTyped, IsLedger, SellerLedger
<1>2. Pending(s) \in Nat
  <2> DEFINE c == seller[s].coll
             d == seller[s].debt
  <2>1. c \in Nat /\ d \in Nat /\ d * AccScale <= c * acc
    BY <1>1
  <2> HIDE DEF c, d
  <2>2. (c * acc) \div AccScale - d \in Nat
    BY <1>1, <2>1, Regrant
  <2> QED BY <2>2 DEF Pending, Accrued, c, d
<1> QED BY <1>1, <1>2 DEF PendingPremium

\* A stake written by the contract is a stake of the ledger.
LEMMA SellerRestaked ==
  ASSUME PoolInv, NEW s \in Sellers, NEW n \in Nat, NEW p \in Nat,
         seller' = [seller EXCEPT ![s] = [coll |-> n, debt |-> Accrued(n), claimable |-> p]]
  PROVE  /\ SellerLedger' = Restaked(SellerLedger, s, n, p, acc, AccScale)
         /\ seller' \in [Sellers -> [coll : Nat, debt : Nat, claimable : Nat]]
<1>1. /\ seller'[s] = [coll |-> n, debt |-> Accrued(n), claimable |-> p]
      /\ \A x \in Sellers : x # s => seller'[x] = seller[x]
  BY DEF PoolInv, VaultTyped
<1>2. Accrued(n) \in Nat
  BY ScaleTypes, ScaledType DEF Accrued, PoolInv, VaultTyped
<1>3. \A x \in Sellers :
        SellerLedger'[x] = Restaked(SellerLedger, s, n, p, acc, AccScale)[x]
  BY <1>1 DEF SellerLedger, Restaked, Accrued
<1>4. SellerLedger' = [x \in Sellers |-> SellerLedger'[x]]
  BY DEF SellerLedger
<1>5. Restaked(SellerLedger, s, n, p, acc, AccScale)
        = [x \in Sellers |-> Restaked(SellerLedger, s, n, p, acc, AccScale)[x]]
  BY DEF SellerLedger, Restaked
<1>6. SellerLedger' = Restaked(SellerLedger, s, n, p, acc, AccScale)
  BY <1>3, <1>4, <1>5
<1>7. seller' \in [Sellers -> [coll : Nat, debt : Nat, claimable : Nat]]
  BY <1>1, <1>2 DEF PoolInv, VaultTyped
<1> QED BY <1>6, <1>7

\* A deposit or a withdrawal, which moves the stake, the pool and the tokens by
\* the same amount.
LEMMA RestakeStep ==
  ASSUME PoolInv, NEW s \in Sellers, NEW n \in Nat,
         seller' = Stake(s, n), UNCHANGED <<acc, feeAccrued, paidOut>>,
         roundedOff' = roundedOff + RoundedBy(n),
         totalCollateral' = totalCollateral - seller[s].coll + n,
         held' = held - seller[s].coll + n
  PROVE  /\ seller' \in [Sellers -> [coll : Nat, debt : Nat, claimable : Nat]]
         /\ roundedOff' \in Nat
         /\ SellersFunded'
         /\ \A x \in Sellers : PendingPremium(x)' = PendingPremium(x)
<1> DEFINE l == SellerLedger
           p == Claims(l, acc, AccScale)[s]
<1>1. /\ IsLedger(Sellers, l, acc, AccScale)
      /\ Total(StakesIn(l)) = totalCollateral + paidOut
      /\ p = PendingPremium(s) /\ p \in Nat
      /\ l[s].stake = seller[s].coll /\ seller[s].coll \in Nat
      /\ totalCollateral \in Nat /\ feeAccrued \in Nat /\ paidOut \in Nat
      /\ held \in Nat /\ roundedOff \in Nat /\ acc \in Nat
  BY SellerFigures, SellerClaims DEF PoolInv, SellersFunded, VaultTyped
<1>2. seller' = [seller EXCEPT ![s] = [coll |-> n, debt |-> Accrued(n), claimable |-> p]]
  BY <1>1 DEF Stake, PendingPremium
<1>3. /\ l' = Restaked(l, s, n, p, acc, AccScale)
      /\ seller' \in [Sellers -> [coll : Nat, debt : Nat, claimable : Nat]]
  <2> HIDE DEF l, p
  <2> QED BY <1>1, <1>2, SellerRestaked DEF l
<1>4. (n * acc) % AccScale \in Nat
  BY <1>1, ScaleTypes, GrantRounding
<1> HIDE DEF l
<1>5. Spare' = Spare
  BY <1>1 DEF Spare
<1>6. /\ IsLedger(Sellers, l', acc, AccScale)
      /\ Total(StakesIn(l')) = Total(StakesIn(l)) - l[s].stake + n
      /\ Claims(l', acc, AccScale) = Claims(l, acc, AccScale)
      /\ Funded(l, acc, AccScale, Spare, roundedOff) =>
           Funded(l', acc, AccScale, Spare, roundedOff + ((n * acc) % AccScale))
  BY <1>1, <1>3, FundedRestake
<1>7. SellersFunded'
  BY <1>1, <1>5, <1>6 DEF PoolInv, SellersFunded, RoundedBy, l
<1>8. \A x \in Sellers : PendingPremium(x)' = PendingPremium(x)
  BY <1>6, SellerClaims DEF l
<1> QED BY <1>1, <1>3, <1>4, <1>7, <1>8 DEF RoundedBy

\* Premium that has come in and is distributed.
LEMMA DistributeStep ==
  ASSUME PoolInv, NEW amount \in Nat, NEW feeBps \in 0..BPS,
         Distribute(amount, feeBps), held' = held + amount,
         UNCHANGED <<totalCollateral, seller, paidOut, roundedOff>>
  PROVE  acc' \in Nat /\ feeAccrued' \in Nat /\ SellersFunded'
<1> DEFINE l == SellerLedger
           fee == (amount * feeBps) \div BPS
           cut == SellersCut(amount, feeBps)
           grant == (cut * AccScale) \div totalCollateral
<1>1. /\ totalCollateral \in Nat \ {0}
      /\ acc' = acc + grant /\ feeAccrued' = feeAccrued + fee
      /\ acc \in Nat /\ feeAccrued \in Nat /\ held \in Nat /\ paidOut \in Nat
      /\ IsLedger(Sellers, l, acc, AccScale)
      /\ l' = l
  BY DEF Distribute, PoolInv, SellersFunded, VaultTyped, SellerLedger
<1>2. fee \in 0..amount /\ cut = amount - fee
  BY ShareOf DEF SellersCut
<1>3. cut \in Nat /\ AccScale \in Nat \ {0}
  BY <1>2, ScaleTypes
<1> HIDE DEF fee, cut, l
<1>4. grant \in Nat /\ grant * totalCollateral <= cut * AccScale
  BY <1>1, <1>3, PerShareFunded
<1> HIDE DEF grant
<1>5. IsLedger(Sellers, l, acc + grant, AccScale)
  BY <1>1, <1>4, LedgerGrant
<1>6. Spare' = Spare + cut
  BY <1>1, <1>2 DEF Spare
<1>7. ASSUME paidOut = 0
      PROVE  Funded(l, acc + grant, AccScale, Spare + cut, roundedOff)
  <2>1. /\ Funded(l, acc, AccScale, Spare, roundedOff)
        /\ Total(StakesIn(l)) = totalCollateral
    BY <1>1, <1>7 DEF PoolInv, SellersFunded, l
  <2> QED BY <1>1, <1>3, <1>4, <2>1, FundedGrant
<1>8. SellersFunded'
  BY <1>1, <1>5, <1>6, <1>7 DEF PoolInv, SellersFunded, l
<1> QED BY <1>1, <1>2, <1>4, <1>8

\* More collateral, or less cover, leaves the floor kept; and cover needs
\* collateral.
LEMMA FloorKept ==
  ASSUME NEW cover \in Nat, NEW less \in Int, NEW more \in Int, less <= more,
         Floor(cover, less)
  PROVE  Floor(cover, more) /\ less \in Nat
<1>1. BPS - HaircutBps \in Nat \ {0} /\ BPS \in Nat
  BY ScaleTypes DEF BPS
<1>2. cover * BPS \in Nat /\ cover * BPS <= less * (BPS - HaircutBps)
  BY <1>1 DEF Floor
<1> DEFINE part == BPS - HaircutBps
<1>3. part \in Nat \ {0}
  BY <1>1
<1> HIDE DEF part
<1>4. less * part <= more * part
  BY <1>3
<1>5. less * part >= 0 => less >= 0
  <2> SUFFICES ASSUME less < 0 PROVE less * part < 0
    BY <1>3
  <2>1. PICK n \in Nat \ {0} : less = 0 - n
    BY 0 - less \in Nat \ {0}
  <2>2. n * part \in Nat /\ n * part > 0 /\ less * part = 0 - n * part
    BY <1>3, <2>1
  <2> QED BY <2>2
<1> QED BY <1>2, <1>3, <1>4, <1>5 DEF Floor, part
-----------------------------------------------------------------------------
LEMMA YieldInitInv == YieldInit => YieldInv
<1> SUFFICES ASSUME YieldInit PROVE YieldInv
  OBVIOUS
<1> USE DEF YieldInit
<1>1. VaultTyped
  BY YieldAssumption DEF VaultTyped, BPS
<1>2. /\ IsLedger(Sellers, SellerLedger, acc, AccScale)
      /\ \A s \in Sellers : /\ StakesIn(SellerLedger)[s] = 0
                            /\ Earnings(SellerLedger, acc, AccScale)[s] = 0
  BY ScaleTypes, PartiesFinite
  DEF IsLedger, Stakes, SellerLedger, StakesIn, Earnings
<1>3. /\ Total(StakesIn(SellerLedger)) = 0
      /\ Total(Earnings(SellerLedger, acc, AccScale)) = 0
  BY <1>2, LedgerTypes, PartiesFinite, TotalZero
<1>4. HaircutFloor
  BY ScaleTypes DEF HaircutFloor, Floor
<1> QED BY <1>1, <1>2, <1>3, <1>4, ScaleTypes
        DEF YieldInv, PoolInv, SellersFunded, Funded, Spare

LEMMA DepositInv ==
  ASSUME YieldInv, NEW s \in Sellers, NEW amount \in Amounts, Deposit(s, amount)
  PROVE  YieldInv' /\ \A x \in Sellers : PendingPremium(x)' = PendingPremium(x)
<1> DEFINE old == seller[s].coll
<1>1. /\ amount \in Nat /\ old \in Nat
      /\ s \in Accounts /\ wallet[s] \in Nat /\ amount <= wallet[s]
  BY AmountsAssumption DEF YieldInv, PoolInv, VaultTyped, Deposit, TransferIn, Accounts
<1>2. /\ seller' = Stake(s, old + amount)
      /\ roundedOff' = roundedOff + RoundedBy(old + amount)
      /\ totalCollateral' = totalCollateral + amount
      /\ held' = held + amount
      /\ wallet' = [wallet EXCEPT ![s] = wallet[s] - amount]
      /\ UNCHANGED <<totalCover, routedCover, acc, feeAccrued, floatFee, paidOut>>
  BY DEF Deposit, TransferIn, premiumVars
<1>3. /\ old + amount \in Nat
      /\ totalCollateral' = totalCollateral - old + (old + amount)
      /\ held' = held - old + (old + amount)
  BY <1>1, <1>2 DEF YieldInv, PoolInv, VaultTyped
<1>4. /\ seller' \in [Sellers -> [coll : Nat, debt : Nat, claimable : Nat]]
      /\ roundedOff' \in Nat /\ SellersFunded'
      /\ \A x \in Sellers : PendingPremium(x)' = PendingPremium(x)
  BY <1>2, <1>3, RestakeStep DEF YieldInv
<1>5. VaultTyped'
  BY <1>1, <1>2, <1>4 DEF YieldInv, PoolInv, VaultTyped
<1>6. HaircutFloor'
  BY <1>1, <1>2, FloorKept DEF YieldInv, PoolInv, VaultTyped, HaircutFloor
<1> QED BY <1>4, <1>5, <1>6 DEF YieldInv, PoolInv

LEMMA WithdrawInv ==
  ASSUME YieldInv, NEW s \in Sellers, NEW amount \in Amounts, Withdraw(s, amount)
  PROVE  YieldInv' /\ \A x \in Sellers : PendingPremium(x)' = PendingPremium(x)
<1> DEFINE old == seller[s].coll
<1>1. /\ amount \in Nat /\ old \in Nat /\ amount <= old
      /\ s \in Accounts /\ wallet[s] \in Nat /\ amount <= held
  BY AmountsAssumption DEF YieldInv, PoolInv, VaultTyped, Withdraw, TransferOut, Accounts
<1>2. /\ seller' = Stake(s, old - amount)
      /\ roundedOff' = roundedOff + RoundedBy(old - amount)
      /\ totalCollateral' = totalCollateral - amount
      /\ held' = held - amount
      /\ wallet' = [wallet EXCEPT ![s] = wallet[s] + amount]
      /\ UNCHANGED <<totalCover, routedCover, acc, feeAccrued, floatFee, paidOut>>
      /\ Floor(totalCover + routedCover, totalCollateral - amount)
  BY DEF Withdraw, TransferOut, premiumVars
<1>3. /\ old - amount \in Nat
      /\ totalCollateral' = totalCollateral - old + (old - amount)
      /\ held' = held - old + (old - amount)
  BY <1>1, <1>2 DEF YieldInv, PoolInv, VaultTyped
<1>4. /\ seller' \in [Sellers -> [coll : Nat, debt : Nat, claimable : Nat]]
      /\ roundedOff' \in Nat /\ SellersFunded'
      /\ \A x \in Sellers : PendingPremium(x)' = PendingPremium(x)
  BY <1>2, <1>3, RestakeStep DEF YieldInv
<1>5. totalCollateral' \in Nat /\ HaircutFloor'
  <2>1. /\ totalCover + routedCover \in Nat /\ paidOut \in Nat
        /\ totalCollateral - amount \in Int
        /\ totalCollateral - amount <= totalCollateral - amount + paidOut
    BY <1>1 DEF YieldInv, PoolInv, VaultTyped
  <2>2. /\ Floor(totalCover + routedCover, totalCollateral - amount + paidOut)
        /\ totalCollateral - amount \in Nat
    BY <1>2, <2>1, FloorKept
  <2> QED BY <1>2, <2>2 DEF HaircutFloor
<1>6. VaultTyped'
  BY <1>1, <1>2, <1>4, <1>5 DEF YieldInv, PoolInv, VaultTyped
<1> QED BY <1>4, <1>5, <1>6 DEF YieldInv, PoolInv
LEMMA BuyProtectionInv ==
  ASSUME YieldInv, NEW b \in Buyers, NEW cover \in Covers, BuyProtection(b, cover)
  PROVE  YieldInv'
<1> DEFINE premium == PremiumOf(cover)
<1>1. cover \in Nat /\ premium \in Nat
  <2>1. cover \in Nat
    BY AmountsAssumption DEF BuyProtection
  <2> QED BY <2>1, ScaleTypes, ScaledType DEF PremiumOf
<1>2. /\ b \in Accounts /\ wallet[b] \in Nat /\ premium <= wallet[b]
      /\ wallet' = [wallet EXCEPT ![b] = wallet[b] - premium]
      /\ held' = held + premium
      /\ totalCover' = totalCover + cover
      /\ Floor(totalCover + routedCover + cover, totalCollateral)
      /\ UNCHANGED <<totalCollateral, routedCover, floatFee, seller, paidOut, roundedOff>>
  BY DEF BuyProtection, TransferIn, PurchaseFits, YieldInv, PoolInv, VaultTyped, Accounts
<1>3. /\ acc' \in Nat /\ feeAccrued' \in Nat /\ SellersFunded'
  <2>1. CASE premium > 0
    <3>1. Distribute(premium, ProtocolFeeBps)
      BY <2>1 DEF BuyProtection
    <3> QED BY <1>1, <1>2, <3>1, ScaleTypes, DistributeStep DEF YieldInv
  <2>2. CASE ~(premium > 0)
    <3>1. UNCHANGED <<acc, feeAccrued>> /\ held' = held
      BY <1>1, <1>2, <2>2 DEF BuyProtection, premiumVars, YieldInv, PoolInv, VaultTyped
    <3> QED BY <1>2, <3>1
            DEF YieldInv, PoolInv, VaultTyped, SellersFunded, SellerLedger, Spare
  <2> QED BY <2>1, <2>2
<1>4. VaultTyped'
  BY <1>1, <1>2, <1>3 DEF YieldInv, PoolInv, VaultTyped
<1>5. HaircutFloor'
  <2>1. /\ totalCover + cover + routedCover = totalCover + routedCover + cover
        /\ totalCover + routedCover + cover \in Nat
        /\ totalCollateral <= totalCollateral + paidOut
        /\ totalCollateral \in Int /\ totalCollateral + paidOut \in Int
    BY <1>1 DEF YieldInv, PoolInv, VaultTyped
  <2>2. Floor(totalCover + routedCover + cover, totalCollateral + paidOut)
    BY <1>2, <2>1, FloorKept
  <2> QED BY <1>2, <2>1, <2>2 DEF HaircutFloor
<1> QED BY <1>3, <1>4, <1>5 DEF YieldInv, PoolInv

LEMMA HarvestFloatInv ==
  ASSUME YieldInv, NEW amount \in Amounts, HarvestFloat(amount)
  PROVE  YieldInv'
<1>1. /\ amount \in Nat /\ floatFee \in 0..BPS
      /\ Admin \in Accounts /\ wallet[Admin] \in Nat /\ amount <= wallet[Admin]
      /\ wallet' = [wallet EXCEPT ![Admin] = wallet[Admin] - amount]
      /\ held' = held + amount
      /\ Distribute(amount, floatFee)
      /\ UNCHANGED <<totalCollateral, totalCover, routedCover, floatFee, seller,
                     paidOut, roundedOff>>
  BY AmountsAssumption
  DEF HarvestFloat, TransferIn, YieldInv, PoolInv, VaultTyped, Accounts, reserveVars
<1>2. /\ acc' \in Nat /\ feeAccrued' \in Nat /\ SellersFunded'
  BY <1>1, DistributeStep DEF YieldInv
<1>3. VaultTyped'
  BY <1>1, <1>2 DEF YieldInv, PoolInv, VaultTyped
<1> QED BY <1>1, <1>2, <1>3 DEF YieldInv, PoolInv, HaircutFloor

LEMMA ClaimPremiumInv ==
  ASSUME YieldInv, NEW s \in Sellers, ClaimPremium(s)
  PROVE  YieldInv'
<1> DEFINE l == SellerLedger
           p == PendingPremium(s)
           old == seller[s].coll
<1>1. /\ IsLedger(Sellers, l, acc, AccScale) /\ VaultTyped
      /\ p = Claims(l, acc, AccScale)[s] /\ p \in Nat
      /\ l[s].stake = old /\ old \in Nat
  BY SellerFigures, SellerClaims DEF YieldInv, PoolInv, SellersFunded
<1>2. /\ seller' = [seller EXCEPT ![s] =
                      [coll |-> old, debt |-> Accrued(old), claimable |-> 0]]
      /\ wallet' = [wallet EXCEPT ![s] = wallet[s] + p]
      /\ held' = held - p /\ p <= held
      /\ UNCHANGED <<totalCollateral, totalCover, routedCover, acc, feeAccrued,
                     floatFee, paidOut, roundedOff>>
  <2>1. [Stake(s, old) EXCEPT ![s].claimable = 0] =
          [seller EXCEPT ![s] = [coll |-> old, debt |-> Accrued(old), claimable |-> 0]]
    <3> DEFINE book == Stake(s, old)
               new == [coll |-> old, debt |-> Accrued(old), claimable |-> 0]
    <3>1. book = [seller EXCEPT ![s] =
                    [coll |-> old, debt |-> Accrued(old),
                     claimable |-> seller[s].claimable + Pending(s)]]
      BY DEF Stake
    <3>2. [book[s] EXCEPT !.claimable = 0] = new
      BY <1>1, <3>1 DEF VaultTyped
    <3>3. [book EXCEPT ![s] = new] = [seller EXCEPT ![s] = new]
      BY <1>1, <3>1 DEF VaultTyped
    <3> HIDE DEF book, new
    <3> QED BY <3>2, <3>3 DEF book, new
  <2> QED BY <2>1 DEF ClaimPremium, TransferOut, PendingPremium, reserveVars, premiumVars
<1> HIDE DEF l, p, old
<1>3. /\ l' = Restaked(l, s, old, 0, acc, AccScale)
      /\ seller' \in [Sellers -> [coll : Nat, debt : Nat, claimable : Nat]]
  BY <1>1, <1>2, SellerRestaked DEF YieldInv, l
<1>4. /\ IsLedger(Sellers, l', acc, AccScale)
      /\ Total(StakesIn(l')) = Total(StakesIn(l))
      /\ Funded(l, acc, AccScale, Spare, roundedOff) =>
           Funded(l', acc, AccScale, Spare - p, roundedOff)
  BY <1>1, <1>3, FundedClaim
<1>5. Spare' = Spare - p
  BY <1>1, <1>2 DEF Spare, VaultTyped
<1>6. SellersFunded'
  BY <1>2, <1>4, <1>5 DEF YieldInv, PoolInv, SellersFunded, l
<1>7. VaultTyped'
  <2>1. s \in Accounts /\ wallet[s] \in Nat /\ held' \in Nat
    BY <1>1, <1>2 DEF VaultTyped, Accounts
  <2> QED BY <1>1, <1>2, <1>3, <2>1 DEF VaultTyped
<1> QED BY <1>2, <1>6, <1>7 DEF YieldInv, PoolInv, HaircutFloor

LEMMA ClaimProtocolFeeInv ==
  ASSUME YieldInv, ClaimProtocolFee
  PROVE  YieldInv'
<1>1. /\ feeAccrued <= held /\ held' = held - feeAccrued /\ feeAccrued' = 0
      /\ wallet' = [wallet EXCEPT ![Admin] = wallet[Admin] + feeAccrued]
      /\ UNCHANGED <<totalCollateral, totalCover, routedCover, acc, floatFee, seller,
                     paidOut, roundedOff>>
      /\ Admin \in Accounts
  BY DEF ClaimProtocolFee, TransferOut, reserveVars, Accounts
<1>2. VaultTyped /\ VaultTyped'
  BY <1>1 DEF YieldInv, PoolInv, VaultTyped
<1>3. Spare' = Spare /\ SellerLedger' = SellerLedger
  BY <1>1, <1>2 DEF Spare, SellerLedger, VaultTyped
<1> QED BY <1>1, <1>2, <1>3 DEF YieldInv, PoolInv, SellersFunded, HaircutFloor

LEMMA PayAllocationsInv ==
  ASSUME YieldInv, NEW allocs \in AllocationLists, PayAllocations(allocs)
  PROVE  YieldInv'
<1> DEFINE loss == AllocationSum(allocs)
<1>1. loss \in Nat /\ \A a : PaidTo(allocs, a) \in Nat
  <2>1. /\ IsFiniteSet(DOMAIN allocs)
        /\ \A i \in DOMAIN allocs : allocs[i].amount \in Int /\ allocs[i].amount > 0
    BY ListsAssumption DEF PayAllocations
  <2> QED BY <2>1, PaymentsType
<1>2. /\ loss <= totalCollateral /\ loss <= held
      /\ wallet' = [a \in Accounts |-> wallet[a] + PaidTo(allocs, a)]
      /\ held' = held - loss
      /\ totalCollateral' = totalCollateral - loss
      /\ paidOut' = paidOut + loss
      /\ UNCHANGED <<totalCover, routedCover, acc, feeAccrued, floatFee, seller, roundedOff>>
  BY DEF PayAllocations, premiumVars
<1> HIDE DEF loss
<1>3. /\ VaultTyped /\ VaultTyped'
      /\ totalCollateral' + paidOut' = totalCollateral + paidOut
  BY <1>1, <1>2 DEF YieldInv, PoolInv, VaultTyped
<1>4. SellerLedger' = SellerLedger /\ Spare' = Spare
  BY <1>1, <1>2, <1>3 DEF SellerLedger, Spare, VaultTyped
<1>5. paidOut' = 0 => paidOut = 0
  BY <1>1, <1>2, <1>3 DEF VaultTyped
<1> QED BY <1>2, <1>3, <1>4, <1>5 DEF YieldInv, PoolInv, SellersFunded, HaircutFloor

\* Every call of somebody other than the router keeps the books.
LEMMA VaultCallInv ==
  ASSUME YieldInv, VaultCall
  PROVE  YieldInv'
<1>1. CASE \E s \in Sellers, amount \in Amounts : Deposit(s, amount)
  BY <1>1, DepositInv
<1>2. CASE \E b \in Buyers, cover \in Covers : BuyProtection(b, cover)
  BY <1>2, BuyProtectionInv
<1>3. CASE \E s \in Sellers : ClaimPremium(s)
  BY <1>3, ClaimPremiumInv
<1>4. CASE ClaimProtocolFee
  BY <1>4, ClaimProtocolFeeInv
<1>5. CASE \E bps \in FloatFees : SetFloatFee(bps)
  <2> PICK bps \in FloatFees : SetFloatFee(bps)
    BY <1>5
  <2>1. bps \in 0..BPS
    BY YieldAssumption
  <2> QED BY <2>1
          DEF SetFloatFee, reserveVars, premiumVars, tokenVars, YieldInv, PoolInv,
              VaultTyped, SellersFunded, SellerLedger, Spare, HaircutFloor
<1>6. CASE \E amount \in Amounts : HarvestFloat(amount)
  BY <1>6, HarvestFloatInv
<1>7. CASE \E s \in Sellers, amount \in Amounts : Withdraw(s, amount)
  BY <1>7, WithdrawInv
<1>8. CASE \E allocs \in AllocationLists : PayAllocations(allocs)
  BY <1>8, PayAllocationsInv
<1>9. CASE \E open \in BOOLEAN : SetWindow(open)
  BY <1>9
  DEF SetWindow, premiumVars, tokenVars, YieldInv, PoolInv, VaultTyped, SellersFunded,
      SellerLedger, Spare, HaircutFloor
<1> QED BY <1>1, <1>2, <1>3, <1>4, <1>5, <1>6, <1>7, <1>8, <1>9 DEF VaultCall
-----------------------------------------------------------------------------
RouterTyped ==
  /\ supply \in Nat /\ accNet \in Nat /\ distFee \in Nat
  /\ holder \in [Holders -> [bal : Nat, debt : Nat, claimable : Nat]]
  /\ bonds \in [router : Nat, of : [Holders -> Nat]]
  /\ couponsHeld \in Nat /\ netRounded \in Nat

LedgerOf(book) ==
  [h \in Holders |-> [stake |-> book[h].bal, debt |-> book[h].debt,
                      claimable |-> book[h].claimable]]

\* The coupon tokens of the router beyond the distribution fee.
NetSpare == couponsHeld - distFee

\* A transfer to oneself makes pBOND that no supply stands for; without one the
\* balances are the supply that a coupon is divided by.
HoldersFunded ==
  /\ IsLedger(Holders, LedgerOf(holder), accNet, AccScale)
  /\ ~SelfTransfers =>
       /\ Total(StakesIn(LedgerOf(holder))) = supply
       /\ Funded(LedgerOf(holder), accNet, AccScale, NetSpare, netRounded)

CoverRegistered == routedCover = supply /\ bonds.router = supply

RouterInv == YieldInv /\ RouterTyped /\ HoldersFunded /\ CoverRegistered

-----------------------------------------------------------------------------
LEMMA RouterInitInv == RouterInit => RouterInv
<1> SUFFICES ASSUME RouterInit PROVE RouterInv
  OBVIOUS
<1> USE DEF RouterInit
<1> DEFINE l == LedgerOf(holder)
<1>1. YieldInv
  BY YieldInitInv
<1>2. RouterTyped
  BY RouterAssumption DEF RouterTyped
<1>3. /\ IsLedger(Holders, l, accNet, AccScale)
      /\ \A h \in Holders : /\ StakesIn(l)[h] = 0
                            /\ Earnings(l, accNet, AccScale)[h] = 0
  BY ScaleTypes, PartiesFinite DEF IsLedger, Stakes, LedgerOf, StakesIn, Earnings
<1> HIDE DEF l
<1>4. Total(StakesIn(l)) = 0 /\ Total(Earnings(l, accNet, AccScale)) = 0
  BY <1>3, LedgerTypes, PartiesFinite, TotalZero
<1>5. CoverRegistered
  BY DEF CoverRegistered, YieldInit
<1> QED BY <1>1, <1>2, <1>3, <1>4, <1>5, ScaleTypes
        DEF RouterInv, HoldersFunded, Funded, NetSpare, l

\* A balance written by the router is a stake of the ledger.
LEMMA HolderRestaked ==
  ASSUME accNet \in Nat,
         NEW book \in [Holders -> [bal : Nat, debt : Nat, claimable : Nat]],
         NEW h \in Holders, NEW n \in Nat, NEW p \in Nat
  PROVE  LedgerOf([book EXCEPT ![h] = [bal |-> n, debt |-> Net(n), claimable |-> p]])
           = Restaked(LedgerOf(book), h, n, p, accNet, AccScale)
<1> DEFINE new == [book EXCEPT ![h] = [bal |-> n, debt |-> Net(n), claimable |-> p]]
           ledger == Restaked(LedgerOf(book), h, n, p, accNet, AccScale)
<1>1. /\ new[h] = [bal |-> n, debt |-> Net(n), claimable |-> p]
      /\ \A x \in Holders : x # h => new[x] = book[x]
  OBVIOUS
<1> HIDE DEF new
<1>4. \A x \in Holders : LedgerOf(new)[x] = ledger[x]
  BY <1>1 DEF LedgerOf, Restaked, Net
<1>5. LedgerOf(new) = [x \in Holders |-> LedgerOf(new)[x]]
  BY DEF LedgerOf
<1>6. ledger = [x \in Holders |-> ledger[x]]
  BY DEF LedgerOf, Restaked
<1> HIDE DEF ledger
<1>7. LedgerOf(new) = ledger
  BY <1>4, <1>5, <1>6
<1> QED BY <1>7 DEF new, ledger

\* What the ledger says of a holder is what the router computes.
LEMMA HolderFigures ==
  ASSUME RouterInv, NEW h \in Holders
  PROVE  /\ LedgerOf(holder)[h].stake = holder[h].bal /\ holder[h].bal \in Nat
         /\ Claims(LedgerOf(holder), accNet, AccScale)[h] = PendingCoupon(h)
         /\ PendingCoupon(h) \in Nat
<1> DEFINE l == LedgerOf(holder)
<1>1. /\ l[h].stake = holder[h].bal /\ holder[h].bal \in Nat
      /\ Claims(l, accNet, AccScale)[h] = PendingCoupon(h)
  BY DEF RouterInv, RouterTyped, LedgerOf, Claims, PendingCoupon, PendingNet, Net
<1>2. Claims(l, accNet, AccScale) \in [Holders -> Nat]
  <2>1. IsLedger(Holders, l, accNet, AccScale)
    BY DEF RouterInv, HoldersFunded
  <2> HIDE DEF l
  <2> QED BY <2>1, LedgerTypes
<1> QED BY <1>1, <1>2

\* The balance of a holder changes and his coupons stay.
LEMMA RebalanceStep ==
  ASSUME RouterInv, NEW h \in Holders, NEW n \in Nat,
         holder' = [holder EXCEPT ![h] = Rebalanced(h, n)],
         UNCHANGED <<accNet, distFee, couponsHeld>>,
         netRounded' = netRounded + NetRounding(n),
         supply' = supply - holder[h].bal + n
  PROVE  /\ holder' \in [Holders -> [bal : Nat, debt : Nat, claimable : Nat]]
         /\ netRounded' \in Nat
         /\ HoldersFunded'
<1> DEFINE l == LedgerOf(holder)
           p == Claims(l, accNet, AccScale)[h]
<1>1. /\ IsLedger(Holders, l, accNet, AccScale)
      /\ p = PendingCoupon(h) /\ p \in Nat
      /\ l[h].stake = holder[h].bal
      /\ holder \in [Holders -> [bal : Nat, debt : Nat, claimable : Nat]]
      /\ accNet \in Nat /\ netRounded \in Nat
  BY HolderFigures DEF RouterInv, RouterTyped, HoldersFunded
<1>2. holder' = [holder EXCEPT ![h] = [bal |-> n, debt |-> Net(n), claimable |-> p]]
  BY <1>1 DEF Rebalanced, PendingCoupon
<1> HIDE DEF p
<1>3. /\ l' = Restaked(l, h, n, p, accNet, AccScale)
      /\ holder' \in [Holders -> [bal : Nat, debt : Nat, claimable : Nat]]
  <2>1. LedgerOf(holder') = Restaked(LedgerOf(holder), h, n, p, accNet, AccScale)
    BY <1>1, <1>2, HolderRestaked
  <2>2. holder' \in [Holders -> [bal : Nat, debt : Nat, claimable : Nat]]
    <3>1. Net(n) \in Nat
      BY <1>1, ScaleTypes, ScaledType DEF Net
    <3> QED BY <1>1, <1>2, <3>1
  <2>3. l' = LedgerOf(holder')
    BY DEF LedgerOf
  <2> QED BY <2>1, <2>2, <2>3
<1>4. NetRounding(n) \in Nat /\ NetSpare' = NetSpare
  BY <1>1, ScaleTypes, GrantRounding DEF NetRounding, NetSpare
<1> HIDE DEF l
<1>5. /\ IsLedger(Holders, l', accNet, AccScale)
      /\ Total(StakesIn(l')) = Total(StakesIn(l)) - l[h].stake + n
      /\ Funded(l, accNet, AccScale, NetSpare, netRounded) =>
           Funded(l', accNet, AccScale, NetSpare, netRounded + ((n * accNet) % AccScale))
  BY <1>1, <1>3, FundedRestake DEF p
<1>6. HoldersFunded'
  BY <1>1, <1>4, <1>5 DEF RouterInv, HoldersFunded, NetRounding, l
<1> QED BY <1>1, <1>3, <1>4, <1>6

\* set_routed_cover keeps the floor and touches no premium.
LEMMA RegisterInv ==
  ASSUME YieldInv, NEW cover \in Nat, RegisterCover(cover), VaultSideOfCover
  PROVE  YieldInv'
<1>1. /\ routedCover' = cover
      /\ Floor(totalCover + cover, totalCollateral)
      /\ UNCHANGED <<totalCollateral, totalCover, paidOut, acc, feeAccrued, floatFee,
                     seller, held, wallet, roundedOff>>
  BY DEF RegisterCover, VaultSideOfCover, premiumVars, tokenVars
<1>2. VaultTyped' /\ SellerLedger' = SellerLedger /\ Spare' = Spare
  BY <1>1 DEF YieldInv, PoolInv, VaultTyped, SellerLedger, Spare
<1>3. HaircutFloor'
  <2>1. /\ totalCover + cover \in Nat
        /\ totalCollateral \in Int /\ totalCollateral + paidOut \in Int
        /\ totalCollateral <= totalCollateral + paidOut
    BY DEF YieldInv, PoolInv, VaultTyped
  <2> QED BY <1>1, <2>1, FloorKept DEF HaircutFloor
<1> QED BY <1>1, <1>2, <1>3 DEF YieldInv, PoolInv, SellersFunded
-----------------------------------------------------------------------------
LEMMA WrapInv ==
  ASSUME RouterInv, NEW h \in Holders, NEW amount \in WrapAmounts, Wrap(h, amount)
  PROVE  RouterInv'
<1> DEFINE old == holder[h].bal
<1>1. /\ amount \in Nat /\ old \in Nat /\ supply \in Nat
      /\ amount <= bonds.of[h] /\ bonds.of[h] \in Nat /\ bonds.router \in Nat
  BY RouterAssumption, HolderFigures DEF Wrap, RouterInv, RouterTyped
<1>2. /\ bonds' = [router |-> bonds.router + amount,
                   of |-> [bonds.of EXCEPT ![h] = bonds.of[h] - amount]]
      /\ holder' = [holder EXCEPT ![h] = Rebalanced(h, old + amount)]
      /\ supply' = supply + amount
      /\ netRounded' = netRounded + NetRounding(old + amount)
      /\ RegisterCover(supply + amount) /\ VaultSideOfCover
      /\ UNCHANGED <<accNet, distFee, couponsHeld>>
  BY DEF Wrap
<1>3. old + amount \in Nat /\ supply' = supply - old + (old + amount)
  BY <1>1, <1>2
<1>4. /\ holder' \in [Holders -> [bal : Nat, debt : Nat, claimable : Nat]]
      /\ netRounded' \in Nat /\ HoldersFunded'
  BY <1>2, <1>3, RebalanceStep
<1>5. RouterTyped'
  <2>1. /\ bonds.router + amount \in Nat /\ bonds.of[h] - amount \in Nat
        /\ supply' \in Nat
    BY <1>1, <1>2
  <2>2. bonds' \in [router : Nat, of : [Holders -> Nat]]
    BY <1>2, <2>1 DEF RouterInv, RouterTyped
  <2> QED BY <1>2, <1>4, <2>1, <2>2 DEF RouterInv, RouterTyped
<1>6. YieldInv'
  BY <1>1, <1>2, RegisterInv DEF RouterInv
<1>7. CoverRegistered'
  BY <1>1, <1>2 DEF RouterInv, RouterTyped, CoverRegistered, RegisterCover
<1> QED BY <1>4, <1>5, <1>6, <1>7 DEF RouterInv

LEMMA UnwrapInv ==
  ASSUME RouterInv, NEW h \in Holders, NEW amount \in WrapAmounts, Unwrap(h, amount)
  PROVE  RouterInv'
<1> DEFINE old == holder[h].bal
<1>1. /\ amount \in Nat /\ old \in Nat /\ supply \in Nat
      /\ amount <= old /\ amount <= bonds.router /\ amount <= supply
      /\ bonds.of[h] \in Nat /\ bonds.router \in Nat
  BY RouterAssumption, HolderFigures DEF Unwrap, RouterInv, RouterTyped
<1>2. /\ bonds' = [router |-> bonds.router - amount,
                   of |-> [bonds.of EXCEPT ![h] = bonds.of[h] + amount]]
      /\ holder' = [holder EXCEPT ![h] = Rebalanced(h, old - amount)]
      /\ supply' = supply - amount
      /\ netRounded' = netRounded + NetRounding(old - amount)
      /\ RegisterCover(supply - amount) /\ VaultSideOfCover
      /\ UNCHANGED <<accNet, distFee, couponsHeld>>
  BY DEF Unwrap
<1>3. old - amount \in Nat /\ supply' = supply - old + (old - amount)
  BY <1>1, <1>2
<1>4. /\ holder' \in [Holders -> [bal : Nat, debt : Nat, claimable : Nat]]
      /\ netRounded' \in Nat /\ HoldersFunded'
  BY <1>2, <1>3, RebalanceStep
<1>5. RouterTyped'
  <2>1. /\ bonds.router - amount \in Nat /\ bonds.of[h] + amount \in Nat
        /\ supply' \in Nat
    BY <1>1, <1>2
  <2>2. bonds' \in [router : Nat, of : [Holders -> Nat]]
    BY <1>2, <2>1 DEF RouterInv, RouterTyped
  <2> QED BY <1>2, <1>4, <2>1, <2>2 DEF RouterInv, RouterTyped
<1>6. YieldInv'
  <2>1. supply - amount \in Nat
    BY <1>1
  <2> QED BY <1>2, <2>1, RegisterInv DEF RouterInv
<1>7. CoverRegistered'
  BY <1>1, <1>2 DEF RouterInv, RouterTyped, CoverRegistered, RegisterCover
<1> QED BY <1>4, <1>5, <1>6, <1>7 DEF RouterInv

\* A coupon: the premium is distributed by the vault, the rest by the router.
LEMMA RouteCouponInv ==
  ASSUME RouterInv, NEW gross \in Grosses, RouteCoupon(Admin, gross)
  PROVE  RouterInv'
<1> DEFINE l == LedgerOf(holder)
           net == NetOf(gross)
           grant == (net * AccScale) \div supply
<1>1. /\ gross \in Nat /\ supply \in Nat \ {0}
      /\ Admin \in Accounts /\ wallet[Admin] \in Nat /\ gross <= wallet[Admin]
  BY RouterAssumption
  DEF RouteCoupon, RouterInv, RouterTyped, YieldInv, PoolInv, VaultTyped, Accounts
<1>2. /\ wallet' = [wallet EXCEPT ![Admin] = wallet[Admin] - gross]
      /\ held' = held + ToVault(gross)
      /\ couponsHeld' = couponsHeld + gross - ToVault(gross)
      /\ distFee' = distFee + DistCut(gross)
      /\ accNet' = accNet + grant
      /\ UNCHANGED <<totalCollateral, totalCover, routedCover, paidOut, floatFee, seller,
                     roundedOff, supply, holder, bonds, netRounded>>
  BY DEF RouteCoupon, reserveVars
<1>3. /\ RoutedPremium(gross) \in 0..gross
      /\ DistCut(gross) \in 0..RoutedPremium(gross)
      /\ ToVault(gross) = RoutedPremium(gross) - DistCut(gross)
      /\ net = gross - RoutedPremium(gross)
  <2>1. (supply * PremiumBps) \div BPS \in Nat
    BY <1>1, ScaleTypes, ScaledType
  <2>2. RoutedPremium(gross) \in 0..gross
    BY <1>1, <2>1 DEF RoutedPremium, Lesser
  <2>3. DistCut(gross) \in 0..RoutedPremium(gross)
    BY <2>2, ScaleTypes, ShareOf DEF DistCut
  <2> QED BY <2>2, <2>3 DEF ToVault, NetOf
<1>4. ToVault(gross) \in Nat /\ net \in Nat /\ ToVault(gross) + DistCut(gross) + net = gross
  BY <1>1, <1>3
<1>5. acc' \in Nat /\ feeAccrued' \in Nat /\ SellersFunded'
  <2>1. CASE ToVault(gross) > 0
    <3>1. Distribute(ToVault(gross), ProtocolFeeBps)
      BY <2>1 DEF RouteCoupon
    <3> QED BY <1>2, <1>4, <3>1, ScaleTypes, DistributeStep DEF RouterInv, YieldInv
  <2>2. CASE ~(ToVault(gross) > 0)
    <3>1. UNCHANGED <<acc, feeAccrued>>
      BY <2>2 DEF RouteCoupon, premiumVars
    <3>2. held' = held
      BY <1>2, <1>4, <2>2 DEF RouterInv, YieldInv, PoolInv, VaultTyped
    <3> QED BY <1>2, <3>1, <3>2
            DEF RouterInv, YieldInv, PoolInv, VaultTyped, SellersFunded, SellerLedger, Spare
  <2> QED BY <2>1, <2>2
<1>6. VaultTyped'
  BY <1>1, <1>2, <1>4, <1>5 DEF RouterInv, YieldInv, PoolInv, VaultTyped
<1>7. YieldInv'
  BY <1>2, <1>5, <1>6 DEF RouterInv, YieldInv, PoolInv, HaircutFloor
<1> HIDE DEF net
<1>8. grant \in Nat /\ grant * supply <= net * AccScale
  BY <1>1, <1>4, ScaleTypes, PerShareFunded
<1> HIDE DEF grant
<1>9. /\ IsLedger(Holders, l, accNet, AccScale) /\ l' = l
      /\ accNet \in Nat /\ distFee \in Nat /\ couponsHeld \in Nat
  BY <1>2 DEF RouterInv, RouterTyped, HoldersFunded, LedgerOf
<1>10. RouterTyped'
  BY <1>1, <1>2, <1>3, <1>4, <1>8 DEF RouterInv, RouterTyped
<1>11. NetSpare' = NetSpare + net
  BY <1>1, <1>2, <1>3, <1>4, <1>9 DEF NetSpare
<1> HIDE DEF l
<1>12. IsLedger(Holders, l, accNet + grant, AccScale)
  BY <1>8, <1>9, LedgerGrant
<1>13. ASSUME ~SelfTransfers
       PROVE  /\ Total(StakesIn(l)) = supply
              /\ Funded(l, accNet + grant, AccScale, NetSpare + net, netRounded)
  <2>1. /\ Funded(l, accNet, AccScale, NetSpare, netRounded)
        /\ Total(StakesIn(l)) = supply
    BY <1>13 DEF RouterInv, HoldersFunded, l
  <2> QED BY <1>4, <1>8, <1>9, <2>1, FundedGrant
<1>14. HoldersFunded'
  BY <1>2, <1>9, <1>11, <1>12, <1>13 DEF HoldersFunded, l
<1>15. CoverRegistered'
  BY <1>2 DEF RouterInv, CoverRegistered
<1> QED BY <1>7, <1>10, <1>14, <1>15 DEF RouterInv

\* What the router pays leaves the vault alone.
LEMMA RouterPaysInv ==
  ASSUME RouterInv, NEW to \in Accounts, NEW amount \in Nat, RouterPays(to, amount)
  PROVE  /\ YieldInv' /\ CoverRegistered' /\ couponsHeld' \in Nat
         /\ couponsHeld' = couponsHeld - amount
<1>1. /\ amount <= couponsHeld /\ couponsHeld' = couponsHeld - amount
      /\ wallet' = [wallet EXCEPT ![to] = wallet[to] + amount]
      /\ UNCHANGED <<totalCollateral, totalCover, routedCover, paidOut, acc, feeAccrued,
                     floatFee, seller, held, roundedOff, supply, bonds>>
  BY DEF RouterPays, reserveVars, premiumVars
<1>2. /\ VaultTyped' /\ SellerLedger' = SellerLedger /\ Spare' = Spare
      /\ couponsHeld' \in Nat
  BY <1>1 DEF RouterInv, RouterTyped, YieldInv, PoolInv, VaultTyped, SellerLedger, Spare
<1> QED BY <1>1, <1>2
        DEF RouterInv, YieldInv, PoolInv, SellersFunded, HaircutFloor, CoverRegistered

LEMMA ClaimCouponInv ==
  ASSUME RouterInv, NEW h \in Holders, ClaimCoupon(h)
  PROVE  RouterInv'
<1> DEFINE l == LedgerOf(holder)
           p == PendingCoupon(h)
           old == holder[h].bal
<1>1. /\ IsLedger(Holders, l, accNet, AccScale)
      /\ p = Claims(l, accNet, AccScale)[h] /\ p \in Nat
      /\ l[h].stake = old /\ old \in Nat
      /\ h \in Accounts
      /\ accNet \in Nat /\ couponsHeld \in Nat /\ distFee \in Nat
      /\ holder \in [Holders -> [bal : Nat, debt : Nat, claimable : Nat]]
  BY HolderFigures DEF RouterInv, RouterTyped, HoldersFunded, Holders, Accounts
<1>2. /\ holder' = [holder EXCEPT ![h] = [bal |-> old, debt |-> Net(old), claimable |-> 0]]
      /\ RouterPays(h, p)
      /\ UNCHANGED <<distFee, supply, accNet, bonds, netRounded>>
  BY DEF ClaimCoupon, PendingCoupon, RouterPays
<1>3. YieldInv' /\ CoverRegistered' /\ couponsHeld' \in Nat /\ couponsHeld' = couponsHeld - p
  BY <1>1, <1>2, RouterPaysInv
<1> HIDE DEF p, old
<1>4. l' = Restaked(l, h, old, 0, accNet, AccScale)
  <2>1. LedgerOf(holder') = Restaked(LedgerOf(holder), h, old, 0, accNet, AccScale)
    BY <1>1, <1>2, HolderRestaked
  <2>2. l' = LedgerOf(holder')
    BY DEF LedgerOf
  <2> QED BY <2>1, <2>2
<1>5. RouterTyped'
  <2>1. Net(old) \in Nat
    BY <1>1, ScaleTypes, ScaledType DEF Net
  <2> QED BY <1>1, <1>2, <1>3, <2>1 DEF RouterInv, RouterTyped
<1> HIDE DEF l
<1>6. /\ IsLedger(Holders, l', accNet, AccScale)
      /\ Total(StakesIn(l')) = Total(StakesIn(l))
      /\ Funded(l, accNet, AccScale, NetSpare, netRounded) =>
           Funded(l', accNet, AccScale, NetSpare - p, netRounded)
  BY <1>1, <1>4, FundedClaim
<1>7. NetSpare' = NetSpare - p
  BY <1>1, <1>2, <1>3 DEF NetSpare
<1>8. HoldersFunded'
  BY <1>2, <1>6, <1>7 DEF RouterInv, HoldersFunded, l
<1> QED BY <1>3, <1>5, <1>8 DEF RouterInv

LEMMA ClaimDistFeeInv ==
  ASSUME RouterInv, ClaimDistFee
  PROVE  RouterInv'
<1>1. /\ distFee' = 0 /\ RouterPays(Admin, distFee)
      /\ UNCHANGED <<holder, supply, accNet, bonds, netRounded>>
      /\ Admin \in Accounts /\ distFee \in Nat /\ couponsHeld \in Nat
  BY DEF ClaimDistFee, RouterPays, Accounts, RouterInv, RouterTyped
<1>2. /\ YieldInv' /\ CoverRegistered' /\ couponsHeld' \in Nat
      /\ couponsHeld' = couponsHeld - distFee
  BY <1>1, RouterPaysInv
<1>3. NetSpare' = NetSpare /\ LedgerOf(holder)' = LedgerOf(holder)
  BY <1>1, <1>2 DEF NetSpare, LedgerOf
<1> QED BY <1>1, <1>2, <1>3 DEF RouterInv, RouterTyped, HoldersFunded
\* A transfer is two balances written, the sender's and then the receiver's, each
\* computed from what was read before either write.
LEMMA TransferInv ==
  ASSUME RouterInv, NEW from \in Holders, NEW to \in Holders,
         NEW amount \in WrapAmounts, Transfer(from, to, amount)
  PROVE  RouterInv'
<1> DEFINE l == LedgerOf(holder)
           m == holder[from].bal - amount
           n == holder[to].bal + amount
           p == PendingCoupon(from)
           q == PendingCoupon(to)
           mid == [holder EXCEPT ![from] = [bal |-> m, debt |-> Net(m), claimable |-> p]]
           l1 == LedgerOf(mid)
<1>1. /\ amount \in Nat /\ amount > 0 /\ m \in Nat /\ n \in Nat
      /\ l[from].stake = holder[from].bal /\ l[to].stake = holder[to].bal
      /\ holder[from].bal \in Nat /\ holder[to].bal \in Nat
  BY RouterAssumption, HolderFigures DEF Transfer
<1>2. /\ p = Claims(l, accNet, AccScale)[from] /\ p \in Nat
      /\ q = Claims(l, accNet, AccScale)[to] /\ q \in Nat
  BY HolderFigures
<1>3. /\ IsLedger(Holders, l, accNet, AccScale)
      /\ accNet \in Nat /\ netRounded \in Nat /\ supply \in Nat
      /\ holder \in [Holders -> [bal : Nat, debt : Nat, claimable : Nat]]
  BY DEF RouterInv, RouterTyped, HoldersFunded
<1>4. /\ holder' = [mid EXCEPT ![to] = [bal |-> n, debt |-> Net(n), claimable |-> q]]
      /\ netRounded' = netRounded + NetRounding(m) + NetRounding(n)
      /\ SelfTransfers \/ from # to
      /\ UNCHANGED <<yieldVars, supply, accNet, distFee, bonds, couponsHeld>>
  BY DEF Transfer, Rebalanced, PendingCoupon
<1>5. /\ Net(m) \in Nat /\ Net(n) \in Nat
      /\ NetRounding(m) \in Nat /\ NetRounding(n) \in Nat
  <2> HIDE DEF m, n
  <2>1. /\ Net(m) \in Nat /\ Net(n) \in Nat
    BY <1>1, <1>3, ScaleTypes, ScaledType DEF Net
  <2>2. /\ NetRounding(m) \in Nat /\ NetRounding(n) \in Nat
    BY <1>1, <1>3, ScaleTypes, GrantRounding DEF NetRounding
  <2> QED BY <2>1, <2>2
<1> HIDE DEF m, n, p, q
<1>6. /\ mid \in [Holders -> [bal : Nat, debt : Nat, claimable : Nat]]
      /\ l1 = Restaked(l, from, m, p, accNet, AccScale)
  BY <1>1, <1>2, <1>3, <1>5, HolderRestaked
<1>7. from # to => mid[to] = holder[to]
  BY <1>3
<1> HIDE DEF mid
<1>8. /\ holder' \in [Holders -> [bal : Nat, debt : Nat, claimable : Nat]]
      /\ LedgerOf(holder') = Restaked(l1, to, n, q, accNet, AccScale)
  BY <1>1, <1>2, <1>3, <1>4, <1>5, <1>6, HolderRestaked
<1>9. l' = LedgerOf(holder')
  BY DEF LedgerOf
<1>10. from # to => l1[to].stake = holder[to].bal
  BY <1>7 DEF LedgerOf
<1> HIDE DEF l, l1
<1>11. /\ IsLedger(Holders, l1, accNet, AccScale)
       /\ Total(StakesIn(l1)) = Total(StakesIn(l)) - holder[from].bal + m
       /\ Claims(l1, accNet, AccScale) = Claims(l, accNet, AccScale)
       /\ Funded(l, accNet, AccScale, NetSpare, netRounded) =>
            Funded(l1, accNet, AccScale, NetSpare, netRounded + ((m * accNet) % AccScale))
  BY <1>1, <1>2, <1>3, <1>6, FundedRestake
<1>12. NetSpare' = NetSpare /\ routedCover' = routedCover /\ YieldInv'
  BY <1>4
  DEF NetSpare, yieldVars, reserveVars, premiumVars, tokenVars, RouterInv, YieldInv,
      PoolInv, VaultTyped, SellersFunded, SellerLedger, Spare, HaircutFloor
<1>13. IsLedger(Holders, l', accNet, AccScale)
  <2> DEFINE l2 == Restaked(l1, to, n, q, accNet, AccScale)
  <2>1. n \in Nat /\ q \in Nat /\ IsLedger(Holders, l1, accNet, AccScale)
    BY <1>1, <1>2, <1>11
  <2>2. IsLedger(Holders, l2, accNet, AccScale)
    BY <2>1, LedgerRestake
  <2> QED BY <1>8, <1>9, <2>2
<1>14. ASSUME ~SelfTransfers
       PROVE  /\ Total(StakesIn(l')) = supply
              /\ Funded(l', accNet, AccScale, NetSpare, netRounded')
  <2>1. from # to /\ Funded(l, accNet, AccScale, NetSpare, netRounded)
        /\ Total(StakesIn(l)) = supply
    BY <1>4, <1>14 DEF RouterInv, HoldersFunded, l
  <2>2. q = Claims(l1, accNet, AccScale)[to] /\ l1[to].stake = holder[to].bal
    BY <1>2, <1>10, <1>11, <2>1
  <2>3. Funded(l1, accNet, AccScale, NetSpare, netRounded + NetRounding(m))
    BY <1>11, <2>1 DEF NetRounding
  <2>4. LedgerOf(holder') = Restaked(l1, to, n, Claims(l1, accNet, AccScale)[to], accNet, AccScale)
    BY <1>8, <2>2
  <2>5. /\ Total(StakesIn(l')) = Total(StakesIn(l1)) - holder[to].bal + n
        /\ Funded(l', accNet, AccScale, NetSpare,
                  (netRounded + NetRounding(m)) + ((n * accNet) % AccScale))
    BY <1>1, <1>9, <1>11, <2>2, <2>3, <2>4, FundedRestake
  <2>6. Total(StakesIn(l')) = supply
    BY <1>1, <1>3, <1>11, <2>1, <2>5 DEF m, n
  <2> QED BY <1>4, <2>5, <2>6 DEF NetRounding
<1>15. HoldersFunded'
  BY <1>4, <1>12, <1>13, <1>14 DEF HoldersFunded, l
<1>16. RouterTyped' /\ CoverRegistered'
  BY <1>3, <1>4, <1>5, <1>8, <1>12 DEF RouterInv, RouterTyped, CoverRegistered
<1> QED BY <1>12, <1>15, <1>16 DEF RouterInv
-----------------------------------------------------------------------------
\* No caller of the vault but the router changes the cover of the router.
LEMMA VaultCallKeepsRouted ==
  ASSUME VaultCall
  PROVE  routedCover' = routedCover
<1> USE DEF reserveVars
<1>1. CASE \E s \in Sellers, amount \in Amounts : Deposit(s, amount)
  BY <1>1 DEF Deposit
<1>2. CASE \E b \in Buyers, cover \in Covers : BuyProtection(b, cover)
  BY <1>2 DEF BuyProtection
<1>3. CASE \E s \in Sellers : ClaimPremium(s)
  BY <1>3 DEF ClaimPremium
<1>4. CASE ClaimProtocolFee
  BY <1>4 DEF ClaimProtocolFee
<1>5. CASE \E bps \in FloatFees : SetFloatFee(bps)
  BY <1>5 DEF SetFloatFee
<1>6. CASE \E amount \in Amounts : HarvestFloat(amount)
  BY <1>6 DEF HarvestFloat
<1>7. CASE \E s \in Sellers, amount \in Amounts : Withdraw(s, amount)
  BY <1>7 DEF Withdraw
<1>8. CASE \E allocs \in AllocationLists : PayAllocations(allocs)
  BY <1>8 DEF PayAllocations
<1>9. CASE \E open \in BOOLEAN : SetWindow(open)
  BY <1>9 DEF SetWindow
<1> QED BY <1>1, <1>2, <1>3, <1>4, <1>5, <1>6, <1>7, <1>8, <1>9 DEF VaultCall

LEMMA RouterNextInv == RouterInv /\ [RouterNext]_allVars => RouterInv'
<1> SUFFICES ASSUME RouterInv, [RouterNext]_allVars PROVE RouterInv'
  OBVIOUS
<1>1. CASE VaultCall /\ UNCHANGED routerVars
  <2>1. YieldInv' /\ routedCover' = routedCover
    BY <1>1, VaultCallInv, VaultCallKeepsRouted DEF RouterInv
  <2> QED BY <1>1, <2>1
          DEF routerVars, RouterInv, RouterTyped, HoldersFunded, LedgerOf, NetSpare,
              CoverRegistered
<1>2. CASE \E h \in Holders, amount \in WrapAmounts : Wrap(h, amount)
  BY <1>2, WrapInv
<1>3. CASE \E h \in Holders, amount \in WrapAmounts : Unwrap(h, amount)
  BY <1>3, UnwrapInv
<1>4. CASE \E gross \in Grosses : RouteCoupon(Admin, gross)
  BY <1>4, RouteCouponInv
<1>5. CASE \E h \in Holders : ClaimCoupon(h)
  BY <1>5, ClaimCouponInv
<1>6. CASE ClaimDistFee
  BY <1>6, ClaimDistFeeInv
<1>7. CASE \E from \in Holders, to \in Holders, amount \in WrapAmounts :
             Transfer(from, to, amount)
  BY <1>7, TransferInv
<1>8. CASE UNCHANGED allVars
  BY <1>8
  DEF allVars, routerVars, yieldVars, reserveVars, premiumVars, tokenVars, RouterInv,
      RouterTyped, HoldersFunded, LedgerOf, NetSpare, CoverRegistered, YieldInv, PoolInv,
      VaultTyped, SellersFunded, SellerLedger, Spare, HaircutFloor
<1> QED BY <1>1, <1>2, <1>3, <1>4, <1>5, <1>6, <1>7, <1>8 DEF RouterNext, RouterCall

\* The inductive invariant of vault and router: the types of their state, the two
\* ledgers of premium and of coupons, and the books of the cover.
THEOREM RouterInvHolds == RouterSpec => []RouterInv
BY RouterInitInv, RouterNextInv, PTL DEF RouterSpec

\* Whichever line sells and whoever withdraws, sealed and routed cover together stay
\* within the haircut reserve as it was before the payouts.
THEOREM ReserveFloorHolds == RouterSpec => []HaircutFloor
<1>1. RouterInv => HaircutFloor
  BY DEF RouterInv, YieldInv
<1> QED BY <1>1, RouterInvHolds, PTL

\* The cover the vault counts for the router is the pBOND in circulation, backed one
\* to one by bonds in the router, if nobody transfers pBOND to himself.
THEOREM CoverIsWrappedHolds ==
  ASSUME ~SelfTransfers
  PROVE  RouterSpec => []CoverIsWrapped
<1>1. RouterInv => CoverIsWrapped
  <2> SUFFICES ASSUME RouterInv PROVE CoverIsWrapped
    OBVIOUS
  <2>1. StakesIn(LedgerOf(holder)) = [h \in Holders |-> holder[h].bal]
    BY DEF StakesIn, LedgerOf
  <2> QED BY <2>1 DEF RouterInv, HoldersFunded, CoverRegistered, CoverIsWrapped
<1> QED BY <1>1, RouterInvHolds, PTL

\* With self-transfers too, cover, supply and bonds of the router stay in step: it is
\* the balances that they inflate.
THEOREM CoverRegisteredHolds == RouterSpec => []CoverRegistered
<1>1. RouterInv => CoverRegistered
  BY DEF RouterInv
<1> QED BY <1>1, RouterInvHolds, PTL
\* The router can always pay the net coupons of all holders and the distribution fee,
\* but for the fractions by which debts were rounded down, if nobody transfers pBOND
\* to himself.
THEOREM CouponsFundedHolds ==
  ASSUME ~SelfTransfers
  PROVE  RouterSpec => []CouponsFunded
<1> DEFINE l == LedgerOf(holder)
           owed == [h \in Holders |-> PendingCoupon(h)]
<1>1. ASSUME RouterInv PROVE CouponsFunded
  <2>1. Claims(l, accNet, AccScale) = owed
    <3>1. \A h \in Holders : Claims(l, accNet, AccScale)[h] = owed[h]
      BY <1>1, HolderFigures
    <3>2. Claims(l, accNet, AccScale) = [h \in Holders |-> Claims(l, accNet, AccScale)[h]]
      BY DEF Claims, LedgerOf
    <3> QED BY <3>1, <3>2
  <2>2. /\ IsLedger(Holders, l, accNet, AccScale)
        /\ Funded(l, accNet, AccScale, NetSpare, netRounded)
    BY <1>1 DEF RouterInv, HoldersFunded
  <2> HIDE DEF l, owed
  <2>3. Total(owed) * AccScale <= NetSpare * AccScale + netRounded
    BY <2>1, <2>2, ClaimsCovered
  <2>4. /\ couponsHeld \in Nat /\ distFee \in Nat /\ netRounded \in Nat
        /\ AccScale \in Nat /\ Total(owed) \in Nat
    BY <1>1, <2>1, <2>2, LedgerTypes, ScaleTypes DEF RouterInv, RouterTyped
  <2>5. couponsHeld * AccScale + netRounded >= (distFee + Total(owed)) * AccScale
    BY <2>3, <2>4 DEF NetSpare
  <2> QED BY <2>5 DEF CouponsFunded, owed
<1>2. RouterInv => CouponsFunded
  BY <1>1
<1> QED BY <1>2, RouterInvHolds, PTL

\* The stakes of the sellers are the pool and what was paid out of it, no seller is
\* granted less than his debt, and until the first payout the tokens cover reserve,
\* premium and fee but for what debts were rounded down by.
THEOREM PremiumPoolsFunded == RouterSpec => []PoolsFunded
<1> DEFINE l == SellerLedger
           owed == [s \in Sellers |-> PendingPremium(s)]
<1>1. ASSUME RouterInv PROVE PoolsFunded
  <2>1. Claims(l, acc, AccScale) = owed
    <3>1. \A s \in Sellers : Claims(l, acc, AccScale)[s] = owed[s]
      BY SellerClaims
    <3>2. Claims(l, acc, AccScale) = [s \in Sellers |-> Claims(l, acc, AccScale)[s]]
      BY DEF Claims, SellerLedger
    <3> QED BY <3>1, <3>2
  <2>2. /\ IsLedger(Sellers, l, acc, AccScale)
        /\ StakesIn(l) = [s \in Sellers |-> seller[s].coll]
        /\ Total(StakesIn(l)) = totalCollateral + paidOut
    BY <1>1 DEF RouterInv, YieldInv, PoolInv, SellersFunded, StakesIn, SellerLedger
  <2>3. \A s \in Sellers : Pending(s) >= 0
    BY <1>1, SellerFigures DEF RouterInv, YieldInv
  <2>4. paidOut = 0 => Funded(l, acc, AccScale, Spare, roundedOff)
    BY <1>1 DEF RouterInv, YieldInv, PoolInv, SellersFunded
  <2> HIDE DEF l, owed
  <2>5. paidOut = 0 => Total(owed) * AccScale <= Spare * AccScale + roundedOff
    BY <2>1, <2>2, <2>4, ClaimsCovered
  <2>6. /\ held \in Nat /\ feeAccrued \in Nat /\ totalCollateral \in Nat
        /\ roundedOff \in Nat /\ AccScale \in Nat /\ Total(owed) \in Nat
    BY <1>1, <2>1, <2>2, LedgerTypes, ScaleTypes DEF RouterInv, YieldInv, PoolInv, VaultTyped
  <2>7. PremiumOwed = feeAccrued + Total(owed)
    BY DEF PremiumOwed, owed
  <2>8. paidOut = 0 =>
          held * AccScale + roundedOff >= (totalCollateral + PremiumOwed) * AccScale
    BY <2>5, <2>6, <2>7 DEF Spare
  <2> QED BY <2>2, <2>3, <2>8 DEF PoolsFunded
<1>2. RouterInv => PoolsFunded
  BY <1>1
<1> QED BY <1>2, RouterInvHolds, PTL

\* Stakes change by deposit and withdrawal only.
LEMMA OthersKeepStakes ==
  ASSUME RouterInv, [RouterNext]_allVars,
         ~\E s \in Sellers, amount \in Amounts : Deposit(s, amount),
         ~\E s \in Sellers, amount \in Amounts : Withdraw(s, amount)
  PROVE  \A s \in Sellers : seller'[s].coll = seller[s].coll
<1>1. CASE \E x \in Sellers : ClaimPremium(x)
  <2> PICK x \in Sellers : ClaimPremium(x)
    BY <1>1
  <2>1. seller' = [Stake(x, seller[x].coll) EXCEPT ![x].claimable = 0]
    BY DEF ClaimPremium
  <2>2. seller \in [Sellers -> [coll : Nat, debt : Nat, claimable : Nat]]
    BY DEF RouterInv, YieldInv, PoolInv, VaultTyped
  <2>3. seller'[x].coll = seller[x].coll
    BY <2>1, <2>2 DEF Stake
  <2>4. \A s \in Sellers : s # x => seller'[s] = seller[s]
    BY <2>1, <2>2 DEF Stake
  <2> QED BY <2>3, <2>4
<1>2. CASE seller' = seller
  BY <1>2
<1>3. CASE VaultCall /\ UNCHANGED routerVars
  <2>1. CASE \E b \in Buyers, cover \in Covers : BuyProtection(b, cover)
    BY <1>2, <2>1 DEF BuyProtection
  <2>2. CASE ClaimProtocolFee
    BY <1>2, <2>2 DEF ClaimProtocolFee
  <2>3. CASE \E bps \in FloatFees : SetFloatFee(bps)
    BY <1>2, <2>3 DEF SetFloatFee
  <2>4. CASE \E amount \in Amounts : HarvestFloat(amount)
    BY <1>2, <2>4 DEF HarvestFloat
  <2>5. CASE \E allocs \in AllocationLists : PayAllocations(allocs)
    BY <1>2, <2>5 DEF PayAllocations
  <2>6. CASE \E open \in BOOLEAN : SetWindow(open)
    BY <1>2, <2>6 DEF SetWindow
  <2> QED BY <1>1, <1>3, <2>1, <2>2, <2>3, <2>4, <2>5, <2>6 DEF VaultCall
<1>4. CASE RouterCall
  <2>1. CASE \E h \in Holders, amount \in WrapAmounts : Wrap(h, amount)
    BY <1>2, <2>1 DEF Wrap, VaultSideOfCover
  <2>2. CASE \E h \in Holders, amount \in WrapAmounts : Unwrap(h, amount)
    BY <1>2, <2>2 DEF Unwrap, VaultSideOfCover
  <2>3. CASE \E gross \in Grosses : RouteCoupon(Admin, gross)
    BY <1>2, <2>3 DEF RouteCoupon
  <2>4. CASE \E h \in Holders : ClaimCoupon(h)
    BY <1>2, <2>4 DEF ClaimCoupon, RouterPays
  <2>5. CASE ClaimDistFee
    BY <1>2, <2>5 DEF ClaimDistFee, RouterPays
  <2>6. CASE \E from \in Holders, to \in Holders, amount \in WrapAmounts :
               Transfer(from, to, amount)
    BY <1>2, <2>6 DEF Transfer, yieldVars
  <2> QED BY <1>4, <2>1, <2>2, <2>3, <2>4, <2>5, <2>6 DEF RouterCall
<1>5. CASE UNCHANGED allVars
  BY <1>2, <1>5 DEF allVars, yieldVars
<1> QED BY <1>3, <1>4, <1>5 DEF RouterNext

\* Changing a stake distorts no accrual, neither the seller's own nor another's.
THEOREM StakesKeepAccrualHolds == RouterSpec => StakesKeepAccrual
<1> DEFINE Kept == \A s \in Sellers : PendingPremium(s)' = PendingPremium(s)
<1>1. ASSUME RouterInv, [RouterNext]_allVars,
             \E s \in Sellers : seller'[s].coll # seller[s].coll
      PROVE  Kept
  <2>1. CASE \E s \in Sellers, amount \in Amounts : Deposit(s, amount)
    BY <1>1, <2>1, DepositInv DEF RouterInv
  <2>2. CASE \E s \in Sellers, amount \in Amounts : Withdraw(s, amount)
    BY <1>1, <2>2, WithdrawInv DEF RouterInv
  <2> QED BY <1>1, <2>1, <2>2, OthersKeepStakes
<1> HIDE DEF Kept
<1>2. RouterInv /\ [RouterNext]_allVars =>
        [(\E s \in Sellers : seller'[s].coll # seller[s].coll) => Kept]_yieldVars
  BY <1>1
<1> USE DEF Kept
<1> QED BY <1>2, RouterInvHolds, PTL DEF RouterSpec, StakesKeepAccrual
=============================================================================
