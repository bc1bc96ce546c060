---------------------------- MODULE KeeperProofs ----------------------------
(***************************************************************************)
(* The hidden book of a confidential vault is solvent whatever its keeper  *)
(* does: he may crash between his two writes, prove from a state that is   *)
(* behind, pass any figures, and anybody may submit any artifact at any    *)
(* time.  The argument is that an artifact is true of the opening it       *)
(* starts from, and that the contract accepts it only for the commitment   *)
(* and the collateral of that moment.                                      *)
(***************************************************************************)
EXTENDS Keeper, SumsProofs

Openings == [total : Nat, salt : Nat]

\* What the guest proved of a purchase and of a withdrawal.
SaleOK(sale) ==
  /\ sale.prev \in Openings /\ sale.new \in Openings
  /\ sale.cover \in Int /\ sale.collateral \in Int
  /\ sale.new.total = sale.prev.total + sale.cover
  /\ sale.new.total <= sale.collateral

ExitOK(exit) ==
  /\ exit.prev \in Openings /\ exit.after \in Int
  /\ exit.prev.total <= exit.after

ArtifactsOK ==
  /\ keeper \in Openings
  /\ IsFiniteSet(sales)
  /\ \A sale \in sales : SaleOK(sale)
  /\ \A exit \in exits : ExitOK(exit)

ReserveOK ==
  /\ commitment \in Openings
  /\ bookCover \in Int
  /\ totalCollateral \in Int
  /\ paidOut \in Nat

KeeperInv == ArtifactsOK /\ ReserveOK /\ HiddenSolvency /\ BookIsAggregate

HiddenBook == ReserveOK /\ HiddenSolvency /\ BookIsAggregate

-----------------------------------------------------------------------------
\* The keeper's steps leave the vault alone and write artifacts that are true.
LEMMA ArtifactsStep ==
  ASSUME KeeperInv,
         \/ \E cover \in Covers, collateral \in Figures : KeeperBuy(cover, collateral)
         \/ \E cover \in Covers, collateral \in Figures : KeeperBuyCrash(cover, collateral)
         \/ \E after \in Figures : KeeperWithdraw(after)
  PROVE  ArtifactsOK' /\ UNCHANGED confidentialVars
<1>1. ASSUME NEW cover \in Covers, NEW collateral \in Figures, ProveSale(cover, collateral)
      PROVE  /\ UNCHANGED <<confidentialVars, exits>>
             /\ IsFiniteSet(sales')
             /\ Planned(cover, collateral).new \in Openings
             /\ \A sale \in sales' : SaleOK(sale)
  <2> DEFINE sale == Planned(cover, collateral)
             salt == Cardinality(sales) + 1
  <2>1. /\ UNCHANGED <<confidentialVars, exits>>
        /\ sales' = sales \cup {sale}
        /\ cover > 0 /\ keeper.total + cover <= collateral
    BY <1>1 DEF ProveSale, Solvent
  <2>2. salt \in Nat
    BY FS_CardinalityType DEF KeeperInv, ArtifactsOK
  <2>3. sale = BuyJournal(keeper, cover, salt, collateral)
    BY DEF Planned
  <2>4. cover \in Int /\ collateral \in Int /\ keeper \in Openings
    BY KeeperAssumption DEF KeeperInv, ArtifactsOK
  <2> HIDE DEF sale, salt
  <2>5. SaleOK(sale) /\ sale.new \in Openings
    BY <2>1, <2>2, <2>3, <2>4 DEF SaleOK, Openings, BuyJournal, Opening
  <2>6. IsFiniteSet(sales')
    BY <2>1, FS_AddElement DEF KeeperInv, ArtifactsOK
  <2>7. \A other \in sales' : SaleOK(other)
    BY <2>1, <2>5 DEF KeeperInv, ArtifactsOK
  <2> QED BY <2>1, <2>5, <2>6, <2>7 DEF sale
<1>2. CASE \E cover \in Covers, collateral \in Figures : KeeperBuy(cover, collateral)
  <2> PICK cover \in Covers, collateral \in Figures : KeeperBuy(cover, collateral)
    BY <1>2
  <2> QED BY <1>1 DEF KeeperBuy, KeeperInv, ArtifactsOK, SaleOK, ExitOK
<1>3. CASE \E cover \in Covers, collateral \in Figures : KeeperBuyCrash(cover, collateral)
  <2> PICK cover \in Covers, collateral \in Figures : KeeperBuyCrash(cover, collateral)
    BY <1>3
  <2> QED BY <1>1 DEF KeeperBuyCrash, KeeperInv, ArtifactsOK, SaleOK, ExitOK
<1>4. CASE \E after \in Figures : KeeperWithdraw(after)
  <2> PICK after \in Figures : KeeperWithdraw(after)
    BY <1>4
  <2>1. /\ UNCHANGED <<confidentialVars, keeper, sales>>
        /\ exits' = exits \cup {WithdrawJournal(keeper, after)}
        /\ keeper.total <= after
    BY DEF KeeperWithdraw, ProveExit, SolventAfter
  <2>2. ExitOK(WithdrawJournal(keeper, after))
    BY <2>1, KeeperAssumption DEF WithdrawJournal, ExitOK, KeeperInv, ArtifactsOK
  <2> QED BY <2>1, <2>2 DEF KeeperInv, ArtifactsOK, SaleOK, ExitOK
<1> QED BY <1>1, <1>2, <1>3, <1>4

-----------------------------------------------------------------------------
\* A purchase: the proof was made for this commitment and for no more
\* collateral than there is.
LEMMA PurchaseStep ==
  ASSUME KeeperInv, NEW b \in Buyers, NEW sale \in sales, NEW premium \in Premiums,
         BuyProtectionProven(b, sale, premium)
  PROVE  HiddenBook'
<1>1. SaleOK(sale)
  BY DEF KeeperInv, ArtifactsOK
<1>2. /\ sale.prev = commitment
      /\ sale.collateral <= totalCollateral
      /\ commitment' = sale.new
      /\ bookCover' = bookCover + sale.cover
      /\ UNCHANGED <<totalCollateral, paidOut>>
  BY DEF BuyProtectionProven, AggregateCurrent, ReserveCovers
<1> QED BY <1>1, <1>2
     DEF SaleOK, KeeperInv, HiddenBook, ReserveOK, HiddenSolvency, BookIsAggregate, Openings

\* A withdrawal leaves what the hidden aggregate needs, before and after any
\* payout.
LEMMA ExitStep ==
  ASSUME KeeperInv, NEW s \in Sellers, NEW amount \in Amounts, NEW exit \in exits,
         WithdrawProven(s, amount, exit)
  PROVE  HiddenBook' /\ commitment.total <= totalCollateral'
<1>1. ExitOK(exit) /\ amount \in Int
  BY AmountsAssumption DEF KeeperInv, ArtifactsOK
<1>2. /\ exit.prev = commitment
      /\ exit.after = totalCollateral - amount
      /\ totalCollateral' = totalCollateral - amount
      /\ UNCHANGED <<commitment, bookCover, paidOut>>
  BY DEF WithdrawProven, AggregateCurrent, RemainderExact, aggregateVars
<1> QED BY <1>1, <1>2
     DEF ExitOK, KeeperInv, HiddenBook, ReserveOK, HiddenSolvency, BookIsAggregate, Openings

\* A payout takes from the reserve what it adds to the history.
LEMMA PayoutStep ==
  ASSUME KeeperInv, NEW allocs \in AllocationLists, PayAllocations(allocs)
  PROVE  HiddenBook' /\ (paidOut' = paidOut => totalCollateral' = totalCollateral)
<1> DEFINE loss == AllocationSum(allocs)
<1>1. loss \in Nat
  BY ListsAssumption, TotalType DEF AllocationSum
<1>2. /\ totalCollateral' = totalCollateral - loss
      /\ paidOut' = paidOut + loss
      /\ UNCHANGED <<commitment, bookCover>>
  BY DEF PayAllocations, aggregateVars
<1> HIDE DEF loss
<1> QED BY <1>1, <1>2
     DEF KeeperInv, HiddenBook, ReserveOK, HiddenSolvency, BookIsAggregate, Openings

\* Every other call of the vault, which only deposits move the reserve by.
LEMMA OtherVaultStep ==
  ASSUME KeeperInv,
         \/ \E s \in Sellers, amount \in Amounts : Deposit(s, amount)
         \/ \E s \in Sellers : ClaimPremium(s)
         \/ ClaimProtocolFee
         \/ \E open \in BOOLEAN : SetWindow(open)
  PROVE  HiddenBook' /\ totalCollateral' >= totalCollateral
<1>1. /\ UNCHANGED <<commitment, bookCover, paidOut>>
      /\ totalCollateral' = totalCollateral
         \/ \E amount \in Amounts : amount > 0 /\ totalCollateral' = totalCollateral + amount
  BY DEF Deposit, ClaimPremium, ClaimProtocolFee, SetWindow, aggregateVars
<1> QED BY <1>1, AmountsAssumption
     DEF KeeperInv, HiddenBook, ReserveOK, HiddenSolvency, BookIsAggregate, Openings

-----------------------------------------------------------------------------
LEMMA VaultStepInv ==
  ASSUME KeeperInv, VaultStep
  PROVE  /\ HiddenBook'
         /\ totalCollateral' < totalCollateral /\ paidOut' = paidOut =>
              commitment.total <= totalCollateral'
<1> USE DEF VaultStep
<1>0. totalCollateral \in Int
  BY DEF KeeperInv, ReserveOK
<1>1. CASE \E b \in Buyers, sale \in sales, premium \in Premiums :
             BuyProtectionProven(b, sale, premium)
  BY <1>0, <1>1, PurchaseStep DEF BuyProtectionProven
<1>2. CASE \E s \in Sellers, amount \in Amounts, exit \in exits :
             WithdrawProven(s, amount, exit)
  BY <1>2, ExitStep
<1>3. CASE \E allocs \in AllocationLists : bookCover > 0 /\ PayAllocations(allocs)
  BY <1>0, <1>3, PayoutStep
<1>4. CASE \/ \E s \in Sellers, amount \in Amounts : Deposit(s, amount)
           \/ \E s \in Sellers : ClaimPremium(s)
           \/ ClaimProtocolFee
           \/ \E open \in BOOLEAN : SetWindow(open)
  <2>1. HiddenBook' /\ totalCollateral' >= totalCollateral
    BY <1>4, OtherVaultStep
  <2>2. totalCollateral' \in Int
    BY <2>1 DEF HiddenBook, ReserveOK
  <2> QED BY <1>0, <2>1, <2>2
<1> QED BY <1>1, <1>2, <1>3, <1>4

LEMMA KeeperInitInv == KeeperInit => KeeperInv
<1> SUFFICES ASSUME KeeperInit PROVE KeeperInv
  OBVIOUS
<1>1. Opening(0, 0) \in Openings /\ Opening(0, 0).total = 0
  BY DEF Opening, Openings
<1>2. ArtifactsOK
  BY <1>1, FS_EmptySet DEF KeeperInit, ArtifactsOK
<1>3. ReserveOK /\ HiddenSolvency /\ BookIsAggregate
  BY <1>1 DEF KeeperInit, ConfidentialInit, ReserveOK, HiddenSolvency, BookIsAggregate
<1> QED BY <1>2, <1>3 DEF KeeperInv

LEMMA KeeperNextInv == ASSUME KeeperInv, [KeeperNext]_vars PROVE KeeperInv'
<1>1. CASE \/ \E cover \in Covers, collateral \in Figures : KeeperBuy(cover, collateral)
           \/ \E cover \in Covers, collateral \in Figures : KeeperBuyCrash(cover, collateral)
           \/ \E after \in Figures : KeeperWithdraw(after)
  <2>1. ArtifactsOK' /\ UNCHANGED confidentialVars
    BY <1>1, ArtifactsStep
  <2> QED BY <2>1
       DEF KeeperInv, ReserveOK, HiddenSolvency, BookIsAggregate, confidentialVars,
           aggregateVars
<1>2. CASE VaultStep
  <2>1. UNCHANGED keeperVars
    BY <1>2 DEF VaultStep
  <2>2. ArtifactsOK'
    BY <2>1 DEF KeeperInv, ArtifactsOK, SaleOK, ExitOK, keeperVars
  <2> QED BY <1>2, <2>2, VaultStepInv DEF KeeperInv, HiddenBook
<1>3. CASE UNCHANGED vars
  BY <1>3
  DEF KeeperInv, ArtifactsOK, SaleOK, ExitOK, ReserveOK, HiddenSolvency, BookIsAggregate,
      vars, keeperVars, confidentialVars, aggregateVars
<1> QED BY <1>1, <1>2, <1>3 DEF KeeperNext

\* The inductive invariant of the vault, its keeper and the artifacts.
THEOREM KeeperInvariant == KeeperSpec => []KeeperInv
<1>1. KeeperInv /\ [KeeperNext]_vars => KeeperInv'
  BY KeeperNextInv
<1> QED BY KeeperInitInv, <1>1, PTL DEF KeeperSpec

\* The aggregate nobody sees never exceeds the collateral plus what was paid
\* out, for any number of artifacts, covers, figures and crashes.
THEOREM HiddenBookSolvent == KeeperSpec => []HiddenSolvency
<1>1. KeeperInv => HiddenSolvency
  BY DEF KeeperInv
<1> QED BY KeeperInvariant, <1>1, PTL

\* The committed aggregate is the sum of the covers folded: no artifact is
\* taken twice and none on top of another one's commitment.
THEOREM AggregateFollowsBook == KeeperSpec => []BookIsAggregate
<1>1. KeeperInv => BookIsAggregate
  BY DEF KeeperInv
<1> QED BY KeeperInvariant, <1>1, PTL

\* No withdrawal leaves less than the hidden aggregate, whenever its proof was
\* made.
THEOREM NoExitUncovers == KeeperSpec => ExitsLeaveCover
<1> DEFINE Covered == totalCollateral' < totalCollateral /\ paidOut' = paidOut =>
                        commitment.total <= totalCollateral'
<1>1. KeeperInv /\ [KeeperNext]_vars => [Covered]_confidentialVars
  <2> SUFFICES ASSUME KeeperInv, [KeeperNext]_vars, confidentialVars' # confidentialVars
               PROVE  Covered
    OBVIOUS
  <2>1. CASE VaultStep
    BY <2>1, VaultStepInv
  <2>2. CASE ~VaultStep
    BY <2>2, ArtifactsStep DEF KeeperNext, vars
  <2> QED BY <2>1, <2>2
<1> QED BY KeeperInvariant, <1>1, PTL DEF KeeperSpec, ExitsLeaveCover

-----------------------------------------------------------------------------
\* The stakes of the sellers are a ledger of SumsProofs.tla.
Book ==
  [s \in Sellers |-> [stake |-> seller[s].coll, debt |-> seller[s].debt,
                      claimable |-> seller[s].claimable]]

\* The tokens beyond the reserve and the fee.
Spare == held - (totalCollateral + feeAccrued)

PoolTyped ==
  /\ seller \in [Sellers -> [coll : Nat, debt : Nat, claimable : Nat]]
  /\ totalCollateral \in Nat /\ acc \in Nat /\ feeAccrued \in Nat
  /\ held \in Nat /\ wallet \in [Accounts -> Nat]
  /\ paidOut \in Nat /\ roundedOff \in Nat

\* A payout leaves the stakes, so that they add up to the reserve and all that
\* was paid; until then the tokens make up for all earnings.
PoolInv ==
  /\ PoolTyped
  /\ IsLedger(Sellers, Book, acc, AccScale)
  /\ Total(StakesIn(Book)) = totalCollateral + paidOut
  /\ paidOut = 0 => Funded(Book, acc, AccScale, Spare, roundedOff)

LEMMA ScaleTypes == AccScale \in Nat \ {0} /\ BPS \in Nat \ {0} /\ ProtocolFeeBps \in 0..BPS
BY ConfidentialAssumption DEF BPS

LEMMA SellersFinite == IsFiniteSet(Sellers)
BY ConfidentialAssumption, FS_Subset DEF Accounts

LEMMA StakeFigures ==
  ASSUME PoolInv, NEW s \in Sellers
  PROVE  /\ Claims(Book, acc, AccScale)[s] = PendingPremium(s)
         /\ Claims(Book, acc, AccScale)[s] \in Nat
         /\ Pending(s) >= 0
         /\ Book[s].stake = seller[s].coll
<1>1. /\ IsLedger(Sellers, Book, acc, AccScale)
      /\ seller[s].coll \in Nat /\ seller[s].debt \in Nat /\ acc \in Nat
      /\ Book[s].stake = seller[s].coll /\ Book[s].debt = seller[s].debt
  BY DEF PoolInv, PoolTyped, Book
<1>2. Claims(Book, acc, AccScale)[s] = PendingPremium(s)
  BY DEF Claims, Book, PendingPremium, Pending, Accrued
<1>3. Claims(Book, acc, AccScale)[s] \in Nat
  BY <1>1, LedgerTypes
<1>4. Pending(s) >= 0
  <2> DEFINE c == seller[s].coll
             d == seller[s].debt
  <2>1. c \in Nat /\ d \in Nat /\ d * AccScale <= c * acc
    BY <1>1 DEF IsLedger
  <2> HIDE DEF c, d
  <2>2. (c * acc) \div AccScale - d \in Nat
    BY <1>1, <2>1, ScaleTypes, Regrant
  <2> QED BY <2>2 DEF Pending, Accrued, c, d
<1> QED BY <1>1, <1>2, <1>3, <1>4

\* A stake set to n with p left to claim.
LEMMA BookTouched ==
  ASSUME PoolInv, NEW s \in Sellers, NEW n \in Nat, NEW p \in Nat,
         seller' = [seller EXCEPT ![s] = [coll |-> n, debt |-> Accrued(n), claimable |-> p]]
  PROVE  /\ Book' = Restaked(Book, s, n, p, acc, AccScale)
         /\ seller' \in [Sellers -> [coll : Nat, debt : Nat, claimable : Nat]]
<1> DEFINE new == [coll |-> n, debt |-> (n * acc) \div AccScale, claimable |-> p]
<1>1. /\ acc \in Nat /\ Accrued(n) = (n * acc) \div AccScale /\ Accrued(n) \in Nat
      /\ seller \in [Sellers -> [coll : Nat, debt : Nat, claimable : Nat]]
  BY ScaleTypes, ScaledType DEF PoolInv, PoolTyped, Accrued
<1>2. new \in [coll : Nat, debt : Nat, claimable : Nat] /\ seller' = [seller EXCEPT ![s] = new]
  BY <1>1
<1>3. seller'[s] = new /\ \A x \in Sellers : x # s => seller'[x] = seller[x]
  BY <1>1, <1>2
<1>4. seller' \in [Sellers -> [coll : Nat, debt : Nat, claimable : Nat]]
  <2> HIDE DEF new
  <2> QED BY <1>1, <1>2
<1>5. Book' = Restaked(Book, s, n, p, acc, AccScale)
  <2> DEFINE l2 == Restaked(Book, s, n, p, acc, AccScale)
  <2>1. \A x \in Sellers : Book'[x] = l2[x]
    BY <1>3 DEF Book, Restaked
  <2>2. Book' = [x \in Sellers |-> Book'[x]] /\ l2 = [x \in Sellers |-> l2[x]]
    BY DEF Book, Restaked
  <2> HIDE DEF l2
  <2>3. Book' = l2
    BY <2>1, <2>2
  <2> QED BY <2>3 DEF l2
<1> QED BY <1>4, <1>5

\* A deposit or a withdrawal: a stake, the reserve and the tokens move together.
LEMMA RestakeStep ==
  ASSUME PoolInv, NEW s \in Sellers, NEW n \in Nat,
         seller' = Stake(s, n),
         totalCollateral' = totalCollateral - seller[s].coll + n,
         held' = held - seller[s].coll + n,
         totalCollateral' \in Nat, held' \in Nat, wallet' \in [Accounts -> Nat],
         roundedOff' = roundedOff + RoundedBy(n),
         UNCHANGED <<acc, feeAccrued, paidOut>>
  PROVE  PoolInv'
<1> DEFINE p == Claims(Book, acc, AccScale)[s]
           rounding == (n * acc) % AccScale
<1>1. /\ IsLedger(Sellers, Book, acc, AccScale)
      /\ Total(StakesIn(Book)) = totalCollateral + paidOut
      /\ paidOut = 0 => Funded(Book, acc, AccScale, Spare, roundedOff)
      /\ acc \in Nat /\ held \in Nat /\ totalCollateral \in Nat /\ feeAccrued \in Nat
      /\ paidOut \in Nat /\ roundedOff \in Nat /\ seller[s].coll \in Nat
  BY DEF PoolInv, PoolTyped
<1>2. p \in Nat /\ p = PendingPremium(s) /\ Book[s].stake = seller[s].coll
  BY StakeFigures
<1>3. seller' = [seller EXCEPT ![s] = [coll |-> n, debt |-> Accrued(n), claimable |-> p]]
  BY <1>2 DEF Stake, PendingPremium
<1>4. /\ Book' = Restaked(Book, s, n, p, acc, AccScale)
      /\ seller' \in [Sellers -> [coll : Nat, debt : Nat, claimable : Nat]]
  <2>1. p \in Nat
    BY <1>2
  <2> HIDE DEF p
  <2> QED BY ONLY PoolInv, s \in Sellers, n \in Nat, <1>3, <2>1, BookTouched, Zenon
<1>5. rounding \in Nat /\ RoundedBy(n) = rounding
  <2>1. n * acc \in Nat
    BY <1>1
  <2> QED BY <2>1, ScaleTypes, GrantRounding DEF RoundedBy
<1>6. Spare' = Spare /\ acc' = acc /\ roundedOff' = roundedOff + rounding /\ paidOut' = paidOut
  BY <1>1, <1>5 DEF Spare
<1>7. /\ IsLedger(Sellers, Book', acc, AccScale)
      /\ Total(StakesIn(Book')) = Total(StakesIn(Book)) - seller[s].coll + n
      /\ Funded(Book, acc, AccScale, Spare, roundedOff) =>
           Funded(Book', acc, AccScale, Spare, roundedOff + rounding)
  <2> DEFINE l == Book
             l2 == Restaked(l, s, n, Claims(l, acc, AccScale)[s], acc, AccScale)
  <2>1. /\ IsLedger(Sellers, l2, acc, AccScale)
        /\ Total(StakesIn(l2)) = Total(StakesIn(l)) - l[s].stake + n
        /\ Funded(l, acc, AccScale, Spare, roundedOff) =>
             Funded(l2, acc, AccScale, Spare, roundedOff + ((n * acc) % AccScale))
    BY <1>1, FundedRestake
  <2> HIDE DEF l2
  <2>2. Book' = l2
    BY <1>4 DEF l2
  <2> QED BY <1>2, <2>1, <2>2
<1> HIDE DEF rounding
<1>8. PoolTyped'
  BY <1>1, <1>4, <1>5, <1>6 DEF PoolTyped
<1>9. Total(StakesIn(Book')) = totalCollateral' + paidOut'
  BY <1>1, <1>6, <1>7
<1>10. paidOut' = 0 => Funded(Book', acc, AccScale, Spare, roundedOff + rounding)
  BY <1>1, <1>6, <1>7
<1> QED BY <1>6, <1>7, <1>8, <1>9, <1>10 DEF PoolInv

LEMMA DepositPool ==
  ASSUME PoolInv, NEW s \in Sellers, NEW amount \in Amounts, Deposit(s, amount)
  PROVE  PoolInv'
<1> DEFINE n == seller[s].coll + amount
<1>1. /\ amount \in Int /\ amount > 0 /\ s \in Accounts
      /\ seller[s].coll \in Nat /\ totalCollateral \in Nat /\ held \in Nat
      /\ wallet \in [Accounts -> Nat]
  BY AmountsAssumption DEF Deposit, PoolInv, PoolTyped, Accounts
<1>2. /\ seller' = Stake(s, n)
      /\ totalCollateral' = totalCollateral + amount
      /\ held' = held + amount
      /\ wallet' = [wallet EXCEPT ![s] = wallet[s] - amount] /\ amount <= wallet[s]
      /\ roundedOff' = roundedOff + RoundedBy(n)
      /\ UNCHANGED <<acc, feeAccrued, paidOut>>
  BY DEF Deposit, TransferIn, premiumVars
<1>3. /\ n \in Nat
      /\ totalCollateral' = totalCollateral - seller[s].coll + n
      /\ held' = held - seller[s].coll + n
      /\ totalCollateral' \in Nat /\ held' \in Nat
  BY <1>1, <1>2
<1>4. wallet' \in [Accounts -> Nat]
  BY <1>1, <1>2
<1> HIDE DEF n
<1> QED BY <1>2, <1>3, <1>4, RestakeStep

\* The proof of a withdrawal says that the collateral left is a natural number.
LEMMA WithdrawPool ==
  ASSUME PoolInv, KeeperInv, NEW s \in Sellers, NEW amount \in Amounts, NEW exit \in exits,
         WithdrawProven(s, amount, exit)
  PROVE  PoolInv'
<1> DEFINE n == seller[s].coll - amount
<1>1. /\ amount \in Int /\ amount > 0 /\ s \in Accounts
      /\ amount <= seller[s].coll
      /\ seller[s].coll \in Nat /\ totalCollateral \in Nat /\ held \in Nat
      /\ wallet \in [Accounts -> Nat]
  BY AmountsAssumption DEF WithdrawProven, SellerHas, PoolInv, PoolTyped, Accounts
<1>2. /\ seller' = Stake(s, n)
      /\ totalCollateral' = totalCollateral - amount
      /\ exit.after = totalCollateral - amount
      /\ held' = held - amount /\ amount <= held
      /\ wallet' = [wallet EXCEPT ![s] = wallet[s] + amount]
      /\ roundedOff' = roundedOff + RoundedBy(n)
      /\ UNCHANGED <<acc, feeAccrued, paidOut>>
  BY DEF WithdrawProven, RemainderExact, TransferOut, premiumVars
<1>3. totalCollateral' \in Nat
  <2>1. ExitOK(exit)
    BY DEF KeeperInv, ArtifactsOK
  <2>2. exit.prev.total \in Nat /\ exit.after \in Int /\ exit.prev.total <= exit.after
    BY <2>1 DEF ExitOK, Openings
  <2> QED BY <1>2, <2>2
<1>4. /\ n \in Nat
      /\ totalCollateral' = totalCollateral - seller[s].coll + n
      /\ held' = held - seller[s].coll + n
      /\ held' \in Nat
  BY <1>1, <1>2
<1>5. wallet' \in [Accounts -> Nat]
  BY <1>1, <1>2
<1> HIDE DEF n
<1> QED BY <1>2, <1>3, <1>4, <1>5, RestakeStep

\* A seller is paid what he may claim.
LEMMA ClaimPool ==
  ASSUME PoolInv, NEW s \in Sellers, ClaimPremium(s)
  PROVE  PoolInv'
<1> DEFINE l == Book
           p == Claims(l, acc, AccScale)[s]
           n == seller[s].coll
<1>1. /\ IsLedger(Sellers, l, acc, AccScale)
      /\ Total(StakesIn(l)) = totalCollateral + paidOut
      /\ paidOut = 0 => Funded(l, acc, AccScale, Spare, roundedOff)
      /\ l[s].stake = n /\ n \in Nat
      /\ p \in Nat /\ p = seller[s].claimable + Pending(s)
      /\ s \in Accounts
      /\ seller \in [Sellers -> [coll : Nat, debt : Nat, claimable : Nat]]
      /\ wallet \in [Accounts -> Nat] /\ held \in Nat /\ totalCollateral \in Nat
      /\ feeAccrued \in Nat /\ paidOut \in Nat /\ roundedOff \in Nat /\ acc \in Nat
  BY StakeFigures DEF PoolInv, PoolTyped, Accounts, PendingPremium
<1>2. /\ seller' = [Stake(s, n) EXCEPT ![s].claimable = 0]
      /\ wallet' = [wallet EXCEPT ![s] = wallet[s] + p]
      /\ held' = held - p /\ p <= held
      /\ UNCHANGED <<totalCollateral, acc, feeAccrued, paidOut, roundedOff>>
  BY <1>1 DEF ClaimPremium, TransferOut, premiumVars
<1>3. seller' = [seller EXCEPT ![s] = [coll |-> n, debt |-> Accrued(n), claimable |-> 0]]
  <2> DEFINE kept == [coll |-> n, debt |-> Accrued(n), claimable |-> p]
             rest == [coll |-> n, debt |-> Accrued(n), claimable |-> 0]
             w == Stake(s, n)
  <2>1. w = [seller EXCEPT ![s] = kept]
    BY <1>1 DEF Stake
  <2>2. [kept EXCEPT !.claimable = 0] = rest
    OBVIOUS
  <2>3. seller' = [w EXCEPT ![s] = [w[s] EXCEPT !.claimable = 0]]
    BY <1>2
  <2> HIDE DEF w, kept, rest
  <2>4. w[s] = kept
    BY <1>1, <2>1
  <2>5. seller' = [seller EXCEPT ![s] = rest]
    BY <1>1, <2>1, <2>2, <2>3, <2>4
  <2> QED BY <2>5 DEF rest
<1> HIDE DEF p
<1>4. /\ Book' = Restaked(Book, s, n, 0, acc, AccScale)
      /\ seller' \in [Sellers -> [coll : Nat, debt : Nat, claimable : Nat]]
  <2>1. n \in Nat /\ 0 \in Nat
    BY <1>1
  <2> HIDE DEF l, n
  <2> QED BY ONLY PoolInv, s \in Sellers, <2>1, <1>3, BookTouched, Zenon
<1>5. Spare' = Spare - p
  BY <1>1, <1>2 DEF Spare
<1> HIDE DEF l, n
<1>6. /\ IsLedger(Sellers, Book', acc, AccScale)
      /\ Total(StakesIn(Book')) = Total(StakesIn(l))
      /\ Funded(l, acc, AccScale, Spare, roundedOff) =>
           Funded(Book', acc, AccScale, Spare - p, roundedOff)
  <2>1. /\ IsLedger(Sellers, Restaked(l, s, l[s].stake, 0, acc, AccScale), acc, AccScale)
        /\ Total(StakesIn(Restaked(l, s, l[s].stake, 0, acc, AccScale))) = Total(StakesIn(l))
        /\ Funded(l, acc, AccScale, Spare, roundedOff) =>
             Funded(Restaked(l, s, l[s].stake, 0, acc, AccScale), acc, AccScale, Spare - p,
                    roundedOff)
    <3>1. IsLedger(Sellers, l, acc, AccScale) /\ s \in Sellers
      BY <1>1
    <3> QED BY ONLY <3>1, FundedClaim DEF p
  <2>2. Book' = Restaked(l, s, l[s].stake, 0, acc, AccScale)
    BY <1>1, <1>4 DEF l
  <2> QED BY <2>1, <2>2
<1>7. PoolTyped'
  BY <1>1, <1>2, <1>4 DEF PoolTyped
<1> QED BY <1>1, <1>2, <1>5, <1>6, <1>7 DEF PoolInv

\* A premium comes in: what the stakes accrue of it is not more than their part,
\* and the fee takes the rest, or all of it.
LEMMA DistributePool ==
  ASSUME PoolInv, NEW premium \in Nat, Distribute(premium), held' = held + premium,
         wallet' \in [Accounts -> Nat],
         UNCHANGED <<totalCollateral, seller, paidOut, roundedOff>>
  PROVE  PoolInv'
<1> DEFINE part == SellersCut(premium)
           cut == ProtocolCut(premium)
           k == (part * AccScale) \div totalCollateral
<1>1. /\ IsLedger(Sellers, Book, acc, AccScale)
      /\ Total(StakesIn(Book)) = totalCollateral + paidOut
      /\ paidOut = 0 => Funded(Book, acc, AccScale, Spare, roundedOff)
      /\ acc \in Nat /\ feeAccrued \in Nat /\ held \in Nat /\ totalCollateral \in Nat
      /\ paidOut \in Nat /\ roundedOff \in Nat
      /\ seller \in [Sellers -> [coll : Nat, debt : Nat, claimable : Nat]]
  BY DEF PoolInv, PoolTyped
<1>2. /\ cut \in Nat /\ part \in Int /\ part = premium - cut
  BY ScaleTypes, ScaledType DEF ProtocolCut, SellersCut
<1>3. Book' = Book
  BY DEF Book
<1>4. CASE totalCollateral > 0 /\ part > 0
  <2>1. acc' = acc + k /\ feeAccrued' = feeAccrued + cut
    BY <1>4 DEF Distribute
  <2>2. part \in Nat /\ totalCollateral \in Nat \ {0} /\ AccScale \in Nat \ {0}
    BY <1>1, <1>2, <1>4, ScaleTypes
  <2> HIDE DEF part, cut
  <2>3. k \in Nat /\ k * totalCollateral <= part * AccScale
    BY <2>2, PerShareFunded
  <2> HIDE DEF k
  <2>4. IsLedger(Sellers, Book, acc + k, AccScale)
    BY <1>1, <2>3, LedgerGrant
  <2>5. paidOut = 0 => Funded(Book, acc + k, AccScale, Spare + part, roundedOff)
    <3> SUFFICES ASSUME paidOut = 0
                 PROVE  Funded(Book, acc + k, AccScale, Spare + part, roundedOff)
      OBVIOUS
    <3> DEFINE l == Book
               spare == Spare
    <3>1. k * Total(StakesIn(l)) <= part * AccScale
      BY <1>1, <2>3
    <3>2. IsLedger(Sellers, l, acc, AccScale) /\ Funded(l, acc, AccScale, spare, roundedOff)
      BY <1>1
    <3> HIDE DEF l, spare
    <3>3. Funded(l, acc + k, AccScale, spare + part, roundedOff)
      BY <2>2, <2>3, <3>1, <3>2, FundedGrant
    <3> QED BY <3>3 DEF l, spare
  <2>6. Spare' = Spare + part
    BY <1>1, <1>2, <2>1 DEF Spare
  <2>7. acc' \in Nat /\ feeAccrued' \in Nat /\ held' \in Nat
    BY <1>1, <1>2, <2>1, <2>3
  <2>8. PoolTyped'
    BY <1>1, <2>7 DEF PoolTyped
  <2> QED BY <1>1, <1>3, <2>1, <2>4, <2>5, <2>6, <2>8 DEF PoolInv
<1>5. CASE ~(totalCollateral > 0 /\ part > 0)
  <2>1. acc' = acc /\ feeAccrued' = feeAccrued + premium
    BY <1>5 DEF Distribute
  <2>2. Spare' = Spare
    BY <1>1, <2>1 DEF Spare
  <2>3. feeAccrued' \in Nat /\ held' \in Nat
    BY <1>1, <2>1
  <2>4. PoolTyped'
    BY <1>1, <2>1, <2>3 DEF PoolTyped
  <2> QED BY <1>1, <1>3, <2>1, <2>2, <2>4 DEF PoolInv
<1> QED BY <1>4, <1>5

LEMMA PurchasePool ==
  ASSUME PoolInv, NEW b \in Buyers, NEW sale \in sales, NEW premium \in Premiums,
         BuyProtectionProven(b, sale, premium)
  PROVE  PoolInv'
<1>1. /\ premium \in Int /\ b \in Accounts
      /\ wallet \in [Accounts -> Nat] /\ held \in Nat
  BY AmountsAssumption DEF PoolInv, PoolTyped, Accounts
<1>2. /\ 0 <= premium /\ premium <= wallet[b]
      /\ wallet' = [wallet EXCEPT ![b] = wallet[b] - premium]
      /\ held' = held + premium
      /\ IF premium > 0 THEN Distribute(premium) ELSE UNCHANGED premiumVars
      /\ UNCHANGED <<totalCollateral, seller, paidOut, roundedOff>>
  BY DEF BuyProtectionProven, TransferIn
<1>3. premium \in Nat /\ wallet' \in [Accounts -> Nat]
  BY <1>1, <1>2
<1>4. CASE premium > 0
  BY <1>2, <1>3, <1>4, DistributePool
<1>5. CASE ~(premium > 0)
  <2>1. held' = held /\ UNCHANGED <<acc, feeAccrued>>
    BY <1>1, <1>2, <1>3, <1>5 DEF premiumVars
  <2>2. Book' = Book /\ Spare' = Spare
    BY <1>2, <2>1 DEF Book, Spare
  <2> QED BY <1>2, <1>3, <2>1, <2>2 DEF PoolInv, PoolTyped
<1> QED BY <1>4, <1>5

LEMMA FeePool ==
  ASSUME PoolInv, ClaimProtocolFee
  PROVE  PoolInv'
<1>1. /\ wallet \in [Accounts -> Nat] /\ held \in Nat /\ feeAccrued \in Nat
      /\ totalCollateral \in Nat /\ Admin \in Accounts
  BY DEF PoolInv, PoolTyped, Accounts
<1>2. /\ wallet' = [wallet EXCEPT ![Admin] = wallet[Admin] + feeAccrued]
      /\ held' = held - feeAccrued /\ feeAccrued <= held
      /\ feeAccrued' = 0
      /\ UNCHANGED <<totalCollateral, acc, seller, paidOut, roundedOff>>
  BY DEF ClaimProtocolFee, TransferOut
<1>3. Book' = Book /\ Spare' = Spare
  BY <1>1, <1>2 DEF Book, Spare
<1>4. wallet' \in [Accounts -> Nat] /\ held' \in Nat /\ feeAccrued' \in Nat
  BY <1>1, <1>2
<1> QED BY <1>2, <1>3, <1>4 DEF PoolInv, PoolTyped

\* A payout takes from the reserve and the tokens, and from no seller; only an
\* empty one leaves paidOut at 0.
LEMMA PayoutPool ==
  ASSUME PoolInv, NEW allocs \in AllocationLists, PayAllocations(allocs)
  PROVE  PoolInv'
<1> DEFINE loss == AllocationSum(allocs)
<1>1. loss \in Nat /\ \A a \in Accounts : PaidTo(allocs, a) \in Nat
  BY ListsAssumption, PaymentsType
<1>2. /\ loss <= totalCollateral /\ loss <= held
      /\ totalCollateral' = totalCollateral - loss
      /\ wallet' = [a \in Accounts |-> wallet[a] + PaidTo(allocs, a)]
      /\ held' = held - loss
      /\ paidOut' = paidOut + loss
      /\ UNCHANGED <<acc, feeAccrued, seller, roundedOff>>
  BY DEF PayAllocations, premiumVars
<1> HIDE DEF loss
<1>3. /\ wallet \in [Accounts -> Nat] /\ held \in Nat /\ feeAccrued \in Nat
      /\ totalCollateral \in Nat /\ paidOut \in Nat
      /\ Total(StakesIn(Book)) = totalCollateral + paidOut
  BY DEF PoolInv, PoolTyped
<1>4. Book' = Book /\ Spare' = Spare
  BY <1>1, <1>2, <1>3 DEF Book, Spare
<1>5. PoolTyped'
  <2>1. /\ totalCollateral' \in Nat /\ held' \in Nat /\ paidOut' \in Nat
    BY <1>1, <1>2, <1>3
  <2>2. wallet' \in [Accounts -> Nat]
    <3>1. \A a \in Accounts : wallet[a] + PaidTo(allocs, a) \in Nat
      BY <1>1, <1>3
    <3> QED BY <1>2, <3>1
  <2> QED BY <1>2, <2>1, <2>2 DEF PoolInv, PoolTyped
<1>6. Total(StakesIn(Book')) = totalCollateral' + paidOut'
  <2>1. Total(StakesIn(Book')) = Total(StakesIn(Book))
    BY <1>4
  <2>2. (totalCollateral - loss) + (paidOut + loss) = totalCollateral + paidOut
    BY <1>1, <1>3
  <2> QED BY <1>2, <1>3, <2>1, <2>2
<1>7. paidOut' = 0 => paidOut = 0
  BY <1>1, <1>2, <1>3
<1> QED BY <1>2, <1>4, <1>5, <1>6, <1>7 DEF PoolInv

\* The steps that move no figure of the pool.
LEMMA StillPool ==
  ASSUME PoolInv, UNCHANGED <<totalCollateral, acc, feeAccrued, seller, held, wallet,
                              paidOut, roundedOff>>
  PROVE  PoolInv'
<1>1. Book' = Book /\ Spare' = Spare
  BY DEF Book, Spare
<1> QED BY <1>1 DEF PoolInv, PoolTyped

LEMMA PoolInitInv == KeeperInit => PoolInv
<1> SUFFICES ASSUME KeeperInit PROVE PoolInv
  OBVIOUS
<1> DEFINE none == [stake |-> 0, debt |-> 0, claimable |-> 0]
<1>1. /\ seller = [s \in Sellers |-> [coll |-> 0, debt |-> 0, claimable |-> 0]]
      /\ totalCollateral = 0 /\ acc = 0 /\ feeAccrued = 0 /\ held = 0 /\ paidOut = 0
      /\ roundedOff = 0 /\ wallet = InitialTokens
  BY DEF KeeperInit, ConfidentialInit
<1>2. Book = [s \in Sellers |-> none]
  BY <1>1 DEF Book
<1>3. PoolTyped
  BY <1>1, ConfidentialAssumption DEF PoolTyped
<1>4. IsLedger(Sellers, Book, acc, AccScale)
  <2>1. AccScale \in Nat \ {0}
    BY ScaleTypes
  <2>2. 0 * AccScale <= 0 * 0
    BY <2>1
  <2> QED BY <1>1, <1>2, <2>1, <2>2, SellersFinite DEF IsLedger, Stakes
<1>5. /\ StakesIn(Book) = [s \in Sellers |-> 0]
      /\ Earnings(Book, acc, AccScale) = [s \in Sellers |-> 0]
  <2>1. 0 * AccScale + (0 * 0 - 0 * AccScale) = 0
    BY ScaleTypes
  <2> QED BY <1>1, <1>2, <2>1 DEF StakesIn, Earnings
<1>6. Total([s \in Sellers |-> 0]) = 0
  <2> DEFINE f == [s \in Sellers |-> 0]
  <2>1. f \in [Sellers -> Nat] /\ \A s \in Sellers : f[s] = 0
    OBVIOUS
  <2> HIDE DEF f
  <2>2. Total(f) = 0
    BY <2>1, SellersFinite, TotalZero
  <2> QED BY <2>2 DEF f
<1>7. Spare = 0
  BY <1>1 DEF Spare
<1>8. 0 <= 0 * AccScale + 0
  BY ScaleTypes
<1>9. Funded(Book, acc, AccScale, Spare, roundedOff)
  BY <1>1, <1>5, <1>6, <1>7, <1>8 DEF Funded
<1> QED BY <1>1, <1>3, <1>4, <1>5, <1>6, <1>9 DEF PoolInv

LEMMA PoolNextInv ==
  ASSUME PoolInv, KeeperInv, [KeeperNext]_vars
  PROVE  PoolInv'
<1>1. CASE \/ \E cover \in Covers, collateral \in Figures : KeeperBuy(cover, collateral)
           \/ \E cover \in Covers, collateral \in Figures : KeeperBuyCrash(cover, collateral)
           \/ \E after \in Figures : KeeperWithdraw(after)
  <2>1. UNCHANGED confidentialVars
    BY <1>1, ArtifactsStep
  <2> QED BY <2>1, StillPool DEF confidentialVars, premiumVars, tokenVars
<1>2. CASE VaultStep
  <2> USE <1>2 DEF VaultStep
  <2>1. CASE \E s \in Sellers, amount \in Amounts : Deposit(s, amount)
    BY <2>1, DepositPool
  <2>2. CASE \E b \in Buyers, sale \in sales, premium \in Premiums :
               BuyProtectionProven(b, sale, premium)
    BY <2>2, PurchasePool
  <2>3. CASE \E s \in Sellers, amount \in Amounts, exit \in exits :
               WithdrawProven(s, amount, exit)
    BY <2>3, WithdrawPool
  <2>4. CASE \E s \in Sellers : ClaimPremium(s)
    BY <2>4, ClaimPool
  <2>5. CASE ClaimProtocolFee
    BY <2>5, FeePool
  <2>6. CASE \E allocs \in AllocationLists : bookCover > 0 /\ PayAllocations(allocs)
    BY <2>6, PayoutPool
  <2>7. CASE \E open \in BOOLEAN : SetWindow(open)
    BY <2>7, StillPool DEF SetWindow, premiumVars, tokenVars
  <2> QED BY <2>1, <2>2, <2>3, <2>4, <2>5, <2>6, <2>7
<1>3. CASE UNCHANGED vars
  BY <1>3, StillPool DEF vars, confidentialVars, premiumVars, tokenVars
<1> QED BY <1>1, <1>2, <1>3 DEF KeeperNext

\* The inductive invariant of the pool: with that of the hidden book, which is
\* what keeps a withdrawal from taking more than the reserve.
THEOREM PoolInvHolds == KeeperSpec => []PoolInv
<1>1. PoolInv /\ KeeperInv /\ [KeeperNext]_vars => PoolInv'
  BY PoolNextInv
<1> QED BY PoolInitInv, KeeperInvariant, <1>1, PTL DEF KeeperSpec

LEMMA FundingFollows == PoolInv => PoolsFunded
<1> SUFFICES ASSUME PoolInv PROVE PoolsFunded
  OBVIOUS
<1> DEFINE claims == [s \in Sellers |-> PendingPremium(s)]
           x == Total(claims)
           owed == totalCollateral + feeAccrued
<1>1. IsLedger(Sellers, Book, acc, AccScale)
  BY DEF PoolInv
<1>2. claims = Claims(Book, acc, AccScale)
  <2> DEFINE c == Claims(Book, acc, AccScale)
  <2>1. \A s \in Sellers : claims[s] = c[s]
    BY StakeFigures
  <2>2. c = [s \in Sellers |-> c[s]] /\ claims = [s \in Sellers |-> claims[s]]
    BY DEF Claims, Book
  <2> HIDE DEF c, claims
  <2>3. claims = c
    BY <2>1, <2>2
  <2> QED BY <2>3 DEF c
<1>3. StakesIn(Book) = [s \in Sellers |-> seller[s].coll]
  BY DEF StakesIn, Book
<1>4. x \in Nat
  BY <1>1, <1>2, LedgerTypes
<1>5. paidOut = 0 => x * AccScale <= Spare * AccScale + roundedOff
  BY <1>1, <1>2, ClaimsCovered DEF PoolInv
<1> HIDE DEF claims, x
<1>6. /\ held \in Nat /\ totalCollateral \in Nat /\ feeAccrued \in Nat
      /\ roundedOff \in Nat /\ AccScale \in Nat /\ Spare = held - owed /\ owed \in Nat
  BY ScaleTypes DEF PoolInv, PoolTyped, Spare
<1> HIDE DEF owed
<1>7. /\ held * AccScale = Spare * AccScale + owed * AccScale
      /\ (owed + x) * AccScale = owed * AccScale + x * AccScale
      /\ x * AccScale \in Nat /\ owed * AccScale \in Nat /\ Spare * AccScale \in Int
  BY <1>4, <1>6
<1>8. paidOut = 0 => held * AccScale + roundedOff >= (owed + x) * AccScale
  BY <1>4, <1>5, <1>6, <1>7
<1>9. Total([s \in Sellers |-> seller[s].coll]) = totalCollateral + paidOut
  BY <1>3 DEF PoolInv
<1> QED BY <1>8, <1>9, StakeFigures DEF PoolsFunded, claims, x, owed

\* The stakes are the reserve and all that was paid out of it, and until the
\* first payout every seller's premium is in the token balance, for any sellers,
\* premiums, artifacts and history.
THEOREM PoolsFundedHolds == KeeperSpec => []PoolsFunded
BY PoolInvHolds, FundingFollows, PTL
=============================================================================
