-------------------------- MODULE SettlementProofs --------------------------
(***************************************************************************)
(* The instrument as a whole.  First the vault alone: its books balance    *)
(* against any settlement contract.  VaultInv is inductive; one lemma per  *)
(* entrypoint shows that the call preserves it, so that the modules which  *)
(* compose the vault with a settlement contract can cite the lemma of the  *)
(* call they make.                                                         *)
(*                                                                         *)
(* Then the vault under the settlement contract: every token paid is on    *)
(* exactly one receipt, and the instrument implements Protection.tla.  The *)
(* proof rests on what the guest commits to (JournalOK): an artifact       *)
(* carries the payouts of its own book at one common shortfall.            *)
(***************************************************************************)
EXTENDS Settlement, SumsProofs, SequenceTheorems

VaultInv == VaultTypeOK /\ Custody /\ SellerBooks /\ CoverBacked

\* The sum of an allocation list whose amounts are positive is a natural
\* number, and so is what any one payee receives from it.
LEMMA AllocationSumType ==
  ASSUME NEW allocs, IsAllocationList(allocs),
         \A i \in DOMAIN allocs : allocs[i].amount > 0
  PROVE  AllocationSum(allocs) \in Nat /\ \A a : PaidTo(allocs, a) \in Nat
<1> DEFINE amounts == [i \in DOMAIN allocs |-> allocs[i].amount]
           places(a) == {j \in DOMAIN allocs : allocs[j].buyer = a}
           own(a) == [i \in places(a) |-> allocs[i].amount]
<1>1. amounts \in [DOMAIN allocs -> Nat]
  BY DEF IsAllocationList
<1>2. AllocationSum(allocs) \in Nat
  BY <1>1, TotalType DEF AllocationSum, IsAllocationList
<1>3. ASSUME NEW a PROVE PaidTo(allocs, a) \in Nat
  <2>1. IsFiniteSet(places(a))
    BY FS_Subset DEF IsAllocationList
  <2>2. own(a) \in [places(a) -> Nat]
    BY DEF IsAllocationList
  <2> HIDE DEF places
  <2>3. Total(own(a)) \in Nat
    BY <2>1, <2>2, TotalType
  <2> QED BY <2>3 DEF PaidTo, places
<1> QED BY <1>2, <1>3

\* A change of one seller's balance changes the sum of the balances by as much.
LEMMA SellersTotal ==
  ASSUME NEW b \in [Sellers -> Nat], NEW s \in Sellers, NEW n \in Nat
  PROVE  /\ Total([b EXCEPT ![s] = b[s] + n]) = Total(b) + n
         /\ n <= b[s] => Total([b EXCEPT ![s] = b[s] - n]) = Total(b) - n
<1>1. Total([b EXCEPT ![s] = b[s] + n]) = Total(b) + n
  BY TotalAdd, FiniteAssumption
<1>2. ASSUME n <= b[s]
      PROVE  Total([b EXCEPT ![s] = b[s] - n]) = Total(b) - n
  BY <1>2, TotalSubtract, FiniteAssumption
<1> QED BY <1>1, <1>2

\* A freshly deployed vault is balanced.
LEMMA VaultInitInv == VaultInit => VaultInv
<1> SUFFICES ASSUME VaultInit PROVE VaultInv
  OBVIOUS
<1> USE DEF VaultInit
<1>1. VaultTypeOK
  <2>1. positions \in Seq(Commitments)
    BY EmptySeq
  <2>2. sellerBal \in [Sellers -> 0..I128Max] /\ totalCollateral \in 0..I128Max
    BY MaxAssumption
  <2>3. wallet \in [Accounts -> Nat]
    BY TokensAssumption
  <2> QED BY <2>1, <2>2, <2>3 DEF VaultTypeOK
<1>2. Total(sellerBal) = 0
  BY FiniteAssumption, TotalZero, sellerBal \in [Sellers -> Nat]
<1>3. SellerBooks
  BY <1>2 DEF SellerBooks
<1> QED BY <1>1, <1>3 DEF VaultInv, Custody, CoverBacked

\* A deposit adds the same amount to the pool, the seller's balance and the
\* vault's tokens.
LEMMA DepositInv ==
  ASSUME VaultInv, NEW s \in Sellers, NEW amount \in Int, Deposit(s, amount)
  PROVE  VaultInv'
<1> USE DEF VaultInv, VaultTypeOK
<1>1. amount \in Nat /\ sellerBal \in [Sellers -> Nat]
  BY DEF Deposit
<1>2. VaultTypeOK'
  BY MaxAssumption DEF Deposit, TransferIn, Accounts, Credited
<1>3. Total(sellerBal') = Total(sellerBal) + amount
  <2>1. Total([sellerBal EXCEPT ![s] = sellerBal[s] + amount]) = Total(sellerBal) + amount
    BY <1>1, SellersTotal
  <2> QED BY <2>1 DEF Deposit, Credited
<1>4. SellerBooks'
  BY <1>1, <1>3 DEF SellerBooks, Deposit
<1>5. Custody' /\ CoverBacked'
  BY <1>1 DEF Custody, CoverBacked, Deposit, TransferIn
<1> QED BY <1>2, <1>4, <1>5

\* A purchase only adds cover that fits the collateral.
LEMMA BuyProtectionInv ==
  ASSUME VaultInv, NEW commitment \in Commitments, NEW cover \in Int,
         BuyProtection(commitment, cover)
  PROVE  VaultInv'
<1> USE DEF VaultInv, VaultTypeOK
<1>1. VaultTypeOK'
  BY DEF BuyProtection
<1> QED BY <1>1 DEF BuyProtection, CoverFits, Custody, SellerBooks, CoverBacked

\* A withdrawal takes the same amount from the pool, the seller's balance and
\* the vault's tokens and respects the cover floor.
LEMMA WithdrawInv ==
  ASSUME VaultInv, NEW s \in Sellers, NEW amount \in Int, Withdraw(s, amount)
  PROVE  VaultInv'
<1> USE DEF VaultInv, VaultTypeOK
<1>1. amount \in Nat /\ amount <= sellerBal[s] /\ sellerBal \in [Sellers -> Nat]
  BY DEF Withdraw, SellerHas
<1>2. totalCollateral - amount \in 0..I128Max
  BY <1>1, MaxAssumption DEF Withdraw, CoverFloor
<1>3. VaultTypeOK'
  BY <1>1, <1>2, MaxAssumption DEF Withdraw, TransferOut, Accounts, PoolAfter
<1>4. Total(sellerBal') = Total(sellerBal) - amount
  <2>1. Total([sellerBal EXCEPT ![s] = sellerBal[s] - amount]) = Total(sellerBal) - amount
    BY <1>1, SellersTotal
  <2> QED BY <2>1 DEF Withdraw
<1>5. SellerBooks'
  BY <1>1, <1>4 DEF SellerBooks, Withdraw, PoolAfter
<1>6. Custody' /\ CoverBacked'
  BY <1>1 DEF Custody, CoverBacked, Withdraw, TransferOut, CoverFloor, PoolAfter
<1> QED BY <1>3, <1>5, <1>6

\* A payout moves the same sum from the pool and from the vault's tokens to
\* the history of payouts.
LEMMA PayAllocationsInv ==
  ASSUME VaultInv, NEW allocs, IsAllocationList(allocs), PayAllocations(allocs)
  PROVE  VaultInv'
<1> USE DEF VaultInv, VaultTypeOK
<1> DEFINE sum == AllocationSum(allocs)
<1>1. sum \in Nat /\ \A a : PaidTo(allocs, a) \in Nat
  BY AllocationSumType DEF PayAllocations
<1> HIDE DEF sum
<1>2. /\ sum <= totalCollateral /\ sum <= held
      /\ totalCollateral' = totalCollateral - sum
      /\ held' = held - sum
      /\ paidOut' = paidOut + sum
      /\ wallet' = [a \in Accounts |-> wallet[a] + PaidTo(allocs, a)]
      /\ UNCHANGED <<totalCover, positions, frozen, sellerBal>>
  BY DEF PayAllocations, TransferAll, PoolAfter, sum
<1>3. wallet' \in [Accounts -> Nat]
  BY <1>1, <1>2
<1>4. VaultTypeOK'
  BY <1>1, <1>2, <1>3, MaxAssumption
<1>5. SellerBooks'
  BY <1>1, <1>2 DEF SellerBooks
<1>6. Custody' /\ CoverBacked'
  BY <1>1, <1>2 DEF Custody, CoverBacked
<1> QED BY <1>4, <1>5, <1>6

\* Opening or closing the window moves no money.
LEMMA SetWindowInv ==
  ASSUME VaultInv, NEW open \in BOOLEAN, SetWindow(open)
  PROVE  VaultInv'
BY DEF VaultInv, VaultTypeOK, SetWindow, Custody, SellerBooks, CoverBacked

\* Tokens sent to the vault's address only add to what it holds.
LEMMA DonateInv ==
  ASSUME VaultInv, NEW a \in Accounts, NEW amount \in Int, Donate(a, amount)
  PROVE  VaultInv'
<1> USE DEF VaultInv, VaultTypeOK
<1>1. VaultTypeOK'
  BY DEF Donate, TransferIn
<1> QED BY <1>1 DEF Donate, TransferIn, Custody, SellerBooks, CoverBacked

\* A step that leaves the vault alone preserves its invariant.
LEMMA VaultStutterInv == ASSUME VaultInv, UNCHANGED vaultVars PROVE VaultInv'
BY DEF VaultInv, VaultTypeOK, Custody, SellerBooks, CoverBacked, vaultVars

LEMMA VaultNextInv == ASSUME VaultInv, [VaultNext]_vaultVars PROVE VaultInv'
<1>1. CASE \E s \in Sellers, amount \in Amounts : Deposit(s, amount)
  BY <1>1, DepositInv, AmountsAssumption
<1>2. CASE \E commitment \in Commitments, cover \in Covers :
             BuyProtection(commitment, cover)
  BY <1>2, BuyProtectionInv, AmountsAssumption
<1>3. CASE \E s \in Sellers, amount \in Amounts : Withdraw(s, amount)
  BY <1>3, WithdrawInv, AmountsAssumption
<1>4. CASE \E allocs \in AllocationLists : PayAllocations(allocs)
  BY <1>4, PayAllocationsInv, ListsAssumption
<1>5. CASE \E open \in BOOLEAN : SetWindow(open)
  BY <1>5, SetWindowInv
<1>6. CASE \E a \in Accounts, amount \in Amounts : Donate(a, amount)
  BY <1>6, DonateInv, AmountsAssumption
<1>7. CASE UNCHANGED vaultVars
  BY <1>7, VaultStutterInv
<1> QED BY <1>1, <1>2, <1>3, <1>4, <1>5, <1>6, <1>7 DEF VaultNext

\* The inductive invariant of the vault.
THEOREM VaultInvariant == VaultSpec => []VaultInv
<1>1. VaultInv /\ [VaultNext]_vaultVars => VaultInv'
  BY VaultNextInv
<1> QED BY VaultInitInv, <1>1, PTL DEF VaultSpec

\* The vault's state keeps its type: no balance and no total goes negative or
\* past the largest i128.
THEOREM VaultTypeCorrect == VaultSpec => []VaultTypeOK
<1>1. VaultInv => VaultTypeOK
  BY DEF VaultInv
<1> QED BY VaultInvariant, <1>1, PTL

\* Whatever a settlement contract pays, the vault holds the collateral it
\* accounts for.
THEOREM VaultCustody == VaultSpec => []Custody
<1>1. VaultInv => Custody
  BY DEF VaultInv
<1> QED BY VaultInvariant, <1>1, PTL

\* The sellers' own balances exceed the pool by exactly what was paid out.
THEOREM SellersOverstated == VaultSpec => []SellerBooks
<1>1. VaultInv => SellerBooks
  BY DEF VaultInv
<1> QED BY VaultInvariant, <1>1, PTL

\* The cover sold never exceeds the collateral plus what was paid out.
THEOREM CoverStaysBacked == VaultSpec => []CoverBacked
<1>1. VaultInv => CoverBacked
  BY DEF VaultInv
<1> QED BY VaultInvariant, <1>1, PTL

\* While the window is closed only a payout takes collateral out, and the book
\* that proofs are made on stays, for any sellers, buyers and settlement.
THEOREM ClosedWindowHolds == VaultSpec => WindowHoldsReserve
<1> DEFINE Held == frozen => /\ totalCollateral' < totalCollateral => paidOut' > paidOut
                             /\ positions' = positions
<1>1. VaultInv /\ [VaultNext]_vaultVars => [Held]_vaultVars
  <2> SUFFICES ASSUME VaultInv, VaultNext, frozen
               PROVE  Held
    OBVIOUS
  <2>1. totalCollateral \in Int /\ paidOut \in Nat
    BY DEF VaultInv, VaultTypeOK
  <2>2. CASE \E s \in Sellers, amount \in Amounts : Deposit(s, amount)
    BY <2>1, <2>2, AmountsAssumption DEF Deposit
  <2>3. CASE \E allocs \in AllocationLists : PayAllocations(allocs)
    <3> PICK allocs \in AllocationLists : PayAllocations(allocs)
      BY <2>3
    <3> DEFINE loss == AllocationSum(allocs)
    <3>1. loss \in Nat
      BY ListsAssumption, AllocationSumType DEF PayAllocations
    <3>2. /\ totalCollateral' = totalCollateral - loss
          /\ paidOut' = paidOut + loss
          /\ positions' = positions
      BY DEF PayAllocations, PoolAfter
    <3> HIDE DEF loss
    <3> QED BY <2>1, <3>1, <3>2
  <2>4. CASE \E open \in BOOLEAN : SetWindow(open)
    BY <2>1, <2>4 DEF SetWindow
  <2>5. CASE \E a \in Accounts, amount \in Amounts : Donate(a, amount)
    BY <2>1, <2>5 DEF Donate
  <2>6. /\ ~(\E commitment \in Commitments, cover \in Covers :
               BuyProtection(commitment, cover))
        /\ ~(\E s \in Sellers, amount \in Amounts : Withdraw(s, amount))
    BY DEF BuyProtection, Withdraw, WindowClosed
  <2> QED BY <2>2, <2>3, <2>4, <2>5, <2>6 DEF VaultNext
<1> QED BY VaultInvariant, <1>1, PTL DEF VaultSpec, WindowHoldsReserve

-----------------------------------------------------------------------------
(* The guest's arithmetic, for every snapshot, history and book.           *)

\* The part of a configuration the determination computes with.
IsBond(config) ==
  /\ IsFiniteSet(DOMAIN config.snapshot)
  /\ \A n \in DOMAIN config.snapshot : config.snapshot[n].balance \in Nat
  /\ config.rate \in Nat

IsHistory(paid) ==
  /\ IsFiniteSet(DOMAIN paid)
  /\ \A q \in DOMAIN paid : paid[q].amount \in Nat

IsBook(book) ==
  /\ IsFiniteSet(DOMAIN book)
  /\ \A i \in DOMAIN book : book[i].cover \in Nat

LEMMA OwedType ==
  ASSUME NEW config, IsBond(config), NEW n \in Owing(config)
  PROVE  Owed(config, n) \in Nat
BY ScaledType DEF IsBond, Owing, Owed, BPS_DENOM

LEMMA ShortType ==
  ASSUME NEW config, IsBond(config), NEW n \in Owing(config),
         NEW deadline, NEW paid, IsHistory(paid)
  PROVE  Short(config, n, deadline, paid) \in 0..Owed(config, n)
<1> DEFINE places == Qualifying(config, n, deadline, paid)
           counted == [q \in places |-> paid[q].amount]
<1>1. IsFiniteSet(places) /\ places \subseteq DOMAIN paid
  BY FS_Subset DEF Qualifying, IsHistory
<1>2. counted \in [places -> Nat]
  BY <1>1 DEF IsHistory
<1>3. Total(counted) \in Nat
  <2> HIDE DEF places, counted
  <2> QED BY <1>1, <1>2, TotalType
<1>4. Paid(config, n, deadline, paid) \in Nat
  BY <1>3 DEF Paid
<1> QED BY <1>4, OwedType DEF Short

\* The shortfall of the bond is at most what is owed on it, and both are
\* natural numbers.
LEMMA ShortfallBound ==
  ASSUME NEW config, IsBond(config), NEW deadline,
         NEW paid, IsHistory(paid)
  PROVE  /\ SumOwed(config) \in Nat
         /\ SumShort(config, deadline, paid) \in 0..SumOwed(config)
<1> DEFINE S == Owing(config)
           owed == [n \in S |-> Owed(config, n)]
           short == [n \in S |-> Short(config, n, deadline, paid)]
<1>1. IsFiniteSet(S)
  BY FS_Subset DEF Owing, IsBond
<1>2. owed \in [S -> Nat] /\ short \in [S -> Nat] /\ \A n \in S : short[n] <= owed[n]
  BY OwedType, ShortType
<1>3. Total(owed) \in Nat /\ Total(short) \in Nat /\ Total(short) <= Total(owed)
  <2> HIDE DEF S, owed, short
  <2> QED BY <1>1, <1>2, TotalType, TotalMonotone
<1> QED BY <1>3 DEF SumOwed, SumShort

\* A payout is at most its cover.
LEMMA PayoutBound ==
  ASSUME NEW cover \in Nat, NEW short \in Nat, NEW owed \in Nat \ {0}
  PROVE  Payout(cover, short, owed) \in 0..cover
BY ScaledType DEF Payout, Lesser

\* Every allocation is positive and the payouts of a book together are at
\* most its cover.
LEMMA AllocationsBound ==
  ASSUME NEW book, IsBook(book), NEW short \in Nat, NEW owed \in Nat \ {0}
  PROVE  LET allocs == Allocations(book, short, owed)
         IN  /\ IsFiniteSet(DOMAIN allocs)
             /\ DOMAIN allocs \subseteq DOMAIN book
             /\ \A i \in DOMAIN allocs :
                  /\ allocs[i] = [buyer |-> book[i].buyer,
                                  amount |-> Payout(book[i].cover, short, owed)]
                  /\ allocs[i].amount \in 1..book[i].cover
             /\ AllocationSum(allocs) \in 0..BookCover(book)
<1> DEFINE allocs == Allocations(book, short, owed)
           S == DOMAIN book
           R == DOMAIN allocs
           amounts == [i \in R |-> allocs[i].amount]
           covers == [i \in S |-> book[i].cover]
<1>1. R = {j \in S : Payout(book[j].cover, short, owed) > 0}
  BY DEF Allocations
<1>2. IsFiniteSet(S) /\ IsFiniteSet(R) /\ R \in SUBSET S
  BY <1>1, FS_Subset DEF IsBook
<1>3. \A i \in R : allocs[i] = [buyer |-> book[i].buyer,
                                amount |-> Payout(book[i].cover, short, owed)]
  BY DEF Allocations
<1>4. \A i \in R : allocs[i].amount \in 1..book[i].cover
  <2>1. ASSUME NEW i \in R PROVE allocs[i].amount \in 1..book[i].cover
    <3> DEFINE payout == Payout(book[i].cover, short, owed)
    <3>1. i \in S /\ payout > 0
      BY <1>1
    <3>2. payout \in 0..book[i].cover /\ book[i].cover \in Nat
      BY <3>1, PayoutBound DEF IsBook
    <3>3. allocs[i].amount = payout
      BY <1>3
    <3> HIDE DEF payout, allocs
    <3> QED BY <3>1, <3>2, <3>3
  <2> QED BY <2>1
<1>5. /\ amounts \in [R -> Nat]
      /\ covers \in [S -> Nat]
      /\ \A i \in R : amounts[i] <= covers[i]
  BY <1>2, <1>4 DEF IsBook
<1>6. Total(amounts) \in Nat /\ Total(covers) \in Nat /\ Total(amounts) <= Total(covers)
  <2> HIDE DEF S, R, amounts, covers
  <2> QED BY <1>2, <1>5, TotalType, TotalMonotone
<1>7. AllocationSum(allocs) \in 0..BookCover(book)
  BY <1>6 DEF AllocationSum, BookCover
<1> QED BY <1>2, <1>3, <1>4, <1>7

-----------------------------------------------------------------------------
\* The first and the last entry of a scheduled epoch exist.
LEMMA PlacesBounds ==
  ASSUME NEW E, NEW schedule \in Seq([epoch : E, deadline : Nat]),
         NEW e, Scheduled(schedule, e)
  PROVE  /\ Min(Places(schedule, e)) \in Places(schedule, e)
         /\ Max(Places(schedule, e)) \in Places(schedule, e)
         /\ \A n \in Places(schedule, e) : schedule[n].deadline \in Nat
<1> DEFINE T == Places(schedule, e)
           R == [epoch : E, deadline : Nat]
<1>1. DOMAIN schedule = 1..Len(schedule) /\ Len(schedule) \in Nat
  BY LenProperties
<1>2. T \in SUBSET (0..Len(schedule)) /\ T \in SUBSET Nat /\ T # {}
  BY <1>1 DEF Places, Scheduled
<1>3. ASSUME NEW n \in T PROVE schedule[n].deadline \in Nat
  <2>1. n \in 1..Len(schedule)
    BY <1>1 DEF Places
  <2>2. schedule \in Seq(R)
    OBVIOUS
  <2>3. schedule[n] \in R
    <3> HIDE DEF R
    <3> QED BY <2>1, <2>2, ElementOfSeq
  <2> QED BY <2>3
<1> HIDE DEF T
<1>4. Min(T) \in T
  BY <1>2, LeastNatural DEF Min
<1>5. Max(T) \in T
  BY <1>1, <1>2, GreatestNatural DEF Max
<1> QED BY <1>3, <1>4, <1>5 DEF T

-----------------------------------------------------------------------------
\* What every artifact carries, whoever proved it and when.
JournalOK(journal) ==
  /\ journal.instrument \in Instruments
  /\ journal.epoch \in Epochs
  /\ journal.positions \in Seq(Commitments)
  /\ Opened(journal.positions)
  /\ IsAllocationList(journal.allocs)
  /\ \A i \in DOMAIN journal.allocs : journal.allocs[i].amount > 0
  /\ LET owed == SumOwed(Config[journal.instrument])
     IN  owed \in Nat /\ \E short \in 1..owed :
           journal.allocs = Allocations(journal.positions, short, owed)

\* What does not depend on how the money left: the vault's books, the types,
\* the artifacts, and an artifact on the receipt of every settled epoch.
BooksInv ==
  /\ VaultInv
  /\ StateOK
  /\ \A journal \in proofs : JournalOK(journal)
  /\ ReceiptsKept

InstrumentInv == BooksInv /\ PaidExactlyReceipts

-----------------------------------------------------------------------------
\* The allocations of an opened book are a well-formed list of positive
\* amounts.
LEMMA AllocationsType ==
  ASSUME NEW book \in Seq(Commitments), Opened(book),
         NEW owed \in Nat, NEW short \in 1..owed
  PROVE  /\ IsAllocationList(Allocations(book, short, owed))
         /\ \A i \in DOMAIN Allocations(book, short, owed) :
              Allocations(book, short, owed)[i].amount > 0
<1> DEFINE allocs == Allocations(book, short, owed)
<1>1. \A i \in DOMAIN book : book[i].buyer \in Accounts /\ book[i].cover \in Nat
  BY OpeningsAssumption DEF Opened, Accounts
<1>2. IsBook(book)
  <2>1. DOMAIN book = 1..Len(book) /\ Len(book) \in Nat
    BY LenProperties
  <2>2. IsFiniteSet(DOMAIN book)
    BY <2>1, FS_Interval
  <2> QED BY <1>1, <2>2 DEF IsBook
<1>3. short \in Nat /\ owed \in Nat \ {0}
  OBVIOUS
<1>4. /\ IsFiniteSet(DOMAIN allocs)
      /\ DOMAIN allocs \subseteq DOMAIN book
      /\ \A i \in DOMAIN allocs :
           /\ allocs[i] = [buyer |-> book[i].buyer,
                           amount |-> Payout(book[i].cover, short, owed)]
           /\ allocs[i].amount \in 1..book[i].cover
  BY <1>2, <1>3, AllocationsBound
<1>5. \A i \in DOMAIN allocs :
        allocs[i] \in [buyer : Accounts, amount : Int] /\ allocs[i].amount > 0
  BY <1>1, <1>4
<1>6. allocs \in [DOMAIN allocs -> [buyer : Accounts, amount : Int]]
  <2>1. allocs = [i \in DOMAIN allocs |-> allocs[i]]
    BY DEF Allocations
  <2> HIDE DEF allocs
  <2> QED BY <1>5, <2>1
<1> QED BY <1>4, <1>5, <1>6 DEF IsAllocationList

\* The deliveries are a history the guest's arithmetic is sound on.
LEMMA HistoryType == ASSUME NEW p \in Seq(Deliveries) PROVE IsHistory(p)
<1>1. DOMAIN p = 1..Len(p) /\ Len(p) \in Nat
  BY LenProperties
<1>2. IsFiniteSet(DOMAIN p)
  BY <1>1, FS_Interval
<1>3. ASSUME NEW q \in 1..Len(p) PROVE p[q].amount \in Nat
  <2>1. p[q] \in Deliveries
    BY ElementOfSeq
  <2> QED BY <2>1 DEF Deliveries
<1> QED BY <1>1, <1>2, <1>3 DEF IsHistory

\* A run of the guest that does not panic commits a journal as above.
LEMMA GuestSound ==
  ASSUME StateOK, NEW i \in Instruments, NEW e \in Epochs,
         NEW book \in Seq(Commitments), Provable(Config[i], e, payments, book)
  PROVE  JournalOK(Journal(i, Config[i], e, payments, book))
<1> DEFINE config == Config[i]
           deadline == GuestDeadline(config.schedule, e)
           short == SumShort(config, deadline, payments)
           owed == SumOwed(config)
           journal == Journal(i, config, e, payments, book)
<1>1. IsBond(config)
  BY ConfigAssumption DEF IsConfig, IsBond, Provable, InDomain
<1>2. IsHistory(payments)
  BY HistoryType DEF StateOK
<1>3. owed \in Nat /\ short \in 0..owed
  <2> HIDE DEF config, deadline
  <2> QED BY <1>1, <1>2, ShortfallBound
<1>4. short > 0 /\ Opened(book)
  BY DEF Provable, Missed
<1>5. short \in 1..owed
  BY <1>3, <1>4
<1>6. /\ journal.instrument = i
      /\ journal.epoch = e
      /\ journal.positions = book
      /\ journal.allocs = Allocations(book, short, owed)
  BY DEF Journal
<1> HIDE DEF short, owed, journal, config, deadline
<1>7. /\ IsAllocationList(journal.allocs)
      /\ \A n \in DOMAIN journal.allocs : journal.allocs[n].amount > 0
  BY <1>3, <1>4, <1>5, <1>6, AllocationsType
<1>8. owed = SumOwed(Config[journal.instrument])
  BY <1>6 DEF owed, config
<1>9. JournalOK(journal)
  BY <1>3, <1>4, <1>5, <1>6, <1>7, <1>8 DEF JournalOK
<1> QED BY <1>9 DEF journal, config

-----------------------------------------------------------------------------
(* The books, step by step.                                                *)

\* The balances of the buyers and all that was paid stay as they are.
BuyersIdle == paidOut' = paidOut /\ \A b \in Buyers : wallet'[b] = wallet[b]

\* A call of the vault keeps the books if it keeps those of the vault.
LEMMA CallBooks ==
  ASSUME BooksInv, VaultInv', UNCHANGED <<marketVars, proofs, settlementVars>>
  PROVE  BooksInv'
<1> USE DEF BooksInv
<1>1. StateOK'
  BY DEF StateOK, marketVars, settlementVars
<1>2. (\A journal \in proofs : JournalOK(journal))' /\ ReceiptsKept'
  BY DEF JournalOK, ReceiptsKept, SettledEpochs, settlementVars
<1> QED BY <1>1, <1>2

\* Buyers are no sellers: what a seller's transfer changes is not theirs.
LEMMA BuyersUntouched ==
  ASSUME VaultTypeOK, NEW s \in Sellers, NEW x, NEW b \in Buyers,
         wallet' = [wallet EXCEPT ![s] = x]
  PROVE  wallet'[b] = wallet[b]
BY DisjointAssumption DEF VaultTypeOK, Accounts

LEMMA SellerDepositBooks ==
  ASSUME BooksInv, NEW s \in Sellers, NEW amount \in Amounts, SellerDeposit(s, amount)
  PROVE  BooksInv' /\ BuyersIdle
<1>1. Deposit(s, amount) /\ UNCHANGED <<marketVars, proofs, settlementVars>>
  BY DEF SellerDeposit
<1>2. VaultInv'
  BY <1>1, DepositInv, AmountsAssumption DEF BooksInv
<1>3. paidOut' = paidOut /\ wallet' = [wallet EXCEPT ![s] = wallet[s] - amount]
  BY <1>1 DEF Deposit, TransferIn
<1>4. BuyersIdle
  BY <1>3, BuyersUntouched DEF BooksInv, VaultInv, BuyersIdle
<1> QED BY <1>1, <1>2, <1>4, CallBooks

LEMMA SellerWithdrawBooks ==
  ASSUME BooksInv, NEW s \in Sellers, NEW amount \in Amounts, SellerWithdraw(s, amount)
  PROVE  BooksInv' /\ BuyersIdle
<1>1. Withdraw(s, amount) /\ UNCHANGED <<marketVars, proofs, settlementVars>>
  BY DEF SellerWithdraw
<1>2. VaultInv'
  BY <1>1, WithdrawInv, AmountsAssumption DEF BooksInv
<1>3. paidOut' = paidOut /\ wallet' = [wallet EXCEPT ![s] = wallet[s] + amount]
  BY <1>1 DEF Withdraw, TransferOut
<1>4. BuyersIdle
  BY <1>3, BuyersUntouched DEF BooksInv, VaultInv, BuyersIdle
<1> QED BY <1>1, <1>2, <1>4, CallBooks

LEMMA PurchaseBooks ==
  ASSUME BooksInv, NEW commitment \in Commitments, NEW cover \in Covers,
         BuyProtection(commitment, cover),
         UNCHANGED <<marketVars, proofs, settlementVars>>
  PROVE  BooksInv' /\ BuyersIdle
<1>1. VaultInv'
  BY BuyProtectionInv, AmountsAssumption DEF BooksInv
<1>2. BuyersIdle
  BY DEF BuyProtection, BuyersIdle
<1> QED BY <1>1, <1>2, CallBooks

\* The clock, a coupon and a clawback change the market only.
LEMMA MarketBooks ==
  ASSUME BooksInv, UNCHANGED <<vaultVars, proofs, settlementVars>>, StateOK'
  PROVE  BooksInv' /\ BuyersIdle
<1> USE DEF BooksInv
<1>1. VaultInv'
  BY VaultStutterInv
<1>2. (\A journal \in proofs : JournalOK(journal))' /\ ReceiptsKept'
  BY DEF JournalOK, ReceiptsKept, SettledEpochs, settlementVars
<1> QED BY <1>1, <1>2 DEF BuyersIdle, vaultVars

LEMMA TickBooks == ASSUME BooksInv, Tick PROVE BooksInv' /\ BuyersIdle
<1>1. StateOK'
  BY DEF BooksInv, StateOK, Tick, settlementVars
<1> QED BY <1>1, MarketBooks DEF Tick

LEMMA PayCouponBooks ==
  ASSUME BooksInv, NEW holder \in HolderIds, NEW amount \in CouponAmounts,
         PayCoupon(holder, amount)
  PROVE  BooksInv' /\ BuyersIdle
<1> DEFINE R == Deliveries
           payment == [holder |-> holder, amount |-> amount, paidAt |-> now,
                       clawed |-> FALSE, clawedAt |-> 0]
<1>1. payment \in R /\ payments \in Seq(R)
  BY CouponAssumption DEF BooksInv, StateOK, Deliveries
<1>2. payments' = Append(payments, payment)
  BY DEF PayCoupon
<1>3. payments' \in Seq(R)
  <2> HIDE DEF R, payment
  <2> QED BY <1>1, <1>2, AppendProperties
<1>4. StateOK'
  BY <1>3 DEF BooksInv, StateOK, PayCoupon, settlementVars
<1> QED BY <1>4, MarketBooks DEF PayCoupon

LEMMA ClawbackBooks ==
  ASSUME BooksInv, NEW q \in DOMAIN payments, Clawback(q)
  PROVE  BooksInv' /\ BuyersIdle
<1> DEFINE R == Deliveries
           payment == [payments[q] EXCEPT !.clawed = TRUE, !.clawedAt = now]
<1>1. payments \in Seq(R) /\ now \in Nat
  BY DEF BooksInv, StateOK
<1>2. payments' = [payments EXCEPT ![q] = payment]
  BY DEF Clawback
<1>3. payments[q] \in R
  <2> HIDE DEF R
  <2> QED BY <1>1, ElementOfSeq, LenProperties
<1>4. payment \in R
  BY <1>1, <1>3 DEF Deliveries
<1>5. payments' \in Seq(R)
  <2> HIDE DEF R, payment
  <2> QED BY <1>1, <1>2, <1>4, ExceptSeq, LenProperties
<1>6. StateOK'
  BY <1>5 DEF BooksInv, StateOK, Clawback, settlementVars
<1> QED BY <1>6, MarketBooks DEF Clawback

LEMMA ProveBooks ==
  ASSUME BooksInv, NEW i \in Instruments, NEW e \in Epochs, Prove(i, e)
  PROVE  BooksInv' /\ BuyersIdle
<1> USE DEF BooksInv
<1>1. PICK book \in BookOf(i) :
        /\ Provable(Config[i], e, payments, book)
        /\ proofs' = proofs \cup {Journal(i, Config[i], e, payments, book)}
  BY DEF Prove
<1>2. UNCHANGED <<vaultVars, marketVars, settlementVars>>
  BY DEF Prove
<1>3. book \in Seq(Commitments)
  BY OtherBooksAssumption DEF BookOf, VaultInv, VaultTypeOK
<1>4. JournalOK(Journal(i, Config[i], e, payments, book))
  BY <1>1, <1>3, GuestSound
<1>5. VaultInv'
  BY <1>2, VaultStutterInv
<1>6. \A journal \in proofs' : JournalOK(journal)
  BY <1>1, <1>4
<1>7. (\A journal \in proofs : JournalOK(journal))'
  BY <1>6 DEF JournalOK
<1>8. StateOK'
  BY <1>1, <1>2, <1>6 DEF StateOK, JournalOK, settlementVars, marketVars
<1>9. ReceiptsKept' /\ BuyersIdle
  BY <1>1, <1>2 DEF ReceiptsKept, SettledEpochs, settlementVars, vaultVars, BuyersIdle
<1> QED BY <1>5, <1>7, <1>8, <1>9

\* One settlement adds one receipt, and what it carries to the buyers' money.
LEMMA SettleBooks ==
  ASSUME BooksInv, NEW journal \in proofs, Settle(journal)
  PROVE  /\ BooksInv'
         /\ journal.epoch \in Epochs \ SettledEpochs
         /\ SettledEpochs' = SettledEpochs \cup {journal.epoch}
         /\ \A x \in SettledEpochs : receipts'[x] = receipts[x]
         /\ receipts'[journal.epoch] = journal
         /\ paidOut' = paidOut + AllocationSum(journal.allocs)
         /\ wallet' = [a \in Accounts |-> wallet[a] + PaidTo(journal.allocs, a)]
<1> USE DEF BooksInv
<1> DEFINE e == journal.epoch
           allocs == journal.allocs
<1>1. JournalOK(journal) /\ e \in Epochs
  BY DEF JournalOK
<1>2. /\ IsAllocationList(allocs)
      /\ \A i \in DOMAIN allocs : allocs[i].amount > 0
  BY <1>1 DEF JournalOK
<1>3. /\ ~settled[e]
      /\ settled' = [settled EXCEPT ![e] = TRUE]
      /\ receipts' = [receipts EXCEPT ![e] = journal]
      /\ PayAllocations(allocs)
      /\ UNCHANGED <<marketVars, proofs>>
  BY DEF Settle, NotYetSettled, Marked
<1>4. VaultInv'
  BY <1>2, <1>3, PayAllocationsInv
<1>5. StateOK'
  BY <1>1, <1>3 DEF StateOK, marketVars
<1>6. (\A j \in proofs : JournalOK(j))'
  BY <1>3 DEF JournalOK
<1>7. /\ e \in Epochs \ SettledEpochs
      /\ SettledEpochs' = SettledEpochs \cup {e}
      /\ \A x \in SettledEpochs : receipts'[x] = receipts[x]
      /\ receipts'[e] = journal
  BY <1>1, <1>3 DEF SettledEpochs, StateOK
<1>8. ReceiptsKept'
  BY <1>3, <1>7 DEF ReceiptsKept
<1>9. /\ paidOut' = paidOut + AllocationSum(allocs)
      /\ wallet' = [a \in Accounts |-> wallet[a] + PaidTo(allocs, a)]
  BY <1>3 DEF PayAllocations, TransferAll
<1> QED BY <1>4, <1>5, <1>6, <1>7, <1>8, <1>9

\* The sums over the receipts grow by what the new receipt carries.
LEMMA ReceiptSums ==
  ASSUME BooksInv, NEW journal \in proofs, Settle(journal)
  PROVE  /\ Total([e \in SettledEpochs' |-> AllocationSum(receipts'[e].allocs)])
              = Total([e \in SettledEpochs |-> AllocationSum(receipts[e].allocs)])
                + AllocationSum(journal.allocs)
         /\ \A b : Total([e \in SettledEpochs' |-> PaidTo(receipts'[e].allocs, b)])
                     = Total([e \in SettledEpochs |-> PaidTo(receipts[e].allocs, b)])
                       + PaidTo(journal.allocs, b)
<1> DEFINE e == journal.epoch
           allocs == journal.allocs
<1>1. /\ e \in Epochs \ SettledEpochs
      /\ SettledEpochs' = SettledEpochs \cup {e}
      /\ \A x \in SettledEpochs : receipts'[x] = receipts[x]
      /\ receipts'[e] = journal
  BY SettleBooks
<1>2. IsFiniteSet(SettledEpochs) /\ e \notin SettledEpochs
  BY <1>1, FS_Subset, ThisAssumption DEF SettledEpochs
<1>3. \A x \in SettledEpochs : /\ IsAllocationList(receipts[x].allocs)
                               /\ \A i \in DOMAIN receipts[x].allocs :
                                    receipts[x].allocs[i].amount > 0
  BY DEF BooksInv, ReceiptsKept, JournalOK
<1>4. \A x \in SettledEpochs : /\ AllocationSum(receipts[x].allocs) \in Nat
                               /\ \A b : PaidTo(receipts[x].allocs, b) \in Nat
  BY <1>3, AllocationSumType
<1>5. AllocationSum(allocs) \in Nat /\ \A b : PaidTo(allocs, b) \in Nat
  <2>1. JournalOK(journal)
    BY DEF BooksInv
  <2> QED BY <2>1, AllocationSumType DEF JournalOK
<1>6. Total([x \in SettledEpochs' |-> AllocationSum(receipts'[x].allocs)])
        = Total([x \in SettledEpochs |-> AllocationSum(receipts[x].allocs)])
          + AllocationSum(allocs)
  <2> DEFINE f == [x \in SettledEpochs |-> AllocationSum(receipts[x].allocs)]
             g == [x \in SettledEpochs' |-> AllocationSum(receipts'[x].allocs)]
  <2>1. f \in [SettledEpochs -> Nat]
    BY <1>4
  <2>2. g \in [SettledEpochs \cup {e} -> Nat] /\ g[e] = AllocationSum(allocs)
    BY <1>1, <1>4, <1>5
  <2>3. \A x \in SettledEpochs : g[x] = f[x]
    BY <1>1
  <2> HIDE DEF e, f, g
  <2>4. Total(g) = Total(f) + g[e]
    BY <1>2, <2>1, <2>2, <2>3, TotalExtend
  <2> QED BY <2>2, <2>4 DEF f, g
<1>7. ASSUME NEW b
      PROVE  Total([x \in SettledEpochs' |-> PaidTo(receipts'[x].allocs, b)])
               = Total([x \in SettledEpochs |-> PaidTo(receipts[x].allocs, b)])
                 + PaidTo(allocs, b)
  <2> DEFINE f == [x \in SettledEpochs |-> PaidTo(receipts[x].allocs, b)]
             g == [x \in SettledEpochs' |-> PaidTo(receipts'[x].allocs, b)]
  <2>1. f \in [SettledEpochs -> Nat]
    BY <1>4
  <2>2. g \in [SettledEpochs \cup {e} -> Nat] /\ g[e] = PaidTo(allocs, b)
    BY <1>1, <1>4, <1>5
  <2>3. \A x \in SettledEpochs : g[x] = f[x]
    BY <1>1
  <2> HIDE DEF e, f, g
  <2>4. Total(g) = Total(f) + g[e]
    BY <1>2, <2>1, <2>2, <2>3, TotalExtend
  <2> QED BY <2>2, <2>4 DEF f, g
<1> QED BY <1>6, <1>7

-----------------------------------------------------------------------------
(* The instrument: nothing else pays a buyer.                              *)

LEMMA EmptyTotal == ASSUME NEW f \in [{} -> Nat] PROVE Total(f) = 0
BY FS_EmptySet, TotalZero

LEMMA InitBooks == SettlementInit => BooksInv /\ SettledEpochs = {}
<1> SUFFICES ASSUME SettlementInit PROVE BooksInv /\ SettledEpochs = {}
  OBVIOUS
<1> USE DEF SettlementInit
<1>1. VaultInv
  BY VaultInitInv
<1>2. SettledEpochs = {}
  BY DEF SettledEpochs
<1>3. StateOK
  BY EmptySeq DEF StateOK
<1> QED BY <1>1, <1>2, <1>3 DEF BooksInv, ReceiptsKept

LEMMA InitInv == SettlementInit => InstrumentInv
<1> SUFFICES ASSUME SettlementInit PROVE InstrumentInv
  OBVIOUS
<1>1. BooksInv /\ SettledEpochs = {}
  BY InitBooks
<1>2. [e \in SettledEpochs |-> AllocationSum(receipts[e].allocs)] \in [{} -> Nat]
  BY <1>1
<1>3. ASSUME NEW b \in Buyers
      PROVE  [e \in SettledEpochs |-> PaidTo(receipts[e].allocs, b)] \in [{} -> Nat]
  BY <1>1
<1>4. paidOut = 0 /\ \A b \in Buyers : wallet[b] = 0
  BY DisjointAssumption DEF SettlementInit, VaultInit, Accounts
<1>5. PaidExactlyReceipts
  BY <1>2, <1>3, <1>4, EmptyTotal DEF PaidExactlyReceipts
<1> QED BY <1>1, <1>5 DEF InstrumentInv

\* A step without a settlement keeps the books and pays no buyer.
LEMMA IdleStep ==
  ASSUME BooksInv, [SettlementNext]_vars, \A journal \in proofs : ~Settle(journal)
  PROVE  BooksInv' /\ BuyersIdle /\ UNCHANGED settlementVars
<1>1. CASE Tick
  BY <1>1, TickBooks DEF Tick
<1>2. CASE \E holder \in HolderIds, amount \in CouponAmounts : PayCoupon(holder, amount)
  BY <1>2, PayCouponBooks DEF PayCoupon
<1>3. CASE \E q \in DOMAIN payments : Clawback(q)
  BY <1>3, ClawbackBooks DEF Clawback
<1>4. CASE \E i \in Instruments, e \in Epochs : Prove(i, e)
  BY <1>4, ProveBooks DEF Prove
<1>5. CASE \E s \in Sellers, amount \in Amounts : SellerDeposit(s, amount)
  BY <1>5, SellerDepositBooks DEF SellerDeposit
<1>6. CASE \E s \in Sellers, amount \in Amounts : SellerWithdraw(s, amount)
  BY <1>6, SellerWithdrawBooks DEF SellerWithdraw
<1>7. CASE \E commitment \in Commitments, cover \in Covers : Buy(commitment, cover)
  BY <1>7, PurchaseBooks DEF Buy
<1>8. CASE UNCHANGED vars
  <2>1. StateOK'
    BY <1>8 DEF BooksInv, StateOK, vars, marketVars, settlementVars
  <2> QED BY <1>8, <2>1, MarketBooks DEF vars
<1> QED BY <1>1, <1>2, <1>3, <1>4, <1>5, <1>6, <1>7, <1>8 DEF SettlementNext

LEMMA NextInv ==
  ASSUME InstrumentInv, [SettlementNext]_vars
  PROVE  InstrumentInv'
<1> USE DEF InstrumentInv
<1>1. CASE \A journal \in proofs : ~Settle(journal)
  <2>1. BooksInv' /\ BuyersIdle /\ UNCHANGED settlementVars
    BY <1>1, IdleStep
  <2>2. SettledEpochs' = SettledEpochs /\ receipts' = receipts
    BY <2>1 DEF SettledEpochs, settlementVars
  <2>3. PaidExactlyReceipts'
    BY <2>1, <2>2 DEF PaidExactlyReceipts, BuyersIdle
  <2> QED BY <2>1, <2>3
<1>2. CASE \E journal \in proofs : Settle(journal)
  <2>1. PICK journal \in proofs : Settle(journal)
    BY <1>2
  <2>2. /\ BooksInv'
        /\ paidOut' = paidOut + AllocationSum(journal.allocs)
        /\ wallet' = [a \in Accounts |-> wallet[a] + PaidTo(journal.allocs, a)]
    BY <2>1, SettleBooks
  <2>3. paidOut' = Total([e \in SettledEpochs' |-> AllocationSum(receipts'[e].allocs)])
    BY <2>1, <2>2, ReceiptSums DEF PaidExactlyReceipts
  <2>4. ASSUME NEW b \in Buyers
        PROVE  wallet'[b] = Total([e \in SettledEpochs' |-> PaidTo(receipts'[e].allocs, b)])
    <3>1. wallet'[b] = wallet[b] + PaidTo(journal.allocs, b)
      BY <2>2 DEF Accounts
    <3> QED BY <2>1, <3>1, ReceiptSums DEF PaidExactlyReceipts
  <2> QED BY <2>2, <2>3, <2>4 DEF PaidExactlyReceipts
<1> QED BY <1>1, <1>2

\* The inductive invariant of the instrument.
THEOREM InstrumentInvariant == SettlementSpec => []InstrumentInv
<1>1. InstrumentInv /\ [SettlementNext]_vars => InstrumentInv'
  BY NextInv
<1> QED BY InitInv, <1>1, PTL DEF SettlementSpec

\* The state of the instrument keeps its type.
THEOREM SettlementTypeCorrect == SettlementSpec => []SettlementTypeOK
<1>1. InstrumentInv => SettlementTypeOK
  BY DEF InstrumentInv, BooksInv, SettlementTypeOK
<1> QED BY InstrumentInvariant, <1>1, PTL

\* Every token a buyer ever received is on the one receipt of a settled epoch,
\* for every schedule, bond, set of keepers' artifacts and order of submission.
THEOREM PaidOnReceipt == SettlementSpec => []PaidExactlyReceipts
<1>1. InstrumentInv => PaidExactlyReceipts
  BY DEF InstrumentInv
<1> QED BY InstrumentInvariant, <1>1, PTL

-----------------------------------------------------------------------------
\* An artifact of this instrument names the deadline the guest has found.
GuestDeadlines ==
  \A journal \in proofs : journal.instrument = This =>
    journal.deadline = GuestDeadline(Config[This].schedule, journal.epoch)

LEMMA DeadlineStep ==
  ASSUME InstrumentInv, GuestDeadlines, ScheduledTwiceNeverSettles,
         [SettlementNext]_vars
  PROVE  GuestDeadlines' /\ ScheduledTwiceNeverSettles'
<1> USE DEF InstrumentInv, BooksInv
<1>1. ASSUME proofs' = proofs, settled' = settled
      PROVE  GuestDeadlines' /\ ScheduledTwiceNeverSettles'
  BY <1>1 DEF GuestDeadlines, ScheduledTwiceNeverSettles, SettledEpochs, ContractDeadline
<1>2. ASSUME NEW i \in Instruments, NEW e \in Epochs, Prove(i, e)
      PROVE  GuestDeadlines' /\ ScheduledTwiceNeverSettles'
  <2>1. PICK book : proofs' = proofs \cup {Journal(i, Config[i], e, payments, book)}
    BY <1>2 DEF Prove
  <2>2. GuestDeadlines'
    BY <2>1 DEF GuestDeadlines, Journal
  <2>3. settled' = settled
    BY <1>2 DEF Prove, settlementVars
  <2> QED BY <2>2, <2>3 DEF ScheduledTwiceNeverSettles, SettledEpochs, ContractDeadline
<1>3. ASSUME NEW journal \in proofs, Settle(journal)
      PROVE  GuestDeadlines' /\ ScheduledTwiceNeverSettles'
  <2>1. /\ settled' = [settled EXCEPT ![journal.epoch] = TRUE]
        /\ proofs' = proofs
    BY <1>3 DEF Settle, Marked
  <2>2. /\ journal.deadline = GuestDeadline(Config[This].schedule, journal.epoch)
        /\ journal.deadline = ContractDeadline(journal.epoch)
    BY <1>3 DEF Settle, SameInstrument, DeadlineBound, GuestDeadlines
  <2>3. ASSUME NEW e \in Epochs, settled'[e]
        PROVE  GuestDeadline(Config[This].schedule, e) = ContractDeadline(e)
    BY <2>1, <2>2, <2>3 DEF StateOK, ScheduledTwiceNeverSettles, SettledEpochs
  <2> QED BY <2>1, <2>3
       DEF GuestDeadlines, ScheduledTwiceNeverSettles, SettledEpochs, ContractDeadline
<1>4. ASSUME [SettlementNext]_vars, \A journal \in proofs : ~Settle(journal),
             \A i \in Instruments, e \in Epochs : ~Prove(i, e)
      PROVE  proofs' = proofs /\ settled' = settled
  BY <1>4 DEF SettlementNext, vars, settlementVars, Tick, PayCoupon, Clawback,
              SellerDeposit, SellerWithdraw, Buy
<1> QED BY <1>1, <1>2, <1>3, <1>4

\* No schedule makes an epoch with two deadlines settle: the guest's deadline
\* and the contract's are the same one in every settlement.
THEOREM TwoDeadlinesNeverSettle == SettlementSpec => []ScheduledTwiceNeverSettles
<1>1. SettlementInit => GuestDeadlines /\ ScheduledTwiceNeverSettles
  BY DEF SettlementInit, GuestDeadlines, ScheduledTwiceNeverSettles, SettledEpochs
<1>2. /\ InstrumentInv /\ GuestDeadlines /\ ScheduledTwiceNeverSettles
      /\ [SettlementNext]_vars
      => (GuestDeadlines /\ ScheduledTwiceNeverSettles)'
  BY DeadlineStep
<1> QED BY InstrumentInvariant, <1>1, <1>2, PTL DEF SettlementSpec

-----------------------------------------------------------------------------
promiseVars == <<now, positions, totalCollateral, [b \in Buyers |-> wallet[b]],
                 SettledEpochs>>

\* The operators of the promise are those of the guest.
LEMMA SameOperators ==
  /\ \A book, short, owed :
       Promise!Allocations(book, short, owed) = Allocations(book, short, owed)
  /\ \A allocs : Promise!AllocationSum(allocs) = AllocationSum(allocs)
  /\ \A allocs, b : Promise!PaidTo(allocs, b) = PaidTo(allocs, b)
  /\ \A book : Promise!Opened(book) = Opened(book)
<1>1. \A f : Promise!Total(f) = Total(f)
  BY DEF Promise!Total, Total, Promise!Units, Units, Promise!Cardinality, Cardinality
<1>2. \A cover, short, owed :
        Promise!Payout(cover, short, owed) = Payout(cover, short, owed)
  BY DEF Promise!Payout, Payout, Promise!Lesser, Lesser
<1>3. ASSUME NEW book, NEW short, NEW owed
      PROVE  Promise!Allocations(book, short, owed) = Allocations(book, short, owed)
  BY <1>2 DEF Promise!Allocations, Allocations
<1>4. \A allocs : Promise!AllocationSum(allocs) = AllocationSum(allocs)
  BY <1>1 DEF Promise!AllocationSum, AllocationSum
<1>5. \A allocs, b : Promise!PaidTo(allocs, b) = PaidTo(allocs, b)
  BY <1>1 DEF Promise!PaidTo, PaidTo
<1>6. \A book : Promise!Opened(book) = Opened(book)
  BY DEF Promise!Opened, Opened
<1> QED BY <1>3, <1>4, <1>5, <1>6

LEMMA InitPromise == SettlementInit => Promise!ProtectionInit
<1> SUFFICES ASSUME SettlementInit PROVE Promise!ProtectionInit
  OBVIOUS
<1>1. SettledEpochs = {}
  BY DEF SettlementInit, SettledEpochs
<1>2. [b \in Buyers |-> wallet[b]] = [b \in Buyers |-> 0]
  BY DisjointAssumption DEF SettlementInit, VaultInit, Accounts
<1> QED BY <1>1, <1>2 DEF SettlementInit, VaultInit, Promise!ProtectionInit

\* What the keepers do and what happens to coupons is invisible in the promise.
LEMMA HiddenStep ==
  ASSUME UNCHANGED <<vaultVars, now, settlementVars>>
  PROVE  UNCHANGED promiseVars
BY DEF promiseVars, vaultVars, settlementVars, SettledEpochs

LEMMA SettleKeeps ==
  ASSUME InstrumentInv, NEW journal \in proofs, Settle(journal)
  PROVE  Promise!ProtectionNext
<1> DEFINE e == journal.epoch
           allocs == journal.allocs
           owed == SumOwed(Config[This])
<1>1. JournalOK(journal) /\ e \in Epochs
  BY DEF InstrumentInv, BooksInv, JournalOK
<1>2. /\ journal.instrument = This
      /\ ~settled[e]
      /\ Scheduled(Config[This].schedule, e)
      /\ now > ContractDeadline(e)
      /\ journal.positions = positions
      /\ settled' = [settled EXCEPT ![e] = TRUE]
      /\ PayAllocations(allocs)
      /\ UNCHANGED <<marketVars, proofs>>
  BY DEF Settle, SameInstrument, NotYetSettled, DeadlineBound, DeadlinePassed,
         BookCurrent, Marked
<1>3. /\ Opened(positions)
      /\ \E short \in 1..owed : allocs = Allocations(positions, short, owed)
  BY <1>1, <1>2 DEF JournalOK
<1>4. e \in DOMAIN EpochDeadlines /\ now > EpochDeadlines[e]
  BY <1>1, <1>2 DEF EpochDeadlines
<1>5. e \notin SettledEpochs /\ SettledEpochs' = SettledEpochs \cup {e}
  BY <1>1, <1>2 DEF SettledEpochs, InstrumentInv, BooksInv, StateOK
<1>6. /\ AllocationSum(allocs) <= totalCollateral
      /\ totalCollateral' = totalCollateral - AllocationSum(allocs)
      /\ wallet' = [a \in Accounts |-> wallet[a] + PaidTo(allocs, a)]
      /\ UNCHANGED <<positions, now>>
  BY <1>2 DEF PayAllocations, TransferAll, PoolAfter, marketVars
<1>7. [b \in Buyers |-> wallet[b]]' =
        [b \in Buyers |-> [a \in Buyers |-> wallet[a]][b] + PaidTo(allocs, b)]
  BY <1>6 DEF Accounts
<1> HIDE DEF e, allocs, owed
<1>8. Promise!PayEpoch(e)
  BY <1>3, <1>4, <1>5, <1>6, <1>7, SameOperators DEF Promise!PayEpoch, owed
<1> QED BY <1>4, <1>8 DEF Promise!ProtectionNext

LEMMA StepKeepsPromise ==
  ASSUME InstrumentInv, InstrumentInv', [SettlementNext]_vars
  PROVE  Promise!ProtectionNext \/ UNCHANGED promiseVars
<1>1. CASE Tick
  BY <1>1 DEF Tick, vaultVars, settlementVars, SettledEpochs,
              Promise!ProtectionNext, Promise!Advance
<1>2. CASE \E holder \in HolderIds, amount \in CouponAmounts : PayCoupon(holder, amount)
  BY <1>2, HiddenStep DEF PayCoupon
<1>3. CASE \E q \in DOMAIN payments : Clawback(q)
  BY <1>3, HiddenStep DEF Clawback
<1>4. CASE \E i \in Instruments, e \in Epochs : Prove(i, e)
  BY <1>4, HiddenStep DEF Prove, marketVars
<1>5. CASE \E journal \in proofs : Settle(journal)
  BY <1>5, SettleKeeps
<1>6. CASE \E s \in Sellers, amount \in Amounts : SellerDeposit(s, amount)
  <2>1. PICK s \in Sellers, amount \in Amounts : SellerDeposit(s, amount)
    BY <1>6
  <2>2. \A b \in Buyers : wallet'[b] = wallet[b]
    BY <2>1, BuyersUntouched
    DEF SellerDeposit, Deposit, TransferIn, InstrumentInv, BooksInv, VaultInv
  <2>3. Promise!Fund
    BY <2>1, <2>2
    DEF SellerDeposit, Deposit, Promise!Fund, marketVars, settlementVars,
        SettledEpochs, InstrumentInv, BooksInv, VaultInv, VaultTypeOK
  <2> QED BY <2>3 DEF Promise!ProtectionNext
<1>7. CASE \E s \in Sellers, amount \in Amounts : SellerWithdraw(s, amount)
  <2>1. PICK s \in Sellers, amount \in Amounts : SellerWithdraw(s, amount)
    BY <1>7
  <2>2. \A b \in Buyers : wallet'[b] = wallet[b]
    BY <2>1, BuyersUntouched
    DEF SellerWithdraw, Withdraw, TransferOut, InstrumentInv, BooksInv, VaultInv
  <2>3. Promise!Fund
    BY <2>1, <2>2
    DEF SellerWithdraw, Withdraw, Promise!Fund, marketVars, settlementVars,
        SettledEpochs, InstrumentInv, BooksInv, VaultInv, VaultTypeOK
  <2> QED BY <2>3 DEF Promise!ProtectionNext
<1>8. CASE \E commitment \in Commitments, cover \in Covers : Buy(commitment, cover)
  <2>1. Promise!Join
    BY <1>8 DEF Buy, BuyProtection, Promise!Join, marketVars, settlementVars,
                SettledEpochs
  <2> QED BY <2>1 DEF Promise!ProtectionNext
<1>9. CASE UNCHANGED vars
  BY <1>9, HiddenStep DEF vars, marketVars
<1> QED BY <1>1, <1>2, <1>3, <1>4, <1>5, <1>6, <1>7, <1>8, <1>9 DEF SettlementNext

\* Whatever is proved when, submitted in which order and however often, the
\* instrument does only what Protection.tla allows: each epoch pays at most
\* once, after its deadline, every position of the book at that moment, the
\* same fraction of its cover; nothing else pays a buyer.
THEOREM InstrumentKeepsPromise == SettlementSpec => KeepsPromise
<1>1. InstrumentInv /\ InstrumentInv' /\ [SettlementNext]_vars
        => [Promise!ProtectionNext]_Promise!protectionVars
  BY StepKeepsPromise DEF promiseVars, Promise!protectionVars
<1> QED
  BY InitPromise, InstrumentInvariant, <1>1, PTL
  DEF SettlementSpec, KeepsPromise, Promise!ProtectionSpec
=============================================================================
