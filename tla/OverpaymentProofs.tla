-------------------------- MODULE OverpaymentProofs --------------------------
(***************************************************************************)
(* What is paid against what the record entitles to.  Two promises, each   *)
(* under a named assumption on the people around the contracts: keepers    *)
(* that scan after the deadline never overpay, and buyers that commit to   *)
(* the cover they declare can all be paid at the first default.  Then the  *)
(* rules that need no such assumption: a signed history misses nothing     *)
(* that still counts, and after the deadline all the rain is known.        *)
(***************************************************************************)
EXTENDS Family, SettlementProofs

\* The larger the shortfall, the larger every payout.
LEMMA PayoutMonotone ==
  ASSUME NEW cover \in Nat, NEW owed \in Nat \ {0},
         NEW short \in Nat, NEW more \in Nat, short <= more
  PROVE  Payout(cover, short, owed) <= Payout(cover, more, owed)
<1>1. /\ cover * short \in Nat /\ cover * more \in Nat
      /\ cover * short <= cover * more
  BY ProductMonotone
<1>2. (cover * short) \div owed <= (cover * more) \div owed
  BY <1>1, QuotientMonotone
<1>3. (cover * short) \div owed \in Nat /\ (cover * more) \div owed \in Nat
  BY ScaledType
<1> QED BY <1>2, <1>3 DEF Payout, Lesser

\* A history with fewer qualifying deliveries has the larger shortfall.
LEMMA ShortfallGrows ==
  ASSUME NEW config, IsBond(config), NEW deadline,
         NEW before, IsHistory(before), NEW after, IsHistory(after),
         \A n \in Owing(config) :
           /\ Qualifying(config, n, deadline, after)
                \subseteq Qualifying(config, n, deadline, before)
           /\ \A q \in Qualifying(config, n, deadline, after) :
                after[q].amount = before[q].amount
  PROVE  SumShort(config, deadline, before) <= SumShort(config, deadline, after)
<1> DEFINE S == Owing(config)
           f == [n \in S |-> Short(config, n, deadline, before)]
           g == [n \in S |-> Short(config, n, deadline, after)]
<1>1. IsFiniteSet(S)
  BY FS_Subset DEF Owing, IsBond
<1>2. ASSUME NEW n \in S
      PROVE  /\ f[n] \in Nat /\ g[n] \in Nat
             /\ f[n] <= g[n]
  <2> DEFINE A == Qualifying(config, n, deadline, after)
             B == Qualifying(config, n, deadline, before)
             a == [q \in A |-> after[q].amount]
             b == [q \in B |-> before[q].amount]
  <2>1. IsFiniteSet(B) /\ B \subseteq DOMAIN before /\ A \subseteq DOMAIN after
    BY FS_Subset DEF Qualifying, IsHistory
  <2>2. A \in SUBSET B /\ a \in [A -> Nat] /\ b \in [B -> Nat] /\ \A q \in A : a[q] <= b[q]
    BY <2>1 DEF IsHistory
  <2>3. Total(a) \in Nat /\ Total(b) \in Nat /\ Total(a) <= Total(b)
    <3> HIDE DEF A, B, a, b
    <3>1. IsFiniteSet(A)
      BY <2>1, <2>2, FS_Subset
    <3> QED BY <2>1, <2>2, <3>1, TotalType, TotalMonotone
  <2>4. /\ Paid(config, n, deadline, after) \in Nat
        /\ Paid(config, n, deadline, before) \in Nat
        /\ Paid(config, n, deadline, after) <= Paid(config, n, deadline, before)
    BY <2>3 DEF Paid
  <2>5. Owed(config, n) \in Nat
    BY OwedType
  <2> QED BY <2>4, <2>5 DEF Short
<1>3. f \in [S -> Nat] /\ g \in [S -> Nat] /\ \A n \in S : f[n] <= g[n]
  BY <1>2
<1>4. Total(f) <= Total(g)
  <2> HIDE DEF S, f, g
  <2> QED BY <1>1, <1>3, TotalMonotone
<1> QED BY <1>4 DEF SumShort

-----------------------------------------------------------------------------
(* Keepers that scan after the deadline.                                   *)

\* A journal this settlement contract may accept.
Binding(journal) == journal.instrument = This /\ DeadlineBound(journal)

\* A later history shows at least the shortfall the journal was proved with.
Covered(journal) ==
  /\ IsBond(Config[This])
  /\ now > ContractDeadline(journal.epoch)
  /\ Opened(journal.positions)
  /\ \E short \in 1..ShortNow(journal.epoch) :
       journal.allocs = Allocations(journal.positions, short, SumOwed(Config[This]))

ReceiptsBind ==
  \A e \in SettledEpochs : receipts[e].epoch = e /\ Binding(receipts[e])

ScanInv ==
  /\ InstrumentInv
  /\ \A journal \in proofs : Binding(journal) => Covered(journal)
  /\ ReceiptsBind

\* The shortfall of a bond never exceeds what is owed, at any deadline.
LEMMA ShortNowType ==
  ASSUME StateOK, IsBond(Config[This]), NEW e
  PROVE  SumOwed(Config[This]) \in Nat /\ ShortNow(e) \in 0..SumOwed(Config[This])
BY ShortfallBound, HistoryType DEF StateOK, ShortNow

LEMMA ContractDeadlineType ==
  ASSUME NEW e, Scheduled(Config[This].schedule, e)
  PROVE  ContractDeadline(e) \in Nat
BY PlacesBounds, ConfigAssumption, ThisAssumption DEF IsConfig, ContractDeadline

\* A coupon that comes after the deadline does not qualify, and a clawback only
\* takes a payment out: past the deadline the shortfall never shrinks.
LEMMA ShortNowGrows ==
  ASSUME InstrumentInv, InstrumentInv', [SettlementNext]_vars,
         IsBond(Config[This]), NEW e, Scheduled(Config[This].schedule, e),
         now > ContractDeadline(e)
  PROVE  ShortNow(e) <= ShortNow(e)'
<1> DEFINE D == ContractDeadline(e)
           C == Config[This]
<1>1. payments \in Seq(Deliveries) /\ payments' \in Seq(Deliveries)
  BY DEF InstrumentInv, BooksInv, StateOK
<1>2. IsHistory(payments) /\ IsHistory(payments')
  BY <1>1, HistoryType
<1>3. ShortNow(e) = SumShort(C, D, payments) /\ ShortNow(e)' = SumShort(C, D, payments')
  BY DEF ShortNow
<1>4. /\ SumShort(C, D, payments) \in Int
      /\ SumShort(C, D, payments') \in Int
  <2> HIDE DEF C, D
  <2>1. IsBond(C)
    BY DEF C
  <2> QED BY <1>2, <2>1, ShortfallBound
<1>5. SUFFICES ASSUME NEW n \in Owing(C)
               PROVE  /\ Qualifying(C, n, D, payments') \subseteq Qualifying(C, n, D, payments)
                      /\ \A q \in Qualifying(C, n, D, payments') :
                           payments'[q].amount = payments[q].amount
  <2> HIDE DEF C, D
  <2>1. IsBond(C)
    BY DEF C
  <2> QED BY <1>2, <1>3, <2>1, ShortfallGrows
<1>9. now > D /\ now \in Nat /\ D \in Nat
  BY ContractDeadlineType DEF InstrumentInv, BooksInv, StateOK
<1>6. CASE payments' = payments
  BY <1>6
<1>7. CASE \E holder \in HolderIds, amount \in CouponAmounts : PayCoupon(holder, amount)
  <2>1. PICK holder \in HolderIds, amount \in CouponAmounts : PayCoupon(holder, amount)
    BY <1>7
  <2> DEFINE payment == [holder |-> holder, amount |-> amount, paidAt |-> now,
                         clawed |-> FALSE, clawedAt |-> 0]
  <2>2. payments' = Append(payments, payment)
    BY <2>1 DEF PayCoupon
  <2>3. payment \in Deliveries /\ payment.paidAt = now
    BY CouponAssumption DEF Deliveries, InstrumentInv, BooksInv, StateOK
  <2> HIDE DEF payment
  <2>4. /\ DOMAIN payments = 1..Len(payments)
        /\ DOMAIN payments' = 1..Len(payments) + 1
        /\ Len(payments) \in Nat
        /\ \A q \in 1..Len(payments) : payments'[q] = payments[q]
        /\ payments'[Len(payments) + 1] = payment
    BY <1>1, <2>2, <2>3, AppendProperties, LenProperties
  <2>5. ASSUME NEW q \in Qualifying(C, n, D, payments') PROVE q \in DOMAIN payments
    <3>1. q \in DOMAIN payments' /\ payments'[q].paidAt <= D
      BY DEF Qualifying, Qualifies
    <3>2. q # Len(payments) + 1
      BY <1>9, <2>3, <2>4, <3>1
    <3> QED BY <2>4, <3>1, <3>2
  <2> QED BY <2>4, <2>5 DEF Qualifying
<1>8. CASE \E q \in DOMAIN payments : Clawback(q)
  <2>1. PICK q \in DOMAIN payments : Clawback(q)
    BY <1>8
  <2>2. \A p \in DOMAIN payments : p # q => payments'[p] = payments[p]
    BY <2>1 DEF Clawback
  <2>3. DOMAIN payments' = DOMAIN payments /\ payments'[q].clawed
    <3>1. payments[q] \in Deliveries
      BY <1>1, ElementOfSeq, LenProperties
    <3> QED BY <2>1, <3>1 DEF Clawback, Deliveries
  <2>4. ASSUME NEW p \in Qualifying(C, n, D, payments') PROVE p \in DOMAIN payments /\ p # q
    BY <2>3 DEF Qualifying, Qualifies
  <2> QED BY <2>2, <2>4 DEF Qualifying
<1> QED BY <1>6, <1>7, <1>8
    DEF SettlementNext, Tick, Prove, Settle, SellerDeposit, SellerWithdraw, Buy,
        marketVars, vars

\* A journal that was covered stays covered.
LEMMA CoveredStays ==
  ASSUME InstrumentInv, InstrumentInv', [SettlementNext]_vars,
         NEW journal, Binding(journal), Covered(journal)
  PROVE  Covered(journal)'
<1> DEFINE e == journal.epoch
<1>1. IsBond(Config[This]) /\ Scheduled(Config[This].schedule, e)
  BY DEF Covered, Binding, DeadlineBound
<1>2. now > ContractDeadline(e) /\ ContractDeadline(e) \in Nat
  BY <1>1, ContractDeadlineType DEF Covered
<1>3. now' > ContractDeadline(e)
  <2>1. now \in Nat /\ (now' = now \/ now' = now + 1)
    BY DEF SettlementNext, Tick, PayCoupon, Clawback, Prove, Settle, SellerDeposit,
           SellerWithdraw, Buy, marketVars, vars, InstrumentInv, BooksInv, StateOK
  <2> QED BY <1>2, <2>1
<1>4. ShortNow(e) <= ShortNow(e)'
  BY <1>1, <1>2, ShortNowGrows
<1>5. ShortNow(e) \in Nat /\ ShortNow(e)' \in Nat
  <2> DEFINE D == ContractDeadline(e)
  <2>1. IsHistory(payments) /\ IsHistory(payments')
    BY HistoryType DEF InstrumentInv, BooksInv, StateOK
  <2>2. SumOwed(Config[This]) \in Nat
    BY <1>1, <2>1, ShortfallBound
  <2>3. /\ SumShort(Config[This], D, payments) \in 0..SumOwed(Config[This])
        /\ SumShort(Config[This], D, payments') \in 0..SumOwed(Config[This])
    BY <1>1, <2>1, ShortfallBound
  <2> QED BY <2>2, <2>3 DEF ShortNow
<1>6. PICK short \in 1..ShortNow(e) :
        journal.allocs = Allocations(journal.positions, short, SumOwed(Config[This]))
  BY DEF Covered
<1>7. short \in 1..ShortNow(e)'
  BY <1>4, <1>5, <1>6
<1> QED BY <1>1, <1>3, <1>6, <1>7 DEF Covered

\* A journal proved after the deadline is covered when it is proved.
LEMMA ProvedCovered ==
  ASSUME ~EarlyProving, InstrumentInv, NEW i \in Instruments, NEW e \in Epochs,
         Prove(i, e), NEW journal \in proofs', journal \notin proofs,
         Binding(journal)
  PROVE  Covered(journal)'
<1> DEFINE config == Config[i]
           D == GuestDeadline(config.schedule, e)
<1>1. PICK book \in BookOf(i) :
        /\ Provable(config, e, payments, book)
        /\ now > D
        /\ proofs' = proofs \cup {Journal(i, config, e, payments, book)}
  BY DEF Prove
<1>2. journal = Journal(i, config, e, payments, book)
  BY <1>1
<1>3. /\ journal.instrument = i /\ journal.epoch = e /\ journal.deadline = D
      /\ journal.positions = book
      /\ journal.allocs = Allocations(book, SumShort(config, D, payments), SumOwed(config))
  BY <1>2 DEF Journal
<1>4. i = This /\ Scheduled(config.schedule, e) /\ D = ContractDeadline(e)
  BY <1>3 DEF Binding, DeadlineBound
<1>5. SumShort(config, D, payments) = ShortNow(e)
  BY <1>4 DEF ShortNow
<1>6. ShortNow(e)' = ShortNow(e) /\ now' = now
  BY DEF ShortNow, Prove, marketVars
<1>7. IsBond(config)
  BY <1>1, ConfigAssumption DEF IsConfig, IsBond, Provable, InDomain
<1>8. ShortNow(e) \in Nat
  BY <1>4, <1>7, ShortNowType DEF InstrumentInv, BooksInv
<1>9. ShortNow(e) > 0 /\ Opened(book)
  BY <1>1, <1>5 DEF Provable, Missed
<1> HIDE DEF D, config
<1>10. IsBond(Config[This]) /\ now' > ContractDeadline(e) /\ Opened(journal.positions)
  BY <1>1, <1>3, <1>4, <1>6, <1>7, <1>9 DEF config
<1>11. \E short \in 1..ShortNow(e)' :
         journal.allocs = Allocations(journal.positions, short, SumOwed(Config[This]))
  <2>1. ShortNow(e) \in 1..ShortNow(e)'
    BY <1>6, <1>8, <1>9
  <2> QED BY <1>3, <1>4, <1>5, <2>1 DEF config
<1> QED BY <1>3, <1>10, <1>11 DEF Covered

LEMMA ScanNextInv ==
  ASSUME ~EarlyProving, ScanInv, [SettlementNext]_vars
  PROVE  ScanInv'
<1>1. InstrumentInv'
  BY NextInv DEF ScanInv
<1>2. ASSUME NEW journal \in proofs', Binding(journal)' PROVE Covered(journal)'
  <2>1. Binding(journal)
    BY <1>2 DEF Binding, DeadlineBound, ContractDeadline
  <2>2. CASE journal \in proofs
    BY <1>1, <2>1, <2>2, CoveredStays DEF ScanInv
  <2>3. CASE journal \notin proofs
    <3>1. PICK i \in Instruments, e \in Epochs : Prove(i, e)
      BY <2>3 DEF SettlementNext, Tick, PayCoupon, Clawback, Settle,
                  SellerDeposit, SellerWithdraw, Buy, vars
    <3> QED BY <2>1, <2>3, <3>1, ProvedCovered DEF ScanInv
  <2> QED BY <2>2, <2>3
<1>3. ReceiptsBind'
  <2>1. CASE UNCHANGED settlementVars
    BY <2>1 DEF ScanInv, ReceiptsBind, SettledEpochs, settlementVars, Binding,
                DeadlineBound, ContractDeadline
  <2>2. CASE \E journal \in proofs : Settle(journal)
    <3>1. PICK journal \in proofs : Settle(journal)
      BY <2>2
    <3>2. journal.epoch \in Epochs /\ Binding(journal)
      BY <3>1 DEF ScanInv, InstrumentInv, BooksInv, JournalOK, Settle, SameInstrument, Binding
    <3>3. /\ SettledEpochs' = SettledEpochs \cup {journal.epoch}
          /\ receipts' = [receipts EXCEPT ![journal.epoch] = journal]
          /\ receipts \in [Epochs -> {None} \cup proofs]
      BY <3>1, <3>2 DEF Settle, Marked, SettledEpochs, ScanInv, InstrumentInv, BooksInv, StateOK
    <3>4. \A e \in SettledEpochs' : receipts'[e].epoch = e /\ Binding(receipts'[e])
      BY <3>2, <3>3 DEF ScanInv, ReceiptsBind, SettledEpochs
    <3> QED BY <3>4 DEF ReceiptsBind, Binding, DeadlineBound, ContractDeadline
  <2> QED BY <2>1, <2>2 DEF SettlementNext, Tick, PayCoupon, Clawback, Prove,
             SellerDeposit, SellerWithdraw, Buy, vars
<1> QED BY <1>1, <1>2, <1>3 DEF ScanInv

\* Being covered is what the property asks of a receipt.
LEMMA CoveredNotOverpaid == ScanInv => NoOverpayment
<1> SUFFICES ASSUME ScanInv, NEW e \in SettledEpochs
             PROVE  /\ ShortNow(e) > 0
                    /\ \A i \in DOMAIN receipts[e].allocs :
                         receipts[e].allocs[i].amount <=
                           Payout(receipts[e].positions[i].cover, ShortNow(e),
                                  SumOwed(Config[This]))
  BY DEF NoOverpayment
<1> DEFINE journal == receipts[e]
           owed == SumOwed(Config[This])
<1>1. journal \in proofs /\ journal.epoch = e /\ Covered(journal)
  BY DEF ScanInv, InstrumentInv, BooksInv, ReceiptsKept, ReceiptsBind
<1>2. PICK short \in 1..ShortNow(e) :
        journal.allocs = Allocations(journal.positions, short, owed)
  BY <1>1 DEF Covered
<1>3. owed \in Nat /\ ShortNow(e) \in 0..owed
  BY <1>1, ShortNowType DEF ScanInv, InstrumentInv, BooksInv, Covered
<1>4. ShortNow(e) > 0 /\ short \in Nat /\ ShortNow(e) \in Nat /\ owed \in Nat \ {0}
      /\ short <= ShortNow(e)
  BY <1>2, <1>3
<1>5. ASSUME NEW i \in DOMAIN journal.allocs
      PROVE  journal.allocs[i].amount <= Payout(journal.positions[i].cover, ShortNow(e), owed)
  <2>1. /\ i \in DOMAIN journal.positions
        /\ journal.allocs[i].amount = Payout(journal.positions[i].cover, short, owed)
    BY <1>2 DEF Allocations
  <2>2. journal.positions[i].cover \in Nat
    BY <1>1, <2>1, OpeningsAssumption DEF Covered, Opened
  <2> HIDE DEF journal, owed
  <2> QED BY <1>4, <2>1, <2>2, PayoutMonotone
<1> QED BY <1>4, <1>5

\* When keepers scan after the deadline, no epoch is settled that later
\* history shows as paid in full, and no position gets more than that history
\* entitles it to, however stale the proof was when it was submitted.
THEOREM NeverOverpays == ~EarlyProving => (SettlementSpec => []NoOverpayment)
<1> SUFFICES ASSUME ~EarlyProving PROVE SettlementSpec => []NoOverpayment
  OBVIOUS
<1>1. SettlementInit => ScanInv
  <2>1. ASSUME SettlementInit PROVE proofs = {} /\ SettledEpochs = {}
    BY <2>1 DEF SettlementInit, SettledEpochs
  <2> QED BY <2>1, InitInv DEF ScanInv, ReceiptsBind
<1>2. ScanInv /\ [SettlementNext]_vars => ScanInv'
  BY ScanNextInv
<1> QED BY <1>1, <1>2, CoveredNotOverpaid, PTL DEF SettlementSpec

-----------------------------------------------------------------------------
(* Buyers that commit to the cover they declare.                           *)

\* The aggregate cover is the cover of the book.
BookInv == InstrumentInv /\ Opened(positions) /\ totalCover = BookCover(positions)

\* An opened list of commitments is a book with natural covers.
LEMMA OpenedBook ==
  ASSUME NEW book \in Seq(Commitments), Opened(book)
  PROVE  IsBook(book)
<1>1. DOMAIN book = 1..Len(book) /\ Len(book) \in Nat
  BY LenProperties
<1>2. IsFiniteSet(DOMAIN book)
  BY <1>1, FS_Interval
<1>3. \A i \in DOMAIN book : book[i].cover \in Nat
  BY OpeningsAssumption DEF Opened
<1> QED BY <1>2, <1>3 DEF IsBook

\* The sum of a list grows by the element appended to it.
LEMMA TotalAppend ==
  \A n \in Nat : \A f \in [1..n -> Nat], g \in [1..(n + 1) -> Nat] :
    (\A i \in 1..n : g[i] = f[i]) => Total(g) = Total(f) + g[n + 1]
<1>1. ASSUME NEW S, IsFiniteSet(S), NEW x, x \notin S
      PROVE  \A f \in [S -> Nat], g \in [S \cup {x} -> Nat] :
               (\A y \in S : g[y] = f[y]) => Total(g) = Total(f) + g[x]
  BY <1>1, TotalExtend
<1>2. ASSUME NEW n \in Nat
      PROVE  IsFiniteSet(1..n) /\ n + 1 \notin 1..n /\ 1..(n + 1) = (1..n) \cup {n + 1}
  BY FS_Interval
<1>3. ASSUME NEW n \in Nat
      PROVE  \A f \in [1..n -> Nat], g \in [1..(n + 1) -> Nat] :
               (\A i \in 1..n : g[i] = f[i]) => Total(g) = Total(f) + g[n + 1]
  <2> DEFINE S == 1..n
             x == n + 1
  <2>1. IsFiniteSet(S) /\ x \notin S /\ 1..(n + 1) = S \cup {x}
    BY <1>2
  <2> HIDE DEF S, x
  <2>2. \A f \in [S -> Nat], g \in [S \cup {x} -> Nat] :
          (\A y \in S : g[y] = f[y]) => Total(g) = Total(f) + g[x]
    BY <1>1, <2>1
  <2> QED BY <2>1, <2>2 DEF S, x
<1> QED BY <1>3

\* A position appended to a book adds its cover.
LEMMA BookCoverAppend ==
  ASSUME NEW book \in Seq(Commitments), Opened(book),
         NEW c \in Openings, c.cover > 0
  PROVE  /\ Opened(Append(book, c))
         /\ BookCover(Append(book, c)) = BookCover(book) + c.cover
<1> DEFINE n == Len(book)
           longer == Append(book, c)
           f == [i \in 1..n |-> book[i].cover]
           g == [i \in 1..(n + 1) |-> longer[i].cover]
<1>1. n \in Nat /\ DOMAIN book = 1..n
  BY LenProperties
<1>2. c \in Commitments /\ c.cover \in Nat
  BY OpeningsAssumption
<1>3. /\ longer \in Seq(Commitments)
      /\ Len(longer) = n + 1
      /\ \A i \in 1..n : longer[i] = book[i]
      /\ longer[n + 1] = c
  BY <1>2, AppendProperties
<1>4. DOMAIN longer = 1..(n + 1) /\ 1..(n + 1) = (1..n) \cup {n + 1}
  BY <1>1, <1>3, LenProperties
<1>5. Opened(longer)
  BY <1>1, <1>3, <1>4 DEF Opened
<1>6. f \in [1..n -> Nat]
  BY <1>1, OpenedBook DEF IsBook
<1>7. /\ g \in [1..(n + 1) -> Nat]
      /\ g[n + 1] = c.cover
      /\ \A i \in 1..n : g[i] = f[i]
  BY <1>1, <1>2, <1>3, <1>4, <1>6
<1>8. BookCover(book) = Total(f) /\ BookCover(longer) = Total(g)
  BY <1>1, <1>4 DEF BookCover
<1>9. Total(g) = Total(f) + g[n + 1]
  <2> HIDE DEF f, g, n
  <2> QED BY <1>1, <1>6, <1>7, TotalAppend
<1> QED BY <1>5, <1>7, <1>8, <1>9

LEMMA BookNextInv ==
  ASSUME Faithful, BookInv, [SettlementNext]_vars
  PROVE  BookInv'
<1>1. InstrumentInv'
  BY NextInv DEF BookInv
<1>2. CASE UNCHANGED <<positions, totalCover>>
  BY <1>1, <1>2 DEF BookInv, Opened
<1>3. CASE \E commitment \in Commitments, cover \in Covers : Buy(commitment, cover)
  <2>1. PICK commitment \in Commitments, cover \in Covers : Buy(commitment, cover)
    BY <1>3
  <2>2. /\ commitment \in Openings /\ commitment.cover = cover /\ cover > 0
        /\ positions' = Append(positions, commitment)
        /\ totalCover' = totalCover + cover
    BY <2>1 DEF Buy, Declared, BuyProtection
  <2>3. positions \in Seq(Commitments)
    BY DEF BookInv, InstrumentInv, BooksInv, VaultInv, VaultTypeOK
  <2>4. Opened(positions') /\ BookCover(positions') = BookCover(positions) + cover
    BY <2>2, <2>3, BookCoverAppend DEF BookInv
  <2> QED BY <1>1, <2>2, <2>4 DEF BookInv, Opened
<1> QED BY <1>2, <1>3 DEF SettlementNext, Tick, PayCoupon, Clawback, Prove, Settle,
           PayAllocations, SellerDeposit, Deposit, SellerWithdraw, Withdraw, vars, vaultVars

\* The payouts of any proof over the current book are within its cover.
LEMMA BookFunded == BookInv => FirstDefaultFunded
<1> SUFFICES ASSUME BookInv, paidOut = 0, NEW journal \in proofs,
                    journal.instrument = This, journal.positions = positions
             PROVE  AllocationSum(journal.allocs) <= totalCollateral
  BY DEF FirstDefaultFunded, BookCurrent
<1> DEFINE owed == SumOwed(Config[This])
<1>1. PICK short \in 1..owed : journal.allocs = Allocations(positions, short, owed)
  BY DEF BookInv, InstrumentInv, BooksInv, JournalOK
<1>2. owed \in Nat \ {0} /\ short \in Nat
  <2>1. owed \in Nat
    BY DEF BookInv, InstrumentInv, BooksInv, JournalOK
  <2> QED BY <1>1, <2>1
<1>3. IsBook(positions)
  BY OpenedBook DEF BookInv, InstrumentInv, BooksInv, VaultInv, VaultTypeOK
<1>4. AllocationSum(journal.allocs) \in 0..BookCover(positions)
  <2> HIDE DEF owed
  <2> QED BY <1>1, <1>2, <1>3, AllocationsBound
<1>5. /\ BookCover(positions) = totalCover
      /\ totalCover \in Nat /\ totalCollateral \in Int
      /\ totalCover <= totalCollateral + paidOut
  BY DEF BookInv, InstrumentInv, BooksInv, VaultInv, VaultTypeOK, CoverBacked
<1> QED BY <1>4, <1>5

\* When buyers commit to the cover they declare, the reserve can pay any proof
\* over the current book as long as nothing was paid: the first default of an
\* instrument always settles in full, whatever its schedule and bond.
THEOREM FirstDefaultAlwaysFunded == Faithful => (SettlementSpec => []FirstDefaultFunded)
<1> SUFFICES ASSUME Faithful PROVE SettlementSpec => []FirstDefaultFunded
  OBVIOUS
<1>1. SettlementInit => BookInv
  <2> SUFFICES ASSUME SettlementInit PROVE BookInv
    OBVIOUS
  <2>1. positions = <<>> /\ totalCover = 0
    BY DEF SettlementInit, VaultInit
  <2>2. Opened(positions)
    BY <2>1 DEF Opened
  <2> DEFINE f == [i \in DOMAIN positions |-> positions[i].cover]
  <2>3. f \in [{} -> Nat]
    BY <2>1
  <2>4. Total(f) = 0
    <3> HIDE DEF f
    <3> QED BY <2>3, FS_EmptySet, TotalZero
  <2> QED BY <2>1, <2>2, <2>4, InitInv DEF BookInv, BookCover
<1>2. BookInv /\ [SettlementNext]_vars => BookInv'
  BY BookNextInv
<1> QED BY <1>1, <1>2, BookFunded, PTL DEF SettlementSpec
-----------------------------------------------------------------------------
(* The attested rules and the weather rule: the same two contracts under    *)
(* another guest.                                                           *)

Readings == [station : Stations, mm : Nat, at : Nat]

FamilyTyped ==
  /\ now \in Nat
  /\ payments \in Seq(Deliveries)
  /\ readings \in Seq(Readings)
  /\ settled \in [Epochs -> BOOLEAN]
  /\ DOMAIN receipts = Epochs

\* A signed history misses no payment of an earlier time that still counts.
Records(m) ==
  /\ m.payments \in Seq(Deliveries)
  /\ m.snapshot = RecordDate[m.epoch]
  /\ m.at \in Nat /\ m.at <= now
  /\ m.at > ContractDeadline(m.epoch)
  /\ \A q \in DOMAIN payments :
       payments[q].paidAt < m.at /\ ~payments[q].clawed =>
         q \in DOMAIN m.payments /\ m.payments[q] = payments[q]

\* What an artifact of an attested rule carries: the payouts by the shortfall
\* of a signed history, under credit_v3 of one signed for its epoch.
SignedProof(journal) ==
  LET config == OwedBy(journal.epoch)
  IN  /\ IsBond(config)
      /\ Opened(journal.positions)
      /\ \E m \in signed :
           /\ rule = "credit_v3" => m.epoch = journal.epoch
           /\ SumShort(config, journal.deadline, m.payments) > 0
           /\ journal.allocs =
                Allocations(journal.positions,
                            SumShort(config, journal.deadline, m.payments),
                            SumOwed(config))

\* What a bound artifact of the weather rule carries: the payouts by all the
\* rain there will ever be of its epoch.
WeatherProof(journal) ==
  LET rain == RainBy(journal.epoch)
  IN  /\ now > ContractDeadline(journal.epoch)
      /\ Opened(journal.positions)
      /\ Terms.trigger > Terms.exhaust
      /\ rain < Terms.trigger
      /\ journal.allocs =
           Allocations(journal.positions, Severity(Terms, rain), Span(Terms))

ProofOK(journal) ==
  /\ journal.epoch \in Epochs
  /\ rule # "weather_v1" => SignedProof(journal)
  /\ rule = "weather_v1" /\ Binding(journal) => WeatherProof(journal)

FamilyInv ==
  /\ FamilyTyped
  /\ \A m \in signed : Records(m)
  /\ \A journal \in proofs : ProofOK(journal)
  /\ ReceiptsKept /\ ReceiptsBind

\* What the steps of the family do to the state the invariant is about.
LEMMA FamilyFrame ==
  ASSUME [FamilyNext]_familyVars
  PROVE  /\ rule' = rule
         /\ now' = now \/ now' = now + 1
         /\ \/ payments' = payments
            \/ \E holder \in HolderIds, amount \in CouponAmounts : PayCoupon(holder, amount)
            \/ \E q \in DOMAIN payments : Clawback(q)
         /\ \/ readings' = readings
            \/ \E station \in Stations, mm \in Falls : Observe(station, mm)
         /\ signed' = signed \/ \E e \in Epochs : Attest(e)
         /\ \/ proofs' = proofs
            \/ \E e \in Epochs : ProveV2(e) \/ ProveV3(e) \/ ProveWeather(e)
         /\ UNCHANGED settlementVars \/ \E journal \in proofs : Settle(journal)
<1>1. CASE GenericStep
  BY <1>1 DEF GenericStep, Tick, Settle, SellerDeposit, SellerWithdraw, Buy, marketVars,
              settlementVars, sourceVars
<1>2. CASE CouponStep
  BY <1>2 DEF CouponStep, PayCoupon, Clawback, settlementVars, sourceVars
<1>3. CASE \E e \in Epochs : Attest(e)
  BY <1>3 DEF Attest, vars, marketVars, settlementVars
<1>4. CASE \E station \in Stations, mm \in Falls : Observe(station, mm)
  BY <1>4 DEF Observe, vars, marketVars, settlementVars
<1>5. CASE \E e \in Epochs : ProveV2(e)
  BY <1>5 DEF ProveV2, marketVars, settlementVars, sourceVars
<1>6. CASE \E e \in Epochs : ProveV3(e)
  BY <1>6 DEF ProveV3, marketVars, settlementVars, sourceVars
<1>7. CASE \E e \in Epochs : ProveWeather(e)
  BY <1>7 DEF ProveWeather, marketVars, settlementVars, sourceVars
<1>8. CASE UNCHANGED familyVars
  BY <1>8 DEF familyVars, vars, marketVars, settlementVars, sourceVars
<1> QED BY <1>1, <1>2, <1>3, <1>4, <1>5, <1>6, <1>7, <1>8 DEF FamilyNext

\* The history after a coupon or a clawback: the payments that still count and
\* are not of this moment are those that counted before.
LEMMA HistoryStep ==
  ASSUME FamilyTyped, [FamilyNext]_familyVars
  PROVE  /\ payments' \in Seq(Deliveries)
         /\ \A q \in DOMAIN payments' :
              payments'[q].paidAt < now /\ ~payments'[q].clawed =>
                q \in DOMAIN payments /\ payments'[q] = payments[q]
<1>1. payments \in Seq(Deliveries) /\ now \in Nat
  BY DEF FamilyTyped
<1>2. CASE payments' = payments
  BY <1>1, <1>2
<1>3. CASE \E holder \in HolderIds, amount \in CouponAmounts : PayCoupon(holder, amount)
  <2>1. PICK holder \in HolderIds, amount \in CouponAmounts : PayCoupon(holder, amount)
    BY <1>3
  <2> DEFINE payment == [holder |-> holder, amount |-> amount, paidAt |-> now,
                         clawed |-> FALSE, clawedAt |-> 0]
  <2>2. payments' = Append(payments, payment)
    BY <2>1 DEF PayCoupon
  <2>3. payment \in Deliveries /\ payment.paidAt = now
    BY <1>1, CouponAssumption DEF Deliveries
  <2> HIDE DEF payment
  <2>4. /\ payments' \in Seq(Deliveries)
        /\ DOMAIN payments = 1..Len(payments)
        /\ DOMAIN payments' = 1..Len(payments) + 1
        /\ Len(payments) \in Nat
        /\ \A q \in 1..Len(payments) : payments'[q] = payments[q]
        /\ payments'[Len(payments) + 1] = payment
    BY <1>1, <2>2, <2>3, AppendProperties, LenProperties
  <2> QED BY <1>1, <2>3, <2>4
<1>4. CASE \E q \in DOMAIN payments : Clawback(q)
  <2>1. PICK q \in DOMAIN payments : Clawback(q)
    BY <1>4
  <2> DEFINE payment == [payments[q] EXCEPT !.clawed = TRUE, !.clawedAt = now]
  <2>2. payments' = [payments EXCEPT ![q] = payment]
    BY <2>1 DEF Clawback
  <2>3. payments[q] \in Deliveries
    BY <1>1, ElementOfSeq, LenProperties
  <2>4. payment \in Deliveries /\ payment.clawed
    BY <1>1, <2>3 DEF Deliveries
  <2> HIDE DEF payment
  <2>5. payments' \in Seq(Deliveries)
    BY <1>1, <2>2, <2>4, ExceptSeq, LenProperties
  <2> QED BY <2>2, <2>4, <2>5
<1> QED BY <1>2, <1>3, <1>4, FamilyFrame

\* What was signed once stays a record of the time of its signing.
LEMMA RecordsStay ==
  ASSUME FamilyInv, [FamilyNext]_familyVars, NEW m \in signed
  PROVE  Records(m)'
<1>1. /\ Records(m) /\ now \in Nat
      /\ now' = now \/ now' = now + 1
      /\ ContractDeadline(m.epoch)' = ContractDeadline(m.epoch)
  BY FamilyFrame DEF FamilyInv, FamilyTyped, ContractDeadline
<1>2. m.at \in Nat /\ m.at <= now'
  BY <1>1 DEF Records
<1>3. payments' \in Seq(Deliveries)
      /\ \A q \in DOMAIN payments' :
           payments'[q].paidAt < now /\ ~payments'[q].clawed =>
             q \in DOMAIN payments /\ payments'[q] = payments[q]
  BY HistoryStep DEF FamilyInv
<1>4. ASSUME NEW q \in DOMAIN payments', payments'[q].paidAt < m.at, ~payments'[q].clawed
      PROVE  q \in DOMAIN m.payments /\ m.payments[q] = payments'[q]
  <2>1. payments'[q] \in Deliveries
    BY <1>3, ElementOfSeq, LenProperties
  <2>2. payments'[q].paidAt < now
    BY <1>1, <1>4, <2>1 DEF Records, Deliveries
  <2> QED BY <1>1, <1>3, <1>4, <2>2 DEF Records
<1> QED BY <1>1, <1>2, <1>4 DEF Records

LEMMA NewRecord ==
  ASSUME FamilyInv, NEW e \in Epochs, Attest(e), NEW m \in signed', m \notin signed
  PROVE  Records(m)'
<1>1. /\ m = [epoch |-> e, snapshot |-> RecordDate[e], payments |-> payments, at |-> now]
      /\ now > ContractDeadline(e)
      /\ now' = now /\ payments' = payments
  BY DEF Attest, vars, marketVars
<1>2. /\ m.epoch = e /\ m.snapshot = RecordDate[e] /\ m.payments = payments /\ m.at = now
      /\ ContractDeadline(e)' = ContractDeadline(e)
  BY <1>1 DEF ContractDeadline
<1> QED BY <1>1, <1>2 DEF Records, FamilyInv, FamilyTyped

\* A run of the guest on a signed history.
LEMMA SignedRun ==
  ASSUME NEW e \in Epochs, NEW config, config = OwedBy(e), IsConfig(config),
         NEW m \in signed, rule = "credit_v3" => m.epoch = e,
         NEW book, Provable(config, e, m.payments, book),
         NEW journal, journal = Journal(This, config, e, m.payments, book)
  PROVE  journal.epoch = e /\ SignedProof(journal)
<1> DEFINE D == GuestDeadline(config.schedule, e)
<1>1. /\ journal.epoch = e /\ journal.deadline = D /\ journal.positions = book
      /\ journal.allocs = Allocations(book, SumShort(config, D, m.payments), SumOwed(config))
  BY DEF Journal
<1>2. IsBond(config)
  BY DEF IsConfig, IsBond, Provable, InDomain
<1>3. Opened(book) /\ SumShort(config, D, m.payments) > 0
  BY DEF Provable, Missed
<1> QED BY <1>1, <1>2, <1>3 DEF SignedProof

LEMMA AttestedProof ==
  ASSUME FamilyInv, NEW e \in Epochs, ProveV2(e) \/ ProveV3(e),
         NEW journal \in proofs', journal \notin proofs
  PROVE  journal.epoch = e /\ SignedProof(journal) /\ rule # "weather_v1"
<1>1. CASE ProveV2(e)
  <2>1. PICK message \in signed :
          /\ ProvableV2(signed, Config[This], e, message.payments, positions)
          /\ proofs' = proofs \cup
               {Journal(This, Config[This], e, message.payments, positions)}
    BY <1>1 DEF ProveV2
  <2>2. rule = "credit_v2" /\ Config[This] = OwedBy(e)
    BY <1>1 DEF ProveV2, OwedBy
  <2>3. Provable(Config[This], e, message.payments, positions)
    BY <2>1 DEF ProvableV2
  <2>4. journal = Journal(This, Config[This], e, message.payments, positions)
    BY <2>1
  <2>5. IsConfig(Config[This])
    BY ConfigAssumption, ThisAssumption
  <2> QED BY <2>2, <2>3, <2>4, <2>5, SignedRun
<1>2. CASE ProveV3(e)
  <2>1. PICK message \in signed :
          /\ ProvableV3(signed, Config[This], e, message, positions)
          /\ proofs' = proofs \cup
               {Journal(This, OnRecordDate(Config[This], message), e,
                        message.payments, positions)}
    BY <1>2 DEF ProveV3
  <2>2. message.epoch = e /\ message.snapshot = RecordDate[e]
    BY <2>1 DEF ProvableV3, ForEpoch, FamilyInv, Records
  <2> DEFINE config == OnRecordDate(Config[This], message)
  <2>3. rule = "credit_v3" /\ config = OwedBy(e)
    BY <1>2, <2>2 DEF ProveV3, OwedBy, OnRecordDate
  <2>4. IsConfig(config)
    BY <2>2, RecordAssumption DEF OnRecordDate
  <2>5. Provable(config, e, message.payments, positions)
    BY <2>1 DEF ProvableV3
  <2>6. journal = Journal(This, config, e, message.payments, positions)
    BY <2>1
  <2> HIDE DEF config
  <2> QED BY <2>2, <2>3, <2>4, <2>5, <2>6, SignedRun
<1> QED BY <1>1, <1>2

LEMMA SignedStays ==
  ASSUME FamilyInv, [FamilyNext]_familyVars, NEW journal, SignedProof(journal)
  PROVE  SignedProof(journal)'
<1>1. rule' = rule /\ signed \subseteq signed'
  BY FamilyFrame DEF Attest
<1>2. OwedBy(journal.epoch)' = OwedBy(journal.epoch)
  BY <1>1 DEF OwedBy
<1> QED BY <1>1, <1>2 DEF SignedProof

\* The rain of the whole record is the guest's.
LEMMA RainSame ==
  ASSUME FamilyTyped, NEW e
  PROVE  RainBy(e) \in Nat /\ Rain(Terms, ContractDeadline(e), readings) = RainBy(e)
<1> DEFINE D == ContractDeadline(e)
           A == {n \in DOMAIN readings :
                   /\ readings[n].station = Terms.station
                   /\ Terms.from <= readings[n].at /\ readings[n].at <= Terms.to
                   /\ readings[n].at <= D}
           B == {n \in DOMAIN readings : Counts(Terms, readings[n], D)}
           fall == [q \in A |-> readings[q].mm]
<1>1. /\ DOMAIN readings = 1..Len(readings) /\ Len(readings) \in Nat
      /\ \A n \in DOMAIN readings : readings[n] \in Readings
  <2>1. readings \in Seq(Readings)
    BY DEF FamilyTyped
  <2> QED BY <2>1, LenProperties, ElementOfSeq
<1>2. \A n \in DOMAIN readings : readings[n].at \in Nat /\ readings[n].mm \in Nat
  BY <1>1 DEF Readings
<1>3. A = B
  <2>1. Terms.from \in Nat /\ Terms.to \in Nat
    BY TermsAssumption
  <2>2. ASSUME NEW n \in DOMAIN readings
        PROVE  readings[n].at \in Terms.from..Terms.to
                 <=> Terms.from <= readings[n].at /\ readings[n].at <= Terms.to
    BY <1>2, <2>1
  <2> HIDE DEF D
  <2> QED BY <2>2 DEF Counts
<1>4. IsFiniteSet(A) /\ fall \in [A -> Nat]
  <2>1. IsFiniteSet(DOMAIN readings)
    BY <1>1, FS_Interval
  <2> QED BY <1>2, <2>1, FS_Subset
<1>5. Total(fall) \in Nat
  <2> HIDE DEF A, fall
  <2> QED BY <1>4, TotalType
<1> QED BY <1>3, <1>5 DEF RainBy, Rain

\* Past the deadline no reading counts that has not come yet.
LEMMA RainStays ==
  ASSUME FamilyTyped, [FamilyNext]_familyVars, NEW e,
         ContractDeadline(e) \in Nat, now > ContractDeadline(e)
  PROVE  RainBy(e)' = RainBy(e)
<1> DEFINE D == ContractDeadline(e)
           InTime(n) == /\ readings[n].station = Terms.station
                        /\ Terms.from <= readings[n].at /\ readings[n].at <= Terms.to
                        /\ readings[n].at <= D
           A == {n \in DOMAIN readings : InTime(n)}
<1>1. D' = D /\ D \in Nat /\ now \in Nat /\ now > D
  BY DEF ContractDeadline, FamilyTyped
<1>2. CASE readings' = readings
  BY <1>1, <1>2 DEF RainBy
<1>3. CASE \E station \in Stations, mm \in Falls : Observe(station, mm)
  <2>1. PICK station \in Stations, mm \in Falls : Observe(station, mm)
    BY <1>3
  <2> DEFINE reading == [station |-> station, mm |-> mm, at |-> now]
  <2>2. reading \in Readings /\ reading.at = now /\ readings \in Seq(Readings)
        /\ readings' = Append(readings, reading)
    BY <1>1, <2>1, TermsAssumption DEF Observe, Readings, FamilyTyped
  <2> HIDE DEF reading
  <2>3. /\ DOMAIN readings = 1..Len(readings)
        /\ DOMAIN readings' = 1..Len(readings) + 1
        /\ Len(readings) \in Nat
        /\ \A q \in 1..Len(readings) : readings'[q] = readings[q]
        /\ readings'[Len(readings) + 1] = reading
    BY <2>2, AppendProperties, LenProperties
  <2> HIDE DEF D
  <2>4. A' = A
    <3>1. ASSUME NEW n \in DOMAIN readings PROVE n \in DOMAIN readings' /\ (InTime(n)' <=> InTime(n))
      BY <1>1, <2>3
    <3>2. ASSUME NEW n \in DOMAIN readings', InTime(n)' PROVE n \in DOMAIN readings
      BY <1>1, <2>2, <2>3, <3>2
    <3> HIDE DEF InTime
    <3> QED BY <3>1, <3>2
  <2>5. \A n \in A : readings'[n] = readings[n]
    BY <2>3
  <2>6. Total([q \in A' |-> readings'[q].mm]) = Total([q \in A |-> readings[q].mm])
    BY <2>4, <2>5
  <2> QED BY <2>6 DEF RainBy, D
<1> QED BY <1>2, <1>3, FamilyFrame

LEMMA WeatherRun ==
  ASSUME FamilyInv, NEW e \in Epochs, ProveWeather(e),
         NEW journal \in proofs', journal \notin proofs
  PROVE  /\ journal.epoch = e /\ rule = "weather_v1"
         /\ Binding(journal) => WeatherProof(journal)
<1> DEFINE D == GuestDeadline(Config[This].schedule, e)
           rain == Rain(Terms, D, readings)
<1>1. /\ rule = "weather_v1" /\ now > D
      /\ ProvableWeather(Config[This], Terms, e, readings, positions)
      /\ journal = WeatherJournal(This, Config[This], Terms, e, readings, positions)
  BY DEF ProveWeather
<1>2. /\ journal.epoch = e /\ journal.deadline = D /\ journal.positions = positions
      /\ journal.allocs = Allocations(positions, Severity(Terms, rain), Span(Terms))
  BY <1>1 DEF WeatherJournal
<1>3. Opened(positions) /\ Terms.trigger > Terms.exhaust /\ rain < Terms.trigger
  BY <1>1 DEF ProvableWeather
<1> HIDE DEF rain
<1>4. ASSUME Binding(journal) PROVE WeatherProof(journal)
  <2>1. D = ContractDeadline(e)
    BY <1>2, <1>4 DEF Binding, DeadlineBound
  <2>2. rain = RainBy(e)
    BY <2>1, RainSame DEF FamilyInv, rain
  <2> HIDE DEF D
  <2> QED BY <1>1, <1>2, <1>3, <2>1, <2>2 DEF WeatherProof
<1> QED BY <1>1, <1>2, <1>4

LEMMA WeatherStays ==
  ASSUME FamilyInv, [FamilyNext]_familyVars, NEW journal, Binding(journal),
         WeatherProof(journal)
  PROVE  WeatherProof(journal)'
<1> DEFINE e == journal.epoch
<1>1. ContractDeadline(e) \in Nat
  BY ContractDeadlineType DEF Binding, DeadlineBound
<1>2. now \in Nat /\ (now' = now \/ now' = now + 1) /\ now > ContractDeadline(e)
  BY FamilyFrame DEF FamilyInv, FamilyTyped, WeatherProof
<1>3. ContractDeadline(e)' = ContractDeadline(e)
  BY DEF ContractDeadline
<1>4. RainBy(e)' = RainBy(e)
  BY <1>1, <1>2, RainStays DEF FamilyInv
<1>5. now' > ContractDeadline(e)
  BY <1>1, <1>2
<1> QED BY <1>3, <1>4, <1>5 DEF WeatherProof

\* A binding does not change with time.
LEMMA BindingFixed == ASSUME NEW journal PROVE Binding(journal)' <=> Binding(journal)
BY DEF Binding, DeadlineBound, ContractDeadline

LEMMA ProofsStep ==
  ASSUME FamilyInv, [FamilyNext]_familyVars, NEW journal \in proofs'
  PROVE  ProofOK(journal)'
<1>1. rule' = rule
  BY FamilyFrame
<1>2. CASE journal \in proofs
  <2>1. ProofOK(journal)
    BY <1>2 DEF FamilyInv
  <2> QED BY <1>1, <2>1, SignedStays, WeatherStays, BindingFixed DEF ProofOK
<1>3. CASE journal \notin proofs
  <2>1. PICK e \in Epochs : ProveV2(e) \/ ProveV3(e) \/ ProveWeather(e)
    BY <1>3, FamilyFrame
  <2>2. CASE ProveV2(e) \/ ProveV3(e)
    <3>1. journal.epoch = e /\ SignedProof(journal) /\ rule # "weather_v1"
      BY <1>3, <2>2, AttestedProof
    <3> QED BY <1>1, <3>1, SignedStays DEF ProofOK
  <2>3. CASE ProveWeather(e)
    <3>1. /\ journal.epoch = e /\ rule = "weather_v1"
          /\ Binding(journal) => WeatherProof(journal)
      BY <1>3, <2>3, WeatherRun
    <3> QED BY <1>1, <3>1, WeatherStays, BindingFixed DEF ProofOK
  <2> QED BY <2>1, <2>2, <2>3
<1> QED BY <1>2, <1>3

LEMMA ReceiptsStep ==
  ASSUME FamilyInv, [FamilyNext]_familyVars
  PROVE  /\ settled' \in [Epochs -> BOOLEAN] /\ DOMAIN receipts' = Epochs
         /\ ReceiptsKept' /\ ReceiptsBind'
<1>1. CASE UNCHANGED settlementVars
  <2>1. proofs \subseteq proofs'
    BY FamilyFrame DEF ProveV2, ProveV3, ProveWeather
  <2> QED BY <1>1, <2>1, BindingFixed
       DEF FamilyInv, FamilyTyped, settlementVars, ReceiptsKept, ReceiptsBind, SettledEpochs,
           Binding, DeadlineBound, ContractDeadline
<1>2. CASE \E journal \in proofs : Settle(journal)
  <2>1. PICK journal \in proofs : Settle(journal)
    BY <1>2
  <2>2. journal.epoch \in Epochs /\ Binding(journal) /\ proofs' = proofs
    BY <2>1 DEF FamilyInv, ProofOK, Settle, SameInstrument, Binding
  <2>3. /\ settled' = [settled EXCEPT ![journal.epoch] = TRUE]
        /\ receipts' = [receipts EXCEPT ![journal.epoch] = journal]
    BY <2>1 DEF Settle, Marked
  <2>4. /\ settled' \in [Epochs -> BOOLEAN] /\ DOMAIN receipts' = Epochs
        /\ receipts'[journal.epoch] = journal
        /\ \A e \in Epochs : e # journal.epoch =>
             settled'[e] = settled[e] /\ receipts'[e] = receipts[e]
    BY <2>2, <2>3 DEF FamilyInv, FamilyTyped
  <2>5. \A e \in SettledEpochs' :
          receipts'[e] \in proofs /\ receipts'[e].epoch = e /\ Binding(receipts'[e])
    BY <2>1, <2>2, <2>4 DEF FamilyInv, ReceiptsKept, ReceiptsBind, SettledEpochs
  <2> QED BY <2>2, <2>4, <2>5
       DEF ReceiptsKept, ReceiptsBind, Binding, DeadlineBound, ContractDeadline
<1> QED BY <1>1, <1>2, FamilyFrame

LEMMA FamilyNextInv == ASSUME FamilyInv, [FamilyNext]_familyVars PROVE FamilyInv'
<1>1. now' \in Nat
  <2>1. now \in Nat /\ (now' = now \/ now' = now + 1)
    BY FamilyFrame DEF FamilyInv, FamilyTyped
  <2> QED BY <2>1
<1>2. payments' \in Seq(Deliveries)
  BY HistoryStep DEF FamilyInv
<1>3. readings' \in Seq(Readings)
  <2>1. CASE readings' = readings
    BY <2>1 DEF FamilyInv, FamilyTyped
  <2>2. CASE \E station \in Stations, mm \in Falls : Observe(station, mm)
    <3>1. PICK station \in Stations, mm \in Falls : Observe(station, mm)
      BY <2>2
    <3> DEFINE reading == [station |-> station, mm |-> mm, at |-> now]
    <3>2. reading \in Readings /\ readings \in Seq(Readings)
          /\ readings' = Append(readings, reading)
      BY <3>1, TermsAssumption DEF Observe, Readings, FamilyInv, FamilyTyped
    <3> HIDE DEF reading
    <3> QED BY <3>2, AppendProperties
  <2> QED BY <2>1, <2>2, FamilyFrame
<1>4. FamilyTyped'
  BY <1>1, <1>2, <1>3, ReceiptsStep DEF FamilyTyped
<1>5. \A m \in signed' : Records(m)'
  <2>1. ASSUME NEW m \in signed' PROVE Records(m)'
    <3>1. CASE m \in signed
      BY <3>1, RecordsStay
    <3>2. CASE m \notin signed
      BY <3>2, NewRecord, FamilyFrame
    <3> QED BY <3>1, <3>2
  <2> QED BY <2>1
<1>6. \A journal \in proofs' : ProofOK(journal)'
  BY ProofsStep
<1> QED BY <1>4, <1>5, <1>6, ReceiptsStep DEF FamilyInv

LEMMA FamilyInitInv == FamilyInit => FamilyInv
<1> SUFFICES ASSUME FamilyInit PROVE FamilyInv
  OBVIOUS
<1>1. /\ settled = [e \in Epochs |-> FALSE] /\ now = 0 /\ payments = <<>> /\ proofs = {}
      /\ receipts = [e \in Epochs |-> None]
      /\ signed = {} /\ readings = <<>>
  BY DEF FamilyInit, SettlementInit
<1>2. payments \in Seq(Deliveries) /\ readings \in Seq(Readings)
  BY <1>1, EmptySeq
<1>3. SettledEpochs = {}
  BY <1>1 DEF SettledEpochs
<1> QED BY <1>1, <1>2, <1>3 DEF FamilyInv, FamilyTyped, ReceiptsKept, ReceiptsBind

\* The inductive invariant of the family: signed histories miss nothing that
\* still counts, and an artifact pays by one of them, or by all the rain.
THEOREM FamilyInvHolds == FamilySpec => []FamilyInv
<1>1. FamilyInv /\ [FamilyNext]_familyVars => FamilyInv'
  BY FamilyNextInv
<1> QED BY FamilyInitInv, <1>1, PTL DEF FamilySpec

-----------------------------------------------------------------------------
\* A history signed after the deadline shows no larger shortfall than any later
\* one: what came in since is late, and what was taken back is short.
LEMMA SignedCovers ==
  ASSUME FamilyInv, NEW m \in signed, NEW D \in Nat, m.at > D,
         NEW config, IsBond(config)
  PROVE  /\ SumOwed(config) \in Nat
         /\ SumShort(config, D, m.payments) \in 0..SumOwed(config)
         /\ SumShort(config, D, payments) \in 0..SumOwed(config)
         /\ SumShort(config, D, m.payments) <= SumShort(config, D, payments)
<1>1. /\ payments \in Seq(Deliveries) /\ m.payments \in Seq(Deliveries)
      /\ Records(m) /\ m.at \in Nat
  BY DEF FamilyInv, FamilyTyped, Records
<1>2. IsHistory(payments) /\ IsHistory(m.payments)
  BY <1>1, HistoryType
<1>3. ASSUME NEW q \in DOMAIN payments, payments[q].paidAt <= D, ~payments[q].clawed
      PROVE  q \in DOMAIN m.payments /\ m.payments[q] = payments[q]
  <2>1. payments[q] \in Deliveries
    BY <1>1, ElementOfSeq, LenProperties
  <2>2. payments[q].paidAt < m.at
    BY <1>1, <1>3, <2>1 DEF Deliveries
  <2> QED BY <1>1, <1>3, <2>2 DEF Records
<1>4. \A n \in Owing(config) :
        /\ Qualifying(config, n, D, payments) \subseteq Qualifying(config, n, D, m.payments)
        /\ \A q \in Qualifying(config, n, D, payments) :
             payments[q].amount = m.payments[q].amount
  BY <1>3 DEF Qualifying, Qualifies
<1>5. SumShort(config, D, m.payments) <= SumShort(config, D, payments)
  BY <1>2, <1>4, ShortfallGrows
<1> QED BY <1>2, <1>5, ShortfallBound

LEMMA SignedNotOverpaid ==
  ASSUME FamilyInv, rule # "weather_v1", NEW e \in SettledEpochs, SignedForIt(e)
  PROVE  NotOverpaid(e)
<1> DEFINE journal == receipts[e]
           config == OwedBy(e)
           D == ContractDeadline(e)
           owed == SumOwed(config)
           short == SumShort(config, D, payments)
<1>1. /\ journal.epoch = e /\ Binding(journal) /\ SignedProof(journal)
  BY DEF FamilyInv, ReceiptsKept, ReceiptsBind, ProofOK
<1>2. journal.deadline = D /\ D \in Nat
  BY <1>1, ContractDeadlineType DEF Binding, DeadlineBound
<1>3. /\ IsBond(config) /\ Opened(journal.positions)
      /\ \E m \in signed :
           /\ rule = "credit_v3" => m.epoch = e
           /\ SumShort(config, D, m.payments) > 0
           /\ journal.allocs =
                Allocations(journal.positions, SumShort(config, D, m.payments), owed)
  BY <1>1, <1>2 DEF SignedProof
<1>4. PICK m \in signed :
        /\ rule = "credit_v3" => m.epoch = e
        /\ SumShort(config, D, m.payments) > 0
        /\ journal.allocs =
             Allocations(journal.positions, SumShort(config, D, m.payments), owed)
  BY <1>3
<1>5. m.at > D
  BY <1>4 DEF SignedForIt, FamilyInv, Records
<1> HIDE DEF journal, config, D
<1> DEFINE before == SumShort(config, D, m.payments)
<1>6. /\ owed \in Nat /\ before \in 0..owed /\ short \in 0..owed /\ before <= short
  BY <1>2, <1>3, <1>5, SignedCovers
<1> HIDE DEF owed, short, before
<1>7. before \in Nat /\ short \in Nat /\ owed \in Nat \ {0} /\ short > 0 /\ before <= short
  BY <1>4, <1>6 DEF before
<1>8. ASSUME NEW i \in DOMAIN journal.allocs
      PROVE  journal.allocs[i].amount <= Payout(journal.positions[i].cover, short, owed)
  <2>1. /\ i \in DOMAIN journal.positions
        /\ journal.allocs[i].amount = Payout(journal.positions[i].cover, before, owed)
    BY <1>4 DEF Allocations, before
  <2>2. journal.positions[i].cover \in Nat
    BY <1>3, <2>1, OpeningsAssumption DEF Opened
  <2> QED BY <1>7, <2>1, <2>2, PayoutMonotone
<1> QED BY <1>7, <1>8 DEF NotOverpaid, short, owed, config, D, journal

\* Under credit_v3 no signature of any epoch, used in any order, makes an epoch
\* pay more than the history shows as short; under credit_v2 none that was made
\* after the epoch's deadline does.
THEOREM SignaturesAlwaysHold == FamilySpec => []SignaturesHold
<1>1. FamilyInv => SignaturesHold
  BY SignedNotOverpaid DEF SignaturesHold
<1> QED BY FamilyInvHolds, <1>1, PTL

\* What one position gets of a drought: its cover at and below the exhaustion
\* point, and its part of the missing rain to less than a token above it.
LEMMA DroughtPayout ==
  ASSUME NEW cover \in Nat, NEW trigger \in Nat, NEW exhaust \in Nat, NEW rain \in Nat,
         rain < trigger, exhaust < trigger
  PROVE  LET span == trigger - exhaust
             got == Payout(cover, Lesser(trigger - rain, span), span)
         IN  /\ got \in Nat
             /\ rain <= exhaust => got = cover
             /\ ~(rain <= exhaust) =>
                  /\ got * span <= cover * (trigger - rain)
                  /\ cover * (trigger - rain) < (got + 1) * span
<1> DEFINE span == trigger - exhaust
           missing == trigger - rain
           severity == Lesser(missing, span)
           got == Payout(cover, severity, span)
<1>1. span \in Nat \ {0} /\ missing \in Nat /\ (rain <= exhaust <=> missing >= span)
  OBVIOUS
<1> HIDE DEF span, missing
<1>2. CASE missing >= span
  <2>1. severity = span
    BY <1>1, <1>2 DEF Lesser
  <2>2. (cover * span) \div span = cover
    <3>1. cover * span \in Nat
      BY <1>1
    <3>2. cover <= (cover * span) \div span /\ (cover * span) \div span <= cover
          /\ (cover * span) \div span \in Nat
      BY <1>1, <3>1, QuotientBounds
    <3> QED BY <3>2
  <2>3. got = cover
    BY <2>1, <2>2 DEF Payout, Lesser
  <2> QED BY <1>1, <1>2, <2>3 DEF span, missing
<1>3. CASE ~(missing >= span)
  <2> DEFINE y == cover * missing
             q == y \div span
  <2>1. severity = missing /\ missing <= span
    BY <1>1, <1>3 DEF Lesser
  <2>2. y \in Nat /\ y <= cover * span
    BY <1>1, <2>1, ProductMonotone
  <2> HIDE DEF y
  <2>3. q \in Nat /\ q <= cover
    BY <1>1, <2>2, QuotientBounds
  <2>4. /\ y = q * span + (y % span) /\ y % span \in Nat /\ y % span < span
        /\ q * span \in Nat
    BY <1>1, <2>2, <2>3, GrantRounding
  <2>5. got = q
    BY <2>1, <2>3 DEF Payout, Lesser, y
  <2> HIDE DEF q, got
  <2>6. (q + 1) * span = q * span + span
    BY <1>1, <2>3
  <2>7. q * span <= y /\ y < (q + 1) * span
    BY <1>1, <2>2, <2>4, <2>6
  <2> QED BY <1>1, <1>3, <2>3, <2>5, <2>7 DEF span, missing, y, got
<1> QED BY <1>1, <1>2, <1>3

LEMMA DroughtReceipt ==
  ASSUME FamilyInv, rule = "weather_v1", NEW e \in SettledEpochs
  PROVE  /\ RainBy(e) < Terms.trigger
         /\ \A i \in DOMAIN receipts[e].positions :
              LET cover == receipts[e].positions[i].cover
                  span == Terms.trigger - Terms.exhaust
                  due == cover * (Terms.trigger - RainBy(e))
              IN  IF RainBy(e) <= Terms.exhaust THEN Received(e, i) = cover
                  ELSE /\ Received(e, i) * span <= due
                       /\ due < (Received(e, i) + 1) * span
<1> DEFINE journal == receipts[e]
           rain == RainBy(e)
           severity == Severity(Terms, rain)
           span == Span(Terms)
<1>1. /\ journal.epoch = e /\ Binding(journal) /\ WeatherProof(journal)
  BY DEF FamilyInv, ReceiptsKept, ReceiptsBind, ProofOK
<1>2. /\ Opened(journal.positions) /\ Terms.trigger > Terms.exhaust /\ rain < Terms.trigger
      /\ journal.allocs = Allocations(journal.positions, severity, span)
  BY <1>1 DEF WeatherProof
<1>3. Terms.trigger \in Nat /\ Terms.exhaust \in Nat /\ rain \in Nat
  BY TermsAssumption, RainSame DEF FamilyInv
<1>4. severity = Lesser(Terms.trigger - rain, Terms.trigger - Terms.exhaust)
      /\ span = Terms.trigger - Terms.exhaust
  BY DEF Severity, Span
<1> HIDE DEF journal, rain, severity, span
<1>5. ASSUME NEW i \in DOMAIN journal.positions
      PROVE  /\ Received(e, i) = Payout(journal.positions[i].cover, severity, span)
             /\ journal.positions[i].cover \in Nat
  <2> DEFINE got == Payout(journal.positions[i].cover, severity, span)
  <2>1. journal.positions[i].cover \in Nat
    BY <1>2, OpeningsAssumption DEF Opened
  <2>2. got \in Nat
    <3> DEFINE c == journal.positions[i].cover
    <3>1. c \in Nat
      BY <2>1
    <3> HIDE DEF c
    <3>2. Payout(c, Lesser(Terms.trigger - rain, Terms.trigger - Terms.exhaust),
                 Terms.trigger - Terms.exhaust) \in Nat
      BY <1>2, <1>3, <3>1, DroughtPayout
    <3> QED BY <1>4, <3>2 DEF c
  <2>3. CASE got > 0
    <3>1. i \in DOMAIN journal.allocs /\ journal.allocs[i].amount = got
      BY <1>2, <2>3 DEF Allocations
    <3> QED BY <2>1, <3>1 DEF Received, journal
  <2>4. CASE ~(got > 0)
    <3>1. got = 0
      BY <2>2, <2>4
    <3>2. i \notin DOMAIN journal.allocs
      BY <1>2, <2>4 DEF Allocations
    <3> QED BY <2>1, <3>1, <3>2 DEF Received, journal
  <2> QED BY <2>3, <2>4
<1>6. ASSUME NEW i \in DOMAIN journal.positions
      PROVE  IF rain <= Terms.exhaust THEN Received(e, i) = journal.positions[i].cover
             ELSE /\ Received(e, i) * (Terms.trigger - Terms.exhaust)
                       <= journal.positions[i].cover * (Terms.trigger - rain)
                  /\ journal.positions[i].cover * (Terms.trigger - rain)
                       < (Received(e, i) + 1) * (Terms.trigger - Terms.exhaust)
  <2> DEFINE c == journal.positions[i].cover
             got == Received(e, i)
  <2>1. /\ c \in Nat
        /\ got = Payout(c, Lesser(Terms.trigger - rain, Terms.trigger - Terms.exhaust),
                        Terms.trigger - Terms.exhaust)
    BY <1>4, <1>5
  <2> HIDE DEF c, got
  <2>2. /\ rain <= Terms.exhaust => got = c
        /\ ~(rain <= Terms.exhaust) =>
             /\ got * (Terms.trigger - Terms.exhaust) <= c * (Terms.trigger - rain)
             /\ c * (Terms.trigger - rain) < (got + 1) * (Terms.trigger - Terms.exhaust)
    BY <1>2, <1>3, <2>1, DroughtPayout
  <2> QED BY <2>2 DEF c, got
<1> QED BY <1>2, <1>6 DEF journal, rain

\* A weather cover pays exactly by the whole record of its station and window,
\* whichever readings came after the proof, for any band, cover and book.
THEOREM DroughtAlwaysPaidExactly == FamilySpec => []DroughtPaidExactly
<1>1. FamilyInv => DroughtPaidExactly
  BY DroughtReceipt DEF DroughtPaidExactly
<1> QED BY FamilyInvHolds, <1>1, PTL
=============================================================================
