---------------------------- MODULE ClaimProofs ----------------------------
(***************************************************************************)
(* The claimable settlement pays once: an epoch is settled or claimed,     *)
(* never both, and what a buyer holds is what one settlement or one claim  *)
(* per epoch paid him.  The invariant is that of the books and of the      *)
(* artifacts (SettlementProofs), with the records of the claim path.       *)
(***************************************************************************)
EXTENDS ClaimSettlement, SettlementProofs

\* What a claim artifact carries, whoever proved it and when.
ClaimJournalOK(journal) ==
  /\ journal.epoch \in Epochs
  /\ journal.buyer \in Buyers
  /\ journal.amount \in Nat \ {0}

ClaimInv ==
  /\ BooksInv
  /\ \A journal \in claimProofs : ClaimJournalOK(journal)
  /\ ClaimTypeOK
  /\ OnePathPerEpoch
  /\ NoDoublePay

-----------------------------------------------------------------------------
\* The one allocation a claim pays goes to its buyer in full.
LEMMA SinglePayout ==
  ASSUME NEW b, NEW amount \in Nat, NEW payee
  PROVE  PaidTo(<<[buyer |-> b, amount |-> amount]>>, payee)
           = IF payee = b THEN amount ELSE 0
<1> DEFINE allocs == <<[buyer |-> b, amount |-> amount]>>
           own == {j \in DOMAIN allocs : allocs[j].buyer = payee}
           f == [i \in own |-> allocs[i].amount]
<1>1. DOMAIN allocs = {1} /\ allocs[1].buyer = b /\ allocs[1].amount = amount
  OBVIOUS
<1>2. PaidTo(allocs, payee) = Total(f)
  BY DEF PaidTo
<1>3. CASE payee = b
  <2>1. own = {1}
    BY <1>1, <1>3
  <2>2. f \in [{} \cup {1} -> Nat] /\ f[1] = amount
    BY <1>1, <2>1
  <2> DEFINE none == [x \in {} |-> 0]
  <2>3. none \in [{} -> Nat]
    OBVIOUS
  <2>4. Total(none) = 0
    BY <2>3, EmptyTotal
  <2>5. IsFiniteSet({}) /\ 1 \notin {} /\ \A y \in {} : f[y] = none[y]
    BY FS_EmptySet
  <2> HIDE DEF f, none
  <2>6. Total(f) = Total(none) + f[1]
    BY <2>2, <2>3, <2>5, TotalExtend
  <2> QED BY <1>2, <1>3, <2>2, <2>4, <2>6
<1>4. CASE payee # b
  <2>1. own = {}
    BY <1>1, <1>4
  <2>2. f \in [{} -> Nat]
    BY <2>1
  <2> HIDE DEF f
  <2>3. Total(f) = 0
    BY <2>2, EmptyTotal
  <2> QED BY <1>2, <1>4, <2>3
<1> QED BY <1>3, <1>4

\* The claim artifacts of a run of the guest.
LEMMA ClaimGuestSound ==
  ASSUME NEW e \in Epochs, NEW n,
         ClaimProvable(Config[This], e, payments, positions, n)
  PROVE  ClaimJournalOK(ClaimJournal(This, Config[This], e, payments, positions, n))
<1> DEFINE amount == ClaimPayout(Config[This], e, payments, positions, n)
<1>1. positions[n] \in Openings /\ amount \in 1..U64Max
  BY DEF ClaimProvable, PlaceOpened
<1>2. positions[n].buyer \in Buyers
  BY <1>1, OpeningsAssumption
<1> HIDE DEF amount
<1>3. amount \in Nat \ {0}
  BY <1>1, U64Assumption
<1> QED BY <1>2, <1>3 DEF ClaimJournal, ClaimJournalOK, amount

-----------------------------------------------------------------------------
\* A step that leaves the records of both paths and the buyers' money alone.
LEMMA RecordsStutter ==
  ASSUME ClaimInv, UNCHANGED <<settlementVars, hasClaims, claimed, claims>>, BuyersIdle
  PROVE  ClaimTypeOK' /\ OnePathPerEpoch' /\ NoDoublePay'
<1> USE DEF ClaimInv, settlementVars
<1>1. SettledEpochs' = SettledEpochs
  BY DEF SettledEpochs
<1>2. ClaimTypeOK' /\ OnePathPerEpoch'
  BY DEF ClaimTypeOK, OnePathPerEpoch
<1>3. NoDoublePay'
  BY <1>1 DEF NoDoublePay, BuyersIdle
<1> QED BY <1>2, <1>3

\* Steps of the market, of keepers that prove, of sellers and buyers.
LEMMA OtherClaimStep ==
  ASSUME ClaimInv, BooksInv', BuyersIdle, UNCHANGED <<settlementVars, claimVars>>
  PROVE  ClaimInv'
<1>1. (\A journal \in claimProofs : ClaimJournalOK(journal))'
  BY DEF ClaimInv, ClaimJournalOK, claimVars
<1> QED BY <1>1, RecordsStutter DEF ClaimInv, claimVars

LEMMA ProveClaimStep ==
  ASSUME ClaimInv, NEW e \in Epochs, NEW n \in DOMAIN positions, ProveClaim(e, n)
  PROVE  ClaimInv'
<1>1. UNCHANGED <<vars, hasClaims, claimed, claims>>
  BY DEF ProveClaim
<1>2. BooksInv' /\ BuyersIdle /\ UNCHANGED settlementVars
  <2>1. StateOK'
    BY <1>1 DEF ClaimInv, BooksInv, StateOK, vars, marketVars, settlementVars
  <2> QED BY <1>1, <2>1, MarketBooks DEF ClaimInv, vars
<1>3. \A journal \in claimProofs' : ClaimJournalOK(journal)
  BY ClaimGuestSound DEF ClaimInv, ProveClaim
<1>4. (\A journal \in claimProofs : ClaimJournalOK(journal))'
  BY <1>3 DEF ClaimJournalOK
<1> QED BY <1>1, <1>2, <1>4, RecordsStutter DEF ClaimInv

\* A settlement meets no claim of its epoch and pays what its receipt carries.
LEMMA SettleUnclaimedStep ==
  ASSUME ClaimInv, NEW journal \in proofs, SettleUnclaimed(journal)
  PROVE  ClaimInv'
<1> USE DEF ClaimInv
<1> DEFINE e == journal.epoch
<1>1. Settle(journal) /\ ~hasClaims[e] /\ UNCHANGED claimVars
  BY DEF SettleUnclaimed, NoDirectClaims
<1>2. /\ BooksInv'
      /\ wallet' = [a \in Accounts |-> wallet[a] + PaidTo(journal.allocs, a)]
      /\ settled' = [settled EXCEPT ![e] = TRUE]
  BY <1>1, SettleBooks DEF Settle, Marked
<1>3. (\A j \in claimProofs : ClaimJournalOK(j))' /\ ClaimTypeOK'
  BY <1>1 DEF ClaimJournalOK, ClaimTypeOK, claimVars
<1>4. OnePathPerEpoch'
  BY <1>1, <1>2 DEF OnePathPerEpoch, claimVars, BooksInv, StateOK
<1>5. NoDoublePay'
  <2> SUFFICES ASSUME NEW b \in Buyers
               PROVE  wallet'[b] =
                        Total([x \in SettledEpochs' |-> PaidTo(receipts'[x].allocs, b)])
                        + Total([x \in Epochs |-> claims'[x][b]])
    BY DEF NoDoublePay
  <2>1. wallet'[b] = wallet[b] + PaidTo(journal.allocs, b)
    BY <1>2 DEF Accounts
  <2>2. claims' = claims
    BY <1>1 DEF claimVars
  <2>3. wallet[b] = Total([x \in SettledEpochs |-> PaidTo(receipts[x].allocs, b)])
                    + Total([x \in Epochs |-> claims[x][b]])
    BY DEF NoDoublePay
  <2>4. Total([x \in SettledEpochs' |-> PaidTo(receipts'[x].allocs, b)])
          = Total([x \in SettledEpochs |-> PaidTo(receipts[x].allocs, b)])
            + PaidTo(journal.allocs, b)
    BY <1>1, ReceiptSums
  <2> DEFINE before == Total([x \in SettledEpochs |-> PaidTo(receipts[x].allocs, b)])
             claimsOf == Total([x \in Epochs |-> claims[x][b]])
             paid == PaidTo(journal.allocs, b)
  <2>5. before \in Nat /\ claimsOf \in Nat /\ paid \in Nat
    <3>1. JournalOK(journal)
      BY DEF BooksInv
    <3>2. paid \in Nat
      BY <3>1, AllocationSumType DEF JournalOK
    <3>3. \A x \in SettledEpochs : PaidTo(receipts[x].allocs, b) \in Nat
      BY AllocationSumType DEF BooksInv, ReceiptsKept, JournalOK
    <3>4. IsFiniteSet(SettledEpochs)
      BY FS_Subset, ThisAssumption DEF SettledEpochs
    <3>5. before \in Nat
      BY <3>3, <3>4, TotalType
    <3>6. claimsOf \in Nat
      BY TotalType, ThisAssumption DEF ClaimTypeOK
    <3> QED BY <3>2, <3>5, <3>6
  <2> HIDE DEF before, claimsOf, paid
  <2>6. wallet'[b] = (before + paid) + claimsOf
    BY <2>1, <2>3, <2>5 DEF before, claimsOf, paid
  <2> QED BY <2>2, <2>4, <2>6 DEF before, claimsOf, paid
<1> QED BY <1>2, <1>3, <1>4, <1>5

\* A claim meets no settlement of its epoch and no earlier claim of its buyer.
LEMMA ClaimDirectStep ==
  ASSUME ClaimInv, NEW journal \in claimProofs, ClaimDirect(journal)
  PROVE  ClaimInv'
<1> USE DEF ClaimInv
<1> DEFINE e == journal.epoch
           buyer == journal.buyer
           amount == journal.amount
           allocs == <<[buyer |-> buyer, amount |-> amount]>>
<1>1. e \in Epochs /\ buyer \in Buyers /\ amount \in Nat \ {0}
  BY DEF ClaimJournalOK
<1>2. /\ ~settled[e]
      /\ buyer \notin claimed[e]
      /\ claimed' = [claimed EXCEPT ![e] = claimed[e] \cup {buyer}]
      /\ hasClaims' = [hasClaims EXCEPT ![e] = TRUE]
      /\ claims' = [claims EXCEPT ![e][buyer] = amount]
      /\ PayAllocations(allocs)
      /\ UNCHANGED <<marketVars, proofs, settlementVars, claimProofs>>
  BY DEF ClaimDirect, NotYetSettled, NotYetClaimed, WithClaimant
<1>3. BooksInv'
  <2>1. IsAllocationList(allocs)
    <3>1. DOMAIN allocs = {1} /\ allocs[1] \in [buyer : Accounts, amount : Int]
      BY <1>1 DEF Accounts
    <3>2. IsFiniteSet({1})
      BY FS_Singleton
    <3> HIDE DEF allocs
    <3>3. allocs = [i \in {1} |-> allocs[i]]
      BY <3>1 DEF allocs
    <3> QED BY <3>1, <3>2, <3>3 DEF IsAllocationList
  <2>2. VaultInv'
    BY <1>2, <2>1, PayAllocationsInv DEF BooksInv
  <2> QED BY <1>2, <2>2, CallBooks
<1>4. (\A j \in claimProofs : ClaimJournalOK(j))'
  BY <1>2 DEF ClaimJournalOK
<1>5. /\ claims' \in [Epochs -> [Buyers -> Nat]]
      /\ \A x \in Epochs, b \in Buyers :
           claims'[x][b] = IF x = e /\ b = buyer THEN amount ELSE claims[x][b]
  BY <1>1, <1>2 DEF ClaimTypeOK
<1>6. ClaimTypeOK'
  <2>1. ASSUME NEW x \in Epochs
        PROVE  /\ claimed'[x] = {b \in Buyers : claims'[x][b] > 0}
               /\ hasClaims'[x] = (claimed'[x] # {})
    <3>1. CASE x = e
      <4>1. claimed'[x] = claimed[x] \cup {buyer}
        BY <1>1, <1>2, <3>1 DEF ClaimTypeOK
      <4>2. claimed[x] = {b \in Buyers : claims[x][b] > 0}
        BY DEF ClaimTypeOK
      <4>3. \A b \in Buyers : claims'[x][b] = IF b = buyer THEN amount ELSE claims[x][b]
        BY <1>5, <3>1
      <4>4. claimed'[x] = {b \in Buyers : claims'[x][b] > 0}
        <5> HIDE DEF buyer, amount
        <5> QED BY <1>1, <4>1, <4>2, <4>3
      <4>5. hasClaims'[x] = TRUE
        BY <1>1, <1>2, <3>1 DEF ClaimTypeOK
      <4>6. claimed'[x] # {}
        BY <4>1
      <4> QED BY <4>4, <4>5, <4>6
    <3>2. CASE x # e
      BY <1>1, <1>2, <1>5, <3>2 DEF ClaimTypeOK
    <3> QED BY <3>1, <3>2
  <2>2. /\ claimed' = [x \in Epochs |-> claimed'[x]]
        /\ hasClaims' = [x \in Epochs |-> hasClaims'[x]]
    BY <1>2 DEF ClaimTypeOK
  <2> QED BY <1>5, <2>1, <2>2 DEF ClaimTypeOK
<1>7. OnePathPerEpoch'
  BY <1>1, <1>2 DEF OnePathPerEpoch, ClaimTypeOK, settlementVars
<1>8. NoDoublePay'
  <2> SUFFICES ASSUME NEW b \in Buyers
               PROVE  wallet'[b] =
                        Total([x \in SettledEpochs' |-> PaidTo(receipts'[x].allocs, b)])
                        + Total([x \in Epochs |-> claims'[x][b]])
    BY DEF NoDoublePay
  <2> DEFINE received == Total([x \in SettledEpochs |-> PaidTo(receipts[x].allocs, b)])
             f == [x \in Epochs |-> claims[x][b]]
             g == [x \in Epochs |-> claims'[x][b]]
             n == IF b = buyer THEN amount ELSE 0
  <2>1. Total([x \in SettledEpochs' |-> PaidTo(receipts'[x].allocs, b)]) = received
    BY <1>2 DEF SettledEpochs, settlementVars
  <2>2. wallet[b] = received + Total(f)
    BY DEF NoDoublePay
  <2>3. wallet'[b] = wallet[b] + n
    <3>1. wallet'[b] = wallet[b] + PaidTo(allocs, b)
      BY <1>2 DEF PayAllocations, TransferAll, Accounts
    <3>2. PaidTo(allocs, b) = n
      BY <1>1, SinglePayout
    <3> QED BY <3>1, <3>2
  <2>4. f \in [Epochs -> Nat] /\ n \in Nat
    BY <1>1 DEF ClaimTypeOK
  <2>5. g = [f EXCEPT ![e] = f[e] + n]
    <3>1. b = buyer => claims[e][b] = 0
      BY <1>1, <1>2 DEF ClaimTypeOK
    <3>2. \A x \in Epochs : g[x] = IF x = e THEN f[e] + n ELSE f[x]
      BY <1>1, <1>5, <2>4, <3>1
    <3> QED BY <3>2
  <2>6. Total(g) = Total(f) + n
    <3>1. e \in Epochs /\ IsFiniteSet(Epochs)
      BY <1>1, ThisAssumption
    <3> HIDE DEF f, g, n, e
    <3> QED BY <2>4, <2>5, <3>1, TotalAdd
  <2>7. received \in Nat /\ Total(f) \in Nat
    <3>1. \A x \in SettledEpochs : PaidTo(receipts[x].allocs, b) \in Nat
      BY AllocationSumType DEF BooksInv, ReceiptsKept, JournalOK
    <3>2. IsFiniteSet(SettledEpochs)
      BY FS_Subset, ThisAssumption DEF SettledEpochs
    <3>3. received \in Nat
      BY <3>1, <3>2, TotalType
    <3>4. Total(f) \in Nat
      <4> HIDE DEF f
      <4> QED BY <2>4, TotalType, ThisAssumption
    <3> QED BY <3>3, <3>4
  <2> HIDE DEF received, f, n
  <2>8. wallet'[b] = received + Total(g)
    <3> HIDE DEF g
    <3> QED BY <2>2, <2>3, <2>4, <2>6, <2>7
  <2> QED BY <2>1, <2>8
<1> QED BY <1>3, <1>4, <1>6, <1>7, <1>8

-----------------------------------------------------------------------------
LEMMA ClaimInitInv == ClaimInit => ClaimInv
<1> SUFFICES ASSUME ClaimInit PROVE ClaimInv
  OBVIOUS
<1>1. BooksInv /\ SettledEpochs = {}
  BY InitBooks DEF ClaimInit
<1>2. ClaimTypeOK
  <2>1. claims \in [Epochs -> [Buyers -> Nat]]
    BY DEF ClaimInit
  <2>2. \A x \in Epochs : {b \in Buyers : claims[x][b] > 0} = {}
    BY DEF ClaimInit
  <2>3. claimed = [x \in Epochs |-> {b \in Buyers : claims[x][b] > 0}]
    BY <2>2 DEF ClaimInit
  <2>4. \A x \in Epochs : (claimed[x] # {}) = FALSE
    BY DEF ClaimInit
  <2>5. hasClaims = [x \in Epochs |-> claimed[x] # {}]
    BY <2>4, Zenon DEF ClaimInit
  <2> QED BY <2>1, <2>3, <2>5 DEF ClaimTypeOK
<1>3. OnePathPerEpoch
  BY DEF ClaimInit, SettlementInit, OnePathPerEpoch
<1>4. NoDoublePay
  <2> SUFFICES ASSUME NEW b \in Buyers
               PROVE  wallet[b] = Total([x \in SettledEpochs |-> PaidTo(receipts[x].allocs, b)])
                                  + Total([x \in Epochs |-> claims[x][b]])
    BY DEF NoDoublePay
  <2> DEFINE g == [x \in Epochs |-> claims[x][b]]
  <2>1. wallet[b] = 0
    BY DisjointAssumption DEF ClaimInit, SettlementInit, VaultInit, Accounts
  <2>2. [x \in SettledEpochs |-> PaidTo(receipts[x].allocs, b)] \in [{} -> Nat]
    BY <1>1
  <2>3. Total([x \in SettledEpochs |-> PaidTo(receipts[x].allocs, b)]) = 0
    BY <2>2, EmptyTotal
  <2>4. g \in [Epochs -> Nat] /\ \A x \in Epochs : g[x] = 0
    BY DEF ClaimInit
  <2> HIDE DEF g
  <2>5. Total(g) = 0
    BY <2>4, TotalZero, ThisAssumption
  <2> QED BY <2>1, <2>3, <2>5 DEF g
<1> QED BY <1>1, <1>2, <1>3, <1>4 DEF ClaimInv, ClaimInit

LEMMA ClaimNextInv == ASSUME ClaimInv, [ClaimNext]_allVars PROVE ClaimInv'
<1> USE DEF ClaimInv
<1>1. CASE Tick /\ UNCHANGED claimVars
  BY <1>1, TickBooks, OtherClaimStep DEF Tick
<1>2. CASE \E holder \in HolderIds, amount \in CouponAmounts :
             PayCoupon(holder, amount) /\ UNCHANGED claimVars
  BY <1>2, PayCouponBooks, OtherClaimStep DEF PayCoupon
<1>3. CASE \E q \in DOMAIN payments : Clawback(q) /\ UNCHANGED claimVars
  BY <1>3, ClawbackBooks, OtherClaimStep DEF Clawback
<1>4. CASE \E e \in Epochs : Prove(This, e) /\ UNCHANGED claimVars
  BY <1>4, ProveBooks, OtherClaimStep, ThisAssumption DEF Prove
<1>5. CASE \E e \in Epochs : \E n \in DOMAIN positions : ProveClaim(e, n)
  BY <1>5, ProveClaimStep
<1>6. CASE \E journal \in proofs : SettleUnclaimed(journal)
  BY <1>6, SettleUnclaimedStep
<1>7. CASE \E journal \in claimProofs : ClaimDirect(journal)
  BY <1>7, ClaimDirectStep
<1>8. CASE \E s \in Sellers, amount \in Amounts :
             SellerDeposit(s, amount) /\ UNCHANGED claimVars
  BY <1>8, SellerDepositBooks, OtherClaimStep DEF SellerDeposit
<1>9. CASE \E s \in Sellers, amount \in Amounts :
             SellerWithdraw(s, amount) /\ UNCHANGED claimVars
  BY <1>9, SellerWithdrawBooks, OtherClaimStep DEF SellerWithdraw
<1>10. CASE \E commitment \in Commitments, cover \in Covers :
              /\ Honest(commitment, cover)
              /\ Len(positions) < MaxBook
              /\ BuyProtection(commitment, cover)
              /\ UNCHANGED <<marketVars, proofs, settlementVars, claimVars>>
  BY <1>10, PurchaseBooks, OtherClaimStep
<1>11. CASE UNCHANGED allVars
  <2>1. UNCHANGED vars /\ UNCHANGED claimVars
    BY <1>11 DEF allVars
  <2>2. StateOK'
    BY <2>1 DEF BooksInv, StateOK, vars, marketVars, settlementVars
  <2>3. BooksInv' /\ BuyersIdle
    BY <2>1, <2>2, MarketBooks DEF vars
  <2> QED BY <2>1, <2>3, OtherClaimStep DEF vars
<1> QED BY <1>1, <1>2, <1>3, <1>4, <1>5, <1>6, <1>7, <1>8, <1>9, <1>10, <1>11
     DEF ClaimNext

\* The inductive invariant of the claimable settlement.
THEOREM ClaimInvariant == ClaimSpec => []ClaimInv
<1>1. ClaimInv /\ [ClaimNext]_allVars => ClaimInv'
  BY ClaimNextInv
<1> QED BY ClaimInitInv, <1>1, PTL DEF ClaimSpec

\* The flags and addresses on record are those of the claims paid.
THEOREM ClaimRecordsCorrect == ClaimSpec => []ClaimTypeOK
<1>1. ClaimInv => ClaimTypeOK
  BY DEF ClaimInv
<1> QED BY ClaimInvariant, <1>1, PTL

\* No epoch is both settled in full and claimed, for any number of keepers,
\* buyers, artifacts and epochs.
THEOREM PathsExclude == ClaimSpec => []OnePathPerEpoch
<1>1. ClaimInv => OnePathPerEpoch
  BY DEF ClaimInv
<1> QED BY ClaimInvariant, <1>1, PTL

\* A buyer holds what one settlement or one claim per epoch paid him.
THEOREM PaidOnce == ClaimSpec => []NoDoublePay
<1>1. ClaimInv => NoDoublePay
  BY DEF ClaimInv
<1> QED BY ClaimInvariant, <1>1, PTL

-----------------------------------------------------------------------------
(* The late claimants stay funded.  Every claim, paid or only proved, is at *)
(* most the cover of a position of its buyer, those positions are distinct  *)
(* for distinct buyers, and together they are within the cover sold.       *)

OpenPlaces(book) == {n \in DOMAIN book : book[n] \in Openings /\ book[n].cover > 0}
OpenCover(book) == Total([n \in OpenPlaces(book) |-> book[n].cover])

Entitled(book, b, amount) ==
  \E n \in OpenPlaces(book) : book[n].buyer = b /\ amount <= book[n].cover

FundInv ==
  /\ ClaimInv
  /\ OpenCover(positions) <= totalCover
  /\ \A journal \in claimProofs : Entitled(journal.positions, journal.buyer, journal.amount)
  /\ \A e \in Epochs, b \in Buyers :
       claims[e][b] > 0 => Entitled(positions, b, claims[e][b])

\* A sum is at most another if its terms fit distinct terms of the other.
LEMMA TotalInjects ==
  ASSUME NEW S, NEW f \in [S -> Nat],
         NEW T, IsFiniteSet(T), NEW g \in [T -> Nat],
         NEW owner \in [T -> S],
         \A x \in S : f[x] > 0 => \E y \in T : owner[y] = x /\ f[x] <= g[y]
  PROVE  Total(f) <= Total(g)
<1> DEFINE place(x) == CHOOSE y \in T : owner[y] = x /\ f[x] <= g[y]
           m == [u \in Units(f) |-> <<place(u[1]), u[2]>>]
<1>1. ASSUME NEW u \in Units(f)
      PROVE  /\ u = <<u[1], u[2]>> /\ u[1] \in S
             /\ place(u[1]) \in T /\ owner[place(u[1])] = u[1]
             /\ m[u] \in Units(g)
  <2>1. PICK x \in S : \E i \in 1..f[x] : u = <<x, i>>
    BY UnitsMember
  <2>2. PICK i \in 1..f[x] : u = <<x, i>>
    BY <2>1
  <2>3. \E y \in T : owner[y] = x /\ f[x] <= g[y]
    OBVIOUS
  <2>4. place(x) \in T /\ owner[place(x)] = x /\ f[x] <= g[place(x)]
    BY <2>3
  <2>5. i \in 1..g[place(x)]
    BY <2>4
  <2>6. u[1] = x /\ u[2] = i
    BY <2>2
  <2> HIDE DEF place
  <2>7. <<place(x), i>> \in Units(g)
    BY <2>4, <2>5, UnitsMember
  <2> QED BY <2>2, <2>4, <2>6, <2>7
<1> HIDE DEF place
<1>2. m \in Injection(Units(f), Units(g))
  <2>1. m \in [Units(f) -> Units(g)]
    BY <1>1
  <2>2. ASSUME NEW u \in Units(f), NEW v \in Units(f), m[u] = m[v]
        PROVE  u = v
    <3>1. place(u[1]) = place(v[1]) /\ u[2] = v[2]
      BY <2>2
    <3>2. owner[place(u[1])] = u[1] /\ owner[place(v[1])] = v[1]
      BY <1>1
    <3>3. u[1] = v[1]
      BY <3>1, <3>2
    <3>4. u = <<u[1], u[2]>> /\ v = <<v[1], v[2]>>
      BY <1>1
    <3> QED BY <3>1, <3>3, <3>4
  <2> QED BY <2>1, <2>2 DEF Injection, IsInjective
<1> HIDE DEF m
<1> QED BY <1>2, UnitsFinite, FS_Injection DEF Total

\* The covers of the positions that can be opened.
LEMMA OpenCoverType ==
  ASSUME NEW book \in Seq(Commitments)
  PROVE  /\ IsFiniteSet(OpenPlaces(book))
         /\ [n \in OpenPlaces(book) |-> book[n].cover] \in [OpenPlaces(book) -> Nat]
         /\ OpenCover(book) \in Nat
<1> DEFINE f == [n \in OpenPlaces(book) |-> book[n].cover]
<1>1. DOMAIN book = 1..Len(book) /\ Len(book) \in Nat
  BY LenProperties
<1>2. IsFiniteSet(OpenPlaces(book))
  <2>1. IsFiniteSet(1..Len(book))
    BY <1>1, FS_Interval
  <2>2. OpenPlaces(book) \subseteq 1..Len(book)
    BY <1>1 DEF OpenPlaces
  <2> HIDE DEF f
  <2> QED BY <2>1, <2>2, FS_Subset
<1>3. f \in [OpenPlaces(book) -> Nat]
  BY OpeningsAssumption DEF OpenPlaces
<1>4. OpenCover(book) = Total(f)
  BY DEF OpenCover
<1> HIDE DEF f
<1>5. OpenCover(book) \in Nat
  BY <1>2, <1>3, <1>4, TotalType
<1> QED BY <1>2, <1>3, <1>5 DEF f

\* A purchase adds what it declares or, if nobody can open it, nothing.
LEMMA OpenCoverAppend ==
  ASSUME NEW book \in Seq(Commitments), NEW c \in Commitments, NEW cover \in Nat,
         c \in Openings => c.cover = cover, cover > 0
  PROVE  /\ OpenCover(Append(book, c)) <= OpenCover(book) + cover
         /\ \A b, amount : Entitled(book, b, amount) => Entitled(Append(book, c), b, amount)
<1>0. ASSUME NEW S, IsFiniteSet(S), NEW x, x \notin S
      PROVE  \A f \in [S -> Nat], g \in [S \cup {x} -> Nat] :
               (\A y \in S : g[y] = f[y]) => Total(g) = Total(f) + g[x]
  BY <1>0, TotalExtend
<1> DEFINE longer == Append(book, c)
           n == Len(book)
<1>1. /\ longer \in Seq(Commitments) /\ n \in Nat
      /\ DOMAIN book = 1..n /\ DOMAIN longer = 1..(n + 1)
      /\ \A i \in 1..n : longer[i] = book[i]
      /\ longer[n + 1] = c
  BY LenProperties, AppendProperties
<1> DEFINE S == OpenPlaces(book)
           R == OpenPlaces(longer)
           f == [i \in S |-> book[i].cover]
           g == [i \in R |-> longer[i].cover]
<1> HIDE DEF longer, n
<1>2. S \subseteq 1..n /\ \A i \in S : i \in R /\ longer[i] = book[i]
  BY <1>1 DEF OpenPlaces
<1>3. IsFiniteSet(S) /\ f \in [S -> Nat] /\ g \in [R -> Nat] /\ Total(f) \in Nat
  BY <1>1, OpenCoverType DEF OpenCover
<1>4. OpenCover(book) = Total(f) /\ OpenCover(longer) = Total(g)
  BY DEF OpenCover
<1>5. Total(g) <= Total(f) + cover
  <2>1. CASE c \in Openings
    <3>1. c.cover = cover
      BY <2>1
    <3>2. R = S \cup {n + 1} /\ n + 1 \notin S
      BY <1>1, <1>2, <2>1, <3>1 DEF OpenPlaces
    <3>3. g[n + 1] = cover /\ \A i \in S : g[i] = f[i]
      BY <1>1, <1>2, <3>1, <3>2
    <3> DEFINE x == n + 1
    <3> HIDE DEF S, R, f, g, x
    <3>4. IsFiniteSet(S) /\ x \notin S
      BY <1>3, <3>2 DEF x
    <3>5. \A p \in [S -> Nat], q \in [S \cup {x} -> Nat] :
            (\A y \in S : q[y] = p[y]) => Total(q) = Total(p) + q[x]
      BY <1>0, <3>4
    <3>6. f \in [S -> Nat] /\ g \in [S \cup {x} -> Nat] /\ \A y \in S : g[y] = f[y]
      BY <1>3, <3>2, <3>3 DEF x
    <3>7. Total(g) = Total(f) + g[x]
      BY <3>5, <3>6
    <3> QED BY <1>3, <3>3, <3>7 DEF x
  <2>2. CASE c \notin Openings
    <3>1. R = S
      BY <1>1, <1>2, <2>2 DEF OpenPlaces
    <3>2. g = f
      BY <1>2, <3>1
    <3> HIDE DEF S, R, f, g
    <3> QED BY <1>3, <3>2
  <2> QED BY <2>1, <2>2
<1>6. \A b, amount : Entitled(book, b, amount) => Entitled(longer, b, amount)
  BY <1>2 DEF Entitled
<1> QED BY <1>4, <1>5, <1>6 DEF longer

-----------------------------------------------------------------------------
\* The claim guest pays at most the cover of the place it opens.
LEMMA ClaimWithinCover ==
  ASSUME StateOK, NEW e \in Epochs, NEW n \in DOMAIN positions,
         ClaimProvable(Config[This], e, payments, positions, n)
  PROVE  LET journal == ClaimJournal(This, Config[This], e, payments, positions, n)
         IN  Entitled(journal.positions, journal.buyer, journal.amount)
<1> DEFINE config == Config[This]
           deadline == GuestDeadline(config.schedule, e)
           short == SumShort(config, deadline, payments)
           owed == SumOwed(config)
           journal == ClaimJournal(This, config, e, payments, positions, n)
<1>1. IsBond(config)
  BY ConfigAssumption, ThisAssumption DEF IsConfig, IsBond, ClaimProvable, InDomain
<1>2. IsHistory(payments)
  BY HistoryType DEF StateOK
<1>3. owed \in Nat /\ short \in 0..owed
  <2> HIDE DEF config, deadline
  <2> QED BY <1>1, <1>2, ShortfallBound
<1>4. short > 0 /\ positions[n] \in Openings /\ positions[n].cover > 0
  BY DEF ClaimProvable, Missed, PlaceOpened
<1>5. positions[n].cover \in Nat
  BY <1>4, OpeningsAssumption
<1>6. journal.positions = positions /\ journal.buyer = positions[n].buyer
      /\ journal.amount = Payout(positions[n].cover, short, owed)
  BY DEF ClaimJournal, ClaimPayout
<1> HIDE DEF short, owed, journal
<1>7. owed \in Nat \ {0} /\ short \in Nat
  BY <1>3, <1>4
<1>8. Payout(positions[n].cover, short, owed) \in 0..positions[n].cover
  BY <1>5, <1>7, PayoutBound
<1>9. Entitled(journal.positions, journal.buyer, journal.amount)
  BY <1>4, <1>5, <1>6, <1>8 DEF Entitled, OpenPlaces
<1> QED BY <1>9 DEF journal, config

LEMMA FundNextInv ==
  ASSUME Faithful, FundInv, [ClaimNext]_allVars
  PROVE  FundInv'
<1>1. ClaimInv'
  BY ClaimNextInv DEF FundInv
<1>2. CASE UNCHANGED <<positions, totalCover, claimProofs, claims>>
  BY <1>1, <1>2 DEF FundInv, OpenCover, OpenPlaces, Entitled
<1>3. CASE \E e \in Epochs : \E n \in DOMAIN positions : ProveClaim(e, n)
  <2>1. PICK e \in Epochs, n \in DOMAIN positions : ProveClaim(e, n)
    BY <1>3
  <2> DEFINE new == ClaimJournal(This, Config[This], e, payments, positions, n)
  <2>2. /\ claimProofs' = claimProofs \cup {new}
        /\ UNCHANGED <<positions, totalCover, claims>>
    BY <2>1 DEF ProveClaim, vars, vaultVars
  <2>3. Entitled(new.positions, new.buyer, new.amount)
    BY <2>1, ClaimWithinCover DEF ProveClaim, FundInv, ClaimInv, BooksInv
  <2> HIDE DEF new
  <2> QED BY <1>1, <2>2, <2>3 DEF FundInv, OpenCover, OpenPlaces, Entitled
<1>4. CASE \E journal \in claimProofs : ClaimDirect(journal)
  <2>1. PICK journal \in claimProofs : ClaimDirect(journal)
    BY <1>4
  <2>2. /\ journal.positions = positions
        /\ claims' = [claims EXCEPT ![journal.epoch][journal.buyer] = journal.amount]
        /\ UNCHANGED <<positions, totalCover, claimProofs>>
    BY <2>1 DEF ClaimDirect, BookCurrent, PayAllocations
  <2>3. claims \in [Epochs -> [Buyers -> Nat]]
    BY DEF FundInv, ClaimInv, ClaimTypeOK
  <2>4. ASSUME NEW e \in Epochs, NEW b \in Buyers, claims'[e][b] > 0
        PROVE  Entitled(positions, b, claims'[e][b])
    <3>1. CASE e = journal.epoch /\ b = journal.buyer
      BY <2>2, <2>3, <3>1 DEF FundInv
    <3>2. CASE ~(e = journal.epoch /\ b = journal.buyer)
      <4>1. claims'[e][b] = claims[e][b]
        BY <2>2, <2>3, <3>2
      <4> QED BY <2>4, <4>1 DEF FundInv
    <3> QED BY <3>1, <3>2
  <2> QED BY <1>1, <2>2, <2>4 DEF FundInv, OpenCover, OpenPlaces, Entitled
<1>5. CASE \E commitment \in Commitments, cover \in Covers :
             /\ Honest(commitment, cover)
             /\ Len(positions) < MaxBook
             /\ BuyProtection(commitment, cover)
             /\ UNCHANGED <<marketVars, proofs, settlementVars, claimVars>>
  <2>1. PICK commitment \in Commitments, cover \in Covers :
             /\ Honest(commitment, cover)
             /\ BuyProtection(commitment, cover)
             /\ UNCHANGED claimVars
    BY <1>5
  <2>2. /\ commitment \in Openings => commitment.cover = cover
        /\ cover \in Nat /\ cover > 0
        /\ positions' = Append(positions, commitment)
        /\ totalCover' = totalCover + cover
        /\ claims' = claims /\ claimProofs' = claimProofs
    BY <2>1, AmountsAssumption DEF Honest, BuyProtection, claimVars
  <2>3. positions \in Seq(Commitments) /\ totalCover \in Nat
    BY DEF FundInv, ClaimInv, BooksInv, VaultInv, VaultTypeOK
  <2>4. /\ OpenCover(positions') <= OpenCover(positions) + cover
        /\ \A b, amount : Entitled(positions, b, amount) => Entitled(positions', b, amount)
    BY <2>2, <2>3, OpenCoverAppend
  <2>5. OpenCover(positions) \in Nat /\ OpenCover(positions') \in Nat
    BY <2>2, <2>3, OpenCoverType, AppendProperties
  <2>6. OpenCover(positions') <= totalCover'
    BY <2>2, <2>3, <2>4, <2>5 DEF FundInv
  <2>7. /\ \A journal \in claimProofs' :
             Entitled(journal.positions, journal.buyer, journal.amount)
        /\ \A e \in Epochs, b \in Buyers :
             claims'[e][b] > 0 => Entitled(positions', b, claims'[e][b])
    BY <2>2, <2>4 DEF FundInv
  <2> QED BY <1>1, <2>6, <2>7 DEF FundInv, OpenCover, OpenPlaces, Entitled
<1> QED BY <1>2, <1>3, <1>4, <1>5
     DEF ClaimNext, Tick, PayCoupon, Clawback, Prove, SettleUnclaimed, Settle,
         PayAllocations, SellerDeposit, Deposit, SellerWithdraw, Withdraw, allVars,
         vars, vaultVars, claimVars

\* What was claimed of an epoch and one claim more are within the cover sold.
LEMMA FundedClaims == FundInv => LateClaimsFunded
<1> SUFFICES ASSUME FundInv, NEW e \in Epochs, paidOut = Total(claims[e]),
                    NEW journal \in claimProofs, journal.epoch = e,
                    BookCurrent(journal), NotYetClaimed(journal)
             PROVE  journal.amount <= totalCollateral
  BY DEF LateClaimsFunded
<1> DEFINE buyer == journal.buyer
           amount == journal.amount
           f == [claims[e] EXCEPT ![buyer] = claims[e][buyer] + amount]
           S == OpenPlaces(positions)
           g == [n \in S |-> positions[n].cover]
           owner == [n \in S |-> positions[n].buyer]
<1>1. buyer \in Buyers /\ amount \in Nat \ {0} /\ Entitled(positions, buyer, amount)
  BY DEF FundInv, ClaimInv, ClaimJournalOK, BookCurrent
<1>2. claims[e] \in [Buyers -> Nat] /\ claims[e][buyer] = 0
  BY <1>1 DEF FundInv, ClaimInv, ClaimTypeOK, NotYetClaimed
<1>3. f \in [Buyers -> Nat] /\ f[buyer] = amount
      /\ \A b \in Buyers : b # buyer => f[b] = claims[e][b]
  BY <1>1, <1>2
<1>4. Total(f) = Total(claims[e]) + amount /\ Total(claims[e]) \in Nat
  <2> HIDE DEF buyer, amount
  <2> QED BY <1>1, <1>2, TotalAdd, TotalType, FiniteAssumption
<1>5. IsFiniteSet(S) /\ g \in [S -> Nat] /\ OpenCover(positions) = Total(g)
      /\ OpenCover(positions) \in Nat
  BY OpenCoverType DEF OpenCover, FundInv, ClaimInv, BooksInv, VaultInv, VaultTypeOK
<1>6. owner \in [S -> Buyers]
  BY OpeningsAssumption DEF OpenPlaces
<1>7. ASSUME NEW b \in Buyers, f[b] > 0
      PROVE  \E n \in S : owner[n] = b /\ f[b] <= g[n]
  <2>1. Entitled(positions, b, f[b])
    BY <1>1, <1>3, <1>7 DEF FundInv
  <2> QED BY <2>1 DEF Entitled
<1> HIDE DEF f, S, g, owner
<1>8. Total(f) <= Total(g)
  BY <1>3, <1>5, <1>6, <1>7, TotalInjects
<1>9. Total(f) \in Nat
  BY <1>3, TotalType, FiniteAssumption
<1>10. /\ OpenCover(positions) <= totalCover
       /\ totalCover \in Nat /\ totalCollateral \in Int /\ paidOut \in Nat
       /\ totalCover <= totalCollateral + paidOut
  BY DEF FundInv, ClaimInv, BooksInv, VaultInv, VaultTypeOK, CoverBacked
<1> QED BY <1>1, <1>4, <1>5, <1>8, <1>9, <1>10

\* When buyers who can be claimed for commit to what they declare, a claim of an
\* epoch finds its money whoever claimed before and whatever sellers withdrew,
\* as long as no other epoch was paid.
THEOREM LateClaimsPayable == Faithful => (ClaimSpec => []LateClaimsFunded)
<1> SUFFICES ASSUME Faithful PROVE ClaimSpec => []LateClaimsFunded
  OBVIOUS
<1>1. ClaimInit => FundInv
  <2> SUFFICES ASSUME ClaimInit PROVE FundInv
    OBVIOUS
  <2>1. positions = <<>> /\ totalCover = 0 /\ claimProofs = {}
        /\ \A e \in Epochs, b \in Buyers : claims[e][b] = 0
    BY DEF ClaimInit, SettlementInit, VaultInit
  <2> DEFINE f == [n \in OpenPlaces(positions) |-> positions[n].cover]
  <2>2. f \in [{} -> Nat]
    BY <2>1 DEF OpenPlaces
  <2>3. OpenCover(positions) = 0
    <3>1. Total(f) = 0
      <4> HIDE DEF f
      <4> QED BY <2>2, EmptyTotal
    <3> QED BY <3>1 DEF OpenCover
  <2> QED BY <2>1, <2>3, ClaimInitInv DEF FundInv
<1>2. FundInv /\ [ClaimNext]_allVars => FundInv'
  BY FundNextInv
<1> QED BY <1>1, <1>2, FundedClaims, PTL DEF ClaimSpec
=============================================================================
