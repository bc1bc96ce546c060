---------------------------- MODULE TranchedProofs ----------------------------
(***************************************************************************)
(* The vaults with tranches, transparent and confidential: the tranches    *)
(* are the reserve, a payout is absorbed from the junior one up and to the *)
(* token, and the premium of every stake is there, after payouts too.  The *)
(* stakes of a tranche are a ledger of SumsProofs.tla, of which there is   *)
(* one for every rank, each with its own accumulator.                      *)
(***************************************************************************)
EXTENDS ConfidentialTranchedVault, SumsProofs

TranchedTyped ==
  /\ tranche \in [Ranks -> [coll : Nat, shares : Nat, acc : Nat]]
  /\ stake \in [Ranks -> [Sellers -> [shares : Nat, debt : Nat, claimable : Nat]]]
  /\ totalCollateral \in Nat /\ totalCover \in Nat /\ feeAccrued \in Nat
  /\ held \in Nat /\ wallet \in [Accounts -> Nat]
  /\ unbooked \in Nat /\ paidOut \in Nat /\ roundedOff \in Nat

Book(r) ==
  [s \in Sellers |-> [stake |-> stake[r][s].shares, debt |-> stake[r][s].debt,
                      claimable |-> stake[r][s].claimable]]

\* What the stakes of a tranche have earned and not claimed, in units of
\* 1/AccScale of a token.
Earned(r) == Total(Earnings(Book(r), tranche[r].acc, AccScale))

\* The tokens of the vault beyond the reserve, the fee and what is unbooked.
Spare == held - unbooked - (totalCollateral + feeAccrued)

TrancheOK(r) ==
  /\ IsLedger(Sellers, Book(r), tranche[r].acc, AccScale)
  /\ Total(StakesIn(Book(r))) = tranche[r].shares
  /\ tranche[r].coll <= tranche[r].shares

Reserve == Total([r \in Ranks |-> tranche[r].coll])
EarnedInAll == Total([r \in Ranks |-> Earned(r)])

\* The books of every tranche, what they are together, and that the tokens
\* make up for all that has been earned but for what debts were rounded down by.
TrancheInv ==
  /\ TranchedTyped
  /\ \A r \in Ranks : TrancheOK(r)
  /\ Reserve = totalCollateral
  /\ EarnedInAll <= Spare * AccScale + roundedOff

-----------------------------------------------------------------------------
LEMMA ScaleTypes ==
  /\ AccScale \in Nat \ {0} /\ BPS \in Nat \ {0}
  /\ PremiumBps \in Nat /\ ProtocolFeeBps \in 0..BPS
  /\ TotalWeight \in Nat \ {0}
  /\ Weights \in [Ranks -> Nat]
<1>1. TotalWeight \in Nat
  BY TotalType, TranchedAssumption DEF TotalWeight
<1> QED BY <1>1, TranchedAssumption DEF BPS

LEMMA PartiesFinite == IsFiniteSet(Sellers) /\ IsFiniteSet(Ranks)
BY TranchedAssumption, FS_Subset DEF Accounts

\* What a step of one tranche leaves of the other ledgers.
LEMMA LedgerTouched ==
  ASSUME TrancheInv, NEW r \in Ranks, NEW s \in Sellers,
         NEW n \in Nat, NEW p \in Nat,
         stake' = [stake EXCEPT ![r][s] =
                     [shares |-> n, debt |-> Granted(r, n), claimable |-> p]]
  PROVE  /\ Book(r)' = Restaked(Book(r), s, n, p, tranche[r].acc, AccScale)
         /\ \A q \in Ranks : q # r => Book(q)' = Book(q)
         /\ stake' \in [Ranks -> [Sellers -> [shares : Nat, debt : Nat, claimable : Nat]]]
<1> DEFINE a == tranche[r].acc
           new == [shares |-> n, debt |-> (n * a) \div AccScale, claimable |-> p]
<1>1. a \in Nat /\ Granted(r, n) = (n * a) \div AccScale /\ Granted(r, n) \in Nat
  BY ScaleTypes, ScaledType DEF TrancheInv, TranchedTyped, Granted
<1>2. /\ stake \in [Ranks -> [Sellers -> [shares : Nat, debt : Nat, claimable : Nat]]]
      /\ stake' = [stake EXCEPT ![r] = [stake[r] EXCEPT ![s] = new]]
      /\ new \in [shares : Nat, debt : Nat, claimable : Nat]
  BY <1>1 DEF TrancheInv, TranchedTyped
<1> HIDE DEF a
<1>3. /\ stake'[r][s] = new
      /\ \A x \in Sellers : x # s => stake'[r][x] = stake[r][x]
      /\ \A q \in Ranks : q # r => stake'[q] = stake[q]
  BY <1>2
<1>4. stake' \in [Ranks -> [Sellers -> [shares : Nat, debt : Nat, claimable : Nat]]]
  <2> HIDE DEF new
  <2> QED BY <1>2
<1>5. \A q \in Ranks : q # r => Book(q)' = Book(q)
  BY <1>3 DEF Book
<1>6. Book(r)' = Restaked(Book(r), s, n, p, a, AccScale)
  <2> DEFINE l2 == Restaked(Book(r), s, n, p, a, AccScale)
  <2>1. \A x \in Sellers : Book(r)'[x] = l2[x]
    BY <1>3 DEF Book, Restaked
  <2>2. Book(r)' = [x \in Sellers |-> Book(r)'[x]] /\ l2 = [x \in Sellers |-> l2[x]]
    BY DEF Book, Restaked
  <2> HIDE DEF l2
  <2>3. Book(r)' = l2
    BY <2>1, <2>2
  <2> QED BY <2>3 DEF l2
<1> QED BY <1>4, <1>5, <1>6 DEF a

\* What has been earned in all when it changes in one tranche.
LEMMA EarnedTouched ==
  ASSUME TrancheInv, NEW r \in Ranks, Earned(r)' \in Nat,
         \A q \in Ranks : q # r => Earned(q)' = Earned(q)
  PROVE  /\ \A q \in Ranks : Earned(q) \in Nat
         /\ EarnedInAll \in Nat
         /\ EarnedInAll' = EarnedInAll - Earned(r) + Earned(r)'
<1> DEFINE e == [q \in Ranks |-> Earned(q)]
           new == Earned(r)'
<1>1. \A q \in Ranks : Earned(q) \in Nat
  BY LedgerTypes DEF TrancheInv, TrancheOK, Earned
<1>2. e \in [Ranks -> Nat] /\ e[r] = Earned(r)
  BY <1>1
<1>3. [q \in Ranks |-> Earned(q)'] = [e EXCEPT ![r] = new]
  OBVIOUS
<1> HIDE DEF e, new
<1>4. Total([e EXCEPT ![r] = new]) = Total(e) - e[r] + new /\ Total(e) \in Nat
  <2>1. new \in Nat
    BY DEF new
  <2> QED BY <1>2, <2>1, PartiesFinite, TotalReplace, TotalType
<1> QED BY <1>1, <1>2, <1>3, <1>4 DEF EarnedInAll, e, new

\* What the ledgers say of a stake is what the contract computes.
LEMMA StakeFigures ==
  ASSUME TrancheInv, NEW r \in Ranks, NEW s \in Sellers
  PROVE  /\ Book(r)[s].stake = stake[r][s].shares /\ stake[r][s].shares \in Nat
         /\ stake[r][s].shares <= tranche[r].shares
         /\ Claims(Book(r), tranche[r].acc, AccScale)[s] =
              stake[r][s].claimable + Pending(r, s)
         /\ Claims(Book(r), tranche[r].acc, AccScale)[s] \in Nat
         /\ Pending(r, s) >= 0
<1> DEFINE l == Book(r)
           a == tranche[r].acc
<1>1. /\ IsLedger(Sellers, l, a, AccScale)
      /\ Total(StakesIn(l)) = tranche[r].shares
      /\ l[s].stake = stake[r][s].shares
      /\ stake[r][s].shares \in Nat /\ stake[r][s].debt \in Nat
      /\ a \in Nat
      /\ StakesIn(l)[s] = stake[r][s].shares
  BY DEF TrancheInv, TranchedTyped, TrancheOK, Book, StakesIn
<1>2. Claims(l, a, AccScale)[s] = stake[r][s].claimable + Pending(r, s)
  BY DEF Claims, Book, Pending, Granted
<1>3. Pending(r, s) >= 0
  <2> DEFINE c == stake[r][s].shares
             d == stake[r][s].debt
  <2>1. c \in Nat /\ d \in Nat /\ d * AccScale <= c * a
    BY <1>1 DEF IsLedger, Book
  <2> HIDE DEF c, d, a
  <2>2. (c * a) \div AccScale - d \in Nat
    BY <1>1, <2>1, ScaleTypes, Regrant
  <2> QED BY <2>2 DEF Pending, Granted, c, d, a
<1> HIDE DEF l, a
<1>4. StakesIn(l)[s] <= Total(StakesIn(l)) /\ Claims(l, a, AccScale)[s] \in Nat
  BY <1>1, LedgerTypes, TotalBoundsPoint, PartiesFinite
<1> QED BY <1>1, <1>2, <1>3, <1>4 DEF l, a

\* A deposit or a withdrawal: one stake, its tranche, the reserve and the tokens
\* move together.
LEMMA RestakeStep ==
  ASSUME TrancheInv, NEW r \in Ranks, NEW s \in Sellers,
         NEW n \in Nat, NEW c \in Nat, NEW m \in Nat, c <= m,
         stake' = Stake(r, s, n),
         tranche' = [tranche EXCEPT ![r] = [coll |-> c, shares |-> m, acc |-> tranche[r].acc]],
         m = tranche[r].shares - stake[r][s].shares + n,
         totalCollateral' = totalCollateral - tranche[r].coll + c,
         held' = held - tranche[r].coll + c,
         held' \in Nat, wallet' \in [Accounts -> Nat],
         roundedOff' = roundedOff + ((n * tranche[r].acc) % AccScale),
         UNCHANGED <<totalCover, feeAccrued, unbooked, paidOut>>
  PROVE  TrancheInv'
<1> DEFINE l == Book(r)
           a == tranche[r].acc
           p == Claims(l, a, AccScale)[s]
           rounding == (n * a) % AccScale
           row == [coll |-> c, shares |-> m, acc |-> a]
<1>1. /\ IsLedger(Sellers, l, a, AccScale)
      /\ Total(StakesIn(l)) = tranche[r].shares
      /\ a \in Nat /\ tranche[r].coll \in Nat /\ tranche[r].shares \in Nat
      /\ tranche \in [Ranks -> [coll : Nat, shares : Nat, acc : Nat]]
      /\ held \in Nat /\ unbooked \in Nat /\ totalCollateral \in Nat
      /\ feeAccrued \in Nat /\ roundedOff \in Nat
      /\ Reserve = totalCollateral
      /\ EarnedInAll <= Spare * AccScale + roundedOff
      /\ AccScale \in Nat \ {0}
  BY ScaleTypes DEF TrancheInv, TranchedTyped, TrancheOK
<1>2. /\ l[s].stake = stake[r][s].shares /\ p \in Nat
      /\ p = stake[r][s].claimable + Pending(r, s)
      /\ stake[r][s].shares \in Nat
  BY StakeFigures
<1>3. stake' = [stake EXCEPT ![r][s] =
                 [shares |-> n, debt |-> Granted(r, n), claimable |-> p]]
  BY <1>2 DEF Stake, DebtOf
<1> HIDE DEF p
<1>5. /\ l' = Restaked(l, s, n, p, a, AccScale)
      /\ \A q \in Ranks : q # r => Book(q)' = Book(q)
      /\ stake' \in [Ranks -> [Sellers -> [shares : Nat, debt : Nat, claimable : Nat]]]
  <2>1. p \in Nat
    BY <1>2
  <2>2. /\ Book(r)' = Restaked(Book(r), s, n, p, tranche[r].acc, AccScale)
        /\ \A q \in Ranks : q # r => Book(q)' = Book(q)
        /\ stake' \in [Ranks -> [Sellers -> [shares : Nat, debt : Nat, claimable : Nat]]]
    <3> HIDE DEF l, a, row, rounding
    <3> QED BY ONLY TrancheInv, r \in Ranks, s \in Sellers, n \in Nat, <2>1, <1>3, LedgerTouched, Zenon
  <2> QED BY <2>2
<1> HIDE DEF l, a
<1>4. rounding \in Nat
  <2>1. n * a \in Nat
    BY <1>1
  <2> QED BY <1>1, <2>1, GrantRounding
<1>6. /\ tranche' \in [Ranks -> [coll : Nat, shares : Nat, acc : Nat]]
      /\ tranche'[r] = row
      /\ \A q \in Ranks : q # r => tranche'[q] = tranche[q]
  BY <1>1 DEF a
<1>7. tranche[r].coll <= totalCollateral /\ Reserve' = Reserve - tranche[r].coll + c
  <2> DEFINE colls == [q \in Ranks |-> tranche[q].coll]
  <2>1. colls \in [Ranks -> Nat] /\ colls[r] = tranche[r].coll
    BY <1>1
  <2>2. [q \in Ranks |-> tranche'[q].coll] = [colls EXCEPT ![r] = c]
    BY <1>6
  <2> HIDE DEF colls
  <2>3. colls[r] <= Total(colls)
    BY <2>1, PartiesFinite, TotalBoundsPoint
  <2>4. Total([colls EXCEPT ![r] = c]) = Total(colls) - colls[r] + c
    BY <2>1, PartiesFinite, TotalReplace
  <2> QED BY <1>1, <2>1, <2>2, <2>3, <2>4 DEF Reserve, colls
<1>8. TranchedTyped'
  <2>1. totalCollateral' \in Nat /\ roundedOff' \in Nat
    BY <1>1, <1>4, <1>7 DEF a
  <2> QED BY <1>5, <1>6, <2>1 DEF TrancheInv, TranchedTyped
<1>9. Spare' = Spare /\ Reserve' = totalCollateral'
  BY <1>1, <1>7 DEF Spare
<1>10. /\ IsLedger(Sellers, l', a, AccScale)
       /\ Total(StakesIn(l')) = m
       /\ Total(Earnings(l', a, AccScale)) \in Nat
       /\ Total(Earnings(l', a, AccScale)) <= Total(Earnings(l, a, AccScale)) + rounding
  <2> DEFINE e == Total(Earnings(l, a, AccScale))
  <2>1. e \in Nat
    BY <1>1, LedgerTypes
  <2>2. Funded(l, a, AccScale, 0, e)
    BY <1>1, <2>1 DEF Funded
  <2> HIDE DEF e
  <2>3. /\ IsLedger(Sellers, l', a, AccScale)
        /\ Total(StakesIn(l')) = Total(StakesIn(l)) - l[s].stake + n
        /\ Funded(l', a, AccScale, 0, e + ((n * a) % AccScale))
    <3>1. /\ 0 \in Int /\ n \in Nat /\ s \in Sellers
          /\ IsLedger(Sellers, l, a, AccScale)
      BY <1>1
    <3>2. /\ IsLedger(Sellers, Restaked(l, s, n, p, a, AccScale), a, AccScale)
          /\ Total(StakesIn(Restaked(l, s, n, p, a, AccScale)))
               = Total(StakesIn(l)) - l[s].stake + n
          /\ Funded(Restaked(l, s, n, p, a, AccScale), a, AccScale, 0,
                    e + ((n * a) % AccScale))
      BY <2>2, <3>1, FundedRestake DEF p
    <3> QED BY <1>5, <3>2
  <2>4. Total(Earnings(l', a, AccScale)) \in Nat
    BY <2>3, LedgerTypes
  <2> QED BY <1>1, <1>2, <1>4, <2>1, <2>3, <2>4 DEF Funded, e
<1>11. \A q \in Ranks : TrancheOK(q)'
  <2>1. TrancheOK(r)'
    BY <1>6, <1>10 DEF TrancheOK, l
  <2>2. ASSUME NEW q \in Ranks, q # r PROVE TrancheOK(q)'
    BY <1>5, <1>6, <2>2 DEF TrancheInv, TrancheOK
  <2> QED BY <2>1, <2>2
<1>12. EarnedInAll' <= EarnedInAll + rounding /\ EarnedInAll \in Nat /\ EarnedInAll' \in Int
  <2>1. Earned(r)' = Total(Earnings(l', a, AccScale)) /\ Earned(r) = Total(Earnings(l, a, AccScale))
    BY <1>6 DEF Earned, l, a
  <2>2. \A q \in Ranks : q # r => Earned(q)' = Earned(q)
    BY <1>5, <1>6 DEF Earned
  <2>3. /\ Earned(r) \in Nat /\ EarnedInAll \in Nat
        /\ EarnedInAll' = EarnedInAll - Earned(r) + Earned(r)'
    BY <1>10, <2>1, <2>2, EarnedTouched
  <2> QED BY <1>4, <1>10, <2>1, <2>3
<1>13. EarnedInAll' <= Spare' * AccScale + roundedOff'
  <2>1. Spare \in Int /\ Spare * AccScale \in Int
    BY <1>1 DEF Spare
  <2>2. roundedOff' = roundedOff + rounding
    BY DEF a
  <2> QED BY <1>1, <1>4, <1>9, <1>12, <2>1, <2>2
<1> QED BY <1>8, <1>9, <1>11, <1>13 DEF TrancheInv

\* A deposit mints at least one share for a token, for a share is never worth more.
LEMMA MintedBounds ==
  ASSUME TrancheInv, NEW r \in Ranks, NEW amount \in Nat
  PROVE  Minted(r, amount) \in Nat /\ amount <= Minted(r, amount)
<1> DEFINE c == tranche[r].coll
           m == tranche[r].shares
<1>1. c \in Nat /\ m \in Nat /\ c <= m
  BY DEF TrancheInv, TranchedTyped, TrancheOK
<1>2. Minted(r, amount) = IF m = 0 \/ c = 0 THEN amount ELSE (amount * m) \div c
  BY DEF Minted
<1> HIDE DEF c, m
<1>3. amount * c <= amount * m /\ amount * m \in Nat
  BY <1>1, ProductMonotone
<1>4. CASE m = 0 \/ c = 0
  BY <1>2, <1>4
<1>5. CASE ~(m = 0 \/ c = 0)
  <2>1. (amount * m) \div c \in Nat /\ amount <= (amount * m) \div c
    BY <1>1, <1>3, <1>5, QuotientBounds
  <2> QED BY <1>2, <1>5, <2>1
<1> QED BY <1>4, <1>5

\* Burned shares return no more than the tranche has, and not so little that a
\* share would come to be worth more than a token.
LEMMA RedeemedBounds ==
  ASSUME TrancheInv, NEW r \in Ranks, NEW burn \in Nat,
         burn > 0, burn <= tranche[r].shares
  PROVE  /\ Redeemed(r, burn) \in 0..tranche[r].coll
         /\ tranche[r].coll - Redeemed(r, burn) <= tranche[r].shares - burn
<1> DEFINE c == tranche[r].coll
           m == tranche[r].shares
           x == burn * c
           k == burn - (m - c)
<1>1. c \in Nat /\ m \in Nat \ {0} /\ c <= m /\ burn <= m
  BY DEF TrancheInv, TranchedTyped, TrancheOK
<1>2. Redeemed(r, burn) = x \div m
  BY DEF Redeemed
<1> HIDE DEF c, m
<1>3. x \in Nat /\ x <= c * m
  <2>1. c * burn <= c * m
    BY <1>1, ProductMonotone
  <2>2. x = c * burn /\ x \in Nat
    BY <1>1
  <2> QED BY <2>1, <2>2
<1>4. CASE k \in Nat
  <2>1. PICK u \in Nat, v \in Nat : u = m - burn /\ v = m - c
    <3>1. m - burn \in Nat /\ m - c \in Nat
      BY <1>1
    <3> QED BY <3>1
  <2>2. burn = k + v /\ m = c + v /\ m = k + v + u /\ c = k + u
    BY <1>1, <2>1
  <2>3. x = k * c + v * c
    BY <1>1, <1>4, <2>1, <2>2
  <2>4. k * m = k * c + k * v
    BY <1>1, <1>4, <2>1, <2>2
  <2>5. v * k <= v * c
    BY <1>1, <1>4, <2>1, <2>2, ProductMonotone
  <2>6. k * m <= x
    <3>1. v * k = k * v /\ k * c \in Nat /\ v * c \in Nat /\ k * v \in Nat
      BY <1>1, <1>4, <2>1
    <3> QED BY <2>3, <2>4, <2>5, <3>1
  <2> HIDE DEF k, x
  <2>7. x \div m \in Nat /\ x \div m <= c /\ k <= x \div m
    BY <1>1, <1>3, <1>4, <2>6, QuotientBounds
  <2> QED BY <1>1, <1>2, <2>7 DEF c, m, k
<1>5. CASE k \notin Nat
  <2>1. k < 0
    BY <1>1, <1>5
  <2> HIDE DEF x
  <2>2. x \div m \in Nat /\ x \div m <= c
    BY <1>1, <1>3, QuotientBounds
  <2> QED BY <1>1, <1>2, <2>1, <2>2 DEF c, m, k
<1> QED BY <1>4, <1>5

-----------------------------------------------------------------------------
LEMMA DepositInv ==
  ASSUME TrancheInv, NEW s \in Sellers, NEW r \in Ranks, NEW amount \in Amounts,
         Deposit(s, r, amount)
  PROVE  TrancheInv' /\ totalCollateral' = totalCollateral + amount /\ paidOut' = paidOut
<1> DEFINE mint == Minted(r, amount)
           n == stake[r][s].shares + mint
           c == tranche[r].coll + amount
           m == tranche[r].shares + mint
<1>1. /\ amount \in Nat /\ s \in Accounts
      /\ tranche \in [Ranks -> [coll : Nat, shares : Nat, acc : Nat]]
      /\ tranche[r].coll \in Nat /\ tranche[r].shares \in Nat
      /\ tranche[r].coll <= tranche[r].shares
      /\ stake[r][s].shares \in Nat
      /\ wallet \in [Accounts -> Nat] /\ held \in Nat /\ totalCollateral \in Nat
  BY AmountsAssumption
  DEF Deposit, TrancheInv, TranchedTyped, TrancheOK, Accounts
<1>2. mint \in Nat /\ amount <= mint
  BY <1>1, MintedBounds
<1>3. /\ tranche' = [tranche EXCEPT ![r] =
                       [coll |-> c, shares |-> m, acc |-> tranche[r].acc]]
      /\ stake' = Stake(r, s, n)
      /\ totalCollateral' = totalCollateral + amount
      /\ held' = held + amount
      /\ wallet' = [wallet EXCEPT ![s] = wallet[s] - amount] /\ amount <= wallet[s]
      /\ roundedOff' = roundedOff + ((n * tranche[r].acc) % AccScale)
      /\ UNCHANGED <<totalCover, feeAccrued, unbooked, paidOut>>
  BY DEF Deposit, TransferIn, coverVars
<1> HIDE DEF mint
<1>4. /\ wallet' \in [Accounts -> Nat] /\ held' \in Nat
      /\ n \in Nat /\ c \in Nat /\ m \in Nat /\ c <= m
      /\ m = tranche[r].shares - stake[r][s].shares + n
      /\ totalCollateral' = totalCollateral - tranche[r].coll + c
      /\ held' = held - tranche[r].coll + c
  BY <1>1, <1>2, <1>3
<1>5. TrancheInv'
  BY <1>3, <1>4, RestakeStep
<1> QED BY <1>3, <1>5

\* A withdrawal leaves the cover in the transparent vault, and in the
\* confidential one what its proof was made for.
LEMMA WithdrawInv ==
  ASSUME TrancheInv, NEW s \in Sellers, NEW r \in Ranks, NEW burn \in Burns,
         Withdraw(s, r, burn)
  PROVE  /\ TrancheInv' /\ paidOut' = paidOut
         /\ Redeemed(r, burn) \in Nat
         /\ totalCollateral' = totalCollateral - Redeemed(r, burn)
<1> DEFINE back == Redeemed(r, burn)
           n == stake[r][s].shares - burn
           c == tranche[r].coll - back
           m == tranche[r].shares - burn
<1>1. /\ burn \in Nat /\ burn > 0 /\ burn <= stake[r][s].shares
      /\ s \in Accounts
      /\ tranche[r].coll \in Nat /\ tranche[r].shares \in Nat
      /\ stake[r][s].shares \in Nat /\ stake[r][s].shares <= tranche[r].shares
      /\ wallet \in [Accounts -> Nat] /\ held \in Nat /\ totalCollateral \in Nat
  BY AmountsAssumption, StakeFigures DEF Withdraw, TrancheInv, TranchedTyped, Accounts
<1>2. back \in 0..tranche[r].coll /\ c <= m
  BY <1>1, RedeemedBounds
<1>3. /\ tranche' = [tranche EXCEPT ![r] =
                       [coll |-> c, shares |-> m, acc |-> tranche[r].acc]]
      /\ stake' = Stake(r, s, n)
      /\ totalCollateral' = totalCollateral - back
      /\ held' = held - back /\ back <= held
      /\ wallet' = [wallet EXCEPT ![s] = wallet[s] + back]
      /\ roundedOff' = roundedOff + ((n * tranche[r].acc) % AccScale)
      /\ UNCHANGED <<totalCover, feeAccrued, unbooked, paidOut>>
  BY DEF Withdraw, TransferOut, coverVars
<1> HIDE DEF back
<1>4. /\ wallet' \in [Accounts -> Nat] /\ held' \in Nat
      /\ n \in Nat /\ c \in Nat /\ m \in Nat
      /\ m = tranche[r].shares - stake[r][s].shares + n
      /\ totalCollateral' = totalCollateral - tranche[r].coll + c
      /\ held' = held - tranche[r].coll + c
  BY <1>1, <1>2, <1>3
<1>5. TrancheInv'
  BY <1>2, <1>3, <1>4, RestakeStep
<1> QED BY <1>2, <1>3, <1>5 DEF back

\* A claim: the stake keeps its shares, and what it has earned leaves the vault.
LEMMA ClaimPremiumInv ==
  ASSUME TrancheInv, NEW s \in Sellers, NEW r \in Ranks, ClaimPremium(s, r)
  PROVE  TrancheInv'
<1> DEFINE l == Book(r)
           a == tranche[r].acc
           p == Claims(l, a, AccScale)[s]
           n == stake[r][s].shares
<1>1. /\ IsLedger(Sellers, l, a, AccScale)
      /\ Total(StakesIn(l)) = tranche[r].shares
      /\ l[s].stake = n /\ n \in Nat
      /\ p \in Nat /\ p = stake[r][s].claimable + Pending(r, s)
      /\ s \in Accounts
      /\ wallet \in [Accounts -> Nat] /\ held \in Nat /\ totalCollateral \in Nat
      /\ unbooked \in Nat /\ feeAccrued \in Nat /\ roundedOff \in Nat
      /\ AccScale \in Nat \ {0}
      /\ EarnedInAll <= Spare * AccScale + roundedOff
      /\ stake \in [Ranks -> [Sellers -> [shares : Nat, debt : Nat, claimable : Nat]]]
  BY StakeFigures, ScaleTypes DEF TrancheInv, TranchedTyped, TrancheOK, Accounts
<1>2. /\ stake' = [Stake(r, s, n) EXCEPT ![r][s].claimable = 0]
      /\ wallet' = [wallet EXCEPT ![s] = wallet[s] + p]
      /\ held' = held - p /\ p <= held
      /\ UNCHANGED <<tranche, totalCollateral, totalCover, feeAccrued, unbooked,
                     paidOut, roundedOff>>
  BY <1>1 DEF ClaimPremium, TransferOut, coverVars, historyVars
<1>3. stake' = [stake EXCEPT ![r][s] =
                 [shares |-> n, debt |-> Granted(r, n), claimable |-> 0]]
  <2> DEFINE kept == [shares |-> n, debt |-> Granted(r, n), claimable |-> p]
             rest == [shares |-> n, debt |-> Granted(r, n), claimable |-> 0]
             w == Stake(r, s, n)
  <2>1. w = [stake EXCEPT ![r] = [stake[r] EXCEPT ![s] = kept]]
    BY <1>1 DEF Stake, DebtOf
  <2> HIDE DEF w
  <2>2. w[r] = [stake[r] EXCEPT ![s] = kept] /\ w[r][s] = kept
    BY <1>1, <2>1
  <2>3. [kept EXCEPT !.claimable = 0] = rest
    OBVIOUS
  <2>4. stake' = [w EXCEPT ![r] = [w[r] EXCEPT ![s] = [w[r][s] EXCEPT !.claimable = 0]]]
    BY <1>2 DEF w
  <2> HIDE DEF kept, rest
  <2>5. stake' = [w EXCEPT ![r] = [stake[r] EXCEPT ![s] = rest]]
    <3>1. [w[r] EXCEPT ![s] = rest] = [stake[r] EXCEPT ![s] = rest]
      BY <1>1, <2>2
    <3> QED BY <2>2, <2>3, <2>4, <3>1
  <2>6. stake' = [stake EXCEPT ![r] = [stake[r] EXCEPT ![s] = rest]]
    BY <1>1, <2>1, <2>5
  <2> QED BY <2>6 DEF rest
<1> HIDE DEF p
<1>4. /\ l' = Restaked(l, s, n, 0, a, AccScale)
      /\ \A q \in Ranks : q # r => Book(q)' = Book(q)
      /\ stake' \in [Ranks -> [Sellers -> [shares : Nat, debt : Nat, claimable : Nat]]]
  <2>1. n \in Nat /\ 0 \in Nat
    BY <1>1
  <2>2. /\ Book(r)' = Restaked(Book(r), s, n, 0, tranche[r].acc, AccScale)
        /\ \A q \in Ranks : q # r => Book(q)' = Book(q)
        /\ stake' \in [Ranks -> [Sellers -> [shares : Nat, debt : Nat, claimable : Nat]]]
    <3> HIDE DEF l, a, n
    <3> QED BY ONLY TrancheInv, r \in Ranks, s \in Sellers, <2>1, <1>3, LedgerTouched, Zenon
  <2> QED BY <2>2
<1>5. /\ Earned(r) = Total(Earnings(l, a, AccScale))
      /\ Earned(r)' = Total(Earnings(l', a, AccScale))
      /\ \A q \in Ranks : q # r => Earned(q)' = Earned(q)
  BY <1>2, <1>4 DEF Earned
<1> HIDE DEF l, a, n
<1>6. /\ IsLedger(Sellers, l', a, AccScale)
      /\ Total(StakesIn(l')) = Total(StakesIn(l))
      /\ Total(Earnings(l', a, AccScale)) \in Nat
      /\ Total(Earnings(l', a, AccScale)) + p * AccScale <= Total(Earnings(l, a, AccScale))
  <2> DEFINE e == Total(Earnings(l, a, AccScale))
  <2>1. e \in Nat
    BY <1>1, LedgerTypes
  <2>2. Funded(l, a, AccScale, 0, e)
    BY <1>1, <2>1 DEF Funded
  <2> HIDE DEF e
  <2>3. /\ IsLedger(Sellers, l', a, AccScale)
        /\ Total(StakesIn(l')) = Total(StakesIn(l))
        /\ Funded(l', a, AccScale, 0 - p, e)
    <3>1. /\ IsLedger(Sellers, Restaked(l, s, l[s].stake, 0, a, AccScale), a, AccScale)
          /\ Total(StakesIn(Restaked(l, s, l[s].stake, 0, a, AccScale))) = Total(StakesIn(l))
          /\ Funded(Restaked(l, s, l[s].stake, 0, a, AccScale), a, AccScale, 0 - p, e)
      <4>1. IsLedger(Sellers, l, a, AccScale) /\ s \in Sellers
        BY <1>1
      <4> QED BY ONLY <4>1, <2>2, FundedClaim DEF p
    <3> QED BY <1>1, <1>4, <3>1
  <2>4. Total(Earnings(l', a, AccScale)) \in Nat
    BY <2>3, LedgerTypes
  <2>5. (0 - p) * AccScale = 0 - p * AccScale /\ p * AccScale \in Nat
    BY <1>1
  <2> QED BY <2>1, <2>3, <2>4, <2>5 DEF Funded, e
<1>7. /\ EarnedInAll \in Nat /\ Earned(r) \in Nat
      /\ EarnedInAll' = EarnedInAll - Earned(r) + Earned(r)'
  BY <1>5, <1>6, EarnedTouched
<1>8. EarnedInAll' <= Spare' * AccScale + roundedOff'
  <2>1. Spare' = Spare - p /\ Spare \in Int
    BY <1>1, <1>2 DEF Spare
  <2>2. /\ Spare * AccScale \in Int /\ p * AccScale \in Nat
        /\ (Spare - p) * AccScale = Spare * AccScale - p * AccScale
    BY <1>1, <2>1
  <2> QED BY <1>1, <1>2, <1>5, <1>6, <1>7, <2>1, <2>2
<1>9. TranchedTyped' /\ Reserve' = totalCollateral'
  BY <1>1, <1>2, <1>4 DEF TrancheInv, TranchedTyped, Reserve
<1>10. \A q \in Ranks : TrancheOK(q)'
  <2>1. TrancheOK(r)'
    BY <1>1, <1>2, <1>6 DEF TrancheInv, TrancheOK, l, a
  <2>2. ASSUME NEW q \in Ranks, q # r PROVE TrancheOK(q)'
    BY <1>2, <1>4, <2>2 DEF TrancheInv, TrancheOK
  <2> QED BY <2>1, <2>2
<1> QED BY <1>8, <1>9, <1>10 DEF TrancheInv

\* What the tranches accrue of a premium, and what is left of the sellers' part.
LEMMA CutsFit ==
  ASSUME TrancheInv, NEW premium \in Nat
  PROVE  LET cut == [r \in Ranks |-> IF r \in Accruing(premium)
                                     THEN Cut(r, premium) ELSE 0]
         IN  /\ cut \in [Ranks -> Nat]
             /\ Total(cut) \in Nat
             /\ ProtocolCut(premium) \in Nat /\ Stranded(premium) \in Nat
             /\ ProtocolCut(premium) + Stranded(premium) + Total(cut) = premium
<1> DEFINE cut == [r \in Ranks |-> IF r \in Accruing(premium)
                                   THEN Cut(r, premium) ELSE 0]
           part == SellersTotal(premium)
           all == [r \in Ranks |-> part * Weights[r]]
           none == [r \in Ranks |-> 0]
<1>1. ProtocolCut(premium) \in 0..premium
  <2>1. premium * ProtocolFeeBps \in Nat /\ premium * ProtocolFeeBps <= premium * BPS
    BY ScaleTypes, ProductMonotone
  <2>2. (premium * ProtocolFeeBps) \div BPS \in Nat
    BY <2>1, ScaleTypes, QuotientBounds
  <2>3. (premium * ProtocolFeeBps) \div BPS <= premium
    BY <2>1, ScaleTypes, QuotientBounds
  <2> QED BY <2>2, <2>3 DEF ProtocolCut
<1>2. part \in Nat /\ part = premium - ProtocolCut(premium)
  BY <1>1 DEF SellersTotal
<1> HIDE DEF part
<1>3. ASSUME NEW r \in Ranks
      PROVE  /\ part * Weights[r] \in Nat /\ Cut(r, premium) \in Nat
             /\ Cut(r, premium) * TotalWeight <= part * Weights[r]
  <2>1. part * Weights[r] \in Nat
    BY <1>2, ScaleTypes
  <2> QED BY <2>1, ScaleTypes, GrantRounding DEF Cut, part
<1>4. /\ cut \in [Ranks -> Nat] /\ all \in [Ranks -> Nat] /\ none \in [Ranks -> Nat]
      /\ \A r \in Ranks : cut[r] * TotalWeight <= all[r]
      /\ \A r \in Ranks : all[r] = none[r] + part * Weights[r]
      /\ \A r \in Ranks : none[r] = 0
  BY <1>3, ScaleTypes
<1> HIDE DEF all, none
<1>5. Total([r \in Accruing(premium) |-> Cut(r, premium)]) = Total(cut)
  <2>1. /\ \A r \in Ranks \ Accruing(premium) : cut[r] = 0
        /\ Accruing(premium) \in SUBSET Ranks
        /\ [r \in Accruing(premium) |-> Cut(r, premium)] = [r \in Accruing(premium) |-> cut[r]]
    BY DEF Accruing
  <2> HIDE DEF cut
  <2> QED BY <1>4, <2>1, TotalSupport
<1> HIDE DEF cut
<1>6. Total(cut) \in Nat /\ Total(cut) <= part
  <2>1. Total(cut) * TotalWeight <= Total(all)
    BY <1>4, ScaleTypes, PartiesFinite, TotalWorth
  <2>2. Total(all) = Total(none) + part * Total(Weights)
    <3>1. /\ IsFiniteSet(Ranks) /\ part \in Nat
          /\ all \in [Ranks -> Nat] /\ none \in [Ranks -> Nat] /\ Weights \in [Ranks -> Nat]
      BY <1>2, <1>4, ScaleTypes, PartiesFinite
    <3>2. \A r \in Ranks : all[r] = none[r] + part * Weights[r]
      BY <1>4
    <3> QED BY ONLY <3>1, <3>2, TotalLinear
  <2>3. Total(none) = 0 /\ Total(cut) \in Nat
    BY <1>4, PartiesFinite, TotalZero, TotalType
  <2>4. TotalWeight \in Nat \ {0} /\ TotalWeight = Total(Weights)
    BY ScaleTypes DEF TotalWeight
  <2>5. Total(cut) * TotalWeight <= part * TotalWeight
    BY <1>2, <2>1, <2>2, <2>3, <2>4
  <2>6. ASSUME part + 1 <= Total(cut) PROVE FALSE
    <3>1. TotalWeight * (part + 1) <= TotalWeight * Total(cut)
      BY <1>2, <2>3, <2>4, <2>6, ProductMonotone
    <3>2. /\ TotalWeight * (part + 1) = part * TotalWeight + TotalWeight
          /\ TotalWeight * Total(cut) = Total(cut) * TotalWeight
          /\ part * TotalWeight \in Nat /\ Total(cut) * TotalWeight \in Nat
      BY <1>2, <2>3, <2>4
    <3> QED BY <2>4, <2>5, <3>1, <3>2
  <2> QED BY <1>2, <2>3, <2>6
<1>7. Stranded(premium) = part - Total(cut)
  BY <1>5 DEF Stranded, part
<1> QED BY <1>1, <1>2, <1>4, <1>6, <1>7 DEF cut

\* A premium that is there is granted to the tranches with stakes, share by
\* share; the fee takes what none of them accrues.
LEMMA DistributeStep ==
  ASSUME TrancheInv, NEW premium \in Nat, Distribute(premium),
         held' - unbooked' = held - unbooked + premium,
         UNCHANGED <<stake, totalCollateral, roundedOff>>
  PROVE  /\ tranche' \in [Ranks -> [coll : Nat, shares : Nat, acc : Nat]]
         /\ feeAccrued' \in Nat
         /\ \A r \in Ranks : TrancheOK(r)'
         /\ Reserve' = Reserve
         /\ EarnedInAll' <= Spare' * AccScale + roundedOff'
<1> DEFINE cut == [r \in Ranks |-> IF r \in Accruing(premium)
                                   THEN Cut(r, premium) ELSE 0]
           k == [r \in Ranks |-> IF r \in Accruing(premium)
                   THEN (Cut(r, premium) * AccScale) \div tranche[r].shares ELSE 0]
<1>1. /\ cut \in [Ranks -> Nat] /\ Total(cut) \in Nat
      /\ ProtocolCut(premium) \in Nat /\ Stranded(premium) \in Nat
      /\ ProtocolCut(premium) + Stranded(premium) + Total(cut) = premium
  BY CutsFit
<1>2. /\ tranche \in [Ranks -> [coll : Nat, shares : Nat, acc : Nat]]
      /\ held \in Nat /\ unbooked \in Nat /\ totalCollateral \in Nat
      /\ feeAccrued \in Nat /\ roundedOff \in Nat
      /\ AccScale \in Nat \ {0}
      /\ EarnedInAll <= Spare * AccScale + roundedOff
  BY ScaleTypes DEF TrancheInv, TranchedTyped
<1>3. /\ feeAccrued' = feeAccrued + ProtocolCut(premium) + Stranded(premium)
      /\ tranche' = [r \in Ranks |->
           IF r \in Accruing(premium)
           THEN [tranche[r] EXCEPT
                   !.acc = @ + (Cut(r, premium) * AccScale) \div tranche[r].shares]
           ELSE tranche[r]]
  BY DEF Distribute
<1>4. ASSUME NEW r \in Ranks
      PROVE  /\ k[r] \in Nat /\ k[r] * tranche[r].shares <= cut[r] * AccScale
             /\ tranche'[r] = [coll |-> tranche[r].coll, shares |-> tranche[r].shares,
                               acc |-> tranche[r].acc + k[r]]
  <2>1. tranche[r] = [coll |-> tranche[r].coll, shares |-> tranche[r].shares,
                      acc |-> tranche[r].acc] /\ tranche[r].acc \in Nat
        /\ tranche[r].shares \in Nat
    BY <1>2
  <2>2. CASE r \in Accruing(premium)
    <3> DEFINE grant == (Cut(r, premium) * AccScale) \div tranche[r].shares
    <3>1. cut[r] = Cut(r, premium) /\ cut[r] \in Nat /\ tranche[r].shares \in Nat \ {0}
      BY <1>1, <2>1, <2>2 DEF Accruing
    <3>2. grant \in Nat /\ grant * tranche[r].shares <= cut[r] * AccScale
      BY <1>2, <3>1, PerShareFunded
    <3>3. k[r] = grant /\ tranche'[r] = [tranche[r] EXCEPT !.acc = @ + grant]
      BY <1>3, <2>2
    <3> HIDE DEF grant, k, cut
    <3> QED BY <2>1, <3>2, <3>3
  <2>3. CASE r \notin Accruing(premium)
    <3>1. k[r] = 0 /\ cut[r] = 0 /\ tranche'[r] = tranche[r]
      BY <1>3, <2>3
    <3> HIDE DEF k, cut
    <3> QED BY <1>2, <2>1, <3>1
  <2> QED BY <2>2, <2>3
<1> HIDE DEF k, cut
<1>11. \A r \in Ranks : k[r] \in Nat
  BY <1>4
<1>12. ASSUME NEW r \in Ranks
       PROVE  /\ tranche'[r].coll = tranche[r].coll
              /\ tranche'[r].shares = tranche[r].shares
              /\ tranche'[r].acc = tranche[r].acc + k[r]
  <2>1. tranche'[r] = [coll |-> tranche[r].coll, shares |-> tranche[r].shares,
                       acc |-> tranche[r].acc + k[r]]
    BY <1>4
  <2> QED BY ONLY <2>1
<1>13. \A r \in Ranks : tranche[r].coll \in Nat /\ tranche[r].shares \in Nat /\ tranche[r].acc \in Nat
  BY <1>2
<1>5. tranche' \in [Ranks -> [coll : Nat, shares : Nat, acc : Nat]]
  <2>1. tranche' = [r \in Ranks |-> tranche'[r]]
    BY <1>3
  <2>2. ASSUME NEW r \in Ranks
        PROVE  tranche'[r] \in [coll : Nat, shares : Nat, acc : Nat]
    <3>1. tranche[r].coll \in Nat /\ tranche[r].shares \in Nat /\ tranche[r].acc + k[r] \in Nat
      BY <1>11, <1>13
    <3>2. tranche'[r] = [coll |-> tranche[r].coll, shares |-> tranche[r].shares,
                         acc |-> tranche[r].acc + k[r]]
      BY <1>4
    <3> QED BY <3>1, <3>2
  <2> QED BY <2>1, <2>2
<1>14. stake' = stake
  OBVIOUS
<1>6. /\ \A r \in Ranks : Book(r)' = Book(r)
      /\ Reserve' = Reserve
  <2>1. \A r \in Ranks : Book(r)' = Book(r)
    BY <1>14 DEF Book
  <2>2. [r \in Ranks |-> tranche'[r].coll] = [r \in Ranks |-> tranche[r].coll]
    BY <1>12
  <2> QED BY <2>1, <2>2 DEF Reserve
<1>7. ASSUME NEW r \in Ranks
      PROVE  /\ TrancheOK(r)'
             /\ Earned(r) \in Nat /\ Earned(r)' \in Nat
             /\ Earned(r)' <= Earned(r) + AccScale * cut[r]
  <2> DEFINE l == Book(r)
             a == tranche[r].acc
             d == k[r]
  <2>1. /\ IsLedger(Sellers, l, a, AccScale)
        /\ Total(StakesIn(l)) = tranche[r].shares
        /\ d \in Nat /\ a \in Nat /\ tranche[r].shares \in Nat
    BY <1>2, <1>4 DEF TrancheInv, TrancheOK
  <2>2. /\ Earned(r) = Total(Earnings(l, a, AccScale))
        /\ Earned(r)' = Total(Earnings(l, a + d, AccScale))
    <3>1. Book(r)' = Book(r) /\ tranche'[r].acc = tranche[r].acc + k[r]
      BY <1>6, <1>12
    <3> QED BY <3>1 DEF Earned
  <2> HIDE DEF l, a, d
  <2>3. /\ IsLedger(Sellers, l, a + d, AccScale)
        /\ Total(Earnings(l, a + d, AccScale)) =
             Total(Earnings(l, a, AccScale)) + d * Total(StakesIn(l))
    BY ONLY <2>1, LedgerGrant
  <2>4. Earned(r) \in Nat /\ Earned(r)' \in Nat
    BY <2>1, <2>2, <2>3, LedgerTypes
  <2>5. d * tranche[r].shares <= AccScale * cut[r]
    <3>1. cut[r] * AccScale = AccScale * cut[r]
      BY <1>1, <1>2
    <3> QED BY <1>4, <3>1 DEF d
  <2>6. d * tranche[r].shares \in Nat /\ AccScale * cut[r] \in Nat
    BY <1>1, <1>2, <2>1
  <2>7. TrancheOK(r)'
    <3>1. /\ Book(r)' = l /\ tranche'[r].acc = a + d
          /\ tranche'[r].shares = tranche[r].shares /\ tranche'[r].coll = tranche[r].coll
          /\ tranche[r].coll <= tranche[r].shares
      BY <1>6, <1>12 DEF TrancheInv, TrancheOK, l, a, d
    <3> QED BY <2>1, <2>3, <3>1 DEF TrancheOK
  <2> QED BY <2>1, <2>2, <2>3, <2>4, <2>5, <2>6, <2>7
<1>8. EarnedInAll' <= EarnedInAll + AccScale * Total(cut) /\ EarnedInAll \in Nat /\ EarnedInAll' \in Nat
  <2> DEFINE e == [r \in Ranks |-> Earned(r)]
             e2 == [r \in Ranks |-> Earned(r)']
             h == [r \in Ranks |-> Earned(r) + AccScale * cut[r]]
  <2>1. /\ e \in [Ranks -> Nat] /\ e2 \in [Ranks -> Nat] /\ h \in [Ranks -> Nat]
        /\ \A r \in Ranks : e2[r] <= h[r]
        /\ \A r \in Ranks : h[r] = e[r] + AccScale * cut[r]
    <3>1. \A r \in Ranks : AccScale * cut[r] \in Nat
      BY <1>1, <1>2
    <3> QED BY <1>7, <3>1
  <2>2. EarnedInAll = Total(e) /\ EarnedInAll' = Total(e2)
    BY DEF EarnedInAll
  <2> HIDE DEF e, e2, h
  <2>3. Total(e2) <= Total(h)
    BY <2>1, PartiesFinite, TotalMonotone
  <2>4. Total(h) = Total(e) + AccScale * Total(cut)
    <3>1. /\ IsFiniteSet(Ranks) /\ AccScale \in Nat
          /\ h \in [Ranks -> Nat] /\ e \in [Ranks -> Nat] /\ cut \in [Ranks -> Nat]
      BY <1>1, <1>2, <2>1, PartiesFinite
    <3>2. \A r \in Ranks : h[r] = e[r] + AccScale * cut[r]
      BY <2>1
    <3> QED BY ONLY <3>1, <3>2, TotalLinear
  <2>5. Total(e) \in Nat /\ Total(e2) \in Nat
    BY <2>1, PartiesFinite, TotalType
  <2> QED BY <2>2, <2>3, <2>4, <2>5
<1>9. EarnedInAll' <= Spare' * AccScale + roundedOff'
  <2>1. Spare' = Spare + Total(cut) /\ Spare \in Int
    <3>1. Spare' = held' - unbooked' - (totalCollateral + feeAccrued')
      BY DEF Spare
    <3> QED BY <1>1, <1>2, <1>3, <3>1 DEF Spare
  <2>2. /\ Spare * AccScale \in Int /\ AccScale * Total(cut) \in Nat
        /\ (Spare + Total(cut)) * AccScale = Spare * AccScale + AccScale * Total(cut)
    BY <1>1, <1>2, <2>1
  <2> QED BY <1>2, <1>8, <2>1, <2>2
<1>10. feeAccrued' \in Nat
  BY <1>1, <1>2, <1>3
<1> QED BY <1>5, <1>6, <1>7, <1>9, <1>10

\* A premium that a buyer pays, if any, and that is granted at once.
LEMMA PremiumPaid ==
  ASSUME TrancheInv, NEW b \in Accounts, NEW premium \in Int,
         TransferIn(b, premium),
         IF premium > 0 THEN Distribute(premium) ELSE UNCHANGED <<tranche, feeAccrued>>,
         totalCover' \in Nat,
         UNCHANGED <<stake, totalCollateral, unbooked, historyVars>>
  PROVE  TrancheInv'
<1>1. /\ premium \in Nat /\ premium <= wallet[b]
      /\ wallet \in [Accounts -> Nat] /\ held \in Nat /\ unbooked \in Nat
      /\ wallet' = [wallet EXCEPT ![b] = wallet[b] - premium]
      /\ held' = held + premium
      /\ stake \in [Ranks -> [Sellers -> [shares : Nat, debt : Nat, claimable : Nat]]]
      /\ totalCollateral \in Nat /\ paidOut \in Nat /\ roundedOff \in Nat
  BY DEF TransferIn, TrancheInv, TranchedTyped
<1>2. wallet' \in [Accounts -> Nat] /\ held' \in Nat
  <2>1. wallet[b] - premium \in Nat
    BY <1>1
  <2> QED BY <1>1, <2>1
<1>3. UNCHANGED <<stake, totalCollateral, unbooked, paidOut, roundedOff>>
  BY DEF historyVars
<1>4. CASE premium > 0
  <2>1. held' - unbooked' = held - unbooked + premium
    BY <1>1, <1>3
  <2>2. /\ tranche' \in [Ranks -> [coll : Nat, shares : Nat, acc : Nat]]
        /\ feeAccrued' \in Nat
        /\ \A r \in Ranks : TrancheOK(r)'
        /\ Reserve' = Reserve
        /\ EarnedInAll' <= Spare' * AccScale + roundedOff'
    <3>1. Distribute(premium) /\ UNCHANGED <<stake, totalCollateral, roundedOff>>
      BY <1>3, <1>4
    <3>2. premium \in Nat
      BY <1>1
    <3> QED BY ONLY TrancheInv, <2>1, <3>1, <3>2, DistributeStep, Zenon
  <2>3. TranchedTyped'
    BY <1>1, <1>2, <1>3, <2>2 DEF TranchedTyped
  <2>4. Reserve' = totalCollateral'
    BY <1>3, <2>2 DEF TrancheInv
  <2> QED BY <2>2, <2>3, <2>4 DEF TrancheInv
<1>5. CASE ~(premium > 0)
  <2>1. premium = 0 /\ UNCHANGED <<tranche, feeAccrued>>
    BY <1>1, <1>5
  <2>2. held' = held
    BY <1>1, <2>1
  <2>3. TranchedTyped'
    BY <1>2, <1>3, <2>1 DEF TrancheInv, TranchedTyped
  <2>4. /\ \A r \in Ranks : Book(r)' = Book(r)
        /\ Reserve' = Reserve /\ Spare' = Spare
    BY <1>3, <2>1, <2>2 DEF Book, Reserve, Spare
  <2>5. EarnedInAll' = EarnedInAll
    BY <2>1, <2>4 DEF EarnedInAll, Earned
  <2>6. \A r \in Ranks : TrancheOK(r)'
    BY <2>1, <2>4 DEF TrancheInv, TrancheOK
  <2> QED BY <1>3, <2>3, <2>4, <2>5, <2>6 DEF TrancheInv
<1> QED BY <1>4, <1>5

\* Tokens that come in unbooked, or that leave with the fee they pay.
LEMMA SpareKept ==
  ASSUME TrancheInv,
         UNCHANGED <<tranche, stake, totalCollateral, roundedOff, paidOut>>,
         held' \in Nat, unbooked' \in Nat, feeAccrued' \in Nat, totalCover' \in Nat,
         wallet' \in [Accounts -> Nat],
         held' + unbooked + feeAccrued = held + unbooked' + feeAccrued'
  PROVE  TrancheInv'
<1>1. TranchedTyped'
  BY DEF TrancheInv, TranchedTyped
<1>2. Spare' = Spare
  <2>1. /\ held \in Nat /\ unbooked \in Nat /\ feeAccrued \in Nat
        /\ totalCollateral \in Nat /\ totalCollateral' = totalCollateral
        /\ held' \in Nat /\ unbooked' \in Nat /\ feeAccrued' \in Nat
        /\ held' + unbooked + feeAccrued = held + unbooked' + feeAccrued'
    BY DEF TrancheInv, TranchedTyped
  <2>2. Spare' = held' - unbooked' - (totalCollateral' + feeAccrued')
    BY DEF Spare
  <2>3. held' - unbooked' - (totalCollateral' + feeAccrued')
          = held - unbooked - (totalCollateral + feeAccrued)
    <3>1. PICK h \in Nat, u \in Nat, f \in Nat :
            h = held' /\ u = unbooked' /\ f = feeAccrued'
      BY <2>1
    <3>2. h + unbooked + feeAccrued = held + u + f
      BY <2>1, <3>1
    <3>3. h - u - (totalCollateral + f) = held - unbooked - (totalCollateral + feeAccrued)
      BY <2>1, <3>2
    <3> QED BY <2>1, <3>1, <3>3
  <2> QED BY <2>2, <2>3 DEF Spare
<1>3. tranche' = tranche /\ stake' = stake
  OBVIOUS
<1>4. (\A r \in Ranks : Book(r)' = Book(r)) /\ Reserve' = Reserve
  BY <1>3 DEF Book, Reserve
<1>5. EarnedInAll' = EarnedInAll
  BY <1>3, <1>4 DEF EarnedInAll, Earned
<1>6. \A r \in Ranks : TrancheOK(r)'
  BY <1>3, <1>4 DEF TrancheInv, TrancheOK
<1> QED BY <1>1, <1>2, <1>4, <1>5, <1>6 DEF TrancheInv

LEMMA PremiumOfType ==
  ASSUME NEW cover \in Nat PROVE PremiumOf(cover) \in Nat
<1>1. cover * PremiumBps \in Nat
  BY ScaleTypes
<1> QED BY <1>1, ScaleTypes, QuotientBounds DEF PremiumOf

LEMMA BuyProtectionInv ==
  ASSUME TrancheInv, NEW b \in Buyers, NEW cover \in Covers, BuyProtection(b, cover)
  PROVE  TrancheInv' /\ totalCover' <= totalCollateral'
<1>1. /\ cover \in Nat /\ b \in Accounts /\ totalCover \in Nat
  BY AmountsAssumption DEF BuyProtection, Accounts, TrancheInv, TranchedTyped
<1>2. PremiumOf(cover) \in Nat
  BY <1>1, PremiumOfType
<1> DEFINE premium == PremiumOf(cover)
<1>3. /\ TransferIn(b, premium)
      /\ IF premium > 0 THEN Distribute(premium) ELSE UNCHANGED <<tranche, feeAccrued>>
      /\ UNCHANGED <<stake, totalCollateral, unbooked, historyVars>>
      /\ totalCover' = totalCover + cover /\ totalCover + cover <= totalCollateral
  BY DEF BuyProtection
<1>4. premium \in Int /\ totalCover' \in Nat
  BY <1>1, <1>2, <1>3
<1> HIDE DEF premium
<1>5. TrancheInv'
  BY ONLY TrancheInv, <1>1, <1>3, <1>4, PremiumPaid
<1> QED BY <1>3, <1>5

LEMMA SendPremiumInv ==
  ASSUME TrancheInv, NEW amount \in Amounts, SendPremium(amount)
  PROVE  TrancheInv'
<1>1. /\ amount \in Nat /\ amount <= wallet[Admin]
      /\ wallet' = [wallet EXCEPT ![Admin] = wallet[Admin] - amount]
      /\ held' = held + amount /\ unbooked' = unbooked + amount
      /\ UNCHANGED <<tranche, stake, totalCollateral, roundedOff, paidOut, feeAccrued, totalCover>>
  BY AmountsAssumption DEF SendPremium, TransferIn, historyVars, coverVars
<1>2. /\ wallet \in [Accounts -> Nat] /\ held \in Nat /\ unbooked \in Nat
      /\ feeAccrued \in Nat /\ totalCover \in Nat /\ Admin \in Accounts
  BY DEF TrancheInv, TranchedTyped, Accounts
<1>3. wallet' \in [Accounts -> Nat]
  <2>1. wallet[Admin] - amount \in Nat
    BY <1>1, <1>2
  <2> QED BY <1>1, <1>2, <2>1
<1> QED BY <1>1, <1>2, <1>3, SpareKept

LEMMA ReceivePremiumInv ==
  ASSUME TrancheInv, NEW amount \in Amounts, ReceivePremium(amount)
  PROVE  TrancheInv'
<1>1. /\ amount \in Nat /\ amount <= unbooked
      /\ unbooked' = unbooked - amount
      /\ Distribute(amount)
      /\ UNCHANGED <<stake, totalCollateral, roundedOff, paidOut, held, wallet, totalCover>>
  BY AmountsAssumption DEF ReceivePremium, tokenVars, historyVars, coverVars
<1>2. held \in Nat /\ unbooked \in Nat
  BY DEF TrancheInv, TranchedTyped
<1>3. held' - unbooked' = held - unbooked + amount /\ unbooked' \in Nat
  BY <1>1, <1>2
<1>4. /\ tranche' \in [Ranks -> [coll : Nat, shares : Nat, acc : Nat]]
      /\ feeAccrued' \in Nat
      /\ \A r \in Ranks : TrancheOK(r)'
      /\ Reserve' = Reserve
      /\ EarnedInAll' <= Spare' * AccScale + roundedOff'
  <2>1. UNCHANGED <<stake, totalCollateral, roundedOff>>
    BY <1>1
  <2>2. amount \in Nat /\ Distribute(amount) /\ held' - unbooked' = held - unbooked + amount
    BY <1>1, <1>3
  <2> QED BY ONLY TrancheInv, <2>1, <2>2, DistributeStep, Zenon
<1>5. TranchedTyped'
  BY <1>1, <1>3, <1>4 DEF TrancheInv, TranchedTyped
<1>6. Reserve' = totalCollateral'
  BY <1>1, <1>4 DEF TrancheInv
<1> QED BY <1>4, <1>5, <1>6 DEF TrancheInv

LEMMA ClaimProtocolFeeInv ==
  ASSUME TrancheInv, ClaimProtocolFee
  PROVE  TrancheInv'
<1>1. /\ feeAccrued <= held
      /\ wallet' = [wallet EXCEPT ![Admin] = wallet[Admin] + feeAccrued]
      /\ held' = held - feeAccrued /\ feeAccrued' = 0
      /\ UNCHANGED <<tranche, stake, totalCollateral, roundedOff, paidOut, unbooked, totalCover>>
  BY DEF ClaimProtocolFee, TransferOut, historyVars, coverVars
<1>2. /\ wallet \in [Accounts -> Nat] /\ held \in Nat /\ unbooked \in Nat
      /\ feeAccrued \in Nat /\ totalCover \in Nat /\ Admin \in Accounts
  BY DEF TrancheInv, TranchedTyped, Accounts
<1>3. wallet' \in [Accounts -> Nat]
  <2>1. wallet[Admin] + feeAccrued \in Nat
    BY <1>2
  <2> QED BY <1>1, <1>2, <2>1
<1> QED BY <1>1, <1>2, <1>3, SpareKept

LEMMA SetWindowInv ==
  ASSUME TrancheInv, NEW open \in BOOLEAN, SetWindow(open)
  PROVE  TrancheInv'
<1>1. UNCHANGED <<tranche, stake, totalCollateral, roundedOff, paidOut, unbooked,
                  totalCover, feeAccrued, held, wallet>>
  BY DEF SetWindow, tokenVars, historyVars
<1>2. /\ wallet \in [Accounts -> Nat] /\ held \in Nat /\ unbooked \in Nat
      /\ feeAccrued \in Nat /\ totalCover \in Nat
  BY DEF TrancheInv, TranchedTyped
<1> QED BY <1>1, <1>2, SpareKept

-----------------------------------------------------------------------------
\* A loss taken from the first summand on, each giving what it has, is taken
\* whole: the sum absorbed before any place is the loss, or all there is.
LEMMA LossAbsorbed ==
  ASSUME NEW S \in SUBSET Nat, IsFiniteSet(S), NEW c \in [S -> Nat],
         NEW loss \in Nat, loss <= Total(c), NEW a \in [S -> Nat],
         \A r \in S :
           LET below == Total([q \in {x \in S : x < r} |-> c[q]])
           IN  a[r] = IF loss > below THEN Lesser(c[r], loss - below) ELSE 0
  PROVE  Total(a) = loss
<1> DEFINE Before(m) == {x \in S : x < m}
           Part(f, m) == Total([q \in Before(m) |-> f[q]])
           Bad(m) == Part(a, m) # Lesser(loss, Part(c, m))
           T == {m \in Nat : Bad(m)}
<1>1. ASSUME NEW m \in Nat
      PROVE  /\ IsFiniteSet(Before(m))
             /\ \A f \in [S -> Nat] : [q \in Before(m) |-> f[q]] \in [Before(m) -> Nat]
             /\ \A f \in [S -> Nat] : Part(f, m) \in Nat
  <2>1. Before(m) \in SUBSET S
    OBVIOUS
  <2>2. IsFiniteSet(Before(m))
    BY <2>1, FS_Subset
  <2>3. ASSUME NEW f \in [S -> Nat]
        PROVE  [q \in Before(m) |-> f[q]] \in [Before(m) -> Nat] /\ Part(f, m) \in Nat
    <3>1. [q \in Before(m) |-> f[q]] \in [Before(m) -> Nat]
      OBVIOUS
    <3> HIDE DEF Before
    <3> QED BY <2>2, <3>1, TotalType
  <2> QED BY <2>2, <2>3
<1>2. ASSUME NEW m \in Nat, NEW f \in [S -> Nat], m \in S
      PROVE  Part(f, m + 1) = Part(f, m) + f[m]
  <2> DEFINE B == Before(m)
             g == [q \in B \cup {m} |-> f[q]]
             h == [q \in B |-> f[q]]
  <2>1. Before(m + 1) = B \cup {m} /\ m \notin B
    <3>1. \A x \in Nat : x < m + 1 <=> x < m \/ x = m
      OBVIOUS
    <3>2. ~(m < m)
      OBVIOUS
    <3>3. ASSUME NEW y PROVE y \in Before(m + 1) <=> y \in B \cup {m}
      <4>1. y \in S => y \in Nat
        OBVIOUS
      <4> QED BY <1>2, <3>1, <4>1
    <3>4. m \notin B
      BY <3>2
    <3> HIDE DEF Before, B
    <3> QED BY <3>3, <3>4
  <2>2. IsFiniteSet(B) /\ h \in [B -> Nat]
    BY <1>1
  <2>3. g \in [B \cup {m} -> Nat] /\ g[m] = f[m] /\ \A y \in B : g[y] = h[y]
    BY <1>2
  <2>4. Part(f, m + 1) = Total(g) /\ Part(f, m) = Total(h)
    BY <2>1
  <2> HIDE DEF B, g, h, Part
  <2>5. Total(g) = Total(h) + g[m]
    <3>1. m \notin B
      BY <2>1
    <3> QED BY ONLY <2>2, <2>3, <3>1, TotalExtend
  <2> QED BY <2>3, <2>4, <2>5
<1>3. ASSUME NEW m \in Nat, NEW f \in [S -> Nat], m \notin S
      PROVE  Part(f, m + 1) = Part(f, m)
  <2>1. \A x \in S : x < m + 1 <=> x < m
    <3>1. \A x \in S : x # m /\ x \in Nat
      BY <1>3
    <3> QED BY <3>1
  <2>2. Before(m + 1) = Before(m)
    BY <2>1
  <2> QED BY <2>2
<1>4. \A f \in [S -> Nat] : Part(f, 0) = 0
  <2>1. ASSUME NEW f \in [S -> Nat] PROVE Part(f, 0) = 0
    <3>0. \A x \in S : x \in Nat /\ ~(x < 0)
      OBVIOUS
    <3>1. Before(0) = {} /\ 0 \in Nat
      BY <3>0
    <3>2. /\ IsFiniteSet(Before(0))
          /\ [q \in Before(0) |-> f[q]] \in [Before(0) -> Nat]
      BY <1>1, <3>1
    <3> HIDE DEF Before
    <3> QED BY <3>1, <3>2, TotalZero
  <2> QED BY <2>1
<1>5. \A r \in S : a[r] = IF loss > Part(c, r) THEN Lesser(c[r], loss - Part(c, r)) ELSE 0
  OBVIOUS
<1> HIDE DEF Part
<1>6. T = {}
  <2>1. SUFFICES ASSUME T # {} PROVE FALSE
    OBVIOUS
  <2>2. PICK m \in T : \A x \in T : m <= x
    <3>1. T \in SUBSET Nat
      OBVIOUS
    <3> HIDE DEF T
    <3> QED BY <2>1, <3>1, LeastNatural
  <2>3. m \in Nat /\ Bad(m)
    OBVIOUS
  <2>4. m # 0
    BY <1>4, <2>3 DEF Lesser
  <2>5. PICK n \in Nat : m = n + 1
    <3>1. m - 1 \in Nat /\ m = (m - 1) + 1
      BY <2>3, <2>4
    <3> QED BY <3>1
  <2>6. ~Bad(n)
    <3>1. ~(m <= n)
      BY <2>5
    <3>2. n \notin T
      BY <2>2, <3>1
    <3> QED BY <3>2
  <2>7. /\ Part(a, n) \in Nat /\ Part(c, n) \in Nat
        /\ Part(a, n) = IF loss > Part(c, n) THEN Part(c, n) ELSE loss
    BY <1>1, <2>6 DEF Lesser
  <2>8. Part(a, n + 1) # (IF loss > Part(c, n + 1) THEN Part(c, n + 1) ELSE loss)
    BY <2>3, <2>5 DEF Lesser
  <2>9. CASE n \in S
    <3>1. Part(a, n + 1) = Part(a, n) + a[n] /\ Part(c, n + 1) = Part(c, n) + c[n]
      BY <1>2, <2>9
    <3>2. a[n] = IF loss > Part(c, n)
                 THEN IF c[n] > loss - Part(c, n) THEN loss - Part(c, n) ELSE c[n]
                 ELSE 0
      BY <1>5, <2>9 DEF Lesser
    <3>3. c[n] \in Nat /\ a[n] \in Nat
      BY <2>9
    <3> QED BY <2>7, <2>8, <3>1, <3>2, <3>3
  <2>10. CASE n \notin S
    BY <1>3, <2>7, <2>8, <2>10
  <2> QED BY <2>9, <2>10
<1>7. PICK top \in Nat : \A x \in S : x < top
  <2> DEFINE id == [x \in S |-> x]
  <2>1. id \in [S -> Nat] /\ \A x \in S : id[x] = x
    OBVIOUS
  <2> HIDE DEF id
  <2>2. Total(id) \in Nat /\ \A x \in S : x <= Total(id)
    BY <2>1, TotalType, TotalBoundsPoint
  <2>3. Total(id) + 1 \in Nat /\ \A x \in S : x < Total(id) + 1
    <3>1. \A x \in S : x \in Nat
      OBVIOUS
    <3> QED BY <2>2, <3>1
  <2> QED BY <2>3
<1>8. Part(a, top) = Total(a) /\ Part(c, top) = Total(c)
  <2>1. Before(top) = S
    BY <1>7
  <2>2. a = [q \in S |-> a[q]] /\ c = [q \in S |-> c[q]]
    OBVIOUS
  <2> QED BY <2>1, <2>2 DEF Part
<1>9. Part(a, top) = Lesser(loss, Part(c, top))
  BY <1>6
<1>10. Total(c) \in Nat
  BY TotalType
<1> QED BY <1>8, <1>9, <1>10 DEF Lesser

\* What the tranches below a rank hold.
LEMMA BelowType ==
  ASSUME TrancheInv, NEW r \in Ranks
  PROVE  /\ Below(r) \in Nat
         /\ \A q \in Ranks : q < r => Below(q) + tranche[q].coll <= Below(r)
<1> DEFINE c == [q \in Ranks |-> tranche[q].coll]
           Before(m) == {x \in Ranks : x < m}
           Part(m) == [q \in Before(m) |-> c[q]]
<1>1. c \in [Ranks -> Nat] /\ Ranks \subseteq Nat
  BY TranchedAssumption DEF TrancheInv, TranchedTyped
<1>2. \A m \in Ranks : Below(m) = Total(Part(m))
  BY DEF Below
<1> HIDE DEF c
<1>3. ASSUME NEW m \in Ranks
      PROVE  IsFiniteSet(Before(m)) /\ Part(m) \in [Before(m) -> Nat]
  <2>1. IsFiniteSet(Before(m))
    BY PartiesFinite, FS_Subset
  <2> QED BY <1>1, <2>1
<1>4. Below(r) \in Nat
  <2>1. IsFiniteSet(Before(r)) /\ Part(r) \in [Before(r) -> Nat]
    BY <1>3
  <2> HIDE DEF Before, Part
  <2> QED BY <1>2, <2>1, TotalType
<1>5. ASSUME NEW q \in Ranks, q < r
      PROVE  Below(q) + c[q] <= Below(r)
  <2> DEFINE B == Before(q)
             g == [x \in B \cup {q} |-> c[x]]
             h == Part(q)
             big == Part(r)
             R == Before(r)
  <2>1. IsFiniteSet(B) /\ h \in [B -> Nat] /\ IsFiniteSet(R) /\ big \in [R -> Nat]
    BY <1>3
  <2>2. q \notin B
    <3>1. ~(q < q)
      BY <1>1
    <3> QED BY <3>1
  <2>3. g \in [B \cup {q} -> Nat] /\ g[q] = c[q] /\ \A y \in B : g[y] = h[y]
    BY <1>1
  <2>4. B \cup {q} \in SUBSET R
    <3>1. \A x \in Ranks : x < q => x < r
      BY <1>1, <1>5
    <3> QED BY <1>5, <3>1
  <2>5. \A x \in B \cup {q} : g[x] <= big[x]
    <3>1. ASSUME NEW x \in B \cup {q} PROVE g[x] <= big[x]
      <4>1. x \in R /\ x \in Ranks
        BY <2>4
      <4>2. g[x] = c[x] /\ big[x] = c[x] /\ c[x] \in Nat
        BY <1>1, <4>1
      <4> QED BY <4>2
    <3> QED BY <3>1
  <2>6. Below(q) = Total(h) /\ Below(r) = Total(big)
    BY <1>2
  <2> HIDE DEF B, R, g, h, big
  <2>7. Total(g) = Total(h) + g[q]
    <3>1. IsFiniteSet(B) /\ h \in [B -> Nat]
      BY <2>1
    <3> QED BY ONLY <2>2, <2>3, <3>1, TotalExtend
  <2>8. Total(g) <= Total(big)
    BY ONLY <2>1, <2>3, <2>4, <2>5, TotalMonotone
  <2> QED BY <2>3, <2>6, <2>7, <2>8
<1> QED BY <1>4, <1>5 DEF c

\* A payout that the reserve covers is absorbed by the tranches, to the token.
LEMMA AbsorbedInAll ==
  ASSUME TrancheInv, NEW loss \in Nat, loss <= totalCollateral
  PROVE  /\ \A r \in Ranks : Absorbed(r, loss) \in 0..tranche[r].coll
         /\ Total([r \in Ranks |-> Absorbed(r, loss)]) = loss
<1> DEFINE c == [r \in Ranks |-> tranche[r].coll]
           a == [r \in Ranks |-> Absorbed(r, loss)]
<1>1. /\ c \in [Ranks -> Nat] /\ \A r \in Ranks : tranche[r].coll \in Nat
      /\ Ranks \in SUBSET Nat
      /\ loss <= Total(c)
  BY TranchedAssumption DEF TrancheInv, TranchedTyped, Reserve
<1>2. ASSUME NEW r \in Ranks PROVE Absorbed(r, loss) \in 0..tranche[r].coll
  <2>1. Below(r) \in Nat /\ tranche[r].coll \in Nat
    BY <1>1, BelowType
  <2> QED BY <2>1 DEF Absorbed, Lesser
<1>3. a \in [Ranks -> Nat]
  BY <1>1, <1>2
<1>4. \A r \in Ranks :
        LET below == Total([q \in {x \in Ranks : x < r} |-> c[q]])
        IN  a[r] = IF loss > below THEN Lesser(c[r], loss - below) ELSE 0
  <2>1. ASSUME NEW r \in Ranks
        PROVE  /\ Total([q \in {x \in Ranks : x < r} |-> c[q]]) = Below(r)
               /\ c[r] = tranche[r].coll /\ a[r] = Absorbed(r, loss)
    <3>1. [q \in {x \in Ranks : x < r} |-> c[q]]
            = [q \in {x \in Ranks : x < r} |-> tranche[q].coll]
      OBVIOUS
    <3> QED BY <3>1 DEF Below
  <2> HIDE DEF c, a
  <2> QED BY <2>1 DEF Absorbed
<1> HIDE DEF c, a
<1>5. Total(a) = loss
  <2>1. IsFiniteSet(Ranks) /\ loss \in Nat
    BY PartiesFinite
  <2> QED BY ONLY <1>1, <1>3, <1>4, <2>1, LossAbsorbed
<1> QED BY <1>2, <1>5 DEF a

\* A payout: the tranches lose what the reserve and the tokens do.
LEMMA PayAllocationsInv ==
  ASSUME TrancheInv, NEW allocs \in AllocationLists, PayAllocations(allocs)
  PROVE  /\ TrancheInv'
         /\ totalCollateral' + (paidOut' - paidOut) = totalCollateral
         /\ paidOut' - paidOut \in Nat
         /\ totalCover <= totalCollateral => totalCover' <= totalCollateral'
<1> DEFINE loss == AllocationSum(allocs)
           a == [r \in Ranks |-> Absorbed(r, loss)]
           c == [r \in Ranks |-> tranche[r].coll]
           c2 == [r \in Ranks |-> tranche[r].coll - Absorbed(r, loss)]
<1>1. /\ IsFiniteSet(DOMAIN allocs)
      /\ \A i \in DOMAIN allocs : allocs[i].amount \in Nat
  BY ListsAssumption
<1>2. loss \in Nat /\ \A p : PaidTo(allocs, p) \in Nat
  BY <1>1, PaymentsType
<1>3. /\ loss <= totalCollateral /\ loss <= held
      /\ tranche' = [r \in Ranks |->
                       [tranche[r] EXCEPT !.coll = @ - Absorbed(r, loss)]]
      /\ totalCollateral' = totalCollateral - loss
      /\ totalCover' = CoverAfter(loss)
      /\ wallet' = [p \in Accounts |-> wallet[p] + PaidTo(allocs, p)]
      /\ held' = held - loss
      /\ paidOut' = paidOut + loss
      /\ UNCHANGED <<stake, feeAccrued, unbooked, roundedOff>>
  BY DEF PayAllocations
<1> HIDE DEF loss
<1>4. /\ tranche \in [Ranks -> [coll : Nat, shares : Nat, acc : Nat]]
      /\ stake \in [Ranks -> [Sellers -> [shares : Nat, debt : Nat, claimable : Nat]]]
      /\ totalCollateral \in Nat /\ totalCover \in Nat /\ feeAccrued \in Nat
      /\ held \in Nat /\ wallet \in [Accounts -> Nat]
      /\ unbooked \in Nat /\ paidOut \in Nat /\ roundedOff \in Nat
      /\ Total(c) = totalCollateral
  BY DEF TrancheInv, TranchedTyped, Reserve
<1>5. /\ \A r \in Ranks : Absorbed(r, loss) \in 0..tranche[r].coll
      /\ Total(a) = loss
  BY <1>2, <1>3, AbsorbedInAll
<1>6. ASSUME NEW r \in Ranks
      PROVE  /\ tranche[r].coll - Absorbed(r, loss) \in Nat
             /\ tranche[r].coll - Absorbed(r, loss) <= tranche[r].coll
             /\ Absorbed(r, loss) \in Nat /\ tranche[r].coll \in Nat
             /\ tranche'[r] = [coll |-> tranche[r].coll - Absorbed(r, loss),
                               shares |-> tranche[r].shares, acc |-> tranche[r].acc]
  <2>1. Absorbed(r, loss) \in 0..tranche[r].coll
    BY <1>5
  <2>2. /\ tranche[r] = [coll |-> tranche[r].coll, shares |-> tranche[r].shares,
                         acc |-> tranche[r].acc]
        /\ tranche[r].coll \in Nat
    BY <1>4
  <2>3. tranche'[r] = [tranche[r] EXCEPT !.coll = @ - Absorbed(r, loss)]
    BY <1>3
  <2> QED BY <2>1, <2>2, <2>3
<1>7. ASSUME NEW r \in Ranks
      PROVE  /\ tranche'[r].coll = tranche[r].coll - Absorbed(r, loss)
             /\ tranche'[r].shares = tranche[r].shares
             /\ tranche'[r].acc = tranche[r].acc
  <2>1. tranche'[r] = [coll |-> tranche[r].coll - Absorbed(r, loss),
                       shares |-> tranche[r].shares, acc |-> tranche[r].acc]
    BY <1>6
  <2> QED BY ONLY <2>1
<1>8. tranche' \in [Ranks -> [coll : Nat, shares : Nat, acc : Nat]]
  <2>1. tranche' = [r \in Ranks |-> tranche'[r]]
    BY <1>3
  <2>2. ASSUME NEW r \in Ranks PROVE tranche'[r] \in [coll : Nat, shares : Nat, acc : Nat]
    <3>1. tranche[r].shares \in Nat /\ tranche[r].acc \in Nat
      BY <1>4
    <3>2. /\ tranche[r].coll - Absorbed(r, loss) \in Nat
          /\ tranche'[r] = [coll |-> tranche[r].coll - Absorbed(r, loss),
                            shares |-> tranche[r].shares, acc |-> tranche[r].acc]
      BY <1>6
    <3> QED BY ONLY <3>1, <3>2
  <2> QED BY <2>1, <2>2
<1>9. Reserve' = totalCollateral - loss
  <2>1. Reserve' = Total(c2)
    <3>1. [r \in Ranks |-> tranche'[r].coll] = c2
      BY <1>7
    <3> QED BY <3>1 DEF Reserve
  <2>2. /\ c \in [Ranks -> Nat] /\ c2 \in [Ranks -> Nat] /\ a \in [Ranks -> Nat]
        /\ \A r \in Ranks : c[r] = c2[r] + 1 * a[r]
    <3>1. ASSUME NEW r \in Ranks
          PROVE  /\ tranche[r].coll \in Nat /\ Absorbed(r, loss) \in Nat
                 /\ tranche[r].coll - Absorbed(r, loss) \in Nat
                 /\ tranche[r].coll = (tranche[r].coll - Absorbed(r, loss)) + 1 * Absorbed(r, loss)
      <4>1. PICK x \in Nat, y \in Nat : x = tranche[r].coll /\ y = Absorbed(r, loss)
        BY <1>6
      <4>2. x = (x - y) + 1 * y
        BY ONLY x \in Nat, y \in Nat
      <4>3. tranche[r].coll - Absorbed(r, loss) \in Nat
        BY <1>6
      <4> QED BY <4>1, <4>2, <4>3
    <3> QED BY <3>1
  <2> HIDE DEF c, c2, a
  <2>3. Total(c) = Total(c2) + 1 * Total(a)
    <3>1. IsFiniteSet(Ranks) /\ 1 \in Nat
      BY PartiesFinite
    <3> QED BY ONLY <2>2, <3>1, TotalLinear
  <2>4. Total(c2) \in Nat
    BY <2>2, PartiesFinite, TotalType
  <2> QED BY <1>2, <1>4, <1>5, <2>1, <2>3, <2>4
<1>10. totalCover' \in Nat /\ (totalCover <= totalCollateral => totalCover' <= totalCollateral')
  BY <1>2, <1>3, <1>4 DEF CoverAfter
<1>11. TranchedTyped'
  <2>1. wallet' \in [Accounts -> Nat]
    BY <1>2, <1>3, <1>4
  <2>2. /\ totalCollateral' \in Nat /\ held' \in Nat /\ paidOut' \in Nat
        /\ feeAccrued' \in Nat /\ unbooked' \in Nat /\ roundedOff' \in Nat
    BY <1>2, <1>3, <1>4
  <2>3. stake' \in [Ranks -> [Sellers -> [shares : Nat, debt : Nat, claimable : Nat]]]
    BY <1>3, <1>4
  <2> QED BY <1>8, <1>10, <2>1, <2>2, <2>3 DEF TranchedTyped
<1>12. Spare' = Spare
  BY <1>2, <1>3, <1>4 DEF Spare
<1>13. \A r \in Ranks : Book(r)' = Book(r)
  BY <1>3 DEF Book
<1>14. EarnedInAll' = EarnedInAll
  <2>1. \A r \in Ranks : Earned(r)' = Earned(r)
    BY <1>7, <1>13 DEF Earned
  <2> QED BY <2>1 DEF EarnedInAll
<1>15. ASSUME NEW r \in Ranks PROVE TrancheOK(r)'
  <2>1. /\ IsLedger(Sellers, Book(r), tranche[r].acc, AccScale)
        /\ Total(StakesIn(Book(r))) = tranche[r].shares
        /\ tranche[r].coll <= tranche[r].shares
        /\ tranche[r].shares \in Nat
    BY <1>4 DEF TrancheInv, TrancheOK
  <2>2. tranche'[r].coll <= tranche'[r].shares
    <3>1. /\ tranche[r].coll - Absorbed(r, loss) \in Nat /\ tranche[r].coll \in Nat
          /\ tranche[r].coll - Absorbed(r, loss) <= tranche[r].coll
      BY <1>6
    <3> QED BY <1>7, <2>1, <3>1
  <2> QED BY <1>7, <1>13, <2>1, <2>2 DEF TrancheOK
<1>16. EarnedInAll' <= Spare' * AccScale + roundedOff'
  <2>1. roundedOff' = roundedOff
    BY <1>3
  <2>2. EarnedInAll <= Spare * AccScale + roundedOff
    BY DEF TrancheInv
  <2> QED BY <1>12, <1>14, <2>1, <2>2
<1>17. /\ totalCollateral' + (paidOut' - paidOut) = totalCollateral
       /\ paidOut' - paidOut \in Nat /\ Reserve' = totalCollateral'
  BY <1>2, <1>3, <1>4, <1>9
<1>18. TrancheInv'
  BY <1>11, <1>15, <1>16, <1>17 DEF TrancheInv
<1> QED BY <1>10, <1>17, <1>18

-----------------------------------------------------------------------------
LEMMA TrancheInitInv == TranchedInit => TrancheInv
<1> SUFFICES ASSUME TranchedInit PROVE TrancheInv
  OBVIOUS
<1>1. /\ tranche = [r \in Ranks |-> [coll |-> 0, shares |-> 0, acc |-> 0]]
      /\ stake = [r \in Ranks |-> [s \in Sellers |->
                    [shares |-> 0, debt |-> 0, claimable |-> 0]]]
      /\ totalCollateral = 0 /\ totalCover = 0 /\ feeAccrued = 0 /\ held = 0
      /\ wallet = InitialTokens
      /\ unbooked = 0 /\ paidOut = 0 /\ roundedOff = 0
  BY DEF TranchedInit
<1>2. TranchedTyped
  <2>1. tranche \in [Ranks -> [coll : Nat, shares : Nat, acc : Nat]]
    BY <1>1
  <2>2. stake \in [Ranks -> [Sellers -> [shares : Nat, debt : Nat, claimable : Nat]]]
    BY <1>1
  <2>3. wallet \in [Accounts -> Nat]
    BY <1>1, TranchedAssumption
  <2> QED BY <1>1, <2>1, <2>2, <2>3 DEF TranchedTyped
<1>3. ASSUME NEW r \in Ranks PROVE TrancheOK(r) /\ Earned(r) = 0
  <2> DEFINE l == Book(r)
  <2>1. /\ tranche[r].coll = 0 /\ tranche[r].shares = 0 /\ tranche[r].acc = 0
        /\ l = [s \in Sellers |-> [stake |-> 0, debt |-> 0, claimable |-> 0]]
    BY <1>1 DEF Book
  <2> HIDE DEF l
  <2>2. IsLedger(Sellers, l, 0, AccScale)
    <3>1. l \in [Sellers -> Stakes] /\ \A x \in Sellers : l[x].debt = 0 /\ l[x].stake = 0
      BY <2>1 DEF Stakes
    <3>2. 0 * AccScale <= 0 * 0 /\ AccScale \in Nat \ {0}
      BY ScaleTypes
    <3> QED BY <3>1, <3>2, PartiesFinite DEF IsLedger
  <2>3. \A x \in Sellers : StakesIn(l)[x] = 0 /\ Earnings(l, 0, AccScale)[x] = 0
    <3>1. 0 * AccScale + (0 * 0 - 0 * AccScale) = 0
      BY ScaleTypes
    <3> QED BY <2>1, <3>1 DEF StakesIn, Earnings
  <2>4. StakesIn(l) \in [Sellers -> Nat] /\ Earnings(l, 0, AccScale) \in [Sellers -> Nat]
    BY <2>2, LedgerTypes
  <2>5. Total(StakesIn(l)) = 0 /\ Total(Earnings(l, 0, AccScale)) = 0
    BY <2>3, <2>4, PartiesFinite, TotalZero
  <2> QED BY <2>1, <2>2, <2>5 DEF TrancheOK, Earned, l
<1>4. Reserve = 0
  <2> DEFINE c == [r \in Ranks |-> tranche[r].coll]
  <2>1. c \in [Ranks -> Nat] /\ \A r \in Ranks : c[r] = 0
    BY <1>1
  <2> HIDE DEF c
  <2>2. Total(c) = 0
    BY <2>1, PartiesFinite, TotalZero
  <2> QED BY <2>2 DEF c, Reserve
<1>5. EarnedInAll = 0
  <2> DEFINE e == [r \in Ranks |-> Earned(r)]
  <2>1. e \in [Ranks -> Nat] /\ \A r \in Ranks : e[r] = 0
    BY <1>3
  <2> HIDE DEF e
  <2>2. Total(e) = 0
    BY <2>1, PartiesFinite, TotalZero
  <2> QED BY <2>2 DEF e, EarnedInAll
<1>6. Spare = 0 /\ 0 * AccScale + 0 = 0
  BY <1>1, ScaleTypes DEF Spare
<1> QED BY <1>1, <1>2, <1>3, <1>4, <1>5, <1>6 DEF TrancheInv

\* What every step of the transparent vault keeps, and that a payout takes from
\* the reserve what it adds to the history.
LEMMA TrancheNextInv ==
  ASSUME TrancheInv, FullyFunded, [TranchedNext]_tranchedVars
  PROVE  TrancheInv' /\ FullyFunded'
<1>0. totalCollateral \in Nat /\ totalCover \in Nat /\ totalCover <= totalCollateral
  BY DEF TrancheInv, TranchedTyped, FullyFunded
<1>1. CASE \E s \in Sellers, r \in Ranks, amount \in Amounts : Deposit(s, r, amount)
  <2>1. PICK s \in Sellers, r \in Ranks, amount \in Amounts : Deposit(s, r, amount)
    BY <1>1
  <2>2. TrancheInv' /\ totalCollateral' = totalCollateral + amount
    BY <2>1, DepositInv
  <2>3. totalCover' = totalCover /\ amount \in Nat
    BY <2>1, AmountsAssumption DEF Deposit, coverVars
  <2> QED BY <1>0, <2>2, <2>3 DEF FullyFunded
<1>2. CASE \E b \in Buyers, cover \in Covers : BuyProtection(b, cover)
  BY <1>2, BuyProtectionInv DEF FullyFunded
<1>3. CASE \E amount \in Amounts : SendPremium(amount)
  BY <1>0, <1>3, SendPremiumInv DEF SendPremium, FullyFunded, coverVars
<1>4. CASE \E amount \in Amounts : ReceivePremium(amount)
  BY <1>0, <1>4, ReceivePremiumInv DEF ReceivePremium, FullyFunded, coverVars
<1>5. CASE \E s \in Sellers, r \in Ranks : ClaimPremium(s, r)
  BY <1>0, <1>5, ClaimPremiumInv DEF ClaimPremium, FullyFunded, coverVars
<1>6. CASE ClaimProtocolFee
  BY <1>0, <1>6, ClaimProtocolFeeInv DEF ClaimProtocolFee, FullyFunded, coverVars
<1>7. CASE \E s \in Sellers, r \in Ranks, burn \in Burns : Withdraw(s, r, burn)
  <2>1. PICK s \in Sellers, r \in Ranks, burn \in Burns : Withdraw(s, r, burn)
    BY <1>7
  <2>2. TrancheInv' /\ totalCollateral' = totalCollateral - Redeemed(r, burn)
    BY <2>1, WithdrawInv
  <2>3. totalCover' = totalCover /\ totalCollateral - Redeemed(r, burn) >= totalCover
    BY <2>1 DEF Withdraw, coverVars
  <2> QED BY <2>2, <2>3 DEF FullyFunded, TrancheInv, TranchedTyped
<1>8. CASE \E allocs \in AllocationLists : folded > 0 /\ PayAllocations(allocs)
  BY <1>0, <1>8, PayAllocationsInv DEF FullyFunded
<1>9. CASE \E open \in BOOLEAN : SetWindow(open)
  BY <1>0, <1>9, SetWindowInv DEF SetWindow, FullyFunded
<1>10. CASE UNCHANGED tranchedVars
  <2>1. UNCHANGED <<tranche, stake, totalCollateral, roundedOff, paidOut, held,
                    unbooked, feeAccrued, totalCover, wallet>>
    BY <1>10 DEF tranchedVars, coverVars, tokenVars, historyVars
  <2>2. /\ wallet \in [Accounts -> Nat] /\ held \in Nat /\ unbooked \in Nat
        /\ feeAccrued \in Nat
    BY DEF TrancheInv, TranchedTyped
  <2>3. TrancheInv'
    BY <1>0, <2>1, <2>2, SpareKept
  <2> QED BY <1>0, <2>1, <2>3 DEF FullyFunded
<1> QED BY <1>1, <1>2, <1>3, <1>4, <1>5, <1>6, <1>7, <1>8, <1>9, <1>10 DEF TranchedNext

\* The inductive invariant of the transparent vault.
THEOREM TrancheInvHolds == TranchedSpec => [](TrancheInv /\ FullyFunded)
<1>1. TranchedInit => TrancheInv /\ FullyFunded
  BY TrancheInitInv DEF TranchedInit, FullyFunded
<1>2. TrancheInv /\ FullyFunded /\ [TranchedNext]_tranchedVars
        => (TrancheInv /\ FullyFunded)'
  BY TrancheNextInv
<1> QED BY <1>1, <1>2, PTL DEF TranchedSpec

-----------------------------------------------------------------------------
\* What the confidential vault adds: the commitment is to the sum of the covers
\* folded, and every opening it ever had is a number.
HiddenInv ==
  /\ TrancheInv
  /\ HiddenBookBacked
  /\ bookCover \in Int
  /\ \A o \in openings : o.total \in Int

LEMMA HiddenInitInv == HiddenInit => HiddenInv
<1> SUFFICES ASSUME HiddenInit PROVE HiddenInv
  OBVIOUS
<1>1. TrancheInv /\ totalCollateral = 0 /\ paidOut = 0
  BY TrancheInitInv DEF HiddenInit, TranchedInit
<1> QED BY <1>1 DEF HiddenInit, HiddenInv, HiddenBookBacked, Opening

LEMMA SaleInv ==
  ASSUME HiddenInv, NEW b \in Buyers, NEW sale \in Sales, NEW premium \in HiddenPremiums,
         BuyProtectionProven(b, sale, premium)
  PROVE  HiddenInv' /\ totalCollateral' = totalCollateral
<1>1. /\ AggregateCurrent(sale.prev) /\ ReserveCovers(sale.collateral)
      /\ commitment' = sale.new
      /\ bookCover' = bookCover + sale.cover
      /\ openings' = openings \cup {sale.new}
      /\ TransferIn(b, premium)
      /\ IF premium > 0 THEN Distribute(premium) ELSE UNCHANGED <<tranche, feeAccrued>>
      /\ UNCHANGED <<stake, totalCollateral, unbooked, historyVars>>
      /\ totalCover' = totalCover
  BY DEF BuyProtectionProven
<1>2. PICK o \in openings, cover \in HiddenCovers, collateral \in Figures :
        sale = BuyJournal(o, cover, Cardinality(openings), collateral)
  BY DEF Sales, SaleProofs
<1>3. Solvent(sale.prev, sale.cover, sale.collateral)
  BY DEF Sales
<1>4. /\ sale.prev = o /\ sale.cover = cover /\ sale.collateral = collateral
      /\ sale.new.total = o.total + cover
  BY <1>2 DEF BuyJournal, Opening
<1>5. /\ cover \in Int /\ collateral \in Int /\ premium \in Int
      /\ o.total \in Int /\ totalCollateral \in Nat /\ totalCover \in Nat /\ paidOut \in Nat
      /\ bookCover \in Int /\ commitment.total = bookCover
      /\ TrancheInv /\ b \in Accounts
  BY FiguresAssumption
  DEF HiddenInv, HiddenBookBacked, TrancheInv, TranchedTyped, Accounts
<1>6. /\ o = commitment /\ o.total + cover <= collateral /\ collateral <= totalCollateral
  BY <1>1, <1>3, <1>4 DEF AggregateCurrent, ReserveCovers, Solvent
<1>7. TrancheInv'
  <2>1. totalCover' \in Nat
    BY <1>1, <1>5
  <2> QED BY ONLY <1>1, <1>5, <2>1, PremiumPaid
<1>8. HiddenBookBacked' /\ bookCover' \in Int
  <2>1. commitment'.total = o.total + cover /\ bookCover' = o.total + cover
    BY <1>1, <1>4, <1>5, <1>6
  <2>2. totalCollateral' = totalCollateral /\ paidOut' = paidOut
    BY <1>1 DEF historyVars
  <2>3. o.total + cover <= totalCollateral + paidOut /\ o.total + cover \in Int
    BY <1>5, <1>6
  <2> QED BY <2>1, <2>2, <2>3 DEF HiddenBookBacked
<1>9. \A x \in openings' : x.total \in Int
  BY <1>1, <1>4, <1>5 DEF HiddenInv
<1> QED BY <1>1, <1>7, <1>8, <1>9 DEF HiddenInv

\* An exit takes no more than its proof has shown to be free.
LEMMA ExitInv ==
  ASSUME HiddenInv, NEW s \in Sellers, NEW r \in Ranks, NEW burn \in Burns,
         NEW exit \in Exits, WithdrawProven(s, r, burn, exit)
  PROVE  HiddenInv' /\ commitment.total <= totalCollateral'
<1>1. /\ AggregateCurrent(exit.prev)
      /\ RemainderExact(exit.after, Redeemed(r, burn))
      /\ Withdraw(s, r, burn)
      /\ UNCHANGED <<commitment, bookCover, openings>>
  BY DEF WithdrawProven, hiddenVars
<1>2. SolventAfter(exit.prev, exit.after)
  BY DEF Exits
<1>3. TrancheInv
  BY DEF HiddenInv
<1>4. /\ TrancheInv' /\ paidOut' = paidOut
      /\ totalCollateral' = totalCollateral - Redeemed(r, burn)
  BY <1>1, <1>3, WithdrawInv
<1>5. commitment.total <= totalCollateral'
  BY <1>1, <1>2, <1>4 DEF AggregateCurrent, RemainderExact, SolventAfter
<1>6. totalCollateral' \in Nat /\ paidOut' \in Nat
  BY <1>4 DEF TrancheInv, TranchedTyped
<1>7. commitment.total \in Int
  BY DEF HiddenInv, HiddenBookBacked
<1>8. HiddenBookBacked'
  <2>1. commitment.total <= totalCollateral' + paidOut'
    BY <1>5, <1>6, <1>7
  <2> QED BY <1>1, <2>1 DEF HiddenInv, HiddenBookBacked
<1> QED BY <1>1, <1>4, <1>5, <1>8 DEF HiddenInv

\* A call that leaves the commitment, and takes from the reserve only what it
\* pays out.
LEMMA AggregateKept ==
  ASSUME HiddenInv, TrancheInv', UNCHANGED hiddenVars,
         totalCollateral' + paidOut' >= totalCollateral + paidOut
  PROVE  HiddenInv'
<1>1. UNCHANGED <<commitment, bookCover, openings>>
  BY DEF hiddenVars
<1>2. /\ totalCollateral \in Nat /\ paidOut \in Nat
      /\ totalCollateral' \in Nat /\ paidOut' \in Nat
      /\ commitment.total \in Int /\ commitment.total = bookCover
      /\ commitment.total <= totalCollateral + paidOut
  BY DEF HiddenInv, HiddenBookBacked, TrancheInv, TranchedTyped
<1>3. commitment.total <= totalCollateral' + paidOut'
  <2>1. PICK c \in Nat, p \in Nat, m \in Int :
          c = totalCollateral' /\ p = paidOut' /\ m = commitment.total
    BY <1>2
  <2>2. c + p >= totalCollateral + paidOut
    BY <2>1
  <2>3. m <= totalCollateral + paidOut
    BY <1>2, <2>1
  <2>4. m <= c + p
    BY <1>2, <2>2, <2>3
  <2> QED BY <2>1, <2>4
<1> QED BY <1>1, <1>2, <1>3 DEF HiddenInv, HiddenBookBacked

\* What every step of the confidential vault keeps.
LEMMA HiddenNextInv ==
  ASSUME HiddenInv, [HiddenNext]_hiddenTranchedVars
  PROVE  /\ HiddenInv'
         /\ totalCollateral' < totalCollateral /\ paidOut' = paidOut =>
              commitment.total <= totalCollateral'
<1>0. TrancheInv /\ totalCollateral \in Nat /\ paidOut \in Nat
  BY DEF HiddenInv, TrancheInv, TranchedTyped
<1>1. CASE \E s \in Sellers, r \in Ranks, amount \in Amounts : HiddenDeposit(s, r, amount)
  <2>1. PICK s \in Sellers, r \in Ranks, amount \in Amounts : HiddenDeposit(s, r, amount)
    BY <1>1
  <2>2. Deposit(s, r, amount) /\ UNCHANGED hiddenVars
    BY <2>1 DEF HiddenDeposit
  <2>3. TrancheInv' /\ totalCollateral' = totalCollateral + amount /\ paidOut' = paidOut
    BY <1>0, <2>2, DepositInv
  <2>4. amount \in Nat
    BY <2>2, AmountsAssumption DEF Deposit
  <2>5. totalCollateral' + paidOut' >= totalCollateral + paidOut
    BY <1>0, <2>3, <2>4
  <2> QED BY <1>0, <2>2, <2>3, <2>4, <2>5, AggregateKept
<1>2. CASE \E b \in Buyers, sale \in Sales, premium \in HiddenPremiums :
             BuyProtectionProven(b, sale, premium)
  BY <1>0, <1>2, SaleInv
<1>3. CASE \E s \in Sellers, r \in Ranks, burn \in Burns, exit \in Exits :
             WithdrawProven(s, r, burn, exit)
  BY <1>3, ExitInv
<1>4. ASSUME TrancheInv', UNCHANGED hiddenVars, UNCHANGED <<totalCollateral, paidOut>>
      PROVE  HiddenInv' /\ totalCollateral' = totalCollateral
  <2>1. totalCollateral' = totalCollateral /\ paidOut' = paidOut
    BY <1>4
  <2>2. totalCollateral' + paidOut' >= totalCollateral + paidOut
    BY <1>0, <2>1
  <2> QED BY <1>4, <2>1, <2>2, AggregateKept
<1>5. CASE \E s \in Sellers, r \in Ranks : HiddenClaimPremium(s, r)
  <2>1. PICK s \in Sellers, r \in Ranks : ClaimPremium(s, r) /\ UNCHANGED hiddenVars
    BY <1>5 DEF HiddenClaimPremium
  <2>2. TrancheInv' /\ UNCHANGED <<totalCollateral, paidOut>>
    BY <1>0, <2>1, ClaimPremiumInv DEF ClaimPremium, historyVars
  <2> QED BY <1>0, <1>4, <2>1, <2>2
<1>6. CASE HiddenClaimProtocolFee
  <2>1. ClaimProtocolFee /\ UNCHANGED hiddenVars
    BY <1>6 DEF HiddenClaimProtocolFee
  <2>2. TrancheInv' /\ UNCHANGED <<totalCollateral, paidOut>>
    BY <1>0, <2>1, ClaimProtocolFeeInv DEF ClaimProtocolFee, historyVars
  <2> QED BY <1>0, <1>4, <2>1, <2>2
<1>7. CASE \E allocs \in AllocationLists : folded > 0 /\ HiddenPayAllocations(allocs)
  <2>1. PICK allocs \in AllocationLists : PayAllocations(allocs) /\ UNCHANGED hiddenVars
    BY <1>7 DEF HiddenPayAllocations
  <2>2. /\ TrancheInv' /\ paidOut' - paidOut \in Nat
        /\ totalCollateral' + (paidOut' - paidOut) = totalCollateral
    BY <1>0, <2>1, PayAllocationsInv
  <2>3. totalCollateral' \in Nat /\ paidOut' \in Nat
    BY <2>2 DEF TrancheInv, TranchedTyped
  <2>4. PICK c \in Nat, p \in Nat : c = totalCollateral' /\ p = paidOut'
    BY <2>3
  <2>5. c + (p - paidOut) = totalCollateral
    BY <2>2, <2>4
  <2>6. c + p >= totalCollateral + paidOut /\ (p = paidOut => ~(c < totalCollateral))
    BY <1>0, <2>5
  <2>7. totalCollateral' + paidOut' >= totalCollateral + paidOut
    BY <2>4, <2>6
  <2> QED BY <2>1, <2>2, <2>4, <2>6, <2>7, AggregateKept
<1>8. CASE \E open \in BOOLEAN : HiddenSetWindow(open)
  <2>1. PICK open \in BOOLEAN : SetWindow(open) /\ UNCHANGED hiddenVars
    BY <1>8 DEF HiddenSetWindow
  <2>2. TrancheInv' /\ UNCHANGED <<totalCollateral, paidOut>>
    BY <1>0, <2>1, SetWindowInv DEF SetWindow, historyVars
  <2> QED BY <1>0, <1>4, <2>1, <2>2
<1>9. CASE UNCHANGED hiddenTranchedVars
  <2>1. UNCHANGED <<tranche, stake, totalCollateral, roundedOff, paidOut, held,
                    unbooked, feeAccrued, totalCover, wallet>> /\ UNCHANGED hiddenVars
    BY <1>9 DEF hiddenTranchedVars, tranchedVars, coverVars, tokenVars, historyVars
  <2>2. /\ wallet \in [Accounts -> Nat] /\ held \in Nat /\ unbooked \in Nat
        /\ feeAccrued \in Nat /\ totalCover \in Nat
    BY <1>0 DEF TrancheInv, TranchedTyped
  <2>3. TrancheInv'
    BY <1>0, <2>1, <2>2, SpareKept
  <2> QED BY <1>0, <1>4, <2>1, <2>3
<1> QED BY <1>1, <1>2, <1>3, <1>5, <1>6, <1>7, <1>8, <1>9 DEF HiddenNext

\* The inductive invariant of the confidential vault.
THEOREM HiddenInvHolds == HiddenTranchedSpec => []HiddenInv
<1>1. HiddenInv /\ [HiddenNext]_hiddenTranchedVars => HiddenInv'
  BY HiddenNextInv
<1> QED BY HiddenInitInv, <1>1, PTL DEF HiddenTranchedSpec

-----------------------------------------------------------------------------
\* What the invariant says of the two vaults, property by property.
LEMMA TypesFollow == TrancheInv => TranchedTypeOK
<1>1. TrancheInv => \A r \in Ranks, s \in Sellers : Pending(r, s) >= 0
  BY StakeFigures
<1> QED BY <1>1 DEF TrancheInv, TranchedTyped, TranchedTypeOK

LEMMA ReserveFollows == TrancheInv => TranchesAreReserve
<1> SUFFICES ASSUME TrancheInv PROVE TranchesAreReserve
  OBVIOUS
<1>1. ASSUME NEW r \in Ranks
      PROVE  Total([s \in Sellers |-> stake[r][s].shares]) = tranche[r].shares
  <2>1. StakesIn(Book(r)) = [s \in Sellers |-> stake[r][s].shares]
    BY DEF StakesIn, Book
  <2> QED BY <2>1 DEF TrancheInv, TrancheOK
<1> QED BY <1>1 DEF TrancheInv, TrancheOK, TranchesAreReserve, Reserve

\* All claims of all tranches are worth no more than what has been earned.
LEMMA ClaimsWithinEarned ==
  ASSUME TrancheInv
  PROVE  LET claims == [p \in Ranks \X Sellers |->
                          stake[p[1]][p[2]].claimable + Pending(p[1], p[2])]
         IN  /\ Total(claims) \in Nat
             /\ Total(claims) * AccScale <= EarnedInAll
<1> DEFINE claims == [p \in Ranks \X Sellers |->
                        stake[p[1]][p[2]].claimable + Pending(p[1], p[2])]
           row(r) == [s \in Sellers |-> claims[<<r, s>>]]
           rows == [r \in Ranks |-> Total(row(r))]
           e == [r \in Ranks |-> Earned(r)]
<1>1. ASSUME NEW r \in Ranks
      PROVE  /\ row(r) \in [Sellers -> Nat]
             /\ Total(row(r)) \in Nat /\ Earned(r) \in Nat
             /\ Total(row(r)) * AccScale <= Earned(r)
  <2> DEFINE l == Book(r)
             a == tranche[r].acc
  <2>1. IsLedger(Sellers, l, a, AccScale)
    BY DEF TrancheInv, TrancheOK
  <2>2. row(r) = Claims(l, a, AccScale)
    <3>1. \A s \in Sellers : row(r)[s] = stake[r][s].claimable + Pending(r, s)
      OBVIOUS
    <3>2. Claims(l, a, AccScale) = [s \in Sellers |-> Claims(l, a, AccScale)[s]]
      BY DEF Claims, Book
    <3>3. \A s \in Sellers : Claims(l, a, AccScale)[s] = stake[r][s].claimable + Pending(r, s)
      BY StakeFigures
    <3>4. row(r) = [s \in Sellers |-> row(r)[s]]
      OBVIOUS
    <3> HIDE DEF row, l, a
    <3> QED BY <3>1, <3>2, <3>3, <3>4
  <2>3. Earned(r) = Total(Earnings(l, a, AccScale))
    BY DEF Earned
  <2> HIDE DEF l, a, row
  <2> QED BY <2>1, <2>2, <2>3, LedgerTypes, LedgerClaims
<1>2. claims \in [Ranks \X Sellers -> Nat]
  <2>1. ASSUME NEW p \in Ranks \X Sellers PROVE claims[p] \in Nat
    <3>1. PICK r \in Ranks, s \in Sellers : p = <<r, s>>
      OBVIOUS
    <3>2. row(r)[s] \in Nat
      BY <1>1
    <3> QED BY <3>1, <3>2
  <2> QED BY <2>1
<1>3. Total(claims) = Total(rows)
  <2> HIDE DEF claims
  <2>1. IsFiniteSet(Ranks) /\ IsFiniteSet(Sellers)
    BY PartiesFinite
  <2> QED BY <1>2, <2>1, TotalOfRows
<1>4. /\ rows \in [Ranks -> Nat] /\ e \in [Ranks -> Nat]
      /\ \A r \in Ranks : rows[r] * AccScale <= e[r]
  <2> HIDE DEF row
  <2> QED BY <1>1
<1>5. Total(rows) \in Nat /\ Total(rows) * AccScale <= Total(e)
  <2> HIDE DEF rows, e
  <2> QED BY <1>4, ScaleTypes, PartiesFinite, TotalType, TotalWorth
<1>6. Total(e) = EarnedInAll
  BY DEF EarnedInAll
<1> HIDE DEF claims, rows, e
<1>7. Total(claims) \in Nat /\ Total(claims) * AccScale <= EarnedInAll
  BY <1>3, <1>5, <1>6
<1> QED BY <1>7 DEF claims

LEMMA FundingFollows == TrancheInv => PremiumFunded
<1> SUFFICES ASSUME TrancheInv PROVE PremiumFunded
  OBVIOUS
<1> DEFINE claims == [p \in Ranks \X Sellers |->
                        stake[p[1]][p[2]].claimable + Pending(p[1], p[2])]
           x == Total(claims)
           owed == totalCollateral + feeAccrued
<1>1. x \in Nat /\ x * AccScale <= EarnedInAll
  BY ClaimsWithinEarned
<1>2. PremiumOwed = feeAccrued + x
  BY DEF PremiumOwed
<1> HIDE DEF claims, x
<1>3. /\ held \in Nat /\ unbooked \in Nat /\ totalCollateral \in Nat /\ feeAccrued \in Nat
      /\ roundedOff \in Nat /\ AccScale \in Nat
      /\ EarnedInAll <= Spare * AccScale + roundedOff
      /\ Spare = held - unbooked - owed
  BY ScaleTypes DEF TrancheInv, TranchedTyped, Spare
<1>4. EarnedInAll \in Nat
  <2> DEFINE e == [r \in Ranks |-> Earned(r)]
  <2>1. e \in [Ranks -> Nat]
    BY LedgerTypes DEF TrancheInv, TrancheOK, Earned
  <2> HIDE DEF e
  <2>2. Total(e) \in Nat
    BY <2>1, PartiesFinite, TotalType
  <2> QED BY <2>2 DEF e, EarnedInAll
<1>5. owed \in Nat /\ totalCollateral + PremiumOwed = owed + x
  BY <1>1, <1>2, <1>3
<1> HIDE DEF owed
<1>6. /\ (held - unbooked) * AccScale = Spare * AccScale + owed * AccScale
      /\ (owed + x) * AccScale = owed * AccScale + x * AccScale
  BY <1>1, <1>3, <1>5
<1>7. /\ x * AccScale \in Nat /\ owed * AccScale \in Nat /\ Spare * AccScale \in Int
  BY <1>1, <1>3, <1>5
<1>8. (held - unbooked) * AccScale + roundedOff >= (owed + x) * AccScale
  BY <1>1, <1>3, <1>4, <1>6, <1>7
<1> QED BY <1>5, <1>8 DEF PremiumFunded

\* Every reachable state of either vault is of its type.
THEOREM TranchedTypes ==
  (TranchedSpec => []TranchedTypeOK) /\ (HiddenTranchedSpec => []TranchedTypeOK)
<1>1. TrancheInv /\ FullyFunded => TranchedTypeOK
  BY TypesFollow
<1>2. HiddenInv => TranchedTypeOK
  BY TypesFollow DEF HiddenInv
<1>3. TranchedSpec => []TranchedTypeOK
  BY TrancheInvHolds, <1>1, PTL
<1>4. HiddenTranchedSpec => []TranchedTypeOK
  BY HiddenInvHolds, <1>2, PTL
<1> QED BY <1>3, <1>4

\* absorb_loss loses exactly the payout: the tranches are the reserve, and the
\* stakes the tranches, for any tranches, weights, payouts and history.
THEOREM TranchesAreReserveHolds ==
  (TranchedSpec => []TranchesAreReserve) /\ (HiddenTranchedSpec => []TranchesAreReserve)
<1>1. TrancheInv /\ FullyFunded => TranchesAreReserve
  BY ReserveFollows
<1>2. HiddenInv => TranchesAreReserve
  BY ReserveFollows DEF HiddenInv
<1>3. TranchedSpec => []TranchesAreReserve
  BY TrancheInvHolds, <1>1, PTL
<1>4. HiddenTranchedSpec => []TranchesAreReserve
  BY HiddenInvHolds, <1>2, PTL
<1> QED BY <1>3, <1>4

\* The tokens cover the reserve, the fee and the premium of every stake of every
\* tranche, payouts included, but for what debts were rounded down by.
THEOREM PremiumFundedHolds ==
  (TranchedSpec => []PremiumFunded) /\ (HiddenTranchedSpec => []PremiumFunded)
<1>1. TrancheInv /\ FullyFunded => PremiumFunded
  BY FundingFollows
<1>2. HiddenInv => PremiumFunded
  BY FundingFollows DEF HiddenInv
<1>3. TranchedSpec => []PremiumFunded
  BY TrancheInvHolds, <1>1, PTL
<1>4. HiddenTranchedSpec => []PremiumFunded
  BY HiddenInvHolds, <1>2, PTL
<1> QED BY <1>3, <1>4

\* The cover the transparent vault has sold never exceeds its reserve, payouts
\* included: they come off both.
THEOREM FullyFundedHolds == TranchedSpec => []FullyFunded
BY TrancheInvHolds, PTL

\* The hidden aggregate is the covers folded and was in the reserve before
\* payouts, for any artifacts that anybody holds of any earlier opening.
THEOREM HiddenBookBackedHolds == HiddenTranchedSpec => []HiddenBookBacked
<1>1. HiddenInv => HiddenBookBacked
  BY DEF HiddenInv
<1> QED BY HiddenInvHolds, <1>1, PTL

\* No exit leaves the reserve below the hidden aggregate, whatever moved the
\* price of its shares after its proof was made.
THEOREM ExitsLeaveHiddenCoverHolds == HiddenTranchedSpec => ExitsLeaveHiddenCover
<1> DEFINE Leaves == totalCollateral' < totalCollateral /\ paidOut' = paidOut =>
                       commitment.total <= totalCollateral'
<1>1. HiddenInv /\ [HiddenNext]_hiddenTranchedVars => [Leaves]_hiddenTranchedVars
  BY HiddenNextInv
<1> QED BY HiddenInvHolds, <1>1, PTL DEF HiddenTranchedSpec, ExitsLeaveHiddenCover

-----------------------------------------------------------------------------
\* A payout empties every tranche below one that it takes collateral from.
LEMMA PayoutFromBelow ==
  ASSUME TrancheInv, NEW allocs \in AllocationLists, PayAllocations(allocs),
         NEW r \in Ranks, tranche'[r].coll < tranche[r].coll,
         NEW q \in Ranks, q < r
  PROVE  tranche'[q].coll = 0
<1> DEFINE loss == AllocationSum(allocs)
<1>1. loss \in Nat
  BY ListsAssumption, PaymentsType
<1> HIDE DEF loss
<1>2. \A x \in Ranks : tranche[x].coll \in Nat
  BY DEF TrancheInv, TranchedTyped
<1>3. ASSUME NEW x \in Ranks PROVE tranche'[x].coll = tranche[x].coll - Absorbed(x, loss)
  <2>1. tranche'[x] = [tranche[x] EXCEPT !.coll = @ - Absorbed(x, loss)]
    BY DEF PayAllocations, loss
  <2>2. tranche[x] \in [coll : Nat, shares : Nat, acc : Nat]
    BY DEF TrancheInv, TranchedTyped
  <2> QED BY <2>1, <2>2
<1>4. /\ Below(r) \in Nat /\ Below(q) \in Nat
      /\ Below(q) + tranche[q].coll <= Below(r)
  BY BelowType
<1>5. loss > Below(r)
  <2>1. SUFFICES ASSUME ~(loss > Below(r)) PROVE FALSE
    OBVIOUS
  <2>2. Absorbed(r, loss) = 0
    BY <2>1 DEF Absorbed
  <2>3. tranche'[r].coll = tranche[r].coll
    BY <1>2, <1>3, <2>2
  <2> QED BY <1>2, <2>3
<1>6. Absorbed(q, loss) = tranche[q].coll
  BY <1>1, <1>2, <1>4, <1>5 DEF Absorbed, Lesser
<1> QED BY <1>2, <1>3, <1>6

\* A payout of nothing moves nothing.
LEMMA EmptyPayout ==
  ASSUME TrancheInv, NEW allocs \in AllocationLists, PayAllocations(allocs),
         ~(paidOut' > paidOut), NEW r \in Ranks
  PROVE  tranche'[r] = tranche[r]
<1> DEFINE loss == AllocationSum(allocs)
<1>1. loss \in Nat /\ paidOut \in Nat
  BY ListsAssumption, PaymentsType DEF TrancheInv, TranchedTyped
<1> HIDE DEF loss
<1>2. paidOut' = paidOut + loss
  BY DEF PayAllocations, loss
<1>3. loss = 0
  <2>1. PICK p \in Nat : p = paidOut'
    BY <1>1, <1>2
  <2> QED BY <1>1, <1>2, <2>1
<1>4. tranche'[r] = [tranche[r] EXCEPT !.coll = @ - Absorbed(r, loss)]
  BY DEF PayAllocations, loss
<1>5. Below(r) \in Nat /\ tranche[r] \in [coll : Nat, shares : Nat, acc : Nat]
  BY BelowType DEF TrancheInv, TranchedTyped
<1>6. Absorbed(r, loss) = 0
  BY <1>3, <1>5 DEF Absorbed
<1>7. tranche[r].coll - 0 = tranche[r].coll
  BY <1>5
<1> QED BY <1>4, <1>5, <1>6, <1>7

\* Calls that move neither collateral nor shares.
StakesStay ==
  /\ paidOut' = paidOut /\ stake' \in [Ranks -> [Sellers -> [shares : Nat, debt : Nat, claimable : Nat]]]
  /\ \A r \in Ranks : /\ tranche'[r].coll = tranche[r].coll
                      /\ tranche'[r].shares = tranche[r].shares
                      /\ \A s \in Sellers : stake'[r][s].shares = stake[r][s].shares

LEMMA DistributeStays ==
  ASSUME TrancheInv, NEW premium, Distribute(premium), NEW r \in Ranks
  PROVE  tranche'[r].coll = tranche[r].coll /\ tranche'[r].shares = tranche[r].shares
<1>1. tranche[r] \in [coll : Nat, shares : Nat, acc : Nat]
  BY DEF TrancheInv, TranchedTyped
<1> DEFINE k == (Cut(r, premium) * AccScale) \div tranche[r].shares
<1>2. tranche'[r] = [tranche[r] EXCEPT !.acc = @ + k] \/ tranche'[r] = tranche[r]
  BY DEF Distribute
<1> HIDE DEF k
<1> QED BY <1>1, <1>2

LEMMA PremiumStays ==
  ASSUME TrancheInv, TrancheInv',
         \/ \E b \in Buyers, cover \in Covers : BuyProtection(b, cover)
         \/ \E amount \in Amounts : SendPremium(amount)
         \/ \E amount \in Amounts : ReceivePremium(amount)
         \/ ClaimProtocolFee
         \/ \E open \in BOOLEAN : SetWindow(open)
  PROVE  StakesStay
<1>0. stake' \in [Ranks -> [Sellers -> [shares : Nat, debt : Nat, claimable : Nat]]]
  BY DEF TrancheInv, TranchedTyped
<1>1. /\ stake' = stake /\ paidOut' = paidOut
      /\ tranche' = tranche \/ \E premium \in Int : Distribute(premium)
  <2>1. CASE \E b \in Buyers, cover \in Covers : BuyProtection(b, cover)
    <3>1. PICK b \in Buyers, cover \in Covers : BuyProtection(b, cover)
      BY <2>1
    <3>2. PremiumOf(cover) \in Nat
      BY <3>1, PremiumOfType, AmountsAssumption DEF BuyProtection
    <3> QED BY <3>1, <3>2 DEF BuyProtection, historyVars
  <2>2. CASE \E amount \in Amounts : SendPremium(amount)
    BY <2>2 DEF SendPremium, historyVars
  <2>3. CASE \E amount \in Amounts : ReceivePremium(amount)
    BY <2>3, AmountsAssumption DEF ReceivePremium, historyVars
  <2>4. CASE ClaimProtocolFee
    BY <2>4 DEF ClaimProtocolFee, historyVars
  <2>5. CASE \E open \in BOOLEAN : SetWindow(open)
    BY <2>5 DEF SetWindow, historyVars
  <2> QED BY <2>1, <2>2, <2>3, <2>4, <2>5
<1> QED BY <1>0, <1>1, DistributeStays DEF StakesStay

LEMMA ClaimStays ==
  ASSUME TrancheInv, TrancheInv', NEW s \in Sellers, NEW r \in Ranks, ClaimPremium(s, r)
  PROVE  StakesStay
<1>1. /\ stake' = [Stake(r, s, stake[r][s].shares) EXCEPT ![r][s].claimable = 0]
      /\ tranche' = tranche /\ paidOut' = paidOut
  BY DEF ClaimPremium, historyVars
<1>2. /\ stake \in [Ranks -> [Sellers -> [shares : Nat, debt : Nat, claimable : Nat]]]
      /\ stake' \in [Ranks -> [Sellers -> [shares : Nat, debt : Nat, claimable : Nat]]]
  BY DEF TrancheInv, TranchedTyped
<1> DEFINE w == Stake(r, s, stake[r][s].shares)
           kept == [shares |-> stake[r][s].shares, debt |-> Granted(r, stake[r][s].shares),
                    claimable |-> stake[r][s].claimable + Pending(r, s)]
<1>3. w = [stake EXCEPT ![r] = [stake[r] EXCEPT ![s] = kept]]
  BY DEF Stake, DebtOf
<1>4. kept.shares = stake[r][s].shares /\ DOMAIN kept = {"shares", "debt", "claimable"}
  OBVIOUS
<1> HIDE DEF w, kept
<1>5. stake' = [w EXCEPT ![r] = [w[r] EXCEPT ![s] = [w[r][s] EXCEPT !.claimable = 0]]]
  BY <1>1 DEF w
<1>6. /\ w \in [Ranks -> [Sellers -> {kept} \cup [shares : Nat, debt : Nat, claimable : Nat]]]
      /\ w[r][s] = kept
      /\ \A q \in Ranks, x \in Sellers : q # r \/ x # s => w[q][x] = stake[q][x]
  BY <1>2, <1>3
<1>7. /\ stake'[r][s] = [kept EXCEPT !.claimable = 0]
      /\ \A q \in Ranks, x \in Sellers : q # r \/ x # s => stake'[q][x] = stake[q][x]
  BY <1>5, <1>6
<1>8. stake'[r][s].shares = stake[r][s].shares
  BY <1>4, <1>7
<1> QED BY <1>1, <1>2, <1>7, <1>8 DEF StakesStay

\* n shares of a tranche of m are worth no less when it becomes c2 for m2 at no
\* smaller a ratio.
LEMMA ValueKept ==
  ASSUME NEW n \in Nat, NEW n2 \in Nat, n <= n2, NEW c \in Nat, NEW c2 \in Nat,
         NEW m \in Nat \ {0}, NEW m2 \in Nat \ {0}, c * m2 <= c2 * m
  PROVE  (n * c) \div m <= (n2 * c2) \div m2
<1> DEFINE q == (n * c) \div m
           x == q * m2
           y == n * c2
           z == n2 * c2
<1>1. n * c \in Nat /\ c * m2 \in Nat /\ c2 * m \in Nat /\ y \in Nat /\ z \in Nat
  OBVIOUS
<1>2. q \in Nat /\ q * m <= n * c
  <2> DEFINE u == n * c
  <2>1. u \in Nat
    OBVIOUS
  <2> HIDE DEF u
  <2>2. u \div m \in Nat /\ (u \div m) * m <= u
    BY <2>1, GrantRounding
  <2> QED BY <2>2 DEF u
<1> HIDE DEF q
<1>3. x * m <= y * m
  <2>1. m2 * (q * m) <= m2 * (n * c)
    <3>1. q * m \in Nat
      BY <1>2
    <3> QED BY <1>1, <1>2, <3>1, ProductMonotone
  <2>2. n * (c * m2) <= n * (c2 * m)
    BY <1>1, ProductMonotone
  <2>3. x * m = m2 * (q * m) /\ m2 * (n * c) = n * (c * m2) /\ y * m = n * (c2 * m)
    BY <1>2
  <2>4. m2 * (q * m) \in Nat /\ n * (c * m2) \in Nat /\ n * (c2 * m) \in Nat
    BY <1>2
  <2> QED BY <2>1, <2>2, <2>3, <2>4
<1>4. x \in Nat
  BY <1>2
<1>5. x <= y
  <2> HIDE DEF x, y
  <2>1. SUFFICES ASSUME y + 1 <= x PROVE FALSE
    BY <1>1, <1>4
  <2>2. m * (y + 1) <= m * x
    BY <1>1, <1>4, <2>1, ProductMonotone
  <2>3. m * (y + 1) = y * m + m /\ m * x = x * m /\ y * m \in Nat /\ x * m \in Nat
    BY <1>1, <1>4
  <2> QED BY <1>3, <2>2, <2>3
<1>6. y <= z
  <2>1. c2 * n <= c2 * n2
    BY ProductMonotone
  <2> QED BY <2>1
<1>7. q * m2 <= z
  <2> HIDE DEF y, z
  <2>1. x <= z
    BY <1>1, <1>4, <1>5, <1>6
  <2> QED BY <2>1
<1> HIDE DEF z
<1>8. q <= z \div m2
  BY <1>1, <1>2, <1>7, QuotientBounds
<1> QED BY <1>8 DEF q, z

\* n shares of a tranche, and those minted for a deposit, are worth what they
\* were and the deposit, less rounding: a share is worth at most a token.
LEMMA DepositValue ==
  ASSUME NEW n \in Nat, NEW m \in Nat, NEW c \in Nat \ {0}, NEW a \in Nat \ {0},
         n <= m, c <= m
  PROVE  LET k == (a * m) \div c
         IN  (n * c) \div m + a <= ((n + k) * (c + a)) \div (m + k) + 1
<1> DEFINE am == a * m
           k == am \div c
           q == (n * c) \div m
           w == m - n
<1>1. m \in Nat \ {0} /\ am \in Nat /\ n * c \in Nat /\ w \in Nat /\ m = n + w
  OBVIOUS
<1> HIDE DEF w
<1>2. k \in Nat /\ k * c <= am /\ am < k * c + c
  <2> HIDE DEF am
  <2>1. k \in Nat /\ am % c \in Nat /\ am = k * c + (am % c)
    BY <1>1, GrantRounding
  <2>2. am % c < c
    BY <1>1
  <2>3. k * c \in Nat
    BY <2>1
  <2> HIDE DEF k
  <2> QED BY <2>1, <2>2, <2>3
<1>3. q \in Nat /\ q * m <= n * c
  <2> DEFINE u == n * c
  <2>1. u \in Nat
    OBVIOUS
  <2> HIDE DEF u
  <2>2. u \div m \in Nat /\ (u \div m) * m <= u
    <3>1. m \in Nat \ {0}
      BY <1>1
    <3>2. u \div m \in Nat /\ u % m \in Nat /\ u = (u \div m) * m + (u % m)
      BY ONLY <2>1, <3>1, GrantRounding
    <3>3. (u \div m) * m \in Nat
      BY <3>1, <3>2
    <3> HIDE DEF k, q, am
    <3> QED BY <3>2, <3>3
  <2> QED BY <2>2 DEF u
<1> HIDE DEF k, q
<1>4. PICK b \in Nat : a = b + 1
  <2>1. a - 1 \in Nat /\ a = (a - 1) + 1
    OBVIOUS
  <2> QED BY <2>1
<1> DEFINE g == q + b
           x == (n + k) * (c + a)
           d == m + k
<1>5. g \in Nat /\ d \in Nat \ {0} /\ x \in Nat
  BY <1>1, <1>2, <1>3, <1>4
<1>6. (g * d) * m <= x * m
  <2>1. am * w <= (k * c) * w + c * w
    <3>1. PICK e \in Nat : e = k * c + c
      BY <1>2
    <3>2. w * am <= w * e
      BY <1>1, <1>2, <3>1, ProductMonotone
    <3>3. w * e = (k * c) * w + c * w /\ w * am = am * w
      BY <1>1, <1>2, <3>1
    <3> QED BY <3>2, <3>3
  <2>2. c * w <= m * m
    <3>1. c * w <= c * m
      BY <1>1, ProductMonotone
    <3>2. m * c <= m * m
      BY <1>1, ProductMonotone
    <3>3. m * c = c * m /\ c * w \in Nat /\ c * m \in Nat /\ m * m \in Nat
      BY <1>1
    <3> QED BY <3>1, <3>2, <3>3
  <2>3. (q * m) * d <= (n * c) * d
    <3>1. q * m \in Nat
      BY <1>1, <1>3
    <3>2. d * (q * m) <= d * (n * c)
      BY <1>1, <1>3, <1>5, <3>1, ProductMonotone
    <3> QED BY <1>1, <1>3, <1>5, <3>1, <3>2
  <2>4. (g * d) * m = (q * m) * d + (b * m) * d
    BY <1>1, <1>3, <1>4, <1>5
  <2>5. (b * m) * d + (m * m + k * m) = am * m + am * k
    <3>1. b * m + m = am
      BY <1>4
    <3>2. PICK v \in Nat : v = b * m
      BY <1>1, <1>4
    <3>3. v * (m + k) + (m * m + k * m) = (v + m) * m + (v + m) * k
      BY <1>1, <1>2, <3>2
    <3> QED BY <3>1, <3>2, <3>3
  <2>6. x * m = (n * c) * m + (k * c) * m + am * n + am * k
    <3>1. x * m = (n * c) * m + (k * c) * m + (n * a) * m + (k * a) * m
      BY <1>1, <1>2
    <3>2. (n * a) * m = am * n /\ (k * a) * m = am * k
      BY <1>1, <1>2
    <3> QED BY <3>1, <3>2
  <2>7. am * m = am * n + am * w
    BY <1>1
  <2>8. (n * c) * d = (n * c) * m + (k * c) * n
    BY <1>1, <1>2
  <2>9. (k * c) * m = (k * c) * n + (k * c) * w
    BY <1>1, <1>2
  <2>10. /\ am * w \in Nat /\ (k * c) * w \in Nat /\ c * w \in Nat /\ m * m \in Nat
         /\ k * m \in Nat /\ (q * m) * d \in Nat /\ (n * c) * d \in Nat
         /\ (b * m) * d \in Nat /\ am * m \in Nat /\ am * k \in Nat /\ am * n \in Nat
         /\ (n * c) * m \in Nat /\ (k * c) * m \in Nat /\ (k * c) * n \in Nat
    BY <1>1, <1>2, <1>3, <1>4, <1>5
  <2> HIDE DEF am, d, x, g
  <2> QED BY <2>1, <2>2, <2>3, <2>4, <2>5, <2>6, <2>7, <2>8, <2>9, <2>10
<1>7. g * d \in Nat
  BY <1>5
<1> HIDE DEF g, x, d
<1>8. g * d <= x
  <2> DEFINE y == g * d
  <2>1. y \in Nat
    BY <1>7
  <2>2. y * m <= x * m
    BY <1>6
  <2> HIDE DEF y
  <2>3. SUFFICES ASSUME x + 1 <= y PROVE FALSE
    BY <1>5, <2>1 DEF y
  <2>4. m * (x + 1) <= m * y
    BY <1>1, <1>5, <2>1, <2>3, ProductMonotone
  <2>5. m * (x + 1) = x * m + m /\ m * y = y * m /\ x * m \in Nat /\ y * m \in Nat
    BY <1>1, <1>5, <2>1
  <2> QED BY <1>1, <2>2, <2>4, <2>5
<1>9. g <= x \div d /\ x \div d \in Nat
  BY <1>5, <1>8, QuotientBounds
<1>10. q + a <= x \div d + 1
  BY <1>3, <1>4, <1>9 DEF g
<1> QED BY <1>10 DEF q, x, d, k, am

LEMMA SharesTouched ==
  ASSUME TrancheInv, NEW r \in Ranks, NEW s \in Sellers, NEW n \in Nat,
         stake' = Stake(r, s, n)
  PROVE  \A q \in Ranks, x \in Sellers :
           stake'[q][x].shares = IF q = r /\ x = s THEN n ELSE stake[q][x].shares
<1> DEFINE row == [shares |-> n, debt |-> DebtOf(r, s, n),
                   claimable |-> stake[r][s].claimable + Pending(r, s)]
<1>1. /\ stake \in [Ranks -> [Sellers -> [shares : Nat, debt : Nat, claimable : Nat]]]
      /\ stake' = [stake EXCEPT ![r] = [stake[r] EXCEPT ![s] = row]]
  BY DEF TrancheInv, TranchedTyped, Stake
<1>2. row.shares = n
  OBVIOUS
<1> HIDE DEF row
<1>3. /\ stake'[r][s] = row
      /\ \A q \in Ranks, x \in Sellers : ~(q = r /\ x = s) => stake'[q][x] = stake[q][x]
  BY <1>1
<1> QED BY <1>2, <1>3

LEMMA ValueType ==
  ASSUME TrancheInv, NEW r \in Ranks, NEW s \in Sellers
  PROVE  /\ Value(r, s) \in Nat
         /\ tranche[r].coll \in Nat /\ tranche[r].shares \in Nat
         /\ tranche[r].coll <= tranche[r].shares
         /\ stake[r][s].shares \in Nat /\ stake[r][s].shares <= tranche[r].shares
<1>1. /\ tranche[r].coll \in Nat /\ tranche[r].shares \in Nat
      /\ tranche[r].coll <= tranche[r].shares
      /\ stake[r][s].shares \in Nat /\ stake[r][s].shares <= tranche[r].shares
  BY StakeFigures DEF TrancheInv, TranchedTyped, TrancheOK
<1>2. Value(r, s) \in Nat
  <2>1. CASE tranche[r].shares = 0
    BY <2>1 DEF Value
  <2>2. CASE tranche[r].shares # 0
    <3>1. tranche[r].shares \in Nat \ {0}
      BY <1>1, <2>2
    <3>2. (stake[r][s].shares * tranche[r].coll) \div tranche[r].shares \in Nat
      BY <1>1, <3>1, ScaledType
    <3> QED BY <2>2, <3>2 DEF Value
  <2> QED BY <2>1, <2>2
<1> QED BY <1>1, <1>2

LEMMA NextValueType ==
  ASSUME TrancheInv', NEW r \in Ranks, NEW s \in Sellers
  PROVE  Value(r, s)' \in Nat
<1> DEFINE c == tranche'[r].coll
           m == tranche'[r].shares
           n == stake'[r][s].shares
<1>1. c \in Nat /\ m \in Nat /\ n \in Nat
  BY DEF TrancheInv, TranchedTyped
<1>2. Value(r, s)' = IF m = 0 THEN 0 ELSE (n * c) \div m
  BY DEF Value
<1> HIDE DEF c, m, n
<1>3. m # 0 => (n * c) \div m \in Nat
  BY <1>1, ScaledType
<1> QED BY <1>2, <1>3

\* What a deposit does to the value of a stake.
LEMMA DepositValues ==
  ASSUME TrancheInv, TrancheInv', NEW s \in Sellers, NEW r \in Ranks,
         NEW amount \in Amounts, Deposit(s, r, amount),
         NEW q \in Ranks, NEW x \in Sellers
  PROVE  /\ ~(Value(q, x)' < Value(q, x))
         /\ ~Wiped(q) => KeepsDeposit(q, x)
<1> DEFINE c == tranche[r].coll
           m == tranche[r].shares
           n == stake[r][x].shares
           mint == Minted(r, amount)
           n2 == IF x = s THEN n + mint ELSE n
<1>1. /\ c \in Nat /\ m \in Nat /\ c <= m /\ n \in Nat /\ n <= m
      /\ Value(q, x) \in Nat /\ Value(q, x)' \in Nat
      /\ amount \in Nat \ {0}
  BY AmountsAssumption, ValueType, NextValueType DEF Deposit
<1>2. mint \in Nat /\ amount <= mint
  BY <1>1, MintedBounds
<1>3. /\ tranche' = [tranche EXCEPT ![r] = [coll |-> c + amount, shares |-> m + mint,
                                            acc |-> tranche[r].acc]]
      /\ tranche \in [Ranks -> [coll : Nat, shares : Nat, acc : Nat]]
      /\ wallet' = [wallet EXCEPT ![s] = wallet[s] - amount]
      /\ wallet \in [Accounts -> Nat] /\ x \in Accounts
  BY DEF Deposit, TransferIn, TrancheInv, TranchedTyped, Accounts
<1>4. mint = IF m = 0 \/ c = 0 THEN amount ELSE (amount * m) \div c
  BY DEF Minted
<1>5. \A y \in Ranks, z \in Sellers :
        stake'[y][z].shares = IF y = r /\ z = s THEN stake[r][s].shares + mint
                                                ELSE stake[y][z].shares
  <2>1. stake' = Stake(r, s, stake[r][s].shares + mint)
    BY DEF Deposit
  <2>2. stake[r][s].shares + mint \in Nat
    BY <1>2, ValueType
  <2> QED BY <2>1, <2>2, SharesTouched
<1>w. ~(x = s) => ~(wallet'[x] < wallet[x])
  BY <1>3
<1>6. CASE q = r
  <2>1. /\ tranche'[q].coll = c + amount /\ tranche'[q].shares = m + mint
        /\ stake'[q][x].shares = n2
    BY <1>3, <1>5, <1>6
  <2>2. n2 \in Nat /\ n <= n2 /\ m + mint \in Nat \ {0} /\ c + amount \in Nat
    BY <1>1, <1>2
  <2>3. /\ Value(q, x) = IF m = 0 THEN 0 ELSE (n * c) \div m
        /\ Value(q, x)' = (n2 * (c + amount)) \div (m + mint)
    BY <1>6, <2>1, <2>2 DEF Value
  <2>4. tranche'[q].coll - tranche[q].coll = amount
    BY <1>1, <1>6, <2>1
  <2> HIDE DEF c, m, mint
  <2>5. CASE m = 0
    <3>1. c = 0 /\ n = 0 /\ mint = amount
      BY <1>1, <1>4, <2>5
    <3>2. Value(q, x) = 0
      BY <2>3, <2>5
    <3>3. x = s => Value(q, x)' = amount
      <4>1. amount * amount \in Nat /\ amount * amount <= amount * amount
        BY <1>1
      <4>2. amount <= (amount * amount) \div amount /\ (amount * amount) \div amount <= amount
            /\ (amount * amount) \div amount \in Nat
        BY <1>1, <4>1, QuotientBounds
      <4>3. 0 + amount = amount
        BY <1>1
      <4> QED BY <1>1, <2>3, <2>5, <3>1, <4>2, <4>3
    <3> QED BY <1>1, <1>w, <2>4, <3>2, <3>3 DEF KeepsDeposit
  <2>6. CASE m # 0 /\ c = 0
    <3>1. Value(q, x) = 0
      <4>1. n * 0 = 0 /\ 0 \div m = 0
        BY <1>1, <2>6
      <4> QED BY <2>3, <2>6, <4>1
    <3>2. Wiped(q)
      BY <1>1, <1>6, <2>6 DEF Wiped, c, m
    <3> QED BY <1>1, <3>1, <3>2
  <2>7. CASE m # 0 /\ c # 0
    <3>1. mint = (amount * m) \div c
      BY <1>4, <2>7
    <3>2. c * (m + mint) <= (c + amount) * m
      <4>1. amount * m \in Nat /\ c \in Nat \ {0}
        BY <1>1, <2>7
      <4>2. mint * c <= amount * m
        <5> DEFINE u == amount * m
        <5> HIDE DEF u
        <5>1. u \in Nat
          BY <4>1 DEF u
        <5>2. u \div c \in Nat /\ u % c \in Nat /\ u = (u \div c) * c + (u % c)
          BY ONLY <4>1, <5>1, GrantRounding
        <5>3. (u \div c) * c \in Nat
          BY <4>1, <5>2
        <5>4. (u \div c) * c <= u
          BY <5>2, <5>3
        <5> QED BY <3>1, <5>4 DEF u
      <4>3. c * (m + mint) = c * m + mint * c /\ (c + amount) * m = c * m + amount * m
        BY <1>1, <1>2
      <4>4. c * m \in Nat /\ mint * c \in Nat
        BY <1>1, <1>2
      <4> QED BY <4>1, <4>2, <4>3, <4>4
    <3>3. Value(q, x) = (n * c) \div m
      BY <2>3, <2>7
    <3>4. Value(q, x) <= Value(q, x)'
      <4>1. m \in Nat \ {0} /\ n \in Nat /\ c \in Nat
        BY <1>1, <2>7
      <4> HIDE DEF n, n2
      <4>2. (n * c) \div m <= (n2 * (c + amount)) \div (m + mint)
        BY ONLY <2>2, <3>2, <4>1, ValueKept
      <4> QED BY <2>3, <3>3, <4>2
    <3>5. x = s => Value(q, x) + amount <= Value(q, x)' + 1
      <4>1. c \in Nat \ {0} /\ m \in Nat /\ n \in Nat /\ n <= m /\ c <= m
        BY <1>1, <2>7
      <4>2. amount \in Nat \ {0}
        BY <1>1
      <4> HIDE DEF n
      <4>3. (n * c) \div m + amount
              <= ((n + mint) * (c + amount)) \div (m + mint) + 1
        BY <3>1, <4>1, <4>2, DepositValue
      <4> QED BY <2>3, <3>3, <4>3
    <3> QED BY <1>1, <1>w, <2>4, <3>4, <3>5 DEF KeepsDeposit
  <2> QED BY <2>5, <2>6, <2>7
<1>7. CASE q # r
  <2>1. /\ tranche'[q] = tranche[q] /\ stake'[q][x].shares = stake[q][x].shares
    BY <1>3, <1>5, <1>7
  <2>2. Value(q, x)' = Value(q, x)
    BY <2>1 DEF Value
  <2>3. tranche'[q].coll - tranche[q].coll = 0
    BY <2>1, ValueType
  <2> QED BY <1>1, <2>2, <2>3 DEF KeepsDeposit
<1> QED BY <1>6, <1>7

\* What a withdrawal does to the value of the other stakes.
LEMMA WithdrawValues ==
  ASSUME TrancheInv, TrancheInv', NEW s \in Sellers, NEW r \in Ranks,
         NEW burn \in Burns, Withdraw(s, r, burn),
         NEW q \in Ranks, NEW x \in Sellers
  PROVE  /\ Value(q, x)' < Value(q, x) => stake'[q][x].shares < stake[q][x].shares
         /\ tranche'[q].coll <= tranche[q].coll
<1> DEFINE c == tranche[r].coll
           m == tranche[r].shares
           n == stake[r][x].shares
           back == Redeemed(r, burn)
<1>1. /\ c \in Nat /\ m \in Nat /\ n \in Nat /\ tranche[q].coll \in Nat
      /\ Value(q, x) \in Nat /\ Value(q, x)' \in Nat
      /\ burn \in Nat \ {0} /\ burn <= stake[r][s].shares /\ burn <= m
      /\ stake[r][s].shares \in Nat /\ stake[r][s].shares - burn \in Nat
  BY AmountsAssumption, ValueType, NextValueType DEF Withdraw
<1>2. back \in 0..c /\ back = (burn * c) \div m
  BY <1>1, RedeemedBounds DEF Redeemed
<1>3. /\ tranche' = [tranche EXCEPT ![r] = [coll |-> c - back, shares |-> m - burn,
                                            acc |-> tranche[r].acc]]
      /\ tranche \in [Ranks -> [coll : Nat, shares : Nat, acc : Nat]]
  BY DEF Withdraw, TrancheInv, TranchedTyped
<1>4. \A y \in Ranks, z \in Sellers :
        stake'[y][z].shares = IF y = r /\ z = s THEN stake[r][s].shares - burn
                                                ELSE stake[y][z].shares
  <2>1. stake' = Stake(r, s, stake[r][s].shares - burn)
    BY DEF Withdraw
  <2> QED BY <1>1, <2>1, SharesTouched
<1>5. CASE q = r /\ x = s
  <2>1. stake'[q][x].shares < stake[q][x].shares
    BY <1>1, <1>4, <1>5
  <2>2. tranche'[q].coll = c - back
    BY <1>3, <1>5
  <2> QED BY <1>1, <1>2, <1>5, <2>1, <2>2
<1>6. CASE q = r /\ x # s
  <2>1. /\ tranche'[q].coll = c - back /\ tranche'[q].shares = m - burn
        /\ stake'[q][x].shares = n
    BY <1>3, <1>4, <1>6
  <2>2. m \in Nat \ {0} /\ m - burn \in Nat /\ c - back \in Nat /\ back \in Nat
    BY <1>1, <1>2
  <2>3. /\ Value(q, x) = (n * c) \div m
        /\ Value(q, x)' = IF m - burn = 0 THEN 0 ELSE (n * (c - back)) \div (m - burn)
    BY <1>6, <2>1, <2>2 DEF Value
  <2>4. n <= m - burn
    <3> DEFINE l == Book(r)'
    <3>1. /\ IsLedger(Sellers, l, tranche'[r].acc, AccScale)
          /\ Total(StakesIn(l)) = tranche'[r].shares
          /\ StakesIn(l)[x] = stake'[r][x].shares
      BY DEF TrancheInv, TrancheOK, Book, StakesIn
    <3> HIDE DEF l
    <3>2. StakesIn(l)[x] <= Total(StakesIn(l))
      BY <3>1, LedgerTypes, PartiesFinite, TotalBoundsPoint
    <3> QED BY <1>6, <2>1, <3>1, <3>2
  <2> HIDE DEF c, m, n, back
  <2>5. c * (m - burn) <= (c - back) * m
    <3> DEFINE u == burn * c
    <3>1. u \in Nat
      BY <1>1
    <3> HIDE DEF u
    <3>2. back = u \div m
      BY <1>2 DEF u
    <3>3. u \div m \in Nat /\ u % m \in Nat /\ u = (u \div m) * m + (u % m)
      BY ONLY <2>2, <3>1, GrantRounding
    <3>4. back * m <= u
      <4>1. back * m \in Nat
        BY <2>2
      <4> QED BY <3>2, <3>3, <4>1
    <3>5. c * (m - burn) = c * m - u /\ (c - back) * m = c * m - back * m
      BY <1>1, <2>2 DEF u
    <3>6. c * m \in Nat /\ back * m \in Nat
      BY <1>1, <2>2
    <3> QED BY <3>1, <3>4, <3>5, <3>6
  <2>6. CASE m - burn = 0
    <3>1. n = 0
      BY <1>1, <2>2, <2>4, <2>6
    <3>2. 0 * c = 0 /\ 0 \div m = 0
      BY <1>1, <2>2
    <3>3. Value(q, x) = 0
      BY <2>3, <3>1, <3>2
    <3>4. ~(Value(q, x)' < Value(q, x))
      BY <1>1, <3>3
    <3>5. c - back <= c
      BY <1>1, <2>2
    <3>6. tranche[q].coll = c
      BY <1>6 DEF c
    <3> QED BY <2>1, <3>4, <3>5, <3>6
  <2>7. CASE m - burn # 0
    <3>1. m - burn \in Nat \ {0} /\ n <= n /\ n \in Nat /\ c \in Nat
      BY <1>1, <2>2, <2>7
    <3>2. (n * c) \div m <= (n * (c - back)) \div (m - burn)
      BY ONLY <2>2, <2>5, <3>1, ValueKept
    <3>3. Value(q, x) <= Value(q, x)'
      BY <2>3, <2>7, <3>2
    <3>4. ~(Value(q, x)' < Value(q, x))
      BY <1>1, <3>3
    <3>5. c - back <= c
      BY <1>1, <2>2
    <3>6. tranche[q].coll = c
      BY <1>6 DEF c
    <3> QED BY <2>1, <3>4, <3>5, <3>6
  <2> QED BY <2>6, <2>7
<1>7. CASE q # r
  <2>1. tranche'[q] = tranche[q] /\ stake'[q][x].shares = stake[q][x].shares
    BY <1>3, <1>4, <1>7
  <2>2. Value(q, x)' = Value(q, x)
    BY <2>1 DEF Value
  <2> QED BY <1>1, <2>1, <2>2
<1> QED BY <1>5, <1>6, <1>7

\* What a step may do to the tranches and the stakes: the bodies of JuniorFirst,
\* NobodyDiluted and LiveTrancheKeepsDeposits.
LossFromBelow ==
  \A r \in Ranks :
    paidOut' > paidOut /\ tranche'[r].coll < tranche[r].coll =>
      \A q \in Ranks : q < r => tranche'[q].coll = 0
ValuesKept ==
  \A r \in Ranks, s \in Sellers :
    Value(r, s)' < Value(r, s) =>
      paidOut' > paidOut \/ stake'[r][s].shares < stake[r][s].shares
DepositsKept == \A r \in Ranks, s \in Sellers : ~Wiped(r) => KeepsDeposit(r, s)
Fair == LossFromBelow /\ ValuesKept /\ DepositsKept

LEMMA StaysFair ==
  ASSUME TrancheInv, StakesStay
  PROVE  Fair
<1>1. paidOut \in Nat /\ paidOut' = paidOut
  BY DEF TrancheInv, TranchedTyped, StakesStay
<1>2. ~(paidOut' > paidOut)
  BY <1>1
<1>3. ASSUME NEW r \in Ranks, NEW s \in Sellers
      PROVE  /\ Value(r, s)' = Value(r, s) /\ Value(r, s) \in Nat
             /\ tranche'[r].coll - tranche[r].coll = 0
  BY ValueType DEF StakesStay, Value
<1>4. ASSUME NEW r \in Ranks, NEW s \in Sellers
      PROVE  ~(Value(r, s)' < Value(r, s)) /\ KeepsDeposit(r, s)
  BY <1>3 DEF KeepsDeposit
<1> QED BY <1>2, <1>4 DEF Fair, LossFromBelow, ValuesKept, DepositsKept

LEMMA DepositFair ==
  ASSUME TrancheInv, TrancheInv', NEW s \in Sellers, NEW r \in Ranks,
         NEW amount \in Amounts, Deposit(s, r, amount)
  PROVE  Fair
<1>1. paidOut \in Nat /\ paidOut' = paidOut
  BY DEF TrancheInv, TranchedTyped, Deposit
<1>2. ~(paidOut' > paidOut)
  BY <1>1
<1> QED BY <1>2, DepositValues DEF Fair, LossFromBelow, ValuesKept, DepositsKept

LEMMA WithdrawFair ==
  ASSUME TrancheInv, TrancheInv', NEW s \in Sellers, NEW r \in Ranks,
         NEW burn \in Burns, Withdraw(s, r, burn)
  PROVE  Fair
<1>1. paidOut \in Nat /\ paidOut' = paidOut
  BY DEF TrancheInv, TranchedTyped, Withdraw
<1>2. ~(paidOut' > paidOut)
  BY <1>1
<1>3. ASSUME NEW q \in Ranks, NEW x \in Sellers PROVE KeepsDeposit(q, x)
  <2>1. tranche'[q].coll <= tranche[q].coll
    BY WithdrawValues
  <2>2. tranche[q].coll \in Nat /\ tranche'[q].coll \in Nat
    BY DEF TrancheInv, TranchedTyped
  <2>3. ~(tranche'[q].coll - tranche[q].coll > 0)
    <3>1. PICK u \in Nat, v \in Nat : u = tranche'[q].coll /\ v = tranche[q].coll
      BY <2>2
    <3>2. u <= v => ~(u - v > 0)
      OBVIOUS
    <3> QED BY <2>1, <3>1, <3>2
  <2> QED BY <2>3 DEF KeepsDeposit
<1> QED BY <1>2, <1>3, WithdrawValues DEF Fair, LossFromBelow, ValuesKept, DepositsKept

LEMMA PayoutFair ==
  ASSUME TrancheInv, TrancheInv', NEW allocs \in AllocationLists, PayAllocations(allocs)
  PROVE  Fair
<1>1. LossFromBelow
  BY PayoutFromBelow DEF LossFromBelow
<1>2. stake' = stake
  BY DEF PayAllocations
<1>3. ValuesKept
  <2>1. ASSUME NEW r \in Ranks, NEW s \in Sellers, ~(paidOut' > paidOut)
        PROVE  ~(Value(r, s)' < Value(r, s))
    <3>1. tranche'[r] = tranche[r]
      BY <2>1, EmptyPayout
    <3>2. Value(r, s)' = Value(r, s)
      BY <1>2, <3>1 DEF Value
    <3>3. Value(r, s) \in Nat
      BY ValueType
    <3> QED BY <3>2, <3>3
  <2> QED BY <2>1 DEF ValuesKept
<1>4. ASSUME NEW r \in Ranks, NEW s \in Sellers PROVE KeepsDeposit(r, s)
  <2> DEFINE loss == AllocationSum(allocs)
  <2>1. loss \in Nat /\ loss <= totalCollateral
    BY ListsAssumption, PaymentsType DEF PayAllocations
  <2>2. tranche'[r] = [tranche[r] EXCEPT !.coll = @ - Absorbed(r, loss)]
    BY DEF PayAllocations
  <2> HIDE DEF loss
  <2>3. Absorbed(r, loss) \in 0..tranche[r].coll
    BY <2>1, AbsorbedInAll
  <2>4. tranche[r] \in [coll : Nat, shares : Nat, acc : Nat]
    BY DEF TrancheInv, TranchedTyped
  <2>5. tranche'[r].coll = tranche[r].coll - Absorbed(r, loss)
    BY <2>2, <2>4
  <2>6. ~(tranche'[r].coll - tranche[r].coll > 0)
    BY <2>3, <2>4, <2>5
  <2> QED BY <2>6 DEF KeepsDeposit
<1> QED BY <1>1, <1>3, <1>4 DEF Fair, DepositsKept

LEMMA StutterStays ==
  ASSUME TrancheInv, UNCHANGED <<tranche, stake, paidOut>>
  PROVE  StakesStay
BY DEF TrancheInv, TranchedTyped, StakesStay

LEMMA TranchedStepFair ==
  ASSUME TrancheInv, TrancheInv', [TranchedNext]_tranchedVars
  PROVE  Fair
<1>1. CASE \E s \in Sellers, r \in Ranks, amount \in Amounts : Deposit(s, r, amount)
  BY <1>1, DepositFair
<1>2. CASE \/ \E b \in Buyers, cover \in Covers : BuyProtection(b, cover)
           \/ \E amount \in Amounts : SendPremium(amount)
           \/ \E amount \in Amounts : ReceivePremium(amount)
           \/ ClaimProtocolFee
           \/ \E open \in BOOLEAN : SetWindow(open)
  BY <1>2, PremiumStays, StaysFair
<1>3. CASE \E s \in Sellers, r \in Ranks : ClaimPremium(s, r)
  BY <1>3, ClaimStays, StaysFair
<1>4. CASE \E s \in Sellers, r \in Ranks, burn \in Burns : Withdraw(s, r, burn)
  BY <1>4, WithdrawFair
<1>5. CASE \E allocs \in AllocationLists : folded > 0 /\ PayAllocations(allocs)
  BY <1>5, PayoutFair
<1>6. CASE UNCHANGED tranchedVars
  <2>1. UNCHANGED <<tranche, stake, paidOut>>
    BY <1>6 DEF tranchedVars, historyVars
  <2> QED BY <2>1, StutterStays, StaysFair
<1> QED BY <1>1, <1>2, <1>3, <1>4, <1>5, <1>6 DEF TranchedNext

LEMMA HiddenStepFair ==
  ASSUME TrancheInv, TrancheInv', [HiddenNext]_hiddenTranchedVars
  PROVE  Fair
<1>1. CASE \E s \in Sellers, r \in Ranks, amount \in Amounts : HiddenDeposit(s, r, amount)
  BY <1>1, DepositFair DEF HiddenDeposit
<1>2. CASE \E b \in Buyers, sale \in Sales, premium \in HiddenPremiums :
             BuyProtectionProven(b, sale, premium)
  <2>1. PICK b \in Buyers, sale \in Sales, premium \in HiddenPremiums :
               BuyProtectionProven(b, sale, premium)
    BY <1>2
  <2>2. /\ stake' = stake /\ paidOut' = paidOut
        /\ tranche' = tranche \/ Distribute(premium)
    BY <2>1 DEF BuyProtectionProven, historyVars
  <2>3. StakesStay
    <3>1. stake \in [Ranks -> [Sellers -> [shares : Nat, debt : Nat, claimable : Nat]]]
      BY DEF TrancheInv, TranchedTyped
    <3>2. CASE tranche' = tranche
      BY <2>2, <3>1, <3>2 DEF StakesStay
    <3>3. CASE Distribute(premium)
      BY <2>2, <3>1, <3>3, DistributeStays DEF StakesStay
    <3> QED BY <2>2, <3>2, <3>3
  <2> QED BY <2>3, StaysFair
<1>3. CASE \/ HiddenClaimProtocolFee
           \/ \E open \in BOOLEAN : HiddenSetWindow(open)
  <2>1. ClaimProtocolFee \/ \E open \in BOOLEAN : SetWindow(open)
    BY <1>3 DEF HiddenClaimProtocolFee, HiddenSetWindow
  <2> QED BY <2>1, PremiumStays, StaysFair
<1>4. CASE \E s \in Sellers, r \in Ranks : HiddenClaimPremium(s, r)
  BY <1>4, ClaimStays, StaysFair DEF HiddenClaimPremium
<1>5. CASE \E s \in Sellers, r \in Ranks, burn \in Burns, exit \in Exits :
             WithdrawProven(s, r, burn, exit)
  BY <1>5, WithdrawFair DEF WithdrawProven
<1>6. CASE \E allocs \in AllocationLists : folded > 0 /\ HiddenPayAllocations(allocs)
  BY <1>6, PayoutFair DEF HiddenPayAllocations
<1>7. CASE UNCHANGED hiddenTranchedVars
  <2>1. UNCHANGED <<tranche, stake, paidOut>>
    BY <1>7 DEF hiddenTranchedVars, tranchedVars, historyVars
  <2> QED BY <2>1, StutterStays, StaysFair
<1> QED BY <1>1, <1>2, <1>3, <1>4, <1>5, <1>6, <1>7 DEF HiddenNext

\* Every step of either vault is fair.
LEMMA AlwaysFair ==
  /\ TranchedSpec => [][Fair]_tranchedVars
  /\ HiddenTranchedSpec => [][Fair]_tranchedVars
<1>1. (TrancheInv /\ FullyFunded) /\ (TrancheInv /\ FullyFunded)'
        /\ [TranchedNext]_tranchedVars => [Fair]_tranchedVars
  BY TranchedStepFair
<1>2. HiddenInv /\ HiddenInv' /\ [HiddenNext]_hiddenTranchedVars => [Fair]_tranchedVars
  BY HiddenStepFair DEF HiddenInv
<1>3. TranchedSpec => [][Fair]_tranchedVars
  BY <1>1, TrancheInvHolds, PTL DEF TranchedSpec
<1>4. HiddenTranchedSpec => [][Fair]_tranchedVars
  BY <1>2, HiddenInvHolds, PTL DEF HiddenTranchedSpec
<1> QED BY <1>3, <1>4

\* A payout reaches a tranche only when every junior one is empty, in any number
\* of tranches and after any history.
THEOREM JuniorFirstHolds ==
  (TranchedSpec => JuniorFirst) /\ (HiddenTranchedSpec => JuniorFirst)
<1>1. [Fair]_tranchedVars => [LossFromBelow]_tranchedVars
  BY DEF Fair
<1>2. TranchedSpec => [][LossFromBelow]_tranchedVars
  BY <1>1, AlwaysFair, PTL
<1>3. HiddenTranchedSpec => [][LossFromBelow]_tranchedVars
  BY <1>1, AlwaysFair, PTL
<1> QED BY <1>2, <1>3 DEF JuniorFirst, LossFromBelow

\* No stake loses value but to a payout or a withdrawal of its own, whatever the
\* rounding of the shares that others are minted and redeem.
THEOREM NobodyDilutedHolds ==
  (TranchedSpec => NobodyDiluted) /\ (HiddenTranchedSpec => NobodyDiluted)
<1>1. [Fair]_tranchedVars => [ValuesKept]_tranchedVars
  BY DEF Fair
<1>2. TranchedSpec => [][ValuesKept]_tranchedVars
  BY <1>1, AlwaysFair, PTL
<1>3. HiddenTranchedSpec => [][ValuesKept]_tranchedVars
  BY <1>1, AlwaysFair, PTL
<1> QED BY <1>2, <1>3 DEF NobodyDiluted, ValuesKept

\* A deposit in a tranche that is not wiped out is worth its amount to the
\* depositor, less at most one token of rounding, at any ratio of collateral to
\* shares that the vault can reach.
THEOREM DepositsKeptHolds ==
  /\ TranchedSpec => LiveTrancheKeepsDeposits
  /\ HiddenTranchedSpec => LiveTrancheKeepsDeposits
<1>1. [Fair]_tranchedVars => [DepositsKept]_tranchedVars
  BY DEF Fair
<1>2. TranchedSpec => [][DepositsKept]_tranchedVars
  BY <1>1, AlwaysFair, PTL
<1>3. HiddenTranchedSpec => [][DepositsKept]_tranchedVars
  BY <1>1, AlwaysFair, PTL
<1> QED BY <1>2, <1>3 DEF LiveTrancheKeepsDeposits, DepositsKept
===============================================================================
