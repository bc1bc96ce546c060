--------------------------- MODULE ClaimSettlement ---------------------------
(***************************************************************************)
(* The claimable settlement, contracts/claim_settlement/src/lib.rs: the    *)
(* keeper path of Settlement.tla and, once a grace period after the        *)
(* deadline is over, an escape hatch by which every buyer is paid on a     *)
(* proof of his own.  The two guests have different image_ids, so their    *)
(* artifacts are two sets: neither is accepted in the other's place.       *)
(***************************************************************************)
EXTENDS Settlement, ClaimGuest

CONSTANT Grace  \* seconds the keepers have the epoch for themselves

ASSUME GraceAssumption == Grace \in Nat

VARIABLES
  hasClaims,   \* DataKey::HasClaims(epoch)
  claimed,     \* DataKey::Claimed(epoch, address)
  claimProofs, \* the journals of the claim artifacts ever proved
  claims       \* history: the amount of each claim

claimVars == <<hasClaims, claimed, claimProofs, claims>>
allVars == <<vars, claimVars>>

ClaimInit ==
  /\ SettlementInit
  /\ hasClaims = [e \in Epochs |-> FALSE]
  /\ claimed = [e \in Epochs |-> {}]
  /\ claimProofs = {}
  /\ claims = [e \in Epochs |-> [b \in Buyers |-> 0]]

\* A buyer proves the position at place n of the current book.
ProveClaim(e, n) ==
  /\ ClaimProvable(Config[This], e, payments, positions, n)
  /\ EarlyProving \/ now > GuestDeadline(Config[This].schedule, e)
  /\ claimProofs' =
       claimProofs \cup {ClaimJournal(This, Config[This], e, payments, positions, n)}
  /\ UNCHANGED <<vars, hasClaims, claimed, claims>>

\* A direct claim blocks the full settlement; the mutant lets it through.
SettleRegardless(e) == TRUE
NoDirectClaims(e) == ~hasClaims[e]

\* settle: the checks of the generic contract and the mutual exclusion.
SettleUnclaimed(journal) ==
  /\ NoDirectClaims(journal.epoch)
  /\ Settle(journal)
  /\ UNCHANGED claimVars

\* One claim per epoch and address; the mutant forgets the address.
ClaimsAgain(journal) == TRUE
NotYetClaimed(journal) == journal.buyer \notin claimed[journal.epoch]

\* The address is added to those that claimed; the mutant keeps the last one.
LastClaimant(journal) == [claimed EXCEPT ![journal.epoch] = {journal.buyer}]
WithClaimant(journal) ==
  [claimed EXCEPT ![journal.epoch] = claimed[journal.epoch] \cup {journal.buyer}]

\* The grace period is over: deadline + grace is a sum of u64.
GraceOver(e) ==
  /\ ContractDeadline(e) + Grace <= U64Max
  /\ now > ContractDeadline(e) + Grace

\* claim_direct, with the claimant and the amount of the proof's allocation.
ClaimDirect(journal) ==
  /\ SameInstrument(journal)
  /\ DeadlineBound(journal)
  /\ BookCurrent(journal)
  /\ NotYetSettled(journal)
  /\ GraceOver(journal.epoch)
  /\ NotYetClaimed(journal)
  /\ claimed' = WithClaimant(journal)
  /\ hasClaims' = [hasClaims EXCEPT ![journal.epoch] = TRUE]
  /\ claims' = [claims EXCEPT ![journal.epoch][journal.buyer] = journal.amount]
  /\ PayAllocations(<<[buyer |-> journal.buyer, amount |-> journal.amount]>>)
  /\ UNCHANGED <<marketVars, proofs, settlementVars, claimProofs>>

\* A purchase: a buyer who can be claimed for declares what he committed to;
\* others may add commitments nobody can open.
Honest(commitment, cover) ==
  Faithful => (commitment \in Openings => commitment.cover = cover)

ClaimNext ==
  \/ Tick /\ UNCHANGED claimVars
  \/ \E holder \in HolderIds, amount \in CouponAmounts :
       PayCoupon(holder, amount) /\ UNCHANGED claimVars
  \/ \E q \in DOMAIN payments : Clawback(q) /\ UNCHANGED claimVars
  \/ \E e \in Epochs : Prove(This, e) /\ UNCHANGED claimVars
  \/ \E e \in Epochs : \E n \in DOMAIN positions : ProveClaim(e, n)
  \/ \E journal \in proofs : SettleUnclaimed(journal)
  \/ \E journal \in claimProofs : ClaimDirect(journal)
  \/ \E s \in Sellers, amount \in Amounts :
       SellerDeposit(s, amount) /\ UNCHANGED claimVars
  \/ \E s \in Sellers, amount \in Amounts :
       SellerWithdraw(s, amount) /\ UNCHANGED claimVars
  \/ \E commitment \in Commitments, cover \in Covers :
       /\ Honest(commitment, cover)
       /\ Len(positions) < MaxBook
       /\ BuyProtection(commitment, cover)
       /\ UNCHANGED <<marketVars, proofs, settlementVars, claimVars>>

ClaimSpec == ClaimInit /\ [][ClaimNext]_allVars

(* No keeper does anything: ledgers close, and as long as some buyer can   *)
(* prove or claim a position, one of them does.                            *)
ClaimFairness ==
  /\ WF_allVars(Tick /\ UNCHANGED claimVars)
  /\ WF_allVars(\E e \in Epochs : \E n \in DOMAIN positions : ProveClaim(e, n))
  /\ WF_allVars(\E journal \in claimProofs : ClaimDirect(journal))

FairClaimSpec == ClaimSpec /\ ClaimFairness

-----------------------------------------------------------------------------
\* Type of the state the claim path adds; the claimed addresses are those with
\* a claim on record.
ClaimTypeOK ==
  /\ hasClaims = [e \in Epochs |-> claimed[e] # {}]
  /\ claims \in [Epochs -> [Buyers -> Nat]]
  /\ claimed = [e \in Epochs |-> {b \in Buyers : claims[e][b] > 0}]

\* Both paths exclude each other, in whichever order keepers and buyers come:
\* an epoch is settled in full or claimed one by one, never both.
OnePathPerEpoch == \A e \in Epochs : ~(settled[e] /\ hasClaims[e])

\* All that ever left the vault to a buyer is what one settlement or one claim
\* per epoch paid him, whatever artifacts exist for it.
NoDoublePay ==
  \A b \in Buyers :
    wallet[b] = Total([e \in SettledEpochs |-> PaidTo(receipts[e].allocs, b)])
              + Total([e \in Epochs |-> claims[e][b]])

\* While one epoch is all that was ever paid, the collateral left covers every
\* buyer who has not claimed it yet: early claimants and sellers cannot take
\* what the later ones are owed.
LateClaimsFunded ==
  \A e \in Epochs :
    paidOut = Total(claims[e]) =>
      \A journal \in claimProofs :
        /\ journal.epoch = e
        /\ BookCurrent(journal) /\ NotYetClaimed(journal) /\ NotYetSettled(journal)
        => journal.amount <= totalCollateral

\* Position n of the book has something to claim for the missed epoch e.
Claimable(e, n) ==
  /\ now > ContractDeadline(e) + Grace
  /\ n \in DOMAIN positions
  /\ ClaimProvable(Config[This], e, payments, positions, n)

\* The positions of buyer b that somebody can open.
OpenableOf(b) ==
  {m \in DOMAIN positions : positions[m] \in Openings /\ positions[m].buyer = b}

\* What b claimed is, to the token, what position m is owed for a shortfall of
\* no more than the one known now: a clawback after the claim may have raised it.
ClaimedFor(e, b, m) ==
  \E short \in 1..SumShort(Config[This], ContractDeadline(e), payments) :
    claims[e][b] = Payout(positions[m].cover, short, SumOwed(Config[This]))

OwnerPaid(e, n) ==
  \/ settled[e]
  \/ /\ n \in DOMAIN positions /\ positions[n] \in Openings
     /\ LET b == positions[n].buyer
        IN  b \in claimed[e] /\ \E m \in OpenableOf(b) : ClaimedFor(e, b, m)

\* Without any keeper, whoever owns a position in a missed epoch is paid for one
\* of his positions in the end, for his only one if he has one, whatever other
\* commitments stay closed in the book.  For the others nothing is promised:
\* whoever submits the first claim chooses the position, and the epoch is then
\* closed to its owner.
NobodyWithholds ==
  \A e \in Epochs, n \in 1..MaxBook : Claimable(e, n) ~> OwnerPaid(e, n)
=============================================================================
