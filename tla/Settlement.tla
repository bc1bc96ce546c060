----------------------------- MODULE Settlement -----------------------------
(***************************************************************************)
(* One protection instrument: the vault, the generic settlement contract   *)
(* (contracts/settlement/src/lib.rs), the credit_v1 guest and the keepers  *)
(* that run it over the payment history they observe                       *)
(* (prover/host/src/history_builder.rs, main.rs).                          *)
(*                                                                         *)
(* Proving and submitting are separate steps: between them sellers and     *)
(* buyers call the vault, coupons are paid and clawed back, time passes    *)
(* and other keepers submit.  An artifact, once proved, is never lost: any *)
(* keeper may submit it later, twice, or out of order, so the proofs are   *)
(* a set that only grows.                                                  *)
(***************************************************************************)
EXTENDS Vault, CreditGuest

CONSTANTS
  Epochs,        \* coupon indices
  Instruments,   \* instruments of the type credit_v1: they share the image_id
  This,          \* the instrument of this settlement contract and this vault
  Config,        \* the committed configuration of every instrument
  OtherBooks,    \* the books the vaults of the other instruments may hold
  CouponAmounts, \* what one delivery of the coupon asset may amount to
  MaxTime,       \* bound on the ledger time
  MaxPayments,   \* bound on the deliveries
  MaxBook,       \* bound on the positions
  EarlyProving,  \* whether keepers also prove before the deadline has passed
  Faithful       \* whether buyers commit to the cover they declare

ASSUME ThisAssumption == This \in Instruments /\ IsFiniteSet(Epochs)
ASSUME BoundsAssumption ==
  MaxTime \in Nat /\ MaxPayments \in Nat /\ MaxBook \in Nat

HolderIds == UNION {{Config[i].snapshot[n].id : n \in DOMAIN Config[i].snapshot} :
                      i \in Instruments}

\* A configuration as the factory accepts it.
IsConfig(config) ==
  /\ config.schedule \in Seq([epoch : Epochs, deadline : Nat])
  /\ IsFiniteSet(DOMAIN config.snapshot)
  /\ \A n \in DOMAIN config.snapshot :
       /\ config.snapshot[n].balance \in Int
       /\ config.snapshot[n].trustline \in BOOLEAN
       /\ config.snapshot[n].frozen \in BOOLEAN
  /\ config.rate \in Nat

ASSUME ConfigAssumption == \A i \in Instruments : IsConfig(Config[i])
ASSUME OpeningsAssumption ==
  Openings \subseteq [buyer : Buyers, cover : Int] /\ Openings \subseteq Commitments
ASSUME OtherBooksAssumption == OtherBooks \subseteq Seq(Commitments)
ASSUME CouponAssumption == CouponAmounts \subseteq Nat

\* A delivery of the coupon asset as the history builder hands it to the guest,
\* with the time of its clawback, which the history does not carry.
Deliveries == [holder : HolderIds, amount : Nat, paidAt : Nat,
               clawed : BOOLEAN, clawedAt : Nat]

VARIABLES
  settled,   \* DataKey::Settled(epoch)
  now,       \* the ledger's timestamp
  payments,  \* deliveries of the coupon asset, in order
  proofs,    \* the journals of the artifacts ever proved
  receipts   \* history: the journal each epoch was settled with

marketVars == <<now, payments>>
settlementVars == <<settled, receipts>>
vars == <<vaultVars, marketVars, proofs, settlementVars>>

None == [epoch |-> "none"]

-----------------------------------------------------------------------------
SettlementInit ==
  /\ VaultInit
  /\ settled = [e \in Epochs |-> FALSE]
  /\ now = 0
  /\ payments = <<>>
  /\ proofs = {}
  /\ receipts = [e \in Epochs |-> None]

\* A ledger closes.
Tick ==
  /\ now < MaxTime
  /\ now' = now + 1
  /\ UNCHANGED <<vaultVars, payments, proofs, settlementVars>>

\* The coupon asset reaches a holder: an issuer's pay_coupon, a classic
\* payment or a path payment, all observed as one kind of delivery.
PayCoupon(holder, amount) ==
  /\ Len(payments) < MaxPayments
  /\ payments' = Append(payments, [holder |-> holder, amount |-> amount,
                                   paidAt |-> now, clawed |-> FALSE,
                                   clawedAt |-> 0])
  /\ UNCHANGED <<vaultVars, now, proofs, settlementVars>>

\* The issuer takes a delivery back, at any later time.  The history that
\* keepers scan carries the flag and not the time of the clawback.
Clawback(q) ==
  /\ ~payments[q].clawed
  /\ payments' = [payments EXCEPT ![q].clawed = TRUE, ![q].clawedAt = now]
  /\ UNCHANGED <<vaultVars, now, proofs, settlementVars>>

-----------------------------------------------------------------------------
BookOf(i) == IF i = This THEN {positions} ELSE OtherBooks

\* A keeper scans the history, fills the witness and proves epoch e.
Prove(i, e) ==
  /\ UNCHANGED <<vaultVars, marketVars, settlementVars>>
  /\ \E book \in BookOf(i) :
       /\ Provable(Config[i], e, payments, book)
       /\ EarlyProving \/ now > GuestDeadline(Config[i].schedule, e)
       /\ proofs' = proofs \cup {Journal(i, Config[i], e, payments, book)}

\* init stores the deadlines one after the other: the last entry stays.
ContractDeadline(e) ==
  Config[This].schedule[Max(Places(Config[This].schedule, e))].deadline

\* The bindings of settle, in the order of its asserts; a mutant above one
\* forgets it, or asks too much.
AnyInstrument(journal) == TRUE
SameInstrument(journal) == journal.instrument = This

SettlesAgain(journal) == TRUE
NothingSettled(journal) == \A e \in Epochs : ~settled[e]
NotYetSettled(journal) == ~settled[journal.epoch]

AnyDeadline(journal) == Scheduled(Config[This].schedule, journal.epoch)
DeadlineBound(journal) ==
  /\ Scheduled(Config[This].schedule, journal.epoch)
  /\ journal.deadline = ContractDeadline(journal.epoch)

DeadlinePassed(journal) == now > ContractDeadline(journal.epoch)

AnyBook(journal) == TRUE
BookCurrent(journal) == journal.positions = positions

\* The flag is stored under the epoch; the mutant has one flag for all.
MarkedAll(e) == [x \in Epochs |-> TRUE]
Marked(e) == [settled EXCEPT ![e] = TRUE]

\* settle, called by any keeper with any artifact.
Settle(journal) ==
  /\ SameInstrument(journal)
  /\ NotYetSettled(journal)
  /\ DeadlineBound(journal)
  /\ DeadlinePassed(journal)
  /\ BookCurrent(journal)
  /\ settled' = Marked(journal.epoch)
  /\ receipts' = [receipts EXCEPT ![journal.epoch] = journal]
  /\ PayAllocations(journal.allocs)
  /\ UNCHANGED <<marketVars, proofs>>

\* The calls of sellers and buyers, as in Vault.tla.
SellerDeposit(s, amount) ==
  Deposit(s, amount) /\ UNCHANGED <<marketVars, proofs, settlementVars>>

SellerWithdraw(s, amount) ==
  Withdraw(s, amount) /\ UNCHANGED <<marketVars, proofs, settlementVars>>

Declared(commitment, cover) ==
  Faithful => commitment \in Openings /\ commitment.cover = cover

Buy(commitment, cover) ==
  /\ Len(positions) < MaxBook
  /\ Declared(commitment, cover)
  /\ BuyProtection(commitment, cover)
  /\ UNCHANGED <<marketVars, proofs, settlementVars>>

SettlementNext ==
  \/ Tick
  \/ \E holder \in HolderIds, amount \in CouponAmounts : PayCoupon(holder, amount)
  \/ \E q \in DOMAIN payments : Clawback(q)
  \/ \E i \in Instruments, e \in Epochs : Prove(i, e)
  \/ \E journal \in proofs : Settle(journal)
  \/ \E s \in Sellers, amount \in Amounts : SellerDeposit(s, amount)
  \/ \E s \in Sellers, amount \in Amounts : SellerWithdraw(s, amount)
  \/ \E commitment \in Commitments, cover \in Covers : Buy(commitment, cover)

SettlementSpec == SettlementInit /\ [][SettlementNext]_vars

(* Ledgers keep closing; some keeper scans and proves every epoch that can  *)
(* be proved and submits what can be submitted (both are permissionless).   *)
Fairness ==
  /\ WF_vars(Tick)
  /\ \A e \in Epochs : WF_vars(Prove(This, e))
  /\ WF_vars(\E journal \in proofs : Settle(journal))

FairSettlementSpec == SettlementSpec /\ Fairness

-----------------------------------------------------------------------------
SettledEpochs == {e \in Epochs : settled[e]}

\* What the credit event of epoch e amounts to by the history known now.
ShortNow(e) == SumShort(Config[This], ContractDeadline(e), payments)

\* Type of the state the settlement adds to the vault's; an epoch is settled
\* exactly by the artifact on its receipt.
ReceiptsKept == \A e \in SettledEpochs : receipts[e] \in proofs

StateOK ==
  /\ settled \in [Epochs -> BOOLEAN]
  /\ now \in Nat
  /\ payments \in Seq(Deliveries)
  /\ \A journal \in proofs :
       /\ journal.instrument \in Instruments
       /\ journal.epoch \in Epochs
       /\ journal.positions \in Seq(Commitments)
       /\ IsAllocationList(journal.allocs)
  /\ receipts \in [Epochs -> {None} \cup proofs]

SettlementTypeOK == StateOK /\ ReceiptsKept

\* Every token a buyer ever received from the vault is a line of the one
\* receipt of a settled epoch: no artifact pays twice, whichever keepers
\* submit it and however often.
PaidExactlyReceipts ==
  /\ paidOut = Total([e \in SettledEpochs |-> AllocationSum(receipts[e].allocs)])
  /\ \A b \in Buyers :
       wallet[b] = Total([e \in SettledEpochs |-> PaidTo(receipts[e].allocs, b)])

\* When keepers scan after the deadline, an epoch is settled only if it is
\* missed by the whole history known at any later time, and no position got
\* more than that history entitles it to, even if the proof was stale.
NoOverpayment ==
  \A e \in SettledEpochs :
    /\ ShortNow(e) > 0
    /\ \A i \in DOMAIN receipts[e].allocs :
         receipts[e].allocs[i].amount <=
           Payout(receipts[e].positions[i].cover, ShortNow(e),
                  SumOwed(Config[This]))

\* When buyers commit to the cover they declare, every proof over the current
\* book can be paid from the reserve as long as nothing has been paid yet:
\* the first default always settles in full.
FirstDefaultFunded ==
  paidOut = 0 =>
    \A journal \in proofs :
      journal.instrument = This /\ BookCurrent(journal) =>
        AllocationSum(journal.allocs) <= totalCollateral

\* The guest takes the first deadline of an epoch listed twice, the contract
\* the last: such an epoch can be proved and never settled.
ScheduledTwiceNeverSettles ==
  \A e \in SettledEpochs :
    GuestDeadline(Config[This].schedule, e) = ContractDeadline(e)

\* A missed epoch whose deadline has passed.
Due(e) == now > ContractDeadline(e) /\ ShortNow(e) > 0

\* The reserve cannot pay epoch e in full by the history known now: earlier
\* payouts have used it up.
Unfunded(e) ==
  AllocationSum(Allocations(positions, ShortNow(e), SumOwed(Config[This])))
    > totalCollateral

\* Every missed epoch is eventually settled, although each purchase makes the
\* proofs under way stale, every clawback changes the determination and the
\* artifacts of other epochs and instruments compete with its own: only a
\* reserve that an earlier epoch has used up can keep it from being paid.
DefaultsSettle == \A e \in Epochs : Due(e) ~> settled[e] \/ Unfunded(e)

-----------------------------------------------------------------------------
(* The instrument keeps the promise of Protection.tla.                     *)

EpochDeadlines ==
  [e \in {x \in Epochs : Scheduled(Config[This].schedule, x)} |-> ContractDeadline(e)]

Promise == INSTANCE Protection WITH
  Holders <- Buyers, Positions <- Commitments, Deadlines <- EpochDeadlines,
  FullCoupon <- SumOwed(Config[This]),
  clock <- now, book <- positions, reserve <- totalCollateral,
  paid <- [b \in Buyers |-> wallet[b]], done <- SettledEpochs

\* Every behaviour of the contracts, keepers and callers, whatever is proved
\* when and submitted in which order, is a behaviour of the promise: a step of
\* settle pays every position of the current book the same fraction, at once.
KeepsPromise == Promise!ProtectionSpec
=============================================================================
