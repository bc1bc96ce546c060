----------------------------- MODULE CreditGuest -----------------------------
(***************************************************************************)
(* The settlement guest credit_v1, prover/guests/settle_credit_v1: the     *)
(* published rules by which a coupon epoch is found missed, and the payout *)
(* of every position.  A proof exists exactly for the inputs on which the  *)
(* guest does not panic; Provable is that condition and Journal what the   *)
(* proof then commits.                                                     *)
(*                                                                         *)
(* Hashes are modelled by what they bind: a commitment is its opening, a   *)
(* root the list folded into it, an instrument_id the configuration behind *)
(* it.  A configuration is a record                                        *)
(*   [schedule : epochs and deadlines in order, snapshot : bond holders,   *)
(*    rate : coupon rate in basis points].                                 *)
(***************************************************************************)
EXTENDS Sums, Sequences, FiniteSetsExt

CONSTANTS
  Openings,  \* the [buyer, cover] some keeper can open a commitment with
  U64Max     \* the largest u64: total_payout must fit

ASSUME U64Assumption == U64Max \in Nat

BPS_DENOM == 10000

-----------------------------------------------------------------------------
(* Determination: owed, paid and shortfall of the bond's holders.          *)

\* Holders with a trustline; the others are excluded from what is owed.
Owing(config) == {n \in DOMAIN config.snapshot : config.snapshot[n].trustline}

Owed(config, n) == (config.snapshot[n].balance * config.rate) \div BPS_DENOM

SumOwed(config) == Total([n \in Owing(config) |-> Owed(config, n)])

\* A delivery counts when it reached the holder by the deadline and was not
\* clawed back.
Qualifies(payment, holder, deadline) ==
  payment.holder = holder /\ payment.paidAt <= deadline /\ ~payment.clawed

Qualifying(config, n, deadline, payments) ==
  {q \in DOMAIN payments : Qualifies(payments[q], config.snapshot[n].id, deadline)}

\* A frozen holder cannot receive: all that is owed to him is short.
Paid(config, n, deadline, payments) ==
  IF config.snapshot[n].frozen THEN 0
  ELSE Total([q \in Qualifying(config, n, deadline, payments) |->
                payments[q].amount])

Short(config, n, deadline, payments) ==
  LET paid == Paid(config, n, deadline, payments)
  IN  IF Owed(config, n) > paid THEN Owed(config, n) - paid ELSE 0

SumShort(config, deadline, payments) ==
  Total([n \in Owing(config) |-> Short(config, n, deadline, payments)])

-----------------------------------------------------------------------------
(* Payout: pro rata, rounded down, capped at the cover; a position whose    *)
(* payout rounds to zero gets no allocation.                                *)

Payout(cover, short, owed) == Lesser((cover * short) \div owed, cover)

Allocations(book, short, owed) ==
  [i \in {j \in DOMAIN book : Payout(book[j].cover, short, owed) > 0} |->
     [buyer |-> book[i].buyer, amount |-> Payout(book[i].cover, short, owed)]]

BookCover(book) == Total([i \in DOMAIN book |-> book[i].cover])

-----------------------------------------------------------------------------
(* The schedule is a Vec: nothing keeps an epoch from being listed twice.   *)

Places(schedule, e) == {n \in DOMAIN schedule : schedule[n].epoch = e}
Scheduled(schedule, e) == Places(schedule, e) # {}

\* The guest looks for the first entry of the epoch.
GuestDeadline(schedule, e) == schedule[Min(Places(schedule, e))].deadline

-----------------------------------------------------------------------------
\* Every position of the book is opened, with a positive cover.
Opened(book) == \A i \in DOMAIN book : book[i] \in Openings /\ book[i].cover > 0

\* Inputs outside their domain and results outside i128 end in a panic.
InDomain(config, deadline, payments) ==
  /\ \A n \in DOMAIN config.snapshot : config.snapshot[n].balance >= 0
  /\ \A n \in Owing(config) :
       /\ config.snapshot[n].balance * config.rate <= I128Max
       /\ ~config.snapshot[n].frozen =>
            /\ \A q \in Qualifying(config, n, deadline, payments) :
                 payments[q].amount >= 0
            /\ Paid(config, n, deadline, payments) <= I128Max
  /\ SumOwed(config) <= I128Max

\* The trigger: an epoch that is paid in full has no proof.
Missed(short) == short > 0

\* The guest run of epoch e on a configuration, a payment history and a book
\* ends without a panic.  inputs.collateral is chosen by the prover and bounds
\* nothing: the binding solvency test is the vault's.
Provable(config, e, payments, book) ==
  /\ Scheduled(config.schedule, e)
  /\ Opened(book)
  /\ LET deadline == GuestDeadline(config.schedule, e)
         short == SumShort(config, deadline, payments)
     IN  /\ InDomain(config, deadline, payments)
         /\ Missed(short)
         /\ \A i \in DOMAIN book : book[i].cover * short <= I128Max
         /\ AllocationSum(Allocations(book, short, SumOwed(config))) <= U64Max

\* The public output of the proof.
Journal(instrument, config, e, payments, book) ==
  LET deadline == GuestDeadline(config.schedule, e)
      short == SumShort(config, deadline, payments)
  IN  [instrument |-> instrument, epoch |-> e, deadline |-> deadline,
       positions |-> book,
       allocs |-> Allocations(book, short, SumOwed(config))]
=============================================================================
