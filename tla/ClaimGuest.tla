----------------------------- MODULE ClaimGuest -----------------------------
(***************************************************************************)
(* The claim guest, prover/guests/claim_credit_v1: the same determination  *)
(* as CreditGuest, for one position of the book.  The other commitments    *)
(* stay closed: nobody has to open them.                                   *)
(***************************************************************************)
EXTENDS CreditGuest

\* What the position at place n is owed when epoch e is claimed.
ClaimPayout(config, e, payments, book, n) ==
  LET short == SumShort(config, GuestDeadline(config.schedule, e), payments)
  IN  Payout(book[n].cover, short, SumOwed(config))

\* Only the claimed place is opened; the mutant opens the whole book.
WholeBookOpened(book, n) == Opened(book)
PlaceOpened(book, n) == book[n] \in Openings /\ book[n].cover > 0

ClaimProvable(config, e, payments, book, n) ==
  /\ Scheduled(config.schedule, e)
  /\ PlaceOpened(book, n)
  /\ LET deadline == GuestDeadline(config.schedule, e)
         short == SumShort(config, deadline, payments)
     IN  /\ InDomain(config, deadline, payments)
         /\ Missed(short)
         /\ book[n].cover * short <= I128Max
  /\ ClaimPayout(config, e, payments, book, n) \in 1..U64Max

ClaimJournal(instrument, config, e, payments, book, n) ==
  [instrument |-> instrument, epoch |-> e,
   deadline |-> GuestDeadline(config.schedule, e), positions |-> book,
   buyer |-> book[n].buyer,
   amount |-> ClaimPayout(config, e, payments, book, n)]
=============================================================================
