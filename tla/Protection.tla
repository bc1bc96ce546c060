----------------------------- MODULE Protection -----------------------------
(***************************************************************************)
(* What one protection instrument promises, without contracts, proofs or   *)
(* keepers: buyers join a book, sellers fund a reserve, and every coupon   *)
(* epoch pays out at most once, after its deadline, in one step, the same  *)
(* fraction of the cover of every position of the book, and only if every  *)
(* one of them can be opened; no other step pays a buyer, and none takes a *)
(* position out of the book.                                               *)
(*                                                                         *)
(* What remains open is what the instrument leaves to the world: which     *)
(* epochs are missed and by how much, and what sellers put in and out.     *)
(***************************************************************************)
EXTENDS CreditGuest

CONSTANTS
  Holders,    \* of protection
  Positions,  \* commitments that may be added to the book
  Deadlines,  \* the deadline of every epoch
  FullCoupon  \* what the issuer owes per epoch

VARIABLES clock, book, reserve, paid, done

protectionVars == <<clock, book, reserve, paid, done>>

ProtectionInit ==
  /\ clock = 0
  /\ book = <<>>
  /\ reserve = 0
  /\ paid = [b \in Holders |-> 0]
  /\ done = {}

Advance == clock' = clock + 1 /\ UNCHANGED <<book, reserve, paid, done>>

Join ==
  /\ \E position \in Positions : book' = Append(book, position)
  /\ UNCHANGED <<clock, reserve, paid, done>>

Fund == reserve' \in Nat /\ UNCHANGED <<clock, book, paid, done>>

PayEpoch(e) ==
  /\ e \notin done
  /\ done' = done \cup {e}
  /\ clock > Deadlines[e]
  /\ Opened(book)
  /\ \E short \in 1..FullCoupon :
       LET allocs == Allocations(book, short, FullCoupon)
       IN  /\ AllocationSum(allocs) <= reserve
           /\ reserve' = reserve - AllocationSum(allocs)
           /\ paid' = [b \in Holders |-> paid[b] + PaidTo(allocs, b)]
  /\ UNCHANGED <<clock, book>>

ProtectionNext ==
  \/ Advance
  \/ Join
  \/ Fund
  \/ \E e \in DOMAIN Deadlines : PayEpoch(e)

ProtectionSpec == ProtectionInit /\ [][ProtectionNext]_protectionVars
=============================================================================
