----------------------- MODULE ConfidentialTranchedVault -----------------------
(***************************************************************************)
(* The confidential tranched vault,                                        *)
(* contracts/confidential_tranched_vault/src/lib.rs: the tranches of       *)
(* TranchedVault.tla, and the commitment of ConfidentialVault.tla in place *)
(* of the public cover.  A call that the contract shares with the tranched *)
(* vault is that vault's call; totalCover stays 0, for there is none.      *)
(*                                                                         *)
(* What an artifact says does not depend on when it was proved, so the     *)
(* artifacts that may be submitted are all those the guest accepts for an  *)
(* opening that the commitment has ever had.                               *)
(***************************************************************************)
EXTENDS TranchedVault, Solvency

CONSTANTS
  HiddenCovers,  \* the covers proved
  HiddenPremiums,\* the premiums declared beside them
  Figures        \* the collateral figures proofs are made for

ASSUME FiguresAssumption ==
  HiddenCovers \subseteq Int /\ HiddenPremiums \subseteq Int /\ Figures \subseteq Int

VARIABLES
  commitment,  \* DataKey::CoverCommitment
  bookCover,   \* history: the covers of the positions folded so far
  openings     \* history: the openings of every commitment so far

hiddenVars == <<commitment, bookCover, openings>>
hiddenTranchedVars == <<tranchedVars, hiddenVars>>

\* The artifacts anybody may hold.
SaleProofs ==
  {BuyJournal(o, cover, Cardinality(openings), collateral) :
     o \in openings, cover \in HiddenCovers, collateral \in Figures}
Sales == {sale \in SaleProofs : Solvent(sale.prev, sale.cover, sale.collateral)}

ExitProofs == {WithdrawJournal(o, after) : o \in openings, after \in Figures}
Exits == {exit \in ExitProofs : SolventAfter(exit.prev, exit.after)}

-----------------------------------------------------------------------------
HiddenInit ==
  /\ TranchedInit
  /\ commitment = Opening(0, 0)
  /\ bookCover = 0
  /\ openings = {Opening(0, 0)}

\* What a proof must agree with; the mutants trust the proof alone.
AnyAggregate(prev) == TRUE
AggregateCurrent(prev) == prev = commitment

AnyReserve(collateral) == TRUE
ReserveCovers(collateral) == collateral <= totalCollateral

AnyRemainder(after, amount) == TRUE
RemainderExact(after, amount) == after = totalCollateral - amount

HiddenDeposit(s, r, amount) == Deposit(s, r, amount) /\ UNCHANGED hiddenVars

BuyProtectionProven(b, sale, premium) ==
  /\ ~frozen
  /\ premium >= 0
  /\ folded < MaxPositions
  /\ AggregateCurrent(sale.prev)
  /\ ReserveCovers(sale.collateral)
  /\ commitment' = sale.new
  /\ bookCover' = bookCover + sale.cover
  /\ openings' = openings \cup {sale.new}
  /\ folded' = folded + 1
  /\ TransferIn(b, premium)
  /\ IF premium > 0 THEN Distribute(premium) ELSE UNCHANGED <<tranche, feeAccrued>>
  /\ UNCHANGED <<stake, totalCollateral, totalCover, frozen, unbooked, historyVars>>

\* The amount follows from the shares when the call is made; the proof must
\* have been made for exactly what it leaves.
WithdrawProven(s, r, burn, exit) ==
  /\ burn <= stake[r][s].shares
  /\ AggregateCurrent(exit.prev)
  /\ RemainderExact(exit.after, Redeemed(r, burn))
  /\ Withdraw(s, r, burn)
  /\ UNCHANGED hiddenVars

HiddenClaimPremium(s, r) == ClaimPremium(s, r) /\ UNCHANGED hiddenVars

HiddenClaimProtocolFee == ClaimProtocolFee /\ UNCHANGED hiddenVars

\* Losses are taken off the tranches and nothing off the hidden aggregate.
HiddenPayAllocations(allocs) == PayAllocations(allocs) /\ UNCHANGED hiddenVars

HiddenSetWindow(open) == SetWindow(open) /\ UNCHANGED hiddenVars

HiddenNext ==
  \/ \E s \in Sellers, r \in Ranks, amount \in Amounts : HiddenDeposit(s, r, amount)
  \/ \E b \in Buyers, sale \in Sales, premium \in HiddenPremiums :
       BuyProtectionProven(b, sale, premium)
  \/ \E s \in Sellers, r \in Ranks, burn \in Burns, exit \in Exits :
       WithdrawProven(s, r, burn, exit)
  \/ \E s \in Sellers, r \in Ranks : HiddenClaimPremium(s, r)
  \/ HiddenClaimProtocolFee
  \/ \E allocs \in AllocationLists : folded > 0 /\ HiddenPayAllocations(allocs)
  \/ \E open \in BOOLEAN : HiddenSetWindow(open)

HiddenTranchedSpec == HiddenInit /\ [][HiddenNext]_hiddenTranchedVars

-----------------------------------------------------------------------------
\* The aggregate is the sum of the covers in the book and fits the reserve as
\* it was before payouts, although no call ever sees a cover: of artifacts
\* proved over one opening only the first is accepted.
HiddenBookBacked ==
  /\ commitment.total = bookCover
  /\ commitment.total <= totalCollateral + paidOut

\* No withdrawal leaves less collateral than the hidden aggregate, whatever
\* payouts, deposits and other withdrawals have changed the price of the shares
\* burned since the proof was made.
ExitsLeaveHiddenCover ==
  [][totalCollateral' < totalCollateral /\ paidOut' = paidOut =>
       commitment.total <= totalCollateral']_hiddenTranchedVars
=============================================================================
