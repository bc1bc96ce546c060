------------------------------- MODULE Keeper -------------------------------
(***************************************************************************)
(* The sequencer of a confidential instrument, prover/host/src/keeper.rs   *)
(* and the keeper commands of prover/host/src/main.rs, over the            *)
(* confidential vault.  Its state file holds the opening of the aggregate  *)
(* commitment, without which nobody can prove a purchase or a withdrawal.  *)
(*                                                                         *)
(* keeper-buy writes the artifact first and the advanced state after it,   *)
(* and knows nothing of the submission: that is a later step of a buyer    *)
(* or a seller, with any artifact written so far, or no step at all.       *)
(***************************************************************************)
EXTENDS ConfidentialVault

CONSTANTS
  Covers,      \* what buyers ask for
  Figures,     \* the collateral figures an operator may pass
  MaxSales     \* bound on the purchases proved

ASSUME KeeperAssumption == Covers \subseteq Int /\ Figures \subseteq Int

VARIABLES
  keeper,  \* keeper_state.json: total and salt
  sales,   \* the purchase artifacts written
  exits    \* the withdrawal artifacts written

keeperVars == <<keeper, sales, exits>>
vars == <<confidentialVars, keeperVars>>

KeeperInit ==
  /\ ConfidentialInit
  /\ keeper = Opening(0, 0)
  /\ sales = {}
  /\ exits = {}

\* cmd_keeper_buy: plan_buy, the proof, the artifact, the state.  The salt is
\* drawn from the operating system and never met before.
Planned(cover, collateral) ==
  BuyJournal(keeper, cover, Cardinality(sales) + 1, collateral)

\* prove_solvency_buy: the artifact is written before anything else.
ProveSale(cover, collateral) ==
  /\ Solvent(keeper, cover, collateral)
  /\ Cardinality(sales) < MaxSales
  /\ sales' = sales \cup {Planned(cover, collateral)}
  /\ UNCHANGED <<confidentialVars, exits>>

KeeperBuy(cover, collateral) ==
  /\ ProveSale(cover, collateral)
  /\ keeper' = Planned(cover, collateral).new

\* The process dies between the two writes.
KeeperBuyCrash(cover, collateral) ==
  /\ ProveSale(cover, collateral)
  /\ UNCHANGED keeper

\* prove_solvency_withdraw
ProveExit(after) ==
  /\ SolventAfter(keeper, after)
  /\ exits' = exits \cup {WithdrawJournal(keeper, after)}

\* cmd_keeper_withdraw: the aggregate and the state stay.
KeeperWithdraw(after) ==
  /\ ProveExit(after)
  /\ UNCHANGED <<confidentialVars, keeper, sales>>

VaultStep ==
  /\ \/ \E s \in Sellers, amount \in Amounts : Deposit(s, amount)
     \/ \E b \in Buyers, sale \in sales, premium \in Premiums :
          BuyProtectionProven(b, sale, premium)
     \/ \E s \in Sellers, amount \in Amounts, exit \in exits :
          WithdrawProven(s, amount, exit)
     \/ \E s \in Sellers : ClaimPremium(s)
     \/ ClaimProtocolFee
     \/ \E allocs \in AllocationLists : bookCover > 0 /\ PayAllocations(allocs)
     \/ \E open \in BOOLEAN : SetWindow(open)
  /\ UNCHANGED keeperVars

KeeperNext ==
  \/ \E cover \in Covers, collateral \in Figures : KeeperBuy(cover, collateral)
  \/ \E cover \in Covers, collateral \in Figures : KeeperBuyCrash(cover, collateral)
  \/ \E after \in Figures : KeeperWithdraw(after)
  \/ VaultStep

KeeperSpec == KeeperInit /\ [][KeeperNext]_vars

=============================================================================
