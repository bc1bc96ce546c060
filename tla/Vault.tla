-------------------------------- MODULE Vault --------------------------------
(***************************************************************************)
(* The generic vault contract, contracts/vault/src/lib.rs: public seller   *)
(* collateral, the public aggregate of the cover sold, the accumulator of  *)
(* opaque position commitments, and the only door money leaves by towards  *)
(* buyers, pay_allocations.  A contract call is one atomic transaction: an *)
(* assert that fails, a trap or an overflow reverts all of it, so a call   *)
(* that would revert is an action that is not enabled.                     *)
(*                                                                         *)
(* This module is the vault against ANY settlement contract: VaultNext     *)
(* lets the bound settlement pay any list of AllocationLists and open or   *)
(* close the window at any time.  Settlement.tla and ClaimSettlement.tla   *)
(* compose the same actions with the settlement contracts of the           *)
(* repository.                                                             *)
(***************************************************************************)
EXTENDS Sums, Sequences

CONSTANTS
  Sellers,          \* underwriters' addresses
  Buyers,           \* buyers' addresses
  Amounts,          \* the i128 amounts sellers pass to deposit and withdraw
  Covers,           \* the i128 covers buyers declare
  Commitments,      \* position commitments: openings [buyer, cover] or opaque
  AllocationLists,  \* the lists the bound settlement may pass (VaultNext only)
  InitialTokens     \* collateral tokens each seller starts with

Accounts == Sellers \cup Buyers

ASSUME FiniteAssumption == IsFiniteSet(Sellers) /\ IsFiniteSet(Buyers)
ASSUME DisjointAssumption == Sellers \cap Buyers = {}
ASSUME AmountsAssumption == Amounts \subseteq Int /\ Covers \subseteq Int
ASSUME TokensAssumption == InitialTokens \in Nat

\* A Vec<(Address, i128)>: its places mapped to payee and amount.
IsAllocationList(allocs) ==
  /\ IsFiniteSet(DOMAIN allocs)
  /\ allocs \in [DOMAIN allocs -> [buyer : Accounts, amount : Int]]

ASSUME ListsAssumption == \A allocs \in AllocationLists : IsAllocationList(allocs)

VARIABLES
  totalCollateral,  \* DataKey::TotalCollateral
  totalCover,       \* DataKey::TotalCover
  positions,        \* the commitments folded into DataKey::PositionRoot, in order
  frozen,           \* DataKey::Frozen
  sellerBal,        \* DataKey::Seller(address)
  held,             \* the vault's balance of the collateral token
  wallet,           \* every other account's balance of the collateral token
  paidOut           \* history: all that pay_allocations ever paid

vaultVars == <<totalCollateral, totalCover, positions, frozen, sellerBal,
               held, wallet, paidOut>>

-----------------------------------------------------------------------------
(* The collateral token (a Stellar asset contract): transfer reverts unless *)
(* the payer holds a non-negative amount of at least that size.            *)

TransferIn(from, amount) ==
  /\ 0 <= amount /\ amount <= wallet[from]
  /\ wallet' = [wallet EXCEPT ![from] = wallet[from] - amount]
  /\ held' = held + amount

TransferOut(to, amount) ==
  /\ 0 <= amount /\ amount <= held
  /\ wallet' = [wallet EXCEPT ![to] = wallet[to] + amount]
  /\ held' = held - amount

\* The transfer loop of pay_allocations.
TransferAll(allocs) ==
  /\ AllocationSum(allocs) <= held
  /\ wallet' = [a \in Accounts |-> wallet[a] + PaidTo(allocs, a)]
  /\ held' = held - AllocationSum(allocs)

-----------------------------------------------------------------------------
VaultInit ==
  /\ totalCollateral = 0
  /\ totalCover = 0
  /\ positions = <<>>
  /\ frozen = FALSE
  /\ sellerBal = [s \in Sellers |-> 0]
  /\ held = 0
  /\ wallet = [a \in Accounts |-> IF a \in Sellers THEN InitialTokens ELSE 0]
  /\ paidOut = 0

\* is_frozen, the guard of purchases and withdrawals; its mutant forgets it.
WindowIgnored == TRUE
WindowClosed == ~frozen

\* The seller's own balance after a deposit; the mutant overwrites it.
CreditedOverwrite(s, amount) == [sellerBal EXCEPT ![s] = amount]
Credited(s, amount) == [sellerBal EXCEPT ![s] = sellerBal[s] + amount]

Deposit(s, amount) ==
  /\ amount > 0
  /\ totalCollateral + amount <= I128Max
  /\ sellerBal[s] + amount <= I128Max
  /\ TransferIn(s, amount)
  /\ totalCollateral' = totalCollateral + amount
  /\ sellerBal' = Credited(s, amount)
  /\ UNCHANGED <<totalCover, positions, frozen, paidOut>>

\* The Option B solvency test of a purchase; the mutant leaves the cover
\* already sold out of it.
CoverFitsAlone(cover) == cover <= totalCollateral
CoverFits(cover) == totalCover + cover <= totalCollateral

\* The buyer only authorizes the call: neither the opening behind the
\* commitment nor its owner is compared with the declared cover.
BuyProtection(commitment, cover) ==
  /\ cover > 0
  /\ WindowClosed
  /\ CoverFits(cover)
  /\ positions' = Append(positions, commitment)
  /\ totalCover' = totalCover + cover
  /\ UNCHANGED <<totalCollateral, frozen, sellerBal, held, wallet, paidOut>>

\* A withdrawal may not drop the collateral below the cover sold; the mutant
\* tests the collateral before the withdrawal.
CoverFloorBefore(amount) == totalCollateral >= totalCover
CoverFloor(amount) == totalCollateral - amount >= totalCover

\* A seller withdraws at most what he deposited; the mutant does not ask.
SellerHasAny(s, amount) == TRUE
SellerHas(s, amount) == sellerBal[s] >= amount

\* The pool after an outflow; the mutant forgets to debit it.
PoolNotDebited(amount) == totalCollateral
PoolAfter(amount) == totalCollateral - amount

Withdraw(s, amount) ==
  /\ amount > 0
  /\ WindowClosed
  /\ SellerHas(s, amount)
  /\ CoverFloor(amount)
  /\ TransferOut(s, amount)
  /\ sellerBal' = [sellerBal EXCEPT ![s] = sellerBal[s] - amount]
  /\ totalCollateral' = PoolAfter(amount)
  /\ UNCHANGED <<totalCover, positions, frozen, paidOut>>

\* Called by the bound settlement contract only.  Neither the sellers' own
\* balances nor the aggregate cover change.
PayAllocations(allocs) ==
  /\ \A i \in DOMAIN allocs : allocs[i].amount > 0
  /\ AllocationSum(allocs) <= totalCollateral
  /\ TransferAll(allocs)
  /\ totalCollateral' = PoolAfter(AllocationSum(allocs))
  /\ paidOut' = paidOut + AllocationSum(allocs)
  /\ UNCHANGED <<totalCover, positions, frozen, sellerBal>>

SetWindow(open) ==
  /\ frozen' = open
  /\ UNCHANGED <<totalCollateral, totalCover, positions, sellerBal, held,
                 wallet, paidOut>>

\* Anybody may send tokens to the vault's address without calling the vault.
Donate(a, amount) ==
  /\ amount > 0
  /\ TransferIn(a, amount)
  /\ UNCHANGED <<totalCollateral, totalCover, positions, frozen, sellerBal,
                 paidOut>>

VaultNext ==
  \/ \E s \in Sellers, amount \in Amounts : Deposit(s, amount)
  \/ \E commitment \in Commitments, cover \in Covers :
       BuyProtection(commitment, cover)
  \/ \E s \in Sellers, amount \in Amounts : Withdraw(s, amount)
  \/ \E allocs \in AllocationLists : PayAllocations(allocs)
  \/ \E open \in BOOLEAN : SetWindow(open)
  \/ \E a \in Accounts, amount \in Amounts : Donate(a, amount)

VaultSpec == VaultInit /\ [][VaultNext]_vaultVars

-----------------------------------------------------------------------------
\* Type of the vault's state.
VaultTypeOK ==
  /\ totalCollateral \in 0..I128Max
  /\ totalCover \in Nat
  /\ positions \in Seq(Commitments)
  /\ frozen \in BOOLEAN
  /\ sellerBal \in [Sellers -> 0..I128Max]
  /\ held \in Nat
  /\ wallet \in [Accounts -> Nat]
  /\ paidOut \in Nat

\* The vault really holds the collateral it accounts for, whatever mix of
\* deposits, withdrawals, payouts and direct token transfers preceded.
Custody == totalCollateral <= held

\* The sellers' own balances exceed the pooled collateral by exactly what was
\* paid out: pay_allocations debits the pool and no seller, so after a payout
\* the claims of the sellers together are larger than what is left.
SellerBooks == Total(sellerBal) = totalCollateral + paidOut

\* The cover sold never exceeds the collateral plus what was paid out; before
\* the first payout the vault is fully funded (cover <= reserve).
CoverBacked == totalCover <= totalCollateral + paidOut

\* While the settlement holds the window, neither the reserve nor the book can
\* be changed by sellers or buyers: collateral falls only by a payout, and no
\* position is added.
WindowHoldsReserve ==
  [][frozen => /\ totalCollateral' < totalCollateral => paidOut' > paidOut
               /\ positions' = positions]_vaultVars
=============================================================================
