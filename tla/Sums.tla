-------------------------------- MODULE Sums --------------------------------
(***************************************************************************)
(* Sums of money.  Every total the contracts keep (seller balances,        *)
(* allocations, covers, tranche shares) is the sum of a natural-valued     *)
(* function over a finite set.  Total counts the units: one pair <<x, i>>  *)
(* for each unit of f[x].  It is the same number a fold returns (MCVault   *)
(* checks that on bounded functions) and, being a cardinality, it is       *)
(* within reach of the theorems about finite sets (SumsProofs).            *)
(***************************************************************************)
EXTENDS Integers, FiniteSets

CONSTANT I128Max  \* the largest i128: a larger sum or product overflows

ASSUME MaxAssumption == I128Max \in Nat

\* The units of f: f[x] of them for every x.
Units(f) == UNION {{x} \X (1..f[x]) : x \in DOMAIN f}

\* The sum of f[x] over the domain of f, for f[x] \in Nat.
Total(f) == Cardinality(Units(f))

\* An allocation list maps the place of a payout in the Vec to its payee and
\* amount; AllocationSum is the loop that adds the amounts up.
AllocationSum(allocs) == Total([i \in DOMAIN allocs |-> allocs[i].amount])

\* What one payee receives from an allocation list.
PaidTo(allocs, payee) ==
  Total([i \in {j \in DOMAIN allocs : allocs[j].buyer = payee} |-> allocs[i].amount])

\* The smaller of two numbers.
Lesser(a, b) == IF a > b THEN b ELSE a
=============================================================================
