----------------------------- MODULE YieldRouter -----------------------------
(***************************************************************************)
(* The protected share class, contracts/yield_router/src/lib.rs, bound to  *)
(* a YieldVault: bonds are wrapped into pBOND, the wrapped balance is      *)
(* cover registered with the vault, and every coupon runs a waterfall:     *)
(* premium to the vault, distribution fee, the rest to the pBOND holders.  *)
(* yield_factory deploys vault and router on the same coupon token and     *)
(* binds them in one transaction.                                          *)
(***************************************************************************)
EXTENDS YieldVault

CONSTANTS
  WrapAmounts,    \* bonds wrapped, unwrapped, pBOND transferred
  Grosses,        \* gross coupons
  InitialBonds,   \* of every holder
  DistFeeBps,
  MaxNetRounding, \* bound on netRounded, in the guards of wrap, unwrap, transfer
  SelfTransfers   \* whether holders transfer pBOND to themselves

Holders == Buyers

ASSUME RouterAssumption ==
  /\ DistFeeBps \in 0..BPS
  /\ WrapAmounts \subseteq Int /\ Grosses \subseteq Int
  /\ InitialBonds \in Nat
  /\ SelfTransfers \in BOOLEAN

VARIABLES
  supply,       \* DataKey::TotalSupply
  accNet,       \* DataKey::AccNetPerPbond
  distFee,      \* DataKey::DistFeeAccrued
  holder,       \* DataKey::Balance, Debt and Claimable
  bonds,        \* bond tokens: those of the router and of the holders
  couponsHeld,  \* the router's balance of the coupon token
  netRounded    \* history: what debts of new balances were rounded down by,
                \* in units of 1/AccScale of a token

routerVars == <<supply, accNet, distFee, holder, bonds, couponsHeld, netRounded>>
allVars == <<yieldVars, routerVars>>

RouterInit ==
  /\ YieldInit
  /\ supply = 0 /\ accNet = 0 /\ distFee = 0
  /\ holder = [h \in Holders |-> [bal |-> 0, debt |-> 0, claimable |-> 0]]
  /\ bonds = [router |-> 0, of |-> [h \in Holders |-> InitialBonds]]
  /\ couponsHeld = 0 /\ netRounded = 0

Net(bal) == (bal * accNet) \div AccScale
PendingNet(h) == Net(holder[h].bal) - holder[h].debt

NetRounding(bal) == (bal * accNet) % AccScale

\* settle_holder, then a balance of bal.
Rebalanced(h, bal) ==
  [bal |-> bal, debt |-> Net(bal), claimable |-> holder[h].claimable + PendingNet(h)]

\* set_routed_cover: the shared floor, tested on a lower cover too; the mutant
\* registers nothing.
RoutedKept(cover) == routedCover' = routedCover
RegisterCover(cover) ==
  /\ Floor(totalCover + cover, totalCollateral)
  /\ routedCover' = cover

VaultSideOfCover ==
  UNCHANGED <<totalCollateral, totalCover, folded, frozen, paidOut, premiumVars,
              floatFee, seller, tokenVars, roundedOff>>

Wrap(h, amount) ==
  /\ amount > 0
  /\ netRounded <= MaxNetRounding
  /\ amount <= bonds.of[h]
  /\ bonds' = [router |-> bonds.router + amount,
               of |-> [bonds.of EXCEPT ![h] = bonds.of[h] - amount]]
  /\ supply' = supply + amount
  /\ holder' = [holder EXCEPT ![h] = Rebalanced(h, holder[h].bal + amount)]
  /\ netRounded' = netRounded + NetRounding(holder[h].bal + amount)
  /\ RegisterCover(supply + amount)
  /\ VaultSideOfCover
  /\ UNCHANGED <<accNet, distFee, couponsHeld>>

Unwrap(h, amount) ==
  /\ amount > 0
  /\ netRounded <= MaxNetRounding
  /\ holder[h].bal >= amount
  /\ amount <= bonds.router
  /\ bonds' = [router |-> bonds.router - amount,
               of |-> [bonds.of EXCEPT ![h] = bonds.of[h] + amount]]
  /\ supply' = supply - amount
  /\ holder' = [holder EXCEPT ![h] = Rebalanced(h, holder[h].bal - amount)]
  /\ netRounded' = netRounded + NetRounding(holder[h].bal - amount)
  /\ supply >= amount  \* set_routed_cover refuses a negative cover
  /\ RegisterCover(supply - amount)
  /\ VaultSideOfCover
  /\ UNCHANGED <<accNet, distFee, couponsHeld>>

\* The waterfall; the mutant of the net pays the distribution fee out twice.
RoutedPremium(gross) == Lesser((supply * PremiumBps) \div BPS, gross)
DistCut(gross) == (RoutedPremium(gross) * DistFeeBps) \div BPS
ToVault(gross) == RoutedPremium(gross) - DistCut(gross)
NetWithFee(gross) == gross - ToVault(gross)
NetOf(gross) == gross - RoutedPremium(gross)

\* The payer's tokens go to the router, the premium straight on to the vault,
\* which distributes it (receive_premium).
RouteCoupon(payer, gross) ==
  /\ gross > 0
  /\ supply > 0
  /\ gross <= wallet[payer]
  /\ wallet' = [wallet EXCEPT ![payer] = wallet[payer] - gross]
  /\ held' = held + ToVault(gross)
  /\ couponsHeld' = couponsHeld + gross - ToVault(gross)
  /\ IF ToVault(gross) > 0 THEN Distribute(ToVault(gross), ProtocolFeeBps)
                           ELSE UNCHANGED premiumVars
  /\ distFee' = distFee + DistCut(gross)
  /\ accNet' = accNet + (NetOf(gross) * AccScale) \div supply
  /\ UNCHANGED <<reserveVars, floatFee, seller, roundedOff, supply, holder, bonds, netRounded>>

RouterPays(to, amount) ==
  /\ amount <= couponsHeld
  /\ wallet' = [wallet EXCEPT ![to] = wallet[to] + amount]
  /\ couponsHeld' = couponsHeld - amount
  /\ UNCHANGED <<reserveVars, premiumVars, floatFee, seller, held, roundedOff,
                 supply, accNet, bonds, netRounded>>

ClaimCoupon(h) ==
  LET claimable == holder[h].claimable + PendingNet(h)
  IN  /\ claimable > 0
      /\ holder' = [holder EXCEPT ![h] = [bal |-> holder[h].bal,
                                          debt |-> Net(holder[h].bal), claimable |-> 0]]
      /\ RouterPays(h, claimable)
      /\ UNCHANGED distFee

ClaimDistFee ==
  /\ distFee > 0
  /\ distFee' = 0
  /\ RouterPays(Admin, distFee)
  /\ UNCHANGED holder

\* Both balances are read before either is written: the write of the receiver
\* comes last, so a transfer to oneself ends with the larger balance.
Transfer(from, to, amount) ==
  /\ amount > 0
  /\ netRounded <= MaxNetRounding
  /\ SelfTransfers \/ from # to
  /\ holder[from].bal >= amount
  /\ LET debited == [holder EXCEPT ![from] = Rebalanced(from, holder[from].bal - amount)]
     IN  holder' = [debited EXCEPT ![to] = Rebalanced(to, holder[to].bal + amount)]
  /\ netRounded' = netRounded + NetRounding(holder[from].bal - amount)
                              + NetRounding(holder[to].bal + amount)
  /\ UNCHANGED <<yieldVars, supply, accNet, distFee, bonds, couponsHeld>>

RouterCall ==
  \/ \E h \in Holders, amount \in WrapAmounts : Wrap(h, amount)
  \/ \E h \in Holders, amount \in WrapAmounts : Unwrap(h, amount)
  \/ \E gross \in Grosses : RouteCoupon(Admin, gross)
  \/ \E h \in Holders : ClaimCoupon(h)
  \/ ClaimDistFee
  \/ \E from \in Holders, to \in Holders, amount \in WrapAmounts :
       Transfer(from, to, amount)

RouterNext ==
  \/ VaultCall /\ UNCHANGED routerVars
  \/ RouterCall

RouterSpec == RouterInit /\ [][RouterNext]_allVars

-----------------------------------------------------------------------------
\* What the router owes a holder of pBOND (pending_coupon).
PendingCoupon(h) == holder[h].claimable + PendingNet(h)

\* The cover the vault counts for the router is the pBOND in circulation, each
\* backed by a bond in the router: wrapping, unwrapping and transferring keep
\* four books of two contracts in step.
CoverIsWrapped ==
  /\ routedCover = supply
  /\ bonds.router = supply
  /\ Total([h \in Holders |-> holder[h].bal]) = supply

\* The router can always pay all net coupons and the distribution fee, but
\* for the fractions of a token by which the debts of new balances were rounded.
CouponsFunded ==
  couponsHeld * AccScale + netRounded >=
    (distFee + Total([h \in Holders |-> PendingCoupon(h)])) * AccScale

\* "total pBOND = routed cover" (yield_router/src/lib.rs:42): the balances add
\* up to the supply.
PbondIsSupply == Total([h \in Holders |-> holder[h].bal]) = supply
=============================================================================
