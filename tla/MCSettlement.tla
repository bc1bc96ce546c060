---------------------------- MODULE MCSettlement ----------------------------
(***************************************************************************)
(* Small instruments: one seller, one buyer, a bond whose holder is owed   *)
(* two coupon units per epoch.  A second instrument on the same bond has a *)
(* higher coupon, so that its epochs are missed when ours are not.         *)
(***************************************************************************)
EXTENDS Settlement

CONSTANTS s1, b1, h1, h2, h3, ours, theirs, opaque

MCSellers == {s1}
MCBuyers == {b1}
MCAmounts == {2}
MCCovers == {1, 2}
MCOpenings == [buyer : {b1}, cover : {1, 2}]
MCCommitments == MCOpenings \cup {opaque}
MCInstruments == {ours, theirs}
MCOtherBooks == {<<[buyer |-> b1, cover |-> 2]>>}

Holder(id, balance, trustline, frozenHolder) ==
  [id |-> id, balance |-> balance, trustline |-> trustline, frozen |-> frozenHolder]
Deadline(e, d) == [epoch |-> e, deadline |-> d]
Bond(schedule, snapshot, rate) ==
  [schedule |-> schedule, snapshot |-> snapshot, rate |-> rate]
OneHolder == <<Holder(h1, 4, TRUE, FALSE)>>

\* Two coupons, at times 0 and 1.
TwoEpochs == {1, 2}
MCConfig == [i \in MCInstruments |->
               Bond(<<Deadline(1, 0), Deadline(2, 1)>>, OneHolder,
                    IF i = ours THEN 5000 ELSE 7500)]

\* Epoch 1 listed twice, and a bond with a frozen holder and one without a
\* trustline: its coupons are always missed in part.
MixedHolders == <<Holder(h1, 4, TRUE, FALSE), Holder(h2, 2, TRUE, TRUE),
                  Holder(h3, 6, FALSE, FALSE)>>
TwiceScheduled ==
  [i \in {ours} |-> Bond(<<Deadline(1, 0), Deadline(2, 1), Deadline(1, 1)>>,
                         MixedHolders, 5000)]
=============================================================================
