------------------------------- MODULE MCFamily -------------------------------
(***************************************************************************)
(* Two epochs, at times 0 and 1, under each of the three rules.  The bond  *)
(* changes hands between the record dates.  The drought band is 2 to 5 mm  *)
(* on one of two stations, in a window that opens at time 0 and closes     *)
(* after the last deadline.                                                *)
(***************************************************************************)
EXTENDS Family

CONSTANTS s1, b1, h1, h2, ours, north, south

MCOpenings == [buyer : {b1}, cover : {4}]

Holder(id) == [id |-> id, balance |-> 4, trustline |-> TRUE, frozen |-> FALSE]
Schedule == <<[epoch |-> 1, deadline |-> 0], [epoch |-> 2, deadline |-> 1]>>

MCConfig == [i \in {ours} |->
               [schedule |-> Schedule, snapshot |-> <<Holder(h1), Holder(h2)>>,
                rate |-> 5000]]
\* The bond of a single holder, whom one coupon pays in full.
MCSoleConfig ==
  [i \in {ours} |-> [schedule |-> Schedule, snapshot |-> <<Holder(h1)>>, rate |-> 5000]]
MCRecordDate == [e \in {1, 2} |-> IF e = 1 THEN <<Holder(h1)>> ELSE <<Holder(h2)>>]
MCTerms == [station |-> north, from |-> 0, to |-> 3, trigger |-> 5, exhaust |-> 2]
=============================================================================
