-------------------------------- MODULE Family --------------------------------
(***************************************************************************)
(* One vault and settlement under the other published rules: the attested  *)
(* credit_v2 and credit_v3, and the parametric weather_v1.  The contracts  *)
(* are those of Settlement.tla, unchanged; a rule is the guest whose       *)
(* image_id the settlement was initialised with.                           *)
(*                                                                         *)
(* The issuer is truthful and signs once a deadline has passed, at any     *)
(* later time and as often as it likes; signatures are public and never    *)
(* lost, so a keeper may hand any of them to the guest.                    *)
(***************************************************************************)
EXTENDS Settlement, AttestedGuest, WeatherGuest

CONSTANTS
  Rules,       \* the rules considered, of credit_v2, credit_v3, weather_v1
  RecordDate,  \* the holders of the bond on the record date of each epoch
  Terms,       \* the committed station, window and band of a weather cover
  Stations,    \* the stations that report
  Falls,       \* what one reading may amount to, in mm
  MaxReadings  \* bound on the readings

ASSUME RulesAssumption == Rules \subseteq {"credit_v2", "credit_v3", "weather_v1"}
ASSUME RecordAssumption ==
  \A e \in Epochs : IsConfig([Config[This] EXCEPT !.snapshot = RecordDate[e]])
ASSUME TermsAssumption ==
  /\ {Terms.from, Terms.to, Terms.trigger, Terms.exhaust} \subseteq Nat
  /\ Falls \subseteq Nat /\ MaxReadings \in Nat

VARIABLES
  rule,     \* DataKey::ImageId of the settlement
  signed,   \* the messages the issuer has signed, with the time of signing
  readings  \* what the stations have reported, in order

sourceVars == <<signed, readings>>
familyVars == <<vars, rule, sourceVars>>

-----------------------------------------------------------------------------
FamilyInit ==
  /\ SettlementInit
  /\ rule \in Rules
  /\ signed = {}
  /\ readings = <<>>

\* The issuer signs the history of an epoch that has ended.
Attest(e) ==
  /\ rule \in {"credit_v2", "credit_v3"}
  /\ Scheduled(Config[This].schedule, e) /\ now > ContractDeadline(e)
  /\ signed' = signed \cup {[epoch |-> e, snapshot |-> RecordDate[e],
                             payments |-> payments, at |-> now]}
  /\ UNCHANGED <<vars, rule, readings>>

\* A station reports what has fallen now.
Observe(station, mm) ==
  /\ rule = "weather_v1"
  /\ Len(readings) < MaxReadings
  /\ readings' = Append(readings, [station |-> station, mm |-> mm, at |-> now])
  /\ UNCHANGED <<vars, rule, signed>>

\* A keeper proves with any signature of the issuer.
ProveV2(e) ==
  /\ rule = "credit_v2"
  /\ \E message \in signed :
       /\ ProvableV2(signed, Config[This], e, message.payments, positions)
       /\ proofs' = proofs \cup
            {Journal(This, Config[This], e, message.payments, positions)}
  /\ UNCHANGED <<vaultVars, marketVars, settlementVars, rule, sourceVars>>

ProveV3(e) ==
  /\ rule = "credit_v3"
  /\ \E message \in signed :
       /\ ProvableV3(signed, Config[This], e, message, positions)
       /\ proofs' = proofs \cup
            {Journal(This, OnRecordDate(Config[This], message), e,
                     message.payments, positions)}
  /\ UNCHANGED <<vaultVars, marketVars, settlementVars, rule, sourceVars>>

\* A keeper proves on the readings known, after the deadline.
ProveWeather(e) ==
  /\ rule = "weather_v1"
  /\ ProvableWeather(Config[This], Terms, e, readings, positions)
  /\ now > GuestDeadline(Config[This].schedule, e)
  /\ proofs' = proofs \cup
       {WeatherJournal(This, Config[This], Terms, e, readings, positions)}
  /\ UNCHANGED <<vaultVars, marketVars, settlementVars, rule, sourceVars>>

\* What the contracts and their callers do under every rule.
GenericStep ==
  /\ \/ Tick
     \/ \E journal \in proofs : Settle(journal)
     \/ \E s \in Sellers, amount \in Amounts : SellerDeposit(s, amount)
     \/ \E s \in Sellers, amount \in Amounts : SellerWithdraw(s, amount)
     \/ \E commitment \in Commitments, cover \in Covers : Buy(commitment, cover)
  /\ UNCHANGED <<rule, sourceVars>>

CouponStep ==
  /\ rule # "weather_v1"
  /\ \/ \E holder \in HolderIds, amount \in CouponAmounts : PayCoupon(holder, amount)
     \/ \E q \in DOMAIN payments : Clawback(q)
  /\ UNCHANGED <<rule, sourceVars>>

FamilyNext ==
  \/ GenericStep
  \/ CouponStep
  \/ \E e \in Epochs : Attest(e)
  \/ \E station \in Stations, mm \in Falls : Observe(station, mm)
  \/ \E e \in Epochs : ProveV2(e)
  \/ \E e \in Epochs : ProveV3(e)
  \/ \E e \in Epochs : ProveWeather(e)

FamilySpec == FamilyInit /\ [][FamilyNext]_familyVars

-----------------------------------------------------------------------------
\* The holders an epoch owes: those of its record date under credit_v3, those
\* of the day of issuance before.
OwedBy(e) ==
  IF rule = "credit_v3" THEN [Config[This] EXCEPT !.snapshot = RecordDate[e]]
                        ELSE Config[This]

\* No position got more out of epoch e than the history known now entitles it
\* to, over the holders the rule owes.
NotOverpaid(e) ==
  LET short == SumShort(OwedBy(e), ContractDeadline(e), payments)
  IN  /\ short > 0
      /\ \A i \in DOMAIN receipts[e].allocs :
           receipts[e].allocs[i].amount <=
             Payout(receipts[e].positions[i].cover, short, SumOwed(OwedBy(e)))

\* Signatures made for epoch e alone, or all made after its deadline.
SignedForIt(e) ==
  rule = "credit_v3" \/ \A m \in signed : m.at > ContractDeadline(e)

\* Whichever signatures keepers hand to the guest, of whichever epochs and in
\* whichever order: under credit_v3 an epoch pays at most what the payments to
\* the holders of its own record date left short, and under credit_v2 so does
\* an epoch that no signature predates.
SignaturesHold ==
  rule # "weather_v1" =>
    \A e \in SettledEpochs : SignedForIt(e) => NotOverpaid(e)

\* "a keeper can no longer fabricate or omit payments and still produce a
\* proof" (prover/guests/settle_credit_v2/src/lib.rs:8): no buyer is paid for an
\* epoch that was paid in time.  A signature made for an earlier epoch omits
\* all later payments, and opens a later epoch.
NoPaymentOmitted ==
  rule = "credit_v2" =>
    \A e \in SettledEpochs : receipts[e].allocs # <<>> => NotOverpaid(e)

\* The rain that counts for epoch e, added up from the whole record.
RainBy(e) ==
  Total([q \in {n \in DOMAIN readings :
                  /\ readings[n].station = Terms.station
                  /\ Terms.from <= readings[n].at /\ readings[n].at <= Terms.to
                  /\ readings[n].at <= ContractDeadline(e)} |-> readings[q].mm])

\* The amount a position got by the receipt of epoch e.
Received(e, i) ==
  IF i \in DOMAIN receipts[e].allocs THEN receipts[e].allocs[i].amount ELSE 0

\* A weather cover pays only below the trigger, in full at and below the
\* exhaustion point, and between the two in proportion to the missing rain,
\* to less than one token: by the record as it stands at any later time,
\* whichever readings, of whichever station and day, have come since.
DroughtPaidExactly ==
  rule = "weather_v1" =>
    \A e \in SettledEpochs :
      /\ RainBy(e) < Terms.trigger
      /\ \A i \in DOMAIN receipts[e].positions :
           LET cover == receipts[e].positions[i].cover
               span == Terms.trigger - Terms.exhaust
               due == cover * (Terms.trigger - RainBy(e))
           IN  IF RainBy(e) <= Terms.exhaust THEN Received(e, i) = cover
               ELSE /\ Received(e, i) * span <= due
                    /\ due < (Received(e, i) + 1) * span
=============================================================================
