---------------------------- MODULE AttestedGuest ----------------------------
(***************************************************************************)
(* The settlement guests credit_v2 and credit_v3,                          *)
(* prover/guests/settle_credit_v2 and settle_credit_v3: the determination  *)
(* and payout of credit_v1 on a history that the issuer has signed.  A     *)
(* signature is modelled by its message, [epoch, snapshot, payments], of   *)
(* which each guest binds a part; the committed issuer key by the fact     *)
(* that only the issuer adds to the messages.                              *)
(***************************************************************************)
EXTENDS CreditGuest

\* The message of credit_v2 is payments_digest alone: any payments the issuer
\* has signed open it, in every epoch.
PaymentsSigned(messages, payments) == \E m \in messages : m.payments = payments

\* The message of credit_v3, record_date_msg, names the epoch and the holders
\* of its record date too.  The mutant leaves the epoch out of it.
ForAnyEpoch(message, e) == TRUE
ForEpoch(message, e) == message.epoch = e

\* credit_v2 keeps the snapshot pinned at issuance.
ProvableV2(messages, config, e, payments, book) ==
  /\ PaymentsSigned(messages, payments)
  /\ Provable(config, e, payments, book)

\* credit_v3 determines over the signed snapshot instead of the committed one.
OnRecordDate(config, message) == [config EXCEPT !.snapshot = message.snapshot]

ProvableV3(messages, config, e, message, book) ==
  /\ message \in messages
  /\ ForEpoch(message, e)
  /\ Provable(OnRecordDate(config, message), e, message.payments, book)
=============================================================================
