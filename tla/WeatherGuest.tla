----------------------------- MODULE WeatherGuest -----------------------------
(***************************************************************************)
(* The settlement guest weather_v1, prover/guests/settle_weather_v1:       *)
(* drought cover on the rain measured by one station in one window.  Its   *)
(* hashes, positions, schedule and journal are those of credit_v1.  Terms  *)
(* are a record [station, from, to, trigger, exhaust].                     *)
(***************************************************************************)
EXTENDS CreditGuest

\* A reading of the committed station within the window and by the deadline;
\* the mutant forgets to ask for the station.
CountsAnywhere(terms, reading, deadline) ==
  reading.at \in terms.from..terms.to /\ reading.at <= deadline
Counts(terms, reading, deadline) ==
  /\ reading.station = terms.station
  /\ reading.at \in terms.from..terms.to
  /\ reading.at <= deadline

Rain(terms, deadline, readings) ==
  Total([q \in {n \in DOMAIN readings : Counts(terms, readings[n], deadline)} |->
           readings[q].mm])

\* The shortfall against the trigger, capped at the band.
Span(terms) == terms.trigger - terms.exhaust
Severity(terms, rain) == Lesser(terms.trigger - rain, Span(terms))

ProvableWeather(config, terms, e, readings, book) ==
  /\ Scheduled(config.schedule, e)
  /\ Opened(book)
  /\ terms.trigger > terms.exhaust
  /\ LET rain == Rain(terms, GuestDeadline(config.schedule, e), readings)
         severity == Severity(terms, rain)
     IN  /\ rain <= I128Max
         /\ rain < terms.trigger
         /\ \A i \in DOMAIN book : book[i].cover * severity <= I128Max
         /\ AllocationSum(Allocations(book, severity, Span(terms))) <= U64Max

\* The generic journal, of the same layout as that of credit_v1.
WeatherJournal(instrument, config, terms, e, readings, book) ==
  LET deadline == GuestDeadline(config.schedule, e)
      severity == Severity(terms, Rain(terms, deadline, readings))
  IN  [instrument |-> instrument, epoch |-> e, deadline |-> deadline,
       positions |-> book,
       allocs |-> Allocations(book, severity, Span(terms))]
=============================================================================
