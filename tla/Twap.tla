-------------------------------- MODULE Twap --------------------------------
(***************************************************************************)
(* The time arithmetic that record_twap_sample, record_compare_twap and    *)
(* the two resolve instructions share, over the terms an account was       *)
(* created with: a record with fields deadline, twap_window and            *)
(* twap_interval.                                                          *)
(***************************************************************************)
EXTENDS Integers

WindowStart(terms) == terms.deadline - terms.twap_window

(* Both ends of the window are inside. *)
InTwapWindow(terms, time) ==
  WindowStart(terms) <= time /\ time <= terms.deadline

(* A last_sample_ts of 0 means that no sample was taken. *)
IntervalElapsed(terms, last, time) ==
  last > 0 => time - last >= terms.twap_interval

AtLeastOne(n) == IF n > 1 THEN n ELSE 1

(* Half the samples the window has room for, and at least one. *)
MinSamples(terms) ==
  AtLeastOne(AtLeastOne(terms.twap_window \div terms.twap_interval) \div 2)

(* The initialize instructions' checks on the terms of a market or duel    *)
(* created at a time, when the interval may be in intervals.               *)
ValidTerms(terms, time, minDuration, intervals) ==
  /\ terms.deadline > time
  /\ terms.deadline - time >= minDuration
  /\ 0 < terms.twap_window /\ terms.twap_window < terms.deadline - time
  /\ terms.twap_interval \in intervals
=============================================================================
