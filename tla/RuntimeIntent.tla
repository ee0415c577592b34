---------------------------- MODULE RuntimeIntent ----------------------------
(***************************************************************************)
(* The recovery policy as the service's lifecycle sees it: the intent, the *)
(* state and the number of charged failures, without the clock.  What the  *)
(* clock decides is a verdict: "now" (the retry is due), "later", or       *)
(* "never" (the budget is spent).  RuntimeIntentProofs shows that every    *)
(* operation of RuntimeRecoveryPolicy is one of these.                     *)
(***************************************************************************)
EXTENDS Naturals

CONSTANT MaxRetries     \* back-off steps of one burst
ASSUME IntentAssumption == MaxRetries \in Nat

Verdicts == {"now", "later", "never"}

Intent == [wanted: BOOLEAN, state: {"stopped", "starting", "ready", "retry", "suspended"},
           failures: 0..MaxRetries]

NoIntent == [wanted |-> FALSE, state |-> "stopped", failures |-> 0]

Permits(r) == r.wanted /\ r.state # "suspended"

Started(r, sessionActive) ==
    [wanted |-> TRUE, state |-> IF sessionActive THEN r.state ELSE "retry", failures |-> 0]

Launched(r) == [r EXCEPT !.state = "starting"]

Readied(r) == IF Permits(r) THEN [r EXCEPT !.state = "ready"] ELSE r

Stable(r) == r.state = "ready" /\ r.failures # 0

Stabilized(r) == [r EXCEPT !.failures = 0]

\* Mutant: the budget is not looked at.
ChargedUncapped(r, verdict) ==
    IF ~Permits(r) THEN r
    ELSE IF verdict = "never" THEN [r EXCEPT !.state = "suspended"]
    ELSE [r EXCEPT !.state = "retry", !.failures = @ + 1]

\* failed(): a burst that proved stable starts over; the next failure is charged
\* and retried, or the intent is suspended.
Charged(r, verdict) ==
    IF ~Permits(r) THEN r
    ELSE IF verdict = "never" \/ r.failures >= MaxRetries THEN [r EXCEPT !.state = "suspended"]
    ELSE [r EXCEPT !.state = "retry", !.failures = @ + 1]

\* serviceRecreated().
Recreated(r, verdict) ==
    IF ~Permits(r) THEN r
    ELSE IF r.state \in {"starting", "ready"} THEN Charged(r, verdict)
    ELSE IF verdict = "never" THEN [r EXCEPT !.state = "suspended"]
    ELSE r
==============================================================================
