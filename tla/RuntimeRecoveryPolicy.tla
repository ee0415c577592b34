------------------------ MODULE RuntimeRecoveryPolicy ------------------------
(***************************************************************************)
(* The value behind app.foldgpt.RuntimeRecoveryPolicy: what the user wants *)
(* of the runtime, and how often a crashed session may still be relaunched *)
(* without a new request.  Every method of the class is an operator from   *)
(* the old value to the new one; `t' is Android's elapsed realtime.        *)
(***************************************************************************)
EXTENDS Integers, Sequences

CONSTANTS
    StableWindow,   \* STABLE_WINDOW_MS: start-up budget of one crash burst
    RetryDelays     \* RetryDelays[n]: back-off before the n-th retry, below StableWindow

ASSUME PolicyAssumption ==
    /\ StableWindow \in Nat \ {0}
    /\ RetryDelays \in Seq(Nat \ {0})

Unset == -1

Policy ==
    [bootId: Nat, wanted: BOOLEAN, failures: Nat,
     state: {"stopped", "starting", "ready", "retry", "suspended"},
     readyAt: Nat \cup {Unset}, retryAt: Nat \cup {Unset}, recoveryUntil: Nat \cup {Unset}]

EmptyPolicy(boot) ==
    [bootId |-> boot, wanted |-> FALSE, failures |-> 0, state |-> "stopped",
     readyAt |-> Unset, retryAt |-> Unset, recoveryUntil |-> Unset]

PermitsRecovery(p) == p.wanted /\ p.state # "suspended"

UserStarted(p, t, sessionActive) ==
    LET q == [p EXCEPT !.wanted = TRUE, !.failures = 0, !.recoveryUntil = Unset]
    IN  IF sessionActive THEN q
        ELSE [q EXCEPT !.state = "retry", !.retryAt = t, !.readyAt = Unset]

\* Mutant: the stop forgets to withdraw the intent.
UserStoppedKeepsIntent(p) == [p EXCEPT !.failures = 0]

UserStopped(p) == EmptyPolicy(p.bootId)

\* Called only where PermitsRecovery holds: the method throws otherwise.
Launching(p) == [p EXCEPT !.state = "starting", !.readyAt = Unset, !.retryAt = Unset]

\* Mutant: readiness without its time.
BecomeReadyUntimed(p, t) == IF PermitsRecovery(p) THEN [p EXCEPT !.state = "ready"] ELSE p

BecomeReady(p, t) ==
    IF PermitsRecovery(p) /\ p.state # "ready"
    THEN [p EXCEPT !.state = "ready", !.readyAt = t] ELSE p

IsStable(p, t) ==
    /\ p.state = "ready" /\ p.readyAt >= 0
    /\ t - p.readyAt >= StableWindow
    /\ p.failures # 0

MarkStable(p, t) ==
    IF IsStable(p, t) THEN [p EXCEPT !.failures = 0, !.recoveryUntil = Unset] ELSE p

Suspend(p) == [p EXCEPT !.state = "suspended", !.retryAt = Unset]

\* The loop of failed(): geometric growth, capped at the window.
Backoff(failures) ==
    IF failures <= Len(RetryDelays) THEN RetryDelays[failures] ELSE StableWindow

\* The first failure of a burst opens its budget.
OpenBudget(p, t) ==
    IF p.recoveryUntil < 0 THEN [p EXCEPT !.recoveryUntil = t + StableWindow] ELSE p

\* Mutant: the delay is counted backwards.
ChargeRetryBackwards(p, t) ==
    [p EXCEPT !.failures = @ + 1, !.state = "retry", !.retryAt = t - Backoff(p.failures + 1)]

ChargeRetry(p, t) ==
    LET q == [p EXCEPT !.failures = @ + 1]
    IN  IF Backoff(q.failures) >= q.recoveryUntil - t THEN Suspend(q)
        ELSE [q EXCEPT !.state = "retry", !.retryAt = t + Backoff(q.failures)]

Failed(p, t) ==
    LET q == OpenBudget([MarkStable(p, t) EXCEPT !.readyAt = Unset], t)
    IN  IF ~PermitsRecovery(p) THEN p
        ELSE IF t >= q.recoveryUntil THEN Suspend(q)
        ELSE ChargeRetry(q, t)

\* Mutant: a session that died with its process is retried for free.
ServiceRecreatedUncharged(p, t) ==
    IF PermitsRecovery(p) /\ p.state \in {"starting", "ready"}
    THEN [p EXCEPT !.state = "retry", !.retryAt = t] ELSE p

\* Mutant: an owed retry is charged again.
ServiceRecreatedTwice(p, t) == Failed(p, t)

ServiceRecreated(p, t) ==
    IF ~PermitsRecovery(p) THEN p
    ELSE IF p.state \in {"starting", "ready"} THEN Failed(p, t)
    ELSE IF p.recoveryUntil >= 0 /\ t >= p.recoveryUntil THEN Suspend(p)
    ELSE p

\* What failed() and serviceRecreated() return once they have moved to p:
\* the time left before the relaunch, or Unset when there is none.
RetryDelay(p, t) ==
    IF ~PermitsRecovery(p) \/ p.state # "retry" THEN Unset
    ELSE IF p.retryAt > t THEN p.retryAt - t ELSE 0

\* The consistency check of restore(); onCreate falls back to an empty policy
\* when it fails.
Restorable(p) ==
    /\ ~p.wanted => p.state = "stopped"
    /\ p.state = "ready" => p.readyAt >= 0
    /\ p.state = "retry" => p.retryAt >= 0

\* Mutant: a reboot lifts the suspension.
RestoreLiftsSuspension(saved, boot) ==
    IF saved.bootId = boot \/ ~saved.wanted THEN [saved EXCEPT !.bootId = boot]
    ELSE [saved EXCEPT !.bootId = boot, !.readyAt = Unset, !.recoveryUntil = Unset,
                       !.state = "retry", !.retryAt = 0]

\* restore(): times of another boot mean nothing in this one.
Restore(saved, boot) ==
    IF ~Restorable(saved) THEN EmptyPolicy(boot)
    ELSE IF saved.bootId = boot THEN saved
    ELSE LET p == [saved EXCEPT !.bootId = boot, !.readyAt = Unset, !.recoveryUntil = Unset]
         IN  IF PermitsRecovery(p) THEN [p EXCEPT !.state = "retry", !.retryAt = 0] ELSE p

-----------------------------------------------------------------------------
(* The back-off table of failed(), computed the way its loop does: start at
   FIRST_RETRY_MS, multiply by 1.618 and round to the nearest millisecond, never
   beyond the stable window. *)

Grow(delay, window) ==
    LET rounded == (delay * 1618 + 500) \div 1000
    IN  IF rounded < window THEN rounded ELSE window

\* The delay after n failures.
LoopDelay(n, first, window) ==
    LET delay[i \in 1..n] ==
            IF i = 1 THEN first
            ELSE LET previous == delay[i - 1]
                 IN  IF previous < window THEN Grow(previous, window) ELSE previous
    IN  delay[n]

\* The delays that stay below the window; from there on the loop yields the window.
BackoffTable(first, window) ==
    LET below == {n \in 1..32 : LoopDelay(n, first, window) < window}
    IN  [n \in below |-> LoopDelay(n, first, window)]
==============================================================================
