------------------------- MODULE RuntimeIntentProofs -------------------------
(***************************************************************************)
(* The recovery policy implements the intent the service's model uses:     *)
(* whatever the clock, the window and the back-off table, an operation of  *)
(* RuntimeRecoveryPolicy does to the wish and the state what the operation *)
(* of RuntimeIntent does under some verdict.                               *)
(***************************************************************************)
EXTENDS RuntimeRecoveryPolicy, RuntimeIntent, TLAPS

\* The policy p is seen as the intent r.  (The failure counter of an intent is only
\* the bound of its model.)
Shows(p, r) == p.wanted = r.wanted /\ p.state = r.state

\* A retry is announced exactly when the intent owes one.
DelayAgrees(p, r, t) == RetryDelay(p, t) # Unset <=> Permits(r) /\ r.state = "retry"

\* suspend() leaves the wish alone.
LEMMA SuspendShape ==
    ASSUME NEW p \in Policy
    PROVE  Suspend(p) \in Policy /\ Suspend(p).wanted = p.wanted /\ Suspend(p).state = "suspended"
<1>1. Suspend(p) \in Policy
  BY DEF Suspend, Policy, Unset
<1>2. Suspend(p).wanted = p.wanted /\ Suspend(p).state = "suspended"
  BY DEF Suspend, Policy
<1> QED BY <1>1, <1>2

\* failed() leaves the wish alone, and answers a permitted failure by a retry or by
\* a suspension.
LEMMA FailedShape ==
    ASSUME NEW p \in Policy, NEW t \in Nat
    PROVE  /\ Failed(p, t) \in Policy /\ Failed(p, t).wanted = p.wanted
           /\ ~PermitsRecovery(p) => Failed(p, t) = p
           /\ PermitsRecovery(p) => Failed(p, t).state \in {"retry", "suspended"}
<1> DEFINE a == MarkStable(p, t)
           b == [a EXCEPT !.readyAt = Unset]
           q == OpenBudget(b, t)
<1>1. a \in Policy /\ a.wanted = p.wanted
  <2>1. CASE IsStable(p, t)
    <3>1. a = [p EXCEPT !.failures = 0, !.recoveryUntil = Unset]
      BY <2>1 DEF MarkStable
    <3>2. [p EXCEPT !.failures = 0, !.recoveryUntil = Unset] \in Policy
      BY DEF Policy, Unset
    <3>3. [p EXCEPT !.failures = 0, !.recoveryUntil = Unset].wanted = p.wanted
      BY DEF Policy
    <3> QED BY <3>1, <3>2, <3>3
  <2>2. CASE ~IsStable(p, t)
    BY <2>2 DEF MarkStable
  <2> QED BY <2>1, <2>2
<1> HIDE DEF a
<1>2. b \in Policy
  BY <1>1 DEF Policy, Unset
<1>3. b.wanted = p.wanted
  BY <1>1 DEF Policy
<1> HIDE DEF b
<1>4. q \in Policy
  BY <1>2, PolicyAssumption DEF OpenBudget, Policy
<1>5. q.wanted = p.wanted
  BY <1>2, <1>3 DEF OpenBudget, Policy
<1> HIDE DEF q
<1>6. Suspend(q) \in Policy /\ Suspend(q).wanted = p.wanted /\ Suspend(q).state = "suspended"
  BY <1>4, <1>5, SuspendShape
<1>7. /\ ChargeRetry(q, t) \in Policy /\ ChargeRetry(q, t).wanted = p.wanted
      /\ ChargeRetry(q, t).state \in {"retry", "suspended"}
  <2> DEFINE c == [q EXCEPT !.failures = @ + 1]
             d == [c EXCEPT !.state = "retry", !.retryAt = t + Backoff(c.failures)]
  <2>1. c \in Policy /\ c.failures \in Nat \ {0}
    <3>1. c \in Policy
      BY <1>4 DEF Policy
    <3>2. c.failures = q.failures + 1 /\ q.failures \in Nat
      BY <1>4 DEF Policy
    <3> QED BY <3>1, <3>2
  <2>2. c.wanted = p.wanted
    BY <1>4, <1>5 DEF Policy
  <2>3. ChargeRetry(q, t) = Suspend(c) \/ ChargeRetry(q, t) = d
    BY DEF ChargeRetry
  <2> HIDE DEF c
  <2>4. Suspend(c) \in Policy /\ Suspend(c).wanted = p.wanted /\ Suspend(c).state = "suspended"
    BY <2>1, <2>2, SuspendShape
  <2>5. t + Backoff(c.failures) \in Nat
    BY <2>1, PolicyAssumption DEF Backoff
  <2>6. d \in Policy
    BY <2>1, <2>5 DEF Policy
  <2>7. d.wanted = p.wanted /\ d.state = "retry"
    BY <2>1, <2>2 DEF Policy
  <2> HIDE DEF d
  <2> QED BY <2>3, <2>4, <2>6, <2>7
<1>8. Failed(p, t) = IF ~PermitsRecovery(p) THEN p
                     ELSE IF t >= q.recoveryUntil THEN Suspend(q) ELSE ChargeRetry(q, t)
  BY DEF Failed, q, b, a
<1> QED BY <1>6, <1>7, <1>8

\* The same of serviceRecreated().
LEMMA RecreatedShape ==
    ASSUME NEW p \in Policy, NEW t \in Nat
    PROVE  /\ ServiceRecreated(p, t) \in Policy /\ ServiceRecreated(p, t).wanted = p.wanted
           /\ ~PermitsRecovery(p) => ServiceRecreated(p, t) = p
           /\ PermitsRecovery(p) /\ p.state \in {"starting", "ready"} =>
                ServiceRecreated(p, t).state \in {"retry", "suspended"}
           /\ PermitsRecovery(p) /\ p.state \notin {"starting", "ready"} =>
                ServiceRecreated(p, t).state \in {p.state, "suspended"}
BY SuspendShape, FailedShape DEF ServiceRecreated

\* The operations without a verdict: userStarted(), userStopped(), launching() and
\* ready() do to the wish and the state what the service's model says.
THEOREM RequestsAgree ==
    ASSUME NEW p \in Policy, NEW r \in Intent, Shows(p, r), NEW t \in Nat, NEW active \in BOOLEAN
    PROVE  /\ PermitsRecovery(p) <=> Permits(r)
           /\ Shows(UserStarted(p, t, active), Started(r, active))
           /\ Shows(UserStopped(p), NoIntent)
           /\ Shows(Launching(p), Launched(r))
           /\ Shows(BecomeReady(p, t), Readied(r))
<1>1. PermitsRecovery(p) <=> Permits(r)
  BY DEF Shows, PermitsRecovery, Permits
<1>2. Shows(UserStarted(p, t, active), Started(r, active))
  <2> DEFINE q == [p EXCEPT !.wanted = TRUE, !.failures = 0, !.recoveryUntil = Unset]
             u == [q EXCEPT !.state = "retry", !.retryAt = t, !.readyAt = Unset]
  <2>1. q \in Policy /\ q.wanted = TRUE /\ q.state = p.state
    <3>1. q \in Policy
      BY DEF Policy, Unset
    <3>2. q.wanted = TRUE /\ q.state = p.state
      BY DEF Policy
    <3> QED BY <3>1, <3>2
  <2>2. UserStarted(p, t, active) = IF active THEN q ELSE u
    BY DEF UserStarted
  <2> HIDE DEF q
  <2>3. u.wanted = TRUE /\ u.state = "retry"
    BY <2>1 DEF Policy
  <2> HIDE DEF u
  <2>4. Started(r, active).wanted = TRUE
        /\ Started(r, active).state = IF active THEN r.state ELSE "retry"
    BY DEF Started
  <2> QED BY <2>1, <2>2, <2>3, <2>4 DEF Shows
<1>3. Shows(UserStopped(p), NoIntent)
  BY DEF Shows, UserStopped, EmptyPolicy, NoIntent
<1>4. Shows(Launching(p), Launched(r))
  BY DEF Shows, Launching, Launched, Policy, Intent
<1>5. Shows(BecomeReady(p, t), Readied(r))
  <2>1. [p EXCEPT !.state = "ready", !.readyAt = t].wanted = p.wanted
        /\ [p EXCEPT !.state = "ready", !.readyAt = t].state = "ready"
    BY DEF Policy
  <2>2. [r EXCEPT !.state = "ready"].wanted = r.wanted /\ [r EXCEPT !.state = "ready"].state = "ready"
    BY DEF Intent
  <2> QED BY <1>1, <2>1, <2>2 DEF Shows, BecomeReady, Readied
<1> QED BY <1>1, <1>2, <1>3, <1>4, <1>5

\* failed() and serviceRecreated() do what the model of the service does under one
\* of the three verdicts, as long as the model's bound is not reached, and they
\* return a delay exactly when the model owes a retry.
THEOREM ChargesAgree ==
    ASSUME NEW p \in Policy, NEW r \in Intent, Shows(p, r), NEW t \in Nat, r.failures < MaxRetries
    PROVE  /\ \E v \in Verdicts : /\ Shows(Failed(p, t), Charged(r, v))
                                  /\ DelayAgrees(Failed(p, t), Charged(r, v), t)
           /\ \E v \in Verdicts : /\ Shows(ServiceRecreated(p, t), Recreated(r, v))
                                  /\ DelayAgrees(ServiceRecreated(p, t), Recreated(r, v), t)
<1>1. PermitsRecovery(p) <=> Permits(r)
  BY DEF Shows, PermitsRecovery, Permits
<1> DEFINE Sus == [r EXCEPT !.state = "suspended"]
           Ret == [r EXCEPT !.state = "retry", !.failures = @ + 1]
<1>2. Sus.wanted = r.wanted /\ Sus.state = "suspended"
  BY DEF Intent
<1>3. Ret.wanted = r.wanted /\ Ret.state = "retry"
  BY DEF Intent
<1>4. Permits(r) => Charged(r, "never") = Sus /\ Charged(r, "later") = Ret
  <2>1. ~(r.failures >= MaxRetries)
    BY IntentAssumption DEF Intent
  <2> QED BY <2>1 DEF Charged
<1>5. ~Permits(r) => \A v \in Verdicts : Charged(r, v) = r /\ Recreated(r, v) = r
  BY DEF Charged, Recreated
<1> HIDE DEF Sus, Ret
<1>6. \E v \in Verdicts : Shows(Failed(p, t), Charged(r, v))
  BY <1>1, <1>2, <1>3, <1>4, <1>5, FailedShape DEF Shows, Verdicts
<1>7. \E v \in Verdicts : Shows(ServiceRecreated(p, t), Recreated(r, v))
  <2>1. CASE ~Permits(r)
    BY <1>1, <1>5, <2>1, RecreatedShape DEF Shows, Verdicts
  <2>2. CASE Permits(r) /\ r.state \in {"starting", "ready"}
    <3>1. \A v \in Verdicts : Recreated(r, v) = Charged(r, v)
      BY <2>2 DEF Recreated
    <3> QED BY <1>1, <1>2, <1>3, <1>4, <2>2, <3>1, RecreatedShape DEF Shows, Verdicts
  <2>3. CASE Permits(r) /\ r.state \notin {"starting", "ready"}
    <3>1. Recreated(r, "later") = r
      BY <2>3 DEF Recreated
    <3>2. Recreated(r, "never") = Sus
      BY <2>3 DEF Recreated, Sus
    <3> QED BY <1>1, <1>2, <2>3, <3>1, <3>2, RecreatedShape DEF Shows, Verdicts
  <2> QED BY <2>1, <2>2, <2>3
<1>8. \A q \in Policy : \A i : Shows(q, i) => DelayAgrees(q, i, t)
  BY DEF Shows, DelayAgrees, RetryDelay, PermitsRecovery, Permits, Policy, Unset
<1>9. Failed(p, t) \in Policy /\ ServiceRecreated(p, t) \in Policy
  BY FailedShape, RecreatedShape
<1> QED BY <1>6, <1>7, <1>8, <1>9
==============================================================================
