------------------------ MODULE RuntimeRecoveryProofs ------------------------
(***************************************************************************)
(* Proofs about RuntimeRecovery, for every window, back-off table and      *)
(* bound.  The inductive invariant ties the number of launches of a burst  *)
(* to the number of charged failures, in memory and on disk, and bounds    *)
(* the deadline of an open budget by the clock of the boot it belongs to.  *)
(***************************************************************************)
EXTENDS RuntimeRecovery, TLAPS

\* A policy and the number of launches of its burst.  Every launch is charged
\* when it ends, so while a retry is owed both numbers agree, and a session that
\* has not ended yet is one launch ahead.
BurstInv(p, n) ==
    /\ Restorable(p)
    /\ p.failures <= n
    /\ PermitsRecovery(p) =>
        /\ p.failures <= Len(RetryDelays)
        /\ n = IF p.state = "retry" THEN p.failures ELSE p.failures + 1

\* A budget never reaches further than one window from now.
WithinWindow(p, t) == p.recoveryUntil <= t + StableWindow

\* What is known of a policy, in memory or committed, in boot b at time t.
Accounts(p, n, b, t) ==
    /\ p \in Policy /\ n \in Nat
    /\ BurstInv(p, n)
    /\ p.bootId <= b
    /\ p.bootId = b => WithinWindow(p, t)

IInv ==
    /\ TypeOK
    /\ policy.bootId = boot
    /\ Accounts(policy, launches, boot, now)
    /\ Accounts(disk, savedLaunches, boot, now)
    /\ alive /\ policy.wanted => policy = disk
    /\ session => alive /\ policy.state \notin {"retry", "suspended"}
    /\ ~session => policy.state \notin {"starting", "ready"}
    /\ asked = "stop" => ~session /\ ~sticky /\ (alive => ~policy.wanted)

------------------------------------------------------------------------------

\* The empty policy is a policy of an empty burst.
LEMMA EmptyPolicyFacts ==
    ASSUME NEW b \in Nat, NEW n \in Nat, NEW t \in Nat
    PROVE  /\ EmptyPolicy(b) \in Policy
           /\ EmptyPolicy(b).bootId = b
           /\ BurstInv(EmptyPolicy(b), n)
           /\ WithinWindow(EmptyPolicy(b), t)
           /\ ~EmptyPolicy(b).wanted
           /\ ~PermitsRecovery(EmptyPolicy(b))
           /\ EmptyPolicy(b).state = "stopped"
BY PolicyAssumption DEF EmptyPolicy, Policy, BurstInv, WithinWindow, Restorable, PermitsRecovery, Unset

\* What each elementary update of a policy leaves and changes.
LEMMA SuspendFacts ==
    ASSUME NEW p \in Policy
    PROVE  /\ Suspend(p) \in Policy
           /\ Suspend(p).bootId = p.bootId /\ Suspend(p).wanted = p.wanted
           /\ Suspend(p).failures = p.failures /\ Suspend(p).state = "suspended"
           /\ Suspend(p).recoveryUntil = p.recoveryUntil
<1>1. Suspend(p) \in Policy
  BY DEF Suspend, Policy, Unset
<1>2. /\ Suspend(p).bootId = p.bootId /\ Suspend(p).wanted = p.wanted
      /\ Suspend(p).failures = p.failures /\ Suspend(p).state = "suspended"
      /\ Suspend(p).recoveryUntil = p.recoveryUntil
  BY DEF Suspend, Policy
<1> QED BY <1>1, <1>2

LEMMA MarkStableFacts ==
    ASSUME NEW p \in Policy, NEW t \in Nat
    PROVE  LET q == MarkStable(p, t)
           IN /\ q \in Policy
              /\ q.bootId = p.bootId /\ q.wanted = p.wanted /\ q.state = p.state
              /\ q.readyAt = p.readyAt /\ q.retryAt = p.retryAt
              /\ IsStable(p, t) => q.failures = 0 /\ q.recoveryUntil = Unset
              /\ ~IsStable(p, t) => q = p
<1>1. CASE ~IsStable(p, t)
  BY <1>1 DEF MarkStable
<1>2. CASE IsStable(p, t)
  <2>1. MarkStable(p, t) = [p EXCEPT !.failures = 0, !.recoveryUntil = Unset]
    BY <1>2 DEF MarkStable
  <2>2. [p EXCEPT !.failures = 0, !.recoveryUntil = Unset] \in Policy
    BY DEF Policy, Unset
  <2>3. LET q == [p EXCEPT !.failures = 0, !.recoveryUntil = Unset]
        IN  /\ q.bootId = p.bootId /\ q.wanted = p.wanted /\ q.state = p.state
            /\ q.readyAt = p.readyAt /\ q.retryAt = p.retryAt
            /\ q.failures = 0 /\ q.recoveryUntil = Unset
    BY DEF Policy
  <2> QED BY <1>2, <2>1, <2>2, <2>3
<1> QED BY <1>1, <1>2

LEMMA OpenBudgetFacts ==
    ASSUME NEW p \in Policy, NEW t \in Nat, WithinWindow(p, t)
    PROVE  LET q == OpenBudget([p EXCEPT !.readyAt = Unset], t)
           IN  /\ q \in Policy
               /\ q.bootId = p.bootId /\ q.wanted = p.wanted /\ q.state = p.state
               /\ q.failures = p.failures /\ q.readyAt = Unset
               /\ q.recoveryUntil \in Nat
               /\ WithinWindow(q, t)
<1> DEFINE r == [p EXCEPT !.readyAt = Unset]
           s == [r EXCEPT !.recoveryUntil = t + StableWindow]
<1>1. t + StableWindow \in Nat
  BY PolicyAssumption
<1>2. r \in Policy
  BY DEF Policy, Unset
<1>3. /\ r.bootId = p.bootId /\ r.wanted = p.wanted /\ r.state = p.state
      /\ r.failures = p.failures /\ r.readyAt = Unset /\ r.recoveryUntil = p.recoveryUntil
  BY DEF Policy
<1> HIDE DEF r
<1>4. s \in Policy
  BY <1>1, <1>2 DEF Policy
<1>5. /\ s.bootId = r.bootId /\ s.wanted = r.wanted /\ s.state = r.state
      /\ s.failures = r.failures /\ s.readyAt = r.readyAt /\ s.recoveryUntil = t + StableWindow
  BY <1>2 DEF Policy
<1> HIDE DEF s
<1>6. CASE r.recoveryUntil < 0
  <2>1. OpenBudget(r, t) = s
    BY <1>6 DEF OpenBudget, s
  <2> QED BY <1>1, <1>3, <1>4, <1>5, <2>1 DEF r, WithinWindow
<1>7. CASE ~(r.recoveryUntil < 0)
  <2>1. OpenBudget(r, t) = r
    BY <1>7 DEF OpenBudget
  <2>2. r.recoveryUntil \in Nat
    BY <1>2, <1>7 DEF Policy, Unset
  <2>3. WithinWindow(r, t)
    BY <1>3 DEF WithinWindow
  <2> QED BY <1>2, <1>3, <2>1, <2>2, <2>3 DEF r
<1> QED BY <1>6, <1>7

\* The last step of failed(): one more failure, and a retry if its back-off
\* still fits into the budget.
LEMMA ChargeRetryFacts ==
    ASSUME NEW p \in Policy, NEW t \in Nat, p.wanted,
           p.recoveryUntil \in Nat, WithinWindow(p, t), t < p.recoveryUntil
    PROVE  LET q == ChargeRetry(p, t)
           IN  /\ q \in Policy /\ q.bootId = p.bootId /\ q.wanted
               /\ WithinWindow(q, t) /\ BurstInv(q, p.failures + 1)
               /\ q.state \in {"retry", "suspended"}
<1> DEFINE r == [p EXCEPT !.failures = @ + 1]
           s == [r EXCEPT !.state = "retry", !.retryAt = t + Backoff(r.failures)]
<1>1. r \in Policy
  BY DEF Policy
<1>2. /\ r.bootId = p.bootId /\ r.wanted = p.wanted /\ r.failures = p.failures + 1
      /\ r.recoveryUntil = p.recoveryUntil /\ p.failures \in Nat
  BY DEF Policy
<1> HIDE DEF r
<1>3. CASE Backoff(r.failures) >= r.recoveryUntil - t
  <2>1. ChargeRetry(p, t) = Suspend(r)
    BY <1>3 DEF ChargeRetry, r
  <2>2. /\ Suspend(r) \in Policy /\ Suspend(r).bootId = p.bootId /\ Suspend(r).wanted
        /\ Suspend(r).failures = p.failures + 1 /\ Suspend(r).state = "suspended"
        /\ Suspend(r).recoveryUntil = p.recoveryUntil
    BY <1>1, <1>2, SuspendFacts
  <2>3. WithinWindow(Suspend(r), t)
    BY <2>2 DEF WithinWindow
  <2>4. BurstInv(Suspend(r), p.failures + 1)
    BY <1>2, <2>2 DEF BurstInv, Restorable, PermitsRecovery
  <2> QED BY <2>1, <2>2, <2>3, <2>4
<1>4. CASE ~(Backoff(r.failures) >= r.recoveryUntil - t)
  <2>1. ChargeRetry(p, t) = s
    BY <1>4 DEF ChargeRetry, r
  <2>2. r.failures <= Len(RetryDelays)
    BY <1>2, <1>4, PolicyAssumption DEF Backoff, WithinWindow
  <2>3. t + Backoff(r.failures) \in Nat
    BY <1>2, <2>2, PolicyAssumption DEF Backoff
  <2>4. s \in Policy
    BY <1>1, <2>3 DEF Policy
  <2>5. /\ s.bootId = r.bootId /\ s.wanted = r.wanted /\ s.failures = r.failures
        /\ s.state = "retry" /\ s.recoveryUntil = r.recoveryUntil
        /\ s.retryAt = t + Backoff(r.failures)
    BY <1>1 DEF Policy
  <2> HIDE DEF s
  <2>6. WithinWindow(s, t)
    BY <1>2, <2>5 DEF WithinWindow
  <2>7. BurstInv(s, p.failures + 1)
    BY <1>2, <2>2, <2>3, <2>5 DEF BurstInv, Restorable, PermitsRecovery
  <2> QED BY <1>2, <2>1, <2>4, <2>5, <2>6, <2>7
<1> QED BY <1>3, <1>4

\* failed() charges the launch that just ended, or suspends.
LEMMA FailedFacts ==
    ASSUME NEW p \in Policy, NEW t \in Nat, NEW n \in Nat,
           BurstInv(p, n), WithinWindow(p, t), p.state # "retry"
    PROVE  LET q == Failed(p, t)
               m == IF IsStable(p, t) THEN 1 ELSE n
           IN  /\ q \in Policy /\ q.bootId = p.bootId /\ q.wanted = p.wanted
               /\ BurstInv(q, m) /\ WithinWindow(q, t)
               /\ q.state \notin {"starting", "ready"}
<1> DEFINE m == IF IsStable(p, t) THEN 1 ELSE n
           s == MarkStable(p, t)
           r == OpenBudget([s EXCEPT !.readyAt = Unset], t)
<1>1. CASE ~PermitsRecovery(p)
  <2>1. Failed(p, t) = p
    BY <1>1 DEF Failed
  <2>2. BurstInv(p, m) /\ p.state \notin {"starting", "ready"}
    BY <1>1 DEF IsStable, PermitsRecovery, BurstInv, Restorable
  <2> QED BY <2>1, <2>2
<1>2. CASE PermitsRecovery(p)
  <2>1. /\ s \in Policy /\ s.bootId = p.bootId /\ s.wanted = p.wanted
        /\ IsStable(p, t) => s.failures = 0 /\ s.recoveryUntil = Unset
        /\ ~IsStable(p, t) => s = p
    BY MarkStableFacts
  <2> HIDE DEF s
  <2>2. WithinWindow(s, t)
    BY <2>1, PolicyAssumption DEF WithinWindow, Unset
  <2>3. p.state # "retry" /\ PermitsRecovery(p) => n = p.failures + 1
    BY DEF BurstInv
  <2>4. s.failures + 1 = m /\ s.failures \in Nat
    BY <1>2, <2>3, <2>1 DEF Policy
  <2> HIDE DEF m
  <2>5. /\ r \in Policy /\ r.bootId = p.bootId /\ r.wanted
        /\ r.failures = s.failures /\ r.recoveryUntil \in Nat /\ WithinWindow(r, t)
    BY <1>2, <2>2, <2>1, OpenBudgetFacts DEF PermitsRecovery
  <2>6. p.wanted
    BY <1>2 DEF PermitsRecovery
  <2>7. Failed(p, t) = IF t >= r.recoveryUntil THEN Suspend(r) ELSE ChargeRetry(r, t)
    BY <1>2 DEF Failed, s
  <2> HIDE DEF r
  <2>8. CASE t >= r.recoveryUntil
    <3>1. Failed(p, t) = Suspend(r)
      BY <2>7, <2>8
    <3>2. WithinWindow(Suspend(r), t)
      BY <2>5, SuspendFacts DEF WithinWindow
    <3>3. BurstInv(Suspend(r), m)
      BY <2>4, <2>5, SuspendFacts DEF BurstInv, Restorable, PermitsRecovery
    <3>4. (Suspend(r)).wanted = p.wanted
      BY <2>5, <2>6, SuspendFacts DEF Policy
    <3> QED BY <1>2, <2>5, <3>1, <3>2, <3>3, <3>4, SuspendFacts DEF m
  <2>9. CASE ~(t >= r.recoveryUntil)
    <3>1. Failed(p, t) = ChargeRetry(r, t) /\ t < r.recoveryUntil
      BY <2>5, <2>7, <2>9
    <3>2. /\ ChargeRetry(r, t) \in Policy /\ ChargeRetry(r, t).bootId = p.bootId
          /\ ChargeRetry(r, t).wanted
          /\ WithinWindow(ChargeRetry(r, t), t) /\ BurstInv(ChargeRetry(r, t), m)
          /\ ChargeRetry(r, t).state \in {"retry", "suspended"}
      BY <2>4, <2>5, <3>1, ChargeRetryFacts
    <3>3. ChargeRetry(r, t).wanted = p.wanted
      BY <2>6, <3>2 DEF Policy
    <3> QED BY <1>2, <3>1, <3>2, <3>3 DEF m
  <2> QED BY <2>8, <2>9
<1> QED BY <1>1, <1>2

\* serviceRecreated() charges a session that ended, and leaves an owed retry
\* alone or suspends it.
LEMMA ServiceRecreatedFacts ==
    ASSUME NEW p \in Policy, NEW t \in Nat, NEW n \in Nat,
           BurstInv(p, n), WithinWindow(p, t)
    PROVE  LET q == ServiceRecreated(p, t)
               m == IF IsStable(p, t) THEN 1 ELSE n
           IN  /\ q \in Policy /\ q.bootId = p.bootId /\ q.wanted = p.wanted
               /\ BurstInv(q, m) /\ WithinWindow(q, t)
               /\ q.state \notin {"starting", "ready"}
               /\ ~PermitsRecovery(p) => q = p
<1>1. CASE ~PermitsRecovery(p)
  BY <1>1 DEF ServiceRecreated, IsStable, PermitsRecovery, BurstInv, Restorable
<1>2. CASE PermitsRecovery(p) /\ p.state \in {"starting", "ready"}
  <2>1. ServiceRecreated(p, t) = Failed(p, t) /\ p.state # "retry"
    BY <1>2 DEF ServiceRecreated
  <2> QED BY <2>1, <1>2, FailedFacts
<1>3. CASE PermitsRecovery(p) /\ p.state \notin {"starting", "ready"}
  <2>1. ~IsStable(p, t)
    BY <1>3 DEF IsStable
  <2>2. CASE p.recoveryUntil >= 0 /\ t >= p.recoveryUntil
    <3>1. ServiceRecreated(p, t) = Suspend(p)
      BY <1>3, <2>2 DEF ServiceRecreated
    <3>2. WithinWindow(Suspend(p), t)
      BY SuspendFacts DEF WithinWindow
    <3>3. BurstInv(Suspend(p), n)
      BY <1>3, SuspendFacts DEF BurstInv, Restorable, PermitsRecovery
    <3> QED BY <1>3, <2>1, <3>1, <3>2, <3>3, SuspendFacts
  <2>3. CASE ~(p.recoveryUntil >= 0 /\ t >= p.recoveryUntil)
    <3>1. ServiceRecreated(p, t) = p
      BY <1>3, <2>3 DEF ServiceRecreated
    <3> QED BY <1>3, <2>1, <3>1
  <2> QED BY <2>2, <2>3
<1> QED BY <1>1, <1>2, <1>3

\* launching() starts the launch that is charged when it ends.
LEMMA LaunchingFacts ==
    ASSUME NEW p \in Policy, NEW t \in Nat, NEW n \in Nat,
           BurstInv(p, n), WithinWindow(p, t), PermitsRecovery(p), p.state = "retry"
    PROVE  LET q == Launching(p)
           IN  /\ q \in Policy /\ q.bootId = p.bootId /\ q.state = "starting"
               /\ BurstInv(q, n + 1) /\ WithinWindow(q, t)
<1> DEFINE q == Launching(p)
<1>1. q \in Policy
  BY DEF Launching, Policy, Unset
<1>2. /\ q.bootId = p.bootId /\ q.wanted = p.wanted /\ q.failures = p.failures
      /\ q.state = "starting" /\ q.recoveryUntil = p.recoveryUntil /\ p.failures \in Nat
  BY DEF Launching, Policy
<1> HIDE DEF q
<1>3. BurstInv(q, n + 1)
  BY <1>2 DEF BurstInv, Restorable, PermitsRecovery
<1>4. WithinWindow(q, t)
  BY <1>2 DEF WithinWindow
<1> QED BY <1>1, <1>2, <1>3, <1>4 DEF q

\* ready() changes nothing of the accounts.
LEMMA BecomeReadyFacts ==
    ASSUME NEW p \in Policy, NEW t \in Nat, NEW n \in Nat,
           BurstInv(p, n), WithinWindow(p, t), p.state # "retry"
    PROVE  LET q == BecomeReady(p, t)
           IN  /\ q \in Policy /\ q.bootId = p.bootId /\ q.state \in {p.state, "ready"}
               /\ BurstInv(q, n) /\ WithinWindow(q, t)
               /\ q.wanted = p.wanted
<1>1. CASE ~(PermitsRecovery(p) /\ p.state # "ready")
  BY <1>1 DEF BecomeReady
<1>2. CASE PermitsRecovery(p) /\ p.state # "ready"
  <2> DEFINE q == [p EXCEPT !.state = "ready", !.readyAt = t]
  <2>1. BecomeReady(p, t) = q
    BY <1>2 DEF BecomeReady
  <2>2. q \in Policy
    BY DEF Policy
  <2>3. /\ q.bootId = p.bootId /\ q.wanted = p.wanted /\ q.failures = p.failures
        /\ q.state = "ready" /\ q.readyAt = t /\ q.recoveryUntil = p.recoveryUntil
    BY DEF Policy
  <2> HIDE DEF q
  <2>4. BurstInv(q, n)
    BY <1>2, <2>3 DEF BurstInv, Restorable, PermitsRecovery
  <2>5. WithinWindow(q, t)
    BY <2>3 DEF WithinWindow
  <2> QED BY <2>1, <2>2, <2>3, <2>4, <2>5
<1> QED BY <1>1, <1>2

\* userStarted() opens a burst of its own: no launch yet, or the running one.
LEMMA UserStartedFacts ==
    ASSUME NEW p \in Policy, NEW t \in Nat, NEW n \in Nat,
           BurstInv(p, n), NEW active \in BOOLEAN,
           active => p.state \notin {"retry", "suspended"}
    PROVE  LET q == UserStarted(p, t, active)
           IN  /\ q \in Policy /\ q.bootId = p.bootId
               /\ active => q.state = p.state
               /\ ~active => q.state = "retry"
               /\ BurstInv(q, IF active THEN 1 ELSE 0) /\ WithinWindow(q, t)
<1> DEFINE r == [p EXCEPT !.wanted = TRUE, !.failures = 0, !.recoveryUntil = Unset]
           s == [r EXCEPT !.state = "retry", !.retryAt = t, !.readyAt = Unset]
<1>1. r \in Policy
  BY DEF Policy, Unset
<1>2. /\ r.bootId = p.bootId /\ r.failures = 0 /\ r.state = p.state
      /\ r.recoveryUntil = Unset /\ r.readyAt = p.readyAt
  BY DEF Policy
<1>3. r.wanted
  BY DEF Policy
<1> HIDE DEF r
<1>4. s \in Policy
  BY <1>1 DEF Policy, Unset
<1>5. /\ s.bootId = r.bootId /\ s.failures = r.failures /\ s.state = "retry"
      /\ s.recoveryUntil = r.recoveryUntil /\ s.retryAt = t /\ s.wanted = r.wanted
  BY <1>1 DEF Policy
<1> HIDE DEF s
<1>6. CASE active
  <2>1. UserStarted(p, t, active) = r
    BY <1>6 DEF UserStarted, r
  <2>2. BurstInv(r, 1)
    BY <1>2, <1>3, <1>6, PolicyAssumption DEF BurstInv, Restorable, PermitsRecovery
  <2>3. WithinWindow(r, t)
    BY <1>2, PolicyAssumption DEF WithinWindow, Unset
  <2> QED BY <1>1, <1>2, <1>6, <2>1, <2>2, <2>3
<1>7. CASE ~active
  <2>1. UserStarted(p, t, active) = s
    BY <1>7 DEF UserStarted, r, s
  <2>2. BurstInv(s, 0)
    BY <1>2, <1>3, <1>5, PolicyAssumption DEF BurstInv, Restorable, PermitsRecovery
  <2>3. WithinWindow(s, t)
    BY <1>2, <1>5, PolicyAssumption DEF WithinWindow, Unset
  <2> QED BY <1>2, <1>4, <1>5, <1>7, <2>1, <2>2, <2>3
<1> QED BY <1>6, <1>7

\* restore() under the same boot is the identity; under a new one an owed or
\* running session becomes a retry that has been charged already.
LEMMA RestoreFacts ==
    ASSUME NEW p \in Policy, NEW b \in Nat, NEW t \in Nat, NEW n \in Nat,
           BurstInv(p, n), p.bootId = b => WithinWindow(p, t)
    PROVE  LET q == Restore(p, b)
           IN  /\ q \in Policy /\ q.bootId = b
               /\ BurstInv(q, IF p.bootId = b THEN n ELSE p.failures)
               /\ WithinWindow(q, t)
               /\ PermitsRecovery(q) => PermitsRecovery(p)
<1> DEFINE r == [p EXCEPT !.bootId = b, !.readyAt = Unset, !.recoveryUntil = Unset]
           s == [r EXCEPT !.state = "retry", !.retryAt = 0]
<1>1. Restorable(p) /\ p.failures \in Nat
  BY DEF BurstInv, Policy
<1>2. CASE p.bootId = b
  BY <1>1, <1>2 DEF Restore
<1>3. CASE p.bootId # b
  <2>1. r \in Policy
    BY DEF Policy, Unset
  <2>2. /\ r.bootId = b /\ r.failures = p.failures /\ r.state = p.state
        /\ r.recoveryUntil = Unset /\ r.retryAt = p.retryAt /\ r.wanted = p.wanted
    BY DEF Policy
  <2> HIDE DEF r
  <2>3. s \in Policy
    BY <2>1 DEF Policy
  <2>4. /\ s.bootId = r.bootId /\ s.failures = r.failures /\ s.state = "retry"
        /\ s.recoveryUntil = r.recoveryUntil /\ s.retryAt = 0 /\ s.wanted = r.wanted
    BY <2>1 DEF Policy
  <2> HIDE DEF s
  <2>5. Restore(p, b) = IF PermitsRecovery(r) THEN s ELSE r
    BY <1>1, <1>3 DEF Restore, r, s
  <2>6. WithinWindow(r, t) /\ WithinWindow(s, t)
    BY <2>2, <2>4, PolicyAssumption DEF WithinWindow, Unset
  <2>7. CASE PermitsRecovery(r)
    <3>1. BurstInv(s, p.failures)
      BY <1>1, <2>2, <2>4, <2>7 DEF BurstInv, Restorable, PermitsRecovery
    <3> QED BY <1>3, <2>2, <2>3, <2>4, <2>5, <2>6, <2>7, <3>1 DEF PermitsRecovery
  <2>8. CASE ~PermitsRecovery(r)
    <3>1. BurstInv(r, p.failures)
      BY <1>1, <2>2, <2>8 DEF BurstInv, Restorable, PermitsRecovery
    <3> QED BY <1>3, <2>1, <2>2, <2>5, <2>6, <2>8, <3>1
  <2> QED BY <2>7, <2>8
<1> QED BY <1>2, <1>3

------------------------------------------------------------------------------

\* A fresh policy of boot b has clean accounts.
LEMMA EmptyAccounts ==
    ASSUME NEW b \in Nat, NEW n \in Nat, NEW t \in Nat
    PROVE  Accounts(EmptyPolicy(b), n, b, t)
BY EmptyPolicyFacts DEF Accounts

\* saveRecovery() keeps the accounts of memory and disk, written or refused.
LEMMA SaveRecoveryFacts ==
    ASSUME IInv, NEW p \in Policy, NEW n \in Nat,
           p.bootId = boot, Accounts(p, n, boot, now), SaveRecovery(p, n)
    PROVE  /\ policy' \in Policy /\ disk' \in Policy
           /\ launches' \in Nat /\ savedLaunches' \in Nat /\ faults' \in Nat
           /\ policy'.bootId = boot
           /\ Accounts(policy', launches', boot, now)
           /\ Accounts(disk', savedLaunches', boot, now)
           /\ Saved => policy' = p
           /\ ~Saved => ~policy'.wanted /\ policy'.state = "stopped"
           /\ policy'.wanted => policy' = disk'
<1>1. boot \in Nat /\ now \in Nat /\ faults \in Nat
  BY DEF IInv, TypeOK
<1>2. CASE policy' = p /\ disk' = p /\ launches' = n /\ savedLaunches' = n /\ UNCHANGED faults
  BY <1>1, <1>2 DEF Saved
<1>3. CASE Refused(p, n)
  <2>1. policy' = EmptyPolicy(boot) /\ launches' = n /\ faults' = faults + 1
        /\ disk' = disk /\ savedLaunches' = savedLaunches
    BY <1>3 DEF Refused, UserStopped
  <2>2. Accounts(policy', launches', boot, now)
    BY <1>1, <2>1, EmptyAccounts
  <2>3. policy' \in Policy /\ policy'.bootId = boot /\ ~policy'.wanted /\ policy'.state = "stopped"
    BY <1>1, <2>1, EmptyPolicyFacts
  <2>4. ~Saved
    BY <1>1, <2>1 DEF Saved
  <2> QED BY <1>1, <2>1, <2>2, <2>3, <2>4 DEF IInv, TypeOK
<1> QED BY <1>2, <1>3 DEF SaveRecovery

\* onCreate() finds the policy with the accounts it was committed with, or with
\* those of the failures charged so far when the device has rebooted.
LEMMA LoadedFacts ==
    ASSUME IInv
    PROVE  /\ Loaded \in Policy /\ LoadedLaunches \in Nat
           /\ Loaded.bootId = boot
           /\ BurstInv(Loaded, LoadedLaunches) /\ WithinWindow(Loaded, now)
<1>1. boot \in Nat /\ now \in Nat /\ disk \in Policy /\ savedLaunches \in Nat
  BY DEF IInv, TypeOK
<1>2. CASE alive
  BY <1>2 DEF IInv, TypeOK, Accounts, Loaded, LoadedLaunches
<1>3. CASE ~alive
  <2>1. Loaded = Restore(disk, boot)
    BY <1>3 DEF Loaded
  <2>2. LoadedLaunches = IF disk.bootId = boot THEN savedLaunches ELSE disk.failures
    BY <1>3 DEF LoadedLaunches
  <2>3. BurstInv(disk, savedLaunches) /\ (disk.bootId = boot => WithinWindow(disk, now))
    BY DEF IInv, Accounts
  <2>4. disk.failures \in Nat
    BY <1>1 DEF Policy
  <2> QED BY <1>1, <2>1, <2>2, <2>3, <2>4, RestoreFacts
<1> QED BY <1>2, <1>3

\* The empty store and the stopped service.
LEMMA InitIInv == Init => IInv
<1> SUFFICES ASSUME Init PROVE IInv
  OBVIOUS
<1>1. /\ policy = EmptyPolicy(0) /\ disk = EmptyPolicy(0) /\ boot = 0 /\ now = 0
      /\ launches = 0 /\ savedLaunches = 0
  BY DEF Init
<1>2. Accounts(EmptyPolicy(0), 0, 0, 0)
  BY EmptyAccounts
<1>3. /\ EmptyPolicy(0) \in Policy /\ EmptyPolicy(0).bootId = 0
      /\ EmptyPolicy(0).state = "stopped"
  BY EmptyPolicyFacts
<1>4. ~alive /\ ~sticky /\ ~session /\ faults = 0 /\ asked = "none"
  BY DEF Init
<1>5. TypeOK
  <2>1. alive \in BOOLEAN /\ sticky \in BOOLEAN /\ session \in BOOLEAN
    BY DEF Init
  <2> QED BY <1>1, <1>3, <1>4, <2>1 DEF TypeOK
<1> QED BY <1>1, <1>2, <1>3, <1>4, <1>5 DEF IInv

\* Every call the service makes keeps the accounts.
LEMMA NextIInv == IInv /\ [Next]_vars => IInv'
<1> SUFFICES ASSUME IInv, [Next]_vars PROVE IInv'
  OBVIOUS
<1>0. /\ now \in Nat /\ boot \in Nat /\ faults \in Nat
      /\ policy \in Policy /\ disk \in Policy
      /\ launches \in Nat /\ savedLaunches \in Nat
      /\ policy.bootId = boot
      /\ BurstInv(policy, launches) /\ WithinWindow(policy, now)
  BY DEF IInv, TypeOK, Accounts
<1>1. CASE Start
  <2> DEFINE q == UserStarted(Loaded, now, session)
             n == IF session THEN 1 ELSE 0
  <2>1. session => Loaded.state \notin {"retry", "suspended"}
    BY DEF IInv, Loaded
  <2>2. /\ q \in Policy /\ q.bootId = boot
        /\ session => q.state = Loaded.state
        /\ ~session => q.state = "retry"
        /\ BurstInv(q, n) /\ WithinWindow(q, now)
    BY <1>0, <2>1, LoadedFacts, UserStartedFacts DEF IInv, TypeOK
  <2>3. n \in Nat /\ Accounts(q, n, boot, now)
    BY <1>0, <2>2 DEF Accounts
  <2>4. /\ SaveRecovery(q, n) /\ session' = (session /\ Saved) /\ sticky' = Saved
        /\ alive' = TRUE /\ asked' = "start" /\ now' = now /\ boot' = boot
    BY <1>1 DEF Start
  <2> HIDE DEF q, n
  <2>5. /\ policy' \in Policy /\ disk' \in Policy
        /\ launches' \in Nat /\ savedLaunches' \in Nat /\ faults' \in Nat
        /\ policy'.bootId = boot
        /\ Accounts(policy', launches', boot, now)
        /\ Accounts(disk', savedLaunches', boot, now)
        /\ Saved => policy' = q
        /\ ~Saved => policy'.state = "stopped"
        /\ policy'.wanted => policy' = disk'
    BY <2>2, <2>3, <2>4, SaveRecoveryFacts
  <2> QED BY <1>0, <2>1, <2>2, <2>4, <2>5 DEF IInv, TypeOK, Saved
<1>2. CASE Stop
  <2> DEFINE q == UserStopped(Loaded)
  <2>1. /\ q \in Policy /\ q.bootId = boot /\ ~q.wanted /\ q.state = "stopped"
        /\ Accounts(q, 0, boot, now)
    BY <1>0, LoadedFacts, EmptyPolicyFacts, EmptyAccounts DEF UserStopped
  <2>2. /\ SaveRecovery(q, 0) /\ session' = FALSE /\ sticky' = FALSE
        /\ alive' = TRUE /\ asked' = "stop" /\ now' = now /\ boot' = boot
    BY <1>2 DEF Stop
  <2> HIDE DEF q
  <2> QED BY <1>0, <2>1, <2>2, SaveRecoveryFacts DEF IInv, TypeOK
<1>3. CASE Recreate
  <2> DEFINE q == ServiceRecreated(Loaded, now)
             n == BurstLaunches(Loaded, LoadedLaunches)
  <2>1. /\ q \in Policy /\ q.bootId = boot /\ BurstInv(q, n) /\ WithinWindow(q, now)
        /\ q.state \notin {"starting", "ready"}
    BY <1>0, LoadedFacts, ServiceRecreatedFacts DEF BurstLaunches
  <2>2. n \in Nat
    BY LoadedFacts DEF BurstLaunches
  <2>3. Accounts(q, n, boot, now)
    BY <1>0, <2>1, <2>2 DEF Accounts
  <2>4. /\ SaveRecovery(q, n) /\ ~alive /\ sticky /\ sticky' = (RetryDelay(policy', now) # Unset)
        /\ alive' = TRUE /\ now' = now /\ boot' = boot /\ session' = session /\ asked' = asked
    BY <1>3 DEF Recreate
  <2> HIDE DEF q, n
  <2> QED BY <1>0, <2>1, <2>2, <2>3, <2>4, SaveRecoveryFacts DEF IInv, TypeOK
<1>4. CASE Launch
  <2> DEFINE r == ServiceRecreated(policy, now)
             q == Launching(r)
             n == launches + 1
  <2>1. /\ alive /\ ~session /\ RetryDelay(r, now) = 0 /\ SaveRecovery(q, n) /\ session' = Saved
        /\ now' = now /\ boot' = boot /\ alive' = alive /\ sticky' = sticky /\ asked' = asked
    BY <1>4 DEF Launch
  <2>2. ~IsStable(policy, now)
    BY <2>1 DEF IInv, IsStable
  <2>3. /\ r \in Policy /\ r.bootId = boot /\ r.wanted = policy.wanted
        /\ BurstInv(r, launches) /\ WithinWindow(r, now)
    BY <1>0, <2>2, ServiceRecreatedFacts
  <2> HIDE DEF r
  <2>4. PermitsRecovery(r) /\ r.state = "retry"
    BY <2>1 DEF RetryDelay, Unset
  <2>5. /\ q \in Policy /\ q.bootId = boot /\ q.state = "starting"
        /\ BurstInv(q, n) /\ WithinWindow(q, now)
    BY <1>0, <2>3, <2>4, LaunchingFacts
  <2>6. n \in Nat /\ Accounts(q, n, boot, now)
    BY <1>0, <2>5 DEF Accounts
  <2>7. asked # "stop"
    BY <2>1, <2>3, <2>4 DEF IInv, PermitsRecovery
  <2> HIDE DEF q, n
  <2>8. /\ policy' \in Policy /\ disk' \in Policy
        /\ launches' \in Nat /\ savedLaunches' \in Nat /\ faults' \in Nat
        /\ policy'.bootId = boot
        /\ Accounts(policy', launches', boot, now)
        /\ Accounts(disk', savedLaunches', boot, now)
        /\ Saved => policy' = q
        /\ ~Saved => policy'.state = "stopped"
        /\ policy'.wanted => policy' = disk'
    BY <2>1, <2>5, <2>6, SaveRecoveryFacts
  <2> QED BY <1>0, <2>1, <2>5, <2>7, <2>8 DEF IInv, TypeOK, Saved
<1>5. CASE GiveUp
  <2> DEFINE q == ServiceRecreated(policy, now)
  <2>1. /\ alive /\ ~session /\ policy.state = "retry" /\ SaveRecovery(q, launches)
        /\ now' = now /\ boot' = boot /\ alive' = alive /\ sticky' = sticky
        /\ session' = session /\ asked' = asked
    BY <1>5 DEF GiveUp
  <2>2. ~IsStable(policy, now)
    BY <2>1 DEF IsStable
  <2>3. /\ q \in Policy /\ q.bootId = boot /\ q.wanted = policy.wanted
        /\ BurstInv(q, launches) /\ WithinWindow(q, now)
        /\ q.state \notin {"starting", "ready"}
    BY <1>0, <2>2, ServiceRecreatedFacts
  <2>4. Accounts(q, launches, boot, now)
    BY <1>0, <2>3 DEF Accounts
  <2> HIDE DEF q
  <2> QED BY <1>0, <2>1, <2>3, <2>4, SaveRecoveryFacts DEF IInv, TypeOK
<1>6. CASE ClientReady
  <2> DEFINE q == BecomeReady(policy, now)
  <2>1. /\ alive /\ session /\ SaveRecovery(q, launches) /\ session' = Saved
        /\ now' = now /\ boot' = boot /\ alive' = alive /\ sticky' = sticky /\ asked' = asked
    BY <1>6 DEF ClientReady
  <2>2. policy.state \notin {"retry", "suspended"} /\ asked # "stop"
    BY <2>1 DEF IInv
  <2>3. /\ q \in Policy /\ q.bootId = boot /\ q.state \in {policy.state, "ready"}
        /\ BurstInv(q, launches) /\ WithinWindow(q, now)
    BY <1>0, <2>2, BecomeReadyFacts
  <2>4. Accounts(q, launches, boot, now)
    BY <1>0, <2>3 DEF Accounts
  <2> HIDE DEF q
  <2>5. /\ policy' \in Policy /\ disk' \in Policy
        /\ launches' \in Nat /\ savedLaunches' \in Nat /\ faults' \in Nat
        /\ policy'.bootId = boot
        /\ Accounts(policy', launches', boot, now)
        /\ Accounts(disk', savedLaunches', boot, now)
        /\ Saved => policy' = q
        /\ ~Saved => policy'.state = "stopped"
        /\ policy'.wanted => policy' = disk'
    BY <1>0, <2>1, <2>3, <2>4, SaveRecoveryFacts
  <2> QED BY <1>0, <2>1, <2>2, <2>3, <2>5 DEF IInv, TypeOK, Saved
<1>7. CASE StableCheck
  <2> DEFINE q == MarkStable(policy, now)
  <2>1. /\ alive /\ session /\ IsStable(policy, now) /\ SaveRecovery(q, 1)
        /\ now' = now /\ boot' = boot /\ alive' = alive /\ sticky' = sticky
        /\ session' = session /\ asked' = asked
    BY <1>7 DEF StableCheck
  <2>2. asked # "stop"
    BY <2>1 DEF IInv
  <2>3. /\ q \in Policy /\ q.bootId = boot /\ q.wanted = policy.wanted /\ q.state = "ready"
        /\ q.readyAt >= 0 /\ q.failures = 0 /\ q.recoveryUntil = Unset
    BY <1>0, <2>1, MarkStableFacts DEF IsStable
  <2> HIDE DEF q
  <2>4. BurstInv(q, 1)
    <3>1. q.wanted
      BY <1>0, <2>1, <2>3 DEF BurstInv, Restorable, IsStable
    <3> QED BY <2>3, <3>1, PolicyAssumption DEF BurstInv, Restorable, PermitsRecovery
  <2>5. Accounts(q, 1, boot, now)
    BY <1>0, <2>3, <2>4, PolicyAssumption DEF Accounts, WithinWindow, Unset
  <2> QED BY <1>0, <2>1, <2>2, <2>3, <2>5, SaveRecoveryFacts DEF IInv, TypeOK
<1>8. CASE SessionFails
  <2> DEFINE q == Failed(policy, now)
             n == BurstLaunches(policy, launches)
  <2>1. /\ alive /\ session /\ SaveRecovery(q, n) /\ session' = FALSE
        /\ now' = now /\ boot' = boot /\ alive' = alive /\ sticky' = sticky /\ asked' = asked
    BY <1>8 DEF SessionFails
  <2>2. policy.state # "retry" /\ asked # "stop"
    BY <2>1 DEF IInv
  <2>3. /\ q \in Policy /\ q.bootId = boot /\ BurstInv(q, n) /\ WithinWindow(q, now)
        /\ q.state \notin {"starting", "ready"}
    BY <1>0, <2>2, FailedFacts DEF BurstLaunches
  <2>4. n \in Nat
    BY <1>0 DEF BurstLaunches
  <2>5. Accounts(q, n, boot, now)
    BY <1>0, <2>3, <2>4 DEF Accounts
  <2> HIDE DEF q, n
  <2> QED BY <1>0, <2>1, <2>2, <2>3, <2>4, <2>5, SaveRecoveryFacts DEF IInv, TypeOK
<1>9. CASE OwnerDies
  <2> DEFINE q == ServiceRecreated(policy, now)
             n == BurstLaunches(policy, launches)
  <2>1. /\ q \in Policy /\ q.bootId = boot /\ BurstInv(q, n) /\ WithinWindow(q, now)
        /\ n \in Nat
    BY <1>0, ServiceRecreatedFacts DEF BurstLaunches
  <2>2. Accounts(q, n, boot, now)
    BY <1>0, <2>1 DEF Accounts
  <2>3. /\ alive /\ now' = now /\ boot' = boot /\ sticky' = sticky /\ asked' = asked
    BY <1>9 DEF OwnerDies
  <2>4. CASE /\ disk' = q /\ savedLaunches' = n /\ alive' = FALSE /\ session' = FALSE
             /\ LoseMemory(boot) /\ UNCHANGED faults
    <3> HIDE DEF q, n
    <3> QED BY <1>0, <2>1, <2>2, <2>3, <2>4, EmptyPolicyFacts, EmptyAccounts
            DEF IInv, TypeOK, LoseMemory
  <2>5. CASE Refused(q, n) /\ UNCHANGED <<alive, session>>
    <3>1. SaveRecovery(q, n) /\ ~Saved
      BY <1>0, <2>5 DEF SaveRecovery, Refused, Saved
    <3> HIDE DEF q, n
    <3> QED BY <1>0, <2>1, <2>2, <2>3, <2>5, <3>1, SaveRecoveryFacts DEF IInv, TypeOK
  <2> QED BY <1>9, <2>4, <2>5 DEF OwnerDies
<1>10. CASE Killed \/ ServiceStops
  <2>1. /\ ~alive' /\ ~session' /\ (sticky' => sticky)
        /\ policy' = EmptyPolicy(boot) /\ launches' = 0
        /\ now' = now /\ boot' = boot /\ disk' = disk /\ faults' = faults
        /\ asked' = asked /\ savedLaunches' = savedLaunches
    BY <1>10 DEF Killed, ServiceStops, LoseMemory
  <2>2. alive' \in BOOLEAN /\ session' \in BOOLEAN /\ sticky' \in BOOLEAN
    BY <1>10 DEF Killed, ServiceStops, IInv, TypeOK
  <2>3. /\ EmptyPolicy(boot) \in Policy /\ EmptyPolicy(boot).bootId = boot
        /\ EmptyPolicy(boot).state = "stopped"
        /\ Accounts(EmptyPolicy(boot), 0, boot, now)
    BY <1>0, EmptyPolicyFacts, EmptyAccounts
  <2>4. TypeOK'
    BY <1>0, <2>1, <2>2, <2>3 DEF IInv, TypeOK
  <2> QED BY <1>0, <2>1, <2>3, <2>4 DEF IInv
<1>11. CASE Tick
  <2>1. /\ now' = now + 1 /\ boot' = boot /\ alive' = alive /\ sticky' = sticky
        /\ policy' = policy /\ disk' = disk /\ session' = session /\ faults' = faults
        /\ asked' = asked /\ launches' = launches /\ savedLaunches' = savedLaunches
    BY <1>11 DEF Tick
  <2>2. \A p \in Policy : WithinWindow(p, now) => WithinWindow(p, now + 1)
    BY <1>0, PolicyAssumption DEF WithinWindow, Policy, Unset
  <2>3. /\ Accounts(policy, launches, boot, now + 1)
        /\ Accounts(disk, savedLaunches, boot, now + 1)
    BY <2>2 DEF IInv, Accounts
  <2> QED BY <1>0, <2>1, <2>3 DEF IInv, TypeOK
<1>12. CASE Reboot
  <2>1. /\ boot' = boot + 1 /\ now' = 0 /\ ~alive' /\ ~session'
        /\ policy' = EmptyPolicy(boot + 1) /\ launches' = 0
        /\ sticky' = sticky /\ disk' = disk /\ faults' = faults
        /\ asked' = asked /\ savedLaunches' = savedLaunches
    BY <1>12 DEF Reboot, LoseMemory
  <2>2. Accounts(disk, savedLaunches, boot + 1, 0)
    BY <1>0 DEF IInv, Accounts, Policy
  <2>3. /\ EmptyPolicy(boot + 1) \in Policy /\ EmptyPolicy(boot + 1).bootId = boot + 1
        /\ EmptyPolicy(boot + 1).state = "stopped"
        /\ Accounts(EmptyPolicy(boot + 1), 0, boot + 1, 0)
    BY <1>0, EmptyPolicyFacts, EmptyAccounts
  <2>4. alive' \in BOOLEAN /\ session' \in BOOLEAN
    BY <1>12 DEF Reboot
  <2>5. TypeOK'
    BY <1>0, <2>1, <2>3, <2>4 DEF IInv, TypeOK
  <2> QED BY <2>1, <2>2, <2>3, <2>5 DEF IInv
<1>13. CASE UNCHANGED vars
  BY <1>13 DEF vars, IInv, TypeOK
<1> QED BY <1>1, <1>2, <1>3, <1>4, <1>5, <1>6, <1>7, <1>8, <1>9, <1>10, <1>11, <1>12, <1>13 DEF Next

------------------------------------------------------------------------------

\* The accounts hold in every reachable state.
THEOREM Inductive == Spec => []IInv
BY InitIInv, NextIInv, PTL DEF Spec

\* RuntimeRecoveryPolicy and FoldRuntimeService keep their fields' types.
THEOREM TypeCorrect == Spec => []TypeOK
<1>1. IInv => TypeOK
  BY DEF IInv
<1> QED BY <1>1, Inductive, PTL

\* failed(), for every window, back-off table and history of kills, refused
\* writes and reboots: a burst never launches more sessions than it has
\* back-off steps, and one more.
THEOREM BurstIsBounded == Spec => []LaunchesBounded
<1>1. IInv => LaunchesBounded
  <2> SUFFICES ASSUME IInv, PermitsRecovery(policy) PROVE launches <= Len(RetryDelays) + 1
    BY DEF LaunchesBounded
  <2>1. /\ policy \in Policy /\ launches \in Nat /\ BurstInv(policy, launches)
    BY DEF IInv, Accounts
  <2>2. policy.failures \in Nat /\ Len(RetryDelays) \in Nat
    BY <2>1, PolicyAssumption DEF Policy
  <2> QED BY <2>1, <2>2 DEF BurstInv
<1> QED BY <1>1, Inductive, PTL

\* failed() never charges an owner twice.
THEOREM ChargedOnce == Spec => []ChargedOncePerLaunch
<1>1. IInv => ChargedOncePerLaunch
  BY DEF IInv, Accounts, BurstInv, ChargedOncePerLaunch
<1> QED BY <1>1, Inductive, PTL

\* RuntimeRecoveryStore always holds a policy that restore() accepts.
THEOREM AlwaysRestorable == Spec => []CommittedIsRestorable
<1>1. IInv => CommittedIsRestorable
  BY DEF IInv, Accounts, BurstInv, CommittedIsRestorable
<1> QED BY <1>1, Inductive, PTL

\* requestStop() holds until the next request, written or not.
THEOREM StopIsFinal == Spec => []StopHolds
<1>1. IInv => StopHolds
  BY DEF IInv, StopHolds
<1> QED BY <1>1, Inductive, PTL

\* userStarted() is the only way out of a committed suspension: every other call
\* writes a policy derived from the committed one, and none of them permits
\* recovery where it was not permitted before.
THEOREM SuspensionIsFinal == Spec => SuspensionNeedsUser
<1>1. ASSUME IInv, [Next]_vars, disk.state = "suspended", PermitsRecovery(disk'), ~Start
      PROVE  UNCHANGED vars
  <2>0. /\ now \in Nat /\ boot \in Nat /\ policy \in Policy /\ disk \in Policy
        /\ launches \in Nat /\ savedLaunches \in Nat /\ policy.bootId = boot
        /\ BurstInv(policy, launches) /\ WithinWindow(policy, now)
    BY <1>1 DEF IInv, TypeOK, Accounts
  <2>1. ~PermitsRecovery(disk) /\ disk' # disk
    BY <1>1 DEF PermitsRecovery
  <2>2. alive => ~PermitsRecovery(policy)
    BY <1>1 DEF IInv, PermitsRecovery
  <2>3. alive => ServiceRecreated(policy, now) = policy /\ Failed(policy, now) = policy
    BY <2>2 DEF ServiceRecreated, Failed
  <2>4. ~PermitsRecovery(Loaded)
    <3>1. BurstInv(disk, savedLaunches) /\ (disk.bootId = boot => WithinWindow(disk, now))
      BY <1>1 DEF IInv, Accounts
    <3>2. ~PermitsRecovery(Restore(disk, boot))
      BY <2>0, <2>1, <3>1, RestoreFacts
    <3> QED BY <2>2, <3>2 DEF Loaded
  <2>5. \A p, n : SaveRecovery(p, n) => disk' = p
    BY <2>1 DEF SaveRecovery, Refused
  <2>6. ~Stop
    BY <1>1, <2>5 DEF Stop, UserStopped, EmptyPolicy, PermitsRecovery
  <2>7. ~Recreate
    BY <1>1, <2>4, <2>5 DEF Recreate, ServiceRecreated
  <2>8. ~Launch
    BY <2>2, <2>3 DEF Launch, RetryDelay, Unset
  <2>9. ~GiveUp
    BY <1>1, <2>2, <2>3, <2>5 DEF GiveUp
  <2>10. ~ClientReady
    BY <2>2 DEF ClientReady, BecomeReady
  <2>11. ~StableCheck
    <3>1. IsStable(policy, now) => policy.wanted /\ policy.state = "ready"
      BY <2>0 DEF IsStable, BurstInv, Restorable
    <3> QED BY <2>2, <3>1 DEF StableCheck, PermitsRecovery
  <2>12. ~SessionFails
    BY <1>1, <2>2, <2>3, <2>5 DEF SessionFails
  <2>13. ~OwnerDies
    BY <1>1, <2>1, <2>2, <2>3 DEF OwnerDies, Refused
  <2>14. ~(Killed \/ ServiceStops \/ Tick \/ Reboot)
    BY <2>1 DEF Killed, ServiceStops, Tick, Reboot
  <2> QED BY <1>1, <2>6, <2>7, <2>8, <2>9, <2>10, <2>11, <2>12, <2>13, <2>14 DEF Next
<1>2. IInv /\ [Next]_vars => [disk.state = "suspended" /\ PermitsRecovery(disk') => Start]_vars
  BY <1>1
<1> QED BY <1>2, Inductive, PTL DEF Spec, SuspensionNeedsUser
==============================================================================
