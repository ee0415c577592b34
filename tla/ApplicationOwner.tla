--------------------------- MODULE ApplicationOwner ---------------------------
(***************************************************************************)
(* The application route: AppNativeSession, whose static `current` is the  *)
(* one native session of the process, and the generations of               *)
(* FoldExecutorRuntime that prepare, watch, stop and release one session   *)
(* each.  A generation's session has its number; its nonce is new, so no   *)
(* two have the same.  Work of a generation is serial: `jobs` holds what   *)
(* is queued or waits for its 200 ms tick.                                 *)
(***************************************************************************)
EXTENDS NativeSession

CONSTANT MaxGenerations     \* bound: owners created in one process

VARIABLES
    current,        \* AppNativeSession.current, 0 for null
    sessions,       \* the session each generation opened
    runtimes        \* the FoldExecutorRuntimes

applicationVars == <<current, sessions, runtimes>>

Generations == 1..MaxGenerations

\* launch: nativeLaunch is set.  session: nativeSession is set.  death: ownerDeath is
\* complete.
NoRuntime ==
    [exists |-> FALSE, preparing |-> "none", launch |-> FALSE, session |-> FALSE,
     closing |-> FALSE, failed |-> FALSE, closed |-> FALSE, death |-> FALSE, jobs |-> {}]

ApplicationInit ==
    /\ current = 0
    /\ sessions = [g \in Generations |-> NoSession]
    /\ runtimes = [g \in Generations |-> NoRuntime]

-----------------------------------------------------------------------------
(* AppNativeSession's static methods, with the nonce of g. *)

\* Mutant: a session that was waited for does not keep another one out.
MayOpenReaped == \A h \in {current} \ {0} : sessions[h].state.reaped \/ Releasable(sessions[h].state)

MayOpen == \A h \in {current} \ {0} : Releasable(sessions[h].state)

IdleOrOwn(g) == IF current = g THEN sessions[g].state ELSE [NewState EXCEPT !.refused = TRUE]
RequestCurrentStop(g) ==
    IF current = g THEN [sessions EXCEPT ![g] = RequestCancel(@)] ELSE sessions

-----------------------------------------------------------------------------
(* FoldExecutorRuntime *)

\* The session that requestStop() cancels, by its handle or by its nonce.
Cancelled(g, r) ==
    CASE r.closed \/ r.closing -> sessions
      [] ~(r.closed \/ r.closing) /\ r.session -> [sessions EXCEPT ![g] = RequestCancel(@)]
      [] ~(r.closed \/ r.closing) /\ ~r.session /\ r.launch -> RequestCurrentStop(g)
      [] OTHER -> sessions

\* refreshEvidence()
Status(g, r) == IF r.session THEN sessions[g].state ELSE IdleOrOwn(g)
Refresh(g, r) == [r EXCEPT !.death = @ \/ (r.session /\ RequiresProcessRetirement(sessions[g].state))]

\* The worker is closed: what is queued or comes late has no effect any more, and nothing
\* the owner knew is used again.
Closed == [NoRuntime EXCEPT !.exists = TRUE, !.closing = TRUE, !.closed = TRUE]

\* Mutant: a session that was reaped counts as cleaned up.
FinishReaped(g, r) ==
    CASE ~r.closing \/ r.closed -> r
      [] r.closing /\ ~r.closed /\ r.launch /\ ~(Releasable(Status(g, r)) \/ Status(g, r).reaped) ->
           [Refresh(g, r) EXCEPT !.jobs = @ \cup {"finish"}]
      [] OTHER -> Closed

\* finishWhenClean(): without the evidence it looks again later.
FinishWhenClean(g, r) ==
    CASE ~r.closing \/ r.closed -> r
      [] r.closing /\ ~r.closed /\ r.launch /\ ~Releasable(Status(g, r)) ->
           [Refresh(g, r) EXCEPT !.jobs = @ \cup {"finish"}]
      [] OTHER -> Closed

Moves(g, r) == runtimes' = [runtimes EXCEPT ![g] = r]
Job(g, job) == job \in runtimes[g].jobs
Done(g, job) == [runtimes[g] EXCEPT !.jobs = @ \ {job}]

-----------------------------------------------------------------------------

\* A new Service generation constructs its owner.
Construct(g) ==
    /\ ~runtimes[g].exists /\ ~runtimes[g].closed /\ \A h \in 1..(g - 1) : runtimes[h].exists
    /\ Moves(g, [runtimes[g] EXCEPT !.exists = TRUE])
    /\ UNCHANGED <<current, sessions>>

Prepare(g) ==
    /\ runtimes[g].exists /\ ~runtimes[g].closing /\ runtimes[g].preparing = "none"
    /\ Moves(g, [runtimes[g] EXCEPT !.preparing = "pending", !.jobs = @ \cup {"admit"}])
    /\ UNCHANGED <<current, sessions>>

\* The first job: the deployment is admitted and nativeLaunch made without the lock.
Admit(g) ==
    /\ Job(g, "admit")
    /\ LET r == Done(g, "admit")
       IN  Moves(g, [r EXCEPT !.launch = TRUE, !.jobs = @ \cup {"open"}]) \/ Moves(g, Fail(r))
    /\ UNCHANGED <<current, sessions>>

\* openApplicationSession(): refused while another session is retained or when the
\* deployment is; refused before the fork, with the session published; or forked.
Refuses(g, slot) ==
    LET r == Done(g, "open")
    IN  /\ current' = slot
        /\ Moves(g, RequestStop(Fail(r)))
        /\ sessions' = IF slot = g THEN [sessions EXCEPT ![g] = RequestCancel(Refused(@))] ELSE sessions

OpenApplicationSession(g) ==
    /\ Job(g, "open")
    /\ LET r == Done(g, "open")
       IN  \/ /\ r.closing \/ r.failed
              /\ Moves(g, FinishWhenClean(g, r)) /\ UNCHANGED <<current, sessions>>
           \/ ~(r.closing \/ r.failed) /\ Refuses(g, current)
           \/ ~(r.closing \/ r.failed) /\ MayOpen /\ Refuses(g, g)
           \/ /\ ~(r.closing \/ r.failed) /\ MayOpen
              /\ current' = g
              /\ sessions' = [sessions EXCEPT ![g] = Forked(@)]
              /\ Moves(g, [r EXCEPT !.session = TRUE, !.jobs = @ \cup {"observe"}])

\* observeNative(), with the status it has just read.
ObserveNative(g) ==
    /\ Job(g, "observe") /\ ~Job(g, "open")
    /\ LET r == Refresh(g, Done(g, "observe"))
           st == sessions[g].state
           again == [r EXCEPT !.jobs = @ \cup {"observe"}]
           Fails == Moves(g, RequestStop(Fail(r))) /\ sessions' = Cancelled(g, r)
       IN  \/ r.closing /\ Moves(g, FinishWhenClean(g, r)) /\ UNCHANGED sessions
           \/ /\ ~r.closing /\ Outcome(st) = "CLOSED"
              /\ Moves(g, FinishWhenClean(g, [Unprepared(r) EXCEPT !.closing = TRUE])) /\ UNCHANGED sessions
           \/ ~r.closing /\ Outcome(st) = "FAILED" /\ Fails
           \/ /\ ~r.closing /\ Outcome(st) = "ACTIVE"
              /\ \/ /\ st.ready /\ r.preparing = "pending"
                    /\ Fails \/ (Moves(g, [again EXCEPT !.preparing = "ready"]) /\ UNCHANGED sessions)
                 \/ ~(st.ready /\ r.preparing = "pending") /\ Moves(g, again) /\ UNCHANGED sessions
    /\ UNCHANGED current

Finish(g) ==
    /\ Job(g, "finish") /\ ~Job(g, "admit") /\ ~Job(g, "open")
    /\ Moves(g, FinishWhenClean(g, Done(g, "finish")))
    /\ UNCHANGED <<current, sessions>>

\* The service stops its owner, at any time.
Stop(g) ==
    /\ runtimes[g].exists /\ ~runtimes[g].closed
    /\ Moves(g, RequestStop(runtimes[g])) /\ sessions' = Cancelled(g, runtimes[g])
    /\ UNCHANGED current

Session(g, steps) == \E s \in steps : sessions' = [sessions EXCEPT ![g] = s]
Child(g) == Session(g, ChildSteps(sessions[g])) /\ UNCHANGED <<current, runtimes>>
Progress(g) == Session(g, ChildProgress(sessions[g])) /\ UNCHANGED <<current, runtimes>>
Observer(g) == Session(g, ObserverSteps(sessions[g])) /\ UNCHANGED <<current, runtimes>>

ApplicationNext == \E g \in Generations :
    \/ Construct(g) \/ Prepare(g) \/ Admit(g) \/ OpenApplicationSession(g) \/ ObserveNative(g)
    \/ Finish(g) \/ Stop(g) \/ Child(g) \/ Observer(g)

\* The worker and the observer threads run, and the bootstrap does what it does by itself.
\* None of these steps can be repeated without end, so none of them starves another.
ApplicationProgress == \E g \in Generations :
    \/ Admit(g) \/ OpenApplicationSession(g) \/ ObserveNative(g) \/ Finish(g)
    \/ Progress(g) \/ Observer(g)

-----------------------------------------------------------------------------

\* The process owns one child at most, and its owner is the one open() looks at: neither a
\* refused opener nor a newer generation hides a child that is retained.
ChildIsCurrent == \A g \in Generations : Owned(sessions[g]) => current = g

\* An owner that is closed, and so no longer keeps the process alive, leaves no child that
\* has not both reported a clean end and been waited for; and one that asks for the
\* process to be retired has waited for a child that will never be released.
ClosedIsClean == \A g \in Generations :
    /\ runtimes[g].exists /\ runtimes[g].closed => ~Owned(sessions[g]) /\ "open" \notin runtimes[g].jobs
    /\ runtimes[g].death => sessions[g].child = "dead" /\ sessions[g].state.reaped
                            /\ ~runtimes[g].closed /\ ~Releasable(sessions[g].state)

\* An owner that is closing and whose child does not stay quarantined.
OwnerEndOwed == \E g \in Generations :
    /\ runtimes[g].closing /\ ~runtimes[g].closed /\ ~runtimes[g].death
    /\ sessions[g].child # "quarantined"
=============================================================================
