---------------------------- MODULE NativeSession ----------------------------
(***************************************************************************)
(* One native session as its Java owner sees it: SessionState (what the    *)
(* bootstrap's private reports and the wait for it have established), the  *)
(* bootstrap behind the report pipe, and the observer thread that reads    *)
(* the pipe and reaps it.  A session is a record and its steps are sets of *)
(* records, so that the two kinds of owner (ApplicationOwner, with         *)
(* AppNativeSession, and ServiceOwner, with ExecutorService) share them.   *)
(***************************************************************************)
EXTENDS Integers, Sequences

MAX_REPORTS == 3

\* setup, cleanup: setupError and cleanupError are set.
NewState ==
    [ready |-> FALSE, setup |-> FALSE, cleanup |-> FALSE, terminal |-> FALSE, clean |-> FALSE,
     reaped |-> FALSE, cancelled |-> FALSE, failed |-> FALSE, refused |-> FALSE,
     expected |-> -1, wait |-> -1]

\* report() refuses a line that comes twice, late, or contradicts an earlier one.
Accepts(st, line) ==
    CASE line \in {"setup_failed", "ready"} -> ~(st.ready \/ st.terminal \/ st.setup \/ st.cleanup)
      [] line = "cleanup_failed" -> ~st.terminal /\ ~st.cleanup /\ (st.ready \/ st.setup)
      [] line = "quarantined"    -> ~st.terminal
      [] line = "closed 0"       -> ~st.terminal /\ ~st.cleanup /\ ~st.setup
      [] line = "closed 70"      -> ~st.terminal /\ ~st.cleanup
      [] OTHER                   -> FALSE

Report(st, line) ==
    CASE line = "setup_failed"   -> [st EXCEPT !.setup = TRUE]
      [] line = "ready"          -> [st EXCEPT !.ready = TRUE]
      [] line = "cleanup_failed" -> [st EXCEPT !.cleanup = TRUE]
      [] line = "quarantined"    -> [st EXCEPT !.terminal = TRUE]
      [] line = "closed 0"       -> [st EXCEPT !.terminal = TRUE, !.clean = TRUE, !.expected = 0]
      [] line = "closed 70"      -> [st EXCEPT !.terminal = TRUE, !.clean = TRUE, !.expected = 70]

\* Mutant: the report alone releases.
ReleasableUnwaited(st) == st.refused \/ (~st.failed /\ st.terminal /\ st.clean)

\* A wait status is 256 times an exit code, or a signal.
Releasable(st) ==
    st.refused \/ (~st.failed /\ st.terminal /\ st.clean /\ st.reaped /\ st.wait = st.expected * 256)

\* NativeSessionObservation.outcome() and requiresProcessRetirement(), on the status.
Outcome(st) ==
    CASE st.failed \/ (st.terminal /\ ~st.clean) \/ st.refused \/ st.setup \/ st.cleanup -> "FAILED"
      [] ~(st.failed \/ (st.terminal /\ ~st.clean) \/ st.refused \/ st.setup \/ st.cleanup)
         /\ ~st.reaped -> "ACTIVE"
      [] OTHER -> IF Releasable(st) /\ st.wait = 0 THEN "CLOSED" ELSE "FAILED"

RequiresProcessRetirement(st) == ~st.refused /\ st.reaped /\ st.wait >= 0 /\ ~Releasable(st)

-----------------------------------------------------------------------------

\* child: the bootstrap.  cleaned: history, it has released all its resources.
\* control: the owner's end of the control pipe is open.  reports: lines not read yet.
NoSession ==
    [state |-> NewState, child |-> "none", exit |-> 0, cleaned |-> FALSE,
     control |-> FALSE, reports |-> <<>>, observer |-> "none", frames |-> 0]

Forked(s) == [s EXCEPT !.child = "starting", !.control = TRUE, !.observer = "reading"]
Refused(s) == [s EXCEPT !.state.refused = TRUE]

\* A child that was forked and is not known to have released everything and gone.
Owned(s) == s.child # "none" /\ ~(s.child = "dead" /\ s.cleaned)

\* A session that nothing refers to any more is garbage, unless it still owned its child.
Forgotten(s) == IF Owned(s) THEN s ELSE [s EXCEPT !.state = NewState, !.child = "none", !.exit = 0,
                                                  !.cleaned = FALSE, !.observer = "none", !.frames = 0]

\* requestCancel(): the bootstrap sees the end of its control pipe.
RequestCancel(s) == [s EXCEPT !.state.cancelled = TRUE, !.control = FALSE]

Only(guard, outcomes) == IF guard THEN outcomes ELSE {}

(* run() of the bootstraps.  Once nobody reads the pipe a report raises, and the
   bootstrap ends with a traceback instead of its code. *)
Reads(s) == s.observer = "reading"
Emits(s, lines) == IF Reads(s) THEN [s EXCEPT !.reports = @ \o lines] ELSE [s EXCEPT !.exit = 1]

ChildSetsUp(s) == Only(s.child = "starting",
    Only(Reads(s), {[Emits(s, <<"ready">>) EXCEPT !.child = "serving"]})
    \cup {Emits([s EXCEPT !.child = "stopping", !.exit = 70], <<"setup_failed">>)})

\* By the end of the control pipe or of the controller's connection.
ChildStops(s) == Only(s.child = "serving", {[s EXCEPT !.child = "stopping", !.exit = c] : c \in {0, 70}})

Closing(s) == Emits(s, <<IF s.exit = 0 THEN "closed 0" ELSE "closed 70">>)

\* Mutant: the bootstrap reports before it has cleaned up.
ChildFinishesEarly(s) == Only(s.child = "stopping", {[Closing(s) EXCEPT !.child = "reported"]})

\* The report, then the exit; one that cannot clean up stays, with what it holds.
ChildFinishes(s) == Only(s.child = "stopping",
    {[Closing(s) EXCEPT !.child = "reported", !.cleaned = TRUE]}
    \cup {[Emits(s, lines) EXCEPT !.child = "quarantined"] :
            lines \in {<<"quarantined">>, <<"cleanup_failed", "quarantined">>}})

ChildExits(s) == Only(s.child = "reported", {[s EXCEPT !.child = "dead", !.exit = @ * 256]})

\* A signal, the setup alarm or, with another status that is not expected, a failed exec.
ChildDies(s) == Only(s.child \notin {"none", "dead"}, {[s EXCEPT !.child = "dead", !.exit = 9]})

\* Anything else on descriptor 2 is a malformed report.
ChildNoise(s) ==
    Only(s.child \in {"starting", "serving", "stopping"} /\ Reads(s) /\ \A i \in DOMAIN s.reports : s.reports[i] # "noise",
         {Emits(s, <<"noise">>)})

ChildSteps(s) == ChildSetsUp(s) \cup ChildStops(s) \cup ChildFinishes(s) \cup ChildExits(s)
                 \cup ChildDies(s) \cup ChildNoise(s)

\* What the bootstrap does by itself: its set-up has an alarm, and it stops at the end of
\* the control pipe.
ChildProgress(s) == ChildSetsUp(s) \cup ChildFinishes(s) \cup ChildExits(s)
                    \cup Only(~s.control, ChildStops(s))

-----------------------------------------------------------------------------
(* observe(): every report, then the wait, which succeeds for a child of its own. *)

ObserverReads(s) == Only(Reads(s) /\ s.reports # <<>>,
    {IF s.frames < MAX_REPORTS /\ Accepts(s.state, Head(s.reports))
     THEN [s EXCEPT !.reports = Tail(@), !.frames = @ + 1, !.state = Report(@, Head(s.reports))]
     ELSE RequestCancel([s EXCEPT !.reports = <<>>, !.observer = "reaping", !.state.failed = TRUE])})

\* The end of the pipe and waitpid(), which may take long after a failed read.
ObserverReaps(s) == Only(s.child = "dead" /\ (s.observer = "reaping" \/ (Reads(s) /\ s.reports = <<>>)),
    {[s EXCEPT !.observer = "reaped", !.state.reaped = TRUE, !.state.wait = s.exit, !.exit = 0]})

ObserverSteps(s) == ObserverReads(s) \cup ObserverReaps(s)

-----------------------------------------------------------------------------
(* FoldExecutorRuntime: what its synchronized methods do to its own fields. *)

Unprepared(r) == [r EXCEPT !.preparing = IF @ = "pending" THEN "failed" ELSE @]

Fail(r) == [Unprepared(r) EXCEPT !.failed = TRUE, !.jobs = IF r.closing THEN @ \cup {"finish"} ELSE @]

RequestStop(r) ==
    IF r.closed THEN r ELSE [Unprepared(r) EXCEPT !.closing = TRUE, !.jobs = @ \cup {"finish"}]
=============================================================================
