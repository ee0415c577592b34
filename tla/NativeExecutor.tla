--------------------------- MODULE NativeExecutor ---------------------------
(***************************************************************************)
(* tools/executor/native_executor_backend.py with the process backends and *)
(* the file services that share the lock of native_files.py: admission,    *)
(* cancellation, the effect of a quarantine and the close of the session.  *)
(***************************************************************************)
EXTENDS BionicProcesses, DirectProcesses

CONSTANTS
    Scenarios       \* who takes part, [kind, files, calm]; a calm client only starts and waits

VARIABLES
    request,        \* the caller waiting in _start() or spawn()
    ops,            \* file operations
    session         \* closing, the phase of _close(), the root, the host transport

vars == <<kind, rec, sup, lease, quarantined, faults, request, ops, session>>

FileKinds == {"managed", "direct", "host", "bootstrap", Unused}
Requests == {"none", "open", "settling", "answered"}

ASSUME ScenarioAssumption ==
    Scenarios \subseteq [kind: [Proc -> Kinds \cup {Unused}], files: FileKinds, calm: BOOLEAN]

Init ==
    /\ ProcessInit
    /\ request = [p \in Proc |-> "none"]
    /\ \E s \in Scenarios :
          /\ kind = s.kind
          /\ ops = [f \in FileOp |-> [kind |-> s.files, at |-> "none"]]
          /\ session = [closing |-> FALSE, close |-> "no", held |-> TRUE, disconnected |-> FALSE,
                        calm |-> s.calm]

Hosted(p) == kind[p] \in {"host", "hostpty"}

------------------------------------------------------------------------------
(* Starts. *)

\* handle(), _run_owned_operation() and the checks of _start().
StartModel(p) ==
    /\ kind[p] # Unused /\ ~Hosted(p) /\ rec[p].run = "none"
    /\ ~session.closing /\ ~quarantined["model"] /\ ~quarantined[Backend(p)]
    /\ Reserve(p)
    /\ request' = [request EXCEPT ![p] = "open"]
    /\ UNCHANGED <<kind, sup, lease, quarantined, faults, ops, session>>

\* HostProcesses.spawn().
StartHost(p) ==
    /\ Hosted(p) /\ rec[p].run = "none"
    /\ ~session.closing /\ session.held /\ ~quarantined["model"] /\ ~session.disconnected
    /\ Reserve(p)
    /\ request' = [request EXCEPT ![p] = "open"]
    /\ UNCHANGED <<kind, sup, lease, quarantined, faults, ops, session>>

StartSucceeds(p) ==
    /\ request[p] = "open" /\ rec[p].started = "ok"
    /\ request' = [request EXCEPT ![p] = "answered"]
    /\ UNCHANGED <<kind, processVars, ops, session>>

\* Mutant: the quarantine event cancels no start.
CancelStartDeaf(p) ==
    /\ request[p] = "open" /\ rec[p].started # "ok"
    /\ ~session.calm /\ ~quarantined["model"]
    /\ request' = [request EXCEPT ![p] = "settling"]
    /\ rec' = [rec EXCEPT ![p] = IF Finished(p) THEN @ ELSE Terminated(@)]
    /\ UNCHANGED <<kind, sup, lease, quarantined, faults, ops, session>>

\* The caller is cancelled by the quarantine event, or by its connection at any time.
CancelStart(p) ==
    /\ request[p] = "open" /\ rec[p].started # "ok"
    /\ ~session.calm \/ (quarantined["model"] /\ ~Hosted(p))
    /\ request' = [request EXCEPT ![p] = "settling"]
    /\ rec' = [rec EXCEPT ![p] = IF Finished(p) THEN @ ELSE Terminated(@)]
    /\ UNCHANGED <<kind, sup, lease, quarantined, faults, ops, session>>

\* A failed start waits for the end of the record; only the static profile does not
\* terminate it again.
StartFails(p) ==
    /\ request[p] = "open" /\ rec[p].started = "failed"
    /\ request' = [request EXCEPT ![p] = "settling"]
    /\ rec' = [rec EXCEPT ![p] = IF Finished(p) \/ Backend(p) = "model" THEN @ ELSE Terminated(@)]
    /\ UNCHANGED <<kind, sup, lease, quarantined, faults, ops, session>>

StartSettles(p) ==
    /\ request[p] = "settling" /\ Finished(p)
    /\ request' = [request EXCEPT ![p] = "answered"]
    /\ UNCHANGED <<kind, processVars, ops, session>>

\* process/terminate, or a notification that could not be delivered.
Terminate(p) ==
    /\ ~session.calm /\ Live(p) /\ ~rec[p].term
    /\ rec' = [rec EXCEPT ![p] = Terminated(@)]
    /\ UNCHANGED <<kind, sup, lease, quarantined, faults, request, ops, session>>

\* The host transport is lost: every process of the host backend is terminated.
Disconnect ==
    /\ ~session.calm /\ ~session.disconnected /\ \E p \in Proc : Hosted(p) /\ Live(p)
    /\ session' = [session EXCEPT !.disconnected = TRUE]
    /\ rec' = [p \in Proc |-> IF Hosted(p) /\ Live(p) THEN Terminated(rec[p]) ELSE rec[p]]
    /\ UNCHANGED <<kind, sup, lease, quarantined, faults, request, ops>>

------------------------------------------------------------------------------
(* File operations: native_files.py, ordinary_uid_files.py, native_host_files.py and *)
(* native_bootstrap_files.py take the same lock.                                     *)

FileRequest(f) ==
    /\ ops[f].kind # Unused /\ ops[f].at = "none"
    /\ ~session.closing /\ ~quarantined["model"]
    /\ ops' = [ops EXCEPT ![f].at = "lock"]
    /\ UNCHANGED <<kind, processVars, request, session>>

\* What is checked again under the lock: managed and direct operations look only at
\* their backend being closed, the host's and the bootstrap's at the owner too.
FileRefused(f) ==
    \/ ~session.held
    \/ ops[f].kind \in {"host", "bootstrap"} /\ (session.closing \/ quarantined["model"])

FileLocks(f) ==
    /\ ops[f].at = "lock" /\ lease = Free
    /\ ops' = [ops EXCEPT ![f].at = "plan"]
    /\ lease' = f
    /\ UNCHANGED <<kind, rec, sup, quarantined, faults, request, session>>

\* The plan of the operation is made and authorized before the helper starts.
FilePlans(f) ==
    /\ ops[f].at = "plan"
    /\ \/ ops' = [ops EXCEPT ![f].at = "settled"]        \* refused, denied or invalid
       \/ ~FileRefused(f) /\ ops' = [ops EXCEPT ![f].at = "helper"]
    /\ UNCHANGED <<kind, processVars, request, session>>

\* Mutant: the lock is released while the killed helper is still being reaped.
FileCancelsEarly(f) ==
    /\ ops[f].at \in {"lock", "helper"}
    /\ ops' = [ops EXCEPT ![f].at = IF @ = "lock" THEN "done" ELSE "reap"]
    /\ lease' = IF lease = f THEN Free ELSE lease
    /\ UNCHANGED <<kind, rec, sup, quarantined, faults, request, session>>

\* A cancelled waiter leaves the queue.  A helper is killed and reaped, a worker thread
\* joined, before the lock is released.
FileCancels(f) ==
    /\ ops[f].at \in {"lock", "helper"}
    /\ ops' = [ops EXCEPT ![f].at = IF @ = "lock" THEN "done" ELSE "reap"]
    /\ UNCHANGED <<kind, processVars, request, session>>

FileSettles(f) ==
    /\ ops[f].at \in {"helper", "reap"}
    /\ ops' = [ops EXCEPT ![f].at = "settled"]
    /\ UNCHANGED <<kind, processVars, request, session>>

FileReleases(f) ==
    /\ ops[f].at = "settled"
    /\ ops' = [ops EXCEPT ![f].at = "done"]
    /\ lease' = Free
    /\ UNCHANGED <<kind, rec, sup, quarantined, faults, request, session>>

------------------------------------------------------------------------------
(* close() and _close(). *)

\* Mutant: the processes that live are waited for and not terminated.
CloseWaiting ==
    /\ ~session.calm /\ ~session.closing
    /\ session' = [session EXCEPT !.closing = TRUE, !.close = "processes", !.disconnected = TRUE]
    /\ UNCHANGED <<kind, processVars, request, ops>>

Close ==
    /\ ~session.calm /\ ~session.closing
    /\ session' = [session EXCEPT !.closing = TRUE, !.close = "processes", !.disconnected = TRUE]
    /\ rec' = [p \in Proc |-> IF Live(p) THEN Terminated(rec[p]) ELSE rec[p]]
    /\ UNCHANGED <<kind, sup, lease, quarantined, faults, request, ops>>

\* A record that ended without the proof makes the close fail; so does a quarantine.
CloseProcesses ==
    /\ session.close = "processes"
    /\ \A p \in Proc : ~Live(p)
    /\ rec' = [p \in Proc |-> [rec[p] EXCEPT !.registered = FALSE]]
    /\ session' = [session EXCEPT !.close =
           IF quarantined["model"] \/ \E p \in Proc : Spawned(p) /\ ~rec[p].closed
           THEN "unknown" ELSE "files"]
    /\ UNCHANGED <<kind, sup, lease, quarantined, faults, request, ops>>

\* The files are closed under their lock, then the root and its kernel lock.
CloseFiles ==
    /\ session.close = "files" /\ lease = Free
    /\ session' = [session EXCEPT !.close = "ok", !.held = FALSE]
    /\ UNCHANGED <<kind, processVars, request, ops>>

------------------------------------------------------------------------------

ProcessStep(p) ==
    /\ \/ WinLease(p) \/ QuitLease(p) \/ Spawn(p) \/ Decided(p) \/ ControlEnds(p) \/ PipesEnd(p)
       \/ Expire(p) \/ StaticStep(p) \/ ManagedStep(p) \/ HostStep(p) \/ HostPtyStep(p)
       \/ DirectStep(p, ~session.held) \/ TtyStep(p, ~session.held)
    /\ UNCHANGED <<kind, request, ops, session>>

Native(p) == (SupervisorStep(p) \/ SupervisorFault(p)) /\ UNCHANGED <<kind, request, ops, session>>

StartStep(p) ==
    StartModel(p) \/ StartHost(p) \/ StartSucceeds(p) \/ CancelStart(p) \/ StartFails(p)
    \/ StartSettles(p) \/ Terminate(p)

FileStep(f) == FileRequest(f) \/ FileLocks(f) \/ FilePlans(f) \/ FileCancels(f) \/ FileSettles(f) \/ FileReleases(f)

CloseStep == CloseProcesses \/ CloseFiles

\* A host process has no wall limit: one whose supervisor hangs is waited for.
HostHangs == \E p \in Proc : Hosted(p) /\ rec[p].run = "comm" /\ sup[p].hung

\* Nothing is left to do when the close has ended, and nothing can be done when it waits
\* for such a process.
Rest ==
    /\ session.calm \/ session.close \in {"ok", "unknown"} \/ HostHangs
    /\ UNCHANGED vars

Next ==
    \/ \E p \in Proc : ProcessStep(p) \/ Native(p) \/ StartStep(p)
    \/ \E f \in FileOp : FileStep(f)
    \/ Disconnect \/ Close \/ CloseStep \/ Rest

\* What the event loop does by itself: every task that can run, and every timer that fires.
\* A supervisor that is not hung acts, but a command ends by itself only if it likes.  The
\* quarantine event wakes every operation that waits.
Driven ==
    \/ \E p \in Proc :
          \/ ProcessStep(p) \/ StartSucceeds(p) \/ StartFails(p) \/ StartSettles(p)
          \/ SupervisorStep(p) /\ (Told(p) \/ sup[p].at # "exec") /\ UNCHANGED <<kind, request, ops, session>>
          \/ quarantined["model"] /\ CancelStart(p)
    \/ \E f \in FileOp :
          \/ FileLocks(f) \/ FilePlans(f) \/ FileSettles(f) \/ FileReleases(f)
          \/ quarantined["model"] /\ FileCancels(f)
    \/ CloseStep

\* The loop does not stop while something can run.  No fairness between its tasks is needed.
Fairness == WF_vars(Driven)

Spec == Init /\ [][Next]_vars /\ Fairness

------------------------------------------------------------------------------
(* Properties. *)

\* The records, supervisors, requests, operations and the session stay in their domains.
TypeOK ==
    /\ kind \in [Proc -> Kinds \cup {Unused}]
    /\ rec \in [Proc -> Record]
    /\ sup \in [Proc -> Supervisor]
    /\ lease \in Proc \cup FileOp \cup {Free}
    /\ quarantined \in [Backends -> BOOLEAN]
    /\ faults \in 0..MaxFaults
    /\ request \in [Proc -> Requests]
    /\ ops \in [FileOp -> [kind: FileKinds, at: {"none", "lock", "plan", "helper", "reap", "settled", "done"}]]
    /\ session \in [closing: BOOLEAN, close: {"no", "processes", "files", "ok", "unknown"},
                    held: BOOLEAN, disconnected: BOOLEAN, calm: BOOLEAN]

\* While descendants of a command may exist, its record holds the lock of the file backend:
\* through every loss, timeout, cancellation and close nobody else is let into the workspace.
LeaseGuardsDescendants == \A p \in Proc : sup[p].alive => lease = p

\* process/closed and a successful close are published only when no descendant is left.
ClosedIsProved == \A p \in Proc : rec[p].closed => ~sup[p].alive

\* A record that ended and kept the lock has quarantined the owner: whoever meets the lock
\* that is never released (a file operation, _close()) finds the flag set.
RetainedIsQuarantined ==
    \A p \in Proc : rec[p].run \in {"emit", "done"} /\ lease = p => quarantined["model"]

\* The lock covers the descendants of every command, what is published as closed is closed,
\* and a lock that is kept is announced by the quarantine (the _run of every backend).
WorkspaceIsGuarded == TypeOK /\ LeaseGuardsDescendants /\ ClosedIsProved /\ RetainedIsQuarantined

\* No model process is spawned in a quarantined workspace, not even one whose start was
\* waiting for the lock when the quarantine came and got it when the cleanup was proved.
SpawnIsAdmitted ==
    [][\A p \in Proc : ~Hosted(p) /\ ~Spawned(p) /\ Spawned(p)' => ~quarantined["model"]]_vars

\* Users of the workspace as WorkspaceLease sees them.
Acting == {p \in Proc : sup[p].alive} \cup {f \in FileOp : ops[f].at \in {"helper", "reap"}}
Lost == {p \in Proc : lease = p /\ rec[p].run \in {"emit", "done"}}

Lease == INSTANCE WorkspaceLease WITH
    User <- Proc \cup FileOp, acting <- Acting, lost <- Lost, held <- session.held

\* The backends, the file services and the close together implement the lease: one user at
\* a time, released when it stopped acting, kept for ever by a lost one, and the root given
\* up only by an owner that lost nobody.
ImplementsLease == Lease!Spec

\* close() ends, with the root released or refused, whatever the supervisors do.
CloseEnds == session.closing ~> (session.close \in {"ok", "unknown"} \/ HostHangs)

\* Once the workspace is quarantined every model start and file operation in flight is
\* answered: none waits for the lock that will not be released.
QuarantineAnswers ==
    /\ \A p \in Proc : quarantined["model"] /\ ~Hosted(p) /\ request[p] = "open" ~> request[p] = "answered"
    /\ \A f \in FileOp : quarantined["model"] /\ ops[f].at = "lock" ~> ops[f].at = "done"

\* Nobody waits for ever on a supervisor that is lost: close() ends (aclose of the session)
\* and what waits for a quarantined workspace is answered (_start, _run_file).
ExecutorAnswers == CloseEnds /\ QuarantineAnswers
=============================================================================
