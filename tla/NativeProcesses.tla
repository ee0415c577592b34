--------------------------- MODULE NativeProcesses ---------------------------
(***************************************************************************)
(* tools/executor/native_processes.py: one record per process, run by      *)
(* _run, _control and _output, three tasks of one event loop; an action is *)
(* what a task does between two awaits.  The supervisor at the other end   *)
(* of the control socket is external: it reports in order, and may crash,  *)
(* hang, fail to clean up or break the protocol at any time.               *)
(*                                                                         *)
(* The lease is the lock of the shared file backend: its holder alone may  *)
(* have descendants or file helpers in the workspace.                      *)
(***************************************************************************)
EXTENDS Naturals, FiniteSets, Sequences

CONSTANTS
    Proc,           \* the processIds clients start
    FileOp,         \* the file operations clients ask for
    MaxFaults,      \* bound: crashes, hangs, protocol violations and failures
    MaxQueued       \* bound: messages waiting on a control socket

Free == "free"      \* nobody holds the lease
Closer == "closer"  \* NativeExecutorBackend.close() holds it

ASSUME ProcAssumption == Proc \cap FileOp = {} /\ {Free, Closer} \cap (Proc \cup FileOp) = {}
ASSUME FaultAssumption == MaxFaults \in Nat /\ MaxQueued \in Nat \ {0}

VARIABLES
    kind,           \* the backend each process was started with
    rec,            \* the records of the process backends
    sup,            \* external: the supervisors and what they own
    lease,          \* holder of the lock of the file backend
    quarantined,    \* the flag of each backend
    faults          \* faults so far

processVars == <<rec, sup, lease, quarantined, faults>>

Unused == "unused"
Kinds == {"static", "managed", "host", "hostpty", "direct", "tty"}
Backends == {"model", "host", "direct", "tty"}
Backend(p) ==
    CASE kind[p] \in {"static", "managed"} -> "model"
      [] kind[p] \in {"host", "hostpty"}   -> "host"
      [] OTHER                             -> kind[p]

Phases == {"none", "lease", "check", "prepare", "spawn", "comm", "grace", "term", "settle", "join", "emit", "done"}

\* started is the future _start() waits for; result is what the supervisor's last
\* message says of its descendants; pipes stands for the two output readers.
Record == [
    run: Phases, term: BOOLEAN, command: {"none", "open", "T"}, ready: BOOLEAN,
    started: {"pending", "ok", "failed"}, execd: BOOLEAN, exit: BOOLEAN,
    result: {"none", "clean", "unclean"}, control: {"off", "read", "decide", "eof", "error"},
    pipes: {"off", "open", "eof", "differs", "error"}, clean: BOOLEAN, closed: BOOLEAN,
    registered: BOOLEAN, retained: BOOLEAN]

NoRecord == [
    run |-> "none", term |-> FALSE, command |-> "none", ready |-> FALSE,
    started |-> "pending", execd |-> FALSE, exit |-> FALSE, result |-> "none",
    control |-> "off", pipes |-> "off", clean |-> FALSE, closed |-> FALSE,
    registered |-> FALSE, retained |-> FALSE]

Messages == {"ready", "acquire", "started", "exited", "retained", "clean", "unclean", "bad"}

\* alive: descendants of the command may exist.  "gone" ended by itself, "lost" did not.
Supervisor == [
    at: {"none", "boot", "ready", "acked", "work", "asked", "exec", "leader", "reported", "gone", "lost"},
    ctl: Seq(Messages), alive: BOOLEAN, slow: BOOLEAN, hung: BOOLEAN]

NoSupervisor == [at |-> "none", ctl |-> <<>>, alive |-> FALSE, slow |-> FALSE, hung |-> FALSE]

Spawned(p) == sup[p].at # "none"                    \* process is not None
Reaped(p) == sup[p].at \in {"gone", "lost"}         \* process.returncode is not None
Finished(p) == rec[p].run = "done"
Live(p) == rec[p].run \notin {"none", "done"}

ProcessInit ==
    /\ rec = [p \in Proc |-> NoRecord]
    /\ sup = [p \in Proc |-> NoSupervisor]
    /\ lease = Free
    /\ quarantined = [b \in Backends |-> FALSE]
    /\ faults = 0

------------------------------------------------------------------------------
(* The supervisor, external. *)

Say(p, at, ms) ==
    /\ Len(sup[p].ctl) + Len(ms) <= MaxQueued
    /\ sup' = [sup EXCEPT ![p].at = at, ![p].ctl = @ \o ms]
Acts(p) == Spawned(p) /\ ~Reaped(p) /\ ~sup[p].hung
Fault == faults < MaxFaults /\ faults' = faults + 1
Told(p) == rec[p].command # "open"                  \* T was sent or the endpoint closed

SupervisorReady(p) == sup[p].at = "boot" /\ Say(p, "ready", <<"ready">>) /\ UNCHANGED faults

SupervisorForks(p) ==
    /\ sup[p].at = "acked"
    /\ sup' = [sup EXCEPT ![p].at = "work", ![p].alive = TRUE]
    /\ UNCHANGED faults

\* A path the seccomp filter hands to the policy.
SupervisorAsks(p) ==
    /\ sup[p].at = "work" /\ kind[p] \notin {"direct", "tty"}
    /\ Say(p, "asked", <<"acquire">>)
    /\ UNCHANGED faults

SupervisorExecs(p) ==
    sup[p].at \in {"work", "asked"} /\ Say(p, "exec", <<"started">>) /\ UNCHANGED faults
SupervisorWaits(p) == sup[p].at = "exec" /\ Say(p, "leader", <<"exited">>) /\ UNCHANGED faults

\* Descendants are killed and reaped before the report says so.
SupervisorReports(p) ==
    /\ sup[p].at \in {"boot", "ready", "acked", "work", "asked", "leader"}
    /\ sup[p].at = "leader" \/ Told(p)
    /\ Len(sup[p].ctl) < MaxQueued
    /\ sup' = [sup EXCEPT ![p].at = "reported", ![p].alive = FALSE, ![p].ctl = Append(@, "clean")]
    /\ UNCHANGED faults

SupervisorGives(p) ==
    /\ sup[p].at \in {"boot", "ready", "acked", "work", "asked", "leader"}
    /\ Fault
    /\ \/ Say(p, "reported", <<"unclean">>)
       \/ /\ ~sup[p].alive                          \* a failure to set up
          /\ Say(p, "reported", <<"clean">>)

SupervisorRetains(p) ==
    /\ sup[p].alive /\ ~sup[p].slow /\ kind[p] # "static" /\ Told(p)
    /\ Len(sup[p].ctl) < MaxQueued
    /\ sup' = [sup EXCEPT ![p].slow = TRUE, ![p].ctl = Append(@, "retained")]
    /\ Fault

SupervisorExits(p) ==
    /\ sup[p].at = "reported"
    /\ sup' = [sup EXCEPT ![p].at = "gone", ![p].slow = FALSE]
    /\ UNCHANGED faults

SupervisorMisbehaves(p) ==
    /\ Fault
    /\ \/ Say(p, "lost", <<>>)
       \/ Say(p, sup[p].at, <<"bad">>)
       \/ sup' = [sup EXCEPT ![p].hung = TRUE]

SupervisorStep(p) ==
    /\ Acts(p)
    /\ \/ SupervisorReady(p) \/ SupervisorForks(p) \/ SupervisorAsks(p) \/ SupervisorExecs(p)
       \/ SupervisorWaits(p) \/ SupervisorReports(p) \/ SupervisorExits(p)
    /\ UNCHANGED <<rec, lease, quarantined>>

SupervisorFault(p) ==
    /\ Acts(p)
    /\ SupervisorGives(p) \/ SupervisorRetains(p) \/ SupervisorMisbehaves(p)
    /\ UNCHANGED <<rec, lease, quarantined>>

------------------------------------------------------------------------------
(* Steps every backend takes; each has its own copy of this code. *)

\* _terminate(): T over the command socket.  A lost peer leaves nothing to tell, and
\* the backends differ only in what they then do with their own end.
Terminated(r) == [r EXCEPT !.term = TRUE, !.command = IF @ = "open" THEN "T" ELSE @]

Fails(r) == [r EXCEPT !.started = IF @ = "pending" THEN "failed" ELSE @]
Breaks(r) == [r EXCEPT !.control = "error"]

\* An acknowledged exec.  After a termination request it is terminated once more and
\* the start stays unanswered until the result.
Executes(r) ==
    IF r.term THEN [Terminated(r) EXCEPT !.execd = TRUE]
              ELSE [r EXCEPT !.execd = TRUE, !.started = "ok"]

\* The reservation of _start(): between the checks and the task nothing is awaited.
Reserve(p) == rec' = [rec EXCEPT ![p] = [NoRecord EXCEPT !.run = "lease", !.registered = TRUE]]

\* asyncio.wait((lease, cancellation)): a lease that is done wins.
WinLease(p) ==
    /\ rec[p].run = "lease" /\ lease = Free
    /\ lease' = p
    /\ rec' = [rec EXCEPT ![p].run = "check"]
    /\ UNCHANGED <<sup, quarantined, faults>>

QuitLease(p) ==
    /\ rec[p].run = "lease" /\ rec[p].term
    /\ rec' = [rec EXCEPT ![p] = [Fails(@) EXCEPT !.run = "join"]]
    /\ UNCHANGED <<sup, lease, quarantined, faults>>

\* `refused' is the backend's own condition, read once under the lease.
Check(p, refused, next) ==
    /\ rec[p].run = "check"
    /\ rec' = [rec EXCEPT ![p] = IF refused \/ rec[p].term THEN [Fails(@) EXCEPT !.run = "join"]
                                 ELSE [@ EXCEPT !.run = next]]
    /\ UNCHANGED <<sup, lease, quarantined, faults>>

\* The policy is built in a thread, then the executable's identity verified and the
\* sockets made; any of it may fail, and a termination meanwhile ends the start.
Prepare(p) ==
    /\ rec[p].run = "prepare"
    /\ \/ /\ rec' = [rec EXCEPT ![p] = IF rec[p].term THEN [Fails(@) EXCEPT !.run = "join"]
                                       ELSE [@ EXCEPT !.run = "spawn", !.command = "open"]]
          /\ UNCHANGED faults
       \/ Fault /\ rec' = [rec EXCEPT ![p] = [Fails(@) EXCEPT !.run = "join"]]
    /\ UNCHANGED <<sup, lease, quarantined>>

Spawn(p) ==
    /\ rec[p].run = "spawn"
    /\ \/ /\ rec' = [rec EXCEPT ![p].run = "comm", ![p].control = "read", ![p].pipes = "open"]
          /\ sup' = [sup EXCEPT ![p].at = "boot"]
          /\ UNCHANGED faults
       \/ /\ Fault                          \* create_subprocess_exec raised
          /\ rec' = [rec EXCEPT ![p] = [Fails(@) EXCEPT !.run = "join", !.command = "none"]]
          /\ UNCHANGED sup
    /\ UNCHANGED <<lease, quarantined>>

\* The policy thread of _control answers.
Decided(p) ==
    /\ rec[p].control = "decide"
    /\ rec' = [rec EXCEPT ![p].control = "read"]
    /\ UNCHANGED <<sup, lease, quarantined, faults>>

\* EOF on the control socket.
ControlEnds(p) ==
    /\ rec[p].control = "read" /\ sup[p].ctl = <<>> /\ Reaped(p)
    /\ rec' = [rec EXCEPT ![p].control = IF rec[p].result = "none" THEN "error" ELSE "eof"]
    /\ UNCHANGED <<sup, lease, quarantined, faults>>

\* _output(): both pipes end with the supervisor; their count may differ from the
\* supervisor's, or exceed the limit (a backend without a limit does not fail).
PipesEnd(p) ==
    /\ rec[p].pipes = "open"
    /\ \/ Reaped(p) /\ rec' = [rec EXCEPT ![p].pipes = "eof"] /\ UNCHANGED faults
       \/ Reaped(p) /\ Fault /\ rec' = [rec EXCEPT ![p].pipes = "differs"]
       \/ /\ ~Reaped(p) /\ sup[p].at \in {"exec", "leader"} /\ Fault
          /\ kind[p] \notin {"direct", "tty"}
          /\ rec' = [rec EXCEPT ![p].pipes = "error"]
    /\ UNCHANGED <<sup, lease, quarantined>>

\* The gather of _control, the outputs and process.wait().
CommunicationDone(p) ==
    rec[p].control = "eof" /\ rec[p].pipes \in {"eof", "differs"} /\ Reaped(p)
CommunicationFails(p) == rec[p].control = "error" \/ rec[p].pipes = "error"

\* The tasks are cancelled and the sockets closed before the record ends.
Cancelled(r) ==
    [r EXCEPT !.control = IF @ \in {"read", "decide"} THEN "off" ELSE @,
              !.pipes = IF @ = "open" THEN "off" ELSE @, !.command = "none"]
CloseSockets(p) == sup' = [sup EXCEPT ![p].ctl = <<>>]

\* The last part of _run(): the lease is released only when there was no process or
\* its cleanup is proved; a start that failed leaves the registry.  What nobody reads
\* of a record that ended cleanly is forgotten.
Ended(p, run) ==
    LET closed == rec[p].clean \/ ~Spawned(p)
        started == IF rec[p].started = "ok" THEN "ok" ELSE "failed"
        last == IF closed THEN NoRecord ELSE rec[p]
    IN  [last EXCEPT !.run = run, !.started = started, !.closed = closed,
                     !.registered = started = "ok"]

\* Mutant: the lease is released although the cleanup is not proved.
EndReleasing(p, run) ==
    /\ rec[p].run = "join"
    /\ rec' = [rec EXCEPT ![p] = Ended(p, run)]
    /\ lease' = IF lease = p THEN Free ELSE lease
    /\ UNCHANGED <<sup, faults>>

End(p, run) ==
    /\ rec[p].run = "join"
    /\ rec' = [rec EXCEPT ![p] = Ended(p, run)]
    /\ lease' = IF lease = p /\ (rec[p].clean \/ ~Spawned(p)) THEN Free ELSE lease
    /\ UNCHANGED <<sup, faults>>

\* _expire(): thirty seconds after a clean end.
Expire(p) ==
    /\ Finished(p) /\ rec[p].registered /\ rec[p].closed
    /\ rec' = [rec EXCEPT ![p].registered = FALSE]
    /\ UNCHANGED <<sup, lease, quarantined, faults>>

------------------------------------------------------------------------------
(* The static profile. *)

\* The switch of _control() for one message; `dead' is a supervisor that cannot be told.
StaticReads(r, m, dead) ==
    CASE m = "ready"   -> IF dead \/ r.ready THEN Breaks(r) ELSE [r EXCEPT !.ready = TRUE]
      [] m = "acquire" -> [r EXCEPT !.control = "decide"]
      [] m = "started" -> IF r.execd \/ r.result # "none" THEN Breaks(r) ELSE Executes(r)
      [] m = "exited"  -> IF ~r.execd \/ r.exit THEN Breaks(r) ELSE [r EXCEPT !.exit = TRUE]
      [] m \in {"clean", "unclean"} ->
             IF r.result # "none" THEN Breaks(r) ELSE [Fails(r) EXCEPT !.result = m]
      [] OTHER -> Breaks(r)

\* One message is taken off the socket; an accepted `ready' is answered with P.
Take(p, r) ==
    /\ rec' = [rec EXCEPT ![p] = r]
    /\ sup' = [sup EXCEPT ![p].ctl = Tail(@),
                          ![p].at = IF @ = "ready" /\ r.ready THEN "acked" ELSE @]

StaticControl(p) ==
    /\ kind[p] = "static"
    /\ rec[p].control = "read" /\ sup[p].ctl # <<>>
    /\ Take(p, StaticReads(rec[p], Head(sup[p].ctl), Reaped(p)))
    /\ UNCHANGED <<lease, quarantined, faults>>

StaticCheck(p) == kind[p] = "static" /\ Check(p, quarantined["model"], "prepare")
StaticPrepare(p) == kind[p] = "static" /\ Prepare(p)

\* The wait for the communication, under the wall limit and eight seconds, and its checks.
StaticCommunication(p) ==
    /\ kind[p] = "static" /\ rec[p].run = "comm"
    /\ \/ /\ CommunicationDone(p)
          /\ rec' = [rec EXCEPT ![p] = [Fails(@) EXCEPT !.run = "settle",
                                                          !.clean = rec[p].clean \/ rec[p].result = "clean"]]
       \/ /\ ~CommunicationDone(p)            \* a task failed, or the time is over
          /\ rec' = [rec EXCEPT ![p] = IF Reaped(p) THEN [Fails(@) EXCEPT !.run = "settle"]
                                       ELSE [Terminated(Fails(@)) EXCEPT !.run = "term"]]
    /\ UNCHANGED <<sup, lease, quarantined, faults>>

\* Seven seconds for the supervisor to end, then SIGKILL through its pidfd.
StaticKill(p) ==
    /\ kind[p] = "static" /\ rec[p].run = "term"
    /\ rec' = [rec EXCEPT ![p].run = "settle"]
    /\ \/ Reaped(p) /\ UNCHANGED sup
       \/ ~Reaped(p) /\ rec[p].ready /\ sup' = [sup EXCEPT ![p].at = "lost"]
       \/ ~Reaped(p) /\ ~rec[p].ready /\ UNCHANGED sup
    /\ UNCHANGED <<lease, quarantined, faults>>

\* A result that was read proves the cleanup, however the supervisor ended.
StaticSettle(p) ==
    /\ kind[p] = "static" /\ rec[p].run = "settle"
    /\ rec' = [rec EXCEPT ![p] = [Cancelled(@) EXCEPT !.run = "join",
                                                        !.clean = rec[p].clean \/ rec[p].result = "clean"]]
    /\ CloseSockets(p)
    /\ UNCHANGED <<lease, quarantined, faults>>

StaticEnd(p) ==
    /\ kind[p] = "static"
    /\ End(p, "done")
    /\ quarantined' = [quarantined EXCEPT !["model"] = @ \/ (Spawned(p) /\ ~rec[p].clean)]

StaticStep(p) ==
    \/ StaticControl(p) \/ StaticCheck(p) \/ StaticPrepare(p) \/ StaticCommunication(p) \/ StaticKill(p)
    \/ StaticSettle(p) \/ StaticEnd(p)
=============================================================================
