-------------------------- MODULE FoldRuntimeService --------------------------
(***************************************************************************)
(* The lifecycle of com.termux.x11.FoldRuntimeService in one :runtime      *)
(* process: the main looper, the workspace worker threads, the native      *)
(* owners (FoldExecutorRuntime) and the two gates.  A Service instance can *)
(* be destroyed while its worker and its owner still end, and a new        *)
(* instance can be created beside them.                                    *)
(*                                                                         *)
(* A main-thread handler is an operator on a world record, because the     *)
(* handlers call one another; Handled makes the result the next state.     *)
(***************************************************************************)
EXTENDS Integers, Sequences, RuntimeIntent, RuntimeGates

CONSTANTS
    NativeSelected,     \* isNativeSelected(): the launcher waits for the native endpoint
    Persisted,          \* intents the process may find on disk
    Recreations,        \* whether Android recreates the process for its sticky Service
    Requests,           \* the intents the environment sends, out of {"start", ...}
    MaxRequests,        \* bound: number of intents
    MaxStable,          \* bound: only the first MaxStable sessions reach the stable window
    MaxRefusals,        \* bound: number of refused writes of the intent
    MaxDestroys         \* bound: destructions the system initiates

ASSUME ServiceAssumption ==
    /\ NativeSelected \in BOOLEAN
    \* What restore() accepts.
    /\ Persisted \subseteq {r \in Intent : r.wanted \/ r.state = "stopped"}
    /\ Recreations \subseteq BOOLEAN
    /\ Requests \subseteq {"start", "stop", "prepare", "display"}
    /\ {MaxRequests, MaxStable, MaxRefusals, MaxDestroys} \subseteq Nat

VARIABLES
    svc,        \* the fields of the live Service instance
    disk,       \* the committed intent
    owners,     \* FoldExecutorRuntime by generation
    workers,    \* workspace workers, by number
    exitGate,
    mainQ,      \* the main looper's queue
    exited,     \* "no", or why the process ended: "clean", "retired"
    asked,      \* history: the user's last delivered request
    requests, refusals, destroys

vars == <<svc, disk, owners, workers, exitGate, mainQ, exited, asked, requests, refusals, destroys>>

------------------------------------------------------------------------------

\* inst = 0: no live instance.
NoService ==
    [inst |-> 0, phase |-> "stopped", intent |-> NoIntent, stopping |-> FALSE, complete |-> FALSE,
     gate |-> NewGate, restart |-> FALSE, later |-> FALSE, auto |-> FALSE,
     worker |-> 0, runtime |-> 0, timer |-> FALSE, token |-> 0, stableTimer |-> 0]

\* prep: the future of prepare().  native: the session it opened; "gone" is a
\* confirmed clean end, "dead" an owner that was reaped without one.
\* asks: a prepareNative() callback waits.  waiter: the shutdown generation whose
\* callback waits for closed.
NewOwner(inst) ==
    [inst |-> inst, prep |-> "none", native |-> "none", asks |-> FALSE, waiter |-> 0,
     failed |-> FALSE, closing |-> FALSE, closed |-> FALSE]

\* prepare()'s future fails if it is still open.
Unprepared(o) == [o EXCEPT !.asks = FALSE, !.prep = IF @ = "pending" THEN "failed" ELSE @]

\* Nothing else of a closed owner is looked at any more.
Closed(o) ==
    [o EXCEPT !.prep = IF @ = "ready" THEN @ ELSE "failed", !.native = IF @ = "gone" THEN "none" ELSE @,
              !.waiter = 0, !.failed = TRUE, !.closed = TRUE]

NewWorker(inst, runtime) ==
    [inst |-> inst, runtime |-> runtime, pc |-> "prepare", spawned |-> FALSE, linux |-> FALSE, ready |-> FALSE,
     interrupted |-> FALSE, exits |-> FALSE]

Finished(w) == [NewWorker(w.inst, w.runtime) EXCEPT !.pc = "done"]

Init ==
    /\ svc = NoService
    /\ disk \in Persisted
    /\ owners = <<>> /\ workers = <<>> /\ exitGate = NewExitGate
    \* A recreated Service is given a null intent first; otherwise the process was
    \* started for a request.
    /\ \E sticky \in Recreations : mainQ = IF sticky THEN <<<<"null">>>> ELSE <<>>
    /\ exited = "no" /\ asked = "none"
    /\ requests = 0 /\ refusals = 0 /\ destroys = 0

\* What a handler starts from.  `room' counts its writes of the intent that still
\* succeed, `reads' says whether the files it reads are readable, and `verdict' is
\* what the clock makes of a retry.
World(queue, room, reads, verdict) ==
    [s |-> svc, disk |-> disk, owners |-> owners, workers |-> workers, exitGate |-> exitGate,
     queue |-> queue, exited |-> exited, asked |-> asked,
     room |-> room, reads |-> reads, verdict |-> verdict, ok |-> TRUE]

Post(v, message) == [v EXCEPT !.queue = Append(@, message)]

IsRequest(message) == message[1] \in {"start", "stop", "prepare", "display", "null"}

PublishPhase(v, p) == [v EXCEPT !.s.phase = p]

\* saveRecovery(): the result is in ok.
SaveRecovery(v) ==
    IF v.room > 0
    THEN [v EXCEPT !.disk = v.s.intent, !.room = @ - 1, !.ok = TRUE]
    ELSE [v EXCEPT !.s.intent = NoIntent, !.s.timer = FALSE, !.s.phase = "error", !.ok = FALSE]

\* prepareNative(): a future that is already complete calls back at once; an owner
\* that closes, or an unreadable identity, is a failed one.
PrepareNative(v) ==
    LET g == v.s.runtime
        o == v.owners[g]
        refused == o.closing \/ ~v.reads
    IN  IF refused \/ o.prep \in {"ready", "failed"}
        THEN Post(v, <<"prepared", g, ~refused /\ o.prep = "ready">>)
        ELSE [v EXCEPT !.owners[g].prep = "pending", !.owners[g].asks = TRUE]

\* FoldExecutorRuntime.requestStop() of generation g, with what its waiting
\* prepare() callback is told.
RequestOwnerStop(v, g) ==
    LET o == v.owners[g]
        u == [v EXCEPT !.owners[g] = [Unprepared(@) EXCEPT !.closing = TRUE]]
    IN  IF o.closing THEN v
        ELSE IF o.prep = "pending" /\ o.asks THEN Post(u, <<"prepared", g, FALSE>>) ELSE u

\* The callback of requestStop().whenComplete().
AwaitClosed(v, g, generation) ==
    IF v.owners[g].closed THEN Post(v, <<"cleanup", g, generation>>)
    ELSE [v EXCEPT !.owners[g].waiter = generation]

BeginShutdown(v) ==
    LET u == IF v.s.phase # "error" /\ ~v.s.auto THEN PublishPhase(v, "stopping") ELSE v
        g == Begin(u.s.gate, u.s.worker # 0)
        t == [u EXCEPT !.s.stopping = TRUE, !.s.complete = FALSE, !.s.gate = g]
    IN  IF u.s.stopping THEN u
        ELSE AwaitClosed(RequestOwnerStop(t, t.s.runtime), t.s.runtime, g.generation)

NewExecutorRuntime(v) ==
    [v EXCEPT !.exitGate = Register(@),
              !.owners = Append(@, NewOwner(v.s.inst)),
              !.s.runtime = Len(v.owners) + 1]

\* Mutant: the launch is not committed.
LaunchWorkspaceUnsaved(v) ==
    IF v.s.stopping \/ v.s.worker # 0 \/ ~Permits(v.s.intent) THEN v
    ELSE LET u == [v EXCEPT !.s.intent = Launched(@)]
         IN  [u EXCEPT !.s.phase = "starting", !.s.restart = FALSE,
                       !.workers = Append(@, NewWorker(u.s.inst, u.s.runtime)),
                       !.s.worker = Len(u.workers) + 1]

LaunchWorkspace(v) ==
    IF v.s.stopping \/ v.s.worker # 0 \/ ~Permits(v.s.intent) THEN v
    ELSE LET u == SaveRecovery([v EXCEPT !.s.intent = Launched(@)])
         IN  IF ~u.ok THEN BeginShutdown(u)
             ELSE [u EXCEPT !.s.phase = "starting", !.s.restart = FALSE,
                            !.workers = Append(@, NewWorker(u.s.inst, u.s.runtime)),
                            !.s.worker = Len(u.workers) + 1]

ScheduleLaunch(v, delay) ==
    LET u == [v EXCEPT !.s.timer = FALSE]
    IN  IF u.s.stopping \/ ~Permits(u.s.intent) THEN u
        ELSE IF delay = "now" THEN LaunchWorkspace(u)
        ELSE [PublishPhase(u, "recovering") EXCEPT !.s.timer = TRUE]

\* The delay serviceRecreated() returns with intent r: "never" for a negative one.
\* A failure that was just charged is never due at once.
Delay(before, r, verdict) ==
    IF ~Permits(r) \/ r.state # "retry" THEN "never"
    ELSE IF before.state = "retry" /\ verdict = "now" THEN "now" ELSE "later"

\* stopSelfResult(latestStartId): rejected while a newer request is on its way.
StopSelf(v) ==
    IF \E i \in 1..Len(v.queue) : IsRequest(v.queue[i]) \/ v.queue[i] = <<"destroy">>
    THEN v ELSE Post(v, <<"destroy">>)

\* reapOwnedProcesses(): every process of the UID but the application's own ends.
Reap(v) == [v EXCEPT !.workers = [k \in DOMAIN @ |-> [@[k] EXCEPT !.linux = FALSE]]]

\* Mutant: the new generation is launched with the flag of the old shutdown.
RestartStillStopping(v) ==
    NewExecutorRuntime([Reap(v) EXCEPT !.s.complete = FALSE, !.s.restart = FALSE, !.s.later = FALSE])

\* The RESTART arm: a fresh owner, then the launch or the preparation.
Restart(v) ==
    LET r == v.s.intent
        u == NewExecutorRuntime([Reap(v) EXCEPT !.s.stopping = FALSE, !.s.complete = FALSE,
                                                !.s.restart = FALSE, !.s.later = FALSE])
        t == IF v.s.later THEN [u EXCEPT !.s.intent = Recreated(@, v.verdict)] ELSE u
        d == IF v.s.later THEN Delay(r, t.s.intent, v.verdict) ELSE "now"
    IN  IF ~v.s.restart THEN PrepareNative(u)
        ELSE IF d = "never" THEN BeginShutdown(PublishPhase(SaveRecovery(t), "error"))
        ELSE ScheduleLaunch(t, d)

ApplyShutdownAction(v, result) ==
    LET u == [v EXCEPT !.s.gate = result.gate]
    IN  CASE result.action = "RESTART"      -> Restart(u)
          [] result.action = "STOP_SERVICE" -> StopSelf([Reap(u) EXCEPT !.s.complete = TRUE])
          [] result.action = "WAIT"         -> u

InterruptWorker(v) ==
    IF v.s.worker = 0 THEN v ELSE [v EXCEPT !.workers[v.s.worker].interrupted = TRUE]

\* Mutant: the retry is charged and never asked for.
RecoverWorkspaceForgets(v) ==
    LET u == SaveRecovery([v EXCEPT !.s.intent = Charged(@, v.verdict)])
    IN  IF v.s.stopping THEN v ELSE InterruptWorker(BeginShutdown(u))

RecoverWorkspace(v) ==
    LET u == SaveRecovery([v EXCEPT !.s.intent = Charged(@, v.verdict)])
        again == u.ok /\ Permits(u.s.intent) /\ u.s.intent.state = "retry"
        t == [u EXCEPT !.s.auto = again, !.s.restart = again, !.s.later = again,
                       !.s.phase = IF again THEN "recovering" ELSE "error"]
        b == BeginShutdown(t)
        e == IF again THEN ApplyShutdownAction(b, RequestRestart(b.s.gate)) ELSE b
    IN  IF v.s.stopping THEN v ELSE InterruptWorker(e)

------------------------------------------------------------------------------
(* onStartCommand, one operator per kind of intent. *)

\* Mutant: a stop is a shutdown like any other.
RequestStopOnlyShutsDown(v) == InterruptWorker(BeginShutdown(v))

\* The result of saveRecovery() is not looked at.
RequestStop(v) ==
    LET u == SaveRecovery([v EXCEPT !.s.intent = NoIntent])
        t == [u EXCEPT !.s.timer = FALSE, !.s.auto = FALSE, !.s.later = FALSE, !.s.restart = FALSE]
        done == CancelRestart(t.s.gate)
        b == BeginShutdown([t EXCEPT !.s.gate = done.gate])
    IN  ApplyShutdownAction(InterruptWorker(b), [done EXCEPT !.gate = b.s.gate])

\* Sticky recreation.
OnNull(v) ==
    LET r == v.s.intent
        u == SaveRecovery([v EXCEPT !.s.intent = Recreated(@, v.verdict)])
        d == Delay(r, u.s.intent, v.verdict)
    IN  IF v.s.worker # 0 \/ v.s.stopping THEN v
        ELSE IF ~u.ok THEN BeginShutdown(u)
        ELSE IF d = "never"
             THEN BeginShutdown(IF u.s.intent.wanted THEN PublishPhase(u, "error") ELSE u)
        ELSE ScheduleLaunch([u EXCEPT !.s.auto = TRUE], d)

\* An obsolete start of the display.
OnDisplay(v) ==
    IF ~v.s.stopping /\ v.s.worker = 0 /\ ~v.s.timer THEN BeginShutdown(v)
    ELSE IF v.s.complete THEN StopSelf(v) ELSE v

OnStart(v) ==
    LET u == SaveRecovery([v EXCEPT !.s.intent = Started(@, v.s.worker # 0 /\ ~v.s.stopping)])
        t == [u EXCEPT !.s.timer = FALSE, !.s.auto = FALSE, !.s.later = FALSE]
    IN  IF ~u.ok THEN BeginShutdown(u)
        ELSE IF t.s.stopping
             THEN ApplyShutdownAction([t EXCEPT !.s.restart = TRUE], RequestRestart(t.s.gate))
        ELSE LaunchWorkspace(t)

OnPrepare(v) ==
    IF v.s.stopping THEN ApplyShutdownAction(v, RequestRestart(v.s.gate))
    ELSE PrepareNative(v)

\* onCreate() of a new instance, when there is none.  An intent that cannot be
\* restored is no intent.
OnCreate(v) ==
    IF v.s.inst # 0 THEN v
    ELSE NewExecutorRuntime([v EXCEPT !.s = [NoService EXCEPT !.inst = Len(v.owners) + 1, !.phase = "starting",
                               !.intent = IF v.reads THEN v.disk ELSE NoIntent]])

OnStartCommand(v, request) ==
    LET u == [OnCreate(v) EXCEPT !.asked = IF request \in {"start", "stop"} THEN request ELSE @]
    IN  CASE request = "stop"    -> RequestStop(u)
          [] request = "null"    -> OnNull(u)
          [] request = "display" -> OnDisplay(u)
          [] request = "start"   -> OnStart(u)
          [] request = "prepare" -> OnPrepare(u)

------------------------------------------------------------------------------
(* The callbacks posted to the main looper. *)

OnFailure(v, g) ==
    IF g # v.s.runtime \/ v.s.worker = 0 \/ v.s.stopping THEN v ELSE RecoverWorkspace(v)

\* Mutant: the death of the native owner is left to the shutdown.
OnOwnerDeathIgnored(v, g) == v

\* Mutant: the process goes, whether the retry was committed or not.
OnOwnerDeathUncommitted(v, g) ==
    LET u == SaveRecovery([v EXCEPT !.s.intent = Recreated(@, v.verdict)])
    IN  IF g # v.s.runtime THEN v
        ELSE [u EXCEPT !.exited = "retired", !.s.stopping = TRUE]

\* retireDeadOwner(): commit the retry, then end the process if this is the only
\* owner left.
OnOwnerDeath(v, g) ==
    LET u == SaveRecovery([v EXCEPT !.s.intent = Recreated(@, v.verdict)])
        d == Delay(v.s.intent, u.s.intent, v.verdict)
        t == [u EXCEPT !.s.timer = FALSE, !.s.stopping = TRUE, !.s.restart = FALSE,
                       !.s.phase = IF d # "never" THEN "recovering"
                                   ELSE IF u.s.intent.wanted THEN "error" ELSE @]
        o == t.owners[g]
    IN  IF g # v.s.runtime THEN v
        ELSE IF ~u.ok THEN u
        ELSE IF ~o.closed /\ o.native = "dead" /\ v.reads /\ MayRetire(t.exitGate, g)
             THEN [t EXCEPT !.exited = "retired", !.exitGate.retiring = TRUE, !.exitGate.pending = 0]
             ELSE PublishPhase(t, "error")

OnCleanup(v, g, generation) ==
    IF g # v.s.runtime THEN v
    ELSE ApplyShutdownAction(v, NativeCompleted(v.s.gate, generation, FALSE))

OnPrepared(v, g, success) ==
    IF g # v.s.runtime \/ success \/ v.s.worker # 0 \/ v.s.stopping THEN v ELSE BeginShutdown(v)

\* The X server starts on the main thread; the worker waits for it.
OnXStart(v, k) ==
    LET refused == v.workers[k].inst # v.s.inst \/ v.s.stopping
    IN  IF v.workers[k].pc # "xwait" THEN v
        ELSE [v EXCEPT !.workers[k].pc = IF refused THEN "ending" ELSE "spawn"]

\* publishPhase("ready").
OnReady(v, k) ==
    LET u == SaveRecovery([PublishPhase(v, "ready") EXCEPT !.s.intent = Readied(@)])
    IN  IF v.s.stopping \/ v.s.token # k THEN v
        ELSE IF ~u.ok THEN BeginShutdown(u)
        ELSE [u EXCEPT !.s.auto = FALSE, !.s.stableTimer = k]

OnWorkerDone(v, k) ==
    LET u == [v EXCEPT !.s.worker = 0]
    IN  IF v.s.worker # k THEN v
        ELSE IF u.s.stopping THEN ApplyShutdownAction(u, WorkspaceExited(u.s.gate, u.s.gate.generation))
        ELSE RecoverWorkspace(u)

\* What is left of a destroyed instance can only end: its callbacks return, its owner's
\* preparation is of no use, and its worker is interrupted or refused at the next check.
Abandoned(o) == [o EXCEPT !.prep = "failed", !.asks = FALSE, !.waiter = 0, !.failed = TRUE]
Ending(w) == [NewWorker(w.inst, w.runtime) EXCEPT !.pc = "ending", !.linux = w.linux, !.exits = TRUE]

\* onDestroy(), whoever asked for it.
OnDestroy(v) ==
    LET g == v.s.runtime
        k == v.s.worker
        u == RequestOwnerStop(v, g)
        t == [u EXCEPT !.s = NoService, !.owners[g] = Abandoned(@)]
    IN  IF k # 0 /\ v.workers[k].pc # "done"
        THEN [t EXCEPT !.workers[k] = Ending(@)]
        ELSE Post(t, <<"closeAfter", g>>)

\* shutdownAfterCleanup() and the exit it may lead to.
OnCloseAfter(v, g) ==
    Post([RequestOwnerStop(v, g) EXCEPT !.exitGate = RequestExit(@, g)], <<"runExit">>)

OnRunExit(v) == IF MayExit(v.exitGate) THEN [v EXCEPT !.exited = "clean"] ELSE v

Live(v) == v.s.inst # 0

\* Every callback of a destroyed instance returns at once.
Dispatch(v, message) ==
    CASE IsRequest(message)                           -> OnStartCommand(v, message[1])
      [] message[1] = "failure" /\ Live(v)            -> OnFailure(v, message[2])
      [] message[1] = "ownerDeath" /\ Live(v)         -> OnOwnerDeath(v, message[2])
      [] message[1] = "cleanup" /\ Live(v)            -> OnCleanup(v, message[2], message[3])
      [] message[1] = "prepared" /\ Live(v)           -> OnPrepared(v, message[2], message[3])
      [] message[1] = "xStart"                        -> OnXStart(v, message[2])
      [] message[1] = "ready" /\ Live(v)              -> OnReady(v, message[2])
      [] message[1] = "workerDone" /\ Live(v)         -> OnWorkerDone(v, message[2])
      [] message[1] = "destroy" /\ Live(v)            -> OnDestroy(v)
      [] message[1] = "closeAfter"                    -> OnCloseAfter(v, message[2])
      [] message[1] = "runExit"                       -> OnRunExit(v)
      [] OTHER                                        -> v

------------------------------------------------------------------------------
(* The actions. *)

Handled(v) ==
    /\ svc' = v.s /\ disk' = v.disk /\ owners' = v.owners /\ workers' = v.workers
    /\ exitGate' = v.exitGate /\ mainQ' = v.queue /\ exited' = v.exited /\ asked' = v.asked

\* A handler h runs with everything it reads and writes at hand (none writes the
\* intent more than twice), or, while refusals remain, without.
Handle(queue, h(_)) ==
    \E room \in 0..2, reads \in BOOLEAN, verdict \in Verdicts :
        /\ (room = 2 /\ reads) \/ refusals < MaxRefusals
        /\ Handled(h(World(queue, room, reads, verdict)))
        /\ refusals' = IF room = 2 /\ reads THEN refusals ELSE refusals + 1
        /\ UNCHANGED <<requests, destroys>>

\* The looper runs the oldest message.
MainStep ==
    /\ exited = "no" /\ mainQ # <<>>
    /\ Handle(Tail(mainQ), LAMBDA v : Dispatch(v, Head(mainQ)))

\* The runnable of pendingLaunch.
OnLaunchDue(v) ==
    LET w == [v EXCEPT !.s.timer = FALSE]
        u == SaveRecovery([w EXCEPT !.s.intent = Recreated(@, v.verdict)])
        d == Delay(w.s.intent, u.s.intent, v.verdict)
    IN  IF w.s.stopping \/ w.s.worker # 0 \/ ~Permits(w.s.intent) THEN w
        ELSE IF ~u.ok \/ d = "never" THEN BeginShutdown(PublishPhase(u, "error"))
        ELSE ScheduleLaunch(u, d)

LaunchTimer == exited = "no" /\ svc.timer /\ Handle(mainQ, OnLaunchDue)

\* The check posted one stable window after ready.  A refused write stops nothing.
OnStableWindow(v) ==
    LET w == [v EXCEPT !.s.stableTimer = 0]
    IN  IF w.s.stopping \/ w.s.token # v.s.stableTimer \/ ~Stable(w.s.intent) THEN w
        ELSE SaveRecovery([w EXCEPT !.s.intent = Stabilized(@)])

StableTimer == exited = "no" /\ svc.stableTimer \in 1..MaxStable /\ Handle(mainQ, OnStableWindow)

\* Somebody starts the service.
Request ==
    /\ exited = "no" /\ requests < MaxRequests /\ requests' = requests + 1
    /\ \E r \in Requests : mainQ' = Append(mainQ, <<r>>)
    /\ UNCHANGED <<svc, disk, owners, workers, exitGate, exited, asked, refusals, destroys>>

\* The system takes the service down by itself.
SystemDestroys ==
    /\ exited = "no" /\ svc.inst # 0 /\ destroys < MaxDestroys /\ destroys' = destroys + 1
    /\ \A i \in 1..Len(mainQ) : mainQ[i] # <<"destroy">>
    /\ mainQ' = Append(mainQ, <<"destroy">>)
    /\ UNCHANGED <<svc, disk, owners, workers, exitGate, exited, asked, requests, refusals>>

------------------------------------------------------------------------------
(* startWorkspace(), on the worker thread. *)

\* stopping || destroyed, as the worker reads it.
Stopped(k) == workers[k].inst # svc.inst \/ svc.stopping

\* What is posted for instance i: every callback of a destroyed instance returns at
\* once, so none is posted for it.
ToMain(i, messages) == IF i = svc.inst THEN messages ELSE <<>>

WorkerMoves(k, pc) == workers' = [workers EXCEPT ![k].pc = pc]

WorkerUnchanged == UNCHANGED <<disk, exitGate, exited, asked, requests, refusals, destroys>>

\* Validate the installation, then wait for the native endpoint.
WorkerPrepares(k) ==
    /\ workers[k].pc = "prepare"
    /\ LET g == workers[k].runtime
       IN  /\ WorkerMoves(k, IF NativeSelected /\ owners[g].closing THEN "ending" ELSE "await")
           /\ owners' = IF NativeSelected /\ owners[g].prep = "none" /\ ~owners[g].closing
                        THEN [owners EXCEPT ![g].prep = "pending"] ELSE owners
    /\ WorkerUnchanged /\ UNCHANGED <<svc, mainQ>>

\* The endpoint is there, or not; before the display is asked for, stopping is
\* looked at.  A finished worker whose token is replaced can do nothing more.
WorkerChecks(k) ==
    LET g == workers[k].runtime
        go == (NativeSelected => owners[g].prep = "ready") /\ ~Stopped(k)
    IN  /\ workers[k].pc = "await"
        /\ NativeSelected => owners[g].prep \in {"ready", "failed"}
        /\ IF go THEN /\ svc' = [svc EXCEPT !.token = k]
                      /\ mainQ' = Append(mainQ, <<"xStart", k>>)
                      /\ workers' = [j \in DOMAIN workers |->
                            IF j = k THEN [workers[k] EXCEPT !.pc = "xwait"]
                            ELSE IF workers[j].pc = "done" THEN Finished(workers[j]) ELSE workers[j]]
           ELSE WorkerMoves(k, "ending") /\ UNCHANGED <<svc, mainQ>>
    /\ WorkerUnchanged /\ UNCHANGED owners

WorkerSpawns(k) ==
    /\ workers[k].pc = "spawn"
    /\ workers' = IF Stopped(k) THEN [workers EXCEPT ![k].pc = "ending"]
                  ELSE [workers EXCEPT ![k].pc = "run", ![k].linux = TRUE, ![k].spawned = TRUE]
    /\ WorkerUnchanged /\ UNCHANGED <<svc, owners, mainQ>>

\* The observer thread saw this session's token in the readiness file.  Its post
\* can come as late as it likes: stopWatching() waits for no one.
ClientReady(k) ==
    /\ workers[k].spawned /\ ~workers[k].ready /\ svc.token = k
    /\ workers' = [workers EXCEPT ![k].ready = TRUE]
    /\ mainQ' = Append(mainQ, <<"ready", k>>)
    /\ WorkerUnchanged /\ UNCHANGED <<svc, owners>>

\* Linux exits by itself.
LinuxExits(k) ==
    /\ workers[k].linux
    /\ workers' = [workers EXCEPT ![k].linux = FALSE]
    /\ WorkerUnchanged /\ UNCHANGED <<svc, owners, mainQ>>

\* An exception, a timeout or an interrupt; once the client is ready, only an
\* interrupt or the exit of Linux.
WorkerLeaves(k) ==
    /\ workers[k].pc \notin {"ending", "done"}
    /\ workers[k].pc = "run" /\ workers[k].ready => workers[k].interrupted \/ ~workers[k].linux
    /\ WorkerMoves(k, "ending")
    /\ WorkerUnchanged /\ UNCHANGED <<svc, owners, mainQ>>

\* The finally block: wait for Linux, publish completion, tell the main thread.
WorkerEnds(k) ==
    /\ workers[k].pc = "ending"
    /\ workers' = [workers EXCEPT ![k].pc = "done", ![k].linux = FALSE,
                                ![k].interrupted = FALSE, ![k].exits = FALSE]
    /\ mainQ' = (IF workers[k].exits THEN Append(mainQ, <<"closeAfter", workers[k].runtime>>) ELSE mainQ)
                \o ToMain(workers[k].inst, <<<<"workerDone", k>>>>)
    /\ WorkerUnchanged /\ UNCHANGED <<svc, owners>>

------------------------------------------------------------------------------
(* FoldExecutorRuntime, reduced to what the service can see of it. *)

OwnerUnchanged == UNCHANGED <<svc, disk, workers, exited, asked, requests, refusals, destroys>>

\* The callbacks of generation g's three futures.
Prepared(g, success) == IF owners[g].asks THEN ToMain(owners[g].inst, <<<<"prepared", g, success>>>>) ELSE <<>>
Failure(g) == IF owners[g].failed THEN <<>> ELSE ToMain(owners[g].inst, <<<<"failure", g>>>>)
Death(g) == ToMain(owners[g].inst, <<<<"ownerDeath", g>>>>)


\* A session is opened for the pending preparation.
OwnerOpens(g) ==
    /\ owners[g].prep = "pending" /\ owners[g].native = "none"
    /\ ~owners[g].closing /\ ~owners[g].failed
    /\ owners' = [owners EXCEPT ![g].native = "up"]
    /\ OwnerUnchanged /\ UNCHANGED <<mainQ, exitGate>>

OwnerReady(g) ==
    /\ owners[g].prep = "pending" /\ owners[g].native = "up" /\ ~owners[g].closing
    /\ owners' = [owners EXCEPT ![g].prep = "ready", ![g].asks = FALSE]
    /\ mainQ' = mainQ \o Prepared(g, TRUE)
    /\ OwnerUnchanged /\ UNCHANGED exitGate

\* fail(): the first one completes the failure future.  Some callers go on to
\* request the stop, others leave the owner open.
OwnerFails(g) ==
    /\ owners[g].prep # "none" /\ ~owners[g].failed /\ ~owners[g].closed
    /\ \E stops \in BOOLEAN :
        owners' = [owners EXCEPT ![g] = [Unprepared(@) EXCEPT !.failed = TRUE, !.closing = owners[g].closing \/ stops]]
    /\ mainQ' = mainQ \o Prepared(g, FALSE) \o Failure(g)
    /\ OwnerUnchanged /\ UNCHANGED exitGate

\* The session ends with its clean receipt: cancelled, or by controller EOF.
NativeEnds(g) ==
    /\ owners[g].native = "up"
    /\ owners' = [owners EXCEPT ![g] = [Unprepared(@) EXCEPT !.native = "gone", !.closing = TRUE]]
    /\ mainQ' = mainQ \o Prepared(g, FALSE)
    /\ OwnerUnchanged /\ UNCHANGED exitGate

\* The session's process is reaped without a receipt.
NativeDies(g) ==
    /\ owners[g].native = "up"
    /\ owners' = [owners EXCEPT ![g] = [Unprepared(@) EXCEPT !.native = "dead", !.closing = TRUE, !.failed = TRUE]]
    /\ mainQ' = mainQ \o Death(g) \o Prepared(g, FALSE) \o (IF owners[g].closing THEN <<>> ELSE Failure(g))
    /\ OwnerUnchanged /\ UNCHANGED exitGate

\* Mutant: cleanup is taken for granted once the stop was requested.
OwnerClosesUnproven(g) ==
    /\ owners[g].closing /\ ~owners[g].closed
    /\ owners' = [owners EXCEPT ![g] = Closed(@)]
    /\ exitGate' = MarkClean(exitGate, g)
    /\ mainQ' = mainQ \o (IF owners[g].waiter = 0 THEN <<>> ELSE <<<<"cleanup", g, owners[g].waiter>>>>)
                      \o <<<<"runExit">>>>
    /\ OwnerUnchanged

\* finishWhenClean() with the evidence complete.
OwnerCloses(g) ==
    /\ owners[g].closing /\ ~owners[g].closed
    /\ owners[g].native \in {"none", "gone"}
    /\ owners' = [owners EXCEPT ![g] = Closed(@)]
    /\ exitGate' = MarkClean(exitGate, g)
    /\ mainQ' = mainQ \o (IF owners[g].waiter = 0 THEN <<>> ELSE <<<<"cleanup", g, owners[g].waiter>>>>)
                      \o <<<<"runExit">>>>
    /\ OwnerUnchanged

WorkerStep(k) ==
    \/ WorkerPrepares(k) \/ WorkerChecks(k) \/ WorkerSpawns(k)
    \/ WorkerEnds(k)

OwnerStep(g) == OwnerOpens(g) \/ OwnerReady(g) \/ OwnerCloses(g)

Next ==
    \/ MainStep \/ LaunchTimer \/ StableTimer \/ Request \/ SystemDestroys
    \/ exited = "no" /\ \E k \in DOMAIN workers : WorkerStep(k) \/ ClientReady(k) \/ WorkerLeaves(k) \/ LinuxExits(k)
    \/ exited = "no" /\ \E g \in DOMAIN owners : OwnerStep(g) \/ OwnerFails(g) \/ NativeEnds(g) \/ NativeDies(g)

Spec == Init /\ [][Next]_vars

\* Weak fairness of MainStep, the one action that takes a message off the queue.
LooperFairness ==
    \/ []<>(mainQ = <<>> \/ exited # "no")
    \/ []<><<Len(mainQ') < Len(mainQ) \/ SubSeq(mainQ', 1, Len(mainQ)) # mainQ>>_vars

\* Time passes: an armed relaunch becomes due, and then launches or gives up.
TimerFairness == []<>(~svc.timer \/ exited # "no")

\* The looper and its timers run; worker threads run, and their waits are bounded
\* (90 s, 15 s, a killed child); a cancelled native session ends or dies; cleanup
\* is polled until it is confirmed.
FairSpec ==
    /\ Spec
    /\ LooperFairness /\ TimerFairness
    /\ WF_vars(exited = "no" /\ \E k \in DOMAIN workers : WorkerStep(k) \/ WorkerLeaves(k))
    /\ WF_vars(exited = "no" /\ \E g \in DOMAIN owners :
                    OwnerCloses(g) \/ (owners[g].closing /\ NativeEnds(g)))

------------------------------------------------------------------------------

\* The fields hold what their declarations allow, and every number names an owner
\* or a worker that exists.
TypeOK ==
    /\ svc.intent \in Intent /\ disk \in Intent
    /\ svc.gate \in [generation: 0..Len(owners), active: BOOLEAN, nativeClean: BOOLEAN,
                     workspaceExited: BOOLEAN, restart: BOOLEAN, stopReported: BOOLEAN,
                     cleanupFailure: BOOLEAN]
    /\ svc.phase \in {"stopped", "starting", "ready", "recovering", "stopping", "error"}
    /\ {svc.worker, svc.token, svc.stableTimer} \subseteq 0..Len(workers)
    /\ svc.inst # 0 => svc.runtime \in DOMAIN owners
    /\ \A g \in DOMAIN owners :
        /\ owners[g].prep \in {"none", "pending", "ready", "failed"}
        /\ owners[g].native \in {"none", "up", "gone", "dead"}
    /\ \A k \in DOMAIN workers :
        /\ workers[k].pc \in {"prepare", "await", "xwait", "spawn", "run", "ending", "done"}
        /\ workers[k].runtime \in DOMAIN owners
    /\ exitGate.owners = {g \in DOMAIN owners : ~owners[g].closed}
    /\ exitGate.generation = Len(owners)
    /\ exited \in {"no", "clean", "retired"}

\* "The retry cannot bypass either the native receipt or the actual Linux wait":
\* while a worker of a Service instance runs, every earlier worker of that instance
\* has waited for its Linux and every earlier native owner is closed.
SessionsDoNotOverlap ==
    \A k \in DOMAIN workers : workers[k].pc # "done" =>
        /\ \A j \in 1..(k - 1) : workers[j].inst = workers[k].inst =>
                workers[j].pc = "done" /\ ~workers[j].linux
        /\ \A g \in 1..(workers[k].runtime - 1) : owners[g].inst = workers[k].inst => owners[g].closed

\* shutdownComplete is set only when the Service may really stop: its worker is
\* done, its owner closed, and no Linux of any instance is left in the process.
CompleteMeansEnded ==
    svc.complete =>
        /\ svc.worker = 0 /\ owners[svc.runtime].closed /\ owners[svc.runtime].native = "none"
        /\ \A k \in DOMAIN workers : ~workers[k].linux

\* A session that runs can be taken up again after the process dies at any
\* moment: what serviceRecreated() would find on disk is a session to charge.
LiveSessionIsRecoverable ==
    svc.worker # 0 /\ ~svc.stopping => disk.wanted /\ disk.state \in {"starting", "ready"}

\* After a delivered Stop no worker is launched until a Start is delivered, whatever
\* timers, owners and late callbacks were under way.
LaunchNeedsRequest == [][Len(workers') > Len(workers) => asked' # "stop"]_vars

\* A shutdown is never begun twice (begin() would throw), and a Service that stops
\* without a shutdown generation is one that retires a dead owner.
GateTracksStopping ==
    svc.inst # 0 =>
        /\ svc.gate.active => svc.stopping
        /\ svc.stopping /\ ~svc.gate.active => owners[svc.runtime].native = "dead"

\* retireDeadOwner() ends the process only when the retry is on disk, so that a
\* recreated Service neither resets the budget nor pays twice, and only when the
\* dead owner is the sole one that is not clean.
RetirementIsCharged ==
    exited = "retired" =>
        /\ disk = svc.intent /\ disk.state \notin {"starting", "ready"}
        /\ \A g \in DOMAIN owners : owners[g].closed <=> g # svc.runtime

\* The process ends by itself only with every native owner's cleanup confirmed and
\* the workers of the last Service instance done.
CleanExitIsClean ==
    exited = "clean" =>
        /\ \A g \in DOMAIN owners : owners[g].closed /\ owners[g].native = "none"
        /\ \A k \in DOMAIN workers : owners[workers[k].runtime].inst = owners[Len(owners)].inst =>
                workers[k].pc = "done" /\ ~workers[k].linux

\* "This old Service cannot kill an intervening new Service generation."
ExitSparesNewInstance == exited = "clean" => svc.inst = 0

\* Every shutdown ends: the Service is complete, restarted or destroyed, or the
\* process is gone.  A killed native owner does not hold it for ever.
ShutdownCompletes ==
    (svc.inst # 0 /\ svc.stopping) ~> (svc.inst = 0 \/ ~svc.stopping \/ svc.complete \/ exited # "no")

\* A delivered Start leads to a session, even when it arrives during a shutdown, or
\* to a spent budget, another request, or the retirement of the process.
StartIsHonoured ==
    (asked = "start") ~>
        (svc.worker # 0 \/ disk.state = "suspended" \/ asked # "start" \/ exited = "retired")

\* A delivered Stop ends the process unless a Start follows.
StopEndsProcess == (asked = "stop") ~> (exited # "no" \/ asked = "start")

\* A retry that is owed is run, whoever owes it: a Start, a failed session or a
\* recreated process; otherwise the suspension is on disk, the user stopped it, the
\* process was retired, or a write was refused (ReopeningHelps is about that).
OwedSessionIsRun ==
    (svc.inst # 0 /\ Permits(svc.intent) /\ svc.intent.state = "retry") ~>
        (svc.worker # 0 \/ ~Permits(disk) \/ asked = "stop" \/ exited = "retired" \/ refusals > 0)

\* saveRecovery() tells the user to open the application again: a Start that is
\* delivered to a Service that stops ends that shutdown.
ReopeningHelps ==
    (svc.stopping /\ Permits(svc.intent)) ~>
        (~svc.stopping \/ ~Permits(svc.intent) \/ exited # "no")

\* "An explicit stop records the intent before cleanup."
StopIsCommittedFirst == asked = "stop" /\ svc.stopping => ~disk.wanted

\* One session at a time, a shutdown that is complete has ended its session, the running
\* session is on disk, a clean exit leaves nothing behind and the process of a dead owner is
\* retired only with its retry committed: the service's handlers and worker together.
SessionsAreSound ==
    /\ TypeOK /\ SessionsDoNotOverlap /\ CompleteMeansEnded
    /\ LiveSessionIsRecoverable /\ CleanExitIsClean /\ RetirementIsCharged

\* What recovery keeps although the intent cannot be written or read in one handler: no
\* overlap, honest completion, a gate that is shut while the service stops, charged retirement.
RecoveryIsSound ==
    SessionsDoNotOverlap /\ CompleteMeansEnded /\ GateTracksStopping /\ RetirementIsCharged

==============================================================================
