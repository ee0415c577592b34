-------------------------- MODULE RuntimeActivations --------------------------
(***************************************************************************)
(* app.foldgpt.RuntimeActivations and PendingConnectorCallback, driven by  *)
(* FoldRuntimeService: short-lived client processes that open a            *)
(* conversation or hand over a connector callback, each on a thread of its *)
(* own, all belonging to one workspace generation.  The main thread, the   *)
(* workspace worker and the activation threads meet at the lifecycle lock: *)
(* an action is one of its critical sections, or a step outside it.        *)
(*                                                                         *)
(* cancel() closes admission; the destroy() and interrupt() it also sends  *)
(* cut a wait short, and a wait here may end at any time.                  *)
(***************************************************************************)
EXTENDS Naturals, Sequences, FiniteSets

CONSTANTS
    Callbacks,          \* connector callbacks
    MaxRequests,        \* bound: Starts with something to open
    MaxGenerations      \* bound: workspace generations

ASSUME ActivationsAssumption ==
    {MaxRequests, MaxGenerations} \subseteq Nat \ {0} /\ Callbacks # {}

None == "none"
Conversation == "conversation"
ASSUME CallbackAssumption == {None, Conversation} \cap Callbacks = {}

VARIABLES
    gen,            \* the workspace generation, and its native owner
    main,           \* the main thread: "free", "interrupting", "destroying", "destroyed"
    phase,          \* "starting", "ready", "down"
    stopping,
    linux,          \* "none", "alive", "exited"
    command,        \* conversationCommand: "null", "posted", "set"
    token,          \* the generation of sessionToken
    posted,         \* the generation whose readiness event is on its way, or 0
    accepting,      \* the generation's RuntimeActivations admits threads
    worker,         \* "prepare", "spawn", "run", "cancelled", "waited", "joining", "closed", "null"
    interrupted,    \* the worker was interrupted
    joining,        \* the threads closeAndJoin() waits for
    threads,        \* every activation thread of this Service
    active,         \* the registered ones
    thread,         \* pendingThread
    connector,      \* PendingConnectorCallback
    requests

generation == <<gen, linux, command, token, accepting, worker, interrupted, joining>>
mainVars == <<main, phase, stopping>>
opening == <<threads, active, thread, connector>>
vars == <<generation, mainVars, posted, opening, requests>>

------------------------------------------------------------------------------
(* PendingConnectorCallback; a digest stands for its callback.  `clients' is a  *)
(* history: the client processes created for the last consumed callback.       *)

NoCallback == [pending |-> None, consumed |-> None, inFlight |-> FALSE, clients |-> 0]

\* Mutant: what was consumed is forgotten.
OfferAgain(c, callback) ==
    IF c.pending # None \/ c.inFlight THEN c ELSE [c EXCEPT !.pending = callback]

\* A duplicate and a busy offer change nothing.
Offer(c, callback) ==
    IF callback \in {c.pending, c.consumed} \/ c.pending # None \/ c.inFlight THEN c
    ELSE [c EXCEPT !.pending = callback]

MayTake(c, ready) == ready /\ ~c.inFlight /\ c.pending # None

Consume(c) ==
    [c EXCEPT !.pending = None, !.consumed = c.pending,
              !.clients = IF c.pending = c.consumed THEN @ ELSE 0]

Take(c) == [Consume(c) EXCEPT !.inFlight = TRUE]

Completed(c) == [c EXCEPT !.inFlight = FALSE]

CancelPending(c) == IF c.pending = None THEN c ELSE Consume(c)

------------------------------------------------------------------------------
(* The main thread. *)

Init ==
    /\ gen = 1 /\ linux = "none" /\ command = "null" /\ token = 0 /\ accepting = TRUE
    /\ worker = "prepare" /\ interrupted = FALSE /\ joining = {}
    /\ main = "free" /\ phase = "starting" /\ stopping = FALSE /\ posted = 0
    /\ threads = <<>> /\ active = {} /\ thread = FALSE /\ connector = NoCallback
    /\ requests = 0

\* accepting && sessionReady, for a thread of generation g.
Admits(g) == accepting /\ g = gen /\ ~stopping /\ linux = "alive"

\* What openPendingConversation() and openPendingConnectorCallback() change.
Opening == [threads |-> threads, active |-> active, thread |-> thread, connector |-> connector]

\* launch(): register a thread and start it.
Launch(w, what) ==
    [w EXCEPT !.threads = Append(@, [gen |-> gen, what |-> what, pc |-> "started", process |-> "none"]),
              !.active = @ \cup {Len(w.threads) + 1}]

OpenPendingConversation(w, ready) ==
    LET u == [w EXCEPT !.thread = FALSE]
    IN  IF ~ready \/ ~w.thread THEN w
        ELSE IF Admits(gen) THEN Launch(u, Conversation) ELSE u

OpenPendingConnectorCallback(w, ready) ==
    LET u == [w EXCEPT !.connector = Take(@)]
    IN  IF ~MayTake(w.connector, ready) THEN w
        ELSE IF Admits(gen) THEN Launch(u, w.connector.pending)
        ELSE [u EXCEPT !.connector = Completed(@)]

OpenPending(w, p) ==
    LET ready == p = "ready" /\ ~stopping /\ command = "set" /\ worker \notin {"closed", "null"}
        u == OpenPendingConnectorCallback(OpenPendingConversation(w, ready), ready)
    IN  /\ threads' = u.threads /\ active' = u.active
        /\ thread' = u.thread /\ connector' = u.connector

\* A Start with a conversation or a connector callback to open.
Request(what) ==
    /\ main = "free" /\ requests < MaxRequests /\ requests' = requests + 1
    /\ OpenPending(IF what = Conversation THEN [Opening EXCEPT !.thread = TRUE]
                   ELSE [Opening EXCEPT !.connector = Offer(@, what)], phase)
    /\ UNCHANGED <<generation, mainVars, posted>>

\* The worker's post of the command line.
CommandSet ==
    /\ main = "free" /\ command = "posted" /\ command' = "set"
    /\ UNCHANGED <<gen, linux, token, accepting, worker, interrupted, joining, mainVars, posted,
                   opening, requests>>

\* The observer sees the marker file of the session; its post may be late.
ReadyObserved ==
    /\ worker = "run" /\ linux = "alive" /\ posted = 0 /\ phase # "ready"
    /\ posted' = gen
    /\ UNCHANGED <<generation, mainVars, opening, requests>>

ReadyHandled ==
    /\ main = "free" /\ posted # 0 /\ (posted = gen => command # "posted")
    /\ posted' = 0
    /\ IF ~stopping /\ token = posted
       THEN phase' = "ready" /\ OpenPending(Opening, "ready")
       ELSE UNCHANGED <<phase, opening>>
    /\ UNCHANGED <<generation, main, stopping, requests>>

\* requestStop(), and beginShutdown() for a refused write, which drops no callback
\* and interrupts nobody.
Shutdown(stop) ==
    /\ main = "free" /\ ~stopping /\ stopping' = TRUE /\ phase' = "down"
    /\ main' = "interrupting"
    /\ connector' = IF stop THEN CancelPending(connector) ELSE connector
    /\ interrupted' = (interrupted \/ stop)
    /\ UNCHANGED <<gen, linux, command, token, accepting, worker, joining, posted, threads, active,
                   thread, requests>>

\* A second Stop.
StopAgain ==
    /\ main = "free" /\ stopping
    /\ connector' = CancelPending(connector) /\ interrupted' = (worker # "null")
    /\ UNCHANGED <<gen, linux, command, token, accepting, worker, joining, mainVars, posted, threads,
                   active, thread, requests>>

\* interruptActivations(), the last critical section of beginShutdown().
InterruptActivations ==
    /\ main = "interrupting" /\ main' = "free"
    /\ accepting' = FALSE
    /\ UNCHANGED <<gen, linux, command, token, worker, interrupted, joining, phase, stopping, posted,
                   opening, requests>>

\* onDestroy() interrupts the activations first.
Destroy ==
    /\ main = "free" /\ main' = "destroying"
    /\ connector' = CancelPending(connector) /\ accepting' = FALSE
    /\ UNCHANGED <<gen, linux, command, token, worker, interrupted, joining, phase, stopping, posted,
                   threads, active, thread, requests>>

Destroyed ==
    /\ main = "destroying" /\ main' = "destroyed"
    /\ phase' = "down" /\ stopping' = TRUE /\ interrupted' = TRUE
    /\ UNCHANGED <<gen, linux, command, token, accepting, worker, joining, posted, opening,
                   requests>>

\* The worker's last post: recoverWorkspace() unless a shutdown is under way.
WorkerEnded ==
    /\ main = "free" /\ worker = "closed" /\ command # "posted"
    /\ worker' = "null"
    /\ connector' = IF stopping THEN connector ELSE CancelPending(connector)
    /\ stopping' = TRUE /\ phase' = "down"
    /\ UNCHANGED <<gen, linux, command, token, accepting, interrupted, joining, main, posted, threads,
                   active, thread, requests>>

\* The RESTART arm: a new native owner, with the launch still to come.
Restart ==
    /\ main = "free" /\ worker = "null" /\ stopping /\ gen < MaxGenerations
    /\ gen' = gen + 1 /\ stopping' = FALSE
    /\ UNCHANGED <<linux, command, token, accepting, worker, interrupted, joining, main, phase, posted,
                   opening, requests>>

LaunchWorkspace ==
    /\ main = "free" /\ worker = "null" /\ ~stopping
    /\ worker' = "prepare" /\ linux' = "none" /\ command' = "null" /\ phase' = "starting"
    /\ accepting' = TRUE /\ interrupted' = FALSE
    /\ UNCHANGED <<gen, token, joining, main, stopping, posted, opening, requests>>

MainStep ==
    \/ \E what \in Callbacks \cup {Conversation} : Request(what)
    \/ \E stop \in BOOLEAN : Shutdown(stop)
    \/ CommandSet \/ ReadyHandled \/ StopAgain \/ InterruptActivations \/ Destroy \/ Destroyed
    \/ WorkerEnded \/ Restart \/ LaunchWorkspace

------------------------------------------------------------------------------
(* The workspace worker, startWorkspace(). *)

WorkerUnchanged == UNCHANGED <<gen, interrupted, mainVars, posted, opening, requests>>

\* Preparation: a new session token, the observers, the posted command line.
WorkerPrepares ==
    /\ worker = "prepare" /\ worker' = "spawn"
    /\ token' = gen /\ command' = "posted"
    /\ WorkerUnchanged /\ UNCHANGED <<linux, accepting, joining>>

WorkerSpawns ==
    /\ worker = "spawn" /\ ~stopping
    /\ worker' = "run" /\ linux' = "alive"
    /\ WorkerUnchanged /\ UNCHANGED <<command, token, accepting, joining>>

\* Into the finally block: a failure before the window, an interrupt, a stop met
\* before the spawn, or the end of Linux.  cancel() comes first.
WorkerCancels ==
    /\ worker \in {"prepare", "spawn", "run"}
    /\ (worker = "run" /\ phase = "ready") => (interrupted \/ linux = "exited")
    /\ worker' = "cancelled" /\ accepting' = FALSE
    /\ WorkerUnchanged /\ UNCHANGED <<linux, command, token, joining>>

\* stopLinux(): returns with the process waited for.
WorkerWaits ==
    /\ worker = "cancelled" /\ worker' = "waited"
    /\ linux' = IF linux = "alive" THEN "exited" ELSE linux
    /\ WorkerUnchanged /\ UNCHANGED <<command, token, accepting, joining>>

\* closeAndJoin().
WorkerLists ==
    /\ worker = "waited" /\ worker' = "joining"
    /\ accepting' = FALSE /\ joining' = active
    /\ WorkerUnchanged /\ UNCHANGED <<linux, command, token>>

\* Mutant: the join has a deadline.
WorkerJoinsForAWhile ==
    /\ worker = "joining" /\ worker' = "closed" /\ joining' = {}
    /\ WorkerUnchanged /\ UNCHANGED <<linux, command, token, accepting>>

\* Every listed thread has ended: workspaceClosed is completed.
WorkerJoins ==
    /\ worker = "joining" /\ \A t \in joining : threads[t].pc = "ended"
    /\ worker' = "closed" /\ joining' = {}
    /\ WorkerUnchanged /\ UNCHANGED <<linux, command, token, accepting>>

WorkerStep ==
    WorkerPrepares \/ WorkerSpawns \/ WorkerCancels \/ WorkerWaits \/ WorkerLists \/ WorkerJoins

LinuxExits ==
    /\ linux = "alive" /\ linux' = "exited"
    /\ UNCHANGED <<gen, command, token, accepting, worker, interrupted, joining, mainVars, posted,
                   opening, requests>>

------------------------------------------------------------------------------
(* An activation thread, Activation.run(). *)

ThreadUnchanged == UNCHANGED <<generation, mainVars, posted, thread, requests>>

ThreadBecomes(t, pc, process) ==
    threads' = [threads EXCEPT ![t].pc = pc, ![t].process = process]

Created(t) ==
    /\ ThreadBecomes(t, "waiting", "alive")
    /\ connector' = IF threads[t].what \in Callbacks THEN [connector EXCEPT !.clients = @ + 1] ELSE connector

\* Mutant: admission was checked by launch().
ThreadStartsUnchecked(t) ==
    /\ threads[t].pc = "started" /\ Created(t)
    /\ ThreadUnchanged /\ UNCHANGED active

\* Under the lock: cancelled, not created, or created.
ThreadStarts(t) ==
    /\ threads[t].pc = "started"
    /\ \/ ThreadBecomes(t, "stopping", "none") /\ UNCHANGED connector
       \/ Admits(threads[t].gen) /\ Created(t)
    /\ ThreadUnchanged /\ UNCHANGED active

\* The client process ends by itself or by a signal.
ProcessExits(t) ==
    /\ threads[t].process = "alive"
    /\ ThreadBecomes(t, threads[t].pc, "exited")
    /\ ThreadUnchanged /\ UNCHANGED <<active, connector>>

\* waitFor(15 s): exited, timed out or interrupted.
ThreadWaits(t) ==
    /\ threads[t].pc = "waiting"
    /\ ThreadBecomes(t, "stopping", threads[t].process)
    /\ ThreadUnchanged /\ UNCHANGED <<active, connector>>

\* Mutant: the process is waited for without being destroyed.
ThreadStopsPatiently(t) ==
    /\ threads[t].pc = "stopping" /\ threads[t].process # "alive"
    /\ ThreadBecomes(t, "completing", threads[t].process)
    /\ ThreadUnchanged /\ UNCHANGED <<active, connector>>

\* stopAndWait(): returns with the process waited for.
ThreadStops(t) ==
    /\ threads[t].pc = "stopping"
    /\ ThreadBecomes(t, "completing", IF threads[t].process = "alive" THEN "exited" ELSE threads[t].process)
    /\ ThreadUnchanged /\ UNCHANGED <<active, connector>>

\* Mutant: a handoff whose client was never created is not completed.
ThreadCompletesCreated(t) ==
    /\ threads[t].pc = "completing"
    /\ ThreadBecomes(t, "leaving", threads[t].process)
    /\ connector' = IF threads[t].what \in Callbacks /\ threads[t].process # "none"
                    THEN Completed(connector) ELSE connector
    /\ ThreadUnchanged /\ UNCHANGED active

ThreadCompletes(t) ==
    /\ threads[t].pc = "completing"
    /\ ThreadBecomes(t, "leaving", threads[t].process)
    /\ connector' = IF threads[t].what \in Callbacks THEN Completed(connector) ELSE connector
    /\ ThreadUnchanged /\ UNCHANGED active

\* The thread is over, and nothing else about it matters.
Ended(g) == [gen |-> g, what |-> None, pc |-> "ended", process |-> "exited"]

\* Mutant: the thread stays registered.
ThreadLeavesRegistered(t) ==
    /\ threads[t].pc = "leaving"
    /\ threads' = [threads EXCEPT ![t] = Ended(threads[t].gen)]
    /\ ThreadUnchanged /\ UNCHANGED <<active, connector>>

\* Leaves the set, under the lock, and ends.
ThreadLeaves(t) ==
    /\ threads[t].pc = "leaving"
    /\ threads' = [threads EXCEPT ![t] = Ended(threads[t].gen)]
    /\ active' = active \ {t}
    /\ ThreadUnchanged /\ UNCHANGED connector

ThreadStep(t) ==
    ThreadStarts(t) \/ ThreadWaits(t) \/ ThreadStops(t) \/ ThreadCompletes(t) \/ ThreadLeaves(t)

Next ==
    \/ MainStep \/ WorkerStep \/ LinuxExits \/ ReadyObserved
    \/ \E t \in DOMAIN threads : ThreadStep(t) \/ ProcessExits(t)

Spec == Init /\ [][Next]_vars

\* Threads run: an activation thread's waits are bounded, and so is the worker's
\* finally block.
FairSpec ==
    /\ Spec
    /\ WF_vars(WorkerWaits \/ WorkerLists \/ WorkerJoins)
    /\ WF_vars(\E t \in DOMAIN threads : ThreadStep(t))

------------------------------------------------------------------------------

\* The fields hold what their declarations allow, and a registered thread runs.
TypeOK ==
    /\ gen \in 1..MaxGenerations /\ phase \in {"starting", "ready", "down"}
    /\ main \in {"free", "interrupting", "destroying", "destroyed"}
    /\ {stopping, accepting, thread, interrupted} \subseteq BOOLEAN
    /\ linux \in {"none", "alive", "exited"} /\ command \in {"null", "posted", "set"}
    /\ worker \in {"prepare", "spawn", "run", "cancelled", "waited", "joining", "closed", "null"}
    /\ {token, posted} \subseteq 0..MaxGenerations
    /\ joining \subseteq DOMAIN threads
    /\ connector \in [pending: Callbacks \cup {None}, consumed: Callbacks \cup {None}, inFlight: BOOLEAN,
                     clients: Nat]
    /\ active = {t \in DOMAIN threads : threads[t].pc # "ended"}

\* "Joining requires real process exits": once workspaceClosed is complete, no
\* activation of that or of an earlier generation is left, nor a process of one.
ClosedIsQuiet ==
    \A t \in DOMAIN threads : threads[t].gen < gen \/ worker \in {"closed", "null"} =>
        threads[t].pc = "ended" /\ threads[t].process # "alive"

\* "A closed generation never admits a delayed runnable, even after a new session
\* starts": a client is created only for the running Linux of its own generation,
\* before the worker's cancellation and before a shutdown or destruction.
NothingStartsLate ==
    [][\A t \in DOMAIN threads : threads[t].process = "none" /\ threads'[t].process = "alive" =>
        threads[t].gen = gen /\ worker = "run" /\ main = "free" /\ ~stopping]_vars

\* inFlight stands for exactly one connector thread, so that the completion of one
\* handoff never admits a second beside another.
InFlightIsOne ==
    LET flying == {t \in DOMAIN threads : threads[t].what \in Callbacks
                                          /\ threads[t].pc \notin {"leaving", "ended"}}
    IN  Cardinality(flying) = (IF connector.inFlight THEN 1 ELSE 0)

\* However often the same callback is delivered, and however its handoff ended, it is
\* given to one client at most: offer() refuses the last consumed digest, and no
\* failure puts the callback back.
HandedOnce == connector.clients <= 1

\* A handoff ends whatever becomes of its client, so that later callbacks are not
\* BUSY for ever.
HandoffEnds == connector.inFlight ~> ~connector.inFlight

\* The worker gets from cancel() to workspaceClosed: no activation holds it up.
CloseCompletes == (worker = "cancelled") ~> (worker = "closed")

\* A closed generation is quiet, one callback is in flight at a time and none is handed to
\* two clients, in every interleaving of the worker, the main thread and the activations.
HandoffIsSound == TypeOK /\ ClosedIsQuiet /\ InFlightIsOne /\ HandedOnce

==============================================================================
