----------------------------- MODULE ExecServer -----------------------------
(***************************************************************************)
(* One connection of exec_server.py: ExecServer behind serve_stdio().      *)
(*                                                                         *)
(* The receive loop dispatches frames; every admitted request is a task of *)
(* its own; one writer drains a bounded queue into a pipe that the peer    *)
(* may stop reading.  The backend is external: a call may start native     *)
(* work that outlives it, and only the backend's close() ends that work.   *)
(***************************************************************************)
EXTENDS Naturals, Sequences, FiniteSets

(* The request contract: which methods exist, which fields each takes, which
   capability a backend must declare for a field.  The params of a request are
   a function from field names to the verdict of the field's own check: "ok",
   "null" or "bad" (a wrong type, a URI that is not an absolute file URI, base64
   that is not canonical, an integer outside 64 bits, a signal other than
   interrupt).  A flag that is false is left out of the function. *)

PROCESS_METHODS == {"process/start", "process/read", "process/write", "process/signal",
                    "process/terminate"}
FILE_METHODS == {"fs/readFile", "fs/open", "fs/readBlock", "fs/close", "fs/writeFile",
                 "fs/createDirectory", "fs/getMetadata", "fs/canonicalize",
                 "fs/readDirectory", "fs/walk", "fs/remove", "fs/copy"}
BACKEND_METHODS == PROCESS_METHODS \cup FILE_METHODS \cup
                   {"capabilityRoots/discoverV1", "environmentConfig/read", "http/request"}
CONTROL_METHODS == {"environment/info", "environment/status", "process/signal",
                    "process/terminate", "fs/close"}

\* The capabilities a backend may declare and the methods each one needs.
requirements ==
    [networkProxyLaunch |-> {"process/start"},
     capabilityDiscoverySandbox |-> {"capabilityRoots/discoverV1"},
     environmentConfigRead |-> {"environmentConfig/read"},
     httpHeaderEnvVars |-> {"http/request"},
     sandboxedFileStreaming |-> {"fs/open", "fs/readBlock", "fs/close"},
     shellSnapshotV2 |-> {"process/start"}]

\* What ExecServer.__init__ accepts of a backend.
Declarable(methods, features) ==
    /\ methods \subseteq BACKEND_METHODS
    /\ features \subseteq DOMAIN requirements
    /\ \A f \in features : requirements[f] \subseteq methods

F(required, optional) == [required |-> required, optional |-> optional]

schemas == [m \in PROCESS_METHODS \cup FILE_METHODS \cup {"capabilityRoots/discoverV1"} |->
    CASE m = "process/start" ->
            F({"processId", "argv", "cwd", "env", "tty"},
              {"envPolicy", "shellSnapshot", "pipeStdin", "arg0", "sandbox",
               "enforceManagedNetwork", "managedNetwork", "networkProxy"})
      [] m = "process/read" -> F({"processId"}, {"afterSeq", "maxBytes", "waitMs"})
      [] m = "process/write" -> F({"processId", "chunk", "writeId"}, {})
      [] m = "process/signal" -> F({"processId", "signal"}, {})
      [] m = "process/terminate" -> F({"processId"}, {})
      [] m = "fs/readFile" -> F({"path"}, {"sandbox", "followSymlinks"})
      [] m = "fs/open" -> F({"path", "handleId"}, {"sandbox"})
      [] m = "fs/readBlock" -> F({"handleId", "offset", "len"}, {})
      [] m = "fs/close" -> F({"handleId"}, {})
      [] m = "fs/writeFile" -> F({"path", "dataBase64"}, {"sandbox", "followSymlinks"})
      [] m = "fs/createDirectory" -> F({"path"}, {"sandbox", "recursive", "followSymlinks"})
      [] m = "fs/getMetadata" -> F({"path"}, {"sandbox", "followSymlinks"})
      [] m \in {"fs/canonicalize", "fs/readDirectory"} -> F({"path"}, {"sandbox"})
      [] m = "fs/walk" -> F({"path", "options"}, {"sandbox"})
      [] m = "fs/remove" -> F({"path"}, {"sandbox", "recursive", "force", "followSymlinks"})
      [] m = "fs/copy" -> F({"sourcePath", "destinationPath", "recursive"}, {"sandbox"})
      [] m = "capabilityRoots/discoverV1" -> F({"roots"}, {})]

\* Unknown fields are refused, not dropped; a null optional field counts as absent
\* except where null would hide what the caller meant.
validate_operation(m, params) ==
    m \in DOMAIN schemas =>
        /\ schemas[m].required \subseteq DOMAIN params
        /\ DOMAIN params \subseteq schemas[m].required \cup schemas[m].optional
        /\ \A k \in DOMAIN params :
               \/ params[k] = "ok"
               \/ /\ params[k] = "null" /\ k \in schemas[m].optional
                  /\ k \notin {"pipeStdin", "enforceManagedNetwork"}

Given(params, k) == k \in DOMAIN params /\ params[k] # "null"

\* The tests of request() between validation and the backend.
Supported(m, params, methods, features) ==
    /\ m \in methods
    /\ m = "process/start" =>
           /\ Given(params, "networkProxy") => "networkProxyLaunch" \in features
           /\ Given(params, "shellSnapshot") => "shellSnapshotV2" \in features
           /\ Given(params, "enforceManagedNetwork") => Given(params, "managedNetwork")
    /\ m = "fs/open" /\ Given(params, "sandbox") => "sandboxedFileStreaming" \in features

-----------------------------------------------------------------------------

CONSTANTS
    Ids,            \* request ids
    Requests,       \* the requests a client may send: method and params
    BackendMethods, \* what the backend declares
    BackendFeatures,
    MaxInFlight,    \* max_in_flight, of ordinary and of control requests each
    OutCapacity,    \* size of the outgoing queue
    MaxFrames       \* bound on the frames of one behaviour

VARIABLES
    conn,       \* the fields of the ExecServer and the state of its receive loop
    task,       \* what each id is doing: the pending dictionary
    pipe,       \* outgoing queue, whether it has failed
    native      \* does the backend own live work of this session?

serverVars == <<conn, task, pipe, native>>

Idle == [at |-> "free", control |-> FALSE]

ServerInit ==
    /\ conn = [loop |-> "reading", session |-> FALSE, ready |-> FALSE, closed |-> FALSE,
               cancelled |-> FALSE, ordinary |-> 0, control |-> 0, frames |-> 0]
    /\ task = [i \in Ids |-> Idle]
    /\ pipe = [out |-> <<>>, failed |-> FALSE, asked |-> [i \in Ids |-> 0],
               answered |-> [i \in Ids |-> 0]]
    /\ native = FALSE

Pending == {i \in Ids : task[i].at # "free"}
Slots(control) == IF control THEN conn.control ELSE conn.ordinary

\* emit(): never waits.  A full queue, or one that failed before, fails the channel.
Emittable == ~pipe.failed /\ Len(pipe.out) < OutCapacity
Queued(p, i) == [p EXCEPT !.out = Append(@, i), !.answered[i] = @ + 1]
Emit(i) == pipe' = IF Emittable THEN Queued(pipe, i) ELSE [pipe EXCEPT !.failed = TRUE]

Leave == conn' = [conn EXCEPT !.loop = "closing"]
Counted == [conn EXCEPT !.frames = @ + 1]
Asked(i) == [pipe EXCEPT !.asked[i] = @ + 1]

Reading == conn.loop = "reading" /\ ~pipe.failed /\ conn.frames < MaxFrames

\* What request() answers by itself; anything else is a call of the backend.
ReachesBackend(r) ==
    /\ conn.session /\ conn.ready
    /\ r.method \in BACKEND_METHODS
    /\ validate_operation(r.method, r.params)
    /\ Supported(r.method, r.params, BackendMethods, BackendFeatures)

\* A response emitted by the receive loop itself: when it cannot be queued the loop ends.
Inline(i, c) ==
    LET p == Asked(i)
    IN  IF Emittable THEN pipe' = Queued(p, i) /\ conn' = c
                     ELSE pipe' = [p EXCEPT !.failed = TRUE] /\ conn' = [c EXCEPT !.loop = "closing"]

\* initialize, in order with the other frames: a valid first one opens the session, any
\* other (bad params, a session to resume, a second initialize) is answered by an error.
Initialize(i, valid) ==
    /\ Reading /\ i \notin Pending
    /\ Inline(i, [Counted EXCEPT !.session = @ \/ valid])
    /\ UNCHANGED <<task, native>>

\* The only notification a client may send, and only after initialize.
Initialized ==
    /\ Reading
    /\ IF conn.session THEN conn' = [Counted EXCEPT !.ready = TRUE]
                       ELSE conn' = [Counted EXCEPT !.loop = "closing"]
    /\ UNCHANGED <<task, pipe, native>>

\* A response, another notification, an oversized frame, or an id that is in flight.
Violates ==
    /\ Reading
    /\ conn' = [Counted EXCEPT !.loop = "closing"]
    /\ UNCHANGED <<task, pipe, native>>

\* decode_message() refuses the line: answered with the id -1, which no request has.
Malformed ==
    /\ Reading
    /\ IF Emittable THEN pipe' = [pipe EXCEPT !.out = Append(@, "malformed")] /\ conn' = Counted
                    ELSE /\ pipe' = [pipe EXCEPT !.failed = TRUE]
                         /\ conn' = [Counted EXCEPT !.loop = "closing"]
    /\ UNCHANGED <<task, native>>

\* accept() of a request: inline before the handshake ends, refused when its class of
\* requests is at capacity, and a task of its own otherwise.
Accept(i, r) ==
    /\ Reading /\ i \notin Pending
    /\ LET control == r.method \in CONTROL_METHODS
       IN  \/ /\ ~conn.ready \/ Slots(control) >= MaxInFlight
              /\ Inline(i, Counted)
              /\ UNCHANGED <<task, native>>
           \/ /\ conn.ready /\ Slots(control) < MaxInFlight
              /\ conn' = [Counted EXCEPT !.control = IF control THEN @ + 1 ELSE @,
                                         !.ordinary = IF control THEN @ ELSE @ + 1]
              /\ task' = [task EXCEPT ![i] = [at |-> IF ReachesBackend(r) THEN "called" ELSE "answer",
                                              control |-> control]]
              /\ pipe' = Asked(i)
              /\ UNCHANGED native

\* The task enters backend.handle(): native work may exist from here on.
Handle(i) ==
    /\ task[i].at = "called"
    /\ task' = [task EXCEPT ![i].at = "answer"]
    /\ native' \in {native, TRUE}
    /\ UNCHANGED <<conn, pipe>>

Freed(i) ==
    [conn EXCEPT !.control = IF task[i].control THEN @ - 1 ELSE @,
                 !.ordinary = IF task[i].control THEN @ ELSE @ - 1]

\* finish(): a result or an error, then the id and its slot are given back, also when
\* the response cannot be queued.
Finish(i) ==
    /\ task[i].at = "answer"
    /\ Emit(i)
    /\ conn' = Freed(i)
    /\ task' = [task EXCEPT ![i] = Idle]
    /\ UNCHANGED native

\* Mutant: cancellation forgets the request and keeps its slot.
UnwindKeepingSlot(i) ==
    /\ task[i].at = "cancelled"
    /\ task' = [task EXCEPT ![i] = Idle]
    /\ UNCHANGED <<conn, pipe, native>>

\* A cancelled task answers nothing and gives its slot back.
Unwind(i) ==
    /\ task[i].at = "cancelled"
    /\ conn' = Freed(i)
    /\ task' = [task EXCEPT ![i] = Idle]
    /\ UNCHANGED <<pipe, native>>

\* notify(): refused when the connection is closed.
ServerNotify ==
    /\ native /\ conn.ready /\ ~conn.closed
    /\ pipe' = IF Emittable THEN [pipe EXCEPT !.out = Append(@, "note")]
                            ELSE [pipe EXCEPT !.failed = TRUE]
    /\ UNCHANGED <<conn, task, native>>

\* write_responses(): the peer reads a response, or the pipe breaks.
WriteResponse ==
    /\ conn.loop # "done" /\ ~pipe.failed /\ pipe.out # <<>>
    /\ pipe' = [pipe EXCEPT !.out = Tail(@)]
    /\ UNCHANGED <<conn, task, native>>
WriteFails ==
    /\ conn.loop # "done" /\ ~pipe.failed /\ pipe.out # <<>>
    /\ pipe' = [pipe EXCEPT !.failed = TRUE]
    /\ UNCHANGED <<conn, task, native>>

\* The loop ends: end of file, a failed output channel, or its task is cancelled.
EndOfFile == conn.loop = "reading" /\ Leave /\ UNCHANGED <<task, pipe, native>>
Disconnected == conn.loop = "reading" /\ pipe.failed /\ Leave /\ UNCHANGED <<task, pipe, native>>
ServingCancelled ==
    /\ conn.loop = "reading"
    /\ conn' = [conn EXCEPT !.loop = "closing", !.cancelled = TRUE]
    /\ UNCHANGED <<task, pipe, native>>

\* ExecServer.close(): every pending task is cancelled, and waited for.
ServerClose ==
    /\ conn.loop = "closing"
    /\ conn' = [conn EXCEPT !.loop = "gathering", !.closed = TRUE]
    /\ task' = [i \in Ids |-> IF i \in Pending THEN [task[i] EXCEPT !.at = "cancelled"] ELSE task[i]]
    /\ UNCHANGED <<pipe, native>>

\* Then the backend reaps the native work of the session.
BackendClose ==
    /\ conn.loop = "gathering" /\ Pending = {}
    /\ native' = FALSE
    /\ conn' = [conn EXCEPT !.loop = IF pipe.failed \/ conn.cancelled THEN "stopping" ELSE "draining"]
    /\ UNCHANGED <<task, pipe>>

\* Mutant: the grace has no end, and a peer that does not read keeps the connection.
DrainedByPeer ==
    /\ conn.loop = "draining" /\ pipe.out = <<>>
    /\ conn' = [conn EXCEPT !.loop = "stopping"]
    /\ UNCHANGED <<task, pipe, native>>

\* What is queued is written for a grace of two seconds at most.
Drained ==
    /\ conn.loop = "draining"
    /\ conn' = [conn EXCEPT !.loop = "stopping"]
    /\ UNCHANGED <<task, pipe, native>>
WriterStops ==
    /\ conn.loop = "stopping"
    /\ conn' = [conn EXCEPT !.loop = "done"]
    /\ UNCHANGED <<task, pipe, native>>

ServerRest == conn.loop = "done" /\ UNCHANGED serverVars

ServerNext ==
    \/ \E i \in Ids : \/ Handle(i) \/ Finish(i) \/ Unwind(i)
                      \/ \E valid \in BOOLEAN : Initialize(i, valid)
                      \/ \E r \in Requests : Accept(i, r)
    \/ Initialized \/ Violates \/ Malformed
    \/ ServerNotify \/ WriteResponse \/ WriteFails
    \/ EndOfFile \/ Disconnected \/ ServingCancelled
    \/ ServerClose \/ BackendClose \/ Drained \/ WriterStops \/ ServerRest

\* The event loop runs what can run and timers fire; nothing makes the peer read, send
\* or close, and nothing makes the backend answer a call.
ServerProgress ==
    \/ \E i \in Ids : Unwind(i)
    \/ Disconnected \/ ServerClose \/ BackendClose \/ Drained \/ WriterStops

------------------------------------------------------------------------------

\* The in-flight counters are exactly the pending requests of each class: no answer,
\* failure or cancellation leaks a slot, and neither class can use up the other's.
SlotsAreReturned ==
    /\ conn.ordinary = Cardinality({i \in Pending : ~task[i].control})
    /\ conn.control = Cardinality({i \in Pending : task[i].control})
    /\ conn.ordinary <= MaxInFlight /\ conn.control <= MaxInFlight

\* An id is answered once per request that used it; while the channel works the only
\* unanswered requests are the pending ones.
AnsweredOnce ==
    \A i \in Ids :
        /\ pipe.answered[i] <= pipe.asked[i]
        /\ pipe.asked[i] - pipe.answered[i] <= 1 \/ pipe.failed
        /\ ~pipe.failed /\ ~conn.closed =>
               (pipe.asked[i] # pipe.answered[i] <=> i \in Pending)

\* Native work is reaped before the output drains: a peer that does not read cannot
\* keep a worker or the workspace lease alive through the grace period, and no request
\* can start work behind the backend's close.
CleanBeforeDrain ==
    conn.loop \in {"draining", "stopping", "done"} => ~native /\ Pending = {}

\* Cleanup is owed to a connection whose output failed or whose loop has ended, whatever
\* the peer does with its ends of the pipes.
CleanupOwed ==
    /\ pipe.failed \/ conn.loop # "reading"
    /\ conn.loop # "done"
=============================================================================
