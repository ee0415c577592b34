---------------------------- MODULE ProcessStdin ----------------------------
(***************************************************************************)
(* Standard input of a process: process/write of native_processes.py and   *)
(* tty_processes.py, write() of the host backends, the writer task behind  *)
(* them, and the command exchange of a terminal.                           *)
(*                                                                         *)
(* Requests run concurrently.  Each turn of the loop of _write() between   *)
(* two awaits is one action; a request that finds no room waits for        *)
(* write_changed, which every action that changes what it waits for sets.  *)
(* A chunk stands for its writeId; sizes are counted in chunks.            *)
(***************************************************************************)
EXTENDS Naturals, Sequences, FiniteSets

CONSTANTS
    Writes,         \* the requests of clients
    WriteIdOf,      \* the writeId of each: two requests with one id are a retry
    StdinCapacity,  \* chunks the queue admits
    RetainedIds,    \* RETAINED_WRITE_IDS
    MaxCommands     \* bound on the terminal commands of one behaviour

VARIABLES
    owner,          \* the backend of the process, its pipeStdin flag and state
    asking,         \* the answer to each request, "none" and "waiting" before it
    stdin,          \* the queue, the pipe, the accepted ids, and how stdin ended
    command         \* the command socket of a terminal

stdinVars == <<owner, asking, stdin, command>>

Owners == {"pipe", "tty", "host", "hostpty"}
Hosted == owner.kind \in {"host", "hostpty"}
Eof == "eof"
NoCommand == 0

StdinAt(kind, piped) ==
    /\ owner = [kind |-> kind, piped |-> piped, state |-> "starting"]
    /\ asking = [w \in Writes |-> "none"]
    /\ stdin = [queue |-> <<>>, pipe |-> <<>>, accepted |-> <<>>, forgotten |-> {},
                eof |-> FALSE, closed |-> FALSE, term |-> FALSE]
    /\ command = [id |-> 0, lock |-> NoCommand, sent |-> <<>>, acks |-> <<>>, taken |-> {}]

StdinInit == \/ \E kind \in Owners : StdinAt(kind, TRUE)
             \/ StdinAt("pipe", FALSE)

Answer(w, status) == asking' = [asking EXCEPT ![w] = status]
Known(w) == \E i \in DOMAIN stdin.accepted : stdin.accepted[i] = WriteIdOf[w]
Refusing == stdin.closed \/ stdin.term
Room == Len(stdin.queue) < StdinCapacity

\* Mutant: the bytes are queued and the id is not remembered.
AcceptedUnremembered(w) == [stdin EXCEPT !.queue = Append(@, WriteIdOf[w])]

\* The bytes and the id are committed together; the oldest id may be forgotten.
Accepted(w) ==
    LET ids == Append(stdin.accepted, WriteIdOf[w])
        old == IF Len(ids) > RetainedIds THEN 1 ELSE 0
    IN  [stdin EXCEPT !.queue = Append(@, WriteIdOf[w]),
                      !.accepted = SubSeq(ids, old + 1, Len(ids)),
                      !.forgotten = IF old = 1 THEN @ \cup {Head(ids)} ELSE @]

\* One turn of the loop: a remembered id is accepted again without its bytes.
Turn(w) ==
    \/ Known(w) /\ Answer(w, "accepted") /\ UNCHANGED stdin
    \/ ~Known(w) /\ Refusing /\ Answer(w, "failed") /\ UNCHANGED stdin
    \/ ~Known(w) /\ ~Refusing /\ Room /\ Answer(w, "accepted") /\ stdin' = Accepted(w)
    \/ /\ ~Known(w) /\ ~Refusing /\ ~Room /\ asking[w] = "none"
       /\ Answer(w, "waiting") /\ UNCHANGED stdin

\* What _write() answers before its loop.
Early(w) ==
    \/ owner.state = "gone" /\ Answer(w, "unknownProcess")
    \/ owner.state = "starting" /\ Answer(w, "starting")
    \/ owner.state = "running" /\ ~owner.piped /\ Answer(w, "stdinClosed")

Write(w) ==
    /\ owner.kind = "pipe"
    /\ \/ asking[w] = "none" /\ Early(w) /\ UNCHANGED stdin
       \/ asking[w] = "none" /\ owner.state = "running" /\ owner.piped /\ Turn(w)
       \/ asking[w] = "waiting" /\ Turn(w)
    /\ UNCHANGED <<owner, command>>

\* The terminal backend repeats the loop without the pipeStdin test.
TtyWrite(w) ==
    /\ owner.kind = "tty"
    /\ \/ asking[w] = "none" /\ Early(w) /\ UNCHANGED stdin
       \/ asking[w] = "none" /\ owner.state = "running" /\ Turn(w)
       \/ asking[w] = "waiting" /\ Turn(w)
    /\ UNCHANGED <<owner, command>>

\* write() of a host backend: no ids, and a chunk or none with the end of file.
HostTurn(w, chunk, last) ==
    /\ asking[w] \in {"none", "waiting"}
    /\ \/ /\ (asking[w] = "none" /\ owner.state = "gone") \/ stdin.eof \/ Refusing
          /\ Answer(w, "failed") /\ UNCHANGED stdin
       \/ /\ owner.state # "gone" /\ ~stdin.eof /\ ~Refusing /\ Room
          /\ Answer(w, "accepted")
          /\ stdin' = [stdin EXCEPT !.queue = @ \o chunk \o (IF last THEN <<Eof>> ELSE <<>>),
                                    !.eof = last]
       \/ /\ owner.state # "gone" /\ ~stdin.eof /\ ~Refusing /\ ~Room /\ asking[w] = "none"
          /\ Answer(w, "waiting") /\ UNCHANGED stdin
    /\ UNCHANGED <<owner, command>>

HostWrite(w) ==
    /\ owner.kind = "host"
    /\ \E last \in BOOLEAN, chunk \in {<<>>, <<WriteIdOf[w]>>} : HostTurn(w, chunk, last)

HostPtyWrite(w) ==
    /\ owner.kind = "hostpty"
    /\ \E last \in BOOLEAN, chunk \in {<<>>, <<WriteIdOf[w]>>} : HostTurn(w, chunk, last)

\* A caller cancelled while it waits has committed nothing.
WriteCancelled(w) ==
    /\ asking[w] = "waiting"
    /\ Answer(w, "cancelled")
    /\ UNCHANGED <<owner, stdin, command>>

\* The head leaves the queue once the pipe has taken it whole; a chunk that was being
\* written at a termination counts as written before it.
HeadWritten ==
    /\ owner.state = "running" /\ owner.piped /\ ~Refusing
    /\ stdin.queue # <<>> /\ Head(stdin.queue) # Eof
    /\ stdin' = [stdin EXCEPT !.pipe = Append(@, Head(stdin.queue)), !.queue = Tail(@)]
    /\ UNCHANGED <<owner, asking, command>>

\* A broken pipe, a termination, or _run() that cancels the writer of an ended process:
\* what is queued is dropped.
StdinCloses ==
    /\ owner.state = "running" /\ ~stdin.closed
    /\ stdin' = [stdin EXCEPT !.closed = TRUE, !.queue = <<>>]
    /\ UNCHANGED <<owner, asking, command>>

\* _writer() of each backend; those of the hosts also stop at the end of file.
Pump == ~Hosted /\ (HeadWritten \/ StdinCloses)
HostPump == owner.kind = "host" /\ (HeadWritten \/ StdinCloses)
HostPtyPump == owner.kind = "hostpty" /\ (HeadWritten \/ StdinCloses)

\* The supervisor reports the exec; a process may also end before it.
StdinStarts ==
    /\ owner.state = "starting"
    /\ owner' = [owner EXCEPT !.state = "running"]
    /\ UNCHANGED <<asking, stdin, command>>

StdinTerminate ==
    /\ ~stdin.term
    /\ stdin' = [stdin EXCEPT !.term = TRUE]
    /\ UNCHANGED <<owner, asking, command>>

\* The record of an ended process expires from the registry.
StdinForgets ==
    /\ owner.state = "running" /\ stdin.closed
    /\ owner' = [owner EXCEPT !.state = "gone"]
    /\ UNCHANGED <<asking, stdin, command>>

------------------------------------------------------------------------------

\* _command_exchange() takes the lock, numbers the request and sends it.
CommandSends ==
    /\ command.lock = NoCommand /\ ~stdin.term /\ ~stdin.closed
    /\ command.id < MaxCommands
    /\ command' = [command EXCEPT !.id = @ + 1, !.lock = command.id + 1,
                                  !.sent = Append(@, command.id + 1)]
    /\ UNCHANGED <<owner, asking, stdin>>

\* External: the supervisor acknowledges the requests in order, or names another one.
CommandAcknowledged(ack) ==
    /\ command.sent # <<>>
    /\ command' = [command EXCEPT !.sent = Tail(@), !.acks = Append(@, ack)]
    /\ UNCHANGED <<owner, asking, stdin>>

\* The acknowledgement names the request: its caller takes it as the answer.  Then the
\* caller reads the errno: a negative one, or a resize read back differently, is a
\* supervisor that cannot be believed, and the terminal is terminated.
CommandAnswered(credible) ==
    /\ command.lock # NoCommand /\ command.acks # <<>>
    /\ Head(command.acks) = command.lock
    /\ command' = [command EXCEPT !.lock = NoCommand, !.acks = Tail(@),
                                  !.taken = @ \cup {command.lock}]
    /\ stdin' = [stdin EXCEPT !.term = @ \/ ~credible]
    /\ UNCHANGED <<owner, asking>>

\* process/signal and resize_owned() of a terminal are such exchanges; neither starts
\* one on a process that is not running.
TtySignal == owner.kind = "tty" /\ owner.state = "running" /\ CommandSends
TtyResize == owner.kind = "tty" /\ owner.state = "running" /\ CommandSends

\* No acknowledgement in time, one that names another request, a caller cancelled or a
\* process that ends: the terminal is terminated before the lock is released.
CommandAbandoned ==
    /\ command.lock # NoCommand
    /\ stdin' = [stdin EXCEPT !.term = TRUE]
    /\ command' = [command EXCEPT !.lock = NoCommand]
    /\ UNCHANGED <<owner, asking>>

------------------------------------------------------------------------------

StdinRest ==
    /\ \A w \in Writes : asking[w] \notin {"none", "waiting"}
    /\ UNCHANGED stdinVars

StdinNext ==
    \/ \E w \in Writes : \/ Write(w) \/ TtyWrite(w) \/ HostWrite(w) \/ HostPtyWrite(w)
                         \/ WriteCancelled(w)
    \/ Pump \/ HostPump \/ HostPtyPump
    \/ StdinStarts \/ StdinTerminate \/ StdinForgets
    \/ TtySignal \/ TtyResize \/ CommandAbandoned
    \/ \E credible \in BOOLEAN : CommandAnswered(credible)
    \/ \E ack \in 0 .. MaxCommands : CommandAcknowledged(ack)
    \/ StdinRest

\* The event loop runs every task that can run: a request whose wait is over, and the
\* writer of a terminated process.  Nothing makes the process read its input.
StdinProgress ==
    \/ \E w \in Writes : /\ asking[w] = "waiting"
                         /\ Write(w) \/ TtyWrite(w) \/ HostWrite(w) \/ HostPtyWrite(w)
    \/ stdin.term /\ StdinCloses

------------------------------------------------------------------------------

\* A retried writeId enters the pipe at most once while the id is remembered, and an
\* accepted one is in the pipe or the queue until the writer ends.
WrittenOnce ==
    ~Hosted => \A id \in {WriteIdOf[w] : w \in Writes} \ stdin.forgotten :
        LET all == stdin.pipe \o stdin.queue
        IN  /\ Cardinality({i \in DOMAIN all : all[i] = id}) <= 1
            /\ (\E w \in Writes : WriteIdOf[w] = id /\ asking[w] = "accepted") /\ ~stdin.closed =>
                   \E i \in DOMAIN all : all[i] = id

\* An abandoned terminal command is the last one: no later exchange can meet its late
\* acknowledgement, so at most one request is ever left unanswered.
NoStaleAcknowledgement ==
    Cardinality((1 .. command.id) \ command.taken) <= 1

\* A request that waits for room is owed an answer once its process is terminated or its
\* stdin closed, whatever the process reads.
AnswerOwed == Refusing /\ \E w \in Writes : asking[w] = "waiting"
=============================================================================
