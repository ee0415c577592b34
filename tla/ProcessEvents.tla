---------------------------- MODULE ProcessEvents ----------------------------
(***************************************************************************)
(* The notifications of one process and the history process/read pages     *)
(* through: _event, _notify and _read of native_processes.py, and the      *)
(* _event_async and _end_events with which the direct, terminal and host   *)
(* backends replace a full queue's failure by backpressure.                *)
(***************************************************************************)
EXTENDS Integers, Sequences, FiniteSets, SequencesExt

CONSTANTS
    Profiles,       \* the backends considered: "static", "direct", "tty", "host", "hostpty"
    MaxOutput,      \* bound: chunks the command writes
    QueueCapacity,  \* NOTIFICATION_CAPACITY
    RetainedChunks  \* chunks the history keeps

VARIABLES
    profile,
    ev,             \* the record's event state
    wire,           \* events the client was sent
    reader          \* a client that pages with process/read

eventVars == <<profile, ev, wire, reader>>

Nothing == [seq |-> 0, what |-> "none"]
Sentinel == [seq |-> 0, what |-> "end"]
Whats == {"output", "exited", "closed"}
Event == [seq: Nat \ {0}, what: Whats]

EventInit ==
    /\ profile \in Profiles
    /\ ev = [seq |-> 1, queue |-> <<>>, pending |-> Nothing, made |-> 0, output |-> <<>>, trimmed |-> 0,
             exit |-> FALSE, closed |-> FALSE, end |-> "no", notifier |-> "run",
             failure |-> FALSE, term |-> FALSE, transport |-> TRUE]
    /\ wire = <<>>
    /\ reader = [after |-> 0, got |-> <<>>]

Hosted == profile \in {"host", "hostpty"}

Room == Len(ev.queue) < QueueCapacity

\* The history of outputs, cut at the front when it is too long.
Remember(e, what) ==
    IF what # "output" THEN e
    ELSE LET all == Append(e.output, e.seq)
             cut == IF Len(all) > RetainedChunks THEN 1 ELSE 0
         IN  [e EXCEPT !.output = SubSeq(all, cut + 1, Len(all)),
                       !.trimmed = IF cut = 1 THEN Head(all) ELSE @]

Numbered(e, what) == [Remember(e, what) EXCEPT !.seq = @ + 1]

\* _event(): a full queue is a failure and terminates the process.
StaticEvent(e, what) ==
    LET event == [seq |-> e.seq, what |-> what]
    IN  IF Room THEN [Numbered(e, what) EXCEPT !.queue = Append(@, event)]
        ELSE [Numbered(e, what) EXCEPT !.failure = TRUE, !.term = TRUE]

\* _event_async() of the direct backend: numbered under the event lock, then queued, or
\* dropped by a lost transport or a cancellation, or waiting for room with the lock held.
DirectEvent(e, what) ==
    LET event == [seq |-> e.seq, what |-> what]
    IN  CASE ~e.transport -> Numbered(e, what)
          [] e.transport /\ Room -> [Numbered(e, what) EXCEPT !.queue = Append(@, event)]
          [] e.transport /\ ~Room /\ e.term -> Numbered(e, what)
          [] OTHER -> [Numbered(e, what) EXCEPT !.pending = event]

\* _event_async() of the host backend: numbered only once it is queued, and no history.
HostEvent(e, what) ==
    LET event == [seq |-> e.seq, what |-> what]
    IN  CASE ~e.transport -> e
          [] e.transport /\ Room -> [e EXCEPT !.seq = @ + 1, !.queue = Append(@, event)]
          [] OTHER -> [e EXCEPT !.pending = event]

\* The terminal backend only names its stream before it calls the direct one.
TtyEvent(e, what) == DirectEvent(e, what)

\* host_pty_processes.py repeats the host's.
HostPtyEvent(e, what) == HostEvent(e, what)

Emitted(e, what) ==
    CASE profile = "static" -> StaticEvent(e, what)
      [] profile = "direct" -> DirectEvent(e, what)
      [] profile = "tty"    -> TtyEvent(e, what)
      [] profile = "host"   -> HostEvent(e, what)
      [] profile = "hostpty" -> HostPtyEvent(e, what)

\* Mutant: the event lock is not held across the wait for room.
UnlockedAlways == TRUE

Unlocked == ev.pending = Nothing

Output ==
    /\ ev.made < MaxOutput /\ ~ev.closed /\ Unlocked
    /\ ev' = [Emitted(ev, "output") EXCEPT !.made = @ + 1]
    /\ UNCHANGED <<profile, wire, reader>>

Exit ==
    /\ ~ev.exit /\ Unlocked
    /\ ev' = [Emitted(ev, "exited") EXCEPT !.exit = TRUE]
    /\ UNCHANGED <<profile, wire, reader>>

\* The closed event follows the end of the readers and of the control task.
Closes ==
    /\ ev.exit /\ ~ev.closed /\ Unlocked
    /\ ev' = Emitted([ev EXCEPT !.closed = TRUE], "closed")
    /\ UNCHANGED <<profile, wire, reader>>

\* The wait of _event_async() ends: room, or nobody listens any more.
Proceed ==
    /\ ~Unlocked
    /\ \/ /\ Room
          /\ ev' = [ev EXCEPT !.queue = Append(@, ev.pending), !.pending = Nothing,
                              !.seq = IF Hosted THEN @ + 1 ELSE @]
       \/ /\ ~ev.transport \/ (ev.term /\ ~Hosted)
          /\ ev' = [ev EXCEPT !.pending = Nothing]
    /\ UNCHANGED <<profile, wire, reader>>

\* The end of the stream.  Without room the static backend cancels the notifier, the
\* others wait for room, for the transport to be lost or for a cancellation.
EndStatic(e) ==
    IF Room THEN [e EXCEPT !.queue = Append(@, Sentinel), !.end = "yes"]
            ELSE [e EXCEPT !.notifier = IF @ = "run" THEN "cancelled" ELSE @, !.end = "yes"]

EndEvents ==
    /\ ev.closed /\ Unlocked /\ ev.end = "no"
    /\ \/ profile = "static" /\ ev' = EndStatic(ev)
       \/ profile # "static" /\ ev.notifier # "run" /\ ev' = [ev EXCEPT !.end = "yes"]
       \/ /\ profile # "static" /\ ev.notifier = "run" /\ Room
          /\ ev' = [ev EXCEPT !.queue = Append(@, Sentinel), !.end = "yes"]
       \/ /\ profile # "static" /\ ev.notifier = "run" /\ ~Room
          /\ ~ev.transport \/ (ev.term /\ ~Hosted)
          /\ ev' = [ev EXCEPT !.notifier = "cancelled", !.transport = FALSE, !.end = "yes"]
    /\ UNCHANGED <<profile, wire, reader>>

\* What the finally of the backend's _notify() adds: the transport is closed, and a
\* process that is still open is terminated.
Silence(e) == IF profile = "static" THEN e
              ELSE [e EXCEPT !.transport = FALSE, !.term = @ \/ ~e.closed]

Notify ==
    /\ ev.notifier = "run" /\ ev.queue # <<>>
    /\ \/ /\ Head(ev.queue) = Sentinel
          /\ ev' = Silence([ev EXCEPT !.queue = Tail(@), !.notifier = "ended"])
          /\ UNCHANGED wire
       \/ /\ Head(ev.queue) # Sentinel
          /\ ev' = [ev EXCEPT !.queue = Tail(@)]
          /\ wire' = Append(wire, Head(ev.queue))
    /\ UNCHANGED <<profile, reader>>

\* The transport raises.
NotifyFails ==
    /\ ev.notifier = "run" /\ ev.queue # <<>> /\ Head(ev.queue) # Sentinel
    /\ ev' = Silence([ev EXCEPT !.queue = Tail(@), !.notifier = "failed", !.failure = TRUE, !.term = TRUE])
    /\ UNCHANGED <<profile, wire, reader>>

\* process/terminate.
EventTerminate ==
    /\ ~ev.term /\ ~ev.exit
    /\ ev' = [ev EXCEPT !.term = TRUE]
    /\ UNCHANGED <<profile, wire, reader>>

\* close() of the direct and host backends: nobody listens, the notifier is cancelled.
CloseTransport ==
    /\ profile # "static" /\ ev.transport
    /\ ev' = [ev EXCEPT !.transport = FALSE, !.term = @ \/ ~ev.closed,
                        !.notifier = IF @ = "run" THEN "cancelled" ELSE @]
    /\ UNCHANGED <<profile, wire, reader>>

------------------------------------------------------------------------------
(* _read(): the chunks after a cursor, at most `maximum' of them when it is given. *)

After(n) == SelectSeq(ev.output, LAMBDA q : q > n)
Chunks(n, maximum) ==
    IF maximum = 0 \/ Len(After(n)) <= maximum THEN After(n) ELSE SubSeq(After(n), 1, maximum)
NextSeq(n, maximum) ==
    LET c == Chunks(n, maximum) IN IF maximum = 0 \/ c = <<>> THEN ev.seq ELSE Last(c) + 1

\* The answer is at once when there is something to say, else at the deadline.
Read(maximum) ==
    /\ ~Hosted
    /\ LET next == NextSeq(reader.after, maximum)
       IN  reader' = [after |-> next - 1, got |-> reader.got \o Chunks(reader.after, maximum)]
    /\ UNCHANGED <<profile, ev, wire>>

EventRest == ev.end = "yes" /\ (ev.notifier # "run" \/ ev.queue = <<>>) /\ UNCHANGED eventVars

EventNext ==
    \/ Output \/ Exit \/ Closes \/ Proceed \/ EndEvents \/ Notify \/ NotifyFails
    \/ EventTerminate \/ CloseTransport \/ EventRest
    \/ \E maximum \in {0, 1} : Read(maximum)

\* What the event loop does by itself.
EventProgress == Proceed \/ Notify \/ EndEvents

EventSpec == EventInit /\ [][EventNext]_eventVars

------------------------------------------------------------------------------

\* The queue and what a backend waits to put into it hold numbered events and the sentinel.
EventTypeOK ==
    /\ ev.queue \in Seq(Event \cup {Sentinel}) /\ Len(ev.queue) <= QueueCapacity
    /\ ev.pending \in Event \cup {Nothing}
    /\ wire \in Seq(Event)
    /\ ev.notifier \in {"run", "failed", "cancelled", "ended"}

Sent == {wire[i].what : i \in DOMAIN wire}

\* What the client is sent is in sequence: the numbers only grow, exited comes once and
\* before closed, nothing follows closed.
WireIsOrdered ==
    \A i, j \in DOMAIN wire : i < j =>
        /\ wire[i].seq < wire[j].seq
        /\ wire[i].what # "closed"
        /\ ~(wire[i].what = "exited" /\ wire[j].what = "exited")

\* A number missing on the wire is one the client can account for: the process failed
\* or was terminated, or the transport is gone.  Backpressure alone loses nothing.
GapIsExplained ==
    profile # "static" =>
        \A i \in DOMAIN wire : wire[i].seq # (IF i = 1 THEN 1 ELSE wire[i - 1].seq + 1) =>
            ev.failure \/ ev.term \/ ~ev.transport

\* A client that pages with process/read, from nextSeq - 1 every time and whatever the
\* size of its pages, has every chunk up to its cursor once and in order, but for those
\* the history had already dropped.
PagesAreComplete ==
    /\ \A i, j \in DOMAIN reader.got : i < j => reader.got[i] < reader.got[j]
    /\ \A i \in DOMAIN ev.output : ev.output[i] <= reader.after => \E j \in DOMAIN reader.got : reader.got[j] = ev.output[i]

\* The end of the stream is owed once the process is closed.
StreamEndOwed == ev.closed /\ ev.end # "yes"

\* "Notification queue exhaustion or transport failure triggers termination and a
\* truthful failure": a notifier that stopped with events undelivered left a failure.
ExhaustionIsReported ==
    profile = "static" /\ ev.end = "yes" /\ ev.notifier # "run" => ev.failure \/ "closed" \in Sent
=============================================================================
