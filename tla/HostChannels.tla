---------------------------- MODULE HostChannels ----------------------------
(***************************************************************************)
(* The packet channels between the native runtime and its controller:      *)
(* HostFileChannel and BootstrapReadChannel, which serve one request at a  *)
(* time, and HostChannelV2, which multiplexes file and process requests.   *)
(*                                                                         *)
(* Every protocol breach of the peer is fatal to the channel, so the hard  *)
(* part is that a peer which keeps the protocol is never taken for one     *)
(* which does not, whatever the order in which responses, packets and the  *)
(* channel's own tasks come about.  peer.breach records, from what the     *)
(* peer alone has seen, whether it kept the protocol.                      *)
(***************************************************************************)
EXTENDS Naturals, Sequences, FiniteSets

CONSTANTS
    ChannelKinds,   \* the channels of a run, of "files", "bootstrap", "v2"
    MaxNumber,      \* bound on the requests of one behaviour
    MaxPending,     \* MAX_PENDING
    LinkCapacity    \* bound on the packets in flight towards the channel

VARIABLES
    chan,   \* the channel object and where run() is
    work,   \* what the task of each request is doing
    peer,   \* what the controller sent and saw
    link    \* packets sent and not yet received

channelVars == <<chan, work, peer, link>>

Number == 1 .. MaxNumber
None == 0
NoPacket == [type |-> "none", id |-> 0, op |-> "none", target |-> 0]

FileOps(kind) == IF kind = "bootstrap" THEN {"read"} ELSE {"read", "writeFile"}
ProcessOps(kind) == IF kind = "v2" THEN {"start", "events", "stdin", "terminate"} ELSE {}

Request(i, op, target) == [type |-> "request", id |-> i, op |-> op, target |-> target]

Serial == chan.kind \in {"files", "bootstrap"}

ChannelState(kind) ==
    [kind |-> kind, pc |-> "receive", number |-> 1,
     incoming |-> NoPacket, after |-> FALSE, pending |-> NoPacket,    \* monitor()
     sent |-> FALSE,                                                  \* phase["sent"]
     upload |-> None, chunked |-> FALSE, file_request |-> None,
     live |-> {}, reading |-> {}, writing |-> {},
     failed |-> FALSE, violation |-> FALSE]

ChannelInit ==
    /\ chan \in {ChannelState(kind) : kind \in ChannelKinds}
    /\ work = [i \in Number |-> "none"]
    /\ peer = [next |-> 1, seen |-> {}, ops |-> [i \in Number |-> NoPacket],
               upload |-> None, chunked |-> FALSE, breach |-> FALSE, gone |-> FALSE]
    /\ link = <<>>

------------------------------------------------------------------------------
(* The peer. *)

Outstanding == {i \in 1 .. (peer.next - 1) : i \notin peer.seen}
OutstandingOf(ops, target) ==
    {i \in Outstanding : peer.ops[i].op \in ops /\ peer.ops[i].target = target}

\* Would a request now break the protocol, as far as the peer can tell?
Breaches(op, target) ==
    IF Serial THEN Outstanding # {}
    ELSE \/ Cardinality(Outstanding) >= MaxPending
         \/ op \in FileOps("v2") /\ OutstandingOf(FileOps("v2"), None) # {}
         \/ op \in {"events", "stdin"} /\ OutstandingOf({op}, target) # {}

\* Processes the peer knows: their start was answered.
KnownProcesses == {i \in peer.seen : peer.ops[i].op = "start"}

PeerRequests(op, target) ==
    /\ ~peer.gone /\ peer.next <= MaxNumber /\ Len(link) < LinkCapacity
    /\ op \in FileOps(chan.kind) \cup ProcessOps(chan.kind)
    /\ target = None <=> op \in FileOps(chan.kind) \cup {"start"}
    /\ target = None \/ target \in KnownProcesses
    /\ Serial => peer.upload = None
    /\ LET r == Request(peer.next, op, target)
       IN  /\ link' = Append(link, r)
           /\ peer' = [peer EXCEPT !.next = @ + 1, !.ops[peer.next] = r,
                                   !.upload = IF op = "writeFile" THEN peer.next ELSE @,
                                   !.chunked = IF op = "writeFile" THEN FALSE ELSE @,
                                   !.breach = @ \/ Breaches(op, target)]
    /\ UNCHANGED <<chan, work>>

\* The one chunk of an announced write, then its commit.
PeerUploads ==
    /\ ~peer.gone /\ peer.upload # None /\ Len(link) < LinkCapacity
    /\ link' = Append(link, [type |-> IF peer.chunked THEN "commit" ELSE "chunk",
                             id |-> peer.upload, op |-> "none", target |-> None])
    /\ peer' = [peer EXCEPT !.chunked = ~@, !.upload = IF peer.chunked THEN None ELSE @]
    /\ UNCHANGED <<chan, work>>

\* A packet of no admitted shape: wrong id, field, credentials or an upload frame that
\* belongs to no write.
PeerBreaches ==
    /\ ~peer.gone /\ Len(link) < LinkCapacity
    /\ link' = Append(link, [type |-> "bad", id |-> 0, op |-> "none", target |-> 0])
    /\ peer' = [peer EXCEPT !.breach = TRUE]
    /\ UNCHANGED <<chan, work>>

PeerLeaves ==
    /\ ~peer.gone
    /\ peer' = [peer EXCEPT !.gone = TRUE]
    /\ UNCHANGED <<chan, work, link>>

------------------------------------------------------------------------------
(* Receiving. *)

\* _receive(): a packet, or the end of the stream once every packet is read.
Arrives(p) ==
    \/ link # <<>> /\ p = Head(link) /\ link' = Tail(link)
    \/ link = <<>> /\ peer.gone /\ p = [NoPacket EXCEPT !.type = "eof"] /\ UNCHANGED link

EndOfStream == [NoPacket EXCEPT !.type = "eof"]
Packets == {EndOfStream} \cup {link[i] : i \in DOMAIN link}

Ends == [chan EXCEPT !.pc = "cancel"]
Violation == [chan EXCEPT !.pc = "cancel", !.violation = TRUE]

\* _request(): the next exact id and an admitted operation.
Admitted(p) == p.type = "request" /\ p.id = chan.number /\ p.op \in FileOps(chan.kind)

------------------------------------------------------------------------------
(* HostFileChannel and BootstrapReadChannel. *)

Serves(c, p) ==
    [c EXCEPT !.pc = IF p.op = "writeFile" THEN "collect" ELSE "serve",
              !.pending = NoPacket, !.sent = FALSE, !.chunked = FALSE]

\* The loop takes the packet its monitor kept, or else the next one.
SerialReceive(p) ==
    /\ Serial /\ chan.pc = "receive"
    /\ IF chan.pending # NoPacket THEN p = chan.pending /\ UNCHANGED link ELSE Arrives(p)
    /\ chan' = CASE p.type = "eof" -> Ends
                 [] Admitted(p) -> Serves(chan, p)
                 [] OTHER -> Violation
    /\ work' = IF Admitted(p) THEN [work EXCEPT ![p.id] = p.op] ELSE work
    /\ UNCHANGED peer

\* _collect_write(): chunks in sequence, then the commit, and nothing in between.
SerialCollect(p) ==
    /\ Serial /\ chan.pc = "collect"
    /\ Arrives(p)
    /\ chan' = CASE p.type = "eof" -> Ends
                 [] p.type = "chunk" /\ ~chan.chunked -> [chan EXCEPT !.chunked = TRUE]
                 [] p.type = "commit" /\ chan.chunked -> [chan EXCEPT !.pc = "serve"]
                 [] OTHER -> Violation
    /\ UNCHANGED <<work, peer>>

Answered(i) == [peer EXCEPT !.seen = @ \cup {i}]

\* Mutant: the phase is not marked with the response.
SerialRespondUnmarked(i) ==
    /\ Serial /\ chan.pc = "serve" /\ i = chan.number
    /\ work[i] \in FileOps(chan.kind)
    /\ work' = [work EXCEPT ![i] = "none"]
    /\ peer' = Answered(i)
    /\ UNCHANGED <<chan, link>>

\* _respond() ends: a result or an error goes out and the phase is marked, without the
\* loop running in between.
SerialRespond(i) ==
    /\ Serial /\ chan.pc = "serve" /\ i = chan.number
    /\ work[i] \in FileOps(chan.kind)
    /\ work' = [work EXCEPT ![i] = "none"]
    /\ peer' = Answered(i)
    /\ chan' = [chan EXCEPT !.sent = TRUE]
    /\ UNCHANGED link

\* monitor(): a packet that comes while a request is served, and whether the terminal
\* response had gone out when it came.
Monitor(p) ==
    /\ Serial /\ chan.pc = "serve" /\ chan.incoming = NoPacket
    /\ Arrives(p)
    /\ chan' = [chan EXCEPT !.incoming = p, !.after = chan.sent]
    /\ UNCHANGED <<work, peer>>

\* The loop resumes when either task is done, and starts over with what came in.
SerialProceed ==
    /\ Serial /\ chan.pc = "serve"
    /\ chan.incoming # NoPacket \/ chan.sent
    /\ chan' = CASE chan.incoming.type = "eof" -> Ends
                 [] chan.incoming # NoPacket /\ ~chan.after -> Violation
                 [] OTHER -> [chan EXCEPT !.pc = "receive", !.number = @ + 1,
                                          !.pending = chan.incoming,
                                          !.incoming = NoPacket, !.after = FALSE]
    /\ UNCHANGED <<work, peer, link>>

\* BootstrapReadChannel has the same loop around its one operation, without uploads.
BootstrapReceive(p) == chan.kind = "bootstrap" /\ SerialReceive(p)
BootstrapRespond(i) == chan.kind = "bootstrap" /\ SerialRespond(i)
BootstrapProceed == chan.kind = "bootstrap" /\ ((\E p \in Packets : Monitor(p)) \/ SerialProceed)

------------------------------------------------------------------------------
(* HostChannelV2. *)

\* The tasks dictionary.  A finished task leaves it in its done callback, which runs
\* before the loop can look at a packet sent after that task's response.
Tasks == {i \in Number : work[i] # "none" /\ i # chan.upload}

InFlight == Cardinality(Tasks) + (IF chan.upload # None THEN 1 ELSE 0)

\* An upload frame belongs to the write that announced it.
V2Upload(p) ==
    IF p.id # chan.upload \/ chan.upload = None THEN Violation
    ELSE IF p.type = "chunk" THEN IF chan.chunked THEN Violation ELSE [chan EXCEPT !.chunked = TRUE]
    ELSE IF ~chan.chunked THEN Violation ELSE [chan EXCEPT !.upload = None]

V2Request(p) ==
    IF \/ InFlight >= MaxPending
       \/ p.id # chan.number \/ p.op \notin FileOps("v2") \cup ProcessOps("v2")
       \/ p.op \in FileOps("v2") /\ chan.file_request # None
    THEN Violation
    ELSE [chan EXCEPT !.number = @ + 1,
                      !.file_request = IF p.op \in FileOps("v2") THEN p.id ELSE @,
                      !.upload = IF p.op = "writeFile" THEN p.id ELSE @,
                      !.chunked = IF p.op = "writeFile" THEN FALSE ELSE @]

\* One turn of the loop.  A task that failed before is looked at first.
V2Receive(p) ==
    /\ chan.kind = "v2" /\ chan.pc = "receive" /\ ~chan.failed
    /\ Arrives(p)
    /\ chan' = CASE p.type = "eof" -> Ends
                 [] p.type \in {"chunk", "commit"} -> V2Upload(p)
                 [] p.type = "request" -> V2Request(p)
                 [] OTHER -> Violation
    /\ work' = IF p.type = "request" /\ chan'.pc = "receive" THEN [work EXCEPT ![p.id] = p.op] ELSE work
    /\ UNCHANGED peer

V2Failure ==
    /\ chan.kind = "v2" /\ chan.pc = "receive" /\ chan.failed
    /\ chan' = Violation
    /\ UNCHANGED <<work, peer, link>>

Done(i) == [work EXCEPT ![i] = "none"]

\* execute() of a file request: the response, then the file exchange is free again.
V2Respond(i) ==
    /\ chan.kind = "v2" /\ chan.pc = "receive" /\ i \in Tasks
    /\ work[i] \in FileOps("v2")
    /\ peer' = Answered(i)
    /\ chan' = [chan EXCEPT !.file_request = None]
    /\ work' = Done(i)
    /\ UNCHANGED link

\* processStart: the registry may be full, or the spawn may fail; both are answered.
V2Start(i) ==
    /\ chan.kind = "v2" /\ chan.pc = "receive" /\ work[i] = "start"
    /\ \/ Cardinality(chan.live) < MaxPending /\ chan' = [chan EXCEPT !.live = @ \cup {i}]
       \/ UNCHANGED chan
    /\ peer' = Answered(i)
    /\ work' = Done(i)
    /\ UNCHANGED link

Target(i) == peer.ops[i].target

\* processTerminate, and any request about a process that is not live: answered at once.
V2Answers(i) ==
    /\ chan.kind = "v2" /\ chan.pc = "receive"
    /\ \/ work[i] = "terminate"
       \/ work[i] \in {"events", "stdin"} /\ Target(i) \notin chan.live
    /\ peer' = Answered(i)
    /\ work' = Done(i)
    /\ UNCHANGED <<chan, link>>

\* A second reader, or a second writer, of the same process ends the channel.
V2Claims(i) ==
    /\ chan.kind = "v2" /\ chan.pc = "receive"
    /\ work[i] \in {"events", "stdin"} /\ Target(i) \in chan.live
    /\ LET taken == Target(i) \in IF work[i] = "events" THEN chan.reading ELSE chan.writing
       IN  /\ chan' = IF taken THEN [chan EXCEPT !.failed = TRUE]
                      ELSE IF work[i] = "events" THEN [chan EXCEPT !.reading = @ \cup {Target(i)}]
                      ELSE [chan EXCEPT !.writing = @ \cup {Target(i)}]
           /\ work' = IF taken THEN Done(i) ELSE [work EXCEPT ![i] = work[i] \o "Owned"]
    /\ UNCHANGED <<peer, link>>

\* processRead ends: an event, an error of an incomplete stream, or the closed event with
\* its cleanup proof, which alone takes the process out of the registry.
V2Event(i) ==
    /\ chan.kind = "v2" /\ chan.pc = "receive" /\ work[i] = "eventsOwned"
    /\ \E closed \in BOOLEAN :
           chan' = [chan EXCEPT !.reading = @ \ {Target(i)},
                                !.live = IF closed THEN @ \ {Target(i)} ELSE @]
    /\ peer' = Answered(i)
    /\ work' = Done(i)
    /\ UNCHANGED link

V2Written(i) ==
    /\ chan.kind = "v2" /\ chan.pc = "receive" /\ work[i] = "stdinOwned"
    /\ chan' = [chan EXCEPT !.writing = @ \ {Target(i)}]
    /\ peer' = Answered(i)
    /\ work' = Done(i)
    /\ UNCHANGED link

------------------------------------------------------------------------------
(* run()'s finally: cancelled tasks are awaited, and their helpers with them. *)

\* A cancelled task ends, once its helper is reaped.
Reaped(i) ==
    /\ chan.pc = "cancel" /\ work[i] # "none"
    /\ work' = Done(i)
    /\ UNCHANGED <<chan, peer, link>>

\* processes.close(): every process of the human owner is ended.
OwnerCloses ==
    /\ chan.pc = "cancel" /\ chan.live # {}
    /\ chan' = [chan EXCEPT !.live = {}, !.reading = {}, !.writing = {}]
    /\ UNCHANGED <<work, peer, link>>

ChannelCloses ==
    /\ chan.pc = "cancel"
    /\ \A i \in Number : work[i] = "none"
    /\ chan.live = {}
    /\ chan' = [chan EXCEPT !.pc = "closed", !.upload = None]
    /\ UNCHANGED <<work, peer, link>>

ChannelRest ==
    /\ chan.pc = "closed"
    /\ UNCHANGED channelVars

------------------------------------------------------------------------------

PeerStep ==
    /\ chan.pc # "closed"
    /\ \/ \E op \in {"read", "writeFile", "start", "events", "stdin", "terminate"},
             target \in {None} \cup Number : PeerRequests(op, target)
       \/ PeerUploads
       \/ PeerBreaches
       \/ PeerLeaves

ChannelReceives ==
    \E p \in Packets \cup {chan.pending} :
        \/ chan.kind = "files" /\ (SerialReceive(p) \/ SerialCollect(p) \/ Monitor(p))
        \/ BootstrapReceive(p)
        \/ V2Receive(p)

TaskStep(i) ==
    \/ chan.kind = "files" /\ SerialRespond(i)
    \/ BootstrapRespond(i) \/ V2Respond(i)
    \/ V2Start(i) \/ V2Answers(i) \/ V2Claims(i) \/ V2Event(i) \/ V2Written(i)
    \/ Reaped(i)

ChannelStep ==
    \/ ChannelReceives
    \/ chan.kind = "files" /\ SerialProceed
    \/ BootstrapProceed
    \/ V2Failure
    \/ OwnerCloses
    \/ ChannelCloses

ChannelNext ==
    \/ PeerStep
    \/ ChannelStep
    \/ \E i \in Number : TaskStep(i)
    \/ ChannelRest

\* The event loop runs what is ready; helpers and supervisors end when they are cancelled.
ChannelProgress == ChannelStep \/ \E i \in Number : Reaped(i)

------------------------------------------------------------------------------

\* A channel fails only because its peer broke the protocol: a peer that waits for the
\* terminal response (or, with v2, stays within the allowances it was told) is never
\* taken for a violator, however its packets and the channel's tasks interleave.
ViolationIsPeers == chan.violation \/ chan.failed => peer.breach

\* The channel owes its end to a peer that left: run()'s finally reaps every helper and
\* closes the socket, also with a request half served or an upload half sent.
ChannelEndOwed == peer.gone /\ chan.pc # "closed"
=============================================================================
