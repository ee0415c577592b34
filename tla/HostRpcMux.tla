----------------------------- MODULE HostRpcMux -----------------------------
(***************************************************************************)
(* relay() of host_rpc_mux.py: one client connection in front of two       *)
(* official app-servers.  main answers everything but the host families,   *)
(* which go to the companion host; initialize goes to both and the client  *)
(* sees one of the two responses, once both servers have answered.         *)
(*                                                                         *)
(* Three coroutines share the state: to_servers() and one from_server()    *)
(* for each server.  The servers are external: they answer, notify, ask    *)
(* and exit as they like.                                                  *)
(***************************************************************************)
EXTENDS Naturals, Sequences

CONSTANTS
    MaxFromServer,  \* bound on the messages of each server beside its initialize response
    MaxFromClient   \* bound on the frames of the client

VARIABLES
    mux,        \* relay() and to_servers()
    reader,     \* from_server() of each server
    server,     \* the two processes
    wire,       \* what the client has been sent
    client      \* the client's end

muxVars == <<mux, reader, server, wire, client>>

Roles == {"main", "host"}
ServerKinds == {"reply", "announce", "unrelated", "ask"}

Child ==
    [alive |-> TRUE, asked |-> FALSE, answered |-> FALSE, sent |-> 0, out |-> <<>>]

MuxInit ==
    /\ mux = [pc |-> "relay", initialization |-> FALSE, initialized |-> FALSE, input |-> "reading",
              init |-> [r \in Roles |-> "pending"], chosen |-> "none"]
    /\ reader = [r \in Roles |-> "reading"]
    /\ server = [r \in Roles |-> Child]
    /\ wire = <<>>
    /\ client = [frames |-> 0, gone |-> FALSE]

------------------------------------------------------------------------------
(* The servers. *)

\* What the servers say after the relay failed is read and discarded.
Heard == mux.pc \in {"relay", "drain"}

ServerInitializes(r) ==
    /\ Heard /\ server[r].alive /\ server[r].asked /\ ~server[r].answered
    /\ \E kind \in {"initialized", "error"} :
           server' = [server EXCEPT ![r].answered = TRUE,
                                    ![r].out = Append(@, [role |-> r, kind |-> kind, early |-> FALSE])]
    /\ UNCHANGED <<mux, reader, wire, client>>

ServerSpeaks(r, kind) ==
    /\ Heard /\ server[r].alive /\ server[r].sent < MaxFromServer
    /\ r = "main" => kind = "reply"    \* whatever main says is forwarded alike
    /\ server' = [server EXCEPT ![r].sent = @ + 1,
                                ![r].out = Append(@, [role |-> r, kind |-> kind,
                                                      early |-> ~server[r].answered])]
    /\ UNCHANGED <<mux, reader, wire, client>>

ServerExits(r) ==
    /\ server[r].alive
    /\ server' = [server EXCEPT ![r].alive = FALSE]
    /\ UNCHANGED <<mux, reader, wire, client>>

------------------------------------------------------------------------------
(* to_servers() *)

Served == mux.pc = "relay"

\* A frame of the client: the first initialize goes to both servers and suspends the
\* loop; any other frame is written to the server that owns its method.
ToServers(frame) ==
    /\ Served /\ mux.input = "reading"
    /\ ~client.gone /\ client.frames < MaxFromClient
    /\ LET first == frame = "initialize" /\ ~mux.initialization
       IN  /\ mux' = [mux EXCEPT !.initialization = @ \/ first,
                                 !.input = IF first THEN "awaiting" ELSE @]
           /\ server' = [r \in Roles |-> [server[r] EXCEPT !.asked = @ \/ first]]
           /\ client' = [client EXCEPT !.frames = @ + 1]
    /\ UNCHANGED <<reader, wire>>

Resolved(r) == mux.init[r] \in {"initialized", "error"}

\* Both futures are set: main's response unless only the companion failed.
Initializes ==
    /\ Served /\ mux.input = "awaiting"
    /\ \A r \in Roles : Resolved(r)
    /\ LET chosen == IF mux.init["main"] = "error" \/ mux.init["host"] # "error" THEN "main" ELSE "host"
       IN  /\ wire' = Append(wire, [role |-> chosen, kind |-> mux.init[chosen], early |-> FALSE])
           /\ mux' = [mux EXCEPT !.initialized = TRUE, !.chosen = chosen,
                                 !.input = IF mux.init[chosen] = "error" THEN "failed" ELSE "reading"]
    /\ UNCHANGED <<reader, server, client>>

\* A server closed before its response, or a malformed frame of the client.
InputFails ==
    /\ Served
    /\ \/ mux.input = "awaiting" /\ \E r \in Roles : mux.init[r] = "dead"
       \/ mux.input = "reading" /\ ~client.gone
    /\ mux' = [mux EXCEPT !.input = "failed"]
    /\ UNCHANGED <<reader, server, wire, client>>

\* End of the client's stream; the finally closes the stdin of both.
InputEnds ==
    /\ Served /\ mux.input = "reading" /\ client.gone
    /\ mux' = [mux EXCEPT !.input = "done", !.pc = "drain"]
    /\ UNCHANGED <<reader, server, wire, client>>

------------------------------------------------------------------------------
(* from_server() *)

Reads(r) == Heard /\ reader[r] = "reading"

\* Mutant: the stream goes on while the other server initializes.
TakeInitializeUnheld(r) ==
    /\ Reads(r) /\ server[r].out # <<>>
    /\ mux.initialization /\ mux.init[r] = "pending"
    /\ Head(server[r].out).kind \in {"initialized", "error"}
    /\ mux' = [mux EXCEPT !.init[r] = Head(server[r].out).kind]
    /\ server' = [server EXCEPT ![r].out = Tail(@)]
    /\ UNCHANGED <<reader, wire, client>>

\* The response to initialize is kept for to_servers(); the reader holds its stream
\* until the client has been sent the response that was chosen.
TakeInitialize(r) ==
    /\ Reads(r) /\ server[r].out # <<>>
    /\ mux.initialization /\ mux.init[r] = "pending"
    /\ Head(server[r].out).kind \in {"initialized", "error"}
    /\ mux' = [mux EXCEPT !.init[r] = Head(server[r].out).kind]
    /\ reader' = [reader EXCEPT ![r] = IF mux.initialized THEN "reading" ELSE "held"]
    /\ server' = [server EXCEPT ![r].out = Tail(@)]
    /\ UNCHANGED <<wire, client>>

Forwarded(m) == m.role = "main" \/ m.kind \in {"reply", "announce"}

\* Everything of main, responses and audited notifications of the companion; a request
\* of the companion ends the relay.
Forward(r) ==
    /\ Reads(r) /\ server[r].out # <<>>
    /\ LET m == Head(server[r].out)
       IN  /\ m.kind \in ServerKinds
           /\ wire' = IF Forwarded(m) THEN Append(wire, m) ELSE wire
           /\ reader' = IF m.kind = "ask" /\ r = "host" THEN [reader EXCEPT ![r] = "failed"] ELSE reader
    /\ server' = [server EXCEPT ![r].out = Tail(@)]
    /\ UNCHANGED <<mux, client>>

Released(r) ==
    /\ reader[r] = "held" /\ mux.initialized
    /\ reader' = [reader EXCEPT ![r] = "reading"]
    /\ UNCHANGED <<mux, server, wire, client>>

\* The end of the server's output: a response that never came fails initialize.
OutputEnds(r) ==
    /\ Reads(r) /\ ~server[r].alive /\ server[r].out = <<>>
    /\ reader' = [reader EXCEPT ![r] = "done"]
    /\ mux' = [mux EXCEPT !.init[r] = IF @ = "pending" THEN "dead" ELSE @]
    /\ UNCHANGED <<server, wire, client>>

------------------------------------------------------------------------------
(* The body of relay() *)

\* The first task to end was not the client's input, or it failed.
RelayFails ==
    /\ Served
    /\ \/ mux.input = "failed"
       \/ \E r \in Roles : reader[r] \in {"done", "failed"} \/ ~server[r].alive
    /\ mux' = [mux EXCEPT !.pc = "finally"]
    /\ UNCHANGED <<reader, server, wire, client>>

\* After the end of the client both servers exit in time and their last output is
\* forwarded; or one does not, or a frame of it is refused.
Drained ==
    /\ mux.pc = "drain"
    /\ \/ \A r \in Roles : ~server[r].alive /\ reader[r] = "done"
       \/ \E r \in Roles : server[r].alive \/ reader[r] = "failed"
    /\ mux' = [mux EXCEPT !.pc = "finally"]
    /\ UNCHANGED <<reader, server, wire, client>>

\* finally: both stdins close; a server that stays is terminated, then killed.
ReapServer(r) ==
    /\ mux.pc = "finally"
    /\ server[r].alive
    /\ server' = [server EXCEPT ![r].alive = FALSE, ![r].out = <<>>]
    /\ UNCHANGED <<mux, reader, wire, client>>

RelayReturns ==
    /\ mux.pc = "finally" /\ \A r \in Roles : ~server[r].alive
    /\ mux' = [mux EXCEPT !.pc = "closed"]
    /\ server' = [r \in Roles |-> [server[r] EXCEPT !.out = <<>>]]
    /\ UNCHANGED <<reader, wire, client>>

ClientLeaves ==
    /\ mux.pc # "closed" /\ ~client.gone
    /\ client' = [client EXCEPT !.gone = TRUE]
    /\ UNCHANGED <<mux, reader, server, wire>>

MuxRest == mux.pc = "closed" /\ UNCHANGED muxVars

------------------------------------------------------------------------------

RelayStep ==
    \/ Initializes \/ InputEnds
    \/ \E r \in Roles : TakeInitialize(r) \/ Forward(r) \/ Released(r) \/ OutputEnds(r)
    \/ RelayFails \/ Drained
    \/ \E r \in Roles : ReapServer(r)
    \/ RelayReturns

ServerStep(r) ==
    \/ ServerInitializes(r)
    \/ \E kind \in ServerKinds : ServerSpeaks(r, kind)
    \/ ServerExits(r)

MuxNext ==
    \/ mux.pc # "closed" /\ \E r \in Roles : ServerStep(r)
    \/ \E frame \in {"initialize", "other"} : ToServers(frame)
    \/ InputFails
    \/ ClientLeaves
    \/ RelayStep
    \/ MuxRest

\* The event loop runs what is ready.  A server that was asked to initialize answers or
\* exits: relay() itself sets no deadline for that.
MuxProgress == RelayStep \/ \E r \in Roles : mux.pc # "closed" /\ ServerInitializes(r)

------------------------------------------------------------------------------

Position(kinds) == {i \in 1 .. Len(wire) : wire[i].kind \in kinds}

\* The client is answered its initialize at most once, and nothing a server said after
\* its own response reaches the client before that answer, however long the other
\* server takes (the order that from_server() holds its stream for).
InitializeComesFirst ==
    /\ \A i, j \in Position({"initialized", "error"}) : i = j
    /\ \A i \in Position({"initialized", "error"}), j \in Position(ServerKinds) :
           j < i => wire[j].early
    /\ (\E j \in Position(ServerKinds) : ~wire[j].early) => Position({"initialized", "error"}) # {}

\* A client that left, also in the middle of initialize, or a server that exited, is owed
\* the end of the relay and of both servers.
RelayEndOwed ==
    /\ client.gone \/ \E r \in Roles : ~server[r].alive
    /\ mux.pc # "closed"
=============================================================================
