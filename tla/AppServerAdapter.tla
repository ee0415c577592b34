--------------------------- MODULE AppServerAdapter ---------------------------
(***************************************************************************)
(* app_server_adapter.py and its EnvironmentRouter (app_server_routing.py):*)
(* every turn a client starts is given the FoldGPT environment explicitly, *)
(* with the directory the router believes the thread is in.  That belief   *)
(* is learned from successful responses only, while requests and answers   *)
(* are pipelined in both directions.                                       *)
(*                                                                         *)
(* The official server is external: it handles requests in order, accepts  *)
(* or refuses each, and keeps the directory of every thread.               *)
(***************************************************************************)
EXTENDS Naturals, Sequences

CONSTANTS
    Threads,        \* thread ids of the official server
    Cwds,           \* directories, the launcher's among them
    DefaultCwd,     \* default_cwd
    Nowhere,        \* no directory given, none known
    MaxRequests     \* bound on the requests of one behaviour

VARIABLES
    router,     \* locations and pending
    official,   \* the server: its directories and the two streams
    relay       \* relay() of the adapter

adapterVars == <<router, official, relay>>

Unknown == [cwd |-> Nowhere, enabled |-> TRUE]

AdapterInit ==
    /\ router = [locations |-> [t \in Threads |-> Unknown], pending |-> {}]
    /\ official = [cwd |-> [t \in Threads |-> Nowhere], in |-> <<>>, out |-> <<>>]
    /\ relay = [pc |-> "relay", next |-> 1, alive |-> TRUE]

Located(t) == router.locations[t] # Unknown
PendingIds == {r.id : r \in router.pending}

------------------------------------------------------------------------------
(* EnvironmentRouter.outgoing() *)

\* _selection(): the directory of the only environment, of the request, of the thread,
\* or of the launcher; no environment when the client asked for none, or last did.
Selection(prior, cwd, environments) ==
    [cwd |-> IF cwd # Nowhere THEN cwd
             ELSE IF prior.cwd # Nowhere THEN prior.cwd ELSE DefaultCwd,
     enabled |-> environments = "explicit" \/ (environments = "absent" /\ prior.enabled)]

\* What is remembered of a routed request, and the directory it carries to the server.
Routed(i, method, t, location, sent) ==
    LET r == [id |-> i, method |-> method, thread |-> t, location |-> location, sent |-> sent]
    IN  /\ router' = [router EXCEPT !.pending = @ \cup {r}]
        /\ official' = [official EXCEPT !.in = Append(@, r)]
        /\ relay' = [relay EXCEPT !.next = @ + 1]

NextId == relay.next
Relays == relay.pc = "relay" /\ relay.next <= MaxRequests

\* thread/start: a new thread, no prior location.
StartThread(t, cwd, environments) ==
    /\ Relays /\ official.cwd[t] = Nowhere
    /\ \A r \in router.pending : r.thread # t
    /\ environments = "explicit" => cwd # Nowhere
    /\ LET l == Selection(Unknown, cwd, environments)
       IN  Routed(NextId, "thread/start", t, l, l.cwd)

\* turn/start: refused before the thread's directory is known, unless it names one or
\* asks for no environment.
StartTurn(t, cwd, environments) ==
    /\ Relays
    /\ environments = "explicit" => cwd # Nowhere
    /\ Located(t) \/ cwd # Nowhere \/ environments # "absent"
    /\ LET l == Selection(router.locations[t], cwd, environments)
       IN  Routed(NextId, "turn/start", t, l, IF l.enabled THEN l.cwd ELSE cwd)

\* thread/resume carries no location; the answer has the thread's directory.
ResumeThread(t) ==
    /\ Relays
    /\ Routed(NextId, "thread/resume", t, Unknown, Nowhere)

UpdateSettings(t, cwd) ==
    /\ Relays /\ cwd # Nowhere
    /\ Routed(NextId, "thread/settings/update", t,
              [cwd |-> cwd, enabled |-> router.locations[t].enabled], cwd)

------------------------------------------------------------------------------
(* The official server. *)

\* It takes up the directory a request carries, and answers with the thread's; a
\* request about no thread, or one it refuses, changes nothing.
Handles ==
    /\ relay.alive /\ official.in # <<>>
    /\ LET r == Head(official.in)
           known == r.method = "thread/start" \/ official.cwd[r.thread] # Nowhere
           cwd == IF r.sent # Nowhere THEN r.sent ELSE official.cwd[r.thread]
       IN  \/ /\ known
              /\ \E note \in {<<>>, <<[kind |-> "updated", id |-> 0, thread |-> r.thread, cwd |-> cwd]>>} :
                     official' = [cwd |-> [official.cwd EXCEPT ![r.thread] = cwd],
                                  in |-> Tail(official.in),
                                  out |-> official.out \o note \o
                                      <<[kind |-> "result", id |-> r.id, thread |-> r.thread, cwd |-> cwd]>>]
           \/ official' = [official EXCEPT !.in = Tail(@),
                  !.out = Append(@, [kind |-> "error", id |-> r.id, thread |-> r.thread, cwd |-> Nowhere])]
    /\ UNCHANGED <<router, relay>>

------------------------------------------------------------------------------
(* EnvironmentRouter.incoming() *)

AskedOf(i) == CHOOSE r \in router.pending : r.id = i

\* thread/settings/updated: the directory of a thread the router knows.
SettingsUpdated(m) ==
    IF router.locations[m.thread] # Unknown
    THEN [router EXCEPT !.locations[m.thread].cwd = m.cwd] ELSE router

\* A response: what was asked is forgotten, and a success becomes the location.
Response(m) ==
    IF m.id \notin PendingIds THEN router ELSE
    LET r == AskedOf(m.id)
        rest == [router EXCEPT !.pending = @ \ {r}]
        prior == router.locations[r.thread]
        opened == IF r.location # Unknown /\ r.location.enabled THEN r.location
                  ELSE [cwd |-> m.cwd,
                        enabled |-> IF r.location # Unknown THEN r.location.enabled ELSE prior.enabled]
    IN  IF m.kind = "error" THEN rest
        ELSE IF r.method \in {"thread/start", "thread/resume"}
             THEN [rest EXCEPT !.locations[r.thread] = opened]
             ELSE [rest EXCEPT !.locations[r.thread] = r.location]

Incoming ==
    /\ relay.pc \in {"relay", "drain"} /\ official.out # <<>>
    /\ LET m == Head(official.out)
       IN  router' = IF m.kind = "updated" THEN SettingsUpdated(m) ELSE Response(m)
    /\ official' = [official EXCEPT !.out = Tail(@)]
    /\ UNCHANGED relay

------------------------------------------------------------------------------
(* relay(): the end of either side ends both. *)

ClientEnds ==
    /\ relay.pc = "relay"
    /\ relay' = [relay EXCEPT !.pc = "drain"]
    /\ UNCHANGED <<router, official>>

OfficialExits ==
    /\ relay.alive
    /\ relay' = [relay EXCEPT !.alive = FALSE]
    /\ UNCHANGED <<router, official>>

\* After its exit the rest of its output is forwarded; one that stays is terminated.
AdapterEnds ==
    /\ relay.pc \in {"relay", "drain"}
    /\ IF relay.alive THEN relay.pc = "drain" ELSE official.out = <<>>
    /\ relay' = [relay EXCEPT !.pc = "closed", !.alive = FALSE]
    /\ UNCHANGED <<router, official>>

AdapterRest == relay.pc = "closed" /\ UNCHANGED adapterVars

AdapterNext ==
    \/ \E t \in Threads, cwd \in Cwds \cup {Nowhere}, environments \in {"absent", "none", "explicit"} :
           StartThread(t, cwd, environments) \/ StartTurn(t, cwd, environments)
    \/ \E t \in Threads : ResumeThread(t)
    \/ \E t \in Threads, cwd \in Cwds : UpdateSettings(t, cwd)
    \/ Handles
    \/ Incoming
    \/ ClientEnds \/ OfficialExits \/ AdapterEnds
    \/ AdapterRest

------------------------------------------------------------------------------

\* When nothing is in flight the router's directory of a thread is the official one:
\* pipelined turns, refused requests and late notifications leave no wrong directory
\* for the next turn to be started in.
RouterAgrees ==
    official.in = <<>> /\ official.out = <<>> =>
        \A t \in Threads : Located(t) /\ router.locations[t].enabled =>
            router.locations[t].cwd = official.cwd[t]
=============================================================================
