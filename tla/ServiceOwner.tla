----------------------------- MODULE ServiceOwner -----------------------------
(***************************************************************************)
(* The service route: ExecutorService, the owner of a native session in    *)
(* the Shizuku user service, AppSocketBridge, which gives it a socket in   *)
(* the application, and the FoldExecutorRuntime that binds to it.  Service *)
(* and application are processes of their own: the application may die,    *)
(* and the service is destroyed by others than its client.                 *)
(***************************************************************************)
EXTENDS NativeSession, TLC

CONSTANT MaxSockets         \* bound: connections to the bridge

VARIABLES
    service,    \* ExecutorService: [alive, destroy, current, opening]
    served,     \* its sessions, NativeSession records with their DeathRecipient's link
    runs,       \* AppSocketBridge's Runs
    holder      \* the FoldExecutorRuntime, its process and its bridge

serviceVars == <<service, served, runs, holder>>

Sockets == 1..MaxSockets
Routes == {"native", "bridge"}      \* openNative(), or a bridge and its connections

NoRun == [phase |-> "none", session |-> FALSE, stopping |-> FALSE, output |-> "none"]
NewHolder(route) ==
    [alive |-> TRUE, route |-> route, preparing |-> "none", attached |-> FALSE, bound |-> FALSE,
     remote |-> FALSE, session |-> FALSE, closing |-> FALSE, failed |-> FALSE, closed |-> FALSE,
     bridge |-> "none", active |-> 0, jobs |-> {}]

ServiceInit ==
    /\ service = [alive |-> TRUE, destroy |-> FALSE, current |-> 0, opening |-> 0]
    /\ served = [k \in Sockets |-> NoSession @@ [linked |-> FALSE]]
    /\ runs = [k \in Sockets |-> NoRun]
    /\ holder \in {NewHolder(route) : route \in Routes}

-----------------------------------------------------------------------------
(* ExecutorService.  open() holds the service's lock; the link to the client's death
   is made before the session's launch takes the session's lock. *)

Retains == \E k \in {service.current} \ {0} : ~Releasable(served[k].state)

\* What the caller is told, if it is still there: the session, or an exception.  A Run
\* whose session was cancelled meanwhile does not get its input.
Told(k, ok) ==
    LET usable == ok /\ ~served'[k].state.cancelled
    IN  IF ~holder.alive THEN runs' = [runs EXCEPT ![k] = NoRun] /\ UNCHANGED holder
        ELSE IF holder.route = "native"
        THEN /\ runs' = [runs EXCEPT ![k].phase = "told"]
             /\ holder' = IF ok THEN [holder EXCEPT !.session = TRUE, !.jobs = @ \cup {"observe"}] ELSE Fail(holder)
        ELSE /\ runs' = [runs EXCEPT ![k] =
                   [phase |-> "observed", session |-> ok, stopping |-> ~usable,
                    output |-> IF usable THEN "flowing" ELSE "finished"]]
             /\ holder' = IF usable THEN holder ELSE Fail(holder)

Open(k) ==
    /\ runs[k].phase = "opening" /\ service.alive /\ service.opening = 0
    /\ \/ /\ ~service.destroy /\ ~Retains /\ holder.alive
          /\ service' = [service EXCEPT !.current = k, !.opening = k]
          /\ served' = [j \in Sockets |-> CASE j = k -> [served[k] EXCEPT !.linked = TRUE]
                                            [] j # k /\ j = service.current -> Forgotten(served[j])
                                            [] OTHER -> served[j]]
          /\ UNCHANGED <<runs, holder>>
       \/ UNCHANGED <<service, served>> /\ Told(k, FALSE)

\* Mutant: the client's death is not looked at again after the fork.
LaunchUnchecked(k) ==
    /\ service.opening = k
    /\ service' = [service EXCEPT !.opening = 0]
    /\ served' = [served EXCEPT ![k] = Forked(@)] /\ Told(k, TRUE)

\* launch(): a failure before the fork, a fork, or a fork whose observer does not start.
Launch(k) ==
    /\ service.opening = k
    /\ service' = [service EXCEPT !.opening = 0]
    /\ \/ /\ served' = [served EXCEPT ![k] = [Refused(@) EXCEPT !.linked = FALSE]]
          /\ Told(k, FALSE)
       \/ /\ served' = [served EXCEPT ![k] =
                IF served[k].state.cancelled \/ ~holder.alive THEN RequestCancel(Forked(@)) ELSE Forked(@)]
          /\ Told(k, TRUE)
       \/ /\ served' = [served EXCEPT ![k] = [Forked(@) EXCEPT !.observer = "none"]]
          /\ Told(k, FALSE)

\* binderDied(): on a thread of its own, so also between the link and the launch.
BinderDied(k) ==
    /\ service.alive /\ ~holder.alive /\ served[k].linked
    /\ served' = [served EXCEPT ![k] = [RequestCancel(@) EXCEPT !.linked = FALSE]]
    /\ UNCHANGED <<service, runs, holder>>

\* Mutant: destroy() does not wait for the session it cancels.
DestroyNow ==
    /\ service.alive /\ service.opening = 0
    /\ service' = [service EXCEPT !.destroy = TRUE, !.alive = FALSE]
    /\ UNCHANGED <<served, runs, holder>>

\* destroy(): with a session to clean up it only asks for it.
Destroy ==
    /\ service.alive /\ service.opening = 0
    /\ service' = [service EXCEPT !.destroy = TRUE, !.alive = Retains]
    /\ served' = IF Retains THEN [served EXCEPT ![service.current] = RequestCancel(@)] ELSE served
    /\ UNCHANGED <<runs, holder>>

\* The end of observe(): the descriptors, the link, and finishDestroy().
Released(k) ==
    /\ service.alive /\ service.opening = 0
    /\ served[k].observer = "reaped" /\ Releasable(served[k].state)
    /\ served' = [served EXCEPT ![k].observer = "done", ![k].linked = FALSE, ![k].control = FALSE]
    /\ service' = [service EXCEPT !.alive = ~(service.destroy /\ ~Retains)]
    /\ UNCHANGED <<runs, holder>>

Observer(k) ==
    /\ service.alive
    /\ \E s \in ObserverSteps(served[k]) : served' = [served EXCEPT ![k] = s]
    /\ UNCHANGED <<service, runs, holder>>

Child(k, steps) ==
    /\ \E s \in steps : served' = [served EXCEPT ![k] = s]
    /\ UNCHANGED <<service, runs, holder>>

-----------------------------------------------------------------------------
(* AppSocketBridge *)

\* accept(): one connection at a time, none once the bridge is closed; open() is called
\* under the lock.
Accept(k) ==
    /\ holder.alive /\ holder.bridge = "open" /\ holder.active = 0
    /\ runs[k].phase = "none" /\ \A j \in 1..(k - 1) : runs[j].phase # "none"
    /\ holder' = [holder EXCEPT !.active = k]
    /\ runs' = [runs EXCEPT ![k].phase = "opening"]
    /\ UNCHANGED <<service, served>>

\* The service is gone before open() is answered.
OpenFails(k) ==
    /\ runs[k].phase = "opening" /\ ~service.alive /\ holder.alive
    /\ Told(k, FALSE) /\ UNCHANGED <<service, served>>

\* stop() of a Run: the session it has is cancelled, the socket closed.
StopRun(k, rs) == IF k = 0 THEN rs ELSE [rs EXCEPT ![k].stopping = TRUE]
CancelRun(k, ss) ==
    IF k # 0 /\ service.alive /\ runs[k].session /\ ~runs[k].stopping THEN [ss EXCEPT ![k] = RequestCancel(@)] ELSE ss

\* input() fails, or output(), which then has nothing more to copy.
Breaks(k) ==
    /\ holder.alive /\ runs[k].phase = "observed" /\ ~runs[k].stopping
    /\ \E o \in {runs[k].output, "finished"} : runs' = [StopRun(k, runs) EXCEPT ![k].output = o]
    /\ served' = CancelRun(k, served)
    /\ UNCHANGED <<service, holder>>

\* output(): everything has been copied to a client that reads, or the socket is closed.
OutputFinishes(k) ==
    /\ holder.alive /\ runs[k].output = "flowing" /\ served[k].child \in {"dead", "quarantined"}
    /\ runs' = [runs EXCEPT ![k].output = "finished"]
    /\ UNCHANGED <<service, served, holder>>

\* Mutant: the connection is given up with the cleanup, whatever output is left.
ObserveTruncates(k) ==
    /\ holder.alive /\ runs[k].phase = "observed" /\ service.alive
    /\ runs[k].session /\ Releasable(served[k].state)
    /\ runs' = [runs EXCEPT ![k].phase = "done"]
    /\ holder' = [holder EXCEPT !.active = 0, !.jobs = @ \cup {"finish"}]
    /\ UNCHANGED <<service, served>>

\* observe(): a clean end frees the bridge for the next connection, after the output; an
\* end that can no longer be clean, or a service that does not answer, keeps it.
Observe(k) ==
    /\ holder.alive /\ runs[k].phase = "observed"
    /\ LET j == IF runs[k].session THEN k ELSE service.current
           st == IF j = 0 THEN [NewState EXCEPT !.refused = TRUE] ELSE served[j].state
           unresolved == st.failed \/ (st.terminal /\ ~st.clean) \/ st.reaped
           GivesUp == [runs EXCEPT ![k].phase = "gaveUp"]
       IN  \/ /\ service.alive /\ Releasable(st) /\ runs[k].output = "finished"  \* closes the socket
              /\ runs' = [runs EXCEPT ![k].phase = "done", ![k].stopping = TRUE]
              /\ holder' = [holder EXCEPT !.active = 0, !.jobs = @ \cup {"finish"}]
           \/ /\ service.alive /\ ~Releasable(st) /\ unresolved
              /\ runs' = GivesUp /\ holder' = Fail(holder)
           \/ ~service.alive /\ runs' = StopRun(k, GivesUp) /\ holder' = Fail(holder)
    /\ UNCHANGED <<service, served>>

-----------------------------------------------------------------------------
(* FoldExecutorRuntime, in the application.  While open() is being answered its lock, or
   the bridge's, is held. *)

Mine(actor) == holder.alive /\ actor /\ \A k \in Sockets : runs[k].phase # "opening"
Moves(h) == holder' = h /\ UNCHANGED <<service, served, runs>>
Job(job) == job \in holder.jobs
Done(job) == [holder EXCEPT !.jobs = @ \ {job}]

\* Mutant: a connection of the bridge is not waited for.
FinishIdle(h) ==
    CASE ~h.closing \/ h.closed -> h
      [] h.closing /\ ~h.closed /\ h.remote /\ h.active = 0 /\ Retains -> [h EXCEPT !.jobs = @ \cup {"finish"}]
      [] OTHER -> [h EXCEPT !.closed = TRUE, !.bound = FALSE, !.attached = FALSE, !.jobs = {}]

\* finishWhenClean(): a connection of the bridge ends by itself, a session of the service
\* is looked at again; a service that does not answer is no evidence.
FinishWhenClean(h) ==
    CASE ~h.closing \/ h.closed \/ h.active # 0 \/ (h.remote /\ ~service.alive) -> h
      [] h.closing /\ ~h.closed /\ h.active = 0 /\ h.remote /\ service.alive /\ Retains ->
           [h EXCEPT !.jobs = @ \cup {"finish"}]
      [] OTHER -> [h EXCEPT !.closed = TRUE, !.bound = FALSE, !.attached = FALSE, !.jobs = {}]

\* requestStop(), which closes the bridge and cancels what is running.
Stops(h) ==
    /\ holder' = RequestStop([h EXCEPT !.bridge = IF @ = "open" THEN "closed" ELSE @])
    /\ runs' = IF h.closing THEN runs ELSE StopRun(h.active, runs)
    /\ served' = CASE h.closing -> served
                   [] ~h.closing /\ h.session /\ service.alive -> [served EXCEPT ![1] = RequestCancel(@)]
                   [] OTHER -> CancelRun(h.active, served)
    /\ UNCHANGED service

Prepare ==
    /\ Mine(~holder.closing /\ holder.preparing = "none")
    /\ Moves([holder EXCEPT !.preparing = "pending", !.jobs = @ \cup {"admit"}])

Admit == /\ Mine(Job("admit"))
         /\ Moves([Done("admit") EXCEPT !.jobs = @ \cup {"attach"}]) \/ Moves(Fail(Done("admit")))

AttachBinder ==
    /\ Mine(Job("attach"))
    /\ Moves(IF holder.closing \/ holder.failed THEN FinishWhenClean(Done("attach"))
             ELSE [Done("attach") EXCEPT !.attached = TRUE])

\* 30 seconds after the attachment, if nothing has come of it.
InitializationTimeout == Mine(holder.attached /\ holder.preparing = "pending") /\ Stops(Fail(holder))

\* The binder has come and the permission is granted, refused, or something is wrong.
Bind ==
    /\ Mine(holder.attached /\ ~holder.closing /\ ~holder.failed /\ ~holder.bound)
    /\ Moves([holder EXCEPT !.bound = TRUE]) \/ Moves(Fail(holder)) \/ Stops(Fail(holder))

ServiceConnected ==
    /\ Mine(holder.bound /\ ~holder.remote /\ service.alive)
    /\ LET h == [holder EXCEPT !.remote = TRUE]
       IN  \/ (h.closing \/ h.failed) /\ Moves(FinishWhenClean(h))
           \/ /\ ~(h.closing \/ h.failed) /\ h.route = "native"
              /\ holder' = h /\ runs' = [runs EXCEPT ![1].phase = "opening"] /\ UNCHANGED <<service, served>>
           \/ /\ ~(h.closing \/ h.failed) /\ h.route = "bridge"
              /\ Moves([h EXCEPT !.bridge = "open", !.preparing = "ready"]) \/ Moves(Fail(h))

\* The binder or the service is lost; the listener of the bridge fails.
Lost == Mine(~holder.closed /\ (holder.attached \/ holder.bound) /\ ~(holder.failed /\ holder.closing))
        /\ Stops(Fail(holder))
AcceptFails ==
    /\ Mine(holder.bridge = "open")
    /\ holder' = Fail([holder EXCEPT !.bridge = "closed"])
    /\ runs' = StopRun(holder.active, runs) /\ served' = CancelRun(holder.active, served)
    /\ UNCHANGED service

ObserveNative ==
    /\ Mine(Job("observe"))
    /\ LET h == Done("observe")
           st == served[1].state
           again == [h EXCEPT !.jobs = @ \cup {"observe"}]
       IN  \/ ~service.alive /\ Stops(Fail(h))
           \/ service.alive /\ h.closing /\ Moves(FinishWhenClean(h))
           \/ /\ service.alive /\ ~h.closing /\ Outcome(st) = "CLOSED"
              /\ Moves(FinishWhenClean([Unprepared(h) EXCEPT !.closing = TRUE]))
           \/ service.alive /\ ~h.closing /\ Outcome(st) = "FAILED" /\ Stops(Fail(h))
           \/ /\ service.alive /\ ~h.closing /\ Outcome(st) = "ACTIVE"
              /\ IF st.ready /\ h.preparing = "pending"
                 THEN Moves([again EXCEPT !.preparing = "ready"]) \/ Stops(Fail(h))
                 ELSE Moves(again)

Finish == Mine(Job("finish") /\ ~Job("admit")) /\ Moves(FinishWhenClean(Done("finish")))

Stop == Mine(~holder.closed) /\ Stops(holder)

\* The application's process dies, and everything in it; a call of open() goes on.
ClientDies ==
    /\ holder.alive /\ holder' = [NewHolder(holder.route) EXCEPT !.alive = FALSE]
    /\ runs' = [k \in Sockets |-> IF runs[k].phase = "opening" THEN runs[k] ELSE NoRun]
    /\ UNCHANGED <<service, served>>

-----------------------------------------------------------------------------

RuntimeStep == Admit \/ AttachBinder \/ ObserveNative \/ Finish

ServiceNext ==
    \/ Prepare \/ RuntimeStep \/ InitializationTimeout \/ Bind \/ ServiceConnected \/ Lost
    \/ AcceptFails \/ Stop \/ ClientDies \/ Destroy
    \/ \E k \in Sockets :
        \/ Open(k) \/ Launch(k) \/ BinderDied(k) \/ Released(k) \/ Observer(k)
        \/ Child(k, ChildSteps(served[k]))
        \/ Accept(k) \/ OpenFails(k) \/ Breaks(k) \/ OutputFinishes(k) \/ Observe(k)

\* Threads run and Binder delivers; nothing makes a client read what the bridge has for it
\* until its socket is closed.  None of the steps of a session can be repeated without end,
\* so none of them starves another.
SessionStep(k) ==
    \/ Open(k) \/ Launch(k) \/ OpenFails(k) \/ BinderDied(k) \/ Released(k) \/ Observer(k)
    \/ Child(k, ChildProgress(served[k])) \/ (runs[k].stopping /\ OutputFinishes(k)) \/ Observe(k)

SessionProgress == \E k \in Sockets : SessionStep(k)
ServiceProgress == RuntimeStep

-----------------------------------------------------------------------------

\* The service owns one child at most, the one open(), preflight() and destroy() look at,
\* and its process never ends by destroy() while it does.
ServiceKeepsItsChild == \A k \in Sockets :
    Owned(served[k]) => service.current = k /\ service.alive

\* A child either has a link to the life of its client or the end of its control pipe,
\* whenever the client dies: before the link, between the link and the fork, after it.
\* (Not one whose observer thread could not be started, which is never released.)
ChildHasAnOwner == \A k \in Sockets :
    served[k].observer # "none" /\ ~served[k].linked => ~served[k].control

\* The bridge frees itself only when the session is gone and its output copied, and gives
\* up only on one that can never become clean any more; a runtime that is closed leaves no
\* child, no session on its way and no bridge.
BridgeIsRight ==
    /\ \A k \in Sockets :
        /\ runs[k].phase = "done" => ~Owned(served[k]) /\ runs[k].output = "finished"
        /\ runs[k].phase = "gaveUp" /\ runs[k].session /\ service.alive => ~Releasable(served[k].state)
    /\ holder.closed => \A k \in Sockets : ~Owned(served[k]) /\ runs[k].phase # "opening"
    /\ holder.closed => holder.bridge # "open"

\* Nothing more can be learnt of a child: it is quarantined, it has no observer, or its
\* reports or its end were not what they must be.
Unresolved(s) ==
    /\ s.child # "none" /\ ~Releasable(s.state)
    /\ s.child = "quarantined" \/ s.observer = "none" \/ s.state.failed \/ s.state.reaped

\* A runtime that is closing, a service that is to be destroyed and a client that has died
\* with a child running.
ServiceEndOwed ==
    /\ service.alive /\ \A k \in Sockets : ~Unresolved(served[k])
    /\ \/ holder.alive /\ holder.closing /\ ~holder.closed
          /\ \A k \in Sockets : runs[k].phase # "gaveUp"
       \/ service.destroy
       \/ ~holder.alive /\ \E k \in Sockets : Owned(served[k])
=============================================================================
