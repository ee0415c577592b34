------------------------ MODULE RuntimeAcquisition -------------------------
(***************************************************************************)
(* One launch of the native runtime, seen by its controller:               *)
(* NativeRuntimeAcquisition, which accepts one controller and hands it the *)
(* exec, config and host channels, StartupManifest, which advertises the   *)
(* endpoint, and cleanup_resources() of the native bootstrap.              *)
(*                                                                         *)
(* The tasks of run() are independent: the exec server, the lifetime       *)
(* packet of the controller, the wait for its handshake and the two        *)
(* channels.  Whichever ends first ends the session.                       *)
(***************************************************************************)
EXTENDS Naturals

VARIABLES
    acq,        \* where run() and the bootstrap around it are
    part,       \* the tasks of run()
    files,      \* the endpoint and the manifest on disk
    remote,     \* the controller
    children    \* does the backend own native children?

acquisitionVars == <<acq, part, files, remote, children>>

Parts == {"serving", "lifetime", "initialized", "config", "host"}

AcquisitionInit ==
    /\ acq = [pc |-> "construct", error |-> "none",
              server |-> "open", quarantined |-> FALSE, exit |-> 0]
    /\ part = [t \in Parts |-> "none"]
    /\ files = [socket |-> "absent", manifest |-> "absent"]
    /\ remote = [state |-> "away", initialized |-> FALSE]
    /\ children = FALSE

At(pc) == acq' = [acq EXCEPT !.pc = pc]
Abort(error) == acq' = [acq EXCEPT !.pc = "cancel", !.error = error]
Alive(t) == part[t] = "running"

------------------------------------------------------------------------------
(* Setup. *)

\* NativeRuntimeAcquisition.__init__: a private listener, or nothing.
BindEndpoint ==
    /\ acq.pc = "construct"
    /\ \/ At("publish") /\ files' = [files EXCEPT !.socket = "bound"]
       \/ acq' = [acq EXCEPT !.pc = "close", !.exit = 70] /\ UNCHANGED files
    /\ UNCHANGED <<part, remote, children>>

\* StartupManifest.__init__: published once and forced, or its own file is taken back.
PublishManifest ==
    /\ acq.pc = "publish"
    /\ \/ At("listen") /\ files' = [files EXCEPT !.manifest = "published"]
       \/ acq' = [acq EXCEPT !.pc = "close", !.exit = 70] /\ UNCHANGED files
    /\ UNCHANGED <<part, remote, children>>

------------------------------------------------------------------------------
(* The controller, which reads the manifest and connects. *)

Connects ==
    /\ remote.state = "away" /\ files.manifest = "published" /\ files.socket = "bound"
    /\ remote' = [remote EXCEPT !.state = "connected"]
    /\ UNCHANGED <<acq, part, files, children>>

\* initialize and initialized over the exec channel it was given.
Handshakes ==
    /\ remote.state = "acquired" /\ ~remote.initialized /\ Alive("serving")
    /\ remote' = [remote EXCEPT !.initialized = TRUE]
    /\ UNCHANGED <<acq, part, files, children>>

RemoteLeaves ==
    /\ remote.state \in {"connected", "acquired"}
    /\ remote' = [remote EXCEPT !.state = "gone"]
    /\ UNCHANGED <<acq, part, files, children>>

\* Requests over the channels may start native processes.
Works ==
    /\ Alive("serving") /\ remote.initialized /\ remote.state = "acquired"
    /\ children' = TRUE
    /\ UNCHANGED <<acq, part, files, remote>>

------------------------------------------------------------------------------
(* run() *)

\* _accept(): no deadline until a peer connects; the listener closes behind it.
AcceptController ==
    /\ acq.pc = "listen" /\ remote.state \in {"connected", "gone"}
    /\ \/ At("request") /\ files' = [files EXCEPT !.socket = "accepted"]
       \/ Abort("violation") /\ files' = [files EXCEPT !.socket = "accepted"]
    /\ UNCHANGED <<part, remote, children>>

\* Its acquire packet, within the startup deadline; then the three socket pairs.
GrantChannels ==
    /\ acq.pc = "request"
    /\ \/ /\ remote.state = "connected"
          /\ remote' = [remote EXCEPT !.state = "acquired"]
          /\ part' = [t \in Parts |-> IF t \in {"serving", "lifetime", "initialized"}
                                      THEN "running" ELSE "none"]
          /\ At("startup")
       \/ \E error \in {"eof", "violation", "timeout"} :
              /\ error = "eof" => remote.state = "gone"
              /\ Abort(error) /\ UNCHANGED <<part, remote>>
    /\ UNCHANGED <<files, children>>

\* A task ends: the lifetime and the exec stream with the controller, or by a breach of
\* it; the handshake in time or not; a channel as its peer leaves or breaks the protocol.
PartEnds(t) ==
    /\ Alive(t) /\ acq.pc \in {"startup", "ready", "serving"}
    /\ \E how \in {"done", "eof", "failed"} :
           /\ how = "eof" => remote.state = "gone"
           /\ t = "initialized" => how \in {"done", "failed"}
           /\ t = "initialized" /\ how = "done" => remote.initialized
           /\ t = "lifetime" => how # "done" \/ remote.state = "acquired"
           /\ t \in {"serving", "config", "host"} /\ how = "done" => remote.state = "gone"
           /\ part' = [part EXCEPT ![t] = how]
    /\ UNCHANGED <<acq, files, remote, children>>

Over(t) == part[t] \in {"done", "eof", "failed"}
ErrorOf(t) == IF part[t] = "eof" THEN "eof" ELSE "violation"

\* The first wait: a lifetime packet or the end of serving fails the startup, even when
\* the handshake completed at the same time.
Startup ==
    /\ acq.pc = "startup"
    /\ \E t \in Parts : Over(t)
    /\ IF Over("lifetime") THEN Abort(ErrorOf("lifetime"))
       ELSE IF Over("serving") THEN Abort(IF part["serving"] = "failed" THEN "violation" ELSE "eof")
       ELSE IF part["initialized"] = "failed" THEN Abort("timeout")
       ELSE At("ready")
    /\ UNCHANGED <<part, files, remote, children>>

\* The channels are built for the session, ready is sent, and their tasks begin.
SendReady ==
    /\ acq.pc = "ready"
    /\ \/ /\ At("serving")
          /\ part' = [part EXCEPT !["initialized"] = "none", !["config"] = "running",
                                  !["host"] = "running"]
       \/ Abort("violation") /\ UNCHANGED part
    /\ UNCHANGED <<files, remote, children>>

\* The second wait: what ended first ends the session, with its error if it has one.
SessionOver ==
    /\ acq.pc = "serving"
    /\ \E t \in Parts : Over(t)
    /\ Abort(IF \E t \in Parts : part[t] = "failed" THEN "violation"
             ELSE IF \E t \in Parts : part[t] = "eof" THEN "eof"
             ELSE IF part["lifetime"] = "done" THEN "violation" ELSE "none")
    /\ UNCHANGED <<part, files, remote, children>>

\* The control descriptor or a signal: the bootstrap cancels the task.
CancelRun ==
    /\ acq.pc \in {"listen", "request", "startup", "ready", "serving"}
    /\ Abort("cancelled")
    /\ UNCHANGED <<part, files, remote, children>>

\* The finally of run(): sockets are shut down, tasks cancelled and awaited.
PartCancelled(t) ==
    /\ acq.pc = "cancel" /\ Alive(t)
    /\ part' = [part EXCEPT ![t] = "none"]
    /\ UNCHANGED <<acq, files, remote, children>>

\* server.close(), which closes the backend: its children are proved gone, or it raises.
ServerCloses ==
    /\ acq.pc = "cancel" /\ \A t \in Parts : ~Alive(t)
    /\ \/ children' = FALSE /\ acq' = [acq EXCEPT !.pc = "endpoint", !.server = "closed"]
       \/ UNCHANGED children /\ acq' = [acq EXCEPT !.pc = "endpoint", !.server = "closed",
                                                   !.error = "violation", !.quarantined = TRUE]
    /\ UNCHANGED <<part, files, remote>>

\* close_endpoint(), whatever close() did; then run() returns its error to the bootstrap.
EndpointCloses ==
    /\ acq.pc = "endpoint"
    /\ files' = [files EXCEPT !.socket = "absent"]
    /\ acq' = [acq EXCEPT !.pc = "close",
                          !.exit = IF acq.error \in {"none", "cancelled"} THEN @
                                   ELSE IF acq.error = "eof" /\ remote.initialized THEN @ ELSE 70]
    /\ UNCHANGED <<part, remote, children>>

------------------------------------------------------------------------------
(* cleanup_resources(): the endpoint and the manifest go only after the backend. *)

CleanupResources ==
    /\ acq.pc = "close"
    /\ \/ /\ ~acq.quarantined
          /\ At("manifest") /\ children' = FALSE
          /\ files' = [files EXCEPT !.socket = "absent"]
       \/ acq' = [acq EXCEPT !.pc = "over", !.quarantined = TRUE] /\ UNCHANGED <<files, children>>
    /\ UNCHANGED <<part, remote>>

\* remove() refuses a file that is not the one published.
RemoveManifest ==
    /\ acq.pc = "manifest"
    /\ \/ files' = [files EXCEPT !.manifest = "absent"] /\ At("over")
       \/ acq' = [acq EXCEPT !.pc = "over", !.quarantined = TRUE] /\ UNCHANGED files
    /\ UNCHANGED <<part, remote, children>>

AcquisitionRest ==
    /\ acq.pc = "over"
    /\ UNCHANGED acquisitionVars

------------------------------------------------------------------------------

RemoteStep ==
    /\ acq.pc # "over"
    /\ Connects \/ Handshakes \/ RemoteLeaves \/ Works

RunStep ==
    \/ BindEndpoint \/ PublishManifest
    \/ AcceptController \/ GrantChannels \/ Startup \/ SendReady \/ SessionOver
    \/ \E t \in Parts : PartCancelled(t)
    \/ ServerCloses \/ EndpointCloses
    \/ CleanupResources \/ RemoveManifest

AcquisitionNext ==
    \/ RemoteStep
    \/ RunStep
    \/ CancelRun
    \/ \E t \in Parts : PartEnds(t)
    \/ AcquisitionRest

\* The event loop runs what is ready; a controller that is gone is noticed.
AcquisitionProgress == RunStep \/ (remote.state = "gone" /\ PartEnds("lifetime"))

------------------------------------------------------------------------------

\* The manifest that names this launch is on disk for as long as native children may
\* live, and once the endpoint is gone no task serves its controller any more.
AdvertisedUntilClean ==
    /\ children => files.manifest = "published"
    /\ files.socket = "absent" => \A t \in Parts : ~Alive(t)

\* A controller that left is owed the end of its launch: every task, the server, the
\* endpoint.
LaunchEndOwed == remote.state = "gone" /\ acq.pc # "over"
=============================================================================
