--------------------------- MODULE BionicProcesses ---------------------------
(***************************************************************************)
(* tools/executor/bionic-supervisor: processes.py (the managed profile),   *)
(* host_processes.py and host_pty_processes.py.  Nobody kills a supervisor *)
(* here: one that does not end keeps its tasks, its policy and the lease,  *)
(* and `ownership-retained' says so before the end.                        *)
(***************************************************************************)
EXTENDS NativeProcesses

\* _control() of the managed profile.  A supervisor that is gone cannot take P; only its
\* result can still prove the cleanup.
ManagedReads(r, m) ==
    CASE m = "ready"    -> IF r.ready THEN Breaks(r) ELSE [r EXCEPT !.ready = TRUE]
      [] m = "acquire"  -> IF ~r.ready \/ r.result # "none" THEN Breaks(r) ELSE [r EXCEPT !.control = "decide"]
      [] m = "started"  -> IF r.execd THEN Breaks(r) ELSE Executes(r)
      [] m = "exited"   -> IF r.exit THEN Breaks(r) ELSE [r EXCEPT !.exit = TRUE]
      [] m = "retained" -> r
      [] m \in {"clean", "unclean"} ->
             IF r.result # "none" THEN Breaks(r) ELSE [Fails(r) EXCEPT !.result = m]
      [] OTHER -> Breaks(r)

HostReads(r, m) == ManagedReads(r, m)
HostPtyReads(r, m) == HostReads(r, m)

\* A host process quarantines its own backend and, by _quarantine_owner(), the owner.
ManagedQuarantine == [quarantined EXCEPT !["model"] = TRUE]
HostQuarantine == [quarantined EXCEPT !["model"] = TRUE, !["host"] = TRUE]

Receive(p, r, after) ==
    /\ rec[p].control = "read" /\ sup[p].ctl # <<>>
    /\ Take(p, r)
    /\ quarantined' = IF Head(sup[p].ctl) = "retained" THEN after ELSE quarantined
    /\ UNCHANGED <<lease, faults>>

\* The end of the communication: with the supervisor reaped there is nothing to wait for.
Communicate(p, timed) ==
    /\ rec[p].run = "comm"
    /\ \/ /\ CommunicationDone(p)
          /\ rec' = [rec EXCEPT ![p] = [Fails(@) EXCEPT !.run = "settle", !.clean = rec[p].result = "clean"]]
       \/ /\ CommunicationFails(p)
          /\ rec' = [rec EXCEPT ![p] = IF Reaped(p) THEN [Fails(@) EXCEPT !.run = "settle"]
                                       ELSE [Terminated(Fails(@)) EXCEPT !.run = "term"]]
       \/ /\ timed /\ ~CommunicationDone(p) /\ ~CommunicationFails(p)
          /\ rec' = [rec EXCEPT ![p] = IF Reaped(p) THEN [Fails(@) EXCEPT !.run = "settle", !.retained = TRUE]
                                       ELSE [Terminated(Fails(@)) EXCEPT !.run = "term", !.retained = TRUE]]
    /\ UNCHANGED <<sup, lease, quarantined, faults>>

\* Six seconds for the supervisor to end; one that does not is retained.
AwaitExit(p) ==
    /\ rec[p].run = "term"
    /\ rec' = [rec EXCEPT ![p].run = "settle", ![p].retained = @ \/ ~Reaped(p)]
    /\ UNCHANGED <<sup, lease, quarantined, faults>>

\* The proof of cleanup needs the supervisor's report and its exit.
Settle(p, after) ==
    /\ rec[p].run = "settle"
    /\ LET r == rec[p]
           proved == r.clean \/ (r.result = "clean" /\ Reaped(p))
       IN  /\ rec' = [rec EXCEPT ![p] = [(IF r.retained THEN r ELSE Cancelled(r))
                                             EXCEPT !.run = "join", !.clean = proved]]
           /\ quarantined' = IF ~proved THEN after ELSE quarantined
           /\ IF r.retained THEN UNCHANGED sup ELSE CloseSockets(p)
    /\ UNCHANGED <<lease, faults>>

------------------------------------------------------------------------------
(* processes.py *)

ManagedControl(p) ==
    /\ kind[p] = "managed"
    /\ Receive(p, ManagedReads(rec[p], Head(sup[p].ctl)), ManagedQuarantine)

ManagedCheck(p) == kind[p] = "managed" /\ Check(p, quarantined["model"], "prepare")
ManagedPrepare(p) == kind[p] = "managed" /\ Prepare(p)
ManagedCommunication(p) == kind[p] = "managed" /\ Communicate(p, TRUE)
ManagedAwaitExit(p) == kind[p] = "managed" /\ AwaitExit(p)
ManagedSettle(p) == kind[p] = "managed" /\ Settle(p, ManagedQuarantine)
ManagedEnd(p) == kind[p] = "managed" /\ End(p, "done") /\ UNCHANGED quarantined

ManagedStep(p) ==
    \/ ManagedControl(p) \/ ManagedCheck(p) \/ ManagedPrepare(p) \/ ManagedCommunication(p)
    \/ ManagedAwaitExit(p) \/ ManagedSettle(p) \/ ManagedEnd(p)

------------------------------------------------------------------------------
(* host_processes.py.  No wall limit bounds the communication, and the closed event  *)
(* is awaited after the lease was released.                                          *)

HostControl(p) ==
    /\ kind[p] = "host"
    /\ Receive(p, HostReads(rec[p], Head(sup[p].ctl)), HostQuarantine)

HostCheck(p) == kind[p] = "host" /\ Check(p, quarantined["host"], "prepare")
HostPrepare(p) == kind[p] = "host" /\ Prepare(p)
HostCommunication(p) == kind[p] = "host" /\ Communicate(p, FALSE)
HostAwaitExit(p) == kind[p] = "host" /\ AwaitExit(p)
HostSettle(p) == kind[p] = "host" /\ Settle(p, HostQuarantine)
HostEnd(p) == kind[p] = "host" /\ End(p, "emit") /\ UNCHANGED quarantined

HostEmit(p) ==
    /\ rec[p].run = "emit"
    /\ rec' = [rec EXCEPT ![p].run = "done"]
    /\ UNCHANGED <<sup, lease, quarantined, faults>>

HostStep(p) ==
    \/ HostControl(p) \/ HostCheck(p) \/ HostPrepare(p) \/ HostCommunication(p)
    \/ HostAwaitExit(p) \/ HostSettle(p) \/ HostEnd(p)
    \/ kind[p] = "host" /\ HostEmit(p)

------------------------------------------------------------------------------
(* host_pty_processes.py: the same owner around a pseudo-terminal. *)

HostPtyControl(p) ==
    /\ kind[p] = "hostpty"
    /\ Receive(p, HostPtyReads(rec[p], Head(sup[p].ctl)), HostQuarantine)

HostPtyCheck(p) == kind[p] = "hostpty" /\ Check(p, quarantined["host"], "prepare")
HostPtyPrepare(p) == kind[p] = "hostpty" /\ Prepare(p)
HostPtyCommunication(p) == kind[p] = "hostpty" /\ Communicate(p, FALSE)
HostPtyAwaitExit(p) == kind[p] = "hostpty" /\ AwaitExit(p)
HostPtySettle(p) == kind[p] = "hostpty" /\ Settle(p, HostQuarantine)
HostPtyEnd(p) == kind[p] = "hostpty" /\ End(p, "emit") /\ UNCHANGED quarantined

HostPtyStep(p) ==
    \/ HostPtyControl(p) \/ HostPtyCheck(p) \/ HostPtyPrepare(p) \/ HostPtyCommunication(p)
    \/ HostPtyAwaitExit(p) \/ HostPtySettle(p) \/ HostPtyEnd(p)
    \/ kind[p] = "hostpty" /\ HostEmit(p)
=============================================================================
