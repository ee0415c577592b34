--------------------------- MODULE DirectProcesses ---------------------------
(***************************************************************************)
(* tools/executor/bionic-supervisor: direct_processes.py and               *)
(* tty_processes.py, the ordinary-uid profiles.  Their _run() also watches *)
(* the cancellation and the retained event, then gives the owner a grace;  *)
(* the cleanup is proved by the report, the exit status, both pipes' end   *)
(* and the output accounting together (_clean).                            *)
(***************************************************************************)
EXTENDS NativeProcesses

\* _control(): nothing may follow the result, and an exit may precede the exec.
DirectReads(r, m) ==
    CASE r.result # "none" -> Breaks(r)
      [] m = "ready"    -> IF r.ready THEN Breaks(r) ELSE [r EXCEPT !.ready = TRUE]
      [] m = "started"  -> IF ~r.ready \/ r.execd THEN Breaks(r) ELSE Executes(r)
      [] m = "exited"   -> IF ~r.ready \/ r.exit THEN Breaks(r) ELSE [r EXCEPT !.exit = TRUE]
      [] m = "retained" -> IF ~r.ready THEN Breaks(r) ELSE [Terminated(r) EXCEPT !.retained = TRUE]
      [] m \in {"clean", "unclean"} -> [Fails(r) EXCEPT !.result = m]
      [] OTHER -> Breaks(r)

TtyReads(r, m) == DirectReads(r, m)

\* _quarantine(): the backend and the owner of the workspace.
DirectQuarantine == [quarantined EXCEPT !["model"] = TRUE, !["direct"] = TRUE]
TtyQuarantine == [quarantined EXCEPT !["model"] = TRUE, !["tty"] = TRUE]

\* _clean().
DirectClean(p) ==
    /\ rec[p].result = "clean"
    /\ sup[p].at = "gone"
    /\ rec[p].pipes = "eof"
    /\ rec[p].execd => rec[p].exit

TtyClean(p) == DirectClean(p)

ReceiveDirect(p, r, after) ==
    /\ rec[p].control = "read" /\ sup[p].ctl # <<>>
    /\ Take(p, r)
    /\ quarantined' = IF r.retained /\ ~rec[p].retained THEN after ELSE quarantined
    /\ UNCHANGED <<lease, faults>>

\* Nothing is awaited between the checks on the lease and the spawn.
Launch(p, refused) ==
    /\ rec[p].run = "check"
    /\ \/ /\ rec' = [rec EXCEPT ![p] = IF refused \/ rec[p].term THEN [Fails(@) EXCEPT !.run = "join"]
                                       ELSE [@ EXCEPT !.run = "spawn", !.command = "open"]]
          /\ UNCHANGED faults
       \/ Fault /\ rec' = [rec EXCEPT ![p] = [Fails(@) EXCEPT !.run = "join"]]
    /\ UNCHANGED <<sup, lease, quarantined>>

\* The first wait: the communication, a cancellation or the retained event (no wall limit
\* is set); the second, after T, lasts the grace.
Supervise(p, clean) ==
    /\ \/ /\ rec[p].run \in {"comm", "grace"} /\ CommunicationDone(p)
          /\ rec' = [rec EXCEPT ![p] = IF clean THEN [@ EXCEPT !.run = "settle", !.clean = TRUE]
                                       ELSE [Terminated(Fails(@)) EXCEPT !.run = "settle"]]
       \/ /\ rec[p].run \in {"comm", "grace"} /\ CommunicationFails(p)
          /\ rec' = [rec EXCEPT ![p] = [Terminated(Fails(@)) EXCEPT !.run = "term"]]
       \/ /\ rec[p].run = "comm" /\ (rec[p].term \/ rec[p].retained)
          /\ ~CommunicationDone(p) /\ ~CommunicationFails(p)
          /\ rec' = [rec EXCEPT ![p] = [Terminated(@) EXCEPT !.run = "grace"]]
       \/ /\ rec[p].run = "grace" /\ ~CommunicationDone(p) /\ ~CommunicationFails(p)
          /\ rec' = [rec EXCEPT ![p] = [Terminated(Fails(@)) EXCEPT !.run = "term"]]
    /\ UNCHANGED <<sup, lease, quarantined, faults>>

\* The wait of the finally for every pending task, for one more grace.
AwaitAll(p) ==
    /\ rec[p].run = "term"
    /\ rec' = [rec EXCEPT ![p].run = "settle"]
    /\ UNCHANGED <<sup, lease, quarantined, faults>>

\* A pending reader or wait is retained with its descriptors, everything else closed.
SettleDirect(p, clean, after) ==
    /\ rec[p].run = "settle"
    /\ LET r == rec[p]
           proved == r.clean \/ clean
           pending == ~Reaped(p) \/ r.control \in {"read", "decide"} \/ r.pipes = "open"
       IN  /\ rec' = [rec EXCEPT ![p] = [(IF pending THEN r ELSE Cancelled(r))
                                             EXCEPT !.run = "join", !.clean = proved]]
           /\ quarantined' = IF ~proved THEN after ELSE quarantined
           /\ IF pending THEN UNCHANGED sup ELSE CloseSockets(p)
    /\ UNCHANGED <<lease, faults>>

------------------------------------------------------------------------------
(* direct_processes.py *)

DirectControl(p) ==
    /\ kind[p] = "direct"
    /\ ReceiveDirect(p, DirectReads(rec[p], Head(sup[p].ctl)), DirectQuarantine)

\* Mutant: only the backend's own flag is consulted after the wait for the lock.
DirectPrepareUnchecked(p, filesClosed) ==
    kind[p] = "direct" /\ Launch(p, quarantined["direct"] \/ filesClosed)

\* _unavailable(): its own flag, a closed file backend or the owner's flag.
DirectPrepare(p, filesClosed) ==
    kind[p] = "direct" /\ Launch(p, quarantined["direct"] \/ quarantined["model"] \/ filesClosed)

DirectSupervise(p) == kind[p] = "direct" /\ Supervise(p, DirectClean(p))
DirectAwaitAll(p) == kind[p] = "direct" /\ AwaitAll(p)
DirectSettle(p) == kind[p] = "direct" /\ SettleDirect(p, DirectClean(p), DirectQuarantine)
DirectEnd(p) == kind[p] = "direct" /\ End(p, "emit") /\ UNCHANGED quarantined

\* The closed event and the end of the event stream are awaited.
DirectEmit(p) ==
    /\ kind[p] = "direct" /\ rec[p].run = "emit"
    /\ rec' = [rec EXCEPT ![p].run = "done"]
    /\ UNCHANGED <<sup, lease, quarantined, faults>>

DirectStep(p, filesClosed) ==
    \/ DirectControl(p) \/ DirectPrepare(p, filesClosed) \/ DirectSupervise(p)
    \/ DirectAwaitAll(p) \/ DirectSettle(p) \/ DirectEnd(p) \/ DirectEmit(p)

------------------------------------------------------------------------------
(* tty_processes.py *)

TtyControl(p) ==
    /\ kind[p] = "tty"
    /\ ReceiveDirect(p, TtyReads(rec[p], Head(sup[p].ctl)), TtyQuarantine)

TtyPrepare(p, filesClosed) ==
    kind[p] = "tty" /\ Launch(p, quarantined["tty"] \/ quarantined["model"] \/ filesClosed)

TtySupervise(p) == kind[p] = "tty" /\ Supervise(p, TtyClean(p))
TtyAwaitAll(p) == kind[p] = "tty" /\ AwaitAll(p)
TtySettle(p) == kind[p] = "tty" /\ SettleDirect(p, TtyClean(p), TtyQuarantine)
TtyEnd(p) == kind[p] = "tty" /\ End(p, "emit") /\ UNCHANGED quarantined

TtyEmit(p) ==
    /\ kind[p] = "tty" /\ rec[p].run = "emit"
    /\ rec' = [rec EXCEPT ![p].run = "done"]
    /\ UNCHANGED <<sup, lease, quarantined, faults>>

TtyStep(p, filesClosed) ==
    \/ TtyControl(p) \/ TtyPrepare(p, filesClosed) \/ TtySupervise(p)
    \/ TtyAwaitAll(p) \/ TtySettle(p) \/ TtyEnd(p) \/ TtyEmit(p)
=============================================================================
