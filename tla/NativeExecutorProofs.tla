------------------------ MODULE NativeExecutorProofs ------------------------
(***************************************************************************)
(* Proofs about the executor, for any processes and file operations.       *)
(*                                                                         *)
(* The lock, the quarantine and a record say little by themselves: that a  *)
(* record may release the lock follows from what was read on its control   *)
(* socket, that a supervisor may fork from the record it belongs to not    *)
(* having ended, and that a spawn meets no quarantine from nobody else     *)
(* being able to set it.  Local ties a record to its supervisor, the lock  *)
(* and the flag; IInv adds the file operations and the close.  Every step  *)
(* keeps IInv, maps to a step of WorkspaceLease and spawns only what is    *)
(* admitted (Sound).                                                       *)
(***************************************************************************)
EXTENDS NativeExecutor, TLAPS

\* A result that says the descendants are gone waits on the socket.
HasClean(c) == \E i \in 1..Len(c) : c[i] = "clean"

\* The supervisor forks no more and nothing it forked is left.
Quiet(s) == ~s.alive /\ s.at \in {"none", "reported", "gone", "lost"}

Over(r) == r.run \in {"emit", "done"}

\* One record and its supervisor; h: the record holds the lock, q: the owner is
\* quarantined, k: the backend.
Local(r, s, h, q, k) ==
    /\ s.at = "none" => ~s.alive /\ s.ctl = <<>> /\ r.result = "none" /\ ~r.clean /\ r.control = "off"
    /\ r.run \in {"none", "lease"} => s.at = "none" /\ ~h
    /\ r.run \in {"check", "prepare", "spawn"} => s.at = "none" /\ h
    /\ r.run \in {"comm", "grace", "term", "settle"} => s.at # "none" /\ h
    /\ r.run = "join" => h \/ s.at = "none"
    /\ Over(r) => (h /\ q) \/ (~h /\ r.closed)
    /\ r.closed => Over(r)
    /\ r.clean \/ r.closed \/ r.result = "clean" \/ HasClean(s.ctl) => Quiet(s)
    /\ r.control \in {"read", "decide"} => h /\ s.at # "none"
    /\ r.run = "join" /\ s.at # "none" /\ ~r.clean /\ k # "static" => q
    /\ r.run \in {"prepare", "spawn"} /\ k \notin {"host", "hostpty"} => ~q

ProcessesOK == \A p \in Proc : Local(rec[p], sup[p], lease = p, quarantined["model"], kind[p])

FilesOK ==
    \A f \in FileOp :
        /\ ops[f].at \in {"plan", "helper", "reap", "settled"} <=> lease = f
        /\ ops[f].at \in {"helper", "reap"} => session.held

CloseOK ==
    /\ session.closing <=> session.close # "no"
    /\ ~session.held <=> session.close = "ok"
    /\ session.close \in {"files", "ok"} => \A p \in Proc : ~Live(p)
    /\ session.close = "ok" => lease \notin Proc

IInv == TypeOK /\ ProcessesOK /\ FilesOK /\ CloseOK

Admitted == \A p \in Proc : ~Hosted(p) /\ ~Spawned(p) /\ Spawned(p)' => ~quarantined["model"]

Sound == IInv' /\ [Lease!Next]_(Lease!vars) /\ Admitted

------------------------------------------------------------------------------
(* Messages and records. *)

\* Nothing waits on a new socket or on one that was closed.
LEMMA CleanEmpty == <<>> \in Seq(Messages) /\ ~HasClean(<<>>)
BY DEF HasClean

\* A message joins the ones that wait (Say, with one message).
LEMMA CleanAppend ==
    ASSUME NEW c \in Seq(Messages), NEW m \in Messages
    PROVE  /\ Append(c, m) \in Seq(Messages) /\ c \o <<m>> \in Seq(Messages)
           /\ HasClean(Append(c, m)) => HasClean(c) \/ m = "clean"
           /\ HasClean(c \o <<m>>) => HasClean(c) \/ m = "clean"
<1>1. Append(c, m) \in Seq(Messages) /\ c \o <<m>> \in Seq(Messages)
  OBVIOUS
<1>2. HasClean(Append(c, m)) => HasClean(c) \/ m = "clean"
  BY DEF HasClean
<1>3. c \o <<m>> = Append(c, m)
  OBVIOUS
<1> QED BY <1>1, <1>2, <1>3, Zenon

\* A supervisor that ends says nothing more.
LEMMA CleanSame == ASSUME NEW c \in Seq(Messages) PROVE c \o <<>> = c
OBVIOUS

\* The head of the socket is read, the others stay (Take).
LEMMA CleanTail ==
    ASSUME NEW c \in Seq(Messages), c # <<>>
    PROVE  /\ Tail(c) \in Seq(Messages) /\ Head(c) \in Messages
           /\ HasClean(Tail(c)) => HasClean(c)
           /\ Head(c) = "clean" => HasClean(c)
<1>1. Tail(c) \in Seq(Messages) /\ Head(c) \in Messages /\ Len(c) >= 1 /\ Head(c) = c[1]
  OBVIOUS
<1>2. \A i \in 1..Len(Tail(c)) : i + 1 \in 1..Len(c) /\ Tail(c)[i] = c[i + 1]
  OBVIOUS
<1>3. HasClean(Tail(c)) => HasClean(c)
  BY <1>2 DEF HasClean
<1>4. Head(c) = "clean" => HasClean(c)
  BY <1>1 DEF HasClean
<1> QED BY <1>1, <1>3, <1>4

\* What Local reads of a record.
Keeps(t, r) ==
    /\ t \in Record
    /\ t.run = r.run /\ t.result = r.result /\ t.clean = r.clean /\ t.closed = r.closed

\* The updates every backend makes of a record.
LEMMA Updates ==
    ASSUME NEW r \in Record
    PROVE  /\ Keeps(Terminated(r), r) /\ Terminated(r).control = r.control
           /\ Keeps(Fails(r), r) /\ Fails(r).control = r.control
           /\ Keeps(Breaks(r), r) /\ Breaks(r).control = "error"
           /\ Keeps(Executes(r), r) /\ Executes(r).control = r.control
           /\ Keeps(Cancelled(r), r) /\ Cancelled(r).control \notin {"read", "decide"}
           /\ r.control = "off" => Cancelled(r).control = "off"
<1>1. Keeps(Terminated(r), r) /\ Terminated(r).control = r.control
  BY Zenon DEF Keeps, Terminated, Record
<1>2. Keeps(Fails(r), r) /\ Fails(r).control = r.control
  BY DEF Keeps, Fails, Record
<1>3. Keeps(Breaks(r), r) /\ Breaks(r).control = "error"
  BY DEF Keeps, Breaks, Record
<1>4. Keeps(Executes(r), r) /\ Executes(r).control = r.control
  <2>1. CASE r.term
    BY <1>1, <2>1, Zenon DEF Keeps, Executes, Record
  <2>2. CASE ~r.term
    BY <2>2, Zenon DEF Keeps, Executes, Record
  <2> QED BY <2>1, <2>2
<1>5. /\ Keeps(Cancelled(r), r) /\ Cancelled(r).control \notin {"read", "decide"}
      /\ r.control = "off" => Cancelled(r).control = "off"
  <2> DEFINE c == IF r.control \in {"read", "decide"} THEN "off" ELSE r.control
             o == IF r.pipes = "open" THEN "off" ELSE r.pipes
             r1 == [r EXCEPT !.control = c]
             r2 == [r1 EXCEPT !.pipes = o]
             r3 == [r2 EXCEPT !.command = "none"]
  <2>1. /\ c \in {"off", "eof", "error"} /\ o \in {"off", "eof", "differs", "error"}
        /\ r.control = "off" => c = "off"
    BY DEF Record
  <2>2. Cancelled(r) = r3
    BY DEF Cancelled, Record
  <2> HIDE DEF c, o
  <2>3. Keeps(r1, r) /\ r1.control = c
    BY <2>1, Zenon DEF Keeps, Record
  <2> HIDE DEF r1
  <2>4. Keeps(r2, r1) /\ r2.control = r1.control
    BY <2>1, <2>3, Zenon DEF Keeps, Record
  <2> HIDE DEF r2
  <2>5. Keeps(r3, r2) /\ r3.control = r2.control
    BY <2>4, Zenon DEF Keeps, Record
  <2> QED BY <2>1, <2>2, <2>3, <2>4, <2>5, Zenon DEF Keeps
<1> QED BY <1>1, <1>2, <1>3, <1>4, <1>5

\* The record of a process that was not started has its type.
LEMMA NewRecord == NoRecord \in Record /\ NoSupervisor \in Supervisor
BY CleanEmpty DEF NoRecord, Record, Phases, NoSupervisor, Supervisor

------------------------------------------------------------------------------
(* Steps of one process. *)

\* A step that changes one record and its supervisor, passes the lock only between the
\* record and nobody and sets the flag only under it, keeps the invariant if it keeps
\* Local of that process.
LEMMA LocalStep ==
    ASSUME IInv, NEW p \in Proc, NEW r \in Record, NEW s \in Supervisor,
           rec' = [rec EXCEPT ![p] = r], sup' = [sup EXCEPT ![p] = s],
           UNCHANGED <<kind, ops, session>>,
           lease' = lease \/ (Live(p) /\ lease \in {p, Free} /\ lease' \in {p, Free}),
           request' \in [Proc -> Requests], faults' \in 0..MaxFaults,
           quarantined' \in [Backends -> BOOLEAN],
           quarantined["model"] => quarantined'["model"],
           lease = p \/ quarantined' = quarantined,
           Local(r, s, lease' = p, quarantined'["model"], kind[p]),
           session.closing /\ ~Live(p) => r.run = rec[p].run
    PROVE  IInv'
<1> USE DEF IInv
<1>1. TypeOK'
  BY Zenon DEF TypeOK
<1>2. \A x \in Proc : x # p => rec'[x] = rec[x] /\ sup'[x] = sup[x]
  BY DEF TypeOK
<1>3. rec'[p] = r /\ sup'[p] = s
  BY DEF TypeOK
<1>4. p \notin FileOp /\ Free \notin Proc /\ Free \notin FileOp
  BY ProcAssumption
<1>5. /\ \A x \in Proc : x # p => (lease' = x <=> lease = x)
      /\ \A f \in FileOp : lease' = f <=> lease = f
  BY <1>4
<1>6. ProcessesOK'
  <2> SUFFICES ASSUME NEW x \in Proc
               PROVE  Local(rec'[x], sup'[x], lease' = x, quarantined'["model"], kind[x])
    BY DEF ProcessesOK
  <2>1. CASE x = p
    BY <1>3, <2>1
  <2>2. CASE x # p
    <3>1. Local(rec[x], sup[x], lease = x, quarantined["model"], kind[x])
      BY DEF ProcessesOK
    <3>2. lease = x => quarantined' = quarantined
      BY <2>2
    <3> QED BY <1>2, <1>5, <2>2, <3>1, <3>2 DEF Local
  <2> QED BY <2>1, <2>2
<1>7. FilesOK'
  BY <1>5 DEF FilesOK
<1>8. CloseOK'
  <2>1. \A x \in Proc : session.closing /\ ~Live(x) => ~Live(x)'
    BY <1>2, <1>3 DEF Live
  <2> QED BY <1>4, <2>1 DEF CloseOK
<1> QED BY <1>1, <1>6, <1>7, <1>8

\* If it leaves the lock, forks, reaps and ends nothing, it is no step of the lease.
LEMMA QuietStep ==
    ASSUME IInv, NEW p \in Proc, NEW r \in Record, NEW s \in Supervisor,
           rec' = [rec EXCEPT ![p] = r], sup' = [sup EXCEPT ![p] = s],
           UNCHANGED <<kind, lease, ops, session>>,
           request' \in [Proc -> Requests], faults' \in 0..MaxFaults,
           quarantined' \in [Backends -> BOOLEAN],
           quarantined["model"] => quarantined'["model"],
           lease = p \/ quarantined' = quarantined,
           Local(r, s, lease = p, quarantined'["model"], kind[p]),
           session.closing /\ ~Live(p) => r.run = rec[p].run,
           s.alive = sup[p].alive, Over(r) <=> Over(rec[p]),
           ~Hosted(p) /\ sup[p].at = "none" /\ s.at # "none" => ~quarantined["model"]
    PROVE  Sound
<1>1. IInv'
  BY LocalStep, Zenon
<1>2. rec'[p] = r /\ sup'[p] = s /\ \A x \in Proc : x # p => rec'[x] = rec[x] /\ sup'[x] = sup[x]
  BY DEF IInv, TypeOK
<1>3. \A x \in Proc : sup'[x].alive = sup[x].alive /\ (Over(rec'[x]) <=> Over(rec[x]))
  BY <1>2
<1>4. Acting' = Acting /\ Lost' = Lost
  BY <1>3 DEF Acting, Lost, Over
<1>5. UNCHANGED Lease!vars
  BY <1>4 DEF Lease!vars
<1>6. Admitted
  BY <1>2 DEF Admitted, Spawned
<1> QED BY <1>1, <1>5, <1>6 DEF Sound

\* What the invariant says of one process.
LEMMA Facts ==
    ASSUME IInv, NEW p \in Proc
    PROVE  /\ rec[p] \in Record /\ sup[p] \in Supervisor
           /\ Local(rec[p], sup[p], lease = p, quarantined["model"], kind[p])
           /\ rec = [rec EXCEPT ![p] = rec[p]] /\ sup = [sup EXCEPT ![p] = sup[p]]
           /\ request \in [Proc -> Requests] /\ faults \in 0..MaxFaults
           /\ quarantined \in [Backends -> BOOLEAN]
BY DEF IInv, TypeOK, ProcessesOK

\* A fault is counted.
LEMMA FaultType == ASSUME IInv, Fault PROVE faults' \in 0..MaxFaults
BY FaultAssumption DEF IInv, TypeOK, Fault

\* Only the record changes.
LEMMA RecordStep ==
    ASSUME IInv, NEW p \in Proc, NEW r \in Record,
           rec' = [rec EXCEPT ![p] = r], UNCHANGED <<kind, sup, lease, quarantined, ops, session>>,
           request' \in [Proc -> Requests], faults' \in 0..MaxFaults,
           Local(r, sup[p], lease = p, quarantined["model"], kind[p]),
           session.closing /\ ~Live(p) => r.run = rec[p].run, Over(r) <=> Over(rec[p])
    PROVE  Sound
<1>1. sup[p] \in Supervisor /\ sup' = [sup EXCEPT ![p] = sup[p]] /\ quarantined' \in [Backends -> BOOLEAN]
  BY Facts
<1> QED BY <1>1, QuietStep, Zenon

\* Only the supervisor changes.
LEMMA NativeStep ==
    ASSUME IInv, NEW p \in Proc, NEW s \in Supervisor,
           sup' = [sup EXCEPT ![p] = s],
           UNCHANGED <<kind, rec, lease, quarantined, request, ops, session>>,
           faults' \in 0..MaxFaults,
           Local(rec[p], s, lease = p, quarantined["model"], kind[p]),
           s.alive = sup[p].alive, s.at = "none" <=> sup[p].at = "none"
    PROVE  Sound
<1>1. rec[p] \in Record /\ rec' = [rec EXCEPT ![p] = rec[p]] /\ quarantined' \in [Backends -> BOOLEAN]
      /\ request' \in [Proc -> Requests]
  BY Facts
<1> QED BY <1>1, QuietStep, Zenon

\* t is r in another phase.
Moves(t, r, run) ==
    /\ t \in Record /\ t.run = run /\ t.result = r.result
    /\ t.clean = r.clean /\ t.closed = r.closed /\ t.control = r.control

\* The updates that go with a change of phase.
LEMMA Moved ==
    ASSUME NEW r \in Record, NEW run \in Phases
    PROVE  /\ Moves([r EXCEPT !.run = run], r, run)
           /\ Moves([r EXCEPT !.run = run, !.command = "open"], r, run)
           /\ Moves([Fails(r) EXCEPT !.run = run], r, run)
           /\ Moves([Fails(r) EXCEPT !.run = run, !.command = "none"], r, run)
           /\ Moves([Fails(r) EXCEPT !.run = run, !.retained = TRUE], r, run)
           /\ Moves([Terminated(r) EXCEPT !.run = run], r, run)
           /\ Moves([Terminated(Fails(r)) EXCEPT !.run = run], r, run)
           /\ Moves([Terminated(Fails(r)) EXCEPT !.run = run, !.retained = TRUE], r, run)
<1>1. Moves([r EXCEPT !.run = run], r, run) /\ Moves([r EXCEPT !.run = run, !.command = "open"], r, run)
  BY Zenon DEF Moves, Record
<1>2. ASSUME NEW t, Keeps(t, r), t.control = r.control
      PROVE  /\ Moves([t EXCEPT !.run = run], r, run)
             /\ Moves([t EXCEPT !.run = run, !.command = "none"], r, run)
             /\ Moves([t EXCEPT !.run = run, !.retained = TRUE], r, run)
  BY <1>2, ZenonT(40) DEF Moves, Keeps, Record
<1>3. Keeps(Fails(r), r) /\ Fails(r).control = r.control /\ Keeps(Terminated(r), r) /\ Terminated(r).control = r.control
  BY Updates
<1>4. Keeps(Terminated(Fails(r)), r) /\ Terminated(Fails(r)).control = r.control
  <2>1. Fails(r) \in Record
    BY <1>3 DEF Keeps
  <2>2. Keeps(Terminated(Fails(r)), Fails(r)) /\ Terminated(Fails(r)).control = Fails(r).control
    BY <2>1, Updates
  <2> QED BY <1>3, <2>2 DEF Keeps
<1> QED BY <1>1, <1>2, <1>3, <1>4, Zenon

\* A start that fails before the spawn has nothing to clean up.
LEMMA GiveUpStart ==
    ASSUME IInv, NEW p \in Proc, rec[p].run \in {"lease", "check", "prepare", "spawn"},
           NEW r, Moves(r, rec[p], "join"), rec' = [rec EXCEPT ![p] = r],
           UNCHANGED <<kind, sup, lease, quarantined, request, ops, session>>, faults' \in 0..MaxFaults
    PROVE  Sound
<1>1. Local(r, sup[p], lease = p, quarantined["model"], kind[p])
  BY Facts DEF Moves, Local, Over
<1> QED BY <1>1, Facts, RecordStep, Zenon DEF Moves, Live, Over

\* Before the spawn the record goes on under its lock; a model process only if the owner
\* is not quarantined.
LEMMA GoOn ==
    ASSUME IInv, NEW p \in Proc, rec[p].run \in {"check", "prepare"},
           NEW run \in {"prepare", "spawn"}, NEW r, Moves(r, rec[p], run), rec' = [rec EXCEPT ![p] = r],
           ~Hosted(p) => ~quarantined["model"],
           UNCHANGED <<kind, sup, lease, quarantined, request, ops, session>>, faults' \in 0..MaxFaults
    PROVE  Sound
<1>1. Local(r, sup[p], lease = p, quarantined["model"], kind[p])
  BY Facts DEF Moves, Local, Over, Hosted
<1> QED BY <1>1, Facts, RecordStep, Zenon DEF Moves, Live, Over

\* After the spawn the record goes on under its lock.
LEMMA WindDown ==
    ASSUME IInv, NEW p \in Proc, rec[p].run \in {"comm", "grace", "term"},
           NEW run \in {"grace", "term", "settle"}, NEW r, Moves(r, rec[p], run), rec' = [rec EXCEPT ![p] = r],
           UNCHANGED <<kind, sup, lease, quarantined, request, ops, session>>, faults' \in 0..MaxFaults
    PROVE  Sound
<1>1. Local(r, sup[p], lease = p, quarantined["model"], kind[p])
  BY Facts DEF Moves, Local, Over
<1> QED BY <1>1, Facts, RecordStep, Zenon DEF Moves, Live, Over

\* A termination or an answered start touches nothing Local reads.
LEMMA KeepStep ==
    ASSUME IInv, NEW p \in Proc, NEW r, Keeps(r, rec[p]), r.control = rec[p].control,
           rec' = [rec EXCEPT ![p] = r], UNCHANGED <<kind, sup, lease, quarantined, ops, session>>,
           request' \in [Proc -> Requests], faults' \in 0..MaxFaults
    PROVE  Sound
<1>1. Local(r, sup[p], lease = p, quarantined["model"], kind[p])
  BY Facts DEF Keeps, Local, Over
<1> QED BY <1>1, Facts, RecordStep, Zenon DEF Keeps, Live, Over

------------------------------------------------------------------------------
(* The steps every backend takes. *)

\* asyncio.wait() of the lease and the cancellation.
LEMMA QuitLeaseStep ==
    ASSUME IInv, NEW p \in Proc, QuitLease(p), UNCHANGED <<kind, request, ops, session>>
    PROVE  Sound
<1>1. Moves([Fails(rec[p]) EXCEPT !.run = "join"], rec[p], "join")
  BY Facts, Moved, Zenon DEF Phases
<1> QED BY <1>1, Facts, GiveUpStart, Zenon DEF QuitLease

\* The checks under the lease.
LEMMA CheckStep ==
    ASSUME IInv, NEW p \in Proc, NEW refused \in BOOLEAN, Check(p, refused, "prepare"),
           ~Hosted(p) /\ ~refused => ~quarantined["model"],
           UNCHANGED <<kind, request, ops, session>>
    PROVE  Sound
<1>1. Moves([Fails(rec[p]) EXCEPT !.run = "join"], rec[p], "join") /\ Moves([rec[p] EXCEPT !.run = "prepare"], rec[p], "prepare")
  BY Facts, Moved, Zenon DEF Phases
<1>2. rec[p].run = "check" /\ UNCHANGED <<sup, lease, quarantined>> /\ faults' \in 0..MaxFaults
  BY Facts DEF Check
<1>3. CASE refused \/ rec[p].term
  <2>1. rec' = [rec EXCEPT ![p] = [Fails(rec[p]) EXCEPT !.run = "join"]]
    BY <1>3, Zenon DEF Check
  <2> QED BY <1>1, <1>2, <2>1, GiveUpStart, Zenon
<1>4. CASE ~(refused \/ rec[p].term)
  <2>1. rec' = [rec EXCEPT ![p] = [rec[p] EXCEPT !.run = "prepare"]]
    BY <1>4 DEF Check
  <2> QED BY <1>1, <1>2, <1>4, <2>1, GoOn, Zenon
<1> QED BY <1>3, <1>4, Zenon

\* The policy, the identity of the executable and the sockets.
LEMMA PrepareStep ==
    ASSUME IInv, NEW p \in Proc, Prepare(p), UNCHANGED <<kind, request, ops, session>>
    PROVE  Sound
<1>1. /\ Moves([Fails(rec[p]) EXCEPT !.run = "join"], rec[p], "join")
      /\ Moves([rec[p] EXCEPT !.run = "spawn", !.command = "open"], rec[p], "spawn")
  BY Facts, Moved, Zenon DEF Phases
<1>2. faults' \in 0..MaxFaults
  BY Facts, FaultType DEF Prepare
<1>3. CASE rec' = [rec EXCEPT ![p] = [Fails(rec[p]) EXCEPT !.run = "join"]]
  BY <1>1, <1>2, <1>3, GiveUpStart, Zenon DEF Prepare
<1>4. CASE rec' = [rec EXCEPT ![p] = [rec[p] EXCEPT !.run = "spawn", !.command = "open"]]
  <2>1. ~Hosted(p) => ~quarantined["model"]
    BY Facts DEF Prepare, Local, Hosted
  <2> QED BY <1>1, <1>2, <1>4, <2>1, GoOn, Zenon DEF Prepare
<1>5. \/ rec' = [rec EXCEPT ![p] = [Fails(rec[p]) EXCEPT !.run = "join"]]
      \/ rec' = [rec EXCEPT ![p] = [rec[p] EXCEPT !.run = "spawn", !.command = "open"]]
  BY DEF Prepare
<1> QED BY <1>3, <1>4, <1>5

\* The checks and the sockets of the ordinary-uid profiles.
LEMMA LaunchStep ==
    ASSUME IInv, NEW p \in Proc, NEW refused \in BOOLEAN, Launch(p, refused),
           ~refused => ~quarantined["model"], UNCHANGED <<kind, request, ops, session>>
    PROVE  Sound
<1>1. /\ Moves([Fails(rec[p]) EXCEPT !.run = "join"], rec[p], "join")
      /\ Moves([rec[p] EXCEPT !.run = "spawn", !.command = "open"], rec[p], "spawn")
  BY Facts, Moved, Zenon DEF Phases
<1>2. faults' \in 0..MaxFaults
  BY Facts, FaultType DEF Launch
<1>3. CASE rec' = [rec EXCEPT ![p] = [Fails(rec[p]) EXCEPT !.run = "join"]]
  BY <1>1, <1>2, <1>3, GiveUpStart, Zenon DEF Launch
<1>4. CASE rec' = [rec EXCEPT ![p] = [rec[p] EXCEPT !.run = "spawn", !.command = "open"]] /\ ~refused
  BY <1>1, <1>2, <1>4, GoOn, Zenon DEF Launch
<1>5. \/ rec' = [rec EXCEPT ![p] = [Fails(rec[p]) EXCEPT !.run = "join"]]
      \/ rec' = [rec EXCEPT ![p] = [rec[p] EXCEPT !.run = "spawn", !.command = "open"]] /\ ~refused
  BY DEF Launch
<1> QED BY <1>3, <1>4, <1>5, Zenon

\* _create_process(): the supervisor starts, or the call raises.
LEMMA SpawnStep ==
    ASSUME IInv, NEW p \in Proc, Spawn(p), UNCHANGED <<kind, request, ops, session>>
    PROVE  Sound
<1>1. CASE Fault /\ rec' = [rec EXCEPT ![p] = [Fails(rec[p]) EXCEPT !.run = "join", !.command = "none"]] /\ UNCHANGED sup
  <2>1. Moves([Fails(rec[p]) EXCEPT !.run = "join", !.command = "none"], rec[p], "join")
    BY Facts, Moved, Zenon DEF Phases
  <2> QED BY <1>1, <2>1, FaultType, GiveUpStart, Zenon DEF Spawn
<1>2. CASE /\ rec' = [rec EXCEPT ![p].run = "comm", ![p].control = "read", ![p].pipes = "open"]
           /\ sup' = [sup EXCEPT ![p].at = "boot"] /\ UNCHANGED faults
  <2> DEFINE r == [rec[p] EXCEPT !.run = "comm", !.control = "read", !.pipes = "open"]
             s == [sup[p] EXCEPT !.at = "boot"]
  <2>1. rec' = [rec EXCEPT ![p] = r] /\ sup' = [sup EXCEPT ![p] = s]
    BY <1>2, Zenon
  <2>2. r \in Record /\ s \in Supervisor
    <3>1. r \in Record
      <4>1. rec[p] \in Record
        BY Facts
      <4> DEFINE r1 == [rec[p] EXCEPT !.run = "comm"]
                 r2 == [r1 EXCEPT !.control = "read"]
                 r3 == [r2 EXCEPT !.pipes = "open"]
      <4>2. r = r3
        OBVIOUS
      <4>3. r1 \in Record
        BY <4>1, Zenon DEF Record, Phases
      <4> HIDE DEF r1
      <4>4. r2 \in Record
        BY <4>3, Zenon DEF Record
      <4> HIDE DEF r2
      <4>5. r3 \in Record
        BY <4>4, Zenon DEF Record
      <4> QED BY <4>2, <4>5
    <3>2. s \in Supervisor
      BY Facts DEF Supervisor
    <3> QED BY <3>1, <3>2
  <2>3. /\ r.run = "comm" /\ r.control = "read" /\ r.result = rec[p].result
        /\ r.clean = rec[p].clean /\ r.closed = rec[p].closed
        /\ s.at = "boot" /\ s.ctl = sup[p].ctl /\ s.alive = sup[p].alive
    BY Facts DEF Record, Supervisor
  <2>4. /\ rec[p].run = "spawn" /\ ~Over(rec[p]) /\ sup[p].at = "none" /\ ~sup[p].alive /\ sup[p].ctl = <<>>
        /\ ~Hosted(p) => ~quarantined["model"]
    BY Facts DEF Spawn, Local, Over, Hosted
  <2>5. Local(r, s, lease = p, quarantined["model"], kind[p])
    BY <2>3, <2>4, Facts, CleanEmpty DEF Local, Over
  <2>6. UNCHANGED <<lease, quarantined>> /\ quarantined' \in [Backends -> BOOLEAN]
        /\ request' \in [Proc -> Requests] /\ faults' \in 0..MaxFaults
    BY <1>2, Facts DEF Spawn
  <2> HIDE DEF r, s
  <2> QED BY <2>1, <2>2, <2>3, <2>4, <2>5, <2>6, QuietStep, Zenon DEF Live, Over
<1> QED BY <1>1, <1>2 DEF Spawn

\* The policy thread of _control() answers.
LEMMA DecidedStep ==
    ASSUME IInv, NEW p \in Proc, Decided(p), UNCHANGED <<kind, request, ops, session>>
    PROVE  Sound
<1> DEFINE r == [rec[p] EXCEPT !.control = "read"]
<1>1. rec' = [rec EXCEPT ![p] = r]
  BY DEF Decided
<1>2. /\ r \in Record /\ r.control = "read" /\ r.run = rec[p].run /\ r.result = rec[p].result
      /\ r.clean = rec[p].clean /\ r.closed = rec[p].closed
  BY Facts DEF Record
<1> HIDE DEF r
<1>3. Local(r, sup[p], lease = p, quarantined["model"], kind[p])
  BY <1>2, Facts DEF Decided, Local, Over
<1>4. UNCHANGED <<sup, lease, quarantined>> /\ request' \in [Proc -> Requests] /\ faults' \in 0..MaxFaults
  BY Facts DEF Decided
<1> QED BY <1>1, <1>2, <1>3, <1>4, RecordStep, Zenon DEF Over

\* EOF on the control socket.
LEMMA ControlEndsStep ==
    ASSUME IInv, NEW p \in Proc, ControlEnds(p), UNCHANGED <<kind, request, ops, session>>
    PROVE  Sound
<1> DEFINE r == [rec[p] EXCEPT !.control = IF rec[p].result = "none" THEN "error" ELSE "eof"]
<1>1. rec' = [rec EXCEPT ![p] = r]
  BY DEF ControlEnds
<1>2. /\ r \in Record /\ r.control \in {"error", "eof"} /\ r.run = rec[p].run /\ r.result = rec[p].result
      /\ r.clean = rec[p].clean /\ r.closed = rec[p].closed
  BY Facts DEF Record
<1> HIDE DEF r
<1>3. Local(r, sup[p], lease = p, quarantined["model"], kind[p])
  BY <1>2, Facts DEF ControlEnds, Local, Over
<1>4. UNCHANGED <<sup, lease, quarantined>> /\ request' \in [Proc -> Requests] /\ faults' \in 0..MaxFaults
  BY Facts DEF ControlEnds
<1> QED BY <1>1, <1>2, <1>3, <1>4, RecordStep, Zenon DEF Over

\* The ends of the pipes and the expiry of a record touch nothing Local reads.
LEMMA PipesEndStep ==
    ASSUME IInv, NEW p \in Proc, PipesEnd(p), UNCHANGED <<kind, request, ops, session>>
    PROVE  Sound
<1>1. PICK v \in {"eof", "differs", "error"} : rec' = [rec EXCEPT ![p].pipes = v]
  BY DEF PipesEnd
<1> DEFINE r == [rec[p] EXCEPT !.pipes = v]
<1>2. rec' = [rec EXCEPT ![p] = r] /\ Keeps(r, rec[p]) /\ r.control = rec[p].control
  BY <1>1, Facts DEF Keeps, Record
<1>3. faults' \in 0..MaxFaults
  BY Facts, FaultType DEF PipesEnd
<1> HIDE DEF r
<1> QED BY <1>2, <1>3, Facts, KeepStep, Zenon DEF PipesEnd

\* A record that ended cleanly leaves the registry.
LEMMA ExpireStep ==
    ASSUME IInv, NEW p \in Proc, Expire(p), UNCHANGED <<kind, request, ops, session>>
    PROVE  Sound
<1> DEFINE r == [rec[p] EXCEPT !.registered = FALSE]
<1>1. rec' = [rec EXCEPT ![p] = r] /\ Keeps(r, rec[p]) /\ r.control = rec[p].control
  <2>1. Keeps(r, rec[p]) /\ r.control = rec[p].control
    <3>1. rec[p] \in Record
      BY Facts
    <3> QED BY <3>1, Zenon DEF Keeps, Record
  <2> QED BY <2>1 DEF Expire
<1> HIDE DEF r
<1>2. UNCHANGED <<sup, lease, quarantined>> /\ request' \in [Proc -> Requests] /\ faults' \in 0..MaxFaults
  BY Facts DEF Expire
<1> QED BY <1>1, <1>2, KeepStep, Zenon

\* The lock is free and the record takes it: Acquire.
LEMMA WinLeaseStep ==
    ASSUME IInv, NEW p \in Proc, WinLease(p), UNCHANGED <<kind, request, ops, session>>
    PROVE  Sound
<1> DEFINE r == [rec[p] EXCEPT !.run = "check"]
<1>1. rec' = [rec EXCEPT ![p] = r] /\ Moves(r, rec[p], "check")
  BY Facts, Moved, Zenon DEF WinLease, Phases
<1> HIDE DEF r
<1>2. Local(r, sup[p], lease' = p, quarantined["model"], kind[p])
  BY <1>1, Facts DEF WinLease, Local, Over, Moves
<1>3. IInv'
  <2>1. /\ rec[p].run = "lease" /\ lease = Free /\ lease' = p /\ UNCHANGED <<sup, quarantined>>
        /\ quarantined' \in [Backends -> BOOLEAN] /\ request' \in [Proc -> Requests] /\ faults' \in 0..MaxFaults
        /\ sup[p] \in Supervisor /\ sup' = [sup EXCEPT ![p] = sup[p]] /\ r \in Record
    BY <1>1, Facts DEF WinLease, Moves
  <2> QED BY <1>1, <1>2, <2>1, LocalStep, Zenon DEF Live
<1>4. Acting' = Acting /\ Lost = {} /\ Lost' = {}
  <2>1. p # Free /\ Free \notin Proc
    BY ProcAssumption
  <2>2. rec'[p].run = "check"
    BY <1>1 DEF Moves, IInv, TypeOK
  <2> QED BY <2>1, <2>2 DEF WinLease, Acting, Lost
<1>5. Lease!Acquire(p)
  BY <1>4 DEF WinLease, Lease!Acquire
<1>6. [Lease!Next]_(Lease!vars)
  BY <1>5 DEF Lease!Next
<1>7. Admitted
  BY DEF Admitted, Spawned, WinLease
<1> QED BY <1>3, <1>6, <1>7 DEF Sound

\* The end of _run(): Release when there was no process or its cleanup is proved, Lose
\* when it is not.
LEMMA EndStep ==
    ASSUME IInv, NEW p \in Proc, NEW run \in {"emit", "done"}, End(p, run),
           quarantined' \in [Backends -> BOOLEAN],
           quarantined["model"] => quarantined'["model"],
           quarantined' = quarantined \/ (Spawned(p) /\ ~rec[p].clean),
           kind[p] = "static" /\ Spawned(p) /\ ~rec[p].clean => quarantined'["model"],
           UNCHANGED <<kind, request, ops, session>>
    PROVE  Sound
<1> DEFINE r == Ended(p, run)
           proved == rec[p].clean \/ ~Spawned(p)
<1>1. rec[p].run = "join" /\ rec' = [rec EXCEPT ![p] = r] /\ UNCHANGED <<sup, faults>>
  BY DEF End
<1>2. /\ r \in Record /\ r.run = run /\ r.closed = proved
      /\ proved => r.result = "none" /\ ~r.clean /\ r.control = "off"
      /\ ~proved => r.result = rec[p].result /\ r.clean = rec[p].clean /\ r.control = rec[p].control
  <2>1. proved \in BOOLEAN
    BY Facts DEF Record
  <2>2. CASE proved
    BY <2>2, NewRecord, ZenonT(40) DEF Ended, Record, Phases, NoRecord
  <2>3. CASE ~proved
    <3> DEFINE started == IF rec[p].started = "ok" THEN "ok" ELSE "failed"
    <3>1. r = [rec[p] EXCEPT !.run = run, !.started = started, !.closed = FALSE, !.registered = started = "ok"]
      BY <2>1, <2>3, Zenon DEF Ended
    <3>2. started \in {"pending", "ok", "failed"} /\ (started = "ok") \in BOOLEAN /\ run \in Phases
      BY DEF Phases
    <3> HIDE DEF started, r
    <3>3. rec[p] \in Record
      BY Facts
    <3> QED BY <2>3, <3>1, <3>2, <3>3, Zenon DEF Record
  <2> QED BY <2>1, <2>2, <2>3
<1>3. proved => Quiet(sup[p])
  BY Facts DEF Local, Spawned, Quiet
<1>4. ~proved => lease = p /\ Spawned(p) /\ ~rec[p].clean /\ quarantined'["model"]
  BY <1>1, Facts DEF Local, Spawned
<1>5. lease' = IF lease = p /\ proved THEN Free ELSE lease
  BY DEF End
<1>6. p # Free /\ Free \notin Proc
  BY ProcAssumption
<1> HIDE DEF r
<1>7. Local(r, sup[p], lease' = p, quarantined'["model"], kind[p])
  <2>1. CASE proved
    BY <1>2, <1>3, <1>5, <1>6, <2>1, Facts, Zenon DEF Local, Over, Spawned
  <2>2. CASE ~proved
    BY <1>2, <1>4, <1>5, <2>2, Facts, Zenon DEF Local, Over, Spawned
  <2> QED BY <2>1, <2>2
<1>8. IInv'
  <2>1. lease' = lease \/ (Live(p) /\ lease \in {p, Free} /\ lease' \in {p, Free})
    BY <1>1, <1>5 DEF Live
  <2>2. lease = p \/ quarantined' = quarantined
    BY <1>4
  <2>3. /\ request' \in [Proc -> Requests] /\ faults' \in 0..MaxFaults
        /\ sup[p] \in Supervisor /\ sup' = [sup EXCEPT ![p] = sup[p]]
    BY <1>1, Facts
  <2>4. Live(p)
    BY <1>1 DEF Live
  <2> QED BY <1>1, <1>2, <1>7, <2>1, <2>2, <2>3, <2>4, LocalStep, Zenon
<1>9. Acting' = Acting /\ Admitted /\ p \notin Lost
  BY <1>1 DEF Acting, Admitted, Spawned, Lost
<1>10. rec'[p].run = run /\ \A x \in Proc : x # p => rec'[x] = rec[x]
  BY <1>1, <1>2 DEF IInv, TypeOK
<1>11. [Lease!Next]_(Lease!vars)
  <2>1. CASE proved /\ lease = p
    <3>1. p \notin Acting
      BY <1>3, <2>1, ProcAssumption DEF Acting, Quiet
    <3>2. Lost = {} /\ Lost' = {}
      BY <1>1, <1>5, <1>6, <2>1 DEF Lost
    <3>3. Lease!Release(p)
      BY <1>5, <1>9, <2>1, <3>1, <3>2 DEF Lease!Release
    <3> QED BY <3>3 DEF Lease!Next
  <2>2. CASE proved /\ lease # p
    <3>1. Lost' = Lost
      BY <1>5, <1>10, <2>2 DEF Lost
    <3> QED BY <1>5, <1>9, <2>2, <3>1 DEF Lease!vars
  <2>3. CASE ~proved
    <3>1. Lost' = Lost \cup {p}
      BY <1>4, <1>5, <1>10, <2>3 DEF Lost
    <3>2. session.held
      BY <1>1 DEF IInv, CloseOK, Live
    <3>3. Lease!Lose(p)
      BY <1>4, <1>5, <1>9, <2>3, <3>1, <3>2 DEF Lease!Lose
    <3> QED BY <3>3 DEF Lease!Next
  <2> QED BY <2>1, <2>2, <2>3
<1> QED BY <1>8, <1>9, <1>11 DEF Sound

\* The closed event and the end of the event stream are awaited.
LEMMA EmitStep ==
    ASSUME IInv, NEW p \in Proc, rec[p].run = "emit", rec' = [rec EXCEPT ![p].run = "done"],
           UNCHANGED <<sup, lease, quarantined, faults>>, UNCHANGED <<kind, request, ops, session>>
    PROVE  Sound
<1> DEFINE r == [rec[p] EXCEPT !.run = "done"]
<1>1. rec' = [rec EXCEPT ![p] = r] /\ Moves(r, rec[p], "done")
  BY Facts, Moved, Zenon DEF Phases
<1> HIDE DEF r
<1>2. Local(r, sup[p], lease = p, quarantined["model"], kind[p])
  BY <1>1, Facts DEF Local, Over, Moves
<1>3. Live(p) /\ Over(r) /\ Over(rec[p]) /\ r \in Record
  BY <1>1 DEF Moves, Over, Live
<1>4. request' \in [Proc -> Requests] /\ faults' \in 0..MaxFaults
  BY Facts
<1> QED BY <1>1, <1>2, <1>3, <1>4, RecordStep, Zenon

------------------------------------------------------------------------------
(* _control(): one message at a time. *)

\* What any switch of _control() makes of a record: the phase and the proof stay, and a
\* result is the one that was read.
Reading(t, r, m) ==
    /\ t \in Record /\ t.run = r.run /\ t.clean = r.clean /\ t.closed = r.closed
    /\ t.result = r.result \/ t.result = m

\* The updates the switches are made of.
LEMMA ReadingUpdates ==
    ASSUME NEW r \in Record, NEW m \in Messages
    PROVE  /\ Reading(r, r, m) /\ Reading(Breaks(r), r, m) /\ Reading(Executes(r), r, m)
           /\ Reading([r EXCEPT !.ready = TRUE], r, m)
           /\ Reading([r EXCEPT !.exit = TRUE], r, m)
           /\ Reading([r EXCEPT !.control = "decide"], r, m)
           /\ Reading([Terminated(r) EXCEPT !.retained = TRUE], r, m)
           /\ m \in {"clean", "unclean"} => Reading([Fails(r) EXCEPT !.result = m], r, m)
<1>1. Reading(r, r, m) /\ Reading(Breaks(r), r, m) /\ Reading(Executes(r), r, m)
  BY Updates DEF Reading, Keeps
<1>2. /\ Reading([r EXCEPT !.ready = TRUE], r, m) /\ Reading([r EXCEPT !.exit = TRUE], r, m)
      /\ Reading([r EXCEPT !.control = "decide"], r, m)
  BY Zenon DEF Reading, Record
<1>3. ASSUME NEW t, Keeps(t, r)
      PROVE  /\ Reading([t EXCEPT !.retained = TRUE], r, m)
             /\ m \in {"clean", "unclean"} => Reading([t EXCEPT !.result = m], r, m)
  BY <1>3, Zenon DEF Reading, Keeps, Record
<1>4. Keeps(Terminated(r), r) /\ Keeps(Fails(r), r)
  BY Updates
<1> QED BY <1>1, <1>2, <1>3, <1>4, Zenon

\* _control() of the static profile.
LEMMA StaticReading ==
    ASSUME NEW r \in Record, NEW m \in Messages, NEW dead \in BOOLEAN
    PROVE  Reading(StaticReads(r, m, dead), r, m)
BY ReadingUpdates, Zenon DEF StaticReads

\* _control() of the managed profile.
LEMMA ManagedReading ==
    ASSUME NEW r \in Record, NEW m \in Messages
    PROVE  Reading(ManagedReads(r, m), r, m)
BY ReadingUpdates, Zenon DEF ManagedReads

\* _control() of the ordinary-uid profiles.
LEMMA DirectReading ==
    ASSUME NEW r \in Record, NEW m \in Messages
    PROVE  Reading(DirectReads(r, m), r, m)
BY ReadingUpdates, Zenon DEF DirectReads

\* The socket is read only under the lock.  A result `clean' was said by a supervisor that
\* had nothing left; a `ready' that is answered was said by one that had not reported.
LEMMA TakeStep ==
    ASSUME IInv, NEW p \in Proc, rec[p].control = "read", sup[p].ctl # <<>>,
           NEW r, Reading(r, rec[p], Head(sup[p].ctl)), Take(p, r),
           quarantined' \in [Backends -> BOOLEAN],
           quarantined["model"] => quarantined'["model"],
           UNCHANGED <<lease, faults>>, UNCHANGED <<kind, request, ops, session>>
    PROVE  Sound
<1> DEFINE s == [sup[p] EXCEPT !.ctl = Tail(@), !.at = IF @ = "ready" /\ r.ready THEN "acked" ELSE @]
<1>1. rec' = [rec EXCEPT ![p] = r] /\ sup' = [sup EXCEPT ![p] = s]
  BY Zenon DEF Take
<1>2. rec[p] \in Record /\ sup[p] \in Supervisor /\ sup[p].ctl \in Seq(Messages)
  BY Facts DEF Supervisor
<1>3. /\ Tail(sup[p].ctl) \in Seq(Messages)
      /\ HasClean(Tail(sup[p].ctl)) => HasClean(sup[p].ctl)
      /\ Head(sup[p].ctl) = "clean" => HasClean(sup[p].ctl)
  BY <1>2, CleanTail
<1>4. /\ s \in Supervisor /\ s.ctl = Tail(sup[p].ctl) /\ s.alive = sup[p].alive
      /\ s.at = sup[p].at \/ (sup[p].at = "ready" /\ s.at = "acked")
  BY <1>2, <1>3, Zenon DEF Supervisor
<1>5. lease = p /\ sup[p].at # "none"
  BY Facts DEF Local
<1>6. r \in Record /\ (Over(r) <=> Over(rec[p]))
  BY DEF Reading, Over
<1> HIDE DEF s
<1>7. Quiet(sup[p]) => Quiet(s)
  BY <1>4 DEF Quiet
<1>8. Local(r, s, lease = p, quarantined'["model"], kind[p])
  <2>1. r.clean \/ r.closed \/ r.result = "clean" \/ HasClean(s.ctl) => Quiet(s)
    BY <1>3, <1>4, <1>7, Facts DEF Local, Reading
  <2>2. s.at # "none"
    BY <1>4, <1>5
  <2>3. r.run \notin {"none", "lease", "check", "prepare", "spawn"}
    BY <1>5, Facts DEF Local, Reading
  <2>4. Over(r) => quarantined'["model"]
    BY <1>5, <1>6, Facts DEF Local
  <2>5. r.closed => Over(r)
    BY <1>6, Facts, Zenon DEF Local, Reading
  <2>6. r.run = "join" /\ ~r.clean /\ kind[p] # "static" => quarantined'["model"]
    BY <1>5, Facts, Zenon DEF Local, Reading
  <2> QED BY <1>5, <2>1, <2>2, <2>3, <2>4, <2>5, <2>6 DEF Local
<1>9. r.run = rec[p].run /\ request' \in [Proc -> Requests] /\ faults' \in 0..MaxFaults /\ s.at # "none"
  BY <1>4, <1>5, Facts DEF Reading
<1> QED BY <1>1, <1>4, <1>5, <1>6, <1>8, <1>9, QuietStep, Zenon

\* A message of the static profile is taken off the socket and read.
LEMMA StaticControlStep ==
    ASSUME IInv, NEW p \in Proc, StaticControl(p), UNCHANGED <<kind, request, ops, session>>
    PROVE  Sound
<1> DEFINE r == StaticReads(rec[p], Head(sup[p].ctl), Reaped(p))
<1>1. rec[p].control = "read" /\ sup[p].ctl # <<>> /\ Take(p, r) /\ UNCHANGED <<lease, quarantined, faults>>
  BY DEF StaticControl
<1>2. rec[p] \in Record /\ sup[p].ctl \in Seq(Messages) /\ quarantined' \in [Backends -> BOOLEAN]
  BY <1>1, Facts DEF Supervisor
<1>3. Head(sup[p].ctl) \in Messages /\ Reaped(p) \in BOOLEAN
  BY <1>1, <1>2, CleanTail DEF Reaped
<1>4. Reading(r, rec[p], Head(sup[p].ctl))
  BY <1>2, <1>3, StaticReading
<1> HIDE DEF r
<1> QED BY <1>1, <1>2, <1>4, TakeStep

\* A message of a backend that can announce a retained supervisor.
LEMMA ReceiveStep ==
    ASSUME IInv, NEW p \in Proc, NEW r, NEW after,
           rec[p].control = "read" /\ sup[p].ctl # <<>> /\ Take(p, r) /\ UNCHANGED <<lease, faults>>,
           quarantined' \in {after, quarantined},
           after \in [Backends -> BOOLEAN], after["model"],
           sup[p].ctl # <<>> /\ Head(sup[p].ctl) \in Messages => Reading(r, rec[p], Head(sup[p].ctl)),
           UNCHANGED <<kind, request, ops, session>>
    PROVE  Sound
<1>1. sup[p].ctl \in Seq(Messages) /\ quarantined' \in [Backends -> BOOLEAN]
  BY Facts DEF Supervisor
<1>2. Head(sup[p].ctl) \in Messages
  BY <1>1, CleanTail
<1> QED BY <1>1, <1>2, TakeStep

\* Every quarantine sets the flag of the owner.
LEMMA Quarantines ==
    ASSUME IInv
    PROVE  /\ ManagedQuarantine \in [Backends -> BOOLEAN] /\ ManagedQuarantine["model"]
           /\ HostQuarantine \in [Backends -> BOOLEAN] /\ HostQuarantine["model"]
           /\ DirectQuarantine \in [Backends -> BOOLEAN] /\ DirectQuarantine["model"]
           /\ TtyQuarantine \in [Backends -> BOOLEAN] /\ TtyQuarantine["model"]
BY Zenon DEF IInv, TypeOK, Backends, ManagedQuarantine, HostQuarantine, DirectQuarantine, TtyQuarantine

\* A message of the managed and host profiles; a retained ownership quarantines.
LEMMA ManagedReceiveStep ==
    ASSUME IInv, NEW p \in Proc, NEW after, Receive(p, ManagedReads(rec[p], Head(sup[p].ctl)), after),
           after \in [Backends -> BOOLEAN], after["model"], UNCHANGED <<kind, request, ops, session>>
    PROVE  Sound
<1> DEFINE r == ManagedReads(rec[p], Head(sup[p].ctl))
<1>1. /\ rec[p].control = "read" /\ sup[p].ctl # <<>> /\ Take(p, r) /\ UNCHANGED <<lease, faults>>
      /\ quarantined' \in {after, quarantined}
  BY DEF Receive
<1>2. Head(sup[p].ctl) \in Messages => Reading(r, rec[p], Head(sup[p].ctl))
  BY Facts, ManagedReading
<1> HIDE DEF r
<1> QED BY <1>1, <1>2, ReceiveStep

\* A message of the ordinary-uid profiles; a retained ownership quarantines.
LEMMA DirectReceiveStep ==
    ASSUME IInv, NEW p \in Proc, NEW after, ReceiveDirect(p, DirectReads(rec[p], Head(sup[p].ctl)), after),
           after \in [Backends -> BOOLEAN], after["model"], UNCHANGED <<kind, request, ops, session>>
    PROVE  Sound
<1> DEFINE r == DirectReads(rec[p], Head(sup[p].ctl))
<1>1. /\ rec[p].control = "read" /\ sup[p].ctl # <<>> /\ Take(p, r) /\ UNCHANGED <<lease, faults>>
      /\ quarantined' \in {after, quarantined}
  BY DEF ReceiveDirect
<1>2. Head(sup[p].ctl) \in Messages => Reading(r, rec[p], Head(sup[p].ctl))
  BY Facts, DirectReading
<1> HIDE DEF r
<1> QED BY <1>1, <1>2, ReceiveStep

------------------------------------------------------------------------------
(* The communication, its end and the settlement. *)

\* The communication ends; the cleanup counts as proved only with the result.
LEMMA ProvedStep ==
    ASSUME IInv, NEW p \in Proc, rec[p].run \in {"comm", "grace"},
           NEW r \in Record, r.run = "settle", r.result = rec[p].result, r.closed = rec[p].closed,
           r.control = rec[p].control, r.clean => rec[p].clean \/ rec[p].result = "clean",
           rec' = [rec EXCEPT ![p] = r],
           UNCHANGED <<sup, lease, quarantined, faults>>, UNCHANGED <<kind, request, ops, session>>
    PROVE  Sound
<1>1. Local(r, sup[p], lease = p, quarantined["model"], kind[p])
  BY Facts DEF Local, Over
<1>2. Live(p) /\ ~Over(r) /\ ~Over(rec[p])
  BY DEF Live, Over
<1>3. request' \in [Proc -> Requests] /\ faults' \in 0..MaxFaults
  BY Facts
<1> QED BY <1>1, <1>2, <1>3, RecordStep, Zenon

\* The communication of the static profile ends, fails or runs out of time.
LEMMA StaticCommunicationStep ==
    ASSUME IInv, NEW p \in Proc, StaticCommunication(p), UNCHANGED <<kind, request, ops, session>>
    PROVE  Sound
<1>1. rec[p] \in Record /\ faults \in 0..MaxFaults
  BY Facts
<1>2. rec[p].run = "comm" /\ UNCHANGED <<sup, lease, quarantined, faults>>
  BY DEF StaticCommunication
<1>3. CASE rec' = [rec EXCEPT ![p] = [Fails(@) EXCEPT !.run = "settle", !.clean = rec[p].clean \/ rec[p].result = "clean"]]
  <2> DEFINE r == [Fails(rec[p]) EXCEPT !.run = "settle", !.clean = rec[p].clean \/ rec[p].result = "clean"]
  <2>1. Keeps(Fails(rec[p]), rec[p]) /\ Fails(rec[p]).control = rec[p].control
    BY <1>1, Updates
  <2>2. /\ r \in Record /\ r.run = "settle" /\ r.result = rec[p].result /\ r.closed = rec[p].closed
        /\ r.control = rec[p].control /\ (r.clean => rec[p].clean \/ rec[p].result = "clean")
    BY <2>1, Zenon DEF Keeps, Record, Phases
  <2>3. rec' = [rec EXCEPT ![p] = r]
    BY <1>3
  <2> HIDE DEF r
  <2> QED BY <1>2, <2>2, <2>3, ProvedStep, Zenon
<1>4. CASE rec' = [rec EXCEPT ![p] = IF Reaped(p) THEN [Fails(@) EXCEPT !.run = "settle"]
                                     ELSE [Terminated(Fails(@)) EXCEPT !.run = "term"]]
  <2>1. /\ Moves([Fails(rec[p]) EXCEPT !.run = "settle"], rec[p], "settle")
        /\ Moves([Terminated(Fails(rec[p])) EXCEPT !.run = "term"], rec[p], "term")
    BY <1>1, Moved, Zenon DEF Phases
  <2>2. CASE Reaped(p)
    <3>1. rec' = [rec EXCEPT ![p] = [Fails(rec[p]) EXCEPT !.run = "settle"]]
      BY <1>4, <2>2
    <3> QED BY <1>1, <1>2, <2>1, <3>1, WindDown, Zenon
  <2>3. CASE ~Reaped(p)
    <3>1. rec' = [rec EXCEPT ![p] = [Terminated(Fails(rec[p])) EXCEPT !.run = "term"]]
      BY <1>4, <2>3
    <3> QED BY <1>1, <1>2, <2>1, <3>1, WindDown, Zenon
  <2> QED BY <2>2, <2>3
<1> QED BY <1>3, <1>4 DEF StaticCommunication

\* The communication of the managed and host profiles ends, fails or runs out of time.
LEMMA CommunicateStep ==
    ASSUME IInv, NEW p \in Proc, NEW timed \in BOOLEAN, Communicate(p, timed),
           UNCHANGED <<kind, request, ops, session>>
    PROVE  Sound
<1>1. rec[p] \in Record /\ faults \in 0..MaxFaults
  BY Facts
<1>2. rec[p].run = "comm" /\ UNCHANGED <<sup, lease, quarantined, faults>>
  BY DEF Communicate
<1>3. CASE rec' = [rec EXCEPT ![p] = [Fails(@) EXCEPT !.run = "settle", !.clean = rec[p].result = "clean"]]
  <2> DEFINE r == [Fails(rec[p]) EXCEPT !.run = "settle", !.clean = rec[p].result = "clean"]
  <2>1. Keeps(Fails(rec[p]), rec[p]) /\ Fails(rec[p]).control = rec[p].control
    BY <1>1, Updates
  <2>2. /\ r \in Record /\ r.run = "settle" /\ r.result = rec[p].result /\ r.closed = rec[p].closed
        /\ r.control = rec[p].control /\ (r.clean => rec[p].clean \/ rec[p].result = "clean")
    BY <2>1, ZenonT(40) DEF Keeps, Record, Phases
  <2>3. rec' = [rec EXCEPT ![p] = r]
    BY <1>3
  <2> HIDE DEF r
  <2> QED BY <1>2, <2>2, <2>3, ProvedStep, Zenon
<1>4. /\ Moves([Fails(rec[p]) EXCEPT !.run = "settle"], rec[p], "settle")
      /\ Moves([Terminated(Fails(rec[p])) EXCEPT !.run = "term"], rec[p], "term")
      /\ Moves([Fails(rec[p]) EXCEPT !.run = "settle", !.retained = TRUE], rec[p], "settle")
      /\ Moves([Terminated(Fails(rec[p])) EXCEPT !.run = "term", !.retained = TRUE], rec[p], "term")
  BY <1>1, Moved, Zenon DEF Phases
<1>5. CASE \/ rec' = [rec EXCEPT ![p] = [Fails(rec[p]) EXCEPT !.run = "settle"]]
           \/ rec' = [rec EXCEPT ![p] = [Fails(rec[p]) EXCEPT !.run = "settle", !.retained = TRUE]]
  BY <1>1, <1>2, <1>4, <1>5, WindDown
<1>6. CASE \/ rec' = [rec EXCEPT ![p] = [Terminated(Fails(rec[p])) EXCEPT !.run = "term"]]
           \/ rec' = [rec EXCEPT ![p] = [Terminated(Fails(rec[p])) EXCEPT !.run = "term", !.retained = TRUE]]
  BY <1>1, <1>2, <1>4, <1>6, WindDown
<1>7. \/ rec' = [rec EXCEPT ![p] = [Fails(@) EXCEPT !.run = "settle", !.clean = rec[p].result = "clean"]]
      \/ rec' = [rec EXCEPT ![p] = [Fails(rec[p]) EXCEPT !.run = "settle"]]
      \/ rec' = [rec EXCEPT ![p] = [Fails(rec[p]) EXCEPT !.run = "settle", !.retained = TRUE]]
      \/ rec' = [rec EXCEPT ![p] = [Terminated(Fails(rec[p])) EXCEPT !.run = "term"]]
      \/ rec' = [rec EXCEPT ![p] = [Terminated(Fails(rec[p])) EXCEPT !.run = "term", !.retained = TRUE]]
  BY DEF Communicate
<1> QED BY <1>3, <1>5, <1>6, <1>7

\* The communication of the ordinary-uid profiles ends, is cancelled or fails.
LEMMA SuperviseStep ==
    ASSUME IInv, NEW p \in Proc, NEW clean \in BOOLEAN, Supervise(p, clean),
           clean => rec[p].result = "clean", UNCHANGED <<kind, request, ops, session>>
    PROVE  Sound
<1>1. rec[p] \in Record /\ faults \in 0..MaxFaults
  BY Facts
<1>2. rec[p].run \in {"comm", "grace"} /\ UNCHANGED <<sup, lease, quarantined, faults>>
  BY DEF Supervise
<1>3. CASE clean /\ rec' = [rec EXCEPT ![p] = [@ EXCEPT !.run = "settle", !.clean = TRUE]]
  <2> DEFINE r == [rec[p] EXCEPT !.run = "settle", !.clean = TRUE]
  <2>1. /\ r \in Record /\ r.run = "settle" /\ r.result = rec[p].result /\ r.closed = rec[p].closed
        /\ r.control = rec[p].control
    BY <1>1, Zenon DEF Record, Phases
  <2>2. rec' = [rec EXCEPT ![p] = r]
    BY <1>3
  <2> HIDE DEF r
  <2> QED BY <1>2, <1>3, <2>1, <2>2, ProvedStep, Zenon
<1>4. /\ Moves([Terminated(Fails(rec[p])) EXCEPT !.run = "settle"], rec[p], "settle")
      /\ Moves([Terminated(Fails(rec[p])) EXCEPT !.run = "term"], rec[p], "term")
      /\ Moves([Terminated(rec[p]) EXCEPT !.run = "grace"], rec[p], "grace")
  BY <1>1, Moved, Zenon DEF Phases
<1>5. CASE \/ rec' = [rec EXCEPT ![p] = [Terminated(Fails(rec[p])) EXCEPT !.run = "settle"]]
           \/ rec' = [rec EXCEPT ![p] = [Terminated(Fails(rec[p])) EXCEPT !.run = "term"]]
           \/ rec' = [rec EXCEPT ![p] = [Terminated(rec[p]) EXCEPT !.run = "grace"]]
  BY <1>1, <1>2, <1>4, <1>5, WindDown
<1>6. \/ clean /\ rec' = [rec EXCEPT ![p] = [@ EXCEPT !.run = "settle", !.clean = TRUE]]
      \/ rec' = [rec EXCEPT ![p] = [Terminated(Fails(rec[p])) EXCEPT !.run = "settle"]]
      \/ rec' = [rec EXCEPT ![p] = [Terminated(Fails(rec[p])) EXCEPT !.run = "term"]]
      \/ rec' = [rec EXCEPT ![p] = [Terminated(rec[p]) EXCEPT !.run = "grace"]]
  BY DEF Supervise
<1> QED BY <1>3, <1>5, <1>6

\* The waits for a supervisor that was told to end.
LEMMA AwaitAllStep ==
    ASSUME IInv, NEW p \in Proc, AwaitAll(p), UNCHANGED <<kind, request, ops, session>>
    PROVE  Sound
<1>1. Moves([rec[p] EXCEPT !.run = "settle"], rec[p], "settle") /\ faults' \in 0..MaxFaults
  BY Facts, Moved, Zenon DEF AwaitAll, Phases
<1>2. rec' = [rec EXCEPT ![p] = [rec[p] EXCEPT !.run = "settle"]] /\ rec[p].run = "term" /\ UNCHANGED <<sup, lease, quarantined>>
  BY DEF AwaitAll
<1> QED BY <1>1, <1>2, WindDown, Zenon

\* Six seconds for the supervisor to end; one that does not is retained.
LEMMA AwaitExitStep ==
    ASSUME IInv, NEW p \in Proc, AwaitExit(p), UNCHANGED <<kind, request, ops, session>>
    PROVE  Sound
<1> DEFINE r == [rec[p] EXCEPT !.run = "settle", !.retained = @ \/ ~Reaped(p)]
<1>1. rec' = [rec EXCEPT ![p] = r] /\ rec[p].run = "term" /\ UNCHANGED <<sup, lease, quarantined>>
  BY Zenon DEF AwaitExit
<1>2. rec[p] \in Record /\ faults' \in 0..MaxFaults
  BY Facts DEF AwaitExit
<1>3. Moves(r, rec[p], "settle")
  BY <1>2, Zenon DEF Moves, Record, Phases
<1> HIDE DEF r
<1> QED BY <1>1, <1>2, <1>3, WindDown, Zenon

\* SIGKILL through the pidfd of the static supervisor: whatever it had forked is not proved
\* to be gone, and the lock is kept.
LEMMA StaticKillStep ==
    ASSUME IInv, NEW p \in Proc, StaticKill(p), UNCHANGED <<kind, request, ops, session>>
    PROVE  Sound
<1>1. rec' = [rec EXCEPT ![p] = [rec[p] EXCEPT !.run = "settle"]] /\ rec[p].run = "term" /\ UNCHANGED <<lease, quarantined, faults>>
  BY DEF StaticKill
<1>2. /\ rec[p] \in Record /\ sup[p] \in Supervisor /\ faults' \in 0..MaxFaults
      /\ request' \in [Proc -> Requests] /\ quarantined' \in [Backends -> BOOLEAN]
  BY <1>1, Facts
<1>3. Moves([rec[p] EXCEPT !.run = "settle"], rec[p], "settle")
  BY <1>2, Moved, Zenon DEF Phases
<1>4. CASE UNCHANGED sup
  BY <1>1, <1>2, <1>3, <1>4, WindDown, Zenon
<1>5. CASE sup' = [sup EXCEPT ![p].at = "lost"]
  <2> DEFINE r == [rec[p] EXCEPT !.run = "settle"]
             s == [sup[p] EXCEPT !.at = "lost"]
  <2>1. sup' = [sup EXCEPT ![p] = s]
    BY <1>5
  <2>2. s \in Supervisor /\ s.at = "lost" /\ s.ctl = sup[p].ctl /\ s.alive = sup[p].alive
    BY <1>2 DEF Supervisor
  <2>3. sup[p].at # "none"
    BY <1>1, Facts DEF Local
  <2> HIDE DEF r, s
  <2>4. Local(r, s, lease = p, quarantined["model"], kind[p])
    BY <1>1, <1>3, <2>2, <2>3, Facts DEF Local, Over, Quiet, Moves, r
  <2>5. Live(p) /\ ~Over(r) /\ ~Over(rec[p]) /\ r \in Record /\ rec' = [rec EXCEPT ![p] = r]
    BY <1>1, <1>3 DEF Live, Over, Moves, r
  <2> QED BY <1>1, <1>2, <2>1, <2>2, <2>3, <2>4, <2>5, QuietStep, Zenon
<1> QED BY <1>4, <1>5 DEF StaticKill

\* The finally of _run(): the proof is the result that was read, and without it the owner is
\* quarantined before the record ends.
LEMMA SettledStep ==
    ASSUME IInv, NEW p \in Proc, rec[p].run = "settle",
           NEW r \in Record, r.run = "join", r.result = rec[p].result, r.closed = rec[p].closed,
           r.clean => rec[p].clean \/ rec[p].result = "clean",
           rec' = [rec EXCEPT ![p] = r],
           UNCHANGED sup \/ CloseSockets(p),
           quarantined' \in [Backends -> BOOLEAN],
           quarantined["model"] => quarantined'["model"],
           ~r.clean /\ kind[p] # "static" => quarantined'["model"],
           UNCHANGED <<lease, faults>>, UNCHANGED <<kind, request, ops, session>>
    PROVE  Sound
<1>1. /\ sup[p] \in Supervisor /\ faults' \in 0..MaxFaults /\ request' \in [Proc -> Requests]
      /\ sup = [sup EXCEPT ![p] = sup[p]]
  BY Facts
<1>2. PICK s \in Supervisor : /\ sup' = [sup EXCEPT ![p] = s] /\ s.at = sup[p].at /\ s.alive = sup[p].alive
                              /\ HasClean(s.ctl) => HasClean(sup[p].ctl)
  <2>1. CASE UNCHANGED sup
    BY <1>1, <2>1
  <2>2. CASE CloseSockets(p)
    <3> DEFINE s == [sup[p] EXCEPT !.ctl = <<>>]
    <3>1. s \in Supervisor /\ s.at = sup[p].at /\ s.alive = sup[p].alive /\ s.ctl = <<>>
      BY <1>1, CleanEmpty, Zenon DEF Supervisor
    <3>2. sup' = [sup EXCEPT ![p] = s]
      BY <2>2 DEF CloseSockets
    <3> HIDE DEF s
    <3> QED BY <3>1, <3>2, CleanEmpty, Zenon
  <2> QED BY <2>1, <2>2
<1>3. lease = p /\ sup[p].at # "none" /\ ~r.closed
  BY Facts DEF Local, Over
<1>4. r.clean \/ r.closed \/ r.result = "clean" \/ HasClean(s.ctl) => Quiet(s)
  BY <1>2, <1>3, Facts DEF Local, Quiet
<1>5. Local(r, s, lease = p, quarantined'["model"], kind[p])
  BY <1>2, <1>3, <1>4 DEF Local, Over
<1>6. Live(p) /\ ~Over(r) /\ ~Over(rec[p])
  BY DEF Live, Over
<1> QED BY <1>1, <1>2, <1>3, <1>5, <1>6, QuietStep, Zenon

\* The settlement of the static profile: a result that was read is the proof.
LEMMA StaticSettleStep ==
    ASSUME IInv, NEW p \in Proc, StaticSettle(p), UNCHANGED <<kind, request, ops, session>>
    PROVE  Sound
<1> DEFINE proved == rec[p].clean \/ rec[p].result = "clean"
           t == Cancelled(rec[p])
           r == [t EXCEPT !.run = "join", !.clean = proved]
<1>1. /\ rec[p].run = "settle" /\ kind[p] = "static" /\ rec' = [rec EXCEPT ![p] = r]
      /\ CloseSockets(p) /\ UNCHANGED <<lease, quarantined, faults>>
  BY DEF StaticSettle
<1>2. rec[p] \in Record /\ quarantined' \in [Backends -> BOOLEAN]
  BY <1>1, Facts
<1>3. proved \in BOOLEAN
  BY <1>2 DEF Record
<1>4. r \in Record /\ r.run = "join" /\ r.result = rec[p].result /\ r.closed = rec[p].closed /\ r.clean = proved
  <2>1. Keeps(t, rec[p])
    BY <1>2, Updates
  <2> HIDE DEF proved, t
  <2> QED BY <1>3, <2>1, Zenon DEF Keeps, Record, Phases
<1> HIDE DEF t, r
<1> QED BY <1>1, <1>2, <1>4, SettledStep, Zenon

\* The settlement of the managed and host profiles: the supervisor must have been reaped.
LEMMA SettleStep ==
    ASSUME IInv, NEW p \in Proc, NEW after, Settle(p, after),
           after \in [Backends -> BOOLEAN], after["model"], UNCHANGED <<kind, request, ops, session>>
    PROVE  Sound
<1> DEFINE proved == rec[p].clean \/ (rec[p].result = "clean" /\ Reaped(p))
           t == IF rec[p].retained THEN rec[p] ELSE Cancelled(rec[p])
           r == [t EXCEPT !.run = "join", !.clean = proved]
<1>1. /\ rec[p].run = "settle" /\ rec' = [rec EXCEPT ![p] = r]
      /\ UNCHANGED sup \/ CloseSockets(p)
      /\ quarantined' = (IF ~proved THEN after ELSE quarantined) /\ UNCHANGED <<lease, faults>>
  BY DEF Settle
<1>2. rec[p] \in Record /\ quarantined' \in [Backends -> BOOLEAN]
  BY <1>1, Facts
<1>3. proved \in BOOLEAN /\ t \in {rec[p], Cancelled(rec[p])}
  BY <1>2 DEF Record, Reaped
<1>4. r \in Record /\ r.run = "join" /\ r.result = rec[p].result /\ r.closed = rec[p].closed /\ r.clean = proved
  <2>1. Keeps(t, rec[p])
    BY <1>2, <1>3, Updates DEF Keeps
  <2> HIDE DEF proved, t
  <2> QED BY <1>3, <2>1, Zenon DEF Keeps, Record, Phases
<1> HIDE DEF t, r
<1> QED BY <1>1, <1>2, <1>4, SettledStep, Zenon

\* The settlement of the ordinary-uid profiles, which also compare the counts.
LEMMA SettleDirectStep ==
    ASSUME IInv, NEW p \in Proc, NEW clean \in BOOLEAN, NEW after, SettleDirect(p, clean, after),
           clean => rec[p].result = "clean",
           after \in [Backends -> BOOLEAN], after["model"], UNCHANGED <<kind, request, ops, session>>
    PROVE  Sound
<1> DEFINE proved == rec[p].clean \/ clean
           pending == ~Reaped(p) \/ rec[p].control \in {"read", "decide"} \/ rec[p].pipes = "open"
           t == IF pending THEN rec[p] ELSE Cancelled(rec[p])
           r == [t EXCEPT !.run = "join", !.clean = proved]
<1>1. /\ rec[p].run = "settle" /\ rec' = [rec EXCEPT ![p] = r]
      /\ UNCHANGED sup \/ CloseSockets(p)
      /\ quarantined' = (IF ~proved THEN after ELSE quarantined) /\ UNCHANGED <<lease, faults>>
  BY DEF SettleDirect
<1>2. rec[p] \in Record /\ quarantined' \in [Backends -> BOOLEAN]
  BY <1>1, Facts
<1>3. proved \in BOOLEAN /\ t \in {rec[p], Cancelled(rec[p])}
  BY <1>2 DEF Record
<1>4. r \in Record /\ r.run = "join" /\ r.result = rec[p].result /\ r.closed = rec[p].closed /\ r.clean = proved
  <2>1. Keeps(t, rec[p])
    BY <1>2, <1>3, Updates DEF Keeps
  <2> HIDE DEF proved, t
  <2> QED BY <1>3, <2>1, Zenon DEF Keeps, Record, Phases
<1> HIDE DEF pending, t, r
<1> QED BY <1>1, <1>2, <1>4, SettledStep, Zenon

------------------------------------------------------------------------------
(* The backends. *)

\* Every step of the static profile.
LEMMA StaticSound ==
    ASSUME IInv, NEW p \in Proc, StaticStep(p), UNCHANGED <<kind, request, ops, session>>
    PROVE  Sound
<1>1. CASE StaticControl(p)
  BY <1>1, StaticControlStep
<1>2. CASE StaticCheck(p)
  <2>1. quarantined["model"] \in BOOLEAN /\ Check(p, quarantined["model"], "prepare")
    BY <1>2, Facts DEF StaticCheck, Backends
  <2> QED BY <2>1, CheckStep
<1>3. CASE StaticPrepare(p)
  BY <1>3, PrepareStep DEF StaticPrepare
<1>4. CASE StaticCommunication(p)
  BY <1>4, StaticCommunicationStep
<1>5. CASE StaticKill(p)
  BY <1>5, StaticKillStep
<1>6. CASE StaticSettle(p)
  BY <1>6, StaticSettleStep
<1>7. CASE StaticEnd(p)
  <2>1. End(p, "done") /\ quarantined' = [quarantined EXCEPT !["model"] = @ \/ (Spawned(p) /\ ~rec[p].clean)]
    BY <1>7 DEF StaticEnd
  <2>2. quarantined \in [Backends -> BOOLEAN] /\ (Spawned(p) /\ ~rec[p].clean) \in BOOLEAN
    BY Facts DEF Spawned
  <2>3. /\ quarantined' \in [Backends -> BOOLEAN]
        /\ quarantined'["model"] = (quarantined["model"] \/ (Spawned(p) /\ ~rec[p].clean))
        /\ quarantined' = quarantined \/ (Spawned(p) /\ ~rec[p].clean)
    BY <2>1, <2>2 DEF Backends
  <2> QED BY <2>1, <2>3, EndStep, Zenon
<1> QED BY <1>1, <1>2, <1>3, <1>4, <1>5, <1>6, <1>7 DEF StaticStep

\* A record of the other backends was quarantined by its settlement.
LEMMA PlainEnd ==
    ASSUME IInv, NEW p \in Proc, NEW run \in {"emit", "done"}, End(p, run), kind[p] # "static",
           UNCHANGED quarantined, UNCHANGED <<kind, request, ops, session>>
    PROVE  Sound
<1>1. quarantined' \in [Backends -> BOOLEAN]
  BY Facts
<1> QED BY <1>1, EndStep

\* Every step of the managed profile.
LEMMA ManagedSound ==
    ASSUME IInv, NEW p \in Proc, ManagedStep(p), UNCHANGED <<kind, request, ops, session>>
    PROVE  Sound
<1>0. ManagedQuarantine \in [Backends -> BOOLEAN] /\ ManagedQuarantine["model"]
  BY Quarantines
<1>1. CASE ManagedControl(p)
  BY <1>0, <1>1, ManagedReceiveStep DEF ManagedControl
<1>2. CASE ManagedCheck(p)
  <2>1. quarantined["model"] \in BOOLEAN /\ Check(p, quarantined["model"], "prepare")
    BY <1>2, Facts DEF ManagedCheck, Backends
  <2> QED BY <2>1, CheckStep
<1>3. CASE ManagedPrepare(p)
  BY <1>3, PrepareStep DEF ManagedPrepare
<1>4. CASE ManagedCommunication(p)
  BY <1>4, CommunicateStep, Zenon DEF ManagedCommunication
<1>5. CASE ManagedAwaitExit(p)
  BY <1>5, AwaitExitStep DEF ManagedAwaitExit
<1>6. CASE ManagedSettle(p)
  BY <1>0, <1>6, SettleStep DEF ManagedSettle
<1>7. CASE ManagedEnd(p)
  BY <1>7, PlainEnd DEF ManagedEnd
<1> QED BY <1>1, <1>2, <1>3, <1>4, <1>5, <1>6, <1>7 DEF ManagedStep

\* Every step of a host process with pipes.
LEMMA HostSound ==
    ASSUME IInv, NEW p \in Proc, HostStep(p), UNCHANGED <<kind, request, ops, session>>
    PROVE  Sound
<1>0. HostQuarantine \in [Backends -> BOOLEAN] /\ HostQuarantine["model"]
  BY Quarantines
<1>1. CASE HostControl(p)
  BY <1>0, <1>1, ManagedReceiveStep DEF HostControl, HostReads
<1>2. CASE HostCheck(p)
  <2>1. quarantined["host"] \in BOOLEAN /\ Check(p, quarantined["host"], "prepare") /\ Hosted(p)
    BY <1>2, Facts DEF HostCheck, Backends, Hosted
  <2> QED BY <2>1, CheckStep
<1>3. CASE HostPrepare(p)
  BY <1>3, PrepareStep DEF HostPrepare
<1>4. CASE HostCommunication(p)
  BY <1>4, CommunicateStep, Zenon DEF HostCommunication
<1>5. CASE HostAwaitExit(p)
  BY <1>5, AwaitExitStep DEF HostAwaitExit
<1>6. CASE HostSettle(p)
  BY <1>0, <1>6, SettleStep DEF HostSettle
<1>7. CASE HostEnd(p)
  BY <1>7, PlainEnd DEF HostEnd
<1>8. CASE HostEmit(p)
  BY <1>8, EmitStep, Zenon DEF HostEmit
<1> QED BY <1>1, <1>2, <1>3, <1>4, <1>5, <1>6, <1>7, <1>8 DEF HostStep

\* Every step of a host process with a terminal.
LEMMA HostPtySound ==
    ASSUME IInv, NEW p \in Proc, HostPtyStep(p), UNCHANGED <<kind, request, ops, session>>
    PROVE  Sound
<1>0. HostQuarantine \in [Backends -> BOOLEAN] /\ HostQuarantine["model"]
  BY Quarantines
<1>1. CASE HostPtyControl(p)
  BY <1>0, <1>1, ManagedReceiveStep DEF HostPtyControl, HostPtyReads, HostReads
<1>2. CASE HostPtyCheck(p)
  <2>1. quarantined["host"] \in BOOLEAN /\ Check(p, quarantined["host"], "prepare") /\ Hosted(p)
    BY <1>2, Facts DEF HostPtyCheck, Backends, Hosted
  <2> QED BY <2>1, CheckStep
<1>3. CASE HostPtyPrepare(p)
  BY <1>3, PrepareStep DEF HostPtyPrepare
<1>4. CASE HostPtyCommunication(p)
  BY <1>4, CommunicateStep, Zenon DEF HostPtyCommunication
<1>5. CASE HostPtyAwaitExit(p)
  BY <1>5, AwaitExitStep DEF HostPtyAwaitExit
<1>6. CASE HostPtySettle(p)
  BY <1>0, <1>6, SettleStep DEF HostPtySettle
<1>7. CASE HostPtyEnd(p)
  BY <1>7, PlainEnd DEF HostPtyEnd
<1>8. CASE HostEmit(p)
  BY <1>8, EmitStep, Zenon DEF HostEmit
<1> QED BY <1>1, <1>2, <1>3, <1>4, <1>5, <1>6, <1>7, <1>8 DEF HostPtyStep

\* Every step of an ordinary-uid process with pipes.
LEMMA DirectSound ==
    ASSUME IInv, NEW p \in Proc, DirectStep(p, ~session.held), UNCHANGED <<kind, request, ops, session>>
    PROVE  Sound
<1>0. DirectQuarantine \in [Backends -> BOOLEAN] /\ DirectQuarantine["model"]
  BY Quarantines
<1>1. CASE DirectControl(p)
  BY <1>0, <1>1, DirectReceiveStep DEF DirectControl
<1>2. CASE DirectPrepare(p, ~session.held)
  <2> DEFINE refused == quarantined["direct"] \/ quarantined["model"] \/ ~session.held
  <2>1. refused \in BOOLEAN /\ Launch(p, refused) /\ (~refused => ~quarantined["model"])
    BY <1>2, Facts DEF DirectPrepare, Backends
  <2> HIDE DEF refused
  <2> QED BY <2>1, LaunchStep
<1>3. DirectClean(p) \in BOOLEAN /\ (DirectClean(p) => rec[p].result = "clean")
  BY DEF DirectClean
<1>4. CASE DirectSupervise(p)
  BY <1>3, <1>4, SuperviseStep DEF DirectSupervise
<1>5. CASE DirectAwaitAll(p)
  BY <1>5, AwaitAllStep DEF DirectAwaitAll
<1>6. CASE DirectSettle(p)
  BY <1>0, <1>3, <1>6, SettleDirectStep DEF DirectSettle
<1>7. CASE DirectEnd(p)
  BY <1>7, PlainEnd DEF DirectEnd
<1>8. CASE DirectEmit(p)
  BY <1>8, EmitStep, Zenon DEF DirectEmit
<1> QED BY <1>1, <1>2, <1>4, <1>5, <1>6, <1>7, <1>8 DEF DirectStep

\* Every step of an ordinary-uid process with a terminal.
LEMMA TtySound ==
    ASSUME IInv, NEW p \in Proc, TtyStep(p, ~session.held), UNCHANGED <<kind, request, ops, session>>
    PROVE  Sound
<1>0. TtyQuarantine \in [Backends -> BOOLEAN] /\ TtyQuarantine["model"]
  BY Quarantines
<1>1. CASE TtyControl(p)
  BY <1>0, <1>1, DirectReceiveStep DEF TtyControl, TtyReads
<1>2. CASE TtyPrepare(p, ~session.held)
  <2> DEFINE refused == quarantined["tty"] \/ quarantined["model"] \/ ~session.held
  <2>1. refused \in BOOLEAN /\ Launch(p, refused) /\ (~refused => ~quarantined["model"])
    BY <1>2, Facts DEF TtyPrepare, Backends
  <2> HIDE DEF refused
  <2> QED BY <2>1, LaunchStep
<1>3. TtyClean(p) \in BOOLEAN /\ (TtyClean(p) => rec[p].result = "clean")
  BY DEF TtyClean, DirectClean
<1>4. CASE TtySupervise(p)
  BY <1>3, <1>4, SuperviseStep DEF TtySupervise
<1>5. CASE TtyAwaitAll(p)
  BY <1>5, AwaitAllStep DEF TtyAwaitAll
<1>6. CASE TtySettle(p)
  BY <1>0, <1>3, <1>6, SettleDirectStep DEF TtySettle
<1>7. CASE TtyEnd(p)
  BY <1>7, PlainEnd DEF TtyEnd
<1>8. CASE TtyEmit(p)
  BY <1>8, EmitStep, Zenon DEF TtyEmit
<1> QED BY <1>1, <1>2, <1>4, <1>5, <1>6, <1>7, <1>8 DEF TtyStep

------------------------------------------------------------------------------
(* The supervisor. *)

\* The supervisor says at most one message and goes on.
Goes(t, s, at) ==
    /\ t \in Supervisor /\ t.at = at /\ t.alive = s.alive
    /\ HasClean(t.ctl) => HasClean(s.ctl)

\* A message other than `clean', or none, proves nothing.
LEMMA SayNothing ==
    ASSUME NEW c \in Seq(Messages), NEW ms, ms = <<>> \/ \E m \in Messages \ {"clean"} : ms = <<m>>
    PROVE  c \o ms \in Seq(Messages) /\ (HasClean(c \o ms) => HasClean(c))
<1>1. CASE ms = <<>>
  BY <1>1, CleanSame
<1>2. CASE \E m \in Messages \ {"clean"} : ms = <<m>>
  BY <1>2, CleanAppend
<1> QED BY <1>1, <1>2

\* A supervisor that goes on while its descendants are where they were keeps Local; one
\* whose cleanup is on record has already reported.
LEMMA GoesStep ==
    ASSUME IInv, NEW p \in Proc, sup[p].at # "none", NEW at, at # "none", NEW t, Goes(t, sup[p], at),
           sup[p].at = "reported" => at \in {"reported", "gone", "lost"},
           sup' = [sup EXCEPT ![p] = t], faults' \in 0..MaxFaults,
           UNCHANGED <<kind, rec, lease, quarantined, request, ops, session>>, Acts(p)
    PROVE  Sound
<1>1. sup[p].at \notin {"gone", "lost"}
  BY DEF Acts, Reaped
<1>2. Local(rec[p], t, lease = p, quarantined["model"], kind[p])
  BY <1>1, Facts DEF Goes, Local, Quiet
<1> QED BY <1>2, NativeStep, Zenon DEF Goes

\* Say with a message that proves nothing.
LEMMA SayStep ==
    ASSUME IInv, NEW p \in Proc, Acts(p), NEW at, NEW ms, Say(p, at, ms),
           at \in {"boot", "ready", "acked", "work", "asked", "exec", "leader", "reported", "gone", "lost"},
           sup[p].at = "reported" => at \in {"reported", "gone", "lost"},
           ms = <<>> \/ \E m \in Messages \ {"clean"} : ms = <<m>>,
           faults' \in 0..MaxFaults, UNCHANGED <<kind, rec, lease, quarantined, request, ops, session>>
    PROVE  Sound
<1> DEFINE c == sup[p].ctl \o ms
           t == [sup[p] EXCEPT !.at = at, !.ctl = c]
<1>1. sup' = [sup EXCEPT ![p] = t]
  BY Zenon DEF Say
<1>2. sup[p] \in Supervisor
  BY Facts
<1>3. c \in Seq(Messages) /\ (HasClean(c) => HasClean(sup[p].ctl))
  BY <1>2, SayNothing DEF Supervisor
<1> HIDE DEF c
<1>4. Goes(t, sup[p], at)
  BY <1>2, <1>3, Zenon DEF Goes, Supervisor
<1> HIDE DEF t
<1> QED BY <1>1, <1>4, GoesStep, Zenon DEF Acts, Spawned

\* What a supervisor that reports `clean' leaves: nobody, and the lease step End if there
\* was somebody.
LEMMA CleanReport ==
    ASSUME IInv, NEW p \in Proc, Acts(p), NEW t \in Supervisor, t.at = "reported", ~t.alive,
           sup' = [sup EXCEPT ![p] = t], faults' \in 0..MaxFaults,
           UNCHANGED <<kind, rec, lease, quarantined, request, ops, session>>
    PROVE  Sound
<1>1. Local(rec[p], t, lease = p, quarantined["model"], kind[p])
  BY Facts DEF Local, Quiet, Acts, Spawned
<1>2. IInv'
  <2>1. rec[p] \in Record /\ rec' = [rec EXCEPT ![p] = rec[p]] /\ quarantined' \in [Backends -> BOOLEAN]
        /\ request' \in [Proc -> Requests]
    BY Facts
  <2> QED BY <1>1, <2>1, LocalStep, Zenon
<1>3. sup'[p] = t /\ \A x \in Proc : x # p => sup'[x] = sup[x]
  BY DEF IInv, TypeOK
<1>4. Admitted
  BY <1>3 DEF Admitted, Acts, Spawned
<1>5. Acting' = Acting \ {p} /\ Lost' = Lost
  BY <1>3, ProcAssumption DEF Acting, Lost
<1>6. [Lease!Next]_(Lease!vars)
  <2>1. CASE p \in Acting
    <3>1. Lease!End(p)
      BY <1>5, <2>1 DEF Lease!End
    <3> QED BY <3>1 DEF Lease!Next
  <2>2. CASE p \notin Acting
    BY <1>5, <2>2 DEF Lease!vars
  <2> QED BY <2>1, <2>2
<1> QED BY <1>2, <1>4, <1>6 DEF Sound

\* clone() under an accepted policy: Begin.
LEMMA ForksStep ==
    ASSUME IInv, NEW p \in Proc, Acts(p), SupervisorForks(p),
           UNCHANGED <<kind, rec, lease, quarantined, request, ops, session>>
    PROVE  Sound
<1> DEFINE t == [sup[p] EXCEPT !.at = "work", !.alive = TRUE]
<1>1. sup[p].at = "acked" /\ sup' = [sup EXCEPT ![p] = t]
  BY Zenon DEF SupervisorForks
<1>2. t \in Supervisor /\ t.at = "work" /\ t.alive /\ t.ctl = sup[p].ctl
  <2>1. sup[p] \in Supervisor
    BY Facts
  <2> QED BY <2>1, Zenon DEF Supervisor
<1> HIDE DEF t
<1>3. Local(rec[p], sup[p], lease = p, quarantined["model"], kind[p])
  BY Facts
<1>4. Local(rec[p], t, lease = p, quarantined["model"], kind[p])
  BY <1>1, <1>2, <1>3 DEF Local, Quiet
<1>5. lease = p /\ session.held
  <2>1. rec[p] \in Record
    BY Facts
  <2>2. lease = p
    BY <1>1, <1>3, <2>1 DEF Local, Quiet, Over, Record, Phases
  <2>3. session.held
    BY <2>2 DEF IInv, CloseOK
  <2> QED BY <2>2, <2>3
<1>6. IInv'
  <2>1. rec[p] \in Record /\ rec' = [rec EXCEPT ![p] = rec[p]] /\ quarantined' \in [Backends -> BOOLEAN]
        /\ request' \in [Proc -> Requests] /\ faults' \in 0..MaxFaults
    BY Facts DEF SupervisorForks
  <2> QED BY <1>1, <1>2, <1>4, <2>1, LocalStep, Zenon
<1>7. sup'[p] = t /\ \A x \in Proc : x # p => sup'[x] = sup[x]
  BY <1>1 DEF IInv, TypeOK
<1>8. Admitted
  BY <1>1, <1>7 DEF Admitted, Spawned
<1>9. Acting' = Acting \cup {p} /\ Lost' = Lost
  BY <1>2, <1>7 DEF Acting, Lost
<1>10. Lease!Begin(p)
  BY <1>5, <1>9 DEF Lease!Begin
<1> QED BY <1>6, <1>8, <1>10 DEF Sound, Lease!Next

\* The steps of a supervisor that works.
LEMMA SupervisorSound ==
    ASSUME IInv, NEW p \in Proc, SupervisorStep(p), UNCHANGED <<kind, request, ops, session>>
    PROVE  Sound
<1>1. Acts(p) /\ UNCHANGED <<kind, rec, lease, quarantined, request, ops, session>>
  BY DEF SupervisorStep
<1>2. sup[p] \in Supervisor /\ faults \in 0..MaxFaults /\ UNCHANGED faults
  BY Facts DEF SupervisorStep, SupervisorReady, SupervisorForks, SupervisorAsks, SupervisorExecs,
     SupervisorWaits, SupervisorReports, SupervisorExits
<1>3. ASSUME NEW at \in {"ready", "asked", "exec", "leader"}, NEW m \in {"ready", "acquire", "started", "exited"},
             Say(p, at, <<m>>), sup[p].at # "reported"
      PROVE  Sound
  <2> DEFINE ms == <<m>>
  <2>1. ms = <<>> \/ \E x \in Messages \ {"clean"} : ms = <<x>>
    BY DEF Messages
  <2>2. Say(p, at, ms)
    BY <1>3
  <2> HIDE DEF ms
  <2> QED BY <1>1, <1>2, <1>3, <2>1, <2>2, SayStep
<1>4. CASE SupervisorReady(p)
  BY <1>3, <1>4 DEF SupervisorReady
<1>5. CASE SupervisorForks(p)
  BY <1>1, <1>5, ForksStep
<1>6. CASE SupervisorAsks(p)
  BY <1>3, <1>6 DEF SupervisorAsks
<1>7. CASE SupervisorExecs(p)
  BY <1>3, <1>7 DEF SupervisorExecs
<1>8. CASE SupervisorWaits(p)
  BY <1>3, <1>8 DEF SupervisorWaits
<1>9. CASE SupervisorReports(p)
  <2> DEFINE c == Append(sup[p].ctl, "clean")
             t == [sup[p] EXCEPT !.at = "reported", !.alive = FALSE, !.ctl = c]
  <2>1. sup' = [sup EXCEPT ![p] = t]
    BY <1>9, Zenon DEF SupervisorReports
  <2>2. c \in Seq(Messages)
    <3>1. sup[p].ctl \in Seq(Messages) /\ "clean" \in Messages
      BY <1>2 DEF Supervisor, Messages
    <3> QED BY <3>1
  <2> HIDE DEF c
  <2>3. t \in Supervisor /\ t.at = "reported" /\ ~t.alive
    BY <1>2, <2>2, Zenon DEF Supervisor
  <2> HIDE DEF t
  <2> QED BY <1>1, <1>2, <2>1, <2>3, CleanReport, Zenon
<1>10. CASE SupervisorExits(p)
  <2> DEFINE t == [sup[p] EXCEPT !.at = "gone", !.slow = FALSE]
  <2>1. sup' = [sup EXCEPT ![p] = t] /\ sup[p].at = "reported"
    BY <1>10, Zenon DEF SupervisorExits
  <2>2. Goes(t, sup[p], "gone")
    BY <1>2, Zenon DEF Goes, Supervisor
  <2> HIDE DEF t
  <2> QED BY <1>1, <1>2, <2>1, <2>2, GoesStep, Zenon
<1> QED BY <1>4, <1>5, <1>6, <1>7, <1>8, <1>9, <1>10 DEF SupervisorStep

\* The faults of a supervisor.
LEMMA FaultSound ==
    ASSUME IInv, NEW p \in Proc, SupervisorFault(p), UNCHANGED <<kind, request, ops, session>>
    PROVE  Sound
<1>1. Acts(p) /\ Spawned(p) /\ ~Reaped(p) /\ UNCHANGED <<kind, rec, lease, quarantined, request, ops, session>>
  BY DEF SupervisorFault, Acts
<1>2. sup[p] \in Supervisor /\ faults' \in 0..MaxFaults
  BY Facts, FaultType DEF SupervisorFault, SupervisorGives, SupervisorRetains, SupervisorMisbehaves
<1>3. sup[p].at \in {"boot", "ready", "acked", "work", "asked", "exec", "leader", "reported"} /\ sup[p].ctl \in Seq(Messages)
  BY <1>1, <1>2 DEF Supervisor, Spawned, Reaped
<1>4. ASSUME NEW at, Say(p, at, <<"unclean">>), at = "reported" PROVE Sound
  <2> DEFINE ms == <<"unclean">>
  <2>1. ms = <<>> \/ \E x \in Messages \ {"clean"} : ms = <<x>>
    BY DEF Messages
  <2>2. Say(p, at, ms)
    BY <1>4
  <2> HIDE DEF ms
  <2> QED BY <1>1, <1>2, <1>4, <2>1, <2>2, SayStep
<1>5. ASSUME Say(p, "lost", <<>>) PROVE Sound
  <2> DEFINE ms == <<>>
  <2>1. Say(p, "lost", ms) /\ ms = <<>>
    BY <1>5
  <2> HIDE DEF ms
  <2> QED BY <1>1, <1>2, <2>1, SayStep
<1>6. ASSUME Say(p, sup[p].at, <<"bad">>) PROVE Sound
  <2> DEFINE ms == <<"bad">>
             at == sup[p].at
  <2>1. ms = <<>> \/ \E x \in Messages \ {"clean"} : ms = <<x>>
    BY DEF Messages
  <2>2. Say(p, at, ms) /\ at \in {"boot", "ready", "acked", "work", "asked", "exec", "leader", "reported"} /\ sup[p].at = at
    BY <1>3, <1>6
  <2> HIDE DEF ms, at
  <2> QED BY <1>1, <1>2, <2>1, <2>2, SayStep
<1>7. ASSUME sup' = [sup EXCEPT ![p].hung = TRUE] PROVE Sound
  <2> DEFINE t == [sup[p] EXCEPT !.hung = TRUE]
             at == sup[p].at
  <2>1. sup' = [sup EXCEPT ![p] = t]
    BY <1>7
  <2>2. Goes(t, sup[p], at) /\ sup[p].at = at /\ at # "none"
    BY <1>2, <1>3, Zenon DEF Goes, Supervisor
  <2> HIDE DEF t, at
  <2> QED BY <1>1, <1>2, <2>1, <2>2, GoesStep, Zenon
<1>8. CASE SupervisorRetains(p)
  <2> DEFINE c == Append(sup[p].ctl, "retained")
             t == [sup[p] EXCEPT !.slow = TRUE, !.ctl = c]
             at == sup[p].at
  <2>1. sup' = [sup EXCEPT ![p] = t]
    BY <1>8, Zenon DEF SupervisorRetains
  <2>2. c \in Seq(Messages) /\ (HasClean(c) => HasClean(sup[p].ctl))
    <3>1. "retained" \in Messages /\ "retained" # "clean"
      BY DEF Messages
    <3> QED BY <1>3, <3>1, CleanAppend, Zenon
  <2> HIDE DEF c
  <2>3. Goes(t, sup[p], at) /\ sup[p].at = at /\ at # "none"
    BY <1>2, <1>3, <2>2, Zenon DEF Goes, Supervisor
  <2> HIDE DEF t, at
  <2> QED BY <1>1, <1>2, <2>1, <2>3, GoesStep, Zenon
<1>9. ASSUME Say(p, "reported", <<"clean">>), ~sup[p].alive PROVE Sound
  <2> DEFINE c == sup[p].ctl \o <<"clean">>
             t == [sup[p] EXCEPT !.at = "reported", !.ctl = c]
  <2>1. sup' = [sup EXCEPT ![p] = t]
    BY <1>9, Zenon DEF Say
  <2>2. c \in Seq(Messages)
    <3>1. "clean" \in Messages
      BY DEF Messages
    <3> QED BY <1>3, <3>1, CleanAppend
  <2> HIDE DEF c
  <2>3. t \in Supervisor /\ t.at = "reported" /\ ~t.alive
    BY <1>2, <1>9, <2>2, Zenon DEF Supervisor
  <2> HIDE DEF t
  <2> QED BY <1>1, <1>2, <2>1, <2>3, CleanReport, Zenon
<1>10. CASE SupervisorGives(p)
  BY <1>4, <1>9, <1>10 DEF SupervisorGives
<1>11. CASE SupervisorMisbehaves(p)
  BY <1>5, <1>6, <1>7, <1>11 DEF SupervisorMisbehaves
<1> QED BY <1>8, <1>10, <1>11 DEF SupervisorFault

------------------------------------------------------------------------------
(* Starts. *)

\* _start() and spawn() reserve a record that waits for the lock.
LEMMA ReserveStep ==
    ASSUME IInv, NEW p \in Proc, rec[p].run = "none", ~session.closing, Reserve(p),
           request' = [request EXCEPT ![p] = "open"],
           UNCHANGED <<kind, sup, lease, quarantined, faults, ops, session>>
    PROVE  Sound
<1> DEFINE r == [NoRecord EXCEPT !.run = "lease", !.registered = TRUE]
<1>1. rec' = [rec EXCEPT ![p] = r]
  BY DEF Reserve
<1>2. /\ r \in Record /\ r.run = "lease" /\ r.result = "none" /\ ~r.clean /\ ~r.closed /\ r.control = "off"
  BY Zenon DEF Record, NoRecord, Phases
<1> HIDE DEF r
<1>3. Local(r, sup[p], lease = p, quarantined["model"], kind[p])
  BY <1>2, Facts, CleanEmpty DEF Local, Over
<1>4. request' \in [Proc -> Requests] /\ faults' \in 0..MaxFaults
  BY Facts DEF Requests
<1> QED BY <1>1, <1>2, <1>3, <1>4, RecordStep, Zenon DEF Over

\* The answers to a start, a termination.
LEMMA AnswerStep ==
    ASSUME IInv, NEW p \in Proc, NEW r \in {rec[p], Terminated(rec[p])}, rec' = [rec EXCEPT ![p] = r],
           request' \in [Proc -> Requests], UNCHANGED <<kind, sup, lease, quarantined, faults, ops, session>>
    PROVE  Sound
<1>1. rec[p] \in Record /\ faults' \in 0..MaxFaults
  BY Facts
<1>2. Keeps(r, rec[p]) /\ r.control = rec[p].control
  BY <1>1, Updates DEF Keeps
<1> QED BY <1>1, <1>2, KeepStep, Zenon

\* Every step of a start.
LEMMA StartSound == ASSUME IInv, NEW p \in Proc, StartStep(p) PROVE Sound
<1>1. /\ rec = [rec EXCEPT ![p] = rec[p]] /\ request \in [Proc -> Requests]
      /\ \A v \in Requests : [request EXCEPT ![p] = v] \in [Proc -> Requests]
  BY Facts
<1>2. {"open", "settling", "answered"} \subseteq Requests
  BY DEF Requests
<1>3. CASE StartModel(p)
  BY <1>3, ReserveStep, Zenon DEF StartModel
<1>4. CASE StartHost(p)
  BY <1>4, ReserveStep, Zenon DEF StartHost
<1>5. CASE StartSucceeds(p) \/ StartSettles(p)
  BY <1>1, <1>2, <1>5, AnswerStep DEF StartSucceeds, StartSettles, processVars
<1>6. CASE CancelStart(p)
  <2> DEFINE r == IF Finished(p) THEN rec[p] ELSE Terminated(rec[p])
  <2>1. rec' = [rec EXCEPT ![p] = r] /\ r \in {rec[p], Terminated(rec[p])}
    BY <1>6 DEF CancelStart
  <2> HIDE DEF r
  <2> QED BY <1>1, <1>2, <1>6, <2>1, AnswerStep, Zenon DEF CancelStart
<1>7. CASE StartFails(p)
  <2> DEFINE r == IF Finished(p) \/ Backend(p) = "model" THEN rec[p] ELSE Terminated(rec[p])
  <2>1. rec' = [rec EXCEPT ![p] = r] /\ r \in {rec[p], Terminated(rec[p])}
    BY <1>7 DEF StartFails
  <2> HIDE DEF r
  <2> QED BY <1>1, <1>2, <1>7, <2>1, AnswerStep, Zenon DEF StartFails
<1>8. CASE Terminate(p)
  <2>1. rec' = [rec EXCEPT ![p] = Terminated(rec[p])] /\ request' \in [Proc -> Requests]
    BY <1>1, <1>8 DEF Terminate
  <2> QED BY <1>8, <2>1, AnswerStep, Zenon DEF Terminate
<1> QED BY <1>3, <1>4, <1>5, <1>6, <1>7, <1>8 DEF StartStep

------------------------------------------------------------------------------
(* Steps of all records: the loss of the host transport and close(). *)

\* Records change in nothing Local reads and the session in nothing the lease sees.
LEMMA SweepStep ==
    ASSUME IInv, rec' \in [Proc -> Record],
           \A p \in Proc : Keeps(rec'[p], rec[p]) /\ rec'[p].control = rec[p].control,
           UNCHANGED <<kind, sup, lease, quarantined, faults, request, ops>>,
           session' \in [closing: BOOLEAN, close: {"no", "processes", "files", "ok", "unknown"},
                         held: BOOLEAN, disconnected: BOOLEAN, calm: BOOLEAN],
           session'.held = session.held, CloseOK'
    PROVE  Sound
<1>1. TypeOK'
  BY DEF IInv, TypeOK
<1>2. ProcessesOK'
  <2> SUFFICES ASSUME NEW p \in Proc
               PROVE  Local(rec'[p], sup[p], lease = p, quarantined["model"], kind[p])
    BY DEF ProcessesOK
  <2> QED BY Facts DEF Keeps, Local, Over
<1>3. FilesOK'
  BY DEF IInv, FilesOK
<1>4. Acting' = Acting /\ Lost' = Lost
  BY DEF Acting, Lost, Keeps
<1>5. UNCHANGED Lease!vars
  BY <1>4 DEF Lease!vars
<1>6. Admitted
  BY DEF Admitted, Spawned
<1> QED BY <1>1, <1>2, <1>3, <1>5, <1>6 DEF IInv, Sound

\* The transport of the host is lost.
LEMMA DisconnectSound == ASSUME IInv, Disconnect PROVE Sound
<1>1. \A p \in Proc : rec[p] \in Record
  BY Facts
<1>2. \A p \in Proc : Keeps(rec'[p], rec[p]) /\ rec'[p].control = rec[p].control
  BY <1>1, Updates DEF Disconnect, Keeps
<1>3. rec' \in [Proc -> Record]
  BY <1>2 DEF Disconnect, Keeps
<1>4. session' = [session EXCEPT !.disconnected = TRUE]
  BY DEF Disconnect
<1>5. /\ session' \in [closing: BOOLEAN, close: {"no", "processes", "files", "ok", "unknown"},
                       held: BOOLEAN, disconnected: BOOLEAN, calm: BOOLEAN]
      /\ session'.held = session.held /\ session'.closing = session.closing /\ session'.close = session.close
  BY <1>4, Zenon DEF IInv, TypeOK
<1>6. CloseOK'
  BY <1>2, <1>5 DEF IInv, CloseOK, Live, Keeps, Disconnect
<1> QED BY <1>2, <1>3, <1>5, <1>6, SweepStep DEF Disconnect

\* close() refuses what comes and terminates what lives.
LEMMA CloseSound == ASSUME IInv, Close PROVE Sound
<1>1. \A p \in Proc : rec[p] \in Record
  BY Facts
<1>2. \A p \in Proc : Keeps(rec'[p], rec[p]) /\ rec'[p].control = rec[p].control
  BY <1>1, Updates DEF Close, Keeps
<1>3. rec' \in [Proc -> Record]
  BY <1>2 DEF Close, Keeps
<1>4. session' = [session EXCEPT !.closing = TRUE, !.close = "processes", !.disconnected = TRUE]
  BY DEF Close
<1>5. /\ session' \in [closing: BOOLEAN, close: {"no", "processes", "files", "ok", "unknown"},
                       held: BOOLEAN, disconnected: BOOLEAN, calm: BOOLEAN]
      /\ session'.held = session.held /\ session'.closing /\ session'.close = "processes"
  BY <1>4, Zenon DEF IInv, TypeOK
<1>6. CloseOK'
  BY <1>5 DEF IInv, CloseOK, Close
<1> QED BY <1>2, <1>3, <1>5, <1>6, SweepStep DEF Close

\* Every record has ended.
LEMMA CloseProcessesSound == ASSUME IInv, CloseProcesses PROVE Sound
<1>1. \A p \in Proc : rec[p] \in Record
  BY Facts
<1>2. \A p \in Proc : Keeps(rec'[p], rec[p]) /\ rec'[p].control = rec[p].control
  <2> SUFFICES ASSUME NEW p \in Proc PROVE Keeps(rec'[p], rec[p]) /\ rec'[p].control = rec[p].control
    OBVIOUS
  <2>1. rec'[p] = [rec[p] EXCEPT !.registered = FALSE]
    BY DEF CloseProcesses
  <2>2. rec[p] \in Record
    BY <1>1
  <2> QED BY <2>1, <2>2, Zenon DEF Keeps, Record
<1>3. rec' \in [Proc -> Record]
  BY <1>2 DEF CloseProcesses, Keeps
<1>4. PICK c \in {"unknown", "files"} : session' = [session EXCEPT !.close = c]
  BY DEF CloseProcesses
<1>5. /\ session' \in [closing: BOOLEAN, close: {"no", "processes", "files", "ok", "unknown"},
                       held: BOOLEAN, disconnected: BOOLEAN, calm: BOOLEAN]
      /\ session'.held = session.held /\ session'.closing = session.closing /\ session'.close = c
  BY <1>4 DEF IInv, TypeOK
<1>6. \A p \in Proc : ~Live(p) /\ ~Live(p)'
  BY <1>2 DEF CloseProcesses, Live, Keeps
<1>7. CloseOK'
  BY <1>5, <1>6 DEF IInv, CloseOK, CloseProcesses
<1> QED BY <1>2, <1>3, <1>5, <1>7, SweepStep DEF CloseProcesses

\* The root is given up under the lock of the files: GiveUp.
LEMMA CloseFilesSound == ASSUME IInv, CloseFiles PROVE Sound
<1>1. /\ session.close = "files" /\ lease = Free /\ session' = [session EXCEPT !.close = "ok", !.held = FALSE]
      /\ UNCHANGED <<kind, rec, sup, lease, quarantined, faults, request, ops>>
  BY DEF CloseFiles, processVars
<1>2. /\ session' \in [closing: BOOLEAN, close: {"no", "processes", "files", "ok", "unknown"},
                       held: BOOLEAN, disconnected: BOOLEAN, calm: BOOLEAN]
      /\ ~session'.held /\ session'.closing = session.closing /\ session'.close = "ok"
  BY <1>1, Zenon DEF IInv, TypeOK
<1>3. Free \notin Proc /\ Free \notin FileOp
  BY ProcAssumption
<1>4. TypeOK' /\ ProcessesOK'
  BY <1>1, <1>2 DEF IInv, TypeOK, ProcessesOK
<1>5. FilesOK'
  BY <1>1, <1>3 DEF IInv, FilesOK
<1>6. CloseOK'
  BY <1>1, <1>2, <1>3 DEF IInv, CloseOK, Live
<1>7. Acting' = Acting /\ Lost' = Lost /\ Admitted /\ session.held
  BY <1>1 DEF Acting, Lost, Admitted, Spawned, IInv, CloseOK
<1>8. Lease!GiveUp
  BY <1>1, <1>2, <1>7, Zenon DEF Lease!GiveUp, IInv, TypeOK
<1> QED BY <1>4, <1>5, <1>6, <1>7, <1>8 DEF IInv, Sound, Lease!Next

------------------------------------------------------------------------------
(* File operations. *)

\* A step of one file operation, which passes the lock only between itself and nobody.
LEMMA FileLocal ==
    ASSUME IInv, NEW f \in FileOp, NEW at \in {"none", "lock", "plan", "helper", "reap", "settled", "done"},
           ops' = [ops EXCEPT ![f].at = at],
           UNCHANGED <<kind, rec, sup, quarantined, faults, request, session>>,
           lease' = lease \/ (lease \in {f, Free} /\ lease' \in {f, Free}),
           at \in {"plan", "helper", "reap", "settled"} <=> lease' = f,
           at \in {"helper", "reap"} => session.held
    PROVE  /\ IInv' /\ Admitted /\ Lost' = Lost
           /\ Acting' = IF at \in {"helper", "reap"} THEN Acting \cup {f} ELSE Acting \ {f}
<1>1. f \notin Proc /\ Free \notin Proc /\ Free \notin FileOp
  BY ProcAssumption
<1>2. ops'[f].at = at /\ \A g \in FileOp : g # f => ops'[g] = ops[g]
  BY DEF IInv, TypeOK
<1>3. TypeOK'
  BY DEF IInv, TypeOK
<1>4. \A p \in Proc : lease' = p <=> lease = p
  BY <1>1
<1>5. ProcessesOK'
  <2> SUFFICES ASSUME NEW p \in Proc
               PROVE  Local(rec[p], sup[p], lease' = p, quarantined["model"], kind[p])
    BY DEF ProcessesOK
  <2> QED BY <1>4, Facts DEF Local
<1>6. FilesOK'
  <2> SUFFICES ASSUME NEW g \in FileOp
               PROVE  /\ ops'[g].at \in {"plan", "helper", "reap", "settled"} <=> lease' = g
                      /\ ops'[g].at \in {"helper", "reap"} => session.held
    BY DEF FilesOK
  <2>1. CASE g = f
    BY <1>2, <2>1
  <2>2. CASE g # f
    BY <1>1, <1>2, <2>2 DEF IInv, FilesOK
  <2> QED BY <2>1, <2>2
<1>7. CloseOK'
  BY <1>1 DEF IInv, CloseOK, Live
<1>8. Admitted /\ Lost' = Lost
  BY <1>4 DEF Admitted, Spawned, Lost
<1>9. Acting' = IF at \in {"helper", "reap"} THEN Acting \cup {f} ELSE Acting \ {f}
  BY <1>1, <1>2 DEF Acting
<1> QED BY <1>3, <1>5, <1>6, <1>7, <1>8, <1>9 DEF IInv

\* Every step of a file operation.
LEMMA FileSound == ASSUME IInv, NEW f \in FileOp, FileStep(f) PROVE Sound
<1>1. f # Free /\ f \notin Proc
  BY ProcAssumption
<1>2. /\ ops[f].at \in {"plan", "helper", "reap", "settled"} <=> lease = f
      /\ ops[f].at \in {"helper", "reap"} => session.held
      /\ f \in Acting <=> ops[f].at \in {"helper", "reap"}
  BY <1>1 DEF IInv, FilesOK, Acting
<1>3. UNCHANGED <<kind, rec, sup, quarantined, faults, request, session>>
  BY DEF FileStep, FileRequest, FileLocks, FilePlans, FileCancels, FileSettles, FileReleases, processVars
<1>4. ASSUME NEW at \in {"lock", "settled", "reap", "done"}, ops' = [ops EXCEPT ![f].at = at], UNCHANGED lease,
             at \in {"reap", "settled"} <=> lease = f, at = "reap" <=> f \in Acting
      PROVE  Sound
  <2>1. IInv' /\ Admitted /\ Lost' = Lost /\ Acting' = (IF at \in {"helper", "reap"} THEN Acting \cup {f} ELSE Acting \ {f})
    BY <1>2, <1>3, <1>4, FileLocal, Zenon
  <2>2. Acting' = Acting
    BY <1>4, <2>1
  <2> QED BY <1>3, <1>4, <2>1, <2>2 DEF Sound, Lease!vars
<1>5. CASE FileRequest(f)
  BY <1>2, <1>4, <1>5 DEF FileRequest, processVars
<1>6. CASE FileLocks(f)
  <2>1. ops' = [ops EXCEPT ![f].at = "plan"] /\ lease = Free /\ lease' = f /\ ops[f].at = "lock"
    BY <1>6 DEF FileLocks
  <2>2. IInv' /\ Admitted /\ Lost' = Lost /\ Acting' = Acting \ {f}
    BY <1>3, <2>1, FileLocal, Zenon
  <2>3. Lease!Acquire(f)
    BY <1>2, <1>3, <2>1, <2>2 DEF Lease!Acquire
  <2> QED BY <2>2, <2>3 DEF Sound, Lease!Next
<1>7. CASE FilePlans(f)
  <2>1. ops[f].at = "plan" /\ UNCHANGED lease /\ lease = f
    BY <1>2, <1>7 DEF FilePlans, processVars
  <2>2. CASE ops' = [ops EXCEPT ![f].at = "settled"]
    BY <1>2, <1>4, <2>1, <2>2
  <2>3. CASE ~FileRefused(f) /\ ops' = [ops EXCEPT ![f].at = "helper"]
    <3>1. session.held
      BY <2>3 DEF FileRefused
    <3>2. IInv' /\ Admitted /\ Lost' = Lost /\ Acting' = Acting \cup {f}
      BY <1>3, <2>1, <2>3, <3>1, FileLocal, Zenon
    <3>3. Lease!Begin(f)
      BY <1>3, <2>1, <3>1, <3>2 DEF Lease!Begin
    <3> QED BY <3>2, <3>3 DEF Sound, Lease!Next
  <2> QED BY <1>7, <2>2, <2>3 DEF FilePlans
<1>8. CASE FileCancels(f)
  <2>1. ops[f].at \in {"lock", "helper"} /\ UNCHANGED lease
        /\ ops' = [ops EXCEPT ![f].at = IF ops[f].at = "lock" THEN "done" ELSE "reap"]
    BY <1>8 DEF FileCancels, processVars
  <2>2. CASE ops[f].at = "lock"
    BY <1>2, <1>4, <2>1, <2>2
  <2>3. CASE ops[f].at = "helper"
    BY <1>2, <1>4, <2>1, <2>3
  <2> QED BY <2>1, <2>2, <2>3
<1>9. CASE FileSettles(f)
  <2>1. ops[f].at \in {"helper", "reap"} /\ UNCHANGED lease /\ ops' = [ops EXCEPT ![f].at = "settled"]
    BY <1>9 DEF FileSettles, processVars
  <2>2. IInv' /\ Admitted /\ Lost' = Lost /\ Acting' = Acting \ {f}
    BY <1>2, <1>3, <2>1, FileLocal, Zenon
  <2>3. Lease!End(f)
    BY <1>2, <1>3, <2>1, <2>2 DEF Lease!End
  <2> QED BY <2>2, <2>3 DEF Sound, Lease!Next
<1>10. CASE FileReleases(f)
  <2>1. ops[f].at = "settled" /\ lease = f /\ lease' = Free /\ ops' = [ops EXCEPT ![f].at = "done"]
    BY <1>2, <1>10 DEF FileReleases
  <2>2. IInv' /\ Admitted /\ Lost' = Lost /\ Acting' = Acting \ {f}
    BY <1>1, <1>3, <2>1, FileLocal, Zenon
  <2>3. f \notin Acting /\ f \notin Lost
    BY <1>1, <1>2, <2>1 DEF Lost
  <2>4. Lease!Release(f)
    BY <1>3, <2>1, <2>2, <2>3 DEF Lease!Release
  <2> QED BY <2>2, <2>4 DEF Sound, Lease!Next
<1> QED BY <1>5, <1>6, <1>7, <1>8, <1>9, <1>10 DEF FileStep

------------------------------------------------------------------------------
(* The results. *)

\* A session starts with nobody in the workspace.
LEMMA InitSound == Init => IInv /\ Lease!Init
<1> SUFFICES ASSUME Init PROVE IInv /\ Lease!Init
  OBVIOUS
<1>1. PICK s \in Scenarios :
        /\ kind = s.kind
        /\ ops = [f \in FileOp |-> [kind |-> s.files, at |-> "none"]]
        /\ session = [closing |-> FALSE, close |-> "no", held |-> TRUE, disconnected |-> FALSE, calm |-> s.calm]
  BY Zenon DEF Init
<1>2. s.kind \in [Proc -> Kinds \cup {Unused}] /\ s.files \in FileKinds /\ s.calm \in BOOLEAN
  BY ScenarioAssumption
<1>3. /\ rec = [p \in Proc |-> NoRecord] /\ sup = [p \in Proc |-> NoSupervisor] /\ lease = Free
      /\ quarantined = [b \in Backends |-> FALSE] /\ faults = 0 /\ request = [p \in Proc |-> "none"]
  BY DEF Init, ProcessInit
<1>4. TypeOK
  BY <1>1, <1>2, <1>3, NewRecord, FaultAssumption DEF TypeOK, Requests
<1>5. Free \notin Proc /\ Free \notin FileOp
  BY ProcAssumption
<1>6. ProcessesOK
  BY <1>3, <1>5, CleanEmpty DEF ProcessesOK, Local, Over, NoRecord, NoSupervisor
<1>7. FilesOK
  BY <1>1, <1>3, <1>5 DEF FilesOK
<1>8. CloseOK
  BY <1>1 DEF CloseOK
<1>9. Acting = {} /\ Lost = {}
  BY <1>1, <1>3, <1>5 DEF Acting, Lost, NoSupervisor
<1> QED BY <1>1, <1>3, <1>4, <1>6, <1>7, <1>8, <1>9 DEF IInv, Lease!Init

\* A task of a process: one step of its backend.
LEMMA ProcessSound == ASSUME IInv, NEW p \in Proc, ProcessStep(p) PROVE Sound
<1> USE DEF ProcessStep
<1>1. UNCHANGED <<kind, request, ops, session>>
  OBVIOUS
<1> QED BY <1>1, WinLeaseStep, QuitLeaseStep, SpawnStep, DecidedStep, ControlEndsStep, PipesEndStep, ExpireStep,
     StaticSound, ManagedSound, HostSound, HostPtySound, DirectSound, TtySound

\* Every step of the executor keeps the invariant, is a step of the lease and spawns only
\* what is admitted.
LEMMA NextSound == IInv /\ [Next]_vars => Sound
<1> SUFFICES ASSUME IInv, [Next]_vars PROVE Sound
  OBVIOUS
<1>1. ASSUME NEW p \in Proc, ProcessStep(p) \/ Native(p) \/ StartStep(p) PROVE Sound
  BY <1>1, ProcessSound, SupervisorSound, FaultSound, StartSound DEF Native
<1>2. ASSUME NEW f \in FileOp, FileStep(f) PROVE Sound
  BY <1>2, FileSound
<1>3. CASE Disconnect \/ Close \/ CloseStep
  BY <1>3, DisconnectSound, CloseSound, CloseProcessesSound, CloseFilesSound DEF CloseStep
<1>4. CASE UNCHANGED vars
  <2>1. UNCHANGED <<kind, rec, sup, lease, quarantined, faults, request, ops, session>>
    BY <1>4 DEF vars
  <2>2. IInv'
    BY <2>1 DEF IInv, TypeOK, ProcessesOK, FilesOK, CloseOK, Live
  <2>3. UNCHANGED Lease!vars /\ Admitted
    BY <2>1 DEF Lease!vars, Acting, Lost, Admitted, Spawned
  <2> QED BY <2>2, <2>3 DEF Sound
<1> QED BY <1>1, <1>2, <1>3, <1>4 DEF Next, Rest

\* The inductive invariant, for any processes, file operations, faults and scenarios.
THEOREM Invariance == Spec => []IInv
<1>1. Init => IInv
  BY InitSound
<1>2. IInv /\ [Next]_vars => IInv'
  BY NextSound DEF Sound
<1> QED BY <1>1, <1>2, PTL DEF Spec

\* The lock covers the descendants of every command, what is published as closed is
\* closed, and a lock that is kept is announced by the quarantine: while descendants may
\* exist a record has neither ended with the proof nor lost the lock.
THEOREM WorkspaceGuarded == Spec => []WorkspaceIsGuarded
<1>1. ASSUME IInv, NEW p \in Proc
      PROVE  /\ sup[p].alive => lease = p
             /\ rec[p].closed => ~sup[p].alive
             /\ rec[p].run \in {"emit", "done"} /\ lease = p => quarantined["model"]
  <2>1. rec[p] \in Record /\ Local(rec[p], sup[p], lease = p, quarantined["model"], kind[p])
    BY <1>1, Facts
  <2> QED BY <2>1 DEF Local, Over, Quiet, Record, Phases
<1>2. IInv => WorkspaceIsGuarded
  BY <1>1 DEF IInv, WorkspaceIsGuarded, LeaseGuardsDescendants, ClosedIsProved, RetainedIsQuarantined
<1> QED BY <1>2, Invariance, PTL

\* No model process is spawned in a quarantined workspace: between the check under the
\* lock and the spawn only the holder of the lock could have set the flag.
THEOREM SpawnAdmitted == Spec => SpawnIsAdmitted
<1>1. IInv /\ [Next]_vars => [\A p \in Proc : ~Hosted(p) /\ ~Spawned(p) /\ Spawned(p)' => ~quarantined["model"]]_vars
  BY NextSound DEF Sound, Admitted
<1> QED BY <1>1, Invariance, PTL DEF Spec, SpawnIsAdmitted

\* The backends, the file services and the close together implement the lease of the
\* workspace.
THEOREM LeaseImplemented == Spec => ImplementsLease
<1>1. Init => Lease!Init
  BY InitSound
<1>2. IInv /\ [Next]_vars => [Lease!Next]_(Lease!vars)
  BY NextSound DEF Sound
<1> QED BY <1>1, <1>2, Invariance, PTL DEF Spec, ImplementsLease, Lease!Spec

\* What the lease is for: only the holder of the lock acts on the workspace, and nobody
\* acts on, or was lost in, a root whose kernel lock was given up.
THEOREM LeaseHolds == Spec => [](Lease!OnlyHolderActs /\ Lease!GivenUpIsQuiet)
<1>1. ASSUME IInv PROVE Lease!OnlyHolderActs /\ Lease!GivenUpIsQuiet
  <2>1. \A p \in Proc : sup[p].alive => lease = p
    <3> SUFFICES ASSUME NEW p \in Proc PROVE sup[p].alive => lease = p
      OBVIOUS
    <3>1. rec[p] \in Record /\ Local(rec[p], sup[p], lease = p, quarantined["model"], kind[p])
      BY <1>1, Facts
    <3> QED BY <3>1 DEF Local, Over, Quiet, Record, Phases
  <2>2. \A f \in FileOp : ops[f].at \in {"helper", "reap"} => lease = f /\ session.held
    BY <1>1 DEF IInv, FilesOK
  <2>3. ~session.held => lease \notin Proc
    BY <1>1 DEF IInv, CloseOK, TypeOK
  <2>4. Lease!OnlyHolderActs
    BY <2>1, <2>2 DEF Lease!OnlyHolderActs, Acting
  <2>5. Lease!GivenUpIsQuiet
    BY <2>1, <2>2, <2>3 DEF Lease!GivenUpIsQuiet, Acting, Lost
  <2> QED BY <2>4, <2>5, Zenon
<1> QED BY <1>1, Invariance, PTL
=============================================================================
