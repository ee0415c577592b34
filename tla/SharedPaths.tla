---------------------------- MODULE SharedPaths ----------------------------
(***************************************************************************)
(* The shared path measurement (tools/runtime/measure-shared-paths.py): a  *)
(* native process and a controller in another mount view of one workspace  *)
(* show each other files, a rename and an advisory lock.  They only meet   *)
(* through one-use readiness files, each within its own deadline.          *)
(***************************************************************************)
EXTENDS Naturals, Sequences, FiniteSets

VARIABLES
    at,        \* the next step of each role
    outcome,   \* "running", "passed" or "failed"
    present,   \* the files of the workspace
    flock,     \* the role whose open description holds the lock, or none
    blocked,   \* the roles that met the other one's lock
    late       \* the roles whose deadline passed or that were killed

pathVars == <<at, outcome, present, flock, blocked, late>>

Roles == {"native", "controller"}
None == "none"

Do(op, from, to) == <<[op |-> op, from |-> from, to |-> to]>>
create(name) == Do("create", <<>>, <<name>>)
readFile(name) == Do("read", <<name>>, <<>>)
rename(old, new) == Do("rename", <<old>>, <<new>>)
waitFor(name) == Do("wait", <<name>>, <<>>)
\* ready(): a complete temporary file is renamed to the marker.
ready(name) == Do("create", <<>>, <<name, "pending">>) \o Do("rename", <<name, "pending">>, <<name>>)
lock == Do("lock", <<>>, <<>>)
unlock == Do("unlock", <<>>, <<>>)
contended == Do("contended", <<>>, <<>>)

native ==
    lock \o create("native.bytes") \o readFile("native.bytes") \o create("native.identity.json")
    \o ready("native.ready") \o waitFor("controller.read.done")
    \o readFile("native.renamed") \o readFile("controller.bytes")
    \o unlock \o ready("native.unlocked") \o waitFor("controller.locked")
    \o contended \o ready("native.contention.done") \o waitFor("controller.unlocked")
    \o lock \o unlock

\* Mutant: the controller does not wait until the native side met its lock.
controllerHasty ==
    waitFor("native.ready") \o readFile("native.identity.json") \o readFile("native.bytes")
    \o contended \o create("controller.bytes") \o rename("native.bytes", "native.renamed")
    \o ready("controller.read.done") \o waitFor("native.unlocked")
    \o lock \o ready("controller.locked") \o unlock \o ready("controller.unlocked")

controller ==
    waitFor("native.ready") \o readFile("native.identity.json") \o readFile("native.bytes")
    \o contended \o create("controller.bytes") \o rename("native.bytes", "native.renamed")
    \o ready("controller.read.done") \o waitFor("native.unlocked")
    \o lock \o ready("controller.locked") \o waitFor("native.contention.done")
    \o unlock \o ready("controller.unlocked")

Program(r) == IF r = "native" THEN native ELSE controller
Step(r) == Program(r)[at[r]]

PathsInit ==
    /\ at = [r \in Roles |-> 1] /\ outcome = [r \in Roles |-> "running"]
    /\ present = {} /\ flock = None /\ blocked = {} /\ late = {}

Runs(r, op) == outcome[r] = "running" /\ at[r] <= Len(Program(r)) /\ Step(r).op = op
Steps(r) == at' = [at EXCEPT ![r] = @ + 1] /\ UNCHANGED <<outcome, late>>

\* run()'s finally closes the directory, which gives the lock back.
Fails(r) ==
    /\ outcome' = [outcome EXCEPT ![r] = "failed"]
    /\ flock' = IF flock = r THEN None ELSE flock
    /\ UNCHANGED <<at, present, blocked>>

creates(r) ==
    /\ Runs(r, "create")
    /\ IF Step(r).to \in present THEN Fails(r) /\ UNCHANGED late
       ELSE present' = present \cup {Step(r).to} /\ Steps(r) /\ UNCHANGED <<flock, blocked>>

renames(r) ==
    /\ Runs(r, "rename")
    /\ IF Step(r).from \notin present THEN Fails(r) /\ UNCHANGED late
       ELSE /\ present' = (present \ {Step(r).from}) \cup {Step(r).to}
            /\ Steps(r) /\ UNCHANGED <<flock, blocked>>

reads(r) ==
    /\ Runs(r, "read")
    /\ IF Step(r).from \notin present THEN Fails(r) /\ UNCHANGED late
       ELSE Steps(r) /\ UNCHANGED <<present, flock, blocked>>

\* wait(): polls until the marker is there, or until the deadline.
waits(r) ==
    /\ Runs(r, "wait") /\ Step(r).from \in present
    /\ Steps(r) /\ UNCHANGED <<present, flock, blocked>>

\* The deadline passes while a role waits, or its process is killed anywhere.
Expires(r) == outcome[r] = "running" /\ Fails(r) /\ late' = late \cup {r}

locks(r) ==
    /\ Runs(r, "lock")
    /\ IF flock \notin {None, r} THEN Fails(r) /\ UNCHANGED late
       ELSE flock' = r /\ Steps(r) /\ UNCHANGED <<present, blocked>>

unlocks(r) ==
    /\ Runs(r, "unlock")
    /\ flock' = (IF flock = r THEN None ELSE flock) /\ Steps(r) /\ UNCHANGED <<present, blocked>>

\* contended(): the lock must be the other's; one that could be taken is given back.
contends(r) ==
    /\ Runs(r, "contended")
    /\ IF flock \in {None, r} THEN Fails(r) /\ UNCHANGED late
       ELSE blocked' = blocked \cup {r} /\ Steps(r) /\ UNCHANGED <<present, flock>>

passes(r) ==
    /\ outcome[r] = "running" /\ at[r] = Len(Program(r)) + 1
    /\ outcome' = [outcome EXCEPT ![r] = "passed"]
    /\ flock' = IF flock = r THEN None ELSE flock
    /\ UNCHANGED <<at, present, blocked, late>>

PathsNext == \E r \in Roles :
    \/ creates(r) \/ renames(r) \/ reads(r) \/ waits(r) \/ Expires(r)
    \/ locks(r) \/ unlocks(r) \/ contends(r) \/ passes(r)

\* Each process runs, and its deadline comes.
PathsProgress == \E r \in Roles :
    \/ creates(r) \/ renames(r) \/ reads(r) \/ waits(r) \/ Expires(r)
    \/ locks(r) \/ unlocks(r) \/ contends(r) \/ passes(r)

\* No interleaving of the two makes the measurement fail by itself, and a role that passed
\* has seen both locks refused to the other side (Measurement.native and controller).
MeasurementIsSound == \A r \in Roles :
    /\ outcome[r] = "failed" => late # {}
    /\ outcome[r] = "passed" => blocked = Roles

MeasurementOwed == \E r \in Roles : outcome[r] = "running"
=============================================================================
