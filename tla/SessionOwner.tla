---------------------------- MODULE SessionOwner ----------------------------
(***************************************************************************)
(* Who owns the native workspace across launches, crashes and reboots:     *)
(* PrivateSessionOwner and PrivateListener of private_exec_broker.py, the  *)
(* installed bootstraps that hold one (foldgpt_native_bootstrap.py, from   *)
(* run-as or from the app, and foldgpt_shizuku_bootstrap.py), the same-    *)
(* boot admission of native_session_recovery.py and the maintenance of     *)
(* recover-legacy-native-session.py.                                       *)
(*                                                                         *)
(* On disk: the session marker, forced before the backend exists and       *)
(* removed after its cleanup, and the broker's socket.  In the kernel: the *)
(* flock, which dies with its process, and the native children, which do   *)
(* not.  A setup step may fail (an I/O error, a check of its inputs); any  *)
(* process may be killed between two steps.                                *)
(***************************************************************************)
EXTENDS Naturals, FiniteSets

CONSTANTS
    Launches,       \* processes that may own the workspace, one after another or not
    Origins,        \* how the launches of one behaviour came about
    Nobody, Helper, \* no process, and the helper of the maintenance script
    MaxSerial,      \* bound on the sessions of a behaviour
    MaxBoot         \* bound on the boot counter

ASSUME OwnerAssumption ==
    /\ Nobody \notin Launches \cup {Helper} /\ Helper \notin Launches
    /\ Origins \subseteq [Launches -> {"run-as", "android-app", "shizuku", "broker"}]
    /\ MaxSerial \in Nat /\ MaxBoot \in Nat

VARIABLES
    origin,         \* the origin of each launch
    own,            \* the state of each launch
    disk,           \* marker, socket
    kernel,         \* who holds the flock, the boot counter, the sessions begun
    child,          \* the sessions with live native children
    upkeep          \* the maintenance script

ownerVars == <<origin, own, disk, kernel, child, upkeep>>

NoMarker == [serial |-> 0, version |-> 0, boot |-> 0, whole |-> FALSE]
Down == [pc |-> "down", serial |-> 0, entered |-> FALSE, backend |-> FALSE, claimed |-> FALSE,
         quarantined |-> FALSE, reported |-> FALSE]

OwnerReset(o) ==
    /\ origin = o
    /\ own = [l \in Launches |-> Down]
    /\ disk = [marker |-> NoMarker, socket |-> Nobody]
    /\ kernel = [lock |-> Nobody, boot |-> 0, serial |-> 0]
    /\ child = {}
    /\ upkeep = [pc |-> "idle", marker |-> NoMarker]

OwnerInit == \E o \in Origins : OwnerReset(o)

Marked == disk.marker # NoMarker
Epoch(l) == origin[l] = "android-app"
Go(l, pc) == own' = [own EXCEPT ![l].pc = pc]
Running(l) == own[l].pc \notin {"down", "closed"}
Unlocked(l) == [kernel EXCEPT !.lock = IF @ = l THEN Nobody ELSE @]

------------------------------------------------------------------------------
\* Setup.  A failed step goes to the finally block; before the marker exists nothing is
\* owned, and __init__ closes the lock it took.

\* The app or the shell starts the process.
Launch(l) ==
    /\ own[l].pc \in {"down", "closed"} /\ kernel.serial < MaxSerial
    /\ own' = [own EXCEPT ![l] = [Down EXCEPT !.pc = "setup", !.serial = kernel.serial + 1]]
    /\ kernel' = [kernel EXCEPT !.serial = @ + 1]
    /\ UNCHANGED <<origin, disk, child, upkeep>>

\* Identity, control descriptor, imports, deployment, launch input, native inventory.
NativeSetup(l) ==
    /\ origin[l] \in {"run-as", "android-app"} /\ own[l].pc = "setup"
    /\ Go(l, "open") \/ Go(l, "release")
    /\ UNCHANGED <<origin, disk, kernel, child, upkeep>>

ShizukuSetup(l) ==
    /\ origin[l] = "shizuku" /\ own[l].pc = "setup"
    /\ Go(l, "open") \/ Go(l, "release")
    /\ UNCHANGED <<origin, disk, kernel, child, upkeep>>

BrokerSetup(l) ==
    /\ origin[l] = "broker" /\ own[l].pc = "setup"
    /\ Go(l, "open")
    /\ UNCHANGED <<origin, disk, kernel, child, upkeep>>

\* The constructor refuses: PrivateSessionOwner.close() gives the lock back.
Refuse(l) == Go(l, "release") /\ kernel' = Unlocked(l)

\* PrivateSessionOwner.__init__: the flock, then the marker, then the socket.
OpenOwner(l) ==
    /\ own[l].pc = "open"
    /\ \/ Refuse(l)
       \/ /\ kernel.lock = Nobody
          /\ Marked => Epoch(l)
          /\ kernel' = [kernel EXCEPT !.lock = l]
          /\ Go(l, IF Marked THEN "recover" ELSE "socket")
    /\ UNCHANGED <<origin, disk, child, upkeep>>

SocketFree(l) ==
    /\ own[l].pc = "socket"
    /\ IF disk.socket = Nobody
       THEN Go(l, IF origin[l] = "broker" THEN "bind" ELSE "claim") /\ UNCHANGED kernel
       ELSE Refuse(l)
    /\ UNCHANGED <<origin, disk, child, upkeep>>

\* Mutant: a marker of this boot is archived without looking for its children.
RecoverUnobserved(l) ==
    /\ own[l].pc = "recover"
    /\ \/ Refuse(l)
       \/ /\ disk.socket = Nobody
          /\ disk.marker.whole /\ disk.marker.version = 2
          /\ Go(l, "archive")
          /\ UNCHANGED kernel
    /\ UNCHANGED <<origin, disk, child, upkeep>>

\* _recover_previous_boot() admits a whole version 2 marker only: of an earlier boot, or
\* of this boot when nothing else of the application runs.
Recover(l) ==
    /\ own[l].pc = "recover"
    /\ \/ Refuse(l)
       \/ /\ disk.socket = Nobody
          /\ disk.marker.whole /\ disk.marker.version = 2
          /\ \/ kernel.boot > disk.marker.boot /\ Go(l, "archive")
             \/ kernel.boot = disk.marker.boot /\ Go(l, "observe")
          /\ UNCHANGED kernel
    /\ UNCHANGED <<origin, disk, child, upkeep>>

\* Every process of the application UID but this one and Java.
Others(l) == {own[k].serial : k \in {k \in Launches \ {l} : Running(k)}} \cup child

\* observe_uid_quiescence(): one pass over /proc and over every possible pid.
Census(l) == Others(l) = {} /\ upkeep.pc \notin {"locked", "counted"}

\* application_quiescence() passes over them twice.
Observe(l) ==
    /\ own[l].pc \in {"observe", "observe again"}
    /\ \/ Refuse(l)
       \/ /\ Census(l)
          /\ Go(l, IF own[l].pc = "observe" THEN "observe again" ELSE "archive")
          /\ UNCHANGED kernel
    /\ UNCHANGED <<origin, disk, child, upkeep>>

\* The receipt is forced first; then the marker itself moves, by one rename.
Archive(l) ==
    /\ own[l].pc = "archive"
    /\ \/ Refuse(l) /\ UNCHANGED disk
       \/ /\ disk' = [disk EXCEPT !.marker = NoMarker]
          /\ Go(l, "socket") /\ UNCHANGED kernel
    /\ UNCHANGED <<origin, child, upkeep>>

\* begin_process_session(): the file exists before its bytes do.
Claim(l) ==
    /\ own[l].pc = "claim"
    /\ \/ Go(l, "close backend") /\ UNCHANGED disk
       \/ /\ ~Marked
          /\ disk' = [disk EXCEPT !.marker =
                 [serial |-> own[l].serial, version |-> IF Epoch(l) THEN 2 ELSE 1,
                  boot |-> IF Epoch(l) THEN kernel.boot ELSE 0, whole |-> FALSE]]
          /\ own' = [own EXCEPT ![l].pc = "write", ![l].claimed = TRUE]
    /\ UNCHANGED <<origin, kernel, child, upkeep>>

WriteMarker(l) ==
    /\ own[l].pc = "write"
    /\ \/ Go(l, "close backend") /\ UNCHANGED disk
       \/ /\ disk' = [disk EXCEPT !.marker.whole = TRUE]
          /\ Go(l, IF origin[l] = "broker" THEN "serving" ELSE "import")
    /\ UNCHANGED <<origin, kernel, child, upkeep>>

\* The app's factory counts as entered after its import, the shell's before.
NativeFactory(l) ==
    /\ origin[l] \in {"run-as", "android-app"} /\ own[l].pc = "import"
    /\ Go(l, "close backend") \/ own' = [own EXCEPT ![l].pc = "construct", ![l].entered = TRUE]
    /\ UNCHANGED <<origin, disk, kernel, child, upkeep>>

ShizukuFactory(l) ==
    /\ origin[l] = "shizuku" /\ own[l].pc = "import"
    /\ \E pc \in {"construct", "close backend"} :
           own' = [own EXCEPT ![l].pc = pc, ![l].entered = TRUE]
    /\ UNCHANGED <<origin, disk, kernel, child, upkeep>>

\* A factory that fails may have left a child behind.
Construct(l) ==
    /\ own[l].pc = "construct"
    /\ \/ own' = [own EXCEPT ![l].pc = "serving", ![l].backend = TRUE] /\ UNCHANGED child
       \/ Go(l, "close backend") /\ child' \in {child, child \cup {own[l].serial}}
       \/ own' = [own EXCEPT ![l].pc = "close backend", ![l].backend = TRUE] /\ UNCHANGED child
    /\ UNCHANGED <<origin, disk, kernel, upkeep>>

------------------------------------------------------------------------------
\* The broker: a listener that outlives its connections.

\* PrivateListener.__init__: the socket is bound under the lock.
Bind(l) ==
    /\ own[l].pc = "bind"
    /\ \/ Refuse(l) /\ UNCHANGED disk
       \/ /\ disk' = [disk EXCEPT !.socket = l]
          /\ Go(l, "listening") /\ UNCHANGED kernel
    /\ UNCHANGED <<origin, child, upkeep>>

\* run(): one connection at a time; peers are turned away while one is served, and for
\* good after a quarantine.  serve_connection() builds the backend, then the marker.
Accepts(l) ==
    /\ own[l].pc = "listening" /\ ~own[l].quarantined
    /\ own' = [own EXCEPT ![l].pc = "claim", ![l].entered = TRUE, ![l].backend = TRUE]
    /\ UNCHANGED <<origin, disk, kernel, child, upkeep>>

\* SIGTERM: PrivateListener.close() removes its own socket and gives the lock back.
StopListening(l) ==
    /\ own[l].pc = "listening"
    /\ disk' = [disk EXCEPT !.socket = IF @ = l THEN Nobody ELSE @]
    /\ kernel' = Unlocked(l)
    /\ own' = [own EXCEPT ![l] = [Down EXCEPT !.pc = "closed", !.serial = own[l].serial]]
    /\ UNCHANGED <<origin, child, upkeep>>

------------------------------------------------------------------------------
\* Serving and the end of a session.

Spawns(l) ==
    /\ own[l].pc = "serving"
    /\ child' = child \cup {own[l].serial}
    /\ UNCHANGED <<origin, own, disk, kernel, upkeep>>

ChildEnds(s) ==
    /\ child' = child \ {s}
    /\ UNCHANGED <<origin, own, disk, kernel, upkeep>>

\* The control descriptor, a signal, the end of the controller or a failure of serving.
Stops(l) ==
    /\ own[l].pc = "serving"
    /\ Go(l, "close backend")
    /\ UNCHANGED <<origin, disk, kernel, child, upkeep>>

Quarantine(l) ==
    own' = [own EXCEPT ![l].pc = IF origin[l] = "broker" THEN "listening" ELSE "quarantined",
                       ![l].quarantined = TRUE]

\* backend.close() proves the children gone or leaves the owner quarantined; without a
\* backend the cleanup is clean only if the factory was never entered.
CloseBackend(l) ==
    /\ own[l].pc = "close backend"
    /\ \/ /\ own[l].backend
          /\ Go(l, "endpoint") /\ child' = child \ {own[l].serial}
       \/ own[l].backend /\ Quarantine(l) /\ UNCHANGED child
       \/ ~own[l].backend /\ ~own[l].entered /\ Go(l, "endpoint") /\ UNCHANGED child
       \/ ~own[l].backend /\ own[l].entered /\ Quarantine(l) /\ UNCHANGED child
    /\ UNCHANGED <<origin, disk, kernel, upkeep>>

\* cleanup_resources(): the acquisition endpoint and the startup manifest of the app.
CloseEndpoint(l) ==
    /\ own[l].pc = "endpoint"
    /\ \/ Go(l, "finish")
       \/ origin[l] \in {"run-as", "android-app"} /\ Quarantine(l)
    /\ UNCHANGED <<origin, disk, kernel, child, upkeep>>

SessionEnds(l) ==
    own' = [own EXCEPT ![l].pc = IF origin[l] = "broker" THEN "listening" ELSE "release",
                       ![l].claimed = FALSE, ![l].entered = FALSE, ![l].backend = FALSE]

\* finish_process_session(): only the marker this session wrote, by its inode.
FinishSession(l) ==
    /\ own[l].pc = "finish"
    /\ \/ /\ own[l].claimed /\ disk.marker.serial = own[l].serial
          /\ disk' = [disk EXCEPT !.marker = NoMarker]
          /\ SessionEnds(l)
       \/ ~own[l].claimed /\ SessionEnds(l) /\ UNCHANGED disk
       \/ own[l].claimed /\ Quarantine(l) /\ UNCHANGED disk
    /\ UNCHANGED <<origin, kernel, child, upkeep>>

\* owner.close(), then the report that the cleanup is complete.
ReleaseOwner(l) ==
    /\ own[l].pc = "release"
    /\ own' = [own EXCEPT ![l].pc = "closed", ![l].reported = TRUE]
    /\ kernel' = Unlocked(l)
    /\ UNCHANGED <<origin, disk, child, upkeep>>

------------------------------------------------------------------------------
\* What the machine does.

\* A kill of the owner alone: the kernel drops its lock, its children live on.
Crash(l) ==
    /\ Running(l)
    /\ own' = [own EXCEPT ![l] = Down]
    /\ kernel' = Unlocked(l)
    /\ UNCHANGED <<origin, disk, child, upkeep>>

\* Nothing survives a reboot but the disk; a marker that was not forced may be lost, and
\* the counter may have been reset.
Reboot ==
    /\ own' = [l \in Launches |-> Down]
    /\ child' = {}
    /\ \E b \in {kernel.boot + 1, 0} :
           b <= MaxBoot /\ kernel' = [kernel EXCEPT !.lock = Nobody, !.boot = b]
    /\ \/ UNCHANGED disk
       \/ ~disk.marker.whole /\ disk' = [disk EXCEPT !.marker = NoMarker]
    /\ upkeep' = [pc |-> "idle", marker |-> NoMarker]
    /\ UNCHANGED origin

------------------------------------------------------------------------------
\* The maintenance script and the helper it runs on the device.

App == \A l \in Launches : origin[l] \in {"run-as", "android-app"}
Step(pc) == upkeep' = [upkeep EXCEPT !.pc = pc]
Survivors == {own[l].serial : l \in {l \in Launches : Running(l)}} \cup child

\* main() reads the marker and the owner's status, and validates both.
UpkeepReads ==
    /\ App /\ upkeep.pc = "idle" /\ disk.marker.whole
    /\ upkeep' = [pc |-> "stop", marker |-> disk.marker]
    /\ UNCHANGED <<origin, own, disk, kernel, child>>

\* am force-stop: Android kills every process of the application.
UpkeepStops ==
    /\ upkeep.pc = "stop"
    /\ own' = [l \in Launches |-> Down]
    /\ child' = {}
    /\ kernel' = [kernel EXCEPT !.lock = Nobody]
    /\ Step("quiet")
    /\ UNCHANGED <<origin, disk>>

\* Two censuses; a process seen in either ends the maintenance.
UpkeepCounts ==
    /\ upkeep.pc \in {"quiet", "quiet again"}
    /\ Step(IF Survivors # {} THEN "idle"
            ELSE IF upkeep.pc = "quiet" THEN "quiet again" ELSE "helper")
    /\ UNCHANGED <<origin, own, disk, kernel, child>>

\* The helper takes the same flock and checks that the marker has the same bytes.
UpkeepLocks ==
    /\ upkeep.pc = "helper"
    /\ IF kernel.lock = Nobody /\ disk.marker = upkeep.marker
       THEN Step("locked") /\ kernel' = [kernel EXCEPT !.lock = Helper]
       ELSE Step("idle") /\ UNCHANGED kernel
    /\ UNCHANGED <<origin, own, disk, child>>

\* A census under the lock must find the helper alone before it gets its token.
UpkeepConfirms ==
    /\ upkeep.pc = "locked"
    /\ IF Survivors = {} THEN Step("counted") /\ UNCHANGED kernel
                         ELSE Step("idle") /\ kernel' = [kernel EXCEPT !.lock = Nobody]
    /\ UNCHANGED <<origin, own, disk, child>>

UpkeepArchives ==
    /\ upkeep.pc = "counted"
    /\ disk' = [disk EXCEPT !.marker = NoMarker]
    /\ kernel' = [kernel EXCEPT !.lock = Nobody]
    /\ Step("idle")
    /\ UNCHANGED <<origin, own, child>>

\* The bridge to the device breaks: a helper without its token changes nothing.
UpkeepFails ==
    /\ upkeep.pc # "idle"
    /\ Step("idle")
    /\ kernel' = [kernel EXCEPT !.lock = IF @ = Helper THEN Nobody ELSE @]
    /\ UNCHANGED <<origin, own, disk, child>>

------------------------------------------------------------------------------

OwnerStep(l) ==
    \/ Launch(l) \/ NativeSetup(l) \/ ShizukuSetup(l) \/ BrokerSetup(l)
    \/ OpenOwner(l) \/ SocketFree(l) \/ Recover(l) \/ Observe(l) \/ Archive(l)
    \/ Claim(l) \/ WriteMarker(l) \/ NativeFactory(l) \/ ShizukuFactory(l) \/ Construct(l)
    \/ Bind(l) \/ Accepts(l) \/ StopListening(l)
    \/ Spawns(l) \/ Stops(l)
    \/ CloseBackend(l) \/ CloseEndpoint(l) \/ FinishSession(l) \/ ReleaseOwner(l)
    \/ Crash(l)

Upkeep ==
    \/ UpkeepReads \/ UpkeepStops \/ UpkeepCounts \/ UpkeepLocks \/ UpkeepConfirms
    \/ UpkeepArchives \/ UpkeepFails

OwnerNext ==
    \/ \E l \in Launches : OwnerStep(l)
    \/ \E s \in child : ChildEnds(s)
    \/ Reboot \/ Upkeep

------------------------------------------------------------------------------

\* Native children are covered by the marker of their own session on disk, through
\* crashes, failed cleanups, reboots and maintenance: what the next launch relies on
\* when it finds no marker.
ChildrenAreMarked ==
    \A s \in child : disk.marker.serial = s

\* No session builds a backend or serves beside another one's backend or children.
SessionsAreExclusive ==
    \A l \in Launches : own[l].backend =>
        child \subseteq {own[l].serial} /\ \A k \in Launches \ {l} : ~own[k].backend

\* A launch that reported its cleanup complete has left neither children nor a marker.
ReportIsTrue ==
    \A l \in Launches : own[l].pc = "closed" /\ own[l].reported =>
        own[l].serial \notin child /\ disk.marker.serial # own[l].serial
=============================================================================
