--------------------------- MODULE RuntimeRecovery ---------------------------
(***************************************************************************)
(* Durable crash recovery: one RuntimeRecoveryPolicy in memory, its copy   *)
(* in RuntimeRecoveryStore, and the calls FoldRuntimeService makes on them *)
(* while sessions fail, the process is killed and the device reboots.      *)
(* How a session is started and torn down is left to FoldRuntimeService;   *)
(* here a session is up or it is not.                                      *)
(***************************************************************************)
EXTENDS RuntimeRecoveryPolicy

CONSTANTS
    MaxNow,         \* bound: the clock stops here within one boot
    MaxBoots,       \* bound: number of reboots
    MaxFaults       \* bound: number of refused writes

ASSUME RecoveryAssumption == MaxNow \in Nat /\ MaxBoots \in Nat /\ MaxFaults \in Nat

VARIABLES
    now, boot,      \* elapsed realtime of this boot, and which boot it is
    alive,          \* the :runtime process exists
    sticky,         \* what the last onStartCommand returned: Android will recreate
    policy, disk,   \* the policy object and the committed AtomicFile
    session,        \* a workspace was launched and has not failed or been stopped
    faults,         \* refused writes so far
    asked,          \* history: the user's last request
    launches, savedLaunches  \* history: launches of the burst policy / disk belongs to

vars == <<now, boot, alive, sticky, policy, disk, session, faults, asked, launches, savedLaunches>>

Init ==
    /\ now = 0 /\ boot = 0
    /\ alive = FALSE /\ sticky = FALSE /\ session = FALSE
    /\ policy = EmptyPolicy(0) /\ disk = EmptyPolicy(0)
    /\ faults = 0 /\ asked = "none"
    /\ launches = 0 /\ savedLaunches = 0

------------------------------------------------------------------------------

\* saveRecovery(): AtomicFile replaces the whole file or leaves it alone; a
\* refused write withdraws the intent in memory.
Refused(p, n) ==
    /\ faults < MaxFaults /\ faults' = faults + 1
    /\ policy' = UserStopped(p) /\ launches' = n
    /\ UNCHANGED <<disk, savedLaunches>>

SaveRecovery(p, n) ==
    \/ /\ policy' = p /\ disk' = p
       /\ launches' = n /\ savedLaunches' = n
       /\ UNCHANGED faults
    \/ Refused(p, n)

Saved == faults' = faults

\* The process is gone and its memory with it.
LoseMemory(b) == policy' = EmptyPolicy(b) /\ launches' = 0

\* The policy onCreate loads, or the one already in memory.
Loaded == IF alive THEN policy ELSE Restore(disk, boot)
LoadedLaunches ==
    IF alive THEN launches
    ELSE IF disk.bootId = boot THEN savedLaunches ELSE disk.failures

\* A session that proved stable ends its burst, when it fails at the latest.
BurstLaunches(p, n) == IF IsStable(p, now) THEN 1 ELSE n

\* ACTION_START: the launch itself follows when no session is up.
Start ==
    LET p == UserStarted(Loaded, now, session)
    IN  /\ SaveRecovery(p, IF session THEN 1 ELSE 0)
        /\ session' = (session /\ Saved)
        /\ sticky' = Saved
        /\ alive' = TRUE /\ asked' = "start"
        /\ UNCHANGED <<now, boot>>

\* "stop": the result of saveRecovery is not looked at.
Stop ==
    /\ SaveRecovery(UserStopped(Loaded), 0)
    /\ session' = FALSE /\ sticky' = FALSE
    /\ alive' = TRUE /\ asked' = "stop"
    /\ UNCHANGED <<now, boot>>

\* Sticky recreation with a null intent.
Recreate ==
    /\ ~alive /\ sticky
    /\ SaveRecovery(ServiceRecreated(Loaded, now), BurstLaunches(Loaded, LoadedLaunches))
    /\ sticky' = (RetryDelay(policy', now) # Unset)
    /\ alive' = TRUE
    /\ UNCHANGED <<now, boot, session, asked>>

\* Mutant: a timer that was missed is never made up for.
LaunchOnTheDot ==
    /\ alive /\ ~session /\ policy.state = "retry" /\ policy.retryAt = now
    /\ SaveRecovery(Launching(policy), launches + 1)
    /\ session' = Saved
    /\ UNCHANGED <<now, boot, alive, sticky, asked>>

\* The delayed launch (or the immediate one): serviceRecreated decides again,
\* then launchWorkspace commits "starting" before the worker exists.
Launch ==
    LET q == ServiceRecreated(policy, now)
    IN  /\ alive /\ ~session
        /\ RetryDelay(q, now) = 0
        /\ SaveRecovery(Launching(q), launches + 1)
        /\ session' = Saved
        /\ UNCHANGED <<now, boot, alive, sticky, asked>>

\* The delayed launch finds its budget spent.
GiveUp ==
    LET q == ServiceRecreated(policy, now)
    IN  /\ alive /\ ~session /\ policy.state = "retry"
        /\ RetryDelay(q, now) = Unset
        /\ SaveRecovery(q, launches)
        /\ UNCHANGED <<now, boot, alive, sticky, session, asked>>

\* publishPhase("ready").
ClientReady ==
    /\ alive /\ session
    /\ BecomeReady(policy, now) # policy
    /\ SaveRecovery(BecomeReady(policy, now), launches)
    /\ session' = Saved
    /\ UNCHANGED <<now, boot, alive, sticky, asked>>

\* The check posted STABLE_WINDOW_MS after ready.  A refused write here stops
\* nothing: the session stays up without intent.
StableCheck ==
    /\ alive /\ session /\ IsStable(policy, now)
    /\ SaveRecovery(MarkStable(policy, now), 1)
    /\ UNCHANGED <<now, boot, alive, sticky, session, asked>>

\* recoverWorkspace(): the session ended without being asked to.
SessionFails ==
    /\ alive /\ session
    /\ SaveRecovery(Failed(policy, now), BurstLaunches(policy, launches))
    /\ session' = FALSE
    /\ UNCHANGED <<now, boot, alive, sticky, asked>>

\* retireDeadOwner(): commit the retry, charging it unless the Linux exit did
\* already, and only then end the process.
OwnerDies ==
    LET q == ServiceRecreated(policy, now)
        n == BurstLaunches(policy, launches)
    IN  /\ alive
        /\ \/ /\ disk' = q /\ savedLaunches' = n
              /\ alive' = FALSE /\ session' = FALSE
              /\ LoseMemory(boot)
              /\ UNCHANGED faults
           \/ Refused(q, n) /\ UNCHANGED <<alive, session>>
        /\ UNCHANGED <<now, boot, sticky, asked>>

\* The system kills the process; nothing runs before it is gone.
Killed ==
    /\ alive
    /\ alive' = FALSE /\ session' = FALSE
    /\ LoseMemory(boot)
    /\ UNCHANGED <<now, boot, sticky, disk, faults, asked, savedLaunches>>

\* stopSelfResult() after a finished shutdown.
ServiceStops ==
    /\ alive /\ ~session /\ RetryDelay(policy, now) = Unset
    /\ alive' = FALSE /\ sticky' = FALSE
    /\ LoseMemory(boot)
    /\ UNCHANGED <<now, boot, disk, session, faults, asked, savedLaunches>>

Tick ==
    /\ now < MaxNow /\ now' = now + 1
    /\ UNCHANGED <<boot, alive, sticky, policy, disk, session, faults, asked, launches, savedLaunches>>

\* elapsedRealtime restarts.  Android forgets sticky services; recreation after
\* a boot happens only if it is asked for, which is kept possible here.
Reboot ==
    /\ boot < MaxBoots /\ boot' = boot + 1
    /\ now' = 0 /\ alive' = FALSE /\ session' = FALSE
    /\ LoseMemory(boot')
    /\ UNCHANGED <<sticky, disk, faults, asked, savedLaunches>>

Next ==
    \/ Start \/ Stop \/ Recreate \/ Launch \/ GiveUp \/ ClientReady \/ StableCheck
    \/ SessionFails \/ OwnerDies \/ Killed \/ ServiceStops \/ Tick \/ Reboot

Spec == Init /\ [][Next]_vars

\* Main-looper timers fire and the clock moves; nothing is assumed of the user,
\* of the sessions or of the system that kills the process.
Fairness == WF_vars(Launch) /\ WF_vars(GiveUp) /\ WF_vars(Tick)

FairSpec == Spec /\ Fairness

------------------------------------------------------------------------------

TypeOK ==
    /\ now \in Nat /\ boot \in Nat /\ faults \in Nat
    /\ alive \in BOOLEAN /\ sticky \in BOOLEAN /\ session \in BOOLEAN
    /\ policy \in Policy /\ disk \in Policy
    /\ asked \in {"none", "start", "stop"}
    /\ launches \in Nat /\ savedLaunches \in Nat

\* RuntimeRecoveryPolicy.failed(), "a fresh process cannot reset that budget and
\* enter an endless loop": between two user requests (or stable sessions, or
\* boots) the service launches at most one session per back-off step and one
\* more, however often the process is killed and recreated in between.
LaunchesBounded ==
    alive /\ PermitsRecovery(policy) => launches <= Len(RetryDelays) + 1

\* failed(), "consumes a retry once per failed owner": the callbacks of the
\* Linux exit, of the dead native owner and of the recreated service never
\* charge more failures than sessions were launched.
ChargedOncePerLaunch ==
    alive => policy.failures <= launches

\* restore(): whatever was committed can be read back, so that onCreate never
\* has to drop the user's intent.
CommittedIsRestorable == Restorable(disk)

\* requestStop(): after the user's Stop no session comes up again before a new
\* start, even when the Stop could not be written.
StopHolds == asked = "stop" => ~session

\* userStarted(), "a real launch/retry request is the only authority to clear
\* suspension": no kill, recreation, timer, refused write or reboot turns a
\* committed suspension into a permission to launch.
SuspensionNeedsUser ==
    [][disk.state = "suspended" /\ PermitsRecovery(disk') => Start]_vars

\* scheduleLaunch(): a retry that is owed and comes due is launched or given up.
OwedRetrySettles ==
    (alive /\ policy.state = "retry" /\ policy.retryAt <= MaxNow)
        ~> (~alive \/ policy.state # "retry")
==============================================================================
