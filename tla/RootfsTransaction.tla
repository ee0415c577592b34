-------------------------- MODULE RootfsTransaction --------------------------
(***************************************************************************)
(* app.foldgpt.install.RootfsTransaction with RootfsExtractor.prepare: the *)
(* fresh installation of the Linux root.  A journal and the symbolic link  *)
(* files/debian are the durable state; an action is one effect on the file *)
(* system, and between any two the process may be killed or the power lost.*)
(*                                                                         *)
(* A file system keeps what is visible and what is on the disk.  Losing    *)
(* the power leaves of every unsynchronised entry the old or the new, and  *)
(* of unforced contents anything.  A directory that is created and         *)
(* synchronised again by every attempt (the container, fresh/, stages/) is *)
(* left out, and so is journal.next, which every write begins by deleting. *)
(***************************************************************************)
EXTENDS Naturals, FiniteSets

CONSTANTS
    Stages,             \* names a new stage may get; a removed one's may come again
    MaxKills,           \* bound: deaths of the installer, and errors that poison it
    MaxLosses,          \* bound: losses of power
    MaxForeign          \* bound: roots installed or pointers removed by someone else

ASSUME BoundAssumption == {MaxKills, MaxLosses, MaxForeign} \subseteq Nat

None == "none"
Foreign == "foreign"
ASSUME StageAssumption == Stages # {} /\ {None, Foreign} \cap Stages = {}

VARIABLES
    visible,            \* what the installer reads
    durable,            \* what has reached the disk
    tx,                 \* the open transaction
    kills, losses, foreign

vars == <<visible, durable, tx, kills, losses, foreign>>
bounds == <<kills, losses, foreign>>

------------------------------------------------------------------------------

\* "none" is the journal that was never written.
States == {None, "NEW", "PREPARING", "PREPARED", "ACTIVATING", "ACTIVE"}
Journal == [state: States, stage: Stages \cup {None}]
NoJournal == [state |-> None, stage |-> None]

\* A root without its last members, as extracted, and as provisioned for activation.
Roots == {None, "partial", "complete", "ready"}
Receipts == {None, "bad", "valid"}

VisibleStage == [dir: BOOLEAN, archive: BOOLEAN, root: Roots, receipt: Receipts]
NoStage == [dir |-> FALSE, archive |-> FALSE, root |-> None, receipt |-> None]

\* `entry': the names of the root and of the receipt in the stage; root and receipt
\* are the contents that were forced.
DurableStage == [dir: BOOLEAN, archive: BOOLEAN, entry: BOOLEAN, root: Roots, receipt: Receipts]
NoDurable == [dir |-> FALSE, archive |-> FALSE, entry |-> FALSE, root |-> None, receipt |-> None]

Pcs == {"closed", "recover", "idle", "write", "flush", "scan", "remove", "removed", "archive",
        "extract", "extracted", "receipt", "force", "sync", "adopt", "validated", "link",
        "linked", "cache"}

\* The transaction in memory: `next' is the journal being written, `work' the stage
\* that is extracted or adopted.
Closed == [pc |-> "closed", state |-> None, stage |-> None, next |-> NoJournal, work |-> None]

Init ==
    /\ visible = [debian |-> None, journal |-> NoJournal, stages |-> [s \in Stages |-> NoStage]]
    /\ durable = [debian |-> None, journal |-> NoJournal, stages |-> [s \in Stages |-> NoDurable]]
    /\ tx = Closed /\ kills = 0 /\ losses = 0 /\ foreign = 0

Exists(s) == visible.stages[s].dir

ValidReceipt(s) == visible.stages[s].receipt = "valid" /\ visible.stages[s].root # None

\* inspectStage(), validReceipt() and the root's identity.
VerifyPrepared == tx.stage \in Stages /\ Exists(tx.stage) /\ ValidReceipt(tx.stage)

------------------------------------------------------------------------------
(* writeState(): rename, synchronise, then memory. *)

\* The transaction about to write a journal.
Write(t, state, stage) ==
    [t EXCEPT !.pc = "write", !.next = [state |-> state, stage |-> stage]]

Rename ==
    /\ tx.pc = "write"
    /\ visible' = [visible EXCEPT !.journal = tx.next]
    /\ tx' = [tx EXCEPT !.pc = "flush"]
    /\ UNCHANGED <<durable, bounds>>

After(state) ==
    CASE state = "NEW"        -> "recover"
      [] state = "PREPARING"  -> "scan"
      [] state = "PREPARED"   -> "idle"
      [] state = "ACTIVATING" -> "link"
      [] state = "ACTIVE"     -> "cache"

\* Mutant: the directory is not synchronised.
FlushNothing ==
    /\ tx.pc = "flush"
    /\ tx' = [tx EXCEPT !.pc = After(tx.next.state), !.state = tx.next.state, !.stage = tx.next.stage]
    /\ UNCHANGED <<visible, durable, bounds>>

\* Mutant: memory keeps the state before.
FlushForgets ==
    /\ tx.pc = "flush"
    /\ durable' = [durable EXCEPT !.journal = visible.journal]
    /\ tx' = [tx EXCEPT !.pc = After(tx.next.state)]
    /\ UNCHANGED <<visible, bounds>>

Flush ==
    /\ tx.pc = "flush"
    /\ durable' = [durable EXCEPT !.journal = visible.journal]
    /\ tx' = [tx EXCEPT !.pc = After(tx.next.state), !.state = tx.next.state, !.stage = tx.next.stage]
    /\ UNCHANGED <<visible, bounds>>

------------------------------------------------------------------------------
(* open(), prepare() and activate().  A refusal poisons the transaction, which *)
(* is then closed.                                                             *)

\* Mutant: only a finished publication is recognised.
OursWhenActive ==
    /\ tx.state = "ACTIVE"
    /\ visible.debian = tx.stage /\ visible.debian # None

\* recoverActivated(): the pointer is this transaction's publication.
Ours ==
    /\ tx.state \in {"ACTIVATING", "ACTIVE"}
    /\ visible.debian = tx.stage /\ visible.debian # None
    /\ Exists(tx.stage) /\ visible.stages[tx.stage].root # None

\* Mutant: a pointer that is gone may be made again.
RefusedForeign == visible.debian # None /\ ~Ours

\* An activated pointer that is gone, or a pointer that is not ours, is refused.
Refused == IF visible.debian = None THEN tx.state = "ACTIVE" ELSE ~Ours

Recovered(t) == IF t.state = "ACTIVE" THEN [t EXCEPT !.pc = "cache"] ELSE [t EXCEPT !.pc = "linked"]

\* loadOrCreate() up to recoverActivated().
Open ==
    /\ tx.pc = "closed"
    /\ IF visible.journal # NoJournal
       THEN tx' = [Closed EXCEPT !.pc = "recover", !.state = visible.journal.state,
                                 !.stage = visible.journal.stage]
       ELSE /\ visible.debian = None /\ \A s \in Stages : ~Exists(s)
            /\ tx' = Write(Closed, "NEW", None)
    /\ UNCHANGED <<visible, durable, bounds>>

Recover ==
    /\ tx.pc = "recover"
    /\ tx' = IF Refused THEN Closed
             ELSE IF visible.debian # None THEN Recovered(tx)
             ELSE [tx EXCEPT !.pc = "idle"]
    /\ UNCHANGED <<visible, durable, bounds>>

Prepare ==
    /\ tx.pc = "idle"
    /\ tx' = IF Refused THEN Closed
             ELSE IF visible.debian # None THEN Recovered(tx)
             ELSE IF tx.state \in {"PREPARED", "ACTIVATING"}
                  THEN IF VerifyPrepared THEN tx ELSE Closed
             ELSE Write(tx, "PREPARING", None)
    /\ UNCHANGED <<visible, durable, bounds>>

\* The lease holder provisions the prepared root.
Provision ==
    /\ tx.pc = "idle" /\ tx.state = "PREPARED" /\ VerifyPrepared
    /\ visible' = [visible EXCEPT !.stages[tx.stage].root = "ready"]
    /\ UNCHANGED <<durable, tx, bounds>>

\* Up to the validator's verdict.
Activate ==
    /\ tx.pc = "idle"
    /\ tx' = IF Refused THEN Closed
             ELSE IF visible.debian # None THEN Recovered(tx)
             ELSE IF /\ tx.state \in {"PREPARED", "ACTIVATING"}
                     /\ VerifyPrepared /\ visible.stages[tx.stage].root = "ready"
                  THEN [tx EXCEPT !.pc = "validated"]
             ELSE Closed
    /\ UNCHANGED <<visible, durable, bounds>>

\* Mutant: what the validator saw is not forced.
SyncNoTree ==
    /\ tx.pc = "validated"
    /\ tx' = Write(tx, "ACTIVATING", tx.stage)
    /\ UNCHANGED <<visible, durable, bounds>>

SyncTree ==
    /\ tx.pc = "validated"
    /\ durable' = [durable EXCEPT !.stages[tx.stage].root = visible.stages[tx.stage].root]
    /\ tx' = Write(tx, "ACTIVATING", tx.stage)
    /\ UNCHANGED <<visible, bounds>>

\* Mutant: the pointer is moved into place.
LinkOver ==
    /\ tx.pc = "link"
    /\ visible' = [visible EXCEPT !.debian = tx.stage] /\ tx' = [tx EXCEPT !.pc = "linked"]
    /\ UNCHANGED <<durable, bounds>>

\* createSymbolicLink(), which fails on an existing name.
Link ==
    /\ tx.pc = "link"
    /\ IF visible.debian = None
       THEN visible' = [visible EXCEPT !.debian = tx.stage] /\ tx' = [tx EXCEPT !.pc = "linked"]
       ELSE tx' = Closed /\ UNCHANGED visible
    /\ UNCHANGED <<durable, bounds>>

\* Mutant: the pointer is taken for durable.
SyncNoFiles ==
    /\ tx.pc = "linked"
    /\ tx' = Write(tx, "ACTIVE", tx.stage)
    /\ UNCHANGED <<visible, durable, bounds>>

SyncFiles ==
    /\ tx.pc = "linked"
    /\ durable' = [durable EXCEPT !.debian = visible.debian]
    /\ tx' = Write(tx, "ACTIVE", tx.stage)
    /\ UNCHANGED <<visible, bounds>>

SyncStage(s) ==
    [durable.stages[s] EXCEPT !.archive = visible.stages[s].archive, !.entry = TRUE]

\* removeArchiveCache(), which saves space; nothing reads the archive again.
RemoveCache ==
    /\ tx.pc = "cache"
    /\ tx' = [tx EXCEPT !.pc = "idle"]
    /\ IF visible.stages[tx.stage].archive
       THEN /\ visible' = [visible EXCEPT !.stages[tx.stage].archive = FALSE]
            /\ durable' = [durable EXCEPT !.stages[tx.stage] = [SyncStage(tx.stage) EXCEPT !.archive = FALSE]]
       ELSE UNCHANGED <<visible, durable>>
    /\ UNCHANGED bounds

------------------------------------------------------------------------------
(* prepare() after PREPARING: the stages, and RootfsExtractor.prepare(). *)

Completed == {s \in Stages : Exists(s) /\ ValidReceipt(s)}
Abandoned == {s \in Stages : Exists(s) /\ ~ValidReceipt(s)}

Scan ==
    /\ tx.pc = "scan"
    /\ tx' = IF Cardinality(Completed) > 1 THEN Closed
             ELSE [tx EXCEPT !.pc = "remove", !.work = IF Completed = {} THEN None
                                                      ELSE CHOOSE s \in Completed : TRUE]
    /\ UNCHANGED <<visible, durable, bounds>>

Remove ==
    /\ tx.pc = "remove"
    /\ \E s \in Abandoned : visible' = [visible EXCEPT !.stages[s] = NoStage]
    /\ tx' = [tx EXCEPT !.pc = "removed"]
    /\ UNCHANGED <<durable, bounds>>

\* A stage that was removed, or whose entry was.
SyncStages ==
    [s \in Stages |-> IF Exists(s) THEN [durable.stages[s] EXCEPT !.dir = TRUE] ELSE NoDurable]

RemoveSynced ==
    /\ tx.pc = "removed"
    /\ durable' = [durable EXCEPT !.stages = SyncStages]
    /\ tx' = [tx EXCEPT !.pc = "remove"]
    /\ UNCHANGED <<visible, bounds>>

\* Mutant: a completed stage is not looked for.
CreateStageAlways ==
    /\ tx.pc = "remove" /\ Abandoned = {}
    /\ \E s \in Stages :
        /\ ~Exists(s) /\ ~durable.stages[s].dir
        /\ visible' = [visible EXCEPT !.stages[s].dir = TRUE]
        /\ tx' = [tx EXCEPT !.pc = "archive", !.work = s]
    /\ UNCHANGED <<durable, bounds>>

\* A completed stage is adopted, or a new one created.
CreateStage ==
    /\ tx.pc = "remove" /\ Abandoned = {}
    /\ IF tx.work # None THEN tx' = [tx EXCEPT !.pc = "adopt"] /\ UNCHANGED visible
       ELSE \E s \in Stages :
                /\ ~Exists(s) /\ ~durable.stages[s].dir
                /\ visible' = [visible EXCEPT !.stages[s].dir = TRUE]
                /\ tx' = [tx EXCEPT !.pc = "archive", !.work = s]
    /\ UNCHANGED <<durable, bounds>>

\* The stage's entry is synchronised, then the authenticated archive is.
CopyArchive ==
    /\ tx.pc = "archive"
    /\ visible' = [visible EXCEPT !.stages[tx.work].archive = TRUE]
    /\ durable' = [durable EXCEPT !.stages[tx.work].dir = TRUE, !.stages[tx.work].archive = TRUE]
    /\ tx' = [tx EXCEPT !.pc = "extract"]
    /\ UNCHANGED bounds

ExtractSome ==
    /\ tx.pc = "extract"
    /\ visible' = [visible EXCEPT !.stages[tx.work].root = "partial"]
    /\ tx' = [tx EXCEPT !.pc = "extracted"]
    /\ UNCHANGED <<durable, bounds>>

\* Every file and directory below the root has been forced.
ExtractAll ==
    /\ tx.pc = "extracted"
    /\ visible' = [visible EXCEPT !.stages[tx.work].root = "complete"]
    /\ durable' = [durable EXCEPT !.stages[tx.work].root = "complete"]
    /\ tx' = [tx EXCEPT !.pc = "receipt"]
    /\ UNCHANGED bounds

WriteReceipt ==
    /\ tx.pc = "receipt"
    /\ visible' = [visible EXCEPT !.stages[tx.work].receipt = "valid"]
    /\ tx' = [tx EXCEPT !.pc = "force"]
    /\ UNCHANGED <<durable, bounds>>

ForceReceipt ==
    /\ tx.pc = "force"
    /\ durable' = [durable EXCEPT !.stages[tx.work].receipt = "valid"]
    /\ tx' = [tx EXCEPT !.pc = "sync"]
    /\ UNCHANGED <<visible, bounds>>

SyncReceipt ==
    /\ tx.pc = "sync"
    /\ durable' = [durable EXCEPT !.stages[tx.work] = SyncStage(tx.work)]
    /\ tx' = [tx EXCEPT !.pc = "adopt"]
    /\ UNCHANGED <<visible, bounds>>

\* A stage whose receipt is visible becomes the prepared one.
Adopt ==
    /\ tx.pc = "adopt"
    /\ tx' = IF Exists(tx.work) /\ ValidReceipt(tx.work) THEN Write(tx, "PREPARED", tx.work) ELSE Closed
    /\ UNCHANGED <<visible, durable, bounds>>

------------------------------------------------------------------------------
(* Failures, and other people. *)

\* close(), after success or an error, or the death of the process: what it wrote
\* stays visible.
Kill ==
    /\ tx.pc # "closed" /\ kills < MaxKills /\ kills' = kills + 1
    /\ tx' = Closed
    /\ UNCHANGED <<visible, durable, losses, foreign>>

\* What the loss of power may leave of a stage.
Remains(s) ==
    LET v == visible.stages[s]
        d == durable.stages[s]
        lost == IF d.entry THEN {} ELSE {None}
        unforced == IF v.receipt # None /\ d.receipt = None THEN "bad" ELSE d.receipt
    IN  {r \in VisibleStage :
            /\ r.dir \in {v.dir, d.dir} /\ (~r.dir => r = NoStage)
            /\ r.dir => /\ r.archive \in {v.archive, d.archive}
                        /\ r.root \in {v.root, d.root} \cup lost
                        /\ r.receipt \in {v.receipt, unforced} \cup lost}

OnDisk(r) == [dir |-> r.dir, archive |-> r.archive, entry |-> r.dir, root |-> r.root, receipt |-> r.receipt]

PowerLoss ==
    /\ losses < MaxLosses /\ losses' = losses + 1
    /\ tx' = Closed
    /\ \E debian \in {visible.debian, durable.debian}, journal \in {visible.journal, durable.journal},
          stages \in {f \in [Stages -> UNION {Remains(s) : s \in Stages}] : \A s \in Stages : f[s] \in Remains(s)} :
        /\ visible' = [debian |-> debian, journal |-> journal, stages |-> stages]
        /\ durable' = [debian |-> debian, journal |-> journal, stages |-> [s \in Stages |-> OnDisk(stages[s])]]
    /\ UNCHANGED <<kills, foreign>>

\* Someone installs a Linux root of their own, or removes the pointer.
Meddle ==
    /\ foreign < MaxForeign /\ foreign' = foreign + 1
    /\ LET debian == IF visible.debian = None THEN Foreign ELSE None
       IN  visible' = [visible EXCEPT !.debian = debian] /\ durable' = [durable EXCEPT !.debian = debian]
    /\ visible.debian # Foreign
    /\ UNCHANGED <<tx, kills, losses>>

Step ==
    \/ Open \/ Recover \/ Rename \/ Flush
    \/ Scan \/ Remove \/ RemoveSynced \/ CreateStage \/ CopyArchive \/ ExtractSome \/ ExtractAll
    \/ WriteReceipt \/ ForceReceipt \/ SyncReceipt \/ Adopt
    \/ SyncTree \/ Link \/ SyncFiles \/ RemoveCache

Next == Step \/ Prepare \/ Provision \/ Activate \/ Kill \/ PowerLoss \/ Meddle

Spec == Init /\ [][Next]_vars

\* The code runs on, and whoever holds the lease, although it may also call
\* activate() too early, does not neglect for ever to prepare, to provision, or to
\* activate what it has provisioned.
FairSpec ==
    /\ Spec /\ WF_vars(Step)
    /\ SF_vars(tx.state \in {"NEW", "PREPARING"} /\ Prepare) /\ SF_vars(Provision)
    /\ SF_vars(VerifyPrepared /\ visible.stages[tx.stage].root = "ready" /\ Activate)

------------------------------------------------------------------------------

\* The values the file system and the journal can take, and a transaction in memory
\* that agrees with the journal it will find when it opens again.
TypeOK ==
    /\ visible \in [debian: Stages \cup {None, Foreign}, journal: Journal, stages: [Stages -> VisibleStage]]
    /\ durable \in [debian: Stages \cup {None, Foreign}, journal: Journal, stages: [Stages -> DurableStage]]
    /\ tx \in [pc: Pcs, state: States, stage: Stages \cup {None}, next: Journal, work: Stages \cup {None}]
    /\ tx.pc \notin {"closed", "write", "flush"} => visible.journal = [state |-> tx.state, stage |-> tx.stage]

\* A pointer to one of our stages, even one that only survives a loss of power, is
\* explained by the durable journal: an interrupted publication is never taken for
\* somebody else's Linux, which is refused for ever.
PointerIsExplained ==
    \A s \in {visible.debian, durable.debian} \cap Stages :
        durable.journal.state \in {"ACTIVATING", "ACTIVE"} /\ durable.journal.stage = s

\* files/debian never leads to a root that is half extracted or not provisioned, in
\* memory or on the disk: what the validator saw was forced before the pointer was
\* made.  (That the root is there at all is ReceiptIsDurable.)
PublishedIsForced ==
    \A s \in {visible.debian, durable.debian} \cap Stages :
        {visible.stages[s].root, durable.stages[s].root} \subseteq {"ready", None}

\* An ACTIVE journal has a durable pointer, unless someone removed it.
ActiveIsPublished ==
    foreign = 0 /\ visible.journal.state = "ACTIVE" => durable.debian = visible.journal.stage

\* "An existing Linux installation is never replaced", also when it appears between
\* the last look and the link.
ForeignIsPreserved == [][visible.debian = Foreign => visible'.debian = Foreign]_vars

\* Once activated, no death, loss of power or later attempt leads back or to another
\* stage ("no silent reinstall").
ActiveIsFinal ==
    [][durable.journal.state = "ACTIVE" =>
        durable'.journal = durable.journal /\ visible'.journal = durable.journal]_vars

\* prepare() never meets two completed stages, which it would refuse for ever.
OneCompletedStage == Cardinality(Completed) <= 1

\* However often the installer dies, the attempt can be resumed until the root is
\* published for good; only a loss of power or another writer can prevent it.
InstallationCompletes ==
    <>(\/ visible.journal.state = "ACTIVE" /\ durable.debian = visible.journal.stage
       \/ losses > 0 \/ foreign > 0)

\* "The receipt is durable before the caller can move into later installation
\* states": no loss of power takes the receipt or the root of a prepared stage.
ReceiptIsDurable ==
    LET s == durable.journal.stage
    IN  s # None => durable.stages[s].entry /\ durable.stages[s].receipt = "valid"

\* What is linked at the root is explained by the journal and forced to disk, ACTIVE stands
\* for a durable link, and one stage at most is complete, after every death and loss of power.
PublicationIsSound ==
    TypeOK /\ PointerIsExplained /\ PublishedIsForced /\ ActiveIsPublished /\ OneCompletedStage

==============================================================================
