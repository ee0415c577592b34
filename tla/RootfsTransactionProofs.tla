---------------------- MODULE RootfsTransactionProofs ----------------------
(***************************************************************************)
(* Proofs about RootfsTransaction, for any set of stage names and any      *)
(* number of deaths, losses of power and meddlings: what the rootfs run    *)
(* checks as PublicationIsSound, ForeignIsPreserved and ActiveIsFinal.     *)
(*                                                                         *)
(* None of these is inductive.  That a pointer is explained needs the      *)
(* order journal, pointer, journal at every place of the transaction; that *)
(* one stage at most is complete needs what the disk may still bring back  *)
(* of a removed one.  IInv says both.                                      *)
(***************************************************************************)
EXTENDS RootfsTransaction, FiniteSetTheorems, TLAPS

Files == [debian: Stages \cup {None, Foreign}, journal: Journal, stages: [Stages -> VisibleStage]]
Disk == [debian: Stages \cup {None, Foreign}, journal: Journal, stages: [Stages -> DurableStage]]
Transaction == [pc: Pcs, state: States, stage: Stages \cup {None}, next: Journal, work: Stages \cup {None}]

Typed == visible \in Files /\ durable \in Disk /\ tx \in Transaction /\ foreign \in Nat

V(s) == visible.stages[s]
D(s) == durable.stages[s]

\* prepare() after PREPARING, and the part of it that builds a stage.
Attempt == {"scan", "remove", "removed", "archive", "extract", "extracted", "receipt", "force", "sync", "adopt"}
Building == {"archive", "extract", "extracted", "receipt", "force", "sync"}
Linking == {"ACTIVATING", "ACTIVE"}

\* A journal names a stage from PREPARED on.
Shaped(j) == (j.stage \in Stages) <=> (j.state \in {"PREPARED", "ACTIVATING", "ACTIVE"})

\* Where the transaction is determines the state it is in, and what it may write next.
TxOK ==
    /\ Shaped(tx) /\ Shaped(tx.next)
    /\ tx.pc = "write" =>
        \/ tx.next.state = "NEW" /\ tx.state = None
        \/ tx.next.state = "PREPARING" /\ tx.state \in {"NEW", "PREPARING"}
        \/ tx.next.state = "PREPARED" /\ tx.state = "PREPARING"
        \/ tx.next.state = "ACTIVATING" /\ tx.state \in {"PREPARED", "ACTIVATING"} /\ tx.next.stage = tx.stage
        \/ tx.next.state = "ACTIVE" /\ tx.state = "ACTIVATING" /\ tx.next.stage = tx.stage
    /\ tx.pc = "flush" => tx.next.state # None
    /\ tx.pc \notin {"closed", "write", "flush"} => tx.state # None
    /\ tx.pc = "validated" => tx.state \in {"PREPARED", "ACTIVATING"}
    /\ tx.pc \in {"link", "linked"} => tx.state = "ACTIVATING"
    /\ tx.pc = "cache" => tx.state = "ACTIVE"
    /\ tx.pc \in Attempt => tx.state = "PREPARING"
    /\ tx.pc \in Building \cup {"adopt"} => tx.work \in Stages

\* Memory follows the visible journal; an ACTIVE one that is durable is the visible one.
JournalOK ==
    /\ Shaped(visible.journal) /\ Shaped(durable.journal)
    /\ tx.pc \notin {"closed", "flush"} => visible.journal = [state |-> tx.state, stage |-> tx.stage]
    /\ tx.pc = "flush" => visible.journal = tx.next
    /\ tx.pc = "link" => durable.journal = visible.journal
    /\ durable.journal.state = "ACTIVE" => visible.journal = durable.journal

\* A pointer to one of our stages is durable or new, and explained by both journals;
\* without meddling an ACTIVE journal has its durable pointer.
PointerOK ==
    /\ durable.debian = visible.debian \/ (visible.debian \in Stages /\ durable.debian = None)
    /\ visible.debian \in Stages =>
        \A j \in {visible.journal, durable.journal} : j.state \in Linking /\ j.stage = visible.debian
    /\ foreign = 0 =>
        /\ tx.pc = "linked" => visible.debian = tx.stage
        /\ tx.pc = "write" /\ tx.next.state = "ACTIVE" => durable.debian = tx.next.stage
        /\ visible.journal.state = "ACTIVE" => durable.debian = visible.journal.stage

\* What the disk holds of a stage: a removed one cannot come back complete, and what
\* was forced was visible first.
StageOK(v, d) ==
    /\ ~v.dir => v = NoStage /\ ~(d.receipt = "valid" /\ d.root # None)
    /\ ~d.dir => d = NoDurable
    /\ v.dir => (d.receipt = "valid" => v.receipt = "valid") /\ (d.root # None => v.root # None)
    /\ v.archive \/ v.root # None => d.dir

\* One stage at most is complete, and the one that is built is the only one there is.
StagesOK ==
    /\ \A s \in Stages : StageOK(V(s), D(s))
    /\ \A s, t \in Completed : s = t
    /\ tx.pc \in {"remove", "removed"} /\ tx.work = None => Completed = {}
    /\ tx.pc \in Building => Exists(tx.work) /\ \A s \in Stages : Exists(s) => s = tx.work
    /\ tx.pc \in Building \ {"archive"} => D(tx.work).dir
    /\ tx.pc \in {"force", "sync"} => V(tx.work).receipt = "valid"

\* What is published, or about to be, is provisioned in memory and on the disk, or gone.
Settled == {"ready", None}
Bound(s) == V(s).root \in Settled /\ D(s).root \in Settled
RootOK ==
    /\ visible.debian \in Stages => Bound(visible.debian)
    /\ tx.pc = "validated" => V(tx.stage).root = "ready"
    /\ tx.pc \in {"write", "flush"} /\ tx.next.state = "ACTIVATING" => Bound(tx.next.stage)
    /\ tx.pc = "link" => Bound(tx.stage)

IInv == Typed /\ TxOK /\ JournalOK /\ PointerOK /\ StagesOK /\ RootOK

-----------------------------------------------------------------------------

\* The transaction keeps its type when it moves on,
LEMMA TxMove == ASSUME NEW t \in Transaction, NEW p \in Pcs
  PROVE [t EXCEPT !.pc = p] \in Transaction
  BY DEF Transaction

\* takes a stage to work on,
LEMMA TxWork == ASSUME NEW t \in Transaction, NEW p \in Pcs, NEW w \in Stages \cup {None}
  PROVE [t EXCEPT !.pc = p, !.work = w] \in Transaction
  BY DEF Transaction

\* reads a journal,
LEMMA TxLoad == ASSUME NEW t \in Transaction, NEW p \in Pcs, NEW j \in Journal
  PROVE [t EXCEPT !.pc = p, !.state = j.state, !.stage = j.stage] \in Transaction
  <1>1. j.state \in States /\ j.stage \in Stages \cup {None}  BY DEF Journal
  <1> QED BY <1>1 DEF Transaction

\* is about to write one,
LEMMA TxWrite == ASSUME NEW t \in Transaction, NEW st \in States, NEW s \in Stages \cup {None}
  PROVE Write(t, st, s) \in Transaction
  <1>1. [state |-> st, stage |-> s] \in Journal  BY DEF Journal
  <1>2. "write" \in Pcs  BY DEF Pcs
  <1>3. \A j \in Journal : [t EXCEPT !.pc = "write", !.next = j] \in Transaction BY <1>2 DEF Transaction
  <1> QED BY <1>1, <1>3 DEF Write

\* is closed,
LEMMA ClosedType == Closed \in Transaction
  BY DEF Transaction, Closed, Journal, Pcs, States, NoJournal

\* or is recovered.
LEMMA TxRecovered == ASSUME NEW t \in Transaction PROVE Recovered(t) \in Transaction
  BY TxMove DEF Recovered, Pcs

\* The files keep their type when a stage is replaced,
LEMMA FilesStage == ASSUME NEW f \in Files, NEW s \in Stages, NEW x \in VisibleStage
  PROVE [f EXCEPT !.stages[s] = x] \in Files
  BY DEF Files

\* when one thing of a stage changes,
LEMMA FilesField == ASSUME NEW f \in Files, NEW s \in Stages
  PROVE /\ [f EXCEPT !.stages[s].dir = TRUE] \in Files
        /\ \A b \in BOOLEAN : [f EXCEPT !.stages[s].archive = b] \in Files
        /\ \A r \in Roots : [f EXCEPT !.stages[s].root = r] \in Files
        /\ \A r \in Receipts : [f EXCEPT !.stages[s].receipt = r] \in Files
  BY DEF Files, VisibleStage

\* or the journal or the pointer does;
LEMMA FilesNamed == ASSUME NEW f \in Files
  PROVE /\ \A j \in Journal : [f EXCEPT !.journal = j] \in Files
        /\ \A d \in Stages \cup {None, Foreign} : [f EXCEPT !.debian = d] \in Files
  BY DEF Files

\* and so does the disk.
LEMMA DiskStage == ASSUME NEW f \in Disk, NEW s \in Stages, NEW x \in DurableStage
  PROVE [f EXCEPT !.stages[s] = x] \in Disk
  BY DEF Disk

\* The same of one thing of a stage on the disk,
LEMMA DiskField == ASSUME NEW f \in Disk, NEW s \in Stages
  PROVE /\ [f EXCEPT !.stages[s].dir = TRUE, !.stages[s].archive = TRUE] \in Disk
        /\ \A r \in Roots : [f EXCEPT !.stages[s].root = r] \in Disk
        /\ \A r \in Receipts : [f EXCEPT !.stages[s].receipt = r] \in Disk
  <1>1. [f EXCEPT !.stages[s].dir = TRUE] \in Disk  BY DEF Disk, DurableStage
  <1>2. ASSUME NEW g \in Disk PROVE [g EXCEPT !.stages[s].archive = TRUE] \in Disk
    <2>1. [g.stages[s] EXCEPT !.archive = TRUE] \in DurableStage  BY DEF Disk, DurableStage
    <2>2. [g EXCEPT !.stages[s].archive = TRUE] = [g EXCEPT !.stages[s] = [g.stages[s] EXCEPT !.archive = TRUE]]
      BY DEF Disk
    <2> QED BY <2>1, <2>2, DiskStage
  <1>3. \A r \in Roots : [f EXCEPT !.stages[s].root = r] \in Disk  BY DEF Disk, DurableStage
  <1>4. \A r \in Receipts : [f EXCEPT !.stages[s].receipt = r] \in Disk  BY DEF Disk, DurableStage
  <1> QED BY <1>1, <1>2, <1>3, <1>4

\* and of a whole directory.
LEMMA DiskNamed == ASSUME NEW f \in Disk
  PROVE /\ \A j \in Journal : [f EXCEPT !.journal = j] \in Disk
        /\ \A d \in Stages \cup {None, Foreign} : [f EXCEPT !.debian = d] \in Disk
        /\ \A g \in [Stages -> DurableStage] : [f EXCEPT !.stages = g] \in Disk
  BY DEF Disk

\* The parts of the typed state.
LEMMA Parts == ASSUME Typed
  PROVE /\ visible.debian \in Stages \cup {None, Foreign} /\ visible.journal \in Journal
        /\ visible.journal.state \in States /\ visible.journal.stage \in Stages \cup {None}
        /\ visible.stages \in [Stages -> VisibleStage]
        /\ durable.debian \in Stages \cup {None, Foreign} /\ durable.journal \in Journal
        /\ durable.stages \in [Stages -> DurableStage]
        /\ tx.pc \in Pcs /\ tx.state \in States /\ tx.stage \in Stages \cup {None}
        /\ tx.next \in Journal /\ tx.work \in Stages \cup {None}
        /\ tx.next.state \in States /\ tx.next.stage \in Stages \cup {None}
  BY DEF Typed, Files, Disk, Transaction, Journal

\* The values the actions write are values of their types.
LEMMA Values ==
  /\ {"closed", "recover", "idle", "write", "flush", "scan", "remove", "removed",
      "archive", "extract", "extracted", "receipt", "force", "sync", "adopt", "validated", "link", "linked", "cache"} \subseteq Pcs
  /\ {None, "NEW", "PREPARING", "PREPARED", "ACTIVATING", "ACTIVE"} \subseteq States
  /\ {None, "partial", "complete", "ready"} \subseteq Roots
  /\ "valid" \in Receipts
  /\ NoStage \in VisibleStage /\ NoDurable \in DurableStage
  BY DEF Pcs, States, Roots, Receipts, NoStage, NoDurable, VisibleStage, DurableStage

\* A synchronised stage is a stage,
LEMMA SyncStageType == ASSUME Typed, NEW s \in Stages
  PROVE  SyncStage(s) \in DurableStage /\ [SyncStage(s) EXCEPT !.archive = FALSE] \in DurableStage
  <1>1. visible.stages[s] \in VisibleStage /\ durable.stages[s] \in DurableStage  BY Parts
  <1>2. SyncStage(s) \in DurableStage  BY <1>1 DEF SyncStage, DurableStage, VisibleStage
  <1>3. [SyncStage(s) EXCEPT !.archive = FALSE] \in DurableStage  BY <1>2 DEF DurableStage
  <1> QED BY <1>2, <1>3

\* and so is every one after their directory is synchronised.
LEMMA SyncStagesType == ASSUME Typed PROVE SyncStages \in [Stages -> DurableStage]
  <1>1. ASSUME NEW s \in Stages PROVE [durable.stages[s] EXCEPT !.dir = TRUE] \in DurableStage
    BY <1>1, Parts DEF DurableStage
  <1> QED BY <1>1, Values DEF SyncStages

\* What a loss of power leaves is typed.
LEMMA RemainsType == ASSUME NEW f \in [Stages -> UNION {Remains(s) : s \in Stages}],
                            \A s \in Stages : f[s] \in Remains(s)
  PROVE  /\ f \in [Stages -> VisibleStage]
         /\ [s \in Stages |-> OnDisk(f[s])] \in [Stages -> DurableStage]
  <1>1. \A s \in Stages : Remains(s) \subseteq VisibleStage  BY DEF Remains
  <1>2. f \in [Stages -> VisibleStage]  BY <1>1
  <1>3. \A r \in VisibleStage : OnDisk(r) \in DurableStage  BY DEF OnDisk, VisibleStage, DurableStage
  <1> QED BY <1>2, <1>3

USE StageAssumption DEF None, Foreign, Shaped, Attempt, Building, Linking

\* close(), a refusal, or the death of the process.
LEMMA CloseStep == ASSUME IInv, tx' = Closed, UNCHANGED <<visible, durable, foreign>> PROVE IInv'
  <1>1. Typed'  BY ClosedType DEF IInv, Typed
  <1>2. tx'.pc = "closed" /\ tx'.state = None /\ tx'.stage = None /\ tx'.next = NoJournal  BY DEF Closed
  <1>3. TxOK'  BY <1>2 DEF TxOK, NoJournal
  <1>4. JournalOK'  BY <1>2 DEF IInv, JournalOK
  <1>5. PointerOK'  BY <1>2 DEF IInv, PointerOK
  <1>6. StagesOK'  BY <1>2 DEF IInv, StagesOK, V, D, Completed, Exists, ValidReceipt
  <1>7. RootOK'  BY <1>2 DEF IInv, RootOK, Bound, V, D
  <1> QED BY <1>1, <1>3, <1>4, <1>5, <1>6, <1>7 DEF IInv

\* recoverActivated() resumes a publication.
LEMMA RecoveredStep ==
  ASSUME IInv, tx.pc \in {"recover", "idle"}, visible.debian # None, Ours, tx' = Recovered(tx),
         UNCHANGED <<visible, durable, foreign>>
  PROVE  IInv'
  <1>1. Typed'  BY TxRecovered DEF IInv, Typed
  <1>2. /\ tx'.state = tx.state /\ tx'.stage = tx.stage /\ tx'.next = tx.next
        /\ tx'.pc = IF tx.state = "ACTIVE" THEN "cache" ELSE "linked"
    BY DEF Recovered, IInv, Typed, Transaction
  <1>3. TxOK'  BY <1>2 DEF IInv, TxOK, Ours
  <1>4. JournalOK'  BY <1>2 DEF IInv, JournalOK
  <1>5. PointerOK'  BY <1>2 DEF IInv, PointerOK, Ours
  <1>6. StagesOK'  BY <1>2 DEF IInv, StagesOK, V, D, Completed, Exists, ValidReceipt
  <1>7. RootOK'  BY <1>2 DEF IInv, RootOK, Bound, V, D
  <1> QED BY <1>1, <1>3, <1>4, <1>5, <1>6, <1>7 DEF IInv

\* The transaction moves on without a write: what its new place promises is in the premises.
LEMMA MoveStep ==
  ASSUME IInv, NEW p \in Pcs, tx' = [tx EXCEPT !.pc = p], tx.pc \notin {"closed", "write", "flush"},
         p \in {"idle", "validated"},
         p = "validated" => tx.state \in {"PREPARED", "ACTIVATING"} /\ V(tx.stage).root = "ready",
         UNCHANGED <<visible, durable, foreign>>
  PROVE  IInv'
  <1>1. Typed'  BY TxMove DEF IInv, Typed
  <1>2. tx'.pc = p /\ tx'.state = tx.state /\ tx'.stage = tx.stage /\ tx'.next = tx.next
    BY DEF IInv, Typed, Transaction
  <1>3. TxOK'  BY <1>2 DEF IInv, TxOK
  <1>4. JournalOK'  BY <1>2 DEF IInv, JournalOK
  <1>5. PointerOK'  BY <1>2 DEF IInv, PointerOK
  <1>6. StagesOK'  BY <1>2 DEF IInv, StagesOK, V, D, Completed, Exists, ValidReceipt
  <1>7. RootOK'  BY <1>2 DEF IInv, RootOK, Bound, V, D
  <1> QED BY <1>1, <1>3, <1>4, <1>5, <1>6, <1>7 DEF IInv

\* The transaction is about to write a journal.
LEMMA WriteStep ==
  ASSUME IInv, NEW st \in States, NEW s \in Stages \cup {None}, tx' = Write(tx, st, s),
         tx.pc \notin {"closed", "flush"},
         (s \in Stages) <=> (st \in {"PREPARED", "ACTIVATING", "ACTIVE"}),
         \/ st = "PREPARING" /\ tx.state \in {"NEW", "PREPARING"}
         \/ st = "PREPARED" /\ tx.state = "PREPARING",
         UNCHANGED <<visible, durable, foreign>>
  PROVE  IInv'
  <1>1. Typed'  BY TxWrite DEF IInv, Typed
  <1>2. /\ tx'.pc = "write" /\ tx'.state = tx.state /\ tx'.stage = tx.stage
        /\ tx'.next = [state |-> st, stage |-> s]
    BY DEF IInv, Typed, Transaction, Write
  <1>3. TxOK'  BY <1>2 DEF IInv, TxOK
  <1>4. JournalOK'  BY <1>2 DEF IInv, JournalOK
  <1>5. PointerOK'  BY <1>2 DEF IInv, PointerOK
  <1>6. StagesOK'  BY <1>2 DEF IInv, StagesOK, V, D, Completed, Exists, ValidReceipt
  <1>7. RootOK'  BY <1>2 DEF IInv, RootOK, Bound, V, D
  <1> QED BY <1>1, <1>3, <1>4, <1>5, <1>6, <1>7 DEF IInv

\* loadOrCreate() believes the visible journal, or begins one.
LEMMA OpenStep == ASSUME IInv, Open PROVE IInv'
  <1>0. Typed /\ visible.journal \in Journal /\ UNCHANGED <<visible, durable, foreign>>
    BY Parts DEF IInv, Open, bounds
  <1>1. CASE visible.journal # NoJournal
    <2>1. tx' = [Closed EXCEPT !.pc = "recover", !.state = visible.journal.state, !.stage = visible.journal.stage]
      BY <1>1 DEF Open
    <2>2. "recover" \in Pcs  BY Values
    <2>3. Typed'  BY <1>0, <2>1, <2>2, ClosedType, TxLoad DEF Typed
    <2>4. /\ tx'.pc = "recover" /\ tx'.state = visible.journal.state
          /\ tx'.stage = visible.journal.stage
          /\ tx'.next = NoJournal
      BY <2>1 DEF Closed
    <2>5. TxOK'  BY <1>0, <1>1, <2>4 DEF IInv, TxOK, JournalOK, NoJournal, Journal
    <2>6. visible.journal = [state |-> tx'.state, stage |-> tx'.stage]  BY <1>0, <2>4 DEF Journal
    <2>7. JournalOK'  BY <1>0, <2>4, <2>6 DEF IInv, JournalOK
    <2>8. PointerOK'  BY <1>0, <2>4 DEF IInv, PointerOK
    <2>9. StagesOK'  BY <1>0, <2>4 DEF IInv, StagesOK, V, D, Completed, Exists, ValidReceipt
    <2>10. RootOK'  BY <1>0, <2>4 DEF IInv, RootOK, Bound, V, D
    <2> QED BY <2>3, <2>5, <2>7, <2>8, <2>9, <2>10 DEF IInv
  <1>2. CASE visible.journal = NoJournal
    <2>1. tx' = Write(Closed, "NEW", None)  BY <1>2 DEF Open
    <2>2. "NEW" \in States  BY Values
    <2>3. Typed'  BY <1>0, <2>1, <2>2, ClosedType, TxWrite DEF Typed
    <2>4. /\ tx'.pc = "write" /\ tx'.state = None /\ tx'.stage = None
          /\ tx'.next = [state |-> "NEW", stage |-> None]
      BY <2>1 DEF Closed, Write
    <2>5. TxOK'  BY <2>4 DEF TxOK
    <2>7. JournalOK'  BY <1>0, <1>2, <2>4 DEF IInv, JournalOK, NoJournal
    <2>8. PointerOK'  BY <1>0, <2>4 DEF IInv, PointerOK
    <2>9. StagesOK'  BY <1>0, <2>4 DEF IInv, StagesOK, V, D, Completed, Exists, ValidReceipt
    <2>10. RootOK'  BY <1>0, <2>4 DEF IInv, RootOK, Bound, V, D
    <2> QED BY <2>3, <2>5, <2>7, <2>8, <2>9, <2>10 DEF IInv
  <1> QED BY <1>1, <1>2

\* A recovered transaction is refused, resumed or idle.
LEMMA RecoverStep == ASSUME IInv, Recover PROVE IInv'
  <1>0. UNCHANGED <<visible, durable, foreign>> /\ tx.pc = "recover"  BY DEF Recover, bounds
  <1>1. CASE tx' = Closed  BY <1>0, <1>1, CloseStep
  <1>2. CASE ~Refused /\ visible.debian # None
    BY <1>0, <1>2, RecoveredStep DEF Recover, Refused
  <1>3. CASE ~Refused /\ visible.debian = None
    BY <1>0, <1>3, MoveStep, Values DEF Recover
  <1> QED BY <1>1, <1>2, <1>3 DEF Recover

\* prepare() up to its first write.
LEMMA PrepareStep == ASSUME IInv, Prepare PROVE IInv'
  <1>0. UNCHANGED <<visible, durable, foreign>> /\ tx.pc = "idle"  BY DEF Prepare, bounds
  <1>1. CASE tx' = Closed  BY <1>0, <1>1, CloseStep
  <1>2. CASE ~Refused /\ visible.debian # None
    BY <1>0, <1>2, RecoveredStep DEF Prepare, Refused
  <1>3. CASE tx' = tx
    <2>1. tx \in Transaction /\ "idle" \in Pcs  BY Values DEF IInv, Typed
    <2>2. tx' = [tx EXCEPT !.pc = "idle"]  BY <1>0, <1>3, <2>1 DEF Transaction
    <2> QED BY <1>0, <2>1, <2>2, MoveStep
  <1>4. CASE ~Refused /\ visible.debian = None /\ tx.state \notin {"PREPARED", "ACTIVATING"}
    <2>1. tx' = Write(tx, "PREPARING", None) /\ tx.state # "ACTIVE"  BY <1>4 DEF Prepare, Refused
    <2>2. tx.state \in {"NEW", "PREPARING"}
      BY <1>0, <1>4, <2>1, Parts DEF IInv, TxOK, States
    <2> QED BY <1>0, <2>1, <2>2, WriteStep, Values
  <1> QED BY <1>1, <1>2, <1>3, <1>4 DEF Prepare

\* activate() up to the verdict of the validator.
LEMMA ActivateStep == ASSUME IInv, Activate PROVE IInv'
  <1>0. UNCHANGED <<visible, durable, foreign>> /\ tx.pc = "idle"  BY DEF Activate, bounds
  <1>1. CASE tx' = Closed  BY <1>0, <1>1, CloseStep
  <1>2. CASE ~Refused /\ visible.debian # None
    BY <1>0, <1>2, RecoveredStep DEF Activate, Refused
  <1>3. CASE /\ tx' = [tx EXCEPT !.pc = "validated"] /\ tx.state \in {"PREPARED", "ACTIVATING"}
             /\ visible.stages[tx.stage].root = "ready"
    BY <1>0, <1>3, MoveStep, Values DEF V
  <1> QED BY <1>1, <1>2, <1>3 DEF Activate

\* The stage with a valid receipt becomes the prepared one.
LEMMA AdoptStep == ASSUME IInv, Adopt PROVE IInv'
  <1>0. UNCHANGED <<visible, durable, foreign>> /\ tx.pc = "adopt"  BY DEF Adopt, bounds
  <1>1. CASE tx' = Closed  BY <1>0, <1>1, CloseStep
  <1>2. CASE tx' = Write(tx, "PREPARED", tx.work)
    <2>1. tx.state = "PREPARING" /\ tx.work \in Stages  BY <1>0 DEF IInv, TxOK
    <2> QED BY <1>0, <1>2, <2>1, WriteStep, Values
  <1> QED BY <1>1, <1>2 DEF Adopt

\* The installer dies.
LEMMA KillStep == ASSUME IInv, Kill PROVE IInv'
  BY CloseStep DEF Kill

\* The next journal becomes visible.
LEMMA RenameStep == ASSUME IInv, Rename PROVE IInv'
  <1>0. visible \in Files /\ tx \in Transaction /\ "flush" \in Pcs  BY Values DEF IInv, Typed
  <1>1. Typed'  BY <1>0, Parts, TxMove, FilesNamed DEF IInv, Typed, Rename, bounds
  <1>2. /\ tx.pc = "write" /\ tx'.pc = "flush" /\ tx'.state = tx.state /\ tx'.stage = tx.stage
        /\ tx'.next = tx.next
        /\ visible'.journal = tx.next /\ visible'.debian = visible.debian
        /\ visible'.stages = visible.stages
        /\ UNCHANGED <<durable, foreign>>
    BY <1>0 DEF Rename, bounds, Files, Transaction
  <1>3. TxOK'  BY <1>2 DEF IInv, TxOK
  <1>4. JournalOK'  BY <1>2 DEF IInv, JournalOK, TxOK
  <1>5. PointerOK'  BY <1>2 DEF IInv, PointerOK, JournalOK, TxOK
  <1>6. StagesOK'  BY <1>2 DEF IInv, StagesOK, V, D, Completed, Exists, ValidReceipt
  <1>7. RootOK'  BY <1>2 DEF IInv, RootOK, Bound, V, D
  <1> QED BY <1>1, <1>3, <1>4, <1>5, <1>6, <1>7 DEF IInv

\* The visible journal becomes durable, and memory follows.
LEMMA FlushStep == ASSUME IInv, Flush PROVE IInv'
  <1>0. /\ durable \in Disk /\ tx \in Transaction /\ tx.next \in Journal /\ tx.next.state \in States
        /\ visible.journal \in Journal
    BY Parts DEF IInv, Typed
  <1>a. After(tx.next.state) \in {"recover", "scan", "idle", "link", "cache"}
    BY <1>0 DEF Flush, IInv, After, TxOK, States
  <1>b. /\ After(tx.next.state) = "link" => tx.next.state = "ACTIVATING"
        /\ After(tx.next.state) = "cache" => tx.next.state = "ACTIVE"
        /\ After(tx.next.state) = "scan" => tx.next.state = "PREPARING"
    BY <1>0 DEF Flush, IInv, After, TxOK, States
  <1>1. Typed'
    <2>1. After(tx.next.state) \in Pcs  BY <1>a, Values
    <2>2. tx' \in Transaction  BY <1>0, <2>1, TxLoad DEF Flush
    <2>3. durable' \in Disk  BY <1>0, DiskNamed DEF Flush
    <2> QED BY <2>2, <2>3 DEF IInv, Typed, Flush, bounds
  <1>2. /\ tx.pc = "flush" /\ tx'.pc = After(tx.next.state) /\ tx'.state = tx.next.state
        /\ tx'.stage = tx.next.stage /\ tx'.next = tx.next
        /\ durable'.journal = visible.journal /\ durable'.debian = durable.debian
        /\ durable'.stages = durable.stages
        /\ UNCHANGED <<visible, foreign>>
    BY <1>0 DEF Flush, bounds, Disk, Transaction
  <1>c. visible.journal = tx.next /\ tx.next = [state |-> tx'.state, stage |-> tx'.stage]
    BY <1>0, <1>2 DEF IInv, JournalOK, Journal
  <1>3. TxOK'  BY <1>a, <1>b, <1>2 DEF IInv, TxOK
  <1>4. JournalOK'  BY <1>a, <1>2, <1>c DEF IInv, JournalOK, TxOK
  <1>5. PointerOK'  BY <1>a, <1>2 DEF IInv, PointerOK
  <1>6. StagesOK'  BY <1>a, <1>2 DEF IInv, StagesOK, V, D, Completed, Exists, ValidReceipt
  <1>7. RootOK'  BY <1>a, <1>b, <1>2 DEF IInv, RootOK, Bound, V, D
  <1> QED BY <1>1, <1>3, <1>4, <1>5, <1>6, <1>7 DEF IInv

\* The completed stage, if there is one, is found.
LEMMA ScanStep == ASSUME IInv, Scan PROVE IInv'
  <1>0. UNCHANGED <<visible, durable, foreign>> /\ tx.pc = "scan" /\ tx \in Transaction
    BY DEF IInv, Typed, Scan, bounds
  <1>1. CASE tx' = Closed  BY <1>0, <1>1, CloseStep
  <1>2. CASE tx' # Closed
    <2> DEFINE w == IF Completed = {} THEN None ELSE CHOOSE s \in Completed : TRUE
    <2>1. tx' = [tx EXCEPT !.pc = "remove", !.work = w]  BY <1>2 DEF Scan
    <2>2. w \in Stages \cup {None} /\ (w = None => Completed = {})  BY DEF Completed
    <2> HIDE DEF w
    <2>3. Typed'  BY <1>0, <2>1, <2>2, TxWork, Values DEF IInv, Typed
    <2>4. /\ tx'.pc = "remove" /\ tx'.state = tx.state /\ tx'.stage = tx.stage /\ tx'.next = tx.next
          /\ tx'.work = w
      BY <1>0, <2>1 DEF Transaction
    <2>5. TxOK'  BY <1>0, <2>4 DEF IInv, TxOK
    <2>6. JournalOK'  BY <1>0, <2>4 DEF IInv, JournalOK
    <2>7. PointerOK'  BY <1>0, <2>4 DEF IInv, PointerOK
    <2>8. StagesOK'  BY <1>0, <2>2, <2>4 DEF IInv, StagesOK, V, D, Completed, Exists, ValidReceipt
    <2>9. RootOK'  BY <1>0, <2>4 DEF IInv, RootOK, Bound, V, D
    <2> QED BY <2>3, <2>5, <2>6, <2>7, <2>8, <2>9 DEF IInv
  <1> QED BY <1>1, <1>2

\* What the validator saw is forced before ACTIVATING is written.
LEMMA SyncTreeStep == ASSUME IInv, SyncTree PROVE IInv'
  <1>0. /\ durable \in Disk /\ tx \in Transaction /\ tx.stage \in Stages
        /\ visible.stages[tx.stage].root = "ready" /\ tx.pc = "validated"
    BY DEF IInv, Typed, TxOK, RootOK, V, SyncTree
  <1>1. Typed'  BY <1>0, TxWrite, DiskField, Values DEF IInv, Typed, SyncTree, bounds
  <1>2. /\ tx'.pc = "write" /\ tx'.state = tx.state /\ tx'.stage = tx.stage
        /\ tx'.next = [state |-> "ACTIVATING", stage |-> tx.stage]
        /\ durable'.journal = durable.journal /\ durable'.debian = durable.debian
        /\ UNCHANGED <<visible, foreign>>
    BY <1>0 DEF SyncTree, Write, bounds, Disk, Transaction
  <1>d. /\ durable'.stages = [durable.stages EXCEPT ![tx.stage].root = "ready"]
        /\ durable.stages \in [Stages -> DurableStage]
    BY <1>0 DEF SyncTree, Disk
  <1>3. TxOK'  BY <1>0, <1>2 DEF IInv, TxOK
  <1>4. JournalOK'  BY <1>0, <1>2 DEF IInv, JournalOK
  <1>5. PointerOK'  BY <1>0, <1>2 DEF IInv, PointerOK
  <1>6. StagesOK'
    <2>1. /\ durable'.stages[tx.stage].dir = durable.stages[tx.stage].dir
          /\ durable'.stages[tx.stage].receipt = durable.stages[tx.stage].receipt
      BY <1>0, <1>d DEF DurableStage
    <2>2. \A s \in Stages : s # tx.stage => durable'.stages[s] = durable.stages[s]  BY <1>d
    <2>3. StageOK(visible.stages[tx.stage], durable.stages[tx.stage])  BY <1>0 DEF IInv, StagesOK, V, D
    <2>4. StageOK(visible.stages[tx.stage], durable'.stages[tx.stage])
      BY <1>0, <2>1, <2>3 DEF StageOK, NoStage
    <2>5. \A s \in Stages : StageOK(V(s), D(s))'  BY <1>2, <2>2, <2>4 DEF IInv, StagesOK, V, D
    <2> QED BY <1>2, <2>5 DEF IInv, StagesOK, V, D, Completed, Exists, ValidReceipt
  <1>7. RootOK'
    <2>1. durable'.stages[tx.stage].root = "ready"  BY <1>0, <1>d DEF DurableStage
    <2>2. \A s \in Stages : s # tx.stage => durable'.stages[s] = durable.stages[s]  BY <1>d
    <2> QED BY <1>0, <1>2, <2>1, <2>2 DEF IInv, RootOK, Bound, Settled, V, D
  <1> QED BY <1>1, <1>3, <1>4, <1>5, <1>6, <1>7 DEF IInv

\* The pointer is made under a durable ACTIVATING journal.
LEMMA LinkStep == ASSUME IInv, Link PROVE IInv'
  <1>0. /\ visible \in Files /\ tx \in Transaction /\ tx.pc = "link" /\ tx.state = "ACTIVATING"
        /\ tx.stage \in Stages /\ UNCHANGED <<durable, foreign>>
    BY DEF IInv, Typed, TxOK, Link, bounds
  <1>1. CASE visible.debian # None  BY <1>0, <1>1, CloseStep DEF Link
  <1>2. CASE visible.debian = None
    <2>1. Typed'  BY <1>0, <1>2, TxMove, FilesNamed, Values DEF IInv, Typed, Link
    <2>2. /\ tx'.pc = "linked" /\ tx'.state = tx.state /\ tx'.stage = tx.stage /\ tx'.next = tx.next
          /\ visible'.debian = tx.stage /\ visible'.journal = visible.journal
          /\ visible'.stages = visible.stages
      BY <1>0, <1>2 DEF Link, Files, Transaction
    <2>3. TxOK'  BY <1>0, <2>2 DEF IInv, TxOK
    <2>4. JournalOK'  BY <1>0, <2>2 DEF IInv, JournalOK
    <2>5. PointerOK'  BY <1>0, <1>2, <2>2 DEF IInv, PointerOK, JournalOK
    <2>6. StagesOK'  BY <1>0, <2>2 DEF IInv, StagesOK, V, D, Completed, Exists, ValidReceipt
    <2>7. RootOK'  BY <1>0, <2>2 DEF IInv, RootOK, Bound, V, D
    <2> QED BY <2>1, <2>3, <2>4, <2>5, <2>6, <2>7 DEF IInv
  <1> QED BY <1>1, <1>2

\* The pointer is durable before ACTIVE is written.
LEMMA SyncFilesStep == ASSUME IInv, SyncFiles PROVE IInv'
  <1>0. /\ durable \in Disk /\ tx \in Transaction /\ tx.pc = "linked" /\ tx.state = "ACTIVATING"
        /\ tx.stage \in Stages
    BY DEF IInv, Typed, TxOK, SyncFiles
  <1>1. Typed'  BY <1>0, Parts, TxWrite, DiskNamed, Values DEF IInv, Typed, SyncFiles, bounds
  <1>2. /\ tx'.pc = "write" /\ tx'.state = tx.state /\ tx'.stage = tx.stage
        /\ tx'.next = [state |-> "ACTIVE", stage |-> tx.stage]
        /\ durable'.debian = visible.debian /\ durable'.journal = durable.journal
        /\ durable'.stages = durable.stages
        /\ UNCHANGED <<visible, foreign>>
    BY <1>0 DEF SyncFiles, Write, bounds, Disk, Transaction
  <1>3. TxOK'  BY <1>0, <1>2 DEF IInv, TxOK
  <1>4. JournalOK'  BY <1>0, <1>2 DEF IInv, JournalOK
  <1>5. PointerOK'  BY <1>0, <1>2 DEF IInv, PointerOK, JournalOK
  <1>6. StagesOK'  BY <1>0, <1>2 DEF IInv, StagesOK, V, D, Completed, Exists, ValidReceipt
  <1>7. RootOK'  BY <1>0, <1>2 DEF IInv, RootOK, Bound, V, D
  <1> QED BY <1>1, <1>3, <1>4, <1>5, <1>6, <1>7 DEF IInv

\* Somebody else installs a root or removes the pointer.
LEMMA MeddleStep == ASSUME IInv, Meddle PROVE IInv'
  <1>0. visible \in Files /\ durable \in Disk /\ foreign \in Nat  BY DEF IInv, Typed
  <1> DEFINE d == IF visible.debian = None THEN Foreign ELSE None
  <1>d. d \in {None, Foreign}  OBVIOUS
  <1>a. /\ visible' = [visible EXCEPT !.debian = d] /\ durable' = [durable EXCEPT !.debian = d]
        /\ tx' = tx /\ foreign' = foreign + 1
    BY DEF Meddle
  <1> HIDE DEF d
  <1>1. Typed'
    <2>1. d \in Stages \cup {None, Foreign}  BY <1>d
    <2>2. visible' \in Files /\ durable' \in Disk  BY <1>0, <1>a, <2>1, FilesNamed, DiskNamed
    <2>3. foreign' \in Nat  BY <1>0, <1>a
    <2> QED BY <1>a, <2>2, <2>3 DEF IInv, Typed
  <1>2. /\ visible'.debian = d /\ visible'.journal = visible.journal /\ visible'.stages = visible.stages
        /\ durable'.debian = d /\ durable'.journal = durable.journal /\ durable'.stages = durable.stages
        /\ foreign' # 0
    BY <1>0, <1>a DEF Files, Disk
  <1>3. TxOK'  BY <1>a DEF IInv, TxOK
  <1>4. JournalOK'  BY <1>a, <1>2 DEF IInv, JournalOK
  <1>5. PointerOK'  BY <1>2, <1>d DEF PointerOK
  <1>6. StagesOK'  BY <1>a, <1>2 DEF IInv, StagesOK, V, D, Completed, Exists, ValidReceipt
  <1>7. RootOK'  BY <1>a, <1>2, <1>d DEF IInv, RootOK, Bound, V, D
  <1> QED BY <1>1, <1>3, <1>4, <1>5, <1>6, <1>7 DEF IInv

\* A step of the extractor changes its own stage only.
LEMMA BuildStep ==
  ASSUME IInv, Typed', tx.pc \in Building,
         NEW p \in Building \cup {"adopt"}, tx' = [tx EXCEPT !.pc = p],
         visible'.journal = visible.journal, visible'.debian = visible.debian,
         durable'.journal = durable.journal, durable'.debian = durable.debian, foreign' = foreign,
         \A s \in Stages : s # tx.work =>
             /\ visible'.stages[s] = visible.stages[s]
             /\ durable'.stages[s] = durable.stages[s],
         visible'.stages[tx.work].dir, p # "archive" => durable'.stages[tx.work].dir,
         StageOK(visible'.stages[tx.work], durable'.stages[tx.work]),
         p \in {"force", "sync"} => visible'.stages[tx.work].receipt = "valid"
  PROVE  IInv'
  <1>1. /\ tx'.pc = p /\ tx'.state = tx.state /\ tx'.stage = tx.stage /\ tx'.next = tx.next
        /\ tx'.work = tx.work
    BY DEF IInv, Typed, Transaction
  <1>2. tx.state = "PREPARING" /\ tx.work \in Stages /\ visible.debian \notin Stages
    BY DEF IInv, TxOK, JournalOK, PointerOK
  <1>3. TxOK'  BY <1>1, <1>2 DEF IInv, TxOK
  <1>4. JournalOK'  BY <1>1 DEF IInv, JournalOK
  <1>5. PointerOK'  BY <1>1, <1>2 DEF IInv, PointerOK
  <1>6. StagesOK'
    <2>1. \A s \in Stages : StageOK(V(s), D(s))'  BY <1>2 DEF IInv, StagesOK, V, D
    <2>2. \A s \in Stages : Exists(s)' => s = tx.work  BY <1>2 DEF IInv, StagesOK, Exists
    <2>3. \A s, t \in Completed' : s = t  BY <2>2 DEF Completed
    <2> QED BY <1>1, <1>2, <2>1, <2>2, <2>3 DEF StagesOK, V, D, Exists
  <1>7. RootOK'  BY <1>1, <1>2 DEF IInv, RootOK
  <1> QED BY <1>3, <1>4, <1>5, <1>6, <1>7 DEF IInv

\* The entry of the stage is durable before its archive is.
LEMMA CopyArchiveStep == ASSUME IInv, CopyArchive PROVE IInv'
  <1>0. /\ visible \in Files /\ durable \in Disk /\ tx \in Transaction
        /\ tx.pc \in Building /\ tx.work \in Stages /\ Exists(tx.work)
        /\ StageOK(V(tx.work), D(tx.work))
        /\ tx.pc # "archive" => durable.stages[tx.work].dir
        /\ tx.pc \in {"force", "sync"} => visible.stages[tx.work].receipt = "valid"
    BY DEF IInv, Typed, TxOK, StagesOK, V, D, CopyArchive
  <1>p. tx.pc = "archive"  BY DEF CopyArchive
  <1>1. Typed'
    BY <1>0, TxMove, FilesField, DiskField, Values DEF IInv, Typed, CopyArchive, bounds
  <1>2. tx' = [tx EXCEPT !.pc = "extract"] /\ foreign' = foreign  BY DEF CopyArchive, bounds
  <1>3. /\ visible'.journal = visible.journal /\ visible'.debian = visible.debian
        /\ durable'.journal = durable.journal /\ durable'.debian = durable.debian
    BY <1>0 DEF CopyArchive, Files, Disk
  <1>4. /\ visible'.stages = [visible.stages EXCEPT ![tx.work].archive = TRUE]
        /\ durable'.stages = [durable.stages EXCEPT ![tx.work].dir = TRUE, ![tx.work].archive = TRUE]
    BY <1>0 DEF CopyArchive, Files, Disk
  <1>5. \A s \in Stages : s # tx.work =>
            /\ visible'.stages[s] = visible.stages[s]
            /\ durable'.stages[s] = durable.stages[s]
    BY <1>0, <1>4 DEF Files, Disk
  <1>6. /\ visible'.stages[tx.work].dir = visible.stages[tx.work].dir
        /\ visible'.stages[tx.work].archive = TRUE
        /\ visible'.stages[tx.work].root = visible.stages[tx.work].root
        /\ visible'.stages[tx.work].receipt = visible.stages[tx.work].receipt
        /\ durable'.stages[tx.work].dir = TRUE
        /\ durable'.stages[tx.work].archive = TRUE
        /\ durable'.stages[tx.work].entry = durable.stages[tx.work].entry
        /\ durable'.stages[tx.work].root = durable.stages[tx.work].root
        /\ durable'.stages[tx.work].receipt = durable.stages[tx.work].receipt
    BY <1>0, <1>4 DEF Files, Disk, VisibleStage, DurableStage
  <1>7. StageOK(visible'.stages[tx.work], durable'.stages[tx.work])
    BY <1>0, <1>p, <1>6 DEF StageOK, V, D, Exists, NoStage, NoDurable
  <1> QED BY <1>0, <1>p, <1>1, <1>2, <1>3, <1>5, <1>6, <1>7, BuildStep DEF Exists

\* Some members are extracted.
LEMMA ExtractSomeStep == ASSUME IInv, ExtractSome PROVE IInv'
  <1>0. /\ visible \in Files /\ durable \in Disk /\ tx \in Transaction
        /\ tx.pc \in Building /\ tx.work \in Stages /\ Exists(tx.work)
        /\ StageOK(V(tx.work), D(tx.work))
        /\ tx.pc # "archive" => durable.stages[tx.work].dir
        /\ tx.pc \in {"force", "sync"} => visible.stages[tx.work].receipt = "valid"
    BY DEF IInv, Typed, TxOK, StagesOK, V, D, ExtractSome
  <1>p. tx.pc = "extract"  BY DEF ExtractSome
  <1>1. Typed'
    BY <1>0, TxMove, FilesField, Values DEF IInv, Typed, ExtractSome, bounds
  <1>2. tx' = [tx EXCEPT !.pc = "extracted"] /\ foreign' = foreign  BY DEF ExtractSome, bounds
  <1>3. /\ visible'.journal = visible.journal /\ visible'.debian = visible.debian
        /\ durable'.journal = durable.journal /\ durable'.debian = durable.debian
    BY <1>0 DEF ExtractSome, Files, Disk
  <1>4. /\ visible'.stages = [visible.stages EXCEPT ![tx.work].root = "partial"]
        /\ durable'.stages = durable.stages
    BY <1>0 DEF ExtractSome, Files, Disk
  <1>5. \A s \in Stages : s # tx.work =>
            /\ visible'.stages[s] = visible.stages[s]
            /\ durable'.stages[s] = durable.stages[s]
    BY <1>0, <1>4 DEF Files, Disk
  <1>6. /\ visible'.stages[tx.work].dir = visible.stages[tx.work].dir
        /\ visible'.stages[tx.work].archive = visible.stages[tx.work].archive
        /\ visible'.stages[tx.work].root = "partial"
        /\ visible'.stages[tx.work].receipt = visible.stages[tx.work].receipt
        /\ durable'.stages[tx.work].dir = durable.stages[tx.work].dir
        /\ durable'.stages[tx.work].archive = durable.stages[tx.work].archive
        /\ durable'.stages[tx.work].entry = durable.stages[tx.work].entry
        /\ durable'.stages[tx.work].root = durable.stages[tx.work].root
        /\ durable'.stages[tx.work].receipt = durable.stages[tx.work].receipt
    BY <1>0, <1>4 DEF Files, Disk, VisibleStage, DurableStage
  <1>7. StageOK(visible'.stages[tx.work], durable'.stages[tx.work])
    BY <1>0, <1>p, <1>6 DEF StageOK, V, D, Exists, NoStage, NoDurable
  <1> QED BY <1>0, <1>p, <1>1, <1>2, <1>3, <1>5, <1>6, <1>7, BuildStep DEF Exists

\* All of them are, and forced.
LEMMA ExtractAllStep == ASSUME IInv, ExtractAll PROVE IInv'
  <1>0. /\ visible \in Files /\ durable \in Disk /\ tx \in Transaction
        /\ tx.pc \in Building /\ tx.work \in Stages /\ Exists(tx.work)
        /\ StageOK(V(tx.work), D(tx.work))
        /\ tx.pc # "archive" => durable.stages[tx.work].dir
        /\ tx.pc \in {"force", "sync"} => visible.stages[tx.work].receipt = "valid"
    BY DEF IInv, Typed, TxOK, StagesOK, V, D, ExtractAll
  <1>p. tx.pc = "extracted"  BY DEF ExtractAll
  <1>1. Typed'
    BY <1>0, TxMove, FilesField, DiskField, Values DEF IInv, Typed, ExtractAll, bounds
  <1>2. tx' = [tx EXCEPT !.pc = "receipt"] /\ foreign' = foreign  BY DEF ExtractAll, bounds
  <1>3. /\ visible'.journal = visible.journal /\ visible'.debian = visible.debian
        /\ durable'.journal = durable.journal /\ durable'.debian = durable.debian
    BY <1>0 DEF ExtractAll, Files, Disk
  <1>4. /\ visible'.stages = [visible.stages EXCEPT ![tx.work].root = "complete"]
        /\ durable'.stages = [durable.stages EXCEPT ![tx.work].root = "complete"]
    BY <1>0 DEF ExtractAll, Files, Disk
  <1>5. \A s \in Stages : s # tx.work =>
            /\ visible'.stages[s] = visible.stages[s]
            /\ durable'.stages[s] = durable.stages[s]
    BY <1>0, <1>4 DEF Files, Disk
  <1>6. /\ visible'.stages[tx.work].dir = visible.stages[tx.work].dir
        /\ visible'.stages[tx.work].archive = visible.stages[tx.work].archive
        /\ visible'.stages[tx.work].root = "complete"
        /\ visible'.stages[tx.work].receipt = visible.stages[tx.work].receipt
        /\ durable'.stages[tx.work].dir = durable.stages[tx.work].dir
        /\ durable'.stages[tx.work].archive = durable.stages[tx.work].archive
        /\ durable'.stages[tx.work].entry = durable.stages[tx.work].entry
        /\ durable'.stages[tx.work].root = "complete"
        /\ durable'.stages[tx.work].receipt = durable.stages[tx.work].receipt
    BY <1>0, <1>4 DEF Files, Disk, VisibleStage, DurableStage
  <1>7. StageOK(visible'.stages[tx.work], durable'.stages[tx.work])
    BY <1>0, <1>p, <1>6 DEF StageOK, V, D, Exists, NoStage, NoDurable
  <1> QED BY <1>0, <1>p, <1>1, <1>2, <1>3, <1>5, <1>6, <1>7, BuildStep DEF Exists

\* The receipt is written,
LEMMA WriteReceiptStep == ASSUME IInv, WriteReceipt PROVE IInv'
  <1>0. /\ visible \in Files /\ durable \in Disk /\ tx \in Transaction
        /\ tx.pc \in Building /\ tx.work \in Stages /\ Exists(tx.work)
        /\ StageOK(V(tx.work), D(tx.work))
        /\ tx.pc # "archive" => durable.stages[tx.work].dir
        /\ tx.pc \in {"force", "sync"} => visible.stages[tx.work].receipt = "valid"
    BY DEF IInv, Typed, TxOK, StagesOK, V, D, WriteReceipt
  <1>p. tx.pc = "receipt"  BY DEF WriteReceipt
  <1>1. Typed'
    BY <1>0, TxMove, FilesField, Values DEF IInv, Typed, WriteReceipt, bounds
  <1>2. tx' = [tx EXCEPT !.pc = "force"] /\ foreign' = foreign  BY DEF WriteReceipt, bounds
  <1>3. /\ visible'.journal = visible.journal /\ visible'.debian = visible.debian
        /\ durable'.journal = durable.journal /\ durable'.debian = durable.debian
    BY <1>0 DEF WriteReceipt, Files, Disk
  <1>4. /\ visible'.stages = [visible.stages EXCEPT ![tx.work].receipt = "valid"]
        /\ durable'.stages = durable.stages
    BY <1>0 DEF WriteReceipt, Files, Disk
  <1>5. \A s \in Stages : s # tx.work =>
            /\ visible'.stages[s] = visible.stages[s]
            /\ durable'.stages[s] = durable.stages[s]
    BY <1>0, <1>4 DEF Files, Disk
  <1>6. /\ visible'.stages[tx.work].dir = visible.stages[tx.work].dir
        /\ visible'.stages[tx.work].archive = visible.stages[tx.work].archive
        /\ visible'.stages[tx.work].root = visible.stages[tx.work].root
        /\ visible'.stages[tx.work].receipt = "valid"
        /\ durable'.stages[tx.work].dir = durable.stages[tx.work].dir
        /\ durable'.stages[tx.work].archive = durable.stages[tx.work].archive
        /\ durable'.stages[tx.work].entry = durable.stages[tx.work].entry
        /\ durable'.stages[tx.work].root = durable.stages[tx.work].root
        /\ durable'.stages[tx.work].receipt = durable.stages[tx.work].receipt
    BY <1>0, <1>4 DEF Files, Disk, VisibleStage, DurableStage
  <1>7. StageOK(visible'.stages[tx.work], durable'.stages[tx.work])
    BY <1>0, <1>p, <1>6 DEF StageOK, V, D, Exists, NoStage, NoDurable
  <1> QED BY <1>0, <1>p, <1>1, <1>2, <1>3, <1>5, <1>6, <1>7, BuildStep DEF Exists

\* forced,
LEMMA ForceReceiptStep == ASSUME IInv, ForceReceipt PROVE IInv'
  <1>0. /\ visible \in Files /\ durable \in Disk /\ tx \in Transaction
        /\ tx.pc \in Building /\ tx.work \in Stages /\ Exists(tx.work)
        /\ StageOK(V(tx.work), D(tx.work))
        /\ tx.pc # "archive" => durable.stages[tx.work].dir
        /\ tx.pc \in {"force", "sync"} => visible.stages[tx.work].receipt = "valid"
    BY DEF IInv, Typed, TxOK, StagesOK, V, D, ForceReceipt
  <1>p. tx.pc = "force"  BY DEF ForceReceipt
  <1>1. Typed'
    BY <1>0, TxMove, DiskField, Values DEF IInv, Typed, ForceReceipt, bounds
  <1>2. tx' = [tx EXCEPT !.pc = "sync"] /\ foreign' = foreign  BY DEF ForceReceipt, bounds
  <1>3. /\ visible'.journal = visible.journal /\ visible'.debian = visible.debian
        /\ durable'.journal = durable.journal /\ durable'.debian = durable.debian
    BY <1>0 DEF ForceReceipt, Files, Disk
  <1>4. /\ visible'.stages = visible.stages
        /\ durable'.stages = [durable.stages EXCEPT ![tx.work].receipt = "valid"]
    BY <1>0 DEF ForceReceipt, Files, Disk
  <1>5. \A s \in Stages : s # tx.work =>
            /\ visible'.stages[s] = visible.stages[s]
            /\ durable'.stages[s] = durable.stages[s]
    BY <1>0, <1>4 DEF Files, Disk
  <1>6. /\ visible'.stages[tx.work].dir = visible.stages[tx.work].dir
        /\ visible'.stages[tx.work].archive = visible.stages[tx.work].archive
        /\ visible'.stages[tx.work].root = visible.stages[tx.work].root
        /\ visible'.stages[tx.work].receipt = visible.stages[tx.work].receipt
        /\ durable'.stages[tx.work].dir = durable.stages[tx.work].dir
        /\ durable'.stages[tx.work].archive = durable.stages[tx.work].archive
        /\ durable'.stages[tx.work].entry = durable.stages[tx.work].entry
        /\ durable'.stages[tx.work].root = durable.stages[tx.work].root
        /\ durable'.stages[tx.work].receipt = "valid"
    BY <1>0, <1>4 DEF Files, Disk, VisibleStage, DurableStage
  <1>7. StageOK(visible'.stages[tx.work], durable'.stages[tx.work])
    BY <1>0, <1>p, <1>6 DEF StageOK, V, D, Exists, NoStage, NoDurable
  <1> QED BY <1>0, <1>p, <1>1, <1>2, <1>3, <1>5, <1>6, <1>7, BuildStep DEF Exists

\* and its name synchronised.
LEMMA SyncReceiptStep == ASSUME IInv, SyncReceipt PROVE IInv'
  <1>0. /\ visible \in Files /\ durable \in Disk /\ tx \in Transaction
        /\ tx.pc \in Building /\ tx.work \in Stages /\ Exists(tx.work)
        /\ StageOK(V(tx.work), D(tx.work))
        /\ tx.pc # "archive" => durable.stages[tx.work].dir
        /\ tx.pc \in {"force", "sync"} => visible.stages[tx.work].receipt = "valid"
    BY DEF IInv, Typed, TxOK, StagesOK, V, D, SyncReceipt
  <1>p. tx.pc = "sync"  BY DEF SyncReceipt
  <1>1. Typed'
    <2>1. SyncStage(tx.work) \in DurableStage  BY <1>0, SyncStageType DEF IInv
    <2> QED BY <1>0, <2>1, TxMove, DiskStage, Values DEF IInv, Typed, SyncReceipt, bounds
  <1>2. tx' = [tx EXCEPT !.pc = "adopt"] /\ foreign' = foreign  BY DEF SyncReceipt, bounds
  <1>3. /\ visible'.journal = visible.journal /\ visible'.debian = visible.debian
        /\ durable'.journal = durable.journal /\ durable'.debian = durable.debian
    BY <1>0 DEF SyncReceipt, Files, Disk
  <1>4. /\ visible'.stages = visible.stages
        /\ durable'.stages = [durable.stages EXCEPT ![tx.work] = SyncStage(tx.work)]
    BY <1>0 DEF SyncReceipt, Files, Disk
  <1>5. \A s \in Stages : s # tx.work =>
            /\ visible'.stages[s] = visible.stages[s]
            /\ durable'.stages[s] = durable.stages[s]
    BY <1>0, <1>4 DEF Files, Disk
  <1>6. /\ visible'.stages[tx.work].dir = visible.stages[tx.work].dir
        /\ visible'.stages[tx.work].archive = visible.stages[tx.work].archive
        /\ visible'.stages[tx.work].root = visible.stages[tx.work].root
        /\ visible'.stages[tx.work].receipt = visible.stages[tx.work].receipt
        /\ durable'.stages[tx.work].dir = durable.stages[tx.work].dir
        /\ durable'.stages[tx.work].archive = visible.stages[tx.work].archive
        /\ durable'.stages[tx.work].entry = TRUE
        /\ durable'.stages[tx.work].root = durable.stages[tx.work].root
        /\ durable'.stages[tx.work].receipt = durable.stages[tx.work].receipt
    BY <1>0, <1>4 DEF Files, Disk, VisibleStage, DurableStage, SyncStage
  <1>7. StageOK(visible'.stages[tx.work], durable'.stages[tx.work])
    BY <1>0, <1>p, <1>6 DEF StageOK, V, D, Exists, NoStage, NoDurable
  <1> QED BY <1>0, <1>p, <1>1, <1>2, <1>3, <1>5, <1>6, <1>7, BuildStep DEF Exists

\* Nothing was ever installed.
LEMMA InitStep == Init => IInv
  <1> SUFFICES ASSUME Init PROVE IInv  OBVIOUS
  <1>1. NoJournal \in Journal /\ NoStage \in VisibleStage /\ NoDurable \in DurableStage
    BY DEF NoJournal, Journal, States, NoStage, VisibleStage, NoDurable, DurableStage, Roots, Receipts
  <1>2. Typed  BY <1>1, ClosedType DEF Init, Typed, Files, Disk
  <1>3. TxOK /\ JournalOK /\ PointerOK /\ RootOK
    BY DEF Init, Closed, NoJournal, TxOK, JournalOK, PointerOK, RootOK
  <1>4. StagesOK
    <2>1. \A s \in Stages : V(s) = NoStage /\ D(s) = NoDurable  BY DEF Init, V, D
    <2>2. StageOK(NoStage, NoDurable)  BY DEF StageOK, NoStage, NoDurable
    <2>3. Completed = {}  BY <2>1 DEF Completed, Exists, V, NoStage
    <2> QED BY <2>1, <2>2, <2>3 DEF StagesOK, Init, Closed
  <1> QED BY <1>2, <1>3, <1>4 DEF IInv

\* A stage without a receipt is taken away; nothing else changes.
LEMMA RemoveStep == ASSUME IInv, Remove PROVE IInv'
  <1>0. visible \in Files /\ tx \in Transaction /\ tx.pc = "remove" /\ UNCHANGED <<durable, foreign>>
    BY DEF IInv, Typed, Remove, bounds
  <1>1. PICK w \in Abandoned : visible' = [visible EXCEPT !.stages[w] = NoStage]  BY DEF Remove
  <1>w. w \in Stages /\ Exists(w) /\ ~ValidReceipt(w)  BY DEF Abandoned
  <1>2. tx.state = "PREPARING" /\ visible.debian \notin Stages
    BY <1>0 DEF IInv, TxOK, JournalOK, PointerOK
  <1>3. Typed'  BY <1>0, <1>1, <1>w, TxMove, FilesStage, Values DEF IInv, Typed, Remove
  <1>4. /\ tx'.pc = "removed" /\ tx'.state = tx.state /\ tx'.stage = tx.stage /\ tx'.next = tx.next
        /\ tx'.work = tx.work
        /\ visible'.journal = visible.journal /\ visible'.debian = visible.debian
        /\ visible'.stages[w] = NoStage
        /\ \A s \in Stages : s # w => visible'.stages[s] = visible.stages[s]
    BY <1>0, <1>1, <1>w DEF Remove, Files, Transaction
  <1>5. TxOK'  BY <1>0, <1>4 DEF IInv, TxOK
  <1>6. JournalOK'  BY <1>0, <1>4 DEF IInv, JournalOK
  <1>7. PointerOK'  BY <1>0, <1>2, <1>4 DEF IInv, PointerOK
  <1>8. StagesOK'
    <2>1. StageOK(V(w), D(w))  BY <1>w DEF IInv, StagesOK
    <2>2. StageOK(NoStage, D(w))  BY <1>w, <2>1 DEF StageOK, NoStage, Exists, ValidReceipt, V
    <2>3. \A s \in Stages : StageOK(V(s), D(s))'  BY <1>0, <1>4, <2>2 DEF IInv, StagesOK, V, D
    <2>4. Completed' \subseteq Completed  BY <1>4, <1>w DEF Completed, Exists, ValidReceipt, NoStage
    <2> QED BY <1>0, <1>4, <2>3, <2>4 DEF IInv, StagesOK
  <1>9. RootOK'  BY <1>2, <1>4 DEF IInv, RootOK
  <1> QED BY <1>3, <1>5, <1>6, <1>7, <1>8, <1>9 DEF IInv

\* The removal reaches the disk.
LEMMA RemoveSyncedStep == ASSUME IInv, RemoveSynced PROVE IInv'
  <1>0. durable \in Disk /\ tx \in Transaction /\ tx.pc = "removed" /\ UNCHANGED <<visible, foreign>>
    BY DEF IInv, Typed, RemoveSynced, bounds
  <1>1. Typed'
    <2>1. SyncStages \in [Stages -> DurableStage]  BY SyncStagesType DEF IInv
    <2>2. durable' \in Disk  BY <1>0, <2>1, DiskNamed DEF RemoveSynced
    <2> QED BY <1>0, <2>2, TxMove, Values DEF IInv, Typed, RemoveSynced
  <1>2. tx.state = "PREPARING" /\ visible.debian \notin Stages
    BY <1>0 DEF IInv, TxOK, JournalOK, PointerOK
  <1>3. /\ tx'.pc = "remove" /\ tx'.state = tx.state /\ tx'.stage = tx.stage /\ tx'.next = tx.next
        /\ tx'.work = tx.work
        /\ durable'.journal = durable.journal /\ durable'.debian = durable.debian
        /\ durable'.stages = SyncStages
    BY <1>0 DEF RemoveSynced, Disk, Transaction
  <1>4. TxOK'  BY <1>0, <1>3 DEF IInv, TxOK
  <1>5. JournalOK'  BY <1>0, <1>3 DEF IInv, JournalOK
  <1>6. PointerOK'  BY <1>0, <1>2, <1>3 DEF IInv, PointerOK
  <1>7. StagesOK'
    <2>1. ASSUME NEW s \in Stages PROVE StageOK(visible.stages[s], SyncStages[s])
      <3>1. StageOK(V(s), D(s)) /\ durable.stages[s] \in DurableStage  BY Parts DEF IInv, StagesOK
      <3>2. CASE Exists(s)
        <4>1. /\ SyncStages[s].dir /\ SyncStages[s].root = D(s).root
              /\ SyncStages[s].receipt = D(s).receipt
          BY <3>1, <3>2 DEF SyncStages, DurableStage, D
        <4> QED BY <3>1, <3>2, <4>1 DEF StageOK, V, Exists
      <3>3. CASE ~Exists(s)
        <4>1. SyncStages[s] = NoDurable  BY <3>3 DEF SyncStages
        <4> QED BY <3>1, <3>3, <4>1 DEF StageOK, V, Exists, NoStage, NoDurable
      <3> QED BY <3>2, <3>3
    <2>2. \A s \in Stages : StageOK(V(s), D(s))'  BY <1>0, <1>3, <2>1 DEF V, D
    <2> QED BY <1>0, <1>3, <2>2 DEF IInv, StagesOK, Completed, Exists, ValidReceipt
  <1>8. RootOK'  BY <1>0, <1>2, <1>3 DEF IInv, RootOK
  <1> QED BY <1>1, <1>4, <1>5, <1>6, <1>7, <1>8 DEF IInv

\* The completed stage is adopted, or the first stage there is is created.
LEMMA CreateStageStep == ASSUME IInv, CreateStage PROVE IInv'
  <1>0. /\ visible \in Files /\ tx \in Transaction /\ tx.pc = "remove" /\ Abandoned = {}
        /\ UNCHANGED <<durable, foreign>>
    BY DEF IInv, Typed, CreateStage, bounds
  <1>2. tx.state = "PREPARING" /\ visible.debian \notin Stages /\ tx.work \in Stages \cup {None}
    BY <1>0 DEF IInv, TxOK, JournalOK, PointerOK, Transaction
  <1>3. CASE tx.work # None
    <2>1. tx' = [tx EXCEPT !.pc = "adopt"] /\ visible' = visible  BY <1>3 DEF CreateStage
    <2>2. Typed'  BY <1>0, <2>1, TxMove, Values DEF IInv, Typed
    <2>3. /\ tx'.pc = "adopt" /\ tx'.state = tx.state /\ tx'.stage = tx.stage /\ tx'.next = tx.next
          /\ tx'.work = tx.work
      BY <1>0, <2>1 DEF Transaction
    <2>4. TxOK'  BY <1>0, <1>2, <1>3, <2>3 DEF IInv, TxOK
    <2>5. JournalOK'  BY <1>0, <2>1, <2>3 DEF IInv, JournalOK
    <2>6. PointerOK'  BY <1>0, <2>1, <2>3 DEF IInv, PointerOK
    <2>7. StagesOK'  BY <1>0, <2>1, <2>3 DEF IInv, StagesOK, V, D, Completed, Exists, ValidReceipt
    <2>8. RootOK'  BY <1>2, <2>1, <2>3 DEF IInv, RootOK
    <2> QED BY <2>2, <2>4, <2>5, <2>6, <2>7, <2>8 DEF IInv
  <1>4. CASE tx.work = None
    <2>1. PICK w \in Stages : /\ ~Exists(w) /\ ~durable.stages[w].dir
                              /\ visible' = [visible EXCEPT !.stages[w].dir = TRUE]
                              /\ tx' = [tx EXCEPT !.pc = "archive", !.work = w]
      BY <1>4 DEF CreateStage
    <2>2. Typed'
      <3>1. "archive" \in Pcs /\ w \in Stages \cup {None}  BY Values
      <3>2. tx' \in Transaction  BY <1>0, <2>1, <3>1, TxWork
      <3>3. visible' \in Files  BY <1>0, <2>1, FilesField
      <3> QED BY <1>0, <3>2, <3>3 DEF IInv, Typed
    <2>3. /\ tx'.pc = "archive" /\ tx'.state = tx.state /\ tx'.stage = tx.stage
          /\ tx'.next = tx.next /\ tx'.work = w
          /\ visible'.journal = visible.journal /\ visible'.debian = visible.debian
          /\ visible'.stages = [visible.stages EXCEPT ![w].dir = TRUE]
          /\ visible.stages \in [Stages -> VisibleStage]
      BY <1>0, <2>1 DEF Transaction, Files
    <2>4. TxOK'  BY <1>0, <1>2, <2>3 DEF IInv, TxOK
    <2>5. JournalOK'  BY <1>0, <2>3 DEF IInv, JournalOK
    <2>6. PointerOK'  BY <1>0, <1>2, <2>3 DEF IInv, PointerOK
    <2>7. StagesOK'
      <3>1. \A s \in Stages : ~Exists(s)
        <4>1. Completed = {}  BY <1>0, <1>4 DEF IInv, StagesOK
        <4> QED BY <1>0, <4>1 DEF Abandoned, Completed
      <3>2. \A s \in Stages : s # w => visible'.stages[s] = visible.stages[s]  BY <2>3
      <3>3. /\ visible'.stages[w].dir /\ visible'.stages[w].archive = V(w).archive
            /\ visible'.stages[w].root = V(w).root /\ visible'.stages[w].receipt = V(w).receipt
        BY <2>3 DEF VisibleStage, V
      <3>4. StageOK(V(w), D(w)) /\ V(w) = NoStage /\ D(w) = NoDurable
        BY <2>1, <3>1 DEF IInv, StagesOK, StageOK, V, D, Exists
      <3>5. StageOK(visible'.stages[w], D(w))  BY <3>3, <3>4 DEF StageOK, NoStage, NoDurable
      <3>6. \A s \in Stages : StageOK(V(s), D(s))'  BY <1>0, <3>2, <3>5 DEF IInv, StagesOK, V, D
      <3>7. \A s \in Stages : Exists(s)' => s = w  BY <3>1, <3>2 DEF Exists
      <3>8. \A s, t \in Completed' : s = t  BY <3>7 DEF Completed
      <3> QED BY <2>3, <3>3, <3>6, <3>7, <3>8 DEF StagesOK, Exists
    <2>8. RootOK'  BY <1>2, <2>3 DEF IInv, RootOK
    <2> QED BY <2>2, <2>4, <2>5, <2>6, <2>7, <2>8 DEF IInv
  <1> QED BY <1>3, <1>4

\* The archive of the published stage goes; its root and its receipt stay.
LEMMA RemoveCacheStep == ASSUME IInv, RemoveCache PROVE IInv'
  <1> DEFINE w == tx.stage
  <1>0. /\ visible \in Files /\ durable \in Disk /\ tx \in Transaction /\ tx.pc = "cache"
        /\ foreign' = foreign
        /\ tx.state = "ACTIVE" /\ w \in Stages /\ tx' = [tx EXCEPT !.pc = "idle"]
    BY DEF IInv, Typed, TxOK, RemoveCache, bounds
  <1>1. /\ tx'.pc = "idle" /\ tx'.state = tx.state /\ tx'.stage = tx.stage /\ tx'.next = tx.next
    BY <1>0 DEF Transaction
  <1>2. tx' \in Transaction  BY <1>0, TxMove, Values
  <1>3. TxOK'  BY <1>0, <1>1 DEF IInv, TxOK
  <1>4. CASE ~visible.stages[w].archive
    <2>1. UNCHANGED <<visible, durable>>  BY <1>4 DEF RemoveCache
    <2>2. Typed'  BY <1>0, <1>2, <2>1 DEF IInv, Typed
    <2>3. JournalOK'  BY <1>0, <1>1, <2>1 DEF IInv, JournalOK
    <2>4. PointerOK'  BY <1>0, <1>1, <2>1 DEF IInv, PointerOK
    <2>5. StagesOK'  BY <1>1, <2>1 DEF IInv, StagesOK, V, D, Completed, Exists, ValidReceipt
    <2>6. RootOK'  BY <1>1, <2>1 DEF IInv, RootOK, Bound, V, D
    <2> QED BY <1>3, <2>2, <2>3, <2>4, <2>5, <2>6 DEF IInv
  <1>5. CASE visible.stages[w].archive
    <2>1. /\ visible' = [visible EXCEPT !.stages[w].archive = FALSE]
          /\ durable' = [durable EXCEPT !.stages[w] = [SyncStage(w) EXCEPT !.archive = FALSE]]
      BY <1>5 DEF RemoveCache
    <2>2. Typed'
      <3>1. visible' \in Files  BY <1>0, <2>1, FilesField
      <3>2. [SyncStage(w) EXCEPT !.archive = FALSE] \in DurableStage  BY <1>0, SyncStageType DEF IInv
      <3>3. durable' \in Disk  BY <1>0, <2>1, <3>2, DiskStage
      <3> QED BY <1>0, <1>2, <3>1, <3>3 DEF IInv, Typed
    <2>3. /\ visible'.journal = visible.journal /\ visible'.debian = visible.debian
          /\ durable'.journal = durable.journal /\ durable'.debian = durable.debian
      BY <1>0, <2>1 DEF Files, Disk
    <2>4. /\ \A s \in Stages : s # w =>
                 /\ visible'.stages[s] = visible.stages[s]
                 /\ durable'.stages[s] = durable.stages[s]
          /\ visible'.stages[w].dir = V(w).dir /\ ~visible'.stages[w].archive
          /\ visible'.stages[w].root = V(w).root /\ visible'.stages[w].receipt = V(w).receipt
      BY <1>0, <2>1 DEF Files, Disk, VisibleStage, V
    <2>5. /\ durable'.stages[w].dir = D(w).dir
          /\ durable'.stages[w].root = D(w).root /\ durable'.stages[w].receipt = D(w).receipt
      BY <1>0, <2>1 DEF Files, Disk, DurableStage, SyncStage, D
    <2>6. JournalOK'  BY <1>0, <1>1, <2>3 DEF IInv, JournalOK
    <2>7. PointerOK'  BY <1>0, <1>1, <2>3 DEF IInv, PointerOK
    <2>8. StagesOK'
      <3>1. StageOK(V(w), D(w))  BY <1>0 DEF IInv, StagesOK
      <3>2. V(w).dir /\ D(w).dir  BY <1>5, <3>1 DEF StageOK, V, NoStage
      <3>3. StageOK(visible'.stages[w], durable'.stages[w])  BY <2>4, <2>5, <3>1, <3>2 DEF StageOK
      <3>4. \A s \in Stages : StageOK(V(s), D(s))'  BY <2>4, <3>3 DEF IInv, StagesOK, V, D
      <3>5. Completed' = Completed  BY <2>4 DEF Completed, Exists, ValidReceipt, V
      <3> QED BY <1>1, <3>4, <3>5 DEF IInv, StagesOK
    <2>9. RootOK'  BY <1>1, <2>3, <2>4, <2>5 DEF IInv, RootOK, Bound, V, D
    <2> QED BY <1>3, <2>2, <2>6, <2>7, <2>8, <2>9 DEF IInv
  <1> QED BY <1>4, <1>5

\* The prepared root is provisioned before any pointer leads to it.
LEMMA ProvisionStep == ASSUME IInv, Provision PROVE IInv'
  <1> DEFINE w == tx.stage
  <1>0. /\ visible \in Files /\ tx.pc = "idle" /\ tx.state = "PREPARED"
        /\ UNCHANGED <<durable, tx, foreign>>
        /\ w \in Stages /\ Exists(w) /\ ValidReceipt(w)
        /\ visible' = [visible EXCEPT !.stages[w].root = "ready"]
    BY DEF IInv, Typed, Provision, VerifyPrepared, bounds
  <1>1. Typed'  BY <1>0, FilesField, Values DEF IInv, Typed
  <1>2. /\ visible'.journal = visible.journal /\ visible'.debian = visible.debian
        /\ \A s \in Stages : s # w => visible'.stages[s] = visible.stages[s]
        /\ visible'.stages[w].dir = V(w).dir /\ visible'.stages[w].archive = V(w).archive
        /\ visible'.stages[w].root = "ready" /\ visible'.stages[w].receipt = V(w).receipt
    BY <1>0 DEF Files, VisibleStage, V
  <1>3. visible.debian \notin Stages  BY <1>0 DEF IInv, JournalOK, PointerOK
  <1>4. TxOK'  BY <1>0 DEF IInv, TxOK
  <1>5. JournalOK'  BY <1>0, <1>2 DEF IInv, JournalOK
  <1>6. PointerOK'  BY <1>0, <1>2 DEF IInv, PointerOK
  <1>7. StagesOK'
    <2>1. StageOK(V(w), D(w))  BY <1>0 DEF IInv, StagesOK
    <2>2. StageOK(visible'.stages[w], D(w))
      BY <1>0, <1>2, <2>1 DEF StageOK, Exists, ValidReceipt, V
    <2>3. \A s \in Stages : StageOK(V(s), D(s))'  BY <1>0, <1>2, <2>2 DEF IInv, StagesOK, V, D
    <2>4. Completed' = Completed  BY <1>0, <1>2 DEF Completed, Exists, ValidReceipt, V
    <2> QED BY <1>0, <2>3, <2>4 DEF IInv, StagesOK
  <1>8. RootOK'  BY <1>0, <1>2, <1>3 DEF IInv, RootOK
  <1> QED BY <1>1, <1>4, <1>5, <1>6, <1>7, <1>8 DEF IInv

\* The power goes: every name and every unforced content is the old one or the new.
LEMMA PowerLossStep == ASSUME IInv, PowerLoss PROVE IInv'
  <1>0. visible \in Files /\ durable \in Disk /\ tx' = Closed /\ foreign' = foreign
    BY DEF IInv, Typed, PowerLoss
  <1>1. PICK debian \in {visible.debian, durable.debian}, journal \in {visible.journal, durable.journal},
             f \in [Stages -> UNION {Remains(s) : s \in Stages}] :
               /\ \A s \in Stages : f[s] \in Remains(s)
               /\ visible' = [debian |-> debian, journal |-> journal, stages |-> f]
               /\ durable' = [debian |-> debian, journal |-> journal, stages |-> [s \in Stages |-> OnDisk(f[s])]]
    BY DEF PowerLoss
  <1>2. Typed'
    <2>1. f \in [Stages -> VisibleStage] /\ [s \in Stages |-> OnDisk(f[s])] \in [Stages -> DurableStage]
      BY <1>1, RemainsType
    <2>2. debian \in Stages \cup {None, Foreign} /\ journal \in Journal  BY <1>0 DEF Files, Disk
    <2> QED BY <1>0, <1>1, <2>1, <2>2, ClosedType DEF IInv, Typed, Files, Disk
  <1>3. tx'.pc = "closed" /\ tx'.state = None /\ tx'.stage = None /\ tx'.next = NoJournal
    BY <1>0 DEF Closed
  <1>4. /\ visible'.debian = debian /\ durable'.debian = debian /\ visible'.journal = journal
        /\ durable'.journal = journal
        /\ \A s \in Stages : visible'.stages[s] = f[s] /\ durable'.stages[s] = OnDisk(f[s])
    BY <1>1
  <1>5. TxOK'  BY <1>3 DEF TxOK, NoJournal
  <1>6. JournalOK'  BY <1>3, <1>4 DEF IInv, JournalOK
  <1>d. debian \in Stages => debian = visible.debian  BY DEF IInv, PointerOK
  <1>7. PointerOK'
    <2>1. debian \in Stages => journal.state \in Linking /\ journal.stage = debian
      BY <1>d DEF IInv, PointerOK
    <2>2. ASSUME foreign = 0, journal.state = "ACTIVE" PROVE debian = journal.stage
      <3>1. journal = visible.journal  BY <2>2 DEF IInv, JournalOK
      <3>2. durable.debian = journal.stage /\ journal.stage \in Stages
        BY <2>2, <3>1 DEF IInv, PointerOK, JournalOK
      <3> QED BY <3>2 DEF IInv, PointerOK
    <2> QED BY <1>0, <1>3, <1>4, <2>1, <2>2 DEF PointerOK
  <1>8. ASSUME NEW s \in Stages
        PROVE  /\ StageOK(f[s], OnDisk(f[s]))
               /\ f[s].dir /\ f[s].receipt = "valid" /\ f[s].root # None => s \in Completed
               /\ f[s].root \in {V(s).root, D(s).root, None} /\ OnDisk(f[s]).root = f[s].root
    <2>1. /\ f[s] \in VisibleStage /\ f[s].dir \in {V(s).dir, D(s).dir} /\ (~f[s].dir => f[s] = NoStage)
          /\ f[s].dir => /\ f[s].root \in {V(s).root, D(s).root, None}
                         /\ f[s].receipt \in {V(s).receipt, D(s).receipt, "bad", None}
      BY <1>1, <1>8 DEF Remains, V, D
    <2>2. StageOK(V(s), D(s))  BY <1>8 DEF IInv, StagesOK
    <2>3. StageOK(f[s], OnDisk(f[s]))
      <3>1. CASE f[s].dir  BY <3>1 DEF StageOK, OnDisk
      <3>2. CASE ~f[s].dir
        <4>1. f[s] = NoStage  BY <2>1, <3>2
        <4>2. OnDisk(NoStage) = NoDurable  BY DEF OnDisk, NoStage, NoDurable
        <4>3. StageOK(NoStage, NoDurable)  BY DEF StageOK, NoStage, NoDurable
        <4> QED BY <4>1, <4>2, <4>3
      <3> QED BY <3>1, <3>2
    <2>4. f[s].dir /\ f[s].receipt = "valid" /\ f[s].root # None => s \in Completed
      BY <1>8, <2>1, <2>2 DEF StageOK, NoStage, V, Completed, Exists, ValidReceipt
    <2>5. f[s].root \in {V(s).root, D(s).root, None}  BY <2>1 DEF NoStage
    <2> QED BY <2>3, <2>4, <2>5 DEF OnDisk
  <1>9. StagesOK'
    <2>1. \A s \in Stages : StageOK(V(s), D(s))'  BY <1>4, <1>8 DEF V, D
    <2>2. Completed' \subseteq Completed  BY <1>4, <1>8 DEF Completed, Exists, ValidReceipt
    <2> QED BY <1>3, <2>1, <2>2 DEF IInv, StagesOK
  <1>10. RootOK'
    <2>1. ASSUME debian \in Stages PROVE {f[debian].root, OnDisk(f[debian]).root} \subseteq Settled
      BY <1>d, <1>8, <2>1 DEF IInv, RootOK, Bound, Settled
    <2> QED BY <1>3, <1>4, <2>1 DEF RootOK, Bound, V, D
  <1> QED BY <1>2, <1>5, <1>6, <1>7, <1>9, <1>10 DEF IInv

\* Every step of the specification keeps the invariant.
LEMMA NextStep == ASSUME IInv, [Next]_vars PROVE IInv'
  <1>1. CASE UNCHANGED vars
    <2>1. UNCHANGED <<visible, durable, tx, foreign>>  BY <1>1 DEF vars
    <2>2. Typed' /\ TxOK' /\ JournalOK' /\ PointerOK'
      BY <2>1 DEF IInv, Typed, TxOK, JournalOK, PointerOK
    <2>3. StagesOK'  BY <2>1 DEF IInv, StagesOK, V, D, Completed, Exists, ValidReceipt
    <2>4. RootOK'  BY <2>1 DEF IInv, RootOK, Bound, V, D
    <2> QED BY <2>2, <2>3, <2>4 DEF IInv
  <1>2. CASE Step
    BY <1>2, OpenStep, RecoverStep, RenameStep, FlushStep, ScanStep, RemoveStep, RemoveSyncedStep,
       CreateStageStep, CopyArchiveStep, ExtractSomeStep, ExtractAllStep, WriteReceiptStep, ForceReceiptStep,
       SyncReceiptStep, AdoptStep, SyncTreeStep, LinkStep, SyncFilesStep, RemoveCacheStep
    DEF Step
  <1>3. CASE Prepare \/ Provision \/ Activate \/ Kill \/ PowerLoss \/ Meddle
    BY <1>3, PrepareStep, ProvisionStep, ActivateStep, KillStep, PowerLossStep, MeddleStep
  <1> QED BY <1>1, <1>2, <1>3 DEF Next

\* IInv holds in every state of the installation.
THEOREM Invariance == Spec => []IInv
  <1>1. Init => IInv  BY InitStep
  <1>2. IInv /\ [Next]_vars => IInv'  BY NextStep
  <1> QED BY <1>1, <1>2, PTL DEF Spec

\* After any interleaving of deaths, losses of power and meddling, what files/debian leads to
\* is explained by the durable journal and provisioned, ACTIVE stands for a durable pointer, and
\* prepare() never finds two completed stages.
THEOREM SoundPublication == Spec => []PublicationIsSound
  <1>1. ASSUME IInv PROVE PublicationIsSound
    <2>1. TypeOK  BY <1>1 DEF IInv, Typed, JournalOK, TypeOK, Files, Disk, Transaction
    <2>2. PointerIsExplained  BY <1>1 DEF IInv, PointerOK, PointerIsExplained
    <2>3. PublishedIsForced
      BY <1>1 DEF IInv, PointerOK, RootOK, Bound, Settled, V, D, PublishedIsForced
    <2>4. ActiveIsPublished  BY <1>1 DEF IInv, PointerOK, ActiveIsPublished
    <2>5. OneCompletedStage
      <3>1. CASE Completed = {}  BY <3>1, FS_EmptySet DEF OneCompletedStage
      <3>2. CASE Completed # {}
        <4>1. PICK s \in Completed : TRUE  BY <3>2
        <4>2. Completed = {s}  BY <1>1, <4>1 DEF IInv, StagesOK
        <4>3. Cardinality({s}) = 1  BY FS_Singleton
        <4> QED BY <4>2, <4>3 DEF OneCompletedStage
      <3> QED BY <3>1, <3>2
    <2> QED BY <2>1, <2>2, <2>3, <2>4, <2>5 DEF PublicationIsSound
  <1> QED BY <1>1, Invariance, PTL

\* createSymbolicLink() never replaces somebody else's Linux, whenever it appears.
THEOREM PreservedForeign == Spec => ForeignIsPreserved
  <1>1. ASSUME IInv, [Next]_vars, visible.debian = Foreign PROVE visible'.debian = Foreign
    <2>0. visible \in Files /\ durable.debian = Foreign  BY <1>1 DEF IInv, Typed, PointerOK
    <2>1. CASE UNCHANGED visible  BY <1>1, <2>1
    <2>2. CASE PowerLoss  BY <1>1, <2>0, <2>2 DEF PowerLoss
    <2>3. CASE ~UNCHANGED visible /\ ~PowerLoss
      <3>1. \/ Rename \/ Remove \/ CreateStage \/ CopyArchive \/ ExtractSome \/ ExtractAll \/ WriteReceipt
            \/ RemoveCache \/ Provision
        BY <1>1, <2>3
        DEF vars, Next, Step, Open, Recover, Flush, Scan, RemoveSynced, ForceReceipt, SyncReceipt, Adopt,
            SyncTree, Link, SyncFiles, Prepare, Activate, Kill, Meddle
      <3>2. visible'.debian = visible.debian
        BY <2>0, <2>3, <3>1
        DEF Files, Rename, Remove, CreateStage, CopyArchive, ExtractSome, ExtractAll, WriteReceipt, RemoveCache,
            Provision
      <3> QED BY <1>1, <3>2
    <2> QED BY <2>1, <2>2, <2>3
  <1> QED BY <1>1, Invariance, PTL DEF Spec, ForeignIsPreserved

\* Once ACTIVE is durable no step, death or loss of power changes the journal again.
THEOREM FinalActivation == Spec => ActiveIsFinal
  <1>1. ASSUME IInv, [Next]_vars, durable.journal.state = "ACTIVE"
        PROVE  durable'.journal = durable.journal /\ visible'.journal = durable.journal
    <2>0. /\ visible \in Files /\ durable \in Disk /\ visible.journal = durable.journal
          /\ tx.pc \notin {"closed", "flush"} => tx.state = "ACTIVE"
      BY <1>1 DEF IInv, Typed, JournalOK
    <2>1. CASE Rename  BY <1>1, <2>0, <2>1 DEF Rename, IInv, TxOK
    <2>2. CASE Flush  BY <2>0, <2>2 DEF Flush, Disk
    <2>3. CASE PowerLoss  BY <2>0, <2>3 DEF PowerLoss
    <2>4. CASE ~Rename /\ ~Flush /\ ~PowerLoss
      <3>1. visible'.journal = visible.journal
        BY <1>1, <2>0, <2>4
        DEF vars, Files, Next, Step, Open, Recover, Scan, Remove, RemoveSynced, CreateStage, CopyArchive,
            ExtractSome, ExtractAll, WriteReceipt, ForceReceipt, SyncReceipt, Adopt, SyncTree, Link,
            SyncFiles, RemoveCache, Prepare, Provision, Activate, Kill, Meddle
      <3>2. durable'.journal = durable.journal
        BY <1>1, <2>0, <2>4
        DEF vars, Disk, Next, Step, Open, Recover, Scan, Remove, RemoveSynced, CreateStage, CopyArchive,
            ExtractSome, ExtractAll, WriteReceipt, ForceReceipt, SyncReceipt, Adopt, SyncTree, Link,
            SyncFiles, RemoveCache, Prepare, Provision, Activate, Kill, Meddle
      <3> QED BY <2>0, <3>1, <3>2
    <2> QED BY <2>1, <2>2, <2>3, <2>4
  <1> QED BY <1>1, Invariance, PTL DEF Spec, ActiveIsFinal

=============================================================================
