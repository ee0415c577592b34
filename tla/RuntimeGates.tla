---------------------------- MODULE RuntimeGates ----------------------------
(***************************************************************************)
(* app.foldgpt.RuntimeShutdownGate: what a shutdown generation still waits *)
(* for.  A method is an operator from the gate to [gate, action], where    *)
(* action is what the service must do now.                                 *)
(*                                                                         *)
(* app.foldgpt.RuntimeExitGate: the native owners of all Service           *)
(* generations in one process, and who may end that process.               *)
(***************************************************************************)
EXTENDS Naturals

(* RuntimeShutdownGate *)

Gate == [generation: Nat, active: BOOLEAN, nativeClean: BOOLEAN, workspaceExited: BOOLEAN,
         restart: BOOLEAN, stopReported: BOOLEAN, cleanupFailure: BOOLEAN]

Actions == {"WAIT", "STOP_SERVICE", "RESTART"}

NewGate == [generation |-> 0, active |-> FALSE, nativeClean |-> FALSE, workspaceExited |-> FALSE,
            restart |-> FALSE, stopReported |-> FALSE, cleanupFailure |-> FALSE]

Do(g, a) == [gate |-> g, action |-> a]

\* Both lifetimes of the generation have ended, and well.
Ended(g) == g.active /\ g.workspaceExited /\ g.nativeClean /\ ~g.cleanupFailure

\* Mutant: one completion is enough.
ReadyActionEither(g) ==
    IF ~(g.active /\ (g.workspaceExited \/ g.nativeClean) /\ ~g.cleanupFailure) THEN Do(g, "WAIT")
    ELSE IF g.restart THEN Do([g EXCEPT !.active = FALSE], "RESTART")
    ELSE IF ~g.stopReported THEN Do([g EXCEPT !.stopReported = TRUE], "STOP_SERVICE")
    ELSE Do(g, "WAIT")

ReadyAction(g) ==
    IF ~Ended(g) THEN Do(g, "WAIT")
    ELSE IF g.restart THEN Do([g EXCEPT !.active = FALSE], "RESTART")
    ELSE IF ~g.stopReported THEN Do([g EXCEPT !.stopReported = TRUE], "STOP_SERVICE")
    ELSE Do(g, "WAIT")

\* Called only while no generation is active: the method throws otherwise.
Begin(g, workspaceRunning) ==
    [NewGate EXCEPT !.generation = g.generation + 1, !.active = TRUE,
                    !.workspaceExited = ~workspaceRunning]

NativeCompleted(g, generation, error) ==
    IF ~g.active \/ generation # g.generation \/ g.nativeClean \/ g.cleanupFailure THEN Do(g, "WAIT")
    ELSE ReadyAction(IF error THEN [g EXCEPT !.cleanupFailure = TRUE] ELSE [g EXCEPT !.nativeClean = TRUE])

WorkspaceExited(g, generation) ==
    IF ~g.active \/ generation # g.generation THEN Do(g, "WAIT")
    ELSE ReadyAction([g EXCEPT !.workspaceExited = TRUE])

\* Mutant: a restart asked for after the stop was reported is forgotten.
RequestRestartTooLate(g) ==
    IF ~g.active \/ g.stopReported THEN Do(g, "WAIT") ELSE ReadyAction([g EXCEPT !.restart = TRUE])

RequestRestart(g) == IF ~g.active THEN Do(g, "WAIT") ELSE ReadyAction([g EXCEPT !.restart = TRUE])

\* Mutant: the report is not renewed, so a stop that Android rejected stays rejected.
CancelRestartOnce(g) == ReadyAction([g EXCEPT !.restart = FALSE])

CancelRestart(g) == ReadyAction([g EXCEPT !.restart = FALSE, !.stopReported = FALSE])

------------------------------------------------------------------------------
(* RuntimeExitGate *)

ExitGate == [owners: SUBSET Nat, generation: Nat, pending: Nat, retiring: BOOLEAN]

\* pending: the generation that asked for the exit (pendingGeneration), 0 when
\* there is no pendingExit.
NewExitGate == [owners |-> {}, generation |-> 0, pending |-> 0, retiring |-> FALSE]

Register(x) ==
    [x EXCEPT !.generation = @ + 1, !.owners = @ \cup {x.generation + 1}, !.pending = 0]

\* Mutant: any owner may ask for the exit.
RequestExitAny(x, owner) == [x EXCEPT !.pending = x.generation]

RequestExit(x, owner) == IF owner = x.generation THEN [x EXCEPT !.pending = owner] ELSE x

MarkClean(x, owner) == [x EXCEPT !.owners = @ \ {owner}]

\* Mutant: the exit does not wait for the owners.
MayExitUnclean(x) == ~x.retiring /\ x.pending # 0 /\ x.pending = x.generation

MayExit(x) == ~x.retiring /\ x.owners = {} /\ x.pending # 0 /\ x.pending = x.generation

\* Mutant: another retained owner is retired too.
MayRetireAny(x, owner) == ~x.retiring /\ owner = x.generation /\ owner \in x.owners

MayRetire(x, owner) == ~x.retiring /\ owner = x.generation /\ x.owners = {owner}
=============================================================================
