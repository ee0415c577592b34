------------------------- MODULE MCFoldRuntimeService -------------------------
(***************************************************************************)
(* Instances of FoldRuntimeService for TLC.  The interesting cases need    *)
(* two requests (a Start and what comes during its shutdown), one retry,   *)
(* and two Service instances for the overlaps.                             *)
(***************************************************************************)
EXTENDS FoldRuntimeService

\* First use, or a session the user stopped.
NothingPersisted == {NoIntent}

\* The process died with its session up.
CrashPersisted == {[wanted |-> TRUE, state |-> "ready", failures |-> 0]}
==============================================================================
