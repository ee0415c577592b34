--------------------------- MODULE WorkspaceLease ---------------------------
(***************************************************************************)
(* What the executor promises about the workspace: one user at a time, a   *)
(* lease that is given back only when its user has stopped acting on the   *)
(* workspace, and a user whose end is unknown keeps it for ever.  The root *)
(* is given up (its kernel lock released) only by an undisturbed owner.    *)
(***************************************************************************)
CONSTANTS User, Free

VARIABLES
    lease,      \* who may act on the workspace
    acting,     \* who acts on it
    lost,       \* users nobody can account for any more
    held        \* the root and its kernel lock are held

vars == <<lease, acting, lost, held>>

Init == lease = Free /\ acting = {} /\ lost = {} /\ held = TRUE

\* A user that comes too late takes the lease, finds the root closed and releases it.
Acquire(u) == lease = Free /\ lease' = u /\ UNCHANGED <<acting, lost, held>>

Begin(u) ==
    /\ lease = u /\ held
    /\ acting' = acting \cup {u}
    /\ UNCHANGED <<lease, lost, held>>

\* An unknown user may still stop, but nobody can tell.
End(u) == u \in acting /\ acting' = acting \ {u} /\ UNCHANGED <<lease, lost, held>>

Release(u) ==
    /\ lease = u /\ u \notin acting /\ u \notin lost
    /\ lease' = Free
    /\ UNCHANGED <<acting, lost, held>>

Lose(u) ==
    /\ lease = u /\ held
    /\ lost' = lost \cup {u}
    /\ UNCHANGED <<lease, acting, held>>

GiveUp == lease = Free /\ held /\ held' = FALSE /\ UNCHANGED <<lease, acting, lost>>

Next ==
    \/ \E u \in User : Acquire(u) \/ Begin(u) \/ End(u) \/ Release(u) \/ Lose(u)
    \/ GiveUp

Spec == Init /\ [][Next]_vars

------------------------------------------------------------------------------

\* Only the holder of the lease acts on the workspace.
OnlyHolderActs == acting \subseteq {lease}

\* Nobody acts on a root that was given up, and nobody was lost under it.
GivenUpIsQuiet == ~held => acting = {} /\ lost = {}
=============================================================================
