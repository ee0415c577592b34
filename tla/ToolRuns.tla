------------------------------ MODULE ToolRuns ------------------------------
(***************************************************************************)
(* A run of a command-line tool, step by step.  Any check, change, or      *)
(* acquisition may fail; the exception unwinds the try statements the run  *)
(* is in, innermost first, and a step of a cleanup may itself fail.  The   *)
(* process may also be killed between any two steps, which runs no cleanup *)
(* at all and keeps what is on disk, and the tool may be started again.    *)
(* Somebody else may own an object from the start, or create it meanwhile. *)
(***************************************************************************)
EXTENDS ToolSteps, Naturals, FiniteSets

CONSTANTS
    Tools,        \* the tools: [name -> its description, see InstallTools]
    MaxFailures,  \* failed steps in a run
    MaxRuns       \* times the tool is started

VARIABLES
    tool,         \* the tool's name
    todo,         \* the steps left of the function being run
    frames,       \* the try statements the run is in, innermost last
    mode,         \* "run", "unwind", "done", "failed", "killed"
    facts,        \* what this run has established
    objects,      \* the tool's objects
    earned,       \* the facts established by the run that published each object
    held,         \* the resources this run holds
    stuck,        \* those whose release failed
    budget        \* [failures: of this run, runs: starts so far, race: whether
                  \*  somebody else may still create an object]

toolVars == <<tool, todo, frames, mode, facts, objects, earned, held, stuck, budget>>

This == Tools[tool]

ToolAt(t, theirs) ==
    /\ tool = t
    /\ frames = <<>> /\ facts = {} /\ held = {} /\ stuck = {}
    /\ objects = [o \in Tools[t].objects |->
          CASE o \in theirs -> "foreign"
            [] o \notin theirs /\ o \in DOMAIN Tools[t].starts -> Tools[t].starts[o]
            [] OTHER -> "absent"]
    /\ earned = [o \in Tools[t].objects |-> {}]

ToolInit == \E t \in DOMAIN Tools : \E theirs \in {{}, Tools[t].foreign} :
    /\ ToolAt(t, theirs)
    /\ todo = Tools[t].steps /\ mode = "run"
    /\ budget = [failures |-> 0, runs |-> 1, race |-> Tools[t].races # {}]

Active == mode \in {"run", "unwind"}
Now == Head(todo)
Has(ops) == Active /\ todo # <<>> /\ Now.op \in ops
Goes(steps) == todo' = steps \o Tail(todo)

\* An exception: the block is left, the innermost frame is next.
Raise ==
    /\ todo' = <<>> /\ mode' = "unwind"
    /\ UNCHANGED <<tool, frames, facts, objects, earned, held>>

Changing == {"put", "putnew", "move", "movenew"}

StepFails ==
    /\ Has({"check", "take", "drop"} \cup Changing) /\ budget.failures < MaxFailures
    /\ budget' = [budget EXCEPT !.failures = @ + 1]
    /\ stuck' = IF Now.op = "drop" THEN stuck \cup {Now.resource} ELSE stuck
    /\ Raise

\* Only the facts that some publication needs are remembered.
Telling == UNION {e.facts : e \in This.earns}

Notes ==
    /\ Has({"note"}) /\ facts' = facts \cup {Now.fact} /\ Goes(<<>>)
    /\ UNCHANGED <<tool, frames, mode, objects, earned, held, stuck, budget>>

\* Checks in a row change nothing the run could leave behind: they succeed together.
Holds ==
    /\ Has({"check"})
    /\ LET Row(n) == \A i \in 1..n : todo[i].op = "check"
           n == CHOOSE k \in DOMAIN todo : Row(k) /\ (k = Len(todo) \/ ~Row(k + 1))
       IN  /\ todo' = SubSeq(todo, n + 1, Len(todo))
           /\ facts' = facts \cup ({todo[i].fact : i \in 1..n} \cap Telling)
    /\ UNCHANGED <<tool, frames, mode, objects, earned, held, stuck, budget>>

Expects ==
    /\ Has({"expect"})
    /\ \/ /\ objects[Now.object] \in Now.values /\ Goes(<<>>)
          /\ UNCHANGED <<tool, frames, mode, facts, objects, earned, held>>
       \/ objects[Now.object] \notin Now.values /\ Raise
    /\ UNCHANGED <<stuck, budget>>

Branches ==
    /\ \/ Has({"if"}) /\ Goes(IF objects[Now.object] \in Now.values THEN Now.yes ELSE Now.no)
       \/ Has({"iffact"}) /\ Goes(IF Now.fact \in facts THEN Now.yes ELSE Now.no)
       \/ Has({"either"}) /\ (Goes(Now.yes) \/ Goes(Now.no))
    /\ UNCHANGED <<tool, frames, mode, facts, objects, earned, held, stuck, budget>>

\* The kernel does not let a tool replace what has the name.
Taken == Now.op \in {"putnew", "movenew"} /\ objects[Now.object] # "absent"

Changes ==
    /\ Has(Changing)
    /\ \/ /\ ~Taken
          /\ Goes(<<>>)
          /\ objects' = [o \in DOMAIN objects |->
                         CASE o = Now.object -> Now.value
                           [] o # Now.object /\ Now.op \in {"move", "movenew"} /\ o = Now.from -> "absent"
                           [] OTHER -> objects[o]]
          /\ earned' = [earned EXCEPT ![Now.object] = facts]
          /\ UNCHANGED <<tool, frames, mode, facts, held>>
       \/ Taken /\ Raise
    /\ UNCHANGED <<stuck, budget>>

Takes ==
    /\ Has({"take"}) /\ held' = held \cup {Now.resource} /\ Goes(<<>>)
    /\ UNCHANGED <<tool, frames, mode, facts, objects, earned, stuck, budget>>

GivesBack ==
    /\ Has({"drop", "close"}) /\ held' = held \ {Now.resource} /\ Goes(<<>>)
    /\ facts' = facts \cup ({Now.resource} \cap (held \cap Telling))
    /\ UNCHANGED <<tool, frames, mode, objects, earned, stuck, budget>>

\* try statements: a cleanup runs on the way out, a handler only for an exception.
Enters ==
    /\ Has({"try", "attempt"}) /\ Goes(<<>>)
    /\ frames' = Append(frames, IF Now.op = "try" THEN Now
                                ELSE [op |-> "attempt", mode |-> mode, rest |-> Tail(todo)])
    /\ UNCHANGED <<tool, mode, facts, objects, earned, held, stuck, budget>>

Inner == frames[Len(frames)]
Outer == SubSeq(frames, 1, Len(frames) - 1)

Leaves ==
    /\ Has({"end"}) /\ frames' = Outer
    /\ Goes(IF Inner.op = "try" /\ Inner.always THEN Inner.cleanup ELSE <<>>)
    /\ UNCHANGED <<tool, mode, facts, objects, earned, held, stuck, budget>>

\* The steps after the end of the block that swallows the exception.
After(steps) ==
    LET Count(op, i) == Cardinality({j \in 1..i : steps[j].op \in op})
        Closed(i) == Count({"end"}, i) > Count({"try", "attempt"}, i)
    IN  SubSeq(steps, (CHOOSE i \in DOMAIN steps : Closed(i) /\ ~Closed(i - 1)) + 1, Len(steps))

Unwinds ==
    /\ mode = "unwind" /\ todo = <<>> /\ frames # <<>>
    /\ frames' = Outer
    /\ IF Inner.op = "attempt"
         THEN todo' = After(Inner.rest) /\ mode' = Inner.mode
         ELSE todo' = Inner.cleanup /\ UNCHANGED mode
    /\ UNCHANGED <<tool, facts, objects, earned, held, stuck, budget>>

Exits ==
    /\ Active /\ todo = <<>> /\ frames = <<>>
    /\ mode' = IF mode = "run" THEN "done" ELSE "failed"
    /\ UNCHANGED <<tool, todo, frames, facts, objects, earned, held, stuck, budget>>

\* The process dies; what only lives with it (a lock, a descriptor, a child that asked
\* for the death signal) goes with it.
Killed ==
    /\ Active /\ budget.runs < MaxRuns
    /\ mode' = "killed" /\ todo' = <<>> /\ frames' = <<>> /\ facts' = {}
    /\ held' = {} /\ stuck' = {}
    /\ UNCHANGED <<tool, objects, earned, budget>>

StartsAgain ==
    /\ ~Active /\ budget.runs < MaxRuns
    /\ mode' = "run" /\ todo' = This.steps /\ frames' = <<>> /\ facts' = {}
    /\ held' = {} /\ stuck' = {}
    /\ budget' = [budget EXCEPT !.failures = 0, !.runs = @ + 1]
    /\ UNCHANGED <<tool, objects, earned>>

SomebodyCreates(o) ==
    /\ Active /\ budget.race /\ o \in This.races /\ objects[o] = "absent"
    /\ objects' = [objects EXCEPT ![o] = "foreign"] /\ budget' = [budget EXCEPT !.race = FALSE]
    /\ UNCHANGED <<tool, todo, frames, mode, facts, earned, held, stuck>>

ToolNext ==
    \/ StepFails \/ Holds \/ Notes \/ Expects \/ Branches \/ Changes
    \/ Takes \/ GivesBack \/ Enters \/ Leaves \/ Unwinds \/ Exits \/ Killed \/ StartsAgain
    \/ \E o \in DOMAIN objects : SomebodyCreates(o)

\* An object of this kind is published only by a run that has established these facts.
EarnedBy(object, value, needs) == objects[object] = value => needs \subseteq earned[object]

\* One object in one of these states implies that another one is in one of those.
Ordered(object, values, other, states) == objects[object] \in values => objects[other] \in states

\* What a tool publishes has been verified by the run that published it, and what is on
\* disk is consistent after every step, so after a crash anywhere: the journal never runs
\* ahead of the state it describes.
EvidenceIsSound ==
    /\ \A e \in This.earns : EarnedBy(e.object, e.value, e.facts)
    /\ \A r \in This.orders : Ordered(r.object, r.values, r.other, r.states)

\* A tool that ends, however it ends, has given everything back that it could; and one
\* that is meant to be started again after a crash does not refuse what it left itself:
\* with no failing step and nothing of anybody else's in its way it does not fail, unless
\* the crash left one of the few things that are known to block it.
EndsClean ==
    /\ mode \in {"done", "failed"} => held \subseteq stuck \cup This.keeps
    /\ mode = "failed" /\ This.resumes /\ budget.failures = 0 =>
           \E o \in DOMAIN objects : objects[o] = "foreign" \/ <<o, objects[o]>> \in This.blocks

\* No tool replaces or removes what somebody else put where it publishes.
KeepsTheirs == \A o \in DOMAIN objects : objects[o] = "foreign" => objects'[o] = "foreign"
=============================================================================
