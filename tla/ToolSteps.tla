----------------------------- MODULE ToolSteps -----------------------------
(***************************************************************************)
(* The vocabulary in which the repository's command-line tools are         *)
(* described: a function of a tool is the sequence of the steps it takes,  *)
(* and a call is the callee's sequence in the caller's.  Module ToolRuns   *)
(* gives the steps their meaning.  What a tool keeps on disk (or on the    *)
(* device) is a set of named objects, each "absent", "partial" while it is *)
(* being written, "foreign" when somebody else put it there, or a value    *)
(* the tool gives it.                                                      *)
(***************************************************************************)
EXTENDS Sequences, TLC

\* A condition the tool verifies, or a command whose success it needs: an exception
\* or a "fact" that the tool has established.
Check(fact) == <<[op |-> "check", fact |-> fact]>>
Checks(names) == [i \in DOMAIN names |-> [op |-> "check", fact |-> names[i]]]

\* A value the tool keeps in a variable of its own, which cannot fail, and if/else on it.
Note(fact) == <<[op |-> "note", fact |-> fact]>>
IfNoted(fact, yes, no) == <<[op |-> "iffact", fact |-> fact, yes |-> yes, no |-> no]>>

\* The state of an object is looked at: anything but these values is an exception.
Expect(object, values) == <<[op |-> "expect", object |-> object, values |-> values]>>

\* if/else on the state of an object, and on something the model does not hold.
IfElse(object, values, yes, no) ==
    <<[op |-> "if", object |-> object, values |-> values, yes |-> yes, no |-> no]>>
When(object, values, yes) == IfElse(object, values, yes, <<>>)
Either(yes, no) == <<[op |-> "either", yes |-> yes, no |-> no]>>

\* An atomic change of an object, a change that a crash may interrupt, a
\* publication that the kernel refuses when the name is taken, a rename, and one that
\* does not replace.
Put(object, value) == <<[op |-> "put", object |-> object, value |-> value]>>
Write(object, value) == Put(object, "partial") \o Put(object, value)
PutNew(object, value) == <<[op |-> "putnew", object |-> object, value |-> value]>>
Move(from, object, value) ==
    <<[op |-> "move", from |-> from, object |-> object, value |-> value]>>
MoveNew(from, object, value) ==
    <<[op |-> "movenew", from |-> from, object |-> object, value |-> value]>>
Remove(object) == Put(object, "absent")

\* try/finally, and a handler that only runs when the block fails and raises again.
Try(block, cleanup) ==
    <<[op |-> "try", always |-> TRUE, cleanup |-> cleanup]>> \o block \o <<[op |-> "end"]>>
Rescue(block, handler) ==
    <<[op |-> "try", always |-> FALSE, cleanup |-> handler]>> \o block \o <<[op |-> "end"]>>

\* A block whose exceptions are swallowed.
Attempt(block) ==
    <<[op |-> "attempt"]>> \o block \o <<[op |-> "end"]>>

\* A resource the tool must give back: a child, a mount, a directory, whose release may
\* fail, or a descriptor, whose close does not.  Giving one back counts as a fact.
Take(resource) == <<[op |-> "take", resource |-> resource]>>
Drop(resource) == <<[op |-> "drop", resource |-> resource]>>
Close(resource) == <<[op |-> "close", resource |-> resource]>>
With(resource, block) == Take(resource) \o Try(block, Drop(resource))
Open(resource, block) == Take(resource) \o Try(block, Close(resource))

\* What a description says of a tool besides its steps: an object with this value needs
\* these facts, and one object in these states needs another one in those.
Earns(object, value, needs) == [object |-> object, value |-> value, facts |-> needs]
Order(object, values, other, states) ==
    [object |-> object, values |-> values, other |-> other, states |-> states]

\* A tool is [steps, objects] and what it has of these: the values objects "start" with
\* when they are not absent, the "foreign" ones that may be somebody else's from the
\* start, the ones somebody else "races" to create, whether it "resumes" after a crash,
\* the pairs of an object and a value of a crashed run that "block" it, the resources it
\* may "keep", and what it promises of its objects.
Plain ==
    [starts |-> <<>>, foreign |-> {}, races |-> {}, resumes |-> FALSE, blocks |-> {},
     keeps |-> {}, earns |-> {}, orders |-> {}]
=============================================================================
