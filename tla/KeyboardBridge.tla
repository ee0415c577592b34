--------------------------- MODULE KeyboardBridge ---------------------------
(***************************************************************************)
(* The daemon that shows and hides the Android keyboard for the official   *)
(* client (runtime/guest/foldgpt_ime.py).  Every frame of the client has a *)
(* hook that signals taps and blurs with a sequence number; a Page reads   *)
(* them in order from the debugging connection, and the Keyboard applies   *)
(* the most recent intent, one native call at a time.  A navigation makes  *)
(* and destroys documents, and the connection may break at any time.          *)
(***************************************************************************)
EXTENDS Naturals, Sequences, TLC
LOCAL INSTANCE SequencesExt

CONSTANTS
    Contexts,      \* execution contexts of the target, one per frame
    MaxSignals,    \* signals of one frame
    MaxAttach,     \* times a Page is made for the target
    MaxEvents      \* events, and intents, that wait at a time

VARIABLES
    page,          \* the Page and its connection, see NewPage
    keyboard,      \* [owner, queue, applying, shown, lost]
    documents,     \* the client: [context -> [exists, sequence]]
    tapped         \* history: the frame the user wants to type in, or none

keyboardVars == <<page, keyboard, documents, tapped>>

None == "none"

NewPage(state, made) ==
    [state |-> state,          \* "attaching", "open", "closed" (None is queued), "ended"
     contexts |-> {},          \* the documents whose creation was reported
     sequences |-> [c \in Contexts |-> 0],
     events |-> <<>>,          \* the queue between read() and run()
     evaluating |-> FALSE,     \* handle() waits for its Runtime.evaluate
     made |-> made]

KeyboardInit ==
    /\ page = NewPage("attaching", 1)
    /\ keyboard = [owner |-> None, queue |-> <<>>, applying |-> None, shown |-> "hide", lost |-> FALSE]
    /\ documents \in [Contexts -> [exists : BOOLEAN, sequence : {0}]]
    /\ tapped = None

-----------------------------------------------------------------------------
(* Keyboard *)

\* Mutant: a stale blur hides the keyboard of the frame that has it now.
signalStale(k, source, visible, reason) ==
    [k EXCEPT !.owner = IF visible = "show" THEN source ELSE None, !.queue = Append(@, visible)]

\* A hide from a frame that does not own the keyboard is stale, unless the user tapped.
signal(k, source, visible, reason) ==
    IF visible = "hide" /\ source # k.owner /\ reason # "pointer" THEN k
    ELSE [k EXCEPT !.owner = IF visible = "show" THEN source ELSE None,
                   !.queue = Append(@, visible)]

forget(k, source) == IF source = k.owner THEN signal(k, source, "hide", "hidden") ELSE k

\* Keyboard.run(): the backlog is skipped and the latest intent applied.
KeyboardRuns ==
    /\ keyboard.applying = None /\ keyboard.queue # <<>>
    /\ keyboard' = [keyboard EXCEPT !.applying = keyboard.queue[Len(keyboard.queue)], !.queue = <<>>]
    /\ UNCHANGED <<page, documents, tapped>>

\* apply_keyboard(): a socket that does not answer in two seconds, and a refusal, are
\* only logged.
apply_keyboard ==
    /\ keyboard.applying # None
    /\ \E accepted \in BOOLEAN :
          keyboard' = [keyboard EXCEPT !.shown = IF accepted THEN keyboard.applying ELSE @,
                                       !.lost = ~accepted, !.applying = None]
    /\ UNCHANGED <<page, documents, tapped>>

-----------------------------------------------------------------------------
(* Page *)

\* Page.forget() of some of the contexts.
Forgetting(contexts) ==
    keyboard' = IF keyboard.owner \in contexts THEN forget(keyboard, keyboard.owner) ELSE keyboard

\* The finally clause of run(): every context is forgotten.
PageEnds ==
    /\ Forgetting(page.contexts)
    /\ page' = NewPage("ended", page.made) /\ tapped' = None
    /\ UNCHANGED documents

\* The four calls of run(): Runtime.enable reports the documents that are already there.
PageAttaches ==
    /\ page.state = "attaching"
    /\ \/ LET existing == SetToSeq({c \in Contexts : documents[c].exists})
          IN  page' = [page EXCEPT !.state = "open",
                         !.events = [i \in DOMAIN existing |-> [method |-> "created", context |-> existing[i]]]]
       \/ page' = NewPage("ended", page.made)
    /\ UNCHANGED <<keyboard, documents, tapped>>

\* call(): Runtime.evaluate is answered (a refusal is caught), or there is no answer in
\* five seconds, which ends the task.
call ==
    /\ page.evaluating
    /\ \/ page' = [page EXCEPT !.evaluating = FALSE] /\ UNCHANGED <<keyboard, documents, tapped>>
       \/ PageEnds

Event == Head(page.events)
Handles(method) ==
    /\ page.state \in {"open", "closed"} /\ ~page.evaluating
    /\ page.events # <<>> /\ Event.method = method
Handled == [page EXCEPT !.events = Tail(@)]

handleCreated ==
    /\ Handles("created")
    /\ page' = [Handled EXCEPT !.contexts = @ \cup {Event.context}, !.evaluating = TRUE]
    /\ UNCHANGED <<keyboard, documents, tapped>>

handleDestroyed ==
    /\ Handles("destroyed")
    /\ Forgetting({Event.context})
    /\ page' = [Handled EXCEPT !.contexts = @ \ {Event.context}, !.sequences[Event.context] = 0]
    /\ UNCHANGED <<documents, tapped>>

handleCleared ==
    /\ Handles("cleared")
    /\ Forgetting(page.contexts)
    /\ page' = [Handled EXCEPT !.contexts = {}, !.sequences = [c \in Contexts |-> 0]]
    /\ UNCHANGED <<documents, tapped>>

\* A signal from an unknown frame, or one that is not newer than the last, is dropped.
handleSignal ==
    /\ Handles("signal")
    /\ IF Event.context \in page.contexts /\ Event.sequence > page.sequences[Event.context]
         THEN /\ keyboard' = signal(keyboard, Event.context, Event.visible, Event.reason)
              /\ page' = [Handled EXCEPT !.sequences[Event.context] = Event.sequence]
         ELSE page' = Handled /\ UNCHANGED keyboard
    /\ UNCHANGED <<documents, tapped>>

\* read(): the connection closes; waiting calls fail at once, queued events are still
\* handled before the end is.
read ==
    /\ page.state = "open"
    /\ IF page.evaluating THEN PageEnds
       ELSE page' = [page EXCEPT !.state = "closed"] /\ tapped' = None /\ UNCHANGED <<keyboard, documents>>

pageClosed == page.state = "closed" /\ page.events = <<>> /\ ~page.evaluating /\ PageEnds

\* main(): every two seconds the target may be gone, and its task is cancelled; a task
\* that is over is replaced while the target is listed.
mainCancels == page.state \in {"attaching", "open", "closed"} /\ PageEnds
mainAttaches ==
    /\ page.state = "ended" /\ page.made < MaxAttach
    /\ page' = NewPage("attaching", page.made + 1)
    /\ UNCHANGED <<keyboard, documents, tapped>>

-----------------------------------------------------------------------------
(* The client: keyboard-focus.js in every frame, and the debugging protocol. *)

Reports(event) ==
    /\ page.state = "open" \/ page.made < MaxAttach
    /\ Len(page.events) < MaxEvents /\ Len(keyboard.queue) < MaxEvents
    /\ page' = IF page.state = "open" THEN [page EXCEPT !.events = Append(@, event)] ELSE page

\* The hook asks for the keyboard only on a tap, and hides it for many reasons.  A signal
\* that no page reads is lost without a trace, and is left out.
FrameSignals(c) ==
    /\ page.state = "open" /\ documents[c].exists /\ documents[c].sequence < MaxSignals
    /\ documents' = [documents EXCEPT ![c].sequence = @ + 1]
    /\ \E s \in {[visible |-> "show", reason |-> "pointer"], [visible |-> "hide", reason |-> "pointer"],
                 [visible |-> "hide", reason |-> "blur"]} :
          /\ Reports(s @@ [method |-> "signal", context |-> c, sequence |-> documents[c].sequence + 1])
          /\ tapped' = IF s.visible = "show" THEN c
                       ELSE IF c = tapped \/ s.reason = "pointer" THEN None
                       ELSE tapped
    /\ UNCHANGED keyboard

FrameAppears(c) ==
    /\ ~documents[c].exists /\ documents[c].sequence = 0
    /\ documents' = [documents EXCEPT ![c].exists = TRUE]
    /\ Reports([method |-> "created", context |-> c])
    /\ UNCHANGED <<keyboard, tapped>>

FrameGoes(c) ==
    /\ documents[c].exists
    /\ documents' = [documents EXCEPT ![c] = [exists |-> FALSE, sequence |-> MaxSignals]]
    /\ Reports([method |-> "destroyed", context |-> c])
    /\ tapped' = IF c = tapped THEN None ELSE tapped
    /\ UNCHANGED keyboard

Navigates ==
    /\ \E c \in Contexts : documents[c].exists
    /\ documents' = [c \in Contexts |-> IF documents[c].exists THEN [exists |-> FALSE, sequence |-> MaxSignals]
                                                         ELSE documents[c]]
    /\ Reports([method |-> "cleared"])
    /\ tapped' = None
    /\ UNCHANGED keyboard

KeyboardNext ==
    \/ KeyboardRuns \/ apply_keyboard \/ PageAttaches \/ call
    \/ handleCreated \/ handleDestroyed \/ handleCleared \/ handleSignal
    \/ read \/ pageClosed \/ mainCancels \/ mainAttaches
    \/ (\E c \in Contexts : FrameSignals(c) \/ FrameAppears(c) \/ FrameGoes(c)) \/ Navigates

\* The keyboard's task and the native call it waits for make progress.
KeyboardProgress == KeyboardRuns \/ apply_keyboard

-----------------------------------------------------------------------------

\* An idle keyboard whose last call was accepted is up exactly when a frame owns it,
\* whatever backlog was skipped (Keyboard.signal and run).
KeyboardFollowsOwner ==
    keyboard.queue = <<>> /\ keyboard.applying = None /\ ~keyboard.lost =>
        (keyboard.shown = "show" <=> keyboard.owner # None)

\* A frame that is gone, or whose page is, owns no keyboard (Page.forget, run).
OwnerIsKnown == keyboard.owner # None => keyboard.owner \in page.contexts

\* Once a page has handled what was signalled, the frame tapped last has the keyboard: a
\* blur of another frame that arrives later does not hide it (Keyboard.signal).
TapWins ==
    page.state = "open" /\ page.events = <<>> /\ ~page.evaluating => keyboard.owner = tapped

\* An intent that has not been applied yet.
IntentOwed == keyboard.queue # <<>> \/ keyboard.applying # None
=============================================================================
