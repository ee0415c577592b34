----------------------- MODULE RuntimeActivationsProofs -----------------------
(***************************************************************************)
(* Proofs about the activations, for any callbacks and any numbers of      *)
(* requests and generations.                                               *)
(*                                                                         *)
(* What is to be shown relates three parties that meet only at the lock:   *)
(* the threads, the generation they belong to and the connector they       *)
(* complete.  OpeningOK ties the connector to the threads (one in flight,  *)
(* and no client of the last callback while a thread may still create      *)
(* one); GenerationOK ties the registered threads to the worker that will  *)
(* join them.                                                              *)
(***************************************************************************)
EXTENDS RuntimeActivations, FiniteSetTheorems, TLAPS

Activation == [gen: 1..MaxGenerations, what: Callbacks \cup {Conversation, None},
               pc: {"started", "waiting", "stopping", "completing", "leaving", "ended"},
               process: {"none", "alive", "exited"}]

Connector == [pending: Callbacks \cup {None}, consumed: Callbacks \cup {None}, inFlight: BOOLEAN, clients: Nat]

\* A thread has no client before it looked at the admission, and none that runs after
\* stopAndWait().
ActivationOK(a) ==
    /\ a.pc = "started" => a.process = "none"
    /\ a.pc \in {"completing", "leaving", "ended"} => a.process # "alive"

\* A thread that has a callback still to complete.
Flies(a) == a.what \in Callbacks /\ a.pc \notin {"leaving", "ended"}

\* The threads, the registered ones and the connector.
OpeningOK(ts, ac, c) ==
    /\ ts \in Seq(Activation) /\ c \in Connector
    /\ \A t \in DOMAIN ts : ActivationOK(ts[t])
    /\ ac = {t \in DOMAIN ts : ts[t].pc # "ended"}
    /\ c.inFlight => c.pending = None /\ \E t \in DOMAIN ts : Flies(ts[t])
    /\ \A t \in DOMAIN ts : Flies(ts[t]) => c.inFlight
    /\ \A t, u \in DOMAIN ts : Flies(ts[t]) /\ Flies(ts[u]) => t = u
    /\ c.pending # None => c.pending # c.consumed
    /\ c.clients <= 1
    /\ \A t \in DOMAIN ts : Flies(ts[t]) /\ ts[t].pc = "started" => c.clients = 0

\* The generation and its threads.
GenerationOK ==
    /\ \A t \in active : threads[t].gen = gen
    /\ accepting => worker \in {"prepare", "spawn", "run"}
    /\ worker = "joining" => active \subseteq joining
    /\ worker \in {"closed", "null"} => active = {}
    /\ worker \in {"prepare", "spawn"} => linux = "none"
    /\ main = "interrupting" => stopping
    /\ main \in {"destroying", "destroyed"} => ~accepting

IInv == TypeOK /\ OpeningOK(threads, active, connector) /\ GenerationOK

\* A client is created only for the running Linux of its generation (NothingStartsLate).
Timely ==
    \A t \in DOMAIN threads : threads[t].process = "none" /\ threads'[t].process = "alive" =>
        threads[t].gen = gen /\ worker = "run" /\ main = "free" /\ ~stopping

Sound == IInv' /\ Timely

------------------------------------------------------------------------------
(* PendingConnectorCallback. *)

\* What a step of the main thread may do to the connector while no thread changes.
LEMMA ConnectorSteps ==
    ASSUME NEW ts, NEW ac, NEW c, OpeningOK(ts, ac, c)
    PROVE  /\ OpeningOK(ts, ac, CancelPending(c))
           /\ \A callback \in Callbacks : OpeningOK(ts, ac, Offer(c, callback))
<1>1. c \in Connector /\ \A callback \in Callbacks : callback # None
  BY CallbackAssumption DEF OpeningOK
<1>2. OpeningOK(ts, ac, CancelPending(c))
  <2>1. CASE c.pending = None
    BY <2>1 DEF CancelPending
  <2>2. CASE c.pending # None
    <3> DEFINE d == Consume(c)
    <3>1. /\ d \in Connector /\ d.pending = None /\ d.inFlight = c.inFlight /\ d.clients = 0
      BY <1>1, <2>2, Zenon DEF OpeningOK, Consume, Connector
    <3>2. CancelPending(c) = d
      BY <2>2 DEF CancelPending
    <3> HIDE DEF d
    <3> QED BY <2>2, <3>1, <3>2 DEF OpeningOK
  <2> QED BY <2>1, <2>2
<1>3. ASSUME NEW callback \in Callbacks PROVE OpeningOK(ts, ac, Offer(c, callback))
  <2>1. CASE callback \in {c.pending, c.consumed} \/ c.pending # None \/ c.inFlight
    BY <2>1 DEF Offer
  <2>2. CASE ~(callback \in {c.pending, c.consumed} \/ c.pending # None \/ c.inFlight)
    <3> DEFINE d == [c EXCEPT !.pending = callback]
    <3>1. /\ d \in Connector /\ d.pending = callback /\ d.consumed = c.consumed
          /\ d.inFlight = c.inFlight /\ d.clients = c.clients
      BY <1>1 DEF Connector
    <3>2. Offer(c, callback) = d
      BY <2>2 DEF Offer
    <3> HIDE DEF d
    <3> QED BY <2>2, <3>1, <3>2 DEF OpeningOK
  <2> QED BY <2>1, <2>2
<1> QED BY <1>2, <1>3

\* take() and, when the launch was refused, completed().
LEMMA TakeShape ==
    ASSUME NEW c \in Connector, c.pending # None, c.pending # c.consumed
    PROVE  /\ Take(c) \in Connector /\ Take(c).pending = None /\ Take(c).inFlight /\ Take(c).clients = 0
           /\ Completed(Take(c)) \in Connector /\ Completed(Take(c)).pending = None
           /\ ~Completed(Take(c)).inFlight /\ Completed(Take(c)).clients = 0
<1>1. /\ Consume(c) \in Connector /\ Consume(c).pending = None /\ Consume(c).clients = 0
  BY Zenon DEF Consume, Connector
<1>2. Take(c) \in Connector /\ Take(c).pending = None /\ Take(c).inFlight /\ Take(c).clients = 0
  BY <1>1, Zenon DEF Take, Connector
<1>3. /\ Completed(Take(c)) \in Connector /\ Completed(Take(c)).pending = None
      /\ ~Completed(Take(c)).inFlight /\ Completed(Take(c)).clients = 0
  BY <1>2, Zenon DEF Completed, Connector
<1> QED BY <1>2, <1>3

------------------------------------------------------------------------------
(* openPendingConversation() and openPendingConnectorCallback(). *)

World(w) ==
    /\ w \in [threads: Seq(Activation), active: SUBSET Nat, thread: BOOLEAN, connector: Connector]
    /\ OpeningOK(w.threads, w.active, w.connector)

\* u follows from w: threads join, of this generation and only if it admits them.
Opens(w, u) ==
    /\ World(u)
    /\ DOMAIN w.threads \subseteq DOMAIN u.threads
    /\ \A t \in DOMAIN w.threads : u.threads[t] = w.threads[t]
    /\ \A t \in DOMAIN u.threads \ DOMAIN w.threads : u.threads[t].gen = gen
    /\ u.threads = w.threads \/ Admits(gen)

\* Nothing, and one step after another.
LEMMA OpensChain ==
    /\ \A w : World(w) => Opens(w, w)
    /\ \A w, u, v : Opens(w, u) /\ Opens(u, v) => Opens(w, v)
BY DEF Opens

\* launch(): a conversation, or the callback that was just taken.
LEMMA Launches ==
    ASSUME gen \in 1..MaxGenerations, Admits(gen), NEW w, World(w), NEW what,
           NEW d \in Connector, NEW th \in BOOLEAN,
           \/ what = Conversation /\ d = w.connector
           \/ /\ what \in Callbacks /\ ~w.connector.inFlight /\ d.inFlight
              /\ d.pending = None /\ d.clients = 0,
           NEW u, u = Launch([w EXCEPT !.thread = th, !.connector = d], what)
    PROVE  Opens(w, u)
<1> DEFINE a == [gen |-> gen, what |-> what, pc |-> "started", process |-> "none"]
           n == Len(w.threads) + 1
<1>1. w.threads \in Seq(Activation) /\ w.active \in SUBSET Nat /\ OpeningOK(w.threads, w.active, w.connector)
  BY DEF World
<1>2. a \in Activation /\ ActivationOK(a)
  BY DEF Activation, ActivationOK
<1>3. u = [threads |-> Append(w.threads, a), active |-> w.active \cup {n}, thread |-> th, connector |-> d]
  BY Zenon DEF Launch, World
<1>4. Flies(a) <=> what \in Callbacks
  BY DEF Flies
<1>5. a.pc = "started" /\ a.gen = gen
  OBVIOUS
<1> HIDE DEF a
<1>6. /\ Append(w.threads, a) \in Seq(Activation) /\ n \in Nat /\ n \notin DOMAIN w.threads
      /\ DOMAIN Append(w.threads, a) = DOMAIN w.threads \cup {n}
      /\ Append(w.threads, a)[n] = a
      /\ \A t \in DOMAIN w.threads : Append(w.threads, a)[t] = w.threads[t]
  BY <1>1, <1>2
<1> DEFINE ts == Append(w.threads, a)
<1> HIDE DEF n, ts
<1>7. /\ ts \in Seq(Activation) /\ n \in Nat /\ n \notin DOMAIN w.threads
      /\ DOMAIN ts = DOMAIN w.threads \cup {n} /\ ts[n] = a
      /\ \A t \in DOMAIN w.threads : ts[t] = w.threads[t]
  BY <1>6 DEF ts
<1>8. OpeningOK(ts, w.active \cup {n}, d)
  <2>1. \A t \in DOMAIN ts : ActivationOK(ts[t])
    BY <1>1, <1>2, <1>7 DEF OpeningOK
  <2>2. w.active \cup {n} = {t \in DOMAIN ts : ts[t].pc # "ended"}
    BY <1>1, <1>5, <1>7 DEF OpeningOK
  <2>3. CASE what = Conversation /\ d = w.connector
    <3>1. ~Flies(a)
      BY <1>4, <2>3, CallbackAssumption
    <3>2. d.inFlight => d.pending = None /\ \E t \in DOMAIN ts : Flies(ts[t])
      BY <1>1, <1>7, <2>3 DEF OpeningOK
    <3>3. \A t \in DOMAIN ts : Flies(ts[t]) => t \in DOMAIN w.threads /\ Flies(w.threads[t])
      BY <1>7, <3>1
    <3> QED BY <1>1, <1>7, <2>1, <2>2, <2>3, <3>2, <3>3 DEF OpeningOK
  <2>4. CASE /\ what \in Callbacks /\ ~w.connector.inFlight /\ d.inFlight
             /\ d.pending = None /\ d.clients = 0
    <3>1. Flies(ts[n]) /\ \A t \in DOMAIN ts : Flies(ts[t]) => t = n
      BY <1>1, <1>4, <1>7, <2>4 DEF OpeningOK
    <3> QED BY <1>7, <2>1, <2>2, <2>4, <3>1 DEF OpeningOK
  <2> QED BY <2>3, <2>4
<1>9. u = [threads |-> ts, active |-> w.active \cup {n}, thread |-> th, connector |-> d]
  BY <1>3, Zenon DEF ts
<1>10. World(u)
  <2> DEFINE ac == w.active \cup {n}
  <2>1. ac \in SUBSET Nat
    BY <1>1, <1>7
  <2>2. u = [threads |-> ts, active |-> ac, thread |-> th, connector |-> d] /\ OpeningOK(ts, ac, d)
    BY <1>8, <1>9
  <2> HIDE DEF ac
  <2> QED BY <1>7, <2>1, <2>2 DEF World
<1> QED BY <1>5, <1>7, <1>9, <1>10 DEF Opens

\* openPendingConversation().
LEMMA OpensConversation ==
    ASSUME gen \in 1..MaxGenerations, NEW w, World(w), NEW ready \in BOOLEAN
    PROVE  Opens(w, OpenPendingConversation(w, ready))
<1> DEFINE u == [w EXCEPT !.thread = FALSE]
<1>1. CASE ~ready \/ ~w.thread
  BY <1>1, OpensChain DEF OpenPendingConversation
<1>2. CASE ready /\ w.thread /\ ~Admits(gen)
  <2>1. OpenPendingConversation(w, ready) = u
    BY <1>2 DEF OpenPendingConversation
  <2>2. u \in [threads: Seq(Activation), active: SUBSET Nat, thread: BOOLEAN, connector: Connector]
        /\ u.threads = w.threads /\ u.active = w.active /\ u.connector = w.connector
    BY Zenon DEF World
  <2> HIDE DEF u
  <2> QED BY <2>1, <2>2 DEF Opens, World
<1>3. CASE ready /\ w.thread /\ Admits(gen)
  <2>1. OpenPendingConversation(w, ready) = Launch(u, Conversation)
    BY <1>3 DEF OpenPendingConversation
  <2>2. u = [w EXCEPT !.thread = FALSE, !.connector = w.connector] /\ w.connector \in Connector
    BY Zenon DEF World
  <2> HIDE DEF u
  <2> QED BY <1>3, <2>1, <2>2, Launches, Zenon
<1> QED BY <1>1, <1>2, <1>3

\* openPendingConnectorCallback().
LEMMA OpensConnector ==
    ASSUME gen \in 1..MaxGenerations, NEW w, World(w), NEW ready \in BOOLEAN
    PROVE  Opens(w, OpenPendingConnectorCallback(w, ready))
<1> DEFINE c == w.connector
<1>1. c \in Connector /\ (c.pending # None => c.pending # c.consumed) /\ OpeningOK(w.threads, w.active, c)
  BY DEF World, OpeningOK
<1>2. CASE ~MayTake(c, ready)
  BY <1>2, OpensChain DEF OpenPendingConnectorCallback
<1>3. CASE MayTake(c, ready)
  <2> DEFINE d == Take(c)
             e == Completed(d)
  <2>1. ~c.inFlight /\ c.pending # None /\ c.pending \in Callbacks
    BY <1>1, <1>3 DEF MayTake, Connector
  <2>2. /\ d \in Connector /\ d.pending = None /\ d.inFlight /\ d.clients = 0
        /\ e \in Connector /\ e.pending = None /\ ~e.inFlight /\ e.clients = 0
    BY <1>1, <2>1, TakeShape
  <2>3. OpenPendingConnectorCallback(w, ready) =
            IF Admits(gen) THEN Launch([w EXCEPT !.connector = d], c.pending)
            ELSE [[w EXCEPT !.connector = d] EXCEPT !.connector = e]
    BY <1>3 DEF OpenPendingConnectorCallback, World
  <2> HIDE DEF d, e
  <2>4. CASE Admits(gen)
    <3> DEFINE v == [w EXCEPT !.thread = w.thread, !.connector = d]
    <3>1. [w EXCEPT !.connector = d] = v /\ w.thread \in BOOLEAN
      BY Zenon DEF World
    <3>2. OpenPendingConnectorCallback(w, ready) = Launch(v, c.pending)
      BY <2>3, <2>4, <3>1
    <3> QED BY <2>1, <2>2, <2>4, <3>1, <3>2, Launches, Zenon
  <2>5. CASE ~Admits(gen)
    <3> DEFINE u == [[w EXCEPT !.connector = d] EXCEPT !.connector = e]
    <3>1. u \in [threads: Seq(Activation), active: SUBSET Nat, thread: BOOLEAN, connector: Connector]
          /\ u.threads = w.threads /\ u.active = w.active /\ u.connector = e
      BY <2>2, Zenon DEF World
    <3> HIDE DEF u
    <3>2. OpeningOK(w.threads, w.active, e)
      BY <1>1, <2>1, <2>2 DEF OpeningOK
    <3>3. OpenPendingConnectorCallback(w, ready) = u
      BY <2>3, <2>5 DEF u
    <3> QED BY <3>1, <3>2, <3>3 DEF Opens, World
  <2> QED BY <2>4, <2>5
<1> QED BY <1>2, <1>3

------------------------------------------------------------------------------
(* The main thread. *)

\* What the invariant says of the fields OpenPending() reads.
LEMMA Facts ==
    ASSUME IInv
    PROVE  /\ gen \in 1..MaxGenerations /\ World(Opening)
           /\ Opening.threads = threads /\ Opening.active = active
           /\ Opening.thread = thread /\ Opening.connector = connector
<1>1. active \in SUBSET Nat
  BY DEF IInv, OpeningOK
<1>2. threads \in Seq(Activation) /\ connector \in Connector /\ thread \in BOOLEAN
  BY DEF IInv, TypeOK, OpeningOK
<1> QED BY <1>1, <1>2 DEF IInv, TypeOK, World, Opening

\* No thread changes.
LEMMA NoThread ==
    ASSUME IInv, TypeOK', UNCHANGED <<threads, active>>, OpeningOK(threads, active, connector'), GenerationOK'
    PROVE  Sound
<1>1. Timely
  BY DEF Timely
<1> QED BY <1>1 DEF Sound, IInv

\* The requests and the readiness event open what is pending.
LEMMA OpenStep ==
    ASSUME IInv, NEW w, World(w), w.threads = threads, NEW p, OpenPending(w, p),
           UNCHANGED <<generation, main, stopping>>, phase' \in {"starting", "ready", "down"},
           posted' \in 0..MaxGenerations
    PROVE  Sound
<1> DEFINE ready == p = "ready" /\ ~stopping /\ command = "set" /\ worker \notin {"closed", "null"}
           v == OpenPendingConversation(w, ready)
           u == OpenPendingConnectorCallback(v, ready)
<1>1. threads' = u.threads /\ active' = u.active /\ thread' = u.thread /\ connector' = u.connector
  BY DEF OpenPending
<1>2. ready \in BOOLEAN /\ gen \in 1..MaxGenerations
  BY Facts
<1> HIDE DEF ready
<1>3. Opens(w, v)
  BY <1>2, OpensConversation
<1> HIDE DEF v
<1>4. World(v)
  BY <1>3 DEF Opens
<1>5. Opens(v, u)
  BY <1>2, <1>4, OpensConnector
<1> HIDE DEF u
<1>6. Opens(w, u)
  BY <1>3, <1>5, OpensChain
<1>7. /\ OpeningOK(threads', active', connector') /\ thread' \in BOOLEAN
      /\ DOMAIN threads \subseteq DOMAIN threads' /\ \A t \in DOMAIN threads : threads'[t] = threads[t]
      /\ \A t \in DOMAIN threads' \ DOMAIN threads : threads'[t].gen = gen
      /\ threads' = threads \/ Admits(gen)
  BY <1>1, <1>6 DEF Opens, World
<1>8. TypeOK'
  BY <1>7 DEF IInv, TypeOK, OpeningOK, generation, Connector
<1>9. GenerationOK'
  <2>1. \A t \in active' : threads'[t].gen = gen
    BY <1>7 DEF IInv, GenerationOK, OpeningOK
  <2>2. CASE threads' = threads
    <3>1. active' = active
      BY <1>7, <2>2 DEF IInv, OpeningOK
    <3> QED BY <2>2, <3>1 DEF IInv, GenerationOK, generation
  <2>3. CASE Admits(gen)
    BY <2>1, <2>3 DEF IInv, GenerationOK, generation, Admits
  <2> QED BY <1>7, <2>2, <2>3
<1>10. Timely
  BY <1>7 DEF Timely
<1> QED BY <1>7, <1>8, <1>9, <1>10 DEF Sound, IInv

\* onStartCommand() with something to open.
LEMMA RequestStep == ASSUME IInv, NEW what \in Callbacks \cup {Conversation}, Request(what) PROVE Sound
<1> DEFINE w == IF what = Conversation THEN [Opening EXCEPT !.thread = TRUE]
                ELSE [Opening EXCEPT !.connector = Offer(@, what)]
<1>1. OpenPending(w, phase) /\ UNCHANGED <<generation, mainVars, posted>>
  BY DEF Request
<1>2. World(w) /\ w.threads = threads
  <2>1. CASE what = Conversation
    BY <2>1, Facts, Zenon DEF World
  <2>2. CASE what # Conversation
    <3> DEFINE c == Offer(connector, what)
    <3>1. OpeningOK(threads, active, c)
      BY <2>2, ConnectorSteps DEF IInv
    <3>2. c \in Connector
      BY <3>1 DEF OpeningOK
    <3>3. w = [Opening EXCEPT !.connector = c]
      BY <2>2, Facts
    <3> HIDE DEF c, w
    <3> QED BY <3>1, <3>2, <3>3, Facts DEF World
  <2> QED BY <2>1, <2>2
<1> HIDE DEF w
<1>3. phase' \in {"starting", "ready", "down"} /\ posted' \in 0..MaxGenerations
  BY <1>1 DEF IInv, TypeOK, mainVars
<1> QED BY <1>1, <1>2, <1>3, OpenStep DEF mainVars

\* The readiness event.
LEMMA ReadyStep == ASSUME IInv, ReadyHandled PROVE Sound
<1>1. posted' \in 0..MaxGenerations /\ UNCHANGED <<generation, main, stopping, requests>>
  <2>1. MaxGenerations \in Nat
    BY ActivationsAssumption
  <2> QED BY <2>1 DEF ReadyHandled
<1>2. CASE phase' = "ready" /\ OpenPending(Opening, "ready")
  BY <1>1, <1>2, Facts, OpenStep
<1>3. CASE UNCHANGED <<phase, opening>>
  <2>1. TypeOK' /\ GenerationOK'
    BY <1>1, <1>3 DEF IInv, TypeOK, GenerationOK, opening, generation
  <2> QED BY <1>3, <2>1, NoThread DEF opening, IInv
<1> QED BY <1>2, <1>3 DEF ReadyHandled

\* The other steps of the main thread leave the threads alone.
LEMMA MainSound == ASSUME IInv, MainStep PROVE Sound
<1>1. CASE \E what \in Callbacks \cup {Conversation} : Request(what)
  BY <1>1, RequestStep
<1>2. OpeningOK(threads, active, connector) /\ OpeningOK(threads, active, CancelPending(connector))
  BY ConnectorSteps DEF IInv
<1>3. connector \in Connector /\ CancelPending(connector) \in Connector
  BY <1>2 DEF OpeningOK
<1> DEFINE cancelled == CancelPending(connector)
<1> HIDE DEF cancelled
<1>4. CASE \E stop \in BOOLEAN : Shutdown(stop)
  <2>1. connector' \in {connector, cancelled} /\ UNCHANGED <<threads, active>>
    BY <1>4 DEF Shutdown, cancelled
  <2>2. OpeningOK(threads, active, connector') /\ connector' \in Connector
    BY <1>2, <1>3, <2>1 DEF cancelled
  <2>3. TypeOK'
    BY <1>4, <2>2 DEF Shutdown, IInv, TypeOK, Connector
  <2>4. GenerationOK'
    BY <1>4 DEF Shutdown, IInv, GenerationOK
  <2> QED BY <2>1, <2>2, <2>3, <2>4, NoThread
<1>5. CASE CommandSet
  <2>1. TypeOK' /\ GenerationOK' /\ UNCHANGED opening
    BY <1>5 DEF CommandSet, IInv, TypeOK, GenerationOK, opening, mainVars
  <2> QED BY <1>2, <2>1, NoThread DEF opening
<1>6. CASE ReadyHandled
  BY <1>6, ReadyStep
<1>7. CASE StopAgain
  <2>1. connector' = cancelled /\ UNCHANGED <<threads, active>>
    BY <1>7 DEF StopAgain, cancelled
  <2>2. TypeOK'
    BY <1>3, <1>7, <2>1 DEF StopAgain, IInv, TypeOK, mainVars, cancelled, Connector
  <2>3. GenerationOK'
    BY <1>7 DEF StopAgain, IInv, GenerationOK, mainVars
  <2> QED BY <1>2, <2>1, <2>2, <2>3, NoThread DEF cancelled
<1>8. CASE InterruptActivations
  <2>1. TypeOK'
    BY <1>8, Zenon DEF InterruptActivations, IInv, TypeOK, opening
  <2>2. GenerationOK'
    BY <1>8 DEF InterruptActivations, IInv, GenerationOK, opening
  <2> QED BY <1>2, <1>8, <2>1, <2>2, NoThread DEF InterruptActivations, opening
<1>9. CASE Destroy
  <2>1. connector' = cancelled /\ UNCHANGED <<threads, active>>
    BY <1>9 DEF Destroy, cancelled
  <2>2. TypeOK'
    BY <1>3, <1>9, <2>1, Zenon DEF Destroy, IInv, TypeOK, cancelled, Connector
  <2>3. GenerationOK'
    BY <1>9 DEF Destroy, IInv, GenerationOK
  <2> QED BY <1>2, <2>1, <2>2, <2>3, NoThread DEF cancelled
<1>10. CASE Destroyed
  <2>1. TypeOK' /\ GenerationOK' /\ UNCHANGED opening
    BY <1>10 DEF Destroyed, IInv, TypeOK, GenerationOK, opening
  <2> QED BY <1>2, <2>1, NoThread DEF opening
<1>11. CASE WorkerEnded
  <2>1. connector' \in {connector, cancelled} /\ UNCHANGED <<threads, active>>
    BY <1>11 DEF WorkerEnded, cancelled
  <2>2. OpeningOK(threads, active, connector') /\ connector' \in Connector
    BY <1>2, <1>3, <2>1 DEF cancelled
  <2>3. TypeOK'
    BY <1>11, <2>2 DEF WorkerEnded, IInv, TypeOK, Connector
  <2>4. GenerationOK'
    BY <1>11 DEF WorkerEnded, IInv, GenerationOK
  <2> QED BY <2>1, <2>2, <2>3, <2>4, NoThread
<1>12. CASE Restart
  <2>1. TypeOK'
    <3>1. gen' \in 1..MaxGenerations
      <4>1. gen \in 1..MaxGenerations /\ MaxGenerations \in Nat /\ gen < MaxGenerations /\ gen' = gen + 1
        BY <1>12, ActivationsAssumption DEF Restart, IInv, TypeOK
      <4> QED BY <4>1
    <3> QED BY <1>12, <3>1, Zenon DEF Restart, IInv, TypeOK, opening
  <2>2. GenerationOK'
    BY <1>12 DEF Restart, IInv, GenerationOK, opening
  <2> QED BY <1>2, <1>12, <2>1, <2>2, NoThread DEF Restart, opening
<1>13. CASE LaunchWorkspace
  <2>1. TypeOK' /\ GenerationOK' /\ UNCHANGED opening
    BY <1>13, Zenon DEF LaunchWorkspace, IInv, TypeOK, GenerationOK, opening
  <2> QED BY <1>2, <2>1, NoThread DEF opening
<1> QED BY <1>1, <1>4, <1>5, <1>6, <1>7, <1>8, <1>9, <1>10, <1>11, <1>12, <1>13 DEF MainStep

------------------------------------------------------------------------------
(* The worker. *)

\* The worker leaves the threads alone; what it waits for in closeAndJoin() is every
\* registered thread, and no other joins them since cancel() closed admission.
LEMMA WorkerSound == ASSUME IInv, WorkerStep \/ LinuxExits \/ ReadyObserved PROVE Sound
<1>1. UNCHANGED <<threads, active, thread, connector>>
  BY DEF WorkerStep, WorkerPrepares, WorkerSpawns, WorkerCancels, WorkerWaits, WorkerLists, WorkerJoins,
     WorkerUnchanged, LinuxExits, ReadyObserved, opening
<1>2. UNCHANGED <<main, stopping, phase, gen>>
  BY DEF WorkerStep, WorkerPrepares, WorkerSpawns, WorkerCancels, WorkerWaits, WorkerLists, WorkerJoins,
     WorkerUnchanged, LinuxExits, ReadyObserved, mainVars, generation
<1>3. OpeningOK(threads, active, connector)
  BY DEF IInv
<1>4. ASSUME TypeOK', GenerationOK' PROVE Sound
  BY <1>1, <1>3, <1>4, NoThread
<1>5. gen \in 0..MaxGenerations
  BY DEF IInv, TypeOK
<1>6. CASE WorkerPrepares
  <2>1. TypeOK'
    BY <1>1, <1>2, <1>5, <1>6 DEF WorkerPrepares, WorkerUnchanged, IInv, TypeOK
  <2>2. GenerationOK'
    BY <1>1, <1>2, <1>6 DEF WorkerPrepares, IInv, GenerationOK
  <2> QED BY <1>4, <2>1, <2>2
<1>7. CASE WorkerSpawns
  <2>1. TypeOK'
    BY <1>1, <1>2, <1>7 DEF WorkerSpawns, WorkerUnchanged, IInv, TypeOK
  <2>2. GenerationOK'
    BY <1>1, <1>2, <1>7 DEF WorkerSpawns, IInv, GenerationOK
  <2> QED BY <1>4, <2>1, <2>2
<1>8. CASE WorkerCancels
  <2>1. TypeOK'
    BY <1>1, <1>2, <1>8, Zenon DEF WorkerCancels, WorkerUnchanged, IInv, TypeOK
  <2>2. GenerationOK'
    BY <1>1, <1>2, <1>8 DEF WorkerCancels, IInv, GenerationOK
  <2> QED BY <1>4, <2>1, <2>2
<1>9. CASE WorkerWaits
  <2>1. TypeOK'
    BY <1>1, <1>2, <1>9 DEF WorkerWaits, WorkerUnchanged, IInv, TypeOK
  <2>2. GenerationOK'
    BY <1>1, <1>2, <1>9 DEF WorkerWaits, IInv, GenerationOK
  <2> QED BY <1>4, <2>1, <2>2
<1>10. CASE WorkerLists
  <2>1. TypeOK'
    BY <1>1, <1>2, <1>10, Zenon DEF WorkerLists, WorkerUnchanged, IInv, TypeOK
  <2>2. GenerationOK'
    BY <1>1, <1>2, <1>10 DEF WorkerLists, IInv, GenerationOK
  <2> QED BY <1>4, <2>1, <2>2
<1>11. CASE WorkerJoins
  <2>1. TypeOK'
    BY <1>1, <1>2, <1>11 DEF WorkerJoins, WorkerUnchanged, IInv, TypeOK
  <2>2. active = {}
    BY <1>11 DEF WorkerJoins, IInv, GenerationOK, OpeningOK
  <2>3. GenerationOK'
    BY <1>1, <1>2, <1>11, <2>2 DEF WorkerJoins, IInv, GenerationOK
  <2> QED BY <1>4, <2>1, <2>3
<1>12. CASE LinuxExits
  <2>1. TypeOK'
    BY <1>1, <1>2, <1>12 DEF LinuxExits, IInv, TypeOK
  <2>2. GenerationOK'
    BY <1>1, <1>2, <1>12 DEF LinuxExits, IInv, GenerationOK
  <2> QED BY <1>4, <2>1, <2>2
<1>13. CASE ReadyObserved
  <2>1. TypeOK'
    BY <1>1, <1>2, <1>5, <1>13 DEF ReadyObserved, generation, IInv, TypeOK
  <2>2. GenerationOK'
    BY <1>1, <1>2, <1>13 DEF ReadyObserved, generation, IInv, GenerationOK
  <2> QED BY <1>4, <2>1, <2>2
<1> QED BY <1>6, <1>7, <1>8, <1>9, <1>10, <1>11, <1>12, <1>13 DEF WorkerStep

------------------------------------------------------------------------------
(* An activation thread. *)

\* A thread becomes a.  The connector changes with the thread that flies, if at all.
LEMMA ThreadLocal ==
    ASSUME IInv, NEW t \in DOMAIN threads, NEW a \in Activation, ActivationOK(a),
           threads' = [threads EXCEPT ![t] = a], a.gen = threads[t].gen,
           threads[t].pc # "ended" \/ a.pc = "ended",
           active' = IF a.pc = "ended" THEN active \ {t} ELSE active,
           a.pc = "started" => threads[t].pc = "started",
           a.what = threads[t].what \/ a.pc = "ended",
           connector' \in Connector, connector'.pending = connector.pending,
           connector'.consumed = connector.consumed,
           \/ connector' = connector /\ (Flies(a) <=> Flies(threads[t]))
           \/ Flies(threads[t]) /\ ~Flies(a) /\ ~connector'.inFlight /\ connector'.clients = connector.clients
           \/ ~Flies(threads[t]) /\ ~Flies(a) /\ connector' = connector
           \/ /\ Flies(threads[t]) /\ Flies(a) /\ connector'.inFlight = connector.inFlight
              /\ threads[t].pc = "started" /\ a.pc # "started" /\ connector'.clients = connector.clients + 1,
           threads[t].process = "none" /\ a.process = "alive" =>
               threads[t].gen = gen /\ worker = "run" /\ main = "free" /\ ~stopping,
           UNCHANGED <<generation, mainVars, posted, thread, requests>>
    PROVE  Sound
<1> USE DEF generation, mainVars
<1>1. threads \in Seq(Activation) /\ OpeningOK(threads, active, connector)
  BY DEF IInv, OpeningOK
<1>2. /\ threads' \in Seq(Activation) /\ DOMAIN threads' = DOMAIN threads /\ threads'[t] = a
      /\ \A u \in DOMAIN threads : u # t => threads'[u] = threads[u]
  BY <1>1
<1>3. active' = {u \in DOMAIN threads' : threads'[u].pc # "ended"}
  BY <1>1, <1>2 DEF OpeningOK
<1>4. \A u \in DOMAIN threads' : ActivationOK(threads'[u])
  BY <1>1, <1>2 DEF OpeningOK
<1>5. \A u \in DOMAIN threads : Flies(threads'[u]) => Flies(threads[u])
  BY <1>2
<1>6. connector.clients = 0 \/ connector.clients = 1
  BY <1>1 DEF OpeningOK, Connector
<1>7. OpeningOK(threads', active', connector')
  <2>1. CASE connector' = connector /\ (Flies(a) <=> Flies(threads[t]))
    <3>1. \A u \in DOMAIN threads : Flies(threads'[u]) <=> Flies(threads[u])
      BY <1>2, <2>1
    <3>2. \A u \in DOMAIN threads : threads'[u].pc = "started" => threads[u].pc = "started"
      BY <1>2
    <3> QED BY <1>1, <1>2, <1>3, <1>4, <2>1, <3>1, <3>2 DEF OpeningOK
  <2>2. CASE Flies(threads[t]) /\ ~Flies(a) /\ ~connector'.inFlight /\ connector'.clients = connector.clients
    <3>1. \A u \in DOMAIN threads' : ~Flies(threads'[u])
      BY <1>1, <1>2, <2>2 DEF OpeningOK
    <3> QED BY <1>1, <1>2, <1>3, <1>4, <1>6, <2>2, <3>1 DEF OpeningOK
  <2>3. CASE /\ Flies(threads[t]) /\ Flies(a) /\ connector'.inFlight = connector.inFlight
             /\ threads[t].pc = "started" /\ a.pc # "started" /\ connector'.clients = connector.clients + 1
    <3>1. connector.clients = 0 /\ \A u \in DOMAIN threads : Flies(threads[u]) => u = t
      BY <1>1, <2>3 DEF OpeningOK
    <3>2. \A u \in DOMAIN threads : Flies(threads'[u]) => u = t
      BY <1>5, <3>1
    <3> QED BY <1>1, <1>2, <1>3, <1>4, <2>3, <3>1, <3>2 DEF OpeningOK
  <2> QED BY <2>1, <2>2, <2>3
<1>8. TypeOK'
  BY <1>2, <1>3 DEF IInv, TypeOK, Connector
<1>9. GenerationOK'
  <2>1. active' \subseteq active /\ \A u \in active' : threads'[u].gen = threads[u].gen
    BY <1>1, <1>2, <1>3 DEF OpeningOK
  <2> QED BY <2>1 DEF IInv, GenerationOK
<1>10. Timely
  BY <1>2 DEF Timely
<1> QED BY <1>7, <1>8, <1>9, <1>10 DEF Sound, IInv

\* The thread that ThreadBecomes makes.
LEMMA Becomes ==
    ASSUME IInv, NEW t \in DOMAIN threads,
           NEW pc \in {"waiting", "stopping", "completing", "leaving"}, NEW process \in {"none", "alive", "exited"},
           ThreadBecomes(t, pc, process)
    PROVE  \E a \in Activation :
              /\ threads' = [threads EXCEPT ![t] = a] /\ a.gen = threads[t].gen
              /\ a.what = threads[t].what /\ a.pc = pc /\ a.process = process
<1> DEFINE a == [threads[t] EXCEPT !.pc = pc, !.process = process]
<1>1. threads[t] \in Activation
  BY DEF IInv, OpeningOK
<1>2. threads' = [threads EXCEPT ![t] = a]
  BY Zenon DEF ThreadBecomes
<1>3. a \in Activation /\ a.gen = threads[t].gen /\ a.what = threads[t].what /\ a.pc = pc /\ a.process = process
  BY <1>1, Zenon DEF Activation
<1> HIDE DEF a
<1> QED BY <1>2, <1>3, Zenon

\* Every step of a thread and of its client.
LEMMA ThreadSound == ASSUME IInv, NEW t \in DOMAIN threads, ThreadStep(t) \/ ProcessExits(t) PROVE Sound
<1>1. UNCHANGED <<generation, mainVars, posted, thread, requests>>
  BY DEF ThreadStep, ThreadStarts, ThreadWaits, ThreadStops, ThreadCompletes, ThreadLeaves, ProcessExits, ThreadUnchanged
<1>2. /\ threads[t] \in Activation /\ ActivationOK(threads[t]) /\ connector \in Connector
  BY DEF IInv, OpeningOK
<1>3. \A x : x.what = threads[t].what => (Flies(x) <=> threads[t].what \in Callbacks /\ x.pc \notin {"leaving", "ended"})
  BY DEF Flies
<1>4. ASSUME NEW pc \in {"waiting", "stopping", "completing"}, NEW process \in {"none", "alive", "exited"},
             ThreadBecomes(t, pc, process), UNCHANGED <<active, connector>>,
             threads[t].pc \notin {"leaving", "ended"},
             pc = "completing" => process # "alive", threads[t].process = "none" => process = "none"
      PROVE  Sound
  <2>1. PICK a \in Activation :
           /\ threads' = [threads EXCEPT ![t] = a] /\ a.gen = threads[t].gen
           /\ a.what = threads[t].what /\ a.pc = pc /\ a.process = process
    BY <1>4, Becomes
  <2>2. Flies(a) <=> Flies(threads[t])
    BY <1>3, <1>4, <2>1
  <2>3. ActivationOK(a)
    BY <1>4, <2>1 DEF ActivationOK
  <2> QED BY <1>1, <1>2, <1>4, <2>1, <2>2, <2>3, ThreadLocal, Zenon
<1>5. CASE ThreadStarts(t)
  <2>1. threads[t].pc = "started" /\ threads[t].process = "none" /\ UNCHANGED active
    BY <1>2, <1>5 DEF ThreadStarts, ActivationOK
  <2>2. CASE ThreadBecomes(t, "stopping", "none") /\ UNCHANGED connector
    BY <1>4, <2>1, <2>2
  <2>3. CASE Admits(threads[t].gen) /\ Created(t)
    <3>1. PICK a \in Activation :
             /\ threads' = [threads EXCEPT ![t] = a] /\ a.gen = threads[t].gen
             /\ a.what = threads[t].what /\ a.pc = "waiting" /\ a.process = "alive"
      BY <2>3, Becomes DEF Created
    <3>2. ActivationOK(a) /\ (Flies(a) <=> Flies(threads[t]))
      BY <1>3, <2>1, <3>1 DEF ActivationOK
    <3>3. threads[t].gen = gen /\ worker = "run" /\ main = "free" /\ ~stopping
      BY <2>3 DEF Admits, IInv, GenerationOK, TypeOK
    <3>4. CASE threads[t].what \in Callbacks
      <4>1. /\ connector' \in Connector /\ connector'.pending = connector.pending
            /\ connector'.consumed = connector.consumed /\ connector'.inFlight = connector.inFlight
            /\ connector'.clients = connector.clients + 1
        BY <1>2, <2>3, <3>4 DEF Created, Connector
      <4>2. Flies(threads[t]) /\ Flies(a)
        BY <1>3, <2>1, <3>1, <3>4
      <4> QED BY <1>1, <2>1, <3>1, <3>2, <3>3, <4>1, <4>2, ThreadLocal, Zenon
    <3>5. CASE threads[t].what \notin Callbacks
      <4>1. connector' = connector
        BY <2>3, <3>5 DEF Created
      <4> QED BY <1>1, <1>2, <2>1, <3>1, <3>2, <3>3, <4>1, ThreadLocal, Zenon
    <3> QED BY <3>4, <3>5
  <2> QED BY <1>5, <2>2, <2>3 DEF ThreadStarts
<1>6. CASE ThreadWaits(t)
  BY <1>2, <1>4, <1>6 DEF ThreadWaits, Activation
<1>7. CASE ThreadStops(t)
  <2> DEFINE process == IF threads[t].process = "alive" THEN "exited" ELSE threads[t].process
  <2>1. /\ process \in {"none", "alive", "exited"} /\ process # "alive"
        /\ threads[t].process = "none" => process = "none"
    BY <1>2 DEF Activation
  <2>2. ThreadBecomes(t, "completing", process) /\ UNCHANGED <<active, connector>> /\ threads[t].pc = "stopping"
    BY <1>7 DEF ThreadStops
  <2> HIDE DEF process
  <2> QED BY <1>4, <2>1, <2>2
<1>8. CASE ThreadCompletes(t)
  <2>1. threads[t].process \in {"none", "alive", "exited"} /\ threads[t].pc = "completing" /\ UNCHANGED active
        /\ threads[t].process # "alive"
    BY <1>2, <1>8 DEF ThreadCompletes, Activation, ActivationOK
  <2>2. PICK a \in Activation :
           /\ threads' = [threads EXCEPT ![t] = a] /\ a.gen = threads[t].gen
           /\ a.what = threads[t].what /\ a.pc = "leaving" /\ a.process = threads[t].process
    BY <1>8, <2>1, Becomes DEF ThreadCompletes
  <2>3. ActivationOK(a) /\ ~Flies(a) /\ (Flies(threads[t]) <=> threads[t].what \in Callbacks)
    BY <1>3, <2>1, <2>2 DEF ActivationOK
  <2>4. CASE threads[t].what \in Callbacks
    <3>1. /\ connector' \in Connector /\ connector'.pending = connector.pending
          /\ connector'.consumed = connector.consumed /\ ~connector'.inFlight
          /\ connector'.clients = connector.clients
      BY <1>2, <1>8, <2>4, Zenon DEF ThreadCompletes, Completed, Connector
    <3> QED BY <1>1, <2>1, <2>2, <2>3, <2>4, <3>1, ThreadLocal, Zenon
  <2>5. CASE threads[t].what \notin Callbacks
    <3>1. connector' = connector
      BY <1>8, <2>5 DEF ThreadCompletes
    <3> QED BY <1>1, <1>2, <2>1, <2>2, <2>3, <2>5, <3>1, ThreadLocal, Zenon
  <2> QED BY <2>4, <2>5
<1>9. CASE ThreadLeaves(t)
  <2> DEFINE a == Ended(threads[t].gen)
  <2>1. /\ a \in Activation /\ ActivationOK(a) /\ ~Flies(a) /\ a.pc = "ended" /\ a.gen = threads[t].gen
        /\ a.process = "exited"
    BY <1>2 DEF Ended, Activation, ActivationOK, Flies
  <2>2. threads[t].pc = "leaving" /\ threads' = [threads EXCEPT ![t] = a] /\ active' = active \ {t} /\ connector' = connector
    BY <1>9 DEF ThreadLeaves
  <2> HIDE DEF a
  <2>3. ~Flies(threads[t])
    BY <2>2 DEF Flies
  <2> QED BY <1>1, <1>2, <2>1, <2>2, <2>3, ThreadLocal, Zenon
<1>10. CASE ProcessExits(t)
  <2>1. /\ threads[t].process = "alive" /\ ThreadBecomes(t, threads[t].pc, "exited") /\ UNCHANGED <<active, connector>>
        /\ threads[t].pc \in {"waiting", "stopping"}
    BY <1>2, <1>10 DEF ProcessExits, ActivationOK, Activation
  <2> DEFINE pc == threads[t].pc
  <2>2. pc \in {"waiting", "stopping"} /\ ThreadBecomes(t, pc, "exited") /\ threads[t].pc = pc
    BY <2>1
  <2> HIDE DEF pc
  <2> QED BY <1>4, <2>1, <2>2
<1> QED BY <1>5, <1>6, <1>7, <1>8, <1>9, <1>10 DEF ThreadStep

------------------------------------------------------------------------------
(* The results. *)

\* Nothing runs in a new Service.
LEMMA InitSound == Init => IInv
<1> SUFFICES ASSUME Init PROVE IInv
  OBVIOUS
<1>1. MaxGenerations \in Nat \ {0}
  BY ActivationsAssumption
<1>2. NoCallback \in Connector
  BY DEF NoCallback, Connector
<1>3. TypeOK
  <2>1. 1 \in 1..MaxGenerations /\ 0 \in 0..MaxGenerations
    BY <1>1
  <2>2. active = {t \in DOMAIN threads : threads[t].pc # "ended"} /\ joining \subseteq DOMAIN threads
    BY DEF Init
  <2>3. connector \in Connector
    BY <1>2 DEF Init
  <2> QED BY <2>1, <2>2, <2>3, Zenon DEF Init, TypeOK, Connector
<1>4. OpeningOK(threads, active, connector)
  BY <1>2 DEF Init, OpeningOK, NoCallback
<1>5. GenerationOK
  BY DEF Init, GenerationOK
<1> QED BY <1>3, <1>4, <1>5 DEF IInv

\* Every step keeps the invariant and creates a client only in time.
LEMMA NextSound == IInv /\ [Next]_vars => Sound
<1> SUFFICES ASSUME IInv, [Next]_vars PROVE Sound
  OBVIOUS
<1>1. CASE UNCHANGED vars
  <2>1. UNCHANGED <<threads, active, connector>> /\ TypeOK' /\ GenerationOK'
    BY <1>1 DEF vars, generation, mainVars, opening, IInv, TypeOK, GenerationOK
  <2> QED BY <2>1, NoThread DEF IInv
<1> QED BY <1>1, MainSound, WorkerSound, ThreadSound DEF Next

\* The inductive invariant, for any callbacks, requests and generations.
THEOREM Invariance == Spec => []IInv
<1>1. IInv /\ [Next]_vars => IInv'
  BY NextSound DEF Sound
<1> QED BY <1>1, InitSound, PTL DEF Spec

\* A closed generation is quiet, one callback is in flight at a time and none is handed to
\* two clients, in every interleaving of the worker, the main thread and the activations.
THEOREM SoundHandoff == Spec => []HandoffIsSound
<1>1. ASSUME IInv PROVE ClosedIsQuiet
  <2> SUFFICES ASSUME NEW t \in DOMAIN threads, threads[t].gen < gen \/ worker \in {"closed", "null"}
               PROVE  threads[t].pc = "ended" /\ threads[t].process # "alive"
    BY DEF ClosedIsQuiet
  <2>1. t \notin active
    BY <1>1 DEF IInv, GenerationOK, TypeOK
  <2> QED BY <1>1, <2>1 DEF IInv, OpeningOK, ActivationOK
<1>2. ASSUME IInv PROVE InFlightIsOne
  <2> DEFINE flying == {t \in DOMAIN threads : threads[t].what \in Callbacks
                                               /\ threads[t].pc \notin {"leaving", "ended"}}
  <2>1. \A t \in DOMAIN threads : t \in flying <=> Flies(threads[t])
    BY DEF Flies
  <2>2. CASE connector.inFlight
    <3>1. PICK t \in DOMAIN threads : Flies(threads[t])
      BY <1>2, <2>2 DEF IInv, OpeningOK
    <3>2. flying = {t}
      BY <1>2, <2>1, <3>1 DEF IInv, OpeningOK
    <3>3. Cardinality(flying) = 1
      BY <3>2, FS_Singleton, Zenon
    <3> QED BY <2>2, <3>3 DEF InFlightIsOne
  <2>3. CASE ~connector.inFlight
    <3>1. flying = {}
      BY <1>2, <2>1, <2>3 DEF IInv, OpeningOK
    <3>2. Cardinality(flying) = 0
      BY <3>1, FS_EmptySet
    <3> QED BY <2>3, <3>2 DEF InFlightIsOne
  <2> QED BY <2>2, <2>3
<1>3. IInv => HandoffIsSound
  BY <1>1, <1>2 DEF IInv, OpeningOK, HandoffIsSound, HandedOnce
<1> QED BY <1>3, Invariance, PTL

\* A closed generation never admits a delayed runnable: a client is created only for the
\* running Linux of its own generation, before a cancellation, a shutdown or a destruction.
THEOREM NothingLate == Spec => NothingStartsLate
<1>1. IInv /\ [Next]_vars =>
        [\A t \in DOMAIN threads : threads[t].process = "none" /\ threads'[t].process = "alive" =>
            threads[t].gen = gen /\ worker = "run" /\ main = "free" /\ ~stopping]_vars
  BY NextSound DEF Sound, Timely
<1> QED BY <1>1, Invariance, PTL DEF Spec, NothingStartsLate
==============================================================================
