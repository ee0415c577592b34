------------------------------ MODULE MCServices ------------------------------
(* The components of the executor and of its hosts that share no state, each
   on its own: a behaviour exercises the one that `scenario` names while the
   others rest in a state where none of their actions is enabled.  *)
EXTENDS SessionOwner, Sequences, TLC

CONSTANTS
  Scenarios,                                                     \* the components exercised
  Profiles, MaxOutput, QueueCapacity, RetainedChunks,            \* ProcessEvents
  Writes, w1, w2, w3, StdinCapacity, RetainedIds, MaxCommands,   \* ProcessStdin
  Ids, BackendFeatures, MaxInFlight, OutCapacity, MaxFrames,     \* ExecServer
  l1, l2,                                                        \* SessionOwner
  ChannelKinds, MaxNumber, MaxPending, LinkCapacity,             \* HostChannels
  MaxFromServer, MaxFromClient,                                  \* HostRpcMux
  Threads, Cwds, DefaultCwd, Nowhere, MaxRequests,               \* AppServerAdapter
  Names, MaxDepth, MaxEntries,                                   \* WorkspaceFiles
  FileBackends, HandleIds, Descriptors, MaxHandles, WorkSteps,   \* FileStreams
  Alphabet, MaxPattern, MaxName, Variables,                      \* ProcessEnvironment
  Documents, MaxSignals, MaxAttach, MaxEvents,                   \* KeyboardBridge
  MaxFailures, MaxRuns,                                          \* ToolRuns
  MaxGenerations,                                                \* ApplicationOwner
  MaxSockets                                                     \* ServiceOwner

VARIABLES
  scenario,
  profile, ev, sent, pager,
  owner, asking, stdin, command,
  conn, task, pipe, native,
  chan, work, peer, link,
  acq, part, files, remote, children,
  mux, reader, server, wire, client,
  router, official, relay,
  tree, policy, by,
  walk,
  backend, handles, fds, request, worker,
  matcher, environment,
  page, keyboard, documents, tapped,
  at, outcome, present, flock, blocked, late,
  tool, todo, frames, mode, facts, objects, earned, held, stuck, budget,
  current, sessions, runtimes,
  service, served, runs, holder

-----------------------------------------------------------------------------
(* The inputs of each component. *)

MCWriteIdOf == w1 :> "a" @@ w2 :> "a" @@ w3 :> "b"

MCRequests ==
  LET Asks(method, fields) == [method |-> method, params |-> [k \in fields |-> "ok"]]
      start == {"processId", "argv", "cwd", "env", "tty"}
  IN  {Asks("process/start", start), Asks("process/start", start \cup {"networkProxy"}),
       Asks("process/terminate", {"processId"})}

MCBackendMethods == {"process/start", "process/terminate"}

MCOrigins == {l1 :> a @@ l2 :> b : <<a, b>> \in {<<"run-as", "android-app">>,
                <<"android-app", "android-app">>, <<"shizuku", "shizuku">>, <<"broker", "broker">>}}

MCNameOrder == <<".h", "a", "b">>

MCTrees ==
  LET Node(kind, to) == [kind |-> kind, to |-> to]
      Absent == Node("absent", <<>>)
      Shapes == {Absent, Node("dir", <<>>), Node("link", <<>>), Node("link", <<"b">>)}
      Places == {<<"a">>, <<"b">>, <<"a", ".h">>, <<"a", "b">>}
  IN  {[p \in {q \in Places : f[q] # Absent} |-> f[p]] :
         f \in {g \in [Places -> Shapes \cup {Node("file", <<>>)}] :
           /\ g[<<"a">>].kind # "dir" => g[<<"a", ".h">>] = Absent /\ g[<<"a", "b">>] = Absent
           /\ g[<<"a", ".h">>] \in Shapes /\ g[<<"b">>] \in Shapes}}

MCWalkOptions ==
  {o \in [maxDepth : {1, 2}, maxDirectories : {2, 5}, maxEntries : {2, 9},
          follow : BOOLEAN, prune : BOOLEAN] :
     o.maxEntries = 2 => o.maxDirectories = 2 /\ o.maxDepth = 1}

MCPolicies ==
  [inherit : {"none", "core", "all"}, ignoreDefaultExcludes : BOOLEAN,
   exclude : {{}, {"PATH"}, {"EDITOR", "API_KEY"}},
   includeOnly : {{}, {"PATH", "API_KEY", "NODE_REPL_AUTH_TOKEN"}},
   set : {{}, {"API_KEY", "EDITOR"}}, env : {{}, {"EDITOR", "NODE_REPL_AUTH_TOKEN"}}]

-----------------------------------------------------------------------------

Events == INSTANCE ProcessEvents WITH wire <- sent, reader <- pager
Stdin == INSTANCE ProcessStdin WITH WriteIdOf <- MCWriteIdOf
Server == INSTANCE ExecServer WITH Requests <- MCRequests, BackendMethods <- MCBackendMethods
Channels == INSTANCE HostChannels
Acquisition == INSTANCE RuntimeAcquisition
Mux == INSTANCE HostRpcMux
Adapter == INSTANCE AppServerAdapter
Walk == INSTANCE TreeWalk WITH
          NameOrder <- MCNameOrder, Trees <- MCTrees, WalkOptions <- MCWalkOptions
Streams == INSTANCE FileStreams
Environment == INSTANCE ProcessEnvironment WITH Policies <- MCPolicies
Keyboard == INSTANCE KeyboardBridge WITH Contexts <- Documents
Paths == INSTANCE SharedPaths
Install == INSTANCE InstallTools
Guest == INSTANCE GuestTools
Build == INSTANCE BuildTools
Qualification == INSTANCE QualificationTools
Prepared == INSTANCE PreparationTools
Application == INSTANCE ApplicationOwner
Service == INSTANCE ServiceOwner

MCContexts ==
  LET Entry(access, kind, path) == [access |-> access, kind |-> kind, path |-> path]
      At(access, path) == Entry(access, "path", <<"workspace">> \o path)
  IN  {<<Entry("write", "project_roots", <<>>)>>,
       <<Entry("write", "current_working_directory", <<>>), At("read", <<"a">>)>>,
       <<Entry("write", "project_roots", <<>>), At("none", <<"a", "a">>)>>,
       <<Entry("read", "root", <<>>), At("write", <<"a">>)>>,
       <<Entry("write", "project_roots", <<>>), At("write", <<".git">>)>>,
       <<At("write", <<>>), At("deny", <<"a">>), Entry("write", "project_roots", <<"a", ".git">>)>>}

Files == INSTANCE WorkspaceFiles WITH Contexts <- MCContexts

\* The command-line tools, each from its first step.
MCTools ==
  [official_client_package |-> Install!official_client_package,
   install_official_client |-> Install!install_official_client,
   supervise_keyring |-> Install!supervise_keyring, guest_bundle |-> Install!guest_bundle,
   inactive_integration_bundle |-> Install!inactive_integration_bundle,
   build_rootfs |-> Install!build_rootfs, rootfs_sources |-> Install!rootfs_sources,
   agent_context |-> Guest!agent_context,
   deploy_agent_context |-> Guest!deploy_agent_context,
   deploy_upgrade |-> Guest!deploy_upgrade, workspace_provider |-> Guest!workspace_provider,
   relocate |-> Guest!relocate, openUrl |-> Guest!openUrl, keyring |-> Guest!keyring,
   foldgpt_tools |-> Guest!foldgpt_tools,
   install_native_engine |-> Build!install_native_engine,
   production_candidate |-> Build!production_candidate,
   workspace_bundle |-> Build!workspace_bundle,
   pack_workspace_bundle |-> Build!pack_workspace_bundle,
   stage_kernel_python |-> Build!stage_kernel_python,
   stage_native_qualification |-> Build!stage_native_qualification,
   context_probe_build |-> Build!context_probe_build,
   combined_prepare |-> Build!combined_prepare, combined_stage |-> Build!combined_stage,
   qualify_production |-> Qualification!qualify_production,
   snapshot |-> Qualification!snapshot, collect_runtime |-> Qualification!collect_runtime,
   collect_native |-> Qualification!collect_native,
   context_probe |-> Qualification!context_probe,
   verify_receipts |-> Qualification!verify_receipts,
   collect_feasibility |-> Qualification!collect_feasibility,
   device_baseline |-> Qualification!device_baseline,
   shizuku_result |-> Qualification!shizuku_result,
   measure_device |-> Qualification!measure_device,
   combined_collect |-> Qualification!combined_collect,
   https_collect |-> Qualification!https_collect, apk_contents |-> Qualification!apk_contents,
   android_inventory |-> Qualification!android_inventory,
   inactive_preparation |-> Prepared!inactive_preparation,
   keyring_vault |-> Prepared!keyring_vault, trusted_artifact |-> Prepared!trusted_artifact]

Run == INSTANCE ToolRuns WITH Tools <- MCTools

ASSUME BackendIsDeclarable == Server!Declarable(MCBackendMethods, BackendFeatures)

-----------------------------------------------------------------------------

eventVars == <<profile, ev, sent, pager>>
stdinVars == <<owner, asking, stdin, command>>
serverVars == <<conn, task, pipe, native>>
channelVars == <<chan, work, peer, link>>
acquisitionVars == <<acq, part, files, remote, children>>
muxVars == <<mux, reader, server, wire, client>>
adapterVars == <<router, official, relay>>
filesVars == <<tree, policy, by>>
streamsVars == <<backend, handles, fds, request, worker>>
environmentVars == <<matcher, environment>>
keyboardVars == <<page, keyboard, documents, tapped>>
toolVars == <<tool, todo, frames, mode, facts, objects, earned, held, stuck, budget>>
pathVars == <<at, outcome, present, flock, blocked, late>>
applicationVars == <<current, sessions, runtimes>>
serviceVars == <<service, served, runs, holder>>

allVars == <<scenario, eventVars, stdinVars, serverVars, ownerVars,
             channelVars, acquisitionVars, muxVars,
             adapterVars, filesVars, walk, streamsVars,
             environmentVars, keyboardVars, pathVars, toolVars,
             applicationVars, serviceVars>>

(* The component of the scenario starts as it does, the others have no state. *)
Off == "off"

Init ==
  /\ scenario \in Scenarios
  /\ IF scenario = "events" THEN Events!EventInit
     ELSE profile = Off /\ ev = Off /\ sent = Off /\ pager = Off
  /\ IF scenario = "stdin" THEN Stdin!StdinInit
     ELSE owner = Off /\ asking = Off /\ stdin = Off /\ command = Off
  /\ IF scenario = "server" THEN Server!ServerInit
     ELSE conn = Off /\ task = Off /\ pipe = Off /\ native = Off
  /\ IF scenario = "owner" THEN OwnerInit
     ELSE origin = Off /\ own = Off /\ disk = Off /\
          kernel = Off /\ child = Off /\ upkeep = Off
  /\ IF scenario = "channels" THEN Channels!ChannelInit
     ELSE chan = Off /\ work = Off /\ peer = Off /\ link = Off
  /\ IF scenario = "acquisition" THEN Acquisition!AcquisitionInit
     ELSE acq = Off /\ part = Off /\ files = Off /\ remote = Off /\ children = Off
  /\ IF scenario = "mux" THEN Mux!MuxInit
     ELSE mux = Off /\ reader = Off /\ server = Off /\ wire = Off /\ client = Off
  /\ IF scenario = "adapter" THEN Adapter!AdapterInit
     ELSE router = Off /\ official = Off /\ relay = Off
  /\ IF scenario = "files" THEN Files!FilesInit
     ELSE tree = Off /\ policy = Off /\ by = Off
  /\ IF scenario = "walk" THEN Walk!WalkInit
     ELSE walk = Off
  /\ IF scenario = "streams" THEN Streams!StreamsInit
     ELSE backend = Off /\ handles = Off /\ fds = Off /\ request = Off /\ worker = Off
  /\ IF scenario = "environment" THEN Environment!MatchInit
     ELSE matcher = Off /\ environment = Off
  /\ IF scenario = "keyboard" THEN Keyboard!KeyboardInit
     ELSE page = Off /\ keyboard = Off /\ documents = Off /\ tapped = Off
  /\ IF scenario = "paths" THEN Paths!PathsInit
     ELSE at = Off /\ outcome = Off /\ present = Off /\
          flock = Off /\ blocked = Off /\ late = Off
  /\ IF scenario = "tools" THEN Run!ToolInit
     ELSE tool = Off /\ todo = Off /\ frames = Off /\ mode = Off /\ facts = Off /\
          objects = Off /\ earned = Off /\ held = Off /\ stuck = Off /\ budget = Off
  /\ IF scenario = "application" THEN Application!ApplicationInit
     ELSE current = Off /\ sessions = Off /\ runtimes = Off
  /\ IF scenario = "service" THEN Service!ServiceInit
     ELSE service = Off /\ served = Off /\ runs = Off /\ holder = Off

Rest(moving) ==
  /\ UNCHANGED scenario
  /\ IF moving = "events" THEN TRUE ELSE UNCHANGED eventVars
  /\ IF moving = "stdin" THEN TRUE ELSE UNCHANGED stdinVars
  /\ IF moving = "server" THEN TRUE ELSE UNCHANGED serverVars
  /\ IF moving = "owner" THEN TRUE ELSE UNCHANGED ownerVars
  /\ IF moving = "channels" THEN TRUE ELSE UNCHANGED channelVars
  /\ IF moving = "acquisition" THEN TRUE ELSE UNCHANGED acquisitionVars
  /\ IF moving = "mux" THEN TRUE ELSE UNCHANGED muxVars
  /\ IF moving = "adapter" THEN TRUE ELSE UNCHANGED adapterVars
  /\ IF moving = "files" THEN TRUE ELSE UNCHANGED filesVars
  /\ IF moving = "walk" THEN TRUE ELSE UNCHANGED walk
  /\ IF moving = "streams" THEN TRUE ELSE UNCHANGED streamsVars
  /\ IF moving = "environment" THEN TRUE ELSE UNCHANGED environmentVars
  /\ IF moving = "keyboard" THEN TRUE ELSE UNCHANGED keyboardVars
  /\ IF moving = "paths" THEN TRUE ELSE UNCHANGED pathVars
  /\ IF moving = "tools" THEN TRUE ELSE UNCHANGED toolVars
  /\ IF moving = "application" THEN TRUE ELSE UNCHANGED applicationVars
  /\ IF moving = "service" THEN TRUE ELSE UNCHANGED serviceVars

Next ==
  \/ scenario = "events" /\ Events!EventNext /\ Rest("events")
  \/ scenario = "stdin" /\ Stdin!StdinNext /\ Rest("stdin")
  \/ scenario = "server" /\ Server!ServerNext /\ Rest("server")
  \/ scenario = "owner" /\ OwnerNext /\ Rest("owner")
  \/ scenario = "channels" /\ Channels!ChannelNext /\ Rest("channels")
  \/ scenario = "acquisition" /\ Acquisition!AcquisitionNext /\ Rest("acquisition")
  \/ scenario = "mux" /\ Mux!MuxNext /\ Rest("mux")
  \/ scenario = "adapter" /\ Adapter!AdapterNext /\ Rest("adapter")
  \/ scenario = "files" /\ Files!FilesNext /\ Rest("files")
  \/ scenario = "walk" /\ Walk!WalkNext /\ Rest("walk")
  \/ scenario = "streams" /\ Streams!StreamsNext /\ Rest("streams")
  \/ scenario = "environment" /\ Environment!MatchNext /\ Rest("environment")
  \/ scenario = "keyboard" /\ Keyboard!KeyboardNext /\ Rest("keyboard")
  \/ scenario = "paths" /\ Paths!PathsNext /\ Rest("paths")
  \/ scenario = "tools" /\ Run!ToolNext /\ Rest("tools")
  \/ scenario = "application" /\ Application!ApplicationNext /\ Rest("application")
  \/ scenario = "service" /\ Service!ServiceNext /\ Rest("service")

(* What the component of the scenario does by itself keeps being done.  One condition
   for all of a component's tasks assumes less than one for each of them; only the
   sessions of the service need their own, since an owner can be stopped again and again. *)
Progress ==
  /\ UNCHANGED scenario
  /\ \/ scenario = "events" /\ Events!EventProgress
     \/ scenario = "stdin" /\ Stdin!StdinProgress
     \/ scenario = "server" /\ Server!ServerProgress
     \/ scenario = "channels" /\ Channels!ChannelProgress
     \/ scenario = "acquisition" /\ Acquisition!AcquisitionProgress
     \/ scenario = "mux" /\ Mux!MuxProgress
     \/ scenario = "keyboard" /\ Keyboard!KeyboardProgress
     \/ scenario = "paths" /\ Paths!PathsProgress
     \/ scenario = "application" /\ Application!ApplicationProgress
     \/ scenario = "service" /\ Service!ServiceProgress

movingVars ==
  CASE scenario = "events" -> eventVars
    [] scenario = "stdin" -> stdinVars
    [] scenario = "server" -> serverVars
    [] scenario = "channels" -> channelVars
    [] scenario = "acquisition" -> acquisitionVars
    [] scenario = "mux" -> muxVars
    [] scenario = "keyboard" -> keyboardVars
    [] scenario = "paths" -> pathVars
    [] scenario = "application" -> applicationVars
    [] scenario = "service" -> serviceVars
    [] OTHER -> <<>>

Fairness == WF_movingVars(Progress) /\ WF_serviceVars(scenario = "service" /\ Service!SessionProgress)

Spec == Init /\ [][Next]_allVars /\ Fairness

-----------------------------------------------------------------------------

(* What each component promises; the conjuncts are stated, each with its
   reason, in the component's module. *)

\* The notifications of a process are in sequence, every gap in them has a cause the
\* client is told of, paging through process/read loses and repeats no chunk (_event,
\* _event_async, _end_events and _read); a retried process/write enters the command's stdin
\* once, and a terminal command's late acknowledgement is never taken for a later one's
\* (_write, _writer, _command_exchange).
ProcessStreamsAreExact ==
  /\ scenario = "events" => Events!WireIsOrdered /\ Events!GapIsExplained /\ Events!PagesAreComplete
  /\ scenario = "stdin" => Stdin!WrittenOnce /\ Stdin!NoStaleAcknowledgement

\* Every request gives its slot back and is answered once, and native work is reaped
\* before the output drains (ExecConnection.accept, close and serve_stdio).
RequestsAreSettled ==
  scenario = "server" => Server!SlotsAreReturned /\ Server!AnsweredOnce /\ Server!CleanBeforeDrain

\* Native children always have their session's marker on disk, sessions never overlap, and
\* a cleanup reported complete is complete, across crashes, reboots and maintenance
\* (PrivateSessionOwner, the bootstraps and recover-legacy-native-session).  In the
\* application and in the user service one child at most is owned, by the session that is
\* looked at before another is opened; no owner is closed, replaced or destroyed before its
\* child has both reported and been waited for, and no child outlives its client unnoticed
\* (AppNativeSession, FoldExecutorRuntime, ExecutorService, AppSocketBridge).
OwnershipIsExclusive ==
  /\ scenario = "owner" => ChildrenAreMarked /\ SessionsAreExclusive /\ ReportIsTrue
  /\ scenario = "application" => Application!ChildIsCurrent /\ Application!ClosedIsClean
  /\ scenario = "service" =>
       Service!ServiceKeepsItsChild /\ Service!ChildHasAnOwner /\ Service!BridgeIsRight

\* A host channel refuses only what broke its protocol, and the startup manifest is on disk
\* while anything it advertises may live (the three channels, RuntimeAcquisition.run); the
\* client sees one initialize response and nothing before it that was said after it (relay
\* of host_rpc_mux.py), and the router's directory of a thread is the one the official
\* server works in (EnvironmentRouter).
HostLinksAreSound ==
  /\ scenario = "channels" => Channels!ViolationIsPeers
  /\ scenario = "acquisition" => Acquisition!AdvertisedUntilClean
  /\ scenario = "mux" => Mux!InitializeComesFirst
  /\ scenario = "adapter" => Adapter!RouterAgrees

\* Everything a model request or process changes is something its policy lets it write,
\* however far a killed helper got, and no operation turns .git into a file or plans a tree
\* that _inspect will refuse (native_files.py and the three decide methods).
FileChangesAreSound ==
  [][scenario = "files" => Files!ChangesAreAuthorized /\ Files!AdmissionIsKept]_filesVars

\* A walk that reports neither truncation nor errors lists every name within its depth and
\* reads every directory once, whatever the links do (the two _walk methods); the wildcard
\* loop decides what the wildcards mean, and every variable of a resolved environment has a
\* reason to be there (native_environment.py).
AlgorithmsAreExact ==
  /\ scenario = "walk" => Walk!WalkIsExact
  /\ scenario = "environment" => Environment!EnvironmentIsFiltered

\* Descriptors and workers belong to a handle or to the request that holds the lock, through
\* failures, cancellations and the close (native_file_streams.py, ordinary_uid_files.py).
WorkIsOwned == scenario = "streams" => Streams!WorkIsOwned

\* The keyboard is up exactly when a frame owns it, and that is the frame tapped last: a
\* late blur, a navigation, a broken connection or a skipped backlog never leave it with a
\* frame that is gone (Keyboard.signal and run, Page.handle and run).
KeyboardFollowsFocus ==
  scenario = "keyboard" =>
    Keyboard!KeyboardFollowsOwner /\ Keyboard!OwnerIsKnown /\ Keyboard!TapWins

\* No interleaving of the two sides of the shared path measurement makes it fail by itself,
\* and a side that passed means that each was refused the other's lock.
MeasurementIsSound == scenario = "paths" => Paths!MeasurementIsSound

\* What a tool publishes was verified by the run that published it, and after every step,
\* so after a crash anywhere, no journal or evidence is ahead of what it describes.
EvidenceIsSound == scenario = "tools" => Run!EvidenceIsSound

\* However a tool ends it has given back all it could, and one that is meant to be started
\* again does not refuse what a crashed run of its own left.
EndsClean == scenario = "tools" => Run!EndsClean

\* No tool replaces or removes what somebody else put where it publishes.
KeepsTheirs == [][scenario = "tools" => Run!KeepsTheirs]_objects

\* Something a component must still do: end a stream, answer a write, clean up a connection,
\* end a channel, a launch or a relay, apply a keyboard intent, end a measurement, close an
\* owner of a native session.
Owed ==
  \/ scenario = "events" /\ Events!StreamEndOwed
  \/ scenario = "stdin" /\ Stdin!AnswerOwed
  \/ scenario = "server" /\ Server!CleanupOwed
  \/ scenario = "channels" /\ Channels!ChannelEndOwed
  \/ scenario = "acquisition" /\ Acquisition!LaunchEndOwed
  \/ scenario = "mux" /\ Mux!RelayEndOwed
  \/ scenario = "keyboard" /\ Keyboard!IntentOwed
  \/ scenario = "paths" /\ Paths!MeasurementOwed
  \/ scenario = "application" /\ Application!OwnerEndOwed
  \/ scenario = "service" /\ Service!ServiceEndOwed

\* What is owed is done: a peer that leaves, stops reading or hangs keeps no stream, writer,
\* connection, channel, launch or relay open, no tap unanswered and no measurement running
\* (the finally blocks of the six components, Keyboard.run, Measurement.wait); an owner that
\* is stopped is closed or asks for its process to be retired, a service that is destroyed
\* ends and a client that dies takes its child along, but for a child that is quarantined
\* or can no longer prove its end (finishWhenClean, finishDestroy, binderDied).
ServicesEnd == Owed ~> ~Owed
=============================================================================
