----------------------------- MODULE GuestTools -----------------------------
(***************************************************************************)
(* The tools that change an installed guest or run in it: the agent        *)
(* context and its deployment, the workspace adapter of the official       *)
(* client, the relocation of a project, the URL opener, the keyring's      *)
(* unlocking, and the local command.                                       *)
(***************************************************************************)
EXTENDS ToolSteps

-----------------------------------------------------------------------------
(* tools/context/foldgpt_agent_context.py *)

unique == Check("no duplicate key")
read(object, values) ==
    Open("stream", Check("single-link file") \o Expect(object, values) \o Check("bounded text"))
contextManifest ==
    Open("stream", Checks(<<"single-link file", "bounded text">>)) \o unique
    \o Checks(<<"manifest schema", "unrooted contract", "capabilities known">>)
real_directory == Check("real directory")
guest_path == Check("canonical guest path")
identity ==
    real_directory \o Open("stream", Check("selected account")) \o Checks(<<"passwd rows", "UIDs unique",
        "nonroot account">>) \o Open("stream", Check("group rows")) \o Check("primary group")
    \o guest_path \o real_directory
render == Check("rendered bound")
merge == Checks(<<"at most one block", "block boundaries", "user text kept">>)

\* atomic(): the scratch file replaces the file, and is unlinked when it did not.
atomic(object, value) ==
    When(object, {"users", "merged", "whole"},
         Open("stream", Check("single-link file")) \o Check("own file"))
    \o With("scratch", Check("scratch synced") \o Put(object, value)
                       \o Open("directory", Check("directory synced")))

\* The block of AGENTS.md names the manifest, so the manifest is there first.
synchronizeWrite ==
    IfElse("environment", {"absent"}, atomic("environment", "whole"),
           read("environment", {"whole"}))
    \o When("agents", {"users"}, atomic("agents", "merged"))

\* Mutant: the block first.
synchronizeWriteLate ==
    When("agents", {"users"}, atomic("agents", "merged"))
    \o IfElse("environment", {"absent"}, atomic("environment", "whole"),
              read("environment", {"whole"}))

synchronize(check) ==
    real_directory \o contextManifest \o identity \o Check("selected account") \o guest_path
    \o real_directory
    \o Open("context lock",
         Check("valid lease")
         \o When("agents", {"users", "merged"}, read("agents", {"users", "merged"}))
         \o render \o merge \o real_directory
         \o (IF check THEN <<>> ELSE synchronizeWrite)
         \o read("agents", {"merged"}) \o read("environment", {"whole"}))

agent_context ==
    [steps |-> synchronize(FALSE) \o Put("result", "IN_SYNC"),
     objects |-> {"agents", "environment", "result"}, starts |-> [agents |-> "users"],
     resumes |-> TRUE,
     earns |-> {Earns("agents", "merged", {"user text kept", "block boundaries", "scratch synced"})},
     orders |-> {Order("agents", {"merged"}, "environment", {"whole"}),
                 Order("result", {"IN_SYNC"}, "agents", {"merged"})}] @@ Plain

-----------------------------------------------------------------------------
(* tools/context/deploy-agent-context.py *)

deployPrevious ==
    Checks(<<"previous completed", "same file contract", "previous identities">>)
deployLauncher == Expect("launcher", {"old", "new"})

\* A directory of its own for the evidence of each deployment.
deployEvidence == Remove("deployment") \o Check("previous launcher kept")

\* install(): what is there must be what the caller may replace; the file is written and
\* verified beside it, renamed over it and read back.
deployInstall(object, replaces) ==
    Check("real directories") \o Expect(object, replaces)
    \o Write("upload", "whole") \o Check("uploaded digest") \o Move("upload", object, "new")
    \o Check("directory synced") \o Expect(object, {"new"}) \o Write("deployment", "IN_PROGRESS")

deploySynchronize == synchronize(FALSE) \o synchronize(TRUE) \o Check("same synchronization")

\* The launcher, which starts using the others, comes last.
deployAll(replaces) ==
    deployInstall("synchronizer", replaces) \o deployInstall("manifest", replaces)
    \o deploySynchronize \o deployInstall("launcher", {"old", "new"})
    \o Write("deployment", "DEPLOYED")

deployTool(previous, replaces, starts, resumes) ==
    [steps |-> previous \o deployLauncher \o deployEvidence \o deployAll(replaces),
     objects |-> {"synchronizer", "manifest", "launcher", "upload", "deployment", "agents",
                  "environment"},
     starts |-> starts @@ [launcher |-> "old", agents |-> "users"], resumes |-> resumes,
     earns |-> {Earns("deployment", "DEPLOYED",
                      {"previous launcher kept", "uploaded digest", "same synchronization"})},
     orders |-> {Order("launcher", {"new"}, o, {"new"}) : o \in {"synchronizer", "manifest"}}
                \cup {Order("launcher", {"new"}, "agents", {"merged"}),
                      Order("deployment", {"DEPLOYED"}, "launcher", {"new"})}] @@ Plain

\* Without a previous deployment only absent or identical files are installed over; with
\* one only its files are, so an upgrade that was cut off is refused when it is retried.
deploy_agent_context == deployTool(<<>>, {"absent", "new"}, <<>>, TRUE)
deploy_upgrade ==
    deployTool(deployPrevious, {"absent", "old"},
               [synchronizer |-> "old", manifest |-> "old"], FALSE)

-----------------------------------------------------------------------------
(* tools/runtime/install-workspace-provider.py *)

adaptation_plan == Checks(<<"reviewed revision", "ASAR header", "reviewed module", "one module">>)
plan_chunks == Check("whole ASAR")
stream_digest == Check("digest")
directory_chain == Check("real directories")
snapshot(block) ==
    Open("stream", Check("unaliased file") \o block \o Check("unchanged while verified"))
verified_backup == snapshot(stream_digest \o Expect("backup", {"official"}))

\* inspect_client(): an official client, or the exact adaptation of the backup; a receipt
\* never selects the bytes, and one that is there must agree with them.
inspect_client ==
    directory_chain \o directory_chain \o Check("separate state") \o snapshot(stream_digest)
    \o IfElse("asar", {"official"},
              When("backup", {"official", "foreign"}, verified_backup)
              \o snapshot(stream_digest \o adaptation_plan \o plan_chunks),
              Expect("backup", {"official", "foreign"})
              \o snapshot(stream_digest \o Expect("backup", {"official"}) \o adaptation_plan
                          \o plan_chunks)
              \o Expect("asar", {"adapted"}))
    \o When("receipt", {"whole"}, snapshot(Check("receipt agrees")))
    \o Check("client unchanged")

sync_directory == Open("directory", Check("directory synced"))
create_state == directory_chain \o Check("state created") \o sync_directory
atomic_write(object, value, chunks, before_publish) ==
    With("temporary", chunks \o Check("temporary synced") \o before_publish
                      \o Put(object, value) \o sync_directory)
original_chunks == snapshot(Check("original bytes"))
adapted_chunks ==
    snapshot(stream_digest \o Expect("backup", {"official"}) \o adaptation_plan \o plan_chunks
             \o Check("adapted bytes"))

installBackup ==
    When("backup", {"absent"},
         atomic_write("backup", "official", original_chunks, Expect("backup", {"absent"})))
    \o verified_backup \o sync_directory
installAdapted ==
    atomic_write("asar", "adapted", adapted_chunks, Expect("asar", {"official"}))

\* install(): the client is replaced only once its backup is durable, and the receipt is
\* published last; a later run finishes what an earlier one began.
installClient ==
    inspect_client \o create_state
    \o Open("install lock",
         Checks(<<"valid lease", "lease not taken">>) \o sync_directory \o inspect_client
         \o IfElse("asar", {"official"}, installBackup \o installAdapted,
                   snapshot(<<>>) \o sync_directory)
         \o IfElse("receipt", {"absent"}, atomic_write("receipt", "whole", <<>>, <<>>),
                   snapshot(<<>>) \o sync_directory))

\* Mutant: the client is replaced before its backup is published.
installClientUnsaved ==
    inspect_client \o create_state
    \o Open("install lock",
         inspect_client \o IfElse("asar", {"official"}, installAdapted \o installBackup, <<>>)
         \o atomic_write("receipt", "whole", <<>>, <<>>))

workspace_provider ==
    [steps |-> installClient,
     objects |-> {"asar", "backup", "receipt"}, starts |-> [asar |-> "official"],
     foreign |-> {"backup"}, resumes |-> TRUE,
     earns |-> {Earns("asar", "adapted", {"reviewed module", "adapted bytes", "temporary synced"})},
     orders |-> {Order("asar", {"adapted"}, "backup", {"official"}),
                 Order("receipt", {"whole"}, "asar", {"adapted"})}] @@ Plain

-----------------------------------------------------------------------------
(* tools/runtime/legacy-projects/relocate.py *)

require_platform == Checks(<<"Linux", "not root", "dir_fd operations">>)
absolute == Check("canonical absolute path")
child_name == Check("ordinary name")
pin_directory(block) == absolute \o Open("pinned directory", block)

\* Every entry of the tree, and its copy when the tree is copied.
inspect_tree(copied) ==
    Check("one owner and device") \o child_name
    \o Either(Open("child", Check("directory unchanged") \o copied),
              Open("file", Check("single-link file") \o copied \o Check("file unchanged")))
    \o Check("listing unchanged")

require_source == absolute \o absolute \o Check("inside the boundary")
inventory ==
    require_platform \o require_source
    \o pin_directory(inspect_tree(<<>>) \o inspect_tree(<<>>) \o Check("passes agree")
                     \o pin_directory(Check("same source root")))

publish_noreplace == MoveNew("stage", "project", "whole")
copyStage ==
    inspect_tree(Put("stage", "partial")) \o inspect_tree(<<>>) \o Check("source unchanged")
    \o Put("stage", "whole") \o inspect_tree(<<>>) \o Check("copy verified")
    \o pin_directory(pin_directory(Check("same roots"))) \o Check("same stage")

\* copy_project(): the stage has a name of its own and is kept when the copy fails.
copy_project ==
    require_platform \o require_source \o absolute \o child_name \o Check("disjoint roots")
    \o inventory \o Check("reviewed inventory")
    \o pin_directory(pin_directory(
         Expect("project", {"absent"}) \o Put("stage", "partial")
         \o Take("stage directory")
         \o Try(copyStage \o publish_noreplace \o Check("parent synced")
                \o inspect_tree(<<>>) \o Check("published content")
                \o pin_directory(Check("published name")),
                Close("stage directory"))))

relocate ==
    [steps |-> Remove("result")
               \o Attempt(Either(inventory, copy_project \o Put("result", "copied"))),
     objects |-> {"project", "stage", "result"},
     foreign |-> {"project"}, races |-> {"project"},
     earns |-> {Earns("project", "whole", {"reviewed inventory", "source unchanged",
                                           "copy verified", "same roots", "same stage"}),
                Earns("result", "copied", {"published content", "published name"})},
     orders |-> {Order("result", {"copied"}, "project", {"whole"})}] @@ Plain

-----------------------------------------------------------------------------
(* tools/browser/foldgpt-open.py *)

_reject_controls == Check("no control character")
validate_url == Check("URL size") \o _reject_controls \o Check("escapes") \o _reject_controls
                \o Checks(<<"web scheme and authority", "host", "port", "canonical URL">>)
target_uid == Check("Android UID")
_unique == Check("no duplicate key")

\* The peer's kernel credentials are verified before the URL is sent to it.
open_web_url ==
    validate_url
    \o Open("channel",
         Checks(<<"deadline", "connected", "peer UID", "deadline">>) \o Put("url", "sent")
         \o Checks(<<"answer in time", "answer bound", "one line">>) \o _unique
         \o Check("accepted"))

openUrl ==
    [steps |-> Remove("url") \o Remove("handler")
               \o Attempt(Either(validate_url \o target_uid \o open_web_url
                                 \o Put("handler", "opened"),
                                 Checks(<<"not a fallback already", "fallback executable",
                                          "fallback is another program">>)
                                 \o Put("handler", "fallback"))),
     objects |-> {"url", "handler"},
     earns |-> {Earns("url", "sent", {"canonical URL", "Android UID", "peer UID"}),
                Earns("handler", "opened", {"accepted"}),
                Earns("handler", "fallback", {"not a fallback already"})}] @@ Plain

-----------------------------------------------------------------------------
(* runtime/guest/foldgpt_keyring.py *)

read_password == Take("password") \o Rescue(Check("credential input"), Close("password"))
unlock_existing ==
    Check("default collection")
    \o When("collection", {"locked"},
            With("session", Check("encrypted transport") \o Put("collection", "unlocked")
                            \o Expect("collection", {"unlocked"})))

\* The password is overwritten and the connection closed on every way out, and a close
\* that fails is a failure.
keyring ==
    [steps |-> Remove("result")
               \o Try(Attempt(read_password \o Take("connection") \o unlock_existing
                              \o Note("status")),
                      Close("password") \o Attempt(Drop("connection") \o Note("closed")))
               \o IfNoted("status", IfNoted("closed", Put("result", "unlocked"), <<>>), <<>>),
     objects |-> {"collection", "result"}, starts |-> [collection |-> "locked"],
     earns |-> {Earns("result", "unlocked", {"default collection", "status", "closed"})},
     orders |-> {Order("result", {"unlocked"}, "collection", {"unlocked"})}] @@ Plain

-----------------------------------------------------------------------------
(* tools/runtime/foldgpt_tools.py *)

readOwnJson == Open("stream", Checks(<<"own file", "bounded JSON">>))
Installation ==
    Checks(<<"ordinary UID", "application files", "files owner", "APK libraries",
             "native Python", "guest home", "nonroot guest">>)
aliases == Check("aliases compared")
physical == Check("absolute path") \o aliases
invocation ==
    Check("known tool") \o Open("stream", Check("tool present")) \o aliases
    \o Check("private working directory")
    \o Either(readOwnJson \o Either(readOwnJson \o Check("official provider"), <<>>)
              \o Check("architecture") \o aliases, <<>>)
    \o Check("Git config count") \o aliases
localStatus == readOwnJson \o Attempt(Check("process read")) \o physical
logs == Open("stream", Check("own file"))
foldgpt_tools ==
    [steps |-> readOwnJson \o Installation
               \o Either(invocation \o Put("guest", "entered"),
                         Either(localStatus \o Either(logs, <<>>), Either(logs, physical))),
     objects |-> {"guest"},
     earns |-> {Earns("guest", "entered", {"ordinary UID", "nonroot guest", "known tool",
                                           "private working directory"})}] @@ Plain
=============================================================================
