------------------------- MODULE QualificationTools -------------------------
(***************************************************************************)
(* The tools that qualify what runs on the phone: they prepare a session   *)
(* or read one that has ended, and write a verdict beside the evidence.  A *)
(* verdict's output directory is new, so it belongs to one run.  After     *)
(* them the collectors, which only read: they observe the phone or an      *)
(* artifact that something else has produced, and write what they have     *)
(* seen in an output of their own.  The raw streams and command logs kept  *)
(* beside a verdict are left out.                                          *)
(***************************************************************************)
EXTENDS ToolSteps

\* An exception the tool raises itself.
Refuse(object) == Expect(object, {})

\* A read whose failure is put on the list of errors instead of raised.
Observed(fact) == Either(Check(fact), Note("errors"))

-----------------------------------------------------------------------------
(* tools/runtime/qualify-production-device.py *)

qualification_inputs == Check("client sources")
successful_cleanup(fact) == Checks(<<"session closed", "both receipts", fact>>)
run(fact) == Check(fact)
status == run("status") \o Check("status is JSON")

qualifyIdentity == run("boot before") \o Checks(<<"one APK", "installed APK", "uid">>)
qualifyIdle == status \o Check("no session before")
qualifyAccount == run("selected user") \o Check("one account")
qualifyBase == run("new base") \o Checks(<<"talloc alias", "cache directories">>)
qualifyTransfer == qualification_inputs \o run("client transferred") \o Check("client digests")

\* The session may exist as soon as PREPARE is sent, answered or not.
qualifyPrepare ==
    Note("prepared") \o Take("session") \o run("PREPARE") \o status \o Check("ready in time")
qualifyStartup == run("startup manifest") \o Either(run("owner after delay"), <<>>)
qualifyController ==
    Open("streams", Take("controller") \o Note("controller started") \o Drop("controller")
                    \o Note("controller ended"))
qualifyClient == Checks(<<"client report", "client passed">>)

\* STOP is only sent after the status and the log have been read.  What was observed is
\* weighed in the verdict, which stands only if the controller's process has ended too.
qualifyStop ==
    status \o run("log") \o Drop("session") \o status \o run("boot after")
    \o IfNoted("controller started",
               IfNoted("controller ended", <<>>, Drop("controller")), <<>>)
    \o IfNoted("client accepted", <<>>, Refuse("report"))
    \o Checks(<<"boot unchanged", "owner absent">>) \o successful_cleanup("cleanup verified")

\* verify_restart(): a second session must come up and go away as cleanly as the first.
verify_restart ==
    status \o successful_cleanup("first generation closed")
    \o Try(Take("session") \o run("PREPARE again") \o status
           \o Checks(<<"ready again", "startup again", "new endpoint", "fresh admission">>),
           Drop("session") \o status \o run("boot again"))
    \o successful_cleanup("restart cleanup") \o Checks(<<"restart resources absent",
                                                         "restart boot unchanged">>)

qualifyFinally ==
    IfNoted("prepared", Attempt(qualifyStop \o Note("first cycle")), <<>>)
    \o IfNoted("first cycle",
         Either(Note("passed"),
                Attempt(Either(Check("caches outside the runtime"), <<>>)
                        \o verify_restart \o Note("passed"))), <<>>)
    \o run("log") \o IfNoted("passed", Write("report", "passed"), Write("report", "failed"))

qualify_production ==
    [steps |-> Put("report", "absent")
               \o Try(Attempt(qualifyIdentity \o qualifyIdle \o qualifyAccount \o qualifyBase
                              \o qualifyTransfer \o qualifyPrepare \o qualifyStartup
                              \o qualifyController \o qualifyClient \o Note("client accepted")),
                      qualifyFinally),
     objects |-> {"report"}, keeps |-> {"session", "controller"}, resumes |-> TRUE,
     earns |-> {Earns("report", "passed",
                      {"passed", "client accepted", "installed APK", "no session before", "client digests",
                       "session", "owner absent", "cleanup verified", "boot unchanged"})}] @@ Plain

-----------------------------------------------------------------------------
(* tools/runtime/snapshot-native-qualification.py *)

fixture_names == Check("dedicated workspace")
snapshotDevice == Observed("boot before") \o Observed("stock indicators") \o Observed("shell context")
snapshotProcesses == Observed("process table")
snapshotPackages == Observed("package files")
snapshotFixture == Either(Observed("fixture bytes") \o Observed("git listing"), <<>>)
snapshotBoot == Observed("same boot")
snapshotCompare == Either(Check("earlier snapshot"), <<>>)

snapshot ==
    [steps |-> Either(fixture_names, <<>>) \o Check("arguments") \o PutNew("output", "whole")
               \o snapshotDevice \o snapshotProcesses \o snapshotPackages \o snapshotFixture
               \o snapshotBoot \o snapshotCompare
               \o IfNoted("errors", Write("snapshot", "incomplete") \o Refuse("output"),
                          Write("snapshot", "complete")),
     objects |-> {"output", "snapshot"}, foreign |-> {"output"}, races |-> {"output"},
     earns |-> {Earns("snapshot", "complete", {"process table", "package files", "same boot"})}]
    @@ Plain

-----------------------------------------------------------------------------
(* tools/runtime/collect-runtime-qualification.py *)

strict == Check("no duplicate field")
runtimeRead(fact) == Check(fact)
runtimeRecord(fact) == Attempt(runtimeRead(fact) \o strict)
identities == Check("runtime identity")
transport_clean == identities \o Check("clean ownership")
verify_rpc ==
    Checks(<<"native package location", "exact requests", "read lifecycle", "replies in order",
             "events in order", "one exit then one closed", "replies and events agree",
             "RPC bytes are the native bytes">>)
verifyRuntime ==
    transport_clean
    \o Checks(<<"native identity", "shell context", "native result", "transport wait",
                "worker result">>) \o verify_rpc
    \o Checks(<<"streams agree", "material matches", "both snapshots", "same boot",
                "installed APK", "fixture unchanged", "owners absent">>)

\* The workspace is only looked at when its owner is known to be gone.
runtimeSnapshot == Check("snapshot in time") \o IfNoted("clean", <<>>, Refuse("output"))
                   \o Checks(<<"snapshot complete", "same workload source", "reported success">>)
runtimeMaterial ==
    PutNew("material", "partial") \o runtimeRead("git unchanged") \o runtimeRead("material read")
    \o Put("material", "whole")

collect_runtime ==
    [steps |-> PutNew("output", "whole")
               \o runtimeRecord("app report") \o runtimeRecord("native evidence")
               \o Attempt(transport_clean \o Note("clean"))
               \o Attempt(runtimeSnapshot \o runtimeMaterial \o verifyRuntime \o Note("success"))
               \o IfNoted("success", Write("verification", "success"),
                          Write("verification", "failed")),
     objects |-> {"output", "material", "verification"},
     foreign |-> {"output"}, races |-> {"output"},
     earns |-> {Earns("material", "partial", {"clean"}),
                Earns("verification", "success",
                      {"success", "clean", "owners absent", "RPC bytes are the native bytes",
                       "installed APK", "same boot"})},
     orders |-> {Order("verification", {"success"}, "material", {"whole"})}] @@ Plain

-----------------------------------------------------------------------------
(* tools/runtime/collect-native-qualification.py *)

nativeStrict == Check("no duplicate key")
nativeRecord(fact) == Attempt(Check(fact) \o nativeStrict)
nativeClean == Checks(<<"fixture identity", "clean transport">>)
nativeRpc ==
    Checks(<<"read lifecycle", "replies complete", "events numbered", "replies and events agree",
             "exit successful", "RPC bytes are the native bytes">>)
nativeSnapshot == Attempt(Check("snapshot in time")) \o Attempt(Check("snapshot read") \o nativeStrict)
nativeChecks ==
    Checks(<<"records collected", "fixture identity", "snapshot before", "phases", "native identity",
             "shell context", "bootstrap pid", "native success">>) \o nativeClean
    \o Checks(<<"transport wait", "exit zero", "RPC success">>)
nativeProof == Check("exact proof flags") \o nativeRpc \o Check("streams agree")
nativeDevice ==
    Checks(<<"snapshot valid", "same boot", "packages unchanged", "installed APK",
             "fixture unchanged", "worker absent", "owners absent">>)

collect_native ==
    [steps |-> Check("report identity") \o PutNew("output", "whole")
               \o nativeRecord("app report") \o nativeRecord("native evidence")
               \o Attempt(nativeClean) \o nativeSnapshot
               \o Attempt(nativeChecks \o nativeProof \o nativeDevice \o Note("success"))
               \o IfNoted("success", Write("verification", "success"),
                          Write("verification", "failed")),
     objects |-> {"output", "verification"}, foreign |-> {"output"}, races |-> {"output"},
     earns |-> {Earns("verification", "success",
                      {"success", "clean transport", "owners absent", "installed APK",
                       "RPC bytes are the native bytes", "same boot"})}] @@ Plain

-----------------------------------------------------------------------------
(* tools/runtime/app-context-probe/probe.py and verify-receipts.py *)

identity == Check("identity read")
verify_identity == Checks(<<"app uid", "untraced", "no capabilities">>)
caseStart == Checks(<<"process started", "sandbox type">>)
caseObserve ==
    Check("ready output") \o verify_identity
    \o Checks(<<"worker of this owner", "file created", "input accepted", "finished in time",
                "exit code", "expected output", "owner reaped", "lease free">>)

\* case(): the native owner is asked to clean up on every way out, and the report is
\* written even when it does not.
case(name, begun, passed, closed) ==
    PutNew(name, "whole") \o Note(begun) \o Take(name)
    \o Try(caseStart \o caseObserve \o Note(passed),
           Try(Drop(name) \o Note(closed), Write("report", "running")))

\* main(): the second case is not admitted while the first one's owner is retained; a
\* case that does not even begin leaves no entry to ask.
probeCases ==
    Attempt(case("pipe", "pipe begun", "pipe passed", "pipe closed"))
    \o IfNoted("pipe closed", Attempt(case("pty", "pty begun", "pty passed", "pty closed")),
               IfNoted("pipe begun", <<>>, Refuse("pipe")))
probeVerdict ==
    IfNoted("pipe passed", IfNoted("pty passed", IfNoted("pty closed",
            Write("report", "passed"), Write("report", "failed")),
            Write("report", "failed")), Write("report", "failed"))

context_probe ==
    [steps |-> Attempt(Rescue(identity \o verify_identity \o Check("child of the service")
                              \o probeCases \o probeVerdict,
                              Write("report", "fatal"))),
     objects |-> {"pipe", "pty", "report"},
     earns |-> {Earns("report", "passed",
                      {"pipe passed", "pipe closed", "pty passed", "pty closed"}),
                Earns("pty", "whole", {"pipe closed"})}] @@ Plain

require(fact) == Check(fact)
native_identity == Checks(<<"native pid", "native uid", "untraced", "no capabilities", "app binary">>)
receiptInputs == Checks(<<"frozen APK", "same inventory", "harness digest", "frozen limits">>)
receiptReports ==
    Checks(<<"report passed", "no fatal", "Python waited", "no conflicting failure",
             "Java identity">>) \o native_identity \o Check("launched by Java") \o require("both cases")
receiptCase ==
    Checks(<<"case closed cleanly", "case runner">>) \o native_identity
    \o Checks(<<"physical identity", "owner reaped", "native outcome", "RPC lifecycle",
                "exact output", "one exit and one close">>)
receiptPids == require("distinct pids")
inspect == receiptInputs \o receiptReports \o receiptCase \o receiptCase \o receiptPids
verify_receipts == [steps |-> inspect, objects |-> {}] @@ Plain
-----------------------------------------------------------------------------
(* tools/runtime/collect-feasibility.py *)

shell(fact) == Check(fact)
optional(block) == Attempt(block)
process_start_ticks == shell("process stat")
processes == shell("app uid") \o shell("process list") \o Attempt(process_start_ticks)
kernel == shell("kernel configuration")
native_state == shell("owner status") \o Attempt(process_start_ticks)
config_failures == shell("runtime log")

\* Everything but the boot identity may be missing from the observation.
feasibilityBody ==
    Checks(<<"devices listed", "device authorized">>) \o shell("boot before")
    \o optional(shell("properties")) \o optional(kernel) \o optional(shell("memory"))
    \o optional(native_state) \o optional(config_failures) \o optional(processes)
    \o shell("boot after") \o Check("same boot")

collect_feasibility ==
    [steps |-> Check("beneath work") \o PutNew("output", "whole")
               \o Try(Attempt(feasibilityBody \o Note("observed")),
                      IfNoted("observed", Write("observation", "observed"),
                              Write("observation", "unavailable"))),
     objects |-> {"output", "observation"}, foreign |-> {"output"}, races |-> {"output"},
     earns |-> {Earns("observation", "observed", {"observed", "device authorized", "same boot"})}]
    @@ Plain

-----------------------------------------------------------------------------
(* tools/runtime/collect-device-baseline.py *)

checked_text(fact) == Check(fact)
effective_phantom_limit == Either(Note("phantom limit"), <<>>)
baselineCollect ==
    checked_text("model") \o checked_text("serial") \o Check("this device")
    \o checked_text("boot before") \o checked_text("app uid") \o Check("processes before")
    \o effective_phantom_limit \o Check("processes after") \o checked_text("boot after")
    \o Check("same boot")

\* The name was free when the tool started; it is created exclusively at the end.
device_baseline ==
    [steps |-> Expect("output", {"absent"}) \o baselineCollect
               \o PutNew("output", "partial") \o Put("output", "whole"),
     objects |-> {"output"}, foreign |-> {"output"}, races |-> {"output"},
     earns |-> {Earns("output", "whole", {"this device", "same boot"})}] @@ Plain

-----------------------------------------------------------------------------
(* tools/runtime/collect-shizuku-result.py *)

shizukuRead(fact) == Check(fact)
shizukuReport ==
    shizukuRead("report") \o Checks(<<"report complete", "one launch", "service uid",
                                      "cleanup complete", "streams complete">>)
shizukuIdentity ==
    shizukuRead("probe") \o Check("probe digest") \o shizukuRead("APK") \o Check("APK digest")
shizukuEvents == Checks(<<"one final event", "fixture passed", "six denials">>)
shizukuMaterial ==
    shizukuRead("workspace") \o Put("material", "partial") \o Check("safe members")
    \o Put("material", "whole")
shizukuChecks ==
    Checks(<<"sentinel unchanged", "source exact", "physical result", "archive intact",
             "archive runs here">>)
shizukuDevice ==
    shizukuRead("boot") \o Check("same boot") \o shizukuRead("indicators")
    \o Check("stock indicators") \o shizukuRead("process list") \o Check("owners absent")

shizuku_result ==
    [steps |-> PutNew("output", "whole") \o shizukuReport \o shizukuIdentity \o shizukuEvents
               \o shizukuMaterial \o shizukuChecks \o shizukuDevice
               \o Write("verification", "PASS"),
     objects |-> {"output", "material", "verification"},
     foreign |-> {"output"}, races |-> {"output"},
     earns |-> {Earns("verification", "PASS",
                      {"probe digest", "APK digest", "physical result", "same boot",
                       "owners absent"})},
     orders |-> {Order("verification", {"partial", "PASS"}, "material", {"whole"})}] @@ Plain

-----------------------------------------------------------------------------
(* tools/runtime/measure-shared-paths-device.py *)

measureRun(fact) == Check(fact)
measureIdentity ==
    measureRun("boot before") \o Check("Python digest") \o measureRun("user") \o Check("one account")
measureTransfer ==
    measureRun("new base") \o measureRun("instrument transferred") \o Check("instrument digest")

\* Both sides are started before either is waited for; one that does not end in time is
\* left running.
measureProcesses ==
    Take("native side") \o Take("controller side")
    \o Drop("native side") \o Check("native side ended well")
    \o Drop("controller side") \o Check("controller side ended well")
measureVerdict == Check("both passed") \o measureRun("boot after") \o Check("same boot")

measure_device ==
    [steps |-> Put("report", "absent")
               \o Try(measureIdentity \o measureTransfer \o measureProcesses \o measureVerdict
                      \o Note("passed"),
                      IfNoted("passed", Write("report", "passed"), Write("report", "failed"))),
     objects |-> {"report"}, keeps |-> {"native side", "controller side"}, resumes |-> TRUE,
     earns |-> {Earns("report", "passed",
                      {"passed", "native side", "controller side", "both passed",
                       "instrument digest", "same boot"})}] @@ Plain

-----------------------------------------------------------------------------
(* tools/install/combined-probe/collect.py *)

digest == Check("digest")
pairs == Check("no duplicate field")
json_data == pairs
text_lines == Check("text framing")
properties == text_lines \o Check("checksum") \o pairs \o Check("canonical order")
safe_relative == Check("safe path")
local_inputs ==
    json_data \o Checks(<<"staging plan", "plan paths">>) \o digest
    \o Checks(<<"every input once", "inputs authenticated", "descriptor bound">>) \o properties
    \o Checks(<<"descriptor scope", "descriptor matches inputs">>)
manifest_records ==
    Checks(<<"container authenticated", "manifest authenticated">>) \o text_lines \o digest
    \o safe_relative \o Checks(<<"record framing", "payload digests", "no trailing bytes",
                                 "links resolve to files">>)
parent_checks == safe_relative
deviceShell == Checks(<<"device read", "response bound", "response framing", "no duplicate answer">>)
apk_path == Checks(<<"device read", "one APK path">>)
observed_stat == Checks(<<"stat framing", "kind, owner and mode">>)
observed_blob == Check("blob bound") \o observed_stat
validate_probe ==
    Checks(<<"report fields", "probe passed", "nothing activated", "two real calls",
             "both snapshots equal", "prepared", "integration bound">>)

\* collect(): the report is read first, and the rest of the phone is compared with it.
combinedReport ==
    local_inputs \o manifest_records \o parent_checks \o deviceShell \o observed_blob \o json_data
    \o validate_probe \o Checks(<<"app identity", "fixture descriptor">>)
combinedJournal == observed_blob \o text_lines \o Checks(<<"journal prepared", "journal root">>)
combinedCoordinator ==
    observed_blob \o properties \o Check("coordinator digest") \o observed_stat \o digest
    \o Check("coordinator bindings")
combinedObserve == apk_path \o parent_checks \o deviceShell
combinedNative ==
    Checks(<<"installed APK", "native binding">>) \o observed_stat \o Checks(<<"root identity",
    "retained package", "vault and intent">>) \o observed_blob \o Check("guest account")
combinedClient == json_data \o Checks(<<"client report bound", "packaged files">>) \o digest
combinedIntegration ==
    text_lines \o pairs \o Check("integration bound") \o observed_stat \o Check("every entry")
combinedTrees == Check("no other file")
combinedUnchanged ==
    parent_checks \o deviceShell \o Check("evidence unchanged") \o apk_path \o Check("same runtime")
combinedWrite == Write("evidence", "whole") \o Write("verification", "PASS")

\* main(): a failure is reported in a file of its own.
combined_collect ==
    [steps |-> digest \o PutNew("output", "whole")
               \o Attempt(combinedReport \o combinedJournal \o combinedCoordinator
                          \o combinedObserve \o combinedNative \o combinedClient
                          \o combinedIntegration \o combinedTrees \o combinedUnchanged
                          \o combinedWrite \o Note("collected"))
               \o IfNoted("collected", <<>>, Write("failure", "FAIL")),
     objects |-> {"output", "evidence", "verification", "failure"},
     foreign |-> {"output"}, races |-> {"output"},
     earns |-> {Earns("verification", "PASS",
                      {"inputs authenticated", "probe passed", "journal prepared",
                       "installed APK", "every entry", "no other file", "evidence unchanged",
                       "same runtime"})},
     orders |-> {Order("verification", {"PASS"}, "evidence", {"whole"}),
                 Order("failure", {"partial", "FAIL"}, "verification", {"absent", "partial"})}]
    @@ Plain

-----------------------------------------------------------------------------
(* tools/install/https-acquisition/collect-android.py *)

strict_json == Check("no duplicate JSON field")
verify_setgid_report == Checks(<<"parent preserved", "new directory private">>)
dex_classes == Checks(<<"DEX header", "DEX tables", "DEX names">>)
verify_traffic == Check("traffic deltas")

\* Only a report of success has to prove the download and the use of the cache.
verify_report ==
    Checks(<<"completion binds the report", "fixed contract", "run identity", "progress">>)
    \o Either(Check("error chain"),
              verify_setgid_report \o Checks(<<"whole body", "revalidated">>) \o verify_traffic
              \o Check("same artifact twice") \o Note("pass"))
httpsInputs == Checks(<<"fixture name", "build sources">>)
httpsShell(fact) == Check(fact)
remote_hash == httpsShell("remote digest")
apk_pin == httpsShell("APK path") \o remote_hash \o Check("installed APK")
httpsDex == dex_classes \o Check("required classes")
raw_metadata == httpsShell("metadata") \o Check("owner and kind")
metadata == raw_metadata \o Check("private")
httpsParent == raw_metadata \o metadata
present == httpsShell("present")
read_fixed == metadata \o httpsShell("file bytes") \o remote_hash \o Write("evidence", "whole")

\* Without a report the evidence is incomplete; a completion alone is refused.
httpsReports ==
    present \o Either(read_fixed \o strict_json \o Either(verify_report, <<>>),
                      Either(<<>>, Expect("output", {})))
httpsCache ==
    present \o metadata \o Check("expected children")
    \o IfNoted("pass", Check("complete cache"), <<>>) \o remote_hash
    \o IfNoted("pass", Check("published bytes"), <<>>)
httpsPass == IfNoted("pass", Checks(<<"reported identities", "reported inventory">>), <<>>)
httpsService ==
    httpsShell("service state") \o httpsShell("process")
    \o IfNoted("pass", Check("worker ended"), <<>>)
httpsUnchanged ==
    metadata \o remote_hash \o Check("files unchanged") \o present \o apk_pin \o raw_metadata
    \o Checks(<<"parent unchanged", "sources unchanged">>)
httpsResult ==
    IfNoted("pass", Write("verification", "PASS"), Write("verification", "other"))

https_collect ==
    [steps |-> httpsInputs \o apk_pin \o PutNew("output", "whole") \o httpsDex \o httpsParent
               \o httpsReports \o httpsCache \o httpsPass \o httpsService \o httpsUnchanged
               \o httpsResult,
     objects |-> {"output", "evidence", "verification"},
     foreign |-> {"output"}, races |-> {"output"},
     earns |-> {Earns("verification", "PASS",
                      {"installed APK", "required classes", "whole body", "revalidated",
                       "published bytes", "reported inventory", "worker ended",
                       "files unchanged", "sources unchanged"})},
     orders |-> {Order("verification", {"PASS"}, "evidence", {"whole"})}] @@ Plain

-----------------------------------------------------------------------------
(* tools/install/verify-apk-contents.py and transaction/verify-android-inventory.py *)

verifyContents ==
    Open("APK", Checks(<<"no duplicate entry", "native runtime", "diagnostic classes",
                         "diagnostic assets", "diagnostic libraries", "diagnostic Python">>))
apk_contents == [steps |-> verifyContents, objects |-> {}] @@ Plain

canonical_member == Check("inside the root")
inventoryDigest == Check("read")
archive_members ==
    Open("archive", Check("archive size") \o inventoryDigest \o Check("pinned archive")
                    \o canonical_member \o Checks(<<"no duplicate member", "known types",
                                                    "member count">>))
physical_members == Checks(<<"hardlink groups", "no name collision">>)
compare_members == Checks(<<"same paths", "same attributes", "same times">>)
load_unique == Check("no duplicate JSON field")
verifyInventory ==
    Check("output bound") \o load_unique \o load_unique
    \o Checks(<<"probe passed", "known backend", "private stage", "member count">>)
    \o canonical_member \o archive_members \o physical_members \o compare_members
    \o Checks(<<"no shared inode", "hardlink inodes", "byte total">>)
android_inventory == [steps |-> verifyInventory, objects |-> {}] @@ Plain
=============================================================================
