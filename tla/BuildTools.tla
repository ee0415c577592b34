----------------------------- MODULE BuildTools -----------------------------
(***************************************************************************)
(* The tools that build what is installed and put it on the phone: the     *)
(* candidate APK, the workspace bundle, the engine, the staged Python and  *)
(* fixtures, the context probe's APK and the combined probe's inputs.  An  *)
(* output directory or a base on the phone belongs to one attempt.         *)
(***************************************************************************)
EXTENDS ToolSteps

\* A file that is created exclusively and then filled.
CreateNew(object, value) == PutNew(object, "partial") \o Put(object, value)

\* A verdict that the finally clause writes, true only if the block was left at its end.
Verdict(block, object, yes) ==
    Try(block \o Note(yes), IfNoted(yes, Write(object, yes), Write(object, "failed")))

\* The same, when the exception is caught and only reported.
Reported(block, object, yes) ==
    Try(Attempt(block \o Note(yes)),
        IfNoted(yes, Write(object, yes), Write(object, "failed")))

-----------------------------------------------------------------------------
(* tools/runtime/install-native-engine-device.py *)

engineInventory == Checks(<<"package inventory", "bounded regular files">>)
engineManifest == Checks(<<"engine source and target", "manifest inventory", "payload digests",
                           "recovery patch">>)
engineCompatibility == Checks(<<"compatibility passed", "compatibility of these binaries">>)
engineTrial == Put("report", "absent")
engineIdentity == Checks(<<"boot before", "one APK", "installed APK">>)
engineOwnerClosed == Checks(<<"status read", "ordinary owner", "owner closed", "owner gone">>)
engineWorkspaceStopped == Check("workspace stopped")
engineLibraries == Checks(<<"no alias on the way", "phone libraries">>)
engineOfficial == Check("official before")
private_path == Check("no alias")

\* The files are transferred to a directory of this trial and verified there.
engineTransfer ==
    private_path \o Put("staging", "partial") \o Put("staging", "whole")
    \o Check("transferred digests")

\* Two renames: between them the phone has no engine but its backup.
engineSwap ==
    When("engine", {"old", "new"}, private_path \o Move("engine", "previous", "kept"))
    \o Move("staging", "engine", "new")
engineWrapper ==
    When("wrapper", {"old", "new"}, private_path \o Put("previous wrapper", "kept"))
    \o Check("temporary wrapper digest") \o Put("wrapper", "new")
engineVerify ==
    Expect("engine", {"new"})
    \o Checks(<<"installed digests", "same boot", "official unchanged">>)

\* main(): every exception is reported, and the report is written on every way out.
install_native_engine ==
    [steps |-> engineInventory \o engineManifest \o engineCompatibility \o engineTrial
               \o Reported(engineIdentity \o engineOwnerClosed \o engineWorkspaceStopped
                           \o engineLibraries \o engineOfficial \o engineTransfer
                           \o engineSwap \o engineWrapper \o engineVerify,
                           "report", "installed"),
     objects |-> {"engine", "previous", "wrapper", "previous wrapper", "staging", "report"},
     starts |-> [engine |-> "old", wrapper |-> "old"], resumes |-> TRUE,
     earns |-> {Earns("report", "installed",
                      {"installed", "payload digests", "compatibility of these binaries",
                       "owner gone", "workspace stopped", "phone libraries",
                       "installed digests", "official unchanged"})},
     orders |-> {Order("engine", {"absent"}, "previous", {"kept"}),
                 Order("report", {"installed"}, "engine", {"new"}),
                 Order("report", {"installed"}, "wrapper", {"new"})}] @@ Plain

-----------------------------------------------------------------------------
(* tools/runtime/build-production-candidate.py *)

strict_json == Check("no duplicate key")
candidateTree == Checks(<<"input directory", "no link", "regular inputs", "not empty">>)
descriptor_path == Check("explicit path")
output_path(object) == Check("beneath the project") \o Expect(object, {"absent"})
write_new(object, value) == CreateNew(object, value)
validate_source_closure ==
    strict_json \o candidateTree \o Checks(<<"complete payload", "canonical paths",
                                             "current checkout">>)
validate_payloads ==
    Check("payload names") \o strict_json \o Checks(<<"X11 provenance", "package valid">>)
    \o strict_json \o Check("frozen transport") \o validate_source_closure
tool_paths == Checks(<<"exact build tools", "stable platform", "tools present", "Gradle">>)

record_inputs ==
    output_path("recorded") \o tool_paths \o candidateTree \o validate_payloads \o candidateTree
    \o write_new("recorded", "whole")
admit_inputs ==
    Check("descriptor digest") \o strict_json
    \o Check("descriptor complete") \o descriptor_path \o candidateTree
    \o Check("inputs as recorded") \o descriptor_path \o tool_paths \o Check("toolchain paths")
    \o validate_payloads \o Check("local properties")
source_inventory == Checks(<<"sources listed", "some source">>)
command_for == descriptor_path
verify_packaged_inputs == Open("APK", Checks(<<"no duplicate entry", "packaged inputs">>))
candidateRun(fact) == Open("log", Check(fact))

candidateCompile ==
    candidateRun("Java version") \o candidateRun("Gradle version") \o candidateRun("lifecycle tests")
    \o candidateRun("Gradle build") \o source_inventory
    \o Check("sources unchanged") \o admit_inputs
candidateVerify ==
    CreateNew("unverified", "whole") \o verify_packaged_inputs
    \o candidateRun("executor verified") \o candidateRun("contents verified")
    \o candidateRun("signature verified") \o Checks(<<"required certificate", "embedding">>)

\* Mutant: the APK gets its name before it is verified.
candidatePublishEarly == PutNew("apk", "partial") \o Put("apk", "whole") \o candidateVerify

\* The APK gets its name by an exclusive link, once everything about it is verified.
candidatePublish == PutNew("apk", "whole") \o Remove("unverified")

build_candidate ==
    Check("candidate name") \o output_path("output") \o admit_inputs \o command_for
    \o Either(<<>>,
         Check("signing identity") \o source_inventory \o PutNew("output", "whole")
         \o write_new("inputs", "whole") \o write_new("sources", "whole") \o Check("git head")
         \o Try(candidateCompile \o candidateVerify \o candidatePublish \o Note("success"),
                IfNoted("success", write_new("report", "success"), write_new("report", "failed"))))

production_candidate ==
    [steps |-> Either(record_inputs, build_candidate),
     objects |-> {"recorded", "output", "inputs", "sources", "unverified", "apk", "report"},
     foreign |-> {"output"}, races |-> {"output"},
     earns |-> {Earns("apk", "whole", {"sources unchanged", "inputs as recorded",
                   "packaged inputs", "executor verified", "required certificate", "embedding"}),
                Earns("report", "success", {"success"})},
     orders |-> {Order("report", {"success"}, "apk", {"whole"}),
                 Order("apk", {"whole"}, "sources", {"whole"})}] @@ Plain

-----------------------------------------------------------------------------
(* tools/runtime/build-workspace-bundle.py and pack-workspace-bundle.py *)

\* A file that is already there is not fetched again; a pinned one is still compared, so
\* one whose download was cut off is refused until it is removed by hand.
acquire(object) ==
    When(object, {"absent"}, CreateNew(object, "whole")) \o Expect(object, {"whole"})
npm == acquire("metadata") \o acquire("tarball")
       \o Open("archive", Checks(<<"npm members", "npm entry types">>))

\* A tree that is already there is taken as it is.
bundleModules == When("modules", {"absent"}, Write("modules", "whole")) \o npm \o acquire("skia")
bundleWheels ==
    Checks(<<"requirements", "wheels installed">>)
    \o When("plugins", {"absent"}, Write("plugins", "whole"))
bundleEngines ==
    Checks(<<"engine read", "ARM64 engine">>)
    \o Either(Open("archive", Check("standard library members")), <<>>)
bundleReceipt == Write("receipt", "assembled")

workspace_bundle ==
    [steps |-> Checks(<<"output beneath work", "reviewed source version">>) \o bundleModules
               \o bundleWheels \o bundleEngines \o bundleReceipt,
     objects |-> {"metadata", "tarball", "skia", "modules", "plugins", "receipt"},
     earns |-> {Earns("receipt", "assembled", {"reviewed source version", "npm members",
                                               "wheels installed", "ARM64 engine"})},
     orders |-> {Order("receipt", {"assembled"}, o, {"whole"}) :
                    o \in {"metadata", "tarball", "skia"}}] @@ Plain

packWrappers == Checks(<<"output beneath work", "renderer copied", "wrappers written">>)
packMetadata == Expect("receipt", {"assembled"}) \o Check("metadata written")
packInventory == Check("only ARM64 code") \o Write("integrity", "whole") \o Write("inventory", "whole")
packArchive == Open("archive", Put("archive", "partial") \o Check("no link")) \o Put("archive", "whole")
packProvider == Check("archive digest") \o Write("provider", "whole")

pack_workspace_bundle ==
    [steps |-> packWrappers \o packMetadata \o packInventory
               \o Either(<<>>, packArchive \o packProvider),
     objects |-> {"receipt", "integrity", "inventory", "archive", "provider"},
     starts |-> [receipt |-> "assembled"], resumes |-> TRUE,
     earns |-> {Earns("provider", "whole", {"only ARM64 code", "no link", "archive digest"})},
     orders |-> {Order("archive", {"partial", "whole"}, "integrity", {"partial", "whole"})}] @@ Plain

-----------------------------------------------------------------------------
(* tools/runtime/stage-kernel-python.py and stage-native-qualification.py *)

deviceRun(fact) == Checks(<<"command in time", fact>>)

pythonPackage == deviceRun("package read") \o Checks(<<"this fixture", "package paths">>)
path_name == Checks(<<"canonical name", "names unique">>)
pythonManifests == Check("this diagnostic") \o path_name \o Check("Python data") \o path_name
                   \o Checks(<<"admitted libraries", "no name is a directory">>)
pythonInstalled == deviceRun("digests read") \o Check("installed libraries")
pythonPayload == Open("payload", Check("payload written"))
pythonTransfer ==
    Write("pushed archive", "whole") \o deviceRun("pushed digest") \o Expect("pushed archive", {"whole"})
pythonCollect == Write("collected archive", "whole") \o Check("collected pulled")
pythonVerify == Open("archive", Checks(<<"owner", "entries exact">>)) \o Check("inventory complete")

\* The tree is made by an exclusive mkdir, filled from the archive whose digest was read
\* back, and compared with what the phone returns.
stage_kernel_python ==
    [steps |-> Check("resolved identity") \o PutNew("output", "whole")
               \o Verdict(pythonPackage \o pythonManifests \o pythonInstalled \o pythonPayload
                          \o PutNew("python", "partial") \o pythonTransfer
                          \o Put("python", "whole") \o pythonCollect \o pythonVerify,
                          "verification", "verified"),
     objects |-> {"output", "python", "pushed archive", "collected archive", "verification"},
     foreign |-> {"python"}, races |-> {"python"},
     earns |-> {Earns("verification", "verified", {"verified", "installed libraries",
                   "pushed digest", "entries exact", "inventory complete"}),
                Earns("python", "whole", {"installed libraries", "pushed digest"})},
     orders |-> {Order("verification", {"verified"}, "python", {"whole"})}] @@ Plain

fixture == Check("dedicated base")
fixtureCreate == PutNew("base", "partial") \o deviceRun("extracted") \o Put("base", "whole")
fixtureVerify == Expect("base", {"whole"})
                 \o Checks(<<"directories", "file bytes", "file metadata", "entries exact">>)

stage_native_qualification ==
    [steps |-> fixture \o PutNew("output", "whole")
               \o Verdict(deviceRun("shell user") \o Either(fixtureCreate, <<>>)
                          \o fixtureVerify, "staging", "verified"),
     objects |-> {"output", "base", "staging"}, foreign |-> {"base"}, races |-> {"base"},
     earns |-> {Earns("staging", "verified", {"verified", "shell user", "file bytes",
                                              "entries exact"})},
     orders |-> {Order("staging", {"verified"}, "base", {"whole"})}] @@ Plain

-----------------------------------------------------------------------------
(* tools/runtime/app-context-probe/build.py *)

probeRun(fact) == Check(fact)
probeInputs == Checks(<<"explicit digest", "beneath work">>) \o Expect("build", {"absent"})
probeFreeze == PutNew("build", "whole") \o Checks(<<"sources frozen", "source APK digest", "probe parses">>)
probePayload == Open("source APK", Checks(<<"payload digests", "library digests">>)
                                   \o Write("probe inventory", "whole"))
probePackage == probeRun("compiled") \o probeRun("dexed") \o probeRun("linked") \o Check("packaged")
probeSign == probeRun("aligned") \o probeRun("key") \o probeRun("signed") \o Put("apk", "whole")
             \o probeRun("signature verified") \o Open("APK", Check("packaged digests"))

context_probe_build ==
    [steps |-> probeInputs \o probeFreeze \o probePayload \o probePackage \o probeSign
               \o Write("report", "verified"),
     objects |-> {"build", "probe inventory", "apk", "report"}, foreign |-> {"build"},
     earns |-> {Earns("report", "verified", {"source APK digest", "payload digests",
                                             "signature verified", "packaged digests"})},
     orders |-> {Order("report", {"verified"}, "apk", {"whole"})}] @@ Plain

-----------------------------------------------------------------------------
(* tools/install/combined-probe/prepare.py and stage.py *)

prepareDeadlines == Checks(<<"deadline bounds", "deadline allows both calls">>)
prepareArtifacts == Check("authenticated artifacts")
prepareIntegration ==
    Either(<<>>, Check("reviewed integration")
                 \o Open("integration", Checks(<<"integration framing", "integration manifest">>)))
prepareHelpers == Checks(<<"canonical helpers", "pinned helpers">>)
prepareDescriptor == Write("descriptor", "whole")
preparePlan == Check("files digested") \o Write("plan", "whole")

combined_prepare ==
    [steps |-> prepareDeadlines \o prepareArtifacts \o prepareIntegration
               \o Remove("plan") \o Remove("descriptor") \o prepareHelpers \o prepareDescriptor
               \o preparePlan,
     objects |-> {"descriptor", "plan"}, resumes |-> TRUE,
     earns |-> {Earns("plan", "whole", {"authenticated artifacts", "pinned helpers"})},
     orders |-> {Order("plan", {"partial", "whole"}, "descriptor", {"whole"})}] @@ Plain

stagePlan == Checks(<<"generated plan", "descriptor digest", "input directory", "targets",
                      "local inputs", "descriptor scope">>)
stageDirectories == Check("real directories")

\* An input that is there must be the planned one; a partial one is thrown away.
stageFile(object) ==
    IfElse(object, {"whole", "foreign"}, Expect(object, {"whole"}),
           Remove("part")
           \o Open("encoded", CreateNew("part", "whole")) \o Check("device digest")
           \o Expect(object, {"absent"}) \o Move("part", object, "whole"))

combined_stage ==
    [steps |-> stagePlan
               \o Either(<<>>, stageDirectories \o stageFile("package") \o stageFile("fixture")
                               \o Either(Put("service", "started"), <<>>)),
     objects |-> {"part", "package", "fixture", "service"}, foreign |-> {"package"}, resumes |-> TRUE,
     earns |-> {Earns("package", "whole", {"local inputs", "device digest"})},
     orders |-> {Order("service", {"started"}, o, {"whole"}) : o \in {"package", "fixture"}}]
    @@ Plain
=============================================================================
