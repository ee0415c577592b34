---------------------------- MODULE InstallTools ----------------------------
(***************************************************************************)
(* The tools of tools/install: those that prepare an inactive installation *)
(* (the official client's package, its installation, the keyring) and      *)
(* those that build what is shipped (the guest and the integration bundle, *)
(* the Debian root and its verification, the bundle of its sources).       *)
(***************************************************************************)
EXTENDS ToolSteps

-----------------------------------------------------------------------------
(* official_client_package.py *)

descriptor == Checks(<<"descriptor fields", "official channel", "pinned version and digest",
                       "descriptor bounds">>)

copy_hash == Check("within the authenticated size")
authenticate == copy_hash \o Check("package digest")

ar_members == Checks(<<"ar magic", "ar headers", "ar names", "ar sizes", "Debian members",
                       "Debian format">>)

safe_name == Check("safe path")
safe_link == Checks(<<"safe link", "link inside the guest">>)
deb822 == Checks(<<"one record", "no orphan continuation", "fields well formed",
                   "fields unique">>)

\* Every member of the tar, in order, then its end.
inventory_tar(control) ==
    Open("decoder",
         Check("member count") \o safe_name \o Checks(<<"paths unique", "no PAX or sparse">>)
         \o Either(Check("empty directory"),
                   Either(IF control THEN Check("member type") ELSE safe_link,
                          Check("whole file") \o (IF control THEN <<>> ELSE Check("core ELF"))))
         \o Checks(<<"terminator", "zero padding", "alignment">>))
    \o Check("ancestors are directories")

inspect ==
    descriptor \o Check("regular input") \o authenticate \o ar_members \o inventory_tar(TRUE)
    \o Check("control present") \o deb822 \o Check("pinned metadata") \o inventory_tar(FALSE)
    \o Checks(<<"core executables", "input unchanged", "inventory size">>)

directory(block) == Open("directory", Check("private directory") \o block)
regular(block) == Open("file", Check("regular file") \o block)
read_json(object, values) == regular(Check("bounded JSON") \o Expect(object, values))
publish_json(object, value) == regular(Check("temporary synced")) \o Put(object, value)

\* prepare(): the input is copied and inspected under its lock.  Content without a
\* descriptor is refused, a partial copy is thrown away, a whole one is inspected again.
prepareBound ==
    IfElse("descriptor", {"absent"},
           Expect("package", {"absent"}) \o Expect("package.partial", {"absent"})
           \o Expect("inventory", {"absent"}) \o publish_json("descriptor", "whole"),
           read_json("descriptor", {"whole"}))
prepareCopy ==
    Remove("package.partial")
    \o regular(Put("package.partial", "partial") \o copy_hash \o Check("copied digest")
               \o Check("copy synced") \o inspect)
    \o Move("package.partial", "package", "whole")
prepare ==
    descriptor
    \o directory(Open("input lock",
         Check("no unrelated files") \o prepareBound
         \o IfElse("package", {"absent"}, prepareCopy, regular(inspect))
         \o IfElse("inventory", {"absent"}, publish_json("inventory", "whole"),
                   read_json("inventory", {"whole"}))))

parent_for(block) == Open("parents", block)
verify_files ==
    Open("root", safe_name
         \o parent_for(Either(Check("packaged directory"),
                              Either(Check("packaged link"),
                                     regular(copy_hash) \o Check("packaged file")))
                       \o Check("path unchanged")))
    \o Check("packaged files")

official_client_package ==
    [steps |-> descriptor \o Either(prepare, regular(inspect) \o Either(verify_files, <<>>)),
     objects |-> {"descriptor", "package", "package.partial", "inventory"}, resumes |-> TRUE,
     earns |-> {Earns("package", "whole", {"copied digest", "core executables"})},
     orders |-> {Order("package", {"whole"}, "descriptor", {"whole"}),
                 Order("inventory", {"whole"}, "package", {"whole"})}] @@ Plain

-----------------------------------------------------------------------------
(* install_official_client.py *)

\* A guest command: its group is killed when the run is left early.
run(fact) == With("child", Checks(<<"deadline", "output bound">>) \o regular(Check("log synced"))
                           \o Check(fact))

parse_status == Checks(<<"records well formed", "records identified", "some package">>)
status == run("status") \o parse_status
check_baseline(fact) == Checks(<<"same package set", fact>>)
check_plan == Checks(<<"nothing outside the base", "one installation">>)
repository_evidence ==
    directory(parent_for(regular(Check("repository output")))) \o deb822 \o Check("repository")
signing_key == regular(ar_members \o inventory_tar(TRUE)) \o Check("signing key")
sync_installed == directory(parent_for(Check("installed files synced")))

provisionFresh ==
    Expect("client", {"absent"}) \o check_baseline("baseline installed") \o run("audit")
    \o run("plan") \o check_plan \o publish_json("intent", "PLANNED")
provisionResumed ==
    read_json("intent", {"PLANNED", "UNPACKED", "CONFIGURED", "VERIFIED"})
    \o Check("same bindings") \o check_baseline("baseline")
    \o Expect("client", {"absent", "partial", "unpacked", "configured"})
provisionInstall ==
    Put("client", "partial") \o run("unpacked") \o Put("client", "unpacked")
    \o publish_json("intent", "UNPACKED")
    \o Put("client", "partial") \o run("configured") \o Put("client", "configured")
    \o publish_json("intent", "CONFIGURED")
provisionVerify ==
    status \o check_baseline("base unchanged") \o Expect("client", {"configured"})
    \o run("audit clean") \o run("apt check") \o verify_files \o repository_evidence
    \o sync_installed \o Check("same root")
provisionReport ==
    IfElse("intent", {"VERIFIED"}, read_json("report", {"whole"}),
           publish_json("report", "whole") \o publish_json("intent", "VERIFIED"))

\* Mutant: the journal says verified before the report is there.
provisionReportLate ==
    IfElse("intent", {"VERIFIED"}, read_json("report", {"whole"}),
           publish_json("intent", "VERIFIED") \o publish_json("report", "whole"))

provision ==
    descriptor \o Check("bound root") \o regular(Check("guest account"))
    \o directory(Check("state directory"))
    \o directory(Open("install lock",
         prepare \o signing_key \o status
         \o IfElse("intent", {"absent"}, provisionFresh, provisionResumed)
         \o IfElse("intent", {"VERIFIED"}, <<>>, provisionInstall)
         \o provisionVerify \o provisionReport))

install_official_client ==
    [steps |-> Check("positive deadline") \o regular(Check("bounded JSON")) \o provision,
     objects |-> {"descriptor", "package", "package.partial", "inventory", "intent",
                  "client", "report"},
     foreign |-> {"client"}, resumes |-> TRUE,
     earns |-> {Earns("report", "whole", {"package digest", "base unchanged", "audit clean",
                   "packaged files", "repository", "installed files synced", "same root"}),
                Earns("package", "whole", {"copied digest", "core executables"})},
     orders |-> {Order("intent", {"VERIFIED"}, "report", {"whole"}),
                 Order("intent", {"VERIFIED"}, "client", {"configured"}),
                 Order("intent", {"PLANNED", "UNPACKED", "CONFIGURED", "VERIFIED"},
                       "package", {"whole"}),
                 Order("client", {"partial", "unpacked", "configured"}, "intent",
                       {"PLANNED", "UNPACKED", "CONFIGURED", "VERIFIED"})}] @@ Plain

-----------------------------------------------------------------------------
(* initialize_keyring.py and supervise_keyring.py *)

require_private == Check("private object")

bind_daemon ==
    Checks(<<"unique owner", "owner is the child", "daemon environment">>)
    \o Open("daemon data", require_private \o Check("same data directory"))
    \o Check("same owner")

read_intent == Open("journal file", require_private \o Checks(<<"journal size", "journal read">>))
               \o Checks(<<"journal keys", "journal bound">>)
create_intent ==
    With("temporary journal",
         require_private \o Check("journal synced") \o PutNew("journal", "whole")
         \o Check("directory synced"))
    \o read_intent

\* Mutant: the collection is created before its journal.
keyringIntentLate == Put("collection", "ours") \o create_intent

keyringIntent == Expect("collection", {"absent"}) \o create_intent

\* prepare(): a collection nobody journalled is refused; ours is created or taken up, and
\* its credential is verified by locking and unlocking it.
prepareKeyring ==
    Check("at most one collection")
    \o IfElse("journal", {"absent"}, keyringIntent, read_intent)
    \o Expect("collection", {"absent", "ours"}) \o Check("journal name synced")
    \o With("session",
         Check("encrypted transport")
         \o When("collection", {"absent"}, Put("collection", "ours") \o Check("collection path"))
         \o Checks(<<"locked", "unlocked">>) \o Expect("alias", {"absent", "ours"})
         \o When("alias", {"absent"}, Put("alias", "ours")) \o Expect("alias", {"ours"}))

initialize_keyring ==
    Try(Checks(<<"daemon pid", "credential input">>) \o Take("data") \o require_private
        \o Take("keyring lock") \o require_private \o Check("lock not taken") \o Take("bus link")
        \o bind_daemon \o prepareKeyring,
        Close("bus link") \o Close("keyring lock") \o Close("data"))

private_directory == Checks(<<"absolute path", "no link on the way">>) \o require_private
create_private == private_directory \o private_directory \o Check("directory synced")
child_death_signal == Check("death signal")
spawn(process) == child_death_signal \o Take(process)
stop(process) == Drop(process)
address_line == Checks(<<"address in time", "address bound">>)
sync_data_tree == Open("data tree", Checks(<<"private persistence", "same inode", "data synced">>))

superviseReceipt ==
    Open("receipt data", read_intent \o bind_daemon
         \o Expect("collection", {"ours"}) \o Expect("alias", {"ours"}) \o Check("journal matches"))

\* Mutant: a daemon that does not stop leaves the bus running.
superviseUnstopped ==
    private_directory \o create_private
    \o Try(Check("no bus yet") \o spawn("bus") \o address_line \o Check("bus address")
           \o spawn("daemon") \o Take("connection") \o Check("name acquired")
           \o initialize_keyring \o superviseReceipt,
           Close("connection") \o stop("daemon") \o stop("bus"))
    \o sync_data_tree

\* run(): the private daemons are stopped on every way out, the bus even when the daemon
\* does not stop; only then is the data flushed and the receipt given.
supervise ==
    private_directory \o create_private
    \o Try(Check("no bus yet") \o spawn("bus") \o address_line \o Check("bus address")
           \o spawn("daemon") \o Take("connection") \o Check("name acquired")
           \o initialize_keyring \o superviseReceipt,
           Close("connection") \o Try(stop("daemon"), stop("bus")))
    \o sync_data_tree

supervise_keyring ==
    [steps |-> supervise \o Put("receipt", "printed"),
     objects |-> {"journal", "collection", "alias", "receipt"},
     foreign |-> {"collection"}, resumes |-> TRUE,
     earns |-> {Earns("receipt", "printed", {"unlocked", "journal matches", "daemon", "bus",
                                             "data synced"})},
     orders |-> {Order("collection", {"ours"}, "journal", {"whole"}),
                 Order("alias", {"ours"}, "collection", {"ours"}),
                 Order("receipt", {"printed"}, "alias", {"ours"})}] @@ Plain
-----------------------------------------------------------------------------
(* guest_bundle.py *)

read_bounded == Checks(<<"regular input", "not replaced", "unchanged", "within limit">>)

guest_bundle_verify ==
    Checks(<<"trusted digest", "bundle digest", "entries unique", "entries allowed",
             "entries regular", "entry modes", "entries whole", "UTF-8", "normalized text",
             "complete", "manifest exact", "canonical archive">>)
guest_bundle_build == read_bounded \o Checks(<<"UTF-8", "no NUL">>) \o guest_bundle_verify

_require_private_parent == Check("private parent")

\* A file is published by an exclusive hard link to a synced temporary.
write_new_archive(object) ==
    Check("no alias in the parent") \o Open("output directory", _require_private_parent)
    \o With("temporary", Check("temporary synced") \o PutNew(object, "whole"))

_write_entries ==
    Try(Take("entry directories") \o Check("directory modes")
        \o Open("entry", Checks(<<"progress", "file modes", "entry synced">>))
        \o Check("directories synced"), Close("entry directories"))

\* Mutant: the destination is checked first and then renamed over.
_rename_over(object) == Check("renameat2") \o Expect(object, {"absent"}) \o Put(object, "whole")

_rename_new(object) == Check("renameat2") \o PutNew(object, "whole")

\* prepare(): the stage is removed unless it became the destination.
guest_bundle_prepare ==
    guest_bundle_verify \o Checks(<<"Linux", "real parent">>)
    \o Open("parent", _require_private_parent \o Take("stage")
         \o Rescue(Open("stage fd", Check("stage mode") \o _write_entries)
                   \o _rename_new("destination") \o Close("stage"), Drop("stage"))
         \o Check("parent synced"))

guest_bundle ==
    [steps |-> Either(guest_bundle_build \o write_new_archive("archive"),
                      read_bounded \o guest_bundle_verify
                      \o Either(guest_bundle_prepare, <<>>)),
     objects |-> {"archive", "destination"}, foreign |-> {"archive", "destination"},
     races |-> {"archive", "destination"},
     earns |-> {Earns("archive", "whole", {"canonical archive", "temporary synced"}),
                Earns("destination", "whole", {"bundle digest", "canonical archive",
                                               "file modes", "directories synced"})}] @@ Plain

-----------------------------------------------------------------------------
(* inactive_integration_bundle.py *)

safe_path == Check("canonical path")
bundle_entry == safe_path \o Either(safe_path \o Check("same-directory link"), <<>>)
snapshot(fact) == read_bounded \o Check(fact)

inventory_xkb ==
    safe_path \o Check("XKB unique and bounded")
    \o Either(Check("whole XKB file"), Check("XKB type")) \o bundle_entry
    \o Checks(<<"XKB modes", "required XKB", "XKB links resolve">>)
gpu_payload ==
    safe_path \o Check("Mesa unique")
    \o Either(Check("Mesa link") \o bundle_entry,
              Checks(<<"Mesa file", "whole Mesa file", "Mesa ELF">>) \o bundle_entry)
    \o Checks(<<"Mesa subset complete", "ICD in the prefix">>)
encode == Checks(<<"manifest bound", "container bound">>)

integration_build ==
    snapshot("guest digest") \o guest_bundle_verify \o snapshot("GPU digest") \o gpu_payload
    \o snapshot("base digest") \o inventory_xkb \o bundle_entry \o encode

inactive_integration_bundle ==
    [steps |-> integration_build \o write_new_archive("bundle") \o write_new_archive("manifest"),
     objects |-> {"bundle", "manifest"}, foreign |-> {"bundle", "manifest"},
     races |-> {"bundle", "manifest"},
     earns |-> {Earns("bundle", "whole", {"guest digest", "GPU digest", "base digest",
                          "canonical archive", "Mesa subset complete", "XKB links resolve"})}] @@ Plain

-----------------------------------------------------------------------------
(* verify_rootfs.py *)

guest_path == Checks(<<"inside the guest", "no cycle", "no file on the way">>)
read_guest == guest_path \o Checks(<<"regular guest file", "guest file bound">>)
verify_elf == guest_path \o Checks(<<"regular ELF", "AArch64 ELF", "executable">>)
verify_accounts ==
    read_guest \o Checks(<<"accounts unique", "system accounts only", "root account">>)
    \o Either(read_guest \o Checks(<<"shadow well formed", "passwords locked",
                                     "shadow agrees">>),
              Check("no shadow reference"))
    \o guest_path \o Check("pristine homes")
verify_identity ==
    read_guest \o Check("neutral hostname") \o read_guest \o Check("DNS template")
    \o Either(read_guest \o Check("no machine identity"), <<>>)
    \o read_guest \o Check("template hosts")
verify_pristine_tree ==
    Checks(<<"no forbidden path", "no foreign ELF", "no special file">>) \o guest_path
    \o Checks(<<"no live state", "no random seed">>)
probe(fact) == Check("host mount tools") \o With("mount namespace", Checks(<<"probe in time", fact>>))
package_inventory == Checks(<<"inventory well formed", "packages configured",
                              "required packages", "awk">>)
verify_no_mounts == Check("no mounts")
verifyXkb == Checks(<<"XKB readable outside", "XKB owner read", "XKB owner search">>)
             \o read_guest \o Check("XKB rules")
verifySources == read_guest \o Check("metadata and trust present")
                 \o guest_path \o Either(read_guest, <<>>) \o Check("APT sources")
verifyProbes ==
    probe("dpkg audit") \o probe("inventory") \o package_inventory
    \o read_guest \o Check("notices") \o probe("python imports") \o probe("git version")
    \o probe("fonts") \o guest_path \o Check("distribution fonts")
verify ==
    Checks(<<"host root", "separate root">>) \o verify_no_mounts \o read_guest
    \o Check("Debian 13") \o verify_identity \o verify_accounts \o verify_pristine_tree
    \o verify_elf \o verifyXkb \o verifySources \o verifyProbes

-----------------------------------------------------------------------------
(* build_rootfs.py *)

buildRun(fact) == Check(fact)
prepare_apt_directories == Check("APT directories")
bootstrap_keyring ==
    prepare_apt_directories \o buildRun("bookworm update") \o buildRun("keyring download")
    \o Check("keyring digest") \o buildRun("keyring extracted") \o Check("keyring present")

\* The customize hook, which mmdebstrap runs in the middle of the build.
customize ==
    Checks(<<"disposable root", "package metadata", "packages preserved",
             "provenance of every package">>)

validate_signatures == Checks(<<"valid signatures", "four repositories">>)

\* An atomic promotion that refuses an existing target.
publish_directory(object) == PutNew(object, "whole")

finishDirectories == Checks(<<"host root", "disposable build", "real directories",
                              "root-owned directories", "dev inside">>)
finishArchive ==
    With("tar", Checks(<<"gzip", "tar">>)) \o Check("archive digest")
    \o buildRun("provenance archive")
finishPublish ==
    Expect("target", {"absent"}) \o Checks(<<"transfer digests", "checksum index">>)
    \o publish_directory("target")
finish ==
    finishDirectories \o verify_no_mounts \o Check("dev emptied") \o validate_signatures
    \o Expect("root", {"built"}) \o verify \o buildRun("host toolchain") \o finishArchive
    \o finishPublish

build ==
    Checks(<<"host root", "not Android", "prerequisites">>) \o buildRun("arch-test")
    \o Put("root", "absent") \o bootstrap_keyring \o Put("root", "partial") \o customize
    \o buildRun("mmdebstrap") \o Put("root", "built") \o finish

build_rootfs ==
    [steps |-> Either(build, finish),
     objects |-> {"root", "target"}, foreign |-> {"target"}, races |-> {"target"},
     earns |-> {Earns("target", "whole", {"no mounts", "four repositories", "dpkg audit",
                  "no forbidden path", "archive digest", "transfer digests"})}] @@ Plain

-----------------------------------------------------------------------------
(* rootfs_sources.py *)

source_identity == Checks(<<"Source field", "source name and version">>)
parse_deb822 == Checks(<<"no orphan continuation", "fields well formed", "fields unique">>)
safe_filename == Check("safe file name")
source_files == safe_filename \o Checks(<<"source records", "source files">>)
checked_directory == Checks(<<"canonical directory", "private directory">>)
validate_resume_tree == checked_directory \o Checks(<<"regular files only", "private files">>)

\* The index names exactly the recipe's files; a file too many is refused.
write_bundle_checksums ==
    Checks(<<"index not in itself", "safe bundle paths", "no unexpected directory">>)
    \o Expect("scratch", {"absent"}) \o Check("exact files") \o Write("checksums", "whole")
verify_source_archive(fact) ==
    Checks(<<"members expected", "index in the archive", "member digests", fact>>)

\* A verified transfer is renamed to its target; the temporary is removed on every way
\* out except a crash.
download ==
    Either(Check("cached file matches"),
           Try(Put("scratch", "partial") \o Checks(<<"HTTPS", "within the signed size",
                   "transfer digest">>) \o Remove("scratch"),
               Remove("scratch")))

archive_members == Check("members unambiguous")
read_archive_file == Checks(<<"inside the archive", "no link cycle", "regular member">>)

prepareBaseInputs ==
    safe_filename \o Checks(<<"base digests", "base manifest", "package count">>)
prepareBasePackages ==
    Open("provenance", archive_members \o read_archive_file \o safe_filename
         \o read_archive_file \o Check("preserved packages")
         \o With("package file", Check("package identity")))
prepareBaseNotices ==
    Open("root archive", archive_members \o read_archive_file \o safe_filename)
prepare_base ==
    prepareBaseInputs \o prepareBasePackages \o Check("bootstrap keyring") \o prepareBaseNotices

authenticate_index ==
    download \o Check("release signature") \o parse_deb822
    \o Checks(<<"release identity", "not from the future", "not expired", "has an expiry",
                "one source index">>)
    \o download \o parse_deb822

select_sources == source_identity \o source_files
                  \o Checks(<<"one descriptor", "safe pool path", "no conflict", "all found">>)
validate_descriptor == parse_deb822 \o Check("descriptor identity") \o source_files
                       \o Check("descriptor components")

collectWork ==
    Either(checked_directory \o Check("collection directory") \o Expect("state", {"whole"}),
           Put("scratch", "absent") \o Put("checksums", "absent") \o Put("archive", "absent")
           \o Write("state", "whole"))
collectRetrieve == download \o validate_descriptor
collectPublish ==
    Write("archive", "whole") \o verify_source_archive("archive verified")
    \o Check("transfer digests") \o verify_source_archive("copy verified")
    \o publish_directory("target")
collect ==
    Check("host root") \o collectWork \o checked_directory \o validate_resume_tree
    \o prepare_base \o authenticate_index \o select_sources \o collectRetrieve
    \o source_identity \o write_bundle_checksums \o collectPublish

\* A crash in a transfer leaves its temporary in the bundle, and the exact index refuses
\* it: such a work directory cannot be resumed, only started afresh.
rootfs_sources ==
    [steps |-> collect,
     objects |-> {"state", "scratch", "checksums", "archive", "target"},
     foreign |-> {"target"}, races |-> {"target"},
     earns |-> {Earns("target", "whole", {"base digests", "release signature", "all found",
                  "descriptor components", "exact files", "archive verified",
                  "copy verified"})}] @@ Plain
=============================================================================
