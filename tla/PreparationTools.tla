-------------------------- MODULE PreparationTools --------------------------
(***************************************************************************)
(* The Android installer's preparation of an inactive root: the journal of *)
(* its steps, the guest account, the integration files, the official       *)
(* client, the vault and the keyring's collection, and the acquisition of  *)
(* an artifact.  They run under the lease of RootfsTransaction and are     *)
(* started again after any death of the process.                           *)
(***************************************************************************)
EXTENDS Naturals, ToolSteps

-----------------------------------------------------------------------------
(* GuestAccountProvisioner.java *)

validateOriginals == Checks(<<"databases well formed", "name and numbers unused">>)
replace(object, value) ==
    Checks(<<"pending owned", "pending synced">>) \o Put(object, value) \o Check("etc synced")
createDirectory == When("home", {"absent"}, Put("home", "ours")) \o Check("home synced")

\* Mutant: the first database is replaced before the intent is written.
accountIntentLate ==
    Expect("selection", {"absent"}) \o Expect("home", {"absent"}) \o validateOriginals
    \o replace("group", "new") \o replace("account", "intent")

\* A selection or a home nobody journalled is refused.
accountIntent ==
    Expect("selection", {"absent"}) \o Expect("home", {"absent"}) \o validateOriginals
    \o replace("account", "intent")

\* Every database is either the recorded original or the recorded result, so a death
\* between two replacements is taken up where it was.
Preparation ==
    Checks(<<"owned directories", "root identity">>)
    \o IfElse("account", {"absent"}, accountIntent, Check("intent bound"))
    \o Expect("group", {"old", "new"}) \o Expect("passwd", {"old", "new"}) \o validateOriginals
    \o Expect("selection", {"absent", "ours"}) \o Expect("home", {"absent", "ours"})
    \o When("group", {"old"}, replace("group", "new"))
    \o When("passwd", {"old"}, replace("passwd", "new"))
    \o createDirectory
    \o When("selection", {"absent"}, replace("selection", "ours"))
    \o Checks(<<"guest identity", "databases verified", "same root">>)

-----------------------------------------------------------------------------
(* InactiveIntegrationInstaller.java *)

verifyXkb == Check("keyboard tree")
verifyInstalledTree(states) == Expect("prefix", states)
publish(object, pending) ==
    Write(pending, "whole") \o Check("pending synced") \o Expect(object, {"absent"})
    \o Move(pending, object, "whole") \o Check("parent synced")

\* Without an intent nothing may be there; with one, only what it can have left.
preflight ==
    IfElse("intent", {"absent"},
           Expect("report", {"absent"}) \o Expect("report.pending", {"absent"})
           \o Expect("files", {"absent"}) \o Expect("files.pending", {"absent"}),
           When("report", {"whole"}, Expect("report.pending", {"absent"}) \o Expect("files", {"whole"})))
    \o When("files", {"whole"}, Check("files verified") \o Expect("files.pending", {"absent"}))
    \o verifyInstalledTree({"absent", "made"})

\* A directory is created, then given its mode.
installDirectories == When("prefix", {"absent"}, Write("prefix", "made") \o Check("directory synced"))
installFiles == When("files", {"absent"}, publish("files", "files.pending"))
\* A link only after its target, so that no death leaves one that dangles.
installLinks == When("links", {"absent"}, Expect("files", {"whole"}) \o Put("links", "made") \o Check("link verified"))

Installation ==
    Check("base receipt") \o Check("guest account") \o verifyXkb
    \o When("intent", {"whole"}, Check("intent exact") \o Expect("intent.pending", {"absent"}))
    \o preflight
    \o When("intent", {"absent"}, publish("intent", "intent.pending"))
    \o When("report", {"absent"}, installDirectories \o installFiles \o installLinks)
    \o verifyXkb \o verifyInstalledTree({"made"}) \o Expect("links", {"made"})
    \o Checks(<<"every entry verified", "same root", "same account">>)
    \o IfElse("report", {"absent"}, publish("report", "report.pending"), Check("report exact"))

-----------------------------------------------------------------------------
(* AndroidInactiveClientInstaller.java, InactiveClientInstallCommand.java *)

copyVerified == Check("authenticated copy")
\* The package step in PRoot: it is stopped on every way out, by SIGTERM only.
runCommand ==
    With("package child", Check("in time") \o Put("client", "installed")
                          \o Checks(<<"output collected", "log written", "exit status">>))
install ==
    Check("private work directory") \o copyVerified \o runCommand
    \o Checks(<<"one receipt", "receipt matches", "report matches", "same account", "client report">>)

-----------------------------------------------------------------------------
(* KeyringVault.java *)

encryptAndCommit ==
    Checks(<<"credential valid", "payload synced">>) \o Put("vault", "whole")
    \o Checks(<<"vault private", "decrypts to the credential">>)

\* A key is made only when there is no ciphertext that needs the lost one.
vaultKey == When("key", {"absent"}, Expect("vault", {"absent"}) \o Put("key", "made"))

\* Mutant: the import is removed before the ciphertext is committed.
openVaultFilesEarly ==
    Remove("import") \o vaultKey \o When("vault", {"absent"}, encryptAndCommit)
    \o Check("vault directory synced")

\* The two ways to a password: a fresh one for an installation that is prepared, and the
\* import of an existing one, removed once its ciphertext is committed.
openVaultFiles ==
    IfElse("import", {"absent"}, Expect("vault", {"whole"}), <<>>)
    \o vaultKey
    \o IfElse("vault", {"whole"},
              Check("decrypts") \o When("import", {"whole"}, Check("same credential")),
              encryptAndCommit)
    \o Check("vault directory synced")
    \o When("import", {"whole"}, Remove("import") \o Check("removal synced"))
openVaultFresh ==
    Expect("import", {"absent"}) \o vaultKey
    \o IfElse("vault", {"whole"}, Check("decrypts"), encryptAndCommit)
    \o Check("vault directory synced")

openPassword(vaultFiles) ==
    Checks(<<"device unlocked", "private directory">>)
    \o Open("vault lock", Check("private lock") \o Take("credential")
                          \o Rescue(vaultFiles, Close("credential")))

keyring_vault ==
    [steps |-> openPassword(openVaultFiles) \o Close("credential"),
     objects |-> {"import", "vault", "key"}, starts |-> [import |-> "whole"], resumes |-> TRUE,
     earns |-> {Earns("import", "absent", {"vault directory synced"})},
     orders |-> {Order("import", {"absent"}, "vault", {"whole"}),
                 Order("vault", {"whole"}, "key", {"made"})}] @@ Plain

-----------------------------------------------------------------------------
(* InactivePreparationJournal.java, AndroidInactivePreparation.java *)

Steps == <<"ROOT_PREPARED", "ACCOUNT_PREPARED", "INTEGRATION_PREPARED", "CLIENT_PREPARED",
           "VAULT_PREPARED", "COLLECTION_PREPARED">>
From(step) == {Steps[i] : i \in {j \in DOMAIN Steps :
                  \E k \in DOMAIN Steps : Steps[k] = step /\ j >= k}}

validateState == Check("evidence matches the step")
write(step) ==
    validateState \o Check("next journal synced") \o Put("journal", step) \o Check("journal directory synced")
openWithIntegration ==
    Check("bindings")
    \o IfElse("journal", {"absent"}, write("ROOT_PREPARED"),
              Checks(<<"journal checksum", "same bindings", "journal fields">>) \o validateState
              \o Check("journal directory synced"))

\* The step is journalled once; afterwards its evidence must be the journalled one.
accountPrepared ==
    IfElse("journal", {"ROOT_PREPARED"}, Preparation \o write("ACCOUNT_PREPARED"), Check("guest identity"))
Advance(before, after) == IfElse("journal", {before}, write(after), Check("same evidence"))
integrationPrepared == Check("integration evidence") \o Advance("ACCOUNT_PREPARED", "INTEGRATION_PREPARED")
clientPrepared == Check("client evidence") \o Advance("INTEGRATION_PREPARED", "CLIENT_PREPARED")
vaultPrepared == Check("ciphertext read") \o Advance("CLIENT_PREPARED", "VAULT_PREPARED")
collectionPrepared == Advance("VAULT_PREPARED", "COLLECTION_PREPARED")

installScript == Check("pending script owned") \o Put("scripts", "whole") \o Check("script synced")
requireVault ==
    IfElse("journal", From("VAULT_PREPARED"), Expect("vault", {"whole"}),
           When("vault", {"absent"}, Expect("collection", {"absent"})))

\* SecretPipeProcess.run(): the supervisor gets the credential on its pipe; child and
\* credential are gone on every way out.
supervisor ==
    With("keyring child", Check("in time") \o When("collection", {"absent", "partial"}, Write("collection", "ours"))
                          \o Checks(<<"output collected", "child status">>))

receipt == Checks(<<"one keyring receipt", "receipt fields">>)
collectionReceipt ==
    receipt \o Expect("collection", {"ours"}) \o Checks(<<"same data inode", "durable intent">>)
    \o Expect("vault", {"whole"})

\* prepare(): every verification is repeated on every run, journalled or not.
prepareBound ==
    Checks(<<"verified scripts", "bundle bound to the base", "managed directories">>)
    \o Open("lease",
         Check("root is prepared")
         \o When("journal", {"absent"}, Expect("vault", {"absent"}) \o Expect("collection", {"absent"}))
         \o openWithIntegration \o accountPrepared
         \o Installation \o integrationPrepared
         \o install \o clientPrepared
         \o When("scripts", {"absent"}, installScript) \o Check("script digests")
         \o requireVault
         \o Expect("debian", {"absent"}) \o openPassword(openVaultFresh)
         \o Try(vaultPrepared
                \o When("journal", {"COLLECTION_PREPARED"}, Expect("collection", {"ours"}))
                \o supervisor \o collectionReceipt,
                Close("credential"))
         \o collectionPrepared \o Expect("debian", {"absent"}))

inactive_preparation ==
    [steps |-> prepareBound \o Put("result", "returned"),
     objects |-> {"journal", "account", "group", "passwd", "home", "selection", "intent",
                  "intent.pending", "prefix", "files", "files.pending", "links", "report",
                  "report.pending", "client", "scripts", "import", "vault", "key", "collection",
                  "debian", "result"},
     starts |-> [group |-> "old", passwd |-> "old"],
     foreign |-> {"vault", "collection"}, races |-> {"debian"}, resumes |-> TRUE,
     blocks |-> {<<"prefix", "partial">>},
     earns |-> {Earns("result", "returned", {"every entry verified", "client report",
                   "script digests", "vault directory synced", "durable intent", "keyring child"})},
     orders |-> {Order("group", {"new"}, "account", {"intent"}),
                 Order("selection", {"ours"}, "passwd", {"new"}),
                 Order("selection", {"ours"}, "home", {"ours"}),
                 Order("journal", From("ACCOUNT_PREPARED"), "selection", {"ours"}),
                 Order("files.pending", {"partial", "whole"}, "intent", {"whole"}),
                 Order("links", {"made"}, "files", {"whole"}),
                 Order("report", {"whole"}, "links", {"made"}),
                 Order("journal", From("INTEGRATION_PREPARED"), "report", {"whole"}),
                 Order("journal", From("CLIENT_PREPARED"), "client", {"installed"}),
                 Order("vault", {"whole"}, "journal", From("CLIENT_PREPARED")),
                 Order("collection", {"partial", "ours"}, "vault", {"whole"}),
                 Order("collection", {"partial", "ours"}, "journal", From("VAULT_PREPARED")),
                 Order("journal", {"COLLECTION_PREPARED"}, "collection", {"ours"})}] @@ Plain

-----------------------------------------------------------------------------
(* TrustedHttpsArtifact.java *)

\* A directory that inherits special bits is created first and then given its mode; one
\* that exists is validated and never changed.
createPrivate ==
    When("cache", {"absent"}, Either(Put("cache", "private"), Write("cache", "private")))
    \o Expect("cache", {"private"}) \o Check("cache synced")

bindDescriptor ==
    IfElse("descriptor", {"whole"}, Check("same descriptor"),
           Expect("part", {"absent"}) \o Expect("artifact", {"absent"})
           \o Check("descriptor synced") \o PutNew("descriptor", "whole") \o Check("binding synced"))

transfer == Checks(<<"part owned", "expected offset">>) \o Write("part", "full") \o Check("trusted size")
download == Checks(<<"no redirect loop", "status", "range and length">>) \o Open("connection", transfer)
verify == Checks(<<"part private", "artifact digest", "same inode">>)

\* Mutant: the bytes are published and verified afterwards.
acquirePartUnverified == When("part", {"absent", "partial"}, download)

\* A part that is too long or has another digest is thrown away; any other failure keeps
\* it for the next acquisition.
acquirePart ==
    Rescue(When("part", {"absent", "partial"}, download) \o verify,
           Either(When("part", {"partial", "full"}, Remove("part")), <<>>))

acquire ==
    createPrivate
    \o Open("artifact lease",
         Check("known names") \o bindDescriptor
         \o IfElse("artifact", {"whole"}, Expect("part", {"absent"}) \o verify,
                   acquirePart \o Check("not cancelled")
                   \o MoveNew("part", "artifact", "whole") \o Check("publication synced") \o verify))

trusted_artifact ==
    [steps |-> acquire, objects |-> {"cache", "descriptor", "part", "artifact"}, resumes |-> TRUE,
     blocks |-> {<<"cache", "partial">>},
     earns |-> {Earns("artifact", "whole", {"artifact digest", "same inode"})},
     orders |-> {Order("part", {"partial", "full"}, "descriptor", {"whole"}),
                 Order("artifact", {"whole"}, "descriptor", {"whole"})}] @@ Plain
=============================================================================
