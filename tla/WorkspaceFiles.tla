---------------------------- MODULE WorkspaceFiles ----------------------------
(***************************************************************************)
(* The executor's workspace tree and everything that may change it: the    *)
(* file requests of the model (native_files.py), the host's own file       *)
(* authority (native_host_files.py) and the path acquisitions of the model *)
(* and host processes (policy.py, native_process_policy.py,                *)
(* host_policy.py).  Each actor first inspects the whole tree, plans, and  *)
(* lets a native helper execute the plan; the helper may be killed half    *)
(* way.  The workspace lease serialises them (see NativeExecutor), so one  *)
(* action is one planned operation.                                        *)
(***************************************************************************)
EXTENDS Naturals, Sequences, FiniteSets, SequencesExt, Functions

(* The lexical permission policy that every file request and every process
   acquisition carries (tools/policy/managed_policy.py).  A guest path is its
   sequence of components; a policy is the sequence of resolved entries, whose
   order matters to the metadata rule. *)

(* METADATA_NAMES: project metadata that a plain write grant does not cover. *)
METADATA_NAMES == {".git", ".agents", ".codex"}

(* Access and _PRECEDENCE: of two entries for one path the higher one wins. *)
Precedence == [read |-> 0, write |-> 1, deny |-> 2]

(* GuestPath.contains. *)
Encloses(path, other) == IsPrefix(path, other)

(* _entry: an entry of the document with the upstream aliases applied. *)
Entry(raw) ==
  [access |-> IF raw.access = "none" THEN "deny" ELSE raw.access,
   kind |-> IF raw.kind = "current_working_directory" THEN "project_roots" ELSE raw.kind,
   path |-> raw.path]

(* _entry: a special root may be read or denied, never written; only project
   roots take a subpath. *)
Admitted(entry) ==
  /\ entry.kind \in {"path", "root", "project_roots", "tmpdir", "slash_tmp"}
  /\ entry.kind = "root" => entry.access # "write"
  /\ entry.kind \in {"root", "tmpdir", "slash_tmp"} => entry.path = <<>>

(* parse_context: the guest paths that one entry stands for. *)
Targets(entry, roots, temps) ==
  CASE entry.kind = "path" -> <<entry.path>>
    [] entry.kind = "root" -> << <<>> >>
    [] entry.kind = "project_roots" -> [i \in DOMAIN roots |-> roots[i] \o entry.path]
    [] entry.kind = "tmpdir" -> temps
    [] entry.kind = "slash_tmp" -> << <<"tmp">> >>

(* parse_context: one unsupported entry refuses the whole context, and the
   resolved entries keep the order of their sources. *)
Accepts(entries) == \A i \in DOMAIN entries : Admitted(entries[i])

Resolved(entries, roots, temps) ==
  FlattenSeq([i \in DOMAIN entries |->
    LET targets == Targets(entries[i], roots, temps)
    IN  [j \in DOMAIN targets |-> [path |-> targets[j], access |-> entries[i].access]]])

(* _decide: the longest entry that contains the path, ties by precedence. *)
ResolvedAccess(policy, path) ==
  LET candidates == {e \in Range(policy) : Encloses(e.path, path)}
      AtLeast(e, f) ==
        \/ Len(e.path) > Len(f.path)
        \/ /\ Len(e.path) = Len(f.path)
           /\ Precedence[e.access] >= Precedence[f.access]
  IN  IF candidates = {} THEN "deny"
      ELSE (CHOOSE e \in candidates : \A f \in candidates : AtLeast(e, f)).access

(* An explicit write entry at or below a protected directory. *)
ExplicitlyGranted(policy, protected, path) ==
  \E e \in Range(policy) :
    /\ e.access = "write"
    /\ Encloses(protected, e.path)
    /\ Encloses(e.path, path)

(* _decide: the FIRST write entry with a metadata directory on the way to the
   path protects it, unless an explicit grant lies below that directory. *)
MetadataDenied(policy, path) ==
  LET Protects(e) ==
        /\ e.access = "write"
        /\ Encloses(e.path, path)
        /\ Len(path) > Len(e.path)
        /\ path[Len(e.path) + 1] \in METADATA_NAMES
      roots == SelectSeq(policy, Protects)
  IN  /\ roots # <<>>
      /\ ~ExplicitlyGranted(policy, SubSeq(path, 1, Len(Head(roots).path) + 1), path)

(* Decision.can_read and Decision.can_write. *)
CanRead(policy, path) == ResolvedAccess(policy, path) # "deny"

CanWrite(policy, path) ==
  /\ ResolvedAccess(policy, path) = "write"
  /\ ~MetadataDenied(policy, path)

-----------------------------------------------------------------------------

CONSTANTS
  Names,       \* component names
  MaxDepth,    \* MAX_DEPTH
  MaxEntries,  \* MAX_ENTRIES
  Contexts     \* the unresolved policies a request may carry

VARIABLES
  tree,    \* path |-> "dir", "old" (a file as found) or "new" (written here)
  policy,  \* the resolved policy of the model's requests
  by       \* who made the last change

filesVars == <<tree, policy, by>>

Mount == <<"workspace">>

Paths == UNION {[1 .. n -> Names] : n \in 0 .. MaxDepth + 1}

Guest(parts) == Mount \o parts

Parent(parts) == Front(parts)

IsDir(t, parts) == parts \in DOMAIN t /\ t[parts] = "dir"

IsFile(t, parts) == parts \in DOMAIN t /\ t[parts] # "dir"

Below(t, parts) == {p \in DOMAIN t : IsPrefix(parts, p)}

Count(t) == Cardinality(DOMAIN t) - 1

IsTree(t) == \A p \in DOMAIN t : p = <<>> \/ IsDir(t, Parent(p))

-----------------------------------------------------------------------------
(* _inspect refuses a tree that is too deep, too large or holds a .git file. *)
KindsAdmitted(t) == \A p \in DOMAIN t : p # <<>> /\ Last(p) = ".git" => t[p] = "dir"

BoundsAdmitted(t) ==
  /\ Count(t) <= MaxEntries
  /\ \A p \in DOMAIN t : t[p] = "dir" => Len(p) <= MaxDepth

Inspect(t) == KindsAdmitted(t) /\ BoundsAdmitted(t)

(* _inspect: the metadata directories that exist. *)
Metadata(t) ==
  {p \in DOMAIN t : p # <<>> /\ Last(p) \in {".git", ".agents"} /\ t[p] = "dir"}

RequireRead(parts) == CanRead(policy, Guest(parts))

(* _require_write: the policy's decision, and existing metadata on top. *)
RequireWrite(parts, metadata) ==
  /\ CanWrite(policy, Guest(parts))
  /\ \A m \in metadata :
       IsPrefix(m, parts) => ExplicitlyGranted(policy, Guest(m), Guest(parts))

-----------------------------------------------------------------------------
(* Mutant: permission is asked for the root of the removed tree only. *)
RemovePlanOfRoot(parts, recursive) ==
  /\ recursive \/ Below(tree, parts) = {parts}
  /\ RequireWrite(parts, Metadata(tree))

(* _remove_plan: write permission for every descendant. *)
RemovePlan(parts, recursive) ==
  \A child \in Below(tree, parts) :
    /\ child = parts \/ recursive
    /\ RequireWrite(child, Metadata(tree))

(* _directory_plan: the existing prefix, and permission for each missing one. *)
Existing(parts) ==
  CHOOSE n \in 0 .. Len(parts) :
    /\ \A k \in 0 .. n : IsDir(tree, SubSeq(parts, 1, k))
    /\ n < Len(parts) => ~IsDir(tree, SubSeq(parts, 1, n + 1))

Missing(parts) == {SubSeq(parts, 1, n) : n \in Existing(parts) + 1 .. Len(parts)}

Blocked(parts) == \E n \in 1 .. Len(parts) : IsFile(tree, SubSeq(parts, 1, n))

DirectoryPlan(parts, recursive) ==
  /\ Len(parts) <= MaxDepth
  /\ recursive \/ Cardinality(Missing(parts)) <= 1
  /\ Count(tree) + Cardinality(Missing(parts)) <= MaxEntries
  /\ \A p \in Missing(parts) : RequireWrite(p, Metadata(tree))

(* _copy_plan: where a node of the source goes, and what comes to exist. *)
CopyTarget(source, destination, parts) ==
  destination \o SubSeq(parts, Len(source) + 1, Len(parts))

Created(source, destination) ==
  UNION {{SubSeq(CopyTarget(source, destination, p), 1, n)
            : n \in 1 .. Len(CopyTarget(source, destination, p))}
         : p \in Below(tree, source)} \ DOMAIN tree

\* Mutant: the size of the result is not checked.
CopyPlanUnbounded(source, destination, recursive) ==
  LET prospective == Metadata(tree) \cup
        {CopyTarget(source, destination, p) : p \in
           {q \in Below(tree, source) :
              /\ tree[q] = "dir"
              /\ Last(CopyTarget(source, destination, q)) \in {".git", ".agents"}}}
  IN  /\ ~IsPrefix(source, destination) /\ ~IsPrefix(destination, source)
      /\ IsDir(tree, source) => recursive
      /\ \A p \in Below(tree, source) :
           LET target == CopyTarget(source, destination, p) IN
           /\ RequireRead(p)
           /\ Len(target) <= MaxDepth + (IF tree[p] = "dir" THEN 0 ELSE 1)
           /\ RequireWrite(target, prospective)
           /\ target \in DOMAIN tree => (tree[target] = "dir") = (tree[p] = "dir")
           /\ tree[p] # "dir" => Last(target) # ".git"
           /\ \A n \in 1 .. Len(target) - 1 :
                LET parent == SubSeq(target, 1, n) IN
                IF parent \in DOMAIN tree THEN tree[parent] = "dir"
                ELSE IsDir(tree, source) /\ RequireWrite(parent, prospective)

CopyPlan(source, destination, recursive) ==
  LET prospective == Metadata(tree) \cup
        {CopyTarget(source, destination, p) : p \in
           {q \in Below(tree, source) :
              /\ tree[q] = "dir"
              /\ Last(CopyTarget(source, destination, q)) \in {".git", ".agents"}}}
  IN  /\ ~IsPrefix(source, destination) /\ ~IsPrefix(destination, source)
      /\ IsDir(tree, source) => recursive
      /\ \A p \in Below(tree, source) :
           LET target == CopyTarget(source, destination, p) IN
           /\ RequireRead(p)
           /\ Len(target) <= MaxDepth + (IF tree[p] = "dir" THEN 0 ELSE 1)
           /\ RequireWrite(target, prospective)
           /\ target \in DOMAIN tree => (tree[target] = "dir") = (tree[p] = "dir")
           /\ tree[p] # "dir" => Last(target) # ".git"
           /\ \A n \in 1 .. Len(target) - 1 :
                LET parent == SubSeq(target, 1, n) IN
                IF parent \in DOMAIN tree THEN tree[parent] = "dir"
                ELSE IsDir(tree, source) /\ RequireWrite(parent, prospective)
      /\ Count(tree) + Cardinality(Created(source, destination)) <= MaxEntries

-----------------------------------------------------------------------------
(* The native helper (external): the tree a plan ends in, and the trees a
   killed helper may leave behind on the way there. *)
Removed(parts) == Restrict(tree, DOMAIN tree \ Below(tree, parts))

Written(parts) == (parts :> "new") @@ tree

Made(parts) == [p \in Missing(parts) |-> "dir"] @@ tree

Copied(source, destination) ==
  LET targets == {CopyTarget(source, destination, p) : p \in Below(tree, source)}
      Origin(t) == source \o SubSeq(t, Len(destination) + 1, Len(t))
  IN  [t \in targets |-> IF tree[Origin(t)] = "dir" THEN "dir" ELSE "new"]
        @@ [t \in Created(source, destination) |-> "dir"]
        @@ tree

Changed(t, u) ==
  {p \in DOMAIN t \cup DOMAIN u :
     ~(p \in DOMAIN t /\ p \in DOMAIN u /\ t[p] = u[p])}

Mixed(t, u, done) ==
  LET D == (DOMAIN t \ done) \cup (DOMAIN u \cap done)
  IN  [p \in D |-> IF p \in done THEN u[p] ELSE t[p]]

Partial(t, u) == {x \in {Mixed(t, u, done) : done \in SUBSET Changed(t, u)} : IsTree(x)}

(* _native_operation: the helper finishes, or is killed at its deadline or on
   cancellation after any part of its work. *)
Native(after, who) ==
  /\ tree' \in Partial(tree, after)
  /\ by' = who
  /\ UNCHANGED policy

-----------------------------------------------------------------------------

FilesInit ==
  /\ \E context \in Contexts :
       LET entries == [i \in DOMAIN context |-> Entry(context[i])]
       IN  Accepts(entries) /\ policy = Resolved(entries, <<Mount>>, <<>>)
  /\ tree = (<<>> :> "dir")
  /\ by = "nobody"

(* handle: fs/writeFile. *)
WriteFile(parts) ==
  /\ parts # <<>>
  /\ CanWrite(policy, Guest(parts))
  /\ Inspect(tree)
  /\ RequireWrite(parts, Metadata(tree))
  /\ Last(parts) # ".git"
  /\ IsDir(tree, Parent(parts)) /\ ~IsDir(tree, parts)
  /\ Native(Written(parts), "write")

(* handle: fs/createDirectory. *)
CreateDirectory(parts, recursive) ==
  /\ Inspect(tree)
  /\ RequireWrite(parts, Metadata(tree))
  /\ DirectoryPlan(parts, recursive)
  /\ ~Blocked(parts)
  /\ Native(Made(parts), "mkdir")

(* handle: fs/remove. *)
RemovePath(parts, recursive) ==
  /\ parts # <<>>
  /\ Inspect(tree)
  /\ RequireWrite(parts, Metadata(tree))
  /\ RemovePlan(parts, recursive)
  /\ Native(Removed(parts), "remove")

(* handle: fs/copy. *)
Copy(source, destination, recursive) ==
  /\ source # <<>> /\ destination # <<>>
  /\ RequireRead(source)
  /\ Inspect(tree)
  /\ source \in DOMAIN tree
  /\ RequireWrite(destination, Metadata(tree))
  /\ CopyPlan(source, destination, recursive)
  /\ Native(Copied(source, destination), "copy")

-----------------------------------------------------------------------------
(* HostFileAuthority._operate: no policy, but the same structural bounds. *)
HostWrites(parts) ==
  /\ parts # <<>> /\ Last(parts) # ".git"
  /\ Inspect(tree)
  /\ Len(parts) <= MaxDepth + 1
  /\ parts \in DOMAIN tree \/ Count(tree) # MaxEntries
  /\ IsDir(tree, Parent(parts)) /\ ~IsDir(tree, parts)
  /\ Native(Written(parts), "host")

HostMakes(parts, recursive) ==
  /\ Inspect(tree)
  /\ Len(parts) <= MaxDepth
  /\ Count(tree) + Cardinality(Missing(parts)) <= MaxEntries
  /\ recursive \/ Cardinality(Missing(parts)) <= 1
  /\ ~Blocked(parts)
  /\ Native(Made(parts), "host")

-----------------------------------------------------------------------------
(* The flags of an open: its access mode, and whether it creates or truncates. *)
Flags == [access : {"r", "w", "rw"}, creat : BOOLEAN, trunc : BOOLEAN]

Reads(flags) == flags.access # "w"

WantsWrite(flags, parts) ==
  \/ flags.access # "r"
  \/ flags.trunc
  \/ flags.creat /\ parts \notin DOMAIN tree

(* The supervisor (external): an allowed open of a missing name creates it in
   an existing directory when asked to, and a writing one changes the file. *)
Opened(parts, flags) ==
  IF IsFile(tree, parts) /\ ~WantsWrite(flags, parts) THEN tree ELSE Written(parts)

Opens(parts, flags) ==
  /\ parts # <<>> /\ ~IsDir(tree, parts)
  /\ parts \in DOMAIN tree \/ (flags.creat /\ IsDir(tree, Parent(parts)))

(* NativeProcessPolicy.decide: the static profile's acquisitions. *)
StaticDecides(parts, flags) ==
  /\ Inspect(tree)
  /\ Reads(flags) => RequireRead(parts)
  /\ WantsWrite(flags, parts) => RequireWrite(parts, Metadata(tree)) /\ Last(parts) # ".git"
  /\ parts \in DOMAIN tree => IsFile(tree, parts)

(* Policy.decide: the managed profile's opens and directory creations. *)
ManagedDecides(operation, parts, flags) ==
  LET write == operation = "mkdir" \/ WantsWrite(flags, parts) IN
  /\ Inspect(tree)
  /\ operation = "open" /\ Reads(flags) => RequireRead(parts)
  /\ write => RequireWrite(parts, Metadata(tree))
  /\ write /\ parts # <<>> /\ operation = "open" /\ parts \notin DOMAIN tree
       => Last(parts) # ".git"

(* HostProcessPolicy.decide: no policy, but no growth past the bounds. *)
HostDecides(operation, parts, flags) ==
  LET creates == operation = "mkdir" \/ (flags.creat /\ parts \notin DOMAIN tree) IN
  /\ Inspect(tree)
  /\ creates => Count(tree) < MaxEntries
                /\ Len(parts) <= MaxDepth + (IF operation = "open" THEN 1 ELSE 0)
  /\ operation = "open" /\ parts # <<>> /\ parts \notin DOMAIN tree => Last(parts) # ".git"

ProcessOpens(parts, flags) ==
  /\ Opens(parts, flags)
  /\ \/ StaticDecides(parts, flags) /\ by' = "process"
     \/ ManagedDecides("open", parts, flags) /\ by' = "process"
     \/ HostDecides("open", parts, flags) /\ by' = "host"
  /\ tree' = Opened(parts, flags)
  /\ UNCHANGED policy

ProcessMakes(parts) ==
  /\ parts # <<>> /\ parts \notin DOMAIN tree /\ IsDir(tree, Parent(parts))
  /\ \E flags \in Flags :
       \/ ManagedDecides("mkdir", parts, flags) /\ by' = "process"
       \/ HostDecides("mkdir", parts, flags) /\ by' = "host"
  /\ tree' = (parts :> "dir") @@ tree
  /\ UNCHANGED policy

FilesNext ==
  \/ \E p \in Paths :
       \/ WriteFile(p)
       \/ HostWrites(p)
       \/ ProcessMakes(p)
       \/ \E flags \in Flags : ProcessOpens(p, flags)
       \/ \E recursive \in BOOLEAN :
            \/ CreateDirectory(p, recursive)
            \/ RemovePath(p, recursive)
            \/ HostMakes(p, recursive)
       \/ \E q \in Paths, recursive \in BOOLEAN : Copy(p, q, recursive)

FilesSpec == FilesInit /\ [][FilesNext]_filesVars

-----------------------------------------------------------------------------
(* What a policy grants, without the resolver: the nearest enclosing entries
   include a write and no denial, and every metadata directory on the way has
   an explicit grant of its own. *)
Authorized(metadata, parts) ==
  LET path == Guest(parts)
      Near(e) == /\ IsPrefix(e.path, path)
                 /\ \A f \in Range(policy) : IsPrefix(f.path, path) => Len(f.path) <= Len(e.path)
  IN  /\ \E e \in Range(policy) : Near(e) /\ e.access = "write"
      /\ ~ \E e \in Range(policy) : Near(e) /\ e.access = "deny"
      /\ \A m \in metadata : IsPrefix(m, parts) =>
           \E e \in Range(policy) :
             e.access = "write" /\ IsPrefix(Guest(m), e.path) /\ IsPrefix(e.path, path)

(* Every node that a model request or a model process creates, rewrites or
   removes is one its policy lets it write, each descendant and each created
   ancestor included, and also when the helper is killed half way
   (native_files.py:275-361, policy.py:75-116). *)
ChangesAreAuthorized ==
  by' \in {"write", "mkdir", "remove", "copy", "process"} =>
    \A p \in Changed(tree, tree') :
      Authorized(Metadata(tree) \cup (IF by' = "copy" THEN Metadata(tree') ELSE {}), p)

(* Nobody turns .git into a file, and no planned operation grows the tree past
   the bounds _inspect refuses, which would end every later operation
   (native_files.py:142-158, 423-427).  fs/writeFile and the managed process
   have no bound of their own and are left out of the second half. *)
AdmissionIsKept ==
  /\ KindsAdmitted(tree) => KindsAdmitted(tree')
  /\ BoundsAdmitted(tree) /\ by' \in {"mkdir", "remove", "copy", "host"}
       => BoundsAdmitted(tree')
=============================================================================
