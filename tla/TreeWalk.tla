------------------------------ MODULE TreeWalk ------------------------------
(***************************************************************************)
(* fs/walk: the bounded breadth-first listing of a directory, as the       *)
(* managed backend computes it from its inspected tree                     *)
(* (native_files.py) and as the ordinary-uid backend computes it from the  *)
(* live file system, following directory links on request                  *)
(* (ordinary_uid_files.py).  One step visits one name.                     *)
(***************************************************************************)
EXTENDS Naturals, Sequences, FiniteSets, SequencesExt

CONSTANTS
  NameOrder,    \* the component names, in their sorted order
  Trees,        \* the trees to walk: path |-> [kind, to]
  WalkOptions   \* [maxDepth, maxDirectories, maxEntries, follow, prune]

VARIABLE walk

Broken == <<"broken">>

(* A path with every link on the way resolved (external: the kernel's lookup);
   a dangling link or a loop has no object. *)
RECURSIVE Resolve(_, _, _)
Resolve(t, path, fuel) ==
  IF path = <<>> THEN <<>>
  ELSE IF fuel = 0 THEN Broken
  ELSE LET up == Resolve(t, Front(path), fuel - 1)
           here == Append(up, Last(path))
       IN  IF up = Broken \/ here \notin DOMAIN t THEN Broken
           ELSE IF t[here].kind = "link" THEN Resolve(t, t[here].to, fuel - 1)
           ELSE here

Real(path) == Resolve(walk.tree, path, 6)

KindOf(path) ==
  LET real == Real(path)
  IN  IF real = Broken THEN "none" ELSE IF real = <<>> THEN "dir" ELSE walk.tree[real].kind

(* _stat: whether the name itself is a link. *)
IsLink(path) ==
  /\ path # <<>>
  /\ LET here == Append(Real(Front(path)), Last(path))
     IN  here \in DOMAIN walk.tree /\ walk.tree[here].kind = "link"

(* _names of the ordinary backend, sorted: dangling links are left out. *)
OrdinaryNames(directory) ==
  LET Listed(name) == KindOf(Append(directory, name)) # "none"
  IN  SelectSeq(NameOrder, Listed)

(* The managed backend sorts the children of its inspected nodes. *)
ManagedNames(directory) ==
  LET Listed(name) == Append(directory, name) \in DOMAIN walk.tree
  IN  SelectSeq(NameOrder, Listed)

WalkStart(mode, tree, options, denied, start) ==
  [state |-> "start", mode |-> mode, tree |-> tree, options |-> options,
   denied |-> denied, start |-> start, queue |-> <<>>, visited |-> {},
   expanded |-> <<>>, entries |-> <<>>, directory |-> <<>>, depth |-> 0,
   names |-> <<>>, directories |-> 1, count |-> 0, truncated |-> FALSE, errors |-> FALSE]

WalkInit ==
  \E tree \in Trees, options \in WalkOptions, start \in {<<>>} \cup {<<n>> : n \in Range(NameOrder)} :
    \/ walk = WalkStart("ordinary", tree, options, {}, start)
    \/ /\ \A p \in DOMAIN tree : tree[p].kind # "link"
       /\ start \in DOMAIN tree \cup {<<>>}
       /\ \E denied \in {{}} \cup {{p} : p \in DOMAIN tree} :
            walk = WalkStart("managed", tree, [options EXCEPT !.follow = FALSE], denied, start)

Ended(outcome) == [walk EXCEPT !.state = outcome]

(* The start of both walks: a missing target is an error, a file or an
   unfollowed link an empty listing. *)
WalkBegins ==
  /\ walk.state = "start"
  /\ walk' =
       IF KindOf(walk.start) = "none" THEN Ended("refused")
       ELSE IF \/ KindOf(walk.start) # "dir"
               \/ IsLink(walk.start) /\ ~walk.options.follow
       THEN Ended("empty")
       ELSE [walk EXCEPT !.state = "next",
               !.queue = <<[path |-> walk.start, depth |-> 0]>>,
               !.visited = {IF walk.options.follow THEN Real(walk.start) ELSE walk.start}]

(* _walk: the next directory must be readable under the policy. *)
ManagedTake ==
  /\ walk.state = "next" /\ walk.mode = "managed" /\ walk.queue # <<>>
  /\ walk' =
       IF Head(walk.queue).path \in walk.denied THEN Ended("refused")
       ELSE [walk EXCEPT !.state = "visit", !.queue = Tail(walk.queue),
               !.directory = Head(walk.queue).path, !.depth = Head(walk.queue).depth,
               !.expanded = Append(@, Head(walk.queue).path),
               !.names = ManagedNames(Head(walk.queue).path)]

(* The ordinary walk reports a directory it cannot read and goes on. *)
OrdinaryTake ==
  /\ walk.state = "next" /\ walk.mode = "ordinary" /\ walk.queue # <<>>
  /\ \/ walk' = [walk EXCEPT !.queue = Tail(walk.queue), !.errors = TRUE]
     \/ walk' = [walk EXCEPT !.state = "visit", !.queue = Tail(walk.queue),
                   !.directory = Head(walk.queue).path, !.depth = Head(walk.queue).depth,
                   !.expanded = Append(@, Head(walk.queue).path),
                   !.names = OrdinaryNames(Head(walk.queue).path)]

WalkEnds ==
  /\ walk.state = "next" /\ walk.queue = <<>>
  /\ walk' = Ended("done")

NamesEnd ==
  /\ walk.state = "visit" /\ walk.names = <<>>
  /\ walk' = [walk EXCEPT !.state = "next"]

(* maxEntries is reached; the 4 MiB response bound ends a walk the same way. *)
Truncate ==
  /\ walk.state = "visit" /\ walk.names # <<>>
  /\ walk.count = walk.options.maxEntries
  /\ walk' = [walk EXCEPT !.state = "done", !.truncated = TRUE]

(* One name: listed, and queued when it is a directory to descend into that is
   neither pruned nor already visited and the directory bound has room. *)
(* Mutant: one level too deep. *)
DescendsTooFar(child) ==
  /\ KindOf(child) = "dir"
  /\ walk.depth <= walk.options.maxDepth
  /\ ~(walk.options.prune /\ Head(walk.names) = ".h")

Descends(child) ==
  /\ KindOf(child) = "dir"
  /\ walk.depth < walk.options.maxDepth
  /\ ~(walk.options.prune /\ Head(walk.names) = ".h")

Listing(child) ==
  LET seen == [walk EXCEPT !.names = Tail(@), !.count = @ + 1, !.entries = Append(@, child)]
      identity == IF walk.options.follow THEN Real(child) ELSE child
  IN  IF ~Descends(child) \/ identity \in walk.visited THEN seen
      ELSE IF walk.directories = walk.options.maxDirectories
      THEN [seen EXCEPT !.truncated = TRUE, !.visited = @ \cup {identity}]
      ELSE [seen EXCEPT !.directories = @ + 1, !.visited = @ \cup {identity},
              !.queue = Append(@, [path |-> child, depth |-> walk.depth + 1])]

Skipped == [walk EXCEPT !.names = Tail(@), !.count = @ + 1]

ManagedVisit ==
  /\ walk.state = "visit" /\ walk.mode = "managed" /\ walk.names # <<>>
  /\ walk.count < walk.options.maxEntries
  /\ LET child == Append(walk.directory, Head(walk.names))
     IN  walk' = IF child \in walk.denied THEN Ended("refused") ELSE Listing(child)

OrdinaryVisit ==
  /\ walk.state = "visit" /\ walk.mode = "ordinary" /\ walk.names # <<>>
  /\ walk.count < walk.options.maxEntries
  /\ LET child == Append(walk.directory, Head(walk.names))
     IN  walk' = IF IsLink(child) /\ (~walk.options.follow \/ KindOf(child) # "dir")
                 THEN Skipped
                 ELSE Listing(child)

WalkNext ==
  \/ WalkBegins
  \/ ManagedTake
  \/ OrdinaryTake
  \/ WalkEnds
  \/ NamesEnd
  \/ Truncate
  \/ ManagedVisit
  \/ OrdinaryVisit

WalkSpec == WalkInit /\ [][WalkNext]_walk

-----------------------------------------------------------------------------
(* The directories within maxDepth of the start, level by level. *)
Below1(real) ==
  {Append(real, n) : n \in
     {m \in Range(NameOrder) :
        LET child == Append(real, m) IN
        /\ KindOf(child) = "dir"
        /\ ~(walk.options.prune /\ m = ".h")
        /\ walk.options.follow \/ ~IsLink(child)}}

RECURSIVE Reachable(_)
Reachable(depth) ==
  IF depth = 0 THEN {Real(walk.start)}
  ELSE LET near == Reachable(depth - 1)
       IN  near \cup {Real(c) : c \in UNION {Below1(d) : d \in near}}

Listable(real) ==
  {Append(real, n) : n \in
     {m \in Range(NameOrder) :
        LET child == Append(real, m) IN
        /\ KindOf(child) # "none"
        /\ IsLink(child) => walk.options.follow /\ KindOf(child) = "dir"}}

(* A walk that reports neither truncation nor errors has listed exactly the
   names of the directories within its depth, and has read each directory
   once, links and loops of links included (native_files.py:249-273,
   ordinary_uid_files.py:271-311). *)
WalkIsExact ==
  walk.state = "done" /\ ~walk.truncated /\ ~walk.errors =>
    LET reals == [i \in DOMAIN walk.expanded |-> Real(walk.expanded[i])]
        listed == [i \in DOMAIN walk.entries |->
                     Append(Real(Front(walk.entries[i])), Last(walk.entries[i]))]
    IN  /\ IsInjective(reals) /\ IsInjective(listed)
        /\ Range(reals) = Reachable(walk.options.maxDepth)
        /\ Range(listed) = UNION {Listable(d) : d \in Range(reals)}
=============================================================================
