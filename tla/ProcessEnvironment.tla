-------------------------- MODULE ProcessEnvironment --------------------------
(***************************************************************************)
(* The environment a native process starts with (native_environment.py):   *)
(* inheritance from the supervisor's snapshot, name filters, the two sets  *)
(* of overrides, and the wildcard matcher behind the filters.              *)
(***************************************************************************)
EXTENDS Naturals, Sequences, FiniteSets, TLC

CONSTANTS
  Alphabet,      \* characters of names, some the upper case of others
  MaxPattern,    \* longest pattern
  MaxName,       \* longest name
  Variables,     \* environment variable names
  Policies       \* [inherit, ignoreDefaultExcludes, exclude, includeOnly, set, env]

VARIABLES
  matcher,      \* the matching loop
  environment   \* the request and the environment resolved from it

environmentVars == <<matcher, environment>>

(* lowercase_scalar, on the characters of the model. *)
Lower(c) == IF c = "A" THEN "a" ELSE IF c = "B" THEN "b" ELSE c

Strings(chars, n) == UNION {[1 .. k -> chars] : k \in 0 .. n}

MatcherOff == [state |-> "off"]

MatchStart(pattern, name) ==
  [state |-> "run", pattern |-> pattern, name |-> name,
   p |-> 1, n |-> 1, star |-> 0, retry |-> 0]

(* matches_pattern: one iteration of its first loop. *)
CharMatches(p, n) ==
  /\ p <= Len(matcher.pattern)
  /\ \/ matcher.pattern[p] = "?"
     \/ Lower(matcher.pattern[p]) = Lower(matcher.name[n])

(* Mutant: after a mismatch the match goes on where it was, not after the star. *)
MatchStepNoRetry ==
  /\ matcher.state = "run" /\ matcher.n <= Len(matcher.name)
  /\ LET p == matcher.p
         n == matcher.n
     IN  matcher' =
           IF p <= Len(matcher.pattern) /\ matcher.pattern[p] = "*"
           THEN [matcher EXCEPT !.star = p, !.p = p + 1, !.retry = n]
           ELSE IF CharMatches(p, n)
           THEN [matcher EXCEPT !.p = p + 1, !.n = n + 1]
           ELSE IF matcher.star > 0
           THEN [matcher EXCEPT !.n = n + 1, !.p = matcher.star + 1]
           ELSE [matcher EXCEPT !.state = "no"]
  /\ UNCHANGED environment

MatchStep ==
  /\ matcher.state = "run" /\ matcher.n <= Len(matcher.name)
  /\ LET p == matcher.p
         n == matcher.n
     IN  matcher' =
           IF p <= Len(matcher.pattern) /\ matcher.pattern[p] = "*"
           THEN [matcher EXCEPT !.star = p, !.p = p + 1, !.retry = n]
           ELSE IF CharMatches(p, n)
           THEN [matcher EXCEPT !.p = p + 1, !.n = n + 1]
           ELSE IF matcher.star > 0
           THEN [matcher EXCEPT !.retry = @ + 1, !.n = matcher.retry + 1, !.p = matcher.star + 1]
           ELSE [matcher EXCEPT !.state = "no"]
  /\ UNCHANGED environment

(* Its second loop: only stars may be left over. *)
MatchEnds ==
  /\ matcher.state = "run" /\ matcher.n > Len(matcher.name)
  /\ matcher' = [matcher EXCEPT !.state =
       IF \A i \in matcher.p .. Len(matcher.pattern) : matcher.pattern[i] = "*" THEN "yes" ELSE "no"]
  /\ UNCHANGED environment

(* The pattern language, without the loop. *)
RECURSIVE Denotes(_, _)
Denotes(pattern, name) ==
  IF pattern = <<>> THEN name = <<>>
  ELSE IF Head(pattern) = "*"
  THEN \E k \in 0 .. Len(name) : Denotes(Tail(pattern), SubSeq(name, k + 1, Len(name)))
  ELSE /\ name # <<>>
       /\ Head(pattern) = "?" \/ Lower(Head(pattern)) = Lower(Head(name))
       /\ Denotes(Tail(pattern), Tail(name))

-----------------------------------------------------------------------------
(* The filters name variables by class: core, secret-looking, and never
   inherited; a pattern list stands for the set of names it matches. *)
UNIX_CORE == {"PATH", "HOME"}

DefaultExcludes == {"API_KEY", "NODE_REPL_AUTH_TOKEN"}

NON_INHERITABLE == {"NODE_REPL_AUTH_TOKEN", "CODEX_EXEC_SERVER_EXIT_ON_STDIN_CLOSE"}

EnvironmentOff == [state |-> "off"]

Update(env, names, origin) ==
  [v \in DOMAIN env \cup names |-> IF v \in names THEN origin ELSE env[v]]

Keep(env, names) == [v \in DOMAIN env \cap names |-> env[v]]

Without(env, names) == Keep(env, DOMAIN env \ names)

(* process_environment: each step in the order of the code. *)
Inherited(request) ==
  CASE request.inherit = "none" -> << >>
    [] request.inherit = "core" -> [v \in request.parent \cap UNIX_CORE |-> "parent"]
    [] request.inherit = "all" -> [v \in request.parent |-> "parent"]

Filtered(request) ==
  LET inherited == Inherited(request)
      defaults == IF request.ignoreDefaultExcludes THEN inherited
                  ELSE Without(inherited, DefaultExcludes)
      overridden == Update(Without(defaults, request.exclude), request.set, "set")
  IN  IF request.includeOnly = {} THEN overridden ELSE Keep(overridden, request.includeOnly)

ResolveEnvironment ==
  /\ environment.state = "asked"
  /\ environment' = [environment EXCEPT !.state = "resolved",
       !.result = Without(Update(Filtered(environment.request), environment.request.env, "env"),
                          NON_INHERITABLE)]
  /\ UNCHANGED matcher

-----------------------------------------------------------------------------
MatchInit ==
  \/ /\ \E pattern \in Strings(Alphabet \cup {"*", "?"}, MaxPattern),
           name \in Strings(Alphabet, MaxName) : matcher = MatchStart(pattern, name)
     /\ environment = EnvironmentOff
  \/ /\ matcher = MatcherOff
     /\ \E request \in Policies, parent \in SUBSET Variables :
          environment = [state |-> "asked", result |-> << >>,
                         request |-> [parent |-> parent] @@ request]

MatchNext == MatchStep \/ MatchEnds \/ ResolveEnvironment

MatchSpec == MatchInit /\ [][MatchNext]_environmentVars

(* Why a variable may be there: asked for by the request itself, set by the
   policy and not filtered again, or inherited and let through by all filters. *)
Justified(request, v, origin) ==
  CASE origin = "env" -> v \in request.env
    [] origin = "set" -> v \in request.set \ request.env
                         /\ (request.includeOnly # {} => v \in request.includeOnly)
    [] origin = "parent" ->
         /\ v \in request.parent \ (request.env \cup request.set \cup request.exclude)
         /\ request.inherit = "all" \/ (request.inherit = "core" /\ v \in UNIX_CORE)
         /\ request.ignoreDefaultExcludes \/ v \notin DefaultExcludes
         /\ request.includeOnly # {} => v \in request.includeOnly

(* The loop with its single backtracking point decides the same language as
   the definition of the wildcards, and every variable of a resolved
   environment has a reason to be there, none of them one that may never be
   passed on (native_environment.py:46-72, 86-130). *)
EnvironmentIsFiltered ==
  /\ matcher.state \in {"yes", "no"} =>
       (matcher.state = "yes") = Denotes(matcher.pattern, matcher.name)
  /\ environment.state = "resolved" =>
       /\ DOMAIN environment.result \cap NON_INHERITABLE = {}
       /\ \A v \in DOMAIN environment.result :
            Justified(environment.request, v, environment.result[v])
=============================================================================
