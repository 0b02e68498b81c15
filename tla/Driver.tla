------------------------------- MODULE Driver -------------------------------
(***************************************************************************)
(* The resolution driver of crates/vyp-core/src/lib.rs with everything     *)
(* that decides which answers the solver gets: the providers that          *)
(* crates/vyp/src/config/settings.rs creates, their registry               *)
(* (plugin/registry.rs), the index router, pins, filters and conflict      *)
(* strategies.  The solver is abstracted to what it may ask in a round of  *)
(* run_solver: the versions of any package it knows, then the dependencies *)
(* of any of them, as often as it backtracks (Solver says which it asks).  *)
(* How providers fetch is the subject of Fetching; here they answer.       *)
(***************************************************************************)
EXTENDS Integers, Sequences, FiniteSets, SequencesExt

CONSTANTS
    Package, Version,   \* versions are numbers, later ones are greater
    None,
    \* the configuration
    Default,        \* the index of index-url
    Extra,          \* the extra indexes, in the order of the configuration
    Explicit,       \* those that are explicit
    Sources,        \* the indexes the sources entries of a package name
    Torch,          \* the packages of the torch backend; {} without one
    Dependencies,   \* the project's dependencies
    Groups,         \* what its extras and dependency groups name
    Requested,      \* the requirements of the command line
    Pin,            \* the exact pins of the overrides, or None
    RangeOverride,  \* the versions a range override allows, or None
    Substitutions,  \* records of members and prefer, a member or None
    PreRelease,     \* the versions that are pre-releases
    PreReleases,    \* the policy: "allow", "disallow", "if-necessary"
    Ascending,      \* the lowest version is tried first
    \* the world
    Published,      \* by index and package, versions with their requirements
    Declares,       \* by package, those its transitive conflicts are on
    MaxFailures     \* bound: how many lookups of a version list fail

Pytorch == "pytorch"

Index == {Default, Pytorch} \cup ToSet(Extra)

\* The packages that are routed to a named index: the roots of its scope.
Roots(i) ==
    {p \in Package : i \in Explicit /\ i \in Sources[p]}
        \cup (IF i = Pytorch THEN Torch ELSE {})

\* An index with a scope: explicit, and something is routed to it.
Named == {i \in Index \ {Default} : Roots(i) # {}}

INSTANCE IndexRouter

\* The indexes that get a provider, and the place they get it in.
Providers ==
    {Default} \cup {i \in ToSet(Extra) : i \in Named \/ i \notin Explicit}
              \cup (IF Torch = {} THEN {} ELSE {Pytorch})

Place(i) ==
    IF i = Default THEN 0
    ELSE IF i \in ToSet(Extra) THEN CHOOSE k \in DOMAIN Extra : Extra[k] = i
    ELSE Len(Extra) + 1

\* Scoped providers come first.
Priority(i) == IF i \in Named THEN 20 ELSE 10

\* Mutant of Before: the registry does not sort.
BeforeUnsorted(i, j) == Place(i) <= Place(j)

\* ProviderRegistry: by priority; the sort is stable.
Before(i, j) ==
    \/ Priority(i) > Priority(j)
    \/ Priority(i) = Priority(j) /\ Place(i) <= Place(j)

\* The providers of a set that come first in the registry, one or none.
First(indexes) ==
    LET asked == indexes \cap Providers
    IN  {i \in asked : \A j \in asked : Before(i, j)}

Requirement == [package: Package, range: SUBSET Version]

\* A cached answer of get_dependencies.
Answer == [origin: Index \cup {None}, requirements: SUBSET Requirement]

ASSUME DriverAssumption ==
    /\ Version \subseteq Nat /\ PreRelease \subseteq Version
    /\ Extra \in Seq(ToSet(Extra))
    /\ Explicit \subseteq ToSet(Extra) /\ None \notin Index \cup Answer
    /\ Default # Pytorch /\ {Default, Pytorch} \cap ToSet(Extra) = {}
    /\ Sources \in [Package -> SUBSET ToSet(Extra)]
    /\ Torch \cup Dependencies \cup Groups \cup Requested \subseteq Package
    /\ Pin \in [Package -> Version \cup {None}]
    /\ RangeOverride \in [Package -> (SUBSET Version) \cup {None}]
    /\ PreReleases \in {"allow", "disallow", "if-necessary"}
    /\ Ascending \in BOOLEAN /\ MaxFailures \in Nat
    /\ \A i \in Index : \A p \in Package :
          /\ DOMAIN Published[i][p] \subseteq Version
          /\ IsFiniteSet(DOMAIN Published[i][p])
          /\ \A v \in DOMAIN Published[i][p] :
                Published[i][p][v] \subseteq Requirement
    /\ Declares \in [Package -> SUBSET Package]

VARIABLES
    router,         \* the index router
    versionCache,   \* version_cache: the index that answered, and its list
    depsCache,      \* deps_cache: who answered, and the requirements
    inherited,      \* inherited_conflicts: the packages they are on
    picked,         \* the package of this round, until its version is chosen
    latest,         \* the package and version expanded last
    failed          \* the lookups of version lists that failed

vars == <<router, versionCache, depsCache, inherited, picked, latest, failed>>

Key == Package \X Version

\* direct_dependency_names, which the default index serves unless they are
\* routed to a named one.
Direct == Dependencies \cup Groups

Routed == UNION {Roots(i) : i \in Named}

\* Mutant of Seeded: the extras and dependency groups are forgotten.
SeededFromDependencies ==
    SeedDefault(SeedIndexes(NewRouter, [i \in Named |-> Roots(i)]),
                Dependencies \ Routed)

\* create_providers_with_client: the router the resolution starts with.
Seeded ==
    SeedDefault(SeedIndexes(NewRouter, [i \in Named |-> Roots(i)]),
                Direct \ Routed)

Init ==
    /\ router = Seeded
    /\ versionCache = [p \in Package |-> None]
    /\ depsCache = [k \in Key |-> None]
    /\ inherited = {}
    /\ picked = None /\ latest = None
    /\ failed = {}

-----------------------------------------------------------------------------
(* What the solver can ask about: the requirements of the project and of   *)
(* every version it has expanded.                                          *)

Expanded == {k \in Key : depsCache[k] # None}

Targets(reqs) == {d.package : d \in reqs}

Known ==
    Dependencies \cup Requested
        \cup UNION {Targets(depsCache[k].requirements) : k \in Expanded}

\* The edges the solver has walked.
Walked ==
    UNION {{<<k[1], q>> : q \in Targets(depsCache[k].requirements)} :
              k \in Expanded}

\* matches_filter
CanProvide(i, p) == i \in Named => RoutesTo(router, i, p)

-----------------------------------------------------------------------------
(* get_versions.                                                           *)

\* SubstitutionFilter excludes what is not preferred.
Substituted(p) ==
    \E s \in Substitutions : p \in s.members /\ s.prefer \notin {None, p}

\* Mutant of Allowed: a pre-release keeps itself.
AllowedCandidates(p, versions) ==
    IF Substituted(p) THEN {}
    ELSE IF PreReleases = "if-necessary" /\ versions \cap PreRelease # {}
    THEN versions
    ELSE versions \ PreRelease

\* The filters; PreReleaseFilter is not registered when all are allowed and
\* keeps pre-releases, if it is to, when there is nothing else.
Allowed(p, versions) ==
    IF Substituted(p) THEN {}
    ELSE IF \/ PreReleases = "allow"
            \/ PreReleases = "if-necessary" /\ versions \subseteq PreRelease
    THEN versions
    ELSE versions \ PreRelease

\* Each version once, in the order of the strategy.
Sorted(versions) ==
    CHOOSE s \in [1..Cardinality(versions) -> versions] :
        /\ ToSet(s) = versions
        /\ \A j, k \in DOMAIN s :
              j < k => IF Ascending THEN s[j] < s[k] ELSE s[j] > s[k]

Pick(p) == p \in Known /\ picked = None /\ picked' = p

\* Mutant of UsePin: a pin that does not parse is used all the same.
UsePinUnparsed(p) ==
    /\ Pick(p) /\ versionCache[p] = None
    /\ versionCache' = [versionCache EXCEPT
                           ![p] = [origin |-> None, list |-> <<Pin[p]>>]]
    /\ UNCHANGED <<router, depsCache, inherited, latest, failed>>

UsePin(p) ==
    /\ Pick(p) /\ versionCache[p] = None /\ Pin[p] # None
    /\ versionCache' = [versionCache EXCEPT
                           ![p] = [origin |-> None, list |-> <<Pin[p]>>]]
    /\ UNCHANGED <<router, depsCache, inherited, latest, failed>>

\* The first provider that may serve p, does not fail and has a version of it
\* answers; failures are logged, and when nobody answers there are no versions.
TakeList(p) ==
    /\ Pick(p) /\ versionCache[p] = None /\ Pin[p] = None
    /\ \E down \in SUBSET {i \in Index : CanProvide(i, p)} :
          LET answering == First({i \in Index \ down : CanProvide(i, p)
                                     /\ DOMAIN Published[i][p] # {}})
          IN  /\ Cardinality(failed) + Cardinality(down) <= MaxFailures
              /\ failed' = failed \cup (down \X {p})
              /\ \/ /\ answering = {}
                    /\ versionCache' = [versionCache EXCEPT
                          ![p] = [origin |-> None, list |-> <<>>]]
                 \/ \E i \in answering : versionCache' = [versionCache EXCEPT
                       ![p] = [origin |-> i, list |->
                          Sorted(Allowed(p, DOMAIN Published[i][p]))]]
    /\ UNCHANGED <<router, depsCache, inherited, latest>>

UseList(p) ==
    /\ Pick(p) /\ versionCache[p] # None
    /\ UNCHANGED <<router, versionCache, depsCache, inherited, latest, failed>>

\* No version is in the range the solver needs: it learns that and goes on.
NoneInRange ==
    /\ picked # None /\ picked' = None
    /\ UNCHANGED <<router, versionCache, depsCache, inherited, latest, failed>>

-----------------------------------------------------------------------------
(* get_dependencies.                                                       *)

\* SubstitutionStrategy: several members of a set of which p is one.
Clash(p, reqs) ==
    \E s \in Substitutions : /\ p \in s.members
                             /\ Cardinality(s.members \cap Targets(reqs)) > 1

\* The strategies by priority; the first that does not abstain decides.  They
\* are asked once any transitive conflict was inherited.
Verdict(p, reqs, contested) ==
    CASE contested = {} -> "abstain"
      [] contested # {} /\ RangeOverride[p] # None -> "rewrite"
      [] contested # {} /\ RangeOverride[p] = None /\ Clash(p, reqs) -> "fail"
      [] OTHER -> IF p \in contested THEN "fork" ELSE "abstain"

\* Mutant of Rewritten: an override rewrites every requirement of its package.
RewrittenEverywhere(p, reqs, contested) ==
    IF contested = {} THEN reqs
    ELSE {[d EXCEPT !.range =
              IF RangeOverride[d.package] = None THEN @
              ELSE @ \cap RangeOverride[d.package]] : d \in reqs}

\* An override of p rewrites what p requires of itself; a failed substitution
\* changes nothing, and neither does a fork, whose sides have no bounds.
Rewritten(p, reqs, contested) ==
    IF Verdict(p, reqs, contested) # "rewrite" THEN reqs
    ELSE {[d EXCEPT !.range = IF d.package = p THEN @ \cap RangeOverride[p]
                              ELSE @] : d \in reqs}

Choose(p, v) ==
    /\ picked = p /\ v \in ToSet(versionCache[p].list)
    /\ picked' = None /\ latest' = <<p, v>>

\* The answer is cached as the strategies leave it; its targets reach the
\* router.
Learn(p, v, origin, reqs, heard) ==
    /\ inherited' = inherited \cup heard
    /\ depsCache' = [depsCache EXCEPT ![<<p, v>>] =
          [origin |-> origin, requirements |-> Rewritten(p, reqs, inherited')]]
    /\ router' = Propagate(router, p, Targets(reqs))

\* Without metadata from any provider a version has no dependencies.
Expand(p, v) ==
    /\ Choose(p, v) /\ depsCache[<<p, v>>] = None
    /\ LET answering == First({i \in Index : CanProvide(i, p)
                                  /\ v \in DOMAIN Published[i][p]})
       IN  \/ answering = {} /\ Learn(p, v, None, {}, {})
           \/ \E i \in answering :
                 Learn(p, v, i, Published[i][p][v], Declares[p])
    /\ UNCHANGED <<versionCache, failed>>

\* Mutant of Revisit: cached requirements do not reach the router.
RevisitSilently(p, v) ==
    /\ Choose(p, v) /\ depsCache[<<p, v>>] # None
    /\ UNCHANGED <<router, versionCache, depsCache, inherited, failed>>

\* The solver decides p again: the cached requirements, which by now may be
\* reached along more edges.
Revisit(p, v) ==
    /\ Choose(p, v) /\ depsCache[<<p, v>>] # None
    /\ router' = Propagate(router, p,
                           Targets(depsCache[<<p, v>>].requirements))
    /\ UNCHANGED <<versionCache, depsCache, inherited, failed>>

Next ==
    \/ NoneInRange
    \/ \E p \in Package :
          \/ UsePin(p) \/ TakeList(p) \/ UseList(p)
          \/ \E v \in Version : Expand(p, v) \/ Revisit(p, v)

Spec == Init /\ [][Next]_vars
=============================================================================
