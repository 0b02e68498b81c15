-------------------------- MODULE DriverProperties --------------------------
(***************************************************************************)
(* What the driver's answers to the solver must have in common, whatever   *)
(* the solver asks and in whatever order it backtracks.                    *)
(***************************************************************************)
EXTENDS Driver

\* Every variable of the driver has its type.
TypeOK ==
    /\ router \in Router
    /\ versionCache \in [Package -> {None}
          \cup [origin: Index \cup {None}, list: Seq(Version)]]
    /\ depsCache \in [Key -> {None} \cup Answer]
    /\ inherited \subseteq Package
    /\ picked \in Package \cup {None} /\ latest \in Key \cup {None}
    /\ failed \subseteq Index \X Package

\* The scope of a named index holds nothing but what its roots need, and the
\* packages left to the default index are those an ordinary dependency needs:
\* both only along requirements the solver has seen (propagate).
RouterSound ==
    /\ \A i \in Named : router.scopes[i] \subseteq Reach(Roots(i), Walked)
    /\ router.default \subseteq Reach(Direct \ Routed, Walked)

\* The version expanded last has passed its memberships on, even when its
\* requirements were cached before it got them (the re-propagation on a cache
\* hit in get_dependencies).
LatestReached ==
    latest # None =>
        LET targets == Targets(depsCache[latest].requirements)
        IN  /\ \A i \in Named : latest[1] \in router.scopes[i] =>
                                   targets \subseteq router.scopes[i]
            /\ latest[1] \in router.default => targets \subseteq router.default

\* What the project itself asks for, in its dependencies, extras or groups, is
\* never taken from a named index it is not routed to, although the closure of
\* that index may reach it ("the default index wins").
DirectFromDefault ==
    \A p \in Direct \ Routed :
        versionCache[p] # None => versionCache[p].origin \notin Named

\* A package that is routed to a named index falls back to an unscoped one
\* only when its own index has no version of it or could not be asked.
RootsFallBackLast ==
    \A p \in Routed :
        /\ versionCache[p] # None /\ Pin[p] = None
        /\ versionCache[p].origin \notin Named
        => \A i \in Named : p \in Roots(i) =>
              DOMAIN Published[i][p] = {} \/ <<i, p>> \in failed

\* The solver is offered every stable version of the index that answered, and
\* a pre-release only if there is nothing else; in the order of the strategy,
\* and nothing of a package another one substitutes.  Pins are exempt.
CandidatesAllowed ==
    \A p \in Package :
        versionCache[p] # None /\ versionCache[p].origin # None =>
            LET offered == ToSet(versionCache[p].list)
                all == DOMAIN Published[versionCache[p].origin][p]
                stable == all \ PreRelease
                preferred == \A s \in Substitutions :
                                p \in s.members => s.prefer \in {None, p}
            IN  /\ offered = IF ~preferred THEN {}
                             ELSE IF stable = {} THEN all ELSE stable
                /\ \A j \in 2..Len(versionCache[p].list) :
                      LET earlier == versionCache[p].list[j - 1]
                          later == versionCache[p].list[j]
                      IN  IF Ascending THEN earlier < later ELSE earlier > later

\* Which conflicts were inherited when a version was expanded, and so the
\* order of the expansions, does not show in what it requires of others.
RequirementsFaithful ==
    \A k \in Expanded :
        LET answer == depsCache[k]
            OfOthers(reqs) == {d \in reqs : d.package # k[1]}
        IN  answer.origin # None =>
               OfOthers(answer.requirements)
                   = OfOthers(Published[answer.origin][k[1]][k[2]])

\* A version that an index offered has the requirements this index publishes
\* for it: membership only grows, "which is safe under PubGrub backtracking"
\* (index_router.rs:24).
RequirementsOfOrigin ==
    \A k \in Expanded :
        LET origin == versionCache[k[1]].origin
        IN  origin # None => depsCache[k].origin = origin
=============================================================================
