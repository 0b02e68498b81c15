---------------------------- MODULE DriverProofs ----------------------------
(***************************************************************************)
(* The routing of packages is sound in every world: memberships follow     *)
(* requirements that were seen and are passed on, direct dependencies stay *)
(* with the default index, and declared roots with their own.  The solver  *)
(* is offered what an index publishes, filtered and ordered as asked, and  *)
(* requirements of other packages are those that were published.           *)
(***************************************************************************)
EXTENDS DriverProperties, SequenceLemmas

-----------------------------------------------------------------------------
(* Reachability.                                                           *)

\* Roots are reached.
LEMMA ReachRoots ==
    ASSUME NEW roots \in SUBSET Package, NEW edges
    PROVE  roots \subseteq Reach(roots, edges)
BY DEF Reach

\* What an edge leaves from, it leads to.
LEMMA ReachStep ==
    ASSUME NEW roots, NEW edges, NEW p \in Reach(roots, edges),
           NEW q \in Package, <<p, q>> \in edges
    PROVE  q \in Reach(roots, edges)
<1>1. SUFFICES ASSUME NEW members \in SUBSET Package,
                      roots \subseteq members, ClosedUnder(members, edges)
               PROVE  q \in members
    BY DEF Reach
<1>2. p \in members
    BY <1>1 DEF Reach
<1>3. <<p, q>>[1] = p /\ <<p, q>>[2] = q
    OBVIOUS
<1> QED
    BY <1>1, <1>2, <1>3 DEF ClosedUnder

\* More edges reach more.
LEMMA ReachMonotone ==
    ASSUME NEW roots, NEW edges, NEW more, edges \subseteq more
    PROVE  Reach(roots, edges) \subseteq Reach(roots, more)
BY DEF Reach, ClosedUnder

-----------------------------------------------------------------------------
(* The router.                                                             *)

\* Roots and direct dependencies are packages.
LEMMA RootsType ==
    /\ \A i \in Named : Roots(i) \subseteq Package
    /\ Direct \subseteq Package
BY DriverAssumption DEF Roots, Direct

\* The router a resolution starts with.
LEMMA SeededIs ==
    /\ Seeded \in Router
    /\ Seeded.seeds = [i \in Named |-> Roots(i)]
    /\ Seeded.scopes = [i \in Named |-> Roots(i)]
    /\ Seeded.default = Direct \ Routed
BY RootsType DEF Seeded, SeedDefault, SeedIndexes, NewRouter, Router

-----------------------------------------------------------------------------
(* What is cached.                                                         *)

\* Strategies change ranges, never the packages required.
LEMMA RewrittenTargets ==
    ASSUME NEW p, NEW reqs \in SUBSET Requirement, NEW contested
    PROVE  Targets(Rewritten(p, reqs, contested)) = Targets(reqs)
<1>1. CASE Verdict(p, reqs, contested) # "rewrite"
    BY <1>1 DEF Rewritten
<1>2. CASE ~(Verdict(p, reqs, contested) # "rewrite")
    <2> DEFINE New(d) == [d EXCEPT !.range = IF d.package = p
                             THEN @ \cap RangeOverride[p] ELSE @]
    <2>1. \A d \in reqs : New(d).package = d.package
        BY DEF Requirement
    <2>2. Rewritten(p, reqs, contested) = {New(d) : d \in reqs}
        BY <1>2 DEF Rewritten
    <2> HIDE DEF New
    <2> QED
        BY <2>1, <2>2 DEF Targets
<1> QED
    BY <1>1, <1>2

\* Nor do they make anything else of a requirement.
LEMMA RewrittenType ==
    ASSUME NEW p, NEW reqs \in SUBSET Requirement, NEW contested
    PROVE  Rewritten(p, reqs, contested) \in SUBSET Requirement
<1>1. CASE Verdict(p, reqs, contested) # "rewrite"
    BY <1>1 DEF Rewritten
<1>2. CASE ~(Verdict(p, reqs, contested) # "rewrite")
    BY <1>2 DEF Rewritten, Requirement
<1> QED
    BY <1>1, <1>2

\* The walked edges of one cached answer.
LEMMA WalkedEdge ==
    ASSUME NEW k \in Expanded, NEW q \in Targets(depsCache[k].requirements)
    PROVE  <<k[1], q>> \in Walked
BY DEF Walked

-----------------------------------------------------------------------------
(* The invariant: RouterSound and DirectFromDefault, with the shapes and   *)
(* the seeds they rest on.                                                 *)

Shapes ==
    /\ router \in Router
    /\ versionCache = [p \in Package |-> versionCache[p]]
    /\ depsCache = [k \in Key |-> depsCache[k]]
    /\ \A k \in Expanded : Targets(depsCache[k].requirements) \subseteq Package

SeedsKept ==
    /\ router.seeds = [i \in Named |-> Roots(i)]
    /\ Direct \ Routed \subseteq router.default

Routing == Shapes /\ SeedsKept /\ RouterSound /\ DirectFromDefault

\* It holds when the resolution starts.
LEMMA InitRouting == Init => Routing
<1> SUFFICES ASSUME Init PROVE Routing
    OBVIOUS
<1>1. Expanded = {}
    BY DEF Init, Expanded
<1>2. Shapes
    BY <1>1, SeededIs DEF Init, Shapes
<1>3. SeedsKept
    BY SeededIs DEF Init, SeedsKept
<1>4. RouterSound
    BY SeededIs, RootsType, ReachRoots DEF Init, RouterSound
<1>5. DirectFromDefault
    BY RootsType DEF Init, DirectFromDefault
<1> QED
    BY <1>2, <1>3, <1>4, <1>5 DEF Routing

\* Passing on the memberships of p along edges that are walked keeps the
\* router sound.
LEMMA PropagateSound ==
    ASSUME Shapes, SeedsKept, RouterSound,
           NEW p \in Package, NEW deps \in SUBSET Package,
           router' = Propagate(router, p, deps),
           Walked \subseteq Walked', \A q \in deps : <<p, q>> \in Walked'
    PROVE  router' \in Router /\ SeedsKept' /\ RouterSound'
<1>1. /\ router' \in Router
      /\ router'.seeds = router.seeds
      /\ \A i \in Named : router'.scopes[i] =
            IF p \in router.scopes[i] THEN router.scopes[i] \cup deps
                                      ELSE router.scopes[i]
      /\ router'.default =
            IF p \in router.default THEN router.default \cup deps
                                    ELSE router.default
    <2>1. router \in Router
        BY DEF Shapes
    <2> QED
        BY <2>1 DEF Propagate, Router
<1>2. SeedsKept'
    BY <1>1 DEF SeedsKept
<1>3. ASSUME NEW roots, NEW members \in SUBSET Package,
             members \subseteq Reach(roots, Walked), p \in members
      PROVE  members \cup deps \subseteq Reach(roots, Walked')
    <2>1. members \subseteq Reach(roots, Walked')
        BY <1>3, ReachMonotone
    <2>2. ASSUME NEW q \in deps PROVE q \in Reach(roots, Walked')
        BY <2>1, <1>3, ReachStep
    <2> QED
        BY <2>1, <2>2
<1>4. ASSUME NEW i \in Named
      PROVE  router'.scopes[i] \subseteq Reach(Roots(i), Walked')
    <2>1. /\ router.scopes[i] \subseteq Reach(Roots(i), Walked)
          /\ router.scopes[i] \in SUBSET Package
        BY DEF RouterSound, Shapes, Router
    <2>2. CASE p \in router.scopes[i]
        BY <1>1, <1>3, <2>1, <2>2
    <2>3. CASE p \notin router.scopes[i]
        BY <1>1, <2>1, <2>3, ReachMonotone
    <2> QED
        BY <2>2, <2>3
<1>5. router'.default \subseteq Reach(Direct \ Routed, Walked')
    <2>1. /\ router.default \subseteq Reach(Direct \ Routed, Walked)
          /\ router.default \in SUBSET Package
        BY DEF RouterSound, Shapes, Router
    <2>2. CASE p \in router.default
        BY <1>1, <1>3, <2>1, <2>2
    <2>3. CASE p \notin router.default
        BY <1>1, <2>1, <2>3, ReachMonotone
    <2> QED
        BY <2>2, <2>3
<1>6. RouterSound'
    BY <1>4, <1>5 DEF RouterSound
<1> QED
    BY <1>1, <1>2, <1>6

\* A direct dependency that is not routed is none of a named index's.
LEMMA DirectNotNamed ==
    ASSUME Shapes, SeedsKept, NEW i \in Named, NEW p \in Direct \ Routed
    PROVE  ~CanProvide(i, p)
<1>1. p \notin router.seeds[i]
    BY DEF SeedsKept, Routed
<1>2. p \in router.default
    BY DEF SeedsKept
<1> QED
    BY <1>1, <1>2 DEF CanProvide, RoutesTo

\* Taking versions leaves everything but versionCache alone.
LEMMA ListRouting ==
    ASSUME Routing, NEW p \in Package, NEW entry,
           versionCache' = [versionCache EXCEPT ![p] = entry],
           p \in Direct \ Routed => entry.origin \notin Named,
           UNCHANGED <<router, depsCache>>
    PROVE  Routing'
<1>1. Walked' = Walked /\ Expanded' = Expanded
    BY DEF Walked, Expanded
<1>2. Shapes' /\ SeedsKept' /\ RouterSound'
    BY <1>1 DEF Routing, Shapes, SeedsKept, RouterSound
<1>3. DirectFromDefault'
    BY DEF Routing, Shapes, DirectFromDefault
<1> QED
    BY <1>2, <1>3 DEF Routing

\* Taking requirements adds edges and passes memberships on along them.
LEMMA LearnRouting ==
    ASSUME Routing, NEW p \in Package, NEW v \in Version,
           NEW origin \in Index \cup {None},
           NEW reqs \in SUBSET Requirement, NEW heard,
           depsCache[<<p, v>>] = None,
           Learn(p, v, origin, reqs, heard), UNCHANGED versionCache
    PROVE  Routing'
<1> DEFINE k == <<p, v>>
<1> DEFINE answer == [origin |-> origin,
                      requirements |-> Rewritten(p, reqs, inherited')]
<1>1. k \in Key /\ k[1] = p
    BY DEF Key
<1>2. Targets(answer.requirements) = Targets(reqs)
    BY RewrittenTargets
<1>3. Targets(reqs) \subseteq Package
    BY DEF Targets, Requirement
<1>4. answer # None
    BY RewrittenType, DriverAssumption DEF Answer
<1>5. depsCache' = [depsCache EXCEPT ![k] = answer]
    BY DEF Learn
<1> HIDE DEF k, answer
<1>6. /\ depsCache' = [j \in Key |-> depsCache'[j]]
      /\ depsCache'[k] = answer
      /\ \A j \in Key : j # k => depsCache'[j] = depsCache[j]
    BY <1>1, <1>5 DEF Routing, Shapes
<1>7. /\ Expanded \subseteq Expanded' /\ k \in Expanded'
      /\ Expanded' \subseteq Expanded \cup {k} /\ k \notin Expanded
    BY <1>1, <1>4, <1>6 DEF Expanded, k
<1>8. Walked \subseteq Walked'
    BY <1>6, <1>7 DEF Walked, Expanded
<1>9. \A q \in Targets(reqs) : <<p, q>> \in Walked'
    BY <1>1, <1>2, <1>6, <1>7 DEF Walked
<1>10. router' \in Router /\ SeedsKept' /\ RouterSound'
    BY <1>3, <1>8, <1>9, PropagateSound DEF Routing, Learn
<1>11. Shapes'
    BY <1>2, <1>3, <1>6, <1>7, <1>10 DEF Shapes, Routing, Expanded
<1>12. DirectFromDefault'
    BY DEF Routing, DirectFromDefault
<1> QED
    BY <1>10, <1>11, <1>12 DEF Routing

-----------------------------------------------------------------------------
(* Every step keeps the invariant.                                         *)

\* The requirements an index publishes are requirements.
LEMMA PublishedType ==
    ASSUME NEW i \in Index, NEW p \in Package, NEW v \in DOMAIN Published[i][p]
    PROVE  Published[i][p][v] \in SUBSET Requirement
BY DriverAssumption

\* Every step of the driver keeps it.
LEMMA StepRouting == Routing /\ [Next]_vars => Routing'
<1> SUFFICES ASSUME Routing, [Next]_vars PROVE Routing'
    OBVIOUS
<1>1. ASSUME UNCHANGED <<router, versionCache, depsCache>> PROVE Routing'
    <2>1. Expanded' = Expanded /\ Walked' = Walked
        BY <1>1 DEF Expanded, Walked
    <2>2. RouterSound' /\ SeedsKept'
        BY <1>1, <2>1 DEF Routing, RouterSound, SeedsKept
    <2>3. Shapes' /\ DirectFromDefault'
        BY <1>1, <2>1 DEF Routing, Shapes, DirectFromDefault
    <2> QED
        BY <2>2, <2>3 DEF Routing
<1>2. ASSUME NEW p \in Package, UsePin(p) PROVE Routing'
    <2>1. None \notin Named
        BY DriverAssumption DEF Named
    <2> DEFINE entry == [origin |-> None, list |-> <<Pin[p]>>]
    <2>2. entry.origin \notin Named
        BY <2>1
    <2>3. /\ versionCache' = [versionCache EXCEPT ![p] = entry]
          /\ UNCHANGED <<router, depsCache>>
        BY <1>2 DEF UsePin
    <2> HIDE DEF entry
    <2> QED
        BY <2>2, <2>3, ListRouting
<1>3. ASSUME NEW p \in Package, TakeList(p) PROVE Routing'
    <2>1. PICK down \in SUBSET {i \in Index : CanProvide(i, p)} :
             LET answering == First({i \in Index \ down : CanProvide(i, p)
                                        /\ DOMAIN Published[i][p] # {}})
             IN  \/ /\ answering = {}
                    /\ versionCache' = [versionCache EXCEPT
                          ![p] = [origin |-> None, list |-> <<>>]]
                 \/ \E i \in answering : versionCache' = [versionCache EXCEPT
                       ![p] = [origin |-> i, list |->
                          Sorted(Allowed(p, DOMAIN Published[i][p]))]]
        BY <1>3 DEF TakeList
    <2>2. UNCHANGED <<router, depsCache>>
        BY <1>3 DEF TakeList
    <2> DEFINE answering == First({i \in Index \ down : CanProvide(i, p)
                                       /\ DOMAIN Published[i][p] # {}})
    <2>3. \A i \in answering : CanProvide(i, p)
        BY DEF First
    <2>4. CASE versionCache' = [versionCache EXCEPT
                  ![p] = [origin |-> None, list |-> <<>>]]
        <3>1. None \notin Named
            BY DriverAssumption DEF Named
        <3>2. [origin |-> None, list |-> <<>>].origin \notin Named
            BY <3>1
        <3> QED
            BY <2>2, <2>4, <3>2, ListRouting
    <2>5. CASE \E i \in answering : versionCache' = [versionCache EXCEPT
                  ![p] = [origin |-> i, list |->
                     Sorted(Allowed(p, DOMAIN Published[i][p]))]]
        <3>1. PICK i \in answering : versionCache' = [versionCache EXCEPT
                  ![p] = [origin |-> i, list |->
                     Sorted(Allowed(p, DOMAIN Published[i][p]))]]
            BY <2>5
        <3> DEFINE entry == [origin |-> i, list |->
                                Sorted(Allowed(p, DOMAIN Published[i][p]))]
        <3>2. entry.origin = i
            OBVIOUS
        <3>3. p \in Direct \ Routed => i \notin Named
            BY <2>3, DirectNotNamed DEF Routing
        <3>4. versionCache' = [versionCache EXCEPT ![p] = entry]
            BY <3>1
        <3> HIDE DEF entry
        <3> QED
            BY <2>2, <3>2, <3>3, <3>4, ListRouting
    <2> QED
        BY <2>1, <2>4, <2>5
<1>4. ASSUME NEW p \in Package, NEW v \in Version, Expand(p, v)
      PROVE  Routing'
    <2>1. depsCache[<<p, v>>] = None /\ UNCHANGED versionCache
        BY <1>4 DEF Expand
    <2>2. CASE Learn(p, v, None, {}, {})
        BY <2>1, <2>2, LearnRouting
    <2>3. CASE \E i \in First({i \in Index : CanProvide(i, p)
                                   /\ v \in DOMAIN Published[i][p]}) :
                  Learn(p, v, i, Published[i][p][v], Declares[p])
        <3>1. PICK i \in First({i \in Index : CanProvide(i, p)
                                   /\ v \in DOMAIN Published[i][p]}) :
                  Learn(p, v, i, Published[i][p][v], Declares[p])
            BY <2>3
        <3>2. i \in Index /\ v \in DOMAIN Published[i][p]
            BY DEF First
        <3>3. Published[i][p][v] \in SUBSET Requirement
            BY <3>2, PublishedType
        <3> QED
            BY <2>1, <3>1, <3>2, <3>3, LearnRouting
    <2> QED
        BY <1>4, <2>2, <2>3 DEF Expand
<1>5. ASSUME NEW p \in Package, NEW v \in Version, Revisit(p, v)
      PROVE  Routing'
    <2> DEFINE k == <<p, v>>
    <2> DEFINE deps == Targets(depsCache[k].requirements)
    <2>1. k \in Expanded /\ k[1] = p
        BY <1>5 DEF Revisit, Expanded, Key
    <2>2. Walked' = Walked /\ Expanded' = Expanded
        BY <1>5 DEF Revisit, Walked, Expanded
    <2>3. \A q \in deps : <<p, q>> \in Walked'
        BY <2>1, <2>2, WalkedEdge
    <2>4. deps \in SUBSET Package
        BY <2>1 DEF Routing, Shapes
    <2>5. router' = Propagate(router, p, deps)
        BY <1>5 DEF Revisit
    <2> HIDE DEF deps, k
    <2>6. router' \in Router /\ SeedsKept' /\ RouterSound'
        BY <2>2, <2>3, <2>4, <2>5, PropagateSound DEF Routing
    <2>7. UNCHANGED <<depsCache, versionCache>>
        BY <1>5 DEF Revisit
    <2>8. Shapes' /\ DirectFromDefault'
        BY <2>2, <2>6, <2>7 DEF Routing, Shapes, DirectFromDefault
    <2> QED
        BY <2>6, <2>8 DEF Routing
<1>6. ASSUME UNCHANGED vars PROVE Routing'
    BY <1>1, <1>6 DEF vars
<1>7. ASSUME NoneInRange PROVE Routing'
    BY <1>1, <1>7 DEF NoneInRange
<1>8. ASSUME NEW p \in Package, UseList(p) PROVE Routing'
    BY <1>1, <1>8 DEF UseList
<1> QED
    BY <1>2, <1>3, <1>4, <1>5, <1>6, <1>7, <1>8 DEF Next

-----------------------------------------------------------------------------
(* The order of candidates and of providers.                               *)

\* Sorting lists each version once, in the order of the strategy.
LEMMA SortedLists ==
    ASSUME NEW versions \in SUBSET Version, IsFiniteSet(versions)
    PROVE  LET s == Sorted(versions)
           IN  /\ s \in Seq(Version) /\ ToSet(s) = versions
               /\ \A j \in 2..Len(s) : IF Ascending THEN s[j - 1] < s[j]
                                                    ELSE s[j - 1] > s[j]
<1> DEFINE n == Cardinality(versions)
           s == Sorted(versions)
<1>1. n \in Nat /\ versions \in SUBSET Nat
    BY FS_CardinalityType, DriverAssumption
<1>2. \E t \in [1..n -> versions] :
         /\ ToSet(t) = versions
         /\ \A j, k \in 1..n :
               j < k => IF Ascending THEN t[j] < t[k] ELSE t[j] > t[k]
    BY <1>1, ListedRising, ListedFalling
<1>3. /\ s \in [1..n -> versions] /\ ToSet(s) = versions
      /\ \A j, k \in 1..n :
            j < k => IF Ascending THEN s[j] < s[k] ELSE s[j] > s[k]
    BY <1>2 DEF Sorted
<1> HIDE DEF s, n
<1>4. s \in Seq(Version) /\ Len(s) = n
    <2>1. s \in [1..n -> Version]
        BY <1>3
    <2> QED
        BY <1>1, <2>1
<1>5. ASSUME NEW j \in 2..Len(s)
      PROVE  IF Ascending THEN s[j - 1] < s[j] ELSE s[j - 1] > s[j]
    <2>1. j - 1 \in 1..n /\ j \in 1..n /\ j - 1 < j
        BY <1>1, <1>4
    <2> QED
        BY <1>3, <2>1
<1> QED
    BY <1>3, <1>4, <1>5 DEF s

\* Filters only leave versions out.
LEMMA AllowedType ==
    ASSUME NEW p, NEW versions
    PROVE  Allowed(p, versions) \subseteq versions
BY DEF Allowed

\* What is registered has its place after the default index and up to the torch
\* backend.
LEMMA PlaceType ==
    ASSUME NEW i \in Index
    PROVE  Place(i) \in 0..(Len(Extra) + 1) /\ Len(Extra) \in Nat
<1>1. Extra \in Seq(ToSet(Extra))
    BY DriverAssumption
<1>2. Len(Extra) \in Nat /\ DOMAIN Extra = 1..Len(Extra)
    BY <1>1
<1>3. CASE i \in ToSet(Extra)
    <2>1. \E k \in DOMAIN Extra : Extra[k] = i
        BY <1>3 DEF ToSet
    <2> DEFINE k == CHOOSE k \in DOMAIN Extra : Extra[k] = i
    <2>2. k \in 1..Len(Extra)
        BY <1>2, <2>1
    <2> HIDE DEF k
    <2>3. Place(i) \in {0, k}
        BY <1>3 DEF Place, k
    <2> QED
        BY <1>2, <2>2, <2>3
<1>4. CASE i \notin ToSet(Extra)
    BY <1>2, <1>4 DEF Place
<1> QED
    BY <1>2, <1>3, <1>4

\* When any of a set has a provider, one of them is the first.
LEMMA FirstExists ==
    ASSUME NEW S \in SUBSET Index, S \cap Providers # {}
    PROVE  First(S) # {}
<1> DEFINE asked == S \cap Providers
           Rank(i) == (IF i \in Named THEN 0 ELSE Len(Extra) + 2) + Place(i)
           Ranks == {Rank(i) : i \in asked}
<1>1. \A i \in asked : Rank(i) \in Nat /\ Place(i) \in 0..(Len(Extra) + 1)
    BY PlaceType
<1>2. Ranks \in SUBSET Nat /\ Ranks # {}
    BY <1>1
<1>3. PICK i \in asked : \A j \in asked : Rank(i) <= Rank(j)
    <2>1. PICK i \in asked : Min(Ranks) = Rank(i)
        BY <1>2, MinOfNat
    <2>2. \A r \in Ranks : Min(Ranks) <= r
        BY <1>2, MinOfNat
    <2>3. \A j \in asked : Rank(j) \in Ranks
        OBVIOUS
    <2> HIDE DEF Ranks, Rank
    <2> QED
        BY <2>1, <2>2, <2>3
<1>4. ASSUME NEW j \in asked PROVE Before(i, j)
    <2>1. /\ Rank(i) <= Rank(j) /\ Len(Extra) \in Nat
          /\ Place(i) \in 0..(Len(Extra) + 1)
          /\ Place(j) \in 0..(Len(Extra) + 1)
        BY <1>1, <1>3, PlaceType
    <2> QED
        BY <2>1 DEF Before, Priority
<1> QED
    BY <1>3, <1>4 DEF First

\* A named index has a provider.
LEMMA NamedProvided == Named \subseteq Providers
<1> SUFFICES ASSUME NEW i \in Named PROVE i \in Providers
    OBVIOUS
<1>1. i \in Index \ {Default} /\ Roots(i) # {}
    BY DEF Named
<1>2. CASE i \in ToSet(Extra)
    BY <1>2 DEF Providers
<1>3. CASE i \notin ToSet(Extra)
    <2>1. i = Pytorch /\ i \notin Explicit
        BY <1>1, <1>3, DriverAssumption DEF Index
    <2>2. Torch # {}
        BY <1>1, <2>1 DEF Roots
    <2> QED
        BY <2>1, <2>2 DEF Providers
<1> QED
    BY <1>2, <1>3

\* A named index is always asked for its roots.
LEMMA RootsProvided ==
    ASSUME SeedsKept, NEW i \in Named, NEW p \in Roots(i)
    PROVE  CanProvide(i, p)
BY DEF SeedsKept, CanProvide, RoutesTo

-----------------------------------------------------------------------------
(* What the solver is offered and told, step by step, where the router is  *)
(* as Routing says.                                                        *)

\* What TakeList takes: the answer of the first provider that can, or nothing.
LEMMA ListTaken ==
    ASSUME NEW p \in Package, TakeList(p)
    PROVE  \E down \in SUBSET Index :
              LET able == {i \in Index \ down : CanProvide(i, p)
                             /\ DOMAIN Published[i][p] # {}}
              IN  /\ failed' = failed \cup (down \X {p})
                  /\ \/ /\ First(able) = {}
                        /\ versionCache' = [versionCache EXCEPT
                              ![p] = [origin |-> None, list |-> <<>>]]
                     \/ \E i \in First(able) : versionCache' = [versionCache EXCEPT
                           ![p] = [origin |-> i, list |->
                              Sorted(Allowed(p, DOMAIN Published[i][p]))]]
<1>1. PICK down \in SUBSET {i \in Index : CanProvide(i, p)} :
         LET able == {i \in Index \ down : CanProvide(i, p)
                        /\ DOMAIN Published[i][p] # {}}
         IN  /\ failed' = failed \cup (down \X {p})
             /\ \/ /\ First(able) = {}
                   /\ versionCache' = [versionCache EXCEPT
                         ![p] = [origin |-> None, list |-> <<>>]]
                \/ \E i \in First(able) : versionCache' = [versionCache EXCEPT
                      ![p] = [origin |-> i, list |->
                         Sorted(Allowed(p, DOMAIN Published[i][p]))]]
    BY DEF TakeList
<1>2. down \in SUBSET Index
    OBVIOUS
<1> QED
    BY <1>1, <1>2

\* The candidates of an index, as the filters and the sort leave them.
LEMMA CandidatesListed ==
    ASSUME NEW i \in Index, NEW p \in Package
    PROVE  LET list == Sorted(Allowed(p, DOMAIN Published[i][p]))
           IN  /\ list \in Seq(Version)
               /\ ToSet(list) = Allowed(p, DOMAIN Published[i][p])
               /\ \A j \in 2..Len(list) : IF Ascending THEN list[j - 1] < list[j]
                                          ELSE list[j - 1] > list[j]
<1> DEFINE all == DOMAIN Published[i][p]
           kept == Allowed(p, all)
<1>1. all \subseteq Version /\ IsFiniteSet(all) /\ kept \subseteq all
    BY DriverAssumption, AllowedType
<1>2. kept \in SUBSET Version /\ IsFiniteSet(kept)
    BY <1>1, FS_Subset
<1> HIDE DEF kept
<1> QED
    BY <1>2, SortedLists DEF kept

\* What Expand learns: the answer of the first provider that has the version,
\* or no requirements.
LEMMA Expansion ==
    ASSUME NEW p \in Package, NEW v \in Version, Expand(p, v)
    PROVE  \E origin \in Index \cup {None}, reqs \in SUBSET Requirement,
              heard \in SUBSET Package :
              /\ Learn(p, v, origin, reqs, heard)
              /\ origin # None => reqs = Published[origin][p][v]
<1> DEFINE able == {i \in Index : CanProvide(i, p) /\ v \in DOMAIN Published[i][p]}
<1>1. CASE Learn(p, v, None, {}, {})
    <2>1. {} \in SUBSET Requirement /\ {} \in SUBSET Package
        OBVIOUS
    <2> QED
        BY <1>1, <2>1
<1>2. CASE \E i \in First(able) : Learn(p, v, i, Published[i][p][v], Declares[p])
    <2>1. PICK i \in First(able) : Learn(p, v, i, Published[i][p][v], Declares[p])
        BY <1>2
    <2>2. i \in Index /\ v \in DOMAIN Published[i][p]
        BY DEF First
    <2>3. Published[i][p][v] \in SUBSET Requirement
        BY <2>2, PublishedType
    <2>4. Declares[p] \in SUBSET Package
        BY DriverAssumption
    <2> QED
        BY <2>1, <2>2, <2>3, <2>4
<1> QED
    BY <1>1, <1>2 DEF Expand

\* What Learn leaves in the cache.
LEMMA LearnCaches ==
    ASSUME Routing, NEW p \in Package, NEW v \in Version,
           NEW origin \in Index \cup {None},
           NEW reqs \in SUBSET Requirement, NEW heard,
           Learn(p, v, origin, reqs, heard)
    PROVE  LET k == <<p, v>>
           IN  /\ k \in Key
               /\ depsCache'[k] = [origin |-> origin, requirements |->
                                      Rewritten(p, reqs, inherited')]
               /\ depsCache'[k] \in Answer
               /\ Targets(depsCache'[k].requirements) = Targets(reqs)
               /\ \A j \in Key : j # k => depsCache'[j] = depsCache[j]
<1> DEFINE answer == [origin |-> origin,
                      requirements |-> Rewritten(p, reqs, inherited')]
<1>1. <<p, v>> \in Key
    BY DEF Key
<1>2. answer \in Answer /\ Targets(answer.requirements) = Targets(reqs)
    BY RewrittenTargets, RewrittenType DEF Answer
<1>3. depsCache' = [depsCache EXCEPT ![<<p, v>>] = answer]
    BY DEF Learn
<1> HIDE DEF answer
<1>4. /\ depsCache'[<<p, v>>] = answer
      /\ \A j \in Key : j # <<p, v>> => depsCache'[j] = depsCache[j]
    BY <1>1, <1>3 DEF Routing, Shapes
<1> QED
    BY <1>1, <1>2, <1>4 DEF answer

\* The step keeps the types.
LEMMA TypeStep == Routing /\ TypeOK /\ [Next]_vars => TypeOK'
<1> SUFFICES ASSUME Routing, TypeOK, [Next]_vars PROVE TypeOK'
    OBVIOUS
<1>1. router' \in Router
    BY StepRouting DEF Routing, Shapes
<1>2. ASSUME NEW p \in Package, UsePin(p) PROVE TypeOK'
    <2>1. Pin[p] \in Version
        BY <1>2, DriverAssumption DEF UsePin
    <2>2. [origin |-> None, list |-> <<Pin[p]>>] \in
             [origin: Index \cup {None}, list: Seq(Version)]
        BY <2>1
    <2> QED
        BY <1>1, <1>2, <2>2 DEF UsePin, Pick, TypeOK
<1>3. ASSUME NEW p \in Package, TakeList(p) PROVE TypeOK'
    <2>1. failed' \subseteq Index \X Package
        BY <1>3, ListTaken DEF TypeOK
    <2>2. PICK entry \in [origin: Index \cup {None}, list: Seq(Version)] :
             versionCache' = [versionCache EXCEPT ![p] = entry]
        <3>1. [origin |-> None, list |-> <<>>] \in
                 [origin: Index \cup {None}, list: Seq(Version)]
            OBVIOUS
        <3>2. ASSUME NEW i \in Index
              PROVE  [origin |-> i, list |->
                        Sorted(Allowed(p, DOMAIN Published[i][p]))] \in
                        [origin: Index \cup {None}, list: Seq(Version)]
            BY CandidatesListed
        <3>3. \A S \in SUBSET Index : First(S) \subseteq Index
            BY DEF First
        <3> QED
            BY <1>3, <3>1, <3>2, <3>3, ListTaken
    <2>3. versionCache' \in [Package -> {None}
             \cup [origin: Index \cup {None}, list: Seq(Version)]]
        BY <2>2 DEF TypeOK
    <2> QED
        BY <1>1, <1>3, <2>1, <2>3 DEF TakeList, Pick, TypeOK
<1>4. ASSUME NEW p \in Package, NEW v \in Version, Expand(p, v)
      PROVE  TypeOK'
    <2>1. PICK origin \in Index \cup {None}, reqs \in SUBSET Requirement,
               heard \in SUBSET Package : Learn(p, v, origin, reqs, heard)
        BY <1>4, Expansion
    <2>2. inherited' \subseteq Package
        BY <2>1 DEF Learn, TypeOK
    <2>3. <<p, v>> \in Key /\ depsCache'[<<p, v>>] \in Answer
        BY <2>1, LearnCaches
    <2>4. depsCache' \in [Key -> {None} \cup Answer]
        <3> DEFINE answer == [origin |-> origin,
                              requirements |-> Rewritten(p, reqs, inherited')]
        <3>1. depsCache' = [depsCache EXCEPT ![<<p, v>>] = answer]
            BY <2>1 DEF Learn
        <3>2. answer \in Answer
            BY <2>1, <2>3, LearnCaches
        <3> HIDE DEF answer
        <3> QED
            BY <2>3, <3>1, <3>2 DEF TypeOK
    <2> QED
        BY <1>1, <1>4, <2>2, <2>3, <2>4 DEF Expand, Choose, TypeOK
<1>5. ASSUME NEW p \in Package, NEW v \in Version, Revisit(p, v)
      PROVE  TypeOK'
    BY <1>1, <1>5 DEF Revisit, Choose, TypeOK, Key
<1>6. ASSUME NEW p \in Package, UseList(p) PROVE TypeOK'
    BY <1>1, <1>6 DEF UseList, Pick, TypeOK
<1>7. ASSUME NoneInRange \/ UNCHANGED vars PROVE TypeOK'
    BY <1>1, <1>7 DEF NoneInRange, vars, TypeOK
<1> QED
    BY <1>2, <1>3, <1>4, <1>5, <1>6, <1>7 DEF Next

\* What a version passes on is what the cache says it requires, as it was asked
\* for last.
LEMMA ReachedStep == Routing /\ LatestReached /\ [Next]_vars => LatestReached'
<1> SUFFICES ASSUME Routing, LatestReached, [Next]_vars PROVE LatestReached'
    OBVIOUS
<1>1. ASSUME NEW p \in Package, NEW v \in Version, latest' = <<p, v>>,
             router' = Propagate(router, p, Targets(depsCache'[<<p, v>>].requirements))
      PROVE  LatestReached'
    <2> DEFINE targets == Targets(depsCache'[<<p, v>>].requirements)
    <2>1. router \in Router
        BY DEF Routing, Shapes
    <2>2. /\ \A i \in Named : router'.scopes[i] =
                IF p \in router.scopes[i] THEN router.scopes[i] \cup targets
                                          ELSE router.scopes[i]
          /\ router'.default =
                IF p \in router.default THEN router.default \cup targets
                                        ELSE router.default
        BY <1>1, <2>1 DEF Propagate, Router
    <2>3. /\ \A i \in Named : p \in router'.scopes[i] =>
                                 targets \subseteq router'.scopes[i]
          /\ p \in router'.default => targets \subseteq router'.default
        BY <2>2
    <2>4. latest'[1] = p /\ Targets(depsCache'[latest'].requirements) = targets
        BY <1>1
    <2> HIDE DEF targets
    <2> QED
        BY <2>3, <2>4 DEF LatestReached, Targets
<1>2. ASSUME NEW p \in Package, NEW v \in Version, Expand(p, v)
      PROVE  LatestReached'
    <2>1. PICK origin \in Index \cup {None}, reqs \in SUBSET Requirement,
               heard \in SUBSET Package : Learn(p, v, origin, reqs, heard)
        BY <1>2, Expansion
    <2>2. Targets(depsCache'[<<p, v>>].requirements) = Targets(reqs)
        BY <2>1, LearnCaches
    <2>3. router' = Propagate(router, p, Targets(reqs)) /\ latest' = <<p, v>>
        BY <1>2, <2>1 DEF Learn, Expand, Choose
    <2> QED
        BY <1>1, <2>2, <2>3
<1>3. ASSUME NEW p \in Package, NEW v \in Version, Revisit(p, v)
      PROVE  LatestReached'
    BY <1>1, <1>3 DEF Revisit, Choose
<1>4. ASSUME UNCHANGED <<router, depsCache, latest>> PROVE LatestReached'
    BY <1>4 DEF LatestReached
<1> QED
    BY <1>2, <1>3, <1>4 DEF Next, vars, UsePin, TakeList, UseList, NoneInRange

\* Strategies leave the requirements on other packages as they are.
LEMMA RewrittenOthers ==
    ASSUME NEW p, NEW reqs \in SUBSET Requirement, NEW contested
    PROVE  {d \in Rewritten(p, reqs, contested) : d.package # p}
              = {d \in reqs : d.package # p}
<1>1. CASE Verdict(p, reqs, contested) # "rewrite"
    BY <1>1 DEF Rewritten
<1>2. CASE ~(Verdict(p, reqs, contested) # "rewrite")
    <2> DEFINE New(d) == [d EXCEPT !.range = IF d.package = p
                             THEN @ \cap RangeOverride[p] ELSE @]
    <2>1. \A d \in reqs : New(d).package = d.package
        BY DEF Requirement
    <2>2. \A d \in reqs : d.package # p => New(d) = d
        BY DEF Requirement
    <2>3. Rewritten(p, reqs, contested) = {New(d) : d \in reqs}
        BY <1>2 DEF Rewritten
    <2> HIDE DEF New
    <2> QED
        BY <2>1, <2>2, <2>3
<1> QED
    BY <1>1, <1>2

LEMMA FaithfulStep ==
    Routing /\ RequirementsFaithful /\ [Next]_vars => RequirementsFaithful'
<1> SUFFICES ASSUME Routing, RequirementsFaithful, [Next]_vars
             PROVE  RequirementsFaithful'
    OBVIOUS
<1>1. ASSUME NEW p \in Package, NEW v \in Version, Expand(p, v)
      PROVE  RequirementsFaithful'
    <2>1. PICK origin \in Index \cup {None}, reqs \in SUBSET Requirement,
               heard \in SUBSET Package :
             /\ Learn(p, v, origin, reqs, heard)
             /\ origin # None => reqs = Published[origin][p][v]
        BY <1>1, Expansion
    <2>2. /\ depsCache'[<<p, v>>].origin = origin
          /\ depsCache'[<<p, v>>].requirements = Rewritten(p, reqs, inherited')
          /\ \A j \in Key : j # <<p, v>> => depsCache'[j] = depsCache[j]
        <3>1. depsCache'[<<p, v>>] = [origin |-> origin, requirements |->
                                         Rewritten(p, reqs, inherited')]
            BY <2>1, LearnCaches
        <3>2. \A j \in Key : j # <<p, v>> => depsCache'[j] = depsCache[j]
            BY <2>1, LearnCaches
        <3> QED
            BY <3>1, <3>2
    <2>3. {d \in Rewritten(p, reqs, inherited') : d.package # p}
             = {d \in reqs : d.package # p}
        BY RewrittenOthers
    <2> SUFFICES ASSUME NEW k \in Key, k \in Expanded',
                        depsCache'[k].origin # None
                 PROVE  {d \in depsCache'[k].requirements : d.package # k[1]}
                           = {d \in Published[depsCache'[k].origin][k[1]][k[2]] :
                                 d.package # k[1]}
        BY DEF RequirementsFaithful, Expanded
    <2>4. CASE k = <<p, v>>
        BY <2>1, <2>2, <2>3, <2>4
    <2>5. CASE k # <<p, v>>
        <3>1. depsCache'[k] = depsCache[k] /\ k \in Expanded
            BY <2>2, <2>5 DEF Expanded
        <3> QED
            BY <3>1 DEF RequirementsFaithful
    <2> QED
        BY <2>4, <2>5
<1>2. ASSUME UNCHANGED depsCache PROVE RequirementsFaithful'
    BY <1>2 DEF RequirementsFaithful, Expanded
<1> QED
    BY <1>1, <1>2 DEF Next, vars, UsePin, TakeList, UseList, NoneInRange, Revisit

\* An unscoped provider is the first only when no named one could answer.
LEMMA FallBackStep ==
    Routing /\ RootsFallBackLast /\ [Next]_vars => RootsFallBackLast'
<1> SUFFICES ASSUME Routing, RootsFallBackLast, [Next]_vars
             PROVE  RootsFallBackLast'
    OBVIOUS
<1>1. ASSUME UNCHANGED <<versionCache, failed>> PROVE RootsFallBackLast'
    BY <1>1 DEF RootsFallBackLast
<1>2. ASSUME NEW p \in Package, UsePin(p) PROVE RootsFallBackLast'
    <2>1. /\ \A q \in Package : q # p => versionCache'[q] = versionCache[q]
          /\ Pin[p] # None /\ failed' = failed
        BY <1>2 DEF UsePin, Routing, Shapes
    <2> QED
        BY <2>1, RootsType DEF RootsFallBackLast, Routed
<1>3. ASSUME NEW p \in Package, TakeList(p) PROVE RootsFallBackLast'
    <2>1. PICK down \in SUBSET Index :
              LET able == {i \in Index \ down : CanProvide(i, p)
                             /\ DOMAIN Published[i][p] # {}}
              IN  /\ failed' = failed \cup (down \X {p})
                  /\ \/ /\ First(able) = {}
                        /\ versionCache' = [versionCache EXCEPT
                              ![p] = [origin |-> None, list |-> <<>>]]
                     \/ \E i \in First(able) : versionCache' = [versionCache EXCEPT
                           ![p] = [origin |-> i, list |->
                              Sorted(Allowed(p, DOMAIN Published[i][p]))]]
        BY <1>3, ListTaken
    <2> DEFINE able == {i \in Index \ down : CanProvide(i, p)
                           /\ DOMAIN Published[i][p] # {}}
    <2>2. ASSUME NEW i \in Named, p \in Roots(i), versionCache'[p].origin \notin Named
          PROVE  DOMAIN Published[i][p] = {} \/ <<i, p>> \in failed'
        <3> SUFFICES ASSUME DOMAIN Published[i][p] # {}, i \notin down
                     PROVE  FALSE
            BY <2>1
        <3>1. i \in able /\ i \in able \cap Providers /\ able \in SUBSET Index
            BY <2>2, RootsProvided, NamedProvided DEF Routing, Named
        <3>2. First(able) # {}
            BY <3>1, FirstExists
        <3>3. PICK j \in First(able) : versionCache' = [versionCache EXCEPT
                 ![p] = [origin |-> j, list |->
                    Sorted(Allowed(p, DOMAIN Published[j][p]))]]
            BY <2>1, <3>2
        <3>4. j \notin Named
            BY <2>2, <3>3 DEF Routing, Shapes
        <3>5. Before(j, i)
            BY <3>1 DEF First
        <3> QED
            BY <3>4, <3>5 DEF Before, Priority
    <2>3. /\ \A q \in Package : q # p => versionCache'[q] = versionCache[q]
          /\ failed \subseteq failed'
        BY <2>1 DEF Routing, Shapes
    <2>4. ASSUME NEW q \in Routed, versionCache'[q] # None /\ Pin[q] = None,
                 versionCache'[q].origin \notin Named,
                 NEW i \in Named, q \in Roots(i)
          PROVE  DOMAIN Published[i][q] = {} \/ <<i, q>> \in failed'
        <3>1. CASE q = p
            BY <2>2, <2>4, <3>1
        <3>2. CASE q # p
            <4>1. q \in Package
                BY <2>4, RootsType
            <4> QED
                BY <2>3, <2>4, <3>2, <4>1 DEF RootsFallBackLast
        <3> QED
            BY <3>1, <3>2
    <2> QED
        BY <2>4 DEF RootsFallBackLast
<1> QED
    BY <1>1, <1>2, <1>3
       DEF Next, vars, Expand, Revisit, UseList, NoneInRange

\* The list of a package is taken once, by filters that keep what they should.
LEMMA CandidatesStep ==
    ASSUME PreReleases = "if-necessary"
    PROVE  Routing /\ CandidatesAllowed /\ [Next]_vars => CandidatesAllowed'
<1> DEFINE Right(p, entry) ==
        entry.origin # None =>
            LET offered == ToSet(entry.list)
                all == DOMAIN Published[entry.origin][p]
                stable == all \ PreRelease
                preferred == \A s \in Substitutions :
                                p \in s.members => s.prefer \in {None, p}
            IN  /\ offered = IF ~preferred THEN {}
                             ELSE IF stable = {} THEN all ELSE stable
                /\ \A j \in 2..Len(entry.list) :
                      LET earlier == entry.list[j - 1]
                          later == entry.list[j]
                      IN  IF Ascending THEN earlier < later ELSE earlier > later
<1>1. CandidatesAllowed <=>
         \A p \in Package : versionCache[p] # None => Right(p, versionCache[p])
    BY DEF CandidatesAllowed
<1>2. CandidatesAllowed' <=>
         \A p \in Package : versionCache'[p] # None => Right(p, versionCache'[p])
    BY DEF CandidatesAllowed
<1>3. ASSUME NEW p \in Package, NEW entry, Right(p, entry),
             versionCache' = [versionCache EXCEPT ![p] = entry],
             Routing, CandidatesAllowed
      PROVE  CandidatesAllowed'
    <2>1. /\ versionCache'[p] = entry
          /\ \A q \in Package : q # p => versionCache'[q] = versionCache[q]
        BY <1>3 DEF Routing, Shapes
    <2> HIDE DEF Right
    <2> QED
        BY <1>1, <1>2, <1>3, <2>1
<1>4. ASSUME NEW p \in Package, NEW i \in Index
      PROVE  Right(p, [origin |-> i, list |->
                          Sorted(Allowed(p, DOMAIN Published[i][p]))])
    <2> DEFINE list == Sorted(Allowed(p, DOMAIN Published[i][p]))
               all == DOMAIN Published[i][p]
    <2>1. /\ ToSet(list) = Allowed(p, all)
          /\ \A j \in 2..Len(list) : IF Ascending THEN list[j - 1] < list[j]
                                     ELSE list[j - 1] > list[j]
        BY CandidatesListed
    <2>2. Allowed(p, all) = IF Substituted(p) THEN {}
                            ELSE IF all \ PreRelease = {} THEN all
                            ELSE all \ PreRelease
        BY DEF Allowed
    <2> HIDE DEF list
    <2>3. Right(p, [origin |-> i, list |-> list])
        BY <2>1, <2>2 DEF Substituted
    <2> QED
        BY <2>3 DEF list
<1>5. ASSUME NEW p \in Package, NEW list
      PROVE  Right(p, [origin |-> None, list |-> list])
    OBVIOUS
<1> HIDE DEF Right
<1> SUFFICES ASSUME Routing, CandidatesAllowed, [Next]_vars
             PROVE  CandidatesAllowed'
    OBVIOUS
<1>6. ASSUME NEW p \in Package, UsePin(p) PROVE CandidatesAllowed'
    BY <1>3, <1>5, <1>6 DEF UsePin
<1>7. ASSUME NEW p \in Package, TakeList(p) PROVE CandidatesAllowed'
    <2>1. \/ versionCache' = [versionCache EXCEPT
                ![p] = [origin |-> None, list |-> <<>>]]
          \/ \E i \in Index : versionCache' = [versionCache EXCEPT
                ![p] = [origin |-> i, list |->
                   Sorted(Allowed(p, DOMAIN Published[i][p]))]]
        <3>1. \A S \in SUBSET Index : First(S) \subseteq Index
            BY DEF First
        <3> QED
            BY <1>7, <3>1, ListTaken
    <2> QED
        BY <1>3, <1>4, <1>5, <2>1
<1>8. ASSUME UNCHANGED versionCache PROVE CandidatesAllowed'
    BY <1>1, <1>2, <1>8
<1> QED
    BY <1>6, <1>7, <1>8 DEF Next, vars, Expand, Revisit, UseList, NoneInRange

-----------------------------------------------------------------------------
(* The theorems.                                                           *)

\* The members of a named index's scope are reachable from its roots, those
\* of the default index from the ordinary direct dependencies, along
\* requirements the solver has seen.
THEOREM ScopesSound == Spec => []RouterSound
<1>1. Routing => RouterSound
    BY DEF Routing
<1> QED
    BY <1>1, InitRouting, StepRouting, PTL DEF Spec

\* A direct dependency that is not routed is never listed by a named index.
THEOREM DefaultKept == Spec => []DirectFromDefault
<1>1. Routing => DirectFromDefault
    BY DEF Routing
<1> QED
    BY <1>1, InitRouting, StepRouting, PTL DEF Spec
\* Every variable of the driver keeps its type, in every world.
THEOREM TypesKept == Spec => []TypeOK
<1>1. Init => TypeOK
    BY SeededIs DEF Init, TypeOK
<1>2. Routing /\ TypeOK /\ [Next]_vars => Routing' /\ TypeOK'
    BY StepRouting, TypeStep
<1> QED
    BY <1>1, <1>2, InitRouting, PTL DEF Spec

\* The version expanded last has passed its memberships on, also when its
\* requirements come from the cache.
THEOREM MembershipsPassedOn == Spec => []LatestReached
<1>1. Init => LatestReached
    BY DEF Init, LatestReached
<1>2. Routing /\ LatestReached /\ [Next]_vars => Routing' /\ LatestReached'
    BY StepRouting, ReachedStep
<1> QED
    BY <1>1, <1>2, InitRouting, PTL DEF Spec

\* A package routed to a named index comes from elsewhere only if that index
\* has no version of it or could not be asked.
THEOREM OwnIndexFirst == Spec => []RootsFallBackLast
<1>1. Init => RootsFallBackLast
    BY RootsType DEF Init, RootsFallBackLast, Routed
<1>2. Routing /\ RootsFallBackLast /\ [Next]_vars => Routing' /\ RootsFallBackLast'
    BY StepRouting, FallBackStep
<1> QED
    BY <1>1, <1>2, InitRouting, PTL DEF Spec

\* Under the default policy for pre-releases the solver is offered exactly the
\* stable versions of the index that answered, or all if none is stable, in the
\* order of the strategy, and nothing of a package another one substitutes.
THEOREM OffersAreRight ==
    ASSUME PreReleases = "if-necessary"
    PROVE  Spec => []CandidatesAllowed
<1>1. Init => CandidatesAllowed
    BY DEF Init, CandidatesAllowed
<1>2. Routing /\ CandidatesAllowed /\ [Next]_vars => Routing' /\ CandidatesAllowed'
    BY StepRouting, CandidatesStep
<1> QED
    BY <1>1, <1>2, InitRouting, PTL DEF Spec

\* What a version requires of others is what the index that answered publishes,
\* in whatever order versions were expanded and conflicts inherited.
THEOREM OthersUntouched == Spec => []RequirementsFaithful
<1>1. Init => RequirementsFaithful
    BY DEF Init, RequirementsFaithful, Expanded
<1>2. Routing /\ RequirementsFaithful /\ [Next]_vars
         => Routing' /\ RequirementsFaithful'
    BY StepRouting, FaithfulStep
<1> QED
    BY <1>1, <1>2, InitRouting, PTL DEF Spec
=============================================================================
