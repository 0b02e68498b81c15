-------------------------- MODULE SolverProperties --------------------------
(***************************************************************************)
(* What must hold of the solver (module Solver).                           *)
(***************************************************************************)
EXTENDS Solver

\* Every variable keeps the shape of the field of SolverState it models;
\* identifiers of incompatibilities point into the store.
TypeOK ==
    /\ index \in PackageIndex
    /\ known \in Seq(Package)
    /\ \A id \in DOMAIN store : IsIncompatibility(store[id])
    /\ watch \in WatchIndex
    /\ IsPartialSolution(ps)
    /\ added \subseteq [package: Package, version: Version]
    /\ pc \in Phase
    /\ choice \in [package: Package, version: Version]
    /\ nextDep \in Nat \ {0}
    /\ buffer \in Seq(Package)
    /\ current \in Package
    /\ watchers \in Seq(DOMAIN store)
    /\ conflict \in {0} \cup DOMAIN store

\* No incompatibility, original or learned, excludes a valid resolution:
\* what MAX_LEARNED_WATCHED's comment says of learned clauses ("they are
\* entailed by the original incompatibilities") and what makes a report of
\* no solution trustworthy.
StoreEntailed ==
    \A s \in Assignments : Valid(index, s) =>
        \A id \in DOMAIN store : ~Violates(s, store[id])

\* SolverError::NoSolution is returned only for an index without a solution.
RefusalSound == pc = "no_solution" => ~Solvable(index)

\* A returned resolution satisfies the project's and every selected
\* package's dependencies.
SolutionSound == pc = "solved" => Valid(index, ExtractSolution(ps))

\* A returned resolution has no package that nothing asks for, although
\* packages were derived and decided for choices that were undone later.
SolutionNeeded == pc = "solved" => Needed(index, ExtractSolution(ps))

\* A resolved incompatibility always has a term left to watch, as the expect
\* of pick_initial_watches says ("incompatibility has at least one term").
ClausesHaveTerms == pc # "panicked"

\* While a conflict is analysed, all terms of the incompatibility under
\* analysis hold in the partial solution: the search for a satisfier never
\* meets a term that nothing satisfies, through any number of resolutions.
ConflictHolds == pc = "analyse" => Unsatisfied(store[conflict]) = {}

\* Learned incompatibilities that garbage collection took off the index.
Forgotten ==
    {id \in DOMAIN store :
        store[id].kind = "derived" /\ ~Contains(watch.learned, id)}

\* The decision that follows the registration of a dependency will wake it:
\* pick_initial_watches gives a watch to the package that depends.  Only where
\* all terms hold already has it a single watch to give, and takes the package
\* with the lowest id.
DependentWatched ==
    pc = "register" /\ nextDep \in DOMAIN Pending =>
        LET dep == Pending[nextDep]
            inc == FromDependency(choice.package, choice.version,
                                  dep.package, dep.range)
            order == IF Contains(known, dep.package) THEN known
                     ELSE Append(known, dep.package)
        IN  Unsatisfied(inc) # {} \/ Lowest(order, DOMAIN inc.terms) = choice.package

\* The requirements of every decided version have been derived.
RequirementsDerived ==
    \A q \in DOMAIN ps.assigned : Decided(ps.assigned[q]) =>
        \A d \in ToSet(Requirements(index, q, ps.assigned[q].decision.version)) :
           SubsetOf(TermFor(ps, d.package), Positive(d.range))

\* When unit propagation returns, no incompatibility that has watches is
\* violated, and the dependencies of every decided version have been derived:
\* the two watches woke every incompatibility the last assignments affected,
\* from its registration on, across all backjumps and the buffer.clear() that
\* follows each of them.
PropagationComplete ==
    /\ DependentWatched
    /\ Quiescent =>
          /\ \A id \in DOMAIN store \ Forgotten : Unsatisfied(store[id]) # {}
          /\ RequirementsDerived

\* The watch lists and the pairs agree: an incompatibility is listed once
\* under each package of its pair and under no other, through every move,
\* swap_remove and garbage collection; and a snapshot of a list that is walked
\* while watches move never holds one that has moved ("The watch may have
\* already moved off current" in unit_propagation guards against it).
WatchListsAgree ==
    /\ \A id \in DOMAIN store \ Forgotten : \A q \in Package :
         Cardinality({i \in DOMAIN watch.lists[q] : watch.lists[q][i] = id}) =
             IF q \in {watch.watched[id][1], watch.watched[id][2]} THEN 1 ELSE 0
    /\ Examining => StillWatched

\* The dated entries of the trail: derivations and decisions.
Trail ==
    UNION {
        LET pa == ps.assigned[q]
        IN  {[gi |-> d.gi, dl |-> d.dl] : d \in ToSet(pa.derivations)}
            \cup (IF Decided(pa)
                  THEN {[gi |-> pa.decision.gi, dl |-> pa.decision.dl]} ELSE {})
        : q \in DOMAIN ps.assigned}

\* Later in the trail is never at a lower level, although global indices go
\* on after a backjump while levels fall back, and every level up to the
\* current one was opened by one decision that still stands.
TrailOrdered ==
    /\ \A e, f \in Trail : e.gi < f.gi => e.dl <= f.dl
    /\ \A e \in Trail : e.gi < ps.next /\ e.dl <= ps.level
    /\ \A dl \in 1..ps.level :
          Cardinality({q \in DOMAIN ps.assigned :
              Decided(ps.assigned[q]) /\ ps.assigned[q].decision.dl = dl}) = 1

\* A backjump repairs the conflict it answers: the learned incompatibility
\* is contradicted afterwards, nothing above the level returned to is left
\* (but for the project's own decision, which is made again), and the
\* project is still assigned.
BackjumpRepairs ==
    [][pc = "analyse" /\ pc' = "propagate" =>
          /\ \E q \in DOMAIN store[conflict].terms :
                RelationWith(TermFor(ps', q), store[conflict].terms[q])
                    = "contradicted"
          /\ \A q \in DOMAIN ps'.assigned \ {Root} :
                ps'.assigned[q].highest_dl <= Satisfier.previous_dl
          /\ IsAssigned(ps', Root)]_vars

\* The solver ends with an answer or a report, whatever is picked.
Terminates == <>(pc \in {"solved", "no_solution"})

\* The solver implements the promise of module Resolution.
Verdict == IF pc \in {"solved", "no_solution"} THEN pc ELSE "pending"

Result == IF pc = "solved" THEN ExtractSolution(ps) ELSE Nothing

Promise == INSTANCE Resolution WITH verdict <- Verdict, solution <- Result

ImplementsResolution == Promise!Spec
=============================================================================
