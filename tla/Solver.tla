------------------------------- MODULE Solver -------------------------------
(***************************************************************************)
(* The PubGrub solver of vyp as a state machine: SolverState in            *)
(* crates/vyp-resolver/src/solver.rs and the loop that drives it,          *)
(* ResolverBuilder::run_solver in crates/vyp-core/src/lib.rs.  It is one   *)
(* thread; a step is one turn of one of its loops.                         *)
(*                                                                         *)
(* The heuristics that choose among undecided packages (version counts     *)
(* that arrive from the prefetch at any time, VSIDS scores) are left open: *)
(* the solver may pick any undecided package.                              *)
(***************************************************************************)
EXTENDS PartialSolutions, WatchIndex

VARIABLES
    index,      \* the package index, fixed for the run
    known,      \* the packages that have a PackageId, in the order of the ids
    store,      \* all incompatibilities, by IncompatId
    watch,      \* the two-watched-literals index
    ps,         \* the partial solution
    added,      \* the versions whose dependencies are in the store
    pc,         \* which loop the thread is in, or how it ended
    choice,     \* the version whose dependencies are being registered
    nextDep,    \* the position of the next one among them
    buffer,     \* unit propagation: the packages left to propagate, a stack
    current,    \* the package being propagated
    watchers,   \* the rest of the snapshot of its watch list
    conflict    \* conflict resolution: the incompatibility being analysed

searchVars == <<store, watch, ps>>
driverVars == <<added, choice, nextDep>>
propagationVars == <<buffer, current, watchers>>
vars == <<index, known, searchVars, driverVars, pc, propagationVars, conflict>>

Phase == {"register", "propagate", "analyse",
          "solved", "no_solution", "panicked"}

Ended == {"solved", "no_solution", "panicked"}

-----------------------------------------------------------------------------
(* The store under the partial solution.                                   *)

RelationOf(inc, pkg) == RelationWith(TermFor(ps, pkg), inc.terms[pkg])

Unsatisfied(inc) ==
    {q \in DOMAIN inc.terms : RelationOf(inc, q) # "satisfied"}

\* check_relation returns AlmostSatisfied(pkg): all other terms hold.
AlmostSatisfied(inc, pkg) ==
    Unsatisfied(inc) = {pkg} /\ RelationOf(inc, pkg) = "inconclusive"

\* The member of S with the lowest PackageId under the ids of order.
Lowest(order, S) == order[Min({i \in DOMAIN order : order[i] \in S})]

\* pick_initial_watches: the two lowest unsatisfied packages; if there is
\* one, it and the lowest other; if there is none, the lowest, twice.
InitialWatches(inc, order) ==
    LET open == Unsatisfied(inc)
        first == Lowest(order, IF open = {} THEN DOMAIN inc.terms ELSE open)
        others == IF open \ {first} = {} THEN DOMAIN inc.terms \ {first}
                  ELSE open \ {first}
    IN  IF open = {} \/ others = {} THEN <<first, first>>
        ELSE <<first, Lowest(order, others)>>

\* Mutant of Register: takes the id after the push.
RegisterAfterPush(inc, order) ==
    /\ store' = Append(store, inc)
    /\ watch' = RegisterWatches(watch, Len(store) + 2,
                                InitialWatches(inc, order),
                                inc.kind = "derived")

\* register_incompatibility.
Register(inc, order) ==
    /\ store' = Append(store, inc)
    /\ watch' = RegisterWatches(watch, Len(store) + 1,
                                InitialWatches(inc, order),
                                inc.kind = "derived")

\* refresh_watches.
RefreshWatches(id) ==
    LET open == Unsatisfied(store[id])
        first == Lowest(known, open)
    IN  IF open # {} /\ open \ {first} # {}
        THEN SetWatches(watch, id, first, Lowest(known, open \ {first}))
        ELSE watch

-----------------------------------------------------------------------------
(* The driver: SolverState::new and the set-up of resolve.                 *)

Init ==
    /\ index \in Indexes
    /\ known = <<Root>>
    /\ store = <<NotRoot>>
    /\ watch = RegisterWatches(EmptyIndex, 1, <<Root, Root>>, FALSE)
    /\ ps = AddDecision(EmptySolution, Root, RootVersion)
    /\ added = {}
    /\ pc = "register"
    /\ choice = [package |-> Root, version |-> RootVersion]
    /\ nextDep = 1
    /\ buffer = <<>> /\ current = Root /\ watchers = <<>>
    /\ conflict = 0

Pending == Requirements(index, choice.package, choice.version)

\* One turn of the loop of add_dependencies, or of resolve for the project.
\* The dependency gets a PackageId if it has none.
RegisterDependency ==
    /\ pc = "register"
    /\ nextDep \in DOMAIN Pending
    /\ LET dep == Pending[nextDep]
       IN  /\ known' = IF Contains(known, dep.package) THEN known
                       ELSE Append(known, dep.package)
           /\ Register(FromDependency(choice.package, choice.version,
                                      dep.package, dep.range), known')
    /\ nextDep' = nextDep + 1
    /\ UNCHANGED <<index, ps, added, pc, choice, propagationVars, conflict>>

\* Mutants of FinishRegistration: the decision is not propagated, and the
\* early return for a version without dependencies skips the decision.
FinishRegistrationQuietly ==
    /\ pc = "register"
    /\ nextDep \notin DOMAIN Pending
    /\ added' = added \cup {choice}
    /\ ps' = IF choice.package = Root THEN ps
             ELSE AddDecision(ps, choice.package, choice.version)
    /\ pc' = "propagate"
    /\ buffer' = IF choice.package = Root THEN <<Root>> ELSE <<>>
    /\ UNCHANGED <<index, known, store, watch, choice, nextDep, current,
                   watchers, conflict>>

FinishRegistrationEarly ==
    /\ pc = "register"
    /\ nextDep \notin DOMAIN Pending
    /\ IF Pending = <<>> THEN UNCHANGED <<added, ps>>
       ELSE /\ added' = added \cup {choice}
            /\ ps' = IF choice.package = Root THEN ps
                     ELSE AddDecision(ps, choice.package, choice.version)
    /\ pc' = "propagate"
    /\ buffer' = <<choice.package>>
    /\ UNCHANGED <<index, known, store, watch, choice, nextDep, current,
                   watchers, conflict>>

\* The end of add_dependencies: the version is decided, whatever its
\* dependencies said.  The project was decided by SolverState::new.
FinishRegistration ==
    /\ pc = "register"
    /\ nextDep \notin DOMAIN Pending
    /\ added' = added \cup {choice}
    /\ ps' = IF choice.package = Root THEN ps
             ELSE AddDecision(ps, choice.package, choice.version)
    /\ pc' = "propagate"
    /\ buffer' = <<choice.package>>
    /\ UNCHANGED <<index, known, store, watch, choice, nextDep, current,
                   watchers, conflict>>

-----------------------------------------------------------------------------
(* Unit propagation.                                                       *)

\* Takes the package pushed last and snapshots its watch list.
PopPackage ==
    /\ pc = "propagate"
    /\ watchers = <<>> /\ buffer # <<>>
    /\ current' = Last(buffer)
    /\ buffer' = Front(buffer)
    /\ watchers' = watch.lists[Last(buffer)]
    /\ UNCHANGED <<index, known, searchVars, driverVars, pc, conflict>>

Examining == pc = "propagate" /\ watchers # <<>>

\* The watch has not moved off the package since the snapshot.
StillWatched == current \in {watch.watched[Head(watchers)][1],
                             watch.watched[Head(watchers)][2]}

FindConflict ==
    /\ Examining
    /\ StillWatched
    /\ Unsatisfied(store[Head(watchers)]) = {}
    /\ pc' = "analyse"
    /\ conflict' = Head(watchers)
    /\ watchers' = <<>>
    /\ UNCHANGED <<index, known, searchVars, driverVars, buffer, current>>

DeriveUnit ==
    /\ Examining
    /\ StillWatched
    /\ LET id == Head(watchers)
       IN  \E pkg \in DOMAIN store[id].terms :
             /\ AlmostSatisfied(store[id], pkg)
             /\ ps' = AddDerivation(ps, pkg, id, Negate(store[id].terms[pkg]))
             /\ watch' = EnsureWatched(watch, id, pkg)
             /\ buffer' = IF Contains(buffer, pkg) THEN buffer
                          ELSE Append(buffer, pkg)
    /\ watchers' = Tail(watchers)
    /\ UNCHANGED <<index, known, store, driverVars, pc, current, conflict>>

\* Contradicted or Inconclusive: the watches go to unsatisfied packages.  An
\* incompatibility whose watch has moved is passed over.
LeaveDormant ==
    /\ Examining
    /\ LET inc == store[Head(watchers)]
       IN  StillWatched =>
             /\ Unsatisfied(inc) # {}
             /\ \A pkg \in DOMAIN inc.terms : ~AlmostSatisfied(inc, pkg)
    /\ watch' = IF StillWatched THEN RefreshWatches(Head(watchers)) ELSE watch
    /\ watchers' = Tail(watchers)
    /\ UNCHANGED <<index, known, store, ps, driverVars, pc, buffer, current,
                   conflict>>

-----------------------------------------------------------------------------
(* Conflict resolution.                                                    *)

Satisfier == SatisfierSearch(ps, store[conflict], known)

\* A terminal incompatibility, or (the branch SameLevel of the source) a
\* satisfier without a cause that is not later than the other satisfiers.
ReportNoSolution ==
    /\ pc = "analyse"
    /\ \/ IsTerminal(store[conflict])
       \/ Satisfier.cause = NoCause /\ Satisfier.previous_dl >= Satisfier.dl
    /\ pc' = "no_solution"
    /\ UNCHANGED <<index, known, searchVars, driverVars, propagationVars,
                   conflict>>

\* The satisfier is a derivation: resolve with its cause and go on with the
\* result.  Registering a result without terms panics in
\* pick_initial_watches ("incompatibility has at least one term").
ResolveWithCause ==
    /\ pc = "analyse"
    /\ ~IsTerminal(store[conflict])
    /\ Satisfier.cause # NoCause
    /\ LET prior == PriorCause(store[conflict], store[Satisfier.cause],
                               Satisfier.package)
       IN  IF DOMAIN prior.terms = {}
           THEN pc' = "panicked" /\ UNCHANGED <<store, watch, conflict>>
           ELSE /\ Register(prior, known)
                /\ conflict' = Len(store) + 1
                /\ UNCHANGED pc
    /\ UNCHANGED <<index, known, ps, driverVars, propagationVars>>

\* Mutant of Backjump: the project is not decided again.
BackjumpLosingRoot ==
    /\ pc = "analyse"
    /\ ~IsTerminal(store[conflict])
    /\ Satisfier.cause = NoCause
    /\ Satisfier.previous_dl < Satisfier.dl
    /\ LET pkg == Satisfier.package
       IN  /\ ps' = AddDerivation(Backtrack(ps, Satisfier.previous_dl), pkg,
                                  conflict,
                                  Negate(store[conflict].terms[pkg]))
           /\ buffer' = <<pkg>>
           /\ watch' = EnsureWatched(watch, conflict, pkg)
    /\ pc' = "propagate"
    /\ conflict' = 0
    /\ UNCHANGED <<index, known, store, driverVars, current, watchers>>

\* The satisfier is a decision: undo it, derive the learned consequence, and
\* restore the decision for the project if it was undone.
Backjump ==
    /\ pc = "analyse"
    /\ ~IsTerminal(store[conflict])
    /\ Satisfier.cause = NoCause
    /\ Satisfier.previous_dl < Satisfier.dl
    /\ LET pkg == Satisfier.package
           learned == AddDerivation(Backtrack(ps, Satisfier.previous_dl), pkg,
                                    conflict,
                                    Negate(store[conflict].terms[pkg]))
       IN  /\ ps' = IF IsAssigned(learned, Root) THEN learned
                    ELSE AddDecision(learned, Root, RootVersion)
           /\ buffer' = IF IsAssigned(learned, Root) THEN <<pkg>>
                        ELSE <<pkg, Root>>
           /\ watch' = EnsureWatched(watch, conflict, pkg)
    /\ pc' = "propagate"
    /\ conflict' = 0
    /\ UNCHANGED <<index, known, store, driverVars, current, watchers>>

-----------------------------------------------------------------------------
(* The driver: the rest of a turn of the loop of run_solver.               *)

\* unit_propagation has returned.
Quiescent == pc = "propagate" /\ buffer = <<>> /\ watchers = <<>>

RangeOf(pkg) == Accumulated(ps.assigned[pkg]).set

\* The positions of the offered versions that are in range.
InRange(pkg) ==
    {i \in DOMAIN index.offers[pkg] : index.offers[pkg][i] \in RangeOf(pkg)}

Preferred(pkg) ==
    [package |-> pkg, version |-> index.offers[pkg][Min(InRange(pkg))]]

ReturnSolution ==
    /\ Quiescent
    /\ Undecided(ps) = {}
    /\ pc' = "solved"
    /\ UNCHANGED <<index, known, searchVars, driverVars, propagationVars,
                   conflict>>

\* No offered version is in range.
RegisterNoVersions ==
    /\ Quiescent
    /\ \E pkg \in Undecided(ps) :
          /\ InRange(pkg) = {}
          /\ Register(NoVersions(pkg, RangeOf(pkg)), known)
          /\ buffer' = <<pkg>>
    /\ UNCHANGED <<index, known, ps, driverVars, pc, current, watchers,
                   conflict>>

\* A version chosen for the first time has its dependencies registered.
ChooseVersion ==
    /\ Quiescent
    /\ \E pkg \in Undecided(ps) :
          /\ InRange(pkg) # {}
          /\ Preferred(pkg) \notin added
          /\ choice' = Preferred(pkg)
    /\ nextDep' = 1
    /\ pc' = "register"
    /\ UNCHANGED <<index, known, searchVars, added, propagationVars, conflict>>

\* Mutant of ChooseVersionAgain: the decision is not propagated.
ChooseVersionAgainQuietly ==
    /\ Quiescent
    /\ \E pkg \in Undecided(ps) :
          /\ InRange(pkg) # {}
          /\ Preferred(pkg) \in added
          /\ ps' = AddDecision(ps, pkg, Preferred(pkg).version)
    /\ UNCHANGED <<index, known, store, watch, driverVars, pc, buffer, current,
                   watchers, conflict>>

\* A version chosen again is decided at once.
ChooseVersionAgain ==
    /\ Quiescent
    /\ \E pkg \in Undecided(ps) :
          /\ InRange(pkg) # {}
          /\ Preferred(pkg) \in added
          /\ ps' = AddDecision(ps, pkg, Preferred(pkg).version)
          /\ buffer' = <<pkg>>
    /\ UNCHANGED <<index, known, store, watch, driverVars, pc, current,
                   watchers, conflict>>

\* The thread has ended.
Stopped == pc \in Ended /\ UNCHANGED vars

Next ==
    \/ RegisterDependency \/ FinishRegistration
    \/ PopPackage \/ FindConflict \/ DeriveUnit
    \/ LeaveDormant
    \/ ReportNoSolution \/ ResolveWithCause \/ Backjump
    \/ ReturnSolution \/ RegisterNoVersions \/ ChooseVersion
    \/ ChooseVersionAgain
    \/ Stopped

Spec == Init /\ [][Next]_vars

\* The solver is one thread that nothing suspends: until it has ended it
\* takes its next step.  This is WF_vars(Next) with ENABLED <<Next>>_vars
\* written out, which is pc \notin Ended.
FairSpec == Spec /\ ([]<>(pc \in Ended) \/ []<><<Next>>_vars)

=============================================================================
