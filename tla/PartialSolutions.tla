-------------------------- MODULE PartialSolutions --------------------------
(***************************************************************************)
(* The partial solution of the solver (PartialSolution in                  *)
(* crates/vyp-resolver/src/solver.rs): the trail of decisions and          *)
(* derivations, with the decision level and the global index at which each *)
(* was made.  An assignment keeps the list of its derivations after its    *)
(* package is decided.  The order of the IndexMap is left out: it only     *)
(* breaks ties between undecided packages.                                 *)
(***************************************************************************)
EXTENDS Incompatibilities, FiniteSetsExt

\* Incompatibilities are numbered from 1; NoCause is the source's None.
NoCause == 0

DatedDerivation == [gi: Nat, dl: Nat, cause: Nat, term: Term]

Decision == [dl: Nat, version: Choice, gi: Nat]

NoDecision == [dl |-> 0, version |-> None, gi |-> 0]

PackageAssignment ==
    [decision: Decision, derivations: Seq(DatedDerivation),
     smallest_dl: Nat, highest_dl: Nat]

IsPartialSolution(ps) ==
    /\ DOMAIN ps.assigned \subseteq Package
    /\ ps \in [level: Nat, next: Nat,
               assigned: [DOMAIN ps.assigned -> PackageAssignment]]

EmptySolution ==
    [level |-> 0, next |-> 0, assigned |-> [q \in {} |-> NoDecision]]

Decided(pa) == pa.decision.version # None

\* Mutant of Accumulated: starts from the full range, without "or absent".
AccumulatedFromFull(pa) ==
    IF pa.derivations = <<>> THEN Positive(Version)
    ELSE Last(pa.derivations).term

\* The term of AssignmentState::Derivations.
Accumulated(pa) ==
    IF pa.derivations = <<>> THEN AnyTerm ELSE Last(pa.derivations).term

IsAssigned(ps, pkg) == pkg \in DOMAIN ps.assigned

TermFor(ps, pkg) ==
    IF ~IsAssigned(ps, pkg) THEN AnyTerm
    ELSE IF Decided(ps.assigned[pkg])
         THEN Positive({ps.assigned[pkg].decision.version})
         ELSE Accumulated(ps.assigned[pkg])

\* The entry of pkg, or a fresh one opened at level dl.
Entry(ps, pkg, dl) ==
    IF IsAssigned(ps, pkg) THEN ps.assigned[pkg]
    ELSE [decision |-> NoDecision, derivations |-> <<>>,
          smallest_dl |-> dl, highest_dl |-> dl]

\* IndexMap::insert.
Put(f, pkg, pa) ==
    [q \in DOMAIN f \cup {pkg} |-> IF q = pkg THEN pa ELSE f[q]]

AddDecision(ps, pkg, version) ==
    LET dl == ps.level + 1
        pa == [Entry(ps, pkg, dl) EXCEPT
                  !.decision = [dl |-> dl, version |-> version, gi |-> ps.next],
                  !.highest_dl = dl]
    IN  [level |-> dl, next |-> ps.next + 1,
         assigned |-> Put(ps.assigned, pkg, pa)]

\* A derivation for a decided package uses up an index and nothing else.
AddDerivation(ps, pkg, cause, term) ==
    LET old == Entry(ps, pkg, ps.level)
        dated == [gi |-> ps.next, dl |-> ps.level, cause |-> cause,
                  term |-> Intersection(Accumulated(old), term)]
        new == [old EXCEPT !.derivations = Append(@, dated),
                           !.highest_dl = ps.level]
    IN  [ps EXCEPT !.next = @ + 1,
                   !.assigned = IF Decided(old) THEN @ ELSE Put(@, pkg, new)]

\* Mutant of UndoAbove: forgets the later derivations but not the decision.
UndoAboveKeepingDecision(pa, target) ==
    LET kept == Max({0} \cup {i \in DOMAIN pa.derivations :
                                 pa.derivations[i].dl <= target})
    IN  [pa EXCEPT !.derivations = SubSeq(@, 1, kept),
                   !.highest_dl = IF kept = 0 THEN pa.smallest_dl
                                  ELSE pa.derivations[kept].dl]

\* Keeps the derivations up to the last one made at a level <= target.
UndoAbove(pa, target) ==
    LET kept == Max({0} \cup {i \in DOMAIN pa.derivations :
                                 pa.derivations[i].dl <= target})
    IN  [pa EXCEPT !.decision = NoDecision,
                   !.derivations = SubSeq(@, 1, kept),
                   !.highest_dl = IF kept = 0 THEN pa.smallest_dl
                                  ELSE pa.derivations[kept].dl]

\* Undoes every assignment made above target.  The global index goes on.
Backtrack(ps, target) ==
    [ps EXCEPT
        !.level = target,
        !.assigned =
            [q \in {r \in DOMAIN @ : @[r].smallest_dl <= target} |->
                IF @[q].highest_dl <= target THEN @[q]
                ELSE UndoAbove(@[q], target)]]

\* The packages that are constrained to be selected and not yet decided.
Undecided(ps) ==
    {q \in DOMAIN ps.assigned :
        ~Decided(ps.assigned[q]) /\ Accumulated(ps.assigned[q]).pos}

ExtractSolution(ps) ==
    [q \in Package |->
        IF IsAssigned(ps, q) THEN ps.assigned[q].decision.version ELSE None]

-----------------------------------------------------------------------------
\* The earliest assignment of pa after which the term holds: a derivation,
\* else the decision, else (third case) nothing that was recorded.
FindSatisfier(ps, pa, term) ==
    LET found == {i \in DOMAIN pa.derivations :
                     IsDisjoint(pa.derivations[i].term, Negate(term))}
    IN  IF found # {}
        THEN LET d == pa.derivations[Min(found)]
             IN  [gi |-> d.gi, dl |-> d.dl, cause |-> d.cause]
        ELSE IF Decided(pa)
        THEN [gi |-> pa.decision.gi, dl |-> pa.decision.dl, cause |-> NoCause]
        ELSE [gi |-> ps.next, dl |-> pa.highest_dl, cause |-> NoCause]

\* satisfier_search: the latest of the satisfiers of the terms of inc, and
\* the highest level among the satisfiers of the other packages.  Packages
\* without an assignment are skipped.  Of two satisfiers with one index, the
\* package that comes last in the sequence order wins.
SatisfierSearch(ps, inc, order) ==
    LET mentioned == DOMAIN inc.terms \cap DOMAIN ps.assigned
        info(q) == FindSatisfier(ps, ps.assigned[q], inc.terms[q])
        latest == {q \in mentioned :
                      \A r \in mentioned : info(r).gi <= info(q).gi}
        pkg == order[Max({i \in DOMAIN order : order[i] \in latest})]
    IN  IF mentioned = {}
        THEN [package |-> Root, dl |-> 0, previous_dl |-> 0, cause |-> NoCause]
        ELSE [package |-> pkg, dl |-> info(pkg).dl, cause |-> info(pkg).cause,
              previous_dl |->
                 Max({0} \cup {info(q).dl : q \in mentioned \ {pkg}})]
=============================================================================
