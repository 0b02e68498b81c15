---------------------------- MODULE SolverProofs ----------------------------
(***************************************************************************)
(* Theorems about the solver for every set of packages, every version line *)
(* and every package index: the variables keep their types, the watch      *)
(* lists agree with the pairs, and, for indexes in which no version        *)
(* depends on its own package, the store excludes no valid resolution and  *)
(* the expect of pick_initial_watches cannot fail.  They go on, from       *)
(* Step, to the trail through any number of backjumps and what rests on    *)
(* it: conflict resolution works on a violated incompatibility, a project  *)
(* is refused only if it has no solution, nothing is selected that nothing *)
(* asks for, and, while each dependency is watched at the package that     *)
(* depends from its registration on, propagation loses none and what is    *)
(* returned is valid: the solver implements module Resolution.             *)
(*                                                                         *)
(* The inductive invariant has three parts: the store and the watch index, *)
(* the trail, and the control variables.  Types alone are not inductive:   *)
(* that the store stays sound needs the shape of what the store and the    *)
(* trail say about the project, which is the same in every state.          *)
(*                                                                         *)
(* Before it come the lemmas about what the solver is built from: terms    *)
(* and incompatibilities, the partial solution, and the types of the watch *)
(* index.  The agreement of the watch lists has lemmas and an invariant of *)
(* its own.  For the trail, the assignments of all packages are taken as   *)
(* one set of steps.  A decision or derivation adds the newest step to it  *)
(* and a backjump keeps the steps up to a level, so that the invariants    *)
(* are about sets of steps and survive both.                               *)
(***************************************************************************)
EXTENDS SolverProperties, SequenceLemmas

-----------------------------------------------------------------------------
(* Terms and incompatibilities: what the operations on them mean.          *)

\* Term::negate, intersection and union yield terms.
LEMMA TermTypes ==
    ASSUME NEW a \in Term, NEW b \in Term
    PROVE  Negate(a) \in Term /\ Intersection(a, b) \in Term /\ Union(a, b) \in Term
BY DEF Term, Negate, Intersection, Union, Positive, Negative

\* Term::negate is the complement.
LEMMA NegateMeaning ==
    ASSUME NEW t \in Term, NEW c \in Choice
    PROVE  c \in Allows(Negate(t)) <=> c \notin Allows(t)
BY PackagesAssumption DEF Term, Negate, Allows, Choice

\* Term::intersection holds where both terms hold.
LEMMA IntersectionMeaning ==
    ASSUME NEW a \in Term, NEW b \in Term, NEW c \in Choice
    PROVE  c \in Allows(Intersection(a, b)) <=> c \in Allows(a) /\ c \in Allows(b)
BY PackagesAssumption
   DEF Term, Intersection, Positive, Negative, Allows, Choice

\* Term::union holds where one of the terms holds.
LEMMA UnionMeaning ==
    ASSUME NEW a \in Term, NEW b \in Term, NEW c \in Choice
    PROVE  c \in Allows(Union(a, b)) <=> c \in Allows(a) \/ c \in Allows(b)
BY PackagesAssumption DEF Term, Union, Positive, Negative, Allows, Choice

\* A term that prior_cause leaves out says nothing.
LEMMA AnyTermMeaning ==
    ASSUME NEW t \in Term, NEW c \in Choice, IsAnyTerm(t)
    PROVE  c \in Allows(t)
BY DEF Term, IsAnyTerm, Allows

-----------------------------------------------------------------------------
(* The clauses the solver registers.                                       *)

\* not_root builds a well-formed incompatibility.
LEMMA NotRootType == IsIncompatibility(NotRoot)
BY PackagesAssumption
   DEF IsIncompatibility, NotRoot, Kind, Term, Negative

\* no_versions builds a well-formed incompatibility.
LEMMA NoVersionsType ==
    ASSUME NEW pkg \in Package, NEW range \in SUBSET Version
    PROVE  IsIncompatibility(NoVersions(pkg, range))
BY DEF IsIncompatibility, NoVersions, Kind, Term, Positive

\* from_dependency builds a well-formed incompatibility.
LEMMA FromDependencyType ==
    ASSUME NEW pkg \in Package, NEW version \in Version,
           NEW dep \in Package, NEW range \in SUBSET Version
    PROVE  IsIncompatibility(FromDependency(pkg, version, dep, range))
BY DEF IsIncompatibility, FromDependency, Kind, Term, Positive, Negative

\* prior_cause builds a well-formed incompatibility from two.
LEMMA PriorCauseType ==
    ASSUME NEW a, NEW b, NEW pivot,
           IsIncompatibility(a), IsIncompatibility(b)
    PROVE  IsIncompatibility(PriorCause(a, b, pivot))
BY TermTypes DEF IsIncompatibility, PriorCause, Kind

\* The rule of resolution is sound: an assignment that violates the result
\* violates one of the two incompatibilities it was made from.
LEMMA PriorCauseEntailed ==
    ASSUME NEW a, NEW b, NEW pivot \in Package, NEW s \in Assignments,
           IsIncompatibility(a), IsIncompatibility(b),
           Violates(s, PriorCause(a, b, pivot))
    PROVE  Violates(s, a) \/ Violates(s, b)
<1> DEFINE prior == PriorCause(a, b, pivot)
           both == DOMAIN a.terms \cap DOMAIN b.terms
<1>1. \A q \in Package : s[q] \in Choice
  BY DEF Assignments
<1>2. /\ DOMAIN a.terms \subseteq Package /\ DOMAIN b.terms \subseteq Package
      /\ \A q \in DOMAIN a.terms : a.terms[q] \in Term
      /\ \A q \in DOMAIN b.terms : b.terms[q] \in Term
  BY DEF IsIncompatibility
<1>3. \A q \in DOMAIN a.terms \ {pivot} : s[q] \in Allows(a.terms[q])
  <2> SUFFICES ASSUME NEW q \in DOMAIN a.terms \ {pivot}
               PROVE  s[q] \in Allows(a.terms[q])
    OBVIOUS
  <2>1. q \in DOMAIN prior.terms /\ s[q] \in Allows(prior.terms[q])
    BY DEF PriorCause, Violates
  <2>2. CASE q \in both
    <3>1. prior.terms[q] = Intersection(a.terms[q], b.terms[q])
      BY <2>2 DEF PriorCause
    <3> QED BY <1>1, <1>2, <2>1, <2>2, <3>1, IntersectionMeaning
  <2>3. CASE q \notin both
    BY <2>1, <2>3 DEF PriorCause
  <2> QED BY <2>2, <2>3
<1>4. \A q \in DOMAIN b.terms \ {pivot} : s[q] \in Allows(b.terms[q])
  <2> SUFFICES ASSUME NEW q \in DOMAIN b.terms \ {pivot}
               PROVE  s[q] \in Allows(b.terms[q])
    OBVIOUS
  <2>1. q \in DOMAIN prior.terms /\ s[q] \in Allows(prior.terms[q])
    BY DEF PriorCause, Violates
  <2>2. CASE q \in both
    <3>1. prior.terms[q] = Intersection(a.terms[q], b.terms[q])
      BY <2>2 DEF PriorCause
    <3> QED BY <1>1, <1>2, <2>1, <2>2, <3>1, IntersectionMeaning
  <2>3. CASE q \notin both
    BY <2>1, <2>3 DEF PriorCause
  <2> QED BY <2>2, <2>3
<1>5. CASE pivot \in both
  <2> DEFINE union == Union(a.terms[pivot], b.terms[pivot])
  <2>1. union \in Term
    BY <1>2, <1>5, TermTypes
  <2>2. s[pivot] \in Allows(union)
    <3>1. CASE IsAnyTerm(union)
      BY <1>1, <2>1, <3>1, AnyTermMeaning
    <3>2. CASE ~IsAnyTerm(union)
      BY <1>5, <3>2 DEF PriorCause, Violates
    <3> QED BY <3>1, <3>2
  <2>3. s[pivot] \in Allows(a.terms[pivot]) \/ s[pivot] \in Allows(b.terms[pivot])
    BY <1>1, <1>2, <1>5, <2>2, UnionMeaning
  <2> QED BY <1>3, <1>4, <2>3 DEF Violates
<1>6. CASE pivot \notin both
  BY <1>3, <1>4, <1>6 DEF Violates
<1> QED BY <1>5, <1>6

\* A dependency excludes no valid assignment, unless a version depends on its
\* own package.
LEMMA FromDependencyEntailed ==
    ASSUME NEW idx \in PackageIndex, NEW s \in Assignments, Valid(idx, s),
           NEW pkg \in Package, NEW version \in Version,
           NEW dep \in ToSet(Requirements(idx, pkg, version)),
           dep.package # pkg
    PROVE  ~Violates(s, FromDependency(pkg, version, dep.package, dep.range))
<1> SUFFICES ASSUME s[pkg] = version,
                    s[dep.package] \in Allows(Negative(dep.range))
             PROVE  FALSE
  BY DEF Violates, FromDependency, Positive, Allows
<1>1. pkg \in Selected(s)
  BY PackagesAssumption DEF Selected
<1>2. s[dep.package] \in dep.range
  BY <1>1 DEF Valid, DependenciesOf
<1> QED BY <1>2 DEF Allows, Negative

\* no_versions excludes no valid assignment when nothing offered is in range.
LEMMA NoVersionsEntailed ==
    ASSUME NEW idx \in PackageIndex, NEW s \in Assignments, Valid(idx, s),
           NEW pkg \in Package \ {Root}, NEW range \in SUBSET Version,
           \A i \in DOMAIN idx.offers[pkg] : idx.offers[pkg][i] \notin range
    PROVE  ~Violates(s, NoVersions(pkg, range))
<1> SUFFICES ASSUME s[pkg] \in range
             PROVE  FALSE
  BY DEF Violates, NoVersions, Positive, Allows
<1>1. pkg \in Selected(s)
  BY PackagesAssumption DEF Selected
<1>2. s[pkg] \in ToSet(idx.offers[pkg])
  BY <1>1 DEF Valid
<1> QED BY <1>2 DEF ToSet

\* Every valid assignment selects the project.
LEMMA NotRootEntailed ==
    ASSUME NEW idx \in PackageIndex, NEW s \in Assignments, Valid(idx, s)
    PROVE  ~Violates(s, NotRoot)
BY DEF Violates, NotRoot, Negative, Allows, Valid

-----------------------------------------------------------------------------
(* The partial solution stays well formed and well dated.                  *)

\* The dates of one assignment: nothing is above its highest level, levels
\* do not fall along its derivations, and causes are among ids.
WellDatedAssignment(pa, level, next, ids) ==
    /\ pa \in PackageAssignment
    /\ pa.highest_dl <= level
    /\ pa.decision.dl <= pa.highest_dl /\ pa.decision.gi <= next
    /\ \A i \in DOMAIN pa.derivations :
          /\ pa.derivations[i].cause \in ids
          /\ pa.derivations[i].gi <= next
          /\ pa.derivations[i].dl <= pa.highest_dl
    /\ \A i, j \in DOMAIN pa.derivations :
          i <= j => pa.derivations[i].dl <= pa.derivations[j].dl

WellDated(sol, ids) ==
    /\ IsPartialSolution(sol)
    /\ \A q \in DOMAIN sol.assigned :
          WellDatedAssignment(sol.assigned[q], sol.level, sol.next, ids)

-----------------------------------------------------------------------------
\* AssignmentState::Derivations holds a term.
LEMMA AccumulatedType ==
    ASSUME NEW pa \in PackageAssignment
    PROVE  Accumulated(pa) \in Term
<1>1. AnyTerm \in Term
  BY DEF AnyTerm, Negative, Term
<1>2. pa.derivations \in Seq(DatedDerivation)
  BY DEF PackageAssignment
<1>3. CASE pa.derivations # <<>>
  <2>1. Last(pa.derivations) \in DatedDerivation
    BY <1>2, <1>3, FrontLastType
  <2> QED BY <1>3, <2>1 DEF Accumulated, DatedDerivation
<1> QED BY <1>1, <1>3 DEF Accumulated

\* A fresh entry, and one that is there, is dated no later than now.
LEMMA EntryWellDated ==
    ASSUME NEW sol, NEW ids, WellDated(sol, ids), NEW pkg, NEW dl \in Nat,
           sol.level <= dl
    PROVE  WellDatedAssignment(Entry(sol, pkg, dl), dl, sol.next, ids)
<1>0. sol.level \in Nat /\ sol.next \in Nat
  BY DEF WellDated, IsPartialSolution
<1>1. CASE IsAssigned(sol, pkg)
  <2>1. WellDatedAssignment(sol.assigned[pkg], sol.level, sol.next, ids)
    BY <1>1 DEF WellDated, IsAssigned
  <2>2. sol.assigned[pkg].highest_dl \in Nat
    BY <2>1 DEF WellDatedAssignment, PackageAssignment
  <2> QED BY <1>0, <1>1, <2>1, <2>2 DEF WellDatedAssignment, Entry
<1>2. CASE ~IsAssigned(sol, pkg)
  <2> DEFINE pa == [decision |-> NoDecision, derivations |-> <<>>,
                    smallest_dl |-> dl, highest_dl |-> dl]
  <2>1. Entry(sol, pkg, dl) = pa
    BY <1>2 DEF Entry
  <2>2. NoDecision \in Decision
    BY DEF NoDecision, Decision, Choice
  <2>3. pa \in PackageAssignment
    BY <2>2, EmptySeq DEF PackageAssignment
  <2> QED BY <1>0, <2>1, <2>3 DEF WellDatedAssignment, NoDecision
<1> QED BY <1>1, <1>2

\* What is well dated stays so as time goes on and the store grows.
LEMMA LaterWellDated ==
    ASSUME NEW pa, NEW ids, NEW ids2, ids \subseteq ids2,
           NEW level \in Nat, NEW level2 \in Nat, level <= level2,
           NEW next \in Nat, NEW next2 \in Nat, next <= next2,
           WellDatedAssignment(pa, level, next, ids)
    PROVE  WellDatedAssignment(pa, level2, next2, ids2)
<1>1. pa.highest_dl \in Nat /\ pa.decision.gi \in Nat
  BY DEF WellDatedAssignment, PackageAssignment, Decision
<1>2. \A i \in DOMAIN pa.derivations : pa.derivations[i].gi \in Nat
  <2>1. \A i \in DOMAIN pa.derivations : pa.derivations[i] \in DatedDerivation
    BY ElementOfSeq, LenProperties DEF WellDatedAssignment, PackageAssignment
  <2> QED BY <2>1 DEF DatedDerivation
<1> QED BY <1>1, <1>2 DEF WellDatedAssignment

\* IndexMap::insert.
LEMMA PutWellDated ==
    ASSUME NEW sol, NEW ids, WellDated(sol, ids), NEW pkg \in Package, NEW pa,
           NEW level \in Nat, sol.level <= level,
           NEW next \in Nat, sol.next <= next,
           WellDatedAssignment(pa, level, next, ids)
    PROVE  WellDated([level |-> level, next |-> next,
                      assigned |-> Put(sol.assigned, pkg, pa)], ids)
<1> DEFINE put == Put(sol.assigned, pkg, pa)
<1>1. DOMAIN put = DOMAIN sol.assigned \cup {pkg}
  BY DEF Put
<1>2. \A q \in DOMAIN put : WellDatedAssignment(put[q], level, next, ids)
  <2> TAKE q \in DOMAIN put
  <2>1. CASE q = pkg
    BY <1>1, <2>1 DEF Put
  <2>2. CASE q # pkg
    <3>1. q \in DOMAIN sol.assigned /\ put[q] = sol.assigned[q]
      BY <1>1, <2>2 DEF Put
    <3>2. /\ WellDatedAssignment(sol.assigned[q], sol.level, sol.next, ids)
          /\ sol.level \in Nat /\ sol.next \in Nat
      BY <3>1 DEF WellDated, IsPartialSolution
    <3> QED BY <3>1, <3>2, LaterWellDated
  <2> QED BY <2>1, <2>2
<1>3. put \in [DOMAIN put -> PackageAssignment]
  <2>1. put = [q \in DOMAIN put |-> put[q]]
    BY DEF Put
  <2>2. \A q \in DOMAIN put : put[q] \in PackageAssignment
    BY <1>2 DEF WellDatedAssignment
  <2> HIDE DEF put
  <2> QED BY <2>1, <2>2
<1>4. DOMAIN put \subseteq Package
  BY <1>1 DEF WellDated, IsPartialSolution
<1> HIDE DEF put
<1> DEFINE new == [level |-> level, next |-> next, assigned |-> put]
<1>5. WellDated(new, ids)
  BY <1>2, <1>3, <1>4 DEF WellDated, IsPartialSolution
<1> QED BY <1>5 DEF put

\* add_decision.
LEMMA AddDecisionWellDated ==
    ASSUME NEW sol, NEW ids, WellDated(sol, ids),
           NEW pkg \in Package, NEW version \in Choice
    PROVE  WellDated(AddDecision(sol, pkg, version), ids)
<1> DEFINE dl == sol.level + 1
           old == Entry(sol, pkg, dl)
           decision == [dl |-> dl, version |-> version, gi |-> sol.next]
           pa == [old EXCEPT !.decision = decision, !.highest_dl = dl]
<1>0. sol.level \in Nat /\ sol.next \in Nat
  BY DEF WellDated, IsPartialSolution
<1>1. WellDatedAssignment(old, dl, sol.next, ids)
  BY <1>0, EntryWellDated
<1>2. decision \in Decision
  BY <1>0 DEF Decision
<1>3. WellDatedAssignment(pa, dl, sol.next + 1, ids)
  <2> HIDE DEF old, decision
  <2>1. old \in PackageAssignment
    BY <1>1 DEF WellDatedAssignment
  <2>2. /\ pa \in PackageAssignment
        /\ pa.derivations = old.derivations
        /\ pa.decision = decision
        /\ pa.highest_dl = dl
    <3>1. dl \in Nat
      BY <1>0
    <3> HIDE DEF dl
    <3> QED BY <3>1, <1>2, <2>1 DEF PackageAssignment
  <2>3. \A i \in DOMAIN old.derivations :
           old.derivations[i].dl \in Nat /\ old.derivations[i].gi \in Nat
    <3>1. \A i \in DOMAIN old.derivations : old.derivations[i] \in DatedDerivation
      BY <2>1, ElementOfSeq, LenProperties DEF PackageAssignment
    <3> QED BY <3>1 DEF DatedDerivation
  <2>4. old.highest_dl \in Nat
    BY <2>1 DEF PackageAssignment
  <2>5. decision.dl = dl /\ decision.gi = sol.next
    BY DEF decision
  <2> HIDE DEF pa
  <2> QED BY <1>0, <1>1, <2>2, <2>3, <2>4, <2>5 DEF WellDatedAssignment
<1> HIDE DEF pa
<1>4. WellDated([level |-> dl, next |-> sol.next + 1,
                 assigned |-> Put(sol.assigned, pkg, pa)], ids)
  BY <1>0, <1>3, PutWellDated
<1> QED BY <1>4 DEF AddDecision, pa

\* add_derivation.
LEMMA AddDerivationWellDated ==
    ASSUME NEW sol, NEW ids \in SUBSET Nat, WellDated(sol, ids),
           NEW pkg \in Package, NEW cause \in ids, NEW term \in Term
    PROVE  WellDated(AddDerivation(sol, pkg, cause, term), ids)
<1> DEFINE old == Entry(sol, pkg, sol.level)
           dated == [gi |-> sol.next, dl |-> sol.level, cause |-> cause,
                     term |-> Intersection(Accumulated(old), term)]
           pa == [old EXCEPT !.derivations = Append(@, dated),
                             !.highest_dl = sol.level]
           new == AddDerivation(sol, pkg, cause, term)
<1>0. sol.level \in Nat /\ sol.next \in Nat /\ DOMAIN sol = {"level", "next", "assigned"}
  BY DEF WellDated, IsPartialSolution
<1>1. WellDatedAssignment(old, sol.level, sol.next, ids)
  BY <1>0, EntryWellDated
<1>2. old \in PackageAssignment
  BY <1>1 DEF WellDatedAssignment
<1>3. dated \in DatedDerivation
  <2>1. Intersection(Accumulated(old), term) \in Term
    BY <1>2, AccumulatedType, TermTypes
  <2> QED BY <1>0, <2>1 DEF DatedDerivation
<1>4. WellDatedAssignment(pa, sol.level, sol.next + 1, ids)
  <2>1. dated.gi = sol.next /\ dated.dl = sol.level /\ dated.cause = cause
    OBVIOUS
  <2> HIDE DEF old, dated
  <2> DEFINE ds == old.derivations
  <2>2. ds \in Seq(DatedDerivation) /\ old.highest_dl \in Nat
        /\ old.decision \in Decision
    BY <1>2 DEF PackageAssignment
  <2>3. /\ Append(ds, dated) \in Seq(DatedDerivation)
        /\ DOMAIN Append(ds, dated) = 1..(Len(ds) + 1)
        /\ DOMAIN ds = 1..Len(ds) /\ Len(ds) \in Nat
        /\ \A i \in 1..Len(ds) : Append(ds, dated)[i] = ds[i]
        /\ Append(ds, dated)[Len(ds) + 1] = dated
    BY <1>3, <2>2, AppendProperties, LenProperties
  <2>4. /\ pa \in PackageAssignment
        /\ pa.derivations = Append(ds, dated)
        /\ pa.decision = old.decision
        /\ pa.highest_dl = sol.level
    BY <1>0, <1>2, <2>3 DEF PackageAssignment
  <2>5. \A i \in 1..Len(ds) : ds[i].dl \in Nat /\ ds[i].gi \in Nat
    <3>1. \A i \in 1..Len(ds) : ds[i] \in DatedDerivation
      BY <2>2, ElementOfSeq
    <3> QED BY <3>1 DEF DatedDerivation
  <2>6. old.decision.dl \in Nat /\ old.decision.gi \in Nat
    BY <2>2 DEF Decision
  <2>7. /\ old.highest_dl <= sol.level
        /\ old.decision.dl <= old.highest_dl /\ old.decision.gi <= sol.next
        /\ \A i \in 1..Len(ds) : ds[i].cause \in ids /\ ds[i].gi <= sol.next
                                 /\ ds[i].dl <= old.highest_dl
        /\ \A i, j \in 1..Len(ds) : i <= j => ds[i].dl <= ds[j].dl
    BY <1>1, <2>3 DEF WellDatedAssignment
  <2> DEFINE as == Append(ds, dated)
  <2> HIDE DEF ds, pa
  <2>8. \A i \in 1..(Len(ds) + 1) : i \in 1..Len(ds) \/ i = Len(ds) + 1
    BY <2>3
  <2>9. \A i \in DOMAIN as : /\ as[i].cause \in ids
                             /\ as[i].gi <= sol.next + 1
                             /\ as[i].dl <= sol.level
    BY <1>0, <2>1, <2>2, <2>3, <2>5, <2>7, <2>8
  <2>10. \A i, j \in DOMAIN as : i <= j => as[i].dl <= as[j].dl
    <3> SUFFICES ASSUME NEW i \in DOMAIN as, NEW j \in DOMAIN as, i <= j
                 PROVE  as[i].dl <= as[j].dl
      OBVIOUS
    <3>1. CASE j = Len(ds) + 1
      <4>1. as[j].dl = sol.level
        BY <2>1, <2>3, <3>1
      <4> QED BY <2>9, <4>1
    <3>2. CASE j \in 1..Len(ds)
      <4>1. i \in 1..Len(ds)
        BY <2>3, <3>2
      <4> QED BY <2>3, <2>7, <3>2, <4>1
    <3> QED BY <2>3, <2>8, <3>1, <3>2
  <2> HIDE DEF as
  <2>11. pa.derivations = as
    BY <2>4 DEF as
  <2>12. pa.decision.dl <= pa.highest_dl /\ pa.decision.gi <= sol.next + 1
    BY <1>0, <2>2, <2>4, <2>6, <2>7
  <2>13. pa.highest_dl <= sol.level
    BY <1>0, <2>4
  <2> QED BY <2>4, <2>9, <2>10, <2>11, <2>12, <2>13 DEF WellDatedAssignment
<1>5. CASE Decided(old)
  <2>1. new = [sol EXCEPT !.next = sol.next + 1]
    BY <1>0, <1>5 DEF AddDerivation
  <2>2. /\ new = [level |-> sol.level, next |-> sol.next + 1,
                   assigned |-> sol.assigned]
        /\ sol.assigned \in [DOMAIN sol.assigned -> PackageAssignment]
        /\ DOMAIN sol.assigned \subseteq Package
    BY <1>0, <2>1 DEF WellDated, IsPartialSolution
  <2>3. \A q \in DOMAIN sol.assigned :
           WellDatedAssignment(sol.assigned[q], sol.level, sol.next + 1, ids)
    BY <1>0, LaterWellDated DEF WellDated
  <2> HIDE DEF new
  <2>4. WellDated(new, ids)
    BY <1>0, <2>2, <2>3 DEF WellDated, IsPartialSolution
  <2> QED BY <2>4 DEF new
<1>6. CASE ~Decided(old)
  <2> HIDE DEF pa
  <2> DEFINE put == [level |-> sol.level, next |-> sol.next + 1,
                     assigned |-> Put(sol.assigned, pkg, pa)]
  <2>1. WellDated(put, ids)
    BY <1>0, <1>4, PutWellDated
  <2>2. new = [sol EXCEPT !.next = sol.next + 1,
                         !.assigned = Put(sol.assigned, pkg, pa)]
    BY <1>0, <1>6 DEF AddDerivation, pa
  <2>3. sol = [level |-> sol.level, next |-> sol.next, assigned |-> sol.assigned]
    BY <1>0 DEF WellDated, IsPartialSolution
  <2>4. new = put
    BY <2>2, <2>3
  <2> HIDE DEF put
  <2> QED BY <2>1, <2>4
<1> QED BY <1>5, <1>6

-----------------------------------------------------------------------------
\* What backtrack keeps of one assignment is dated no later than target.
LEMMA UndoAboveWellDated ==
    ASSUME NEW pa, NEW ids, NEW level \in Nat, NEW next \in Nat,
           WellDatedAssignment(pa, level, next, ids),
           NEW target \in Nat, pa.smallest_dl <= target
    PROVE  WellDatedAssignment(UndoAbove(pa, target), target, next, ids)
<1> DEFINE ds == pa.derivations
           low == {i \in DOMAIN ds : ds[i].dl <= target}
           kept == Max({0} \cup low)
           highest == IF kept = 0 THEN pa.smallest_dl ELSE ds[kept].dl
           front == SubSeq(ds, 1, kept)
           new == UndoAbove(pa, target)
<1>1. pa \in PackageAssignment
  BY DEF WellDatedAssignment
<1>2. /\ ds \in Seq(DatedDerivation) /\ pa.smallest_dl \in Nat
      /\ DOMAIN ds = 1..Len(ds) /\ Len(ds) \in Nat
  BY <1>1, LenProperties DEF PackageAssignment
<1>3. \A i \in 1..Len(ds) : ds[i].dl \in Nat
  <2>1. \A i \in 1..Len(ds) : ds[i] \in DatedDerivation
    BY <1>2, ElementOfSeq
  <2> QED BY <2>1 DEF DatedDerivation
<1>4. kept \in {0} \cup low
  <2>1. /\ {0} \cup low \in SUBSET Nat /\ {0} \cup low # {}
        /\ \A x \in {0} \cup low : x <= Len(ds)
    BY <1>2
  <2> QED BY <1>2, <2>1, MaxOfNat
<1>5. kept \in Nat /\ kept <= Len(ds)
  BY <1>2, <1>4
<1>6. highest \in Nat /\ highest <= target
  BY <1>2, <1>3, <1>4
<1>7. /\ front \in Seq(DatedDerivation) /\ DOMAIN front = 1..kept
      /\ \A i \in 1..kept : front[i] = ds[i]
  <2> HIDE DEF kept
  <2>1. /\ front \in Seq(DatedDerivation) /\ Len(front) = kept
        /\ \A i \in 1..kept : front[i] = ds[i]
    BY <1>2, <1>5, PrefixType
  <2> QED BY <2>1, LenProperties
<1>8. /\ new = [pa EXCEPT !.decision = NoDecision, !.derivations = front,
                          !.highest_dl = highest]
  BY <1>1 DEF UndoAbove, PackageAssignment
<1> HIDE DEF new, front, highest, kept
<1>9. NoDecision \in Decision /\ NoDecision.dl = 0 /\ NoDecision.gi = 0
  BY DEF NoDecision, Decision, Choice
<1>10. /\ new \in PackageAssignment
       /\ new.decision = NoDecision /\ new.derivations = front
       /\ new.highest_dl = highest
  BY <1>1, <1>6, <1>7, <1>8, <1>9 DEF PackageAssignment
<1>11. \A i \in DOMAIN front : /\ front[i].cause \in ids
                               /\ front[i].gi <= next
                               /\ front[i].dl <= highest
  <2> TAKE i \in DOMAIN front
  <2>1. i \in 1..Len(ds) /\ kept \in 1..Len(ds) /\ i <= kept /\ kept # 0
    BY <1>2, <1>5, <1>7
  <2> QED BY <1>2, <1>7, <2>1 DEF WellDatedAssignment, highest
<1>12. \A i, j \in DOMAIN front : i <= j => front[i].dl <= front[j].dl
  <2> TAKE i, j \in DOMAIN front
  <2>1. i \in 1..Len(ds) /\ j \in 1..Len(ds)
    BY <1>2, <1>5, <1>7
  <2> QED BY <1>2, <1>7, <2>1 DEF WellDatedAssignment
<1>13. WellDatedAssignment(new, target, next, ids)
  BY <1>6, <1>9, <1>10, <1>11, <1>12 DEF WellDatedAssignment
<1> QED BY <1>13 DEF new

\* backtrack.
LEMMA BacktrackWellDated ==
    ASSUME NEW sol, NEW ids, WellDated(sol, ids), NEW target \in Nat
    PROVE  WellDated(Backtrack(sol, target), ids)
<1> DEFINE left == {r \in DOMAIN sol.assigned : sol.assigned[r].smallest_dl <= target}
           kept == [q \in left |->
                       IF sol.assigned[q].highest_dl <= target THEN sol.assigned[q]
                       ELSE UndoAbove(sol.assigned[q], target)]
           new == [level |-> target, next |-> sol.next, assigned |-> kept]
<1>1. /\ DOMAIN sol.assigned \subseteq Package
      /\ sol \in [level: Nat, next: Nat,
                 assigned: [DOMAIN sol.assigned -> PackageAssignment]]
  BY DEF WellDated, IsPartialSolution
<1>2. Backtrack(sol, target) = new
  <2>1. Backtrack(sol, target) = [sol EXCEPT !.level = target, !.assigned = kept]
    BY DEF Backtrack
  <2> HIDE DEF kept
  <2> QED BY <1>1, <2>1
<1>3. \A q \in left : WellDatedAssignment(kept[q], target, sol.next, ids)
  <2> TAKE q \in left
  <2> DEFINE pa == sol.assigned[q]
  <2>1. WellDatedAssignment(pa, sol.level, sol.next, ids)
    BY DEF WellDated
  <2>2. CASE pa.highest_dl <= target
    BY <2>1, <2>2 DEF WellDatedAssignment
  <2>3. CASE ~(pa.highest_dl <= target)
    BY <1>1, <2>1, <2>3, UndoAboveWellDated
  <2> QED BY <2>2, <2>3
<1>4. left \subseteq Package /\ DOMAIN kept = left
  BY <1>1
<1>5. kept \in [left -> PackageAssignment]
  <2>1. \A q \in left : kept[q] \in PackageAssignment
    BY <1>3 DEF WellDatedAssignment
  <2>2. kept = [q \in left |-> kept[q]]
    OBVIOUS
  <2> HIDE DEF kept, left
  <2> QED BY <2>1, <2>2
<1> HIDE DEF kept, left
<1>6. WellDated(new, ids)
  BY <1>1, <1>3, <1>4, <1>5 DEF WellDated, IsPartialSolution
<1> QED BY <1>2, <1>6

-----------------------------------------------------------------------------
\* find_satisfier returns a date of the trail and a cause from the store.
LEMMA FindSatisfierType ==
    ASSUME NEW sol, NEW ids \in SUBSET Nat, NEW pa, NEW term,
           sol.level \in Nat, sol.next \in Nat,
           WellDatedAssignment(pa, sol.level, sol.next, ids)
    PROVE  LET found == FindSatisfier(sol, pa, term)
           IN  /\ found.gi \in Nat /\ found.gi <= sol.next
               /\ found.dl \in Nat /\ found.dl <= sol.level
               /\ found.cause \in ids \cup {NoCause}
<1> DEFINE ds == pa.derivations
           hits == {i \in DOMAIN ds : IsDisjoint(ds[i].term, Negate(term))}
<1>1. pa \in PackageAssignment
  BY DEF WellDatedAssignment
<1>2. /\ ds \in Seq(DatedDerivation)
      /\ DOMAIN ds = 1..Len(ds) /\ Len(ds) \in Nat
      /\ pa.highest_dl \in Nat /\ pa.decision.gi \in Nat /\ pa.decision.dl \in Nat
  BY <1>1, LenProperties DEF PackageAssignment, Decision
<1>3. CASE hits # {}
  <2> DEFINE d == ds[Min(hits)]
  <2>1. hits \in SUBSET Nat
    BY <1>2
  <2> HIDE DEF hits
  <2>2. Min(hits) \in hits
    BY <1>3, <2>1, MinOfNat
  <2>3. Min(hits) \in DOMAIN ds
    BY <2>2 DEF hits
  <2>4. d \in DatedDerivation
    BY <1>2, <2>3, ElementOfSeq
  <2>5. FindSatisfier(sol, pa, term) = [gi |-> d.gi, dl |-> d.dl, cause |-> d.cause]
    BY <1>3 DEF FindSatisfier, hits
  <2>6. d.gi <= sol.next /\ d.dl <= pa.highest_dl /\ d.cause \in ids
    BY <2>3 DEF WellDatedAssignment
  <2>7. pa.highest_dl <= sol.level
    BY DEF WellDatedAssignment
  <2> HIDE DEF d
  <2> QED BY <1>2, <2>4, <2>5, <2>6, <2>7 DEF DatedDerivation
<1>4. CASE hits = {}
  BY <1>2, <1>4 DEF FindSatisfier, WellDatedAssignment, NoCause
<1> QED BY <1>3, <1>4

\* satisfier_search.
LEMMA SatisfierSearchType ==
    ASSUME NEW sol, NEW ids \in SUBSET Nat, WellDated(sol, ids), NEW inc,
           NEW order \in Seq(Package), DOMAIN inc.terms \subseteq ToSet(order)
    PROVE  LET found == SatisfierSearch(sol, inc, order)
           IN  /\ found.package \in Package
               /\ found.dl \in Nat /\ found.previous_dl \in Nat
               /\ found.cause \in ids \cup {NoCause}
               /\ \/ found.package \in DOMAIN inc.terms
                  \/ found.cause = NoCause /\ found.previous_dl = found.dl
<1> DEFINE mentioned == DOMAIN inc.terms \cap DOMAIN sol.assigned
           info(q) == FindSatisfier(sol, sol.assigned[q], inc.terms[q])
           latest == {q \in mentioned : \A r \in mentioned : info(r).gi <= info(q).gi}
           places == {i \in DOMAIN order : order[i] \in latest}
           pkg == order[Max(places)]
           others == {0} \cup {info(q).dl : q \in mentioned \ {pkg}}
           found == SatisfierSearch(sol, inc, order)
<1>0. sol.level \in Nat /\ sol.next \in Nat
  BY DEF WellDated, IsPartialSolution
<1>1. \A q \in mentioned :
         /\ info(q).gi \in Nat /\ info(q).gi <= sol.next
         /\ info(q).dl \in Nat /\ info(q).dl <= sol.level
         /\ info(q).cause \in ids \cup {NoCause}
  BY <1>0, FindSatisfierType DEF WellDated
<1>2. CASE mentioned = {}
  BY <1>2, PackagesAssumption DEF SatisfierSearch, NoCause
<1>3. CASE mentioned # {}
  <2>1. found = [package |-> pkg, dl |-> info(pkg).dl, cause |-> info(pkg).cause,
                 previous_dl |-> Max(others)]
    BY <1>3 DEF SatisfierSearch
  <2> HIDE DEF info, found
  <2>2. latest # {}
    <3> DEFINE dates == {info(q).gi : q \in mentioned}
    <3>1. /\ dates \in SUBSET Nat /\ dates # {}
          /\ \A x \in dates : x <= sol.next
      BY <1>1, <1>3
    <3>2. Max(dates) \in dates /\ \A x \in dates : Max(dates) >= x
      BY <1>0, <3>1, MaxOfNat
    <3>3. PICK q \in mentioned : info(q).gi = Max(dates)
      BY <3>2
    <3>4. \A r \in mentioned : info(r).gi <= info(q).gi
      BY <1>1, <3>2, <3>3
    <3> QED BY <3>3, <3>4
  <2>3. pkg \in mentioned
    <3>1. PICK q \in latest : TRUE
      BY <2>2
    <3>2. places # {}
      BY <3>1 DEF ToSet
    <3>3. /\ DOMAIN order = 1..Len(order) /\ Len(order) \in Nat
      BY LenProperties
    <3>4. places \in SUBSET Nat /\ \A i \in places : i <= Len(order)
      BY <3>3
    <3> HIDE DEF places
    <3>5. Max(places) \in places
      BY <3>2, <3>3, <3>4, MaxOfNat
    <3> QED BY <3>5 DEF places
  <2> HIDE DEF pkg
  <2>4. Max(others) \in Nat
    <3>1. others \in SUBSET Nat /\ others # {} /\ \A x \in others : x <= sol.level
      BY <1>0, <1>1
    <3> HIDE DEF others
    <3>2. Max(others) \in others
      BY <1>0, <3>1, MaxOfNat
    <3> QED BY <3>1, <3>2
  <2> HIDE DEF others
  <2>5. pkg \in Package
    BY <2>3 DEF WellDated, IsPartialSolution
  <2>6. /\ found.package = pkg /\ found.dl = info(pkg).dl
        /\ found.cause = info(pkg).cause /\ found.previous_dl = Max(others)
    BY <2>1
  <2>7. /\ found.package \in Package
        /\ found.dl \in Nat /\ found.previous_dl \in Nat
        /\ found.cause \in ids \cup {NoCause}
        /\ found.package \in DOMAIN inc.terms
    BY <1>1, <2>3, <2>4, <2>5, <2>6
  <2> QED BY <2>7 DEF found
<1> QED BY <1>2, <1>3

-----------------------------------------------------------------------------
(* The index of watched literals stays well formed.                        *)

\* The index of a store of n incompatibilities.
WellIndexed(wi, n) ==
    /\ wi \in [lists: [Package -> Seq(1..n)],
                  watched: Seq(Package \X Package), learned: Seq(1..n)]
    /\ Len(wi.watched) = n

\* Vec::swap_remove adds nothing.
LEMMA SwapRemoveType ==
    ASSUME NEW S, NEW s \in Seq(S), NEW id
    PROVE  SwapRemove(s, id) \in Seq(S)
<1> DEFINE places == {k \in 1..Len(s) : s[k] = id}
           i == SelectInSeq(s, LAMBDA e : e = id)
<1>1. i = IF places # {} THEN Min(places) ELSE 0
  BY DEF SelectInSeq
<1>2. CASE places = {}
  BY <1>1, <1>2 DEF SwapRemove
<1>3. CASE places # {}
  <2>1. places \in SUBSET Nat
    OBVIOUS
  <2>2. i \in places
    BY <1>1, <1>3, <2>1, MinOfNat
  <2> HIDE DEF i
  <2>3. i \in 1..Len(s) /\ s # <<>>
    BY <2>2, EmptySeq
  <2>4. Last(s) \in S
    BY <2>3, FrontLastType
  <2>5. [s EXCEPT ![i] = Last(s)] \in Seq(S) /\ [s EXCEPT ![i] = Last(s)] # <<>>
    BY <2>3, <2>4, ExceptSeq, EmptySeq
  <2>6. Front([s EXCEPT ![i] = Last(s)]) \in Seq(S)
    BY <2>5, FrontLastType
  <2> QED BY <2>3, <2>6 DEF SwapRemove, i
<1> QED BY <1>2, <1>3

\* add_watch and remove_watch, for both packages of a pair.
LEMMA WatchPairType ==
    ASSUME NEW S, NEW lists \in [Package -> Seq(S)], NEW pair, NEW id \in S
    PROVE  WatchPair(lists, pair, id) \in [Package -> Seq(S)]
<1>1. ASSUME NEW l \in [Package -> Seq(S)], NEW pkg
      PROVE  AddWatch(l, pkg, id) \in [Package -> Seq(S)]
  BY AppendProperties DEF AddWatch
<1> QED BY <1>1 DEF WatchPair

\* Dropping a pair of watches leaves lists of the same ids.
LEMMA UnwatchPairType ==
    ASSUME NEW S, NEW lists \in [Package -> Seq(S)], NEW pair, NEW id
    PROVE  UnwatchPair(lists, pair, id) \in [Package -> Seq(S)]
<1>1. ASSUME NEW l \in [Package -> Seq(S)], NEW pkg
      PROVE  RemoveWatch(l, pkg, id) \in [Package -> Seq(S)]
  BY SwapRemoveType DEF RemoveWatch
<1> QED BY <1>1 DEF UnwatchPair

\* set_watches.
LEMMA SetWatchesWellIndexed ==
    ASSUME NEW n \in Nat, NEW wi, WellIndexed(wi, n),
           NEW id \in 1..n, NEW a \in Package, NEW b \in Package
    PROVE  WellIndexed(SetWatches(wi, id, a, b), n)
<1> DEFINE old == wi.watched[id]
           lists == WatchPair(UnwatchPair(wi.lists, old, id), <<a, b>>, id)
           watched == [wi.watched EXCEPT ![id] = <<a, b>>]
           new == [lists |-> lists, watched |-> watched, learned |-> wi.learned]
<1>1. CASE old \in {<<a, b>>, <<b, a>>}
  BY <1>1 DEF SetWatches
<1>2. CASE old \notin {<<a, b>>, <<b, a>>}
  <2>1. wi \in [lists: [Package -> Seq(1..n)],
                   watched: Seq(Package \X Package), learned: Seq(1..n)]
    BY DEF WellIndexed
  <2>2. lists \in [Package -> Seq(1..n)]
    BY <2>1, UnwatchPairType, WatchPairType
  <2>3. watched \in Seq(Package \X Package) /\ Len(watched) = n
    BY <2>1, ExceptSeq DEF WellIndexed
  <2>4. SetWatches(wi, id, a, b) =
            [wi EXCEPT !.lists = lists, !.watched = watched]
    BY <1>2, <2>1 DEF SetWatches
  <2> HIDE DEF lists, watched
  <2>5. SetWatches(wi, id, a, b) = new
    BY <2>1, <2>4
  <2>6. WellIndexed(new, n)
    BY <2>1, <2>2, <2>3 DEF WellIndexed
  <2> QED BY <2>5, <2>6
<1> QED BY <1>1, <1>2

\* ensure_watched.
LEMMA EnsureWatchedWellIndexed ==
    ASSUME NEW n \in Nat, NEW wi, WellIndexed(wi, n),
           NEW id \in 1..n, NEW pkg \in Package
    PROVE  WellIndexed(EnsureWatched(wi, id, pkg), n)
<1>1. wi.watched[id] \in Package \X Package
  BY ElementOfSeq DEF WellIndexed
<1>2. wi.watched[id][1] \in Package
  BY <1>1
<1> QED BY <1>2, SetWatchesWellIndexed DEF EnsureWatched

\* gc_learned_watches.
LEMMA GcLearnedWatchesWellIndexed ==
    ASSUME NEW n \in Nat, NEW wi, WellIndexed(wi, n)
    PROVE  WellIndexed(GcLearnedWatches(wi), n)
<1> DEFINE id == Head(wi.learned)
           lists == UnwatchPair(wi.lists, wi.watched[id], id)
<1>1. wi \in [lists: [Package -> Seq(1..n)],
                 watched: Seq(Package \X Package), learned: Seq(1..n)]
  BY DEF WellIndexed
<1>2. CASE Len(wi.learned) <= MaxLearnedWatched
  BY <1>2 DEF GcLearnedWatches
<1>3. CASE ~(Len(wi.learned) <= MaxLearnedWatched)
  <2>1. wi.learned # <<>>
    BY <1>1, <1>3, MaxLearnedAssumption, EmptySeq
  <2>2. Tail(wi.learned) \in Seq(1..n)
    BY <1>1, <2>1, HeadTailProperties
  <2>3. lists \in [Package -> Seq(1..n)]
    BY <1>1, UnwatchPairType
  <2>4. GcLearnedWatches(wi) =
            [wi EXCEPT !.lists = lists, !.learned = Tail(wi.learned)]
    BY <1>1, <1>3 DEF GcLearnedWatches
  <2> HIDE DEF lists
  <2> QED BY <1>1, <2>2, <2>3, <2>4 DEF WellIndexed
<1> QED BY <1>2, <1>3

\* register_incompatibility before it collects garbage.
LEMMA WatchedWellIndexed ==
    ASSUME NEW n \in Nat, NEW wi, WellIndexed(wi, n),
           NEW pair \in Package \X Package
    PROVE  LET new == [wi EXCEPT !.lists = WatchPair(@, pair, n + 1),
                                 !.watched = Append(@, pair)]
           IN  /\ WellIndexed(new, n + 1)
               /\ WellIndexed([new EXCEPT !.learned = Append(@, n + 1)], n + 1)
<1> DEFINE lists == WatchPair(wi.lists, pair, n + 1)
           watched == Append(wi.watched, pair)
           new == [wi EXCEPT !.lists = lists, !.watched = watched]
           noted == [new EXCEPT !.learned = Append(@, n + 1)]
<1>1. /\ wi \in [lists: [Package -> Seq(1..n)],
                    watched: Seq(Package \X Package), learned: Seq(1..n)]
      /\ Len(wi.watched) = n
  BY DEF WellIndexed
<1>2. 1..n \subseteq 1..(n + 1) /\ n + 1 \in 1..(n + 1)
  OBVIOUS
<1>3. /\ wi.lists \in [Package -> Seq(1..(n + 1))]
      /\ wi.learned \in Seq(1..(n + 1))
  <2>1. \A q \in Package : wi.lists[q] \in Seq(1..n)
    BY <1>1
  <2>2. \A s \in Seq(1..n) : s \in Seq(1..(n + 1))
    BY <1>2, SeqMonotonic
  <2> QED BY <1>1, <2>1, <2>2
<1>4. lists \in [Package -> Seq(1..(n + 1))]
  BY <1>2, <1>3, WatchPairType
<1>5. watched \in Seq(Package \X Package) /\ Len(watched) = n + 1
  BY <1>1, AppendProperties
<1>6. Append(wi.learned, n + 1) \in Seq(1..(n + 1))
  BY <1>2, <1>3, AppendProperties
<1> HIDE DEF lists, watched
<1>7. /\ new = [lists |-> lists, watched |-> watched, learned |-> wi.learned]
      /\ noted = [lists |-> lists, watched |-> watched,
                  learned |-> Append(wi.learned, n + 1)]
  <2>1. new = [lists |-> lists, watched |-> watched, learned |-> wi.learned]
    <3>1. wi = [lists |-> wi.lists, watched |-> wi.watched,
                   learned |-> wi.learned]
      BY <1>1
    <3>2. new = [wi EXCEPT !.lists = lists, !.watched = watched]
      OBVIOUS
    <3> HIDE DEF new
    <3> QED BY <3>1, <3>2
  <2>2. noted = [new EXCEPT !.learned = Append(wi.learned, n + 1)]
    BY <2>1
  <2> HIDE DEF new, noted
  <2> QED BY <2>1, <2>2
<1>8. WellIndexed(new, n + 1) /\ WellIndexed(noted, n + 1)
  BY <1>3, <1>4, <1>5, <1>6, <1>7 DEF WellIndexed
<1>9. /\ new = [wi EXCEPT !.lists = WatchPair(@, pair, n + 1),
                          !.watched = Append(@, pair)]
      /\ noted = [new EXCEPT !.learned = Append(@, n + 1)]
  BY DEF lists, watched
<1> HIDE DEF new, noted
<1> QED BY <1>8, <1>9

\* register_incompatibility.
LEMMA RegisterWatchesWellIndexed ==
    ASSUME NEW n \in Nat, NEW wi, WellIndexed(wi, n),
           NEW pair \in Package \X Package, NEW isDerived \in BOOLEAN
    PROVE  WellIndexed(RegisterWatches(wi, n + 1, pair, isDerived), n + 1)
<1> DEFINE new == [wi EXCEPT !.lists = WatchPair(@, pair, n + 1),
                             !.watched = Append(@, pair)]
           noted == [new EXCEPT !.learned = Append(@, n + 1)]
<1>1. WellIndexed(new, n + 1) /\ WellIndexed(noted, n + 1)
  BY WatchedWellIndexed
<1>2. RegisterWatches(wi, n + 1, pair, isDerived) =
         IF isDerived THEN GcLearnedWatches(noted) ELSE new
  BY DEF RegisterWatches
<1> HIDE DEF new, noted
<1>3. WellIndexed(GcLearnedWatches(noted), n + 1)
  BY <1>1, GcLearnedWatchesWellIndexed
<1> QED BY <1>1, <1>2, <1>3

-----------------------------------------------------------------------------
(* The inductive invariant.                                                *)

\* No version of a package of idx depends on the package itself.
SelfFree(idx) ==
    \A q \in Package, v \in Version : \A d \in ToSet(Requirements(idx, q, v)) :
        d.package # q

Incompatibility ==
    [terms: UNION {[S -> Term] : S \in SUBSET Package}, kind: Kind]

Ids == 1..Len(store)

\* What a derivation can have as its cause: anything but NotRoot.
Causes == 2..Len(store)

\* The project is decided at level 1 and at nothing else, or, after a
\* backjump that refuted it, has been derived to be out at level 0.
RootStands(pa) ==
    \/ /\ pa.decision.version = RootVersion
       /\ pa.derivations = <<>>
       /\ pa.smallest_dl = 1 /\ pa.highest_dl = 1
    \/ /\ pa.decision.version = None
       /\ pa.smallest_dl = 0
       /\ pa.derivations # <<>> /\ pa.derivations[1].dl = 0
       /\ \A i \in DOMAIN pa.derivations :
             pa.derivations[i].term = Negative({RootVersion})

StoreInv ==
    /\ known \in Seq(Package)
    /\ store \in Seq(Incompatibility) /\ Len(store) >= 1
    /\ WellIndexed(watch, Len(store))
    /\ \A id \in Ids : /\ DOMAIN store[id].terms # {}
                       /\ DOMAIN store[id].terms \subseteq ToSet(known)
    /\ store[1] = NotRoot
    /\ \A id \in Causes : Root \in DOMAIN store[id].terms =>
          store[id].terms[Root] = Positive({RootVersion})

TrailInv ==
    /\ WellDated(ps, Causes)
    /\ DOMAIN ps.assigned \subseteq ToSet(known)
    /\ Root \in DOMAIN ps.assigned
    /\ RootStands(ps.assigned[Root])

ControlInv ==
    /\ index \in PackageIndex
    /\ added \subseteq [package: Package, version: Version]
    /\ pc \in Phase
    /\ choice \in [package: Package, version: Version]
    /\ choice.package \in ToSet(known)
    /\ choice.package = Root => choice.version = RootVersion
    /\ nextDep \in Nat \ {0}
    /\ buffer \in Seq(Package)
    /\ current \in Package
    /\ watchers \in Seq(Ids)
    /\ conflict \in {0} \cup Ids
    /\ pc = "analyse" => conflict \in Ids

Inv == StoreInv /\ TrailInv /\ ControlInv

\* No incompatibility but NotRoot excludes the empty assignment: each has a
\* positive term, and so at least one term.
Positively == \A id \in Causes : ~Violates(Nothing, store[id])

SoundInv ==
    SelfFree(index) => StoreEntailed /\ Positively /\ pc # "panicked"

-----------------------------------------------------------------------------
(* Incompatibilities and their watches.                                    *)

\* The set of incompatibilities is what the type invariant says.
LEMMA IncompatibilityDef ==
    ASSUME NEW inc
    PROVE  IsIncompatibility(inc) <=> inc \in Incompatibility
<1>1. ASSUME IsIncompatibility(inc)
      PROVE  inc \in Incompatibility
  BY <1>1 DEF IsIncompatibility, Incompatibility
<1>2. ASSUME inc \in Incompatibility
      PROVE  IsIncompatibility(inc)
  <2>1. PICK S \in SUBSET Package : inc.terms \in [S -> Term]
    BY <1>2 DEF Incompatibility
  <2>2. DOMAIN inc.terms = S
    BY <2>1
  <2> QED BY <1>2, <2>1, <2>2 DEF IsIncompatibility, Incompatibility
<1> QED BY <1>1, <1>2

\* The lowest member of a set of packages of which one has an id.
LEMMA LowestType ==
    ASSUME NEW order \in Seq(Package), NEW S, S \cap ToSet(order) # {}
    PROVE  Lowest(order, S) \in S /\ Lowest(order, S) \in Package
<1> DEFINE places == {i \in DOMAIN order : order[i] \in S}
<1>1. places \in SUBSET Nat /\ places # {}
  BY LenProperties DEF ToSet
<1> HIDE DEF places
<1>2. Min(places) \in places
  BY <1>1, MinOfNat
<1>3. Min(places) \in DOMAIN order /\ order[Min(places)] \in S
  BY <1>2 DEF places
<1>4. order[Min(places)] \in Package
  BY <1>3, LenProperties, ElementOfSeq
<1> QED BY <1>3, <1>4 DEF Lowest, places

\* pick_initial_watches picks two packages (or one twice).
LEMMA InitialWatchesType ==
    ASSUME NEW inc, NEW order \in Seq(Package),
           DOMAIN inc.terms # {}, DOMAIN inc.terms \subseteq ToSet(order)
    PROVE  InitialWatches(inc, order) \in Package \X Package
<1> DEFINE open == Unsatisfied(inc)
           first == Lowest(order, IF open = {} THEN DOMAIN inc.terms ELSE open)
           others == IF open \ {first} = {} THEN DOMAIN inc.terms \ {first}
                     ELSE open \ {first}
<1>1. open \subseteq DOMAIN inc.terms
  BY DEF Unsatisfied
<1> HIDE DEF open
<1>2. first \in Package
  BY <1>1, LowestType
<1> HIDE DEF first
<1>3. others \subseteq ToSet(order)
  BY <1>1
<1> HIDE DEF others
<1>4. CASE open = {} \/ others = {}
  BY <1>2, <1>4 DEF InitialWatches, open, first, others
<1>5. CASE ~(open = {} \/ others = {})
  <2>1. Lowest(order, others) \in Package
    BY <1>3, <1>5, LowestType
  <2> QED BY <1>2, <1>5, <2>1 DEF InitialWatches, open, first, others
<1> QED BY <1>4, <1>5

\* register_incompatibility appends to the store and leaves the rest of it.
LEMMA RegisterStore ==
    ASSUME StoreInv, NEW inc, IsIncompatibility(inc),
           known' \in Seq(Package), ToSet(known) \subseteq ToSet(known'),
           DOMAIN inc.terms # {}, DOMAIN inc.terms \subseteq ToSet(known'),
           Root \in DOMAIN inc.terms => inc.terms[Root] = Positive({RootVersion}),
           Register(inc, known')
    PROVE  /\ StoreInv'
           /\ Len(store') = Len(store) + 1
           /\ \A id \in Ids : store'[id] = store[id]
           /\ store'[Len(store) + 1] = inc
<1>1. inc \in Incompatibility
  BY IncompatibilityDef
<1>2. /\ store' \in Seq(Incompatibility)
      /\ Len(store') = Len(store) + 1 /\ Len(store) \in Nat
      /\ \A id \in Ids : store'[id] = store[id]
      /\ store'[Len(store) + 1] = inc
  BY <1>1, AppendProperties, LenProperties DEF StoreInv, Register, Ids
<1>3. InitialWatches(inc, known') \in Package \X Package
  BY InitialWatchesType
<1>4. WellIndexed(watch', Len(store'))
  BY <1>2, <1>3, RegisterWatchesWellIndexed DEF StoreInv, Register
<1>5. \A id \in Ids' : id \in Ids \/ id = Len(store) + 1
  BY <1>2 DEF Ids
<1>6. \A id \in Ids' : /\ DOMAIN store'[id].terms # {}
                       /\ DOMAIN store'[id].terms \subseteq ToSet(known')
  BY <1>2, <1>5 DEF StoreInv
<1>7. 1 \in Ids
  BY <1>2 DEF StoreInv, Ids
<1>8. \A id \in Causes' : Root \in DOMAIN store'[id].terms =>
          store'[id].terms[Root] = Positive({RootVersion})
  <2>1. \A id \in Causes' : id \in Causes \/ id = Len(store) + 1
    BY <1>2 DEF Causes
  <2>2. \A id \in Causes : id \in Ids
    BY <1>2 DEF Causes, Ids
  <2> QED BY <1>2, <2>1, <2>2 DEF StoreInv
<1>9. store'[1] = NotRoot
  BY <1>2, <1>7 DEF StoreInv
<1>10. Len(store') >= 1
  BY <1>2 DEF StoreInv
<1> QED BY <1>2, <1>4, <1>6, <1>8, <1>9, <1>10 DEF StoreInv

-----------------------------------------------------------------------------
(* The project on the trail.                                               *)

Stands(p) == Root \in DOMAIN p.assigned /\ RootStands(p.assigned[Root])

\* add_decision and add_derivation leave the other packages alone.
LEMMA DecideOthers ==
    ASSUME NEW p, NEW pkg, NEW version
    PROVE  LET new == AddDecision(p, pkg, version)
           IN  /\ DOMAIN new.assigned = DOMAIN p.assigned \cup {pkg}
               /\ \A q \in DOMAIN p.assigned \ {pkg} :
                     new.assigned[q] = p.assigned[q]
BY DEF AddDecision, Put

\* add_derivation changes the assignment of its own package only.
LEMMA DeriveOthers ==
    ASSUME NEW p, IsPartialSolution(p), NEW pkg, NEW cause, NEW term
    PROVE  LET new == AddDerivation(p, pkg, cause, term)
           IN  /\ DOMAIN p.assigned \subseteq DOMAIN new.assigned
               /\ DOMAIN new.assigned \subseteq DOMAIN p.assigned \cup {pkg}
               /\ \A q \in DOMAIN p.assigned \ {pkg} :
                     new.assigned[q] = p.assigned[q]
<1> DEFINE new == AddDerivation(p, pkg, cause, term)
<1>1. \/ new.assigned = p.assigned
      \/ \E pa : new.assigned = Put(p.assigned, pkg, pa)
  BY DEF AddDerivation, IsPartialSolution
<1> HIDE DEF new
<1>2. /\ DOMAIN p.assigned \subseteq DOMAIN new.assigned
      /\ DOMAIN new.assigned \subseteq DOMAIN p.assigned \cup {pkg}
      /\ \A q \in DOMAIN p.assigned \ {pkg} : new.assigned[q] = p.assigned[q]
  BY <1>1 DEF Put
<1> QED BY <1>2 DEF new

\* A derivation for the project either meets its decision and does nothing,
\* or says again that the project is out.
LEMMA DeriveStands ==
    ASSUME NEW p, IsPartialSolution(p), Stands(p), NEW cause, NEW term,
           NEW pkg, pkg = Root => term = Negative({RootVersion})
    PROVE  Stands(AddDerivation(p, pkg, cause, term))
<1> DEFINE new == AddDerivation(p, pkg, cause, term)
           pa == p.assigned[Root]
           ds == pa.derivations
           dated == [gi |-> p.next, dl |-> p.level, cause |-> cause,
                     term |-> Intersection(Accumulated(pa), term)]
           grown == [pa EXCEPT !.derivations = Append(ds, dated),
                               !.highest_dl = p.level]
<1>1. CASE pkg # Root
  BY <1>1, DeriveOthers DEF Stands
<1>2. CASE pkg = Root
  <2>1. Entry(p, Root, p.level) = pa
    BY DEF Entry, IsAssigned, Stands
  <2>2. CASE Decided(pa)
    <3>1. new.assigned = p.assigned
      BY <1>2, <2>1, <2>2 DEF AddDerivation, IsPartialSolution
    <3> QED BY <3>1 DEF Stands
  <2>3. CASE ~Decided(pa)
    <3>1. pa \in PackageAssignment
      BY DEF IsPartialSolution, Stands
    <3>2. new.assigned = Put(p.assigned, Root, grown)
      BY <1>2, <2>1, <2>3 DEF AddDerivation, IsPartialSolution
    <3> HIDE DEF dated
    <3>3. /\ grown.derivations = Append(ds, dated)
          /\ grown.decision = pa.decision /\ grown.smallest_dl = pa.smallest_dl
      BY <3>1 DEF PackageAssignment
    <3> HIDE DEF grown, new
    <3>4. /\ pa.decision.version = None /\ pa.smallest_dl = 0
          /\ ds # <<>> /\ ds[1].dl = 0
          /\ \A i \in DOMAIN ds : ds[i].term = Negative({RootVersion})
      BY <2>3, PackagesAssumption DEF Stands, RootStands, Decided
    <3>5. ds \in Seq(DatedDerivation)
      BY <3>1 DEF PackageAssignment
    <3>6. Last(ds).term = Negative({RootVersion})
      BY <3>4, <3>5, FrontLastType DEF Last
    <3>7. dated.term = Negative({RootVersion})
      <4>1. Accumulated(pa) = Negative({RootVersion})
        BY <3>4, <3>6 DEF Accumulated
      <4>2. Intersection(Negative({RootVersion}), Negative({RootVersion}))
                = Negative({RootVersion})
        BY DEF Intersection, Negative
      <4> QED BY <1>2, <4>1, <4>2 DEF dated
    <3> DEFINE as == Append(ds, dated)
    <3>8. /\ DOMAIN ds = 1..Len(ds) /\ Len(ds) \in Nat \ {0}
          /\ as # <<>>
          /\ DOMAIN as = 1..(Len(ds) + 1)
          /\ \A i \in 1..Len(ds) : as[i] = ds[i]
          /\ as[Len(ds) + 1] = dated
      <4>1. ds \in Seq(DatedDerivation \cup {dated}) /\ DOMAIN ds = 1..Len(ds)
            /\ Len(ds) \in Nat \ {0}
        BY <3>4, <3>5, SeqMonotonic, LenProperties, EmptySeq
      <4> HIDE DEF ds
      <4>2. /\ as \in Seq(DatedDerivation \cup {dated}) /\ as # <<>>
            /\ Len(as) = Len(ds) + 1
            /\ \A i \in 1..Len(ds) : as[i] = ds[i]
            /\ as[Len(ds) + 1] = dated
        BY <4>1, AppendProperties
      <4> HIDE DEF as
      <4> QED BY <4>1, <4>2, LenProperties
    <3> HIDE DEF as, ds
    <3>8a. \A i \in DOMAIN as : i \in DOMAIN ds \/ i = Len(ds) + 1
      BY <3>8
    <3>9. \A i \in DOMAIN as : as[i].term = Negative({RootVersion})
      BY <3>4, <3>7, <3>8, <3>8a
    <3>10. as[1].dl = 0
      <4>1. 1 \in 1..Len(ds)
        BY <3>8
      <4> QED BY <3>4, <3>8, <4>1
    <3>11. RootStands(grown)
      BY <3>3, <3>4, <3>8, <3>9, <3>10 DEF RootStands, as
    <3> QED BY <3>2, <3>11 DEF Stands, Put, new
  <2> QED BY <2>2, <2>3 DEF new
<1> QED BY <1>1, <1>2

\* At level 0, with the project undone, it is derived to be out ...
LEMMA DeriveRootOut ==
    ASSUME NEW p, IsPartialSolution(p), Root \notin DOMAIN p.assigned,
           p.level = 0, NEW cause
    PROVE  Stands(AddDerivation(p, Root, cause, Negative({RootVersion})))
<1> DEFINE fresh == [decision |-> NoDecision, derivations |-> <<>>,
                     smallest_dl |-> 0, highest_dl |-> 0]
           dated == [gi |-> p.next, dl |-> 0, cause |-> cause,
                     term |-> Negative({RootVersion})]
           grown == [fresh EXCEPT !.derivations = <<dated>>, !.highest_dl = 0]
<1>1. Entry(p, Root, p.level) = fresh
  BY DEF Entry, IsAssigned
<1>2. ~Decided(fresh) /\ Accumulated(fresh) = AnyTerm
  BY DEF Decided, NoDecision, Accumulated
<1>3. Intersection(AnyTerm, Negative({RootVersion})) = Negative({RootVersion})
  BY DEF Intersection, AnyTerm, Negative
<1>4. AddDerivation(p, Root, cause, Negative({RootVersion})).assigned =
          Put(p.assigned, Root,
              [fresh EXCEPT !.derivations = Append(@, dated), !.highest_dl = p.level])
  BY <1>1, <1>2, <1>3 DEF AddDerivation, IsPartialSolution
<1>5. [fresh EXCEPT !.derivations = Append(@, dated), !.highest_dl = p.level] = grown
  <2>1. Append(<<>>, dated) = <<dated>>
    OBVIOUS
  <2> HIDE DEF dated
  <2>2. fresh.derivations = <<>>
    OBVIOUS
  <2> HIDE DEF fresh
  <2> QED BY <2>1, <2>2
<1>6. RootStands(grown)
  <2> HIDE DEF dated
  <2>1. /\ grown.decision = NoDecision /\ grown.smallest_dl = 0
        /\ grown.derivations = <<dated>>
    OBVIOUS
  <2>2. dated.dl = 0 /\ dated.term = Negative({RootVersion})
    BY DEF dated
  <2> HIDE DEF grown
  <2> QED BY <2>1, <2>2 DEF RootStands, NoDecision
<1> QED BY <1>4, <1>5, <1>6 DEF Stands, Put

\* ... or decided again at level 1.
LEMMA DecideRootStands ==
    ASSUME NEW p, Root \notin DOMAIN p.assigned, p.level = 0
    PROVE  Stands(AddDecision(p, Root, RootVersion))
<1> DEFINE fresh == [decision |-> NoDecision, derivations |-> <<>>,
                     smallest_dl |-> 1, highest_dl |-> 1]
           decision == [dl |-> 1, version |-> RootVersion, gi |-> p.next]
           pa == [fresh EXCEPT !.decision = decision, !.highest_dl = 1]
<1>0. p.level + 1 = 1
  OBVIOUS
<1>1. Entry(p, Root, 1) = fresh
  BY DEF Entry, IsAssigned
<1> HIDE DEF fresh
<1>2. AddDecision(p, Root, RootVersion).assigned = Put(p.assigned, Root, pa)
  BY <1>0, <1>1 DEF AddDecision
<1>3. /\ pa.decision = decision /\ pa.derivations = <<>>
      /\ pa.smallest_dl = 1 /\ pa.highest_dl = 1
  BY DEF fresh
<1>4. RootStands(pa)
  BY <1>3 DEF RootStands
<1> QED BY <1>2, <1>4 DEF Stands, Put

\* backtrack undoes the project only on the way to level 0.
LEMMA BacktrackStands ==
    ASSUME NEW p, IsPartialSolution(p), Stands(p), NEW target \in Nat
    PROVE  LET new == Backtrack(p, target)
           IN  /\ new.level = target
               /\ DOMAIN new.assigned \subseteq DOMAIN p.assigned
               /\ Root \in DOMAIN new.assigned => Stands(new)
               /\ Root \notin DOMAIN new.assigned => target = 0
<1> DEFINE new == Backtrack(p, target)
           pa == p.assigned[Root]
           ds == pa.derivations
           low == {i \in DOMAIN ds : ds[i].dl <= target}
           kept == Max({0} \cup low)
<1>1. /\ new.level = target
      /\ new.assigned =
            [q \in {r \in DOMAIN p.assigned : p.assigned[r].smallest_dl <= target} |->
                IF p.assigned[q].highest_dl <= target THEN p.assigned[q]
                ELSE UndoAbove(p.assigned[q], target)]
  BY DEF Backtrack, IsPartialSolution
<1> HIDE DEF new
<1>2. DOMAIN new.assigned \subseteq DOMAIN p.assigned
  BY <1>1
<1>3. pa \in PackageAssignment
  BY DEF Stands, IsPartialSolution
<1>4. CASE pa.smallest_dl = 1 /\ pa.highest_dl = 1
  <2>1. Root \in DOMAIN new.assigned => new.assigned[Root] = pa
    BY <1>1, <1>4
  <2> QED BY <1>1, <1>2, <1>4, <2>1 DEF Stands, new
<1>5. CASE ~(pa.smallest_dl = 1 /\ pa.highest_dl = 1)
  <2>1. /\ pa.decision.version = None /\ pa.smallest_dl = 0
        /\ ds # <<>> /\ ds[1].dl = 0
        /\ \A i \in DOMAIN ds : ds[i].term = Negative({RootVersion})
    BY <1>5 DEF Stands, RootStands
  <2>2. Root \in DOMAIN new.assigned
    BY <1>1, <2>1 DEF Stands
  <2>3. CASE pa.highest_dl <= target
    <3>1. new.assigned[Root] = pa
      BY <1>1, <2>2, <2>3
    <3> QED BY <1>1, <1>2, <2>2, <3>1 DEF Stands, new
  <2>4. CASE ~(pa.highest_dl <= target)
    <3>1. new.assigned[Root] = UndoAbove(pa, target)
      BY <1>1, <2>2, <2>4
    <3>2. ds \in Seq(DatedDerivation) /\ DOMAIN ds = 1..Len(ds)
          /\ Len(ds) \in Nat \ {0}
      BY <1>3, <2>1, LenProperties, EmptySeq DEF PackageAssignment
    <3>3. 1 \in low /\ low \subseteq 1..Len(ds)
      BY <2>1, <3>2
    <3> HIDE DEF low
    <3>4. kept \in {0} \cup low /\ \A i \in {0} \cup low : kept >= i
      <4>1. /\ {0} \cup low \in SUBSET Nat /\ {0} \cup low # {}
            /\ \A x \in {0} \cup low : x <= Len(ds)
        BY <3>2, <3>3
      <4> QED BY <3>2, <4>1, MaxOfNat
    <3> HIDE DEF kept
    <3>5. kept \in 1..Len(ds)
      BY <3>2, <3>3, <3>4
    <3> DEFINE front == SubSeq(ds, 1, kept)
    <3>6. /\ DOMAIN front = 1..kept /\ front # <<>>
          /\ \A i \in 1..kept : front[i] = ds[i]
      <4>1. /\ front \in Seq(DatedDerivation) /\ Len(front) = kept
            /\ \A i \in 1..kept : front[i] = ds[i]
        BY <3>2, <3>5, PrefixType
      <4> QED BY <3>2, <3>5, <4>1, LenProperties, EmptySeq
    <3> DEFINE undone == UndoAbove(pa, target)
    <3>7. /\ undone.decision = NoDecision /\ undone.smallest_dl = pa.smallest_dl
          /\ undone.derivations = front
      BY <1>3 DEF UndoAbove, PackageAssignment, kept, low
    <3> HIDE DEF front, undone
    <3>8. \A i \in DOMAIN front : front[i].term = Negative({RootVersion})
      <4>1. \A i \in 1..kept : i \in DOMAIN ds
        BY <3>2, <3>5
      <4> QED BY <2>1, <3>6, <4>1
    <3>9. front[1].dl = 0
      BY <2>1, <3>5, <3>6
    <3>10. RootStands(undone)
      <4>1. undone.decision.version = None
        BY <3>7 DEF NoDecision
      <4> QED BY <2>1, <3>6, <3>7, <3>8, <3>9, <4>1 DEF RootStands
    <3> QED BY <1>1, <1>2, <2>2, <3>1, <3>10 DEF Stands, undone, new
  <2> QED BY <2>3, <2>4
<1> QED BY <1>4, <1>5

-----------------------------------------------------------------------------
(* The parts of the invariant under the changes that actions make.         *)

\* The trail while the store and the ids may grow.
LEMMA TrailKept ==
    ASSUME StoreInv, TrailInv, ps' = ps, Len(store') \in Nat,
           Len(store) <= Len(store'), ToSet(known) \subseteq ToSet(known')
    PROVE  TrailInv'
<1>1. Len(store) \in Nat /\ Causes \subseteq Causes'
  BY LenProperties DEF StoreInv, Causes
<1>2. ps.level \in Nat /\ ps.next \in Nat
  BY DEF TrailInv, WellDated, IsPartialSolution
<1>3. \A q \in DOMAIN ps.assigned :
         WellDatedAssignment(ps.assigned[q], ps.level, ps.next, Causes')
  BY <1>1, <1>2, LaterWellDated DEF TrailInv, WellDated
<1>4. WellDated(ps', Causes')
  BY <1>3 DEF TrailInv, WellDated
<1> QED BY <1>4 DEF TrailInv

\* The trail when another package than the project is decided.
LEMMA TrailDecided ==
    ASSUME TrailInv, NEW pkg \in Package, pkg # Root, pkg \in ToSet(known),
           NEW version \in Version, ps' = AddDecision(ps, pkg, version),
           UNCHANGED <<known, store>>
    PROVE  TrailInv'
<1>1. WellDated(ps', Causes)
  BY AddDecisionWellDated DEF TrailInv, Choice
<1>2. /\ DOMAIN ps'.assigned = DOMAIN ps.assigned \cup {pkg}
      /\ \A q \in DOMAIN ps.assigned \ {pkg} : ps'.assigned[q] = ps.assigned[q]
  BY DecideOthers
<1> QED BY <1>1, <1>2 DEF TrailInv, Causes

\* The identifiers that the control variables hold stay valid.
LEMMA IdsGrow ==
    ASSUME StoreInv, ControlInv, Len(store') \in Nat, Len(store) <= Len(store')
    PROVE  Ids \subseteq Ids' /\ watchers \in Seq(Ids')
<1>1. Len(store) \in Nat /\ Ids \subseteq Ids'
  BY LenProperties DEF StoreInv, Ids
<1> QED BY <1>1, SeqMonotonic DEF ControlInv

\* An undecided package has an id, is not the project, and has a range.
LEMMA UndecidedType ==
    ASSUME StoreInv, TrailInv, NEW pkg \in Undecided(ps)
    PROVE  /\ pkg \in Package /\ pkg \in ToSet(known) /\ pkg # Root
           /\ RangeOf(pkg) \in SUBSET Version
<1>1. /\ pkg \in DOMAIN ps.assigned /\ ~Decided(ps.assigned[pkg])
      /\ Accumulated(ps.assigned[pkg]).pos
  BY DEF Undecided
<1>2. /\ pkg \in Package /\ ps.assigned[pkg] \in PackageAssignment
  BY <1>1 DEF TrailInv, WellDated, IsPartialSolution
<1>3. RangeOf(pkg) \in SUBSET Version
  BY <1>2, AccumulatedType DEF RangeOf, Term
<1>4. ASSUME pkg = Root PROVE FALSE
  <2> DEFINE ds == ps.assigned[Root].derivations
  <2>1. /\ ds # <<>>
        /\ \A i \in DOMAIN ds : ds[i].term = Negative({RootVersion})
    BY <1>1, <1>4, PackagesAssumption DEF TrailInv, RootStands, Decided
  <2>2. ds \in Seq(DatedDerivation)
    BY <1>2, <1>4 DEF PackageAssignment
  <2>3. Last(ds).term = Negative({RootVersion})
    BY <2>1, <2>2, FrontLastType DEF Last
  <2> QED BY <1>1, <1>4, <2>1, <2>3 DEF Accumulated, Negative
<1> QED BY <1>1, <1>2, <1>3, <1>4 DEF TrailInv

\* The preferred version of a package is one that its index offers.
LEMMA PreferredType ==
    ASSUME ControlInv, NEW pkg \in Package, InRange(pkg) # {}
    PROVE  /\ Preferred(pkg) \in [package: Package, version: Version]
           /\ Preferred(pkg).package = pkg /\ Preferred(pkg).version \in Version
<1>1. index.offers[pkg] \in Seq(Version)
  BY DEF ControlInv, PackageIndex
<1>2. InRange(pkg) \in SUBSET Nat /\ InRange(pkg) \subseteq DOMAIN index.offers[pkg]
  BY <1>1, LenProperties DEF InRange
<1>3. Min(InRange(pkg)) \in DOMAIN index.offers[pkg]
  BY <1>2, MinOfNat
<1>4. index.offers[pkg][Min(InRange(pkg))] \in Version
  BY <1>1, <1>3, LenProperties, ElementOfSeq
<1> QED BY <1>4 DEF Preferred

\* NotRoot never becomes unit: the project satisfies or contradicts it.
LEMMA NotRootNeverUnit ==
    ASSUME StoreInv, TrailInv
    PROVE  ~AlmostSatisfied(store[1], Root)
<1> DEFINE pa == ps.assigned[Root]
           ds == pa.derivations
<1>1. RelationOf(store[1], Root) =
          RelationWith(TermFor(ps, Root), Negative({RootVersion}))
  BY DEF StoreInv, NotRoot, RelationOf
<1>2. CASE pa.decision.version = RootVersion
  <2>1. TermFor(ps, Root) = Positive({RootVersion})
    BY <1>2, PackagesAssumption DEF TermFor, Decided, IsAssigned, TrailInv
  <2> QED BY <1>1, <2>1
          DEF AlmostSatisfied, RelationWith, SubsetOf, IsDisjoint, Positive, Negative
<1>3. CASE pa.decision.version # RootVersion
  <2>1. /\ pa.decision.version = None /\ ds # <<>>
        /\ \A i \in DOMAIN ds : ds[i].term = Negative({RootVersion})
    BY <1>3 DEF TrailInv, RootStands
  <2>2. ds \in Seq(DatedDerivation)
    BY DEF TrailInv, WellDated, IsPartialSolution, PackageAssignment
  <2>3. Last(ds).term = Negative({RootVersion})
    BY <2>1, <2>2, FrontLastType DEF Last
  <2>4. TermFor(ps, Root) = Negative({RootVersion})
    BY <2>1, <2>3 DEF TermFor, Decided, IsAssigned, TrailInv, Accumulated
  <2> QED BY <1>1, <2>4 DEF AlmostSatisfied, RelationWith, SubsetOf, Negative
<1> QED BY <1>2, <1>3

\* The term of an incompatibility that can become a cause, negated for the
\* trail.
LEMMA NegatedTermType ==
    ASSUME StoreInv, NEW id \in Ids, NEW pkg \in DOMAIN store[id].terms
    PROVE  /\ pkg \in Package /\ pkg \in ToSet(known)
           /\ Negate(store[id].terms[pkg]) \in Term
           /\ id \in Causes /\ pkg = Root =>
                 Negate(store[id].terms[pkg]) = Negative({RootVersion})
<1>1. IsIncompatibility(store[id])
  BY ElementOfSeq, IncompatibilityDef DEF StoreInv, Ids
<1>2. pkg \in Package /\ store[id].terms[pkg] \in Term
  BY <1>1 DEF IsIncompatibility
<1>3. Negate(store[id].terms[pkg]) \in Term
  BY <1>2, TermTypes
<1>4. Negate(Positive({RootVersion})) = Negative({RootVersion})
  BY DEF Negate, Positive, Negative
<1>5. pkg \in ToSet(known)
  BY DEF StoreInv
<1>6. id \in Causes /\ pkg = Root =>
         store[id].terms[pkg] = Positive({RootVersion})
  BY DEF StoreInv
<1> QED BY <1>2, <1>3, <1>4, <1>5, <1>6

-----------------------------------------------------------------------------
(* The invariant, action by action.                                        *)

\* SolverState::new and not_root establish the invariant.
LEMMA InitInv == Init => Inv
<1> SUFFICES ASSUME Init PROVE Inv
  OBVIOUS
<1> USE DEF Init
<1>1. index \in PackageIndex
  BY PackagesAssumption
<1>2. /\ known \in Seq(Package) /\ ToSet(known) = {Root}
  BY PackagesAssumption DEF ToSet
<1>3. StoreInv
  <2>1. NotRoot \in Incompatibility
    BY NotRootType, IncompatibilityDef
  <2>2. store \in Seq(Incompatibility) /\ Len(store) = 1 /\ store[1] = NotRoot
    BY <2>1
  <2>3. WellIndexed(EmptyIndex, 0)
    BY EmptySeq DEF WellIndexed, EmptyIndex
  <2>4. WellIndexed(watch, 1)
    <3>1. <<Root, Root>> \in Package \X Package
      BY PackagesAssumption
    <3>2. WellIndexed(RegisterWatches(EmptyIndex, 0 + 1, <<Root, Root>>, FALSE), 0 + 1)
      BY <2>3, <3>1, RegisterWatchesWellIndexed
    <3>3. watch = RegisterWatches(EmptyIndex, 1, <<Root, Root>>, FALSE)
      OBVIOUS
    <3>4. 0 + 1 = 1
      OBVIOUS
    <3> HIDE DEF Init
    <3> QED BY <3>2, <3>3, <3>4
  <2>5. DOMAIN NotRoot.terms = {Root}
    BY DEF NotRoot
  <2>6. Ids = {1} /\ Causes = {}
    BY <2>2 DEF Ids, Causes
  <2> HIDE DEF Init
  <2>7. \A id \in Ids : /\ DOMAIN store[id].terms # {}
                        /\ DOMAIN store[id].terms \subseteq ToSet(known)
    BY <1>2, <2>2, <2>5, <2>6
  <2>8. WellIndexed(watch, Len(store)) /\ Len(store) >= 1
    BY <2>2, <2>4
  <2> QED BY <1>2, <2>2, <2>6, <2>7, <2>8 DEF StoreInv
<1>4. TrailInv
  <2> HIDE DEF Init
  <2>1. /\ EmptySolution.level = 0 /\ EmptySolution.next = 0
        /\ DOMAIN EmptySolution.assigned = {}
    BY DEF EmptySolution
  <2>2. WellDated(EmptySolution, Causes)
    <3>1. EmptySolution \in
             [level: Nat, next: Nat,
              assigned: [DOMAIN EmptySolution.assigned -> PackageAssignment]]
      BY DEF EmptySolution
    <3> QED BY <2>1, <3>1 DEF WellDated, IsPartialSolution
  <2>3. ps = AddDecision(EmptySolution, Root, RootVersion)
    BY DEF Init
  <2>4. WellDated(ps, Causes)
    BY <2>2, <2>3, AddDecisionWellDated, PackagesAssumption DEF Choice
  <2>5. Stands(ps)
    BY <2>1, <2>3, DecideRootStands
  <2>6. DOMAIN ps.assigned = {Root}
    BY <2>1, <2>3, DecideOthers
  <2> QED BY <1>2, <2>4, <2>5, <2>6 DEF TrailInv, Stands
<1>5. ControlInv
  BY <1>1, <1>2, PackagesAssumption, EmptySeq DEF ControlInv, Phase
<1> QED BY <1>3, <1>4, <1>5 DEF Inv

\* What the dependency that is registered next gives: a well-formed
\* incompatibility over packages that have ids.
LEMMA DependencyType ==
    ASSUME ControlInv, nextDep \in DOMAIN Pending
    PROVE  LET dep == Pending[nextDep]
               inc == FromDependency(choice.package, choice.version,
                                     dep.package, dep.range)
           IN  /\ dep \in ToSet(Requirements(index, choice.package, choice.version))
               /\ dep.package \in Package /\ dep.package # Root
               /\ IsIncompatibility(inc)
               /\ DOMAIN inc.terms = {choice.package, dep.package}
               /\ Root \in DOMAIN inc.terms =>
                     inc.terms[Root] = Positive({RootVersion})
<1> DEFINE dep == Pending[nextDep]
<1>1. choice.package \in Package /\ choice.version \in Version
  BY DEF ControlInv
<1>2. Pending \in Seq(Dependency)
  BY <1>1 DEF ControlInv, PackageIndex, Pending, Requirements
<1>3. dep \in Dependency
  BY <1>2, LenProperties, ElementOfSeq
<1>4. dep \in ToSet(Requirements(index, choice.package, choice.version))
  BY DEF ToSet, Pending
<1> HIDE DEF dep
<1>5. dep.package \in Package /\ dep.package # Root /\ dep.range \in SUBSET Version
  BY <1>3 DEF Dependency
<1> DEFINE inc == FromDependency(choice.package, choice.version,
                                 dep.package, dep.range)
<1>6. IsIncompatibility(inc)
  BY <1>1, <1>5, FromDependencyType
<1>7. /\ DOMAIN inc.terms = {choice.package, dep.package}
      /\ Root \in DOMAIN inc.terms => inc.terms[Root] = Positive({RootVersion})
  BY <1>5 DEF FromDependency, ControlInv
<1> QED BY <1>4, <1>5, <1>6, <1>7 DEF dep

\* One turn of the loop of add_dependencies preserves the invariant.
LEMMA RegisterDependencyInv ==
    ASSUME Inv, RegisterDependency
    PROVE  Inv'
<1> USE DEF Inv
<1> DEFINE dep == Pending[nextDep]
           inc == FromDependency(choice.package, choice.version,
                                 dep.package, dep.range)
<1>0. known \in Seq(Package)
  BY DEF StoreInv
<1>1. /\ dep.package \in Package /\ IsIncompatibility(inc)
      /\ DOMAIN inc.terms = {choice.package, dep.package}
      /\ Root \in DOMAIN inc.terms => inc.terms[Root] = Positive({RootVersion})
  BY DependencyType DEF RegisterDependency
<1>2. /\ known' = IF Contains(known, dep.package) THEN known
                  ELSE Append(known, dep.package)
      /\ Register(inc, known')
  BY DEF RegisterDependency
<1> HIDE DEF dep, inc
<1>3. /\ known' \in Seq(Package) /\ ToSet(known) \subseteq ToSet(known')
      /\ dep.package \in ToSet(known')
  <2>1. CASE Contains(known, dep.package)
    BY <1>0, <1>2, <2>1, LenProperties DEF Contains, ToSet
  <2>2. CASE ~Contains(known, dep.package)
    <3>1. /\ known' \in Seq(Package) /\ Len(known') = Len(known) + 1
          /\ \A i \in 1..Len(known) : known'[i] = known[i]
          /\ known'[Len(known) + 1] = dep.package
      BY <1>0, <1>1, <1>2, <2>2, AppendProperties
    <3>2. /\ DOMAIN known = 1..Len(known) /\ DOMAIN known' = 1..Len(known')
          /\ Len(known) \in Nat
      BY <1>0, <3>1, LenProperties
    <3> QED BY <3>1, <3>2 DEF ToSet
  <2> QED BY <2>1, <2>2
<1>4. DOMAIN inc.terms # {} /\ DOMAIN inc.terms \subseteq ToSet(known')
  BY <1>1, <1>3 DEF ControlInv
<1>5. StoreInv' /\ Len(store') = Len(store) + 1
  BY <1>1, <1>2, <1>3, <1>4, RegisterStore
<1>6. Len(store) \in Nat /\ Len(store') \in Nat /\ Len(store) <= Len(store')
  BY <1>5, LenProperties DEF StoreInv
<1>7. TrailInv'
  BY <1>3, <1>6, TrailKept DEF RegisterDependency
<1>8. ControlInv'
  BY <1>3, <1>6, IdsGrow DEF RegisterDependency, ControlInv, propagationVars
<1> QED BY <1>5, <1>7, <1>8

\* The end of add_dependencies, with the decision, preserves the invariant.
LEMMA FinishRegistrationInv ==
    ASSUME Inv, FinishRegistration
    PROVE  Inv'
<1> USE DEF Inv
<1>1. choice.package \in Package /\ choice.version \in Version
      /\ choice.package \in ToSet(known)
  BY DEF ControlInv
<1>2. StoreInv'
  BY DEF FinishRegistration, StoreInv, Ids, Causes
<1>3. TrailInv'
  <2>1. CASE choice.package = Root
    BY <2>1 DEF FinishRegistration, TrailInv, Causes
  <2>2. CASE choice.package # Root
    BY <1>1, <2>2, TrailDecided DEF FinishRegistration
  <2> QED BY <2>1, <2>2
<1>4. <<choice.package>> \in Seq(Package)
  BY <1>1
<1>5. ControlInv'
  BY <1>4 DEF FinishRegistration, ControlInv, Phase, Ids
<1> QED BY <1>2, <1>3, <1>5

\* Taking the next package off the queue preserves the invariant.
LEMMA PopPackageInv ==
    ASSUME Inv, PopPackage
    PROVE  Inv'
<1> USE DEF Inv
<1>1. buffer \in Seq(Package) /\ buffer # <<>>
  BY DEF ControlInv, PopPackage
<1>2. Front(buffer) \in Seq(Package) /\ Last(buffer) \in Package
  BY <1>1, FrontLastType
<1>3. watch.lists[Last(buffer)] \in Seq(Ids)
  BY <1>2 DEF StoreInv, WellIndexed, Ids
<1>4. StoreInv' /\ TrailInv'
  BY DEF PopPackage, StoreInv, TrailInv, Ids, Causes, searchVars
<1>5. ControlInv'
  BY <1>2, <1>3 DEF PopPackage, ControlInv, Ids, searchVars, driverVars
<1> QED BY <1>4, <1>5

\* What is being examined is in the store.
LEMMA ExaminedType ==
    ASSUME StoreInv, ControlInv, Examining
    PROVE  Head(watchers) \in Ids /\ Tail(watchers) \in Seq(Ids)
BY HeadTailProperties DEF ControlInv, Examining

\* Meeting a satisfied incompatibility preserves the invariant.
LEMMA FindConflictInv ==
    ASSUME Inv, FindConflict
    PROVE  Inv'
<1> USE DEF Inv
<1>1. Head(watchers) \in Ids
  BY ExaminedType DEF FindConflict
<1>2. StoreInv' /\ TrailInv'
  BY DEF FindConflict, StoreInv, TrailInv, Ids, Causes, searchVars
<1>3. <<>> \in Seq(Ids)
  BY EmptySeq
<1>4. ControlInv'
  BY <1>1, <1>3 DEF FindConflict, ControlInv, Phase, Ids, searchVars, driverVars
<1> QED BY <1>2, <1>4

\* Deriving from a unit incompatibility preserves the invariant.
LEMMA DeriveUnitInv ==
    ASSUME Inv, DeriveUnit
    PROVE  Inv'
<1> USE DEF Inv
<1> DEFINE id == Head(watchers)
<1>1. id \in Ids /\ Tail(watchers) \in Seq(Ids)
  BY ExaminedType DEF DeriveUnit
<1> HIDE DEF id
<1>2. PICK pkg \in DOMAIN store[id].terms :
        /\ AlmostSatisfied(store[id], pkg)
        /\ ps' = AddDerivation(ps, pkg, id, Negate(store[id].terms[pkg]))
        /\ watch' = EnsureWatched(watch, id, pkg)
        /\ buffer' = IF Contains(buffer, pkg) THEN buffer ELSE Append(buffer, pkg)
  BY DEF DeriveUnit, id
<1> DEFINE term == Negate(store[id].terms[pkg])
<1>3. Len(store) \in Nat /\ Len(store) >= 1
  BY LenProperties DEF StoreInv
<1>4. id \in Causes
  <2>1. ASSUME id = 1 PROVE FALSE
    <3>1. pkg = Root
      BY <1>2, <2>1 DEF StoreInv, NotRoot
    <3> QED BY <1>2, <2>1, <3>1, NotRootNeverUnit
  <2> QED BY <1>1, <1>3, <2>1 DEF Ids, Causes
<1>5. /\ pkg \in Package /\ pkg \in ToSet(known) /\ term \in Term
      /\ pkg = Root => term = Negative({RootVersion})
  BY <1>1, <1>2, <1>4, NegatedTermType
<1> HIDE DEF term
<1>6. StoreInv'
  <2>1. WellIndexed(watch', Len(store))
    BY <1>1, <1>2, <1>3, <1>5, EnsureWatchedWellIndexed DEF StoreInv, Ids
  <2> QED BY <2>1 DEF DeriveUnit, StoreInv, Ids, Causes
<1>7. TrailInv'
  <2>1. IsPartialSolution(ps) /\ Stands(ps)
    BY DEF TrailInv, WellDated, Stands
  <2>2. ps' = AddDerivation(ps, pkg, id, term)
    BY <1>2 DEF term
  <2>3. WellDated(ps', Causes)
    <3>1. Causes \in SUBSET Nat
      BY <1>3 DEF Causes
    <3> QED BY <1>4, <1>5, <2>2, <3>1, AddDerivationWellDated DEF TrailInv
  <2>4. Stands(ps')
    BY <1>5, <2>1, <2>2, DeriveStands
  <2>5. DOMAIN ps'.assigned \subseteq DOMAIN ps.assigned \cup {pkg}
    BY <2>1, <2>2, DeriveOthers
  <2> QED BY <1>5, <2>3, <2>4, <2>5 DEF DeriveUnit, TrailInv, Stands, Causes
<1>8. buffer' \in Seq(Package)
  BY <1>2, <1>5, AppendProperties DEF ControlInv
<1>9. ControlInv'
  BY <1>1, <1>8 DEF DeriveUnit, ControlInv, Ids, id, driverVars
<1> QED BY <1>6, <1>7, <1>9

\* Passing an incompatibility that is not unit preserves the invariant.
LEMMA LeaveDormantInv ==
    ASSUME Inv, LeaveDormant
    PROVE  Inv'
<1> USE DEF Inv
<1> DEFINE id == Head(watchers)
           open == Unsatisfied(store[id])
           first == Lowest(known, open)
           second == Lowest(known, open \ {first})
<1>1. id \in Ids /\ Tail(watchers) \in Seq(Ids)
  BY ExaminedType DEF LeaveDormant
<1>2. open \subseteq ToSet(known)
  BY <1>1 DEF Unsatisfied, StoreInv
<1>3. WellIndexed(watch', Len(store))
  <2>0. WellIndexed(watch, Len(store))
    BY DEF StoreInv
  <2>1. CASE StillWatched /\ open # {} /\ open \ {first} # {}
    <3> HIDE DEF open
    <3>1. first \in Package
      BY <1>2, <2>1, LowestType DEF StoreInv
    <3> HIDE DEF first
    <3>2. second \in Package
      BY <1>2, <2>1, LowestType DEF StoreInv
    <3> HIDE DEF second
    <3>3. watch' = SetWatches(watch, id, first, second)
      BY <2>1 DEF LeaveDormant, RefreshWatches, open, first, second
    <3>4. Len(store) \in Nat
      BY LenProperties DEF StoreInv
    <3> QED BY <1>1, <2>0, <3>1, <3>2, <3>3, <3>4, SetWatchesWellIndexed DEF Ids
  <2>2. CASE ~(StillWatched /\ open # {} /\ open \ {first} # {})
    <3>1. watch' = watch
      BY <2>2 DEF LeaveDormant, RefreshWatches
    <3> QED BY <2>0, <3>1
  <2> QED BY <2>1, <2>2
<1>4. StoreInv' /\ TrailInv'
  BY <1>3 DEF LeaveDormant, StoreInv, TrailInv, Ids, Causes
<1>5. ControlInv'
  BY <1>1 DEF LeaveDormant, ControlInv, Ids, driverVars
<1> QED BY <1>4, <1>5

\* Ending with a refusal preserves the invariant.
LEMMA ReportNoSolutionInv ==
    ASSUME Inv, ReportNoSolution
    PROVE  Inv'
<1> USE DEF Inv
<1>1. StoreInv' /\ TrailInv'
  BY DEF ReportNoSolution, StoreInv, TrailInv, Ids, Causes, searchVars
<1>2. ControlInv'
  BY DEF ReportNoSolution, ControlInv, Phase, Ids, driverVars, propagationVars, searchVars
<1> QED BY <1>1, <1>2

\* The satisfier of a conflict: a package of the conflict, and a cause that is
\* an incompatibility other than NotRoot.
LEMMA SatisfierType ==
    ASSUME StoreInv, TrailInv, ControlInv, pc = "analyse"
    PROVE  /\ conflict \in Ids /\ IsIncompatibility(store[conflict])
           /\ Satisfier.package \in Package
           /\ Satisfier.dl \in Nat /\ Satisfier.previous_dl \in Nat
           /\ Satisfier.cause \in Causes \cup {NoCause}
           /\ \/ Satisfier.package \in DOMAIN store[conflict].terms
              \/ /\ Satisfier.cause = NoCause
                 /\ Satisfier.previous_dl = Satisfier.dl
<1>1. conflict \in Ids
  BY DEF ControlInv
<1>2. /\ known \in Seq(Package)
      /\ DOMAIN store[conflict].terms \subseteq ToSet(known)
  BY <1>1 DEF StoreInv
<1>3. IsIncompatibility(store[conflict])
  BY <1>1, ElementOfSeq, IncompatibilityDef DEF StoreInv, Ids
<1>4. WellDated(ps, Causes) /\ Causes \in SUBSET Nat
  BY LenProperties DEF TrailInv, StoreInv, Causes
<1> QED BY <1>1, <1>2, <1>3, <1>4, SatisfierSearchType DEF Satisfier

\* A conflict that is not terminal is not NotRoot.
LEMMA NotTerminalCause ==
    ASSUME StoreInv, NEW id \in Ids, ~IsTerminal(store[id])
    PROVE  id \in Causes
<1>1. id # 1
  BY DEF StoreInv, IsTerminal, NotRoot
<1> QED BY <1>1, LenProperties DEF StoreInv, Ids, Causes

\* What resolution of two causes says of the project, if anything, is what
\* they say.
LEMMA PriorCauseRoot ==
    ASSUME StoreInv, NEW i \in Causes, NEW j \in Causes, NEW pivot,
           Root \in DOMAIN PriorCause(store[i], store[j], pivot).terms
    PROVE  PriorCause(store[i], store[j], pivot).terms[Root]
               = Positive({RootVersion})
<1> DEFINE a == store[i].terms
           b == store[j].terms
           t == Positive({RootVersion})
<1>1. /\ Root \in DOMAIN a => a[Root] = t
      /\ Root \in DOMAIN b => b[Root] = t
  BY DEF StoreInv
<1>2. Intersection(t, t) = t /\ Union(t, t) = t
  BY DEF Intersection, Union, Positive
<1>3. Root \in DOMAIN a \cup DOMAIN b
  BY DEF PriorCause
<1>4. PriorCause(store[i], store[j], pivot).terms[Root] =
          IF Root \notin DOMAIN b THEN a[Root]
          ELSE IF Root \notin DOMAIN a THEN b[Root]
          ELSE IF Root = pivot THEN Union(a[Root], b[Root])
          ELSE Intersection(a[Root], b[Root])
  BY DEF PriorCause
<1> HIDE DEF t, a, b
<1> QED BY <1>1, <1>2, <1>3, <1>4 DEF t

\* One resolution step of conflict_resolution preserves the invariant.
LEMMA ResolveWithCauseInv ==
    ASSUME Inv, ResolveWithCause
    PROVE  Inv'
<1> USE DEF Inv
<1> DEFINE prior == PriorCause(store[conflict], store[Satisfier.cause],
                               Satisfier.package)
<1>1. /\ pc = "analyse" /\ ~IsTerminal(store[conflict])
      /\ Satisfier.cause # NoCause
  BY DEF ResolveWithCause
<1>2. conflict \in Causes /\ Satisfier.cause \in Causes
  BY <1>1, SatisfierType, NotTerminalCause
<1>3. Causes \subseteq Ids
  BY LenProperties DEF StoreInv, Causes, Ids
<1>4. /\ IsIncompatibility(store[conflict])
      /\ IsIncompatibility(store[Satisfier.cause])
  BY <1>2, <1>3, ElementOfSeq, IncompatibilityDef DEF StoreInv, Ids
<1>5. IsIncompatibility(prior)
  BY <1>4, PriorCauseType
<1>6. DOMAIN prior.terms \subseteq ToSet(known)
  <2>1. DOMAIN prior.terms \subseteq
            DOMAIN store[conflict].terms \cup DOMAIN store[Satisfier.cause].terms
    BY DEF PriorCause
  <2> QED BY <1>2, <1>3, <2>1 DEF StoreInv
<1>7. Root \in DOMAIN prior.terms => prior.terms[Root] = Positive({RootVersion})
  BY <1>2, PriorCauseRoot
<1>8. CASE DOMAIN prior.terms = {}
  <2>1. /\ pc' = "panicked"
        /\ UNCHANGED <<store, watch, conflict, index, known, ps, driverVars,
                       propagationVars>>
    BY <1>8 DEF ResolveWithCause
  <2>2. StoreInv' /\ TrailInv'
    BY <2>1 DEF StoreInv, TrailInv, Ids, Causes
  <2>3. ControlInv'
    BY <2>1 DEF ControlInv, Phase, Ids, driverVars, propagationVars
  <2> QED BY <2>2, <2>3
<1>9. CASE DOMAIN prior.terms # {}
  <2>1. /\ Register(prior, known) /\ conflict' = Len(store) + 1
        /\ UNCHANGED <<pc, index, known, ps, driverVars, propagationVars>>
    BY <1>9 DEF ResolveWithCause
  <2> HIDE DEF prior
  <2>2. StoreInv' /\ Len(store') = Len(store) + 1
    <3>1. known' = known /\ known' \in Seq(Package)
      BY <2>1 DEF StoreInv
    <3>2. Register(prior, known') /\ ToSet(known) \subseteq ToSet(known')
          /\ DOMAIN prior.terms \subseteq ToSet(known')
      BY <1>6, <2>1, <3>1
    <3> QED BY <1>5, <1>7, <1>9, <3>1, <3>2, RegisterStore
  <2>3. Len(store) \in Nat /\ Len(store') \in Nat /\ Len(store) <= Len(store')
    BY <2>2, LenProperties DEF StoreInv
  <2>4. TrailInv'
    BY <2>1, <2>3, TrailKept
  <2>5. Ids \subseteq Ids' /\ watchers \in Seq(Ids')
    BY <2>3, IdsGrow
  <2>6. conflict' \in Ids'
    BY <2>1, <2>2, <2>3 DEF Ids
  <2>7. ControlInv'
    BY <2>1, <2>5, <2>6 DEF ControlInv, driverVars, propagationVars
  <2> QED BY <2>2, <2>4, <2>7
<1> QED BY <1>8, <1>9

\* Backtracking, with a new decision of the project at level 0, preserves
\* the invariant.
LEMMA BackjumpInv ==
    ASSUME Inv, Backjump
    PROVE  Inv'
<1> USE DEF Inv
<1> DEFINE pkg == Satisfier.package
           target == Satisfier.previous_dl
           term == Negate(store[conflict].terms[pkg])
           back == Backtrack(ps, target)
           learned == AddDerivation(back, pkg, conflict, term)
<1>1. /\ pc = "analyse" /\ ~IsTerminal(store[conflict])
      /\ Satisfier.previous_dl < Satisfier.dl
  BY DEF Backjump
<1>2. /\ conflict \in Causes /\ conflict \in Ids
      /\ target \in Nat /\ pkg \in DOMAIN store[conflict].terms
  BY <1>1, SatisfierType, NotTerminalCause
<1>3. /\ ps' = IF IsAssigned(learned, Root) THEN learned
               ELSE AddDecision(learned, Root, RootVersion)
      /\ buffer' = IF IsAssigned(learned, Root) THEN <<pkg>> ELSE <<pkg, Root>>
      /\ watch' = EnsureWatched(watch, conflict, pkg)
      /\ pc' = "propagate" /\ conflict' = 0
      /\ UNCHANGED <<index, known, store, driverVars, current, watchers>>
  BY DEF Backjump
<1> HIDE DEF pkg, target
<1>4. /\ pkg \in Package /\ pkg \in ToSet(known) /\ term \in Term
      /\ pkg = Root => term = Negative({RootVersion})
  BY <1>2, NegatedTermType
<1> HIDE DEF term
<1>5. Len(store) \in Nat /\ Causes \in SUBSET Nat
  BY LenProperties DEF StoreInv, Causes
<1>6. StoreInv'
  <2>1. WellIndexed(watch', Len(store))
    BY <1>2, <1>3, <1>4, <1>5, EnsureWatchedWellIndexed DEF StoreInv, Ids
  <2> QED BY <1>3, <2>1 DEF StoreInv, Ids, Causes
<1>7. TrailInv'
  <2>1. IsPartialSolution(ps) /\ Stands(ps) /\ WellDated(ps, Causes)
    BY DEF TrailInv, WellDated, Stands
  <2>2. WellDated(back, Causes)
    BY <1>2, <2>1, BacktrackWellDated
  <2>3. IsPartialSolution(back)
    BY <2>2 DEF WellDated
  <2>4. /\ back.level = target
        /\ DOMAIN back.assigned \subseteq DOMAIN ps.assigned
        /\ Root \in DOMAIN back.assigned => Stands(back)
        /\ Root \notin DOMAIN back.assigned => target = 0
    BY <1>2, <2>1, BacktrackStands
  <2> HIDE DEF back
  <2>5. WellDated(learned, Causes)
    BY <1>2, <1>4, <1>5, <2>2, AddDerivationWellDated
  <2>6. /\ DOMAIN back.assigned \subseteq DOMAIN learned.assigned
        /\ DOMAIN learned.assigned \subseteq DOMAIN back.assigned \cup {pkg}
    BY <2>3, DeriveOthers
  <2>7. CASE IsAssigned(learned, Root)
    <3>1. ps' = learned
      BY <1>3, <2>7
    <3>2. Stands(learned)
      <4>1. CASE Root \in DOMAIN back.assigned
        BY <1>4, <2>3, <2>4, <4>1, DeriveStands
      <4>2. CASE Root \notin DOMAIN back.assigned
        <5>1. pkg = Root
          BY <2>6, <2>7, <4>2 DEF IsAssigned
        <5> QED BY <1>4, <2>3, <2>4, <4>2, <5>1, DeriveRootOut
      <4> QED BY <4>1, <4>2
    <3> QED BY <1>3, <1>4, <2>4, <2>5, <2>6, <3>1, <3>2
            DEF TrailInv, Stands, Causes
  <2>8. CASE ~IsAssigned(learned, Root)
    <3> DEFINE again == AddDecision(learned, Root, RootVersion)
    <3>1. ps' = again
      BY <1>3, <2>8
    <3>2. WellDated(again, Causes)
      BY <2>5, AddDecisionWellDated, PackagesAssumption DEF Choice
    <3>3. learned.level = 0
      <4>1. learned.level = back.level
        BY <2>3 DEF AddDerivation, IsPartialSolution
      <4> QED BY <2>4, <2>6, <2>8, <4>1 DEF IsAssigned
    <3>4. Stands(again)
      BY <2>8, <3>3, DecideRootStands DEF IsAssigned
    <3>5. DOMAIN again.assigned = DOMAIN learned.assigned \cup {Root}
      BY DecideOthers
    <3>6. Root \in ToSet(known)
      BY DEF TrailInv
    <3> HIDE DEF again, learned
    <3> QED BY <1>3, <1>4, <2>4, <2>6, <3>1, <3>2, <3>4, <3>5, <3>6
            DEF TrailInv, Stands, Causes
  <2> QED BY <2>7, <2>8
<1> HIDE DEF learned
<1>8. buffer' \in Seq(Package)
  <2>1. <<pkg>> \in Seq(Package) /\ <<pkg, Root>> \in Seq(Package)
    BY <1>4, PackagesAssumption
  <2> QED BY <1>3, <2>1
<1>9. ControlInv'
  BY <1>3, <1>8 DEF ControlInv, Phase, Ids, driverVars
<1> QED BY <1>6, <1>7, <1>9

\* An answer ends the run and changes nothing else.
LEMMA ReturnSolutionInv ==
    ASSUME Inv, ReturnSolution
    PROVE  Inv'
<1> USE DEF Inv
<1>1. StoreInv' /\ TrailInv'
  BY DEF ReturnSolution, StoreInv, TrailInv, Ids, Causes, searchVars
<1>2. ControlInv'
  BY DEF ReturnSolution, ControlInv, Phase, Ids, driverVars, propagationVars,
         searchVars
<1> QED BY <1>1, <1>2

\* The incompatibility of a package without versions in range goes into the
\* store as any other; it never concerns the project.
LEMMA RegisterNoVersionsInv ==
    ASSUME Inv, RegisterNoVersions
    PROVE  Inv'
<1> USE DEF Inv
<1>1. PICK pkg \in Undecided(ps) :
         /\ InRange(pkg) = {}
         /\ Register(NoVersions(pkg, RangeOf(pkg)), known)
         /\ buffer' = <<pkg>>
  BY DEF RegisterNoVersions
<1> DEFINE inc == NoVersions(pkg, RangeOf(pkg))
<1>2. /\ pkg \in Package /\ pkg \in ToSet(known) /\ pkg # Root
      /\ RangeOf(pkg) \in SUBSET Version
  BY UndecidedType
<1>3. IsIncompatibility(inc) /\ DOMAIN inc.terms = {pkg}
  BY <1>2, NoVersionsType DEF NoVersions
<1>4. /\ UNCHANGED <<index, known, ps, driverVars, pc, current, watchers,
                     conflict>>
      /\ Register(inc, known)
  BY <1>1 DEF RegisterNoVersions
<1> HIDE DEF inc
<1>5. StoreInv' /\ Len(store') = Len(store) + 1
  <2>1. known' = known /\ known' \in Seq(Package)
    BY <1>4 DEF StoreInv
  <2>2. Register(inc, known') /\ ToSet(known) \subseteq ToSet(known')
        /\ DOMAIN inc.terms \subseteq ToSet(known') /\ DOMAIN inc.terms # {}
        /\ Root \notin DOMAIN inc.terms
    BY <1>2, <1>3, <1>4, <2>1
  <2> QED BY <1>3, <2>1, <2>2, RegisterStore
<1>6. Len(store) \in Nat /\ Len(store') \in Nat /\ Len(store) <= Len(store')
  BY <1>5, LenProperties DEF StoreInv
<1>7. TrailInv'
  BY <1>4, <1>6, TrailKept
<1>8. Ids \subseteq Ids' /\ watchers \in Seq(Ids')
  BY <1>6, IdsGrow
<1>9. buffer' \in Seq(Package)
  BY <1>1, <1>2
<1>10. ControlInv'
  BY <1>4, <1>8, <1>9 DEF ControlInv, driverVars
<1> QED BY <1>5, <1>7, <1>10

\* The version that is chosen is one of a package other than the project.
LEMMA ChooseVersionInv ==
    ASSUME Inv, ChooseVersion
    PROVE  Inv'
<1> USE DEF Inv
<1>1. PICK pkg \in Undecided(ps) :
         InRange(pkg) # {} /\ choice' = Preferred(pkg)
  BY DEF ChooseVersion
<1>2. pkg \in Package /\ pkg \in ToSet(known) /\ pkg # Root
  BY UndecidedType
<1>3. /\ choice' \in [package: Package, version: Version]
      /\ choice'.package = pkg
  BY <1>1, <1>2, PreferredType
<1>4. /\ UNCHANGED <<index, known, store, watch, ps, added, buffer, current,
                     watchers, conflict>>
      /\ nextDep' = 1 /\ pc' = "register"
  BY DEF ChooseVersion, searchVars, propagationVars
<1>5. StoreInv' /\ TrailInv'
  BY <1>4 DEF StoreInv, TrailInv, Ids, Causes
<1>6. ControlInv'
  BY <1>2, <1>3, <1>4 DEF ControlInv, Phase, Ids
<1> QED BY <1>5, <1>6

\* A version that is chosen again is decided.
LEMMA ChooseVersionAgainInv ==
    ASSUME Inv, ChooseVersionAgain
    PROVE  Inv'
<1> USE DEF Inv
<1>1. PICK pkg \in Undecided(ps) :
         /\ InRange(pkg) # {}
         /\ ps' = AddDecision(ps, pkg, Preferred(pkg).version)
         /\ buffer' = <<pkg>>
  BY DEF ChooseVersionAgain
<1>2. pkg \in Package /\ pkg \in ToSet(known) /\ pkg # Root
  BY UndecidedType
<1>3. Preferred(pkg).version \in Version
  BY <1>1, <1>2, PreferredType
<1>4. UNCHANGED <<index, known, store, watch, added, choice, nextDep, pc,
                  current, watchers, conflict>>
  BY DEF ChooseVersionAgain, driverVars
<1>5. StoreInv'
  BY <1>4 DEF StoreInv, Ids, Causes
<1>6. TrailInv'
  BY <1>1, <1>2, <1>3, <1>4, TrailDecided
<1>7. buffer' \in Seq(Package)
  BY <1>1, <1>2
<1>8. ControlInv'
  BY <1>4, <1>7 DEF ControlInv, Ids
<1> QED BY <1>5, <1>6, <1>8

\* Every step keeps the invariant.
LEMMA NextInv == Inv /\ [Next]_vars => Inv'
<1> SUFFICES ASSUME Inv, [Next]_vars PROVE Inv'
  OBVIOUS
<1>1. CASE RegisterDependency
  BY <1>1, RegisterDependencyInv
<1>2. CASE FinishRegistration
  BY <1>2, FinishRegistrationInv
<1>3. CASE PopPackage
  BY <1>3, PopPackageInv
<1>4. CASE FindConflict
  BY <1>4, FindConflictInv
<1>5. CASE DeriveUnit
  BY <1>5, DeriveUnitInv
<1>6. CASE LeaveDormant
  BY <1>6, LeaveDormantInv
<1>7. CASE ReportNoSolution
  BY <1>7, ReportNoSolutionInv
<1>8. CASE ResolveWithCause
  BY <1>8, ResolveWithCauseInv
<1>9. CASE Backjump
  BY <1>9, BackjumpInv
<1>10. CASE ReturnSolution
  BY <1>10, ReturnSolutionInv
<1>11. CASE RegisterNoVersions
  BY <1>11, RegisterNoVersionsInv
<1>12. CASE ChooseVersion
  BY <1>12, ChooseVersionInv
<1>13. CASE ChooseVersionAgain
  BY <1>13, ChooseVersionAgainInv
<1>14. CASE UNCHANGED vars
  <2>1. StoreInv' /\ TrailInv'
    BY <1>14 DEF Inv, StoreInv, TrailInv, Ids, Causes, vars, searchVars
  <2>2. ControlInv'
    BY <1>14 DEF Inv, ControlInv, Ids, vars, searchVars, driverVars,
                 propagationVars
  <2> QED BY <2>1, <2>2 DEF Inv
<1> QED BY <1>1, <1>2, <1>3, <1>4, <1>5, <1>6, <1>7, <1>8, <1>9, <1>10, <1>11,
           <1>12, <1>13, <1>14 DEF Next, Stopped

\* The invariant gives every variable its type.
LEMMA InvTypeOK == Inv => TypeOK
<1> SUFFICES ASSUME Inv PROVE TypeOK
  OBVIOUS
<1>1. /\ store \in Seq(Incompatibility) /\ Len(store) \in Nat
      /\ DOMAIN store = Ids /\ Ids \in SUBSET Nat
  BY LenProperties DEF Inv, StoreInv, Ids
<1>2. \A id \in DOMAIN store : IsIncompatibility(store[id])
  BY <1>1, ElementOfSeq, IncompatibilityDef DEF Ids
<1>3. watch \in WatchIndex
  <2>1. Seq(Ids) \subseteq Seq(Nat)
    BY <1>1, SeqMonotonic
  <2>2. watch \in [lists: [Package -> Seq(Ids)],
                   watched: Seq(Package \X Package), learned: Seq(Ids)]
    BY DEF Inv, StoreInv, WellIndexed, Ids
  <2> QED BY <2>1, <2>2 DEF WatchIndex
<1>4. IsPartialSolution(ps)
  BY DEF Inv, TrailInv, WellDated
<1>5. watchers \in Seq(DOMAIN store) /\ conflict \in {0} \cup DOMAIN store
  BY <1>1 DEF Inv, ControlInv
<1> QED BY <1>2, <1>3, <1>4, <1>5 DEF TypeOK, Inv, StoreInv, ControlInv

\* The invariant holds in every reachable state.
THEOREM Invariance == Spec => []Inv
<1>1. Init => Inv
  BY InitInv
<1>2. Inv /\ [Next]_vars => Inv'
  BY NextInv
<1> QED BY <1>1, <1>2, PTL DEF Spec

\* Every field of SolverState keeps its type: in particular every identifier
\* of an incompatibility, in a watch list, in a snapshot of one, as a cause or
\* as the conflict, is one that the store has, and what is resolved against
\* the satisfier's cause is always in the store.
THEOREM TypeCorrect == Spec => []TypeOK
<1>1. Spec => []Inv
  BY Invariance
<1>2. Inv => TypeOK
  BY InvTypeOK
<1> QED BY <1>1, <1>2, PTL

-----------------------------------------------------------------------------
(* Soundness of the store.                                                 *)

\* A store grows by an incompatibility that no valid assignment violates.
LEMMA EntailedGrows ==
    ASSUME StoreInv, StoreEntailed, Positively, index' = index, NEW inc,
           Len(store') = Len(store) + 1,
           \A id \in Ids : store'[id] = store[id],
           store'[Len(store) + 1] = inc, StoreInv',
           ~Violates(Nothing, inc),
           \A s \in Assignments : Valid(index, s) => ~Violates(s, inc)
    PROVE  StoreEntailed' /\ Positively'
<1>1. /\ Len(store) \in Nat /\ DOMAIN store = Ids
      /\ Len(store') \in Nat /\ DOMAIN store' = Ids'
  BY LenProperties DEF StoreInv, Ids
<1>2. \A id \in Ids' : id \in Ids \/ id = Len(store) + 1
  BY <1>1 DEF Ids
<1>3. \A id \in Causes' : id \in Causes \/ id = Len(store) + 1
  BY <1>1 DEF Causes
<1>4. Causes \subseteq Ids
  BY <1>1 DEF Causes, Ids
<1>5. StoreEntailed'
  BY <1>1, <1>2 DEF StoreEntailed
<1>6. Positively'
  BY <1>3, <1>4 DEF Positively
<1> QED BY <1>5, <1>6

\* A step that leaves the store and the index alone and does not panic keeps
\* the store sound.
LEMMA SoundKept ==
    ASSUME SoundInv, UNCHANGED <<index, store>>, pc' = "panicked" => pc = "panicked"
    PROVE  SoundInv'
BY DEF SoundInv, StoreEntailed, Positively, Causes

\* Registering a dependency keeps the store sound.
LEMMA RegisterDependencySound ==
    ASSUME Inv, SoundInv, SelfFree(index), RegisterDependency, Inv'
    PROVE  SoundInv'
<1> DEFINE dep == Pending[nextDep]
           inc == FromDependency(choice.package, choice.version,
                                 dep.package, dep.range)
<1>1. /\ dep \in ToSet(Requirements(index, choice.package, choice.version))
      /\ dep.package \in Package /\ IsIncompatibility(inc)
      /\ DOMAIN inc.terms = {choice.package, dep.package}
      /\ Root \in DOMAIN inc.terms => inc.terms[Root] = Positive({RootVersion})
  BY DependencyType DEF RegisterDependency, Inv
<1>2. /\ choice.package \in Package /\ choice.version \in Version
      /\ index \in PackageIndex
  BY DEF Inv, ControlInv
<1>3. dep.package # choice.package
  BY <1>1, <1>2 DEF SelfFree
<1>4. \A s \in Assignments : Valid(index, s) => ~Violates(s, inc)
  BY <1>1, <1>2, <1>3, FromDependencyEntailed
<1>5. ~Violates(Nothing, inc)
  BY <1>2, <1>3, PackagesAssumption
     DEF Violates, Nothing, FromDependency, Positive, Allows
<1>6. /\ index' = index /\ pc' = "register"
      /\ store' = Append(store, inc)
  BY DEF RegisterDependency, Register
<1>7. inc \in Incompatibility /\ store \in Seq(Incompatibility)
  BY <1>1, IncompatibilityDef DEF Inv, StoreInv
<1> HIDE DEF inc
<1>8. /\ Len(store') = Len(store) + 1
      /\ \A id \in Ids : store'[id] = store[id]
      /\ store'[Len(store) + 1] = inc
  BY <1>6, <1>7, AppendProperties DEF Ids
<1>9. StoreEntailed' /\ Positively'
  BY <1>4, <1>5, <1>6, <1>8, EntailedGrows DEF Inv, SoundInv
<1> QED BY <1>6, <1>9 DEF SoundInv

\* So does registering that no version is in range.
LEMMA RegisterNoVersionsSound ==
    ASSUME Inv, SoundInv, SelfFree(index), RegisterNoVersions, Inv'
    PROVE  SoundInv'
<1>1. PICK pkg \in Undecided(ps) :
         InRange(pkg) = {} /\ Register(NoVersions(pkg, RangeOf(pkg)), known)
  BY DEF RegisterNoVersions
<1> DEFINE inc == NoVersions(pkg, RangeOf(pkg))
<1>2. /\ pkg \in Package \ {Root} /\ RangeOf(pkg) \in SUBSET Version
      /\ index \in PackageIndex
  BY UndecidedType DEF Inv, ControlInv
<1>3. \A i \in DOMAIN index.offers[pkg] : index.offers[pkg][i] \notin RangeOf(pkg)
  BY <1>1 DEF InRange
<1>4. \A s \in Assignments : Valid(index, s) => ~Violates(s, inc)
  BY <1>2, <1>3, NoVersionsEntailed
<1>5. ~Violates(Nothing, inc)
  BY <1>2, PackagesAssumption DEF Violates, Nothing, NoVersions, Positive, Allows
<1>6. index' = index /\ pc' = pc /\ store' = Append(store, inc)
  BY <1>1 DEF RegisterNoVersions, Register
<1>7. inc \in Incompatibility /\ store \in Seq(Incompatibility)
  BY <1>2, NoVersionsType, IncompatibilityDef DEF Inv, StoreInv
<1> HIDE DEF inc
<1>8. /\ Len(store') = Len(store) + 1
      /\ \A id \in Ids : store'[id] = store[id]
      /\ store'[Len(store) + 1] = inc
  BY <1>6, <1>7, AppendProperties DEF Ids
<1>9. StoreEntailed' /\ Positively'
  BY <1>4, <1>5, <1>6, <1>8, EntailedGrows DEF Inv, SoundInv
<1> QED BY <1>6, <1>9 DEF SoundInv

\* So does resolution; and as each of the two incompatibilities has a positive
\* term, the result has one, and there is a term to watch.
LEMMA ResolveWithCauseSound ==
    ASSUME Inv, SoundInv, SelfFree(index), ResolveWithCause, Inv'
    PROVE  SoundInv'
<1> DEFINE prior == PriorCause(store[conflict], store[Satisfier.cause],
                               Satisfier.package)
<1>1. /\ pc = "analyse" /\ ~IsTerminal(store[conflict])
      /\ Satisfier.cause # NoCause
  BY DEF ResolveWithCause
<1>2. /\ conflict \in Causes /\ Satisfier.cause \in Causes
      /\ Satisfier.package \in Package
  BY <1>1, SatisfierType, NotTerminalCause DEF Inv
<1>3. Causes \subseteq Ids /\ Ids = DOMAIN store
  BY LenProperties DEF Inv, StoreInv, Causes, Ids
<1>4. /\ IsIncompatibility(store[conflict])
      /\ IsIncompatibility(store[Satisfier.cause])
  BY <1>2, <1>3, ElementOfSeq, IncompatibilityDef DEF Inv, StoreInv, Ids
<1>5. \A s \in Assignments : Violates(s, prior) =>
         Violates(s, store[conflict]) \/ Violates(s, store[Satisfier.cause])
  BY <1>2, <1>4, PriorCauseEntailed
<1>6. IsIncompatibility(prior)
  BY <1>4, PriorCauseType
<1> HIDE DEF prior
<1>7. Nothing \in Assignments
  BY DEF Nothing, Assignments, Choice
<1>8. ~Violates(Nothing, prior)
  BY <1>2, <1>5, <1>7 DEF SoundInv, Positively
<1>9. \A s \in Assignments : Valid(index, s) => ~Violates(s, prior)
  BY <1>2, <1>3, <1>5 DEF SoundInv, StoreEntailed
<1>10. DOMAIN prior.terms # {}
  BY <1>8 DEF Violates
<1>11. index' = index /\ pc' = pc /\ store' = Append(store, prior)
  BY <1>10 DEF ResolveWithCause, Register, prior
<1>12. prior \in Incompatibility /\ store \in Seq(Incompatibility)
  BY <1>6, IncompatibilityDef DEF Inv, StoreInv
<1>13. /\ Len(store') = Len(store) + 1
       /\ \A id \in Ids : store'[id] = store[id]
       /\ store'[Len(store) + 1] = prior
  BY <1>11, <1>12, AppendProperties DEF Ids
<1>14. StoreEntailed' /\ Positively'
  BY <1>8, <1>9, <1>11, <1>13, EntailedGrows DEF Inv, SoundInv
<1> QED BY <1>11, <1>14 DEF SoundInv

\* Every step keeps the store sound.
LEMMA NextSound == Inv /\ SoundInv /\ [Next]_vars => SoundInv'
<1> SUFFICES ASSUME Inv, SoundInv, [Next]_vars PROVE SoundInv'
  OBVIOUS
<1>0. Inv' /\ index' = index
  <2>1. index' = index
    BY DEF Next, RegisterDependency, FinishRegistration, PopPackage,
           FindConflict, DeriveUnit, LeaveDormant, ReportNoSolution,
           ResolveWithCause, Backjump, ReturnSolution, RegisterNoVersions,
           ChooseVersion, ChooseVersionAgain, Stopped, vars
  <2> QED BY <2>1, NextInv
<1>1. CASE ~SelfFree(index)
  BY <1>0, <1>1 DEF SoundInv
<1>2. CASE SelfFree(index) /\ (\/ RegisterDependency \/ RegisterNoVersions
                               \/ ResolveWithCause)
  BY <1>0, <1>2, RegisterDependencySound, RegisterNoVersionsSound,
     ResolveWithCauseSound
<1>3. CASE ~(RegisterDependency \/ RegisterNoVersions \/ ResolveWithCause)
  <2>1. store' = store /\ (pc' = "panicked" => pc = "panicked")
    BY <1>3 DEF Next, FinishRegistration, PopPackage, FindConflict, DeriveUnit,
           LeaveDormant, ReportNoSolution, Backjump, ReturnSolution,
           ChooseVersion, ChooseVersionAgain, Stopped, vars, searchVars
  <2> QED BY <1>0, <2>1, SoundKept
<1> QED BY <1>1, <1>2, <1>3

\* Initially the store has NotRoot alone.
LEMMA InitSound == Init => SoundInv
<1> SUFFICES ASSUME Init PROVE SoundInv
  OBVIOUS
<1>1. /\ store = <<NotRoot>> /\ Len(store) = 1 /\ DOMAIN store = {1}
      /\ index \in PackageIndex /\ pc = "register"
  BY PackagesAssumption DEF Init
<1>2. StoreEntailed
  BY <1>1, NotRootEntailed DEF StoreEntailed
<1>3. Positively
  BY <1>1 DEF Positively, Causes
<1> QED BY <1>1, <1>2, <1>3 DEF SoundInv

\* For every index in which no version depends on its own package: no
\* incompatibility that the solver registers or learns excludes a valid
\* resolution, whatever the solver picks, derives, resolves and forgets.
THEOREM StoreSound == Spec => [](SelfFree(index) => StoreEntailed)
<1>1. Init => SoundInv
  BY InitSound
<1>2. Inv /\ SoundInv /\ [Next]_vars => SoundInv'
  BY NextSound
<1>3. SoundInv => (SelfFree(index) => StoreEntailed)
  BY DEF SoundInv
<1> QED BY Invariance, <1>1, <1>2, <1>3, PTL DEF Spec

\* For the same indexes the expect of pick_initial_watches cannot fail: what
\* conflict resolution learns always has a term.
THEOREM LearnedHaveTerms == Spec => [](SelfFree(index) => ClausesHaveTerms)
<1>1. Init => SoundInv
  BY InitSound
<1>2. Inv /\ SoundInv /\ [Next]_vars => SoundInv'
  BY NextSound
<1>3. SoundInv => (SelfFree(index) => ClausesHaveTerms)
  BY DEF SoundInv, ClausesHaveTerms
<1> QED BY Invariance, <1>1, <1>2, <1>3, PTL DEF Spec

-----------------------------------------------------------------------------
(* The lists of watches and the pairs.                                     *)

\* vec.push of what is not there yet, and swap_remove of the only occurrence.
LEMMA AppendOnce ==
    ASSUME NEW S, NEW s \in Seq(S), IsInjective(s), NEW id \in S, id \notin Range(s)
    PROVE  /\ IsInjective(Append(s, id))
           /\ Range(Append(s, id)) = Range(s) \cup {id}
<1>1. /\ DOMAIN Append(s, id) = 1..(Len(s) + 1) /\ Len(s) \in Nat
      /\ \A i \in 1..Len(s) : Append(s, id)[i] = s[i]
      /\ Append(s, id)[Len(s) + 1] = id /\ DOMAIN s = 1..Len(s)
  BY AppendProperties, LenProperties
<1>2. \A i \in 1..(Len(s) + 1) : i \in 1..Len(s) \/ i = Len(s) + 1
  BY <1>1
<1>3. \A i \in 1..Len(s) : i \in 1..(Len(s) + 1) /\ s[i] \in Range(s)
  BY <1>1 DEF Range
<1>4. Len(s) + 1 \in 1..(Len(s) + 1)
  BY <1>1
<1>5. IsInjective(Append(s, id))
  <2> SUFFICES ASSUME NEW i \in 1..(Len(s) + 1), NEW j \in 1..(Len(s) + 1),
                      Append(s, id)[i] = Append(s, id)[j]
               PROVE  i = j
    BY <1>1 DEF IsInjective
  <2> QED BY <1>1, <1>2, <1>3 DEF IsInjective
<1>6. Range(Append(s, id)) = Range(s) \cup {id}
  BY <1>1, <1>2, <1>3, <1>4 DEF Range
<1> QED BY <1>5, <1>6

LEMMA SwapRemoveOnce ==
    ASSUME NEW S, NEW s \in Seq(S), IsInjective(s), NEW id
    PROVE  /\ IsInjective(SwapRemove(s, id))
           /\ Range(SwapRemove(s, id)) = Range(s) \ {id}
<1> DEFINE places == {k \in 1..Len(s) : s[k] = id}
           i == SelectInSeq(s, LAMBDA e : e = id)
           n == Len(s)
           swapped == [s EXCEPT ![i] = Last(s)]
           r == Front(swapped)
<1>1. i = IF places # {} THEN Min(places) ELSE 0
  BY DEF SelectInSeq
<1>2. n \in Nat /\ DOMAIN s = 1..n
  BY LenProperties
<1>3. CASE places = {}
  <2>1. SwapRemove(s, id) = s
    BY <1>1, <1>3 DEF SwapRemove
  <2>2. id \notin Range(s)
    BY <1>2, <1>3 DEF Range
  <2> QED BY <2>1, <2>2
<1>4. CASE places # {}
  <2>1. places \in SUBSET Nat
    OBVIOUS
  <2>2. i \in places
    BY <1>1, <1>4, <2>1, MinOfNat
  <2>3. i \in 1..n /\ s[i] = id
    BY <2>2
  <2>4. SwapRemove(s, id) = r
    <3> HIDE DEF places
    <3>1. i # 0
      BY <1>2, <2>3
    <3> QED BY <3>1 DEF SwapRemove
  <2> HIDE DEF i, places
  <2>5. n >= 1 /\ n \in 1..n /\ s # <<>> /\ Last(s) = s[n]
    BY <1>2, <2>3, EmptySeq DEF Last
  <2>6. Last(s) \in S
    BY <2>5, FrontLastType
  <2>7. swapped \in Seq(S) /\ Len(swapped) = n
    BY <2>3, <2>6, ExceptSeq
  <2>8. \A k \in 1..n : swapped[k] = IF k = i THEN s[n] ELSE s[k]
    BY <1>2, <2>3, <2>5
  <2> HIDE DEF swapped
  <2>9. /\ r \in Seq(S) /\ Len(r) = n - 1 /\ DOMAIN r = 1..(n - 1)
        /\ \A k \in 1..(n - 1) : r[k] = swapped[k]
    <3>1. n - 1 \in Nat /\ n - 1 <= Len(swapped)
      BY <1>2, <2>5, <2>7
    <3>2. r = SubSeq(swapped, 1, n - 1)
      BY <2>7 DEF Front
    <3> HIDE DEF r, n
    <3>3. /\ r \in Seq(S) /\ Len(r) = n - 1
          /\ \A k \in 1..(n - 1) : r[k] = swapped[k]
      BY <2>7, <3>1, <3>2, PrefixType
    <3> QED BY <3>3, LenProperties
  <2> HIDE DEF r, n
  <2>10. \A k \in 1..(n - 1) : k \in 1..n /\ k # n
    BY <1>2
  <2>11. \A k \in 1..n : k # n => k \in 1..(n - 1)
    BY <1>2
  <2>12. \A k \in 1..(n - 1) : r[k] = IF k = i THEN s[n] ELSE s[k]
    BY <2>8, <2>9, <2>10
  <2>13. \A j, k \in 1..n : s[j] = s[k] => j = k
    BY <1>2 DEF IsInjective
  <2>14. IsInjective(r)
    <3> SUFFICES ASSUME NEW j \in 1..(n - 1), NEW k \in 1..(n - 1), r[j] = r[k]
                 PROVE  j = k
      BY <2>9 DEF IsInjective
    <3> QED BY <2>5, <2>10, <2>12, <2>13
  <2>15. ASSUME NEW k \in 1..(n - 1) PROVE r[k] \in Range(s) \ {id}
    <3>1. r[k] = IF k = i THEN s[n] ELSE s[k]
      BY <2>12
    <3>2. r[k] \in Range(s)
      BY <1>2, <2>5, <2>10, <3>1 DEF Range
    <3>3. r[k] # id
      BY <2>3, <2>5, <2>10, <2>13, <3>1
    <3> QED BY <3>2, <3>3
  <2>16. ASSUME NEW k \in 1..n, s[k] # id PROVE \E j \in 1..(n - 1) : r[j] = s[k]
    <3>1. CASE k = n
      <4>1. i \in 1..(n - 1) /\ r[i] = s[n]
        BY <2>3, <2>11, <2>12, <2>16, <3>1
      <4> QED BY <3>1, <4>1
    <3>2. CASE k # n
      <4>1. k \in 1..(n - 1) /\ k # i
        BY <2>3, <2>11, <2>16, <3>2
      <4> QED BY <2>12, <4>1
    <3> QED BY <3>1, <3>2
  <2>17. Range(r) = {r[k] : k \in 1..(n - 1)} /\ Range(s) = {s[k] : k \in 1..n}
    BY <1>2, <2>9 DEF Range
  <2>18. ASSUME NEW x PROVE x \in Range(r) <=> x \in Range(s) \ {id}
    <3>1. ASSUME x \in Range(r) PROVE x \in Range(s) \ {id}
      BY <2>15, <2>17, <3>1
    <3>2. ASSUME x \in Range(s) \ {id} PROVE x \in Range(r)
      <4>1. PICK k \in 1..n : x = s[k]
        BY <2>17, <3>2
      <4> QED BY <2>16, <2>17, <3>2, <4>1
    <3> QED BY <3>1, <3>2
  <2>19. Range(r) = Range(s) \ {id}
    BY <2>18
  <2> QED BY <2>4, <2>14, <2>19
<1> QED BY <1>3, <1>4

\* Lists in which no id occurs twice.
Tidy(lists) ==
    /\ lists \in [Package -> Seq(Nat)]
    /\ \A q \in Package : IsInjective(lists[q])

\* The lists new are tidy, and lists with id added to, or taken from, those of
\* the packages in S.
Listed(new, lists, S, id) ==
    /\ Tidy(new)
    /\ \A q \in Package : Range(new[q]) =
          IF q \in S THEN Range(lists[q]) \cup {id} ELSE Range(lists[q])

Unlisted(new, lists, S, id) ==
    /\ Tidy(new)
    /\ \A q \in Package : Range(new[q]) =
          IF q \in S THEN Range(lists[q]) \ {id} ELSE Range(lists[q])

LEMMA AddWatchOnce ==
    ASSUME NEW lists, Tidy(lists), NEW pkg \in Package, NEW id \in Nat,
           id \notin Range(lists[pkg])
    PROVE  Listed(AddWatch(lists, pkg, id), lists, {pkg}, id)
<1> DEFINE more == Append(lists[pkg], id)
<1>1. /\ lists[pkg] \in Seq(Nat) /\ IsInjective(lists[pkg])
      /\ lists \in [Package -> Seq(Nat)]
  BY DEF Tidy
<1>2. /\ more \in Seq(Nat) /\ IsInjective(more)
      /\ Range(more) = Range(lists[pkg]) \cup {id}
  BY <1>1, AppendOnce, AppendProperties
<1>3. AddWatch(lists, pkg, id) = [lists EXCEPT ![pkg] = more]
  BY DEF AddWatch
<1> HIDE DEF more
<1>4. /\ AddWatch(lists, pkg, id) \in [Package -> Seq(Nat)]
      /\ \A q \in Package : AddWatch(lists, pkg, id)[q] =
            IF q = pkg THEN more ELSE lists[q]
  BY <1>1, <1>2, <1>3
<1>5. Tidy(AddWatch(lists, pkg, id))
  BY <1>2, <1>4 DEF Tidy
<1> QED BY <1>2, <1>4, <1>5 DEF Listed

LEMMA RemoveWatchOnce ==
    ASSUME NEW lists, Tidy(lists), NEW pkg \in Package, NEW id
    PROVE  Unlisted(RemoveWatch(lists, pkg, id), lists, {pkg}, id)
<1> DEFINE fewer == SwapRemove(lists[pkg], id)
<1>1. /\ lists[pkg] \in Seq(Nat) /\ IsInjective(lists[pkg])
      /\ lists \in [Package -> Seq(Nat)]
  BY DEF Tidy
<1>2. /\ fewer \in Seq(Nat) /\ IsInjective(fewer)
      /\ Range(fewer) = Range(lists[pkg]) \ {id}
  BY <1>1, SwapRemoveOnce, SwapRemoveType
<1>3. RemoveWatch(lists, pkg, id) = [lists EXCEPT ![pkg] = fewer]
  BY DEF RemoveWatch
<1> HIDE DEF fewer
<1>4. /\ RemoveWatch(lists, pkg, id) \in [Package -> Seq(Nat)]
      /\ \A q \in Package : RemoveWatch(lists, pkg, id)[q] =
            IF q = pkg THEN fewer ELSE lists[q]
  BY <1>1, <1>2, <1>3
<1>5. Tidy(RemoveWatch(lists, pkg, id))
  BY <1>2, <1>4 DEF Tidy
<1> QED BY <1>2, <1>4, <1>5 DEF Unlisted

\* Both watches of an id that has none.
LEMMA WatchPairOnce ==
    ASSUME NEW lists, Tidy(lists), NEW a \in Package, NEW b \in Package,
           NEW id \in Nat, id \notin Range(lists[a]), id \notin Range(lists[b])
    PROVE  Listed(WatchPair(lists, <<a, b>>, id), lists, {a, b}, id)
<1> DEFINE one == AddWatch(lists, a, id)
<1>1. Listed(one, lists, {a}, id)
  BY AddWatchOnce
<1>2. WatchPair(lists, <<a, b>>, id) =
         IF b = a THEN one ELSE AddWatch(one, b, id)
  BY DEF WatchPair
<1> HIDE DEF one
<1>3. CASE b = a
  BY <1>1, <1>2, <1>3 DEF Listed
<1>4. CASE b # a
  <2>1. Tidy(one) /\ id \notin Range(one[b])
    BY <1>1, <1>4 DEF Listed
  <2>2. Listed(AddWatch(one, b, id), one, {b}, id)
    BY <2>1, AddWatchOnce
  <2> QED BY <1>1, <1>2, <1>4, <2>2 DEF Listed
<1> QED BY <1>3, <1>4

LEMMA UnwatchPairOnce ==
    ASSUME NEW lists, Tidy(lists), NEW pair, pair[1] \in Package,
           pair[2] \in Package, NEW id
    PROVE  Unlisted(UnwatchPair(lists, pair, id), lists, {pair[1], pair[2]}, id)
<1> DEFINE one == RemoveWatch(lists, pair[1], id)
<1>1. Unlisted(one, lists, {pair[1]}, id)
  BY RemoveWatchOnce, Zenon
<1>2. UnwatchPair(lists, pair, id) =
         IF pair[2] = pair[1] THEN one ELSE RemoveWatch(one, pair[2], id)
  BY DEF UnwatchPair
<1> HIDE DEF one
<1>3. CASE pair[2] = pair[1]
  BY <1>1, <1>2, <1>3 DEF Unlisted
<1>4. CASE pair[2] # pair[1]
  <2>1. Tidy(one)
    BY <1>1 DEF Unlisted
  <2>2. Unlisted(RemoveWatch(one, pair[2], id), one, {pair[2]}, id)
    BY <2>1, RemoveWatchOnce, Zenon
  <2> QED BY <1>1, <1>2, <1>4, <2>2 DEF Unlisted
<1> QED BY <1>3, <1>4

\* The packages an incompatibility watches.
Watching(wi, id) == {wi.watched[id][1], wi.watched[id][2]}

\* No list and no note of a learned incompatibility has an id twice; lists
\* are of ids that watch their package; and what was not forgotten is listed
\* under both its packages.  A backjump lists forgotten ids again, without a
\* note, so that these may or may not be listed.
Agreeing(wi, derived) ==
    /\ \A q \in Package : /\ IsInjective(wi.lists[q])
                          /\ \A id \in Range(wi.lists[q]) : q \in Watching(wi, id)
    /\ \A id \in DOMAIN wi.watched : id \notin derived \ Range(wi.learned) =>
          \A q \in Watching(wi, id) : id \in Range(wi.lists[q])
    /\ IsInjective(wi.learned) /\ Range(wi.learned) \subseteq derived

\* What of WellIndexed the lemmas on agreement use.
LEMMA IndexFacts ==
    ASSUME NEW n \in Nat, NEW wi, WellIndexed(wi, n), NEW derived,
           Agreeing(wi, derived)
    PROVE  /\ Tidy(wi.lists) /\ wi.watched \in Seq(Package \X Package)
           /\ DOMAIN wi.watched = 1..n /\ Len(wi.watched) = n
           /\ \A q \in Package : Range(wi.lists[q]) \subseteq 1..n
           /\ \A id \in 1..n : /\ wi.watched[id] \in Package \X Package
                               /\ Watching(wi, id) \subseteq Package
           /\ wi.learned \in Seq(1..n)
<1>1. /\ wi \in [lists: [Package -> Seq(1..n)],
                    watched: Seq(Package \X Package), learned: Seq(1..n)]
      /\ Len(wi.watched) = n
  BY DEF WellIndexed
<1>2. /\ wi.lists \in [Package -> Seq(1..n)]
      /\ wi.watched \in Seq(Package \X Package) /\ wi.learned \in Seq(1..n)
  BY <1>1
<1>3. DOMAIN wi.watched = 1..n
  BY <1>1, <1>2, LenProperties
<1>4. \A id \in 1..n : wi.watched[id] \in Package \X Package
  BY <1>1, <1>2, ElementOfSeq
<1>5. \A id \in 1..n : Watching(wi, id) \subseteq Package
  <2> TAKE id \in 1..n
  <2>1. wi.watched[id] \in Package \X Package
    BY <1>4
  <2> QED BY <2>1 DEF Watching
<1>6. ASSUME NEW q \in Package
      PROVE  wi.lists[q] \in Seq(Nat) /\ Range(wi.lists[q]) \subseteq 1..n
  <2>1. wi.lists[q] \in Seq(1..n)
    BY <1>2
  <2>2. wi.lists[q] \in Seq(Nat)
    BY <2>1, SeqMonotonic
  <2>3. \A i \in DOMAIN wi.lists[q] : wi.lists[q][i] \in 1..n
    BY <2>1, ElementOfSeq, LenProperties
  <2> QED BY <2>2, <2>3 DEF Range
<1>7. Tidy(wi.lists)
  <2>1. wi.lists \in [Package -> Seq(Nat)]
    BY <1>2, <1>6
  <2> QED BY <2>1 DEF Tidy, Agreeing
<1> QED BY <1>1, <1>2, <1>3, <1>4, <1>5, <1>6, <1>7

\* set_watches moves the watches of one id and of no other.
LEMMA SetWatchesAgreeing ==
    ASSUME NEW n \in Nat, NEW wi, WellIndexed(wi, n), NEW derived,
           Agreeing(wi, derived),
           NEW id \in 1..n, NEW a \in Package, NEW b \in Package
    PROVE  LET new == SetWatches(wi, id, a, b)
           IN  /\ Agreeing(new, derived)
               /\ new.learned = wi.learned
               /\ \A j \in 1..n : j # id => new.watched[j] = wi.watched[j]
<1> DEFINE old == wi.watched[id]
           gone == UnwatchPair(wi.lists, old, id)
           lists == WatchPair(gone, <<a, b>>, id)
           watched == [wi.watched EXCEPT ![id] = <<a, b>>]
           new == SetWatches(wi, id, a, b)
<1>1. /\ Tidy(wi.lists) /\ wi.watched \in Seq(Package \X Package)
      /\ DOMAIN wi.watched = 1..n
      /\ \A q \in Package : Range(wi.lists[q]) \subseteq 1..n
      /\ \A j \in 1..n : Watching(wi, j) \subseteq Package
      /\ old \in Package \X Package
  BY IndexFacts
<1>2. CASE old \in {<<a, b>>, <<b, a>>}
  BY <1>2 DEF SetWatches
<1>3. CASE old \notin {<<a, b>>, <<b, a>>}
  <2>1. /\ Tidy(gone)
        /\ \A q \in Package : Range(gone[q]) =
              IF q \in {old[1], old[2]} THEN Range(wi.lists[q]) \ {id}
              ELSE Range(wi.lists[q])
    <3>1. old[1] \in Package /\ old[2] \in Package
      BY <1>1
    <3>2. Tidy(wi.lists)
      BY <1>1
    <3> HIDE DEF old
    <3>3. Unlisted(gone, wi.lists, {old[1], old[2]}, id)
      BY <3>1, <3>2, UnwatchPairOnce, Zenon
    <3> HIDE DEF gone
    <3> QED BY <3>3 DEF Unlisted
  <2>2. \A q \in Package : q \notin {old[1], old[2]} => id \notin Range(wi.lists[q])
    BY DEF Agreeing, Watching
  <2>3. \A q \in Package : Range(gone[q]) = Range(wi.lists[q]) \ {id}
    BY <2>1, <2>2
  <2> HIDE DEF gone
  <2>4. /\ Tidy(lists)
        /\ \A q \in Package : Range(lists[q]) =
              IF q \in {a, b} THEN Range(gone[q]) \cup {id} ELSE Range(gone[q])
    <3>1. id \in Nat /\ id \notin Range(gone[a]) /\ id \notin Range(gone[b])
      BY <2>3
    <3>2. Tidy(gone)
      BY <2>1
    <3>3. Listed(lists, gone, {a, b}, id)
      BY <3>1, <3>2, WatchPairOnce, Zenon
    <3> HIDE DEF lists
    <3> QED BY <3>3 DEF Listed
  <2>5. new.lists = lists /\ new.watched = watched /\ new.learned = wi.learned
    <3>1. new = [wi EXCEPT !.lists = lists, !.watched = watched]
      BY <1>3 DEF SetWatches, gone
    <3>2. wi \in [lists: [Package -> Seq(1..n)],
                     watched: Seq(Package \X Package), learned: Seq(1..n)]
      BY DEF WellIndexed
    <3> HIDE DEF new, lists, watched
    <3> QED BY <3>1, <3>2
  <2>6. /\ DOMAIN watched = 1..n /\ watched[id] = <<a, b>>
        /\ \A j \in 1..n : j # id => watched[j] = wi.watched[j]
    BY <1>1
  <2> HIDE DEF lists, watched, new
  <2>7. /\ Watching(new, id) = {a, b}
        /\ \A j \in 1..n : j # id => Watching(new, j) = Watching(wi, j)
    BY <2>5, <2>6 DEF Watching
  <2>8. ASSUME NEW q \in Package
        PROVE  /\ IsInjective(new.lists[q])
               /\ \A j \in Range(new.lists[q]) : q \in Watching(new, j)
    <3>1. IsInjective(new.lists[q])
      BY <2>4, <2>5 DEF Tidy
    <3>2. ASSUME NEW j \in Range(new.lists[q]) PROVE q \in Watching(new, j)
      <4>1. CASE j = id
        BY <2>3, <2>4, <2>5, <2>7, <3>2, <4>1
      <4>2. CASE j # id
        <5>1. j \in Range(wi.lists[q])
          BY <2>3, <2>4, <2>5, <3>2, <4>2
        <5> QED BY <1>1, <2>7, <4>2, <5>1 DEF Agreeing
      <4> QED BY <4>1, <4>2
    <3> QED BY <3>1, <3>2
  <2>9. ASSUME NEW j \in 1..n, j \notin derived \ Range(wi.learned),
               NEW q \in Watching(new, j)
        PROVE  j \in Range(new.lists[q])
    <3>1. CASE j = id
      BY <2>4, <2>5, <2>7, <2>9, <3>1
    <3>2. CASE j # id
      <4>1. q \in Watching(wi, j) /\ q \in Package
        BY <1>1, <2>7, <2>9, <3>2
      <4>2. j \in Range(wi.lists[q])
        BY <1>1, <2>9, <4>1 DEF Agreeing
      <4> QED BY <2>3, <2>4, <2>5, <3>2, <4>1, <4>2
    <3> QED BY <3>1, <3>2
  <2>10. Agreeing(new, derived)
    BY <2>5, <2>6, <2>8, <2>9 DEF Agreeing
  <2> QED BY <2>5, <2>6, <2>10 DEF new
<1> QED BY <1>2, <1>3

\* ensure_watched.
LEMMA EnsureWatchedAgreeing ==
    ASSUME NEW n \in Nat, NEW wi, WellIndexed(wi, n), NEW derived,
           Agreeing(wi, derived), NEW id \in 1..n, NEW pkg \in Package
    PROVE  LET new == EnsureWatched(wi, id, pkg)
           IN  /\ Agreeing(new, derived)
               /\ new.learned = wi.learned
               /\ \A j \in 1..n : j # id => new.watched[j] = wi.watched[j]
<1>1. wi.watched[id] \in Package \X Package
  BY IndexFacts
<1>2. wi.watched[id][1] \in Package
  BY <1>1
<1>3. CASE EnsureWatched(wi, id, pkg) = wi
  BY <1>3
<1>4. CASE EnsureWatched(wi, id, pkg) =
              SetWatches(wi, id, pkg, wi.watched[id][1])
  BY <1>2, <1>4, SetWatchesAgreeing
<1> QED BY <1>3, <1>4 DEF EnsureWatched

\* The first of a sequence without repetitions is not in the rest.
LEMMA TailOnce ==
    ASSUME NEW S, NEW s \in Seq(S), s # <<>>, IsInjective(s)
    PROVE  IsInjective(Tail(s)) /\ Range(Tail(s)) = Range(s) \ {Head(s)}
<1>1. /\ Head(s) = s[1] /\ Len(Tail(s)) = Len(s) - 1 /\ Len(s) \in Nat \ {0}
      /\ Tail(s) \in Seq(S)
      /\ \A i \in 1..Len(Tail(s)) : Tail(s)[i] = s[i + 1]
  BY HeadTailProperties, EmptySeq
<1>2. DOMAIN s = 1..Len(s) /\ DOMAIN Tail(s) = 1..(Len(s) - 1)
  BY <1>1
<1>3. \A i \in 1..(Len(s) - 1) :
         /\ i + 1 \in 1..Len(s) /\ i + 1 # 1 /\ Tail(s)[i] = s[i + 1]
  BY <1>1
<1>4. \A i, j \in 1..Len(s) : s[i] = s[j] => i = j
  BY <1>2 DEF IsInjective
<1>5. IsInjective(Tail(s))
  <2> SUFFICES ASSUME NEW i \in 1..(Len(s) - 1), NEW j \in 1..(Len(s) - 1),
                      Tail(s)[i] = Tail(s)[j]
               PROVE  i = j
    BY <1>2 DEF IsInjective
  <2>1. i + 1 = j + 1
    BY <1>3, <1>4
  <2> QED BY <2>1
<1>6. Head(s) \notin Range(Tail(s))
  <2> SUFFICES ASSUME NEW i \in 1..(Len(s) - 1), Tail(s)[i] = s[1] PROVE FALSE
    BY <1>1, <1>2 DEF Range
  <2>1. 1 \in 1..Len(s)
    BY <1>1
  <2> QED BY <1>3, <1>4, <2>1
<1> QED BY <1>5, <1>6, HeadTailMembers

\* gc_learned_watches forgets the oldest.
LEMMA GcLearnedWatchesAgreeing ==
    ASSUME NEW n \in Nat, NEW wi, WellIndexed(wi, n), NEW derived,
           Agreeing(wi, derived)
    PROVE  Agreeing(GcLearnedWatches(wi), derived)
<1> DEFINE id == Head(wi.learned)
           lists == UnwatchPair(wi.lists, wi.watched[id], id)
           new == GcLearnedWatches(wi)
<1>1. /\ Tidy(wi.lists) /\ DOMAIN wi.watched = 1..n
      /\ wi.learned \in Seq(1..n)
      /\ \A j \in 1..n : /\ wi.watched[j] \in Package \X Package
                         /\ Watching(wi, j) \subseteq Package
  BY IndexFacts
<1>2. CASE Len(wi.learned) <= MaxLearnedWatched
  BY <1>2 DEF GcLearnedWatches
<1>3. CASE ~(Len(wi.learned) <= MaxLearnedWatched)
  <2>1. wi.learned # <<>>
    BY <1>1, <1>3, MaxLearnedAssumption, EmptySeq
  <2>2. id \in 1..n /\ id \in Range(wi.learned)
    BY <1>1, <2>1, HeadTailMembers
  <2>3. /\ IsInjective(Tail(wi.learned))
        /\ Range(Tail(wi.learned)) = Range(wi.learned) \ {id}
    BY <1>1, <2>1, TailOnce DEF Agreeing
  <2> HIDE DEF id
  <2>4. /\ Tidy(lists)
        /\ \A q \in Package : Range(lists[q]) =
              IF q \in Watching(wi, id) THEN Range(wi.lists[q]) \ {id}
              ELSE Range(wi.lists[q])
    <3>1. wi.watched[id][1] \in Package /\ wi.watched[id][2] \in Package
      BY <1>1, <2>2
    <3>2. Tidy(wi.lists)
      BY <1>1
    <3>3. Unlisted(lists, wi.lists, {wi.watched[id][1], wi.watched[id][2]}, id)
      BY <3>1, <3>2, UnwatchPairOnce, Zenon
    <3> HIDE DEF lists
    <3> QED BY <3>3 DEF Unlisted, Watching
  <2> HIDE DEF lists
  <2>5. /\ new.lists = lists /\ new.watched = wi.watched
        /\ new.learned = Tail(wi.learned)
    <3>1. new = [wi EXCEPT !.lists = lists, !.learned = Tail(wi.learned)]
      <4>1. wi \in [lists: [Package -> Seq(1..n)],
                       watched: Seq(Package \X Package), learned: Seq(1..n)]
        BY DEF WellIndexed
      <4> QED BY <1>3, <4>1 DEF GcLearnedWatches, lists, id
    <3>2. wi \in [lists: [Package -> Seq(1..n)],
                     watched: Seq(Package \X Package), learned: Seq(1..n)]
      BY DEF WellIndexed
    <3> HIDE DEF new
    <3> QED BY <3>1, <3>2
  <2> HIDE DEF new
  <2>6. \A j : Watching(new, j) = Watching(wi, j)
    BY <2>5 DEF Watching
  <2>7. ASSUME NEW q \in Package
        PROVE  /\ IsInjective(new.lists[q])
               /\ \A j \in Range(new.lists[q]) : q \in Watching(new, j)
    BY <2>4, <2>5, <2>6 DEF Tidy, Agreeing
  <2>8. ASSUME NEW j \in 1..n, j \notin derived \ Range(new.learned),
               NEW q \in Watching(new, j)
        PROVE  j \in Range(new.lists[q])
    <3>1. id \in derived
      BY <2>2 DEF Agreeing
    <3>2. j # id /\ j \notin derived \ Range(wi.learned)
      BY <2>3, <2>5, <2>8, <3>1
    <3>3. q \in Watching(wi, j) /\ q \in Package
      BY <1>1, <2>6, <2>8
    <3>4. j \in Range(wi.lists[q])
      BY <1>1, <3>2, <3>3 DEF Agreeing
    <3> QED BY <2>4, <2>5, <3>2, <3>3, <3>4
  <2>9. IsInjective(new.learned) /\ Range(new.learned) \subseteq derived
    BY <2>3, <2>5 DEF Agreeing
  <2>10. Agreeing(new, derived)
    BY <1>1, <2>5, <2>7, <2>8, <2>9 DEF Agreeing
  <2> QED BY <2>10 DEF new
<1> QED BY <1>2, <1>3

\* register_incompatibility watches a pair for the new id.
LEMMA RegisterWatchesAgreeing ==
    ASSUME NEW n \in Nat, NEW wi, WellIndexed(wi, n), NEW derived,
           derived \subseteq 1..n, Agreeing(wi, derived),
           NEW pair \in Package \X Package, NEW isDerived \in BOOLEAN
    PROVE  Agreeing(RegisterWatches(wi, n + 1, pair, isDerived),
                    IF isDerived THEN derived \cup {n + 1} ELSE derived)
<1> DEFINE id == n + 1
           lists == WatchPair(wi.lists, pair, id)
           watched == Append(wi.watched, pair)
           new == [wi EXCEPT !.lists = lists, !.watched = watched]
           noted == [new EXCEPT !.learned = Append(@, id)]
           more == IF isDerived THEN derived \cup {id} ELSE derived
<1>1. /\ Tidy(wi.lists) /\ wi.watched \in Seq(Package \X Package)
      /\ DOMAIN wi.watched = 1..n /\ Len(wi.watched) = n
      /\ wi.learned \in Seq(1..n)
      /\ \A q \in Package : Range(wi.lists[q]) \subseteq 1..n
      /\ \A j \in 1..n : Watching(wi, j) \subseteq Package
  BY IndexFacts
<1>2. /\ id \in Nat /\ id \notin 1..n /\ 1..id = 1..n \cup {id} /\ id \in 1..id
      /\ 1..n \subseteq 1..id
  OBVIOUS
<1>3. PICK a \in Package, b \in Package : pair = <<a, b>>
  OBVIOUS
<1>4. /\ Tidy(lists)
      /\ \A q \in Package : Range(lists[q]) =
            IF q \in {a, b} THEN Range(wi.lists[q]) \cup {id}
            ELSE Range(wi.lists[q])
  <2> HIDE DEF id
  <2>1. /\ id \in Nat /\ Tidy(wi.lists)
        /\ id \notin Range(wi.lists[a]) /\ id \notin Range(wi.lists[b])
    BY <1>1, <1>2
  <2>2. Listed(WatchPair(wi.lists, <<a, b>>, id), wi.lists, {a, b}, id)
    BY <2>1, WatchPairOnce, Zenon
  <2>3. Listed(lists, wi.lists, {a, b}, id)
    BY <1>3, <2>2
  <2> HIDE DEF lists
  <2> QED BY <2>3 DEF Listed
<1>5. /\ DOMAIN watched = 1..id /\ watched[id] = pair
      /\ \A j \in 1..n : watched[j] = wi.watched[j]
  <2>1. /\ watched \in Seq(Package \X Package) /\ Len(watched) = id
        /\ watched[id] = pair /\ \A j \in 1..n : watched[j] = wi.watched[j]
    BY <1>1, AppendProperties
  <2> QED BY <2>1, LenProperties
<1>6. /\ IsInjective(Append(wi.learned, id))
      /\ Range(Append(wi.learned, id)) = Range(wi.learned) \cup {id}
      /\ Range(wi.learned) \subseteq 1..n
  <2> HIDE DEF id
  <2>1. Range(wi.learned) \subseteq 1..n
    BY DEF Agreeing
  <2>2. wi.learned \in Seq(1..id) /\ id \notin Range(wi.learned)
    BY <1>1, <1>2, <2>1, SeqMonotonic
  <2> QED BY <1>2, <2>1, <2>2, AppendOnce DEF Agreeing
<1> HIDE DEF lists, watched
<1>7. /\ new.lists = lists /\ new.watched = watched /\ new.learned = wi.learned
      /\ noted.lists = lists /\ noted.watched = watched
      /\ noted.learned = Append(wi.learned, id)
  <2>1. wi = [lists |-> wi.lists, watched |-> wi.watched, learned |-> wi.learned]
    BY DEF WellIndexed
  <2>2. new = [lists |-> lists, watched |-> watched, learned |-> wi.learned]
    <3>1. new = [wi EXCEPT !.lists = lists, !.watched = watched]
      OBVIOUS
    <3> HIDE DEF new
    <3> QED BY <2>1, <3>1
  <2>3. noted = [new EXCEPT !.learned = Append(wi.learned, id)]
    BY <2>2
  <2> HIDE DEF new, noted
  <2> QED BY <2>2, <2>3
<1> HIDE DEF new, noted
<1>8. ASSUME NEW wj, wj.lists = lists, wj.watched = watched,
             wj.learned = IF isDerived THEN Append(wi.learned, id)
                                       ELSE wi.learned
      PROVE  Agreeing(wj, more)
  <2> HIDE DEF id
  <2>1. /\ Watching(wj, id) = {a, b}
        /\ \A j \in 1..n : Watching(wj, j) = Watching(wi, j)
    BY <1>3, <1>5, <1>8 DEF Watching
  <2>2. ASSUME NEW q \in Package
        PROVE  /\ IsInjective(wj.lists[q])
               /\ \A j \in Range(wj.lists[q]) : q \in Watching(wj, j)
    <3>1. IsInjective(wj.lists[q])
      BY <1>4, <1>8 DEF Tidy
    <3>2. ASSUME NEW j \in Range(wj.lists[q]) PROVE q \in Watching(wj, j)
      <4>1. CASE j = id
        BY <1>1, <1>2, <1>4, <1>8, <2>1, <3>2, <4>1
      <4>2. CASE j # id
        <5>1. j \in Range(wi.lists[q]) /\ j \in 1..n
          BY <1>1, <1>4, <1>8, <3>2, <4>2
        <5> QED BY <2>1, <5>1 DEF Agreeing
      <4> QED BY <4>1, <4>2
    <3> QED BY <3>1, <3>2
  <2>3. ASSUME NEW j \in 1..id, j \notin more \ Range(wj.learned),
               NEW q \in Watching(wj, j)
        PROVE  j \in Range(wj.lists[q])
    <3>1. CASE j = id
      BY <1>4, <1>8, <2>1, <2>3, <3>1
    <3>2. CASE j # id
      <4>1. j \in 1..n
        BY <1>2, <2>3, <3>2
      <4>2. j \notin derived \ Range(wi.learned)
        BY <1>6, <1>8, <2>3, <3>2
      <4>3. q \in Watching(wi, j) /\ q \in Package
        BY <1>1, <2>1, <2>3, <4>1
      <4>4. j \in Range(wi.lists[q])
        BY <1>1, <4>1, <4>2, <4>3 DEF Agreeing
      <4> QED BY <1>4, <1>8, <4>3, <4>4
    <3> QED BY <3>1, <3>2
  <2>4. IsInjective(wj.learned) /\ Range(wj.learned) \subseteq more
    BY <1>6, <1>8 DEF Agreeing
  <2> HIDE DEF more
  <2> QED BY <1>5, <1>8, <2>2, <2>3, <2>4 DEF Agreeing
<1>9. CASE ~isDerived
  <2>1. RegisterWatches(wi, n + 1, pair, isDerived) = new
    BY <1>9 DEF RegisterWatches, new, lists, watched
  <2>2. Agreeing(new, more)
    BY <1>7, <1>8, <1>9
  <2> QED BY <2>1, <2>2
<1>10. CASE isDerived
  <2>1. RegisterWatches(wi, n + 1, pair, isDerived) = GcLearnedWatches(noted)
    BY <1>10 DEF RegisterWatches, noted, new, lists, watched
  <2>2. Agreeing(noted, more)
    BY <1>7, <1>8, <1>10
  <2>3. WellIndexed(noted, id)
    BY WatchedWellIndexed DEF noted, new, lists, watched
  <2>4. Agreeing(GcLearnedWatches(noted), more)
    BY <1>2, <2>2, <2>3, GcLearnedWatchesAgreeing
  <2> QED BY <2>1, <2>4
<1> QED BY <1>9, <1>10

-----------------------------------------------------------------------------
(* The watches of the solver's own index.                                  *)

LearnedIds == {id \in Ids : store[id].kind = "derived"}

\* The index agrees with itself, and the snapshot that is being walked holds
\* only what still watches its package: the walk moves the watches of the
\* incompatibility it is at, which the rest of the snapshot does not repeat.
WatchInv ==
    /\ Agreeing(watch, LearnedIds)
    /\ IsInjective(watchers)
    /\ \A id \in Range(watchers) : current \in Watching(watch, id)
    /\ pc \in {"register", "analyse"} => watchers = <<>>

\* An empty snapshot holds nothing.
LEMMA NoWatchers ==
    IsInjective(<<>>) /\ Range(<<>>) = {}
BY DEF IsInjective, Range

\* register_incompatibility.
LEMMA RegisterWatchesInv ==
    ASSUME StoreInv, WatchInv, NEW inc, NEW order \in Seq(Package),
           DOMAIN inc.terms # {}, DOMAIN inc.terms \subseteq ToSet(order),
           Register(inc, order), Len(store') = Len(store) + 1,
           \A id \in Ids : store'[id] = store[id],
           store'[Len(store) + 1] = inc,
           watchers = <<>>, watchers' = <<>>
    PROVE  WatchInv'
<1> DEFINE n == Len(store)
           isDerived == inc.kind = "derived"
           pair == InitialWatches(inc, order)
<1>1. n \in Nat
  BY LenProperties DEF StoreInv
<1>2. pair \in Package \X Package
  BY InitialWatchesType
<1>3. WellIndexed(watch, n) /\ Agreeing(watch, LearnedIds)
  BY DEF StoreInv, WatchInv
<1>4. watch' = RegisterWatches(watch, n + 1, pair, isDerived)
  BY DEF Register
<1>5. isDerived \in BOOLEAN /\ LearnedIds \subseteq 1..n
  BY DEF LearnedIds, Ids
<1>6. LearnedIds' = IF isDerived THEN LearnedIds \cup {n + 1} ELSE LearnedIds
  <2>1. Ids' = Ids \cup {n + 1} /\ n + 1 \notin Ids
    BY <1>1 DEF Ids
  <2> QED BY <2>1 DEF LearnedIds
<1> HIDE DEF n, pair, isDerived
<1>7. Agreeing(RegisterWatches(watch, n + 1, pair, isDerived),
               IF isDerived THEN LearnedIds \cup {n + 1} ELSE LearnedIds)
  BY <1>1, <1>2, <1>3, <1>5, RegisterWatchesAgreeing
<1>8. Agreeing(watch', LearnedIds')
  BY <1>4, <1>6, <1>7
<1> QED BY <1>8, NoWatchers DEF WatchInv

\* A step that touches neither the index nor the store and keeps, drops or
\* has no snapshot.
LEMMA WatchKept ==
    ASSUME WatchInv, UNCHANGED <<store, watch>>,
           \/ watchers' = <<>>
           \/ /\ UNCHANGED <<watchers, current>>
              /\ pc' \in {"register", "analyse"} => pc' = pc
    PROVE  WatchInv'
<1>1. Agreeing(watch', LearnedIds')
  BY DEF WatchInv, LearnedIds, Ids
<1>2. CASE watchers' = <<>>
  BY <1>1, <1>2, NoWatchers DEF WatchInv
<1>3. CASE /\ UNCHANGED <<watchers, current>>
           /\ pc' \in {"register", "analyse"} => pc' = pc
  <2>1. \A id \in Range(watchers) : Watching(watch, id)' = Watching(watch, id)
    BY DEF Watching
  <2> QED BY <1>1, <1>3, <2>1 DEF WatchInv, Watching
<1> QED BY <1>2, <1>3

\* A step of the walk: the watches of the head of the snapshot may move, those
\* of the rest stay.
LEMMA WalkKept ==
    ASSUME WatchInv, StoreInv, ControlInv, Examining, store' = store,
           pc' = pc, current' = current, watchers' = Tail(watchers),
           Agreeing(watch', LearnedIds),
           \A j \in Ids : j # Head(watchers) => watch'.watched[j] = watch.watched[j]
    PROVE  WatchInv'
<1>1. watchers # <<>> /\ watchers \in Seq(Ids)
  BY DEF Examining, ControlInv
<1>2. /\ IsInjective(watchers')
      /\ Range(watchers') = Range(watchers) \ {Head(watchers)}
  BY <1>1, TailOnce DEF WatchInv
<1>3. Range(watchers) \subseteq Ids
  <2>1. \A i \in DOMAIN watchers : watchers[i] \in Ids
    BY <1>1, ElementOfSeq, LenProperties
  <2> QED BY <2>1 DEF Range
<1>4. ASSUME NEW id \in Range(watchers')
      PROVE  current' \in Watching(watch', id)
  <2>1. id \in Range(watchers) /\ watch'.watched[id] = watch.watched[id]
    BY <1>2, <1>3, <1>4
  <2> QED BY <2>1 DEF WatchInv, Watching
<1>5. LearnedIds' = LearnedIds
  BY DEF LearnedIds, Ids
<1> QED BY <1>2, <1>4, <1>5 DEF WatchInv, Examining

\* SolverState::new.
LEMMA InitWatch == Init => WatchInv
<1> SUFFICES ASSUME Init PROVE WatchInv
  OBVIOUS
<1>1. /\ store = <<NotRoot>> /\ Len(store) = 1 /\ watchers = <<>>
      /\ watch = RegisterWatches(EmptyIndex, 1, <<Root, Root>>, FALSE)
  BY DEF Init
<1>2. LearnedIds = {}
  <2>1. Ids = {1} /\ store[1] = NotRoot
    BY <1>1 DEF Ids
  <2> QED BY <2>1 DEF LearnedIds, NotRoot
<1>3. WellIndexed(EmptyIndex, 0)
  BY EmptySeq DEF WellIndexed, EmptyIndex
<1>4. Agreeing(EmptyIndex, {})
  <2>1. /\ \A q \in Package : EmptyIndex.lists[q] = <<>>
        /\ EmptyIndex.learned = <<>> /\ EmptyIndex.watched = <<>>
    BY DEF EmptyIndex
  <2>2. DOMAIN EmptyIndex.watched = {}
    BY <2>1
  <2> QED BY <2>1, <2>2, NoWatchers DEF Agreeing
<1>5. <<Root, Root>> \in Package \X Package
  BY PackagesAssumption
<1>6. Agreeing(RegisterWatches(EmptyIndex, 0 + 1, <<Root, Root>>, FALSE),
               IF FALSE THEN {} \cup {0 + 1} ELSE {})
  BY <1>3, <1>4, <1>5, RegisterWatchesAgreeing
<1>7. Agreeing(watch, LearnedIds)
  <2>1. 0 + 1 = 1 /\ (IF FALSE THEN {} \cup {0 + 1} ELSE {}) = {}
    OBVIOUS
  <2> QED BY <1>1, <1>2, <1>6, <2>1
<1> QED BY <1>1, <1>7, NoWatchers DEF WatchInv

LEMMA RegisterDependencyWatch ==
    ASSUME Inv, WatchInv, RegisterDependency
    PROVE  WatchInv'
<1> DEFINE dep == Pending[nextDep]
           inc == FromDependency(choice.package, choice.version,
                                 dep.package, dep.range)
<1>1. /\ IsIncompatibility(inc)
      /\ DOMAIN inc.terms = {choice.package, dep.package}
  BY DependencyType DEF RegisterDependency, Inv
<1>2. /\ Register(inc, known') /\ pc = "register" /\ watchers' = watchers
      /\ store' = Append(store, inc)
  BY DEF RegisterDependency, Register, propagationVars
<1> HIDE DEF inc
<1>3. Inv'
  BY RegisterDependencyInv
<1>4. inc \in Incompatibility /\ store \in Seq(Incompatibility)
  BY <1>1, IncompatibilityDef DEF Inv, StoreInv
<1>5. /\ Len(store') = Len(store) + 1
      /\ \A id \in Ids : store'[id] = store[id]
      /\ store'[Len(store) + 1] = inc
  BY <1>2, <1>4, AppendProperties DEF Ids
<1>6. Len(store) \in Nat
  BY <1>4, LenProperties
<1>7. DOMAIN inc.terms # {} /\ DOMAIN inc.terms \subseteq ToSet(known')
  <2>1. Len(store) + 1 \in Ids'
    BY <1>5, <1>6 DEF Ids
  <2> QED BY <1>3, <1>5, <2>1 DEF Inv, StoreInv
<1>8. known' \in Seq(Package)
  BY <1>3 DEF Inv, StoreInv
<1>9. watchers = <<>>
  BY <1>2 DEF WatchInv
<1> QED BY <1>2, <1>5, <1>7, <1>8, <1>9, RegisterWatchesInv DEF Inv

LEMMA RegisterNoVersionsWatch ==
    ASSUME Inv, WatchInv, RegisterNoVersions
    PROVE  WatchInv'
<1>1. PICK pkg \in Undecided(ps) :
         Register(NoVersions(pkg, RangeOf(pkg)), known)
  BY DEF RegisterNoVersions
<1> DEFINE inc == NoVersions(pkg, RangeOf(pkg))
<1>2. /\ pkg \in Package /\ pkg \in ToSet(known) /\ pkg # Root
      /\ RangeOf(pkg) \in SUBSET Version
  BY UndecidedType DEF Inv
<1>3. IsIncompatibility(inc) /\ DOMAIN inc.terms = {pkg}
  BY <1>2, NoVersionsType DEF NoVersions
<1>4. /\ Register(inc, known) /\ watchers = <<>> /\ watchers' = <<>>
      /\ store' = Append(store, inc)
  BY <1>1 DEF RegisterNoVersions, Register, Quiescent
<1> HIDE DEF inc
<1>5. inc \in Incompatibility /\ store \in Seq(Incompatibility)
  BY <1>3, IncompatibilityDef DEF Inv, StoreInv
<1>6. /\ Len(store') = Len(store) + 1
      /\ \A id \in Ids : store'[id] = store[id]
      /\ store'[Len(store) + 1] = inc
  BY <1>4, <1>5, AppendProperties DEF Ids
<1>7. known \in Seq(Package)
  BY DEF Inv, StoreInv
<1>8. DOMAIN inc.terms # {} /\ DOMAIN inc.terms \subseteq ToSet(known)
  BY <1>2, <1>3
<1> QED BY <1>4, <1>6, <1>7, <1>8, RegisterWatchesInv DEF Inv

LEMMA ResolveWithCauseWatch ==
    ASSUME Inv, WatchInv, ResolveWithCause
    PROVE  WatchInv'
<1> DEFINE prior == PriorCause(store[conflict], store[Satisfier.cause],
                               Satisfier.package)
<1>1. pc = "analyse" /\ watchers' = watchers /\ watchers = <<>>
  BY DEF ResolveWithCause, propagationVars, WatchInv
<1>2. CASE DOMAIN prior.terms = {}
  <2>1. UNCHANGED <<store, watch>>
    BY <1>2 DEF ResolveWithCause
  <2> QED BY <1>1, <2>1, WatchKept
<1>3. CASE DOMAIN prior.terms # {}
  <2>1. Register(prior, known) /\ known' = known /\ store' = Append(store, prior)
    BY <1>3 DEF ResolveWithCause, Register
  <2>2. conflict \in Causes /\ Satisfier.cause \in Causes
    BY SatisfierType, NotTerminalCause DEF ResolveWithCause, Inv
  <2>3. Causes \subseteq Ids
    BY LenProperties DEF Inv, StoreInv, Causes, Ids
  <2>4. /\ IsIncompatibility(store[conflict])
        /\ IsIncompatibility(store[Satisfier.cause])
    BY <2>2, <2>3, ElementOfSeq, IncompatibilityDef DEF Inv, StoreInv, Ids
  <2>5. IsIncompatibility(prior)
    BY <2>4, PriorCauseType
  <2>6. DOMAIN prior.terms \subseteq ToSet(known)
    <3>1. DOMAIN prior.terms \subseteq
              DOMAIN store[conflict].terms \cup DOMAIN store[Satisfier.cause].terms
      BY DEF PriorCause
    <3> QED BY <2>2, <2>3, <3>1 DEF Inv, StoreInv
  <2> HIDE DEF prior
  <2>7. prior \in Incompatibility /\ store \in Seq(Incompatibility)
    BY <2>5, IncompatibilityDef DEF Inv, StoreInv
  <2>8. /\ Len(store') = Len(store) + 1
        /\ \A id \in Ids : store'[id] = store[id]
        /\ store'[Len(store) + 1] = prior
    BY <2>1, <2>7, AppendProperties DEF Ids
  <2>9. known \in Seq(Package)
    BY DEF Inv, StoreInv
  <2> QED BY <1>1, <1>3, <2>1, <2>6, <2>8, <2>9, RegisterWatchesInv DEF Inv
<1> QED BY <1>2, <1>3

LEMMA PopPackageWatch ==
    ASSUME Inv, WatchInv, PopPackage
    PROVE  WatchInv'
<1>1. buffer \in Seq(Package) /\ buffer # <<>>
  BY DEF Inv, ControlInv, PopPackage
<1>2. Last(buffer) \in Package
  BY <1>1, FrontLastType
<1>3. /\ UNCHANGED <<store, watch>> /\ pc' = "propagate"
      /\ current' = Last(buffer) /\ watchers' = watch.lists[Last(buffer)]
  BY DEF PopPackage, searchVars
<1>4. Agreeing(watch', LearnedIds')
  BY <1>3 DEF WatchInv, LearnedIds, Ids
<1>5. /\ IsInjective(watchers')
      /\ \A id \in Range(watchers') : current' \in Watching(watch', id)
  BY <1>2, <1>3 DEF WatchInv, Agreeing
<1> QED BY <1>3, <1>4, <1>5 DEF WatchInv

LEMMA DeriveUnitWatch ==
    ASSUME Inv, WatchInv, DeriveUnit
    PROVE  WatchInv'
<1> DEFINE id == Head(watchers)
<1>1. id \in Ids
  BY ExaminedType DEF DeriveUnit, Inv
<1>2. PICK pkg \in DOMAIN store[id].terms : watch' = EnsureWatched(watch, id, pkg)
  BY DEF DeriveUnit
<1>3. /\ Examining /\ store' = store /\ pc' = pc /\ current' = current
      /\ watchers' = Tail(watchers)
  BY DEF DeriveUnit
<1> HIDE DEF id
<1>4. pkg \in Package
  BY <1>1, <1>2, ElementOfSeq, IncompatibilityDef
     DEF Inv, StoreInv, Ids, IsIncompatibility
<1>5. Len(store) \in Nat /\ WellIndexed(watch, Len(store)) /\ Agreeing(watch, LearnedIds)
      /\ id \in 1..Len(store)
  BY <1>1, LenProperties DEF Inv, StoreInv, WatchInv, Ids
<1>6. /\ Agreeing(watch', LearnedIds)
      /\ \A j \in Ids : j # id => watch'.watched[j] = watch.watched[j]
  BY <1>2, <1>4, <1>5, EnsureWatchedAgreeing DEF Ids
<1> QED BY <1>3, <1>6, WalkKept DEF Inv, id

LEMMA LeaveDormantWatch ==
    ASSUME Inv, WatchInv, LeaveDormant
    PROVE  WatchInv'
<1> DEFINE id == Head(watchers)
           open == Unsatisfied(store[id])
           first == Lowest(known, open)
           second == Lowest(known, open \ {first})
<1>1. id \in Ids
  BY ExaminedType DEF LeaveDormant, Inv
<1>2. open \subseteq ToSet(known) /\ known \in Seq(Package)
  BY <1>1 DEF Unsatisfied, Inv, StoreInv
<1>3. /\ Examining /\ store' = store /\ pc' = pc /\ current' = current
      /\ watchers' = Tail(watchers)
  BY DEF LeaveDormant
<1>4. Len(store) \in Nat /\ WellIndexed(watch, Len(store)) /\ Agreeing(watch, LearnedIds)
      /\ id \in 1..Len(store)
  BY <1>1, LenProperties DEF Inv, StoreInv, WatchInv, Ids
<1>5. CASE StillWatched /\ open # {} /\ open \ {first} # {}
  <2>1. watch' = SetWatches(watch, id, first, second)
    BY <1>5 DEF LeaveDormant, RefreshWatches
  <2> HIDE DEF id, open
  <2>2. first \in Package
    BY <1>2, <1>5, LowestType
  <2> HIDE DEF first
  <2>3. second \in Package
    BY <1>2, <1>5, LowestType
  <2> HIDE DEF second
  <2>4. /\ Agreeing(watch', LearnedIds)
        /\ \A j \in Ids : j # id => watch'.watched[j] = watch.watched[j]
    BY <1>4, <2>1, <2>2, <2>3, SetWatchesAgreeing DEF Ids
  <2> QED BY <1>3, <2>4, WalkKept DEF Inv, id
<1>6. CASE ~(StillWatched /\ open # {} /\ open \ {first} # {})
  <2>1. watch' = watch
    BY <1>6 DEF LeaveDormant, RefreshWatches
  <2> QED BY <1>3, <1>4, <2>1, WalkKept DEF Inv
<1> QED BY <1>5, <1>6

LEMMA BackjumpWatch ==
    ASSUME Inv, WatchInv, Backjump
    PROVE  WatchInv'
<1> DEFINE pkg == Satisfier.package
<1>1. /\ pc = "analyse" /\ ~IsTerminal(store[conflict])
      /\ Satisfier.previous_dl < Satisfier.dl
      /\ watch' = EnsureWatched(watch, conflict, pkg)
      /\ store' = store /\ watchers' = watchers
  BY DEF Backjump
<1>2. conflict \in Ids /\ pkg \in Package
  BY <1>1, SatisfierType DEF Inv
<1> HIDE DEF pkg
<1>3. Len(store) \in Nat /\ WellIndexed(watch, Len(store)) /\ Agreeing(watch, LearnedIds)
      /\ conflict \in 1..Len(store)
  BY <1>2, LenProperties DEF Inv, StoreInv, WatchInv, Ids
<1>4. Agreeing(watch', LearnedIds)
  BY <1>1, <1>2, <1>3, EnsureWatchedAgreeing
<1>5. LearnedIds' = LearnedIds /\ watchers' = <<>>
  BY <1>1 DEF LearnedIds, Ids, WatchInv
<1> QED BY <1>4, <1>5, NoWatchers DEF WatchInv

\* Every step keeps the lists, the pairs and the snapshot in agreement.
LEMMA NextWatch == Inv /\ WatchInv /\ [Next]_vars => WatchInv'
<1> SUFFICES ASSUME Inv, WatchInv, [Next]_vars PROVE WatchInv'
  OBVIOUS
<1>1. CASE RegisterDependency
  BY <1>1, RegisterDependencyWatch
<1>2. CASE FinishRegistration
  <2>1. pc = "register" /\ UNCHANGED <<store, watch, watchers>>
    BY <1>2 DEF FinishRegistration
  <2> QED BY <2>1, WatchKept DEF WatchInv
<1>3. CASE PopPackage
  BY <1>3, PopPackageWatch
<1>4. CASE FindConflict
  BY <1>4, WatchKept DEF FindConflict, searchVars
<1>5. CASE DeriveUnit
  BY <1>5, DeriveUnitWatch
<1>6. CASE LeaveDormant
  BY <1>6, LeaveDormantWatch
<1>7. CASE ReportNoSolution
  BY <1>7, WatchKept DEF ReportNoSolution, searchVars, propagationVars
<1>8. CASE ResolveWithCause
  BY <1>8, ResolveWithCauseWatch
<1>9. CASE Backjump
  BY <1>9, BackjumpWatch
<1>10. CASE ReturnSolution
  BY <1>10, WatchKept DEF ReturnSolution, searchVars, propagationVars
<1>11. CASE RegisterNoVersions
  BY <1>11, RegisterNoVersionsWatch
<1>12. CASE ChooseVersion
  BY <1>12, WatchKept DEF ChooseVersion, Quiescent, searchVars, propagationVars
<1>13. CASE ChooseVersionAgain
  BY <1>13, WatchKept DEF ChooseVersionAgain, Quiescent
<1>14. CASE UNCHANGED vars
  BY <1>14, WatchKept DEF vars, searchVars, propagationVars
<1> QED BY <1>1, <1>2, <1>3, <1>4, <1>5, <1>6, <1>7, <1>8, <1>9, <1>10, <1>11,
           <1>12, <1>13, <1>14 DEF Next, Stopped

\* A sequence without repetitions has each of its members at one place.
LEMMA PlacesOnce ==
    ASSUME NEW s, IsInjective(s), NEW id
    PROVE  Cardinality({i \in DOMAIN s : s[i] = id}) =
               IF id \in Range(s) THEN 1 ELSE 0
<1>1. CASE id \in Range(s)
  <2>1. PICK k \in DOMAIN s : s[k] = id
    BY <1>1 DEF Range
  <2>2. {i \in DOMAIN s : s[i] = id} = {k}
    BY <2>1 DEF IsInjective
  <2> QED BY <1>1, <2>2, FS_Singleton
<1>2. CASE id \notin Range(s)
  <2>1. {i \in DOMAIN s : s[i] = id} = {}
    BY <1>2 DEF Range
  <2> QED BY <1>2, <2>1, FS_EmptySet
<1> QED BY <1>1, <1>2

LEMMA WatchInvAgrees == Inv /\ WatchInv => WatchListsAgree
<1> SUFFICES ASSUME Inv, WatchInv PROVE WatchListsAgree
  OBVIOUS
<1>1. /\ WellIndexed(watch, Len(store)) /\ Len(store) \in Nat
      /\ Agreeing(watch, LearnedIds) /\ DOMAIN store = Ids /\ Ids = 1..Len(store)
  BY LenProperties DEF Inv, StoreInv, WatchInv, Ids
<1>2. DOMAIN watch.watched = Ids
  BY <1>1, IndexFacts
<1>3. \A id \in Ids : id \notin Forgotten => id \notin LearnedIds \ Range(watch.learned)
  <2>1. \A id : ~Contains(watch.learned, id) <=> id \notin Range(watch.learned)
    <3>1. DOMAIN watch.learned = 1..Len(watch.learned)
      BY <1>1, IndexFacts, LenProperties
    <3> QED BY <3>1 DEF Contains, Range
  <2> TAKE id \in Ids
  <2> HAVE id \notin Forgotten
  <2>2. store[id].kind # "derived" \/ Contains(watch.learned, id)
    BY <1>1 DEF Forgotten
  <2> QED BY <2>1, <2>2 DEF LearnedIds
<1>4. ASSUME NEW id \in DOMAIN store \ Forgotten, NEW q \in Package
      PROVE  Cardinality({i \in DOMAIN watch.lists[q] : watch.lists[q][i] = id}) =
                IF q \in {watch.watched[id][1], watch.watched[id][2]} THEN 1 ELSE 0
  <2>1. IsInjective(watch.lists[q])
    BY <1>1 DEF Agreeing
  <2>2. id \in Range(watch.lists[q]) <=> q \in Watching(watch, id)
    BY <1>1, <1>2, <1>3, <1>4 DEF Agreeing
  <2>3. Cardinality({i \in DOMAIN watch.lists[q] : watch.lists[q][i] = id}) =
            IF id \in Range(watch.lists[q]) THEN 1 ELSE 0
    BY <2>1, PlacesOnce
  <2> QED BY <2>2, <2>3 DEF Watching
<1>5. Examining => StillWatched
  <2> SUFFICES ASSUME Examining PROVE StillWatched
    OBVIOUS
  <2>1. watchers \in Seq(Ids) /\ watchers # <<>>
    BY DEF Examining, Inv, ControlInv
  <2>2. Head(watchers) \in Range(watchers)
    BY <2>1, HeadTailMembers
  <2> QED BY <2>2 DEF WatchInv, Watching, StillWatched
<1> QED BY <1>4, <1>5 DEF WatchListsAgree

\* At every moment each incompatibility that was not forgotten is listed once
\* under each package of its pair and under no other, and unit_propagation
\* never meets a stale entry in the list it walks: its guard "The watch may
\* have already moved off current" never has to pass one over.
THEOREM WatchesAgree == Spec => []WatchListsAgree
<1>1. Init => WatchInv
  BY InitWatch
<1>2. Inv /\ WatchInv /\ [Next]_vars => WatchInv'
  BY NextWatch
<1>3. Inv /\ WatchInv => WatchListsAgree
  BY WatchInvAgrees
<1> QED BY Invariance, <1>1, <1>2, <1>3, PTL DEF Spec

-----------------------------------------------------------------------------
(* The trail.                                                               *)

Step == [package: Package, gi: Nat, dl: Nat, cause: Nat, term: Term]

Derived(q, d) ==
    [package |-> q, gi |-> d.gi, dl |-> d.dl, cause |-> d.cause,
     term |-> d.term]

Chosen(q, d) ==
    [package |-> q, gi |-> d.gi, dl |-> d.dl, cause |-> NoCause,
     term |-> Positive({d.version})]

StepsOf(q, pa) ==
    {Derived(q, pa.derivations[i]) : i \in DOMAIN pa.derivations}
    \cup {Chosen(q, d) : d \in IF Decided(pa) THEN {pa.decision} ELSE {}}

\* The steps of a package in a partial solution, and one step more.
StepsFor(p, q) ==
    IF q \in DOMAIN p.assigned THEN StepsOf(q, p.assigned[q]) ELSE {}

OneMore(before, after, new) == after = before \cup {new}

StepsIn(p) == UNION {StepsOf(q, p.assigned[q]) : q \in DOMAIN p.assigned}

\* The derivations of a package are in the order of time and before its
\* decision; the fields for the lowest and the highest level are up to date
\* where backtrack relies on them.
WellKept(pa) ==
    /\ \A i, j \in DOMAIN pa.derivations :
          i < j => pa.derivations[i].gi < pa.derivations[j].gi
    /\ Decided(pa) =>
          /\ pa.decision.dl = pa.highest_dl
          /\ \A i \in DOMAIN pa.derivations :
                pa.derivations[i].gi < pa.decision.gi
    /\ ~Decided(pa) => pa.derivations # <<>>
    /\ pa.smallest_dl = IF pa.derivations = <<>> THEN pa.highest_dl
                        ELSE pa.derivations[1].dl

\* No two steps have one date.  Later is never at a lower level, a decision
\* opens a level of its own, and later terms of a package are narrower.
Chronological(steps, next, level) ==
    /\ \A e \in steps : e.gi < next /\ e.dl <= level
    /\ \A e, f \in steps : e.gi = f.gi => e = f
    /\ \A e, f \in steps : e.gi < f.gi =>
          /\ e.dl <= f.dl
          /\ f.cause = NoCause => e.dl < f.dl
          /\ e.package = f.package => SubsetOf(f.term, e.term)
    /\ \A e \in steps : e.cause = NoCause => e.dl >= 1
    /\ \A dl \in 1..level : \E e \in steps : e.cause = NoCause /\ e.dl = dl

\* A term of q holds because of a step before gi, or whatever q is.
Before(steps, gi, q, t) ==
    \/ IsAnyTerm(t)
    \/ \E e \in steps : e.package = q /\ e.gi < gi /\ SubsetOf(e.term, t)

History(p) ==
    /\ \A q \in DOMAIN p.assigned : WellKept(p.assigned[q])
    /\ Chronological(StepsIn(p), p.next, p.level)

\* Each derivation has a cause all of whose other terms held before it.
CausedBy(steps, clauses) ==
    \A e \in steps : e.cause # NoCause =>
        \A q \in DOMAIN clauses[e.cause].terms \ {e.package} :
            Before(steps, e.gi, q, clauses[e.cause].terms[q])

\* A package is decided after something was derived about it; only the
\* project is decided for nothing.
Grounded(steps) ==
    \A e \in steps : e.cause = NoCause /\ e.package # Root =>
        \E f \in steps : f.package = e.package /\ f.gi < e.gi

\* What is derived at level 0 holds in every solution.
CertainIn(steps, idx) ==
    \A e \in steps : e.dl = 0 =>
        \A s \in Assignments : Valid(idx, s) => s[e.package] \in Allows(e.term)

\* The version being registered is of a package to decide, and in range.
Deciding ==
    pc = "register" /\ choice.package # Root =>
        /\ choice.package \in Undecided(ps)
        /\ choice.version \in RangeOf(choice.package)

HistoryInv ==
    /\ History(ps)
    /\ CausedBy(StepsIn(ps), store)
    /\ Grounded(StepsIn(ps))
    /\ Deciding
    /\ ConflictHolds

CertainInv == SelfFree(index) => CertainIn(StepsIn(ps), index) /\ RefusalSound

-----------------------------------------------------------------------------
(* Terms.                                                                  *)

\* Term::subset_of is a preorder, and intersections are below their parts.
LEMMA SubsetOfTransitive ==
    ASSUME NEW a \in Term, NEW b \in Term, NEW c \in Term,
           SubsetOf(a, b), SubsetOf(b, c)
    PROVE  SubsetOf(a, c)
BY DEF Term, SubsetOf

LEMMA SubsetOfReflexive ==
    ASSUME NEW a \in Term
    PROVE  SubsetOf(a, a)
BY DEF Term, SubsetOf

LEMMA IntersectionBelow ==
    ASSUME NEW a \in Term, NEW b \in Term
    PROVE  SubsetOf(Intersection(a, b), a) /\ SubsetOf(Intersection(a, b), b)
BY DEF Term, SubsetOf, Intersection, Positive, Negative

\* What is below both is below the intersection, what is below one is below
\* the union.
LEMMA BelowBoth ==
    ASSUME NEW a \in Term, NEW b \in Term, NEW c \in Term,
           SubsetOf(a, b), SubsetOf(a, c)
    PROVE  SubsetOf(a, Intersection(b, c))
BY DEF Term, SubsetOf, Intersection, Positive, Negative

LEMMA BelowOne ==
    ASSUME NEW a \in Term, NEW b \in Term, NEW c \in Term,
           SubsetOf(a, b) \/ SubsetOf(a, c)
    PROVE  SubsetOf(a, Union(b, c))
BY DEF Term, SubsetOf, Union, Positive, Negative

\* subset_of means what its name says.
LEMMA SubsetOfMeaning ==
    ASSUME NEW a \in Term, NEW b \in Term, SubsetOf(a, b),
           NEW c \in Choice, c \in Allows(a)
    PROVE  c \in Allows(b)
BY PackagesAssumption DEF Term, SubsetOf, Allows, Choice

\* find_satisfier asks whether a term is disjoint from the negation.
LEMMA DisjointFromNegation ==
    ASSUME NEW a \in Term, NEW b \in Term
    PROVE  IsDisjoint(a, Negate(b)) <=> SubsetOf(a, b)
BY DEF Term, SubsetOf, IsDisjoint, Negate

\* Only a term that says nothing is above the term that says nothing.
LEMMA AboveAnyTerm ==
    ASSUME NEW t \in Term
    PROVE  /\ SubsetOf(AnyTerm, t) <=> IsAnyTerm(t)
           /\ \A a \in Term : IsAnyTerm(t) => SubsetOf(a, t)
BY DEF Term, SubsetOf, AnyTerm, Negative, IsAnyTerm

-----------------------------------------------------------------------------
(* Sets of steps.                                                          *)

\* Time goes on.
LEMMA ChronologicalLater ==
    ASSUME NEW steps \in SUBSET Step, NEW next \in Nat, NEW level \in Nat,
           Chronological(steps, next, level)
    PROVE  Chronological(steps, next + 1, level)
<1>1. \A e \in steps : e.gi \in Nat
  BY DEF Step
<1> QED BY <1>1 DEF Chronological

\* The newest step is a derivation at the current level.
LEMMA ChronologicalDerive ==
    ASSUME NEW steps \in SUBSET Step, NEW next \in Nat, NEW level \in Nat,
           Chronological(steps, next, level),
           NEW new \in Step, new.gi = next, new.dl = level,
           new.cause # NoCause,
           \A e \in steps :
               e.package = new.package => SubsetOf(new.term, e.term)
    PROVE  Chronological(steps \cup {new}, next + 1, level)
<1>1. \A e \in steps \cup {new} : e.gi \in Nat /\ e.dl \in Nat
  BY DEF Step
<1>2. \A e \in steps : e.gi < next /\ e.dl <= level
  BY DEF Chronological
<1> DEFINE all == steps \cup {new}
<1>3. \A e \in all : e.gi < next + 1 /\ e.dl <= level
  BY <1>1, <1>2
<1>4. \A e, f \in all : e.gi = f.gi => e = f
  BY <1>1, <1>2 DEF Chronological
<1>5. \A e, f \in all : e.gi < f.gi =>
          /\ e.dl <= f.dl
          /\ f.cause = NoCause => e.dl < f.dl
          /\ e.package = f.package => SubsetOf(f.term, e.term)
  BY <1>1, <1>2 DEF Chronological
<1>6. \A e \in all : e.cause = NoCause => e.dl >= 1
  BY DEF Chronological
<1>7. \A dl \in 1..level : \E e \in all : e.cause = NoCause /\ e.dl = dl
  BY DEF Chronological
<1> QED BY <1>3, <1>4, <1>5, <1>6, <1>7 DEF Chronological

\* The newest step is a decision, which opens the next level.
LEMMA ChronologicalDecide ==
    ASSUME NEW steps \in SUBSET Step, NEW next \in Nat, NEW level \in Nat,
           Chronological(steps, next, level),
           NEW new \in Step, new.gi = next, new.dl = level + 1,
           new.cause = NoCause,
           \A e \in steps :
               e.package = new.package => SubsetOf(new.term, e.term)
    PROVE  Chronological(steps \cup {new}, next + 1, level + 1)
<1>1. \A e \in steps \cup {new} : e.gi \in Nat /\ e.dl \in Nat
  BY DEF Step
<1>2. \A e \in steps : e.gi < next /\ e.dl <= level
  BY DEF Chronological
<1> DEFINE all == steps \cup {new}
<1>3. \A e \in all : e.gi < next + 1 /\ e.dl <= level + 1
  BY <1>1, <1>2
<1>4. \A e, f \in all : e.gi = f.gi => e = f
  BY <1>1, <1>2 DEF Chronological
<1>5. \A e, f \in all : e.gi < f.gi =>
          /\ e.dl <= f.dl
          /\ f.cause = NoCause => e.dl < f.dl
          /\ e.package = f.package => SubsetOf(f.term, e.term)
  BY <1>1, <1>2 DEF Chronological
<1>6. \A e \in all : e.cause = NoCause => e.dl >= 1
  BY DEF Chronological
<1>7. \A dl \in 1..(level + 1) : \E e \in all : e.cause = NoCause /\ e.dl = dl
  <2> TAKE dl \in 1..(level + 1)
  <2>1. dl \in 1..level \/ dl = level + 1
    OBVIOUS
  <2> QED BY <2>1 DEF Chronological
<1> QED BY <1>3, <1>4, <1>5, <1>6, <1>7 DEF Chronological

\* The steps up to a level.
LEMMA ChronologicalUndo ==
    ASSUME NEW steps \in SUBSET Step, NEW next \in Nat, NEW level \in Nat,
           Chronological(steps, next, level), NEW target \in Nat,
           target <= level
    PROVE  Chronological({e \in steps : e.dl <= target}, next, target)
<1> DEFINE kept == {e \in steps : e.dl <= target}
<1>1. \A dl \in 1..target : \E e \in kept : e.cause = NoCause /\ e.dl = dl
  <2> TAKE dl \in 1..target
  <2>1. dl \in 1..level
    OBVIOUS
  <2>2. PICK e \in steps : e.cause = NoCause /\ e.dl = dl
    BY <2>1 DEF Chronological
  <2> QED BY <2>2
<1> QED BY <1>1 DEF Chronological

\* A derivation whose cause held keeps the causes right.
LEMMA CausedDerive ==
    ASSUME NEW steps \in SUBSET Step, NEW clauses, CausedBy(steps, clauses),
           NEW new \in Step, new.cause # NoCause =>
               \A q \in DOMAIN clauses[new.cause].terms \ {new.package} :
                   Before(steps, new.gi, q, clauses[new.cause].terms[q])
    PROVE  CausedBy(steps \cup {new}, clauses)
BY DEF CausedBy, Before

\* So does undoing, as what is before a step is not above its level.
LEMMA CausedUndo ==
    ASSUME NEW steps \in SUBSET Step, NEW clauses, CausedBy(steps, clauses),
           NEW next \in Nat, NEW level \in Nat,
           Chronological(steps, next, level), NEW target \in Nat
    PROVE  CausedBy({e \in steps : e.dl <= target}, clauses)
<1> DEFINE kept == {e \in steps : e.dl <= target}
<1>1. \A e \in steps : e.gi \in Nat /\ e.dl \in Nat
  BY DEF Step
<1>2. ASSUME NEW e \in kept, NEW q, NEW t, Before(steps, e.gi, q, t)
      PROVE  Before(kept, e.gi, q, t)
  <2>1. CASE IsAnyTerm(t)
    BY <2>1 DEF Before
  <2>2. CASE ~IsAnyTerm(t)
    <3>1. PICK f \in steps : f.package = q /\ f.gi < e.gi /\ SubsetOf(f.term, t)
      BY <1>2, <2>2 DEF Before
    <3>2. f.dl <= e.dl /\ e.dl <= target
      BY <3>1 DEF Chronological
    <3>3. f \in kept
      BY <1>1, <3>2
    <3> QED BY <3>1, <3>3 DEF Before
  <2> QED BY <2>1, <2>2
<1> HIDE DEF kept
<1>3. kept \subseteq steps
  BY DEF kept
<1>4. CausedBy(kept, clauses)
  BY <1>2, <1>3 DEF CausedBy
<1> QED BY <1>4 DEF kept

\* Undoing leaves what came before the decisions it leaves.
LEMMA GroundedUndo ==
    ASSUME NEW steps \in SUBSET Step, Grounded(steps),
           NEW next \in Nat, NEW level \in Nat,
           Chronological(steps, next, level), NEW target \in Nat
    PROVE  Grounded({e \in steps : e.dl <= target})
<1> DEFINE kept == {e \in steps : e.dl <= target}
<1>1. \A e \in steps : e.gi \in Nat /\ e.dl \in Nat
  BY DEF Step
<1>2. ASSUME NEW e \in kept, e.cause = NoCause, e.package # Root
      PROVE  \E f \in kept : f.package = e.package /\ f.gi < e.gi
  <2>1. PICK f \in steps : f.package = e.package /\ f.gi < e.gi
    BY <1>2 DEF Grounded
  <2>2. f.dl <= e.dl /\ e.dl <= target
    BY <2>1 DEF Chronological
  <2> QED BY <1>1, <2>1, <2>2
<1> HIDE DEF kept
<1>3. Grounded(kept)
  BY <1>2 DEF Grounded
<1> QED BY <1>3 DEF kept

-----------------------------------------------------------------------------
(* The steps of a partial solution.                                        *)

\* Steps have the types of what they are made from, and causes in ids.
LEMMA StepsType ==
    ASSUME NEW p, NEW ids \in SUBSET (Nat \ {0}), WellDated(p, ids)
    PROVE  /\ StepsIn(p) \subseteq Step
           /\ \A e \in StepsIn(p) :
                 /\ e.cause \in ids \cup {NoCause}
                 /\ e.package \in DOMAIN p.assigned
                 /\ e \in StepsOf(e.package, p.assigned[e.package])
           /\ \A q \in DOMAIN p.assigned :
                 /\ q \in Package /\ p.assigned[q] \in PackageAssignment
                 /\ \A i \in DOMAIN p.assigned[q].derivations :
                       /\ p.assigned[q].derivations[i] \in DatedDerivation
                       /\ p.assigned[q].derivations[i].cause \in ids
                 /\ Decided(p.assigned[q]) =>
                       p.assigned[q].decision.version \in Version
                 /\ \A e \in StepsOf(q, p.assigned[q]) : e.package = q
<1>1. \A q \in DOMAIN p.assigned :
         /\ q \in Package /\ p.assigned[q] \in PackageAssignment
         /\ WellDatedAssignment(p.assigned[q], p.level, p.next, ids)
  BY DEF WellDated, IsPartialSolution
<1>2. ASSUME NEW q \in DOMAIN p.assigned
      PROVE  /\ \A i \in DOMAIN p.assigned[q].derivations :
                    /\ p.assigned[q].derivations[i] \in DatedDerivation
                    /\ p.assigned[q].derivations[i].cause \in ids
             /\ Decided(p.assigned[q]) =>
                    p.assigned[q].decision.version \in Version
             /\ \A e \in StepsOf(q, p.assigned[q]) :
                    /\ e.package = q /\ e \in Step
                    /\ e.cause \in ids \cup {NoCause}
  <2> DEFINE pa == p.assigned[q]
  <2>1. pa.derivations \in Seq(DatedDerivation) /\ pa.decision \in Decision
    BY <1>1 DEF PackageAssignment
  <2>2. \A i \in DOMAIN pa.derivations : pa.derivations[i] \in DatedDerivation
    BY <2>1, LenProperties, ElementOfSeq
  <2>3. \A i \in DOMAIN pa.derivations : pa.derivations[i].cause \in ids
    BY <1>1 DEF WellDatedAssignment
  <2>4. Decided(pa) => pa.decision.version \in Version
    BY <2>1 DEF Decided, Decision, Choice
  <2> HIDE DEF pa
  <2>5. ASSUME NEW e \in StepsOf(q, pa)
        PROVE  e.package = q /\ e \in Step /\ e.cause \in ids \cup {NoCause}
    <3>1. CASE e \in {Derived(q, pa.derivations[i]) :
                          i \in DOMAIN pa.derivations}
      <4>1. PICK i \in DOMAIN pa.derivations : e = Derived(q, pa.derivations[i])
        BY <3>1
      <4> QED BY <1>1, <2>2, <2>3, <4>1 DEF Derived, DatedDerivation, Step
    <3>2. CASE Decided(pa) /\ e = Chosen(q, pa.decision)
      BY <1>1, <2>1, <2>4, <3>2
         DEF Chosen, Decision, Step, NoCause, Term, Positive
    <3> QED BY <2>5, <3>1, <3>2 DEF StepsOf
  <2> QED BY <2>2, <2>3, <2>4, <2>5 DEF pa
<1>3. ASSUME NEW e \in StepsIn(p)
      PROVE  /\ e \in Step /\ e.cause \in ids \cup {NoCause}
             /\ e.package \in DOMAIN p.assigned
             /\ e \in StepsOf(e.package, p.assigned[e.package])
  <2>1. PICK q \in DOMAIN p.assigned : e \in StepsOf(q, p.assigned[q])
    BY <1>3 DEF StepsIn, StepsFor
  <2> QED BY <1>2, <2>1
<1> QED BY <1>1, <1>2, <1>3

\* A derivation and a decision are steps.
LEMMA StepsMade ==
    ASSUME NEW p, NEW q \in DOMAIN p.assigned
    PROVE  /\ \A i \in DOMAIN p.assigned[q].derivations :
                 Derived(q, p.assigned[q].derivations[i]) \in StepsIn(p)
           /\ Decided(p.assigned[q]) =>
                 Chosen(q, p.assigned[q].decision) \in StepsIn(p)
BY DEF StepsIn, StepsOf

\* The term of an assigned package is that of its latest step.
LEMMA LatestStep ==
    ASSUME NEW p, NEW ids \in SUBSET (Nat \ {0}), WellDated(p, ids),
           NEW q \in DOMAIN p.assigned, WellKept(p.assigned[q])
    PROVE  \E e \in StepsIn(p) :
              /\ e.package = q /\ e.term = TermFor(p, q)
              /\ \A f \in StepsOf(q, p.assigned[q]) : f.gi <= e.gi
<1> DEFINE pa == p.assigned[q]
           ds == pa.derivations
<1>1. /\ pa \in PackageAssignment
      /\ \A i \in DOMAIN ds : ds[i] \in DatedDerivation
  BY StepsType
<1>2. /\ ds \in Seq(DatedDerivation) /\ DOMAIN ds = 1..Len(ds)
      /\ Len(ds) \in Nat /\ pa.decision.gi \in Nat
  BY <1>1, LenProperties DEF PackageAssignment, Decision
<1>3. CASE Decided(pa)
  <2> DEFINE e == Chosen(q, pa.decision)
  <2>1. e \in StepsIn(p) /\ e.package = q /\ e.term = TermFor(p, q)
    BY <1>3, StepsMade DEF TermFor, IsAssigned, Chosen
  <2>2. ASSUME NEW f \in StepsOf(q, pa) PROVE f.gi <= e.gi
    <3>1. CASE f = e
      BY <1>2, <3>1 DEF Chosen
    <3>2. ASSUME NEW i \in DOMAIN ds, f = Derived(q, ds[i]) PROVE f.gi <= e.gi
      <4>1. ds[i].gi < pa.decision.gi /\ ds[i].gi \in Nat
        BY <1>1, <1>3 DEF WellKept, DatedDerivation
      <4> QED BY <1>2, <3>2, <4>1 DEF Derived, Chosen
    <3> QED BY <3>1, <3>2 DEF StepsOf
  <2> HIDE DEF e
  <2> QED BY <2>1, <2>2
<1>4. CASE ~Decided(pa)
  <2>1. ds # <<>>
    BY <1>4 DEF WellKept
  <2>2. Len(ds) \in DOMAIN ds
    BY <1>2, <2>1, FrontLastType
  <2> DEFINE e == Derived(q, ds[Len(ds)])
  <2>3. e \in StepsIn(p) /\ e.package = q
    BY <2>2, StepsMade DEF Derived
  <2>4. e.term = TermFor(p, q)
    BY <1>4, <2>1 DEF TermFor, IsAssigned, Derived, Accumulated, Last
  <2>5. ASSUME NEW f \in StepsOf(q, pa) PROVE f.gi <= e.gi
    <3>1. PICK i \in DOMAIN ds : f = Derived(q, ds[i])
      BY <1>4 DEF StepsOf
    <3>2. i <= Len(ds)
      BY <1>2
    <3>3. i = Len(ds) \/ i < Len(ds)
      BY <1>2, <3>2
    <3>4. ds[i].gi \in Nat /\ ds[Len(ds)].gi \in Nat
      BY <1>1, <2>2 DEF DatedDerivation
    <3>5. i < Len(ds) => ds[i].gi < ds[Len(ds)].gi
      BY <2>2 DEF WellKept
    <3> QED BY <3>1, <3>3, <3>4, <3>5 DEF Derived
  <2> HIDE DEF e
  <2> QED BY <2>3, <2>4, <2>5
<1> QED BY <1>3, <1>4

\* A term holds if a step says so, or if it says nothing.
LEMMA HoldsByStep ==
    ASSUME NEW p, NEW ids \in SUBSET (Nat \ {0}), WellDated(p, ids),
           History(p), NEW q, NEW t \in Term
    PROVE  SubsetOf(TermFor(p, q), t) <=>
              \/ IsAnyTerm(t)
              \/ \E e \in StepsIn(p) : e.package = q /\ SubsetOf(e.term, t)
<1>1. StepsIn(p) \subseteq Step
  BY StepsType
<1>2. CASE q \in DOMAIN p.assigned
  <2>1. PICK e \in StepsIn(p) :
           /\ e.package = q /\ e.term = TermFor(p, q)
           /\ \A f \in StepsOf(q, p.assigned[q]) : f.gi <= e.gi
    BY <1>2, LatestStep DEF History
  <2>2. e \in Step /\ e.term \in Term
    BY <1>1, <2>1 DEF Step
  <2>3. ASSUME NEW f \in StepsIn(p), f.package = q, SubsetOf(f.term, t)
        PROVE  SubsetOf(e.term, t)
    <3>1. f \in Step /\ f.term \in Term /\ f.gi \in Nat /\ e.gi \in Nat
      BY <1>1, <2>2 DEF Step
    <3>2. f.gi <= e.gi
      BY <2>1, <2>3, StepsType
    <3>3. f.gi = e.gi \/ f.gi < e.gi
      BY <3>1, <3>2
    <3>4. f = e \/ SubsetOf(e.term, f.term)
      BY <2>1, <2>3, <3>3 DEF History, Chronological
    <3> QED BY <2>2, <2>3, <3>1, <3>4, SubsetOfTransitive
  <2> QED BY <2>1, <2>2, <2>3, AboveAnyTerm
<1>3. CASE q \notin DOMAIN p.assigned
  <2>1. TermFor(p, q) = AnyTerm
    BY <1>3 DEF TermFor, IsAssigned
  <2>2. \A e \in StepsIn(p) : e.package # q
    BY <1>3, StepsType
  <2> QED BY <2>1, <2>2, AboveAnyTerm
<1> QED BY <1>2, <1>3

-----------------------------------------------------------------------------
(* What the operations do to the steps.                                    *)

\* IndexMap::insert of an assignment with one step more.
LEMMA PutSteps ==
    ASSUME NEW p, NEW new, NEW pkg, NEW pa, NEW n,
           new.assigned = Put(p.assigned, pkg, pa),
           OneMore(StepsFor(p, pkg), StepsOf(pkg, pa), n)
    PROVE  OneMore(StepsIn(p), StepsIn(new), n)
<1>0. /\ pkg \notin DOMAIN p.assigned => StepsOf(pkg, pa) = {n}
      /\ pkg \in DOMAIN p.assigned =>
            StepsOf(pkg, pa) = StepsOf(pkg, p.assigned[pkg]) \cup {n}
  BY DEF OneMore, StepsFor
<1>1. /\ DOMAIN new.assigned = DOMAIN p.assigned \cup {pkg}
      /\ new.assigned[pkg] = pa
      /\ \A q \in DOMAIN p.assigned \ {pkg} : new.assigned[q] = p.assigned[q]
  BY DEF Put
<1>2. ASSUME NEW e \in StepsIn(new) PROVE e \in StepsIn(p) \cup {n}
  <2>1. PICK q \in DOMAIN new.assigned : e \in StepsOf(q, new.assigned[q])
    BY <1>2 DEF StepsIn, StepsFor
  <2> QED BY <1>0, <1>1, <2>1 DEF StepsIn, StepsFor
<1>3. ASSUME NEW e \in StepsIn(p) PROVE e \in StepsIn(new)
  <2>1. PICK q \in DOMAIN p.assigned : e \in StepsOf(q, p.assigned[q])
    BY <1>3 DEF StepsIn, StepsFor
  <2>2. e \in StepsOf(q, new.assigned[q]) /\ q \in DOMAIN new.assigned
    BY <1>0, <1>1, <2>1
  <2> QED BY <2>2 DEF StepsIn, StepsFor
<1>4. n \in StepsIn(new)
  BY <1>0, <1>1 DEF StepsIn, StepsFor
<1> QED BY <1>2, <1>3, <1>4 DEF OneMore

\* What an entry of the trail holds so far: the term of its package if it is
\* not decided.
LEMMA EntryFacts ==
    ASSUME NEW p, NEW ids \in SUBSET (Nat \ {0}), WellDated(p, ids),
           NEW pkg, NEW dl \in Nat,
           pkg \in DOMAIN p.assigned => ~Decided(p.assigned[pkg])
    PROVE  LET old == Entry(p, pkg, dl)
           IN  /\ ~Decided(old) /\ old.derivations \in Seq(DatedDerivation)
               /\ old \in PackageAssignment
               /\ Accumulated(old) = TermFor(p, pkg)
               /\ Accumulated(old) \in Term
               /\ StepsOf(pkg, old) =
                     {Derived(pkg, old.derivations[i]) :
                         i \in DOMAIN old.derivations}
               /\ StepsOf(pkg, old) = StepsFor(p, pkg)
<1> DEFINE old == Entry(p, pkg, dl)
<1>1. CASE pkg \in DOMAIN p.assigned
  <2>1. old = p.assigned[pkg] /\ old \in PackageAssignment
    BY <1>1, StepsType DEF Entry, IsAssigned
  <2>2. Accumulated(old) \in Term
    BY <2>1, AccumulatedType
  <2> QED BY <1>1, <2>1, <2>2
          DEF PackageAssignment, TermFor, IsAssigned, StepsOf, StepsFor
<1>2. CASE pkg \notin DOMAIN p.assigned
  <2>1. old = [decision |-> NoDecision, derivations |-> <<>>,
               smallest_dl |-> dl, highest_dl |-> dl]
    BY <1>2 DEF Entry, IsAssigned
  <2>2. old \in PackageAssignment /\ old.derivations = <<>> /\ ~Decided(old)
    BY <2>1 DEF PackageAssignment, NoDecision, Decision, Choice, Decided
  <2>3. Accumulated(old) = AnyTerm /\ TermFor(p, pkg) = AnyTerm
    BY <1>2, <2>2 DEF Accumulated, TermFor, IsAssigned
  <2>4. Accumulated(old) \in Term
    BY <2>2, AccumulatedType
  <2>5. /\ StepsOf(pkg, old) = {} /\ DOMAIN old.derivations = {}
        /\ StepsFor(p, pkg) = {}
    BY <1>2, <2>2 DEF StepsOf, StepsFor
  <2>6. old.derivations \in Seq(DatedDerivation)
    BY <2>2 DEF PackageAssignment
  <2>7. /\ {Derived(pkg, old.derivations[i]) :
               i \in DOMAIN old.derivations} = {}
        /\ Accumulated(old) = TermFor(p, pkg)
    BY <2>3, <2>5
  <2>8. old \in PackageAssignment /\ ~Decided(old)
    BY <2>2
  <2> QED BY ONLY <1>2, <2>4, <2>5, <2>6, <2>7, <2>8, Zenon
<1> QED BY <1>1, <1>2

\* A term that is below the term of its package is below the term of each of
\* its steps.
LEMMA BelowAllSteps ==
    ASSUME NEW p, NEW ids \in SUBSET (Nat \ {0}), WellDated(p, ids),
           History(p), NEW pkg, NEW t \in Term, SubsetOf(t, TermFor(p, pkg)),
           NEW e \in StepsIn(p), e.package = pkg
    PROVE  SubsetOf(t, e.term)
<1>1. StepsIn(p) \subseteq Step
  BY StepsType
<1>2. e.term \in Term
  BY <1>1 DEF Step
<1>3. SubsetOf(TermFor(p, pkg), e.term)
  BY <1>2, HoldsByStep, SubsetOfReflexive
<1>4. TermFor(p, pkg) \in Term
  <2>1. pkg \in DOMAIN p.assigned
    BY StepsType
  <2>2. PICK f \in StepsIn(p) : f.term = TermFor(p, pkg)
    BY <2>1, LatestStep DEF History
  <2> QED BY <1>1, <2>2 DEF Step
<1> QED BY <1>2, <1>3, <1>4, SubsetOfTransitive

\* add_decision of a package that is not decided, at a version in range.
LEMMA DecideSteps ==
    ASSUME NEW p, NEW ids \in SUBSET (Nat \ {0}), WellDated(p, ids),
           History(p), NEW pkg \in Package, NEW version \in Version,
           pkg \in DOMAIN p.assigned => ~Decided(p.assigned[pkg]),
           SubsetOf(Positive({version}), TermFor(p, pkg))
    PROVE  LET new == AddDecision(p, pkg, version)
           IN  /\ History(new)
               /\ StepsIn(new) = StepsIn(p) \cup
                     {Chosen(pkg, [dl |-> p.level + 1, version |-> version,
                                   gi |-> p.next])}
<1> DEFINE dl == p.level + 1
           decision == [dl |-> dl, version |-> version, gi |-> p.next]
           old == Entry(p, pkg, dl)
           pa == [old EXCEPT !.decision = decision, !.highest_dl = dl]
           new == AddDecision(p, pkg, version)
           n == Chosen(pkg, decision)
<1>1. p.level \in Nat /\ p.next \in Nat /\ dl \in Nat
  BY DEF WellDated, IsPartialSolution
<1>2. /\ ~Decided(old) /\ old.derivations \in Seq(DatedDerivation)
      /\ old \in PackageAssignment
      /\ StepsOf(pkg, old) = {Derived(pkg, old.derivations[i]) :
                                 i \in DOMAIN old.derivations}
      /\ StepsOf(pkg, old) = StepsFor(p, pkg)
  BY <1>1, EntryFacts
<1>3. /\ old.smallest_dl = IF old.derivations = <<>> THEN dl
                           ELSE old.derivations[1].dl
      /\ \A i, j \in DOMAIN old.derivations :
            i < j => old.derivations[i].gi < old.derivations[j].gi
  <2>1. CASE pkg \in DOMAIN p.assigned
    BY <2>1 DEF Entry, IsAssigned, History, WellKept
  <2>2. CASE pkg \notin DOMAIN p.assigned
    BY <2>2 DEF Entry, IsAssigned
  <2> QED BY <2>1, <2>2
<1> HIDE DEF old
<1>4. /\ pa.decision = decision /\ pa.derivations = old.derivations
      /\ pa.highest_dl = dl /\ pa.smallest_dl = old.smallest_dl
  BY <1>2 DEF PackageAssignment
<1>5. new.level = dl /\ new.next = p.next + 1
      /\ new.assigned = Put(p.assigned, pkg, pa)
  BY DEF AddDecision, old
<1> HIDE DEF pa, new, n
<1>6. Decided(pa)
  BY <1>4, PackagesAssumption DEF Decided
<1>7. StepsOf(pkg, pa) = {n} \cup StepsOf(pkg, old)
  BY <1>2, <1>4, <1>6 DEF StepsOf, n
<1>8. StepsIn(new) = StepsIn(p) \cup {n}
  <2>1. OneMore(StepsFor(p, pkg), StepsOf(pkg, pa), n)
    BY <1>2, <1>7 DEF OneMore
  <2>2. OneMore(StepsIn(p), StepsIn(new), n)
    BY <1>5, <2>1, PutSteps
  <2> QED BY <2>2 DEF OneMore
<1>9. StepsIn(p) \subseteq Step
  BY StepsType
<1>10. n \in Step /\ n.package = pkg /\ n.gi = p.next /\ n.dl = dl
       /\ n.cause = NoCause /\ n.term = Positive({version})
       /\ n.term \in Term
  BY <1>1 DEF n, Chosen, Step, NoCause, Term, Positive
<1>11. \A e \in StepsIn(p) : e.package = n.package => SubsetOf(n.term, e.term)
  BY <1>10, BelowAllSteps
<1>12. Chronological(StepsIn(new), new.next, new.level)
  <2>1. Chronological(StepsIn(p), p.next, p.level)
    BY DEF History
  <2>2. Chronological(StepsIn(p) \cup {n}, p.next + 1, p.level + 1)
    BY <1>1, <1>9, <1>10, <1>11, <2>1, ChronologicalDecide
  <2> QED BY <1>5, <1>8, <2>2
<1>13. WellKept(pa)
  <2>1. \A i \in DOMAIN old.derivations : old.derivations[i].gi < p.next
    <3> TAKE i \in DOMAIN old.derivations
    <3>1. Derived(pkg, old.derivations[i]) \in StepsOf(pkg, old)
      BY <1>2
    <3>2. Derived(pkg, old.derivations[i]) \in StepsIn(p)
      BY <1>2, <3>1 DEF StepsIn, StepsFor
    <3> QED BY <3>2 DEF History, Chronological, Derived
  <2> QED BY <1>3, <1>4, <1>6, <2>1 DEF WellKept
<1>14. \A q \in DOMAIN new.assigned : WellKept(new.assigned[q])
  BY <1>5, <1>13 DEF Put, History
<1>15. History(new)
  BY <1>12, <1>14 DEF History
<1> QED BY <1>8, <1>15 DEF n, new

\* add_derivation: a derivation for a decided package is lost, any other is
\* the newest step.
LEMMA DeriveSteps ==
    ASSUME NEW p, NEW ids \in SUBSET (Nat \ {0}), WellDated(p, ids),
           History(p), NEW pkg \in Package, NEW cause \in ids,
           NEW term \in Term
    PROVE  LET new == AddDerivation(p, pkg, cause, term)
               n == [package |-> pkg, gi |-> p.next, dl |-> p.level,
                     cause |-> cause,
                     term |-> Intersection(TermFor(p, pkg), term)]
           IN  /\ History(new)
               /\ IF IsAssigned(p, pkg) /\ Decided(p.assigned[pkg])
                  THEN StepsIn(new) = StepsIn(p)
                  ELSE n \in Step /\ StepsIn(new) = StepsIn(p) \cup {n}
<1> DEFINE old == Entry(p, pkg, p.level)
           dated == [gi |-> p.next, dl |-> p.level, cause |-> cause,
                     term |-> Intersection(Accumulated(old), term)]
           pa == [old EXCEPT !.derivations = Append(@, dated),
                             !.highest_dl = p.level]
           new == AddDerivation(p, pkg, cause, term)
           n == [package |-> pkg, gi |-> p.next, dl |-> p.level,
                 cause |-> cause,
                 term |-> Intersection(TermFor(p, pkg), term)]
<1>1. /\ p.level \in Nat /\ p.next \in Nat
      /\ p = [level |-> p.level, next |-> p.next, assigned |-> p.assigned]
  BY DEF WellDated, IsPartialSolution
<1>2. new = [p EXCEPT !.next = p.next + 1,
                      !.assigned = IF Decided(old) THEN p.assigned
                                   ELSE Put(p.assigned, pkg, pa)]
  BY <1>1 DEF AddDerivation
<1>3. /\ new.level = p.level /\ new.next = p.next + 1
      /\ new.assigned = IF Decided(old) THEN p.assigned
                        ELSE Put(p.assigned, pkg, pa)
  <2> HIDE DEF new, pa, old
  <2> QED BY <1>1, <1>2
<1>4. StepsIn(p) \subseteq Step
  BY StepsType
<1>5. CASE IsAssigned(p, pkg) /\ Decided(p.assigned[pkg])
  <2>1. new.assigned = p.assigned
    BY <1>3, <1>5 DEF Entry
  <2> HIDE DEF new
  <2>2. StepsIn(new) = StepsIn(p)
    BY <2>1 DEF StepsIn, StepsFor
  <2>3. Chronological(StepsIn(new), new.next, new.level)
    BY <1>1, <1>3, <1>4, <2>2, ChronologicalLater DEF History
  <2>4. History(new)
    BY <2>1, <2>3 DEF History
  <2> QED BY <1>5, <2>2, <2>4 DEF new
<1>6. CASE ~(IsAssigned(p, pkg) /\ Decided(p.assigned[pkg]))
  <2>1. /\ ~Decided(old) /\ old.derivations \in Seq(DatedDerivation)
        /\ old \in PackageAssignment
        /\ Accumulated(old) = TermFor(p, pkg) /\ Accumulated(old) \in Term
        /\ StepsOf(pkg, old) = {Derived(pkg, old.derivations[i]) :
                                   i \in DOMAIN old.derivations}
        /\ StepsOf(pkg, old) = StepsFor(p, pkg)
    BY <1>1, <1>6, EntryFacts DEF IsAssigned
  <2>2. /\ old.smallest_dl = IF old.derivations = <<>> THEN p.level
                             ELSE old.derivations[1].dl
        /\ \A i, j \in DOMAIN old.derivations :
              i < j => old.derivations[i].gi < old.derivations[j].gi
    <3>1. CASE pkg \in DOMAIN p.assigned
      BY <1>6, <3>1 DEF Entry, IsAssigned, History, WellKept
    <3>2. CASE pkg \notin DOMAIN p.assigned
      BY <3>2 DEF Entry, IsAssigned
    <3> QED BY <3>1, <3>2
  <2> HIDE DEF old
  <2>3. /\ dated \in DatedDerivation /\ Derived(pkg, dated) = n
        /\ dated.gi = p.next /\ dated.dl = p.level
    <3>1. Intersection(Accumulated(old), term) \in Term
      BY <2>1, TermTypes
    <3> QED BY <1>1, <2>1, <3>1 DEF DatedDerivation, Derived
  <2>4. /\ n \in Step /\ n.package = pkg /\ n.gi = p.next /\ n.dl = p.level
        /\ n.cause = cause /\ n.cause # NoCause
        /\ n.term \in Term /\ SubsetOf(n.term, TermFor(p, pkg))
    <3>1. n.term \in Term /\ SubsetOf(n.term, TermFor(p, pkg))
      BY <2>1, TermTypes, IntersectionBelow
    <3>2. cause \in Nat /\ cause # NoCause
      BY DEF NoCause
    <3> QED BY <1>1, <3>1, <3>2 DEF Step
  <2> DEFINE ds == old.derivations
             longer == Append(ds, dated)
  <2> HIDE DEF n, dated
  <2>5. /\ Len(ds) \in Nat /\ DOMAIN ds = 1..Len(ds)
        /\ DOMAIN longer = 1..(Len(ds) + 1) /\ longer # <<>>
        /\ \A i \in DOMAIN ds : i \in DOMAIN longer /\ longer[i] = ds[i]
        /\ longer[Len(ds) + 1] = dated
        /\ ds = <<>> => longer[1] = dated
    BY <2>1, <2>3, AppendProperties, LenProperties
  <2>6. /\ pa.derivations = longer /\ pa.decision = old.decision
        /\ pa.smallest_dl = old.smallest_dl /\ pa.highest_dl = p.level
    BY <2>1 DEF PackageAssignment
  <2>7. ~Decided(pa)
    BY <2>1, <2>6 DEF Decided
  <2> HIDE DEF pa, ds, longer, new
  <2>8. \A i \in DOMAIN longer : i \in DOMAIN ds \/ i = Len(ds) + 1
    BY <2>5
  <2>9. StepsOf(pkg, pa) = {Derived(pkg, longer[i]) : i \in DOMAIN longer}
    BY <2>6, <2>7 DEF StepsOf
  <2>10. StepsOf(pkg, pa) = {n} \cup StepsOf(pkg, old)
    <3>1. \A i \in DOMAIN ds : i \in DOMAIN longer /\ longer[i] = ds[i]
      BY <2>5
    <3>2. Len(ds) + 1 \in DOMAIN longer /\ Derived(pkg, longer[Len(ds) + 1]) = n
      BY <2>3, <2>5
    <3>3. StepsOf(pkg, old) = {Derived(pkg, ds[i]) : i \in DOMAIN ds}
      BY <2>1 DEF ds
    <3> QED BY <2>8, <2>9, <3>1, <3>2, <3>3
  <2>11. new.assigned = Put(p.assigned, pkg, pa)
    BY <1>3, <2>1
  <2>12. StepsIn(new) = StepsIn(p) \cup {n}
    <3>1. OneMore(StepsFor(p, pkg), StepsOf(pkg, pa), n)
      BY <2>1, <2>10 DEF OneMore
    <3>2. OneMore(StepsIn(p), StepsIn(new), n)
      BY <2>11, <3>1, PutSteps
    <3> QED BY <3>2 DEF OneMore
  <2>13. \A e \in StepsIn(p) : e.package = n.package => SubsetOf(n.term, e.term)
    BY <2>4, BelowAllSteps
  <2>14. Chronological(StepsIn(new), new.next, new.level)
    BY <1>1, <1>3, <1>4, <2>4, <2>12, <2>13, ChronologicalDerive DEF History
  <2>15. WellKept(pa)
    <3>1. \A i \in DOMAIN ds : ds[i].gi < p.next
      <4> TAKE i \in DOMAIN ds
      <4>1. Derived(pkg, ds[i]) \in StepsOf(pkg, old)
        BY <2>1 DEF ds
      <4>2. Derived(pkg, ds[i]) \in StepsIn(p)
        BY <2>1, <4>1 DEF StepsIn, StepsFor
      <4> QED BY <4>2 DEF History, Chronological, Derived
    <3>2. \A i, j \in DOMAIN longer : i < j => longer[i].gi < longer[j].gi
      <4> SUFFICES ASSUME NEW i \in DOMAIN longer,
                          NEW j \in DOMAIN longer, i < j
                   PROVE  longer[i].gi < longer[j].gi
        OBVIOUS
      <4>1. i \in DOMAIN ds
        BY <2>5
      <4>2. CASE j \in DOMAIN ds
        BY <2>2, <2>5, <4>1, <4>2 DEF ds
      <4>3. CASE j = Len(ds) + 1
        BY <2>3, <2>5, <3>1, <4>1, <4>3
      <4> QED BY <2>8, <4>2, <4>3
    <3>3. pa.smallest_dl = longer[1].dl
      <4>1. CASE ds = <<>>
        BY <2>2, <2>3, <2>5, <2>6, <4>1 DEF ds
      <4>2. CASE ds # <<>>
        <5>1. Len(ds) \in DOMAIN ds
          BY <2>1, <4>2, FrontLastType DEF ds
        <5>2. 1 \in 1..Len(ds)
          BY <2>5, <5>1
        <5> QED BY <2>2, <2>5, <2>6, <4>2, <5>2 DEF ds
      <4> QED BY <4>1, <4>2
    <3> QED BY <2>5, <2>6, <2>7, <3>2, <3>3 DEF WellKept
  <2>16. \A q \in DOMAIN new.assigned : WellKept(new.assigned[q])
    BY <2>11, <2>15 DEF Put, History
  <2>17. History(new)
    BY <2>14, <2>16 DEF History
  <2> QED BY <1>6, <2>4, <2>12, <2>17 DEF n, new
<1> QED BY <1>5, <1>6

-----------------------------------------------------------------------------
(* Backtracking keeps the steps up to a level.                             *)

\* What each branch of backtrack does to the steps of one package.
LEMMA UndoOne ==
    ASSUME NEW q, NEW pa, NEW ids, NEW level \in Nat, NEW next \in Nat,
           WellDatedAssignment(pa, level, next, ids), WellKept(pa),
           NEW target \in Nat
    PROVE  /\ pa.highest_dl <= target =>
                 \A e \in StepsOf(q, pa) : e.dl <= target
           /\ ~(pa.smallest_dl <= target) =>
                 \A e \in StepsOf(q, pa) : ~(e.dl <= target)
           /\ pa.smallest_dl <= target /\ ~(pa.highest_dl <= target) =>
                 /\ WellKept(UndoAbove(pa, target))
                 /\ \A e : e \in StepsOf(q, UndoAbove(pa, target)) <=>
                              e \in StepsOf(q, pa) /\ e.dl <= target
<1> DEFINE ds == pa.derivations
           ups == UndoAbove(pa, target)
           low == {i \in DOMAIN ds : ds[i].dl <= target}
           kept == Max({0} \cup low)
           front == SubSeq(ds, 1, kept)
<1>1. pa \in PackageAssignment
  BY DEF WellDatedAssignment
<1>2. /\ ds \in Seq(DatedDerivation) /\ DOMAIN ds = 1..Len(ds)
      /\ Len(ds) \in Nat /\ pa.smallest_dl \in Nat /\ pa.highest_dl \in Nat
      /\ pa.decision.dl \in Nat
  BY <1>1, LenProperties DEF PackageAssignment, Decision
<1>3. \A i \in DOMAIN ds : ds[i].dl \in Nat /\ ds[i].gi \in Nat
  <2>1. \A i \in DOMAIN ds : ds[i] \in DatedDerivation
    BY <1>2, ElementOfSeq
  <2> QED BY <2>1 DEF DatedDerivation
<1>4. /\ pa.decision.dl <= pa.highest_dl
      /\ \A i \in DOMAIN ds : ds[i].dl <= pa.highest_dl
      /\ \A i, j \in DOMAIN ds : i <= j => ds[i].dl <= ds[j].dl
  BY DEF WellDatedAssignment
<1>5. ds # <<>> => 1 \in DOMAIN ds /\ pa.smallest_dl = ds[1].dl
  <2>1. ds # <<>> => Len(ds) \in DOMAIN ds
    BY <1>2, FrontLastType
  <2> QED BY <1>2, <2>1 DEF WellKept
<1>6. \A i \in DOMAIN ds : pa.smallest_dl <= ds[i].dl
  <2> TAKE i \in DOMAIN ds
  <2>1. ds # <<>> /\ 1 <= i
    BY <1>2
  <2> QED BY <1>4, <1>5, <2>1
<1>7. Decided(pa) => pa.decision.dl = pa.highest_dl
  BY DEF WellKept
<1>8. pa.smallest_dl <= pa.highest_dl
  BY <1>2, <1>4, <1>5 DEF WellKept
<1>9. \A e \in StepsOf(q, pa) :
         \/ \E i \in DOMAIN ds : e = Derived(q, ds[i])
         \/ Decided(pa) /\ e = Chosen(q, pa.decision)
  BY DEF StepsOf
<1>10. /\ \A i \in DOMAIN ds : Derived(q, ds[i]).dl = ds[i].dl
       /\ Chosen(q, pa.decision).dl = pa.decision.dl
  BY DEF Derived, Chosen
<1> HIDE DEF ds, ups
<1>11. \A e \in StepsOf(q, pa) : /\ e.dl \in Nat /\ pa.smallest_dl <= e.dl
                                 /\ e.dl <= pa.highest_dl
  BY <1>2, <1>3, <1>4, <1>6, <1>7, <1>8, <1>9, <1>10
<1>12. ASSUME pa.smallest_dl <= target, ~(pa.highest_dl <= target)
       PROVE  /\ WellKept(ups)
              /\ \A e : e \in StepsOf(q, ups) <=>
                           e \in StepsOf(q, pa) /\ e.dl <= target
  <2>1. ds # <<>>
    BY <1>12 DEF WellKept, ds
  <2>2. 1 \in low
    BY <1>5, <1>12, <2>1
  <2>3. kept \in {0} \cup low /\ \A x \in {0} \cup low : kept >= x
    <3>1. /\ {0} \cup low \in SUBSET Nat /\ {0} \cup low # {}
          /\ \A x \in {0} \cup low : x <= Len(ds)
      BY <1>2
    <3> QED BY <1>2, <3>1, MaxOfNat
  <2>4. kept \in Nat /\ 1 <= kept /\ kept <= Len(ds) /\ kept \in low
    BY <1>2, <2>2, <2>3
  <2>5. \A i \in DOMAIN ds : i <= kept <=> ds[i].dl <= target
    <3> TAKE i \in DOMAIN ds
    <3>1. i <= kept => ds[i].dl <= ds[kept].dl /\ ds[kept].dl <= target
      BY <1>4, <2>4
    <3>2. ds[i].dl <= target => i <= kept
      BY <1>2, <2>3, <2>4
    <3> QED BY <1>3, <2>4, <3>1, <3>2
  <2> HIDE DEF kept, low
  <2>6. /\ front \in Seq(DatedDerivation) /\ Len(front) = kept
        /\ DOMAIN front = 1..kept /\ \A i \in 1..kept : front[i] = ds[i]
    <3>1. /\ front \in Seq(DatedDerivation) /\ Len(front) = kept
          /\ \A i \in 1..kept : front[i] = ds[i]
      BY <1>2, <2>4, PrefixType
    <3> QED BY <3>1, LenProperties
  <2> HIDE DEF front
  <2>7. /\ ups.derivations = front /\ ups.decision = NoDecision
        /\ ups.smallest_dl = pa.smallest_dl
    BY <1>1 DEF UndoAbove, PackageAssignment, ups, ds, kept, low, front
  <2>8. ~Decided(ups)
    BY <2>7 DEF Decided, NoDecision
  <2>9. 1 \in DOMAIN front /\ front # <<>>
    BY <2>4, <2>6
  <2>10. WellKept(ups)
    <3>1. \A i, j \in DOMAIN front : i < j => front[i].gi < front[j].gi
      <4> TAKE i, j \in DOMAIN front
      <4>1. /\ i \in DOMAIN ds /\ j \in DOMAIN ds
            /\ front[i] = ds[i] /\ front[j] = ds[j]
        BY <1>2, <2>4, <2>6
      <4> QED BY <4>1 DEF WellKept, ds
    <3>2. ups.smallest_dl = front[1].dl
      BY <1>5, <2>1, <2>6, <2>7, <2>9
    <3> QED BY <2>7, <2>8, <2>9, <3>1, <3>2 DEF WellKept
  <2>11. \A e : e \in StepsOf(q, ups) <=>
                   \E i \in DOMAIN front : e = Derived(q, front[i])
    BY <2>7, <2>8 DEF StepsOf
  <2>12. ASSUME NEW e, e \in StepsOf(q, ups)
         PROVE  e \in StepsOf(q, pa) /\ e.dl <= target
    <3>1. PICK i \in DOMAIN front : e = Derived(q, front[i])
      BY <2>11, <2>12
    <3>2. i \in DOMAIN ds /\ i <= kept /\ e = Derived(q, ds[i])
      BY <1>2, <2>4, <2>6, <3>1
    <3>3. e.dl <= target
      BY <1>10, <2>5, <3>2
    <3>4. e \in StepsOf(q, pa)
      BY <3>2 DEF StepsOf, ds
    <3> QED BY <3>3, <3>4
  <2>13. ASSUME NEW e, e \in StepsOf(q, pa), e.dl <= target
         PROVE  e \in StepsOf(q, ups)
    <3>1. CASE \E i \in DOMAIN ds : e = Derived(q, ds[i])
      <4>1. PICK i \in DOMAIN ds : e = Derived(q, ds[i])
        BY <3>1
      <4>2. i <= kept
        BY <1>10, <2>5, <2>13, <4>1
      <4>3. i \in DOMAIN front /\ front[i] = ds[i]
        BY <1>2, <2>4, <2>6, <4>2
      <4> QED BY <2>11, <4>1, <4>3
    <3>2. CASE Decided(pa) /\ e = Chosen(q, pa.decision)
      BY <1>7, <1>10, <1>12, <2>13, <3>2
    <3> QED BY <1>9, <2>13, <3>1, <3>2
  <2> QED BY <2>10, <2>12, <2>13
<1> QED BY <1>2, <1>11, <1>12 DEF ups

\* backtrack keeps exactly the steps up to the level it returns to.
LEMMA UndoSteps ==
    ASSUME NEW p, NEW ids \in SUBSET (Nat \ {0}), WellDated(p, ids),
           History(p), NEW target \in Nat, target <= p.level
    PROVE  LET new == Backtrack(p, target)
           IN  /\ History(new)
               /\ StepsIn(new) = {e \in StepsIn(p) : e.dl <= target}
<1> DEFINE new == Backtrack(p, target)
           left == {r \in DOMAIN p.assigned :
                       p.assigned[r].smallest_dl <= target}
<1>1. /\ p.level \in Nat /\ p.next \in Nat
      /\ p = [level |-> p.level, next |-> p.next, assigned |-> p.assigned]
  BY DEF WellDated, IsPartialSolution
<1>2. /\ new.level = target /\ new.next = p.next /\ DOMAIN new.assigned = left
      /\ \A q \in left : new.assigned[q] =
            IF p.assigned[q].highest_dl <= target THEN p.assigned[q]
            ELSE UndoAbove(p.assigned[q], target)
  BY <1>1 DEF Backtrack
<1> HIDE DEF new
<1>3. \A q \in DOMAIN p.assigned :
         /\ WellDatedAssignment(p.assigned[q], p.level, p.next, ids)
         /\ WellKept(p.assigned[q])
  BY DEF WellDated, History
<1>4. ASSUME NEW q \in left
      PROVE  /\ WellKept(new.assigned[q])
             /\ \A e : e \in StepsOf(q, new.assigned[q]) <=>
                          e \in StepsOf(q, p.assigned[q]) /\ e.dl <= target
  <2>1. CASE p.assigned[q].highest_dl <= target
    <3>1. \A e \in StepsOf(q, p.assigned[q]) : e.dl <= target
      BY <1>1, <1>3, <2>1, UndoOne
    <3> QED BY <1>2, <1>3, <2>1, <3>1
  <2>2. CASE ~(p.assigned[q].highest_dl <= target)
    <3> DEFINE undone == UndoAbove(p.assigned[q], target)
    <3>1. /\ WellKept(undone)
          /\ \A e : e \in StepsOf(q, undone) <=>
                       e \in StepsOf(q, p.assigned[q]) /\ e.dl <= target
      BY <1>1, <1>3, <2>2, UndoOne
    <3>2. new.assigned[q] = undone
      BY <1>2, <2>2
    <3> HIDE DEF undone
    <3> QED BY <3>1, <3>2
  <2> QED BY <2>1, <2>2
<1>5. ASSUME NEW q \in DOMAIN p.assigned \ left,
             NEW e \in StepsOf(q, p.assigned[q])
      PROVE  ~(e.dl <= target)
  <2> DEFINE pa == p.assigned[q]
  <2>1. /\ ~(pa.smallest_dl <= target) /\ WellKept(pa)
        /\ WellDatedAssignment(pa, p.level, p.next, ids)
    BY <1>3
  <2> HIDE DEF left, pa
  <2>2. \A f \in StepsOf(q, pa) : ~(f.dl <= target)
    BY <1>1, <2>1, UndoOne, Zenon
  <2> QED BY <2>2 DEF pa
<1> HIDE DEF left
<1>6. left \subseteq DOMAIN p.assigned
  BY DEF left
<1>7. ASSUME NEW e \in StepsIn(new) PROVE e \in StepsIn(p) /\ e.dl <= target
  <2>1. PICK q \in left : e \in StepsOf(q, new.assigned[q])
    BY <1>2 DEF StepsIn
  <2> QED BY <1>4, <1>6, <2>1 DEF StepsIn
<1>8. ASSUME NEW e \in StepsIn(p), e.dl <= target PROVE e \in StepsIn(new)
  <2>1. PICK q \in DOMAIN p.assigned : e \in StepsOf(q, p.assigned[q])
    BY DEF StepsIn
  <2>2. q \in left
    BY <1>5, <1>8, <2>1
  <2>3. e \in StepsOf(q, new.assigned[q])
    BY <1>4, <1>8, <2>1, <2>2
  <2> QED BY <1>2, <2>2, <2>3 DEF StepsIn
<1>9. StepsIn(new) = {e \in StepsIn(p) : e.dl <= target}
  BY <1>7, <1>8
<1>10. Chronological(StepsIn(new), new.next, new.level)
  <2>1. StepsIn(p) \subseteq Step
    BY StepsType
  <2>2. Chronological(StepsIn(p), p.next, p.level)
    BY DEF History
  <2> QED BY <1>1, <1>2, <1>9, <2>1, <2>2, ChronologicalUndo
<1>11. \A q \in DOMAIN new.assigned : WellKept(new.assigned[q])
  BY <1>2, <1>4
<1>12. History(new)
  BY <1>10, <1>11 DEF History
<1> QED BY <1>9, <1>12 DEF new

-----------------------------------------------------------------------------
(* satisfier_search on an incompatibility all of whose terms hold.         *)

\* e is the first step of its package to satisfy its term of inc; every other
\* term held before it, at levels up to previous.
LastSatisfier(steps, e, inc, previous) ==
    /\ e.package \in DOMAIN inc.terms
    /\ SubsetOf(e.term, inc.terms[e.package])
    /\ \A f \in steps : f.package = e.package /\ f.gi < e.gi =>
          ~SubsetOf(f.term, inc.terms[e.package])
    /\ \A q \in DOMAIN inc.terms \ {e.package} :
          \/ IsAnyTerm(inc.terms[q])
          \/ \E f \in steps : /\ f.package = q /\ f.gi < e.gi
                              /\ f.dl <= previous
                              /\ SubsetOf(f.term, inc.terms[q])
    /\ \/ previous = 0
       \/ \E f \in steps : /\ f.package # e.package /\ f.gi < e.gi
                           /\ f.dl = previous

\* find_satisfier finds a step of the package: its third case, a term that
\* holds and that nothing satisfies, does not arise.
LEMMA SatisfierStep ==
    ASSUME NEW p, NEW ids \in SUBSET (Nat \ {0}), WellDated(p, ids),
           History(p), NEW q \in DOMAIN p.assigned, NEW t \in Term,
           SubsetOf(TermFor(p, q), t)
    PROVE  LET found == FindSatisfier(p, p.assigned[q], t)
           IN  \E e \in StepsIn(p) :
                  /\ e.package = q /\ e.gi = found.gi /\ e.dl = found.dl
                  /\ e.cause = found.cause /\ SubsetOf(e.term, t)
                  /\ \A f \in StepsIn(p) : f.package = q /\ f.gi < e.gi =>
                        ~SubsetOf(f.term, t)
<1> DEFINE pa == p.assigned[q]
           ds == pa.derivations
           hits == {i \in DOMAIN ds : IsDisjoint(ds[i].term, Negate(t))}
           found == FindSatisfier(p, pa, t)
<1>1. /\ pa \in PackageAssignment /\ WellKept(pa)
      /\ \A i \in DOMAIN ds : ds[i] \in DatedDerivation
  BY StepsType DEF History
<1>2. ds \in Seq(DatedDerivation) /\ DOMAIN ds = 1..Len(ds) /\ Len(ds) \in Nat
  BY <1>1, LenProperties DEF PackageAssignment
<1>3. \A i \in DOMAIN ds : i \in hits <=> SubsetOf(ds[i].term, t)
  BY <1>1, DisjointFromNegation DEF DatedDerivation
<1>4. TermFor(p, q) = IF Decided(pa) THEN Positive({pa.decision.version})
                      ELSE Accumulated(pa)
  BY DEF TermFor, IsAssigned
<1>5. \A e \in StepsOf(q, pa) : e \in StepsIn(p)
  BY DEF StepsIn
<1>9. \A f \in StepsIn(p) : f.package = q =>
         \/ \E j \in DOMAIN ds : f = Derived(q, ds[j])
         \/ Decided(pa) /\ f = Chosen(q, pa.decision)
  <2>1. \A f \in StepsIn(p) : f.package = q => f \in StepsOf(q, pa)
    BY StepsType
  <2> QED BY <2>1 DEF StepsOf
<1>10. \A j \in DOMAIN ds : ds[j].gi \in Nat /\ j \in Nat
  BY <1>1, <1>2 DEF DatedDerivation
<1>6. CASE hits # {}
  <2> DEFINE i == Min(hits)
  <2>1. hits \in SUBSET Nat
    BY <1>2
  <2>2. i \in hits /\ \A j \in hits : i <= j
    <3> HIDE DEF hits
    <3> QED BY <1>6, <2>1, MinOfNat
  <2>3. found = [gi |-> ds[i].gi, dl |-> ds[i].dl, cause |-> ds[i].cause]
    BY <1>6 DEF FindSatisfier
  <2>4. i \in DOMAIN ds
    BY <2>2
  <2> HIDE DEF i, hits, found
  <2>5. SubsetOf(ds[i].term, t)
    BY <1>3, <2>2, <2>4
  <2>6. Derived(q, ds[i]) \in StepsIn(p)
    BY <1>5, <2>4 DEF StepsOf
  <2>7. ASSUME NEW f \in StepsIn(p), f.package = q, f.gi < ds[i].gi
        PROVE  ~SubsetOf(f.term, t)
    <3>1. CASE Decided(pa) /\ f = Chosen(q, pa.decision)
      <4>1. ds[i].gi < pa.decision.gi /\ pa.decision.gi \in Nat
        BY <1>1, <2>4, <3>1 DEF WellKept, PackageAssignment, Decision
      <4> QED BY <1>10, <2>4, <2>7, <3>1, <4>1 DEF Chosen
    <3>2. CASE \E j \in DOMAIN ds : f = Derived(q, ds[j])
      <4>1. PICK j \in DOMAIN ds : f = Derived(q, ds[j])
        BY <3>2
      <4>2. f.gi = ds[j].gi /\ f.term = ds[j].term
        BY <4>1 DEF Derived
      <4>3. j < i
        <5>1. i < j => ds[i].gi < ds[j].gi
          BY <1>1, <2>4 DEF WellKept
        <5> QED BY <1>10, <2>4, <2>7, <4>2, <5>1
      <4>4. j \notin hits
        BY <1>10, <2>2, <2>4, <4>3
      <4> QED BY <1>3, <4>2, <4>4
    <3> QED BY <1>9, <2>7, <3>1, <3>2
  <2> QED BY <2>3, <2>5, <2>6, <2>7 DEF Derived, found
<1>7. CASE hits = {}
  <2>1. Decided(pa)
    <3> SUFFICES ASSUME ~Decided(pa) PROVE FALSE
      OBVIOUS
    <3>1. ds # <<>>
      BY <1>1 DEF WellKept
    <3>2. Len(ds) \in DOMAIN ds
      BY <1>2, <3>1, FrontLastType
    <3>3. ds[Len(ds)].term = TermFor(p, q)
      BY <1>4, <3>1 DEF Accumulated, Last
    <3> HIDE DEF hits
    <3> QED BY <1>3, <1>7, <3>2, <3>3
  <2>2. found = [gi |-> pa.decision.gi, dl |-> pa.decision.dl,
                 cause |-> NoCause]
    BY <1>7, <2>1 DEF FindSatisfier
  <2>3. Chosen(q, pa.decision) \in StepsIn(p)
    BY <1>5, <2>1 DEF StepsOf
  <2>4. SubsetOf(Positive({pa.decision.version}), t)
    BY <1>4, <2>1
  <2>5. \A j \in DOMAIN ds : ~SubsetOf(ds[j].term, t)
    <3> HIDE DEF hits
    <3> QED BY <1>3, <1>7
  <2> HIDE DEF found
  <2>6. ASSUME NEW f \in StepsIn(p), f.package = q, f.gi < pa.decision.gi
        PROVE  ~SubsetOf(f.term, t)
    <3>1. pa.decision.gi \in Nat
      BY <1>1 DEF PackageAssignment, Decision
    <3>2. f # Chosen(q, pa.decision)
      BY <2>6, <3>1 DEF Chosen
    <3> QED BY <1>9, <2>5, <2>6, <3>2 DEF Derived
  <2> QED BY <2>2, <2>3, <2>4, <2>6 DEF Chosen, found
<1> QED BY <1>6, <1>7

\* satisfier_search finds the last satisfier and the level of the one before
\* it, unless no package of the incompatibility has an assignment.
LEMMA SatisfierFound ==
    ASSUME NEW p, NEW ids \in SUBSET (Nat \ {0}), WellDated(p, ids),
           History(p), NEW inc, IsIncompatibility(inc),
           NEW order \in Seq(Package), DOMAIN inc.terms \subseteq ToSet(order),
           \A q \in DOMAIN inc.terms : SubsetOf(TermFor(p, q), inc.terms[q])
    PROVE  LET found == SatisfierSearch(p, inc, order)
           IN  \/ /\ DOMAIN inc.terms \cap DOMAIN p.assigned = {}
                  /\ found = [package |-> Root, dl |-> 0, previous_dl |-> 0,
                              cause |-> NoCause]
               \/ \E e \in StepsIn(p) :
                     /\ e.package = found.package /\ e.dl = found.dl
                     /\ e.cause = found.cause /\ found.previous_dl \in Nat
                     /\ LastSatisfier(StepsIn(p), e, inc, found.previous_dl)
<1> DEFINE mentioned == DOMAIN inc.terms \cap DOMAIN p.assigned
           info(q) == FindSatisfier(p, p.assigned[q], inc.terms[q])
           latest == {q \in mentioned :
                         \A r \in mentioned : info(r).gi <= info(q).gi}
           places == {i \in DOMAIN order : order[i] \in latest}
           pkg == order[Max(places)]
           others == {0} \cup {info(q).dl : q \in mentioned \ {pkg}}
           found == SatisfierSearch(p, inc, order)
<1>0. p.level \in Nat /\ p.next \in Nat /\ StepsIn(p) \subseteq Step
  BY StepsType DEF WellDated, IsPartialSolution
<1>1. \A q \in DOMAIN inc.terms : inc.terms[q] \in Term
  BY DEF IsIncompatibility
<1>2. CASE mentioned = {}
  BY <1>2 DEF SatisfierSearch
<1>3. CASE mentioned # {}
  <2>1. found = [package |-> pkg, dl |-> info(pkg).dl,
                 cause |-> info(pkg).cause, previous_dl |-> Max(others)]
    BY <1>3 DEF SatisfierSearch
  <2>2. \A q \in mentioned : \E e \in StepsIn(p) :
           /\ e.package = q /\ e.gi = info(q).gi /\ e.dl = info(q).dl
           /\ e.cause = info(q).cause /\ SubsetOf(e.term, inc.terms[q])
           /\ \A f \in StepsIn(p) : f.package = q /\ f.gi < e.gi =>
                 ~SubsetOf(f.term, inc.terms[q])
    BY <1>1, SatisfierStep
  <2> HIDE DEF info, found
  <2>3. \A q \in mentioned : info(q).gi \in Nat /\ info(q).dl \in Nat
                             /\ info(q).gi < p.next /\ info(q).dl <= p.level
    BY <1>0, <2>2 DEF Step, History, Chronological
  <2>4. latest # {}
    <3> DEFINE dates == {info(q).gi : q \in mentioned}
    <3>1. /\ dates \in SUBSET Nat /\ dates # {}
          /\ \A x \in dates : x <= p.next
      BY <1>0, <1>3, <2>3
    <3>2. Max(dates) \in dates /\ \A x \in dates : Max(dates) >= x
      BY <1>0, <3>1, MaxOfNat
    <3>3. PICK q \in mentioned : info(q).gi = Max(dates)
      BY <3>2
    <3>4. \A r \in mentioned : info(r).gi <= info(q).gi
      BY <2>3, <3>2, <3>3
    <3> QED BY <3>3, <3>4
  <2>5. pkg \in latest
    <3>1. PICK q \in latest : TRUE
      BY <2>4
    <3>2. places # {}
      BY <3>1 DEF ToSet
    <3>3. DOMAIN order = 1..Len(order) /\ Len(order) \in Nat
      BY LenProperties
    <3>4. places \in SUBSET Nat /\ \A i \in places : i <= Len(order)
      BY <3>3
    <3> HIDE DEF places
    <3>5. Max(places) \in places
      BY <3>2, <3>3, <3>4, MaxOfNat
    <3> QED BY <3>5 DEF places
  <2> HIDE DEF pkg
  <2>6. pkg \in mentioned /\ \A r \in mentioned : info(r).gi <= info(pkg).gi
    BY <2>5
  <2>7. Max(others) \in others /\ Max(others) \in Nat
        /\ \A x \in others : Max(others) >= x
    <3>1. /\ others \in SUBSET Nat /\ others # {}
          /\ \A x \in others : x <= p.level
      BY <1>0, <2>3
    <3> HIDE DEF others
    <3> QED BY <1>0, <3>1, MaxOfNat
  <2>8. \A q \in mentioned \ {pkg} : info(q).dl <= Max(others)
    BY <2>3, <2>7
  <2> DEFINE previous == Max(others)
  <2>9. \/ previous = 0
        \/ \E q \in mentioned \ {pkg} : info(q).dl = previous
    BY <2>7
  <2>10. previous \in Nat /\ \A q \in mentioned \ {pkg} : info(q).dl <= previous
    BY <2>7, <2>8
  <2>11. /\ found.package = pkg /\ found.dl = info(pkg).dl
         /\ found.cause = info(pkg).cause /\ found.previous_dl = previous
    BY <2>1
  <2> HIDE DEF previous, others, latest, places
  <2>12. PICK e \in StepsIn(p) :
            /\ e.package = pkg /\ e.gi = info(pkg).gi /\ e.dl = info(pkg).dl
            /\ e.cause = info(pkg).cause /\ SubsetOf(e.term, inc.terms[pkg])
            /\ \A f \in StepsIn(p) : f.package = pkg /\ f.gi < e.gi =>
                  ~SubsetOf(f.term, inc.terms[pkg])
    BY <2>2, <2>6
  <2>13. ASSUME NEW q \in mentioned \ {pkg}
         PROVE  \E f \in StepsIn(p) :
                   /\ f.package = q /\ f.gi < e.gi /\ f.dl = info(q).dl
                   /\ SubsetOf(f.term, inc.terms[q])
    <3>1. PICK f \in StepsIn(p) :
             /\ f.package = q /\ f.gi = info(q).gi /\ f.dl = info(q).dl
             /\ SubsetOf(f.term, inc.terms[q])
      BY <2>2
    <3>2. f.gi # e.gi
      BY <2>12, <3>1 DEF History, Chronological
    <3>3. f.gi <= e.gi /\ f.gi \in Nat /\ e.gi \in Nat
      BY <2>3, <2>6, <2>12, <3>1
    <3> QED BY <3>1, <3>2, <3>3
  <2>14. ASSUME NEW q \in DOMAIN inc.terms \ {pkg}
         PROVE  \/ IsAnyTerm(inc.terms[q])
                \/ \E f \in StepsIn(p) :
                      /\ f.package = q /\ f.gi < e.gi /\ f.dl <= previous
                      /\ SubsetOf(f.term, inc.terms[q])
    <3>1. CASE q \in DOMAIN p.assigned
      BY <2>10, <2>13, <3>1
    <3>2. CASE q \notin DOMAIN p.assigned
      <4>1. TermFor(p, q) = AnyTerm
        BY <3>2 DEF TermFor, IsAssigned
      <4>2. SubsetOf(AnyTerm, inc.terms[q])
        BY <4>1
      <4> QED BY <1>1, <4>2, AboveAnyTerm
    <3> QED BY <3>1, <3>2
  <2>15. \/ previous = 0
         \/ \E f \in StepsIn(p) : /\ f.package # e.package /\ f.gi < e.gi
                                  /\ f.dl = previous
    BY <2>9, <2>12, <2>13
  <2>16. LastSatisfier(StepsIn(p), e, inc, previous)
    BY <2>6, <2>12, <2>14, <2>15 DEF LastSatisfier
  <2> QED BY <2>10, <2>11, <2>12, <2>16 DEF found
<1> QED BY <1>2, <1>3

-----------------------------------------------------------------------------
(* The history of the trail, action by action.                             *)

\* What the type invariant gives the lemmas above.
LEMMA HistoryTypes ==
    ASSUME Inv
    PROVE  /\ Causes \in SUBSET (Nat \ {0}) /\ Causes \subseteq Ids
           /\ WellDated(ps, Causes) /\ StepsIn(ps) \subseteq Step
           /\ \A e \in StepsIn(ps) : e.cause \in Causes \cup {NoCause}
           /\ \A id \in Ids :
                 /\ IsIncompatibility(store[id])
                 /\ \A q \in DOMAIN store[id].terms :
                       q \in Package /\ store[id].terms[q] \in Term
<1>1. Len(store) \in Nat
  BY LenProperties DEF Inv, StoreInv
<1>2. Causes \in SUBSET (Nat \ {0}) /\ Causes \subseteq Ids
  BY <1>1 DEF Causes, Ids
<1>3. WellDated(ps, Causes)
  BY DEF Inv, TrailInv
<1>4. \A id \in Ids : IsIncompatibility(store[id])
  BY ElementOfSeq, IncompatibilityDef DEF Inv, StoreInv, Ids
<1>5. \A id \in Ids : \A q \in DOMAIN store[id].terms :
         q \in Package /\ store[id].terms[q] \in Term
  BY <1>4 DEF IsIncompatibility
<1> QED BY <1>2, <1>3, <1>4, <1>5, StepsType

\* Satisfied means that all terms hold.
LEMMA AllHold ==
    ASSUME NEW inc
    PROVE  Unsatisfied(inc) = {} <=>
              \A q \in DOMAIN inc.terms :
                 SubsetOf(TermFor(ps, q), inc.terms[q])
BY DEF Unsatisfied, RelationOf, RelationWith

\* Appending to the store changes no cause.
LEMMA CausedKept ==
    ASSUME Inv, CausedBy(StepsIn(ps), store),
           \A id \in Ids : store'[id] = store[id]
    PROVE  CausedBy(StepsIn(ps), store')
<1>1. \A e \in StepsIn(ps) : e.cause # NoCause => e.cause \in Ids
  BY HistoryTypes
<1> QED BY <1>1 DEF CausedBy

\* Steps that leave the trail alone.
LEMMA HistoryKept ==
    ASSUME Inv, HistoryInv, UNCHANGED ps,
           \A id \in Ids : store'[id] = store[id],
           pc' = "register" => pc = "register" /\ UNCHANGED choice,
           pc' = "analyse" => pc = "analyse" /\ UNCHANGED conflict
    PROVE  HistoryInv'
<1>1. /\ History(ps') /\ CausedBy(StepsIn(ps'), store')
      /\ Grounded(StepsIn(ps'))
  BY CausedKept DEF HistoryInv
<1>2. Deciding'
  BY DEF HistoryInv, Deciding, Undecided, RangeOf
<1>3. ConflictHolds'
  <2> SUFFICES ASSUME pc' = "analyse" PROVE Unsatisfied(store[conflict])' = {}
    BY DEF ConflictHolds
  <2>1. pc = "analyse" /\ conflict' = conflict /\ conflict \in Ids
    BY DEF Inv, ControlInv
  <2>2. Unsatisfied(store[conflict])' = Unsatisfied(store[conflict])
    BY <2>1 DEF Unsatisfied, RelationOf
  <2> QED BY <2>1, <2>2 DEF HistoryInv, ConflictHolds
<1> QED BY <1>1, <1>2, <1>3 DEF HistoryInv

\* The only step of the initial trail is the decision for the project.
LEMMA InitSteps ==
    ASSUME Init
    PROVE  /\ History(ps) /\ ps.level = 1
           /\ StepsIn(ps) = {[package |-> Root, gi |-> 0, dl |-> 1, cause |-> NoCause,
                              term |-> Positive({RootVersion})]}
<1> DEFINE first == Chosen(Root, [dl |-> EmptySolution.level + 1,
                                  version |-> RootVersion,
                                  gi |-> EmptySolution.next])
<1>1. /\ EmptySolution.level = 0 /\ EmptySolution.next = 0
      /\ DOMAIN EmptySolution.assigned = {}
  BY DEF EmptySolution
<1>2. WellDated(EmptySolution, Nat \ {0})
  <2>1. EmptySolution \in
           [level: Nat, next: Nat,
            assigned: [DOMAIN EmptySolution.assigned -> PackageAssignment]]
    BY DEF EmptySolution
  <2> QED BY <1>1, <2>1 DEF WellDated, IsPartialSolution
<1>3. StepsIn(EmptySolution) = {}
  BY <1>1 DEF StepsIn
<1>4. History(EmptySolution)
  BY <1>1, <1>3 DEF History, Chronological
<1>5. SubsetOf(Positive({RootVersion}), TermFor(EmptySolution, Root))
  BY <1>1 DEF TermFor, IsAssigned, AnyTerm, Positive, Negative, SubsetOf
<1>6. ps = AddDecision(EmptySolution, Root, RootVersion)
  BY DEF Init
<1> HIDE DEF Init
<1>7. History(ps) /\ StepsIn(ps) = StepsIn(EmptySolution) \cup {first}
  BY <1>1, <1>2, <1>4, <1>5, <1>6, DecideSteps, PackagesAssumption
<1>8. first = [package |-> Root, gi |-> 0, dl |-> 1, cause |-> NoCause,
               term |-> Positive({RootVersion})]
  BY <1>1 DEF Chosen
<1>9. ps.level = 1
  BY <1>1, <1>6 DEF AddDecision
<1> HIDE DEF first
<1> QED BY <1>3, <1>7, <1>8, <1>9

\* The trail begins with the decision for the project.
LEMMA InitHistory == Init => HistoryInv
<1> SUFFICES ASSUME Init PROVE HistoryInv
  OBVIOUS
<1>1. pc = "register" /\ choice.package = Root
  BY DEF Init
<1>2. CausedBy(StepsIn(ps), store) /\ Grounded(StepsIn(ps))
  BY InitSteps DEF CausedBy, Grounded
<1>3. Deciding /\ ConflictHolds
  BY <1>1 DEF Deciding, ConflictHolds
<1> QED BY InitSteps, <1>2, <1>3 DEF HistoryInv

\* A dependency is registered.
LEMMA RegisterDependencyHistory ==
    ASSUME Inv, HistoryInv, RegisterDependency
    PROVE  HistoryInv'
<1> DEFINE dep == Pending[nextDep]
           inc == FromDependency(choice.package, choice.version,
                                 dep.package, dep.range)
<1>1. IsIncompatibility(inc)
  BY DependencyType DEF RegisterDependency, Inv
<1>2. store' = Append(store, inc)
  BY DEF RegisterDependency, Register
<1> HIDE DEF inc
<1>3. \A id \in Ids : store'[id] = store[id]
  BY <1>1, <1>2, IncompatibilityDef, AppendProperties DEF Inv, StoreInv, Ids
<1>4. UNCHANGED <<ps, pc, choice, conflict>>
  BY DEF RegisterDependency
<1> QED BY <1>3, <1>4, HistoryKept

\* No version is in range.
LEMMA RegisterNoVersionsHistory ==
    ASSUME Inv, HistoryInv, RegisterNoVersions
    PROVE  HistoryInv'
<1>1. PICK pkg \in Undecided(ps) :
         Register(NoVersions(pkg, RangeOf(pkg)), known)
  BY DEF RegisterNoVersions
<1> DEFINE inc == NoVersions(pkg, RangeOf(pkg))
<1>2. IsIncompatibility(inc)
  <2>1. pkg \in Package /\ RangeOf(pkg) \in SUBSET Version
    BY UndecidedType DEF Inv
  <2> QED BY <2>1, NoVersionsType
<1>3. store' = Append(store, inc)
  BY <1>1 DEF Register
<1> HIDE DEF inc
<1>4. \A id \in Ids : store'[id] = store[id]
  BY <1>2, <1>3, IncompatibilityDef, AppendProperties DEF Inv, StoreInv, Ids
<1>5. UNCHANGED <<ps, pc, choice, conflict>>
  BY DEF RegisterNoVersions, driverVars
<1> QED BY <1>4, <1>5, HistoryKept

\* A decision for an undecided package at a version in range.
LEMMA DecisionHistory ==
    ASSUME Inv, HistoryInv, NEW pkg \in Undecided(ps),
           NEW version \in Version, version \in RangeOf(pkg),
           ps' = AddDecision(ps, pkg, version), store' = store,
           pc' # "register", pc' # "analyse"
    PROVE  /\ HistoryInv'
           /\ \A e \in StepsIn(ps') : e \in StepsIn(ps) \/ e.cause = NoCause
<1>1. /\ pkg \in Package /\ pkg \in DOMAIN ps.assigned
      /\ ~Decided(ps.assigned[pkg])
      /\ SubsetOf(Positive({version}), TermFor(ps, pkg))
  <2>1. pkg \in Package
    BY UndecidedType DEF Inv
  <2> QED BY <2>1
          DEF Undecided, RangeOf, TermFor, IsAssigned, SubsetOf, Positive
<1> DEFINE new == Chosen(pkg, [dl |-> ps.level + 1, version |-> version,
                               gi |-> ps.next])
<1>2. History(ps') /\ StepsIn(ps') = StepsIn(ps) \cup {new}
  BY <1>1, HistoryTypes, DecideSteps DEF HistoryInv
<1>3. new.cause = NoCause /\ new.package = pkg /\ new.gi = ps.next
  BY DEF Chosen
<1> HIDE DEF new
<1>4. CausedBy(StepsIn(ps'), store')
  BY <1>2, <1>3 DEF CausedBy, Before, HistoryInv
<1>5. Grounded(StepsIn(ps'))
  <2>1. PICK f \in StepsIn(ps) : f.package = pkg
    BY <1>1, HistoryTypes, LatestStep DEF HistoryInv, History
  <2>2. f.gi < ps.next
    BY DEF HistoryInv, History, Chronological
  <2> QED BY <1>2, <1>3, <2>1, <2>2 DEF Grounded, HistoryInv
<1>6. Deciding' /\ ConflictHolds'
  BY DEF Deciding, ConflictHolds
<1> QED BY <1>2, <1>3, <1>4, <1>5, <1>6 DEF HistoryInv

\* The end of add_dependencies.
LEMMA FinishRegistrationHistory ==
    ASSUME Inv, HistoryInv, FinishRegistration
    PROVE  /\ HistoryInv'
           /\ \A e \in StepsIn(ps') : e \in StepsIn(ps) \/ e.cause = NoCause
<1>1. store' = store /\ pc' = "propagate" /\ pc = "register"
  BY DEF FinishRegistration
<1>2. CASE choice.package = Root
  <2>1. UNCHANGED ps
    BY <1>2 DEF FinishRegistration
  <2> QED BY <1>1, <2>1, HistoryKept
<1>3. CASE choice.package # Root
  <2>1. ps' = AddDecision(ps, choice.package, choice.version)
    BY <1>3 DEF FinishRegistration
  <2>2. /\ choice.package \in Undecided(ps) /\ choice.version \in Version
        /\ choice.version \in RangeOf(choice.package)
    BY <1>1, <1>3 DEF HistoryInv, Deciding, Inv, ControlInv
  <2> QED BY <1>1, <2>1, <2>2, DecisionHistory
<1> QED BY <1>2, <1>3

\* The preferred version is in range.
LEMMA PreferredInRange ==
    ASSUME Inv, NEW pkg \in Undecided(ps), InRange(pkg) # {}
    PROVE  /\ Preferred(pkg).package = pkg
           /\ Preferred(pkg).version \in Version
           /\ Preferred(pkg).version \in RangeOf(pkg)
<1>1. pkg \in Package
  BY UndecidedType DEF Inv
<1>2. index.offers[pkg] \in Seq(Version)
  BY <1>1 DEF Inv, ControlInv, PackageIndex
<1>3. InRange(pkg) \in SUBSET Nat
  BY <1>2, LenProperties DEF InRange
<1>4. Min(InRange(pkg)) \in InRange(pkg)
  BY <1>3, MinOfNat
<1> QED BY <1>2, <1>4, ElementOfSeq, LenProperties DEF InRange, Preferred

\* The dependencies of a version are about to be registered.
LEMMA ChooseVersionHistory ==
    ASSUME Inv, HistoryInv, ChooseVersion
    PROVE  HistoryInv'
<1>1. PICK pkg \in Undecided(ps) : InRange(pkg) # {} /\ choice' = Preferred(pkg)
  BY DEF ChooseVersion
<1>2. UNCHANGED <<ps, store>> /\ pc' = "register"
  BY DEF ChooseVersion, searchVars
<1>3. Deciding'
  BY <1>1, <1>2, PreferredInRange DEF Deciding, Undecided, RangeOf
<1>4. ConflictHolds'
  BY <1>2 DEF ConflictHolds
<1> QED BY <1>2, <1>3, <1>4 DEF HistoryInv

\* A version is decided again.
LEMMA ChooseVersionAgainHistory ==
    ASSUME Inv, HistoryInv, ChooseVersionAgain
    PROVE  /\ HistoryInv'
           /\ \A e \in StepsIn(ps') : e \in StepsIn(ps) \/ e.cause = NoCause
<1>1. PICK pkg \in Undecided(ps) :
         /\ InRange(pkg) # {}
         /\ ps' = AddDecision(ps, pkg, Preferred(pkg).version)
  BY DEF ChooseVersionAgain
<1>2. store' = store /\ pc' = "propagate"
  BY DEF ChooseVersionAgain, Quiescent
<1> QED BY <1>1, <1>2, PreferredInRange, DecisionHistory

\* All terms of the incompatibility hold when its analysis begins.
LEMMA FindConflictHistory ==
    ASSUME Inv, HistoryInv, FindConflict
    PROVE  HistoryInv'
<1>1. /\ UNCHANGED <<ps, store>> /\ pc' = "analyse"
      /\ conflict' = Head(watchers) /\ Unsatisfied(store[Head(watchers)]) = {}
  BY DEF FindConflict, searchVars
<1>2. ConflictHolds'
  BY <1>1 DEF ConflictHolds, Unsatisfied, RelationOf
<1>3. Deciding'
  BY <1>1 DEF Deciding
<1> QED BY <1>1, <1>2, <1>3 DEF HistoryInv

\* What unit propagation derives: the other terms of its cause held.
LEMMA DerivedUnit ==
    ASSUME Inv, HistoryInv, DeriveUnit
    PROVE  \E id \in Causes : \E pkg \in DOMAIN store[id].terms :
              /\ pkg \in Package /\ Negate(store[id].terms[pkg]) \in Term
              /\ ps' = AddDerivation(ps, pkg, id, Negate(store[id].terms[pkg]))
              /\ \A q \in DOMAIN store[id].terms \ {pkg} :
                    Before(StepsIn(ps), ps.next, q, store[id].terms[q])
<1> DEFINE id == Head(watchers)
<1>1. id \in Ids
  BY ExaminedType DEF DeriveUnit, Inv
<1> HIDE DEF id
<1>2. PICK pkg \in DOMAIN store[id].terms :
        /\ AlmostSatisfied(store[id], pkg)
        /\ ps' = AddDerivation(ps, pkg, id, Negate(store[id].terms[pkg]))
  BY DEF DeriveUnit, id
<1>3. id \in Causes
  <2>1. ASSUME id = 1 PROVE FALSE
    <3>1. pkg = Root
      BY <1>2, <2>1 DEF Inv, StoreInv, NotRoot
    <3> QED BY <1>2, <2>1, <3>1, NotRootNeverUnit DEF Inv
  <2> QED BY <1>1, <2>1, LenProperties DEF Inv, StoreInv, Ids, Causes
<1>4. pkg \in Package /\ Negate(store[id].terms[pkg]) \in Term
  BY <1>1, HistoryTypes, TermTypes
<1>5. ASSUME NEW q \in DOMAIN store[id].terms \ {pkg}
      PROVE  Before(StepsIn(ps), ps.next, q, store[id].terms[q])
  <2>1. SubsetOf(TermFor(ps, q), store[id].terms[q])
    BY <1>2 DEF AlmostSatisfied, Unsatisfied, RelationOf, RelationWith
  <2>2. store[id].terms[q] \in Term
    BY <1>1, HistoryTypes
  <2>3. \/ IsAnyTerm(store[id].terms[q])
        \/ \E e \in StepsIn(ps) :
              e.package = q /\ SubsetOf(e.term, store[id].terms[q])
    BY <2>1, <2>2, HistoryTypes, HoldsByStep DEF HistoryInv
  <2>4. \A e \in StepsIn(ps) : e.gi < ps.next
    BY DEF HistoryInv, History, Chronological
  <2> QED BY <2>3, <2>4 DEF Before
<1> QED BY <1>2, <1>3, <1>4, <1>5

\* A derivation whose cause held keeps the history.
LEMMA DerivationHistory ==
    ASSUME NEW p, NEW ids \in SUBSET (Nat \ {0}), WellDated(p, ids),
           History(p), NEW clauses, CausedBy(StepsIn(p), clauses),
           Grounded(StepsIn(p)),
           NEW id \in ids, NEW pkg \in Package, NEW term \in Term,
           \A q \in DOMAIN clauses[id].terms \ {pkg} :
               Before(StepsIn(p), p.next, q, clauses[id].terms[q])
    PROVE  LET learned == AddDerivation(p, pkg, id, term)
           IN  /\ History(learned) /\ CausedBy(StepsIn(learned), clauses)
               /\ Grounded(StepsIn(learned))
<1> DEFINE learned == AddDerivation(p, pkg, id, term)
           new == [package |-> pkg, gi |-> p.next, dl |-> p.level,
                   cause |-> id, term |-> Intersection(TermFor(p, pkg), term)]
<1>1. /\ History(learned)
      /\ IF IsAssigned(p, pkg) /\ Decided(p.assigned[pkg])
         THEN StepsIn(learned) = StepsIn(p)
         ELSE new \in Step /\ StepsIn(learned) = StepsIn(p) \cup {new}
  BY DeriveSteps
<1>2. StepsIn(p) \subseteq Step
  BY StepsType
<1>3. /\ new.cause = id /\ new.gi = p.next /\ new.package = pkg
      /\ new.cause # NoCause
  BY DEF NoCause
<1> HIDE DEF new, learned
<1>4. CASE new \in Step /\ StepsIn(learned) = StepsIn(p) \cup {new}
  <2>1. CausedBy(StepsIn(p) \cup {new}, clauses)
    BY <1>2, <1>3, <1>4, CausedDerive
  <2>2. Grounded(StepsIn(p) \cup {new})
    BY <1>3 DEF Grounded
  <2> QED BY <1>1, <1>4, <2>1, <2>2 DEF learned
<1>5. CASE StepsIn(learned) = StepsIn(p)
  BY <1>1, <1>5 DEF learned
<1> QED BY <1>1, <1>4, <1>5

\* Unit propagation derives.
LEMMA DeriveUnitHistory ==
    ASSUME Inv, HistoryInv, DeriveUnit
    PROVE  HistoryInv'
<1>0. PICK id \in Causes : \E pkg \in DOMAIN store[id].terms :
         /\ pkg \in Package /\ Negate(store[id].terms[pkg]) \in Term
         /\ ps' = AddDerivation(ps, pkg, id, Negate(store[id].terms[pkg]))
         /\ \A q \in DOMAIN store[id].terms \ {pkg} :
               Before(StepsIn(ps), ps.next, q, store[id].terms[q])
  BY DerivedUnit
<1>1. PICK pkg \in DOMAIN store[id].terms :
         /\ pkg \in Package /\ Negate(store[id].terms[pkg]) \in Term
         /\ ps' = AddDerivation(ps, pkg, id, Negate(store[id].terms[pkg]))
         /\ \A q \in DOMAIN store[id].terms \ {pkg} :
               Before(StepsIn(ps), ps.next, q, store[id].terms[q])
  BY <1>0
<1>2. /\ History(ps') /\ CausedBy(StepsIn(ps'), store)
      /\ Grounded(StepsIn(ps'))
  BY <1>1, HistoryTypes, DerivationHistory DEF HistoryInv
<1>3. store' = store /\ pc' = "propagate"
  BY DEF DeriveUnit, Examining
<1>4. Deciding' /\ ConflictHolds'
  BY <1>3 DEF Deciding, ConflictHolds
<1> QED BY <1>2, <1>3, <1>4 DEF HistoryInv

\* While a conflict is analysed the search finds the step that completed it,
\* or the incompatibility speaks only of packages without an assignment.
LEMMA ConflictSatisfier ==
    ASSUME Inv, HistoryInv, pc = "analyse"
    PROVE  /\ conflict \in Ids
           /\ \A q \in DOMAIN store[conflict].terms :
                 SubsetOf(TermFor(ps, q), store[conflict].terms[q])
           /\ \/ /\ DOMAIN store[conflict].terms \cap DOMAIN ps.assigned = {}
                 /\ Satisfier = [package |-> Root, dl |-> 0, previous_dl |-> 0,
                                 cause |-> NoCause]
              \/ \E e \in StepsIn(ps) :
                    /\ e.package = Satisfier.package /\ e.dl = Satisfier.dl
                    /\ e.cause = Satisfier.cause
                    /\ Satisfier.previous_dl \in Nat
                    /\ LastSatisfier(StepsIn(ps), e, store[conflict],
                                     Satisfier.previous_dl)
<1>1. conflict \in Ids
  BY DEF Inv, ControlInv
<1>2. \A q \in DOMAIN store[conflict].terms :
         SubsetOf(TermFor(ps, q), store[conflict].terms[q])
  BY AllHold DEF HistoryInv, ConflictHolds
<1>3. /\ known \in Seq(Package)
      /\ DOMAIN store[conflict].terms \subseteq ToSet(known)
  BY <1>1 DEF Inv, StoreInv
<1>4. IsIncompatibility(store[conflict])
  BY <1>1, HistoryTypes
<1>5. /\ WellDated(ps, Causes) /\ Causes \in SUBSET (Nat \ {0})
      /\ History(ps)
  BY HistoryTypes DEF HistoryInv
<1> DEFINE inc == store[conflict]
<1>6. Satisfier = SatisfierSearch(ps, inc, known)
  BY DEF Satisfier
<1> HIDE DEF inc
<1> QED BY <1>1, <1>2, <1>3, <1>4, <1>5, <1>6, SatisfierFound DEF inc

\* The result of a resolution step is violated in turn: what the cause of
\* the satisfier mentions held before it.
LEMMA ResolveWithCauseHistory ==
    ASSUME Inv, HistoryInv, ResolveWithCause
    PROVE  HistoryInv'
<1> DEFINE pivot == Satisfier.package
           a == store[conflict]
           b == store[Satisfier.cause]
           prior == PriorCause(a, b, pivot)
<1>1. /\ pc = "analyse" /\ Satisfier.cause # NoCause /\ UNCHANGED ps
      /\ IF DOMAIN prior.terms = {}
         THEN pc' = "panicked" /\ UNCHANGED <<store, conflict>>
         ELSE /\ store' = Append(store, prior) /\ conflict' = Len(store) + 1
              /\ pc' = pc
  BY DEF ResolveWithCause, Register
<1>2. conflict \in Ids /\ \A q \in DOMAIN a.terms :
         SubsetOf(TermFor(ps, q), a.terms[q])
  BY <1>1, ConflictSatisfier
<1>3. PICK e \in StepsIn(ps) :
         e.package = pivot /\ e.cause = Satisfier.cause
         /\ pivot \in DOMAIN a.terms
  BY <1>1, ConflictSatisfier DEF LastSatisfier
<1>4. Satisfier.cause \in Ids
  BY <1>1, <1>3, HistoryTypes
<1>5. /\ IsIncompatibility(a) /\ IsIncompatibility(b)
      /\ \A q \in DOMAIN a.terms : a.terms[q] \in Term
      /\ \A q \in DOMAIN b.terms : b.terms[q] \in Term
  BY <1>2, <1>4, HistoryTypes
<1>6. \A q \in DOMAIN b.terms \ {pivot} : SubsetOf(TermFor(ps, q), b.terms[q])
  <2> TAKE q \in DOMAIN b.terms \ {pivot}
  <2>1. Before(StepsIn(ps), e.gi, q, b.terms[q])
    BY <1>1, <1>3 DEF HistoryInv, CausedBy
  <2>2. \/ IsAnyTerm(b.terms[q])
        \/ \E f \in StepsIn(ps) : f.package = q /\ SubsetOf(f.term, b.terms[q])
    BY <2>1 DEF Before
  <2> QED BY <1>5, <2>2, HistoryTypes, HoldsByStep DEF HistoryInv
<1>7. IsIncompatibility(prior)
  BY <1>5, PriorCauseType
<1> HIDE DEF a, b, pivot
<1>8. ASSUME NEW q \in DOMAIN prior.terms
      PROVE  SubsetOf(TermFor(ps, q), prior.terms[q])
  <2>1. /\ q \in DOMAIN a.terms \cup DOMAIN b.terms
        /\ prior.terms[q] = IF q \notin DOMAIN b.terms THEN a.terms[q]
                            ELSE IF q \notin DOMAIN a.terms THEN b.terms[q]
                            ELSE IF q = pivot
                            THEN Union(a.terms[q], b.terms[q])
                            ELSE Intersection(a.terms[q], b.terms[q])
    BY DEF PriorCause
  <2>2. TermFor(ps, q) \in Term
    <3>1. CASE q \in DOMAIN ps.assigned
      <4>1. PICK f \in StepsIn(ps) : f.term = TermFor(ps, q)
        BY <3>1, HistoryTypes, LatestStep DEF HistoryInv, History
      <4> QED BY <4>1, HistoryTypes DEF Step
    <3>2. CASE q \notin DOMAIN ps.assigned
      BY <3>2 DEF TermFor, IsAssigned, AnyTerm, Term, Negative
    <3> QED BY <3>1, <3>2
  <2>3. CASE q \notin DOMAIN b.terms
    BY <1>2, <2>1, <2>3
  <2>4. CASE q \notin DOMAIN a.terms
    BY <1>3, <1>6, <2>1, <2>4
  <2>5. CASE q \in DOMAIN a.terms /\ q \in DOMAIN b.terms /\ q = pivot
    BY <1>2, <1>5, <2>1, <2>2, <2>5, BelowOne
  <2>6. CASE q \in DOMAIN a.terms /\ q \in DOMAIN b.terms /\ q # pivot
    BY <1>2, <1>5, <1>6, <2>1, <2>2, <2>6, BelowBoth
  <2> QED BY <2>1, <2>3, <2>4, <2>5, <2>6
<1>9. \A id \in Ids : store'[id] = store[id]
  BY <1>1, <1>7, IncompatibilityDef, AppendProperties DEF Inv, StoreInv, Ids
<1>10. /\ History(ps') /\ CausedBy(StepsIn(ps'), store')
       /\ Grounded(StepsIn(ps'))
  BY <1>1, <1>9, CausedKept DEF HistoryInv
<1>11. Deciding'
  BY <1>1 DEF Deciding
<1>12. ConflictHolds'
  <2> SUFFICES ASSUME pc' = "analyse" PROVE Unsatisfied(store[conflict])' = {}
    BY DEF ConflictHolds
  <2>1. store' = Append(store, prior) /\ conflict' = Len(store) + 1
    BY <1>1
  <2> HIDE DEF prior
  <2>2. store'[conflict'] = prior
    BY <1>7, <2>1, IncompatibilityDef, AppendProperties DEF Inv, StoreInv
  <2>3. Unsatisfied(prior) = {}
    BY <1>8, AllHold
  <2> QED BY <1>1, <2>2, <2>3 DEF Unsatisfied, RelationOf
<1> QED BY <1>10, <1>11, <1>12 DEF HistoryInv

\* A backjump returns to a level at which all terms of the conflict but
\* that of the satisfier, a decision, held already.
LEMMA BackjumpStep ==
    ASSUME Inv, HistoryInv, Backjump
    PROVE  LET back == Backtrack(ps, Satisfier.previous_dl)
               pkg == Satisfier.package
               inc == store[conflict]
           IN  /\ conflict \in Causes /\ Causes \in SUBSET (Nat \ {0})
               /\ pkg \in DOMAIN inc.terms /\ pkg \in Package
               /\ Negate(inc.terms[pkg]) \in Term
               /\ Satisfier.previous_dl \in Nat
               /\ Satisfier.previous_dl <= ps.level
               /\ WellDated(back, Causes) /\ History(back)
               /\ StepsIn(back) =
                     {f \in StepsIn(ps) : f.dl <= Satisfier.previous_dl}
               /\ CausedBy(StepsIn(back), store) /\ Grounded(StepsIn(back))
               /\ \A q \in DOMAIN inc.terms \ {pkg} :
                     Before(StepsIn(back), back.next, q, inc.terms[q])
<1> DEFINE pkg == Satisfier.package
           target == Satisfier.previous_dl
           inc == store[conflict]
           back == Backtrack(ps, target)
<1>1. /\ pc = "analyse" /\ ~IsTerminal(inc) /\ target < Satisfier.dl
  BY DEF Backjump
<1>2. PICK e \in StepsIn(ps) :
         /\ e.package = pkg /\ e.dl = Satisfier.dl /\ target \in Nat
         /\ LastSatisfier(StepsIn(ps), e, inc, target)
  BY <1>1, ConflictSatisfier
<1>3. /\ Causes \in SUBSET (Nat \ {0}) /\ WellDated(ps, Causes)
      /\ StepsIn(ps) \subseteq Step /\ History(ps)
      /\ CausedBy(StepsIn(ps), store)
  BY HistoryTypes DEF HistoryInv
<1>4. conflict \in Causes /\ conflict \in Ids
  BY <1>1, SatisfierType, NotTerminalCause DEF Inv
<1>5. /\ pkg \in DOMAIN inc.terms /\ pkg \in Package
      /\ Negate(inc.terms[pkg]) \in Term
  <2>1. pkg \in DOMAIN inc.terms
    BY <1>2 DEF LastSatisfier
  <2> QED BY <1>4, <2>1, HistoryTypes, TermTypes
<1>6. ps.level \in Nat /\ ps.next \in Nat /\ target <= ps.level
  <2>1. ps.level \in Nat /\ ps.next \in Nat
    BY <1>3 DEF WellDated, IsPartialSolution
  <2>2. e.dl <= ps.level /\ e.dl \in Nat
    BY <1>3 DEF History, Chronological, Step
  <2> QED BY <1>1, <1>2, <2>1, <2>2
<1> HIDE DEF pkg, target, inc
<1>7. /\ History(back)
      /\ StepsIn(back) = {f \in StepsIn(ps) : f.dl <= target}
      /\ WellDated(back, Causes)
  BY <1>2, <1>3, <1>6, UndoSteps, BacktrackWellDated
<1>8. CausedBy(StepsIn(back), store) /\ Grounded(StepsIn(back))
  <2>1. Chronological(StepsIn(ps), ps.next, ps.level)
    BY <1>3 DEF History
  <2>2. CausedBy({f \in StepsIn(ps) : f.dl <= target}, store)
    BY <1>2, <1>3, <1>6, <2>1, CausedUndo
  <2>3. Grounded({f \in StepsIn(ps) : f.dl <= target})
    BY <1>2, <1>3, <1>6, <2>1, GroundedUndo DEF HistoryInv
  <2> QED BY <1>7, <2>2, <2>3
<1> HIDE DEF back
<1>9. ASSUME NEW q \in DOMAIN inc.terms \ {pkg}
      PROVE  Before(StepsIn(back), back.next, q, inc.terms[q])
  <2>1. CASE IsAnyTerm(inc.terms[q])
    BY <2>1 DEF Before
  <2>2. CASE ~IsAnyTerm(inc.terms[q])
    <3>1. PICK f \in StepsIn(ps) : /\ f.package = q /\ f.dl <= target
                                   /\ SubsetOf(f.term, inc.terms[q])
      BY <1>2, <2>2 DEF LastSatisfier
    <3>2. f \in StepsIn(back)
      BY <1>7, <3>1
    <3>3. f.gi < back.next
      BY <1>7, <3>2 DEF History, Chronological
    <3> QED BY <3>1, <3>2, <3>3 DEF Before
  <2> QED BY <2>1, <2>2
<1> QED BY <1>2, <1>3, <1>4, <1>5, <1>6, <1>7, <1>8, <1>9
        DEF pkg, target, inc, back

\* A decision for the project, where backtracking undid it, keeps the history.
LEMMA RootAgainHistory ==
    ASSUME NEW p, NEW ids \in SUBSET (Nat \ {0}), WellDated(p, ids),
           History(p), NEW clauses, CausedBy(StepsIn(p), clauses),
           Grounded(StepsIn(p)), ~IsAssigned(p, Root)
    PROVE  LET again == AddDecision(p, Root, RootVersion)
           IN  /\ History(again) /\ CausedBy(StepsIn(again), clauses)
               /\ Grounded(StepsIn(again))
               /\ \A e \in StepsIn(again) : e \in StepsIn(p) \/ e.dl >= 1
<1> DEFINE again == AddDecision(p, Root, RootVersion)
           root == Chosen(Root, [dl |-> p.level + 1, version |-> RootVersion,
                                 gi |-> p.next])
<1>1. SubsetOf(Positive({RootVersion}), TermFor(p, Root))
  BY DEF TermFor, AnyTerm, Positive, Negative, SubsetOf
<1>2. History(again) /\ StepsIn(again) = StepsIn(p) \cup {root}
  BY <1>1, DecideSteps, PackagesAssumption DEF IsAssigned
<1>3. root.cause = NoCause /\ root.package = Root
  BY DEF Chosen
<1> HIDE DEF root, again
<1>4. /\ CausedBy(StepsIn(p) \cup {root}, clauses)
      /\ Grounded(StepsIn(p) \cup {root})
  BY <1>3 DEF CausedBy, Before, Grounded
<1>5. root.dl >= 1
  BY <1>2, <1>3 DEF History, Chronological
<1> QED BY <1>2, <1>4, <1>5 DEF again

\* A backjump keeps the history.
LEMMA BackjumpHistory ==
    ASSUME Inv, HistoryInv, Backjump
    PROVE  HistoryInv'
<1> DEFINE pkg == Satisfier.package
           back == Backtrack(ps, Satisfier.previous_dl)
           term == Negate(store[conflict].terms[pkg])
           learned == AddDerivation(back, pkg, conflict, term)
<1>1. /\ ps' = IF IsAssigned(learned, Root) THEN learned
               ELSE AddDecision(learned, Root, RootVersion)
      /\ store' = store /\ pc' = "propagate"
  BY DEF Backjump
<1>2. /\ conflict \in Causes /\ Causes \in SUBSET (Nat \ {0})
      /\ pkg \in Package /\ term \in Term
      /\ WellDated(back, Causes) /\ History(back)
      /\ CausedBy(StepsIn(back), store) /\ Grounded(StepsIn(back))
      /\ \A q \in DOMAIN store[conflict].terms \ {pkg} :
            Before(StepsIn(back), back.next, q, store[conflict].terms[q])
  BY BackjumpStep
<1> HIDE DEF pkg, back, term
<1>3. /\ History(learned) /\ CausedBy(StepsIn(learned), store)
      /\ Grounded(StepsIn(learned))
  BY <1>2, DerivationHistory
<1>4. WellDated(learned, Causes)
  <2>1. Causes \in SUBSET Nat
    BY <1>2
  <2> QED BY <1>2, <2>1, AddDerivationWellDated
<1> HIDE DEF learned
<1>5. /\ History(ps') /\ CausedBy(StepsIn(ps'), store')
      /\ Grounded(StepsIn(ps'))
  BY <1>1, <1>2, <1>3, <1>4, RootAgainHistory
<1>6. Deciding' /\ ConflictHolds'
  BY <1>1 DEF Deciding, ConflictHolds
<1> QED BY <1>5, <1>6 DEF HistoryInv

\* Every step keeps the history.
LEMMA NextHistory == Inv /\ HistoryInv /\ [Next]_vars => HistoryInv'
<1> SUFFICES ASSUME Inv, HistoryInv, [Next]_vars PROVE HistoryInv'
  OBVIOUS
<1>1. CASE \/ PopPackage \/ LeaveDormant \/ ReportNoSolution \/ ReturnSolution
           \/ UNCHANGED vars
  <2>1. /\ UNCHANGED <<ps, store>>
        /\ pc' = "register" => pc = "register" /\ UNCHANGED choice
        /\ pc' = "analyse" => pc = "analyse" /\ UNCHANGED conflict
    BY <1>1 DEF PopPackage, LeaveDormant, ReportNoSolution, ReturnSolution,
                vars, searchVars, driverVars, Examining
  <2> QED BY <2>1, HistoryKept
<1>2. CASE RegisterDependency
  BY <1>2, RegisterDependencyHistory
<1>3. CASE FinishRegistration
  BY <1>3, FinishRegistrationHistory
<1>4. CASE FindConflict
  BY <1>4, FindConflictHistory
<1>5. CASE DeriveUnit
  BY <1>5, DeriveUnitHistory
<1>6. CASE ResolveWithCause
  BY <1>6, ResolveWithCauseHistory
<1>7. CASE Backjump
  BY <1>7, BackjumpHistory
<1>8. CASE RegisterNoVersions
  BY <1>8, RegisterNoVersionsHistory
<1>9. CASE ChooseVersion
  BY <1>9, ChooseVersionHistory
<1>10. CASE ChooseVersionAgain
  BY <1>10, ChooseVersionAgainHistory
<1> QED BY <1>1, <1>2, <1>3, <1>4, <1>5, <1>6, <1>7, <1>8, <1>9, <1>10
        DEF Next, Stopped

\* The history of the trail is kept in every reachable state.
LEMMA HistoryInvariance == Spec => [](Inv /\ HistoryInv)
<1>1. Init => HistoryInv
  BY InitHistory
<1>2. Inv /\ HistoryInv /\ [Next]_vars => HistoryInv'
  BY NextHistory
<1> QED BY Invariance, <1>1, <1>2, PTL DEF Spec

\* While a conflict is analysed every term of the incompatibility under
\* analysis holds, through any number of resolutions: find_satisfier finds a
\* recorded step for each assigned package, never its third case.
THEOREM ConflictsHold == Spec => []ConflictHolds
<1>1. HistoryInv => ConflictHolds
  BY DEF HistoryInv
<1> QED BY HistoryInvariance, <1>1, PTL

\* The entries of Trail are dated like the steps.
LEMMA TrailSteps ==
    ASSUME Inv
    PROVE  \A e \in Trail : \E f \in StepsIn(ps) : e.gi = f.gi /\ e.dl = f.dl
<1> SUFFICES ASSUME NEW e \in Trail
             PROVE  \E f \in StepsIn(ps) : e.gi = f.gi /\ e.dl = f.dl
  OBVIOUS
<1>1. PICK q \in DOMAIN ps.assigned :
         \/ \E d \in ToSet(ps.assigned[q].derivations) :
               e = [gi |-> d.gi, dl |-> d.dl]
         \/ /\ Decided(ps.assigned[q])
            /\ e = [gi |-> ps.assigned[q].decision.gi,
                    dl |-> ps.assigned[q].decision.dl]
  BY DEF Trail
<1> DEFINE pa == ps.assigned[q]
<1>2. \A f \in StepsOf(q, pa) : f \in StepsIn(ps)
  BY DEF StepsIn
<1>3. CASE \E d \in ToSet(pa.derivations) : e = [gi |-> d.gi, dl |-> d.dl]
  <2>1. PICK i \in DOMAIN pa.derivations :
           e = [gi |-> pa.derivations[i].gi, dl |-> pa.derivations[i].dl]
    BY <1>3 DEF ToSet
  <2>2. Derived(q, pa.derivations[i]) \in StepsOf(q, pa)
    BY DEF StepsOf
  <2> QED BY <1>2, <2>1, <2>2 DEF Derived
<1>4. CASE /\ Decided(pa)
           /\ e = [gi |-> pa.decision.gi, dl |-> pa.decision.dl]
  <2>1. Chosen(q, pa.decision) \in StepsOf(q, pa)
    BY <1>4 DEF StepsOf
  <2> QED BY <1>2, <1>4, <2>1 DEF Chosen
<1> QED BY <1>1, <1>3, <1>4

\* Each level up to the current one was opened by one decision that stands.
LEMMA OneDecision ==
    ASSUME Inv, HistoryInv, NEW dl \in 1..ps.level
    PROVE  Cardinality({q \in DOMAIN ps.assigned :
               /\ Decided(ps.assigned[q])
               /\ ps.assigned[q].decision.dl = dl}) = 1
<1> DEFINE made == {q \in DOMAIN ps.assigned :
                       /\ Decided(ps.assigned[q])
                       /\ ps.assigned[q].decision.dl = dl}
<1>1. /\ Chronological(StepsIn(ps), ps.next, ps.level)
      /\ StepsIn(ps) \subseteq Step
  BY HistoryTypes DEF HistoryInv, History
<1>2. \A e, f \in StepsIn(ps) :
         /\ e.cause = NoCause /\ f.cause = NoCause
         /\ e.dl = dl /\ f.dl = dl
         => e = f
  <2> SUFFICES ASSUME NEW e \in StepsIn(ps), NEW f \in StepsIn(ps),
                      e.cause = NoCause, f.cause = NoCause, e.dl = dl, f.dl = dl
               PROVE  e = f
    OBVIOUS
  <2>1. e.gi \in Nat /\ f.gi \in Nat /\ e.dl \in Nat
    BY <1>1 DEF Step
  <2>2. ~(e.gi < f.gi) /\ ~(f.gi < e.gi)
    BY <1>1, <2>1 DEF Chronological
  <2> QED BY <1>1, <2>1, <2>2 DEF Chronological
<1>3. \A q \in made : \E e \in StepsIn(ps) :
         e.package = q /\ e.cause = NoCause /\ e.dl = dl
  <2> TAKE q \in made
  <2>1. Chosen(q, ps.assigned[q].decision) \in StepsIn(ps)
    BY DEF StepsIn, StepsOf
  <2> QED BY <2>1 DEF Chosen
<1>4. PICK e \in StepsIn(ps) : e.cause = NoCause /\ e.dl = dl
  BY <1>1 DEF Chronological
<1>5. e.package \in made
  <2> DEFINE pa == ps.assigned[e.package]
  <2>1. /\ e.package \in DOMAIN ps.assigned /\ e \in StepsOf(e.package, pa)
        /\ \A i \in DOMAIN pa.derivations : pa.derivations[i].cause \in Causes
    BY HistoryTypes, StepsType
  <2>2. \A i \in DOMAIN pa.derivations :
           e # Derived(e.package, pa.derivations[i])
    BY <1>4, <2>1, HistoryTypes DEF Derived, NoCause
  <2>3. Decided(pa) /\ e = Chosen(e.package, pa.decision)
    BY <2>1, <2>2 DEF StepsOf
  <2> QED BY <1>4, <2>1, <2>3 DEF Chosen
<1> HIDE DEF made
<1>6. made = {e.package}
  BY <1>2, <1>3, <1>4, <1>5
<1> QED BY <1>6, FS_Singleton DEF made

\* Later in the trail is never at a lower level, and every level has the one
\* decision that opened it, through any number of backjumps.
THEOREM TrailInOrder == Spec => []TrailOrdered
<1>1. Inv /\ HistoryInv => TrailOrdered
  <2> SUFFICES ASSUME Inv, HistoryInv PROVE TrailOrdered
    OBVIOUS
  <2>1. Chronological(StepsIn(ps), ps.next, ps.level)
    BY DEF HistoryInv, History
  <2>2. \A e, f \in Trail : e.gi < f.gi => e.dl <= f.dl
    BY <2>1, TrailSteps DEF Chronological
  <2>3. \A e \in Trail : e.gi < ps.next /\ e.dl <= ps.level
    BY <2>1, TrailSteps DEF Chronological
  <2> QED BY <2>2, <2>3, OneDecision DEF TrailOrdered
<1> QED BY HistoryInvariance, <1>1, PTL

-----------------------------------------------------------------------------
(* What holds at level 0 holds in every solution.                          *)

\* A term that holds at level 0 holds in every valid assignment.
LEMMA CertainTerm ==
    ASSUME NEW p, NEW ids \in SUBSET (Nat \ {0}), WellDated(p, ids),
           History(p), CertainIn(StepsIn(p), index), p.level = 0,
           NEW s \in Assignments, Valid(index, s),
           NEW q \in Package
    PROVE  /\ TermFor(p, q) \in Term /\ s[q] \in Allows(TermFor(p, q))
           /\ \A t \in Term : Before(StepsIn(p), p.next, q, t) =>
                 s[q] \in Allows(t)
<1>1. StepsIn(p) \subseteq Step /\ s[q] \in Choice
  BY StepsType DEF Assignments
<1>2. \A e \in StepsIn(p) : e.dl = 0
  BY <1>1 DEF History, Chronological, Step
<1>3. \A e \in StepsIn(p) : e.package = q => s[q] \in Allows(e.term)
  BY <1>2 DEF CertainIn
<1>4. TermFor(p, q) \in Term /\ s[q] \in Allows(TermFor(p, q))
  <2>1. CASE q \in DOMAIN p.assigned
    <3>1. PICK e \in StepsIn(p) : e.package = q /\ e.term = TermFor(p, q)
      BY <2>1, LatestStep DEF History
    <3> QED BY <1>1, <1>3, <3>1 DEF Step
  <2>2. CASE q \notin DOMAIN p.assigned
    <3>1. TermFor(p, q) = AnyTerm
      BY <2>2 DEF TermFor, IsAssigned
    <3> QED BY <1>1, <3>1 DEF AnyTerm, Term, Negative, Allows
  <2> QED BY <2>1, <2>2
<1>5. ASSUME NEW t \in Term, Before(StepsIn(p), p.next, q, t)
      PROVE  s[q] \in Allows(t)
  <2>1. CASE IsAnyTerm(t)
    BY <1>1, <2>1 DEF IsAnyTerm, Allows
  <2>2. CASE \E e \in StepsIn(p) : e.package = q /\ SubsetOf(e.term, t)
    <3>1. PICK e \in StepsIn(p) : e.package = q /\ SubsetOf(e.term, t)
      BY <2>2
    <3>2. e.term \in Term
      BY <1>1 DEF Step
    <3> QED BY <1>1, <1>3, <3>1, <3>2, SubsetOfMeaning
  <2> QED BY <1>5, <2>1, <2>2 DEF Before
<1> QED BY <1>4, <1>5

\* A derivation from an incompatibility that no solution violates.
LEMMA DerivationCertain ==
    ASSUME NEW p, NEW ids \in SUBSET (Nat \ {0}), WellDated(p, ids),
           History(p), CertainIn(StepsIn(p), index),
           NEW id \in ids, NEW inc,
           \A q \in DOMAIN inc.terms : q \in Package /\ inc.terms[q] \in Term,
           NEW pkg \in DOMAIN inc.terms,
           \A q \in DOMAIN inc.terms \ {pkg} :
               Before(StepsIn(p), p.next, q, inc.terms[q]),
           \A s \in Assignments : Valid(index, s) => ~Violates(s, inc)
    PROVE  CertainIn(StepsIn(AddDerivation(p, pkg, id, Negate(inc.terms[pkg]))),
                     index)
<1> DEFINE term == Negate(inc.terms[pkg])
           learned == AddDerivation(p, pkg, id, term)
           new == [package |-> pkg, gi |-> p.next, dl |-> p.level,
                   cause |-> id, term |-> Intersection(TermFor(p, pkg), term)]
<1>1. term \in Term /\ pkg \in Package
  BY TermTypes
<1>2. StepsIn(learned) \subseteq StepsIn(p) \cup {new}
  <2> HIDE DEF term
  <2>1. IF IsAssigned(p, pkg) /\ Decided(p.assigned[pkg])
        THEN StepsIn(learned) = StepsIn(p)
        ELSE new \in Step /\ StepsIn(learned) = StepsIn(p) \cup {new}
    BY <1>1, DeriveSteps
  <2> QED BY <2>1
<1>3. ASSUME p.level = 0, NEW s \in Assignments, Valid(index, s)
      PROVE  s[pkg] \in Allows(Intersection(TermFor(p, pkg), term))
  <2>1. \A q \in DOMAIN inc.terms \ {pkg} : s[q] \in Allows(inc.terms[q])
    BY <1>3, CertainTerm
  <2>2. s[pkg] \notin Allows(inc.terms[pkg])
    BY <1>3, <2>1 DEF Violates
  <2>3. s[pkg] \in Choice
    BY DEF Assignments
  <2>4. s[pkg] \in Allows(term)
    BY <2>2, <2>3, NegateMeaning
  <2>5. TermFor(p, pkg) \in Term /\ s[pkg] \in Allows(TermFor(p, pkg))
    BY <1>3, CertainTerm
  <2> HIDE DEF term
  <2> QED BY <1>1, <2>3, <2>4, <2>5, IntersectionMeaning
<1> HIDE DEF term, learned
<1>4. CertainIn(StepsIn(learned), index)
  BY <1>2, <1>3 DEF CertainIn
<1> QED BY <1>4 DEF learned, term

\* A refusal is right: the conflict is one that every solution violates, or
\* the project was derived to be out at level 0.
LEMMA ReportNoSolutionCertain ==
    ASSUME Inv, HistoryInv, SelfFree(index), StoreEntailed,
           CertainIn(StepsIn(ps), index), ReportNoSolution
    PROVE  ~Solvable(index)
<1> DEFINE inc == store[conflict]
<1>1. /\ pc = "analyse"
      /\ \/ IsTerminal(inc)
         \/ Satisfier.cause = NoCause /\ Satisfier.previous_dl >= Satisfier.dl
  BY DEF ReportNoSolution
<1>2. /\ conflict \in Ids
      /\ \A q \in DOMAIN inc.terms : SubsetOf(TermFor(ps, q), inc.terms[q])
      /\ \/ /\ DOMAIN inc.terms \cap DOMAIN ps.assigned = {}
            /\ Satisfier = [package |-> Root, dl |-> 0, previous_dl |-> 0,
                            cause |-> NoCause]
         \/ \E e \in StepsIn(ps) :
               /\ e.package = Satisfier.package /\ e.dl = Satisfier.dl
               /\ e.cause = Satisfier.cause /\ Satisfier.previous_dl \in Nat
               /\ LastSatisfier(StepsIn(ps), e, inc, Satisfier.previous_dl)
  BY <1>1, ConflictSatisfier
<1>3. /\ DOMAIN inc.terms # {}
      /\ \A q \in DOMAIN inc.terms : q \in Package /\ inc.terms[q] \in Term
  BY <1>2, HistoryTypes DEF Inv, StoreInv
<1>4. \A s \in Assignments : Valid(index, s) => ~Violates(s, inc)
  BY <1>2, LenProperties DEF StoreEntailed, Inv, StoreInv, Ids
<1>5. ASSUME NEW s \in Assignments, Valid(index, s)
      PROVE  s[Root] = RootVersion /\ \A q \in Package : s[q] \in Choice
  BY <1>5 DEF Valid, Assignments
<1>6. CASE IsTerminal(inc)
  <2>1. DOMAIN inc.terms = {Root}
    BY <1>3, <1>6 DEF IsTerminal
  <2>2. CASE conflict = 1
    <3>1. inc.terms[Root] = Negative({RootVersion})
      <4>1. inc = NotRoot
        BY <2>2 DEF Inv, StoreInv
      <4> HIDE DEF inc
      <4> QED BY <4>1 DEF NotRoot
    <3>2. SubsetOf(TermFor(ps, Root), Negative({RootVersion}))
      BY <1>2, <2>1, <3>1
    <3> DEFINE pa == ps.assigned[Root]
    <3>3. Root \in DOMAIN ps.assigned /\ RootStands(pa)
      BY DEF Inv, TrailInv
    <3>4. ~Decided(pa)
      <4> SUFFICES ASSUME Decided(pa) PROVE FALSE
        OBVIOUS
      <4>1. pa.decision.version = RootVersion
        BY <3>3, PackagesAssumption DEF RootStands, Decided
      <4>2. TermFor(ps, Root) = Positive({RootVersion})
        BY <3>3, <4>1, PackagesAssumption DEF TermFor, IsAssigned, Decided
      <4> QED BY <3>2, <4>2 DEF SubsetOf, Positive, Negative
    <3>5. /\ pa.derivations # <<>> /\ pa.derivations[1].dl = 0
          /\ \A i \in DOMAIN pa.derivations :
                pa.derivations[i].term = Negative({RootVersion})
      BY <3>3, <3>4, PackagesAssumption DEF RootStands, Decided
    <3>6. 1 \in DOMAIN pa.derivations
      <4>1. pa.derivations \in Seq(DatedDerivation)
        BY <3>3, HistoryTypes, StepsType DEF PackageAssignment
      <4>2. Len(pa.derivations) \in DOMAIN pa.derivations
        BY <3>5, <4>1, FrontLastType
      <4> QED BY <4>1, <4>2, LenProperties
    <3>7. Derived(Root, pa.derivations[1]) \in StepsIn(ps)
      BY <3>3, <3>6 DEF StepsIn, StepsOf
    <3>8. ASSUME NEW s \in Assignments, Valid(index, s) PROVE FALSE
      <4>1. s[Root] \in Allows(Negative({RootVersion}))
        BY <3>5, <3>6, <3>7, <3>8 DEF CertainIn, Derived
      <4> QED BY <1>5, <3>8, <4>1 DEF Allows, Negative
    <3> QED BY <3>8 DEF Solvable
  <2>3. CASE conflict # 1
    <3>1. conflict \in Causes
      BY <1>2, <2>3, LenProperties DEF Inv, StoreInv, Ids, Causes
    <3>2. inc.terms[Root] = Positive({RootVersion})
      BY <2>1, <3>1 DEF Inv, StoreInv
    <3>3. ASSUME NEW s \in Assignments, Valid(index, s) PROVE FALSE
      <4>1. Violates(s, inc)
        BY <1>5, <2>1, <3>2, <3>3 DEF Violates, Allows, Positive
      <4> QED BY <1>4, <3>3, <4>1
    <3> QED BY <3>3 DEF Solvable
  <2> QED BY <2>2, <2>3
<1>7. CASE DOMAIN inc.terms \cap DOMAIN ps.assigned = {}
  <2>1. \A q \in DOMAIN inc.terms : IsAnyTerm(inc.terms[q])
    <3> TAKE q \in DOMAIN inc.terms
    <3>1. TermFor(ps, q) = AnyTerm
      BY <1>7 DEF TermFor, IsAssigned
    <3> QED BY <1>2, <1>3, <3>1, AboveAnyTerm
  <2>2. ASSUME NEW s \in Assignments, Valid(index, s) PROVE FALSE
    <3>1. Violates(s, inc)
      BY <1>3, <1>5, <2>1, <2>2 DEF Violates, IsAnyTerm, Allows
    <3> QED BY <1>4, <2>2, <3>1
  <2> QED BY <2>2 DEF Solvable
<1>8. ASSUME Satisfier.cause = NoCause, Satisfier.previous_dl >= Satisfier.dl,
             NEW e \in StepsIn(ps), e.dl = Satisfier.dl,
             e.cause = Satisfier.cause, Satisfier.previous_dl \in Nat,
             LastSatisfier(StepsIn(ps), e, inc, Satisfier.previous_dl)
      PROVE  FALSE
  <2>1. /\ Chronological(StepsIn(ps), ps.next, ps.level)
        /\ StepsIn(ps) \subseteq Step
    BY HistoryTypes DEF HistoryInv, History
  <2>2. e.dl >= 1 /\ e.dl \in Nat
    BY <1>8, <2>1 DEF Chronological, Step
  <2>3. Satisfier.previous_dl # 0
    BY <1>8, <2>2
  <2>4. PICK f \in StepsIn(ps) : f.gi < e.gi /\ f.dl = Satisfier.previous_dl
    BY <1>8, <2>3 DEF LastSatisfier
  <2>5. f.dl < e.dl
    BY <1>8, <2>1, <2>4 DEF Chronological
  <2> QED BY <1>8, <2>2, <2>4, <2>5
<1> QED BY <1>1, <1>2, <1>6, <1>7, <1>8

\* Steps that only add decisions keep what is certain.
LEMMA CertainKept ==
    ASSUME CertainIn(StepsIn(ps), index), index' = index, HistoryInv',
           \A e \in StepsIn(ps') : e \in StepsIn(ps) \/ e.cause = NoCause
    PROVE  CertainIn(StepsIn(ps'), index')
<1>1. \A e \in StepsIn(ps') : e.cause = NoCause => e.dl >= 1
  BY DEF HistoryInv, History, Chronological
<1> QED BY <1>1 DEF CertainIn

\* Initially nothing is derived.
LEMMA InitCertain == Init => CertainInv
<1> SUFFICES ASSUME Init PROVE CertainInv
  OBVIOUS
<1>1. Inv /\ HistoryInv
  BY InitInv, InitHistory
<1>2. Causes = {} /\ pc = "register"
  BY DEF Init, Causes
<1> HIDE DEF Init
<1>3. \A e \in StepsIn(ps) : e.cause = NoCause
  BY <1>1, <1>2, HistoryTypes
<1>4. \A e \in StepsIn(ps) : e.dl >= 1
  BY <1>1, <1>3 DEF HistoryInv, History, Chronological
<1> QED BY <1>2, <1>4 DEF CertainInv, CertainIn, RefusalSound

\* Unit propagation derives what is certain.
LEMMA DeriveUnitCertain ==
    ASSUME Inv, HistoryInv, StoreEntailed, CertainIn(StepsIn(ps), index),
           DeriveUnit
    PROVE  CertainIn(StepsIn(ps'), index)
<1>0. PICK id \in Causes : \E pkg \in DOMAIN store[id].terms :
         /\ ps' = AddDerivation(ps, pkg, id, Negate(store[id].terms[pkg]))
         /\ \A q \in DOMAIN store[id].terms \ {pkg} :
               Before(StepsIn(ps), ps.next, q, store[id].terms[q])
  BY DerivedUnit
<1>1. PICK pkg \in DOMAIN store[id].terms :
         /\ ps' = AddDerivation(ps, pkg, id, Negate(store[id].terms[pkg]))
         /\ \A q \in DOMAIN store[id].terms \ {pkg} :
               Before(StepsIn(ps), ps.next, q, store[id].terms[q])
  BY <1>0
<1>2. id \in Ids /\ Ids = DOMAIN store
  BY HistoryTypes, LenProperties DEF Inv, StoreInv, Ids
<1> DEFINE inc == store[id]
<1>3. /\ \A q \in DOMAIN inc.terms : q \in Package /\ inc.terms[q] \in Term
      /\ \A s \in Assignments : Valid(index, s) => ~Violates(s, inc)
  BY <1>2, HistoryTypes DEF StoreEntailed
<1>4. /\ Causes \in SUBSET (Nat \ {0}) /\ WellDated(ps, Causes) /\ History(ps)
  BY HistoryTypes DEF HistoryInv
<1>5. /\ ps' = AddDerivation(ps, pkg, id, Negate(inc.terms[pkg]))
      /\ pkg \in DOMAIN inc.terms
      /\ \A q \in DOMAIN inc.terms \ {pkg} :
            Before(StepsIn(ps), ps.next, q, inc.terms[q])
  BY <1>1
<1> HIDE DEF inc
<1> QED BY <1>3, <1>4, <1>5, DerivationCertain

\* So does a backjump.
LEMMA BackjumpCertain ==
    ASSUME Inv, HistoryInv, StoreEntailed, CertainIn(StepsIn(ps), index),
           Backjump
    PROVE  CertainIn(StepsIn(ps'), index)
<1> DEFINE pkg == Satisfier.package
           back == Backtrack(ps, Satisfier.previous_dl)
           inc == store[conflict]
           term == Negate(inc.terms[pkg])
           learned == AddDerivation(back, pkg, conflict, term)
<1>1. ps' = IF IsAssigned(learned, Root) THEN learned
            ELSE AddDecision(learned, Root, RootVersion)
  BY DEF Backjump
<1>2. /\ conflict \in Causes /\ Causes \in SUBSET (Nat \ {0})
      /\ pkg \in Package /\ pkg \in DOMAIN inc.terms /\ term \in Term
      /\ WellDated(back, Causes) /\ History(back)
      /\ CausedBy(StepsIn(back), store) /\ Grounded(StepsIn(back))
      /\ StepsIn(back) = {f \in StepsIn(ps) : f.dl <= Satisfier.previous_dl}
      /\ \A q \in DOMAIN inc.terms \ {pkg} :
            Before(StepsIn(back), back.next, q, inc.terms[q])
  BY BackjumpStep
<1>3. conflict \in Ids /\ Ids = DOMAIN store
  BY <1>2, HistoryTypes, LenProperties DEF Inv, StoreInv, Ids
<1>4. /\ \A q \in DOMAIN inc.terms : q \in Package /\ inc.terms[q] \in Term
      /\ \A s \in Assignments : Valid(index, s) => ~Violates(s, inc)
  BY <1>3, HistoryTypes DEF StoreEntailed
<1>5. CertainIn(StepsIn(back), index)
  BY <1>2 DEF CertainIn
<1>6. History(learned) /\ CausedBy(StepsIn(learned), store)
      /\ Grounded(StepsIn(learned))
  <2> HIDE DEF pkg, back, term
  <2>1. \A q \in DOMAIN store[conflict].terms \ {pkg} :
           Before(StepsIn(back), back.next, q, store[conflict].terms[q])
    BY <1>2
  <2> HIDE DEF inc
  <2> QED BY <1>2, <2>1, DerivationHistory
<1>7. WellDated(learned, Causes)
  <2>1. Causes \in SUBSET Nat
    BY <1>2
  <2> HIDE DEF pkg, back, term
  <2> QED BY <1>2, <2>1, AddDerivationWellDated
<1> HIDE DEF pkg, back, inc
<1>8. CertainIn(StepsIn(learned), index)
  BY <1>2, <1>4, <1>5, DerivationCertain
<1> HIDE DEF learned
<1>9. ASSUME ~IsAssigned(learned, Root)
      PROVE  CertainIn(StepsIn(AddDecision(learned, Root, RootVersion)), index)
  <2>1. \A e \in StepsIn(AddDecision(learned, Root, RootVersion)) :
           e \in StepsIn(learned) \/ e.dl >= 1
    BY <1>2, <1>6, <1>7, <1>9, RootAgainHistory
  <2> QED BY <1>8, <2>1 DEF CertainIn
<1> QED BY <1>1, <1>8, <1>9

\* Every step keeps what is certain, and refuses rightly.
LEMMA NextCertain ==
    Inv /\ SoundInv /\ HistoryInv /\ CertainInv /\ [Next]_vars => CertainInv'
<1> SUFFICES ASSUME Inv, SoundInv, HistoryInv, CertainInv, [Next]_vars
             PROVE  CertainInv'
  OBVIOUS
<1>1. index' = index /\ HistoryInv'
  <2>1. index' = index
    BY DEF Next, RegisterDependency, FinishRegistration, PopPackage,
           FindConflict, DeriveUnit, LeaveDormant, ReportNoSolution,
           ResolveWithCause, Backjump, ReturnSolution, RegisterNoVersions,
           ChooseVersion, ChooseVersionAgain, Stopped, vars
  <2> QED BY <2>1, NextHistory
<1>2. SUFFICES ASSUME SelfFree(index)
               PROVE  CertainIn(StepsIn(ps'), index') /\ RefusalSound'
  BY <1>1 DEF CertainInv
<1>3. StoreEntailed /\ CertainIn(StepsIn(ps), index) /\ RefusalSound
  BY <1>2 DEF SoundInv, CertainInv
<1>4. CASE ReportNoSolution
  <2>1. ~Solvable(index) /\ UNCHANGED ps
    BY <1>2, <1>3, <1>4, ReportNoSolutionCertain
       DEF ReportNoSolution, searchVars
  <2> QED BY <1>1, <1>3, <2>1 DEF RefusalSound
<1>5. CASE UNCHANGED vars
  BY <1>1, <1>3, <1>5 DEF vars, searchVars, RefusalSound
<1>6. ASSUME [Next]_vars, ~ReportNoSolution, ~(UNCHANGED vars)
      PROVE  RefusalSound'
  <2>1. pc' # "no_solution"
    BY <1>6 DEF Next, RegisterDependency, FinishRegistration, PopPackage,
           FindConflict, DeriveUnit, LeaveDormant, ResolveWithCause, Backjump,
           ReturnSolution, RegisterNoVersions, ChooseVersion,
           ChooseVersionAgain, Stopped, Examining, Quiescent
  <2> QED BY <2>1 DEF RefusalSound
<1>7. ASSUME DeriveUnit \/ Backjump
      PROVE  CertainIn(StepsIn(ps'), index')
  BY <1>1, <1>3, <1>7, DeriveUnitCertain, BackjumpCertain
<1>8. ASSUME FinishRegistration \/ ChooseVersionAgain
      PROVE  CertainIn(StepsIn(ps'), index')
  BY <1>1, <1>3, <1>8, FinishRegistrationHistory, ChooseVersionAgainHistory,
     CertainKept
<1>9. ASSUME \/ RegisterDependency \/ PopPackage \/ FindConflict
             \/ LeaveDormant \/ ResolveWithCause \/ ReturnSolution
             \/ RegisterNoVersions \/ ChooseVersion
      PROVE  CertainIn(StepsIn(ps'), index')
  <2>1. UNCHANGED ps
    BY <1>9 DEF RegisterDependency, PopPackage, FindConflict, LeaveDormant,
           ResolveWithCause, ReturnSolution, RegisterNoVersions,
           ChooseVersion, searchVars
  <2> QED BY <1>1, <1>3, <2>1
<1> QED BY <1>4, <1>5, <1>6, <1>7, <1>8, <1>9 DEF Next, Stopped

\* For every index in which no version depends on its own package: the solver
\* refuses a project only if the index has no solution, whatever it picked
\* and learned, and however often the project's decision was undone.
THEOREM RefusalsSound == Spec => [](SelfFree(index) => RefusalSound)
<1>1. Init => SoundInv /\ CertainInv
  BY InitSound, InitCertain
<1>2. Inv /\ SoundInv /\ [Next]_vars => SoundInv'
  BY NextSound
<1>3. Inv /\ SoundInv /\ HistoryInv /\ CertainInv /\ [Next]_vars => CertainInv'
  BY NextCertain
<1>4. CertainInv => (SelfFree(index) => RefusalSound)
  BY DEF CertainInv
<1> QED BY HistoryInvariance, <1>1, <1>2, <1>3, <1>4, PTL DEF Spec

-----------------------------------------------------------------------------
(* What a backjump achieves.                                               *)

\* What is derived from the negation of a term contradicts the term, unless
\* the term held before.
LEMMA NegationContradicts ==
    ASSUME NEW a \in Term, NEW t \in Term, ~SubsetOf(a, t)
    PROVE  RelationWith(Intersection(a, Negate(t)), t) = "contradicted"
BY DEF Term, SubsetOf, IsDisjoint, Intersection, Negate, Positive, Negative,
       RelationWith

\* A step without a cause is the decision of its package.
LEMMA StepDecided ==
    ASSUME NEW p, NEW ids \in SUBSET (Nat \ {0}), WellDated(p, ids),
           NEW e \in StepsIn(p), e.cause = NoCause
    PROVE  /\ Decided(p.assigned[e.package])
           /\ e = Chosen(e.package, p.assigned[e.package].decision)
<1> DEFINE pa == p.assigned[e.package]
<1>1. /\ e.package \in DOMAIN p.assigned /\ e \in StepsOf(e.package, pa)
      /\ \A i \in DOMAIN pa.derivations : pa.derivations[i].cause \in ids
  BY StepsType
<1>2. \A i \in DOMAIN pa.derivations : pa.derivations[i].cause # NoCause
  BY <1>1 DEF NoCause
<1>3. \A i \in DOMAIN pa.derivations :
         e # Derived(e.package, pa.derivations[i])
  BY <1>2 DEF Derived
<1> QED BY <1>1, <1>3 DEF StepsOf

\* A backjump undoes the decision that satisfied the last term, and the term
\* with it.
LEMMA SatisfierUndone ==
    ASSUME Inv, HistoryInv, Backjump
    PROVE  LET back == Backtrack(ps, Satisfier.previous_dl)
               pkg == Satisfier.package
           IN  /\ IsAssigned(back, pkg) => ~Decided(back.assigned[pkg])
               /\ ~SubsetOf(TermFor(back, pkg), store[conflict].terms[pkg])
<1> DEFINE pkg == Satisfier.package
           target == Satisfier.previous_dl
           back == Backtrack(ps, target)
           t == store[conflict].terms[pkg]
<1>1. /\ pc = "analyse" /\ ~IsTerminal(store[conflict])
      /\ target < Satisfier.dl /\ Satisfier.cause = NoCause
  BY DEF Backjump
<1>2. PICK e \in StepsIn(ps) :
         /\ e.package = pkg /\ e.dl = Satisfier.dl /\ target \in Nat
         /\ e.cause = Satisfier.cause
         /\ LastSatisfier(StepsIn(ps), e, store[conflict], target)
  BY <1>1, ConflictSatisfier
<1>3. /\ conflict \in Causes /\ Causes \in SUBSET (Nat \ {0})
      /\ pkg \in DOMAIN store[conflict].terms
      /\ WellDated(back, Causes) /\ History(back)
      /\ StepsIn(back) = {f \in StepsIn(ps) : f.dl <= target}
  BY BackjumpStep
<1>4. /\ WellDated(ps, Causes) /\ StepsIn(ps) \subseteq Step
      /\ Chronological(StepsIn(ps), ps.next, ps.level)
      /\ Grounded(StepsIn(ps)) /\ t \in Term /\ SubsetOf(e.term, t)
      /\ \A f \in StepsIn(ps) : f.package = pkg /\ f.gi < e.gi =>
            ~SubsetOf(f.term, t)
  BY <1>2, <1>3, HistoryTypes DEF HistoryInv, History, LastSatisfier
<1> HIDE DEF pkg, target, back, t
<1>5. target < e.dl /\ e.dl \in Nat /\ e.cause = NoCause
  BY <1>1, <1>2, <1>4 DEF Step
<1>6. \A f \in StepsIn(back) :
         f \in StepsIn(ps) /\ f.dl < e.dl /\ f.gi < e.gi
  <2> SUFFICES ASSUME NEW f \in StepsIn(back)
               PROVE  f \in StepsIn(ps) /\ f.dl < e.dl /\ f.gi < e.gi
    OBVIOUS
  <2>1. f \in StepsIn(ps) /\ f.dl <= target
    BY <1>3
  <2>2. f.dl \in Nat /\ f.gi \in Nat /\ e.gi \in Nat
    BY <1>4, <2>1 DEF Step
  <2>3. f.dl < e.dl
    BY <1>2, <1>5, <2>1, <2>2
  <2>4. e.gi # f.gi /\ ~(e.gi < f.gi)
    BY <1>4, <1>5, <2>1, <2>2, <2>3 DEF Chronological
  <2> QED BY <2>1, <2>2, <2>3, <2>4
<1>7. IsAssigned(back, pkg) => ~Decided(back.assigned[pkg])
  <2> SUFFICES ASSUME pkg \in DOMAIN back.assigned,
                      Decided(back.assigned[pkg])
               PROVE  FALSE
    BY DEF IsAssigned
  <2> DEFINE f == Chosen(pkg, back.assigned[pkg].decision)
  <2>1. f \in StepsIn(back) /\ f.cause = NoCause /\ f.package = pkg
    BY StepsMade DEF Chosen
  <2> HIDE DEF f
  <2>2. f \in StepsIn(ps) /\ f.dl < e.dl
    BY <1>6, <2>1
  <2>3. f = e
    BY <1>2, <1>3, <1>4, <1>5, <2>1, <2>2, StepDecided
  <2> QED BY <1>5, <2>2, <2>3
<1>8. ~IsAnyTerm(t)
  <2>1. CASE pkg = Root
    BY <1>3, <2>1 DEF Inv, StoreInv, IsAnyTerm, Positive, t
  <2>2. CASE pkg # Root
    <3>1. PICK f \in StepsIn(ps) : f.package = pkg /\ f.gi < e.gi
      BY <1>2, <1>4, <1>5, <2>2 DEF Grounded
    <3>2. f.term \in Term /\ ~SubsetOf(f.term, t)
      BY <1>4, <3>1 DEF Step
    <3> QED BY <1>4, <3>2, AboveAnyTerm
  <2> QED BY <2>1, <2>2
<1>9. ~SubsetOf(TermFor(back, pkg), t)
  <2>1. \A f \in StepsIn(back) : f.package = pkg => ~SubsetOf(f.term, t)
    BY <1>4, <1>6
  <2> QED BY <1>3, <1>4, <1>8, <2>1, HoldsByStep
<1> QED BY <1>7, <1>9 DEF pkg, target, back, t

\* The learned consequence contradicts the incompatibility, above the level
\* returned to nothing is left, and the project is assigned.
LEMMA BackjumpAchieves ==
    ASSUME Inv, HistoryInv, Backjump
    PROVE  /\ \E q \in DOMAIN store[conflict].terms :
                 RelationWith(TermFor(ps', q), store[conflict].terms[q])
                     = "contradicted"
           /\ \A q \in DOMAIN ps'.assigned \ {Root} :
                 ps'.assigned[q].highest_dl <= Satisfier.previous_dl
           /\ IsAssigned(ps', Root)
<1> DEFINE pkg == Satisfier.package
           target == Satisfier.previous_dl
           back == Backtrack(ps, target)
           t == store[conflict].terms[pkg]
           learned == AddDerivation(back, pkg, conflict, Negate(t))
<1>1. ps' = IF IsAssigned(learned, Root) THEN learned
            ELSE AddDecision(learned, Root, RootVersion)
  BY DEF Backjump
<1>2. /\ conflict \in Causes /\ Causes \in SUBSET (Nat \ {0})
      /\ pkg \in DOMAIN store[conflict].terms /\ pkg \in Package
      /\ Negate(t) \in Term /\ target \in Nat
      /\ WellDated(back, Causes)
  BY BackjumpStep
<1>3. /\ IsAssigned(back, pkg) => ~Decided(back.assigned[pkg])
      /\ ~SubsetOf(TermFor(back, pkg), t)
  BY SatisfierUndone
<1>4. t \in Term
  BY <1>2, HistoryTypes
<1>5. back.level = target
  BY HistoryTypes DEF Backtrack, WellDated, IsPartialSolution
<1> HIDE DEF pkg, target, back, t
<1> DEFINE old == Entry(back, pkg, back.level)
<1>6. /\ ~Decided(old) /\ Accumulated(old) = TermFor(back, pkg)
      /\ Accumulated(old) \in Term /\ old \in PackageAssignment
      /\ old.derivations \in Seq(DatedDerivation)
      /\ back.level \in Nat
  <2>1. back.level \in Nat
    BY <1>2, <1>5
  <2>2. pkg \in DOMAIN back.assigned => ~Decided(back.assigned[pkg])
    BY <1>3 DEF IsAssigned
  <2> QED BY <1>2, <2>1, <2>2, EntryFacts
<1> DEFINE dated == [gi |-> back.next, dl |-> back.level, cause |-> conflict,
                     term |-> Intersection(Accumulated(old), Negate(t))]
           pa == [old EXCEPT !.derivations = Append(@, dated),
                             !.highest_dl = back.level]
<1>7. learned.level = target /\ learned.assigned = Put(back.assigned, pkg, pa)
  BY <1>2, <1>5, <1>6 DEF AddDerivation, WellDated, IsPartialSolution
<1>8. WellDated(learned, Causes)
  <2>1. Causes \in SUBSET Nat
    BY <1>2
  <2> QED BY <1>2, <2>1, AddDerivationWellDated
<1>9. TermFor(learned, pkg) = Intersection(TermFor(back, pkg), Negate(t))
  <2>1. learned.assigned[pkg] = pa /\ pkg \in DOMAIN learned.assigned
    BY <1>7 DEF Put
  <2>2. /\ pa.derivations = Append(old.derivations, dated)
        /\ pa.decision = old.decision
    BY <1>6 DEF PackageAssignment
  <2>3. pa.derivations # <<>> /\ Last(pa.derivations) = dated
    <3> HIDE DEF dated, old, pa
    <3> QED BY <1>6, <2>2, LenProperties, AppendProperties DEF Last
  <2>4. ~Decided(pa)
    BY <1>6, <2>2 DEF Decided
  <2> QED BY <1>6, <2>1, <2>3, <2>4 DEF TermFor, IsAssigned, Accumulated
<1> HIDE DEF learned
<1>10. /\ TermFor(ps', pkg) = TermFor(learned, pkg)
       /\ \A q \in DOMAIN ps'.assigned \ {Root} :
             q \in DOMAIN learned.assigned
             /\ ps'.assigned[q] = learned.assigned[q]
       /\ IsAssigned(ps', Root)
  <2>1. pkg \in DOMAIN learned.assigned
    BY <1>7 DEF Put
  <2>2. CASE IsAssigned(learned, Root)
    BY <1>1, <2>2
  <2>3. CASE ~IsAssigned(learned, Root)
    <3>1. /\ DOMAIN ps'.assigned = DOMAIN learned.assigned \cup {Root}
          /\ \A q \in DOMAIN learned.assigned \ {Root} :
                ps'.assigned[q] = learned.assigned[q]
      BY <1>1, <2>3, DecideOthers
    <3>2. pkg # Root
      BY <2>1, <2>3 DEF IsAssigned
    <3>3. ps'.assigned[pkg] = learned.assigned[pkg]
      BY <2>1, <3>1, <3>2
    <3> QED BY <2>1, <3>1, <3>3 DEF IsAssigned, TermFor
  <2> QED BY <2>2, <2>3
<1>11. \A q \in DOMAIN learned.assigned :
          learned.assigned[q].highest_dl <= target
  BY <1>7, <1>8 DEF WellDated, WellDatedAssignment
<1>12. RelationWith(TermFor(ps', pkg), t) = "contradicted"
  BY <1>3, <1>4, <1>6, <1>9, <1>10, NegationContradicts
<1> QED BY <1>2, <1>10, <1>11, <1>12 DEF pkg, target, t

\* Every backjump repairs the conflict it answers.
THEOREM BackjumpsRepair == Spec => BackjumpRepairs
<1>1. Inv /\ HistoryInv /\ [Next]_vars =>
        [pc = "analyse" /\ pc' = "propagate" =>
          /\ \E q \in DOMAIN store[conflict].terms :
                RelationWith(TermFor(ps', q), store[conflict].terms[q])
                    = "contradicted"
          /\ \A q \in DOMAIN ps'.assigned \ {Root} :
                ps'.assigned[q].highest_dl <= Satisfier.previous_dl
          /\ IsAssigned(ps', Root)]_vars
  <2> SUFFICES ASSUME Inv, HistoryInv, Next,
                      pc = "analyse", pc' = "propagate"
               PROVE  Backjump
    BY BackjumpAchieves
  <2> QED BY DEF Next, RegisterDependency, FinishRegistration, PopPackage,
           FindConflict, DeriveUnit, LeaveDormant, ReportNoSolution,
           ResolveWithCause, Backjump, ReturnSolution, RegisterNoVersions,
           ChooseVersion, ChooseVersionAgain, Stopped, Examining, Quiescent,
           vars
<1> QED BY HistoryInvariance, <1>1, PTL DEF Spec, BackjumpRepairs

-----------------------------------------------------------------------------
(* What is selected is wanted.                                             *)

\* A package is first selected because an incompatibility is violated without
\* it: a dependency, or what was learned from dependencies.
Wanted(steps, clauses) ==
    \A e \in steps : e.term.pos /\ e.package # Root =>
        \/ \E f \in steps :
              f.package = e.package /\ f.gi < e.gi /\ f.term.pos
        \/ /\ e.cause # NoCause
           /\ e.package \in DOMAIN clauses[e.cause].terms
           /\ ~clauses[e.cause].terms[e.package].pos

WantedInv ==
    /\ Wanted(StepsIn(ps), store)
    /\ pc = "solved" => Undecided(ps) = {}

\* A derivation narrows a term to a positive one only by a positive one.
LEMMA WantedDerive ==
    ASSUME NEW p, NEW ids \in SUBSET (Nat \ {0}), WellDated(p, ids),
           History(p), NEW clauses, Wanted(StepsIn(p), clauses),
           NEW id \in ids, NEW pkg \in DOMAIN clauses[id].terms,
           pkg \in Package, clauses[id].terms[pkg] \in Term
    PROVE  Wanted(StepsIn(AddDerivation(p, pkg, id,
                                        Negate(clauses[id].terms[pkg]))),
                  clauses)
<1> DEFINE t == clauses[id].terms[pkg]
           learned == AddDerivation(p, pkg, id, Negate(t))
           new == [package |-> pkg, gi |-> p.next, dl |-> p.level,
                   cause |-> id, term |-> Intersection(TermFor(p, pkg), Negate(t))]
<1>1. t \in Term /\ Negate(t) \in Term
  BY TermTypes
<1>2. IF IsAssigned(p, pkg) /\ Decided(p.assigned[pkg])
      THEN StepsIn(learned) = StepsIn(p)
      ELSE new \in Step /\ StepsIn(learned) = StepsIn(p) \cup {new}
  <2> HIDE DEF t
  <2> QED BY <1>1, DeriveSteps
<1>3. ASSUME new.term.pos, new \in Step
      PROVE  \/ \E f \in StepsIn(p) : f.package = pkg /\ f.gi < p.next /\ f.term.pos
             \/ ~t.pos
  <2>1. CASE pkg \in DOMAIN p.assigned
    <3>1. PICK e \in StepsIn(p) : e.package = pkg /\ e.term = TermFor(p, pkg)
      BY <2>1, LatestStep DEF History
    <3>2. e.gi < p.next
      BY DEF History, Chronological
    <3>3. e.term.pos \/ ~t.pos
      BY <1>1, <1>3, <3>1 DEF Intersection, Negate, Positive, Negative, Term
    <3> QED BY <3>1, <3>2, <3>3
  <2>2. CASE pkg \notin DOMAIN p.assigned
    <3>1. TermFor(p, pkg) = AnyTerm
      BY <2>2 DEF TermFor, IsAssigned
    <3>2. Intersection(AnyTerm, Negate(t)).pos
      BY <1>3, <3>1
    <3> HIDE DEF t
    <3>3. t.pos \in BOOLEAN
      BY <1>1 DEF Term
    <3>4. ~t.pos
      BY <3>2, <3>3 DEF Intersection, Negate, Positive, Negative, AnyTerm
    <3> QED BY <3>4
  <2> QED BY <2>1, <2>2
<1>4. /\ new.package = pkg /\ new.gi = p.next /\ new.cause = id
      /\ id # NoCause
  BY DEF NoCause
<1> HIDE DEF new, learned
<1>5. CASE new \in Step /\ StepsIn(learned) = StepsIn(p) \cup {new}
  <2> DEFINE more == StepsIn(p) \cup {new}
  <2>1. \A e \in StepsIn(p) : e \in more
    OBVIOUS
  <2>2. ASSUME NEW e \in more, e.term.pos, e.package # Root
        PROVE  \/ \E f \in more :
                     f.package = e.package /\ f.gi < e.gi /\ f.term.pos
               \/ /\ e.cause # NoCause
                  /\ e.package \in DOMAIN clauses[e.cause].terms
                  /\ ~clauses[e.cause].terms[e.package].pos
    <3>1. CASE e \in StepsIn(p)
      BY <2>1, <2>2, <3>1 DEF Wanted
    <3>2. CASE e = new
      BY <1>3, <1>4, <1>5, <2>1, <2>2, <3>2
    <3> QED BY <3>1, <3>2
  <2> HIDE DEF more
  <2>3. Wanted(more, clauses)
    BY <2>2 DEF Wanted
  <2> QED BY <1>5, <2>3 DEF more, learned
<1>6. CASE StepsIn(learned) = StepsIn(p)
  BY <1>6 DEF learned
<1> QED BY <1>2, <1>5, <1>6

\* Undoing leaves what came before the steps it leaves.
LEMMA WantedUndo ==
    ASSUME NEW steps \in SUBSET Step, NEW clauses, Wanted(steps, clauses),
           NEW next \in Nat, NEW level \in Nat,
           Chronological(steps, next, level), NEW target \in Nat
    PROVE  Wanted({e \in steps : e.dl <= target}, clauses)
<1> DEFINE kept == {e \in steps : e.dl <= target}
<1>1. \A e \in steps : e.gi \in Nat /\ e.dl \in Nat
  BY DEF Step
<1>2. ASSUME NEW e \in kept, NEW f \in steps, f.gi < e.gi
      PROVE  f \in kept
  <2>1. f.dl <= e.dl /\ e.dl <= target
    BY <1>2 DEF Chronological
  <2> QED BY <1>1, <2>1
<1> HIDE DEF kept
<1>3. kept \subseteq steps
  BY DEF kept
<1>4. Wanted(kept, clauses)
  BY <1>2, <1>3 DEF Wanted
<1> QED BY <1>4 DEF kept

\* A decision is for a package that is to be selected already.
LEMMA WantedDecide ==
    ASSUME Inv, HistoryInv, Wanted(StepsIn(ps), store), NEW pkg \in Undecided(ps),
           NEW version \in Version, version \in RangeOf(pkg)
    PROVE  Wanted(StepsIn(AddDecision(ps, pkg, version)), store)
<1>1. /\ pkg \in Package /\ pkg \in DOMAIN ps.assigned
      /\ ~Decided(ps.assigned[pkg])
      /\ SubsetOf(Positive({version}), TermFor(ps, pkg))
      /\ TermFor(ps, pkg).pos
  <2>1. pkg \in Package
    BY UndecidedType DEF Inv
  <2> QED BY <2>1
          DEF Undecided, RangeOf, TermFor, IsAssigned, SubsetOf, Positive
<1> DEFINE new == Chosen(pkg, [dl |-> ps.level + 1, version |-> version,
                               gi |-> ps.next])
<1>2. StepsIn(AddDecision(ps, pkg, version)) = StepsIn(ps) \cup {new}
  BY <1>1, HistoryTypes, DecideSteps DEF HistoryInv
<1>3. new.package = pkg /\ new.gi = ps.next
  BY DEF Chosen
<1>4. PICK f \in StepsIn(ps) : f.package = pkg /\ f.term = TermFor(ps, pkg)
  BY <1>1, HistoryTypes, LatestStep DEF HistoryInv, History
<1>5. f.gi < ps.next
  BY DEF HistoryInv, History, Chronological
<1> HIDE DEF new
<1> QED BY <1>1, <1>2, <1>3, <1>4, <1>5 DEF Wanted

\* The project is wanted without a reason.
LEMMA WantedRoot ==
    ASSUME NEW p, NEW ids \in SUBSET (Nat \ {0}), WellDated(p, ids),
           History(p), NEW clauses, Wanted(StepsIn(p), clauses),
           ~IsAssigned(p, Root)
    PROVE  Wanted(StepsIn(AddDecision(p, Root, RootVersion)), clauses)
<1> DEFINE again == AddDecision(p, Root, RootVersion)
           root == Chosen(Root, [dl |-> p.level + 1, version |-> RootVersion,
                                 gi |-> p.next])
<1>1. SubsetOf(Positive({RootVersion}), TermFor(p, Root))
  BY DEF TermFor, AnyTerm, Positive, Negative, SubsetOf
<1>2. StepsIn(again) = StepsIn(p) \cup {root}
  BY <1>1, DecideSteps, PackagesAssumption DEF IsAssigned
<1>3. root.package = Root
  BY DEF Chosen
<1> HIDE DEF root, again
<1> QED BY <1>2, <1>3 DEF Wanted, again

\* Initially there is the decision for the project only.
LEMMA InitWanted == Init => WantedInv
<1> SUFFICES ASSUME Init PROVE WantedInv
  OBVIOUS
<1>1. pc = "register" /\ DOMAIN ps.assigned = {Root}
  BY DEF Init, AddDecision, EmptySolution, Put
<1>2. Inv
  BY InitInv
<1> HIDE DEF Init
<1>3. \A e \in StepsIn(ps) : e.package = Root
  BY <1>1, <1>2, HistoryTypes, StepsType
<1> QED BY <1>1, <1>3 DEF WantedInv, Wanted

\* Steps that leave the trail alone.
LEMMA WantedKept ==
    ASSUME Inv, Wanted(StepsIn(ps), store), UNCHANGED ps,
           \A id \in Ids : store'[id] = store[id]
    PROVE  Wanted(StepsIn(ps'), store')
<1>1. \A e \in StepsIn(ps) : e.cause # NoCause => e.cause \in Ids
  BY HistoryTypes
<1> QED BY <1>1 DEF Wanted

\* The store only grows, while the trail stays as it is or moves on.
LEMMA StoreGrows ==
    ASSUME Inv, \/ RegisterDependency \/ RegisterNoVersions \/ ResolveWithCause
                \/ UNCHANGED store
    PROVE  \A id \in Ids : store'[id] = store[id]
<1>1. store' = store \/ \E inc : store' = Append(store, inc)
  BY DEF RegisterDependency, RegisterNoVersions, ResolveWithCause, Register
<1>2. CASE store' = store
  BY <1>2
<1>3. ASSUME NEW inc, store' = Append(store, inc)
      PROVE  \A id \in Ids : store'[id] = store[id]
  <2> DEFINE S == Incompatibility \cup {inc}
  <2>1. store \in Seq(S) /\ inc \in S
    BY DEF Inv, StoreInv
  <2> HIDE DEF S
  <2> QED BY <1>3, <2>1, AppendProperties DEF Ids
<1> QED BY <1>1, <1>2, <1>3

LEMMA DeriveUnitWanted ==
    ASSUME Inv, HistoryInv, Wanted(StepsIn(ps), store), DeriveUnit
    PROVE  Wanted(StepsIn(ps'), store')
<1>0. PICK id \in Causes : \E pkg \in DOMAIN store[id].terms :
         ps' = AddDerivation(ps, pkg, id, Negate(store[id].terms[pkg]))
  BY DerivedUnit
<1>1. PICK pkg \in DOMAIN store[id].terms :
         ps' = AddDerivation(ps, pkg, id, Negate(store[id].terms[pkg]))
  BY <1>0
<1>2. id \in Ids /\ pkg \in Package /\ store[id].terms[pkg] \in Term
  BY HistoryTypes
<1>3. /\ Causes \in SUBSET (Nat \ {0}) /\ WellDated(ps, Causes) /\ History(ps)
  BY HistoryTypes DEF HistoryInv
<1>4. Wanted(StepsIn(ps'), store)
  BY <1>1, <1>2, <1>3, WantedDerive
<1> QED BY <1>4 DEF DeriveUnit

LEMMA BackjumpWanted ==
    ASSUME Inv, HistoryInv, Wanted(StepsIn(ps), store), Backjump
    PROVE  Wanted(StepsIn(ps'), store')
<1> DEFINE pkg == Satisfier.package
           target == Satisfier.previous_dl
           back == Backtrack(ps, target)
           term == Negate(store[conflict].terms[pkg])
           learned == AddDerivation(back, pkg, conflict, term)
<1>1. /\ store' = store
      /\ ps' = IF IsAssigned(learned, Root) THEN learned
               ELSE AddDecision(learned, Root, RootVersion)
  BY DEF Backjump
<1>2. /\ conflict \in Causes /\ Causes \in SUBSET (Nat \ {0})
      /\ pkg \in Package /\ pkg \in DOMAIN store[conflict].terms
      /\ term \in Term /\ target \in Nat
      /\ WellDated(back, Causes) /\ History(back)
      /\ CausedBy(StepsIn(back), store) /\ Grounded(StepsIn(back))
      /\ StepsIn(back) = {f \in StepsIn(ps) : f.dl <= target}
      /\ \A q \in DOMAIN store[conflict].terms \ {pkg} :
            Before(StepsIn(back), back.next, q, store[conflict].terms[q])
  BY BackjumpStep
<1>3. store[conflict].terms[pkg] \in Term
  BY <1>2, HistoryTypes
<1> HIDE DEF pkg, target, back
<1>4. Wanted(StepsIn(back), store)
  <2>1. /\ Chronological(StepsIn(ps), ps.next, ps.level)
        /\ StepsIn(ps) \in SUBSET Step /\ ps.next \in Nat /\ ps.level \in Nat
    BY HistoryTypes DEF HistoryInv, History, WellDated, IsPartialSolution
  <2> QED BY <1>2, <2>1, WantedUndo
<1>5. Wanted(StepsIn(learned), store)
  BY <1>2, <1>3, <1>4, WantedDerive
<1> HIDE DEF term
<1>6. History(learned)
  BY <1>2, DerivationHistory
<1>7. WellDated(learned, Causes)
  <2>1. Causes \in SUBSET Nat
    BY <1>2
  <2> QED BY <1>2, <2>1, AddDerivationWellDated
<1> HIDE DEF learned
<1> QED BY <1>1, <1>2, <1>5, <1>6, <1>7, WantedRoot

\* Every step keeps a reason for what is selected.
LEMMA NextWanted == Inv /\ HistoryInv /\ WantedInv /\ [Next]_vars => WantedInv'
<1> SUFFICES ASSUME Inv, HistoryInv, WantedInv, [Next]_vars PROVE WantedInv'
  OBVIOUS
<1>1. Wanted(StepsIn(ps), store)
  BY DEF WantedInv
<1>2. pc' = "solved" => Undecided(ps') = {}
  <2>1. CASE ReturnSolution
    BY <2>1 DEF ReturnSolution, searchVars
  <2>2. CASE UNCHANGED vars
    BY <2>2 DEF vars, searchVars, WantedInv
  <2>3. CASE ~ReturnSolution /\ ~(UNCHANGED vars)
    BY <2>3 DEF Next, RegisterDependency, FinishRegistration, PopPackage,
           FindConflict, DeriveUnit, LeaveDormant, ResolveWithCause, Backjump,
           ReportNoSolution, RegisterNoVersions, ChooseVersion,
           ChooseVersionAgain, Stopped, Examining, Quiescent
  <2> QED BY <2>1, <2>2, <2>3
<1>3. CASE DeriveUnit \/ Backjump
  BY <1>1, <1>2, <1>3, DeriveUnitWanted, BackjumpWanted DEF WantedInv
<1>4. CASE FinishRegistration
  <2>1. CASE choice.package = Root
    <3>1. UNCHANGED <<ps, store>>
      BY <1>4, <2>1 DEF FinishRegistration
    <3> QED BY <1>1, <1>2, <3>1, WantedKept DEF WantedInv
  <2>2. CASE choice.package # Root
    <3>1. /\ ps' = AddDecision(ps, choice.package, choice.version)
          /\ store' = store /\ pc = "register"
      BY <1>4, <2>2 DEF FinishRegistration
    <3>2. /\ choice.package \in Undecided(ps) /\ choice.version \in Version
          /\ choice.version \in RangeOf(choice.package)
      BY <2>2, <3>1 DEF HistoryInv, Deciding, Inv, ControlInv
    <3> QED BY <1>1, <1>2, <3>1, <3>2, WantedDecide DEF WantedInv
  <2> QED BY <2>1, <2>2
<1>5. CASE ChooseVersionAgain
  <2>1. PICK pkg \in Undecided(ps) :
           /\ InRange(pkg) # {}
           /\ ps' = AddDecision(ps, pkg, Preferred(pkg).version)
    BY <1>5 DEF ChooseVersionAgain
  <2>2. store' = store
    BY <1>5 DEF ChooseVersionAgain
  <2> QED BY <1>1, <1>2, <2>1, <2>2, PreferredInRange, WantedDecide
          DEF WantedInv
<1>6. CASE \/ RegisterDependency \/ PopPackage \/ FindConflict
           \/ LeaveDormant \/ ResolveWithCause \/ ReturnSolution
           \/ RegisterNoVersions \/ ChooseVersion \/ ReportNoSolution
           \/ UNCHANGED vars
  <2>1. UNCHANGED ps
    BY <1>6 DEF RegisterDependency, PopPackage, FindConflict, LeaveDormant,
           ResolveWithCause, ReturnSolution, RegisterNoVersions,
           ChooseVersion, ReportNoSolution, searchVars, vars
  <2>2. \A id \in Ids : store'[id] = store[id]
    BY <1>6, StoreGrows
       DEF PopPackage, FindConflict, LeaveDormant, ReturnSolution,
           ChooseVersion, ReportNoSolution, searchVars, vars
  <2> QED BY <1>1, <1>2, <2>1, <2>2, WantedKept DEF WantedInv
<1> QED BY <1>3, <1>4, <1>5, <1>6 DEF Next, Stopped

\* In a finished resolution the choice for a package is in each of its terms.
LEMMA FinalChoice ==
    ASSUME Inv, HistoryInv, Undecided(ps) = {}, NEW e \in StepsIn(ps)
    PROVE  ExtractSolution(ps)[e.package] \in Allows(e.term)
<1> DEFINE q == e.package
           pa == ps.assigned[q]
<1>1. /\ Causes \in SUBSET (Nat \ {0}) /\ WellDated(ps, Causes) /\ History(ps)
      /\ StepsIn(ps) \subseteq Step
  BY HistoryTypes DEF HistoryInv
<1>2. q \in DOMAIN ps.assigned /\ q \in Package /\ pa \in PackageAssignment
  BY <1>1, StepsType
<1>3. e.term \in Term /\ SubsetOf(TermFor(ps, q), e.term)
  <2>1. e.term \in Term
    BY <1>1 DEF Step
  <2>2. SubsetOf(e.term, e.term)
    BY <2>1, SubsetOfReflexive
  <2> HIDE DEF q
  <2>3. e.package = q
    BY DEF q
  <2> QED BY <1>1, <2>1, <2>2, <2>3, HoldsByStep
<1>4. PICK f \in StepsIn(ps) : f.package = q /\ f.term = TermFor(ps, q)
  BY <1>1, <1>2, LatestStep DEF History
<1>5. TermFor(ps, q) \in Term
  BY <1>1, <1>4 DEF Step
<1>6. /\ ExtractSolution(ps)[q] = pa.decision.version
      /\ pa.decision.version \in Choice
  BY <1>2 DEF ExtractSolution, IsAssigned, PackageAssignment, Decision
<1> HIDE DEF q, pa
<1>7. pa.decision.version \in Allows(TermFor(ps, q))
  <2>1. CASE Decided(pa)
    BY <1>2, <2>1 DEF TermFor, IsAssigned, pa, Positive, Allows
  <2>2. CASE ~Decided(pa)
    <3>1. pa.decision.version = None
      BY <2>2 DEF Decided
    <3>2. TermFor(ps, q) = Accumulated(pa) /\ ~Accumulated(pa).pos
      BY <1>2, <2>2 DEF TermFor, IsAssigned, pa, Undecided
    <3> QED BY <1>5, <3>1, <3>2, PackagesAssumption DEF Allows, Choice, Term
  <2> QED BY <2>1, <2>2
<1>8. ExtractSolution(ps)[q] \in Allows(e.term)
  BY <1>3, <1>5, <1>6, <1>7, SubsetOfMeaning
<1> QED BY <1>8 DEF q

\* Without a group that nothing outside of it needs, an assignment stays valid.
LEMMA WithoutGroup ==
    ASSUME NEW idx \in PackageIndex, NEW s \in Assignments, Valid(idx, s),
           NEW group \in SUBSET (Selected(s) \ {Root}),
           ~\E q \in Selected(s) \ group :
               \E d \in DependenciesOf(idx, s, q) : d.package \in group,
           NEW r, r = [q \in Package |-> IF q \in group THEN None ELSE s[q]]
    PROVE  r \in Assignments /\ Valid(idx, r)
<1>1. r \in Assignments
  BY DEF Assignments, Choice
<1>2. Selected(r) = Selected(s) \ group
  BY DEF Selected
<1>3. \A q \in Selected(r) : r[q] = s[q] /\ q \in Package /\ r[q] \in Version
  BY <1>2 DEF Selected, Assignments, Choice
<1>4. r[Root] = RootVersion
  BY PackagesAssumption DEF Valid
<1>5. ASSUME NEW q \in Selected(r), NEW d \in DependenciesOf(idx, r, q)
      PROVE  r[d.package] \in d.range
  <2>1. d \in DependenciesOf(idx, s, q) /\ q \in Selected(s) \ group
    BY <1>2, <1>3, <1>5 DEF DependenciesOf
  <2>2. d.package \notin group /\ s[d.package] \in d.range
    BY <2>1 DEF Valid
  <2>3. d \in Dependency
    <3>1. Requirements(idx, q, r[q]) \in Seq(Dependency)
      BY <1>3 DEF Requirements, PackageIndex
    <3> QED BY <1>5, <3>1 DEF DependenciesOf, ToSet
  <2> QED BY <2>2, <2>3 DEF Dependency
<1> QED BY <1>1, <1>2, <1>3, <1>4, <1>5 DEF Valid

\* A group of selected packages that nothing outside needs: the first of them
\* to be selected was derived from an incompatibility that the assignment
\* without the group violates as well.
LEMMA GroupWanted ==
    ASSUME Inv, HistoryInv, WantedInv, pc = "solved",
           NEW group \in SUBSET (Selected(ExtractSolution(ps)) \ {Root}),
           group # {}
    PROVE  \E id \in Ids :
              Violates([q \in Package |-> IF q \in group THEN None
                                         ELSE ExtractSolution(ps)[q]],
                       store[id])
<1> DEFINE s == ExtractSolution(ps)
           r == [q \in Package |-> IF q \in group THEN None ELSE s[q]]
           joins == {e \in StepsIn(ps) : e.package \in group /\ e.term.pos}
<1>1. /\ StepsIn(ps) \subseteq Step /\ WellDated(ps, Causes)
      /\ Causes \in SUBSET (Nat \ {0}) /\ Causes \subseteq Ids
      /\ \A e \in StepsIn(ps) : e.cause \in Causes \cup {NoCause}
      /\ \A id \in Ids : \A q \in DOMAIN store[id].terms :
            q \in Package /\ store[id].terms[q] \in Term
      /\ Undecided(ps) = {}
  BY HistoryTypes DEF WantedInv
<1>2. joins # {}
  <2>1. PICK q \in group : TRUE
    OBVIOUS
  <2>2. q \in Package /\ s[q] # None
    BY DEF Selected
  <2>3. q \in DOMAIN ps.assigned /\ Decided(ps.assigned[q])
    BY <2>2 DEF ExtractSolution, IsAssigned, Decided
  <2>4. Chosen(q, ps.assigned[q].decision) \in StepsIn(ps)
    BY <2>3, StepsMade
  <2>5. Chosen(q, ps.assigned[q].decision) \in joins
    BY <2>1, <2>4 DEF Chosen, Positive
  <2> QED BY <2>5
<1>3. PICK e \in joins : \A f \in joins : ~(f.gi < e.gi)
  <2> DEFINE dates == {f.gi : f \in joins}
  <2>1. dates \in SUBSET Nat /\ dates # {}
    BY <1>1, <1>2 DEF Step
  <2> HIDE DEF dates
  <2>2. Min(dates) \in dates /\ \A x \in dates : Min(dates) <= x
    BY <2>1, MinOfNat
  <2>3. PICK e \in joins : e.gi = Min(dates)
    BY <2>2 DEF dates
  <2>4. \A f \in joins : f.gi \in Nat /\ f.gi \in dates
    BY <1>1 DEF Step, dates
  <2>5. \A f \in joins : ~(f.gi < e.gi)
    BY <2>2, <2>3, <2>4
  <2> QED BY <2>5
<1>4. /\ e.cause \in Ids /\ e.package \in DOMAIN store[e.cause].terms
      /\ ~store[e.cause].terms[e.package].pos
      /\ e \in StepsIn(ps) /\ e.package \in group
      /\ e.cause # NoCause
  <2>1. e.package # Root /\ e \in StepsIn(ps) /\ e.term.pos
    OBVIOUS
  <2>2. ~\E f \in StepsIn(ps) :
            f.package = e.package /\ f.gi < e.gi /\ f.term.pos
    BY <1>3
  <2> QED BY <1>1, <2>1, <2>2 DEF WantedInv, Wanted
<1> DEFINE inc == store[e.cause]
<1>5. ASSUME NEW q \in DOMAIN inc.terms
      PROVE  r[q] \in Allows(inc.terms[q])
  <2>1. q \in Package /\ inc.terms[q] \in Term
    BY <1>1, <1>4
  <2>2. s[q] \in Choice /\ r[q] \in Choice
    <3>1. s[q] \in Choice
      <4>1. q \in DOMAIN ps.assigned => ps.assigned[q] \in PackageAssignment
        BY <1>1, StepsType
      <4> QED BY <2>1, <4>1
              DEF ExtractSolution, IsAssigned, PackageAssignment, Decision, Choice
    <3> QED BY <2>1, <3>1 DEF Choice
  <2> HIDE DEF s
  <2>3. CASE q = e.package
    BY <1>4, <2>1, <2>3, PackagesAssumption DEF Term, Allows, Choice
  <2>4. CASE q # e.package /\ IsAnyTerm(inc.terms[q])
    BY <2>1, <2>2, <2>4 DEF IsAnyTerm, Allows
  <2>5. CASE q # e.package /\ ~IsAnyTerm(inc.terms[q])
    <3>1. Before(StepsIn(ps), e.gi, q, inc.terms[q])
      BY <1>4, <2>5 DEF HistoryInv, CausedBy
    <3>2. PICK f \in StepsIn(ps) : /\ f.package = q /\ f.gi < e.gi
                                   /\ SubsetOf(f.term, inc.terms[q])
      BY <2>5, <3>1 DEF Before
    <3>3. f.term \in Term
      BY <1>1 DEF Step
    <3>4. r[q] \in Allows(f.term)
      <4>1. CASE q \in group
        <5>1. ~f.term.pos
          BY <1>3, <3>2, <4>1
        <5>2. r[q] = None
          BY <2>1, <4>1
        <5> QED BY <3>3, <5>1, <5>2, PackagesAssumption DEF Term, Allows, Choice
      <4>2. CASE q \notin group
        <5>1. s[q] \in Allows(f.term)
          BY <1>1, <3>2, FinalChoice DEF s
        <5> QED BY <2>1, <4>2, <5>1
      <4> QED BY <4>1, <4>2
    <3> QED BY <2>1, <2>2, <3>2, <3>3, <3>4, SubsetOfMeaning
  <2> QED BY <2>3, <2>4, <2>5
<1>6. Violates(r, store[e.cause])
  BY <1>5 DEF Violates
<1> QED BY <1>4, <1>6

\* The choices that a solution is extracted from are versions, or none.
LEMMA ResultType == Inv /\ HistoryInv => ExtractSolution(ps) \in Assignments
<1>1. ASSUME Inv, HistoryInv
      PROVE  \A q \in DOMAIN ps.assigned :
                q \in Package /\ ps.assigned[q] \in PackageAssignment
  BY <1>1, HistoryTypes, StepsType
<1> QED BY <1>1 DEF ExtractSolution, IsAssigned, PackageAssignment, Decision,
                    Choice, Assignments

\* A valid resolution has nothing that is unneeded, by what the steps of the
\* trail and the store say in a finished search.
LEMMA ResultNeeded ==
    Inv /\ HistoryInv /\ SoundInv /\ WantedInv
      => (SelfFree(index) /\ SolutionSound => SolutionNeeded)
<1> SUFFICES ASSUME Inv, HistoryInv, SoundInv, WantedInv, SelfFree(index),
                    Valid(index, ExtractSolution(ps)), pc = "solved",
                    NEW group \in SUBSET (Selected(ExtractSolution(ps)) \ {Root}),
                    group # {},
                    ~\E q \in Selected(ExtractSolution(ps)) \ group :
                        \E d \in DependenciesOf(index, ExtractSolution(ps), q) :
                            d.package \in group
             PROVE  FALSE
  BY DEF SolutionSound, SolutionNeeded, Needed
<1> DEFINE s == ExtractSolution(ps)
           r == [q \in Package |-> IF q \in group THEN None ELSE s[q]]
<1>1. PICK id \in Ids : Violates(r, store[id])
  BY GroupWanted
<1>2. s \in Assignments
  BY ResultType
<1>3. index \in PackageIndex /\ Ids = DOMAIN store
  BY LenProperties DEF Inv, ControlInv, StoreInv, Ids
<1>4. r \in Assignments /\ Valid(index, r)
  <2> HIDE DEF s
  <2>1. /\ Valid(index, s) /\ group \in SUBSET (Selected(s) \ {Root})
        /\ ~\E q \in Selected(s) \ group :
               \E d \in DependenciesOf(index, s, q) : d.package \in group
    BY DEF s
  <2> QED BY <1>2, <1>3, <2>1, WithoutGroup
<1> QED BY <1>1, <1>3, <1>4 DEF SoundInv, StoreEntailed

\* For every index in which no version depends on its own package: a returned
\* resolution that is right has no group of packages that only the group
\* asks for, although packages were derived and decided for choices that
\* were undone later (run_solver, backtrack).  Where it violates a dependency
\* (the run pinned) there is nothing to measure what is needed by.
THEOREM NothingUnwanted ==
    Spec => [](SelfFree(index) /\ SolutionSound => SolutionNeeded)
<1>1. Init => SoundInv /\ WantedInv
  BY InitSound, InitWanted
<1>2. Inv /\ SoundInv /\ [Next]_vars => SoundInv'
  BY NextSound
<1>3. Inv /\ HistoryInv /\ WantedInv /\ [Next]_vars => WantedInv'
  BY NextWanted
<1>4. Inv /\ HistoryInv /\ SoundInv /\ WantedInv
      => (SelfFree(index) /\ SolutionSound => SolutionNeeded)
  BY ResultNeeded
<1> QED BY HistoryInvariance, <1>1, <1>2, <1>3, <1>4, PTL DEF Spec

-----------------------------------------------------------------------------
(* A finished resolution is valid where propagation left nothing out.      *)

\* What is decided, or about to be, is offered by the index.
AllOffered(p, idx) ==
    \A q \in DOMAIN p.assigned \ {Root} : Decided(p.assigned[q]) =>
        p.assigned[q].decision.version \in ToSet(idx.offers[q])

OfferedInv ==
    /\ AllOffered(ps, index)
    /\ pc = "register" /\ choice.package # Root =>
          choice.version \in ToSet(index.offers[choice.package])

LEMMA PreferredOffered ==
    ASSUME Inv, NEW pkg \in Undecided(ps), InRange(pkg) # {}
    PROVE  Preferred(pkg).version \in ToSet(index.offers[pkg])
<1>1. pkg \in Package
  BY UndecidedType DEF Inv
<1>2. index.offers[pkg] \in Seq(Version)
  BY <1>1 DEF Inv, ControlInv, PackageIndex
<1>3. InRange(pkg) \in SUBSET Nat
  BY <1>2, LenProperties DEF InRange
<1>4. Min(InRange(pkg)) \in InRange(pkg)
  BY <1>3, MinOfNat
<1>5. Min(InRange(pkg)) \in DOMAIN index.offers[pkg]
  BY <1>4 DEF InRange
<1> QED BY <1>5 DEF Preferred, ToSet

\* A decision adds one version; a derivation and a backjump add none.
LEMMA DecideOffered ==
    ASSUME NEW p, NEW ids, WellDated(p, ids), NEW idx, AllOffered(p, idx),
           NEW pkg, NEW version,
           pkg # Root => version \in ToSet(idx.offers[pkg])
    PROVE  AllOffered(AddDecision(p, pkg, version), idx)
<1> DEFINE after == AddDecision(p, pkg, version)
           old == Entry(p, pkg, p.level + 1)
<1>1. old \in PackageAssignment
  <2>1. p.level + 1 \in Nat /\ p.level <= p.level + 1
    BY DEF WellDated, IsPartialSolution
  <2> QED BY <2>1, EntryWellDated DEF WellDatedAssignment
<1>2. /\ DOMAIN after.assigned = DOMAIN p.assigned \cup {pkg}
      /\ \A q \in DOMAIN p.assigned \ {pkg} :
            after.assigned[q] = p.assigned[q]
  BY DEF AddDecision, Put
<1>3. after.assigned[pkg].decision.version = version
  <2> HIDE DEF old
  <2>1. after.assigned[pkg] =
          [old EXCEPT !.decision = [dl |-> p.level + 1, version |-> version,
                                    gi |-> p.next],
                      !.highest_dl = p.level + 1]
    BY DEF AddDecision, Put, old
  <2> QED BY <1>1, <2>1 DEF PackageAssignment
<1> HIDE DEF after
<1>4. AllOffered(after, idx)
  BY <1>2, <1>3 DEF AllOffered
<1> QED BY <1>4 DEF after

LEMMA DeriveOffered ==
    ASSUME NEW p, NEW ids, WellDated(p, ids), NEW idx, AllOffered(p, idx),
           NEW pkg, NEW cause, NEW term
    PROVE  AllOffered(AddDerivation(p, pkg, cause, term), idx)
<1> DEFINE after == AddDerivation(p, pkg, cause, term)
           old == Entry(p, pkg, p.level)
           dated == [gi |-> p.next, dl |-> p.level, cause |-> cause,
                     term |-> Intersection(Accumulated(old), term)]
           pa == [old EXCEPT !.derivations = Append(@, dated),
                             !.highest_dl = p.level]
<1>1. old \in PackageAssignment
  <2>1. p.level \in Nat /\ p.level <= p.level
    BY DEF WellDated, IsPartialSolution
  <2> QED BY <2>1, EntryWellDated DEF WellDatedAssignment
<1>2. p = [level |-> p.level, next |-> p.next, assigned |-> p.assigned]
  BY DEF WellDated, IsPartialSolution
<1>3. after.assigned = IF Decided(old) THEN p.assigned
                       ELSE Put(p.assigned, pkg, pa)
  <2> HIDE DEF old, pa
  <2>1. after = [p EXCEPT !.next = @ + 1,
                          !.assigned = IF Decided(old) THEN @
                                       ELSE Put(@, pkg, pa)]
    BY DEF AddDerivation, old, pa
  <2> HIDE DEF after
  <2> QED BY <1>2, <2>1
<1>4. pa.decision = old.decision
  <2> HIDE DEF old, dated
  <2> QED BY <1>1 DEF PackageAssignment
<1> HIDE DEF after, old, pa
<1>5. AllOffered(after, idx)
  BY <1>3, <1>4 DEF AllOffered, Decided, Put
<1> QED BY <1>5 DEF after

LEMMA UndoOffered ==
    ASSUME NEW p, NEW ids, WellDated(p, ids), NEW idx, AllOffered(p, idx),
           NEW target
    PROVE  AllOffered(Backtrack(p, target), idx)
<1> DEFINE after == Backtrack(p, target)
<1>1. /\ p = [level |-> p.level, next |-> p.next, assigned |-> p.assigned]
      /\ p.assigned \in [DOMAIN p.assigned -> PackageAssignment]
  BY DEF WellDated, IsPartialSolution
<1>2. /\ DOMAIN after.assigned \subseteq DOMAIN p.assigned
      /\ \A q \in DOMAIN after.assigned :
            \/ after.assigned[q] = p.assigned[q]
            \/ after.assigned[q] = UndoAbove(p.assigned[q], target)
  BY <1>1 DEF Backtrack
<1>3. ASSUME NEW q \in DOMAIN p.assigned
      PROVE  ~Decided(UndoAbove(p.assigned[q], target))
  <2>1. p.assigned[q] \in PackageAssignment
    BY <1>1, <1>3
  <2>2. UndoAbove(p.assigned[q], target).decision = NoDecision
    BY <2>1 DEF UndoAbove, PackageAssignment
  <2> QED BY <2>2 DEF Decided, NoDecision
<1> HIDE DEF after
<1>4. AllOffered(after, idx)
  BY <1>2, <1>3 DEF AllOffered
<1> QED BY <1>4 DEF after

LEMMA InitOffered == Init => OfferedInv
<1> SUFFICES ASSUME Init PROVE OfferedInv
  OBVIOUS
<1>1. ASSUME NEW q \in DOMAIN ps.assigned
      PROVE  q = Root
  BY <1>1 DEF Init, AddDecision, Put, EmptySolution
<1> QED BY <1>1 DEF Init, OfferedInv, AllOffered

LEMMA BackjumpOffered ==
    ASSUME Inv, HistoryInv, AllOffered(ps, index), Backjump
    PROVE  AllOffered(ps', index)
<1> DEFINE pkg == Satisfier.package
           back == Backtrack(ps, Satisfier.previous_dl)
           term == Negate(store[conflict].terms[pkg])
           learned == AddDerivation(back, pkg, conflict, term)
<1>1. ps' = IF IsAssigned(learned, Root) THEN learned
            ELSE AddDecision(learned, Root, RootVersion)
  BY DEF Backjump
<1>2. /\ conflict \in Causes /\ Causes \in SUBSET Nat
      /\ pkg \in Package /\ term \in Term
      /\ WellDated(back, Causes) /\ WellDated(ps, Causes)
  BY BackjumpStep, HistoryTypes
<1>3. AllOffered(back, index)
  BY <1>2, UndoOffered
<1> HIDE DEF pkg, back, term
<1>4. WellDated(learned, Causes)
  BY <1>2, AddDerivationWellDated
<1>5. AllOffered(learned, index)
  BY <1>2, <1>3, DeriveOffered
<1> HIDE DEF learned
<1> QED BY <1>1, <1>4, <1>5, DecideOffered

LEMMA NextOffered == Inv /\ HistoryInv /\ OfferedInv /\ [Next]_vars => OfferedInv'
<1> SUFFICES ASSUME Inv, HistoryInv, OfferedInv, [Next]_vars PROVE OfferedInv'
  OBVIOUS
<1>1. AllOffered(ps, index) /\ WellDated(ps, Causes)
  BY HistoryTypes DEF OfferedInv
<1>2. CASE RegisterDependency \/ UNCHANGED vars
  <2>1. UNCHANGED <<ps, index, pc, choice>>
    BY <1>2 DEF RegisterDependency, vars, searchVars, driverVars
  <2> QED BY <2>1 DEF OfferedInv
<1>3. CASE FinishRegistration
  <2>1. CASE choice.package = Root
    BY <1>1, <1>3, <2>1 DEF FinishRegistration, OfferedInv
  <2>2. CASE choice.package # Root
    BY <1>1, <1>3, <2>2, DecideOffered DEF FinishRegistration, OfferedInv
  <2> QED BY <2>1, <2>2
<1>4. CASE DeriveUnit
  <2>1. \E id, pkg, term : ps' = AddDerivation(ps, pkg, id, term)
    BY <1>4 DEF DeriveUnit
  <2>2. pc' = "propagate" /\ index' = index
    BY <1>4 DEF DeriveUnit, Examining
  <2> QED BY <1>1, <2>1, <2>2, DeriveOffered DEF OfferedInv
<1>5. CASE Backjump
  <2>1. pc' = "propagate" /\ index' = index
    BY <1>5 DEF Backjump
  <2> QED BY <1>1, <1>5, <2>1, BackjumpOffered DEF OfferedInv
<1>6. CASE ChooseVersion
  <2>1. PICK pkg \in Undecided(ps) :
           InRange(pkg) # {} /\ choice' = Preferred(pkg)
    BY <1>6 DEF ChooseVersion
  <2>2. UNCHANGED <<ps, index>>
    BY <1>6 DEF ChooseVersion, searchVars
  <2>3. /\ choice'.package = pkg
        /\ choice'.version \in ToSet(index.offers[pkg])
    BY <2>1, PreferredInRange, PreferredOffered
  <2> QED BY <1>1, <2>2, <2>3 DEF OfferedInv
<1>7. CASE ChooseVersionAgain
  <2>1. PICK pkg \in Undecided(ps) :
           /\ InRange(pkg) # {}
           /\ ps' = AddDecision(ps, pkg, Preferred(pkg).version)
    BY <1>7 DEF ChooseVersionAgain
  <2>2. pc' = "propagate" /\ index' = index
    BY <1>7 DEF ChooseVersionAgain, Quiescent
  <2>3. Preferred(pkg).version \in ToSet(index.offers[pkg])
    BY <2>1, PreferredOffered
  <2> QED BY <1>1, <2>1, <2>2, <2>3, DecideOffered DEF OfferedInv
<1>8. CASE \/ PopPackage \/ FindConflict \/ LeaveDormant
           \/ ReportNoSolution \/ ResolveWithCause \/ ReturnSolution
           \/ RegisterNoVersions
  <2>1. UNCHANGED <<ps, index>> /\ pc' # "register"
    BY <1>8 DEF PopPackage, FindConflict, LeaveDormant, ReportNoSolution,
           ResolveWithCause, ReturnSolution, RegisterNoVersions, searchVars,
           Examining, Quiescent
  <2> QED BY <1>1, <2>1 DEF OfferedInv
<1> QED BY <1>2, <1>3, <1>4, <1>5, <1>6, <1>7, <1>8 DEF Next, Stopped

-----------------------------------------------------------------------------
(* No requirement is lost between a decision and the end of its            *)
(* propagation.                                                            *)

\* The incompatibility that add_dependencies makes of dependency d of version c.
Clause(c, d) == FromDependency(c.package, c.version, d.package, d.range)

\* It is in the store and has a watch on the package of c.
Filed(c, d, id) == store[id] = Clause(c, d) /\ c.package \in Watching(watch, id)

\* Watches are on packages the incompatibility mentions.
WatchedWithin == \A id \in Ids : Watching(watch, id) \subseteq DOMAIN store[id].terms

FiledInv ==
    /\ WatchedWithin
    /\ \A c \in added :
          \A d \in ToSet(Requirements(index, c.package, c.version)) :
             \E id \in Ids : Filed(c, d, id)
    /\ pc = "register" =>
          \A i \in DOMAIN Pending :
             i < nextDep => \E id \in Ids : Filed(choice, Pending[i], id)

\* A step decides version v.
Decides(e, v) == e.cause = NoCause /\ e.term = Positive({v})

At(e, v) == [package |-> e.package, version |-> v]

\* The requirement d has been derived, at a level up to dl.
Met(steps, d, dl) ==
    \E e \in steps : /\ e.package = d.package /\ e.dl <= dl
                     /\ SubsetOf(e.term, Positive(d.range))

\* Propagation still has to look at the package that was decided, or is at it
\* and has not come to the requirement; or the search is past propagation.
Due(c, d) ==
    \/ pc = "propagate" /\ c.package \in Range(buffer)
    \/ /\ pc = "propagate" /\ current = c.package
       /\ \E id \in Range(watchers) : Filed(c, d, id)
    \/ pc = "register" /\ c.package = Root /\ choice.package = Root
    \/ pc \in Ended \cup {"analyse"}

\* The requirements of what was decided at earlier levels were derived at the
\* level of the decision, or before; those of the current level have been, or
\* are due.  A backjump goes below the current level, and so loses none with
\* the packages it clears from the buffer.
RequiredInv ==
    \A e \in StepsIn(ps), v \in Version : Decides(e, v) =>
        /\ \/ At(e, v) \in added
           \/ pc = "register" /\ choice = At(e, v) /\ e.package = Root
        /\ \A d \in ToSet(Requirements(index, e.package, v)) :
              \/ Met(StepsIn(ps), d, e.dl)
              \/ e.dl = ps.level /\ Due(At(e, v), d)

RootIn(p) == \E e \in StepsIn(p) : e.package = Root /\ e.cause = NoCause

\* The project is decided, or was refuted at level 0 and propagation has still
\* to find that NotRoot is violated.
RootInv ==
    \/ RootIn(ps)
    \/ /\ ps.level = 0
       /\ \/ pc = "propagate" /\ Root \in Range(buffer)
          \/ pc = "propagate" /\ current = Root /\ 1 \in Range(watchers)
          \/ pc \in Ended \cup {"analyse"}

-----------------------------------------------------------------------------
(* Watches.                                                                *)

\* set_watches sets the pair or finds it set.
LEMMA SetWatchesPair ==
    ASSUME NEW n \in Nat, NEW wi, WellIndexed(wi, n), NEW id \in 1..n,
           NEW a \in Package, NEW b \in Package
    PROVE  /\ Watching(SetWatches(wi, id, a, b), id) = {a, b}
           /\ \A j \in 1..n : j # id =>
                 Watching(SetWatches(wi, id, a, b), j) = Watching(wi, j)
<1> DEFINE old == wi.watched[id]
           new == [wi EXCEPT
                     !.lists = WatchPair(UnwatchPair(@, old, id), <<a, b>>, id),
                     !.watched[id] = <<a, b>>]
<1>1. CASE old \in {<<a, b>>, <<b, a>>}
  <2>1. SetWatches(wi, id, a, b) = wi
    BY <1>1 DEF SetWatches
  <2> QED BY <1>1, <2>1 DEF Watching
<1>2. CASE old \notin {<<a, b>>, <<b, a>>}
  <2>1. SetWatches(wi, id, a, b) = new
    BY <1>2 DEF SetWatches
  <2>2. wi.watched \in Seq(Package \X Package) /\ DOMAIN wi.watched = 1..n
    BY LenProperties DEF WellIndexed
  <2>3. new.watched = [wi.watched EXCEPT ![id] = <<a, b>>]
    BY DEF WellIndexed
  <2> HIDE DEF new
  <2>4. /\ new.watched[id] = <<a, b>>
        /\ \A j \in 1..n : j # id => new.watched[j] = wi.watched[j]
    BY <2>2, <2>3
  <2> QED BY <2>1, <2>4 DEF Watching
<1> QED BY <1>1, <1>2

\* What a step may do to the watches of one incompatibility.
Moved(before, after, inc) ==
    \/ after = before
    \/ \E a, b \in DOMAIN inc.terms : a # b /\ after = {a, b}

\* ensure_watched moves a watch to a package that has none.
LEMMA EnsureWatchedMoves ==
    ASSUME NEW n \in Nat, NEW wi, WellIndexed(wi, n), NEW id \in 1..n,
           NEW inc, NEW pkg \in DOMAIN inc.terms, pkg \in Package,
           Watching(wi, id) \subseteq DOMAIN inc.terms
    PROVE  LET new == EnsureWatched(wi, id, pkg)
           IN  /\ Moved(Watching(wi, id), Watching(new, id), inc)
               /\ \A j \in 1..n : j # id => Watching(new, j) = Watching(wi, j)
<1> DEFINE old == wi.watched[id]
<1>1. old \in Package \X Package
  BY ElementOfSeq DEF WellIndexed
<1>2. CASE pkg \in {old[1], old[2]}
  BY <1>2 DEF EnsureWatched, Moved
<1>3. CASE pkg \notin {old[1], old[2]}
  <2>1. EnsureWatched(wi, id, pkg) = SetWatches(wi, id, pkg, old[1])
    BY <1>3 DEF EnsureWatched
  <2>2. old[1] \in Package /\ old[1] \in DOMAIN inc.terms /\ old[1] # pkg
    BY <1>1, <1>3 DEF Watching
  <2> HIDE DEF old
  <2> QED BY <2>1, <2>2, SetWatchesPair DEF Moved
<1> QED BY <1>2, <1>3

\* register_incompatibility sets the watches of the new incompatibility;
\* forgetting a learned one changes no pair.
LEMMA RegisterWatchesPair ==
    ASSUME NEW n \in Nat, NEW wi, WellIndexed(wi, n),
           NEW pair \in Package \X Package, NEW isDerived \in BOOLEAN
    PROVE  LET new == RegisterWatches(wi, n + 1, pair, isDerived)
           IN  /\ Watching(new, n + 1) = {pair[1], pair[2]}
               /\ \A j \in 1..n : Watching(new, j) = Watching(wi, j)
<1> DEFINE new == RegisterWatches(wi, n + 1, pair, isDerived)
           more == [wi EXCEPT !.lists = WatchPair(@, pair, n + 1),
                              !.watched = Append(@, pair)]
           noted == [more EXCEPT !.learned = Append(@, n + 1)]
<1>1. wi.watched \in Seq(Package \X Package) /\ Len(wi.watched) = n
  BY DEF WellIndexed
<1>2. more.watched = Append(wi.watched, pair) /\ noted.watched = more.watched
  BY DEF WellIndexed
<1>3. new.watched = more.watched
  <2>1. \A x : x = noted => GcLearnedWatches(x).watched = x.watched
    BY DEF GcLearnedWatches, WellIndexed
  <2> QED BY <1>2, <2>1 DEF RegisterWatches
<1> HIDE DEF new, more, noted
<1>4. /\ new.watched[n + 1] = pair
      /\ \A j \in 1..n : new.watched[j] = wi.watched[j]
  BY <1>1, <1>2, <1>3, AppendProperties
<1> QED BY <1>4 DEF new, Watching

\* The initial watches are on packages of the incompatibility.
LEMMA InitialWatchesWithin ==
    ASSUME NEW inc, NEW order \in Seq(Package),
           DOMAIN inc.terms # {}, DOMAIN inc.terms \subseteq ToSet(order)
    PROVE  LET pair == InitialWatches(inc, order)
           IN  {pair[1], pair[2]} \subseteq DOMAIN inc.terms
<1> DEFINE open == Unsatisfied(inc)
           first == Lowest(order, IF open = {} THEN DOMAIN inc.terms ELSE open)
           others == IF open \ {first} = {} THEN DOMAIN inc.terms \ {first}
                     ELSE open \ {first}
<1>1. open \subseteq DOMAIN inc.terms
  BY DEF Unsatisfied
<1> HIDE DEF open
<1>2. first \in DOMAIN inc.terms
  BY <1>1, LowestType
<1> HIDE DEF first
<1>3. others \subseteq DOMAIN inc.terms
  BY <1>1
<1> HIDE DEF others
<1>4. CASE open = {} \/ others = {}
  BY <1>2, <1>4 DEF InitialWatches, open, first, others
<1>5. CASE ~(open = {} \/ others = {})
  <2>1. Lowest(order, others) \in others
    BY <1>3, <1>5, LowestType
  <2> QED BY <1>2, <1>3, <1>5, <2>1 DEF InitialWatches, open, first, others
<1> QED BY <1>4, <1>5

\* register_incompatibility leaves what is filed alone and watches the new
\* incompatibility at the packages that pick_initial_watches picks.
LEMMA RegistrationMoves ==
    ASSUME Inv, WatchedWithin, Inv', NEW inc, Register(inc, known')
    PROVE  /\ WatchedWithin'
           /\ Len(store) + 1 \in Ids' /\ Ids' = Ids \cup {Len(store) + 1}
           /\ store'[Len(store) + 1] = inc
           /\ LET pair == InitialWatches(inc, known')
              IN  Watching(watch', Len(store) + 1) = {pair[1], pair[2]}
           /\ \A id \in Ids : /\ store'[id] = store[id]
                              /\ Watching(watch', id) = Watching(watch, id)
<1> DEFINE n == Len(store)
           isDerived == inc.kind = "derived"
           pair == InitialWatches(inc, known')
<1>1. n \in Nat /\ n + 1 \notin Ids /\ WellIndexed(watch, n)
  BY LenProperties DEF Inv, StoreInv, Ids
<1>2. /\ store' = Append(store, inc)
      /\ watch' = RegisterWatches(watch, n + 1, pair, isDerived)
  BY DEF Register
<1> HIDE DEF isDerived, pair
<1>3. /\ Len(store') = n + 1 /\ store'[n + 1] = inc
      /\ \A id \in Ids : store'[id] = store[id]
  <2> DEFINE S == Incompatibility \cup {inc}
  <2>1. store \in Seq(S) /\ inc \in S
    BY DEF Inv, StoreInv
  <2> HIDE DEF S
  <2> QED BY <1>2, <2>1, AppendProperties DEF Ids
<1>4. Ids' = Ids \cup {n + 1}
  BY <1>1, <1>3 DEF Ids
<1> HIDE DEF n
<1>5. known' \in Seq(Package) /\ DOMAIN inc.terms # {}
      /\ DOMAIN inc.terms \subseteq ToSet(known')
  <2>1. known' \in Seq(Package)
    BY DEF Inv, StoreInv
  <2>2. \A id \in Ids' : /\ DOMAIN store'[id].terms # {}
                         /\ DOMAIN store'[id].terms \subseteq ToSet(known')
    BY DEF Inv, StoreInv
  <2> QED BY <1>3, <1>4, <2>1, <2>2
<1>6. pair \in Package \X Package
  BY <1>5, InitialWatchesType DEF pair
<1>7. {pair[1], pair[2]} \subseteq DOMAIN inc.terms
  BY <1>5, InitialWatchesWithin DEF pair
<1>8. isDerived \in BOOLEAN
  BY DEF isDerived
<1>9. /\ Watching(watch', n + 1) = {pair[1], pair[2]}
      /\ \A j \in 1..n : Watching(watch', j) = Watching(watch, j)
  BY <1>1, <1>2, <1>6, <1>8, RegisterWatchesPair
<1>10. 1..n = Ids
  BY DEF Ids, n
<1>11. \A id \in Ids' : Watching(watch', id) \subseteq DOMAIN store'[id].terms
  BY <1>3, <1>4, <1>7, <1>9, <1>10 DEF WatchedWithin
<1> QED BY <1>3, <1>4, <1>9, <1>10, <1>11 DEF WatchedWithin, n, pair

\* What a step does to what is in the store already.
MovesWatches ==
    \A id \in Ids : /\ store'[id] = store[id]
                    /\ Moved(Watching(watch, id), Watching(watch', id), store[id])

\* Where the store stays, watches that move stay within the incompatibility.
LEMMA WithinKept ==
    ASSUME WatchedWithin, MovesWatches, store' = store
    PROVE  WatchedWithin'
<1>1. Ids' = Ids
  BY DEF Ids
<1>2. ASSUME NEW id \in Ids
      PROVE  Watching(watch', id) \subseteq DOMAIN store[id].terms
  BY DEF WatchedWithin, MovesWatches, Moved
<1>3. \A id \in Ids' : Watching(watch', id) \subseteq DOMAIN store'[id].terms
  BY <1>1, <1>2
<1> QED BY <1>3 DEF WatchedWithin

\* A derivation, in unit propagation or by a backjump, has its cause watch the
\* package.
LEMMA EnsureMoves ==
    ASSUME Inv, WatchedWithin, NEW id \in Ids, NEW pkg \in DOMAIN store[id].terms,
           watch' = EnsureWatched(watch, id, pkg), store' = store
    PROVE  MovesWatches
<1>1. pkg \in Package
  BY HistoryTypes
<1>2. Len(store) \in Nat /\ WellIndexed(watch, Len(store)) /\ id \in 1..Len(store)
  BY LenProperties DEF Inv, StoreInv, Ids
<1>3. Watching(watch, id) \subseteq DOMAIN store[id].terms
  BY DEF WatchedWithin
<1> DEFINE inc == store[id]
<1> HIDE DEF inc
<1>4. /\ Moved(Watching(watch, id), Watching(watch', id), inc)
      /\ \A j \in 1..Len(store) : j # id => Watching(watch', j) = Watching(watch, j)
  BY <1>1, <1>2, <1>3, EnsureWatchedMoves DEF inc
<1> QED BY <1>4 DEF MovesWatches, inc, Ids, Moved

\* refresh_watches gives both watches to packages that are not satisfied.
LEMMA LeaveDormantMoves ==
    ASSUME Inv, LeaveDormant
    PROVE  MovesWatches
<1> DEFINE id == Head(watchers)
           open == Unsatisfied(store[id])
           first == Lowest(known, open)
           second == Lowest(known, open \ {first})
<1>1. id \in Ids
  BY ExaminedType DEF LeaveDormant, Inv
<1>2. /\ open \subseteq ToSet(known) /\ known \in Seq(Package)
      /\ open \subseteq DOMAIN store[id].terms
  BY <1>1 DEF Unsatisfied, Inv, StoreInv
<1>3. Len(store) \in Nat /\ WellIndexed(watch, Len(store)) /\ id \in 1..Len(store)
  BY <1>1, LenProperties DEF Inv, StoreInv, Ids
<1>4. store' = store
  BY DEF LeaveDormant
<1>5. CASE StillWatched /\ open # {} /\ open \ {first} # {}
  <2>1. watch' = SetWatches(watch, id, first, second)
    BY <1>5 DEF LeaveDormant, RefreshWatches
  <2> HIDE DEF id, open
  <2>2. first \in Package /\ first \in open
    BY <1>2, <1>5, LowestType
  <2> HIDE DEF first
  <2>3. second \in Package /\ second \in open \ {first}
    BY <1>2, <1>5, LowestType
  <2> HIDE DEF second
  <2>4. /\ Watching(watch', id) = {first, second}
        /\ \A j \in 1..Len(store) : j # id => Watching(watch', j) = Watching(watch, j)
    BY <1>3, <2>1, <2>2, <2>3, SetWatchesPair
  <2>5. Moved(Watching(watch, id), Watching(watch', id), store[id])
    BY <1>2, <2>2, <2>3, <2>4 DEF Moved
  <2> QED BY <1>4, <2>4, <2>5 DEF MovesWatches, Ids, Moved
<1>6. CASE ~(StillWatched /\ open # {} /\ open \ {first} # {})
  <2>1. watch' = watch
    BY <1>6 DEF LeaveDormant, RefreshWatches
  <2> QED BY <1>4, <2>1 DEF MovesWatches, Moved
<1> QED BY <1>5, <1>6

\* Every step.
LEMMA NextMoves ==
    ASSUME Inv, HistoryInv, WatchedWithin, [Next]_vars
    PROVE  WatchedWithin' /\ MovesWatches
<1>1. CASE \/ UNCHANGED <<store, watch>>
  BY <1>1, WithinKept DEF MovesWatches, Moved
<1>2. ASSUME NEW inc, Register(inc, known')
      PROVE  WatchedWithin' /\ MovesWatches
  BY <1>2, NextInv, RegistrationMoves DEF MovesWatches, Moved
<1>3. CASE RegisterDependency \/ RegisterNoVersions \/ ResolveWithCause
  <2>1. UNCHANGED <<store, watch>> \/ \E inc : Register(inc, known')
    BY <1>3 DEF RegisterDependency, RegisterNoVersions, ResolveWithCause
  <2> QED BY <1>1, <1>2, <2>1
<1>4. CASE DeriveUnit
  <2>1. Head(watchers) \in Ids /\ store' = store
    BY <1>4, ExaminedType DEF DeriveUnit, Inv
  <2>2. PICK pkg \in DOMAIN store[Head(watchers)].terms :
           watch' = EnsureWatched(watch, Head(watchers), pkg)
    BY <1>4 DEF DeriveUnit
  <2> QED BY <2>1, <2>2, EnsureMoves, WithinKept
<1>5. CASE LeaveDormant
  <2>1. store' = store
    BY <1>5 DEF LeaveDormant
  <2> QED BY <1>5, <2>1, LeaveDormantMoves, WithinKept
<1>6. CASE Backjump
  <2>1. /\ store' = store
        /\ watch' = EnsureWatched(watch, conflict, Satisfier.package)
    BY <1>6 DEF Backjump
  <2>2. /\ conflict \in Ids
        /\ Satisfier.package \in DOMAIN store[conflict].terms
    BY <1>6, BackjumpStep, HistoryTypes
  <2> QED BY <2>1, <2>2, EnsureMoves, WithinKept
<1>7. CASE \/ FinishRegistration \/ PopPackage \/ FindConflict
           \/ ReportNoSolution \/ ReturnSolution \/ ChooseVersion
           \/ ChooseVersionAgain \/ UNCHANGED vars
  <2>1. UNCHANGED <<store, watch>>
    BY <1>7 DEF FinishRegistration, PopPackage, FindConflict, ReportNoSolution,
           ReturnSolution, ChooseVersion, ChooseVersionAgain, searchVars, vars
  <2> QED BY <1>1, <2>1
<1> QED BY <1>3, <1>4, <1>5, <1>6, <1>7 DEF Next, Stopped

-----------------------------------------------------------------------------
(* What is filed.                                                          *)

\* The requirements of an index are dependencies.
LEMMA RequirementType ==
    ASSUME ControlInv, NEW q \in Package, NEW v \in Version,
           NEW d \in ToSet(Requirements(index, q, v))
    PROVE  d \in Dependency
<1>1. Requirements(index, q, v) \in Seq(Dependency)
  BY DEF ControlInv, PackageIndex, Requirements
<1>2. PICK i \in DOMAIN Requirements(index, q, v) :
         d = Requirements(index, q, v)[i]
  BY DEF ToSet
<1> QED BY <1>1, <1>2, LenProperties, ElementOfSeq

\* A watch that leaves the package of c takes two packages of an
\* incompatibility that has no more than two: one of them is the package of c.
LEMMA FiledStays ==
    ASSUME MovesWatches, NEW c, NEW d, NEW id \in Ids, Filed(c, d, id)
    PROVE  /\ store'[id] = Clause(c, d)
           /\ c.package \in Watching(watch', id)
<1>1. /\ store'[id] = store[id]
      /\ Moved(Watching(watch, id), Watching(watch', id), store[id])
  BY DEF MovesWatches
<1>2. DOMAIN Clause(c, d).terms = {c.package, d.package}
  BY DEF Clause, FromDependency
<1> QED BY <1>1, <1>2 DEF Filed, Moved

\* pick_initial_watches gives a watch to the package that depends.
LEMMA DependencyFiled ==
    ASSUME Inv, WatchedWithin, RegisterDependency, DependentWatched
    PROVE  \E id \in Ids' : /\ store'[id] = Clause(choice, Pending[nextDep])
                            /\ choice.package \in Watching(watch', id)
<1> DEFINE dep == Pending[nextDep]
           inc == Clause(choice, dep)
           pair == InitialWatches(inc, known')
           open == Unsatisfied(inc)
           first == Lowest(known', IF open = {} THEN DOMAIN inc.terms ELSE open)
           others == IF open \ {first} = {} THEN DOMAIN inc.terms \ {first}
                     ELSE open \ {first}
<1>1. /\ Register(inc, known')
      /\ known' = IF Contains(known, dep.package) THEN known
                  ELSE Append(known, dep.package)
  BY DEF RegisterDependency, Clause
<1>2. Inv'
  BY RegisterDependencyInv
<1>3. DOMAIN inc.terms = {choice.package, dep.package}
  BY DEF Clause, FromDependency
<1>4. open = {} => Lowest(known', DOMAIN inc.terms) = choice.package
  BY <1>1 DEF DependentWatched, RegisterDependency, Clause
<1>5. open \subseteq DOMAIN inc.terms
  BY DEF Unsatisfied
<1>6. pair = IF open = {} \/ others = {} THEN <<first, first>>
             ELSE <<first, Lowest(known', others)>>
  BY DEF InitialWatches
<1> HIDE DEF inc, pair, open
<1>7. /\ Len(store) + 1 \in Ids' /\ store'[Len(store) + 1] = inc
      /\ Watching(watch', Len(store) + 1) = {pair[1], pair[2]}
  BY <1>1, <1>2, RegistrationMoves DEF pair
<1>8. known' \in Seq(Package) /\ DOMAIN inc.terms \subseteq ToSet(known')
  BY <1>2, <1>7 DEF Inv, StoreInv
<1>9. first \in DOMAIN inc.terms
  BY <1>3, <1>5, <1>8, LowestType
<1>10. CASE open = {}
  BY <1>4, <1>6, <1>7, <1>10 DEF inc
<1>11. CASE open # {}
  <2> HIDE DEF first
  <2>1. CASE others = {}
    <3>1. DOMAIN inc.terms = {choice.package}
      BY <1>3, <1>9, <2>1
    <3> QED BY <1>6, <1>7, <1>9, <2>1, <3>1 DEF inc
  <2>2. CASE others # {}
    <3>1. others \subseteq DOMAIN inc.terms \ {first}
      BY <1>5
    <3> HIDE DEF others
    <3>2. Lowest(known', others) \in others
      BY <1>8, <2>2, <3>1, LowestType
    <3>3. {first, Lowest(known', others)} = {choice.package, dep.package}
      BY <1>3, <1>9, <3>1, <3>2
    <3> QED BY <1>6, <1>7, <1>11, <2>2, <3>3 DEF inc
  <2> QED BY <2>1, <2>2
<1> QED BY <1>10, <1>11

\* All that was filed stays filed.
LEMMA FiledKept ==
    ASSUME FiledInv, MovesWatches, Ids \subseteq Ids', index' = index
    PROVE  /\ \A c \in added :
                 \A d \in ToSet(Requirements(index', c.package, c.version)) :
                    \E id \in Ids' : /\ store'[id] = Clause(c, d)
                                     /\ c.package \in Watching(watch', id)
           /\ pc = "register" =>
                 \A i \in DOMAIN Pending : i < nextDep =>
                    \E id \in Ids' :
                       /\ store'[id] = Clause(choice, Pending[i])
                       /\ choice.package \in Watching(watch', id)
<1>1. \A c, d : \A id \in Ids : Filed(c, d, id) =>
         store'[id] = Clause(c, d) /\ c.package \in Watching(watch', id)
  BY FiledStays
<1> QED BY <1>1 DEF FiledInv

\* At the start nothing is registered.
LEMMA InitFiled == Init => FiledInv
<1> SUFFICES ASSUME Init PROVE FiledInv
  OBVIOUS
<1>1. /\ store = <<NotRoot>> /\ Len(store) = 1 /\ added = {} /\ nextDep = 1
      /\ watch = RegisterWatches(EmptyIndex, 1, <<Root, Root>>, FALSE)
  BY DEF Init
<1>2. Ids = {1} /\ DOMAIN store[1].terms = {Root}
  BY <1>1 DEF Ids, NotRoot
<1> DEFINE pair == <<Root, Root>>
<1>3. watch.watched = Append(<<>>, pair)
  BY <1>1 DEF RegisterWatches, EmptyIndex
<1>4. pair[1] = Root /\ pair[2] = Root
  OBVIOUS
<1> HIDE DEF pair
<1>5. WatchedWithin
  <2>1. watch.watched[1] = pair
    BY <1>3
  <2> QED BY <1>2, <1>4, <2>1 DEF WatchedWithin, Watching
<1>6. \A i \in DOMAIN Pending : ~(i < nextDep)
  <2>1. Pending \in Seq(Dependency)
    BY InitInv DEF Inv, ControlInv, PackageIndex, Pending, Requirements
  <2>2. DOMAIN Pending = 1..Len(Pending)
    BY <2>1, LenProperties
  <2> QED BY <1>1, <2>2
<1> QED BY <1>1, <1>5, <1>6 DEF FiledInv

\* Every step keeps filed what is filed, and a registration files the next.
LEMMA NextFiled ==
    Inv /\ HistoryInv /\ FiledInv /\ DependentWatched /\ [Next]_vars => FiledInv'
<1> SUFFICES ASSUME Inv, HistoryInv, FiledInv, DependentWatched, [Next]_vars
             PROVE  FiledInv'
  OBVIOUS
<1>1. WatchedWithin /\ WatchedWithin' /\ MovesWatches
  BY NextMoves DEF FiledInv
<1>2. index' = index
  BY DEF Next, RegisterDependency, FinishRegistration, PopPackage,
         FindConflict, DeriveUnit, LeaveDormant, ReportNoSolution,
         ResolveWithCause, Backjump, ReturnSolution, RegisterNoVersions,
         ChooseVersion, ChooseVersionAgain, Stopped, vars
<1>3. Ids \subseteq Ids'
  <2>1. UNCHANGED store \/ \E inc : Register(inc, known')
    BY DEF Next, RegisterDependency, FinishRegistration, PopPackage,
           FindConflict, DeriveUnit, LeaveDormant, ReportNoSolution,
           ResolveWithCause, Backjump, ReturnSolution, RegisterNoVersions,
           ChooseVersion, ChooseVersionAgain, Stopped, vars, searchVars
  <2>2. ASSUME NEW inc, Register(inc, known')
        PROVE  Ids \subseteq Ids'
    BY <1>1, <2>2, NextInv, RegistrationMoves
  <2> QED BY <2>1, <2>2 DEF Ids
<1>4. /\ \A c \in added :
            \A d \in ToSet(Requirements(index', c.package, c.version)) :
               \E id \in Ids' : /\ store'[id] = Clause(c, d)
                                /\ c.package \in Watching(watch', id)
      /\ pc = "register" =>
            \A i \in DOMAIN Pending : i < nextDep =>
               \E id \in Ids' :
                  /\ store'[id] = Clause(choice, Pending[i])
                  /\ choice.package \in Watching(watch', id)
  BY <1>1, <1>2, <1>3, FiledKept
<1>5. choice' = choice => Pending' = Pending
  BY <1>2 DEF Pending
<1>6. Pending \in Seq(Dependency) /\ DOMAIN Pending = 1..Len(Pending)
      /\ nextDep \in Nat \ {0} /\ Len(Pending) \in Nat
  <2>1. Pending \in Seq(Dependency)
    BY DEF Inv, ControlInv, PackageIndex, Pending, Requirements
  <2> QED BY <2>1, LenProperties DEF Inv, ControlInv
<1>7. CASE RegisterDependency
  <2>1. /\ added' = added /\ choice' = choice /\ nextDep' = nextDep + 1
        /\ pc = "register" /\ Pending' = Pending
    BY <1>5, <1>7 DEF RegisterDependency
  <2>2. \E id \in Ids' : /\ store'[id] = Clause(choice, Pending[nextDep])
                         /\ choice.package \in Watching(watch', id)
    BY <1>1, <1>7, DependencyFiled
  <2>3. ASSUME NEW i \in DOMAIN Pending, i < nextDep + 1
        PROVE  \E id \in Ids' : /\ store'[id] = Clause(choice, Pending[i])
                                /\ choice.package \in Watching(watch', id)
    BY <1>4, <1>6, <2>1, <2>2, <2>3
  <2> QED BY <1>1, <1>4, <2>1, <2>3 DEF FiledInv, Filed
<1>8. CASE FinishRegistration
  <2>1. /\ pc = "register" /\ pc' # "register" /\ nextDep \notin DOMAIN Pending
        /\ added' = added \cup {choice}
    BY <1>8 DEF FinishRegistration
  <2>2. ASSUME NEW d \in ToSet(Requirements(index', choice.package, choice.version))
        PROVE  \E id \in Ids' : /\ store'[id] = Clause(choice, d)
                                /\ choice.package \in Watching(watch', id)
    <3>1. PICK i \in DOMAIN Pending : d = Pending[i]
      BY <1>2 DEF ToSet, Pending
    <3>2. i < nextDep
      BY <1>6, <2>1
    <3> QED BY <1>4, <2>1, <3>1, <3>2
  <2> QED BY <1>1, <1>4, <2>1, <2>2 DEF FiledInv, Filed
<1>9. CASE ChooseVersion
  <2>1. added' = added /\ nextDep' = 1
    BY <1>9 DEF ChooseVersion
  <2>2. \A i \in DOMAIN Pending' : ~(i < nextDep')
    <3>1. /\ index' \in PackageIndex
          /\ choice'.package \in Package /\ choice'.version \in Version
      BY NextInv DEF Inv, ControlInv
    <3>2. Pending' \in Seq(Dependency)
      BY <3>1 DEF PackageIndex, Pending, Requirements
    <3>3. DOMAIN Pending' = 1..Len(Pending')
      BY <3>2, LenProperties
    <3> QED BY <2>1, <3>3
  <2> QED BY <1>1, <1>4, <2>1, <2>2 DEF FiledInv, Filed
<1>10. CASE UNCHANGED vars
  <2>1. UNCHANGED <<added, choice, nextDep, pc>> /\ Pending' = Pending
    BY <1>5, <1>10 DEF vars, driverVars
  <2> QED BY <1>1, <1>4, <2>1 DEF FiledInv, Filed
<1>11. CASE \/ PopPackage \/ FindConflict \/ DeriveUnit \/ LeaveDormant
            \/ ReportNoSolution \/ ResolveWithCause \/ Backjump
            \/ ReturnSolution \/ RegisterNoVersions \/ ChooseVersionAgain
  <2>1. added' = added /\ pc' # "register"
    BY <1>11 DEF PopPackage, FindConflict, DeriveUnit, LeaveDormant,
           ReportNoSolution, ResolveWithCause, Backjump, ReturnSolution,
           RegisterNoVersions, ChooseVersionAgain, driverVars, Examining,
           Quiescent
  <2> QED BY <1>1, <1>4, <2>1 DEF FiledInv, Filed
<1> QED BY <1>7, <1>8, <1>9, <1>10, <1>11 DEF Next, Stopped

-----------------------------------------------------------------------------
(* What is required.                                                       *)

\* Where a sequence grows and shrinks at its end.
LEMMA AppendMembers ==
    ASSUME NEW S, NEW s \in Seq(S), NEW x \in S
    PROVE  Range(Append(s, x)) = Range(s) \cup {x}
<1>1. /\ DOMAIN Append(s, x) = 1..(Len(s) + 1) /\ Len(s) \in Nat
      /\ \A i \in 1..Len(s) : Append(s, x)[i] = s[i]
      /\ Append(s, x)[Len(s) + 1] = x /\ DOMAIN s = 1..Len(s)
  BY AppendProperties, LenProperties
<1>2. \A i \in 1..(Len(s) + 1) : i \in 1..Len(s) \/ i = Len(s) + 1
  BY <1>1
<1>3. \A i \in 1..Len(s) : i \in 1..(Len(s) + 1) /\ s[i] \in Range(s)
  BY <1>1 DEF Range
<1>4. Len(s) + 1 \in 1..(Len(s) + 1)
  BY <1>1
<1> QED BY <1>1, <1>2, <1>3, <1>4 DEF Range

\* A sequence has its last member and those before it.
LEMMA FrontLastMembers ==
    ASSUME NEW S, NEW s \in Seq(S), s # <<>>, NEW x \in Range(s)
    PROVE  x \in Range(Front(s)) \/ x = Last(s)
<1>1. /\ DOMAIN s = 1..Len(s) /\ Len(s) \in Nat \ {0}
      /\ Last(s) = s[Len(s)] /\ Front(s) = SubSeq(s, 1, Len(s) - 1)
  BY LenProperties, EmptySeq DEF Last, Front
<1>2. Len(s) \in Nat /\ Len(s) # 0
  BY <1>1
<1>3. PICK i \in 1..Len(s) : x = s[i]
  BY <1>1 DEF Range
<1>4. CASE i = Len(s)
  BY <1>1, <1>3, <1>4
<1>5. CASE i # Len(s)
  <2>1. /\ i \in 1..(Len(s) - 1) /\ Len(s) - 1 \in Nat
        /\ Len(s) - 1 <= Len(s)
    <3> DEFINE n == Len(s)
    <3>1. n \in Nat /\ n # 0 /\ i \in 1..n /\ i # n
      BY <1>2, <1>3, <1>5
    <3> HIDE DEF n
    <3>2. i \in 1..(n - 1) /\ n - 1 \in Nat /\ n - 1 <= n
      BY ONLY <3>1
    <3> QED BY <3>2 DEF n
  <2>2. /\ SubSeq(s, 1, Len(s) - 1) \in Seq(S)
        /\ Len(SubSeq(s, 1, Len(s) - 1)) = Len(s) - 1
        /\ SubSeq(s, 1, Len(s) - 1)[i] = s[i]
    <3> DEFINE m == Len(s) - 1
    <3>1. m \in Nat /\ m <= Len(s) /\ i \in 1..m
      BY <2>1
    <3> HIDE DEF m
    <3>2. /\ SubSeq(s, 1, m) \in Seq(S) /\ Len(SubSeq(s, 1, m)) = m
          /\ SubSeq(s, 1, m)[i] = s[i]
      BY <3>1, PrefixType
    <3> QED BY <3>2 DEF m
  <2>3. DOMAIN Front(s) = 1..(Len(s) - 1) /\ Front(s)[i] = x
    BY <1>1, <1>3, <2>2, LenProperties
  <2> QED BY <2>1, <2>3 DEF Range
<1> QED BY <1>4, <1>5

\* The step of a decision says what the package is.
LEMMA DecidedStep ==
    ASSUME Inv, NEW e \in StepsIn(ps), NEW v \in Version, Decides(e, v)
    PROVE  /\ e.package \in DOMAIN ps.assigned /\ e.package \in Package
           /\ Decided(ps.assigned[e.package])
           /\ TermFor(ps, e.package) = Positive({v})
<1>1. /\ WellDated(ps, Causes) /\ Causes \in SUBSET (Nat \ {0})
  BY HistoryTypes
<1>2. /\ Decided(ps.assigned[e.package])
      /\ e = Chosen(e.package, ps.assigned[e.package].decision)
  BY <1>1, StepDecided DEF Decides
<1>3. /\ e.package \in DOMAIN ps.assigned /\ e.package \in Package
  BY <1>1, StepsType
<1>4. e.term = Positive({ps.assigned[e.package].decision.version})
  BY <1>2 DEF Chosen
<1> QED BY <1>2, <1>3, <1>4 DEF Decides, TermFor, IsAssigned

\* The incompatibility of a requirement of a decided version: it can only be
\* unit in the package that is required, which is not decided then; and when
\* it is neither unit nor violated, the requirement has been derived.
LEMMA ClauseExamined ==
    ASSUME Inv, NEW e \in StepsIn(ps), NEW v \in Version, Decides(e, v),
           NEW d \in ToSet(Requirements(index, e.package, v)),
           NEW id \in Ids, store[id] = Clause(At(e, v), d)
    PROVE  /\ d \in Dependency
           /\ Unsatisfied(store[id]) \subseteq {d.package}
           /\ \A pkg \in DOMAIN store[id].terms : AlmostSatisfied(store[id], pkg) =>
                 /\ pkg = d.package
                 /\ ~(IsAssigned(ps, pkg) /\ Decided(ps.assigned[pkg]))
                 /\ Negate(store[id].terms[pkg]) = Positive(d.range)
           /\ Unsatisfied(store[id]) # {}
              /\ (\A pkg \in DOMAIN store[id].terms : ~AlmostSatisfied(store[id], pkg))
              => SubsetOf(TermFor(ps, d.package), Positive(d.range))
<1> DEFINE inc == store[id]
           q == d.package
<1>1. /\ TermFor(ps, e.package) = Positive({v}) /\ e.package \in Package
      /\ e.package \in DOMAIN ps.assigned /\ Decided(ps.assigned[e.package])
  BY DecidedStep
<1>2. d \in Dependency
  BY <1>1, RequirementType DEF Inv
<1>3. /\ DOMAIN inc.terms = {e.package, q}
      /\ inc.terms[q] = Negative(d.range)
      /\ e.package # q => inc.terms[e.package] = Positive({v})
  BY DEF Clause, FromDependency, At
<1>4. e.package # q => RelationOf(inc, e.package) = "satisfied"
  BY <1>1, <1>3 DEF RelationOf, RelationWith, SubsetOf, Positive
<1>5. RelationOf(inc, q) = RelationWith(TermFor(ps, q), Negative(d.range))
  BY <1>3 DEF RelationOf
<1> HIDE DEF inc
<1>6. Unsatisfied(inc) \subseteq {q}
  BY <1>3, <1>4 DEF Unsatisfied
<1>7. ASSUME NEW pkg \in DOMAIN inc.terms, AlmostSatisfied(inc, pkg)
      PROVE  /\ pkg = q /\ ~(IsAssigned(ps, pkg) /\ Decided(ps.assigned[pkg]))
             /\ Negate(inc.terms[pkg]) = Positive(d.range)
  <2>1. pkg = q /\ RelationWith(TermFor(ps, q), Negative(d.range)) = "inconclusive"
    BY <1>5, <1>6, <1>7 DEF AlmostSatisfied
  <2>2. ASSUME NEW w
        PROVE  RelationWith(Positive({w}), Negative(d.range)) # "inconclusive"
    BY DEF RelationWith, SubsetOf, IsDisjoint, Positive, Negative
  <2>3. ~(IsAssigned(ps, q) /\ Decided(ps.assigned[q]))
    BY <2>1, <2>2 DEF TermFor
  <2>4. Negate(Negative(d.range)) = Positive(d.range)
    BY DEF Negate, Positive, Negative
  <2> QED BY <1>3, <2>1, <2>3, <2>4
<1>8. ASSUME Unsatisfied(inc) # {},
             \A pkg \in DOMAIN inc.terms : ~AlmostSatisfied(inc, pkg)
      PROVE  SubsetOf(TermFor(ps, q), Positive(d.range))
  <2>1. Unsatisfied(inc) = {q}
    BY <1>6, <1>8
  <2>2. RelationWith(TermFor(ps, q), Negative(d.range)) = "contradicted"
    <3>1. RelationOf(inc, q) # "inconclusive" /\ RelationOf(inc, q) # "satisfied"
      BY <1>3, <1>8, <2>1 DEF AlmostSatisfied, Unsatisfied
    <3> QED BY <1>5, <3>1 DEF RelationWith
  <2> QED BY <2>2 DEF RelationWith, SubsetOf, IsDisjoint, Positive, Negative
<1> QED BY <1>2, <1>6, <1>7, <1>8 DEF inc

\* A requirement that is derived now was derived at the current level or below.
LEMMA MetNow ==
    ASSUME Inv, HistoryInv, NEW d \in Dependency,
           SubsetOf(TermFor(ps, d.package), Positive(d.range))
    PROVE  Met(StepsIn(ps), d, ps.level)
<1>1. /\ WellDated(ps, Causes) /\ Causes \in SUBSET (Nat \ {0}) /\ History(ps)
      /\ Positive(d.range) \in Term
  BY HistoryTypes DEF HistoryInv, Dependency, Positive, Term
<1>2. ~IsAnyTerm(Positive(d.range))
  BY DEF IsAnyTerm, Positive
<1>3. PICK f \in StepsIn(ps) :
         f.package = d.package /\ SubsetOf(f.term, Positive(d.range))
  BY <1>1, <1>2, HoldsByStep
<1>4. f.dl <= ps.level
  BY <1>1 DEF History, Chronological
<1> QED BY <1>3, <1>4 DEF Met

\* The propagation of a package is over, or has not begun, for all requirements.
NothingDue == \A c, d : ~Due(c, d)

\* Steps that leave the trail alone.
LEMMA RequiredKept ==
    ASSUME RequiredInv, UNCHANGED <<index, ps>>, added \subseteq added',
           pc = "register" /\ choice.package = Root =>
               \/ choice \in added'
               \/ pc' = "register" /\ choice' = choice,
           \A e \in StepsIn(ps), v \in Version :
              Decides(e, v) /\ e.dl = ps.level =>
                 \A d \in ToSet(Requirements(index, e.package, v)) :
                    Due(At(e, v), d) =>
                       Met(StepsIn(ps), d, e.dl) \/ Due(At(e, v), d)'
    PROVE  RequiredInv'
<1> SUFFICES ASSUME NEW e \in StepsIn(ps), NEW v \in Version, Decides(e, v)
             PROVE  /\ \/ At(e, v) \in added'
                       \/ /\ pc' = "register" /\ choice' = At(e, v)
                          /\ e.package = Root
                    /\ \A d \in ToSet(Requirements(index, e.package, v)) :
                          \/ Met(StepsIn(ps), d, e.dl)
                          \/ e.dl = ps.level /\ Due(At(e, v), d)'
  BY DEF RequiredInv
<1>1. /\ \/ At(e, v) \in added
         \/ pc = "register" /\ choice = At(e, v) /\ e.package = Root
      /\ \A d \in ToSet(Requirements(index, e.package, v)) :
            \/ Met(StepsIn(ps), d, e.dl)
            \/ e.dl = ps.level /\ Due(At(e, v), d)
  BY DEF RequiredInv
<1>2. At(e, v).package = e.package
  BY DEF At
<1> QED BY <1>1, <1>2

\* A decision for an undecided package adds its step.
LEMMA DecidedAt ==
    ASSUME Inv, HistoryInv, NEW pkg \in Undecided(ps), NEW version \in Version,
           version \in RangeOf(pkg), ps' = AddDecision(ps, pkg, version)
    PROVE  StepsIn(ps') = StepsIn(ps) \cup
              {Chosen(pkg, [dl |-> ps.level + 1, version |-> version,
                            gi |-> ps.next])}
<1>1. /\ pkg \in Package /\ pkg \in DOMAIN ps.assigned
      /\ ~Decided(ps.assigned[pkg])
      /\ SubsetOf(Positive({version}), TermFor(ps, pkg))
  <2>1. pkg \in Package
    BY UndecidedType DEF Inv
  <2> QED BY <2>1
          DEF Undecided, RangeOf, TermFor, IsAssigned, SubsetOf, Positive
<1> QED BY <1>1, HistoryTypes, DecideSteps DEF HistoryInv

\* A decision at a moment when nothing is due.
LEMMA RequiredDecide ==
    ASSUME Inv, HistoryInv, RequiredInv, NothingDue,
           pc = "register" => choice.package # Root,
           NEW pkg \in Undecided(ps), NEW version \in Version,
           version \in RangeOf(pkg), ps' = AddDecision(ps, pkg, version),
           index' = index, added \subseteq added',
           [package |-> pkg, version |-> version] \in added',
           pc' = "propagate", pkg \in Range(buffer')
    PROVE  RequiredInv'
<1>1. PICK new : new = Chosen(pkg, [dl |-> ps.level + 1, version |-> version,
                                    gi |-> ps.next])
  OBVIOUS
<1>2. /\ StepsIn(ps') = StepsIn(ps) \cup {new}
      /\ new.package = pkg /\ new.dl = ps.level + 1
      /\ new.term = Positive({version})
  <2>1. StepsIn(ps') = StepsIn(ps) \cup
          {Chosen(pkg, [dl |-> ps.level + 1, version |-> version,
                        gi |-> ps.next])}
    BY DecidedAt
  <2> QED BY <1>1, <2>1 DEF Chosen
<1>3. ps'.level = ps.level + 1
  BY DEF AddDecision
<1>4. ASSUME NEW e \in StepsIn(ps), NEW v \in Version, Decides(e, v)
      PROVE  /\ At(e, v) \in added'
             /\ \A d \in ToSet(Requirements(index, e.package, v)) :
                   Met(StepsIn(ps'), d, e.dl)
  <2>1. At(e, v) \in added
    BY <1>4 DEF RequiredInv, At
  <2>2. \A d \in ToSet(Requirements(index, e.package, v)) :
           Met(StepsIn(ps), d, e.dl)
    BY <1>4 DEF RequiredInv, NothingDue
  <2> QED BY <1>2, <2>1, <2>2 DEF Met
<1>5. ASSUME NEW v \in Version, Decides(new, v)
      PROVE  /\ At(new, v) \in added' /\ new.dl = ps'.level
             /\ \A d : Due(At(new, v), d)'
  <2>1. v = version
    <3>1. Positive({version}).set = Positive({v}).set
      BY <1>2, <1>5 DEF Decides
    <3> QED BY <3>1 DEF Positive
  <2>2. At(new, v) = [package |-> pkg, version |-> version]
    BY <1>2, <2>1 DEF At
  <2> QED BY <1>2, <1>3, <2>2 DEF Due
<1>6. ASSUME NEW e \in StepsIn(ps'), NEW v \in Version, Decides(e, v)
      PROVE  /\ At(e, v) \in added'
             /\ \A d \in ToSet(Requirements(index', e.package, v)) :
                   \/ Met(StepsIn(ps'), d, e.dl)
                   \/ e.dl = ps'.level /\ Due(At(e, v), d)'
  <2>1. CASE e \in StepsIn(ps)
    BY <1>4, <1>6, <2>1
  <2>2. CASE e = new
    BY <1>5, <1>6, <2>2
  <2> QED BY <1>2, <1>6, <2>1, <2>2
<1> QED BY <1>6 DEF RequiredInv

\* A package comes off the buffer, and with it what watches it.
LEMMA PopPackageRequired ==
    ASSUME Inv, HistoryInv, WatchInv, FiledInv, RequiredInv, PopPackage
    PROVE  RequiredInv'
<1>1. /\ pc = "propagate" /\ pc' = "propagate" /\ watchers = <<>>
      /\ buffer \in Seq(Package) /\ buffer # <<>>
      /\ current' = Last(buffer) /\ buffer' = Front(buffer)
      /\ watchers' = watch.lists[Last(buffer)]
      /\ UNCHANGED <<index, ps, added, store, watch>>
  BY DEF PopPackage, searchVars, driverVars, Inv, ControlInv
<1>2. ASSUME NEW e \in StepsIn(ps), NEW v \in Version, Decides(e, v),
             NEW d \in ToSet(Requirements(index, e.package, v)),
             Due(At(e, v), d)
      PROVE  Due(At(e, v), d)'
  <2> DEFINE c == At(e, v)
  <2>1. c \in added /\ c.package = e.package /\ c.version = v
    BY <1>1, <1>2 DEF RequiredInv, At
  <2> HIDE DEF c
  <2>2. c.package \in Range(buffer)
    BY <1>1, <1>2, NoWatchers DEF Due, Ended, c
  <2>3. CASE c.package \in Range(Front(buffer))
    BY <1>1, <2>3 DEF Due, c
  <2>4. CASE c.package = Last(buffer)
    <3>1. PICK id \in Ids : Filed(c, d, id)
      BY <2>1 DEF FiledInv
    <3>2. store[id].kind = "dependency" /\ id \notin LearnedIds
      BY <3>1 DEF Filed, Clause, FromDependency, LearnedIds
    <3>3. id \in DOMAIN watch.watched
      BY LenProperties DEF Inv, StoreInv, WellIndexed, Ids
    <3>4. id \in Range(watch.lists[c.package])
      BY <3>1, <3>2, <3>3 DEF WatchInv, Agreeing, Filed
    <3>5. store' = store /\ watch' = watch /\ Ids' = Ids
      BY <1>1 DEF Ids
    <3>6. id \in Range(watchers') /\ store'[id] = Clause(c, d)
          /\ c.package \in Watching(watch', id)
      BY <1>1, <2>4, <3>1, <3>4, <3>5 DEF Filed
    <3> QED BY <1>1, <2>4, <3>6 DEF Due, Filed, c
  <2> QED BY <1>1, <2>2, <2>3, <2>4, FrontLastMembers
<1> QED BY <1>1, <1>2, RequiredKept

\* What is due behind the incompatibility that is examined stays due.
LEMMA DueBehind ==
    ASSUME Inv, WatchInv, MovesWatches, Examining, store' = store, pc' = pc,
           current' = current, watchers' = Tail(watchers),
           Range(buffer) \subseteq Range(buffer'),
           NEW c, NEW d, Due(c, d)
    PROVE  \/ Due(c, d)'
           \/ c.package = current /\ Filed(c, d, Head(watchers))
<1>1. pc = "propagate" /\ watchers # <<>> /\ watchers \in Seq(Ids)
  BY DEF Examining, Inv, ControlInv
<1>2. CASE c.package \in Range(buffer)
  BY <1>1, <1>2 DEF Due
<1>3. CASE c.package \notin Range(buffer)
  <2>1. c.package = current
    BY <1>1, <1>3 DEF Due, Ended
  <2>2. PICK id \in Range(watchers) : Filed(c, d, id)
    BY <1>1, <1>3 DEF Due, Ended
  <2>3. id \in Ids /\ (id = Head(watchers) \/ id \in Range(Tail(watchers)))
    <3>1. Range(watchers) = {Head(watchers)} \cup Range(Tail(watchers))
      BY <1>1, HeadTailMembers
    <3>2. Range(watchers) \subseteq Ids
      BY <1>1, FiniteRange
    <3> QED BY <3>1, <3>2
  <2>4. store'[id] = Clause(c, d) /\ c.package \in Watching(watch', id)
    BY <2>2, <2>3, FiledStays
  <2> QED BY <1>1, <2>1, <2>2, <2>3, <2>4 DEF Due, Filed
<1> QED BY <1>2, <1>3

\* A decided version's requirement is unit: it is derived, at this level.
LEMMA DeriveUnitRequired ==
    ASSUME Inv, HistoryInv, WatchInv, FiledInv, RequiredInv, DeriveUnit
    PROVE  RequiredInv'
<1> DEFINE id == Head(watchers)
<1>1. PICK pkg \in DOMAIN store[id].terms :
         /\ AlmostSatisfied(store[id], pkg)
         /\ ps' = AddDerivation(ps, pkg, id, Negate(store[id].terms[pkg]))
         /\ buffer' = IF Contains(buffer, pkg) THEN buffer
                      ELSE Append(buffer, pkg)
  BY DEF DeriveUnit
<1>2. /\ Examining /\ pc = "propagate" /\ pc' = pc /\ current' = current
      /\ watchers' = Tail(watchers)
      /\ UNCHANGED <<index, store, added>>
  BY DEF DeriveUnit, Examining, driverVars
<1>3. id \in Ids /\ MovesWatches
  BY <1>2, ExaminedType, NextMoves DEF Inv, FiledInv, Next
<1>4. id \in Causes
  <2>1. ASSUME id = 1 PROVE FALSE
    <3>1. pkg = Root
      BY <1>1, <2>1 DEF Inv, StoreInv, NotRoot
    <3> QED BY <1>1, <2>1, <3>1, NotRootNeverUnit DEF Inv
  <2> QED BY <1>3, <2>1 DEF Ids, Causes
<1>5. pkg \in Package /\ store[id].terms[pkg] \in Term
  BY <1>1, <1>3, HistoryTypes
<1>6. Range(buffer) \subseteq Range(buffer')
  <2>1. buffer \in Seq(Package)
    BY DEF Inv, ControlInv
  <2> QED BY <1>1, <1>5, <2>1, AppendMembers
<1> HIDE DEF id
<1>7. /\ WellDated(ps, Causes) /\ Causes \in SUBSET (Nat \ {0}) /\ History(ps)
  BY HistoryTypes DEF HistoryInv
<1>8. Negate(store[id].terms[pkg]) \in Term
  BY <1>5, TermTypes
<1>9. PICK n : n = [package |-> pkg, gi |-> ps.next, dl |-> ps.level,
                    cause |-> id,
                    term |-> Intersection(TermFor(ps, pkg),
                                          Negate(store[id].terms[pkg]))]
  OBVIOUS
<1>10. IF IsAssigned(ps, pkg) /\ Decided(ps.assigned[pkg])
       THEN StepsIn(ps') = StepsIn(ps)
       ELSE n \in Step /\ StepsIn(ps') = StepsIn(ps) \cup {n}
  <2> DEFINE term == Negate(store[id].terms[pkg])
  <2>1. ps' = AddDerivation(ps, pkg, id, term) /\ term \in Term
    BY <1>1, <1>8
  <2>2. n = [package |-> pkg, gi |-> ps.next, dl |-> ps.level, cause |-> id,
             term |-> Intersection(TermFor(ps, pkg), term)]
    BY <1>9
  <2> HIDE DEF term
  <2> QED BY <1>4, <1>5, <1>7, <2>1, <2>2, DeriveSteps
<1>11. n.cause # NoCause
  BY <1>4, <1>7, <1>9 DEF NoCause
<1>12. ps'.level = ps.level
  BY <1>1 DEF AddDerivation
<1>13. ASSUME NEW e \in StepsIn(ps'), NEW v \in Version, Decides(e, v)
       PROVE  e \in StepsIn(ps)
  BY <1>10, <1>11, <1>13 DEF Decides
<1>14. ASSUME NEW e \in StepsIn(ps), NEW v \in Version, Decides(e, v),
              e.dl = ps.level,
              NEW d \in ToSet(Requirements(index, e.package, v)),
              Filed(At(e, v), d, id)
       PROVE  Met(StepsIn(ps'), d, e.dl)
  <2>1. /\ d \in Dependency /\ pkg = d.package
        /\ ~(IsAssigned(ps, pkg) /\ Decided(ps.assigned[pkg]))
        /\ Negate(store[id].terms[pkg]) = Positive(d.range)
    BY <1>1, <1>3, <1>14, ClauseExamined DEF Filed
  <2>2. n \in StepsIn(ps') /\ n.package = d.package /\ n.dl = e.dl
    BY <1>9, <1>10, <1>14, <2>1
  <2>3. SubsetOf(n.term, Positive(d.range))
    <3>1. TermFor(ps, pkg) \in Term
      BY <1>7, EntryFacts, <2>1, AccumulatedType DEF TermFor, IsAssigned, WellDated, IsPartialSolution
    <3> QED BY <1>8, <1>9, <2>1, <3>1, IntersectionBelow
  <2>4. e.dl <= e.dl
    BY <1>14, <1>7 DEF WellDated, IsPartialSolution
  <2> QED BY <2>2, <2>3, <2>4 DEF Met
<1>15. ASSUME NEW e \in StepsIn(ps), NEW v \in Version, Decides(e, v)
       PROVE  /\ At(e, v) \in added
              /\ \A d \in ToSet(Requirements(index, e.package, v)) :
                    \/ Met(StepsIn(ps'), d, e.dl)
                    \/ e.dl = ps.level /\ Due(At(e, v), d)'
  <2>1. At(e, v) \in added
    BY <1>2, <1>15 DEF RequiredInv
  <2>2. ASSUME NEW d \in ToSet(Requirements(index, e.package, v))
        PROVE  \/ Met(StepsIn(ps'), d, e.dl)
               \/ e.dl = ps.level /\ Due(At(e, v), d)'
    <3>1. CASE Met(StepsIn(ps), d, e.dl)
      BY <1>10, <3>1 DEF Met
    <3>2. CASE ~Met(StepsIn(ps), d, e.dl)
      <4>1. e.dl = ps.level /\ Due(At(e, v), d)
        BY <1>15, <3>2 DEF RequiredInv
      <4>2. Due(At(e, v), d)' \/ Filed(At(e, v), d, id)
        BY <1>2, <1>3, <1>6, <4>1, DueBehind DEF id
      <4> QED BY <1>14, <1>15, <4>1, <4>2
    <3> QED BY <3>1, <3>2
  <2> QED BY <2>1, <2>2
<1>16. ASSUME NEW e \in StepsIn(ps'), NEW v \in Version, Decides(e, v)
       PROVE  /\ At(e, v) \in added'
              /\ \A d \in ToSet(Requirements(index', e.package, v)) :
                    \/ Met(StepsIn(ps'), d, e.dl)
                    \/ e.dl = ps'.level /\ Due(At(e, v), d)'
  BY <1>2, <1>12, <1>13, <1>15, <1>16
<1> QED BY <1>16 DEF RequiredInv

\* It is neither unit nor violated: it has been derived.
LEMMA LeaveDormantRequired ==
    ASSUME Inv, HistoryInv, WatchInv, FiledInv, RequiredInv, LeaveDormant
    PROVE  RequiredInv'
<1> DEFINE id == Head(watchers)
<1>1. /\ Examining /\ pc = "propagate" /\ pc' = pc /\ current' = current
      /\ watchers' = Tail(watchers) /\ buffer' = buffer
      /\ UNCHANGED <<index, ps, store, added>>
  BY DEF LeaveDormant, Examining, driverVars
<1>2. id \in Ids /\ MovesWatches
  BY <1>1, ExaminedType, LeaveDormantMoves DEF Inv
<1>3. StillWatched =>
        /\ Unsatisfied(store[id]) # {}
        /\ \A pkg \in DOMAIN store[id].terms : ~AlmostSatisfied(store[id], pkg)
  BY DEF LeaveDormant
<1>4. current \in Watching(watch, id) => StillWatched
  BY DEF StillWatched, Watching
<1> HIDE DEF id
<1>5. ASSUME NEW e \in StepsIn(ps), NEW v \in Version, Decides(e, v),
             e.dl = ps.level,
             NEW d \in ToSet(Requirements(index, e.package, v)),
             Due(At(e, v), d)
      PROVE  Met(StepsIn(ps), d, e.dl) \/ Due(At(e, v), d)'
  <2>1. CASE Due(At(e, v), d)'
    BY <2>1
  <2>2. CASE At(e, v).package = current /\ Filed(At(e, v), d, id)
    <3>1. StillWatched /\ store[id] = Clause(At(e, v), d)
      BY <1>4, <2>2 DEF Filed
    <3>2. /\ d \in Dependency
          /\ SubsetOf(TermFor(ps, d.package), Positive(d.range))
      BY <1>2, <1>3, <1>5, <3>1, ClauseExamined
    <3> QED BY <1>5, <3>2, MetNow
  <2> QED BY <1>1, <1>2, <1>5, <2>1, <2>2, DueBehind DEF id
<1> QED BY <1>1, <1>5, RequiredKept

\* A backjump returns below the current level.  It keeps the steps up to the
\* level it returns to and adds no decision but that for the project, made
\* again where it was undone; and the project is decided after it if it was
\* before, unless it is refuted, in which case it is to be propagated.
LEMMA BackjumpReturns ==
    ASSUME Inv, HistoryInv, Backjump
    PROVE  \E target \in Nat :
              /\ target < ps.level
              /\ \A e \in StepsIn(ps) : e.dl <= target => e \in StepsIn(ps')
              /\ \A e \in StepsIn(ps') : e.cause = NoCause =>
                    \/ e \in StepsIn(ps) /\ e.dl <= target
                    \/ /\ e.package = Root /\ e.term = Positive({RootVersion})
                       /\ e.dl = ps'.level /\ Root \in Range(buffer')
                       /\ \E f \in StepsIn(ps) : f.package = Root /\ Decides(f, RootVersion)
              /\ RootIn(ps) => \/ RootIn(ps')
                               \/ ps'.level = 0 /\ Root \in Range(buffer')
<1> DEFINE pkg == Satisfier.package
           target == Satisfier.previous_dl
           back == Backtrack(ps, target)
           term == Negate(store[conflict].terms[pkg])
           learned == AddDerivation(back, pkg, conflict, term)
<1>1. /\ ps' = IF IsAssigned(learned, Root) THEN learned
               ELSE AddDecision(learned, Root, RootVersion)
      /\ buffer' = IF IsAssigned(learned, Root) THEN <<pkg>> ELSE <<pkg, Root>>
      /\ pc = "analyse" /\ target < Satisfier.dl
  BY DEF Backjump
<1>2. /\ conflict \in Causes /\ Causes \in SUBSET (Nat \ {0})
      /\ pkg \in Package /\ term \in Term /\ target \in Nat
      /\ WellDated(back, Causes) /\ History(back)
      /\ StepsIn(back) = {f \in StepsIn(ps) : f.dl <= target}
  BY BackjumpStep
<1>3. target < ps.level
  <2>1. Satisfier.dl <= ps.level
    <3>1. CASE Satisfier = [package |-> Root, dl |-> 0, previous_dl |-> 0,
                            cause |-> NoCause]
      BY <1>1, <3>1
    <3>2. ASSUME NEW e \in StepsIn(ps), e.dl = Satisfier.dl
          PROVE  Satisfier.dl <= ps.level
      BY <3>2 DEF HistoryInv, History, Chronological
    <3> QED BY <1>1, <3>1, <3>2, ConflictSatisfier
  <2>2. Satisfier.dl \in Nat /\ ps.level \in Nat
    BY <1>1, SatisfierType DEF Inv, TrailInv, WellDated, IsPartialSolution
  <2> QED BY <1>1, <1>2, <2>1, <2>2
<1>4. /\ back.level = target
      /\ Root \notin DOMAIN back.assigned => target = 0
      /\ \A q \in DOMAIN ps.assigned :
            ps.assigned[q].smallest_dl <= target <=> q \in DOMAIN back.assigned
  <2>1. IsPartialSolution(ps) /\ Stands(ps)
    BY DEF Inv, TrailInv, WellDated, Stands
  <2>2. DOMAIN back.assigned =
           {r \in DOMAIN ps.assigned : ps.assigned[r].smallest_dl <= target}
    BY DEF Backtrack
  <2> QED BY <1>2, <2>1, <2>2, BacktrackStands
<1> HIDE DEF pkg, target, back, term
<1>5. /\ History(learned) /\ WellDated(learned, Causes)
      /\ StepsIn(back) \subseteq StepsIn(learned)
      /\ \A e \in StepsIn(learned) : e.cause = NoCause => e \in StepsIn(back)
  <2>1. Causes \in SUBSET Nat
    BY <1>2
  <2>2. WellDated(learned, Causes)
    BY <1>2, <2>1, AddDerivationWellDated
  <2>3. PICK n : n = [package |-> pkg, gi |-> back.next, dl |-> back.level,
                      cause |-> conflict,
                      term |-> Intersection(TermFor(back, pkg), term)]
    OBVIOUS
  <2>4. /\ History(learned)
        /\ StepsIn(learned) = StepsIn(back) \/ StepsIn(learned) = StepsIn(back) \cup {n}
    BY <1>2, <2>3, DeriveSteps
  <2>5. n.cause # NoCause
    BY <1>2, <2>3 DEF NoCause
  <2> QED BY <2>2, <2>4, <2>5
<1>6. /\ DOMAIN back.assigned \subseteq DOMAIN learned.assigned
      /\ DOMAIN learned.assigned \subseteq DOMAIN back.assigned \cup {pkg}
      /\ learned.level = target
  <2>1. IsPartialSolution(back)
    BY <1>2 DEF WellDated
  <2>2. learned.level = back.level
    BY <2>1 DEF AddDerivation, IsPartialSolution
  <2> HIDE DEF learned
  <2>3. /\ DOMAIN back.assigned \subseteq DOMAIN learned.assigned
        /\ DOMAIN learned.assigned \subseteq DOMAIN back.assigned \cup {pkg}
    BY <2>1, DeriveOthers DEF learned
  <2> QED BY <1>4, <2>2, <2>3
<1> HIDE DEF learned
<1>7. /\ Root \in DOMAIN ps.assigned /\ RootStands(ps.assigned[Root])
      /\ WellDated(ps, Causes) /\ WellKept(ps.assigned[Root])
  BY HistoryTypes DEF Inv, TrailInv, HistoryInv, History
<1>8. CASE ~IsAssigned(learned, Root)
  <2> DEFINE root == Chosen(Root, [dl |-> learned.level + 1,
                                   version |-> RootVersion,
                                   gi |-> learned.next])
             old == Chosen(Root, ps.assigned[Root].decision)
  <2>1. ps' = AddDecision(learned, Root, RootVersion) /\ Root \in Range(buffer')
    BY <1>1, <1>8 DEF Range
  <2>2. SubsetOf(Positive({RootVersion}), TermFor(learned, Root))
    BY <1>8 DEF TermFor, AnyTerm, Positive, Negative, SubsetOf
  <2>3. StepsIn(ps') = StepsIn(learned) \cup {root}
    BY <1>2, <1>5, <1>8, <2>1, <2>2, DecideSteps, PackagesAssumption
       DEF IsAssigned
  <2>4. /\ root.package = Root /\ root.term = Positive({RootVersion})
        /\ root.dl = ps'.level /\ root.cause = NoCause
    BY <2>1 DEF Chosen, AddDecision
  <2>5. ps.assigned[Root].decision.version = RootVersion
    <3>1. Root \notin DOMAIN back.assigned
      BY <1>6, <1>8 DEF IsAssigned
    <3>2. ~(ps.assigned[Root].smallest_dl <= target)
      BY <1>4, <1>7, <3>1
    <3> QED BY <1>2, <1>7, <3>2 DEF RootStands
  <2>6. old \in StepsIn(ps) /\ old.package = Root /\ Decides(old, RootVersion)
    BY <1>7, <2>5, StepsMade, PackagesAssumption DEF Decided, Chosen, Decides
  <2> HIDE DEF root, old
  <2>7. RootIn(ps')
    BY <2>3, <2>4 DEF RootIn
  <2>8. \A e \in StepsIn(ps') : e.cause = NoCause =>
           \/ e \in StepsIn(ps) /\ e.dl <= target
           \/ e = root
    BY <1>2, <1>5, <2>3
  <2>9. \A e \in StepsIn(ps) : e.dl <= target => e \in StepsIn(ps')
    BY <1>2, <1>5, <2>3
  <2> QED BY <1>2, <1>3, <2>1, <2>4, <2>6, <2>7, <2>8, <2>9
<1>9. CASE IsAssigned(learned, Root)
  <2>1. ps' = learned /\ pkg \in Range(buffer')
    BY <1>1, <1>9 DEF Range
  <2>2. ASSUME RootIn(ps)
        PROVE  RootIn(ps') \/ (ps'.level = 0 /\ Root \in Range(buffer'))
    <3>1. PICK e \in StepsIn(ps) : e.package = Root /\ e.cause = NoCause
      BY <2>2 DEF RootIn
    <3>2. /\ Decided(ps.assigned[Root])
          /\ e = Chosen(Root, ps.assigned[Root].decision)
      BY <1>2, <1>7, <3>1, StepDecided
    <3>3. ps.assigned[Root].smallest_dl = 1 /\ e.dl = 1
      BY <1>7, <3>2 DEF RootStands, Decided, WellKept, Chosen
    <3>4. CASE Root \in DOMAIN back.assigned
      <4>1. e.dl <= target
        BY <1>4, <1>7, <3>3, <3>4
      <4> QED BY <1>2, <1>5, <2>1, <3>1, <4>1 DEF RootIn
    <3>5. CASE Root \notin DOMAIN back.assigned
      BY <1>4, <1>6, <1>9, <2>1, <3>5 DEF IsAssigned
    <3> QED BY <3>4, <3>5
  <2>3. \A e \in StepsIn(ps') : e.cause = NoCause =>
           e \in StepsIn(ps) /\ e.dl <= target
    BY <1>2, <1>5, <2>1
  <2>4. \A e \in StepsIn(ps) : e.dl <= target => e \in StepsIn(ps')
    BY <1>2, <1>5, <2>1
  <2> QED BY <1>2, <1>3, <2>2, <2>3, <2>4
<1> QED BY <1>8, <1>9

\* What stands had its requirements derived at its own level or before, and
\* these stand as well; the project, decided again, is to be propagated.
LEMMA BackjumpRequired ==
    ASSUME Inv, HistoryInv, RequiredInv, Backjump
    PROVE  RequiredInv'
<1>1. PICK target \in Nat :
         /\ target < ps.level
         /\ \A e \in StepsIn(ps) : e.dl <= target => e \in StepsIn(ps')
         /\ \A e \in StepsIn(ps') : e.cause = NoCause =>
               \/ e \in StepsIn(ps) /\ e.dl <= target
               \/ /\ e.package = Root /\ e.term = Positive({RootVersion})
                  /\ e.dl = ps'.level /\ Root \in Range(buffer')
                  /\ \E f \in StepsIn(ps) : f.package = Root /\ Decides(f, RootVersion)
  BY BackjumpReturns
<1>2. pc = "analyse" /\ pc' = "propagate" /\ UNCHANGED <<index, added>>
  BY DEF Backjump, driverVars
<1>3. StepsIn(ps) \subseteq Step /\ ps.level \in Nat
  BY HistoryTypes DEF WellDated, IsPartialSolution
<1>4. ASSUME NEW e \in StepsIn(ps), e.dl <= target, NEW v \in Version, Decides(e, v)
      PROVE  /\ At(e, v) \in added
             /\ \A d \in ToSet(Requirements(index, e.package, v)) :
                   Met(StepsIn(ps'), d, e.dl)
  <2>1. At(e, v) \in added
    BY <1>2, <1>4 DEF RequiredInv
  <2>2. e.dl \in Nat /\ e.dl # ps.level
    BY <1>1, <1>3, <1>4 DEF Step
  <2>3. ASSUME NEW d \in ToSet(Requirements(index, e.package, v))
        PROVE  Met(StepsIn(ps'), d, e.dl)
    <3>1. Met(StepsIn(ps), d, e.dl)
      BY <1>4, <2>2 DEF RequiredInv
    <3>2. PICK f \in StepsIn(ps) :
             /\ f.package = d.package /\ f.dl <= e.dl
             /\ SubsetOf(f.term, Positive(d.range))
      BY <3>1 DEF Met
    <3>3. f.dl <= target
      BY <1>3, <1>4, <2>2, <3>2 DEF Step
    <3> QED BY <1>1, <3>2, <3>3 DEF Met
  <2> QED BY <2>1, <2>3
<1>5. ASSUME NEW e \in StepsIn(ps'), NEW v \in Version, Decides(e, v),
             e.package = Root, e.term = Positive({RootVersion}),
             e.dl = ps'.level, Root \in Range(buffer'),
             NEW f \in StepsIn(ps), f.package = Root, Decides(f, RootVersion)
      PROVE  /\ At(e, v) \in added
             /\ \A d : e.dl = ps'.level /\ Due(At(e, v), d)'
  <2>1. v = RootVersion
    <3>1. Positive({RootVersion}).set = Positive({v}).set
      BY <1>5 DEF Decides
    <3> QED BY <3>1 DEF Positive
  <2>2. At(f, RootVersion) \in added
    BY <1>2, <1>5, PackagesAssumption DEF RequiredInv
  <2>3. At(e, v) = At(f, RootVersion) /\ At(e, v).package = Root
    BY <1>5, <2>1 DEF At
  <2> QED BY <1>2, <1>5, <2>2, <2>3 DEF Due
<1>6. ASSUME NEW e \in StepsIn(ps'), NEW v \in Version, Decides(e, v)
      PROVE  /\ At(e, v) \in added'
             /\ \A d \in ToSet(Requirements(index', e.package, v)) :
                   \/ Met(StepsIn(ps'), d, e.dl)
                   \/ e.dl = ps'.level /\ Due(At(e, v), d)'
  BY <1>1, <1>2, <1>4, <1>5, <1>6 DEF Decides
<1> QED BY <1>6 DEF RequiredInv

\* The project is decided before its requirements are registered.
LEMMA InitRequired == Init => RequiredInv
<1> SUFFICES ASSUME Init PROVE RequiredInv
  OBVIOUS
<1>1. /\ pc = "register"
      /\ choice = [package |-> Root, version |-> RootVersion]
  BY DEF Init
<1> SUFFICES ASSUME NEW e \in StepsIn(ps), NEW v \in Version, Decides(e, v)
             PROVE  /\ choice = At(e, v) /\ e.package = Root
                    /\ \A d : e.dl = ps.level /\ Due(At(e, v), d)
  BY <1>1 DEF RequiredInv
<1>2. /\ e.package = Root /\ e.dl = ps.level
      /\ e.term = Positive({RootVersion})
  BY InitSteps
<1>3. v = RootVersion
  <2>1. Positive({RootVersion}).set = Positive({v}).set
    BY <1>2 DEF Decides
  <2> QED BY <2>1 DEF Positive
<1> QED BY <1>1, <1>2, <1>3 DEF At, Due

\* The end of a registration: what was chosen is decided, the project again.
LEMMA FinishRegistrationRequired ==
    ASSUME Inv, HistoryInv, RequiredInv, FinishRegistration
    PROVE  RequiredInv'
<1>1. /\ pc = "register" /\ pc' = "propagate" /\ index' = index
      /\ added' = added \cup {choice}
      /\ choice.package \in Range(buffer')
  BY DEF FinishRegistration, Range
<1>2. CASE choice.package = Root
  <2>1. ps' = ps
    BY <1>2 DEF FinishRegistration
  <2>2. \A c, d : Due(c, d) => c.package = Root
    BY <1>1 DEF Due, Ended
  <2>3. ASSUME NEW e \in StepsIn(ps), NEW v \in Version, NEW d,
               Due(At(e, v), d)
        PROVE  Due(At(e, v), d)'
    BY <1>1, <1>2, <2>2, <2>3 DEF Due
  <2> QED BY <1>1, <2>1, <2>3, RequiredKept
<1>3. CASE choice.package # Root
  <2>1. NothingDue
    BY <1>1, <1>3 DEF NothingDue, Due, Ended
  <2>2. /\ ps' = AddDecision(ps, choice.package, choice.version)
        /\ choice.package \in Undecided(ps)
        /\ choice.version \in RangeOf(choice.package)
    BY <1>1, <1>3 DEF FinishRegistration, HistoryInv, Deciding
  <2>3. /\ choice.version \in Version
        /\ choice = [package |-> choice.package, version |-> choice.version]
    BY DEF Inv, ControlInv
  <2> QED BY <1>1, <1>3, <2>1, <2>2, <2>3, RequiredDecide
<1> QED BY <1>2, <1>3

\* When propagation returns, it has nothing to look at.
LEMMA QuiescentNothingDue == Quiescent => NothingDue
BY NoWatchers DEF Quiescent, NothingDue, Due, Ended

\* Every step keeps the requirements.
LEMMA NextRequired ==
    /\ Inv /\ HistoryInv /\ WatchInv /\ FiledInv /\ RequiredInv
    /\ [Next]_vars
    => RequiredInv'
<1> SUFFICES ASSUME Inv, HistoryInv, WatchInv, FiledInv, RequiredInv,
                    [Next]_vars
             PROVE  RequiredInv'
  OBVIOUS
<1>1. CASE RegisterDependency
  <2>1. UNCHANGED <<index, ps, added, pc, choice>> /\ pc = "register"
    BY <1>1 DEF RegisterDependency
  <2>2. ASSUME NEW c, NEW d, Due(c, d) PROVE Due(c, d)'
    BY <2>1, <2>2 DEF Due, Ended
  <2> QED BY <2>1, <2>2, RequiredKept
<1>2. CASE FinishRegistration
  BY <1>2, FinishRegistrationRequired
<1>3. CASE PopPackage
  BY <1>3, PopPackageRequired
<1>4. CASE FindConflict \/ ReportNoSolution \/ ResolveWithCause \/ ReturnSolution
  <2>1. /\ UNCHANGED <<index, ps, added>> /\ pc # "register"
        /\ pc' \in Ended \cup {"analyse"}
    BY <1>4 DEF FindConflict, ReportNoSolution, ResolveWithCause,
           ReturnSolution, Examining, Quiescent, Ended, searchVars, driverVars
  <2>2. ASSUME NEW c, NEW d PROVE Due(c, d)'
    BY <2>1 DEF Due, Ended
  <2> QED BY <2>1, <2>2, RequiredKept
<1>5. CASE DeriveUnit
  BY <1>5, DeriveUnitRequired
<1>6. CASE LeaveDormant
  BY <1>6, LeaveDormantRequired
<1>7. CASE Backjump
  BY <1>7, BackjumpRequired
<1>8. CASE RegisterNoVersions \/ ChooseVersion
  <2>1. NothingDue /\ pc # "register"
    BY <1>8, QuiescentNothingDue DEF RegisterNoVersions, ChooseVersion, Quiescent
  <2>2. UNCHANGED <<index, ps, added>>
    BY <1>8 DEF RegisterNoVersions, ChooseVersion, searchVars, driverVars
  <2> QED BY <2>1, <2>2, RequiredKept DEF NothingDue
<1>9. CASE ChooseVersionAgain
  <2>1. PICK pkg \in Undecided(ps) :
           /\ InRange(pkg) # {} /\ Preferred(pkg) \in added
           /\ ps' = AddDecision(ps, pkg, Preferred(pkg).version)
           /\ buffer' = <<pkg>>
    BY <1>9 DEF ChooseVersionAgain
  <2>2. /\ NothingDue /\ pc = "propagate" /\ pc' = "propagate"
        /\ UNCHANGED <<index, added>>
    BY <1>9, QuiescentNothingDue DEF ChooseVersionAgain, Quiescent, driverVars
  <2>3. /\ Preferred(pkg).version \in Version
        /\ Preferred(pkg).version \in RangeOf(pkg)
    BY <2>1, PreferredInRange
  <2>4. Preferred(pkg) = [package |-> pkg, version |-> Preferred(pkg).version]
    BY DEF Preferred
  <2>5. pkg \in Range(buffer')
    BY <2>1 DEF Range
  <2> QED BY <2>1, <2>2, <2>3, <2>4, <2>5, RequiredDecide
<1>10. CASE UNCHANGED vars
  <2>1. /\ UNCHANGED <<index, ps, added, pc, choice, buffer, current, watchers>>
        /\ UNCHANGED <<store, watch>>
    BY <1>10 DEF vars, searchVars, driverVars, propagationVars
  <2>2. ASSUME NEW c, NEW d, Due(c, d) PROVE Due(c, d)'
    BY <2>1, <2>2 DEF Due, Filed
  <2> QED BY <2>1, <2>2, RequiredKept
<1> QED BY <1>1, <1>2, <1>3, <1>4, <1>5, <1>6, <1>7, <1>8, <1>9, <1>10
        DEF Next, Stopped

-----------------------------------------------------------------------------
(* The project stays decided, or its refutation is due.                    *)

\* An undecided project has been derived to be out.
LEMMA RootOut ==
    ASSUME Inv, ~RootIn(ps)
    PROVE  Unsatisfied(store[1]) = {}
<1> DEFINE pa == ps.assigned[Root]
           ds == pa.derivations
<1>1. Root \in DOMAIN ps.assigned /\ RootStands(pa)
  BY DEF Inv, TrailInv
<1>2. ~Decided(pa)
  <2>1. ASSUME Decided(pa) PROVE FALSE
    <3>1. Chosen(Root, pa.decision) \in StepsIn(ps)
      BY <1>1, <2>1, StepsMade
    <3> QED BY <3>1 DEF RootIn, Chosen
  <2> QED BY <2>1
<1>3. /\ ds # <<>>
      /\ \A i \in DOMAIN ds : ds[i].term = Negative({RootVersion})
  BY <1>1, <1>2, PackagesAssumption DEF RootStands, Decided
<1>4. ds \in Seq(DatedDerivation)
  BY <1>1 DEF Inv, TrailInv, WellDated, IsPartialSolution, PackageAssignment
<1>5. Last(ds).term = Negative({RootVersion})
  BY <1>3, <1>4, FrontLastType DEF Last
<1>6. TermFor(ps, Root) = Negative({RootVersion})
  BY <1>1, <1>2, <1>3, <1>5 DEF TermFor, IsAssigned, Accumulated
<1>7. store[1] = NotRoot
  BY DEF Inv, StoreInv
<1>8. SubsetOf(Negative({RootVersion}), Negative({RootVersion}))
  BY DEF SubsetOf, Negative
<1> QED BY <1>6, <1>7, <1>8 DEF Unsatisfied, RelationOf, RelationWith, NotRoot

\* The project is the first decision.
LEMMA InitRoot == Init => RootInv
<1> SUFFICES ASSUME Init PROVE RootIn(ps)
  BY DEF RootInv
<1> DEFINE e == [package |-> Root, gi |-> 0, dl |-> 1, cause |-> NoCause,
                 term |-> Positive({RootVersion})]
<1>1. e \in StepsIn(ps)
  BY InitSteps
<1> QED BY <1>1 DEF RootIn

\* Unit propagation adds a step at the level it is at.
LEMMA UnitSteps ==
    ASSUME Inv, HistoryInv, DeriveUnit
    PROVE  StepsIn(ps) \subseteq StepsIn(ps') /\ ps'.level = ps.level
<1>1. PICK id \in Causes : \E pkg \in DOMAIN store[id].terms :
         /\ pkg \in Package /\ Negate(store[id].terms[pkg]) \in Term
         /\ ps' = AddDerivation(ps, pkg, id, Negate(store[id].terms[pkg]))
  BY DerivedUnit
<1>2. PICK pkg \in Package, term \in Term : ps' = AddDerivation(ps, pkg, id, term)
  BY <1>1
<1>3. /\ WellDated(ps, Causes) /\ Causes \in SUBSET (Nat \ {0}) /\ History(ps)
  BY HistoryTypes DEF HistoryInv
<1>4. StepsIn(ps) \subseteq StepsIn(ps')
  <2>1. PICK n : n = [package |-> pkg, gi |-> ps.next, dl |-> ps.level,
                      cause |-> id,
                      term |-> Intersection(TermFor(ps, pkg), term)]
    OBVIOUS
  <2>2. \/ StepsIn(ps') = StepsIn(ps) \/ StepsIn(ps') = StepsIn(ps) \cup {n}
    BY <1>1, <1>2, <1>3, <2>1, DeriveSteps
  <2> QED BY <2>2
<1>5. ps'.level = ps.level
  BY <1>2, <1>3 DEF AddDerivation
<1> QED BY <1>4, <1>5

\* Every step but a backjump keeps the steps made.
LEMMA StepsKept ==
    ASSUME Inv, HistoryInv, [Next]_vars, ~Backjump
    PROVE  StepsIn(ps) \subseteq StepsIn(ps')
<1>1. /\ WellDated(ps, Causes) /\ Causes \in SUBSET (Nat \ {0}) /\ History(ps)
  BY HistoryTypes DEF HistoryInv
<1>2. ASSUME NEW pkg \in Undecided(ps), NEW v \in Version, v \in RangeOf(pkg),
             ps' = AddDecision(ps, pkg, v)
      PROVE  StepsIn(ps) \subseteq StepsIn(ps')
  BY <1>1, <1>2, DecidedAt
<1>3. CASE UNCHANGED ps
  BY <1>3
<1>4. CASE FinishRegistration
  <2>1. CASE choice.package = Root
    BY <1>3, <1>4, <2>1 DEF FinishRegistration
  <2>2. CASE choice.package # Root
    <3>1. /\ pc = "register"
          /\ ps' = AddDecision(ps, choice.package, choice.version)
      BY <1>4, <2>2 DEF FinishRegistration
    <3>2. /\ choice.package \in Undecided(ps)
          /\ choice.version \in RangeOf(choice.package)
          /\ choice.version \in Version
      BY <2>2, <3>1 DEF HistoryInv, Deciding, Inv, ControlInv
    <3> QED BY <1>2, <3>1, <3>2
  <2> QED BY <2>1, <2>2
<1>5. CASE ChooseVersionAgain
  <2>1. PICK pkg \in Undecided(ps) :
           /\ InRange(pkg) # {}
           /\ ps' = AddDecision(ps, pkg, Preferred(pkg).version)
    BY <1>5 DEF ChooseVersionAgain
  <2>2. /\ Preferred(pkg).version \in Version
        /\ Preferred(pkg).version \in RangeOf(pkg)
    BY <2>1, PreferredInRange
  <2> QED BY <1>2, <2>1, <2>2
<1>6. CASE DeriveUnit
  BY <1>1, <1>6, UnitSteps
<1>7. CASE UNCHANGED vars
  BY <1>3, <1>7 DEF vars, searchVars
<1> QED BY <1>3, <1>4, <1>5, <1>6, <1>7
        DEF Next, Stopped, RegisterDependency, PopPackage, FindConflict,
            LeaveDormant, ReportNoSolution, ResolveWithCause, ReturnSolution,
            RegisterNoVersions, ChooseVersion, searchVars, vars

\* While the project is out, NotRoot is violated and is to be looked at.
LEMMA RootDue ==
    ASSUME Inv, HistoryInv, WatchInv, WatchedWithin, RootInv, ~RootIn(ps),
           [Next]_vars, ~Backjump
    PROVE  RootInv'
<1>1. /\ ps.level = 0
      /\ \/ pc = "propagate" /\ Root \in Range(buffer)
         \/ pc = "propagate" /\ current = Root /\ 1 \in Range(watchers)
         \/ pc \in Ended \cup {"analyse"}
  BY DEF RootInv
<1>2. Unsatisfied(store[1]) = {} /\ store[1] = NotRoot /\ 1 \in Ids
  <2>1. Len(store) \in Nat /\ Len(store) >= 1 /\ store[1] = NotRoot
    BY LenProperties DEF Inv, StoreInv
  <2> QED BY <2>1, RootOut DEF Ids
<1>3. ~Quiescent /\ pc # "register"
  BY <1>1, NoWatchers DEF Quiescent, Ended
<1>4. buffer \in Seq(Package) /\ watchers \in Seq(Ids)
  BY DEF Inv, ControlInv
<1>5. CASE PopPackage
  <2>1. /\ pc = "propagate" /\ pc' = "propagate" /\ ps' = ps
        /\ watchers = <<>> /\ buffer # <<>>
        /\ current' = Last(buffer) /\ buffer' = Front(buffer)
        /\ watchers' = watch.lists[Last(buffer)]
    BY <1>5 DEF PopPackage, searchVars
  <2>2. Root \in Range(buffer)
    BY <1>1, <2>1, NoWatchers DEF Ended
  <2>3. CASE Last(buffer) = Root
    <3>1. 1 \notin LearnedIds
      BY <1>2 DEF LearnedIds, NotRoot
    <3>2. 1 \in DOMAIN watch.watched
      BY <1>2, LenProperties DEF Inv, StoreInv, WellIndexed, Ids
    <3>3. Root \in Watching(watch, 1)
      <4>1. Watching(watch, 1) \subseteq {Root}
        BY <1>2 DEF WatchedWithin, NotRoot
      <4> QED BY <4>1 DEF Watching
    <3>4. 1 \in Range(watch.lists[Root])
      BY <3>1, <3>2, <3>3 DEF WatchInv, Agreeing
    <3> QED BY <1>1, <2>1, <2>3, <3>4 DEF RootInv
  <2>4. CASE Root \in Range(Front(buffer))
    BY <1>1, <2>1, <2>4 DEF RootInv
  <2> QED BY <1>4, <2>1, <2>2, <2>3, <2>4, FrontLastMembers
<1>6. CASE FindConflict \/ ReportNoSolution \/ ResolveWithCause
  <2>1. ps' = ps /\ pc' \in Ended \cup {"analyse"}
    BY <1>6 DEF FindConflict, ReportNoSolution, ResolveWithCause, Ended,
           searchVars
  <2> QED BY <1>1, <2>1 DEF RootInv
<1>7. CASE DeriveUnit \/ LeaveDormant
  <2>1. /\ Examining /\ pc = "propagate" /\ pc' = pc /\ current' = current
        /\ watchers' = Tail(watchers) /\ watchers # <<>>
    BY <1>7 DEF DeriveUnit, LeaveDormant, Examining
  <2>2. ps'.level = 0
    BY <1>1, <1>7, UnitSteps DEF LeaveDormant
  <2>3. Range(buffer) \subseteq Range(buffer')
    <3>1. CASE LeaveDormant
      BY <3>1 DEF LeaveDormant
    <3>2. CASE DeriveUnit
      <4>1. PICK pkg \in DOMAIN store[Head(watchers)].terms :
              buffer' = IF Contains(buffer, pkg) THEN buffer
                        ELSE Append(buffer, pkg)
        BY <3>2 DEF DeriveUnit
      <4>2. Head(watchers) \in Ids
        BY <2>1, ExaminedType DEF Inv
      <4>3. pkg \in Package
        BY <4>1, <4>2, HistoryTypes
      <4> QED BY <1>4, <4>1, <4>3, AppendMembers
    <3> QED BY <1>7, <3>1, <3>2
  <2>4. CASE Root \in Range(buffer)
    BY <2>1, <2>2, <2>3, <2>4 DEF RootInv
  <2>5. CASE current = Root /\ 1 \in Range(watchers)
    <3>1. Head(watchers) # 1
      <4>1. ASSUME Head(watchers) = 1 PROVE FALSE
        <5>1. StillWatched
          BY <2>5, <4>1 DEF WatchInv, StillWatched, Watching
        <5>2. ~LeaveDormant
          BY <1>2, <4>1, <5>1 DEF LeaveDormant
        <5>3. ~DeriveUnit
          BY <1>2, <4>1, NotRootNeverUnit DEF DeriveUnit, NotRoot, Inv
        <5> QED BY <1>7, <5>2, <5>3
      <4> QED BY <4>1
    <3>2. 1 \in Range(Tail(watchers))
      BY <1>4, <2>1, <2>5, <3>1, HeadTailMembers
    <3> QED BY <2>1, <2>2, <2>5, <3>2 DEF RootInv
  <2> QED BY <1>1, <2>1, <2>4, <2>5 DEF Ended
<1>8. CASE UNCHANGED vars
  BY <1>1, <1>8 DEF RootInv, vars, searchVars, propagationVars
<1>9. ~(\/ RegisterDependency \/ FinishRegistration \/ RegisterNoVersions
       \/ ReturnSolution \/ ChooseVersion \/ ChooseVersionAgain)
  BY <1>3 DEF RegisterDependency, FinishRegistration, RegisterNoVersions,
         ReturnSolution, ChooseVersion, ChooseVersionAgain
<1> QED BY <1>5, <1>6, <1>7, <1>8, <1>9 DEF Next, Stopped

\* Every step keeps the project.
LEMMA NextRoot ==
    Inv /\ HistoryInv /\ WatchInv /\ WatchedWithin /\ RootInv /\ [Next]_vars
    => RootInv'
<1> SUFFICES ASSUME Inv, HistoryInv, WatchInv, WatchedWithin, RootInv,
                    [Next]_vars
             PROVE  RootInv'
  OBVIOUS
<1>1. CASE Backjump
  <2>1. PICK target \in Nat :
           /\ target < ps.level
           /\ RootIn(ps) => \/ RootIn(ps')
                            \/ ps'.level = 0 /\ Root \in Range(buffer')
    BY <1>1, BackjumpReturns
  <2>2. ps.level # 0
    BY <2>1
  <2>3. RootIn(ps) /\ pc' = "propagate"
    BY <1>1, <2>2 DEF RootInv, Backjump
  <2> QED BY <2>1, <2>3 DEF RootInv
<1>2. CASE ~Backjump /\ RootIn(ps)
  BY <1>2, StepsKept DEF RootInv, RootIn
<1>3. CASE ~Backjump /\ ~RootIn(ps)
  BY <1>3, RootDue
<1> QED BY <1>1, <1>2, <1>3

-----------------------------------------------------------------------------
(* What propagation has done when it returns.                              *)

\* Nothing is due any more: the requirements of what is decided are derived.
LEMMA QuiescentDerived ==
    ASSUME Inv, HistoryInv, RequiredInv, Quiescent
    PROVE  RequirementsDerived
<1> SUFFICES ASSUME NEW q \in DOMAIN ps.assigned, Decided(ps.assigned[q]),
                    NEW d \in ToSet(Requirements(index, q,
                                      ps.assigned[q].decision.version))
             PROVE  SubsetOf(TermFor(ps, d.package), Positive(d.range))
  BY DEF RequirementsDerived
<1>1. /\ WellDated(ps, Causes) /\ Causes \in SUBSET (Nat \ {0}) /\ History(ps)
  BY HistoryTypes DEF HistoryInv
<1>2. PICK v : v = ps.assigned[q].decision.version
  OBVIOUS
<1>3. q \in Package /\ v \in Version
  BY <1>1, <1>2 DEF WellDated, IsPartialSolution, PackageAssignment, Decision,
        Choice, Decided
<1>4. PICK e : e = Chosen(q, ps.assigned[q].decision)
  OBVIOUS
<1>5. e \in StepsIn(ps) /\ e.package = q /\ Decides(e, v)
  BY <1>2, <1>4, StepsMade DEF Chosen, Decides
<1>6. Met(StepsIn(ps), d, e.dl)
  BY <1>2, <1>3, <1>5, QuiescentNothingDue DEF RequiredInv, NothingDue
<1>7. PICK f \in StepsIn(ps) :
         f.package = d.package /\ SubsetOf(f.term, Positive(d.range))
  BY <1>6 DEF Met
<1>8. Positive(d.range) \in Term
  <2>1. d \in Dependency
    BY <1>2, <1>3, RequirementType DEF Inv
  <2> QED BY <2>1 DEF Dependency, Positive, Term
<1> QED BY <1>1, <1>7, <1>8, HoldsByStep

\* The project is decided.
LEMMA QuiescentRoot ==
    ASSUME Inv, RootInv, Quiescent
    PROVE  /\ Root \in DOMAIN ps.assigned
           /\ ps.assigned[Root].decision.version = RootVersion
<1>1. RootIn(ps)
  BY NoWatchers DEF RootInv, Quiescent, Ended
<1>2. PICK e \in StepsIn(ps) : e.package = Root /\ e.cause = NoCause
  BY <1>1 DEF RootIn
<1>3. Decided(ps.assigned[Root])
  BY <1>2, HistoryTypes, StepDecided
<1> QED BY <1>3 DEF Inv, TrailInv, RootStands, Decided

\* The invariants of the search while the dependent is watched.
SearchInv ==
    /\ Inv /\ HistoryInv /\ WatchInv /\ FiledInv /\ RequiredInv /\ RootInv

\* They hold throughout.
LEMMA SearchInvariance == Spec /\ []DependentWatched => []SearchInv
<1>1. Init => WatchInv /\ FiledInv /\ RequiredInv /\ RootInv
  BY InitWatch, InitFiled, InitRequired, InitRoot
<1>2. Inv /\ WatchInv /\ [Next]_vars => WatchInv'
  BY NextWatch
<1>3. Inv /\ HistoryInv /\ FiledInv /\ DependentWatched /\ [Next]_vars => FiledInv'
  BY NextFiled
<1>4. /\ Inv /\ HistoryInv /\ WatchInv /\ FiledInv /\ RequiredInv
      /\ [Next]_vars
      => RequiredInv'
  BY NextRequired
<1>5. Inv /\ HistoryInv /\ WatchInv /\ FiledInv /\ RootInv /\ [Next]_vars
      => RootInv'
  BY NextRoot DEF FiledInv
<1> QED BY HistoryInvariance, <1>1, <1>2, <1>3, <1>4, <1>5, PTL
        DEF Spec, SearchInv

\* For every index: if every dependency has a watch on the package that
\* depends when it is registered (register_incompatibility), then whenever
\* unit_propagation returns, the requirements of every decided version have
\* been derived and the project is decided.  No move of a watch, no snapshot,
\* no cleared buffer and no backjump loses one.
THEOREM PropagationDerives ==
    Spec /\ []DependentWatched =>
        [](Quiescent => /\ RequirementsDerived
                        /\ ps.assigned[Root].decision.version = RootVersion)
<1>1. SearchInv /\ Quiescent =>
         /\ RequirementsDerived
         /\ ps.assigned[Root].decision.version = RootVersion
  BY QuiescentDerived, QuiescentRoot DEF SearchInv
<1> QED BY SearchInvariance, <1>1, PTL

-----------------------------------------------------------------------------
(* What is returned is valid.                                              *)

\* When propagation returns and every package is decided, each decision is
\* offered and its dependencies hold, the project's among them.
LEMMA CompleteIsValid ==
    ASSUME SearchInv, OfferedInv, Quiescent, Undecided(ps) = {}
    PROVE  Valid(index, ExtractSolution(ps))
<1> DEFINE s == ExtractSolution(ps)
<1> USE DEF SearchInv
<1>1. RequirementsDerived
  BY QuiescentDerived
<1>2. /\ \A q \in DOMAIN ps.assigned :
            s[q] = ps.assigned[q].decision.version
      /\ \A q \in Package \ DOMAIN ps.assigned : s[q] = None
      /\ DOMAIN ps.assigned \subseteq Package
  <2>1. DOMAIN ps.assigned \subseteq Package
    BY HistoryTypes DEF WellDated, IsPartialSolution
  <2> QED BY <2>1 DEF ExtractSolution, IsAssigned
<1>3. Root \in DOMAIN ps.assigned /\ s[Root] = RootVersion
  BY <1>2, QuiescentRoot
<1>4. ASSUME NEW q \in Selected(s)
      PROVE  /\ q \in DOMAIN ps.assigned /\ Decided(ps.assigned[q])
             /\ s[q] = ps.assigned[q].decision.version
  BY <1>2, <1>4 DEF Selected, Decided
<1>5. ASSUME NEW q \in Selected(s) \ {Root}
      PROVE  s[q] \in ToSet(index.offers[q])
  BY <1>4, <1>5 DEF OfferedInv, AllOffered
<1>6. ASSUME NEW q \in Selected(s), NEW d \in DependenciesOf(index, s, q)
      PROVE  s[d.package] \in d.range
  <2>1. SubsetOf(TermFor(ps, d.package), Positive(d.range))
    BY <1>1, <1>4, <1>6 DEF DependenciesOf, RequirementsDerived
  <2>2. TermFor(ps, d.package).pos
    BY <2>1 DEF SubsetOf, Positive
  <2>3. IsAssigned(ps, d.package)
    BY <2>2 DEF TermFor, AnyTerm, Negative
  <2>4. Decided(ps.assigned[d.package])
    BY <2>2, <2>3 DEF TermFor, Undecided, IsAssigned
  <2> QED BY <1>2, <2>1, <2>3, <2>4 DEF TermFor, SubsetOf, Positive, IsAssigned
<1> HIDE DEF s
<1>7. Valid(index, s)
  BY <1>3, <1>5, <1>6 DEF Valid
<1> QED BY <1>7 DEF s

\* For every index: while every dependency has a watch on the package that
\* depends when it is registered, a resolution is only ever returned if it is
\* valid.
THEOREM ResolutionsValid == Spec /\ []DependentWatched => []SolutionSound
<1>1. Init => OfferedInv /\ SolutionSound
  BY InitOffered DEF Init, SolutionSound
<1>2. Inv /\ HistoryInv /\ OfferedInv /\ [Next]_vars => OfferedInv'
  BY NextOffered
<1>3. SearchInv => Inv /\ HistoryInv
  BY DEF SearchInv
<1>4. SearchInv /\ OfferedInv /\ SolutionSound /\ [Next]_vars => SolutionSound'
  <2> SUFFICES ASSUME SearchInv, OfferedInv, SolutionSound, [Next]_vars
               PROVE  SolutionSound'
    OBVIOUS
  <2>1. CASE ReturnSolution
    <3>1. Valid(index, ExtractSolution(ps)) /\ UNCHANGED <<index, ps>>
      BY <2>1, CompleteIsValid DEF ReturnSolution, searchVars
    <3> QED BY <3>1 DEF SolutionSound
  <2>2. CASE UNCHANGED vars
    BY <2>2 DEF vars, searchVars, SolutionSound
  <2>3. CASE ~ReturnSolution /\ ~(UNCHANGED vars)
    <3>1. pc' # "solved"
      BY <2>3 DEF Next, RegisterDependency, FinishRegistration, PopPackage,
             FindConflict, DeriveUnit, LeaveDormant, ReportNoSolution,
             ResolveWithCause, Backjump, RegisterNoVersions, ChooseVersion,
             ChooseVersionAgain, Stopped, Examining, Quiescent
    <3> QED BY <3>1 DEF SolutionSound
  <2> QED BY <2>1, <2>2, <2>3
<1> QED BY SearchInvariance, <1>1, <1>2, <1>3, <1>4, PTL DEF Spec

-----------------------------------------------------------------------------
(* The solver does what resolution promises.                               *)

\* What is said of the answer by the choices and the trail it comes from.
Answered ==
    /\ ExtractSolution(ps) \in Assignments
    /\ SelfFree(index) /\ SolutionSound => SolutionNeeded

\* The invariants that a step of the promise is read off from.
PromiseInv == Inv /\ HistoryInv /\ SoundInv /\ CertainInv /\ Answered

LEMMA PromiseInvariance == Spec => []PromiseInv
<1>1. Init => SoundInv /\ CertainInv /\ WantedInv
  BY InitSound, InitCertain, InitWanted
<1>2. Inv /\ SoundInv /\ [Next]_vars => SoundInv'
  BY NextSound
<1>3. Inv /\ SoundInv /\ HistoryInv /\ CertainInv /\ [Next]_vars => CertainInv'
  BY NextCertain
<1>4. Inv /\ HistoryInv /\ WantedInv /\ [Next]_vars => WantedInv'
  BY NextWanted
<1>5. Inv /\ HistoryInv /\ SoundInv /\ WantedInv => Answered
  BY ResultType, ResultNeeded DEF Answered
<1> QED BY HistoryInvariance, <1>1, <1>2, <1>3, <1>4, <1>5, PTL
        DEF Spec, PromiseInv

\* Only two actions end the search, and none goes on after its end.
LEMMA Endings ==
    ASSUME Next, ~ReturnSolution, ~ReportNoSolution, ~(UNCHANGED vars)
    PROVE  /\ pc \notin {"solved", "no_solution"}
           /\ pc' \notin {"solved", "no_solution"}
           /\ index' = index
BY DEF Next, RegisterDependency, FinishRegistration, PopPackage,
       FindConflict, DeriveUnit, LeaveDormant, ResolveWithCause, Backjump,
       RegisterNoVersions, ChooseVersion, ChooseVersionAgain, Stopped,
       Examining, Quiescent

\* The promise speaks of the same packages, so its words mean the same.
LEMMA PromiseWords ==
    /\ Promise!Assignments = Assignments /\ Promise!Nothing = Nothing
    /\ \A idx, s : /\ Promise!Valid(idx, s) <=> Valid(idx, s)
                   /\ Promise!Needed(idx, s) <=> Needed(idx, s)
    /\ \A idx : Promise!Solvable(idx) <=> Solvable(idx)
<1>1. Promise!Assignments = Assignments /\ Promise!Nothing = Nothing
  BY DEF Assignments, Promise!Assignments, Choice, Promise!Choice,
         Nothing, Promise!Nothing
<1>2. \A s : Promise!Selected(s) = Selected(s)
  BY DEF Selected, Promise!Selected
<1>3. \A idx, s, q : Promise!DependenciesOf(idx, s, q) = DependenciesOf(idx, s, q)
  BY DEF DependenciesOf, Promise!DependenciesOf, Requirements,
         Promise!Requirements, ToSet, Promise!ToSet
<1>4. \A idx, s : Promise!Valid(idx, s) <=> Valid(idx, s)
  <2> TAKE idx, s
  <2>1. /\ Promise!Selected(s) = Selected(s)
        /\ \A q : Promise!DependenciesOf(idx, s, q) = DependenciesOf(idx, s, q)
    BY <1>2, <1>3
  <2> QED BY ONLY <2>1 DEF Valid, Promise!Valid, ToSet, Promise!ToSet
<1>5. \A idx, s : Promise!Needed(idx, s) <=> Needed(idx, s)
  <2> TAKE idx, s
  <2>1. /\ Promise!Selected(s) = Selected(s)
        /\ \A q : Promise!DependenciesOf(idx, s, q) = DependenciesOf(idx, s, q)
    BY <1>2, <1>3
  <2> QED BY ONLY <2>1 DEF Needed, Promise!Needed
<1>6. \A idx : Promise!Solvable(idx) <=> Solvable(idx)
  BY <1>1, <1>4 DEF Solvable, Promise!Solvable
<1> QED BY <1>1, <1>4, <1>5, <1>6

\* A step of the solver is a step of the promise or leaves it alone.
LEMMA PromiseStep ==
    ASSUME PromiseInv, PromiseInv', [Next]_vars,
           SelfFree(index), SolutionSound'
    PROVE  [Promise!Next]_(Promise!vars)
<1>1. CASE UNCHANGED vars
  BY <1>1 DEF vars, searchVars, Promise!vars, Verdict, Result
<1>2. CASE ReturnSolution
  <2>1. /\ pc \notin {"solved", "no_solution"} /\ pc' = "solved"
        /\ index' = index
    BY <1>2 DEF ReturnSolution, Quiescent
  <2>2. /\ Verdict = "pending" /\ Verdict' = "solved"
        /\ Result' = ExtractSolution(ps')
    BY <2>1 DEF Verdict, Result
  <2>3. Valid(index, ExtractSolution(ps')) /\ SelfFree(index')
    BY <2>1 DEF SolutionSound
  <2>4. /\ ExtractSolution(ps') \in Assignments
        /\ Needed(index, ExtractSolution(ps'))
    BY <2>1, <2>3 DEF PromiseInv, Answered, SolutionNeeded
  <2> QED BY <2>1, <2>2, <2>3, <2>4, PromiseWords
          DEF Promise!Next, Promise!Answer
<1>3. CASE ReportNoSolution
  <2>1. /\ pc = "analyse" /\ pc' = "no_solution" /\ index' = index
    BY <1>3 DEF ReportNoSolution
  <2>2. ~Solvable(index)
    BY <1>3, ReportNoSolutionCertain DEF PromiseInv, SoundInv, CertainInv
  <2> QED BY <2>1, <2>2, PromiseWords
          DEF Verdict, Result, Promise!Next, Promise!Refuse
<1>4. CASE ~ReturnSolution /\ ~ReportNoSolution /\ ~(UNCHANGED vars)
  BY <1>4, Endings DEF Verdict, Result, Promise!vars
<1> QED BY <1>1, <1>2, <1>3, <1>4

\* The search begins as the promise does.
LEMMA PromiseInit == Init => Promise!Init
BY PromiseWords DEF Init, Promise!Init, Verdict, Result

\* For every index in which no version depends on its own package: while every
\* dependency has a watch on the package that depends when it is registered,
\* the solver implements module Resolution.  It answers or refuses once and keeps to what it said; it
\* refuses only what has no solution; its answer is valid, and has nothing
\* that is unneeded.
THEOREM KeepsPromise ==
    Spec /\ [](SelfFree(index) /\ DependentWatched) => ImplementsResolution
<1>1. /\ PromiseInv /\ PromiseInv' /\ [Next]_vars
      /\ SelfFree(index) /\ SolutionSound'
      => [Promise!Next]_(Promise!vars)
  BY PromiseStep
<1> QED BY PromiseInvariance, PromiseInit, ResolutionsValid, <1>1, PTL
        DEF Spec, ImplementsResolution, Promise!Spec
=============================================================================
