-------------------------- MODULE Incompatibilities -------------------------
(***************************************************************************)
(* Incompatibilities of the solver (crates/vyp-resolver/src/solver.rs): a  *)
(* set of terms, one per package, that must not all hold together.  The    *)
(* BTreeMap<PackageId, Term> of the source is a function whose domain is   *)
(* the set of packages the incompatibility mentions.                       *)
(***************************************************************************)
EXTENDS Terms

Kind == {"root", "no_versions", "dependency", "derived"}

\* The packages an incompatibility does not mention are free.
IsIncompatibility(inc) ==
    /\ DOMAIN inc.terms \subseteq Package
    /\ inc \in [terms: [DOMAIN inc.terms -> Term], kind: Kind]

NotRoot ==
    [terms |-> [q \in {Root} |-> Negative({RootVersion})], kind |-> "root"]

\* Mutant of NoVersions: no version at all, instead of none in the range.
NoVersionsAtAll(pkg, range) ==
    [terms |-> [q \in {pkg} |-> Positive(Version)], kind |-> "no_versions"]

NoVersions(pkg, range) ==
    [terms |-> [q \in {pkg} |-> Positive(range)], kind |-> "no_versions"]

\* from_dependency inserts the term of the dependency last: for a package
\* that depends on itself it replaces the term of the depending version.
FromDependency(pkg, version, dep, range) ==
    [terms |-> [q \in {pkg, dep} |->
                   IF q = dep THEN Negative(range) ELSE Positive({version})],
     kind |-> "dependency"]

IsTerminal(inc) == DOMAIN inc.terms \subseteq {Root}

\* Mutants of PriorCause: the pivot treated like every other package, and the
\* pivot always left out.
PriorCauseIntersecting(a, b, pivot) ==
    LET merged(q) ==
            IF q \notin DOMAIN b.terms THEN a.terms[q]
            ELSE IF q \notin DOMAIN a.terms THEN b.terms[q]
            ELSE Intersection(a.terms[q], b.terms[q])
    IN  [terms |-> [q \in DOMAIN a.terms \cup DOMAIN b.terms |-> merged(q)],
         kind |-> "derived"]

PriorCauseDroppingPivot(a, b, pivot) ==
    LET all == PriorCauseIntersecting(a, b, pivot).terms
    IN  [terms |-> [q \in DOMAIN all \ {pivot} |-> all[q]], kind |-> "derived"]

\* The rule of resolution.  A package both sides mention gets the
\* intersection of its terms, the pivot their union; a pivot term that has
\* become AnyTerm says nothing and is left out.
PriorCause(a, b, pivot) ==
    LET merged(q) ==
            IF q \notin DOMAIN b.terms THEN a.terms[q]
            ELSE IF q \notin DOMAIN a.terms THEN b.terms[q]
            ELSE IF q = pivot THEN Union(a.terms[q], b.terms[q])
            ELSE Intersection(a.terms[q], b.terms[q])
        kept == {q \in DOMAIN a.terms \cup DOMAIN b.terms :
                    q # pivot \/ ~IsAnyTerm(merged(q))}
    IN  [terms |-> [q \in kept |-> merged(q)], kind |-> "derived"]

-----------------------------------------------------------------------------
\* An assignment of choices to packages violates inc when it satisfies all
\* of its terms.
Violates(assignment, inc) ==
    \A q \in DOMAIN inc.terms : assignment[q] \in Allows(inc.terms[q])
=============================================================================
