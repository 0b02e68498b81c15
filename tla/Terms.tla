------------------------------- MODULE Terms -------------------------------
(***************************************************************************)
(* The terms of the PubGrub solver (crates/vyp-resolver/src/solver.rs).    *)
(* A term speaks about one package: Positive(S) says "a version of S is    *)
(* selected", Negative(S) says "no version of S is selected", which also   *)
(* holds when the package is not selected at all.                          *)
(*                                                                         *)
(* The source represents S as Ranges<VypVersion>, a canonical union of     *)
(* intervals.  Here S is a set of versions.  Version contains, besides the *)
(* versions an index offers, members that stand for the gaps between them, *)
(* so that two ranges that differ in the source differ here as well.       *)
(***************************************************************************)
EXTENDS Packages

Term == [pos: BOOLEAN, set: SUBSET Version]

Positive(S) == [pos |-> TRUE, set |-> S]
Negative(S) == [pos |-> FALSE, set |-> S]

\* Term::any: satisfied by every assignment.
AnyTerm == Negative({})

Negate(t) == [pos |-> ~t.pos, set |-> t.set]

\* Term::intersection, by the four cases of its match.
Intersection(a, b) ==
    IF a.pos
    THEN IF b.pos THEN Positive(a.set \cap b.set) ELSE Positive(a.set \ b.set)
    ELSE IF b.pos THEN Positive(b.set \ a.set) ELSE Negative(a.set \cup b.set)

\* Term::union.
Union(a, b) ==
    IF a.pos
    THEN IF b.pos THEN Positive(a.set \cup b.set) ELSE Negative(b.set \ a.set)
    ELSE IF b.pos THEN Negative(a.set \ b.set) ELSE Negative(a.set \cap b.set)

\* Term::is_disjoint.
IsDisjoint(a, b) ==
    IF a.pos
    THEN IF b.pos THEN a.set \cap b.set = {} ELSE a.set \subseteq b.set
    ELSE b.pos /\ b.set \subseteq a.set

\* Term::subset_of: every assignment that satisfies a satisfies b.
SubsetOf(a, b) ==
    IF a.pos
    THEN IF b.pos THEN a.set \subseteq b.set ELSE a.set \cap b.set = {}
    ELSE ~b.pos /\ b.set \subseteq a.set

\* Term::relation_with.
RelationWith(a, b) ==
    IF SubsetOf(a, b) THEN "satisfied"
    ELSE IF IsDisjoint(a, b) THEN "contradicted" ELSE "inconclusive"

IsAnyTerm(t) == ~t.pos /\ t.set = {}

-----------------------------------------------------------------------------
\* The meaning of a term: the choices that satisfy it.
Allows(t) == IF t.pos THEN t.set ELSE Choice \ t.set
=============================================================================
