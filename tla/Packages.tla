------------------------------ MODULE Packages ------------------------------
(***************************************************************************)
(* Package indexes and what it means to resolve against one.  An index     *)
(* offers versions of packages and the dependencies of each version.  A    *)
(* valid assignment gives the project its version, selects at most one     *)
(* offered version of every other package, and satisfies every dependency  *)
(* of what it selects.  Valid is the oracle of                             *)
(* crates/vyp-core/tests/solver_property.rs (assignment_valid).            *)
(***************************************************************************)
EXTENDS Integers, Sequences, SequencesExt

CONSTANTS
    Package,        \* the packages of the universe, the project included
    Root,           \* the project itself (VypPackage::Root)
    RootVersion,    \* the version the resolver gives the project
    Version,        \* the points of the version line that ranges tell apart
    None,           \* the value of a package that is not selected
    Indexes         \* the package indexes to resolve against

\* What a package can be in a finished resolution: one version, or absent.
Choice == Version \cup {None}

\* Nothing depends on the project: VypPackage::Root is made by resolve alone.
Dependency == [package: Package \ {Root}, range: SUBSET Version]

\* offers[p] is the list get_versions returns, in the order of preference;
\* deps[p][v] are the requirements of version v, in the order of the metadata.
PackageIndex ==
    [offers: [Package -> Seq(Version)],
     deps: [Package -> [Version -> Seq(Dependency)]]]

ASSUME PackagesAssumption ==
    /\ Root \in Package
    /\ RootVersion \in Version
    /\ None \notin Version
    /\ Indexes \subseteq PackageIndex

Requirements(idx, pkg, version) == idx.deps[pkg][version]

Assignments == [Package -> Choice]

Nothing == [q \in Package |-> None]

Selected(s) == {q \in Package : s[q] # None}

DependenciesOf(idx, s, q) == ToSet(Requirements(idx, q, s[q]))

Valid(idx, s) ==
    /\ s[Root] = RootVersion
    /\ \A q \in Selected(s) \ {Root} : s[q] \in ToSet(idx.offers[q])
    /\ \A q \in Selected(s) : \A d \in DependenciesOf(idx, s, q) :
          s[d.package] \in d.range

\* Every group of selected packages is there because something outside of
\* the group, in the end the project, depends on one of them.
Needed(idx, s) ==
    \A group \in SUBSET (Selected(s) \ {Root}) :
        group # {} => \E q \in Selected(s) \ group :
                         \E d \in DependenciesOf(idx, s, q) : d.package \in group

Solvable(idx) == \E s \in Assignments : Valid(idx, s)
=============================================================================
