------------------------------ MODULE MCSolver ------------------------------
(***************************************************************************)
(* Small universes of packages for the solver.                             *)
(*                                                                         *)
(* The version line has four points.  Versions 1 and 3 are offered; 2 and  *)
(* 4 stand for everything between and above them, so that a bound like "<" *)
(* or ">=" is never the same range as an exact version.                    *)
(***************************************************************************)
EXTENDS SolverProperties

MCPackage == {"root", "a", "b", "c"}
MCVersion == 1..4
MCRootVersion == 1

AnyVersion == 1..4
Low == {1, 2}
High == {3, 4}
Missing == {4}      \* in no offered version
Empty == {}         \* contradictory bounds

Offered == {1, 3}
HighestFirst == <<3, 1>>
LowestFirst == <<1, 3>>

On(q, range) == [package |-> q, range |-> range]

\* The ways in which the offered versions of one package may depend: not at
\* all, or on one of targets with one of ranges, each version on its own.
NoDeps == [v \in MCVersion |-> <<>>]

Deps(targets, ranges) ==
    {[v \in MCVersion |-> IF v \in Offered THEN f[v] ELSE <<>>] :
        f \in [Offered -> {<<>>} \cup {<<On(q, r)>> : q \in targets, r \in ranges}]}

\* The index in which the project requires roots, package q offers offers[q]
\* and its version v requires deps[q][v].
Universe(offers, roots, depsA, depsB, depsC) ==
    [offers |-> [q \in MCPackage |-> IF q = "root" THEN <<1>> ELSE offers[q]],
     deps |-> [q \in MCPackage |->
                 CASE q = "root" -> [v \in MCVersion |->
                                        IF v = MCRootVersion THEN roots ELSE <<>>]
                   [] q = "a" -> depsA
                   [] q = "b" -> depsB
                   [] q = "c" -> depsC]]

All(list) == [q \in MCPackage |-> list]

\* Every version of a and b may depend on one other package, cycles included,
\* with a lower or an upper bound.
MCBounded ==
    {Universe(All(HighestFirst), <<On("a", AnyVersion), On("b", AnyVersion)>>,
              depsA, depsB, NoDeps) :
        depsA \in Deps({"b", "c"}, {Low, High}),
        depsB \in Deps({"a", "c"}, {Low, High})}

\* A chain from a over b to c with a way back, under all the shapes of the
\* project's requirements and of the lists of versions: contradictory,
\* repeated and unsatisfiable requirements, packages the index lacks or has in
\* one version, lowest version first.
MCShapes ==
    {Universe(offers, roots, depsA, depsB, NoDeps) :
        offers \in {All(HighestFirst), All(LowestFirst), All(<<>>),
                    [All(HighestFirst) EXCEPT !["b"] = <<1>>],
                    [All(HighestFirst) EXCEPT !["c"] = <<>>]},
        roots \in {<<>>, <<On("a", Low), On("a", High)>>, <<On("a", Empty)>>,
                   <<On("a", High), On("b", Missing)>>,
                   <<On("c", Low), On("a", AnyVersion)>>},
        depsA \in Deps({"b"}, {High, Empty}),
        depsB \in Deps({"a", "c"}, {High})}

\* Exact requirements on both sides of a bound.
MCPinned ==
    {Universe(All(HighestFirst), <<On("b", r), On("a", s)>>,
              depsA, NoDeps, NoDeps) :
        r \in {{1}, {3}}, s \in {{1}, {3}}, depsA \in Deps({"b"}, {Low, High})}

\* Whatever the solver is expected to answer rightly.
MCOrdinary == MCBounded \cup MCShapes
=============================================================================
