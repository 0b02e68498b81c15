---------------------------- MODULE MCSolverWide ----------------------------
(***************************************************************************)
(* Universes in which three packages the project requires compete for a    *)
(* fourth, so that conflicts have several causes, learned incompatibilities*)
(* have three terms and their watches move, and backjumps skip levels.     *)
(*                                                                         *)
(* Of the six points of the version line 1, 3 and 5 are offered; 2, 4 and  *)
(* 6 stand for the gaps between and above them.                            *)
(***************************************************************************)
EXTENDS SolverProperties

MCPackage == {"root", "a", "b", "c", "d"}
MCVersion == 1..6
MCRootVersion == 1

AnyVersion == 1..6
Upper == 3..6               \* >= 3
Lower == 1..4               \* < 5
Outer == {1, 2, 5, 6}       \* != 3.*
Bottom == {1, 2}            \* < 3
Top == {5, 6}               \* >= 5

On(q, range) == <<[package |-> q, range |-> range]>>

\* Version 5 requires new, version 1 requires old.
Requires(new, old) ==
    [v \in MCVersion |-> CASE v = 5 -> new [] v = 1 -> old [] OTHER -> <<>>]

Roots == On("a", AnyVersion) \o On("b", AnyVersion) \o On("c", AnyVersion)

Contest(a, b, c) ==
    [offers |-> [q \in MCPackage |-> CASE q = "root" -> <<1>>
                                       [] q = "d" -> <<5, 3, 1>>
                                       [] OTHER -> <<5, 1>>],
     deps |-> [root |-> Requires(<<>>, Roots), a |-> a, b |-> b, c |-> c,
               d |-> Requires(<<>>, <<>>)]]

\* Any two of the versions 5 of a, b and c agree on d, the three do not.
Triple(oldA, oldB, oldC) ==
    Contest(Requires(On("d", Upper), oldA), Requires(On("d", Lower), oldB),
            Requires(On("d", Outer), oldC))

MCContended ==
    {Triple(On("d", Lower), On("c", Lower), On("b", Upper)),
     Triple(On("d", Bottom), On("d", Lower), On("b", Top)),
     Triple(On("c", Upper), On("d", Lower) \o On("a", Outer), <<>>),
     Contest(Requires(On("b", Upper), On("d", Upper)),
             Requires(On("a", Upper), <<>>),
             Requires(On("b", Bottom), On("a", Bottom) \o On("d", Lower))),
     Contest(Requires(On("c", Outer), On("d", Lower) \o On("d", Bottom)),
             Requires(On("d", Outer), <<>>),
             Requires(On("d", Bottom), On("d", Bottom))),
     Contest(Requires(On("c", Bottom), On("d", Top)),
             Requires(On("d", Lower), On("a", Lower)),
             Requires(On("d", Upper), On("d", Lower)))}
=============================================================================
