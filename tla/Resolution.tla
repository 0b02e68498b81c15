----------------------------- MODULE Resolution -----------------------------
(***************************************************************************)
(* What dependency resolution promises, with no solver in it: the resolver *)
(* answers with a valid assignment that selects nothing unneeded, or says  *)
(* that there is no solution, and says that only when it is so.            *)
(***************************************************************************)
EXTENDS Packages

VARIABLES
    index,      \* the package index of this resolution
    verdict,    \* "pending", "solved" or "no_solution"
    solution    \* the choice for each package

vars == <<index, verdict, solution>>

Init ==
    /\ index \in Indexes
    /\ verdict = "pending"
    /\ solution = Nothing

Answer ==
    /\ verdict = "pending" /\ verdict' = "solved"
    /\ solution' \in Assignments
    /\ Valid(index, solution') /\ Needed(index, solution')
    /\ UNCHANGED index

Refuse ==
    /\ verdict = "pending" /\ verdict' = "no_solution"
    /\ ~Solvable(index)
    /\ UNCHANGED <<index, solution>>

Next == Answer \/ Refuse

Spec == Init /\ [][Next]_vars
=============================================================================
