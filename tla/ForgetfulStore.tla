--------------------------- MODULE ForgetfulStore ---------------------------
(***************************************************************************)
(* What the metadata cache promises: a map that may forget anything at any *)
(* time, and that answers a question with what was last stored or not at   *)
(* all.                                                                    *)
(***************************************************************************)
CONSTANTS Key, Value, None

VARIABLES held, answer

vars == <<held, answer>>

NoAnswer == [key |-> None, value |-> None]

Init == /\ held = [k \in Key |-> None]
        /\ answer = NoAnswer

\* Everything but kept keys may go while something else happens.
Forgets(new, changed) ==
    \A k \in Key \ changed : new[k] \in {held[k], None}

Forget ==
    /\ held' \in [Key -> Value \cup {None}]
    /\ Forgets(held', {})
    /\ answer' = NoAnswer

Store(k, v) ==
    /\ held' \in [Key -> Value \cup {None}]
    /\ held'[k] \in {v, None}
    /\ Forgets(held', {k})
    /\ answer' = NoAnswer

Ask(k) ==
    /\ answer' \in {[key |-> k, value |-> v] : v \in {held[k], None}}
    /\ held' \in [Key -> Value \cup {None}]
    /\ Forgets(held', {})

Next == \/ Forget
        \/ \E k \in Key : \/ Ask(k)
                          \/ \E v \in Value : Store(k, v)

Spec == Init /\ [][Next]_vars
=============================================================================
