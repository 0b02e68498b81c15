---------------------------- MODULE IndexRouter ----------------------------
(***************************************************************************)
(* Which packages a named index may serve: crates/vyp-core/src/            *)
(* index_router.rs.  A router is a record of three memberships that only   *)
(* grow; names are normalised, so a package is one value.                  *)
(***************************************************************************)
CONSTANTS
    Package,
    Named       \* the indexes that are scoped

Router == [seeds: [Named -> SUBSET Package], scopes: [Named -> SUBSET Package],
           default: SUBSET Package]

NewRouter == [seeds |-> [i \in Named |-> {}], scopes |-> [i \in Named |-> {}],
              default |-> {}]

\* seed_index, of every index at once: roots[i] are the roots of i.
SeedIndexes(r, roots) ==
    [r EXCEPT !.seeds = [i \in Named |-> @[i] \cup roots[i]],
              !.scopes = [i \in Named |-> @[i] \cup roots[i]]]

SeedDefault(r, roots) == [r EXCEPT !.default = @ \cup roots]

\* Mutant of Propagate: the parent's own membership is not asked for.
PropagateAll(r, parent, deps) ==
    [r EXCEPT !.scopes = [i \in Named |-> @[i] \cup deps],
              !.default = IF parent \in @ THEN @ \cup deps ELSE @]

\* Every membership the parent has, its dependencies get.
Propagate(r, parent, deps) ==
    [r EXCEPT !.scopes = [i \in Named |->
                 IF parent \in r.scopes[i] THEN @[i] \cup deps ELSE @[i]],
              !.default = IF parent \in @ THEN @ \cup deps ELSE @]

\* The roots of an index are authoritative; else the default index wins.
RoutesTo(r, i, p) ==
    \/ p \in r.seeds[i]
    \/ p \in r.scopes[i] /\ p \notin r.default

\* What edges, a set of pairs of packages, reach from a set of roots.
ClosedUnder(members, edges) ==
    \A e \in edges : e[1] \in members => e[2] \in members

Reach(roots, edges) ==
    {p \in Package : \A members \in SUBSET Package :
        roots \subseteq members /\ ClosedUnder(members, edges)
            => p \in members}
=============================================================================
