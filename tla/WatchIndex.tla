----------------------------- MODULE WatchIndex -----------------------------
(***************************************************************************)
(* The two-watched-literals index of the solver (the fields watches,       *)
(* watched and learned_watched of SolverState in                           *)
(* crates/vyp-resolver/src/solver.rs) as a value: which incompatibilities  *)
(* each package re-examines, which two packages each incompatibility       *)
(* watches, and the learned incompatibilities that still have watches.     *)
(***************************************************************************)
EXTENDS Incompatibilities

CONSTANTS
    MaxLearnedWatched   \* MAX_LEARNED_WATCHED, 10 000 in the source

ASSUME MaxLearnedAssumption == MaxLearnedWatched \in Nat

WatchIndex ==
    [lists: [Package -> Seq(Nat)], watched: Seq(Package \X Package),
     learned: Seq(Nat)]

EmptyIndex ==
    [lists |-> [q \in Package |-> <<>>], watched |-> <<>>, learned |-> <<>>]

\* Vec::swap_remove at the first position of id: the last takes its place.
SwapRemove(s, id) ==
    LET i == SelectInSeq(s, LAMBDA e : e = id)
    IN  IF i = 0 THEN s ELSE Front([s EXCEPT ![i] = Last(s)])

AddWatch(lists, pkg, id) == [lists EXCEPT ![pkg] = Append(@, id)]

RemoveWatch(lists, pkg, id) == [lists EXCEPT ![pkg] = SwapRemove(@, id)]

\* Mutants of WatchPair and UnwatchPair: only the first of the two.
WatchFirst(lists, pair, id) == AddWatch(lists, pair[1], id)

UnwatchFirst(lists, pair, id) == RemoveWatch(lists, pair[1], id)

\* Both watches of id; a pair of one package has a single entry.
WatchPair(lists, pair, id) ==
    LET one == AddWatch(lists, pair[1], id)
    IN  IF pair[2] = pair[1] THEN one ELSE AddWatch(one, pair[2], id)

UnwatchPair(lists, pair, id) ==
    LET one == RemoveWatch(lists, pair[1], id)
    IN  IF pair[2] = pair[1] THEN one ELSE RemoveWatch(one, pair[2], id)

SetWatches(index, id, a, b) ==
    LET old == index.watched[id]
    IN  IF old \in {<<a, b>>, <<b, a>>} THEN index
        ELSE [index EXCEPT
                 !.lists = WatchPair(UnwatchPair(@, old, id), <<a, b>>, id),
                 !.watched[id] = <<a, b>>]

\* ensure_watched keeps the first of the old watches and drops the second.
EnsureWatched(index, id, pkg) ==
    LET old == index.watched[id]
    IN  IF pkg \in {old[1], old[2]} THEN index
        ELSE SetWatches(index, id, pkg, old[1])

\* gc_learned_watches.  It runs after every registration of a learned
\* incompatibility, so that its loop makes at most one turn.
GcLearnedWatches(index) ==
    IF Len(index.learned) <= MaxLearnedWatched THEN index
    ELSE LET id == Head(index.learned)
         IN  [index EXCEPT
                 !.lists = UnwatchPair(@, index.watched[id], id),
                 !.learned = Tail(@)]

\* The part of register_incompatibility that concerns the index.
RegisterWatches(index, id, pair, isDerived) ==
    LET new == [index EXCEPT !.lists = WatchPair(@, pair, id),
                             !.watched = Append(@, pair)]
    IN  IF isDerived
        THEN GcLearnedWatches([new EXCEPT !.learned = Append(@, id)])
        ELSE new
=============================================================================
