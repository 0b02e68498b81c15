---------------------------- MODULE Requirements ----------------------------
(***************************************************************************)
(* What a version constraint admits, decided twice by the code: by the     *)
(* ranges the solver works with (crates/vyp-resolver/src/provider.rs) and  *)
(* by VersionConstraint::satisfied_by                                      *)
(* (crates/vyp-api/src/types/requirement.rs), which Requires-Python uses.  *)
(***************************************************************************)
EXTENDS Versions

ComparisonOp ==
    {"==", "!=", ">=", "<=", ">", "<", "~=", "===", "==*", "!=*"}

VersionConstraint == [op: ComparisonOp, version: VypVersion]

\* The release that bounds ~=X.Y: the one after all that start with X.
CompatibleBound(version) ==
    FinalVersion(BumpLast(SubSeq(version.release, 1, Len(version.release) - 1)))

HasSeries(version) == Len(version.release) >= 2

-----------------------------------------------------------------------------
(* requirements_to_range.                                                  *)

\* A plain bound is moved out to the versions that belong to it.
Plain(version) == version.dev = None /\ ~IsLocal(version)

\* The versions in the series of a wildcard, from its first dev release to
\* that of the next.
InSeries(c, v) ==
    /\ AtMost(WithDev(c.version, 0), v)
    /\ Less(v, WithDev(FinalVersion(BumpLast(c.version.release)), 0))

\* The set the solver intersects: what is in it is decided by the order.
InRange(c, v) ==
    CASE c.op \in {"==", "==="} -> ~Less(v, c.version) /\ ~Less(c.version, v)
      [] c.op = "!=" -> Less(v, c.version) \/ Less(c.version, v)
      [] c.op = ">=" -> AtMost(c.version, v)
      [] c.op = "<=" -> AtMost(v, WithLocalMax(c.version))
      [] c.op = ">" ->
            Less(IF Plain(c.version) /\ c.version.post = None
                 THEN WithPostMax(c.version) ELSE c.version, v)
      [] c.op = "<" ->
            Less(v, IF Plain(c.version) /\ c.version.pre = None
                    THEN WithDev(c.version, 0) ELSE c.version)
      [] c.op = "~=" ->
            /\ AtMost(c.version, v)
            /\ HasSeries(c.version) => Less(v, CompatibleBound(c.version))
      [] c.op = "==*" -> InSeries(c, v)
      [] c.op = "!=*" -> ~InSeries(c, v)

InRanges(constraints, v) == \A c \in constraints : InRange(c, v)

-----------------------------------------------------------------------------
(* VersionConstraint::satisfied_by.                                        *)

\* == without a local version matches every local version of its public one.
Matches(c, v) ==
    Equal(IF IsLocal(c.version) THEN v ELSE WithoutLocal(v), c.version)

StartsWith(c, v) ==
    /\ Len(v.release) >= Len(c.version.release)
    /\ SubSeq(v.release, 1, Len(c.version.release)) = c.version.release

SatisfiedBy(c, v) ==
    CASE c.op = "==" -> Matches(c, v)
      [] c.op = "!=" -> ~Matches(c, v)
      [] c.op = ">=" -> AtMost(c.version, v)
      [] c.op = "<=" -> AtMost(v, c.version)
      [] c.op = ">" -> Less(c.version, v)
      [] c.op = "<" -> Less(v, c.version)
      [] c.op = "~=" ->
            /\ AtMost(c.version, v)
            /\ HasSeries(c.version) => Less(v, CompatibleBound(c.version))
      [] c.op = "===" -> v = c.version
      [] c.op = "==*" -> StartsWith(c, v)
      [] c.op = "!=*" -> ~StartsWith(c, v)

\* Requirement::satisfied_by
SatisfiedByAll(constraints, v) == \A c \in constraints : SatisfiedBy(c, v)
=============================================================================
