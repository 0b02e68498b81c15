------------------------------ MODULE Versions ------------------------------
(***************************************************************************)
(* The version numbers of crates/vyp-api/src/types/version.rs and their    *)
(* order.  A version is compared field by field: epoch, release padded     *)
(* with zeros, pre-release, post-release, dev-release, local version.      *)
(***************************************************************************)
EXTENDS Integers, Sequences

CONSTANTS
    None,       \* a part that a version does not have
    MaxU32,     \* the greatest u32
    MaxText     \* places of local segments in the lexicographic order

\* A segment of a local version: its number when it parses as one, and its
\* place among all segments in the order of strings.
LocalSegment == [number: Nat \cup {None}, text: 0..MaxText]

\* The kinds are alpha, beta and rc, in this order.
PreRelease == [kind: 0..2, number: 0..MaxU32]

VypVersion ==
    [epoch: 0..MaxU32, release: Seq(0..MaxU32) \ {<<>>},
     pre: PreRelease \cup {None}, post: (0..MaxU32) \cup {None},
     dev: (0..MaxU32) \cup {None}, local: Seq(LocalSegment)]

ASSUME VersionsAssumption ==
    /\ MaxU32 \in Nat /\ MaxText \in Nat
    /\ None \notin Nat /\ None \notin PreRelease

\* VypVersion::new
FinalVersion(release) ==
    [epoch |-> 0, release |-> release, pre |-> None, post |-> None,
     dev |-> None, local |-> <<>>]

IsPreRelease(v) == v.pre # None \/ v.dev # None

IsLocal(v) == v.local # <<>>

WithoutLocal(v) == [v EXCEPT !.local = <<>>]

WithDev(v, n) == [v EXCEPT !.dev = n]

WithPostMax(v) == [v EXCEPT !.post = MaxU32]

\* "zzzzzzzz", after the segments of a real version
WithLocalMax(v) ==
    [v EXCEPT !.local = <<[number |-> None, text |-> MaxText]>>]

\* One more, as a release build adds.
Wrapping(n) == (n + 1) % (MaxU32 + 1)

\* The release after all that start with this one.
BumpLast(release) == [release EXCEPT ![Len(release)] = Wrapping(@)]

-----------------------------------------------------------------------------
(* The order.                                                              *)

\* release_tuple: missing segments are zero.
Segment(v, i) == IF i \in DOMAIN v.release THEN v.release[i] ELSE 0

\* cmp_pre: alpha, beta, rc, and then no pre-release.
PreKey(pre) == IF pre = None THEN <<3, 0>> ELSE <<pre.kind, pre.number>>

\* Option<u32>: None comes first.
PostKey(post) == IF post = None THEN 0 ELSE post + 1

\* cmp_dev: None comes last.
DevKey(dev) == IF dev = None THEN MaxU32 + 1 ELSE dev

\* What the public order compares, one number after the other.
PublicKey(v, len) ==
    <<v.epoch>> \o [i \in 1..len |-> Segment(v, i)] \o PreKey(v.pre)
                \o <<PostKey(v.post), DevKey(v.dev)>>

\* The first position at which two keys of one length differ decides.
KeyLess(a, b) ==
    \E i \in DOMAIN a : a[i] < b[i] /\ \A j \in 1..(i - 1) : a[j] = b[j]

Longest(a, b) == IF Len(a) < Len(b) THEN Len(b) ELSE Len(a)

PublicLess(v, w) ==
    LET len == Longest(v.release, w.release)
    IN  KeyLess(PublicKey(v, len), PublicKey(w, len))

PublicEqual(v, w) ==
    LET len == Longest(v.release, w.release)
    IN  PublicKey(v, len) = PublicKey(w, len)

\* Segments compare as numbers when both are, else as strings.
Numeric(s, t) == s.number # None /\ t.number # None

SegmentLess(s, t) ==
    IF Numeric(s, t) THEN s.number < t.number ELSE s.text < t.text

SegmentEqual(s, t) ==
    IF Numeric(s, t) THEN s.number = t.number ELSE s.text = t.text

\* cmp_local: no local version before any, fewer segments before more.
LocalLess(a, b) ==
    LET Agree(n) == \A j \in 1..n : SegmentEqual(a[j], b[j])
    IN  \/ \E i \in DOMAIN a \cap DOMAIN b :
              SegmentLess(a[i], b[i]) /\ Agree(i - 1)
        \/ Len(a) < Len(b) /\ Agree(Len(a))

\* Ord::cmp
Less(v, w) ==
    \/ PublicLess(v, w)
    \/ PublicEqual(v, w) /\ LocalLess(v.local, w.local)

AtMost(v, w) == ~Less(w, v)

\* PartialEq::eq, which compares local versions as they are written.
Equal(v, w) == PublicEqual(v, w) /\ v.local = w.local
=============================================================================
