--------------------------- MODULE FetchingProofs ---------------------------
(***************************************************************************)
(* What holds of Fetching for any number of indexes, packages, requests,   *)
(* environments of a process, and processes one after another.             *)
(*                                                                         *)
(* A slot is filled once: the bond between slots and tasks (Inv), whoever  *)
(* has a slot to fill finds it pending, and is alone.  Every variable      *)
(* keeps its shape and no provider exceeds its permits: an edition that is *)
(* anywhere is one its index has published by then (Types), and a task     *)
(* that starts to send found a permit free (WithinPermits).  No            *)
(* dependencies are reported only for a reason: the provider that answered *)
(* for the versions of a package was asked for the metadata too, after its *)
(* list was there (Known).  No list on disk goes back during the first     *)
(* environment of a process: what is written is what its index gave as its *)
(* answer (FileInv), and that is not older than what is on disk; only the  *)
(* tasks of that environment write (Begun).                                *)
(***************************************************************************)
EXTENDS FetchingProperties, SequenceLemmas

\* The slots of every provider are there, for every package and version.
Slotted ==
    /\ runs \in Nat
    /\ DOMAIN versions = Provider /\ DOMAIN metadata = Provider
    /\ \A i \in Provider : DOMAIN versions[i] = Package /\ DOMAIN metadata[i] = Key

\* The fields of a task the argument is about.
LookupShape(t) ==
    "pc" \in DOMAIN t /\ t.provider \in Provider /\ t.package \in Package

DownloadShape(t) == "pc" \in DOMAIN t /\ t.provider \in Provider

\* A task that has still to fill a slot finds it pending.
LookupsWait ==
    \A t \in lookups : /\ LookupShape(t)
                       /\ t.pc # "claiming" =>
                             versions[t.provider][t.package] = Pending

\* No two tasks have the same slot to fill.
LookupsApart ==
    \A t, u \in lookups :
        /\ t.pc # "claiming" /\ u.pc # "claiming"
        /\ t.provider = u.provider /\ t.package = u.package
        => t = u

DownloadsWait ==
    \A t \in downloads : /\ DownloadShape(t)
                         /\ t.key \in Key => metadata[t.provider][t.key] = Pending

DownloadsApart ==
    \A t, u \in downloads :
        t.provider = u.provider /\ t.key = u.key /\ t.key \in Key => t = u

Inv == Slotted /\ LookupsWait /\ LookupsApart /\ DownloadsWait /\ DownloadsApart

\* What SlotsFilledOnce says of one step.
SlotsKept ==
    runs' = runs =>
        \A i \in Provider :
            /\ \A p \in Package : versions[i][p] \notin {None, Pending} =>
                  versions'[i][p] = versions[i][p]
            /\ \A k \in Key : metadata[i][k] \notin {None, Pending} =>
                  metadata'[i][k] = metadata[i][k]

-----------------------------------------------------------------------------
LEMMA NoneIsNotPending == None # Pending
  BY MarksAssumption

\* The driver asks the providers of an environment of the process.
Queue ==
    /\ environment \in 1..MaxEnvironments
    /\ "asked" \in DOMAIN driver
    /\ driver.asked \in Seq(Index)

\* A step that begins no environment leaves the bounds' counters of them.
LEMMA RunsKept ==
    ASSUME [Next]_vars, ~Restart, ~NextEnvironment
    PROVE  runs' = runs /\ environment' = environment
  BY DEF Next, DriverStep, TaskStep, LookupStep, DownloadStep, Prefetch, UsePin,
         AskVersions, Expire, AskMetadata, Publish, TakeVersions,
         AskNextForVersions, StartDownload, TakeMetadata, AskNextForMetadata,
         AnswerFromDisk, MissDisk, QueueLookup, SendLookup, RetryLookup,
         FailLookup, NotModified, ReceiveList, ClaimCandidate, FinishLookup,
         AnswerAtOnce, QueueDownload, SendDownload, ReceiveMetadata,
         FailDownload, ReadForRefresh, WriteList, WriteMetadata, vars, bounds

LEMMA EnvironmentStep ==
    ASSUME [Next]_vars
    PROVE  \/ environment' = environment
           \/ environment' = 1
           \/ environment < MaxEnvironments /\ environment' = environment + 1
  BY RunsKept DEF Restart, NextEnvironment

LEMMA QueueInv == /\ Init => Queue
                  /\ Queue /\ [Next]_vars => Queue'
<1>1. Init => Queue
  BY FetchingAssumption DEF Init, Idle, Queue
<1>2. ASSUME Queue, [Next]_vars PROVE Queue'
  <2>0. environment' \in 1..MaxEnvironments
    BY <1>2, EnvironmentStep, FetchingAssumption DEF Queue
  <2>1. CASE UNCHANGED driver
    BY <1>2, <2>0, <2>1 DEF Queue
  <2>2. CASE AskNextForVersions \/ AskNextForMetadata
    BY <1>2, <2>0, <2>2 DEF Queue, AskNextForVersions, AskNextForMetadata
  <2>3. CASE TakeVersions \/ TakeMetadata
    <3>1. driver' = Idle
      BY <2>3 DEF TakeVersions, TakeMetadata
    <3>2. <<>> \in Seq(Index)
      OBVIOUS
    <3> QED BY <2>0, <3>1, <3>2 DEF Queue, Idle
  <2>4. CASE \E p \in Package : \/ AskVersions(p)
                                \/ \E v \in Version : AskMetadata(p, v)
    <3>1. PICK mode, p, v :
             driver' = [pc |-> mode, package |-> p, version |-> v,
                        asked |-> Priority]
      BY <2>4 DEF AskVersions, AskMetadata
    <3> QED BY <2>0, <3>1, FetchingAssumption DEF Queue
  <2>5. TaskStep => UNCHANGED driver
    BY DEF TaskStep, LookupStep, DownloadStep, AnswerFromDisk, MissDisk,
           QueueLookup, SendLookup, RetryLookup, FailLookup, NotModified,
           ReceiveList, ClaimCandidate, FinishLookup, AnswerAtOnce,
           QueueDownload, SendDownload, ReceiveMetadata, FailDownload
  <2>6. CASE ~(TakeVersions \/ TakeMetadata \/ AskNextForVersions
               \/ AskNextForMetadata
               \/ \E p \in Package : \/ AskVersions(p)
                                     \/ \E v \in Version : AskMetadata(p, v))
    <3>1. UNCHANGED driver
      BY <1>2, <2>5, <2>6
         DEF Next, DriverStep, Prefetch, UsePin, Expire, Publish,
             StartDownload, ReadForRefresh, WriteList, WriteMetadata,
             NextEnvironment, Restart, vars
    <3> QED BY <2>1, <3>1
  <2> QED BY <2>2, <2>3, <2>4, <2>6
<1> QED BY <1>1, <1>2

-----------------------------------------------------------------------------
(* Every step keeps the invariant and leaves what is in a slot there.      *)

LEMMA InitInv == Init => Inv
  BY DEF Init, Inv, Slotted, EmptySlots, LookupsWait, LookupsApart,
         DownloadsWait, DownloadsApart

\* The actions that leave slots and tasks alone.
LEMMA UntouchedInv ==
    ASSUME Inv, UNCHANGED <<runs, slots, tasks>>
    PROVE  Inv' /\ SlotsKept
  BY DEF Inv, Slotted, LookupsWait, LookupShape, LookupsApart, DownloadsWait,
         DownloadShape, DownloadsApart, slots, tasks, SlotsKept

LEMMA RestartInv == ASSUME Inv, Restart PROVE Inv' /\ SlotsKept
  BY DEF Inv, Restart, Slotted, EmptySlots, LookupsWait, LookupsApart,
         DownloadsWait, DownloadsApart, SlotsKept

\* The providers with a task keep their slots into the next environment.
LEMMA NextEnvironmentInv ==
    ASSUME Inv, NextEnvironment
    PROVE  Inv' /\ SlotsKept
<1>1. Slotted' /\ SlotsKept
  BY DEF Inv, Slotted, NextEnvironment, EmptySlots, SlotsKept
<1>2. UNCHANGED <<lookups, downloads>>
  BY DEF NextEnvironment, tasks
<1>3. \A t \in lookups \cup downloads : t.provider \in Provider =>
         /\ versions'[t.provider] = versions[t.provider]
         /\ metadata'[t.provider] = metadata[t.provider]
  BY DEF NextEnvironment, Dropped
<1>4. LookupsWait' /\ DownloadsWait'
  BY <1>2, <1>3 DEF Inv, LookupsWait, LookupShape, DownloadsWait, DownloadShape
<1>5. LookupsApart' /\ DownloadsApart'
  BY <1>2 DEF Inv, LookupsApart, DownloadsApart
<1> QED BY <1>1, <1>4, <1>5 DEF Inv

LEMMA PrefetchInv ==
    ASSUME Inv, Queue, NEW p \in Package, Prefetch(p)
    PROVE  Inv' /\ SlotsKept
<1>1. Slotted'
  BY DEF Inv, Slotted, Prefetch, slots, tasks, caches, bounds
<1>0. Unregistered(p) \subseteq Provider
  BY DEF Unregistered, Present, Queue, Provider
<1>2. LookupsWait'
  BY <1>0, NoneIsNotPending
     DEF Inv, Slotted, LookupsWait, LookupShape, Prefetch, Unregistered
<1>3. LookupsApart'
  BY NoneIsNotPending
     DEF Inv, Slotted, LookupsWait, LookupsApart, LookupShape, Prefetch,
         Unregistered
<1>4. DownloadsWait' /\ DownloadsApart'
  BY DEF Inv, DownloadsWait, DownloadShape, DownloadsApart, Prefetch
<1>5. SlotsKept
  BY DEF Inv, Slotted, SlotsKept, Prefetch, Unregistered
<1> QED BY <1>1, <1>2, <1>3, <1>4, <1>5 DEF Inv

LEMMA StartDownloadInv ==
    ASSUME Inv, Queue, StartDownload
    PROVE  Inv' /\ SlotsKept
<1>1. Slotted' /\ SlotsKept
  BY DEF Inv, Slotted, StartDownload, bounds, SlotsKept
<1>2. LookupsWait' /\ LookupsApart'
  BY DEF Inv, LookupsWait, LookupShape, LookupsApart, StartDownload
<1>3. Asking \in Provider
  BY DEF Queue, StartDownload, Allowed, Asking, Provider
<1>4. DownloadsWait'
  BY <1>3, NoneIsNotPending
     DEF Inv, Slotted, DownloadsWait, DownloadShape, StartDownload
<1>5. DownloadsApart'
  BY <1>3, NoneIsNotPending
     DEF Inv, Slotted, DownloadsWait, DownloadsApart, DownloadShape,
         StartDownload
<1> QED BY <1>1, <1>2, <1>4, <1>5 DEF Inv

\* A task that moves on without filling its slot.
LEMMA LookupMoves ==
    ASSUME Inv, NEW t \in lookups, t.pc # "claiming", NEW to, LookupShape(to),
           to.provider = t.provider, to.package = t.package,
           lookups' = Move(lookups, t, to),
           UNCHANGED <<runs, slots, downloads>>
    PROVE  Inv' /\ SlotsKept
<1>1. Slotted' /\ SlotsKept /\ DownloadsWait' /\ DownloadsApart'
  BY DEF Inv, Slotted, DownloadsWait, DownloadShape, DownloadsApart, slots,
         SlotsKept
<1>2. LookupsWait'
  BY DEF Inv, LookupsWait, LookupShape, Move, slots
<1>3. LookupsApart'
  BY DEF Inv, LookupsWait, LookupsApart, Move, slots
<1> QED BY <1>1, <1>2, <1>3 DEF Inv

\* A task that fills its slot and ends, or has nothing more to fill.
LEMMA LookupFills ==
    ASSUME Inv, NEW t \in lookups, t.pc # "claiming", NEW answer,
           versions' = [versions EXCEPT ![t.provider][t.package] = answer],
           NEW to, LookupShape(to), to.pc = "claiming",
           lookups' = lookups \ {t} \/ lookups' = Move(lookups, t, to),
           UNCHANGED <<runs, metadata, downloads>>
    PROVE  Inv' /\ SlotsKept
<1>1. Slotted' /\ SlotsKept /\ DownloadsWait' /\ DownloadsApart'
  BY DEF Inv, Slotted, LookupsWait, DownloadsWait, DownloadShape,
         DownloadsApart, SlotsKept
<1>2. LookupsWait'
  BY DEF Inv, Slotted, LookupsWait, LookupsApart, LookupShape, Move
<1>3. LookupsApart'
  BY DEF Inv, LookupsWait, LookupsApart, Move
<1> QED BY <1>1, <1>2, <1>3 DEF Inv

LEMMA ClaimInv ==
    ASSUME Inv, NEW t \in lookups, ClaimCandidate(t)
    PROVE  Inv' /\ SlotsKept
<1> DEFINE k == <<t.package, Head(t.claims)>>
           to == [t EXCEPT !.claims = Tail(@)]
<1>1. LookupShape(t) /\ LookupShape(to) /\ to.pc = "claiming"
  <2>1. LookupShape(t) /\ t.pc = "claiming"
    BY DEF Inv, LookupsWait, ClaimCandidate
  <2>2. PICK rest : rest = Tail(t.claims)
    OBVIOUS
  <2>3. to = [t EXCEPT !.claims = rest]
    BY <2>2
  <2> HIDE DEF to
  <2> QED BY <2>1, <2>3 DEF LookupShape
<1>2. lookups' = Move(lookups, t, to) /\ versions' = versions /\ runs' = runs
  BY DEF ClaimCandidate, bounds
<1>3. LookupsWait'
  BY <1>1, <1>2 DEF Inv, LookupsWait, Move, LookupShape
<1>4. LookupsApart'
  BY <1>1, <1>2 DEF Inv, LookupsApart, Move
<1>5. Slotted' /\ SlotsKept
  BY <1>1, <1>2 DEF Inv, Slotted, SlotsKept, ClaimCandidate
<1>6. DownloadsWait'
  <2>1. SUFFICES ASSUME NEW d \in downloads'
                 PROVE  /\ DownloadShape(d)
                        /\ d.key \in Key =>
                              metadata'[d.provider][d.key] = Pending
    BY DEF DownloadsWait
  <2>2. CASE d \in downloads
    <3>1. /\ DownloadShape(d)
          /\ d.key \in Key => metadata[d.provider][d.key] = Pending
      BY <2>2 DEF Inv, DownloadsWait
    <3>2. PICK answer : metadata' = IF metadata[t.provider][k] = None
                                    THEN [metadata EXCEPT
                                             ![t.provider][k] = answer]
                                    ELSE metadata
      BY DEF ClaimCandidate
    <3> HIDE DEF k
    <3>3. ASSUME d.key \in Key
          PROVE  metadata'[d.provider][d.key] = metadata[d.provider][d.key]
      BY <1>1, <3>1, <3>2, <3>3, NoneIsNotPending
         DEF Inv, Slotted, LookupShape, DownloadShape
    <3> QED BY <3>1, <3>3
  <2>3. CASE d \notin downloads
    <3>1. /\ d = [provider |-> t.provider, key |-> k, pc |-> "queued",
                  source |-> "sidecar", origin |-> IndexOf(t.provider)]
          /\ ~OnDisk(t.provider, k) /\ metadata[t.provider][k] = None
      BY <2>1, <2>3 DEF ClaimCandidate
    <3> QED BY <1>1, <3>1
               DEF Inv, Slotted, DownloadShape, LookupShape, ClaimCandidate
  <2> QED BY <2>2, <2>3
<1>7. DownloadsApart'
  BY <1>1, NoneIsNotPending
     DEF Inv, Slotted, DownloadsWait, DownloadsApart, DownloadShape,
         ClaimCandidate
<1> QED BY <1>3, <1>4, <1>5, <1>6, <1>7 DEF Inv

LEMMA LookupInv ==
    ASSUME Inv, NEW t \in lookups, LookupStep(t)
    PROVE  Inv' /\ SlotsKept
<1>t. LookupShape(t)
  BY DEF Inv, LookupsWait
<1>1. CASE AnswerFromDisk(t) \/ FailLookup(t) \/ NotModified(t)
  <2> DEFINE to == [t EXCEPT !.pc = "claiming"]
  <2>1. LookupShape(to) /\ to.pc = "claiming"
    BY <1>t DEF LookupShape
  <2>2. PICK answer :
            versions' = [versions EXCEPT ![t.provider][t.package] = answer]
    BY <1>1 DEF AnswerFromDisk, FailLookup, NotModified
  <2>3. /\ lookups' = lookups \ {t} /\ t.pc # "claiming"
        /\ UNCHANGED <<runs, metadata, downloads>>
    BY <1>1 DEF AnswerFromDisk, FailLookup, NotModified, bounds
  <2> HIDE DEF to
  <2> QED BY <2>1, <2>2, <2>3, LookupFills
<1>2. CASE MissDisk(t) \/ QueueLookup(t) \/ SendLookup(t) \/ RetryLookup(t)
  <2>1. PICK to : /\ LookupShape(to)
                  /\ to.provider = t.provider /\ to.package = t.package
                  /\ lookups' = Move(lookups, t, to)
    <3>1. CASE MissDisk(t)
      <4> DEFINE to == [t EXCEPT !.pc = "missed"]
      <4>1. lookups' = Move(lookups, t, to)
        BY <3>1 DEF MissDisk
      <4>2. LookupShape(to) /\ to.provider = t.provider /\ to.package = t.package
        BY <1>t DEF LookupShape
      <4> HIDE DEF to
      <4> QED BY <4>1, <4>2
    <3>2. CASE QueueLookup(t)
      <4>1. PICK list : lookups' = Move(lookups, t, [t EXCEPT !.pc = "queued",
                                                              !.cached = list])
        BY <3>2 DEF QueueLookup
      <4> DEFINE to == [t EXCEPT !.pc = "queued", !.cached = list]
      <4>2. LookupShape(to) /\ to.provider = t.provider /\ to.package = t.package
        BY <1>t DEF LookupShape
      <4>3. lookups' = Move(lookups, t, to)
        BY <4>1
      <4> HIDE DEF to
      <4> QED BY <4>2, <4>3
    <3>3. CASE SendLookup(t)
      <4> DEFINE to == [t EXCEPT !.pc = "sending"]
      <4>1. lookups' = Move(lookups, t, to)
        BY <3>3 DEF SendLookup
      <4>2. LookupShape(to) /\ to.provider = t.provider /\ to.package = t.package
        BY <1>t DEF LookupShape
      <4> HIDE DEF to
      <4> QED BY <4>1, <4>2
    <3>4. CASE RetryLookup(t)
      <4> DEFINE to == [t EXCEPT !.attempt = @ + 1]
      <4>1. lookups' = Move(lookups, t, to)
        BY <3>4 DEF RetryLookup
      <4>2. LookupShape(to) /\ to.provider = t.provider /\ to.package = t.package
        BY <1>t DEF LookupShape
      <4> HIDE DEF to
      <4> QED BY <4>1, <4>2
    <3> QED BY <1>2, <3>1, <3>2, <3>3, <3>4
  <2>2. t.pc # "claiming" /\ UNCHANGED <<runs, slots, downloads>>
    BY <1>2 DEF MissDisk, QueueLookup, SendLookup, RetryLookup, bounds
  <2> QED BY <2>1, <2>2, LookupMoves
<1>3. CASE ReceiveList(t)
  <2>1. PICK to : /\ LookupShape(to) /\ to.pc = "claiming"
                  /\ lookups' = Move(lookups, t, to)
    <3>1. PICK list : lookups' = Move(lookups, t, [t EXCEPT !.pc = "claiming",
                                                            !.claims = list])
      BY <1>3 DEF ReceiveList
    <3> DEFINE to == [t EXCEPT !.pc = "claiming", !.claims = list]
    <3>2. LookupShape(to) /\ to.pc = "claiming"
      BY <1>t DEF LookupShape
    <3>3. lookups' = Move(lookups, t, to)
      BY <3>1
    <3> HIDE DEF to
    <3> QED BY <3>2, <3>3
  <2>2. /\ t.pc # "claiming" /\ UNCHANGED <<runs, metadata, downloads>>
        /\ versions' = [versions EXCEPT ![t.provider][t.package] =
                           Current(IndexOf(t.provider), t.package)]
    BY <1>3 DEF ReceiveList, bounds
  <2> QED BY <2>1, <2>2, LookupFills
<1>4. CASE FinishLookup(t)
  BY <1>4 DEF FinishLookup, Inv, Slotted, LookupsWait, LookupShape,
              LookupsApart, DownloadsWait, DownloadShape, DownloadsApart,
              slots, bounds, SlotsKept
<1> QED BY <1>1, <1>2, <1>3, <1>4, ClaimInv DEF LookupStep

\* A download that moves on, and one that fills its slot and ends.
LEMMA DownloadMoves ==
    ASSUME Inv, NEW t \in downloads, NEW to, DownloadShape(to),
           to.provider = t.provider, to.key = t.key,
           downloads' = Move(downloads, t, to),
           UNCHANGED <<runs, slots, lookups>>
    PROVE  Inv' /\ SlotsKept
<1>1. Slotted' /\ SlotsKept /\ LookupsWait' /\ LookupsApart'
  BY DEF Inv, Slotted, LookupsWait, LookupShape, LookupsApart, slots, SlotsKept
<1>2. DownloadsWait'
  BY DEF Inv, DownloadsWait, DownloadShape, Move, slots
<1>3. DownloadsApart'
  BY DEF Inv, DownloadsApart, Move
<1> QED BY <1>1, <1>2, <1>3 DEF Inv

LEMMA FillInv ==
    ASSUME Inv, NEW t \in downloads, NEW answer, Fill(t, answer),
           UNCHANGED <<runs, versions, lookups>>
    PROVE  Inv' /\ SlotsKept
<1>1. Slotted' /\ SlotsKept /\ LookupsWait' /\ LookupsApart'
  BY DEF Inv, Slotted, LookupsWait, LookupShape, LookupsApart, DownloadsWait,
         Fill, SlotsKept
<1>2. DownloadsWait'
  BY DEF Inv, Slotted, DownloadsWait, DownloadsApart, DownloadShape, Fill
<1>3. DownloadsApart'
  BY DEF Inv, DownloadsApart, Fill
<1> QED BY <1>1, <1>2, <1>3 DEF Inv

LEMMA DownloadInv ==
    ASSUME Inv, NEW t \in downloads, DownloadStep(t)
    PROVE  Inv' /\ SlotsKept
<1>t. DownloadShape(t)
  BY DEF Inv, DownloadsWait
<1>1. CASE AnswerAtOnce(t) \/ ReceiveMetadata(t) \/ FailDownload(t)
  <2>1. PICK answer : Fill(t, answer)
    BY <1>1 DEF AnswerAtOnce, ReceiveMetadata, FailDownload
  <2>2. UNCHANGED <<runs, versions, lookups>>
    BY <1>1 DEF AnswerAtOnce, ReceiveMetadata, FailDownload, bounds
  <2> QED BY <2>1, <2>2, FillInv
<1>2. CASE QueueDownload(t) \/ SendDownload(t)
  <2>1. PICK to : /\ DownloadShape(to)
                  /\ to.provider = t.provider /\ to.key = t.key
                  /\ downloads' = Move(downloads, t, to)
    <3> DEFINE queued == [t EXCEPT !.pc = "queued"]
               sent == [t EXCEPT !.pc = "sending"]
    <3>1. DownloadShape(queued) /\ queued.provider = t.provider /\ queued.key = t.key
      BY <1>t DEF DownloadShape
    <3>2. DownloadShape(sent) /\ sent.provider = t.provider /\ sent.key = t.key
      BY <1>t DEF DownloadShape
    <3>3. \/ downloads' = Move(downloads, t, queued)
          \/ downloads' = Move(downloads, t, sent)
      BY <1>2 DEF QueueDownload, SendDownload
    <3> HIDE DEF queued, sent
    <3> QED BY <3>1, <3>2, <3>3
  <2>2. UNCHANGED <<runs, slots, lookups>>
    BY <1>2 DEF QueueDownload, SendDownload, bounds
  <2> QED BY <2>1, <2>2, DownloadMoves
<1> QED BY <1>1, <1>2 DEF DownloadStep

LEMMA NextInv == Inv /\ Queue /\ [Next]_vars => Inv' /\ SlotsKept
<1> SUFFICES ASSUME Inv, Queue, [Next]_vars PROVE Inv' /\ SlotsKept
  OBVIOUS
<1>1. CASE \E p \in Package : Prefetch(p)
  BY <1>1, PrefetchInv
<1>2. CASE \E p \in Package : \/ UsePin(p) \/ AskVersions(p) \/ Expire(p)
                              \/ \E v \in Version : AskMetadata(p, v)
                              \/ \E i \in Index : Publish(i, p)
  <2>1. UNCHANGED <<runs, slots, tasks>>
    BY <1>2 DEF UsePin, AskVersions, Expire, AskMetadata, Publish, bounds
  <2> QED BY <2>1, UntouchedInv
<1>3. CASE StartDownload
  BY <1>3, StartDownloadInv
<1>4. CASE \/ TakeVersions \/ AskNextForVersions
           \/ TakeMetadata \/ AskNextForMetadata
  <2>1. UNCHANGED <<runs, slots, tasks>>
    BY <1>4 DEF TakeVersions, AskNextForVersions, TakeMetadata,
                AskNextForMetadata, bounds
  <2> QED BY <2>1, UntouchedInv
<1>5. CASE \E t \in lookups : LookupStep(t)
  BY <1>5, LookupInv
<1>6. CASE \E t \in downloads : DownloadStep(t)
  BY <1>6, DownloadInv
<1>7. CASE \E w \in writes : ReadForRefresh(w) \/ WriteList(w)
                             \/ WriteMetadata(w)
  <2>1. UNCHANGED <<runs, slots, tasks>>
    BY <1>7 DEF ReadForRefresh, WriteList, WriteMetadata, bounds
  <2> QED BY <2>1, UntouchedInv
<1>8. CASE Restart \/ NextEnvironment
  BY <1>8, RestartInv, NextEnvironmentInv
<1>9. CASE UNCHANGED vars
  BY <1>9, UntouchedInv DEF vars, bounds
<1> QED
  BY <1>1, <1>2, <1>3, <1>4, <1>5, <1>6, <1>7, <1>8, <1>9
     DEF Next, DriverStep, TaskStep

\* What a slot of the in-memory index holds stays in it as long as the process
\* runs (set_versions, set_metadata, register_versions, register_metadata).
THEOREM FilledOnce == Spec => SlotsFilledOnce
<1>1. Inv /\ Queue /\ [Next]_vars => [SlotsKept]_vars
  BY NextInv
<1>2. SlotsFilledOnce <=> [][SlotsKept]_vars
  BY DEF SlotsFilledOnce, SlotsKept
<1> QED
  BY InitInv, NextInv, QueueInv, <1>1, <1>2, PTL DEF Spec

-----------------------------------------------------------------------------
(* Types.  An edition that is anywhere in the system is one its index has  *)
(* published by now.                                                       *)

Editions(p) ==
    {e \in Edition : e.revision \in 1..published[e.origin][p]}

ListWrite == [op: {"list"}, provider: Provider, package: Package, edition: Edition]

RefreshWrite == [op: {"refresh"}, provider: Provider, package: Package]

MetadataWrite == [op: {"metadata"}, provider: Provider, key: Key, origin: Index]

WorldTyped ==
    /\ published \in [Index -> [Package -> Nat \ {0}]]
    /\ \A i \in Index, p \in Package : published[i][p] <= Len(Lists[i][p])
    /\ environment \in 1..MaxEnvironments /\ runs \in Nat /\ failures \in Nat
    /\ lost \subseteq Provider \X Key

FilesTyped ==
    \A p \in Package : disk.lists[p] # None =>
        disk.lists[p].edition \in Editions(p)

WritesTyped ==
    /\ writes \subseteq ListWrite \cup RefreshWrite \cup MetadataWrite
    /\ \A w \in writes : w.op = "list" => w.edition \in Editions(w.package)

DiskTyped ==
    /\ disk \in [lists: [Package -> {None} \cup ListFile],
                 metadata: [Key -> {None} \cup Index]]
    /\ entries \in [Provider -> SUBSET Key]
    /\ FilesTyped /\ WritesTyped

SlotsTyped ==
    /\ versions \in [Provider -> [Package -> VersionsSlot]]
    /\ \A i \in Provider, p \in Package :
          versions[i][p] \in Edition => versions[i][p] \in Editions(p)
    /\ metadata \in [Provider -> [Key -> MetadataSlot]]

TasksTyped ==
    /\ lookups \subseteq Lookup
    /\ downloads \subseteq Download
    /\ \A t \in downloads : IF t.source = "none" THEN t.pc = "spawned"
                            ELSE t.origin \in Index

DriverTyped ==
    /\ driver \in [pc: {"idle", "versions", "metadata"},
                   package: Package \cup {None}, version: Version \cup {None},
                   asked: Seq(Index)]
    /\ driver.pc # "idle" => driver.package \in Package
    /\ driver.pc = "metadata" => driver.version \in Version
    /\ versionCache \in [Package -> {None} \cup SUBSET Version]
    /\ depsCache \in [Key -> {None, Absent} \cup Index]

\* Before versions are asked for, every provider has been told to look.
Prefetching ==
    driver.pc = "versions" =>
        \A i \in Present : versions[i][driver.package] # None

Types ==
    /\ WorldTyped /\ DiskTyped /\ SlotsTyped /\ TasksTyped /\ DriverTyped
    /\ Prefetching

LEMMA CurrentType ==
    ASSUME WorldTyped, NEW i \in Index, NEW p \in Package
    PROVE  Current(i, p) \in Editions(p) /\ Current(i, p) \in Edition
BY DEF WorldTyped, Current, Editions, Edition

\* An index publishes finitely many versions of a package.
LEMMA MembersType ==
    ASSUME WorldTyped, NEW p \in Package, NEW e \in Editions(p)
    PROVE  Members(p, e) \in SUBSET Version /\ IsFiniteSet(Members(p, e))
<1>1. /\ e.origin \in Index /\ e.revision \in Nat \ {0}
      /\ e.revision <= published[e.origin][p]
  BY DEF Editions, Edition, WorldTyped
<1> DEFINE lists == Lists[e.origin][p]
<1>2. /\ lists \in Seq(SUBSET Version)
      /\ \A S \in ToSet(lists) : IsFiniteSet(S)
  BY <1>1, FetchingAssumption
<1>3. e.revision \in 1..Len(lists)
  BY <1>1, <1>2, LenProperties DEF WorldTyped
<1> HIDE DEF lists
<1>4. lists[e.revision] \in SUBSET Version
  BY <1>2, <1>3, ElementOfSeq
<1>5. lists[e.revision] \in ToSet(lists)
  BY <1>2, <1>3, LenProperties DEF ToSet
<1> QED BY <1>2, <1>4, <1>5 DEF Members, lists

LEMMA LikelyType ==
    ASSUME WorldTyped, NEW p \in Package, NEW e \in Editions(p)
    PROVE  Likely(p, e) \in Seq(Version)
<1> DEFINE sidecars == {v \in Members(p, e) : Source[p][v] = "sidecar"}
           highest == {v \in sidecars : Cardinality({w \in sidecars : w > v})
                                           < PrefetchDepth}
           n == Cardinality(highest)
           Falling(s) == /\ ToSet(s) = highest
                         /\ \A j, k \in DOMAIN s : j < k => s[j] > s[k]
<1>1. highest \in SUBSET Version /\ IsFiniteSet(highest) /\ highest \in SUBSET Nat
  <2>1. highest \subseteq Members(p, e)
    OBVIOUS
  <2> HIDE DEF highest
  <2> QED BY <2>1, MembersType, FS_Subset, FetchingAssumption
<1>2. Likely(p, e) = CHOOSE s \in [1..n -> highest] : Falling(s)
  BY DEF Likely
<1> HIDE DEF highest
<1>3. n \in Nat
  BY <1>1, FS_CardinalityType
<1>4. \E s \in [1..n -> highest] : Falling(s)
  <2>1. PICK s \in [1..n -> highest] :
           /\ ToSet(s) = highest
           /\ \A j, k \in 1..n : j < k => s[j] > s[k]
    BY <1>1, ListedFalling
  <2>2. DOMAIN s = 1..n
    BY <2>1
  <2> QED BY <2>1, <2>2
<1> HIDE DEF n, Falling
<1>5. Likely(p, e) \in [1..n -> highest]
  BY <1>2, <1>4
<1>6. [1..n -> highest] \subseteq Seq(highest)
  BY <1>3, SeqDef
<1>7. Seq(highest) \subseteq Seq(Version)
  BY <1>1, SeqMonotonic
<1> QED BY <1>5, <1>6, <1>7

LEMMA InitTypes == Init => Types
<1> SUFFICES ASSUME Init PROVE Types
  OBVIOUS
<1>1. WorldTyped
  <2>1. \A i \in Index, p \in Package : 1 <= Len(Lists[i][p])
    <3> TAKE i \in Index, p \in Package
    <3>1. Lists[i][p] \in Seq(SUBSET Version) /\ Lists[i][p] # <<>>
      BY FetchingAssumption
    <3> QED BY <3>1, EmptySeq, LenProperties
  <2> QED BY <2>1, FetchingAssumption DEF Init, WorldTyped
<1>2. DiskTyped
  BY DEF Init, DiskTyped, FilesTyped, WritesTyped, Adopted
<1>3. SlotsTyped
  BY MarksAssumption DEF Init, SlotsTyped, EmptySlots, VersionsSlot, MetadataSlot
<1>4. TasksTyped
  BY DEF Init, TasksTyped
<1>5. DriverTyped /\ Prefetching
  BY EmptySeq DEF Init, DriverTyped, Prefetching, Idle, EmptyCaches
<1> QED BY <1>1, <1>2, <1>3, <1>4, <1>5 DEF Types

\* What a step does not touch keeps its type.
LEMMA TypesKept ==
    ASSUME Types
    PROVE  /\ UNCHANGED <<published, bounds, lost>> => WorldTyped'
           /\ UNCHANGED <<published, disk, entries, writes>> => DiskTyped'
           /\ UNCHANGED <<published, slots>> => SlotsTyped'
           /\ UNCHANGED tasks => TasksTyped'
           /\ UNCHANGED <<driver, caches>> => DriverTyped'
           /\ UNCHANGED <<driver, versions, environment>> => Prefetching'
<1>1. UNCHANGED <<published, bounds, lost>> => WorldTyped'
  BY DEF Types, WorldTyped, bounds
<1>2. UNCHANGED <<published, disk, entries, writes>> => DiskTyped'
  BY DEF Types, DiskTyped, FilesTyped, WritesTyped, Editions
<1>3. UNCHANGED <<published, slots>> => SlotsTyped'
  BY DEF Types, SlotsTyped, slots, Editions
<1>4. UNCHANGED tasks => TasksTyped'
  BY DEF Types, TasksTyped, tasks
<1>5. UNCHANGED <<driver, caches>> => DriverTyped'
  BY DEF Types, DriverTyped, caches
<1>6. UNCHANGED <<driver, versions, environment>> => Prefetching'
  BY DEF Types, Prefetching, Present
<1> QED BY <1>1, <1>2, <1>3, <1>4, <1>5, <1>6

\* A list that its index has published comes to disk.
LEMMA ListsChange ==
    ASSUME DiskTyped, NEW p \in Package, NEW file \in ListFile,
           file.edition \in Editions(p),
           disk' = [disk EXCEPT !.lists[p] = file],
           UNCHANGED <<published, entries>>, writes' \subseteq writes
    PROVE  DiskTyped'
<1>1. /\ disk'.lists = [disk.lists EXCEPT ![p] = file]
      /\ disk' \in [lists: [Package -> {None} \cup ListFile],
                    metadata: [Key -> {None} \cup Index]]
  BY DEF DiskTyped
<1>2. \A q \in Package : Editions(q)' = Editions(q)
  BY DEF Editions
<1>3. FilesTyped'
  <2>1. disk.lists \in [Package -> {None} \cup ListFile]
    BY DEF DiskTyped
  <2> QED BY <1>1, <1>2, <2>1 DEF DiskTyped, FilesTyped
<1>4. WritesTyped'
  <2>1. \A w \in writes : w.op = "list" => w.package \in Package
    BY DEF DiskTyped, WritesTyped, ListWrite, RefreshWrite, MetadataWrite
  <2> QED BY <1>2, <2>1 DEF DiskTyped, WritesTyped
<1> QED BY <1>1, <1>3, <1>4 DEF DiskTyped

\* The world.
LEMMA WorldTypes ==
    ASSUME Types, \/ \E p \in Package : Expire(p)
                  \/ \E p \in Package, i \in Index : Publish(i, p)
                  \/ NextEnvironment \/ Restart
    PROVE  Types'
<1>1. ASSUME NEW p \in Package, Expire(p) PROVE Types'
  <2> DEFINE file == disk.lists[p]
  <2>1. file \in ListFile /\ file.edition \in Editions(p)
    <3>1. file # None
      BY <1>1 DEF Expire
    <3>2. file \in {None} \cup ListFile
      BY DEF Types, DiskTyped
    <3> QED BY <3>1, <3>2 DEF Types, DiskTyped, FilesTyped
  <2>2. disk' = [disk EXCEPT !.lists[p] = [file EXCEPT !.fresh = FALSE]]
    BY <1>1 DEF Expire
  <2>3. DiskTyped'
    <3>1. /\ [file EXCEPT !.fresh = FALSE] \in ListFile
          /\ [file EXCEPT !.fresh = FALSE].edition \in Editions(p)
      BY <2>1 DEF ListFile
    <3> HIDE DEF file
    <3>2. UNCHANGED <<published, entries, writes>>
      BY <1>1 DEF Expire
    <3> QED BY <2>2, <3>1, <3>2, ListsChange DEF Types
  <2> QED BY <1>1, <2>3, TypesKept DEF Expire, Types, slots, bounds
<1>2. ASSUME NEW p \in Package, NEW i \in Index, Publish(i, p) PROVE Types'
  <2>1. /\ published' \in [Index -> [Package -> Nat \ {0}]]
        /\ \A j \in Index, q \in Package :
              /\ published'[j][q] <= Len(Lists[j][q])
              /\ published[j][q] <= published'[j][q]
    <3>1. Lists[i][p] \in Seq(SUBSET Version)
      BY FetchingAssumption
    <3>2. Len(Lists[i][p]) \in Nat
      BY <3>1, LenProperties
    <3> QED BY <1>2, <3>2 DEF Publish, Types, WorldTyped
  <2>2. WorldTyped'
    BY <1>2, <2>1 DEF Publish, Types, WorldTyped, bounds
  <2>3. \A q \in Package : Editions(q) \subseteq Editions(q)'
    <3>1. SUFFICES ASSUME NEW q \in Package, NEW e \in Editions(q)
                   PROVE  e \in Editions(q)'
      OBVIOUS
    <3>2. /\ e \in Edition /\ e.origin \in Index /\ e.revision \in Nat
          /\ e.revision \in 1..published[e.origin][q]
      BY DEF Editions, Edition
    <3>3. /\ published[e.origin][q] \in Nat /\ published'[e.origin][q] \in Nat
          /\ published[e.origin][q] <= published'[e.origin][q]
      BY <2>1, <3>2 DEF Types, WorldTyped
    <3>4. e.revision \in 1..published'[e.origin][q]
      BY <3>2, <3>3
    <3> QED BY <3>2, <3>4 DEF Editions
  <2>4. DiskTyped'
    <3>1. UNCHANGED <<disk, entries, writes>>
      BY <1>2 DEF Publish
    <3>2. FilesTyped'
      BY <2>3, <3>1 DEF Types, DiskTyped, FilesTyped
    <3>3. \A w \in writes : w.op = "list" => w.package \in Package
      BY DEF Types, DiskTyped, WritesTyped, ListWrite, RefreshWrite,
             MetadataWrite
    <3>4. WritesTyped'
      BY <2>3, <3>1, <3>3 DEF Types, DiskTyped, WritesTyped
    <3> QED BY <3>1, <3>2, <3>4 DEF Types, DiskTyped
  <2>5. SlotsTyped'
    BY <1>2, <2>3 DEF Publish, Types, SlotsTyped, slots
  <2> QED BY <1>2, <2>2, <2>4, <2>5, TypesKept DEF Publish, Types, slots, bounds
<1>3. CASE Restart
  <2>1. WorldTyped'
    BY <1>3, FetchingAssumption DEF Restart, Types, WorldTyped
  <2>2. DiskTyped'
    BY <1>3 DEF Restart, Types, DiskTyped, FilesTyped, WritesTyped, Adopted,
                Editions
  <2>3. SlotsTyped'
    BY <1>3, MarksAssumption
       DEF Restart, SlotsTyped, EmptySlots, VersionsSlot, MetadataSlot
  <2>4. TasksTyped'
    BY <1>3 DEF Restart, TasksTyped
  <2>5. DriverTyped' /\ Prefetching'
    BY <1>3 DEF Restart, Types, DriverTyped, Prefetching, EmptyCaches
  <2> QED BY <2>1, <2>2, <2>3, <2>4, <2>5 DEF Types
<1>4. CASE NextEnvironment
  <2>1. WorldTyped'
    BY <1>4, FetchingAssumption DEF NextEnvironment, Types, WorldTyped
  <2>2. DiskTyped'
    BY <1>4 DEF NextEnvironment, Types, DiskTyped, FilesTyped, WritesTyped,
                Adopted, Editions
  <2>3. SlotsTyped'
    BY <1>4, MarksAssumption
       DEF NextEnvironment, Types, SlotsTyped, EmptySlots, VersionsSlot,
           MetadataSlot, Editions
  <2>4. TasksTyped'
    BY <1>4 DEF NextEnvironment, Types, TasksTyped, tasks
  <2>5. DriverTyped' /\ Prefetching'
    BY <1>4 DEF NextEnvironment, Types, DriverTyped, Prefetching, EmptyCaches
  <2> QED BY <2>1, <2>2, <2>3, <2>4, <2>5 DEF Types
<1> QED BY <1>1, <1>2, <1>3, <1>4

-----------------------------------------------------------------------------
\* A slot is filled, a write is spawned, tasks come and go.
LEMMA VersionsFilled ==
    ASSUME Types, NEW i \in Provider, NEW p \in Package,
           NEW answer \in {Failed} \cup Editions(p),
           versions' = [versions EXCEPT ![i][p] = answer],
           UNCHANGED <<published, metadata, driver, environment>>
    PROVE  SlotsTyped' /\ Prefetching'
<1>1. versions \in [Provider -> [Package -> VersionsSlot]]
  BY DEF Types, SlotsTyped
<1>2. answer \in VersionsSlot /\ answer # None
  BY MarksAssumption DEF VersionsSlot, Editions
<1>3. versions' \in [Provider -> [Package -> VersionsSlot]]
  BY <1>1, <1>2
<1>4. answer \in Edition => answer \in Editions(p)
  BY MarksAssumption
<1>5. ASSUME NEW j \in Provider, NEW q \in Package
      PROVE  /\ versions'[j][q] \in Edition => versions'[j][q] \in Editions(q)
             /\ versions[j][q] # None => versions'[j][q] # None
  BY <1>1, <1>2, <1>4 DEF Types, SlotsTyped
<1>6. SlotsTyped'
  <2>1. \A q \in Package : Editions(q)' = Editions(q)
    BY DEF Editions
  <2> QED BY <1>3, <1>5, <2>1 DEF Types, SlotsTyped
<1>7. Prefetching'
  BY <1>5 DEF Types, Prefetching, DriverTyped, WorldTyped, Present, Provider
<1> QED BY <1>6, <1>7

LEMMA MetadataFilled ==
    ASSUME Types, NEW i \in Provider, NEW k \in Key,
           NEW answer \in {Pending, Absent} \cup Index,
           metadata' = [metadata EXCEPT ![i][k] = answer],
           UNCHANGED <<published, versions>>
    PROVE  SlotsTyped'
BY DEF Types, SlotsTyped, MetadataSlot, Editions

LEMMA WriteSpawned ==
    ASSUME Types, UNCHANGED <<published, disk, entries>>,
           NEW w \in ListWrite \cup RefreshWrite \cup MetadataWrite,
           w.op = "list" => w.edition \in Editions(w.package),
           writes' \subseteq writes \cup {w}
    PROVE  DiskTyped'
<1>1. \A q : Editions(q)' = Editions(q)
  BY DEF Editions
<1>2. FilesTyped'
  BY <1>1 DEF Types, DiskTyped, FilesTyped
<1>3. WritesTyped'
  BY <1>1 DEF Types, DiskTyped, WritesTyped
<1> QED BY <1>2, <1>3 DEF Types, DiskTyped

LEMMA LookupSpawned ==
    ASSUME Types, UNCHANGED downloads, NEW to \in Lookup,
           lookups' \subseteq lookups \cup {to}
    PROVE  TasksTyped'
BY DEF Types, TasksTyped

LEMMA DownloadSpawned ==
    ASSUME Types, lookups' \subseteq Lookup, NEW to \in Download,
           IF to.source = "none" THEN to.pc = "spawned" ELSE to.origin \in Index,
           downloads' \subseteq downloads \cup {to}
    PROVE  TasksTyped'
BY DEF Types, TasksTyped

LEMMA LookupFields ==
    ASSUME Types, NEW t \in lookups
    PROVE  /\ t \in Lookup /\ t.provider \in Provider /\ t.package \in Package
           /\ IndexOf(t.provider) \in Index
           /\ t.attempt \in 0..MaxFetchRetries
           /\ t.cached \in {None} \cup Edition /\ t.claims \in Seq(Version)
BY DEF Types, TasksTyped, Lookup, Provider, IndexOf

LEMMA DownloadFields ==
    ASSUME Types, NEW t \in downloads
    PROVE  /\ t \in Download /\ t.provider \in Provider /\ t.key \in Key
           /\ IF t.source = "none" THEN t.pc = "spawned" ELSE t.origin \in Index
BY DEF Types, TasksTyped, Download

\* What is on disk is where it was downloaded from.
LEMMA OnDiskType ==
    ASSUME Types, NEW i, NEW k \in Key, OnDisk(i, k)
    PROVE  disk.metadata[k] \in Index
<1>1. disk.metadata \in [Key -> {None} \cup Index]
  BY DEF Types, DiskTyped
<1> QED BY <1>1 DEF OnDisk

LEMMA FileType ==
    ASSUME Types, NEW p \in Package, disk.lists[p] # None
    PROVE  /\ disk.lists[p] \in ListFile
           /\ disk.lists[p].edition \in Editions(p)
           /\ disk.lists[p].edition \in Edition
<1>1. disk.lists \in [Package -> {None} \cup ListFile]
  BY DEF Types, DiskTyped
<1>2. disk.lists[p] \in ListFile
  BY <1>1
<1> QED BY <1>2 DEF Types, DiskTyped, FilesTyped, ListFile

-----------------------------------------------------------------------------
\* The driver.
LEMMA PrefetchTypes ==
    ASSUME Types, NEW p \in Package, Prefetch(p)
    PROVE  Types'
<1>1. TasksTyped'
  <2>1. \A i \in Provider :
           [provider |-> i, package |-> p, pc |-> "spawned", attempt |-> 0,
            cached |-> None, claims |-> <<>>] \in Lookup
    BY EmptySeq, FetchingAssumption DEF Lookup
  <2>2. lookups' \subseteq Lookup
    BY <2>1 DEF Prefetch, Types, WorldTyped, TasksTyped, Unregistered, Present,
                Provider
  <2> QED BY <2>2 DEF Prefetch, Types, TasksTyped
<1>2. SlotsTyped'
  <2>1. versions \in [Provider -> [Package -> VersionsSlot]]
    BY DEF Types, SlotsTyped
  <2>2. versions' \in [Provider -> [Package -> VersionsSlot]]
    BY <2>1 DEF Prefetch, VersionsSlot
  <2>3. \A i \in Provider, q \in Package :
           versions'[i][q] \in Edition => versions'[i][q] \in Editions(q)
    BY <2>1, MarksAssumption DEF Prefetch, Types, SlotsTyped
  <2>4. UNCHANGED <<published, metadata>>
    BY DEF Prefetch
  <2> QED BY <2>2, <2>3, <2>4 DEF Types, SlotsTyped, Editions
<1>3. Prefetching'
  BY DEF Prefetch, Prefetching
<1> QED BY <1>1, <1>2, <1>3, TypesKept DEF Prefetch, Types, caches, bounds

LEMMA AskTypes ==
    ASSUME Types, NEW p \in Package,
           \/ UsePin(p) \/ AskVersions(p)
           \/ \E v \in Version : AskMetadata(p, v)
    PROVE  Types'
<1>1. CASE UsePin(p)
  <2>1. Pin[p] \in Version
    BY <1>1, FetchingAssumption DEF UsePin
  <2>2. DriverTyped'
    BY <1>1, <2>1 DEF UsePin, Types, DriverTyped
  <2> QED BY <1>1, <2>2, TypesKept DEF UsePin, Types, slots, bounds
<1>2. CASE AskVersions(p)
  <2>1. DriverTyped'
    BY <1>2, FetchingAssumption DEF AskVersions, Types, DriverTyped, caches
  <2>2. Prefetching'
    BY <1>2 DEF AskVersions, Prefetched, Prefetching, Present, slots, bounds
  <2> QED BY <1>2, <2>1, <2>2, TypesKept DEF AskVersions, Types
<1>3. ASSUME NEW v \in Version, AskMetadata(p, v) PROVE Types'
  <2>1. DriverTyped'
    BY <1>3, FetchingAssumption DEF AskMetadata, Types, DriverTyped, caches
  <2>2. Prefetching'
    BY <1>3 DEF AskMetadata, Prefetching
  <2> QED BY <1>3, <2>1, <2>2, TypesKept DEF AskMetadata, Types
<1> QED BY <1>1, <1>2, <1>3

LEMMA TakeTypes ==
    ASSUME Types, TakeVersions \/ TakeMetadata
    PROVE  Types'
<1>1. driver' = Idle /\ Prefetching'
  BY DEF TakeVersions, TakeMetadata, Prefetching, Idle
<1>2. Idle \in [pc: {"idle", "versions", "metadata"},
                package: Package \cup {None}, version: Version \cup {None},
                asked: Seq(Index)]
  BY EmptySeq DEF Idle
<1>3. driver.package \in Package
  BY DEF TakeVersions, TakeMetadata, Types, DriverTyped
<1>4. driver.asked # <<>> => Asking \in Present /\ Asking \in Provider
  BY DEF Types, DriverTyped, WorldTyped, Asking, Present, Provider
<1>5. CASE TakeVersions
  <2>1. driver.asked # <<>> => VersionsAnswer \in SUBSET Version
    <3>1. SUFFICES ASSUME driver.asked # <<>>, VersionsAnswer # {}
                   PROVE  VersionsAnswer \in SUBSET Version
      BY <1>5
    <3> DEFINE slot == versions[Asking][driver.package]
    <3>2. slot \in VersionsSlot /\ slot # Pending /\ slot # None
      BY <1>3, <1>4, <1>5, <3>1
         DEF Types, SlotsTyped, Prefetching, TakeVersions
    <3>3. slot # Failed
      BY <3>1 DEF VersionsAnswer
    <3>4. slot \in Editions(driver.package)
      BY <1>3, <1>4, <3>1, <3>2, <3>3 DEF VersionsSlot, Types, SlotsTyped
    <3>5. VersionsAnswer = Members(driver.package, slot)
      BY <3>3 DEF VersionsAnswer
    <3> QED BY <1>3, <3>4, <3>5, MembersType DEF Types
  <2>2. versionCache' \in [Package -> {None} \cup SUBSET Version]
    BY <1>3, <1>5, <2>1 DEF TakeVersions, Types, DriverTyped
  <2>3. DriverTyped'
    BY <1>1, <1>2, <1>5, <2>2 DEF TakeVersions, Types, DriverTyped, Idle
  <2> QED BY <1>1, <1>5, <2>3, TypesKept DEF TakeVersions, Types
<1>6. CASE TakeMetadata
  <2>1. depsCache' \in [Key -> {None, Absent} \cup Index]
    BY <1>6 DEF TakeMetadata, Types, DriverTyped
  <2>2. DriverTyped'
    BY <1>1, <1>2, <1>6, <2>1 DEF TakeMetadata, Types, DriverTyped, Idle
  <2> QED BY <1>1, <1>6, <2>2, TypesKept DEF TakeMetadata, Types
<1> QED BY <1>5, <1>6

LEMMA AskNextTypes ==
    ASSUME Types, AskNextForVersions \/ AskNextForMetadata
    PROVE  Types'
<1>1. Tail(driver.asked) \in Seq(Index)
  BY DEF AskNextForVersions, AskNextForMetadata, Types, DriverTyped
<1>2. driver' = [driver EXCEPT !.asked = Tail(driver.asked)]
  BY DEF AskNextForVersions, AskNextForMetadata
<1>3. UNCHANGED <<slots, caches, environment>>
  BY DEF AskNextForVersions, AskNextForMetadata, bounds
<1>4. DriverTyped'
  BY <1>1, <1>2, <1>3 DEF Types, DriverTyped, caches
<1>5. Prefetching'
  BY <1>2, <1>3 DEF Types, DriverTyped, Prefetching, Present, slots
<1> QED BY <1>4, <1>5, TypesKept
           DEF AskNextForVersions, AskNextForMetadata, Types

LEMMA StartDownloadTypes ==
    ASSUME Types, StartDownload
    PROVE  Types'
<1>1. Asking \in Provider /\ Wanted \in Key
  BY DEF StartDownload, Types, WorldTyped, DriverTyped, Allowed, Asking, Wanted,
         Provider, Key
<1>2. SlotsTyped'
  BY <1>1, MetadataFilled DEF StartDownload
<1>3. TasksTyped'
  <2> DEFINE info == WheelInfo(Asking, Wanted)
             to == [provider |-> Asking, key |-> Wanted, pc |-> "spawned",
                    source |-> info.source, origin |-> info.origin]
  <2>1. /\ info.source \in {"sidecar", "wheel", "none"}
        /\ info.origin \in {None} \cup Index
        /\ info.source # "none" => info.origin \in Index
    <3>1. Wanted[1] \in Package /\ Wanted[2] \in Version
      BY <1>1 DEF Key
    <3>2. Source[Wanted[1]][Wanted[2]] \in {"sidecar", "wheel", "none"}
      BY <3>1, FetchingAssumption
    <3>3. versions[Asking][Wanted[1]] \in Edition =>
             versions[Asking][Wanted[1]].origin \in Index
      BY DEF Edition
    <3> QED BY <3>2, <3>3 DEF WheelInfo
  <2> HIDE DEF info
  <2>2. to \in Download
    BY <1>1, <2>1 DEF Download
  <2>3. IF to.source = "none" THEN to.pc = "spawned" ELSE to.origin \in Index
    BY <2>1
  <2>4. downloads' \subseteq downloads \cup {to} /\ lookups' \subseteq Lookup
    BY DEF StartDownload, Types, TasksTyped, info
  <2> HIDE DEF to
  <2> QED BY <2>2, <2>3, <2>4, DownloadSpawned
<1> QED BY <1>2, <1>3, TypesKept DEF StartDownload, Types, bounds

-----------------------------------------------------------------------------
\* The tasks.
LEMMA LookupMoveTypes ==
    ASSUME Types, NEW t \in lookups,
           \/ MissDisk(t) \/ QueueLookup(t) \/ SendLookup(t) \/ RetryLookup(t)
           \/ FinishLookup(t)
    PROVE  Types'
<1>t. /\ t \in Lookup /\ t.package \in Package
      /\ t.attempt \in 0..MaxFetchRetries
  BY LookupFields
<1>1. PICK to \in Lookup : lookups' \subseteq lookups \cup {to}
  <2>1. CASE MissDisk(t)
    <3> DEFINE to == [t EXCEPT !.pc = "missed"]
    <3>1. to \in Lookup
      BY <1>t DEF Lookup
    <3>2. lookups' = Move(lookups, t, to)
      BY <2>1 DEF MissDisk
    <3> HIDE DEF to
    <3> QED BY <3>1, <3>2 DEF Move
  <2>2. CASE QueueLookup(t)
    <3>1. PICK list \in {None} \cup Edition :
             lookups' = Move(lookups, t, [t EXCEPT !.pc = "queued",
                                                   !.cached = list])
      <4>1. disk.lists[t.package] # None =>
               disk.lists[t.package].edition \in Edition
        BY <1>t, FileType
      <4> QED BY <2>2, <4>1 DEF QueueLookup
    <3> DEFINE to == [t EXCEPT !.pc = "queued", !.cached = list]
    <3>2. to \in Lookup
      BY <1>t DEF Lookup
    <3>3. lookups' = Move(lookups, t, to)
      BY <3>1
    <3> HIDE DEF to
    <3> QED BY <3>2, <3>3 DEF Move
  <2>3. CASE SendLookup(t)
    <3> DEFINE to == [t EXCEPT !.pc = "sending"]
    <3>1. to \in Lookup
      BY <1>t DEF Lookup
    <3>2. lookups' = Move(lookups, t, to)
      BY <2>3 DEF SendLookup
    <3> HIDE DEF to
    <3> QED BY <3>1, <3>2 DEF Move
  <2>4. CASE RetryLookup(t)
    <3> DEFINE to == [t EXCEPT !.attempt = t.attempt + 1]
    <3>1. t.attempt + 1 \in 0..MaxFetchRetries
      BY <1>t, <2>4, FetchingAssumption DEF RetryLookup
    <3>2. to \in Lookup
      BY <1>t, <3>1 DEF Lookup
    <3>3. lookups' = Move(lookups, t, to)
      BY <2>4 DEF RetryLookup
    <3> HIDE DEF to
    <3> QED BY <3>2, <3>3 DEF Move
  <2>5. CASE FinishLookup(t)
    BY <1>t, <2>5 DEF FinishLookup
  <2> QED BY <2>1, <2>2, <2>3, <2>4, <2>5
<1>2. /\ UNCHANGED <<published, disk, entries, slots, downloads, writes>>
      /\ UNCHANGED <<driver, caches, environment, runs, lost>>
      /\ failures' \in Nat
  BY DEF MissDisk, QueueLookup, SendLookup, RetryLookup, FinishLookup, bounds,
         Types, WorldTyped
<1>3. TasksTyped'
  BY <1>1, <1>2, LookupSpawned
<1>4. WorldTyped'
  BY <1>2 DEF Types, WorldTyped
<1> QED BY <1>2, <1>3, <1>4, TypesKept DEF Types, slots

LEMMA AnswerTypes ==
    ASSUME Types, NEW t \in lookups,
           AnswerFromDisk(t) \/ FailLookup(t) \/ NotModified(t)
    PROVE  Types'
<1>t. /\ t \in Lookup /\ t.provider \in Provider /\ t.package \in Package
      /\ IndexOf(t.provider) \in Index
  BY LookupFields
<1>1. PICK answer \in {Failed} \cup Editions(t.package) :
         versions' = [versions EXCEPT ![t.provider][t.package] = answer]
  <2>1. CASE AnswerFromDisk(t)
    <3>1. disk.lists[t.package].edition \in Editions(t.package)
      BY <1>t, <2>1, FileType DEF AnswerFromDisk, Fresh
    <3> QED BY <2>1, <3>1 DEF AnswerFromDisk
  <2>2. CASE FailLookup(t)
    BY <2>2 DEF FailLookup
  <2>3. CASE NotModified(t)
    <3>1. t.cached \in Editions(t.package)
      BY <1>t, <2>3, CurrentType DEF NotModified, Types
    <3> QED BY <2>3, <3>1 DEF NotModified
  <2> QED BY <2>1, <2>2, <2>3
<1>2. /\ UNCHANGED <<published, disk, entries, metadata, downloads>>
      /\ UNCHANGED <<driver, caches, environment, runs, lost>>
      /\ failures' \in Nat /\ lookups' \subseteq lookups
  BY DEF AnswerFromDisk, FailLookup, NotModified, bounds, Types, WorldTyped
<1>3. SlotsTyped' /\ Prefetching'
  BY <1>t, <1>1, <1>2, VersionsFilled
<1>4. TasksTyped'
  BY <1>t, <1>2, LookupSpawned
<1>5. WorldTyped'
  BY <1>2 DEF Types, WorldTyped
<1>6. DiskTyped'
  <2>1. CASE UNCHANGED writes
    BY <1>2, <2>1, TypesKept
  <2>2. CASE NotModified(t)
    <3> DEFINE w == [op |-> "refresh", provider |-> t.provider,
                     package |-> t.package]
    <3>1. w \in RefreshWrite /\ w.op # "list"
      BY <1>t DEF RefreshWrite
    <3>2. writes' \subseteq writes \cup {w}
      BY <2>2 DEF NotModified
    <3> HIDE DEF w
    <3> QED BY <1>2, <3>1, <3>2, WriteSpawned
  <2> QED BY <2>1, <2>2 DEF AnswerFromDisk, FailLookup
<1> QED BY <1>2, <1>3, <1>4, <1>5, <1>6, TypesKept DEF Types

LEMMA ReceiveListTypes ==
    ASSUME Types, NEW t \in lookups, ReceiveList(t)
    PROVE  Types'
<1>t. /\ t \in Lookup /\ t.provider \in Provider /\ t.package \in Package
      /\ IndexOf(t.provider) \in Index
  BY LookupFields
<1> DEFINE edition == Current(IndexOf(t.provider), t.package)
           claims == Likely(t.package, edition)
           to == [t EXCEPT !.pc = "claiming", !.claims = claims]
           w == [op |-> "list", provider |-> t.provider, package |-> t.package,
                 edition |-> edition]
<1>1. edition \in Editions(t.package) /\ edition \in Edition
  BY <1>t, CurrentType DEF Types
<1>2. /\ versions' = [versions EXCEPT ![t.provider][t.package] = edition]
      /\ writes' = writes \cup {w}
      /\ lookups' = Move(lookups, t, to)
      /\ UNCHANGED <<published, disk, entries, metadata, downloads, driver,
                     caches, bounds, lost>>
  BY DEF ReceiveList
<1> HIDE DEF edition
<1>3. claims \in Seq(Version)
  BY <1>t, <1>1, LikelyType DEF Types
<1> HIDE DEF claims
<1>4. to \in Lookup
  BY <1>t, <1>3 DEF Lookup
<1> HIDE DEF to
<1>5. w \in ListWrite /\ w.edition = edition /\ w.package = t.package
  BY <1>t, <1>1 DEF ListWrite
<1> HIDE DEF w
<1>6. SlotsTyped' /\ Prefetching'
  BY <1>t, <1>1, <1>2, VersionsFilled DEF bounds
<1>7. TasksTyped'
  BY <1>2, <1>4, LookupSpawned DEF Move
<1>8. DiskTyped'
  BY <1>1, <1>2, <1>5, WriteSpawned
<1> QED BY <1>2, <1>6, <1>7, <1>8, TypesKept DEF Types

LEMMA ClaimTypes ==
    ASSUME Types, NEW t \in lookups, ClaimCandidate(t)
    PROVE  Types'
<1>t. /\ t \in Lookup /\ t.provider \in Provider /\ t.package \in Package
      /\ IndexOf(t.provider) \in Index
      /\ t.claims \in Seq(Version)
  BY LookupFields
<1> DEFINE k == <<t.package, Head(t.claims)>>
           rest == Tail(t.claims)
           to == [t EXCEPT !.claims = rest]
           d == [provider |-> t.provider, key |-> k, pc |-> "queued",
                 source |-> "sidecar", origin |-> IndexOf(t.provider)]
<1>1. Head(t.claims) \in Version /\ rest \in Seq(Version)
  BY <1>t DEF ClaimCandidate
<1>2. /\ lookups' = Move(lookups, t, to)
      /\ \/ metadata' = metadata
         \/ /\ OnDisk(t.provider, k)
            /\ metadata' = [metadata EXCEPT ![t.provider][k] = disk.metadata[k]]
         \/ metadata' = [metadata EXCEPT ![t.provider][k] = Pending]
      /\ downloads' \subseteq downloads \cup {d}
      /\ UNCHANGED <<published, disk, entries, versions, writes, driver, caches,
                     bounds, lost>>
  BY DEF ClaimCandidate
<1>3. k \in Key
  BY <1>t, <1>1 DEF Key
<1> HIDE DEF k
<1>4. SlotsTyped'
  <2>1. CASE metadata' = metadata
    BY <1>2, <2>1, TypesKept DEF slots
  <2>2. OnDisk(t.provider, k) => disk.metadata[k] \in Index
    BY <1>3, OnDiskType
  <2> QED BY <1>t, <1>2, <1>3, <2>1, <2>2, MetadataFilled
<1> HIDE DEF rest
<1>5. to \in Lookup
  BY <1>t, <1>1 DEF Lookup
<1> HIDE DEF to
<1>6. d \in Download /\ d.source # "none" /\ d.origin \in Index
  BY <1>t, <1>3 DEF Download
<1> HIDE DEF d
<1>7. TasksTyped'
  <2>1. lookups' \subseteq Lookup
    BY <1>2, <1>5 DEF Move, Types, TasksTyped
  <2> QED BY <1>2, <1>6, <2>1, DownloadSpawned
<1> QED BY <1>2, <1>4, <1>7, TypesKept DEF Types, bounds

LEMMA DownloadTypes ==
    ASSUME Types, NEW t \in downloads, DownloadStep(t)
    PROVE  Types'
<1>t. /\ t \in Download /\ t.provider \in Provider /\ t.key \in Key
      /\ IF t.source = "none" THEN t.pc = "spawned" ELSE t.origin \in Index
  BY DownloadFields
<1>l. lookups \subseteq Lookup
  BY DEF Types, TasksTyped
<1>1. CASE QueueDownload(t) \/ SendDownload(t)
  <2>1. /\ t.source # "none"
        /\ UNCHANGED <<published, disk, entries, slots, lookups, writes, driver,
                       caches, bounds, lost>>
    BY <1>t, <1>1 DEF QueueDownload, SendDownload
  <2>2. PICK pc \in {"queued", "sending"} :
           downloads' = Move(downloads, t, [t EXCEPT !.pc = pc])
    BY <1>1 DEF QueueDownload, SendDownload
  <2> DEFINE to == [t EXCEPT !.pc = pc]
  <2>3. to \in Download /\ to.source = t.source /\ to.origin = t.origin
    BY <1>t DEF Download
  <2>4. downloads' \subseteq downloads \cup {to}
    BY <2>2 DEF Move
  <2> HIDE DEF to
  <2>5. TasksTyped'
    BY <1>t, <1>l, <2>1, <2>3, <2>4, DownloadSpawned
  <2> QED BY <2>1, <2>5, TypesKept DEF Types, slots, bounds
<1>2. CASE AnswerAtOnce(t) \/ ReceiveMetadata(t) \/ FailDownload(t)
  <2>1. PICK answer \in {Absent} \cup Index : Fill(t, answer)
    <3>1. CASE AnswerAtOnce(t)
      <4>1. OnDisk(t.provider, t.key) => disk.metadata[t.key] \in Index
        BY <1>t, OnDiskType
      <4> QED BY <3>1, <4>1 DEF AnswerAtOnce
    <3>2. CASE ReceiveMetadata(t)
      BY <1>t, <3>2 DEF ReceiveMetadata
    <3>3. CASE FailDownload(t)
      BY <3>3 DEF FailDownload
    <3> QED BY <1>2, <3>1, <3>2, <3>3
  <2>2. /\ UNCHANGED <<published, disk, entries, versions, lookups>>
        /\ UNCHANGED <<driver, caches, environment, runs>>
        /\ failures' \in Nat
        /\ lost' \subseteq lost \cup {<<t.provider, t.key>>}
    BY <1>2 DEF AnswerAtOnce, ReceiveMetadata, FailDownload, bounds, Types,
                WorldTyped
  <2>3. SlotsTyped'
    BY <1>t, <2>1, <2>2, MetadataFilled DEF Fill
  <2>4. TasksTyped'
    BY <2>1, <2>2 DEF Fill, Types, TasksTyped
  <2>5. WorldTyped'
    BY <1>t, <2>2 DEF Types, WorldTyped
  <2>6. DiskTyped'
    <3>1. CASE UNCHANGED writes
      BY <2>2, <3>1, TypesKept
    <3>2. CASE ReceiveMetadata(t)
      <4> DEFINE w == [op |-> "metadata", provider |-> t.provider, key |-> t.key,
                       origin |-> t.origin]
      <4>1. w \in MetadataWrite /\ w.op # "list"
        BY <1>t, <3>2 DEF MetadataWrite, ReceiveMetadata
      <4>2. writes' \subseteq writes \cup {w}
        BY <3>2 DEF ReceiveMetadata
      <4> HIDE DEF w
      <4> QED BY <2>2, <4>1, <4>2, WriteSpawned
    <3> QED BY <1>2, <3>1, <3>2 DEF AnswerAtOnce, FailDownload
  <2> QED BY <2>2, <2>3, <2>4, <2>5, <2>6, TypesKept DEF Types
<1> QED BY <1>1, <1>2 DEF DownloadStep

\* The writes.
LEMMA WriteTypes ==
    ASSUME Types, NEW w \in writes,
           ReadForRefresh(w) \/ WriteList(w) \/ WriteMetadata(w)
    PROVE  Types'
<1>w. /\ w \in ListWrite \cup RefreshWrite \cup MetadataWrite
      /\ w.op = "list" => w.edition \in Editions(w.package)
  BY DEF Types, DiskTyped, WritesTyped
<1>1. CASE ReadForRefresh(w)
  <2>1. w.package \in Package /\ w.provider \in Provider
    BY <1>w, <1>1 DEF ReadForRefresh, ListWrite, RefreshWrite, MetadataWrite
  <2>2. UNCHANGED <<published, disk, entries>>
    BY <1>1 DEF ReadForRefresh
  <2>3. DiskTyped'
    <3>1. CASE disk.lists[w.package] = None
      BY <1>w, <1>1, <2>2, <3>1, WriteSpawned DEF ReadForRefresh
    <3>2. CASE disk.lists[w.package] # None
      <4> DEFINE e == disk.lists[w.package].edition
                 x == [op |-> "list", provider |-> w.provider,
                       package |-> w.package, edition |-> e]
      <4>1. e \in Editions(w.package) /\ e \in Edition
        BY <2>1, <3>2, FileType
      <4>2. writes' \subseteq writes \cup {x}
        BY <1>1, <3>2 DEF ReadForRefresh
      <4> HIDE DEF e
      <4>3. x \in ListWrite /\ x.edition = e /\ x.package = w.package
        BY <2>1, <4>1 DEF ListWrite
      <4> HIDE DEF x
      <4> QED BY <2>2, <4>1, <4>2, <4>3, WriteSpawned
    <3> QED BY <3>1, <3>2
  <2> QED BY <1>1, <2>3, TypesKept DEF ReadForRefresh, Types, slots, bounds
<1>2. CASE WriteList(w)
  <2> DEFINE file == [edition |-> w.edition, fresh |-> TRUE]
  <2>1. w \in ListWrite
    BY <1>w, <1>2 DEF WriteList, ListWrite, RefreshWrite, MetadataWrite
  <2>2. w.package \in Package /\ w.edition \in Editions(w.package)
    BY <1>w, <1>2, <2>1 DEF WriteList, ListWrite
  <2>3. file \in ListFile /\ file.edition \in Editions(w.package)
    BY <2>2 DEF ListFile, Editions
  <2>4. disk' = [disk EXCEPT !.lists[w.package] = file]
    BY <1>2 DEF WriteList
  <2>5. UNCHANGED <<published, entries>> /\ writes' \subseteq writes
    BY <1>2 DEF WriteList
  <2> HIDE DEF file
  <2>6. DiskTyped'
    BY <2>2, <2>3, <2>4, <2>5, ListsChange DEF Types
  <2> QED BY <1>2, <2>6, TypesKept DEF WriteList, Types, slots, bounds
<1>3. CASE WriteMetadata(w)
  <2>1. w \in MetadataWrite
    BY <1>w, <1>3 DEF WriteMetadata, ListWrite, RefreshWrite, MetadataWrite
  <2>2. w.key \in Key /\ w.origin \in Index /\ w.provider \in Provider
    BY <2>1 DEF MetadataWrite
  <2>3. /\ disk'.lists = disk.lists
        /\ disk' \in [lists: [Package -> {None} \cup ListFile],
                      metadata: [Key -> {None} \cup Index]]
        /\ entries' \in [Provider -> SUBSET Key]
    BY <1>3, <2>2 DEF WriteMetadata, Types, DiskTyped
  <2>4. published' = published /\ writes' \subseteq writes
    BY <1>3 DEF WriteMetadata
  <2>5. \A q : Editions(q)' = Editions(q)
    BY <2>4 DEF Editions
  <2>6. FilesTyped'
    BY <2>3, <2>5 DEF Types, DiskTyped, FilesTyped
  <2>7. WritesTyped'
    BY <2>4, <2>5 DEF Types, DiskTyped, WritesTyped
  <2>8. DiskTyped'
    BY <2>3, <2>6, <2>7 DEF DiskTyped
  <2> QED BY <1>3, <2>8, TypesKept DEF WriteMetadata, Types, slots, bounds
<1> QED BY <1>1, <1>2, <1>3

LEMMA NextTypes == Types /\ [Next]_vars => Types'
<1> SUFFICES ASSUME Types, [Next]_vars PROVE Types'
  OBVIOUS
<1>1. CASE UNCHANGED vars
  BY <1>1, TypesKept DEF vars, Types, slots, bounds
<1>2. ASSUME NEW p \in Package,
             \/ Prefetch(p) \/ UsePin(p) \/ AskVersions(p) \/ Expire(p)
             \/ \E v \in Version : AskMetadata(p, v)
             \/ \E i \in Index : Publish(i, p)
      PROVE  Types'
  BY <1>2, PrefetchTypes, AskTypes, WorldTypes
<1>3. CASE DriverStep
  BY <1>3, TakeTypes, AskNextTypes, StartDownloadTypes DEF DriverStep
<1>4. CASE \E t \in lookups : LookupStep(t)
  BY <1>4, LookupMoveTypes, AnswerTypes, ReceiveListTypes, ClaimTypes
     DEF LookupStep
<1>5. CASE \E t \in downloads : DownloadStep(t)
  BY <1>5, DownloadTypes
<1>6. CASE \E w \in writes : ReadForRefresh(w) \/ WriteList(w)
                             \/ WriteMetadata(w)
  BY <1>6, WriteTypes
<1>7. CASE Restart \/ NextEnvironment
  BY <1>7, WorldTypes
<1> QED BY <1>1, <1>2, <1>3, <1>4, <1>5, <1>6, <1>7 DEF Next, TaskStep

-----------------------------------------------------------------------------
\* The requests of a provider that hold a permit.
Sending(i) == {t \in lookups \cup downloads : t.provider = i /\ t.pc = "sending"}

\* The semaphore of a provider has never given out more permits than it has.
WithinPermits ==
    \A i \in Provider : /\ IsFiniteSet(Sending(i))
                     /\ Cardinality(Sending(i)) <= MaxConcurrentFetches

LEMMA InitPermits == Init => WithinPermits
<1> SUFFICES ASSUME Init PROVE WithinPermits
  OBVIOUS
<1>1. \A i \in Provider : Sending(i) = {}
  BY DEF Init, Sending
<1>2. MaxConcurrentFetches \in Nat
  BY FetchingAssumption
<1>3. IsFiniteSet({}) /\ Cardinality({}) = 0
  BY FS_EmptySet
<1> QED BY <1>1, <1>2, <1>3 DEF WithinPermits

LEMMA SendingShrinks ==
    ASSUME WithinPermits, \A i \in Provider : Sending(i)' \subseteq Sending(i)
    PROVE  WithinPermits'
<1> SUFFICES ASSUME NEW i \in Provider
             PROVE  /\ IsFiniteSet(Sending(i)')
                    /\ Cardinality(Sending(i)') <= MaxConcurrentFetches
  BY DEF WithinPermits
<1> DEFINE old == Sending(i)
           new == Sending(i)'
<1>1. IsFiniteSet(old) /\ Cardinality(old) <= MaxConcurrentFetches
  BY DEF WithinPermits
<1>2. new \subseteq old
  OBVIOUS
<1> HIDE DEF old, new
<1>3. /\ IsFiniteSet(new) /\ Cardinality(new) <= Cardinality(old)
      /\ Cardinality(new) \in Nat /\ Cardinality(old) \in Nat
  BY <1>1, <1>2, FS_Subset, FS_CardinalityType
<1>4. MaxConcurrentFetches \in Nat
  BY FetchingAssumption
<1> QED BY <1>1, <1>3, <1>4 DEF new

\* One more task sends, with a permit, or in the place of another.
LEMMA SendingOther ==
    ASSUME WithinPermits, NEW i \in Provider, NEW to, NEW S,
           S \subseteq Sending(i),
           \/ Permits(i) > 0
           \/ \E t \in Sending(i) : t \notin S,
           Sending(i)' \subseteq S \cup {to},
           \A j \in Provider \ {i} : Sending(j)' \subseteq Sending(j)
    PROVE  WithinPermits'
<1> DEFINE old == Sending(i)
           new == Sending(i)'
           n == Cardinality(old)
<1>m. MaxConcurrentFetches \in Nat
  BY FetchingAssumption
<1>1. IsFiniteSet(old) /\ n <= MaxConcurrentFetches /\ n \in Nat
  BY FS_CardinalityType DEF WithinPermits
<1>2. IsFiniteSet(S) /\ Cardinality(S) \in Nat /\ Cardinality(S) <= n
  BY <1>1, FS_Subset, FS_CardinalityType
<1>3. Cardinality(S) + 1 <= MaxConcurrentFetches
  <2>1. CASE Permits(i) > 0
    <3>1. Permits(i) = MaxConcurrentFetches - n
      BY DEF Permits, Sending
    <3> HIDE DEF n
    <3> QED BY <1>m, <1>1, <1>2, <2>1, <3>1
  <2>2. CASE \E t \in old : t \notin S
    <3>1. PICK t \in old : t \notin S
      BY <2>2
    <3>2. /\ IsFiniteSet(old \ {t}) /\ S \subseteq old \ {t}
          /\ Cardinality(old \ {t}) = n - 1
      BY <1>1, <3>1, FS_RemoveElement
    <3>3. Cardinality(S) <= n - 1
      BY <3>2, FS_Subset
    <3> HIDE DEF n
    <3> QED BY <1>m, <1>1, <1>2, <3>3
  <2> QED BY <2>1, <2>2
<1>4. /\ IsFiniteSet(S \cup {to}) /\ Cardinality(S \cup {to}) \in Nat
      /\ Cardinality(S \cup {to}) <= Cardinality(S) + 1
  <2>1. /\ IsFiniteSet(S \cup {to})
        /\ Cardinality(S \cup {to}) = IF to \in S THEN Cardinality(S)
                                       ELSE Cardinality(S) + 1
    BY <1>2, FS_AddElement
  <2> QED BY <1>2, <2>1
<1> HIDE DEF new
<1>5. new \subseteq S \cup {to}
  BY DEF new
<1>6. /\ IsFiniteSet(new) /\ Cardinality(new) \in Nat
      /\ Cardinality(new) <= Cardinality(S \cup {to})
  BY <1>4, <1>5, FS_Subset, FS_CardinalityType
<1>7. Cardinality(new) <= MaxConcurrentFetches
  BY <1>m, <1>2, <1>3, <1>4, <1>6
<1>8. ASSUME NEW j \in Provider, j # i
      PROVE  /\ IsFiniteSet(Sending(j)')
             /\ Cardinality(Sending(j)') <= MaxConcurrentFetches
  <2> DEFINE before == Sending(j)
             after == Sending(j)'
  <2>1. IsFiniteSet(before) /\ Cardinality(before) <= MaxConcurrentFetches
    BY DEF WithinPermits
  <2>2. after \subseteq before
    BY <1>8
  <2> HIDE DEF before, after
  <2>3. /\ IsFiniteSet(after) /\ Cardinality(after) <= Cardinality(before)
        /\ Cardinality(after) \in Nat /\ Cardinality(before) \in Nat
    BY <2>1, <2>2, FS_Subset, FS_CardinalityType
  <2> QED BY <1>m, <2>1, <2>3 DEF after
<1> QED BY <1>6, <1>7, <1>8 DEF WithinPermits, new

LEMMA TasksDiffer ==
    ASSUME Types, NEW t \in lookups
    PROVE  t \notin downloads
<1> SUFFICES ASSUME t \in downloads PROVE FALSE
  OBVIOUS
<1>1. DOMAIN t = {"provider", "package", "attempt", "pc", "cached", "claims"}
  BY DEF Types, TasksTyped, Lookup
<1>2. DOMAIN t = {"provider", "key", "pc", "source", "origin"}
  BY DEF Types, TasksTyped, Download
<1> QED BY <1>1, <1>2

LEMMA NextPermits ==
    ASSUME Types, WithinPermits, [Next]_vars
    PROVE  WithinPermits'
<1>1. ASSUME NEW t \in lookups, SendLookup(t) PROVE WithinPermits'
  <2> DEFINE to == [t EXCEPT !.pc = "sending"]
  <2>1. t.provider \in Provider /\ t \in Lookup
    BY LookupFields
  <2>2. to.provider = t.provider
    BY <2>1 DEF Lookup
  <2>3. /\ lookups' = Move(lookups, t, to) /\ downloads' = downloads
        /\ Permits(t.provider) > 0
    BY <1>1 DEF SendLookup
  <2> HIDE DEF to
  <2>4. /\ Sending(t.provider)' \subseteq Sending(t.provider) \cup {to}
        /\ \A j \in Provider \ {t.provider} : Sending(j)' \subseteq Sending(j)
    BY <2>2, <2>3 DEF Sending, Move
  <2> QED BY <2>1, <2>3, <2>4, SendingOther
<1>2. ASSUME NEW t \in lookups, RetryLookup(t) PROVE WithinPermits'
  <2>1. PICK next : next = t.attempt + 1
    OBVIOUS
  <2> DEFINE to == [t EXCEPT !.attempt = next]
  <2>2. t.provider \in Provider /\ t \in Lookup /\ t \notin downloads
    BY LookupFields, TasksDiffer
  <2>3. to.provider = t.provider
    BY <2>2 DEF Lookup
  <2>4. /\ lookups' = Move(lookups, t, to) /\ downloads' = downloads
        /\ t.pc = "sending"
    BY <1>2, <2>1 DEF RetryLookup
  <2> HIDE DEF to
  <2>5. /\ Sending(t.provider)' \subseteq (Sending(t.provider) \ {t}) \cup {to}
        /\ \A j \in Provider \ {t.provider} : Sending(j)' \subseteq Sending(j)
        /\ t \in Sending(t.provider)
    BY <2>2, <2>3, <2>4 DEF Sending, Move
  <2> DEFINE S == Sending(t.provider) \ {t}
  <2>6. /\ S \subseteq Sending(t.provider) /\ t \notin S
        /\ Sending(t.provider)' \subseteq S \cup {to}
    BY <2>5
  <2> HIDE DEF S
  <2> QED BY <2>2, <2>5, <2>6, SendingOther
<1>3. ASSUME NEW t \in downloads, SendDownload(t) PROVE WithinPermits'
  <2> DEFINE to == [t EXCEPT !.pc = "sending"]
  <2>1. t.provider \in Provider /\ t \in Download
    BY DownloadFields
  <2>2. to.provider = t.provider
    BY <2>1 DEF Download
  <2>3. /\ downloads' = Move(downloads, t, to) /\ lookups' = lookups
        /\ Permits(t.provider) > 0
    BY <1>3 DEF SendDownload, tasks
  <2> HIDE DEF to
  <2>4. /\ Sending(t.provider)' \subseteq Sending(t.provider) \cup {to}
        /\ \A j \in Provider \ {t.provider} : Sending(j)' \subseteq Sending(j)
    BY <2>2, <2>3 DEF Sending, Move
  <2> QED BY <2>1, <2>3, <2>4, SendingOther
<1>4. ASSUME \A t \in lookups' \cup downloads' :
                t \in lookups \cup downloads \/ t.pc # "sending"
      PROVE  WithinPermits'
  <2>1. \A i \in Provider : Sending(i)' \subseteq Sending(i)
    BY <1>4 DEF Sending
  <2> QED BY <2>1, SendingShrinks
<1>5. CASE \/ \E p \in Package : Prefetch(p)
           \/ StartDownload
           \/ Restart
           \/ UNCHANGED tasks
  <2>1. \A t \in lookups' \cup downloads' :
           t \in lookups \cup downloads \/ t.pc # "sending"
    BY <1>5 DEF Prefetch, StartDownload, Restart, tasks
  <2> QED BY <1>4, <2>1
<1>6. ASSUME NEW t \in lookups,
             \/ AnswerFromDisk(t) \/ MissDisk(t) \/ QueueLookup(t)
             \/ FailLookup(t) \/ NotModified(t) \/ ReceiveList(t)
             \/ ClaimCandidate(t) \/ FinishLookup(t)
      PROVE  WithinPermits'
  <2>t. t \in Lookup
    BY LookupFields
  <2>1. CASE \/ AnswerFromDisk(t) \/ FailLookup(t) \/ NotModified(t)
             \/ FinishLookup(t)
    <3>1. lookups' \subseteq lookups /\ downloads' = downloads
      BY <2>1 DEF AnswerFromDisk, FailLookup, NotModified, FinishLookup
    <3> QED BY <1>4, <3>1
  <2>2. CASE MissDisk(t)
    <3> DEFINE to == [t EXCEPT !.pc = "missed"]
    <3>1. to.pc = "missed"
      BY <2>t DEF Lookup
    <3>2. lookups' = Move(lookups, t, to) /\ downloads' = downloads
      BY <2>2 DEF MissDisk
    <3> HIDE DEF to
    <3> QED BY <1>4, <3>1, <3>2 DEF Move
  <2>3. CASE QueueLookup(t)
    <3>1. PICK list : lookups' = Move(lookups, t, [t EXCEPT !.pc = "queued",
                                                            !.cached = list])
      BY <2>3 DEF QueueLookup
    <3> DEFINE to == [t EXCEPT !.pc = "queued", !.cached = list]
    <3>2. to.pc = "queued"
      BY <2>t DEF Lookup
    <3>3. lookups' = Move(lookups, t, to) /\ downloads' = downloads
      BY <2>3, <3>1 DEF QueueLookup
    <3> HIDE DEF to
    <3> QED BY <1>4, <3>2, <3>3 DEF Move
  <2>4. CASE ReceiveList(t)
    <3>1. PICK list : lookups' = Move(lookups, t, [t EXCEPT !.pc = "claiming",
                                                            !.claims = list])
      BY <2>4 DEF ReceiveList
    <3> DEFINE to == [t EXCEPT !.pc = "claiming", !.claims = list]
    <3>2. to.pc = "claiming"
      BY <2>t DEF Lookup
    <3>3. lookups' = Move(lookups, t, to) /\ downloads' = downloads
      BY <2>4, <3>1 DEF ReceiveList
    <3> HIDE DEF to
    <3> QED BY <1>4, <3>2, <3>3 DEF Move
  <2>5. CASE ClaimCandidate(t)
    <3>1. PICK rest : rest = Tail(t.claims)
      OBVIOUS
    <3> DEFINE to == [t EXCEPT !.claims = rest]
    <3>2. to.pc = "claiming"
      BY <2>t, <2>5 DEF Lookup, ClaimCandidate
    <3>3. /\ lookups' = Move(lookups, t, to)
          /\ \A d \in downloads' : d \in downloads \/ d.pc = "queued"
      BY <2>5, <3>1 DEF ClaimCandidate
    <3> HIDE DEF to
    <3> QED BY <1>4, <3>2, <3>3 DEF Move
  <2> QED BY <1>6, <2>1, <2>2, <2>3, <2>4, <2>5
<1>7. ASSUME NEW t \in downloads,
             \/ AnswerAtOnce(t) \/ QueueDownload(t) \/ ReceiveMetadata(t)
             \/ FailDownload(t)
      PROVE  WithinPermits'
  <2>1. CASE QueueDownload(t)
    <3> DEFINE to == [t EXCEPT !.pc = "queued"]
    <3>1. to.pc = "queued"
      BY DownloadFields DEF Download
    <3>2. downloads' = Move(downloads, t, to) /\ lookups' = lookups
      BY <2>1 DEF QueueDownload
    <3> HIDE DEF to
    <3> QED BY <1>4, <3>1, <3>2 DEF Move
  <2>2. CASE AnswerAtOnce(t) \/ ReceiveMetadata(t) \/ FailDownload(t)
    <3>1. downloads' \subseteq downloads /\ lookups' = lookups
      BY <2>2 DEF AnswerAtOnce, ReceiveMetadata, FailDownload, Fill
    <3> QED BY <1>4, <3>1
  <2> QED BY <1>7, <2>1, <2>2
<1>8. CASE \/ \E p \in Package : \/ UsePin(p) \/ AskVersions(p) \/ Expire(p)
                                 \/ \E v \in Version : AskMetadata(p, v)
                                 \/ \E i \in Index : Publish(i, p)
           \/ TakeVersions \/ AskNextForVersions
           \/ TakeMetadata \/ AskNextForMetadata
           \/ \E w \in writes : ReadForRefresh(w) \/ WriteList(w)
                                \/ WriteMetadata(w)
           \/ NextEnvironment
           \/ UNCHANGED vars
  <2>1. UNCHANGED tasks
    BY <1>8 DEF UsePin, AskVersions, Expire, AskMetadata, Publish, TakeVersions,
                AskNextForVersions, TakeMetadata, AskNextForMetadata,
                ReadForRefresh, WriteList, WriteMetadata, NextEnvironment, vars
  <2> QED BY <1>5, <2>1
<1> QED BY <1>1, <1>2, <1>3, <1>5, <1>6, <1>7, <1>8
           DEF Next, DriverStep, TaskStep, LookupStep, DownloadStep

\* The slots, tasks, files and caches keep their shape, no task makes more
\* attempts than MAX_FETCH_RETRIES allows, and no provider has more requests
\* under way than MAX_CONCURRENT_FETCHES (ensure_versions_fetching,
\* ensure_metadata_fetching).
THEOREM PermitsKept == Spec => []TypeOK
<1> DEFINE TInv == Types /\ WithinPermits
<1>1. Init => TInv
  BY InitTypes, InitPermits
<1>2. TInv /\ [Next]_vars => TInv'
  BY NextTypes, NextPermits
<1>3. TInv => TypeOK
  <2> SUFFICES ASSUME TInv PROVE TypeOK
    OBVIOUS
  <2>1. ASSUME NEW i \in Provider PROVE Permits(i) \in 0..MaxConcurrentFetches
    <3> DEFINE n == Cardinality(Sending(i))
    <3>1. n \in Nat /\ n <= MaxConcurrentFetches
      BY FS_CardinalityType DEF WithinPermits
    <3>2. Permits(i) = MaxConcurrentFetches - n
      BY DEF Permits, Sending
    <3>3. MaxConcurrentFetches \in Nat
      BY FetchingAssumption
    <3> HIDE DEF n
    <3> QED BY <3>1, <3>2, <3>3
  <2>2. /\ disk.lists \in [Package -> {None} \cup ListFile]
        /\ disk.metadata \in [Key -> {None} \cup Index]
    BY DEF Types, DiskTyped
  <2> QED BY <2>1, <2>2 DEF TypeOK, Types, WorldTyped, DiskTyped, SlotsTyped,
                            TasksTyped, DriverTyped
<1> HIDE DEF TInv
<1> QED BY <1>1, <1>2, <1>3, PTL DEF Spec

-----------------------------------------------------------------------------
(* No task belongs to an environment that has not begun.                   *)

Begun ==
    /\ \A t \in lookups : t.provider[2] <= environment
    /\ \A i \in Provider : i[2] > environment =>
          /\ \A p \in Package : versions[i][p] = None
          /\ \A k \in Key : metadata[i][k] = None

LEMMA LookupsStep ==
    ASSUME Types, [Next]_vars, NEW t \in lookups'
    PROVE  \/ t.provider \in Present
           \/ \E u \in lookups : u.provider = t.provider
<1>1. CASE t \in lookups
  BY <1>1
<1>2. CASE \E p \in Package : Prefetch(p)
  BY <1>1, <1>2 DEF Prefetch, Unregistered
<1>3. ASSUME NEW u \in lookups, LookupStep(u), t \notin lookups
      PROVE  u.provider = t.provider
  <2>u. u \in Lookup
    BY LookupFields
  <2>1. CASE MissDisk(u)
    <3>1. t = [u EXCEPT !.pc = "missed"]
      BY <1>3, <2>1 DEF MissDisk, Move
    <3> QED BY <2>u, <3>1 DEF Lookup
  <2>2. CASE SendLookup(u)
    <3>1. t = [u EXCEPT !.pc = "sending"]
      BY <1>3, <2>2 DEF SendLookup, Move
    <3> QED BY <2>u, <3>1 DEF Lookup
  <2>3. CASE RetryLookup(u)
    <3>1. t = [u EXCEPT !.attempt = u.attempt + 1]
      BY <1>3, <2>3 DEF RetryLookup, Move
    <3> QED BY <2>u, <3>1 DEF Lookup
  <2>4. CASE QueueLookup(u)
    <3>1. PICK list : t = [u EXCEPT !.pc = "queued", !.cached = list]
      BY <1>3, <2>4 DEF QueueLookup, Move
    <3> QED BY <2>u, <3>1 DEF Lookup
  <2>5. CASE ReceiveList(u)
    <3>1. PICK list : t = [u EXCEPT !.pc = "claiming", !.claims = list]
      BY <1>3, <2>5 DEF ReceiveList, Move
    <3> QED BY <2>u, <3>1 DEF Lookup
  <2>6. CASE ClaimCandidate(u)
    <3>1. PICK rest : t = [u EXCEPT !.claims = rest]
      BY <1>3, <2>6 DEF ClaimCandidate, Move
    <3> QED BY <2>u, <3>1 DEF Lookup
  <2> QED
    BY <1>3, <2>1, <2>2, <2>3, <2>4, <2>5, <2>6
       DEF LookupStep, AnswerFromDisk, FailLookup, NotModified, FinishLookup
<1>4. CASE ~(\E p \in Package : Prefetch(p)) /\ ~(\E u \in lookups : LookupStep(u))
  <2>1. (\E d \in downloads : DownloadStep(d)) => UNCHANGED lookups
    BY DEF DownloadStep, AnswerAtOnce, QueueDownload, SendDownload,
           ReceiveMetadata, FailDownload
  <2>2. lookups' \subseteq lookups
    BY <1>4, <2>1
       DEF Next, DriverStep, TaskStep, UsePin, AskVersions, AskMetadata, Expire,
           Publish, TakeVersions, AskNextForVersions, StartDownload,
           TakeMetadata, AskNextForMetadata, ReadForRefresh, WriteList,
           WriteMetadata, NextEnvironment, Restart, vars, tasks
  <2> QED BY <1>1, <2>2
<1> QED BY <1>2, <1>3, <1>4

\* Only tasks and the driver change slots, and only those of their provider.
LEMMA SlotsStep ==
    ASSUME Inv, Queue, Types, Begun, [Next]_vars, ~Restart, ~NextEnvironment,
           NEW i \in Provider, i[2] > environment
    PROVE  versions'[i] = versions[i] /\ metadata'[i] = metadata[i]
<1>0. i \notin Present /\ environment \in Nat
  BY DEF Present, Queue
<1>s. DOMAIN versions = Provider /\ DOMAIN metadata = Provider
  BY DEF Inv, Slotted
<1>1. CASE UNCHANGED slots
  BY <1>1 DEF slots
<1>2. ASSUME NEW p \in Package, Prefetch(p)
      PROVE  versions'[i] = versions[i] /\ metadata'[i] = metadata[i]
  <2>1. i \notin Unregistered(p)
    BY <1>0 DEF Unregistered
  <2>2. versions'[i] = [versions[i] EXCEPT ![p] = versions[i][p]]
    BY <1>2, <2>1 DEF Prefetch
  <2>3. versions[i] \in [Package -> VersionsSlot]
    BY DEF Types, SlotsTyped
  <2> QED BY <1>2, <2>2, <2>3 DEF Prefetch
<1>3. CASE StartDownload
  <2>1. Asking # i
    BY <1>3, <1>0 DEF StartDownload, Allowed, Asking, Present
  <2> QED BY <1>3, <1>s, <2>1 DEF StartDownload
<1>4. ASSUME NEW t \in lookups, LookupStep(t)
      PROVE  versions'[i] = versions[i] /\ metadata'[i] = metadata[i]
  <2>1. t.provider # i /\ t.provider \in Provider
    <3>1. t.provider[2] <= environment /\ i[2] \in Nat /\ t.provider \in Provider
      BY LookupFields DEF Begun, Provider
    <3> QED BY <1>0, <3>1
  <2> QED
    BY <1>4, <1>s, <2>1
       DEF LookupStep, AnswerFromDisk, MissDisk, QueueLookup, SendLookup,
           RetryLookup, FailLookup, NotModified, ReceiveList, ClaimCandidate,
           FinishLookup, slots
<1>5. ASSUME NEW t \in downloads, DownloadStep(t)
      PROVE  versions'[i] = versions[i] /\ metadata'[i] = metadata[i]
  <2>1. t.provider \in Provider /\ t.key \in Key
    BY DownloadFields
  <2>2. metadata[t.provider][t.key] = Pending
    BY <2>1 DEF Inv, DownloadsWait
  <2>3. t.provider # i
    BY <2>1, <2>2, NoneIsNotPending DEF Begun
  <2> QED
    BY <1>5, <1>s, <2>1, <2>3
       DEF DownloadStep, AnswerAtOnce, QueueDownload, SendDownload,
           ReceiveMetadata, FailDownload, Fill, slots
<1>6. CASE /\ \A p \in Package : ~Prefetch(p)
           /\ ~StartDownload /\ ~TaskStep
  <2>1. UNCHANGED slots
    BY <1>6
       DEF Next, DriverStep, UsePin, AskVersions, AskMetadata, Expire, Publish,
           TakeVersions, AskNextForVersions, TakeMetadata, AskNextForMetadata,
           ReadForRefresh, WriteList, WriteMetadata, vars
  <2> QED BY <1>1, <2>1
<1> QED BY <1>2, <1>3, <1>4, <1>5, <1>6 DEF TaskStep

LEMMA InitBegun == Init => Begun
  BY DEF Init, EmptySlots, Begun

LEMMA BegunNext ==
    ASSUME Inv, Queue, Types, Begun, [Next]_vars
    PROVE  Begun'
<1>0. environment \in Nat
  BY DEF Queue
<1>p. \A i \in Provider : i[2] \in Nat
  BY DEF Provider
<1>t. \A t \in lookups : t.provider \in Provider
  BY LookupFields
<1>1. CASE Restart
  BY <1>1 DEF Restart, EmptySlots, Begun
<1>2. CASE NextEnvironment
  <2>1. environment' = environment + 1 /\ lookups' = lookups
    BY <1>2 DEF NextEnvironment, tasks
  <2>2. ASSUME NEW i \in Provider, i[2] > environment'
        PROVE  /\ \A p \in Package : versions'[i][p] = None
               /\ \A k \in Key : metadata'[i][k] = None
    <3>1. i[2] > environment
      BY <1>0, <1>p, <2>1, <2>2
    <3> QED BY <1>2, <3>1 DEF NextEnvironment, EmptySlots, Begun
  <2> QED BY <1>0, <1>p, <1>t, <2>1, <2>2 DEF Begun
<1>3. CASE ~Restart /\ ~NextEnvironment
  <2>1. environment' = environment
    BY <1>3, RunsKept
  <2>2. ASSUME NEW t \in lookups' PROVE t.provider[2] <= environment'
    BY <1>0, <2>1, LookupsStep DEF Begun, Present
  <2>3. ASSUME NEW i \in Provider, i[2] > environment'
        PROVE  /\ \A p \in Package : versions'[i][p] = None
               /\ \A k \in Key : metadata'[i][k] = None
    BY <1>3, <2>1, <2>3, SlotsStep DEF Begun
  <2> QED BY <2>2, <2>3 DEF Begun
<1> QED BY <1>1, <1>2, <1>3

-----------------------------------------------------------------------------
(* What the driver has asked, and what it may conclude.                    *)

Unpinned == \A p \in Package : Pin[p] = None

Offers(i, p, v) ==
    versions[i][p] \in Edition /\ v \in Members(p, versions[i][p])

\* A version is waited for after its package's versions were answered, and a
\* provider that has been passed over has no metadata of it.
Waits ==
    /\ DOMAIN versionCache = Package /\ DOMAIN depsCache = Key
    /\ driver.pc # "idle" => driver.package \in Package
    /\ driver.pc = "versions" =>
          /\ versionCache[driver.package] = None
          /\ \A i \in Present : versions[i][driver.package] # None
    /\ driver.pc = "metadata" =>
          /\ driver.version \in Version
          /\ versionCache[driver.package] # None
          /\ driver.version \in versionCache[driver.package]
          /\ \A i \in Index : driver.package \in Serves[i] =>
                \/ \E n \in 1..Len(driver.asked) : driver.asked[n] = i
                \/ metadata[<<i, environment>>][Wanted] = Absent

\* If the metadata is absent, or nobody will look for it, there is a reason.
Explained(i, k) ==
    /\ metadata[i][k] = Absent => <<i, k>> \in lost \/ Source[k[1]][k[2]] = "none"
    /\ \A d \in downloads : d.provider = i /\ d.key = k /\ d.source = "none"
                               => Source[k[1]][k[2]] = "none"

\* Nobody asked for metadata of a package before its versions were known.
Unasked ==
    \A p \in Package : versionCache[p] = None =>
        \A i \in Present, v \in Version : Explained(i, <<p, v>>)

\* The versions the driver knows are those of one provider that may serve the
\* package, and that provider knows where their metadata is.
Answered(p) ==
    \E i \in Present :
        /\ p \in Serves[IndexOf(i)]
        /\ versions[i][p] \in Edition \ {None, Pending}
        /\ versionCache[p] = Members(p, versions[i][p])
        /\ \A v \in Version : v \in versionCache[p] => Explained(i, <<p, v>>)

Known == \A p \in Package : versionCache[p] \notin {None, {}} => Answered(p)

Sound == Inv /\ Queue /\ Types /\ Waits /\ Begun

LEMMA PresentType ==
    ASSUME Queue
    PROVE  /\ Present \subseteq Provider
           /\ \A i \in Index : <<i, environment>> \in Present
           /\ \A i \in Present : IndexOf(i) \in Index
BY DEF Queue, Present, Provider, IndexOf

\* Slots that stay as SlotsKept says, while the driver does nothing.
LEMMA WaitsKept ==
    ASSUME Sound, SlotsKept, runs' = runs, environment' = environment,
           UNCHANGED <<driver, caches>>,
           \A i \in Provider, p \in Package :
               versions[i][p] # None => versions'[i][p] # None
    PROVE  Waits'
<1>1. \A i \in Provider : metadata[i][Wanted] = Absent /\ Wanted \in Key
         => metadata'[i][Wanted] = Absent
  BY MarksAssumption DEF SlotsKept
<1>2. driver.pc = "metadata" => Wanted \in Key
  BY DEF Sound, Waits, Wanted, Key
<1>3. Wanted' = Wanted
  BY DEF Wanted
<1>4. Present' = Present
  BY DEF Present
<1>5. Present \subseteq Provider /\ \A i \in Index : <<i, environment>> \in Present
  BY PresentType DEF Sound
<1> QED BY <1>1, <1>2, <1>3, <1>4, <1>5 DEF Sound, Waits, caches

LEMMA FilledStays ==
    ASSUME Sound, [Next]_vars, ~Restart, ~NextEnvironment, NEW i \in Provider, NEW p \in Package,
           versions[i][p] # None
    PROVE  versions'[i][p] # None
<1>1. versions'[i][p] = versions[i][p] \/ versions'[i][p] # None
  <2>1. CASE UNCHANGED versions
    BY <2>1
  <2>2. CASE \E q \in Package : Prefetch(q)
    BY <2>2 DEF Sound, Inv, Slotted, Prefetch, Unregistered
  <2>3. CASE \E t \in lookups : LookupStep(t)
    <3>1. PICK t \in lookups : LookupStep(t)
      BY <2>3
    <3>2. LookupShape(t)
      BY DEF Sound, Inv, LookupsWait
    <3>3. CASE AnswerFromDisk(t)
      <4>1. disk.lists[t.package].edition \in Edition
        BY <3>2, <3>3, FileType
           DEF Sound, AnswerFromDisk, Fresh, LookupShape
      <4> QED BY <3>2, <3>3, <4>1, MarksAssumption
                 DEF Sound, Inv, Slotted, AnswerFromDisk, LookupShape
    <3>4. CASE FailLookup(t)
      BY <3>2, <3>4, MarksAssumption
         DEF Sound, Inv, Slotted, FailLookup, LookupShape
    <3>5. Current(IndexOf(t.provider), t.package) \in Edition
      BY <3>2, CurrentType DEF Sound, Types, LookupShape, Provider, IndexOf
    <3>6. CASE NotModified(t) \/ ReceiveList(t)
      <4>1. versions' = [versions EXCEPT ![t.provider][t.package] =
                            Current(IndexOf(t.provider), t.package)]
        BY <3>6 DEF NotModified, ReceiveList
      <4> QED BY <3>2, <3>5, <4>1, MarksAssumption
                 DEF Sound, Inv, Slotted, LookupShape
    <3>7. CASE UNCHANGED versions
      BY <3>7
    <3> QED
      BY <3>1, <3>3, <3>4, <3>6, <3>7
         DEF LookupStep, MissDisk, QueueLookup, SendLookup, RetryLookup,
             ClaimCandidate, FinishLookup, slots
  <2>4. DriverStep => UNCHANGED versions
    BY DEF DriverStep, TakeVersions, AskNextForVersions, StartDownload,
           TakeMetadata, AskNextForMetadata, slots
  <2>5. (\E t \in downloads : DownloadStep(t)) => UNCHANGED versions
    BY DEF DownloadStep, AnswerAtOnce, QueueDownload, SendDownload,
           ReceiveMetadata, FailDownload, slots
  <2>6. (\E w \in writes : ReadForRefresh(w) \/ WriteList(w)
                           \/ WriteMetadata(w)) => UNCHANGED versions
    BY DEF ReadForRefresh, WriteList, WriteMetadata, slots
  <2>7. ASSUME NEW q \in Package,
               \/ UsePin(q) \/ AskVersions(q) \/ Expire(q)
               \/ \E v \in Version : AskMetadata(q, v)
               \/ \E j \in Index : Publish(j, q)
        PROVE  UNCHANGED versions
    BY <2>7 DEF UsePin, AskVersions, Expire, AskMetadata, Publish, slots
  <2> QED
    BY <2>1, <2>2, <2>3, <2>4, <2>5, <2>6, <2>7 DEF Next, TaskStep, vars, slots
<1> QED BY <1>1

LEMMA InitWaits == Init => Waits
  BY DEF Init, Waits, Idle, EmptyCaches

LEMMA WaitsNext == Sound /\ [Next]_vars => Waits'
<1> SUFFICES ASSUME Sound, [Next]_vars PROVE Waits'
  OBVIOUS
<1>0. SlotsKept
  BY NextInv DEF Sound
<1>s. ~Restart /\ ~NextEnvironment => Present' = Present
  BY RunsKept DEF Present
<1>1. CASE Restart \/ NextEnvironment
  BY <1>1 DEF Sound, Waits, Restart, NextEnvironment, EmptyCaches
<1>2. ASSUME NEW p \in Package, AskVersions(p) PROVE Waits'
  BY <1>2 DEF Sound, Waits, AskVersions, Prefetched, Present, slots, caches, bounds
<1>3. ASSUME NEW p \in Package, NEW v \in Version, AskMetadata(p, v)
      PROVE  Waits'
  <2>1. \A i \in Index : \E n \in 1..Len(Priority) : Priority[n] = i
    <3>1. Priority \in Seq(Index) /\ ToSet(Priority) = Index
      BY FetchingAssumption
    <3> QED BY <3>1 DEF ToSet
  <2>2. driver'.asked = Priority /\ driver'.package = p /\ driver'.version = v
        /\ driver'.pc = "metadata"
    BY <1>3 DEF AskMetadata
  <2> QED BY <1>3, <2>1, <2>2 DEF Sound, Waits, AskMetadata, caches
<1>4. CASE TakeVersions \/ TakeMetadata
  BY <1>4 DEF Sound, Waits, TakeVersions, TakeMetadata, Idle
<1>5. CASE AskNextForVersions
  BY <1>5 DEF Sound, Waits, Queue, AskNextForVersions, Present, slots, caches,
              bounds
<1>6. CASE AskNextForMetadata
  <2>1. /\ driver.asked \in Seq(Index) /\ driver.asked # <<>>
        /\ driver'.asked = Tail(driver.asked)
        /\ driver'.package = driver.package
        /\ driver'.version = driver.version /\ driver'.pc = driver.pc
        /\ driver.pc = "metadata"
    BY <1>6 DEF Sound, Queue, AskNextForMetadata
  <2>2. ASSUME NEW i \in Index, driver.package \in Serves[i]
        PROVE  \/ \E n \in 1..Len(driver'.asked) : driver'.asked[n] = i
               \/ metadata[<<i, environment>>][Wanted] = Absent
    <3>1. CASE metadata[<<i, environment>>][Wanted] = Absent
      BY <3>1
    <3>2. CASE \E n \in 1..Len(driver.asked) : driver.asked[n] = i
      <4>1. PICK n \in 1..Len(driver.asked) : driver.asked[n] = i
        BY <3>2
      <4>2. CASE n = 1
        BY <1>6, <2>2, <4>1, <4>2, <2>1
           DEF AskNextForMetadata, Allowed, Asking
      <4>3. CASE n # 1
        <5>1. n - 1 \in 1..Len(driver'.asked)
          BY <2>1, <4>1, <4>3
        <5>2. driver'.asked[n - 1] = i
          BY <2>1, <4>1, <4>3, <5>1
        <5> QED BY <5>1, <5>2
      <4> QED BY <4>2, <4>3
    <3> QED BY <2>1, <2>2, <3>1, <3>2 DEF Sound, Waits
  <2>3. Wanted' = Wanted
    BY <2>1 DEF Wanted
  <2>4. UNCHANGED <<versions, metadata, versionCache, depsCache, environment>>
    BY <1>6 DEF AskNextForMetadata, slots, caches, bounds
  <2> QED BY <2>1, <2>2, <2>3, <2>4 DEF Sound, Waits
<1>7. ASSUME NEW p \in Package, UsePin(p) PROVE Waits'
  BY <1>7 DEF Sound, Waits, UsePin, slots
<1>8. CASE /\ ~Restart /\ ~NextEnvironment /\ ~TakeVersions /\ ~TakeMetadata
           /\ ~AskNextForVersions /\ ~AskNextForMetadata
           /\ \A p \in Package : /\ ~AskVersions(p) /\ ~UsePin(p)
                                 /\ \A v \in Version : ~AskMetadata(p, v)
  <2>1. UNCHANGED <<driver, versionCache, depsCache, runs>>
    <3>1. TaskStep => UNCHANGED <<driver, versionCache, depsCache, runs>>
      BY DEF TaskStep, LookupStep, DownloadStep, AnswerFromDisk, MissDisk,
             QueueLookup, SendLookup, RetryLookup, FailLookup, NotModified,
             ReceiveList, ClaimCandidate, FinishLookup, AnswerAtOnce,
             QueueDownload, SendDownload, ReceiveMetadata, FailDownload,
             caches, bounds
    <3> QED
      BY <1>8, <3>1
         DEF Next, DriverStep, Prefetch, Expire, Publish, StartDownload,
             ReadForRefresh, WriteList, WriteMetadata, vars, caches, bounds
  <2>2. \A i \in Provider, p \in Package :
           versions[i][p] # None => versions'[i][p] # None
    BY <1>8, FilledStays
  <2>3. environment' = environment
    BY <1>8, RunsKept
  <2> QED BY <1>0, <2>1, <2>2, <2>3, WaitsKept DEF caches
<1> QED BY <1>1, <1>2, <1>3, <1>4, <1>5, <1>6, <1>7, <1>8

\* A reason stays a reason, and a driver that asks a provider which offers the
\* version starts a download only where there is something to download.
LEMMA ExplainedKept ==
    ASSUME Sound, [Next]_vars, ~Restart, ~NextEnvironment,
           NEW i \in Provider, NEW p \in Package, NEW v \in Version,
           Explained(i, <<p, v>>),
           StartDownload /\ Asking = i /\ Wanted = <<p, v>>
               => Offers(i, p, v)
    PROVE  Explained(i, <<p, v>>)'
<1> DEFINE k == <<p, v>>
<1>k. k \in Key /\ k[1] = p /\ k[2] = v
  BY DEF Key
<1>1. CASE UNCHANGED <<metadata, downloads, lost>>
  BY <1>1 DEF Explained
<1>2. CASE StartDownload
  <2>1. Asking \in Provider
    BY <1>2 DEF Sound, Queue, StartDownload, Allowed, Asking, Provider
  <2>2. Asking = i /\ Wanted = k => WheelInfo(Asking, Wanted).source =
                                       Source[p][v]
    BY <1>2, <1>k DEF Offers, WheelInfo
  <2>3. \A d \in downloads' : \/ d \in downloads
                              \/ /\ d.provider = Asking /\ d.key = Wanted
                                 /\ d.source = WheelInfo(Asking, Wanted).source
    BY <1>2 DEF StartDownload
  <2>4. metadata'[i][k] = Absent => metadata[i][k] = Absent
    BY <1>2, <1>k, <2>1, MarksAssumption
       DEF StartDownload, Sound, Inv, Slotted
  <2>5. lost' = lost
    BY <1>2 DEF StartDownload
  <2> HIDE DEF k
  <2> QED BY <1>k, <2>2, <2>3, <2>4, <2>5 DEF Explained, k
<1>3. ASSUME NEW t \in lookups, ClaimCandidate(t)
      PROVE  Explained(i, <<p, v>>)'
  <2>1. LookupShape(t)
    BY DEF Sound, Inv, LookupsWait
  <2>2. \A d \in downloads' : d \in downloads \/ d.source = "sidecar"
    <3>1. \/ downloads' = downloads
          \/ downloads' = downloads \cup
               {[provider |-> t.provider, key |-> <<t.package, Head(t.claims)>>,
                 pc |-> "queued", source |-> "sidecar", origin |-> IndexOf(t.provider)]}
      BY <1>3 DEF ClaimCandidate
    <3> QED BY <3>1
  <2>3. metadata'[i][k] = Absent => metadata[i][k] = Absent
    <3> DEFINE key == <<t.package, Head(t.claims)>>
    <3>1. \/ metadata' = metadata
          \/ metadata' = [metadata EXCEPT ![t.provider][key] = Pending]
          \/ metadata' = [metadata EXCEPT ![t.provider][key] = disk.metadata[key]]
      BY <1>3 DEF ClaimCandidate
    <3> HIDE DEF key, k
    <3>2. \A x \in Key : disk.metadata[x] # Absent
      BY MarksAssumption DEF Sound, Types, DiskTyped
    <3>3. DOMAIN metadata = Provider /\ \A x \in Provider : DOMAIN metadata[x] = Key
      BY DEF Sound, Inv, Slotted
    <3> QED BY <1>k, <2>1, <3>1, <3>2, <3>3, MarksAssumption DEF LookupShape
  <2>4. lost' = lost
    BY <1>3 DEF ClaimCandidate
  <2> HIDE DEF k
  <2> QED BY <1>k, <2>2, <2>3, <2>4 DEF Explained, k
<1>4. ASSUME NEW t \in downloads, DownloadStep(t)
      PROVE  Explained(i, <<p, v>>)'
  <2>1. DownloadShape(t)
    BY DEF Sound, Inv, DownloadsWait
  <2>s. DOMAIN metadata = Provider /\ \A x \in Provider : DOMAIN metadata[x] = Key
    BY DEF Sound, Inv, Slotted
  <2>2. CASE QueueDownload(t) \/ SendDownload(t)
    <3> DEFINE queued == [t EXCEPT !.pc = "queued"]
               sent == [t EXCEPT !.pc = "sending"]
    <3>1. queued.source = t.source /\ queued.provider = t.provider /\
          queued.key = t.key
      OBVIOUS
    <3>2. sent.source = t.source /\ sent.provider = t.provider /\ sent.key = t.key
      OBVIOUS
    <3>3. \/ downloads' = Move(downloads, t, queued)
          \/ downloads' = Move(downloads, t, sent)
      BY <2>2 DEF QueueDownload, SendDownload
    <3>4. UNCHANGED <<metadata, lost>>
      BY <2>2 DEF QueueDownload, SendDownload, slots
    <3> HIDE DEF queued, sent, k
    <3> QED BY <3>1, <3>2, <3>3, <3>4 DEF Explained, Move
  <2>3. CASE AnswerAtOnce(t)
    <3>1. PICK answer : Fill(t, answer) /\ (t.key \in Key /\ answer = Absent
                                               => t.source = "none")
      <4>1. OnDisk(t.provider, t.key) => disk.metadata[t.key] \in Index
        BY DownloadFields, OnDiskType DEF Sound
      <4> QED BY <2>3, <4>1, MarksAssumption DEF AnswerAtOnce
    <3>2. lost' = lost
      BY <2>3 DEF AnswerAtOnce
    <3> HIDE DEF k
    <3> QED BY <1>k, <2>1, <2>s, <3>1, <3>2
               DEF Explained, Fill, DownloadShape, k
  <2>4. CASE ReceiveMetadata(t)
    <3>1. Fill(t, t.origin) /\ t.origin # Absent /\ lost' = lost
      BY <2>4, DownloadFields, MarksAssumption DEF ReceiveMetadata, Sound
    <3> HIDE DEF k
    <3> QED BY <1>k, <2>1, <2>s, <3>1 DEF Explained, Fill, DownloadShape, k
  <2>5. CASE FailDownload(t)
    <3>1. Fill(t, Absent) /\ lost' = lost \cup {<<t.provider, t.key>>}
      BY <2>5 DEF FailDownload
    <3> HIDE DEF k
    <3> QED BY <1>k, <2>1, <2>s, <3>1 DEF Explained, Fill, DownloadShape, k
  <2> QED BY <1>4, <2>2, <2>3, <2>4, <2>5 DEF DownloadStep
<1>5. CASE /\ ~StartDownload /\ \A t \in lookups : ~ClaimCandidate(t)
           /\ \A t \in downloads : ~DownloadStep(t)
  <2>1. UNCHANGED <<metadata, downloads, lost>>
    <3>1. (\E t \in lookups : LookupStep(t))
            => UNCHANGED <<metadata, downloads, lost>>
      BY <1>5 DEF LookupStep, AnswerFromDisk, MissDisk,
             QueueLookup, SendLookup, RetryLookup, FailLookup, NotModified,
             ReceiveList, FinishLookup, slots
    <3> QED
      BY <1>5, <3>1
         DEF Next, DriverStep, TaskStep, Prefetch, UsePin, AskVersions,
             AskMetadata, Expire, Publish, TakeVersions, AskNextForVersions,
             TakeMetadata, AskNextForMetadata, ReadForRefresh, WriteList,
             WriteMetadata, vars, slots, tasks
  <2> QED BY <1>1, <2>1
<1> QED BY <1>2, <1>3, <1>4, <1>5

\* Without pins only an answer of a provider changes the driver's versions.
LEMMA CacheKept ==
    ASSUME Sound, Unpinned, [Next]_vars, ~Restart, ~NextEnvironment,
           ~TakeVersions
    PROVE  versionCache' = versionCache
<1>1. TaskStep => UNCHANGED versionCache
  BY DEF TaskStep, LookupStep, DownloadStep, AnswerFromDisk, MissDisk,
         QueueLookup, SendLookup, RetryLookup, FailLookup, NotModified,
         ReceiveList, ClaimCandidate, FinishLookup, AnswerAtOnce,
         QueueDownload, SendDownload, ReceiveMetadata, FailDownload, caches
<1>2. \A p \in Package : ~UsePin(p)
  BY DEF Unpinned, UsePin
<1> QED
  BY <1>1, <1>2
     DEF Next, DriverStep, Prefetch, AskVersions, Expire, AskMetadata, Publish,
         AskNextForVersions, StartDownload, TakeMetadata, AskNextForMetadata,
         ReadForRefresh, WriteList, WriteMetadata, vars, caches

LEMMA KnownNext ==
    ASSUME Sound, Unpinned, Unasked, Known, [Next]_vars
    PROVE  Unasked' /\ Known'
<1>k. \A p \in Package, v \in Version : <<p, v>> \in Key
  BY DEF Key
<1>p. Present \subseteq Provider
  BY PresentType DEF Sound
<1>s. ~Restart /\ ~NextEnvironment => Present' = Present
  BY RunsKept DEF Present
<1>0. CASE NextEnvironment
  <2>1. \A p \in Package : versionCache'[p] = None
    BY <1>0 DEF NextEnvironment, EmptyCaches
  <2>2. ASSUME NEW i \in Present', NEW k \in Key PROVE Explained(i, k)'
    <3>1. i \in Provider /\ i[2] > environment
      <4>1. environment \in Nat /\ environment' = environment + 1
            /\ environment < MaxEnvironments /\ MaxEnvironments \in Nat
        BY <1>0, FetchingAssumption DEF NextEnvironment, Sound, Queue
      <4>2. PICK x \in Index : i = <<x, environment + 1>>
        BY <2>2, <4>1 DEF Present
      <4> QED BY <4>1, <4>2 DEF Provider
    <3>2. metadata[i][k] = None /\ metadata'[i][k] = None
      BY <1>0, <3>1 DEF NextEnvironment, EmptySlots, Sound, Begun
    <3>3. \A d \in downloads' : ~(d.provider = i /\ d.key = k)
      BY <1>0, <3>2, NoneIsNotPending
         DEF NextEnvironment, tasks, Sound, Inv, DownloadsWait
    <3> QED BY <3>2, <3>3, MarksAssumption DEF Explained
  <2> QED BY <1>k, <2>1, <2>2 DEF Unasked, Known
<1>1. CASE Restart
  <2>0. Present' \subseteq Provider
    BY <1>1, FetchingAssumption DEF Restart, Present, Provider
  <2>1. /\ \A p \in Package : versionCache'[p] = None
        /\ downloads' = {}
        /\ \A i \in Provider, k \in Key : metadata'[i][k] = None
    BY <1>1 DEF Restart, EmptyCaches, EmptySlots
  <2> QED BY <1>k, <2>0, <2>1, MarksAssumption DEF Unasked, Known, Explained
<1>2. CASE TakeVersions
  <2>0. PICK q \in Package : q = driver.package
    BY <1>2 DEF TakeVersions, Sound, Waits
  <2>1. UNCHANGED <<metadata, downloads, lost, versions, environment>>
    BY <1>2 DEF TakeVersions, slots, tasks, bounds
  <2>s. Present' = Present
    BY <2>1 DEF Present
  <2>2. \A i \in Provider, k \in Key : Explained(i, k)' <=> Explained(i, k)
    BY <2>1 DEF Explained
  <2>3. versionCache[q] = None /\ DOMAIN versionCache = Package
    BY <1>2, <2>0 DEF TakeVersions, Sound, Waits
  <2>4. \A p \in Package : p # q => versionCache'[p] = versionCache[p]
    BY <1>2, <2>0, <2>3 DEF TakeVersions
  <2>5. versionCache'[q] = {} \/ Answered(q)'
    <3>1. CASE driver.asked = <<>>
      BY <1>2, <2>0, <2>3, <3>1 DEF TakeVersions
    <3>2. CASE driver.asked # <<>>
      <4>1. PICK a \in Present : a = Asking
        BY <1>2, <3>2, PresentType DEF TakeVersions, Sound, Queue, Asking
      <4>2. /\ q \in Serves[IndexOf(a)] /\ versions[a][q] # Pending
            /\ VersionsAnswer # {} /\ versionCache'[q] = VersionsAnswer
        BY <1>2, <2>0, <2>3, <3>2, <4>1
           DEF TakeVersions, Allowed, Asking, IndexOf
      <4>3. versions[a][q] # None /\ versions[a][q] # Failed
        BY <1>2, <2>0, <4>1, <4>2
           DEF TakeVersions, Sound, Waits, VersionsAnswer
      <4>4. versions[a][q] \in Edition
        BY <1>p, <2>3, <4>2, <4>3 DEF Sound, Types, SlotsTyped, VersionsSlot
      <4>5. VersionsAnswer = Members(q, versions[a][q])
        BY <2>0, <4>1, <4>3 DEF VersionsAnswer
      <4>6. ASSUME NEW v \in Version PROVE Explained(a, <<q, v>>)'
        BY <1>k, <1>p, <2>2, <2>3 DEF Unasked
      <4> QED
        BY <2>1, <2>s, <4>2, <4>3, <4>4, <4>5, <4>6 DEF Answered, Members
    <3> QED BY <3>1, <3>2
  <2>6. ASSUME NEW p \in Package, p # q, versionCache'[p] \notin {None, {}}
        PROVE  Answered(p)'
    <3>1. Answered(p) /\ versionCache'[p] = versionCache[p]
      BY <2>4, <2>6 DEF Known
    <3> QED BY <1>k, <1>p, <2>1, <2>s, <2>2, <3>1 DEF Answered, Members
  <2>7. Unasked'
    BY <1>k, <1>p, <2>s, <2>2, <2>3, <2>4 DEF Unasked
  <2> QED BY <2>5, <2>6, <2>7 DEF Known
<1>3. CASE ~Restart /\ ~NextEnvironment /\ ~TakeVersions
  <2>1. versionCache' = versionCache /\ runs' = runs
    BY <1>3, CacheKept, RunsKept
  <2>2. SlotsKept
    BY NextInv DEF Sound
  <2>3. Unasked'
    <3>1. SUFFICES ASSUME NEW p \in Package, versionCache'[p] = None,
                          NEW i \in Present, NEW v \in Version
                   PROVE  Explained(i, <<p, v>>)'
      BY <1>3, <1>s DEF Unasked
    <3>2. Explained(i, <<p, v>>)
      BY <2>1, <3>1 DEF Unasked
    <3>3. ~(StartDownload /\ Wanted = <<p, v>>)
      BY <2>1, <3>1 DEF StartDownload, Wanted, Sound, Waits
    <3> QED BY <1>3, <1>p, <3>2, <3>3, ExplainedKept
  <2>4. Known'
    <3>1. SUFFICES ASSUME NEW p \in Package, versionCache'[p] \notin {None, {}}
                   PROVE  Answered(p)'
      BY DEF Known
    <3>2. PICK i \in Present :
            /\ p \in Serves[IndexOf(i)]
            /\ versions[i][p] \in Edition \ {None, Pending}
            /\ versionCache[p] = Members(p, versions[i][p])
            /\ \A v \in Version :
                  v \in versionCache[p] => Explained(i, <<p, v>>)
      BY <2>1, <3>1 DEF Known, Answered
    <3>3. versions'[i][p] = versions[i][p]
      BY <1>p, <2>1, <2>2, <3>2 DEF SlotsKept
    <3>4. ASSUME NEW v \in Version, v \in versionCache[p]
          PROVE  Explained(i, <<p, v>>)'
      <4>1. Offers(i, p, v)
        BY <3>2, <3>4 DEF Offers
      <4> QED BY <1>3, <1>p, <3>2, <3>4, <4>1, ExplainedKept
    <3> QED BY <1>3, <1>s, <2>1, <3>2, <3>3, <3>4 DEF Answered, Members
  <2> QED BY <2>3, <2>4
<1> QED BY <1>0, <1>1, <1>2, <1>3

LEMMA DependenciesNext ==
    ASSUME Sound, Unpinned, Known, DependenciesKnown, [Next]_vars
    PROVE  DependenciesKnown'
<1>1. CASE Restart \/ NextEnvironment
  BY <1>1, MarksAssumption
     DEF Restart, NextEnvironment, EmptyCaches, DependenciesKnown
<1>2. CASE TakeMetadata
  <2>1. /\ driver.package \in Package /\ driver.version \in Version
        /\ driver.version \in versionCache[driver.package]
        /\ versionCache[driver.package] # None
        /\ \A i \in Index : driver.package \in Serves[i] =>
              \/ \E n \in 1..Len(driver.asked) : driver.asked[n] = i
              \/ metadata[<<i, environment>>][Wanted] = Absent
    BY <1>2 DEF TakeMetadata, Sound, Waits
  <2>2. Wanted \in Key /\ Wanted = <<driver.package, driver.version>>
    BY <2>1 DEF Wanted, Key
  <2>3. CASE driver.asked # <<>>
    <3>1. depsCache' = [depsCache EXCEPT ![Wanted] = metadata[Asking][Wanted]]
          /\ metadata[Asking][Wanted] \in Index /\ lost' = lost
          /\ environment' = environment
      BY <1>2, <2>3 DEF TakeMetadata, bounds
    <3> QED BY <2>2, <3>1, MarksAssumption
               DEF DependenciesKnown, Sound, Waits, Present
  <2>4. CASE driver.asked = <<>>
    <3>1. Answered(driver.package)
      BY <2>1 DEF Known
    <3>2. PICK i \in Present :
            /\ driver.package \in Serves[IndexOf(i)]
            /\ Explained(i, Wanted)
      BY <2>1, <2>2, <3>1 DEF Answered
    <3>3. metadata[i][Wanted] = Absent
      BY <2>1, <2>4, <3>2 DEF Present, IndexOf
    <3>4. <<i, Wanted>> \in lost \/ Source[Wanted[1]][Wanted[2]] = "none"
      BY <3>2, <3>3 DEF Explained
    <3>5. /\ depsCache' = [depsCache EXCEPT ![Wanted] = Absent]
          /\ lost' = lost /\ environment' = environment
      BY <1>2, <2>4 DEF TakeMetadata, bounds
    <3> QED BY <2>2, <3>4, <3>5 DEF DependenciesKnown, Sound, Waits, Present
  <2> QED BY <2>3, <2>4
<1>3. CASE ~Restart /\ ~NextEnvironment /\ ~TakeMetadata
  <2>0. Present' = Present
    BY <1>3, RunsKept DEF Present
  <2>1. depsCache' = depsCache /\ lost \subseteq lost'
    <3>1. TaskStep => depsCache' = depsCache /\ lost \subseteq lost'
      BY DEF TaskStep, LookupStep, DownloadStep, AnswerFromDisk, MissDisk,
             QueueLookup, SendLookup, RetryLookup, FailLookup, NotModified,
             ReceiveList, ClaimCandidate, FinishLookup, AnswerAtOnce,
             QueueDownload, SendDownload, ReceiveMetadata, FailDownload, caches
    <3> QED
      BY <1>3, <3>1
         DEF Next, DriverStep, Prefetch, UsePin, AskVersions, Expire,
             AskMetadata, Publish, TakeVersions, AskNextForVersions,
             StartDownload, AskNextForMetadata, ReadForRefresh, WriteList,
             WriteMetadata, vars, caches
  <2> QED BY <2>0, <2>1 DEF DependenciesKnown
<1> QED BY <1>1, <1>2, <1>3

\* While nothing is pinned, the driver takes a version to be free of
\* dependencies only if its metadata could not be had (get_dependencies).
THEOREM DependenciesFound == Spec => [](Unpinned => DependenciesKnown)
<1>1. Init => Sound
  BY InitInv, QueueInv, InitTypes, InitWaits, InitBegun DEF Sound
<1>2. Sound /\ [Next]_vars => Sound'
  <2>1. Sound /\ [Next]_vars => Inv' /\ Queue'
    BY NextInv, QueueInv DEF Sound
  <2>2. Sound /\ [Next]_vars => Begun'
    BY BegunNext DEF Sound
  <2> QED BY <2>1, <2>2, NextTypes, WaitsNext DEF Sound
<1> DEFINE Reasons == Unpinned => Unasked /\ Known /\ DependenciesKnown
<1>3. Init => Reasons
  <2>1. Init => /\ \A p \in Package : versionCache[p] = None
                /\ \A k \in Key : depsCache[k] = None
                /\ downloads = {}
                /\ \A i \in Provider, k \in Key : metadata[i][k] = None
    BY DEF Init, EmptyCaches, EmptySlots
  <2>2. \A p \in Package, v \in Version : <<p, v>> \in Key
    BY DEF Key
  <2>3. Init => Present \subseteq Provider
    BY QueueInv, PresentType
  <2> QED BY <2>1, <2>2, <2>3, MarksAssumption
             DEF Unasked, Known, Explained, DependenciesKnown
<1>4. Sound /\ Reasons /\ [Next]_vars => Reasons'
  BY KnownNext, DependenciesNext DEF Unpinned
<1>5. Reasons => (Unpinned => DependenciesKnown)
  OBVIOUS
<1> HIDE DEF Reasons
<1> QED
  BY <1>1, <1>2, <1>3, <1>4, <1>5, PTL DEF Spec

-----------------------------------------------------------------------------
(* What goes to disk.                                                      *)

\* The process's first provider of an index; and the list of p is what that of
\* the index that published it has given as its answer.
First(i) == <<i, 1>>

Vouched(p, e) == versions[First(e.origin)][p] = e

FileVouched(p) == Vouched(p, disk.lists[p].edition)

\* A list is replaced, in the first environment of a process, only by what its
\* index gave in that environment.  A refresh copies what it finds on disk when it runs; it is under
\* way only when that is such a list.
ListsVouched ==
    \A w \in writes : w.op = "list" => Vouched(w.package, w.edition)

RefreshesVouched ==
    \A w \in writes : w.op = "refresh" /\ disk.lists[w.package] # None =>
        FileVouched(w.package)

ValidatorsVouched ==
    \A t \in lookups :
        t.pc # "claiming" /\ t.cached # None /\ disk.lists[t.package] # None =>
        disk.lists[t.package].edition = t.cached \/ FileVouched(t.package)

\* What an index has answered is not older than what is on disk.
AnswersNewest ==
    \A i \in Index, p \in Package :
        /\ versions[First(i)][p] \in Edition /\ versions[First(i)][p].origin = i
        /\ disk.lists[p] # None /\ disk.lists[p].edition.origin = i
        => disk.lists[p].edition.revision <= versions[First(i)][p].revision

FileInv == ListsVouched /\ RefreshesVouched /\ ValidatorsVouched /\ AnswersNewest

LEMMA FirstType ==
    ASSUME NEW i \in Index
    PROVE  First(i) \in Provider /\ IndexOf(First(i)) = i
<1>1. 1 \in 1..MaxEnvironments
  BY FetchingAssumption
<1> QED BY <1>1 DEF First, Provider, IndexOf

\* In the first environment the tasks are those of the first providers.
LEMMA LookupFirst ==
    ASSUME Types, Begun, environment = 1, NEW t \in lookups
    PROVE  t.provider = First(IndexOf(t.provider)) /\ IndexOf(t.provider) \in Index
<1>1. t.provider \in Provider /\ t.provider[2] <= 1
  BY LookupFields DEF Begun
<1>2. \A i \in Provider : i[2] <= 1 => i = First(IndexOf(i)) /\ IndexOf(i) \in Index
  BY DEF Provider, IndexOf, First
<1> QED BY <1>1, <1>2

\* Within an environment an index stands by its answer.
LEMMA VouchedKept ==
    ASSUME SlotsKept, runs' = runs, NEW p \in Package, NEW e \in Edition,
           Vouched(p, e)
    PROVE  Vouched(p, e)'
<1>1. e.origin \in Index /\ e \notin {None, Pending}
  BY MarksAssumption DEF Edition
<1> QED BY <1>1, FirstType DEF SlotsKept, Vouched

LEMMA WritePackage ==
    ASSUME Types, NEW w \in writes, w.op \in {"list", "refresh"}
    PROVE  /\ w.package \in Package /\ w.provider \in Provider
           /\ w.op = "list" => w.edition \in Edition
BY DEF Types, DiskTyped, WritesTyped, ListWrite, RefreshWrite, MetadataWrite

\* A list on disk stays the list it is until another one is written.
LEMMA FileStep ==
    ASSUME Types, [Next]_vars, NEW p \in Package, disk'.lists[p] # None
    PROVE  \/ /\ disk.lists[p] # None
              /\ disk'.lists[p].edition = disk.lists[p].edition
           \/ \E w \in writes : /\ WriteList(w) /\ w.package = p
                                /\ disk'.lists[p].edition = w.edition
<1>d. disk.lists \in [Package -> {None} \cup ListFile]
  BY DEF Types, DiskTyped
<1>1. CASE UNCHANGED disk
  BY <1>1
<1>2. ASSUME NEW q \in Package, Expire(q)
      PROVE  /\ disk.lists[p] # None
             /\ disk'.lists[p].edition = disk.lists[p].edition
  <2> DEFINE file == [disk.lists[q] EXCEPT !.fresh = FALSE]
  <2>1. disk.lists[q] \in ListFile /\ disk.lists[q] # None
    BY <1>2, FileType DEF Expire
  <2>2. file.edition = disk.lists[q].edition
    BY <2>1 DEF ListFile
  <2>3. disk'.lists = [disk.lists EXCEPT ![q] = file]
    BY <1>2 DEF Expire, Types, DiskTyped
  <2> HIDE DEF file
  <2> QED BY <1>d, <2>1, <2>2, <2>3
<1>3. ASSUME NEW w \in writes, WriteList(w)
      PROVE  \/ /\ disk.lists[p] # None
                /\ disk'.lists[p].edition = disk.lists[p].edition
             \/ w.package = p /\ disk'.lists[p].edition = w.edition
  <2>1. w.package \in Package
    BY <1>3, WritePackage DEF WriteList
  <2>2. disk'.lists = [disk.lists EXCEPT ![w.package] =
                          [edition |-> w.edition, fresh |-> TRUE]]
    BY <1>3 DEF WriteList, Types, DiskTyped
  <2> QED BY <1>d, <2>1, <2>2
<1>4. ASSUME NEW w \in writes, WriteMetadata(w)
      PROVE  disk'.lists = disk.lists
  BY <1>4 DEF WriteMetadata, Types, DiskTyped
<1>5. TaskStep => UNCHANGED disk
  BY DEF TaskStep, LookupStep, DownloadStep, AnswerFromDisk, MissDisk,
         QueueLookup, SendLookup, RetryLookup, FailLookup, NotModified,
         ReceiveList, ClaimCandidate, FinishLookup, AnswerAtOnce,
         QueueDownload, SendDownload, ReceiveMetadata, FailDownload
<1>6. CASE /\ \A q \in Package : ~Expire(q)
           /\ \A w \in writes : ~WriteList(w) /\ ~WriteMetadata(w)
  <2>1. UNCHANGED disk
    BY <1>5, <1>6
       DEF Next, DriverStep, Prefetch, UsePin, AskVersions, AskMetadata,
           Publish, TakeVersions, AskNextForVersions, StartDownload,
           TakeMetadata, AskNextForMetadata, ReadForRefresh, NextEnvironment,
           Restart, vars
  <2> QED BY <1>1, <2>1
<1> QED BY <1>2, <1>3, <1>4, <1>6

\* Where a write comes from.
LEMMA WritesStep ==
    ASSUME Types, [Next]_vars, NEW w \in writes', w.op # "metadata"
    PROVE  \/ w \in writes /\ ~Restart
           \/ \E t \in lookups :
                 /\ ReceiveList(t)
                 /\ w = [op |-> "list", provider |-> t.provider,
                         package |-> t.package,
                         edition |-> Current(IndexOf(t.provider), t.package)]
           \/ \E t \in lookups :
                 /\ NotModified(t)
                 /\ w = [op |-> "refresh", provider |-> t.provider,
                         package |-> t.package]
           \/ \E x \in writes :
                 /\ ReadForRefresh(x) /\ disk.lists[x.package] # None
                 /\ w = [op |-> "list", provider |-> x.provider,
                         package |-> x.package,
                         edition |-> disk.lists[x.package].edition]
<1>1. ~Restart
  BY DEF Restart
<1>2. CASE writes' \subseteq writes
  BY <1>1, <1>2
<1>3. CASE \E t \in lookups : ReceiveList(t)
  BY <1>1, <1>3 DEF ReceiveList
<1>4. CASE \E t \in lookups : NotModified(t)
  BY <1>1, <1>4 DEF NotModified
<1>5. CASE \E x \in writes : ReadForRefresh(x)
  BY <1>1, <1>5 DEF ReadForRefresh
<1>6. CASE \E t \in downloads : ReceiveMetadata(t)
  BY <1>1, <1>6 DEF ReceiveMetadata
<1>7. CASE /\ \A t \in lookups : ~ReceiveList(t) /\ ~NotModified(t)
           /\ \A x \in writes : ~ReadForRefresh(x)
           /\ \A t \in downloads : ~ReceiveMetadata(t)
  <2>1. TaskStep => UNCHANGED writes
    BY <1>7
       DEF TaskStep, LookupStep, DownloadStep, AnswerFromDisk, MissDisk,
           QueueLookup, SendLookup, RetryLookup, FailLookup, ClaimCandidate,
           FinishLookup, AnswerAtOnce, QueueDownload, SendDownload, FailDownload
  <2>2. writes' \subseteq writes
    BY <1>7, <2>1
       DEF Next, DriverStep, Prefetch, UsePin, AskVersions, AskMetadata, Expire,
           Publish, TakeVersions, AskNextForVersions, StartDownload,
           TakeMetadata, AskNextForMetadata, WriteList, WriteMetadata,
           NextEnvironment, Restart, vars
  <2> QED BY <1>2, <2>2
<1> QED BY <1>3, <1>4, <1>5, <1>6, <1>7

\* Where the validators of a task that has no answer come from.
LEMMA ValidatorsStep ==
    ASSUME Types, [Next]_vars, NEW t \in lookups', t.pc # "claiming",
           t.cached # None
    PROVE  /\ ~Restart
           /\ \E u \in lookups :
                 /\ u.package = t.package
                 /\ \/ u.pc # "claiming" /\ u.cached = t.cached
                    \/ /\ QueueLookup(u) /\ disk.lists[t.package] # None
                       /\ t.cached = disk.lists[t.package].edition
<1>1. ~Restart
  BY DEF Restart
<1>2. CASE t \in lookups
  BY <1>1, <1>2
<1>3. CASE \E p \in Package : Prefetch(p)
  BY <1>1, <1>2, <1>3 DEF Prefetch
<1>4. ASSUME NEW u \in lookups, LookupStep(u), t \notin lookups
      PROVE  /\ u.package = t.package
             /\ \/ u.pc # "claiming" /\ u.cached = t.cached
                \/ /\ QueueLookup(u) /\ disk.lists[t.package] # None
                   /\ t.cached = disk.lists[t.package].edition
  <2>u. u \in Lookup
    BY LookupFields
  <2>1. CASE MissDisk(u)
    <3>1. t = [u EXCEPT !.pc = "missed"] /\ u.pc # "claiming"
      BY <1>4, <2>1 DEF MissDisk, Move
    <3> QED BY <2>u, <3>1 DEF Lookup
  <2>2. CASE SendLookup(u)
    <3>1. t = [u EXCEPT !.pc = "sending"] /\ u.pc # "claiming"
      BY <1>4, <2>2 DEF SendLookup, Move
    <3> QED BY <2>u, <3>1 DEF Lookup
  <2>3. CASE RetryLookup(u)
    <3>1. t = [u EXCEPT !.attempt = u.attempt + 1] /\ u.pc # "claiming"
      BY <1>4, <2>3 DEF RetryLookup, Move
    <3> QED BY <2>u, <3>1 DEF Lookup
  <2>4. CASE QueueLookup(u)
    <3> DEFINE list == IF disk.lists[u.package] = None THEN None
                       ELSE disk.lists[u.package].edition
    <3>1. t = [u EXCEPT !.pc = "queued", !.cached = list]
      BY <1>4, <2>4 DEF QueueLookup, Move
    <3> HIDE DEF list
    <3>2. t.package = u.package /\ t.cached = list
      BY <2>u, <3>1 DEF Lookup
    <3> QED BY <2>4, <3>2 DEF list
  <2>5. CASE ReceiveList(u)
    <3>1. PICK list : t = [u EXCEPT !.pc = "claiming", !.claims = list]
      BY <1>4, <2>5 DEF ReceiveList, Move
    <3> QED BY <2>u, <3>1 DEF Lookup
  <2>6. CASE ClaimCandidate(u)
    <3>1. PICK rest : t = [u EXCEPT !.claims = rest]
      BY <1>4, <2>6 DEF ClaimCandidate, Move
    <3> QED BY <2>u, <2>6, <3>1 DEF Lookup, ClaimCandidate
  <2>7. CASE lookups' \subseteq lookups
    BY <1>4, <2>7
  <2> QED
    BY <1>4, <2>1, <2>2, <2>3, <2>4, <2>5, <2>6, <2>7
       DEF LookupStep, AnswerFromDisk, FailLookup, NotModified, FinishLookup
<1>5. CASE ~(\E p \in Package : Prefetch(p)) /\ ~(\E u \in lookups : LookupStep(u))
  <2>1. (\E d \in downloads : DownloadStep(d)) => UNCHANGED lookups
    BY DEF DownloadStep, AnswerAtOnce, QueueDownload, SendDownload,
           ReceiveMetadata, FailDownload
  <2>2. UNCHANGED lookups
    BY <1>1, <1>5, <2>1
       DEF Next, DriverStep, TaskStep, UsePin, AskVersions, AskMetadata, Expire,
           Publish, TakeVersions, AskNextForVersions, StartDownload,
           TakeMetadata, AskNextForMetadata, ReadForRefresh, WriteList,
           WriteMetadata, NextEnvironment, vars, tasks
  <2> QED BY <1>2, <2>2
<1> QED BY <1>1, <1>2, <1>3, <1>4, <1>5

\* Where the answer of an index comes from.
LEMMA AnswersStep ==
    ASSUME Types, [Next]_vars, NEW i \in Provider, NEW p \in Package,
           versions'[i][p] \in Edition
    PROVE  \/ versions'[i][p] = versions[i][p]
           \/ /\ UNCHANGED <<disk, published>>
              /\ \/ /\ disk.lists[p] # None
                    /\ versions'[i][p] = disk.lists[p].edition
                 \/ versions'[i][p] = Current(IndexOf(i), p)
<1>v. versions \in [Provider -> [Package -> VersionsSlot]]
  BY DEF Types, SlotsTyped
<1>1. CASE UNCHANGED versions
  BY <1>1
<1>2. CASE Restart \/ NextEnvironment
  BY <1>2, MarksAssumption DEF Restart, NextEnvironment, EmptySlots
<1>3. ASSUME NEW q \in Package, Prefetch(q)
      PROVE  versions'[i][p] = versions[i][p]
  BY <1>v, <1>3, MarksAssumption DEF Prefetch
<1>4. ASSUME NEW t \in lookups, LookupStep(t)
      PROVE  \/ versions'[i][p] = versions[i][p]
             \/ /\ UNCHANGED <<disk, published>>
                /\ \/ /\ disk.lists[p] # None
                      /\ versions'[i][p] = disk.lists[p].edition
                   \/ versions'[i][p] = Current(IndexOf(i), p)
  <2>t. t.provider \in Provider /\ t.package \in Package
    BY LookupFields
  <2>1. CASE AnswerFromDisk(t)
    BY <1>v, <2>t, <2>1 DEF AnswerFromDisk, Fresh
  <2>2. CASE FailLookup(t)
    BY <1>v, <2>t, <2>2, MarksAssumption DEF FailLookup
  <2>3. CASE NotModified(t) \/ ReceiveList(t)
    <3>1. /\ versions' = [versions EXCEPT ![t.provider][t.package] =
                             Current(IndexOf(t.provider), t.package)]
          /\ UNCHANGED <<disk, published>>
      BY <2>3 DEF NotModified, ReceiveList
    <3> QED BY <1>v, <2>t, <3>1
  <2>4. CASE UNCHANGED versions
    BY <2>4
  <2> QED
    BY <1>4, <2>1, <2>2, <2>3, <2>4
       DEF LookupStep, MissDisk, QueueLookup, SendLookup, RetryLookup,
           ClaimCandidate, FinishLookup, slots
<1>5. CASE /\ ~Restart /\ ~NextEnvironment
           /\ \A q \in Package : ~Prefetch(q)
           /\ \A t \in lookups : ~LookupStep(t)
  <2>1. (\E d \in downloads : DownloadStep(d)) => UNCHANGED versions
    BY DEF DownloadStep, AnswerAtOnce, QueueDownload, SendDownload,
           ReceiveMetadata, FailDownload, slots
  <2>2. UNCHANGED versions
    BY <1>5, <2>1
       DEF Next, DriverStep, TaskStep, UsePin, AskVersions, AskMetadata, Expire,
           Publish, TakeVersions, AskNextForVersions, StartDownload,
           TakeMetadata, AskNextForMetadata, ReadForRefresh, WriteList,
           WriteMetadata, vars, slots
  <2> QED BY <1>1, <2>2
<1> QED BY <1>2, <1>3, <1>4, <1>5

\* A file on disk that changes is vouched for; one that was vouched for, or
\* changes, is vouched for.
LEMMA FileStaysVouched ==
    ASSUME Types, SlotsKept, runs' = runs, ListsVouched, [Next]_vars,
           NEW p \in Package, disk'.lists[p] # None
    PROVE  \/ FileVouched(p)'
           \/ /\ disk.lists[p] # None
              /\ disk'.lists[p].edition = disk.lists[p].edition
              /\ ~FileVouched(p)
<1>1. ASSUME NEW w \in writes, WriteList(w), w.package = p,
             disk'.lists[p].edition = w.edition
      PROVE  FileVouched(p)'
  <2>1. w.op = "list" /\ w.edition \in Edition
    BY <1>1, WritePackage DEF WriteList
  <2>2. Vouched(p, w.edition)
    BY <1>1, <2>1 DEF ListsVouched
  <2>3. Vouched(p, w.edition)'
    BY <2>1, <2>2, VouchedKept
  <2> QED BY <1>1, <2>3 DEF FileVouched, Vouched
<1>2. ASSUME disk.lists[p] # None, FileVouched(p),
             disk'.lists[p].edition = disk.lists[p].edition
      PROVE  FileVouched(p)'
  <2>1. PICK e : e = disk.lists[p].edition
    OBVIOUS
  <2>2. e \in Edition /\ Vouched(p, e)
    BY <1>2, <2>1, FileType DEF FileVouched
  <2>3. Vouched(p, e)'
    BY <2>2, VouchedKept
  <2> QED BY <1>2, <2>1, <2>3 DEF FileVouched, Vouched
<1> QED BY <1>1, <1>2, FileStep

LEMMA FileInvNext ==
    ASSUME Types, Types', Inv, Queue, Begun, environment = 1 => FileInv,
           [Next]_vars, environment' = 1
    PROVE  FileInv'
<1>1. CASE Restart
  <2>1. /\ writes' = {} /\ lookups' = {}
        /\ \A i \in Provider, p \in Package : versions'[i][p] = None
    BY <1>1 DEF Restart, EmptySlots
  <2> QED BY <2>1, FirstType, MarksAssumption
             DEF FileInv, ListsVouched, RefreshesVouched, ValidatorsVouched,
                 AnswersNewest
<1>0. ~NextEnvironment
  BY DEF NextEnvironment, Queue
<1>2. CASE ~Restart
  <2>0. runs' = runs /\ SlotsKept
    BY <1>0, <1>2, RunsKept, NextInv
  <2>e. environment = 1 /\ FileInv
    BY <1>0, <1>2, RunsKept
  \* The answer a task gives is vouched for at once.
  <2>c. ASSUME NEW t \in lookups, NotModified(t) \/ ReceiveList(t)
        PROVE  Vouched(t.package, Current(IndexOf(t.provider), t.package))'
    <3> DEFINE i == IndexOf(t.provider)
    <3>1. t.provider = First(i) /\ First(i) \in Provider /\ t.package \in Package
      BY <2>e, LookupFields, LookupFirst
    <3>2. /\ versions' = [versions EXCEPT ![t.provider][t.package] =
                             Current(i, t.package)]
          /\ published' = published
      BY <2>c DEF NotModified, ReceiveList
    <3>3. versions \in [Provider -> [Package -> VersionsSlot]]
      BY DEF Types, SlotsTyped
    <3> HIDE DEF i
    <3>4. Current(i, t.package).origin = i
      BY DEF Current
    <3>5. versions'[First(i)][t.package] = Current(i, t.package)
      BY <3>1, <3>2, <3>3
    <3> QED BY <3>2, <3>4, <3>5 DEF Vouched, Current, i
  <2>1. ListsVouched'
    <3>1. SUFFICES ASSUME NEW w \in writes', w.op = "list"
                   PROVE  Vouched(w.package, w.edition)'
      BY DEF ListsVouched
    <3>2. CASE w \in writes
      BY <2>e, <2>0, <3>1, <3>2, WritePackage, VouchedKept DEF FileInv, ListsVouched
    <3>3. ASSUME NEW t \in lookups, ReceiveList(t),
                 w = [op |-> "list", provider |-> t.provider, package |-> t.package,
                      edition |-> Current(IndexOf(t.provider), t.package)]
          PROVE  Vouched(w.package, w.edition)'
      <4>1. Vouched(t.package, Current(IndexOf(t.provider), t.package))'
        BY <2>c, <3>3
      <4>2. Current(IndexOf(t.provider), t.package)' = Current(IndexOf(t.provider), t.package)
        BY <3>3 DEF ReceiveList, Current
      <4> QED BY <3>3, <4>1, <4>2 DEF Vouched
    <3>4. ASSUME NEW x \in writes, ReadForRefresh(x),
                 disk.lists[x.package] # None,
                 w = [op |-> "list", provider |-> x.provider, package |-> x.package,
                      edition |-> disk.lists[x.package].edition]
          PROVE  Vouched(w.package, w.edition)'
      <4>1. x.op = "refresh" /\ x.package \in Package
        BY <3>4, WritePackage DEF ReadForRefresh
      <4>2. Vouched(w.package, w.edition) /\ w.edition \in Edition
        BY <2>e, <3>4, <4>1, FileType
           DEF FileInv, RefreshesVouched, FileVouched
      <4> QED BY <2>0, <3>4, <4>1, <4>2, VouchedKept
    <3> QED BY <3>1, <3>2, <3>3, <3>4, WritesStep
  <2>2. RefreshesVouched'
    <3>1. SUFFICES ASSUME NEW w \in writes', w.op = "refresh",
                          disk'.lists[w.package] # None
                   PROVE  FileVouched(w.package)'
      BY DEF RefreshesVouched
    <3>2. CASE w \in writes
      <4>1. w.package \in Package
        BY <3>1, <3>2, WritePackage
      <4>2. disk.lists[w.package] # None => FileVouched(w.package)
        BY <2>e, <3>1, <3>2 DEF FileInv, RefreshesVouched
      <4> QED BY <2>e, <2>0, <3>1, <4>1, <4>2, FileStaysVouched DEF FileInv
    <3>3. ASSUME NEW t \in lookups, NotModified(t),
                 w = [op |-> "refresh", provider |-> t.provider,
                      package |-> t.package]
          PROVE  FileVouched(w.package)'
      <4> DEFINE p == t.package
      <4>1. /\ p \in Package /\ t.pc = "sending" /\ w.package = p
            /\ t.cached = Current(IndexOf(t.provider), p) /\ t.cached # None
            /\ disk' = disk /\ published' = published
        <5>1. p \in Package /\ t.provider \in Provider
          BY LookupFields
        <5>2. Current(IndexOf(t.provider), p) \in Edition
          BY <5>1, CurrentType DEF Types, Provider, IndexOf
        <5> QED BY <3>3, <5>1, <5>2, MarksAssumption DEF NotModified
      <4>2. disk.lists[p].edition = t.cached \/ FileVouched(p)
        BY <2>e, <3>1, <4>1 DEF FileInv, ValidatorsVouched
      <4>3. CASE FileVouched(p)
        BY <2>e, <2>0, <3>1, <4>1, <4>3, FileStaysVouched DEF FileInv
      <4>4. CASE disk.lists[p].edition = t.cached
        <5>1. Vouched(p, Current(IndexOf(t.provider), p))'
          BY <2>c, <3>3
        <5>2. Current(IndexOf(t.provider), p)' = disk'.lists[p].edition
          BY <4>1, <4>4 DEF Current
        <5> QED BY <4>1, <5>1, <5>2 DEF FileVouched, Vouched
      <4> QED BY <4>2, <4>3, <4>4
    <3> QED BY <3>1, <3>2, <3>3, WritesStep
  <2>3. ValidatorsVouched'
    <3>1. SUFFICES ASSUME NEW t \in lookups', t.pc # "claiming",
                          t.cached # None, disk'.lists[t.package] # None
                   PROVE  \/ disk'.lists[t.package].edition = t.cached
                          \/ FileVouched(t.package)'
      BY DEF ValidatorsVouched
    <3>2. PICK u \in lookups :
            /\ u.package = t.package
            /\ \/ u.pc # "claiming" /\ u.cached = t.cached
               \/ /\ QueueLookup(u) /\ disk.lists[t.package] # None
                  /\ t.cached = disk.lists[t.package].edition
      BY <3>1, ValidatorsStep
    <3>3. t.package \in Package
      BY <3>2, LookupFields
    <3>4. disk.lists[t.package] # None =>
             \/ disk.lists[t.package].edition = t.cached
             \/ FileVouched(t.package)
      BY <2>e, <3>1, <3>2 DEF FileInv, ValidatorsVouched
    <3> QED BY <2>e, <2>0, <3>1, <3>3, <3>4, FileStaysVouched DEF FileInv
  <2>4. AnswersNewest'
    <3>1. SUFFICES ASSUME NEW i \in Index, NEW p \in Package,
                          versions'[First(i)][p] \in Edition,
                          versions'[First(i)][p].origin = i,
                          disk'.lists[p] # None,
                          disk'.lists[p].edition.origin = i
                   PROVE  disk'.lists[p].edition.revision
                             <= versions'[First(i)][p].revision
      BY DEF AnswersNewest
    <3>2. disk'.lists[p].edition.revision \in Nat
      <4>1. disk'.lists \in [Package -> {None} \cup ListFile]
        BY DEF Types, DiskTyped
      <4> QED BY <3>1, <4>1 DEF ListFile, Edition
    <3>3. CASE FileVouched(p)'
      BY <3>1, <3>2, <3>3 DEF FileVouched, Vouched
    <3>4. CASE ~FileVouched(p)'
      <4>1. /\ disk.lists[p] # None
            /\ disk'.lists[p].edition = disk.lists[p].edition
        BY <2>e, <2>0, <3>1, <3>4, FileStaysVouched DEF FileInv
      <4>2. CASE versions'[First(i)][p] = versions[First(i)][p]
        BY <2>e, <3>1, <4>1, <4>2 DEF FileInv, AnswersNewest
      <4>3. CASE versions'[First(i)][p] = disk.lists[p].edition
        BY <3>2, <4>1, <4>3
      <4>4. CASE versions'[First(i)][p] = Current(i, p)
        <5>1. disk.lists[p].edition \in Editions(p)
          BY <4>1, FileType
        <5>2. disk.lists[p].edition.revision <= published[i][p]
          BY <3>1, <4>1, <5>1 DEF Editions
        <5> QED BY <4>1, <4>4, <5>2 DEF Current
      <4> QED BY <3>1, <4>2, <4>3, <4>4, FirstType, AnswersStep
    <3> QED BY <3>3, <3>4
  <2> QED BY <2>1, <2>2, <2>3, <2>4 DEF FileInv
<1> QED BY <1>1, <1>2

\* What ListsAdvance says of one step.
Advancing ==
    environment = 1 =>
        \A p \in Package :
            LET old == disk.lists[p]
                new == disk'.lists[p]
            IN  /\ old # None /\ new # None
                /\ old.edition.origin = new.edition.origin
                => new.edition.revision >= old.edition.revision

LEMMA StepAdvances ==
    ASSUME Types, environment = 1 => FileInv, [Next]_vars
    PROVE  Advancing
<1>1. SUFFICES ASSUME environment = 1, NEW p \in Package, disk.lists[p] # None,
                      disk'.lists[p] # None,
                      disk.lists[p].edition.origin
                          = disk'.lists[p].edition.origin
               PROVE  disk'.lists[p].edition.revision
                          >= disk.lists[p].edition.revision
  BY DEF Advancing
<1>2. disk.lists[p].edition \in Edition
  BY <1>1, FileType
<1>3. CASE disk'.lists[p].edition = disk.lists[p].edition
  BY <1>2, <1>3 DEF Edition
<1>4. ASSUME NEW w \in writes, WriteList(w), w.package = p,
             disk'.lists[p].edition = w.edition
      PROVE  w.edition.revision >= disk.lists[p].edition.revision
  <2>1. w.op = "list" /\ w.edition \in Edition
    BY <1>4, WritePackage DEF WriteList
  <2>2. versions[First(w.edition.origin)][p] = w.edition
    BY <1>1, <1>4, <2>1 DEF FileInv, ListsVouched, Vouched
  <2>3. w.edition.origin \in Index
    BY <2>1 DEF Edition
  <2>4. disk.lists[p].edition.revision <= w.edition.revision
    BY <1>1, <1>4, <2>1, <2>2, <2>3 DEF FileInv, AnswersNewest
  <2> QED BY <1>2, <2>1, <2>4 DEF Edition
<1> QED BY <1>1, <1>3, <1>4, FileStep

\* While a process resolves its first environment, no write of its providers,
\* however late, replaces a list on disk by an older one of the same index
\* (write_versions, refresh_versions_timestamp).  Later on what an earlier
\* environment has left to write is still about, and nothing of the kind holds.
THEOREM NeverOlder == Spec => ListsAdvance
<1> DEFINE FInv == Types /\ Inv /\ Queue /\ Begun /\ (environment = 1 => FileInv)
<1>1. Init => FInv
  <2>1. Init => FileInv
    BY FirstType, MarksAssumption
       DEF Init, EmptySlots, FileInv, ListsVouched, RefreshesVouched,
           ValidatorsVouched, AnswersNewest
  <2> QED BY <2>1, InitTypes, InitInv, QueueInv, InitBegun
<1>2. FInv /\ [Next]_vars => FInv'
  <2> SUFFICES ASSUME FInv, [Next]_vars PROVE FInv'
    OBVIOUS
  <2>1. Types'
    BY NextTypes
  <2>2. Inv' /\ Queue'
    BY NextInv, QueueInv
  <2>3. environment' = 1 => FileInv'
    BY <2>1, FileInvNext
  <2>4. Begun'
    BY BegunNext
  <2> QED BY <2>1, <2>2, <2>3, <2>4
<1>3. FInv /\ [Next]_vars => [Advancing]_vars
  BY StepAdvances
<1>4. ListsAdvance <=> [][Advancing]_vars
  BY DEF ListsAdvance, Advancing
<1> HIDE DEF FInv
<1> QED BY <1>1, <1>2, <1>3, <1>4, PTL DEF Spec
=============================================================================
