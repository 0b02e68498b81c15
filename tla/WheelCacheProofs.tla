--------------------------- MODULE WheelCacheProofs ---------------------------
(***************************************************************************)
(* One command at a time, whose removals are not cut short, leaves no      *)
(* archive in place but whole ones, and what it reports as installed is    *)
(* the whole wheel unless the list of its files was cut with names in it,  *)
(* for any wheels, any number of commands and failures and kills between   *)
(* any two steps of extracting, renaming and listing.                      *)
(***************************************************************************)
EXTENDS WheelCache, SequenceLemmas

\* Commands take turns, and a removal that has begun ends.
InTurn == ~Concurrent /\ ~Interruptible

Steps == {"idle", "fetching", "extracting", "listing", "verifying", "found",
          "linking", "installed", "failed", "removing"}

Job == [pc: Steps, key: Key \cup {None}, list: Seq(Name) \cup {None},
        todo: Seq(Name), linked: SUBSET Path, fetched: BOOLEAN,
        victims: SUBSET Key]

Types ==
    /\ archive \in [Key -> (SUBSET Path) \cup {None}]
    /\ manifest \in [Key -> Seq(Name) \cup {None}]
    /\ tmp \in [Key -> (SUBSET Path) \cup {None}]
    /\ job \in [Command -> Job]

\* A list is missing, empty, complete or cut; it is cut where a command stopped
\* while it wrote it, or is writing it.
Manifests ==
    \A k \in Key :
        \/ manifest[k] \in {None, <<>>, Contents[k]}
        \/ /\ manifest[k] \in Cut(k)
           /\ \/ k \in cutShort
              \/ \E i \in Command : job[i].pc = "listing" /\ job[i].key = k

OneAtATime ==
    \A i, j \in Command : job[i].pc # "idle" /\ job[j].pc # "idle" => i = j

\* What a command that goes by this list, if there is one, is to link.
Wanted(k, list) == IF list \in Cut(k) THEN Range(list) \ {Torn}
                                      ELSE AllFiles(k)

\* Where the archive of a command is at each of its steps, and what of the
\* wheel is still to be extracted or linked.
AtWork(i) ==
    LET k == job[i].key
        listed == \/ job[i].list \in {None, Contents[k]}
                  \/ k \in cutShort /\ job[i].list \in Cut(k)
    IN  /\ job[i].pc \notin {"idle", "removing", "failed"} => k \in Key
        /\ job[i].pc \notin {"linking", "installed", "failed"} =>
              job[i].linked = {}
        /\ job[i].pc = "fetching" => k \notin Present /\ job[i].list = None
        /\ job[i].pc = "extracting" =>
              /\ k \notin Present /\ tmp[k] # None
              /\ tmp[k] \cup Range(job[i].todo) = AllFiles(k)
        /\ job[i].pc = "listing" => k \in Present
        /\ job[i].pc \in {"verifying", "found"} => k \in Present
        /\ job[i].pc \in {"verifying", "found", "linking", "installed"} => listed
        /\ job[i].pc = "linking" =>
              /\ k \in Present
              /\ job[i].linked \cup (Range(job[i].todo) \ {Torn}) =
                    Wanted(k, job[i].list)
        /\ job[i].pc = "installed" => job[i].linked = Wanted(k, job[i].list)

Inv == /\ Types /\ Manifests /\ OneAtATime /\ ArchivesWhole
       /\ \A i \in Command : AtWork(i)

-----------------------------------------------------------------------------
(* Facts about one state.                                                  *)

LEMMA Wheels ==
    ASSUME NEW k \in Key
    PROVE  /\ Contents[k] \in Seq(Path) /\ AllFiles(k) \subseteq Path
           /\ IsFiniteSet(AllFiles(k)) /\ Contents[k] # None /\ k # None
           /\ Contents[k] \in Seq(Name) /\ Torn \notin AllFiles(k)
<1>1. /\ Contents[k] \in Seq(Path) /\ AllFiles(k) \subseteq Path
      /\ IsFiniteSet(AllFiles(k)) /\ Contents[k] # None /\ k # None
  BY WheelCacheAssumption, FiniteRange, RangeOfSeq DEF AllFiles
<1> QED BY <1>1, WheelCacheAssumption DEF Name

\* A list that was cut is a list of names of the wheel, and perhaps a torn one.
LEMMA CutLists ==
    ASSUME NEW k \in Key, NEW list \in Cut(k)
    PROVE  /\ list \in Seq(Name) /\ list # <<>>
           /\ Range(list) \ {Torn} \subseteq AllFiles(k)
<1> DEFINE S == AllFiles(k) \cup {Torn}
           parts == {SubSeq(Contents[k], 1, n) : n \in 0..Len(Contents[k]) - 1}
<1>1. \A part \in parts : part \in Seq(S)
  <2> SUFFICES ASSUME NEW n \in 0..Len(Contents[k]) - 1
               PROVE  SubSeq(Contents[k], 1, n) \in Seq(S)
    OBVIOUS
  <2> DEFINE c == Contents[k]
  <2>1. Len(c) \in Nat /\ n \in Nat /\ n <= Len(c)
    BY Wheels
  <2>2. \A m \in 1..n : c[m] \in S
    BY <2>1, Wheels DEF AllFiles, Range
  <2>3. c \in Seq(Path)
    BY Wheels
  <2> HIDE DEF S, c
  <2>4. \A m \in 1..n : SubSeq(c, 1, n)[m] = c[m]
    BY <2>1, <2>3
  <2>5. SubSeq(c, 1, n) \in Seq(Path) /\ Len(SubSeq(c, 1, n)) = n
    BY <2>1, <2>3
  <2>6. SubSeq(c, 1, n) \in [1..n -> Path]
    BY <2>5, LenProperties
  <2>7. SubSeq(c, 1, n) \in [1..n -> S]
    BY <2>2, <2>4, <2>6
  <2>8. SubSeq(c, 1, n) \in Seq(S)
    BY <2>1, <2>7, SeqDef
  <2> QED BY <2>8 DEF c
<1>2. \/ list \in parts
      \/ \E part \in parts : \E f \in S : list = Append(part, f)
  BY DEF Cut
<1> HIDE DEF parts, S
<1>3. list \in Seq(S)
  BY <1>1, <1>2
<1> USE DEF S
<1>4. Range(list) \subseteq S
  BY <1>3 DEF Range
<1>5. S \subseteq Name
  BY Wheels DEF Name
<1>6. list # <<>>
  BY DEF Cut
<1> QED BY <1>3, <1>4, <1>5, <1>6

LEMMA NotCut ==
    ASSUME NEW k \in Key
    PROVE  None \notin Cut(k) /\ Contents[k] \notin Cut(k)
<1>1. None \notin Cut(k)
  BY WheelCacheAssumption
<1>2. Contents[k] \notin Cut(k)
  BY DEF Cut
<1> QED BY <1>1, <1>2

LEMMA EmptyRange == Range(<<>>) = {}
BY DEF Range

LEMMA NoJobType == NoJob \in Job
BY DEF NoJob, Job, Steps

\* While a command is at work and removes nothing, every archive is whole.
LEMMA WholeAtWork ==
    ASSUME Inv, NEW i \in Command, job[i].pc \notin {"idle", "removing"}
    PROVE  \A k \in Present : archive[k] = AllFiles(k)
BY DEF Inv, ArchivesWhole, OneAtATime, At

\* A command that may start finds all others idle, and every archive whole.
LEMMA WholeAtStart ==
    ASSUME InTurn, Inv, NEW i \in Command, MayStart(i)
    PROVE  /\ \A j \in Command : job[j].pc = "idle"
           /\ \A k \in Present : archive[k] = AllFiles(k)
BY DEF InTurn, MayStart, At, Inv, ArchivesWhole

\* What a step changes when only the command that takes it changes its job and
\* no archive changes.
LEMMA JobStep ==
    ASSUME Inv, NEW i \in Command, NEW new \in Job,
           \A j \in Command : j # i => job[j].pc = "idle",
           job' = [job EXCEPT ![i] = new],
           \A k \in Present : archive[k] = AllFiles(k),
           archive' = archive, tmp' \in [Key -> (SUBSET Path) \cup {None}],
           manifest' \in [Key -> Seq(Name) \cup {None}], Manifests',
           AtWork(i)'
    PROVE  Inv'
<1>1. \A j \in Command : job'[j] = IF j = i THEN new ELSE job[j]
  BY DEF Inv, Types
<1>2. Types'
  BY DEF Inv, Types
<1>3. OneAtATime'
  BY <1>1 DEF OneAtATime
<1>4. ArchivesWhole'
  BY DEF ArchivesWhole, Present
<1>5. \A j \in Command : j # i => AtWork(j)'
  BY <1>1 DEF Inv, AtWork
<1> QED BY <1>2, <1>3, <1>4, <1>5 DEF Inv

\* A job with one field changed is a job.
LEMMA JobEdits ==
    ASSUME NEW r \in Job
    PROVE  /\ \A p \in Steps : [r EXCEPT !.pc = p] \in Job
           /\ \A k \in Key : [r EXCEPT !.key = k] \in Job
           /\ \A l \in Seq(Name) \cup {None} : [r EXCEPT !.list = l] \in Job
           /\ \A t \in Seq(Name) : [r EXCEPT !.todo = t] \in Job
           /\ \A fs \in SUBSET Path : [r EXCEPT !.linked = fs] \in Job
           /\ \A b \in BOOLEAN : [r EXCEPT !.fetched = b] \in Job
           /\ \A ks \in SUBSET Key : [r EXCEPT !.victims = ks] \in Job
<1>1. \A p \in Steps : [r EXCEPT !.pc = p] \in Job
  BY DEF Job
<1>2. \A k \in Key : [r EXCEPT !.key = k] \in Job
  BY DEF Job
<1>3. \A l \in Seq(Name) \cup {None} : [r EXCEPT !.list = l] \in Job
  BY DEF Job
<1>4. \A t \in Seq(Name) : [r EXCEPT !.todo = t] \in Job
  BY DEF Job
<1>5. \A fs \in SUBSET Path : [r EXCEPT !.linked = fs] \in Job
  BY DEF Job
<1>6. \A b \in BOOLEAN : [r EXCEPT !.fetched = b] \in Job
  BY DEF Job
<1>7. \A ks \in SUBSET Key : [r EXCEPT !.victims = ks] \in Job
  BY DEF Job
<1> QED BY <1>1, <1>2, <1>3, <1>4, <1>5, <1>6, <1>7

LEMMA JobFields ==
    ASSUME Inv, NEW i \in Command
    PROVE  /\ job[i] \in Job
           /\ job[i].list \in Seq(Name) \cup {None}
           /\ job[i].todo \in Seq(Name) /\ job[i].linked \subseteq Path
           /\ job[i].victims \subseteq Key
<1>1. job[i] \in Job
  BY DEF Inv, Types
<1> QED BY <1>1 DEF Job

LEMMA Others ==
    ASSUME Inv, NEW i \in Command, job[i].pc # "idle"
    PROVE  \A j \in Command : j # i => job[j].pc = "idle"
BY DEF Inv, OneAtATime

\* A list that is cut stays accounted for, as long as the command that writes
\* it does not stop silently.
LEMMA ListsKept ==
    ASSUME Inv, NEW i \in Command, UNCHANGED manifest,
           \A j \in Command : j # i => job[j].pc = "idle",
           Stop(i) \/ (cutShort' = cutShort /\ job[i].pc # "listing")
    PROVE  Manifests'
<1> SUFFICES ASSUME NEW k \in Key, manifest[k] \in Cut(k),
                    manifest[k] \notin {None, <<>>, Contents[k]}
             PROVE  k \in cutShort'
  BY DEF Inv, Manifests
<1>1. \/ k \in cutShort
      \/ \E j \in Command : job[j].pc = "listing" /\ job[j].key = k
  BY DEF Inv, Manifests
<1>2. \A j \in Command : job[j].pc = "listing" => j = i
  OBVIOUS
<1> QED BY <1>1, <1>2 DEF Stop, At

\* Giving up.
LEMMA FailInv ==
    ASSUME Inv, NEW i \in Command, job[i].pc \notin {"idle", "removing"},
           Fail(i), Stop(i), UNCHANGED <<archive, manifest, tmp>>
    PROVE  Inv'
<1> DEFINE new == [job[i] EXCEPT !.pc = "failed"]
<1>1. new \in Job /\ new.pc = "failed"
  BY JobFields DEF Job, Steps
<1>2. job' = [job EXCEPT ![i] = new]
  BY DEF Fail
<1>3. job'[i] = new
  BY <1>2 DEF Inv, Types
<1>4. AtWork(i)'
  BY <1>1, <1>3 DEF AtWork
<1>5. \A k \in Present : archive[k] = AllFiles(k)
  BY WholeAtWork
<1>6. Manifests'
  BY ListsKept, Others
<1> HIDE DEF new
<1> QED BY <1>1, <1>2, <1>4, <1>5, <1>6, JobStep, Others DEF Inv, Types

-----------------------------------------------------------------------------
(* The invariant, action by action.                                        *)

\* Commands begin.
LEMMA StartInv ==
    ASSUME InTurn, Inv, NEW i \in Command, NEW k \in Key,
           FindArchive(i, k) \/ StartDownload(i, k)
    PROVE  Inv'
<1>1. /\ \A j \in Command : job[j].pc = "idle"
      /\ \A j \in Present : archive[j] = AllFiles(j)
      /\ UNCHANGED <<archive, manifest, tmp, cutShort>>
  BY WholeAtStart DEF FindArchive, StartDownload
<1>2. /\ Manifests'
      /\ \/ manifest[k] \in {None, <<>>, Contents[k]}
         \/ k \in cutShort /\ manifest[k] \in Cut(k)
  <2>1. \A j \in Command : job[j].pc # "listing"
    BY <1>1
  <2>2. Manifests'
    BY <1>1, <2>1, ListsKept
  <2> QED BY <2>1, <2>2 DEF Inv, Manifests
<1>3. CASE FindArchive(i, k)
  <2> DEFINE new == [NoJob EXCEPT !.pc = "found", !.key = k, !.list = ListOf(k)]
  <2>1. \/ ListOf(k) \in {None, Contents[k]}
        \/ k \in cutShort /\ ListOf(k) \in Cut(k)
    BY <1>2 DEF ListOf
  <2>2. new \in Job
    <3>1. ListOf(k) \in Seq(Name) \cup {None}
      BY <2>1, Wheels, CutLists
    <3> QED BY <3>1, NoJobType, JobEdits DEF Steps
  <2>3. /\ new.pc = "found" /\ new.key = k /\ new.list = ListOf(k)
        /\ new.linked = {}
    BY DEF NoJob
  <2>4. job' = [job EXCEPT ![i] = new] /\ k \in Present
    BY <1>3 DEF FindArchive
  <2> HIDE DEF new
  <2>5. job'[i] = new
    BY <2>4 DEF Inv, Types
  <2>6. AtWork(i)'
    BY <1>1, <2>1, <2>3, <2>4, <2>5 DEF AtWork, Present
  <2> QED BY <1>1, <1>2, <2>2, <2>4, <2>6, JobStep DEF Inv, Types
<1>4. CASE StartDownload(i, k)
  <2> DEFINE new == [NoJob EXCEPT !.pc = "fetching", !.key = k, !.fetched = TRUE]
  <2>1. new \in Job
    BY NoJobType, JobEdits DEF Steps
  <2>2. /\ new.pc = "fetching" /\ new.key = k /\ new.list = None
        /\ new.linked = {}
    BY DEF NoJob
  <2>3. job' = [job EXCEPT ![i] = new] /\ k \notin Present
    BY <1>4 DEF StartDownload
  <2> HIDE DEF new
  <2>4. job'[i] = new
    BY <2>3 DEF Inv, Types
  <2>5. AtWork(i)'
    BY <1>1, <2>2, <2>3, <2>4 DEF AtWork, Present
  <2> QED BY <1>1, <1>2, <2>1, <2>3, <2>5, JobStep DEF Inv, Types
<1> QED BY <1>3, <1>4

LEMMA StartStoreInv ==
    ASSUME Inv, NEW i \in Command, StartStore(i)
    PROVE  Inv'
<1>1. job[i].pc = "fetching" /\ UNCHANGED <<archive, manifest, cutShort>>
  BY DEF StartStore, At
<1>2. PICK k \in Key : k = job[i].key
  BY <1>1 DEF Inv, AtWork
<1>3. k \notin Present
  BY <1>1, <1>2 DEF Inv, AtWork
<1> DEFINE new == [job[i] EXCEPT !.pc = "extracting", !.todo = Contents[k]]
<1>4. /\ tmp' = [tmp EXCEPT ![k] = {}]
      /\ job' = [job EXCEPT ![i] = new]
  BY <1>2, <1>3 DEF StartStore
<1>5. /\ new.pc = "extracting" /\ new.key = k /\ new.todo = Contents[k]
      /\ new.linked = job[i].linked
  BY <1>2, JobFields DEF Job
<1>6. new \in Job
  BY JobFields, JobEdits, Wheels DEF Steps
<1> HIDE DEF new
<1>7. job'[i] = new
  BY <1>4 DEF Inv, Types
<1>8. /\ tmp' \in [Key -> (SUBSET Path) \cup {None}] /\ tmp'[k] = {}
      /\ {} # None
  BY <1>4, WheelCacheAssumption DEF Inv, Types
<1>9. AtWork(i)'
  <2>1. job[i].linked = {}
    BY <1>1 DEF Inv, AtWork
  <2> QED BY <1>1, <1>2, <1>3, <1>5, <1>7, <1>8, <2>1 DEF AtWork, Present, AllFiles
<1>10. \A j \in Present : archive[j] = AllFiles(j)
  BY <1>1, WholeAtWork
<1>11. Manifests'
  BY <1>1, ListsKept, Others
<1> QED BY <1>1, <1>4, <1>6, <1>8, <1>9, <1>10, <1>11, JobStep, Others
        DEF Inv, Types

LEMMA ExtractFileInv ==
    ASSUME Inv, NEW i \in Command, ExtractFile(i)
    PROVE  Inv'
<1>1. /\ job[i].pc = "extracting" /\ job[i].todo # <<>>
      /\ UNCHANGED <<archive, manifest, cutShort>>
  BY DEF ExtractFile, At
<1>2. PICK k \in Key : k = job[i].key
  BY <1>1 DEF Inv, AtWork
<1>3. /\ k \notin Present /\ tmp[k] # None
      /\ tmp[k] \cup Range(job[i].todo) = AllFiles(k)
  BY <1>1, <1>2 DEF Inv, AtWork
<1> DEFINE new == [job[i] EXCEPT !.todo = Tail(@)]
<1>4. /\ tmp' = [tmp EXCEPT ![k] = tmp[k] \cup {Head(job[i].todo)}]
      /\ job' = [job EXCEPT ![i] = new]
  BY <1>2, <1>3 DEF ExtractFile
<1>5. /\ new.pc = "extracting" /\ new.key = k /\ new.todo = Tail(job[i].todo)
      /\ new.linked = {}
  BY <1>1, <1>2, JobFields DEF Inv, AtWork, Job
<1>6. /\ Head(job[i].todo) \in Path /\ Tail(job[i].todo) \in Seq(Name)
      /\ Range(job[i].todo) = {Head(job[i].todo)} \cup Range(Tail(job[i].todo))
  BY <1>1, <1>3, JobFields, HeadTailMembers, Wheels
<1>7. new \in Job
  BY <1>6, JobFields, JobEdits
<1> HIDE DEF new
<1>8. job'[i] = new
  BY <1>4 DEF Inv, Types
<1>9. tmp[k] \subseteq Path /\ tmp[k] \cup {Head(job[i].todo)} # None
  <2>1. tmp[k] \in SUBSET Path
    BY <1>3 DEF Inv, Types
  <2>2. tmp[k] \cup {Head(job[i].todo)} \in SUBSET Path
    BY <1>6, <2>1
  <2> QED BY <2>1, <2>2, WheelCacheAssumption
<1>10. /\ tmp' \in [Key -> (SUBSET Path) \cup {None}]
       /\ tmp'[k] = tmp[k] \cup {Head(job[i].todo)}
  BY <1>4, <1>6, <1>9 DEF Inv, Types
<1>11. tmp'[k] \cup Range(Tail(job[i].todo)) = AllFiles(k)
  BY <1>3, <1>6, <1>10
<1>12. AtWork(i)'
  BY <1>1, <1>2, <1>3, <1>5, <1>8, <1>9, <1>10, <1>11 DEF AtWork, Present, AllFiles
<1>13. \A j \in Present : archive[j] = AllFiles(j)
  BY <1>1, WholeAtWork
<1>14. Manifests'
  BY <1>1, ListsKept, Others
<1> QED BY <1>1, <1>4, <1>7, <1>10, <1>12, <1>13, <1>14, JobStep, Others
        DEF Inv, Types

\* The rename puts all files in place at once.
LEMMA RenameInv ==
    ASSUME Inv, NEW i \in Command, RenameIntoPlace(i)
    PROVE  Inv'
<1>1. job[i].pc = "extracting" /\ job[i].todo = <<>>
  BY DEF RenameIntoPlace, At
<1>2. PICK k \in Key : k = job[i].key
  BY <1>1 DEF Inv, AtWork
<1>3. /\ archive[k] = None /\ tmp[k] # None /\ tmp[k] = AllFiles(k)
  BY <1>1, <1>2, EmptyRange DEF Inv, AtWork, Present
<1>4. /\ archive' = [archive EXCEPT ![k] = tmp[k]]
      /\ manifest' = [manifest EXCEPT ![k] = None]
      /\ tmp' = [tmp EXCEPT ![k] = None]
      /\ cutShort' = cutShort \ {k}
      /\ job' = [job EXCEPT ![i].pc = "listing"]
  BY <1>2, <1>3 DEF RenameIntoPlace, Goto
<1>5. /\ [job[i] EXCEPT !.pc = "listing"] \in Job
      /\ job'[i] = [job[i] EXCEPT !.pc = "listing"]
      /\ job'[i].pc = "listing" /\ job'[i].key = k
      /\ job'[i].linked = job[i].linked
      /\ \A j \in Command : j # i => job'[j] = job[j]
  BY <1>2, <1>4, JobFields DEF Job, Steps, Inv, Types
<1>6. /\ archive' \in [Key -> (SUBSET Path) \cup {None}]
      /\ tmp' \in [Key -> (SUBSET Path) \cup {None}]
      /\ manifest' \in [Key -> Seq(Name) \cup {None}]
  BY <1>3, <1>4 DEF Inv, Types
<1>7. job' \in [Command -> Job]
  BY <1>4, <1>5 DEF Inv, Types
<1>8. Manifests'
  <2> SUFFICES ASSUME NEW j \in Key
               PROVE  \/ manifest'[j] \in {None, <<>>, Contents[j]}
                      \/ manifest'[j] \in Cut(j) /\ j \in cutShort'
    BY DEF Manifests
  <2>1. CASE j = k
    BY <1>4, <2>1 DEF Inv, Types
  <2>2. CASE j # k
    <3>1. \A c \in Command : job[c].pc # "listing"
      BY <1>1, Others
    <3>2. manifest'[j] = manifest[j] /\ (j \in cutShort' <=> j \in cutShort)
      BY <1>4, <2>2 DEF Inv, Types
    <3> QED BY <3>1, <3>2 DEF Inv, Manifests
  <2> QED BY <2>1, <2>2
<1>9. OneAtATime'
  BY <1>1, <1>5, Others DEF OneAtATime
<1>10. \A j \in Present : archive[j] = AllFiles(j)
  BY <1>1, WholeAtWork
<1>11. archive'[k] = AllFiles(k) /\ archive'[k] # None
       /\ \A j \in Key : j # k => archive'[j] = archive[j]
  BY <1>3, <1>4 DEF Inv, Types
<1>12. ArchivesWhole'
  BY <1>10, <1>11 DEF ArchivesWhole, Present, AllFiles
<1>13. AtWork(i)'
  BY <1>1, <1>5, <1>11 DEF Inv, AtWork, Present
<1>14. \A j \in Command : j # i => AtWork(j)'
  BY <1>1, <1>5, Others DEF Inv, AtWork
<1> QED BY <1>6, <1>7, <1>8, <1>9, <1>12, <1>13, <1>14 DEF Inv, Types

LEMMA WriteManifestInv ==
    ASSUME Inv, NEW i \in Command, WriteManifest(i)
    PROVE  Inv'
<1>1. job[i].pc = "listing" /\ UNCHANGED <<archive, tmp, cutShort>>
  BY DEF WriteManifest, At
<1>2. PICK k \in Key : k = job[i].key /\ k \in Present
  BY <1>1 DEF Inv, AtWork
<1>3. \A j \in Present : archive[j] = AllFiles(j)
  BY <1>1, WholeAtWork
<1>4. \A j \in Key : j # k => \/ manifest[j] \in {None, <<>>, Contents[j]}
                              \/ manifest[j] \in Cut(j) /\ j \in cutShort
  <2>1. \A c \in Command : job[c].pc = "listing" => c = i
    BY <1>1, Others
  <2> QED BY <1>2, <2>1 DEF Inv, Manifests
<1>5. ASSUME NEW part \in {<<>>} \cup Cut(k),
             manifest' = [manifest EXCEPT ![k] = part], job' = job
      PROVE  Inv'
  <2>1. part \in Seq(Name)
    <3>1. CASE part = <<>>
      BY <3>1
    <3>2. CASE part \in Cut(k)
      BY <3>2, CutLists
    <3> QED BY <3>1, <3>2
  <2>2. manifest' \in [Key -> Seq(Name) \cup {None}]
    BY <1>5, <2>1 DEF Inv, Types
  <2>3. Manifests'
    <3>1. job'[i].pc = "listing" /\ job'[i].key = k
      BY <1>1, <1>2, <1>5
    <3>2. \A j \in Key : manifest'[j] = IF j = k THEN part ELSE manifest[j]
      BY <1>5 DEF Inv, Types
    <3> QED BY <1>1, <1>4, <1>5, <3>1, <3>2 DEF Manifests
  <2>4. AtWork(i)'
    BY <1>1, <1>2, <1>5 DEF Inv, AtWork, Present
  <2>5. job' = [job EXCEPT ![i] = job[i]]
    BY <1>5 DEF Inv, Types
  <2> QED BY <1>1, <1>3, <2>2, <2>3, <2>4, <2>5, JobFields, JobStep, Others
          DEF Inv, Types
<1>6. CASE /\ manifest' = [manifest EXCEPT ![k] = Contents[k]]
           /\ job' = [job EXCEPT ![i].pc = "verifying", ![i].list = Contents[k]]
  <2> DEFINE new == [job[i] EXCEPT !.pc = "verifying", !.list = Contents[k]]
  <2>1. job' = [job EXCEPT ![i] = new]
    BY <1>6
  <2>2. /\ new.pc = "verifying" /\ new.key = k /\ new.list = Contents[k]
        /\ new.linked = {}
    BY <1>1, <1>2, JobFields DEF Inv, AtWork, Job
  <2>3. new \in Job
    BY JobFields, JobEdits, Wheels DEF Steps
  <2> HIDE DEF new
  <2>4. manifest' \in [Key -> Seq(Name) \cup {None}]
    BY <1>6, Wheels DEF Inv, Types
  <2>5. Manifests'
    <3>1. \A j \in Key : manifest'[j] = IF j = k THEN Contents[k] ELSE manifest[j]
      BY <1>6 DEF Inv, Types
    <3> QED BY <1>1, <1>4, <3>1 DEF Manifests
  <2>6. job'[i] = new
    BY <2>1 DEF Inv, Types
  <2>7. AtWork(i)'
    BY <1>1, <1>2, <2>2, <2>6 DEF AtWork, Present
  <2> QED BY <1>1, <1>3, <2>1, <2>3, <2>4, <2>5, <2>7, JobStep, Others
          DEF Inv, Types
<1> QED BY <1>2, <1>5, <1>6 DEF WriteManifest

\* The steps of a command that change nothing but its own job.
LEMMA VerifyIdentityInv ==
    ASSUME Inv, NEW i \in Command, VerifyIdentity(i)
    PROVE  Inv'
<1>1. job[i].pc = "verifying" /\ UNCHANGED <<archive, manifest, tmp, cutShort>>
  BY DEF VerifyIdentity, At
<1>2. CASE Fail(i)
  BY <1>1, <1>2, FailInv DEF Stop, At
<1>3. CASE Goto(i, "found")
  <2> DEFINE new == [job[i] EXCEPT !.pc = "found"]
  <2>1. new \in Job /\ job' = [job EXCEPT ![i] = new]
    BY <1>3, JobFields DEF Job, Steps, Goto
  <2>2. job'[i].pc = "found" /\ job'[i].key = job[i].key
        /\ job'[i].list = job[i].list /\ job'[i].linked = job[i].linked
    BY <2>1, JobFields DEF Inv, Types
  <2>3. AtWork(i)'
    BY <1>1, <2>2 DEF Inv, AtWork, Present
  <2>4. Manifests'
    BY <1>1, ListsKept, Others
  <2> HIDE DEF new
  <2> QED BY <1>1, <2>1, <2>3, <2>4, WholeAtWork, JobStep, Others DEF Inv, Types
<1> QED BY <1>2, <1>3 DEF VerifyIdentity

LEMMA StartLinkInv ==
    ASSUME Inv, NEW i \in Command, StartLink(i)
    PROVE  Inv'
<1>1. job[i].pc = "found" /\ UNCHANGED <<archive, manifest, tmp, cutShort>>
  BY DEF StartLink, At
<1>2. PICK k \in Key :
         /\ k = job[i].key /\ k \in Present
         /\ \/ job[i].list \in {None, Contents[k]}
            \/ k \in cutShort /\ job[i].list \in Cut(k)
  BY <1>1 DEF Inv, AtWork
<1>3. \A j \in Present : archive[j] = AllFiles(j)
  BY <1>1, WholeAtWork
<1> DEFINE list == job[i].list
           todo == IF list = None THEN SetToSeq(archive[k]) ELSE list
           new == [job[i] EXCEPT !.pc = "linking", !.todo = todo]
<1>4. todo \in Seq(Name) /\ Range(todo) \ {Torn} = Wanted(k, list)
  <2>1. CASE list = None
    <3>1. todo = SetToSeq(AllFiles(k))
      BY <1>2, <1>3, <2>1
    <3>2. todo \in Seq(AllFiles(k)) /\ Range(todo) = AllFiles(k)
      BY <3>1, Wheels, SetToSeqMembers
    <3>3. Seq(AllFiles(k)) \subseteq Seq(Name)
      BY Wheels DEF Name
    <3>4. None \notin Cut(k)
      BY NotCut
    <3> QED BY <2>1, <3>2, <3>3, <3>4, Wheels DEF Wanted
  <2>2. CASE list = Contents[k] /\ list # None
    BY <2>2, Wheels, NotCut DEF AllFiles, Wanted
  <2>3. CASE k \in cutShort /\ list \in Cut(k) /\ list # None
    BY <2>3, CutLists DEF Wanted
  <2> QED BY <1>2, <2>1, <2>2, <2>3
<1>5. job' = [job EXCEPT ![i] = new]
  BY <1>2 DEF StartLink
<1> HIDE DEF todo
<1>6. /\ new.pc = "linking" /\ new.key = k /\ new.todo = todo
      /\ new.linked = {} /\ new.list = list
  BY <1>1, <1>2, JobFields DEF Inv, AtWork, Job
<1>7. new \in Job
  BY <1>4, JobFields, JobEdits DEF Steps
<1> HIDE DEF new, list
<1>8. job'[i] = new
  BY <1>5 DEF Inv, Types
<1>9. AtWork(i)'
  <2>1. /\ job[i].list \in {None, Contents[k]} \/ (k \in cutShort /\ list \in Cut(k))
        /\ list = job[i].list
    BY <1>2 DEF list
  <2> QED BY <1>1, <1>2, <1>4, <1>6, <1>8, <2>1 DEF AtWork, Present
<1>10. Manifests'
  BY <1>1, ListsKept, Others
<1> QED BY <1>1, <1>3, <1>5, <1>7, <1>9, <1>10, JobStep, Others DEF Inv, Types

LEMMA LinkFileInv ==
    ASSUME Inv, NEW i \in Command, LinkFile(i)
    PROVE  Inv'
<1>1. /\ job[i].pc = "linking" /\ job[i].todo # <<>>
      /\ UNCHANGED <<archive, manifest, tmp, cutShort>>
  BY DEF LinkFile, At
<1> DEFINE k == job[i].key
           f == Head(job[i].todo)
<1>2. CASE Fail(i)
  BY <1>1, <1>2, FailInv DEF Stop, At
<1>3. ASSUME NEW placed \in {{}, {f}}, f \in placed \/ f = Torn,
             placed \subseteq Path,
             job' = [job EXCEPT ![i].todo = Tail(@),
                                ![i].linked = @ \cup placed]
      PROVE  Inv'
  <2> DEFINE new == [job[i] EXCEPT !.todo = Tail(@), !.linked = @ \cup placed]
  <2>1. job' = [job EXCEPT ![i] = new]
    BY <1>3, JobFields DEF Job
  <2>2. /\ new.pc = "linking" /\ new.key = k /\ new.list = job[i].list
        /\ new.todo = Tail(job[i].todo)
        /\ new.linked = job[i].linked \cup placed
    BY <1>1, JobFields DEF Job
  <2>3. /\ Tail(job[i].todo) \in Seq(Name)
        /\ Range(job[i].todo) = {f} \cup Range(Tail(job[i].todo))
    BY <1>1, JobFields, HeadTailMembers
  <2>4. new \in Job
    <3>1. [job[i] EXCEPT !.todo = Tail(@)] \in Job
      BY <2>3, JobFields, JobEdits
    <3>2. job[i].linked \cup placed \in SUBSET Path
      BY <1>3, JobFields
    <3>3. [job[i] EXCEPT !.todo = Tail(@)].linked = job[i].linked
      BY JobFields DEF Job
    <3> QED BY <3>1, <3>2, <3>3, JobEdits
  <2>5. new.linked \cup (Range(new.todo) \ {Torn}) = Wanted(k, job[i].list)
    <3>1. Torn \notin placed
      BY <1>3, WheelCacheAssumption
    <3>2. job[i].linked \cup (Range(job[i].todo) \ {Torn}) = Wanted(k, job[i].list)
      BY <1>1 DEF Inv, AtWork
    <3> QED BY <1>3, <2>2, <2>3, <3>1, <3>2
  <2> HIDE DEF new
  <2>6. job'[i] = new
    BY <2>1 DEF Inv, Types
  <2>7. AtWork(i)'
    BY <1>1, <2>2, <2>5, <2>6 DEF Inv, AtWork, Present
  <2>8. Manifests'
    BY <1>1, ListsKept, Others
  <2> QED BY <1>1, <2>1, <2>4, <2>7, <2>8, WholeAtWork, JobStep, Others
          DEF Inv, Types
<1>4. CASE /\ f = Torn
           /\ job' = [job EXCEPT ![i].todo = Tail(@)]
  <2>1. job' = [job EXCEPT ![i].todo = Tail(@), ![i].linked = @ \cup {}]
    BY <1>4, JobFields DEF Job, Inv, Types
  <2> QED BY <1>3, <1>4, <2>1
<1>5. CASE /\ k \in Present /\ f \in archive[k]
           /\ job' = [job EXCEPT ![i].todo = Tail(@), ![i].linked = @ \cup {f}]
  <2>1. f \in Path
    BY <1>5 DEF Inv, Types, Present
  <2> QED BY <1>3, <1>5, <2>1
<1> QED BY <1>2, <1>4, <1>5 DEF LinkFile

LEMMA FinishLinkInv ==
    ASSUME Inv, NEW i \in Command, FinishLink(i)
    PROVE  Inv'
<1>1. /\ job[i].pc = "linking" /\ job[i].todo = <<>>
      /\ UNCHANGED <<archive, manifest, tmp, cutShort>>
  BY DEF FinishLink, At
<1> DEFINE new == [job[i] EXCEPT !.pc = "installed"]
<1>2. new \in Job /\ job' = [job EXCEPT ![i] = new]
  BY JobFields, JobEdits DEF FinishLink, Goto, Steps
<1>3. /\ job'[i].pc = "installed" /\ job'[i].key = job[i].key
      /\ job'[i].linked = job[i].linked /\ job'[i].list = job[i].list
  BY <1>2, JobFields DEF Inv, Types, Job
<1>4. AtWork(i)'
  BY <1>1, <1>3, EmptyRange DEF Inv, AtWork
<1>5. Manifests'
  BY <1>1, ListsKept, Others
<1> HIDE DEF new
<1> QED BY <1>1, <1>2, <1>4, <1>5, WholeAtWork, JobStep, Others DEF Inv, Types

-----------------------------------------------------------------------------
(* Removing archives, and being killed.                                    *)

\* A command that begins to remove archives finds all of them whole.
LEMMA RemovingInv ==
    ASSUME Inv, NEW i \in Command, NEW keys \in SUBSET Key,
           \A j \in Command : j # i => job[j].pc = "idle",
           \A k \in Present : archive[k] = AllFiles(k),
           job' = [job EXCEPT ![i] = [NoJob EXCEPT !.pc = "removing",
                                                   !.victims = keys]],
           UNCHANGED <<archive, manifest, cutShort>>, job[i].pc # "listing",
           tmp' \in [Key -> (SUBSET Path) \cup {None}]
    PROVE  Inv'
<1> DEFINE new == [NoJob EXCEPT !.pc = "removing", !.victims = keys]
<1>1. new \in Job
  BY NoJobType, JobEdits DEF Steps
<1>2. new.pc = "removing" /\ new.linked = {}
  BY DEF NoJob
<1>3. job' = [job EXCEPT ![i] = new]
  OBVIOUS
<1> HIDE DEF new
<1>4. job'[i] = new
  BY <1>3 DEF Inv, Types
<1>5. AtWork(i)'
  BY <1>2, <1>4 DEF AtWork
<1>6. Manifests'
  BY ListsKept
<1> QED BY <1>1, <1>3, <1>5, <1>6, JobStep DEF Inv, Types

LEMMA EvictInv ==
    ASSUME Inv, NEW i \in Command, Evict(i)
    PROVE  Inv'
<1>1. /\ job[i].pc \in {"installed", "failed"}
      /\ UNCHANGED <<archive, manifest, tmp, cutShort>>
  BY DEF Evict
<1>2. PICK keys \in SUBSET Key :
          job' = [job EXCEPT ![i] = [NoJob EXCEPT !.pc = "removing",
                                                  !.victims = keys]]
  BY DEF Evict, Victims, Present
<1> QED BY <1>1, <1>2, Others, WholeAtWork, RemovingInv DEF Inv, Types

LEMMA CleanInv ==
    ASSUME InTurn, Inv, NEW i \in Command, NEW keys \in SUBSET Key,
           Clean(i, keys)
    PROVE  Inv'
<1>1. tmp' \in [Key -> (SUBSET Path) \cup {None}] /\ job[i].pc # "listing"
  BY DEF Clean, MayStart, At, Inv, Types
<1> QED BY <1>1, WholeAtStart, RemovingInv DEF Clean

LEMMA RemoveEntryInv ==
    ASSUME Inv, NEW i \in Command, RemoveEntry(i)
    PROVE  Inv'
<1>1. job[i].pc = "removing" /\ UNCHANGED <<tmp, job, cutShort>>
  BY DEF RemoveEntry, At
<1>2. PICK k \in job[i].victims \cap Present :
        \/ \E f \in archive[k] :
              /\ archive' = [archive EXCEPT ![k] = @ \ {f}]
              /\ UNCHANGED manifest
        \/ /\ manifest' = [manifest EXCEPT ![k] = None]
           /\ UNCHANGED archive
        \/ /\ archive' = [archive EXCEPT ![k] = None]
           /\ UNCHANGED manifest
  BY DEF RemoveEntry
<1>3. k \in Key /\ archive[k] \in SUBSET Path
  BY DEF Present, Inv, Types
<1>4. /\ archive' \in [Key -> (SUBSET Path) \cup {None}]
      /\ \A j \in Key : j # k => archive'[j] = archive[j]
  BY <1>2, <1>3 DEF Inv, Types
<1>5. manifest' \in [Key -> Seq(Name) \cup {None}]
  BY <1>2, <1>3 DEF Inv, Types
<1>6. Manifests'
  <2>1. \A j \in Key : manifest'[j] \in {None, manifest[j]}
    BY <1>2, <1>3 DEF Inv, Types
  <2> QED BY <1>1, <2>1 DEF Inv, Manifests
<1>7. OneAtATime'
  BY <1>1 DEF Inv, OneAtATime
<1>8. ArchivesWhole'
  <2> SUFFICES ASSUME NEW j \in Key, archive'[j] # None,
                      archive'[j] # AllFiles(j)
               PROVE  job[i].pc = "removing" /\ j \in job[i].victims
    BY <1>1 DEF ArchivesWhole, Present, At, AllFiles
  <2>1. CASE j = k
    BY <1>1, <2>1
  <2>2. CASE j # k
    BY <1>1, <1>4, <2>2 DEF Inv, ArchivesWhole, OneAtATime, Present, At
  <2> QED BY <2>1, <2>2
<1>9. \A j \in Command : AtWork(j)'
  BY <1>1, Others DEF Inv, AtWork
<1> QED BY <1>1, <1>4, <1>5, <1>6, <1>7, <1>8, <1>9 DEF Inv, Types

\* A command that ends, or is killed, while no archive is half removed.
LEMMA IdleInv ==
    ASSUME Inv, NEW i \in Command, job' = [job EXCEPT ![i] = NoJob],
           \A j \in Command : j # i => job[j].pc = "idle",
           \A k \in Present : archive[k] = AllFiles(k),
           Stop(i), UNCHANGED <<archive, manifest, tmp>>
    PROVE  Inv'
<1>1. job'[i] = NoJob
  BY DEF Inv, Types
<1>2. AtWork(i)'
  BY <1>1 DEF AtWork, NoJob
<1>3. Manifests'
  BY ListsKept
<1> QED BY <1>2, <1>3, NoJobType, JobStep DEF Inv, Types

LEMMA FinishRemovalInv ==
    ASSUME Inv, NEW i \in Command, FinishRemoval(i)
    PROVE  Inv'
<1>1. job[i].pc = "removing" /\ job[i].victims \cap Present = {}
  BY DEF FinishRemoval, At
<1>2. \A k \in Present : archive[k] = AllFiles(k)
  BY <1>1 DEF Inv, ArchivesWhole, OneAtATime, At
<1> QED BY <1>1, <1>2, Others, IdleInv DEF FinishRemoval, Stop, At

LEMMA KillInv ==
    ASSUME InTurn, Inv, NEW i \in Command, Kill(i)
    PROVE  Inv'
<1>1. job[i].pc \notin {"idle", "removing"}
  BY DEF Kill, At, InTurn
<1> QED BY <1>1, WholeAtWork, Others, IdleInv DEF Kill

LEMMA PruneInv ==
    ASSUME InTurn, Inv, NEW i \in Command, Prune(i)
    PROVE  Inv'
<1>1. /\ \A j \in Command : job[j].pc = "idle"
      /\ UNCHANGED <<archive, manifest, job, cutShort>>
  BY WholeAtStart DEF Prune
<1>2. Types'
  BY <1>1 DEF Prune, Inv, Types
<1>3. \A j \in Command : AtWork(j)'
  BY <1>1 DEF Inv, AtWork
<1>4. ArchivesWhole' /\ OneAtATime' /\ Manifests'
  BY <1>1 DEF Inv, ArchivesWhole, OneAtATime, Manifests, Present, At
<1> QED BY <1>2, <1>3, <1>4 DEF Inv

-----------------------------------------------------------------------------
(* The theorems.                                                           *)

LEMMA InitInv == Init => Inv
<1> SUFFICES ASSUME Init PROVE Inv
  OBVIOUS
<1>1. /\ archive = [k \in Key |-> None] /\ manifest = [k \in Key |-> None]
      /\ tmp = [k \in Key |-> None] /\ job = [i \in Command |-> NoJob]
  BY DEF Init
<1>2. Types
  BY <1>1, NoJobType DEF Types
<1>3. \A i \in Command : job[i].pc = "idle" /\ job[i].linked = {}
  BY <1>1 DEF NoJob
<1>4. Present = {} /\ Manifests
  BY <1>1 DEF Present, Manifests
<1>5. OneAtATime /\ ArchivesWhole /\ \A i \in Command : AtWork(i)
  BY <1>3, <1>4 DEF OneAtATime, ArchivesWhole, AtWork
<1> QED BY <1>2, <1>4, <1>5 DEF Inv

LEMMA SameInv ==
    ASSUME Inv, UNCHANGED <<archive, manifest, tmp, job, cutShort>>
    PROVE  Inv'
BY DEF Inv, Types, Manifests, OneAtATime, ArchivesWhole, AtWork, Present, At

LEMMA NextInv ==
    ASSUME InTurn
    PROVE  Inv /\ [Next]_vars => Inv'
<1> SUFFICES ASSUME Inv, [Next]_vars PROVE Inv'
  OBVIOUS
<1>1. CASE UNCHANGED vars \/ Tick
  BY <1>1, SameInv DEF vars, Tick
<1>2. ASSUME NEW i \in Command, NEW k \in Key,
             FindArchive(i, k) \/ StartDownload(i, k)
      PROVE  Inv'
  BY <1>2, StartInv
<1>3. ASSUME NEW i \in Command,
             FailDownload(i) \/ FailExtraction(i) \/ FailManifest(i)
      PROVE  Inv'
  BY <1>3, FailInv DEF FailDownload, FailExtraction, FailManifest, At, Stop
<1>4. ASSUME NEW i \in Command, NEW keys \in SUBSET Key, Clean(i, keys)
      PROVE  Inv'
  BY <1>4, CleanInv
<1> QED BY <1>1, <1>2, <1>3, <1>4, StartStoreInv, ExtractFileInv, RenameInv,
           WriteManifestInv, VerifyIdentityInv, StartLinkInv, LinkFileInv,
           FinishLinkInv, EvictInv, RemoveEntryInv, FinishRemovalInv, PruneInv,
           KillInv
        DEF Next

\* As long as commands take turns and removals are not cut short, an archive in
\* place is whole or on its way out, wherever extraction, renaming or listing
\* were killed (store_wheel in src/crates/vyp/src/cache/wheel_cache.rs extracts
\* under a temporary name and renames).
THEOREM ArchivesStayWhole == ASSUME InTurn PROVE Spec => []ArchivesWhole
<1>1. Inv => ArchivesWhole
  BY DEF Inv
<1> QED BY <1>1, InitInv, NextInv, PTL DEF Spec

\* Under the same conditions an installation that reports success has linked
\* all files of its wheel, also when the list of files was never written or was
\* left empty.  Where an earlier command stopped half-way through the list, it
\* has linked what the list names (read_filelist_manifest).
THEOREM SuccessMeansComplete ==
    ASSUME InTurn
    PROVE  Spec => []CompleteUnlessListCut
<1>1. Inv => CompleteUnlessListCut
  <2> SUFFICES ASSUME Inv, NEW i \in Command, job[i].pc = "installed"
               PROVE  \/ job[i].linked = AllFiles(job[i].key)
                      \/ /\ job[i].key \in cutShort
                         /\ job[i].list \in Cut(job[i].key)
                         /\ job[i].linked = Range(job[i].list) \ {Torn}
    BY DEF CompleteUnlessListCut, At
  <2>1. job[i].linked = Wanted(job[i].key, job[i].list)
    BY DEF Inv, AtWork
  <2>2. job[i].list \in Cut(job[i].key) => job[i].key \in cutShort
    <3>1. job[i].key \in Key
      BY DEF Inv, AtWork
    <3>2. None \notin Cut(job[i].key) /\ Contents[job[i].key] \notin Cut(job[i].key)
      BY <3>1, NotCut
    <3> QED BY <3>2 DEF Inv, AtWork
  <2> QED BY <2>1, <2>2 DEF Wanted
<1> QED BY <1>1, InitInv, NextInv, PTL DEF Spec
=============================================================================
