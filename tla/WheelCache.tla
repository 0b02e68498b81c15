----------------------------- MODULE WheelCache -----------------------------
(***************************************************************************)
(* The cache of extracted wheels and the part of the install pipeline that *)
(* fills and reads it: an archive is a directory that is extracted under a *)
(* temporary name, renamed into place and then given a list of its files.  *)
(* Commands may be killed, also while they write the list, the disk may be *)
(* full, and commands may run side by side.                                *)
(***************************************************************************)
EXTENDS Integers, Sequences, FiniteSets, FiniteSetsExt, SequencesExt

CONSTANTS
    Command,        \* installing or cleaning processes
    Key,            \* cache keys: name and version of a package
    Contents,       \* the paths in the wheel of a key, in zip order
    Genuine,        \* keys whose wheel names itself as the lock does
    Pinned,         \* keys for which the lock has a hash
    MaxFiles,       \* max_archive_bytes, counted in files
    Concurrent,     \* commands may overlap
    Interruptible,  \* the removal of a directory may be cut short
    MaxTime,        \* bound on the clock
    Torn,           \* a name cut short: of nothing, or of a directory
    None

AllFiles(k) == Range(Contents[k])
Path == UNION {AllFiles(k) : k \in Key}
Name == Path \cup {Torn}

\* What a list is that was not written to its end: the last name in it may be
\* cut short as well, and then be the name of some other file.
Cut(k) ==
    LET parts == {SubSeq(Contents[k], 1, n) : n \in 0..Len(Contents[k]) - 1}
    IN  (parts \cup {Append(part, f) : part \in parts, f \in AllFiles(k) \cup {Torn}})
          \ {<<>>, Contents[k]}

ASSUME WheelCacheAssumption ==
    /\ \A k \in Key : Contents[k] \in Seq(Path) /\ IsInjective(Contents[k])
    /\ None \notin Key /\ None # <<>>
    /\ \A k \in Key : Contents[k] # None /\ None \notin Cut(k)
    /\ \A fs \in SUBSET Path : fs # None
    /\ Torn \notin Path
    /\ Genuine \subseteq Key /\ Pinned \subseteq Key
    /\ {MaxFiles, MaxTime} \subseteq Nat
    /\ {Concurrent, Interruptible} \subseteq BOOLEAN

VARIABLES
    archive,    \* the files of each archive in place, None if there is none
    manifest,   \* the paths .vyp_filelist names, None if it is missing
    mtime,      \* when an archive was used last
    tmp,        \* the files under the temporary name
    job,        \* what each command is doing
    clock,
    cutShort    \* archives in place whose list was not written to its end:
                \* only the properties look at it

vars == <<archive, manifest, mtime, tmp, job, clock, cutShort>>

NoJob == [pc |-> "idle", key |-> None, list |-> None, todo |-> <<>>,
          linked |-> {}, fetched |-> FALSE, victims |-> {}]

Init ==
    /\ archive = [k \in Key |-> None]
    /\ manifest = [k \in Key |-> None]
    /\ mtime = [k \in Key |-> 0]
    /\ tmp = [k \in Key |-> None]
    /\ job = [i \in Command |-> NoJob]
    /\ clock = 0
    /\ cutShort = {}

Present == {k \in Key : archive[k] # None}

\* A command is at a step; others do not overlap unless they may.
At(i, pc) == job[i].pc = pc

MayStart(i) ==
    /\ At(i, "idle")
    /\ Concurrent \/ \A j \in Command : At(j, "idle")

Goto(i, pc) == job' = [job EXCEPT ![i].pc = pc]

Fail(i) == job' = [job EXCEPT ![i].pc = "failed"]

\* A command stops, perhaps while it writes a list.
Stop(i) == cutShort' = cutShort \cup IF At(i, "listing") THEN {job[i].key} ELSE {}

----------------------------------------------------------------------------
\* Looking for an archive, and storing one.

\* Mutant of ListOf: a manifest without lines counts as a list of no files.
ListAsFound(k) == manifest[k]

\* A manifest without lines counts as none.
ListOf(k) == IF manifest[k] \in {None, <<>>} THEN None ELSE manifest[k]

FindArchive(i, k) ==
    /\ MayStart(i)
    /\ k \in Present
    /\ mtime' = [mtime EXCEPT ![k] = clock]
    /\ job' = [job EXCEPT ![i] = [NoJob EXCEPT !.pc = "found", !.key = k,
                                               !.list = ListOf(k)]]
    /\ UNCHANGED <<archive, manifest, tmp, clock, cutShort>>

StartDownload(i, k) ==
    /\ MayStart(i)
    /\ k \notin Present
    /\ job' = [job EXCEPT ![i] = [NoJob EXCEPT !.pc = "fetching", !.key = k,
                                               !.fetched = TRUE]]
    /\ UNCHANGED <<archive, manifest, mtime, tmp, clock, cutShort>>

\* No answer, or a wheel whose hash is not the one in the lock.
FailDownload(i) ==
    /\ At(i, "fetching")
    /\ Fail(i)
    /\ UNCHANGED <<archive, manifest, mtime, tmp, clock, cutShort>>

\* The wheel is there and has the hash the lock pins, if it pins one.  What an
\* earlier extraction left under the temporary name is removed, unless the
\* archive has appeared meanwhile.
StartStore(i) ==
    LET k == job[i].key
    IN  /\ At(i, "fetching")
        /\ k \in Pinned => k \in Genuine
        /\ IF k \in Present
           THEN /\ Goto(i, "verifying")
                /\ UNCHANGED tmp
           ELSE /\ tmp' = [tmp EXCEPT ![k] = {}]
                /\ job' = [job EXCEPT ![i].pc = "extracting",
                                      ![i].todo = Contents[k]]
        /\ UNCHANGED <<archive, manifest, mtime, clock, cutShort>>

\* Directories that are missing on the way are created again.
ExtractFile(i) ==
    LET k == job[i].key
        there == IF tmp[k] = None THEN {} ELSE tmp[k]
    IN  /\ At(i, "extracting") /\ job[i].todo # <<>>
        /\ tmp' = [tmp EXCEPT ![k] = there \cup {Head(job[i].todo)}]
        /\ job' = [job EXCEPT ![i].todo = Tail(@)]
        /\ UNCHANGED <<archive, manifest, mtime, clock, cutShort>>

\* The zip file or the disk fails; the temporary directory stays.
FailExtraction(i) ==
    /\ At(i, "extracting")
    /\ Fail(i)
    /\ UNCHANGED <<archive, manifest, mtime, tmp, clock, cutShort>>

\* Mutant of RenameIntoPlace: the last file is not waited for.
RenameEarly(i) ==
    LET k == job[i].key
    IN  /\ At(i, "extracting") /\ Len(job[i].todo) <= 1
        /\ archive' = [archive EXCEPT ![k] = tmp[k]]
        /\ manifest' = [manifest EXCEPT ![k] = None]
        /\ mtime' = [mtime EXCEPT ![k] = clock]
        /\ tmp' = [tmp EXCEPT ![k] = None]
        /\ cutShort' = cutShort \ {k}
        /\ Goto(i, "listing")
        /\ UNCHANGED clock

\* rename fails without a source, and on a target that is not empty.
RenameIntoPlace(i) ==
    LET k == job[i].key
    IN  /\ At(i, "extracting") /\ job[i].todo = <<>>
        /\ IF tmp[k] = None \/ archive[k] \notin {None, {}}
           THEN /\ Fail(i)
                /\ UNCHANGED <<archive, manifest, mtime, tmp, cutShort>>
           ELSE /\ archive' = [archive EXCEPT ![k] = tmp[k]]
                /\ manifest' = [manifest EXCEPT ![k] = None]
                /\ mtime' = [mtime EXCEPT ![k] = clock]
                /\ tmp' = [tmp EXCEPT ![k] = None]
                /\ cutShort' = cutShort \ {k}
                /\ Goto(i, "listing")
        /\ UNCHANGED clock

\* The list is created and then written, beside an archive that is in place: a
\* command that stops in between leaves it empty or cut.
WriteManifest(i) ==
    LET k == job[i].key
    IN  /\ At(i, "listing")
        /\ IF k \notin Present
           THEN Fail(i) /\ UNCHANGED manifest
           ELSE \/ /\ manifest[k] = None
                   /\ \E part \in {<<>>} \cup Cut(k) :
                        manifest' = [manifest EXCEPT ![k] = part]
                   /\ UNCHANGED job
                \/ /\ manifest[k] # None
                   /\ manifest' = [manifest EXCEPT ![k] = Contents[k]]
                   /\ job' = [job EXCEPT ![i].pc = "verifying",
                                         ![i].list = Contents[k]]
        /\ UNCHANGED <<archive, mtime, tmp, clock, cutShort>>

\* The disk is full: what is written of the list stays.
FailManifest(i) ==
    /\ At(i, "listing")
    /\ Fail(i) /\ Stop(i)
    /\ UNCHANGED <<archive, manifest, mtime, tmp, clock>>

\* Without a hash the wheel's own METADATA must name what the lock names; where
\* there is none, nothing is compared.
VerifyIdentity(i) ==
    LET k == job[i].key
    IN  /\ At(i, "verifying")
        /\ IF k \in Pinned \cup Genuine \/ k \notin Present
           THEN Goto(i, "found") ELSE Fail(i)
        /\ UNCHANGED <<archive, manifest, mtime, tmp, clock, cutShort>>

----------------------------------------------------------------------------
\* Linking, by the list or else by what a walk over the directory finds.

StartLink(i) ==
    LET k == job[i].key
        walked == IF k \in Present THEN SetToSeq(archive[k]) ELSE <<>>
    IN  /\ At(i, "found")
        /\ job' = [job EXCEPT ![i].pc = "linking",
                              ![i].todo = IF job[i].list = None
                                          THEN walked ELSE job[i].list]
        /\ UNCHANGED <<archive, manifest, mtime, tmp, clock, cutShort>>

\* What is not there cannot be linked; directories are passed over.
LinkFile(i) ==
    LET k == job[i].key
        f == Head(job[i].todo)
        there == k \in Present /\ f \in archive[k]
    IN  /\ At(i, "linking") /\ job[i].todo # <<>>
        /\ \/ /\ there
              /\ job' = [job EXCEPT ![i].todo = Tail(@),
                                    ![i].linked = @ \cup {f}]
           \/ /\ f = Torn
              /\ job' = [job EXCEPT ![i].todo = Tail(@)]
           \/ ~there /\ Fail(i)
        /\ UNCHANGED <<archive, manifest, mtime, tmp, clock, cutShort>>

FinishLink(i) ==
    /\ At(i, "linking") /\ job[i].todo = <<>>
    /\ Goto(i, "installed")
    /\ UNCHANGED <<archive, manifest, mtime, tmp, clock, cutShort>>

----------------------------------------------------------------------------
\* Eviction after a command that downloaded, and the cleaning commands.

FilesOf(keys) == MapThenSumSet(LAMBDA k : Cardinality(archive[k]), keys)

\* Archives in the order of their last use until the rest fits.
Victims ==
    {gone \in SUBSET Present :
       /\ FilesOf(Present \ gone) <= MaxFiles
       /\ \A k \in gone, kept \in Present \ gone : mtime[k] <= mtime[kept]
       /\ gone # {} => \E last \in gone :
             /\ \A k \in gone : mtime[k] <= mtime[last]
             /\ FilesOf(Present \ (gone \ {last})) > MaxFiles}

Evict(i) ==
    /\ job[i].pc \in {"installed", "failed"}
    /\ \E gone \in IF job[i].fetched THEN Victims ELSE {{}} :
          job' = [job EXCEPT ![i] = [NoJob EXCEPT !.pc = "removing",
                                                  !.victims = gone]]
    /\ UNCHANGED <<archive, manifest, mtime, tmp, clock, cutShort>>

\* cache clean, for some packages or for all.
Clean(i, keys) ==
    /\ MayStart(i)
    /\ keys # {}
    /\ job' = [job EXCEPT ![i] = [NoJob EXCEPT !.pc = "removing",
                                               !.victims = keys]]
    /\ tmp' = [k \in Key |-> IF keys = Key THEN None ELSE tmp[k]]
    /\ UNCHANGED <<archive, manifest, mtime, clock, cutShort>>

\* A directory is removed entry by entry.
RemoveEntry(i) ==
    /\ At(i, "removing")
    /\ \E k \in job[i].victims \cap Present :
         \/ \E f \in archive[k] :
              /\ archive' = [archive EXCEPT ![k] = @ \ {f}]
              /\ UNCHANGED manifest
         \/ /\ manifest[k] # None
            /\ manifest' = [manifest EXCEPT ![k] = None]
            /\ UNCHANGED archive
         \/ /\ archive[k] = {} /\ manifest[k] = None
            /\ archive' = [archive EXCEPT ![k] = None]
            /\ UNCHANGED manifest
    /\ UNCHANGED <<mtime, tmp, job, clock, cutShort>>

FinishRemoval(i) ==
    /\ At(i, "removing")
    /\ job[i].victims \cap Present = {}
    /\ job' = [job EXCEPT ![i] = NoJob]
    /\ UNCHANGED <<archive, manifest, mtime, tmp, clock, cutShort>>

\* cache prune removes whatever has a temporary name.
Prune(i) ==
    /\ MayStart(i)
    /\ tmp' = [k \in Key |-> None]
    /\ UNCHANGED <<archive, manifest, mtime, job, clock, cutShort>>

Kill(i) ==
    /\ ~At(i, "idle")
    /\ At(i, "removing") => Interruptible
    /\ job' = [job EXCEPT ![i] = NoJob]
    /\ Stop(i)
    /\ UNCHANGED <<archive, manifest, mtime, tmp, clock>>

Tick ==
    /\ clock < MaxTime
    /\ clock' = clock + 1
    /\ UNCHANGED <<archive, manifest, mtime, tmp, job, cutShort>>

Next ==
    \/ \E i \in Command :
         \/ \E k \in Key : FindArchive(i, k) \/ StartDownload(i, k)
         \/ FailDownload(i) \/ StartStore(i)
         \/ ExtractFile(i) \/ FailExtraction(i)
         \/ RenameIntoPlace(i) \/ WriteManifest(i) \/ FailManifest(i)
         \/ VerifyIdentity(i)
         \/ StartLink(i) \/ LinkFile(i) \/ FinishLink(i)
         \/ Evict(i) \/ RemoveEntry(i) \/ FinishRemoval(i)
         \/ \E keys \in SUBSET Key : Clean(i, keys)
         \/ Prune(i) \/ Kill(i)
    \/ Tick

Spec == Init /\ [][Next]_vars

----------------------------------------------------------------------------
\* What must hold of the cache of wheels.

\* An installation that reports success has linked every file of its wheel,
\* although it may have found an archive whose extraction, renaming or listing
\* was cut short.  The exception is a list that was cut with names in it: what
\* it names is then taken for the whole.
CompleteUnlessListCut ==
    \A i \in Command : At(i, "installed") =>
        LET k == job[i].key
        IN  \/ job[i].linked = AllFiles(k)
            \/ /\ k \in cutShort /\ job[i].list \in Cut(k)
               /\ job[i].linked = Range(job[i].list) \ {Torn}

\* An archive is only ever in place whole, or on its way out.
ArchivesWhole ==
    \A k \in Present : archive[k] = AllFiles(k) \/
        \E i \in Command : At(i, "removing") /\ k \in job[i].victims
=============================================================================
