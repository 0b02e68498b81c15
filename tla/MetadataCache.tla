---------------------------- MODULE MetadataCache ----------------------------
(***************************************************************************)
(* The disk cache of package metadata: one file per version of a package,  *)
(* an index of the files that each process keeps in memory and writes back *)
(* in batches.  Several processes share the directory without a lock; a    *)
(* process may die between any two steps, and what it asks of the disk may *)
(* fail: it logs that, or ignores it, and goes on.                         *)
(***************************************************************************)
EXTENDS Integers, FiniteSets, FiniteSetsExt, SequencesExt

CONSTANTS
    Process,        \* processes that may have the cache open
    Key,            \* "package==version", which names a file
    Value,          \* contents of metadata files
    Describes,      \* the key whose metadata a value is
    Size,           \* bytes of a value
    MaxSize,        \* max_size_bytes
    FlushThreshold, \* FLUSH_THRESHOLD
    MaxTime,        \* bound on the clock
    MaxInsertions,  \* bound on the insertions that are started
    MaxFaults,      \* bound on kills, cleanings, operations of the disk that fail
    None,           \* no file, no entry, no answer
    Partial         \* a file that does not parse: written in part

Time == 0..MaxTime
Entry == [size: Nat, access: Time]
Index == [Key -> Entry \cup {None}]
Write == [key: Key, value: Value, linked: BOOLEAN]

ASSUME CacheAssumption ==
    /\ None \notin Value /\ Partial \notin Value /\ None # Partial
    /\ None \notin Key \cup Entry \cup Write
    /\ Describes \in [Value -> Key]
    /\ Size \in [Value -> Nat]
    /\ {MaxSize, FlushThreshold, MaxTime, MaxInsertions, MaxFaults}
          \subseteq Nat

VARIABLES
    files,      \* the file of each key: None, Partial or a value
    indexFile,  \* cache-index.bin: None, Partial or entries
    exists,     \* the directory is there
    open,       \* processes that have the cache open
    entries,    \* the index each process keeps in memory
    dirty,      \* it has unsaved changes
    ops,        \* mutating operations since the last flush, counted up to
                \* the threshold, where every further one tries to flush
    writing,    \* the file a process is writing, and whether that file still
                \* has its name
    now,        \* seconds since the epoch
    insertions, faults,     \* how many there have been
    answer,     \* what get has just answered
    \* Only the properties look at these:
    solo,       \* the process that has had the cache to itself since it
                \* opened it
    measured,   \* the keys whose size that process has recorded itself
    stuck       \* evicted keys whose file could not be removed, since some
                \* process last opened the cache

disk == <<files, indexFile, exists>>
handles == <<open, entries, dirty, ops, writing>>
history == <<solo, measured, stuck>>
bounds == <<insertions, faults>>
vars == <<disk, handles, now, bounds, answer, history>>

NoEntries == [k \in Key |-> None]
Tracked(index) == {k \in Key : index[k] # None}
Whole == {k \in Key : files[k] \in Value}

SizeOf(index, keys) == MapThenSumSet(LAMBDA k : index[k].size, keys)

\* A file that loses its name is written to no effect.
Unlinked(keys) ==
    [i \in Process |-> IF writing[i] # None /\ writing[i].key \in keys
                       THEN [writing[i] EXCEPT !.linked = FALSE]
                       ELSE writing[i]]

Removed(keys) == [k \in Key |-> IF k \in keys THEN None ELSE files[k]]

Faults(n) == faults + n <= MaxFaults /\ faults' = faults + n

NoAnswer == [key |-> None, value |-> None]

Init ==
    /\ files = [k \in Key |-> None]
    /\ indexFile = None
    /\ exists = FALSE
    /\ open = {}
    /\ entries = [i \in Process |-> NoEntries]
    /\ dirty = [i \in Process |-> FALSE]
    /\ ops = [i \in Process |-> 0]
    /\ writing = [i \in Process |-> None]
    /\ now = 0 /\ insertions = 0 /\ faults = 0
    /\ answer = NoAnswer
    /\ solo = {} /\ measured = {} /\ stuck = {}

----------------------------------------------------------------------------
\* Opening and closing.

\* Files the index does not name are taken in if they are whole and named
\* after their content, and removed otherwise.
Adoptable(index) ==
    {k \in Whole \ Tracked(index) : Describes[files[k]] = k}

\* Mutant of Open: files the index does not name are left alone.
OpenUnreconciled(i) ==
    /\ i \notin open
    /\ open' = open \cup {i}
    /\ solo' = IF open = {} THEN {i} ELSE {}
    /\ measured' = {} /\ stuck' = {}
    /\ entries' = [entries EXCEPT
                     ![i] = IF indexFile \in {None, Partial} THEN NoEntries
                                                             ELSE indexFile]
    /\ answer' = NoAnswer
    /\ UNCHANGED <<disk, dirty, ops, writing, now, bounds>>

\* Entries of the index file are believed, sizes included.  A file to be removed
\* may be left: no one reads it.
Open(i) ==
    LET index == IF indexFile \in {None, Partial} THEN NoEntries
                                                  ELSE indexFile
        adopted == Adoptable(index)
        rejected == Key \ (Tracked(index) \cup adopted)
    IN  /\ i \notin open
        /\ open' = open \cup {i}
        /\ solo' = IF open = {} THEN {i} ELSE {}
        /\ measured' = IF open = {} THEN adopted ELSE {}
        /\ stuck' = {}
        /\ entries' = [entries EXCEPT ![i] = [k \in Key |->
                IF k \in adopted THEN [size |-> Size[files[k]], access |-> now]
                                 ELSE index[k]]]
        /\ dirty' = [dirty EXCEPT ![i] = FALSE]
        /\ ops' = [ops EXCEPT ![i] = 0]
        /\ files' = Removed(rejected)
        /\ writing' = Unlinked(rejected)
        /\ UNCHANGED <<indexFile, exists, now, bounds>>
        /\ answer' = NoAnswer

\* The process is gone; Drop has flushed, or it was killed.
Gone(i) ==
    /\ open' = open \ {i}
    /\ solo' = solo \ {i}
    /\ measured' = IF i \in solo THEN {} ELSE measured
    /\ writing' = [writing EXCEPT ![i] = None]
    /\ entries' = [entries EXCEPT ![i] = NoEntries]
    /\ dirty' = [dirty EXCEPT ![i] = FALSE]
    /\ ops' = [ops EXCEPT ![i] = 0]
    /\ answer' = NoAnswer
    /\ UNCHANGED <<files, exists, now, insertions, stuck>>

\* What a flush leaves of the index file: there must be a directory, and a write
\* that fails leaves the file as it was or cut short.
Flushed(index, failing) ==
    IF ~exists THEN {indexFile}
    ELSE IF failing = 1 THEN {indexFile, Partial} ELSE {index}

Close(i) ==
    /\ i \in open /\ writing[i] = None
    /\ \E failing \in 0..1 :
         /\ Faults(failing)
         /\ indexFile' \in IF dirty[i] THEN Flushed(entries[i], failing)
                           ELSE {indexFile}
    /\ Gone(i)

\* A killed process leaves the file it was writing as it is: one it was
\* inserting, or the index in the middle of a flush.
Kill(i) ==
    /\ i \in open
    /\ Faults(1)
    /\ Gone(i)
    /\ \/ UNCHANGED indexFile
       \/ /\ dirty[i] /\ exists /\ writing[i] = None
          /\ indexFile' = Partial

----------------------------------------------------------------------------
\* Metadata.

\* mark_dirty with the changed index: at the threshold it is flushed.
MarkDirty(i, index, failing) ==
    LET count == IF ops[i] < FlushThreshold THEN ops[i] + 1 ELSE ops[i]
        due == count >= FlushThreshold
        flushed == due /\ exists /\ failing = 0
    IN  /\ entries' = [entries EXCEPT ![i] = index]
        /\ dirty' = [dirty EXCEPT ![i] = ~flushed]
        /\ ops' = [ops EXCEPT ![i] = IF flushed THEN 0 ELSE count]
        /\ indexFile' \in IF due THEN Flushed(index, failing) ELSE {indexFile}

Touched(i, k) == [entries[i] EXCEPT ![k].access = now]

\* Mutant of Hit: what is in the file is not looked at.
HitUnread(i, k) ==
    /\ i \in open /\ writing[i] = None
    /\ k \in Tracked(entries[i])
    /\ entries' = [entries EXCEPT ![i] = Touched(i, k)]
    /\ dirty' = [dirty EXCEPT ![i] = TRUE]
    /\ answer' = [key |-> k, value |-> files[k]]
    /\ UNCHANGED <<disk, open, ops, writing, now, bounds, history>>

Hit(i, k) ==
    /\ i \in open /\ writing[i] = None
    /\ k \in Tracked(entries[i]) \cap Whole
    /\ entries' = [entries EXCEPT ![i] = Touched(i, k)]
    /\ dirty' = [dirty EXCEPT ![i] = TRUE]
    /\ answer' = [key |-> k, value |-> files[k]]
    /\ UNCHANGED <<disk, open, ops, writing, now, bounds, history>>

\* The file is missing or does not parse: entry and file are dropped, or the
\* entry alone if the file cannot be removed.
Unreadable(i, k) ==
    /\ i \in open /\ writing[i] = None
    /\ k \in Tracked(entries[i]) \ Whole
    /\ \E failing \in 0..1, kept \in SUBSET {k} :
         /\ Faults(failing + Cardinality(kept))
         /\ MarkDirty(i, [entries[i] EXCEPT ![k] = None], failing)
         /\ files' = Removed({k} \ kept)
         /\ writing' = Unlinked({k} \ kept)
    /\ answer' = [key |-> k, value |-> None]
    /\ UNCHANGED <<exists, open, now, insertions, history>>

Miss(i, k) ==
    /\ i \in open /\ writing[i] = None
    /\ k \notin Tracked(entries[i])
    /\ answer' = [key |-> k, value |-> None]
    /\ UNCHANGED <<disk, handles, now, bounds, history>>

\* The file is created, or the one there truncated, and then written.  (When
\* the directory or the file cannot be created, nothing happens.)
StartInsert(i, k, v) ==
    /\ i \in open /\ writing[i] = None
    /\ Describes[v] = k
    /\ insertions < MaxInsertions /\ insertions' = insertions + 1
    /\ exists' = TRUE
    /\ files' = [files EXCEPT ![k] = Partial]
    /\ writing' = [writing EXCEPT
                     ![i] = [key |-> k, value |-> v, linked |-> TRUE]]
    /\ UNCHANGED <<indexFile, open, entries, dirty, ops, now, faults, history>>
    /\ answer' = NoAnswer

\* The write fails: what was written stays, the index says what it said.
FailInsert(i) ==
    /\ i \in open /\ writing[i] # None
    /\ Faults(1)
    /\ writing' = [writing EXCEPT ![i] = None]
    /\ answer' = NoAnswer
    /\ UNCHANGED <<disk, open, entries, dirty, ops, now, insertions, history>>

\* Mutants of Evictions: one byte too many is kept; the newest go first.
EvictionsLoose(index) ==
    {gone \in SUBSET Tracked(index) :
       SizeOf(index, Tracked(index) \ gone) <= MaxSize + 1}

EvictionsNewest(index) ==
    {gone \in SUBSET Tracked(index) :
       /\ SizeOf(index, Tracked(index) \ gone) <= MaxSize
       /\ \A k \in gone, kept \in Tracked(index) \ gone :
             index[k].access >= index[kept].access}

\* What evict_if_needed may remove: entries in the order of their last access,
\* those of one second in any order, until the rest fits.
Evictions(index) ==
    LET excess(gone) == SizeOf(index, Tracked(index) \ gone) > MaxSize
    IN  {gone \in SUBSET Tracked(index) :
           /\ ~excess(gone)
           /\ \A k \in gone, kept \in Tracked(index) \ gone :
                 index[k].access <= index[kept].access
           /\ gone # {} => \E last \in gone :
                 /\ \A k \in gone : index[k].access <= index[last].access
                 /\ excess(gone \ {last})}

\* The file is written: its entry, with its size, joins the others.
FinishInsert(i) ==
    LET w == writing[i]
        index == [entries[i] EXCEPT
                    ![w.key] = [size |-> Size[w.value], access |-> now]]
    IN  /\ i \in open /\ w # None
        /\ \E failing \in 0..1, gone \in Evictions(index) : \E kept \in SUBSET gone :
             /\ Faults(failing + Cardinality(kept))
             /\ MarkDirty(i, [k \in Key |-> IF k \in gone THEN None
                                                          ELSE index[k]],
                          failing)
             /\ files' = [k \in Key |->
                    CASE k \in gone \ kept -> None
                      [] k = w.key /\ w.linked /\ k \notin gone \ kept -> w.value
                      [] OTHER -> files[k]]
             /\ writing' = [Unlinked(gone \ kept) EXCEPT ![i] = None]
             /\ stuck' = (stuck \ {w.key}) \cup kept
        /\ measured' = IF i \in solo THEN measured \cup {w.key} ELSE measured
        /\ answer' = NoAnswer
        /\ UNCHANGED <<exists, open, now, insertions, solo>>

----------------------------------------------------------------------------
\* The command that removes the whole cache, and the clock.

\* What cannot be removed stays.
CleanAll ==
    /\ Faults(1)
    /\ \E keys \in SUBSET Key :
         /\ files' = Removed(keys)
         /\ writing' = Unlinked(keys)
         /\ \/ keys = Key /\ indexFile' = None /\ exists' = FALSE
            \/ indexFile' \in {indexFile, None} /\ exists' = exists
    /\ answer' = NoAnswer
    /\ UNCHANGED <<open, entries, dirty, ops, now, insertions, history>>

Tick ==
    /\ now < MaxTime
    /\ now' = now + 1
    /\ answer' = NoAnswer
    /\ UNCHANGED <<disk, handles, bounds, history>>

Next ==
    \/ \E i \in Process :
         \/ Open(i) \/ Close(i) \/ Kill(i)
         \/ \E k \in Key : \/ Hit(i, k) \/ Unreadable(i, k) \/ Miss(i, k)
                           \/ \E v \in Value : StartInsert(i, k, v)
         \/ FinishInsert(i) \/ FailInsert(i)
    \/ CleanAll \/ Tick

Spec == Init /\ [][Next]_vars

----------------------------------------------------------------------------
\* What must hold of the cache.

\* The cache is a map that may forget: whatever is killed, evicted, cleaned or
\* half written, an answer is the metadata stored last for that version.
Store == INSTANCE ForgetfulStore WITH
            held <- [k \in Key |-> IF k \in Whole THEN files[k] ELSE None]

ImplementsStore == Store!Spec

\* A process that has the cache to itself serves everything its predecessors
\* stored, although they may have died before they wrote their index: it knows
\* of every file but those it could not remove.
NothingOrphaned ==
    \A i \in solo : Whole \subseteq Tracked(entries[i]) \cup stuck

\* When an insertion of such a process ends, the files whose sizes it has
\* recorded itself, as it adopted or inserted them, are within the limit.  Of
\* those it has from the index file no such thing holds: one of them may have
\* been written again, and be larger, since its size was saved.
MeasuredWithinLimit ==
    [][\A i \in solo : FinishInsert(i) =>
         MapThenSumSet(LAMBDA k : Size[files'[k]],
                       measured' \cap Tracked(entries'[i]) \cap Whole')
           <= MaxSize]_vars

\* An insertion evicts nothing that was used later than something it keeps.
OldestGoFirst ==
    [][\A i \in open : writing[i] # None /\ writing'[i] = None /\ i \in open'
          => \A k \in Tracked(entries[i]), kept \in Tracked(entries'[i]) :
                entries'[i][k] = None =>
                    entries[i][k].access <= entries'[i][kept].access]_vars
=============================================================================
