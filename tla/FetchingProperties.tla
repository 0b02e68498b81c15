------------------------- MODULE FetchingProperties -------------------------
(***************************************************************************)
(* What must hold of the fetching of versions and metadata.                *)
(***************************************************************************)
EXTENDS Fetching

\* Every variable keeps the shape of the field it models, no task makes more
\* attempts than MAX_FETCH_RETRIES allows, and no provider has more requests
\* under way than MAX_CONCURRENT_FETCHES.
TypeOK ==
    /\ published \in [Index -> [Package -> Nat \ {0}]]
    /\ disk.lists \in [Package -> {None} \cup ListFile]
    /\ disk.metadata \in [Key -> {None} \cup Index]
    /\ entries \in [Provider -> SUBSET Key]
    /\ versions \in [Provider -> [Package -> VersionsSlot]]
    /\ metadata \in [Provider -> [Key -> MetadataSlot]]
    /\ lookups \subseteq Lookup
    /\ downloads \subseteq Download
    /\ versionCache \in [Package -> {None} \cup SUBSET Version]
    /\ depsCache \in [Key -> {None, Absent} \cup Index]
    /\ lost \subseteq Provider \X Key
    /\ \A i \in Provider : Permits(i) \in 0..MaxConcurrentFetches

\* "A slot that starts empty and is filled exactly once"
\* (in_memory_index.rs:64): what one caller was given, all are given, although
\* the driver, the tasks of a batch and the speculative downloads all race to
\* fill the slots.
SlotsFilledOnce ==
    [][runs' = runs =>
         \A i \in Provider :
            /\ \A p \in Package : versions[i][p] \notin {None, Pending} =>
                  versions'[i][p] = versions[i][p]
            /\ \A k \in Key : metadata[i][k] \notin {None, Pending} =>
                  metadata'[i][k] = metadata[i][k]]_vars

\* The solver thread never waits for ever: whatever fails, is retried or is
\* found on disk, and with however few permits, some task fills the slot that
\* wait_versions or wait_metadata blocks on.
WaitsEnd == (driver.pc # "idle") ~> (driver.pc = "idle")

\* A version is taken to have no dependencies only if a provider of the present
\* environment could not download its metadata (whatever became of it in an
\* earlier one) or the index has no file to read it from.
DependenciesKnown ==
    \A k \in Key : depsCache[k] = Absent =>
        \/ \E i \in Present : <<i, k>> \in lost
        \/ Source[k[1]][k[2]] = "none"

\* While a process resolves its first environment, a list on disk is never
\* replaced by an older one of the same index, although the writes of its
\* providers run late, in any order, and a refresh writes what it has read
\* before.  In the environments after it, what the providers of an earlier one
\* have left behind may do just that.
ListsAdvance ==
    [][environment = 1 =>
         \A p \in Package :
            LET old == disk.lists[p]
                new == disk'.lists[p]
            IN  /\ old # None /\ new # None
                /\ old.edition.origin = new.edition.origin
                => new.edition.revision >= old.edition.revision]_vars
=============================================================================
