------------------------------ MODULE Fetching ------------------------------
(***************************************************************************)
(* How the solver thread gets versions and metadata: the providers of      *)
(* crates/vyp-index/src/pypi.rs with their in-memory indexes               *)
(* (in_memory_index.rs), the tasks they spawn, the disk cache they share,  *)
(* and get_versions and get_dependencies of crates/vyp-core/src/lib.rs,    *)
(* which wait for them.  A process resolves its environments one after the *)
(* other (resolve_from_config in crates/vyp/src/cli/common.rs), each with  *)
(* providers of its own.  The runtime is the process's: what the providers *)
(* of an earlier environment have spawned goes on.  The next process finds *)
(* what was written to disk.  No two processes run at the same time.       *)
(*                                                                         *)
(* A version list is named by the index that published it and its revision *)
(* there, metadata by the index it was downloaded from: properties ask     *)
(* where an answer comes from.                                             *)
(***************************************************************************)
EXTENDS Integers, Sequences, FiniteSets, SequencesExt

CONSTANTS
    Index, Package, Version,
    None, Pending, Failed, Absent,  \* see the types below
    Priority,       \* the providers, highest priority first
    Serves,         \* can_provide: the packages the scope of an index allows
    Lists,          \* the versions an index publishes, revision by revision
    Source,         \* where metadata can be had: "sidecar", "wheel", "none"
    Pin,            \* the exact pins of the overrides, or None
    MaxConcurrentFetches,   \* HTTP requests of a provider at a time
    MaxFetchRetries,        \* MAX_FETCH_RETRIES
    PrefetchDepth,          \* speculative_prefetch_depth
    MaxEnvironments,        \* environments a process resolves at most
    MaxRuns, MaxFailures,   \* bounds: resolutions, failing requests,
    MaxLeftOver             \* tasks and writes an environment leaves behind

Key == Package \X Version

\* The provider of an index for the n-th environment the process resolves.
Provider == Index \X (1..MaxEnvironments)

IndexOf(provider) == provider[1]

ASSUME FetchingAssumption ==
    /\ Priority \in Seq(Index) /\ ToSet(Priority) = Index
    /\ Version \subseteq Nat
    /\ Serves \in [Index -> SUBSET Package]
    /\ Lists \in [Index -> [Package -> Seq(SUBSET Version) \ {<<>>}]]
    /\ \A i \in Index, p \in Package : \A S \in ToSet(Lists[i][p]) : IsFiniteSet(S)
    /\ Source \in [Package -> [Version -> {"sidecar", "wheel", "none"}]]
    /\ Pin \in [Package -> Version \cup {None}]
    /\ {MaxConcurrentFetches, PrefetchDepth, MaxEnvironments, MaxRuns}
          \subseteq Nat \ {0}
    /\ {MaxFetchRetries, MaxFailures, MaxLeftOver} \subseteq Nat

\* A published list; the first revisions come first.  The empty list is the
\* answer 404: the index does not have the package.
Edition == [origin: Index, revision: Nat \ {0}]

Members(pkg, edition) == Lists[edition.origin][pkg][edition.revision]

VARIABLES
    published,      \* the revision each index publishes of each package
    disk,           \* the files of the metadata cache
    entries,        \* by provider: the metadata files its cache knows of
    versions,       \* by provider and package: the slot of the version list
    metadata,       \* by provider and key: the slot of the metadata
    lookups,        \* the running tasks of ensure_versions_fetching
    downloads,      \* the running tasks that fetch metadata
    writes,         \* the spawned blocking writes that have not run yet
    driver,         \* what the solver thread is waiting for
    versionCache,   \* the driver's version_cache
    depsCache,      \* the driver's deps_cache: where the metadata came from
    environment,    \* which environment of the process is resolved
    runs, failures, \* how many resolutions were started, requests failed
    lost            \* history: the metadata a provider failed to download

slots == <<versions, metadata>>
tasks == <<lookups, downloads>>
caches == <<versionCache, depsCache>>
bounds == <<environment, runs, failures>>
vars == <<published, disk, entries, slots, tasks, writes, driver, caches,
          bounds, lost>>

\* A slot is None until it is registered and Pending until it is filled; a
\* version list can be Failed (fetch_error), metadata Absent (no
\* full_metadata).
VersionsSlot == {None, Pending, Failed} \cup Edition
MetadataSlot == {None, Pending, Absent} \cup Index

\* The marks of a slot are told apart from each other and from the answers.
ASSUME MarksAssumption ==
    /\ None \notin {Pending, Failed} \cup Edition
    /\ Pending \notin Edition /\ Failed \notin Edition
    /\ Absent \notin {None, Pending} \cup Index

ListFile == [edition: Edition, fresh: BOOLEAN]

Lookup == [provider: Provider, package: Package, attempt: 0..MaxFetchRetries,
           pc: {"spawned", "missed", "queued", "sending", "claiming"},
           cached: {None} \cup Edition, claims: Seq(Version)]

Download == [provider: Provider, key: Key,
             pc: {"spawned", "queued", "sending"},
             source: {"sidecar", "wheel", "none"}, origin: {None} \cup Index]

\* The solver thread between two questions to the providers.
Idle == [pc |-> "idle", package |-> None, version |-> None, asked |-> <<>>]

\* A process starts with empty slots and caches; the disk caches of its
\* providers adopt every metadata file they find.
EmptySlots == [versions |-> [i \in Provider |-> [p \in Package |-> None]],
               metadata |-> [i \in Provider |-> [k \in Key |-> None]]]

EmptyCaches == [versions |-> [p \in Package |-> None],
                deps |-> [k \in Key |-> None]]

Adopted == {k \in Key : disk.metadata[k] # None}

Init ==
    /\ published = [i \in Index |-> [p \in Package |-> 1]]
    /\ disk = [lists |-> [p \in Package |-> None],
               metadata |-> [k \in Key |-> None]]
    /\ entries = [i \in Provider |-> Adopted]
    /\ versions = EmptySlots.versions /\ metadata = EmptySlots.metadata
    /\ lookups = {} /\ downloads = {} /\ writes = {}
    /\ driver = Idle
    /\ versionCache = EmptyCaches.versions /\ depsCache = EmptyCaches.deps
    /\ environment = 1 /\ runs = 1 /\ failures = 0 /\ lost = {}

-----------------------------------------------------------------------------
(* The world: lists expire on disk (VERSION_LIST_TTL_SECS), indexes        *)
(* publish new revisions; when the driver is done, the process goes on to  *)
(* its next environment or exits and kills every task with it.             *)

Expire(p) ==
    /\ disk.lists[p] # None /\ disk.lists[p].fresh
    /\ disk' = [disk EXCEPT !.lists[p].fresh = FALSE]
    /\ UNCHANGED <<published, entries, slots, tasks, writes, driver, caches,
                   bounds, lost>>

Publish(i, p) ==
    /\ published[i][p] < Len(Lists[i][p])
    /\ published' = [published EXCEPT ![i][p] = @ + 1]
    /\ UNCHANGED <<disk, entries, slots, tasks, writes, driver, caches, bounds,
                   lost>>

\* The providers that go with their environment: no task of theirs still runs.
Dropped == {i \in Provider : \A t \in lookups \cup downloads : t.provider # i}

\* The next turn of the loop over the environments, after a resolution that
\* succeeded: new providers, while the tasks and writes of the earlier ones go
\* on.  (One that asked for nothing has left nothing behind.)
NextEnvironment ==
    /\ driver.pc = "idle"
    /\ \E k \in Key : depsCache[k] # None
    /\ environment < MaxEnvironments /\ runs < MaxRuns
    /\ Cardinality(lookups \cup downloads \cup writes) <= MaxLeftOver
    /\ environment' = environment + 1 /\ runs' = runs + 1
    /\ entries' = [i \in Provider |-> IF i[2] = environment + 1 THEN Adopted
                                      ELSE entries[i]]
    /\ versions' = [i \in Provider |-> IF i \in Dropped
                                       THEN EmptySlots.versions[i]
                                       ELSE versions[i]]
    /\ metadata' = [i \in Provider |-> IF i \in Dropped
                                       THEN EmptySlots.metadata[i]
                                       ELSE metadata[i]]
    /\ versionCache' = EmptyCaches.versions /\ depsCache' = EmptyCaches.deps
    /\ UNCHANGED <<published, disk, tasks, writes, driver, failures, lost>>

Restart ==
    /\ driver.pc = "idle"
    /\ runs < MaxRuns
    /\ runs' = runs + 1 /\ environment' = 1
    /\ entries' = [i \in Provider |-> Adopted]
    /\ versions' = EmptySlots.versions /\ metadata' = EmptySlots.metadata
    /\ lookups' = {} /\ downloads' = {} /\ writes' = {}
    /\ versionCache' = EmptyCaches.versions /\ depsCache' = EmptyCaches.deps
    /\ lost' = {}
    /\ UNCHANGED <<published, disk, driver, failures>>

-----------------------------------------------------------------------------
(* The driver.                                                             *)

\* The providers of the environment that is being resolved.
Present == Index \X {environment}

\* Mutant of Unregistered: only a filled slot keeps a task from starting.
Unanswered(p) == {i \in Present : versions[i][p] \in {None, Pending}}

\* register_versions: the providers that have no slot for p.
Unregistered(p) == {i \in Present : versions[i][p] = None}

\* batch_prefetch: every provider starts looking p up, once, whether or not
\* its scope allows p.
Prefetch(p) ==
    /\ driver.pc = "idle"
    /\ versionCache[p] = None
    /\ Unregistered(p) # {}
    /\ lookups' = lookups \cup
          {[provider |-> i, package |-> p, pc |-> "spawned", attempt |-> 0,
            cached |-> None, claims |-> <<>>] : i \in Unregistered(p)}
    /\ versions' = [i \in Provider |-> [versions[i] EXCEPT
                       ![p] = IF i \in Unregistered(p) THEN Pending ELSE @]]
    /\ UNCHANGED <<published, disk, entries, metadata, downloads, writes,
                   driver, caches, bounds, lost>>

\* run_solver prefetches all undecided packages before it picks one.
Prefetched(p) == \A i \in Present : versions[i][p] # None

\* get_versions: a pin answers at once, without asking a provider.
UsePin(p) ==
    /\ driver.pc = "idle"
    /\ versionCache[p] = None /\ Pin[p] # None /\ Prefetched(p)
    /\ versionCache' = [versionCache EXCEPT ![p] = {Pin[p]}]
    /\ UNCHANGED <<published, disk, entries, slots, tasks, writes, driver,
                   depsCache, bounds, lost>>

AskVersions(p) ==
    /\ driver.pc = "idle"
    /\ versionCache[p] = None /\ Pin[p] = None /\ Prefetched(p)
    /\ driver' = [pc |-> "versions", package |-> p, version |-> None,
                  asked |-> Priority]
    /\ UNCHANGED <<published, disk, entries, slots, tasks, writes, caches,
                   bounds, lost>>

Asking == <<Head(driver.asked), environment>>

Wanted == <<driver.package, driver.version>>

Allowed == driver.asked # <<>> /\ driver.package \in Serves[Head(driver.asked)]

\* wait_versions: the answer of the provider, once its slot is filled.
VersionsAnswer ==
    LET slot == versions[Asking][driver.package]
    IN  IF slot = Failed THEN {} ELSE Members(driver.package, slot)

\* The first provider with a version answers; without one there is none.
TakeVersions ==
    /\ driver.pc = "versions"
    /\ \/ driver.asked = <<>>
       \/ /\ Allowed /\ versions[Asking][driver.package] # Pending
          /\ VersionsAnswer # {}
    /\ versionCache' = [versionCache EXCEPT ![driver.package] =
                           IF driver.asked = <<>> THEN {} ELSE VersionsAnswer]
    /\ driver' = Idle
    /\ UNCHANGED <<published, disk, entries, slots, tasks, writes, depsCache,
                   bounds, lost>>

\* The package is out of scope, the provider has no version of it, or it
\* failed (which get_versions only logs): the next one is asked.
AskNextForVersions ==
    /\ driver.pc = "versions"
    /\ driver.asked # <<>>
    /\ Allowed => /\ versions[Asking][driver.package] # Pending
                  /\ VersionsAnswer = {}
    /\ driver' = [driver EXCEPT !.asked = Tail(@)]
    /\ UNCHANGED <<published, disk, entries, slots, tasks, writes, caches,
                   bounds, lost>>

\* get_dependencies of a version the solver has chosen.
AskMetadata(p, v) ==
    /\ driver.pc = "idle"
    /\ versionCache[p] # None /\ v \in versionCache[p]
    /\ depsCache[<<p, v>>] = None
    /\ driver' = [pc |-> "metadata", package |-> p, version |-> v,
                  asked |-> Priority]
    /\ UNCHANGED <<published, disk, entries, slots, tasks, writes, caches,
                   bounds, lost>>

\* Mutant of WheelInfo: only sidecars are looked for.
WheelInfoSidecarsOnly(i, k) ==
    LET slot == versions[i][k[1]]
    IN  IF /\ slot \in Edition /\ k[2] \in Members(k[1], slot)
           /\ Source[k[1]][k[2]] = "sidecar"
        THEN [source |-> "sidecar", origin |-> slot.origin]
        ELSE [source |-> "none", origin |-> None]

\* get_wheel_info: what the version list, if it is there, says of a key.
WheelInfo(i, k) ==
    LET slot == versions[i][k[1]]
    IN  IF slot \in Edition /\ k[2] \in Members(k[1], slot)
        THEN [source |-> Source[k[1]][k[2]], origin |-> slot.origin]
        ELSE [source |-> "none", origin |-> None]

\* ensure_metadata_fetching.
StartDownload ==
    /\ driver.pc = "metadata" /\ Allowed
    /\ metadata[Asking][Wanted] = None
    /\ metadata' = [metadata EXCEPT ![Asking][Wanted] = Pending]
    /\ downloads' = downloads \cup
          {[provider |-> Asking, key |-> Wanted, pc |-> "spawned",
            source |-> WheelInfo(Asking, Wanted).source,
            origin |-> WheelInfo(Asking, Wanted).origin]}
    /\ UNCHANGED <<published, disk, entries, versions, lookups, writes, driver,
                   caches, bounds, lost>>

\* wait_metadata.  Without metadata from any provider the version has no
\* dependencies.
TakeMetadata ==
    /\ driver.pc = "metadata"
    /\ \/ driver.asked = <<>>
       \/ Allowed /\ metadata[Asking][Wanted] \in Index
    /\ depsCache' = [depsCache EXCEPT ![Wanted] =
                        IF driver.asked = <<>> THEN Absent
                        ELSE metadata[Asking][Wanted]]
    /\ driver' = Idle
    /\ UNCHANGED <<published, disk, entries, slots, tasks, writes, versionCache,
                   bounds, lost>>

AskNextForMetadata ==
    /\ driver.pc = "metadata"
    /\ driver.asked # <<>>
    /\ Allowed => metadata[Asking][Wanted] = Absent
    /\ driver' = [driver EXCEPT !.asked = Tail(@)]
    /\ UNCHANGED <<published, disk, entries, slots, tasks, writes, caches,
                   bounds, lost>>

-----------------------------------------------------------------------------
(* Version lists: the task of ensure_versions_fetching.                    *)

Move(set, t, to) == (set \ {t}) \cup {to}

\* get_versions_full: within VERSION_LIST_TTL_SECS of its writing.
Fresh(p) == disk.lists[p] # None /\ disk.lists[p].fresh

\* A list on disk younger than the time to live is the answer.
AnswerFromDisk(t) ==
    /\ t.pc = "spawned" /\ Fresh(t.package)
    /\ versions' = [versions EXCEPT ![t.provider][t.package] =
                       disk.lists[t.package].edition]
    /\ lookups' = lookups \ {t}
    /\ UNCHANGED <<published, disk, entries, metadata, downloads, writes,
                   driver, caches, bounds, lost>>

MissDisk(t) ==
    /\ t.pc = "spawned" /\ ~Fresh(t.package)
    /\ lookups' = Move(lookups, t, [t EXCEPT !.pc = "missed"])
    /\ UNCHANGED <<published, disk, entries, slots, downloads, writes, driver,
                   caches, bounds, lost>>

\* Read a second time, the list on disk, if there is one by now, lends its
\* validators to a conditional request.
QueueLookup(t) ==
    /\ t.pc = "missed"
    /\ lookups' = Move(lookups, t, [t EXCEPT !.pc = "queued", !.cached =
                      IF disk.lists[t.package] = None THEN None
                      ELSE disk.lists[t.package].edition])
    /\ UNCHANGED <<published, disk, entries, slots, downloads, writes, driver,
                   caches, bounds, lost>>

Permits(i) ==
    MaxConcurrentFetches
        - Cardinality({t \in lookups \cup downloads :
                          t.provider = i /\ t.pc = "sending"})

\* semaphore.acquire: the permit is held until the last attempt is over.
SendLookup(t) ==
    /\ t.pc = "queued" /\ Permits(t.provider) > 0
    /\ lookups' = Move(lookups, t, [t EXCEPT !.pc = "sending"])
    /\ UNCHANGED <<published, disk, entries, slots, downloads, writes, driver,
                   caches, bounds, lost>>

\* A transport error, 429 or 5xx with attempts left.
RetryLookup(t) ==
    /\ t.pc = "sending" /\ t.attempt < MaxFetchRetries
    /\ failures < MaxFailures /\ failures' = failures + 1
    /\ lookups' = Move(lookups, t, [t EXCEPT !.attempt = @ + 1])
    /\ UNCHANGED <<published, disk, entries, slots, downloads, writes, driver,
                   caches, environment, runs, lost>>

\* No attempts left, another status, or a body that cannot be read.
FailLookup(t) ==
    /\ t.pc = "sending"
    /\ failures < MaxFailures /\ failures' = failures + 1
    /\ versions' = [versions EXCEPT ![t.provider][t.package] = Failed]
    /\ lookups' = lookups \ {t}
    /\ UNCHANGED <<published, disk, entries, metadata, downloads, writes,
                   driver, caches, environment, runs, lost>>

Current(i, p) == [origin |-> i, revision |-> published[i][p]]

\* 304: the list on disk still is what the index publishes.
NotModified(t) ==
    /\ t.pc = "sending"
    /\ t.cached = Current(IndexOf(t.provider), t.package)
    /\ Members(t.package, t.cached) # {}
    /\ versions' = [versions EXCEPT ![t.provider][t.package] = t.cached]
    /\ writes' = writes \cup {[op |-> "refresh", provider |-> t.provider,
                                   package |-> t.package]}
    /\ lookups' = lookups \ {t}
    /\ UNCHANGED <<published, disk, entries, metadata, downloads, driver,
                   caches, bounds, lost>>

\* handle_fresh_versions: the highest versions with a sidecar, falling.
Likely(p, edition) ==
    LET sidecars == {v \in Members(p, edition) : Source[p][v] = "sidecar"}
        highest == {v \in sidecars : Cardinality({w \in sidecars : w > v})
                                        < PrefetchDepth}
    IN  CHOOSE s \in [1..Cardinality(highest) -> highest] :
            /\ ToSet(s) = highest
            /\ \A j, k \in DOMAIN s : j < k => s[j] > s[k]

\* For a list or for 404: fill the slot, write the list to disk later, and go
\* on to claim the metadata of the likely versions.
ReceiveList(t) ==
    /\ t.pc = "sending"
    /\ LET edition == Current(IndexOf(t.provider), t.package)
       IN  /\ versions' = [versions EXCEPT ![t.provider][t.package] = edition]
           /\ writes' = writes \cup {[op |-> "list", provider |-> t.provider,
                                      package |-> t.package,
                                      edition |-> edition]}
           /\ lookups' = Move(lookups, t, [t EXCEPT !.pc = "claiming",
                             !.claims = Likely(t.package, edition)])
    /\ UNCHANGED <<published, disk, entries, metadata, downloads, driver,
                   caches, bounds, lost>>

\* The provider's disk cache has the metadata (MetadataCache::get).
OnDisk(i, k) == k \in entries[i] /\ disk.metadata[k] # None

\* Mutant of ClaimCandidate: what register_metadata returns is ignored.
ClaimTakenCandidate(t) ==
    /\ t.pc = "claiming" /\ t.claims # <<>>
    /\ LET k == <<t.package, Head(t.claims)>>
       IN  /\ metadata' = [metadata EXCEPT ![t.provider][k] =
                              IF OnDisk(t.provider, k) THEN disk.metadata[k]
                              ELSE Pending]
           /\ downloads' = IF OnDisk(t.provider, k) THEN downloads
                           ELSE downloads \cup
                                {[provider |-> t.provider, key |-> k, pc |-> "queued",
                                  source |-> "sidecar", origin |-> IndexOf(t.provider)]}
    /\ lookups' = Move(lookups, t, [t EXCEPT !.claims = Tail(@)])
    /\ UNCHANGED <<published, disk, entries, versions, writes, driver, caches,
                   bounds, lost>>

\* One turn of the loop over the candidates: unless the key has a slot, claim
\* it and fill it from disk or spawn a download.
ClaimCandidate(t) ==
    /\ t.pc = "claiming" /\ t.claims # <<>>
    /\ LET k == <<t.package, Head(t.claims)>>
           free == metadata[t.provider][k] = None
       IN  /\ metadata' = IF free
                          THEN [metadata EXCEPT ![t.provider][k] =
                                   IF OnDisk(t.provider, k) THEN disk.metadata[k]
                                   ELSE Pending]
                          ELSE metadata
           /\ downloads' = IF free /\ ~OnDisk(t.provider, k)
                           THEN downloads \cup
                                {[provider |-> t.provider, key |-> k, pc |-> "queued",
                                  source |-> "sidecar", origin |-> IndexOf(t.provider)]}
                           ELSE downloads
    /\ lookups' = Move(lookups, t, [t EXCEPT !.claims = Tail(@)])
    /\ UNCHANGED <<published, disk, entries, versions, writes, driver, caches,
                   bounds, lost>>

FinishLookup(t) ==
    /\ t.pc = "claiming" /\ t.claims = <<>>
    /\ lookups' = lookups \ {t}
    /\ UNCHANGED <<published, disk, entries, slots, downloads, writes, driver,
                   caches, bounds, lost>>

LookupStep(t) ==
    \/ AnswerFromDisk(t) \/ MissDisk(t) \/ QueueLookup(t) \/ SendLookup(t)
    \/ RetryLookup(t) \/ FailLookup(t) \/ NotModified(t) \/ ReceiveList(t)
    \/ ClaimCandidate(t) \/ FinishLookup(t)

-----------------------------------------------------------------------------
(* Metadata: the task of ensure_metadata_fetching, which reads the disk    *)
(* first, and the one handle_fresh_versions spawns, which starts queued.   *)

Fill(t, answer) ==
    /\ metadata' = [metadata EXCEPT ![t.provider][t.key] = answer]
    /\ downloads' = downloads \ {t}

\* From disk; or there is nowhere to download it from.
AnswerAtOnce(t) ==
    /\ t.pc = "spawned"
    /\ OnDisk(t.provider, t.key) \/ t.source = "none"
    /\ Fill(t, IF OnDisk(t.provider, t.key) THEN disk.metadata[t.key] ELSE Absent)
    /\ UNCHANGED <<published, disk, entries, versions, lookups, writes, driver,
                   caches, bounds, lost>>

QueueDownload(t) ==
    /\ t.pc = "spawned"
    /\ ~OnDisk(t.provider, t.key) /\ t.source # "none"
    /\ downloads' = Move(downloads, t, [t EXCEPT !.pc = "queued"])
    /\ UNCHANGED <<published, disk, entries, slots, lookups, writes, driver,
                   caches, bounds, lost>>

\* Mutant of SendDownload: one request too many.
SendOneMore(t) ==
    /\ t.pc = "queued" /\ Permits(t.provider) >= 0
    /\ downloads' = Move(downloads, t, [t EXCEPT !.pc = "sending"])
    /\ UNCHANGED <<published, disk, entries, slots, lookups, writes, driver,
                   caches, bounds, lost>>

SendDownload(t) ==
    /\ t.pc = "queued" /\ Permits(t.provider) > 0
    /\ downloads' = Move(downloads, t, [t EXCEPT !.pc = "sending"])
    /\ UNCHANGED <<published, disk, entries, slots, lookups, writes, driver,
                   caches, bounds, lost>>

ReceiveMetadata(t) ==
    /\ t.pc = "sending"
    /\ Fill(t, t.origin)
    /\ writes' = writes \cup {[op |-> "metadata", provider |-> t.provider,
                               key |-> t.key, origin |-> t.origin]}
    /\ UNCHANGED <<published, disk, entries, versions, lookups, driver, caches,
                   bounds, lost>>

\* Mutant of FailDownload: the slot is left empty.
FailDownloadSilently(t) ==
    /\ t.pc = "sending"
    /\ failures < MaxFailures /\ failures' = failures + 1
    /\ downloads' = downloads \ {t}
    /\ lost' = lost \cup {<<t.provider, t.key>>}
    /\ UNCHANGED <<published, disk, entries, slots, lookups, writes, driver,
                   caches, environment, runs>>

\* There is one attempt; a failure counts as a version without metadata.
FailDownload(t) ==
    /\ t.pc = "sending"
    /\ failures < MaxFailures /\ failures' = failures + 1
    /\ Fill(t, Absent)
    /\ lost' = lost \cup {<<t.provider, t.key>>}
    /\ UNCHANGED <<published, disk, entries, versions, lookups, writes, driver,
                   caches, environment, runs>>

DownloadStep(t) ==
    \/ AnswerAtOnce(t) \/ QueueDownload(t) \/ SendDownload(t)
    \/ ReceiveMetadata(t) \/ FailDownload(t)

-----------------------------------------------------------------------------
(* The blocking writes run at any time, in any order, or never.            *)

\* refresh_versions_timestamp rewrites the list it reads; the providers do not
\* share a lock, so another list may be written in between.
ReadForRefresh(w) ==
    /\ w.op = "refresh"
    /\ writes' = (writes \ {w}) \cup
          IF disk.lists[w.package] = None THEN {}
          ELSE {[op |-> "list", provider |-> w.provider, package |-> w.package,
                 edition |-> disk.lists[w.package].edition]}
    /\ UNCHANGED <<published, disk, entries, slots, tasks, driver, caches,
                   bounds, lost>>

WriteList(w) ==
    /\ w.op = "list" /\ writes' = writes \ {w}
    /\ disk' = [disk EXCEPT !.lists[w.package] =
                   [edition |-> w.edition, fresh |-> TRUE]]
    /\ UNCHANGED <<published, entries, slots, tasks, driver, caches, bounds,
                   lost>>

WriteMetadata(w) ==
    /\ w.op = "metadata" /\ writes' = writes \ {w}
    /\ disk' = [disk EXCEPT !.metadata[w.key] = w.origin]
    /\ entries' = [entries EXCEPT ![w.provider] = @ \cup {w.key}]
    /\ UNCHANGED <<published, slots, tasks, driver, caches, bounds, lost>>

-----------------------------------------------------------------------------
DriverStep ==
    \/ TakeVersions \/ AskNextForVersions
    \/ StartDownload \/ TakeMetadata \/ AskNextForMetadata

TaskStep == \/ \E t \in lookups : LookupStep(t)
            \/ \E t \in downloads : DownloadStep(t)

Next ==
    \/ \E p \in Package : \/ Prefetch(p) \/ UsePin(p) \/ AskVersions(p)
                          \/ Expire(p)
                          \/ \E v \in Version : AskMetadata(p, v)
                          \/ \E i \in Index : Publish(i, p)
    \/ DriverStep
    \/ TaskStep
    \/ \E w \in writes : ReadForRefresh(w) \/ WriteList(w) \/ WriteMetadata(w)
    \/ NextEnvironment
    \/ Restart

Spec == Init /\ [][Next]_vars

\* The runtime polls every task that is ready, and a request ends within the
\* client's timeout of 30 seconds; the driver takes an answer that is there.
\* Nothing is assumed of the writes, the world, or what the solver asks for.
FairSpec == Spec /\ WF_vars(TaskStep) /\ WF_vars(DriverStep)
=============================================================================
