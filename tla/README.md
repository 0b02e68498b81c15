# A TLA+ model of vyp

vyp resolves and installs Python packages. Its core is a PubGrub solver that
runs on a thread of its own, asks package indexes for versions and metadata
while it solves, and hands its resolution to an installer that links wheels
out of a shared archive cache. This directory holds TLA+ modules for the parts
whose correctness is hardest to test, TLC configurations that check them on
small instances, and theorems that TLAPS checks for every instance.
Source paths below are relative to `src/crates/`.

## 1. Inventory

| component | state | operations | what is hard | what makes it correct |
|---|---|---|---|---|
| PubGrub solver, `vyp-resolver/src/solver.rs` | store of incompatibilities, trail (`PartialSolution`), watch lists and pairs, queue of packages to propagate | `unit_propagation`, `conflict_resolution`, `backtrack`, `add_dependencies`, `set_watches`, `gc_learned_watches`, `pick_next_package` | state kept over backjumps, watch lists that change while they are walked, forgetting learned clauses | verdicts are right; nothing learned excludes a solution; propagation misses nothing; it ends |
| resolution driver, `vyp-core/src/lib.rs` | version and dependency caches, inherited conflicts, provenance | `resolve`, `run_solver`, `get_versions`, `get_dependencies` | caches that outlive a backjump, errors that turn into empty answers | the solver sees one stable index |
| in-memory index and PyPI provider, `vyp-index/src/{in_memory_index,pypi}.rs` | one slot per package and per version, in-flight tasks, permits | `ensure_versions_fetching`, `ensure_metadata_fetching`, `handle_fresh_versions`, `fetch_*_async`, `wait_*` | tasks and the solver thread racing for a slot, retries, failures, several providers on one disk cache, tasks that outlive their environment | every wait ends; a slot is filled once; the answer is the index's own |
| metadata disk cache, `vyp-index/src/cache.rs` | index of entries in memory, index file, one file per entry, version lists with a date | `get`, `insert`, `insert_versions`, `refresh_versions_timestamp`, `flush`, `evict_if_needed`, `reconcile_orphans` | crash between a file and the index, two processes, batched flushes, sizes recorded once | an entry read is the entry written; what was measured stays bounded; nothing readable is lost by a crash |
| index router and provider registry, `vyp-core/src/{index_router,plugin/registry}.rs` | scopes, seeds, default-reachable set | `seed_*`, `propagate`, `routes_to`, `batch_prefetch` | routes that depend on the order of discovery | declared roots come from their own index |
| strategies and filters, `vyp-core/src/strategies/`, `vyp-index/src/version_filter.rs` | none of their own | `evaluate`, `filter` | rewriting with conflicts inherited from versions that were undone | only what is declared is rewritten; what is offered can be installed |
| version order, ranges, requirements, markers, `vyp-api/src/types/`, `vyp-resolver/src/provider.rs` | a cached environment per interpreter | `cmp`, `bump`, `requirements_to_range`, `evaluate`, `detect` | boundary versions, versions compared as strings, stale environments | a range holds exactly what the specifier allows; markers mean what they say |
| wheel tags, `vyp-index/src/wheel_compat.rs` | none | `is_compatible`, `compatibility_score` | tags of other machines and Pythons that almost fit | what is chosen runs |
| wheel archive cache, `vyp/src/cache/wheel_cache.rs` | archives, their lists, temporary directories | `store`, `evict`, `clean`, `prune` | two processes on one cache, crash between rename and list or within the list | an archive in place is complete; a success has linked it all |
| linker and installed distributions, `vyp/src/cache/{linker,installed}.rs` | site-packages, `RECORD` | `install_wheel`, `uninstall_dist` | hard links shared by environments, a crash half-way, errors that are passed over | what is installed is whole and listed |
| install pipeline and sync, `vyp/src/cli/{common,install,sync,uninstall}.rs` | batch of downloads, links, failures | cached links beside downloads, hash and identity checks | one of several failing, order of removal and installation | what is installed is what was locked and verified |
| lockfile and universal lock, `vyp/src/lock/` | none | merge of several resolutions | packages that differ by environment | the merged lock selects in each environment what was resolved for it |
| error report, provenance, plugin loader, offline provider, settings, accelerators, other commands, python wrapper | little or none | rendering, parsing, look-ups | | |

Interactions: `run_solver` calls the solver between its own calls to the
providers; a provider's call starts a tokio task when none runs for the key and
blocks on a condition variable until the slot is filled; tasks share the disk
cache under a mutex and a semaphore for HTTP requests; the router is read by
the providers (`can_provide`) and grown by the driver (`propagate`); the
install pipeline takes the resolution with the wheel URLs, or the lock, and
never goes back to the solver.

## 2. How the project is cut

| layer | module(s) | abstract statement | checked by | proved in |
|---|---|---|---|---|
| solver | `Packages`, `Resolution`, `Terms`, `Incompatibilities`, `PartialSolutions`, `WatchIndex`, `Solver`, `SolverProperties` | `Resolution`: answer with a valid assignment or refuse an unsolvable index | `ordinary`, `contended`, `pinned` | `SolverProofs` |
| fetching | `Fetching`, `FetchingProperties` | a slot that is filled once | `fetch_contended`, `two_indexes` | `FetchingProofs` |
| routing and strategies | `IndexRouter`, `Driver`, `DriverProperties` | reachability from the roots (`Reach`) | `driver`, `rerouted` | `DriverProofs` |
| metadata on disk | `MetadataCache`, `ForgetfulStore` | `ForgetfulStore`: a map that may forget | `cache` | `MetadataCacheProofs` |
| archives | `WheelCache` | | `wheels` | `WheelCacheProofs` |
| environments | `Environment` | | `environments` | `EnvironmentProofs` |
| lock and installation | `Versions`, `Requirements`, `Markers`, `WheelTags`, `Locking`, `LockingProperties` | an independent reading of PEP 440, 508 and 425 in `LockingProperties` | `locking`, `universal` | `LockingProofs` |

The layers meet at the values they exchange. `Packages` is what `Fetching` and
`Driver` must amount to for the solver; `Locking` takes any assignment that
`Solver` may return, and reduces the two caches to what their own modules show
that a look-up can return. Composing the state spaces would multiply them
without a step that both share, except for the metadata cache: `Fetching`
has its version lists and whole files, `MetadataCache` its crashes, `Locking`
whose requirements it holds.

Modules that are proved about declare no `RECURSIVE` operator; constants carry
named assumptions; each operation is one action.

## 3. The modules

### The solver

`Packages` says what a package index is and what a valid and needed assignment
is; `Valid` is the oracle of `vyp-core/tests/solver_property.rs`.
`Resolution` is the promise: one step that answers with such an assignment, or
refuses an index that has none.

`Terms`, `Incompatibilities`, `PartialSolutions` and `WatchIndex` translate the
types of `solver.rs` and their methods as operators. A range is the set of the
points of a finite version line it contains: intersection, union, complement
and subset of ranges are those of sets, and the line has points between and
above the offered versions so that `>=` is never `==`. (`Requirements` has the
ranges with their bounds.) The two forms of a term stay apart because the code
distinguishes them: the complement of a positive term allows absence.

`Solver` is the machine. `pc` names the loop the thread is in.

| action | code |
|---|---|
| `RegisterDependency`, `FinishRegistration` | the loop and the end of `add_dependencies`; for the project, the set-up of `resolve` |
| `PopPackage` | next package of the queue, snapshot of its watch list |
| `FindConflict`, `DeriveUnit`, `LeaveDormant` | the arms of the match of `unit_propagation` for one watcher, with the moves of its watches |
| `ResolveWithCause`, `ReportNoSolution`, `Backjump` | one turn of `conflict_resolution`, its error, and the backtracking with the derivation that follows it |
| `ReturnSolution`, `RegisterNoVersions`, `ChooseVersion`, `ChooseVersionAgain` | the rest of a turn of `run_solver` |

Abstractions, all of them wider or equal to the code:

* Which undecided package is picked is left open. The code picks by the number
  of versions in range and the VSIDS score; the counts depend on when a prefetch
  arrives, so over several runs any order can occur.
* The dependencies of a version are a function of the version. `Fetching` and
  `Driver` say when that is so: slots are filled once, and what inherited
  conflicts rewrite does not show in what a version requires of others
  (`RequirementsFaithful`). The warm start has no caller and is not modelled.
* The requirements of the project get their ids one by one in the model, all at
  once in `resolve`. Ids order packages only, and the order is the same.
* The skip of a watcher that has moved since the snapshot is in the model
  (`LeaveDormant`); `WatchListsAgree` shows that it never happens.
* The text of the error report is left out.

`SolverProperties` states what must hold.

* `StoreEntailed`: no stored incompatibility excludes a valid assignment.
* `RefusalSound`, `SolutionSound`, `SolutionNeeded`: the two verdicts are
  right, and nothing is installed that nothing asks for, although packages are
  derived and decided for choices that are undone later.
* `ConflictHolds`: the incompatibility under analysis is violated at every turn
  of conflict resolution; otherwise the search for a satisfier has none.
* `TrailOrdered`: levels follow the global order of assignments over any number
  of backjumps, and each open level has one standing decision.
* `BackjumpRepairs`: a backjump lands where the learned incompatibility is
  contradicted, keeps nothing above its level, and keeps the project.
* `PropagationComplete`: a dependency that is registered gets a watch on the
  package that depends (`DependentWatched`), and when propagation returns, no
  watched incompatibility is violated and the dependencies of what is decided are
  derived (`RequirementsDerived`). The stronger
  "nothing is left unit" is false and harmless: an incompatibility that became
  unit again after a backjump is met when its package is decided.
* `WatchListsAgree`: the lists and the pairs tell the same, one entry per
  watch, through moves, `swap_remove` and garbage collection.
* `ClausesHaveTerms`: the `expect` of `pick_initial_watches` holds.
* `Terminates`, under fairness.
* `ImplementsResolution`: refinement of `Resolution`, with the verdict and the
  extracted solution as mapping.

### Fetching

`Fetching` models what is behind the solver's two questions, the versions of a
package and the metadata of a version.

| state | code |
|---|---|
| `versions`, `metadata` | the slots of each provider's `InMemoryIndex`: none, pending, filled |
| `lookups`, `downloads` | the tokio tasks of `ensure_versions_fetching`, `ensure_metadata_fetching` and `handle_fresh_versions`, each with the step it is at; a task with `pc = "sending"` holds a permit of the semaphore |
| `writes` | the blocking tasks that write to the disk cache |
| `disk`, `entries` | the files of the cache directory all providers share, and the entries each provider's `MetadataCache` knows |
| `driver`, `versionCache`, `depsCache` | the solver thread in `get_versions` or `get_dependencies`, the providers it has still to ask, and its two caches |
| `environment` | the turn of the loop of `resolve_from_config` (`common.rs:76`) the process is in |
| `published` | the revision of each list an index publishes |

The driver's actions are `Prefetch`, `UsePin`, `AskVersions`, `TakeVersions`,
`AskNextForVersions` and the same for metadata. A lookup is answered from disk,
or waits for a permit, is retried, fails, is told that its list is current, or
receives a list; then it claims the metadata of the highest versions one by one.
A download is answered from disk, or has one attempt.

A `Provider` belongs to an index and to one environment of the process.
`NextEnvironment` makes the next turn of the loop over the environments: the
driver's caches and the providers are new, the runtime is the process's
(`shared_runtime`, `pypi.rs:74`), so the tasks and writes of earlier providers go
on and reach the disk whenever they do. `Restart` ends the process with every
task and starts the next one on the same disk; it stands for the end of a process
at any environment. A process killed while the driver waits leaves the same disk,
so `Restart` only happens when it does not. Two processes at the same time are
not in `Fetching`; `MetadataCache` has them.

Abstractions: which versions are offered and asked for is left open, lists hold
the installable versions only (`filter_viable` is in `Locking`, the candidate
filters in `Driver`), an answer is named by where it comes from, the routes of
packages are fixed (`Driver` lets them grow), entries are not evicted and files
are read and written whole (`MetadataCache` does neither). A 304 to an
unconditional request, for which the code has an arm, is no answer of an HTTP
server and is left out.

* `SlotsFilledOnce`: what one caller was given, all are given.
* `WaitsEnd`: the solver thread is never left waiting.
* `DependenciesKnown`: no dependencies only if the metadata could not be had.
  It holds while nothing is pinned; see section 6.
* `ListsAdvance`: while a process resolves its first environment, no list on disk
  is replaced by an older one of its index. For later environments this is false
  of the code (section 6) and is not stated.
* `TypeOK` also bounds the attempts of a task and the requests under way.

### Routing, filters and strategies

`IndexRouter` has the router as a record with the methods of
`index_router.rs` as operators, and `Reach`, the least set of packages a set of
roots reaches, as what it should amount to. `Driver` composes it with
everything else that decides what the solver is told. The solver is reduced to
what it may ask: the versions of any known package, then the dependencies of
any version, again and again as it backtracks.

| state | code |
|---|---|
| `router` | the shared `IndexRouter`, first seeded as `settings.rs` does |
| `versionCache`, `depsCache`, `inherited` | the caches of `lib.rs`, with the index that answered, and `inherited_conflicts` |
| `picked`, `latest` | the package of the round and the version it ended with |
| `failed` | which lookups failed: the outcome of a request is the only fault |

`UsePin`, `TakeList` and `UseList` are `get_versions`; `Expand` and `Revisit`
are `get_dependencies` on a cache miss and on a hit, which propagates to the
router again; `NoneInRange` is a round without a version. `Providers` are
the ones `settings.rs` creates, in their `Place`; `Before` is the order the
registry sorts them into, by `Priority` and then by place, and `First` the one
of a set that is asked first.

* `RouterSound`, `LatestReached`: the scopes hold nothing but what the roots
  reach along edges the solver has walked, and all that the version expanded
  last passes on, although it may have been cached before it became a member.
* `DirectFromDefault`: a direct dependency is not taken from a named index it
  is not routed to. `RootsFallBackLast`: a routed one falls through to an
  unscoped index only if its own has no version or could not be asked.
* `CandidatesAllowed`: filters and order of what is offered.
* `RequirementsFaithful`: requirements of other packages are those that were
  published, whichever conflicts had been inherited by then.
* `RequirementsOfOrigin` says what a comment does, and fails (section 5).

### The metadata cache

`MetadataCache` has the files, the index file, and for each process the index in
memory with its dirty mark and count of changes. A process may be killed between
any two steps: in the middle of an entry (`StartInsert`, `FinishInsert`), or of
the index file (`Kill`). `Open` loads the index and adopts or removes what it
does not name (`load_index`, `reconcile_orphans`); it measures what it adopts and
believes the index of the rest. `Hit`, `Unreadable` and `Miss` are `get`;
`FinishInsert` ends with the eviction, `FailInsert` leaves a part of the file.
`Size` is that of a value, so that a key written again may have another size than
an index records. A flush may fail and leave the index file as it was or cut
short (`Flushed`), and a file may resist its removal, which the code ignores.
`CleanAll` is `vyp cache clean`, which may remove a part only and runs beside other
processes: a file whose name is removed while it is written is lost (`linked`).
Time has the resolution of a
second, so several entries may have the same last access.

* `ImplementsStore`: under all of this the cache is a map that may forget.
* `NothingOrphaned`: a process that has the cache to itself knows of every whole
  file its predecessors left, but those it has failed to remove itself.
* `MeasuredWithinLimit`: after each of its insertions, the files whose size such a
  process has recorded itself (`measured`) are within the limit.
* `OldestGoFirst`: an eviction keeps nothing older than what it removes.

The limit on all files holds neither with several processes at once nor for one
alone (section 6).

### Archives of wheels

`WheelCache` has the archives, their lists (`.vyp_filelist`), the directories
under temporary names, and for each command the step it is at: find or download,
extract file by file, rename into place, create and then write the list, check
that the wheel names itself as expected, link, evict or clean entry by entry,
prune. A command may be killed at any step; `Interruptible` says whether also
while it removes a directory. The list is written by one `fs::write` that is not
atomic: when it is killed or the disk is full (`FailManifest`), the list is empty
or one of `Cut`, some of the names with the last one perhaps cut as well. A cut
name is that of another file of the wheel, or `Torn`: of nothing, so that linking
it fails, or of a directory, which the linker skips.

* `CompleteUnlessListCut`: a command that ends well has linked every file; or an
  earlier command stopped half-way through the list (`cutShort`), and it has linked
  what is named there. The second case is a defect of the code (section 6); the
  property says that it is the only one.
* `ArchivesWhole`: an archive in place is whole or on its way out.

### Environments

`Environment` has virtual environments that share archived wheels by hard link,
so that writing through one changes all. `StartSync`, `StartInstall` and
`StartUninstall` are the commands, `RemoveFile`, `LeaveFiles` and `RemoveDistInfo`
are `uninstall_dist`, which ignores what it cannot remove and drops the dist-info
all the same (`unremoved` remembers these files for the property), and linking a wheel is `NextWheel`, `PlaceFile` (clone, else
link, else copy), `PlaceRecord`, `WriteLaunchers`, `TruncateRecord` and
`WriteRecord`. `FailWheel` lets the other wheels go on; `Kill` ends the command.

* `InstalledWhole`: success means that every locked file is there, with its own
  content, and is listed.
* `NoStrays`: a file that no `RECORD` lists is of a wheel whose linking was cut
  short, or is one whose removal failed and was passed over.

### From constraints to an installation

Pure algorithms, translated as operators: `Versions` (order of PEP 440 versions
with epochs, pre-, post-, dev- and local parts), `Requirements` (`satisfied_by`
and the ranges of `provider.rs` with the boundary versions they make),
`Markers` (the tree of a parsed marker and its evaluation: version and string
comparison, lists, inverted operands, extras), `WheelTags` (the tags a machine
accepts and the score of a wheel).

`Locking` runs them: resolve each environment of the configuration or the one
that is detected (`ResolveEnvironment`, `ResolveSingle`), merge and write the
lock by either strategy (`WriteLock`), install from it (`Install`). Beside it
time passes for cached environments (`Expire`) and interpreters are replaced
(`Upgrade`). What one resolution leaves in the metadata cache the next may
find (`stored`), what one installation unpacks the next may link (`archives`).

`LockingProperties` reads the same texts a second time and independently: the
order of versions is a list, markers are the expressions they were written from,
tags are compared with what a machine runs. `Locking` reaches markers by its
constant `Holds`, which the runs give the value `MarkerHolds` of `Markers`: their
parser is recursive, and nothing can be proved in a module that declares a
recursive operator or uses one that does.

* `RequirementsHold`, `NothingUnneeded`: each resolution meets what its versions
  require, and no more, as the PEPs read constraints and markers.
* `LockedVersionsUsable`, `DownloadsUsable`: what is chosen for an environment
  can be installed there, and what is downloaded runs on the machine.
* `InstalledAsResolved`: an installation takes from a merged lock just what was
  resolved for its environment.
* `ResolvedForEnvironment` says what the documents do, and fails (section 5).

## 4. Runs

| run | instance | properties | result |
|---|---|---|---|
| `ordinary` | 625 indexes with two packages over bounded requirements, cycles included, and hand-picked shapes: diamonds, repeated, contradictory and unsatisfiable requirements, packages without versions, no requirements at all | `TypeOK`, `ConflictHolds`, `TrailOrdered`, `StoreEntailed`, `ClausesHaveTerms`, `RefusalSound`, `SolutionSound`, `SolutionNeeded`, `BackjumpRepairs`, `ImplementsResolution`, `Terminates` | hold |
| `contended` | three packages compete for a fourth; learned incompatibilities of three terms; two learned ones may be watched | `PropagationComplete`, `WatchListsAgree`, `Terminates` | hold |
| `pinned` | exact requirements (`==`) on both sides of a bound | `SolutionSound` | violated |
| `fetch_contended` | two packages, one pinned and withdrawn; one permit, two failing requests | `TypeOK`, `WaitsEnd` | hold |
| `two_indexes` | one package two indexes offer, one with a new list; two environments of one process, or two processes in turn; one permit each, one failing request, no pin | `DependenciesKnown`, `SlotsFilledOnce`, `ListsAdvance` | hold |
| `driver` | five packages on a default index, an unscoped mirror, an explicit index and the torch backend; a pin, a range override, a substitution, pre-releases; one failing lookup | `TypeOK`, `RouterSound`, `LatestReached`, `DirectFromDefault`, `RootsFallBackLast`, `CandidatesAllowed`, `RequirementsFaithful` | hold |
| `rerouted` | a package that the closure of torch and an ordinary dependency share | `RequirementsOfOrigin` | violated |
| `cache` | two processes, two keys, one of them written with two sizes, of which the larger fills the cache; one fault (a kill, a cleaning, a failing write or removal); the index is flushed every second change | `NothingOrphaned`, `ImplementsStore`, `MeasuredWithinLimit`, `OldestGoFirst` | hold |
| `wheels` | commands that follow one another on wheels of several files, at most three files kept | `CompleteUnlessListCut`, `ArchivesWhole` | hold |
| `environments` | two environments, hard links, one failure, removal that is passed over, or kill | `InstalledWhole`, `NoStrays` | hold |
| `locking` | projects that each vary one thing (a constraint, a marker, the machine with its environments) over four machines and three Pythons; one fault | `TypeOK`, `RequirementsHold`, `NothingUnneeded`, `LockedVersionsUsable`, `DownloadsUsable`, `InstalledAsResolved` | hold |
| `universal` | the same | `ResolvedForEnvironment` | violated |

Bounds. In the solver, two offered versions and four points of the version line
tell apart all ranges the requirements use; three packages besides the project
allow a conflict whose resolution passes through two causes and skips a level;
the contended universe was chosen because watches move in it and the limit on
learned incompatibilities is reached. `MaxLearnedWatched` stands for
`MAX_LEARNED_WATCHED` (10 000 in the code): 100 means never reached, 2 means
reached often. The runs start from every index of the family.
In `Fetching`, `MaxRuns` bounds the resolutions that share a disk,
`MaxEnvironments` how many of them one process may make, `MaxLeftOver` the tasks
and writes one may leave to the next (one is enough for an older list to come
back, which TLC finds when `ListsAdvance` is stated without its premise),
`MaxFailures`
the requests that fail, `MaxConcurrentFetches` stands for the 500 permits and is
1 where they must run out, `MaxFetchRetries` is 1 instead of 3. Two versions
tell a sidecar from a wheel and a speculative download from one on demand; two
resolutions let the second find, in every state of completion, what the first
wrote. In the caches `MaxSize` and `MaxFiles` are small enough that every second
insertion evicts, `FlushThreshold` is 2 so that changes do wait for a flush, and
`MaxTime` 1 lets entries have the same and different dates. `MaxFailures` and
`MaxFaults` of the other modules bound what goes wrong in a behaviour; one fault
lets it happen at every step. `MaxU32` stands for the largest number a version
may hold, `MaxText` for the places of alphabetic local segments in their order.
`CHECK_DEADLOCK FALSE` where a system may stop: the last process of `Fetching`
has asked everything, an installed lock of `Locking` has nothing more to do.

Configurations. `wheels` runs with `Concurrent` and `Interruptible` both
`FALSE`: commands do not overlap, and are killed at any step but the removal of
a directory. Section 6 says what the other values show. `environments` runs with
`CanReflink` `FALSE`, the harder case: cloned files share nothing. Both its
properties hold with `TRUE` too.

Fairness. The solver is one thread that nothing suspends for ever: weak
fairness of `Next`. `FairSpec` writes `WF_vars(Next)` out, because a step is
enabled exactly until the thread has ended and TLC evaluates `ENABLED` of so
many disjuncts slowly. In `Fetching` the runtime polls every ready task and a
request ends within the client's timeout of 30 seconds (`pypi.rs:193`):
weak fairness of the tasks together. With bounded attempts no task can keep the
others from moving, so fairness of each is not needed. The driver takes an
answer that is there. Writes, the world and the driver's questions need no
fairness and get none. The other modules state no liveness: their commands are
started by a user and may be killed at every step.


## 5. Findings

Three runs check a sentence of the documentation that the code does not keep.

* `pinned`: `SolutionSound` (`vyp-resolver/src/solver.rs:694`). An
  incompatibility whose terms all hold when it is registered gets both its
  watches on its package with the lowest id. `run_solver` then propagates only
  the package it has just decided, which need not be that one, so the violated
  incompatibility is not looked at and the assignment is returned: b 1 with a 3,
  although a 3 requires b >= 2. It takes a version whose dependency is
  already decided out of range, here by an exact requirement. Bounds of several
  packages can do the same; over the indexes of `ordinary` the property holds. By
  the theorem `ResolutionsValid` a registration with a single watch is the only
  way to a wrong resolution. `docs/concepts/resolution.md:3` promises versions
  that satisfy all constraints, and the comment at `solver.rs:665-668` that the
  choice of watches establishes the invariant.
* `rerouted`: `RequirementsOfOrigin` (`vyp-core/src/index_router.rs:135`). A
  package in the closure of a named index is listed by that index; when an
  ordinary dependency reaches it too, it leaves the scope. Its list stays in the
  cache (`lib.rs:641`), its metadata is asked of the default index alone, which
  need not have the version: it is resolved without dependencies. The comment at
  `index_router.rs:24` calls growth during the walk safe under backtracking.
* `universal`: `ResolvedForEnvironment` (`vyp-index/src/pypi.rs:376`). The
  requirements of a version are filtered by the markers of one environment and
  then stored on disk under package and version alone. The next environment, or
  a process with another Python, takes them as they are.
  `docs/concepts/resolution.md:121` says that vyp resolves once per environment.

## 6. Disagreements

What else the code does differently from what one might read into its documents,
met while modelling. Where the models contain it, that is said; none is asserted
by a run.

Solver and driver

* A version that requires another version of its own package replaces its own
  term (`solver.rs:150`): a false "no solution", and where nothing is left an
  incompatibility without terms, which panics at `solver.rs:695`
  (`resolution.md:26`). The indexes of the runs have none; the theorems that
  need it say `SelfFree`.
* A pinned package is never listed by `get_versions` (`lib.rs:645`), so nobody
  waits for its list; if the list is not there when its metadata is wanted, it is
  resolved without dependencies (`resolution.md:95`). In `Fetching`;
  `DependenciesKnown` fails with a pin.
* An index that cannot be reached looks like one without the package
  (`lib.rs:672`, `pypi.rs:306`), although `pypi.rs:973` tells the two apart. In
  `Fetching` and `Driver`.
* `lowest-direct` behaves like `lowest` (`lib.rs:265-268`, `resolution.md:38`).
* Range overrides act on requirements of a package on itself only
  (`override_layer.rs:4`); override and pin names are compared without
  normalisation. In `Driver`.
* The PyPI provider declares no conflicts, and the warm start has no caller.

Indexes and routes

* All providers share one metadata directory, whatever scope they have
  (`registry.rs:59-60`, `indexes.md:45`). In `Fetching`.
* A routed package falls through to the next provider when its own has no
  version or fails. In `Driver` (`RootsFallBackLast`).
* A root of one named index that the closure of an earlier one reaches is served
  by the earlier one (`index_router.rs:57`). In `Driver`.
* `wheel_dist` and `batch_prefetch` ask all providers without `can_provide`
  (`registry.rs:96-107`).
* `sources` entries that name an index which is not explicit have no effect;
  their markers, and those of the project's own dependencies, are ignored;
  command-line requirements are no seeds of the default index.

Versions, markers, tags (in `Requirements`, `Markers`, `WheelTags`)

* `<V` is cut off at `V.dev0`, which sorts after the alphas, betas and release
  candidates of V, so that these are allowed (`provider.rs:9`).
* `==V` as a range misses V with a local part and `!=V` keeps it, where
  `satisfied_by` says otherwise; `===` is compared by order (1.9 is 1.9.0);
  `==1.0.*` leaves 1.0a1 out and lets 1.1a1 in, and its upper bound has epoch 0.
* Local parts of mixed segments are not ordered transitively; 1.0 and 1.0.0 are
  equal and hash differently (`version.rs:123`); the increments that
  make upper bounds are not checked for overflow.
* `'x' in variable` is evaluated as "x contains variable"; `or(` and `and(`
  without a space end the parse; an environment written with `=` or `===` parses
  as true; markers on micro versions are evaluated for X.Y.0; the interpreter
  that is asked is the `python3` of the path.
* Wheels tagged `cp38-abi3` are refused by a newer CPython, although the comment
  in `wheel_compat.rs` says that the stable ABI works on newer ones; the caps for
  glibc and musl versions are not below 17 and 1; the hosts of the runs are above.
* `wheel_dist` ignores Requires-Python, its fallback also withdrawn files:
  `DownloadsUsable` speaks of tags only.

Lock, caches and environments

* The merge of strategy "fewest" keeps the wheel and the hash of the first
  environment; another environment downloads another file and reports a hash
  mismatch (`universal.rs:138-140`, `resolution.md:120`). In `Locking`, as an
  entry that gets no wheel.
* An archive is looked up by name and version: one that was unpacked for
  another Python is linked without a look at its tags (`common.rs:286`), and one
  that was rejected is found by the next command (`common.rs:424`, `:441`). In
  `Locking` and `WheelCache`.
* `caching.md:3` says that wheels are not cached.
* The list of an archive is written with `fs::write` beside an archive that is in
  place already (`wheel_cache.rs:84-86`). When the disk is full or the command is
  killed, a part of it remains; the next command takes that part for the whole
  (`wheel_cache.rs:192-205`), links what it names and reports success. A name that is
  cut may be the name of another file. In `WheelCache`, and the exception of
  `CompleteUnlessListCut`. Only an empty list is read as no list, and the directory
  is walked.
* Several processes on one wheel cache share one temporary directory per wheel and
  remove what others use: with `Concurrent` `TRUE` both properties of `WheelCache`
  fail. If the removal of a directory may be cut short (`Interruptible`), both
  fail too: the next command links what is left.
* The limit of the metadata cache, which `caching.md:60` calls hard, may be exceeded:
  by two processes, of which each counts what it knows, and by one alone, when a
  file was written again, larger, after its size was saved in the index (by a
  process that was killed, or by another); the opening does not measure what the
  index names (`cache.rs:374`). In `MetadataCache`, where `MeasuredWithinLimit` says
  what is left of it.
* A file of the metadata cache that cannot be removed is forgotten until the cache is
  opened again (`cache.rs:315-320`). In `MetadataCache` (`stuck`).
* Tasks and late writes of one environment run on while the next is resolved with
  providers and locks of its own (`pypi.rs:74`, `:292`, `:471-478`). An older list of
  an index may replace a newer one on disk, and is then an answer for as long as
  it counts as fresh. In `Fetching` (`NextEnvironment`); `ListsAdvance` is stated of
  the first environment of a process only.
* Uninstalling ignores errors of `remove_file` and removes the dist-info with its
  `RECORD` all the same (`installed.rs:69`, `:82`); it returns `Ok`, and the file that
  stayed is in no list. In `Environment` (`LeaveFiles`, `unremoved`).
* Whether an installation may skip looking for existing files is judged by
  site-packages alone (`common.rs:295`). A wheel whose `.data` places files elsewhere
  can meet a file of an earlier version there and be written through a hard link
  into its archive: with such paths `InstalledWhole` fails, and `InstallsAreWhole`
  has the premise `Sited`.
* `cache clean` and `cache prune` use another directory than the resolver when
  `VYP_CACHE_DIR` is set.
* `sync` leaves the files of an upgraded version that the new one does not have
  (`README.md:149`), and takes its target set without markers; if an environment
  has two versions of one name, either is found. In `Environment`.
* `RECORD` is linked from the archive and then rewritten in place: with hard
  links the archive's own changes. In `Environment`, and the reason why
  `InstalledWhole` speaks of content.

## 7. Proofs

TLAPS checks these theorems; every lemma under them is proved too.

| module | theorem | states | for |
|---|---|---|---|
| `SolverProofs` | `TypeCorrect` | `TypeOK` of the solver | every index and order of picking |
| | `StoreSound` | `StoreEntailed` | every index that is `SelfFree` |
| | `LearnedHaveTerms` | `ClausesHaveTerms` | the same |
| | `WatchesAgree` | `WatchListsAgree` | every index |
| | `ConflictsHold` | `ConflictHolds` | every index |
| | `TrailInOrder` | `TrailOrdered` | every index |
| | `RefusalsSound` | `RefusalSound` | every index that is `SelfFree` |
| | `BackjumpsRepair` | `BackjumpRepairs` | every index |
| | `NothingUnwanted` | `SolutionNeeded` | every index that is `SelfFree`, where `SolutionSound` |
| | `PropagationDerives` | what propagation has done when it returns | every index, while `DependentWatched` |
| | `ResolutionsValid` | `SolutionSound` | every index, while `DependentWatched` |
| | `KeepsPromise` | `ImplementsResolution` | every index that is `SelfFree`, while `DependentWatched` |
| `FetchingProofs` | `FilledOnce` | `SlotsFilledOnce` | any number of indexes, permits, environments, processes in turn |
| | `PermitsKept` | `TypeOK` of `Fetching` | the same |
| | `DependenciesFound` | `DependenciesKnown` | the same, while nothing is pinned |
| | `NeverOlder` | `ListsAdvance`, that is of the first environment of a process | the same |
| `DriverProofs` | `ScopesSound` | `RouterSound` | every configuration and world |
| | `DefaultKept` | `DirectFromDefault` | the same |
| | `TypesKept` | `TypeOK` of `Driver` | the same |
| | `MembershipsPassedOn` | `LatestReached` | the same |
| | `OwnIndexFirst` | `RootsFallBackLast` | the same |
| | `OffersAreRight` | `CandidatesAllowed` | the same, with pre-releases `"if-necessary"` |
| | `OthersUntouched` | `RequirementsFaithful` | the same |
| `MetadataCacheProofs` | `NothingIsOrphaned` | `NothingOrphaned` | any number of processes, keys and sizes |
| | `EvictsOldest` | `OldestGoFirst` | the same |
| | `CacheForgetsOnly` | `ImplementsStore` | the same |
| `WheelCacheProofs` | `ArchivesStayWhole` | `ArchivesWhole` | any wheels, commands `InTurn` |
| | `SuccessMeansComplete` | `CompleteUnlessListCut` | the same |
| `EnvironmentProofs` | `EveryFileAccounted` | `NoStrays` | any wheels, environments, failures, removals passed over, kills |
| | `InstallsAreWhole` | `InstalledWhole` | the same, `Sited` |
| `LockingProofs` | `TypeCorrect` | `TypeOK` of `Locking` | any index, projects, hosts |
| | `RequirementsMet` | `RequirementsHold` | the same, `MarkersRead`, `RangesRead` |
| | `NothingUnneededLocked` | `NothingUnneeded` | the same, `MarkersRead` |
| | `LockedVersionsRun` | `LockedVersionsUsable` | the same, `OrdinaryHosts`, `PlainRequires` |
| | `DownloadsRun` | `DownloadsUsable` | the same, `OrdinaryHosts` |
| | `InstallsAsResolved` | `InstalledAsResolved` | the same, `EnvironmentsRead` |
| | `VersionsOrdered` | that public versions are totally ordered | any versions without local parts |
| | `BoundsExact` | what a bound that is moved lets in | any plain version, any other before the places `MaxU32` and `MaxText` |

Assumptions. The named `ASSUME`s of the modules give the constants their types
and make `None`, `Pending` and such different from data. Beyond types,
`FetchingAssumption` says that every index is in the order of providers and a
published list is finite, and `EnvironmentAssumption` that two wheels of one lock
own no path in common, without which their parallel linking would have no single
outcome. TLC evaluates each. The premises that theorems name:

* `SelfFree`: no version depends on its own package. Without it the theorems are
  false (section 6).
* `DependentWatched`, in every state of the behaviour: a dependency that is
  registered gets a watch on the package that depends. `pick_initial_watches`
  breaks it only where all terms hold at registration and the lower id is the
  other package's. `contended` checks it as the first conjunct of
  `PropagationComplete`; `pinned` shows where the code breaks it. It speaks of
  registrations and of nothing that propagation or backjumps do later.
* `InTurn`: commands do not overlap and a removal is not cut short, as in
  `wheels`. Section 6 says what happens otherwise.
* `Sited`: what wheels hold goes to site-packages and launchers do not, as in
  `environments`. A launcher is written in place (`linker.rs:349`, `fs::write`), so
  where its path is a hard link into an archive the archive changes with it; and
  what lies outside of site-packages is not looked at when the environment is taken
  for empty (section 6). Only the wheel's `.data` leads elsewhere, and its `scripts`
  are copied to a fresh file; what the premise leaves out are `data` and `headers`.
* `OrdinaryHosts`: CPython with the global lock, on Windows, on macOS 10 or later
  with a processor that macOS has, or on Linux with glibc 2.17 or later or with
  musl. What lies outside is where the code guesses: for an unknown C library
  (`wheel_compat.rs:322`) and for a glibc older than 2.17 (`:304`) it lists tags
  that the host need not run, and for a free-threaded Python or another
  interpreter it lists `cp`, `abi3` and `none` tags of which
  `LockingProperties` has no independent reading.
* `PlainRequires`: `Requires-Python` gives bounds of two or three numbers below
  100 by `>=` and `<`.
* `EnvironmentsRead`: the marker of an environment that is written as documented
  holds on the hosts with its Python, and each environment has another Python.
* `MarkersRead`: parsed and evaluated, the marker of a requirement says of a host
  what its expression means. `RangesRead`: the range of a constraint holds no
  listed version that PEP 440 keeps out. They speak of the data of an instance
  only, not of what the program does with it.

TLC evaluates the last five on the instance of `locking`
(`PremisesAssumption` of `MCLocking`), whose markers and constraints were picked
for what is easily misread: each operator, `3.10` beside `3.9`, lists, inverted
operands, extras, pre-, post- and local versions.

Solver (`SolverProofs`, on `SequenceLemmas`). Types are not inductive: that a
backjump leaves something to propagate, and that an incompatibility has a
package to watch, depend on what is said about the project. `Inv` adds it. The
only term about the project outside of `not_root` is the positive one for its
version, and the project is decided at level 1 or, once refuted, derived to be
out at level 0. `WellIndexed` and `WellDated` say that ids and dates in the
watch index and the trail exist.

`SoundInv` says that each stored incompatibility is entailed and that only
`not_root` excludes the empty assignment. The step that matters is the resolvent
of two incompatibilities (`PriorCauseEntailed`): a valid assignment that violates
it would violate one of its causes, whether the term of the satisfier is
intersected away or stays. That the empty assignment is not excluded is why no
resolvent loses its last term.

`WatchInv` is about the watch lists alone. `Agreeing` says that no list has an id
twice, that a listed id watches the package, and that an id that was not
forgotten is listed under both its packages. A backjump may list a forgotten one
again, so that nothing is said of those. The snapshot being walked has each id
once and only ids that still watch its package: a walk moves no watch but that
of the id it is at, which the rest of the snapshot does not repeat.

Trail (`SolverProofs`, from `Step`). The trail keeps derivations by package; the argument is
about their order in time. So the proof looks at all packages' assignments as
one set of dated steps (`StepsIn`), and shows that `derive` and `decide` add one
step to it and that a backjump keeps just those up to its level (`UndoSteps`).
`HistoryInv` says of this set: no two steps have one date, later ones are not at
a lower level, terms of a package narrow (`Chronological`); each derivation has a
cause whose other terms held before it (`CausedBy`); a decision was preceded by a
derivation (`Grounded`). Then a satisfier exists for a conflict, has a cause
unless it is the only one of its level, and its cause can be resolved with
without losing that all terms hold: `ConflictHolds` is inductive together with
the rest. Levels in the order of time with one decision each are `TrailOrdered`;
that the satisfier is undone by the backjump, and what is left contradicts it, is
`BackjumpRepairs`. `CertainInv` adds that what is derived at level 0 holds in
every solution, which makes both ways to refuse sound.

Answers. `Wanted` says that the first positive step of a package
other than the project has a cause whose term for the package is negative: the
cause asks for the package. Suppose a group of selected packages that nothing
outside of it needs. Take the group out: the assignment stays valid
(`WithoutGroup`), but it violates the cause of the first positive step of the
group, whose other terms held before any of the group was asked for, and so hold
without it (`GroupWanted`). The store is sound, so there is none: `NothingUnwanted`.
`OfferedInv` says that what is decided is on the index's list.

That propagation loses no requirement takes three invariants. `FiledInv`: the
incompatibility of every dependency of a version that was ever decided is in the
store and has a watch on the package that depends. Later moves keep it there,
since an incompatibility of two packages that takes two watches has one on each.
`RequiredInv`: for every step that decides a version, and each dependency of it,
either a step of that level or an earlier one has put the dependency in range
(`Met`), or the decision is of the current level and the dependency is `Due`: its
package is in the buffer, or is the one examined with the incompatibility in the
rest of the snapshot, or the search is past propagation. This is why
`buffer.clear()` after a conflict does no harm: a backjump goes below the current
level (`BackjumpReturns`), so what it clears from the buffer belonged to decisions
that it undoes, and what stays had its requirements met at its own level or
before, which stay too. The one decision it makes itself, for the project, it
pushes. `RootInv`: the project is decided, or it was refuted at level 0 and
`not_root`, all of whose terms then hold, is due in the same way. When propagation
returns nothing is due: `PropagationDerives`. If then no package is undecided,
each dependency's package is decided in range: `ResolutionsValid`.

`KeepsPromise` puts the three verdicts together: the initial states map to the
promise's, `ReturnSolution` to `Answer`, `ReportNoSolution` to `Refuse`, and every
other step to a stutter.

Fetching (`FetchingProofs`). `Inv` pairs slots with tasks: a task that has still
to fill a slot finds it pending (`LookupsWait`, `DownloadsWait`), and no two have
the same slot (`LookupsApart`, `DownloadsApart`); the claim of a slot and the
start of its task are one action, since between them others see the slot as
pending and leave it alone. `FilledOnce` follows at once. `Types` says that what
is in files, writes, slots and caches are editions an index has published by
then; with `WithinPermits`, a count that rises only where a permit was free, it
is `PermitsKept`. What an earlier environment has left is in the same pairs, by
providers of its own: slots are kept as long as a task of their provider runs
(`Dropped`). `Begun` says that no provider of a later environment has begun.
`DependenciesFound` needs to know where answers come from: who
waits for a version has been given the list of its package (`Waits`); before,
nobody has asked for its metadata (`Unasked`); and the provider that gave the list
is among those asked, and knows where the metadata is (`Known`). A pin breaks
`Known`, and with it the property.

`NeverOlder` is about writes that run late in the first environment of a process.
`FileInv` calls an edition `Vouched`
if it is what its index gave this process as its answer. A write of a list
carries such an edition; a refresh of the date rewrites what it finds, and finds
such an edition (`RefreshesVouched`); a task that was told "not modified" holds the
edition that is on disk, unless that has been replaced by a vouched one
(`ValidatorsVouched`); and what an index has answered is not older than its list
on disk (`AnswersNewest`). A slot is filled once, so a vouched edition does not
change while the environment is resolved, and no later write can be older.

Routing (`DriverProofs`). `Routing` is `RouterSound` and `DirectFromDefault` with
the seeds and the shapes of the caches. `Reach` is the least closed set, so it
grows with the edges walked, and a propagation adds targets of edges whose
source is in reach. A direct dependency that is not routed is a seed of the
default index, and membership only grows. The other theorems say of each cached
list and each cached set of requirements what was true when it was taken, and
that nothing which happens later, routes that grow and lookups that fail
included, makes it untrue. `OffersAreRight` is for the default policy; for
`"allow"` and `"disallow"` TLC is the only check there is.

Metadata on disk (`MetadataCacheProofs`). `Inv` adds to types and to
`NothingOrphaned` (all whole files are known but those that could not be removed)
that no entry is dated in the future and that a process that
had the cache to itself since it opened it is the only one that has it open.
`EvictsOldest` is a statement about one insertion whose dates are known. The
refinement maps whole files to the store's answers (`Held`); a write that is cut
short, an eviction, a cleaning and a file that cannot be read are what the store
may forget.

Archives (`WheelCacheProofs`). `OneAtATime` is what `InTurn` gives. `AtWork` says
for the one command where its archive is: under the temporary name the files
there and those to come are the wheel's; in place it is whole; the list is
missing, empty, complete, or cut where a command stopped while it wrote it
(`Manifests`); and what is linked and what is to be linked is all of the wheel, or
all that a cut list names. A kill leaves a temporary directory or a whole archive,
with or without its list or with a part of it.

Environments (`EnvironmentProofs`). `AllAccounted` says of every file of every
environment that a `RECORD` lists it, that the running command is about to list
it, that its removal was passed over, or that a step was cut short; while a
distribution is removed, what is passed over is both listed and remembered
(`KeptFiles`), so that nothing is lost when its `RECORD` goes; it needs that a `RECORD` lists its own wheel's
files only (`ListsOwned`), also the one that archives share through hard links,
that it is there while launchers are written (`RecordPlaced`), and the order of a
command's steps (`InOrder`). `WholeInv` is about content: archives hold what their
wheels published (`Genuine`) and a link leads to a file its wheel has
(`LinksLead`); then no write in place reaches an archive, and what a command has
placed stays as it was until it ends (`Progress`; `FreshlyPlaced` where
the command found the directory empty and does not look before it links).

Lock and installation (`LockingProofs`). Two halves. The first is about tags:
`PlatformTagsRun` goes through the lists that `build_linux_tags`,
`build_macos_tags` and `build_platform_tags` make and finds no tag that an
ordinary host does not run, whatever its versions; so `is_compatible` accepts only
wheels that run (`CompatibleIsUsable`), `compatibility_score` is positive for just
those, and a file with the highest score exists and is one of them
(`BestFileFits`). `AllowedIsAllowed` does the same for `Requires-Python`: the order
of versions, key by key, agrees with that of the numbers (`ShortOrder`).

The second is about the behaviour. `Inv` says that a resolution's versions are
candidates of its host, that whatever is detected, cached or not, is a host, that
the lock is the merge of the resolutions (`LockInv`: nothing that the merge is
made from changes after it was written), and that the last install took just the
entries whose markers hold on its host and downloaded what is compatible with it
(`InstalledInv`). With it, `LockedVersionsRun` and `DownloadsRun` follow from the
first half. `InstallsAsResolved` shows that selecting by marker undoes the merge
(`PickedAsMerged`): `merge_fewest` drops a marker only where all environments
have the same version, and none lacks the package, so that an entry without a
marker is right for each. `MetInv` says of every resolution that it meets the
requirements as they were taken, from the cache or by its own markers, and that
something asks for each of its packages; they are `RequirementsMet` and
`NothingUnneededLocked` where markers and ranges are read as they are meant.

The order of versions has theorems of its own. `PublicKeyIs` says which number is
where in a key, `Stretched` that zeros behind both releases change nothing, so
that three versions can be compared at one length (`PaddedAlike`); keys of one
length are ordered by their first difference (`KeyOrder`), and `VersionsOrdered`
follows. For `BoundsExact` a key is cut behind the pre-release (`OrderByParts`): a
bound of `>`, `<` or `<=` changes only what is behind the cut, and there it is the
last or the first that is possible. Local parts are left out of `VersionsOrdered`
because those of mixed segments are not in order (section 6).

Only model-checked.

* Of `PropagationComplete`, `DependentWatched` itself, which is false in general
  (`pinned`), and that no learned incompatibility is violated when propagation
  returns. An intermediate result of conflict resolution keeps the single watch it
  is registered with; it is not violated only because the incompatibilities it
  comes from are propagated, and those may have been forgotten. No answer depends
  on it, as `ResolutionsValid` shows.
* `MeasuredWithinLimit` of `MetadataCache`: a sum of sizes, by a fold over a set of any
  size, and so an induction over data.
* `Terminates` and `WaitsEnd`: liveness, which needs `ENABLED`.
* What the recursive parser and evaluator of `Markers` compute, and that all ranges
  of `Requirements` agree with PEP 440 (`MarkersRead`, `RangesRead`; `BoundsExact`
  has the part about `>`, `<` and `<=`): the first needs induction over
  expressions. Both are checked over the instance of `locking`.
* `ResolvedForEnvironment`, `RequirementsOfOrigin` and, under `pinned`,
  `SolutionSound`: TLC refutes them.

## 8. Not modelled

* Parsers of versions, requirements, markers, file names, zip directories and
  metadata, their printed forms and the hash of versions: the models start from
  what was parsed.
* The error report, provenance and notes of a resolution: wording.
* The plugin loader, authentication, the deserialisation of settings, hardware
  probes and variants, the Python launcher, benchmarks and examples: input and
  output without a protocol after it.
* The offline provider: a map that is filled before and read during resolution,
  which is what `Packages` is.
* Other commands: arguments, file reading, dry runs, prompts and printing around
  the parts that are modelled; how lock files are read, written and compared.
* The warm start (`with_warm_start`) and `prefetch_metadata`, which nothing
  calls; the notes of transitive forks.
* Scheme directories, shebangs and the discovery of environments: they name paths
  and change nothing in the order of steps.
* In `Environment`, archives whose list is cut (they are in `WheelCache`), files that
  `.data` places outside of site-packages (section 6), bytecode, and the order in
  which one directory is removed: dist-info goes in one step, or stays, with its
  `RECORD` or without.
* In `Fetching`, processes that run at the same time.
