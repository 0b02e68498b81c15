------------------------------ MODULE Locking -------------------------------
(***************************************************************************)
(* From the project to installed packages by way of pylock.toml: one       *)
(* resolution for each environment of the configuration                    *)
(* (crates/vyp/src/cli/common.rs), merged into one lock                    *)
(* (crates/vyp/src/lock/universal.rs, lockfile.rs), which is installed for *)
(* the interpreter that is detected (crates/vyp-api/src/types/marker.rs).  *)
(* The solver is abstracted to any valid assignment with nothing unneeded; *)
(* Solver shows that it finds one.  The cache of metadata is reduced to    *)
(* whose requirements it holds, that of archives to which wheel it holds;  *)
(* MetadataCache and WheelCache have their files.                          *)
(***************************************************************************)
EXTENDS Requirements, WheelTags

CONSTANTS
    Holds(_, _),    \* what the tokens of a marker say of an environment:
                    \* MarkerHolds of Markers
    Package,
    Files,          \* by package the files of its index, in their order
    Projects,       \* the projects: machine, environments, strategy,
                    \* dependencies and the metadata of the versions
    Spelling,       \* texts of dotted numbers
    Interpreters,   \* the Python at each path, as it is at first
    Upgrades,       \* what it may be replaced with
    MaxFaults       \* bound: upgrades in place and probes that fail

\* for_python_version, for a machine
Assumed(machine, minor) == [machine EXCEPT !.minor = minor, !.micro = 0]

\* probe_interpreter, on a machine: Windows has its own name for it.
Running(machine, python) ==
    [machine EXCEPT !.minor = python[1], !.micro = python[2],
                    !.machine = IF machine.sys = "win32" THEN "amd64" ELSE @]

Listed(p) == {Files[p][i].version : i \in DOMAIN Files[p]}

\* The files of an index are a list, as are the environments of a project, and
\* its metadata is that of listed versions.  Hosts has every machine with
\* every Python that is configured, found or installed.
ASSUME LockingAssumption ==
    /\ MaxFaults \in Nat
    /\ \A p \in Package :
          Len(Files[p]) \in Nat /\ DOMAIN Files[p] = 1..Len(Files[p])
    /\ \A r \in Projects :
          /\ r.machine \in Hosts
          /\ \A l \in r.metadata :
                /\ l.package \in Package /\ l.version \in Listed(l.package)
                /\ l.requirement.package \in Package
          /\ Len(r.environments) \in Nat
          /\ DOMAIN r.environments = 1..Len(r.environments)
          /\ \A e \in ToSet(r.environments) :
                e # None /\ Assumed(r.machine, e.minor) \in Hosts
          /\ \A python \in Range(Interpreters) \cup Upgrades :
                Running(r.machine, python) \in Hosts

VARIABLES
    project,        \* one of Projects
    results,        \* the assignments, one for each environment so far
    stored,         \* by <<package, version>> in the metadata cache, the
                    \* host whose markers selected its requirements
    lock,           \* the entries of pylock.toml, None before it is written
    interpreters,   \* the Python at each path, its minor and micro version
    cached,         \* marker-env-*.json of each path
    archives,       \* the wheel unpacked for a <<package, version>>
    installed,      \* what the last install did
    faults

vars == <<project, results, stored, lock, interpreters, cached, archives,
          installed, faults>>

-----------------------------------------------------------------------------
(* Environments.                                                           *)

Dotted(numbers) ==
    [text |-> Spelling[numbers], tuple |-> numbers,
     words |-> {Spelling[numbers]}]

Quoted(text) == [text |-> text, tuple |-> <<>>, words |-> {text}]

\* MarkerEnvironment of a host.
EnvironmentOf(h) ==
    [variable \in
        {"python_version", "python_full_version", "implementation_version",
         "implementation_name", "os_name", "sys_platform", "platform_machine"}
     |-> CASE variable = "python_version" -> Dotted(<<3, h.minor>>)
           [] variable = "os_name" ->
                 Quoted(IF h.sys = "win32" THEN "nt" ELSE "posix")
           [] variable = "sys_platform" -> Quoted(h.sys)
           [] variable = "platform_machine" -> Quoted(h.machine)
           [] variable = "implementation_name" -> Quoted(h.implementation)
           [] OTHER -> Dotted(<<3, h.minor, h.micro>>)]

\* current: the host vyp was built for, with the Python it assumes.
Current == project.machine

\* for_python_version
ForPython(minor) == Assumed(Current, minor)

\* probe_interpreter
Probed(path) == Running(Current, interpreters[path])

\* An environment of the configuration, python_version == "3.minor", with
\* one, two or three equals signs, or none; parse_python_version_from_marker
\* strips them all.
MarkerTokens(e) ==
    LET string == <<"string", Dotted(<<3, e.minor>>)>>
        variable == <<"variable", "python_version">>
    IN  CASE e.equals = 2 -> <<variable, <<"op", "==">>, string>>
          [] e.equals = 3 -> <<variable, <<"op", "==">>, <<"junk">>, string>>
          [] OTHER -> <<variable, <<"junk">>, string>>

-----------------------------------------------------------------------------
(* What an index offers on a host.                                         *)

\* Where the files of a version stand in the index.
Places(p, v) == {i \in DOMAIN Files[p] : Files[p][i].version = v}

FilesOf(p, v) == {Files[p][i] : i \in Places(p, v)}

\* A source distribution has no fields of tags.
IsWheel(f) == f.parts # <<>>

\* requires_python_ok
PythonAllowed(f, h) ==
    SatisfiedByAll(f.requires, FinalVersion(<<3, h.minor, h.micro>>))

\* Mutant of Viable: Requires-Python is not looked at.
ViableByTags(p, v, h) ==
    \E f \in FilesOf(p, v) : ~f.yanked /\ IsCompatible(h, f.parts)

\* version_is_viable: one wheel is not yanked, compatible, and allowed; a
\* version of which there are no wheels cannot be judged.
Viable(p, v, h) ==
    \/ \A f \in FilesOf(p, v) : ~IsWheel(f)
    \/ \E f \in FilesOf(p, v) :
          ~f.yanked /\ IsCompatible(h, f.parts) /\ PythonAllowed(f, h)

\* filter_viable; pre-releases are not allowed by default.
Candidates ==
    [h \in Hosts |-> [p \in Package |->
        {v \in Listed(p) : Viable(p, v, h) /\ ~IsPreRelease(v)}]]

\* The score of every file on every host.
Scores ==
    [h \in Hosts |-> [p \in Package |->
        [i \in DOMAIN Files[p] |-> CompatibilityScore(h, Files[p][i].parts)]]]

\* The first of the highest scores at these places; a score is positive.
Highest(scores, places) ==
    {i \in places :
        /\ scores[i] > 0
        /\ \A j \in places :
              scores[j] < scores[i] \/ (scores[j] = scores[i] /\ i <= j)}

\* The file at one of these places with the highest score; None without one.
BestFile(p, places, h) ==
    LET best == Highest(Scores[h][p], places)
    IN  IF best = {} THEN None ELSE Files[p][CHOOSE i \in best : TRUE]

\* wheel_dist, whose url and hash the lock gets.
WheelDist(p, v, h) ==
    BestFile(p, {i \in Places(p, v) : ~Files[p][i].yanked}, h)

\* find_wheel_url_json, for a wheel of the lock that does not fit the host.
FallbackWheel(p, v, h) == BestFile(p, Places(p, v), h)

-----------------------------------------------------------------------------
(* Resolution.                                                             *)

RequirementsOf(p, v) ==
    {line.requirement : line \in {l \in project.metadata :
                                     l.package = p /\ l.version = v}}

\* Mutant of Included: the markers are not evaluated.
IncludedAlways(p, v, h) == RequirementsOf(p, v)

\* parse_metadata_requires_dist keeps what should_include_requirement does.
Included(p, v, h) ==
    {d \in RequirementsOf(p, v) :
        d.marker # None => Holds(d.marker, EnvironmentOf(h))}

\* The host whose markers select the requirements: the cache keeps what was
\* selected, under a key without the environment.
TakenFor(p, v, h) ==
    IF <<p, v>> \in DOMAIN stored THEN stored[<<p, v>>] ELSE h

\* Mutant of Taken: a version that is found in the cache has no requirements.
TakenUncached(p, v, h) ==
    IF <<p, v>> \in DOMAIN stored THEN {} ELSE Included(p, v, h)

Taken(p, v, h) == Included(p, v, TakenFor(p, v, h))

Chosen(s) == {p \in Package : s[p] # None}

\* The markers of the project's own dependencies are not evaluated.
Demands(s, h) ==
    project.dependencies \cup UNION {Taken(p, s[p], h) : p \in Chosen(s)}

\* Every group that is chosen is demanded from outside of it.
Sought(s, h) ==
    \A group \in (SUBSET Chosen(s)) \ {{}} :
        \/ \E d \in project.dependencies : d.package \in group
        \/ \E p \in Chosen(s) \ group : \E d \in Taken(p, s[p], h) :
              d.package \in group

Resolutions(h) ==
    {s \in [Package -> UNION {Candidates[h][p] : p \in Package} \cup {None}] :
        /\ \A p \in Chosen(s) : s[p] \in Candidates[h][p]
        /\ \A d \in Demands(s, h) :
              s[d.package] # None /\ InRanges(d.constraints, s[d.package])
        /\ Sought(s, h)}

Universal == project.environments # <<>>

\* A run of the resolver: an assignment, and metadata for the cache, of
\* versions that were tried or fetched ahead; a write may be lost.
Resolve(h) ==
    /\ \E s \in Resolutions(h) :
          /\ results' = Append(results, [host |-> h, choice |-> s,
                taken |-> [p \in Chosen(s) |-> TakenFor(p, s[p], h)]])
          /\ \E kept \in SUBSET {<<l.package, l.version>> :
                                   l \in project.metadata} :
                stored' = [pair \in DOMAIN stored \cup kept |->
                    IF pair \in DOMAIN stored THEN stored[pair] ELSE h]
    /\ UNCHANGED <<project, lock, interpreters, archives, installed>>

\* resolve_from_config, one environment at a time; nothing is locked unless
\* all can be resolved.
ResolveEnvironment ==
    /\ lock = None /\ Len(results) < Len(project.environments)
    /\ Resolve(ForPython(project.environments[Len(results) + 1].minor))
    /\ UNCHANGED <<cached, faults>>

-----------------------------------------------------------------------------
(* MarkerEnvironment::detect_with.                                         *)

\* The environment of the interpreter at a path, from the cache for an hour;
\* that of the build when the interpreter does not run, and it is cached too.
Detect(path, h) ==
    \/ /\ cached[path] # None /\ cached[path].fresh /\ h = cached[path].host
       /\ UNCHANGED <<cached, faults>>
    \/ /\ cached[path] # None => ~cached[path].fresh
       /\ \/ h = Probed(path) /\ UNCHANGED faults
          \/ h = Current /\ faults < MaxFaults /\ faults' = faults + 1
       /\ cached' = [cached EXCEPT ![path] = [host |-> h, fresh |-> TRUE]]

\* The environments that may be detected at a path.
Detectable(path) ==
    {Current, Probed(path)}
        \cup (IF cached[path] = None THEN {} ELSE {cached[path].host})

\* An hour passes.
Expire(path) ==
    /\ cached[path] # None /\ cached[path].fresh
    /\ cached' = [cached EXCEPT ![path].fresh = FALSE]
    /\ UNCHANGED <<project, results, stored, lock, interpreters, archives,
                   installed, faults>>

\* The interpreter at a path is replaced.
Upgrade(path) ==
    /\ faults < MaxFaults /\ faults' = faults + 1
    /\ \E python \in Upgrades :
          interpreters' = [interpreters EXCEPT ![path] = python]
    /\ UNCHANGED <<project, results, stored, lock, cached, archives, installed>>

\* resolve_single, for the interpreter that is detected.
ResolveSingle(path) ==
    /\ lock = None /\ ~Universal /\ results = <<>>
    /\ \E h \in Detectable(path) : Detect(path, h) /\ Resolve(h)

-----------------------------------------------------------------------------
(* The lock.                                                               *)

\* An entry of the i-th resolution.
Entry(i, p, marker) ==
    [name |-> p, version |-> results[i].choice[p], marker |-> marker,
     wheel |-> WheelDist(p, results[i].choice[p], results[i].host)]

Marked(i) ==
    {Entry(i, p, project.environments[i]) : p \in Chosen(results[i].choice)}

\* merge_requires_python
MergeRequiresPython == UNION {Marked(i) : i \in DOMAIN results}

\* Mutant of SameEverywhere: environments without the package do not count.
SameWhereChosen(p) ==
    \A i, j \in DOMAIN results :
        {p} \subseteq Chosen(results[i].choice) \cap Chosen(results[j].choice)
            => results[i].choice[p] = results[j].choice[p]

SameEverywhere(p) ==
    \A i, j \in DOMAIN results : results[i].choice[p] = results[j].choice[p]

\* merge_fewest: one entry without a marker, that of the first environment,
\* when all chose the same version, else one for each environment.
MergeFewest ==
    IF Len(results) = 1 THEN Marked(1)
    ELSE UNION {{IF SameEverywhere(p)
                 THEN Entry(1, p, None)
                 ELSE Entry(i, p, project.environments[i]) :
                    p \in Chosen(results[i].choice)} : i \in DOMAIN results}

\* PyLockFile::from_resolution and from_universal_resolution
Merged ==
    IF ~Universal THEN {Entry(1, p, None) : p \in Chosen(results[1].choice)}
    ELSE IF project.strategy = "fewest" THEN MergeFewest
    ELSE MergeRequiresPython

WriteLock ==
    /\ lock = None /\ results # <<>>
    /\ Len(results) >= Len(project.environments)
    /\ lock' = Merged
    /\ UNCHANGED <<project, results, stored, interpreters, cached, archives,
                   installed, faults>>

-----------------------------------------------------------------------------
(* install_lockfile.                                                       *)

\* Mutant of PackagesForEnv: the markers are not evaluated.
PackagesForAny(h) == lock

PackagesForEnv(h) ==
    {e \in lock :
        e.marker # None => Holds(MarkerTokens(e.marker), EnvironmentOf(h))}

\* Mutant of Downloaded: the wheel of the lock is taken to fit.
DownloadedBlindly(e, h) ==
    IF e.wheel # None THEN e.wheel ELSE FallbackWheel(e.name, e.version, h)

\* download_wheel_job: the wheel of the lock if it fits the host.
Downloaded(e, h) ==
    IF e.wheel # None /\ IsCompatible(h, e.wheel.parts) THEN e.wheel
    ELSE FallbackWheel(e.name, e.version, h)

\* The hash of the wheel of the lock is expected of whatever was downloaded.
Verified(e, wheel) ==
    IF e.wheel # None /\ e.wheel.hashed /\ wheel # e.wheel THEN None ELSE wheel

\* An archive of the version is linked as it is; else a wheel is downloaded,
\* and unpacked if its hash is right.
Placed(e, h) ==
    LET reused == <<e.name, e.version>> \in DOMAIN archives
    IN  [name |-> e.name, version |-> e.version, reused |-> reused,
         wheel |-> IF reused THEN archives[<<e.name, e.version>>]
                   ELSE Verified(e, Downloaded(e, h))]

\* A version keeps the archive it has; others get what was unpacked for them.
Archived(packages) ==
    LET unpacked == {p \in packages : ~p.reused /\ p.wheel # None}
    IN  [pair \in DOMAIN archives \cup {<<p.name, p.version>> : p \in unpacked} |->
            IF pair \in DOMAIN archives THEN archives[pair]
            ELSE (CHOOSE p \in unpacked : <<p.name, p.version>> = pair).wheel]

Install(path) ==
    /\ lock # None
    /\ \E h \in Detectable(path) :
          LET packages == {Placed(e, h) : e \in PackagesForEnv(h)}
          IN  /\ Detect(path, h)
              /\ installed' = [host |-> h, packages |-> packages]
              /\ archives' = Archived(packages)
    /\ UNCHANGED <<project, results, stored, lock, interpreters>>

Init ==
    /\ project \in Projects
    /\ results = <<>> /\ lock = None /\ installed = None
    /\ stored = <<>> /\ archives = <<>>
    /\ interpreters = Interpreters
    /\ cached = [path \in DOMAIN Interpreters |-> None]
    /\ faults = 0

Next ==
    \/ ResolveEnvironment \/ WriteLock
    \/ \E path \in DOMAIN interpreters :
          \/ ResolveSingle(path) \/ Install(path)
          \/ Expire(path) \/ Upgrade(path)

Spec == Init /\ [][Next]_vars
=============================================================================
