------------------------- MODULE LockingProperties --------------------------
(***************************************************************************)
(* What a lock promises, with its own reading of versions, markers and     *)
(* tags: the order of PEP 440 as a list, markers as the expressions their  *)
(* text was written from, and wheels as triples of tags.                   *)
(***************************************************************************)
EXTENDS Locking

CONSTANT Ordered    \* the public versions in the order of PEP 440, each
                    \* with its spellings

\* Every variable of the pipeline has its type.
TypeOK ==
    /\ project \in Projects
    /\ \A i \in DOMAIN results :
          /\ results[i].host \in Hosts
          /\ \A p \in Chosen(results[i].choice) :
                results[i].choice[p] \in Listed(p)
    /\ lock # None => \A e \in lock :
          /\ e.version \in Listed(e.name)
          /\ e.wheel = None \/ e.wheel \in ToSet(Files[e.name])
    /\ DOMAIN cached = DOMAIN interpreters
    /\ \A path \in DOMAIN interpreters :
          /\ Probed(path) \in Hosts
          /\ cached[path] # None => cached[path].host \in Hosts
    /\ \A pair \in DOMAIN stored :
          pair[2] \in Listed(pair[1]) /\ stored[pair] \in Hosts
    /\ \A pair \in DOMAIN archives :
          archives[pair] \in FilesOf(pair[1], pair[2])
    /\ installed # None => installed.host \in Hosts
    /\ faults \in 0..MaxFaults

-----------------------------------------------------------------------------
(* Requirements.                                                           *)

Rank(v) == CHOOSE i \in DOMAIN Ordered : v \in Ordered[i]

\* What a constraint admits by PEP 440, of versions that are no pre-releases.
Admits(c, v) ==
    LET public == WithoutLocal(v)
        Series(n) == \A i \in 1..n :
            c.version.release[i] =
                IF i \in DOMAIN v.release THEN v.release[i] ELSE 0
    IN  CASE c.op = "==" -> Rank(public) = Rank(c.version)
          [] c.op = "!=" -> Rank(public) # Rank(c.version)
          [] c.op = ">=" -> Rank(public) >= Rank(c.version)
          [] c.op = "<=" -> Rank(public) <= Rank(c.version)
          [] c.op = ">" -> /\ Rank(public) > Rank(c.version)
                           /\ \/ public.release # c.version.release
                              \/ c.version.post # None
          [] c.op = "<" -> Rank(public) < Rank(c.version)
          [] c.op = "~=" -> /\ Rank(public) >= Rank(c.version)
                            /\ Series(Len(c.version.release) - 1)
          [] c.op = "==*" -> Series(Len(c.version.release))
          [] c.op = "!=*" -> ~Series(Len(c.version.release))
          [] c.op = "===" -> v = c.version

\* The size of a dotted version of Python.
Size(numbers) ==
    numbers[1] * 10000 + numbers[2] * 100
        + (IF Len(numbers) > 2 THEN numbers[3] ELSE 0)

\* What a test of a marker says of a host; no extra is asked for.
Test(t, h) ==
    IF t.variable = "extra" THEN t.op = "!="
    ELSE LET value == EnvironmentOf(h)[t.variable]
    IN  IF value.tuple = <<>> THEN (value.text = t.value.text) = (t.op = "==")
        ELSE LET have == Size(value.tuple)
                 want == Size(t.value.tuple)
             IN  CASE t.op = "==" -> have = want
                   [] t.op = "!=" -> have # want
                   [] t.op = ">=" -> have >= want
                   [] t.op = "<=" -> have <= want
                   [] t.op = ">" -> have > want
                   [] t.op = "<" -> have < want
                   [] t.op = "~=" -> /\ have >= want
                                     /\ value.tuple[1] = t.value.tuple[1]
                   [] t.op = "in" -> value.text \in t.value.words
                   [] t.op = "not in" -> value.text \notin t.value.words

\* What the expression of a marker says of a host: a disjunction of
\* conjunctions of tests or of alternatives of tests.
Meant(m, h) ==
    \E conjunction \in ToSet(m) : \A alternatives \in ToSet(conjunction) :
        \E t \in ToSet(alternatives) : Test(t, h)

\* The requirements a version has on a host.
Wanted(p, v, h) ==
    {d \in RequirementsOf(p, v) : d.meaning # None => Meant(d.meaning, h)}

\* An assignment meets the requirements that its versions have on the host
\* that hosts gives for each.  The solver's == and != tell a local version
\* from its public one, which PEP 440 does not.
Meets(s, hosts) ==
    \A p \in Chosen(s) : \A d \in Wanted(p, s[p], hosts[p]) :
        /\ d.package \in Chosen(s)
        /\ \A c \in d.constraints :
              \/ IsLocal(s[d.package]) /\ c.op \in {"==", "!="}
              \/ Admits(c, s[d.package])

\* Each resolution meets every requirement that its versions have, as PEP 440
\* and PEP 508 read them, on the host for which their metadata was fetched.
RequirementsHold ==
    \A i \in DOMAIN results : Meets(results[i].choice, results[i].taken)

\* Each resolution is one for its environment: it meets every requirement
\* that its versions have there (src/docs/concepts/resolution.md:121).
ResolvedForEnvironment ==
    \A i \in DOMAIN results :
        Meets(results[i].choice, [p \in Package |-> results[i].host])

\* Nothing is chosen that neither the project nor a chosen version wants, as
\* the metadata was fetched.
NothingUnneeded ==
    \A i \in DOMAIN results :
        LET s == results[i].choice
        IN  \A p \in Chosen(s) :
               \/ \E d \in project.dependencies : d.package = p
               \/ \E q \in Chosen(s) \ {p} :
                     \E d \in Wanted(q, s[q], results[i].taken[q]) :
                        d.package = p

-----------------------------------------------------------------------------
(* Wheels.                                                                 *)

\* Names that systems have for one processor.
SameProcessor(machine, name) ==
    \/ machine = name
    \/ \E names \in {{"x86_64", "amd64"}, {"aarch64", "arm64"},
                     {"x86", "i386", "i686"}} : {machine, name} \subseteq names

\* The kinds of binaries for several processors that a Mac runs.
MacFormats(machine) ==
    CASE SameProcessor(machine, "x86_64") ->
            {"universal2", "intel", "fat64", "fat32"}
      [] SameProcessor(machine, "arm64") -> {"universal2"}
      [] OTHER -> {}

\* A platform tag that the loader of the host satisfies.
RunsOn(h, tag) ==
    \/ tag = <<"any">>
    \/ /\ h.sys = "linux" /\ SameProcessor(h.machine, tag[Len(tag)])
       /\ \/ tag[1] = "linux"
          \/ tag[1] = "manylinux" /\ h.libc = Glibc /\ tag[3] <= h.libcMinor
          \/ tag[1] = "manylinux2014" /\ h.libc = Glibc /\ h.libcMinor >= 17
          \/ tag[1] = "manylinux2010" /\ h.libc = Glibc /\ h.libcMinor >= 12
          \/ tag[1] = "manylinux1" /\ h.libc = Glibc /\ h.libcMinor >= 5
          \/ tag[1] = "musllinux" /\ h.libc = Musl /\ tag[3] <= h.libcMinor
    \/ /\ h.sys = "darwin" /\ tag[1] = "macosx"
       /\ SameProcessor(h.machine, tag[4]) \/ tag[4] \in MacFormats(h.machine)
       /\ \/ tag[2] < h.macos[1]
          \/ tag[2] = h.macos[1] /\ tag[3] <= h.macos[2]
    \/ /\ h.sys = "win32"
       /\ \/ tag[1] = "win" /\ SameProcessor(h.machine, tag[2])
          \/ tag = <<"win32">> /\ SameProcessor(h.machine, "x86")

\* An interpreter and an ABI that the Python of the host can import: without
\* the global lock it has an ABI of its own.
Imports(h, python, abi) ==
    LET own == <<"cp", 3, h.minor>>
    IN  /\ python \in {own, <<"py", 3>>}
                         \cup {<<"py", 3, n>> : n \in 0..h.minor}
        /\ abi \in IF h.freeThreaded
                   THEN {<<"cp", 3, h.minor, "t">>, <<"none">>}
                   ELSE {own, <<"abi3">>, <<"none">>}

Usable(h, parts) ==
    LET fields == TagFields(parts)
    IN  \E python \in fields[1], abi \in fields[2], platform \in fields[3] :
           Imports(h, python, abi) /\ RunsOn(h, platform)

\* A host of which the code knows what it runs: CPython with the global lock,
\* on Linux with a C library that it recognised and that is no older than
\* those it names in tags, or on macOS 10 or later.
Ordinary(h) ==
    /\ h.implementation = CPython /\ ~h.freeThreaded
    /\ h.sys = "linux" =>
          \/ h.libc = Glibc /\ h.libcMinor >= 17
          \/ h.libc = Musl /\ h.libcMinor >= 1
    /\ h.sys = "darwin" =>
          /\ h.macos[1] >= 10
          /\ h.machine \in {"x86_64", "amd64", "arm64", "aarch64"}

OrdinaryHosts == \A h \in Hosts : Ordinary(h)

\* A version of Python that Requires-Python admits.
Allows(f, h) ==
    \A c \in f.requires :
        LET have == Size(<<3, h.minor, h.micro>>)
            want == Size(c.version.release)
        IN  IF c.op = ">=" THEN have >= want ELSE have < want

\* A version with wheels that can be installed on a host: one that is not
\* yanked runs on its platform and allows its Python, and the wheel that a
\* lock names runs.
VersionUsable(p, v, h) ==
    LET wheels == {f \in FilesOf(p, v) : IsWheel(f)}
    IN  wheels # {} =>
           /\ \E f \in wheels :
                 ~f.yanked /\ Usable(h, f.parts) /\ Allows(f, h)
           /\ WheelDist(p, v, h) \in {f \in wheels : Usable(h, f.parts)}

UsableVersions ==
    [h \in Hosts |-> [p \in Package |->
        {v \in Listed(p) : VersionUsable(p, v, h)}]]

\* Every version that is chosen for an environment can be installed there,
\* and the lock names a wheel that runs there.
LockedVersionsUsable ==
    \A i \in DOMAIN results : \A p \in Chosen(results[i].choice) :
        results[i].choice[p] \in UsableVersions[results[i].host][p]

\* What an install downloads runs on the host that was detected, whatever
\* environment its wheel was locked for.
DownloadsUsable ==
    installed # None =>
        \A package \in installed.packages :
            (package.wheel # None /\ ~package.reused) =>
                Usable(installed.host, package.wheel.parts)

-----------------------------------------------------------------------------
(* The lock.                                                               *)

\* The environments of the lock that a host is of, written as documented.
TargetsOf(h) ==
    {i \in DOMAIN project.environments :
        /\ \A e \in ToSet(project.environments) : e.equals = 2
        /\ project.environments[i].minor = h.minor}

\* An install from the lock picks just what was resolved for its environment,
\* whichever strategy merged the environments.
InstalledAsResolved ==
    installed # None =>
        LET picked == {<<e.name, e.version>> : e \in installed.packages}
        IN  \A i \in TargetsOf(installed.host) :
               picked = {<<p, results[i].choice[p]>> :
                            p \in Chosen(results[i].choice)}

\* The marker of an environment that is written as documented holds on the
\* hosts with its Python, and each environment of a project has another.
EnvironmentsRead ==
    \A r \in Projects :
        /\ \A e \in ToSet(r.environments), h \in Hosts :
              e.equals = 2 =>
                 (Holds(MarkerTokens(e), EnvironmentOf(h)) <=> e.minor = h.minor)
        /\ \A i, j \in DOMAIN r.environments :
              r.environments[i].minor = r.environments[j].minor => i = j

\* Requires-Python bounds versions of two or three small numbers by >= and <,
\* and every Python has such a version.
PlainRequires ==
    LET Short == [1..2 -> 0..99] \cup [1..3 -> 0..99]
    IN  /\ \A h \in Hosts : {h.minor, h.micro} \subseteq 0..99
        /\ \A p \in Package : \A f \in ToSet(Files[p]) : \A c \in f.requires :
              /\ c.op \in {">=", "<"} /\ c.version.release \in Short
              /\ c.version = FinalVersion(c.version.release)

\* Parsed and evaluated, the marker of a requirement says of a host what its
\* expression means.
MarkersRead ==
    \A r \in Projects : \A l \in r.metadata, h \in Hosts :
        LET d == l.requirement
        IN  (d.marker # None => Holds(d.marker, EnvironmentOf(h)))
                <=> (d.meaning # None => Meant(d.meaning, h))

\* The range of a constraint has no version, of those that may be chosen,
\* that PEP 440 keeps out of it; local versions as in Meets.
RangesRead ==
    \A r \in Projects : \A l \in r.metadata :
        LET d == l.requirement
        IN  \A c \in d.constraints, v \in Listed(d.package) :
               (~IsPreRelease(v) /\ InRange(c, v)) =>
                   (IsLocal(v) /\ c.op \in {"==", "!="}) \/ Admits(c, v)
=============================================================================
