----------------------------- MODULE MCLocking ------------------------------
(***************************************************************************)
(* An index of three packages with the versions, wheels and metadata that  *)
(* are easily mistaken, four machines, and projects that each vary one     *)
(* thing: a constraint, a marker, or the machine with its environments.    *)
(***************************************************************************)
EXTENDS LockingProperties, Markers

CONSTANTS a, b, c

-----------------------------------------------------------------------------
(* Versions and files.                                                     *)

V(release) == FinalVersion(release)
Post(release, n) == [V(release) EXCEPT !.post = n]
Candidate(release, n) ==
    [V(release) EXCEPT !.pre = [kind |-> 2, number |-> n]]
Variant(release) ==
    [V(release) EXCEPT !.local = <<[number |-> None, text |-> 0]>>]

Is(op, version) == [op |-> op, version |-> version]

MCOrdered ==
    <<{V(<<1>>), V(<<1, 0>>)}, {V(<<1, 4>>)}, {Post(<<1, 4>>, 1)},
      {V(<<1, 9>>), V(<<1, 9, 0>>)}, {V(<<1, 10>>)}, {Candidate(<<2, 0>>, 1)},
      {V(<<2, 0>>), V(<<2, 0, 0>>)}, {V(<<2, 1>>)}>>

Plainly(tags) == [digit |-> FALSE, tags |-> tags]
Build == [digit |-> TRUE, tags |-> {}]
Label == Plainly({<<"cu1">>})

\* A file: between the name and the tags a build tag may stand, and a label
\* of the variant may follow them.
File(version, requires, before, pythons, abis, platforms, after) ==
    [version |-> version, yanked |-> FALSE, requires |-> requires,
     hashed |-> TRUE,
     parts |-> <<Plainly({}), Build>> \o before \o
                  <<Plainly(pythons), Plainly(abis), Plainly(platforms)>>
                  \o after]

Pure(version, requires) ==
    File(version, requires, <<>>, {<<"py", 2>>, <<"py", 3>>}, {<<"none">>},
         {<<"any">>}, <<>>)
Native(version, minor, before, platforms, after) ==
    File(version, {}, before, {<<"cp", 3, minor>>}, {<<"cp", 3, minor>>},
         platforms, after)
Source(version) ==
    [version |-> version, parts |-> <<>>, yanked |-> FALSE, requires |-> {},
     hashed |-> TRUE]
Yanked(f) == [f EXCEPT !.yanked = TRUE]
Unhashed(f) == [f EXCEPT !.hashed = FALSE]

Linux == {<<"manylinux", 2, 17, "x86_64">>, <<"manylinux2014", "x86_64">>,
          <<"musllinux", 1, 1, "aarch64">>}
NewLinux == {<<"manylinux", 2, 34, "x86_64">>, <<"musllinux", 1, 2, "aarch64">>}
Mac == {<<"macosx", 11, 0, "universal2">>, <<"macosx", 14, 0, "arm64">>}
Windows == {<<"win", "amd64">>}

MCFiles ==
    a :> <<Pure(V(<<1, 0>>), {})>>
    @@ b :> <<Pure(V(<<1, 4>>), {Is("<", V(<<3, 12>>))}), Source(Post(<<1, 4>>, 1)),
              Source(V(<<1, 9, 0>>)), Native(V(<<1, 9, 0>>), 8, <<>>, Linux, <<>>),
              Native(V(<<1, 9, 0>>), 10, <<>>, Linux, <<>>),
              Native(V(<<1, 9, 0>>), 10, <<>>, Mac \cup Windows, <<>>),
              Pure(V(<<1, 10>>), {Is(">=", V(<<3, 10>>))}),
              Pure(Candidate(<<2, 0>>, 1), {}),
              Yanked(Pure(V(<<2, 0>>), {})),
              Native(V(<<2, 0>>), 10, <<Build>>, Linux \cup Windows, <<>>),
              Native(V(<<2, 0>>), 8, <<>>, NewLinux, <<>>),
              Native(Variant(<<2, 0>>), 8, <<>>, Linux, <<Label>>),
              Yanked(Pure(V(<<2, 1>>), {}))>>
    @@ c :> <<Native(V(<<1, 0>>), 10, <<>>, Linux, <<>>),
              Unhashed(Pure(V(<<1, 0>>), {}))>>

-----------------------------------------------------------------------------
(* Machines and interpreters.                                              *)

\* The Python is the one that the build assumes.
Machine(sys, machine, libc, libcMinor) ==
    [sys |-> sys, machine |-> machine, libc |-> libc, libcMinor |-> libcMinor,
     macos |-> <<13, 0>>, implementation |-> CPython, minor |-> 12,
     micro |-> 0, freeThreaded |-> FALSE]

PC == Machine("linux", "x86_64", Glibc, 28)
Machines ==
    {PC, Machine("linux", "aarch64", Musl, 2),
     Machine("darwin", "arm64", "unknown", 0),
     Machine("win32", "x86_64", "unknown", 0)}

MCInterpreters == "python3" :> <<8, 4>>
MCUpgrades == {<<10, 1>>}

\* Every machine with every Python, under both names of its processor.
MCHosts ==
    {[m EXCEPT !.minor = python[1], !.micro = python[2], !.machine = name] :
        m \in Machines, name \in {"x86_64", "amd64", "aarch64", "arm64"},
        python \in {<<8, 0>>, <<8, 4>>, <<10, 0>>, <<10, 1>>, <<12, 0>>}}

E(minor, equals) == [minor |-> minor, equals |-> equals]

-----------------------------------------------------------------------------
(* Markers.                                                                *)

MCSpelling ==
    <<3, 8>> :> "3.8" @@ <<3, 9>> :> "3.9" @@ <<3, 10>> :> "3.10"
    @@ <<3, 12>> :> "3.12" @@ <<3, 8, 0>> :> "3.8.0" @@ <<3, 8, 4>> :> "3.8.4"
    @@ <<3, 10, 0>> :> "3.10.0" @@ <<3, 10, 1>> :> "3.10.1"
    @@ <<3, 12, 0>> :> "3.12.0"

\* In the order of strings.
Texts ==
    <<"3.10", "3.10.0", "3.10.1", "3.12", "3.12.0", "3.8", "3.8 3.9",
      "3.8.0", "3.8.4", "3.9", "aarch64", "amd64", "arm64", "cpython",
      "darwin", "linux", "nt", "posix", "win32", "x86_64">>

MCPlace == [text \in ToSet(Texts) |->
               CHOOSE i \in DOMAIN Texts : Texts[i] = text]
MCWithin == {<<text, text>> : text \in ToSet(Texts)}
                \cup {<<"3.8", "3.8 3.9">>, <<"3.9", "3.8 3.9">>}

\* A test, with the variable on the left or, flipped, on the right.
Tests(variable, op, value, flipped) ==
    [variable |-> variable, op |-> op, value |-> value, flipped |-> flipped]

Joined(seqs, word) ==
    FlattenSeq([i \in DOMAIN seqs |->
                   IF i = 1 THEN seqs[i] ELSE <<<<word>>>> \o seqs[i]])

WrittenTest(t) ==
    LET variable == <<"variable", t.variable>>
        string == <<"string", t.value>>
    IN  IF t.flipped THEN <<string, <<"op", Inverted(t.op)>>, variable>>
        ELSE <<variable, <<"op", t.op>>, string>>

WrittenAlternatives(tests) ==
    LET joined == Joined([i \in DOMAIN tests |-> WrittenTest(tests[i])], "or")
    IN  IF Len(tests) = 1 THEN joined ELSE <<<<"(">>>> \o joined \o <<<<")">>>>

\* The tokens of an expression, with parentheses where they are needed.
Written(m) ==
    Joined([i \in DOMAIN m |->
        Joined([j \in DOMAIN m[i] |-> WrittenAlternatives(m[i][j])], "and")],
        "or")

Python(op, numbers) == Tests("python_version", op, Dotted(numbers), FALSE)
System(op, text) == Tests("sys_platform", op, Quoted(text), FALSE)
OnWindows == Tests("os_name", "==", Quoted("nt"), TRUE)

Markers ==
    {<<<<<<Python("<", <<3, 10>>)>>>>>>,
     <<<<<<Tests("python_version", ">=", Dotted(<<3, 9>>), TRUE)>>>>>>,
     <<<<<<Python("~=", <<3, 9>>)>>>>>>,
     <<<<<<Python("==", <<3, 8, 0>>)>>>>>>,
     <<<<<<Tests("python_full_version", ">", Dotted(<<3, 8>>), FALSE)>>>>>>,
     <<<<<<Tests("python_version", "in", [text |-> "3.8 3.9", tuple |-> <<3, 9>>,
                                    words |-> {"3.8", "3.9"}], FALSE)>>>>>>,
     <<<<<<Python("<=", <<3, 9>>)>>, <<System("==", "linux")>>>>,
       <<<<OnWindows>>>>>>,
     <<<<<<Tests("extra", "==", Quoted("test"), TRUE)>>>>, <<<<OnWindows>>>>>>,
     <<<<<<OnWindows>>>>,
       <<<<System("!=", "darwin")>>, <<Python(">", <<3, 9>>)>>>>>>,
     <<<<<<OnWindows, Python(">=", <<3, 10>>)>>,
         <<System("==", "linux"), System("==", "win32")>>>>>>}

-----------------------------------------------------------------------------
(* Projects.                                                               *)

Needs(p, constraints) ==
    [package |-> p, constraints |-> constraints, marker |-> None,
     meaning |-> None]
NeedsIf(p, constraints, m) ==
    [Needs(p, constraints) EXCEPT !.marker = Written(m), !.meaning = m]

Project(machine, environments, strategy, requirements) ==
    [machine |-> machine, environments |-> environments,
     strategy |-> strategy, dependencies |-> {Needs(a, {})},
     metadata |-> {[package |-> a, version |-> V(<<1, 0>>),
                    requirement |-> d] : d \in requirements}]

Constraints ==
    {Is("==", V(<<2, 0, 0>>)), Is("!=", V(<<1, 9>>)), Is(">=", V(<<1, 9>>)),
     Is("<=", V(<<2, 0>>)), Is(">", V(<<1, 4>>)), Is(">", Post(<<1, 4>>, 1)),
     Is("<", V(<<2, 0>>)), Is("<", Candidate(<<2, 0>>, 1)),
     Is("~=", V(<<1, 9>>)), Is("~=", V(<<1, 9, 0>>)), Is("===", V(<<1, 10>>)),
     Is("==*", V(<<1>>)), Is("!=*", V(<<1>>)), Is("==*", V(<<2, 0>>))}

\* Projects that differ in the constraint.
Constrained ==
    {Project(PC, <<E(10, 2)>>, "fewest", {Needs(b, {constraint})}) :
        constraint \in Constraints}

Both == <<E(8, 2), E(10, 2)>>

\* Projects that differ in the marker.
Marking(machine) ==
    {Project(machine, Both, "fewest", {NeedsIf(c, {}, m)}) : m \in Markers}

\* Projects that differ in the environments: none, two of them, two of which
\* one is not written as documented.
Environments(machine) ==
    {Project(machine, environments, strategy,
             {Needs(b, {Is(">=", V(<<1, 9>>))}),
              NeedsIf(c, {}, <<<<<<Python("<", <<3, 10>>)>>>>>>)}) :
        environments \in {<<>>, Both, <<E(10, 3), E(8, 2)>>},
        strategy \in {"fewest", "requires-python"}}

MCProjects ==
    Constrained \cup UNION {Marking(m) : m \in Machines}
                \cup UNION {Environments(m) : m \in Machines}

\* What the theorems about locks suppose of the hosts, of Requires-Python, of
\* markers and of ranges holds of this instance.
ASSUME PremisesAssumption ==
    /\ OrdinaryHosts /\ PlainRequires
    /\ EnvironmentsRead /\ MarkersRead /\ RangesRead
=============================================================================
