---------------------------- MODULE LockingProofs ----------------------------
(***************************************************************************)
(* From a project to an installation, for any index, any projects and any  *)
(* hosts: what is resolved meets the requirements that were taken for it   *)
(* and can be installed, an install picks what was resolved for its        *)
(* environment, and what it downloads runs there.                          *)
(***************************************************************************)
EXTENDS LockingProperties, SequenceLemmas

\* A sequence of whatever its members are.
IsSequence(s) == s \in Seq(ToSet(s))

\* A function on 1..n is a sequence of that length.
LEMMA FunctionIsSequence ==
    ASSUME NEW n \in Nat, NEW s, s = [i \in 1..n |-> s[i]]
    PROVE  IsSequence(s) /\ Len(s) = n /\ DOMAIN s = 1..n
<1>1. DOMAIN s = 1..n
  OBVIOUS
<1>2. s \in [1..n -> ToSet(s)]
  BY <1>1 DEF ToSet
<1> QED BY <1>1, <1>2 DEF IsSequence

\* A concatenation has the members of both sequences.
LEMMA ConcatMembers ==
    ASSUME NEW s, NEW t, IsSequence(s), IsSequence(t)
    PROVE  /\ IsSequence(s \o t) /\ ToSet(s \o t) = ToSet(s) \cup ToSet(t)
           /\ Len(s \o t) = Len(s) + Len(t)
<1> DEFINE S == ToSet(s) \cup ToSet(t)
           u == s \o t
<1>1. s \in Seq(S) /\ t \in Seq(S)
  BY DEF IsSequence
<1>2. /\ u \in Seq(S) /\ Len(u) = Len(s) + Len(t)
      /\ \A i \in 1..(Len(s) + Len(t)) :
            u[i] = IF i <= Len(s) THEN s[i] ELSE t[i - Len(s)]
  BY <1>1, ConcatProperties
<1>3. /\ DOMAIN s = 1..Len(s) /\ DOMAIN t = 1..Len(t) /\ DOMAIN u = 1..Len(u)
      /\ Len(s) \in Nat /\ Len(t) \in Nat
  BY <1>1, <1>2, LenProperties
<1> HIDE DEF u, S
<1>4. ASSUME NEW i \in DOMAIN s PROVE s[i] \in ToSet(u)
  <2>1. i \in DOMAIN u /\ u[i] = s[i]
    BY <1>2, <1>3
  <2> QED BY <2>1 DEF ToSet
<1>5. ASSUME NEW i \in DOMAIN t PROVE t[i] \in ToSet(u)
  <2>1. i + Len(s) \in DOMAIN u /\ u[i + Len(s)] = t[i]
    BY <1>2, <1>3
  <2> QED BY <2>1 DEF ToSet
<1>6. S \subseteq ToSet(u)
  BY <1>4, <1>5 DEF S, ToSet
<1>7. ToSet(u) \subseteq S
  BY <1>2, <1>3, ElementOfSeq DEF ToSet
<1>8. ToSet(u) = S
  BY <1>6, <1>7
<1> QED BY <1>2, <1>8 DEF IsSequence, S, u

\* The members of the short sequences that are written out.
LEMMA LiteralMembers ==
    /\ IsSequence(<<>>) /\ ToSet(<<>>) = {}
    /\ \A a : IsSequence(<<a>>) /\ ToSet(<<a>>) = {a}
    /\ \A a, b : IsSequence(<<a, b>>) /\ ToSet(<<a, b>>) = {a, b}
<1>1. IsSequence(<<>>) /\ ToSet(<<>>) = {}
  BY DEF IsSequence, ToSet
<1>2. ASSUME NEW a PROVE IsSequence(<<a>>) /\ ToSet(<<a>>) = {a}
  <2>1. DOMAIN <<a>> = {1} /\ <<a>>[1] = a
    OBVIOUS
  <2>2. ToSet(<<a>>) = {a}
    BY <2>1 DEF ToSet
  <2> QED BY <2>2 DEF IsSequence
<1>3. ASSUME NEW a, NEW b PROVE IsSequence(<<a, b>>) /\ ToSet(<<a, b>>) = {a, b}
  <2>1. DOMAIN <<a, b>> = {1, 2} /\ <<a, b>>[1] = a /\ <<a, b>>[2] = b
    OBVIOUS
  <2>2. ToSet(<<a, b>>) = {a, b}
    BY <2>1 DEF ToSet
  <2> QED BY <2>2 DEF IsSequence
<1> QED BY <1>1, <1>2, <1>3

\* build_python_tags of CPython: its own tag, py3, and py3 with every minor
\* version up to its own.
LEMMA PythonTagsAre ==
    ASSUME NEW h \in Hosts, h.implementation = CPython
    PROVE  /\ IsSequence(PythonTags(h))
           /\ ToSet(PythonTags(h)) =
                {<<"cp", 3, h.minor>>, <<"py", 3>>}
                    \cup {<<"py", 3, n>> : n \in 0..h.minor}
<1> DEFINE e == Each(LAMBDA m : <<"py", 3, m>>, Descending(h.minor, 0))
<1>1. h.minor \in Nat
  BY HostsAssumption DEF IsHost
<1>2. e = [k \in 1..(h.minor + 1) |-> <<"py", 3, h.minor + 1 - k>>]
  BY <1>1 DEF Each, Descending
<1>3. IsSequence(e)
  <2>1. e = [k \in 1..(h.minor + 1) |-> e[k]]
    BY <1>2
  <2> HIDE DEF e
  <2> QED BY <1>1, <2>1, FunctionIsSequence
<1>4. ToSet(e) = {<<"py", 3, n>> : n \in 0..h.minor}
  <2>1. \A n \in 0..h.minor : h.minor + 1 - n \in 1..(h.minor + 1)
        /\ h.minor + 1 - (h.minor + 1 - n) = n
    BY <1>1
  <2>2. \A k \in 1..(h.minor + 1) : h.minor + 1 - k \in 0..h.minor
    BY <1>1
  <2> HIDE DEF e
  <2> QED BY <1>2, <2>1, <2>2 DEF ToSet
<1>5. PythonTags(h) = <<<<"cp", 3, h.minor>>>> \o e \o <<<<"py", 3>>>>
  BY DEF PythonTags, Prefix
<1> HIDE DEF e
<1> QED BY <1>3, <1>4, <1>5, LiteralMembers, ConcatMembers

\* build_abi_tags of a CPython with the global lock.
LEMMA AbiTagsAre ==
    ASSUME NEW h \in Hosts, Ordinary(h)
    PROVE  /\ IsSequence(AbiTags(h))
           /\ ToSet(AbiTags(h)) = {<<"cp", 3, h.minor>>, <<"abi3">>, <<"none">>}
<1>1. AbiTags(h) = <<>> \o <<<<"cp", 3, h.minor>>>> \o <<<<"abi3">>>> \o <<<<"none">>>>
  BY DEF AbiTags, Prefix, Ordinary
<1> QED BY <1>1, LiteralMembers, ConcatMembers

\* The names of processors that the tags use.
LEMMA SameProcessorAs ==
    ASSUME NEW m
    PROVE  /\ SameProcessor(m, m)
           /\ m \in {"arm64", "aarch64"} =>
                SameProcessor(m, "arm64") /\ SameProcessor(m, "aarch64")
           /\ m \in {"x86_64", "amd64"} =>
                SameProcessor(m, "x86_64") /\ SameProcessor(m, "amd64")
           /\ m \in {"x86", "i386", "i686"} => SameProcessor(m, "x86")
BY DEF SameProcessor

\* The tags for glibc: no line above the one of the host, and the old names
\* of 2.5, 2.12 and 2.17.
LEMMA GlibcTagsAre ==
    ASSUME NEW minor \in Nat, minor >= 17, NEW arch
    PROVE  /\ IsSequence(GlibcTags(minor, arch))
           /\ \A t \in ToSet(GlibcTags(minor, arch)) :
                 \/ t \in {<<"manylinux2014", arch>>, <<"manylinux2010", arch>>,
                      <<"manylinux1", arch>>}
                 \/ \E y \in 0..minor : t = <<"manylinux", 2, y, arch>>
<1> DEFINE e == Each(LAMBDA y : <<"manylinux", 2, y, arch>>, Descending(minor, 17))
           legacy == IF arch \in {"x86_64", "i686"} THEN Legacy(arch) ELSE <<>>
<1>1. e = [k \in 1..(minor - 16) |-> <<"manylinux", 2, minor + 1 - k, arch>>]
  BY DEF Each, Descending
<1>2. IsSequence(e)
  <2> HIDE DEF e
  <2>1. e = [k \in 1..(minor - 16) |-> e[k]] /\ minor - 16 \in Nat
    BY <1>1
  <2> QED BY <2>1, FunctionIsSequence
<1>3. \A t \in ToSet(e) : \E y \in 0..minor : t = <<"manylinux", 2, y, arch>>
  <2>1. \A k \in 1..(minor - 16) : minor + 1 - k \in 0..minor
    OBVIOUS
  <2> HIDE DEF e
  <2> QED BY <1>1, <2>1 DEF ToSet
<1>4. /\ IsSequence(legacy)
      /\ ToSet(legacy) \subseteq {<<"manylinux2010", arch>>, <<"manylinux1", arch>>}
  <2>1. CASE arch \in {"x86_64", "i686"}
    <3>1. legacy = <<<<"manylinux2010", arch>>, <<"manylinux1", arch>>>>
      BY <2>1 DEF Legacy
    <3> HIDE DEF legacy
    <3> QED BY <3>1, LiteralMembers
  <2>2. CASE arch \notin {"x86_64", "i686"}
    <3>1. legacy = <<>>
      BY <2>2
    <3> HIDE DEF legacy
    <3> QED BY <3>1, LiteralMembers
  <2> QED BY <2>1, <2>2
<1>5. GlibcTags(minor, arch) = e \o <<<<"manylinux2014", arch>>>> \o legacy
  <2>1. AtLeast(minor, 17) = minor
    BY DEF AtLeast
  <2> QED BY <2>1 DEF GlibcTags
<1> HIDE DEF e, legacy
<1>6. /\ IsSequence(GlibcTags(minor, arch))
      /\ ToSet(GlibcTags(minor, arch)) =
           ToSet(e) \cup {<<"manylinux2014", arch>>} \cup ToSet(legacy)
  BY <1>2, <1>4, <1>5, LiteralMembers, ConcatMembers
<1> QED BY <1>3, <1>4, <1>6

\* The tags for musl: no line above the one of the host.
LEMMA MuslTagsAre ==
    ASSUME NEW minor \in Nat, minor >= 1, NEW arch
    PROVE  /\ IsSequence(MuslTags(minor, arch))
           /\ \A t \in ToSet(MuslTags(minor, arch)) :
                 \E y \in 0..minor : t = <<"musllinux", 1, y, arch>>
<1> DEFINE e == MuslTags(minor, arch)
<1>1. e = [k \in 1..minor |-> <<"musllinux", 1, minor + 1 - k, arch>>]
  BY DEF MuslTags, AtLeast, Each, Descending
<1>2. IsSequence(e)
  <2>1. e = [k \in 1..minor |-> e[k]]
    BY <1>1
  <2> HIDE DEF e
  <2> QED BY <2>1, FunctionIsSequence
<1>3. \A k \in 1..minor : minor + 1 - k \in 0..minor
  OBVIOUS
<1> HIDE DEF e
<1>4. \A t \in ToSet(e) : \E y \in 0..minor : t = <<"musllinux", 1, y, arch>>
  BY <1>1, <1>3 DEF ToSet
<1> QED BY <1>2, <1>4 DEF e

\* A Linux host of which the C library is known runs every tag that
\* build_linux_tags lists for it.
LEMMA LinuxTagsRun ==
    ASSUME NEW h \in Hosts, Ordinary(h), h.sys = "linux"
    PROVE  IsSequence(LinuxTags(h)) /\ \A t \in ToSet(LinuxTags(h)) : RunsOn(h, t)
<1> DEFINE arch == LinuxArch(h)
<1>1. h.libcMinor \in Nat
  BY HostsAssumption DEF IsHost
<1>2. SameProcessor(h.machine, arch)
  BY SameProcessorAs DEF LinuxArch
<1> HIDE DEF arch
<1>3. RunsOn(h, <<"linux", arch>>)
  BY <1>2 DEF RunsOn
<1>4. CASE h.libc = Glibc
  <2>1. h.libcMinor >= 17
    BY <1>4 DEF Ordinary, Glibc, Musl
  <2>2. LinuxTags(h) = GlibcTags(h.libcMinor, arch) \o <<<<"linux", arch>>>>
    BY <1>4 DEF LinuxTags, arch, Glibc, Musl
  <2>3. /\ IsSequence(LinuxTags(h))
        /\ ToSet(LinuxTags(h)) =
             ToSet(GlibcTags(h.libcMinor, arch)) \cup {<<"linux", arch>>}
    <3>1. IsSequence(GlibcTags(h.libcMinor, arch))
      BY <1>1, <2>1, GlibcTagsAre
    <3>2. IsSequence(<<<<"linux", arch>>>>)
          /\ ToSet(<<<<"linux", arch>>>>) = {<<"linux", arch>>}
      BY LiteralMembers
    <3> QED BY <2>2, <3>1, <3>2, ConcatMembers
  <2>4. ASSUME NEW t \in {<<"manylinux2014", arch>>, <<"manylinux2010", arch>>,
               <<"manylinux1", arch>>}
        PROVE  RunsOn(h, t)
    <3>1. Len(t) = 2 /\ t[2] = arch
          /\ t[1] \in {"manylinux2014", "manylinux2010", "manylinux1"}
      OBVIOUS
    <3> QED BY <1>1, <1>2, <1>4, <2>1, <3>1 DEF RunsOn
  <2>5. ASSUME NEW y \in 0..h.libcMinor PROVE RunsOn(h, <<"manylinux", 2, y, arch>>)
    <3> DEFINE t == <<"manylinux", 2, y, arch>>
    <3>1. Len(t) = 4 /\ t[4] = arch /\ t[1] = "manylinux" /\ t[3] = y
      OBVIOUS
    <3>2. t[3] <= h.libcMinor
      BY <1>1
    <3> HIDE DEF t
    <3>3. RunsOn(h, t)
      BY <1>2, <1>4, <3>1, <3>2 DEF RunsOn
    <3> QED BY <3>3 DEF t
  <2> QED BY <1>1, <1>3, <2>1, <2>3, <2>4, <2>5, GlibcTagsAre
<1>5. CASE h.libc = Musl
  <2>1. h.libcMinor >= 1
    BY <1>5 DEF Ordinary, Glibc, Musl
  <2>2. LinuxTags(h) = MuslTags(h.libcMinor, arch) \o <<<<"linux", arch>>>>
    BY <1>5 DEF LinuxTags, arch, Musl, Glibc
  <2>3. /\ IsSequence(LinuxTags(h))
        /\ ToSet(LinuxTags(h)) =
             ToSet(MuslTags(h.libcMinor, arch)) \cup {<<"linux", arch>>}
    <3>1. IsSequence(MuslTags(h.libcMinor, arch))
      BY <1>1, <2>1, MuslTagsAre
    <3>2. IsSequence(<<<<"linux", arch>>>>)
          /\ ToSet(<<<<"linux", arch>>>>) = {<<"linux", arch>>}
      BY LiteralMembers
    <3> QED BY <2>2, <3>1, <3>2, ConcatMembers
  <2>4. ASSUME NEW y \in 0..h.libcMinor PROVE RunsOn(h, <<"musllinux", 1, y, arch>>)
    <3> DEFINE t == <<"musllinux", 1, y, arch>>
    <3>1. Len(t) = 4 /\ t[4] = arch /\ t[1] = "musllinux" /\ t[3] = y
      OBVIOUS
    <3>2. t[3] <= h.libcMinor
      BY <1>1
    <3> HIDE DEF t
    <3>3. RunsOn(h, t)
      BY <1>2, <1>5, <3>1, <3>2 DEF RunsOn
    <3> QED BY <3>3 DEF t
  <2> QED BY <1>1, <1>3, <2>1, <2>3, <2>4, MuslTagsAre
<1> QED BY <1>4, <1>5 DEF Ordinary

\* The releases of macOS that are listed are no later than that of the host;
\* those before 11 are of the 10 series.
LEMMA MacLinesAre ==
    ASSUME NEW version \in Nat \X Nat, version[1] >= 10
    PROVE  /\ IsSequence(MacLines(version))
           /\ \A line \in ToSet(MacLines(version)) :
                 \/ line[1] < version[1]
                 \/ line[1] = version[1] /\ line[2] <= version[2]
<1> DEFINE major == version[1]
           minor == IF version[1] = 10 THEN version[2] ELSE 15
           d == Each(LAMBDA m : <<m, 0>>, Descending(version[1], 11))
           e == Each(LAMBDA m : <<10, m>>, Descending(minor, 0))
           Before(line) == \/ line[1] < version[1]
                           \/ line[1] = version[1] /\ line[2] <= version[2]
<1>1. major \in Nat /\ version[2] \in Nat /\ minor \in Nat /\ major >= 10
  OBVIOUS
<1>2. d = [k \in 1..(major - 10) |-> <<major + 1 - k, 0>>]
  BY <1>1 DEF Each, Descending
<1>3. e = [k \in 1..(minor + 1) |-> <<10, minor + 1 - k>>]
  BY <1>1 DEF Each, Descending
<1>4. MacLines(version) = d \o e
  BY DEF MacLines
<1>5. minor <= version[2] \/ 10 < major
  BY <1>1
<1> HIDE DEF d, e, minor
<1>6. IsSequence(d)
  <2>1. d = [k \in 1..(major - 10) |-> d[k]] /\ major - 10 \in Nat
    BY <1>1, <1>2
  <2> QED BY <2>1, FunctionIsSequence
<1>7. IsSequence(e)
  <2>1. e = [k \in 1..(minor + 1) |-> e[k]] /\ minor + 1 \in Nat
    BY <1>1, <1>3
  <2> QED BY <2>1, FunctionIsSequence
<1>8. \A line \in ToSet(d) : Before(line)
  <2>1. ASSUME NEW k \in 1..(major - 10) PROVE Before(<<major + 1 - k, 0>>)
    <3>1. major + 1 - k < major \/ (major + 1 - k = major /\ 0 <= version[2])
      BY <1>1
    <3> QED BY <3>1
  <2> HIDE DEF Before
  <2> QED BY <1>2, <2>1 DEF ToSet
<1>9. \A line \in ToSet(e) : Before(line)
  <2>1. ASSUME NEW k \in 1..(minor + 1) PROVE Before(<<10, minor + 1 - k>>)
    <3>1. 10 < major \/ (10 = major /\ minor + 1 - k <= version[2])
      BY <1>1, <1>5
    <3> QED BY <3>1
  <2> HIDE DEF Before
  <2> QED BY <1>3, <2>1 DEF ToSet
<1> QED BY <1>4, <1>6, <1>7, <1>8, <1>9, ConcatMembers

\* The kinds of binaries listed for a Mac are those of its processor.
LEMMA MacVariantsRun ==
    ASSUME NEW h \in Hosts, h.machine \in {"x86_64", "amd64", "arm64", "aarch64"},
           NEW i \in DOMAIN MacVariants(MacArch(h))
    PROVE  /\ Len(MacVariants(MacArch(h))) \in {1, 2, 5}
           /\ DOMAIN MacVariants(MacArch(h)) = 1..Len(MacVariants(MacArch(h)))
           /\ \/ SameProcessor(h.machine, MacVariants(MacArch(h))[i])
              \/ MacVariants(MacArch(h))[i] \in MacFormats(h.machine)
<1> DEFINE v == MacVariants(MacArch(h))
<1>1. CASE h.machine \in {"arm64", "aarch64"}
  <2>1. v = <<"arm64", "universal2">>
    BY <1>1 DEF MacVariants, MacArch
  <2>2. SameProcessor(h.machine, "arm64") /\ ~SameProcessor(h.machine, "x86_64")
    BY <1>1 DEF SameProcessor
  <2>3. "universal2" \in MacFormats(h.machine)
    BY <2>2 DEF MacFormats
  <2> HIDE DEF v
  <2> QED BY <2>1, <2>2, <2>3 DEF v
<1>2. CASE h.machine = "x86_64"
  <2>1. v = <<"x86_64", "universal2", "intel", "fat64", "fat32">>
    BY <1>2 DEF MacVariants, MacArch
  <2>2. SameProcessor(h.machine, "x86_64") /\ ~SameProcessor(h.machine, "arm64")
    BY <1>2 DEF SameProcessor
  <2>3. {"universal2", "intel", "fat64", "fat32"} \subseteq MacFormats(h.machine)
    BY <2>2 DEF MacFormats
  <2> HIDE DEF v
  <2> QED BY <2>1, <2>2, <2>3 DEF v
<1>3. CASE h.machine = "amd64"
  <2>1. v = <<"universal2">>
    BY <1>3 DEF MacVariants, MacArch
  <2>2. SameProcessor(h.machine, "x86_64") /\ ~SameProcessor(h.machine, "arm64")
    BY <1>3 DEF SameProcessor
  <2>3. {"universal2", "intel", "fat64", "fat32"} \subseteq MacFormats(h.machine)
    BY <2>2 DEF MacFormats
  <2> HIDE DEF v
  <2> QED BY <2>1, <2>2, <2>3 DEF v
<1> QED BY <1>1, <1>2, <1>3

\* A Mac runs every tag that build_macos_tags lists for it.
LEMMA MacosTagsRun ==
    ASSUME NEW h \in Hosts, Ordinary(h), h.sys = "darwin"
    PROVE  IsSequence(MacosTags(h)) /\ \A t \in ToSet(MacosTags(h)) : RunsOn(h, t)
<1> DEFINE variants == MacVariants(MacArch(h))
           lines == MacLines(h.macos)
           count == Len(variants)
           tags == MacosTags(h)
<1>1. h.macos \in Nat \X Nat /\ h.macos[1] >= 10
      /\ h.machine \in {"x86_64", "amd64", "arm64", "aarch64"}
  BY HostsAssumption DEF IsHost, Ordinary
<1>2. /\ IsSequence(lines)
      /\ \A line \in ToSet(lines) : \/ line[1] < h.macos[1]
                                    \/ line[1] = h.macos[1] /\ line[2] <= h.macos[2]
  BY <1>1, MacLinesAre
<1>3. /\ count \in {1, 2, 5} /\ DOMAIN variants = 1..count
      /\ \A i \in DOMAIN variants :
            \/ SameProcessor(h.machine, variants[i])
            \/ variants[i] \in MacFormats(h.machine)
  <2>1. 1 \in DOMAIN variants
    BY <1>1 DEF MacVariants, MacArch
  <2> QED BY <1>1, <2>1, MacVariantsRun
<1>4. tags = [k \in 1..(Len(lines) * count) |->
                 <<"macosx", lines[1 + ((k - 1) \div count)][1],
                     lines[1 + ((k - 1) \div count)][2],
                   variants[1 + ((k - 1) % count)]>>]
  BY DEF MacosTags
<1> HIDE DEF variants, lines, count, tags
<1>5. Len(lines) \in Nat /\ DOMAIN lines = 1..Len(lines)
  BY <1>2, LenProperties DEF IsSequence
<1>6. ASSUME NEW k \in 1..(Len(lines) * count)
      PROVE  /\ 1 + ((k - 1) \div count) \in 1..Len(lines)
             /\ 1 + ((k - 1) % count) \in 1..count
  <2>1. CASE count = 1
    BY <1>5, <2>1
  <2>2. CASE count = 2
    BY <1>5, <2>2
  <2>3. CASE count = 5
    BY <1>5, <2>3
  <2> QED BY <1>3, <2>1, <2>2, <2>3
<1>7. IsSequence(tags)
  <2>1. tags = [k \in 1..(Len(lines) * count) |-> tags[k]] /\ Len(lines) * count \in Nat
    BY <1>3, <1>4, <1>5
  <2> QED BY <2>1, FunctionIsSequence
<1>8. ASSUME NEW t \in ToSet(tags) PROVE RunsOn(h, t)
  <2>1. PICK k \in 1..(Len(lines) * count) : t = tags[k]
    BY <1>4 DEF ToSet
  <2> DEFINE line == lines[1 + ((k - 1) \div count)]
             variant == variants[1 + ((k - 1) % count)]
  <2>2. t = <<"macosx", line[1], line[2], variant>>
    BY <1>4, <2>1
  <2>3. line \in ToSet(lines) /\ 1 + ((k - 1) % count) \in DOMAIN variants
    BY <1>3, <1>5, <1>6 DEF ToSet
  <2>4. SameProcessor(h.machine, variant) \/ variant \in MacFormats(h.machine)
    BY <1>3, <2>3
  <2>5. \/ line[1] < h.macos[1]
        \/ line[1] = h.macos[1] /\ line[2] <= h.macos[2]
    BY <1>2, <2>3
  <2> HIDE DEF line, variant
  <2>6. t[1] = "macosx" /\ t[2] = line[1] /\ t[3] = line[2] /\ t[4] = variant
    BY <2>2
  <2> QED BY <2>4, <2>5, <2>6 DEF RunsOn
<1> QED BY <1>7, <1>8 DEF tags

\* Windows runs every tag that build_platform_tags lists for it.
LEMMA WindowsTagsRun ==
    ASSUME NEW h \in Hosts, h.sys = "win32"
    PROVE  IsSequence(WindowsTags(h)) /\ \A t \in ToSet(WindowsTags(h)) : RunsOn(h, t)
<1>1. PICK t : /\ WindowsTags(h) = <<t>>
               /\ \/ t = <<"win32">> /\ h.machine \in {"x86", "i386", "i686"}
                  \/ \E name : t = <<"win", name>> /\ SameProcessor(h.machine, name)
  BY SameProcessorAs DEF WindowsTags
<1>2. RunsOn(h, t)
  <2>1. CASE t = <<"win32">> /\ h.machine \in {"x86", "i386", "i686"}
    BY <2>1, SameProcessorAs DEF RunsOn
  <2>2. ASSUME NEW name, t = <<"win", name>>, SameProcessor(h.machine, name)
        PROVE  RunsOn(h, t)
    <3>1. t[1] = "win" /\ t[2] = name
      BY <2>2
    <3> QED BY <2>2, <3>1 DEF RunsOn
  <2> QED BY <1>1, <2>1, <2>2
<1> QED BY <1>1, <1>2, LiteralMembers

\* build_platform_tags lists nothing that an ordinary host does not run.
LEMMA PlatformTagsRun ==
    ASSUME NEW h \in Hosts, Ordinary(h)
    PROVE  IsSequence(PlatformTags(h)) /\ \A t \in ToSet(PlatformTags(h)) : RunsOn(h, t)
<1> DEFINE own == CASE h.sys = "linux" -> LinuxTags(h)
                    [] h.sys = "darwin" -> MacosTags(h)
                    [] OTHER -> WindowsTags(h)
<1>1. IsSequence(own) /\ \A t \in ToSet(own) : RunsOn(h, t)
  <2>1. CASE h.sys = "linux"
    BY <2>1, LinuxTagsRun
  <2>2. CASE h.sys = "darwin"
    BY <2>2, MacosTagsRun
  <2>3. CASE h.sys = "win32"
    BY <2>3, WindowsTagsRun
  <2> QED BY <2>1, <2>2, <2>3, HostsAssumption DEF IsHost
<1>2. PlatformTags(h) = own \o <<<<"any">>>>
  BY DEF PlatformTags
<1>3. RunsOn(h, <<"any">>)
  BY DEF RunsOn
<1> HIDE DEF own
<1> QED BY <1>1, <1>2, <1>3, LiteralMembers, ConcatMembers

\* PlatformTags::from_env holds the three lists, and a set of each.
LEMMA SupportedAre ==
    ASSUME NEW h \in Hosts
    PROVE  /\ Supported[h][1] = PythonTags(h)
           /\ SupportedSet[h][1] = ToSet(PythonTags(h))
           /\ Supported[h][2] = AbiTags(h) /\ SupportedSet[h][2] = ToSet(AbiTags(h))
           /\ Supported[h][3] = PlatformTags(h)
           /\ SupportedSet[h][3] = ToSet(PlatformTags(h))
<1>1. Supported[h] = <<PythonTags(h), AbiTags(h), PlatformTags(h)>>
  BY DEF Supported
<1>2. SupportedSet[h] = [k \in 1..3 |-> ToSet(Supported[h][k])]
  BY DEF SupportedSet
<1> QED BY <1>1, <1>2

\* is_compatible is right about ordinary hosts: of a wheel that it accepts the
\* interpreter can import the modules and the loader can load the binaries.
LEMMA CompatibleIsUsable ==
    ASSUME NEW h \in Hosts, Ordinary(h), NEW parts, IsCompatible(h, parts)
    PROVE  Usable(h, parts)
<1> DEFINE fields == TagFields(parts)
<1>1. \A k \in 1..3 : fields[k] \cap SupportedSet[h][k] # {}
  BY DEF IsCompatible
<1> HIDE DEF fields
<1>2. PICK python \in fields[1] : python \in ToSet(PythonTags(h))
  BY <1>1, SupportedAre
<1>3. PICK abi \in fields[2] : abi \in ToSet(AbiTags(h))
  BY <1>1, SupportedAre
<1>4. PICK platform \in fields[3] : platform \in ToSet(PlatformTags(h))
  BY <1>1, SupportedAre
<1>5. Imports(h, python, abi)
  <2>1. h.implementation = CPython /\ ~h.freeThreaded
    BY DEF Ordinary
  <2> QED BY <1>2, <1>3, <2>1, PythonTagsAre, AbiTagsAre DEF Imports
<1>6. RunsOn(h, platform)
  BY <1>4, PlatformTagsRun
<1> QED BY <1>5, <1>6 DEF Usable, fields

\* best_rank of tags of which one is in the list.
LEMMA PreferenceType ==
    ASSUME NEW list, IsSequence(list), NEW tags, tags \cap ToSet(list) # {}
    PROVE  Preference(tags, list) \in Nat
<1>1. DOMAIN list = 1..Len(list) /\ Len(list) \in Nat
  BY LenProperties DEF IsSequence
<1> DEFINE hits == {i \in DOMAIN list : list[i] \in tags}
           First(i) == list[i] \in tags /\ \A j \in 1..(i - 1) : list[j] \notin tags
<1>2. hits \in SUBSET Nat /\ hits # {}
  BY <1>1 DEF ToSet
<1>3. Min(hits) \in hits /\ \A x \in hits : Min(hits) <= x
  BY <1>2, MinOfNat
<1>4. \E i \in DOMAIN list : First(i)
  <2> DEFINE i == Min(hits)
  <2>1. i \in 1..Len(list) /\ list[i] \in tags
    BY <1>1, <1>3
  <2>2. ASSUME NEW j \in 1..(i - 1), list[j] \in tags PROVE FALSE
    <3> HIDE DEF i
    <3>1. j \in 1..Len(list) /\ j < i /\ i \in Nat
      BY <1>1, <2>1
    <3>2. j \in hits
      BY <1>1, <2>2, <3>1
    <3>3. i <= j
      BY <1>3, <3>2 DEF i
    <3> QED BY <1>1, <3>1, <3>3
  <2> QED BY <1>1, <2>1, <2>2
<1>5. (CHOOSE i \in DOMAIN list : First(i)) \in 1..Len(list)
  BY <1>1, <1>4
<1>6. Preference(tags, list) = Len(list) + 1 - (CHOOSE i \in DOMAIN list : First(i))
  BY DEF Preference
<1> HIDE DEF First
<1> QED BY <1>1, <1>5, <1>6

\* compatibility_score is positive just for the wheels that is_compatible
\* accepts.
LEMMA ScoreOfCompatible ==
    ASSUME NEW h \in Hosts, Ordinary(h), NEW parts
    PROVE  /\ CompatibilityScore(h, parts) \in Nat
           /\ CompatibilityScore(h, parts) > 0 <=> IsCompatible(h, parts)
<1>1. CASE ~IsCompatible(h, parts)
  BY <1>1 DEF CompatibilityScore
<1>2. CASE IsCompatible(h, parts)
  <2> DEFINE preference == [k \in 1..3 |->
      Preference(TagFields(parts)[k], Supported[h][k])]
  <2>1. \A k \in 1..3 : /\ TagFields(parts)[k] \cap SupportedSet[h][k] # {}
                        /\ SupportedSet[h][k] = ToSet(Supported[h][k])
    BY <1>2, SupportedAre DEF IsCompatible
  <2>2. \A k \in 1..3 : IsSequence(Supported[h][k])
    <3>1. IsSequence(PythonTags(h)) /\ IsSequence(AbiTags(h))
          /\ IsSequence(PlatformTags(h))
      BY PythonTagsAre, AbiTagsAre, PlatformTagsRun DEF Ordinary
    <3> QED BY <3>1, SupportedAre
  <2>3. \A k \in 1..3 : preference[k] \in Nat
    BY <2>1, <2>2, PreferenceType
  <2>4. CompatibilityScore(h, parts) =
        1 + preference[3] * 10000 + preference[2] * 100 + preference[1]
    BY <1>2 DEF CompatibilityScore, Weighed
  <2> HIDE DEF preference
  <2>5. preference[1] \in Nat /\ preference[2] \in Nat /\ preference[3] \in Nat
    BY <2>3
  <2> QED BY <1>2, <2>4, <2>5
<1> QED BY <1>1, <1>2

\* The file that wheel_dist or find_wheel_url_json picks is one of those it
\* looks at, and is accepted.
LEMMA BestFileIs ==
    ASSUME NEW h \in Hosts, NEW p \in Package,
           NEW places \in SUBSET DOMAIN Files[p]
    PROVE  \/ BestFile(p, places, h) = None
           \/ \E i \in places : /\ BestFile(p, places, h) = Files[p][i]
                                /\ IsCompatible(h, Files[p][i].parts)
<1> DEFINE Score(i) == Scores[h][p][i]
           best == {i \in places : /\ Score(i) > 0
                                   /\ \A j \in places : Score(j) < Score(i)
                                        \/ (Score(j) = Score(i) /\ i <= j)}
<1>1. BestFile(p, places, h) = IF best = {} THEN None
      ELSE Files[p][CHOOSE i \in best : TRUE]
  BY DEF BestFile, Highest
<1>2. \A i \in places : Score(i) > 0 => IsCompatible(h, Files[p][i].parts)
  BY DEF Scores, CompatibilityScore
<1> HIDE DEF Score
<1> QED BY <1>1, <1>2

\* One is picked whenever one is accepted: among finitely many positive scores
\* there is a highest, and among its files a first.
LEMMA BestFileFits ==
    ASSUME NEW h \in Hosts, Ordinary(h), NEW p \in Package,
           NEW places \in SUBSET DOMAIN Files[p]
    PROVE  /\ \/ BestFile(p, places, h) = None
              \/ \E i \in places : BestFile(p, places, h) = Files[p][i]
                   /\ IsCompatible(h, Files[p][i].parts)
           /\ (\E i \in places : IsCompatible(h, Files[p][i].parts)) =>
                 \E i \in places : BestFile(p, places, h) = Files[p][i]
                     /\ IsCompatible(h, Files[p][i].parts)
<1> DEFINE Score(i) == Scores[h][p][i]
           best == {i \in places : /\ Score(i) > 0
                                   /\ \A j \in places : Score(j) < Score(i)
                                        \/ (Score(j) = Score(i) /\ i <= j)}
<1>1. BestFile(p, places, h) = IF best = {} THEN None
      ELSE Files[p][CHOOSE i \in best : TRUE]
  BY DEF BestFile, Highest
<1>2. \A i \in places : Score(i) \in Nat
      /\ (Score(i) > 0 <=> IsCompatible(h, Files[p][i].parts))
  BY ScoreOfCompatible DEF Scores
<1> HIDE DEF Score
<1>3. best # {} =>
      \E i \in places : BestFile(p, places, h) = Files[p][i]
          /\ IsCompatible(h, Files[p][i].parts)
  <2> SUFFICES ASSUME best # {}
               PROVE  \E i \in places : BestFile(p, places, h) = Files[p][i]
                   /\ IsCompatible(h, Files[p][i].parts)
    OBVIOUS
  <2>1. (CHOOSE i \in best : TRUE) \in best
    OBVIOUS
  <2> QED BY <1>1, <1>2, <2>1
<1>4. ASSUME NEW i \in places, Score(i) > 0 PROVE best # {}
  <2> DEFINE scores == {Score(j) : j \in places}
  <2>1. IsFiniteSet(places) /\ places \in SUBSET Nat
    <3>1. DOMAIN Files[p] = 1..Len(Files[p]) /\ Len(Files[p]) \in Nat
      BY LockingAssumption
    <3>2. IsFiniteSet(DOMAIN Files[p]) /\ DOMAIN Files[p] \subseteq Nat
      BY <3>1, FS_Interval
    <3> QED BY <3>2, FS_Subset
  <2>2. scores \in SUBSET Nat /\ Score(i) \in scores
    BY <1>2
  <2>3. IsFiniteSet(scores)
    <3> DEFINE f == [j \in places |-> Score(j)]
    <3>1. f \in Surjection(places, scores)
      BY DEF Surjection
    <3> QED BY <2>1, <3>1, FS_Surjection
  <2>4. PICK top \in scores : \A x \in scores : top >= x
    <3> HIDE DEF scores
    <3>1. PICK s \in [1..Cardinality(scores) -> scores] :
             /\ ToSet(s) = scores
             /\ \A j, k \in 1..Cardinality(scores) : j < k => s[j] > s[k]
      BY <2>2, <2>3, ListedFalling
    <3>2. Cardinality(scores) \in Nat \ {0}
      BY <2>2, <2>3, FS_CardinalityType, FS_EmptySet
    <3>3. ASSUME NEW x \in scores PROVE s[1] >= x
      <4>1. PICK k \in 1..Cardinality(scores) : x = s[k]
        BY <3>1 DEF ToSet
      <4>2. 1 \in 1..Cardinality(scores)
        BY <3>2
      <4>3. s[1] \in Nat /\ s[k] \in Nat
        BY <2>2, <3>1, <4>1, <4>2
      <4>4. CASE k = 1
        BY <4>1, <4>3, <4>4
      <4>5. CASE k # 1
        <5>1. 1 < k
          BY <3>2, <4>5
        <5>2. s[1] > s[k]
          BY <3>1, <4>2, <5>1
        <5> QED BY <4>1, <4>3, <5>2
      <4> QED BY <4>4, <4>5
    <3> QED BY <3>1, <3>2, <3>3
  <2> DEFINE holders == {j \in places : Score(j) = top}
  <2>5. holders \in SUBSET Nat /\ holders # {}
    BY <2>1, <2>4
  <2>6. Min(holders) \in holders /\ \A x \in holders : Min(holders) <= x
    BY <2>5, MinOfNat
  <2>7. PICK m \in places : Score(m) = top /\ \A x \in places : Score(x) = top => m <= x
    BY <2>6
  <2>8. top \in Nat /\ top > 0
    BY <1>4, <2>2, <2>4
  <2>9. ASSUME NEW j \in places
        PROVE  Score(j) < Score(m) \/ (Score(j) = Score(m) /\ m <= j)
    <3>1. Score(j) \in Nat /\ top >= Score(j)
      BY <1>2, <2>4
    <3> QED BY <2>7, <2>8, <3>1
  <2>10. m \in best
    BY <2>7, <2>8, <2>9
  <2> QED BY <2>10
<1> QED BY <1>1, <1>2, <1>3, <1>4

-----------------------------------------------------------------------------

\* What a run of the resolver leaves.
Result ==
    [host : Hosts, choice : [Package -> UNION {Listed(p) : p \in Package} \cup {None}],
     taken : UNION {[S -> Hosts] : S \in SUBSET Package}]

\* The versions of a resolution are candidates of its host, and it knows for
\* each whose metadata it took.
ResultInv(r) ==
    /\ r \in Result
    /\ \A p \in Chosen(r.choice) : r.choice[p] \in Candidates[r.host][p]
    /\ DOMAIN r.taken = Chosen(r.choice)

\* There is at most one resolution for each environment.
ResultsInv ==
    /\ results \in Seq(Result)
    /\ \A i \in DOMAIN results : ResultInv(results[i])
    /\ Universal => Len(results) <= Len(project.environments)

\* The interpreters, and the environments that are cached of them, are of
\* hosts.
PathInv ==
    /\ DOMAIN interpreters = DOMAIN Interpreters
    /\ \A path \in DOMAIN interpreters :
          interpreters[path] \in Range(Interpreters) \cup Upgrades
    /\ cached \in [DOMAIN interpreters -> [host : Hosts, fresh : BOOLEAN] \cup {None}]

\* Metadata is cached of listed versions, as some host selected it.
StoredInv ==
    \A pair \in DOMAIN stored :
        pair[1] \in Package /\ pair[2] \in Listed(pair[1]) /\ stored[pair] \in Hosts

\* The lock is the merge of all resolutions, and they are over when it is
\* there.
LockInv ==
    lock # None =>
        /\ lock = Merged
        /\ results # <<>> /\ Len(results) >= Len(project.environments)

\* An archive is of a file of its version.
ArchivesInv ==
    \A pair \in DOMAIN archives : archives[pair] \in FilesOf(pair[1], pair[2])

\* The last install took the entries whose markers hold on its host, and what
\* it downloaded is compatible with that host.
InstalledInv ==
    installed # None =>
        /\ lock # None
        /\ installed.host \in Hosts
        /\ {<<e.name, e.version>> : e \in installed.packages}
             = {<<e.name, e.version>> : e \in PackagesForEnv(installed.host)}
        /\ \A package \in installed.packages :
              (package.wheel # None /\ ~package.reused) =>
                 IsCompatible(installed.host, package.wheel.parts)

\* The inductive invariant.
Inv ==
    /\ project \in Projects /\ faults \in 0..MaxFaults
    /\ ResultsInv /\ PathInv /\ StoredInv /\ LockInv /\ ArchivesInv
    /\ InstalledInv

\* Whatever is detected at a path is a host.
LEMMA HostsOfPath ==
    ASSUME project \in Projects, PathInv, NEW path \in DOMAIN interpreters
    PROVE  /\ Current \in Hosts /\ Probed(path) \in Hosts
           /\ Detectable(path) \subseteq Hosts
           /\ cached[path] # None => cached[path] \in [host : Hosts, fresh : BOOLEAN]
<1>1. Current \in Hosts
  BY LockingAssumption DEF Current
<1>2. Probed(path) \in Hosts
  BY LockingAssumption DEF Probed, PathInv, Current
<1>3. cached[path] # None => cached[path] \in [host : Hosts, fresh : BOOLEAN]
  BY DEF PathInv
<1> QED BY <1>1, <1>2, <1>3 DEF Detectable

\* detect_with caches a host.
LEMMA DetectKeeps ==
    ASSUME project \in Projects, PathInv, faults \in 0..MaxFaults,
           NEW path \in DOMAIN interpreters, NEW h, Detect(path, h),
           UNCHANGED <<project, interpreters>>
    PROVE  PathInv' /\ faults' \in 0..MaxFaults /\ h \in Hosts
<1>1. CASE /\ cached[path] # None /\ cached[path].fresh /\ h = cached[path].host
           /\ UNCHANGED <<cached, faults>>
  BY <1>1, HostsOfPath DEF PathInv
<1>2. CASE /\ h = Probed(path) /\ UNCHANGED faults
           /\ cached' = [cached EXCEPT ![path] = [host |-> h, fresh |-> TRUE]]
  BY <1>2, HostsOfPath DEF PathInv
<1>3. CASE /\ h = Current /\ faults < MaxFaults /\ faults' = faults + 1
           /\ cached' = [cached EXCEPT ![path] = [host |-> h, fresh |-> TRUE]]
  BY <1>3, HostsOfPath, LockingAssumption DEF PathInv
<1> QED BY <1>1, <1>2, <1>3 DEF Detect

\* Metadata is taken as a host selected it.
LEMMA TakenForType ==
    ASSUME StoredInv, NEW h \in Hosts, NEW p, NEW v
    PROVE  TakenFor(p, v, h) \in Hosts
BY DEF TakenFor, StoredInv

\* A run of the resolver, before there is a lock.
LEMMA ResolveKeeps ==
    ASSUME Inv, NEW h \in Hosts, Resolve(h), lock = None,
           Universal => Len(results) < Len(project.environments)
    PROVE  ResultsInv' /\ StoredInv' /\ LockInv' /\ ArchivesInv' /\ InstalledInv'
<1>1. PICK s \in Resolutions(h) :
         /\ results' = Append(results, [host |-> h, choice |-> s,
                taken |-> [p \in Chosen(s) |-> TakenFor(p, s[p], h)]])
         /\ \E kept \in SUBSET {<<l.package, l.version>> : l \in project.metadata} :
               stored' = [pair \in DOMAIN stored \cup kept |->
                            IF pair \in DOMAIN stored THEN stored[pair] ELSE h]
  BY DEF Resolve
<1>2. UNCHANGED <<project, lock, interpreters, archives, installed>>
  BY DEF Resolve
<1> DEFINE new == [host |-> h, choice |-> s,
    taken |-> [p \in Chosen(s) |-> TakenFor(p, s[p], h)]]
<1>3. ResultInv(new)
  <2>1. /\ s \in [Package -> UNION {Candidates[h][p] : p \in Package} \cup {None}]
        /\ \A p \in Chosen(s) : s[p] \in Candidates[h][p]
    BY DEF Resolutions
  <2>2. \A p \in Package : Candidates[h][p] \subseteq Listed(p)
    BY DEF Candidates
  <2>3. s \in [Package -> UNION {Listed(p) : p \in Package} \cup {None}]
    BY <2>1, <2>2
  <2>4. Chosen(s) \subseteq Package
    BY DEF Chosen
  <2>5. [p \in Chosen(s) |-> TakenFor(p, s[p], h)] \in [Chosen(s) -> Hosts]
    BY TakenForType DEF Inv
  <2>6. new \in Result
    BY <2>3, <2>4, <2>5 DEF Result
  <2>7. new.choice = s /\ new.host = h /\ DOMAIN new.taken = Chosen(s)
    OBVIOUS
  <2> QED BY <2>1, <2>6, <2>7 DEF ResultInv
<1> HIDE DEF new
<1>4. results' = Append(results, new)
  BY <1>1 DEF new
<1>5. ResultsInv'
  <2>1. new \in Result /\ results \in Seq(Result)
    BY <1>3 DEF Inv, ResultsInv, ResultInv
  <2>2. /\ results' \in Seq(Result) /\ Len(results') = Len(results) + 1
        /\ DOMAIN results' = 1..(Len(results) + 1) /\ DOMAIN results = 1..Len(results)
        /\ Len(results) \in Nat
        /\ \A i \in 1..Len(results) : results'[i] = results[i]
        /\ results'[Len(results) + 1] = new
    BY <1>4, <2>1, AppendProperties, LenProperties
  <2>3. \A i \in DOMAIN results' : ResultInv(results'[i])
    BY <1>3, <2>2 DEF Inv, ResultsInv
  <2>4. Universal' => Len(results') <= Len(project'.environments)
    BY <1>2, <2>2, LockingAssumption DEF Universal, Inv
  <2> QED BY <2>2, <2>3, <2>4 DEF ResultsInv, ResultInv
<1>6. StoredInv'
  BY <1>1, LockingAssumption DEF Inv, StoredInv
<1>7. LockInv' /\ ArchivesInv' /\ InstalledInv'
  BY <1>2 DEF Inv, LockInv, ArchivesInv, InstalledInv, PackagesForEnv
<1> QED BY <1>5, <1>6, <1>7

\* An entry names a version that is listed, and a wheel of it or none.
LEMMA EntryIs ==
    ASSUME NEW i \in DOMAIN results, ResultInv(results[i]),
           NEW p \in Chosen(results[i].choice), NEW m
    PROVE  LET e == Entry(i, p, m)
           IN  /\ e.name = p /\ e.marker = m /\ p \in Package
               /\ e.version = results[i].choice[p] /\ e.version \in Listed(p)
               /\ e.wheel = None \/ e.wheel \in FilesOf(e.name, e.version)
<1> DEFINE v == results[i].choice[p]
           w == WheelDist(p, v, results[i].host)
<1>1. p \in Package /\ results[i].host \in Hosts
  BY DEF Chosen, ResultInv, Result
<1>2. v \in Listed(p)
  BY <1>1 DEF ResultInv, Candidates
<1>3. w = None \/ w \in FilesOf(p, v)
  <2> DEFINE places == {k \in Places(p, v) : ~Files[p][k].yanked}
  <2>3. places \in SUBSET DOMAIN Files[p]
    BY DEF Places
  <2>1. w = BestFile(p, places, results[i].host)
    BY DEF WheelDist
  <2> HIDE DEF w, v
  <2>2. w = None \/ \E k \in places : w = Files[p][k]
    <3> HIDE DEF places
    <3>1. \/ BestFile(p, places, results[i].host) = None
          \/ \E k \in places : BestFile(p, places, results[i].host) = Files[p][k]
      BY <1>1, <2>3, BestFileIs
    <3> QED BY <2>1, <3>1
  <2> QED BY <2>2 DEF FilesOf
<1>4. Entry(i, p, m) = [name |-> p, version |-> v, marker |-> m, wheel |-> w]
  BY DEF Entry
<1> HIDE DEF v, w
<1> QED BY <1>1, <1>2, <1>3, <1>4 DEF v

\* Every entry of the lock is one of some resolution.
LEMMA MergedEntries ==
    ASSUME ResultsInv, results # <<>>, NEW e \in Merged
    PROVE  \E i \in DOMAIN results : \E p \in Chosen(results[i].choice) : \E m :
        e = Entry(i, p, m)
<1>1. 1 \in DOMAIN results
  BY EmptySeq, LenProperties DEF ResultsInv
<1>2. CASE ~Universal
  BY <1>1, <1>2 DEF Merged
<1>3. CASE e \in MergeRequiresPython
  BY <1>3 DEF MergeRequiresPython, Marked
<1>4. CASE e \in MergeFewest
  <2>1. CASE Len(results) = 1
    BY <1>1, <1>4, <2>1 DEF MergeFewest, Marked
  <2>2. CASE Len(results) # 1
    <3>1. PICK i \in DOMAIN results : \E p \in Chosen(results[i].choice) :
             e = IF SameEverywhere(p) THEN Entry(1, p, None)
                 ELSE Entry(i, p, project.environments[i])
      BY <1>4, <2>2 DEF MergeFewest
    <3>2. \A p \in Chosen(results[i].choice) : SameEverywhere(p) =>
          p \in Chosen(results[1].choice)
      BY <1>1 DEF SameEverywhere, Chosen
    <3> QED BY <1>1, <3>1, <3>2
  <2> QED BY <2>1, <2>2
<1> QED BY <1>2, <1>3, <1>4 DEF Merged

\* So do all entries of the lock.
LEMMA LockEntries ==
    ASSUME ResultsInv, LockInv, lock # None, NEW e \in lock
    PROVE  /\ e.name \in Package /\ e.version \in Listed(e.name)
           /\ e.wheel = None \/ e.wheel \in FilesOf(e.name, e.version)
<1>1. PICK i \in DOMAIN results :
         \E p \in Chosen(results[i].choice) : \E m : e = Entry(i, p, m)
  BY MergedEntries DEF LockInv
<1>2. ResultInv(results[i])
  BY DEF ResultsInv
<1> QED BY <1>1, <1>2, EntryIs

\* A download that is kept is a file of the version and is compatible with
\* the host: it is the wheel of the lock or the one found in its place.
LEMMA VerifiedFits ==
    ASSUME NEW e, e.wheel = None \/ e.wheel \in FilesOf(e.name, e.version),
           e.name \in Package, NEW h \in Hosts,
           Verified(e, Downloaded(e, h)) # None
    PROVE  /\ Verified(e, Downloaded(e, h)) \in FilesOf(e.name, e.version)
           /\ IsCompatible(h, Verified(e, Downloaded(e, h)).parts)
<1>1. Verified(e, Downloaded(e, h)) = Downloaded(e, h)
  BY DEF Verified
<1>2. CASE e.wheel # None /\ IsCompatible(h, e.wheel.parts)
  BY <1>1, <1>2 DEF Downloaded
<1>3. CASE ~(e.wheel # None /\ IsCompatible(h, e.wheel.parts))
  <2>1. Verified(e, Downloaded(e, h)) = FallbackWheel(e.name, e.version, h)
    BY <1>1, <1>3 DEF Downloaded
  <2>2. Places(e.name, e.version) \in SUBSET DOMAIN Files[e.name]
    BY DEF Places
  <2> QED BY <2>1, <2>2, BestFileIs DEF FallbackWheel, FilesOf
<1> QED BY <1>2, <1>3

\* The lock is written once.
LEMMA WriteLockKeeps ==
    ASSUME Inv, WriteLock
    PROVE  Inv'
<1>1. LockInv'
  BY DEF WriteLock, LockInv, Merged, Universal, MergeFewest, MergeRequiresPython,
         Marked, Entry, SameEverywhere
<1>2. ResultsInv' /\ PathInv' /\ StoredInv' /\ ArchivesInv'
  BY DEF WriteLock, Inv, ResultsInv, PathInv, StoredInv, ArchivesInv, Universal
<1>3. InstalledInv'
  BY DEF WriteLock, Inv, InstalledInv
<1> QED BY <1>1, <1>2, <1>3 DEF WriteLock, Inv

\* An install changes what is unpacked and installed.
LEMMA InstallKeeps ==
    ASSUME Inv, NEW path \in DOMAIN interpreters, Install(path)
    PROVE  Inv'
<1>1. PICK h \in Detectable(path) :
         LET packages == {Placed(e, h) : e \in PackagesForEnv(h)}
         IN  /\ Detect(path, h)
             /\ installed' = [host |-> h, packages |-> packages]
             /\ archives' = Archived(packages)
  BY DEF Install
<1> DEFINE packages == {Placed(e, h) : e \in PackagesForEnv(h)}
           unpacked == {p \in packages : ~p.reused /\ p.wheel # None}
<1>2. lock # None /\ UNCHANGED <<project, results, stored, lock, interpreters>>
  BY DEF Install
<1>3. PathInv' /\ faults' \in 0..MaxFaults /\ h \in Hosts
  BY <1>1, <1>2, DetectKeeps DEF Inv
<1>4. ASSUME NEW e \in PackagesForEnv(h)
      PROVE  /\ Placed(e, h).name = e.name /\ Placed(e, h).version = e.version
             /\ (~Placed(e, h).reused /\ Placed(e, h).wheel # None) =>
                   /\ Placed(e, h).wheel \in FilesOf(e.name, e.version)
                   /\ IsCompatible(h, Placed(e, h).wheel.parts)
  <2>1. e \in lock
    BY DEF PackagesForEnv
  <2>2. /\ e.wheel = None \/ e.wheel \in FilesOf(e.name, e.version)
        /\ e.name \in Package
    BY <1>2, <2>1, LockEntries DEF Inv
  <2> DEFINE reused == <<e.name, e.version>> \in DOMAIN archives
  <2>3. Placed(e, h) = [name |-> e.name, version |-> e.version, reused |-> reused,
                        wheel |-> IF reused THEN archives[<<e.name, e.version>>]
                            ELSE Verified(e, Downloaded(e, h))]
    BY DEF Placed
  <2> HIDE DEF reused
  <2> QED BY <1>3, <2>2, <2>3, VerifiedFits
<1>5. installed' = [host |-> h, packages |-> packages]
  BY <1>1
<1>6. archives' =
      [pair \in DOMAIN archives \cup {<<p.name, p.version>> : p \in unpacked} |->
                    IF pair \in DOMAIN archives THEN archives[pair]
                    ELSE (CHOOSE p \in unpacked : <<p.name, p.version>> = pair).wheel]
  BY <1>1 DEF Archived
<1>7. \A p \in packages : \E e \in PackagesForEnv(h) : p = Placed(e, h)
  OBVIOUS
<1>8. {<<p.name, p.version>> : p \in packages} =
      {<<e.name, e.version>> : e \in PackagesForEnv(h)}
  BY <1>4
<1>9. \A p \in unpacked : p.wheel \in FilesOf(p.name, p.version)
      /\ IsCompatible(h, p.wheel.parts)
  BY <1>4, <1>7
<1>10. InstalledInv'
  <2>1. PackagesForEnv(h)' = PackagesForEnv(h)
    BY <1>2 DEF PackagesForEnv
  <2>2. \A package \in packages : (package.wheel # None /\ ~package.reused) =>
        IsCompatible(h, package.wheel.parts)
    BY <1>9
  <2> HIDE DEF packages, unpacked
  <2> QED BY <1>2, <1>3, <1>5, <1>8, <2>1, <2>2 DEF InstalledInv
<1>11. ArchivesInv'
  <2> SUFFICES ASSUME NEW pair \in DOMAIN archives', pair \notin DOMAIN archives
               PROVE  archives'[pair] \in FilesOf(pair[1], pair[2])
    BY <1>6 DEF Inv, ArchivesInv
  <2>1. \E p \in unpacked : <<p.name, p.version>> = pair
    BY <1>6
  <2>2. PICK p \in unpacked : <<p.name, p.version>> = pair /\ archives'[pair] = p.wheel
    BY <1>6, <2>1
  <2> QED BY <1>9, <2>2
<1>12. ResultsInv' /\ StoredInv' /\ LockInv'
  BY <1>2 DEF Inv, ResultsInv, StoredInv, LockInv, Merged, Universal, MergeFewest,
              MergeRequiresPython, Marked, Entry, SameEverywhere
<1> QED BY <1>2, <1>3, <1>10, <1>11, <1>12 DEF Inv

\* The lock stays the merge of the resolutions because no action changes them
\* after it was written, nor the project that the merge depends on.
LEMMA InvKept ==
    ASSUME Inv, [Next]_vars
    PROVE  Inv'
<1>1. CASE ResolveEnvironment
  <2> DEFINE h == ForPython(project.environments[Len(results) + 1].minor)
  <2>1. lock = None /\ Len(results) < Len(project.environments) /\ Resolve(h)
        /\ UNCHANGED <<cached, faults>>
    BY <1>1 DEF ResolveEnvironment
  <2>2. h \in Hosts
    <3>1. Len(results) + 1 \in DOMAIN project.environments
      BY <2>1, LockingAssumption, LenProperties DEF Inv, ResultsInv
    <3> QED BY <3>1, LockingAssumption DEF Inv, ForPython, Current, ToSet
  <2> HIDE DEF h
  <2>3. ResultsInv' /\ StoredInv' /\ LockInv' /\ ArchivesInv' /\ InstalledInv'
    BY <2>1, <2>2, ResolveKeeps
  <2> QED BY <2>1, <2>3 DEF Inv, PathInv, Resolve
<1>2. CASE WriteLock
  BY <1>2, WriteLockKeeps
<1>3. ASSUME NEW path \in DOMAIN interpreters, ResolveSingle(path) PROVE Inv'
  <2>1. PICK h \in Detectable(path) : Detect(path, h) /\ Resolve(h)
    BY <1>3 DEF ResolveSingle
  <2>2. lock = None /\ ~Universal
    BY <1>3 DEF ResolveSingle
  <2>3. UNCHANGED <<project, interpreters>>
    BY <2>1 DEF Resolve
  <2>4. PathInv' /\ faults' \in 0..MaxFaults /\ h \in Hosts
    BY <2>1, <2>3, DetectKeeps DEF Inv
  <2>5. ResultsInv' /\ StoredInv' /\ LockInv' /\ ArchivesInv' /\ InstalledInv'
    BY <2>1, <2>2, <2>4, ResolveKeeps
  <2> QED BY <2>3, <2>4, <2>5 DEF Inv
<1>4. ASSUME NEW path \in DOMAIN interpreters, Install(path) PROVE Inv'
  BY <1>4, InstallKeeps
<1>5. ASSUME UNCHANGED <<project, results, stored, lock, archives, installed>>,
             PathInv', faults' \in 0..MaxFaults
      PROVE  Inv'
  BY <1>5 DEF Inv, ResultsInv, StoredInv, LockInv, ArchivesInv, InstalledInv,
              PackagesForEnv, Merged, Universal, MergeFewest,
              MergeRequiresPython, Marked, Entry, SameEverywhere
<1>6. ASSUME NEW path \in DOMAIN interpreters, Expire(path) PROVE Inv'
  <2>1. PathInv' /\ faults' \in 0..MaxFaults
    BY <1>6 DEF Expire, Inv, PathInv
  <2> QED BY <1>5, <1>6, <2>1 DEF Expire
<1>7. ASSUME NEW path \in DOMAIN interpreters, Upgrade(path) PROVE Inv'
  <2>1. PathInv' /\ faults' \in 0..MaxFaults
    BY <1>7, LockingAssumption DEF Upgrade, Inv, PathInv
  <2> QED BY <1>5, <1>7, <2>1 DEF Upgrade
<1>8. CASE UNCHANGED vars
  BY <1>5, <1>8 DEF vars, Inv, PathInv
<1> QED BY <1>1, <1>2, <1>3, <1>4, <1>6, <1>7, <1>8 DEF Next

\* The invariant holds.
LEMMA InvHolds == Spec => []Inv
<1>1. Init => Inv
  <2> SUFFICES ASSUME Init PROVE Inv
    OBVIOUS
  <2>1. ResultsInv
    BY DEF Init, ResultsInv
  <2>2. PathInv
    BY DEF Init, PathInv, Range
  <2>3. faults \in 0..MaxFaults
    BY LockingAssumption DEF Init
  <2> QED BY <2>1, <2>2, <2>3 DEF Init, Inv, StoredInv, LockInv, ArchivesInv,
      InstalledInv
<1> QED BY <1>1, InvKept, PTL DEF Spec

\* It gives every variable its type.
LEMMA InvTypeOK == Inv => TypeOK
<1> SUFFICES ASSUME Inv PROVE TypeOK
  OBVIOUS
<1>1. ASSUME NEW i \in DOMAIN results
      PROVE  /\ results[i].host \in Hosts
             /\ \A p \in Chosen(results[i].choice) : results[i].choice[p] \in Listed(p)
  BY DEF Inv, ResultsInv, ResultInv, Result, Chosen, Candidates
<1>2. ASSUME lock # None, NEW e \in lock
      PROVE  /\ e.version \in Listed(e.name)
             /\ e.wheel = None \/ e.wheel \in ToSet(Files[e.name])
  <2>1. /\ e.version \in Listed(e.name)
        /\ e.wheel = None \/ e.wheel \in FilesOf(e.name, e.version)
    BY <1>2, LockEntries DEF Inv
  <2> QED BY <2>1 DEF FilesOf, Places, ToSet
<1>3. DOMAIN cached = DOMAIN interpreters
  BY DEF Inv, PathInv
<1>4. ASSUME NEW path \in DOMAIN interpreters
      PROVE  Probed(path) \in Hosts
          /\ (cached[path] # None => cached[path].host \in Hosts)
  <2>1. cached[path] # None => cached[path] \in [host : Hosts, fresh : BOOLEAN]
    BY HostsOfPath DEF Inv
  <2> QED BY <2>1, HostsOfPath DEF Inv
<1> QED BY <1>1, <1>2, <1>3, <1>4 DEF Inv, StoredInv, ArchivesInv, InstalledInv, TypeOK

\* Every variable of the pipeline has its type, for any index, projects, hosts
\* and number of faults.
THEOREM TypeCorrect == Spec => []TypeOK
BY InvHolds, InvTypeOK, PTL

\* What was checked to be compatible runs.
LEMMA InvDownloadsUsable == OrdinaryHosts /\ Inv => DownloadsUsable
<1> SUFFICES ASSUME OrdinaryHosts, Inv, installed # None,
                    NEW package \in installed.packages,
                    package.wheel # None /\ ~package.reused
             PROVE  Usable(installed.host, package.wheel.parts)
  BY DEF DownloadsUsable
<1>1. installed.host \in Hosts /\ IsCompatible(installed.host, package.wheel.parts)
  BY DEF Inv, InstalledInv
<1> QED BY <1>1, CompatibleIsUsable DEF OrdinaryHosts

\* On hosts of which the code knows what they run, no wheel is downloaded that
\* does not run on the host that was detected, whichever environment the lock
\* was made in and whatever was detected there before.
THEOREM DownloadsRun ==
    ASSUME OrdinaryHosts
    PROVE  Spec => []DownloadsUsable
<1>1. Inv => DownloadsUsable
  BY InvDownloadsUsable
<1> QED BY <1>1, InvHolds, PTL

\* packages_for_env undoes the merge: of the entries of all environments, those
\* with the marker of one and those without a marker are what was resolved for
\* it.  merge_fewest leaves out a marker only where all agree.
LEMMA PickedAsMerged ==
    ASSUME Inv, EnvironmentsRead, lock # None, NEW h \in Hosts, NEW i \in TargetsOf(h)
    PROVE  {<<e.name, e.version>> : e \in PackagesForEnv(h)}
             = {<<p, results[i].choice[p]>> : p \in Chosen(results[i].choice)}
<1> DEFINE env == project.environments
           n == Len(env)
           chosen == {<<p, results[i].choice[p]>> : p \in Chosen(results[i].choice)}
           picked == {<<e.name, e.version>> : e \in PackagesForEnv(h)}
<1>1. /\ i \in DOMAIN env /\ env[i].minor = h.minor /\ project \in Projects
      /\ \A e \in ToSet(env) : e.equals = 2
  BY DEF TargetsOf, Inv
<1>2. Universal
  BY <1>1 DEF Universal
<1>3. DOMAIN env = 1..n /\ n \in Nat
  BY <1>1, LockingAssumption
<1>4. DOMAIN results = 1..n /\ Len(results) = n
  <2>1. Len(results) = n
    BY <1>2, <1>3, LenProperties DEF Inv, ResultsInv, LockInv
  <2> QED BY <2>1, LenProperties DEF Inv, ResultsInv
<1>5. \A j \in 1..n : /\ env[j] # None
                      /\ Holds(MarkerTokens(env[j]), EnvironmentOf(h)) <=> j = i
  <2> TAKE j \in 1..n
  <2>1. env[j] \in ToSet(env)
    BY <1>3 DEF ToSet
  <2>2. env[j] # None
    BY <1>1, <2>1, LockingAssumption
  <2>3. Holds(MarkerTokens(env[j]), EnvironmentOf(h)) <=> env[j].minor = h.minor
    BY <1>1, <2>1 DEF EnvironmentsRead
  <2>4. env[j].minor = env[i].minor => j = i
    BY <1>1, <1>3 DEF EnvironmentsRead
  <2> QED BY <1>1, <2>2, <2>3, <2>4
<1>6. /\ results # <<>> /\ lock = Merged
      /\ \A j \in 1..n : ResultInv(results[j])
  BY <1>4 DEF Inv, LockInv, ResultsInv
<1> HIDE DEF env, n
<1>7. \A j \in 1..n, p \in Package : Entry(j, p, env[j]).marker = env[j]
  BY DEF Entry
<1>8. ASSUME NEW j \in 1..n, NEW p \in Chosen(results[j].choice), NEW m
      PROVE  /\ Entry(j, p, m).name = p /\ Entry(j, p, m).marker = m
             /\ Entry(j, p, m).version = results[j].choice[p]
  BY DEF Entry
<1>9. \A e \in lock : e \in PackagesForEnv(h) <=>
      (e.marker # None => Holds(MarkerTokens(e.marker), EnvironmentOf(h)))
  BY DEF PackagesForEnv
<1>10. \A e \in PackagesForEnv(h) : e \in lock
  BY DEF PackagesForEnv
<1>11. CASE lock = UNION {Marked(k) : k \in 1..n}
  <2>1. lock = UNION {Marked(k) : k \in 1..n}
    BY <1>11
  <2>2. ASSUME NEW e \in PackagesForEnv(h) PROVE <<e.name, e.version>> \in chosen
    <3>1. PICK j \in 1..n : \E p \in Chosen(results[j].choice) : e = Entry(j, p, env[j])
      BY <1>10, <2>1, <2>2 DEF Marked, env
    <3>2. PICK p \in Chosen(results[j].choice) : e = Entry(j, p, env[j])
      BY <3>1
    <3>3. j = i
      BY <1>5, <1>8, <1>9, <1>10, <2>2, <3>2
    <3> QED BY <1>8, <3>2, <3>3
  <2>3. ASSUME NEW p \in Chosen(results[i].choice)
        PROVE  <<p, results[i].choice[p]>> \in picked
    <3> DEFINE e == Entry(i, p, env[i])
    <3>1. i \in 1..n
      BY <1>1, <1>3
    <3>2. e \in lock
      BY <2>1, <3>1 DEF Marked, env
    <3>3. e \in PackagesForEnv(h)
      BY <1>5, <1>8, <1>9, <3>1, <3>2
    <3> QED BY <1>8, <3>1, <3>3
  <2> QED BY <2>2, <2>3
<1>12. CASE lock = UNION {{IF SameEverywhere(p) THEN Entry(1, p, None)
                           ELSE Entry(j, p, env[j]) :
                              p \in Chosen(results[j].choice)} : j \in 1..n}
  <2>1. i \in 1..n /\ 1 \in 1..n
    BY <1>1, <1>3
  <2>2. \A p \in Package : SameEverywhere(p) =>
            \A j \in 1..n : results[1].choice[p] = results[j].choice[p]
    BY <1>4, <2>1 DEF SameEverywhere
  <2>3. \A j \in 1..n : Chosen(results[j].choice) =
        {p \in Package : results[j].choice[p] # None}
    BY DEF Chosen
  <2>4. ASSUME NEW e \in PackagesForEnv(h) PROVE <<e.name, e.version>> \in chosen
    <3>1. PICK j \in 1..n : \E p \in Chosen(results[j].choice) :
             e = IF SameEverywhere(p) THEN Entry(1, p, None) ELSE Entry(j, p, env[j])
      BY <1>10, <1>12, <2>4
    <3>2. PICK p \in Chosen(results[j].choice) :
             e = IF SameEverywhere(p) THEN Entry(1, p, None) ELSE Entry(j, p, env[j])
      BY <3>1
    <3>3. CASE SameEverywhere(p)
      <4>1. p \in Chosen(results[1].choice) /\ p \in Chosen(results[i].choice)
            /\ results[1].choice[p] = results[i].choice[p]
        BY <2>1, <2>2, <2>3, <3>2, <3>3
      <4> QED BY <1>8, <2>1, <3>2, <3>3, <4>1
    <3>4. CASE ~SameEverywhere(p)
      <4>1. e = Entry(j, p, env[j])
        BY <3>2, <3>4
      <4>2. j = i
        BY <1>5, <1>8, <1>9, <1>10, <2>4, <4>1
      <4> QED BY <1>8, <4>1, <4>2
    <3> QED BY <3>3, <3>4
  <2>5. ASSUME NEW p \in Chosen(results[i].choice)
        PROVE  <<p, results[i].choice[p]>> \in picked
    <3> DEFINE e == IF SameEverywhere(p) THEN Entry(1, p, None) ELSE Entry(i, p, env[i])
    <3>1. e \in lock
      BY <1>12, <2>1
    <3>2. CASE SameEverywhere(p)
      <4>1. p \in Chosen(results[1].choice)
            /\ results[1].choice[p] = results[i].choice[p]
        BY <2>1, <2>2, <2>3, <3>2
      <4>2. e = Entry(1, p, None)
        BY <3>2
      <4> HIDE DEF e
      <4>3. e.marker = None /\ e.name = p /\ e.version = results[i].choice[p]
        BY <1>8, <2>1, <4>1, <4>2
      <4>4. e \in PackagesForEnv(h)
        BY <1>9, <3>1, <4>3
      <4> QED BY <4>3, <4>4
    <3>3. CASE ~SameEverywhere(p)
      <4>2. e = Entry(i, p, env[i])
        BY <3>3
      <4> HIDE DEF e
      <4>3. e.marker = env[i] /\ e.name = p /\ e.version = results[i].choice[p]
        BY <1>8, <2>1, <4>2
      <4>4. e \in PackagesForEnv(h)
        BY <1>5, <1>9, <2>1, <3>1, <4>3
      <4> QED BY <4>3, <4>4
    <3> QED BY <3>2, <3>3
  <2> QED BY <2>4, <2>5
<1>13. \/ lock = UNION {Marked(k) : k \in 1..n}
       \/ lock = UNION {{IF SameEverywhere(p) THEN Entry(1, p, None)
            ELSE Entry(j, p, env[j]) :
                              p \in Chosen(results[j].choice)} : j \in 1..n}
  <2>1. CASE project.strategy # "fewest"
    BY <1>2, <1>4, <1>6, <2>1 DEF Merged, MergeRequiresPython
  <2>2. CASE project.strategy = "fewest" /\ n = 1
    <3>1. lock = Marked(1)
      BY <1>2, <1>4, <1>6, <2>2 DEF Merged, MergeFewest
    <3>2. 1..n = {1}
      BY <2>2
    <3> QED BY <3>1, <3>2
  <2>3. CASE project.strategy = "fewest" /\ n # 1
    BY <1>2, <1>4, <1>6, <2>3 DEF Merged, MergeFewest, env
  <2> QED BY <2>1, <2>2, <2>3
<1> QED BY <1>1, <1>3, <1>11, <1>12, <1>13

\* The install picked its entries from that lock.
LEMMA InvInstalledAsResolved == EnvironmentsRead /\ Inv => InstalledAsResolved
<1> SUFFICES ASSUME EnvironmentsRead, Inv, installed # None,
                    NEW i \in TargetsOf(installed.host)
             PROVE  {<<e.name, e.version>> : e \in installed.packages}
                       = {<<p, results[i].choice[p]>> : p \in Chosen(results[i].choice)}
  BY DEF InstalledAsResolved
<1>1. /\ lock # None /\ installed.host \in Hosts
      /\ {<<e.name, e.version>> : e \in installed.packages}
             = {<<e.name, e.version>> : e \in PackagesForEnv(installed.host)}
  BY DEF Inv, InstalledInv
<1> QED BY <1>1, PickedAsMerged

\* An install for an environment of the project picks just the packages and
\* versions that were resolved for it, for any number of environments and both
\* strategies, when each environment has its own Python.
THEOREM InstallsAsResolved ==
    ASSUME EnvironmentsRead
    PROVE  Spec => []InstalledAsResolved
<1>1. Inv => InstalledAsResolved
  BY InvInstalledAsResolved
<1> QED BY <1>1, InvHolds, PTL

-----------------------------------------------------------------------------
\* The key by which a final version is ordered: its numbers, padded to three,
\* and then what all final versions have in common.
LEMMA ShortKey ==
    ASSUME NEW release, NEW k \in {2, 3}, release \in [1..k -> 0..99]
    PROVE  LET key == PublicKey(FinalVersion(release), 3)
           IN  /\ DOMAIN key = 1..8 /\ key[1] = 0
               /\ key[2] = release[1] /\ key[3] = release[2]
               /\ key[4] = IF k = 3 THEN release[3] ELSE 0
               /\ key[5] = 3 /\ key[6] = 0 /\ key[7] = 0 /\ key[8] = MaxU32 + 1
<1> DEFINE v == FinalVersion(release)
           s == [i \in 1..3 |-> Segment(v, i)]
<1>1. /\ v.epoch = 0 /\ v.release = release
      /\ v.pre = None /\ v.post = None /\ v.dev = None
  BY DEF FinalVersion
<1>2. PublicKey(v, 3) = <<0>> \o s \o <<3, 0>> \o <<0, MaxU32 + 1>>
  BY <1>1 DEF PublicKey, PreKey, PostKey, DevKey
<1>3. s = <<release[1], release[2], IF k = 3 THEN release[3] ELSE 0>>
  <2>1. Segment(v, 1) = release[1] /\ Segment(v, 2) = release[2]
        /\ Segment(v, 3) = IF k = 3 THEN release[3] ELSE 0
    BY <1>1 DEF Segment
  <2> QED BY <2>1
<1> HIDE DEF v, s
<1>4. PublicKey(v, 3) =
         <<0, release[1], release[2], IF k = 3 THEN release[3] ELSE 0,
           3, 0, 0, MaxU32 + 1>>
  BY <1>2, <1>3
<1> QED BY <1>4 DEF v

\* Keys that differ in three small numbers.
DifferInThree(a, b) ==
    /\ DOMAIN a = 1..8 /\ a[1] = b[1]
    /\ \A i \in 5..8 : a[i] = b[i] /\ a[i] \in Nat
    /\ \A i \in 1..4 : a[i] \in 0..99 /\ b[i] \in 0..99

\* They are ordered as those numbers are, read as one.
LEMMA KeyLessOfThree ==
    ASSUME NEW a, NEW b, DifferInThree(a, b)
    PROVE  KeyLess(a, b) <=>
              a[2] * 10000 + a[3] * 100 + a[4] < b[2] * 10000 + b[3] * 100 + b[4]
<1> USE DEF DifferInThree
<1>1. /\ a[1] \in 0..99 /\ a[2] \in 0..99 /\ a[3] \in 0..99 /\ a[4] \in 0..99
      /\ b[2] \in 0..99 /\ b[3] \in 0..99 /\ b[4] \in 0..99
  OBVIOUS
<1>2. ASSUME KeyLess(a, b)
      PROVE  a[2] < b[2] \/ (a[2] = b[2] /\ a[3] < b[3])
                \/ (a[2] = b[2] /\ a[3] = b[3] /\ a[4] < b[4])
  <2>1. PICK i \in 1..8 : a[i] < b[i] /\ \A j \in 1..(i - 1) : a[j] = b[j]
    BY <1>2 DEF KeyLess
  <2>2. i \in {2, 3, 4}
    <3>1. i # 1
      BY <1>1, <2>1
    <3>2. i \notin 5..8
      BY <2>1
    <3> QED BY <3>1, <3>2
  <2>3. CASE i = 2
    BY <2>1, <2>3
  <2>4. CASE i = 3
    <3>1. a[2] = b[2]
      BY <2>1, <2>4
    <3> QED BY <2>1, <2>4, <3>1
  <2>5. CASE i = 4
    <3>1. a[2] = b[2] /\ a[3] = b[3]
      BY <2>1, <2>5
    <3> QED BY <2>1, <2>5, <3>1
  <2> QED BY <2>2, <2>3, <2>4, <2>5
<1>3. ASSUME a[2] < b[2]
      PROVE  KeyLess(a, b)
  <2>1. \A j \in 1..(2 - 1) : a[j] = b[j]
    OBVIOUS
  <2>2. 2 \in DOMAIN a
    OBVIOUS
  <2> QED BY <1>3, <2>1, <2>2, Zenon DEF KeyLess
<1>4. ASSUME a[2] = b[2] /\ a[3] < b[3]
      PROVE  KeyLess(a, b)
  <2>1. \A j \in 1..(3 - 1) : a[j] = b[j]
    BY <1>4
  <2>2. 3 \in DOMAIN a
    OBVIOUS
  <2> QED BY <1>4, <2>1, <2>2, Zenon DEF KeyLess
<1>5. ASSUME a[2] = b[2] /\ a[3] = b[3] /\ a[4] < b[4]
      PROVE  KeyLess(a, b)
  <2>1. \A j \in 1..(4 - 1) : a[j] = b[j]
    BY <1>5
  <2>2. 4 \in DOMAIN a
    OBVIOUS
  <2> QED BY <1>5, <2>1, <2>2, Zenon DEF KeyLess
<1>6. KeyLess(a, b) <=> (a[2] < b[2] \/ (a[2] = b[2] /\ a[3] < b[3])
                \/ (a[2] = b[2] /\ a[3] = b[3] /\ a[4] < b[4]))
  BY <1>2, <1>3, <1>4, <1>5, Zenon
<1>7. a[2] * 10000 + a[3] * 100 + a[4] < b[2] * 10000 + b[3] * 100 + b[4]
         <=> (a[2] < b[2] \/ (a[2] = b[2] /\ a[3] < b[3])
                \/ (a[2] = b[2] /\ a[3] = b[3] /\ a[4] < b[4]))
  <2> DEFINE p == a[2]  q == a[3]  r == a[4]  x == b[2]  y == b[3]  z == b[4]
  <2>1. p \in 0..99 /\ q \in 0..99 /\ r \in 0..99 /\ x \in 0..99 /\ y \in 0..99
        /\ z \in 0..99
    BY <1>1
  <2> HIDE DEF p, q, r, x, y, z
  <2>2. p * 10000 + q * 100 + r < x * 10000 + y * 100 + z
         <=> (p < x \/ (p = x /\ q < y) \/ (p = x /\ q = y /\ r < z))
    BY <2>1
  <2> QED BY <2>2 DEF p, q, r, x, y, z
<1> QED BY <1>6, <1>7

\* Versions of Python are ordered by their sizes.
LEMMA ShortOrder ==
    ASSUME NEW k \in {2, 3}, NEW release \in [1..k -> 0..99],
           NEW minor \in 0..99, NEW micro \in 0..99
    PROVE  LET v == FinalVersion(<<3, minor, micro>>)
               w == FinalVersion(release)
           IN  /\ Less(v, w) <=> Size(<<3, minor, micro>>) < Size(release)
               /\ Less(w, v) <=> Size(release) < Size(<<3, minor, micro>>)
<1> DEFINE full == <<3, minor, micro>>
           v == FinalVersion(full)
           w == FinalVersion(release)
           a == PublicKey(v, 3)
           b == PublicKey(w, 3)
<1>1. /\ full \in [1..3 -> 0..99] /\ Len(full) = 3
      /\ full[1] = 3 /\ full[2] = minor /\ full[3] = micro
  <2>1. Len(full) = 3 /\ DOMAIN full = 1..3
        /\ full[1] = 3 /\ full[2] = minor /\ full[3] = micro
    OBVIOUS
  <2>2. full = [j \in 1..3 |-> full[j]]
    BY <2>1
  <2>3. \A j \in 1..3 : full[j] \in 0..99
    <3>1. full[1] \in 0..99 /\ full[2] \in 0..99 /\ full[3] \in 0..99
      BY <2>1
    <3>2. \A j \in 1..3 : j = 1 \/ j = 2 \/ j = 3
      OBVIOUS
    <3> HIDE DEF full
    <3> QED BY <3>1, <3>2, Zenon
  <2> HIDE DEF full
  <2> QED BY <2>1, <2>2, <2>3
<1>2. Len(release) = k
  OBVIOUS
<1>3. /\ v.release = full /\ v.local = <<>> /\ w.release = release /\ w.local = <<>>
  BY DEF FinalVersion
<1>4. Longest(v.release, w.release) = 3 /\ Longest(w.release, v.release) = 3
  <2> HIDE DEF full, v, w
  <2>1. Len(v.release) = 3 /\ Len(w.release) = k
    BY <1>1, <1>2, <1>3
  <2> QED BY <2>1 DEF Longest
<1> HIDE DEF full
<1>5. /\ DOMAIN a = 1..8 /\ a[1] = 0 /\ a[2] = 3 /\ a[3] = minor /\ a[4] = micro
      /\ a[5] = 3 /\ a[6] = 0 /\ a[7] = 0 /\ a[8] = MaxU32 + 1
  BY <1>1, ShortKey
<1>6. /\ DOMAIN b = 1..8 /\ b[1] = 0 /\ b[2] = release[1] /\ b[3] = release[2]
      /\ b[4] = IF k = 3 THEN release[3] ELSE 0
      /\ b[5] = 3 /\ b[6] = 0 /\ b[7] = 0 /\ b[8] = MaxU32 + 1
  BY ShortKey
<1>7. Size(full) = a[2] * 10000 + a[3] * 100 + a[4]
  BY <1>1, <1>5 DEF Size
<1>8. Size(release) = b[2] * 10000 + b[3] * 100 + b[4]
  BY <1>2, <1>6 DEF Size
<1>9. LocalLess(<<>>, <<>>) = FALSE
  BY DEF LocalLess
<1>10. (Less(v, w) <=> KeyLess(a, b)) /\ (Less(w, v) <=> KeyLess(b, a))
  BY <1>3, <1>4, <1>9 DEF Less, PublicLess
<1>11. MaxU32 + 1 \in Nat
  BY VersionsAssumption
<1> HIDE DEF v, w, a, b
<1>12. /\ a[1] = b[1] /\ \A i \in 5..8 : a[i] = b[i] /\ a[i] \in Nat /\ b[i] \in Nat
       /\ \A i \in 1..4 : a[i] \in 0..99 /\ b[i] \in 0..99
  <2>1. /\ a[1] = b[1] /\ a[5] = b[5] /\ a[6] = b[6] /\ a[7] = b[7] /\ a[8] = b[8]
        /\ a[5] \in Nat /\ a[6] \in Nat /\ a[7] \in Nat /\ a[8] \in Nat
    BY <1>5, <1>6, <1>11
  <2>2. /\ a[1] \in 0..99 /\ a[2] \in 0..99 /\ a[3] \in 0..99 /\ a[4] \in 0..99
    BY <1>5
  <2>3. /\ b[1] \in 0..99 /\ b[2] \in 0..99 /\ b[3] \in 0..99 /\ b[4] \in 0..99
    BY <1>6
  <2>4. \A i \in 5..8 : i \in {5, 6, 7, 8}
    OBVIOUS
  <2>5. \A i \in 1..4 : i \in {1, 2, 3, 4}
    OBVIOUS
  <2>6. \A i \in 5..8 : a[i] = b[i] /\ a[i] \in Nat /\ b[i] \in Nat
    BY <2>1, <2>4
  <2>7. \A i \in 1..4 : a[i] \in 0..99 /\ b[i] \in 0..99
    BY <2>2, <2>3, <2>5
  <2> QED BY <2>1, <2>6, <2>7
<1>13. KeyLess(a, b) <=>
           a[2] * 10000 + a[3] * 100 + a[4] < b[2] * 10000 + b[3] * 100 + b[4]
  <2>1. DOMAIN a = 1..8
    BY <1>5
  <2>2. a[1] = b[1] /\ \A i \in 5..8 : a[i] = b[i] /\ a[i] \in Nat
    BY <1>12
  <2>3. \A i \in 1..4 : a[i] \in 0..99 /\ b[i] \in 0..99
    BY <1>12
  <2>4. DifferInThree(a, b)
    BY <2>1, <2>2, <2>3 DEF DifferInThree
  <2> QED BY <2>4, KeyLessOfThree
<1>14. KeyLess(b, a) <=>
           b[2] * 10000 + b[3] * 100 + b[4] < a[2] * 10000 + a[3] * 100 + a[4]
  <2>1. DOMAIN b = 1..8
    BY <1>6
  <2>2. b[1] = a[1] /\ \A i \in 5..8 : b[i] = a[i] /\ b[i] \in Nat
    BY <1>12
  <2>3. \A i \in 1..4 : b[i] \in 0..99 /\ a[i] \in 0..99
    BY <1>12
  <2>4. DifferInThree(b, a)
    BY <2>1, <2>2, <2>3 DEF DifferInThree
  <2> QED BY <2>4, KeyLessOfThree
<1>15. /\ Less(v, w) <=> Size(full) < Size(release)
       /\ Less(w, v) <=> Size(release) < Size(full)
  BY <1>7, <1>8, <1>10, <1>13, <1>14
<1> QED BY <1>15 DEF v, w, full

\* A size is an integer.
LEMMA SizeType ==
    ASSUME NEW k \in {2, 3}, NEW release \in [1..k -> 0..99]
    PROVE  Size(release) \in Int
<1>1. Len(release) = k /\ \A i \in 1..k : release[i] \in 0..99
  OBVIOUS
<1>2. CASE k = 2
  <2> DEFINE x == release[1]
             y == release[2]
  <2>1. x \in 0..99 /\ y \in 0..99
    BY <1>1, <1>2
  <2>2. Size(release) = x * 10000 + y * 100 + 0
    BY <1>1, <1>2 DEF Size
  <2> HIDE DEF x, y
  <2> QED BY <2>1, <2>2
<1>3. CASE k = 3
  <2> DEFINE x == release[1]
             y == release[2]
             z == release[3]
  <2>1. x \in 0..99 /\ y \in 0..99 /\ z \in 0..99
    BY <1>1, <1>3
  <2>2. Size(release) = x * 10000 + y * 100 + z
    BY <1>1, <1>3 DEF Size
  <2> HIDE DEF x, y, z
  <2> QED BY <2>1, <2>2
<1> QED BY <1>2, <1>3

\* requires_python_ok lets pass what Requires-Python allows.
LEMMA AllowedIsAllowed ==
    ASSUME PlainRequires, NEW p \in Package, NEW f \in ToSet(Files[p]), NEW h \in Hosts,
           PythonAllowed(f, h)
    PROVE  Allows(f, h)
<1> SUFFICES ASSUME NEW c \in f.requires
             PROVE  IF c.op = ">="
                    THEN Size(<<3, h.minor, h.micro>>) >= Size(c.version.release)
                    ELSE Size(<<3, h.minor, h.micro>>) < Size(c.version.release)
  BY DEF Allows
<1> DEFINE v == FinalVersion(<<3, h.minor, h.micro>>)
<1>1. /\ h.minor \in 0..99 /\ h.micro \in 0..99 /\ c.op \in {">=", "<"}
      /\ c.version = FinalVersion(c.version.release)
      /\ c.version.release \in [1..2 -> 0..99] \cup [1..3 -> 0..99]
  BY DEF PlainRequires
<1>2. SatisfiedBy(c, v)
  BY DEF PythonAllowed, SatisfiedByAll
<1>3. PICK k \in {2, 3} : c.version.release \in [1..k -> 0..99]
  BY <1>1
<1>4. /\ Less(v, c.version) <=> Size(<<3, h.minor, h.micro>>) < Size(c.version.release)
      /\ Less(c.version, v) <=> Size(c.version.release) < Size(<<3, h.minor, h.micro>>)
  BY <1>1, <1>3, ShortOrder
<1>5. Size(<<3, h.minor, h.micro>>) \in Int /\ Size(c.version.release) \in Int
  <2> DEFINE x == h.minor
             y == h.micro
  <2>1. Size(<<3, x, y>>) = 3 * 10000 + x * 100 + y
    BY DEF Size
  <2>2. x \in 0..99 /\ y \in 0..99
    BY <1>1
  <2> HIDE DEF x, y
  <2>3. Size(<<3, x, y>>) \in Int
    BY <2>1, <2>2
  <2>4. Size(<<3, h.minor, h.micro>>) \in Int
    BY <2>3 DEF x, y
  <2> QED BY <1>3, <2>4, SizeType
<1>6. CASE c.op = ">="
  <2>1. ~Less(v, c.version)
    BY <1>2, <1>6 DEF SatisfiedBy, AtMost
  <2> QED BY <1>4, <1>5, <1>6, <2>1
<1>7. CASE c.op = "<"
  <2>1. Less(v, c.version)
    BY <1>2, <1>7 DEF SatisfiedBy
  <2> QED BY <1>4, <1>7, <2>1
<1> QED BY <1>1, <1>6, <1>7

\* Only wheels are compatible.
LEMMA CompatibleIsWheel ==
    ASSUME NEW h, NEW parts, IsCompatible(h, parts)
    PROVE  parts # <<>>
<1>1. TagFields(<<>>) = <<>>
  BY DEF TagFields
<1> QED BY <1>1 DEF IsCompatible

\* A version that version_is_viable accepts has a wheel that runs and allows
\* the Python of the host, and the wheel that the lock gets is such a one or
\* another that runs.
LEMMA ViableIsUsable ==
    ASSUME OrdinaryHosts, PlainRequires, NEW h \in Hosts, NEW p \in Package, NEW v,
           Viable(p, v, h)
    PROVE  VersionUsable(p, v, h)
<1> DEFINE wheels == {f \in FilesOf(p, v) : IsWheel(f)}
           places == {i \in Places(p, v) : ~Files[p][i].yanked}
<1> SUFFICES ASSUME wheels # {}
             PROVE  /\ \E f \in wheels : ~f.yanked /\ Usable(h, f.parts) /\ Allows(f, h)
                    /\ WheelDist(p, v, h) \in {f \in wheels : Usable(h, f.parts)}
  BY DEF VersionUsable
<1>1. \E f \in FilesOf(p, v) : ~f.yanked /\ IsCompatible(h, f.parts)
      /\ PythonAllowed(f, h)
  BY DEF Viable
<1>2. PICK i \in Places(p, v) : /\ ~Files[p][i].yanked
                                /\ IsCompatible(h, Files[p][i].parts)
                                /\ PythonAllowed(Files[p][i], h)
  BY <1>1 DEF FilesOf
<1>3. Ordinary(h)
  BY DEF OrdinaryHosts
<1>4. \A j \in Places(p, v) : IsCompatible(h, Files[p][j].parts) =>
          Files[p][j] \in wheels /\ Usable(h, Files[p][j].parts)
  BY <1>3, CompatibleIsWheel, CompatibleIsUsable DEF FilesOf, IsWheel
<1>5. Allows(Files[p][i], h)
  <2>1. Files[p][i] \in ToSet(Files[p])
    BY DEF Places, ToSet
  <2> QED BY <1>2, <2>1, AllowedIsAllowed
<1>6. WheelDist(p, v, h) = BestFile(p, places, h)
      /\ places \in SUBSET DOMAIN Files[p] /\ i \in places
  BY <1>2 DEF WheelDist, Places
<1> HIDE DEF wheels, places
<1>7. \E j \in places : WheelDist(p, v, h) = Files[p][j]
      /\ IsCompatible(h, Files[p][j].parts)
  BY <1>2, <1>3, <1>6, BestFileFits
<1>8. places \subseteq Places(p, v)
  BY DEF places
<1> QED BY <1>2, <1>4, <1>5, <1>7, <1>8

\* Every chosen version is a candidate, so it was accepted.
LEMMA InvLockedVersionsUsable ==
    ASSUME OrdinaryHosts, PlainRequires, Inv
    PROVE  LockedVersionsUsable
<1> SUFFICES ASSUME NEW i \in DOMAIN results, NEW p \in Chosen(results[i].choice)
             PROVE  results[i].choice[p] \in UsableVersions[results[i].host][p]
  BY DEF LockedVersionsUsable
<1> DEFINE v == results[i].choice[p]
           h == results[i].host
<1>1. p \in Package /\ h \in Hosts /\ v \in Candidates[h][p]
  BY DEF Inv, ResultsInv, ResultInv, Result, Chosen
<1> HIDE DEF v, h
<1>2. v \in Listed(p) /\ Viable(p, v, h)
  BY <1>1 DEF Candidates
<1>3. VersionUsable(p, v, h)
  BY <1>1, <1>2, ViableIsUsable
<1> QED BY <1>1, <1>2, <1>3 DEF UsableVersions, v, h

\* Every version that is chosen for an environment can be installed there, and
\* the lock names a wheel that runs there, when the code knows what its hosts
\* run and Requires-Python gives plain bounds.
THEOREM LockedVersionsRun ==
    ASSUME OrdinaryHosts, PlainRequires
    PROVE  Spec => []LockedVersionsUsable
<1>1. Inv => LockedVersionsUsable
  BY InvLockedVersionsUsable
<1> QED BY <1>1, InvHolds, PTL

-----------------------------------------------------------------------------
(* What a resolution took from the metadata it met.                        *)

\* The requirements that a chosen version has in a resolution.
TakenIn(r, p) == Included(p, r.choice[p], r.taken[p])

\* They are met, and each chosen package is wanted by the project or by one
\* of them.
Met(r) ==
    \A p \in Chosen(r.choice) :
        /\ \A d \in TakenIn(r, p) :
              /\ d.package \in Chosen(r.choice)
              /\ InRanges(d.constraints, r.choice[d.package])
        /\ \/ \E d \in project.dependencies : d.package = p
           \/ \E q \in Chosen(r.choice) \ {p} : \E d \in TakenIn(r, q) :
                 d.package = p

\* Every resolution so far met what it took.
MetInv == \A i \in DOMAIN results : Met(results[i])

\* A valid assignment meets what its run takes from the cache or selects.
LEMMA ResolutionMet ==
    ASSUME project \in Projects, NEW h, NEW s \in Resolutions(h)
    PROVE  Met([host |-> h, choice |-> s,
                taken |-> [p \in Chosen(s) |-> TakenFor(p, s[p], h)]])
<1> DEFINE r == [host |-> h, choice |-> s,
                 taken |-> [p \in Chosen(s) |-> TakenFor(p, s[p], h)]]
<1>1. r.choice = s /\ \A p \in Chosen(s) : TakenIn(r, p) = Taken(p, s[p], h)
  BY DEF TakenIn, Taken
<1>2. \A p \in Chosen(s) : \A d \in Taken(p, s[p], h) :
         d.package \in Package /\ s[d.package] # None
           /\ InRanges(d.constraints, s[d.package])
  <2>1. \A p \in Chosen(s) : \A d \in Taken(p, s[p], h) : d.package \in Package
    BY LockingAssumption DEF Taken, Included, RequirementsOf
  <2>2. \A d \in Demands(s, h) :
           s[d.package] # None /\ InRanges(d.constraints, s[d.package])
    BY DEF Resolutions
  <2> QED BY <2>1, <2>2 DEF Demands
<1>3. ASSUME NEW p \in Chosen(s)
      PROVE  \/ \E d \in project.dependencies : d.package = p
             \/ \E q \in Chosen(s) \ {p} : \E d \in Taken(q, s[q], h) :
                   d.package = p
  <2>1. {p} \in (SUBSET Chosen(s)) \ {{}}
    BY <1>3
  <2>2. Sought(s, h)
    BY DEF Resolutions
  <2> QED BY <2>1, <2>2 DEF Sought
<1> HIDE DEF r
<1>4. \A p \in Chosen(s) : \A d \in Taken(p, s[p], h) : d.package \in Chosen(s)
  BY <1>2 DEF Chosen
<1>5. Met(r)
  BY <1>1, <1>2, <1>3, <1>4 DEF Met
<1> QED BY <1>5 DEF r

\* A run adds one resolution, and metadata does not change.
LEMMA MetKept ==
    ASSUME Inv, MetInv, [Next]_vars
    PROVE  MetInv'
<1>1. ASSUME NEW h, Resolve(h) PROVE MetInv'
  <2>1. PICK s \in Resolutions(h) :
           results' = Append(results, [host |-> h, choice |-> s,
                taken |-> [p \in Chosen(s) |-> TakenFor(p, s[p], h)]])
    BY <1>1 DEF Resolve
  <2>2. UNCHANGED project
    BY <1>1 DEF Resolve
  <2> DEFINE new == [host |-> h, choice |-> s,
                taken |-> [p \in Chosen(s) |-> TakenFor(p, s[p], h)]]
  <2>3. Met(new)
    BY ResolutionMet DEF Inv
  <2>4. results' = Append(results, new)
    BY <2>1
  <2> HIDE DEF new
  <2>5. \A j \in DOMAIN results' :
           \/ results'[j] = new
           \/ \E i \in DOMAIN results : results'[j] = results[i]
    <3>1. results \in Seq(Result \cup {new})
      <4>1. results \in Seq(Result)
        BY DEF Inv, ResultsInv
      <4> QED BY <4>1
    <3> QED BY <2>4, <3>1, AppendProperties, LenProperties
  <2>6. ASSUME NEW j \in DOMAIN results' PROVE Met(results[j])'
    <3>1. PICK r : results'[j] = r /\ Met(r)
      BY <2>3, <2>5 DEF MetInv
    <3> QED BY <2>2, <3>1 DEF Met, TakenIn, Included, RequirementsOf
  <2> QED BY <2>6 DEF MetInv
<1>2. CASE UNCHANGED <<project, results>>
  BY <1>2 DEF MetInv, Met, TakenIn, Included, RequirementsOf
<1>3. CASE ResolveEnvironment
  BY <1>1, <1>3 DEF ResolveEnvironment
<1>4. ASSUME NEW path \in DOMAIN interpreters, ResolveSingle(path)
      PROVE  MetInv'
  BY <1>1, <1>4 DEF ResolveSingle
<1>5. CASE WriteLock
  BY <1>2, <1>5 DEF WriteLock
<1>6. ASSUME NEW path \in DOMAIN interpreters,
             Install(path) \/ Expire(path) \/ Upgrade(path)
      PROVE  MetInv'
  BY <1>2, <1>6 DEF Install, Expire, Upgrade
<1>7. CASE UNCHANGED vars
  BY <1>2, <1>7 DEF vars
<1> QED BY <1>3, <1>4, <1>5, <1>6, <1>7 DEF Next

\* The invariant holds.
LEMMA MetHolds == Spec => []MetInv
<1>1. Init => MetInv
  BY DEF Init, MetInv
<1> QED BY <1>1, InvHolds, MetKept, PTL DEF Spec

\* What is taken for a host is what is wanted there, when markers are read as
\* they are meant.
LEMMA TakenIsWanted ==
    ASSUME MarkersRead, project \in Projects, NEW r, ResultInv(r),
           NEW p \in Chosen(r.choice)
    PROVE  TakenIn(r, p) = Wanted(p, r.choice[p], r.taken[p])
<1>1. r.taken[p] \in Hosts
  BY DEF ResultInv, Result
<1>2. \A d \in RequirementsOf(p, r.choice[p]) :
         \E l \in project.metadata : d = l.requirement
  BY DEF RequirementsOf
<1>3. \A d \in RequirementsOf(p, r.choice[p]) :
         (d.marker # None => Holds(d.marker, EnvironmentOf(r.taken[p])))
            <=> (d.meaning # None => Meant(d.meaning, r.taken[p]))
  BY <1>1, <1>2 DEF MarkersRead
<1> HIDE DEF MarkersRead
<1> QED BY <1>3 DEF TakenIn, Included, Wanted

\* Nothing is chosen that is not wanted.
LEMMA InvNothingUnneeded ==
    ASSUME MarkersRead, Inv, MetInv
    PROVE  NothingUnneeded
<1> SUFFICES ASSUME NEW i \in DOMAIN results,
                    NEW p \in Chosen(results[i].choice)
             PROVE  LET s == results[i].choice
                    IN  \/ \E d \in project.dependencies : d.package = p
                        \/ \E q \in Chosen(s) \ {p} :
                              \E d \in Wanted(q, s[q], results[i].taken[q]) :
                                 d.package = p
  BY DEF NothingUnneeded
<1>1. Met(results[i]) /\ ResultInv(results[i]) /\ project \in Projects
  BY DEF MetInv, Inv, ResultsInv
<1>2. \A q \in Chosen(results[i].choice) :
         TakenIn(results[i], q)
            = Wanted(q, results[i].choice[q], results[i].taken[q])
  BY <1>1, TakenIsWanted
<1> HIDE DEF MarkersRead
<1> QED BY <1>1, <1>2 DEF Met

\* No environment of a lock gets a package that it does not need: what its
\* resolution chose is wanted by the project or, on the host for which the
\* metadata was taken, by another version that it chose.
THEOREM NothingUnneededLocked ==
    ASSUME MarkersRead
    PROVE  Spec => []NothingUnneeded
<1>1. Inv /\ MetInv => NothingUnneeded
  BY InvNothingUnneeded
<1> QED BY <1>1, InvHolds, MetHolds, PTL

\* Each wanted package is chosen in a version that PEP 440 admits.
LEMMA InvRequirementsHold ==
    ASSUME MarkersRead, RangesRead, Inv, MetInv
    PROVE  RequirementsHold
<1> SUFFICES ASSUME NEW i \in DOMAIN results,
                    NEW p \in Chosen(results[i].choice),
                    NEW d \in Wanted(p, results[i].choice[p],
                                     results[i].taken[p])
             PROVE  /\ d.package \in Chosen(results[i].choice)
                    /\ \A c \in d.constraints :
                          \/ /\ IsLocal(results[i].choice[d.package])
                             /\ c.op \in {"==", "!="}
                          \/ Admits(c, results[i].choice[d.package])
  BY DEF RequirementsHold, Meets
<1> DEFINE v == results[i].choice[d.package]
<1>1. Met(results[i]) /\ ResultInv(results[i]) /\ project \in Projects
  BY DEF MetInv, Inv, ResultsInv
<1>2. d \in TakenIn(results[i], p)
  BY <1>1, TakenIsWanted
<1>3. d.package \in Chosen(results[i].choice) /\ InRanges(d.constraints, v)
  BY <1>1, <1>2 DEF Met
<1>4. v \in Listed(d.package) /\ ~IsPreRelease(v)
  BY <1>1, <1>3 DEF ResultInv, Result, Chosen, Candidates
<1>5. \E l \in project.metadata : d = l.requirement
  BY <1>2 DEF TakenIn, Included, RequirementsOf
<1> HIDE DEF MarkersRead, v
<1>6. \A c \in d.constraints :
         (IsLocal(v) /\ c.op \in {"==", "!="}) \/ Admits(c, v)
  <2>1. \A c \in d.constraints : InRange(c, v)
    BY <1>3 DEF InRanges
  <2> QED BY <1>1, <1>4, <1>5, <2>1 DEF RangesRead
<1> QED BY <1>3, <1>6 DEF v

\* What a resolution chose meets the requirements of its versions, as they
\* read on the host for which they were taken, whichever run before it left
\* them in the cache.
THEOREM RequirementsMet ==
    ASSUME MarkersRead, RangesRead
    PROVE  Spec => []RequirementsHold
<1>1. Inv /\ MetInv => RequirementsHold
  BY InvRequirementsHold
<1> QED BY <1>1, InvHolds, MetHolds, PTL

-----------------------------------------------------------------------------
(* The order of versions, and the bounds of the ranges of the solver.      *)

\* The key of a version, number by number; missing segments are zero.
LEMMA PublicKeyIs ==
    ASSUME NEW v \in VypVersion, NEW len \in Nat
    PROVE  LET key == PublicKey(v, len)
           IN  /\ key \in [1..(len + 5) -> Nat]
               /\ key[1] = v.epoch
               /\ \A i \in 1..len : key[i + 1] = Segment(v, i)
               /\ key[len + 2] = PreKey(v.pre)[1]
               /\ key[len + 3] = PreKey(v.pre)[2]
               /\ key[len + 4] = PostKey(v.post)
               /\ key[len + 5] = DevKey(v.dev)
<1> DEFINE a == <<v.epoch>>
           b == [i \in 1..len |-> Segment(v, i)]
           c == PreKey(v.pre)
           d == <<PostKey(v.post), DevKey(v.dev)>>
           ab == a \o b
           abc == ab \o c
           key == abc \o d
<1>1. a \in Seq(Nat) /\ Len(a) = 1 /\ a[1] = v.epoch
  BY VersionsAssumption DEF VypVersion
<1>2. b \in Seq(Nat) /\ Len(b) = len /\ \A i \in 1..len : b[i] = Segment(v, i)
  <2>1. v.release \in Seq(Nat)
    BY VersionsAssumption DEF VypVersion
  <2>2. \A i \in 1..len : Segment(v, i) \in Nat
    BY <2>1 DEF Segment
  <2>3. b \in [1..len -> Nat]
    BY <2>2
  <2> QED BY <2>3
<1>3. c \in Seq(Nat) /\ Len(c) = 2
  BY VersionsAssumption DEF VypVersion, PreKey, PreRelease
<1>4. /\ d \in Seq(Nat) /\ Len(d) = 2
      /\ d[1] = PostKey(v.post) /\ d[2] = DevKey(v.dev)
  BY VersionsAssumption DEF VypVersion, PostKey, DevKey
<1>5. PublicKey(v, len) = key
  BY DEF PublicKey
<1> HIDE DEF a, b, c, d
<1>6. /\ ab \in Seq(Nat) /\ Len(ab) = len + 1
      /\ \A i \in 1..(len + 1) : ab[i] = IF i <= 1 THEN a[i] ELSE b[i - 1]
  <2>1. /\ ab \in Seq(Nat) /\ Len(ab) = Len(a) + Len(b)
        /\ \A i \in 1..(Len(a) + Len(b)) :
              ab[i] = IF i <= Len(a) THEN a[i] ELSE b[i - Len(a)]
    BY <1>1, <1>2, ConcatProperties
  <2> HIDE DEF ab
  <2> QED BY <1>1, <1>2, <2>1
<1> HIDE DEF ab
<1>7. /\ abc \in Seq(Nat) /\ Len(abc) = len + 3
      /\ \A i \in 1..(len + 3) :
            abc[i] = IF i <= len + 1 THEN ab[i] ELSE c[i - (len + 1)]
  <2>1. /\ abc \in Seq(Nat) /\ Len(abc) = Len(ab) + Len(c)
        /\ \A i \in 1..(Len(ab) + Len(c)) :
              abc[i] = IF i <= Len(ab) THEN ab[i] ELSE c[i - Len(ab)]
    BY <1>3, <1>6, ConcatProperties
  <2> HIDE DEF abc
  <2> QED BY <1>3, <1>6, <2>1
<1> HIDE DEF abc
<1>8. /\ key \in Seq(Nat) /\ Len(key) = len + 5
      /\ \A i \in 1..(len + 5) :
            key[i] = IF i <= len + 3 THEN abc[i] ELSE d[i - (len + 3)]
  <2>1. /\ key \in Seq(Nat) /\ Len(key) = Len(abc) + Len(d)
        /\ \A i \in 1..(Len(abc) + Len(d)) :
              key[i] = IF i <= Len(abc) THEN abc[i] ELSE d[i - Len(abc)]
    BY <1>4, <1>7, ConcatProperties
  <2> HIDE DEF key
  <2> QED BY <1>4, <1>7, <2>1
<1> HIDE DEF key
<1>9. key \in [1..(len + 5) -> Nat]
  BY <1>8
<1>10. key[1] = v.epoch
  BY <1>1, <1>6, <1>7, <1>8
<1>11. ASSUME NEW i \in 1..len PROVE key[i + 1] = Segment(v, i)
  <2>1. /\ i + 1 \in 1..(len + 1) /\ i + 1 \in 1..(len + 3)
        /\ i + 1 \in 1..(len + 5) /\ i + 1 <= len + 3 /\ i + 1 <= len + 1
        /\ ~(i + 1 <= 1) /\ i + 1 - 1 = i
    OBVIOUS
  <2>2. key[i + 1] = abc[i + 1] /\ abc[i + 1] = ab[i + 1]
    BY <1>7, <1>8, <2>1
  <2>3. ab[i + 1] = b[i]
    BY <1>6, <2>1
  <2> QED BY <1>2, <2>2, <2>3
<1>12. key[len + 2] = c[1] /\ key[len + 3] = c[2]
  <2>1. /\ len + 2 \in 1..(len + 3) /\ len + 3 \in 1..(len + 3)
        /\ len + 2 \in 1..(len + 5) /\ len + 3 \in 1..(len + 5)
        /\ ~(len + 2 <= len + 1) /\ ~(len + 3 <= len + 1)
        /\ len + 2 <= len + 3 /\ len + 3 <= len + 3
        /\ len + 2 - (len + 1) = 1 /\ len + 3 - (len + 1) = 2
    OBVIOUS
  <2>2. abc[len + 2] = c[1] /\ abc[len + 3] = c[2]
    BY <1>7, <2>1
  <2>3. key[len + 2] = abc[len + 2] /\ key[len + 3] = abc[len + 3]
    BY <1>8, <2>1
  <2> QED BY <2>2, <2>3
<1>13. key[len + 4] = d[1] /\ key[len + 5] = d[2]
  <2> DEFINE p == len + 4
             q == len + 5
  <2>1. /\ p \in 1..(len + 5) /\ ~(p <= len + 3) /\ p - (len + 3) = 1
    OBVIOUS
  <2>2. /\ q \in 1..(len + 5) /\ ~(q <= len + 3) /\ q - (len + 3) = 2
    OBVIOUS
  <2> HIDE DEF p, q
  <2>3. key[p] = d[1]
    BY <1>8, <2>1
  <2>4. key[q] = d[2]
    BY <1>8, <2>2
  <2> QED BY <2>3, <2>4 DEF p, q
<1>14. c = PreKey(v.pre)
  BY DEF c
<1> QED BY <1>4, <1>5, <1>9, <1>10, <1>11, <1>12, <1>13, <1>14

\* The keys x and y are a and b with d equal numbers behind the first m + 1.
Padding(m, d, a, b, x, y) ==
    /\ m \in Nat /\ d \in Nat
    /\ a \in [1..(m + 5) -> Nat] /\ b \in [1..(m + 5) -> Nat]
    /\ x \in [1..(m + d + 5) -> Nat] /\ y \in [1..(m + d + 5) -> Nat]
    /\ \A i \in 1..(m + 1) : x[i] = a[i] /\ y[i] = b[i]
    /\ \A i \in (m + 2)..(m + d + 1) : x[i] = y[i]
    /\ \A i \in (m + 2)..(m + 5) : x[i + d] = a[i] /\ y[i + d] = b[i]

\* Such numbers do not change how keys compare.
LEMMA Stretched ==
    ASSUME NEW m, NEW d, NEW a, NEW b, NEW x, NEW y, Padding(m, d, a, b, x, y)
    PROVE  (KeyLess(a, b) <=> KeyLess(x, y)) /\ (a = b <=> x = y)
<1> USE DEF Padding
<1>1. ASSUME NEW i \in 1..(m + 5), a[i] < b[i],
             \A j \in 1..(i - 1) : a[j] = b[j]
      PROVE  KeyLess(x, y)
  <2>1. CASE i <= m + 1
    <3>1. i \in DOMAIN x /\ x[i] < y[i]
      BY <1>1, <2>1
    <3>2. \A j \in 1..(i - 1) : x[j] = y[j]
      BY <1>1, <2>1
    <3> QED BY <3>1, <3>2 DEF KeyLess
  <2>2. CASE i > m + 1
    <3>1. i + d \in DOMAIN x /\ x[i + d] < y[i + d]
      BY <1>1, <2>2
    <3>2. ASSUME NEW j \in 1..(i + d - 1) PROVE x[j] = y[j]
      <4>1. CASE j <= m + 1
        <5>1. j \in 1..(m + 1) /\ j \in 1..(i - 1)
          BY <2>2, <4>1
        <5>2. a[j] = b[j]
          BY <1>1, <5>1
        <5> QED BY <5>1, <5>2
      <4>2. CASE j > m + 1 /\ j <= m + d + 1
        <5>1. j \in (m + 2)..(m + d + 1)
          BY <4>2
        <5> QED BY <5>1
      <4>3. CASE j > m + d + 1
        <5>1. /\ j - d \in (m + 2)..(m + 5) /\ j - d \in 1..(i - 1)
              /\ (j - d) + d = j
          BY <4>3
        <5>2. a[j - d] = b[j - d]
          BY <1>1, <5>1
        <5>3. x[(j - d) + d] = a[j - d] /\ y[(j - d) + d] = b[j - d]
          BY <5>1
        <5> QED BY <5>1, <5>2, <5>3
      <4> QED BY <4>1, <4>2, <4>3
    <3>3. \A j \in 1..((i + d) - 1) : x[j] = y[j]
      BY <3>2
    <3> QED BY <3>1, <3>3 DEF KeyLess
  <2> QED BY <2>1, <2>2
<1>2. ASSUME NEW i \in 1..(m + d + 5), x[i] < y[i],
             \A j \in 1..(i - 1) : x[j] = y[j]
      PROVE  KeyLess(a, b)
  <2>1. CASE i <= m + 1
    <3>1. i \in DOMAIN a /\ a[i] < b[i]
      BY <1>2, <2>1
    <3>2. ASSUME NEW j \in 1..(i - 1) PROVE a[j] = b[j]
      <4>1. j \in 1..(m + 1)
        BY <2>1
      <4>2. x[j] = y[j]
        BY <1>2
      <4> QED BY <4>1, <4>2
    <3> QED BY <3>1, <3>2 DEF KeyLess
  <2>2. CASE i > m + 1 /\ i <= m + d + 1
    <3>1. x[i] = y[i] /\ x[i] \in Nat
      BY <2>2
    <3> QED BY <1>2, <3>1
  <2>3. CASE i > m + d + 1
    <3>1. i - d \in (m + 2)..(m + 5) /\ (i - d) + d = i
      BY <2>3
    <3>2. i - d \in DOMAIN a /\ a[i - d] < b[i - d]
      BY <1>2, <3>1
    <3>3. ASSUME NEW j \in 1..(i - d - 1) PROVE a[j] = b[j]
      <4>1. CASE j <= m + 1
        <5>1. j \in 1..(m + 1) /\ j \in 1..(i - 1)
          BY <2>3, <4>1
        <5> QED BY <1>2, <5>1
      <4>2. CASE j > m + 1
        <5>1. j \in (m + 2)..(m + 5) /\ j + d \in 1..(i - 1)
          BY <2>3, <4>2
        <5> QED BY <1>2, <5>1
      <4> QED BY <4>1, <4>2
    <3> QED BY <3>2, <3>3 DEF KeyLess
  <2> QED BY <2>1, <2>2, <2>3
<1>3. ASSUME a = b PROVE x = y
  <2>1. ASSUME NEW i \in 1..(m + d + 5) PROVE x[i] = y[i]
    <3>1. CASE i <= m + 1
      BY <1>3, <3>1
    <3>2. CASE i > m + 1 /\ i <= m + d + 1
      BY <3>2
    <3>3. CASE i > m + d + 1
      <4>1. i - d \in (m + 2)..(m + 5) /\ (i - d) + d = i
        BY <3>3
      <4>2. x[(i - d) + d] = a[i - d] /\ y[(i - d) + d] = b[i - d]
        BY <4>1
      <4> QED BY <1>3, <4>1, <4>2
    <3> QED BY <3>1, <3>2, <3>3
  <2> QED BY <2>1
<1>4. ASSUME x = y PROVE a = b
  <2>1. ASSUME NEW i \in 1..(m + 5) PROVE a[i] = b[i]
    <3>1. CASE i <= m + 1
      BY <1>4, <3>1
    <3>2. CASE i > m + 1
      BY <1>4, <3>2
    <3> QED BY <3>1, <3>2
  <2> QED BY <2>1
<1> QED BY <1>1, <1>2, <1>3, <1>4 DEF KeyLess

\* Releases compare alike however far they are padded.
LEMMA PaddedAlike ==
    ASSUME NEW v \in VypVersion, NEW w \in VypVersion, NEW len \in Nat,
           Len(v.release) <= len, Len(w.release) <= len
    PROVE  /\ PublicLess(v, w) <=>
                  KeyLess(PublicKey(v, len), PublicKey(w, len))
           /\ PublicEqual(v, w) <=> PublicKey(v, len) = PublicKey(w, len)
<1> DEFINE m == Longest(v.release, w.release)
           d == len - m
           a == PublicKey(v, m)
           b == PublicKey(w, m)
           x == PublicKey(v, len)
           y == PublicKey(w, len)
<1>1. /\ v.release \in Seq(0..MaxU32) /\ w.release \in Seq(0..MaxU32)
      /\ Len(v.release) \in Nat /\ Len(w.release) \in Nat
      /\ DOMAIN v.release = 1..Len(v.release)
      /\ DOMAIN w.release = 1..Len(w.release)
  BY DEF VypVersion
<1>2. /\ m \in Nat /\ d \in Nat /\ m + d = len
      /\ Len(v.release) <= m /\ Len(w.release) <= m
  BY <1>1 DEF Longest
<1>3. (PublicLess(v, w) <=> KeyLess(a, b)) /\ (PublicEqual(v, w) <=> a = b)
  BY DEF PublicLess, PublicEqual
<1> HIDE DEF m, d
<1>4. /\ a \in [1..(m + 5) -> Nat] /\ a[1] = v.epoch
      /\ \A i \in 1..m : a[i + 1] = Segment(v, i)
      /\ a[m + 2] = PreKey(v.pre)[1] /\ a[m + 3] = PreKey(v.pre)[2]
      /\ a[m + 4] = PostKey(v.post) /\ a[m + 5] = DevKey(v.dev)
  BY <1>2, PublicKeyIs
<1>5. /\ b \in [1..(m + 5) -> Nat] /\ b[1] = w.epoch
      /\ \A i \in 1..m : b[i + 1] = Segment(w, i)
      /\ b[m + 2] = PreKey(w.pre)[1] /\ b[m + 3] = PreKey(w.pre)[2]
      /\ b[m + 4] = PostKey(w.post) /\ b[m + 5] = DevKey(w.dev)
  BY <1>2, PublicKeyIs
<1>6. /\ x \in [1..(len + 5) -> Nat] /\ x[1] = v.epoch
      /\ \A i \in 1..len : x[i + 1] = Segment(v, i)
      /\ x[len + 2] = PreKey(v.pre)[1] /\ x[len + 3] = PreKey(v.pre)[2]
      /\ x[len + 4] = PostKey(v.post) /\ x[len + 5] = DevKey(v.dev)
  BY <1>2, PublicKeyIs
<1>7. /\ y \in [1..(len + 5) -> Nat] /\ y[1] = w.epoch
      /\ \A i \in 1..len : y[i + 1] = Segment(w, i)
      /\ y[len + 2] = PreKey(w.pre)[1] /\ y[len + 3] = PreKey(w.pre)[2]
      /\ y[len + 4] = PostKey(w.post) /\ y[len + 5] = DevKey(w.dev)
  BY <1>2, PublicKeyIs
<1> HIDE DEF a, b, x, y
<1>8. ASSUME NEW i \in 1..(m + 1) PROVE x[i] = a[i] /\ y[i] = b[i]
  <2>1. CASE i = 1
    BY <1>4, <1>5, <1>6, <1>7, <2>1
  <2>2. CASE i # 1
    <3>1. i - 1 \in 1..m /\ i - 1 \in 1..len /\ (i - 1) + 1 = i
      BY <1>2, <2>2
    <3> QED BY <1>4, <1>5, <1>6, <1>7, <3>1
  <2> QED BY <2>1, <2>2
<1>9. ASSUME NEW i \in (m + 2)..(m + d + 1) PROVE x[i] = y[i]
  <2>1. /\ i - 1 \in 1..len /\ (i - 1) + 1 = i
        /\ i - 1 \notin DOMAIN v.release /\ i - 1 \notin DOMAIN w.release
    BY <1>1, <1>2
  <2>2. Segment(v, i - 1) = 0 /\ Segment(w, i - 1) = 0
    BY <2>1 DEF Segment
  <2> QED BY <1>6, <1>7, <2>1, <2>2
<1>10. ASSUME NEW i \in (m + 2)..(m + 5)
       PROVE  x[i + d] = a[i] /\ y[i + d] = b[i]
  <2>1. i = m + 2 \/ i = m + 3 \/ i = m + 4 \/ i = m + 5
    BY <1>2
  <2>2. /\ (m + 2) + d = len + 2 /\ (m + 3) + d = len + 3
        /\ (m + 4) + d = len + 4 /\ (m + 5) + d = len + 5
    BY <1>2
  <2> QED BY <1>4, <1>5, <1>6, <1>7, <2>1, <2>2
<1>11. x \in [1..(m + d + 5) -> Nat] /\ y \in [1..(m + d + 5) -> Nat]
  BY <1>2, <1>6, <1>7
<1>12. (KeyLess(a, b) <=> KeyLess(x, y)) /\ (a = b <=> x = y)
  <2>1. a \in [1..(m + 5) -> Nat] /\ b \in [1..(m + 5) -> Nat]
    BY <1>4, <1>5
  <2>2. \A i \in 1..(m + 1) : x[i] = a[i] /\ y[i] = b[i]
    BY <1>8
  <2>3. \A i \in (m + 2)..(m + d + 1) : x[i] = y[i]
    BY <1>9
  <2>4. \A i \in (m + 2)..(m + 5) : x[i + d] = a[i] /\ y[i + d] = b[i]
    BY <1>10
  <2>5. m \in Nat /\ d \in Nat
    BY <1>2
  <2>6. Padding(m, d, a, b, x, y)
    BY <1>11, <2>1, <2>2, <2>3, <2>4, <2>5 DEF Padding
  <2> QED BY <2>6, Stretched
<1>13. x = PublicKey(v, len) /\ y = PublicKey(w, len)
  BY DEF x, y
<1> QED BY <1>3, <1>12, <1>13, Zenon

\* Keys of one length are in the order of their first difference.
LEMMA KeyOrder ==
    ASSUME NEW n \in Nat, NEW a \in [1..n -> Nat], NEW b \in [1..n -> Nat],
           NEW c \in [1..n -> Nat]
    PROVE  /\ ~KeyLess(a, a)
           /\ ~(KeyLess(a, b) /\ KeyLess(b, a))
           /\ KeyLess(a, b) /\ KeyLess(b, c) => KeyLess(a, c)
           /\ KeyLess(a, b) \/ KeyLess(b, a) \/ a = b
<1>1. ~KeyLess(a, a)
  BY DEF KeyLess
<1>2. ASSUME KeyLess(a, b), KeyLess(b, c) PROVE KeyLess(a, c)
  <2>1. PICK i \in 1..n : a[i] < b[i] /\ \A j \in 1..(i - 1) : a[j] = b[j]
    BY <1>2 DEF KeyLess
  <2>2. PICK k \in 1..n : b[k] < c[k] /\ \A j \in 1..(k - 1) : b[j] = c[j]
    BY <1>2 DEF KeyLess
  <2>3. CASE i < k
    <3>1. a[i] < c[i] /\ \A j \in 1..(i - 1) : a[j] = c[j]
      BY <2>1, <2>2, <2>3
    <3> QED BY <3>1 DEF KeyLess
  <2>4. CASE k < i
    <3>1. a[k] < c[k] /\ \A j \in 1..(k - 1) : a[j] = c[j]
      BY <2>1, <2>2, <2>4
    <3> QED BY <3>1 DEF KeyLess
  <2>5. CASE i = k
    <3>1. a[i] < c[i]
      <4>1. a[i] \in Nat /\ b[i] \in Nat /\ c[i] \in Nat
        OBVIOUS
      <4> QED BY <2>1, <2>2, <2>5, <4>1
    <3>2. \A j \in 1..(i - 1) : a[j] = c[j]
      BY <2>1, <2>2, <2>5
    <3> QED BY <3>1, <3>2 DEF KeyLess
  <2> QED BY <2>3, <2>4, <2>5
<1>3. ASSUME KeyLess(a, b), KeyLess(b, a) PROVE FALSE
  <2>1. PICK i \in 1..n : a[i] < b[i] /\ \A j \in 1..(i - 1) : a[j] = b[j]
    BY <1>3 DEF KeyLess
  <2>2. PICK k \in 1..n : b[k] < a[k] /\ \A j \in 1..(k - 1) : b[j] = a[j]
    BY <1>3 DEF KeyLess
  <2>3. a[i] \in Nat /\ b[i] \in Nat /\ a[k] \in Nat /\ b[k] \in Nat
    OBVIOUS
  <2>4. CASE i < k
    BY <2>1, <2>2, <2>3, <2>4
  <2>5. CASE k < i
    BY <2>1, <2>2, <2>3, <2>5
  <2>6. CASE i = k
    BY <2>1, <2>2, <2>3, <2>6
  <2> QED BY <2>4, <2>5, <2>6
<1>4. ASSUME a # b PROVE KeyLess(a, b) \/ KeyLess(b, a)
  <2> DEFINE D == {i \in 1..n : a[i] # b[i]}
  <2>1. D \in SUBSET Nat /\ D # {}
    <3>1. a = [i \in 1..n |-> a[i]] /\ b = [i \in 1..n |-> b[i]]
      OBVIOUS
    <3>2. \E i \in 1..n : a[i] # b[i]
      BY <1>4, <3>1
    <3>3. D # {}
      BY <3>2
    <3>4. \A i \in D : i \in Nat
      OBVIOUS
    <3> QED BY <3>3, <3>4
  <2>2. PICK i \in D : \A j \in D : i <= j
    BY <2>1, MinOfNat
  <2>3. i \in 1..n /\ a[i] # b[i] /\ \A j \in 1..(i - 1) : a[j] = b[j]
    BY <2>2
  <2>4. a[i] \in Nat /\ b[i] \in Nat
    BY <2>3
  <2>5. a[i] < b[i] \/ b[i] < a[i]
    BY <2>3, <2>4
  <2>6. CASE a[i] < b[i]
    BY <2>3, <2>6 DEF KeyLess
  <2>7. CASE b[i] < a[i]
    <3>1. i \in DOMAIN b /\ \A j \in 1..(i - 1) : b[j] = a[j]
      BY <2>3
    <3> QED BY <2>7, <3>1 DEF KeyLess
  <2> QED BY <2>5, <2>6, <2>7
<1> QED BY <1>1, <1>2, <1>3, <1>4

\* Of versions without a local part only the public order counts.
LEMMA PublicOrder ==
    ASSUME NEW v, NEW w, ~IsLocal(v), ~IsLocal(w)
    PROVE  /\ Less(v, w) <=> PublicLess(v, w)
           /\ Equal(v, w) <=> PublicEqual(v, w)
<1>1. v.local = <<>> /\ w.local = <<>>
  BY DEF IsLocal
<1>2. ~LocalLess(<<>>, <<>>)
  BY DEF LocalLess
<1> QED BY <1>1, <1>2 DEF Less, Equal

\* Public versions are in a total order that agrees with their equality,
\* whatever the lengths of their releases: Ord::cmp keeps the promise of Ord,
\* on which the ranges of the solver rest.
THEOREM VersionsOrdered ==
    ASSUME NEW u \in VypVersion, NEW v \in VypVersion, NEW w \in VypVersion,
           ~IsLocal(u), ~IsLocal(v), ~IsLocal(w)
    PROVE  /\ ~Less(u, u)
           /\ Less(u, v) /\ Less(v, w) => Less(u, w)
           /\ Less(u, v) \/ Less(v, u) \/ Equal(u, v)
           /\ ~(Less(u, v) /\ (Less(v, u) \/ Equal(u, v)))
           /\ Equal(u, v) /\ Less(v, w) => Less(u, w)
<1> DEFINE vw == Longest(v.release, w.release)
           len == IF Len(u.release) < vw THEN vw ELSE Len(u.release)
           a == PublicKey(u, len)
           b == PublicKey(v, len)
           c == PublicKey(w, len)
<1>1. /\ len \in Nat /\ Len(u.release) <= len
      /\ Len(v.release) <= len /\ Len(w.release) <= len
  <2>1. /\ Len(u.release) \in Nat /\ Len(v.release) \in Nat
        /\ Len(w.release) \in Nat
    BY DEF VypVersion
  <2> QED BY <2>1 DEF Longest
<1> HIDE DEF len
<1>2. /\ a \in [1..(len + 5) -> Nat] /\ b \in [1..(len + 5) -> Nat]
      /\ c \in [1..(len + 5) -> Nat]
  BY <1>1, PublicKeyIs
<1>3. /\ Less(u, u) <=> KeyLess(a, a)
      /\ Less(u, v) <=> KeyLess(a, b)
      /\ Less(v, u) <=> KeyLess(b, a)
      /\ Less(v, w) <=> KeyLess(b, c)
      /\ Less(u, w) <=> KeyLess(a, c)
      /\ Equal(u, v) <=> a = b
  BY <1>1, PaddedAlike, PublicOrder
<1> HIDE DEF a, b, c
<1>4. len + 5 \in Nat
  BY <1>1
<1> QED BY <1>2, <1>3, <1>4, KeyOrder

\* The first n numbers of a key are before those of another, or are the same.
Before(a, b, n) ==
    \E i \in 1..n : a[i] < b[i] /\ \A j \in 1..(i - 1) : a[j] = b[j]

Alike(a, b, n) == \A i \in 1..n : a[i] = b[i]

\* The last two numbers decide between keys with the same others.
LEMMA KeyByParts ==
    ASSUME NEW n \in Nat, NEW a \in [1..(n + 2) -> Nat],
           NEW b \in [1..(n + 2) -> Nat]
    PROVE  /\ KeyLess(a, b) <=>
                 \/ Before(a, b, n)
                 \/ /\ Alike(a, b, n)
                    /\ \/ a[n + 1] < b[n + 1]
                       \/ a[n + 1] = b[n + 1] /\ a[n + 2] < b[n + 2]
           /\ a = b <=> /\ Alike(a, b, n)
                        /\ a[n + 1] = b[n + 1] /\ a[n + 2] = b[n + 2]
           /\ ~(Before(a, b, n) /\ Alike(a, b, n))
<1>1. ASSUME KeyLess(a, b)
      PROVE  \/ Before(a, b, n)
             \/ /\ Alike(a, b, n)
                /\ \/ a[n + 1] < b[n + 1]
                   \/ a[n + 1] = b[n + 1] /\ a[n + 2] < b[n + 2]
  <2>1. PICK i \in 1..(n + 2) : a[i] < b[i] /\ \A j \in 1..(i - 1) : a[j] = b[j]
    BY <1>1 DEF KeyLess
  <2>2. CASE i <= n
    BY <2>1, <2>2 DEF Before
  <2>3. CASE i = n + 1
    BY <2>1, <2>3 DEF Alike
  <2>4. CASE i = n + 2
    BY <2>1, <2>4 DEF Alike
  <2> QED BY <2>2, <2>3, <2>4
<1>2. ASSUME Before(a, b, n) PROVE KeyLess(a, b)
  BY <1>2 DEF Before, KeyLess
<1>3. ASSUME Alike(a, b, n), a[n + 1] < b[n + 1] PROVE KeyLess(a, b)
  <2>1. n + 1 \in DOMAIN a /\ \A j \in 1..(n + 1 - 1) : a[j] = b[j]
    BY <1>3 DEF Alike
  <2> QED BY <1>3, <2>1 DEF KeyLess
<1>4. ASSUME Alike(a, b, n), a[n + 1] = b[n + 1], a[n + 2] < b[n + 2]
      PROVE  KeyLess(a, b)
  <2>1. n + 2 \in DOMAIN a /\ \A j \in 1..(n + 2 - 1) : a[j] = b[j]
    BY <1>4 DEF Alike
  <2> QED BY <1>4, <2>1 DEF KeyLess
<1>5. a = b <=> Alike(a, b, n) /\ a[n + 1] = b[n + 1] /\ a[n + 2] = b[n + 2]
  <2>1. ASSUME Alike(a, b, n), a[n + 1] = b[n + 1], a[n + 2] = b[n + 2]
        PROVE  a = b
    <3>1. \A i \in 1..(n + 2) : i \in 1..n \/ i = n + 1 \/ i = n + 2
      OBVIOUS
    <3> QED BY <2>1, <3>1 DEF Alike
  <2> QED BY <2>1 DEF Alike
<1>6. ~(Before(a, b, n) /\ Alike(a, b, n))
  BY DEF Before, Alike
<1> QED BY <1>1, <1>2, <1>3, <1>4, <1>5, <1>6

\* Epoch, release and pre-release of one version are before those of another,
\* or are the same.
FrontBefore(v, w, len) == Before(PublicKey(v, len), PublicKey(w, len), len + 3)

FrontAlike(v, w, len) == Alike(PublicKey(v, len), PublicKey(w, len), len + 3)

\* They decide first, then the post-release, then the dev-release.
LEMMA OrderByParts ==
    ASSUME NEW v \in VypVersion, NEW w \in VypVersion, NEW len \in Nat,
           Len(v.release) <= len, Len(w.release) <= len
    PROVE  /\ PublicLess(v, w) <=>
                 \/ FrontBefore(v, w, len)
                 \/ /\ FrontAlike(v, w, len)
                    /\ \/ PostKey(v.post) < PostKey(w.post)
                       \/ /\ PostKey(v.post) = PostKey(w.post)
                          /\ DevKey(v.dev) < DevKey(w.dev)
           /\ PublicEqual(v, w) <=> /\ FrontAlike(v, w, len)
                                    /\ PostKey(v.post) = PostKey(w.post)
                                    /\ DevKey(v.dev) = DevKey(w.dev)
           /\ ~(FrontBefore(v, w, len) /\ FrontAlike(v, w, len))
<1> DEFINE a == PublicKey(v, len)
           b == PublicKey(w, len)
           n == len + 3
<1>1. /\ a \in [1..(len + 5) -> Nat] /\ a[len + 4] = PostKey(v.post)
      /\ a[len + 5] = DevKey(v.dev)
  BY PublicKeyIs
<1>2. /\ b \in [1..(len + 5) -> Nat] /\ b[len + 4] = PostKey(w.post)
      /\ b[len + 5] = DevKey(w.dev)
  BY PublicKeyIs
<1>3. /\ PublicLess(v, w) <=> KeyLess(a, b)
      /\ PublicEqual(v, w) <=> a = b
  BY PaddedAlike
<1>4. /\ FrontBefore(v, w, len) <=> Before(a, b, n)
      /\ FrontAlike(v, w, len) <=> Alike(a, b, n)
  BY DEF FrontBefore, FrontAlike
<1> HIDE DEF a, b
<1>5. n \in Nat /\ n + 1 = len + 4 /\ n + 2 = len + 5
  OBVIOUS
<1> HIDE DEF n
<1>6. /\ KeyLess(a, b) <=>
            \/ Before(a, b, n)
            \/ /\ Alike(a, b, n)
               /\ \/ a[n + 1] < b[n + 1]
                  \/ a[n + 1] = b[n + 1] /\ a[n + 2] < b[n + 2]
      /\ a = b <=> /\ Alike(a, b, n)
                   /\ a[n + 1] = b[n + 1] /\ a[n + 2] = b[n + 2]
      /\ ~(Before(a, b, n) /\ Alike(a, b, n))
  <2>1. a \in [1..(n + 2) -> Nat] /\ b \in [1..(n + 2) -> Nat]
    BY <1>1, <1>2, <1>5
  <2> QED BY <1>5, <2>1, KeyByParts
<1> QED BY <1>1, <1>2, <1>3, <1>4, <1>5, <1>6

\* The rest of a version does not matter to its front.
LEMMA SameFront ==
    ASSUME NEW v \in VypVersion, NEW x \in VypVersion, NEW w \in VypVersion,
           NEW len \in Nat,
           x.epoch = v.epoch, x.release = v.release, x.pre = v.pre
    PROVE  /\ FrontBefore(x, w, len) <=> FrontBefore(v, w, len)
           /\ FrontBefore(w, x, len) <=> FrontBefore(w, v, len)
           /\ FrontAlike(x, w, len) <=> FrontAlike(v, w, len)
           /\ FrontAlike(w, x, len) <=> FrontAlike(w, v, len)
<1> DEFINE a == PublicKey(v, len)
           b == PublicKey(x, len)
           c == PublicKey(w, len)
<1>1. /\ a[1] = v.epoch /\ \A i \in 1..len : a[i + 1] = Segment(v, i)
      /\ a[len + 2] = PreKey(v.pre)[1] /\ a[len + 3] = PreKey(v.pre)[2]
  BY PublicKeyIs
<1>2. /\ b[1] = x.epoch /\ \A i \in 1..len : b[i + 1] = Segment(x, i)
      /\ b[len + 2] = PreKey(x.pre)[1] /\ b[len + 3] = PreKey(x.pre)[2]
  BY PublicKeyIs
<1>3. \A i \in 1..len : Segment(x, i) = Segment(v, i)
  BY DEF Segment
<1> HIDE DEF a, b, c
<1>4. ASSUME NEW i \in 1..(len + 3) PROVE a[i] = b[i]
  <2>1. CASE i = 1
    BY <1>1, <1>2, <2>1
  <2>2. CASE i # 1 /\ i <= len + 1
    <3>1. i - 1 \in 1..len /\ (i - 1) + 1 = i
      BY <2>2
    <3>2. a[(i - 1) + 1] = Segment(v, i - 1) /\ b[(i - 1) + 1] = Segment(x, i - 1)
      BY <1>1, <1>2, <3>1
    <3> QED BY <1>3, <3>1, <3>2
  <2>3. CASE i = len + 2 \/ i = len + 3
    BY <1>1, <1>2, <2>3
  <2> QED BY <2>1, <2>2, <2>3
<1> DEFINE n == len + 3
<1>5. n \in Nat /\ \A i \in 1..n : a[i] = b[i]
  BY <1>4
<1> HIDE DEF n
<1>6. /\ Before(b, c, n) <=> Before(a, c, n)
      /\ Before(c, b, n) <=> Before(c, a, n)
  <2>1. \A i \in 1..n : \A j \in 1..(i - 1) : j \in 1..n
    BY <1>5
  <2> QED BY <1>5, <2>1 DEF Before
<1>7. /\ Alike(b, c, n) <=> Alike(a, c, n)
      /\ Alike(c, b, n) <=> Alike(c, a, n)
  BY <1>5 DEF Alike
<1> QED BY <1>6, <1>7 DEF FrontBefore, FrontAlike, a, b, c, n

\* Versions with the same epoch, release and pre-release.
SameBase(v, w) ==
    PublicEqual([v EXCEPT !.post = None, !.dev = None],
                [w EXCEPT !.post = None, !.dev = None])

\* No local version is after none, and the place after all real segments is
\* after every local version.
LEMMA LocalEnds ==
    ASSUME NEW v \in VypVersion
    PROVE  /\ ~LocalLess(v.local, <<>>)
           /\ (\A i \in DOMAIN v.local : v.local[i].text < MaxText) =>
                 ~LocalLess(<<[number |-> None, text |-> MaxText]>>, v.local)
<1> DEFINE loc == v.local
           max == [number |-> None, text |-> MaxText]
<1>1. /\ loc \in Seq(LocalSegment) /\ Len(loc) \in Nat
      /\ DOMAIN loc = 1..Len(loc)
  BY DEF VypVersion
<1>2. \A i \in DOMAIN loc : loc[i] \in LocalSegment /\ loc[i].text \in Nat
  <2>1. \A i \in DOMAIN loc : loc[i] \in LocalSegment
    BY <1>1
  <2>2. \A x \in LocalSegment : x.text \in Nat
    BY VersionsAssumption DEF LocalSegment
  <2> QED BY <2>1, <2>2
<1> HIDE DEF loc
<1>3. ~LocalLess(loc, <<>>)
  BY <1>1 DEF LocalLess
<1>4. ASSUME \A i \in DOMAIN loc : loc[i].text < MaxText
      PROVE  ~LocalLess(<<max>>, loc)
  <2>1. \A i \in DOMAIN loc : ~SegmentLess(max, loc[i]) /\ ~SegmentEqual(max, loc[i])
    <3> SUFFICES ASSUME NEW i \in DOMAIN loc
                 PROVE  ~SegmentLess(max, loc[i]) /\ ~SegmentEqual(max, loc[i])
      OBVIOUS
    <3>1. ~Numeric(max, loc[i]) /\ max.text = MaxText
      BY DEF Numeric
    <3>2. loc[i].text \in Nat /\ loc[i].text < MaxText /\ MaxText \in Nat
      BY <1>2, <1>4, VersionsAssumption
    <3> HIDE DEF max
    <3> QED BY <3>1, <3>2 DEF SegmentLess, SegmentEqual
  <2>2. DOMAIN <<max>> = 1..1 /\ Len(<<max>>) = 1 /\ <<max>>[1] = max
    OBVIOUS
  <2> DEFINE one == <<max>>
  <2>3. DOMAIN one = 1..1 /\ Len(one) = 1 /\ one[1] = max
    BY <2>2
  <2> HIDE DEF max, one
  <2>4. ~LocalLess(one, loc)
    <3>1. ~\E i \in DOMAIN one \cap DOMAIN loc : SegmentLess(one[i], loc[i])
      BY <2>1, <2>3
    <3>2. ASSUME Len(one) < Len(loc), \A j \in 1..Len(one) : SegmentEqual(one[j], loc[j])
          PROVE  FALSE
      <4>1. 1 \in DOMAIN loc /\ 1 \in 1..Len(one)
        BY <1>1, <2>3, <3>2
      <4> QED BY <2>1, <2>3, <3>2, <4>1
    <3> QED BY <3>1, <3>2 DEF LocalLess
  <2> QED BY <2>4 DEF one
<1> QED BY <1>3, <1>4 DEF loc

\* The bounds that requirements_to_range moves keep out, or let in, just what
\* belongs to the version that is written: above V is nothing that differs from
\* it in a post-release alone, below V are no dev-releases of V, and up to V are
\* all its local versions.  This is so for every V that has neither a
\* dev-release nor a local part, and for all versions that are before the
\* places the bounds move to.
THEOREM BoundsExact ==
    ASSUME NEW c \in VersionConstraint, NEW v \in VypVersion, Plain(c.version)
    PROVE  /\ (c.op = ">" /\ c.version.post = None /\ v.post # MaxU32) =>
                 (InRange(c, v) <=>
                      Less(c.version, v) /\ ~SameBase(v, c.version))
           /\ (c.op = "<" /\ c.version.pre = None) =>
                 (InRange(c, v) <=>
                      /\ Less(v, c.version)
                      /\ ~PublicEqual(WithDev(v, None), c.version))
           /\ (c.op = "<=" /\ \A i \in DOMAIN v.local : v.local[i].text < MaxText) =>
                 (InRange(c, v) <=> AtMost(WithoutLocal(v), c.version))
<1> DEFINE w == c.version
           len == Longest(v.release, w.release)
<1>1. w \in VypVersion /\ w.dev = None /\ w.local = <<>>
  BY DEF VersionConstraint, Plain, IsLocal
<1> HIDE DEF w
<1>2. len \in Nat /\ Len(v.release) <= len /\ Len(w.release) <= len
  <2>1. Len(v.release) \in Nat /\ Len(w.release) \in Nat
    BY <1>1 DEF VypVersion
  <2> QED BY <2>1 DEF Longest
<1> HIDE DEF len
<1>3. \A x \in (0..MaxU32) \cup {None} :
         /\ PostKey(x) \in 0..(MaxU32 + 1) /\ DevKey(x) \in 0..(MaxU32 + 1)
         /\ x # MaxU32 => PostKey(x) < MaxU32 + 1
  BY VersionsAssumption DEF PostKey, DevKey
<1>4. /\ PostKey(MaxU32) = MaxU32 + 1 /\ DevKey(None) = MaxU32 + 1
      /\ PostKey(None) = 0 /\ DevKey(0) = 0 /\ MaxU32 \in Nat
  BY VersionsAssumption DEF PostKey, DevKey
<1>5. /\ v.post \in (0..MaxU32) \cup {None} /\ v.dev \in (0..MaxU32) \cup {None}
      /\ w.post \in (0..MaxU32) \cup {None}
  BY <1>1 DEF VypVersion
<1> DEFINE pv == PostKey(v.post)
           pw == PostKey(w.post)
           dv == DevKey(v.dev)
           m == MaxU32 + 1
<1>6. /\ pv \in 0..m /\ pw \in 0..m /\ dv \in 0..m /\ m \in Nat /\ m > 0
      /\ v.post # MaxU32 => pv < m
  BY <1>3, <1>4, <1>5
<1>7. /\ DevKey(w.dev) = m /\ DevKey(None) = m /\ PostKey(MaxU32) = m
      /\ PostKey(None) = 0 /\ DevKey(0) = 0
  BY <1>1, <1>4
<1>8. /\ ~LocalLess(v.local, <<>>) /\ ~LocalLess(<<>>, <<>>)
  <2>1. ~LocalLess(<<>>, <<>>)
    BY DEF LocalLess
  <2> QED BY <2>1, LocalEnds
<1> DEFINE before(x, y) == FrontBefore(x, y, len)
           alike(x, y) == FrontAlike(x, y, len)
<1>9. alike(v, w) <=> alike(w, v)
  BY DEF FrontAlike, Alike
<1>10. /\ PublicLess(v, w) <=>
             before(v, w) \/ (alike(v, w) /\ (pv < pw \/ (pv = pw /\ dv < m)))
       /\ PublicEqual(v, w) <=> alike(v, w) /\ pv = pw /\ dv = m
       /\ ~(before(v, w) /\ alike(v, w))
  BY <1>1, <1>2, <1>7, OrderByParts
<1>11. /\ PublicLess(w, v) <=>
             before(w, v) \/ (alike(w, v) /\ (pw < pv \/ (pw = pv /\ m < dv)))
       /\ PublicEqual(w, v) <=> alike(w, v) /\ pw = pv /\ m = dv
       /\ ~(before(w, v) /\ alike(w, v))
  BY <1>1, <1>2, <1>7, OrderByParts
<1>12. ASSUME c.op = ">", w.post = None, v.post # MaxU32
       PROVE  InRange(c, v) <=> Less(w, v) /\ ~SameBase(v, w)
  <2> DEFINE post == WithPostMax(w)
             vb == [v EXCEPT !.post = None, !.dev = None]
             wb == [w EXCEPT !.post = None, !.dev = None]
  <2>1. /\ post \in VypVersion /\ post.epoch = w.epoch
        /\ post.release = w.release /\ post.pre = w.pre
        /\ post.post = MaxU32 /\ post.dev = None /\ post.local = <<>>
    <3>1. MaxU32 \in (0..MaxU32) \cup {None}
      BY VersionsAssumption
    <3> QED BY <1>1, <3>1 DEF VypVersion, WithPostMax
  <2>2. /\ vb \in VypVersion /\ vb.epoch = v.epoch /\ vb.release = v.release
        /\ vb.pre = v.pre /\ vb.post = None /\ vb.dev = None
    BY DEF VypVersion
  <2>3. /\ wb \in VypVersion /\ wb.epoch = w.epoch /\ wb.release = w.release
        /\ wb.pre = w.pre /\ wb.post = None /\ wb.dev = None
    BY <1>1 DEF VypVersion
  <2>4. SameBase(v, w) <=> PublicEqual(vb, wb)
    BY DEF SameBase
  <2>5. InRange(c, v) <=> Less(post, v)
    BY <1>12, <1>1 DEF InRange, Plain, w
  <2> HIDE DEF post, vb, wb
  <2>6. SameBase(v, w) <=> alike(v, w)
    <3>1. PublicEqual(vb, wb) <=> alike(vb, wb)
      BY <1>2, <2>2, <2>3, OrderByParts
    <3>2. alike(vb, wb) <=> alike(v, wb)
      BY <1>2, <2>2, <2>3, SameFront
    <3>3. alike(v, wb) <=> alike(v, w)
      BY <1>1, <1>2, <2>3, SameFront
    <3> QED BY <2>4, <3>1, <3>2, <3>3
  <2>7. /\ before(post, v) <=> before(w, v)
        /\ alike(post, v) <=> alike(w, v)
    BY <1>1, <1>2, <2>1, SameFront
  <2>8. /\ PublicLess(post, v) <=>
              before(post, v) \/ (alike(post, v) /\ (m < pv \/ (m = pv /\ m < dv)))
        /\ PublicEqual(post, v) <=> alike(post, v) /\ m = pv /\ m = dv
    BY <1>2, <1>7, <2>1, OrderByParts
  <2>9. Less(post, v) <=> before(w, v)
    BY <1>6, <1>12, <2>7, <2>8 DEF Less
  <2>10. pw = 0
    BY <1>7, <1>12
  <2> HIDE DEF pv, pw, dv, m
  <2>11. Less(w, v) /\ ~alike(v, w) <=> before(w, v)
    BY <1>9, <1>11 DEF Less
  <2> QED BY <2>5, <2>6, <2>9, <2>11
<1>13. ASSUME c.op = "<", w.pre = None
       PROVE  InRange(c, v) <=> Less(v, w) /\ ~PublicEqual(WithDev(v, None), w)
  <2> DEFINE dev == WithDev(w, 0)
             vd == WithDev(v, None)
  <2>1. /\ dev \in VypVersion /\ dev.epoch = w.epoch
        /\ dev.release = w.release /\ dev.pre = w.pre
        /\ dev.post = w.post /\ dev.dev = 0 /\ dev.local = <<>>
    <3>1. 0 \in (0..MaxU32) \cup {None}
      BY VersionsAssumption
    <3> QED BY <1>1, <3>1 DEF VypVersion, WithDev
  <2>2. /\ vd \in VypVersion /\ vd.epoch = v.epoch /\ vd.release = v.release
        /\ vd.pre = v.pre /\ vd.post = v.post /\ vd.dev = None
    BY DEF VypVersion, WithDev
  <2>3. InRange(c, v) <=> Less(v, dev)
    BY <1>13, <1>1 DEF InRange, Plain, w
  <2> HIDE DEF dev, vd
  <2>4. PublicEqual(vd, w) <=> alike(v, w) /\ pv = pw
    <3>1. PublicEqual(vd, w) <=> alike(vd, w) /\ pv = pw
      BY <1>1, <1>2, <1>7, <2>2, OrderByParts
    <3>2. alike(vd, w) <=> alike(v, w)
      BY <1>1, <1>2, <2>2, SameFront
    <3> QED BY <3>1, <3>2
  <2>5. /\ before(v, dev) <=> before(v, w)
        /\ alike(v, dev) <=> alike(v, w)
    BY <1>1, <1>2, <2>1, SameFront
  <2>6. PublicLess(v, dev) <=>
            before(v, dev) \/ (alike(v, dev) /\ (pv < pw \/ (pv = pw /\ dv < 0)))
    BY <1>2, <1>7, <2>1, OrderByParts
  <2>7. Less(v, dev) <=> PublicLess(v, dev)
    BY <1>8, <2>1 DEF Less
  <2>8. Less(v, w) <=> PublicLess(v, w)
    BY <1>1, <1>8 DEF Less
  <2>9. ~(dv < 0) /\ (pv < pw => pv # pw)
    BY <1>6
  <2> HIDE DEF pv, pw, dv, m
  <2>10. Less(v, dev) <=> before(v, w) \/ (alike(v, w) /\ pv < pw)
    BY <2>5, <2>6, <2>7, <2>9
  <2>11. Less(v, w) /\ ~(alike(v, w) /\ pv = pw)
            <=> before(v, w) \/ (alike(v, w) /\ pv < pw)
    BY <1>10, <2>8, <2>9
  <2> QED BY <2>3, <2>4, <2>10, <2>11 DEF vd
<1>14. ASSUME c.op = "<=", \A i \in DOMAIN v.local : v.local[i].text < MaxText
       PROVE  InRange(c, v) <=> AtMost(WithoutLocal(v), w)
  <2> DEFINE local == WithLocalMax(w)
             vl == WithoutLocal(v)
             max == <<[number |-> None, text |-> MaxText]>>
  <2>1. max \in Seq(LocalSegment)
    <3>1. [number |-> None, text |-> MaxText] \in LocalSegment
      BY VersionsAssumption DEF LocalSegment
    <3> QED BY <3>1
  <2> HIDE DEF max
  <2>2. /\ local \in VypVersion /\ local.epoch = w.epoch
        /\ local.release = w.release /\ local.pre = w.pre
        /\ local.post = w.post /\ local.dev = None /\ local.local = max
    BY <1>1, <2>1 DEF VypVersion, WithLocalMax, max
  <2>3. /\ vl \in VypVersion /\ vl.epoch = v.epoch /\ vl.release = v.release
        /\ vl.pre = v.pre /\ vl.post = v.post /\ vl.dev = v.dev
        /\ vl.local = <<>>
    <3>1. <<>> \in Seq(LocalSegment)
      OBVIOUS
    <3> QED BY <3>1 DEF VypVersion, WithoutLocal
  <2>4. InRange(c, v) <=> ~Less(local, v)
    BY <1>14 DEF InRange, AtMost, w
  <2>5. AtMost(vl, w) <=> ~Less(w, vl)
    BY DEF AtMost
  <2> HIDE DEF local, vl
  <2>6. ~LocalLess(max, v.local)
    BY <1>14, LocalEnds DEF max
  <2>7. Less(local, v) <=> PublicLess(local, v)
    BY <2>2, <2>6 DEF Less
  <2>8. Less(w, vl) <=> PublicLess(w, vl)
    BY <1>1, <1>8, <2>3 DEF Less
  <2>9. PublicLess(local, v) <=>
            before(local, v) \/ (alike(local, v) /\ (pw < pv \/ (pw = pv /\ m < dv)))
    BY <1>2, <1>7, <2>2, OrderByParts
  <2>10. PublicLess(w, vl) <=>
            before(w, vl) \/ (alike(w, vl) /\ (pw < pv \/ (pw = pv /\ m < dv)))
    BY <1>1, <1>2, <1>7, <2>3, OrderByParts
  <2>11. /\ before(local, v) <=> before(w, v)
         /\ alike(local, v) <=> alike(w, v)
    BY <1>1, <1>2, <2>2, SameFront
  <2>12. /\ before(w, vl) <=> before(w, v)
         /\ alike(w, vl) <=> alike(w, v)
    BY <1>1, <1>2, <2>3, SameFront
  <2> HIDE DEF pv, pw, dv, m, before, alike
  <2> QED BY <2>4, <2>5, <2>7, <2>8, <2>9, <2>10, <2>11, <2>12 DEF vl
<1> QED BY <1>12, <1>13, <1>14 DEF w
=============================================================================
