----------------------------- MODULE WheelTags ------------------------------
(***************************************************************************)
(* Which wheels run on a host and which of them is best                    *)
(* (crates/vyp-index/src/wheel_compat.rs).  A tag is a tuple of its parts; *)
(* a field of a file name, split at the dashes, is a compressed set of     *)
(* tags and a note whether it starts with a digit.                         *)
(***************************************************************************)
EXTENDS Integers, Sequences, FiniteSets, SequencesExt

CONSTANT Hosts      \* the hosts that wheels are chosen for

CPython == "cpython"

Glibc == "glibc"

Musl == "musl"

\* A host: its platform, its C library with a minor version, the product
\* version of macOS, and its Python 3.
IsHost(h) ==
    /\ h.sys \in {"linux", "darwin", "win32"}
    /\ h.libc \in {Glibc, Musl, "unknown"} /\ h.libcMinor \in Nat
    /\ h.macos \in Nat \X Nat
    /\ {h.minor, h.micro} \subseteq Nat /\ h.freeThreaded \in BOOLEAN

ASSUME HostsAssumption == \A h \in Hosts : IsHost(h)

-----------------------------------------------------------------------------
(* The tags of a host, from the most to the least preferred.               *)

Descending(high, low) == [k \in 1..(high - low + 1) |-> high + 1 - k]

\* The tags that Tag makes of the numbers of a sequence.
Each(Tag(_), numbers) == [k \in DOMAIN numbers |-> Tag(numbers[k])]

Prefix(h) == IF h.implementation = CPython THEN "cp" ELSE h.implementation

PythonTags(h) ==
    <<<<Prefix(h), 3, h.minor>>>>
        \o Each(LAMBDA m : <<"py", 3, m>>, Descending(h.minor, 0))
        \o <<<<"py", 3>>>>

AbiTags(h) ==
    (IF h.freeThreaded THEN <<<<Prefix(h), 3, h.minor, "t">>>> ELSE <<>>)
        \o <<<<Prefix(h), 3, h.minor>>>>
        \o (IF h.implementation = CPython THEN <<<<"abi3">>>> ELSE <<>>)
        \o <<<<"none">>>>

Legacy(arch) == <<<<"manylinux2010", arch>>, <<"manylinux1", arch>>>>

\* The name that wheels for Linux have for the processor.
LinuxArch(h) ==
    CASE h.machine = "arm64" -> "aarch64"
      [] h.machine = "amd64" -> "x86_64"
      [] OTHER -> h.machine

AtLeast(minor, low) == IF minor < low THEN low ELSE minor

GlibcTags(minor, arch) ==
    Each(LAMBDA y : <<"manylinux", 2, y, arch>>,
         Descending(AtLeast(minor, 17), 17))
      \o <<<<"manylinux2014", arch>>>>
      \o (IF arch \in {"x86_64", "i686"} THEN Legacy(arch) ELSE <<>>)

MuslTags(minor, arch) ==
    Each(LAMBDA y : <<"musllinux", 1, y, arch>>,
         Descending(AtLeast(minor, 1), 1))

\* build_linux_tags: only tags of the C library of the host.
LinuxTags(h) ==
    LET arch == LinuxArch(h)
        libc == CASE h.libc = Glibc -> GlibcTags(h.libcMinor, arch)
                  [] h.libc = Musl -> MuslTags(h.libcMinor, arch)
                  [] OTHER -> <<<<"manylinux", 2, 17, arch>>,
                                <<"manylinux2014", arch>>>> \o Legacy(arch)
    IN  libc \o <<<<"linux", arch>>>>

MacArch(h) == IF h.machine = "aarch64" THEN "arm64" ELSE h.machine

MacVariants(arch) ==
    CASE arch = "arm64" -> <<"arm64", "universal2">>
      [] arch = "x86_64" ->
            <<"x86_64", "universal2", "intel", "fat64", "fat32">>
      [] OTHER -> <<"universal2">>

\* From the version of the host down to 10.0; before 11 the minor counts.
MacLines(version) ==
    Each(LAMBDA m : <<m, 0>>, Descending(version[1], 11))
      \o Each(LAMBDA m : <<10, m>>,
              Descending(IF version[1] = 10 THEN version[2] ELSE 15, 0))

\* build_macos_tags: every variant for every line.
MacosTags(h) ==
    LET variants == MacVariants(MacArch(h))
        lines == MacLines(h.macos)
        count == Len(variants)
    IN  [k \in 1..(Len(lines) * count) |->
            LET line == lines[1 + ((k - 1) \div count)]
            IN  <<"macosx", line[1], line[2], variants[1 + ((k - 1) % count)]>>]

WindowsTags(h) ==
    CASE h.machine \in {"x86_64", "amd64"} -> <<<<"win", "amd64">>>>
      [] h.machine \in {"arm64", "aarch64"} -> <<<<"win", "arm64">>>>
      [] h.machine \in {"x86", "i386", "i686"} -> <<<<"win32">>>>
      [] OTHER -> <<<<"win", h.machine>>>>

PlatformTags(h) ==
    (CASE h.sys = "linux" -> LinuxTags(h)
       [] h.sys = "darwin" -> MacosTags(h)
       [] OTHER -> WindowsTags(h)) \o <<<<"any">>>>

-----------------------------------------------------------------------------
(* Wheels.                                                                 *)

\* tag_fields: the places of the Python, ABI and platform fields, behind a
\* build tag and before a variant label, if there are such.
TagFields(parts) ==
    LET first == CASE Len(parts) = 5 -> 3
                   [] Len(parts) = 6 -> IF parts[3].digit THEN 4 ELSE 3
                   [] Len(parts) = 7 -> 4
                   [] OTHER -> 0
    IN  IF first = 0 THEN <<>>
        ELSE [k \in 1..3 |-> parts[first + k - 1].tags]

\* PlatformTags::from_env, built once for a host: the lists and their sets.
Supported ==
    [h \in Hosts |-> <<PythonTags(h), AbiTags(h), PlatformTags(h)>>]

SupportedSet == [h \in Hosts |-> [k \in 1..3 |-> ToSet(Supported[h][k])]]

IsCompatible(h, parts) ==
    LET fields == TagFields(parts)
    IN  fields # <<>> /\ \A k \in 1..3 : fields[k] \cap SupportedSet[h][k] # {}

\* best_rank: how far from the end of the list its first match is.
Preference(tags, list) ==
    Len(list) + 1 - CHOOSE i \in DOMAIN list :
        list[i] \in tags /\ \A j \in 1..(i - 1) : list[j] \notin tags

\* The platform weighs most, then the ABI, then Python.
Weighed(preference) ==
    1 + preference[3] * 10000 + preference[2] * 100 + preference[1]

CompatibilityScore(h, parts) ==
    IF ~IsCompatible(h, parts) THEN 0
    ELSE Weighed([k \in 1..3 |->
                     Preference(TagFields(parts)[k], Supported[h][k])])
=============================================================================
