----------------------------- MODULE Environment -----------------------------
(***************************************************************************)
(* Virtual environments: how the linker fills site-packages from archived  *)
(* wheels, what RECORD says of it, and the commands that install a lock,   *)
(* synchronise an environment with it, and uninstall.  A file that is not  *)
(* cloned is a hard link: the environments and the archive share it.  The  *)
(* list of an archive's files is taken to be whole (see WheelCache).       *)
(***************************************************************************)
EXTENDS Integers, Sequences, FiniteSets, SequencesExt

CONSTANTS
    Env,            \* virtual environments
    Wheel,          \* archived wheels, one per distribution
    NameOf,         \* the name of the distribution of a wheel
    Contents,       \* the paths of a wheel in zip order, RECORD left out
    Launchers,      \* the scripts its entry points name
    SitePackages,   \* the paths in site-packages
    Protected,      \* names sync never removes
    Locks,          \* sets of wheels a lock may ask for
    CanReflink,     \* the file system clones files
    Bundled,        \* the wheels each environment starts with
    MaxFailures,    \* bound on failures, those passed over included, and kills
    None

Path == UNION {Range(Contents[k]) \cup Launchers[k] : k \in Wheel}
Owned(k) == Range(Contents[k]) \cup Launchers[k]

\* A file in an environment, and the RECORD of a distribution.
File == [own: BOOLEAN, of: Wheel]

Record == [own: {TRUE}, lists: SUBSET Path] \cup [own: {FALSE}]

ASSUME EnvironmentAssumption ==
    /\ None \notin Wheel \cup File \cup Record
    /\ \A k \in Wheel : Contents[k] \in Seq(Path) /\ Launchers[k] \subseteq Path
    /\ Locks \subseteq SUBSET Wheel /\ Bundled \in [Env -> SUBSET Wheel]
    /\ CanReflink \in BOOLEAN /\ MaxFailures \in Nat
    \* The wheels of a lock are linked in parallel: with nothing in common, one
    \* after the other comes to the same.
    /\ \A lock \in Locks : \A j, k \in lock :
          j # k => Owned(j) \cap Owned(k) = {}

VARIABLES
    archived,       \* what is in the files of each archive: the wheel it is of
    archivedRecord, \* the paths the RECORD file of each archive lists
    files,          \* the file at a path: None, its own content, or a link
    records,        \* the RECORD of a distribution: None, its own list, or a
                    \* link to that of the archive
    dists,          \* the distributions that have a dist-info directory
    command,        \* the command that runs
    failures,       \* failures and kills so far
    \* Only the properties look at these:
    cutShort,       \* wheels whose linking stopped half-way somewhere
    unremoved       \* files <<e, p>> that could not be removed and have not
                    \* been written since

world == <<archived, archivedRecord, files, records, dists>>
history == <<cutShort, unremoved>>
vars == <<world, command, failures, history>>

Own(k) == [own |-> TRUE, of |-> k]
LinkTo(k) == [own |-> FALSE, of |-> k]

ContentAt(e, p) == IF files[e][p].own THEN files[e][p].of
                                      ELSE archived[files[e][p].of][p]

Listed(e, k) == IF k \in dists[e] /\ records[e][k] # None
                THEN IF records[e][k].own THEN records[e][k].lists
                                          ELSE archivedRecord[k]
                ELSE {}

NoCommand == [pc |-> "idle", env |-> None, lock |-> {}, victims |-> {},
              kept |-> {}, left |-> {}, fresh |-> {}, wheel |-> None,
              todo |-> <<>>, failed |-> FALSE]

Init ==
    /\ archived = [k \in Wheel |-> [p \in Path |-> k]]
    /\ archivedRecord = [k \in Wheel |-> Range(Contents[k])]
    /\ files = [e \in Env |-> [p \in Path |->
          IF \E k \in Bundled[e] : p \in Owned(k)
          THEN Own(CHOOSE k \in Bundled[e] : p \in Owned(k)) ELSE None]]
    /\ records = [e \in Env |-> [k \in Wheel |->
          IF k \in Bundled[e] THEN [own |-> TRUE, lists |-> Owned(k)] ELSE None]]
    /\ dists = Bundled
    /\ command = NoCommand
    /\ failures = 0
    /\ cutShort = {} /\ unremoved = {}

At(pc) == command.pc = pc
Here == command.env
Linking == command.wheel

Faults(n) == failures + n <= MaxFailures /\ failures' = failures + n

\* What is written, or removed, is no longer what a removal left.
Settled(paths) == unremoved' = unremoved \ ({Here} \X paths)

----------------------------------------------------------------------------
\* Commands: install, sync and uninstall.

Extraneous(e, lock) ==
    {k \in dists[e] : NameOf[k] \notin {NameOf[j] : j \in lock} \cup Protected}

\* The extraneous distributions are removed before anything is installed.
StartSync(e, lock) ==
    /\ At("idle")
    /\ command' = [NoCommand EXCEPT !.pc = "removing", !.env = e,
                                    !.lock = lock, !.left = lock,
                                    !.victims = Extraneous(e, lock)]
    /\ UNCHANGED <<world, failures, history>>

StartInstall(e, lock) ==
    /\ At("idle")
    /\ command' = [NoCommand EXCEPT !.pc = "removing", !.env = e,
                                    !.lock = lock, !.left = lock]
    /\ UNCHANGED <<world, failures, history>>

\* The first distribution of that name in the order of the directory.
StartUninstall(e, name) ==
    /\ At("idle")
    /\ \E k \in dists[e] :
         /\ NameOf[k] = name
         /\ command' = [NoCommand EXCEPT !.pc = "removing", !.env = e,
                                         !.victims = {k}]
    /\ UNCHANGED <<world, failures, history>>

Remaining(e, k) == {p \in Listed(e, k) : files[e][p] # None}

\* Every path RECORD lists, whoever else owns it.
RemoveFile(k) ==
    /\ At("removing") /\ k \in command.victims
    /\ \E p \in Remaining(Here, k) :
         /\ files' = [files EXCEPT ![Here][p] = None]
         /\ Settled({p})
    /\ UNCHANGED <<archived, archivedRecord, records, dists, command, failures,
                   cutShort>>

\* What cannot be removed is passed over: one file, those of a directory, or,
\* where RECORD cannot be read, all.
LeaveFiles(k) ==
    /\ At("removing") /\ k \in command.victims
    /\ Faults(1)
    /\ \E paths \in (SUBSET Remaining(Here, k)) \ {{}} :
         /\ command' = [command EXCEPT !.kept = @ \cup paths]
         /\ unremoved' = unremoved \cup ({Here} \X paths)
    /\ UNCHANGED <<world, cutShort>>

\* The dist-info directory goes last, RECORD with it, whatever was left.  If it
\* cannot be removed it stays, with or without RECORD; no one is told.
RemoveDistInfo(k) ==
    /\ At("removing") /\ k \in command.victims
    /\ Remaining(Here, k) \subseteq command.kept
    /\ \/ /\ dists' = [dists EXCEPT ![Here] = @ \ {k}]
          /\ records' = [records EXCEPT ![Here][k] = None]
          /\ UNCHANGED failures
       \/ /\ Faults(1)
          /\ \/ records' = [records EXCEPT ![Here][k] = None]
             \/ UNCHANGED records
          /\ UNCHANGED dists
    /\ command' = [command EXCEPT !.victims = @ \ {k}]
    /\ UNCHANGED <<archived, archivedRecord, files, history>>

\* Mutant of StartLinking: an environment with nothing extraneous counts as new.
StartLinkingBlind ==
    /\ At("removing") /\ command.victims = {}
    /\ command' = [command EXCEPT !.pc = "linking", !.fresh = command.left]
    /\ UNCHANGED <<world, failures, history>>

\* assume_fresh: if site-packages is empty, nothing is looked for when the
\* wheels are linked that were in the cache, or, if none was, those that are
\* downloaded.
StartLinking ==
    LET empty == /\ dists[Here] = {}
                 /\ \A p \in Path \cap SitePackages : files[Here][p] = None
    IN  /\ At("removing") /\ command.victims = {}
        /\ \E cached \in SUBSET command.left :
             command' = [command EXCEPT !.pc = "linking",
                           !.fresh = IF ~empty THEN {}
                                     ELSE IF cached = {} THEN command.left
                                     ELSE cached]
        /\ UNCHANGED <<world, failures, history>>

----------------------------------------------------------------------------
\* install_wheel.

NextWheel(k) ==
    /\ At("linking") /\ Linking = None /\ k \in command.left
    /\ command' = [command EXCEPT !.wheel = k, !.left = @ \ {k},
                                  !.todo = Contents[k]]
    /\ UNCHANGED <<world, failures, history>>

\* place_file: clone, else link, else copy.  The first two fail on a target
\* that exists; copying then writes into it, through a link as well.
PlaceFile ==
    LET p == Head(command.todo)
        k == Linking
        old == files[Here][p]
        overwrite == k \in command.fresh /\ old # None
    IN  /\ At("linking") /\ k # None /\ command.todo # <<>>
        /\ command' = [command EXCEPT !.todo = Tail(@)]
        /\ archived' = IF overwrite /\ ~old.own
                       THEN [archived EXCEPT ![old.of][p] = archived[k][p]]
                       ELSE archived
        /\ files' = [files EXCEPT ![Here][p] =
              CASE overwrite -> IF old.own THEN Own(archived[k][p]) ELSE old
                [] ~overwrite /\ CanReflink -> Own(archived[k][p])
                [] OTHER -> LinkTo(k)]
        /\ Settled({p})
        /\ UNCHANGED <<archivedRecord, records, dists, failures, cutShort>>

\* The wheel's own RECORD is placed like any file of it.
PlaceRecord ==
    LET k == Linking
        old == records[Here][k]
    IN  /\ At("linking") /\ k # None /\ command.todo = <<>>
        /\ dists' = [dists EXCEPT ![Here] = @ \cup {k}]
        /\ records' = [records EXCEPT ![Here][k] =
              IF CanReflink THEN [own |-> TRUE, lists |-> archivedRecord[k]]
                            ELSE [own |-> FALSE]]
        /\ command' = [command EXCEPT !.pc = "launchers"]
        /\ UNCHANGED <<archived, archivedRecord, files, failures, history>>

\* Launchers are written in place, whatever is there.
WriteLaunchers ==
    LET k == Linking
        through == {p \in Launchers[k] : /\ files[Here][p] # None
                                         /\ ~files[Here][p].own}
    IN  /\ At("launchers")
        /\ files' = [files EXCEPT ![Here] = [p \in Path |->
              IF p \in Launchers[k] \ through THEN Own(k) ELSE files[Here][p]]]
        /\ archived' = [j \in Wheel |-> [p \in Path |->
              IF p \in through /\ files[Here][p].of = j THEN k
                                                        ELSE archived[j][p]]]
        /\ command' = [command EXCEPT !.pc = "recording"]
        /\ Settled(Launchers[k])
        /\ UNCHANGED <<archivedRecord, records, dists, failures, cutShort>>

\* RECORD is truncated and then written, where it is.
RewriteRecord(k, lists) ==
    IF records[Here][k].own
    THEN /\ records' = [records EXCEPT ![Here][k] =
                              [own |-> TRUE, lists |-> lists]]
         /\ UNCHANGED archivedRecord
    ELSE /\ archivedRecord' = [archivedRecord EXCEPT ![k] = lists]
         /\ UNCHANGED records

TruncateRecord ==
    /\ At("recording")
    /\ RewriteRecord(Linking, {})
    /\ command' = [command EXCEPT !.pc = "truncated"]
    /\ UNCHANGED <<archived, files, dists, failures, history>>

\* Mutant of WriteRecord: the launchers are not recorded.
WriteRecordOfWheel ==
    /\ At("truncated")
    /\ RewriteRecord(Linking, Range(Contents[Linking]))
    /\ command' = [command EXCEPT !.pc = "linking", !.wheel = None]
    /\ UNCHANGED <<archived, files, dists, failures, history>>

WriteRecord ==
    /\ At("truncated")
    /\ RewriteRecord(Linking, Owned(Linking))
    /\ command' = [command EXCEPT !.pc = "linking", !.wheel = None]
    /\ UNCHANGED <<archived, files, dists, failures, history>>

\* Placing a file, or writing one, fails: the other wheels go on.
FailWheel ==
    /\ Linking # None
    /\ Faults(1)
    /\ cutShort' = cutShort \cup {Linking}
    /\ command' = [command EXCEPT !.pc = "linking", !.wheel = None,
                                  !.todo = <<>>, !.failed = TRUE]
    /\ UNCHANGED <<world, unremoved>>

\* Success is reported if no wheel failed.
Finish ==
    /\ At("linking") /\ Linking = None /\ command.left = {}
    /\ command' = [command EXCEPT !.pc = IF command.failed THEN "failed"
                                                           ELSE "done"]
    /\ UNCHANGED <<world, failures, history>>

End ==
    /\ command.pc \in {"done", "failed"}
    /\ command' = NoCommand
    /\ UNCHANGED <<world, failures, history>>

Kill ==
    /\ command.pc \notin {"idle", "done", "failed"}
    /\ Faults(1)
    /\ command' = NoCommand
    /\ cutShort' = cutShort \cup ({Linking} \ {None})
    /\ UNCHANGED <<world, unremoved>>

Next ==
    \/ \E e \in Env : \/ \E lock \in Locks : \/ StartSync(e, lock)
                                             \/ StartInstall(e, lock)
                      \/ \E name \in Range(NameOf) : StartUninstall(e, name)
    \/ \E k \in Wheel : \/ RemoveFile(k) \/ LeaveFiles(k)
                        \/ RemoveDistInfo(k)
                        \/ NextWheel(k)
    \/ StartLinking \/ PlaceFile \/ PlaceRecord \/ WriteLaunchers
    \/ TruncateRecord \/ WriteRecord \/ FailWheel \/ Finish \/ End \/ Kill

Spec == Init /\ [][Next]_vars

----------------------------------------------------------------------------
\* What must hold of environments.

\* After an installation that reports success every locked wheel is there:
\* each of its files, with the content the wheel published, and listed.
InstalledWhole ==
    At("done") => \A k \in command.lock :
        /\ Owned(k) \subseteq Listed(Here, k)
        /\ \A p \in Owned(k) : files[Here][p] # None /\ ContentAt(Here, p) = k

\* Uninstalling everything leaves nothing but what could not be removed: a file
\* that no RECORD lists is one whose removal failed and was passed over, or is
\* of a wheel that is being linked, or whose linking stopped half-way, here or
\* in any environment that shares its RECORD.
NoStrays ==
    \A e \in Env, p \in Path : files[e][p] # None =>
        \/ \E k \in dists[e] : p \in Listed(e, k)
        \/ <<e, p>> \in unremoved
        \/ \E k \in cutShort \cup ({Linking} \ {None}) : p \in Owned(k)
=============================================================================
