--------------------------- MODULE EnvironmentProofs ---------------------------
(***************************************************************************)
(* An installation that reports success is whole, and every file is listed *)
(* by a RECORD or was left by a step that failed or was cut short, for any *)
(* number of environments, wheels and locks, of failures, reported or not, *)
(* and of kills.  The hard links make the first depend on what every other *)
(* environment did to the archives.                                        *)
(***************************************************************************)
EXTENDS Environment, SequenceLemmas

\* The files of wheels are in site-packages, and launchers are not: no wheel has
\* a data directory with files for other places.  (One that has may find such a
\* file there already, although site-packages is empty.)
Sited == \A k \in Wheel : /\ Range(Contents[k]) \subseteq SitePackages
                          /\ Launchers[k] \cap SitePackages = {}

Steps == {"linking", "launchers", "recording", "truncated"}

Command ==
    [pc: {"idle", "removing", "done", "failed"} \cup Steps, env: Env \cup {None},
     lock: SUBSET Wheel, victims: SUBSET Wheel, kept: SUBSET Path,
     left: SUBSET Wheel, fresh: SUBSET Wheel, wheel: Wheel \cup {None},
     todo: Seq(Path), failed: BOOLEAN]

Shapes ==
    /\ archived \in [Wheel -> [Path -> Wheel]]
    /\ archivedRecord \in [Wheel -> SUBSET Path]
    /\ files \in [Env -> [Path -> File \cup {None}]]
    /\ records \in [Env -> [Wheel -> Record \cup {None}]]
    /\ dists \in [Env -> SUBSET Wheel]
    /\ command \in Command
    /\ cutShort \subseteq Wheel

\* Where a command is: what it has still to link, and which wheel it is at.
InOrder ==
    /\ command.pc # "idle" => Here \in Env
    /\ command.left \subseteq command.lock
    /\ command.pc = "idle" => command.wheel = None
    /\ command.pc # "idle" /\ command.lock # {} => command.lock \in Locks
    /\ command.pc = "removing" =>
          command.left = command.lock /\ command.wheel = None /\ ~command.failed
    /\ command.pc \in Steps \ {"linking"} =>
          command.wheel # None /\ command.todo = <<>>
    /\ command.pc = "done" =>
          command.left = {} /\ command.wheel = None /\ ~command.failed
    /\ command.wheel # None =>
          /\ command.pc \in Steps
          /\ command.wheel \in command.lock \ command.left
          /\ Range(command.todo) \subseteq Range(Contents[command.wheel])

\* RECORD lists nothing but what is of its wheel.
ListsOwned ==
    /\ \A k \in Wheel : archivedRecord[k] \subseteq Owned(k)
    /\ \A e \in Env, k \in Wheel : records[e][k] # None /\ records[e][k].own =>
          records[e][k].lists \subseteq Owned(k)

\* Launchers and RECORD are written after the wheel's RECORD is placed.
RecordPlaced ==
    command.pc \in Steps \ {"linking"} =>
        Linking \in dists[Here] /\ records[Here][Linking] # None

\* The RECORD of k in e is that of the archive, which is being rewritten.
Rewriting(e, k) ==
    /\ command.pc = "truncated"
    /\ ~records[Here][k].own
    /\ k \in dists[e] /\ records[e][k] # None /\ ~records[e][k].own

\* NoStrays, with the wheel being linked made accountable for its own
\* environment and for those that share the RECORD it rewrites.
Accounted(e, p) ==
    \/ \E k \in dists[e] : p \in Listed(e, k)
    \/ <<e, p>> \in unremoved
    \/ \E k \in cutShort : p \in Owned(k)
    \/ /\ Linking # None /\ p \in Owned(Linking)
       /\ e = Here \/ Rewriting(e, Linking)

\* What the command has passed over is known not to have been removed.
KeptFiles ==
    command.pc = "removing" => \A p \in command.kept :
        files[Here][p] # None => <<Here, p>> \in unremoved

AllAccounted ==
    \A e \in Env, p \in Path : files[e][p] # None => Accounted(e, p)

Inv == /\ Shapes /\ InOrder /\ ListsOwned /\ RecordPlaced /\ KeptFiles
       /\ AllAccounted

\* Archives hold what their wheels published, and every link leads to a file
\* that the wheel has.
Genuine ==
    \A k \in Wheel : \A p \in Range(Contents[k]) : archived[k][p] = k

LinksLead ==
    \A e \in Env, p \in Path : files[e][p] # None /\ ~files[e][p].own =>
        p \in Range(Contents[files[e][p].of])

\* Where site-packages was empty, there is nothing in it but what this command
\* has placed.
FreshlyPlaced ==
    command.pc \in Steps /\ command.fresh # {} =>
        \A p \in Path \cap SitePackages : files[Here][p] # None =>
            \E j \in command.lock \ command.left :
                p \in Owned(j) /\ files[Here][p].of = j

Good(p, k) == files[Here][p] # None /\ ContentAt(Here, p) = k

\* What is placed of the wheel that is being linked, and of those before it.
Progress ==
    /\ Linking # None =>
          \A p \in Range(Contents[Linking]) :
             p \in Range(command.todo) \/ Good(p, Linking)
    /\ command.pc \in {"recording", "truncated"} =>
          \A p \in Launchers[Linking] : Good(p, Linking)
    /\ command.pc \in Steps \cup {"done"} /\ ~command.failed =>
          \A k \in command.lock \ (command.left \cup {Linking}) :
             /\ Owned(k) \subseteq Listed(Here, k)
             /\ \A p \in Owned(k) : Good(p, k)

WholeInv == Genuine /\ LinksLead /\ FreshlyPlaced /\ Progress

-----------------------------------------------------------------------------
(* Shapes and the order of steps.                                          *)

LEMMA InitShapes == Init => Shapes /\ InOrder /\ ListsOwned
<1> SUFFICES ASSUME Init PROVE Shapes /\ InOrder /\ ListsOwned
  OBVIOUS
<1> USE DEF Init
<1>1. \A k \in Wheel : Owned(k) \subseteq Path
  BY EnvironmentAssumption DEF Owned, Path
<1>2. archivedRecord \in [Wheel -> SUBSET Path]
  BY <1>1 DEF Owned
<1>3. archived \in [Wheel -> [Path -> Wheel]]
  OBVIOUS
<1>4. files \in [Env -> [Path -> File \cup {None}]]
  <2>1. ASSUME NEW e \in Env, NEW p \in Path
        PROVE  files[e][p] \in File \cup {None}
    <3>1. CASE \E k \in Bundled[e] : p \in Owned(k)
      <4> DEFINE k == CHOOSE j \in Bundled[e] : p \in Owned(j)
      <4>1. k \in Wheel
        BY <3>1, EnvironmentAssumption
      <4>2. files[e][p] = Own(k)
        BY <3>1
      <4> QED BY <4>1, <4>2 DEF Own, File
    <3>2. CASE ~ \E k \in Bundled[e] : p \in Owned(k)
      BY <3>2
    <3> QED BY <3>1, <3>2
  <2> QED BY <2>1
<1>5. records \in [Env -> [Wheel -> Record \cup {None}]]
  BY <1>1 DEF Record
<1>6. dists \in [Env -> SUBSET Wheel]
  BY EnvironmentAssumption
<1>7. command \in Command
  BY DEF NoCommand, Command
<1>8. ListsOwned
  BY EnvironmentAssumption DEF ListsOwned, Owned
<1> QED BY <1>2, <1>3, <1>4, <1>5, <1>6, <1>7, <1>8
        DEF Shapes, InOrder, NoCommand, Steps

\* The actions that only move the command on.
Moves ==
    \/ \E e \in Env : \/ \E lock \in Locks : \/ StartSync(e, lock)
                                             \/ StartInstall(e, lock)
                      \/ \E name \in Range(NameOf) : StartUninstall(e, name)
    \/ StartLinking \/ Finish \/ End
    \/ \E k \in Wheel : NextWheel(k)

LEMMA StartShapes ==
    ASSUME Shapes, InOrder, NEW e \in Env, NEW lock \in Locks,
           StartSync(e, lock) \/ StartInstall(e, lock)
    PROVE  command' \in Command /\ InOrder'
<1>1. Extraneous(e, lock) \subseteq Wheel /\ lock \subseteq Wheel
  BY EnvironmentAssumption DEF Extraneous, Shapes
<1>2. PICK v \in SUBSET Wheel :
         command' = [pc |-> "removing", env |-> e, lock |-> lock,
                     victims |-> v, kept |-> {}, left |-> lock, fresh |-> {},
                     wheel |-> None, todo |-> <<>>, failed |-> FALSE]
  BY <1>1 DEF StartSync, StartInstall, NoCommand
<1>3. command' \in Command
  BY <1>1, <1>2 DEF Command
<1>4. InOrder'
  BY <1>1, <1>2 DEF InOrder, Here, Linking, Steps
<1> QED BY <1>3, <1>4

LEMMA UninstallShapes ==
    ASSUME Shapes, InOrder, NEW e \in Env, NEW name, StartUninstall(e, name)
    PROVE  command' \in Command /\ InOrder'
<1>1. PICK k \in Wheel :
         command' = [pc |-> "removing", env |-> e, lock |-> {},
                     victims |-> {k}, kept |-> {}, left |-> {}, fresh |-> {},
                     wheel |-> None, todo |-> <<>>, failed |-> FALSE]
  BY DEF StartUninstall, NoCommand, Shapes
<1>2. command' \in Command
  BY <1>1 DEF Command
<1>3. InOrder'
  BY <1>1 DEF InOrder, Here, Linking, Steps
<1> QED BY <1>2, <1>3

LEMMA NextWheelShapes ==
    ASSUME Shapes, InOrder, NEW k \in Wheel, NextWheel(k)
    PROVE  command' \in Command /\ InOrder'
<1>1. Contents[k] \in Seq(Path)
  BY EnvironmentAssumption
<1>2. /\ command' = [command EXCEPT !.wheel = k, !.left = @ \ {k},
                                    !.todo = Contents[k]]
      /\ command.pc = "linking" /\ k \in command.left
  BY DEF NextWheel, At
<1>3. command' \in Command
  BY <1>1, <1>2 DEF Command, Shapes
<1>4. /\ command'.pc = "linking" /\ command'.wheel = k
      /\ command'.left = command.left \ {k} /\ command'.todo = Contents[k]
      /\ command'.lock = command.lock /\ command'.env = command.env
  BY <1>2 DEF Command, Shapes
<1>5. InOrder'
  BY <1>2, <1>4, EnvironmentAssumption DEF InOrder, Here, Linking, Steps
<1> QED BY <1>3, <1>5

LEMMA FieldsType ==
    ASSUME Shapes
    PROVE  /\ command.todo \in Seq(Path) /\ command.wheel \in Wheel \cup {None}
           /\ command.left \subseteq Wheel /\ command.lock \subseteq Wheel
           /\ command = [pc |-> command.pc, env |-> command.env,
                         lock |-> command.lock, victims |-> command.victims,
                         kept |-> command.kept, left |-> command.left,
                         fresh |-> command.fresh, wheel |-> command.wheel,
                         todo |-> command.todo, failed |-> command.failed]
BY DEF Shapes, Command

LEMMA ListedOwned ==
    ASSUME Shapes, ListsOwned, NEW e \in Env, NEW k \in Wheel
    PROVE  Listed(e, k) \subseteq Owned(k) /\ Owned(k) \subseteq Path
BY DEF Listed, ListsOwned, Shapes, Record, Owned, Path

LEMMA MovesShapes ==
    ASSUME Shapes, InOrder, Moves
    PROVE  command' \in Command /\ InOrder'
<1>1. CASE StartLinking
  <2>1. PICK f \in SUBSET command.left :
           command' = [command EXCEPT !.pc = "linking", !.fresh = f]
    BY <1>1 DEF StartLinking
  <2>2. command.pc = "removing"
    BY <1>1 DEF StartLinking, At
  <2> QED BY <2>1, <2>2 DEF Shapes, Command, InOrder, Here, Linking, Steps
<1>2. CASE Finish
  <2>1. PICK pc \in {"done", "failed"} :
           /\ command' = [command EXCEPT !.pc = pc]
           /\ pc = "done" => ~command.failed
    BY <1>2 DEF Finish
  <2>2. command.pc = "linking" /\ command.wheel = None /\ command.left = {}
    BY <1>2 DEF Finish, At, Linking
  <2> QED BY <2>1, <2>2 DEF Shapes, Command, InOrder, Here, Linking, Steps
<1>3. CASE End
  BY <1>3 DEF End, NoCommand, Command, InOrder, Here, Linking, Steps
<1> QED BY <1>1, <1>2, <1>3, StartShapes, UninstallShapes, NextWheelShapes
        DEF Moves

LEMMA RewriteShapes ==
    ASSUME Shapes, InOrder, ListsOwned, RecordPlaced,
           command.pc \in Steps \ {"linking"},
           NEW lists \in SUBSET Owned(Linking), RewriteRecord(Linking, lists)
    PROVE  /\ records' \in [Env -> [Wheel -> Record \cup {None}]]
           /\ archivedRecord' \in [Wheel -> SUBSET Path]
           /\ ListsOwned'
           /\ \A e \in Env, k \in Wheel :
                 /\ records'[e][k] # None <=> records[e][k] # None
                 /\ records[e][k] # None =>
                       records'[e][k].own = records[e][k].own
<1>1. Here \in Env /\ Linking \in Wheel
  BY FieldsType DEF InOrder, Linking, Steps
<1>2. lists \subseteq Path
  BY <1>1, ListedOwned
<1>3. CASE records[Here][Linking].own
  <2> DEFINE new == [own |-> TRUE, lists |-> lists]
  <2>1. /\ records' = [records EXCEPT ![Here][Linking] = new]
        /\ UNCHANGED archivedRecord
    BY <1>3 DEF RewriteRecord
  <2>2. records[Here][Linking] \in Record
    BY <1>1 DEF Shapes, RecordPlaced
  <2>3. new \in Record /\ new.own /\ new.lists = lists
    BY <1>2 DEF Record
  <2>4. new # None
    BY <2>3, EnvironmentAssumption
  <2> HIDE DEF new
  <2>5. /\ \A e \in Env, k \in Wheel :
              records'[e][k] = IF e = Here /\ k = Linking THEN new
                                                          ELSE records[e][k]
        /\ records' \in [Env -> [Wheel -> Record \cup {None}]]
    BY <1>1, <2>1, <2>3 DEF Shapes
  <2>6. ListsOwned'
    BY <2>1, <2>3, <2>5 DEF ListsOwned, Owned
  <2>7. new.own = records[Here][Linking].own
    BY <1>3, <2>2, <2>3 DEF Record
  <2> QED BY <1>1, <2>1, <2>2, <2>4, <2>5, <2>6, <2>7, EnvironmentAssumption
          DEF Shapes
<1>4. CASE ~records[Here][Linking].own
  <2>1. /\ archivedRecord' = [archivedRecord EXCEPT ![Linking] = lists]
        /\ UNCHANGED records
    BY <1>4 DEF RewriteRecord
  <2> QED BY <1>1, <1>2, <2>1 DEF Shapes, ListsOwned
<1> QED BY <1>3, <1>4

\* What rewriting a RECORD changes, here and in the environments that share it.
LEMMA RewriteLists ==
    ASSUME Shapes, InOrder, ListsOwned, RecordPlaced,
           command.pc \in Steps \ {"linking"},
           NEW lists \in SUBSET Owned(Linking), RewriteRecord(Linking, lists),
           UNCHANGED dists, NEW e \in Env, NEW j \in Wheel
    PROVE  Listed(e, j)' =
               IF /\ j = Linking /\ j \in dists[e] /\ records[e][j] # None
                  /\ e = Here \/ (~records[Here][j].own /\ ~records[e][j].own)
               THEN lists ELSE Listed(e, j)
<1>1. Here \in Env /\ Linking \in Wheel
  BY FieldsType DEF InOrder, Linking, Steps
<1>2. Linking \in dists[Here] /\ records[Here][Linking] # None
  BY DEF RecordPlaced
<1>3. CASE records[Here][Linking].own
  <2> DEFINE new == [own |-> TRUE, lists |-> lists]
  <2>1. /\ records' = [records EXCEPT ![Here][Linking] = new]
        /\ UNCHANGED archivedRecord
    BY <1>3 DEF RewriteRecord
  <2>2. new.own /\ new.lists = lists
    OBVIOUS
  <2>3. new # None
    <3>1. new \in Record
      BY <1>1, ListedOwned DEF Record
    <3> QED BY <3>1, EnvironmentAssumption
  <2> HIDE DEF new
  <2>4. records'[e][j] = IF e = Here /\ j = Linking THEN new ELSE records[e][j]
    BY <1>1, <2>1 DEF Shapes
  <2>5. CASE e = Here /\ j = Linking
    BY <1>1, <1>2, <2>2, <2>3, <2>4, <2>5 DEF Listed
  <2>6. CASE ~(e = Here /\ j = Linking)
    BY <1>3, <2>1, <2>4, <2>6 DEF Listed
  <2> QED BY <2>5, <2>6
<1>4. CASE ~records[Here][Linking].own
  <2>1. /\ archivedRecord' = [archivedRecord EXCEPT ![Linking] = lists]
        /\ UNCHANGED records
    BY <1>4 DEF RewriteRecord
  <2>2. archivedRecord'[j] = IF j = Linking THEN lists ELSE archivedRecord[j]
    BY <2>1 DEF Shapes
  <2> QED BY <1>1, <1>2, <1>4, <2>1, <2>2 DEF Listed
<1> QED BY <1>3, <1>4

LEMMA WorldShapes ==
    ASSUME Shapes, InOrder, ListsOwned, RecordPlaced, [Next]_vars
    PROVE  Shapes' /\ InOrder' /\ ListsOwned'
<1>1. CASE Moves
  <2>1. UNCHANGED <<world, history>>
    BY <1>1 DEF Moves, StartSync, StartInstall, StartUninstall, StartLinking,
                Finish, End, NextWheel
  <2> QED BY <1>1, <2>1, MovesShapes DEF Shapes, ListsOwned, world, history
<1>2. ASSUME NEW k \in Wheel, RemoveFile(k)
      PROVE  Shapes' /\ InOrder' /\ ListsOwned'
  <2>1. Here \in Env
    BY <1>2 DEF RemoveFile, InOrder, At
  <2>2. PICK p \in Path : files' = [files EXCEPT ![Here][p] = None]
    BY <1>2, <2>1, ListedOwned DEF RemoveFile, Remaining
  <2>3. UNCHANGED <<archived, archivedRecord, records, dists, command, cutShort>>
    BY <1>2 DEF RemoveFile
  <2>4. Shapes'
    BY <2>1, <2>2, <2>3 DEF Shapes
  <2> QED BY <2>3, <2>4 DEF InOrder, ListsOwned, Here, Linking
<1>3. ASSUME NEW k \in Wheel, RemoveDistInfo(k)
      PROVE  Shapes' /\ InOrder' /\ ListsOwned'
  <2>1. /\ dists' = [dists EXCEPT ![Here] = @ \ {k}] \/ dists' = dists
        /\ records' = [records EXCEPT ![Here][k] = None] \/ records' = records
        /\ UNCHANGED <<archived, archivedRecord, files, cutShort>>
    BY <1>3 DEF RemoveDistInfo, history
  <2>2. command.pc = "removing" /\ Here \in Env
    BY <1>3 DEF RemoveDistInfo, InOrder, At
  <2>3. command' = [command EXCEPT !.victims = @ \ {k}]
    BY <1>3 DEF RemoveDistInfo
  <2>4. command' \in Command /\ InOrder'
    BY <2>2, <2>3 DEF Shapes, Command, InOrder, Here, Linking, Steps
  <2>5. dists' \in [Env -> SUBSET Wheel]
    BY <2>1, <2>2 DEF Shapes
  <2>6. /\ records' \in [Env -> [Wheel -> Record \cup {None}]]
        /\ \A e \in Env, j \in Wheel : records'[e][j] \in {None, records[e][j]}
    <3>1. CASE records' = [records EXCEPT ![Here][k] = None]
      BY <2>2, <3>1 DEF Shapes
    <3>2. CASE records' = records
      BY <3>2 DEF Shapes
    <3> QED BY <2>1, <3>1, <3>2
  <2>7. ListsOwned'
    BY <2>1, <2>6 DEF ListsOwned
  <2> QED BY <2>1, <2>4, <2>5, <2>6, <2>7 DEF Shapes
<1>12. ASSUME NEW k \in Wheel, LeaveFiles(k)
      PROVE  Shapes' /\ InOrder' /\ ListsOwned'
  <2>1. /\ command.pc = "removing" /\ Here \in Env
        /\ UNCHANGED <<archived, archivedRecord, files, records, dists, cutShort>>
    BY <1>12 DEF LeaveFiles, InOrder, At, world
  <2>2. Remaining(Here, k) \subseteq Path
    BY <2>1, ListedOwned DEF Remaining
  <2>3. PICK paths \in SUBSET Path :
            command' = [command EXCEPT !.kept = @ \cup paths]
    BY <1>12, <2>2 DEF LeaveFiles
  <2>4. command' \in Command
    BY <2>3 DEF Shapes, Command
  <2>5. InOrder'
    <3>1. /\ command'.pc = command.pc /\ command'.env = command.env
          /\ command'.lock = command.lock /\ command'.left = command.left
          /\ command'.wheel = command.wheel /\ command'.todo = command.todo
          /\ command'.failed = command.failed
      BY <2>3, FieldsType
    <3> QED BY <3>1 DEF InOrder, Here, Steps
  <2> QED BY <2>1, <2>4, <2>5 DEF Shapes, ListsOwned
<1>4. CASE PlaceFile
  <2> DEFINE p == Head(command.todo)
             k == Linking
             old == files[Here][p]
             overwrite == k \in command.fresh /\ old # None
             placed == CASE overwrite -> IF old.own THEN Own(archived[k][p]) ELSE old
                         [] ~overwrite /\ CanReflink -> Own(archived[k][p])
                         [] OTHER -> LinkTo(k)
  <2>1. /\ command.pc = "linking" /\ k # None /\ command.todo # <<>>
        /\ command' = [command EXCEPT !.todo = Tail(@)]
        /\ files' = [files EXCEPT ![Here][p] = placed]
        /\ archived' = IF overwrite /\ ~old.own
                       THEN [archived EXCEPT ![old.of][p] = archived[k][p]]
                       ELSE archived
        /\ UNCHANGED <<archivedRecord, records, dists, cutShort>>
    BY <1>4 DEF PlaceFile, At
  <2>2. /\ Here \in Env /\ k \in Wheel /\ p \in Path
        /\ Tail(command.todo) \in Seq(Path)
        /\ Range(Tail(command.todo)) \subseteq Range(command.todo)
    BY <2>1, FieldsType, HeadTailMembers DEF InOrder, Linking
  <2>3. archived[k][p] \in Wheel /\ old \in File \cup {None}
    BY <2>2 DEF Shapes
  <2>4. placed \in File
    BY <2>2, <2>3 DEF File, Own, LinkTo
  <2>5. files' \in [Env -> [Path -> File \cup {None}]]
    BY <2>1, <2>2, <2>4 DEF Shapes
  <2>6. archived' \in [Wheel -> [Path -> Wheel]]
    BY <2>1, <2>2, <2>3 DEF Shapes
  <2>7. command' \in Command /\ InOrder'
    BY <2>1, <2>2 DEF Shapes, Command, InOrder, Here, Linking, Steps
  <2> QED BY <2>1, <2>5, <2>6, <2>7 DEF Shapes, ListsOwned
<1>5. CASE PlaceRecord
  <2> DEFINE k == Linking
             new == IF CanReflink
                    THEN [own |-> TRUE, lists |-> archivedRecord[k]]
                    ELSE [own |-> FALSE]
  <2>1. /\ command.pc = "linking" /\ k # None /\ command.todo = <<>>
        /\ command' = [command EXCEPT !.pc = "launchers"]
        /\ dists' = [dists EXCEPT ![Here] = @ \cup {k}]
        /\ records' = [records EXCEPT ![Here][k] = new]
        /\ UNCHANGED <<archived, archivedRecord, files, cutShort>>
    BY <1>5 DEF PlaceRecord, At, history
  <2>2. Here \in Env /\ k \in Wheel
    BY <2>1, FieldsType DEF InOrder, Linking
  <2>3. new \in Record /\ (new.own => new.lists \subseteq Owned(k))
    BY <2>2 DEF Record, Shapes, ListsOwned
  <2>4. command' \in Command /\ InOrder'
    BY <2>1 DEF Shapes, Command, InOrder, Here, Linking, Steps
  <2>5. Shapes'
    BY <2>1, <2>2, <2>3, <2>4 DEF Shapes
  <2>6. ListsOwned'
    BY <2>1, <2>2, <2>3 DEF Shapes, ListsOwned
  <2> QED BY <2>4, <2>5, <2>6
<1>6. CASE WriteLaunchers
  <2>1. /\ command.pc = "launchers"
        /\ command' = [command EXCEPT !.pc = "recording"]
        /\ UNCHANGED <<archivedRecord, records, dists, cutShort>>
    BY <1>6 DEF WriteLaunchers, At
  <2>2. Here \in Env /\ Linking \in Wheel
    BY <2>1, FieldsType DEF InOrder, Linking, Steps
  <2>3. command' \in Command /\ InOrder'
    BY <2>1 DEF Shapes, Command, InOrder, Here, Linking, Steps
  <2>4. Own(Linking) \in File
    BY <2>2 DEF Own, File
  <2>5. files' \in [Env -> [Path -> File \cup {None}]]
    BY <1>6, <2>2, <2>4 DEF WriteLaunchers, Shapes
  <2>6. archived' \in [Wheel -> [Path -> Wheel]]
    BY <1>6, <2>2 DEF WriteLaunchers, Shapes
  <2> QED BY <2>1, <2>3, <2>5, <2>6 DEF Shapes, ListsOwned
<1>7. CASE TruncateRecord
  <2>1. /\ command.pc = "recording"
        /\ command' = [command EXCEPT !.pc = "truncated"]
        /\ UNCHANGED <<archived, files, dists, cutShort>>
        /\ RewriteRecord(Linking, {})
    BY <1>7 DEF TruncateRecord, At, history
  <2>2. command' \in Command /\ InOrder'
    BY <2>1 DEF Shapes, Command, InOrder, Here, Linking, Steps
  <2> QED BY <2>1, <2>2, RewriteShapes DEF Shapes, Steps
<1>8. CASE WriteRecord
  <2>1. /\ command.pc = "truncated"
        /\ command' = [command EXCEPT !.pc = "linking", !.wheel = None]
        /\ UNCHANGED <<archived, files, dists, cutShort>>
        /\ RewriteRecord(Linking, Owned(Linking))
    BY <1>8 DEF WriteRecord, At, history
  <2>2. command' \in Command /\ InOrder'
    BY <2>1 DEF Shapes, Command, InOrder, Here, Linking, Steps
  <2> QED BY <2>1, <2>2, RewriteShapes DEF Shapes, Steps
<1>9. CASE FailWheel
  <2>1. /\ Linking # None
        /\ command' = [command EXCEPT !.pc = "linking", !.wheel = None,
                                      !.todo = <<>>, !.failed = TRUE]
        /\ cutShort' = cutShort \cup {Linking}
        /\ UNCHANGED world
    BY <1>9 DEF FailWheel
  <2>2. command.wheel \in Wheel /\ command.pc \in Steps
    BY <2>1, FieldsType DEF Linking, InOrder, Shapes, Command
  <2>4. command' = [pc |-> "linking", env |-> command.env,
                    lock |-> command.lock, victims |-> command.victims,
                    kept |-> command.kept, left |-> command.left,
                    fresh |-> command.fresh, wheel |-> None, todo |-> <<>>,
                    failed |-> TRUE]
    BY <2>1, FieldsType
  <2>5. command' \in Command
    BY <2>4 DEF Shapes, Command, Steps
  <2>6. InOrder'
    BY <2>2, <2>4 DEF InOrder, Here, Linking, Steps
  <2>3. command' \in Command /\ InOrder'
    BY <2>5, <2>6
  <2> QED BY <2>1, <2>2, <2>3 DEF Shapes, ListsOwned, world, Linking
<1>10. CASE Kill
  <2>1. /\ command' = NoCommand /\ UNCHANGED world
        /\ cutShort' = cutShort \cup ({Linking} \ {None})
    BY <1>10 DEF Kill
  <2>2. command' \in Command /\ InOrder'
    BY <2>1 DEF NoCommand, Command, InOrder, Here, Linking, Steps
  <2> QED BY <2>1, <2>2, FieldsType DEF Shapes, ListsOwned, world, Linking
<1>11. CASE UNCHANGED vars
  BY <1>11 DEF vars, world, history, Shapes, InOrder, ListsOwned, Here, Linking
<1> QED
  BY <1>1, <1>2, <1>3, <1>4, <1>5, <1>6, <1>7, <1>8, <1>9, <1>10, <1>11, <1>12
  DEF Next, Moves

LEMMA RecordStaysPlaced ==
    ASSUME Shapes, InOrder, ListsOwned, RecordPlaced, [Next]_vars
    PROVE  RecordPlaced'
<1>1. CASE PlaceRecord
  <2>1. /\ command.pc = "linking" /\ Linking # None
        /\ Here' = Here /\ Linking' = Linking
    BY <1>1, FieldsType DEF PlaceRecord, At, Here, Linking
  <2>2. Here \in Env /\ Linking \in Wheel
    BY <2>1, FieldsType DEF InOrder, Linking
  <2>3. dists' = [dists EXCEPT ![Here] = @ \cup {Linking}]
    BY <1>1 DEF PlaceRecord
  <2>4. \/ records' = [records EXCEPT ![Here][Linking] =
                          [own |-> TRUE, lists |-> archivedRecord[Linking]]]
        \/ records' = [records EXCEPT ![Here][Linking] = [own |-> FALSE]]
    BY <1>1 DEF PlaceRecord
  <2>5. /\ [own |-> FALSE] # None
        /\ [own |-> TRUE, lists |-> archivedRecord[Linking]] # None
    <3>1. /\ [own |-> FALSE] \in Record
          /\ [own |-> TRUE, lists |-> archivedRecord[Linking]] \in Record
      BY <2>2 DEF Shapes, Record
    <3> QED BY <3>1, EnvironmentAssumption
  <2> QED BY <2>1, <2>2, <2>3, <2>4, <2>5 DEF RecordPlaced, Shapes
<1>2. CASE WriteLaunchers
  <2>1. /\ command.pc = "launchers" /\ Here' = Here /\ Linking' = Linking
        /\ UNCHANGED <<records, dists>>
    BY <1>2, FieldsType DEF WriteLaunchers, At, Here, Linking
  <2> QED BY <2>1 DEF RecordPlaced, Steps
<1>3. CASE TruncateRecord
  <2>1. /\ command.pc = "recording" /\ Here' = Here /\ Linking' = Linking
        /\ RewriteRecord(Linking, {}) /\ UNCHANGED dists
    BY <1>3, FieldsType DEF TruncateRecord, At, Here, Linking
  <2>2. Here \in Env /\ Linking \in Wheel
    BY <2>1, FieldsType DEF InOrder, Linking, Steps
  <2> QED BY <2>1, <2>2, RewriteShapes DEF RecordPlaced, Steps
<1>4. ASSUME NEW k \in Wheel, RemoveFile(k) \/ LeaveFiles(k) \/ RemoveDistInfo(k)
      PROVE  command'.pc = "removing"
  BY <1>4, FieldsType DEF RemoveFile, LeaveFiles, RemoveDistInfo, At
<1>5. ASSUME PlaceFile \/ StartLinking \/ WriteRecord \/ FailWheel
             \/ \E k \in Wheel : NextWheel(k)
      PROVE  command'.pc = "linking"
  BY <1>5, FieldsType
  DEF PlaceFile, StartLinking, WriteRecord, FailWheel, NextWheel, At
<1>6. ASSUME Finish \/ End \/ Kill PROVE command'.pc \in {"idle", "done", "failed"}
  BY <1>6, FieldsType DEF Finish, End, Kill, NoCommand
<1>7. ASSUME NEW e \in Env, \/ \E lock \in Locks : \/ StartSync(e, lock)
                                                    \/ StartInstall(e, lock)
                            \/ \E name \in Range(NameOf) :
                                   StartUninstall(e, name)
      PROVE  command'.pc = "removing"
  BY <1>7 DEF StartSync, StartInstall, StartUninstall, NoCommand
<1>8. CASE UNCHANGED vars
  BY <1>8 DEF vars, world, RecordPlaced, Here, Linking
<1> QED
  BY <1>1, <1>2, <1>3, <1>4, <1>5, <1>6, <1>7, <1>8
  DEF Next, RecordPlaced, Steps

-----------------------------------------------------------------------------
(* Every file is accounted for.                                            *)

LEMMA InitAccounted == Init => RecordPlaced /\ KeptFiles /\ AllAccounted
<1> SUFFICES ASSUME Init PROVE RecordPlaced /\ KeptFiles /\ AllAccounted
  OBVIOUS
<1>1. RecordPlaced /\ KeptFiles
  BY DEF Init, NoCommand, RecordPlaced, KeptFiles, Steps
<1>2. ASSUME NEW e \in Env, NEW p \in Path, files[e][p] # None
      PROVE  Accounted(e, p)
  <2>1. PICK k \in Bundled[e] : p \in Owned(k)
    BY <1>2 DEF Init
  <2>2. k \in Wheel /\ k \in dists[e]
    BY <2>1, EnvironmentAssumption DEF Init
  <2>3. records[e][k] = [own |-> TRUE, lists |-> Owned(k)]
    BY <2>1, <2>2 DEF Init
  <2>4. Owned(k) \subseteq Path
    BY <2>2, EnvironmentAssumption DEF Owned, Path
  <2>5. records[e][k] # None
    <3>1. [own |-> TRUE, lists |-> Owned(k)] \in Record
      BY <2>4 DEF Record
    <3> QED BY <2>3, <3>1, EnvironmentAssumption
  <2> QED BY <2>1, <2>2, <2>3, <2>5 DEF Accounted, Listed
<1> QED BY <1>1, <1>2 DEF AllAccounted

LEMMA StillAccounted ==
    ASSUME Inv, [Next]_vars, NEW e \in Env, NEW p \in Path,
           files'[e][p] # None
    PROVE  Accounted(e, p)'
<1> USE DEF Inv
<1>1. CASE Moves
  <2>1. UNCHANGED <<world, history>>
    BY <1>1 DEF Moves, StartSync, StartInstall, StartUninstall, StartLinking,
                Finish, End, NextWheel
  <2>2. Linking = None
    BY <1>1 DEF Moves, StartSync, StartInstall, StartUninstall, StartLinking,
                Finish, End, NextWheel, At, InOrder, Linking, Steps
  <2> QED BY <2>1, <2>2 DEF AllAccounted, Accounted, Listed, world, history
<1>2. ASSUME NEW k \in Wheel, RemoveFile(k) PROVE Accounted(e, p)'
  <2>1. Here \in Env
    BY <1>2 DEF RemoveFile, InOrder, At
  <2>2. PICK q \in Path : /\ files' = [files EXCEPT ![Here][q] = None]
                           /\ unremoved' = unremoved \ ({Here} \X {q})
    BY <1>2, <2>1, ListedOwned DEF RemoveFile, Remaining, Settled
  <2>3. UNCHANGED <<archivedRecord, records, dists, command, cutShort>>
    BY <1>2 DEF RemoveFile
  <2>4. files[e][p] # None /\ ~(e = Here /\ p = q)
    BY <2>1, <2>2 DEF Shapes
  <2>5. <<e, p>> \in unremoved => <<e, p>> \in unremoved'
    BY <2>2, <2>4
  <2> QED BY <2>3, <2>4, <2>5 DEF AllAccounted, Accounted, Listed, Rewriting,
                                  Here, Linking
<1>12. ASSUME NEW k \in Wheel, LeaveFiles(k) PROVE Accounted(e, p)'
  <2>1. /\ unremoved \subseteq unremoved'
        /\ Linking' = Linking /\ Here' = Here /\ command'.pc = command.pc
    BY <1>12, FieldsType DEF LeaveFiles, Linking, Here
  <2> QED BY <1>12, <2>1 DEF LeaveFiles, AllAccounted, Accounted, Listed,
                             Rewriting, world
<1>3. ASSUME NEW k \in Wheel, RemoveDistInfo(k) PROVE Accounted(e, p)'
  <2>1. /\ dists' = [dists EXCEPT ![Here] = @ \ {k}] \/ dists' = dists
        /\ records' = [records EXCEPT ![Here][k] = None] \/ records' = records
        /\ UNCHANGED <<archivedRecord, files, cutShort, unremoved>>
        /\ Remaining(Here, k) \subseteq command.kept
    BY <1>3 DEF RemoveDistInfo, history
  <2>2. command.pc = "removing" /\ Here \in Env /\ Linking = None
    BY <1>3 DEF RemoveDistInfo, InOrder, At, Linking
  <2>3. CASE (\E j \in cutShort : p \in Owned(j)) \/ <<e, p>> \in unremoved
    BY <2>1, <2>3 DEF Accounted
  <2>5. CASE e = Here /\ p \in command.kept /\ files[e][p] # None
    BY <2>1, <2>2, <2>5 DEF KeptFiles, Accounted
  <2>4. CASE \E j \in dists[e] : p \in Listed(e, j)
    <3>1. PICK j \in dists[e] : p \in Listed(e, j)
      BY <2>4
    <3>2. CASE e = Here /\ j = k
      BY <2>1, <2>5, <3>1, <3>2 DEF Remaining
    <3>3. CASE ~(e = Here /\ j = k)
      <4>1. j \in Wheel
        BY DEF Shapes
      <4>2. j \in dists'[e] /\ records'[e][j] = records[e][j]
        BY <2>1, <2>2, <3>1, <3>3, <4>1 DEF Shapes
      <4> QED BY <2>1, <3>1, <4>2 DEF Accounted, Listed
    <3> QED BY <3>2, <3>3
  <2> QED BY <2>1, <2>2, <2>3, <2>4 DEF AllAccounted, Accounted
<1>4. CASE PlaceFile
  <2> DEFINE q == Head(command.todo)
  <2>1. /\ command.pc = "linking" /\ Linking # None /\ command.todo # <<>>
        /\ Here' = Here /\ Linking' = Linking /\ command'.pc = "linking"
        /\ UNCHANGED <<archivedRecord, records, dists, cutShort>>
        /\ unremoved' = unremoved \ ({Here} \X {q})
    BY <1>4, FieldsType DEF PlaceFile, At, Settled, Here, Linking
  <2>2. \E f : files' = [files EXCEPT ![Here][q] = f]
    BY <1>4 DEF PlaceFile
  <2>3. /\ Here \in Env /\ Linking \in Wheel
        /\ q \in Path /\ q \in Owned(Linking)
    BY <2>1, FieldsType, HeadTailMembers DEF InOrder, Linking, Owned
  <2>4. CASE e = Here /\ p = q
    BY <2>1, <2>3, <2>4 DEF Accounted
  <2>5. CASE ~(e = Here /\ p = q)
    <3>1. files[e][p] # None
      BY <2>2, <2>3, <2>5 DEF Shapes
    <3>2. <<e, p>> \in unremoved => <<e, p>> \in unremoved'
      BY <2>1, <2>5
    <3> QED BY <2>1, <3>1, <3>2 DEF AllAccounted, Accounted, Listed, Rewriting
  <2> QED BY <2>4, <2>5
<1>5. CASE PlaceRecord
  <2>1. /\ command.pc = "linking" /\ Linking # None
        /\ Here' = Here /\ Linking' = Linking
        /\ dists' = [dists EXCEPT ![Here] = @ \cup {Linking}]
        /\ UNCHANGED <<archivedRecord, files, cutShort, unremoved>>
    BY <1>5, FieldsType DEF PlaceRecord, At, history, Here, Linking
  <2>2. \E r : records' = [records EXCEPT ![Here][Linking] = r]
    BY <1>5 DEF PlaceRecord
  <2>3. Here \in Env /\ Linking \in Wheel
    BY <2>1, FieldsType DEF InOrder, Linking
  <2>4. CASE e = Here /\ p \in Owned(Linking)
    BY <2>1, <2>4 DEF Accounted
  <2>5. CASE ~(e = Here /\ p \in Owned(Linking))
    <3>1. ASSUME NEW j \in dists[e], p \in Listed(e, j)
          PROVE  j \in dists'[e] /\ p \in Listed(e, j)'
      <4>1. j \in Wheel
        BY DEF Shapes
      <4>2. ~(e = Here /\ j = Linking)
        BY <2>3, <2>5, <3>1, ListedOwned
      <4>3. records'[e][j] = records[e][j] /\ j \in dists'[e]
        BY <2>1, <2>2, <2>3, <4>1, <4>2 DEF Shapes
      <4> QED BY <2>1, <3>1, <4>3 DEF Listed
    <3> QED BY <2>1, <2>5, <3>1 DEF AllAccounted, Accounted, Rewriting
  <2> QED BY <2>4, <2>5
<1>6. CASE WriteLaunchers
  <2>1. /\ command.pc = "launchers" /\ command'.pc = "recording"
        /\ Here' = Here /\ Linking' = Linking
        /\ UNCHANGED <<archivedRecord, records, dists, cutShort>>
        /\ unremoved' = unremoved \ ({Here} \X Launchers[Linking])
    BY <1>6, FieldsType DEF WriteLaunchers, At, Settled, Here, Linking
  <2>2. Here \in Env /\ Linking \in Wheel /\ Linking # None
    BY <2>1, FieldsType DEF InOrder, Linking, Steps
  <2>3. CASE e = Here /\ p \in Launchers[Linking]
    BY <2>1, <2>2, <2>3 DEF Accounted, Owned
  <2>4. CASE ~(e = Here /\ p \in Launchers[Linking])
    <3>1. files[e][p] # None
      BY <1>6, <2>2, <2>4 DEF WriteLaunchers, Shapes
    <3>2. <<e, p>> \in unremoved => <<e, p>> \in unremoved'
      BY <2>1, <2>4
    <3> QED BY <2>1, <3>1, <3>2 DEF AllAccounted, Accounted, Listed, Rewriting
  <2> QED BY <2>3, <2>4
<1>7. CASE TruncateRecord
  <2>1. /\ command.pc = "recording" /\ command'.pc = "truncated"
        /\ Here' = Here /\ Linking' = Linking
        /\ RewriteRecord(Linking, {})
        /\ UNCHANGED <<files, dists, cutShort, unremoved>>
    BY <1>7, FieldsType DEF TruncateRecord, At, history, Here, Linking
  <2>2. Here \in Env /\ Linking \in Wheel /\ Linking # None
    BY <2>1, FieldsType DEF InOrder, Linking, Steps
  <2>3. ASSUME NEW j \in dists[e], p \in Listed(e, j)
        PROVE  Accounted(e, p)'
    <3>1. j \in Wheel
      BY DEF Shapes
    <3>2. CASE Listed(e, j)' = Listed(e, j)
      BY <2>1, <2>3, <3>2 DEF Accounted
    <3>3. CASE Listed(e, j)' # Listed(e, j)
      <4>1. /\ j = Linking /\ records[e][j] # None /\ p \in Owned(j)
            /\ e = Here \/ (~records[Here][j].own /\ ~records[e][j].own)
        BY <2>1, <2>3, <3>1, <3>3, RewriteLists, ListedOwned DEF Steps
      <4>2. CASE e = Here
        BY <2>1, <2>2, <4>1, <4>2 DEF Accounted
      <4>3. CASE e # Here
        <5>1. records' = records
          BY <2>1, <4>1, <4>3 DEF RewriteRecord
        <5> QED BY <2>1, <2>2, <4>1, <4>3, <5>1 DEF Accounted, Rewriting
      <4> QED BY <4>2, <4>3
    <3> QED BY <3>2, <3>3
  <2> QED BY <2>1, <2>3 DEF AllAccounted, Accounted, Rewriting
<1>8. CASE WriteRecord
  <2>1. /\ command.pc = "truncated"
        /\ RewriteRecord(Linking, Owned(Linking))
        /\ UNCHANGED <<files, dists, cutShort, unremoved>>
    BY <1>8 DEF WriteRecord, At, history
  <2>2. Here \in Env /\ Linking \in Wheel
    BY <2>1, FieldsType DEF InOrder, Linking, Steps
  <2>3. /\ Linking \in dists[Here] /\ records[Here][Linking] # None
    BY <2>1 DEF RecordPlaced, Steps
  <2>4. ASSUME NEW j \in dists[e], p \in Listed(e, j)
        PROVE  p \in Listed(e, j)'
    <3>1. j \in Wheel
      BY DEF Shapes
    <3> QED BY <2>1, <2>4, <3>1, RewriteLists, ListedOwned DEF Steps
  <2>5. PICK k \in Wheel : k = Linking
    BY <2>2
  <2>6. Listed(e, k)' =
            IF /\ k \in dists[e] /\ records[e][k] # None
               /\ e = Here \/ (~records[Here][k].own /\ ~records[e][k].own)
            THEN Owned(k) ELSE Listed(e, k)
    BY <2>1, <2>5, RewriteLists DEF Steps
  <2>7. ASSUME p \in Owned(k), e = Here \/ Rewriting(e, k)
        PROVE  k \in dists'[e] /\ p \in Listed(e, k)'
    BY <2>1, <2>3, <2>5, <2>6, <2>7 DEF Rewriting
  <2>8. CASE \E j \in dists[e] : p \in Listed(e, j)
    BY <2>1, <2>4, <2>8 DEF Accounted
  <2>9. CASE (\E j \in cutShort : p \in Owned(j)) \/ <<e, p>> \in unremoved
    BY <2>1, <2>9 DEF Accounted
  <2>10. CASE p \in Owned(Linking) /\ (e = Here \/ Rewriting(e, Linking))
    BY <2>5, <2>7, <2>10 DEF Accounted
  <2>11. files[e][p] # None
    BY <2>1
  <2> QED BY <2>8, <2>9, <2>10, <2>11 DEF AllAccounted, Accounted
<1>9. CASE FailWheel
  BY <1>9 DEF FailWheel, AllAccounted, Accounted, Listed, world, Linking
<1>10. CASE Kill
  BY <1>10 DEF Kill, AllAccounted, Accounted, Listed, world, Linking
<1>11. CASE UNCHANGED vars
  BY <1>11 DEF vars, world, history, AllAccounted, Accounted, Listed,
               Rewriting, Here, Linking
<1> QED
  BY <1>1, <1>2, <1>3, <1>4, <1>5, <1>6, <1>7, <1>8, <1>9, <1>10, <1>11, <1>12
  DEF Next, Moves

LEMMA StillKept ==
    ASSUME Inv, [Next]_vars
    PROVE  KeptFiles'
<1> USE DEF Inv
<1>1. ASSUME Here' = Here, command'.pc = command.pc,
             command'.kept = command.kept, UNCHANGED <<files, unremoved>>
      PROVE  KeptFiles'
  BY <1>1 DEF KeptFiles
<1>2. ASSUME NEW e \in Env, \/ \E lock \in Locks : \/ StartSync(e, lock)
                                                    \/ StartInstall(e, lock)
                            \/ \E name \in Range(NameOf) :
                                   StartUninstall(e, name)
      PROVE  command'.kept = {}
  BY <1>2 DEF StartSync, StartInstall, StartUninstall, NoCommand
<1>3. ASSUME NEW k \in Wheel, RemoveFile(k) PROVE KeptFiles'
  <2>1. Here \in Env /\ command.kept \subseteq Path
    BY <1>3 DEF RemoveFile, InOrder, At, Shapes, Command
  <2>2. PICK q \in Path : /\ files' = [files EXCEPT ![Here][q] = None]
                          /\ unremoved' = unremoved \ ({Here} \X {q})
    BY <1>3, <2>1, ListedOwned DEF RemoveFile, Remaining, Settled
  <2>3. \A p \in command.kept : files'[Here][p] # None =>
            p # q /\ files[Here][p] # None
    BY <2>1, <2>2 DEF Shapes
  <2>4. \A p \in command.kept :
            p # q /\ <<Here, p>> \in unremoved => <<Here, p>> \in unremoved'
    BY <2>2
  <2> QED BY <1>3, <2>3, <2>4 DEF RemoveFile, KeptFiles, Here, At
<1>4. ASSUME NEW k \in Wheel, LeaveFiles(k) PROVE KeptFiles'
  <2>1. PICK paths : /\ command' = [command EXCEPT !.kept = @ \cup paths]
                     /\ unremoved' = unremoved \cup ({Here} \X paths)
    BY <1>4 DEF LeaveFiles
  <2>2. /\ files' = files /\ Here' = Here /\ command.pc = "removing"
        /\ command'.kept = command.kept \cup paths
    BY <1>4, <2>1, FieldsType DEF LeaveFiles, Here, At, world
  <2> QED BY <2>1, <2>2 DEF KeptFiles
<1>5. ASSUME NEW k \in Wheel, RemoveDistInfo(k) PROVE KeptFiles'
  BY <1>1, <1>5, FieldsType DEF RemoveDistInfo, Here, history
<1>6. CASE command'.pc # "removing"
  BY <1>6 DEF KeptFiles
<1>7. CASE \/ \E k \in Wheel : NextWheel(k)
           \/ StartLinking \/ PlaceFile \/ PlaceRecord \/ WriteLaunchers
           \/ TruncateRecord \/ WriteRecord \/ FailWheel \/ Finish
           \/ End \/ Kill
  <2>1. CASE TruncateRecord \/ End \/ Kill
    <3>1. command'.pc \in {"truncated", "idle"}
      BY <2>1, FieldsType DEF TruncateRecord, End, Kill, NoCommand
    <3> QED BY <1>6, <3>1
  <2>2. CASE StartLinking \/ PlaceRecord \/ WriteLaunchers
    <3>1. command'.pc \in {"linking", "launchers", "recording"}
      BY <2>2, FieldsType DEF StartLinking, PlaceRecord, WriteLaunchers
    <3> QED BY <1>6, <3>1
  <2>3. CASE WriteRecord \/ FailWheel \/ Finish
    <3>1. command'.pc \in {"linking", "failed", "done"}
      BY <2>3, FieldsType DEF WriteRecord, FailWheel, Finish
    <3> QED BY <1>6, <3>1
  <2>4. CASE PlaceFile \/ \E k \in Wheel : NextWheel(k)
    <3>1. command'.pc = "linking"
      BY <2>4, FieldsType DEF NextWheel, PlaceFile, At
    <3> QED BY <1>6, <3>1
  <2> QED BY <1>7, <2>1, <2>2, <2>3, <2>4
<1>8. CASE UNCHANGED vars
  BY <1>1, <1>8 DEF vars, world, history, Here
<1> QED BY <1>2, <1>3, <1>4, <1>5, <1>7, <1>8 DEF Next, KeptFiles

LEMMA InvStep == Inv /\ [Next]_vars => Inv'
BY WorldShapes, RecordStaysPlaced, StillKept, StillAccounted DEF Inv, AllAccounted

LEMMA InvHolds == Spec => []Inv
<1>1. Init => Inv
  BY InitShapes, InitAccounted DEF Inv
<1> QED BY <1>1, InvStep, PTL DEF Spec

\* Uninstalling what RECORD lists leaves no file behind but those it failed to
\* remove and passed over, and those of a wheel whose linking a failure or a
\* kill cut short (uninstall_by_record).
THEOREM EveryFileAccounted == Spec => []NoStrays
<1>1. Inv => NoStrays
  <2> SUFFICES ASSUME Inv, NEW e \in Env, NEW p \in Path, files[e][p] # None
               PROVE  \/ \E k \in dists[e] : p \in Listed(e, k)
                      \/ <<e, p>> \in unremoved
                      \/ \E k \in cutShort \cup ({Linking} \ {None}) :
                             p \in Owned(k)
    BY DEF NoStrays
  <2> QED BY DEF Inv, AllAccounted, Accounted
<1> QED BY <1>1, InvHolds, PTL

-----------------------------------------------------------------------------
(* Archives stay genuine, and what is linked stays good.                   *)

LEMMA LinkingFacts ==
    ASSUME Inv, Linking # None
    PROVE  /\ Here \in Env /\ Linking \in Wheel
           /\ Linking \in command.lock \ command.left
           /\ command.lock \subseteq Wheel
           /\ \A j \in command.lock :
                 j # Linking => Owned(j) \cap Owned(Linking) = {}
<1>1. /\ command.pc \in Steps /\ Linking \in command.lock \ command.left
      /\ Here \in Env
  BY DEF Inv, InOrder, Linking, Steps
<1>2. command.lock \in Locks
  BY <1>1 DEF Inv, InOrder, Steps
<1>3. command.lock \subseteq Wheel /\ Linking \in Wheel
  BY <1>1, FieldsType DEF Inv
<1> QED BY <1>1, <1>2, <1>3, EnvironmentAssumption

\* A file is placed over another only where the same wheel had placed it: the
\* archives do not change, and the file holds what its wheel published.
LEMMA PlaceEffect ==
    ASSUME Sited, Inv, Genuine, FreshlyPlaced, PlaceFile
    PROVE  /\ archived' = archived
           /\ Head(command.todo) \in Range(Contents[Linking]) \cap Path
           /\ \E f \in {Own(Linking), LinkTo(Linking)} :
                 files' = [files EXCEPT ![Here][Head(command.todo)] = f]
<1> DEFINE p == Head(command.todo)
           old == files[Here][p]
           overwrite == Linking \in command.fresh /\ old # None
<1>1. command.pc = "linking" /\ Linking # None /\ command.todo # <<>>
  BY DEF PlaceFile, At
<1>2. /\ Here \in Env /\ Linking \in Wheel
      /\ Linking \in command.lock \ command.left
  BY <1>1, LinkingFacts
<1>3. /\ p \in Path /\ p \in Range(Contents[Linking])
      /\ p \in SitePackages
  BY <1>1, <1>2, FieldsType, HeadTailMembers
  DEF Inv, InOrder, Linking, Sited
<1>4. archived[Linking][p] = Linking
  BY <1>2, <1>3 DEF Genuine
<1>5. archived = [archived EXCEPT ![Linking][p] = Linking]
  BY <1>2, <1>3, <1>4 DEF Inv, Shapes
<1>6. CASE overwrite
  <2>1. PICK j \in command.lock \ command.left : p \in Owned(j) /\ old.of = j
    BY <1>1, <1>3, <1>6 DEF FreshlyPlaced, Steps
  <2>2. j = Linking
    BY <1>1, <1>3, <2>1, LinkingFacts DEF Owned
  <2>3. old \in File
    BY <1>2, <1>3, <1>6 DEF Inv, Shapes
  <2>4. old = [own |-> old.own, of |-> Linking]
    BY <2>1, <2>2, <2>3 DEF File
  <2>5. CASE old.own
    <3>1. files' = [files EXCEPT ![Here][p] = Own(archived[Linking][p])]
          /\ archived' = archived
      BY <1>6, <2>5 DEF PlaceFile
    <3> QED BY <1>3, <1>4, <3>1
  <2>6. CASE ~old.own
    <3>1. files' = [files EXCEPT ![Here][p] = old]
          /\ archived' = [archived EXCEPT ![old.of][p] = archived[Linking][p]]
      BY <1>6, <2>6 DEF PlaceFile
    <3>2. old = LinkTo(Linking)
      BY <2>3, <2>4, <2>6 DEF LinkTo, File
    <3> QED BY <1>3, <1>4, <1>5, <2>1, <2>2, <3>1, <3>2
  <2> QED BY <2>5, <2>6
<1>7. CASE ~overwrite
  <2>1. /\ files' = [files EXCEPT ![Here][p] =
                        IF CanReflink THEN Own(archived[Linking][p])
                                      ELSE LinkTo(Linking)]
        /\ archived' = archived
    BY <1>7 DEF PlaceFile
  <2> QED BY <1>3, <1>4, <2>1
<1> QED BY <1>6, <1>7

\* No launcher is written through a link: links lie in site-packages.
LEMMA LaunchersEffect ==
    ASSUME Sited, Inv, LinksLead, WriteLaunchers
    PROVE  /\ archived' = archived
           /\ \A e \in Env, p \in Path :
                 files'[e][p] = IF e = Here /\ p \in Launchers[Linking]
                                THEN Own(Linking) ELSE files[e][p]
<1> DEFINE through == {p \in Launchers[Linking] : /\ files[Here][p] # None
                                                  /\ ~files[Here][p].own}
<1>1. command.pc = "launchers" /\ Linking # None
  BY DEF WriteLaunchers, At, Inv, InOrder, Steps, Linking
<1>2. Here \in Env /\ Linking \in Wheel
  BY <1>1, LinkingFacts
<1>3. Launchers[Linking] \subseteq Path
  BY <1>2, EnvironmentAssumption
<1>4. ASSUME NEW p \in through PROVE FALSE
  <2>1. files[Here][p] \in File
    BY <1>2, <1>3 DEF Inv, Shapes
  <2>2. p \in Range(Contents[files[Here][p].of]) /\ files[Here][p].of \in Wheel
    BY <1>2, <1>3, <2>1 DEF LinksLead, File
  <2> QED BY <1>2, <2>2 DEF Sited
<1>5. /\ files' = [files EXCEPT ![Here] = [p \in Path |->
             IF p \in Launchers[Linking] \ through THEN Own(Linking)
                                                  ELSE files[Here][p]]]
      /\ archived' = [j \in Wheel |-> [p \in Path |->
             IF p \in through /\ files[Here][p].of = j THEN Linking
                                                       ELSE archived[j][p]]]
  BY DEF WriteLaunchers
<1>6. archived' = archived
  BY <1>4, <1>5 DEF Inv, Shapes
<1>7. ASSUME NEW e \in Env, NEW p \in Path
      PROVE  files'[e][p] = IF e = Here /\ p \in Launchers[Linking]
                            THEN Own(Linking) ELSE files[e][p]
  BY <1>2, <1>4, <1>5 DEF Inv, Shapes
<1> QED BY <1>6, <1>7

LEMMA InitWhole == Init => WholeInv
<1> SUFFICES ASSUME Init PROVE WholeInv
  OBVIOUS
<1>1. Genuine
  BY EnvironmentAssumption DEF Init, Genuine, Path
<1>2. LinksLead
  BY DEF Init, LinksLead, Own
<1>3. FreshlyPlaced /\ Progress
  BY DEF Init, NoCommand, FreshlyPlaced, Progress, Linking, Steps
<1> QED BY <1>1, <1>2, <1>3 DEF WholeInv

LEMMA StaysGenuine ==
    ASSUME Sited, Inv, WholeInv, [Next]_vars
    PROVE  Genuine' /\ LinksLead'
<1> USE DEF WholeInv
<1>1. CASE UNCHANGED <<archived, files>>
  BY <1>1 DEF Genuine, LinksLead
<1>2. ASSUME NEW k \in Wheel, RemoveFile(k) PROVE Genuine' /\ LinksLead'
  <2>1. Here \in Env
    BY <1>2 DEF RemoveFile, Inv, InOrder, At
  <2>2. PICK q \in Path : files' = [files EXCEPT ![Here][q] = None]
    BY <1>2, <2>1, ListedOwned DEF RemoveFile, Remaining, Inv
  <2>3. archived' = archived
    BY <1>2 DEF RemoveFile
  <2> QED BY <2>1, <2>2, <2>3 DEF Genuine, LinksLead, Inv, Shapes
<1>3. CASE PlaceFile
  <2>1. Here \in Env /\ Linking \in Wheel
    BY <1>3, LinkingFacts DEF PlaceFile
  <2>2. PICK f \in {Own(Linking), LinkTo(Linking)} :
           files' = [files EXCEPT ![Here][Head(command.todo)] = f]
    BY <1>3, PlaceEffect
  <2>3. ASSUME NEW e \in Env, NEW p \in Path, files'[e][p] # None,
               ~files'[e][p].own
        PROVE  p \in Range(Contents[files'[e][p].of])
    <3>1. CASE e = Here /\ p = Head(command.todo)
      BY <1>3, <2>1, <2>2, <3>1, PlaceEffect DEF Own, LinkTo, Inv, Shapes
    <3>2. CASE ~(e = Here /\ p = Head(command.todo))
      BY <1>3, <2>1, <2>2, <2>3, <3>2, PlaceEffect DEF LinksLead, Inv, Shapes
    <3> QED BY <3>1, <3>2
  <2> QED BY <1>3, <2>3, PlaceEffect DEF Genuine, LinksLead
<1>4. CASE WriteLaunchers
  <2>1. Genuine'
    BY <1>4, LaunchersEffect DEF Genuine
  <2>2. LinksLead'
    BY <1>4, LaunchersEffect DEF LinksLead, Own
  <2> QED BY <2>1, <2>2
<1>5. ASSUME NEW k \in Wheel, LeaveFiles(k) \/ RemoveDistInfo(k) \/ NextWheel(k)
      PROVE  UNCHANGED <<archived, files>>
  BY <1>5 DEF LeaveFiles, RemoveDistInfo, NextWheel, world
<1>6. ASSUME \/ StartLinking \/ PlaceRecord \/ TruncateRecord \/ WriteRecord
             \/ FailWheel \/ Finish \/ End \/ Kill \/ UNCHANGED vars
      PROVE  UNCHANGED <<archived, files>>
  BY <1>6 DEF StartLinking, PlaceRecord, TruncateRecord, WriteRecord,
              FailWheel, Finish, End, Kill, vars, world
<1>7. ASSUME NEW e \in Env, \/ \E lock \in Locks : \/ StartSync(e, lock)
                                                    \/ StartInstall(e, lock)
                            \/ \E name \in Range(NameOf) :
                                   StartUninstall(e, name)
      PROVE  UNCHANGED <<archived, files>>
  BY <1>7 DEF StartSync, StartInstall, StartUninstall, world
<1> QED BY <1>1, <1>2, <1>3, <1>4, <1>5, <1>6, <1>7 DEF Next

LEMMA StaysFresh ==
    ASSUME Sited, Inv, WholeInv, [Next]_vars
    PROVE  FreshlyPlaced'
<1> USE DEF WholeInv
<1>1. CASE command'.pc \notin Steps
  BY <1>1 DEF FreshlyPlaced
<1>2. ASSUME /\ files' = files /\ command.pc \in Steps /\ Here' = Here
             /\ command'.fresh = command.fresh /\ command'.lock = command.lock
             /\ command'.left \subseteq command.left
      PROVE  FreshlyPlaced'
  BY <1>2 DEF FreshlyPlaced
<1>3. CASE StartLinking
  <2>1. /\ command'.fresh # {} =>
              \A p \in Path \cap SitePackages : files[Here][p] = None
        /\ Here' = Here /\ files' = files
    BY <1>3, FieldsType DEF StartLinking, Inv, Here, world
  <2> QED BY <2>1 DEF FreshlyPlaced
<1>4. CASE PlaceFile
  <2>1. /\ Here' = Here /\ Linking' = Linking /\ command.pc = "linking"
        /\ command'.lock = command.lock /\ command'.left = command.left
        /\ command'.fresh = command.fresh /\ Linking # None
    BY <1>4, FieldsType DEF PlaceFile, At, Inv, Here, Linking
  <2>2. Here \in Env /\ Linking \in command.lock \ command.left
    BY <2>1, LinkingFacts
  <2>3. PICK f \in {Own(Linking), LinkTo(Linking)} :
           files' = [files EXCEPT ![Here][Head(command.todo)] = f]
    BY <1>4, PlaceEffect
  <2>4. f.of = Linking
    BY <2>3 DEF Own, LinkTo
  <2>5. Head(command.todo) \in Owned(Linking)
    BY <1>4, PlaceEffect DEF Owned
  <2>6. \A p \in Path : files'[Here][p] = IF p = Head(command.todo)
                                         THEN f ELSE files[Here][p]
    BY <2>2, <2>3 DEF Inv, Shapes
  <2> QED BY <2>1, <2>2, <2>4, <2>5, <2>6 DEF FreshlyPlaced, Steps
<1>5. CASE WriteLaunchers
  <2>1. /\ Here' = Here /\ Linking' = Linking /\ command.pc = "launchers"
        /\ command'.lock = command.lock /\ command'.left = command.left
        /\ command'.fresh = command.fresh
    BY <1>5, FieldsType DEF WriteLaunchers, At, Inv, Here, Linking
  <2>2. Linking # None
    BY <2>1 DEF Inv, InOrder, Steps, Linking
  <2>3. /\ Here \in Env /\ Linking \in command.lock \ command.left
    BY <2>2, LinkingFacts
  <2>4. \A p \in Path \cap SitePackages : files'[Here][p] = files[Here][p]
    BY <1>5, <2>2, <2>3, LinkingFacts, LaunchersEffect DEF Sited
  <2> QED BY <2>1, <2>4 DEF FreshlyPlaced, Steps
<1>6. ASSUME \/ PlaceRecord \/ TruncateRecord \/ WriteRecord \/ FailWheel
             \/ \E k \in Wheel : NextWheel(k)
      PROVE  FreshlyPlaced'
  <2>1. /\ files' = files /\ Here' = Here
        /\ command'.fresh = command.fresh /\ command'.lock = command.lock
        /\ command'.left \subseteq command.left
    BY <1>6, FieldsType DEF PlaceRecord, TruncateRecord, WriteRecord,
       FailWheel, NextWheel, At, Here, world, Inv
  <2>2. command.pc \in Steps
    BY <1>6 DEF PlaceRecord, TruncateRecord, WriteRecord, FailWheel, NextWheel,
                At, Steps, Inv, InOrder, Linking
  <2> QED BY <1>2, <2>1, <2>2
<1>7. ASSUME NEW k \in Wheel, RemoveFile(k) \/ LeaveFiles(k) \/ RemoveDistInfo(k)
      PROVE  command'.pc \notin Steps
  BY <1>7, FieldsType DEF RemoveFile, LeaveFiles, RemoveDistInfo, At, Steps, Inv
<1>8. ASSUME Finish \/ End \/ Kill PROVE command'.pc \notin Steps
  BY <1>8, FieldsType DEF Finish, End, Kill, NoCommand, Steps, Inv
<1>9. ASSUME NEW e \in Env, \/ \E lock \in Locks : \/ StartSync(e, lock)
                                                    \/ StartInstall(e, lock)
                            \/ \E name \in Range(NameOf) :
                                   StartUninstall(e, name)
      PROVE  command'.pc \notin Steps
  BY <1>9 DEF StartSync, StartInstall, StartUninstall, NoCommand, Steps
<1>10. CASE UNCHANGED vars
  BY <1>10 DEF vars, world, FreshlyPlaced, Here
<1> QED BY <1>1, <1>3, <1>4, <1>5, <1>6, <1>7, <1>8, <1>9, <1>10 DEF Next

\* What of Progress a step may rely on: the wheels done keep their files.
LEMMA StaysGood ==
    ASSUME NEW e, NEW j \in Wheel, NEW p \in Path, Here' = Here, Here = e,
           UNCHANGED <<files, archived>>
    PROVE  Good(p, j)' <=> Good(p, j)
BY DEF Good, ContentAt, Here

Done(k) == /\ Owned(k) \subseteq Listed(Here, k)
           /\ \A p \in Owned(k) : Good(p, k)

LEMMA StaysDone ==
    ASSUME NEW k \in Wheel, Here' = Here, UNCHANGED <<files, archived>>,
           \A e \in {Here} : Listed(e, k)' = Listed(e, k), Done(k)
    PROVE  Done(k)'
<1>1. PICK e : e = Here /\ Here' = e
  OBVIOUS
<1>2. Listed(e, k)' = Listed(e, k)
  BY <1>1
<1>3. Listed(Here, k)' = Listed(Here, k)
  BY <1>1, <1>2 DEF Listed
<1>4. Owned(k)' = Owned(k)
  BY DEF Owned
<1> QED BY <1>3, <1>4 DEF Done, Good, ContentAt

\* The steps that place nothing and touch no list.
LEMMA CommandProgress ==
    ASSUME Inv, WholeInv, UNCHANGED world,
           \/ StartLinking \/ FailWheel \/ Finish
           \/ \E k \in Wheel : NextWheel(k)
    PROVE  Progress'
<1> USE DEF WholeInv, Inv
<1>1. UNCHANGED <<files, archived>>
      /\ \A e \in Env, k \in Wheel : Listed(e, k)' = Listed(e, k)
  BY DEF world, Listed
<1>2. Here' = Here /\ Here \in Env
  BY FieldsType DEF StartLinking, FailWheel, Finish, NextWheel, At, Here,
                    InOrder, Linking, Steps
<1>3. command.lock \subseteq Wheel /\ None \notin Wheel
  BY FieldsType, EnvironmentAssumption
<1>4. CASE StartLinking
  <2>1. /\ command'.pc = "linking" /\ command'.lock = command.lock
        /\ command'.left = command.lock /\ Linking' = None
    BY <1>4, FieldsType DEF StartLinking, At, InOrder, Linking
  <2> QED BY <2>1 DEF Progress
<1>5. CASE FailWheel
  <2>1. command'.pc = "linking" /\ command'.failed /\ Linking' = None
    BY <1>5, FieldsType DEF FailWheel, Linking
  <2> QED BY <2>1 DEF Progress
<1>6. CASE Finish
  <2>1. /\ command'.pc \in {"done", "failed"} /\ command.pc = "linking"
        /\ command'.lock = command.lock /\ command'.left = command.left
        /\ command'.failed = command.failed
        /\ Linking' = None /\ Linking = None
    BY <1>6, FieldsType DEF Finish, At, Linking
  <2>2. ASSUME NEW k \in command.lock \ command.left, ~command.failed
        PROVE  Done(k)'
    <3>1. k \in Wheel /\ k # None
      BY <1>3
    <3>2. Done(k)
      BY <2>1, <2>2, <3>1 DEF Progress, Done, Steps
    <3> QED BY <1>1, <1>2, <3>1, <3>2, StaysDone
  <2> QED BY <2>1, <2>2 DEF Progress, Done
<1>7. ASSUME NEW j \in Wheel, NextWheel(j) PROVE Progress'
  <2>1. /\ command'.pc = "linking" /\ command.pc = "linking"
        /\ command'.lock = command.lock /\ command'.left = command.left \ {j}
        /\ command'.failed = command.failed /\ command'.todo = Contents[j]
        /\ Linking' = j /\ Linking = None
    BY <1>7, FieldsType DEF NextWheel, At, Linking
  <2>2. ASSUME NEW k \in command.lock \ (command.left \cup {j}),
               ~command.failed
        PROVE  Done(k)'
    <3>1. k \in Wheel /\ k # None
      BY <1>3
    <3>2. Done(k)
      BY <2>1, <2>2, <3>1 DEF Progress, Done, Steps
    <3> QED BY <1>1, <1>2, <3>1, <3>2, StaysDone
  <2> QED BY <2>1, <2>2 DEF Progress, Done
<1> QED BY <1>4, <1>5, <1>6, <1>7

LEMMA LinkProgress ==
    ASSUME Sited, Inv, WholeInv,
           PlaceFile \/ PlaceRecord \/ WriteLaunchers
    PROVE  Progress'
<1> USE DEF WholeInv, Inv
<1>1. /\ command'.pc \in Steps /\ command.pc \in Steps /\ Linking # None
      /\ Here' = Here /\ Linking' = Linking
      /\ command'.lock = command.lock /\ command'.left = command.left
      /\ command'.failed = command.failed
  BY FieldsType DEF PlaceFile, PlaceRecord, WriteLaunchers, At, Here, Linking,
                    InOrder, Steps
<1>2. PICK e \in Env, k \in Wheel : e = Here /\ k = Linking
  BY <1>1, LinkingFacts
<1>3. \A j \in command.lock : j \in Wheel
  BY FieldsType
<1>4. \A j \in command.lock : j # k => Owned(j) \cap Owned(k) = {}
  BY <1>1, <1>2, LinkingFacts
<1>5. \A j \in command.lock \ (command.left \cup {k}) : ~command.failed => Done(j)
  BY <1>1, <1>2 DEF Progress, Done
<1>6. \A j \in Wheel : Owned(j) \subseteq Path
  BY ListedOwned, <1>2
<1>7. CASE PlaceFile
  <2>0. PICK q : q = Head(command.todo)
    OBVIOUS
  <2>1. PICK f \in {Own(k), LinkTo(k)} : files' = [files EXCEPT ![e][q] = f]
    BY <1>2, <1>7, <2>0, PlaceEffect
  <2>2. archived' = archived /\ q \in Range(Contents[k]) \cap Path
    BY <1>2, <1>7, <2>0, PlaceEffect
  <2>3. /\ command'.pc = "linking" /\ command'.todo = Tail(command.todo)
        /\ UNCHANGED <<archivedRecord, records, dists>>
        /\ command.todo # <<>>
    BY <1>7, FieldsType DEF PlaceFile, At
  <2>4. \A p \in Path : files'[e][p] = IF p = q THEN f ELSE files[e][p]
    BY <1>2, <2>1, <2>2 DEF Shapes
  <2>5. Good(q, k)'
    <3>1. f \in File /\ f.of = k
      <4>1. /\ Own(k) \in File /\ Own(k).of = k
            /\ LinkTo(k) \in File /\ LinkTo(k).of = k
        BY DEF Own, LinkTo, File
      <4> QED BY <2>1, <4>1
    <3>2. f # None
      BY <3>1, EnvironmentAssumption
    <3>3. archived'[k][q] = k
      BY <2>2 DEF Genuine
    <3>4. files'[Here'][q] = f
      BY <1>1, <1>2, <2>2, <2>4
    <3> QED BY <3>1, <3>2, <3>3, <3>4 DEF Good, ContentAt
  <2>6. \A p \in Path, j \in Wheel : p # q /\ Good(p, j) => Good(p, j)'
    BY <1>1, <1>2, <2>2, <2>4 DEF Good, ContentAt
  <2>7. \A p \in Range(Contents[k]) :
           p \in Range(command'.todo) \/ Good(p, k)'
    <3>1. Range(command.todo) = {q} \cup Range(command'.todo)
      BY <2>0, <2>3, FieldsType, HeadTailMembers
    <3>2. \A p \in Range(Contents[k]) : p \in Path
      BY <1>6 DEF Owned
    <3>3. \A p \in Range(Contents[k]) : p \in Range(command.todo) \/ Good(p, k)
      BY <1>1, <1>2 DEF Progress
    <3> QED BY <2>5, <2>6, <3>1, <3>2, <3>3
  <2>8. ASSUME NEW j \in command.lock \ (command.left \cup {k}),
               ~command.failed
        PROVE  Done(j)'
    <3>1. j \in Wheel /\ q \notin Owned(j) /\ Done(j)
      BY <1>3, <1>4, <1>5, <2>2, <2>8 DEF Owned
    <3>2. Listed(e, j)' = Listed(e, j)
      BY <2>3 DEF Listed
    <3>3. \A p \in Owned(j) : Good(p, j)'
      BY <1>6, <2>6, <3>1 DEF Done
    <3> QED BY <1>1, <1>2, <3>1, <3>2, <3>3 DEF Done, Listed
  <2> QED BY <1>1, <1>2, <2>3, <2>7, <2>8 DEF Progress, Done
<1>8. CASE PlaceRecord
  <2>1. /\ command'.pc = "launchers" /\ command'.todo = command.todo
        /\ UNCHANGED <<files, archived, archivedRecord>>
        /\ dists' = [dists EXCEPT ![e] = @ \cup {k}]
    BY <1>2, <1>8, FieldsType DEF PlaceRecord
  <2>2. \E r : records' = [records EXCEPT ![e][k] = r]
    BY <1>2, <1>8 DEF PlaceRecord
  <2>3. \A p \in Path : Good(p, k) => Good(p, k)'
    BY <1>1, <2>1 DEF Good, ContentAt
  <2>4. ASSUME NEW j \in command.lock \ (command.left \cup {k}),
               ~command.failed
        PROVE  Done(j)'
    <3>1. j \in Wheel /\ Done(j)
      BY <1>3, <1>5, <2>4
    <3>2. /\ records'[e][j] = records[e][j]
          /\ j \in dists'[e] <=> j \in dists[e]
      BY <1>2, <2>1, <2>2, <3>1 DEF Shapes
    <3>3. Listed(e, j)' = Listed(e, j)
      BY <2>1, <3>2 DEF Listed
    <3> QED BY <1>1, <1>2, <2>1, <3>1, <3>3, StaysDone
  <2>5. \A p \in Range(Contents[k]) :
           p \in Range(command'.todo) \/ Good(p, k)'
    BY <1>1, <1>2, <1>6, <2>1, <2>3 DEF Progress, Owned
  <2> QED BY <1>1, <1>2, <2>1, <2>4, <2>5 DEF Progress, Done
<1>9. CASE WriteLaunchers
  <2>1. /\ command'.pc = "recording" /\ command'.todo = command.todo
        /\ UNCHANGED <<archivedRecord, records, dists>>
    BY <1>9, FieldsType DEF WriteLaunchers
  <2>2. Launchers[k] \subseteq Path
    BY EnvironmentAssumption
  <2>3. ASSUME NEW p \in Launchers[k] PROVE Good(p, k)'
    <3>1. files'[e][p] = Own(k)
      BY <1>2, <1>9, <2>2, LaunchersEffect
    <3>2. Own(k) # None
      <4>1. Own(k) \in File
        BY DEF Own, File
      <4> QED BY <4>1, EnvironmentAssumption
    <3> QED BY <1>1, <1>2, <3>1, <3>2 DEF Good, ContentAt, Own
  <2>4. ASSUME NEW j \in command.lock, NEW p \in Owned(j), Good(p, j),
               p \notin Launchers[k]
        PROVE  Good(p, j)'
    <3>1. /\ p \in Path /\ files'[e][p] = files[e][p]
          /\ archived' = archived
      BY <1>2, <1>3, <1>6, <1>9, <2>4, LaunchersEffect
    <3> QED BY <1>1, <1>2, <2>4, <3>1 DEF Good, ContentAt
  <2>5. \A p \in Range(Contents[k]) :
           p \in Range(command'.todo) \/ Good(p, k)'
    <3>1. k \in command.lock
      BY <1>1, <1>2, LinkingFacts
    <3> QED BY <1>1, <1>2, <2>1, <2>3, <2>4, <3>1 DEF Progress, Owned
  <2>6. ASSUME NEW j \in command.lock \ (command.left \cup {k}),
               ~command.failed
        PROVE  Done(j)'
    <3>1. j \in Wheel /\ Done(j)
      BY <1>3, <1>5, <2>6
    <3>2. \A p \in Owned(j) : p \notin Launchers[k]
      BY <1>4, <2>6 DEF Owned
    <3>3. \A p \in Owned(j) : Good(p, j)'
      BY <2>4, <3>1, <3>2 DEF Done
    <3>4. Listed(e, j)' = Listed(e, j)
      BY <2>1 DEF Listed
    <3> QED BY <1>1, <1>2, <3>1, <3>3, <3>4 DEF Done, Listed
  <2> QED BY <1>1, <1>2, <2>1, <2>3, <2>5, <2>6 DEF Progress, Done
<1> QED BY <1>7, <1>8, <1>9

LEMMA RecordProgress ==
    ASSUME Inv, WholeInv, TruncateRecord \/ WriteRecord
    PROVE  Progress'
<1> USE DEF WholeInv, Inv
<1>1. /\ command.pc \in {"recording", "truncated"} /\ command.pc \in Steps
      /\ command'.pc \in {"linking", "truncated"}
      /\ Here' = Here /\ Linking # None /\ command.todo = <<>>
      /\ command'.lock = command.lock /\ command'.left = command.left
      /\ command'.failed = command.failed
      /\ UNCHANGED <<archived, files, dists>>
  BY FieldsType DEF TruncateRecord, WriteRecord, At, Here, InOrder, Linking,
                    Steps
<1>2. PICK e \in Env, k \in Wheel : e = Here /\ k = Linking
  BY <1>1, LinkingFacts
<1>3. \A j \in command.lock : j \in Wheel
  BY FieldsType
<1>4. PICK lists \in SUBSET Owned(k) : RewriteRecord(Linking, lists)
                                     /\ (WriteRecord => lists = Owned(k))
  BY <1>2 DEF TruncateRecord, WriteRecord, At
<1>5. \A j \in Wheel : Listed(e, j)' =
               IF /\ j = Linking /\ j \in dists[e] /\ records[e][j] # None
                  /\ e = Here \/ (~records[Here][j].own /\ ~records[e][j].own)
               THEN lists ELSE Listed(e, j)
  BY <1>1, <1>2, <1>4, RewriteLists DEF Steps
<1>6. ASSUME NEW j \in command.lock \ (command.left \cup {k}),
             ~command.failed
      PROVE  Done(j)'
  <2>1. j \in Wheel /\ Done(j)
    BY <1>1, <1>2, <1>3, <1>6 DEF Progress, Done
  <2>2. Listed(e, j)' = Listed(e, j)
    BY <1>2, <1>5, <1>6, <2>1
  <2> QED BY <1>1, <1>2, <2>1, <2>2, StaysDone
<1>7. \A p \in Owned(k) : Good(p, k)
  <2>1. Range(command.todo) = {}
    BY <1>1 DEF Range
  <2> QED BY <1>1, <1>2, <2>1 DEF Progress, Owned
<1>8. \A p \in Owned(k) : Good(p, k)'
  BY <1>1, <1>7 DEF Good, ContentAt
<1>9. CASE TruncateRecord
  <2>1. command'.pc = "truncated" /\ Linking' = Linking
    BY <1>9, FieldsType DEF TruncateRecord, Linking
  <2> QED BY <1>1, <1>2, <1>6, <1>8, <2>1 DEF Progress, Done, Owned
<1>10. CASE WriteRecord
  <2>1. command'.pc = "linking" /\ Linking' = None
    BY <1>10, FieldsType DEF WriteRecord, Linking
  <2>2. Linking \in dists[Here] /\ records[Here][Linking] # None
    BY <1>1, <1>10 DEF RecordPlaced, WriteRecord, At, Steps
  <2>3. Listed(e, k)' = Owned(k)
    BY <1>2, <1>4, <1>5, <1>10, <2>2
  <2>4. Done(k)'
    BY <1>1, <1>2, <1>8, <2>3 DEF Done, Listed
  <2> QED BY <1>1, <1>2, <1>6, <2>1, <2>4 DEF Progress, Done
<1> QED BY <1>9, <1>10

LEMMA ProgressStep ==
    ASSUME Sited, Inv, WholeInv, [Next]_vars
    PROVE  Progress'
<1>1. CASE StartLinking \/ FailWheel \/ Finish \/ \E k \in Wheel : NextWheel(k)
  <2>1. UNCHANGED world
    BY <1>1 DEF StartLinking, FailWheel, Finish, NextWheel
  <2> QED BY <1>1, <2>1, CommandProgress
<1>2. CASE PlaceFile \/ PlaceRecord \/ WriteLaunchers
  BY <1>2, LinkProgress
<1>3. CASE TruncateRecord \/ WriteRecord
  BY <1>3, RecordProgress
<1>4. CASE command'.pc \in {"idle", "removing"}
  <2>1. Linking' = None
    BY <1>4, InvStep DEF Inv, InOrder, Linking
  <2> QED BY <1>4, <2>1 DEF Progress, Steps
<1>5. ASSUME NEW e \in Env, \/ \E lock \in Locks : \/ StartSync(e, lock)
                                                    \/ StartInstall(e, lock)
                            \/ \E name \in Range(NameOf) :
                                   StartUninstall(e, name)
      PROVE  command'.pc = "removing"
  BY <1>5 DEF StartSync, StartInstall, StartUninstall, NoCommand
<1>6. ASSUME NEW k \in Wheel, RemoveFile(k) \/ LeaveFiles(k) \/ RemoveDistInfo(k)
      PROVE  command'.pc = "removing"
  BY <1>6, FieldsType DEF RemoveFile, LeaveFiles, RemoveDistInfo, At, Inv
<1>7. ASSUME End \/ Kill PROVE command'.pc = "idle"
  BY <1>7 DEF End, Kill, NoCommand
<1>8. CASE UNCHANGED vars
  BY <1>8 DEF vars, world, WholeInv, Progress, Good, ContentAt, Listed, Here,
              Linking
<1> QED BY <1>1, <1>2, <1>3, <1>4, <1>5, <1>6, <1>7, <1>8 DEF Next

\* Every wheel of the lock is in place, file by file, with what it published,
\* and its RECORD lists all of it, when a command reports success: whatever
\* other environments did through the links they share (install_from_lockfile,
\* install_wheel).
THEOREM InstallsAreWhole ==
    ASSUME Sited
    PROVE  Spec => []InstalledWhole
<1>1. Init => WholeInv
  BY InitWhole
<1>2. Inv /\ WholeInv /\ [Next]_vars => WholeInv'
  BY StaysGenuine, StaysFresh, ProgressStep DEF WholeInv
<1>3. Inv /\ WholeInv => InstalledWhole
  <2> SUFFICES ASSUME Inv, WholeInv, At("done"), NEW k \in command.lock
               PROVE  /\ Owned(k) \subseteq Listed(Here, k)
                      /\ \A p \in Owned(k) : /\ files[Here][p] # None
                                            /\ ContentAt(Here, p) = k
    BY DEF InstalledWhole
  <2>1. /\ command.pc = "done" /\ command.left = {} /\ Linking = None
        /\ ~command.failed
    BY DEF At, Inv, InOrder, Linking
  <2>2. k \in Wheel /\ k # None
    BY FieldsType, EnvironmentAssumption DEF Inv
  <2> QED BY <2>1, <2>2 DEF WholeInv, Progress, Good
<1> QED BY <1>1, <1>2, <1>3, InvHolds, PTL DEF Spec
=============================================================================
