-------------------------- MODULE MetadataCacheProofs --------------------------
(***************************************************************************)
(* The metadata cache is a map that may forget, for any number of          *)
(* processes, packages and sizes; a process that has it to itself has      *)
(* every file in its index; and evictions take the oldest entries.  Sums   *)
(* of sizes are not reasoned about.                                        *)
(***************************************************************************)
EXTENDS MetadataCache, TLAPS

Types ==
    /\ files \in [Key -> Value \cup {None, Partial}]
    /\ indexFile \in Index \cup {None, Partial}
    /\ exists \in BOOLEAN
    /\ open \subseteq Process
    /\ entries \in [Process -> Index]
    /\ dirty \in [Process -> BOOLEAN]
    /\ ops \in [Process -> Nat]
    /\ writing \in [Process -> Write \cup {None}]
    /\ now \in Time

\* Nothing was used in the future.
Dated(idx) == \A k \in Tracked(idx) : idx[k].access <= now

AllDated ==
    /\ \A i \in Process : Dated(entries[i])
    /\ indexFile \notin {None, Partial} => Dated(indexFile)

\* A process alone with the cache is the only one that has it open, and no
\* whole file is missing from its index.
Alone == \A i \in solo : open = {i}

Inv == Types /\ AllDated /\ Alone /\ NothingOrphaned

LEMMA InitInv == Init => Inv
<1> SUFFICES ASSUME Init PROVE Inv
  OBVIOUS
<1>1. Types
  <2>1. MaxTime \in Nat
    BY CacheAssumption
  <2>2. 0 \in Time
    BY <2>1 DEF Time
  <2> QED BY <2>2 DEF Init, Types, Index, NoEntries
<1>2. AllDated
  BY DEF Init, AllDated, Dated, Tracked, NoEntries
<1> QED BY <1>1, <1>2 DEF Inv, Init, Alone, NothingOrphaned

\* Files that lose their names change neither the writers nor what they write.
LEMMA UnlinkedType ==
    ASSUME Types, NEW keys
    PROVE  /\ Unlinked(keys) \in [Process -> Write \cup {None}]
           /\ \A i \in Process : Unlinked(keys)[i] = None <=> writing[i] = None
<1>1. ASSUME NEW i \in Process
      PROVE  /\ Unlinked(keys)[i] \in Write \cup {None}
             /\ Unlinked(keys)[i] = None <=> writing[i] = None
  <2>1. CASE writing[i] = None
    BY <2>1 DEF Unlinked
  <2>2. CASE writing[i] # None
    <3>1. writing[i] \in Write
      BY <2>2 DEF Types
    <3>2. [writing[i] EXCEPT !.linked = FALSE] \in Write
      BY <3>1 DEF Write
    <3> QED BY <2>2, <3>1, <3>2, CacheAssumption DEF Unlinked
  <2> QED BY <2>1, <2>2
<1>2. Unlinked(keys) = [i \in Process |-> Unlinked(keys)[i]]
  BY DEF Unlinked
<1> QED BY <1>1, <1>2

LEMMA RemovedType ==
    ASSUME Types, NEW keys
    PROVE  /\ Removed(keys) \in [Key -> Value \cup {None, Partial}]
           /\ \A k \in Key : Removed(keys)[k] = IF k \in keys THEN None
                                                            ELSE files[k]
BY DEF Types, Removed

LEMMA MarkDirtyType ==
    ASSUME Types, AllDated, NEW i \in Process, NEW idx \in Index, Dated(idx),
           now' = now, NEW failing, MarkDirty(i, idx, failing)
    PROVE  /\ entries' = [entries EXCEPT ![i] = idx]
           /\ entries' \in [Process -> Index]
           /\ dirty' \in [Process -> BOOLEAN] /\ ops' \in [Process -> Nat]
           /\ indexFile' \in Index \cup {None, Partial}
           /\ AllDated'
<1>1. entries' = [entries EXCEPT ![i] = idx] /\ entries' \in [Process -> Index]
  BY DEF MarkDirty, Types
<1>2. /\ dirty' \in [Process -> BOOLEAN] /\ ops' \in [Process -> Nat]
      /\ indexFile' \in {idx, indexFile, Partial}
  BY CacheAssumption DEF MarkDirty, Flushed, Types
<1>3. AllDated'
  <2>1. \A j \in Process : entries'[j] \in {idx, entries[j]}
    BY <1>1 DEF Types
  <2> QED BY <1>2, <2>1 DEF AllDated, Dated, Tracked
<1> QED BY <1>1, <1>2, <1>3 DEF Types

-----------------------------------------------------------------------------
(* The invariant, action by action.                                        *)

LEMMA OpenInv ==
    ASSUME Inv, NEW i \in Process, Open(i)
    PROVE  Inv'
<1> DEFINE idx == IF indexFile \in {None, Partial} THEN NoEntries ELSE indexFile
           adopted == Adoptable(idx)
           rejected == Key \ (Tracked(idx) \cup adopted)
           next == [k \in Key |-> IF k \in adopted
                                THEN [size |-> Size[files[k]], access |-> now]
                                ELSE idx[k]]
<1>1. /\ i \notin open /\ open' = open \cup {i}
      /\ solo' = IF open = {} THEN {i} ELSE {}
      /\ entries' = [entries EXCEPT ![i] = next]
      /\ dirty' = [dirty EXCEPT ![i] = FALSE] /\ ops' = [ops EXCEPT ![i] = 0]
      /\ files' = Removed(rejected) /\ writing' = Unlinked(rejected)
      /\ UNCHANGED <<indexFile, exists, now>>
  BY DEF Open
<1>2. idx \in Index /\ Dated(idx)
  <2>1. NoEntries \in Index /\ Dated(NoEntries)
    BY DEF NoEntries, Index, Dated, Tracked
  <2>2. indexFile \notin {None, Partial} => indexFile \in Index /\ Dated(indexFile)
    BY DEF Inv, Types, AllDated
  <2> QED BY <2>1, <2>2
<1>3. adopted \subseteq Key /\ \A k \in adopted : files[k] \in Value
  BY DEF Adoptable, Whole
<1> HIDE DEF idx, adopted, rejected
<1>4. \A k \in adopted : [size |-> Size[files[k]], access |-> now] \in Entry \ {None}
  BY <1>3, CacheAssumption DEF Entry, Inv, Types
<1>5. next \in Index
  BY <1>2, <1>4 DEF Index
<1>6. Dated(next)
  BY <1>2, <1>3, <1>4 DEF Dated, Tracked, Inv, Types, Time
<1>7. Tracked(idx) \cup adopted = Tracked(next)
  BY <1>3, <1>4 DEF Tracked
<1> HIDE DEF next
<1>8. entries' \in [Process -> Index] /\ entries'[i] = next
      /\ \A j \in Process : j # i => entries'[j] = entries[j]
  BY <1>1, <1>5 DEF Inv, Types
<1>9. Types'
  BY <1>1, <1>8, RemovedType, UnlinkedType DEF Inv, Types
<1>10. AllDated'
  BY <1>1, <1>6, <1>8 DEF Inv, AllDated, Dated, Tracked
<1>11. \A k \in Key : files'[k] \in Value => k \in Tracked(next)
  BY <1>1, <1>7, RemovedType, CacheAssumption DEF rejected, Inv
<1>12. NothingOrphaned'
  BY <1>1, <1>8, <1>11 DEF NothingOrphaned, Whole, Tracked
<1>13. Alone'
  BY <1>1 DEF Alone
<1> QED BY <1>9, <1>10, <1>12, <1>13 DEF Inv

LEMMA GoneInv ==
    ASSUME Inv, NEW i \in Process, Close(i) \/ Kill(i)
    PROVE  Inv'
<1>1. /\ open' = open \ {i} /\ solo' = solo \ {i}
      /\ writing' = [writing EXCEPT ![i] = None]
      /\ entries' = [entries EXCEPT ![i] = NoEntries]
      /\ dirty' = [dirty EXCEPT ![i] = FALSE] /\ ops' = [ops EXCEPT ![i] = 0]
      /\ UNCHANGED <<files, exists, now, stuck>>
      /\ indexFile' \in {indexFile, entries[i], Partial}
  BY DEF Close, Kill, Gone, Flushed
<1>2. NoEntries \in Index /\ Dated(NoEntries) /\ Dated(NoEntries)'
  BY DEF NoEntries, Index, Dated, Tracked
<1>3. entries[i] \in Index /\ Dated(entries[i])
  BY DEF Inv, Types, AllDated
<1>4. Types'
  BY <1>1, <1>2, <1>3 DEF Inv, Types
<1>5. \A j \in Process : entries'[j] = IF j = i THEN NoEntries ELSE entries[j]
  BY <1>1 DEF Inv, Types
<1>6. AllDated'
  BY <1>1, <1>2, <1>3, <1>5 DEF Inv, AllDated, Dated, Tracked
<1>7. NothingOrphaned' /\ Alone'
  BY <1>1, <1>5 DEF Inv, Types, NothingOrphaned, Alone, Whole, Tracked
<1> QED BY <1>4, <1>6, <1>7 DEF Inv

LEMMA AnswerInv ==
    ASSUME Inv, NEW i \in Process, NEW k \in Key,
           Hit(i, k) \/ Unreadable(i, k) \/ Miss(i, k)
    PROVE  Inv'
<1>1. CASE Hit(i, k)
  <2>1. /\ entries' = [entries EXCEPT ![i] = Touched(i, k)]
        /\ dirty' = [dirty EXCEPT ![i] = TRUE]
        /\ UNCHANGED <<disk, open, ops, writing, now, history>>
        /\ k \in Tracked(entries[i])
    BY <1>1 DEF Hit
  <2>2. entries[i] \in Index /\ Dated(entries[i]) /\ entries[i][k] \in Entry
    BY <2>1 DEF Inv, Types, AllDated, Tracked, Index
  <2>3. /\ [entries[i][k] EXCEPT !.access = now] \in Entry
        /\ [entries[i][k] EXCEPT !.access = now].access = now
    BY <2>2 DEF Entry, Inv, Types
  <2>4. Touched(i, k) = [entries[i] EXCEPT
                            ![k] = [entries[i][k] EXCEPT !.access = now]]
    BY DEF Touched
  <2>5. /\ Touched(i, k) \in Index
        /\ Tracked(Touched(i, k)) = Tracked(entries[i])
    BY <2>1, <2>2, <2>3, <2>4, CacheAssumption DEF Index, Tracked
  <2>6. Dated(Touched(i, k))
    BY <2>2, <2>3, <2>4, <2>5 DEF Dated, Tracked, Index, Inv, Types, Time
  <2>7. \A j \in Process : entries'[j] = IF j = i THEN Touched(i, k)
                                                 ELSE entries[j]
    BY <2>1 DEF Inv, Types
  <2>8. Types'
    BY <2>1, <2>5 DEF Inv, Types, disk
  <2>9. AllDated'
    BY <2>1, <2>6, <2>7 DEF Inv, AllDated, Dated, Tracked, disk
  <2>10. NothingOrphaned' /\ Alone'
    BY <2>1, <2>5, <2>7 DEF Inv, Types, NothingOrphaned, Alone, Whole, Tracked,
                            disk, history
  <2> QED BY <2>8, <2>9, <2>10 DEF Inv
<1>2. CASE Unreadable(i, k)
  <2> DEFINE idx == [entries[i] EXCEPT ![k] = None]
  <2>1. /\ i \in open /\ k \notin Whole
        /\ UNCHANGED <<exists, open, now, history>>
    BY <1>2 DEF Unreadable
  <2>0. PICK failing \in 0..1, gone \in SUBSET {k} :
           /\ MarkDirty(i, idx, failing)
           /\ files' = Removed(gone) /\ writing' = Unlinked(gone)
    <3>1. \A kept \in SUBSET {k} : {k} \ kept \in SUBSET {k}
      OBVIOUS
    <3> QED BY <1>2, <3>1 DEF Unreadable
  <2>2. entries[i] \in Index /\ Dated(entries[i])
    BY DEF Inv, Types, AllDated
  <2>3. idx \in Index /\ Dated(idx) /\ Tracked(idx) = Tracked(entries[i]) \ {k}
    BY <2>2 DEF Index, Dated, Tracked
  <2> HIDE DEF idx
  <2>4. Types' /\ AllDated'
    BY <2>0, <2>1, <2>3, MarkDirtyType, RemovedType, UnlinkedType DEF Inv, Types
  <2>5. entries'[i] = idx
    BY <2>0, <2>1, <2>3, MarkDirtyType DEF Inv, Types
  <2>6. \A j \in solo : j = i
    BY <2>1 DEF Inv, Alone
  <2>7. \A r \in Key : files'[r] \in Value => r # k /\ files[r] \in Value
    BY <2>0, <2>1, RemovedType, CacheAssumption DEF Inv, Whole
  <2>8. NothingOrphaned' /\ Alone'
    BY <2>1, <2>3, <2>5, <2>6, <2>7
    DEF Inv, NothingOrphaned, Alone, Whole, Tracked, history
  <2> QED BY <2>4, <2>8 DEF Inv
<1>3. CASE Miss(i, k)
  BY <1>3 DEF Miss, Inv, Types, AllDated, Dated, Tracked, NothingOrphaned,
              Alone, Whole, disk, handles, history
<1> QED BY <1>1, <1>2, <1>3

\* What FinishInsert does to the index and the files.
Inserted(i) == [entries[i] EXCEPT ![writing[i].key] =
                   [size |-> Size[writing[i].value], access |-> now]]

Without(idx, gone) == [k \in Key |-> IF k \in gone THEN None ELSE idx[k]]

LEMMA InsertedType ==
    ASSUME Inv, NEW i \in Process, writing[i] # None
    PROVE  /\ Inserted(i) \in Index /\ Dated(Inserted(i))
           /\ writing[i] \in Write
           /\ \A k \in Key : Inserted(i)[k] =
                 IF k = writing[i].key
                 THEN [size |-> Size[writing[i].value], access |-> now]
                 ELSE entries[i][k]
           /\ Tracked(Inserted(i)) = Tracked(entries[i]) \cup {writing[i].key}
<1>1. /\ writing[i] \in Write /\ writing[i].key \in Key
      /\ writing[i].value \in Value
  BY DEF Inv, Types, Write
<1>2. entries[i] \in Index /\ Dated(entries[i])
  BY DEF Inv, Types, AllDated
<1>3. [size |-> Size[writing[i].value], access |-> now] \in Entry \ {None}
  BY <1>1, CacheAssumption DEF Entry, Inv, Types
<1>4. \A k \in Key : Inserted(i)[k] =
                 IF k = writing[i].key
                 THEN [size |-> Size[writing[i].value], access |-> now]
                 ELSE entries[i][k]
  BY <1>1, <1>2 DEF Inserted, Index
<1>5. Inserted(i) \in Index
  BY <1>1, <1>2, <1>3 DEF Inserted, Index
<1>6. Dated(Inserted(i))
  <2>1. now <= now
    BY CacheAssumption DEF Inv, Types, Time
  <2>2. [size |-> Size[writing[i].value], access |-> now].access = now
    OBVIOUS
  <2> QED BY <1>2, <1>4, <2>1, <2>2 DEF Dated, Tracked
<1>7. Tracked(Inserted(i)) = Tracked(entries[i]) \cup {writing[i].key}
  BY <1>1, <1>3, <1>4 DEF Tracked
<1> QED BY <1>1, <1>4, <1>5, <1>6, <1>7

LEMMA WithoutType ==
    ASSUME NEW idx \in Index, Dated(idx), NEW gone \in SUBSET Key
    PROVE  /\ Without(idx, gone) \in Index /\ Dated(Without(idx, gone))
           /\ Tracked(Without(idx, gone)) = Tracked(idx) \ gone
BY DEF Without, Index, Dated, Tracked

LEMMA FinishInsertEffect ==
    ASSUME Inv, NEW i \in Process, FinishInsert(i)
    PROVE  /\ i \in open /\ writing[i] # None
           /\ UNCHANGED <<exists, open, now, solo>>
           /\ \E failing \in 0..1, gone \in Evictions(Inserted(i)) :
              \E kept \in SUBSET gone :
                 /\ gone \subseteq Tracked(Inserted(i))
                 /\ MarkDirty(i, Without(Inserted(i), gone), failing)
                 /\ files' = [k \in Key |->
                       CASE k \in gone \ kept -> None
                         [] k = writing[i].key /\ writing[i].linked
                            /\ k \notin gone \ kept -> writing[i].value
                         [] OTHER -> files[k]]
                 /\ writing' = [Unlinked(gone \ kept) EXCEPT ![i] = None]
                 /\ stuck' = (stuck \ {writing[i].key}) \cup kept
BY DEF FinishInsert, Inserted, Without, Evictions

LEMMA FinishInsertInv ==
    ASSUME Inv, NEW i \in Process, FinishInsert(i)
    PROVE  Inv'
<1>1. /\ i \in open /\ writing[i] # None
      /\ UNCHANGED <<exists, open, now, solo>>
  BY FinishInsertEffect
<1>2. PICK failing \in 0..1, gone \in SUBSET Tracked(Inserted(i)) :
         \E kept \in SUBSET gone :
           /\ MarkDirty(i, Without(Inserted(i), gone), failing)
           /\ files' = [k \in Key |->
                 CASE k \in gone \ kept -> None
                   [] k = writing[i].key /\ writing[i].linked
                      /\ k \notin gone \ kept -> writing[i].value
                   [] OTHER -> files[k]]
           /\ writing' = [Unlinked(gone \ kept) EXCEPT ![i] = None]
           /\ stuck' = (stuck \ {writing[i].key}) \cup kept
  BY FinishInsertEffect
<1>3. PICK kept \in SUBSET gone :
         /\ MarkDirty(i, Without(Inserted(i), gone), failing)
         /\ files' = [k \in Key |->
               CASE k \in gone \ kept -> None
                 [] k = writing[i].key /\ writing[i].linked
                    /\ k \notin gone \ kept -> writing[i].value
                 [] OTHER -> files[k]]
         /\ writing' = [Unlinked(gone \ kept) EXCEPT ![i] = None]
         /\ stuck' = (stuck \ {writing[i].key}) \cup kept
  BY <1>2
<1>4. gone \subseteq Key
  BY DEF Tracked
<1> DEFINE idx == Without(Inserted(i), gone)
<1>5. /\ idx \in Index /\ Dated(idx)
      /\ Tracked(idx) = (Tracked(entries[i]) \cup {writing[i].key}) \ gone
  <2>1. Inserted(i) \in Index /\ Dated(Inserted(i))
        /\ Tracked(Inserted(i)) = Tracked(entries[i]) \cup {writing[i].key}
    BY <1>1, InsertedType
  <2> HIDE DEF idx
  <2>2. idx \in Index /\ Dated(idx) /\ Tracked(idx) = Tracked(Inserted(i)) \ gone
    BY <1>4, <2>1, WithoutType DEF idx
  <2> QED BY <2>1, <2>2
<1> HIDE DEF idx
<1>6. \A k \in Key : files'[k] =
         IF k \in gone \ kept THEN None
         ELSE IF k = writing[i].key /\ writing[i].linked THEN writing[i].value
         ELSE files[k]
  BY <1>3
<1>7. files' \in [Key -> Value \cup {None, Partial}]
  <2>1. writing[i].value \in Value
    BY <1>1, InsertedType DEF Write
  <2> QED BY <1>3, <2>1 DEF Inv, Types
<1>8. writing' \in [Process -> Write \cup {None}]
  BY <1>3, UnlinkedType DEF Inv
<1>9. MarkDirty(i, idx, failing)
  BY <1>3 DEF idx
<1>10. Types' /\ AllDated'
  BY <1>1, <1>5, <1>7, <1>8, <1>9, MarkDirtyType DEF Inv, Types
<1>11. entries'[i] = idx
  BY <1>1, <1>5, <1>9, MarkDirtyType DEF Inv, Types
<1>12. \A j \in solo : j = i
  BY <1>1 DEF Inv, Alone
<1>13. \A k \in Key : files'[k] \in Value =>
          k \notin gone \ kept /\ (k = writing[i].key \/ files[k] \in Value)
  BY <1>6, CacheAssumption
<1>14. NothingOrphaned' /\ Alone'
  BY <1>1, <1>5, <1>11, <1>12, <1>13, <1>3
  DEF Inv, NothingOrphaned, Alone, Whole, Tracked
<1> QED BY <1>10, <1>14 DEF Inv

LEMMA StartInsertInv ==
    ASSUME Inv, NEW i \in Process, NEW k \in Key, NEW v \in Value,
           StartInsert(i, k, v)
    PROVE  Inv'
<1>1. /\ exists' = TRUE /\ files' = [files EXCEPT ![k] = Partial]
      /\ writing' = [writing EXCEPT
                       ![i] = [key |-> k, value |-> v, linked |-> TRUE]]
      /\ UNCHANGED <<indexFile, open, entries, dirty, ops, now, history>>
  BY DEF StartInsert
<1>2. Types'
  BY <1>1 DEF Inv, Types, Write
<1>3. \A r \in Key : files'[r] \in Value => files[r] \in Value
  BY <1>1, CacheAssumption DEF Inv, Types
<1> QED BY <1>1, <1>2, <1>3 DEF Inv, AllDated, Dated, Tracked,
                                NothingOrphaned, Alone, Whole, history

LEMMA FailInsertInv ==
    ASSUME Inv, NEW i \in Process, FailInsert(i)
    PROVE  Inv'
<1>1. /\ writing' = [writing EXCEPT ![i] = None]
      /\ UNCHANGED <<disk, open, entries, dirty, ops, now, history>>
  BY DEF FailInsert
<1> QED BY <1>1 DEF Inv, Types, AllDated, Dated, Tracked, NothingOrphaned,
                    Alone, Whole, disk, history

LEMMA CleanAllInv ==
    ASSUME Inv, CleanAll
    PROVE  Inv'
<1>1. PICK keys \in SUBSET Key :
         /\ files' = Removed(keys) /\ writing' = Unlinked(keys)
         /\ indexFile' \in {indexFile, None} /\ exists' \in BOOLEAN
         /\ UNCHANGED <<open, entries, dirty, ops, now, history>>
  BY DEF CleanAll, Inv, Types
<1>2. Types'
  BY <1>1, RemovedType, UnlinkedType DEF Inv, Types
<1>3. \A k \in Key : files'[k] \in Value => files[k] \in Value
  BY <1>1, RemovedType, CacheAssumption DEF Inv
<1> QED BY <1>1, <1>2, <1>3 DEF Inv, AllDated, Dated, Tracked,
                                NothingOrphaned, Alone, Whole, history

LEMMA InvStep == Inv /\ [Next]_vars => Inv'
<1> SUFFICES ASSUME Inv, [Next]_vars PROVE Inv'
  OBVIOUS
<1>1. CASE Tick
  <2>1. now' = now + 1 /\ now < MaxTime /\ UNCHANGED <<disk, handles, history>>
    BY <1>1 DEF Tick
  <2>2. now' \in Time /\ now' > now /\ now \in Nat
    BY <2>1, CacheAssumption DEF Time, Inv, Types
  <2>3. ASSUME NEW idx \in Index, Dated(idx) PROVE Dated(idx)'
    <3>1. ASSUME NEW k \in Tracked(idx) PROVE idx[k].access <= now'
      <4>1. idx[k].access \in Nat /\ idx[k].access <= now
        BY <2>3 DEF Dated, Tracked, Index, Entry, Time
      <4> QED BY <2>1, <2>2, <4>1
    <3> QED BY <3>1 DEF Dated, Tracked
  <2>4. Types'
    BY <2>1, <2>2 DEF Inv, Types, disk, handles
  <2>5. AllDated'
    BY <2>1, <2>3 DEF Inv, AllDated, Types, Dated, disk, handles
  <2> QED BY <2>1, <2>4, <2>5 DEF Inv, NothingOrphaned, Alone, Whole, Tracked,
                                  disk, handles, history
<1>2. CASE UNCHANGED vars
  BY <1>2 DEF vars, Inv, Types, AllDated, Dated, Tracked, NothingOrphaned,
              Alone, Whole, disk, handles, history
<1> QED BY <1>1, <1>2, OpenInv, GoneInv, AnswerInv, StartInsertInv,
           FinishInsertInv, FailInsertInv, CleanAllInv DEF Next

LEMMA InvHolds == Spec => []Inv
BY InitInv, InvStep, PTL DEF Spec

\* A process that has had the cache to itself since it opened it knows of every
\* whole file but those it failed to remove (reconcile, insert,
\* evict_if_needed).
THEOREM NothingIsOrphaned == Spec => []NothingOrphaned
<1>1. Inv => NothingOrphaned
  BY DEF Inv
<1> QED BY <1>1, InvHolds, PTL

-----------------------------------------------------------------------------
(* Evictions.                                                              *)

\* Only the end of an insertion lets go of the file a process was writing.
LEMMA InsertionEnds ==
    ASSUME Inv, [Next]_vars, NEW i \in open, writing[i] # None,
           writing'[i] = None, i \in open'
    PROVE  FinishInsert(i) \/ FailInsert(i)
<1>0. i \in Process
  BY DEF Inv, Types
<1>1. ASSUME NEW keys PROVE writing' # Unlinked(keys)
  BY <1>0, UnlinkedType DEF Inv
<1>2. ASSUME NEW j \in Process, FinishInsert(j) PROVE j = i
  <2>1. PICK keys : writing' = [Unlinked(keys) EXCEPT ![j] = None]
    BY <1>2 DEF FinishInsert
  <2> QED BY <1>0, <2>1, UnlinkedType DEF Inv
<1>8. ASSUME NEW j \in Process, FailInsert(j) PROVE j = i
  BY <1>0, <1>8 DEF FailInsert, Inv, Types
<1>3. ASSUME NEW j \in Process, NEW k \in Key, NEW v \in Value,
             StartInsert(j, k, v)
      PROVE  FALSE
  <2>1. writing' = [writing EXCEPT
                      ![j] = [key |-> k, value |-> v, linked |-> TRUE]]
    BY <1>3 DEF StartInsert
  <2>2. [key |-> k, value |-> v, linked |-> TRUE] \in Write
    BY DEF Write
  <2>3. [key |-> k, value |-> v, linked |-> TRUE] # None
    BY <2>2, CacheAssumption
  <2> QED BY <1>0, <2>1, <2>3 DEF Inv, Types
<1>4. ASSUME NEW j \in Process, Close(j) \/ Kill(j) PROVE FALSE
  BY <1>0, <1>4 DEF Close, Kill, Gone, Inv, Types
<1>5. ASSUME NEW j \in Process, NEW k \in Key, Hit(j, k) \/ Miss(j, k)
      PROVE  FALSE
  BY <1>5 DEF Hit, Miss, handles
<1>6. ~Tick /\ ~UNCHANGED vars
  BY DEF Tick, vars, handles
<1>7. /\ ~CleanAll
      /\ \A j \in Process : ~Open(j)
      /\ \A j \in Process, k \in Key : ~Unreadable(j, k)
  BY <1>1 DEF CleanAll, Open, Unreadable
<1> QED BY <1>2, <1>3, <1>4, <1>5, <1>6, <1>7, <1>8 DEF Next

\* No insertion throws out an entry that was used later than one it keeps,
\* the entry it adds included (evict_if_needed).
THEOREM EvictsOldest == Spec => OldestGoFirst
<1>1. ASSUME Inv, [Next]_vars, NEW i \in open,
             writing[i] # None, writing'[i] = None, i \in open',
             NEW k \in Tracked(entries[i]), NEW kept \in Tracked(entries'[i]),
             entries'[i][k] = None
      PROVE  entries[i][k].access <= entries'[i][kept].access
  <2>1. i \in Process /\ FinishInsert(i)
    <3>1. ~FailInsert(i)
      BY <1>1 DEF FailInsert, Tracked
    <3> QED BY <1>1, <3>1, InsertionEnds DEF Inv, Types
  <2>2. PICK failing \in 0..1, gone \in Evictions(Inserted(i)) :
           /\ gone \subseteq Tracked(Inserted(i))
           /\ MarkDirty(i, Without(Inserted(i), gone), failing)
    BY <1>1, <2>1, FinishInsertEffect
  <2>3. /\ Inserted(i) \in Index /\ Dated(Inserted(i))
        /\ writing[i].key \in Key
        /\ \A r \in Key : Inserted(i)[r] =
              IF r = writing[i].key
              THEN [size |-> Size[writing[i].value], access |-> now]
              ELSE entries[i][r]
        /\ Tracked(Inserted(i)) = Tracked(entries[i]) \cup {writing[i].key}
    BY <1>1, <2>1, InsertedType DEF Write
  <2>4. entries'[i] = Without(Inserted(i), gone)
    BY <1>1, <2>1, <2>2 DEF MarkDirty, Inv, Types
  <2>5. gone \subseteq Key /\ k \in Key /\ kept \in Key
    BY <1>1, <2>2 DEF Tracked
  <2>6. k \in gone /\ kept \in Tracked(Inserted(i)) \ gone
        /\ entries'[i][kept] = Inserted(i)[kept]
    BY <1>1, <2>3, <2>4, <2>5 DEF Without, Tracked
  <2>7. Inserted(i)[k].access <= Inserted(i)[kept].access
    BY <2>2, <2>6 DEF Evictions
  <2>8. entries[i][k].access <= Inserted(i)[k].access
    <3>1. entries[i][k] \in Entry /\ entries[i][k].access <= now
      BY <1>1, <2>1, <2>5 DEF Inv, Types, AllDated, Dated, Tracked, Index
    <3>2. entries[i][k].access <= entries[i][k].access
      BY <3>1, CacheAssumption DEF Entry, Time
    <3>3. CASE k = writing[i].key
      <4>1. Inserted(i)[k] = [size |-> Size[writing[i].value], access |-> now]
        BY <2>3, <2>5, <3>3
      <4>2. [size |-> Size[writing[i].value], access |-> now].access = now
        OBVIOUS
      <4> QED BY <3>1, <4>1, <4>2
    <3>4. CASE k # writing[i].key
      <4>1. Inserted(i)[k] = entries[i][k]
        BY <2>3, <2>5, <3>4
      <4> QED BY <3>2, <4>1
    <3> QED BY <3>3, <3>4
  <2>9. /\ entries[i][k].access \in Int /\ Inserted(i)[k].access \in Int
        /\ Inserted(i)[kept].access \in Int
    BY <1>1, <2>1, <2>2, <2>3, <2>5, <2>6, CacheAssumption
    DEF Inv, Types, Tracked, Index, Entry, Time
  <2> QED BY <2>6, <2>7, <2>8, <2>9
<1>2. Inv /\ [Next]_vars =>
      [\A i \in open : writing[i] # None /\ writing'[i] = None /\ i \in open'
          => \A k \in Tracked(entries[i]), kept \in Tracked(entries'[i]) :
                entries'[i][k] = None =>
                    entries[i][k].access <= entries'[i][kept].access]_vars
  BY <1>1
<1> QED BY <1>2, InvHolds, PTL DEF Spec, OldestGoFirst

-----------------------------------------------------------------------------
(* The cache implements a map that may forget.                             *)

Held == [k \in Key |-> IF k \in Whole THEN files[k] ELSE None]

LEMMA HeldType ==
    ASSUME Types
    PROVE  /\ Held \in [Key -> Value \cup {None}]
           /\ \A k \in Key : Held[k] = IF files[k] \in Value THEN files[k] ELSE None
BY DEF Held, Whole, Types

\* Files that go, or are cut off, are forgotten.
LEMMA HeldForgets ==
    ASSUME Types, Types',
           NEW changed, \A k \in Key \ changed : files'[k] \in {files[k], None, Partial}
    PROVE  /\ Held' \in [Key -> Value \cup {None}]
           /\ \A k \in Key \ changed : Held'[k] \in {Held[k], None}
<1>1. Held' \in [Key -> Value \cup {None}]
      /\ \A k \in Key : Held'[k] = IF files'[k] \in Value THEN files'[k] ELSE None
  BY DEF Held, Whole, Types
<1> QED BY <1>1, HeldType, CacheAssumption

\* What one step does to the abstract map.
LEMMA StoreStep ==
    ASSUME Inv, [Next]_vars
    PROVE  [Store!Next]_(Store!vars)
<1> DEFINE HeldNow == [k \in Key |-> IF k \in Whole THEN files[k] ELSE None]
<1>0. Held = HeldNow
  BY DEF Held
<1>1. Types /\ Types'
  BY InvStep DEF Inv
<1>2. ASSUME answer' = NoAnswer,
             \A k \in Key : files'[k] \in {files[k], None, Partial}
      PROVE  Store!Forget
  <2>1. /\ Held' \in [Key -> Value \cup {None}]
        /\ \A k \in Key : Held'[k] \in {Held[k], None}
    BY <1>1, <1>2, HeldForgets, \A k \in Key : k \notin {}
  <2> QED BY <1>2, <2>1 DEF Store!Forget, Store!Forgets, Store!NoAnswer,
                            NoAnswer, Held
<1>3. ASSUME NEW k \in Key, NEW v \in {Held[k], None},
             answer' = [key |-> k, value |-> v],
             \A r \in Key : files'[r] \in {files[r], None, Partial}
      PROVE  Store!Ask(k)
  <2>1. /\ Held' \in [Key -> Value \cup {None}]
        /\ \A r \in Key : Held'[r] \in {Held[r], None}
    BY <1>1, <1>3, HeldForgets, \A r \in Key : r \notin {}
  <2> QED BY <1>3, <2>1 DEF Store!Ask, Store!Forgets, Held
<1>4. ASSUME NEW i \in Process, NEW k \in Key,
             Hit(i, k) \/ Unreadable(i, k) \/ Miss(i, k)
      PROVE  Store!Ask(k)
  <2>1. CASE Hit(i, k)
    <3>1. /\ k \in Whole /\ files' = files
          /\ answer' = [key |-> k, value |-> files[k]]
      BY <2>1 DEF Hit, disk
    <3>2. files[k] = Held[k]
      BY <3>1 DEF Held
    <3> QED BY <1>3, <3>1, <3>2
  <2>2. CASE Unreadable(i, k)
    <3>1. PICK keys : files' = Removed(keys)
      BY <2>2 DEF Unreadable
    <3>2. \A r \in Key : files'[r] \in {files[r], None, Partial}
      BY <1>1, <3>1, RemovedType
    <3> QED BY <1>3, <2>2, <3>2 DEF Unreadable
  <2>3. CASE Miss(i, k)
    BY <1>3, <2>3 DEF Miss, disk
  <2> QED BY <1>4, <2>1, <2>2, <2>3
<1>5. ASSUME NEW i \in Process, FinishInsert(i)
      PROVE  Store!Next
  <2>1. PICK gone : files' = [k \in Key |->
               CASE k \in gone -> None
                 [] k = writing[i].key /\ writing[i].linked
                    /\ k \notin gone -> writing[i].value
                 [] OTHER -> files[k]]
    BY <1>5, FinishInsertEffect
  <2>2. /\ writing[i] \in Write /\ answer' = NoAnswer
    BY <1>5, InsertedType DEF FinishInsert
  <2>3. PICK w \in Key, v \in Value : w = writing[i].key /\ v = writing[i].value
    BY <2>2 DEF Write
  <2>4. CASE writing[i].linked /\ w \notin gone
    <3>1. \A k \in Key \ {w} : files'[k] \in {files[k], None, Partial}
      BY <2>1, <2>3
    <3>2. files'[w] = v
      BY <2>1, <2>3, <2>4
    <3>3. /\ Held' \in [Key -> Value \cup {None}]
          /\ \A k \in Key \ {w} : Held'[k] \in {Held[k], None}
      BY <1>1, <3>1, HeldForgets
    <3>4. Held'[w] = v
      BY <3>2 DEF Held, Whole
    <3>5. Store!Store(w, v)
      BY <2>2, <3>3, <3>4 DEF Store!Store, Store!Forgets, Store!NoAnswer,
                              NoAnswer, Held
    <3> QED BY <3>5 DEF Store!Next
  <2>5. CASE ~(writing[i].linked /\ w \notin gone)
    <3>1. \A k \in Key : files'[k] \in {files[k], None, Partial}
      BY <2>1, <2>3, <2>5
    <3> QED BY <1>2, <2>2, <3>1 DEF Store!Next
  <2> QED BY <2>4, <2>5
<1>6. ASSUME \/ \E i \in Process : \/ Open(i) \/ Close(i) \/ Kill(i)
                                   \/ FailInsert(i)
                                   \/ \E k \in Key, v \in Value :
                                          StartInsert(i, k, v)
             \/ CleanAll \/ Tick
      PROVE  Store!Forget
  <2>1. answer' = NoAnswer
    BY <1>6 DEF Open, Close, Kill, Gone, StartInsert, FailInsert, CleanAll, Tick
  <2>2. \/ \E keys : files' = Removed(keys)
        \/ files' = files
        \/ \E k \in Key : files' = [files EXCEPT ![k] = Partial]
    BY <1>6 DEF Open, Close, Kill, Gone, StartInsert, FailInsert, CleanAll, Tick,
                disk
  <2> QED BY <1>1, <1>2, <2>1, <2>2, RemovedType DEF Types
<1>7. CASE UNCHANGED vars
  BY <1>7 DEF vars, disk, Store!vars, Whole
<1> QED BY <1>4, <1>5, <1>6, <1>7 DEF Next, Store!Next

\* Whatever is killed, evicted, cleaned or half written, an answer is what was
\* stored last for that version, or nothing (get, insert, remove, clean_all).
THEOREM CacheForgetsOnly == Spec => ImplementsStore
<1>1. Init => Store!Init
  BY CacheAssumption DEF Init, Store!Init, Whole, NoAnswer, Store!NoAnswer
<1> QED BY <1>1, StoreStep, InvHolds, PTL DEF Spec, ImplementsStore, Store!Spec
=============================================================================
