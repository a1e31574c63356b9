-------------------------- MODULE PromptLogsProofs --------------------------
(***************************************************************************)
(* Proofs about PromptLogs for any number of calls, users and years, any   *)
(* batch size and any failures and crashes, on both databases.             *)
(*                                                                         *)
(* Shape says what a thread may hold where it is.  On it rest four         *)
(* invariants, one for each promise: a row that was copied is archived     *)
(* unless somebody deleted the copy (Covered), only a disturbed archiving  *)
(* leaves a row both live and archived outside a batch (Single), what is   *)
(* stored or held is counted (Counted), and what a deletion by user has    *)
(* covered is gone, or in a file the deletion has yet to visit (Gone).     *)
(***************************************************************************)
EXTENDS PromptLogs, FiniteSetTheorems, TLAPS

Spots == {"waiting", "idle", "dead", "select", "copy", "purging", "erasing"} \cup Sweeps

Settings == /\ dialect \in {"sqlite", "postgres"} /\ schema \in {"old", "created", "up"}
            /\ born \in 0 .. MaxCalls /\ due \in 0 .. born

Tables == /\ live \subseteq 1 .. born
          /\ copies \in [Calls -> Nat] /\ usage \in [Calls -> Nat]
          /\ files \subseteq Years

Places == /\ at \in [Procs -> Spots]
          /\ batch \in [Procs -> SUBSET (1 .. born)] /\ left \in [Procs -> SUBSET (1 .. born)]
          /\ cut \in [Procs -> 0 .. MaxCalls] /\ rest \in [Procs -> SUBSET Years]
          /\ erasing \in Users \cup {None}

Histories == /\ forgotten \subseteq 1 .. born /\ spared \subseteq Calls /\ removed \subseteq Calls
             /\ disturbed \in BOOLEAN /\ lost \in BOOLEAN /\ cuts \in 0 .. MaxCuts

Types == Settings /\ Tables /\ Places /\ Histories

-----------------------------------------------------------------------------
(* The oldest of some files or rows                                        *)

LEMMA FirstFacts ==
    ASSUME NEW S \in SUBSET Nat, S # {}
    PROVE  First(S) \in S /\ \A y \in S : First(S) <= y
  <1> DEFINE T == {0 .. n : n \in S}
             R == StrictSubsetOrdering(Nat)
  <1>1. T # {} /\ T \subseteq FiniteSubsetsOf(Nat)
    <2>1. ASSUME NEW n \in S PROVE 0 .. n \in SUBSET Nat /\ IsFiniteSet(0 .. n)
      BY FS_Interval
    <2> QED
      BY <2>1 DEF FiniteSubsetsOf
  <1>2. PICK t \in T : \A u \in T : ~(<<u, t>> \in R)
    <2>1. IsWellFoundedOn(R, FiniteSubsetsOf(Nat))
      BY FS_StrictSubsetOrderingWellFounded
    <2> HIDE DEF R, T
    <2> QED
      BY <1>1, <2>1, WFMin
  <1>3. PICK x \in S : t = 0 .. x
    OBVIOUS
  <1>4. ASSUME NEW y \in S PROVE x <= y
    <2> SUFFICES ASSUME y < x PROVE FALSE
      OBVIOUS
    <2>1. 0 .. y \subseteq 0 .. x /\ x \in 0 .. x /\ x \notin 0 .. y
      OBVIOUS
    <2>2. 0 .. y \in T /\ 0 .. y \in SUBSET Nat /\ 0 .. x \in SUBSET Nat
      OBVIOUS
    <2>3. <<0 .. y, t>> \in R
      BY <1>3, <2>1, <2>2 DEF StrictSubsetOrdering
    <2> QED
      BY <1>2, <2>2, <2>3
  <1> QED
    BY <1>4 DEF First

LEMMA CallFacts ==
    /\ MaxCalls \in Nat /\ Calls = 1 .. MaxCalls /\ Procs = {Job, Loop} /\ Job # Loop
    /\ Years \subseteq Nat /\ YearOf \in [Calls -> Years] /\ UserOf \in [Calls -> Users]
    /\ None \notin Users
  BY LogsAssumption DEF LogsAssumption, Calls, Procs

\* The row an archiver copies next is one of those it has left.
LEMMA NextRow ==
    ASSUME Types, NEW p \in Procs, left[p] # {}
    PROVE  First(left[p]) \in left[p] /\ First(left[p]) \in Calls
  <1>1. left[p] \in SUBSET Nat /\ left[p] \subseteq Calls
    BY CallFacts DEF Types, Places, Settings
  <1> QED
    BY <1>1, FirstFacts

\* The file a sweep visits next is one of those it has yet to visit.
LEMMA NextFile ==
    ASSUME Types, NEW p \in Procs, rest[p] # {}
    PROVE  First(rest[p]) \in rest[p]
  <1>1. rest[p] \in SUBSET Nat
    BY CallFacts DEF Types, Places
  <1> QED
    BY <1>1, FirstFacts

-----------------------------------------------------------------------------
(* Types                                                                   *)

LEMMA SettingsStep ==
    ASSUME Types, [LogsNext]_logsVars
    PROVE  Settings' /\ born' >= born /\ forgotten \subseteq forgotten'
  <1> USE CallFacts DEF Types, Settings
  <1>1. CASE RecordCall \/ GetsOlder
    BY <1>1 DEF RecordCall, GetsOlder, history
  <1>2. ASSUME NEW p \in Procs, ArchiveStep(p) \/ Fails(p)
        PROVE  Settings' /\ born' >= born /\ forgotten \subseteq forgotten'
    BY <1>2 DEF ArchiveStep, Fails, StartArchive, Select, CopyRow, DeleteBatch, MoveBatch, StartPurge, SweepFile,
                EndSweep, tables, history
  <1>3. CASE StartClear \/ ListFiles \/ \E u \in Users : EraseLive(u)
    BY <1>3 DEF StartClear, ListFiles, EraseLive, tables, history
  <1>4. CASE Crash \/ Upgrade \/ Backfill
    BY <1>4 DEF Crash, Upgrade, Backfill, tables, history
  <1>5. CASE UNCHANGED logsVars
    BY <1>5 DEF logsVars, tables, history
  <1> QED
    BY <1>1, <1>2, <1>3, <1>4, <1>5 DEF LogsNext

LEMMA ArchiveTypes ==
    ASSUME Types, NEW rows \in SUBSET Calls, Archive(rows)
    PROVE  /\ copies' \in [Calls -> Nat] /\ files' \subseteq Years /\ files \subseteq files'
           /\ \A c \in Calls : copies'[c] = IF c \in rows THEN copies[c] + 1 ELSE copies[c]
           /\ \A c \in rows : YearOf[c] \in files'
  <1>1. \A c \in rows : YearOf[c] \in Years
    BY CallFacts
  <1>2. files' = files \cup {YearOf[c] : c \in rows}
    BY DEF Archive
  <1>3. files' \subseteq Years
    BY <1>1, <1>2 DEF Types, Tables
  <1>4. \A c \in Calls : copies'[c] = IF c \in rows THEN copies[c] + 1 ELSE copies[c]
    BY DEF Archive
  <1>5. copies' \in [Calls -> Nat]
    BY DEF Archive, Types, Tables
  <1> QED
    BY <1>2, <1>3, <1>4, <1>5

LEMMA BackfillTypes ==
    ASSUME Types, Backfills
    PROVE  /\ usage' \in [Calls -> Nat]
           /\ \A c \in Calls : usage'[c] = IF c \in Succeeds THEN Backfilled(c) ELSE 0
  <1>1. \A c \in Calls : Backfilled(c) \in Nat
    BY DEF Types, Tables, Backfilled
  <1> QED
    BY <1>1 DEF Backfills

LEMMA TablesStep ==
    ASSUME Types, [LogsNext]_logsVars
    PROVE  Tables'
  <1>0. Settings' /\ born' >= born /\ born \in Nat /\ born' \in Nat
    BY SettingsStep DEF Types, Settings
  <1> USE CallFacts DEF Types, Tables
  <1>1. CASE RecordCall
    <2>1. born' = born + 1 /\ born' \in Calls
      BY <1>0, <1>1 DEF RecordCall, Settings
    <2>2. live' \subseteq 1 .. born'
      <3>1. live' \subseteq live \cup {born + 1}
        BY <1>1, <2>1 DEF RecordCall
      <3> QED
        BY <1>0, <2>1, <3>1
    <2>3. PICK n \in {0, 1} : usage' = [usage EXCEPT ![born'] = n]
      BY <1>1 DEF RecordCall
    <2> QED
      BY <1>1, <2>1, <2>2, <2>3 DEF RecordCall
  <1>2. ASSUME NEW p \in Procs, CopyRow(p) PROVE Tables'
    <2>1. First(left[p]) \in Calls
      BY <1>2, NextRow DEF CopyRow
    <2> QED
      BY <1>0, <1>2, <2>1, ArchiveTypes DEF CopyRow
  <1>3. ASSUME NEW p \in Procs, MoveBatch(p) PROVE Tables'
    <2>1. batch[p] \in SUBSET Calls
      BY DEF Places, Settings
    <2> QED
      BY <1>0, <1>3, <2>1, ArchiveTypes DEF MoveBatch, Drops
  <1>4. ASSUME NEW p \in Procs, DeleteBatch(p) PROVE Tables'
    BY <1>0, <1>4 DEF DeleteBatch, Drops
  <1>5. ASSUME NEW p \in Procs, SweepFile(p) PROVE Tables'
    BY <1>0, <1>5 DEF SweepFile
  <1>6. ASSUME NEW u \in Users, EraseLive(u) PROVE Tables'
    BY <1>0, <1>6 DEF EraseLive, Drops
  <1>7. CASE Upgrade
    BY <1>0, <1>7, BackfillTypes DEF Upgrade
  <1>8. CASE Backfill
    BY <1>0, <1>8, BackfillTypes DEF Backfill
  <1>9. CASE UNCHANGED <<live, copies, usage, files>>
    BY <1>0, <1>9
  <1> QED
    BY <1>1, <1>2, <1>3, <1>4, <1>5, <1>6, <1>7, <1>8, <1>9
       DEF LogsNext, ArchiveStep, GetsOlder, StartArchive, Select, StartPurge, EndSweep, Fails, StartClear,
           ListFiles, Crash, tables, logsVars

LEMMA GoesTypes ==
    ASSUME Types, NEW p \in Procs, NEW spot \in Spots, Goes(p, spot)
    PROVE  at' \in [Procs -> Spots] /\ at'[p] = spot /\ \A q \in Procs \ {p} : at'[q] = at[q]
  BY DEF Types, Places, Goes

LEMMA RestTypes ==
    /\ \A p \in Procs : Rests(p) \in Spots /\ Breaks(p) \in Spots /\ Rests(p) \in {"waiting", "idle"}
    /\ {"select", "copy", "purging", "erasing", "purge", "clear", "erase"} \subseteq Spots
  BY DEF Rests, Breaks, Spots, Sweeps

LEMMA RestartTypes ==
    ASSUME Types, Restart
    PROVE  /\ at' \in [Procs -> Spots] /\ \A p \in Procs : at'[p] = Rests(p)
           /\ batch' = [p \in Procs |-> {}] /\ left' = [p \in Procs |-> {}]
           /\ Places'
  BY RestTypes, CallFacts DEF Restart, Places

LEMMA PlacesStep ==
    ASSUME Types, [LogsNext]_logsVars
    PROVE  Places'
  <1>0. Settings' /\ born' >= born /\ born \in Nat /\ born' \in Nat /\ born' <= MaxCalls /\ born <= MaxCalls
    BY SettingsStep DEF Types, Settings
  <1> USE CallFacts DEF Types, Places
  <1>1. CASE UNCHANGED <<at, batch, left, cut, rest, erasing>>
    BY <1>0, <1>1
  <1>2. ASSUME NEW p \in Procs, StartArchive(p) PROVE Places'
    BY <1>0, <1>2, RestTypes, GoesTypes DEF StartArchive, Settings, tables
  <1>3. ASSUME NEW p \in Procs, Select(p) PROVE Places'
    <2>1. Oldest(DueRows(p)) \subseteq 1 .. born
      BY DEF Oldest, DueRows, Tables
    <2> QED
      BY <1>3, <2>1, RestTypes, GoesTypes DEF Select, tables
  <1>4. ASSUME NEW p \in Procs, CopyRow(p) PROVE Places'
    BY <1>4 DEF CopyRow
  <1>5. ASSUME NEW p \in Procs, DeleteBatch(p) \/ MoveBatch(p) PROVE Places'
    <2>1. \E spot \in Spots : Goes(p, spot)
      BY <1>5, RestTypes DEF DeleteBatch, MoveBatch, GoesOn
    <2>2. /\ batch' = [batch EXCEPT ![p] = {}] /\ left' = [left EXCEPT ![p] = {}]
          /\ born' = born /\ UNCHANGED <<cut, rest, erasing>>
      BY <1>5 DEF DeleteBatch, MoveBatch, Lets
    <2> QED
      BY <2>1, <2>2, GoesTypes
  <1>6. ASSUME NEW p \in Procs, StartPurge(p) PROVE Places'
    <2>1. at' \in [Procs -> Spots]
      BY <1>6, RestTypes, GoesTypes DEF StartPurge
    <2>2. PICK n \in 0 .. born : cut' = [cut EXCEPT ![p] = n]
      BY <1>6 DEF StartPurge
    <2>3. cut' \in [Procs -> 0 .. MaxCalls] /\ rest' \in [Procs -> SUBSET Years]
      BY <1>0, <1>6, <2>2 DEF StartPurge, Tables
    <2> QED
      BY <1>6, <2>1, <2>3 DEF StartPurge, tables
  <1>7. ASSUME NEW p \in Procs, SweepFile(p) PROVE Places'
    BY <1>7 DEF SweepFile
  <1>8. ASSUME NEW p \in Procs, EndSweep(p) PROVE Places'
    <2>1. at' \in [Procs -> Spots]
      BY <1>8, RestTypes, GoesTypes DEF EndSweep
    <2>2. cut' \in [Procs -> 0 .. MaxCalls] /\ erasing' \in Users \cup {None}
      BY <1>0, <1>8 DEF EndSweep
    <2> QED
      BY <1>8, <2>1, <2>2 DEF EndSweep, tables
  <1>9. ASSUME NEW p \in Procs, Fails(p) PROVE Places'
    BY <1>9, RestTypes, GoesTypes DEF Fails, Lets, tables
  <1>10. CASE StartClear \/ ListFiles
    BY <1>10, RestTypes, GoesTypes DEF StartClear, ListFiles, Tables, tables
  <1>11. ASSUME NEW u \in Users, EraseLive(u) PROVE Places'
    BY <1>11, RestTypes, GoesTypes DEF EraseLive
  <1>12. CASE Crash \/ Upgrade
    BY <1>12, RestartTypes DEF Crash, Upgrade
  <1> QED
    BY <1>1, <1>2, <1>3, <1>4, <1>5, <1>6, <1>7, <1>8, <1>9, <1>10, <1>11, <1>12
       DEF LogsNext, ArchiveStep, RecordCall, GetsOlder, Backfill, places, logsVars

LEMMA HistoriesStep ==
    ASSUME Types, [LogsNext]_logsVars
    PROVE  Histories'
  <1>0. /\ born' >= born /\ born \in Nat /\ born' \in Nat /\ born' <= MaxCalls /\ born <= MaxCalls
        /\ forgotten \subseteq 1 .. born' /\ cuts \in Nat /\ MaxCuts \in Nat
    BY SettingsStep, LogsAssumption DEF Types, Settings, Histories, LogsAssumption
  <1> USE CallFacts DEF Types, Histories
  <1>b. \A x \in BOOLEAN : (disturbed \/ x) \in BOOLEAN /\ (lost \/ x) \in BOOLEAN
    OBVIOUS
  <1>r. \A u : RowsOf(u) \subseteq 1 .. born /\ RowsOf(u) \subseteq Calls
    BY <1>0 DEF RowsOf
  <1>e. Erased \subseteq Calls
    BY <1>r DEF Erased
  <1>1. CASE UNCHANGED <<forgotten, spared, removed, disturbed, lost, cuts>>
    BY <1>0, <1>1
  <1>2. ASSUME NEW p \in Procs, Select(p) PROVE Histories'
    <2>1. disturbed' \in BOOLEAN
      BY <1>2 DEF Select
    <2> QED
      BY <1>0, <1>2, <2>1 DEF Select
  <1>3. ASSUME NEW p \in Procs, DeleteBatch(p) \/ MoveBatch(p) \/ SweepFile(p) PROVE Histories'
    BY <1>0, <1>3 DEF DeleteBatch, MoveBatch, SweepFile, Drops, Swept
  <1>4. ASSUME NEW p \in Procs, Fails(p) PROVE Histories'
    <2>1. disturbed' \in BOOLEAN
      BY <1>4 DEF Fails
    <2>2. cuts' \in 0 .. MaxCuts /\ spared' \subseteq Calls
      BY <1>0, <1>4, <1>e DEF Fails
    <2> QED
      BY <1>0, <1>4, <2>1, <2>2 DEF Fails
  <1>5. ASSUME NEW u \in Users, EraseLive(u) PROVE Histories'
    BY <1>0, <1>5, <1>r DEF EraseLive, Drops
  <1>6. CASE Crash
    <2>1. disturbed' \in BOOLEAN
      BY <1>6 DEF Crash, Restart
    <2>2. lost' \in BOOLEAN
      BY <1>6 DEF Crash
    <2>3. cuts' \in 0 .. MaxCuts /\ spared' \subseteq Calls
      BY <1>0, <1>6, <1>e DEF Crash, Restart
    <2> QED
      BY <1>0, <1>6, <2>1, <2>2, <2>3 DEF Crash
  <1>7. CASE Upgrade
    <2>1. disturbed' \in BOOLEAN
      BY <1>7 DEF Upgrade, Restart
    <2>2. spared' \subseteq Calls
      BY <1>7, <1>e DEF Upgrade, Restart
    <2> QED
      BY <1>0, <1>7, <2>1, <2>2 DEF Upgrade
  <1> QED
    BY <1>1, <1>2, <1>3, <1>4, <1>5, <1>6, <1>7
       DEF LogsNext, ArchiveStep, RecordCall, GetsOlder, StartArchive, CopyRow, StartPurge, EndSweep, StartClear,
           ListFiles, Backfill, history, logsVars

LEMMA TypesStep ==
    ASSUME Types, [LogsNext]_logsVars
    PROVE  Types'
  BY SettingsStep, TablesStep, PlacesStep, HistoriesStep DEF Types

-----------------------------------------------------------------------------
(* What a thread holds where it is                                         *)

Shape ==
    /\ \A p \in Procs :
        /\ left[p] \subseteq batch[p]
        /\ at[p] # "copy" => batch[p] = {}
        /\ ~Sqlite => left[p] = batch[p]
        /\ schema = "created" => at[p] = Rests(p)
    /\ \A c \in Calls : copies[c] > 0 => c <= born /\ YearOf[c] \in files

LEMMA EmptyBatches ==
    ASSUME Shape, schema = "created"
    PROVE  \A p \in Procs : batch[p] = {} /\ at[p] \in {"waiting", "idle"} /\ (at[Loop] = "idle")
  BY CallFacts DEF Shape, Rests

\* A thread that lets go of its batch, or never had one.
LEMMA EmptyShape ==
    ASSUME Types, Shape, NEW p \in Procs, NEW spot \in Spots \ {"copy"}, Goes(p, spot),
           batch'[p] = {}, left'[p] = {},
           \A q \in Procs \ {p} : batch'[q] = batch[q] /\ left'[q] = left[q],
           UNCHANGED <<dialect, schema>>,
           schema = "created" => spot = Rests(p),
           \A c \in Calls : copies'[c] > 0 => c <= born' /\ YearOf[c] \in files'
    PROVE  Shape'
  <1>1. at'[p] = spot /\ \A q \in Procs \ {p} : at'[q] = at[q]
    BY GoesTypes
  <1>2. ASSUME NEW q \in Procs
        PROVE  /\ left'[q] \subseteq batch'[q]
               /\ at'[q] # "copy" => batch'[q] = {}
               /\ ~Sqlite' => left'[q] = batch'[q]
               /\ schema' = "created" => at'[q] = Rests(q)
    <2>1. CASE q = p
      BY <1>1, <2>1
    <2>2. CASE q # p
      BY <1>1, <2>2 DEF Shape, Sqlite
    <2> QED
      BY <2>1, <2>2
  <1> QED
    BY <1>2 DEF Shape

LEMMA ShapeStep ==
    ASSUME Types, Shape, [LogsNext]_logsVars
    PROVE  Shape'
  <1>0. born' >= born /\ born \in Nat /\ born' \in Nat
    BY SettingsStep DEF Types, Settings
  <1>t. copies \in [Calls -> Nat] /\ \A p \in Procs : batch[p] \subseteq 1 .. born
    BY DEF Types, Tables, Places
  <1> USE CallFacts
  <1>1. CASE UNCHANGED <<dialect, schema, copies, files, at, batch, left>>
    BY <1>0, <1>1 DEF Shape, Sqlite, Types, Settings
  <1>2. ASSUME NEW p \in Procs, StartArchive(p) PROVE Shape'
    BY <1>0, <1>2, EmptyShape, EmptyBatches DEF StartArchive, Running, tables, Shape, Spots, Rests
  <1>3. ASSUME NEW p \in Procs, Select(p) PROVE Shape'
    <2>1. schema # "created"
      BY <1>3 DEF Select, Shape, Rests
    <2>2. at'[p] = "copy" /\ \A q \in Procs \ {p} : at'[q] = at[q]
      BY <1>3, GoesTypes, RestTypes DEF Select
    <2>3. /\ batch'[p] = left'[p]
          /\ \A q \in Procs \ {p} : batch'[q] = batch[q] /\ left'[q] = left[q]
      BY <1>3 DEF Select, Types, Places
    <2> QED
      BY <1>0, <1>3, <2>1, <2>2, <2>3 DEF Select, Shape, Sqlite, tables
  <1>4. ASSUME NEW p \in Procs, CopyRow(p) PROVE Shape'
    <2>1. First(left[p]) \in left[p] /\ First(left[p]) \in Calls
      BY <1>4, NextRow DEF CopyRow
    <2>2. First(left[p]) <= born
      BY <1>0, <1>t, <2>1 DEF Shape
    <2>3. \A c \in Calls : copies'[c] > 0 => c <= born' /\ YearOf[c] \in files'
      BY <1>4, <1>t, <2>1, <2>2, ArchiveTypes DEF CopyRow, Shape
    <2>4. /\ left'[p] \subseteq left[p] /\ \A q \in Procs \ {p} : left'[q] = left[q]
      BY <1>4 DEF CopyRow, Types, Places
    <2> QED
      BY <1>4, <2>3, <2>4 DEF CopyRow, Shape, Sqlite
  <1>5. ASSUME NEW p \in Procs, DeleteBatch(p) \/ MoveBatch(p) PROVE Shape'
    <2>1. PICK spot \in {"purging", "select"} : Goes(p, spot)
      BY <1>5 DEF DeleteBatch, MoveBatch, GoesOn
    <2>2. schema # "created"
      BY <1>5 DEF DeleteBatch, MoveBatch, Shape, Rests
    <2>3. /\ batch'[p] = {} /\ left'[p] = {}
          /\ \A q \in Procs \ {p} : batch'[q] = batch[q] /\ left'[q] = left[q]
      BY <1>5 DEF DeleteBatch, MoveBatch, Lets, Types, Places
    <2>4. \A c \in Calls : copies'[c] > 0 => c <= born' /\ YearOf[c] \in files'
      <3>1. CASE DeleteBatch(p)
        BY <3>1 DEF DeleteBatch, Shape
      <3>2. CASE MoveBatch(p)
        <4>1. batch[p] \in SUBSET Calls /\ \A c \in batch[p] : c <= born
          BY <1>0, <1>t DEF Types, Settings
        <4> QED
          BY <1>t, <3>2, <4>1, ArchiveTypes DEF MoveBatch, Shape
      <3> QED
        BY <1>5, <3>1, <3>2
    <2> QED
      BY <1>5, <2>1, <2>2, <2>3, <2>4, EmptyShape DEF DeleteBatch, MoveBatch, Spots
  <1>6. ASSUME NEW p \in Procs, StartPurge(p) PROVE Shape'
    BY <1>0, <1>6, EmptyShape DEF StartPurge, Spots, Sweeps, tables, Shape, Rests
  <1>7. ASSUME NEW p \in Procs, SweepFile(p) PROVE Shape'
    BY <1>0, <1>7, <1>t DEF SweepFile, Shape, Sqlite
  <1>8. ASSUME NEW p \in Procs, EndSweep(p) PROVE Shape'
    BY <1>0, <1>8, RestTypes, EmptyShape DEF EndSweep, Sweeps, tables, Shape
  <1>9. ASSUME NEW p \in Procs, Fails(p) PROVE Shape'
    <2>1. /\ batch'[p] = {} /\ left'[p] = {}
          /\ \A q \in Procs \ {p} : batch'[q] = batch[q] /\ left'[q] = left[q]
      BY <1>9 DEF Fails, Lets, Types, Places
    <2>2. schema # "created"
      BY <1>9 DEF Fails, Archiving, Sweeps, Shape, Rests
    <2>3. Breaks(p) \in Spots \ {"copy"}
      BY DEF Breaks, Spots
    <2> QED
      BY <1>9, <2>1, <2>2, <2>3, EmptyShape DEF Fails, tables, Shape
  <1>10. CASE StartClear \/ ListFiles
    <2>1. schema # "created" /\ at[Loop] # "copy"
      BY <1>10 DEF StartClear, ListFiles, Running, Shape, Rests
    <2> QED
      BY <1>10, <2>1, EmptyShape DEF StartClear, ListFiles, Spots, Sweeps, tables, Shape
  <1>11. ASSUME NEW u \in Users, EraseLive(u) PROVE Shape'
    BY <1>0, <1>11, EmptyShape DEF EraseLive, Running, Spots, Shape
  <1>12. CASE Crash \/ Upgrade
    <2>1. \A p \in Procs : batch'[p] = {} /\ left'[p] = {} /\ at'[p] = Rests(p)
      BY <1>12, RestartTypes DEF Crash, Upgrade
    <2> QED
      BY <1>0, <1>12, <2>1 DEF Crash, Upgrade, Shape, tables
  <1>13. CASE Backfill
    BY <1>0, <1>13 DEF Backfill, Shape, Sqlite, places
  <1> QED
    BY <1>1, <1>2, <1>3, <1>4, <1>5, <1>6, <1>7, <1>8, <1>9, <1>10, <1>11, <1>12, <1>13
       DEF LogsNext, ArchiveStep, RecordCall, GetsOlder, logsVars, tables, places

-----------------------------------------------------------------------------
(* No log is lost                                                          *)

Base == Types /\ Shape

\* A live row that its archiver has copied is archived, or somebody has
\* deleted the copy since.
Covered ==
    \A p \in Procs : \A c \in batch[p] \ left[p] : c \in live => copies[c] > 0 \/ c \in removed

\* What the steps do to the rows a thread holds.
LEMMA BatchFacts ==
    ASSUME Base
    PROVE  /\ copies \in [Calls -> Nat] /\ usage \in [Calls -> Nat]
           /\ \A p \in Procs : batch[p] \subseteq Calls /\ left[p] \subseteq batch[p] /\ batch[p] \subseteq 1 .. born
           /\ born \in Nat /\ born <= MaxCalls /\ live \subseteq 1 .. born /\ 1 .. born \subseteq Calls
           /\ forgotten \subseteq 1 .. born
           /\ \A c \in Calls : copies[c] > 0 => c <= born /\ YearOf[c] \in files
  BY CallFacts DEF Base, Types, Settings, Tables, Places, Histories, Shape

LEMMA LetsFacts ==
    ASSUME Base, NEW p \in Procs, Lets(p)
    PROVE  /\ batch'[p] = {} /\ left'[p] = {}
           /\ \A q \in Procs \ {p} : batch'[q] = batch[q] /\ left'[q] = left[q]
  BY DEF Base, Types, Places, Lets

LEMMA CopyFacts ==
    ASSUME Base, NEW p \in Procs, CopyRow(p)
    PROVE  \E c \in left[p] :
             /\ c \in Calls
             /\ \A d \in Calls : copies'[d] = IF d = c THEN copies[d] + 1 ELSE copies[d]
             /\ batch' = batch /\ left'[p] = left[p] \ {c} /\ \A q \in Procs \ {p} : left'[q] = left[q]
             /\ at' = at /\ erasing' = erasing /\ rest' = rest /\ live' = live /\ usage' = usage
             /\ dialect' = dialect /\ schema' = schema /\ files \subseteq files'
             /\ forgotten' = forgotten /\ spared' = spared /\ removed' = removed /\ disturbed' = disturbed
             /\ lost' = lost /\ Sqlite
  <1>1. First(left[p]) \in left[p] /\ First(left[p]) \in Calls
    BY NextRow DEF CopyRow, Base
  <1>2. /\ \A d \in Calls : copies'[d] = IF d \in {First(left[p])} THEN copies[d] + 1 ELSE copies[d]
        /\ files \subseteq files'
    BY <1>1, ArchiveTypes DEF CopyRow, Base
  <1>3. left' = [left EXCEPT ![p] = left[p] \ {First(left[p])}]
    BY DEF CopyRow
  <1>4. left'[p] = left[p] \ {First(left[p])} /\ \A q \in Procs \ {p} : left'[q] = left[q]
    BY <1>3 DEF Base, Types, Places
  <1> QED
    BY <1>1, <1>2, <1>4 DEF CopyRow

LEMMA MoveFacts ==
    ASSUME Base, NEW p \in Procs, MoveBatch(p)
    PROVE  /\ \A c \in Calls : copies'[c] = IF c \in batch[p] THEN copies[c] + 1 ELSE copies[c]
           /\ live' = live \ batch[p] /\ removed' = removed \ batch[p] /\ files \subseteq files'
           /\ usage' = usage /\ ~Sqlite
  <1>1. batch[p] \in SUBSET Calls
    BY BatchFacts
  <1> QED
    BY <1>1, ArchiveTypes DEF MoveBatch, Drops, Base

LEMMA SweepFacts ==
    ASSUME Base, NEW p \in Procs, SweepFile(p)
    PROVE  /\ \A c \in Calls : copies'[c] = IF c \in Swept(p) THEN 0 ELSE copies[c]
           /\ removed' = removed \cup {c \in Swept(p) \cap live : copies[c] > 0}
           /\ rest'[p] # rest[p]
           /\ rest'[p] = IF Sqlite THEN rest[p] \ {First(rest[p])} ELSE {}
           /\ \A q \in Procs \ {p} : rest'[q] = rest[q]
           /\ live' = live /\ batch' = batch /\ left' = left
  <1>1. First(rest[p]) \in rest[p]
    BY NextFile DEF SweepFile, Base
  <1>2. rest' = [rest EXCEPT ![p] = IF Sqlite THEN rest[p] \ {First(rest[p])} ELSE {}]
    BY DEF SweepFile
  <1>3. /\ rest'[p] = IF Sqlite THEN rest[p] \ {First(rest[p])} ELSE {}
        /\ \A q \in Procs \ {p} : rest'[q] = rest[q]
    BY <1>2 DEF Base, Types, Places
  <1> QED
    BY <1>1, <1>3 DEF SweepFile

LEMMA SelectFacts ==
    ASSUME Base, NEW p \in Procs, Select(p)
    PROVE  /\ batch'[p] \subseteq live /\ left'[p] = batch'[p]
           /\ \A q \in Procs \ {p} : batch'[q] = batch[q] /\ left'[q] = left[q]
           /\ ~disturbed' => ~disturbed /\ \A q \in Procs \ {p} : batch'[p] \cap batch[q] = {}
           /\ UNCHANGED <<dialect, schema, born, live, copies, usage, files, rest, erasing, forgotten, spared, removed, lost>>
           /\ batch[p] = {}
  <1>1. /\ batch' = [batch EXCEPT ![p] = Oldest(DueRows(p))] /\ left' = [left EXCEPT ![p] = Oldest(DueRows(p))]
        /\ disturbed' = (disturbed \/ \E q \in Procs \ {p} : Oldest(DueRows(p)) \cap batch[q] # {})
    BY DEF Select
  <1>2. Oldest(DueRows(p)) \subseteq live
    BY DEF Oldest, DueRows
  <1>3. /\ batch'[p] = Oldest(DueRows(p)) /\ left'[p] = Oldest(DueRows(p))
        /\ \A q \in Procs \ {p} : batch'[q] = batch[q] /\ left'[q] = left[q]
    BY <1>1 DEF Base, Types, Places
  <1>4. batch[p] = {}
    BY DEF Base, Shape, Select
  <1> QED
    BY <1>1, <1>2, <1>3, <1>4 DEF Select, tables

LEMMA RestartFacts ==
    ASSUME Base, Crash \/ Upgrade
    PROVE  /\ \A p \in Procs : batch'[p] = {} /\ left'[p] = {} /\ at'[p] = Rests(p)
           /\ live' = live /\ copies' = copies /\ files' = files /\ dialect' = dialect /\ removed' = removed
           /\ spared' = spared \cup Erased /\ forgotten' = forgotten
           /\ disturbed' = (disturbed \/ \E p \in Procs : Halfway(p))
  BY RestartTypes DEF Base, Crash, Upgrade, Restart, tables

LEMMA CoveredStep ==
    ASSUME Base, Covered, [LogsNext]_logsVars
    PROVE  Covered'
  <1>1. CASE UNCHANGED <<live, copies, batch, left, removed>>
    BY <1>1 DEF Covered
  <1>2. CASE RecordCall
    BY <1>2, BatchFacts DEF RecordCall, places, history, Covered
  <1>3. ASSUME NEW p \in Procs, Select(p) PROVE Covered'
    BY <1>3, SelectFacts DEF Covered
  <1>4. ASSUME NEW p \in Procs, CopyRow(p) PROVE Covered'
    BY <1>4, CopyFacts, BatchFacts DEF Covered
  <1>5. ASSUME NEW p \in Procs, DeleteBatch(p) PROVE Covered'
    BY <1>5, LetsFacts DEF DeleteBatch, Drops, Covered
  <1>6. ASSUME NEW p \in Procs, MoveBatch(p) PROVE Covered'
    <2>1. Lets(p)
      BY <1>6 DEF MoveBatch
    <2> QED
      BY <1>6, <2>1, LetsFacts, MoveFacts, BatchFacts DEF Covered
  <1>7. ASSUME NEW p \in Procs, SweepFile(p) PROVE Covered'
    BY <1>7, SweepFacts, BatchFacts DEF Covered
  <1>8. ASSUME NEW p \in Procs, Fails(p) PROVE Covered'
    BY <1>8, LetsFacts DEF Fails, tables, Covered
  <1>9. ASSUME NEW u \in Users, EraseLive(u) PROVE Covered'
    BY <1>9 DEF EraseLive, Drops, Covered
  <1>10. CASE Crash \/ Upgrade
    BY <1>10, RestartFacts DEF Covered
  <1> QED
    BY <1>1, <1>2, <1>3, <1>4, <1>5, <1>6, <1>7, <1>8, <1>9, <1>10
       DEF LogsNext, ArchiveStep, GetsOlder, StartArchive, StartPurge, EndSweep, StartClear, ListFiles, Backfill,
           tables, places, history, logsVars

LEMMA NothingLost ==
    ASSUME Base, Covered, LogsNext, NEW c \in Calls, Stored(c)
    PROVE  Stored(c)' \/ Deleted(c)
  <1>1. CASE live \subseteq live' /\ copies' = copies
    BY <1>1 DEF Stored
  <1>2. ASSUME NEW p \in Procs, CopyRow(p) PROVE Stored(c)'
    BY <1>2, CopyFacts, BatchFacts DEF Stored
  <1>3. ASSUME NEW p \in Procs, DeleteBatch(p) PROVE Stored(c)' \/ Deleted(c)
    BY <1>3 DEF DeleteBatch, Drops, Covered, Stored, Deleted
  <1>4. ASSUME NEW p \in Procs, MoveBatch(p) PROVE Stored(c)'
    BY <1>4, MoveFacts, BatchFacts DEF Stored
  <1>5. ASSUME NEW p \in Procs, SweepFile(p) PROVE Stored(c)' \/ Deleted(c)
    BY <1>5, SweepFacts DEF Stored, Deleted
  <1>6. ASSUME NEW u \in Users, EraseLive(u) PROVE Stored(c)' \/ Deleted(c)
    BY <1>6 DEF EraseLive, Drops, Stored, Deleted
  <1> QED
    BY <1>1, <1>2, <1>3, <1>4, <1>5, <1>6
       DEF LogsNext, ArchiveStep, RecordCall, GetsOlder, StartArchive, Select, StartPurge, EndSweep, StartClear,
           ListFiles, Backfill, Fails, Crash, Upgrade, tables

-----------------------------------------------------------------------------
(* Nothing is archived twice unnoticed                                     *)

\* Without a disturbance a live row is in the archive only while its archiver,
\* and nobody else, is between copying and deleting it.
Single ==
    ~disturbed =>
        /\ \A c \in Calls : copies[c] <= 1
        /\ \A c \in live : copies[c] > 0 => \E p \in Procs : c \in batch[p] \ left[p]
        /\ \A p \in Procs : \A c \in left[p] : copies[c] = 0
        /\ \A p, q \in Procs : p # q => batch[p] \cap batch[q] = {}

LEMMA SingleStep ==
    ASSUME Base, Single, [LogsNext]_logsVars
    PROVE  Single'
  <1>1. CASE UNCHANGED <<live, copies, batch, left, disturbed>>
    BY <1>1 DEF Single
  <1>2. CASE RecordCall
    <2>1. live' \subseteq live \cup {born + 1} /\ (born + 1 \in live' => born + 1 \in Calls)
      BY <1>2, BatchFacts, CallFacts DEF RecordCall
    <2>2. born + 1 \in Calls => copies[born + 1] = 0
      BY BatchFacts
    <2> QED
      BY <1>2, <2>1, <2>2, BatchFacts DEF RecordCall, places, history, Single
  <1>3. ASSUME NEW p \in Procs, Select(p) PROVE Single'
    <2> SUFFICES ASSUME ~disturbed'
                 PROVE  /\ \A c \in Calls : copies'[c] <= 1
                        /\ \A c \in live' : copies'[c] > 0 => \E q \in Procs : c \in batch'[q] \ left'[q]
                        /\ \A q \in Procs : \A c \in left'[q] : copies'[c] = 0
                        /\ \A q, r \in Procs : q # r => batch'[q] \cap batch'[r] = {}
      BY DEF Single
    <2>1. ~disturbed /\ \A q \in Procs \ {p} : batch'[p] \cap batch[q] = {}
      BY <1>3, SelectFacts
    <2>2. \A c \in live : copies[c] > 0 => \E q \in Procs \ {p} : c \in batch[q] \ left[q]
      BY <1>3, <2>1, SelectFacts DEF Single
    <2>3. \A c \in left'[p] : copies[c] = 0
      BY <1>3, <2>1, <2>2, SelectFacts, BatchFacts
    <2> QED
      BY <1>3, <2>1, <2>2, <2>3, SelectFacts DEF Single
  <1>4. ASSUME NEW p \in Procs, CopyRow(p) PROVE Single'
    <2>1. PICK c \in left[p] :
             /\ c \in Calls
             /\ \A d \in Calls : copies'[d] = IF d = c THEN copies[d] + 1 ELSE copies[d]
             /\ batch' = batch /\ left'[p] = left[p] \ {c} /\ \A q \in Procs \ {p} : left'[q] = left[q]
             /\ live' = live /\ disturbed' = disturbed
      BY <1>4, CopyFacts
    <2> SUFFICES ASSUME ~disturbed
                 PROVE  /\ \A d \in Calls : copies'[d] <= 1
                        /\ \A d \in live' : copies'[d] > 0 => \E q \in Procs : d \in batch'[q] \ left'[q]
                        /\ \A q \in Procs : \A d \in left'[q] : copies'[d] = 0
                        /\ \A q, r \in Procs : q # r => batch'[q] \cap batch'[r] = {}
      BY <2>1 DEF Single
    <2>2. copies[c] = 0 /\ c \in batch[p] /\ \A q \in Procs \ {p} : c \notin batch[q]
      BY BatchFacts DEF Single
    <2>3. \A d \in Calls : copies'[d] <= 1
      BY <2>1, <2>2, BatchFacts DEF Single
    <2>4. \A d \in live' : copies'[d] > 0 => \E q \in Procs : d \in batch'[q] \ left'[q]
      <3>1. ASSUME NEW d \in live, copies'[d] > 0 PROVE \E q \in Procs : d \in batch[q] \ left'[q]
        <4>1. CASE d = c
          BY <2>1, <2>2, <4>1
        <4>2. CASE d # c
          <5>1. copies[d] > 0
            BY <2>1, <3>1, <4>2, BatchFacts
          <5> QED
            BY <2>1, <5>1 DEF Single
        <4> QED
          BY <4>1, <4>2
      <3> QED
        BY <2>1, <3>1
    <2>5. \A q \in Procs : \A d \in left'[q] : copies'[d] = 0
      <3>1. ASSUME NEW q \in Procs, NEW d \in left'[q] PROVE copies'[d] = 0
        <4>1. d \in left[q] /\ d # c /\ d \in Calls
          BY <2>1, <2>2, BatchFacts
        <4> QED
          BY <2>1, <4>1 DEF Single
      <3> QED
        BY <3>1
    <2> QED
      BY <2>1, <2>3, <2>4, <2>5 DEF Single
  <1>5. ASSUME NEW p \in Procs, DeleteBatch(p) PROVE Single'
    BY <1>5, LetsFacts DEF DeleteBatch, Drops, Single
  <1>6. ASSUME NEW p \in Procs, MoveBatch(p) PROVE Single'
    <2>1. Lets(p) /\ disturbed' = disturbed /\ left[p] = batch[p]
      BY <1>6 DEF MoveBatch, Base, Shape
    <2> SUFFICES ASSUME ~disturbed
                 PROVE  /\ \A c \in Calls : copies'[c] <= 1
                        /\ \A c \in live' : copies'[c] > 0 => \E q \in Procs : c \in batch'[q] \ left'[q]
                        /\ \A q \in Procs : \A c \in left'[q] : copies'[c] = 0
                        /\ \A q, r \in Procs : q # r => batch'[q] \cap batch'[r] = {}
      BY <2>1 DEF Single
    <2>2. \A c \in batch[p] : copies[c] = 0 /\ \A q \in Procs \ {p} : c \notin batch[q]
      BY <2>1 DEF Single
    <2>3. \A c \in Calls : copies'[c] <= 1
      BY <1>6, <2>2, MoveFacts, BatchFacts DEF Single
    <2>4. \A c \in live' : copies'[c] > 0 => \E q \in Procs : c \in batch'[q] \ left'[q]
      BY <1>6, <2>1, MoveFacts, BatchFacts, LetsFacts DEF Single
    <2>5. \A q \in Procs : \A c \in left'[q] : copies'[c] = 0
      BY <1>6, <2>1, <2>2, MoveFacts, BatchFacts, LetsFacts DEF Single
    <2> QED
      BY <2>1, <2>3, <2>4, <2>5, LetsFacts DEF Single
  <1>7. ASSUME NEW p \in Procs, SweepFile(p) PROVE Single'
    <2>1. disturbed' = disturbed /\ \A c \in Calls : copies'[c] \in {0, copies[c]}
      BY <1>7, SweepFacts DEF SweepFile
    <2>2. live' = live /\ batch' = batch /\ left' = left
      BY <1>7, SweepFacts
    <2>3. \A c \in Calls : copies[c] \in Nat /\ (copies[c] <= 1 => copies'[c] <= 1) /\ (copies[c] = 0 => copies'[c] = 0)
      BY <2>1, BatchFacts
    <2>4. live \subseteq Calls /\ \A q \in Procs : left[q] \subseteq Calls
      BY BatchFacts
    <2>5. \A c \in live : copies'[c] > 0 => copies[c] > 0
      BY <2>1, <2>4, BatchFacts
    <2> QED
      BY <2>1, <2>2, <2>3, <2>4, <2>5 DEF Single
  <1>8. ASSUME NEW p \in Procs, Fails(p) PROVE Single'
    <2>1. Lets(p) /\ live' = live /\ copies' = copies /\ disturbed' = (disturbed \/ Halfway(p))
      BY <1>8 DEF Fails, tables
    <2> SUFFICES ASSUME ~disturbed'
                 PROVE  /\ \A c \in Calls : copies'[c] <= 1
                        /\ \A c \in live' : copies'[c] > 0 => \E q \in Procs : c \in batch'[q] \ left'[q]
                        /\ \A q \in Procs : \A c \in left'[q] : copies'[c] = 0
                        /\ \A q, r \in Procs : q # r => batch'[q] \cap batch'[r] = {}
      BY DEF Single
    <2>2. ~disturbed /\ left[p] = batch[p]
      BY <2>1 DEF Halfway, Base, Shape
    <2>3. \A c \in live : copies[c] > 0 => \E q \in Procs \ {p} : c \in batch[q] \ left[q]
      BY <2>2 DEF Single
    <2>4. \A q \in Procs : batch'[q] \subseteq batch[q] /\ left'[q] \subseteq left[q]
      BY <2>1, LetsFacts
    <2>5. \A c \in live' : copies'[c] > 0 => \E q \in Procs : c \in batch'[q] \ left'[q]
      BY <2>1, <2>3, LetsFacts
    <2>6. \A q, r \in Procs : q # r => batch'[q] \cap batch'[r] = {}
      BY <2>2, <2>4 DEF Single
    <2> QED
      BY <2>1, <2>2, <2>4, <2>5, <2>6 DEF Single
  <1>9. ASSUME NEW u \in Users, EraseLive(u) PROVE Single'
    BY <1>9 DEF EraseLive, Drops, Single
  <1>10. CASE Crash \/ Upgrade
    <2> SUFFICES ASSUME ~disturbed'
                 PROVE  /\ \A c \in Calls : copies'[c] <= 1
                        /\ \A c \in live' : copies'[c] > 0 => \E q \in Procs : c \in batch'[q] \ left'[q]
                        /\ \A q \in Procs : \A c \in left'[q] : copies'[c] = 0
                        /\ \A q, r \in Procs : q # r => batch'[q] \cap batch'[r] = {}
      BY DEF Single
    <2>1. ~disturbed /\ \A p \in Procs : left[p] = batch[p]
      BY <1>10, RestartFacts DEF Halfway, Base, Shape
    <2>2. \A c \in live : copies[c] = 0
      <3>1. \A c \in live : copies[c] \in Nat
        BY BatchFacts
      <3> QED
        BY <2>1, <3>1 DEF Single
    <2> QED
      BY <1>10, <2>1, <2>2, RestartFacts DEF Single
  <1> QED
    BY <1>1, <1>2, <1>3, <1>4, <1>5, <1>6, <1>7, <1>8, <1>9, <1>10
       DEF LogsNext, ArchiveStep, GetsOlder, StartArchive, StartPurge, EndSweep, StartClear, ListFiles, Backfill,
           tables, places, history, logsVars
-----------------------------------------------------------------------------
(* What is stored is counted                                               *)

\* What is stored, or held by an archiver that will store it, is counted.
Counted ==
    /\ \A c \in Calls \ Succeeds : usage[c] = 0
    /\ schema = "up" =>
         \A c \in Succeeds :
            /\ Stored(c) \/ \E p \in Procs : c \in batch[p]
            /\ usage[c] = 0
            => lost \/ c \in forgotten

\* A step that counts no call anew, forgets no deletion and stores only what
\* was stored or held.
LEMMA CountedKept ==
    ASSUME Counted, usage' = usage, schema' = schema, lost' = lost, forgotten' = forgotten,
           \A c \in Calls : Stored(c)' \/ (\E p \in Procs : c \in batch'[p])
                            => Stored(c) \/ \E p \in Procs : c \in batch[p]
    PROVE  Counted'
  <1>1. Succeeds \subseteq Calls
    BY LogsAssumption DEF LogsAssumption
  <1> QED
    BY <1>1 DEF Counted

LEMMA CountedStep ==
    ASSUME Base, Counted, [LogsNext]_logsVars
    PROVE  Counted'
  <1>0. Succeeds \subseteq Calls /\ Job \in Procs /\ Loop \in Procs
    BY LogsAssumption, CallFacts DEF LogsAssumption
  <1>1. CASE UNCHANGED <<live, copies, batch, usage, schema, lost, forgotten>>
    BY <1>1 DEF Counted, Stored
  <1>2. CASE RecordCall
    <2>1. born + 1 \in Calls /\ born' = born + 1
      BY <1>2, BatchFacts, CallFacts DEF RecordCall
    <2>2. PICK n \in {0, 1} : /\ usage' = [usage EXCEPT ![born'] = n]
                              /\ n = IF born' \in Succeeds /\ schema = "up" THEN 1 ELSE 0
      BY <1>2 DEF RecordCall
    <2>3. usage'[born'] = n /\ \A c \in Calls \ {born'} : usage'[c] = usage[c]
      BY <2>1, <2>2, BatchFacts
    <2>4. live' \subseteq live \cup {born'} /\ UNCHANGED <<copies, batch, schema, lost, forgotten>>
      BY <1>2 DEF RecordCall, places, history
    <2>5. \A c \in Calls \ {born'} : Stored(c)' => Stored(c)
      BY <2>4 DEF Stored
    <2> QED
      BY <1>0, <2>2, <2>3, <2>4, <2>5 DEF Counted
  <1>3. ASSUME NEW p \in Procs, Select(p) PROVE Counted'
    <2>1. UNCHANGED <<live, copies, usage, schema, lost, forgotten>>
      BY <1>3, SelectFacts
    <2>2. \A c \in Calls : \A q \in Procs : c \in batch'[q] => c \in batch[q] \/ Stored(c)
      BY <1>3, SelectFacts DEF Stored
    <2> QED
      BY <2>1, <2>2, CountedKept DEF Stored
  <1>4. ASSUME NEW p \in Procs, CopyRow(p) PROVE Counted'
    <2>1. \A c \in Calls : Stored(c)' => Stored(c) \/ \E q \in Procs : c \in batch[q]
      BY <1>4, CopyFacts, BatchFacts DEF Stored
    <2>2. UNCHANGED <<batch, usage, schema, lost, forgotten>>
      BY <1>4 DEF CopyRow
    <2> QED
      BY <2>1, <2>2, CountedKept
  <1>5. ASSUME NEW p \in Procs, DeleteBatch(p) PROVE Counted'
    BY <1>5, LetsFacts, CountedKept DEF DeleteBatch, Drops, Stored
  <1>6. ASSUME NEW p \in Procs, MoveBatch(p) PROVE Counted'
    <2>1. Lets(p) /\ UNCHANGED <<usage, schema, lost, forgotten>>
      BY <1>6 DEF MoveBatch
    <2>2. \A c \in Calls : Stored(c)' => Stored(c) \/ c \in batch[p]
      BY <1>6, MoveFacts, BatchFacts DEF Stored
    <2>3. \A c \in Calls : \A q \in Procs : c \in batch'[q] => c \in batch[q]
      BY <2>1, LetsFacts
    <2> QED
      BY <2>1, <2>2, <2>3, CountedKept
  <1>7. ASSUME NEW p \in Procs, SweepFile(p) PROVE Counted'
    <2>1. UNCHANGED <<live, batch, usage, schema, lost, forgotten>>
      BY <1>7 DEF SweepFile
    <2>2. \A c \in Calls : copies'[c] = 0 \/ copies'[c] = copies[c]
      BY <1>7, SweepFacts
    <2>3. \A c \in Calls : Stored(c)' => Stored(c)
      BY <2>1, <2>2, BatchFacts DEF Stored
    <2> QED
      BY <2>1, <2>3, CountedKept
  <1>8. ASSUME NEW p \in Procs, Fails(p) PROVE Counted'
    BY <1>8, LetsFacts, CountedKept DEF Fails, tables, Stored
  <1>9. ASSUME NEW u \in Users, EraseLive(u) PROVE Counted'
    <2>1. /\ live' = live \ RowsOf(u) /\ UNCHANGED <<copies, batch, schema, lost>>
          /\ \A c \in Calls : usage'[c] = IF c \in RowsOf(u) THEN 0 ELSE usage[c]
          /\ forgotten' = forgotten \cup {c \in RowsOf(u) : Stored(c) \/ c \in batch[Job]}
      BY <1>9 DEF EraseLive, Drops
    <2>2. batch[Loop] = {}
      BY <1>0, <1>9 DEF EraseLive, Base, Shape
    <2>3. \A c \in Calls : Stored(c)' => Stored(c)
      BY <2>1 DEF Stored
    <2>4. \A c \in Calls : \A p \in Procs : c \in batch[p] => c \in batch[Job]
      BY <2>2, CallFacts
    <2> QED
      BY <1>0, <2>1, <2>3, <2>4 DEF Counted
  <1>10. CASE Crash
    <2>1. /\ live' = live /\ copies' = copies /\ forgotten' = forgotten /\ usage' = usage
          /\ \A p \in Procs : batch'[p] = {}
      BY <1>10, RestartFacts DEF Crash, tables
    <2>2. schema' = "up" => (schema = "up" /\ (lost => lost')) \/ lost'
      BY <1>10 DEF Crash, Base, Types, Settings
    <2> QED
      BY <1>0, <2>1, <2>2 DEF Counted, Stored
  <1>11. CASE Upgrade \/ Backfill
    <2>1. /\ live' = live /\ copies' = copies /\ lost' = lost /\ forgotten' = forgotten
          /\ \A p \in Procs : batch'[p] = {}
      <3>1. CASE Upgrade
        BY <1>11, <3>1, RestartFacts DEF Upgrade
      <3>2. CASE Backfill
        BY <3>2, EmptyBatches DEF Backfill, Base, places, history
      <3> QED
        BY <1>11, <3>1, <3>2
    <2>2. Backfills \/ (usage' = usage /\ schema' # "up")
      BY <1>11 DEF Upgrade, Backfill
    <2>3. CASE Backfills
      <3>1. \A c \in Calls : usage'[c] = IF c \in Succeeds THEN Backfilled(c) ELSE 0
        BY <2>3, BackfillTypes DEF Base
      <3>2. \A c \in Calls : Stored(c) => Backfilled(c) # 0
        BY DEF Stored, Backfilled
      <3> QED
        BY <1>0, <2>1, <3>1, <3>2 DEF Counted, Stored
    <2>4. CASE usage' = usage /\ schema' # "up"
      BY <2>4 DEF Counted
    <2> QED
      BY <2>2, <2>3, <2>4
  <1> QED
    BY <1>1, <1>2, <1>3, <1>4, <1>5, <1>6, <1>7, <1>8, <1>9, <1>10, <1>11
       DEF LogsNext, ArchiveStep, GetsOlder, StartArchive, StartPurge, EndSweep, StartClear, ListFiles,
           tables, places, history, logsVars

\* Only filling token_usage makes a call count twice, and only from a row that
\* the archive holds twice.
LEMMA CountsOnce ==
    ASSUME Base, [LogsNext]_logsVars, NEW c \in Calls, usage'[c] > 1, usage[c] <= 1
    PROVE  copies[c] > 1
  <1>0. usage[c] \in Nat /\ copies[c] \in Nat
    BY BatchFacts
  <1>1. usage' # usage
    BY <1>0
  <1>2. CASE RecordCall
    <2>1. PICK n \in {0, 1} : usage' = [usage EXCEPT ![born'] = n]
      BY <1>2 DEF RecordCall
    <2>2. usage'[c] \in {n, usage[c]}
      BY <2>1, BatchFacts
    <2> QED
      BY <1>0, <2>1, <2>2
  <1>3. ASSUME NEW u \in Users, EraseLive(u) PROVE FALSE
    BY <1>0, <1>3 DEF EraseLive
  <1>4. CASE Backfills
    <2>1. usage'[c] = 0 \/ usage'[c] = 1 \/ usage'[c] = copies[c]
      BY <1>4, BackfillTypes DEF Base, Backfilled
    <2> QED
      BY <1>0, <2>1
  <1> QED
    BY <1>1, <1>2, <1>3, <1>4
       DEF LogsNext, ArchiveStep, GetsOlder, StartArchive, Select, CopyRow, DeleteBatch, MoveBatch, StartPurge,
           SweepFile, EndSweep, StartClear, ListFiles, Fails, Crash, Upgrade, Backfill, tables, logsVars
-----------------------------------------------------------------------------
(* What a deletion by user has covered                                     *)

\* The deletion of c's user has yet to reach its copy.
Awaited(c) ==
    /\ UserOf[c] = erasing
    /\ \/ at[Loop] = "erasing"
       \/ at[Loop] = "erase" /\ (IF Sqlite THEN YearOf[c] \in rest[Loop] ELSE rest[Loop] # {})

Gone ==
    \A c \in forgotten \ spared :
        /\ c \notin live /\ usage[c] = 0
        /\ \A p \in Procs : c \notin batch[p]
        /\ copies[c] > 0 => Awaited(c)

\* A step that covers nothing anew and leaves alone what Gone speaks of, or
\* takes from it.
LEMMA GoneKept ==
    ASSUME Base, Gone, forgotten' = forgotten, spared \subseteq spared',
           \A c \in forgotten \ spared' :
              /\ c \notin live => c \notin live'
              /\ usage[c] = 0 => usage'[c] = 0
              /\ \A p \in Procs : c \in batch'[p] => c \in batch[p] \/ c \in live
              /\ copies'[c] > 0 => copies[c] > 0 \/ \E p \in Procs : c \in batch[p]
              /\ copies[c] > 0 /\ Awaited(c) /\ copies'[c] > 0 => Awaited(c)'
    PROVE  Gone'
  BY DEF Gone

\* The places a step of another thread, or none, leaves alone.
LEMMA AwaitedKept ==
    ASSUME at'[Loop] = at[Loop], UNCHANGED <<dialect, rest[Loop], erasing>>
    PROVE  \A c : Awaited(c) => Awaited(c)'
  BY DEF Awaited, Sqlite

LEMMA GoneStep ==
    ASSUME Base, Gone, [LogsNext]_logsVars
    PROVE  Gone'
  <1>0. /\ Job \in Procs /\ Loop \in Procs /\ Job # Loop
        /\ forgotten \subseteq Calls /\ forgotten \subseteq 1 .. born /\ born \in Nat
        /\ copies \in [Calls -> Nat]
    BY CallFacts, BatchFacts
  <1>1. CASE UNCHANGED <<dialect, live, copies, batch, usage, at, rest, erasing, forgotten, spared>>
    BY <1>1, AwaitedKept, GoneKept
  <1>2. CASE RecordCall
    <2>1. live' \subseteq live \cup {born + 1} /\ \A c \in 1 .. born : usage'[c] = usage[c]
      BY <1>2, BatchFacts DEF RecordCall
    <2>2. UNCHANGED <<dialect, copies, batch, at, rest, erasing, forgotten, spared>>
      BY <1>2 DEF RecordCall, places, history
    <2> QED
      BY <1>0, <2>1, <2>2, AwaitedKept, GoneKept
  <1>3. ASSUME NEW p \in Procs, StartArchive(p) \/ Select(p) PROVE Gone'
    <2>1. at[p] \notin {"erasing", "erase"} /\ (p # Loop => at'[Loop] = at[Loop])
      BY <1>0, <1>3 DEF StartArchive, Select, Rests, Goes, Base, Types, Places
    <2>2. UNCHANGED <<dialect, live, copies, usage, rest, erasing, forgotten, spared>>
      BY <1>3 DEF StartArchive, Select, tables, history
    <2>3. \A c \in Calls : \A q \in Procs : c \in batch'[q] => c \in batch[q] \/ c \in live
      BY <1>3, SelectFacts DEF StartArchive
    <2>4. \A c : Awaited(c) => Awaited(c)'
      <3>1. CASE p = Loop
        BY <2>1, <3>1 DEF Awaited
      <3>2. CASE p # Loop
        BY <2>1, <2>2, <3>2, AwaitedKept
      <3> QED
        BY <3>1, <3>2
    <2> QED
      BY <1>0, <2>2, <2>3, <2>4, GoneKept
  <1>4. ASSUME NEW p \in Procs, CopyRow(p) PROVE Gone'
    <2>1. UNCHANGED <<dialect, live, usage, batch, at, rest, erasing, forgotten, spared>>
      BY <1>4 DEF CopyRow
    <2>2. \A c \in Calls : copies'[c] = copies[c] \/ c \in batch[p]
      BY <1>4, CopyFacts, BatchFacts
    <2>3. \A c : Awaited(c) => Awaited(c)'
      BY <2>1, AwaitedKept
    <2> QED
      BY <1>0, <2>1, <2>2, <2>3, GoneKept
  <1>5. ASSUME NEW p \in Procs, DeleteBatch(p) \/ MoveBatch(p) PROVE Gone'
    <2>1. at[p] = "copy" /\ (p # Loop => at'[Loop] = at[Loop])
      BY <1>0, <1>5 DEF DeleteBatch, MoveBatch, GoesOn, Goes, Base, Types, Places
    <2>2. Lets(p) /\ live' \subseteq live /\ UNCHANGED <<dialect, usage, rest, erasing, forgotten, spared>>
      BY <1>5 DEF DeleteBatch, MoveBatch, Drops
    <2>3. \A c \in Calls : copies'[c] = copies[c] \/ c \in batch[p]
      BY <1>5, MoveFacts DEF DeleteBatch
    <2>4. \A q \in Procs : batch'[q] \subseteq batch[q]
      BY <2>2, LetsFacts
    <2>5. \A c : Awaited(c) => Awaited(c)'
      <3>1. CASE p = Loop
        BY <2>1, <3>1 DEF Awaited
      <3>2. CASE p # Loop
        BY <2>1, <2>2, <3>2, AwaitedKept
      <3> QED
        BY <3>1, <3>2
    <2> QED
      BY <1>0, <2>2, <2>3, <2>4, <2>5, GoneKept
  <1>6. ASSUME NEW p \in Procs, StartPurge(p) PROVE Gone'
    <2>1. at[p] = "purging" /\ (p # Loop => at'[Loop] = at[Loop] /\ rest'[Loop] = rest[Loop])
      BY <1>0, <1>6 DEF StartPurge, Goes, Base, Types, Places
    <2>2. UNCHANGED <<dialect, live, copies, usage, batch, erasing, forgotten, spared>>
      BY <1>6 DEF StartPurge, tables, history
    <2>3. \A c : Awaited(c) => Awaited(c)'
      <3>1. CASE p = Loop
        BY <2>1, <3>1 DEF Awaited
      <3>2. CASE p # Loop
        BY <2>1, <2>2, <3>2, AwaitedKept
      <3> QED
        BY <3>1, <3>2
    <2> QED
      BY <1>0, <2>2, <2>3, GoneKept
  <1>7. ASSUME NEW p \in Procs, SweepFile(p) PROVE Gone'
    <2>1. UNCHANGED <<dialect, live, usage, batch, at, erasing, forgotten, spared>>
      BY <1>7 DEF SweepFile
    <2>s. \A c \in Calls : /\ c \in Swept(p) => copies'[c] = 0
                           /\ c \notin Swept(p) => copies'[c] = copies[c]
      BY <1>7, SweepFacts
    <2>2. ASSUME NEW c \in Calls, Awaited(c), copies'[c] > 0 PROVE Awaited(c)'
      <3>1. c \notin Swept(p)
        BY <2>2, <2>s
      <3>2. CASE p # Loop
        BY <1>0, <1>7, <2>1, <2>2, <3>2, SweepFacts, AwaitedKept
      <3>3. CASE p = Loop /\ at[Loop] = "erasing"
        BY <1>7, <3>3 DEF SweepFile, Sweeps
      <3>4. CASE p = Loop /\ at[Loop] = "erase"
        <4>1. Matches(Loop, c)
          BY <2>2, <3>4 DEF Matches, Awaited
        <4>2. Sqlite /\ YearOf[c] # First(rest[Loop])
          BY <3>1, <3>4, <4>1 DEF Swept
        <4>3. YearOf[c] \in rest'[Loop]
          BY <1>7, <2>2, <3>4, <4>2, SweepFacts DEF Awaited
        <4> QED
          BY <2>1, <2>2, <3>4, <4>2, <4>3 DEF Awaited, Sqlite
      <3> QED
        BY <2>2, <3>2, <3>3, <3>4 DEF Awaited
    <2>3. \A c \in Calls : copies'[c] > 0 => copies[c] > 0
      BY <1>0, <2>s
    <2> QED
      BY <1>0, <2>1, <2>2, <2>3, GoneKept
  <1>8. ASSUME NEW p \in Procs, EndSweep(p) PROVE Gone'
    <2>1. /\ rest[p] = {} /\ at[p] # "erasing"
          /\ (p # Loop => at'[Loop] = at[Loop] /\ erasing' = erasing)
      BY <1>0, <1>8 DEF EndSweep, Sweeps, Goes, Base, Types, Places
    <2>2. UNCHANGED <<dialect, live, copies, usage, batch, rest, forgotten, spared>>
      BY <1>8 DEF EndSweep, tables, history
    <2>3. \A c : Awaited(c) => Awaited(c)'
      <3>1. CASE p = Loop
        BY <2>1, <3>1 DEF Awaited
      <3>2. CASE p # Loop
        BY <2>1, <2>2, <3>2, AwaitedKept
      <3> QED
        BY <3>1, <3>2
    <2> QED
      BY <1>0, <2>2, <2>3, GoneKept
  <1>9. ASSUME NEW p \in Procs, Fails(p) PROVE Gone'
    <2>1. /\ Lets(p) /\ UNCHANGED <<dialect, live, copies, usage, forgotten>>
          /\ spared' = IF p = Loop THEN spared \cup Erased ELSE spared
      BY <1>9 DEF Fails, tables
    <2>2. \A q \in Procs : batch'[q] \subseteq batch[q]
      BY <2>1, LetsFacts
    <2>3. ASSUME NEW c \in forgotten \ spared', Awaited(c) PROVE Awaited(c)'
      <3>1. CASE p = Loop
        <4>1. c \in Erased
          BY <1>0, <2>3 DEF Awaited, Erased, RowsOf
        <4> QED
          BY <2>1, <2>3, <3>1, <4>1
      <3>2. CASE p # Loop
        <4>1. at'[Loop] = at[Loop] /\ rest'[Loop] = rest[Loop] /\ erasing' = erasing
          BY <1>0, <1>9, <3>2 DEF Fails, Goes, Base, Types, Places
        <4> QED
          BY <2>1, <2>3, <4>1, AwaitedKept
      <3> QED
        BY <3>1, <3>2
    <2> QED
      BY <1>0, <2>1, <2>2, <2>3, GoneKept
  <1>10. CASE StartClear \/ ListFiles
    <2>1. UNCHANGED <<dialect, live, copies, usage, batch, erasing, forgotten, spared>>
      BY <1>10 DEF StartClear, ListFiles, tables, history
    <2>2. ASSUME NEW c \in Calls, copies[c] > 0, Awaited(c) PROVE Awaited(c)'
      <3>1. at[Loop] = "erasing" /\ at'[Loop] = "erase" /\ rest'[Loop] = files
        BY <1>0, <1>10, <2>2 DEF StartClear, ListFiles, Awaited, Goes, Base, Types, Places
      <3>2. YearOf[c] \in files
        BY <2>2, BatchFacts
      <3> QED
        BY <2>1, <2>2, <3>1, <3>2 DEF Awaited
    <2> QED
      BY <1>0, <2>1, <2>2, GoneKept
  <1>11. ASSUME NEW u \in Users, EraseLive(u) PROVE Gone'
    <2>1. /\ live' = live \ RowsOf(u) /\ UNCHANGED <<copies, batch>>
          /\ \A c \in Calls : usage'[c] = IF c \in RowsOf(u) THEN 0 ELSE usage[c]
          /\ forgotten' = forgotten \cup {c \in RowsOf(u) : Stored(c) \/ c \in batch[Job]}
          /\ spared' = spared \cup (RowsOf(u) \cap batch[Job])
          /\ erasing' = u /\ at'[Loop] = "erasing"
      BY <1>0, <1>11 DEF EraseLive, Drops, Goes, Base, Types, Places
    <2>2. batch[Loop] = {} /\ \A c : ~Awaited(c)
      BY <1>0, <1>11 DEF EraseLive, Base, Shape, Awaited
    <2>3. RowsOf(u) \subseteq Calls
      BY BatchFacts DEF RowsOf
    <2>4. ASSUME NEW c \in forgotten' \ spared'
          PROVE  /\ c \notin live' /\ usage'[c] = 0
                 /\ \A p \in Procs : c \notin batch'[p]
                 /\ copies'[c] > 0 => Awaited(c)'
      <3>1. CASE c \in RowsOf(u)
        <4>1. c \notin live' /\ usage'[c] = 0 /\ c \notin batch[Job]
          BY <2>1, <2>3, <2>4, <3>1
        <4>2. \A p \in Procs : c \notin batch'[p]
          BY <2>1, <2>2, <4>1, CallFacts
        <4>3. Awaited(c)'
          BY <2>1, <3>1 DEF RowsOf, Awaited
        <4> QED
          BY <4>1, <4>2, <4>3
      <3>2. CASE c \notin RowsOf(u)
        <4>1. c \in forgotten \ spared
          BY <2>1, <2>4, <3>2
        <4> QED
          BY <1>0, <2>1, <2>2, <3>2, <4>1 DEF Gone
      <3> QED
        BY <3>1, <3>2
    <2> QED
      BY <2>4 DEF Gone
  <1>12. CASE Crash \/ Upgrade
    <2>1. /\ \A p \in Procs : batch'[p] = {}
          /\ live' = live /\ copies' = copies /\ spared' = spared \cup Erased /\ forgotten' = forgotten
      BY <1>12, RestartFacts
    <2>2. \A c \in forgotten \ spared' : ~Awaited(c)
      BY <1>0, <2>1 DEF Awaited, Erased, RowsOf
    <2>3. \A c \in forgotten \ spared' : c \notin live /\ usage[c] = 0 /\ copies[c] = 0
      BY <1>0, <2>1, <2>2 DEF Gone
    <2>4. usage' = usage \/ Backfills
      BY <1>12 DEF Crash, Upgrade, tables
    <2>5. \A c \in forgotten \ spared' : usage'[c] = 0
      BY <1>0, <2>3, <2>4, BackfillTypes DEF Base, Backfilled
    <2> QED
      BY <2>1, <2>3, <2>5 DEF Gone
  <1>13. CASE Backfill
    <2>1. at[Loop] = "idle"
      <3>1. schema = "created" /\ Shape
        BY <1>13 DEF Backfill, Base
      <3> QED
        BY <1>0, <3>1, EmptyBatches
    <2>2. UNCHANGED <<live, copies, batch, forgotten, spared>>
      BY <1>13 DEF Backfill, places, history
    <2>3. \A c \in forgotten \ spared : c \notin live /\ copies[c] = 0
      BY <1>0, <2>1 DEF Gone, Awaited
    <2>4. \A c \in forgotten \ spared : usage'[c] = 0
      BY <1>0, <1>13, <2>3, BackfillTypes DEF Backfill, Base, Backfilled
    <2> QED
      BY <2>2, <2>3, <2>4 DEF Gone
  <1> QED
    BY <1>1, <1>2, <1>3, <1>4, <1>5, <1>6, <1>7, <1>8, <1>9, <1>10, <1>11, <1>12, <1>13
       DEF LogsNext, ArchiveStep, GetsOlder, tables, places, history, logsVars

-----------------------------------------------------------------------------
(* The theorems                                                            *)

Kept == Base /\ Covered /\ Single /\ Counted /\ Gone

LEMMA KeptInit ==
    LogsInit => Kept
  <1> SUFFICES ASSUME LogsInit PROVE Kept
    OBVIOUS
  <1> USE CallFacts DEF LogsInit
  <1>1. MaxCuts \in Nat /\ Succeeds \subseteq Calls
    BY LogsAssumption DEF LogsAssumption
  <1>2. Settings /\ Histories
    <2>1. 0 \in 0 .. MaxCalls /\ 0 \in 0 .. 0 /\ 0 \in 0 .. MaxCuts
      BY <1>1
    <2> QED
      BY <2>1 DEF Settings, Histories
  <1>s. Tables
    BY DEF Tables
  <1>3. Places
    BY RestTypes DEF Places
  <1>4. Shape
    BY DEF Shape
  <1>5. Covered /\ Single /\ Counted /\ Gone
    BY <1>1 DEF Covered, Single, Counted, Stored, Gone
  <1> QED
    BY <1>2, <1>s, <1>3, <1>4, <1>5 DEF Kept, Base, Types

LEMMA KeptStep ==
    Kept /\ [LogsNext]_logsVars => Kept'
  BY TypesStep, ShapeStep, CoveredStep, SingleStep, CountedStep, GoneStep DEF Kept, Base

LEMMA KeptAlways ==
    LogsSpec => []Kept
  BY KeptInit, KeptStep, PTL DEF LogsSpec

\* Every variable keeps its type, with any number of calls, users and years.
THEOREM LogsTypes ==
    LogsSpec => []LogsTypeOK
  <1>1. Kept => LogsTypeOK
    <2> SUFFICES ASSUME Kept PROVE LogsTypeOK
      OBVIOUS
    <2> USE CallFacts DEF Kept, Base, Types
    <2>1. 1 .. born \subseteq Calls /\ forgotten \subseteq Calls
      BY BatchFacts
    <2>2. batch \in [Procs -> SUBSET Calls] /\ left \in [Procs -> SUBSET Calls]
      BY <2>1 DEF Places
    <2>3. UNION {forgotten, spared, removed} \subseteq Calls /\ {disturbed, lost} \subseteq BOOLEAN
      BY <2>1 DEF Histories
    <2> QED
      BY <2>2, <2>3 DEF LogsTypeOK, Settings, Tables, Places, Histories, Spots
  <1> QED
    BY <1>1, KeptAlways, PTL

\* Whatever breaks off or crashes, and whoever archives at once, a stored
\* Prompt Log that is stored no more was deleted by age, with the archive or
\* with its user's logs.
THEOREM LogsSafe ==
    LogsSpec => NoLogLost
  <1>1. Kept /\ [LogsNext]_logsVars
        => [\A c \in Calls : Stored(c) => (Stored(c)' \/ Deleted(c))]_logsVars
    BY NothingLost DEF Kept
  <1> QED
    BY <1>1, KeptAlways, PTL DEF LogsSpec, NoLogLost

\* Without a broken-off batch, and without two archivers of one row, the
\* archive never holds a row twice.
THEOREM SinglyArchived ==
    LogsSpec => []ArchivedOnce
  <1>1. Kept => ArchivedOnce
    BY BatchFacts DEF Kept, Single, ArchivedOnce
  <1> QED
    BY <1>1, KeptAlways, PTL

\* Filling token_usage counts each stored successful call, and twice only what
\* the archive holds twice.
THEOREM UsageCounted ==
    LogsSpec => CountedOnce
  <1>1. ASSUME Kept, [LogsNext]_logsVars
        PROVE  [\A c \in Calls :
                  /\ usage'[c] > 1 /\ usage[c] <= 1 => copies[c] > 1
                  /\ c \notin Succeeds => usage'[c] = 0
                  /\ schema' = "up" /\ c \in Succeeds /\ Stored(c)' /\ usage'[c] = 0
                     => lost' \/ c \in forgotten']_logsVars
    <2>1. Counted'
      BY <1>1, CountedStep DEF Kept
    <2>2. \A c \in Calls : usage'[c] > 1 /\ usage[c] <= 1 => copies[c] > 1
      BY <1>1, CountsOnce DEF Kept
    <2> QED
      BY <2>1, <2>2 DEF Counted
  <1>2. Kept /\ [LogsNext]_logsVars
        => [\A c \in Calls :
              /\ usage'[c] > 1 /\ usage[c] <= 1 => copies[c] > 1
              /\ c \notin Succeeds => usage'[c] = 0
              /\ schema' = "up" /\ c \in Succeeds /\ Stored(c)' /\ usage'[c] = 0
                 => lost' \/ c \in forgotten']_logsVars
    BY <1>1
  <1> QED
    BY <1>2, KeptAlways, PTL DEF LogsSpec, CountedOnce

\* What a deletion by user has covered does not come back, whatever archives
\* meanwhile, but for what an archiver held and what a failure left.
THEOREM ErasedForGood ==
    LogsSpec => []ErasedStaysErased
  <1>1. Kept => ErasedStaysErased
    BY DEF Kept, Gone, Awaited, ErasedStaysErased
  <1> QED
    BY <1>1, KeptAlways, PTL
=============================================================================
