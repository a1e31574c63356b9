----------------------------- MODULE PromptLogs -----------------------------
(***************************************************************************)
(* Prompt Logs, their archive and Token Usage                              *)
(* (infrastructure/repositories/*_router_repository*.py,                   *)
(* infrastructure/jobs/log_archive_job.py).                                *)
(*                                                                         *)
(* Two threads work on the stored rows: the nightly job, in a thread of    *)
(* its own, and the event loop, which runs the portal's requests and the   *)
(* logging of calls without suspending.  On SQLite the archive is a file   *)
(* per year: rows are copied into it one by one, each with a commit of its *)
(* own, and then deleted from the live table; deletions go file by file.   *)
(* On Postgres a batch moves in one statement and a deletion is another.   *)
(*                                                                         *)
(* A call is a number, in the order of created_at; YearOf and UserOf say   *)
(* when it was and whose.  Any step may raise (a locked database, a full   *)
(* disk) and the process may die; "cuts" bounds both together.             *)
(***************************************************************************)
EXTENDS Integers, FiniteSets

CONSTANTS
    MaxCalls,       \* bounds the calls
    Users, UserOf,  \* the users, and who makes each call
    Years, YearOf,  \* the years, and when each call is made
    Succeeds, Logs, \* the calls that succeed, and those whose prompt is logged
    BatchSize,      \* _ARCHIVE_BATCH_SIZE
    MaxCuts,        \* bounds failures and crashes
    Job, Loop,      \* the nightly job's thread and the event loop's
    None            \* no user

Calls == 1 .. MaxCalls
Procs == {Job, Loop}

ASSUME LogsAssumption ==
    /\ MaxCalls \in Nat /\ MaxCuts \in Nat /\ BatchSize \in Nat \ {0}
    /\ Job # Loop /\ None \notin Users
    /\ Years \subseteq Nat
    /\ YearOf \in [Calls -> Years] /\ UserOf \in [Calls -> Users]
    /\ Succeeds \subseteq Calls /\ Logs \subseteq Calls

VARIABLES
    dialect,    \* of the database
    schema,     \* "old": no token_usage table; "created": empty; "up"
    born,       \* how many calls were recorded
    due,        \* how many of them are older than Archive Age
    live,       \* the rows of prompt_logs
    copies,     \* how often the archive holds a row
    usage,      \* how often token_usage holds a call
    files,      \* the years that have an archive file
    at,         \* where each thread is
    batch,      \* the rows its archiving has read
    left,       \* those it has not copied yet
    cut,        \* the rows up to here reach its cutoff
    rest,       \* the archive files it has yet to visit
    erasing,    \* the user whose rows the loop deletes
    \* history, read by no action
    forgotten,  \* the rows a deletion by user has covered
    spared,     \* those of them held by an archiver, or whose deletion broke off
    removed,    \* the live rows whose copy in the archive was deleted
    disturbed,  \* a batch broke off half-way, or two held the same row
    lost,       \* the process died between creating token_usage and filling it
    cuts        \* failures and crashes so far

tables   == <<born, due, live, copies, usage, files>>
places   == <<at, batch, left, cut, rest, erasing>>
history  == <<forgotten, spared, removed, disturbed, lost, cuts>>
logsVars == <<dialect, schema, tables, places, history>>

-----------------------------------------------------------------------------
(* Recording                                                               *)

Running == schema \in {"old", "up"}
First(S) == CHOOSE x \in S : \A y \in S : x <= y
RowsOf(u) == {c \in 1 .. born : UserOf[c] = u}
Sqlite == dialect = "sqlite"
Stored(c) == c \in live \/ copies[c] > 0

\* Mutant: the row gets the number of the next call.
RecordCallAhead ==
    /\ at[Loop] = "idle" /\ Running /\ born < MaxCalls
    /\ born' = born + 1
    /\ live' = live \cup ({born' + 1} \cap Logs)
    /\ usage' = [usage EXCEPT ![born'] = IF born' \in Succeeds /\ schema = "up" THEN 1 ELSE 0]
    /\ UNCHANGED <<dialect, schema, due, copies, files, places, history>>

\* _log_prompt: Token Usage first, for a successful call, then the Prompt Log
\* unless the sitting's prompt logging is off.  The version without a
\* token_usage table only logs.
RecordCall ==
    /\ at[Loop] = "idle" /\ Running /\ born < MaxCalls
    /\ born' = born + 1
    /\ live' = live \cup ({born'} \cap Logs)
    /\ usage' = [usage EXCEPT ![born'] = IF born' \in Succeeds /\ schema = "up" THEN 1 ELSE 0]
    /\ UNCHANGED <<dialect, schema, due, copies, files, places, history>>

\* Time passes: one more call is older than Archive Age.
GetsOlder ==
    /\ due < born /\ due' = due + 1
    /\ UNCHANGED <<dialect, schema, born, live, copies, usage, files, places, history>>

-----------------------------------------------------------------------------
(* Archiving: archive_prompt_logs, then purge_archived_prompt_logs         *)

Goes(p, place) == at' = [at EXCEPT ![p] = place]
Rests(p) == IF p = Job THEN "waiting" ELSE "idle"
Breaks(p) == IF p = Job THEN "dead" ELSE "idle"

\* run_archive_once of the job, admin_run_archive of the loop
StartArchive(p) ==
    /\ at[p] = Rests(p) /\ Running
    /\ cut' = [cut EXCEPT ![p] = due]
    /\ Goes(p, "select")
    /\ UNCHANGED <<dialect, schema, tables, batch, left, rest, erasing, history>>

DueRows(p) == {c \in live : c <= cut[p]}
Oldest(S) == {c \in S : Cardinality({d \in S : d < c}) < BatchSize}

\* Reads a batch.  The read locks nothing.
Select(p) ==
    /\ at[p] = "select"
    /\ LET rows == Oldest(DueRows(p)) IN
        /\ batch' = [batch EXCEPT ![p] = rows]
        /\ left' = [left EXCEPT ![p] = rows]
        /\ disturbed' = (disturbed \/ \E q \in Procs \ {p} : rows \cap batch[q] # {})
    /\ Goes(p, "copy")
    /\ UNCHANGED <<dialect, schema, tables, cut, rest, erasing, forgotten, spared, removed, lost, cuts>>

Archive(rows) ==
    /\ copies' = [c \in Calls |-> IF c \in rows THEN copies[c] + 1 ELSE copies[c]]
    /\ files' = files \cup {YearOf[c] : c \in rows}

\* _archive_row: one row, with a connection and a commit of its own
CopyRow(p) ==
    /\ Sqlite /\ at[p] = "copy" /\ left[p] # {}
    /\ Archive({First(left[p])})
    /\ left' = [left EXCEPT ![p] = @ \ {First(@)}]
    /\ UNCHANGED <<dialect, schema, born, due, live, usage, at, batch, cut, rest, erasing>>
    /\ UNCHANGED <<forgotten, spared, removed, disturbed, lost, cuts>>

Lets(p) ==
    /\ batch' = [batch EXCEPT ![p] = {}]
    /\ left' = [left EXCEPT ![p] = {}]

Drops(rows) == live' = live \ rows /\ removed' = removed \ rows

\* while True: moved < limit ends it
GoesOn(p, moved) == Goes(p, IF moved < BatchSize THEN "purging" ELSE "select")

\* Mutant: the batch is deleted while it is being copied.
DeleteUncopied(p) ==
    /\ Sqlite /\ at[p] = "copy"
    /\ Drops(batch[p])
    /\ GoesOn(p, Cardinality(batch[p]))
    /\ Lets(p)
    /\ UNCHANGED <<dialect, schema, born, due, copies, usage, files, cut, rest, erasing>>
    /\ UNCHANGED <<forgotten, spared, disturbed, lost, cuts>>

\* Mutant: the oldest row of the batch stays.
DeleteAllButOne(p) ==
    /\ Sqlite /\ at[p] = "copy" /\ left[p] = {}
    /\ Drops({c \in batch[p] : \E d \in batch[p] : d < c})
    /\ GoesOn(p, Cardinality(batch[p]))
    /\ Lets(p)
    /\ UNCHANGED <<dialect, schema, born, due, copies, usage, files, cut, rest, erasing>>
    /\ UNCHANGED <<forgotten, spared, disturbed, lost, cuts>>

\* The rows that were read are deleted, in one commit.
DeleteBatch(p) ==
    /\ Sqlite /\ at[p] = "copy" /\ left[p] = {}
    /\ Drops(batch[p])
    /\ GoesOn(p, Cardinality(batch[p]))
    /\ Lets(p)
    /\ UNCHANGED <<dialect, schema, born, due, copies, usage, files, cut, rest, erasing>>
    /\ UNCHANGED <<forgotten, spared, disturbed, lost, cuts>>

\* The one statement of Postgres: what it has read is copied, what is still
\* there of it is deleted, and that is what it counts.
MoveBatch(p) ==
    /\ ~Sqlite /\ at[p] = "copy"
    /\ Archive(batch[p])
    /\ Drops(batch[p])
    /\ GoesOn(p, Cardinality(batch[p] \cap live))
    /\ Lets(p)
    /\ UNCHANGED <<dialect, schema, born, due, usage, cut, rest, erasing>>
    /\ UNCHANGED <<forgotten, spared, disturbed, lost, cuts>>

-----------------------------------------------------------------------------
(* Deleting from the archive, file by file on SQLite                       *)

\* Delete Age is a setting of its own, so its cutoff may be any.
StartPurge(p) ==
    /\ at[p] = "purging"
    /\ \E n \in 0 .. born : cut' = [cut EXCEPT ![p] = n]
    /\ rest' = [rest EXCEPT ![p] = files]
    /\ Goes(p, "purge")
    /\ UNCHANGED <<dialect, schema, tables, batch, left, erasing, history>>

\* clear_all_archived_prompt_logs
StartClear ==
    /\ at[Loop] = "idle" /\ Running
    /\ rest' = [rest EXCEPT ![Loop] = files]
    /\ Goes(Loop, "clear")
    /\ UNCHANGED <<dialect, schema, tables, batch, left, cut, erasing, history>>

\* delete_prompt_logs_for_users: the live rows and the usage in one commit, ...
EraseLive(u) ==
    /\ at[Loop] = "idle" /\ Running
    /\ Drops(RowsOf(u))
    /\ usage' = [c \in Calls |-> IF c \in RowsOf(u) THEN 0 ELSE usage[c]]
    /\ erasing' = u
    /\ Goes(Loop, "erasing")
    /\ forgotten' = forgotten \cup {c \in RowsOf(u) : Stored(c) \/ c \in batch[Job]}
    /\ spared' = spared \cup (RowsOf(u) \cap batch[Job])
    /\ UNCHANGED <<dialect, schema, born, due, copies, files, batch, left, cut, rest>>
    /\ UNCHANGED <<disturbed, lost, cuts>>

\* ... then the list of the archive's files.
ListFiles ==
    /\ at[Loop] = "erasing"
    /\ rest' = [rest EXCEPT ![Loop] = files]
    /\ Goes(Loop, "erase")
    /\ UNCHANGED <<dialect, schema, tables, batch, left, cut, erasing, history>>

Sweeps == {"purge", "clear", "erase"}
Matches(p, c) ==
    \/ at[p] = "purge" /\ c <= cut[p]
    \/ at[p] = "clear"
    \/ at[p] = "erase" /\ UserOf[c] = erasing

Swept(p) ==
    {c \in Calls : Matches(p, c) /\ (Sqlite => YearOf[c] = First(rest[p]))}

\* Mutant: the first file ends the sweep.
SweepOneFile(p) ==
    /\ at[p] \in Sweeps /\ rest[p] # {}
    /\ copies' = [c \in Calls |-> IF c \in Swept(p) THEN 0 ELSE copies[c]]
    /\ rest' = [rest EXCEPT ![p] = {}]
    /\ removed' = removed \cup {c \in Swept(p) \cap live : copies[c] > 0}
    /\ UNCHANGED <<dialect, schema, born, due, live, usage, files, at, batch, left, cut, erasing>>
    /\ UNCHANGED <<forgotten, spared, disturbed, lost, cuts>>

SweepFile(p) ==
    /\ at[p] \in Sweeps /\ rest[p] # {}
    /\ copies' = [c \in Calls |-> IF c \in Swept(p) THEN 0 ELSE copies[c]]
    /\ rest' = [rest EXCEPT ![p] = IF Sqlite THEN @ \ {First(@)} ELSE {}]
    /\ removed' = removed \cup {c \in Swept(p) \cap live : copies[c] > 0}
    /\ UNCHANGED <<dialect, schema, born, due, live, usage, files, at, batch, left, cut, erasing>>
    /\ UNCHANGED <<forgotten, spared, disturbed, lost, cuts>>

\* Mutant: the job runs once.
EndSweepForGood(p) ==
    /\ at[p] \in Sweeps /\ rest[p] = {}
    /\ Goes(p, IF p = Job THEN "stopped" ELSE "idle")
    /\ cut' = [cut EXCEPT ![p] = 0]
    /\ erasing' = IF p = Loop THEN None ELSE erasing
    /\ UNCHANGED <<dialect, schema, tables, batch, left, rest, history>>

EndSweep(p) ==
    /\ at[p] \in Sweeps /\ rest[p] = {}
    /\ Goes(p, Rests(p))
    /\ cut' = [cut EXCEPT ![p] = 0]
    /\ erasing' = IF p = Loop THEN None ELSE erasing
    /\ UNCHANGED <<dialect, schema, tables, batch, left, rest, history>>

-----------------------------------------------------------------------------
(* Failures, crashes and the upgrade                                       *)

Archiving(p) == at[p] \in {"select", "copy", "purging"} \cup Sweeps
Halfway(p) == Sqlite /\ left[p] # batch[p]
Erased == IF at[Loop] \in {"erasing", "erase"} THEN RowsOf(erasing) \cap forgotten ELSE {}

\* A step raises.  The portal's request ends with an error; nothing handles the
\* job's, whose loop ends.
Fails(p) ==
    /\ Archiving(p) \/ at[p] = "erasing"
    /\ cuts < MaxCuts /\ cuts' = cuts + 1
    /\ Goes(p, Breaks(p))
    /\ Lets(p)
    /\ cut' = [cut EXCEPT ![p] = 0]
    /\ rest' = [rest EXCEPT ![p] = {}]
    /\ erasing' = IF p = Loop THEN None ELSE erasing
    /\ disturbed' = (disturbed \/ Halfway(p))
    /\ spared' = IF p = Loop THEN spared \cup Erased ELSE spared
    /\ UNCHANGED <<dialect, schema, tables, forgotten, removed, lost>>

\* What a new process starts with
Restart ==
    /\ at' = [p \in Procs |-> Rests(p)]
    /\ batch' = [p \in Procs |-> {}] /\ left' = [p \in Procs |-> {}]
    /\ cut' = [p \in Procs |-> 0] /\ rest' = [p \in Procs |-> {}]
    /\ erasing' = None
    /\ disturbed' = (disturbed \/ \E p \in Procs : Halfway(p))
    /\ spared' = spared \cup Erased

\* The next process finds token_usage and does not fill it.
Crash ==
    /\ cuts < MaxCuts /\ cuts' = cuts + 1
    /\ Restart
    /\ schema' = IF schema = "created" THEN "up" ELSE schema
    /\ lost' = (lost \/ schema = "created")
    /\ UNCHANGED <<dialect, tables, forgotten, removed>>

\* Mutant: rows that are still live are filled in from the archive as well.
BackfilledTwice(c) == (IF c \in live THEN 1 ELSE 0) + copies[c]

\* A row still live was already filled in from there.
Backfilled(c) == IF c \in live THEN 1 ELSE copies[c]
Backfills == usage' = [c \in Calls |-> IF c \in Succeeds THEN Backfilled(c) ELSE 0]

\* The version with token_usage starts on the old one's data.  On Postgres the
\* table is created and filled in one transaction; SQLite's executescript
\* commits the table before anything is filled in.
Upgrade ==
    /\ schema = "old"
    /\ schema' = IF Sqlite THEN "created" ELSE "up"
    /\ IF Sqlite THEN usage' = usage ELSE Backfills
    /\ Restart
    /\ UNCHANGED <<dialect, born, due, live, copies, files>>
    /\ UNCHANGED <<forgotten, removed, lost, cuts>>

Backfill ==
    /\ schema = "created" /\ schema' = "up"
    /\ Backfills
    /\ UNCHANGED <<dialect, born, due, live, copies, files, places, history>>

-----------------------------------------------------------------------------
LogsInit ==
    /\ dialect \in {"sqlite", "postgres"}
    /\ schema \in {"old", "up"}
    /\ born = 0 /\ due = 0
    /\ live = {} /\ files = {}
    /\ copies = [c \in Calls |-> 0] /\ usage = [c \in Calls |-> 0]
    /\ at = [p \in Procs |-> Rests(p)]
    /\ batch = [p \in Procs |-> {}] /\ left = [p \in Procs |-> {}]
    /\ cut = [p \in Procs |-> 0] /\ rest = [p \in Procs |-> {}]
    /\ erasing = None
    /\ forgotten = {} /\ spared = {} /\ removed = {}
    /\ disturbed = FALSE /\ lost = FALSE /\ cuts = 0

ArchiveStep(p) ==
    \/ StartArchive(p) \/ Select(p) \/ CopyRow(p) \/ DeleteBatch(p) \/ MoveBatch(p)
    \/ StartPurge(p) \/ SweepFile(p) \/ EndSweep(p)

LogsNext ==
    \/ RecordCall \/ GetsOlder
    \/ \E p \in Procs : ArchiveStep(p) \/ Fails(p)
    \/ StartClear \/ ListFiles \/ \E u \in Users : EraseLive(u)
    \/ Crash \/ Upgrade \/ Backfill

\* The job's thread is scheduled, its daily wait ends, and a start-up goes on.
LogsSpec ==
    /\ LogsInit /\ [][LogsNext]_logsVars
    /\ WF_logsVars(ArchiveStep(Job)) /\ WF_logsVars(Backfill)

-----------------------------------------------------------------------------
(* Properties                                                              *)

LogsTypeOK ==
    /\ dialect \in {"sqlite", "postgres"} /\ schema \in {"old", "created", "up"}
    /\ born \in 0 .. MaxCalls /\ due \in 0 .. born
    /\ live \subseteq 1 .. born
    /\ copies \in [Calls -> Nat] /\ usage \in [Calls -> Nat] /\ files \subseteq Years
    /\ at \in [Procs -> {"waiting", "idle", "dead", "select", "copy", "purging", "erasing"} \cup Sweeps]
    /\ batch \in [Procs -> SUBSET Calls] /\ left \in [Procs -> SUBSET Calls]
    /\ cut \in [Procs -> 0 .. MaxCalls] /\ rest \in [Procs -> SUBSET Years]
    /\ erasing \in Users \cup {None}
    /\ UNION {forgotten, spared, removed} \subseteq Calls
    /\ {disturbed, lost} \subseteq BOOLEAN /\ cuts \in 0 .. MaxCuts

Deleted(c) == c \in removed \cup forgotten' \/ \E p \in Procs : rest'[p] # rest[p] /\ c \in Swept(p)

\* A Prompt Log leaves the live table for the archive: whatever fails or
\* crashes, and whoever else is archiving, a row that is in neither place was
\* deleted by age, with the whole archive, or with its user's logs.
NoLogLost ==
    [][\A c \in Calls : Stored(c) => (Stored(c)' \/ Deleted(c))]_logsVars

\* A row is archived twice only if a batch broke off half-way, which the next
\* one repeats, or if the nightly job and an administrator archive it at once.
ArchivedOnce == \A c \in Calls : copies[c] > 1 => disturbed

\* "An archived row still present in the live table is not copied twice": a
\* call comes to count twice only where the archive holds its row twice, a
\* rejected call never counts, and a successful one whose row is stored does,
\* unless the process died between creating the table and filling it or the
\* user's usage was deleted.
CountedOnce ==
    [][\A c \in Calls :
        /\ usage'[c] > 1 /\ usage[c] <= 1 => copies[c] > 1
        /\ c \notin Succeeds => usage'[c] = 0
        /\ schema' = "up" /\ c \in Succeeds /\ Stored(c)' /\ usage'[c] = 0 => lost' \/ c \in forgotten']_logsVars

\* The rows a deletion by user has covered are gone for good, live or archived,
\* except those an archiver held just then and what a broken-off deletion left.
ErasedStaysErased ==
    \A c \in forgotten \ spared :
        /\ c \notin live /\ usage[c] = 0
        /\ copies[c] > 0 => at[Loop] \in {"erasing", "erase"} /\ UserOf[c] = erasing

\* A row older than Archive Age leaves the live table, unless a failure ends
\* the nightly job, which nothing starts again.
DueRowsLeave ==
    \A c \in Calls : (c \in live /\ c <= due) ~> (c \notin live \/ at[Job] = "dead")
=============================================================================
