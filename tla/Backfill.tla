------------------------------ MODULE Backfill ------------------------------
(***************************************************************************)
(* backfill_routes.py: the background run of mempalace.backfill_age, its   *)
(* status (output, progress, what is left and why) and the edge indexes.   *)
(*                                                                         *)
(* The subprocess is external: it takes the drawers it finds at its start  *)
(* and marks each in the checkpoint table, or fails on it.  CREATE INDEX   *)
(* CONCURRENTLY leaves an invalid index behind when it fails, and IF NOT   *)
(* EXISTS takes an invalid index for an existing one.                      *)
(***************************************************************************)
EXTENDS Integers, FiniteSets, Sequences

CONSTANTS Row,        \* rows of mempalace_drawers
          Run,        \* runs of the subprocess
          Index,      \* _AGE_INDEX_DDL
          RingMax,    \* the output list is cut when it is longer (200) ...
          RingKeep,   \* ... to its last lines (100)
          Shown,      \* lines in recent_output (10)
          MaxLines,   \* bound on the output of a run
          MaxBfTime   \* bound on the clock

ASSUME BackfillAssumption ==
    /\ {RingKeep, RingMax, Shown, MaxLines} \subseteq Nat /\ Shown <= RingKeep /\ RingKeep <= RingMax
    /\ MaxBfTime \in Nat \ {0} /\ IsFiniteSet(Row)
    /\ Index \cap {"idle", "building", "answered"} = {}

VARIABLES
    bfTime,
    inProgress,   \* _backfill_state["in_progress"]
    outputLines,  \* _backfill_state["output_lines"]; a line is its number
    printed,      \* history: the lines read since the last start
    runAt,        \* the task of each run and its process
    todo,         \* the drawers the process of each run has yet to handle
    failed,       \* history: the drawers a process has failed on
    filed,        \* filed_at of each drawer: Missing, Undated or a time
    completed,         \* completed_at in the checkpoint table, or Missing
    index,        \* each edge index: "absent", "building", "invalid" or "valid"
    build,        \* the request of /backfill-age/indexes
    met           \* history: the indexes it met that were not valid

backfillVars == <<bfTime, inProgress, outputLines, printed, runAt, todo, failed, filed, completed, index, build, met>>

-----------------------------------------------------------------------------
Missing == -1
Undated == 0

\* A task that has lost its process leaves it "adrift": it runs, and nobody knows.
RunPlaces == {"none", "spawn", "running", "adrift", "over"}

NoBuild == [pc |-> "idle", left |-> {}, created |-> {}, already |-> {}, errors |-> {}]
BuildFields == {"left", "created", "already", "errors"}

BackfillTypeOK ==
    /\ bfTime \in 1..MaxBfTime /\ inProgress \in BOOLEAN
    /\ outputLines \in Seq(1..MaxLines) /\ Len(outputLines) <= RingMax /\ printed \in 0..MaxLines
    /\ runAt \in [Run -> RunPlaces] /\ todo \in [Run -> SUBSET Row] /\ failed \subseteq Row
    /\ filed \in [Row -> {Missing, Undated} \cup 1..bfTime] /\ completed \in [Row -> {Missing} \cup 1..bfTime]
    /\ \A r \in Row : completed[r] # Missing => filed[r] # Missing
    /\ index \in [Index -> {"absent", "building", "invalid", "valid"}]
    /\ \A f \in BuildFields : build[f] \subseteq Index

BackfillInit ==
    /\ bfTime = 1 /\ inProgress = FALSE /\ outputLines = <<>> /\ printed = 0
    /\ runAt = [r \in Run |-> "none"] /\ todo = [r \in Run |-> {}] /\ failed = {}
    /\ filed = [r \in Row |-> Missing] /\ completed = [r \in Row |-> Missing]
    /\ index = [i \in Index |-> "absent"] /\ build = NoBuild /\ met = {}

Drawers == {r \in Row : filed[r] # Missing}
RunGoes(r, at) == runAt' = [runAt EXCEPT ![r] = at]

-----------------------------------------------------------------------------
(* POST /backfill-age                                                      *)

\* Mutant: the state is not looked at.
BackfillAgeAgain(r) ==
    /\ runAt[r] = "none"
    /\ inProgress' = TRUE /\ outputLines' = <<>> /\ printed' = 0
    /\ RunGoes(r, "spawn")
    /\ UNCHANGED <<bfTime, todo, failed, filed, completed, index, build, met>>

\* Under _backfill_lock: a second run is refused, else the state is reset and
\* the task created.  The return code and the error of the last run stay.
BackfillAge(r) ==
    /\ runAt[r] = "none" /\ ~inProgress
    /\ inProgress' = TRUE /\ outputLines' = <<>> /\ printed' = 0
    /\ RunGoes(r, "spawn")
    /\ UNCHANGED <<bfTime, todo, failed, filed, completed, index, build, met>>

\* _run_backfill(): the process starts, or the task fails.
Spawned(r) ==
    /\ runAt[r] = "spawn" /\ RunGoes(r, "running")
    /\ todo' = [todo EXCEPT ![r] = {d \in Drawers : completed[d] = Missing}]
    /\ UNCHANGED <<bfTime, inProgress, outputLines, printed, failed, filed, completed, index, build, met>>

SpawnFails(r) ==
    /\ runAt[r] = "spawn" /\ RunGoes(r, "over") /\ inProgress' = FALSE
    /\ UNCHANGED <<bfTime, outputLines, printed, todo, failed, filed, completed, index, build, met>>

Trimmed(lines) ==
    IF Len(lines) > RingMax THEN SubSeq(lines, Len(lines) - RingKeep + 1, Len(lines)) ELSE lines

OutputLine(r) ==
    /\ runAt[r] = "running" /\ printed < MaxLines /\ printed' = printed + 1
    /\ outputLines' = Trimmed(Append(outputLines, printed'))
    /\ UNCHANGED <<bfTime, inProgress, runAt, todo, failed, filed, completed, index, build, met>>

\* The process handles a drawer (external): its checkpoint is written, or not.
Handles(r, d, ok) ==
    /\ runAt[r] \in {"running", "adrift"} /\ d \in todo[r]
    /\ todo' = [todo EXCEPT ![r] = @ \ {d}]
    /\ completed' = IF ok THEN [completed EXCEPT ![d] = bfTime] ELSE completed
    /\ failed' = IF ok THEN failed ELSE failed \cup {d}
    /\ UNCHANGED <<bfTime, inProgress, outputLines, printed, runAt, filed, index, build, met>>

\* The process ends, by itself or terminated by the shutdown.
RunEnds(r) ==
    /\ runAt[r] = "running" /\ RunGoes(r, "over")
    /\ inProgress' = FALSE /\ todo' = [todo EXCEPT ![r] = {}]
    /\ UNCHANGED <<bfTime, outputLines, printed, failed, filed, completed, index, build, met>>

\* A line that cannot be decoded, or is too long, ends the task and not the process.
OutputUnread(r) ==
    /\ runAt[r] = "running" /\ RunGoes(r, "adrift")
    /\ inProgress' = FALSE
    /\ UNCHANGED <<bfTime, outputLines, printed, todo, failed, filed, completed, index, build, met>>

\* A process without a task ends (external).
AdriftEnds(r) ==
    /\ runAt[r] = "adrift" /\ RunGoes(r, "over") /\ todo' = [todo EXCEPT ![r] = {}]
    /\ UNCHANGED <<bfTime, inProgress, outputLines, printed, failed, filed, completed, index, build, met>>

\* A drawer is filed, with or without a date.
Files(d, at) ==
    /\ filed[d] = Missing /\ filed' = [filed EXCEPT ![d] = at]
    /\ UNCHANGED <<bfTime, inProgress, outputLines, printed, runAt, todo, failed, completed, index, build, met>>

BackfillClockTicks ==
    /\ bfTime < MaxBfTime /\ bfTime' = bfTime + 1
    /\ UNCHANGED <<inProgress, outputLines, printed, runAt, todo, failed, filed, completed, index, build, met>>

-----------------------------------------------------------------------------
(* GET /backfill-age/status                                                *)

RecentOutput ==
    LET n == Len(outputLines) IN SubSeq(outputLines, IF n > Shown THEN n - Shown + 1 ELSE 1, n)

\* _backfill_unprocessed_breakdown(): the buckets of the drawers without a checkpoint.
\* Comparisons with the bounds of an empty table are NULL, that is, not true.
Gap == {d \in Drawers : completed[d] = Missing}
Marks == {completed[d] : d \in Drawers \ Gap}
NoFiledAt == {d \in Gap : filed[d] = Undated}
PreRunUnmarked == {d \in Gap \ NoFiledAt : Marks # {} /\ \A m \in Marks : filed[d] < m}

AddedDuringRun ==
    {d \in Gap \ NoFiledAt : (\E m \in Marks : filed[d] >= m) /\ (\E m \in Marks : filed[d] <= m)}
AddedAfterRun == {d \in Gap \ NoFiledAt : Marks # {} /\ \A m \in Marks : filed[d] > m}

-----------------------------------------------------------------------------
(* POST /backfill-age/indexes                                              *)

ExistingAgeIndexes == {i \in Index : index[i] = "valid"}

BuildBegins ==
    /\ build.pc = "idle"
    /\ build' = [NoBuild EXCEPT !.pc = "building", !.already = ExistingAgeIndexes,
                                !.left = Index \ ExistingAgeIndexes]
    /\ met' = {}
    /\ UNCHANGED <<bfTime, inProgress, outputLines, printed, runAt, todo, failed, filed, completed, index>>

\* CREATE INDEX CONCURRENTLY IF NOT EXISTS: something of that name ends it ...
BuildSkipped(i) ==
    /\ build.pc = "building" /\ i \in build.left /\ index[i] # "absent"
    /\ build' = [build EXCEPT !.left = @ \ {i}, !.created = @ \cup {i}]
    /\ met' = IF index[i] = "valid" THEN met ELSE met \cup {i}
    /\ UNCHANGED <<bfTime, inProgress, outputLines, printed, runAt, todo, failed, filed, completed, index>>

\* ... else it is built while the tables stay in use ...
BuildStarts(i) ==
    /\ build.pc = "building" /\ i \in build.left /\ index[i] = "absent"
    /\ index' = [index EXCEPT ![i] = "building"]
    /\ build' = [build EXCEPT !.pc = i]
    /\ UNCHANGED <<bfTime, inProgress, outputLines, printed, runAt, todo, failed, filed, completed, met>>

\* ... and becomes valid, or stays as an invalid index; the others are tried.
BuildEnds(i, ok) ==
    /\ build.pc = i
    /\ index' = [index EXCEPT ![i] = IF ok THEN "valid" ELSE "invalid"]
    /\ build' = [build EXCEPT !.pc = "building", !.left = @ \ {i},
                              !.created = IF ok THEN @ \cup {i} ELSE @,
                              !.errors = IF ok THEN @ ELSE @ \cup {i}]
    /\ UNCHANGED <<bfTime, inProgress, outputLines, printed, runAt, todo, failed, filed, completed, met>>

BuildAnswers ==
    /\ build.pc = "building" /\ build.left = {} /\ build' = [build EXCEPT !.pc = "answered"]
    /\ UNCHANGED <<bfTime, inProgress, outputLines, printed, runAt, todo, failed, filed, completed, index, met>>

BuildOver ==
    /\ build.pc = "answered" /\ build' = NoBuild /\ met' = {}
    /\ UNCHANGED <<bfTime, inProgress, outputLines, printed, runAt, todo, failed, filed, completed, index>>

\* The operator drops an invalid index.
DropInvalid(i) ==
    /\ index[i] = "invalid" /\ index' = [index EXCEPT ![i] = "absent"]
    /\ UNCHANGED <<bfTime, inProgress, outputLines, printed, runAt, todo, failed, filed, completed, build, met>>

RunsNext ==
    \/ \E r \in Run :
        \/ BackfillAge(r) \/ Spawned(r) \/ SpawnFails(r) \/ OutputLine(r)
        \/ RunEnds(r) \/ OutputUnread(r) \/ AdriftEnds(r)
        \/ \E d \in Row, ok \in BOOLEAN : Handles(r, d, ok)
    \/ \E d \in Row : Files(d, Undated) \/ Files(d, bfTime)
    \/ BackfillClockTicks

IndexesNext ==
    \/ BuildBegins \/ BuildAnswers \/ BuildOver
    \/ \E i \in Index :
        \/ BuildSkipped(i) \/ BuildStarts(i) \/ DropInvalid(i)
        \/ \E ok \in BOOLEAN : BuildEnds(i, ok)

BackfillNext == RunsNext \/ IndexesNext

BackfillSpec == BackfillInit /\ [][BackfillNext]_backfillVars

-----------------------------------------------------------------------------
\* One task at a time, and the state says so from the answer "started" until the
\* task is over, whichever way it ends.  A second process needs a first whose
\* task was lost on its output.
BackfillAlone ==
    \A r, s \in Run : runAt[r] \in {"spawn", "running"} =>
        inProgress /\ (runAt[s] \in {"spawn", "running"} => r = s)

\* The recent output of the status is the end of what this run has printed,
\* however often the list has been cut.
RecentOutputLast ==
    RecentOutput = [k \in 1..Len(RecentOutput) |-> printed - Len(RecentOutput) + k]
        /\ (printed >= Shown => Len(RecentOutput) = Shown)

\* No run but one has been asked for.
FirstRun == \A r, s \in Run : runAt[r] # "none" /\ runAt[s] # "none" => r = s

\* In the first run, a drawer the process has failed on is reported as unmarked
\* (or as undated), and as one that came during the run only if it was filed at
\* the very time of the first mark; never as one that came after it.  (A later run
\* may fail on a drawer filed after the marks of an earlier one: the status then
\* says that a fresh run will pick it up.)
FailuresNotExcused ==
    FirstRun /\ Marks # {} =>
        \A d \in failed :
            \/ d \in NoFiledAt \cup PreRunUnmarked
            \/ d \in AddedDuringRun /\ \A m \in Marks : filed[d] <= m

\* An index the answer calls present can be used, and one it calls created, unless
\* the request has met an index of that name that was not valid.
IndexReportTrue ==
    build.pc = "answered" =>
        \A i \in build.already \cup (build.created \ met) : index[i] = "valid"

\* One backfill at a time, and a status that tells the truth about it, about
\* what it left and about the indexes.
BackfillCorrect ==
    /\ BackfillTypeOK
    /\ BackfillAlone /\ RecentOutputLast /\ FailuresNotExcused
    /\ IndexReportTrue
=============================================================================
