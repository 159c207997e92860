----------------------------- MODULE BenchLock -----------------------------
(***************************************************************************)
(* The bench lock: bench_lock.py in the daemon and scripts/bench-lock.sh,  *)
(* which benchmark runners call to pause automatic mines and to stop the   *)
(* mining model.                                                           *)
(*                                                                         *)
(* The lock is a path: absent, a plain file (the old contract, one runner  *)
(* that touches and removes it) or a directory with a marker per runner.   *)
(* The script takes no lock of its own: each command that changes the path *)
(* is a step, and so is each count.                                        *)
(***************************************************************************)
EXTENDS Integers, FiniteSets

CONSTANTS Bench,      \* runners that use the script
          MaxAge,     \* PALACE_BENCH_LOCK_MAX_AGE_SECONDS, in ticks
          MaxTime     \* bound on the clock

ASSUME BenchAssumption == MaxAge \in Nat /\ MaxTime \in Nat

\* legacy.marker is the name the migration gives to the old contract's file; the
\* other name stands for the markers of processes that have ended.
ASSUME MarkerAssumption == "legacy" \notin Bench /\ "other pid" \notin Bench

VARIABLES
    shape,   \* the path: "none", "file" or "dir"
    mark,    \* modification times: of a runner's marker, of the old file
    model,   \* the mining model: "up" or "down"
    bench,   \* where each runner is in the script
    oldRunner,     \* the runner of the old contract: "idle" or "held"
    doomed,  \* markers the daemon has found stale and is about to remove
    time,
    lapsed,  \* history: runners whose marker has been stale
    spoilt   \* history: a runner crashed or left its marker, the model could not
             \* be started, or the old contract was mixed in

benchVars == <<shape, mark, model, bench, oldRunner, doomed, time, lapsed, spoilt>>

-----------------------------------------------------------------------------
Legacy == "legacy"   \* legacy.marker; also the plain file
OtherPid == "other pid"   \* the newest marker that a release has left behind
Marker == Bench \cup {Legacy, OtherPid}
Absent == -1

Stale(m) == time - mark[m] > MaxAge
Live(m) == mark[m] # Absent /\ ~Stale(m)

\* bench_lock_active(), _refcount_active(): a fresh file, or a fresh marker.
BenchLockActive ==
    \/ shape = "file" /\ Live(Legacy)
    \/ shape = "dir" /\ \E m \in Marker : Live(m)

BenchTypeOK ==
    /\ shape \in {"none", "file", "dir"} /\ model \in {"up", "down"} /\ oldRunner \in {"idle", "held"}
    /\ mark \in [Marker -> {Absent} \cup 0..time] /\ doomed \subseteq Marker
    /\ shape # "dir" => \A m \in Bench \cup {OtherPid} : mark[m] = Absent
    /\ time \in 0..MaxTime /\ lapsed \subseteq Bench /\ spoilt \in BOOLEAN

BenchInit ==
    /\ shape = "none" /\ mark = [m \in Marker |-> Absent]
    /\ model = "up" /\ bench = [b \in Bench |-> "idle"] /\ oldRunner = "idle"
    /\ doomed = {} /\ time = 0 /\ lapsed = {} /\ spoilt = FALSE

BenchAt(b, pc) == bench[b] = pc
BenchGoes(b, pc) == bench' = [bench EXCEPT ![b] = pc]

\* _reap_and_count(): stale markers are removed, live ones counted.
Reaped == [m \in Marker |-> IF Live(m) THEN mark[m] ELSE Absent]
LiveCount == Cardinality({m \in Marker : Live(m)})

-----------------------------------------------------------------------------
(* acquire                                                                 *)

\* _migrate_legacy_file() and mkdir -p: a plain file becomes the directory with
\* a marker of its age (taken as one step: the old contract is promised nothing).
MakeDir(b) ==
    /\ BenchAt(b, "idle")
    /\ shape' = "dir"
    /\ spoilt' = (spoilt \/ shape = "file")
    /\ BenchGoes(b, "count")
    /\ UNCHANGED <<mark, model, oldRunner, doomed, time, lapsed>>

\* The count decides who stops the model.
CountBefore(b) ==
    /\ BenchAt(b, "count")
    /\ mark' = IF shape = "dir" THEN Reaped ELSE mark
    /\ BenchGoes(b, IF shape # "dir" \/ LiveCount = 0 THEN "touch first" ELSE "touch")
    /\ UNCHANGED <<shape, model, oldRunner, doomed, time, lapsed, spoilt>>

\* touch fails if another runner has removed the directory in the meantime, and
\* the script gives up.
TouchMarker(b) ==
    /\ bench[b] \in {"touch", "touch first"}
    /\ IF shape # "dir" THEN BenchGoes(b, "idle") /\ UNCHANGED mark
       ELSE /\ mark' = [mark EXCEPT ![b] = time]
            /\ BenchGoes(b, IF bench[b] = "touch" THEN "held" ELSE "stop model")
    /\ UNCHANGED <<shape, model, oldRunner, doomed, time, lapsed, spoilt>>

\* _stop_extractor() is best effort: systemctl may fail and the run goes on.
StopModel(b) ==
    /\ BenchAt(b, "stop model")
    /\ model' \in {model, "down"} /\ BenchGoes(b, "held")
    /\ UNCHANGED <<shape, mark, oldRunner, doomed, time, lapsed, spoilt>>

\* A long run touches its marker again.
Heartbeat(b) ==
    /\ BenchAt(b, "held") /\ mark[b] # Absent
    /\ mark' = [mark EXCEPT ![b] = time]
    /\ UNCHANGED <<shape, model, bench, oldRunner, doomed, time, lapsed, spoilt>>

-----------------------------------------------------------------------------
(* release                                                                 *)

\* Mutant: the whole directory goes.
RemoveMarkerAll(b) ==
    /\ BenchAt(b, "held")
    /\ mark' = [m \in Marker |-> Absent]
    /\ BenchGoes(b, "recount")
    /\ UNCHANGED <<shape, model, oldRunner, doomed, time, lapsed, spoilt>>

\* Only this runner's marker is removed: acquire and release were given the same
\* PALACE_BENCH_PID.  Without a directory the path is removed and the model
\* started.
RemoveMarker(b) ==
    /\ BenchAt(b, "held")
    /\ mark' = IF shape = "none" THEN mark
               ELSE [mark EXCEPT ![IF shape = "dir" THEN b ELSE Legacy] = Absent]
    /\ shape' = IF shape = "dir" THEN shape ELSE "none"
    /\ BenchGoes(b, IF shape = "dir" THEN "recount" ELSE "start model")
    /\ UNCHANGED <<model, oldRunner, doomed, time, lapsed, spoilt>>

\* Without PALACE_BENCH_PID the marker is named after $$, which is another process
\* at the release: it finds no marker of its own ("deregistering anyway") and the
\* one of the acquire stays.  So does a marker that rm cannot remove.
LeaveMarker(b) ==
    /\ BenchAt(b, "held") /\ shape = "dir" /\ mark[b] # Absent
    /\ mark' = [mark EXCEPT ![b] = Absent,
                            ![OtherPid] = IF @ < mark[b] THEN mark[b] ELSE @]
    /\ BenchGoes(b, "recount") /\ spoilt' = TRUE
    /\ UNCHANGED <<shape, model, oldRunner, doomed, time, lapsed>>

CountAfter(b) ==
    /\ BenchAt(b, "recount")
    /\ mark' = IF shape = "dir" THEN Reaped ELSE mark
    /\ BenchGoes(b, IF shape # "dir" \/ LiveCount = 0 THEN "rmdir" ELSE "idle")
    /\ UNCHANGED <<shape, model, oldRunner, doomed, time, lapsed, spoilt>>

\* The last one out removes the directory; rmdir fails if a marker has appeared.
RemoveDir(b) ==
    /\ BenchAt(b, "rmdir")
    /\ shape' = IF shape = "dir" /\ \A m \in Marker : mark[m] = Absent THEN "none" ELSE shape
    /\ BenchGoes(b, "start model")
    /\ UNCHANGED <<mark, model, oldRunner, doomed, time, lapsed, spoilt>>

StartModel(b) ==
    /\ BenchAt(b, "start model")
    /\ model' = "up" /\ BenchGoes(b, "idle")
    /\ UNCHANGED <<shape, mark, oldRunner, doomed, time, lapsed, spoilt>>

\* _start_extractor(): systemctl fails, a warning is all that comes of it.
StartFails(b) ==
    /\ BenchAt(b, "start model")
    /\ BenchGoes(b, "idle") /\ spoilt' = TRUE
    /\ UNCHANGED <<shape, mark, model, oldRunner, doomed, time, lapsed>>

-----------------------------------------------------------------------------
\* The daemon looks: what is stale ...
DaemonLooks ==
    /\ shape = "dir" /\ doomed = {}
    /\ doomed' = {m \in Marker : mark[m] # Absent /\ Stale(m)} /\ doomed' # {}
    /\ UNCHANGED <<shape, mark, model, bench, oldRunner, time, lapsed, spoilt>>

\* ... is unlinked, also if its owner has touched it since.
DaemonReaps ==
    /\ doomed # {}
    /\ mark' = [m \in Marker |-> IF m \in doomed /\ shape = "dir" THEN Absent ELSE mark[m]]
    /\ doomed' = {}
    /\ UNCHANGED <<shape, model, bench, oldRunner, time, lapsed, spoilt>>

\* The old contract: touch the path, later rm it.  Neither does anything useful
\* to a directory.
OldTouch ==
    /\ oldRunner = "idle" /\ oldRunner' = "held"
    /\ shape' = IF shape = "none" THEN "file" ELSE shape
    /\ mark' = IF shape = "dir" THEN mark ELSE [mark EXCEPT ![Legacy] = time]
    /\ UNCHANGED <<model, bench, doomed, time, lapsed, spoilt>>

OldRemove ==
    /\ oldRunner = "held" /\ oldRunner' = "idle"
    /\ shape' = IF shape = "file" THEN "none" ELSE shape
    /\ mark' = IF shape = "file" THEN [mark EXCEPT ![Legacy] = Absent] ELSE mark
    /\ UNCHANGED <<model, bench, doomed, time, lapsed, spoilt>>

\* A runner dies with its marker in place.
BenchCrashes(b) ==
    /\ BenchAt(b, "held") /\ BenchGoes(b, "idle") /\ spoilt' = TRUE
    /\ UNCHANGED <<shape, mark, model, oldRunner, doomed, time, lapsed>>

BenchTimePasses ==
    /\ time < MaxTime /\ time' = time + 1
    /\ lapsed' = lapsed \cup {b \in Bench : mark[b] # Absent /\ time' - mark[b] > MaxAge}
    /\ UNCHANGED <<shape, mark, model, bench, oldRunner, doomed, spoilt>>

Acquire(b) == MakeDir(b) \/ CountBefore(b) \/ TouchMarker(b) \/ StopModel(b)
Release(b) ==
    RemoveMarker(b) \/ LeaveMarker(b) \/ CountAfter(b) \/ RemoveDir(b) \/ StartModel(b) \/ StartFails(b)

BenchNext ==
    \/ \E b \in Bench : Acquire(b) \/ Release(b) \/ Heartbeat(b) \/ BenchCrashes(b)
    \/ DaemonLooks \/ DaemonReaps \/ OldTouch \/ OldRemove \/ BenchTimePasses

BenchSpec == BenchInit /\ [][BenchNext]_benchVars

-----------------------------------------------------------------------------
\* A runner that holds the lock and has kept its marker fresh pauses the mines,
\* whatever other runners acquire, release, migrate or leave behind ("auto-mine
\* resumes only when the last bench deregisters").
BenchKeepsPause ==
    \A b \in Bench : bench[b] \in {"held", "stop model"} /\ b \notin lapsed => BenchLockActive

\* When every runner has released under the PID of its acquire, the mining model
\* is up again, in whatever order their counts and removals fell, and whether or
\* not it could be stopped.  It may stay down once a runner has crashed or been
\* released under another PID, systemctl has failed to start the model, or a
\* runner of the old contract has met the directory.
ModelRestored ==
    (\A b \in Bench : BenchAt(b, "idle")) /\ ~spoilt => model = "up"

\* The lock pauses mines for every runner that holds it, and the last one out
\* restores the model.
BenchCorrect == BenchTypeOK /\ BenchKeepsPause /\ ModelRestored
=============================================================================
