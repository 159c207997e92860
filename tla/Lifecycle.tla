----------------------------- MODULE Lifecycle -----------------------------
(***************************************************************************)
(* The life of the daemon under systemd: the restart history and the       *)
(* crash-loop state (crash_loop.py), the start-up half of lifespan()       *)
(* (main.py), and the watchdog loop (sd_watchdog.py).                      *)
(*                                                                         *)
(* systemd restarts the service whenever it ends, and aborts it when       *)
(* WATCHDOG=1 has not come for WatchdogSec.  The loop sleeps for a tick;   *)
(* the probe of the palace takes any time, and so does an async handler    *)
(* that never awaits and so holds the event loop (/search/keyword's query, *)
(* /window's).                                                             *)
(***************************************************************************)
EXTENDS Selection

CONSTANTS
    Interval,   \* WatchdogSec
    MinTick,    \* the least tick of the loop (10 s in the code)
    Window,     \* CRASH_LOOP_WINDOW
    Threshold,  \* CRASH_LOOP_THRESHOLD
    Recovery,   \* CRASH_LOOP_RECOVERY
    MaxNow,     \* bound on the clock
    MaxStarts   \* bound on the starts

\* A tick must fit into WatchdogSec: with WatchdogSec <= 10 s it does not.
ASSUME LifecycleAssumption ==
    /\ Interval \in Nat /\ MinTick \in Nat \ {0} /\ MinTick < Interval
    /\ {Window, Threshold, Recovery, MaxNow, MaxStarts} \subseteq Nat

VARIABLES
    now,
    life,      \* "down", "recording", "starting" or "serving"
    began,     \* STARTUP_MONOTONIC
    restarts,  \* the restart history file, as the next reader takes it
    starts,    \* history: every start since the file was last unreadable
    fed,       \* when systemd last got READY=1 or WATCHDOG=1
    loop,      \* the watchdog loop: "off", "sleep" or "probe"
    wake,      \* when its sleep ends
    missed,    \* history: since the last feed a probe has failed or a handler
               \* has held the loop past the end of its sleep
    rebuild,   \* _repair_state: a rebuild is in progress
    overdue    \* history: so it was when the rebuild began, or a handler has
               \* held the loop since, and the loop has not fed after it

lifecycleVars == <<now, life, began, restarts, starts, fed, loop, wake, missed, rebuild, overdue>>

-----------------------------------------------------------------------------
\* watchdog_loop(): half the interval, but never less than the least tick.
Tick == IF Interval \div 2 < MinTick THEN MinTick ELSE Interval \div 2

\* The entries within the window.
Recent(file) == Pick(file, {i \in DOMAIN file : file[i] + Window > now})

\* crash_loop_state()
RestartCount == Len(Recent(restarts))
InLoop == RestartCount >= Threshold
Recovered == InLoop /\ now - began >= Recovery
CrashLoop == InLoop /\ ~Recovered

LifecycleTypeOK ==
    /\ now \in 0..MaxNow /\ life \in {"down", "recording", "starting", "serving"} /\ began \in 0..now
    /\ restarts \in Seq(0..now) /\ starts \in Seq(0..now) /\ Len(starts) <= MaxStarts
    /\ fed \in 0..now /\ loop \in {"off", "sleep", "probe"} /\ wake \in 0..(MaxNow + Tick)
    /\ missed \in BOOLEAN /\ rebuild \in BOOLEAN /\ overdue \in BOOLEAN
    /\ loop # "off" => life = "serving"
    /\ rebuild => life = "serving"

LifecycleInit ==
    /\ now = 0 /\ life = "down" /\ began = 0
    /\ restarts = <<>> /\ starts = <<>>
    /\ fed = 0 /\ loop = "off" /\ wake = 0
    /\ missed = FALSE /\ rebuild = FALSE /\ overdue = FALSE

-----------------------------------------------------------------------------
(* The start: lifespan() up to its yield                                   *)

Boot ==
    /\ life = "down" /\ Len(starts) < MaxStarts
    /\ life' = "recording" /\ began' = now
    /\ UNCHANGED <<now, restarts, starts, fed, loop, wake, missed, rebuild, overdue>>

\* record_restart(): entries out of the window are dropped, this start is added.
RecordRestart ==
    /\ life = "recording" /\ life' = "starting"
    /\ restarts' = Append(Recent(restarts), now)
    /\ starts' = Append(starts, now)
    /\ UNCHANGED <<now, began, fed, loop, wake, missed, rebuild, overdue>>

\* The process is killed in write_text(), between truncation and write: a
\* file that does not parse is read as an empty history.
TornWrite ==
    /\ life = "recording" /\ life' = "down"
    /\ restarts' = <<>> /\ starts' = <<>>
    /\ UNCHANGED <<now, began, fed, loop, wake, missed, rebuild, overdue>>

\* The checkpoint migration and the warm-up are done: READY=1, and the loop is
\* started.
Ready ==
    /\ life = "starting" /\ life' = "serving"
    /\ fed' = now /\ loop' = "sleep" /\ wake' = now + Tick /\ missed' = FALSE
    /\ UNCHANGED <<now, began, restarts, starts, rebuild, overdue>>

-----------------------------------------------------------------------------
(* watchdog_loop()                                                         *)

Feed == fed' = now /\ missed' = FALSE /\ overdue' = FALSE
SleepAgain == loop' = "sleep" /\ wake' = now + Tick
Awake == loop = "sleep" /\ now >= wake

\* In a rebuild the keepalive is sent without a probe.
WakeFeeds ==
    /\ Awake /\ rebuild /\ Feed /\ SleepAgain
    /\ UNCHANGED <<now, life, began, restarts, starts, rebuild>>

\* Mutant: a rebuild is no special case.
WakeProbesAlways ==
    /\ Awake /\ loop' = "probe"
    /\ UNCHANGED <<now, life, began, restarts, starts, fed, wake, missed, rebuild, overdue>>

WakeProbes ==
    /\ Awake /\ ~rebuild /\ loop' = "probe"
    /\ UNCHANGED <<now, life, began, restarts, starts, fed, wake, missed, rebuild, overdue>>

\* _get_collection() returns the collection, or nothing, or raises.
ProbeAnswers(ok) ==
    /\ loop = "probe" /\ SleepAgain
    /\ IF ok THEN Feed ELSE missed' = TRUE /\ UNCHANGED <<fed, overdue>>
    /\ UNCHANGED <<now, life, began, restarts, starts, rebuild>>

RebuildBegins ==
    /\ life = "serving" /\ ~rebuild /\ rebuild' = TRUE
    /\ overdue' = (loop = "probe" \/ missed)
    /\ UNCHANGED <<now, life, began, restarts, starts, fed, loop, wake, missed>>

RebuildEnds ==
    /\ rebuild /\ rebuild' = FALSE
    /\ UNCHANGED <<now, life, began, restarts, starts, fed, loop, wake, missed, overdue>>

-----------------------------------------------------------------------------
\* The process ends: stopped, crashed, or aborted by systemd.
Dies ==
    /\ life' = "down" /\ loop' = "off" /\ rebuild' = FALSE /\ missed' = FALSE /\ overdue' = FALSE
    /\ UNCHANGED <<now, began, restarts, starts, fed, wake>>

StopsOrCrashes == life \in {"starting", "serving"} /\ Dies

Starved == life = "serving" /\ now - fed >= Interval
Abort == Starved /\ Dies

ClockTicks ==
    /\ now < MaxNow /\ ~Awake /\ now' = now + 1
    /\ UNCHANGED <<life, began, restarts, starts, fed, loop, wake, missed, rebuild, overdue>>

\* The sleep is over, but a handler that does not await holds the event loop.
HandlerBlocks ==
    /\ now < MaxNow /\ Awake /\ now' = now + 1
    /\ missed' = TRUE /\ overdue' = TRUE
    /\ UNCHANGED <<life, began, restarts, starts, fed, loop, wake, rebuild>>

LifecycleNext ==
    \/ Boot \/ RecordRestart \/ TornWrite \/ Ready
    \/ WakeFeeds \/ WakeProbes \/ \E ok \in BOOLEAN : ProbeAnswers(ok)
    \/ RebuildBegins \/ RebuildEnds \/ StopsOrCrashes \/ Abort
    \/ ClockTicks \/ HandlerBlocks

LifecycleSpec == LifecycleInit /\ [][LifecycleNext]_lifecycleVars

-----------------------------------------------------------------------------
\* systemd aborts only a daemon whose palace does not answer (a probe has failed
\* or is still out) or whose event loop a handler has held.  In a rebuild it
\* aborts it only if that was so already when the rebuild began and the loop has
\* not been able to feed since, or a handler holds the loop during it ("systemd
\* would SIGABRT the daemon mid-rebuild -- exactly when a kill is most
\* destructive").
KilledOnlyWithCause ==
    Starved => /\ missed \/ loop = "probe"
               /\ rebuild => overdue

\* However starts, stops and clock fall, pruning at each start loses nothing the
\* window still covers: the restart count of /health is the number of starts in
\* the window, since the file was last unreadable.
RestartCountExact ==
    life \in {"starting", "serving"} => RestartCount = Len(Recent(starts))

\* The daemon is aborted for a reason only, and its starts are counted.
LifecycleCorrect == LifecycleTypeOK /\ KilledOnlyWithCause /\ RestartCountExact
=============================================================================
