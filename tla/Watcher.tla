------------------------------ MODULE Watcher ------------------------------
(***************************************************************************)
(* The file watcher: the debounced handlers of watcher.py, the automatic   *)
(* mine of main.py's lifespan (_internal_mine) and the lifespan's shutdown *)
(* of both.                                                                *)
(*                                                                         *)
(* Three kinds of threads meet here: the observer's thread calls a handler *)
(* for each file event, each debounce timer is a thread, and coroutines    *)
(* run on the event loop.  A timer that has begun _fire() can no longer be *)
(* cancelled.  A file's content is a version number per watch target.      *)
(***************************************************************************)
EXTENDS Naturals, FiniteSets

CONSTANTS Target,     \* watch targets: a directory and its wing
          Job,        \* identities for the mines in progress
          MineSlots,  \* permits of _mine_sem
          MaxEvents   \* bound on the file events of a target

ASSUME WatcherAssumption ==
    MineSlots \in Nat \ {0} /\ MaxEvents \in Nat /\ Target # {} /\ IsFiniteSet(Job)

VARIABLES
    version,   \* per target: the number of file events
    mined,     \* history: the version the last mine or refusal answered for
    unstarted, \* history: the version at the last mine that could not be started
    timer,     \* per target: handler._timer, "none", "armed" or "fired"
    job,       \* the mines in progress
    observer,  \* targets whose handler still gets events
    handlers,  \* handlers the shutdown has yet to cancel
    phase,     \* the lifespan: serving, or the steps of its shutdown
    tracked,   \* the mines the shutdown still waits for
    old        \* history: the mines that were active when it began

watcherVars == <<version, mined, unstarted, timer, job, observer, handlers, phase, tracked, old>>

-----------------------------------------------------------------------------
NoJob == [of |-> CHOOSE t \in Target : TRUE, at |-> "none"]
Phases == {"serving", "terminating", "cancelling", "joining", "flushing", "exited"}

In(at) == {j \in Job : job[j].at \in at}
Active == In({"starting", "run", "killed"})

WatcherTypeOK ==
    /\ version \in [Target -> 0..MaxEvents] /\ timer \in [Target -> {"none", "armed", "fired"}]
    /\ \A t \in Target : mined[t] \in 0..version[t] /\ unstarted[t] \in 0..version[t]
    /\ \A j \in Job : job[j].of \in Target /\ job[j].at \in {"none", "fire", "gate", "wait", "starting", "run", "killed"}
    /\ observer \subseteq Target /\ handlers \subseteq Target /\ phase \in Phases /\ tracked \subseteq old /\ old \subseteq Job
    /\ Cardinality(Active) <= MineSlots

\* WatcherService.start(): a target whose watch cannot be scheduled is left out.
WatcherInit ==
    /\ observer \in SUBSET Target /\ handlers = observer
    /\ version = [t \in Target |-> 0] /\ mined = version /\ unstarted = version
    /\ timer = [t \in Target |-> "none"]
    /\ job = [j \in Job |-> NoJob]
    /\ phase = "serving" /\ tracked = {} /\ old = {}

Step(j, at) == job' = [job EXCEPT ![j].at = at]
Leaves(j) == job' = [job EXCEPT ![j] = NoJob]

-----------------------------------------------------------------------------
\* Mutant: a handler that has a timer keeps it.
MaybeScheduleOnce(t) ==
    /\ t \in observer /\ version[t] < MaxEvents
    /\ version' = [version EXCEPT ![t] = @ + 1]
    /\ timer' = [timer EXCEPT ![t] = IF @ = "none" THEN "armed" ELSE @]
    /\ UNCHANGED <<mined, unstarted, job, observer, phase, tracked, old, handlers>>

\* _maybe_schedule(), for a write to a file of a watchable kind: under the
\* handler's lock the old timer is cancelled and a new one started.
MaybeSchedule(t) ==
    /\ t \in observer /\ version[t] < MaxEvents
    /\ version' = [version EXCEPT ![t] = @ + 1]
    /\ timer' = [timer EXCEPT ![t] = "armed"]
    /\ UNCHANGED <<mined, unstarted, job, observer, phase, tracked, old, handlers>>

\* The timer runs out: its thread enters _fire().  handler._timer stays set.
Fire(t, j) ==
    /\ timer[t] = "armed" /\ job[j] = NoJob
    /\ timer' = [timer EXCEPT ![t] = "fired"]
    /\ job' = [job EXCEPT ![j] = [of |-> t, at |-> "fire"]]
    /\ UNCHANGED <<version, mined, unstarted, observer, phase, tracked, old, handlers>>

\* _trigger() posts the coroutine, unless the loop is gone.
Trigger(j) ==
    /\ job[j].at = "fire"
    /\ IF phase = "exited" THEN Leaves(j) ELSE Step(j, "gate")
    /\ UNCHANGED <<version, mined, unstarted, timer, observer, phase, tracked, old, handlers>>

\* _internal_mine() goes through its gates: the directory is gone, the kill
\* switch, the bench lock, low disk.  A mine that is refused is not repeated.
Refused(j) ==
    /\ job[j].at = "gate" /\ phase # "exited"
    /\ mined' = [mined EXCEPT ![job[j].of] = version[job[j].of]]
    /\ Leaves(j)
    /\ UNCHANGED <<version, unstarted, timer, observer, phase, tracked, old, handlers>>

Admitted(j) ==
    /\ job[j].at = "gate" /\ phase # "exited"
    /\ Step(j, "wait")
    /\ UNCHANGED <<version, mined, unstarted, timer, observer, phase, tracked, old, handlers>>

\* With a permit of _mine_sem create_subprocess_exec() starts the subprocess; it
\* reads the files as they are from here on.  The call is awaited: the coroutine
\* does not have the process yet.
Spawn(j) ==
    /\ job[j].at = "wait" /\ Cardinality(Active) < MineSlots /\ phase # "exited"
    /\ mined' = [mined EXCEPT ![job[j].of] = version[job[j].of]]
    /\ Step(j, "starting")
    /\ UNCHANGED <<version, unstarted, timer, observer, phase, tracked, old, handlers>>

\* create_subprocess_exec() raises (no such program, no memory, no descriptor):
\* the permit goes back, the error is logged, and nothing tries again.
MineUnstarted(j) ==
    /\ job[j].at = "wait" /\ Cardinality(Active) < MineSlots /\ phase # "exited"
    /\ unstarted' = [unstarted EXCEPT ![job[j].of] = version[job[j].of]]
    /\ Leaves(j)
    /\ UNCHANGED <<version, mined, timer, observer, phase, tracked, old, handlers>>

\* The coroutine has the process and adds it to active_mines.
Track(j) ==
    /\ job[j].at = "starting" /\ phase # "exited"
    /\ Step(j, "run")
    /\ UNCHANGED <<version, mined, unstarted, timer, observer, phase, tracked, old, handlers>>

\* The subprocess ends, by itself or signalled; the permit is returned.
MineEnds(j) ==
    /\ j \in Active
    /\ Leaves(j)
    /\ tracked' = tracked \ {j} /\ old' = old \ {j}
    /\ UNCHANGED <<version, mined, unstarted, timer, observer, phase, handlers>>

-----------------------------------------------------------------------------
\* The shutdown takes the list of active_mines and sends each SIGTERM.  A
\* subprocess that is starting is not on the list.
Shutdown ==
    /\ phase = "serving"
    /\ phase' = "terminating" /\ tracked' = In({"run"}) /\ old' = In({"run"})
    /\ UNCHANGED <<version, mined, unstarted, timer, job, observer, handlers>>

\* wait_for(proc.wait()) times out: SIGKILL.
KillStraggler(j) ==
    /\ phase = "terminating" /\ j \in tracked /\ job[j].at = "run"
    /\ Step(j, "killed") /\ tracked' = tracked \ {j}
    /\ UNCHANGED <<version, mined, unstarted, timer, observer, phase, old, handlers>>

Terminated ==
    /\ phase = "terminating" /\ tracked = {}
    /\ phase' = "cancelling"
    /\ UNCHANGED <<version, mined, unstarted, timer, job, observer, tracked, old, handlers>>

\* WatcherService.stop(): cancel_pending() of one handler after the other.  It
\* blocks the event loop; timers and the observer go on, and an event may arm a
\* timer that has just been cancelled.
CancelPending(t) ==
    /\ phase = "cancelling" /\ t \in handlers
    /\ timer' = [timer EXCEPT ![t] = "none"]
    /\ handlers' = handlers \ {t}
    /\ UNCHANGED <<version, mined, unstarted, job, observer, phase, tracked, old>>

AllCancelled ==
    /\ phase = "cancelling" /\ handlers = {} /\ phase' = "joining"
    /\ UNCHANGED <<version, mined, unstarted, timer, job, observer, handlers, tracked, old>>

ObserverStops ==
    /\ phase = "joining" /\ phase' = "flushing" /\ observer' = {}
    /\ UNCHANGED <<version, mined, unstarted, timer, job, tracked, old, handlers>>

\* The flush (bounded by its own timeout) and the teardown; the loop ends and
\* with it the coroutines that have not spawned anything.
Exit ==
    /\ phase = "flushing" /\ phase' = "exited"
    /\ job' = [j \in Job |-> IF job[j].at \in {"gate", "wait"} THEN NoJob ELSE job[j]]
    /\ timer' = [t \in Target |-> "none"]
    /\ UNCHANGED <<version, mined, unstarted, observer, tracked, old, handlers>>

\* While stop() blocks the loop, no coroutine moves.
LoopRuns == phase \notin {"cancelling", "joining"}

InternalMine(j) == LoopRuns /\ (Refused(j) \/ Admitted(j) \/ Spawn(j) \/ MineUnstarted(j) \/ Track(j))

WatcherNext ==
    \/ \E t \in Target : MaybeSchedule(t) \/ CancelPending(t) \/ \E j \in Job : Fire(t, j)
    \/ \E j \in Job : Trigger(j) \/ InternalMine(j) \/ MineEnds(j) \/ KillStraggler(j)
    \/ Shutdown \/ Terminated \/ AllCancelled \/ ObserverStops \/ Exit

WatcherSpec == WatcherInit /\ [][WatcherNext]_watcherVars

-----------------------------------------------------------------------------
\* A change is forgotten in one way only: while the daemon serves, a target with
\* a change that no mine has read and no gate has refused has a timer armed or a
\* mine on its way (though a timer in _fire() cannot be cancelled and stays in
\* _timer), unless a mine that would have read it could not be started.
ChangeWillBeMined ==
    \A t \in Target :
        phase = "serving" /\ mined[t] < version[t] /\ unstarted[t] < version[t] =>
            \/ timer[t] = "armed"
            \/ \E j \in In({"fire", "gate", "wait"}) : job[j].of = t

\* A mine that was in active_mines when the shutdown took the list has ended or
\* been killed by the time the watcher is stopped.  (One whose process is being
\* started at that moment, or starts later, is not looked after: see the README.)
NoTrackedMineSurvives ==
    phase \notin {"serving", "terminating"} => \A j \in old : job[j].at # "run"

\* The watcher forgets a change only when its mine cannot be started, and leaves
\* no mine behind that it knew of.
WatcherCorrect == WatcherTypeOK /\ ChangeWillBeMined /\ NoTrackedMineSurvives
=============================================================================
