------------------------------ MODULE CallGate ------------------------------
(***************************************************************************)
(* Admission of palace work in main.py: the slow path of _call() with its  *)
(* semaphores, its in-flight bounds and its executor threads, and          *)
(* _exclusive_palace(), which /repair mode=rebuild and a blocking /mine on *)
(* the chroma backend use to shut everybody else out.                      *)
(*                                                                         *)
(* One event loop runs all coroutines.  An action of a call or a holder is *)
(* what its coroutine does from one suspension to the next; acquiring a    *)
(* permit that is free does not suspend.  Worker threads run beside the    *)
(* loop and hand their completion back with call_soon_threadsafe().        *)
(*                                                                         *)
(* Calls and holders are single requests.  What a tool does is its lane:   *)
(* "read" (_READ_TOOLS, ping), "save" (_SAVE_TOOLS), "write" (any other)   *)
(* and "exempt" (_MCP_TIMEOUT_EXEMPT, a write that may take for ever).     *)
(* Holders are "rebuild" (/repair), "mine" (a blocking /mine on chroma)    *)
(* and "background" (queue drain, watcher: _mine_sem only).                *)
(***************************************************************************)
EXTENDS AsyncSemaphore, FiniteSets

CONSTANTS
    Calls,            \* requests that reach _call()
    Holders,          \* rebuilds and mines
    CallKinds,        \* kinds of call that occur
    HolderKinds,      \* kinds of holder that occur
    MaxConcurrency,   \* PALACE_MAX_CONCURRENCY
    ReadCap,          \* PALACE_MAX_READ_CONCURRENCY
    WriteCap,         \* PALACE_MAX_WRITE_CONCURRENCY
    ToolBound,        \* PALACE_MCP_TOOL_MAX_INFLIGHT
    SaveBound,        \* PALACE_MCP_SAVE_MAX_INFLIGHT
    ToolWorkers,      \* PALACE_TOOL_EXECUTOR_WORKERS
    HnswFaults        \* whether a read may report a stale HNSW index (chroma)

ASSUME GateAssumption ==
    /\ CallKinds \subseteq {"read", "write", "save", "exempt"}
    /\ HolderKinds \subseteq {"rebuild", "mine", "background"}
    /\ {MaxConcurrency, ReadCap, WriteCap, ToolBound, SaveBound, ToolWorkers}
          \subseteq Nat \ {0}
    /\ HnswFaults \in BOOLEAN
    /\ Calls \cap Holders = {}

VARIABLES
    kind,       \* kind of each call and of each holder
    sem,        \* _read_sem, _write_sem, _save_sem, _mine_sem
    inflight,   \* _tool_inflight, _save_inflight
    pc,         \* where the coroutine of each call is, or its answer
    worker,     \* the executor job of each call
    result,     \* what the job returned
    stage,      \* where each holder is
    held,       \* permits each holder has taken
    repairing   \* _repair_state["in_progress"]

vars == <<kind, sem, inflight, pc, worker, result, stage, held, repairing>>
callVars == <<inflight, pc, worker, result>>
holderVars == <<stage, held, repairing>>

Sems == {"read", "write", "save", "mine"}
Lanes == {"tool", "save"}
Cap == [read |-> ReadCap, write |-> WriteCap, save |-> SaveBound, mine |-> 1]
Slots == [read |-> MaxConcurrency, write |-> Max({1, MaxConcurrency \div 2}),
          save |-> SaveBound, mine |-> 1]
Bound == [tool |-> ToolBound, save |-> SaveBound]
Workers == [tool |-> ToolWorkers, save |-> SaveBound]

Answers == {"busy", "timeout", "reply"}
Admitted == {"await", "repair", "retry"}
Live == {"queued", "running", "returned"}
Stages == Sems \cup {"idle", "drain", "inside", "done"}

TypeOK ==
    /\ kind \in [Calls \cup Holders -> CallKinds \cup HolderKinds]
    /\ \A s \in Sems :
          /\ sem[s].free \in 0..Cap[s]
          /\ sem[s].queue \in Seq(Calls \cup Holders)
          /\ sem[s].woken \subseteq Calls \cup Holders
    /\ inflight \in [Lanes -> Nat]
    /\ pc \in [Calls -> {"idle", "wait"} \cup Admitted \cup Answers]
    /\ worker \in [Calls -> {"none", "gone"} \cup Live]
    /\ result \in [Calls -> {"none", "reply", "hnsw"}]
    /\ stage \in [Holders -> Stages]
    /\ held \in [Holders -> [Sems -> Nat]]
    /\ repairing \in BOOLEAN

Init ==
    /\ kind \in {k \in [Calls \cup Holders -> CallKinds \cup HolderKinds] :
                    /\ \A c \in Calls : k[c] \in CallKinds
                    /\ \A h \in Holders : k[h] \in HolderKinds}
    /\ sem = [s \in Sems |-> NewSemaphore(Cap[s])]
    /\ inflight = [l \in Lanes |-> 0]
    /\ pc = [c \in Calls |-> "idle"]
    /\ worker = [c \in Calls |-> "none"]
    /\ result = [c \in Calls |-> "none"]
    /\ stage = [h \in Holders |-> "idle"]
    /\ held = [h \in Holders |-> [s \in Sems |-> 0]]
    /\ repairing = FALSE

-----------------------------------------------------------------------------
(* _call(), slow path.                                                     *)

\* Mutant: saves share the semaphore of the other writes.
SemOfShared(c) == IF kind[c] = "read" THEN "read" ELSE "write"

\* _sem_for()
SemOf(c) == CASE kind[c] = "read" -> "read"
              [] kind[c] = "save" -> "save"
              [] OTHER            -> "write"

Lane(c) == IF kind[c] = "save" THEN "save" ELSE "tool"

SetSem(s, q) == sem' = [sem EXCEPT ![s] = q]

\* Mutant: the permit is given back twice.
ReplyTwice(c, answer) ==
    /\ pc' = [pc EXCEPT ![c] = answer]
    /\ SetSem(SemOf(c), Give(sem[SemOf(c)], 2))

\* The end of "async with _sem_for(...)": the answer goes out, the permit back.
Reply(c, answer) ==
    /\ pc' = [pc EXCEPT ![c] = answer]
    /\ SetSem(SemOf(c), Give(sem[SemOf(c)], 1))

\* The body of _call() with a permit in hand, up to its await; q is the
\* semaphore without that permit.
Body(c, q) ==
    IF inflight[Lane(c)] >= Bound[Lane(c)]
    THEN /\ pc' = [pc EXCEPT ![c] = "busy"]
         /\ SetSem(SemOf(c), Give(q, 1))
         /\ UNCHANGED <<inflight, worker>>
    ELSE /\ pc' = [pc EXCEPT ![c] = "await"]
         /\ SetSem(SemOf(c), q)
         /\ inflight' = [inflight EXCEPT ![Lane(c)] = @ + 1]
         /\ worker' = [worker EXCEPT ![c] = "queued"]

Arrive(c) ==
    LET q == sem[SemOf(c)]
    IN /\ pc[c] = "idle"
       /\ \/ Available(q) > 0 /\ Body(c, TakePermits(q, 1))
          \/ /\ Available(q) = 0
             /\ pc' = [pc EXCEPT ![c] = "wait"]
             /\ SetSem(SemOf(c), Enqueue(q, c))
             /\ UNCHANGED <<inflight, worker>>
       /\ UNCHANGED <<kind, result, holderVars>>

\* A waiting call was handed its permit and runs.
WakeCall(c) ==
    /\ c \in sem[SemOf(c)].woken
    /\ Body(c, Resume(sem[SemOf(c)], c))
    /\ UNCHANGED <<kind, result, holderVars>>

\* A pool thread picks the job up.
WorkerStarts(c) ==
    /\ worker[c] = "queued"
    /\ Cardinality({d \in Calls : Lane(d) = Lane(c) /\ worker[d] = "running"}) < Workers[Lane(c)]
    /\ worker' = [worker EXCEPT ![c] = "running"]
    /\ UNCHANGED <<kind, sem, inflight, pc, result, holderVars>>

\* handle_request() returns or raises, a reply either way; a read on chroma
\* may report a stale HNSW index.  Nobody reads what a timed-out call returns.
WorkerReturns(c) ==
    /\ worker[c] = "running"
    /\ worker' = [worker EXCEPT ![c] = "returned"]
    /\ \/ result' = [result EXCEPT ![c] = "reply"]
       \/ /\ kind[c] = "read" /\ HnswFaults /\ pc[c] = "await"
          /\ result' = [result EXCEPT ![c] = "hnsw"]
    /\ UNCHANGED <<kind, sem, inflight, pc, holderVars>>

\* _release_tool_slot / _release_save_slot, called on the loop by _on_done.
ReleaseSlot(c) ==
    /\ worker[c] = "returned"
    /\ worker' = [worker EXCEPT ![c] = "gone"]
    /\ inflight' = [inflight EXCEPT ![Lane(c)] = Max({0, @ - 1})]
    /\ UNCHANGED <<kind, sem, pc, result, holderVars>>

\* The await returns: _on_done was registered first, so the slot is free.
Answer(c) ==
    /\ pc[c] = "await" /\ worker[c] = "gone"
    /\ \/ result[c] = "reply" /\ Reply(c, "reply")
       \/ result[c] = "hnsw" /\ pc' = [pc EXCEPT ![c] = "repair"] /\ UNCHANGED sem
    /\ UNCHANGED <<kind, inflight, worker, result, holderVars>>

\* Mutant: the slot is freed with the caller, not with the thread.
TimeoutFreesSlot(c) ==
    /\ pc[c] = "await" /\ worker[c] \in Live /\ kind[c] # "exempt"
    /\ Reply(c, "timeout")
    /\ worker' = [worker EXCEPT ![c] = IF @ = "queued" THEN "returned" ELSE @]
    /\ inflight' = [inflight EXCEPT ![Lane(c)] = Max({0, @ - 1})]
    /\ UNCHANGED <<kind, result, holderVars>>

\* Mutant: saves are exempt from the timeout.
TimeoutNotForSaves(c) ==
    /\ pc[c] = "await" /\ worker[c] \in Live /\ kind[c] \notin {"exempt", "save"}
    /\ Reply(c, "timeout")
    /\ worker' = [worker EXCEPT ![c] = IF @ = "queued" THEN "returned" ELSE @]
    /\ UNCHANGED <<kind, inflight, result, holderVars>>

\* wait_for() gives up: a job still in the pool's queue is cancelled, a
\* running thread goes on.
Timeout(c) ==
    /\ pc[c] = "await" /\ worker[c] \in Live /\ kind[c] # "exempt"
    /\ Reply(c, "timeout")
    /\ worker' = [worker EXCEPT ![c] = IF @ = "queued" THEN "returned" ELSE @]
    /\ UNCHANGED <<kind, inflight, result, holderVars>>

\* _auto_repair() quarantined a segment (retry once) or found none.
RepairReturns(c) ==
    /\ pc[c] = "repair"
    /\ \/ pc' = [pc EXCEPT ![c] = "retry"] /\ UNCHANGED sem
       \/ Reply(c, "reply")
    /\ UNCHANGED <<kind, inflight, worker, result, holderVars>>

\* The retry runs on the default executor, with no timeout.
RetryReturns(c) ==
    /\ pc[c] = "retry"
    /\ Reply(c, "reply")
    /\ UNCHANGED <<kind, inflight, worker, result, holderVars>>

-----------------------------------------------------------------------------
(* _exclusive_palace() and its users.                                      *)

Waiting(h) == stage[h] \in Sems /\ Suspended(sem[stage[h]], h)

AfterStage == [read |-> "write", write |-> "save", save |-> "drain", mine |-> "inside"]

\* The rest of one acquire loop: q is its semaphore, have the permits taken.
AcquireLoop(h, q, have) ==
    LET s == stage[h]
        need == Slots[s] - have
        n == Min({need, Available(q)})
    IN /\ held' = [held EXCEPT ![h][s] = have + n]
       /\ \/ n = need /\ stage' = [stage EXCEPT ![h] = AfterStage[s]] /\ SetSem(s, TakePermits(q, n))
          \/ n < need /\ UNCHANGED stage /\ SetSem(s, Enqueue(TakePermits(q, n), h))

\* finally: every permit taken so far goes back.
ReleaseAll(h) ==
    /\ sem' = [s \in Sems |-> Give(sem[s], held[h][s])]
    /\ held' = [held EXCEPT ![h] = [s \in Sems |-> 0]]
    /\ stage' = [stage EXCEPT ![h] = "done"]
    /\ repairing' = (repairing /\ kind[h] # "rebuild")

\* /repair refuses a second repair (409); /mine is queued during a rebuild.
Refused(h) ==
    /\ stage[h] = "idle" /\ kind[h] # "background" /\ repairing
    /\ stage' = [stage EXCEPT ![h] = "done"]
    /\ UNCHANGED <<kind, sem, callVars, held, repairing>>

\* Mutant: a background mine runs without _mine_sem.
StartHoldUnguarded(h) ==
    /\ stage[h] = "idle"
    /\ \/ kind[h] = "background" /\ stage' = [stage EXCEPT ![h] = "inside"] /\ UNCHANGED repairing
       \/ /\ kind[h] # "background" /\ ~repairing
          /\ stage' = [stage EXCEPT ![h] = "read"]
          /\ repairing' = (kind[h] = "rebuild")
    /\ UNCHANGED <<kind, sem, callVars, held>>

StartHold(h) ==
    /\ stage[h] = "idle"
    /\ \/ kind[h] = "background" /\ stage' = [stage EXCEPT ![h] = "mine"] /\ UNCHANGED repairing
       \/ /\ kind[h] # "background" /\ ~repairing
          /\ stage' = [stage EXCEPT ![h] = "read"]
          /\ repairing' = (kind[h] = "rebuild")
    /\ UNCHANGED <<kind, sem, callVars, held>>

Acquire(h) ==
    /\ stage[h] \in Sems /\ ~Waiting(h)
    /\ AcquireLoop(h, sem[stage[h]], 0)
    /\ UNCHANGED <<kind, callVars, repairing>>

WakeHolder(h) ==
    /\ stage[h] \in Sems /\ h \in sem[stage[h]].woken
    /\ AcquireLoop(h, Resume(sem[stage[h]], h), held[h][stage[h]] + 1)
    /\ UNCHANGED <<kind, callVars, repairing>>

\* Mutant: the hold does not wait for running save threads.
DrainedUnchecked(h) ==
    /\ stage[h] = "drain"
    /\ stage' = [stage EXCEPT ![h] = "mine"]
    /\ UNCHANGED <<kind, sem, callVars, held, repairing>>

\* The poll finds the save lane empty.
Drained(h) ==
    /\ stage[h] = "drain" /\ inflight["save"] = 0
    /\ stage' = [stage EXCEPT ![h] = "mine"]
    /\ UNCHANGED <<kind, sem, callVars, held, repairing>>

\* Mutant: the wait for running saves has no deadline.
DrainNoDeadline(h) == FALSE /\ UNCHANGED vars

\* PALACE_EXCLUSIVE_SAVE_DRAIN_SECONDS have passed: the hold fails.
DrainDeadline(h) ==
    /\ stage[h] = "drain" /\ inflight["save"] > 0
    /\ ReleaseAll(h)
    /\ UNCHANGED <<kind, callVars>>

\* The rebuild or the mine ends, well or badly.  The flag of /repair falls with
\* the permits; in the code it falls a few steps later.  Only the 409 reads it
\* here, and a second /repair that comes in between and is refused has the same
\* state as one that is refused just before.
Leave(h) ==
    /\ stage[h] = "inside"
    /\ ReleaseAll(h)
    /\ UNCHANGED <<kind, callVars>>

-----------------------------------------------------------------------------

Loop(c) == WakeCall(c) \/ ReleaseSlot(c) \/ Answer(c) \/ Timeout(c) \/ RepairReturns(c)

Hold(h) == Acquire(h) \/ WakeHolder(h) \/ Drained(h) \/ DrainDeadline(h) \/ Leave(h)

Next ==
    \/ \E c \in Calls : Arrive(c) \/ Loop(c)
    \/ \E c \in Calls : WorkerStarts(c) \/ WorkerReturns(c) \/ RetryReturns(c)
    \/ \E h \in Holders : Refused(h) \/ StartHold(h) \/ Hold(h)

Spec == Init /\ [][Next]_vars

\* The loop and the timers run.  A tool may hang (no fairness on
\* WorkerReturns, RetryReturns), except a mine, which is only slow.
LoopFairness ==
    /\ \A c \in Calls :
          /\ WF_vars(WakeCall(c)) /\ WF_vars(ReleaseSlot(c)) /\ WF_vars(Answer(c))
          /\ WF_vars(Timeout(c)) /\ WF_vars(RepairReturns(c)) /\ WF_vars(WorkerStarts(c))
          /\ WF_vars(kind[c] = "exempt" /\ WorkerReturns(c))
    /\ \A h \in Holders : WF_vars(Hold(h))

\* Only the save lane makes progress; every other tool call may be stuck, and
\* its caller's timeout may never fire.
SaveLaneFairness ==
    \A c \in Calls :
        WF_vars(kind[c] = "save" /\ Loop(c)) /\ WF_vars(kind[c] = "save" /\ WorkerStarts(c))

FairSpec == Spec /\ LoopFairness
SaveLaneSpec == Spec /\ SaveLaneFairness

-----------------------------------------------------------------------------
(* Properties                                                              *)

Exclusive(h) == stage[h] = "inside" /\ kind[h] # "background"

\* A lane's counter is the number of its jobs whose thread has not finished,
\* also after the caller timed out, and stays within the lane's bound: threads
\* cannot pile up behind timeouts (the 2026-09-17 outage).
LaneAccounting ==
    \A l \in Lanes :
        /\ inflight[l] = Cardinality({c \in Calls : Lane(c) = l /\ worker[c] \in Live})
        /\ inflight[l] <= Bound[l]

\* No permit is lost or made up on any path: refusal, timeout, retry, failed
\* drain.  A permit is free, on its way to a woken task, or held.
PermitsConserved ==
    \A s \in Sems :
        Cap[s] = sem[s].free + Cardinality(sem[s].woken)
                 + Cardinality({c \in Calls : SemOf(c) = s /\ pc[c] \in Admitted})
                 + Cardinality(Shares([h \in Holders |-> held[h][s]]))

\* The two books the admission keeps, of threads and of permits, are right.
Accounting == LaneAccounting /\ PermitsConserved

\* While a rebuild or an exclusive mine is inside its hold, no admitted call
\* is unanswered and no other mine runs.
HoldIsExclusive ==
    \A h \in Holders :
        Exclusive(h) =>
            /\ \A c \in Calls : pc[c] \notin Admitted
            /\ \A g \in Holders : stage[g] = "inside" => g = h

\* Inside the hold no save is being written, not even by a thread whose
\* caller timed out and whose permit has long been given back.
NoSaveInsideHold ==
    \A h \in Holders : Exclusive(h) =>
        \A c \in Calls : kind[c] = "save" => worker[c] \notin Live

\* What the hold shuts out: admitted calls, other mines and every running save.
HoldShutsOut == HoldIsExclusive /\ NoSaveInsideHold

\* Those who use the palace beside each other: admitted calls until they are
\* answered, saves until their thread is through, background mines.
Users ==
    {c \in Calls : pc[c] \in Admitted \/ (kind[c] = "save" /\ worker[c] \in Live)}
        \cup {h \in Holders : stage[h] = "inside" /\ kind[h] = "background"}
Owner == {h \in Holders : Exclusive(h)}

\* The semaphores, lanes and holds implement a region that many may use, one of
\* them a mine, or one rebuild or exclusive mine alone: nobody enters, not even
\* by a permit handed over while it waited, before the owner is out, and an
\* owner gets in only after the last of them has left.
Region == INSTANCE PalaceRegion WITH Tasks <- Calls \cup Holders, Miners <- Holders,
                                     users <- Users, owner <- Owner
KeepsRegion == Region!Spec

\* The same for every other write ("nothing daemon-mediated is mid-flight
\* when the rebuild starts").
NoWriteInsideHold ==
    \A h \in Holders : Exclusive(h) =>
        \A c \in Calls : kind[c] \in {"write", "exempt"} => worker[c] # "running"

\* A rebuild or mine that began gets its permits and ends, or fails.
HoldSettles == \A h \in Holders : stage[h] # "idle" ~> stage[h] = "done"

\* While the loop and its timers run, every call is answered, however long its
\* tool hangs.
EveryCallAnswered ==
    LoopFairness => \A c \in Calls : pc[c] # "idle" ~> pc[c] \in Answers

\* While they run, a hold that began gets its permits and ends, or fails at
\* the deadline of the save drain.
EveryHoldSettles == LoopFairness => HoldSettles

SavesFit == Cardinality({c \in Calls : kind[c] = "save"}) <= SaveBound
NoHolds == \A h \in Holders : stage[h] = "idle"

\* Without rebuilds and mines, reads and writes that hang for ever neither keep
\* a save from its answer nor get it refused: only other saves can fill its
\* lane (#323).
SaveAnswered ==
    []NoHolds => \A c \in Calls : kind[c] = "save" /\ pc[c] # "idle"
                   ~> pc[c] \in {"timeout", "reply"} \/ (pc[c] = "busy" /\ ~SavesFit)

=============================================================================
