--------------------------- MODULE StatusSnapshot ---------------------------
(***************************************************************************)
(* The stale-while-revalidate cache behind GET /status/fast                *)
(* (status_snapshot.py, class SnapshotCache).                              *)
(*                                                                         *)
(* Executor threads call get(); a background thread runs _refresh(); the   *)
(* mine paths of main.py call invalidate() when a mine has finished.  The  *)
(* fields are guarded by _lock, which is held only for the statements of   *)
(* one action below, so _lock is not a variable.  _sync is held across the *)
(* computation and is one.                                                 *)
(*                                                                         *)
(* Data: the palace's contents are a version number, raised by every       *)
(* committed change; the payload of _compute() is the version it read.     *)
(* Time: the age of the snapshot is "young" (< ttl_s), "due" (>= ttl_s) or *)
(* "expired" (>= max_age_s).                                               *)
(***************************************************************************)
EXTENDS Naturals

CONSTANTS
    Requests,     \* executor threads serving GET /status/fast
    Refreshers,   \* threads that _start_refresh() creates
    None,         \* no snapshot yet; nobody holds _sync
    MaxCommits,   \* bound: changes committed to the palace
    MaxGen        \* bound: calls of invalidate()

ASSUME ThreadsAssumption ==
    /\ Requests \cap Refreshers = {}
    /\ None \notin Requests \cup Refreshers
    /\ None \notin Nat

VARIABLES
    palace,      \* version of the drawers in the database
    announced,   \* history: palace version at the last invalidate()
    value,       \* self._value
    age,         \* now - self._at, as an interval
    stale,       \* self._stale
    refreshing,  \* self._refreshing
    gen,         \* self._gen
    sync,        \* holder of self._sync
    warmed,      \* lifespan has called warm()
    pc,          \* the next step of each thread
    myGen,       \* local: generation captured before the computation
    myVal        \* local: payload computed

vars == <<palace, announced, value, age, stale, refreshing, gen, sync, warmed,
          pc, myGen, myVal>>
palaceVars == <<palace, announced, gen>>
snapVars == <<value, age, stale>>
locals == <<myGen, myVal>>

Threads == Requests \cup Refreshers
Ages == {"young", "due", "expired"}
PCs == {"idle", "start", "lock", "recheck", "begin", "compute", "store", "finish"}
Critical == {"recheck", "begin", "compute", "store"}

TypeOK ==
    /\ palace \in Nat
    /\ announced \in Nat
    /\ value \in Nat \cup {None}
    /\ age \in Ages
    /\ stale \in BOOLEAN
    /\ refreshing \in BOOLEAN
    /\ gen \in Nat
    /\ sync \in Threads \cup {None}
    /\ warmed \in BOOLEAN
    /\ pc \in [Threads -> PCs]
    /\ myGen \in [Threads -> Nat]
    /\ myVal \in [Threads -> Nat]

Init ==
    /\ palace = 0 /\ announced = 0 /\ gen = 0
    /\ value = None /\ age = "young" /\ stale = FALSE
    /\ refreshing = FALSE /\ sync = None /\ warmed = FALSE
    /\ pc = [t \in Threads |-> "idle"]
    /\ myGen = [t \in Threads |-> 0]
    /\ myVal = [t \in Threads |-> 0]

Goto(t, from, to) == pc[t] = from /\ pc' = [pc EXCEPT ![t] = to]

-----------------------------------------------------------------------------
(* The environment: the palace changes, mines finish, time passes.         *)

PalaceChanges ==
    /\ palace < MaxCommits
    /\ palace' = palace + 1
    /\ UNCHANGED <<announced, gen, snapVars, refreshing, sync, warmed, pc, locals>>

\* invalidate(), in the finally clause of a mine, once its rows are in.
Invalidate ==
    /\ gen < MaxGen
    /\ announced' = palace
    /\ stale' = TRUE
    /\ gen' = gen + 1
    /\ UNCHANGED <<palace, value, age, refreshing, sync, warmed, pc, locals>>

TimePasses ==
    /\ value # None
    /\ \/ age = "young" /\ age' = "due"
       \/ age = "due"   /\ age' = "expired"
    /\ UNCHANGED <<palaceVars, value, stale, refreshing, sync, warmed, pc, locals>>

-----------------------------------------------------------------------------
(* get(), up to the point where it returns or waits for _sync.             *)

Usable == value # None /\ age # "expired"

\* Mutant: only the age decides whether a refresh is started.
GetByAge(r) ==
    /\ \/ Usable /\ age = "young" /\ Goto(r, "idle", "idle")
       \/ Usable /\ age = "due" /\ Goto(r, "idle", "start")
       \/ ~Usable /\ Goto(r, "idle", "lock")
    /\ UNCHANGED <<palaceVars, snapVars, refreshing, sync, warmed, locals>>

\* get() reads the fields in one hold of _lock and acts on what it read.
Get(r) ==
    /\ \/ Usable /\ ~stale /\ age = "young" /\ Goto(r, "idle", "idle")
       \/ Usable /\ (stale \/ age = "due") /\ Goto(r, "idle", "start")
       \/ ~Usable /\ Goto(r, "idle", "lock")
    /\ UNCHANGED <<palaceVars, snapVars, refreshing, sync, warmed, locals>>

\* _start_refresh(): set the flag and create the thread, unless it is set.
SpawnRefresher(f) ==
    IF refreshing
    THEN pc' = f /\ UNCHANGED refreshing
    ELSE /\ refreshing' = TRUE
         /\ \E b \in Refreshers : f[b] = "idle" /\ pc' = [f EXCEPT ![b] = "lock"]

\* A request that found the snapshot stale or due starts a refresh, returns.
StartRefresh(r) ==
    /\ pc[r] = "start"
    /\ SpawnRefresher([pc EXCEPT ![r] = "idle"])
    /\ UNCHANGED <<palaceVars, snapVars, sync, warmed, locals>>

\* lifespan() warms the cache once at startup.
Warm ==
    /\ ~warmed
    /\ warmed' = TRUE
    /\ SpawnRefresher(pc)
    /\ UNCHANGED <<palaceVars, snapVars, sync, locals>>

-----------------------------------------------------------------------------
(* The section under _sync: get() re-checks first, _refresh() does not.    *)

\* Mutant: the computation is not serialised by _sync.
AcquireSyncUnlocked(t) ==
    /\ sync' = t
    /\ Goto(t, "lock", IF t \in Requests THEN "recheck" ELSE "begin")
    /\ UNCHANGED <<palaceVars, snapVars, refreshing, warmed, locals>>

AcquireSync(t) ==
    /\ sync = None
    /\ sync' = t
    /\ Goto(t, "lock", IF t \in Requests THEN "recheck" ELSE "begin")
    /\ UNCHANGED <<palaceVars, snapVars, refreshing, warmed, locals>>

\* "Another caller may have filled it while this one waited."
Recheck(r) ==
    /\ \/ Usable /\ Goto(r, "recheck", "idle") /\ sync' = None
       \/ ~Usable /\ Goto(r, "recheck", "begin") /\ UNCHANGED sync
    /\ UNCHANGED <<palaceVars, snapVars, refreshing, warmed, locals>>

\* gen = self._generation()
Begin(t) ==
    /\ Goto(t, "begin", "compute")
    /\ myGen' = [myGen EXCEPT ![t] = gen]
    /\ UNCHANGED <<palaceVars, snapVars, refreshing, sync, warmed, myVal>>

\* Mutant: the payload is lost on its way to _store().
ComputeReturnsNone(t) ==
    /\ Goto(t, "compute", "store")
    /\ myVal' = [myVal EXCEPT ![t] = None]
    /\ UNCHANGED <<palaceVars, snapVars, refreshing, sync, warmed, myGen>>

\* _compute() returns what the palace holds when it reads.
Compute(t) ==
    /\ Goto(t, "compute", "store")
    /\ myVal' = [myVal EXCEPT ![t] = palace]
    /\ UNCHANGED <<palaceVars, snapVars, refreshing, sync, warmed, myGen>>

After(t) == IF t \in Requests THEN "idle" ELSE "finish"

\* Mutant: _sync is not released when _compute() raises.
ComputeFailsKeepsSync(t) ==
    /\ Goto(t, "compute", After(t))
    /\ myGen' = [myGen EXCEPT ![t] = 0]
    /\ UNCHANGED <<palaceVars, snapVars, refreshing, sync, warmed, myVal>>

\* _compute() raises: get() propagates it, _refresh() logs it.
ComputeFails(t) ==
    /\ Goto(t, "compute", After(t))
    /\ sync' = None
    /\ myGen' = [myGen EXCEPT ![t] = 0]
    /\ UNCHANGED <<palaceVars, snapVars, refreshing, warmed, myVal>>

\* Mutant: _store() clears the flag without comparing generations.
StoreForgetsGen(t) ==
    /\ Goto(t, "store", After(t))
    /\ value' = myVal[t]
    /\ age' = "young"
    /\ stale' = FALSE
    /\ sync' = None
    /\ myGen' = [myGen EXCEPT ![t] = 0]
    /\ myVal' = [myVal EXCEPT ![t] = 0]
    /\ UNCHANGED <<palaceVars, refreshing, warmed>>

\* _store(), then _sync is released.
Store(t) ==
    /\ Goto(t, "store", After(t))
    /\ value' = myVal[t]
    /\ age' = "young"
    /\ stale' = (myGen[t] # gen)
    /\ sync' = None
    /\ myGen' = [myGen EXCEPT ![t] = 0]
    /\ myVal' = [myVal EXCEPT ![t] = 0]
    /\ UNCHANGED <<palaceVars, refreshing, warmed>>

\* The finally clause of _refresh().
Finish(b) ==
    /\ Goto(b, "finish", "idle")
    /\ refreshing' = FALSE
    /\ UNCHANGED <<palaceVars, snapVars, sync, warmed, locals>>

-----------------------------------------------------------------------------

Request(r) == Get(r) \/ StartRefresh(r) \/ Recheck(r)

SyncSection(t) ==
    AcquireSync(t) \/ Begin(t) \/ Compute(t) \/ ComputeFails(t) \/ Store(t)

Next ==
    \/ PalaceChanges \/ Invalidate \/ TimePasses \/ Warm
    \/ \E r \in Requests : Request(r)
    \/ \E t \in Threads : SyncSection(t)
    \/ \E b \in Refreshers : Finish(b)

Spec == Init /\ [][Next]_vars

\* Threads that are able to run do run; sessions keep asking for the status;
\* _compute() does not fail for ever.  Neither mines nor the clock are fair.
FairSpec ==
    /\ Spec
    /\ \A r \in Requests : WF_vars(Request(r))
    /\ \A t \in Threads : WF_vars(SyncSection(t))
    /\ \A b \in Refreshers : WF_vars(Finish(b))
    /\ SF_vars(\E t \in Threads : Compute(t))

-----------------------------------------------------------------------------
(* Properties                                                              *)

\* A snapshot that is not marked stale reflects every mine that has called
\* invalidate(), also one that finished while the snapshot was computed
\* (_store() compares generations so that the flag is not lost).
Fresh == value # None /\ ~stale => value >= announced

\* _refreshing is set exactly while one background refresh exists, so that a
\* refresh can neither run twice nor be locked out by a flag left behind.
OneRefresh ==
    /\ \A a, b \in Refreshers : pc[a] # "idle" /\ pc[b] # "idle" => a = b
    /\ refreshing <=> \E b \in Refreshers : pc[b] # "idle"

\* _sync is released on every way out of get() and of _refresh(), and never
\* by a thread that does not hold it.
SyncHeld == \A t \in Threads : pc[t] \in Critical <=> sync = t

\* Flag and lock tell who refreshes and who computes, also after a computation
\* that failed: a refresh neither runs twice nor is locked out for good.
RefreshesInTurn == OneRefresh /\ SyncHeld

\* The snapshot never goes back to an older state of the palace: _sync orders
\* the computations of requests and of the background refresh.
NeverOlder == [][value # None => value' >= value]_vars

\* The cache with its threads, locks, ages and generations implements what it
\* promises the readers of /status/fast (AnnouncedSnapshot): the payload shown
\* was true, never goes back, and is unmarked only if it has seen every mine
\* that called invalidate(); while sessions ask a marked one is replaced, also
\* if refreshes fail or race further mines.
Promise == INSTANCE AnnouncedSnapshot WITH contents <- palace, shown <- value, marked <- stale
KeepsPromise == Promise!FairSpec

=============================================================================
