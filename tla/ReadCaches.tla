----------------------------- MODULE ReadCaches -----------------------------
(***************************************************************************)
(* Four caches with a time to live in front of slow queries:               *)
(*   kg      fast_mcp_kg_stats_cached()   fast_intercept.py                *)
(*   chunks  _chunk_groups_cached()       fast_intercept.py                *)
(*   source  _drawer_side()               instruments.py                   *)
(*   ready   health_ready()               main.py                          *)
(* They share the shape "test the stored value and its time, else load and *)
(* store" and differ in what is locked, in which order the two fields are  *)
(* written and read, in when the time is taken and in what a failed load   *)
(* leaves behind.  They share no state: a behaviour is about one of them.  *)
(*                                                                         *)
(* The database (for ready: the health of the search tool) is a version    *)
(* number, a stored value is the version that was loaded.  Each read of a  *)
(* global without its lock is a step of its own.                           *)
(***************************************************************************)
EXTENDS Integers, FiniteSets

CONSTANTS Lookups,    \* concurrent lookups (worker threads, or requests)
          SourcePath, \* the transcript paths looked up
          Ttl,        \* time to live, in ticks
          SourceMax,  \* _SOURCE_CACHE_MAX
          MaxClock, MaxDb  \* bounds on the clock and on the database's changes

ASSUME CachesAssumption ==
    /\ Ttl \in Nat \ {0} /\ SourceMax \in Nat \ {0} /\ SourcePath # {}
    /\ MaxClock \in Nat /\ MaxDb \in Nat

VARIABLES
    which,    \* the cache this behaviour is about
    cell,     \* per key: the stored value, its time, and what they were
    busy,     \* holder of the lock held over a load (kg, ready)
    look,     \* the lookups in progress
    clk, db,  \* the clock and the database
    settled   \* history: per path, the version at the last invalidate_source

cachesVars == <<which, cell, busy, look, clk, db, settled>>

-----------------------------------------------------------------------------
OnePath == CHOOSE p \in SourcePath : TRUE
Nothing == -1

Locked(w)    == w \in {"kg", "ready"}     \* load and store under a lock
Torn(w)      == w \in {"kg", "chunks"}    \* value and time read and written apart
TimedByCaller(w) == w = "source"          \* stored under the time the lookup began
PathsOf(w)   == IF w = "source" THEN SourcePath ELSE {OnePath}

Empty == [val |-> Nothing, at |-> 0, stored |-> 0, read |-> 0, late |-> FALSE]
Gone  == [at |-> "idle", path |-> OnePath, now |-> 0, read |-> 0, val |-> Nothing,
          stored |-> 0, hit |-> FALSE]

FreshAt(p, now) == cell[p].val # Nothing /\ now < cell[p].at + Ttl

CachesTypeOK ==
    /\ which \in {"kg", "chunks", "source", "ready"}
    /\ \A p \in SourcePath : cell[p].val \in 0..MaxDb \cup {Nothing} /\ cell[p].at \in 0..clk
    /\ busy \subseteq Lookups
    /\ \A l \in Lookups : look[l].path \in PathsOf(which) /\ look[l].now <= clk
    /\ clk \in 0..MaxClock /\ db \in 0..MaxDb /\ settled \in [SourcePath -> 0..MaxDb]

CachesInit ==
    /\ which \in {"kg", "chunks", "source", "ready"}
    /\ cell = [p \in SourcePath |-> Empty]
    /\ busy = {}
    /\ look = [l \in Lookups |-> Gone]
    /\ clk = 0 /\ db = 0 /\ settled = [p \in SourcePath |-> 0]

Moves(l, pc) == look' = [look EXCEPT ![l].at = pc]
At(p, now, pc) == [Gone EXCEPT !.path = p, !.now = now, !.at = pc]
Served(p, now) == [At(p, now, "answer") EXCEPT !.hit = TRUE, !.val = cell[p].val,
                       !.stored = cell[p].stored, !.read = cell[p].read]

-----------------------------------------------------------------------------
\* A lookup begins and takes the time.  source reads the entry under its lock
\* and ready runs on the event loop: value and time are seen together.  The
\* others test the value first.
Begin(l, p) ==
    /\ look[l] = Gone /\ p \in PathsOf(which)
    /\ look' = [look EXCEPT ![l] =
         CASE Torn(which) /\ cell[p].val # Nothing -> At(p, clk, "time")
           [] ~Torn(which) /\ FreshAt(p, clk) -> Served(p, clk)
           [] OTHER -> At(p, clk, IF Locked(which) THEN "lock" ELSE "load")]
    /\ UNCHANGED <<which, cell, busy, clk, db, settled>>

\* The unlocked readers look at the time next (chunks reads the clock here) ...
TestTime(l) ==
    /\ look[l].at = "time"
    /\ LET now == IF which = "chunks" THEN clk ELSE look[l].now IN
         look' = [look EXCEPT ![l] = At(@.path, now,
                    CASE now < cell[@.path].at + Ttl -> "value"
                      [] Locked(which) -> "lock"
                      [] OTHER -> "load")]
    /\ UNCHANGED <<which, cell, busy, clk, db, settled>>

\* ... and read the value again.  A failed load may have cleared it since: then
\* dict(None) raises.
TakeValue(l) ==
    /\ look[l].at = "value"
    /\ look' = [look EXCEPT ![l] = IF cell[@.path].val = Nothing THEN Gone
                                  ELSE Served(@.path, @.now)]
    /\ UNCHANGED <<which, cell, busy, clk, db, settled>>

\* Single flight: with the lock, the test is repeated.
TakeLock(l) ==
    /\ look[l].at = "lock" /\ busy = {}
    /\ LET fresh == FreshAt(look[l].path, clk) IN
         /\ busy' = IF fresh THEN {} ELSE {l}
         /\ look' = [look EXCEPT ![l] = IF fresh THEN Served(@.path, clk)
                                       ELSE At(@.path, clk, "load")]
    /\ UNCHANGED <<which, cell, clk, db, settled>>

\* The query.
Load(l) ==
    /\ look[l].at = "load"
    /\ look' = [look EXCEPT ![l].at = "store", ![l].val = db, ![l].read = clk]
    /\ UNCHANGED <<which, cell, busy, clk, db, settled>>

\* The query fails.  kg drops what it had and raises; the probe of ready never
\* raises, a failure is its result; the others leave the entry and raise.
LoadFails(l) ==
    /\ look[l].at = "load" /\ which # "ready"
    /\ cell' = IF which = "kg" THEN [cell EXCEPT ![look[l].path] = Empty] ELSE cell
    /\ busy' = IF Locked(which) THEN {} ELSE busy
    /\ look' = [look EXCEPT ![l] = Gone]
    /\ UNCHANGED <<which, clk, db, settled>>

\* source evicts the oldest entry when it is full and the path is new.
Evicted(p) ==
    LET used == {q \in SourcePath : cell[q].val # Nothing}
        full == which = "source" /\ Cardinality(used) >= SourceMax /\ p \notin used
    IN  {q \in used : full /\ \A r \in used : cell[q].at <= cell[r].at}

Entry(l, at) ==
    [val |-> look[l].val, at |-> at, stored |-> clk, read |-> look[l].read,
     late |-> look[l].val < settled[look[l].path]]

\* Value and time are stored together: source under the time at which the
\* lookup began, ready under the time at which the probe ended.
StoreBoth(l) ==
    /\ look[l].at = "store" /\ ~Torn(which)
    /\ \E old \in SUBSET Evicted(look[l].path) :
         /\ Cardinality(old) = (IF Evicted(look[l].path) = {} THEN 0 ELSE 1)
         /\ cell' = [p \in SourcePath |->
                IF p = look[l].path
                THEN Entry(l, IF TimedByCaller(which) THEN look[l].now ELSE clk)
                ELSE IF p \in old THEN Empty ELSE cell[p]]
    /\ busy' = IF Locked(which) THEN {} ELSE busy
    /\ look' = [look EXCEPT ![l] = Gone]
    /\ UNCHANGED <<which, clk, db, settled>>

\* kg and chunks assign the value and then its time.
StoreValue(l) ==
    /\ look[l].at = "store" /\ Torn(which)
    /\ cell' = [cell EXCEPT ![look[l].path] = Entry(l, @.at)]
    /\ Moves(l, "date")
    /\ UNCHANGED <<which, busy, clk, db, settled>>

StoreTime(l) ==
    /\ look[l].at = "date"
    /\ cell' = [cell EXCEPT ![look[l].path].at = clk, ![look[l].path].stored = clk]
    /\ busy' = IF Locked(which) THEN {} ELSE busy
    /\ look' = [look EXCEPT ![l] = Gone]
    /\ UNCHANGED <<which, clk, db, settled>>

\* Mutant: the time first, then the value.
StoreTimeFirst(l) ==
    /\ look[l].at = "store" /\ Torn(which)
    /\ cell' = [cell EXCEPT ![look[l].path].at = clk]
    /\ Moves(l, "date")
    /\ UNCHANGED <<which, busy, clk, db, settled>>

StoreValueLast(l) ==
    /\ look[l].at = "date"
    /\ cell' = [cell EXCEPT ![look[l].path] = Entry(l, @.at)]
    /\ busy' = IF Locked(which) THEN {} ELSE busy
    /\ look' = [look EXCEPT ![l] = Gone]
    /\ UNCHANGED <<which, clk, db, settled>>

\* Mutant: both of the above.
StoreStepsSwapped(l) == StoreTimeFirst(l) \/ StoreValueLast(l)

StoreSteps(l) == StoreValue(l) \/ StoreTime(l)

Reply(l) ==
    /\ look[l].at = "answer" /\ look' = [look EXCEPT ![l] = Gone]
    /\ UNCHANGED <<which, cell, busy, clk, db, settled>>

-----------------------------------------------------------------------------
\* invalidate_source() at the end of a mine through the daemon: of one
\* transcript, or of the directory above all of them.
InvalidateSource(ps) ==
    /\ which = "source"
    /\ cell' = [p \in SourcePath |-> IF p \in ps THEN Empty ELSE cell[p]]
    /\ settled' = [p \in SourcePath |-> IF p \in ps THEN db ELSE settled[p]]
    /\ UNCHANGED <<which, busy, look, clk, db>>

DbChanges ==
    /\ db < MaxDb /\ db' = db + 1
    /\ UNCHANGED <<which, cell, busy, look, clk, settled>>

Ticks ==
    /\ clk < MaxClock /\ clk' = clk + 1
    /\ UNCHANGED <<which, cell, busy, look, db, settled>>

Lookup(l) ==
    \/ \E p \in SourcePath : Begin(l, p)
    \/ TestTime(l) \/ TakeValue(l) \/ TakeLock(l)
    \/ Load(l) \/ LoadFails(l) \/ StoreBoth(l) \/ StoreSteps(l) \/ Reply(l)

CachesNext ==
    \/ \E l \in Lookups : Lookup(l)
    \/ \E p \in SourcePath : InvalidateSource({p})
    \/ InvalidateSource(SourcePath)
    \/ DbChanges \/ Ticks

CachesSpec == CachesInit /\ [][CachesNext]_cachesVars

-----------------------------------------------------------------------------
\* A cached answer was stored less than the time to live before the lookup took
\* the time, or after it: the order in which kg and chunks write and read value
\* and time never pairs an expired value with a fresh time.
HitStoredWithinTtl ==
    \A l \in Lookups :
        look[l].at = "answer" /\ look[l].hit => look[l].now < look[l].stored + Ttl

\* A source answer from the cache was read from the database less than the time
\* to live before the lookup, however long that query took: this is what bounds
\* an entry stored after its invalidation, and a mine the daemon does not see.
SourceReadWithinTtl ==
    \A l \in Lookups :
        which = "source" /\ look[l].at = "answer" /\ look[l].hit
            => look[l].now < look[l].read + Ttl

\* Single flight: a lookup loads under the lock only if no value was fresh when
\* it got it, so that those that waited are served by the one that held it.
LoadOnlyWhenExpired ==
    \A l \in Lookups : Locked(which) /\ look[l].at = "load" =>
        busy = {l} /\ ~FreshAt(look[l].path, look[l].now)

\* Whoever holds the lock is loading or storing: no exception leaves it held
\* and the lookups that wait for it are not stuck.
LockHeldWhileLoading ==
    \A l \in busy : look[l].at \in {"load", "store", "date"}

\* The source entry of a path has seen every mine of it the daemon announced,
\* unless it was read before the announcement and stored after it.
SourceSeesMines ==
    \A p \in SourcePath :
        cell[p].val # Nothing /\ ~cell[p].late => cell[p].val >= settled[p]

\* Each cache, with its own order of reads, writes and locks, serves nothing
\* beyond its time to live, loads once for all who wait, and shows a mine.
CachesCorrect ==
    /\ CachesTypeOK
    /\ HitStoredWithinTtl /\ SourceReadWithinTtl
    /\ LoadOnlyWhenExpired /\ LockHeldWhileLoading
    /\ SourceSeesMines
=============================================================================
