------------------------ MODULE StatusSnapshotProofs ------------------------
(***************************************************************************)
(* Proofs about StatusSnapshot, for any number of request threads, any     *)
(* number of mines and any interleaving with the background refresh.       *)
(***************************************************************************)
EXTENDS StatusSnapshot, TLAPS

-----------------------------------------------------------------------------
(* The inductive invariant.  Fresh and NeverOlder speak of the stored      *)
(* snapshot only; what makes them inductive is what a thread knows between *)
(* capturing the generation and storing its result.                        *)

\* A thread that is about to store has read the palace after the snapshot it
\* replaces was read, and after every invalidate() it does not know of.
InFlight ==
    \A t \in Threads :
        pc[t] = "store" =>
            /\ myVal[t] <= palace
            /\ value # None => value <= myVal[t]
            /\ myGen[t] = gen => announced <= myVal[t]

\* A captured generation is one that existed.
Captured == \A t \in Threads : pc[t] \in {"compute", "store"} => myGen[t] <= gen

\* Nothing is announced or stored that the palace does not hold.
Bounded == announced <= palace /\ (value # None => value <= palace)

IInv == TypeOK /\ Bounded /\ Captured /\ SyncHeld /\ InFlight /\ Fresh

-----------------------------------------------------------------------------

\* Type correctness is inductive by itself: every handler of SnapshotCache
\* leaves every field in its type.
LEMMA TypeStep == TypeOK /\ [Next]_vars => TypeOK'
<1> SUFFICES ASSUME TypeOK, [Next]_vars PROVE TypeOK'
    OBVIOUS
<1> USE ThreadsAssumption DEF TypeOK, Threads, PCs, Ages
<1>1. CASE PalaceChanges
    BY <1>1 DEF PalaceChanges, snapVars, locals
<1>2. CASE Invalidate
    BY <1>2 DEF Invalidate, locals
<1>3. CASE TimePasses
    BY <1>3 DEF TimePasses, palaceVars, locals
<1>4. CASE Warm
    BY <1>4 DEF Warm, SpawnRefresher, palaceVars, snapVars, locals
<1>5. ASSUME NEW r \in Requests, Request(r) PROVE TypeOK'
    <2>1. CASE Get(r)
        BY <2>1 DEF Get, Goto, palaceVars, snapVars, locals
    <2>2. CASE StartRefresh(r)
        BY <2>2 DEF StartRefresh, SpawnRefresher, palaceVars, snapVars, locals
    <2>3. CASE Recheck(r)
        BY <2>3 DEF Recheck, Goto, palaceVars, snapVars, locals
    <2> QED
        BY <1>5, <2>1, <2>2, <2>3 DEF Request
<1>6. ASSUME NEW t \in Threads, SyncSection(t) PROVE TypeOK'
    <2>1. CASE AcquireSync(t)
        BY <2>1 DEF AcquireSync, Goto, palaceVars, snapVars, locals
    <2>2. CASE Begin(t)
        BY <2>2 DEF Begin, Goto, palaceVars, snapVars
    <2>3. CASE Compute(t)
        BY <2>3 DEF Compute, Goto, palaceVars, snapVars
    <2>4. CASE ComputeFails(t)
        BY <2>4 DEF ComputeFails, After, Goto, palaceVars, snapVars
    <2>5. CASE Store(t)
        BY <2>5 DEF Store, After, Goto, palaceVars
    <2> QED
        BY <1>6, <2>1, <2>2, <2>3, <2>4, <2>5 DEF SyncSection
<1>7. ASSUME NEW b \in Refreshers, Finish(b) PROVE TypeOK'
    BY <1>7 DEF Finish, Goto, palaceVars, snapVars, locals
<1>8. CASE UNCHANGED vars
    BY <1>8 DEF vars
<1> QED
    BY <1>1, <1>2, <1>3, <1>4, <1>5, <1>6, <1>7, <1>8 DEF Next

\* The step of the inductive invariant, one case per action.
LEMMA Step == IInv /\ [Next]_vars => IInv'
<1> SUFFICES ASSUME IInv, [Next]_vars PROVE IInv'
    OBVIOUS
<1>0. TypeOK'
    BY TypeStep DEF IInv
<1> USE ThreadsAssumption, <1>0
    DEF IInv, TypeOK, Threads, Bounded, Captured, SyncHeld, InFlight, Fresh, Critical
<1>1. CASE PalaceChanges
    BY <1>1 DEF PalaceChanges, snapVars, locals
<1>2. CASE Invalidate
    BY <1>2 DEF Invalidate, locals
<1>3. CASE TimePasses
    BY <1>3 DEF TimePasses, palaceVars, locals
<1>4. CASE Warm
    BY <1>4 DEF Warm, SpawnRefresher, palaceVars, snapVars, locals
<1>5. ASSUME NEW r \in Requests, Request(r) PROVE IInv'
    <2>1. CASE Get(r)
        BY <2>1 DEF Get, Goto, palaceVars, snapVars, locals
    <2>2. CASE StartRefresh(r)
        BY <2>2 DEF StartRefresh, SpawnRefresher, palaceVars, snapVars, locals
    <2>3. CASE Recheck(r)
        BY <2>3 DEF Recheck, Goto, palaceVars, snapVars, locals
    <2> QED
        BY <1>5, <2>1, <2>2, <2>3 DEF Request
<1>6. ASSUME NEW t \in Threads, SyncSection(t) PROVE IInv'
    <2>1. CASE AcquireSync(t)
        BY <2>1 DEF AcquireSync, Goto, palaceVars, snapVars, locals
    <2>2. CASE Begin(t)
        BY <2>2 DEF Begin, Goto, palaceVars, snapVars
    <2>3. CASE Compute(t)
        BY <2>3 DEF Compute, Goto, palaceVars, snapVars
    <2>4. CASE ComputeFails(t)
        BY <2>4 DEF ComputeFails, After, Goto, palaceVars, snapVars
    <2>5. CASE Store(t)
        BY <2>5 DEF Store, After, Goto, palaceVars
    <2> QED
        BY <1>6, <2>1, <2>2, <2>3, <2>4, <2>5 DEF SyncSection
<1>7. ASSUME NEW b \in Refreshers, Finish(b) PROVE IInv'
    BY <1>7 DEF Finish, Goto, palaceVars, snapVars, locals
<1>8. CASE UNCHANGED vars
    BY <1>8 DEF vars
<1> QED
    BY <1>1, <1>2, <1>3, <1>4, <1>5, <1>6, <1>7, <1>8 DEF Next

\* The inductive invariant holds in every behaviour.
THEOREM Invariance == Spec => []IInv
<1>1. Init => IInv
    <2> SUFFICES ASSUME Init PROVE IInv
        OBVIOUS
    <2>1. TypeOK
        BY ThreadsAssumption DEF Init, TypeOK, Threads, PCs, Ages
    <2>2. Bounded /\ Fresh
        BY DEF Init, Bounded, Fresh
    <2>3. Captured /\ InFlight
        BY DEF Init, Captured, InFlight
    <2>4. SyncHeld
        BY ThreadsAssumption DEF Init, SyncHeld, Threads, Critical
    <2> QED
        BY <2>1, <2>2, <2>3, <2>4 DEF IInv
<1> QED
    BY <1>1, Step, PTL DEF Spec

\* Every field of SnapshotCache keeps its type.
THEOREM TypeCorrect == Spec => []TypeOK
<1>1. IInv => TypeOK
    BY DEF IInv
<1> QED
    BY <1>1, Invariance, PTL

\* A snapshot that is not marked stale has seen every announced mine.
THEOREM FreshCorrect == Spec => []Fresh
<1>1. IInv => Fresh
    BY DEF IInv
<1> QED
    BY <1>1, Invariance, PTL

\* _sync is held exactly by the thread inside the section it guards.
THEOREM SyncHeldCorrect == Spec => []SyncHeld
<1>1. IInv => SyncHeld
    BY DEF IInv
<1> QED
    BY <1>1, Invariance, PTL

\* A stored snapshot is only ever replaced by one of a later palace: the
\* generation check and _sync hold for every interleaving of get(), _refresh()
\* and invalidate().
THEOREM NeverOlderCorrect == Spec => NeverOlder
<1>1. IInv /\ [Next]_vars => [value # None => value' >= value]_vars
    <2> SUFFICES ASSUME IInv, Next, value # None PROVE value' >= value
        OBVIOUS
    <2> USE DEF IInv, TypeOK
    <2>1. ASSUME UNCHANGED value PROVE value' >= value
        BY <2>1
    <2>2. ASSUME NEW t \in Threads, Store(t) PROVE value' >= value
        BY <2>2 DEF Store, Goto, InFlight
    <2> QED
        BY <2>1, <2>2
        DEF Next, PalaceChanges, Invalidate, TimePasses, Warm, Request, Get,
            StartRefresh, Recheck, SyncSection, AcquireSync, Begin, Compute,
            ComputeFails, Finish, palaceVars, snapVars
<1> QED
    BY <1>1, Invariance, PTL DEF Spec, NeverOlder

\* At most one background refresh exists and _refreshing says whether: the
\* flag is set with the thread's creation and cleared with its last step.
THEOREM OneRefreshCorrect == Spec => []OneRefresh
<1>1. Init => OneRefresh
    BY DEF Init, OneRefresh, Threads
<1>2. TypeOK /\ OneRefresh /\ [Next]_vars => OneRefresh'
    <2> SUFFICES ASSUME TypeOK, OneRefresh, [Next]_vars PROVE OneRefresh'
        OBVIOUS
    <2> USE ThreadsAssumption DEF TypeOK, Threads, OneRefresh
    <2>1. CASE Warm
        BY <2>1 DEF Warm, SpawnRefresher
    <2>2. ASSUME NEW r \in Requests, Request(r) PROVE OneRefresh'
        BY <2>2 DEF Request, Get, StartRefresh, Recheck, SpawnRefresher, Goto
    <2>3. ASSUME NEW t \in Threads, SyncSection(t) PROVE OneRefresh'
        BY <2>3 DEF SyncSection, AcquireSync, Begin, Compute, ComputeFails,
                    Store, After, Goto
    <2>4. ASSUME NEW b \in Refreshers, Finish(b) PROVE OneRefresh'
        BY <2>4 DEF Finish, Goto
    <2>5. CASE PalaceChanges \/ Invalidate \/ TimePasses \/ UNCHANGED vars
        BY <2>5 DEF PalaceChanges, Invalidate, TimePasses, vars
    <2> QED
        BY <2>1, <2>2, <2>3, <2>4, <2>5 DEF Next
<1> QED
    BY <1>1, <1>2, TypeCorrect, PTL DEF Spec

\* _refreshing and _sync tell who refreshes and who computes, on every path out
\* of get() and _refresh(), for any number of threads.
THEOREM RefreshesInTurnCorrect == Spec => []RefreshesInTurn
<1>1. OneRefresh /\ SyncHeld => RefreshesInTurn
    BY DEF RefreshesInTurn
<1> QED
    BY <1>1, OneRefreshCorrect, SyncHeldCorrect, PTL

\* The cache implements the safety part of its promise: the steps that store,
\* announce or change the palace are steps of AnnouncedSnapshot, and whatever
\* the threads do between them leaves what readers see alone.
THEOREM SafePromise == Spec => Promise!Spec
<1>1. Init => Promise!Init
    BY DEF Init, Promise!Init
<1>2. IInv /\ [Next]_vars => [Promise!Next]_(Promise!promiseVars)
    <2> SUFFICES ASSUME IInv, [Next]_vars
                 PROVE  Promise!Next \/ UNCHANGED Promise!promiseVars
        OBVIOUS
    <2> USE DEF Promise!promiseVars
    <2>1. CASE PalaceChanges
        BY <2>1 DEF PalaceChanges, snapVars, Promise!Next, Promise!Change
    <2>2. CASE Invalidate
        BY <2>2 DEF Invalidate, Promise!Next, Promise!Announce
    <2>3. ASSUME NEW t \in Threads, Store(t)
          PROVE  Promise!Next
        <3>1. /\ myVal[t] \in 0..palace
              /\ value # None => value <= myVal[t]
              /\ myGen[t] = gen => announced <= myVal[t]
            BY <2>3 DEF Store, Goto, IInv, InFlight, TypeOK
        <3>2. Promise!Show(myVal[t], myGen[t] # gen)
            BY <2>3, <3>1 DEF Store, palaceVars, Promise!Show
        <3> QED
            BY <3>1, <3>2 DEF Promise!Next
    <2>4. CASE TimePasses \/ Warm \/ UNCHANGED vars
        BY <2>4 DEF TimePasses, Warm, palaceVars, snapVars, vars
    <2>5. ASSUME NEW r \in Requests, Request(r)
          PROVE  UNCHANGED Promise!promiseVars
        BY <2>5 DEF Request, Get, StartRefresh, Recheck, palaceVars, snapVars
    <2>6. ASSUME NEW t \in Threads, AcquireSync(t) \/ Begin(t) \/ Compute(t) \/ ComputeFails(t)
          PROVE  UNCHANGED Promise!promiseVars
        BY <2>6 DEF AcquireSync, Begin, Compute, ComputeFails, palaceVars, snapVars
    <2>7. ASSUME NEW b \in Refreshers, Finish(b)
          PROVE  UNCHANGED Promise!promiseVars
        BY <2>7 DEF Finish, palaceVars, snapVars
    <2> QED
        BY <2>1, <2>2, <2>3, <2>4, <2>5, <2>6, <2>7 DEF Next, SyncSection
<1> QED
    BY <1>1, <1>2, Invariance, PTL DEF Spec, Promise!Spec

=============================================================================
