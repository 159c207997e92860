--------------------------- MODULE CallGateProofs ---------------------------
(***************************************************************************)
(* Proofs about CallGate, for any number of calls and holders, any bounds  *)
(* and any interleaving of the loop, the worker threads and the timers.    *)
(***************************************************************************)
EXTENDS CallGate, Lemmas

-----------------------------------------------------------------------------
(* The inductive invariant.  The two books balance because nobody waits    *)
(* for a permit twice or holds one while it waits for its first; the hold  *)
(* is exclusive because a holder that got past a semaphore has all of it.  *)

Tasks == Calls \cup Holders
Admits(s) == {c \in Calls : SemOf(c) = s /\ pc[c] \in Admitted}
InLane(l) == {c \in Calls : Lane(c) = l /\ worker[c] \in Live}
HeldOf(s) == [h \in Holders |-> held[h][s]]

\* TypeOK, and what it leaves open about the semaphores and the kinds.
Types ==
    /\ kind \in [Calls \cup Holders -> CallKinds \cup HolderKinds]
    /\ \A c \in Calls : kind[c] \in CallKinds
    /\ \A h \in Holders : kind[h] \in HolderKinds
    /\ sem \in [Sems -> [free : Nat, queue : Seq(Tasks), woken : SUBSET Tasks]]
    /\ \A s \in Sems : IsSemaphore(sem[s], Tasks)
    /\ inflight \in [Lanes -> Nat]
    /\ pc \in [Calls -> {"idle", "wait"} \cup Admitted \cup Answers]
    /\ worker \in [Calls -> {"none", "gone"} \cup Live]
    /\ result \in [Calls -> {"none", "reply", "hnsw"}]
    /\ stage \in [Holders -> Stages]
    /\ held \in [Holders -> [Sems -> Nat]]
    /\ repairing \in BOOLEAN

\* A task waits at the one semaphore its state says, and nowhere else.
WaitersKnown ==
    \A s \in Sems : \A p : Suspended(sem[s], p) =>
        \/ p \in Calls /\ pc[p] = "wait" /\ SemOf(p) = s
        \/ p \in Holders /\ stage[p] = s

\* A call has no job before it is admitted.
NoJobYet == \A c \in Calls : pc[c] \in {"idle", "wait"} => worker[c] = "none"

LaneBooks ==
    \A l \in Lanes :
        /\ IsFiniteSet(InLane(l)) /\ inflight[l] = Cardinality(InLane(l))
        /\ inflight[l] <= Bound[l]

PermitBooks ==
    \A s \in Sems :
        /\ IsFiniteSet(Admits(s)) /\ IsFiniteSet(Shares(HeldOf(s)))
        /\ Cap[s] = sem[s].free + Cardinality(sem[s].woken)
                     + Cardinality(Admits(s)) + Cardinality(Shares(HeldOf(s)))

\* The semaphores a holder has got past.
Past(h) ==
    CASE stage[h] = "write" -> {"read"}
      [] stage[h] = "save" -> {"read", "write"}
      [] stage[h] = "drain" -> {"read", "write", "save"}
      [] stage[h] = "mine" -> IF kind[h] = "background" THEN {} ELSE {"read", "write", "save"}
      [] stage[h] = "inside" -> IF kind[h] = "background" THEN {"mine"} ELSE Sems
      [] OTHER -> {}

\* It has all permits of those, some of the one at which it waits, and none of
\* the others.
BooksOf(h) ==
    /\ kind[h] = "background" => stage[h] \in {"idle", "mine", "inside", "done"}
    /\ \A s \in Sems :
        /\ s \in Past(h) => held[h][s] = Slots[s]
        /\ s \notin Past(h) /\ stage[h] # s => held[h][s] = 0
        /\ stage[h] = s => held[h][s] < Slots[s]
        /\ stage[h] = s /\ held[h][s] > 0 => Suspended(sem[s], h)
HolderBooks == \A h \in Holders : BooksOf(h)

\* Once the save lane was seen empty it stays empty.
SavesOut ==
    \A h \in Holders : kind[h] # "background" /\ stage[h] \in {"mine", "inside"} =>
        \A c \in Calls : kind[c] = "save" => worker[c] \notin Live

IInv ==
    Types /\ WaitersKnown /\ NoJobYet /\ LaneBooks /\ PermitBooks /\ HolderBooks /\ SavesOut

-----------------------------------------------------------------------------
(* Constants                                                               *)

\* Max of two numbers, the form in which the model uses it.
LEMMA MaxOfTwo ==
    ASSUME NEW a \in Int, NEW b \in Int
    PROVE  Max({a, b}) = IF a >= b THEN a ELSE b
<1> DEFINE m == IF a >= b THEN a ELSE b
<1>1. m \in {a, b} /\ \A y \in {a, b} : m >= y
    OBVIOUS
<1>2. \A x \in {a, b} : (\A y \in {a, b} : x >= y) => x = m
    OBVIOUS
<1> HIDE DEF m
<1>3. Max({a, b}) = m
    BY <1>1, <1>2 DEF Max
<1> QED
    BY <1>3 DEF m

\* The sizes of the semaphores and of the claims on them.
LEMMA Sizes ==
    /\ \A s \in Sems : Cap[s] \in Nat \ {0} /\ Slots[s] \in Nat \ {0}
    /\ Cap["save"] = Slots["save"] /\ Cap["mine"] = 1 /\ Slots["mine"] = 1
    /\ \A l \in Lanes : Bound[l] \in Nat \ {0}
<1>1. Max({1, MaxConcurrency \div 2}) \in Nat \ {0}
    <2>1. MaxConcurrency \div 2 \in Int
        BY GateAssumption
    <2> QED BY <2>1, MaxOfTwo
<1> QED
    BY <1>1, GateAssumption DEF Cap, Slots, Sems, Bound, Lanes

\* A call and a holder are different tasks.
LEMMA TasksApart == \A c \in Calls, h \in Holders : c # h
BY GateAssumption

-----------------------------------------------------------------------------
(* What the steps do to the semaphores                                     *)

\* n permits come back to semaphore s (n < 0: are taken from it).
SemStep(s, n) ==
    /\ sem' = [sem EXCEPT ![s] = sem'[s]]
    /\ IsSemaphore(sem'[s], Tasks)
    /\ Sum(sem'[s]) = Sum(sem[s]) + n

\* The semaphore of a call is one of the semaphores, its lane one of the lanes.
LEMMA SemOfType == \A c \in Calls : SemOf(c) \in Sems /\ Lane(c) \in Lanes
BY DEF SemOf, Lane, Sems, Lanes

\* The body of _call() with its permit in hand.
LEMMA BodyEffect ==
    ASSUME Types, NEW c \in Calls, NEW q, IsSemaphore(q, Tasks), Body(c, q)
    PROVE  LET s == SemOf(c) IN
           /\ sem' = [sem EXCEPT ![s] = sem'[s]] /\ IsSemaphore(sem'[s], Tasks)
           /\ \A p : Suspended(sem'[s], p) <=> Suspended(q, p)
           /\ \/ /\ pc' = [pc EXCEPT ![c] = "busy"]
                 /\ Sum(sem'[s]) = Sum(q) + 1
                 /\ UNCHANGED <<inflight, worker>>
              \/ /\ pc' = [pc EXCEPT ![c] = "await"]
                 /\ Sum(sem'[s]) = Sum(q)
                 /\ inflight[Lane(c)] < Bound[Lane(c)]
                 /\ inflight' = [inflight EXCEPT ![Lane(c)] = @ + 1]
                 /\ worker' = [worker EXCEPT ![c] = "queued"]
<1> DEFINE s == SemOf(c)
<1>1. s \in Sems /\ Lane(c) \in Lanes
    BY SemOfType
<1>2. DOMAIN sem = Sems /\ inflight[Lane(c)] \in Nat /\ Bound[Lane(c)] \in Nat
    BY <1>1, Sizes DEF Types
<1>3. CASE inflight[Lane(c)] >= Bound[Lane(c)]
    <2>1. /\ pc' = [pc EXCEPT ![c] = "busy"]
          /\ sem' = [sem EXCEPT ![s] = Give(q, 1)]
          /\ UNCHANGED <<inflight, worker>>
        BY <1>3 DEF Body, SetSem
    <2>2. sem'[s] = Give(q, 1)
        BY <1>1, <1>2, <2>1
    <2>3. /\ IsSemaphore(Give(q, 1), Tasks)
          /\ Give(q, 1).free + Cardinality(Give(q, 1).woken) = q.free + Cardinality(q.woken) + 1
          /\ \A p : Suspended(Give(q, 1), p) <=> Suspended(q, p)
        BY GiveConserves
    <2> HIDE DEF s
    <2> QED BY <2>1, <2>2, <2>3 DEF Sum, s
<1>4. CASE ~(inflight[Lane(c)] >= Bound[Lane(c)])
    <2>1. /\ pc' = [pc EXCEPT ![c] = "await"]
          /\ sem' = [sem EXCEPT ![s] = q]
          /\ inflight' = [inflight EXCEPT ![Lane(c)] = @ + 1]
          /\ worker' = [worker EXCEPT ![c] = "queued"]
        BY <1>4 DEF Body, SetSem
    <2>2. sem'[s] = q
        BY <1>1, <1>2, <2>1
    <2>3. inflight[Lane(c)] < Bound[Lane(c)]
        BY <1>2, <1>4
    <2> HIDE DEF s
    <2> QED BY <2>1, <2>2, <2>3 DEF s
<1> QED
    BY <1>3, <1>4

\* A call arrives, or is woken: it is refused (nothing taken), admitted (one
\* permit taken) or suspended.
LEMMA EntryEffect ==
    ASSUME IInv, NEW c \in Calls, Arrive(c) \/ WakeCall(c)
    PROVE  LET s == SemOf(c) IN
           /\ pc[c] \in {"idle", "wait"}
           /\ UNCHANGED <<kind, result, stage, held, repairing>>
           /\ \/ /\ pc' = [pc EXCEPT ![c] = "busy"] /\ SemStep(s, 0)
                 /\ UNCHANGED <<inflight, worker>>
                 /\ \A p : Suspended(sem'[s], p) <=> Suspended(sem[s], p) /\ p # c
              \/ /\ pc' = [pc EXCEPT ![c] = "await"] /\ SemStep(s, -1)
                 /\ inflight[Lane(c)] < Bound[Lane(c)]
                 /\ inflight' = [inflight EXCEPT ![Lane(c)] = @ + 1]
                 /\ worker' = [worker EXCEPT ![c] = "queued"]
                 /\ \A p : Suspended(sem'[s], p) <=> Suspended(sem[s], p) /\ p # c
                 /\ Sum(sem[s]) > 0
              \/ /\ pc' = [pc EXCEPT ![c] = "wait"] /\ SemStep(s, 0)
                 /\ UNCHANGED <<inflight, worker>>
                 /\ \A p : Suspended(sem'[s], p) <=> Suspended(sem[s], p) \/ p = c
<1> DEFINE s == SemOf(c)
<1>1. s \in Sems /\ IsSemaphore(sem[s], Tasks) /\ Types /\ DOMAIN sem = Sems /\ c \in Tasks
    BY SemOfType DEF IInv, Types, Tasks
<1>2. Sum(sem[s]) \in Nat /\ Cardinality(sem[s].woken) \in Nat /\ sem[s].free \in Nat
    BY <1>1, SumType DEF IsSemaphore
<1>3. CASE Arrive(c)
    <2>1. pc[c] = "idle" /\ UNCHANGED <<kind, result, stage, held, repairing>>
        BY <1>3 DEF Arrive, holderVars
    <2>2. ~Suspended(sem[s], c)
        BY <1>1, <2>1, TasksApart DEF IInv, WaitersKnown
    <2>3. CASE Available(sem[s]) > 0 /\ Body(c, TakePermits(sem[s], 1))
        <3>1. 1 \in 0..Available(sem[s])
            BY <1>1, <2>3, AvailableBound
        <3>2. /\ IsSemaphore(TakePermits(sem[s], 1), Tasks)
              /\ TakePermits(sem[s], 1).free = sem[s].free - 1 /\ TakePermits(sem[s], 1).woken = sem[s].woken
              /\ \A p : Suspended(TakePermits(sem[s], 1), p) <=> Suspended(sem[s], p)
            BY <1>1, <3>1, TakeConserves
        <3>3. Sum(TakePermits(sem[s], 1)) = Sum(sem[s]) - 1
            BY <1>2, <3>2 DEF Sum
        <3>4. Sum(TakePermits(sem[s], 1)) \in Nat
            BY <3>2, SumType
        <3> DEFINE q == TakePermits(sem[s], 1)
        <3> HIDE DEF q
        <3>5. IsSemaphore(q, Tasks) /\ Body(c, q) /\ Sum(q) = Sum(sem[s]) - 1 /\ Sum(q) \in Nat
              /\ \A p : Suspended(q, p) <=> Suspended(sem[s], p)
            BY <2>3, <3>2, <3>3, <3>4 DEF q
        <3> QED BY <1>1, <1>2, <2>1, <2>2, <3>5, BodyEffect DEF SemStep
    <2>4. CASE /\ pc' = [pc EXCEPT ![c] = "wait"] /\ SetSem(SemOf(c), Enqueue(sem[s], c))
               /\ UNCHANGED <<inflight, worker>>
        <3>1. /\ IsSemaphore(Enqueue(sem[s], c), Tasks)
              /\ Enqueue(sem[s], c).free = sem[s].free /\ Enqueue(sem[s], c).woken = sem[s].woken
              /\ \A r : Suspended(Enqueue(sem[s], c), r) <=> Suspended(sem[s], r) \/ r = c
            BY <1>1, <2>2, EnqueueConserves
        <3>2. sem' = [sem EXCEPT ![s] = Enqueue(sem[s], c)]
            BY <2>4 DEF SetSem
        <3>3. sem'[s] = Enqueue(sem[s], c)
            BY <1>1, <3>2
        <3> HIDE DEF s
        <3>4. SemStep(s, 0)
            <4>1. Sum(Enqueue(sem[s], c)) = Sum(sem[s]) /\ Sum(sem[s]) \in Nat
                BY <1>2, <3>1 DEF Sum
            <4>2. Sum(sem'[s]) = Sum(sem[s]) + 0
                BY <3>3, <4>1
            <4> QED BY <3>1, <3>2, <3>3, <4>2 DEF SemStep
        <3> QED BY <2>1, <2>4, <3>1, <3>3, <3>4 DEF s
    <2> QED BY <1>3, <2>3, <2>4 DEF Arrive
<1>4. CASE WakeCall(c)
    <2>1. c \in sem[s].woken /\ UNCHANGED <<kind, result, stage, held, repairing>>
        BY <1>4 DEF WakeCall, holderVars
    <2>2. pc[c] = "wait"
        BY <1>1, <2>1, TasksApart DEF IInv, WaitersKnown, Suspended
    <2>3. /\ IsSemaphore(Resume(sem[s], c), Tasks)
          /\ Resume(sem[s], c).free + Cardinality(Resume(sem[s], c).woken)
                = sem[s].free + Cardinality(sem[s].woken) - 1
          /\ \A r : Suspended(Resume(sem[s], c), r) <=> Suspended(sem[s], r) /\ r # c
        BY <1>1, <2>1, ResumeConserves
    <2>4. Sum(Resume(sem[s], c)) = Sum(sem[s]) - 1 /\ Sum(Resume(sem[s], c)) \in Nat
        <3>1. Sum(Resume(sem[s], c)) = Sum(sem[s]) - 1
            BY <1>2, <2>3 DEF Sum
        <3> QED BY <2>3, <3>1, SumType
    <2> DEFINE q == Resume(sem[s], c)
    <2> HIDE DEF q
    <2>5. IsSemaphore(q, Tasks) /\ Body(c, q) /\ Sum(q) = Sum(sem[s]) - 1 /\ Sum(q) \in Nat
          /\ \A p : Suspended(q, p) <=> Suspended(sem[s], p) /\ p # c
        BY <1>4, <2>3, <2>4 DEF q, WakeCall
    <2> QED BY <1>1, <1>2, <2>1, <2>2, <2>5, BodyEffect DEF SemStep
<1> QED
    BY <1>3, <1>4

\* The answer goes out and the permit back.
LEMMA ReplyEffect ==
    ASSUME IInv, NEW c \in Calls, NEW a, Reply(c, a)
    PROVE  /\ pc' = [pc EXCEPT ![c] = a] /\ SemStep(SemOf(c), 1)
           /\ \A p : Suspended(sem'[SemOf(c)], p) <=> Suspended(sem[SemOf(c)], p)
<1> DEFINE s == SemOf(c)
<1>1. s \in Sems /\ IsSemaphore(sem[s], Tasks) /\ DOMAIN sem = Sems
    BY SemOfType DEF IInv, Types
<1>2. pc' = [pc EXCEPT ![c] = a] /\ sem' = [sem EXCEPT ![s] = Give(sem[s], 1)]
    BY DEF Reply, SetSem
<1>3. sem'[s] = Give(sem[s], 1)
    BY <1>1, <1>2
<1>4. /\ IsSemaphore(Give(sem[s], 1), Tasks)
      /\ Give(sem[s], 1).free + Cardinality(Give(sem[s], 1).woken) = sem[s].free + Cardinality(sem[s].woken) + 1
      /\ \A p : Suspended(Give(sem[s], 1), p) <=> Suspended(sem[s], p)
    BY <1>1, GiveConserves
<1> HIDE DEF s
<1> QED
    BY <1>2, <1>3, <1>4 DEF SemStep, Sum, s

\* A holder takes what is free of what it needs, and goes on or waits.
LEMMA AcquireEffect ==
    ASSUME IInv, NEW h \in Holders, Acquire(h) \/ WakeHolder(h)
    PROVE  LET s == stage[h] IN
           /\ s \in Sems
           /\ UNCHANGED <<kind, inflight, pc, worker, result, repairing>>
           /\ \E v \in Nat :
                /\ held' = [held EXCEPT ![h][s] = v]
                /\ SemStep(s, held[h][s] - v)
                /\ \/ /\ v = Slots[s] /\ stage' = [stage EXCEPT ![h] = AfterStage[s]]
                      /\ \A p : Suspended(sem'[s], p) <=> Suspended(sem[s], p) /\ p # h
                   \/ /\ v < Slots[s] /\ stage' = stage
                      /\ \A p : Suspended(sem'[s], p) <=> Suspended(sem[s], p) \/ p = h
<1> DEFINE s == stage[h]
<1>1. /\ s \in Sems
      /\ UNCHANGED <<kind, inflight, pc, worker, result, repairing>>
    BY DEF Acquire, WakeHolder, callVars
<1>2. /\ IsSemaphore(sem[s], Tasks) /\ DOMAIN sem = Sems /\ h \in Tasks
      /\ Slots[s] \in Nat \ {0} /\ held[h][s] \in Nat
    BY <1>1, Sizes DEF IInv, Types, Tasks
<1>3. Sum(sem[s]) \in Nat /\ Cardinality(sem[s].woken) \in Nat /\ sem[s].free \in Nat
    BY <1>2, SumType DEF IsSemaphore
<1>4. \E q, have :
        /\ AcquireLoop(h, q, have) /\ IsSemaphore(q, Tasks)
        /\ have \in Nat /\ have <= Slots[s] /\ Sum(q) = Sum(sem[s]) - (have - held[h][s])
        /\ \A p : Suspended(q, p) <=> Suspended(sem[s], p) /\ p # h
    <2>1. CASE Acquire(h)
        <3>1. ~Suspended(sem[s], h) /\ AcquireLoop(h, sem[s], 0)
            BY <1>1, <2>1 DEF Acquire, Waiting
        <3>2. held[h][s] = 0
            BY <1>1, <1>2, <3>1 DEF IInv, HolderBooks, BooksOf
        <3>3. Sum(sem[s]) = Sum(sem[s]) - (0 - held[h][s])
            BY <1>3, <3>2
        <3> QED BY <1>2, <3>1, <3>3
    <2>2. CASE WakeHolder(h)
        <3>1. h \in sem[s].woken /\ AcquireLoop(h, Resume(sem[s], h), held[h][s] + 1)
            BY <2>2 DEF WakeHolder
        <3>2. /\ IsSemaphore(Resume(sem[s], h), Tasks)
              /\ Resume(sem[s], h).free + Cardinality(Resume(sem[s], h).woken)
                    = sem[s].free + Cardinality(sem[s].woken) - 1
              /\ \A r : Suspended(Resume(sem[s], h), r) <=> Suspended(sem[s], r) /\ r # h
            BY <1>2, <3>1, ResumeConserves
        <3>3. Sum(Resume(sem[s], h)) = Sum(sem[s]) - 1
            BY <1>3, <3>2 DEF Sum
        <3>4. held[h][s] + 1 \in Nat /\ held[h][s] + 1 <= Slots[s]
            BY <1>1, <1>2 DEF IInv, HolderBooks, BooksOf
        <3>5. Sum(Resume(sem[s], h)) = Sum(sem[s]) - ((held[h][s] + 1) - held[h][s])
            BY <1>2, <1>3, <3>3
        <3> QED BY <3>1, <3>2, <3>4, <3>5
    <2> QED BY <2>1, <2>2
<1>5. PICK q, have :
        /\ AcquireLoop(h, q, have) /\ IsSemaphore(q, Tasks)
        /\ have \in Nat /\ have <= Slots[s] /\ Sum(q) = Sum(sem[s]) - (have - held[h][s])
        /\ \A p : Suspended(q, p) <=> Suspended(sem[s], p) /\ p # h
    BY <1>4
<1> DEFINE need == Slots[s] - have
           n == Min({need, Available(q)})
           v == have + n
<1>6. Available(q) \in 0..q.free /\ q.free \in Nat /\ Cardinality(q.woken) \in Nat /\ Sum(q) \in Nat
    BY <1>5, AvailableBound, SumType DEF IsSemaphore
<1>7. n \in 0..Available(q) /\ n <= need /\ n \in Nat
    BY <1>2, <1>5, <1>6, MinOfTwo
<1>8. /\ held' = [held EXCEPT ![h][s] = v]
      /\ \/ n = need /\ stage' = [stage EXCEPT ![h] = AfterStage[s]] /\ sem' = [sem EXCEPT ![s] = TakePermits(q, n)]
         \/ n < need /\ stage' = stage /\ sem' = [sem EXCEPT ![s] = Enqueue(TakePermits(q, n), h)]
    BY <1>5 DEF AcquireLoop, SetSem
<1> HIDE DEF n
<1>9. v \in Nat /\ (n = need => v = Slots[s]) /\ (n < need => v < Slots[s])
    BY <1>2, <1>5, <1>7
<1>10. /\ IsSemaphore(TakePermits(q, n), Tasks)
       /\ TakePermits(q, n).free = q.free - n /\ TakePermits(q, n).woken = q.woken
       /\ \A p : Suspended(TakePermits(q, n), p) <=> Suspended(q, p)
    BY <1>5, <1>7, TakeConserves
<1>11. Sum(TakePermits(q, n)) = Sum(sem[s]) + (held[h][s] - v)
    BY <1>2, <1>3, <1>5, <1>6, <1>7, <1>10 DEF Sum
<1>12. /\ IsSemaphore(Enqueue(TakePermits(q, n), h), Tasks)
       /\ Enqueue(TakePermits(q, n), h).free = TakePermits(q, n).free /\ Enqueue(TakePermits(q, n), h).woken = TakePermits(q, n).woken
       /\ \A r : Suspended(Enqueue(TakePermits(q, n), h), r) <=> Suspended(TakePermits(q, n), r) \/ r = h
    BY <1>2, <1>5, <1>10, EnqueueConserves
<1>13. Sum(Enqueue(TakePermits(q, n), h)) = Sum(sem[s]) + (held[h][s] - v)
    BY <1>11, <1>12 DEF Sum
<1> HIDE DEF s, v
<1>14. CASE n = need /\ stage' = [stage EXCEPT ![h] = AfterStage[s]] /\ sem' = [sem EXCEPT ![s] = TakePermits(q, n)]
    <2>1. sem'[s] = TakePermits(q, n)
        BY <1>1, <1>2, <1>14
    <2>2. SemStep(s, held[h][s] - v)
        BY <1>10, <1>11, <1>14, <2>1 DEF SemStep
    <2>3. \A p : Suspended(sem'[s], p) <=> Suspended(sem[s], p) /\ p # h
        BY <1>5, <1>10, <2>1
    <2> QED BY <1>1, <1>8, <1>9, <1>14, <2>2, <2>3 DEF s
<1>15. CASE n < need /\ stage' = stage /\ sem' = [sem EXCEPT ![s] = Enqueue(TakePermits(q, n), h)]
    <2>1. sem'[s] = Enqueue(TakePermits(q, n), h)
        BY <1>1, <1>2, <1>15
    <2>2. SemStep(s, held[h][s] - v)
        BY <1>12, <1>13, <1>15, <2>1 DEF SemStep
    <2>3. \A p : Suspended(sem'[s], p) <=> Suspended(sem[s], p) \/ p = h
        BY <1>5, <1>10, <1>12, <2>1
    <2> QED BY <1>1, <1>8, <1>9, <1>15, <2>2, <2>3 DEF s
<1> QED
    BY <1>8, <1>14, <1>15

\* A holder gives back all it has.
LEMMA ReleaseEffect ==
    ASSUME IInv, NEW h \in Holders, ReleaseAll(h)
    PROVE  /\ sem' \in [Sems -> [free : Nat, queue : Seq(Tasks), woken : SUBSET Tasks]]
           /\ \A s \in Sems :
                /\ IsSemaphore(sem'[s], Tasks) /\ Sum(sem'[s]) = Sum(sem[s]) + held[h][s]
                /\ \A p : Suspended(sem'[s], p) <=> Suspended(sem[s], p)
<1>1. sem' = [s \in Sems |-> Give(sem[s], held[h][s])]
    BY DEF ReleaseAll
<1>2. ASSUME NEW s \in Sems
      PROVE  /\ IsSemaphore(sem'[s], Tasks) /\ Sum(sem'[s]) = Sum(sem[s]) + held[h][s]
             /\ \A p : Suspended(sem'[s], p) <=> Suspended(sem[s], p)
    <2>1. IsSemaphore(sem[s], Tasks) /\ held[h][s] \in Nat /\ sem'[s] = Give(sem[s], held[h][s])
        BY <1>1 DEF IInv, Types
    <2> QED BY <2>1, GiveConserves DEF Sum
<1>3. \A s \in Sems : sem'[s] \in [free : Nat, queue : Seq(Tasks), woken : SUBSET Tasks]
    BY <1>2 DEF IsSemaphore
<1>4. sem' \in [Sems -> [free : Nat, queue : Seq(Tasks), woken : SUBSET Tasks]]
    BY <1>1, <1>3
<1> QED
    BY <1>2, <1>4

\* Only the semaphore of the step changes.
LEMMA SemStepOthers ==
    ASSUME Types, NEW s \in Sems, NEW n, SemStep(s, n)
    PROVE  /\ sem' \in [Sems -> [free : Nat, queue : Seq(Tasks), woken : SUBSET Tasks]]
           /\ \A r \in Sems : IsSemaphore(sem'[r], Tasks)
           /\ \A r \in Sems \ {s} : sem'[r] = sem[r]
<1>1. sem'[s] \in [free : Nat, queue : Seq(Tasks), woken : SUBSET Tasks]
    BY DEF SemStep, IsSemaphore
<1>2. \A r \in Sems \ {s} : sem'[r] = sem[r]
    BY DEF SemStep, Types
<1> QED
    BY <1>1, <1>2 DEF SemStep, Types

-----------------------------------------------------------------------------
(* The parts of the invariant, kept by the steps of calls ...              *)

\* The books of permits, when a call changes its state and n permits come back.
LEMMA PermitsOfCall ==
    ASSUME IInv, NEW c \in Calls, NEW n \in Int, kind' = kind, held' = held,
           pc' = [pc EXCEPT ![c] = pc'[c]], SemStep(SemOf(c), n),
           \/ n = 0 /\ (pc[c] \in Admitted <=> pc'[c] \in Admitted)
           \/ n = 1 /\ pc[c] \in Admitted /\ pc'[c] \notin Admitted
           \/ n = -1 /\ pc[c] \notin Admitted /\ pc'[c] \in Admitted
    PROVE  PermitBooks'
<1>1. SemOf(c) \in Sems /\ Types /\ PermitBooks
    BY SemOfType DEF IInv
<1>2. \A d \in Calls : SemOf(d)' = SemOf(d) /\ (d # c => pc'[d] = pc[d])
    BY <1>1 DEF SemOf, Types
<1> SUFFICES ASSUME NEW r \in Sems
             PROVE  /\ IsFiniteSet(Admits(r)') /\ IsFiniteSet(Shares(HeldOf(r))')
                    /\ Cap[r] = sem'[r].free + Cardinality(sem'[r].woken)
                                 + Cardinality(Admits(r)') + Cardinality(Shares(HeldOf(r))')
    BY DEF PermitBooks
<1>4. Shares(HeldOf(r))' = Shares(HeldOf(r))
    BY DEF HeldOf, Shares
<1>5. CASE r # SemOf(c)
    <2>1. Admits(r)' = Admits(r) /\ sem'[r] = sem[r]
        BY <1>1, <1>2, <1>5, SemStepOthers DEF Admits
    <2> QED BY <1>1, <1>4, <2>1 DEF PermitBooks
<1>6. CASE r = SemOf(c)
    <2>1. Admits(r)' = IF pc'[c] \in Admitted THEN Admits(r) \cup {c} ELSE Admits(r) \ {c}
        BY <1>2, <1>6 DEF Admits
    <2>2. c \in Admits(r) <=> pc[c] \in Admitted
        BY <1>6 DEF Admits
    <2>3. IsFiniteSet(Admits(r)) /\ Cardinality(Admits(r)) \in Nat
        BY <1>1, FS_CardinalityType DEF PermitBooks
    <2>4. IsFiniteSet(Admits(r)') /\ Cardinality(Admits(r)') = Cardinality(Admits(r)) - n
        <3>1. /\ IsFiniteSet(Admits(r) \cup {c})
              /\ Cardinality(Admits(r) \cup {c}) =
                    IF c \in Admits(r) THEN Cardinality(Admits(r)) ELSE Cardinality(Admits(r)) + 1
            BY <2>3, FS_AddElement
        <3>2. /\ IsFiniteSet(Admits(r) \ {c})
              /\ Cardinality(Admits(r) \ {c}) =
                    IF c \in Admits(r) THEN Cardinality(Admits(r)) - 1 ELSE Cardinality(Admits(r))
            BY <2>3, FS_RemoveElement
        <3> QED BY <2>1, <2>2, <2>3, <3>1, <3>2
    <2>5. Sum(sem'[r]) = Sum(sem[r]) + n /\ Sum(sem[r]) \in Nat
        BY <1>1, <1>6, SumType DEF SemStep, Types
    <2>6. IsFiniteSet(Shares(HeldOf(r))) /\ Cardinality(Shares(HeldOf(r))) \in Nat
        BY <1>1, FS_CardinalityType DEF PermitBooks
    <2>7. Cap[r] = Sum(sem[r]) + Cardinality(Admits(r)) + Cardinality(Shares(HeldOf(r)))
        BY <1>1 DEF PermitBooks, Sum
    <2>8. Cap[r] = Sum(sem'[r]) + Cardinality(Admits(r)') + Cardinality(Shares(HeldOf(r)))
        BY <2>3, <2>4, <2>5, <2>6, <2>7
    <2> QED BY <1>4, <2>4, <2>6, <2>8 DEF Sum
<1> QED
    BY <1>5, <1>6

\* Holders do not notice: a step of a call keeps their books.
LEMMA HoldersOfCall ==
    ASSUME IInv, NEW c \in Calls, kind' = kind, stage' = stage, held' = held,
           NEW s \in Sems, NEW n, SemStep(s, n),
           \A p : Suspended(sem[s], p) /\ p # c => Suspended(sem'[s], p)
    PROVE  HolderBooks'
<1>1. \A r \in Sems, h \in Holders : Suspended(sem[r], h) => Suspended(sem'[r], h)
    BY TasksApart, SemStepOthers DEF IInv
<1>2. \A h \in Holders : Past(h)' = Past(h)
    BY DEF Past
<1> QED
    BY <1>1, <1>2 DEF IInv, HolderBooks, BooksOf

\* No save is admitted while a holder has the whole save semaphore.
LEMMA SaveLaneShut ==
    ASSUME IInv, NEW h \in Holders, kind[h] # "background", stage[h] \in {"drain", "mine", "inside"}
    PROVE  Sum(sem["save"]) = 0 /\ Admits("save") = {}
<1>1. "save" \in Sems /\ Types /\ PermitBooks /\ HolderBooks
    BY DEF Sems, IInv
<1>2. held[h]["save"] = Cap["save"]
    BY <1>1, Sizes DEF HolderBooks, BooksOf, Past, Sems
<1>3. HeldOf("save") \in [Holders -> Nat] /\ HeldOf("save")[h] = held[h]["save"]
    BY <1>1 DEF HeldOf, Types
<1>4. held[h]["save"] <= Cardinality(Shares(HeldOf("save")))
    BY <1>1, <1>3, SharesBound DEF PermitBooks
<1>5. Cap["save"] = Sum(sem["save"]) + Cardinality(Admits("save")) + Cardinality(Shares(HeldOf("save")))
    BY <1>1 DEF PermitBooks, Sum
<1>6. /\ Sum(sem["save"]) \in Nat /\ Cardinality(Admits("save")) \in Nat
      /\ Cardinality(Shares(HeldOf("save"))) \in Nat /\ Cap["save"] \in Nat
      /\ IsFiniteSet(Admits("save"))
    BY <1>1, SumType, Sizes, FS_CardinalityType DEF PermitBooks, Types
<1>7. Sum(sem["save"]) = 0 /\ Cardinality(Admits("save")) = 0
    BY <1>2, <1>4, <1>5, <1>6
<1> QED
    BY <1>6, <1>7, FS_EmptySet

\* A call enters: it is refused, admitted or suspended.
LEMMA EntryKeeps ==
    ASSUME IInv, NEW c \in Calls, Arrive(c) \/ WakeCall(c)
    PROVE  IInv'
<1> DEFINE s == SemOf(c)
<1> USE DEF Admitted, Answers, Live
<1>1. s \in Sems /\ Lane(c) \in Lanes /\ Types /\ NoJobYet /\ WaitersKnown /\ LaneBooks
    BY SemOfType DEF IInv
<1>2. pc[c] \in {"idle", "wait"} /\ UNCHANGED <<kind, result, stage, held, repairing>> /\ worker[c] = "none"
    BY <1>1, EntryEffect DEF NoJobYet
<1>3. \A d \in Calls : SemOf(d)' = SemOf(d) /\ Lane(d)' = Lane(d)
    BY <1>2 DEF SemOf, Lane
<1>4. CASE /\ pc' = [pc EXCEPT ![c] = "busy"] /\ SemStep(s, 0)
           /\ UNCHANGED <<inflight, worker>>
           /\ \A p : Suspended(sem'[s], p) <=> Suspended(sem[s], p) /\ p # c
    <2>1. \A r \in Sems \ {s} : sem'[r] = sem[r]
        BY <1>1, <1>4, SemStepOthers
    <2>2. Types'
        BY <1>1, <1>2, <1>4, SemStepOthers DEF Types
    <2>3. WaitersKnown'
        <3> SUFFICES ASSUME NEW r \in Sems, NEW p, Suspended(sem'[r], p)
                     PROVE \/ p \in Calls /\ pc'[p] = "wait" /\ SemOf(p)' = r
                           \/ p \in Holders /\ stage'[p] = r
            BY DEF WaitersKnown
        <3>1. CASE p = c
            BY <1>1, <1>2, <1>3, <1>4, <2>1, <3>1, TasksApart DEF WaitersKnown, Types
        <3>2. CASE p # c
            <4>1. Suspended(sem[r], p)
                BY <1>4, <2>1, <3>2
            <4>2. pc[p] = "wait" /\ p \in Calls => pc'[p] = "wait"
                BY <1>1, <1>4, <3>2 DEF Types
            <4> QED BY <1>1, <1>2, <1>3, <4>1, <4>2 DEF WaitersKnown
        <3> QED BY <3>1, <3>2
    <2>4. NoJobYet'
        BY <1>1, <1>2, <1>4 DEF NoJobYet, Types
    <2>5. \A l \in Lanes : InLane(l)' = InLane(l)
        BY <1>3, <1>4 DEF InLane
    <2>6. LaneBooks'
        BY <1>1, <1>4, <2>5 DEF LaneBooks
    <2>7. PermitBooks'
        <3>1. pc[c] \notin Admitted /\ pc'[c] \notin Admitted /\ pc' = [pc EXCEPT ![c] = pc'[c]]
            BY <1>1, <1>2, <1>4 DEF Types
        <3>2. SemStep(SemOf(c), 0) /\ kind' = kind /\ held' = held
            BY <1>2, <1>4
        <3> HIDE DEF Admitted
        <3> QED BY <3>1, <3>2, PermitsOfCall
    <2>8. HolderBooks'
        BY <1>1, <1>2, <1>4, HoldersOfCall
    <2>9. SavesOut'
        BY <1>2, <1>4 DEF IInv, SavesOut
    <2> QED BY <2>2, <2>3, <2>4, <2>6, <2>7, <2>8, <2>9 DEF IInv
<1>5. CASE /\ pc' = [pc EXCEPT ![c] = "await"] /\ SemStep(s, -1)
           /\ inflight[Lane(c)] < Bound[Lane(c)]
           /\ inflight' = [inflight EXCEPT ![Lane(c)] = @ + 1]
           /\ worker' = [worker EXCEPT ![c] = "queued"]
           /\ \A p : Suspended(sem'[s], p) <=> Suspended(sem[s], p) /\ p # c
           /\ Sum(sem[s]) > 0
    <2>1. \A r \in Sems \ {s} : sem'[r] = sem[r]
        BY <1>1, <1>5, SemStepOthers
    <2>2. Types'
        BY <1>1, <1>2, <1>5, SemStepOthers DEF Types
    <2>3. WaitersKnown'
        <3> SUFFICES ASSUME NEW r \in Sems, NEW p, Suspended(sem'[r], p)
                     PROVE \/ p \in Calls /\ pc'[p] = "wait" /\ SemOf(p)' = r
                           \/ p \in Holders /\ stage'[p] = r
            BY DEF WaitersKnown
        <3>1. CASE p = c
            BY <1>1, <1>2, <1>3, <1>5, <2>1, <3>1, TasksApart DEF WaitersKnown, Types
        <3>2. CASE p # c
            <4>1. Suspended(sem[r], p)
                BY <1>5, <2>1, <3>2
            <4>2. pc[p] = "wait" /\ p \in Calls => pc'[p] = "wait"
                BY <1>1, <1>5, <3>2 DEF Types
            <4> QED BY <1>1, <1>2, <1>3, <4>1, <4>2 DEF WaitersKnown
        <3> QED BY <3>1, <3>2
    <2>4. NoJobYet'
        BY <1>1, <1>2, <1>5 DEF NoJobYet, Types
    <2>5. \A l \in Lanes : InLane(l)' = IF l = Lane(c) THEN InLane(l) \cup {c} ELSE InLane(l)
        BY <1>1, <1>3, <1>5 DEF InLane, Types
    <2>6. c \notin InLane(Lane(c))
        BY <1>2 DEF InLane
    <2>7. LaneBooks'
        <3> SUFFICES ASSUME NEW l \in Lanes
                     PROVE /\ IsFiniteSet(InLane(l)') /\ inflight'[l] = Cardinality(InLane(l)')
                           /\ inflight'[l] <= Bound[l]
            BY DEF LaneBooks
        <3>1. /\ IsFiniteSet(InLane(l)) /\ inflight[l] = Cardinality(InLane(l)) /\ inflight[l] <= Bound[l]
              /\ inflight[l] \in Nat /\ Bound[l] \in Nat
            BY <1>1, Sizes DEF LaneBooks, Types
        <3>2. CASE l = Lane(c)
            <4>1. inflight'[l] = inflight[l] + 1 /\ inflight[l] < Bound[l]
                BY <1>1, <1>5, <3>2 DEF Types
            <4>2. IsFiniteSet(InLane(l) \cup {c}) /\ Cardinality(InLane(l) \cup {c}) = Cardinality(InLane(l)) + 1
                BY <2>6, <3>1, <3>2, FS_AddElement
            <4> QED BY <2>5, <3>1, <3>2, <4>1, <4>2
        <3>3. CASE l # Lane(c)
            <4>1. inflight'[l] = inflight[l]
                BY <1>1, <1>5, <3>3 DEF Types
            <4> QED BY <2>5, <3>1, <3>3, <4>1
        <3> QED BY <3>2, <3>3
    <2>8. PermitBooks'
        <3>1. pc[c] \notin Admitted /\ pc'[c] \in Admitted /\ pc' = [pc EXCEPT ![c] = pc'[c]]
            BY <1>1, <1>2, <1>5 DEF Types
        <3>2. SemStep(SemOf(c), -1) /\ kind' = kind /\ held' = held
            BY <1>2, <1>5
        <3> HIDE DEF Admitted
        <3> QED BY <3>1, <3>2, PermitsOfCall
    <2>9. HolderBooks'
        BY <1>1, <1>2, <1>5, HoldersOfCall
    <2>10. SavesOut'
        <3> SUFFICES ASSUME NEW h \in Holders, kind[h] # "background", stage[h] \in {"mine", "inside"},
                            NEW d \in Calls, kind[d] = "save"
                     PROVE worker'[d] \notin Live
            BY <1>2 DEF SavesOut
        <3>1. worker[d] \notin Live
            BY DEF IInv, SavesOut
        <3>2. d = c => s = "save"
            BY DEF SemOf
        <3>3. d # c
            BY <1>5, <3>2, SaveLaneShut
        <3> QED BY <1>1, <1>5, <3>1, <3>3 DEF Types
    <2> QED BY <2>2, <2>3, <2>4, <2>7, <2>8, <2>9, <2>10 DEF IInv
<1>6. CASE /\ pc' = [pc EXCEPT ![c] = "wait"] /\ SemStep(s, 0)
           /\ UNCHANGED <<inflight, worker>>
           /\ \A p : Suspended(sem'[s], p) <=> Suspended(sem[s], p) \/ p = c
    <2>1. \A r \in Sems \ {s} : sem'[r] = sem[r]
        BY <1>1, <1>6, SemStepOthers
    <2>2. Types'
        BY <1>1, <1>2, <1>6, SemStepOthers DEF Types
    <2>3. WaitersKnown'
        <3> SUFFICES ASSUME NEW r \in Sems, NEW p, Suspended(sem'[r], p)
                     PROVE \/ p \in Calls /\ pc'[p] = "wait" /\ SemOf(p)' = r
                           \/ p \in Holders /\ stage'[p] = r
            BY DEF WaitersKnown
        <3>1. CASE p = c
            BY <1>1, <1>2, <1>3, <1>6, <2>1, <3>1, TasksApart DEF WaitersKnown, Types
        <3>2. CASE p # c
            <4>1. Suspended(sem[r], p)
                BY <1>6, <2>1, <3>2
            <4>2. pc[p] = "wait" /\ p \in Calls => pc'[p] = "wait"
                BY <1>1, <1>6, <3>2 DEF Types
            <4> QED BY <1>1, <1>2, <1>3, <4>1, <4>2 DEF WaitersKnown
        <3> QED BY <3>1, <3>2
    <2>4. NoJobYet'
        BY <1>1, <1>2, <1>6 DEF NoJobYet, Types
    <2>5. \A l \in Lanes : InLane(l)' = InLane(l)
        BY <1>3, <1>6 DEF InLane
    <2>6. LaneBooks'
        BY <1>1, <1>6, <2>5 DEF LaneBooks
    <2>7. PermitBooks'
        <3>1. pc[c] \notin Admitted /\ pc'[c] \notin Admitted /\ pc' = [pc EXCEPT ![c] = pc'[c]]
            BY <1>1, <1>2, <1>6 DEF Types
        <3>2. SemStep(SemOf(c), 0) /\ kind' = kind /\ held' = held
            BY <1>2, <1>6
        <3> HIDE DEF Admitted
        <3> QED BY <3>1, <3>2, PermitsOfCall
    <2>8. HolderBooks'
        BY <1>1, <1>2, <1>6, HoldersOfCall
    <2>9. SavesOut'
        BY <1>2, <1>6 DEF IInv, SavesOut
    <2> QED BY <2>2, <2>3, <2>4, <2>6, <2>7, <2>8, <2>9 DEF IInv
<1> QED
    BY <1>4, <1>5, <1>6, EntryEffect

\* A call is answered, whatever becomes of its job.
LEMMA ReplyKeeps ==
    ASSUME IInv, NEW c \in Calls, pc[c] \in Admitted, NEW a \in Answers, Reply(c, a),
           UNCHANGED <<kind, inflight, stage, held, repairing>>,
           worker' \in [Calls -> {"none", "gone"} \cup Live],
           \A d \in Calls : worker'[d] = worker[d] \/ {worker[d], worker'[d]} \subseteq Live,
           result' \in [Calls -> {"none", "reply", "hnsw"}]
    PROVE  IInv'
<1> DEFINE s == SemOf(c)
<1>1. s \in Sems /\ Types /\ NoJobYet /\ WaitersKnown /\ LaneBooks
    BY SemOfType DEF IInv
<1>2. /\ pc' = [pc EXCEPT ![c] = a] /\ SemStep(s, 1)
      /\ \A p : Suspended(sem'[s], p) <=> Suspended(sem[s], p)
    BY ReplyEffect
<1>3. \A d \in Calls : SemOf(d)' = SemOf(d) /\ Lane(d)' = Lane(d)
    BY DEF SemOf, Lane
<1>4. /\ \A r \in Sems \ {s} : sem'[r] = sem[r]
      /\ sem' \in [Sems -> [free : Nat, queue : Seq(Tasks), woken : SUBSET Tasks]]
      /\ \A r \in Sems : IsSemaphore(sem'[r], Tasks)
    BY <1>1, <1>2, SemStepOthers
<1>5. pc' \in [Calls -> {"idle", "wait"} \cup Admitted \cup Answers] /\ pc'[c] = a
    BY <1>1, <1>2 DEF Types
<1>6. Types'
    BY <1>1, <1>4, <1>5 DEF Types
<1>7. WaitersKnown'
    <2> SUFFICES ASSUME NEW r \in Sems, NEW p, Suspended(sem'[r], p)
                 PROVE \/ p \in Calls /\ pc'[p] = "wait" /\ SemOf(p)' = r
                       \/ p \in Holders /\ stage'[p] = r
        BY DEF WaitersKnown
    <2>1. Suspended(sem[r], p)
        BY <1>2, <1>4
    <2>2. p \in Calls /\ pc[p] = "wait" => pc'[p] = "wait"
        BY <1>1, <1>2 DEF Types, Admitted
    <2> QED BY <1>1, <1>3, <2>1, <2>2 DEF WaitersKnown
<1>8. NoJobYet'
    <2> SUFFICES ASSUME NEW d \in Calls, pc'[d] \in {"idle", "wait"}
                 PROVE worker'[d] = "none"
        BY DEF NoJobYet
    <2>1. d # c
        BY <1>5 DEF Answers
    <2> QED BY <1>1, <1>2, <2>1 DEF NoJobYet, Types, Live
<1>9. LaneBooks'
    <2>1. \A l \in Lanes : InLane(l)' = InLane(l)
        BY <1>3 DEF InLane
    <2> QED BY <1>1, <2>1 DEF LaneBooks
<1>10. PermitBooks'
    <2>1. pc[c] \in Admitted /\ pc'[c] \notin Admitted /\ pc' = [pc EXCEPT ![c] = pc'[c]]
        BY <1>2, <1>5 DEF Admitted, Answers
    <2>2. SemStep(SemOf(c), 1) /\ kind' = kind /\ held' = held
        BY <1>2
    <2> QED BY <2>1, <2>2, PermitsOfCall
<1>11. HolderBooks'
    <2>1. SemStep(SemOf(c), 1) /\ kind' = kind /\ held' = held /\ stage' = stage
        BY <1>2
    <2> QED BY <1>1, <1>2, <2>1, HoldersOfCall
<1>12. SavesOut'
    BY DEF IInv, SavesOut
<1> QED
    BY <1>6, <1>7, <1>8, <1>9, <1>10, <1>11, <1>12 DEF IInv

\* A call goes on with its permit in hand, or its job goes on in its thread.
LEMMA InsideKeeps ==
    ASSUME IInv, UNCHANGED <<kind, sem, inflight, stage, held, repairing>>,
           pc' \in [Calls -> {"idle", "wait"} \cup Admitted \cup Answers],
           \A d \in Calls : pc'[d] = pc[d] \/ {pc[d], pc'[d]} \subseteq Admitted,
           worker' \in [Calls -> {"none", "gone"} \cup Live],
           \A d \in Calls : worker'[d] = worker[d] \/ {worker[d], worker'[d]} \subseteq Live,
           result' \in [Calls -> {"none", "reply", "hnsw"}]
    PROVE  IInv'
<1>1. Types /\ NoJobYet /\ WaitersKnown /\ LaneBooks /\ PermitBooks /\ HolderBooks /\ SavesOut
    BY DEF IInv
<1>2. \A d \in Calls : SemOf(d)' = SemOf(d) /\ Lane(d)' = Lane(d)
    BY DEF SemOf, Lane
<1>3. Types'
    BY <1>1 DEF Types
<1>4. \A d \in Calls : pc[d] = "wait" <=> pc'[d] = "wait"
    BY DEF Admitted
<1>5. WaitersKnown'
    BY <1>1, <1>2, <1>4 DEF WaitersKnown, Suspended
<1>6. NoJobYet'
    BY <1>1 DEF NoJobYet, Admitted, Live
<1>7. LaneBooks'
    <2>1. \A l \in Lanes : InLane(l)' = InLane(l)
        BY <1>2 DEF InLane
    <2> QED BY <1>1, <2>1 DEF LaneBooks
<1>8. PermitBooks'
    <2>1. \A s \in Sems : Admits(s)' = Admits(s)
        BY <1>2 DEF Admits
    <2>2. \A s \in Sems : Shares(HeldOf(s))' = Shares(HeldOf(s))
        BY DEF HeldOf, Shares
    <2> QED BY <1>1, <2>1, <2>2 DEF PermitBooks
<1>9. HolderBooks'
    <2>1. \A h \in Holders : Past(h)' = Past(h)
        BY DEF Past
    <2> QED BY <1>1, <2>1 DEF HolderBooks, BooksOf, Suspended
<1>10. SavesOut'
    BY <1>1 DEF SavesOut
<1> QED
    BY <1>3, <1>5, <1>6, <1>7, <1>8, <1>9, <1>10 DEF IInv

\* A thread has finished and its slot is released.
LEMMA ReleaseSlotKeeps ==
    ASSUME IInv, NEW c \in Calls, ReleaseSlot(c)
    PROVE  IInv'
<1>1. Types /\ NoJobYet /\ WaitersKnown /\ LaneBooks /\ PermitBooks /\ HolderBooks /\ SavesOut
    BY DEF IInv
<1>2. /\ worker[c] = "returned" /\ worker' = [worker EXCEPT ![c] = "gone"]
      /\ inflight' = [inflight EXCEPT ![Lane(c)] = Max({0, @ - 1})]
      /\ UNCHANGED <<kind, sem, pc, result, stage, held, repairing>>
    BY DEF ReleaseSlot, holderVars
<1>3. \A d \in Calls : SemOf(d)' = SemOf(d) /\ Lane(d)' = Lane(d)
    BY <1>2 DEF SemOf, Lane
<1>4. Lane(c) \in Lanes /\ inflight[Lane(c)] \in Nat
    BY <1>1, SemOfType DEF Types
<1>5. \A l \in Lanes : InLane(l)' = IF l = Lane(c) THEN InLane(l) \ {c} ELSE InLane(l)
    BY <1>1, <1>2, <1>3 DEF InLane, Types, Live
<1>6. c \in InLane(Lane(c))
    BY <1>2 DEF InLane, Live
<1>7. IsFiniteSet(InLane(Lane(c))) /\ Cardinality(InLane(Lane(c))) = inflight[Lane(c)]
    BY <1>1, <1>4 DEF LaneBooks
<1>8. /\ IsFiniteSet(InLane(Lane(c)) \ {c})
      /\ Cardinality(InLane(Lane(c)) \ {c}) = inflight[Lane(c)] - 1
      /\ inflight[Lane(c)] - 1 \in Nat
    <2>1. IsFiniteSet(InLane(Lane(c)) \ {c}) /\ Cardinality(InLane(Lane(c)) \ {c}) = inflight[Lane(c)] - 1
        BY <1>6, <1>7, FS_RemoveElement
    <2> QED BY <2>1, FS_CardinalityType
<1>9. inflight' = [inflight EXCEPT ![Lane(c)] = inflight[Lane(c)] - 1]
    <2>1. Max({0, inflight[Lane(c)] - 1}) = inflight[Lane(c)] - 1
        BY <1>8, MaxOfTwo
    <2> QED BY <1>2, <2>1
<1>10. Types'
    BY <1>1, <1>2, <1>4, <1>8, <1>9 DEF Types
<1>11. WaitersKnown'
    BY <1>1, <1>2, <1>3 DEF WaitersKnown, Suspended
<1>12. NoJobYet'
    BY <1>1, <1>2 DEF NoJobYet, Types
<1>13. LaneBooks'
    <2> SUFFICES ASSUME NEW l \in Lanes
                 PROVE /\ IsFiniteSet(InLane(l)') /\ inflight'[l] = Cardinality(InLane(l)')
                       /\ inflight'[l] <= Bound[l]
        BY DEF LaneBooks
    <2>1. /\ IsFiniteSet(InLane(l)) /\ inflight[l] = Cardinality(InLane(l)) /\ inflight[l] <= Bound[l]
          /\ inflight[l] \in Nat /\ Bound[l] \in Nat
        BY <1>1, Sizes DEF LaneBooks, Types
    <2>2. CASE l = Lane(c)
        <3>1. inflight'[l] = inflight[l] - 1
            BY <1>1, <1>9, <2>2 DEF Types
        <3> QED BY <1>5, <1>8, <2>1, <2>2, <3>1
    <2>3. CASE l # Lane(c)
        <3>1. inflight'[l] = inflight[l]
            BY <1>1, <1>9, <2>3 DEF Types
        <3> QED BY <1>5, <2>1, <2>3, <3>1
    <2> QED BY <2>2, <2>3
<1>14. PermitBooks'
    <2>1. \A s \in Sems : Admits(s)' = Admits(s)
        BY <1>2, <1>3 DEF Admits
    <2>2. \A s \in Sems : Shares(HeldOf(s))' = Shares(HeldOf(s))
        BY <1>2 DEF HeldOf, Shares
    <2> QED BY <1>1, <1>2, <2>1, <2>2 DEF PermitBooks
<1>15. HolderBooks'
    <2>1. \A h \in Holders : Past(h)' = Past(h)
        BY <1>2 DEF Past
    <2> QED BY <1>1, <1>2, <2>1 DEF HolderBooks, BooksOf, Suspended
<1>16. SavesOut'
    BY <1>1, <1>2 DEF SavesOut, Types, Live
<1> QED
    BY <1>10, <1>11, <1>12, <1>13, <1>14, <1>15, <1>16 DEF IInv

\* Every other step of a call and of its thread.
LEMMA CallKeeps ==
    ASSUME IInv, NEW c \in Calls,
           Arrive(c) \/ Loop(c) \/ WorkerStarts(c) \/ WorkerReturns(c) \/ RetryReturns(c)
    PROVE  IInv'
<1>1. Types
    BY DEF IInv
<1> USE DEF holderVars
<1>2. CASE Arrive(c) \/ WakeCall(c)
    BY <1>2, EntryKeeps
<1>3. CASE ReleaseSlot(c)
    BY <1>3, ReleaseSlotKeeps
<1>4. CASE Answer(c)
    <2>1. CASE Reply(c, "reply")
        <3>1. pc[c] \in Admitted /\ "reply" \in Answers /\ UNCHANGED <<kind, inflight, stage, held, repairing, worker, result>>
            BY <1>4 DEF Answer, Admitted, Answers
        <3> QED BY <1>1, <2>1, <3>1, ReplyKeeps DEF Types
    <2>2. CASE pc' = [pc EXCEPT ![c] = "repair"] /\ UNCHANGED sem
        <3>1. pc[c] = "await" /\ UNCHANGED <<kind, inflight, stage, held, repairing, worker, result>>
            BY <1>4 DEF Answer
        <3>2. /\ pc' \in [Calls -> {"idle", "wait"} \cup Admitted \cup Answers]
              /\ \A d \in Calls : pc'[d] = pc[d] \/ {pc[d], pc'[d]} \subseteq Admitted
            BY <1>1, <2>2, <3>1 DEF Types, Admitted
        <3> QED BY <1>1, <2>2, <3>1, <3>2, InsideKeeps DEF Types
    <2> QED BY <1>4, <2>1, <2>2 DEF Answer
<1>5. CASE Timeout(c)
    <2>1. /\ pc[c] = "await" /\ worker[c] \in Live /\ Reply(c, "timeout")
          /\ worker' = [worker EXCEPT ![c] = IF @ = "queued" THEN "returned" ELSE @]
          /\ UNCHANGED <<kind, inflight, stage, held, repairing, result>>
        BY <1>5 DEF Timeout
    <2>2. /\ worker' \in [Calls -> {"none", "gone"} \cup Live]
          /\ \A d \in Calls : worker'[d] = worker[d] \/ {worker[d], worker'[d]} \subseteq Live
        BY <1>1, <2>1 DEF Types, Live
    <2>3. pc[c] \in Admitted /\ "timeout" \in Answers
        BY <2>1 DEF Admitted, Answers
    <2> QED BY <1>1, <2>1, <2>2, <2>3, ReplyKeeps DEF Types
<1>6. CASE RepairReturns(c)
    <2>1. pc[c] = "repair" /\ UNCHANGED <<kind, inflight, stage, held, repairing, worker, result>>
        BY <1>6 DEF RepairReturns
    <2>2. CASE Reply(c, "reply")
        <3>1. pc[c] \in Admitted /\ "reply" \in Answers
            BY <2>1 DEF Admitted, Answers
        <3> QED BY <1>1, <2>1, <2>2, <3>1, ReplyKeeps DEF Types
    <2>3. CASE pc' = [pc EXCEPT ![c] = "retry"] /\ UNCHANGED sem
        <3>1. /\ pc' \in [Calls -> {"idle", "wait"} \cup Admitted \cup Answers]
              /\ \A d \in Calls : pc'[d] = pc[d] \/ {pc[d], pc'[d]} \subseteq Admitted
            BY <1>1, <2>1, <2>3 DEF Types, Admitted
        <3> QED BY <1>1, <2>1, <2>3, <3>1, InsideKeeps DEF Types
    <2> QED BY <1>6, <2>2, <2>3 DEF RepairReturns
<1>7. CASE RetryReturns(c)
    <2>1. /\ pc[c] \in Admitted /\ "reply" \in Answers /\ Reply(c, "reply")
          /\ UNCHANGED <<kind, inflight, stage, held, repairing, worker, result>>
        BY <1>7 DEF RetryReturns, Admitted, Answers
    <2> QED BY <1>1, <2>1, ReplyKeeps DEF Types
<1>8. CASE WorkerStarts(c)
    <2>1. /\ worker[c] = "queued" /\ worker' = [worker EXCEPT ![c] = "running"]
          /\ UNCHANGED <<kind, sem, inflight, pc, result, stage, held, repairing>>
        BY <1>8 DEF WorkerStarts
    <2>2. /\ worker' \in [Calls -> {"none", "gone"} \cup Live]
          /\ \A d \in Calls : worker'[d] = worker[d] \/ {worker[d], worker'[d]} \subseteq Live
        BY <1>1, <2>1 DEF Types, Live
    <2> QED BY <1>1, <2>1, <2>2, InsideKeeps DEF Types
<1>9. CASE WorkerReturns(c)
    <2>1. /\ worker[c] = "running" /\ worker' = [worker EXCEPT ![c] = "returned"]
          /\ UNCHANGED <<kind, sem, inflight, pc, stage, held, repairing>>
          /\ result' \in [Calls -> {"none", "reply", "hnsw"}]
        BY <1>1, <1>9 DEF WorkerReturns, Types
    <2>2. /\ worker' \in [Calls -> {"none", "gone"} \cup Live]
          /\ \A d \in Calls : worker'[d] = worker[d] \/ {worker[d], worker'[d]} \subseteq Live
        BY <1>1, <2>1 DEF Types, Live
    <2> QED BY <1>1, <2>1, <2>2, InsideKeeps DEF Types
<1> QED
    BY <1>2, <1>3, <1>4, <1>5, <1>6, <1>7, <1>8, <1>9 DEF Loop

-----------------------------------------------------------------------------
(* ... and by the steps of holders                                         *)

\* The permits of a semaphore that holders have, when one holder's share changes.
LEMMA SharesOfHolder ==
    ASSUME Types, NEW h \in Holders, NEW r \in Sems, held' \in [Holders -> [Sems -> Nat]],
           \A k \in Holders \ {h} : held'[k] = held[k], IsFiniteSet(Shares(HeldOf(r)))
    PROVE  /\ IsFiniteSet(Shares(HeldOf(r)'))
           /\ Cardinality(Shares(HeldOf(r)')) = Cardinality(Shares(HeldOf(r))) - held[h][r] + held'[h][r]
<1> DEFINE f == HeldOf(r)
           g == HeldOf(r)'
<1>1. /\ f \in [Holders -> Nat] /\ g \in [Holders -> Nat] /\ IsFiniteSet(Shares(f))
      /\ \A k \in Holders \ {h} : g[k] = f[k]
      /\ f[h] = held[h][r] /\ g[h] = held'[h][r]
    BY DEF HeldOf, Types
<1> HIDE DEF f, g
<1>2. IsFiniteSet(Shares(g)) /\ Cardinality(Shares(g)) = Cardinality(Shares(f)) - f[h] + g[h]
    <2>1. \A F, G \in [Holders -> Nat] :
            (\A k \in Holders \ {h} : G[k] = F[k]) /\ IsFiniteSet(Shares(F)) =>
                IsFiniteSet(Shares(G)) /\ Cardinality(Shares(G)) = Cardinality(Shares(F)) - F[h] + G[h]
        <3> SUFFICES ASSUME NEW F \in [Holders -> Nat], NEW G \in [Holders -> Nat],
                            \A k \in Holders \ {h} : G[k] = F[k], IsFiniteSet(Shares(F))
                     PROVE  /\ IsFiniteSet(Shares(G))
                            /\ Cardinality(Shares(G)) = Cardinality(Shares(F)) - F[h] + G[h]
            OBVIOUS
        <3> QED BY SharesExcept
    <2> QED BY <1>1, <2>1
<1> QED
    BY <1>1, <1>2 DEF f, g

\* A holder takes or gives back permits and goes on or waits, by the book.
LEMMA HolderStepKeeps ==
    ASSUME IInv, NEW h \in Holders,
           kind' = kind, inflight' = inflight, pc' = pc, worker' = worker, result' = result,
           repairing' \in BOOLEAN,
           sem' \in [Sems -> [free : Nat, queue : Seq(Tasks), woken : SUBSET Tasks]],
           stage' = [stage EXCEPT ![h] = stage'[h]], stage'[h] \in Stages,
           held' = [held EXCEPT ![h] = held'[h]], held'[h] \in [Sems -> Nat],
           \A s \in Sems :
              /\ IsSemaphore(sem'[s], Tasks)
              /\ Sum(sem'[s]) = Sum(sem[s]) + (held[h][s] - held'[h][s])
              /\ \A p : p # h => (Suspended(sem'[s], p) <=> Suspended(sem[s], p))
              /\ Suspended(sem'[s], h) => stage'[h] = s,
           BooksOf(h)',
           kind[h] # "background" /\ stage'[h] \in {"mine", "inside"} =>
              \/ stage[h] \in {"mine", "inside"}
              \/ inflight["save"] = 0
    PROVE  IInv'
<1>1. Types /\ NoJobYet /\ WaitersKnown /\ LaneBooks /\ PermitBooks /\ HolderBooks /\ SavesOut
    BY DEF IInv
<1>2. \A d \in Calls : SemOf(d)' = SemOf(d) /\ Lane(d)' = Lane(d)
    BY DEF SemOf, Lane
<1>3. /\ \A g \in Holders \ {h} : stage'[g] = stage[g] /\ held'[g] = held[g]
      /\ stage' \in [Holders -> Stages] /\ held' \in [Holders -> [Sems -> Nat]]
    BY <1>1 DEF Types
<1>4. Types'
    BY <1>1, <1>3 DEF Types
<1>5. WaitersKnown'
    <2> SUFFICES ASSUME NEW r \in Sems, NEW p, Suspended(sem'[r], p)
                 PROVE \/ p \in Calls /\ pc'[p] = "wait" /\ SemOf(p)' = r
                       \/ p \in Holders /\ stage'[p] = r
        BY DEF WaitersKnown
    <2>1. CASE p = h
        BY <2>1
    <2>2. CASE p # h
        <3>1. Suspended(sem[r], p)
            BY <2>2
        <3> QED BY <1>1, <1>2, <1>3, <2>2, <3>1 DEF WaitersKnown
    <2> QED BY <2>1, <2>2
<1>6. NoJobYet'
    BY <1>1 DEF NoJobYet
<1>7. \A l \in Lanes : InLane(l)' = InLane(l)
    BY <1>2 DEF InLane
<1>8. LaneBooks'
    BY <1>1, <1>7 DEF LaneBooks
<1>9. PermitBooks'
    <2> SUFFICES ASSUME NEW r \in Sems
                 PROVE  /\ IsFiniteSet(Admits(r)') /\ IsFiniteSet(Shares(HeldOf(r)'))
                        /\ Cap[r] = sem'[r].free + Cardinality(sem'[r].woken)
                                     + Cardinality(Admits(r)') + Cardinality(Shares(HeldOf(r)'))
        BY DEF PermitBooks
    <2>1. Admits(r)' = Admits(r)
        BY <1>2 DEF Admits
    <2>3. IsFiniteSet(Shares(HeldOf(r))) /\ IsFiniteSet(Admits(r))
        BY <1>1 DEF PermitBooks
    <2>4. /\ IsFiniteSet(Shares(HeldOf(r)'))
          /\ Cardinality(Shares(HeldOf(r)')) = Cardinality(Shares(HeldOf(r))) - held[h][r] + held'[h][r]
        BY <1>1, <1>3, <2>3, SharesOfHolder
    <2>5. /\ Sum(sem'[r]) = Sum(sem[r]) + (held[h][r] - held'[h][r]) /\ Sum(sem[r]) \in Nat
          /\ held[h][r] \in Nat /\ held'[h][r] \in Nat
        BY <1>1, SumType DEF Types
    <2>6. Cardinality(Shares(HeldOf(r))) \in Nat /\ Cardinality(Admits(r)) \in Nat
        BY <2>3, FS_CardinalityType
    <2>7. Cap[r] = Sum(sem[r]) + Cardinality(Admits(r)) + Cardinality(Shares(HeldOf(r)))
        BY <1>1 DEF PermitBooks, Sum
    <2>8. Cap[r] = Sum(sem'[r]) + Cardinality(Admits(r)) + Cardinality(Shares(HeldOf(r)'))
        BY <2>4, <2>5, <2>6, <2>7
    <2> QED BY <2>1, <2>3, <2>4, <2>8 DEF Sum
<1>10. HolderBooks'
    <2> SUFFICES ASSUME NEW g \in Holders PROVE BooksOf(g)'
        BY DEF HolderBooks
    <2>1. CASE g = h
        BY <2>1
    <2>2. CASE g # h
        <3>1. BooksOf(g) /\ stage'[g] = stage[g] /\ held'[g] = held[g]
            BY <1>1, <1>3, <2>2 DEF HolderBooks
        <3>2. Past(g)' = Past(g)
            BY <3>1 DEF Past
        <3>3. \A s \in Sems : Suspended(sem'[s], g) <=> Suspended(sem[s], g)
            BY <2>2
        <3> QED BY <3>1, <3>2, <3>3 DEF BooksOf
    <2> QED BY <2>1, <2>2
<1>11. SavesOut'
    <2> SUFFICES ASSUME NEW g \in Holders, kind[g] # "background", stage'[g] \in {"mine", "inside"},
                        NEW c \in Calls, kind[c] = "save"
                 PROVE worker[c] \notin Live
        BY DEF SavesOut
    <2>1. CASE stage[g] \in {"mine", "inside"}
        BY <1>1, <2>1 DEF SavesOut
    <2>2. CASE stage[g] \notin {"mine", "inside"}
        <3>1. inflight["save"] = 0
            BY <1>3, <2>2
        <3>2. "save" \in Lanes
            BY DEF Lanes
        <3>3. IsFiniteSet(InLane("save")) /\ Cardinality(InLane("save")) = 0
            BY <1>1, <3>1, <3>2 DEF LaneBooks
        <3>4. InLane("save") = {}
            BY <3>3, FS_EmptySet
        <3> QED BY <3>4 DEF InLane, Lane
    <2> QED BY <2>1, <2>2
<1> QED
    BY <1>4, <1>5, <1>6, <1>8, <1>9, <1>10, <1>11 DEF IInv

\* A holder goes on without touching a permit.
LEMMA MoveKeeps ==
    ASSUME IInv, NEW h \in Holders, NEW a \in Stages,
           UNCHANGED <<kind, sem, inflight, pc, worker, result, held>>,
           repairing' \in BOOLEAN, stage' = [stage EXCEPT ![h] = a],
           \/ stage[h] = "idle" /\ a = "done"
           \/ stage[h] = "idle" /\ a = "mine" /\ kind[h] = "background"
           \/ stage[h] = "idle" /\ a = "read" /\ kind[h] # "background"
           \/ stage[h] = "drain" /\ a = "mine" /\ inflight["save"] = 0
    PROVE  IInv'
<1>1. Types /\ WaitersKnown /\ BooksOf(h)
    BY DEF IInv, HolderBooks
<1>2. stage'[h] = a /\ held'[h] = held[h] /\ stage[h] \notin Sems
    BY <1>1 DEF Types, Sems
<1>3. \A s \in Sems : ~Suspended(sem[s], h)
    BY <1>1, <1>2, TasksApart DEF WaitersKnown
<1>4. /\ stage' = [stage EXCEPT ![h] = stage'[h]] /\ held' = [held EXCEPT ![h] = held'[h]]
      /\ held'[h] \in [Sems -> Nat]
    BY <1>1, <1>2 DEF Types
<1>5. \A s \in Sems :
        /\ IsSemaphore(sem'[s], Tasks)
        /\ Sum(sem'[s]) = Sum(sem[s]) + (held[h][s] - held'[h][s])
        /\ \A p : p # h => (Suspended(sem'[s], p) <=> Suspended(sem[s], p))
        /\ Suspended(sem'[s], h) => stage'[h] = s
    <2> SUFFICES ASSUME NEW s \in Sems
                 PROVE  Sum(sem[s]) = Sum(sem[s]) + (held[h][s] - held[h][s])
        BY <1>1, <1>2, <1>3 DEF Types
    <2>1. Sum(sem[s]) \in Nat /\ held[h][s] \in Nat
        BY <1>1, SumType DEF Types
    <2> QED BY <2>1
<1>6. BooksOf(h)'
    <2>1. \A s \in Sems : Slots[s] \in Nat \ {0} /\ held[h][s] \in Nat
        BY <1>1, Sizes DEF Types
    <2>2. \A s \in Sems : s \in Past(h) => held[h][s] = Slots[s]
        BY <1>1 DEF BooksOf
    <2>3. \A s \in Sems : s \notin Past(h) => held[h][s] = 0
        BY <1>1, <1>2 DEF BooksOf
    <2>4. Past(h) = IF stage[h] = "idle" THEN {} ELSE {"read", "write", "save"}
        BY DEF Past
    <2>5. kind[h] = "background" => stage[h] = "idle"
        BY <1>1 DEF BooksOf
    <2>6. Past(h)' = Past(h)
        BY <1>2, <2>4, <2>5 DEF Past
    <2>7. \A s \in Sems : stage'[h] = s => s \notin Past(h)
        BY <1>2, <2>4
    <2> QED BY <1>2, <2>1, <2>2, <2>3, <2>5, <2>6, <2>7 DEF BooksOf
<1>7. sem' \in [Sems -> [free : Nat, queue : Seq(Tasks), woken : SUBSET Tasks]]
    BY <1>1 DEF Types
<1>8. kind[h] # "background" /\ stage'[h] \in {"mine", "inside"} =>
          stage[h] \in {"mine", "inside"} \/ inflight["save"] = 0
    BY <1>2
<1> QED
    BY <1>2, <1>4, <1>5, <1>6, <1>7, <1>8, HolderStepKeeps

\* A holder gives back everything, from inside or when the saves did not drain.
LEMMA LeaveKeeps ==
    ASSUME IInv, NEW h \in Holders, stage[h] \in {"drain", "inside"}, ReleaseAll(h),
           UNCHANGED <<kind, inflight, pc, worker, result>>
    PROVE  IInv'
<1>1. Types /\ WaitersKnown
    BY DEF IInv
<1>2. /\ held' = [held EXCEPT ![h] = [s \in Sems |-> 0]] /\ stage' = [stage EXCEPT ![h] = "done"]
      /\ repairing' \in BOOLEAN
    BY <1>1 DEF ReleaseAll, Types
<1>3. stage'[h] = "done" /\ held'[h] = [s \in Sems |-> 0]
    BY <1>1, <1>2 DEF Types
<1>4. \A s \in Sems : ~Suspended(sem[s], h)
    BY <1>1, TasksApart DEF WaitersKnown, Sems
<1>5. \A s \in Sems :
        /\ IsSemaphore(sem'[s], Tasks)
        /\ Sum(sem'[s]) = Sum(sem[s]) + (held[h][s] - held'[h][s])
        /\ \A p : p # h => (Suspended(sem'[s], p) <=> Suspended(sem[s], p))
        /\ Suspended(sem'[s], h) => stage'[h] = s
    <2> SUFFICES ASSUME NEW s \in Sems
                 PROVE  /\ IsSemaphore(sem'[s], Tasks)
                        /\ Sum(sem'[s]) = Sum(sem[s]) + (held[h][s] - held'[h][s])
                        /\ \A p : Suspended(sem'[s], p) <=> Suspended(sem[s], p)
        BY <1>4
    <2>1. held[h][s] \in Nat /\ held'[h][s] = 0
        BY <1>1, <1>3 DEF Types
    <2>2. held[h][s] - held'[h][s] = held[h][s]
        BY <2>1
    <2> QED BY <2>2, ReleaseEffect
<1>6. BooksOf(h)'
    <2>1. Past(h)' = {}
        BY <1>3 DEF Past
    <2> QED BY <1>3, <2>1 DEF BooksOf, Sems
<1>7. sem' \in [Sems -> [free : Nat, queue : Seq(Tasks), woken : SUBSET Tasks]]
    BY ReleaseEffect
<1>8. stage'[h] \in Stages /\ stage'[h] \notin {"mine", "inside"} /\ held'[h] \in [Sems -> Nat]
    BY <1>3 DEF Stages
<1>9. stage' = [stage EXCEPT ![h] = stage'[h]] /\ held' = [held EXCEPT ![h] = held'[h]]
    BY <1>1, <1>2, <1>3 DEF Types
<1> QED
    BY <1>2, <1>5, <1>6, <1>7, <1>8, <1>9, HolderStepKeeps

\* A holder takes permits of the semaphore it is at.
LEMMA AcquireKeeps ==
    ASSUME IInv, NEW h \in Holders, Acquire(h) \/ WakeHolder(h)
    PROVE  IInv'
<1> DEFINE s == stage[h]
<1>1. Types /\ WaitersKnown /\ BooksOf(h)
    BY DEF IInv, HolderBooks
<1>2. s \in Sems /\ UNCHANGED <<kind, inflight, pc, worker, result, repairing>>
    BY AcquireEffect
<1>3. PICK v \in Nat :
        /\ held' = [held EXCEPT ![h][s] = v]
        /\ SemStep(s, held[h][s] - v)
        /\ \/ /\ v = Slots[s] /\ stage' = [stage EXCEPT ![h] = AfterStage[s]]
              /\ \A p : Suspended(sem'[s], p) <=> Suspended(sem[s], p) /\ p # h
           \/ /\ v < Slots[s] /\ stage' = stage
              /\ \A p : Suspended(sem'[s], p) <=> Suspended(sem[s], p) \/ p = h
    BY AcquireEffect
<1>4. /\ held'[h] \in [Sems -> Nat] /\ held'[h][s] = v
      /\ \A r \in Sems \ {s} : held'[h][r] = held[h][r]
      /\ held' = [held EXCEPT ![h] = held'[h]]
    BY <1>1, <1>2, <1>3 DEF Types
<1>5. /\ sem' \in [Sems -> [free : Nat, queue : Seq(Tasks), woken : SUBSET Tasks]]
      /\ \A r \in Sems : IsSemaphore(sem'[r], Tasks)
      /\ \A r \in Sems \ {s} : sem'[r] = sem[r]
    BY <1>1, <1>2, <1>3, SemStepOthers
<1>6. \A r \in Sems \ {s} : ~Suspended(sem[r], h)
    BY <1>1, TasksApart DEF WaitersKnown
<1>7. stage' = [stage EXCEPT ![h] = stage'[h]] /\ stage'[h] \in Stages
    BY <1>1, <1>2, <1>3 DEF Types, AfterStage, Stages, Sems
<1>8. stage'[h] = IF v = Slots[s] THEN AfterStage[s] ELSE s
    BY <1>1, <1>2, <1>3, Sizes DEF Types
<1>9. ASSUME NEW r \in Sems
      PROVE /\ IsSemaphore(sem'[r], Tasks)
            /\ Sum(sem'[r]) = Sum(sem[r]) + (held[h][r] - held'[h][r])
            /\ \A p : p # h => (Suspended(sem'[r], p) <=> Suspended(sem[r], p))
            /\ Suspended(sem'[r], h) => stage'[h] = r
    <2>1. CASE r = s
        <3>1. Sum(sem'[r]) = Sum(sem[r]) + (held[h][r] - held'[h][r])
            BY <1>3, <1>4, <2>1 DEF SemStep
        <3> QED BY <1>3, <1>5, <2>1, <3>1
    <2>2. CASE r # s
        <3>1. Sum(sem[r]) \in Nat /\ held[h][r] \in Nat /\ held'[h][r] = held[h][r]
            BY <1>1, <1>4, <2>2, SumType DEF Types
        <3>2. Sum(sem'[r]) = Sum(sem[r]) + (held[h][r] - held'[h][r])
            BY <1>5, <2>2, <3>1
        <3> QED BY <1>5, <1>6, <2>2, <3>2
    <2> QED BY <2>1, <2>2
<1>10. BooksOf(h)'
    <2>1. CASE v = Slots[s]
        <3>1. stage'[h] = AfterStage[s]
            BY <1>8, <2>1
        <3>2. Past(h)' = Past(h) \cup {s} /\ stage'[h] # s /\ stage'[h] \notin Past(h) /\ s \notin Past(h)
            BY <1>1, <1>2, <3>1 DEF Past, BooksOf, AfterStage, Sems
        <3>3. \A r \in Sems : held'[h][r] = IF r \in Past(h)' THEN Slots[r] ELSE 0
            BY <1>1, <1>4, <2>1, <3>2 DEF BooksOf
        <3>4. kind[h] = "background" => stage'[h] = "inside"
            BY <1>1, <1>2, <3>1 DEF BooksOf, AfterStage, Sems
        <3>5. \A r \in Sems : stage'[h] = r => r \notin Past(h)'
            BY <3>2
        <3> QED BY <1>2, <3>3, <3>4, <3>5, Sizes DEF BooksOf
    <2>2. CASE v < Slots[s] /\ stage' = stage
                /\ \A p : Suspended(sem'[s], p) <=> Suspended(sem[s], p) \/ p = h
        <3>1. Past(h)' = Past(h)
            BY <1>2, <2>2 DEF Past
        <3>2. s \notin Past(h)
            BY <1>2 DEF Past, Sems
        <3> QED BY <1>1, <1>2, <1>4, <2>2, <3>1, <3>2 DEF BooksOf
    <2> QED BY <1>3, <2>1, <2>2
<1>11. kind[h] # "background" /\ stage'[h] \in {"mine", "inside"} => stage[h] \in {"mine", "inside"}
    BY <1>2, <1>8 DEF AfterStage, Sems
<1>12. repairing' \in BOOLEAN
    BY <1>1, <1>2 DEF Types
<1> HIDE DEF s
<1> QED
    BY <1>2, <1>4, <1>5, <1>7, <1>9, <1>10, <1>11, <1>12, HolderStepKeeps

-----------------------------------------------------------------------------

\* The invariant holds in every state a run of the daemon reaches.
THEOREM Invariance == Spec => []IInv
<1>1. Init => IInv
    <2> SUFFICES ASSUME Init PROVE IInv
        OBVIOUS
    <2> USE DEF Init
    <2>1. \A s \in Sems : /\ IsSemaphore(sem[s], Tasks) /\ sem[s].free = Cap[s]
                          /\ Cardinality(sem[s].woken) = 0 /\ \A p : ~Suspended(sem[s], p)
        BY Sizes, NewIsSemaphore
    <2>2. sem \in [Sems -> [free : Nat, queue : Seq(Tasks), woken : SUBSET Tasks]]
        BY <2>1 DEF IsSemaphore
    <2>3. Types
        BY <2>1, <2>2 DEF Types, Stages, Admitted, Answers, Live
    <2>4. WaitersKnown /\ NoJobYet
        BY <2>1 DEF WaitersKnown, NoJobYet
    <2>5. LaneBooks
        <3>1. \A l \in Lanes : InLane(l) = {}
            BY DEF InLane, Live
        <3> QED BY <3>1, FS_EmptySet, Sizes DEF LaneBooks
    <2>6. PermitBooks
        <3> SUFFICES ASSUME NEW s \in Sems
                     PROVE /\ IsFiniteSet(Admits(s)) /\ IsFiniteSet(Shares(HeldOf(s)))
                           /\ Cap[s] = sem[s].free + Cardinality(sem[s].woken)
                                         + Cardinality(Admits(s)) + Cardinality(Shares(HeldOf(s)))
            BY DEF PermitBooks
        <3>1. Admits(s) = {}
            BY DEF Admits, Admitted
        <3>2. HeldOf(s) \in [Holders -> Nat] /\ \A h \in Holders : HeldOf(s)[h] = 0
            BY DEF HeldOf
        <3>3. Shares(HeldOf(s)) = {}
            BY <3>2, NoShares
        <3>4. Cap[s] \in Nat /\ sem[s].free = Cap[s] /\ Cardinality(sem[s].woken) = 0
            BY <2>1, Sizes
        <3> QED BY <3>1, <3>3, <3>4, FS_EmptySet
    <2>7. HolderBooks
        BY Sizes DEF HolderBooks, BooksOf, Past, Sems
    <2>8. SavesOut
        BY DEF SavesOut
    <2> QED BY <2>3, <2>4, <2>5, <2>6, <2>7, <2>8 DEF IInv
<1>2. IInv /\ [Next]_vars => IInv'
    <2> SUFFICES ASSUME IInv, [Next]_vars PROVE IInv'
        OBVIOUS
    <2>1. Types
        BY DEF IInv
    <2>2. ASSUME NEW c \in Calls,
                 Arrive(c) \/ Loop(c) \/ WorkerStarts(c) \/ WorkerReturns(c) \/ RetryReturns(c)
          PROVE IInv'
        BY <2>2, CallKeeps
    <2>3. ASSUME NEW h \in Holders, Refused(h) \/ StartHold(h) \/ Hold(h)
          PROVE IInv'
        <3> USE DEF callVars
        <3>1. CASE Refused(h)
            BY <2>1, <3>1, MoveKeeps DEF Refused, Types, Stages
        <3>2. CASE StartHold(h)
            <4>1. CASE stage' = [stage EXCEPT ![h] = "mine"] /\ kind[h] = "background" /\ UNCHANGED repairing
                BY <2>1, <3>2, <4>1, MoveKeeps DEF StartHold, Types, Stages, Sems
            <4>2. CASE stage' = [stage EXCEPT ![h] = "read"] /\ kind[h] # "background"
                        /\ repairing' = (kind[h] = "rebuild")
                BY <2>1, <3>2, <4>2, MoveKeeps DEF StartHold, Types, Stages, Sems
            <4> QED BY <3>2, <4>1, <4>2 DEF StartHold
        <3>3. CASE Acquire(h) \/ WakeHolder(h)
            BY <3>3, AcquireKeeps
        <3>4. CASE Drained(h)
            BY <2>1, <3>4, MoveKeeps DEF Drained, Types, Stages, Sems
        <3>5. CASE DrainDeadline(h)
            BY <3>5, LeaveKeeps DEF DrainDeadline
        <3>6. CASE Leave(h)
            BY <3>6, LeaveKeeps DEF Leave
        <3> QED BY <2>3, <3>1, <3>2, <3>3, <3>4, <3>5, <3>6 DEF Hold
    <2>4. CASE UNCHANGED vars
        BY <2>1, <2>4, InsideKeeps DEF vars, Types
    <2> QED BY <2>2, <2>3, <2>4 DEF Next
<1> QED
    BY <1>1, <1>2, PTL DEF Spec

\* Every variable of the gate keeps its type; no semaphore has more permits
\* free than it was made with.
THEOREM TypeCorrect == Spec => []TypeOK
<1>1. IInv => TypeOK
    <2> SUFFICES ASSUME IInv PROVE TypeOK
        OBVIOUS
    <2>1. Types /\ PermitBooks
        BY DEF IInv
    <2>2. ASSUME NEW s \in Sems
          PROVE sem[s].free \in 0..Cap[s]
        <3>1. /\ sem[s].free \in Nat /\ Cardinality(sem[s].woken) \in Nat /\ Cap[s] \in Nat
              /\ Cardinality(Admits(s)) \in Nat /\ Cardinality(Shares(HeldOf(s))) \in Nat
            BY <2>1, SumType, Sizes, FS_CardinalityType DEF Types, PermitBooks, IsSemaphore
        <3> QED BY <2>1, <3>1 DEF PermitBooks
    <2> QED BY <2>1, <2>2 DEF TypeOK, Types, Tasks
<1> QED
    BY <1>1, Invariance, PTL

\* Both books are right: a lane counts its unfinished threads and stays within
\* its bound, and every permit is free, under way to a woken task, or held.
THEOREM AccountingCorrect == Spec => []Accounting
<1>1. IInv => Accounting
    BY DEF IInv, LaneBooks, PermitBooks, Accounting, LaneAccounting, PermitsConserved,
           Admits, InLane, HeldOf
<1> QED
    BY <1>1, Invariance, PTL

\* Inside an exclusive hold no save is being written, whatever timed out before.
THEOREM NoSaveInside == Spec => []NoSaveInsideHold
<1>1. IInv => NoSaveInsideHold
    BY DEF IInv, SavesOut, NoSaveInsideHold, Exclusive
<1> QED
    BY <1>1, Invariance, PTL

\* A hold that claims no fewer permits than there are has them all.
LEMMA HoldHasAll ==
    ASSUME ReadCap <= Slots["read"], WriteCap <= Slots["write"]
    PROVE  IInv => HoldShutsOut
<1>1. ASSUME IInv, NEW h \in Holders, Exclusive(h), NEW s \in Sems
      PROVE  /\ Admits(s) = {} /\ \A g \in Holders \ {h} : held[g][s] = 0
    <2>1. Types /\ PermitBooks /\ BooksOf(h)
        BY <1>1 DEF IInv, HolderBooks
    <2>2. held[h][s] = Slots[s] /\ Cap[s] <= Slots[s] /\ Slots[s] \in Nat /\ Cap[s] \in Nat
        <3>1. held[h][s] = Slots[s]
            BY <1>1, <2>1 DEF BooksOf, Past, Exclusive
        <3>2. Cap[s] <= Slots[s]
            BY Sizes, GateAssumption DEF Cap, Sems
        <3> QED BY <3>1, <3>2, Sizes
    <2>3. /\ HeldOf(s) \in [Holders -> Nat] /\ HeldOf(s)[h] = held[h][s]
          /\ \A g \in Holders : HeldOf(s)[g] = held[g][s]
        BY <2>1 DEF HeldOf, Types
    <2>4. IsFiniteSet(Shares(HeldOf(s))) /\ IsFiniteSet(Admits(s))
        BY <2>1 DEF PermitBooks
    <2>5. /\ HeldOf(s)[h] <= Cardinality(Shares(HeldOf(s)))
          /\ \A g \in Holders \ {h} : HeldOf(s)[h] + HeldOf(s)[g] <= Cardinality(Shares(HeldOf(s)))
        BY <2>3, <2>4, SharesBound
    <2>6. Cap[s] = Sum(sem[s]) + Cardinality(Admits(s)) + Cardinality(Shares(HeldOf(s)))
        BY <2>1 DEF PermitBooks, Sum
    <2>7. /\ Sum(sem[s]) \in Nat /\ Cardinality(Admits(s)) \in Nat
          /\ Cardinality(Shares(HeldOf(s))) \in Nat
        BY <2>1, <2>4, SumType, FS_CardinalityType DEF Types
    <2>8. Cardinality(Admits(s)) = 0 /\ Cardinality(Shares(HeldOf(s))) = Slots[s]
        BY <2>2, <2>3, <2>5, <2>6, <2>7
    <2>9. ASSUME NEW g \in Holders \ {h} PROVE held[g][s] = 0
        <3>1. held[g][s] \in Nat /\ Slots[s] + held[g][s] <= Slots[s]
            BY <2>1, <2>2, <2>3, <2>5, <2>8 DEF Types
        <3> QED BY <2>2, <3>1
    <2> QED BY <2>4, <2>8, <2>9, FS_EmptySet
<1>2. IInv => HoldShutsOut
    <2> SUFFICES ASSUME IInv, NEW h \in Holders, Exclusive(h)
                 PROVE  /\ \A c \in Calls : pc[c] \notin Admitted
                        /\ \A g \in Holders : stage[g] = "inside" => g = h
                        /\ \A c \in Calls : kind[c] = "save" => worker[c] \notin Live
        BY DEF HoldShutsOut, HoldIsExclusive, NoSaveInsideHold
    <2>1. \A c \in Calls : pc[c] \notin Admitted
        BY <1>1, SemOfType DEF Admits
    <2>2. ASSUME NEW g \in Holders, stage[g] = "inside", g # h PROVE FALSE
        <3>1. BooksOf(g) /\ "mine" \in Sems
            BY DEF IInv, HolderBooks, Sems
        <3>2. held[g]["mine"] = 1
            BY <2>2, <3>1, Sizes DEF BooksOf, Past
        <3> QED BY <1>1, <2>2, <3>1, <3>2
    <2> QED BY <2>1, <2>2 DEF IInv, SavesOut, Exclusive
<1> QED
    BY <1>2

\* Where the hold claims no fewer permits than the semaphores of reads and
\* writes have (it reads PALACE_MAX_CONCURRENCY, they their own settings), it
\* shuts out every admitted call, every other mine and every running save.
THEOREM HoldExclusive ==
    ASSUME ReadCap <= Slots["read"], WriteCap <= Slots["write"]
    PROVE  Spec => []HoldShutsOut
<1>1. IInv => HoldShutsOut
    BY HoldHasAll
<1> QED
    BY <1>1, Invariance, PTL

\* _mine_sem has one permit: one mine runs at a time.
LEMMA OneMineInside ==
    ASSUME IInv, NEW g \in Holders, NEW h \in Holders, stage[g] = "inside", stage[h] = "inside"
    PROVE  g = h
<1> SUFFICES ASSUME g # h PROVE FALSE
    OBVIOUS
<1>1. Types /\ PermitBooks /\ BooksOf(g) /\ BooksOf(h) /\ "mine" \in Sems
    BY DEF IInv, HolderBooks, Sems
<1>2. held[g]["mine"] = 1 /\ held[h]["mine"] = 1
    BY <1>1, Sizes DEF BooksOf, Past
<1>3. /\ HeldOf("mine") \in [Holders -> Nat]
      /\ HeldOf("mine")[g] = 1 /\ HeldOf("mine")[h] = 1
    BY <1>1, <1>2 DEF HeldOf, Types
<1>4. IsFiniteSet(Shares(HeldOf("mine"))) /\ IsFiniteSet(Admits("mine"))
    BY <1>1 DEF PermitBooks
<1>5. 2 <= Cardinality(Shares(HeldOf("mine")))
    BY <1>3, <1>4, SharesBound
<1>6. 1 = Sum(sem["mine"]) + Cardinality(Admits("mine")) + Cardinality(Shares(HeldOf("mine")))
    BY <1>1, Sizes DEF PermitBooks, Sum, Cap
<1>7. /\ Sum(sem["mine"]) \in Nat /\ Cardinality(Admits("mine")) \in Nat
      /\ Cardinality(Shares(HeldOf("mine"))) \in Nat
    BY <1>1, <1>4, SumType, FS_CardinalityType DEF Types
<1> QED
    BY <1>5, <1>6, <1>7

\* A step of one call moves nobody else.
LEMMA CallMovesItself ==
    ASSUME Types, NEW c \in Calls,
           Arrive(c) \/ Loop(c) \/ WorkerStarts(c) \/ WorkerReturns(c) \/ RetryReturns(c)
    PROVE  UNCHANGED <<kind, stage>> /\ \A d \in Calls \ {c} : pc'[d] = pc[d] /\ worker'[d] = worker[d]
<1> USE DEF Types, holderVars
<1>1. CASE Arrive(c)
    BY <1>1 DEF Arrive, Body
<1>2. CASE WakeCall(c)
    BY <1>2 DEF WakeCall, Body
<1>3. CASE ReleaseSlot(c) \/ WorkerStarts(c) \/ WorkerReturns(c)
    BY <1>3 DEF ReleaseSlot, WorkerStarts, WorkerReturns
<1>4. CASE Answer(c) \/ Timeout(c)
    BY <1>4 DEF Answer, Timeout, Reply
<1>5. CASE RepairReturns(c) \/ RetryReturns(c)
    BY <1>5 DEF RepairReturns, RetryReturns, Reply
<1> QED
    BY <1>1, <1>2, <1>3, <1>4, <1>5 DEF Loop

\* A step of one holder moves nobody else.
LEMMA HolderMovesItself ==
    ASSUME Types, NEW h \in Holders, Refused(h) \/ StartHold(h) \/ Hold(h)
    PROVE  UNCHANGED <<kind, pc, worker>> /\ \A g \in Holders \ {h} : stage'[g] = stage[g]
<1> USE DEF Types, callVars
<1>1. CASE Refused(h) \/ StartHold(h)
    BY <1>1 DEF Refused, StartHold
<1>2. CASE Acquire(h) \/ WakeHolder(h)
    BY <1>2 DEF Acquire, WakeHolder, AcquireLoop
<1>3. CASE Drained(h)
    BY <1>3 DEF Drained
<1>4. CASE DrainDeadline(h) \/ Leave(h)
    BY <1>4 DEF DrainDeadline, Leave, ReleaseAll
<1> QED
    BY <1>1, <1>2, <1>3, <1>4 DEF Hold

\* Two sets that differ in one element at most.
LEMMA OneApart ==
    ASSUME NEW S, NEW T, NEW x, \A y : y # x => (y \in S <=> y \in T)
    PROVE  \/ T = S
           \/ x \notin S /\ T = S \cup {x}
           \/ x \in S /\ T = S \ {x}
<1>1. CASE x \in S /\ x \in T
    BY <1>1
<1>2. CASE x \in S /\ x \notin T
    BY <1>2
<1>3. CASE x \notin S /\ x \in T
    BY <1>3
<1>4. CASE x \notin S /\ x \notin T
    BY <1>4
<1> QED
    BY <1>1, <1>2, <1>3, <1>4

\* Users and owner of a state of the gate.
LEMMA RegionIs ==
    ASSUME ReadCap <= Slots["read"], WriteCap <= Slots["write"]
    PROVE  IInv => /\ Owner # {} => Users = {}
                   /\ \A g, h \in Owner : g = h
                   /\ \A g, h \in Users \cap Holders : g = h
<1> SUFFICES ASSUME IInv
             PROVE  /\ Owner # {} => Users = {}
                    /\ \A g, h \in Owner : g = h
                    /\ \A g, h \in Users \cap Holders : g = h
    OBVIOUS
<1>1. HoldShutsOut
    BY HoldHasAll
<1>2. \A g, h \in Owner : g = h
    BY OneMineInside DEF Owner, Exclusive
<1>3. ASSUME NEW h \in Owner PROVE Users = {}
    <2>1. h \in Holders /\ Exclusive(h)
        BY DEF Owner
    <2>2. \A c \in Calls : pc[c] \notin Admitted /\ (kind[c] = "save" => worker[c] \notin Live)
        BY <1>1, <2>1 DEF HoldShutsOut, HoldIsExclusive, NoSaveInsideHold
    <2>3. \A g \in Holders : stage[g] = "inside" => kind[g] # "background"
        BY <1>1, <2>1 DEF HoldShutsOut, HoldIsExclusive, Exclusive
    <2> QED BY <2>2, <2>3 DEF Users
<1>4. \A g, h \in Users \cap Holders : g = h
    <2>1. \A h \in Users \cap Holders : stage[h] = "inside"
        BY TasksApart DEF Users
    <2> QED BY <2>1, OneMineInside
<1> QED
    BY <1>2, <1>3, <1>4

\* The gate implements the region PalaceRegion: under the same condition on the
\* settings, each step of a call or a holder is an entry, an exit, a seizure or
\* a release of the region, or nothing its users can tell.
THEOREM KeepsRegionHolds ==
    ASSUME ReadCap <= Slots["read"], WriteCap <= Slots["write"]
    PROVE  Spec => KeepsRegion
<1>1. Init => Region!Init
    BY DEF Init, Region!Init, Users, Owner, Exclusive, Admitted, Live
<1>2. IInv => /\ Owner # {} => Users = {}
              /\ \A g, h \in Owner : g = h
              /\ \A g, h \in Users \cap Holders : g = h
    BY RegionIs
<1>3. (IInv => /\ Owner # {} => Users = {}
               /\ \A g, h \in Owner : g = h
               /\ \A g, h \in Users \cap Holders : g = h)'
    BY <1>2, PTL
<1>4. IInv /\ IInv' /\ [Next]_vars => [Region!Next]_(Region!regionVars)
    <2> SUFFICES ASSUME IInv, IInv', [Next]_vars PROVE Region!Next \/ UNCHANGED Region!regionVars
        OBVIOUS
    <2>1. /\ Owner' # {} => Users' = {}
          /\ \A g, h \in Owner' : g = h
          /\ \A g, h \in Users' \cap Holders : g = h
        BY <1>3
    <2>2. Types
        BY DEF IInv
    <2>3. ASSUME NEW c \in Calls,
                 Arrive(c) \/ Loop(c) \/ WorkerStarts(c) \/ WorkerReturns(c) \/ RetryReturns(c)
          PROVE  Region!Next \/ UNCHANGED Region!regionVars
        <3>1. UNCHANGED <<kind, stage>> /\ \A d \in Calls \ {c} : pc'[d] = pc[d] /\ worker'[d] = worker[d]
            BY <2>2, <2>3, CallMovesItself
        <3>2. Owner' = Owner
            BY <3>1 DEF Owner, Exclusive
        <3>3. \A y : y # c => (y \in Users <=> y \in Users')
            BY <3>1 DEF Users
        <3>4. c \notin Holders /\ c \in Calls \cup Holders
            BY TasksApart
        <3>5. \/ Users' = Users
              \/ c \notin Users /\ Users' = Users \cup {c}
              \/ c \in Users /\ Users' = Users \ {c}
            BY <3>3, OneApart
        <3> QED BY <2>1, <3>2, <3>4, <3>5
                DEF Region!Next, Region!Enter, Region!Exit, Region!regionVars
    <2>4. ASSUME NEW h \in Holders, Refused(h) \/ StartHold(h) \/ Hold(h)
          PROVE  Region!Next \/ UNCHANGED Region!regionVars
        <3>1. UNCHANGED <<kind, pc, worker>> /\ \A g \in Holders \ {h} : stage'[g] = stage[g]
            BY <2>2, <2>4, HolderMovesItself
        <3>2. h \notin Calls /\ h \in Calls \cup Holders
            BY TasksApart
        <3>3. CASE kind[h] = "background"
            <4>1. Owner' = Owner
                BY <3>1, <3>3 DEF Owner, Exclusive
            <4>2. \A y : y # h => (y \in Users <=> y \in Users')
                BY <3>1 DEF Users
            <4>3. \/ Users' = Users
                  \/ h \notin Users /\ Users' = Users \cup {h}
                  \/ h \in Users /\ Users' = Users \ {h}
                BY <4>2, OneApart
            <4>4. ASSUME h \notin Users, Users' = Users \cup {h}
                  PROVE  Owner = {} /\ Users \cap Holders = {}
                BY <2>1, <4>1, <4>4
            <4> QED BY <3>2, <4>1, <4>3, <4>4
                    DEF Region!Next, Region!Enter, Region!Exit, Region!regionVars
        <3>4. CASE kind[h] # "background"
            <4>1. Users' = Users
                BY <3>1, <3>2, <3>4 DEF Users
            <4>2. \A y : y # h => (y \in Owner <=> y \in Owner')
                BY <3>1 DEF Owner, Exclusive
            <4>3. \/ Owner' = Owner
                  \/ h \notin Owner /\ Owner' = Owner \cup {h}
                  \/ h \in Owner /\ Owner' = Owner \ {h}
                BY <4>2, OneApart
            <4>4. ASSUME h \notin Owner, Owner' = Owner \cup {h}
                  PROVE  Owner = {} /\ Users = {} /\ Owner' = {h}
                BY <2>1, <4>1, <4>4
            <4>5. ASSUME h \in Owner, Owner' = Owner \ {h}
                  PROVE  Owner = {h} /\ Owner' = {}
                BY <1>2, <4>5
            <4> QED BY <3>2, <4>1, <4>3, <4>4, <4>5
                    DEF Region!Next, Region!Seize, Region!Yield, Region!regionVars
        <3> QED BY <3>3, <3>4
    <2>5. CASE UNCHANGED vars
        BY <2>5 DEF vars, Users, Owner, Exclusive, Region!regionVars
    <2> QED BY <2>3, <2>4, <2>5 DEF Next
<1> QED
    BY <1>1, <1>4, Invariance, PTL DEF Spec, KeepsRegion, Region!Spec
=============================================================================
