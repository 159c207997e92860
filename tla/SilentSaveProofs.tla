-------------------------- MODULE SilentSaveProofs --------------------------
(***************************************************************************)
(* Proofs about SilentSave, for any number of saves and repairs, any       *)
(* number of permits and any number of stops of the daemon.                *)
(***************************************************************************)
EXTENDS SilentSave, Lemmas

-----------------------------------------------------------------------------
(* The inductive invariant: where the permits are ...                      *)

Tasks == Saves \cup Repairs
Working == {"opening", "opened", "appended", "writing"}

\* The permits a task has: one for a save or a replay at work, those of the
\* acquire loop for a repair.
Have == [p \in Tasks |-> IF p \in Saves THEN (IF pc[p] \in Working THEN 1 ELSE 0)
                         ELSE held[p] + (IF rp[p] = "replay" THEN 1 ELSE 0)]

Types ==
    /\ IsSemaphore(sem, Tasks)
    /\ flag \in {"no"} \cup Modes
    /\ pc \in [Saves -> {"idle", "wait", "opening", "opened", "appended", "writing"} \cup Answered]
    /\ handle \in [Saves -> Names \cup {"none", "gone"}]
    /\ exists \subseteq Names
    /\ file \in [Names -> Seq(Saves)]
    /\ quarantine \subseteq Saves
    /\ written \in [Saves -> Nat]
    /\ rp \in [Repairs -> {"idle", "acquire", "inside", "released", "wait", "replay", "finish", "done"}]
    /\ mode \in [Repairs -> Modes]
    /\ held \in [Repairs -> Nat]
    /\ lines \in [Repairs -> Seq(Saves)]
    /\ failed \in [Repairs -> SUBSET Saves]
    /\ stops \in 0..MaxStops
    /\ exposed \subseteq Saves /\ newest \subseteq Saves /\ overwritten \subseteq Saves

\* Who waits at _write_sem.
Waits(p) ==
    \/ p \in Saves /\ pc[p] = "wait"
    \/ p \in Repairs /\ rp[p] \in {"acquire", "wait"}
WaitersKnown == \A p : Suspended(sem, p) => Waits(p)

Books == IsFiniteSet(Shares(Have)) /\ WriteCap = Sum(sem) + Cardinality(Shares(Have))

\* A repair holds what it needs inside, less while it acquires, else nothing.
BooksOf(r) ==
    /\ rp[r] = "inside" => held[r] = Need(r)
    /\ rp[r] = "acquire" => held[r] < Need(r) /\ (held[r] > 0 => Suspended(sem, r))
    /\ rp[r] \notin {"inside", "acquire"} => held[r] = 0
RepairBooks == \A r \in Repairs : BooksOf(r)

Permits == WaitersKnown /\ Books /\ RepairBooks

(* ... and where the line of a save is.                                    *)

Before == {"idle", "wait", "opening", "opened", "writing"}
Distinct(f) == \A i, j \in DOMAIN f : f[i] = f[j] => i = j

\* A diary entry that is still to be written has one source: the save itself,
\* one line of the pending file or one line of one drain.
OneSource ==
    /\ Distinct(file["pending"]) /\ \A r \in Repairs : Distinct(lines[r])
    /\ \A s \in Saves :
          /\ written[s] \in {0, 1}
          /\ pc[s] \in Before \/ s \in Lines(file["pending"]) =>
                written[s] = 0 /\ \A r \in Repairs : s \notin Lines(lines[r])
          /\ pc[s] \in Before => s \notin Lines(file["pending"])
          /\ \A r, d \in Repairs : s \in Lines(lines[r]) =>
                written[s] = 0 /\ (s \in Lines(lines[d]) => r = d)

\* A drain has lines exactly while it replays them.
LinesInHand == \A r \in Repairs : rp[r] \in {"wait", "replay"} <=> lines[r] # <<>>

HandlesNamed == \A s \in Saves : handle[s] = "pending" => "pending" \in exists

\* A line that was flushed, is not exposed and has not been overwritten is in the
\* pending file, in a drain, in quarantine or in the diary (.processing alone is
\* not relied on).
StillKept ==
    \A s \in Saves : pc[s] \in {"appended", "queued"} /\ s \notin exposed \cup overwritten =>
        \/ written[s] > 0 \/ s \in quarantine \cup InDrain
        \/ "pending" \in exists /\ s \in Lines(file["pending"])

Places == OneSource /\ LinesInHand /\ HandlesNamed /\ StillKept

IInv == Types /\ Permits /\ Places

-----------------------------------------------------------------------------
(* Permits                                                                 *)

\* Saves and repairs are different tasks.
LEMMA TasksApart == \A s \in Saves, r \in Repairs : s # r
BY SaveAssumption

\* What a repair needs.
LEMMA NeedType == ASSUME NEW r \in Repairs PROVE Need(r) \in 1..WriteCap /\ Need(r) \in Nat
BY SaveAssumption DEF Need

\* The permits of the tasks are numbers.
LEMMA HaveType ==
    ASSUME Types
    PROVE  /\ Have \in [Tasks -> Nat]
           /\ \A s \in Saves : Have[s] = IF pc[s] \in Working THEN 1 ELSE 0
           /\ \A r \in Repairs : Have[r] = held[r] + (IF rp[r] = "replay" THEN 1 ELSE 0)
BY TasksApart DEF Have, Tasks, Types

\* The books of permits, when the share of one task changes.
LEMMA BooksKept ==
    ASSUME Types, Types', Books, NEW p \in Tasks,
           \A k \in Tasks \ {p} : Have'[k] = Have[k],
           Sum(sem') = Sum(sem) + (Have[p] - Have'[p])
    PROVE  Books'
<1>1. Have \in [Tasks -> Nat] /\ Have' \in [Tasks -> Nat] /\ IsFiniteSet(Shares(Have))
    <2>1. Have \in [Tasks -> Nat]
        BY HaveType
    <2>2. Have' \in [Tasks -> Nat]
        BY DEF Have, Tasks, Types
    <2> QED BY <2>1, <2>2 DEF Books
<1>2. /\ IsFiniteSet(Shares(Have'))
      /\ Cardinality(Shares(Have')) = Cardinality(Shares(Have)) - Have[p] + Have'[p]
    <2>1. \A F, G \in [Tasks -> Nat] :
            (\A k \in Tasks \ {p} : G[k] = F[k]) /\ IsFiniteSet(Shares(F)) =>
                IsFiniteSet(Shares(G)) /\ Cardinality(Shares(G)) = Cardinality(Shares(F)) - F[p] + G[p]
        <3> SUFFICES ASSUME NEW F \in [Tasks -> Nat], NEW G \in [Tasks -> Nat],
                            \A k \in Tasks \ {p} : G[k] = F[k], IsFiniteSet(Shares(F))
                     PROVE  /\ IsFiniteSet(Shares(G))
                            /\ Cardinality(Shares(G)) = Cardinality(Shares(F)) - F[p] + G[p]
            OBVIOUS
        <3> QED BY SharesExcept
    <2> QED BY <1>1, <2>1
<1>3. Sum(sem) \in Nat /\ Cardinality(Shares(Have)) \in Nat /\ Have[p] \in Nat /\ Have'[p] \in Nat
    BY <1>1, SumType, FS_CardinalityType DEF Types
<1>4. WriteCap = Sum(sem) + Cardinality(Shares(Have))
    BY DEF Books
<1>5. WriteCap = Sum(sem') + Cardinality(Shares(Have'))
    BY <1>2, <1>3, <1>4
<1> QED
    BY <1>2, <1>5 DEF Books

\* A save changes its state and takes or gives back its permit.
LEMMA SavePermits ==
    ASSUME Types, Types', Permits, NEW s \in Saves, rp' = rp, held' = held, mode' = mode,
           pc' = [pc EXCEPT ![s] = pc'[s]],
           Sum(sem') = Sum(sem) + ((IF pc[s] \in Working THEN 1 ELSE 0) - (IF pc'[s] \in Working THEN 1 ELSE 0)),
           \A p : p # s => (Suspended(sem', p) <=> Suspended(sem, p)),
           Suspended(sem', s) => pc'[s] = "wait"
    PROVE  Permits'
<1>1. WaitersKnown /\ Books /\ RepairBooks
    BY DEF Permits
<1>2. \A k \in Saves \ {s} : pc'[k] = pc[k]
    BY DEF Types
<1>3. WaitersKnown'
    <2> SUFFICES ASSUME NEW p, Suspended(sem', p) PROVE Waits(p)'
        BY DEF WaitersKnown
    <2>1. CASE p = s
        BY <2>1 DEF Waits
    <2>2. CASE p # s
        <3>1. Waits(p)
            BY <1>1, <2>2 DEF WaitersKnown
        <3> QED BY <1>2, <2>2, <3>1 DEF Waits
    <2> QED BY <2>1, <2>2
<1>4. RepairBooks'
    <2> SUFFICES ASSUME NEW r \in Repairs PROVE BooksOf(r)'
        BY DEF RepairBooks
    <2>1. BooksOf(r) /\ (Suspended(sem', r) <=> Suspended(sem, r))
        BY <1>1, TasksApart DEF RepairBooks
    <2>2. Need(r)' = Need(r)
        BY DEF Need
    <2> QED BY <2>1, <2>2 DEF BooksOf
<1>5. Books'
    <2>1. s \in Tasks
        BY DEF Tasks
    <2>2. \A k \in Tasks \ {s} : Have'[k] = Have[k]
        BY <1>2 DEF Have, Tasks
    <2>3. Have[s] = (IF pc[s] \in Working THEN 1 ELSE 0) /\ Have'[s] = IF pc'[s] \in Working THEN 1 ELSE 0
        BY <2>1 DEF Have
    <2>4. Sum(sem') = Sum(sem) + (Have[s] - Have'[s])
        BY <2>3
    <2> QED BY <1>1, <2>1, <2>2, <2>4, BooksKept
<1> QED
    BY <1>3, <1>4, <1>5 DEF Permits

\* A repair changes its state and takes or gives back permits.
LEMMA RepairPermits ==
    ASSUME Types, Types', Permits, NEW r \in Repairs, pc' = pc, mode' = mode,
           rp' = [rp EXCEPT ![r] = rp'[r]], held' = [held EXCEPT ![r] = held'[r]],
           Sum(sem') = Sum(sem) + ((held[r] + (IF rp[r] = "replay" THEN 1 ELSE 0))
                                    - (held'[r] + (IF rp'[r] = "replay" THEN 1 ELSE 0))),
           \A p : p # r => (Suspended(sem', p) <=> Suspended(sem, p)),
           Suspended(sem', r) => rp'[r] \in {"acquire", "wait"},
           BooksOf(r)'
    PROVE  Permits'
<1>1. WaitersKnown /\ Books /\ RepairBooks
    BY DEF Permits
<1>2. \A k \in Repairs \ {r} : rp'[k] = rp[k] /\ held'[k] = held[k]
    BY DEF Types
<1>3. WaitersKnown'
    <2> SUFFICES ASSUME NEW p, Suspended(sem', p) PROVE Waits(p)'
        BY DEF WaitersKnown
    <2>1. CASE p = r
        BY <2>1 DEF Waits
    <2>2. CASE p # r
        <3>1. Waits(p)
            BY <1>1, <2>2 DEF WaitersKnown
        <3> QED BY <1>2, <2>2, <3>1 DEF Waits
    <2> QED BY <2>1, <2>2
<1>4. RepairBooks'
    <2> SUFFICES ASSUME NEW k \in Repairs PROVE BooksOf(k)'
        BY DEF RepairBooks
    <2>1. CASE k = r
        BY <2>1
    <2>2. CASE k # r
        <3>1. BooksOf(k) /\ (Suspended(sem', k) <=> Suspended(sem, k))
            BY <1>1, <2>2 DEF RepairBooks
        <3>2. Need(k)' = Need(k)
            BY DEF Need
        <3> QED BY <1>2, <2>2, <3>1, <3>2 DEF BooksOf
    <2> QED BY <2>1, <2>2
<1>5. Books'
    <2>1. r \in Tasks /\ r \notin Saves
        BY TasksApart DEF Tasks
    <2>2. \A k \in Tasks \ {r} : Have'[k] = Have[k]
        BY <1>2 DEF Have, Tasks
    <2>3. /\ Have[r] = held[r] + (IF rp[r] = "replay" THEN 1 ELSE 0)
          /\ Have'[r] = held'[r] + (IF rp'[r] = "replay" THEN 1 ELSE 0)
        BY <2>1 DEF Have
    <2>4. Sum(sem') = Sum(sem) + (Have[r] - Have'[r])
        BY <2>3
    <2> QED BY <1>1, <2>1, <2>2, <2>4, BooksKept
<1> QED
    BY <1>3, <1>4, <1>5 DEF Permits

-----------------------------------------------------------------------------
(* Lines                                                                   *)

\* A line is appended.
LEMMA LinesAppend ==
    ASSUME NEW f \in Seq(Saves), NEW s \in Saves
    PROVE  /\ Append(f, s) \in Seq(Saves)
           /\ Lines(Append(f, s)) = Lines(f) \cup {s}
           /\ Distinct(f) /\ s \notin Lines(f) => Distinct(Append(f, s))
<1>1. /\ Append(f, s) \in Seq(Saves) /\ Len(f) \in Nat /\ DOMAIN f = 1..Len(f)
      /\ DOMAIN Append(f, s) = 1..(Len(f) + 1) /\ Append(f, s)[Len(f) + 1] = s
      /\ \A i \in 1..Len(f) : Append(f, s)[i] = f[i]
    OBVIOUS
<1>2. Lines(Append(f, s)) = Lines(f) \cup {s}
    <2>1. ASSUME NEW x \in Lines(Append(f, s)) PROVE x \in Lines(f) \cup {s}
        <3>1. PICK i \in 1..(Len(f) + 1) : x = Append(f, s)[i]
            BY <1>1, <2>1 DEF Lines
        <3> QED BY <1>1, <3>1 DEF Lines
    <2>2. ASSUME NEW x \in Lines(f) \cup {s} PROVE x \in Lines(Append(f, s))
        BY <1>1, <2>2 DEF Lines
    <2> QED BY <2>1, <2>2
<1>3. ASSUME Distinct(f), s \notin Lines(f) PROVE Distinct(Append(f, s))
    BY <1>1, <1>3 DEF Distinct, Lines
<1> QED
    BY <1>1, <1>2, <1>3

\* The first line is taken off.
LEMMA LinesTail ==
    ASSUME NEW f \in Seq(Saves), f # <<>>
    PROVE  /\ Tail(f) \in Seq(Saves) /\ Head(f) \in Saves
           /\ Lines(f) = Lines(Tail(f)) \cup {Head(f)}
           /\ Distinct(f) => Distinct(Tail(f)) /\ Head(f) \notin Lines(Tail(f))
<1>1. /\ Tail(f) \in Seq(Saves) /\ Head(f) \in Saves /\ Len(f) \in Nat \ {0} /\ Head(f) = f[1]
      /\ DOMAIN f = 1..Len(f) /\ DOMAIN Tail(f) = 1..(Len(f) - 1)
      /\ \A i \in 1..(Len(f) - 1) : Tail(f)[i] = f[i + 1]
    OBVIOUS
<1>2. \A i \in 1..(Len(f) - 1) : i + 1 \in 1..Len(f) /\ i + 1 # 1
    BY <1>1
<1>3. \A i \in 1..Len(f) : i = 1 \/ (i - 1 \in 1..(Len(f) - 1) /\ (i - 1) + 1 = i)
    BY <1>1
<1>4. Lines(f) = Lines(Tail(f)) \cup {Head(f)}
    <2>1. ASSUME NEW x \in Lines(f) PROVE x \in Lines(Tail(f)) \cup {Head(f)}
        <3>1. PICK i \in 1..Len(f) : x = f[i]
            BY <1>1, <2>1 DEF Lines
        <3>2. CASE i = 1
            BY <1>1, <3>1, <3>2
        <3>3. CASE i # 1
            <4>1. i - 1 \in 1..(Len(f) - 1) /\ Tail(f)[i - 1] = x
                BY <1>1, <1>3, <3>1, <3>3
            <4> QED BY <1>1, <4>1 DEF Lines
        <3> QED BY <3>2, <3>3
    <2>2. ASSUME NEW x \in Lines(Tail(f)) \cup {Head(f)} PROVE x \in Lines(f)
        <3>1. 1 \in 1..Len(f)
            BY <1>1
        <3> QED BY <1>1, <1>2, <2>2, <3>1 DEF Lines
    <2> QED BY <2>1, <2>2
<1>5. ASSUME Distinct(f) PROVE Distinct(Tail(f)) /\ Head(f) \notin Lines(Tail(f))
    <2>1. 1 \in 1..Len(f)
        BY <1>1
    <2>2. Head(f) \notin Lines(Tail(f))
        BY <1>1, <1>2, <1>5, <2>1 DEF Distinct, Lines
    <2>3. Distinct(Tail(f))
        <3> SUFFICES ASSUME NEW i \in 1..(Len(f) - 1), NEW j \in 1..(Len(f) - 1), Tail(f)[i] = Tail(f)[j]
                     PROVE i = j
            BY <1>1 DEF Distinct
        <3>1. i + 1 = j + 1
            BY <1>1, <1>2, <1>5 DEF Distinct
        <3> QED BY <1>1, <3>1
    <2> QED BY <2>2, <2>3
<1> QED
    BY <1>1, <1>4, <1>5

\* No lines.
LEMMA NoLines == Lines(<<>>) = {} /\ Distinct(<<>>)
BY DEF Lines, Distinct

\* A step that moves no line.
LEMMA CalmPlaces ==
    ASSUME Types, Types', Places, file' = file, lines' = lines, failed' = failed,
           quarantine' = quarantine, written' = written, exposed' = exposed, overwritten' = overwritten,
           exists \subseteq exists', HandlesNamed',
           \A s \in Saves : /\ pc'[s] \in Before => pc[s] \in Before
                            /\ pc'[s] \in {"appended", "queued"} => pc[s] \in {"appended", "queued"},
           \A r \in Repairs : rp'[r] \in {"wait", "replay"} <=> rp[r] \in {"wait", "replay"}
    PROVE  Places'
<1>1. OneSource /\ LinesInHand /\ HandlesNamed /\ StillKept
    BY DEF Places
<1>2. OneSource'
    BY <1>1 DEF OneSource
<1>3. LinesInHand'
    BY <1>1 DEF LinesInHand
<1>4. InDrain' = InDrain
    BY DEF InDrain
<1>5. StillKept'
    BY <1>1, <1>4 DEF StillKept
<1> QED
    BY <1>2, <1>3, <1>5 DEF Places

-----------------------------------------------------------------------------
(* The steps of a save                                                     *)

\* A save arrives or is woken: it has a permit and goes to work, or waits.
LEMMA EntryEffect ==
    ASSUME IInv, NEW s \in Saves, Arrive(s) \/ WakeSave(s)
    PROVE  /\ IsSemaphore(sem', Tasks) /\ pc[s] \in {"idle", "wait"}
           /\ UNCHANGED <<flag, files, quarantine, written, rp, drain, history>>
           /\ \/ /\ pc' = [pc EXCEPT ![s] = IF flag = "rebuild" THEN "opening" ELSE "writing"]
                 /\ Sum(sem') = Sum(sem) - 1
                 /\ \A p : Suspended(sem', p) <=> Suspended(sem, p) /\ p # s
              \/ /\ pc' = [pc EXCEPT ![s] = "wait"] /\ Sum(sem') = Sum(sem)
                 /\ \A p : Suspended(sem', p) <=> Suspended(sem, p) \/ p = s
<1>1. Types /\ WaitersKnown /\ IsSemaphore(sem, Tasks) /\ s \in Tasks
    BY DEF IInv, Permits, Types, Tasks
<1>2. CASE Arrive(s)
    <2>1. pc[s] = "idle" /\ UNCHANGED <<flag, files, quarantine, written, rp, drain, history>>
        BY <1>2 DEF Arrive
    <2>2. ~Suspended(sem, s)
        BY <1>1, <2>1, TasksApart DEF WaitersKnown, Waits
    <2>3. CASE Available(sem) > 0 /\ SaveBody(s, TakePermits(sem, 1))
        <3>1. 1 \in 0..Available(sem)
            BY <1>1, <2>3, AvailableBound
        <3>2. /\ IsSemaphore(TakePermits(sem, 1), Tasks) /\ Sum(TakePermits(sem, 1)) = Sum(sem) - 1
              /\ \A p : Suspended(TakePermits(sem, 1), p) <=> Suspended(sem, p)
            BY <1>1, <3>1, SumOfTake, TakeConserves
        <3> QED BY <2>1, <2>2, <2>3, <3>2 DEF SaveBody
    <2>4. CASE sem' = Enqueue(sem, s) /\ pc' = [pc EXCEPT ![s] = "wait"]
        <3>1. /\ IsSemaphore(Enqueue(sem, s), Tasks) /\ Sum(Enqueue(sem, s)) = Sum(sem)
              /\ \A p : Suspended(Enqueue(sem, s), p) <=> Suspended(sem, p) \/ p = s
            BY <1>1, <2>2, SumOfEnqueue, EnqueueConserves
        <3> QED BY <2>1, <2>4, <3>1
    <2> QED BY <1>2, <2>3, <2>4 DEF Arrive
<1>3. CASE WakeSave(s)
    <2>1. s \in sem.woken /\ UNCHANGED <<flag, files, quarantine, written, rp, drain, history>>
        BY <1>3 DEF WakeSave
    <2>2. pc[s] = "wait"
        BY <1>1, <2>1, TasksApart DEF WaitersKnown, Waits, Suspended
    <2>3. /\ IsSemaphore(Resume(sem, s), Tasks) /\ Sum(Resume(sem, s)) = Sum(sem) - 1
          /\ \A p : Suspended(Resume(sem, s), p) <=> Suspended(sem, p) /\ p # s
        BY <1>1, <2>1, SumOfResume, ResumeConserves
    <2> QED BY <1>3, <2>1, <2>2, <2>3 DEF WakeSave, SaveBody
<1> QED
    BY <1>2, <1>3

\* ... which keeps the invariant.
LEMMA EntryKeeps ==
    ASSUME IInv, NEW s \in Saves, Arrive(s) \/ WakeSave(s)
    PROVE  IInv'
<1> USE DEF files, drain, history
<1>1. Types /\ Permits /\ Places
    BY DEF IInv
<1>2. /\ IsSemaphore(sem', Tasks) /\ pc[s] \in {"idle", "wait"}
      /\ UNCHANGED <<flag, files, quarantine, written, rp, drain, history>>
    BY EntryEffect
<1>3. /\ pc' = [pc EXCEPT ![s] = pc'[s]] /\ pc'[s] \in {"wait", "opening", "writing"}
      /\ pc[s] \notin Working
      /\ Sum(sem') = Sum(sem) + ((IF pc[s] \in Working THEN 1 ELSE 0) - (IF pc'[s] \in Working THEN 1 ELSE 0))
      /\ \A p : p # s => (Suspended(sem', p) <=> Suspended(sem, p))
      /\ Suspended(sem', s) => pc'[s] = "wait"
    <2>1. Sum(sem) \in Nat /\ pc[s] \notin Working
        BY <1>1, <1>2, SumType DEF Types, Working
    <2>2. CASE /\ pc' = [pc EXCEPT ![s] = IF flag = "rebuild" THEN "opening" ELSE "writing"]
               /\ Sum(sem') = Sum(sem) - 1
               /\ \A p : Suspended(sem', p) <=> Suspended(sem, p) /\ p # s
        <3>1. pc'[s] \in {"opening", "writing"} /\ pc'[s] \in Working /\ pc' = [pc EXCEPT ![s] = pc'[s]]
            BY <1>1, <2>2 DEF Types, Working
        <3> QED BY <2>1, <2>2, <3>1
    <2>3. CASE /\ pc' = [pc EXCEPT ![s] = "wait"] /\ Sum(sem') = Sum(sem)
               /\ \A p : Suspended(sem', p) <=> Suspended(sem, p) \/ p = s
        <3>1. pc'[s] = "wait" /\ pc'[s] \notin Working /\ pc' = [pc EXCEPT ![s] = pc'[s]]
            BY <1>1, <2>3 DEF Types, Working
        <3> QED BY <2>1, <2>3, <3>1
    <2> QED BY <2>2, <2>3, EntryEffect
<1>4. Types'
    BY <1>1, <1>2, <1>3 DEF Types
<1>5. Permits'
    BY <1>1, <1>2, <1>3, <1>4, SavePermits
<1>6. Places'
    <2>1. HandlesNamed'
        BY <1>1, <1>2 DEF Places, HandlesNamed
    <2>2. \A k \in Saves : /\ pc'[k] \in Before => pc[k] \in Before
                           /\ pc'[k] \in {"appended", "queued"} => pc[k] \in {"appended", "queued"}
        BY <1>1, <1>2, <1>3 DEF Before, Types
    <2> QED BY <1>1, <1>2, <1>4, <2>1, <2>2, CalmPlaces
<1> QED
    BY <1>4, <1>5, <1>6 DEF IInv

\* The append thread opens the pending file.
LEMMA OpensKeeps ==
    ASSUME IInv, NEW s \in Saves, Opens(s)
    PROVE  IInv'
<1> USE DEF files, drain, history
<1>1. Types /\ Permits /\ Places
    BY DEF IInv
<1>2. /\ pc[s] = "opening" /\ pc' = [pc EXCEPT ![s] = "opened"]
      /\ handle' = [handle EXCEPT ![s] = "pending"] /\ exists' = exists \cup {"pending"}
      /\ UNCHANGED <<sem, flag, file, quarantine, written, rp, drain, history>>
    BY DEF Opens
<1>3. pc'[s] = "opened" /\ pc' = [pc EXCEPT ![s] = pc'[s]]
    BY <1>1, <1>2 DEF Types
<1>4. Types'
    BY <1>1, <1>2 DEF Types, Names
<1>5. Permits'
    <2>1. pc[s] \in Working /\ pc'[s] \in Working /\ ~Suspended(sem, s)
        BY <1>1, <1>2, <1>3, TasksApart DEF Working, Permits, WaitersKnown, Waits
    <2>2. Sum(sem') = Sum(sem) + ((IF pc[s] \in Working THEN 1 ELSE 0) - (IF pc'[s] \in Working THEN 1 ELSE 0))
        <3>1. Sum(sem) \in Nat
            BY <1>1, SumType DEF Types
        <3> QED BY <1>2, <2>1, <3>1
    <2> QED BY <1>1, <1>2, <1>3, <1>4, <2>1, <2>2, SavePermits
<1>6. Places'
    <2>1. HandlesNamed'
        BY <1>1, <1>2 DEF Places, HandlesNamed
    <2>2. \A k \in Saves : /\ pc'[k] \in Before => pc[k] \in Before
                           /\ pc'[k] \in {"appended", "queued"} => pc[k] \in {"appended", "queued"}
        BY <1>1, <1>2, <1>3 DEF Before, Types
    <2> QED BY <1>1, <1>2, <1>4, <2>1, <2>2, CalmPlaces
<1> QED
    BY <1>4, <1>5, <1>6 DEF IInv

\* The line reaches the file its handle points to.
LEMMA AppendsKeeps ==
    ASSUME IInv, NEW s \in Saves, Appends(s)
    PROVE  IInv'
<1> USE DEF drain
<1>1. Types /\ Permits /\ Places
    BY DEF IInv
<1>2. /\ pc[s] = "opened" /\ pc' = [pc EXCEPT ![s] = "appended"]
      /\ handle' = [handle EXCEPT ![s] = "none"]
      /\ file' = IF handle[s] \in Names THEN [file EXCEPT ![handle[s]] = Append(@, s)] ELSE file
      /\ exposed' = IF handle[s] = "pending" THEN exposed ELSE exposed \cup {s}
      /\ UNCHANGED <<sem, flag, exists, quarantine, written, rp, drain, stops, newest, overwritten>>
    BY DEF Appends
<1>3. pc'[s] = "appended" /\ pc' = [pc EXCEPT ![s] = pc'[s]]
    BY <1>1, <1>2 DEF Types
<1>4. file' \in [Names -> Seq(Saves)]
    <2>1. CASE handle[s] \in Names
        <3>1. Append(file[handle[s]], s) \in Seq(Saves)
            BY <1>1, <2>1 DEF Types
        <3> QED BY <1>1, <1>2, <2>1, <3>1 DEF Types
    <2> QED BY <1>1, <1>2, <2>1 DEF Types
<1>5. Types'
    BY <1>1, <1>2, <1>4 DEF Types
<1>6. Permits'
    <2>1. pc[s] \in Working /\ pc'[s] \in Working /\ ~Suspended(sem, s)
        BY <1>1, <1>2, <1>3, TasksApart DEF Working, Permits, WaitersKnown, Waits
    <2>2. Sum(sem') = Sum(sem) + ((IF pc[s] \in Working THEN 1 ELSE 0) - (IF pc'[s] \in Working THEN 1 ELSE 0))
        <3>1. Sum(sem) \in Nat
            BY <1>1, SumType DEF Types
        <3> QED BY <1>2, <2>1, <3>1
    <2> QED BY <1>1, <1>2, <1>3, <1>5, <2>1, <2>2, SavePermits
<1>7. Places'
    <2>1. OneSource /\ LinesInHand /\ HandlesNamed /\ StillKept
        BY <1>1 DEF Places
    <2>2. /\ file'["pending"] = IF handle[s] = "pending" THEN Append(file["pending"], s) ELSE file["pending"]
          /\ file["pending"] \in Seq(Saves)
        BY <1>1, <1>2 DEF Types, Names
    <2>3. pc[s] \in Before
        BY <1>2 DEF Before
    <2>4. s \notin Lines(file["pending"]) /\ written[s] = 0 /\ \A r \in Repairs : s \notin Lines(lines[r])
        BY <2>1, <2>3 DEF OneSource
    <2>5. /\ Distinct(file'["pending"])
          /\ Lines(file'["pending"]) = IF handle[s] = "pending" THEN Lines(file["pending"]) \cup {s}
                                       ELSE Lines(file["pending"])
        <3>1. Distinct(file["pending"])
            BY <2>1 DEF OneSource
        <3>2. /\ Lines(Append(file["pending"], s)) = Lines(file["pending"]) \cup {s}
              /\ Distinct(Append(file["pending"], s))
            BY <2>2, <2>4, <3>1, LinesAppend
        <3>3. CASE handle[s] = "pending"
            BY <2>2, <3>2, <3>3
        <3>4. CASE handle[s] # "pending"
            BY <2>2, <3>1, <3>4
        <3> QED BY <3>3, <3>4
    <2>6. \A k \in Saves : k # s => pc'[k] = pc[k]
        BY <1>1, <1>2 DEF Types
    <2>7. pc'[s] \notin Before
        BY <1>3 DEF Before
    <2>8. OneSource'
        <3> SUFFICES ASSUME NEW k \in Saves
                     PROVE /\ written[k] \in {0, 1}
                           /\ pc'[k] \in Before \/ k \in Lines(file'["pending"]) =>
                                 written[k] = 0 /\ \A r \in Repairs : k \notin Lines(lines[r])
                           /\ pc'[k] \in Before => k \notin Lines(file'["pending"])
                           /\ \A r, d \in Repairs : k \in Lines(lines[r]) =>
                                 written[k] = 0 /\ (k \in Lines(lines[d]) => r = d)
            BY <1>2, <2>1, <2>5 DEF OneSource
        <3>1. CASE k = s
            BY <2>1, <2>4, <2>7, <3>1 DEF OneSource
        <3>2. CASE k # s
            BY <2>1, <2>5, <2>6, <3>2 DEF OneSource
        <3> QED BY <3>1, <3>2
    <2>9. LinesInHand'
        BY <1>2, <2>1 DEF LinesInHand
    <2>10. HandlesNamed'
        BY <1>1, <1>2, <2>1 DEF HandlesNamed, Types
    <2>11. StillKept'
        <3>1. InDrain' = InDrain
            BY <1>2 DEF InDrain
        <3> SUFFICES ASSUME NEW k \in Saves, pc'[k] \in {"appended", "queued"}, k \notin exposed' \cup overwritten'
                     PROVE \/ written[k] > 0 \/ k \in quarantine \cup InDrain
                           \/ "pending" \in exists /\ k \in Lines(file'["pending"])
            BY <1>2, <3>1 DEF StillKept
        <3>2. CASE k = s
            BY <1>2, <2>1, <2>5, <3>2 DEF HandlesNamed
        <3>3. CASE k # s
            <4>1. pc[k] \in {"appended", "queued"} /\ k \notin exposed \cup overwritten
                BY <1>2, <2>6, <3>3
            <4> QED BY <2>1, <2>5, <4>1 DEF StillKept
        <3> QED BY <3>2, <3>3
    <2> QED BY <2>8, <2>9, <2>10, <2>11 DEF Places
<1> QED
    BY <1>5, <1>6, <1>7 DEF IInv

\* A save is answered and its permit goes back.
LEMMA AnswerKeeps ==
    ASSUME IInv, NEW s \in Saves, AnswerQueued(s) \/ AnswerWritten(s)
    PROVE  IInv'
<1> USE DEF files, drain, history
<1>1. Types /\ Permits /\ Places
    BY DEF IInv
<1>2. /\ sem' = Give(sem, 1) /\ UNCHANGED <<flag, files, quarantine, rp, drain, history>>
      /\ \/ pc[s] = "appended" /\ pc' = [pc EXCEPT ![s] = "queued"] /\ written' = written
         \/ pc[s] = "writing" /\ pc' = [pc EXCEPT ![s] = "error"] /\ written' = written
         \/ pc[s] = "writing" /\ pc' = [pc EXCEPT ![s] = "saved"] /\ written' = [written EXCEPT ![s] = @ + 1]
    BY DEF AnswerQueued, AnswerWritten
<1>3. /\ IsSemaphore(Give(sem, 1), Tasks) /\ Sum(Give(sem, 1)) = Sum(sem) + 1
      /\ \A p : Suspended(Give(sem, 1), p) <=> Suspended(sem, p)
    BY <1>1, SumOfGive, GiveConserves DEF Types
<1>4. pc'[s] \in Answered /\ pc' = [pc EXCEPT ![s] = pc'[s]]
    BY <1>1, <1>2 DEF Types, Answered
<1>5. Types'
    <2>1. pc' \in [Saves -> {"idle", "wait", "opening", "opened", "appended", "writing"} \cup Answered]
        BY <1>1, <1>4 DEF Types
    <2>2. written' \in [Saves -> Nat]
        BY <1>1, <1>2 DEF Types
    <2>3. IsSemaphore(sem', Tasks)
        BY <1>2, <1>3
    <2> QED BY <1>1, <1>2, <2>1, <2>2, <2>3 DEF Types
<1>6. Permits'
    <2>1. pc[s] \in Working /\ pc'[s] \notin Working /\ ~Suspended(sem, s)
        BY <1>1, <1>2, <1>4, TasksApart DEF Working, Answered, Permits, WaitersKnown, Waits
    <2>2. /\ Sum(sem') = Sum(sem) + ((IF pc[s] \in Working THEN 1 ELSE 0) - (IF pc'[s] \in Working THEN 1 ELSE 0))
          /\ \A p : Suspended(sem', p) <=> Suspended(sem, p)
        BY <1>2, <1>3, <2>1
    <2> QED BY <1>1, <1>2, <1>4, <1>5, <2>1, <2>2, SavePermits
<1>7. CASE written' = written
    <2>1. HandlesNamed'
        BY <1>1, <1>2 DEF Places, HandlesNamed
    <2>2. \A k \in Saves : /\ pc'[k] \in Before => pc[k] \in Before
                           /\ pc'[k] \in {"appended", "queued"} => pc[k] \in {"appended", "queued"}
        <3>1. \A k \in Saves : k # s => pc'[k] = pc[k]
            BY <1>1, <1>4 DEF Types
        <3>2. pc'[s] \notin Before /\ (pc'[s] \in {"appended", "queued"} => pc[s] \in {"appended", "queued"})
            <4>1. pc'[s] \notin Before
                BY <1>4 DEF Before, Answered
            <4>2. pc'[s] = "queued" => pc[s] = "appended"
                <5>1. \A a : pc' = [pc EXCEPT ![s] = a] => pc'[s] = a
                    BY <1>1 DEF Types
                <5> QED BY <1>2, <5>1
            <4> QED BY <1>4, <4>1, <4>2 DEF Answered
        <3> QED BY <3>1, <3>2
    <2>3. Places'
        BY <1>1, <1>2, <1>5, <1>7, <2>1, <2>2, CalmPlaces
    <2> QED BY <1>5, <1>6, <2>3 DEF IInv
<1>8. CASE pc[s] = "writing" /\ pc' = [pc EXCEPT ![s] = "saved"] /\ written' = [written EXCEPT ![s] = @ + 1]
    <2>1. OneSource /\ LinesInHand /\ HandlesNamed /\ StillKept
        BY <1>1 DEF Places
    <2>2. pc[s] \in Before /\ pc'[s] = "saved"
        BY <1>1, <1>8 DEF Before, Types
    <2>3. s \notin Lines(file["pending"]) /\ written[s] = 0 /\ \A r \in Repairs : s \notin Lines(lines[r])
        BY <2>1, <2>2 DEF OneSource
    <2>4. \A k \in Saves : k # s => pc'[k] = pc[k] /\ written'[k] = written[k]
        BY <1>1, <1>8 DEF Types
    <2>5. written'[s] = 1
        BY <1>1, <1>8, <2>3 DEF Types
    <2>6. OneSource'
        <3> SUFFICES ASSUME NEW k \in Saves
                     PROVE /\ written'[k] \in {0, 1}
                           /\ pc'[k] \in Before \/ k \in Lines(file["pending"]) =>
                                 written'[k] = 0 /\ \A r \in Repairs : k \notin Lines(lines[r])
                           /\ pc'[k] \in Before => k \notin Lines(file["pending"])
                           /\ \A r, d \in Repairs : k \in Lines(lines[r]) =>
                                 written'[k] = 0 /\ (k \in Lines(lines[d]) => r = d)
            BY <1>2, <2>1 DEF OneSource
        <3>1. CASE k = s
            BY <2>2, <2>3, <2>5, <3>1 DEF Before
        <3>2. CASE k # s
            BY <2>1, <2>4, <3>2 DEF OneSource
        <3> QED BY <3>1, <3>2
    <2>7. LinesInHand' /\ HandlesNamed'
        BY <1>2, <2>1 DEF LinesInHand, HandlesNamed
    <2>8. StillKept'
        <3>1. InDrain' = InDrain
            BY <1>2 DEF InDrain
        <3> QED BY <1>2, <2>1, <2>2, <2>4, <3>1 DEF StillKept
    <2>9. Places'
        BY <2>6, <2>7, <2>8 DEF Places
    <2> QED BY <1>5, <1>6, <2>9 DEF IInv
<1> QED
    BY <1>2, <1>7, <1>8

-----------------------------------------------------------------------------
(* The steps of a repair                                                   *)

\* /repair starts, or is refused.
LEMMA StartKeeps ==
    ASSUME IInv, NEW r \in Repairs, RepairStarts(r)
    PROVE  IInv'
<1> USE DEF files, drain, history
<1>1. Types /\ Permits /\ Places
    BY DEF IInv
<1>2. /\ rp[r] = "idle" /\ flag' \in {"no"} \cup Modes
      /\ rp' = [rp EXCEPT ![r] = rp'[r]] /\ rp'[r] \in {"acquire", "done"}
      /\ UNCHANGED <<sem, pc, files, quarantine, written, drain, history>>
    BY <1>1 DEF RepairStarts, Types
<1>3. Types'
    BY <1>1, <1>2 DEF Types
<1>4. Permits'
    <2>1. BooksOf(r) /\ ~Suspended(sem, r) /\ held[r] = 0 /\ Sum(sem) \in Nat
        BY <1>1, <1>2, TasksApart, SumType DEF Permits, RepairBooks, BooksOf, WaitersKnown, Waits, Types
    <2>2. Need(r)' = Need(r) /\ Need(r) \in Nat \ {0}
        BY <1>2, NeedType DEF Need
    <2>3. BooksOf(r)'
        BY <1>2, <2>1, <2>2 DEF BooksOf
    <2>4. held' = [held EXCEPT ![r] = held'[r]] /\ held'[r] = 0
        BY <1>1, <1>2, <2>1 DEF Types
    <2>5. Sum(sem') = Sum(sem) + ((held[r] + (IF rp[r] = "replay" THEN 1 ELSE 0))
                                   - (held'[r] + (IF rp'[r] = "replay" THEN 1 ELSE 0)))
        BY <1>2, <2>1, <2>4
    <2> QED BY <1>1, <1>2, <1>3, <2>1, <2>3, <2>4, <2>5, RepairPermits
<1>5. Places'
    <2>1. HandlesNamed'
        BY <1>1, <1>2 DEF Places, HandlesNamed
    <2>2. \A k \in Repairs : rp'[k] \in {"wait", "replay"} <=> rp[k] \in {"wait", "replay"}
        BY <1>1, <1>2 DEF Types
    <2> QED BY <1>1, <1>2, <1>3, <2>1, <2>2, CalmPlaces
<1> QED
    BY <1>3, <1>4, <1>5 DEF IInv

\* It takes permits, and goes on when it has all it needs.
LEMMA AcquireKeeps ==
    ASSUME IInv, NEW r \in Repairs, Acquire(r) \/ WakeRepair(r)
    PROVE  IInv'
<1> USE DEF files, history
<1>1. Types /\ Permits /\ Places /\ BooksOf(r)
    BY DEF IInv, Permits, RepairBooks
<1>2. /\ rp[r] = "acquire"
      /\ UNCHANGED <<flag, pc, files, quarantine, written, mode, lines, failed, history>>
    BY DEF Acquire, WakeRepair
<1>3. /\ Need(r) \in Nat /\ held[r] \in Nat /\ held[r] < Need(r) /\ r \in Tasks
      /\ Sum(sem) \in Nat /\ IsSemaphore(sem, Tasks)
    BY <1>1, <1>2, NeedType, SumType DEF Types, BooksOf, Tasks
<1>4. \E q, have :
        /\ AcquireLoop(r, q, have) /\ IsSemaphore(q, Tasks) /\ have \in Nat /\ have <= Need(r)
        /\ Sum(q) = Sum(sem) + (held[r] - have)
        /\ \A p : Suspended(q, p) <=> Suspended(sem, p) /\ p # r
    <2>1. CASE Acquire(r)
        <3>1. ~Suspended(sem, r) /\ AcquireLoop(r, sem, 0)
            BY <2>1 DEF Acquire
        <3>2. held[r] = 0
            BY <1>1, <1>2, <1>3, <3>1 DEF BooksOf
        <3>3. Sum(sem) = Sum(sem) + (held[r] - 0)
            BY <1>3, <3>2
        <3> QED BY <1>3, <3>1, <3>3
    <2>2. CASE WakeRepair(r)
        <3>1. r \in sem.woken /\ AcquireLoop(r, Resume(sem, r), held[r] + 1)
            BY <2>2 DEF WakeRepair
        <3>2. /\ IsSemaphore(Resume(sem, r), Tasks) /\ Sum(Resume(sem, r)) = Sum(sem) - 1
              /\ \A p : Suspended(Resume(sem, r), p) <=> Suspended(sem, p) /\ p # r
            BY <1>3, <3>1, SumOfResume, ResumeConserves
        <3>3. held[r] + 1 \in Nat /\ held[r] + 1 <= Need(r)
            BY <1>3
        <3>4. Sum(Resume(sem, r)) = Sum(sem) + (held[r] - (held[r] + 1))
            BY <1>3, <3>2
        <3> QED BY <3>1, <3>2, <3>3, <3>4
    <2> QED BY <2>1, <2>2
<1>5. PICK q, have :
        /\ AcquireLoop(r, q, have) /\ IsSemaphore(q, Tasks) /\ have \in Nat /\ have <= Need(r)
        /\ Sum(q) = Sum(sem) + (held[r] - have)
        /\ \A p : Suspended(q, p) <=> Suspended(sem, p) /\ p # r
    BY <1>4
<1> DEFINE n == Min({Need(r) - have, Available(q)})
           need == Need(r) - have
<1>6. need \in Nat /\ n = Min({need, Available(q)}) /\ ~Suspended(q, r)
    BY <1>3, <1>5
<1>7. /\ held' = [held EXCEPT ![r] = have + n]
      /\ \/ have + n = Need(r) /\ sem' = TakePermits(q, n) /\ rp' = [rp EXCEPT ![r] = "inside"]
         \/ have + n < Need(r) /\ sem' = Enqueue(TakePermits(q, n), r) /\ UNCHANGED rp
    BY <1>5 DEF AcquireLoop
<1> HIDE DEF n, need
<1>8. /\ n \in Nat /\ n <= need
      /\ IsSemaphore(TakePermits(q, n), Tasks) /\ Sum(TakePermits(q, n)) = Sum(q) - n
      /\ IsSemaphore(Enqueue(TakePermits(q, n), r), Tasks) /\ Sum(Enqueue(TakePermits(q, n), r)) = Sum(q) - n
      /\ \A p : Suspended(TakePermits(q, n), p) <=> Suspended(q, p)
      /\ \A p : Suspended(Enqueue(TakePermits(q, n), r), p) <=> Suspended(q, p) \/ p = r
    BY <1>3, <1>5, <1>6, AcquireLoopEffect
<1>9. /\ held'[r] = have + n /\ held' = [held EXCEPT ![r] = held'[r]] /\ held' \in [Repairs -> Nat]
      /\ rp' = [rp EXCEPT ![r] = rp'[r]] /\ rp'[r] \in {"inside", "acquire"}
      /\ rp'[r] = "inside" => held'[r] = Need(r)
      /\ rp'[r] = "acquire" => held'[r] < Need(r)
    <2>1. have + n \in Nat
        BY <1>5, <1>8
    <2>2. held'[r] = have + n /\ held' = [held EXCEPT ![r] = held'[r]] /\ held' \in [Repairs -> Nat]
        BY <1>1, <1>7, <2>1 DEF Types
    <2> QED BY <1>1, <1>2, <1>7, <2>2 DEF Types
<1>10. IsSemaphore(sem', Tasks) /\ Sum(sem') = Sum(sem) + (held[r] - held'[r])
    <2>1. Sum(sem') = Sum(q) - n /\ IsSemaphore(sem', Tasks)
        BY <1>7, <1>8
    <2>2. Sum(q) \in Nat
        BY <1>5, SumType
    <2> QED BY <1>3, <1>5, <1>8, <1>9, <2>1, <2>2
<1>11. /\ \A p : p # r => (Suspended(sem', p) <=> Suspended(sem, p))
       /\ Suspended(sem', r) <=> rp'[r] = "acquire"
    <2>1. CASE sem' = TakePermits(q, n) /\ rp' = [rp EXCEPT ![r] = "inside"]
        <3>1. rp'[r] = "inside"
            BY <1>1, <2>1 DEF Types
        <3> QED BY <1>5, <1>8, <2>1, <3>1
    <2>2. CASE sem' = Enqueue(TakePermits(q, n), r) /\ UNCHANGED rp
        BY <1>2, <1>5, <1>8, <2>2
    <2> QED BY <1>7, <2>1, <2>2
<1>12. Types'
    BY <1>1, <1>2, <1>9, <1>10 DEF Types
<1>13. Permits'
    <2>1. Need(r)' = Need(r)
        BY <1>2 DEF Need
    <2>2. BooksOf(r)'
        BY <1>9, <1>11, <2>1 DEF BooksOf
    <2>3. Sum(sem') = Sum(sem) + ((held[r] + (IF rp[r] = "replay" THEN 1 ELSE 0))
                                   - (held'[r] + (IF rp'[r] = "replay" THEN 1 ELSE 0)))
        <3>1. held'[r] \in Nat
            BY <1>9
        <3> QED BY <1>2, <1>3, <1>9, <1>10, <3>1
    <2> QED BY <1>1, <1>2, <1>9, <1>11, <1>12, <2>2, <2>3, RepairPermits
<1>14. Places'
    <2>1. HandlesNamed'
        BY <1>1, <1>2 DEF Places, HandlesNamed
    <2>2. \A k \in Repairs : rp'[k] \in {"wait", "replay"} <=> rp[k] \in {"wait", "replay"}
        BY <1>1, <1>2, <1>9 DEF Types
    <2> QED BY <1>1, <1>2, <1>12, <2>1, <2>2, CalmPlaces
<1> QED
    BY <1>12, <1>13, <1>14 DEF IInv

\* The rebuild or the prune ends and its permits go back.
LEMMA WorkEndsKeeps ==
    ASSUME IInv, NEW r \in Repairs, WorkEnds(r)
    PROVE  IInv'
<1> USE DEF files, history
<1>1. Types /\ Permits /\ Places
    BY DEF IInv
<1>2. /\ rp[r] = "inside" /\ sem' = Give(sem, held[r]) /\ held' = [held EXCEPT ![r] = 0]
      /\ rp' = [rp EXCEPT ![r] = rp'[r]] /\ rp'[r] \in {"released", "done"} /\ flag' \in {"no"} \cup Modes
      /\ UNCHANGED <<pc, files, quarantine, written, mode, lines, failed, history>>
    BY <1>1 DEF WorkEnds, Types
<1>3. /\ held[r] \in Nat /\ held'[r] = 0 /\ held' = [held EXCEPT ![r] = held'[r]] /\ held' \in [Repairs -> Nat]
      /\ IsSemaphore(sem, Tasks)
    BY <1>1, <1>2 DEF Types
<1>4. /\ IsSemaphore(sem', Tasks) /\ Sum(sem') = Sum(sem) + held[r]
      /\ \A p : Suspended(sem', p) <=> Suspended(sem, p)
    BY <1>2, <1>3, SumOfGive, GiveConserves
<1>5. Types'
    BY <1>1, <1>2, <1>3, <1>4 DEF Types
<1>6. Permits'
    <2>1. ~Suspended(sem, r)
        BY <1>1, <1>2, TasksApart DEF Permits, WaitersKnown, Waits
    <2>2. BooksOf(r)'
        BY <1>2, <1>3 DEF BooksOf
    <2>3. Sum(sem') = Sum(sem) + ((held[r] + (IF rp[r] = "replay" THEN 1 ELSE 0))
                                   - (held'[r] + (IF rp'[r] = "replay" THEN 1 ELSE 0)))
        BY <1>2, <1>3, <1>4
    <2> QED BY <1>1, <1>2, <1>3, <1>4, <1>5, <2>1, <2>2, <2>3, RepairPermits
<1>7. Places'
    <2>1. HandlesNamed'
        BY <1>1, <1>2 DEF Places, HandlesNamed
    <2>2. \A k \in Repairs : rp'[k] \in {"wait", "replay"} <=> rp[k] \in {"wait", "replay"}
        BY <1>1, <1>2 DEF Types
    <2> QED BY <1>1, <1>2, <1>5, <2>1, <2>2, CalmPlaces
<1> QED
    BY <1>5, <1>6, <1>7 DEF IInv

-----------------------------------------------------------------------------
(* The steps of a drain                                                    *)

\* The drain takes a permit for its next line, waits for one, or is through.
LEMMA NextLineEffect ==
    ASSUME Types, NEW r \in Repairs, NEW q, IsSemaphore(q, Tasks), ~Suspended(q, r),
           NEW rest \in Seq(Saves), NextLine(r, q, rest)
    PROVE  /\ lines' = [lines EXCEPT ![r] = rest] /\ IsSemaphore(sem', Tasks)
           /\ rp' = [rp EXCEPT ![r] = rp'[r]] /\ rp'[r] \in {"finish", "replay", "wait"}
           /\ rp'[r] \in {"wait", "replay"} <=> rest # <<>>
           /\ Sum(sem') = Sum(q) - (IF rp'[r] = "replay" THEN 1 ELSE 0)
           /\ \A p : p # r => (Suspended(sem', p) <=> Suspended(q, p))
           /\ Suspended(sem', r) => rp'[r] = "wait"
<1>1. r \in Tasks /\ Sum(q) \in Nat /\ \A a : rp' = [rp EXCEPT ![r] = a] => rp'[r] = a
    BY SumType DEF Tasks, Types
<1>2. lines' = [lines EXCEPT ![r] = rest]
    BY DEF NextLine
<1>3. CASE rest = <<>> /\ sem' = q /\ rp' = [rp EXCEPT ![r] = "finish"]
    <2>1. rp'[r] = "finish"
        BY <1>1, <1>3
    <2>2. Sum(sem') = Sum(q) - (IF rp'[r] = "replay" THEN 1 ELSE 0)
        BY <1>1, <1>3, <2>1
    <2> QED BY <1>2, <1>3, <2>1, <2>2
<1>4. CASE /\ rest # <<>> /\ Available(q) > 0
           /\ sem' = TakePermits(q, 1) /\ rp' = [rp EXCEPT ![r] = "replay"]
    <2>1. rp'[r] = "replay"
        BY <1>1, <1>4
    <2>2. 1 \in 0..Available(q)
        BY <1>4, AvailableBound
    <2>3. /\ IsSemaphore(TakePermits(q, 1), Tasks) /\ Sum(TakePermits(q, 1)) = Sum(q) - 1
          /\ \A p : Suspended(TakePermits(q, 1), p) <=> Suspended(q, p)
        BY <2>2, SumOfTake, TakeConserves
    <2> QED BY <1>1, <1>2, <1>4, <2>1, <2>3
<1>5. CASE rest # <<>> /\ sem' = Enqueue(q, r) /\ rp' = [rp EXCEPT ![r] = "wait"]
    <2>1. rp'[r] = "wait"
        BY <1>1, <1>5
    <2>2. /\ IsSemaphore(Enqueue(q, r), Tasks) /\ Sum(Enqueue(q, r)) = Sum(q)
          /\ \A p : Suspended(Enqueue(q, r), p) <=> Suspended(q, p) \/ p = r
        BY <1>1, SumOfEnqueue, EnqueueConserves
    <2>3. Sum(sem') = Sum(q) - (IF rp'[r] = "replay" THEN 1 ELSE 0)
        BY <1>1, <1>5, <2>1, <2>2
    <2> QED BY <1>2, <1>5, <2>1, <2>2, <2>3
<1> QED
    BY <1>3, <1>4, <1>5 DEF NextLine

\* The flag is cleared and the pending file, if there is one, claimed.
LEMMA ClaimKeeps ==
    ASSUME IInv, NEW r \in Repairs, ClearAndClaim(r)
    PROVE  IInv'
<1> USE DEF files, history
<1>1. Types /\ Permits /\ Places
    BY DEF IInv
<1>2. /\ rp[r] = "released" /\ flag' = "no"
      /\ UNCHANGED <<pc, quarantine, written, mode, held, failed, history>>
    BY DEF ClearAndClaim
<1>3. /\ ~Suspended(sem, r) /\ held[r] = 0 /\ held'[r] = 0 /\ held' = [held EXCEPT ![r] = held'[r]]
      /\ IsSemaphore(sem, Tasks) /\ Sum(sem) \in Nat
    BY <1>1, <1>2, TasksApart, SumType
       DEF Permits, WaitersKnown, Waits, RepairBooks, BooksOf, Types
<1>4. ASSUME rp' = [rp EXCEPT ![r] = rp'[r]], rp'[r] \in {"finish", "replay", "wait", "done"}, Types',
             Sum(sem') = Sum(sem) - (IF rp'[r] = "replay" THEN 1 ELSE 0),
             \A p : p # r => (Suspended(sem', p) <=> Suspended(sem, p)),
             Suspended(sem', r) => rp'[r] = "wait"
      PROVE  Permits'
    <2>1. BooksOf(r)'
        BY <1>3, <1>4 DEF BooksOf
    <2>2. Sum(sem') = Sum(sem) + ((held[r] + (IF rp[r] = "replay" THEN 1 ELSE 0))
                                   - (held'[r] + (IF rp'[r] = "replay" THEN 1 ELSE 0)))
        BY <1>2, <1>3, <1>4
    <2> QED BY <1>1, <1>2, <1>3, <1>4, <2>1, <2>2, RepairPermits
<1>5. CASE rp' = [rp EXCEPT ![r] = "done"] /\ UNCHANGED <<handle, exists, file, sem, lines>>
    <2>1. rp'[r] = "done" /\ rp' = [rp EXCEPT ![r] = rp'[r]]
        BY <1>1, <1>5 DEF Types
    <2>2. Types'
        BY <1>1, <1>2, <1>5 DEF Types
    <2>3. Sum(sem') = Sum(sem) - (IF rp'[r] = "replay" THEN 1 ELSE 0)
        BY <1>3, <1>5, <2>1
    <2>4. Permits'
        BY <1>3, <1>4, <1>5, <2>1, <2>2, <2>3
    <2>5. HandlesNamed'
        BY <1>1, <1>5 DEF Places, HandlesNamed
    <2>6. \A k \in Repairs : rp'[k] \in {"wait", "replay"} <=> rp[k] \in {"wait", "replay"}
        BY <1>1, <1>2, <2>1 DEF Types
    <2>7. Places'
        BY <1>1, <1>2, <1>5, <2>2, <2>5, <2>6, CalmPlaces
    <2> QED BY <2>2, <2>4, <2>7 DEF IInv
<1>6. CASE /\ "pending" \in exists /\ exists' = {"proc"}
           /\ file' = [file EXCEPT !["pending"] = <<>>, !["proc"] = file["pending"]]
           /\ handle' = [s \in Saves |-> CASE handle[s] = "pending" -> "proc"
                                           [] handle[s] = "proc"    -> "gone"
                                           [] OTHER                 -> handle[s]]
           /\ NextLine(r, sem, file["pending"])
    <2>1. file["pending"] \in Seq(Saves)
        BY <1>1 DEF Types, Names
    <2>2. /\ lines' = [lines EXCEPT ![r] = file["pending"]] /\ IsSemaphore(sem', Tasks)
          /\ rp' = [rp EXCEPT ![r] = rp'[r]] /\ rp'[r] \in {"finish", "replay", "wait"}
          /\ rp'[r] \in {"wait", "replay"} <=> file["pending"] # <<>>
          /\ Sum(sem') = Sum(sem) - (IF rp'[r] = "replay" THEN 1 ELSE 0)
          /\ \A p : p # r => (Suspended(sem', p) <=> Suspended(sem, p))
          /\ Suspended(sem', r) => rp'[r] = "wait"
        BY <1>1, <1>3, <1>6, <2>1, NextLineEffect
    <2>3. file' \in [Names -> Seq(Saves)] /\ file'["pending"] = <<>>
        <3>1. <<>> \in Seq(Saves) /\ "pending" \in Names /\ "proc" \in Names /\ "pending" # "proc"
            BY DEF Names
        <3>2. file \in [Names -> Seq(Saves)]
            BY <1>1 DEF Types
        <3>3. /\ DOMAIN file' = Names /\ file'["pending"] = <<>> /\ file'["proc"] = file["pending"]
              /\ \A n \in Names : n \in {"pending", "proc"}
            BY <1>6, <3>1, <3>2 DEF Names
        <3>4. \A n \in Names : file'[n] \in Seq(Saves)
            BY <2>1, <3>1, <3>3
        <3> QED BY <1>6, <3>1, <3>2, <3>3, <3>4
    <2>4. handle' \in [Saves -> Names \cup {"none", "gone"}] /\ \A s \in Saves : handle'[s] # "pending"
        BY <1>1, <1>6 DEF Types, Names
    <2>5. Types'
        BY <1>1, <1>2, <1>6, <2>1, <2>2, <2>3, <2>4 DEF Types, Names
    <2>6. Permits'
        BY <1>4, <2>2, <2>5
    <2>7. OneSource /\ LinesInHand /\ HandlesNamed /\ StillKept
        BY <1>1 DEF Places
    <2>8. lines[r] = <<>> /\ lines'[r] = file["pending"] /\ \A k \in Repairs \ {r} : lines'[k] = lines[k]
        BY <1>1, <1>2, <2>2, <2>7 DEF LinesInHand, Types
    <2>9. OneSource'
        <3>1. Distinct(file'["pending"]) /\ Lines(file'["pending"]) = {}
            BY <2>3, NoLines
        <3>2. \A k \in Repairs : Distinct(lines'[k])
            BY <2>7, <2>8 DEF OneSource
        <3> SUFFICES ASSUME NEW s \in Saves
                     PROVE /\ written[s] \in {0, 1}
                           /\ pc[s] \in Before => written[s] = 0 /\ \A k \in Repairs : s \notin Lines(lines'[k])
                           /\ \A k, d \in Repairs : s \in Lines(lines'[k]) =>
                                 written[s] = 0 /\ (s \in Lines(lines'[d]) => k = d)
            BY <1>2, <3>1, <3>2 DEF OneSource
        <3>3. /\ written[s] \in {0, 1}
              /\ pc[s] \in Before => /\ written[s] = 0 /\ s \notin Lines(file["pending"])
                                      /\ \A k \in Repairs : s \notin Lines(lines[k])
              /\ s \in Lines(file["pending"]) => written[s] = 0 /\ \A k \in Repairs : s \notin Lines(lines[k])
              /\ \A k, d \in Repairs : s \in Lines(lines[k]) => written[s] = 0 /\ (s \in Lines(lines[d]) => k = d)
            BY <2>7 DEF OneSource
        <3> QED BY <2>8, <3>3
    <2>10. LinesInHand'
        <3> SUFFICES ASSUME NEW k \in Repairs PROVE rp'[k] \in {"wait", "replay"} <=> lines'[k] # <<>>
            BY DEF LinesInHand
        <3>1. CASE k = r
            BY <2>2, <2>8, <3>1
        <3>2. CASE k # r
            <4>1. rp'[k] = rp[k]
                BY <1>1, <2>2, <3>2 DEF Types
            <4> QED BY <2>7, <2>8, <3>2, <4>1 DEF LinesInHand
        <3> QED BY <3>1, <3>2
    <2>11. HandlesNamed'
        BY <2>4 DEF HandlesNamed
    <2>12. StillKept'
        <3>1. InDrain' = InDrain \cup Lines(file["pending"])
            <4>1. \A x : x \in InDrain' <=> \E k \in Repairs : x \in Lines(lines'[k]) \/ x \in failed[k]
                BY <1>2 DEF InDrain
            <4>2. \A x : x \in InDrain <=> \E k \in Repairs : x \in Lines(lines[k]) \/ x \in failed[k]
                BY DEF InDrain
            <4>3. Lines(lines[r]) = {} /\ Lines(lines'[r]) = Lines(file["pending"])
                BY <2>8, NoLines
            <4>4. \A x : x \in InDrain' <=> x \in InDrain \/ x \in Lines(file["pending"])
                BY <2>8, <4>1, <4>2, <4>3
            <4> QED BY <4>4
        <3> QED BY <1>2, <2>7, <3>1 DEF StillKept
    <2>13. Places'
        BY <2>9, <2>10, <2>11, <2>12 DEF Places
    <2> QED BY <2>5, <2>6, <2>13 DEF IInv
<1> QED
    BY <1>5, <1>6 DEF ClearAndClaim

\* The drain is handed the permit it waited for.
LEMMA WakeDrainKeeps ==
    ASSUME IInv, NEW r \in Repairs, WakeDrain(r)
    PROVE  IInv'
<1> USE DEF files, drain, history
<1>1. Types /\ Permits /\ Places
    BY DEF IInv
<1>2. /\ rp[r] = "wait" /\ r \in sem.woken /\ sem' = Resume(sem, r) /\ rp' = [rp EXCEPT ![r] = "replay"]
      /\ UNCHANGED <<flag, pc, files, quarantine, written, drain, history>>
    BY DEF WakeDrain
<1>3. /\ rp'[r] = "replay" /\ rp' = [rp EXCEPT ![r] = rp'[r]] /\ held[r] = 0 /\ held'[r] = 0
      /\ held' = [held EXCEPT ![r] = held'[r]] /\ IsSemaphore(sem, Tasks) /\ Sum(sem) \in Nat
    BY <1>1, <1>2, SumType DEF Types, Permits, RepairBooks, BooksOf
<1>4. /\ IsSemaphore(sem', Tasks) /\ Sum(sem') = Sum(sem) - 1
      /\ \A p : Suspended(sem', p) <=> Suspended(sem, p) /\ p # r
    BY <1>2, <1>3, SumOfResume, ResumeConserves
<1>5. Types'
    BY <1>1, <1>2, <1>4 DEF Types
<1>6. Permits'
    <2>1. BooksOf(r)'
        BY <1>3 DEF BooksOf
    <2>2. Sum(sem') = Sum(sem) + ((held[r] + (IF rp[r] = "replay" THEN 1 ELSE 0))
                                   - (held'[r] + (IF rp'[r] = "replay" THEN 1 ELSE 0)))
        BY <1>2, <1>3, <1>4
    <2> QED BY <1>1, <1>2, <1>3, <1>4, <1>5, <2>1, <2>2, RepairPermits
<1>7. Places'
    <2>1. HandlesNamed'
        BY <1>1, <1>2 DEF Places, HandlesNamed
    <2>2. \A k \in Repairs : rp'[k] \in {"wait", "replay"} <=> rp[k] \in {"wait", "replay"}
        BY <1>1, <1>2, <1>3 DEF Types
    <2> QED BY <1>1, <1>2, <1>5, <2>1, <2>2, CalmPlaces
<1> QED
    BY <1>5, <1>6, <1>7 DEF IInv

\* A line was replayed, or failed, and the drain turns to the next.
LEMMA ReplayedKeeps ==
    ASSUME IInv, NEW r \in Repairs, Replayed(r)
    PROVE  IInv'
<1> USE DEF files, history
<1> DEFINE s == Head(lines[r])
<1>1. Types /\ Permits /\ OneSource /\ LinesInHand /\ HandlesNamed /\ StillKept
    BY DEF IInv, Places
<1>2. /\ rp[r] = "replay" /\ NextLine(r, Give(sem, 1), Tail(lines[r]))
      /\ \/ written' = [written EXCEPT ![s] = @ + 1] /\ failed' = failed
         \/ failed' = [failed EXCEPT ![r] = @ \cup {s}] /\ written' = written
      /\ UNCHANGED <<flag, pc, files, quarantine, mode, held, history>>
    BY DEF Replayed
<1>3. lines[r] \in Seq(Saves) /\ lines[r] # <<>>
    BY <1>1, <1>2 DEF Types, LinesInHand
<1>4. /\ Tail(lines[r]) \in Seq(Saves) /\ s \in Saves
      /\ Lines(lines[r]) = Lines(Tail(lines[r])) \cup {s}
      /\ Distinct(Tail(lines[r])) /\ s \notin Lines(Tail(lines[r]))
    BY <1>1, <1>3, LinesTail DEF OneSource
<1> HIDE DEF s
<1>5. /\ ~Suspended(sem, r) /\ held[r] = 0 /\ held'[r] = 0 /\ held' = [held EXCEPT ![r] = held'[r]]
      /\ IsSemaphore(sem, Tasks) /\ Sum(sem) \in Nat
    BY <1>1, <1>2, TasksApart, SumType
       DEF Permits, WaitersKnown, Waits, RepairBooks, BooksOf, Types
<1>6. /\ IsSemaphore(Give(sem, 1), Tasks) /\ Sum(Give(sem, 1)) = Sum(sem) + 1
      /\ \A p : Suspended(Give(sem, 1), p) <=> Suspended(sem, p)
    <2>1. IsSemaphore(sem, Tasks) /\ 1 \in Nat
        BY <1>5
    <2>2. IsSemaphore(Give(sem, 1), Tasks) /\ Sum(Give(sem, 1)) = Sum(sem) + 1
        BY <2>1, SumOfGive
    <2> QED BY <2>1, <2>2, GiveConserves
<1>7. /\ lines' = [lines EXCEPT ![r] = Tail(lines[r])] /\ IsSemaphore(sem', Tasks)
      /\ rp' = [rp EXCEPT ![r] = rp'[r]] /\ rp'[r] \in {"finish", "replay", "wait"}
      /\ rp'[r] \in {"wait", "replay"} <=> Tail(lines[r]) # <<>>
      /\ Sum(sem') = Sum(Give(sem, 1)) - (IF rp'[r] = "replay" THEN 1 ELSE 0)
      /\ \A p : p # r => (Suspended(sem', p) <=> Suspended(Give(sem, 1), p))
      /\ Suspended(sem', r) => rp'[r] = "wait"
    <2>1. ~Suspended(Give(sem, 1), r)
        BY <1>5, <1>6
    <2> QED BY <1>1, <1>2, <1>4, <1>6, <2>1, NextLineEffect
<1>8. /\ lines'[r] = Tail(lines[r]) /\ \A k \in Repairs \ {r} : lines'[k] = lines[k] /\ rp'[k] = rp[k]
      /\ lines' \in [Repairs -> Seq(Saves)]
    BY <1>1, <1>4, <1>7 DEF Types
<1>9. written' \in [Saves -> Nat] /\ failed' \in [Repairs -> SUBSET Saves]
    <2>1. written[s] + 1 \in Nat /\ failed[r] \cup {s} \in SUBSET Saves
        BY <1>1, <1>4 DEF Types
    <2>2. written \in [Saves -> Nat] /\ failed \in [Repairs -> SUBSET Saves]
        BY <1>1 DEF Types
    <2> QED BY <1>2, <2>1, <2>2
<1>10. Types'
    BY <1>1, <1>2, <1>7, <1>8, <1>9 DEF Types
<1>11. Permits'
    <2>1. BooksOf(r)'
        BY <1>5, <1>7 DEF BooksOf
    <2>2. Sum(sem') = Sum(sem) + ((held[r] + (IF rp[r] = "replay" THEN 1 ELSE 0))
                                   - (held'[r] + (IF rp'[r] = "replay" THEN 1 ELSE 0)))
        BY <1>2, <1>5, <1>6, <1>7
    <2>3. \A p : p # r => (Suspended(sem', p) <=> Suspended(sem, p))
        BY <1>6, <1>7
    <2> QED BY <1>1, <1>2, <1>5, <1>7, <1>10, <2>1, <2>2, <2>3, RepairPermits
<1>12. written[s] = 0 /\ pc[s] \notin Before /\ s \notin Lines(file["pending"])
       /\ \A k \in Repairs \ {r} : s \notin Lines(lines[k])
    <2>1. s \in Lines(lines[r])
        BY <1>4
    <2> QED BY <1>1, <1>4, <2>1 DEF OneSource
<1>13. \A k \in Repairs : s \notin Lines(lines'[k]) /\ Distinct(lines'[k])
    BY <1>1, <1>4, <1>8, <1>12 DEF OneSource
<1>14. written'[s] \in {0, 1} /\ \A x \in Saves : x # s => written'[x] = written[x]
    BY <1>1, <1>2, <1>4, <1>12 DEF Types
<1>15. OneSource'
    <2> SUFFICES ASSUME NEW x \in Saves
                 PROVE /\ written'[x] \in {0, 1}
                       /\ pc[x] \in Before \/ x \in Lines(file["pending"]) =>
                             written'[x] = 0 /\ \A k \in Repairs : x \notin Lines(lines'[k])
                       /\ pc[x] \in Before => x \notin Lines(file["pending"])
                       /\ \A k, d \in Repairs : x \in Lines(lines'[k]) =>
                             written'[x] = 0 /\ (x \in Lines(lines'[d]) => k = d)
        BY <1>1, <1>2, <1>13 DEF OneSource
    <2>1. CASE x = s
        BY <1>12, <1>13, <1>14, <2>1
    <2>2. CASE x # s
        <3>1. \A k \in Repairs : x \in Lines(lines'[k]) <=> x \in Lines(lines[k])
            BY <1>4, <1>8, <2>2
        <3>2. written'[x] = written[x]
            BY <1>14, <2>2
        <3>3. /\ written[x] \in {0, 1}
              /\ pc[x] \in Before \/ x \in Lines(file["pending"]) =>
                    written[x] = 0 /\ \A k \in Repairs : x \notin Lines(lines[k])
              /\ pc[x] \in Before => x \notin Lines(file["pending"])
              /\ \A k, d \in Repairs : x \in Lines(lines[k]) =>
                    written[x] = 0 /\ (x \in Lines(lines[d]) => k = d)
            BY <1>1 DEF OneSource
        <3> QED BY <3>1, <3>2, <3>3
    <2> QED BY <2>1, <2>2
<1>16. LinesInHand'
    <2> SUFFICES ASSUME NEW k \in Repairs PROVE rp'[k] \in {"wait", "replay"} <=> lines'[k] # <<>>
        BY DEF LinesInHand
    <2>1. CASE k = r
        BY <1>7, <1>8, <2>1
    <2>2. CASE k # r
        BY <1>1, <1>8, <2>2 DEF LinesInHand
    <2> QED BY <2>1, <2>2
<1>17. HandlesNamed'
    BY <1>1, <1>2 DEF HandlesNamed
<1>18. StillKept'
    <2>1. \A x : x \in InDrain' <=> \E k \in Repairs : x \in Lines(lines'[k]) \/ x \in failed'[k]
        BY DEF InDrain
    <2>2. \A x : x \in InDrain <=> \E k \in Repairs : x \in Lines(lines[k]) \/ x \in failed[k]
        BY DEF InDrain
    <2>3. \A k \in Repairs : failed[k] \subseteq failed'[k]
        BY <1>1, <1>2 DEF Types
    <2>4. \A k \in Repairs : \A x : x \in Lines(lines[k]) => x = s \/ x \in Lines(lines'[k])
        BY <1>4, <1>8
    <2>5. \A x : x \in InDrain => x = s \/ x \in InDrain'
        BY <2>1, <2>2, <2>3, <2>4
    <2>6. written'[s] > 0 \/ s \in InDrain'
        <3>1. CASE written' = [written EXCEPT ![s] = @ + 1]
            BY <1>1, <1>4, <1>12, <3>1 DEF Types
        <3>2. CASE failed' = [failed EXCEPT ![r] = @ \cup {s}]
            <4>1. s \in failed'[r]
                BY <1>1, <3>2 DEF Types
            <4> QED BY <2>1, <4>1
        <3> QED BY <1>2, <3>1, <3>2
    <2> SUFFICES ASSUME NEW x \in Saves, pc[x] \in {"appended", "queued"}, x \notin exposed \cup overwritten
                 PROVE \/ written'[x] > 0 \/ x \in quarantine \cup InDrain'
                       \/ "pending" \in exists /\ x \in Lines(file["pending"])
        BY <1>2 DEF StillKept
    <2>7. CASE x = s
        BY <2>6, <2>7
    <2>8. CASE x # s
        <3>1. \/ written[x] > 0 \/ x \in quarantine \cup InDrain
              \/ "pending" \in exists /\ x \in Lines(file["pending"])
            BY <1>1 DEF StillKept
        <3>2. written'[x] = written[x]
            BY <1>14, <2>8
        <3> QED BY <2>5, <2>8, <3>1, <3>2
    <2> QED BY <2>7, <2>8
<1> QED
    BY <1>10, <1>11, <1>15, <1>16, <1>17, <1>18 DEF IInv, Places

\* The drain quarantines what failed and removes its file.
LEMMA FinishKeeps ==
    ASSUME IInv, NEW r \in Repairs, Finish(r)
    PROVE  IInv'
<1> USE DEF drain, history
<1>1. Types /\ Permits /\ OneSource /\ LinesInHand /\ HandlesNamed /\ StillKept
    BY DEF IInv, Places
<1>2. /\ rp[r] = "finish" /\ rp' = [rp EXCEPT ![r] = "done"] /\ Quarantines(r)
      /\ exists' = exists \ {"proc"} /\ file' = [file EXCEPT !["proc"] = <<>>]
      /\ handle' = [s \in Saves |-> IF handle[s] = "proc" THEN "gone" ELSE handle[s]]
      /\ failed' = [failed EXCEPT ![r] = {}]
      /\ UNCHANGED <<sem, flag, pc, written, mode, held, lines, stops, exposed>>
    BY DEF Finish
<1>11. failed \in [Repairs -> SUBSET Saves] /\ quarantine \subseteq Saves /\ newest \subseteq Saves
       /\ overwritten \subseteq Saves
    BY <1>1 DEF Types
<1>12. /\ failed[r] \subseteq quarantine' /\ quarantine \subseteq quarantine' \cup overwritten'
       /\ overwritten \subseteq overwritten'
       /\ quarantine' \subseteq Saves /\ newest' \subseteq Saves /\ overwritten' \subseteq Saves
    BY <1>2, <1>11 DEF Quarantines
<1>3. /\ rp'[r] = "done" /\ rp' = [rp EXCEPT ![r] = rp'[r]]
      /\ held[r] = 0 /\ held'[r] = 0 /\ held' = [held EXCEPT ![r] = held'[r]]
      /\ Sum(sem) \in Nat /\ ~Suspended(sem, r)
    BY <1>1, <1>2, SumType, TasksApart DEF Types, Permits, RepairBooks, BooksOf, WaitersKnown, Waits
<1>4. file' \in [Names -> Seq(Saves)] /\ file'["pending"] = file["pending"]
    <2>1. <<>> \in Seq(Saves) /\ "pending" \in Names /\ file \in [Names -> Seq(Saves)]
        BY <1>1 DEF Types, Names
    <2> QED BY <1>2, <2>1
<1>5. Types'
    <2>1. failed' \in [Repairs -> SUBSET Saves]
        BY <1>2, <1>11
    <2> QED BY <1>1, <1>2, <1>4, <1>12, <2>1 DEF Types, Names
<1>6. Permits'
    <2>1. BooksOf(r)'
        BY <1>3 DEF BooksOf
    <2>2. Sum(sem') = Sum(sem) + ((held[r] + (IF rp[r] = "replay" THEN 1 ELSE 0))
                                   - (held'[r] + (IF rp'[r] = "replay" THEN 1 ELSE 0)))
        BY <1>2, <1>3
    <2> QED BY <1>1, <1>2, <1>3, <1>5, <2>1, <2>2, RepairPermits
<1>7. OneSource'
    BY <1>1, <1>2, <1>4 DEF OneSource
<1>8. LinesInHand'
    BY <1>1, <1>2, <1>3 DEF LinesInHand, Types
<1>9. HandlesNamed'
    BY <1>1, <1>2 DEF HandlesNamed
<1>10. StillKept'
    <2> SUFFICES ASSUME NEW x \in Saves, pc[x] \in {"appended", "queued"},
                        x \notin exposed \cup overwritten'
                 PROVE \/ written[x] > 0 \/ x \in quarantine' \cup InDrain'
                       \/ "pending" \in exists' /\ x \in Lines(file'["pending"])
        BY <1>2 DEF StillKept
    <2>1. \/ written[x] > 0 \/ x \in quarantine \cup InDrain
          \/ "pending" \in exists /\ x \in Lines(file["pending"])
        BY <1>1, <1>12 DEF StillKept
    <2>2. CASE x \in quarantine
        BY <1>12, <2>2
    <2>3. CASE x \in InDrain
        <3>1. PICK k \in Repairs : x \in Lines(lines[k]) \/ x \in failed[k]
            BY <2>3 DEF InDrain
        <3>2. CASE x \in failed[r]
            BY <1>12, <3>2
        <3>3. CASE x \notin failed[r]
            <4>1. x \in Lines(lines'[k]) \cup failed'[k]
                BY <1>1, <1>2, <3>1, <3>3 DEF Types
            <4> QED BY <4>1 DEF InDrain
        <3> QED BY <3>2, <3>3
    <2>4. CASE "pending" \in exists /\ x \in Lines(file["pending"])
        BY <1>2, <1>4, <2>4
    <2> QED BY <2>1, <2>2, <2>3, <2>4
<1> QED
    BY <1>5, <1>6, <1>7, <1>8, <1>9, <1>10 DEF IInv, Places

-----------------------------------------------------------------------------
(* The start, and a stop at any moment                                     *)

\* A fresh semaphore and nobody at work: the permits are all there.
LEMMA FreshPermits ==
    ASSUME Types, sem = NewSemaphore(WriteCap), \A s \in Saves : pc[s] \notin Working,
           \A r \in Repairs : held[r] = 0 /\ rp[r] \in {"idle", "done"}
    PROVE  Permits
<1>1. WriteCap \in Nat
    BY SaveAssumption
<1>2. /\ NewSemaphore(WriteCap).free = WriteCap /\ Cardinality(NewSemaphore(WriteCap).woken) = 0
      /\ \A p : ~Suspended(NewSemaphore(WriteCap), p)
    BY <1>1, NewIsSemaphore
<1>3. Have \in [Tasks -> Nat] /\ \A p \in Tasks : Have[p] = 0
    BY HaveType DEF Tasks
<1>4. Shares(Have) = {}
    BY <1>3, NoShares
<1>5. Books
    BY <1>1, <1>2, <1>4, FS_EmptySet DEF Books, Sum
<1> QED
    BY <1>2, <1>5 DEF Permits, WaitersKnown, RepairBooks, BooksOf

\* The daemon is stopped and started.
LEMMA StopKeeps ==
    ASSUME IInv, StopAndStart
    PROVE  IInv'
<1>1. Types /\ Permits /\ OneSource /\ LinesInHand /\ HandlesNamed /\ StillKept
    BY DEF IInv, Places
<1>2. /\ stops < MaxStops /\ stops' = stops + 1
      /\ exposed' = exposed \cup Lines(file["proc"]) \cup InDrain
      /\ sem' = NewSemaphore(WriteCap) /\ flag' = "no"
      /\ pc' = [s \in Saves |-> IF pc[s] \in Answered \cup {"idle"} THEN pc[s] ELSE "error"]
      /\ handle' = [s \in Saves |-> "none"]
      /\ rp' = [r \in Repairs |-> IF rp[r] = "idle" THEN "idle" ELSE "done"]
      /\ held' = [r \in Repairs |-> 0] /\ lines' = [r \in Repairs |-> <<>>]
      /\ failed' = [r \in Repairs |-> {}]
      /\ UNCHANGED <<exists, file, quarantine, written, mode, newest, overwritten>>
    BY DEF StopAndStart
<1>3. IsSemaphore(sem', Tasks)
    <2>1. WriteCap \in Nat
        BY SaveAssumption
    <2> QED BY <1>2, <2>1, NewIsSemaphore
<1>4. InDrain \subseteq Saves /\ Lines(file["proc"]) \subseteq Saves
    <2>1. \A r \in Repairs : lines[r] \in Seq(Saves) /\ failed[r] \subseteq Saves
        BY <1>1 DEF Types
    <2>2. file["proc"] \in Seq(Saves)
        BY <1>1 DEF Types, Names
    <2>3. \A f \in Seq(Saves) : Lines(f) \subseteq Saves
        BY DEF Lines
    <2> QED BY <2>1, <2>2, <2>3 DEF InDrain
<1>5. stops' \in 0..MaxStops
    BY <1>1, <1>2, SaveAssumption DEF Types
<1>6. Types'
    <2>1. /\ pc' \in [Saves -> {"idle", "wait", "opening", "opened", "appended", "writing"} \cup Answered]
          /\ rp' \in [Repairs -> {"idle", "acquire", "inside", "released", "wait", "replay", "finish", "done"}]
        BY <1>1, <1>2 DEF Types, Answered
    <2>2. lines' \in [Repairs -> Seq(Saves)] /\ failed' \in [Repairs -> SUBSET Saves] /\ held' \in [Repairs -> Nat]
        BY <1>2
    <2>3. exposed' \subseteq Saves
        BY <1>1, <1>2, <1>4 DEF Types
    <2> QED BY <1>1, <1>2, <1>3, <1>5, <2>1, <2>2, <2>3 DEF Types
<1>7. \A s \in Saves : pc'[s] \in Answered \cup {"idle"} /\ (pc'[s] \in {"idle", "queued"} => pc'[s] = pc[s])
    BY <1>2 DEF Answered
<1>8. Permits'
    <2>1. \A s \in Saves : pc'[s] \notin Working
        BY <1>7 DEF Answered, Working
    <2>2. \A r \in Repairs : held'[r] = 0 /\ rp'[r] \in {"idle", "done"}
        BY <1>2
    <2>3. (/\ Types /\ sem = NewSemaphore(WriteCap) /\ \A s \in Saves : pc[s] \notin Working
           /\ \A r \in Repairs : held[r] = 0 /\ rp[r] \in {"idle", "done"}
           => Permits)'
        BY FreshPermits, PTL
    <2> QED BY <1>2, <1>6, <2>1, <2>2, <2>3
<1>9. OneSource'
    <2>1. \A r \in Repairs : Lines(lines'[r]) = {} /\ Distinct(lines'[r])
        BY <1>2, NoLines
    <2>2. \A s \in Saves : pc'[s] \in Before => pc[s] \in Before
        BY <1>7 DEF Answered, Before
    <2> QED BY <1>1, <1>2, <2>1, <2>2 DEF OneSource
<1>10. LinesInHand' /\ HandlesNamed'
    BY <1>2 DEF LinesInHand, HandlesNamed
<1>11. StillKept'
    <2> SUFFICES ASSUME NEW s \in Saves, pc'[s] \in {"appended", "queued"}, s \notin exposed' \cup overwritten
                 PROVE \/ written[s] > 0 \/ s \in quarantine
                       \/ "pending" \in exists /\ s \in Lines(file["pending"])
        BY <1>2 DEF StillKept
    <2>1. pc[s] = "queued" /\ s \notin exposed \cup overwritten /\ s \notin InDrain
        BY <1>2, <1>7 DEF Answered
    <2> QED BY <1>1, <2>1 DEF StillKept
<1> QED
    BY <1>6, <1>8, <1>9, <1>10, <1>11 DEF IInv, Places

-----------------------------------------------------------------------------

\* The invariant holds in every state that saves, repairs and stops reach.
THEOREM Invariance == Spec => []IInv
<1>1. Init => IInv
    <2> SUFFICES ASSUME Init PROVE IInv
        OBVIOUS
    <2> USE DEF Init
    <2>1. IsSemaphore(sem, Tasks)
        <3>1. WriteCap \in Nat
            BY SaveAssumption
        <3> QED BY <3>1, NewIsSemaphore
    <2>2. <<>> \in Seq(Saves) /\ 0 \in 0..MaxStops
        BY SaveAssumption
    <2>3. Types
        BY <2>1, <2>2 DEF Types
    <2>4. Permits
        BY <2>3, FreshPermits DEF Working
    <2>5. \A s : s \notin Lines(file["pending"]) /\ \A r \in Repairs : s \notin Lines(lines[r])
        BY NoLines DEF Names
    <2>6. OneSource
        BY <2>5, NoLines DEF OneSource, Names
    <2>7. LinesInHand /\ HandlesNamed /\ StillKept
        BY DEF LinesInHand, HandlesNamed, StillKept
    <2> QED BY <2>3, <2>4, <2>6, <2>7 DEF IInv, Places
<1>2. IInv /\ [Next]_vars => IInv'
    <2> SUFFICES ASSUME IInv, [Next]_vars PROVE IInv'
        OBVIOUS
    <2>1. ASSUME NEW s \in Saves, Arrive(s) \/ Save(s) PROVE IInv'
        BY <2>1, EntryKeeps, OpensKeeps, AppendsKeeps, AnswerKeeps DEF Save
    <2>2. ASSUME NEW r \in Repairs, RepairStarts(r) \/ Repair(r) PROVE IInv'
        BY <2>2, StartKeeps, AcquireKeeps, WorkEndsKeeps, ClaimKeeps, WakeDrainKeeps,
           ReplayedKeeps, FinishKeeps DEF Repair
    <2>3. CASE StopAndStart
        BY <2>3, StopKeeps
    <2>4. CASE UNCHANGED vars
        <3>1. Types' /\ WaitersKnown' /\ Books' /\ RepairBooks'
            BY <2>4 DEF IInv, Types, Permits, WaitersKnown, Waits, Books, Have, RepairBooks, BooksOf, Need,
                        vars
        <3>2. OneSource' /\ LinesInHand' /\ HandlesNamed' /\ StillKept'
            BY <2>4 DEF IInv, Places, OneSource, LinesInHand, HandlesNamed, StillKept, InDrain, vars
        <3> QED BY <3>1, <3>2 DEF IInv, Permits, Places
    <2> QED BY <2>1, <2>2, <2>3, <2>4 DEF Next
<1> QED
    BY <1>1, <1>2, PTL DEF Spec

\* Every variable keeps its type; neither the free permits nor those of a
\* repair exceed the permits of _write_sem.
THEOREM TypeCorrect == Spec => []TypeOK
<1>1. IInv => TypeOK
    <2> SUFFICES ASSUME IInv PROVE TypeOK
        OBVIOUS
    <2>1. Types /\ Books /\ RepairBooks
        BY DEF IInv, Permits
    <2>2. sem.free \in 0..WriteCap
        <3>1. sem.free \in Nat /\ Cardinality(sem.woken) \in Nat /\ Cardinality(Shares(Have)) \in Nat
            BY <2>1, SumType, FS_CardinalityType DEF Types, Books, IsSemaphore
        <3> QED BY <2>1, <3>1 DEF Books, Sum
    <2>3. ASSUME NEW r \in Repairs PROVE held[r] \in 0..WriteCap
        <3>1. held[r] \in Nat /\ Need(r) \in 1..WriteCap /\ WriteCap \in Nat /\ BooksOf(r)
            BY <2>1, NeedType, SaveAssumption DEF Types, RepairBooks
        <3> QED BY <3>1 DEF BooksOf
    <2> QED BY <2>1, <2>2, <2>3 DEF TypeOK, Types
<1> QED
    BY <1>1, Invariance, PTL

\* No diary entry is written while a rebuild replaces the collection, by a
\* save or by the drain of an earlier rebuild, and none is written twice.
THEOREM DiaryWritesCorrect == Spec => []DiaryWrites
<1>1. IInv => NoWriteInsideRebuild
    <2> SUFFICES ASSUME IInv, NEW r \in Repairs, rp[r] = "inside", mode[r] = "rebuild"
                 PROVE  /\ \A s \in Saves : pc[s] # "writing"
                        /\ \A d \in Repairs : rp[d] # "replay"
        BY DEF NoWriteInsideRebuild
    <2>1. Types /\ Books /\ RepairBooks
        BY DEF IInv, Permits
    <2>2. Have \in [Tasks -> Nat] /\ r \in Tasks /\ WriteCap \in Nat /\ IsFiniteSet(Shares(Have))
        BY <2>1, HaveType, SaveAssumption DEF Tasks, Books
    <2>3. Have[r] = WriteCap
        <3>1. held[r] = WriteCap
            BY <2>1 DEF RepairBooks, BooksOf, Need
        <3>2. Have[r] = held[r] + 0
            BY <2>1, HaveType
        <3> QED BY <2>2, <3>1, <3>2
    <2>4. Have[r] <= Cardinality(Shares(Have)) /\ \A p \in Tasks \ {r} : Have[r] + Have[p] <= Cardinality(Shares(Have))
        BY <2>2, SharesBound
    <2>5. WriteCap = Sum(sem) + Cardinality(Shares(Have)) /\ Sum(sem) \in Nat /\ Cardinality(Shares(Have)) \in Nat
        BY <2>1, <2>2, SumType, FS_CardinalityType DEF Books, Types
    <2>6. \A p \in Tasks \ {r} : Have[p] = 0
        BY <2>2, <2>3, <2>4, <2>5
    <2>7. ASSUME NEW s \in Saves PROVE pc[s] # "writing"
        <3>1. s \in Tasks \ {r} /\ Have[s] = IF pc[s] \in Working THEN 1 ELSE 0
            BY <2>1, TasksApart, HaveType DEF Tasks
        <3> QED BY <2>6, <3>1 DEF Working
    <2>8. ASSUME NEW d \in Repairs, d # r PROVE rp[d] # "replay"
        <3>1. d \in Tasks \ {r} /\ Have[d] = held[d] + (IF rp[d] = "replay" THEN 1 ELSE 0) /\ held[d] \in Nat
            BY <2>1, <2>8, HaveType DEF Tasks, Types
        <3> QED BY <2>6, <3>1
    <2> QED BY <2>7, <2>8
<1>2. IInv => WrittenOnce
    BY DEF IInv, Places, OneSource, WrittenOnce
<1> QED
    BY <1>1, <1>2, Invariance, PTL DEF DiaryWrites

\* A save answered "queued" is lost only if its line missed the pending file, a
\* drain had it when the daemon stopped, or its quarantine file was written over
\* in the second it was written.
THEOREM LostOnlyIfExposedCorrect == Spec => []LostOnlyIfExposed
<1>1. IInv => LostOnlyIfExposed
    BY DEF IInv, Places, StillKept, LostOnlyIfExposed, Kept
<1> QED
    BY <1>1, Invariance, PTL
=============================================================================
