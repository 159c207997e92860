-------------------------- MODULE HookIngestProofs --------------------------
(***************************************************************************)
(* Proofs about HookIngest, for any number of processes and transcripts.   *)
(*                                                                         *)
(* NothingLost is not inductive: Rewrite replaces the journal by what its  *)
(* drain kept, so the argument must know that a drain, at every point,     *)
(* still has in todo whatever nobody else answers for, unless it came into *)
(* the journal behind its back (DrainHas).                                 *)
(***************************************************************************)
EXTENDS HookIngest, Lemmas

Labels == {"idle", "ingest", "post", "wake", "command", "poll", "journal", "next"}

Process == [pc : Labels, t : Transcripts \cup {None}, drain : BOOLEAN, try : 0..2,
            leader : {"no", "lock", "null"}, todo : Seq(Transcripts), keep : Seq(Transcripts),
            processed : 0..MaxEntries]

\* What a process works on, by its place in the code.
Shape(q) ==
    /\ q.pc = "idle" => q.t = None /\ ~q.drain
    /\ q.pc = "next" => q.t = None /\ q.drain
    /\ q.pc \notin {"idle", "next"} => q.t \in Transcripts
    /\ q.drain => q.pc \in {"next", "ingest", "post"}
    /\ ~q.drain => q.keep = <<>>
    /\ q.leader # "no" => q.pc \in {"command", "poll"}

Types ==
    /\ up \in BOOLEAN
    /\ covered \subseteq Transcripts
    /\ gone \subseteq Transcripts /\ cut \subseteq Transcripts
    /\ journal \in Seq(Transcripts)
    /\ wakeLock \in Procs \cup {None}
    /\ late \in [Procs -> SUBSET Transcripts]
    /\ proc \in [Procs -> Process]
    /\ \A p \in Procs : Shape(proc[p])

\* Somebody other than the journal answers for t.
Safe(t) ==
    \/ t \in covered \cup gone \cup cut
    \/ \E p \in Procs : t \in InHand(p)

Journaled == \A t \in Transcripts : Safe(t) \/ Contains(journal, t)

\* A drain has not lost sight of what only the journal answers for, or it came
\* there behind its back.
DrainHas ==
    \A p \in Procs : proc[p].drain =>
        \A t \in Transcripts : Safe(t) \/ t \in ToSet(proc[p].todo) \/ t \in late[p]

Complete == Journaled /\ DrainHas

-----------------------------------------------------------------------------
(* Sequences                                                               *)

\* Dedup() drops repetitions and nothing else.
LEMMA DedupKeepsAll ==
    ASSUME NEW E, NEW s \in Seq(E)
    PROVE  Dedup(s) \in Seq(E) /\ ToSet(s) \subseteq ToSet(Dedup(s))
<1> DEFINE I == {i \in DOMAIN s : \A j \in 1..(i - 1) : s[j] # s[i]}
<1>1. I \in SUBSET (DOMAIN s)
    OBVIOUS
<1>2. /\ Pick(s, I) \in Seq(E)
      /\ Cardinality(I) \in Nat /\ Len(Pick(s, I)) = Cardinality(I)
      /\ \A i \in I : \E r \in 1..Cardinality(I) : Pick(s, I)[r] = s[i]
    <2> HIDE DEF I
    <2> QED
        BY <1>1, PickSound
<1>3. ASSUME NEW k \in DOMAIN s
      PROVE  \E i \in I : s[i] = s[k]
    <2> DEFINE K == {j \in 1..Len(s) : s[j] = s[k]}
    <2>1. Len(s) \in Nat /\ K \in SUBSET (1..Len(s)) /\ K # {} /\ DOMAIN s = 1..Len(s)
        OBVIOUS
    <2>2. PICK i \in K : \A j \in K : i <= j
        BY <2>1, LeastIndex
    <2>3. i \in Int /\ i \in DOMAIN s /\ s[i] = s[k]
        BY <2>1, <2>2
    <2>4. \A j \in 1..(i - 1) : s[j] # s[i]
        <3> SUFFICES ASSUME NEW j \in 1..(i - 1), s[j] = s[i] PROVE FALSE
            OBVIOUS
        <3>1. j \in 1..Len(s) /\ j < i
            BY <2>1, <2>3
        <3>2. j \in K
            BY <2>3, <3>1
        <3> QED
            BY <2>2, <2>3, <3>1, <3>2
    <2> QED
        BY <2>3, <2>4
<1>4. Dedup(s) = Pick(s, I)
    BY DEF Dedup
<1> HIDE DEF I
<1>5. ASSUME NEW k \in DOMAIN s
      PROVE  \E r \in DOMAIN Pick(s, I) : Pick(s, I)[r] = s[k]
    <2>1. PICK i \in I : s[i] = s[k]
        BY <1>3
    <2>2. DOMAIN Pick(s, I) = 1..Cardinality(I)
        BY <1>2
    <2> QED
        BY <1>2, <2>1, <2>2
<1> QED
    BY <1>2, <1>4, <1>5 DEF ToSet

\* Append() adds its element to the elements of a sequence.
LEMMA SetOfAppend ==
    ASSUME NEW E, NEW s \in Seq(E), NEW e \in E
    PROVE  ToSet(Append(s, e)) = ToSet(s) \cup {e}
<1> DEFINE a == Append(s, e)
<1>1. /\ Len(s) \in Nat /\ DOMAIN s = 1..Len(s) /\ DOMAIN a = 1..(Len(s) + 1)
      /\ a[Len(s) + 1] = e /\ \A i \in 1..Len(s) : a[i] = s[i]
    OBVIOUS
<1> HIDE DEF a
<1>2. \A i \in DOMAIN a : i \in DOMAIN s \/ i = Len(s) + 1
    BY <1>1
<1>3. ToSet(a) \subseteq ToSet(s) \cup {e}
    BY <1>1, <1>2 DEF ToSet
<1>4. DOMAIN s \subseteq DOMAIN a /\ Len(s) + 1 \in DOMAIN a
    BY <1>1
<1>5. e \in ToSet(a) /\ ToSet(s) \subseteq ToSet(a)
    BY <1>1, <1>4 DEF ToSet
<1> QED
    BY <1>3, <1>5 DEF a

\* Tail() drops no element but the head.
LEMMA SetOfTail ==
    ASSUME NEW E, NEW s \in Seq(E), s # <<>>
    PROVE  Head(s) \in E /\ Tail(s) \in Seq(E) /\ ToSet(s) \subseteq {Head(s)} \cup ToSet(Tail(s))
<1>1. Head(s) \in E /\ Tail(s) \in Seq(E)
    OBVIOUS
<1>2. ASSUME NEW i \in DOMAIN s
      PROVE  s[i] = Head(s) \/ s[i] \in ToSet(Tail(s))
    <2>1. CASE i = 1
        BY <2>1
    <2>2. CASE i # 1
        <3>1. i - 1 \in DOMAIN Tail(s) /\ Tail(s)[i - 1] = s[i]
            BY <2>2
        <3> QED
            BY <3>1 DEF ToSet
    <2> QED
        BY <2>1, <2>2
<1> QED
    BY <1>1, <1>2 DEF ToSet

-----------------------------------------------------------------------------
(* Types                                                                   *)

\* The initial states are well typed.
LEMMA InitTypes == Init => Types
<1> SUFFICES ASSUME Init PROVE Types
    OBVIOUS
<1>1. Idle \in Process /\ Shape(Idle)
    BY IngestAssumption DEF Idle, Process, Labels, Shape
<1>2. \A p \in Procs : proc[p] = Idle
    BY DEF Init
<1>3. proc \in [Procs -> Process]
    BY <1>1 DEF Init
<1> QED
    BY <1>1, <1>2, <1>3, IngestAssumption DEF Init, Types

\* A step of one process to a well-formed state keeps proc well typed.
LEMMA ProcTyped ==
    ASSUME Types, NEW p \in Procs, NEW q, q \in Process, Shape(q), proc' = [proc EXCEPT ![p] = q]
    PROVE  proc' \in [Procs -> Process] /\ \A r \in Procs : Shape(proc'[r])
BY DEF Types

\* What is given up are transcripts.
LEMMA GivenUpTyped ==
    ASSUME Types, NEW S, S \subseteq Transcripts
    PROVE  GivenUp(S) \subseteq Transcripts
BY DEF Types, GivenUp

\* The history of a drain holds transcripts.
LEMMA NotedTyped ==
    ASSUME Types, NEW p \in Procs, NEW S, S \subseteq Transcripts
    PROVE  Noted(p, S) \in [Procs -> SUBSET Transcripts]
<1>1. \A q \in Procs : late[q] \subseteq Transcripts
    BY DEF Types
<1>2. \A q \in Procs : late[q] \cup (S \ ToSet(proc[q].todo)) \subseteq Transcripts
    BY <1>1
<1> QED
    BY <1>2 DEF Noted

\* A process that is idle again is well formed.
LEMMA IdleTyped == Idle \in Process /\ Shape(Idle)
BY IngestAssumption DEF Idle, Process, Labels, Shape

\* Succeeded() leaves a well-formed process.
LEMMA SucceededTyped ==
    ASSUME Types, NEW p \in Procs, proc[p].pc \in {"ingest", "post"}, Succeeded(p)
    PROVE  proc' \in [Procs -> Process] /\ \A r \in Procs : Shape(proc'[r])
<1> DEFINE q == IF proc[p].drain THEN [proc[p] EXCEPT !.pc = "next", !.t = None] ELSE Idle
<1>1. proc' = [proc EXCEPT ![p] = q]
    BY DEF Succeeded
<1>2. proc[p] \in Process /\ Shape(proc[p])
    BY DEF Types
<1>3. q \in Process /\ Shape(q)
    BY <1>2, IdleTyped DEF Process, Labels, Shape
<1> QED
    BY <1>1, <1>3, ProcTyped

\* Failed() does, too.
LEMMA FailedTyped ==
    ASSUME Types, NEW p \in Procs, proc[p].pc \in {"ingest", "post"},
           Failed(p, TRUE) \/ Failed(p, FALSE)
    PROVE  proc' \in [Procs -> Process] /\ \A r \in Procs : Shape(proc'[r])
<1> DEFINE a == [proc[p] EXCEPT !.pc = "next", !.t = None, !.keep = Append(@, proc[p].t)]
           b(l) == [proc[p] EXCEPT !.pc = l]
<1>1. proc[p] \in Process /\ Shape(proc[p])
    BY DEF Types
<1>2. CASE proc[p].drain
    <2>1. Append(proc[p].keep, proc[p].t) \in Seq(Transcripts)
        BY <1>1 DEF Process, Shape
    <2>2. a \in Process /\ Shape(a)
        BY <1>1, <1>2, <2>1 DEF Process, Labels, Shape
    <2>3. proc' = [proc EXCEPT ![p] = a]
        BY <1>2 DEF Failed
    <2> HIDE DEF a
    <2> QED
        BY <2>2, <2>3, ProcTyped
<1>3. CASE ~proc[p].drain
    <2>1. \A l \in {"wake", "journal"} : b(l) \in Process /\ Shape(b(l))
        BY <1>1, <1>3 DEF Process, Labels, Shape
    <2>2. proc' = [proc EXCEPT ![p] = b("wake")] \/ proc' = [proc EXCEPT ![p] = b("journal")]
        BY <1>3 DEF Failed
    <2> HIDE DEF b
    <2> QED
        BY <2>1, <2>2, ProcTyped
<1> QED
    BY <1>2, <1>3

\* Every step keeps the types and the shapes.
LEMMA NextTypes == Types /\ [Next]_vars => Types'
<1> SUFFICES ASSUME Types, [Next]_vars PROVE Types'
    OBVIOUS
<1> DEFINE ProcOK == proc' \in [Procs -> Process] /\ \A r \in Procs : Shape(proc'[r])
<1>0. \A p \in Procs : proc[p] \in Process /\ Shape(proc[p])
    BY DEF Types
<1>1. ASSUME NEW p \in Procs, Claim(p) PROVE Types'
    <2>0. cut' \subseteq Transcripts
        <3>1. {proc[p].t} \subseteq Transcripts
            BY <1>0, <1>1 DEF Claim, Shape
        <3>2. GivenUp({proc[p].t}) \subseteq Transcripts
            BY <3>1, GivenUpTyped
        <3> QED
            BY <1>1, <3>2 DEF Claim, Types
    <2>1. CASE Goto(p, "post")
        <3>1. [proc[p] EXCEPT !.pc = "post"] \in Process /\ Shape([proc[p] EXCEPT !.pc = "post"])
            BY <1>0, <1>1 DEF Claim, Process, Labels, Shape
        <3>2. ProcOK
            BY <2>1, <3>1, ProcTyped DEF Goto
        <3> QED
            BY <1>1, <2>0, <3>2 DEF Claim, Types
    <2>2. CASE Failed(p, FALSE)
        <3>1. ProcOK
            BY <1>1, <2>2, FailedTyped DEF Claim
        <3> QED
            BY <1>1, <2>0, <3>1 DEF Claim, Types
    <2>3. CASE Succeeded(p)
        <3>1. ProcOK
            BY <1>1, <2>3, SucceededTyped DEF Claim
        <3> QED
            BY <1>1, <2>0, <3>1 DEF Claim, Types
    <2> QED
        BY <1>1, <2>1, <2>2, <2>3 DEF Claim
<1>2. ASSUME NEW p \in Procs, PostAccepted(p) \/ PostTimesOut(p) \/ PostRefused(p) PROVE Types'
    <2>1. proc[p].pc = "post" /\ proc[p].t \in Transcripts
        BY <1>0, <1>2 DEF PostAccepted, PostTimesOut, PostRefused, Shape
    <2>2. Succeeded(p) \/ Failed(p, TRUE) \/ Failed(p, FALSE)
        BY <1>2 DEF PostAccepted, PostTimesOut, PostRefused
    <2>3. ProcOK
        BY <2>1, <2>2, SucceededTyped, FailedTyped
    <2>4. covered' \subseteq Transcripts /\ cut' \subseteq Transcripts
        BY <1>2, <2>1 DEF PostAccepted, PostTimesOut, PostRefused, Accepted, Types
    <2> QED
        BY <1>2, <2>3, <2>4 DEF PostAccepted, PostTimesOut, PostRefused, Types
<1>3. ASSUME NEW p \in Procs, ClaimWakeLock(p) \/ Command(p) \/ Poll(p) PROVE Types'
    <2> DEFINE g(l) == [proc[p] EXCEPT !.pc = l]
               w == [proc[p] EXCEPT !.leader = "lock", !.pc = "command"]
               u == [proc[p] EXCEPT !.leader = "null", !.pc = "command"]
               j == [proc[p] EXCEPT !.leader = "no", !.pc = "journal"]
               i == [proc[p] EXCEPT !.leader = "no", !.pc = "ingest", !.try = 2]
    <2>0. proc[p].pc \in {"wake", "command", "poll"} /\ proc[p] \in Process /\ Shape(proc[p])
        BY <1>0, <1>3 DEF ClaimWakeLock, Command, Poll
    <2>1. /\ g("poll") \in Process /\ w \in Process /\ u \in Process
          /\ j \in Process /\ i \in Process
        <3>1. 2 \in 0..2
            OBVIOUS
        <3>2. g("poll") \in Process
            BY <2>0 DEF Process, Labels
        <3>3. w \in Process
            BY <2>0 DEF Process, Labels
        <3>4. j \in Process
            BY <2>0 DEF Process, Labels
        <3>5. i \in Process
            BY <2>0, <3>1 DEF Process, Labels
        <3>6. u \in Process
            BY <2>0 DEF Process, Labels
        <3> QED
            BY <3>2, <3>3, <3>4, <3>5, <3>6
    <2>2. Shape(g("poll")) /\ Shape(w) /\ Shape(u) /\ Shape(j) /\ Shape(i)
        BY <2>0 DEF Process, Shape
    <2>3. proc \in [Procs -> Process]
        BY DEF Types
    <2>4. \/ proc' = [proc EXCEPT ![p] = g("poll")] \/ proc' = [proc EXCEPT ![p] = w]
          \/ proc' = [proc EXCEPT ![p] = u]
          \/ proc' = [proc EXCEPT ![p] = j] \/ proc' = [proc EXCEPT ![p] = i]
        <3>1. CASE ClaimWakeLock(p)
            BY <2>3, <3>1 DEF ClaimWakeLock, Goto
        <3>2. CASE Command(p)
            BY <2>3, <3>2 DEF Command, Goto
        <3>3. CASE Poll(p)
            BY <2>3, <3>3 DEF Poll
        <3> QED
            BY <1>3, <3>1, <3>2, <3>3
    <2> HIDE DEF g, w, u, j, i
    <2>5. ProcOK
        BY <2>1, <2>2, <2>4, ProcTyped
    <2>6. wakeLock' \in Procs \cup {None}
        BY <1>3 DEF ClaimWakeLock, Command, Poll, DropWakeLock, Types
    <2> QED
        BY <1>3, <2>5, <2>6 DEF ClaimWakeLock, Command, Poll, Types
<1>4. ASSUME NEW p \in Procs, Journal(p) PROVE Types'
    <2>1. ProcOK
        BY <1>4, IdleTyped, ProcTyped DEF Journal
    <2>2. proc[p].t \in Transcripts
        BY <1>0, <1>4 DEF Journal, Shape
    <2>3. journal' \in Seq(Transcripts)
        BY <1>4, <2>2 DEF Journal, Types
    <2>4. {proc[p].t} \subseteq Transcripts
        BY <2>2
    <2>5. Noted(p, {proc[p].t}) \in [Procs -> SUBSET Transcripts] /\ GivenUp({proc[p].t}) \subseteq Transcripts
        BY <2>4, NotedTyped, GivenUpTyped
    <2>6. cut' \subseteq Transcripts /\ late' \in [Procs -> SUBSET Transcripts]
        BY <1>4, <2>5 DEF Journal, Types
    <2> QED
        BY <1>4, <2>1, <2>3, <2>6 DEF Journal, Types
<1>5. ASSUME NEW p \in Procs, SessionStart(p) PROVE Types'
    <2> DEFINE q == [Idle EXCEPT !.pc = "next", !.drain = TRUE, !.todo = Dedup(journal)]
    <2>1. Dedup(journal) \in Seq(Transcripts)
        BY DedupKeepsAll DEF Types
    <2>2. q \in Process /\ Shape(q)
        BY <2>1, IdleTyped DEF Idle, Process, Labels, Shape
    <2>3. proc' = [proc EXCEPT ![p] = q]
        BY <1>5 DEF SessionStart
    <2> HIDE DEF q
    <2>4. ProcOK
        BY <2>2, <2>3, ProcTyped
    <2> QED
        BY <1>5, <2>4 DEF SessionStart, Types
<1>6. ASSUME NEW p \in Procs, Replay(p) PROVE Types'
    <2> DEFINE t == Head(proc[p].todo)
               tl == Tail(proc[p].todo)
               kp == Append(proc[p].keep, t)
               a == [proc[p] EXCEPT !.todo = tl, !.keep = kp]
               b == [proc[p] EXCEPT !.todo = tl, !.processed = @ + 1,
                                    !.t = IF t \in gone THEN None ELSE t,
                                    !.pc = IF t \in gone THEN "next" ELSE "ingest"]
    <2>1. proc[p].todo \in Seq(Transcripts) /\ proc[p].todo # <<>> /\ proc[p].keep \in Seq(Transcripts)
        BY <1>0, <1>6 DEF Replay, ReplayWithin, Process
    <2>2. t \in Transcripts /\ tl \in Seq(Transcripts) /\ kp \in Seq(Transcripts)
        BY <2>1
    <2>3. proc[p].processed \in 0..MaxEntries /\ MaxEntries \in Nat
        BY <1>0, IngestAssumption DEF Process
    <2> DEFINE q == [proc[p] EXCEPT !.todo = tl]
    <2>a. q.processed = proc[p].processed /\ q.keep = proc[p].keep
        BY <1>0 DEF Process
    <2>4. proc[p].pc = "next" /\ proc' = [proc EXCEPT ![p] = IF proc[p].processed >= MaxEntries THEN a ELSE b]
        BY <1>6, <2>a DEF Replay, ReplayWithin
    <2> HIDE DEF t, tl, kp
    <2>5. a \in Process /\ Shape(a)
        BY <1>0, <2>2, <2>4 DEF Process, Shape
    <2>6. ASSUME proc[p].processed < MaxEntries PROVE b \in Process /\ Shape(b)
        <3>1. proc[p].processed + 1 \in 0..MaxEntries
            BY <2>3, <2>6
        <3>2. CASE t \in gone
            BY <1>0, <2>2, <2>4, <3>1, <3>2 DEF Process, Shape, Labels
        <3>3. CASE t \notin gone
            BY <1>0, <2>2, <2>4, <3>1, <3>3 DEF Process, Shape, Labels
        <3> QED
            BY <3>2, <3>3
    <2> HIDE DEF a, b, q
    <2>7. ASSUME proc[p].processed >= MaxEntries PROVE ProcOK
        BY <2>4, <2>5, <2>7, ProcTyped
    <2>8. ASSUME proc[p].processed < MaxEntries PROVE ProcOK
        <3>0. ~(proc[p].processed >= MaxEntries)
            BY <2>3, <2>8
        <3>1. proc' = [proc EXCEPT ![p] = b]
            BY <2>4, <3>0
        <3> QED
            BY <2>6, <2>8, <3>1, ProcTyped
    <2>9. ProcOK
        BY <2>3, <2>7, <2>8
    <2> QED
        BY <1>6, <2>9 DEF Replay, ReplayWithin, Types
<1>7. ASSUME NEW p \in Procs, Rewrite(p) PROVE Types'
    <2>1. ProcOK
        BY <1>7, IdleTyped, ProcTyped DEF Rewrite
    <2>2. proc[p].keep \in Seq(Transcripts) /\ journal' \in Seq(Transcripts)
        BY <1>0, <1>7 DEF Rewrite, Process, Types
    <2> DEFINE keep == ToSet(proc[p].keep)
               over == (late[p] \cap ToSet(journal)) \ keep
               back == keep \ ToSet(journal)
    <2>3. keep \subseteq Transcripts /\ over \subseteq Transcripts /\ back \subseteq Transcripts
        BY <2>2 DEF ToSet, Types
    <2>4. late' = Noted(p, keep) /\ (cut' = GivenUp(over) \/ cut' = GivenUp(back))
        BY <1>7 DEF Rewrite
    <2> HIDE DEF keep, over, back
    <2>5. Noted(p, keep) \in [Procs -> SUBSET Transcripts]
        BY <2>3, NotedTyped
    <2>6. GivenUp(over) \subseteq Transcripts /\ GivenUp(back) \subseteq Transcripts
        BY <2>3, GivenUpTyped
    <2>7. late' \in [Procs -> SUBSET Transcripts] /\ cut' \subseteq Transcripts
        BY <2>4, <2>5, <2>6
    <2> QED
        BY <1>7, <2>1, <2>2, <2>7 DEF Rewrite, Types
<1>8. ASSUME NEW p \in Procs, Kill(p) PROVE Types'
    <2>1. ProcOK
        BY <1>8, IdleTyped, ProcTyped DEF Kill
    <2>2. InHand(p) \subseteq Transcripts
        BY <1>0 DEF InHand, ToSet, Process
    <2>3. GivenUp(InHand(p)) \subseteq Transcripts
        BY <2>2, GivenUpTyped
    <2>4. cut' \subseteq Transcripts /\ late' \in [Procs -> SUBSET Transcripts]
        BY <1>8, <2>3 DEF Kill, Types
    <2>5. wakeLock' \in Procs \cup {None}
        BY <1>8 DEF Kill, DropWakeLock, Types
    <2> QED
        BY <1>8, <2>1, <2>4, <2>5 DEF Kill, Types
<1>9. ASSUME NEW p \in Procs, NEW t \in Transcripts, Announce(p, t) PROVE Types'
    <2> DEFINE q == [Idle EXCEPT !.pc = "ingest", !.t = t, !.try = 1]
    <2>0. 1 \in 0..2 /\ Idle.drain = FALSE /\ Idle.keep = <<>> /\ Idle.leader = "no"
        BY DEF Idle
    <2>1. q \in Process /\ Shape(q)
        BY <2>0, IdleTyped DEF Process, Labels, Shape
    <2>2. proc' = [proc EXCEPT ![p] = q]
        BY <1>9 DEF Announce
    <2> HIDE DEF q
    <2>3. ProcOK
        BY <2>1, <2>2, ProcTyped
    <2> QED
        BY <1>9, <2>3 DEF Announce, Types
<1>10. ASSUME HostSleeps \/ HostWakes PROVE Types'
    BY <1>10 DEF HostSleeps, HostWakes, Types
<1>11. ASSUME NEW t \in Transcripts, Delete(t) PROVE Types'
    BY <1>11 DEF Delete, Types
<1>12. CASE UNCHANGED vars
    BY <1>12 DEF vars, Types
<1> QED
    BY <1>1, <1>2, <1>3, <1>4, <1>5, <1>6, <1>7, <1>8, <1>9, <1>10, <1>11, <1>12 DEF Next, Step

-----------------------------------------------------------------------------
(* One waker                                                               *)

\* The flock is taken and given up with the leadership that goes with it.
LEMMA NextOneWaker == Types /\ OneWaker /\ [Next]_vars => OneWaker'
<1> SUFFICES ASSUME Types, OneWaker, [Next]_vars PROVE OneWaker'
    OBVIOUS
<1>1. /\ proc \in [Procs -> Process] /\ Idle.leader = "no"
      /\ \A p \in Procs : proc[p] \in Process /\ Shape(proc[p])
      /\ wakeLock \in Procs \cup {None} /\ None \notin Procs
    BY IngestAssumption DEF Types, Idle
<1>2. ASSUME UNCHANGED wakeLock, \A q \in Procs : proc'[q].leader = "lock" <=> proc[q].leader = "lock"
      PROVE  OneWaker'
    BY <1>2 DEF OneWaker
<1>3. ASSUME NEW p \in Procs, DropWakeLock(p), proc'[p].leader # "lock",
             \A q \in Procs \ {p} : proc'[q] = proc[q]
      PROVE  OneWaker'
    <2> SUFFICES ASSUME NEW q \in Procs PROVE proc'[q].leader = "lock" <=> wakeLock' = q
        BY DEF OneWaker
    <2>1. CASE q = p
        BY <1>1, <1>3, <2>1 DEF DropWakeLock
    <2>2. CASE q # p
        <3>1. proc'[q].leader = "lock" <=> wakeLock = q
            BY <1>3, <2>2 DEF OneWaker
        <3>2. wakeLock' = q <=> wakeLock = q
            BY <1>1, <1>3, <2>2 DEF DropWakeLock
        <3> QED
            BY <3>1, <3>2
    <2> QED
        BY <2>1, <2>2
<1>4. ASSUME NEW p \in Procs, Claim(p) \/ PostAccepted(p) \/ PostTimesOut(p) \/ PostRefused(p)
      PROVE  OneWaker'
    <2>1. Goto(p, "post") \/ Succeeded(p) \/ Failed(p, TRUE) \/ Failed(p, FALSE)
        BY <1>4 DEF Claim, PostAccepted, PostTimesOut, PostRefused
    <2>2. UNCHANGED wakeLock /\ proc[p].pc \in {"ingest", "post"}
        BY <1>4 DEF Claim, PostAccepted, PostTimesOut, PostRefused
    <2>3. proc[p].leader = "no"
        BY <1>1, <2>2 DEF Shape
    <2>4. \A q \in Procs : proc'[q].leader = proc[q].leader
        <3>1. CASE Goto(p, "post")
            BY <1>1, <3>1 DEF Goto, Process
        <3>2. CASE Succeeded(p)
            BY <1>1, <2>3, <3>2 DEF Succeeded, Process
        <3>3. CASE Failed(p, TRUE) \/ Failed(p, FALSE)
            <4> DEFINE k == [proc[p] EXCEPT !.pc = "next", !.t = None, !.keep = Append(@, proc[p].t)]
                       w(l) == [proc[p] EXCEPT !.pc = l]
            <4>1. k.leader = "no" /\ w("wake").leader = "no" /\ w("journal").leader = "no"
                BY <1>1, <2>3 DEF Process
            <4>2. PICK x : x \in {k, w("wake"), w("journal")} /\ proc' = [proc EXCEPT ![p] = x]
                BY <3>3, Zenon DEF Failed
            <4> HIDE DEF k, w
            <4>3. x.leader = "no"
                BY <4>1, <4>2
            <4> QED
                BY <1>1, <2>3, <4>2, <4>3
        <3> QED
            BY <2>1, <3>1, <3>2, <3>3
    <2> QED
        BY <1>2, <2>2, <2>4
<1>5. ASSUME NEW p \in Procs, ClaimWakeLock(p)
      PROVE  OneWaker'
    <2>1. CASE /\ wakeLock = None /\ wakeLock' = p
               /\ proc' = [proc EXCEPT ![p].leader = "lock", ![p].pc = "command"]
        <3>1. proc'[p].leader = "lock" /\ \A q \in Procs \ {p} : proc'[q] = proc[q]
            BY <1>1, <2>1 DEF Process
        <3>2. \A q \in Procs \ {p} : proc[q].leader # "lock"
            BY <1>1, <2>1 DEF OneWaker
        <3> QED
            BY <2>1, <3>1, <3>2 DEF OneWaker
    <2>2. CASE Goto(p, "poll") /\ UNCHANGED wakeLock
        BY <1>1, <1>2, <2>2 DEF Goto, Process
    <2>3. CASE /\ UNCHANGED wakeLock
               /\ proc' = [proc EXCEPT ![p].leader = "null", ![p].pc = "command"]
        <3>1. proc[p].leader = "no"
            BY <1>1, <1>5 DEF ClaimWakeLock, Shape
        <3>2. proc'[p].leader = "null" /\ \A q \in Procs \ {p} : proc'[q] = proc[q]
            BY <1>1, <2>3 DEF Process
        <3> QED
            BY <1>2, <2>3, <3>1, <3>2
    <2> QED
        BY <1>5, <2>1, <2>2, <2>3 DEF ClaimWakeLock
<1>6. ASSUME NEW p \in Procs, Command(p) \/ Poll(p)
      PROVE  OneWaker'
    <2>1. CASE Goto(p, "poll") /\ UNCHANGED wakeLock
        BY <1>1, <1>2, <2>1 DEF Goto, Process
    <2>2. ASSUME DropWakeLock(p),
                 \/ proc' = [proc EXCEPT ![p].leader = "no", ![p].pc = "journal"]
                 \/ proc' = [proc EXCEPT ![p].leader = "no", ![p].pc = "ingest", ![p].try = 2]
          PROVE  OneWaker'
        <3>1. proc'[p].leader = "no" /\ \A q \in Procs \ {p} : proc'[q] = proc[q]
            BY <1>1, <2>2 DEF Process
        <3> QED
            BY <1>3, <2>2, <3>1
    <2> QED
        BY <1>6, <2>1, <2>2 DEF Command, Poll
<1>7. ASSUME NEW p \in Procs, Journal(p) \/ Rewrite(p) \/ SessionStart(p)
                              \/ \E t \in Transcripts : Announce(p, t)
      PROVE  OneWaker'
    <2>1. PICK i : i.leader = "no" /\ proc' = [proc EXCEPT ![p] = i]
        <3>1. CASE Journal(p) \/ Rewrite(p)
            BY <1>1, <3>1 DEF Journal, Rewrite
        <3>2. CASE SessionStart(p)
            BY <1>1, <3>2, IdleTyped DEF SessionStart, Process
        <3>3. CASE \E t \in Transcripts : Announce(p, t)
            BY <1>1, <3>3, IdleTyped DEF Announce, Process
        <3> QED
            BY <1>7, <3>1, <3>2, <3>3
    <2>2. UNCHANGED wakeLock /\ proc[p].pc \notin {"command", "poll"}
        BY <1>7 DEF Journal, Rewrite, SessionStart, Announce
    <2>3. proc[p].leader = "no"
        BY <1>1, <2>2 DEF Shape
    <2>4. \A q \in Procs : proc'[q].leader = proc[q].leader
        BY <1>1, <2>1, <2>3
    <2> QED
        BY <1>2, <2>2, <2>4
<1>8. ASSUME NEW p \in Procs, Kill(p)
      PROVE  OneWaker'
    <2>1. DropWakeLock(p) /\ proc'[p] = Idle /\ \A q \in Procs \ {p} : proc'[q] = proc[q]
        BY <1>1, <1>8 DEF Kill
    <2> QED
        BY <1>1, <1>3, <2>1
<1>9. ASSUME NEW p \in Procs, Replay(p)
      PROVE  OneWaker'
    <2>1. UNCHANGED wakeLock /\ \A q \in Procs : proc'[q].leader = proc[q].leader
        BY <1>1, <1>9 DEF Replay, ReplayWithin, Process
    <2> QED
        BY <1>2, <2>1
<1>10. ASSUME UNCHANGED <<proc, wakeLock>>
       PROVE  OneWaker'
    BY <1>10 DEF OneWaker
<1> QED
    BY <1>4, <1>5, <1>6, <1>7, <1>8, <1>9, <1>10 DEF Next, Step, HostSleeps, HostWakes, Delete, vars

-----------------------------------------------------------------------------
(* Nothing is lost                                                         *)

\* A step that leaves the journal alone, drops nobody who answers for a
\* transcript, starts no drain and leaves the lists and the history of the
\* drains alone.
LEMMA QuietComplete ==
    ASSUME Complete, journal' = journal,
           \A t \in Transcripts : Safe(t) => Safe(t)',
           \A p \in Procs : proc'[p].drain => /\ proc[p].drain /\ proc'[p].todo = proc[p].todo
                                               /\ late[p] \subseteq late'[p]
    PROVE  Complete'
<1>1. Journaled'
    BY DEF Complete, Journaled
<1>2. DrainHas'
    BY DEF Complete, DrainHas
<1> QED
    BY <1>1, <1>2 DEF Complete

\* Who answers for a transcript still does, when only process p has moved and
\* what it had in hand is still answered for.
LEMMA StillSafe ==
    ASSUME NEW p \in Procs, \A q \in Procs \ {p} : proc'[q] = proc[q],
           covered \cup gone \cup cut \subseteq (covered \cup gone \cup cut)',
           \A t \in InHand(p) : Safe(t)'
    PROVE  \A t \in Transcripts : Safe(t) => Safe(t)'
<1> SUFFICES ASSUME NEW t \in Transcripts, Safe(t) PROVE Safe(t)'
    OBVIOUS
<1>1. CASE t \in covered \cup gone \cup cut
    BY <1>1 DEF Safe
<1>2. ASSUME NEW q \in Procs, t \in InHand(q) PROVE Safe(t)'
    <2>1. CASE q = p
        BY <1>2, <2>1
    <2>2. CASE q # p
        <3>1. InHand(q)' = InHand(q)
            BY <2>2 DEF InHand
        <3> QED
            BY <1>2, <3>1 DEF Safe
    <2> QED
        BY <2>1, <2>2
<1> QED
    BY <1>1, <1>2 DEF Safe

\* The fields of proc' when process p alone has moved: drains and their lists
\* are as before.
SameDrains(p) ==
    /\ \A q \in Procs \ {p} : proc'[q] = proc[q]
    /\ proc'[p].drain => proc[p].drain /\ proc'[p].todo = proc[p].todo

\* A failed ingest stays in the hands of its process.
LEMMA FailedKeeps ==
    ASSUME Types, NEW p \in Procs, proc[p].pc \in {"ingest", "post"},
           Failed(p, TRUE) \/ Failed(p, FALSE)
    PROVE  SameDrains(p) /\ InHand(p) \subseteq InHand(p)'
<1>1. proc \in [Procs -> Process] /\ proc[p] \in Process /\ Shape(proc[p])
    BY DEF Types
<1>2. SameDrains(p)
    <2> DEFINE k == [proc[p] EXCEPT !.pc = "next", !.t = None, !.keep = Append(@, proc[p].t)]
               w(l) == [proc[p] EXCEPT !.pc = l]
    <2>1. \A x \in {k, w("wake"), w("journal")} : x.drain = proc[p].drain /\ x.todo = proc[p].todo
        BY <1>1 DEF Process
    <2>2. PICK x : x \in {k, w("wake"), w("journal")} /\ proc' = [proc EXCEPT ![p] = x]
        BY Zenon DEF Failed
    <2> HIDE DEF k, w
    <2>3. x.drain = proc[p].drain /\ x.todo = proc[p].todo
        BY <2>1, <2>2
    <2>4. proc'[p] = x /\ \A q \in Procs \ {p} : proc'[q] = proc[q]
        BY <1>1, <2>2
    <2> QED
        BY <2>3, <2>4 DEF SameDrains
<1>3. CASE proc[p].drain
    <2>0. proc'[p] = [proc[p] EXCEPT !.pc = "next", !.t = None, !.keep = Append(@, proc[p].t)]
        BY <1>1, <1>3 DEF Failed
    <2>1. proc'[p].keep = Append(proc[p].keep, proc[p].t)
        BY <1>1, <2>0 DEF Process
    <2>2. proc[p].keep \in Seq(Transcripts) /\ proc[p].t \in Transcripts
        BY <1>1 DEF Process, Shape
    <2>3. ToSet(proc'[p].keep) = ToSet(proc[p].keep) \cup {proc[p].t}
        BY <2>1, <2>2, SetOfAppend
    <2> QED
        BY <1>2, <2>3 DEF InHand
<1>4. CASE ~proc[p].drain
    <2>1. proc'[p].keep = proc[p].keep /\ proc'[p].t = proc[p].t
        BY <1>1, <1>4 DEF Failed, Process
    <2> QED
        BY <1>2, <2>1 DEF InHand
<1> QED
    BY <1>3, <1>4

\* A successful one gives up the transcript it was about, nothing else.
LEMMA SucceededKeeps ==
    ASSUME Types, NEW p \in Procs, proc[p].pc \in {"ingest", "post"}, Succeeded(p)
    PROVE  /\ SameDrains(p) /\ InHand(p) \ {proc[p].t} \subseteq InHand(p)'
           /\ proc[p].t \in Transcripts
<1>1. proc \in [Procs -> Process] /\ proc[p] \in Process /\ Shape(proc[p])
    BY DEF Types
<1>2. SameDrains(p)
    BY <1>1 DEF Succeeded, SameDrains, Process, Idle
<1>3. CASE proc[p].drain
    <2>1. proc'[p].keep = proc[p].keep
        BY <1>1, <1>3 DEF Succeeded, Process
    <2>2. InHand(p) \ {proc[p].t} \subseteq InHand(p)'
        <3>1. ToSet(proc[p].keep) \subseteq InHand(p)'
            <4>1. None \notin ToSet(proc[p].keep) /\ InHand(p)' = ({proc'[p].t} \ {None}) \cup ToSet(proc[p].keep)
                BY <1>1, <2>1, IngestAssumption DEF InHand, ToSet, Process
            <4> QED
                BY <4>1
        <3> QED
            BY <3>1 DEF InHand
    <2> QED
        BY <1>1, <1>2, <2>2 DEF Shape
<1>4. CASE ~proc[p].drain
    <2>1. ToSet(proc[p].keep) = {}
        BY <1>1, <1>4 DEF Shape, ToSet
    <2> QED
        BY <1>1, <1>2, <2>1 DEF InHand, Shape
<1> QED
    BY <1>3, <1>4

\* A step of process p that keeps the journal and whoever answers for what p
\* had in hand.
LEMMA ProcessComplete ==
    ASSUME Types, Complete, NEW p \in Procs, SameDrains(p), journal' = journal,
           \A q \in Procs : proc'[q].drain => late[q] \subseteq late'[q],
           covered \cup gone \cup cut \subseteq (covered \cup gone \cup cut)',
           \A t \in InHand(p) : Safe(t)'
    PROVE  Complete'
<1>1. \A t \in Transcripts : Safe(t) => Safe(t)'
    BY StillSafe DEF SameDrains
<1>2. \A q \in Procs : proc'[q].drain => /\ proc[q].drain /\ proc'[q].todo = proc[q].todo
                                          /\ late[q] \subseteq late'[q]
    BY DEF SameDrains
<1> QED
    BY <1>1, <1>2, QuietComplete

\* Posts, wakes and retries lose nothing: a process that trusts the holder of
\* the slot leaves the transcript in that holder's hands.
LEMMA IngestComplete ==
    ASSUME Types, Complete, NEW p \in Procs,
           \/ Claim(p) \/ PostAccepted(p) \/ PostTimesOut(p) \/ PostRefused(p)
           \/ ClaimWakeLock(p) \/ Command(p) \/ Poll(p)
    PROVE  Complete'
<1>1. proc \in [Procs -> Process] /\ proc[p] \in Process /\ Shape(proc[p])
    BY DEF Types
<1>2. /\ journal' = journal /\ late' = late
      /\ covered \cup gone \cup cut \subseteq (covered \cup gone \cup cut)'
    BY DEF Claim, PostAccepted, PostTimesOut, PostRefused, ClaimWakeLock, Command, Poll, Accepted, GivenUp
<1>3. ASSUME SameDrains(p), InHand(p) \subseteq InHand(p)'
      PROVE  Complete'
    <2>1. \A t \in InHand(p) : Safe(t)'
        BY <1>3 DEF Safe
    <2> QED
        BY <1>2, <1>3, <2>1, ProcessComplete
<1>4. ASSUME NEW t, SameDrains(p), InHand(p) \ {t} \subseteq InHand(p)', Safe(t)'
      PROVE  Complete'
    <2>1. \A u \in InHand(p) : Safe(u)'
        BY <1>4 DEF Safe
    <2> QED
        BY <1>2, <1>4, <2>1, ProcessComplete
<1>5. CASE Claim(p)
    <2>1. CASE Failed(p, FALSE)
        BY <1>3, <1>5, <2>1, FailedKeeps DEF Claim
    <2>2. CASE Goto(p, "post")
        <3>1. SameDrains(p) /\ InHand(p)' = InHand(p)
            BY <1>1, <2>2 DEF Goto, SameDrains, InHand, Process
        <3> QED
            BY <1>3, <3>1
    <2>3. CASE SlotHeld(proc[p].t) /\ Succeeded(p)
        <3>0. PICK t : t = proc[p].t
            OBVIOUS
        <3>1. SameDrains(p) /\ InHand(p) \ {t} \subseteq InHand(p)' /\ t \in Transcripts
            BY <1>5, <2>3, <3>0, SucceededKeeps DEF Claim
        <3>2. PICK q \in Procs : proc[q].pc = "post" /\ proc[q].t = t
            BY <2>3, <3>0 DEF SlotHeld
        <3>3. q # p
            BY <1>5, <3>2 DEF Claim
        <3>4. proc'[q].t = t /\ t # None
            BY <3>1, <3>2, <3>3, IngestAssumption DEF SameDrains
        <3>5. t \in InHand(q)'
            BY <3>4 DEF InHand
        <3>6. Safe(t)'
            BY <3>5 DEF Safe
        <3> QED
            BY <1>4, <3>1, <3>6
    <2>4. CASE Succeeded(p) /\ proc[p].t \notin gone /\ cut' = GivenUp({proc[p].t})
        <3>0. PICK t : t = proc[p].t
            OBVIOUS
        <3>1. SameDrains(p) /\ InHand(p) \ {t} \subseteq InHand(p)'
            BY <1>5, <2>4, <3>0, SucceededKeeps DEF Claim
        <3>2. covered' = covered /\ gone' = gone /\ t \in covered \cup gone \cup cut'
            BY <1>5, <2>4, <3>0 DEF Claim, GivenUp
        <3>3. Safe(t)'
            BY <3>2 DEF Safe
        <3> QED
            BY <1>4, <3>1, <3>3
    <2> QED
        BY <1>5, <2>1, <2>2, <2>3, <2>4 DEF Claim
<1>6. CASE PostAccepted(p)
    <2>0. PICK t : t = proc[p].t
        OBVIOUS
    <2>1. SameDrains(p) /\ InHand(p) \ {t} \subseteq InHand(p)'
        BY <1>6, <2>0, SucceededKeeps DEF PostAccepted
    <2>2. Safe(t)'
        <3>1. t \in covered'
            BY <1>6, <2>0 DEF PostAccepted, Accepted
        <3> QED
            BY <3>1 DEF Safe
    <2> QED
        BY <1>4, <2>1, <2>2
<1>7. CASE PostTimesOut(p) \/ PostRefused(p)
    <2>1. proc[p].pc \in {"ingest", "post"} /\ (Failed(p, TRUE) \/ Failed(p, FALSE))
        BY <1>7 DEF PostTimesOut, PostRefused
    <2> QED
        BY <1>3, <2>1, FailedKeeps
<1>8. CASE ClaimWakeLock(p) \/ Command(p) \/ Poll(p)
    <2>1. /\ \A q \in Procs \ {p} : proc'[q] = proc[q]
          /\ proc'[p].drain = proc[p].drain /\ proc'[p].todo = proc[p].todo
          /\ proc'[p].t = proc[p].t /\ proc'[p].keep = proc[p].keep
        BY <1>1, <1>8 DEF ClaimWakeLock, Command, Poll, Goto, Process
    <2>2. SameDrains(p) /\ InHand(p)' = InHand(p)
        BY <2>1 DEF SameDrains, InHand
    <2> QED
        BY <1>3, <2>2
<1> QED
    BY <1>5, <1>6, <1>7, <1>8

\* A drain moves the head of its list to its hands, keeps it, or finds it gone.
LEMMA ReplayComplete ==
    ASSUME Types, Complete, NEW p \in Procs, Replay(p)
    PROVE  Complete'
<1>1. proc \in [Procs -> Process] /\ proc[p] \in Process /\ Shape(proc[p])
    BY DEF Types
<1>2. PICK h : h = Head(proc[p].todo)
    OBVIOUS
<1>3. proc[p].pc = "next" /\ proc[p].todo \in Seq(Transcripts) /\ proc[p].todo # <<>>
      /\ proc[p].keep \in Seq(Transcripts) /\ proc[p].t = None
    BY <1>1 DEF Replay, ReplayWithin, Process, Shape
<1>4. h \in Transcripts /\ ToSet(proc[p].todo) \subseteq {h} \cup ToSet(Tail(proc[p].todo))
    BY <1>2, <1>3, SetOfTail
<1>5. UNCHANGED <<covered, gone, cut, journal, late>>
    BY DEF Replay, ReplayWithin
<1> DEFINE q == [proc[p] EXCEPT !.todo = Tail(@)]
           n == IF q.processed >= MaxEntries THEN [q EXCEPT !.keep = Append(@, h)]
                ELSE [q EXCEPT !.processed = @ + 1, !.t = IF h \in gone THEN None ELSE h,
                               !.pc = IF h \in gone THEN "next" ELSE "ingest"]
<1>6. proc' = [proc EXCEPT ![p] = n]
    BY <1>2 DEF Replay, ReplayWithin
<1>7. /\ q.todo = Tail(proc[p].todo) /\ q.keep = proc[p].keep /\ q.drain = proc[p].drain
      /\ DOMAIN q = {"pc", "t", "drain", "try", "leader", "todo", "keep", "processed"}
    BY <1>1 DEF Process
<1> HIDE DEF q
<1>8. /\ n.todo = Tail(proc[p].todo) /\ n.drain = proc[p].drain
      /\ n.keep \in {proc[p].keep, Append(proc[p].keep, h)}
      /\ n.keep = Append(proc[p].keep, h) \/ h \in gone \/ n.t = h
    BY <1>7
<1> HIDE DEF n
<1>9. proc'[p] = n /\ \A r \in Procs \ {p} : proc'[r] = proc[r]
    BY <1>1, <1>6
<1>10. ToSet(Append(proc[p].keep, h)) = ToSet(proc[p].keep) \cup {h}
    BY <1>3, <1>4, SetOfAppend
<1>11. InHand(p) \subseteq InHand(p)'
    BY <1>3, <1>8, <1>9, <1>10 DEF InHand
<1>12. \A t \in InHand(p) : Safe(t)'
    BY <1>11 DEF Safe
<1>13. covered \cup gone \cup cut \subseteq (covered \cup gone \cup cut)'
    BY <1>5
<1>14. \A t \in Transcripts : Safe(t) => Safe(t)'
    BY <1>9, <1>12, <1>13, StillSafe
<1>15. Safe(h)'
    <2>1. h # None
        BY <1>4, IngestAssumption
    <2>2. h \in gone' \/ h \in InHand(p)'
        BY <1>5, <1>8, <1>9, <1>10, <2>1 DEF InHand
    <2> QED
        BY <2>2 DEF Safe
<1>16. Journaled'
    BY <1>5, <1>14 DEF Complete, Journaled
<1>17. DrainHas'
    <2> SUFFICES ASSUME NEW r \in Procs, proc'[r].drain, NEW t \in Transcripts
                 PROVE  Safe(t)' \/ t \in ToSet(proc'[r].todo) \/ t \in late'[r]
        BY DEF DrainHas
    <2>0. proc[r].drain /\ (Safe(t) \/ t \in ToSet(proc[r].todo) \/ t \in late[r])
        BY <1>8, <1>9 DEF Complete, DrainHas
    <2>1. CASE r # p
        BY <1>5, <1>9, <1>14, <2>0, <2>1
    <2>2. CASE r = p
        BY <1>4, <1>5, <1>8, <1>9, <1>14, <1>15, <2>0, <2>2
    <2> QED
        BY <2>1, <2>2
<1> QED
    BY <1>16, <1>17 DEF Complete

\* Where the steps that write the journal leave the other drains: what was
\* answered for still is, unless it is among the lines S that p writes.
LEMMA NotedKeeps ==
    ASSUME Types, Complete, NEW p \in Procs, NEW S,
           \A q \in Procs \ {p} : proc'[q] = proc[q], ~proc'[p].drain, late' = Noted(p, S),
           \A t \in Transcripts : Safe(t) => Safe(t)' \/ t \in S
    PROVE  DrainHas'
<1> SUFFICES ASSUME NEW q \in Procs, proc'[q].drain, NEW t \in Transcripts
             PROVE  Safe(t)' \/ t \in ToSet(proc'[q].todo) \/ t \in late'[q]
    BY DEF DrainHas
<1>1. q # p /\ proc'[q] = proc[q]
    OBVIOUS
<1>2. late'[q] = late[q] \cup (S \ ToSet(proc[q].todo))
    BY <1>1 DEF Noted
<1>3. Safe(t) \/ t \in ToSet(proc[q].todo) \/ t \in late[q]
    BY <1>1 DEF Complete, DrainHas
<1> QED
    BY <1>1, <1>2, <1>3

\* Rewrite() makes the journal of what the drain kept.  By DrainHas the rest is
\* answered for, or came into the file behind its back and is given up.
LEMMA RewriteComplete ==
    ASSUME Types, Complete, NEW p \in Procs, Rewrite(p)
    PROVE  Complete'
<1>1. proc \in [Procs -> Process] /\ proc[p] \in Process /\ Shape(proc[p])
    BY DEF Types
<1>2. proc[p].drain /\ proc[p].t = None /\ proc[p].todo = <<>> /\ proc[p].keep \in Seq(Transcripts)
    BY <1>1 DEF Rewrite, Shape, Process
<1>3. (\A q \in Procs \ {p} : proc'[q] = proc[q]) /\ ~proc'[p].drain
    BY <1>1 DEF Rewrite, Idle
<1> DEFINE keep == ToSet(proc[p].keep)
           file == ToSet(journal)
<1>4. late' = Noted(p, keep) /\ covered' = covered /\ gone' = gone /\ cut \subseteq cut'
    BY DEF Rewrite, GivenUp
<1>5. InHand(p) = keep
    BY <1>2 DEF InHand
<1>6. journal \in Seq(Transcripts)
    BY DEF Types
<1> HIDE DEF keep
<1>7. \A t \in Transcripts : Safe(t) => Safe(t)' \/ t \in keep
    <2> SUFFICES ASSUME NEW t \in Transcripts, Safe(t), t \notin keep PROVE Safe(t)'
        OBVIOUS
    <2>1. CASE t \in covered \cup gone \cup cut
        BY <1>4, <2>1 DEF Safe
    <2>2. ASSUME NEW q \in Procs, t \in InHand(q) PROVE Safe(t)'
        <3>1. q # p
            BY <1>5, <2>2
        <3>2. InHand(q)' = InHand(q)
            BY <1>3, <3>1 DEF InHand
        <3> QED
            BY <2>2, <3>2 DEF Safe
    <2> QED
        BY <2>1, <2>2 DEF Safe
<1>8. DrainHas'
    BY <1>3, <1>4, <1>7, NotedKeeps
<1>9. Journaled'
    <2> SUFFICES ASSUME NEW t \in Transcripts PROVE Safe(t)' \/ Contains(journal', t)
        BY DEF Journaled
    <2>1. CASE journal' = proc[p].keep /\ cut' = GivenUp((late[p] \cap file) \ keep)
        <3>1. CASE t \in keep
            BY <1>2, <2>1, <3>1 DEF keep, ToSet, Contains
        <3>2. CASE Safe(t) /\ t \notin keep
            BY <1>7, <3>2
        <3>3. CASE ~Safe(t) /\ t \notin keep
            <4>1. t \notin ToSet(proc[p].todo)
                BY <1>2 DEF ToSet
            <4>2. t \in late[p]
                BY <1>2, <3>3, <4>1 DEF Complete, DrainHas
            <4>3. t \in file
                BY <1>6, <3>3 DEF Complete, Journaled, Contains, ToSet
            <4>4. t \in cut' \cup covered \cup gone
                BY <2>1, <3>3, <4>2, <4>3 DEF GivenUp
            <4> QED
                BY <1>4, <4>4 DEF Safe
        <3> QED
            BY <3>1, <3>2, <3>3
    <2>2. CASE UNCHANGED journal /\ cut' = GivenUp(keep \ file)
        <3>1. CASE t \in file
            BY <1>6, <2>2, <3>1 DEF Contains, ToSet
        <3>2. CASE t \notin file
            <4>1. Safe(t)
                BY <1>6, <3>2 DEF Complete, Journaled, Contains, ToSet
            <4>2. CASE t \in keep
                <5>1. t \in cut' \cup covered \cup gone
                    BY <2>2, <3>2, <4>2 DEF GivenUp
                <5> QED
                    BY <1>4, <5>1 DEF Safe
            <4>3. CASE t \notin keep
                BY <1>7, <4>1, <4>3
            <4> QED
                BY <4>2, <4>3
        <3> QED
            BY <3>1, <3>2
    <2> QED
        BY <2>1, <2>2 DEF Rewrite, keep
<1> QED
    BY <1>8, <1>9 DEF Complete

\* A line that is appended, or given up, answers for its transcript, and drains
\* under way have it in their history.
LEMMA JournalComplete ==
    ASSUME Types, Complete, NEW p \in Procs, Journal(p)
    PROVE  Complete'
<1>1. proc \in [Procs -> Process] /\ proc[p] \in Process /\ Shape(proc[p])
    BY DEF Types
<1>2. proc[p].t \in Transcripts /\ ~proc[p].drain /\ proc[p].keep = <<>> /\ journal \in Seq(Transcripts)
    BY <1>1 DEF Journal, Shape, Types
<1>3. /\ \A q \in Procs \ {p} : proc'[q] = proc[q]
      /\ ~proc'[p].drain
    BY <1>1 DEF Journal, Idle
<1>4. PICK t : t = proc[p].t
    OBVIOUS
<1>5. InHand(p) = {t}
    BY <1>2, <1>4, IngestAssumption DEF InHand, ToSet
<1>6. covered' = covered /\ gone' = gone /\ cut \subseteq cut'
    BY DEF Journal, GivenUp
<1>7. \A u \in Transcripts \ {t} : Safe(u) => Safe(u)'
    <2> SUFFICES ASSUME NEW u \in Transcripts \ {t}, Safe(u) PROVE Safe(u)'
        OBVIOUS
    <2>1. CASE u \in covered \cup gone \cup cut
        BY <1>6, <2>1 DEF Safe
    <2>2. ASSUME NEW q \in Procs, u \in InHand(q) PROVE Safe(u)'
        <3>1. q # p /\ InHand(q)' = InHand(q)
            BY <1>3, <1>5, <2>2 DEF InHand
        <3> QED
            BY <2>2, <3>1 DEF Safe
    <2> QED
        BY <2>1, <2>2 DEF Safe
<1>8. CASE journal' = Append(journal, proc[p].t) /\ late' = Noted(p, {proc[p].t})
    <2>1. /\ Contains(journal', t)
          /\ \A u \in Transcripts : Contains(journal, u) => Contains(journal', u)
        <3>1. journal' = Append(journal, t) /\ Len(journal) \in Nat
            BY <1>2, <1>4, <1>8
        <3>2. Len(journal') = Len(journal) + 1 /\ journal'[Len(journal) + 1] = t
              /\ \A i \in 1..Len(journal) : journal'[i] = journal[i]
            BY <1>2, <1>4, <3>1
        <3> QED
            BY <3>1, <3>2 DEF Contains
    <2>2. Journaled'
        BY <1>7, <2>1 DEF Complete, Journaled
    <2>3. late' = Noted(p, {t}) /\ \A u \in Transcripts : Safe(u) => Safe(u)' \/ u \in {t}
        BY <1>4, <1>7, <1>8
    <2>4. DrainHas'
        BY <1>3, <2>3, NotedKeeps
    <2> QED
        BY <2>2, <2>4 DEF Complete
<1>9. CASE cut' = GivenUp({proc[p].t}) /\ UNCHANGED <<journal, late>>
    <2>1. t \in covered \cup gone \cup cut'
        BY <1>4, <1>9 DEF GivenUp
    <2>2. Safe(t)'
        BY <1>6, <2>1 DEF Safe
    <2>3. \A u \in Transcripts : Safe(u) => Safe(u)'
        BY <1>7, <2>2
    <2>4. \A q \in Procs : proc'[q].drain => /\ proc[q].drain /\ proc'[q].todo = proc[q].todo
                                              /\ late[q] \subseteq late'[q]
        BY <1>3, <1>9
    <2> QED
        BY <1>9, <2>3, <2>4, QuietComplete
<1> QED
    BY <1>8, <1>9 DEF Journal

\* A drain starts with all that the journal answers for, and touches no other.
LEMMA SessionComplete ==
    ASSUME Types, Complete, NEW p \in Procs, SessionStart(p)
    PROVE  Complete'
<1>1. proc \in [Procs -> Process] /\ proc[p] \in Process /\ Shape(proc[p])
    BY DEF Types
<1> DEFINE n == [Idle EXCEPT !.pc = "next", !.drain = TRUE, !.todo = Dedup(journal)]
<1>3. n.todo = Dedup(journal)
    BY DEF Idle
<1>4. proc' = [proc EXCEPT ![p] = n]
    BY DEF SessionStart
<1> HIDE DEF n
<1>5. proc'[p] = n /\ \A q \in Procs \ {p} : proc'[q] = proc[q]
    BY <1>1, <1>4
<1>6. UNCHANGED <<covered, gone, cut, journal, late>>
    BY DEF SessionStart
<1>7. InHand(p) = {}
    BY <1>1 DEF SessionStart, Shape, InHand, ToSet
<1>8. \A t \in Transcripts : Safe(t) => Safe(t)'
    <2>1. covered \cup gone \cup cut \subseteq (covered \cup gone \cup cut)'
        BY <1>6
    <2>2. \A t \in InHand(p) : Safe(t)'
        BY <1>7
    <2> QED
        BY <1>5, <2>1, <2>2, StillSafe
<1>9. Journaled'
    BY <1>6, <1>8 DEF Complete, Journaled
<1>10. DrainHas'
    <2> SUFFICES ASSUME NEW q \in Procs, proc'[q].drain, NEW t \in Transcripts
                 PROVE  Safe(t)' \/ t \in ToSet(proc'[q].todo) \/ t \in late'[q]
        BY DEF DrainHas
    <2>1. CASE q = p
        <3>1. journal \in Seq(Transcripts)
            BY DEF Types
        <3>2. ToSet(journal) \subseteq ToSet(Dedup(journal))
            BY <3>1, DedupKeepsAll
        <3>3. Contains(journal, t) => t \in ToSet(journal)
            BY <3>1 DEF Contains, ToSet
        <3> QED
            BY <1>3, <1>5, <1>8, <2>1, <3>2, <3>3 DEF Complete, Journaled
    <2>2. CASE q # p
        <3>1. proc[q].drain /\ proc'[q].todo = proc[q].todo
            BY <1>5, <2>2
        <3> QED
            BY <1>6, <1>8, <3>1 DEF Complete, DrainHas
    <2> QED
        BY <2>1, <2>2
<1> QED
    BY <1>9, <1>10 DEF Complete

\* A killed process leaves what it had in hand to cut.
LEMMA KillComplete ==
    ASSUME Types, Complete, NEW p \in Procs, Kill(p)
    PROVE  Complete'
<1>1. proc \in [Procs -> Process]
    BY DEF Types
<1>2. SameDrains(p) /\ journal' = journal
    BY <1>1 DEF Kill, SameDrains, Idle
<1>3. covered \cup gone \cup cut \subseteq (covered \cup gone \cup cut)'
    BY DEF Kill, GivenUp
<1>4. \A t \in InHand(p) : Safe(t)'
    <2>1. InHand(p) \subseteq cut' \cup covered \cup gone /\ covered' = covered /\ gone' = gone
        BY DEF Kill, GivenUp
    <2> QED
        BY <2>1 DEF Safe
<1>5. \A q \in Procs : proc'[q].drain => late[q] \subseteq late'[q]
    <2>1. ~proc'[p].drain /\ late \in [Procs -> SUBSET Transcripts] /\ late' = [late EXCEPT ![p] = {}]
        BY <1>1 DEF Kill, Idle, Types
    <2> QED
        BY <2>1
<1> QED
    BY <1>2, <1>3, <1>4, <1>5, ProcessComplete

\* A new save is in the hands of its process.
LEMMA AnnounceComplete ==
    ASSUME Types, Complete, NEW p \in Procs, NEW t \in Transcripts, Announce(p, t)
    PROVE  Complete'
<1>1. proc \in [Procs -> Process] /\ proc[p] \in Process /\ Shape(proc[p])
    BY DEF Types
<1> DEFINE n == [Idle EXCEPT !.pc = "ingest", !.t = t, !.try = 1]
<1>2. n.t = t /\ ~n.drain
    BY DEF Idle
<1>3. proc' = [proc EXCEPT ![p] = n]
    BY DEF Announce
<1> HIDE DEF n
<1>4. proc'[p] = n /\ \A q \in Procs \ {p} : proc'[q] = proc[q]
    BY <1>1, <1>3
<1>5. t \in InHand(p)'
    BY <1>2, <1>4, IngestAssumption DEF InHand
<1>6. InHand(p) = {}
    BY <1>1 DEF Announce, Shape, InHand, ToSet
<1>7. \A u \in Transcripts : Safe(u) => Safe(u)'
    <2> SUFFICES ASSUME NEW u \in Transcripts, Safe(u) PROVE Safe(u)'
        OBVIOUS
    <2>1. CASE u = t
        BY <1>5, <2>1 DEF Safe
    <2>2. CASE u # t /\ u \in covered \cup gone \cup cut
        BY <2>2 DEF Announce, Safe
    <2>3. ASSUME NEW q \in Procs, u \in InHand(q) PROVE Safe(u)'
        <3>1. q # p /\ InHand(q)' = InHand(q)
            BY <1>4, <1>6, <2>3 DEF InHand
        <3> QED
            BY <2>3, <3>1 DEF Safe
    <2> QED
        BY <2>1, <2>2, <2>3 DEF Safe
<1>9. journal' = journal /\ late' = late
    BY DEF Announce
<1>8. \A q \in Procs : proc'[q].drain => /\ proc[q].drain /\ proc'[q].todo = proc[q].todo
                                          /\ late[q] \subseteq late'[q]
    BY <1>2, <1>4, <1>9
<1> QED
    BY <1>7, <1>8, <1>9, QuietComplete

\* Every step keeps Complete.
LEMMA NextComplete == Types /\ Complete /\ [Next]_vars => Complete'
<1> SUFFICES ASSUME Types, Complete, [Next]_vars PROVE Complete'
    OBVIOUS
<1>1. ASSUME NEW p \in Procs, Step(p) PROVE Complete'
    BY <1>1, IngestComplete, ReplayComplete, RewriteComplete, JournalComplete DEF Step
<1>2. ASSUME NEW p \in Procs, SessionStart(p) \/ Kill(p) \/ \E t \in Transcripts : Announce(p, t)
      PROVE  Complete'
    BY <1>2, SessionComplete, KillComplete, AnnounceComplete
<1>3. ASSUME HostSleeps \/ HostWakes \/ (\E t \in Transcripts : Delete(t)) \/ UNCHANGED vars
      PROVE  Complete'
    <2>1. UNCHANGED <<journal, proc, late>>
        BY <1>3 DEF HostSleeps, HostWakes, Delete, vars
    <2>2. covered \cup gone \cup cut \subseteq (covered \cup gone \cup cut)'
        BY <1>3 DEF HostSleeps, HostWakes, Delete, vars
    <2>3. \A p \in Procs : InHand(p)' = InHand(p)
        BY <2>1 DEF InHand
    <2>4. \A t \in Transcripts : Safe(t) => Safe(t)'
        BY <2>2, <2>3 DEF Safe
    <2> QED
        BY <2>1, <2>4, QuietComplete
<1> QED
    BY <1>1, <1>2, <1>3 DEF Next

\* At the start every save is in the palace.
LEMMA InitComplete == Init => Complete
<1> SUFFICES ASSUME Init PROVE Complete
    OBVIOUS
<1>1. \A t \in Transcripts : Safe(t)
    BY DEF Init, Safe
<1>2. \A p \in Procs : ~proc[p].drain
    BY DEF Init, Idle
<1> QED
    BY <1>1, <1>2 DEF Complete, Journaled, DrainHas

-----------------------------------------------------------------------------

\* Every hook process keeps the shape its place in the code demands, whatever
\* faults occur.
THEOREM Invariance == Spec => []Types
BY InitTypes, NextTypes, PTL DEF Spec

\* The variables keep their types.
THEOREM TypeCorrect == Spec => []TypeOK
<1>1. Types => TypeOK
    <2> SUFFICES ASSUME Types PROVE TypeOK
        OBVIOUS
    <2>1. \A p \in Procs : proc[p] \in Process
        BY DEF Types
    <2>2. \A p \in Procs : \A f \in {"todo", "keep"} : proc[p][f] \in Seq(Transcripts)
        BY <2>1 DEF Process
    <2> QED
        BY <2>1, <2>2 DEF Types, TypeOK, Process, Labels
<1> QED
    BY <1>1, Invariance, PTL

\* The flock of the wake is held by exactly the process that leads with it,
\* whichever processes die and whoever leads without one.
THEOREM OneWakerCorrect == Spec => []OneWaker
<1>1. Init => OneWaker
    <2> SUFFICES ASSUME Init, NEW p \in Procs PROVE proc[p].leader = "lock" <=> wakeLock = p
        BY DEF OneWaker
    <2>1. wakeLock = None /\ proc[p].leader = "no" /\ p # None
        BY IngestAssumption DEF Init, Idle
    <2> QED
        BY <2>1
<1> QED
    BY <1>1, InitTypes, NextTypes, NextOneWaker, PTL DEF Spec

\* Under every fault, and however appends and drains overlap, no announced
\* save is lost but in the four ways that NothingLost names.
THEOREM NothingLostCorrect == Spec => []NothingLost
<1>1. Complete => NothingLost
    BY DEF Complete, Journaled, NothingLost, Safe
<1> QED
    BY <1>1, InitTypes, NextTypes, InitComplete, NextComplete, PTL DEF Spec

=============================================================================
