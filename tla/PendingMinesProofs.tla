------------------------- MODULE PendingMinesProofs -------------------------
(***************************************************************************)
(* Proofs about PendingMines, for any number of targets, any batch size    *)
(* and any limits.  The first part says what the operators on sequences of *)
(* entries do; the rest are the invariants.                                *)
(***************************************************************************)
EXTENDS PendingMines, Lemmas

\* The order in which a pass runs the entries of s.
Before(s) ==
    {p \in (DOMAIN s) \X (DOMAIN s) :
        \/ Priority(s[p[1]]) < Priority(s[p[2]])
        \/ Priority(s[p[1]]) = Priority(s[p[2]]) /\ p[1] < p[2]}

\* A pass is running.
PassPCs == {"next", "wait", "mine", "merge", "write"}

Drainer ==
    [pc : {"off", "top", "claim", "next", "wait", "mine", "merge", "write", "sleep", "end"},
     owned : Seq(Entries), held : Seq(Entries), requeue : Seq(Entries),
     arrivals : Seq(Entries), cur : Seq(Entries), covered : SUBSET Targets,
     consumed : 0..Cap]

\* What a drainer knows of its own pass.  Something is set aside only when the
\* claim was full, which is why arrivals that fit the budget can be no less
\* urgent than what was set aside before.
Fine(q) ==
    /\ q.consumed + Len(q.owned) <= Cap
    /\ q.pc \in {"wait", "mine"} => Len(q.cur) = 1
    /\ q.pc \in PassPCs =>
        /\ q.held # <<>> => q.consumed + Len(q.owned) = Cap
        /\ \A e \in Range(q.owned) : \A f \in Range(q.held) : Priority(e) <= Priority(f)
    /\ q.pc = "next" =>
        \A i, j \in DOMAIN q.owned : i < j => Priority(q.owned[i]) <= Priority(q.owned[j])

Local == TypeOK /\ \A d \in Drainers : Fine(dr[d])

\* Who mines has the semaphore, and so has the rebuild that holds the palace.
Mutex ==
    /\ \A d \in Drainers : dr[d].pc = "mine" <=> mineSem = d
    /\ rebuild = "holding" <=> mineSem = "rebuild"

\* The counts of the entries of s are at most those of b.
Within(s, b) == \A e \in Range(s) : e.defer <= b[e.key] /\ e.raw <= b[e.key]

\* The counts, when the loop is the only drainer.  During a pass none exceeds
\* what the target had when the pass began; the end of the pass adds one.
Counts ==
    LET q == dr["loop"]
    IN  /\ \A e \in Range(queue) \cup Range(proc) : e.raw = e.defer /\ e.defer <= base[e.key] + 1
        /\ q.pc \in PassPCs =>
            /\ Within(queue, base) /\ Within(proc, base)
            /\ Within(q.owned, base) /\ Within(q.held, base) /\ Within(q.cur, base)
            /\ Within(q.arrivals, base) /\ Within(q.requeue, base)
            /\ \A e \in Range(q.requeue) : e.raw = e.defer
        /\ q.pc \notin PassPCs => q.owned = <<>> /\ q.held = <<>>

\* The disk, when the loop is the only drainer: whatever .processing names and
\* is owed is also in the queue or known to the pass.
Disk ==
    LET q == dr["loop"]
    IN  /\ q.pc \in PassPCs =>
            Keys(proc) \cap owed \subseteq
                Keys(queue) \cup Keys(q.owned) \cup Keys(q.held) \cup InHand("loop")
        /\ q.pc = "sleep" => Keys(proc) \cap owed \subseteq Keys(queue)
        /\ q.pc \in {"wait", "mine"} => Keys(q.cur) \subseteq q.covered \cup Keys(queue)
        /\ q.pc \notin {"wait", "mine"} => q.cur = <<>>
        /\ q.pc # "write" => q.arrivals = <<>>

-----------------------------------------------------------------------------
(* Sequences of entries                                                    *)

\* What an entry is made of.
LEMMA EntryFields ==
    ASSUME NEW e \in Entries
    PROVE  /\ e.key \in Targets /\ e.defer \in 0..Escape /\ e.raw \in 0..Escape
           /\ e.tries \in 0..LockRetryMax /\ e.defer \in Nat /\ e.raw \in Nat
           /\ Escape \in Nat /\ LockRetryMax \in Nat
           /\ Priority(e) \in Int
BY MinesAssumption DEF Entries, Priority

\* An entry with another count, or with another line.
LEMMA EntryExcept ==
    ASSUME NEW e \in Entries, NEW n \in 0..Escape
    PROVE  /\ [e EXCEPT !.defer = n] \in Entries /\ [e EXCEPT !.raw = n] \in Entries
           /\ [e EXCEPT !.defer = n].key = e.key /\ [e EXCEPT !.defer = n].defer = n
           /\ [e EXCEPT !.defer = n].raw = e.raw /\ [e EXCEPT !.defer = n].tries = e.tries
           /\ [e EXCEPT !.raw = n].key = e.key /\ [e EXCEPT !.raw = n].defer = e.defer
           /\ [e EXCEPT !.raw = n].raw = n /\ [e EXCEPT !.raw = n].tries = e.tries
BY DEF Entries

\* A higher count never makes an entry less urgent.
LEMMA RaisedPriority ==
    ASSUME NEW e \in Entries, NEW f \in Entries, e.key = f.key, e.defer <= f.defer
    PROVE  Priority(f) <= Priority(e)
<1>1. e.defer \in Int /\ f.defer \in Int /\ Escape \in Int
    BY EntryFields
<1> QED
    BY <1>1 DEF Priority

\* The elements of a sequence of entries, and of a concatenation.
LEMMA RangeOfEntries ==
    ASSUME NEW E, NEW s \in Seq(E), NEW t \in Seq(E)
    PROVE  /\ Range(s) \subseteq E
           /\ s \o t \in Seq(E) /\ Range(s \o t) = Range(s) \cup Range(t)
           /\ Len(s \o t) = Len(s) + Len(t) /\ Len(s) \in Nat /\ Len(t) \in Nat
           /\ \A i \in 1..Len(s) : (s \o t)[i] = s[i]
           /\ \A i \in 1..Len(t) : (s \o t)[Len(s) + i] = t[i]
           /\ s = <<>> <=> Range(s) = {}
<1> DEFINE c == s \o t
           m == Len(s)
           n == Len(t)
<1>1. m \in Nat /\ n \in Nat /\ DOMAIN s = 1..m /\ DOMAIN t = 1..n
    OBVIOUS
<1>2. /\ c \in Seq(E) /\ DOMAIN c = 1..(m + n) /\ Len(c) = m + n
      /\ \A i \in 1..m : c[i] = s[i]
      /\ \A i \in 1..n : c[m + i] = t[i]
    OBVIOUS
<1>3. Range(s) \subseteq E /\ (s = <<>> <=> Range(s) = {})
    <2>1. Range(s) \subseteq E /\ (s = <<>> => Range(s) = {})
        BY DEF Range
    <2>2. ASSUME s # <<>> PROVE Range(s) # {}
        <3>1. 1 \in DOMAIN s
            BY <2>2
        <3> QED
            BY <3>1 DEF Range
    <2> QED
        BY <2>1, <2>2
<1> HIDE DEF c, m, n
<1>4. Range(c) \subseteq Range(s) \cup Range(t)
    <2> SUFFICES ASSUME NEW i \in 1..(m + n) PROVE c[i] \in Range(s) \cup Range(t)
        BY <1>2 DEF Range
    <2>1. CASE i \in 1..m
        BY <1>1, <1>2, <2>1 DEF Range
    <2>2. CASE i \notin 1..m
        <3>1. i - m \in 1..n /\ m + (i - m) = i
            BY <1>1, <2>2
        <3>2. c[i] = t[i - m]
            BY <1>2, <3>1
        <3> QED
            BY <1>1, <3>1, <3>2 DEF Range
    <2> QED
        BY <2>1, <2>2
<1>5. Range(s) \subseteq Range(c)
    BY <1>1, <1>2 DEF Range
<1>6. Range(t) \subseteq Range(c)
    <2> SUFFICES ASSUME NEW i \in 1..n PROVE t[i] \in Range(c)
        BY <1>1 DEF Range
    <2>1. m + i \in 1..(m + n) /\ c[m + i] = t[i]
        BY <1>1, <1>2
    <2> QED
        BY <1>2, <2>1 DEF Range
<1> QED
    BY <1>1, <1>2, <1>3, <1>4, <1>5, <1>6 DEF c, m, n

\* Keys(s) collects the targets of the elements of s.
LEMMA KeysOf ==
    ASSUME NEW s
    PROVE  Keys(s) = {e.key : e \in Range(s)}
BY DEF Keys, Range

\* Best() takes the first n in the order of Before(s).
LEMMA BestRanks ==
    ASSUME NEW s \in Seq(Entries)
    PROVE  /\ IsFiniteSet(DOMAIN s) /\ Cardinality(DOMAIN s) = Len(s)
           /\ Orders(Before(s), DOMAIN s)
           /\ \A n : Best(s, n) = {i \in DOMAIN s : RankIn(i, Before(s), DOMAIN s) < n}
<1>1. DOMAIN s = 1..Len(s) /\ Len(s) \in Nat
    OBVIOUS
<1>2. IsFiniteSet(DOMAIN s) /\ Cardinality(DOMAIN s) = Len(s)
    <2> DEFINE l == Len(s)
    <2>1. l \in Nat /\ DOMAIN s = 1..l
        BY <1>1
    <2> HIDE DEF l
    <2>2. IsFiniteSet(1..l) /\ Cardinality(1..l) = l
        BY <2>1, FS_Interval
    <2> QED
        BY <2>1, <2>2 DEF l
<1>3. \A i \in DOMAIN s : Priority(s[i]) \in Int /\ i \in Int
    BY <1>1, EntryFields
<1>4. Orders(Before(s), DOMAIN s)
    BY <1>3 DEF Orders, Before
<1>5. ASSUME NEW i \in DOMAIN s
      PROVE  {j \in DOMAIN s : <<j, i>> \in Before(s)} =
             {j \in DOMAIN s : \/ Priority(s[j]) < Priority(s[i])
                               \/ Priority(s[j]) = Priority(s[i]) /\ j < i}
    BY DEF Before
<1>6. \A n : Best(s, n) = {i \in DOMAIN s : RankIn(i, Before(s), DOMAIN s) < n}
    BY <1>5 DEF Best, RankIn
<1> QED
    BY <1>2, <1>4, <1>6

\* Best() takes at most n, and n when it does not take all; whatever it leaves
\* is no more urgent than what it takes.
LEMMA BestSound ==
    ASSUME NEW s \in Seq(Entries), NEW n \in Nat
    PROVE  /\ Best(s, n) \in SUBSET (DOMAIN s)
           /\ Cardinality(Best(s, n)) \in Nat /\ Cardinality(Best(s, n)) <= n
           /\ Best(s, n) # DOMAIN s => Cardinality(Best(s, n)) = n
           /\ \A i \in Best(s, n) : \A j \in DOMAIN s \ Best(s, n) : Priority(s[i]) <= Priority(s[j])
<1> DEFINE D == DOMAIN s
           R == Before(s)
           L == {x \in D : RankIn(x, R, D) < n}
<1>1. IsFiniteSet(D) /\ Orders(R, D) /\ Best(s, n) = L
    BY BestRanks
<1>2. \A i \in D : Priority(s[i]) \in Int /\ i \in Int
    BY EntryFields
<1>3. ASSUME NEW i \in L, NEW j \in D \ L PROVE Priority(s[i]) <= Priority(s[j])
    <2>1. /\ RankIn(i, R, D) \in Int /\ RankIn(j, R, D) \in Int
          /\ <<j, i>> \in R => RankIn(j, R, D) < RankIn(i, R, D)
        <3> HIDE DEF R
        <3> QED
            BY <1>1, RankMonotonic
    <2>2. <<j, i>> \notin R
        BY <2>1
    <2>3. ~(Priority(s[j]) < Priority(s[i]))
        BY <2>2 DEF Before
    <2> QED
        BY <1>2, <2>3
<1> HIDE DEF D, R
<1>4. /\ IsFiniteSet(L) /\ Cardinality(L) \in Nat /\ Cardinality(L) <= n
      /\ L # D => Cardinality(L) = n
    BY <1>1, RankBelow
<1> QED
    BY <1>1, <1>3, <1>4 DEF D

\* ByPriority() sorts: the same entries, none more urgent than one before it.
LEMMA ByPrioritySound ==
    ASSUME NEW s \in Seq(Entries)
    PROVE  /\ ByPriority(s) \in Seq(Entries) /\ Len(ByPriority(s)) = Len(s)
           /\ Range(ByPriority(s)) = Range(s)
           /\ \A i, j \in DOMAIN ByPriority(s) :
                 i < j => Priority(ByPriority(s)[i]) <= Priority(ByPriority(s)[j])
<1> DEFINE D == DOMAIN s
           R == Before(s)
           at(r) == CHOOSE i \in DOMAIN s : i \in Best(s, r) /\ i \notin Best(s, r - 1)
           b == ByPriority(s)
<1>1. D = 1..Len(s) /\ Len(s) \in Nat
    OBVIOUS
<1>2. /\ IsFiniteSet(D) /\ Cardinality(D) = Len(s) /\ Orders(R, D)
      /\ \A n : Best(s, n) = {i \in D : RankIn(i, R, D) < n}
    BY BestRanks
<1>3. \A i \in D : s[i] \in Entries /\ Priority(s[i]) \in Int /\ i \in Int
    BY EntryFields
<1>4. b = [r \in D |-> s[at(r)]]
    BY DEF ByPriority
<1>5. \A i, j \in D : Priority(s[j]) < Priority(s[i]) => <<j, i>> \in R
    BY DEF Before
<1> HIDE DEF R
<1>6. /\ \A x \in D : RankIn(x, R, D) \in 0..(Len(s) - 1)
      /\ \A x, y \in D : <<x, y>> \in R => RankIn(x, R, D) < RankIn(y, R, D)
    BY <1>2, RankMonotonic
<1>7. /\ \A x, y \in D : RankIn(x, R, D) = RankIn(y, R, D) => x = y
      /\ \A r \in 0..(Len(s) - 1) : \E x \in D : RankIn(x, R, D) = r
    BY <1>2, RankBijective
<1>8. ASSUME NEW r \in D PROVE at(r) \in D /\ RankIn(at(r), R, D) = r - 1
    <2>1. r - 1 \in 0..(Len(s) - 1) /\ r \in Int
        BY <1>1
    <2>2. PICK x \in D : RankIn(x, R, D) = r - 1
        BY <1>7, <2>1
    <2>3. x \in Best(s, r) /\ x \notin Best(s, r - 1)
        BY <1>2, <2>1, <2>2
    <2>4. at(r) \in D /\ at(r) \in Best(s, r) /\ at(r) \notin Best(s, r - 1)
        BY <2>3
    <2> HIDE DEF at
    <2>5. RankIn(at(r), R, D) < r /\ ~(RankIn(at(r), R, D) < r - 1) /\ RankIn(at(r), R, D) \in Int
        BY <1>2, <1>6, <2>4
    <2> QED
        BY <2>1, <2>4, <2>5
<1> HIDE DEF at
<1>9. \A r \in D : s[at(r)] \in Entries
    BY <1>3, <1>8
<1>10. b \in Seq(Entries) /\ Len(b) = Len(s) /\ DOMAIN b = D
    BY <1>1, <1>4, <1>9
<1>11. \A r \in D : b[r] = s[at(r)]
    BY <1>4
<1> HIDE DEF b
<1>12. Range(b) \subseteq Range(s)
    BY <1>8, <1>10, <1>11 DEF Range
<1>13. ASSUME NEW i \in D PROVE \E r \in D : b[r] = s[i]
    <2> DEFINE r == RankIn(i, R, D) + 1
    <2>1. r \in D /\ r - 1 = RankIn(i, R, D)
        BY <1>1, <1>6
    <2>2. at(r) = i
        BY <1>7, <1>8, <2>1
    <2> HIDE DEF r
    <2> QED
        BY <1>11, <2>1, <2>2
<1>14. Range(s) \subseteq Range(b)
    BY <1>10, <1>13 DEF Range
<1>15. ASSUME NEW i \in D, NEW j \in D, i < j PROVE Priority(b[i]) <= Priority(b[j])
    <2>1. at(i) \in D /\ at(j) \in D /\ i \in Int /\ j \in Int
        BY <1>3, <1>8
    <2>2. RankIn(at(i), R, D) < RankIn(at(j), R, D)
        BY <1>8, <1>15, <2>1
    <2>3. <<at(j), at(i)>> \notin R
        <3>1. RankIn(at(i), R, D) \in Int /\ RankIn(at(j), R, D) \in Int
            BY <1>6, <2>1
        <3> QED
            BY <1>6, <2>1, <2>2, <3>1
    <2>4. ~(Priority(s[at(j)]) < Priority(s[at(i)]))
        BY <1>5, <2>1, <2>3
    <2>5. Priority(s[at(i)]) <= Priority(s[at(j)])
        BY <1>3, <2>1, <2>4
    <2> QED
        BY <1>11, <2>5
<1> QED
    BY <1>10, <1>12, <1>14, <1>15 DEF b

\* What a split into this pass and the rest does, at the claim and at every
\* boundary.
LEMMA SplitSound ==
    ASSUME NEW s \in Seq(Entries), NEW n \in Nat
    PROVE  LET keep == ByPriority(Pick(s, Best(s, n)))
               rest == Pick(s, DOMAIN s \ Best(s, n))
           IN  /\ keep \in Seq(Entries) /\ rest \in Seq(Entries)
               /\ Range(keep) = {s[i] : i \in Best(s, n)}
               /\ Range(keep) \cup Range(rest) = Range(s)
               /\ Len(keep) <= n
               /\ rest # <<>> \/ Len(s) >= n => Len(keep) = n
               /\ \A i, j \in DOMAIN keep : i < j => Priority(keep[i]) <= Priority(keep[j])
               /\ \A e \in Range(keep) : \A f \in Range(rest) : Priority(e) <= Priority(f)
<1> DEFINE B == Best(s, n)
           best == Pick(s, B)
           keep == ByPriority(best)
           J == DOMAIN s \ B
           rest == Pick(s, J)
<1>1. /\ B \in SUBSET (DOMAIN s)
      /\ Cardinality(B) \in Nat /\ Cardinality(B) <= n
      /\ B # DOMAIN s => Cardinality(B) = n
      /\ \A i \in B : \A j \in DOMAIN s \ B : Priority(s[i]) <= Priority(s[j])
    BY BestSound
<1>2. Cardinality(DOMAIN s) = Len(s) /\ Len(s) \in Nat
    BY BestRanks
<1> HIDE DEF B
<1>3. /\ best \in Seq(Entries) /\ Len(best) = Cardinality(B)
      /\ Range(best) = {s[i] : i \in B}
    BY <1>1, PickSound
<1> HIDE DEF best
<1>4. /\ keep \in Seq(Entries) /\ Len(keep) = Cardinality(B) /\ Range(keep) = {s[i] : i \in B}
      /\ \A i, j \in DOMAIN keep : i < j => Priority(keep[i]) <= Priority(keep[j])
    BY <1>3, ByPrioritySound
<1> HIDE DEF keep
<1>5. J \in SUBSET (DOMAIN s)
    OBVIOUS
<1>6. rest \in Seq(Entries) /\ Range(rest) = {s[i] : i \in J}
    BY <1>5, PickSound
<1> HIDE DEF rest
<1>7. Range(keep) \cup Range(rest) = Range(s)
    <2>1. Range(s) = {s[i] : i \in DOMAIN s}
        BY DEF Range
    <2> QED
        BY <1>1, <1>4, <1>6, <2>1
<1>8. ASSUME rest # <<>> PROVE Len(keep) = n
    <2>1. Range(rest) # {}
        BY <1>6, <1>8, RangeOfEntries
    <2>2. B # DOMAIN s
        BY <1>6, <2>1
    <2> QED
        BY <1>1, <1>4, <2>2
<1>9. ASSUME Len(s) >= n PROVE Len(keep) = n
    <2>1. CASE B = DOMAIN s
        <3>1. Cardinality(B) = Len(s)
            BY <1>2, <2>1
        <3> QED
            BY <1>1, <1>2, <1>4, <1>9, <3>1
    <2>2. CASE B # DOMAIN s
        BY <1>1, <1>4, <2>2
    <2> QED
        BY <2>1, <2>2
<1>10. \A e \in Range(keep) : \A f \in Range(rest) : Priority(e) <= Priority(f)
    BY <1>1, <1>4, <1>6
<1> HIDE DEF J
<1> QED
    BY <1>1, <1>4, <1>6, <1>7, <1>8, <1>9, <1>10 DEF B, best, keep, J, rest

\* A sequence that differs from s entry by entry, with the targets of s.
LEMMA MappedKeys ==
    ASSUME NEW s \in Seq(Entries), NEW t \in Seq(Entries), Len(t) = Len(s),
           \A i \in DOMAIN s : t[i].key = s[i].key
    PROVE  Keys(t) = Keys(s)
<1>1. DOMAIN t = DOMAIN s
    OBVIOUS
<1> QED
    BY <1>1 DEF Keys

\* Lines() forgets the counts in memory.
LEMMA LinesSound ==
    ASSUME NEW s \in Seq(Entries)
    PROVE  /\ Lines(s) \in Seq(Entries) /\ Keys(Lines(s)) = Keys(s) /\ Len(Lines(s)) = Len(s)
           /\ \A e \in Range(Lines(s)) : \E x \in Range(s) :
                 e.key = x.key /\ e.raw = x.raw /\ e.defer = x.raw
<1> DEFINE g(i) == [s[i] EXCEPT !.defer = s[i].raw]
           l == Lines(s)
<1>1. \A i \in DOMAIN s : /\ g(i) \in Entries /\ g(i).key = s[i].key
                          /\ g(i).raw = s[i].raw /\ g(i).defer = s[i].raw
    <2> SUFFICES ASSUME NEW i \in DOMAIN s
                 PROVE  /\ g(i) \in Entries /\ g(i).key = s[i].key
                        /\ g(i).raw = s[i].raw /\ g(i).defer = s[i].raw
        OBVIOUS
    <2>1. s[i] \in Entries /\ s[i].raw \in 0..Escape
        BY EntryFields
    <2> QED
        BY <2>1, EntryExcept
<1>2. l = [i \in DOMAIN s |-> g(i)]
    BY DEF Lines
<1> HIDE DEF g
<1>3. l \in Seq(Entries) /\ Len(l) = Len(s) /\ DOMAIN l = DOMAIN s /\ \A i \in DOMAIN s : l[i] = g(i)
    BY <1>1, <1>2
<1> HIDE DEF l
<1>4. Keys(l) = Keys(s)
    BY <1>1, <1>3, MappedKeys
<1>5. \A e \in Range(l) : \E x \in Range(s) : e.key = x.key /\ e.raw = x.raw /\ e.defer = x.raw
    BY <1>1, <1>3 DEF Range
<1> QED
    BY <1>3, <1>4, <1>5 DEF l

\* Dumped() writes the counts in memory to the lines.
LEMMA DumpedSound ==
    ASSUME NEW s \in Seq(Entries)
    PROVE  /\ Dumped(s) \in Seq(Entries) /\ Keys(Dumped(s)) = Keys(s) /\ Len(Dumped(s)) = Len(s)
           /\ \A e \in Range(Dumped(s)) : \E x \in Range(s) :
                 e.key = x.key /\ e.raw = x.defer /\ e.defer = x.defer
<1> DEFINE g(i) == [s[i] EXCEPT !.raw = s[i].defer]
           l == Dumped(s)
<1>1. \A i \in DOMAIN s : /\ g(i) \in Entries /\ g(i).key = s[i].key
                          /\ g(i).raw = s[i].defer /\ g(i).defer = s[i].defer
    <2> SUFFICES ASSUME NEW i \in DOMAIN s
                 PROVE  /\ g(i) \in Entries /\ g(i).key = s[i].key
                        /\ g(i).raw = s[i].defer /\ g(i).defer = s[i].defer
        OBVIOUS
    <2>1. s[i] \in Entries /\ s[i].defer \in 0..Escape
        BY EntryFields
    <2> QED
        BY <2>1, EntryExcept
<1>2. l = [i \in DOMAIN s |-> g(i)]
    BY DEF Dumped
<1> HIDE DEF g
<1>3. l \in Seq(Entries) /\ Len(l) = Len(s) /\ DOMAIN l = DOMAIN s /\ \A i \in DOMAIN s : l[i] = g(i)
    BY <1>1, <1>2
<1> HIDE DEF l
<1>4. Keys(l) = Keys(s)
    BY <1>1, <1>3, MappedKeys
<1>5. \A e \in Range(l) : \E x \in Range(s) : e.key = x.key /\ e.raw = x.defer /\ e.defer = x.defer
    BY <1>1, <1>3 DEF Range
<1> QED
    BY <1>3, <1>4, <1>5 DEF l

\* Bumped() raises every count by at most one, in memory and in the line.
LEMMA BumpedSound ==
    ASSUME NEW s \in Seq(Entries)
    PROVE  /\ Bumped(s) \in Seq(Entries) /\ Keys(Bumped(s)) = Keys(s) /\ Len(Bumped(s)) = Len(s)
           /\ \A e \in Range(Bumped(s)) : e.raw = e.defer /\
                 \E x \in Range(s) : e.key = x.key /\ e.defer <= x.defer + 1
<1> DEFINE g(i) == [s[i] EXCEPT !.defer = Min({s[i].defer + 1, Escape})]
           l == [i \in DOMAIN s |-> g(i)]
<1>1. \A i \in DOMAIN s : g(i) \in Entries /\ g(i).key = s[i].key /\ g(i).defer <= s[i].defer + 1
    <2> SUFFICES ASSUME NEW i \in DOMAIN s
                 PROVE  g(i) \in Entries /\ g(i).key = s[i].key /\ g(i).defer <= s[i].defer + 1
        OBVIOUS
    <2> DEFINE a == s[i].defer + 1
               m == Min({a, Escape})
    <2>1. s[i] \in Entries /\ s[i].defer \in Nat /\ Escape \in Nat /\ a \in Nat
        BY EntryFields
    <2> HIDE DEF a
    <2>a. a \in Int /\ Escape \in Int
        BY <2>1
    <2>2. m \in {a, Escape} /\ m <= a /\ m <= Escape
        BY <2>a, MinOfTwo
    <2>3. m \in 0..Escape
        BY <2>1, <2>2
    <2> HIDE DEF m
    <2>4. g(i) = [s[i] EXCEPT !.defer = m]
        BY DEF m, a
    <2> HIDE DEF g
    <2>b. \A e \in Entries : [e EXCEPT !.defer = m] \in Entries
              /\ [e EXCEPT !.defer = m].key = e.key /\ [e EXCEPT !.defer = m].defer = m
        BY <2>3, EntryExcept
    <2>5. g(i) \in Entries /\ g(i).key = s[i].key /\ g(i).defer = m
        BY <2>1, <2>b, <2>4
    <2> QED
        BY <2>2, <2>5 DEF a
<1>2. Bumped(s) = Dumped(l)
    BY DEF Bumped
<1> HIDE DEF g
<1>3. l \in Seq(Entries) /\ Len(l) = Len(s) /\ DOMAIN l = DOMAIN s /\ \A i \in DOMAIN s : l[i] = g(i)
    BY <1>1
<1> HIDE DEF l
<1>4. Keys(l) = Keys(s)
    BY <1>1, <1>3, MappedKeys
<1>5. /\ Dumped(l) \in Seq(Entries) /\ Keys(Dumped(l)) = Keys(l) /\ Len(Dumped(l)) = Len(l)
      /\ \A e \in Range(Dumped(l)) : \E x \in Range(l) :
            e.key = x.key /\ e.raw = x.defer /\ e.defer = x.defer
    BY <1>3, DumpedSound
<1>6. \A x \in Range(l) : \E y \in Range(s) : x.key = y.key /\ x.defer <= y.defer + 1
    BY <1>1, <1>3 DEF Range
<1>7. ASSUME NEW e \in Range(Dumped(l))
      PROVE  e.raw = e.defer /\ \E x \in Range(s) : e.key = x.key /\ e.defer <= x.defer + 1
    BY <1>5, <1>6
<1> QED
    BY <1>2, <1>3, <1>4, <1>5, <1>7

\* Dedup() keeps an entry of every target.  Its line is one of the lines of s,
\* and its count one of the counts of that target in s.
LEMMA DedupSound ==
    ASSUME NEW s \in Seq(Entries)
    PROVE  /\ Dedup(s) \in Seq(Entries) /\ Keys(Dedup(s)) = Keys(s)
           /\ \A e \in Range(Dedup(s)) :
                 /\ \E x \in Range(s) : x.key = e.key /\ x.raw = e.raw
                 /\ \E x \in Range(s) : x.key = e.key /\ x.defer = e.defer
<1> DEFINE I == {i \in DOMAIN s : \A j \in DOMAIN s : j > i => s[j].key # s[i].key}
           new == Pick(s, I)
           C(i) == {s[j].defer : j \in {k \in DOMAIN s : s[k].key = new[i].key}}
           g(i) == [new[i] EXCEPT !.defer = Max(C(i))]
<1>1. I \in SUBSET (DOMAIN s) /\ DOMAIN s = 1..Len(s) /\ Len(s) \in Nat
    OBVIOUS
<1>2. new \in Seq(Entries) /\ Range(new) = {s[i] : i \in I}
    BY <1>1, PickSound
<1>3. Dedup(s) = [i \in DOMAIN new |-> g(i)]
    BY DEF Dedup
<1>4. ASSUME NEW k \in DOMAIN s PROVE \E i \in I : s[i].key = s[k].key
    <2> DEFINE K == {j \in DOMAIN s : s[j].key = s[k].key}
    <2>1. K \in SUBSET (0..Len(s)) /\ K # {}
        BY <1>1
    <2>2. PICK i \in K : \A j \in K : j <= i
        BY <1>1, <2>1, GreatestIndex
    <2>3. \A j \in DOMAIN s : j > i => s[j].key # s[i].key
        <3> SUFFICES ASSUME NEW j \in DOMAIN s, j > i, s[j].key = s[i].key PROVE FALSE
            OBVIOUS
        <3>1. j \in K /\ j \in Int /\ i \in Int
            BY <1>1, <2>1, <2>2
        <3> QED
            BY <2>2, <3>1
    <2> QED
        BY <2>2, <2>3
<1>5. Keys(new) = Keys(s)
    <2> HIDE DEF new
    <2>1. Keys(new) = {e.key : e \in Range(new)} /\ Keys(s) = {s[i].key : i \in DOMAIN s}
        BY KeysOf DEF Keys
    <2>2. Keys(new) = {s[i].key : i \in I}
        BY <1>2, <2>1
    <2>3. {s[i].key : i \in I} \subseteq {s[i].key : i \in DOMAIN s}
        OBVIOUS
    <2> HIDE DEF I
    <2>4. {s[i].key : i \in DOMAIN s} \subseteq {s[i].key : i \in I}
        BY <1>4
    <2> QED
        BY <2>1, <2>2, <2>3, <2>4
<1> HIDE DEF I, new
<1>6. ASSUME NEW i \in DOMAIN new
      PROVE  /\ new[i] \in Entries /\ new[i] \in Range(s)
             /\ Max(C(i)) \in 0..Escape
             /\ \E x \in Range(s) : x.key = new[i].key /\ x.defer = Max(C(i))
    <2>1. new[i] \in Range(new)
        BY DEF Range
    <2>2. PICK k \in DOMAIN s : new[i] = s[k]
        BY <1>1, <1>2, <2>1
    <2>3. s[k].defer \in C(i)
        BY <2>2
    <2>4. C(i) \in SUBSET (0..Escape) /\ Escape \in Nat
        BY EntryFields, MinesAssumption
    <2>5. Max(C(i)) \in C(i)
        <3> HIDE DEF C
        <3> QED
            BY <2>3, <2>4, MaxOfBounded
    <2>6. \E x \in Range(s) : x.key = new[i].key /\ x.defer = Max(C(i))
        BY <2>5 DEF Range
    <2>7. new[i] \in Entries /\ new[i] \in Range(s)
        BY <2>2 DEF Range
    <2> HIDE DEF C
    <2> QED
        BY <2>4, <2>5, <2>6, <2>7
<1> HIDE DEF C
<1>7. \A i \in DOMAIN new :
        /\ g(i) \in Entries /\ g(i).key = new[i].key /\ g(i).raw = new[i].raw /\ g(i).defer = Max(C(i))
    BY <1>6, EntryExcept
<1> HIDE DEF g
<1> DEFINE d == Dedup(s)
<1>8. d \in Seq(Entries) /\ Len(d) = Len(new) /\ DOMAIN d = DOMAIN new /\ \A i \in DOMAIN new : d[i] = g(i)
    BY <1>2, <1>3, <1>7
<1> HIDE DEF d
<1>9. Keys(d) = Keys(s)
    BY <1>2, <1>5, <1>7, <1>8, MappedKeys
<1>10. ASSUME NEW e \in Range(d)
       PROVE  /\ \E x \in Range(s) : x.key = e.key /\ x.raw = e.raw
              /\ \E x \in Range(s) : x.key = e.key /\ x.defer = e.defer
    <2>1. PICK i \in DOMAIN new : e = g(i)
        BY <1>8 DEF Range
    <2>2. e.key = new[i].key /\ e.raw = new[i].raw /\ e.defer = Max(C(i))
        BY <1>7, <2>1
    <2> QED
        BY <1>6, <2>2
<1> QED
    BY <1>8, <1>9, <1>10 DEF d

\* Raised() lifts counts to those of reposts: nothing becomes less urgent.
LEMMA RaisedSound ==
    ASSUME NEW own \in Seq(Entries), NEW arr \in Seq(Entries)
    PROVE  LET r == Raised(own, arr)
           IN  /\ r \in Seq(Entries) /\ Len(r) = Len(own) /\ Keys(r) = Keys(own)
               /\ \A i \in DOMAIN own : Priority(r[i]) <= Priority(own[i])
               /\ \A e \in Range(r) :
                     /\ \E x \in Range(own) : x.key = e.key /\ x.raw = e.raw
                     /\ \E x \in Range(own) \cup Range(arr) : x.key = e.key /\ x.defer = e.defer
<1> DEFINE r == Raised(own, arr)
           C(i) == {own[i].defer} \cup
                   {arr[j].defer : j \in {k \in DOMAIN arr : arr[k].key = own[i].key}}
           g(i) == [own[i] EXCEPT !.defer = Max(C(i))]
<1>1. r = [i \in DOMAIN own |-> g(i)]
    BY DEF Raised
<1>2. ASSUME NEW i \in DOMAIN own
      PROVE  /\ own[i] \in Entries /\ Max(C(i)) \in 0..Escape /\ own[i].defer <= Max(C(i))
             /\ \E x \in Range(own) \cup Range(arr) : x.key = own[i].key /\ x.defer = Max(C(i))
    <2>1. own[i] \in Entries /\ own[i].defer \in C(i)
        OBVIOUS
    <2>2. C(i) \in SUBSET (0..Escape) /\ Escape \in Nat
        <3>1. own[i].defer \in 0..Escape /\ \A j \in DOMAIN arr : arr[j].defer \in 0..Escape
            BY <2>1, EntryFields
        <3> QED
            BY <3>1, MinesAssumption
    <2>3. Max(C(i)) \in C(i) /\ own[i].defer <= Max(C(i))
        <3> HIDE DEF C
        <3> QED
            BY <2>1, <2>2, MaxOfBounded
    <2>4. \E x \in Range(own) \cup Range(arr) : x.key = own[i].key /\ x.defer = Max(C(i))
        BY <2>3 DEF Range
    <2> HIDE DEF C
    <2> QED
        BY <2>1, <2>2, <2>3, <2>4
<1> HIDE DEF C
<1>3. \A i \in DOMAIN own :
        /\ g(i) \in Entries /\ g(i).key = own[i].key /\ g(i).raw = own[i].raw
        /\ g(i).defer = Max(C(i))
    BY <1>2, EntryExcept
<1> HIDE DEF g
<1>4. r \in Seq(Entries) /\ Len(r) = Len(own) /\ DOMAIN r = DOMAIN own /\ \A i \in DOMAIN own : r[i] = g(i)
    BY <1>1, <1>3
<1> HIDE DEF r
<1>5. Keys(r) = Keys(own)
    BY <1>3, <1>4, MappedKeys
<1>6. \A i \in DOMAIN own : Priority(r[i]) <= Priority(own[i])
    BY <1>2, <1>3, <1>4, RaisedPriority
<1>7. ASSUME NEW e \in Range(r)
      PROVE  /\ \E x \in Range(own) : x.key = e.key /\ x.raw = e.raw
             /\ \E x \in Range(own) \cup Range(arr) : x.key = e.key /\ x.defer = e.defer
    <2>1. PICK i \in DOMAIN own : e = g(i)
        BY <1>4 DEF Range
    <2>2. own[i] \in Range(own)
        BY DEF Range
    <2>3. e.key = own[i].key /\ e.raw = own[i].raw /\ e.defer = Max(C(i))
        BY <1>3, <2>1
    <2> QED
        BY <1>2, <2>2, <2>3
<1> QED
    BY <1>4, <1>5, <1>6, <1>7 DEF r

\* NewArrivals() has the arrivals that no owned entry stands for.
LEMMA NewArrivalsSound ==
    ASSUME NEW own \in Seq(Entries), NEW arr \in Seq(Entries)
    PROVE  LET n == NewArrivals(own, arr)
           IN  /\ n \in Seq(Entries) /\ Keys(n) = Keys(arr) \ Keys(own)
               /\ \A e \in Range(n) :
                     /\ \E x \in Range(arr) : x.key = e.key /\ x.raw = e.raw
                     /\ \E x \in Range(arr) : x.key = e.key /\ x.defer = e.defer
<1> DEFINE I == {i \in DOMAIN arr : arr[i].key \notin Keys(own)}
           p == Pick(arr, I)
<1>1. I \in SUBSET (DOMAIN arr)
    OBVIOUS
<1>2. p \in Seq(Entries) /\ Range(p) = {arr[i] : i \in I}
    BY <1>1, PickSound
<1>3. NewArrivals(own, arr) = Dedup(p)
    BY DEF NewArrivals
<1> HIDE DEF p
<1>4. Range(p) \subseteq Range(arr)
    BY <1>2 DEF Range
<1>5. Keys(p) = {e.key : e \in Range(p)}
    BY KeysOf
<1>6. Keys(p) = Keys(arr) \ Keys(own)
    <2>1. Keys(arr) = {arr[i].key : i \in DOMAIN arr}
        BY DEF Keys
    <2>2. Keys(p) = {arr[i].key : i \in I}
        BY <1>2, <1>5
    <2> QED
        BY <2>1, <2>2
<1> HIDE DEF I
<1>7. /\ Dedup(p) \in Seq(Entries) /\ Keys(Dedup(p)) = Keys(p)
      /\ \A e \in Range(Dedup(p)) :
            /\ \E x \in Range(p) : x.key = e.key /\ x.raw = e.raw
            /\ \E x \in Range(p) : x.key = e.key /\ x.defer = e.defer
    BY <1>2, DedupSound
<1> QED
    BY <1>3, <1>4, <1>6, <1>7

\* What a boundary makes of the claim own and the arrivals arr: it drops no
\* target, keeps at most budget entries and sorts them, sets nothing aside that
\* is more urgent than what it keeps, and invents no counts.  When the claim
\* already was as long as the budget, the kept ones are as urgent as it was.
Boundary(b, own, arr, budget) ==
    /\ b.keep \in Seq(Entries) /\ b.displaced \in Seq(Entries)
    /\ Keys(b.keep) \cup Keys(b.displaced) = Keys(own) \cup Keys(arr)
    /\ Len(b.keep) <= budget
    /\ b.displaced # <<>> => Len(b.keep) = budget
    /\ Len(own) >= budget => Len(b.keep) = budget
    /\ \A i, j \in DOMAIN b.keep : i < j => Priority(b.keep[i]) <= Priority(b.keep[j])
    /\ \A e \in Range(b.keep) : \A f \in Range(b.displaced) : Priority(e) <= Priority(f)
    /\ \A v \in Int : Len(own) >= budget /\ (\A e \in Range(own) : Priority(e) <= v)
                      => \A e \in Range(b.keep) : Priority(e) <= v
    /\ \A e \in Range(b.keep) \cup Range(b.displaced) :
          /\ \E x \in Range(own) \cup Range(arr) : x.key = e.key /\ x.raw = e.raw
          /\ \E x \in Range(own) \cup Range(arr) : x.key = e.key /\ x.defer = e.defer

\* Rebalanced() is such a boundary.
LEMMA RebalancedSound ==
    ASSUME NEW own \in Seq(Entries), NEW arr \in Seq(Entries), NEW budget \in Nat
    PROVE  Boundary(Rebalanced(own, arr, budget), own, arr, budget)
<1> DEFINE r == Raised(own, arr)
           n == NewArrivals(own, arr)
           all == r \o n
           B == Best(all, budget)
           keep == ByPriority(Pick(all, B))
           displaced == Pick(all, DOMAIN all \ B)
           b == Rebalanced(own, arr, budget)
<1>1. b.keep = keep /\ b.displaced = displaced
    BY DEF Rebalanced
<1>2. /\ r \in Seq(Entries) /\ Len(r) = Len(own) /\ Keys(r) = Keys(own)
      /\ \A i \in DOMAIN own : Priority(r[i]) <= Priority(own[i])
      /\ \A e \in Range(r) :
            /\ \E x \in Range(own) : x.key = e.key /\ x.raw = e.raw
            /\ \E x \in Range(own) \cup Range(arr) : x.key = e.key /\ x.defer = e.defer
    BY RaisedSound
<1>3. /\ n \in Seq(Entries) /\ Keys(n) = Keys(arr) \ Keys(own)
      /\ \A e \in Range(n) :
            /\ \E x \in Range(arr) : x.key = e.key /\ x.raw = e.raw
            /\ \E x \in Range(arr) : x.key = e.key /\ x.defer = e.defer
    BY NewArrivalsSound
<1> HIDE DEF r, n
<1>4. /\ all \in Seq(Entries) /\ Range(all) = Range(r) \cup Range(n)
      /\ Len(all) = Len(r) + Len(n) /\ Len(r) \in Nat /\ Len(n) \in Nat
      /\ \A i \in 1..Len(r) : all[i] = r[i]
    <2>1. r \in Seq(Entries) /\ n \in Seq(Entries)
        BY <1>2, <1>3
    <2> QED
        BY <2>1, RangeOfEntries
<1> HIDE DEF all
<1>5. /\ keep \in Seq(Entries) /\ displaced \in Seq(Entries)
      /\ Range(keep) = {all[i] : i \in B}
      /\ Range(keep) \cup Range(displaced) = Range(all)
      /\ Len(keep) <= budget
      /\ displaced # <<>> \/ Len(all) >= budget => Len(keep) = budget
      /\ \A i, j \in DOMAIN keep : i < j => Priority(keep[i]) <= Priority(keep[j])
      /\ \A e \in Range(keep) : \A f \in Range(displaced) : Priority(e) <= Priority(f)
    BY <1>4, SplitSound
<1>6. /\ IsFiniteSet(DOMAIN all) /\ Cardinality(DOMAIN all) = Len(all)
      /\ B = {i \in DOMAIN all : RankIn(i, Before(all), DOMAIN all) < budget}
    BY <1>4, BestRanks
<1> HIDE DEF B, keep, displaced
<1>7. Keys(keep) \cup Keys(displaced) = Keys(own) \cup Keys(arr)
    <2>1. /\ Keys(keep) = {e.key : e \in Range(keep)}
          /\ Keys(displaced) = {e.key : e \in Range(displaced)}
          /\ Keys(r) = {e.key : e \in Range(r)} /\ Keys(n) = {e.key : e \in Range(n)}
        BY KeysOf
    <2>2. Keys(keep) \cup Keys(displaced) = {e.key : e \in Range(all)}
        BY <1>5, <2>1
    <2>3. {e.key : e \in Range(all)} = Keys(r) \cup Keys(n)
        BY <1>4, <2>1
    <2> QED
        BY <1>2, <1>3, <2>2, <2>3
<1>8. Len(own) >= budget => Len(keep) = budget
    BY <1>2, <1>4, <1>5
<1>9. ASSUME NEW v \in Int, Len(own) >= budget, \A e \in Range(own) : Priority(e) <= v,
             NEW i \in B, ~(Priority(all[i]) <= v)
      PROVE  FALSE
    <2> DEFINE D == DOMAIN all
               F == {j \in D : <<j, i>> \in Before(all)}
    <2>1. D = 1..Len(all) /\ Len(own) \in Nat /\ Len(own) <= Len(all) /\ i \in D /\ Len(all) \in Nat
        BY <1>2, <1>4, <1>6
    <2>2. \A j \in D : Priority(all[j]) \in Int /\ j \in Int
        BY <1>4, <2>1, EntryFields
    <2>3. ASSUME NEW j \in 1..Len(own) PROVE j \in F
        <3>1. j \in D /\ j \in DOMAIN own /\ j \in 1..Len(r)
            BY <1>2, <2>1
        <3>2. own[j] \in Range(own) /\ own[j] \in Entries
            BY <3>1 DEF Range
        <3>3. Priority(own[j]) <= v /\ Priority(own[j]) \in Int
            BY <1>9, <3>2, EntryFields
        <3>4. Priority(all[j]) <= Priority(own[j])
            BY <1>2, <1>4, <3>1
        <3>5. Priority(all[j]) < Priority(all[i])
            BY <1>9, <2>1, <2>2, <3>1, <3>3, <3>4
        <3> QED
            BY <2>1, <3>1, <3>5 DEF Before
    <2>4. IsFiniteSet(F) /\ Cardinality(F) \in Nat
        BY <1>6, FS_Subset, FS_CardinalityType
    <2>5. Cardinality(1..Len(own)) = Len(own) /\ 1..Len(own) \in SUBSET F
        <3> DEFINE l == Len(own)
        <3>1. l \in Nat
            BY <2>1
        <3> HIDE DEF l
        <3>2. Cardinality(1..l) = l
            BY <3>1, FS_Interval
        <3> QED
            BY <2>3, <3>2 DEF l
    <2>6. Len(own) <= Cardinality(F)
        BY <2>4, <2>5, FS_Subset
    <2>7. Cardinality(F) < budget
        BY <1>6 DEF RankIn
    <2> QED
        BY <1>9, <2>1, <2>4, <2>6, <2>7
<1>10. \A v \in Int : Len(own) >= budget /\ (\A e \in Range(own) : Priority(e) <= v)
                      => \A e \in Range(keep) : Priority(e) <= v
    BY <1>5, <1>9
<1>11. \A e \in Range(all) :
            /\ \E x \in Range(own) \cup Range(arr) : x.key = e.key /\ x.raw = e.raw
            /\ \E x \in Range(own) \cup Range(arr) : x.key = e.key /\ x.defer = e.defer
    BY <1>2, <1>3, <1>4
<1> HIDE DEF b
<1> QED
    BY <1>1, <1>5, <1>7, <1>8, <1>10, <1>11 DEF b, Boundary

-----------------------------------------------------------------------------
(* What the steps of a pass do to their drainer                            *)

\* The line and the count of every entry of s are those of entries in S.
Drawn(s, S) ==
    \A e \in Range(s) :
        /\ \E x \in S : x.key = e.key /\ x.raw = e.raw
        /\ \E x \in S : x.key = e.key /\ x.defer = e.defer

\* Only the locals of d have changed.
Moved(d) ==
    /\ dr' \in [Drainers -> Drainer]
    /\ \A e \in Drainers \ {d} : dr'[e] = dr[e]

\* Drawn entries are bounded as their sources are.
LEMMA DrawnWithin ==
    ASSUME NEW s, NEW S, NEW b, Drawn(s, S), \A x \in S : x.defer <= b[x.key] /\ x.raw <= b[x.key]
    PROVE  Within(s, b)
BY DEF Drawn, Within

\* The locals of a drainer, by type.
LEMMA DrainerFields ==
    ASSUME Local
    PROVE  /\ dr \in [Drainers -> Drainer] /\ queue \in Seq(Entries) /\ proc \in Seq(Entries)
           /\ base \in [Targets -> 0..Escape]
           /\ Cap \in Nat /\ Escape \in Nat /\ LockRetryMax \in Nat
           /\ \A d \in Drainers : dr[d] \in Drainer /\ Fine(dr[d])
BY MinesAssumption DEF Local, TypeOK, Drainer

\* An assignment to the locals of d moves d alone.
LEMMA DrMoves ==
    ASSUME Local, NEW d \in Drainers, NEW q, q \in Drainer, dr' = [dr EXCEPT ![d] = q]
    PROVE  Moved(d) /\ dr'[d] = q
<1>1. dr \in [Drainers -> Drainer]
    BY DrainerFields
<1> QED
    BY <1>1 DEF Moved

\* The locals before the first pass.
LEMMA IdleFields ==
    /\ Idle \in Drainer /\ Fine(Idle)
    /\ Idle.pc = "off" /\ Idle.owned = <<>> /\ Idle.held = <<>> /\ Idle.requeue = <<>>
    /\ Idle.arrivals = <<>> /\ Idle.cur = <<>> /\ Idle.covered = {} /\ Idle.consumed = 0
<1>1. Cap \in Nat
    BY MinesAssumption
<1>2. Idle \in Drainer
    BY <1>1 DEF Idle, Drainer
<1>3. /\ Idle.pc = "off" /\ Idle.owned = <<>> /\ Idle.held = <<>> /\ Idle.requeue = <<>>
      /\ Idle.arrivals = <<>> /\ Idle.cur = <<>> /\ Idle.covered = {} /\ Idle.consumed = 0
    BY DEF Idle
<1>4. Len(<<>>) = 0
    OBVIOUS
<1>5. Fine(Idle)
    BY <1>1, <1>3, <1>4 DEF Fine, PassPCs
<1> QED
    BY <1>2, <1>3, <1>5

\* Idle with another pc.
LEMMA IdleAt ==
    ASSUME NEW l \in {"off", "top", "claim", "sleep", "end"}
    PROVE  LET q == [Idle EXCEPT !.pc = l]
           IN  /\ q \in Drainer /\ Fine(q) /\ q.pc = l
               /\ q.owned = <<>> /\ q.held = <<>> /\ q.requeue = <<>>
               /\ q.arrivals = <<>> /\ q.cur = <<>> /\ q.covered = {} /\ q.consumed = 0
<1> DEFINE q == [Idle EXCEPT !.pc = l]
<1>1. /\ q \in Drainer /\ q.pc = l
      /\ q.owned = Idle.owned /\ q.held = Idle.held /\ q.requeue = Idle.requeue
      /\ q.arrivals = Idle.arrivals /\ q.cur = Idle.cur /\ q.covered = Idle.covered
      /\ q.consumed = Idle.consumed
    BY IdleFields DEF Drainer
<1> HIDE DEF q
<1>2. q.pc \notin PassPCs
    BY <1>1 DEF PassPCs
<1>3. Cap \in Nat /\ Len(<<>>) = 0
    BY MinesAssumption
<1>4. Fine(q)
    BY <1>1, <1>2, <1>3, IdleFields DEF Fine, PassPCs
<1> QED
    BY <1>1, <1>4, IdleFields DEF q

\* A step that changes the pc of d, and nothing that Fine() asks of the new pc.
LEMMA PcMoves ==
    ASSUME Local, NEW d \in Drainers,
           NEW l \in {"off", "top", "claim", "mine", "end"},
           l = "mine" => dr[d].pc = "wait",
           dr' = [dr EXCEPT ![d].pc = l]
    PROVE  /\ Moved(d) /\ Fine(dr'[d]) /\ dr'[d].pc = l
           /\ dr'[d].owned = dr[d].owned /\ dr'[d].held = dr[d].held
           /\ dr'[d].requeue = dr[d].requeue /\ dr'[d].arrivals = dr[d].arrivals
           /\ dr'[d].cur = dr[d].cur /\ dr'[d].covered = dr[d].covered
           /\ dr'[d].consumed = dr[d].consumed
<1> DEFINE q == [dr[d] EXCEPT !.pc = l]
<1>1. dr[d] \in Drainer /\ Fine(dr[d]) /\ dr \in [Drainers -> Drainer]
    BY DrainerFields
<1>2. /\ q \in Drainer /\ q.pc = l
      /\ q.owned = dr[d].owned /\ q.held = dr[d].held /\ q.requeue = dr[d].requeue
      /\ q.arrivals = dr[d].arrivals /\ q.cur = dr[d].cur /\ q.covered = dr[d].covered
      /\ q.consumed = dr[d].consumed
    BY <1>1 DEF Drainer
<1>3. dr' = [dr EXCEPT ![d] = q]
    BY <1>1
<1> HIDE DEF q
<1>4. Moved(d) /\ dr'[d] = q
    BY <1>2, <1>3, DrMoves
<1>5. Fine(q)
    BY <1>1, <1>2 DEF Fine, PassPCs
<1> QED
    BY <1>2, <1>4, <1>5

\* Claim() puts every target of both files into the pass and into the new
\* .processing, and notes the highest count of each.
LEMMA ClaimEffect ==
    ASSUME Local, NEW d \in Drainers, Claim(d)
    PROVE  LET n == dr'[d]
               S == Range(queue) \cup Range(proc)
           IN  /\ Moved(d) /\ Fine(n) /\ queue' = <<>>
               /\ n.requeue = <<>> /\ n.arrivals = <<>> /\ n.cur = <<>>
               /\ proc' \in Seq(Entries) /\ base' \in [Targets -> 0..Escape]
               /\ Keys(proc') = Keys(queue) \cup Keys(proc)
               /\ \/ /\ n = Idle /\ queue = <<>> /\ proc = <<>> /\ proc' = proc /\ base' = base
                  \/ /\ n.pc = "next"
                     /\ Keys(n.owned) \cup Keys(n.held) = Keys(queue) \cup Keys(proc)
                     /\ Drawn(n.owned, S) /\ Drawn(n.held, S)
                     /\ \A e \in Range(proc') :
                           e \in S \/ (e.raw = e.defer /\ \E x \in S : x.key = e.key /\ x.raw = e.raw)
                     /\ \A e \in S : e.defer <= base'[e.key]
<1> DEFINE lines == queue \o proc
           unique == Dedup(lines)
           batch == ByPriority(Pick(unique, Best(unique, Cap)))
           deferred == Pick(unique, DOMAIN unique \ Best(unique, Cap))
           S == Range(queue) \cup Range(proc)
           n == dr'[d]
<1>1. /\ dr \in [Drainers -> Drainer] /\ queue \in Seq(Entries) /\ proc \in Seq(Entries)
      /\ base \in [Targets -> 0..Escape] /\ Cap \in Nat /\ Escape \in Nat
    BY DrainerFields
<1>2. /\ lines \in Seq(Entries) /\ Range(lines) = S /\ S \subseteq Entries
      /\ lines = <<>> => queue = <<>> /\ proc = <<>>
    <2>1. /\ lines \in Seq(Entries) /\ Range(lines) = S
          /\ Range(queue) \subseteq Entries /\ Range(proc) \subseteq Entries
          /\ queue = <<>> <=> Range(queue) = {}
          /\ proc = <<>> <=> Range(proc) = {}
        BY <1>1, RangeOfEntries
    <2>2. lines = <<>> => Range(lines) = {}
        BY DEF Range
    <2> HIDE DEF lines
    <2> QED
        BY <2>1, <2>2
<1>3. Keys(lines) = Keys(queue) \cup Keys(proc)
    <2>1. /\ Keys(lines) = {e.key : e \in Range(lines)} /\ Keys(queue) = {e.key : e \in Range(queue)}
          /\ Keys(proc) = {e.key : e \in Range(proc)}
        BY KeysOf
    <2> QED
        BY <1>2, <2>1
<1>4. /\ queue' = <<>>
      /\ lines = <<>> => dr' = [dr EXCEPT ![d] = Idle] /\ UNCHANGED <<proc, base>>
      /\ lines # <<>> =>
           /\ proc' = IF deferred = <<>> THEN lines ELSE Lines(batch \o deferred)
           /\ dr' = [dr EXCEPT ![d] = [Idle EXCEPT !.pc = "next", !.owned = batch, !.held = deferred]]
           /\ base' = [t \in Targets |->
                Max({0} \cup {lines[i].defer : i \in {j \in DOMAIN lines : lines[j].key = t}})]
    BY DEF Claim
<1> HIDE DEF lines
<1>5. CASE lines = <<>>
    <2>1. Moved(d) /\ n = Idle
        BY <1>4, <1>5, DrMoves, IdleFields
    <2> HIDE DEF n
    <2>2. Keys(proc') = Keys(queue) \cup Keys(proc)
        BY <1>2, <1>4, <1>5 DEF Keys
    <2> QED
        BY <1>1, <1>2, <1>4, <1>5, <2>1, <2>2, IdleFields DEF n
<1>6. CASE lines # <<>>
    <2>1. /\ unique \in Seq(Entries) /\ Keys(unique) = Keys(lines) /\ Drawn(unique, S)
        BY <1>2, DedupSound DEF Drawn
    <2> HIDE DEF unique
    <2>2. /\ batch \in Seq(Entries) /\ deferred \in Seq(Entries)
          /\ Range(batch) \cup Range(deferred) = Range(unique)
          /\ Len(batch) <= Cap
          /\ deferred # <<>> => Len(batch) = Cap
          /\ \A i, j \in DOMAIN batch : i < j => Priority(batch[i]) <= Priority(batch[j])
          /\ \A e \in Range(batch) : \A f \in Range(deferred) : Priority(e) <= Priority(f)
        BY <1>1, <2>1, SplitSound
    <2> HIDE DEF batch, deferred
    <2> DEFINE q == [Idle EXCEPT !.pc = "next", !.owned = batch, !.held = deferred]
    <2>3. /\ q \in Drainer /\ q.pc = "next" /\ q.owned = batch /\ q.held = deferred
          /\ q.requeue = <<>> /\ q.arrivals = <<>> /\ q.cur = <<>> /\ q.consumed = 0
        BY <2>2, IdleFields DEF Drainer
    <2>4. dr' = [dr EXCEPT ![d] = q]
        BY <1>4, <1>6
    <2> HIDE DEF q
    <2>5. Moved(d) /\ n = q
        BY <2>3, <2>4, DrMoves
    <2>6. Fine(q)
        <3>1. Len(batch) \in Nat /\ 0 + Len(batch) = Len(batch)
            BY <2>2
        <3> QED
            BY <2>2, <2>3, <3>1 DEF Fine
    <2>7. Keys(batch) \cup Keys(deferred) = Keys(queue) \cup Keys(proc)
        <3>1. /\ Keys(batch) = {e.key : e \in Range(batch)}
              /\ Keys(deferred) = {e.key : e \in Range(deferred)}
              /\ Keys(unique) = {e.key : e \in Range(unique)}
            BY KeysOf
        <3> QED
            BY <1>3, <2>1, <2>2, <3>1
    <2>8. Drawn(batch, S) /\ Drawn(deferred, S)
        BY <2>1, <2>2 DEF Drawn
    <2>9. /\ proc' \in Seq(Entries) /\ Keys(proc') = Keys(queue) \cup Keys(proc)
          /\ \A e \in Range(proc') :
                e \in S \/ (e.raw = e.defer /\ \E x \in S : x.key = e.key /\ x.raw = e.raw)
        <3>1. CASE deferred = <<>>
            BY <1>2, <1>3, <1>4, <1>6, <3>1
        <3>2. CASE deferred # <<>>
            <4> DEFINE c == batch \o deferred
            <4>0. batch \in Seq(Entries) /\ deferred \in Seq(Entries)
                BY <2>2
            <4>a. c \in Seq(Entries) /\ Range(c) = Range(batch) \cup Range(deferred)
                BY <4>0, RangeOfEntries
            <4>1. c \in Seq(Entries) /\ Range(c) = Range(unique)
                BY <2>2, <4>a
            <4>2. proc' = Lines(c)
                BY <1>4, <1>6, <3>2
            <4> HIDE DEF c
            <4>3. /\ Lines(c) \in Seq(Entries) /\ Keys(Lines(c)) = Keys(c)
                  /\ \A e \in Range(Lines(c)) : \E x \in Range(c) :
                        e.key = x.key /\ e.raw = x.raw /\ e.defer = x.raw
                BY <4>1, LinesSound
            <4>4. Keys(c) = Keys(unique)
                BY <4>1, KeysOf
            <4>5. \A e \in Range(Lines(c)) : e.raw = e.defer /\ \E x \in S : x.key = e.key /\ x.raw = e.raw
                BY <2>1, <4>1, <4>3 DEF Drawn
            <4> QED
                BY <1>3, <2>1, <4>2, <4>3, <4>4, <4>5
        <3> QED
            BY <3>1, <3>2
    <2> DEFINE M(t) == {0} \cup {lines[i].defer : i \in {j \in DOMAIN lines : lines[j].key = t}}
    <2>10. \A t \in Targets : /\ M(t) \in SUBSET (0..Escape)
                              /\ Max(M(t)) \in M(t) /\ \A x \in M(t) : x <= Max(M(t))
        <3> SUFFICES ASSUME NEW t \in Targets
                     PROVE  /\ M(t) \in SUBSET (0..Escape)
                            /\ Max(M(t)) \in M(t) /\ \A x \in M(t) : x <= Max(M(t))
            OBVIOUS
        <3>1. \A i \in DOMAIN lines : lines[i].defer \in 0..Escape
            BY <1>2, EntryFields
        <3>2. M(t) \in SUBSET (0..Escape) /\ M(t) # {}
            BY <1>1, <3>1
        <3> HIDE DEF M
        <3> QED
            BY <1>1, <3>2, MaxOfBounded
    <2>11. base' = [t \in Targets |-> Max(M(t))]
        BY <1>4, <1>6
    <2>12. \A e \in S : \E t \in Targets : t = e.key /\ e.defer \in M(t)
        <3> SUFFICES ASSUME NEW e \in Range(lines)
                     PROVE  e.key \in Targets /\ e.defer \in M(e.key)
            BY <1>2
        <3>1. e \in Entries
            BY <1>2
        <3>2. PICK i \in DOMAIN lines : e = lines[i]
            BY DEF Range
        <3> QED
            BY <3>1, <3>2, EntryFields
    <2> HIDE DEF M
    <2>13. base' \in [Targets -> 0..Escape] /\ \A e \in S : e.defer <= base'[e.key]
        BY <2>10, <2>11, <2>12
    <2> HIDE DEF n, S
    <2> QED
        BY <1>4, <2>3, <2>5, <2>6, <2>7, <2>8, <2>9, <2>13 DEF n, S
<1> QED
    BY <1>5, <1>6

\* Take() pops the head of the claim: settled, put back, or in hand.
LEMMA TakeEffect ==
    ASSUME Local, NEW d \in Drainers, Take(d)
    PROVE  LET n == dr'[d]
               o == dr[d]
               e == Head(o.owned)
           IN  /\ Moved(d) /\ Fine(n) /\ e \in Entries /\ e \in Range(o.owned)
               /\ o.pc = "next" /\ n.pc \in {"merge", "wait"}
               /\ Range(n.owned) \subseteq Range(o.owned)
               /\ Range(o.owned) \subseteq {e} \cup Range(n.owned)
               /\ n.held = o.held /\ n.arrivals = o.arrivals
               /\ \/ n.pc = "merge" /\ n.cur = <<>> /\ n.requeue = o.requeue /\ owed' = owed \ {e.key}
                  \/ n.pc = "merge" /\ n.cur = <<>> /\ n.requeue = o.requeue \o Dumped(<<e>>) /\ owed' = owed
                  \/ /\ n.pc = "wait" /\ n.cur = <<e>> /\ n.requeue = o.requeue /\ owed' = owed
                     /\ n.covered = {e.key}
<1> DEFINE o == dr[d]
           e == Head(o.owned)
           n == dr'[d]
           popped == [o EXCEPT !.owned = Tail(@), !.consumed = @ + 1, !.cur = <<e>>, !.covered = {e.key}]
           a == [popped EXCEPT !.pc = "merge", !.cur = <<>>]
           b == [popped EXCEPT !.pc = "merge", !.cur = <<>>, !.requeue = @ \o Dumped(<<e>>)]
           c == [popped EXCEPT !.pc = "wait"]
<1>1. o \in Drainer /\ Fine(o) /\ Cap \in Nat
    BY DrainerFields
<1>2. o.pc = "next" /\ o.owned # <<>> /\ o.owned \in Seq(Entries) /\ o.requeue \in Seq(Entries)
    BY <1>1 DEF Take, Drainer
<1>3. /\ e \in Entries /\ Tail(o.owned) \in Seq(Entries) /\ Len(Tail(o.owned)) = Len(o.owned) - 1
      /\ Len(o.owned) \in Nat /\ Len(o.owned) > 0
      /\ DOMAIN Tail(o.owned) = 1..(Len(o.owned) - 1) /\ DOMAIN o.owned = 1..Len(o.owned)
      /\ \A i \in 1..(Len(o.owned) - 1) : Tail(o.owned)[i] = o.owned[i + 1]
      /\ o.owned[1] = e
    BY <1>2
<1>4. Range(Tail(o.owned)) \subseteq Range(o.owned) /\ e \in Range(o.owned)
      /\ Range(o.owned) \subseteq {e} \cup Range(Tail(o.owned))
    <2> HIDE DEF o, e
    <2>1. \A i \in 1..(Len(o.owned) - 1) : i + 1 \in 1..Len(o.owned)
        BY <1>3
    <2>2. Range(Tail(o.owned)) \subseteq Range(o.owned)
        BY <1>3, <2>1 DEF Range
    <2>3. 1 \in DOMAIN o.owned
        BY <1>3
    <2>a. o.owned[1] = e
        BY <1>3
    <2>4. e \in Range(o.owned)
        BY <2>a, <2>3 DEF Range
    <2>5. ASSUME NEW i \in DOMAIN o.owned, i # 1 PROVE o.owned[i] \in Range(Tail(o.owned))
        <3>1. i - 1 \in 1..(Len(o.owned) - 1) /\ (i - 1) + 1 = i
            BY <1>3, <2>5
        <3>2. Tail(o.owned)[i - 1] = o.owned[i]
            BY <1>3, <3>1
        <3> QED
            BY <1>3, <3>1, <3>2 DEF Range
    <2>b. \A i \in DOMAIN o.owned : o.owned[i] \in {e} \cup Range(Tail(o.owned))
        BY <2>a, <2>5
    <2>6. Range(o.owned) \subseteq {e} \cup Range(Tail(o.owned))
        BY <2>b DEF Range
    <2> QED
        BY <2>2, <2>4, <2>6
<1>5. o.consumed \in 0..Cap /\ o.consumed + 1 \in 0..Cap
      /\ (o.consumed + 1) + (Len(o.owned) - 1) = o.consumed + Len(o.owned)
    <2>1. o.consumed \in 0..Cap /\ o.consumed + Len(o.owned) <= Cap
        BY <1>1 DEF Drainer, Fine
    <2>2. Cap \in Nat /\ Len(o.owned) \in Nat /\ Len(o.owned) > 0
        BY <1>1, <1>3
    <2> HIDE DEF o
    <2> QED
        BY <2>1, <2>2
<1>6. <<e>> \in Seq(Entries) /\ Dumped(<<e>>) \in Seq(Entries) /\ Len(<<e>>) = 1
    <2> HIDE DEF e
    <2>1. e \in Entries
        BY <1>3
    <2>2. <<e>> \in Seq(Entries) /\ Len(<<e>>) = 1
        BY <2>1
    <2> QED
        BY <2>2, DumpedSound
<1>7. o.requeue \o Dumped(<<e>>) \in Seq(Entries)
    BY <1>2, <1>6
<1>8. e.key \in Targets
    BY <1>3, EntryFields
<1>9. /\ popped \in Drainer /\ popped.owned = Tail(o.owned) /\ popped.consumed = o.consumed + 1
      /\ popped.held = o.held /\ popped.requeue = o.requeue /\ popped.arrivals = o.arrivals
      /\ popped.cur = <<e>> /\ popped.covered = {e.key}
    <2> HIDE DEF e
    <2> QED
        BY <1>1, <1>3, <1>5, <1>6, <1>8 DEF Drainer
<1>10. \/ dr' = [dr EXCEPT ![d] = a] /\ owed' = owed \ {e.key}
       \/ dr' = [dr EXCEPT ![d] = b] /\ owed' = owed
       \/ dr' = [dr EXCEPT ![d] = c] /\ owed' = owed
    BY DEF Take
<1>a. <<>> \in Seq(Entries)
    OBVIOUS
<1> HIDE DEF e, popped, o
<1>11. /\ a \in Drainer /\ a.pc = "merge" /\ a.cur = <<>> /\ a.requeue = o.requeue
       /\ a.owned = Tail(o.owned) /\ a.consumed = o.consumed + 1 /\ a.held = o.held /\ a.arrivals = o.arrivals
    BY <1>9, <1>a DEF Drainer
<1>12. /\ b \in Drainer /\ b.pc = "merge" /\ b.cur = <<>> /\ b.requeue = o.requeue \o Dumped(<<e>>)
       /\ b.owned = Tail(o.owned) /\ b.consumed = o.consumed + 1 /\ b.held = o.held /\ b.arrivals = o.arrivals
    BY <1>7, <1>9, <1>a DEF Drainer
<1>13. /\ c \in Drainer /\ c.pc = "wait" /\ c.cur = <<e>> /\ c.requeue = o.requeue /\ c.covered = {e.key}
       /\ c.owned = Tail(o.owned) /\ c.consumed = o.consumed + 1 /\ c.held = o.held /\ c.arrivals = o.arrivals
    BY <1>9 DEF Drainer
<1> HIDE DEF a, b, c
<1>14. ASSUME NEW q, q.pc \in {"merge", "wait"}, q.pc = "wait" => Len(q.cur) = 1,
              q.owned = Tail(o.owned), q.consumed = o.consumed + 1, q.held = o.held
       PROVE  Fine(q)
    <2>1. q.consumed + Len(q.owned) = o.consumed + Len(o.owned)
        BY <1>3, <1>5, <1>14
    <2> QED
        BY <1>1, <1>2, <1>4, <1>14, <2>1 DEF Fine, PassPCs
<1>15. Fine(a) /\ Fine(b) /\ Fine(c)
    BY <1>6, <1>11, <1>12, <1>13, <1>14
<1>16. \/ Moved(d) /\ n = a /\ owed' = owed \ {e.key}
       \/ Moved(d) /\ n = b /\ owed' = owed
       \/ Moved(d) /\ n = c /\ owed' = owed
    BY <1>10, <1>11, <1>12, <1>13, DrMoves
<1> HIDE DEF n
<1> QED
    BY <1>2, <1>3, <1>4, <1>11, <1>12, <1>13, <1>15, <1>16 DEF n, o, e

\* The mine ends: the entry in hand is settled, or goes back to the queue.
LEMMA MineEndsEffect ==
    ASSUME Local, NEW d \in Drainers, MineEnds(d)
    PROVE  LET n == dr'[d]
               o == dr[d]
           IN  /\ Moved(d) /\ Fine(n) /\ o.pc = "mine" /\ n.pc = "merge" /\ n.cur = <<>>
               /\ n.owned = o.owned /\ n.held = o.held /\ n.arrivals = o.arrivals
               /\ \/ n.requeue = o.requeue /\ owed' = owed \ o.covered
                  \/ /\ owed' = owed
                     /\ \E s \in Seq(Entries) :
                           /\ n.requeue = o.requeue \o s /\ Keys(s) = Keys(o.cur)
                           /\ \A e \in Range(s) : e.raw = e.defer /\
                                 \E x \in Range(o.cur) : x.key = e.key /\ x.defer = e.defer
<1> DEFINE o == dr[d]
           e == o.cur[1]
           n == dr'[d]
           after == [o EXCEPT !.pc = "merge", !.cur = <<>>, !.covered = {}]
           f == [e EXCEPT !.tries = @ + 1]
           s == Dumped(<<f>>)
           b == [after EXCEPT !.requeue = @ \o s]
<1>1. o \in Drainer /\ Fine(o) /\ Cap \in Nat /\ o.pc = "mine"
    BY DrainerFields DEF MineEnds
<1>2. o.cur \in Seq(Entries) /\ Len(o.cur) = 1 /\ o.requeue \in Seq(Entries)
    BY <1>1 DEF Drainer, Fine
<1>3. e \in Entries /\ DOMAIN o.cur = {1}
    BY <1>2
<1>4. /\ after \in Drainer /\ after.pc = "merge" /\ after.cur = <<>> /\ after.requeue = o.requeue
      /\ after.owned = o.owned /\ after.held = o.held /\ after.arrivals = o.arrivals
      /\ after.consumed = o.consumed
    <2>1. <<>> \in Seq(Entries)
        OBVIOUS
    <2> HIDE DEF o
    <2> QED
        BY <1>1, <2>1 DEF Drainer
<1>5. \/ dr' = [dr EXCEPT ![d] = after] /\ owed' = owed \ o.covered
      \/ dr' = [dr EXCEPT ![d] = b] /\ owed' = owed /\ MayRetry(e)
    BY DEF MineEnds
<1> HIDE DEF after
<1>6. ASSUME MayRetry(e)
      PROVE  /\ s \in Seq(Entries) /\ Keys(s) = Keys(o.cur)
             /\ \A x \in Range(s) : x.raw = x.defer /\
                   \E y \in Range(o.cur) : y.key = x.key /\ y.defer = x.defer
    <2>1. f \in Entries /\ f.key = e.key /\ f.defer = e.defer
        <3> HIDE DEF e
        <3>1. e.tries + 1 \in 0..LockRetryMax
            BY <1>3, <1>6, EntryFields DEF MayRetry
        <3> QED
            BY <1>3, <3>1 DEF Entries
    <2> HIDE DEF f
    <2>2. <<f>> \in Seq(Entries) /\ Range(<<f>>) = {f}
        BY <2>1 DEF Range
    <2>3. /\ s \in Seq(Entries) /\ Keys(s) = Keys(<<f>>)
          /\ \A x \in Range(s) : \E y \in Range(<<f>>) :
                x.key = y.key /\ x.raw = y.defer /\ x.defer = y.defer
        BY <2>2, DumpedSound
    <2>4. Keys(<<f>>) = {e.key} /\ Keys(o.cur) = {e.key}
        BY <1>3, <2>1, <2>2, KeysOf DEF Keys
    <2>5. e \in Range(o.cur)
        BY <1>3 DEF Range
    <2> HIDE DEF s
    <2> QED
        BY <2>1, <2>2, <2>3, <2>4, <2>5
<1> HIDE DEF s
<1>7. ASSUME MayRetry(e)
      PROVE  /\ b \in Drainer /\ b.pc = "merge" /\ b.cur = <<>> /\ b.requeue = o.requeue \o s
             /\ b.owned = o.owned /\ b.held = o.held /\ b.arrivals = o.arrivals
             /\ b.consumed = o.consumed
    <2>1. o.requeue \o s \in Seq(Entries)
        BY <1>2, <1>6, <1>7
    <2> QED
        BY <1>4, <2>1 DEF Drainer
<1> HIDE DEF b, o, e
<1>8. ASSUME NEW q, q.pc = "merge", q.owned = o.owned, q.consumed = o.consumed, q.held = o.held
      PROVE  Fine(q)
    BY <1>1, <1>8 DEF Fine, PassPCs
<1>9. CASE dr' = [dr EXCEPT ![d] = after] /\ owed' = owed \ o.covered
    <2>1. Moved(d) /\ n = after /\ Fine(after)
        BY <1>4, <1>8, <1>9, DrMoves
    <2> HIDE DEF n
    <2> QED
        BY <1>1, <1>4, <1>9, <2>1 DEF n, o
<1>10. CASE dr' = [dr EXCEPT ![d] = b] /\ owed' = owed /\ MayRetry(e)
    <2>1. Moved(d) /\ n = b /\ Fine(b)
        BY <1>7, <1>8, <1>10, DrMoves
    <2>2. /\ s \in Seq(Entries) /\ n.requeue = o.requeue \o s /\ Keys(s) = Keys(o.cur)
          /\ \A x \in Range(s) : x.raw = x.defer /\
                   \E y \in Range(o.cur) : y.key = x.key /\ y.defer = x.defer
        BY <1>6, <1>7, <1>10, <2>1
    <2> HIDE DEF n
    <2> QED
        BY <1>1, <1>7, <1>10, <2>1, <2>2 DEF n, o
<1> QED
    BY <1>5, <1>9, <1>10 DEF o, e

\* Merge(): with the budget spent the remainder is set aside; otherwise the
\* queue becomes the arrivals.
LEMMA MergeEffect ==
    ASSUME Local, NEW d \in Drainers, Merge(d)
    PROVE  LET n == dr'[d]
               o == dr[d]
           IN  /\ Moved(d) /\ Fine(n) /\ o.pc = "merge"
               /\ n.requeue = o.requeue /\ n.cur = o.cur
               /\ proc' \in Seq(Entries) /\ queue' \in Seq(Entries)
               /\ \/ /\ n.pc = "next" /\ n.owned = <<>> /\ Range(n.held) = Range(o.held) \cup Range(o.owned)
                     /\ n.arrivals = o.arrivals /\ queue' = queue
                     /\ Keys(proc') = Keys(n.held) /\ Keys(n.held) = Keys(o.owned) \cup Keys(o.held)
                     /\ \A e \in Range(proc') : e.raw = e.defer /\
                           \E x \in Range(n.held) : x.key = e.key /\ x.raw = e.raw
                  \/ /\ n.pc = "write" /\ n.owned = o.owned /\ n.held = o.held
                     /\ n.arrivals = queue /\ queue' = <<>> /\ proc' = proc
<1> DEFINE o == dr[d]
           n == dr'[d]
           h == o.held \o o.owned
           w == o.owned \o o.held
           a == [o EXCEPT !.pc = "next", !.owned = <<>>, !.held = h]
           b == [o EXCEPT !.pc = "write", !.arrivals = queue]
<1>1. /\ o \in Drainer /\ Fine(o) /\ Cap \in Nat /\ o.pc = "merge" /\ dr \in [Drainers -> Drainer]
      /\ queue \in Seq(Entries) /\ proc \in Seq(Entries) /\ <<>> \in Seq(Entries)
    BY DrainerFields DEF Merge
<1>2. o.owned \in Seq(Entries) /\ o.held \in Seq(Entries) /\ o.consumed \in 0..Cap
    BY <1>1 DEF Drainer
<1>3. /\ h \in Seq(Entries) /\ Range(h) = Range(o.held) \cup Range(o.owned)
      /\ w \in Seq(Entries) /\ Range(w) = Range(o.owned) \cup Range(o.held)
    BY <1>2, RangeOfEntries
<1>4. \/ /\ o.consumed >= Cap /\ proc' = Lines(w) /\ queue' = queue
         /\ dr' = [dr EXCEPT ![d] = a]
      \/ /\ o.consumed < Cap /\ proc' = proc /\ queue' = <<>>
         /\ dr' = [dr EXCEPT ![d] = b]
    <2>1. CASE o.consumed >= Cap
        BY <1>1, <2>1 DEF Merge
    <2>2. CASE o.consumed < Cap
        BY <1>1, <2>2 DEF Merge
    <2> QED
        BY <1>1, <1>2, <2>1, <2>2
<1> HIDE DEF h, w, o
<1>5. /\ a \in Drainer /\ a.pc = "next" /\ a.owned = <<>> /\ a.held = h /\ a.requeue = o.requeue
      /\ a.cur = o.cur /\ a.arrivals = o.arrivals /\ a.consumed = o.consumed
    BY <1>1, <1>3 DEF Drainer
<1>6. /\ b \in Drainer /\ b.pc = "write" /\ b.owned = o.owned /\ b.held = o.held
      /\ b.requeue = o.requeue /\ b.cur = o.cur /\ b.arrivals = queue /\ b.consumed = o.consumed
    BY <1>1 DEF Drainer
<1> HIDE DEF a, b
<1>7. Fine(b)
    BY <1>1, <1>6 DEF Fine, PassPCs
<1>8. ASSUME o.consumed >= Cap PROVE Fine(a)
    <2>1. a.consumed = Cap /\ Len(a.owned) = 0 /\ Cap + 0 = Cap
        BY <1>1, <1>2, <1>5, <1>8
    <2>2. Range(a.owned) = {} /\ DOMAIN a.owned = {}
        BY <1>5 DEF Range
    <2> QED
        BY <1>1, <1>5, <2>1, <2>2 DEF Fine, PassPCs
<1>9. CASE o.consumed >= Cap /\ proc' = Lines(w) /\ queue' = queue /\ dr' = [dr EXCEPT ![d] = a]
    <2>1. Moved(d) /\ n = a /\ Fine(a)
        BY <1>5, <1>8, <1>9, DrMoves
    <2>2. /\ Lines(w) \in Seq(Entries) /\ Keys(Lines(w)) = Keys(w)
          /\ \A e \in Range(Lines(w)) : \E x \in Range(w) :
                e.key = x.key /\ e.raw = x.raw /\ e.defer = x.raw
        BY <1>3, LinesSound
    <2>3. Keys(w) = Keys(h) /\ Keys(h) = Keys(o.owned) \cup Keys(o.held)
        BY <1>3, KeysOf
    <2>4. \A e \in Range(Lines(w)) : e.raw = e.defer /\ \E x \in Range(h) : x.key = e.key /\ x.raw = e.raw
        BY <1>3, <2>2
    <2> HIDE DEF n
    <2> QED
        BY <1>1, <1>3, <1>5, <1>9, <2>1, <2>2, <2>3, <2>4 DEF n, o
<1>10. CASE proc' = proc /\ queue' = <<>> /\ dr' = [dr EXCEPT ![d] = b]
    <2>1. Moved(d) /\ n = b
        BY <1>6, <1>10, DrMoves
    <2> HIDE DEF n
    <2> QED
        BY <1>1, <1>6, <1>7, <1>10, <2>1 DEF n, o
<1> QED
    BY <1>4, <1>9, <1>10

\* WriteClaim(): .processing names exactly what the pass still holds, and what
\* it holds are the claim, the arrivals and what was set aside before.
LEMMA WriteClaimEffect ==
    ASSUME Local, NEW d \in Drainers, WriteClaim(d)
    PROVE  LET n == dr'[d]
               o == dr[d]
               S == Range(o.owned) \cup Range(o.arrivals) \cup Range(o.held)
           IN  /\ Moved(d) /\ Fine(n) /\ o.pc = "write" /\ n.pc = "next"
               /\ n.requeue = o.requeue /\ n.cur = o.cur /\ n.arrivals = <<>>
               /\ Keys(n.owned) \cup Keys(n.held) = Keys(o.owned) \cup Keys(o.arrivals) \cup Keys(o.held)
               /\ Drawn(n.owned, S) /\ Drawn(n.held, S)
               /\ proc' \in Seq(Entries)
               /\ Keys(proc') = Keys(n.owned) \cup Keys(n.held)
               /\ \A e \in Range(proc') : e.raw = e.defer /\ \E x \in S : x.key = e.key /\ x.raw = e.raw
<1> DEFINE o == dr[d]
           n == dr'[d]
           r == Rebalanced(o.owned, o.arrivals, Cap - o.consumed)
           h == o.held \o r.displaced
           u == r.keep \o o.held
           w == u \o r.displaced
           q == [o EXCEPT !.pc = "next", !.owned = r.keep, !.arrivals = <<>>, !.held = h]
           T == Range(o.owned) \cup Range(o.arrivals)
           S == T \cup Range(o.held)
<1>1. /\ o \in Drainer /\ Fine(o) /\ Cap \in Nat /\ o.pc = "write" /\ dr \in [Drainers -> Drainer]
      /\ <<>> \in Seq(Entries)
    BY DrainerFields DEF WriteClaim
<1>2. /\ o.owned \in Seq(Entries) /\ o.held \in Seq(Entries) /\ o.arrivals \in Seq(Entries)
      /\ o.consumed \in 0..Cap
    BY <1>1 DEF Drainer
<1>3. Cap - o.consumed \in Nat
    BY <1>1, <1>2
<1>4. proc' = Lines(w) /\ dr' = [dr EXCEPT ![d] = q]
    BY <1>1 DEF WriteClaim
<1> HIDE DEF o, r
<1>5. /\ r.keep \in Seq(Entries) /\ r.displaced \in Seq(Entries)
      /\ Keys(r.keep) \cup Keys(r.displaced) = Keys(o.owned) \cup Keys(o.arrivals)
      /\ Len(r.keep) <= Cap - o.consumed
      /\ r.displaced # <<>> => Len(r.keep) = Cap - o.consumed
      /\ Len(o.owned) >= Cap - o.consumed => Len(r.keep) = Cap - o.consumed
      /\ \A i, j \in DOMAIN r.keep : i < j => Priority(r.keep[i]) <= Priority(r.keep[j])
      /\ \A e \in Range(r.keep) : \A f \in Range(r.displaced) : Priority(e) <= Priority(f)
      /\ \A v \in Int : Len(o.owned) >= Cap - o.consumed /\ (\A e \in Range(o.owned) : Priority(e) <= v)
                        => \A e \in Range(r.keep) : Priority(e) <= v
      /\ \A e \in Range(r.keep) \cup Range(r.displaced) :
            /\ \E x \in T : x.key = e.key /\ x.raw = e.raw
            /\ \E x \in T : x.key = e.key /\ x.defer = e.defer
    <2>1. Boundary(r, o.owned, o.arrivals, Cap - o.consumed)
        BY <1>2, <1>3, RebalancedSound DEF r
    <2> QED
        BY <2>1 DEF Boundary
<1>6. /\ h \in Seq(Entries) /\ Range(h) = Range(o.held) \cup Range(r.displaced)
      /\ u \in Seq(Entries) /\ Range(u) = Range(r.keep) \cup Range(o.held)
    <2>1. r.keep \in Seq(Entries) /\ r.displaced \in Seq(Entries) /\ o.held \in Seq(Entries)
        BY <1>2, <1>5
    <2> QED
        BY <2>1, RangeOfEntries
<1>7. /\ w \in Seq(Entries)
      /\ Range(w) = Range(r.keep) \cup Range(h)
    <2>1. u \in Seq(Entries) /\ r.displaced \in Seq(Entries)
        BY <1>5, <1>6
    <2> HIDE DEF u
    <2>2. w \in Seq(Entries) /\ Range(w) = Range(u) \cup Range(r.displaced)
        BY <2>1, RangeOfEntries
    <2> HIDE DEF w
    <2> QED
        BY <1>6, <2>2
<1>8. h = <<>> => o.held = <<>> /\ r.displaced = <<>>
    <2>1. h = <<>> => Range(h) = {}
        BY DEF Range
    <2>2. (o.held = <<>> <=> Range(o.held) = {}) /\ (r.displaced = <<>> <=> Range(r.displaced) = {})
        <3>1. o.held \in Seq(Entries) /\ r.displaced \in Seq(Entries)
            BY <1>2, <1>5
        <3> QED
            BY <3>1, RangeOfEntries
    <2> QED
        BY <1>6, <2>1, <2>2
<1>9. o.held # <<>> \/ r.displaced # <<>> \/ h = <<>>
    BY <1>2
<1> HIDE DEF h, w, u
<1>10. /\ q \in Drainer /\ q.pc = "next" /\ q.owned = r.keep /\ q.held = h /\ q.requeue = o.requeue
       /\ q.cur = o.cur /\ q.arrivals = <<>> /\ q.consumed = o.consumed
    BY <1>1, <1>5, <1>6 DEF Drainer
<1> HIDE DEF q
<1>11. Moved(d) /\ n = q
    BY <1>4, <1>10, DrMoves
<1>12. Len(r.keep) \in Nat /\ Len(o.owned) \in Nat
    BY <1>2, <1>5
<1>13. o.held # <<>> => Len(o.owned) >= Cap - o.consumed
    BY <1>1, <1>2, <1>12 DEF Fine, PassPCs
<1>14. Fine(q)
    <2>1. q.consumed + Len(q.owned) <= Cap
        BY <1>1, <1>2, <1>5, <1>10, <1>12
    <2>2. q.held # <<>> => q.consumed + Len(q.owned) = Cap
        <3>1. q.held # <<>> => Len(r.keep) = Cap - o.consumed
            BY <1>5, <1>9, <1>10, <1>13
        <3> QED
            BY <1>1, <1>2, <1>10, <1>12, <3>1
    <2>3. ASSUME NEW e \in Range(q.owned), NEW f \in Range(q.held) PROVE Priority(e) <= Priority(f)
        <3>1. CASE f \in Range(r.displaced)
            BY <1>5, <1>10, <2>3, <3>1
        <3>2. CASE f \in Range(o.held)
            <4>1. o.held # <<>>
                BY <3>2 DEF Range
            <4>2. f \in Entries
                BY <1>2, <3>2, RangeOfEntries
            <4>3. Priority(f) \in Int
                BY <4>2, EntryFields
            <4>4. \A x \in Range(o.owned) : Priority(x) <= Priority(f)
                BY <1>1, <3>2 DEF Fine, PassPCs
            <4>5. e \in Range(r.keep)
                BY <1>10, <2>3
            <4> QED
                BY <1>5, <1>13, <4>1, <4>3, <4>4, <4>5
        <3> QED
            BY <1>6, <1>10, <2>3, <3>1, <3>2
    <2> QED
        BY <1>5, <1>10, <2>1, <2>2, <2>3 DEF Fine, PassPCs
<1>15. Drawn(r.keep, S) /\ Drawn(h, S) /\ Drawn(w, S)
    <2>1. \A e \in Range(r.keep) \cup Range(h) :
            /\ \E x \in S : x.key = e.key /\ x.raw = e.raw
            /\ \E x \in S : x.key = e.key /\ x.defer = e.defer
        BY <1>5, <1>6
    <2> QED
        BY <1>7, <2>1 DEF Drawn
<1>16. /\ Keys(r.keep) \cup Keys(h) = Keys(o.owned) \cup Keys(o.arrivals) \cup Keys(o.held)
       /\ Keys(w) = Keys(r.keep) \cup Keys(h)
    <2>1. /\ Keys(h) = {e.key : e \in Range(h)} /\ Keys(r.keep) = {e.key : e \in Range(r.keep)}
          /\ Keys(o.held) = {e.key : e \in Range(o.held)} /\ Keys(w) = {e.key : e \in Range(w)}
          /\ Keys(r.displaced) = {e.key : e \in Range(r.displaced)}
        BY KeysOf
    <2>2. Keys(h) = Keys(o.held) \cup Keys(r.displaced)
        BY <1>6, <2>1
    <2>3. Keys(w) = Keys(r.keep) \cup Keys(h)
        BY <1>7, <2>1
    <2> QED
        BY <1>5, <2>2, <2>3
<1>17. /\ Lines(w) \in Seq(Entries) /\ Keys(Lines(w)) = Keys(w)
       /\ \A e \in Range(Lines(w)) : \E x \in Range(w) :
                e.key = x.key /\ e.raw = x.raw /\ e.defer = x.raw
    BY <1>7, LinesSound
<1>18. \A e \in Range(Lines(w)) : e.raw = e.defer /\ \E x \in S : x.key = e.key /\ x.raw = e.raw
    BY <1>15, <1>17 DEF Drawn
<1> HIDE DEF n, S
<1> QED
    BY <1>1, <1>4, <1>10, <1>11, <1>14, <1>15, <1>16, <1>17, <1>18 DEF n, S, T, o

\* EndPass(): what was set aside or requeued is in the queue again.
LEMMA EndPassEffect ==
    ASSUME Local, NEW d \in Drainers, EndPass(d)
    PROVE  LET n == dr'[d]
               o == dr[d]
           IN  /\ Moved(d) /\ Fine(n) /\ o.pc = "next" /\ o.owned = <<>>
               /\ n.owned = <<>> /\ n.held = <<>> /\ n.requeue = <<>> /\ n.arrivals = <<>> /\ n.cur = <<>>
               /\ proc' \in Seq(Entries) /\ queue' \in Seq(Entries)
               /\ Keys(queue') = Keys(queue) \cup Keys(o.held) \cup Keys(o.requeue)
               /\ \A e \in Range(queue') :
                     \/ e \in Range(queue) \cup Range(o.requeue)
                     \/ e.raw = e.defer /\ \E x \in Range(o.held) : x.key = e.key /\ e.defer <= x.defer + 1
               /\ \/ n.pc = "end" /\ proc' = <<>>
                  \/ n.pc = "sleep" /\ proc' = proc
<1> DEFINE o == dr[d]
           n == dr'[d]
           l == IF o.requeue = <<>> THEN "end" ELSE "sleep"
           q == [Idle EXCEPT !.pc = l]
           B == Bumped(o.held)
           u == queue \o B
<1>1. /\ o \in Drainer /\ queue \in Seq(Entries) /\ proc \in Seq(Entries) /\ <<>> \in Seq(Entries)
      /\ o.pc = "next" /\ o.owned = <<>>
    BY DrainerFields DEF EndPass
<1>2. o.held \in Seq(Entries) /\ o.requeue \in Seq(Entries)
    BY <1>1 DEF Drainer
<1>3. /\ queue' = u \o o.requeue
      /\ proc' = IF o.requeue = <<>> THEN <<>> ELSE proc
      /\ dr' = [dr EXCEPT ![d] = q]
    BY DEF EndPass
<1>4. l \in {"off", "top", "claim", "sleep", "end"}
    OBVIOUS
<1> HIDE DEF o
<1>5. /\ q \in Drainer /\ Fine(q) /\ q.pc = l
      /\ q.owned = <<>> /\ q.held = <<>> /\ q.requeue = <<>> /\ q.arrivals = <<>> /\ q.cur = <<>>
    <2> HIDE DEF l
    <2> QED
        BY <1>4, IdleAt
<1> HIDE DEF q
<1>6. Moved(d) /\ n = q
    BY <1>3, <1>5, DrMoves
<1>7. /\ B \in Seq(Entries) /\ Keys(B) = Keys(o.held)
      /\ \A e \in Range(B) : e.raw = e.defer /\
             \E x \in Range(o.held) : e.key = x.key /\ e.defer <= x.defer + 1
    BY <1>2, BumpedSound
<1> HIDE DEF B
<1>8. u \in Seq(Entries) /\ Range(u) = Range(queue) \cup Range(B)
    <2>1. B \in Seq(Entries)
        BY <1>7
    <2> QED
        BY <1>1, <2>1, RangeOfEntries
<1> HIDE DEF u
<1>9. queue' \in Seq(Entries) /\ Range(queue') = Range(queue) \cup Range(B) \cup Range(o.requeue)
    <2>1. u \in Seq(Entries) /\ o.requeue \in Seq(Entries)
        BY <1>2, <1>8
    <2>2. u \o o.requeue \in Seq(Entries) /\ Range(u \o o.requeue) = Range(u) \cup Range(o.requeue)
        BY <2>1, RangeOfEntries
    <2> QED
        BY <1>3, <1>8, <2>2
<1>10. Keys(queue') = Keys(queue) \cup Keys(o.held) \cup Keys(o.requeue)
    <2>1. /\ Keys(queue') = {e.key : e \in Range(queue')} /\ Keys(queue) = {e.key : e \in Range(queue)}
          /\ Keys(B) = {e.key : e \in Range(B)} /\ Keys(o.requeue) = {e.key : e \in Range(o.requeue)}
        BY KeysOf
    <2>2. Keys(queue') = Keys(queue) \cup Keys(B) \cup Keys(o.requeue)
        BY <1>9, <2>1
    <2> QED
        BY <1>7, <2>2
<1>11. \A e \in Range(queue') :
          \/ e \in Range(queue) \cup Range(o.requeue)
          \/ e.raw = e.defer /\ \E x \in Range(o.held) : x.key = e.key /\ e.defer <= x.defer + 1
    BY <1>7, <1>9
<1>12. \/ n.pc = "end" /\ proc' = <<>>
       \/ n.pc = "sleep" /\ proc' = proc
    BY <1>3, <1>5, <1>6
<1>13. proc' \in Seq(Entries)
    BY <1>1, <1>12
<1> HIDE DEF n
<1> QED
    BY <1>1, <1>5, <1>6, <1>9, <1>10, <1>11, <1>12, <1>13 DEF n, o

\* The targets of two sequences.
LEMMA KeysConcat ==
    ASSUME NEW s \in Seq(Entries), NEW t \in Seq(Entries)
    PROVE  Keys(s \o t) = Keys(s) \cup Keys(t)
<1>1. Range(s \o t) = Range(s) \cup Range(t)
    BY RangeOfEntries
<1>2. /\ Keys(s) = {e.key : e \in Range(s)} /\ Keys(t) = {e.key : e \in Range(t)}
      /\ Keys(s \o t) = {e.key : e \in Range(s \o t)}
    BY KeysOf
<1> QED
    BY <1>1, <1>2

\* A drain that cannot read the orphaned .processing leaves both files alone.
LEMMA DrainRaisesEffect ==
    ASSUME Local, NEW d \in Drainers, DrainRaises(d)
    PROVE  /\ Moved(d) /\ dr[d].pc = "claim" /\ dr'[d] = Idle /\ Fine(dr'[d])
           /\ UNCHANGED <<queue, proc, mineSem, rebuild, owed, base>>
<1>1. /\ dr' = [dr EXCEPT ![d] = Idle] /\ dr[d].pc = "claim"
      /\ UNCHANGED <<queue, proc, mineSem, rebuild, owed, base>>
    BY DEF DrainRaises
<1>2. Moved(d) /\ dr'[d] = Idle
    BY <1>1, IdleFields, DrMoves
<1> QED
    BY <1>1, <1>2, IdleFields

\* A pass that raises leaves .processing with all it had, or with what the claim
\* had renamed; what it had already deferred is also in the queue.
LEMMA PassRaisesEffect ==
    ASSUME Local, NEW d \in Drainers, PassRaises(d)
    PROVE  LET n == dr'[d]
               o == dr[d]
           IN  /\ Moved(d) /\ Fine(n) /\ n.pc = "end"
               /\ n.owned = <<>> /\ n.held = <<>> /\ n.requeue = <<>> /\ n.arrivals = <<>> /\ n.cur = <<>>
               /\ proc' \in Seq(Entries) /\ queue' \in Seq(Entries)
               /\ \/ /\ o.pc = "claim" /\ queue' = <<>>
                     /\ Keys(proc') = Keys(queue) \cup Keys(proc)
                     /\ Range(proc') = Range(queue) \cup Range(proc)
                  \/ o.pc = "write" /\ queue' = queue /\ proc' = proc
                  \/ /\ o.pc = "next" /\ o.owned = <<>> /\ proc' = proc
                     /\ Keys(queue') = Keys(queue) \cup Keys(o.held)
                     /\ \A e \in Range(queue') :
                           \/ e \in Range(queue)
                           \/ e.raw = e.defer /\ \E x \in Range(o.held) : x.key = e.key /\ e.defer <= x.defer + 1
<1> DEFINE o == dr[d]
           n == dr'[d]
           q == [Idle EXCEPT !.pc = "end"]
           B == Bumped(o.held)
<1>1. o \in Drainer /\ queue \in Seq(Entries) /\ proc \in Seq(Entries) /\ <<>> \in Seq(Entries)
    BY DrainerFields
<1>2. o.held \in Seq(Entries)
    BY <1>1 DEF Drainer
<1>3. /\ dr' = [dr EXCEPT ![d] = q]
      /\ \/ o.pc = "claim" /\ queue' = <<>> /\ proc' = queue \o proc
         \/ o.pc = "write" /\ queue' = queue /\ proc' = proc
         \/ o.pc = "next" /\ o.owned = <<>> /\ queue' = queue \o B /\ proc' = proc
    BY DEF PassRaises
<1> HIDE DEF o
<1>4. /\ q \in Drainer /\ Fine(q) /\ q.pc = "end"
      /\ q.owned = <<>> /\ q.held = <<>> /\ q.requeue = <<>> /\ q.arrivals = <<>> /\ q.cur = <<>>
    BY IdleAt
<1> HIDE DEF q
<1>5. Moved(d) /\ n = q
    BY <1>3, <1>4, DrMoves
<1>6. /\ B \in Seq(Entries) /\ Keys(B) = Keys(o.held)
      /\ \A e \in Range(B) : e.raw = e.defer /\
             \E x \in Range(o.held) : e.key = x.key /\ e.defer <= x.defer + 1
    BY <1>2, BumpedSound
<1> HIDE DEF B
<1>7. /\ queue \o proc \in Seq(Entries) /\ Range(queue \o proc) = Range(queue) \cup Range(proc)
      /\ Keys(queue \o proc) = Keys(queue) \cup Keys(proc)
    BY <1>1, RangeOfEntries, KeysConcat
<1>8. /\ queue \o B \in Seq(Entries) /\ Range(queue \o B) = Range(queue) \cup Range(B)
      /\ Keys(queue \o B) = Keys(queue) \cup Keys(B)
    BY <1>1, <1>6, RangeOfEntries, KeysConcat
<1> HIDE DEF n
<1>9. proc' \in Seq(Entries) /\ queue' \in Seq(Entries)
    BY <1>1, <1>3, <1>7, <1>8
<1>10. CASE o.pc = "claim" /\ queue' = <<>> /\ proc' = queue \o proc
    BY <1>4, <1>5, <1>7, <1>9, <1>10 DEF n, o
<1>11. CASE o.pc = "write" /\ queue' = queue /\ proc' = proc
    BY <1>4, <1>5, <1>9, <1>11 DEF n, o
<1>12. CASE o.pc = "next" /\ o.owned = <<>> /\ queue' = queue \o B /\ proc' = proc
    <2>1. \A e \in Range(queue') :
             \/ e \in Range(queue)
             \/ e.raw = e.defer /\ \E x \in Range(o.held) : x.key = e.key /\ e.defer <= x.defer + 1
        BY <1>6, <1>8, <1>12
    <2>2. Keys(queue') = Keys(queue) \cup Keys(o.held)
        BY <1>6, <1>8, <1>12
    <2> QED
        BY <1>4, <1>5, <1>9, <1>12, <2>1, <2>2 DEF n, o
<1> QED
    BY <1>3, <1>10, <1>11, <1>12

-----------------------------------------------------------------------------
(* What the other steps do                                                 *)

\* A POST adds its line to the queue; the drainers only learn that the target
\* is no longer covered by the mine in hand.
LEMMA PostEffect ==
    ASSUME Local, NEW t \in Targets, Post(t)
    PROVE  /\ queue' \in Seq(Entries) /\ queue' # <<>>
           /\ Keys(queue') = Keys(queue) \cup {t}
           /\ \A e \in Range(queue') :
                 e \in Range(queue) \/ (e.key = t /\ e.defer = 0 /\ e.raw = 0)
           /\ dr' \in [Drainers -> Drainer]
           /\ \A d \in Drainers :
                 LET n == dr'[d]
                     o == dr[d]
                 IN  /\ Fine(n) /\ n.pc = o.pc /\ n.owned = o.owned /\ n.held = o.held
                     /\ n.requeue = o.requeue /\ n.arrivals = o.arrivals /\ n.cur = o.cur
                     /\ n.covered = o.covered \ {t}
<1> DEFINE new == [key |-> t, defer |-> 0, raw |-> 0, tries |-> 0]
           s == <<new>>
<1>1. /\ dr \in [Drainers -> Drainer] /\ queue \in Seq(Entries)
      /\ Escape \in Nat /\ LockRetryMax \in Nat
    BY DrainerFields
<1>2. /\ queue' = Append(queue, new)
      /\ dr' = [d \in Drainers |-> [dr[d] EXCEPT !.covered = @ \ {t}]]
    BY DEF Post
<1>3. new \in Entries
    BY <1>1 DEF Entries
<1>4. new.key = t /\ new.defer = 0 /\ new.raw = 0
    OBVIOUS
<1> HIDE DEF new
<1>5. s \in Seq(Entries) /\ queue' = queue \o s /\ Range(s) = {new} /\ queue' # <<>>
    BY <1>1, <1>2, <1>3 DEF Range
<1> HIDE DEF s
<1>6. queue \o s \in Seq(Entries) /\ Range(queue \o s) = Range(queue) \cup Range(s)
    BY <1>1, <1>5, RangeOfEntries
<1>7. queue' \in Seq(Entries) /\ Range(queue') = Range(queue) \cup {new}
    BY <1>5, <1>6
<1>8. Keys(queue') = Keys(queue) \cup {t}
    <2>1. Keys(queue') = {e.key : e \in Range(queue')} /\ Keys(queue) = {e.key : e \in Range(queue)}
        BY KeysOf
    <2> QED
        BY <1>4, <1>7, <2>1
<1>9. ASSUME NEW d \in Drainers
      PROVE  LET n == dr'[d]
                 o == dr[d]
             IN  /\ n \in Drainer /\ Fine(n) /\ n.pc = o.pc /\ n.owned = o.owned /\ n.held = o.held
                 /\ n.requeue = o.requeue /\ n.arrivals = o.arrivals /\ n.cur = o.cur
                 /\ n.covered = o.covered \ {t}
    <2> DEFINE o == dr[d]
               n == [o EXCEPT !.covered = o.covered \ {t}]
    <2>1. dr'[d] = n
        BY <1>2
    <2>2. o \in Drainer /\ Fine(o)
        BY DrainerFields
    <2> HIDE DEF o
    <2>3. /\ n \in Drainer /\ n.pc = o.pc /\ n.owned = o.owned /\ n.held = o.held
          /\ n.requeue = o.requeue /\ n.arrivals = o.arrivals /\ n.cur = o.cur
          /\ n.covered = o.covered \ {t} /\ n.consumed = o.consumed
        BY <2>2 DEF Drainer
    <2> HIDE DEF n
    <2>4. Fine(n)
        BY <2>2, <2>3 DEF Fine
    <2> QED
        BY <2>1, <2>3, <2>4 DEF o
<1>10. dr' \in [Drainers -> Drainer]
    BY <1>2, <1>9
<1> QED
    BY <1>4, <1>5, <1>7, <1>8, <1>9, <1>10

\* After a restart no pass is running; the loop has been started if something
\* is left to do.
LEMMA RestartEffect ==
    ASSUME Local, NEW q \in Seq(Entries), NEW p \in Seq(Entries), Restart(q, p)
    PROVE  /\ queue' \in Seq(Entries) /\ proc' = <<>> /\ proc' \in Seq(Entries)
           /\ Range(queue') = Range(q) \cup Range(p) /\ Keys(queue') = Keys(q) \cup Keys(p)
           /\ queue' # <<>> => dr'["loop"].pc # "off"
           /\ dr' \in [Drainers -> Drainer]
           /\ \A d \in Drainers :
                 LET n == dr'[d]
                 IN  /\ Fine(n) /\ n.pc \in {"off", "top"} /\ n.owned = <<>> /\ n.held = <<>>
                     /\ n.requeue = <<>> /\ n.arrivals = <<>> /\ n.cur = <<>>
<1> DEFINE idle == [d \in Drainers |-> Idle]
           top == [Idle EXCEPT !.pc = "top"]
<1>1. "loop" \in Drainers
    BY MinesAssumption
<1>2. /\ queue' = q \o p /\ proc' = <<>>
      /\ dr' = IF q \o p = <<>> THEN idle ELSE Kicked(idle)
    BY DEF Restart
<1>3. Kicked(idle) = [idle EXCEPT !["loop"] = top]
    BY <1>1, IdleFields DEF Kicked
<1>4. \A d \in Drainers : dr'[d] = Idle \/ dr'[d] = top
    BY <1>2, <1>3
<1>5. queue' # <<>> => dr'["loop"] = top
    BY <1>1, <1>2, <1>3
<1>6. \A n \in {Idle, top} :
         /\ n \in Drainer
         /\ Fine(n) /\ n.pc \in {"off", "top"} /\ n.owned = <<>> /\ n.held = <<>>
         /\ n.requeue = <<>> /\ n.arrivals = <<>> /\ n.cur = <<>>
    <2>1. /\ top \in Drainer /\ Fine(top) /\ top.pc = "top" /\ top.owned = <<>> /\ top.held = <<>>
          /\ top.requeue = <<>> /\ top.arrivals = <<>> /\ top.cur = <<>>
        BY IdleAt
    <2> HIDE DEF top
    <2> QED
        BY <2>1, IdleFields
<1>7. top.pc = "top"
    BY IdleAt
<1> HIDE DEF top
<1>8. dr' \in [Drainers -> Drainer]
    <2>1. DOMAIN dr' = Drainers /\ dr' = [d \in Drainers |-> dr'[d]]
        BY <1>2, <1>3
    <2> QED
        BY <1>4, <1>6, <2>1
<1>9. queue' \in Seq(Entries) /\ Range(queue') = Range(q) \cup Range(p)
    BY <1>2, RangeOfEntries
<1>10. Keys(queue') = Keys(q) \cup Keys(p)
    <2>1. /\ Keys(queue') = {e.key : e \in Range(queue')} /\ Keys(q) = {e.key : e \in Range(q)}
          /\ Keys(p) = {e.key : e \in Range(p)}
        BY KeysOf
    <2> QED
        BY <1>9, <2>1
<1>11. <<>> \in Seq(Entries)
    OBVIOUS
<1> QED
    BY <1>2, <1>4, <1>5, <1>6, <1>7, <1>8, <1>9, <1>10, <1>11

\* A clean stop writes back all the cancelled pass still had.
LEMMA StoppedEffect ==
    ASSUME Local, NEW d \in Drainers, Stopped(d)
    PROVE  LET o == dr[d]
               S == Range(o.owned) \cup Range(o.held) \cup Range(queue)
           IN  \E q, p \in Seq(Entries) :
                 /\ Restart(q, p)
                 /\ \/ /\ o.pc = "sleep" /\ q = queue /\ p = proc
                    \/ /\ o.pc \in {"wait", "mine"}
                       /\ Keys(q) \cup Keys(p) = Keys(queue) \cup Keys(o.owned) \cup Keys(o.held)
                       /\ \A e \in Range(q) \cup Range(p) :
                             \/ e \in Range(queue)
                             \/ e.raw = e.defer /\ \E x \in S : x.key = e.key /\ x.raw = e.raw
<1> DEFINE o == dr[d]
           b == Rebalanced(o.owned, queue, Cap - o.consumed)
           u == b.keep \o o.held
           w == u \o b.displaced
           v == o.owned \o o.held
           S == Range(o.owned) \cup Range(o.held) \cup Range(queue)
<1>1. o \in Drainer /\ Cap \in Nat /\ queue \in Seq(Entries) /\ proc \in Seq(Entries)
    BY DrainerFields
<1>2. o.owned \in Seq(Entries) /\ o.held \in Seq(Entries) /\ o.consumed \in 0..Cap
    BY <1>1 DEF Drainer
<1>3. Cap - o.consumed \in Nat
    BY <1>1, <1>2
<1>4. \/ o.pc \in {"wait", "mine"} /\ Restart(<<>>, Lines(w))
      \/ o.pc \in {"wait", "mine"} /\ Restart(queue, Lines(v))
      \/ o.pc = "sleep" /\ Restart(queue, proc)
    BY DEF Stopped
<1> HIDE DEF o, b
<1>5. /\ b.keep \in Seq(Entries) /\ b.displaced \in Seq(Entries)
      /\ Keys(b.keep) \cup Keys(b.displaced) = Keys(o.owned) \cup Keys(queue)
      /\ \A e \in Range(b.keep) \cup Range(b.displaced) :
            \E x \in Range(o.owned) \cup Range(queue) : x.key = e.key /\ x.raw = e.raw
    <2>1. Boundary(b, o.owned, queue, Cap - o.consumed)
        BY <1>1, <1>2, <1>3, RebalancedSound DEF b
    <2> QED
        BY <2>1 DEF Boundary
<1>6. /\ u \in Seq(Entries) /\ Range(u) = Range(b.keep) \cup Range(o.held)
      /\ v \in Seq(Entries) /\ Range(v) = Range(o.owned) \cup Range(o.held)
    <2>1. b.keep \in Seq(Entries) /\ o.owned \in Seq(Entries) /\ o.held \in Seq(Entries)
        BY <1>2, <1>5
    <2> QED
        BY <2>1, RangeOfEntries
<1>7. w \in Seq(Entries) /\ Range(w) = Range(b.keep) \cup Range(o.held) \cup Range(b.displaced)
    <2>1. u \in Seq(Entries) /\ b.displaced \in Seq(Entries)
        BY <1>5, <1>6
    <2> HIDE DEF u
    <2>2. w \in Seq(Entries) /\ Range(w) = Range(u) \cup Range(b.displaced)
        BY <2>1, RangeOfEntries
    <2> HIDE DEF w
    <2> QED
        BY <1>6, <2>2
<1> HIDE DEF u, v, w
<1>8. /\ Keys(w) = Keys(queue) \cup Keys(o.owned) \cup Keys(o.held)
      /\ Keys(v) = Keys(o.owned) \cup Keys(o.held)
    <2>1. /\ Keys(w) = {e.key : e \in Range(w)} /\ Keys(v) = {e.key : e \in Range(v)}
          /\ Keys(b.keep) = {e.key : e \in Range(b.keep)}
          /\ Keys(b.displaced) = {e.key : e \in Range(b.displaced)}
          /\ Keys(o.owned) = {e.key : e \in Range(o.owned)}
          /\ Keys(o.held) = {e.key : e \in Range(o.held)}
        BY KeysOf
    <2>2. Keys(w) = Keys(b.keep) \cup Keys(o.held) \cup Keys(b.displaced)
        BY <1>7, <2>1
    <2>3. Keys(v) = Keys(o.owned) \cup Keys(o.held)
        BY <1>6, <2>1
    <2> QED
        BY <1>5, <2>2, <2>3
<1>9. \A s \in {w, v} :
         /\ Lines(s) \in Seq(Entries) /\ Keys(Lines(s)) = Keys(s)
         /\ \A e \in Range(Lines(s)) : e.raw = e.defer /\ \E x \in S : x.key = e.key /\ x.raw = e.raw
    <2> SUFFICES ASSUME NEW s \in {w, v}
                 PROVE  /\ Lines(s) \in Seq(Entries) /\ Keys(Lines(s)) = Keys(s)
                        /\ \A e \in Range(Lines(s)) : e.raw = e.defer /\
                              \E x \in S : x.key = e.key /\ x.raw = e.raw
        OBVIOUS
    <2>1. s \in Seq(Entries) /\ \A e \in Range(s) : \E x \in S : x.key = e.key /\ x.raw = e.raw
        BY <1>5, <1>6, <1>7
    <2>2. /\ Lines(s) \in Seq(Entries) /\ Keys(Lines(s)) = Keys(s)
          /\ \A e \in Range(Lines(s)) : \E x \in Range(s) :
                e.key = x.key /\ e.raw = x.raw /\ e.defer = x.raw
        BY <2>1, LinesSound
    <2> QED
        BY <2>1, <2>2
<1> HIDE DEF S
<1>10. Keys(<<>>) = {} /\ Range(<<>>) = {} /\ <<>> \in Seq(Entries)
    BY DEF Keys, Range
<1>11. CASE o.pc \in {"wait", "mine"} /\ Restart(<<>>, Lines(w))
    <2>1. /\ Keys(<<>>) \cup Keys(Lines(w)) = Keys(queue) \cup Keys(o.owned) \cup Keys(o.held)
          /\ Lines(w) \in Seq(Entries)
          /\ \A e \in Range(<<>>) \cup Range(Lines(w)) :
                e.raw = e.defer /\ \E x \in S : x.key = e.key /\ x.raw = e.raw
        BY <1>8, <1>9, <1>10
    <2> QED
        BY <1>10, <1>11, <2>1 DEF S, o
<1>12. CASE o.pc \in {"wait", "mine"} /\ Restart(queue, Lines(v))
    <2>1. /\ Keys(queue) \cup Keys(Lines(v)) = Keys(queue) \cup Keys(o.owned) \cup Keys(o.held)
          /\ Lines(v) \in Seq(Entries)
          /\ \A e \in Range(queue) \cup Range(Lines(v)) :
                \/ e \in Range(queue)
                \/ e.raw = e.defer /\ \E x \in S : x.key = e.key /\ x.raw = e.raw
        BY <1>8, <1>9
    <2> QED
        BY <1>1, <1>12, <2>1 DEF S, o
<1>13. CASE o.pc = "sleep" /\ Restart(queue, proc)
    BY <1>1, <1>13 DEF o
<1> QED
    BY <1>4, <1>11, <1>12, <1>13

-----------------------------------------------------------------------------
(* Types, and the order inside a pass                                      *)

Files == queue \in Seq(Entries) /\ proc \in Seq(Entries)

Locals == dr \in [Drainers -> Drainer] /\ \A d \in Drainers : Fine(dr[d])

Books ==
    /\ mineSem \in Drainers \cup {"free", "rebuild"}
    /\ rebuild \in {"no", "begun", "holding"}
    /\ unkicked \in BOOLEAN
    /\ owed \subseteq Targets
    /\ base \in [Targets -> 0..Escape]
    /\ passes \in Nat /\ spent \in BOOLEAN
    /\ posts \in Nat /\ faults \in Nat /\ rebuilds \in Nat

\* The parts of Local.
LEMMA LocalParts == Local <=> Files /\ Locals /\ Books
BY DEF Local, TypeOK, Files, Locals, Books, Drainer

\* When one drainer moves, the others keep their locals.
LEMMA MovedLocals ==
    ASSUME Local, NEW d \in Drainers, Moved(d), Fine(dr'[d])
    PROVE  Locals'
BY DrainerFields DEF Moved, Locals

\* The kick starts the loop or leaves it alone.
LEMMA KickEffect ==
    ASSUME Local, Kick
    PROVE  \/ dr["loop"].pc # "off" /\ dr' = dr
           \/ dr["loop"].pc = "off" /\ dr' = [dr EXCEPT !["loop"].pc = "top"]
BY DEF Kick, Kicked

\* Types and Fine() are inductive.
LEMMA NextLocal ==
    ASSUME Local, [Next]_vars
    PROVE  Local'
<1>0. /\ Files /\ Locals /\ Books
      /\ "loop" \in Drainers /\ Drainers \subseteq {"loop", "repair"}
      /\ <<>> \in Seq(Entries)
    BY LocalParts, MinesAssumption
<1>1. ASSUME NEW t \in Targets, Post(t) PROVE Local'
    <2>1. queue' \in Seq(Entries) /\ Locals'
        BY <1>1, PostEffect DEF Locals
    <2>2. Files' /\ Books'
        BY <1>0, <1>1, <2>1 DEF Post, Files, Books, round
    <2> QED
        BY <2>1, <2>2, LocalParts, PTL
<1>2. ASSUME Kick PROVE Local'
    <2>1. passes' \in Nat /\ spent' = spent
        BY <1>0, <1>2 DEF Kick, Books
    <2>3. Files' /\ Books'
        BY <1>0, <1>2, <2>1 DEF Kick, Files, Books, counters
    <2>2. Locals'
        <3>1. CASE dr' = dr
            BY <1>0, <3>1 DEF Locals
        <3>2. CASE dr' = [dr EXCEPT !["loop"].pc = "top"]
            BY <1>0, <3>2, PcMoves, MovedLocals
        <3> QED
            BY <1>2, <3>1, <3>2, KickEffect
    <2> QED
        BY <2>2, <2>3, LocalParts, PTL
<1>3. ASSUME LoopTop PROVE Local'
    <2>4. passes' \in Nat
        BY <1>0, <1>3 DEF LoopTop, Books
    <2>5. spent' \in BOOLEAN
        BY <1>3 DEF LoopTop
    <2>1. Files' /\ Books'
        BY <1>0, <1>3, <2>4, <2>5 DEF LoopTop, Files, Books, counters
    <2>2. PICK l \in {"off", "claim"} : dr' = [dr EXCEPT !["loop"].pc = l]
        BY <1>3 DEF LoopTop
    <2>3. Locals'
        BY <1>0, <2>2, PcMoves, MovedLocals
    <2> QED
        BY <2>1, <2>3, LocalParts, PTL
<1>4. ASSUME NEW d \in Drainers, Claim(d) PROVE Local'
    <2>1. Locals' /\ queue' = <<>> /\ proc' \in Seq(Entries) /\ base' \in [Targets -> 0..Escape]
        BY <1>4, ClaimEffect, MovedLocals
    <2>2. Files' /\ Books'
        BY <1>0, <1>4, <2>1 DEF Claim, Files, Books, counters, round
    <2> QED
        BY <2>1, <2>2, LocalParts, PTL
<1>5. ASSUME NEW d \in Drainers, Take(d) PROVE Local'
    <2>1. Locals'
        BY <1>5, TakeEffect, MovedLocals
    <2>2. owed' \subseteq owed
        BY <1>5, TakeEffect
    <2>3. Files' /\ Books'
        BY <1>0, <1>5, <2>2 DEF Take, Files, Books, counters, round
    <2> QED
        BY <2>1, <2>3, LocalParts, PTL
<1>6. ASSUME NEW d \in Drainers, Spawn(d) PROVE Local'
    <2>1. Locals'
        BY <1>6, PcMoves, MovedLocals DEF Spawn
    <2>2. Files' /\ Books'
        BY <1>0, <1>6 DEF Spawn, Files, Books, counters, round
    <2> QED
        BY <2>1, <2>2, LocalParts, PTL
<1>7. ASSUME NEW d \in Drainers, MineEnds(d) PROVE Local'
    <2>1. Locals' /\ owed' \subseteq owed
        BY <1>7, MineEndsEffect, MovedLocals
    <2>2. Files' /\ Books'
        BY <1>0, <1>7, <2>1 DEF MineEnds, Files, Books, counters, round
    <2> QED
        BY <2>1, <2>2, LocalParts, PTL
<1>8. ASSUME NEW d \in Drainers, Merge(d) PROVE Local'
    <2>1. Locals' /\ queue' \in Seq(Entries) /\ proc' \in Seq(Entries)
        BY <1>8, MergeEffect, MovedLocals
    <2>2. Files' /\ Books'
        BY <1>0, <1>8, <2>1 DEF Merge, Files, Books, counters, round
    <2> QED
        BY <2>1, <2>2, LocalParts, PTL
<1>9. ASSUME NEW d \in Drainers, WriteClaim(d) PROVE Local'
    <2>1. Locals' /\ proc' \in Seq(Entries)
        BY <1>9, WriteClaimEffect, MovedLocals
    <2>2. Files' /\ Books'
        BY <1>0, <1>9, <2>1 DEF WriteClaim, Files, Books, counters, round
    <2> QED
        BY <2>1, <2>2, LocalParts, PTL
<1>10. ASSUME NEW d \in Drainers, EndPass(d) PROVE Local'
    <2>1. Locals' /\ queue' \in Seq(Entries) /\ proc' \in Seq(Entries)
        BY <1>10, EndPassEffect, MovedLocals
    <2>2. Files' /\ Books'
        BY <1>0, <1>10, <2>1 DEF EndPass, Files, Books, counters, round
    <2> QED
        BY <2>1, <2>2, LocalParts, PTL
<1>11. ASSUME NEW d \in Drainers, WakeUp(d) PROVE Local'
    <2>1. Locals'
        BY <1>11, PcMoves, MovedLocals DEF WakeUp
    <2>2. Files' /\ Books'
        BY <1>0, <1>11 DEF WakeUp, Files, Books, counters, round
    <2> QED
        BY <2>1, <2>2, LocalParts, PTL
<1>12. ASSUME NEW d \in Drainers, Again(d) PROVE Local'
    <2>1. PICK l \in {"off", "top"} : dr' = [dr EXCEPT ![d].pc = l]
        BY <1>12 DEF Again
    <2>2. Locals'
        BY <2>1, PcMoves, MovedLocals
    <2>4. spent' \in BOOLEAN
        BY <1>12 DEF Again
    <2>3. Files' /\ Books'
        BY <1>0, <1>12, <2>4 DEF Again, Files, Books, counters
    <2> QED
        BY <2>2, <2>3, LocalParts, PTL
<1>21. ASSUME NEW d \in Drainers, DrainRaises(d) PROVE Local'
    <2>1. Locals'
        BY <1>21, DrainRaisesEffect, MovedLocals
    <2>2. spent' \in BOOLEAN
        BY <1>21 DEF DrainRaises
    <2>3. Files' /\ Books'
        BY <1>0, <1>21, <2>2 DEF DrainRaises, Files, Books, counters
    <2> QED
        BY <2>1, <2>3, LocalParts, PTL
<1>22. ASSUME NEW d \in Drainers, PassRaises(d) PROVE Local'
    <2>1. Locals'
        BY <1>22, PassRaisesEffect, MovedLocals
    <2>2. queue' \in Seq(Entries) /\ proc' \in Seq(Entries)
        BY <1>22, PassRaisesEffect
    <2>3. spent' \in BOOLEAN
        BY <1>22 DEF PassRaises
    <2>4. UNCHANGED <<mineSem, rebuild, passes, unkicked, owed, base, counters>>
        BY <1>22 DEF PassRaises
    <2>5. Files' /\ Books'
        BY <1>0, <2>2, <2>3, <2>4 DEF Files, Books, counters
    <2> QED
        BY <2>1, <2>5, LocalParts, PTL
<1>13. ASSUME RebuildBegins PROVE Local'
    <2>1. Files' /\ Books' /\ Locals'
        BY <1>0, <1>13 DEF RebuildBegins, Files, Books, Locals, round
    <2> QED
        BY <2>1, LocalParts, PTL
<1>14. ASSUME RebuildHolds PROVE Local'
    <2>1. Files' /\ Books' /\ Locals'
        BY <1>0, <1>14 DEF RebuildHolds, Files, Books, Locals, counters, round
    <2> QED
        BY <2>1, LocalParts, PTL
<1>15. ASSUME RebuildEnds PROVE Local'
    <2>1. Files' /\ Books'
        BY <1>0, <1>15 DEF RebuildEnds, Files, Books, counters, round
    <2>2. Locals'
        <3>1. CASE dr' = dr
            BY <1>0, <3>1 DEF Locals
        <3>2. CASE "repair" \in Drainers /\ dr' = [dr EXCEPT !["repair"].pc = "claim"]
            BY <3>2, PcMoves, MovedLocals
        <3> QED
            BY <1>15, <3>1, <3>2 DEF RebuildEnds
    <2> QED
        BY <2>1, <2>2, LocalParts, PTL
<1>16. ASSUME NEW q \in Seq(Entries), NEW p \in Seq(Entries), Restart(q, p) PROVE Local'
    <2>1. queue' \in Seq(Entries) /\ proc' \in Seq(Entries) /\ Locals'
        BY <1>16, RestartEffect DEF Locals
    <2>2. /\ mineSem' = "free" /\ rebuild' = "no" /\ unkicked' \in BOOLEAN /\ faults' = faults + 1
          /\ owed' = owed /\ base' = base /\ posts' = posts /\ rebuilds' = rebuilds
          /\ passes' = 0 /\ spent' \in BOOLEAN
        BY <1>16 DEF Restart
    <2>3. Files' /\ Books'
        BY <1>0, <2>1, <2>2 DEF Files, Books
    <2> QED
        BY <2>1, <2>3, LocalParts, PTL
<1>17. ASSUME Killed PROVE Local'
    BY <1>0, <1>16, <1>17 DEF Killed, Files
<1>18. ASSUME NEW d \in Drainers, Stopped(d) PROVE Local'
    BY <1>16, <1>18, StoppedEffect
<1>19. CASE UNCHANGED vars
    <2>1. Files' /\ Books' /\ Locals'
        BY <1>0, <1>19 DEF vars, Files, Books, Locals
    <2> QED
        BY <2>1, LocalParts, PTL
<1>20. CASE Next
    BY <1>1, <1>2, <1>3, <1>4, <1>5, <1>6, <1>7, <1>8, <1>9, <1>10, <1>11, <1>12, <1>13,
       <1>14, <1>15, <1>17, <1>18, <1>20, <1>21, <1>22 DEF Next, Pass
<1> QED
    BY <1>19, <1>20

\* It holds initially.
LEMMA InitLocal == ASSUME Init PROVE Local
<1>1. 0 \in 0..Escape
    BY MinesAssumption
<1>2. unkicked \in BOOLEAN /\ base = [t \in Targets |-> 0] /\ owed = {}
    BY DEF Init
<1>3. /\ Files /\ mineSem = "free" /\ rebuild = "no" /\ posts = 0 /\ faults = 0 /\ rebuilds = 0
      /\ passes = 0
    BY DEF Init, Files
<1>6. spent \in BOOLEAN
    BY DEF Init
<1>4. Files /\ Books
    BY <1>1, <1>2, <1>3, <1>6 DEF Books
<1>5. Locals
    BY IdleFields DEF Init, Locals
<1> QED
    BY <1>4, <1>5, LocalParts

\* Local is an invariant: every variable keeps its type whatever the order of
\* POSTs, passes, rebuilds and restarts of main.py's queue, and each drainer
\* keeps its claim sorted and within the batch size.
THEOREM LocalInvariance == Spec => []Local
BY InitLocal, NextLocal, PTL DEF Spec

\* The type invariant of the mine queue.
THEOREM TypeCorrect == Spec => []TypeOK
<1>1. Local => TypeOK
    BY DEF Local
<1> QED
    BY <1>1, LocalInvariance, PTL

\* A pass never runs more than the batch size, although boundaries swap
\* arrivals into its claim (_rebalance_claim()).
THEOREM PassBoundedCorrect == Spec => []PassBounded
<1>1. Local => PassBounded
    BY DEF Local, Fine, PassBounded
<1> QED
    BY <1>1, LocalInvariance, PTL

\* What a pass runs next is never outranked by what it has set aside
\* (_split_drain_batch(), _rebalance_claim()).
THEOREM NoInversionCorrect == Spec => []NoInversion
<1>1. ASSUME Local PROVE NoInversion
    <2> SUFFICES ASSUME NEW d \in Drainers, dr[d].pc = "next", NEW i \in DOMAIN dr[d].owned
                 PROVE  /\ \A j \in DOMAIN dr[d].owned :
                              i < j => Priority(dr[d].owned[i]) <= Priority(dr[d].owned[j])
                        /\ \A j \in DOMAIN dr[d].held :
                              Priority(dr[d].owned[i]) <= Priority(dr[d].held[j])
        BY DEF NoInversion
    <2>1. Fine(dr[d]) /\ dr[d].pc \in PassPCs
        BY <1>1, DrainerFields DEF PassPCs
    <2>2. /\ dr[d].owned[i] \in Range(dr[d].owned)
          /\ \A j \in DOMAIN dr[d].held : dr[d].held[j] \in Range(dr[d].held)
        BY DEF Range
    <2> QED
        BY <2>1, <2>2 DEF Fine
<1> QED
    BY <1>1, LocalInvariance, PTL

-----------------------------------------------------------------------------
(* One mine at a time                                                      *)

\* A step that neither starts nor ends a mine.
LEMMA MutexKept ==
    ASSUME Local, Mutex, NEW d \in Drainers, Moved(d), dr[d].pc # "mine", dr'[d].pc # "mine",
           UNCHANGED <<mineSem, rebuild>>
    PROVE  Mutex'
<1>1. mineSem # d
    BY DEF Mutex
<1>2. \A e \in Drainers : dr'[e].pc = "mine" <=> mineSem' = e
    BY <1>1 DEF Mutex, Moved
<1>3. rebuild' = "holding" <=> mineSem' = "rebuild"
    BY DEF Mutex
<1> QED
    BY <1>2, <1>3 DEF Mutex

\* After a restart nobody mines.
LEMMA MutexRestart ==
    ASSUME Local, NEW q \in Seq(Entries), NEW p \in Seq(Entries), Restart(q, p)
    PROVE  Mutex'
<1>1. \A d \in Drainers : dr'[d].pc \in {"off", "top"}
    BY RestartEffect
<1>2. mineSem' = "free" /\ rebuild' = "no" /\ "free" \notin Drainers
    BY MinesAssumption DEF Restart
<1> QED
    BY <1>1, <1>2 DEF Mutex

\* Mutex is inductive.
LEMMA NextMutex ==
    ASSUME Local, Mutex, [Next]_vars
    PROVE  Mutex'
<1>0. /\ "free" \notin Drainers /\ "rebuild" \notin Drainers /\ "loop" \in Drainers
      /\ dr \in [Drainers -> Drainer] /\ queue \in Seq(Entries) /\ proc \in Seq(Entries)
    BY MinesAssumption, DrainerFields
<1>1. ASSUME NEW t \in Targets, Post(t) PROVE Mutex'
    <2>1. /\ \A d \in Drainers : dr'[d].pc = dr[d].pc
          /\ mineSem' = mineSem /\ rebuild' = rebuild
        BY <1>1, PostEffect DEF Post
    <2> QED
        BY <2>1 DEF Mutex
<1>2. ASSUME Kick PROVE Mutex'
    <2>1. UNCHANGED <<mineSem, rebuild>>
        BY <1>2 DEF Kick
    <2>2. CASE dr' = dr
        BY <2>1, <2>2 DEF Mutex
    <2>3. CASE dr["loop"].pc = "off" /\ dr' = [dr EXCEPT !["loop"].pc = "top"]
        <3>1. Moved("loop") /\ dr'["loop"].pc = "top"
            BY <1>0, <2>3, PcMoves
        <3> QED
            BY <1>0, <2>1, <2>3, <3>1, MutexKept
    <2> QED
        BY <1>2, <2>2, <2>3, KickEffect
<1>3. ASSUME LoopTop PROVE Mutex'
    <2>1. UNCHANGED <<mineSem, rebuild>> /\ dr["loop"].pc = "top"
        BY <1>3 DEF LoopTop
    <2>2. PICK l \in {"off", "claim"} : dr' = [dr EXCEPT !["loop"].pc = l]
        BY <1>3 DEF LoopTop
    <2>3. Moved("loop") /\ dr'["loop"].pc = l
        BY <1>0, <2>2, PcMoves
    <2> QED
        BY <1>0, <2>1, <2>3, MutexKept
<1>4. ASSUME NEW d \in Drainers, Claim(d) PROVE Mutex'
    <2>1. UNCHANGED <<mineSem, rebuild>> /\ dr[d].pc = "claim"
        BY <1>4 DEF Claim
    <2>2. Moved(d) /\ dr'[d].pc # "mine"
        BY <1>4, ClaimEffect, IdleFields
    <2> QED
        BY <2>1, <2>2, MutexKept
<1>5. ASSUME NEW d \in Drainers, Take(d) PROVE Mutex'
    <2>1. UNCHANGED <<mineSem, rebuild>> /\ dr[d].pc = "next"
        BY <1>5 DEF Take
    <2>2. Moved(d) /\ dr'[d].pc # "mine"
        BY <1>5, TakeEffect
    <2> QED
        BY <2>1, <2>2, MutexKept
<1>6. ASSUME NEW d \in Drainers, Spawn(d) PROVE Mutex'
    <2>1. mineSem = "free" /\ mineSem' = d /\ rebuild' = rebuild
        BY <1>6 DEF Spawn
    <2>2. Moved(d) /\ dr'[d].pc = "mine"
        BY <1>6, PcMoves DEF Spawn
    <2>3. \A e \in Drainers : dr'[e].pc = "mine" <=> mineSem' = e
        BY <1>0, <2>1, <2>2 DEF Mutex, Moved
    <2>4. rebuild' = "holding" <=> mineSem' = "rebuild"
        BY <1>0, <2>1 DEF Mutex
    <2> QED
        BY <2>3, <2>4 DEF Mutex
<1>7. ASSUME NEW d \in Drainers, MineEnds(d) PROVE Mutex'
    <2>1. dr[d].pc = "mine" /\ mineSem' = "free" /\ rebuild' = rebuild
        BY <1>7 DEF MineEnds
    <2>2. Moved(d) /\ dr'[d].pc = "merge"
        BY <1>7, MineEndsEffect
    <2>3. mineSem = d
        BY <2>1 DEF Mutex
    <2>4. \A e \in Drainers : dr'[e].pc = "mine" <=> mineSem' = e
        BY <1>0, <2>1, <2>2, <2>3 DEF Mutex, Moved
    <2>5. rebuild' = "holding" <=> mineSem' = "rebuild"
        BY <1>0, <2>1, <2>3 DEF Mutex
    <2> QED
        BY <2>4, <2>5 DEF Mutex
<1>8. ASSUME NEW d \in Drainers, Merge(d) PROVE Mutex'
    <2>1. UNCHANGED <<mineSem, rebuild>> /\ dr[d].pc = "merge"
        BY <1>8 DEF Merge
    <2>2. Moved(d) /\ dr'[d].pc # "mine"
        BY <1>8, MergeEffect
    <2> QED
        BY <2>1, <2>2, MutexKept
<1>9. ASSUME NEW d \in Drainers, WriteClaim(d) PROVE Mutex'
    <2>1. UNCHANGED <<mineSem, rebuild>> /\ dr[d].pc = "write"
        BY <1>9 DEF WriteClaim
    <2>2. Moved(d) /\ dr'[d].pc # "mine"
        BY <1>9, WriteClaimEffect
    <2> QED
        BY <2>1, <2>2, MutexKept
<1>10. ASSUME NEW d \in Drainers, EndPass(d) PROVE Mutex'
    <2>1. UNCHANGED <<mineSem, rebuild>> /\ dr[d].pc = "next"
        BY <1>10 DEF EndPass
    <2>2. Moved(d) /\ dr'[d].pc # "mine"
        BY <1>10, EndPassEffect
    <2> QED
        BY <2>1, <2>2, MutexKept
<1>11. ASSUME NEW d \in Drainers, WakeUp(d) PROVE Mutex'
    <2>1. UNCHANGED <<mineSem, rebuild>> /\ dr[d].pc = "sleep"
        BY <1>11 DEF WakeUp
    <2>2. Moved(d) /\ dr'[d].pc # "mine"
        BY <1>11, PcMoves DEF WakeUp
    <2> QED
        BY <2>1, <2>2, MutexKept
<1>12. ASSUME NEW d \in Drainers, Again(d) PROVE Mutex'
    <2>1. UNCHANGED <<mineSem, rebuild>> /\ dr[d].pc = "end"
        BY <1>12 DEF Again
    <2>2. PICK l \in {"off", "top"} : dr' = [dr EXCEPT ![d].pc = l]
        BY <1>12 DEF Again
    <2>3. Moved(d) /\ dr'[d].pc # "mine"
        BY <2>2, PcMoves
    <2> QED
        BY <2>1, <2>3, MutexKept
<1>20. ASSUME NEW d \in Drainers, DrainRaises(d) PROVE Mutex'
    <2>1. UNCHANGED <<mineSem, rebuild>> /\ dr[d].pc = "claim" /\ Moved(d) /\ dr'[d].pc # "mine"
        BY <1>20, DrainRaisesEffect, IdleFields
    <2> QED
        BY <2>1, MutexKept
<1>21. ASSUME NEW d \in Drainers, PassRaises(d) PROVE Mutex'
    <2>1. UNCHANGED <<mineSem, rebuild>> /\ dr[d].pc # "mine"
        BY <1>21 DEF PassRaises
    <2>2. Moved(d) /\ dr'[d].pc # "mine"
        BY <1>21, PassRaisesEffect
    <2> QED
        BY <2>1, <2>2, MutexKept
<1>13. ASSUME RebuildBegins PROVE Mutex'
    BY <1>13 DEF RebuildBegins, Mutex
<1>14. ASSUME RebuildHolds PROVE Mutex'
    BY <1>0, <1>14 DEF RebuildHolds, Mutex
<1>15. ASSUME RebuildEnds PROVE Mutex'
    <2>1. mineSem = "rebuild" /\ mineSem' = "free" /\ rebuild' = "no"
        BY <1>15 DEF RebuildEnds, Mutex
    <2>2. \A d \in Drainers : dr[d].pc # "mine"
        BY <1>0, <2>1 DEF Mutex
    <2>3. \A d \in Drainers : dr'[d].pc # "mine"
        <3>1. CASE dr' = dr
            BY <2>2, <3>1
        <3>2. CASE "repair" \in Drainers /\ dr' = [dr EXCEPT !["repair"].pc = "claim"]
            <4>1. Moved("repair") /\ dr'["repair"].pc = "claim"
                BY <3>2, PcMoves
            <4> QED
                BY <2>2, <4>1 DEF Moved
        <3> QED
            BY <1>15, <3>1, <3>2 DEF RebuildEnds
    <2> QED
        BY <1>0, <2>1, <2>3 DEF Mutex
<1>16. ASSUME Killed PROVE Mutex'
    BY <1>0, <1>16, MutexRestart DEF Killed
<1>17. ASSUME NEW d \in Drainers, Stopped(d) PROVE Mutex'
    BY <1>17, MutexRestart, StoppedEffect
<1>18. CASE UNCHANGED vars
    BY <1>18 DEF vars, Mutex
<1>19. CASE Next
    BY <1>1, <1>2, <1>3, <1>4, <1>5, <1>6, <1>7, <1>8, <1>9, <1>10, <1>11, <1>12, <1>13,
       <1>14, <1>15, <1>16, <1>17, <1>19, <1>20, <1>21 DEF Next, Pass
<1> QED
    BY <1>18, <1>19

\* The mines of the loop and of /repair run one at a time, and none while the
\* rebuild holds the palace: _mine_sem, for any interleaving and any restarts.
THEOREM MinesAloneCorrect == Spec => []MinesAlone
<1>1. Init => Mutex
    BY MinesAssumption, IdleFields DEF Init, Mutex
<1>2. ASSUME Mutex PROVE MinesAlone
    <2> DEFINE M == {d \in Drainers : dr[d].pc = "mine"}
    <2>1. M \subseteq {mineSem}
        BY <1>2 DEF Mutex
    <2>2. IsFiniteSet({mineSem}) /\ Cardinality({mineSem}) = 1
        BY FS_Singleton
    <2>3. Cardinality(M) <= 1
        BY <2>1, <2>2, FS_Subset
    <2>4. rebuild = "holding" => \A d \in Drainers : dr[d].pc # "mine"
        BY <1>2, MinesAssumption DEF Mutex
    <2> QED
        BY <2>3, <2>4 DEF MinesAlone
<1>3. Local /\ Mutex /\ [Next]_vars => Mutex'
    BY NextMutex
<1> QED
    BY <1>1, <1>2, <1>3, LocalInvariance, PTL DEF Spec

-----------------------------------------------------------------------------
(* The queue is attended                                                   *)

\* The loop is the only drainer at work.
Lone ==
    \A d \in Drainers \ {"loop"} : dr[d].pc = "off" /\ dr[d].owned = <<>> /\ dr[d].held = <<>>

\* Until the first rebuild it is.  A queue that no POST is about to kick has it,
\* and so has a .processing, unless its pass was the last it may make or raised.
Awake ==
    /\ rebuild = "no"
    /\ Lone
    /\ queue # <<>> /\ ~unkicked => dr["loop"].pc # "off" \/ spent
    /\ proc # <<>> => dr["loop"].pc \notin {"off", "end"} \/ spent

\* A step of a running drainer that leaves nothing behind when it stops.
LEMMA AwakeMoves ==
    ASSUME Local, Awake, NEW d \in Drainers, Moved(d), dr[d].pc # "off", rebuild' = rebuild,
           queue' # <<>> => dr'[d].pc # "off" \/ spent',
           proc' # <<>> => dr'[d].pc \notin {"off", "end"} \/ spent'
    PROVE  Awake'
<1>1. d = "loop"
    BY DEF Awake, Lone
<1> QED
    BY <1>1 DEF Awake, Lone, Moved

\* A restart starts the loop.
LEMMA AwakeRestart ==
    ASSUME Local, Awake, NEW q \in Seq(Entries), NEW p \in Seq(Entries), Restart(q, p)
    PROVE  Awake'
<1>1. rebuild' = "no" /\ (queue' # <<>> => dr'["loop"].pc # "off") /\ proc' = <<>>
    BY RestartEffect DEF Restart
<1>2. Lone'
    <2>1. Idle.pc = "off" /\ Idle.owned = <<>> /\ Idle.held = <<>>
        BY IdleFields
    <2>2. \A d \in Drainers \ {"loop"} : dr'[d] = Idle
        BY DEF Restart, Kicked
    <2> QED
        BY <2>1, <2>2 DEF Lone
<1> QED
    BY <1>1, <1>2 DEF Awake

\* Rebuilds are counted.
LEMMA RebuildsCounted ==
    ASSUME Local, [Next]_vars
    PROVE  rebuilds' = rebuilds \/ (RebuildBegins /\ rebuilds' = rebuilds + 1)
<1>1. CASE Next
    BY <1>1 DEF Next, Pass, counters, Post, Kick, LoopTop, Claim, Take, Spawn, MineEnds, Merge,
                WriteClaim, EndPass, WakeUp, Again, DrainRaises, PassRaises, RebuildBegins, RebuildHolds, RebuildEnds,
                Restart, Killed, Stopped
<1>2. CASE UNCHANGED vars
    BY <1>2 DEF vars
<1> QED
    BY <1>1, <1>2

\* A claim that finds lines begins a pass.
LEMMA ClaimStarts ==
    ASSUME Local, NEW d \in Drainers, Claim(d), queue \o proc # <<>>
    PROVE  dr'[d].pc = "next"
<1> DEFINE unique == Dedup(queue \o proc)
           batch == ByPriority(Pick(unique, Best(unique, Cap)))
           deferred == Pick(unique, DOMAIN unique \ Best(unique, Cap))
           r == [Idle EXCEPT !.pc = "next", !.owned = batch, !.held = deferred]
<1>1. dr' = [dr EXCEPT ![d] = r]
    BY DEF Claim
<1> HIDE DEF batch, deferred
<1>2. r.pc = "next" /\ dr \in [Drainers -> Drainer]
    BY DrainerFields DEF Idle
<1> QED
    BY <1>1, <1>2

\* Awake is inductive until the first rebuild.
LEMMA NextAwake ==
    ASSUME Local, rebuilds = 0 => Awake, [Next]_vars, rebuilds' = 0
    PROVE  Awake'
<1>0. /\ "loop" \in Drainers /\ rebuilds \in Nat
      /\ dr \in [Drainers -> Drainer] /\ queue \in Seq(Entries) /\ proc \in Seq(Entries)
    BY MinesAssumption, DrainerFields, LocalParts DEF Books
<1>1. rebuilds = 0 /\ ~RebuildBegins
    BY <1>0, RebuildsCounted DEF RebuildBegins
<1>2. Awake /\ rebuild = "no"
    BY <1>1 DEF Awake
<1>3. ASSUME NEW t \in Targets, Post(t) PROVE Awake'
    <2>1. /\ \A d \in Drainers : /\ dr'[d].pc = dr[d].pc /\ dr'[d].owned = dr[d].owned
                                  /\ dr'[d].held = dr[d].held
        BY <1>3, PostEffect
    <2>2. rebuild' = "no" /\ proc' = proc /\ spent' = spent
        BY <1>2, <1>3 DEF Post, round
    <2>3. unkicked'
        BY <1>2, <1>3 DEF Post
    <2>4. Lone'
        BY <1>2, <2>1 DEF Awake, Lone
    <2>5. proc' # <<>> => dr'["loop"].pc \notin {"off", "end"} \/ spent'
        BY <1>0, <1>2, <2>1, <2>2 DEF Awake
    <2> QED
        BY <2>2, <2>3, <2>4, <2>5 DEF Awake
<1>4. ASSUME Kick PROVE Awake'
    <2>1. rebuild' = rebuild /\ queue' = queue /\ proc' = proc /\ spent' = spent
        BY <1>4 DEF Kick
    <2>2. CASE dr["loop"].pc # "off" /\ dr' = dr
        BY <1>2, <2>1, <2>2 DEF Awake, Lone
    <2>3. CASE dr' = [dr EXCEPT !["loop"].pc = "top"]
        <3>1. Moved("loop") /\ dr'["loop"].pc = "top"
            BY <1>0, <2>3, PcMoves
        <3> QED
            BY <1>2, <2>1, <3>1 DEF Awake, Lone, Moved
    <2> QED
        BY <1>4, <2>2, <2>3, KickEffect
<1>5. ASSUME LoopTop PROVE Awake'
    <2>1. dr' = [dr EXCEPT !["loop"].pc = "claim"] /\ rebuild' = rebuild
        BY <1>2, <1>5 DEF LoopTop
    <2>2. Moved("loop") /\ dr'["loop"].pc = "claim"
        BY <1>0, <2>1, PcMoves
    <2> QED
        BY <1>2, <2>1, <2>2 DEF Awake, Lone, Moved
<1>6. ASSUME NEW d \in Drainers, Claim(d) PROVE Awake'
    <2>1. rebuild' = rebuild /\ dr[d].pc = "claim"
        BY <1>6 DEF Claim
    <2>2. Moved(d) /\ queue' = <<>>
        BY <1>6, ClaimEffect
    <2>3. proc' # <<>> => dr'[d].pc = "next"
        <3>1. CASE queue \o proc = <<>>
            <4>1. proc = <<>>
                BY <1>0, <3>1
            <4>2. proc' = proc
                BY <1>6, <3>1 DEF Claim
            <4> QED
                BY <4>1, <4>2
        <3>2. CASE queue \o proc # <<>>
            BY <1>6, <3>2, ClaimStarts
        <3> QED
            BY <3>1, <3>2
    <2> QED
        BY <2>1, <2>2, <2>3, <1>2, AwakeMoves
<1>7. ASSUME NEW d \in Drainers, Take(d) PROVE Awake'
    <2>1. rebuild' = rebuild /\ dr[d].pc = "next"
        BY <1>7 DEF Take
    <2>2. Moved(d) /\ dr'[d].pc \notin {"off", "end"}
        BY <1>7, TakeEffect
    <2> QED
        BY <2>1, <2>2, <1>2, AwakeMoves
<1>8. ASSUME NEW d \in Drainers, Spawn(d) PROVE Awake'
    <2>1. rebuild' = rebuild /\ dr[d].pc = "wait"
        BY <1>8 DEF Spawn
    <2>2. Moved(d) /\ dr'[d].pc \notin {"off", "end"}
        BY <1>8, PcMoves DEF Spawn
    <2> QED
        BY <2>1, <2>2, <1>2, AwakeMoves
<1>9. ASSUME NEW d \in Drainers, MineEnds(d) PROVE Awake'
    <2>1. rebuild' = rebuild /\ dr[d].pc = "mine"
        BY <1>9 DEF MineEnds
    <2>2. Moved(d) /\ dr'[d].pc \notin {"off", "end"}
        BY <1>9, MineEndsEffect
    <2> QED
        BY <2>1, <2>2, <1>2, AwakeMoves
<1>10. ASSUME NEW d \in Drainers, Merge(d) PROVE Awake'
    <2>1. rebuild' = rebuild /\ dr[d].pc = "merge"
        BY <1>10 DEF Merge
    <2>2. Moved(d) /\ dr'[d].pc \notin {"off", "end"}
        BY <1>10, MergeEffect
    <2> QED
        BY <2>1, <2>2, <1>2, AwakeMoves
<1>11. ASSUME NEW d \in Drainers, WriteClaim(d) PROVE Awake'
    <2>1. rebuild' = rebuild /\ dr[d].pc = "write"
        BY <1>11 DEF WriteClaim
    <2>2. Moved(d) /\ dr'[d].pc \notin {"off", "end"}
        BY <1>11, WriteClaimEffect
    <2> QED
        BY <2>1, <2>2, <1>2, AwakeMoves
<1>12. ASSUME NEW d \in Drainers, EndPass(d) PROVE Awake'
    <2>1. rebuild' = rebuild /\ dr[d].pc = "next"
        BY <1>12 DEF EndPass
    <2>2. /\ Moved(d) /\ dr'[d].pc # "off"
          /\ proc' # <<>> => dr'[d].pc \notin {"off", "end"}
        BY <1>12, EndPassEffect
    <2> QED
        BY <2>1, <2>2, <1>2, AwakeMoves
<1>13. ASSUME NEW d \in Drainers, WakeUp(d) PROVE Awake'
    <2>1. rebuild' = rebuild /\ dr[d].pc = "sleep" /\ proc' = <<>>
        BY <1>13 DEF WakeUp
    <2>2. Moved(d) /\ dr'[d].pc # "off"
        BY <1>13, PcMoves DEF WakeUp
    <2> QED
        BY <2>1, <2>2, <1>2, AwakeMoves
<1>14. ASSUME NEW d \in Drainers, Again(d) PROVE Awake'
    <2>1. rebuild' = rebuild /\ dr[d].pc = "end" /\ d = "loop" /\ queue' = queue /\ proc' = proc
        BY <1>2, <1>14 DEF Again, Awake, Lone
    <2>2. PICK l \in {"off", "top"} :
             /\ dr' = [dr EXCEPT ![d].pc = l]
             /\ queue # <<>> => l = "top" \/ spent'
             /\ spent => spent'
        BY <1>14, <2>1 DEF Again
    <2>3. Moved(d) /\ dr'[d].pc = l
        BY <2>2, PcMoves
    <2>4. proc' # <<>> => spent'
        BY <1>2, <2>1, <2>2 DEF Awake
    <2> QED
        BY <2>1, <2>2, <2>3, <2>4, <1>2, AwakeMoves
<1>20. ASSUME NEW d \in Drainers, DrainRaises(d) PROVE Awake'
    <2>1. rebuild' = rebuild /\ dr[d].pc # "off" /\ Moved(d)
        BY <1>20, DrainRaisesEffect
    <2>2. d = "loop"
        BY <1>2, <2>1 DEF Awake, Lone
    <2>3. spent'
        BY <1>20, <2>2 DEF DrainRaises
    <2> QED
        BY <2>1, <2>3, <1>2, AwakeMoves
<1>21. ASSUME NEW d \in Drainers, PassRaises(d) PROVE Awake'
    <2>1. rebuild' = rebuild /\ dr[d].pc # "off"
        BY <1>21 DEF PassRaises
    <2>2. Moved(d)
        BY <1>21, PassRaisesEffect
    <2>3. d = "loop"
        BY <1>2, <2>1 DEF Awake, Lone
    <2>4. spent'
        BY <1>21, <2>3 DEF PassRaises
    <2> QED
        BY <2>1, <2>2, <2>4, <1>2, AwakeMoves
<1>15. ~RebuildHolds /\ ~RebuildEnds
    BY <1>2 DEF RebuildHolds, RebuildEnds
<1>16. ASSUME Killed PROVE Awake'
    BY <1>0, <1>16, <1>2, AwakeRestart DEF Killed
<1>17. ASSUME NEW d \in Drainers, Stopped(d) PROVE Awake'
    BY <1>17, <1>2, AwakeRestart, StoppedEffect
<1>18. CASE UNCHANGED vars
    BY <1>2, <1>18 DEF vars, Awake, Lone
<1>19. CASE Next
    BY <1>3, <1>4, <1>5, <1>6, <1>7, <1>8, <1>9, <1>10, <1>11, <1>12, <1>13, <1>14, <1>15,
       <1>16, <1>17, <1>19, <1>20, <1>21, <1>1 DEF Next, Pass
<1> QED
    BY <1>18, <1>19

\* Awake holds until the first rebuild.
THEOREM AwakeInvariance == Spec => [](rebuilds = 0 => Awake)
<1>1. Init => Awake
    BY IdleFields DEF Init, Awake, Lone
<1>2. Local /\ (rebuilds = 0 => Awake) /\ [Next]_vars => (rebuilds = 0 => Awake)'
    BY NextAwake
<1> QED
    BY <1>1, <1>2, LocalInvariance, PTL DEF Spec

\* Until the first rebuild, the loop that finds the queue empty and the POST
\* that finds the loop alive never miss each other, and a restart attends to
\* what it recovered (_kick_mine_drain(), lifespan()); only a loop that has used
\* up its range(10_000) or raised leaves lines behind.  A rebuild that fails
\* leaves what was posted meanwhile to the next POST, hence the condition.
THEOREM NoLostWakeupCorrect == Spec => [](rebuilds = 0 => NoLostWakeup)
<1>1. ASSUME Awake PROVE NoLostWakeup
    <2>1. Keys(<<>>) = {}
        BY DEF Keys
    <2>2. OnDisk # {} => queue # <<>> \/ proc # <<>>
        BY <2>1 DEF OnDisk
    <2> QED
        BY <1>1, <2>2 DEF Awake, NoLostWakeup
<1> QED
    BY <1>1, AwakeInvariance, PTL

-----------------------------------------------------------------------------
(* The deferral counts                                                     *)

\* Without the pass of /repair the loop works alone.
OneDrainer == MaxRebuilds = 0 \/ Drainers = {"loop"}

\* It does.
LEMMA LoneInvariance ==
    ASSUME OneDrainer
    PROVE  Spec => []Lone
<1>1. CASE Drainers = {"loop"}
    <2>1. Lone
        BY <1>1 DEF Lone
    <2> QED
        BY <2>1, PTL
<1>2. CASE MaxRebuilds = 0
    <2>1. Init => rebuilds = 0
        BY DEF Init
    <2>2. Local /\ rebuilds = 0 /\ [Next]_vars => (rebuilds = 0)'
        BY <1>2, RebuildsCounted DEF RebuildBegins
    <2>3. Awake => Lone
        BY DEF Awake
    <2> QED
        BY <2>1, <2>2, <2>3, LocalInvariance, AwakeInvariance, PTL DEF Spec
<1> QED
    BY <1>1, <1>2 DEF OneDrainer

\* A line of a file: written with its count, which is at most one above b.
Line(e, b) == e.raw = e.defer /\ e.defer <= b[e.key] + 1

\* Entries of a bounded sequence are bounded by numbers.
LEMMA WithinLine ==
    ASSUME NEW b \in [Targets -> 0..Escape], NEW e \in Entries
    PROVE  /\ b[e.key] \in Nat /\ e.defer \in Nat /\ e.raw \in Nat
           /\ e.raw = e.defer /\ e.raw <= b[e.key] => Line(e, b)
<1>1. b[e.key] \in Nat /\ e.defer \in Nat /\ e.raw \in Nat
    BY EntryFields
<1> QED
    BY <1>1 DEF Line

\* A step outside of a pass that adds nothing to the files.
LEMMA CountsIdle ==
    ASSUME Counts, dr["loop"].pc \notin PassPCs, dr'["loop"].pc \notin PassPCs,
           dr'["loop"].owned = dr["loop"].owned, dr'["loop"].held = dr["loop"].held,
           queue' = queue, proc' = proc \/ proc' = <<>>, base' = base
    PROVE  Counts'
<1>1. Range(<<>>) = {}
    BY DEF Range
<1>2. \A e \in Range(queue') \cup Range(proc') : e.raw = e.defer /\ e.defer <= base'[e.key] + 1
    BY <1>1 DEF Counts
<1> QED
    BY <1>2 DEF Counts

\* A restart that finds only lines.
LEMMA CountsRestart ==
    ASSUME Local, NEW q \in Seq(Entries), NEW p \in Seq(Entries), Restart(q, p),
           \A e \in Range(q) \cup Range(p) : Line(e, base)
    PROVE  Counts'
<1>1. /\ Range(queue') = Range(q) \cup Range(p) /\ proc' = <<>> /\ base' = base
      /\ "loop" \in Drainers
    BY RestartEffect, MinesAssumption DEF Restart
<1>2. /\ dr'["loop"].pc \in {"off", "top"}
      /\ dr'["loop"].owned = <<>> /\ dr'["loop"].held = <<>>
    BY <1>1, RestartEffect
<1>3. Range(<<>>) = {}
    BY DEF Range
<1> QED
    BY <1>1, <1>2, <1>3 DEF Counts, Line, PassPCs

\* Counts is inductive while the loop is the only drainer at work.
LEMMA NextCounts ==
    ASSUME Local, Lone, Counts, [Next]_vars
    PROVE  Counts'
<1> DEFINE o == dr["loop"]
           n == dr'["loop"]
<1>1. /\ "loop" \in Drainers /\ dr \in [Drainers -> Drainer]
      /\ queue \in Seq(Entries) /\ proc \in Seq(Entries) /\ base \in [Targets -> 0..Escape]
      /\ Range(queue) \subseteq Entries /\ Range(proc) \subseteq Entries
    BY MinesAssumption, DrainerFields, RangeOfEntries
<1>2. /\ o.owned \in Seq(Entries) /\ o.held \in Seq(Entries) /\ o.cur \in Seq(Entries)
      /\ o.arrivals \in Seq(Entries) /\ o.requeue \in Seq(Entries)
    BY <1>1 DEF Drainer
<1>3. /\ Range(o.owned) \subseteq Entries /\ Range(o.held) \subseteq Entries
      /\ Range(o.cur) \subseteq Entries /\ Range(o.arrivals) \subseteq Entries
      /\ Range(o.requeue) \subseteq Entries
    BY <1>2, RangeOfEntries
<1>4. Range(<<>>) = {} /\ \A b : Within(<<>>, b)
    BY DEF Range, Within
<1>5. \A e \in Entries : base[e.key] \in Nat /\ e.defer \in Nat /\ e.raw \in Nat
    BY <1>1, WithinLine
<1>6. \A d \in Drainers : dr[d].pc # "off" => d = "loop"
    BY DEF Lone
<1>7. \A e \in Range(queue) \cup Range(proc) : Line(e, base) /\ e.raw = e.defer
    BY DEF Counts, Line
<1>8. ASSUME NEW t \in Targets, Post(t) PROVE Counts'
    <2>1. /\ n.pc = o.pc /\ n.owned = o.owned /\ n.held = o.held /\ n.requeue = o.requeue
          /\ n.arrivals = o.arrivals /\ n.cur = o.cur
        BY <1>1, <1>8, PostEffect
    <2>2. /\ \A e \in Range(queue') : e \in Range(queue) \/ (e.key = t /\ e.defer = 0 /\ e.raw = 0)
          /\ base' = base /\ proc' = proc
        BY <1>8, PostEffect DEF Post
    <2>3. base[t] \in Nat
        BY <1>1
    <2>4. \A e \in Range(queue') \cup Range(proc') : e.raw = e.defer /\ e.defer <= base'[e.key] + 1
        BY <2>2, <2>3 DEF Counts
    <2>5. Within(queue, base) => Within(queue', base')
        BY <2>2, <2>3 DEF Within
    <2> HIDE DEF n, o
    <2> QED
        BY <2>1, <2>2, <2>4, <2>5 DEF Counts, n, o
<1>9. ASSUME Kick PROVE Counts'
    <2>1. queue' = queue /\ proc' = proc /\ base' = base
        BY <1>9 DEF Kick
    <2>2. CASE dr' = dr
        BY <2>1, <2>2 DEF Counts
    <2>3. CASE o.pc = "off" /\ dr' = [dr EXCEPT !["loop"].pc = "top"]
        <3>1. n.pc = "top" /\ n.owned = o.owned /\ n.held = o.held
            BY <1>1, <2>3, PcMoves
        <3> QED
            BY <2>1, <2>3, <3>1, CountsIdle DEF PassPCs
    <2> QED
        BY <1>9, <2>2, <2>3, KickEffect
<1>10. ASSUME LoopTop PROVE Counts'
    <2>1. queue' = queue /\ proc' = proc /\ base' = base /\ o.pc = "top"
        BY <1>10 DEF LoopTop
    <2>2. PICK l \in {"off", "claim"} : dr' = [dr EXCEPT !["loop"].pc = l]
        BY <1>10 DEF LoopTop
    <2>3. n.pc = l /\ n.owned = o.owned /\ n.held = o.held
        BY <1>1, <2>2, PcMoves
    <2> QED
        BY <2>1, <2>3, CountsIdle DEF PassPCs
<1>11. ASSUME Claim("loop") PROVE Counts'
    <2> DEFINE S == Range(queue) \cup Range(proc)
    <2>1. /\ queue' = <<>> /\ n.requeue = <<>> /\ n.arrivals = <<>> /\ n.cur = <<>>
          /\ base' \in [Targets -> 0..Escape]
          /\ \/ /\ n = Idle /\ proc = <<>> /\ proc' = proc /\ base' = base
             \/ /\ n.pc = "next" /\ Drawn(n.owned, S) /\ Drawn(n.held, S)
                /\ \A e \in Range(proc') :
                      e \in S \/ (e.raw = e.defer /\ \E x \in S : x.key = e.key /\ x.raw = e.raw)
                /\ \A e \in S : e.defer <= base'[e.key]
        BY <1>1, <1>11, ClaimEffect
    <2> HIDE DEF n
    <2>2. CASE n = Idle /\ proc = <<>> /\ proc' = proc /\ base' = base
        <3>1. n.pc \notin PassPCs /\ n.owned = <<>> /\ n.held = <<>>
            BY <2>2, IdleFields DEF PassPCs
        <3> QED
            BY <1>4, <2>1, <2>2, <3>1 DEF Counts, n
    <2>3. CASE /\ n.pc = "next" /\ Drawn(n.owned, S) /\ Drawn(n.held, S)
               /\ \A e \in Range(proc') :
                     e \in S \/ (e.raw = e.defer /\ \E x \in S : x.key = e.key /\ x.raw = e.raw)
               /\ \A e \in S : e.defer <= base'[e.key]
        <3>1. \A x \in S : x.defer <= base'[x.key] /\ x.raw <= base'[x.key] /\ x.raw = x.defer
            BY <1>7, <2>3
        <3>2. Within(n.owned, base') /\ Within(n.held, base')
            BY <2>3, <3>1, DrawnWithin
        <3>3. \A e \in Range(proc') : e.raw = e.defer /\ e.defer <= base'[e.key]
                                      /\ \E x \in S : x.key = e.key
            BY <2>3, <3>1
        <3>4. \A x \in S : base'[x.key] \in Nat /\ x.defer \in Nat
            BY <1>1, <2>1, WithinLine
        <3>5. \A e \in Range(proc') : e.raw = e.defer /\ e.defer <= base'[e.key] + 1
            <4> SUFFICES ASSUME NEW e \in Range(proc') PROVE e.defer <= base'[e.key] + 1
                BY <3>3
            <4>1. PICK x \in S : x.key = e.key /\ e.defer = x.defer
                BY <2>3, <3>1
            <4> QED
                BY <3>1, <3>4, <4>1
        <3>6. Within(proc', base')
            BY <3>3 DEF Within
        <3> HIDE DEF S
        <3> QED
            BY <1>4, <2>1, <2>3, <3>2, <3>5, <3>6 DEF Counts, n, PassPCs
    <2> QED
        BY <2>1, <2>2, <2>3
<1>12. ASSUME Take("loop") PROVE Counts'
    <2> DEFINE e == Head(o.owned)
    <2>1. /\ e \in Entries /\ e \in Range(o.owned) /\ o.pc = "next" /\ n.pc \in {"merge", "wait"}
          /\ Range(n.owned) \subseteq Range(o.owned) /\ n.held = o.held /\ n.arrivals = o.arrivals
          /\ n.cur = <<>> \/ n.cur = <<e>>
          /\ n.requeue = o.requeue \/ n.requeue = o.requeue \o Dumped(<<e>>)
        BY <1>1, <1>12, TakeEffect
    <2>2. queue' = queue /\ proc' = proc /\ base' = base
        BY <1>12 DEF Take
    <2> HIDE DEF n, o, e
    <2>3. /\ Within(queue, base) /\ Within(proc, base) /\ Within(o.owned, base)
          /\ Within(o.held, base) /\ Within(o.arrivals, base) /\ Within(o.requeue, base)
          /\ \A x \in Range(o.requeue) : x.raw = x.defer
        BY <2>1 DEF Counts, PassPCs, o
    <2>4. e.defer <= base[e.key] /\ e.raw <= base[e.key]
        BY <2>1, <2>3 DEF Within
    <2>5. <<e>> \in Seq(Entries) /\ Range(<<e>>) = {e}
        BY <2>1 DEF Range
    <2>6. Within(n.cur, base)
        BY <1>4, <2>1, <2>4, <2>5 DEF Within
    <2>7. Within(n.owned, base)
        BY <2>1, <2>3 DEF Within
    <2>8. /\ Dumped(<<e>>) \in Seq(Entries)
          /\ \A x \in Range(Dumped(<<e>>)) : x.key = e.key /\ x.raw = e.defer /\ x.defer = e.defer
        BY <2>5, DumpedSound
    <2>9. Range(o.requeue \o Dumped(<<e>>)) = Range(o.requeue) \cup Range(Dumped(<<e>>))
        BY <1>2, <2>8, RangeOfEntries DEF o
    <2>10. Within(n.requeue, base) /\ \A x \in Range(n.requeue) : x.raw = x.defer
        BY <2>1, <2>3, <2>4, <2>8, <2>9 DEF Within
    <2> QED
        BY <2>1, <2>2, <2>3, <2>6, <2>7, <2>10 DEF Counts, PassPCs, n, o
<1>13. ASSUME Spawn("loop") PROVE Counts'
    <2>1. queue' = queue /\ proc' = proc /\ base' = base /\ o.pc = "wait"
        BY <1>13 DEF Spawn
    <2>2. /\ n.pc = "mine" /\ n.owned = o.owned /\ n.held = o.held /\ n.requeue = o.requeue
          /\ n.arrivals = o.arrivals /\ n.cur = o.cur
        BY <1>1, <1>13, PcMoves DEF Spawn
    <2> HIDE DEF n, o
    <2> QED
        BY <2>1, <2>2 DEF Counts, PassPCs, n, o
<1>14. ASSUME MineEnds("loop") PROVE Counts'
    <2>1. queue' = queue /\ proc' = proc /\ base' = base
        BY <1>14 DEF MineEnds
    <2>2. /\ o.pc = "mine" /\ n.pc = "merge" /\ n.cur = <<>>
          /\ n.owned = o.owned /\ n.held = o.held /\ n.arrivals = o.arrivals
          /\ \/ n.requeue = o.requeue
             \/ \E s \in Seq(Entries) :
                  /\ n.requeue = o.requeue \o s
                  /\ \A e \in Range(s) : e.raw = e.defer /\
                        \E x \in Range(o.cur) : x.key = e.key /\ x.defer = e.defer
        BY <1>1, <1>14, MineEndsEffect
    <2> HIDE DEF n, o
    <2>3. /\ Within(queue, base) /\ Within(proc, base) /\ Within(o.owned, base)
          /\ Within(o.held, base) /\ Within(o.arrivals, base) /\ Within(o.requeue, base)
          /\ Within(o.cur, base) /\ \A x \in Range(o.requeue) : x.raw = x.defer
        BY <2>2 DEF Counts, PassPCs, o
    <2>4. Within(n.requeue, base) /\ \A x \in Range(n.requeue) : x.raw = x.defer
        <3>1. CASE n.requeue = o.requeue
            BY <2>3, <3>1
        <3>2. ASSUME NEW s \in Seq(Entries), n.requeue = o.requeue \o s,
                     \A e \in Range(s) : e.raw = e.defer /\
                        \E x \in Range(o.cur) : x.key = e.key /\ x.defer = e.defer
              PROVE  Within(n.requeue, base) /\ \A x \in Range(n.requeue) : x.raw = x.defer
            <4>1. Range(o.requeue \o s) = Range(o.requeue) \cup Range(s)
                BY <1>2, RangeOfEntries DEF o
            <4>2. \A e \in Range(s) : e.raw = e.defer /\ e.defer <= base[e.key]
                BY <2>3, <3>2 DEF Within
            <4> QED
                BY <2>3, <3>2, <4>1, <4>2 DEF Within
        <3> QED
            BY <2>2, <3>1, <3>2
    <2> QED
        BY <1>4, <2>1, <2>2, <2>3, <2>4 DEF Counts, PassPCs, n, o
<1>15. ASSUME Merge("loop") PROVE Counts'
    <2>1. base' = base
        BY <1>15 DEF Merge
    <2>2. /\ o.pc = "merge" /\ n.requeue = o.requeue /\ n.cur = o.cur
          /\ \/ /\ n.pc = "next" /\ n.owned = <<>> /\ Range(n.held) = Range(o.held) \cup Range(o.owned)
                /\ n.arrivals = o.arrivals /\ queue' = queue
                /\ \A e \in Range(proc') : e.raw = e.defer /\
                      \E x \in Range(n.held) : x.key = e.key /\ x.raw = e.raw
             \/ /\ n.pc = "write" /\ n.owned = o.owned /\ n.held = o.held
                /\ n.arrivals = queue /\ queue' = <<>> /\ proc' = proc
        BY <1>1, <1>15, MergeEffect
    <2> HIDE DEF n, o
    <2>3. /\ Within(queue, base) /\ Within(proc, base) /\ Within(o.owned, base)
          /\ Within(o.held, base) /\ Within(o.arrivals, base) /\ Within(o.requeue, base)
          /\ Within(o.cur, base) /\ \A x \in Range(o.requeue) : x.raw = x.defer
        BY <2>2 DEF Counts, PassPCs, o
    <2>4. CASE /\ n.pc = "next" /\ n.owned = <<>> /\ Range(n.held) = Range(o.held) \cup Range(o.owned)
               /\ n.arrivals = o.arrivals /\ queue' = queue
               /\ \A e \in Range(proc') : e.raw = e.defer /\
                     \E x \in Range(n.held) : x.key = e.key /\ x.raw = e.raw
        <3>1. Within(n.held, base) /\ Range(n.held) \subseteq Entries
            BY <1>3, <2>3, <2>4 DEF Within, o
        <3>2. Within(proc', base)
            BY <2>4, <3>1 DEF Within
        <3>3. \A e \in Range(proc') : e.raw = e.defer /\ e.defer <= base[e.key] + 1
            <4> SUFFICES ASSUME NEW e \in Range(proc') PROVE e.defer <= base[e.key] + 1
                BY <2>4
            <4>1. PICK x \in Range(n.held) : x.key = e.key /\ x.raw = e.defer
                BY <2>4
            <4>2. x.raw <= base[x.key] /\ base[x.key] \in Nat /\ x.raw \in Nat
                BY <1>5, <3>1 DEF Within
            <4> QED
                BY <4>1, <4>2
        <3>4. \A e \in Range(queue) : e.raw = e.defer /\ e.defer <= base[e.key] + 1
            BY DEF Counts
        <3> QED
            BY <1>4, <2>1, <2>2, <2>3, <2>4, <3>1, <3>2, <3>3, <3>4 DEF Counts, PassPCs, n
    <2>5. CASE /\ n.pc = "write" /\ n.owned = o.owned /\ n.held = o.held
               /\ n.arrivals = queue /\ queue' = <<>> /\ proc' = proc
        <3>1. \A e \in Range(proc) : e.raw = e.defer /\ e.defer <= base[e.key] + 1
            BY DEF Counts
        <3> QED
            BY <1>4, <2>1, <2>2, <2>3, <2>5, <3>1 DEF Counts, PassPCs, n
    <2> QED
        BY <2>2, <2>4, <2>5
<1>16. ASSUME WriteClaim("loop") PROVE Counts'
    <2> DEFINE S == Range(o.owned) \cup Range(o.arrivals) \cup Range(o.held)
    <2>1. queue' = queue /\ base' = base
        BY <1>16 DEF WriteClaim
    <2>2. /\ o.pc = "write" /\ n.pc = "next"
          /\ n.requeue = o.requeue /\ n.cur = o.cur /\ n.arrivals = <<>>
          /\ Drawn(n.owned, S) /\ Drawn(n.held, S)
          /\ \A e \in Range(proc') : e.raw = e.defer /\ \E x \in S : x.key = e.key /\ x.raw = e.raw
        BY <1>1, <1>16, WriteClaimEffect
    <2> HIDE DEF n, o
    <2>3. /\ Within(queue, base) /\ Within(o.owned, base)
          /\ Within(o.held, base) /\ Within(o.arrivals, base) /\ Within(o.requeue, base)
          /\ Within(o.cur, base) /\ \A x \in Range(o.requeue) : x.raw = x.defer
        BY <2>2 DEF Counts, PassPCs, o
    <2>4. \A x \in S : x.defer <= base[x.key] /\ x.raw <= base[x.key]
        BY <2>3 DEF Within
    <2>5. S \subseteq Entries
        BY <1>3 DEF o
    <2> HIDE DEF S
    <2>6. Within(n.owned, base) /\ Within(n.held, base)
        BY <2>2, <2>4, DrawnWithin
    <2>7. Within(proc', base)
        BY <2>2, <2>4 DEF Within
    <2>8. \A e \in Range(proc') : e.raw = e.defer /\ e.defer <= base[e.key] + 1
        <3> SUFFICES ASSUME NEW e \in Range(proc') PROVE e.defer <= base[e.key] + 1
            BY <2>2
        <3>1. PICK x \in S : x.key = e.key /\ x.raw = e.defer
            BY <2>2
        <3>2. x.raw <= base[x.key] /\ base[x.key] \in Nat /\ x.raw \in Nat
            BY <1>5, <2>4, <2>5
        <3> QED
            BY <3>1, <3>2
    <2>9. \A e \in Range(queue) : e.raw = e.defer /\ e.defer <= base[e.key] + 1
        BY DEF Counts
    <2> QED
        BY <1>4, <2>1, <2>2, <2>3, <2>6, <2>7, <2>8, <2>9 DEF Counts, PassPCs, n
<1>17. ASSUME EndPass("loop") PROVE Counts'
    <2>1. base' = base
        BY <1>17 DEF EndPass
    <2>2. /\ o.pc = "next" /\ n.owned = <<>> /\ n.held = <<>> /\ n.pc \in {"end", "sleep"}
          /\ \A e \in Range(queue') :
                \/ e \in Range(queue) \cup Range(o.requeue)
                \/ e.raw = e.defer /\ \E x \in Range(o.held) : x.key = e.key /\ e.defer <= x.defer + 1
          /\ proc' = <<>> \/ proc' = proc
          /\ queue' \in Seq(Entries)
        BY <1>1, <1>17, EndPassEffect
    <2> HIDE DEF n, o
    <2>3. /\ Within(queue, base) /\ Within(o.held, base) /\ Within(o.requeue, base)
          /\ \A x \in Range(o.requeue) : x.raw = x.defer
        BY <2>2 DEF Counts, PassPCs, o
    <2>4. Range(queue') \subseteq Entries
        BY <2>2, RangeOfEntries
    <2>5. \A e \in Range(queue') : e.raw = e.defer /\ e.defer <= base[e.key] + 1
        <3> SUFFICES ASSUME NEW e \in Range(queue') PROVE e.raw = e.defer /\ e.defer <= base[e.key] + 1
            OBVIOUS
        <3>1. base[e.key] \in Nat /\ e.defer \in Nat
            BY <1>5, <2>4
        <3>2. CASE e \in Range(queue)
            BY <3>2 DEF Counts
        <3>3. CASE e \in Range(o.requeue)
            BY <2>3, <3>1, <3>3 DEF Within
        <3>4. CASE e.raw = e.defer /\ \E x \in Range(o.held) : x.key = e.key /\ e.defer <= x.defer + 1
            <4>1. PICK x \in Range(o.held) : x.key = e.key /\ e.defer <= x.defer + 1
                BY <3>4
            <4>2. x.defer <= base[e.key] /\ x.defer \in Nat
                BY <1>3, <1>5, <2>3, <4>1 DEF Within, o
            <4> QED
                BY <3>1, <3>4, <4>1, <4>2
        <3> QED
            BY <2>2, <3>2, <3>3, <3>4
    <2>6. \A e \in Range(proc') : e.raw = e.defer /\ e.defer <= base[e.key] + 1
        BY <1>4, <2>2 DEF Counts
    <2> QED
        BY <2>1, <2>2, <2>5, <2>6 DEF Counts, PassPCs, n
<1>18. ASSUME WakeUp("loop") PROVE Counts'
    <2>1. queue' = queue /\ proc' = <<>> /\ base' = base /\ o.pc = "sleep"
        BY <1>18 DEF WakeUp
    <2>2. n.pc = "end" /\ n.owned = o.owned /\ n.held = o.held
        BY <1>1, <1>18, PcMoves DEF WakeUp
    <2> QED
        BY <2>1, <2>2, CountsIdle DEF PassPCs
<1>19. ASSUME Again("loop") PROVE Counts'
    <2>1. queue' = queue /\ proc' = proc /\ base' = base /\ o.pc = "end"
        BY <1>19 DEF Again
    <2>2. PICK l \in {"off", "top"} : dr' = [dr EXCEPT !["loop"].pc = l]
        BY <1>19 DEF Again
    <2>3. n.pc = l /\ n.owned = o.owned /\ n.held = o.held
        BY <1>1, <2>2, PcMoves
    <2> QED
        BY <2>1, <2>3, CountsIdle DEF PassPCs
<1>26. ASSUME DrainRaises("loop") PROVE Counts'
    <2>1. queue' = queue /\ proc' = proc /\ base' = base /\ n = Idle
        BY <1>1, <1>26, DrainRaisesEffect
    <2>2. n.pc = "off" /\ n.owned = <<>> /\ n.held = <<>>
        BY <2>1, IdleFields
    <2> QED
        BY <2>1, <2>2 DEF Counts, PassPCs
<1>27. ASSUME PassRaises("loop") PROVE Counts'
    <2>1. base' = base
        BY <1>27 DEF PassRaises
    <2>2. /\ n.pc = "end" /\ n.owned = <<>> /\ n.held = <<>>
          /\ proc' \in Seq(Entries) /\ queue' \in Seq(Entries)
          /\ \/ queue' = <<>> /\ Range(proc') = Range(queue) \cup Range(proc)
             \/ queue' = queue /\ proc' = proc
             \/ /\ o.pc = "next" /\ proc' = proc
                /\ \A e \in Range(queue') :
                      \/ e \in Range(queue)
                      \/ e.raw = e.defer /\ \E x \in Range(o.held) : x.key = e.key /\ e.defer <= x.defer + 1
        BY <1>1, <1>27, PassRaisesEffect
    <2> HIDE DEF n
    <2>3. o.pc = "next" => Within(o.held, base)
        BY DEF Counts, PassPCs
    <2>4. Range(queue') \subseteq Entries
        BY <2>2, RangeOfEntries
    <2>5. \A e \in Range(queue') \cup Range(proc') : e.raw = e.defer /\ e.defer <= base[e.key] + 1
        <3> SUFFICES ASSUME NEW e \in Range(queue') \cup Range(proc')
                     PROVE  e.raw = e.defer /\ e.defer <= base[e.key] + 1
            OBVIOUS
        <3>1. CASE e \in Range(queue) \cup Range(proc)
            BY <3>1 DEF Counts
        <3>2. ASSUME o.pc = "next", e \in Range(queue'), e.raw = e.defer,
                     \E x \in Range(o.held) : x.key = e.key /\ e.defer <= x.defer + 1
              PROVE  e.raw = e.defer /\ e.defer <= base[e.key] + 1
            <4>1. PICK x \in Range(o.held) : x.key = e.key /\ e.defer <= x.defer + 1
                BY <3>2
            <4>2. x.defer <= base[e.key] /\ x.defer \in Nat
                BY <1>3, <1>5, <2>3, <3>2, <4>1 DEF Within
            <4>3. base[e.key] \in Nat /\ e.defer \in Nat
                BY <1>5, <2>4, <3>2
            <4> QED
                BY <3>2, <4>1, <4>2, <4>3
        <3> QED
            BY <1>4, <2>2, <3>1, <3>2
    <2> QED
        BY <2>1, <2>2, <2>5 DEF Counts, PassPCs, n
<1>20. ASSUME NEW d \in Drainers, Pass(d) PROVE Counts'
    <2>1. dr[d].pc # "off"
        BY <1>20 DEF Pass, Claim, Take, Spawn, MineEnds, Merge, WriteClaim, EndPass, WakeUp, Again,
                      DrainRaises, PassRaises
    <2>2. d = "loop"
        BY <1>6, <2>1
    <2> QED
        BY <1>11, <1>12, <1>13, <1>14, <1>15, <1>16, <1>17, <1>18, <1>19, <1>20, <1>26, <1>27, <2>2
           DEF Pass
<1>21. ASSUME RebuildBegins \/ RebuildHolds \/ RebuildEnds PROVE Counts'
    <2>1. queue' = queue /\ proc' = proc /\ base' = base /\ n = o
        BY <1>1, <1>21 DEF RebuildBegins, RebuildHolds, RebuildEnds
    <2> QED
        BY <2>1 DEF Counts
<1>22. ASSUME Killed PROVE Counts'
    <2>1. Restart(queue, proc)
        BY <1>22 DEF Killed
    <2> QED
        BY <1>1, <1>7, <2>1, CountsRestart
<1>23. ASSUME NEW d \in Drainers, Stopped(d) PROVE Counts'
    <2> DEFINE S == Range(o.owned) \cup Range(o.held) \cup Range(queue)
    <2>1. d = "loop"
        BY <1>6, <1>23 DEF Stopped
    <2>2. PICK q \in Seq(Entries), p \in Seq(Entries) :
             /\ Restart(q, p)
             /\ \/ o.pc = "sleep" /\ q = queue /\ p = proc
                \/ /\ o.pc \in {"wait", "mine"}
                   /\ \A e \in Range(q) \cup Range(p) :
                         \/ e \in Range(queue)
                         \/ e.raw = e.defer /\ \E x \in S : x.key = e.key /\ x.raw = e.raw
        BY <1>23, <2>1, StoppedEffect
    <2>3. CASE q = queue /\ p = proc
        BY <1>7, <2>2, <2>3, CountsRestart
    <2>4. ASSUME o.pc \in {"wait", "mine"},
                 \A e \in Range(q) \cup Range(p) :
                         \/ e \in Range(queue)
                         \/ e.raw = e.defer /\ \E x \in S : x.key = e.key /\ x.raw = e.raw
          PROVE  Counts'
        <3>1. /\ Within(queue, base) /\ Within(o.owned, base) /\ Within(o.held, base)
            BY <2>4 DEF Counts, PassPCs
        <3>2. \A x \in S : x.raw <= base[x.key] /\ x \in Entries
            BY <1>1, <1>3, <3>1 DEF Within
        <3>3. ASSUME NEW e \in Range(q) \cup Range(p) PROVE Line(e, base)
            <4>1. CASE e \in Range(queue)
                BY <1>7, <4>1
            <4>2. CASE e.raw = e.defer /\ \E x \in S : x.key = e.key /\ x.raw = e.raw
                <5>1. PICK x \in S : x.key = e.key /\ x.raw = e.raw
                    BY <4>2
                <5>2. base[x.key] \in Nat /\ x.raw \in Nat /\ x.raw <= base[x.key]
                    BY <1>5, <3>2
                <5> QED
                    BY <4>2, <5>1, <5>2 DEF Line
            <4> QED
                BY <2>4, <3>3, <4>1, <4>2
        <3> QED
            BY <2>2, <3>3, CountsRestart
    <2> QED
        BY <2>2, <2>3, <2>4
<1>24. CASE UNCHANGED vars
    BY <1>24 DEF vars, Counts
<1>25. CASE Next
    BY <1>8, <1>9, <1>10, <1>20, <1>21, <1>22, <1>23, <1>25 DEF Next
<1> QED
    BY <1>24, <1>25

\* A pass raises a deferral count at most once, however many boundaries and
\* reposts fall into it, and never runs more than the batch size
\* (_rebalance_claim(), _defer_entries()), as long as /repair does not drain
\* beside the loop: two passes share one .processing.
THEOREM PassDisciplineCorrect ==
    ASSUME OneDrainer
    PROVE  Spec => []PassDiscipline
<1>1. Init => Counts
    <2>1. Range(<<>>) = {} /\ "loop" \in Drainers
        BY MinesAssumption DEF Range
    <2> QED
        BY <2>1, IdleFields DEF Init, Counts, PassPCs
<1>2. Local /\ Lone /\ Counts /\ [Next]_vars => Counts'
    BY NextCounts
<1>3. ASSUME Local, Lone, Counts PROVE PassDiscipline
    <2>1. PassBounded
        BY <1>3 DEF Local, Fine, PassBounded
    <2>2. ASSUME NEW s \in {queue, proc} \cup {dr[d].owned : d \in Drainers}
                                \cup {dr[d].held : d \in Drainers},
                 NEW i \in DOMAIN s
          PROVE  s[i].defer <= base[s[i].key] + 1
        <3>1. s[i] \in Range(s)
            BY DEF Range
        <3>2. CASE s = queue \/ s = proc
            BY <1>3, <3>1, <3>2 DEF Counts
        <3>3. ASSUME NEW d \in Drainers, s = dr[d].owned \/ s = dr[d].held
              PROVE  s[i].defer <= base[s[i].key] + 1
            <4>1. d = "loop" /\ dr[d].pc \in PassPCs
                <5>1. s # <<>>
                    OBVIOUS
                <5> QED
                    BY <1>3, <3>3, <5>1 DEF Lone, Counts
            <4>2. s[i].defer <= base[s[i].key]
                BY <1>3, <3>1, <3>3, <4>1 DEF Counts, Within
            <4>3. s[i] \in Entries /\ base \in [Targets -> 0..Escape]
                <5>1. dr[d] \in Drainer /\ base \in [Targets -> 0..Escape]
                    BY <1>3, DrainerFields
                <5>2. s \in Seq(Entries)
                    BY <3>3, <5>1 DEF Drainer
                <5> QED
                    BY <5>1, <5>2
            <4> QED
                BY <4>2, <4>3, WithinLine
        <3> QED
            BY <3>2, <3>3
    <2>3. DeferredOncePerPass
        BY <2>2 DEF DeferredOncePerPass
    <2> QED
        BY <2>1, <2>3 DEF PassDiscipline
<1> QED
    BY <1>1, <1>2, <1>3, LocalInvariance, LoneInvariance, PTL DEF Spec

-----------------------------------------------------------------------------
(* What leaves the disk                                                    *)

\* Of the owed targets this step takes at most those in hand off the disk.
Leaves ==
    (owed' \ (Keys(queue') \cup Keys(proc')))
        \subseteq (owed \ OnDisk) \cup InHand("loop") \cup InHand("loop")'

\* A step of the loop outside of a pass and of the sleep.
LEMMA DiskIdle ==
    ASSUME Disk, LET n == dr'["loop"] IN n.pc \notin PassPCs \cup {"sleep"} /\ n.cur = <<>> /\ n.arrivals = <<>>
    PROVE  Disk'
BY DEF Disk, PassPCs

\* After a restart the disk is the queue.
LEMMA DiskRestart ==
    ASSUME Local, NEW q \in Seq(Entries), NEW p \in Seq(Entries), Restart(q, p),
           OnDisk \cap owed \subseteq Keys(q) \cup Keys(p) \cup InHand("loop")
    PROVE  Disk' /\ Leaves
<1>1. /\ "loop" \in Drainers /\ Keys(queue') = Keys(q) \cup Keys(p) /\ owed' = owed
    BY RestartEffect, MinesAssumption DEF Restart
<1>2. LET n == dr'["loop"] IN n.pc \in {"off", "top"} /\ n.cur = <<>> /\ n.arrivals = <<>>
    BY <1>1, RestartEffect
<1>3. Disk'
    BY <1>2 DEF Disk, PassPCs
<1>4. Leaves
    BY <1>1 DEF Leaves
<1> QED
    BY <1>3, <1>4

\* Disk is inductive while the loop is the only drainer at work, and no step
\* takes more than the targets in hand off the disk.
LEMMA NextDisk ==
    ASSUME Local, Lone, Disk, [Next]_vars
    PROVE  Disk' /\ Leaves
<1> DEFINE o == dr["loop"]
           n == dr'["loop"]
           H == Keys(o.cur) \cup Keys(o.requeue) \cup Keys(o.arrivals)
           G == Keys(n.cur) \cup Keys(n.requeue) \cup Keys(n.arrivals)
<1>1. /\ "loop" \in Drainers /\ dr \in [Drainers -> Drainer]
      /\ queue \in Seq(Entries) /\ proc \in Seq(Entries) /\ <<>> \in Seq(Entries)
    BY MinesAssumption, DrainerFields
<1>2. o.cur \in Seq(Entries) /\ o.requeue \in Seq(Entries)
    BY <1>1 DEF Drainer
<1>3. Keys(<<>>) = {}
    BY DEF Keys
<1>4. \A d \in Drainers : dr[d].pc # "off" => d = "loop"
    BY DEF Lone
<1>5. InHand("loop") = H /\ InHand("loop")' = G
    BY DEF InHand
<1>6. /\ o.pc \in PassPCs =>
            Keys(proc) \cap owed \subseteq Keys(queue) \cup Keys(o.owned) \cup Keys(o.held) \cup H
      /\ o.pc = "sleep" => Keys(proc) \cap owed \subseteq Keys(queue)
      /\ o.pc \in {"wait", "mine"} => Keys(o.cur) \subseteq o.covered \cup Keys(queue)
      /\ o.pc \notin {"wait", "mine"} => o.cur = <<>>
      /\ o.pc # "write" => o.arrivals = <<>>
    BY <1>5 DEF Disk
<1>7. ASSUME /\ n.pc \in PassPCs =>
                Keys(proc') \cap owed' \subseteq Keys(queue') \cup Keys(n.owned) \cup Keys(n.held) \cup G
             /\ n.pc = "sleep" => Keys(proc') \cap owed' \subseteq Keys(queue')
             /\ n.pc \in {"wait", "mine"} => Keys(n.cur) \subseteq n.covered \cup Keys(queue')
             /\ n.pc \notin {"wait", "mine"} => n.cur = <<>>
             /\ n.pc # "write" => n.arrivals = <<>>
      PROVE  Disk'
    BY <1>5, <1>7 DEF Disk
<1>8. ASSUME owed' \ (Keys(queue') \cup Keys(proc'))
                 \subseteq (owed \ (Keys(queue) \cup Keys(proc))) \cup H \cup G
      PROVE  Leaves
    BY <1>5, <1>8 DEF Leaves, OnDisk
<1>9. ASSUME NEW t \in Targets, Post(t) PROVE Disk' /\ Leaves
    <2>1. /\ n.pc = o.pc /\ n.owned = o.owned /\ n.held = o.held /\ n.requeue = o.requeue
          /\ n.arrivals = o.arrivals /\ n.cur = o.cur /\ n.covered = o.covered \ {t}
        BY <1>1, <1>9, PostEffect
    <2>2. Keys(queue') = Keys(queue) \cup {t} /\ proc' = proc /\ owed' = owed \cup {t}
        BY <1>9, PostEffect DEF Post
    <2> HIDE DEF n, o
    <2>3. Disk'
        BY <1>6, <1>7, <2>1, <2>2
    <2>4. Leaves
        BY <1>8, <2>2
    <2> QED
        BY <2>3, <2>4
<1>10. ASSUME Kick PROVE Disk' /\ Leaves
    <2>1. queue' = queue /\ proc' = proc /\ owed' = owed
        BY <1>10 DEF Kick
    <2>2. Leaves
        BY <1>8, <2>1
    <2>3. CASE dr' = dr
        BY <2>1, <2>2, <2>3 DEF Disk, InHand
    <2>4. CASE o.pc = "off" /\ dr' = [dr EXCEPT !["loop"].pc = "top"]
        <3>1. n.pc = "top" /\ n.cur = o.cur /\ n.arrivals = o.arrivals
            BY <1>1, <2>4, PcMoves
        <3> QED
            BY <1>6, <2>2, <2>4, <3>1, DiskIdle DEF PassPCs
    <2> QED
        BY <1>10, <2>3, <2>4, KickEffect
<1>11. ASSUME LoopTop PROVE Disk' /\ Leaves
    <2>1. queue' = queue /\ proc' = proc /\ owed' = owed /\ o.pc = "top"
        BY <1>11 DEF LoopTop
    <2>2. PICK l \in {"off", "claim"} : dr' = [dr EXCEPT !["loop"].pc = l]
        BY <1>11 DEF LoopTop
    <2>3. n.pc = l /\ n.cur = o.cur /\ n.arrivals = o.arrivals
        BY <1>1, <2>2, PcMoves
    <2>4. Leaves
        BY <1>8, <2>1
    <2> QED
        BY <1>6, <2>1, <2>3, <2>4, DiskIdle DEF PassPCs
<1>12. ASSUME Claim("loop") PROVE Disk' /\ Leaves
    <2>1. /\ n.arrivals = <<>> /\ n.cur = <<>>
          /\ Keys(proc') = Keys(queue) \cup Keys(proc)
          /\ \/ n = Idle
             \/ n.pc = "next" /\ Keys(n.owned) \cup Keys(n.held) = Keys(queue) \cup Keys(proc)
        BY <1>1, <1>12, ClaimEffect
    <2>2. owed' = owed
        BY <1>12 DEF Claim
    <2>3. n = Idle => n.pc = "off"
        BY IdleFields
    <2> HIDE DEF n, o
    <2>4. Disk'
        BY <1>7, <2>1, <2>3 DEF PassPCs
    <2>5. Leaves
        BY <1>8, <2>1, <2>2
    <2> QED
        BY <2>4, <2>5
<1>13. ASSUME Take("loop") PROVE Disk' /\ Leaves
    <2> DEFINE e == Head(o.owned)
    <2>1. /\ e \in Entries /\ o.pc = "next" /\ n.pc \in {"merge", "wait"}
          /\ Range(o.owned) \subseteq {e} \cup Range(n.owned)
          /\ n.held = o.held /\ n.arrivals = o.arrivals
          /\ \/ n.pc = "merge" /\ n.cur = <<>> /\ n.requeue = o.requeue /\ owed' = owed \ {e.key}
             \/ n.pc = "merge" /\ n.cur = <<>> /\ n.requeue = o.requeue \o Dumped(<<e>>) /\ owed' = owed
             \/ /\ n.pc = "wait" /\ n.cur = <<e>> /\ n.requeue = o.requeue /\ owed' = owed
                /\ n.covered = {e.key}
        BY <1>1, <1>13, TakeEffect
    <2>2. queue' = queue /\ proc' = proc
        BY <1>13 DEF Take
    <2> HIDE DEF n, o, e
    <2>3. <<e>> \in Seq(Entries) /\ Keys(<<e>>) = {e.key}
        BY <2>1 DEF Keys
    <2>4. Dumped(<<e>>) \in Seq(Entries) /\ Keys(Dumped(<<e>>)) = {e.key}
        BY <2>3, DumpedSound
    <2>5. Keys(o.requeue \o Dumped(<<e>>)) = Keys(o.requeue) \cup {e.key}
        BY <1>2, <2>4, KeysConcat DEF o
    <2>6. Keys(o.owned) \subseteq {e.key} \cup Keys(n.owned)
        <3>1. Keys(o.owned) = {x.key : x \in Range(o.owned)} /\ Keys(n.owned) = {x.key : x \in Range(n.owned)}
            BY KeysOf
        <3> QED
            BY <2>1, <3>1
    <2>7. o.cur = <<>> /\ o.arrivals = <<>>
          /\ Keys(proc) \cap owed \subseteq Keys(queue) \cup Keys(o.owned) \cup Keys(o.held) \cup Keys(o.requeue)
        BY <1>3, <1>6, <2>1 DEF PassPCs
    <2>8. Leaves
        BY <1>8, <2>1, <2>2
    <2>9. Keys(proc') \cap owed' \subseteq Keys(queue') \cup Keys(n.owned) \cup Keys(n.held) \cup G
        <3>1. owed' \subseteq owed /\ Keys(o.requeue) \subseteq Keys(n.requeue)
            BY <2>1, <2>5
        <3>2. {e.key} \cap owed' \subseteq Keys(n.cur) \cup Keys(n.requeue)
            BY <2>1, <2>3, <2>5
        <3> QED
            BY <2>1, <2>2, <2>6, <2>7, <3>1, <3>2
    <2>10. Disk'
        BY <1>7, <2>1, <2>3, <2>7, <2>9
    <2> QED
        BY <2>8, <2>10
<1>14. ASSUME Spawn("loop") PROVE Disk' /\ Leaves
    <2>1. queue' = queue /\ proc' = proc /\ owed' = owed /\ o.pc = "wait"
        BY <1>14 DEF Spawn
    <2>2. /\ n.pc = "mine" /\ n.owned = o.owned /\ n.held = o.held /\ n.requeue = o.requeue
          /\ n.arrivals = o.arrivals /\ n.cur = o.cur /\ n.covered = o.covered
        BY <1>1, <1>14, PcMoves DEF Spawn
    <2> HIDE DEF n, o
    <2>3. Disk'
        BY <1>6, <1>7, <2>1, <2>2 DEF PassPCs
    <2>4. Leaves
        BY <1>8, <2>1
    <2> QED
        BY <2>3, <2>4
<1>15. ASSUME MineEnds("loop") PROVE Disk' /\ Leaves
    <2>1. queue' = queue /\ proc' = proc
        BY <1>15 DEF MineEnds
    <2>2. /\ o.pc = "mine" /\ n.pc = "merge" /\ n.cur = <<>>
          /\ n.owned = o.owned /\ n.held = o.held /\ n.arrivals = o.arrivals
          /\ \/ n.requeue = o.requeue /\ owed' = owed \ o.covered
             \/ owed' = owed /\ \E s \in Seq(Entries) : n.requeue = o.requeue \o s /\ Keys(s) = Keys(o.cur)
        BY <1>1, <1>15, MineEndsEffect
    <2> HIDE DEF n, o
    <2>3. \/ n.requeue = o.requeue /\ owed' = owed \ o.covered
          \/ owed' = owed /\ Keys(n.requeue) = Keys(o.requeue) \cup Keys(o.cur)
        BY <1>2, <2>2, KeysConcat DEF o
    <2>4. /\ Keys(o.cur) \subseteq o.covered \cup Keys(queue) /\ o.arrivals = <<>>
          /\ Keys(proc) \cap owed \subseteq Keys(queue) \cup Keys(o.owned) \cup Keys(o.held) \cup H
        BY <1>6, <2>2 DEF PassPCs
    <2>5. Keys(proc') \cap owed' \subseteq Keys(queue') \cup Keys(n.owned) \cup Keys(n.held) \cup G
        BY <2>1, <2>2, <2>3, <2>4
    <2>6. Disk'
        BY <1>7, <2>2, <2>4, <2>5
    <2>7. Leaves
        BY <1>8, <2>1, <2>3
    <2> QED
        BY <2>6, <2>7
<1>16. ASSUME Merge("loop") PROVE Disk' /\ Leaves
    <2>1. owed' = owed
        BY <1>16 DEF Merge
    <2>2. /\ o.pc = "merge" /\ n.requeue = o.requeue /\ n.cur = o.cur
          /\ \/ /\ n.pc = "next" /\ n.arrivals = o.arrivals /\ queue' = queue
                /\ Keys(proc') = Keys(n.held) /\ Keys(n.held) = Keys(o.owned) \cup Keys(o.held)
             \/ /\ n.pc = "write" /\ n.owned = o.owned /\ n.held = o.held
                /\ n.arrivals = queue /\ queue' = <<>> /\ proc' = proc
        BY <1>1, <1>16, MergeEffect
    <2> HIDE DEF n, o
    <2>3. /\ o.cur = <<>> /\ o.arrivals = <<>>
          /\ Keys(proc) \cap owed \subseteq Keys(queue) \cup Keys(o.owned) \cup Keys(o.held) \cup H
        BY <1>6, <2>2 DEF PassPCs
    <2>4. Disk'
        BY <1>3, <1>7, <2>1, <2>2, <2>3
    <2>5. Leaves
        BY <1>3, <1>8, <2>1, <2>2, <2>3
    <2> QED
        BY <2>4, <2>5
<1>17. ASSUME WriteClaim("loop") PROVE Disk' /\ Leaves
    <2>1. queue' = queue /\ owed' = owed
        BY <1>17 DEF WriteClaim
    <2>2. /\ o.pc = "write" /\ n.pc = "next"
          /\ n.requeue = o.requeue /\ n.cur = o.cur /\ n.arrivals = <<>>
          /\ Keys(n.owned) \cup Keys(n.held) = Keys(o.owned) \cup Keys(o.arrivals) \cup Keys(o.held)
          /\ Keys(proc') = Keys(n.owned) \cup Keys(n.held)
        BY <1>1, <1>17, WriteClaimEffect
    <2> HIDE DEF n, o
    <2>3. /\ o.cur = <<>>
          /\ Keys(proc) \cap owed \subseteq Keys(queue) \cup Keys(o.owned) \cup Keys(o.held) \cup H
        BY <1>6, <2>2 DEF PassPCs
    <2>4. Disk'
        BY <1>7, <2>2, <2>3
    <2>5. Leaves
        BY <1>8, <2>1, <2>2, <2>3
    <2> QED
        BY <2>4, <2>5
<1>18. ASSUME EndPass("loop") PROVE Disk' /\ Leaves
    <2>1. owed' = owed
        BY <1>18 DEF EndPass
    <2>2. /\ o.pc = "next" /\ o.owned = <<>> /\ n.arrivals = <<>> /\ n.cur = <<>>
          /\ Keys(queue') = Keys(queue) \cup Keys(o.held) \cup Keys(o.requeue)
          /\ \/ n.pc = "end" /\ proc' = <<>>
             \/ n.pc = "sleep" /\ proc' = proc
        BY <1>1, <1>18, EndPassEffect
    <2> HIDE DEF n, o
    <2>3. /\ o.cur = <<>> /\ o.arrivals = <<>>
          /\ Keys(proc) \cap owed \subseteq Keys(queue) \cup Keys(o.owned) \cup Keys(o.held) \cup H
        BY <1>6, <2>2 DEF PassPCs
    <2>4. Keys(proc) \cap owed \subseteq Keys(queue')
        BY <1>3, <2>2, <2>3
    <2>5. Disk'
        BY <1>7, <2>1, <2>2, <2>4 DEF PassPCs
    <2>6. Leaves
        BY <1>8, <2>1, <2>2, <2>4
    <2> QED
        BY <2>5, <2>6
<1>19. ASSUME WakeUp("loop") PROVE Disk' /\ Leaves
    <2>1. queue' = queue /\ owed' = owed /\ o.pc = "sleep"
        BY <1>19 DEF WakeUp
    <2>2. n.pc = "end" /\ n.cur = o.cur /\ n.arrivals = o.arrivals
        BY <1>1, <1>19, PcMoves DEF WakeUp
    <2>3. Leaves
        BY <1>6, <1>8, <2>1
    <2> QED
        BY <1>6, <2>1, <2>2, <2>3, DiskIdle DEF PassPCs
<1>20. ASSUME Again("loop") PROVE Disk' /\ Leaves
    <2>1. queue' = queue /\ proc' = proc /\ owed' = owed /\ o.pc = "end"
        BY <1>20 DEF Again
    <2>2. PICK l \in {"off", "top"} : dr' = [dr EXCEPT !["loop"].pc = l]
        BY <1>20 DEF Again
    <2>3. n.pc = l /\ n.cur = o.cur /\ n.arrivals = o.arrivals
        BY <1>1, <2>2, PcMoves
    <2>4. Leaves
        BY <1>8, <2>1
    <2> QED
        BY <1>6, <2>1, <2>3, <2>4, DiskIdle DEF PassPCs
<1>27. ASSUME DrainRaises("loop") PROVE Disk' /\ Leaves
    <2>1. queue' = queue /\ proc' = proc /\ owed' = owed /\ n = Idle
        BY <1>1, <1>27, DrainRaisesEffect
    <2>2. n.pc = "off" /\ n.cur = <<>> /\ n.arrivals = <<>>
        BY <2>1, IdleFields
    <2>3. Leaves
        BY <1>8, <2>1
    <2> QED
        BY <2>2, <2>3, DiskIdle DEF PassPCs
<1>28. ASSUME PassRaises("loop") PROVE Disk' /\ Leaves
    <2>1. owed' = owed
        BY <1>28 DEF PassRaises
    <2>2. /\ n.pc = "end" /\ n.cur = <<>> /\ n.arrivals = <<>>
          /\ Keys(queue) \cup Keys(proc) \subseteq Keys(queue') \cup Keys(proc')
        BY <1>1, <1>28, PassRaisesEffect
    <2>3. Leaves
        BY <1>8, <2>1, <2>2
    <2> QED
        BY <2>2, <2>3, DiskIdle DEF PassPCs
<1>21. ASSUME NEW d \in Drainers, Pass(d) PROVE Disk' /\ Leaves
    <2>1. dr[d].pc # "off"
        BY <1>21 DEF Pass, Claim, Take, Spawn, MineEnds, Merge, WriteClaim, EndPass, WakeUp, Again,
                      DrainRaises, PassRaises
    <2>2. d = "loop"
        BY <1>4, <2>1
    <2> QED
        BY <1>12, <1>13, <1>14, <1>15, <1>16, <1>17, <1>18, <1>19, <1>20, <1>21, <1>27, <1>28, <2>2
           DEF Pass
<1>22. ASSUME RebuildBegins \/ RebuildHolds \/ RebuildEnds PROVE Disk' /\ Leaves
    <2>1. queue' = queue /\ proc' = proc /\ owed' = owed /\ n = o
        BY <1>1, <1>22 DEF RebuildBegins, RebuildHolds, RebuildEnds
    <2>2. Disk'
        BY <1>6, <1>7, <2>1
    <2> QED
        BY <1>8, <2>1, <2>2
<1>23. ASSUME Killed PROVE Disk' /\ Leaves
    <2>1. Restart(queue, proc)
        BY <1>23 DEF Killed
    <2> QED
        BY <1>1, <2>1, DiskRestart DEF OnDisk
<1>24. ASSUME NEW d \in Drainers, Stopped(d) PROVE Disk' /\ Leaves
    <2>1. d = "loop"
        BY <1>4, <1>24 DEF Stopped
    <2>2. PICK q \in Seq(Entries), p \in Seq(Entries) :
             /\ Restart(q, p)
             /\ \/ o.pc = "sleep" /\ q = queue /\ p = proc
                \/ /\ o.pc \in {"wait", "mine"}
                   /\ Keys(q) \cup Keys(p) = Keys(queue) \cup Keys(o.owned) \cup Keys(o.held)
        BY <1>24, <2>1, StoppedEffect
    <2>3. OnDisk \cap owed \subseteq Keys(q) \cup Keys(p) \cup InHand("loop")
        BY <1>5, <1>6, <2>2 DEF OnDisk, PassPCs
    <2> QED
        BY <2>2, <2>3, DiskRestart
<1>25. CASE UNCHANGED vars
    <2>1. queue' = queue /\ proc' = proc /\ owed' = owed /\ n = o
        BY <1>25 DEF vars
    <2>2. Disk'
        BY <1>6, <1>7, <2>1
    <2> QED
        BY <1>8, <2>1, <2>2
<1>26. CASE Next
    BY <1>9, <1>10, <1>11, <1>21, <1>22, <1>23, <1>24, <1>26 DEF Next
<1> QED
    BY <1>25, <1>26

\* Of the owed targets only the entry in hand, those requeued by this pass and
\* the arrivals being merged ever leave the disk: no boundary, no end of a pass
\* and no restart drops the remainder, the deferred or the displaced (#293), as
\* long as /repair does not drain beside the loop.
THEOREM OnlyInHandLeavesDiskCorrect ==
    ASSUME OneDrainer
    PROVE  Spec => OnlyInHandLeavesDisk
<1>1. Init => Disk
    <2>1. "loop" \in Drainers
        BY MinesAssumption
    <2> QED
        BY <2>1, IdleFields DEF Init, Disk, PassPCs
<1>2. Local /\ Lone /\ Disk /\ [Next]_vars => Disk'
    BY NextDisk
<1>3. Local /\ Lone /\ Disk /\ [Next]_vars
        => [(owed \ OnDisk)' \subseteq (owed \ OnDisk) \cup AtRisk \cup AtRisk']_vars
    <2> SUFFICES ASSUME Local, Lone, Disk, [Next]_vars
                 PROVE  (owed \ OnDisk)' \subseteq (owed \ OnDisk) \cup AtRisk \cup AtRisk'
        OBVIOUS
    <2>1. Leaves
        BY NextDisk
    <2>2. InHand("loop") \subseteq AtRisk /\ InHand("loop")' \subseteq AtRisk'
        BY MinesAssumption DEF AtRisk
    <2>3. (owed \ OnDisk)' = owed' \ (Keys(queue') \cup Keys(proc'))
        BY DEF OnDisk
    <2> QED
        BY <2>1, <2>2, <2>3 DEF Leaves
<1> QED
    BY <1>1, <1>2, <1>3, LocalInvariance, LoneInvariance, PTL DEF Spec, OnlyInHandLeavesDisk

=============================================================================
