------------------------------- MODULE Lemmas -------------------------------
(***************************************************************************)
(* What the proofs of several components need.  About Selection: what Pick *)
(* returns, from a lemma on ranks (the elements of a finite set that a     *)
(* strict total order arranges have the ranks 0 .. n-1, each exactly       *)
(* once).  About AsyncSemaphore: what a call of acquire() or release()     *)
(* does to the number of permits and to the tasks that wait.               *)
(***************************************************************************)
EXTENDS Selection, AsyncSemaphore, FiniteSetTheorems, TLAPS

\* R orders the elements of S: irreflexive, transitive and total.
Orders(R, S) ==
    /\ \A x \in S : <<x, x>> \notin R
    /\ \A x, y, z \in S : <<x, y>> \in R /\ <<y, z>> \in R => <<x, z>> \in R
    /\ \A x, y \in S : x = y \/ <<x, y>> \in R \/ <<y, x>> \in R

\* How many elements of S come before x.
RankIn(x, R, S) == Cardinality({y \in S : <<y, x>> \in R})

\* The order of the indices of a sequence.
Less == {p \in Int \X Int : p[1] < p[2]}

\* An element that comes later has the higher rank, and ranks are below the
\* number of elements.
LEMMA RankMonotonic ==
    ASSUME NEW S, IsFiniteSet(S), NEW R, Orders(R, S)
    PROVE  /\ Cardinality(S) \in Nat
           /\ \A x \in S : RankIn(x, R, S) \in 0..(Cardinality(S) - 1)
           /\ \A x, y \in S : <<x, y>> \in R => RankIn(x, R, S) < RankIn(y, R, S)
<1> DEFINE B(x) == {y \in S : <<y, x>> \in R}
<1>1. Cardinality(S) \in Nat
    BY FS_CardinalityType
<1>2. \A x \in S : IsFiniteSet(B(x)) /\ Cardinality(B(x)) \in Nat
    <2> SUFFICES ASSUME NEW x \in S PROVE IsFiniteSet(B(x)) /\ Cardinality(B(x)) \in Nat
        OBVIOUS
    <2>1. B(x) \in SUBSET S
        OBVIOUS
    <2>2. IsFiniteSet(B(x))
        BY <2>1, FS_Subset
    <2> QED
        BY <2>2, FS_CardinalityType
<1>3. ASSUME NEW x \in S, NEW T, IsFiniteSet(T), B(x) \subseteq T, x \in T
      PROVE  Cardinality(B(x)) < Cardinality(T)
    <2>1. x \notin B(x)
        BY DEF Orders
    <2>2. B(x) \in SUBSET (T \ {x})
        BY <1>3, <2>1
    <2>3. IsFiniteSet(T \ {x}) /\ Cardinality(T \ {x}) = Cardinality(T) - 1
        BY <1>3, FS_RemoveElement
    <2>4. Cardinality(B(x)) <= Cardinality(T \ {x})
        BY <2>2, <2>3, FS_Subset
    <2>5. Cardinality(T) \in Nat
        BY <1>3, FS_CardinalityType
    <2>6. Cardinality(B(x)) \in Nat
        BY <1>2
    <2> HIDE DEF B
    <2> QED
        BY <2>3, <2>4, <2>5, <2>6
<1>4. ASSUME NEW x \in S
      PROVE  Cardinality(B(x)) \in 0..(Cardinality(S) - 1)
    <2>1. Cardinality(B(x)) < Cardinality(S)
        BY <1>3
    <2> QED
        BY <1>1, <1>2, <2>1
<1>5. ASSUME NEW x \in S, NEW y \in S, <<x, y>> \in R
      PROVE  Cardinality(B(x)) < Cardinality(B(y))
    <2>1. B(x) \subseteq B(y) /\ x \in B(y)
        BY <1>5 DEF Orders
    <2> QED
        BY <1>2, <1>3, <2>1
<1> HIDE DEF B
<1>6. \A x \in S : RankIn(x, R, S) = Cardinality(B(x))
    BY DEF RankIn, B
<1> QED
    BY <1>1, <1>4, <1>5, <1>6

\* Every rank below the number of elements is taken, by one element.
LEMMA RankBijective ==
    ASSUME NEW S, IsFiniteSet(S), NEW R, Orders(R, S)
    PROVE  /\ \A x, y \in S : RankIn(x, R, S) = RankIn(y, R, S) => x = y
           /\ \A r \in 0..(Cardinality(S) - 1) : \E x \in S : RankIn(x, R, S) = r
<1> DEFINE n == Cardinality(S)
           f == [x \in S |-> RankIn(x, R, S)]
           T == 0..(n - 1)
<1>1. /\ n \in Nat
      /\ \A x \in S : RankIn(x, R, S) \in T
      /\ \A x, y \in S : <<x, y>> \in R => RankIn(x, R, S) < RankIn(y, R, S)
    BY RankMonotonic
<1>2. \A x, y \in S : RankIn(x, R, S) = RankIn(y, R, S) => x = y
    <2> SUFFICES ASSUME NEW x \in S, NEW y \in S, RankIn(x, R, S) = RankIn(y, R, S), x # y
                 PROVE  FALSE
        OBVIOUS
    <2>1. RankIn(x, R, S) \in Int /\ RankIn(y, R, S) \in Int
        BY <1>1
    <2>2. RankIn(x, R, S) < RankIn(y, R, S) \/ RankIn(y, R, S) < RankIn(x, R, S)
        BY <1>1 DEF Orders
    <2> QED
        BY <2>1, <2>2
<1>3. f \in Injection(S, T)
    BY <1>1, <1>2 DEF Injection, IsInjective
<1>4. IsFiniteSet(T) /\ Cardinality(T) = n
    BY <1>1, FS_Interval
<1>5. f \in Surjection(S, T)
    BY <1>3, <1>4, FS_Injection
<1>6. \A r \in T : \E x \in S : f[x] = r
    BY <1>5 DEF Surjection
<1> QED
    BY <1>2, <1>6

\* There are at most n elements of a rank below n, and n of them when not all
\* elements are of such a rank.
LEMMA RankBelow ==
    ASSUME NEW S, IsFiniteSet(S), NEW R, Orders(R, S), NEW n \in Nat
    PROVE  LET L == {x \in S : RankIn(x, R, S) < n}
           IN  /\ IsFiniteSet(L) /\ Cardinality(L) \in Nat /\ Cardinality(L) <= n
               /\ L # S => Cardinality(L) = n
<1> DEFINE L == {x \in S : RankIn(x, R, S) < n}
           T == 0..(n - 1)
           f == [x \in L |-> RankIn(x, R, S)]
<1>1. /\ Cardinality(S) \in Nat
      /\ \A x \in S : RankIn(x, R, S) \in 0..(Cardinality(S) - 1)
    BY RankMonotonic
<1>2. /\ \A x, y \in S : RankIn(x, R, S) = RankIn(y, R, S) => x = y
      /\ \A r \in 0..(Cardinality(S) - 1) : \E x \in S : RankIn(x, R, S) = r
    BY RankBijective
<1>3. IsFiniteSet(L) /\ Cardinality(L) \in Nat
    BY FS_Subset, FS_CardinalityType
<1>4. IsFiniteSet(T) /\ Cardinality(T) = n
    BY FS_Interval
<1>5. \A x \in L : f[x] \in T
    BY <1>1
<1>6. f \in Injection(L, T)
    BY <1>2, <1>5 DEF Injection, IsInjective
<1>7. Cardinality(L) <= n /\ (Cardinality(L) = Cardinality(T) <=> f \in Surjection(L, T))
    BY <1>4, <1>6, FS_Injection
<1>8. ASSUME L # S PROVE Cardinality(L) = n
    <2>1. PICK x \in S : x \notin L
        BY <1>8
    <2>2. n <= Cardinality(S) - 1
        BY <1>1, <2>1
    <2>3. ASSUME NEW r \in T PROVE \E y \in L : f[y] = r
        <3>1. r \in 0..(Cardinality(S) - 1) /\ r < n
            BY <1>1, <2>2
        <3>2. PICK y \in S : RankIn(y, R, S) = r
            BY <1>2, <3>1
        <3> QED
            BY <3>1, <3>2
    <2> HIDE DEF L, T, f
    <2>4. f \in Surjection(L, T)
        BY <1>6, <2>3 DEF Surjection, Injection
    <2> QED
        BY <1>4, <1>7, <2>4
<1> QED
    BY <1>3, <1>7, <1>8

\* Pick lists exactly the chosen entries: all of its entries are chosen ones,
\* and every chosen one is listed; it is as long as there are indices.
LEMMA PickSound ==
    ASSUME NEW E, NEW s \in Seq(E), NEW I \in SUBSET (DOMAIN s)
    PROVE  /\ Pick(s, I) \in Seq(E)
           /\ Cardinality(I) \in Nat /\ Len(Pick(s, I)) = Cardinality(I)
           /\ Cardinality(I) <= Len(s)
           /\ \A r \in 1..Cardinality(I) : \E i \in I : Pick(s, I)[r] = s[i]
           /\ \A i \in I : \E r \in 1..Cardinality(I) : Pick(s, I)[r] = s[i]
           /\ Range(Pick(s, I)) = {s[i] : i \in I}
<1> DEFINE n == Cardinality(I)
           at(r) == CHOOSE i \in I : Cardinality({j \in I : j < i}) = r - 1
<1>1. DOMAIN s = 1..Len(s) /\ Len(s) \in Nat /\ I \subseteq Int
    OBVIOUS
<1>2. IsFiniteSet(1..Len(s)) /\ Cardinality(1..Len(s)) = Len(s)
    <2> DEFINE l == Len(s)
    <2>1. l \in Nat
        BY <1>1
    <2> HIDE DEF l
    <2>2. IsFiniteSet(1..l) /\ Cardinality(1..l) = l
        BY <2>1, FS_Interval
    <2> QED
        BY <2>2 DEF l
<1>3. IsFiniteSet(I) /\ n \in Nat /\ n <= Len(s)
    BY <1>1, <1>2, FS_Subset, FS_CardinalityType
<1>4. Orders(Less, I)
    BY <1>1 DEF Orders, Less
<1>5. \A i \in I : RankIn(i, Less, I) = Cardinality({j \in I : j < i})
    <2> SUFFICES ASSUME NEW i \in I
                 PROVE  {j \in I : <<j, i>> \in Less} = {j \in I : j < i}
        BY DEF RankIn
    <2> QED
        BY <1>1 DEF Less
<1>6. ASSUME NEW r \in 1..n
      PROVE  at(r) \in I /\ Cardinality({j \in I : j < at(r)}) = r - 1
    <2>1. r - 1 \in 0..(n - 1)
        BY <1>3
    <2>2. \E i \in I : RankIn(i, Less, I) = r - 1
        BY <1>3, <1>4, <2>1, RankBijective
    <2>3. \E i \in I : Cardinality({j \in I : j < i}) = r - 1
        BY <1>5, <2>2
    <2> QED
        BY <2>3
<1>7. \A r \in 1..n : Pick(s, I)[r] = s[at(r)]
    BY DEF Pick
<1>8. Pick(s, I) \in Seq(E) /\ Len(Pick(s, I)) = n
    <2>1. Pick(s, I) = [r \in 1..n |-> s[at(r)]]
        BY DEF Pick
    <2>2. \A r \in 1..n : at(r) \in I
        BY <1>6
    <2> HIDE DEF at, n
    <2>3. \A r \in 1..n : s[at(r)] \in E
        BY <1>1, <2>2
    <2> QED
        BY <1>3, <2>1, <2>3
<1>9. ASSUME NEW i \in I
      PROVE  \E r \in 1..n : Pick(s, I)[r] = s[i]
    <2> DEFINE r == RankIn(i, Less, I) + 1
    <2>1. RankIn(i, Less, I) \in 0..(n - 1)
        BY <1>3, <1>4, RankMonotonic
    <2>2. r \in 1..n /\ r - 1 = RankIn(i, Less, I)
        BY <1>3, <2>1
    <2>3. at(r) \in I /\ RankIn(at(r), Less, I) = RankIn(i, Less, I)
        BY <1>5, <1>6, <2>2
    <2> HIDE DEF at
    <2>4. at(r) = i
        BY <1>3, <1>4, <2>3, RankBijective
    <2> HIDE DEF r
    <2> QED
        BY <1>7, <2>2, <2>4
<1> HIDE DEF at, n
<1>10. \A r \in 1..n : \E i \in I : Pick(s, I)[r] = s[i]
    BY <1>6, <1>7
<1>11. DOMAIN Pick(s, I) = 1..n
    BY <1>8
<1>12. Range(Pick(s, I)) = {s[i] : i \in I}
    BY <1>9, <1>10, <1>11 DEF Range
<1> QED
    BY <1>3, <1>8, <1>9, <1>10, <1>12 DEF n

\* Pick takes each index once.
LEMMA PickBijective ==
    ASSUME NEW E, NEW s \in Seq(E), NEW I \in SUBSET (DOMAIN s)
    PROVE  \E f \in Bijection(1..Cardinality(I), I) : \A r \in 1..Cardinality(I) : Pick(s, I)[r] = s[f[r]]
<1> DEFINE n == Cardinality(I)
           at(r) == CHOOSE i \in I : Cardinality({j \in I : j < i}) = r - 1
           f == [r \in 1..n |-> at(r)]
<1>1. DOMAIN s = 1..Len(s) /\ Len(s) \in Nat /\ I \subseteq Int
    OBVIOUS
<1>2. IsFiniteSet(I) /\ n \in Nat
    <2> DEFINE l == Len(s)
    <2>1. l \in Nat /\ I \subseteq 1..l
        BY <1>1
    <2> HIDE DEF l
    <2>2. IsFiniteSet(1..l)
        BY <2>1, FS_Interval
    <2> QED
        BY <2>1, <2>2, FS_Subset, FS_CardinalityType
<1>3. Orders(Less, I)
    BY <1>1 DEF Orders, Less
<1>4. \A i \in I : RankIn(i, Less, I) = Cardinality({j \in I : j < i})
    <2> SUFFICES ASSUME NEW i \in I
                 PROVE  {j \in I : <<j, i>> \in Less} = {j \in I : j < i}
        BY DEF RankIn
    <2> QED
        BY <1>1 DEF Less
<1>5. ASSUME NEW r \in 1..n
      PROVE  at(r) \in I /\ RankIn(at(r), Less, I) = r - 1
    <2>1. r - 1 \in 0..(n - 1)
        BY <1>2
    <2>2. \E i \in I : RankIn(i, Less, I) = r - 1
        BY <1>2, <1>3, <2>1, RankBijective
    <2>3. \E i \in I : Cardinality({j \in I : j < i}) = r - 1
        BY <1>4, <2>2
    <2>4. at(r) \in I /\ Cardinality({j \in I : j < at(r)}) = r - 1
        BY <2>3
    <2> QED
        BY <1>4, <2>4
<1>6. \A r \in 1..n : Pick(s, I)[r] = s[f[r]]
    BY DEF Pick
<1> HIDE DEF at
<1>7. f \in Injection(1..n, I)
    <2>1. f \in [1..n -> I]
        BY <1>5
    <2>2. \A r, q \in 1..n : f[r] = f[q] => r = q
        BY <1>2, <1>5
    <2> QED
        BY <2>1, <2>2 DEF Injection, IsInjective
<1>8. \A i \in I : \E r \in 1..n : f[r] = i
    <2> SUFFICES ASSUME NEW i \in I PROVE \E r \in 1..n : f[r] = i
        OBVIOUS
    <2> DEFINE r == RankIn(i, Less, I) + 1
    <2>1. RankIn(i, Less, I) \in 0..(n - 1)
        BY <1>2, <1>3, RankMonotonic
    <2>2. r \in 1..n /\ r - 1 = RankIn(i, Less, I)
        BY <1>2, <2>1
    <2>3. at(r) \in I /\ RankIn(at(r), Less, I) = RankIn(i, Less, I)
        BY <1>5, <2>2
    <2>4. at(r) = i
        BY <1>2, <1>3, <2>3, RankBijective
    <2> HIDE DEF r
    <2> QED
        BY <2>2, <2>4
<1>9. f \in Bijection(1..n, I)
    BY <1>7, <1>8 DEF Bijection, Surjection, Injection
<1> QED
    BY <1>6, <1>9

\* The indices among I at which s has an entry of the kind F.
Hits(s, I, F) == {i \in I : s[i] \in F}

\* Pick neither loses nor repeats an entry: of every kind F of entries it lists
\* as many as were chosen.
LEMMA PickCounts ==
    ASSUME NEW E, NEW s \in Seq(E), NEW I \in SUBSET (DOMAIN s), NEW F
    PROVE  Cardinality(Hits(Pick(s, I), DOMAIN Pick(s, I), F)) = Cardinality(Hits(s, I, F))
<1> DEFINE n == Cardinality(I)
           p == Pick(s, I)
           R == {r \in 1..n : p[r] \in F}
           J == {i \in I : s[i] \in F}
<1>1. n \in Nat /\ DOMAIN p = 1..n
    BY PickSound
<1>2. PICK f \in Bijection(1..n, I) : \A r \in 1..n : p[r] = s[f[r]]
    BY PickBijective
<1> HIDE DEF n, p
<1>3. /\ f \in [1..n -> I] /\ \A r, q \in 1..n : f[r] = f[q] => r = q
      /\ \A i \in I : \E r \in 1..n : f[r] = i
    BY <1>2 DEF Bijection, Injection, Surjection, IsInjective
<1> DEFINE g == [r \in R |-> f[r]]
<1>4. g \in Bijection(R, J)
    <2>1. g \in [R -> J]
        BY <1>2, <1>3
    <2>2. \A r, q \in R : g[r] = g[q] => r = q
        BY <1>3
    <2>3. \A i \in J : \E r \in R : g[r] = i
        <3> SUFFICES ASSUME NEW i \in J PROVE \E r \in R : g[r] = i
            OBVIOUS
        <3>1. PICK r \in 1..n : f[r] = i
            BY <1>3
        <3>2. r \in R
            BY <1>2, <3>1
        <3> QED
            BY <3>1, <3>2
    <2> HIDE DEF g, R, J
    <2> QED
        BY <2>1, <2>2, <2>3 DEF Bijection, Injection, Surjection, IsInjective
<1>5. IsFiniteSet(R)
    <2>1. R \subseteq 1..n /\ IsFiniteSet(1..n)
        BY <1>1, FS_Interval
    <2> QED
        BY <2>1, FS_Subset
<1>6. Cardinality(J) = Cardinality(R)
    <2>1. ExistsBijection(R, J)
        BY <1>4 DEF ExistsBijection
    <2> HIDE DEF R, J
    <2> QED
        BY <1>5, <2>1, FS_Bijection
<1> QED
    BY <1>1, <1>6 DEF p, Hits

\* A set of indices that is not empty has a least one.
LEMMA LeastIndex ==
    ASSUME NEW n \in Nat, NEW I \in SUBSET (1..n), I # {}
    PROVE  \E i \in I : \A j \in I : i <= j
<1>1. IsFiniteSet(1..n)
    BY FS_Interval
<1>2. IsFiniteSet(I) /\ Cardinality(I) \in Nat
    BY <1>1, FS_Subset, FS_CardinalityType
<1>3. Cardinality(I) # 0
    BY <1>2, FS_EmptySet
<1>4. 0 \in 0..(Cardinality(I) - 1)
    BY <1>2, <1>3
<1>5. Orders(Less, I)
    BY DEF Orders, Less
<1>6. PICK i \in I : RankIn(i, Less, I) = 0
    BY <1>2, <1>4, <1>5, RankBijective
<1> DEFINE B == {j \in I : <<j, i>> \in Less}
<1>7. B \in SUBSET I /\ Cardinality(B) = 0
    BY <1>6 DEF RankIn
<1>8. IsFiniteSet(B)
    BY <1>2, <1>7, FS_Subset
<1>9. B = {}
    BY <1>7, <1>8, FS_EmptySet
<1>10. \A j \in I : i <= j
    <2> SUFFICES ASSUME NEW j \in I PROVE i <= j
        OBVIOUS
    <2>1. i \in Int /\ j \in Int
        OBVIOUS
    <2>2. <<j, i>> \notin Less
        BY <1>9
    <2>3. ~(j < i)
        BY <2>1, <2>2 DEF Less
    <2> QED
        BY <2>1, <2>3
<1> QED
    BY <1>10

\* And it has a greatest one.
LEMMA GreatestIndex ==
    ASSUME NEW n \in Nat, NEW I \in SUBSET (0..n), I # {}
    PROVE  \E i \in I : \A j \in I : j <= i
<1> DEFINE J == {k \in 1..(n + 1) : n + 1 - k \in I}
<1>1. PICK i0 \in I : TRUE
    OBVIOUS
<1>2. n + 1 \in Nat /\ J \in SUBSET (1..(n + 1))
    OBVIOUS
<1>3. \A i \in I : n + 1 - i \in J
    <2> SUFFICES ASSUME NEW i \in I PROVE n + 1 - i \in J
        OBVIOUS
    <2>1. i \in 0..n
        OBVIOUS
    <2>2. n + 1 - i \in 1..(n + 1) /\ n + 1 - (n + 1 - i) = i
        BY <2>1
    <2> QED
        BY <2>2
<1>4. J # {}
    BY <1>1, <1>3
<1>5. PICK k \in J : \A j \in J : k <= j
    BY <1>2, <1>4, LeastIndex
<1>6. n + 1 - k \in I /\ k \in Int
    BY <1>2, <1>5
<1>7. ASSUME NEW j \in I PROVE j <= n + 1 - k
    <2>1. k <= n + 1 - j
        BY <1>3, <1>5
    <2>2. j \in Int
        OBVIOUS
    <2> QED
        BY <1>6, <2>1, <2>2
<1> QED
    BY <1>6, <1>7

\* Max of a set of numbers that is bounded and not empty.
LEMMA MaxOfBounded ==
    ASSUME NEW n \in Nat, NEW S \in SUBSET (0..n), S # {}
    PROVE  Max(S) \in S /\ \A x \in S : x <= Max(S)
<1>1. PICK m \in S : \A x \in S : x <= m
    BY GreatestIndex
<1>2. S \subseteq Int
    OBVIOUS
<1>3. \A x \in S : m >= x
    BY <1>1, <1>2
<1>4. Max(S) \in S /\ \A x \in S : Max(S) >= x
    BY <1>3 DEF Max
<1> QED
    BY <1>2, <1>4

-----------------------------------------------------------------------------

\* A semaphore of tasks P: nobody waits twice, and a woken task has left the
\* queue.
IsSemaphore(q, P) ==
    /\ q \in [free : Nat, queue : Seq(P), woken : SUBSET P]
    /\ IsFiniteSet(q.woken)
    /\ \A i, j \in 1..Len(q.queue) : q.queue[i] = q.queue[j] => i = j
    /\ \A i \in 1..Len(q.queue) : q.queue[i] \notin q.woken

\* The permits that no task holds: free, or on their way to a woken task.
Sum(q) == q.free + Cardinality(q.woken)

-----------------------------------------------------------------------------

\* Min of two numbers, the form in which the model uses it.
LEMMA MinOfTwo ==
    ASSUME NEW a \in Int, NEW b \in Int
    PROVE  Min({a, b}) = IF a <= b THEN a ELSE b
<1> DEFINE m == IF a <= b THEN a ELSE b
<1>1. m \in {a, b} /\ \A y \in {a, b} : m <= y
    OBVIOUS
<1>2. \A x \in {a, b} : (\A y \in {a, b} : x <= y) => x = m
    OBVIOUS
<1> HIDE DEF m
<1>3. Min({a, b}) = m
    BY <1>1, <1>2 DEF Min
<1> QED
    BY <1>3 DEF m

\* Counting a union of disjoint sets.
LEMMA CountUnion ==
    ASSUME NEW S, NEW T, IsFiniteSet(S), IsFiniteSet(T), S \cap T = {}
    PROVE  /\ IsFiniteSet(S \cup T) /\ Cardinality(S \cup T) = Cardinality(S) + Cardinality(T)
           /\ Cardinality(S) \in Nat /\ Cardinality(T) \in Nat
<1>1. Cardinality(S) \in Nat /\ Cardinality(T) \in Nat
    BY FS_CardinalityType
<1>2. Cardinality(S \cap T) = 0
    BY FS_EmptySet
<1>3. /\ IsFiniteSet(S \cup T)
      /\ Cardinality(S \cup T) = Cardinality(S) + Cardinality(T) - Cardinality(S \cap T)
    BY FS_Union
<1> QED
    BY <1>1, <1>2, <1>3

\* Counting what is left of a set.
LEMMA CountDifference ==
    ASSUME NEW S, NEW T, IsFiniteSet(S), T \subseteq S
    PROVE  /\ IsFiniteSet(S \ T) /\ Cardinality(S \ T) = Cardinality(S) - Cardinality(T)
           /\ IsFiniteSet(T) /\ Cardinality(S) \in Nat /\ Cardinality(T) \in Nat
<1>1. S \cap T = T
    OBVIOUS
<1>2. IsFiniteSet(T)
    BY FS_Subset
<1>3. Cardinality(S) \in Nat /\ Cardinality(T) \in Nat
    BY <1>2, FS_CardinalityType
<1>4. IsFiniteSet(S \ T) /\ Cardinality(S \ T) = Cardinality(S) - Cardinality(S \cap T)
    BY FS_Difference
<1> QED
    BY <1>1, <1>2, <1>3, <1>4

\* The number of permits of a semaphore is a number.
LEMMA SumType ==
    ASSUME NEW P, NEW q, IsSemaphore(q, P)
    PROVE  Sum(q) \in Nat /\ Cardinality(q.woken) \in Nat
BY FS_CardinalityType DEF IsSemaphore, Sum

\* A fresh semaphore.
LEMMA NewIsSemaphore ==
    ASSUME NEW P, NEW n \in Nat
    PROVE  /\ IsSemaphore(NewSemaphore(n), P)
           /\ NewSemaphore(n).free = n /\ Cardinality(NewSemaphore(n).woken) = 0
           /\ \A p : ~Suspended(NewSemaphore(n), p)
BY FS_EmptySet DEF IsSemaphore, NewSemaphore, Suspended

\* release(): every permit that is given back is free or on its way to a woken
\* task, and nobody leaves the semaphore.
LEMMA GiveConserves ==
    ASSUME NEW P, NEW q, IsSemaphore(q, P), NEW n \in Nat
    PROVE  /\ IsSemaphore(Give(q, n), P)
           /\ Give(q, n).free + Cardinality(Give(q, n).woken) = q.free + Cardinality(q.woken) + n
           /\ \A p : Suspended(Give(q, n), p) <=> Suspended(q, p)
<1> DEFINE k == Min({n, Len(q.queue)})
           fresh == {q.queue[i] : i \in 1..k}
           g == [i \in 1..k |-> q.queue[i]]
           rest == SubSeq(q.queue, k + 1, Len(q.queue))
<1>1. Len(q.queue) \in Nat /\ q.queue \in Seq(P) /\ DOMAIN q.queue = 1..Len(q.queue)
    BY DEF IsSemaphore
<1>2. k \in 0..Len(q.queue) /\ k <= n
    BY <1>1, MinOfTwo
<1>3. Give(q, n) = [free |-> q.free + (n - k), queue |-> rest, woken |-> q.woken \cup fresh]
    BY DEF Give
<1> HIDE DEF k
<1>4. IsFiniteSet(fresh) /\ Cardinality(fresh) = k
    <2>1. g \in [1..k -> fresh]
        OBVIOUS
    <2>2. ExistsBijection(1..k, fresh)
        <3>1. g \in Bijection(1..k, fresh)
            BY <1>1, <1>2, <2>1 DEF Bijection, Injection, Surjection, IsInjective, IsSemaphore
        <3> QED BY <3>1 DEF ExistsBijection
    <2>3. IsFiniteSet(1..k) /\ Cardinality(1..k) = k
        BY <1>1, <1>2, FS_Interval
    <2> QED BY <2>2, <2>3, FS_Bijection
<1>5. q.woken \cap fresh = {}
    BY <1>1, <1>2 DEF IsSemaphore
<1>6. /\ IsFiniteSet(q.woken \cup fresh)
      /\ Cardinality(q.woken \cup fresh) = Cardinality(q.woken) + k
      /\ Cardinality(q.woken) \in Nat
    <2>1. IsFiniteSet(q.woken)
        BY DEF IsSemaphore
    <2> HIDE DEF fresh
    <2> QED BY <1>4, <1>5, <2>1, CountUnion
<1>7. /\ rest \in Seq(P) /\ Len(rest) = Len(q.queue) - k
      /\ \A i \in 1..Len(rest) : rest[i] = q.queue[k + i]
    BY <1>1, <1>2
<1>8. q.free + (n - k) \in Nat /\ fresh \subseteq P
    BY <1>1, <1>2 DEF IsSemaphore
<1>9. IsSemaphore(Give(q, n), P)
    <2>1. Give(q, n) \in [free : Nat, queue : Seq(P), woken : SUBSET P]
        BY <1>3, <1>7, <1>8 DEF IsSemaphore
    <2>2. Give(q, n).queue = rest /\ Give(q, n).woken = q.woken \cup fresh
        <3> HIDE DEF rest, fresh
        <3> QED BY <1>3
    <2>3. \A i, j \in 1..Len(rest) : rest[i] = rest[j] => i = j
        <3> SUFFICES ASSUME NEW i \in 1..Len(rest), NEW j \in 1..Len(rest), rest[i] = rest[j]
                     PROVE i = j
            OBVIOUS
        <3>1. k + i \in 1..Len(q.queue) /\ k + j \in 1..Len(q.queue)
            BY <1>1, <1>2, <1>7
        <3>2. k + i = k + j
            BY <1>7, <3>1 DEF IsSemaphore
        <3> QED BY <1>1, <1>2, <1>7, <3>2
    <2>4. \A i \in 1..Len(rest) : rest[i] \notin q.woken \cup fresh
        <3> SUFFICES ASSUME NEW i \in 1..Len(rest) PROVE rest[i] \notin q.woken \cup fresh
            OBVIOUS
        <3>1. k + i \in 1..Len(q.queue) /\ k + i > k /\ rest[i] = q.queue[k + i]
            BY <1>1, <1>2, <1>7
        <3>2. \A j \in 1..k : j \in 1..Len(q.queue) /\ j # k + i
            BY <1>1, <1>2, <3>1
        <3> QED BY <3>1, <3>2 DEF IsSemaphore
    <2> HIDE DEF rest, fresh
    <2> QED BY <1>6, <2>1, <2>2, <2>3, <2>4 DEF IsSemaphore
<1>10. \A p : Suspended(Give(q, n), p) <=> Suspended(q, p)
    <2> TAKE p
    <2>1. (\E i \in DOMAIN q.queue : q.queue[i] = p)
             <=> p \in fresh \/ \E i \in 1..Len(rest) : rest[i] = p
        <3>1. ASSUME NEW i \in DOMAIN q.queue, q.queue[i] = p, i > k
              PROVE \E j \in 1..Len(rest) : rest[j] = p
            <4>1. i - k \in 1..Len(rest) /\ rest[i - k] = q.queue[i]
                BY <1>1, <1>2, <1>7, <3>1
            <4> QED BY <4>1, <3>1
        <3>2. ASSUME NEW j \in 1..Len(rest), rest[j] = p
              PROVE \E i \in DOMAIN q.queue : q.queue[i] = p
            <4>1. k + j \in DOMAIN q.queue
                BY <1>1, <1>2, <1>7
            <4> QED BY <1>7, <3>2, <4>1
        <3>3. p \in fresh => \E i \in DOMAIN q.queue : q.queue[i] = p
            BY <1>1, <1>2
        <3>4. \A i \in DOMAIN q.queue : i <= k => q.queue[i] \in fresh
            BY <1>1, <1>2
        <3>5. \A i \in DOMAIN q.queue : i <= k \/ i > k
            BY <1>1, <1>2
        <3> HIDE DEF rest, fresh
        <3> QED BY <3>1, <3>2, <3>3, <3>4, <3>5
    <2>2. DOMAIN rest = 1..Len(rest)
        BY <1>7
    <2> HIDE DEF rest, fresh
    <2> QED BY <1>3, <2>1, <2>2 DEF Suspended
<1>11. Give(q, n).free = q.free + (n - k) /\ Give(q, n).woken = q.woken \cup fresh /\ q.free \in Nat
    BY <1>3 DEF IsSemaphore
<1> HIDE DEF fresh
<1> QED
    BY <1>1, <1>2, <1>6, <1>9, <1>10, <1>11

\* acquire() n times without suspending.
LEMMA TakeConserves ==
    ASSUME NEW P, NEW q, IsSemaphore(q, P), NEW n \in 0..Available(q)
    PROVE  /\ IsSemaphore(TakePermits(q, n), P)
           /\ TakePermits(q, n).free = q.free - n /\ TakePermits(q, n).woken = q.woken /\ TakePermits(q, n).queue = q.queue
           /\ \A p : Suspended(TakePermits(q, n), p) <=> Suspended(q, p)
<1>1. q.free - n \in Nat
    BY DEF Available, IsSemaphore
<1>2. TakePermits(q, n) \in [free : Nat, queue : Seq(P), woken : SUBSET P]
    BY <1>1 DEF TakePermits, IsSemaphore
<1>3. TakePermits(q, n).free = q.free - n /\ TakePermits(q, n).woken = q.woken /\ TakePermits(q, n).queue = q.queue
    BY DEF TakePermits, IsSemaphore
<1> QED
    BY <1>2, <1>3 DEF IsSemaphore, Suspended

\* What acquire() hands out is there.
LEMMA AvailableBound ==
    ASSUME NEW P, NEW q, IsSemaphore(q, P)
    PROVE  Available(q) \in 0..q.free
BY DEF Available, IsSemaphore

\* acquire() that suspends p.
LEMMA EnqueueConserves ==
    ASSUME NEW P, NEW q, IsSemaphore(q, P), NEW p \in P, ~Suspended(q, p)
    PROVE  /\ IsSemaphore(Enqueue(q, p), P)
           /\ Enqueue(q, p).free = q.free /\ Enqueue(q, p).woken = q.woken
           /\ \A r : Suspended(Enqueue(q, p), r) <=> Suspended(q, r) \/ r = p
<1>1. q.queue \in Seq(P) /\ Len(q.queue) \in Nat
    BY DEF IsSemaphore
<1>2. /\ Append(q.queue, p) \in Seq(P) /\ Len(Append(q.queue, p)) = Len(q.queue) + 1
      /\ Append(q.queue, p)[Len(q.queue) + 1] = p
      /\ \A i \in 1..Len(q.queue) : Append(q.queue, p)[i] = q.queue[i]
      /\ DOMAIN q.queue = 1..Len(q.queue)
      /\ DOMAIN Append(q.queue, p) = 1..(Len(q.queue) + 1)
    BY <1>1
<1>3. /\ Enqueue(q, p) \in [free : Nat, queue : Seq(P), woken : SUBSET P]
      /\ Enqueue(q, p).free = q.free /\ Enqueue(q, p).woken = q.woken
      /\ Enqueue(q, p).queue = Append(q.queue, p)
    BY <1>2 DEF Enqueue, IsSemaphore
<1>4. p \notin q.woken /\ \A i \in 1..Len(q.queue) : q.queue[i] # p
    BY <1>2 DEF Suspended
<1>5. IsSemaphore(Enqueue(q, p), P)
    BY <1>1, <1>2, <1>3, <1>4 DEF IsSemaphore
<1>6. \A r : (\E i \in 1..(Len(q.queue) + 1) : Append(q.queue, p)[i] = r)
              <=> r = p \/ \E i \in 1..Len(q.queue) : q.queue[i] = r
    BY <1>1, <1>2
<1> QED
    BY <1>2, <1>3, <1>5, <1>6 DEF Suspended

\* A woken task resumes: the permit it was handed is now its own.
LEMMA ResumeConserves ==
    ASSUME NEW P, NEW q, IsSemaphore(q, P), NEW p \in q.woken
    PROVE  /\ IsSemaphore(Resume(q, p), P)
           /\ Resume(q, p).free + Cardinality(Resume(q, p).woken) = q.free + Cardinality(q.woken) - 1
           /\ \A r : Suspended(Resume(q, p), r) <=> Suspended(q, r) /\ r # p
<1> DEFINE q0 == [q EXCEPT !.woken = @ \ {p}, !.free = 0]
<1>1. /\ q0 \in [free : Nat, queue : Seq(P), woken : SUBSET P]
      /\ q0.free = 0 /\ q0.queue = q.queue /\ q0.woken = q.woken \ {p}
    BY DEF IsSemaphore
<1>2. /\ IsFiniteSet(q.woken \ {p}) /\ Cardinality(q.woken \ {p}) = Cardinality(q.woken) - 1
      /\ Cardinality(q.woken) \in Nat
    BY FS_RemoveElement, FS_CardinalityType DEF IsSemaphore
<1>3. IsSemaphore(q0, P)
    BY <1>1, <1>2 DEF IsSemaphore
<1>4. q.free \in Nat
    BY DEF IsSemaphore
<1>5. Resume(q, p) = Give(q0, q.free)
    BY DEF Resume
<1>6. \A r : Suspended(q0, r) <=> Suspended(q, r) /\ r # p
    <2>1. \A i \in DOMAIN q.queue : q.queue[i] # p
        BY DEF IsSemaphore
    <2> QED BY <1>1, <2>1 DEF Suspended
<1>7. /\ IsSemaphore(Give(q0, q.free), P)
      /\ Give(q0, q.free).free + Cardinality(Give(q0, q.free).woken) = q0.free + Cardinality(q0.woken) + q.free
      /\ \A r : Suspended(Give(q0, q.free), r) <=> Suspended(q0, r)
    BY <1>3, <1>4, GiveConserves
<1> HIDE DEF q0
<1> QED
    BY <1>1, <1>2, <1>4, <1>5, <1>6, <1>7

\* release(), by what it does to the permits that no task holds.
LEMMA SumOfGive ==
    ASSUME NEW P, NEW q, IsSemaphore(q, P), NEW n \in Nat
    PROVE  IsSemaphore(Give(q, n), P) /\ Sum(Give(q, n)) = Sum(q) + n
BY GiveConserves DEF Sum

\* acquire() without suspending takes permits that no task held.
LEMMA SumOfTake ==
    ASSUME NEW P, NEW q, IsSemaphore(q, P), NEW n \in 0..Available(q)
    PROVE  IsSemaphore(TakePermits(q, n), P) /\ Sum(TakePermits(q, n)) = Sum(q) - n
<1>1. /\ IsSemaphore(TakePermits(q, n), P)
      /\ TakePermits(q, n).free = q.free - n /\ TakePermits(q, n).woken = q.woken
    BY TakeConserves
<1>2. q.free \in Nat /\ Cardinality(q.woken) \in Nat /\ n \in Int
    BY SumType DEF IsSemaphore
<1> QED
    BY <1>1, <1>2 DEF Sum

\* acquire() that suspends takes none.
LEMMA SumOfEnqueue ==
    ASSUME NEW P, NEW q, IsSemaphore(q, P), NEW p \in P, ~Suspended(q, p)
    PROVE  IsSemaphore(Enqueue(q, p), P) /\ Sum(Enqueue(q, p)) = Sum(q)
BY EnqueueConserves DEF Sum

\* A resumed task holds the permit that was on its way.
LEMMA SumOfResume ==
    ASSUME NEW P, NEW q, IsSemaphore(q, P), NEW p \in q.woken
    PROVE  IsSemaphore(Resume(q, p), P) /\ Sum(Resume(q, p)) = Sum(q) - 1
<1>1. /\ IsSemaphore(Resume(q, p), P)
      /\ Resume(q, p).free + Cardinality(Resume(q, p).woken) = q.free + Cardinality(q.woken) - 1
    BY ResumeConserves
<1>2. q.free \in Nat /\ Cardinality(q.woken) \in Nat
    BY SumType DEF IsSemaphore
<1> QED
    BY <1>1, <1>2 DEF Sum

\* The loop in which a holder takes permits until it has all it needs, or waits.
LEMMA AcquireLoopEffect ==
    ASSUME NEW P, NEW q, IsSemaphore(q, P), NEW h \in P, ~Suspended(q, h), NEW need \in Nat,
           NEW n, n = Min({need, Available(q)})
    PROVE  /\ n \in Nat /\ n <= need
           /\ IsSemaphore(TakePermits(q, n), P) /\ Sum(TakePermits(q, n)) = Sum(q) - n
           /\ IsSemaphore(Enqueue(TakePermits(q, n), h), P) /\ Sum(Enqueue(TakePermits(q, n), h)) = Sum(q) - n
           /\ \A p : Suspended(TakePermits(q, n), p) <=> Suspended(q, p)
           /\ \A p : Suspended(Enqueue(TakePermits(q, n), h), p) <=> Suspended(q, p) \/ p = h
<1>1. Available(q) \in 0..q.free /\ q.free \in Nat
    BY AvailableBound DEF IsSemaphore
<1>2. n \in 0..Available(q) /\ n <= need /\ n \in Nat
    BY <1>1, MinOfTwo
<1>3. /\ IsSemaphore(TakePermits(q, n), P) /\ Sum(TakePermits(q, n)) = Sum(q) - n
      /\ \A p : Suspended(TakePermits(q, n), p) <=> Suspended(q, p)
    <2>1. IsSemaphore(TakePermits(q, n), P) /\ Sum(TakePermits(q, n)) = Sum(q) - n
        BY <1>2, SumOfTake
    <2>2. \A p : Suspended(TakePermits(q, n), p) <=> Suspended(q, p)
        BY <1>2, TakeConserves
    <2> QED BY <2>1, <2>2
<1>4. ~Suspended(TakePermits(q, n), h)
    BY <1>3
<1>5. /\ IsSemaphore(Enqueue(TakePermits(q, n), h), P) /\ Sum(Enqueue(TakePermits(q, n), h)) = Sum(TakePermits(q, n))
      /\ \A p : Suspended(Enqueue(TakePermits(q, n), h), p) <=> Suspended(TakePermits(q, n), p) \/ p = h
    BY <1>3, <1>4, SumOfEnqueue, EnqueueConserves
<1> QED
    BY <1>2, <1>3, <1>5

-----------------------------------------------------------------------------

\* One task has as many permits as its share says.
LEMMA ShareOfOne ==
    ASSUME NEW p, NEW n \in Nat
    PROVE  IsFiniteSet({p} \X (1..n)) /\ Cardinality({p} \X (1..n)) = n
<1>1. IsFiniteSet(1..n) /\ Cardinality(1..n) = n
    BY FS_Interval
<1>2. IsFiniteSet({p}) /\ Cardinality({p}) = 1
    BY FS_Singleton
<1> QED
    BY <1>1, <1>2, FS_Product

\* Nobody holds anything.
LEMMA NoShares ==
    ASSUME NEW H, NEW f \in [H -> Nat], \A p \in H : f[p] = 0
    PROVE  Shares(f) = {}
<1>1. \A p \in H : {p} \X (1..f[p]) = {}
    OBVIOUS
<1> QED
    BY <1>1 DEF Shares

\* The share of one task changes.
LEMMA SharesExcept ==
    ASSUME NEW H, NEW f \in [H -> Nat], NEW g \in [H -> Nat], NEW p \in H,
           \A r \in H \ {p} : g[r] = f[r], IsFiniteSet(Shares(f))
    PROVE  /\ IsFiniteSet(Shares(g))
           /\ Cardinality(Shares(g)) = Cardinality(Shares(f)) - f[p] + g[p]
<1> DEFINE others == Shares(f) \ ({p} \X (1..f[p]))
<1>1. IsFiniteSet({p} \X (1..f[p])) /\ Cardinality({p} \X (1..f[p])) = f[p]
    BY ShareOfOne
<1>2. IsFiniteSet({p} \X (1..g[p])) /\ Cardinality({p} \X (1..g[p])) = g[p]
    BY ShareOfOne
<1>3. {p} \X (1..f[p]) \subseteq Shares(f)
    BY DEF Shares
<1>5. IsFiniteSet(others) /\ Cardinality(others) = Cardinality(Shares(f)) - f[p]
    BY <1>1, <1>3, CountDifference
<1>6. \A x : x \in others <=> \E r \in H \ {p} : x \in {r} \X (1..f[r])
    <2> SUFFICES ASSUME NEW x PROVE x \in others <=> \E r \in H \ {p} : x \in {r} \X (1..f[r])
        OBVIOUS
    <2>1. x \in Shares(f) <=> \E r \in H : x \in {r} \X (1..f[r])
        BY DEF Shares
    <2>2. \A r \in H \ {p} : x \in {r} \X (1..f[r]) => x \notin {p} \X (1..f[p])
        OBVIOUS
    <2> QED BY <2>1, <2>2
<1>7. others \cap ({p} \X (1..g[p])) = {}
    BY <1>6
<1>8. Shares(g) = others \cup ({p} \X (1..g[p]))
    <2>1. \A x : x \in Shares(g) <=> \E r \in H : x \in {r} \X (1..g[r])
        BY DEF Shares
    <2>2. \A x : (\E r \in H \ {p} : x \in {r} \X (1..g[r])) <=> x \in others
        BY <1>6
    <2> HIDE DEF others
    <2> QED BY <2>1, <2>2
<1> HIDE DEF others
<1>9. /\ IsFiniteSet(Shares(g))
      /\ Cardinality(Shares(g)) = Cardinality(others) + Cardinality({p} \X (1..g[p]))
    BY <1>2, <1>5, <1>7, <1>8, CountUnion
<1> QED
    BY <1>2, <1>5, <1>9

\* A share is part of the whole, and so are two.
LEMMA SharesBound ==
    ASSUME NEW H, NEW f \in [H -> Nat], IsFiniteSet(Shares(f)), NEW p \in H
    PROVE  /\ f[p] <= Cardinality(Shares(f))
           /\ \A r \in H \ {p} : f[p] + f[r] <= Cardinality(Shares(f))
<1>1. IsFiniteSet({p} \X (1..f[p])) /\ Cardinality({p} \X (1..f[p])) = f[p]
    BY ShareOfOne
<1>2. {p} \X (1..f[p]) \subseteq Shares(f)
    BY DEF Shares
<1>3. f[p] <= Cardinality(Shares(f))
    BY <1>1, <1>2, FS_Subset
<1>4. ASSUME NEW r \in H \ {p}
      PROVE f[p] + f[r] <= Cardinality(Shares(f))
    <2>1. IsFiniteSet({r} \X (1..f[r])) /\ Cardinality({r} \X (1..f[r])) = f[r]
        BY ShareOfOne
    <2>2. {r} \X (1..f[r]) \subseteq Shares(f)
        BY DEF Shares
    <2>3. ({p} \X (1..f[p])) \cap ({r} \X (1..f[r])) = {}
        OBVIOUS
    <2>4. Cardinality(({p} \X (1..f[p])) \cup ({r} \X (1..f[r]))) = f[p] + f[r]
        <3> DEFINE A == {p} \X (1..f[p])
                   B == {r} \X (1..f[r])
        <3>1. IsFiniteSet(A) /\ IsFiniteSet(B) /\ A \cap B = {} /\ Cardinality(A) = f[p] /\ Cardinality(B) = f[r]
            BY <1>1, <2>1, <2>3
        <3> HIDE DEF A, B
        <3>2. Cardinality(A \cup B) = f[p] + f[r]
            BY <3>1, CountUnion
        <3> QED BY <3>2 DEF A, B
    <2>5. ({p} \X (1..f[p])) \cup ({r} \X (1..f[r])) \subseteq Shares(f)
        BY <1>2, <2>2
    <2> QED BY <2>4, <2>5, FS_Subset
<1> QED
    BY <1>3, <1>4
=============================================================================
