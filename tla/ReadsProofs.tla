---------------------------- MODULE ReadsProofs -----------------------------
(***************************************************************************)
(* The read paths: the room vocabulary, the caches with a time to live,    *)
(* the ranker, /cypher, the shaping of search answers and the paged        *)
(* listings, for any threads, rooms, paths, names, drawers and rows.       *)
(***************************************************************************)
EXTENDS Rooms, ReadCaches, Listings, Cypher, SearchRanking, Lemmas

-----------------------------------------------------------------------------
(* Rooms.                                                                  *)

\* A set of rooms as the lookup yields it, of a version not in the future.
RoomSets(v) == [known : BOOLEAN, rooms : SUBSET Room, asOf : 0..v, excused : BOOLEAN]

AskPlaces == {"idle", "tool", "test", "read", "store", "return", "write", "first", "again",
              "refuse", "delete", "drop"}

AskRecords(v) ==
    [op : Asks \cup {"none"}, at : AskPlaces, room : Room, to : Room, got : RoomSets(v),
     here : BOOLEAN, failed : BOOLEAN, miss : BOOLEAN]

RoomTypes ==
    /\ table \in [names : SUBSET Room, version : 0..MaxChanges]
    /\ foreign \in BOOLEAN /\ held \in SUBSET Room
    /\ answered \in 0..table.version
    /\ canonical \in RoomSets(table.version)
    /\ present \in [known : BOOLEAN, rooms : SUBSET Room]
    /\ ask \in [Caller -> AskRecords(table.version)]

\* A filter whose room has held drawers all the time: it holds some now.
HereIsHeld == \A c \in Caller : ask[c].here => ask[c].room \in held

RoomsInv == RoomTypes /\ HereIsHeld /\ RefusedOnlyIfAbsent /\ CanonicalSeesReports

\* A request at rest, and no set: of their types at every version.
LEMMA RoomConstants ==
    ASSUME NEW v \in Nat
    PROVE  NoSet \in RoomSets(v) /\ Rest \in AskRecords(v)
           /\ Rest.at = "idle" /\ Rest.here = FALSE /\ Unknown \in [known : BOOLEAN, rooms : SUBSET Room]
<1>1. NoSet \in RoomSets(v)
    BY DEF NoSet, RoomSets
<1>2. (CHOOSE r \in Room : TRUE) \in Room
    BY RoomsAssumption
<1> QED
    BY <1>1, <1>2 DEF Rest, AskRecords, AskPlaces, Asks, Unknown

\* A step that leaves the table, the drawers and the reports alone and gives
\* one request a new record.
LEMMA OneRequestKeeps ==
    ASSUME RoomsInv, NEW c \in Caller, NEW r \in AskRecords(table.version),
           ask' = [ask EXCEPT ![c] = r],
           r.here => r.room \in held', held \subseteq held', held' \in SUBSET Room,
           r.at = "refuse" /\ ~r.failed => ~r.here,
           UNCHANGED <<table, foreign, answered>>,
           canonical' \in RoomSets(table.version),
           canonical'.known /\ ~canonical'.excused => canonical'.asOf >= answered,
           present' \in [known : BOOLEAN, rooms : SUBSET Room]
    PROVE  RoomsInv'
<1>1. ask' \in [Caller -> AskRecords(table.version)] /\ ask'[c] = r
      /\ \A x \in Caller : x # c => ask'[x] = ask[x]
    BY DEF RoomsInv, RoomTypes
<1>2. RoomTypes'
    BY <1>1 DEF RoomsInv, RoomTypes
<1>3. HereIsHeld'
    BY <1>1 DEF RoomsInv, HereIsHeld
<1>4. RefusedOnlyIfAbsent'
    BY <1>1 DEF RoomsInv, RefusedOnlyIfAbsent
<1>5. CanonicalSeesReports'
    BY DEF CanonicalSeesReports
<1> QED
    BY <1>2, <1>3, <1>4, <1>5 DEF RoomsInv

\* A change of the table: a new version, and drawers that each request has
\* witnessed.
LEMMA TableChangeKeeps ==
    ASSUME RoomsInv, NEW names \in SUBSET Room, NEW hs \in SUBSET Room, Change(names, hs),
           NEW w \in [Caller -> AskRecords(table.version)], ask' = w,
           \A x \in Caller : /\ w[x].here => ask[x].here /\ w[x].room \in hs
                             /\ w[x].at = "refuse" => ask[x].at = "refuse" /\ w[x].failed = ask[x].failed,
           UNCHANGED <<foreign, canonical, present, answered>>
    PROVE  RoomsInv'
<1>1. table.version \in Nat /\ table'.version = table.version + 1 /\ table.version < MaxChanges
      /\ table' \in [names : SUBSET Room, version : 0..MaxChanges] /\ held' = hs
    BY RoomsAssumption DEF RoomsInv, RoomTypes, Change
<1>2. 0..table.version \subseteq 0..table'.version
    BY <1>1
<1>3. RoomSets(table.version) \subseteq RoomSets(table'.version)
    BY <1>2 DEF RoomSets
<1>4. AskRecords(table.version) \subseteq AskRecords(table'.version)
    BY <1>3 DEF AskRecords
<1>5. RoomTypes'
    BY <1>1, <1>2, <1>3, <1>4 DEF RoomsInv, RoomTypes
<1>6. HereIsHeld'
    BY <1>1 DEF HereIsHeld
<1>7. RefusedOnlyIfAbsent'
    BY DEF RoomsInv, RefusedOnlyIfAbsent
<1>8. CanonicalSeesReports'
    BY DEF RoomsInv, CanonicalSeesReports
<1> QED
    BY <1>5, <1>6, <1>7, <1>8 DEF RoomsInv

\* One case for each action of the rooms.
LEMMA RoomsStep == RoomsInv /\ [RoomsNext]_roomsVars => RoomsInv'
<1> SUFFICES ASSUME RoomsInv, [RoomsNext]_roomsVars PROVE RoomsInv'
    OBVIOUS
<1> DEFINE v == table.version
<1>1. /\ v \in Nat /\ canonical \in RoomSets(v) /\ answered \in 0..v
      /\ present \in [known : BOOLEAN, rooms : SUBSET Room] /\ held \in SUBSET Room
      /\ table.names \in SUBSET Room
      /\ canonical.known /\ ~canonical.excused => canonical.asOf >= answered
      /\ \A c \in Caller : /\ ask[c] \in AskRecords(v)
                           /\ ask[c].here => ask[c].room \in held
                           /\ ask[c].at = "refuse" /\ ~ask[c].failed => ~ask[c].here
    BY DEF RoomsInv, RoomTypes, HereIsHeld, RefusedOnlyIfAbsent, CanonicalSeesReports
<1>2. NoSet \in RoomSets(v) /\ Rest \in AskRecords(v) /\ Rest.at = "idle" /\ Rest.here = FALSE
      /\ NoSet.known = FALSE
    BY <1>1, RoomConstants DEF NoSet
<1>3. \A c \in Caller, pc \in AskPlaces :
        LET r == [ask[c] EXCEPT !.at = pc] IN
            /\ r \in AskRecords(v) /\ r.at = pc /\ r.here = ask[c].here /\ r.room = ask[c].room
            /\ r.failed = ask[c].failed
    BY <1>1 DEF AskRecords
<1> HIDE DEF v
<1>4. ASSUME NEW c \in Caller, NEW pc \in AskPlaces \ {"refuse"}, Goes(c, pc), UNCHANGED <<table, foreign, answered>>,
             held \subseteq held', held' \in SUBSET Room,
             canonical' \in RoomSets(v), canonical'.known /\ ~canonical'.excused => canonical'.asOf >= answered,
             present' \in [known : BOOLEAN, rooms : SUBSET Room]
      PROVE  RoomsInv'
    <2> DEFINE r == [ask[c] EXCEPT !.at = pc]
    <2>1. ask' = [ask EXCEPT ![c] = r]
        BY <1>4 DEF Goes
    <2>2. r \in AskRecords(v) /\ r.at # "refuse" /\ (r.here => r.room \in held')
        BY <1>1, <1>3, <1>4
    <2> HIDE DEF r
    <2> QED BY <1>4, <2>1, <2>2, OneRequestKeeps DEF v
<1>5. ASSUME NEW c \in Caller, Ends(c), UNCHANGED <<table, foreign, answered>>,
             held \subseteq held', held' \in SUBSET Room,
             canonical' \in RoomSets(v), canonical'.known /\ ~canonical'.excused => canonical'.asOf >= answered,
             present' \in [known : BOOLEAN, rooms : SUBSET Room]
      PROVE  RoomsInv'
    BY <1>2, <1>5, OneRequestKeeps DEF Ends, v
<1>6. ASSUME NEW c \in Caller, NEW op \in Asks, NEW r \in Room, NEW to \in Room, Ask(c, op, r, to)
      PROVE  RoomsInv'
    <2> DEFINE new == [Rest EXCEPT !.op = op, !.room = r, !.to = to,
                         !.here = op = "filter" /\ r \in held,
                         !.at = IF op \in {"write", "filter"} THEN Tested ELSE "tool"]
    <2>1. Tested \in {"return", "read"}
        BY DEF Tested
    <2>a. (op = "filter" /\ r \in held) \in BOOLEAN
        OBVIOUS
    <2>2. new \in AskRecords(v) /\ new.at # "refuse" /\ (new.here => new.room \in held)
        BY <1>2, <2>1, <2>a DEF AskRecords, AskPlaces
    <2> HIDE DEF new
    <2> QED BY <1>1, <1>6, <2>2, OneRequestKeeps DEF Ask, new, v
<1>7. ASSUME NEW c \in Caller, TestCache(c)
      PROVE  RoomsInv'
    BY <1>1, <1>4, <1>7 DEF TestCache, Tested, AskPlaces
<1>8. ASSUME NEW c \in Caller, NEW ok \in BOOLEAN, ReadTable(c, ok)
      PROVE  RoomsInv'
    <2> DEFINE r == [ask[c] EXCEPT !.at = "store", !.got = TableLookup(ok)]
    <2>1. TableLookup(ok) \in RoomSets(v)
        BY <1>1, RoomsAssumption DEF TableLookup, RoomSets, v
    <2>2. r \in AskRecords(v) /\ r.at = "store" /\ r.here = ask[c].here /\ r.room = ask[c].room
        BY <1>1, <2>1 DEF AskRecords, AskPlaces
    <2>3. ask' = [ask EXCEPT ![c] = r]
        BY <1>8 DEF ReadTable
    <2> HIDE DEF r
    <2> QED BY <1>1, <1>8, <2>2, <2>3, OneRequestKeeps DEF ReadTable, v
<1>9. ASSUME NEW c \in Caller, StoreCache(c)
      PROVE  RoomsInv'
    <2> DEFINE r == [ask[c] EXCEPT !.at = "return", !.got = NoSet]
    <2>1. r \in AskRecords(v) /\ r.at = "return" /\ r.here = ask[c].here /\ r.room = ask[c].room
        BY <1>1, <1>2 DEF AskRecords, AskPlaces
    <2>2. ask' = [ask EXCEPT ![c] = r]
        BY <1>9 DEF StoreCache
    <2>3. ask[c].got \in RoomSets(v)
        BY <1>1 DEF AskRecords
    <2>4. canonical' = [ask[c].got EXCEPT !.excused = @ \/ ask[c].got.asOf < answered]
        BY <1>9 DEF StoreCache
    <2>a. (ask[c].got.excused \/ ask[c].got.asOf < answered) \in BOOLEAN
        BY <1>1, <2>3 DEF RoomSets
    <2>b. ask[c].got.asOf \in Int /\ answered \in Int
        BY <1>1, <2>3 DEF RoomSets
    <2>c. /\ canonical' \in RoomSets(v) /\ canonical'.asOf = ask[c].got.asOf
          /\ canonical'.excused = (ask[c].got.excused \/ ask[c].got.asOf < answered)
        BY <2>3, <2>4, <2>a DEF RoomSets
    <2>5. canonical' \in RoomSets(v) /\ (~canonical'.excused => canonical'.asOf >= answered)
        <3>1. ~canonical'.excused => ~(ask[c].got.asOf < answered)
            BY <2>c, Zenon
        <3>2. ~(ask[c].got.asOf < answered) => ask[c].got.asOf >= answered
            BY <2>b
        <3> QED BY <2>c, <3>1, <3>2, Zenon
    <2> HIDE DEF r
    <2> QED BY <1>1, <1>9, <2>1, <2>2, <2>5, OneRequestKeeps DEF StoreCache, v
<1>10. ASSUME NEW c \in Caller, ReturnCache(c)
       PROVE  RoomsInv'
    <2> DEFINE r == [ask[c] EXCEPT !.miss = TRUE, !.at = "test"]
    <2>1. /\ UNCHANGED <<table, foreign, held, canonical, present, answered>>
          /\ \/ Ends(c)
             \/ \E pc \in {"write", "again", "first"} : Goes(c, pc)
             \/ ask' = [ask EXCEPT ![c] = r]
        BY <1>10 DEF ReturnCache
    <2>2. CASE Ends(c)
        BY <1>1, <1>5, <2>1, <2>2
    <2>3. ASSUME NEW pc \in {"write", "again", "first"}, Goes(c, pc)
          PROVE  RoomsInv'
        BY <1>1, <1>4, <2>1, <2>3 DEF AskPlaces
    <2>4. CASE ask' = [ask EXCEPT ![c] = r]
        <3>1. r \in AskRecords(v) /\ r.at = "test" /\ r.here = ask[c].here /\ r.room = ask[c].room
            BY <1>1 DEF AskRecords, AskPlaces
        <3> HIDE DEF r
        <3> QED BY <1>1, <2>1, <2>4, <3>1, OneRequestKeeps DEF v
    <2> QED BY <2>1, <2>2, <2>3, <2>4
<1>11. ASSUME NEW c \in Caller, FileDrawer(c)
       PROVE  RoomsInv'
    <2>1. ask[c].room \in Room
        BY <1>1 DEF AskRecords
    <2> QED BY <1>1, <1>5, <1>11, <2>1 DEF FileDrawer
<1>12. ASSUME NEW c \in Caller, NEW ok \in BOOLEAN, FirstRead(c, ok)
       PROVE  RoomsInv'
    <2>1. present' \in [known : BOOLEAN, rooms : SUBSET Room]
        BY <1>1, <1>12 DEF FirstRead
    <2> QED BY <1>1, <1>4, <1>5, <1>12, <2>1 DEF FirstRead, AskPlaces
<1>13. ASSUME NEW c \in Caller, NEW ok \in BOOLEAN, ReadAgain(c, ok)
       PROVE  RoomsInv'
    <2> DEFINE r == [ask[c] EXCEPT !.at = "refuse", !.failed = ~ok]
    <2>1. present' \in [known : BOOLEAN, rooms : SUBSET Room]
        BY <1>1, <1>13 DEF ReadAgain
    <2>2. CASE ask[c].room \in present'.rooms
        BY <1>1, <1>5, <1>13, <2>1, <2>2 DEF ReadAgain
    <2>3. CASE ask[c].room \notin present'.rooms
        <3>1. r \in AskRecords(v) /\ r.here = ask[c].here /\ r.room = ask[c].room /\ r.failed = ~ok
            BY <1>1 DEF AskRecords, AskPlaces
        <3>2. ask' = [ask EXCEPT ![c] = r]
            BY <1>13, <2>3 DEF ReadAgain
        <3>3. ok => ask[c].room \notin held
            BY <1>13, <2>3 DEF ReadAgain
        <3>4. /\ UNCHANGED <<table, foreign, held, canonical, answered>>
            BY <1>13 DEF ReadAgain
        <3>5. r.at = "refuse" /\ ~r.failed => ~r.here
            BY <1>1, <3>1, <3>3
        <3> HIDE DEF r
        <3> QED BY <1>1, <2>1, <3>1, <3>2, <3>4, <3>5, OneRequestKeeps DEF v
    <2> QED BY <2>2, <2>3
<1>14. ASSUME NEW c \in Caller, Refuse(c)
       PROVE  RoomsInv'
    BY <1>1, <1>5, <1>14 DEF Refuse
\* the table changes: the record of c moves to "drop", the others keep theirs
<1>15. ASSUME NEW c \in Caller, NEW names \in SUBSET Room, Change(names, held), Goes(c, "drop"),
              UNCHANGED <<foreign, canonical, present, answered>>
       PROVE  RoomsInv'
    <2> DEFINE w == [ask EXCEPT ![c].at = "drop"]
    <2>1. ask \in [Caller -> AskRecords(v)]
        BY DEF RoomsInv, RoomTypes, v
    <2>2. w \in [Caller -> AskRecords(v)] /\ w[c] = [ask[c] EXCEPT !.at = "drop"]
          /\ \A x \in Caller : x # c => w[x] = ask[x]
        BY <1>3, <2>1 DEF AskPlaces
    <2>3. \A x \in Caller : /\ w[x].here => ask[x].here /\ w[x].room \in held
                            /\ w[x].at = "refuse" => ask[x].at = "refuse" /\ w[x].failed = ask[x].failed
        <3>1. w[c].here = ask[c].here /\ w[c].room = ask[c].room /\ w[c].at = "drop"
            BY <1>3, <2>2 DEF AskPlaces
        <3> QED BY <1>1, <2>2, <3>1
    <2>4. ask' = w
        BY <1>15 DEF Goes
    <2> HIDE DEF w
    <2> QED BY <1>1, <1>15, <2>2, <2>3, <2>4, TableChangeKeeps DEF v
<1>16. ASSUME NEW c \in Caller, RoomsAdd(c)
       PROVE  RoomsInv'
    <2>1. table.names \cup {ask[c].room} \in SUBSET Room
        BY <1>1 DEF AskRecords
    <2> QED BY <1>15, <1>16, <2>1 DEF RoomsAdd
<1>17. ASSUME NEW c \in Caller, RoomsRename(c)
       PROVE  RoomsInv'
    <2> DEFINE old == ask[c].room
               new == ask[c].to
               hs  == IF foreign /\ old \in held THEN (held \ {old}) \cup {new} ELSE held
               names == (table.names \ {old}) \cup {new}
               w == [Witness(hs) EXCEPT ![c].at = "drop"]
    <2>1. /\ UNCHANGED <<foreign, canonical, present, answered>>
          /\ \/ Ends(c) /\ UNCHANGED <<table, held>>
             \/ Change(names, hs) /\ ask' = w
        BY <1>17 DEF RoomsRename
    <2>2. CASE Ends(c) /\ UNCHANGED <<table, held>>
        BY <1>1, <1>5, <2>1, <2>2
    <2>3. CASE Change(names, hs) /\ ask' = w
        <3>1. old \in Room /\ new \in Room
            BY <1>1 DEF AskRecords
        <3>2. hs \in SUBSET Room /\ names \in SUBSET Room
            BY <1>1, <3>1
        <3> HIDE DEF hs, names
        <3>3. \A x \in Caller :
                LET r == [ask[x] EXCEPT !.here = @ /\ ask[x].room \in hs] IN
                /\ r \in AskRecords(v) /\ r.here = (ask[x].here /\ ask[x].room \in hs)
                /\ r.room = ask[x].room /\ r.at = ask[x].at /\ r.failed = ask[x].failed
            BY <1>1 DEF AskRecords
        <3>4. \A x \in Caller : /\ Witness(hs)[x] \in AskRecords(v)
                                /\ Witness(hs)[x].here = (ask[x].here /\ ask[x].room \in hs)
                                /\ Witness(hs)[x].room = ask[x].room /\ Witness(hs)[x].at = ask[x].at
                                /\ Witness(hs)[x].failed = ask[x].failed
            BY <3>3 DEF Witness
        <3>5. w = [x \in Caller |-> IF x = c THEN [Witness(hs)[x] EXCEPT !.at = "drop"] ELSE Witness(hs)[x]]
            BY DEF Witness
        <3>6. \A x \in Caller : /\ w[x] \in AskRecords(v)
                                /\ w[x].here = (ask[x].here /\ ask[x].room \in hs) /\ w[x].room = ask[x].room
                                /\ x # c => w[x] = Witness(hs)[x]
                                /\ x = c => w[x].at = "drop"
            BY <3>4, <3>5 DEF AskRecords, AskPlaces
        <3>7. w \in [Caller -> AskRecords(v)]
            BY <3>5, <3>6
        <3> HIDE DEF w
        <3>8. \A x \in Caller : /\ w[x].here => ask[x].here /\ w[x].room \in hs
                                /\ w[x].at = "refuse" => ask[x].at = "refuse" /\ w[x].failed = ask[x].failed
            BY <3>4, <3>6
        <3> QED BY <1>1, <2>1, <2>3, <3>2, <3>7, <3>8, TableChangeKeeps DEF v
    <2> QED BY <2>1, <2>2, <2>3
<1>18. ASSUME NEW c \in Caller, RoomsCount(c)
       PROVE  RoomsInv'
    BY <1>1, <1>4, <1>5, <1>18 DEF RoomsCount, AskPlaces
<1>19. ASSUME NEW c \in Caller, RoomsDelete(c)
       PROVE  RoomsInv'
    <2>1. table.names \ {ask[c].room} \in SUBSET Room
        BY <1>1
    <2> QED BY <1>1, <1>5, <1>15, <1>19, <2>1 DEF RoomsDelete
<1>20. ASSUME NEW c \in Caller, DropCache(c)
       PROVE  RoomsInv'
    <2>1. /\ canonical' = NoSet /\ answered' = v /\ ask' = [ask EXCEPT ![c] = Rest]
          /\ UNCHANGED <<table, foreign, held, present>>
        BY <1>20 DEF DropCache, Ends, v
    <2>2. ask \in [Caller -> AskRecords(v)]
        BY DEF RoomsInv, RoomTypes, v
    <2>3. ask' \in [Caller -> AskRecords(v)] /\ ask'[c] = Rest /\ \A x \in Caller : x # c => ask'[x] = ask[x]
        BY <1>2, <2>1, <2>2
    <2>4. RoomTypes'
        BY <1>1, <1>2, <2>1, <2>3 DEF RoomsInv, RoomTypes, v
    <2>5. HereIsHeld' /\ RefusedOnlyIfAbsent'
        BY <1>1, <1>2, <2>1, <2>3 DEF HereIsHeld, RefusedOnlyIfAbsent
    <2>6. CanonicalSeesReports'
        BY <1>2, <2>1 DEF CanonicalSeesReports
    <2> QED BY <2>4, <2>5, <2>6 DEF RoomsInv
<1>21. ASSUME NEW c \in Caller, RefreshRooms(c)
       PROVE  RoomsInv'
    BY <1>1, <1>2, <1>4, <1>21 DEF RefreshRooms, AskPlaces
<1>22. ASSUME NEW r \in Room, MinerFiles(r)
       PROVE  RoomsInv'
    <2>1. held' = held \cup {r} /\ UNCHANGED <<table, foreign, canonical, present, answered, ask>>
        BY <1>22 DEF MinerFiles
    <2> QED
        BY <1>1, <2>1 DEF RoomsInv, RoomTypes, HereIsHeld, RefusedOnlyIfAbsent, CanonicalSeesReports
<1>23. ASSUME NEW r \in Room, DrawersGo(r)
       PROVE  RoomsInv'
    <2> DEFINE hs == held \ {r}
    <2>1. /\ held' = hs /\ ask' = Witness(hs) /\ UNCHANGED <<table, foreign, canonical, present, answered>>
        BY <1>23 DEF DrawersGo
    <2> HIDE DEF hs
    <2>2. \A x \in Caller :
            LET q == [ask[x] EXCEPT !.here = @ /\ ask[x].room \in hs] IN
            /\ q \in AskRecords(v) /\ q.here = (ask[x].here /\ ask[x].room \in hs)
            /\ q.room = ask[x].room /\ q.at = ask[x].at /\ q.failed = ask[x].failed
        BY <1>1 DEF AskRecords
    <2>3. Witness(hs) \in [Caller -> AskRecords(v)]
        BY <2>2 DEF Witness
    <2>4. \A x \in Caller : /\ ask'[x].here = (ask[x].here /\ ask[x].room \in hs)
                            /\ ask'[x].room = ask[x].room /\ ask'[x].at = ask[x].at
                            /\ ask'[x].failed = ask[x].failed
        BY <2>1, <2>2 DEF Witness
    <2>5. hs \in SUBSET Room
        BY <1>1 DEF hs
    <2>6. RoomTypes'
        BY <2>1, <2>3, <2>5 DEF RoomsInv, RoomTypes, v
    <2>7. HereIsHeld' /\ RefusedOnlyIfAbsent'
        BY <1>1, <2>1, <2>4 DEF HereIsHeld, RefusedOnlyIfAbsent
    <2>8. CanonicalSeesReports'
        BY <1>1, <2>1 DEF CanonicalSeesReports
    <2> QED BY <2>6, <2>7, <2>8 DEF RoomsInv
<1>24. ASSUME NEW r \in Room, CliAdds(r)
       PROVE  RoomsInv'
    <2> DEFINE names == table.names \cup {r}
    <2>1. names \in SUBSET Room
        BY <1>1
    <2>2. Change(names, held) /\ UNCHANGED <<foreign, canonical, present, answered, ask>>
        BY <1>24 DEF CliAdds
    <2>3. ask \in [Caller -> AskRecords(v)]
        BY DEF RoomsInv, RoomTypes, v
    <2>4. \A x \in Caller : ask[x].here => ask[x].room \in held
        BY <1>1
    <2>5. \A x \in Caller : /\ ask'[x].here => ask[x].here /\ ask'[x].room \in held
                            /\ ask'[x].at = "refuse" => ask[x].at = "refuse" /\ ask'[x].failed = ask[x].failed
        BY <2>2, <2>4
    <2>6. ask' \in [Caller -> AskRecords(v)]
        BY <2>2, <2>3
    <2> HIDE DEF names
    <2> QED BY <1>1, <2>1, <2>2, <2>5, <2>6, TableChangeKeeps DEF v
<1>25. CASE UNCHANGED roomsVars
    BY <1>25 DEF roomsVars, RoomsInv, RoomTypes, HereIsHeld, RefusedOnlyIfAbsent, CanonicalSeesReports
<1>26. CASE RoomsNext
    BY <1>6, <1>7, <1>8, <1>9, <1>10, <1>11, <1>12, <1>13, <1>14, <1>16, <1>17, <1>18, <1>19, <1>20,
       <1>21, <1>22, <1>23, <1>24, <1>26 DEF RoomsNext, CanonicalRooms, RoomFilter, RoomTool
<1> QED
    BY <1>25, <1>26

\* rooms.py and the rooms tools, any rooms and callers: a filter is refused only
\* for a room that was empty at some moment of the request, and the cached set
\* has seen every change a tool has reported, but for the exceptions stated.
THEOREM RoomsCorrectHolds == RoomsSpec => []RoomsCorrect
<1>1. RoomsInit => RoomsInv
    <2> SUFFICES ASSUME RoomsInit PROVE RoomsInv
        OBVIOUS
    <2>1. /\ table = [names |-> DefaultRoom, version |-> 0] /\ foreign \in BOOLEAN /\ held = {}
          /\ canonical = NoSet /\ present = Unknown /\ answered = 0 /\ ask = [c \in Caller |-> Rest]
        BY DEF RoomsInit
    <2>2. NoSet \in RoomSets(0) /\ Rest \in AskRecords(0) /\ Rest.at = "idle" /\ Rest.here = FALSE
          /\ Unknown \in [known : BOOLEAN, rooms : SUBSET Room] /\ NoSet.known = FALSE
        BY RoomConstants DEF NoSet
    <2>3. table.version = 0 /\ 0 \in 0..MaxChanges /\ 0 \in 0..0
        BY <2>1, RoomsAssumption
    <2>4. RoomTypes
        BY <2>1, <2>2, <2>3, RoomsAssumption DEF RoomTypes
    <2> QED BY <2>1, <2>2, <2>4 DEF RoomsInv, HereIsHeld, RefusedOnlyIfAbsent, CanonicalSeesReports
<1>2. RoomsInv => RoomsCorrect
    <2> SUFFICES ASSUME RoomsInv PROVE RoomsCorrect
        OBVIOUS
    <2>1. 0..table.version \subseteq 0..MaxChanges
        BY RoomsAssumption DEF RoomsInv, RoomTypes
    <2>2. canonical.rooms \subseteq Room /\ present.rooms \subseteq Room
        BY DEF RoomsInv, RoomTypes, RoomSets
    <2>3. \A c \in Caller : ask[c].op \in Asks \cup {"none"} /\ ask[c].room \in Room
        BY DEF RoomsInv, RoomTypes, AskRecords
    <2>4. RoomsTypeOK
        BY <2>1, <2>2, <2>3 DEF RoomsInv, RoomTypes, RoomsTypeOK
    <2> QED BY <2>4 DEF RoomsInv, RoomsCorrect
<1> QED
    BY <1>1, <1>2, RoomsStep, PTL DEF RoomsSpec

-----------------------------------------------------------------------------
(* The caches.                                                             *)

Versions == 0..MaxDb \cup {Nothing}

\* The stored entries and the lookups, with no time beyond the clock's t.
Cells(t) == [val : Versions, at : 0..t, stored : 0..t, read : 0..t, late : BOOLEAN]

LookPlaces == {"idle", "time", "value", "lock", "load", "store", "date", "answer"}

LookRecords(t) ==
    [at : LookPlaces, path : SourcePath, now : 0..t, read : 0..t, val : Versions,
     stored : 0..t, hit : BOOLEAN]

CacheTypes ==
    /\ which \in {"kg", "chunks", "source", "ready"}
    /\ clk \in 0..MaxClock /\ db \in 0..MaxDb /\ settled \in [SourcePath -> 0..MaxDb]
    /\ cell \in [SourcePath -> Cells(clk)]
    /\ look \in [Lookups -> LookRecords(clk)]
    /\ busy \in SUBSET Lookups

\* An entry is not dated later than it was stored, and that of a source not
\* later than it was read.
GoodCell(x) == x.at <= x.stored /\ (which = "source" => x.at <= x.read)

\* What a lookup knows where it is.  One that has seen a time within the limit
\* and has yet to take the value will find a value stored within it.
GoodLook(r, f) ==
    /\ r.path \in PathsOf(which)
    /\ r.at = "value" /\ f[r.path].val # Nothing => r.now < f[r.path].stored + Ttl
    /\ r.at = "answer" => r.now < r.stored + Ttl /\ (which = "source" => r.now < r.read + Ttl)
    /\ r.at = "store" => r.now <= r.read
    /\ r.at = "lock" => Locked(which)
    /\ r.at \in {"time", "value", "date"} => Torn(which)

\* The lock has one holder, the lookup that loads or stores; nothing was fresh
\* when it got it, and nothing was stored since.
LoadPlaces == {"load", "store", "date"}
LockBooks ==
    /\ ~Locked(which) => busy = {}
    /\ \A l \in busy : look[l].at \in LoadPlaces
    /\ \A l \in Lookups : Locked(which) /\ look[l].at \in LoadPlaces => busy = {l}
    /\ LoadOnlyWhenExpired

CachesInv ==
    /\ CacheTypes
    /\ \A p \in SourcePath : GoodCell(cell[p])
    /\ \A l \in Lookups : GoodLook(look[l], cell)
    /\ LockBooks
    /\ SourceSeesMines

\* An empty entry and a lookup at rest are of their types and good.
LEMMA CacheConstants ==
    ASSUME NEW t \in Nat
    PROVE  /\ Empty \in Cells(t) /\ GoodCell(Empty) /\ Empty.val = Nothing
           /\ Gone \in LookRecords(t) /\ Gone.at = "idle" /\ \A f : GoodLook(Gone, f)
           /\ \A p \in PathsOf(which) : p \in SourcePath
<1>1. OnePath \in SourcePath
    BY CachesAssumption DEF OnePath
<1>2. Empty \in Cells(t) /\ GoodCell(Empty) /\ Empty.val = Nothing
    BY DEF Empty, Cells, Versions, GoodCell
<1>3. Gone \in LookRecords(t) /\ Gone.at = "idle" /\ Gone.path = OnePath
    BY <1>1 DEF Gone, LookRecords, LookPlaces, Versions
<1>4. OnePath \in PathsOf(which) /\ \A p \in PathsOf(which) : p \in SourcePath
    BY <1>1 DEF PathsOf
<1> QED
    BY <1>2, <1>3, <1>4 DEF GoodLook

\* What a lookup knows survives what other lookups do to the entries: an entry
\* stays, is dropped, or is stored now.
LEMMA GoodLookSurvives ==
    ASSUME CacheTypes, NEW r \in LookRecords(clk), NEW f \in [SourcePath -> Cells(clk)],
           NEW g \in [SourcePath -> Cells(clk)],
           \A p \in SourcePath : (g[p].stored = f[p].stored /\ g[p].val = f[p].val)
                                 \/ g[p].val = Nothing \/ g[p].stored = clk,
           GoodLook(r, f)
    PROVE  GoodLook(r, g)
<1>1. r.path \in SourcePath /\ r.now \in 0..clk /\ clk \in Nat /\ Ttl \in Nat \ {0}
    BY CachesAssumption DEF LookRecords, CacheTypes
<1>2. r.now < clk + Ttl
    BY <1>1
<1> QED
    BY <1>1, <1>2 DEF GoodLook

\* A step of one lookup that leaves the entries and the lock alone.
LEMMA OneLookupKeeps ==
    ASSUME CachesInv, NEW l \in Lookups, NEW r \in LookRecords(clk), GoodLook(r, cell),
           look' = [look EXCEPT ![l] = r],
           r.at \in LoadPlaces => ~Locked(which) \/ (look[l].at \in LoadPlaces /\ r.at # "load"),
           look[l].at \in LoadPlaces => ~Locked(which) \/ r.at \in LoadPlaces,
           UNCHANGED <<which, cell, busy, clk, db, settled>>
    PROVE  CachesInv'
<1>1. look' \in [Lookups -> LookRecords(clk)] /\ look'[l] = r
      /\ \A x \in Lookups : x # l => look'[x] = look[x]
    BY DEF CachesInv, CacheTypes
<1>2. CacheTypes'
    BY <1>1 DEF CachesInv, CacheTypes
<1>3. \A x \in Lookups : GoodLook(look'[x], cell)
    BY <1>1 DEF CachesInv
<1>4. LockBooks'
    <2>1. \A x \in busy : look'[x].at \in LoadPlaces
        BY <1>1 DEF CachesInv, LockBooks, CacheTypes
    <2>2. \A x \in Lookups : Locked(which) /\ look'[x].at \in LoadPlaces => busy = {x}
        BY <1>1 DEF CachesInv, LockBooks
    <2>3. \A x \in Lookups : Locked(which) /\ look'[x].at = "load" =>
             busy = {x} /\ ~FreshAt(look'[x].path, look'[x].now)
        BY <1>1 DEF CachesInv, LockBooks, LoadOnlyWhenExpired, LoadPlaces
    <2> QED BY <2>1, <2>2, <2>3 DEF CachesInv, LockBooks, LoadOnlyWhenExpired, FreshAt
<1> QED
    BY <1>2, <1>3, <1>4 DEF CachesInv, SourceSeesMines, GoodLook, GoodCell

\* A lookup that loads or stores ends: it leaves good entries and the lock.
LEMMA EndOfLoadKeeps ==
    ASSUME CachesInv, NEW l \in Lookups, look[l].at \in LoadPlaces,
           look' = [look EXCEPT ![l] = Gone], busy' = IF Locked(which) THEN {} ELSE busy,
           NEW g \in [SourcePath -> Cells(clk)], cell' = g,
           \A p \in SourcePath :
              /\ GoodCell(g[p])
              /\ (g[p].stored = cell[p].stored /\ g[p].val = cell[p].val)
                 \/ g[p].val = Nothing \/ g[p].stored = clk
              /\ g[p].val # Nothing /\ ~g[p].late => g[p].val >= settled[p],
           UNCHANGED <<which, clk, db, settled>>
    PROVE  CachesInv'
<1>1. clk \in Nat
    BY CachesAssumption DEF CachesInv, CacheTypes
<1>2. Gone \in LookRecords(clk) /\ Gone.at = "idle" /\ GoodLook(Gone, g)
    BY <1>1, CacheConstants
<1>3. look' \in [Lookups -> LookRecords(clk)] /\ look'[l] = Gone
      /\ \A x \in Lookups : x # l => look'[x] = look[x]
    BY <1>2 DEF CachesInv, CacheTypes
<1>4. CacheTypes'
    BY <1>3 DEF CachesInv, CacheTypes
<1>5. \A x \in Lookups : GoodLook(look[x], g)
    <2> SUFFICES ASSUME NEW x \in Lookups PROVE GoodLook(look[x], g)
        OBVIOUS
    <2>1. look[x] \in LookRecords(clk) /\ GoodLook(look[x], cell) /\ CacheTypes
          /\ cell \in [SourcePath -> Cells(clk)]
        BY DEF CachesInv, CacheTypes
    <2> QED BY <2>1, GoodLookSurvives
<1>6. \A x \in Lookups : GoodLook(look'[x], g)
    BY <1>2, <1>3, <1>5
<1>7. LockBooks'
    <2>1. Locked(which) => \A x \in Lookups : look'[x].at \notin LoadPlaces
        BY <1>2, <1>3 DEF CachesInv, LockBooks, LoadPlaces
    <2>2. busy' = {}
        BY DEF CachesInv, LockBooks
    <2>3. LoadOnlyWhenExpired'
        BY <2>1 DEF LoadOnlyWhenExpired, LoadPlaces
    <2> QED BY <2>1, <2>2, <2>3 DEF LockBooks
<1>8. \A p \in SourcePath : GoodCell(cell[p])'
    BY DEF GoodCell
<1>9. SourceSeesMines'
    BY DEF SourceSeesMines
<1> QED
    BY <1>4, <1>6, <1>7, <1>8, <1>9 DEF CachesInv, GoodLook

\* One case for each action of the caches.
LEMMA CachesStep == CachesInv /\ [CachesNext]_cachesVars => CachesInv'
<1> SUFFICES ASSUME CachesInv, [CachesNext]_cachesVars PROVE CachesInv'
    OBVIOUS
<1>1. /\ CacheTypes /\ clk \in Nat /\ clk \in 0..clk /\ 0 \in 0..clk /\ Ttl \in Nat \ {0}
      /\ \A p \in SourcePath : cell[p] \in Cells(clk) /\ GoodCell(cell[p])
      /\ \A l \in Lookups : look[l] \in LookRecords(clk) /\ GoodLook(look[l], cell)
    BY CachesAssumption DEF CachesInv, CacheTypes
<1>2. \A p \in PathsOf(which), now \in 0..clk, pc \in LookPlaces :
        /\ At(p, now, pc) \in LookRecords(clk) /\ At(p, now, pc).at = pc
        /\ At(p, now, pc).path = p /\ At(p, now, pc).now = now
    BY <1>1, CacheConstants DEF At, LookRecords, Gone
<1>3. \A p \in PathsOf(which), now \in 0..clk : now < cell[p].stored + Ttl /\ (which = "source" => now < cell[p].read + Ttl) =>
        Served(p, now) \in LookRecords(clk) /\ GoodLook(Served(p, now), cell) /\ Served(p, now).at = "answer"
    <2> SUFFICES ASSUME NEW p \in PathsOf(which), NEW now \in 0..clk, now < cell[p].stored + Ttl,
                        which = "source" => now < cell[p].read + Ttl
                 PROVE  Served(p, now) \in LookRecords(clk) /\ GoodLook(Served(p, now), cell)
                        /\ Served(p, now).at = "answer"
        OBVIOUS
    <2>1. At(p, now, "answer") \in LookRecords(clk) /\ At(p, now, "answer").at = "answer"
          /\ At(p, now, "answer").path = p /\ At(p, now, "answer").now = now
        BY <1>2 DEF LookPlaces
    <2>2. cell[p] \in Cells(clk)
        BY <1>1, CacheConstants
    <2>3. /\ Served(p, now) \in LookRecords(clk) /\ Served(p, now).at = "answer"
          /\ Served(p, now).path = p /\ Served(p, now).now = now
          /\ Served(p, now).stored = cell[p].stored /\ Served(p, now).read = cell[p].read
        BY <2>1, <2>2 DEF Served, LookRecords, Cells
    <2> QED BY <2>3 DEF GoodLook
<1>4. \A p \in PathsOf(which), now \in 0..clk : now < cell[p].at + Ttl =>
        now < cell[p].stored + Ttl /\ (which = "source" => now < cell[p].read + Ttl)
    <2> SUFFICES ASSUME NEW p \in PathsOf(which), NEW now \in 0..clk, now < cell[p].at + Ttl
                 PROVE  now < cell[p].stored + Ttl /\ (which = "source" => now < cell[p].read + Ttl)
        OBVIOUS
    <2>1. cell[p] \in Cells(clk) /\ GoodCell(cell[p])
        BY <1>1, CacheConstants
    <2>2. cell[p].at \in Nat /\ cell[p].stored \in Nat /\ cell[p].read \in Nat
        BY <1>1, <2>1 DEF Cells
    <2> QED BY <1>1, <2>1, <2>2 DEF GoodCell
<1>5. ASSUME NEW l \in Lookups, NEW p \in SourcePath, Begin(l, p)
      PROVE  CachesInv'
    <2> DEFINE r == CASE Torn(which) /\ cell[p].val # Nothing -> At(p, clk, "time")
                      [] ~Torn(which) /\ FreshAt(p, clk) -> Served(p, clk)
                      [] OTHER -> At(p, clk, IF Locked(which) THEN "lock" ELSE "load")
    <2>1. /\ look[l] = Gone /\ p \in PathsOf(which) /\ look' = [look EXCEPT ![l] = r]
          /\ UNCHANGED <<which, cell, busy, clk, db, settled>>
        BY <1>5 DEF Begin
    <2>2. look[l].at = "idle"
        BY <2>1 DEF Gone
    <2>3. CASE Torn(which) /\ cell[p].val # Nothing
        <3>1. r = At(p, clk, "time")
            BY <2>3
        <3>2. r \in LookRecords(clk) /\ r.at = "time" /\ GoodLook(r, cell)
            BY <1>1, <1>2, <2>1, <2>3, <3>1 DEF GoodLook, LookPlaces
        <3> HIDE DEF r
        <3> QED BY <2>1, <2>2, <3>2, OneLookupKeeps DEF LoadPlaces
    <2>4. CASE ~Torn(which) /\ FreshAt(p, clk)
        <3>1. r = Served(p, clk)
            BY <2>4
        <3>2. r \in LookRecords(clk) /\ r.at = "answer" /\ GoodLook(r, cell)
            BY <1>1, <1>3, <1>4, <2>1, <2>4, <3>1 DEF FreshAt
        <3> HIDE DEF r
        <3> QED BY <2>1, <2>2, <3>2, OneLookupKeeps DEF LoadPlaces
    <2>5. CASE ~(Torn(which) /\ cell[p].val # Nothing) /\ ~(~Torn(which) /\ FreshAt(p, clk))
        <3>1. r = At(p, clk, IF Locked(which) THEN "lock" ELSE "load")
            BY <2>5
        <3>2. r \in LookRecords(clk) /\ r.at = (IF Locked(which) THEN "lock" ELSE "load") /\ GoodLook(r, cell)
            BY <1>1, <1>2, <2>1, <3>1 DEF GoodLook, LookPlaces
        <3> HIDE DEF r
        <3> QED BY <2>1, <2>2, <3>2, OneLookupKeeps DEF LoadPlaces
    <2> QED BY <2>3, <2>4, <2>5
<1>6. ASSUME NEW l \in Lookups, TestTime(l)
      PROVE  CachesInv'
    <2> DEFINE now == IF which = "chunks" THEN clk ELSE look[l].now
               p == look[l].path
               pc == CASE now < cell[p].at + Ttl -> "value"
                       [] Locked(which) -> "lock"
                       [] OTHER -> "load"
    <2>1. /\ look[l].at = "time" /\ look' = [look EXCEPT ![l] = At(p, now, pc)]
          /\ UNCHANGED <<which, cell, busy, clk, db, settled>>
        BY <1>6 DEF TestTime
    <2>2. now \in 0..clk /\ p \in PathsOf(which) /\ Torn(which)
        BY <1>1, <2>1 DEF LookRecords, GoodLook
    <2>3. pc \in {"value", "lock", "load"} /\ (pc = "value" => now < cell[p].at + Ttl)
          /\ (pc = "lock" => Locked(which)) /\ (pc = "load" => ~Locked(which))
        OBVIOUS
    <2> HIDE DEF now, p, pc
    <2> DEFINE r == At(p, now, pc)
    <2>4. r \in LookRecords(clk) /\ r.at = pc /\ r.path = p /\ r.now = now
        BY <1>2, <2>2, <2>3 DEF LookPlaces
    <2>5. GoodLook(r, cell)
        BY <1>4, <2>2, <2>3, <2>4 DEF GoodLook
    <2> HIDE DEF r
    <2> QED BY <2>1, <2>3, <2>4, <2>5, OneLookupKeeps DEF LoadPlaces, r
<1>7. ASSUME NEW l \in Lookups, TakeValue(l)
      PROVE  CachesInv'
    <2> DEFINE r == IF cell[look[l].path].val = Nothing THEN Gone ELSE Served(look[l].path, look[l].now)
    <2>1. /\ look[l].at = "value" /\ look' = [look EXCEPT ![l] = r]
          /\ UNCHANGED <<which, cell, busy, clk, db, settled>>
        BY <1>7 DEF TakeValue
    <2>2. look[l].now \in 0..clk /\ look[l].path \in PathsOf(which) /\ which # "source"
        BY <1>1, <2>1 DEF LookRecords, GoodLook, Torn
    <2>3. r \in LookRecords(clk) /\ GoodLook(r, cell) /\ r.at \in {"idle", "answer"}
        BY <1>1, <1>3, <2>1, <2>2, CacheConstants DEF GoodLook
    <2> HIDE DEF r
    <2> QED BY <2>1, <2>3, OneLookupKeeps DEF LoadPlaces
<1>8. ASSUME NEW l \in Lookups, TakeLock(l)
      PROVE  CachesInv'
    <2> DEFINE p == look[l].path
               fresh == FreshAt(p, clk)
               r == IF fresh THEN Served(p, clk) ELSE At(p, clk, "load")
    <2>1. /\ look[l].at = "lock" /\ busy = {} /\ busy' = (IF fresh THEN {} ELSE {l})
          /\ look' = [look EXCEPT ![l] = r] /\ UNCHANGED <<which, cell, clk, db, settled>>
        BY <1>8 DEF TakeLock
    <2>2. p \in PathsOf(which) /\ Locked(which)
        BY <1>1, <2>1 DEF GoodLook
    <2>3. CASE fresh
        <3>1. r = Served(p, clk) /\ busy' = busy
            BY <2>1, <2>3
        <3>2. r \in LookRecords(clk) /\ r.at = "answer" /\ GoodLook(r, cell)
            BY <1>1, <1>3, <1>4, <2>2, <2>3, <3>1 DEF FreshAt
        <3> HIDE DEF r, fresh
        <3> QED BY <2>1, <3>1, <3>2, OneLookupKeeps DEF LoadPlaces
    <2>4. CASE ~fresh
        <3>1. r = At(p, clk, "load") /\ busy' = {l}
            BY <2>1, <2>4
        <3>2. r \in LookRecords(clk) /\ r.at = "load" /\ r.path = p /\ r.now = clk /\ GoodLook(r, cell)
            BY <1>1, <1>2, <2>2, <3>1 DEF GoodLook, LookPlaces
        <3> HIDE DEF r
        <3>3. look' \in [Lookups -> LookRecords(clk)] /\ look'[l] = r
              /\ \A x \in Lookups : x # l => look'[x] = look[x]
            BY <1>1, <2>1, <3>2 DEF CacheTypes
        <3>4. CacheTypes'
            BY <1>1, <2>1, <3>1, <3>3 DEF CacheTypes
        <3>5. \A x \in Lookups : x # l => look[x].at \notin LoadPlaces
            BY <2>1, <2>2 DEF CachesInv, LockBooks
        <3>6. LoadOnlyWhenExpired'
            <4>1. \A x \in Lookups : look'[x].at = "load" => x = l
                BY <3>3, <3>5 DEF LoadPlaces
            <4>2. ~FreshAt(look'[l].path, look'[l].now)
                BY <2>4, <3>2, <3>3
            <4>3. ~FreshAt(look[l].path, look[l].now)'
                BY <2>1, <4>2 DEF FreshAt
            <4> QED BY <3>1, <4>1, <4>3 DEF LoadOnlyWhenExpired
        <3>7. LockBooks'
            BY <2>1, <2>2, <3>1, <3>2, <3>3, <3>5, <3>6 DEF LockBooks, LoadPlaces
        <3>8. \A x \in Lookups : GoodLook(look'[x], cell)
            BY <1>1, <3>2, <3>3
        <3> QED BY <2>1, <3>4, <3>7, <3>8 DEF CachesInv, GoodLook, GoodCell, SourceSeesMines
    <2> QED BY <2>3, <2>4
<1>9. ASSUME NEW l \in Lookups, Load(l)
      PROVE  CachesInv'
    <2> DEFINE r == [look[l] EXCEPT !.at = "store", !.val = db, !.read = clk]
    <2>1. /\ look[l].at = "load" /\ look' = [look EXCEPT ![l] = r]
          /\ UNCHANGED <<which, cell, busy, clk, db, settled>>
        BY <1>9 DEF Load
    <2>2. db \in Versions
        BY <1>1 DEF CacheTypes, Versions
    <2>3. r \in LookRecords(clk) /\ r.at = "store" /\ r.path = look[l].path /\ r.now = look[l].now /\ r.read = clk
        BY <1>1, <2>2 DEF LookRecords, LookPlaces
    <2>4. r.now <= r.read
        BY <1>1, <2>3 DEF LookRecords
    <2>5. GoodLook(r, cell)
        BY <1>1, <2>3, <2>4 DEF GoodLook
    <2> HIDE DEF r
    <2> QED BY <2>1, <2>3, <2>5, OneLookupKeeps DEF LoadPlaces
<1>10. \A p \in SourcePath : cell[p].val # Nothing /\ ~cell[p].late => cell[p].val >= settled[p]
    BY DEF CachesInv, SourceSeesMines
<1>11. ASSUME NEW l \in Lookups, LoadFails(l)
       PROVE  CachesInv'
    <2> DEFINE g == IF which = "kg" THEN [cell EXCEPT ![look[l].path] = Empty] ELSE cell
    <2>1. /\ look[l].at = "load" /\ cell' = g /\ busy' = (IF Locked(which) THEN {} ELSE busy)
          /\ look' = [look EXCEPT ![l] = Gone] /\ UNCHANGED <<which, clk, db, settled>>
        BY <1>11 DEF LoadFails
    <2>2. cell \in [SourcePath -> Cells(clk)] /\ Empty \in Cells(clk) /\ GoodCell(Empty) /\ Empty.val = Nothing
        BY <1>1, CacheConstants DEF CacheTypes
    <2>3. g \in [SourcePath -> Cells(clk)] /\ \A p \in SourcePath : g[p] = cell[p] \/ g[p] = Empty
        BY <2>2
    <2>4. \A p \in SourcePath :
              /\ GoodCell(g[p])
              /\ (g[p].stored = cell[p].stored /\ g[p].val = cell[p].val)
                 \/ g[p].val = Nothing \/ g[p].stored = clk
              /\ g[p].val # Nothing /\ ~g[p].late => g[p].val >= settled[p]
        BY <1>1, <1>10, <2>2, <2>3
    <2> HIDE DEF g
    <2> QED BY <2>1, <2>3, <2>4, EndOfLoadKeeps DEF LoadPlaces
\* what a lookup stores, under a time no later than the clock
<1>12. ASSUME NEW l \in Lookups, NEW t \in 0..clk
       PROVE  LET e == Entry(l, t) IN
              /\ e \in Cells(clk) /\ e.at = t /\ e.stored = clk /\ e.read = look[l].read
              /\ ~e.late => e.val >= settled[look[l].path] \/ e.val = Nothing
    <2> DEFINE e == Entry(l, t)
               v == look[l].val
               s == settled[look[l].path]
    <2>1. v \in Versions /\ look[l].read \in 0..clk /\ s \in 0..MaxDb
        BY <1>1 DEF LookRecords, CacheTypes
    <2>2. v \in Int /\ s \in Int
        BY <2>1, CachesAssumption DEF Versions, Nothing
    <2>3. (v < s) \in BOOLEAN
        BY <2>2
    <2>4. e \in Cells(clk) /\ e.at = t /\ e.stored = clk /\ e.read = look[l].read /\ e.val = v /\ e.late = (v < s)
        BY <1>1, <2>1, <2>3 DEF Entry, Cells
    <2>5. ~(v < s) => v >= s
        BY <2>2
    <2> HIDE DEF e, v, s
    <2>6. ~e.late => e.val >= s
        BY <2>4, <2>5, Zenon
    <2> QED BY <2>4, <2>6 DEF e, s
<1>13. ASSUME NEW l \in Lookups, StoreBoth(l)
       PROVE  CachesInv'
    <2> DEFINE t == IF TimedByCaller(which) THEN look[l].now ELSE clk
               e == Entry(l, t)
    <2>1. PICK old \in SUBSET Evicted(look[l].path) :
            cell' = [p \in SourcePath |-> IF p = look[l].path THEN e ELSE IF p \in old THEN Empty ELSE cell[p]]
        BY <1>13 DEF StoreBoth
    <2>2. /\ look[l].at = "store" /\ ~Torn(which) /\ busy' = (IF Locked(which) THEN {} ELSE busy)
          /\ look' = [look EXCEPT ![l] = Gone] /\ UNCHANGED <<which, clk, db, settled>>
        BY <1>13 DEF StoreBoth
    <2>3. t \in 0..clk /\ (which = "source" => t <= look[l].read) /\ look[l].path \in SourcePath
        BY <1>1, <2>2 DEF LookRecords, GoodLook, TimedByCaller
    <2> HIDE DEF t
    <2>4. /\ e \in Cells(clk) /\ e.at = t /\ e.stored = clk /\ e.read = look[l].read
          /\ ~e.late => e.val >= settled[look[l].path] \/ e.val = Nothing
        BY <1>12, <2>3
    <2> HIDE DEF e
    <2>5. GoodCell(e)
        BY <1>1, <2>3, <2>4 DEF GoodCell
    <2> DEFINE g == [p \in SourcePath |-> IF p = look[l].path THEN e ELSE IF p \in old THEN Empty ELSE cell[p]]
    <2>6. Empty \in Cells(clk) /\ GoodCell(Empty) /\ Empty.val = Nothing
        BY <1>1, CacheConstants
    <2>7. /\ g \in [SourcePath -> Cells(clk)] /\ g[look[l].path] = e
          /\ \A p \in SourcePath : p # look[l].path => g[p] = cell[p] \/ g[p] = Empty
        BY <1>1, <2>3, <2>4, <2>6
    <2> HIDE DEF g
    <2>8. \A p \in SourcePath :
              /\ GoodCell(g[p])
              /\ (g[p].stored = cell[p].stored /\ g[p].val = cell[p].val)
                 \/ g[p].val = Nothing \/ g[p].stored = clk
              /\ g[p].val # Nothing /\ ~g[p].late => g[p].val >= settled[p]
        BY <1>1, <1>10, <2>4, <2>5, <2>6, <2>7
    <2>9. cell' = g
        BY <2>1 DEF g
    <2> QED BY <2>2, <2>7, <2>8, <2>9, EndOfLoadKeeps DEF LoadPlaces
<1>14. ASSUME NEW l \in Lookups, StoreValue(l)
       PROVE  CachesInv'
    <2> DEFINE p == look[l].path
               e == Entry(l, cell[p].at)
               g == [cell EXCEPT ![p] = e]
               r == [look[l] EXCEPT !.at = "date"]
    <2>1. /\ look[l].at = "store" /\ Torn(which) /\ cell' = g /\ look' = [look EXCEPT ![l] = r]
          /\ UNCHANGED <<which, busy, clk, db, settled>>
        BY <1>14 DEF StoreValue, Moves
    <2>2. p \in SourcePath /\ p \in PathsOf(which)
        BY <1>1 DEF LookRecords, GoodLook
    <2>3. cell[p].at \in 0..clk
        BY <1>1, <2>2 DEF Cells
    <2>4. /\ e \in Cells(clk) /\ e.at = cell[p].at /\ e.stored = clk
          /\ ~e.late => e.val >= settled[p] \/ e.val = Nothing
        BY <1>12, <2>3
    <2>5. r \in LookRecords(clk) /\ r.at = "date" /\ r.path = p
        BY <1>1 DEF LookRecords, LookPlaces
    <2> HIDE DEF e, r
    <2>6. GoodCell(e) /\ which # "source"
        BY <1>1, <2>1, <2>3, <2>4 DEF GoodCell, Torn
    <2>7. g \in [SourcePath -> Cells(clk)] /\ g[p] = e /\ \A x \in SourcePath : x # p => g[x] = cell[x]
        BY <1>1, <2>2, <2>4 DEF CacheTypes
    <2>8. look' \in [Lookups -> LookRecords(clk)] /\ look'[l] = r /\ \A x \in Lookups : x # l => look'[x] = look[x]
        BY <1>1, <2>1, <2>5 DEF CacheTypes
    <2> HIDE DEF g, p
    <2>9. CacheTypes'
        BY <1>1, <2>1, <2>7, <2>8 DEF CacheTypes
    <2>10. \A x \in SourcePath : GoodCell(g[x])
        BY <1>1, <2>6, <2>7
    <2>11. \A x \in Lookups : GoodLook(look'[x], g)
        <3>1. \A x \in SourcePath : (g[x].stored = cell[x].stored /\ g[x].val = cell[x].val)
                                    \/ g[x].val = Nothing \/ g[x].stored = clk
            BY <2>4, <2>7
        <3>2. cell \in [SourcePath -> Cells(clk)]
            BY <1>1 DEF CacheTypes
        <3>3. \A x \in Lookups : x # l => GoodLook(look[x], g)
            BY <1>1, <2>7, <3>1, <3>2, GoodLookSurvives
        <3>4. GoodLook(r, g)
            BY <2>1, <2>2, <2>5 DEF GoodLook
        <3> QED BY <2>8, <3>3, <3>4
    <2>12. LockBooks'
        <3>1. Locked(which) => busy = {l}
            BY <2>1 DEF CachesInv, LockBooks, LoadPlaces
        <3>2. \A x \in busy : look'[x].at \in LoadPlaces
            BY <2>1, <2>5, <2>8 DEF CachesInv, LockBooks, LoadPlaces, CacheTypes
        <3>3. \A x \in Lookups : Locked(which) /\ look'[x].at \in LoadPlaces => busy = {x}
            BY <2>8, <3>1 DEF CachesInv, LockBooks
        <3>4. \A x \in Lookups : Locked(which) => look'[x].at # "load"
            BY <2>5, <2>8, <3>1, <3>3 DEF LoadPlaces
        <3>5. LoadOnlyWhenExpired'
            BY <2>1, <3>4 DEF LoadOnlyWhenExpired
        <3> QED BY <2>1, <3>2, <3>3, <3>5 DEF CachesInv, LockBooks
    <2>13. SourceSeesMines'
        BY <1>10, <2>1, <2>4, <2>7 DEF SourceSeesMines
    <2> QED BY <2>1, <2>9, <2>10, <2>11, <2>12, <2>13 DEF CachesInv, GoodLook, GoodCell
<1>15. ASSUME NEW l \in Lookups, StoreTime(l)
       PROVE  CachesInv'
    <2> DEFINE p == look[l].path
               e == [cell[p] EXCEPT !.at = clk, !.stored = clk]
               g == [cell EXCEPT ![p] = e]
    <2>1. /\ look[l].at = "date" /\ cell' = g /\ busy' = (IF Locked(which) THEN {} ELSE busy)
          /\ look' = [look EXCEPT ![l] = Gone] /\ UNCHANGED <<which, clk, db, settled>>
        BY <1>1, <1>15 DEF StoreTime, CacheTypes, LookRecords
    <2>2. p \in SourcePath /\ which # "source"
        BY <1>1, <2>1 DEF LookRecords, GoodLook, Torn
    <2>3. /\ e \in Cells(clk) /\ e.at = clk /\ e.stored = clk /\ e.val = cell[p].val /\ e.late = cell[p].late
        BY <1>1, <2>2 DEF Cells
    <2> HIDE DEF e
    <2>4. g \in [SourcePath -> Cells(clk)] /\ g[p] = e /\ \A x \in SourcePath : x # p => g[x] = cell[x]
        BY <1>1, <2>2, <2>3 DEF CacheTypes
    <2> HIDE DEF g, p
    <2>5. GoodCell(e)
        BY <1>1, <2>2, <2>3 DEF GoodCell
    <2>6. \A x \in SourcePath :
              /\ GoodCell(g[x])
              /\ (g[x].stored = cell[x].stored /\ g[x].val = cell[x].val)
                 \/ g[x].val = Nothing \/ g[x].stored = clk
              /\ g[x].val # Nothing /\ ~g[x].late => g[x].val >= settled[x]
        BY <1>1, <1>10, <2>3, <2>4, <2>5
    <2> QED BY <2>1, <2>4, <2>6, EndOfLoadKeeps DEF LoadPlaces
<1>16. ASSUME NEW l \in Lookups, Reply(l)
       PROVE  CachesInv'
    <2>1. Gone \in LookRecords(clk) /\ Gone.at = "idle" /\ GoodLook(Gone, cell)
        BY <1>1, CacheConstants
    <2> QED BY <1>16, <2>1, OneLookupKeeps DEF Reply, LoadPlaces
<1>17. ASSUME NEW ps \in SUBSET SourcePath, InvalidateSource(ps)
       PROVE  CachesInv'
    <2> DEFINE g == [p \in SourcePath |-> IF p \in ps THEN Empty ELSE cell[p]]
    <2>1. /\ which = "source" /\ cell' = g /\ UNCHANGED <<which, busy, look, clk, db>>
          /\ settled' = [p \in SourcePath |-> IF p \in ps THEN db ELSE settled[p]]
        BY <1>17 DEF InvalidateSource
    <2>2. Empty \in Cells(clk) /\ GoodCell(Empty) /\ Empty.val = Nothing
        BY <1>1, CacheConstants
    <2>3. g \in [SourcePath -> Cells(clk)] /\ \A p \in SourcePath : g[p] = (IF p \in ps THEN Empty ELSE cell[p])
        BY <1>1, <2>2
    <2> HIDE DEF g
    <2>4. settled' \in [SourcePath -> 0..MaxDb]
        BY <1>1, <2>1 DEF CacheTypes
    <2>5. CacheTypes'
        BY <1>1, <2>1, <2>3, <2>4 DEF CacheTypes
    <2>6. \A p \in SourcePath : GoodCell(g[p])
        BY <1>1, <2>2, <2>3
    <2>7. \A l \in Lookups : GoodLook(look[l], g)
        <3>1. \A p \in SourcePath : (g[p].stored = cell[p].stored /\ g[p].val = cell[p].val)
                                    \/ g[p].val = Nothing \/ g[p].stored = clk
            BY <2>2, <2>3
        <3>2. cell \in [SourcePath -> Cells(clk)]
            BY <1>1 DEF CacheTypes
        <3> QED BY <1>1, <2>3, <3>1, <3>2, GoodLookSurvives
    <2>8. LockBooks'
        BY <2>1 DEF CachesInv, LockBooks, LoadOnlyWhenExpired, Locked
    <2>9. SourceSeesMines'
        BY <1>10, <2>1, <2>2, <2>3 DEF SourceSeesMines
    <2> QED BY <2>1, <2>5, <2>6, <2>7, <2>8, <2>9 DEF CachesInv, GoodLook, GoodCell
<1>18. CASE DbChanges
    <2>1. db' \in 0..MaxDb /\ UNCHANGED <<which, cell, busy, look, clk, settled>>
        BY <1>1, <1>18, CachesAssumption DEF DbChanges, CacheTypes
    <2> QED
        BY <2>1 DEF CachesInv, CacheTypes, GoodCell, GoodLook, LockBooks, LoadOnlyWhenExpired, FreshAt,
                    SourceSeesMines
<1>19. CASE Ticks
    <2>1. clk' = clk + 1 /\ clk' \in 0..MaxClock /\ UNCHANGED <<which, cell, busy, look, db, settled>>
        BY <1>1, <1>19, CachesAssumption DEF Ticks, CacheTypes
    <2>2. 0..clk \subseteq 0..clk'
        BY <1>1, <2>1
    <2>3. Cells(clk) \subseteq Cells(clk')
        BY <2>2 DEF Cells
    <2>4. LookRecords(clk) \subseteq LookRecords(clk')
        BY <2>2 DEF LookRecords
    <2>5. CacheTypes'
        BY <1>1, <2>1, <2>3, <2>4 DEF CacheTypes
    <2> QED
        BY <2>1, <2>5 DEF CachesInv, GoodCell, GoodLook, LockBooks, LoadOnlyWhenExpired, FreshAt,
                          SourceSeesMines
<1>20. CASE UNCHANGED cachesVars
    BY <1>20 DEF cachesVars, CachesInv, CacheTypes, GoodCell, GoodLook, LockBooks, LoadOnlyWhenExpired,
                 FreshAt, SourceSeesMines
<1>21. ASSUME NEW l \in Lookups, Lookup(l)
       PROVE  CachesInv'
    BY <1>5, <1>6, <1>7, <1>8, <1>9, <1>11, <1>13, <1>14, <1>15, <1>16, <1>21 DEF Lookup, StoreSteps
<1>22. CASE CachesNext
    BY <1>17, <1>18, <1>19, <1>21, <1>22 DEF CachesNext
<1> QED
    BY <1>20, <1>22

\* The four caches of fast_intercept.py, instruments.py and health_ready(), any
\* number of threads and paths: nothing is served beyond its time to live, one
\* lookup loads for all who wait, no failure keeps the lock, a mine is seen.
THEOREM CachesCorrectHolds == CachesSpec => []CachesCorrect
<1>1. CachesInit => CachesInv
    <2> SUFFICES ASSUME CachesInit PROVE CachesInv
        OBVIOUS
    <2>1. /\ which \in {"kg", "chunks", "source", "ready"} /\ cell = [p \in SourcePath |-> Empty]
          /\ busy = {} /\ look = [l \in Lookups |-> Gone] /\ clk = 0 /\ db = 0
          /\ settled = [p \in SourcePath |-> 0]
        BY DEF CachesInit
    <2>2. /\ Empty \in Cells(0) /\ GoodCell(Empty) /\ Empty.val = Nothing
          /\ Gone \in LookRecords(0) /\ Gone.at = "idle" /\ GoodLook(Gone, cell)
        BY CacheConstants
    <2>3. 0 \in 0..MaxClock /\ 0 \in 0..MaxDb
        BY CachesAssumption
    <2>4. CacheTypes
        BY <2>1, <2>2, <2>3 DEF CacheTypes
    <2>5. LockBooks
        BY <2>1, <2>2 DEF LockBooks, LoadPlaces, LoadOnlyWhenExpired
    <2> QED BY <2>1, <2>2, <2>4, <2>5 DEF CachesInv, SourceSeesMines
<1>2. CachesInv => CachesCorrect
    <2> SUFFICES ASSUME CachesInv PROVE CachesCorrect
        OBVIOUS
    <2>1. CachesTypeOK
        <3>1. \A p \in SourcePath : cell[p].val \in 0..MaxDb \cup {Nothing} /\ cell[p].at \in 0..clk
            BY DEF CachesInv, CacheTypes, Cells, Versions
        <3>2. \A l \in Lookups : look[l].path \in PathsOf(which) /\ look[l].now <= clk
            BY DEF CachesInv, CacheTypes, LookRecords, GoodLook
        <3> QED BY <3>1, <3>2 DEF CachesInv, CacheTypes, CachesTypeOK
    <2>2. HitStoredWithinTtl /\ SourceReadWithinTtl
        BY DEF CachesInv, GoodLook, HitStoredWithinTtl, SourceReadWithinTtl
    <2> QED BY <2>1, <2>2 DEF CachesInv, LockBooks, LockHeldWhileLoading, LoadPlaces, CachesCorrect
<1> QED
    BY <1>1, <1>2, CachesStep, PTL DEF CachesSpec

-----------------------------------------------------------------------------
(* The ranker and /cypher.                                                 *)

\* The model is loaded by one thread at a time, and only while neither a load
\* nor a failure is recorded.
RankerBooks ==
    /\ loading \in [RankCaller -> {"idle", "lock", "load"}]
    /\ loads \in 0..1 /\ (ranker = "none" => loads = 0)
    /\ \A c \in RankCaller : loading[c] = "load" => ranker = "none"
    /\ \A c, d \in RankCaller : loading[c] = "load" /\ loading[d] = "load" => c = d

\* Every action of search and reranking keeps the books of the ranker.
LEMMA RankerStep == RankerBooks /\ [SearchNext]_searchVars => RankerBooks'
<1> SUFFICES ASSUME RankerBooks, [SearchNext]_searchVars PROVE RankerBooks'
    OBVIOUS
<1>1. ASSUME NEW c \in RankCaller, WantRanker(c)
      PROVE  RankerBooks'
    BY <1>1 DEF WantRanker, RankerBooks
<1>2. ASSUME NEW c \in RankCaller, LockRanker(c)
      PROVE  RankerBooks'
    BY <1>2 DEF LockRanker, RankerBooks
<1>3. ASSUME NEW c \in RankCaller, NEW ok \in BOOLEAN, LoadRanker(c, ok)
      PROVE  RankerBooks'
    <2>1. /\ loads = 0 /\ loads' = Min({2, loads + 1}) /\ loading' = [loading EXCEPT ![c] = "idle"]
          /\ ranker' \in {"loaded", "failed"}
        BY <1>3 DEF LoadRanker, RankerBooks
    <2>2. {2, loads + 1} = {2, 1}
        BY <2>1
    <2>3. Min({2, 1}) = 1
        BY DEF Min
    <2>4. loads' = 1
        BY <2>1, <2>2, <2>3
    <2>5. \A d \in RankCaller : loading'[d] # "load"
        BY <1>3, <2>1 DEF LoadRanker, RankerBooks
    <2> QED BY <2>1, <2>4, <2>5 DEF RankerBooks
<1>4. CASE UNCHANGED <<ranker, loading, loads>>
    BY <1>4 DEF RankerBooks
<1>5. CASE UNCHANGED searchVars
    BY <1>4, <1>5 DEF searchVars
<1>6. CASE SearchNext
    BY <1>1, <1>2, <1>3, <1>4, <1>6 DEF SearchNext, GetRanker, Search, SearchUnfiltered, SearchAgeFused,
       FilterKind, Fuse, RerankSkips, RerankFails, RerankOrders
<1> QED
    BY <1>5, <1>6

\* _get_ranker() of rerank.py, any number of threads: the model is loaded at
\* most once in the daemon's life, and a load that failed is not tried again.
THEOREM RankerLoadedOnceHolds == SearchSpec => []RankerLoadedOnce
<1>1. SearchInit => RankerBooks
    BY DEF SearchInit, RankerBooks
<1>2. RankerBooks => RankerLoadedOnce
    BY DEF RankerBooks, RankerLoadedOnce
<1> QED
    BY <1>1, <1>2, RankerStep, PTL DEF SearchSpec

\* No query has run before its transaction was made read-only.
Statuses == {0, 200, 400, 403, 502, 504, 507}
ReadOnlyFirst ==
    /\ kg \in [at : {"idle", "open", "begun", "ready", "close"}, readOnly : BOOLEAN, writes : BOOLEAN,
              status : Statuses]
    /\ graph \in {0, 1}
    /\ kg.at = "ready" => kg.readOnly = TRUE

\* Every action of /cypher keeps it.
LEMMA ReadOnlyStep == ReadOnlyFirst /\ [CypherNext]_cypherVars => ReadOnlyFirst'
<1> SUFFICES ASSUME ReadOnlyFirst, [CypherNext]_cypherVars PROVE ReadOnlyFirst'
    OBVIOUS
<1>1. ASSUME NEW q, NEW w \in BOOLEAN, Post(q, w) PROVE ReadOnlyFirst'
    <2>1. kg' = [at |-> "open", readOnly |-> FALSE, writes |-> w, status |-> 0] /\ graph' = graph
        BY <1>1 DEF Post, Closed
    <2> QED BY <2>1 DEF ReadOnlyFirst, Statuses
<1>2. ASSUME NEW ok \in BOOLEAN, Construct(ok) PROVE ReadOnlyFirst'
    <2>1. graph' \in {0, 1}
        BY <1>2 DEF Construct, ReadOnlyFirst
    <2>2. CASE ok
        <3>1. kg' = [kg EXCEPT !.at = "begun"]
            BY <1>2, <2>2 DEF Construct
        <3> QED BY <2>1, <3>1 DEF ReadOnlyFirst
    <2>3. CASE ~ok
        <3>1. kg' = [at |-> "idle", readOnly |-> FALSE, writes |-> FALSE, status |-> 502]
            BY <1>2, <2>3 DEF Construct, Closed
        <3> QED BY <2>1, <3>1 DEF ReadOnlyFirst, Statuses
    <2> QED BY <2>2, <2>3
<1>3. CASE BeginReadOnly
    BY <1>3 DEF BeginReadOnly, ReadOnlyFirst
<1>4. ASSUME NEW s \in {200, 400, 403, 502, 504, 507}, RunCypher(s) PROVE ReadOnlyFirst'
    <2>1. /\ kg.at = "ready" /\ kg' = [kg EXCEPT !.at = "close", !.status = s]
          /\ s \in IF kg.writes /\ kg.readOnly THEN {403} ELSE ErrorStatus \cup {200}
          /\ graph' = IF kg.writes /\ s = 200 THEN 2 ELSE graph
        BY <1>4 DEF RunCypher
    <2>2. kg.readOnly = TRUE
        BY <2>1 DEF ReadOnlyFirst
    <2>3. ~(kg.writes /\ s = 200)
        BY <2>1, <2>2
    <2>4. graph' \in {0, 1}
        BY <2>1, <2>3 DEF ReadOnlyFirst
    <2>5. s \in Statuses
        BY DEF Statuses
    <2>6. kg'.at = "close" /\ kg' \in [at : {"idle", "open", "begun", "ready", "close"},
             readOnly : BOOLEAN, writes : BOOLEAN, status : Statuses]
        BY <2>1, <2>5 DEF ReadOnlyFirst
    <2> QED BY <2>4, <2>6 DEF ReadOnlyFirst
<1>5. CASE CloseGraph
    BY <1>5 DEF CloseGraph, ReadOnlyFirst, Closed
<1>6. CASE UNCHANGED cypherVars
    BY <1>6 DEF cypherVars, ReadOnlyFirst
<1>7. CASE \E s \in Starts, w \in Withs, r \in Returns, writes \in BOOLEAN : Post(s \o w \o <<r>>, writes)
    BY <1>1, <1>7
<1>8. CASE CypherNext
    BY <1>2, <1>3, <1>4, <1>5, <1>7, <1>8, ZenonT(60) DEF CypherNext
<1> QED BY <1>6, <1>8

\* The endpoint /cypher, any queries and any failure of its steps: a query that
\* writes never changes the graph, since it runs in a read-only transaction.
THEOREM CypherOnlyReadsHolds == CypherSpec => []CypherOnlyReads
<1>1. CypherInit => ReadOnlyFirst
    BY DEF CypherInit, ReadOnlyFirst, Closed, Statuses
<1>2. ReadOnlyFirst => CypherOnlyReads
    BY DEF ReadOnlyFirst, CypherOnlyReads
<1> QED
    BY <1>1, <1>2, ReadOnlyStep, PTL DEF CypherSpec

\* A name in scope before a clause was mentioned by an earlier one: what
\* _bound_identifiers() collects has every variable in scope.
LEMMA ScopeIsBound ==
    ASSUME NEW q \in Query, NEW i \in DOMAIN q, NEW n, Scope(q, i - 1, n) # {}
    PROVE  n \in BoundBefore(q, i)
<1>1. PICK b \in (1..(i - 1)) \X Name :
          \E t \in [b[1]..(i - 1) -> Name] : t[i - 1] = n /\ Carries(q, b[1], b[2], i - 1, t)
    BY DEF Scope
<1>2. PICK t \in [b[1]..(i - 1) -> Name] : t[i - 1] = n /\ Carries(q, b[1], b[2], i - 1, t)
    BY <1>1
<1> DEFINE j == b[1]
           K == {k \in j..(i - 1) : \A l \in k..(i - 1) : t[l] = n}
<1>3. i \in Nat /\ i - 1 \in Nat /\ j \in 1..(i - 1)
    BY <1>1 DEF Query
<1> HIDE DEF j
<1>4. K \in SUBSET (1..(i - 1)) /\ i - 1 \in K
    BY <1>2, <1>3 DEF j
<1>5. PICK k \in K : \A l \in K : k <= l
    BY <1>3, <1>4, LeastIndex
<1>6. k \in j..(i - 1) /\ k \in 1..(i - 1) /\ t[k] = n /\ \A l \in k..(i - 1) : t[l] = n
    BY <1>3, <1>5
<1>7. n \in Mentioned(q[k])
    <2>1. CASE k = j
        BY <1>2, <1>6, <2>1 DEF Carries, Aliases, Mentioned, j
    <2>2. CASE k # j
        <3>1. k \in (j + 1)..(i - 1) /\ k - 1 \in j..(i - 1)
            BY <1>3, <1>6, <2>2
        <3>2. Passes(q[k], t[k - 1], t[k])
            BY <1>2, <3>1 DEF Carries, j
        <3>3. t[k - 1] # n
            <4> SUFFICES ASSUME t[k - 1] = n PROVE FALSE
                OBVIOUS
            <4>1. \A l \in (k - 1)..(i - 1) : l = k - 1 \/ l \in k..(i - 1)
                BY <1>3, <1>6
            <4>2. k - 1 \in K
                BY <1>6, <3>1, <4>1
            <4>3. k <= k - 1 /\ k \in Int
                BY <1>5, <1>6, <4>2
            <4> QED BY <4>3
        <3>4. \E p \in DOMAIN q[k].items : q[k].items[p].as = n
            BY <1>6, <3>2, <3>3 DEF Passes, Defines
        <3> QED BY <3>4 DEF Mentioned
    <2> QED BY <2>1, <2>2
<1> QED
    BY <1>6, <1>7 DEF BoundBefore

\* rewrite_order_by_aliases() touches sort keys only: the clauses bind and pass
\* on the same names after it.
LEMMA RewriteKeepsScope ==
    ASSUME NEW q \in Query
    PROVE  /\ Rewrite(q) \in Query /\ DOMAIN Rewrite(q) = DOMAIN q
           /\ \A i \in DOMAIN q :
                 /\ Rewrite(q)[i].op = q[i].op /\ Rewrite(q)[i].items = q[i].items
                 /\ DOMAIN Rewrite(q)[i].order = DOMAIN q[i].order
           /\ \A i \in 0..Len(q) : \A n : Scope(Rewrite(q), i, n) = Scope(q, i, n)
<1> DEFINE r == Rewrite(q)
           o(i) == [k \in DOMAIN q[i].order |-> Substituted(q, i, q[i].order[k])]
<1>1. DOMAIN r = DOMAIN q /\ DOMAIN q = 1..Len(q) /\ Len(q) \in Nat /\ \A i \in DOMAIN q : q[i] \in Clause
    BY DEF Rewrite, Query
<1>2. ASSUME NEW i \in DOMAIN q, NEW n \in Name
      PROVE  Substituted(q, i, n) \in Name
    <2> DEFINE its == q[i].items
    <2>1. \A k \in DOMAIN its : its[k].var \in Name
        <3>1. its \in Seq(Item)
            BY <1>1 DEF Clause
        <3> HIDE DEF its
        <3>2. \A k \in DOMAIN its : its[k] \in Item
            BY <3>1
        <3> QED BY <3>2 DEF Item
    <2>2. (\E k \in DOMAIN its : Defines(q[i], k, n)) =>
             (CHOOSE k \in DOMAIN its : Defines(q[i], k, n)) \in DOMAIN its
        OBVIOUS
    <2> QED BY <2>1, <2>2 DEF Substituted
<1>3. ASSUME NEW i \in DOMAIN q PROVE o(i) \in Seq(Name) /\ DOMAIN o(i) = DOMAIN q[i].order
    <2>1. q[i].order \in Seq(Name) /\ \A k \in DOMAIN q[i].order : q[i].order[k] \in Name
        BY <1>1 DEF Clause
    <2>2. \A k \in DOMAIN q[i].order : Substituted(q, i, q[i].order[k]) \in Name
        BY <1>2, <2>1
    <2>3. DOMAIN q[i].order = 1..Len(q[i].order) /\ Len(q[i].order) \in Nat
        BY <2>1
    <2> QED BY <2>2, <2>3
<1>4. ASSUME NEW i \in DOMAIN q
      PROVE  /\ r[i] \in Clause /\ r[i].op = q[i].op /\ r[i].items = q[i].items
             /\ DOMAIN r[i].order = DOMAIN q[i].order
    <2>1. CASE Projects(q[i])
        <3>1. r[i] = [q[i] EXCEPT !.order = o(i)]
            BY <2>1 DEF Rewrite
        <3> HIDE DEF o, r
        <3> QED BY <1>1, <1>3, <3>1 DEF Clause
    <2>2. CASE ~Projects(q[i])
        BY <1>1, <2>2 DEF Rewrite
    <2> QED BY <2>1, <2>2
<1>5. r \in Query
    <2>1. r = [i \in 1..Len(q) |-> r[i]]
        BY <1>1 DEF Rewrite
    <2> HIDE DEF r
    <2> QED BY <1>1, <1>4, <2>1 DEF Query
<1> HIDE DEF r
<1>6. ASSUME NEW k \in DOMAIN q
      PROVE  /\ Aliases(r[k]) = Aliases(q[k])
             /\ \A m, n : Passes(r[k], m, n) <=> Passes(q[k], m, n)
    BY <1>4 DEF Aliases, Passes, Projects, Defines
<1>7. ASSUME NEW i \in 0..Len(q), NEW j \in 1..i, NEW m, NEW t
      PROVE  Carries(r, j, m, i, t) <=> Carries(q, j, m, i, t)
    <2>1. j \in DOMAIN q /\ \A k \in (j + 1)..i : k \in DOMAIN q
        BY <1>1
    <2> QED BY <1>4, <1>6, <2>1 DEF Carries
<1>8. ASSUME NEW i \in 0..Len(q), NEW n PROVE Scope(r, i, n) = Scope(q, i, n)
    <2>1. \A b \in (1..i) \X Name : b[1] \in 1..i
        OBVIOUS
    <2> QED BY <1>7, <2>1 DEF Scope
<1> QED
    BY <1>1, <1>4, <1>5, <1>8 DEF r

\* A sort key in scope is left alone.
LEMMA InScopeUntouched ==
    ASSUME NEW q \in Query, NEW i \in DOMAIN q, NEW n, Scope(q, i - 1, n) # {}
    PROVE  Substituted(q, i, n) = n
BY ScopeIsBound DEF Substituted

\* A query that AGE accepts is sent as it came.
LEMMA RewriteOfAccepted ==
    ASSUME NEW q \in Query, Accepted(q)
    PROVE  Rewrite(q) = q
<1>1. \A i \in DOMAIN q : \A k \in DOMAIN q[i].order : Substituted(q, i, q[i].order[k]) = q[i].order[k]
    BY InScopeUntouched DEF Accepted, SortLegal
<1>2. DOMAIN q = 1..Len(q) /\ \A i \in DOMAIN q : q[i] \in Clause
    BY DEF Query
<1>3. ASSUME NEW i \in DOMAIN q PROVE Rewrite(q)[i] = q[i]
    <2> DEFINE o == [k \in DOMAIN q[i].order |-> Substituted(q, i, q[i].order[k])]
    <2>1. o = [k \in DOMAIN q[i].order |-> q[i].order[k]]
        BY <1>1
    <2>2. q[i].order \in Seq(Name)
        BY <1>2 DEF Clause
    <2>3. q[i].order = [k \in DOMAIN q[i].order |-> q[i].order[k]]
        BY <2>2
    <2>4. o = q[i].order
        BY <2>1, <2>3
    <2>5. Rewrite(q)[i] = IF Projects(q[i]) THEN [q[i] EXCEPT !.order = o] ELSE q[i]
        BY DEF Rewrite
    <2> HIDE DEF o
    <2>6. q[i] = [q[i] EXCEPT !.order = q[i].order]
        BY <1>2 DEF Clause
    <2> QED BY <2>4, <2>5, <2>6
<1>4. Rewrite(q) = [i \in DOMAIN q |-> Rewrite(q)[i]]
    BY DEF Rewrite
<1>5. q = [i \in DOMAIN q |-> q[i]]
    BY DEF Query
<1> QED
    BY <1>3, <1>4, <1>5

\* The last item with an alias is the one that defines it.
LEMMA AliasIsDefined ==
    ASSUME NEW c \in Clause, NEW n, NEW m \in DOMAIN c.items, c.items[m].as = n
    PROVE  \E k \in DOMAIN c.items : Defines(c, k, n)
<1> DEFINE l == Len(c.items)
           I == {k \in DOMAIN c.items : c.items[k].as = n}
<1>1. c.items \in Seq(Item) /\ l \in Nat /\ DOMAIN c.items = 1..l
    BY DEF Clause
<1> HIDE DEF l
<1>2. I \in SUBSET (0..l) /\ I # {}
    BY <1>1
<1>3. PICK k \in I : \A j \in I : j <= k
    BY <1>1, <1>2, GreatestIndex
<1>4. \A j \in DOMAIN c.items : j > k => c.items[j].as # n
    <2> SUFFICES ASSUME NEW j \in DOMAIN c.items, j > k, c.items[j].as = n PROVE FALSE
        OBVIOUS
    <2>1. j <= k /\ j \in Int /\ k \in Int
        BY <1>1, <1>3
    <2> QED BY <2>1
<1> QED
    BY <1>3, <1>4 DEF Defines

\* The fault RewriteHelps names: every sort key is in scope, or an alias that no
\* earlier clause mentions.
OnlyAliasFaults(q) ==
    \A i \in DOMAIN q : \A k \in DOMAIN q[i].order :
        \/ Scope(q, i - 1, q[i].order[k]) # {}
        \/ /\ \E m \in DOMAIN q[i].items : q[i].items[m].as = q[i].order[k]
           /\ \A j \in 1..(i - 1) : q[i].order[k] \notin Mentioned(q[j])

\* Only projections sort.
SortsProject(q) == \A i \in DOMAIN q : ~Projects(q[i]) => q[i].order = <<>>

\* The rewriting makes a query with no other fault acceptable.
LEMMA RewriteOfAliases ==
    ASSUME NEW q \in Query, SortsProject(q), WellFormed(q), OnlyAliasFaults(q)
    PROVE  Accepted(Rewrite(q))
<1> DEFINE r == Rewrite(q)
<1>1. /\ DOMAIN r = DOMAIN q
      /\ \A i \in DOMAIN q :
            r[i].op = q[i].op /\ r[i].items = q[i].items /\ DOMAIN r[i].order = DOMAIN q[i].order
      /\ \A i \in 0..Len(q) : \A n : Scope(r, i, n) = Scope(q, i, n)
    BY RewriteKeepsScope
<1>2. /\ DOMAIN q = 1..Len(q) /\ Len(q) \in Nat /\ \A i \in DOMAIN q : q[i] \in Clause
      /\ \A i \in DOMAIN q : i - 1 \in 0..Len(q)
    BY DEF Query
<1>3. ASSUME NEW i \in DOMAIN q, NEW k \in DOMAIN q[i].order
      PROVE  r[i].order[k] = Substituted(q, i, q[i].order[k])
    <2>1. Projects(q[i])
        <3> SUFFICES ASSUME ~Projects(q[i]) PROVE FALSE
            OBVIOUS
        <3>1. q[i].order = <<>>
            BY DEF SortsProject
        <3> QED BY <3>1
    <2> DEFINE o == [l \in DOMAIN q[i].order |-> Substituted(q, i, q[i].order[l])]
    <2>2. r[i] = [q[i] EXCEPT !.order = o]
        BY <2>1 DEF Rewrite
    <2>3. o[k] = Substituted(q, i, q[i].order[k])
        OBVIOUS
    <2> HIDE DEF r, o
    <2>4. r[i].order = o
        BY <1>2, <2>2 DEF Clause
    <2> QED BY <2>3, <2>4
<1> HIDE DEF r
<1>4. WellFormed(r)
    <2> SUFFICES ASSUME NEW i \in DOMAIN r, NEW j \in 1..i PROVE Legal(r, j)
        BY DEF WellFormed
    <2>1. j \in DOMAIN q /\ i \in DOMAIN q
        BY <1>1, <1>2
    <2>2. Legal(q, j)
        BY <2>1 DEF WellFormed
    <2> QED BY <1>1, <1>2, <2>1, <2>2 DEF Legal, Projects
<1>5. ASSUME NEW i \in DOMAIN q, NEW k \in DOMAIN q[i].order
      PROVE  Scope(q, i - 1, Substituted(q, i, q[i].order[k])) # {}
    <2> DEFINE n == q[i].order[k]
    <2>1. CASE Scope(q, i - 1, n) # {}
        <3>1. Substituted(q, i, n) = n
            BY <2>1, InScopeUntouched
        <3> QED BY <2>1, <3>1
    <2>2. CASE /\ \E m \in DOMAIN q[i].items : q[i].items[m].as = n
               /\ \A j \in 1..(i - 1) : n \notin Mentioned(q[j])
        <3> HIDE DEF n
        <3>1. n \notin BoundBefore(q, i)
            BY <2>2 DEF BoundBefore
        <3>2. \E p \in DOMAIN q[i].items : Defines(q[i], p, n)
            BY <1>2, <2>2, AliasIsDefined
        <3> DEFINE p == CHOOSE x \in DOMAIN q[i].items : Defines(q[i], x, n)
        <3>3. p \in DOMAIN q[i].items
            BY <3>2
        <3>4. Substituted(q, i, n) = q[i].items[p].var
            BY <3>1, <3>2 DEF Substituted
        <3> HIDE DEF p
        <3>5. Projects(q[i])
            <4> SUFFICES ASSUME ~Projects(q[i]) PROVE FALSE
                OBVIOUS
            <4>1. q[i].order = <<>>
                BY DEF SortsProject
            <4> QED BY <4>1
        <3>6. Legal(q, i)
            <4>1. i \in 1..i
                BY <1>2
            <4> QED BY <4>1 DEF WellFormed
        <3>7. Scope(q, i - 1, q[i].items[p].var) # {}
            BY <3>3, <3>5, <3>6 DEF Legal
        <3> QED BY <3>4, <3>7 DEF n
    <2> QED BY <2>1, <2>2 DEF OnlyAliasFaults
<1>6. \A i \in DOMAIN r : SortLegal(r, i)
    <2> SUFFICES ASSUME NEW i \in DOMAIN r, NEW k \in DOMAIN r[i].order
                 PROVE  Scope(r, i - 1, r[i].order[k]) # {}
        BY DEF SortLegal
    <2>1. i \in DOMAIN q /\ k \in DOMAIN q[i].order /\ i - 1 \in 0..Len(q)
        BY <1>1, <1>2
    <2>2. r[i].order[k] = Substituted(q, i, q[i].order[k])
        BY <1>3, <2>1
    <2>3. Scope(q, i - 1, Substituted(q, i, q[i].order[k])) # {}
        BY <1>5, <2>1
    <2> QED BY <1>1, <2>1, <2>2, <2>3
<1> QED
    BY <1>4, <1>6 DEF Accepted, r

\* The queries of the model are queries.
LEMMA PostedAreQueries ==
    ASSUME NEW s \in Starts, NEW w \in Withs, NEW r \in Returns
    PROVE  s \o w \o <<r>> \in Query /\ SortsProject(s \o w \o <<r>>)
<1> DEFINE C == {c \in Clause : ~Projects(c) => c.order = <<>>}
           q == s \o w \o <<r>>
<1>1. \A S : \A m, n \in Nat : ListsOf(S, m, n) \subseteq Seq(S)
    BY DEF ListsOf
<1>2. ListsOf(Name, 0, 1) \subseteq Seq(Name) /\ ListsOf(Item, 1, 1) \subseteq Seq(Item)
      /\ ListsOf(Item, 1, MaxItems) \subseteq Seq(Item)
    BY <1>1, CypherAssumption
<1>3. {Unwind(x) : x \in Name} \subseteq C
    <2> SUFFICES ASSUME NEW x \in Name PROVE Unwind(x) \in C
        OBVIOUS
    <2>1. [var |-> x, as |-> x] \in Item
        BY DEF Item
    <2>2. <<[var |-> x, as |-> x]>> \in Seq(Item) /\ <<>> \in Seq(Name)
        BY <2>1
    <2>3. Unwind(x) \in Clause /\ Unwind(x).order = <<>>
        BY <2>2 DEF Unwind, Clause
    <2> QED BY <2>3
<1>4. [op : {"WITH"}, items : ListsOf(Item, 1, 1), order : ListsOf(Name, 0, 1)] \subseteq C
    BY <1>2 DEF Clause, Projects
<1>5. Returns \subseteq C
    BY <1>2 DEF Returns, Clause, Projects
<1> HIDE DEF C
<1>6. \A S \in SUBSET C : Seq(S) \subseteq Seq(C)
    OBVIOUS
<1>7. s \in Seq(C)
    BY <1>1, <1>3, <1>6 DEF Starts
<1>8. w \in Seq(C)
    BY <1>1, <1>4, <1>6 DEF Withs
<1>9. q \in Seq(C)
    BY <1>5, <1>7, <1>8
<1> HIDE DEF q
<1>10. C \subseteq Clause
    BY DEF C
<1>11. q \in Query
    BY <1>9, <1>10 DEF Query
<1>12. \A i \in DOMAIN q : q[i] \in C
    BY <1>9
<1>13. SortsProject(q)
    BY <1>12 DEF SortsProject, C
<1> QED
    BY <1>11, <1>13 DEF q

\* What is sent is the rewriting of what came, or nothing yet.
RewriteBooks ==
    /\ query.got \in Query /\ SortsProject(query.got)
    /\ query = [got |-> query.got, sent |-> query.sent]
    /\ query.sent = <<>> \/ query.sent = Rewrite(query.got)

\* POST /cypher, for any names and any number of items: the rewriting never
\* changes a query that works, it mends one whose only fault is a sort by a new
\* alias, and the endpoint only reads.
THEOREM CypherCorrectHolds == CypherSpec => []CypherCorrect
<1>1. CypherInit => ReadOnlyFirst /\ RewriteBooks
    <2> SUFFICES ASSUME CypherInit PROVE ReadOnlyFirst /\ RewriteBooks
        OBVIOUS
    <2>1. ReadOnlyFirst
        BY DEF CypherInit, ReadOnlyFirst, Closed, Statuses
    <2>2. query = [got |-> <<>>, sent |-> <<>>]
        BY DEF CypherInit
    <2>3. <<>> \in Query /\ SortsProject(<<>>)
        BY DEF Query, SortsProject
    <2> QED BY <2>1, <2>2, <2>3 DEF RewriteBooks
<1>2. RewriteBooks /\ [CypherNext]_cypherVars => RewriteBooks'
    <2> SUFFICES ASSUME RewriteBooks, [CypherNext]_cypherVars PROVE RewriteBooks'
        OBVIOUS
    <2>1. CASE UNCHANGED query
        BY <2>1 DEF RewriteBooks
    <2>2. ASSUME NEW s \in Starts, NEW w \in Withs, NEW r \in Returns, NEW writes \in BOOLEAN,
                 Post(s \o w \o <<r>>, writes)
          PROVE  RewriteBooks'
        <3> DEFINE q == s \o w \o <<r>>
        <3>1. q \in Query /\ SortsProject(q)
            BY PostedAreQueries
        <3>2. query' = [got |-> q, sent |-> <<>>]
            BY <2>2 DEF Post
        <3> HIDE DEF q
        <3> QED BY <3>1, <3>2 DEF RewriteBooks
    <2>3. ASSUME NEW s, RunCypher(s) PROVE RewriteBooks'
        <3>1. query' = [query EXCEPT !.sent = Rewrite(query.got)]
            BY <2>3 DEF RunCypher
        <3> QED BY <3>1 DEF RewriteBooks
    <2>4. ASSUME NEW ok \in BOOLEAN, Construct(ok) PROVE UNCHANGED query
        BY <2>4 DEF Construct
    <2>5. BeginReadOnly \/ CloseGraph \/ UNCHANGED cypherVars => UNCHANGED query
        BY DEF BeginReadOnly, CloseGraph, cypherVars
    <2>6. CASE \E s \in Starts, w \in Withs, r \in Returns, writes \in BOOLEAN :
                 Post(s \o w \o <<r>>, writes)
        BY <2>2, <2>6, Zenon
    <2>7. CASE CypherNext
        <3>1. CASE \E ok \in BOOLEAN : Construct(ok)
            BY <2>1, <2>4, <3>1
        <3>2. CASE BeginReadOnly \/ CloseGraph
            BY <2>1, <2>5, <3>2
        <3>3. CASE \E s \in {200, 400, 403, 502, 504, 507} : RunCypher(s)
            BY <2>3, <3>3, Zenon
        <3>4. \/ \E s \in Starts, w \in Withs, r \in Returns, writes \in BOOLEAN :
                    Post(s \o w \o <<r>>, writes)
              \/ \E ok \in BOOLEAN : Construct(ok)
              \/ \E s \in {200, 400, 403, 502, 504, 507} : RunCypher(s)
              \/ BeginReadOnly \/ CloseGraph
            BY <2>7 DEF CypherNext
        <3> QED BY <2>6, <3>1, <3>2, <3>3, <3>4, Zenon
    <2> QED BY <2>1, <2>5, <2>7
<1>3. ReadOnlyFirst /\ RewriteBooks => CypherCorrect
    <2> SUFFICES ASSUME ReadOnlyFirst, RewriteBooks PROVE CypherCorrect
        OBVIOUS
    <2> DEFINE q == query.got
    <2>1. q \in Query /\ SortsProject(q) /\ (query.sent = <<>> \/ query.sent = Rewrite(q))
        BY DEF RewriteBooks
    <2> HIDE DEF q
    <2>2. query.sent \in Query
        <3>1. <<>> \in Query
            BY DEF Query
        <3>2. Rewrite(q) \in Query
            BY <2>1, RewriteKeepsScope
        <3> QED BY <2>1, <3>1, <3>2
    <2>3. CypherTypeOK
        BY <2>2 DEF CypherTypeOK, ReadOnlyFirst, Statuses
    <2>4. RewriteKeepsMeaning
        <3> SUFFICES ASSUME query.sent = Rewrite(q), Accepted(q)
                     PROVE  Accepted(query.sent) /\ SortKeys(query.sent) = SortKeys(q)
            BY <2>1 DEF RewriteKeepsMeaning, q
        <3>1. Rewrite(q) = q
            BY <2>1, RewriteOfAccepted
        <3> QED BY <3>1
    <2>5. RewriteHelps
        <3> SUFFICES ASSUME query.sent = Rewrite(q), WellFormed(q), OnlyAliasFaults(q)
                     PROVE  Accepted(query.sent)
            BY <2>1 DEF RewriteHelps, OnlyAliasFaults, q
        <3> QED BY <2>1, RewriteOfAliases
    <2> QED BY <2>3, <2>4, <2>5 DEF CypherCorrect, CypherOnlyReads, ReadOnlyFirst
<1> QED
    BY <1>1, <1>2, <1>3, ReadOnlyStep, PTL DEF CypherSpec

-----------------------------------------------------------------------------
(* The shaping of search answers: lists without repetition.                *)

\* A sequence of elements of S, none twice.
Distinct(S) == {s \in Seq(S) : \A i, j \in DOMAIN s : s[i] = s[j] => i = j}

\* Some hits of a list, in their order: none twice, and just those.
LEMMA PickDistinct ==
    ASSUME NEW S, NEW s \in Distinct(S), NEW I \in SUBSET (DOMAIN s)
    PROVE  Pick(s, I) \in Distinct(S) /\ ToSet(Pick(s, I)) = {s[i] : i \in I}
<1> DEFINE n == Cardinality(I)
           p == Pick(s, I)
<1>1. s \in Seq(S) /\ \A i, j \in DOMAIN s : s[i] = s[j] => i = j
    BY DEF Distinct
<1>2. /\ p \in Seq(S) /\ n \in Nat /\ Len(p) = n
      /\ \A r \in 1..n : \E i \in I : p[r] = s[i]
      /\ \A i \in I : \E r \in 1..n : p[r] = s[i]
    BY <1>1, PickSound
<1>3. PICK f \in Bijection(1..n, I) : \A r \in 1..n : p[r] = s[f[r]]
    BY <1>1, PickBijective
<1> HIDE DEF n, p
<1>4. f \in [1..n -> I] /\ \A r, q \in 1..n : f[r] = f[q] => r = q
    BY <1>3 DEF Bijection, Injection, IsInjective
<1>5. DOMAIN p = 1..n
    BY <1>2
<1>6. \A r, q \in DOMAIN p : p[r] = p[q] => r = q
    <2> SUFFICES ASSUME NEW r \in 1..n, NEW q \in 1..n, p[r] = p[q] PROVE r = q
        BY <1>5
    <2>1. f[r] \in DOMAIN s /\ f[q] \in DOMAIN s /\ s[f[r]] = s[f[q]]
        BY <1>3, <1>4
    <2> QED BY <1>1, <1>4, <2>1
<1>7. ToSet(p) = {s[i] : i \in I}
    BY <1>2, <1>5 DEF ToSet
<1> QED
    BY <1>2, <1>6, <1>7 DEF Distinct, p

\* Two lists with nothing in common, one behind the other.
LEMMA ConcatDistinct ==
    ASSUME NEW S, NEW s \in Distinct(S), NEW t \in Distinct(S), ToSet(s) \cap ToSet(t) = {}
    PROVE  s \o t \in Distinct(S) /\ ToSet(s \o t) = ToSet(s) \cup ToSet(t)
<1>1. s \in Seq(S) /\ t \in Seq(S)
    BY DEF Distinct
<1> DEFINE u == s \o t
           m == Len(s)
           n == Len(t)
<1>2. /\ m \in Nat /\ n \in Nat /\ DOMAIN s = 1..m /\ DOMAIN t = 1..n
      /\ u \in Seq(S) /\ DOMAIN u = 1..(m + n)
      /\ \A i \in 1..m : u[i] = s[i]
      /\ \A i \in (m + 1)..(m + n) : u[i] = t[i - m] /\ i - m \in 1..n
    BY <1>1
<1>3. \A i \in 1..n : i + m \in (m + 1)..(m + n) /\ i + m - m = i
    BY <1>2
<1> HIDE DEF u, m, n
<1>4. \A i \in 1..(m + n) : i \in 1..m \/ i \in (m + 1)..(m + n)
    BY <1>2
<1>5. ASSUME NEW i \in 1..m, NEW j \in (m + 1)..(m + n) PROVE u[i] # u[j]
    <2>1. u[i] \in ToSet(s) /\ u[j] \in ToSet(t)
        BY <1>2 DEF ToSet
    <2> QED BY <2>1
<1>6. ASSUME NEW i \in DOMAIN u, NEW j \in DOMAIN u, u[i] = u[j] PROVE i = j
    <2>1. CASE i \in 1..m /\ j \in 1..m
        BY <1>2, <1>6, <2>1 DEF Distinct
    <2>2. CASE i \in (m + 1)..(m + n) /\ j \in (m + 1)..(m + n)
        <3>1. i - m = j - m
            BY <1>2, <1>6, <2>2 DEF Distinct
        <3> QED BY <1>2, <2>2, <3>1
    <2> QED BY <1>2, <1>4, <1>5, <1>6, <2>1, <2>2
<1>7. ToSet(u) = ToSet(s) \cup ToSet(t)
    <2>1. ASSUME NEW x \in ToSet(u) PROVE x \in ToSet(s) \cup ToSet(t)
        <3>1. PICK i \in DOMAIN u : x = u[i]
            BY DEF ToSet
        <3> QED BY <1>2, <1>4, <3>1 DEF ToSet
    <2>2. ASSUME NEW x \in ToSet(s) PROVE x \in ToSet(u)
        <3>1. PICK i \in 1..m : x = s[i]
            BY <1>2 DEF ToSet
        <3>2. i \in DOMAIN u
            BY <1>2
        <3> QED BY <1>2, <3>1, <3>2 DEF ToSet
    <2>3. ASSUME NEW x \in ToSet(t) PROVE x \in ToSet(u)
        <3>1. PICK i \in 1..n : x = t[i]
            BY <1>2 DEF ToSet
        <3>2. i + m \in DOMAIN u /\ u[i + m] = t[i]
            BY <1>2, <1>3
        <3> QED BY <3>1, <3>2 DEF ToSet
    <2> QED BY <2>1, <2>2, <2>3
<1> QED
    BY <1>2, <1>6, <1>7 DEF Distinct, u

\* A place in a list without repetition.
LEMMA PlaceIn ==
    ASSUME NEW S, NEW s \in Distinct(S), NEW i \in DOMAIN s
    PROVE  PosIn(s[i], s) = i /\ In(s[i], s)
BY DEF Distinct, PosIn, In, ToSet

\* The members of Lists.
LEMMA ListsAreDistinct ==
    \A s \in Lists : s \in Distinct(Drawer)
<1>1. Cardinality(Drawer) \in Nat
    BY SearchAssumption, FS_CardinalityType
<1>2. \A n \in 0..Cardinality(Drawer) : [1..n -> Drawer] \subseteq Seq(Drawer)
    BY <1>1
<1> QED
    BY <1>2 DEF Lists, Distinct, IsInjective

\* It is as long as it has members.
LEMMA DistinctLength ==
    ASSUME NEW S, NEW x \in Distinct(S)
    PROVE  Cardinality(ToSet(x)) = Len(x)
<1> DEFINE n == Len(x)
<1>1. n \in Nat
    BY DEF Distinct
<1>2. DOMAIN x = 1..n /\ \A i, j \in 1..n : x[i] = x[j] => i = j
    BY DEF Distinct
<1>3. x = [i \in 1..n |-> x[i]]
    BY DEF Distinct
<1> HIDE DEF n
<1>4. ToSet(x) = {x[i] : i \in 1..n}
    BY <1>2 DEF ToSet
<1>5. x \in Bijection(1..n, ToSet(x))
    BY <1>2, <1>3, <1>4 DEF Bijection, Injection, Surjection, IsInjective
<1>6. ExistsBijection(1..n, ToSet(x))
    BY <1>5 DEF ExistsBijection
<1>7. IsFiniteSet(1..n) /\ Cardinality(1..n) = n
    BY <1>1, FS_Interval
<1>8. Cardinality(ToSet(x)) = Cardinality(1..n)
    BY <1>6, <1>7, FS_Bijection
<1> QED
    BY <1>7, <1>8 DEF n

\* A list that climbs through 1..n, taking every place, is 1..n.
LEMMA ClimbIsIdentity ==
    ASSUME NEW n \in Nat, NEW f \in [1..n -> 1..n],
           \A i, j \in 1..n : i < j => f[i] < f[j],
           \A k \in 1..n : \E i \in 1..n : f[i] = k
    PROVE  \A i \in 1..n : f[i] = i
<1> DEFINE B == {i \in 1..n : f[i] # i}
<1> SUFFICES ASSUME B # {} PROVE FALSE
    OBVIOUS
<1>1. B \in SUBSET (1..n) /\ B # {}
    OBVIOUS
<1> HIDE DEF B
<1>2. PICK k \in B : \A j \in B : k <= j
    BY <1>1, LeastIndex
<1>3. k \in 1..n /\ f[k] \in 1..n /\ f[k] # k
    BY <1>2 DEF B
<1>4. \A j \in 1..n : j < k => f[j] = j
    <2> SUFFICES ASSUME NEW j \in 1..n, j < k, f[j] # j PROVE FALSE
        OBVIOUS
    <2>1. k <= j
        BY <1>2 DEF B
    <2> QED BY <1>3, <2>1
<1>5. f[k] > k
    <2> SUFFICES ASSUME f[k] < k PROVE FALSE
        BY <1>3
    <2>1. f[f[k]] = f[k]
        BY <1>3, <1>4
    <2>2. f[f[k]] < f[k]
        BY <1>3
    <2> QED BY <1>3, <2>1, <2>2
<1>6. PICK p \in 1..n : f[p] = k
    BY <1>3
<1>7. p > k
    <2>1. p # k
        BY <1>3, <1>6
    <2>2. ~(p < k)
        <3> SUFFICES ASSUME p < k PROVE FALSE
            OBVIOUS
        <3>1. f[p] = p
            BY <1>4
        <3> QED BY <1>6, <2>1, <3>1
    <2> QED BY <1>3, <2>1, <2>2
<1>8. f[k] < f[p]
    BY <1>3, <1>7
<1> QED
    BY <1>3, <1>5, <1>6, <1>8

\* Sums of two reciprocals, cross-multiplied.
LEMMA ReciprocalsCompare ==
    ASSUME NEW va \in Nat \ {0}, NEW ga \in Nat \ {0}, NEW vb \in Nat \ {0}, NEW gb \in Nat \ {0}
    PROVE  /\ va < vb => va * ga < (va + ga) * vb
           /\ ga < gb => va * ga < (va + ga) * gb
           /\ va < vb /\ ga < gb => (vb + gb) * (va * ga) < (va + ga) * (vb * gb)
<1>1. \A x, y \in Nat : \A z \in Nat \ {0} : x < y => x * z < y * z
    OBVIOUS
<1>2. \A x, y, z \in Nat : (x + y) * z = x * z + y * z /\ x * y = y * x /\ (x * y) * z = x * (y * z)
    OBVIOUS
<1>3. \A x, y \in Nat : x * y \in Nat
    OBVIOUS
<1>4. ASSUME va < vb PROVE va * ga < (va + ga) * vb
    <2>1. va * ga < vb * ga
        BY <1>1, <1>4
    <2>2. (va + ga) * vb = va * vb + ga * vb /\ ga * vb = vb * ga /\ va * vb \in Nat
          /\ vb * ga \in Nat /\ va * ga \in Nat
        BY <1>2, <1>3
    <2> QED BY <2>1, <2>2
<1>5. ASSUME ga < gb PROVE va * ga < (va + ga) * gb
    <2>1. ga * va < gb * va
        BY <1>1, <1>5
    <2>2. /\ (va + ga) * gb = va * gb + ga * gb /\ va * gb = gb * va /\ va * ga = ga * va
          /\ gb * va \in Nat /\ ga * gb \in Nat /\ ga * va \in Nat
        BY <1>2, <1>3
    <2> QED BY <2>1, <2>2
<1>6. ASSUME va < vb, ga < gb PROVE (vb + gb) * (va * ga) < (va + ga) * (vb * gb)
    <2> DEFINE v == va * vb
               g == ga * gb
    <2>1. v \in Nat \ {0} /\ g \in Nat \ {0}
        OBVIOUS
    <2>2. vb * (va * ga) = ga * v /\ va * (vb * gb) = gb * v
        OBVIOUS
    <2>3. gb * (va * ga) = va * g /\ ga * (vb * gb) = vb * g
        OBVIOUS
    <2>4. (vb + gb) * (va * ga) = vb * (va * ga) + gb * (va * ga)
        OBVIOUS
    <2>5. (va + ga) * (vb * gb) = va * (vb * gb) + ga * (vb * gb)
        OBVIOUS
    <2> HIDE DEF v, g
    <2>6. ga * v < gb * v
        BY <1>1, <1>6, <2>1
    <2>7. va * g < vb * g
        BY <1>1, <1>6, <2>1
    <2>8. ga * v \in Nat /\ gb * v \in Nat /\ va * g \in Nat /\ vb * g \in Nat
        BY <1>3, <2>1
    <2> QED BY <2>2, <2>3, <2>4, <2>5, <2>6, <2>7, <2>8
<1> QED
    BY <1>4, <1>5, <1>6

\* Where a member of a list is.
LEMMA PosInIs ==
    ASSUME NEW S, NEW s \in Distinct(S), NEW d, In(d, s)
    PROVE  PosIn(d, s) \in DOMAIN s /\ s[PosIn(d, s)] = d /\ PosIn(d, s) \in Nat \ {0}
<1>1. \E i \in DOMAIN s : s[i] = d
    BY DEF In, ToSet
<1>2. PosIn(d, s) \in DOMAIN s /\ s[PosIn(d, s)] = d
    BY <1>1 DEF PosIn
<1>3. DOMAIN s = 1..Len(s) /\ Len(s) \in Nat
    BY DEF Distinct
<1> QED
    BY <1>2, <1>3

\* The first entries of a sequence.
LEMMA FirstsOf ==
    ASSUME NEW S, NEW s \in Seq(S), NEW n \in Nat
    PROVE  /\ Firsts(s, n) \in Seq(S) /\ Len(Firsts(s, n)) = IF n <= Len(s) THEN n ELSE Len(s)
           /\ \A i \in DOMAIN Firsts(s, n) : i \in DOMAIN s /\ Firsts(s, n)[i] = s[i]
<1> DEFINE m == IF n <= Len(s) THEN n ELSE Len(s)
           t == Firsts(s, n)
<1>1. DOMAIN s = 1..Len(s) /\ Len(s) \in Nat
    OBVIOUS
<1>2. m \in Nat /\ m <= Len(s)
    BY <1>1
<1>3. t = SubSeq(s, 1, m)
    BY DEF Firsts
<1> HIDE DEF m, t
<1>4. Len(t) = m /\ DOMAIN t = 1..m /\ t \in Seq(S) /\ \A i \in 1..m : t[i] = s[i] /\ i \in DOMAIN s
    BY <1>1, <1>2, <1>3
<1> QED
    BY <1>4 DEF m, t

\* The first entries of a list without repetition.
LEMMA CutOf ==
    ASSUME NEW S, NEW s \in Distinct(S), NEW n \in Nat
    PROVE  /\ Firsts(s, n) \in Distinct(S)
           /\ \A i \in DOMAIN Firsts(s, n) : i \in DOMAIN s /\ Firsts(s, n)[i] = s[i]
           /\ \A i \in DOMAIN Firsts(s, n), j \in DOMAIN s : j < i => j \in DOMAIN Firsts(s, n)
<1> DEFINE t == Firsts(s, n)
<1>1. s \in Seq(S) /\ DOMAIN s = 1..Len(s)
    BY DEF Distinct
<1>2. t \in Seq(S) /\ \A i \in DOMAIN t : i \in DOMAIN s /\ t[i] = s[i]
    BY <1>1, FirstsOf
<1> HIDE DEF t
<1>3. t \in Distinct(S)
    BY <1>2 DEF Distinct
<1>4. DOMAIN t = 1..Len(t) /\ Len(t) \in Nat
    BY <1>2
<1>5. \A i \in DOMAIN t, j \in DOMAIN s : j < i => j \in DOMAIN t
    BY <1>1, <1>4
<1> QED
    BY <1>2, <1>3, <1>5 DEF t

\* A drawer of the graph's list is mentioned, and every drawer mentioned more
\* often is in the list before it.
LEMMA GraphOrder ==
    ASSUME NEW m \in [Drawer -> Nat], NEW g \in GraphLists(m)
    PROVE  /\ g \in Distinct(Drawer)
           /\ \A b : In(b, g) =>
                 /\ b \in Drawer /\ m[b] > 0
                 /\ \A a \in Drawer : m[a] > m[b] => In(a, g) /\ PosIn(a, g) < PosIn(b, g)
<1> DEFINE M == {d \in Drawer : m[d] > 0}
           A == {l \in Lists : ToSet(l) = M /\ \A i, j \in DOMAIN l : i < j => m[l[i]] >= m[l[j]]}
<1>1. PICK s \in A : g = Firsts(s, TopK)
    BY DEF GraphLists
<1>2. /\ s \in Distinct(Drawer) /\ ToSet(s) = M
      /\ \A i, j \in DOMAIN s : i < j => m[s[i]] >= m[s[j]]
    BY ListsAreDistinct
<1>3. TopK \in Nat
    BY SearchAssumption
<1>4. /\ g \in Distinct(Drawer)
      /\ \A i \in DOMAIN g : i \in DOMAIN s /\ g[i] = s[i]
      /\ \A i \in DOMAIN g, j \in DOMAIN s : j < i => j \in DOMAIN g
    BY <1>1, <1>2, <1>3, CutOf
<1> HIDE DEF A
<1>5. DOMAIN s = 1..Len(s) /\ Len(s) \in Nat
    BY <1>2 DEF Distinct
<1>6. ASSUME NEW b, In(b, g)
      PROVE  /\ b \in Drawer /\ m[b] > 0
             /\ \A a \in Drawer : m[a] > m[b] => In(a, g) /\ PosIn(a, g) < PosIn(b, g)
    <2> DEFINE p == PosIn(b, g)
    <2>1. p \in DOMAIN g /\ g[p] = b
        BY <1>4, <1>6, PosInIs
    <2> HIDE DEF p
    <2>2. p \in DOMAIN s /\ s[p] = b
        BY <1>4, <2>1
    <2>3. b \in M
        BY <1>2, <2>2 DEF ToSet
    <2>4. ASSUME NEW a \in Drawer, m[a] > m[b] PROVE In(a, g) /\ PosIn(a, g) < p
        <3>0. m[a] \in Nat /\ m[b] \in Nat
            BY <2>3
        <3>1. a \in M
            BY <2>3, <2>4, <3>0
        <3>2. PICK k \in DOMAIN s : s[k] = a
            BY <1>2, <3>1 DEF ToSet
        <3>3. ~(p < k)
            BY <1>2, <2>2, <2>4, <3>0, <3>2
        <3>4. k # p
            BY <2>2, <2>4, <3>0, <3>2
        <3>5. k < p
            BY <1>5, <2>2, <3>2, <3>3, <3>4
        <3>6. k \in DOMAIN g /\ g[k] = a
            BY <1>4, <2>1, <3>2, <3>5
        <3>7. PosIn(a, g) = k /\ In(a, g)
            BY <1>4, <3>6, PlaceIn
        <3> QED BY <3>5, <3>7
    <2> QED BY <2>3, <2>4 DEF p
<1> QED
    BY <1>4, <1>6

\* A drawer ahead in every list that has the other one scores more.
LEMMA AheadScoresMore ==
    ASSUME NEW vec \in Distinct(Drawer), NEW g \in Distinct(Drawer), NEW a, NEW b, In(a, vec),
           In(b, vec) \/ In(b, g),
           In(b, vec) => PosIn(a, vec) < PosIn(b, vec),
           In(b, g) => In(a, g) /\ PosIn(a, g) < PosIn(b, g)
    PROVE  ~ScoresAtLeast(b, a, vec, g)
<1> DEFINE va == FusionK + PosIn(a, vec) - 1
           vb == FusionK + PosIn(b, vec) - 1
           ga == FusionK + PosIn(a, g) - 1
           gb == FusionK + PosIn(b, g) - 1
           x == Fraction(Denominators(b, vec, g))
           y == Fraction(Denominators(a, vec, g))
<1>0. \A d : (In(d, vec) => PosIn(d, vec) \in Nat \ {0}) /\ (In(d, g) => PosIn(d, g) \in Nat \ {0})
    BY PosInIs
<1>1. FusionK \in Nat \ {0}
    BY SearchAssumption
<1>2. va \in Nat \ {0} /\ (In(b, vec) => vb \in Nat \ {0} /\ va < vb)
    BY <1>0, <1>1
<1>3. (In(a, g) => ga \in Nat \ {0}) /\ (In(b, g) => gb \in Nat \ {0} /\ ga \in Nat \ {0} /\ ga < gb)
    BY <1>0, <1>1
<1>4. /\ Denominators(a, vec, g).v = va
      /\ Denominators(a, vec, g).g = IF In(a, g) THEN ga ELSE 0
      /\ Denominators(b, vec, g).v = IF In(b, vec) THEN vb ELSE 0
      /\ Denominators(b, vec, g).g = IF In(b, g) THEN gb ELSE 0
    BY DEF Denominators
<1> HIDE DEF va, vb, ga, gb
<1>5. y = IF In(a, g) THEN <<va + ga, va * ga>> ELSE <<1, va>>
    BY <1>2, <1>3, <1>4 DEF Fraction
<1>6. x = IF In(b, vec) THEN (IF In(b, g) THEN <<vb + gb, vb * gb>> ELSE <<1, vb>>) ELSE <<1, gb>>
    BY <1>2, <1>3, <1>4 DEF Fraction
<1>7. ScoresAtLeast(b, a, vec, g) <=> x[1] * y[2] >= y[1] * x[2]
    BY DEF ScoresAtLeast
<1> HIDE DEF x, y
<1> SUFFICES x[1] * y[2] < y[1] * x[2] /\ x[1] * y[2] \in Nat /\ y[1] * x[2] \in Nat
    BY <1>7
<1>8. \A m, n \in Nat : m + n \in Nat /\ m * n \in Nat /\ 1 * m = m
    OBVIOUS
<1>9. CASE In(b, vec) /\ In(b, g)
    <2>1. x[1] = vb + gb /\ x[2] = vb * gb /\ y[1] = va + ga /\ y[2] = va * ga
        BY <1>5, <1>6, <1>9
    <2>2. (vb + gb) * (va * ga) < (va + ga) * (vb * gb)
        BY <1>2, <1>3, <1>9, ReciprocalsCompare
    <2>3. (vb + gb) * (va * ga) \in Nat /\ (va + ga) * (vb * gb) \in Nat
        BY <1>2, <1>3, <1>8, <1>9
    <2> QED BY <2>1, <2>2, <2>3
<1>10. CASE In(b, vec) /\ ~In(b, g) /\ In(a, g)
    <2>1. x[1] = 1 /\ x[2] = vb /\ y[1] = va + ga /\ y[2] = va * ga
        BY <1>5, <1>6, <1>10
    <2>2. va * ga < (va + ga) * vb
        BY <1>2, <1>3, <1>10, ReciprocalsCompare
    <2>3. 1 * (va * ga) = va * ga /\ va * ga \in Nat /\ (va + ga) * vb \in Nat
        BY <1>2, <1>3, <1>8, <1>10
    <2> QED BY <2>1, <2>2, <2>3
<1>11. CASE In(b, vec) /\ ~In(b, g) /\ ~In(a, g)
    <2>1. x[1] = 1 /\ x[2] = vb /\ y[1] = 1 /\ y[2] = va
        BY <1>5, <1>6, <1>11
    <2> QED BY <1>2, <1>11, <2>1
<1>12. CASE ~In(b, vec) /\ In(b, g)
    <2>1. x[1] = 1 /\ x[2] = gb /\ y[1] = va + ga /\ y[2] = va * ga
        BY <1>5, <1>6, <1>12
    <2>2. va * ga < (va + ga) * gb
        BY <1>2, <1>3, <1>12, ReciprocalsCompare
    <2>3. 1 * (va * ga) = va * ga /\ va * ga \in Nat /\ (va + ga) * gb \in Nat
        BY <1>2, <1>3, <1>8, <1>12
    <2> QED BY <2>1, <2>2, <2>3
<1> QED
    BY <1>9, <1>10, <1>11, <1>12

\* What the fusion returns, for the request in `found'.
LEMMA FusedOrder ==
    ASSUME found.hits \in Distinct(Drawer), found.mentions \in [Drawer -> Nat], found.limit \in Nat,
           NEW g \in GraphLists(found.mentions), NEW l \in FusedLists(found.hits, g, found.limit)
    PROVE  /\ l \in Distinct(Drawer)
           /\ \A i \in DOMAIN l, a \in ToSet(found.hits) :
                 a # l[i] /\ BetterInBoth(a, l[i]) => In(a, l) /\ PosIn(a, l) < i
           /\ (\A d \in Drawer : found.mentions[d] = 0) => l = Firsts(found.hits, found.limit)
<1> DEFINE vec == found.hits
           m == found.mentions
           A == {s \in Lists : /\ ToSet(s) = ToSet(vec) \cup ToSet(g)
                               /\ \A i, j \in DOMAIN s : i < j => ScoresAtLeast(s[i], s[j], vec, g)}
<1>1. PICK s \in A : l = Firsts(s, found.limit)
    BY DEF FusedLists
<1>2. /\ s \in Distinct(Drawer) /\ ToSet(s) = ToSet(vec) \cup ToSet(g)
      /\ \A i, j \in DOMAIN s : i < j => ScoresAtLeast(s[i], s[j], vec, g)
    BY ListsAreDistinct
<1> HIDE DEF A
<1>3. /\ l \in Distinct(Drawer)
      /\ \A i \in DOMAIN l : i \in DOMAIN s /\ l[i] = s[i]
      /\ \A i \in DOMAIN l, j \in DOMAIN s : j < i => j \in DOMAIN l
    BY <1>1, <1>2, CutOf
<1>4. /\ g \in Distinct(Drawer)
      /\ \A b : In(b, g) =>
            /\ b \in Drawer /\ m[b] > 0
            /\ \A a \in Drawer : m[a] > m[b] => In(a, g) /\ PosIn(a, g) < PosIn(b, g)
    BY GraphOrder
<1>5. DOMAIN s = 1..Len(s) /\ Len(s) \in Nat /\ DOMAIN vec = 1..Len(vec) /\ Len(vec) \in Nat
      /\ s \in Seq(Drawer) /\ vec \in Seq(Drawer)
    BY <1>2 DEF Distinct
<1>6. \A d \in ToSet(vec) : d \in Drawer
    BY <1>5 DEF ToSet
<1>7. ASSUME NEW i \in DOMAIN l, NEW a \in ToSet(vec), a # l[i], BetterInBoth(a, l[i])
      PROVE  In(a, l) /\ PosIn(a, l) < i
    <2> DEFINE b == l[i]
    <2>1. i \in DOMAIN s /\ s[i] = b
        BY <1>3
    <2> HIDE DEF b
    <2>2. b \in ToSet(vec) \cup ToSet(g)
        BY <1>2, <2>1 DEF ToSet
    <2>3. In(a, vec) /\ a \in Drawer /\ (In(b, vec) \/ In(b, g))
        BY <1>6, <2>2 DEF In
    <2>4. /\ In(b, vec) => PosIn(a, vec) < PosIn(b, vec)
          /\ m[b] > 0 => m[a] > m[b]
        BY <1>7 DEF BetterInBoth, b
    <2>5. In(b, g) => In(a, g) /\ PosIn(a, g) < PosIn(b, g)
        BY <1>4, <2>3, <2>4
    <2>6. ~ScoresAtLeast(b, a, vec, g)
        BY <1>4, <2>3, <2>4, <2>5, AheadScoresMore
    <2>7. PICK k \in DOMAIN s : s[k] = a
        BY <1>2 DEF ToSet
    <2>8. ~(i < k)
        BY <1>2, <2>1, <2>6, <2>7
    <2>9. k < i
        BY <1>5, <1>7, <2>1, <2>7, <2>8 DEF b
    <2>10. k \in DOMAIN l /\ l[k] = a
        BY <1>3, <2>7, <2>9
    <2>11. PosIn(a, l) = k /\ In(a, l)
        BY <1>3, <2>10, PlaceIn
    <2> QED BY <2>9, <2>11
<1>8. ASSUME \A d \in Drawer : m[d] = 0
      PROVE  s = vec
    <2>1. \A b : ~In(b, g)
        BY <1>4, <1>8
    <2>2. ToSet(s) = ToSet(vec)
        BY <1>2, <2>1 DEF In
    <2>3. \A i, j \in DOMAIN s : i < j => PosIn(s[i], vec) < PosIn(s[j], vec)
        <3> SUFFICES ASSUME NEW i \in DOMAIN s, NEW j \in DOMAIN s, i < j
                     PROVE  PosIn(s[i], vec) < PosIn(s[j], vec)
            OBVIOUS
        <3> DEFINE a == s[i]
                   b == s[j]
        <3>1. In(a, vec) /\ In(b, vec)
            BY <2>2 DEF In, ToSet
        <3>2. a # b
            BY <1>2, <1>5 DEF Distinct
        <3>3. ScoresAtLeast(a, b, vec, g)
            BY <1>2
        <3> HIDE DEF a, b
        <3>4. ~(PosIn(b, vec) < PosIn(a, vec))
            BY <1>4, <2>1, <3>1, <3>3, AheadScoresMore
        <3>5. /\ PosIn(a, vec) \in Nat /\ vec[PosIn(a, vec)] = a
              /\ PosIn(b, vec) \in Nat /\ vec[PosIn(b, vec)] = b
            BY <3>1, PosInIs
        <3>6. PosIn(a, vec) # PosIn(b, vec)
            BY <3>2, <3>5
        <3> QED BY <3>4, <3>5, <3>6 DEF a, b
    <2>4. Len(s) = Len(vec)
        BY <1>2, <2>2, DistinctLength
    <2> DEFINE n == Len(s)
               f == [i \in 1..n |-> PosIn(s[i], vec)]
    <2>5. n \in Nat /\ DOMAIN s = 1..n /\ DOMAIN vec = 1..n
        BY <1>5, <2>4
    <2>6. \A i \in DOMAIN s : In(s[i], vec)
        BY <2>2 DEF In, ToSet
    <2>7. \A i \in DOMAIN s : PosIn(s[i], vec) \in DOMAIN vec /\ vec[PosIn(s[i], vec)] = s[i]
        BY <2>6, PosInIs
    <2> HIDE DEF n
    <2>8. f \in [1..n -> 1..n] /\ \A i, j \in 1..n : i < j => f[i] < f[j]
        BY <2>3, <2>5, <2>7
    <2>9. \A k \in 1..n : \E i \in 1..n : f[i] = k
        <3> SUFFICES ASSUME NEW k \in 1..n PROVE \E i \in 1..n : f[i] = k
            OBVIOUS
        <3>1. vec[k] \in ToSet(s)
            BY <2>2, <2>5 DEF ToSet
        <3>2. PICK i \in 1..n : s[i] = vec[k]
            BY <2>5, <3>1 DEF ToSet
        <3>3. PosIn(vec[k], vec) = k
            BY <2>5, PlaceIn
        <3> QED BY <3>2, <3>3
    <2> HIDE DEF f
    <2>10. \A i \in 1..n : f[i] = i
        BY <2>5, <2>8, <2>9, ClimbIsIdentity
    <2>11. \A i \in 1..n : s[i] = vec[i]
        BY <2>5, <2>7, <2>10 DEF f
    <2>12. \A x \in Seq(Drawer) : x = [i \in DOMAIN x |-> x[i]]
        OBVIOUS
    <2>13. s = [i \in DOMAIN s |-> s[i]] /\ vec = [i \in DOMAIN vec |-> vec[i]]
        BY <1>5, <2>12
    <2> QED BY <2>5, <2>11, <2>13
<1> QED
    BY <1>1, <1>3, <1>7, <1>8

\* The fetched hits of the kind the request asked for.
OfKind ==
    {d \in ToSet(found.hits) :
        \/ found.kind = "all"
        \/ found.kind = "content" /\ found.class[d] \in {"plain", "stub"}
        \/ found.kind = "checkpoint" /\ found.class[d] \in {"topic", "prefix"}}

SearchRecords ==
    [way : {"none", "search", "fused"}, hits : Lists, class : [Drawer -> Class], kind : Kind,
     mentions : [Drawer -> Nat], limit : Nat]
ReplyRecords ==
    [at : {"idle", "fetched", "rerank", "done"}, hits : Distinct(Drawer),
     status : {"none", "skipped", "failed", "ok"}]

\* Filtered or not, the hits of a search are the ones of the kind from the filter
\* on, and a status is there at the end only.
AnswerBooks ==
    /\ ranker \in {"none", "loaded", "failed"}
    /\ found \in SearchRecords /\ reply \in ReplyRecords
    /\ reply.at # "done" => reply.status = "none"
    /\ reply.at \in {"rerank", "done"} /\ found.way = "search" => ToSet(reply.hits) = OfKind
    /\ StubsBehind /\ FusionHonoursBoth

\* A request and an answer at rest.
LEMMA SearchConstants ==
    /\ NotAsked \in SearchRecords /\ NoReply \in ReplyRecords
    /\ <<>> \in Distinct(Drawer) /\ ToSet(<<>>) = {}
<1>1. <<>> \in Distinct(Drawer) /\ ToSet(<<>>) = {}
    BY DEF Distinct, ToSet
<1>2. 0 \in 0..Cardinality(Drawer) /\ <<>> \in [1..0 -> Drawer]
    BY SearchAssumption, FS_CardinalityType
<1>3. <<>> \in Lists
    BY <1>2 DEF Lists, IsInjective
<1>4. NotAsked \in SearchRecords
    BY <1>3 DEF NotAsked, SearchRecords, Class, Kind
<1>5. NoReply \in ReplyRecords
    BY <1>1 DEF NoReply, ReplyRecords
<1> QED
    BY <1>1, <1>4, <1>5

\* The kind filter: none twice, and the hits of the kind.
LEMMA FilterIsOfKind ==
    ASSUME found \in SearchRecords
    PROVE  /\ ApplyKind(found.hits, found.kind) \in Distinct(Drawer)
           /\ ToSet(ApplyKind(found.hits, found.kind)) = OfKind
<1> DEFINE s == found.hits
           I == {i \in DOMAIN s : CASE found.kind = "all" -> TRUE
                                    [] found.kind = "checkpoint" -> IsCheckpoint(s[i])
                                    [] found.kind = "content" -> ~IsCheckpoint(s[i])}
<1>1. s \in Distinct(Drawer) /\ found.kind \in Kind /\ found.class \in [Drawer -> Class]
    BY ListsAreDistinct DEF SearchRecords
<1>2. \A i \in DOMAIN s : s[i] \in Drawer
    BY <1>1 DEF Distinct
<1>3. I \in SUBSET (DOMAIN s) /\ ApplyKind(s, found.kind) = Pick(s, I)
    BY DEF ApplyKind
<1>4. {s[i] : i \in I} = OfKind
    <2>1. \A i \in DOMAIN s : found.class[s[i]] \in Class
        BY <1>1, <1>2
    <2>2. \A i \in DOMAIN s : i \in I <=>
             \/ found.kind = "all"
             \/ found.kind = "content" /\ found.class[s[i]] \in {"plain", "stub"}
             \/ found.kind = "checkpoint" /\ found.class[s[i]] \in {"topic", "prefix"}
        BY <1>1, <2>1 DEF Kind, Class, IsCheckpoint
    <2>3. ToSet(s) = {s[i] : i \in DOMAIN s}
        BY DEF ToSet
    <2> HIDE DEF I, s
    <2> QED BY <1>3, <2>2, <2>3 DEF OfKind, s
<1> HIDE DEF I, s
<1>5. Pick(s, I) \in Distinct(Drawer) /\ ToSet(Pick(s, I)) = {s[i] : i \in I}
    BY <1>1, <1>3, PickDistinct
<1> QED
    BY <1>3, <1>4, <1>5 DEF s

\* rerank_hits(): every hit once, those without text behind.
LEMMA ReorderedKeepsHits ==
    ASSUME NEW hits \in Distinct(Drawer), NEW scored \in Distinct(Drawer),
           \A d \in ToSet(scored) : In(d, hits) /\ Rankable(d)
    PROVE  LET r == Reordered(hits, scored)
           IN  /\ r \in Distinct(Drawer) /\ ToSet(r) = ToSet(hits)
               /\ \A i, j \in DOMAIN r : i < j /\ ~Rankable(r[i]) => ~Rankable(r[j])
<1> DEFINE I == {i \in DOMAIN hits : Rankable(hits[i]) /\ hits[i] \notin ToSet(scored)}
           J == {i \in DOMAIN hits : ~Rankable(hits[i])}
           p == Pick(hits, I)
           q == Pick(hits, J)
           h == scored \o p
           r == h \o q
<1>1. p \in Distinct(Drawer) /\ ToSet(p) = {hits[i] : i \in I}
    <2>1. I \in SUBSET (DOMAIN hits)
        OBVIOUS
    <2> HIDE DEF I
    <2> QED BY <2>1, PickDistinct
<1>2. q \in Distinct(Drawer) /\ ToSet(q) = {hits[i] : i \in J}
    <2>1. J \in SUBSET (DOMAIN hits)
        OBVIOUS
    <2> HIDE DEF J
    <2> QED BY <2>1, PickDistinct
<1>3. Reordered(hits, scored) = r
    BY DEF Reordered
<1> HIDE DEF p, q
<1>4. ToSet(scored) \cap ToSet(p) = {}
    BY <1>1
<1>5. h \in Distinct(Drawer) /\ ToSet(h) = ToSet(scored) \cup ToSet(p)
    BY <1>1, <1>4, ConcatDistinct
<1> HIDE DEF h
<1>6. (\A d \in ToSet(h) : Rankable(d)) /\ \A d \in ToSet(q) : ~Rankable(d)
    BY <1>1, <1>2, <1>5
<1>7. ToSet(h) \cap ToSet(q) = {}
    BY <1>6
<1>8. r \in Distinct(Drawer) /\ ToSet(r) = ToSet(h) \cup ToSet(q)
    BY <1>2, <1>5, <1>7, ConcatDistinct
<1>9. ToSet(r) = ToSet(hits)
    <2>1. ToSet(hits) = {hits[i] : i \in DOMAIN hits}
        BY DEF ToSet
    <2>2. ToSet(scored) \subseteq ToSet(hits)
        BY DEF In
    <2>3. ToSet(p) \cup ToSet(q) \subseteq ToSet(hits)
        BY <1>1, <1>2, <2>1
    <2>4. \A i \in DOMAIN hits : hits[i] \in ToSet(scored) \cup ToSet(p) \cup ToSet(q)
        BY <1>1, <1>2
    <2>5. ToSet(hits) \subseteq ToSet(scored) \cup ToSet(p) \cup ToSet(q)
        BY <2>1, <2>4
    <2> HIDE DEF r, I, J
    <2> QED BY <1>5, <1>8, <2>2, <2>3, <2>5
<1>10. ASSUME NEW i \in DOMAIN r, NEW j \in DOMAIN r, i < j, ~Rankable(r[i])
       PROVE  ~Rankable(r[j])
    <2> DEFINE n == Len(h)
    <2>1. h \in Seq(Drawer) /\ q \in Seq(Drawer)
        BY <1>2, <1>5 DEF Distinct
    <2>2. /\ n \in Nat /\ Len(q) \in Nat /\ DOMAIN h = 1..n /\ DOMAIN r = 1..(n + Len(q)) /\ DOMAIN q = 1..Len(q)
          /\ \A k \in DOMAIN r : k <= n => r[k] = h[k] /\ k \in DOMAIN h
          /\ \A k \in DOMAIN r : k > n => r[k] = q[k - n] /\ k - n \in DOMAIN q
        BY <2>1
    <2> HIDE DEF n, r
    <2>3. ~(i <= n)
        <3> SUFFICES ASSUME i <= n PROVE FALSE
            OBVIOUS
        <3>1. r[i] = h[i] /\ i \in DOMAIN h
            BY <2>2
        <3>2. r[i] \in ToSet(h)
            BY <3>1 DEF ToSet
        <3> QED BY <1>6, <1>10, <3>2
    <2>4. j > n
        BY <1>10, <2>2, <2>3
    <2>5. r[j] = q[j - n] /\ j - n \in DOMAIN q
        BY <2>2, <2>4
    <2>6. r[j] \in ToSet(q)
        BY <2>5 DEF ToSet
    <2> QED BY <1>6, <2>6
<1> HIDE DEF r
<1> QED
    BY <1>3, <1>8, <1>9, <1>10

\* Every action of search and reranking keeps the answer what the request asked
\* for.
LEMMA AnswerStep == AnswerBooks /\ [SearchNext]_searchVars => AnswerBooks'
<1> SUFFICES ASSUME AnswerBooks, [SearchNext]_searchVars PROVE AnswerBooks'
    OBVIOUS
<1>1. /\ ranker \in {"none", "loaded", "failed"} /\ found \in SearchRecords /\ reply \in ReplyRecords
      /\ reply.at # "done" => reply.status = "none"
    BY DEF AnswerBooks
<1>2. ASSUME UNCHANGED <<found, reply>>, ranker' \in {"none", "loaded", "failed"} PROVE AnswerBooks'
    BY <1>2 DEF AnswerBooks, OfKind, StubsBehind, Rankable, FusionHonoursBoth, BetterInBoth
<1>3. ASSUME NEW c \in RankCaller, GetRanker(c) PROVE AnswerBooks'
    <2>1. UNCHANGED <<found, reply>> /\ ranker' \in {"none", "loaded", "failed"}
        BY <1>1, <1>3 DEF GetRanker, WantRanker, LockRanker, LoadRanker
    <2> QED BY <1>2, <2>1
<1>4. ASSUME ranker' = ranker, found' \in SearchRecords, reply' \in ReplyRecords, reply'.at = "fetched",
             reply'.status = "none"
      PROVE  AnswerBooks'
    BY <1>1, <1>4 DEF AnswerBooks, StubsBehind, FusionHonoursBoth
<1>5. ASSUME NEW hits \in Lists, NEW class \in [Drawer -> Class], NEW kind \in Kind, Search(hits, class, kind)
      PROVE  AnswerBooks'
    <2>1. /\ ranker' = ranker
          /\ found' = [NotAsked EXCEPT !.way = "search", !.hits = hits, !.class = class, !.kind = kind]
          /\ reply' = [NoReply EXCEPT !.at = "fetched"]
        BY <1>5 DEF Search
    <2>2. found' \in SearchRecords
        BY <2>1, SearchConstants DEF SearchRecords
    <2>3. reply' = [at |-> "fetched", hits |-> <<>>, status |-> "none"]
        BY <2>1 DEF NoReply
    <2>4. reply' \in ReplyRecords
        BY <2>3, SearchConstants DEF ReplyRecords
    <2> QED BY <1>4, <2>1, <2>2, <2>3, <2>4
<1>6. ASSUME NEW hits \in Lists, NEW class \in [Drawer -> Class], SearchUnfiltered(hits, class)
      PROVE  AnswerBooks'
    <2>1. /\ ranker' = ranker
          /\ found' = [NotAsked EXCEPT !.way = "search", !.hits = hits, !.class = class]
          /\ reply' = [at |-> "rerank", hits |-> hits, status |-> "none"]
        BY <1>6 DEF SearchUnfiltered, NoReply
    <2>2. found' \in SearchRecords
        BY <2>1, SearchConstants DEF SearchRecords
    <2>3. found'.hits = hits /\ found'.kind = "all" /\ found'.way = "search"
        BY <2>1 DEF NotAsked
    <2>4. reply' \in ReplyRecords
        BY <2>1, ListsAreDistinct DEF ReplyRecords
    <2>5. ToSet(reply'.hits) = OfKind'
        BY <2>1, <2>3 DEF OfKind
    <2> QED BY <1>1, <2>1, <2>2, <2>3, <2>4, <2>5 DEF AnswerBooks, StubsBehind, FusionHonoursBoth
<1>7. ASSUME NEW hits \in Lists, NEW class \in [Drawer -> Class], NEW m \in [Drawer -> 0..2],
             NEW limit \in 1..MaxLimit, SearchAgeFused(hits, class, m, limit)
      PROVE  AnswerBooks'
    <2>1. /\ ranker' = ranker
          /\ found' = [NotAsked EXCEPT !.way = "fused", !.hits = hits, !.class = class,
                                       !.mentions = m, !.limit = limit]
          /\ reply' = [at |-> "fetched", hits |-> <<>>, status |-> "none"]
        BY <1>7 DEF SearchAgeFused, NoReply
    <2>2. m \in [Drawer -> Nat] /\ limit \in Nat
        BY SearchAssumption
    <2>3. found' \in SearchRecords
        BY <2>1, <2>2, SearchConstants DEF SearchRecords
    <2>4. reply' \in ReplyRecords
        BY <2>1, SearchConstants DEF ReplyRecords
    <2> QED BY <1>4, <2>1, <2>3, <2>4
<1>8. CASE FilterKind
    <2> DEFINE l == ApplyKind(found.hits, found.kind)
    <2>1. /\ found.way = "search" /\ reply.at = "fetched"
          /\ reply' = [reply EXCEPT !.at = "rerank", !.hits = l]
          /\ UNCHANGED <<ranker, found>>
        BY <1>8 DEF FilterKind
    <2>2. l \in Distinct(Drawer) /\ ToSet(l) = OfKind
        BY <1>1, FilterIsOfKind
    <2> HIDE DEF l
    <2>3. reply' \in ReplyRecords /\ reply'.at = "rerank" /\ reply'.hits = l /\ reply'.status = "none"
        BY <1>1, <2>1, <2>2 DEF ReplyRecords
    <2>4. OfKind' = OfKind
        BY <2>1 DEF OfKind
    <2> QED BY <1>1, <2>1, <2>2, <2>3, <2>4 DEF AnswerBooks, StubsBehind, FusionHonoursBoth
<1>9. CASE Fuse
    <2>1. PICK g \in GraphLists(found.mentions) :
             \E l \in FusedLists(found.hits, g, found.limit) :
                reply' = [reply EXCEPT !.at = "rerank", !.hits = l]
        BY <1>9 DEF Fuse
    <2>2. PICK l \in FusedLists(found.hits, g, found.limit) :
             reply' = [reply EXCEPT !.at = "rerank", !.hits = l]
        BY <2>1
    <2>3. UNCHANGED <<ranker, found>> /\ reply.at = "fetched" /\ found.way = "fused"
        BY <1>9 DEF Fuse
    <2>4. found.hits \in Distinct(Drawer) /\ found.mentions \in [Drawer -> Nat] /\ found.limit \in Nat
        BY <1>1, ListsAreDistinct DEF SearchRecords
    <2>5. /\ l \in Distinct(Drawer)
          /\ \A i \in DOMAIN l, a \in ToSet(found.hits) :
                a # l[i] /\ BetterInBoth(a, l[i]) => In(a, l) /\ PosIn(a, l) < i
          /\ (\A d \in Drawer : found.mentions[d] = 0) => l = Firsts(found.hits, found.limit)
        BY <2>4, FusedOrder
    <2>6. reply' \in ReplyRecords /\ reply'.at = "rerank" /\ reply'.hits = l /\ reply'.status = "none"
        BY <1>1, <2>2, <2>3, <2>5 DEF ReplyRecords
    <2>7. FusionHonoursBoth'
        BY <2>3, <2>5, <2>6 DEF FusionHonoursBoth, BetterInBoth
    <2>8. StubsBehind'
        BY <2>6 DEF StubsBehind
    <2> QED BY <1>1, <2>3, <2>6, <2>7, <2>8 DEF AnswerBooks
<1>10. CASE RerankSkips \/ RerankFails
    <2>1. /\ reply.at = "rerank" /\ UNCHANGED <<ranker, found>>
          /\ \E st \in {"skipped", "failed"} : reply' = [reply EXCEPT !.at = "done", !.status = st]
        BY <1>10 DEF RerankSkips, RerankFails
    <2>2. /\ reply' \in ReplyRecords /\ reply'.at = "done" /\ reply'.hits = reply.hits
          /\ reply'.status \in {"skipped", "failed"}
        BY <1>1, <2>1 DEF ReplyRecords
    <2>3. found'.way = "search" => ToSet(reply'.hits) = OfKind'
        BY <2>1, <2>2 DEF AnswerBooks, OfKind
    <2> QED BY <1>1, <2>1, <2>2, <2>3 DEF AnswerBooks, StubsBehind, FusionHonoursBoth
<1>11. ASSUME NEW scored \in Lists, RerankOrders(scored) PROVE AnswerBooks'
    <2> DEFINE r == Reordered(reply.hits, scored)
    <2>1. /\ reply.at = "rerank" /\ UNCHANGED <<ranker, found>>
          /\ \A d \in ToSet(scored) : In(d, reply.hits) /\ Rankable(d)
          /\ reply' = [reply EXCEPT !.at = "done", !.status = "ok", !.hits = r]
        BY <1>11 DEF RerankOrders
    <2>2. reply.hits \in Distinct(Drawer) /\ scored \in Distinct(Drawer)
        BY <1>1, ListsAreDistinct DEF ReplyRecords
    <2>3. /\ r \in Distinct(Drawer) /\ ToSet(r) = ToSet(reply.hits)
          /\ \A i, j \in DOMAIN r : i < j /\ ~Rankable(r[i]) => ~Rankable(r[j])
        BY <2>1, <2>2, ReorderedKeepsHits
    <2> HIDE DEF r
    <2>4. reply' \in ReplyRecords /\ reply'.at = "done" /\ reply'.hits = r /\ reply'.status = "ok"
        BY <1>1, <2>1, <2>3 DEF ReplyRecords
    <2>5. found'.way = "search" => ToSet(reply'.hits) = OfKind'
        BY <2>1, <2>3, <2>4 DEF AnswerBooks, OfKind
    <2>6. StubsBehind'
        BY <2>1, <2>3, <2>4 DEF StubsBehind, Rankable
    <2> QED BY <1>1, <2>1, <2>4, <2>5, <2>6 DEF AnswerBooks, FusionHonoursBoth
<1>12. CASE UNCHANGED searchVars
    BY <1>1, <1>2, <1>12 DEF searchVars
<1>13. CASE SearchNext
    <2>1. CASE Asking /\ \E hits \in Lists, class \in [Drawer -> Class] :
                  \/ \E kind \in Kind : Search(hits, class, kind)
                  \/ SearchUnfiltered(hits, class)
                  \/ /\ \A d \in Drawer : class[d] \in {"plain", "stub"}
                     /\ \E m \in [Drawer -> 0..2], limit \in 1..MaxLimit :
                           SearchAgeFused(hits, class, m, limit)
        BY <1>5, <1>6, <1>7, <2>1
    <2> QED BY <1>3, <1>8, <1>9, <1>10, <1>11, <1>13, <2>1 DEF SearchNext
<1> QED
    BY <1>12, <1>13

\* The search endpoints and their reranking, any drawers, threads and limits: one
\* load of the ranker, and from each endpoint the hits it fetched, of the kind
\* asked for, in an order no input contradicts.
THEOREM SearchCorrectHolds == SearchSpec => []SearchCorrect
<1>1. SearchInit => RankerBooks /\ AnswerBooks
    <2> SUFFICES ASSUME SearchInit PROVE RankerBooks /\ AnswerBooks
        OBVIOUS
    <2>1. RankerBooks
        BY DEF SearchInit, RankerBooks
    <2>2. ranker = "none" /\ found = NotAsked /\ reply = NoReply
        BY DEF SearchInit
    <2>3. reply.at = "idle" /\ reply.status = "none"
        BY <2>2 DEF NoReply
    <2>4. StubsBehind /\ FusionHonoursBoth
        BY <2>3 DEF StubsBehind, FusionHonoursBoth
    <2> QED BY <2>1, <2>2, <2>3, <2>4, SearchConstants DEF AnswerBooks
<1>2. RankerBooks /\ AnswerBooks => SearchCorrect
    <2> SUFFICES ASSUME RankerBooks, AnswerBooks PROVE SearchCorrect
        OBVIOUS
    <2>1. /\ reply.hits \in Distinct(Drawer) /\ reply.status \in {"none", "skipped", "failed", "ok"}
          /\ found.hits \in Lists /\ found.kind \in Kind
        BY DEF AnswerBooks, ReplyRecords, SearchRecords
    <2>2. ToSet(reply.hits) \subseteq Drawer /\ IsInjective(reply.hits)
        BY <2>1 DEF Distinct, ToSet, IsInjective
    <2>3. SearchTypeOK
        BY <2>1, <2>2 DEF SearchTypeOK, RankerBooks, AnswerBooks
    <2>4. SearchAnswersKind
        BY <2>2 DEF AnswerBooks, SearchAnswersKind, OfKind
    <2>5. RankerLoadedOnce
        BY DEF RankerBooks, RankerLoadedOnce
    <2> QED BY <2>3, <2>4, <2>5 DEF AnswerBooks, SearchCorrect
<1> QED
    BY <1>1, <1>2, AnswerStep, RankerStep, PTL DEF SearchSpec

-----------------------------------------------------------------------------
(* The paged listings.                                                     *)

\* ORDER BY a total order: every element once, at the place of its rank, each
\* before the ones that come after it.
LEMMA InOrderIs ==
    ASSUME NEW S, IsFiniteSet(S), NEW R, Orders(R, S)
    PROVE  /\ Cardinality(S) \in Nat /\ InOrder(S, R) \in Distinct(S) /\ Len(InOrder(S, R)) = Cardinality(S)
           /\ ToSet(InOrder(S, R)) = S
           /\ \A k \in DOMAIN InOrder(S, R) :
                 InOrder(S, R)[k] \in S /\ RankIn(InOrder(S, R)[k], R, S) = k - 1
           /\ \A i, j \in DOMAIN InOrder(S, R) :
                 i < j => <<InOrder(S, R)[i], InOrder(S, R)[j]>> \in R
<1> DEFINE n == Cardinality(S)
           at(k) == CHOOSE i \in S : Cardinality({j \in S : <<j, i>> \in R}) = k - 1
           o == InOrder(S, R)
<1>1. n \in Nat
    BY FS_CardinalityType
<1>2. o = [k \in 1..n |-> at(k)]
    BY DEF InOrder
<1>3. ASSUME NEW k \in 1..n PROVE at(k) \in S /\ RankIn(at(k), R, S) = k - 1
    <2>1. k - 1 \in 0..(n - 1)
        BY <1>1
    <2>2. \E x \in S : RankIn(x, R, S) = k - 1
        BY <2>1, RankBijective
    <2>3. \E x \in S : Cardinality({j \in S : <<j, x>> \in R}) = k - 1
        BY <2>2 DEF RankIn
    <2>4. at(k) \in S /\ Cardinality({j \in S : <<j, at(k)>> \in R}) = k - 1
        BY <2>3
    <2> QED BY <2>4 DEF RankIn
<1>4. /\ \A x \in S : RankIn(x, R, S) \in 0..(n - 1)
      /\ \A x, y \in S : <<x, y>> \in R => RankIn(x, R, S) < RankIn(y, R, S)
    BY RankMonotonic
<1>5. \A x, y \in S : RankIn(x, R, S) = RankIn(y, R, S) => x = y
    BY RankBijective
<1> HIDE DEF at, n, o
<1>6. DOMAIN o = 1..n /\ o \in Seq(S) /\ Len(o) = n /\ \A k \in 1..n : o[k] = at(k)
    BY <1>1, <1>2, <1>3
<1>7. \A k \in DOMAIN o : o[k] \in S /\ RankIn(o[k], R, S) = k - 1
    BY <1>3, <1>6
<1>8. o \in Distinct(S)
    <2>1. \A i, j \in DOMAIN o : o[i] = o[j] => i - 1 = j - 1
        BY <1>7
    <2>2. \A i, j \in DOMAIN o : i - 1 = j - 1 => i = j
        BY <1>6
    <2> QED BY <1>6, <2>1, <2>2 DEF Distinct
<1>9. ToSet(o) = S
    <2>1. ToSet(o) \subseteq S
        BY <1>7 DEF ToSet
    <2>2. ASSUME NEW x \in S PROVE x \in ToSet(o)
        <3> DEFINE k == RankIn(x, R, S) + 1
        <3>1. k \in 1..n /\ k - 1 = RankIn(x, R, S)
            BY <1>1, <1>4
        <3> HIDE DEF k
        <3>2. o[k] \in S /\ RankIn(o[k], R, S) = RankIn(x, R, S)
            BY <1>6, <1>7, <3>1
        <3>3. o[k] = x
            BY <1>5, <3>2
        <3> QED BY <1>6, <3>1, <3>3 DEF ToSet
    <2> QED BY <2>1, <2>2
<1>10. ASSUME NEW i \in DOMAIN o, NEW j \in DOMAIN o, i < j PROVE <<o[i], o[j]>> \in R
    <2>1. i \in Int /\ j \in Int
        BY <1>6
    <2>2. o[i] \in S /\ o[j] \in S /\ RankIn(o[i], R, S) = i - 1 /\ RankIn(o[j], R, S) = j - 1
        BY <1>7
    <2>3. o[i] # o[j]
        BY <1>10, <2>1, <2>2
    <2>4. <<o[j], o[i]>> \notin R
        <3> SUFFICES ASSUME <<o[j], o[i]>> \in R PROVE FALSE
            OBVIOUS
        <3>1. RankIn(o[j], R, S) < RankIn(o[i], R, S)
            BY <1>4, <2>2
        <3> QED BY <1>10, <2>1, <2>2, <3>1
    <2> QED BY <2>2, <2>3, <2>4 DEF Orders
<1> QED
    BY <1>1, <1>6, <1>7, <1>8, <1>9, <1>10 DEF n, o

\* A table of the model.
IsTable == rows \in [DOMAIN rows -> Keys] /\ DOMAIN rows \subseteq RowId

\* The sort orders of the listings are total, so that ORDER BY leaves nothing to
\* chance.
LEMMA RowOrders ==
    ASSUME IsTable, NEW S \in SUBSET DOMAIN rows
    PROVE  /\ IsFiniteSet(S) /\ Orders(FiledBefore, S) /\ Orders(ById, S)
           /\ Orders(Stronger, S) /\ Orders(ByWing, S)
<1>1. \A i \in S : i \in DOMAIN rows /\ i \in Nat \ {0} /\ rows[i] \in Nat
    BY ListingsAssumption DEF IsTable, Keys, Anchor, Orphan, Legacy
<1>2. IsFiniteSet(S)
    <2>1. S \in SUBSET RowId
        BY DEF IsTable
    <2> QED BY <2>1, ListingsAssumption, FS_Subset
<1>3. \A x, y \in S : <<x, y>> \in FiledBefore <=>
          \/ rows[x] = rows[y] /\ x < y
          \/ rows[x] # Undated /\ (rows[y] = Undated \/ rows[x] < rows[y])
    BY <1>1 DEF FiledBefore, Pairs
<1>4. \A x, y \in S : <<x, y>> \in ById <=> x < y
    BY <1>1 DEF ById, Pairs
<1>5. \A x, y \in S : <<x, y>> \in Stronger <=> rows[x] > rows[y] \/ (rows[x] = rows[y] /\ x < y)
    BY <1>1 DEF Stronger, Pairs
<1>6. \A x, y \in S : <<x, y>> \in ByWing <=> rows[x] < rows[y] \/ (rows[x] = rows[y] /\ x < y)
    BY <1>1 DEF ByWing, Pairs
<1>7. Orders(FiledBefore, S)
    BY <1>1, <1>3 DEF Orders, Undated
<1>8. Orders(ById, S)
    BY <1>1, <1>4 DEF Orders
<1>9. Orders(Stronger, S)
    BY <1>1, <1>5 DEF Orders
<1>10. Orders(ByWing, S)
    BY <1>1, <1>6 DEF Orders
<1> QED
    BY <1>2, <1>7, <1>8, <1>9, <1>10

\* A page has room for one row at least.
LEMMA ClampedIs ==
    ASSUME NEW limit \in Nat
    PROVE  Clamped(limit) \in Nat \ {0}
<1> DEFINE m == Min({limit, MaxPage})
<1>1. m \in Nat
    BY ListingsAssumption, MinOfTwo
<1> HIDE DEF m
<1>2. Max({1, m}) \in {1, m} /\ Max({1, m}) >= 1
    <2> DEFINE x == IF m >= 1 THEN m ELSE 1
    <2>1. x \in {1, m} /\ \A y \in {1, m} : x >= y
        BY <1>1
    <2>2. Max({1, m}) \in {1, m} /\ \A y \in {1, m} : Max({1, m}) >= y
        BY <2>1 DEF Max
    <2> QED BY <2>2
<1>3. Max({1, m}) \in Nat \ {0}
    BY <1>1, <1>2
<1> QED
    BY <1>3 DEF Clamped, m

\* Reading on where the last page ended.
LEMMA NextOfFirsts ==
    ASSUME NEW S, NEW all \in Seq(S), NEW o \in Nat, o <= Len(all), NEW page \in Seq(S),
           o + Len(page) <= Len(all), \A k \in 1..Len(page) : page[k] = all[o + k]
    PROVE  Firsts(all, o) \o page = Firsts(all, o + Len(page))
<1> DEFINE f == Firsts(all, o)
           n == Len(page)
           g == Firsts(all, o + n)
           h == f \o page
<1>1. n \in Nat /\ Len(all) \in Nat /\ o + n \in Nat
    OBVIOUS
<1>2. f \in Seq(S) /\ Len(f) = o /\ \A i \in DOMAIN f : f[i] = all[i]
    BY <1>1, FirstsOf
<1>3. g \in Seq(S) /\ Len(g) = o + n /\ \A i \in DOMAIN g : g[i] = all[i]
    BY <1>1, FirstsOf
<1> HIDE DEF f, g, n
<1>4. DOMAIN f = 1..o /\ DOMAIN g = 1..(o + n)
    BY <1>1, <1>2, <1>3
<1>5. /\ h \in Seq(S) /\ Len(h) = o + n /\ \A i \in 1..o : h[i] = f[i]
      /\ \A i \in (o + 1)..(o + n) : h[i] = page[i - o] /\ i - o \in 1..n /\ o + (i - o) = i
    <2>1. h \in Seq(S) /\ Len(h) = Len(f) + Len(page)
        BY <1>2
    <2>2. \A i \in 1..Len(f) : h[i] = f[i]
        BY <1>2
    <2>3. \A i \in (Len(f) + 1)..(Len(f) + Len(page)) : h[i] = page[i - Len(f)]
        BY <1>2
    <2> HIDE DEF h
    <2>4. Len(f) = o /\ Len(page) = n /\ n \in Nat /\ o \in Nat
        BY <1>1, <1>2 DEF n
    <2>5. \A i \in (o + 1)..(o + n) : i - o \in 1..n /\ o + (i - o) = i
        BY <2>4
    <2> QED
        BY <2>1, <2>2, <2>3, <2>4, <2>5
<1> HIDE DEF h
<1>6. ASSUME NEW i \in 1..(o + n) PROVE h[i] = g[i]
    <2>1. g[i] = all[i]
        BY <1>3, <1>4
    <2>2. CASE i \in 1..o
        BY <1>2, <1>4, <1>5, <2>1, <2>2
    <2>3. CASE i \in (o + 1)..(o + n)
        <3>1. h[i] = page[i - o] /\ i - o \in 1..n /\ o + (i - o) = i
            BY <1>5, <2>3
        <3>2. page[i - o] = all[o + (i - o)]
            BY <3>1 DEF n
        <3> QED BY <2>1, <3>1, <3>2
    <2> QED BY <1>1, <2>2, <2>3
<1>7. \A x \in Seq(S) : x = [i \in 1..Len(x) |-> x[i]]
    OBVIOUS
<1>8. h = [i \in 1..(o + n) |-> h[i]] /\ g = [i \in 1..(o + n) |-> g[i]]
    BY <1>3, <1>5, <1>7
<1> QED
    BY <1>6, <1>8 DEF f, g, h, n

\* A list without repetition of elements of a subset.
LEMMA DistinctMonotone ==
    ASSUME NEW S, NEW T \in SUBSET S, NEW s \in Distinct(T)
    PROVE  s \in Distinct(S)
BY DEF Distinct

\* The drawers a page of /window is taken from.
WindowSet(w) == {i \in DOMAIN rows : InBounds(i, w.since, w.before) /\ AfterCursor(i, w.cursor)}

\* A page of /window: some of these drawers, all of them unless it is full; what
\* is left comes after its last one.
LEMMA WindowRowsAre ==
    ASSUME IsTable, NEW w, w.limit \in Nat
    PROVE  /\ WindowRows(w) \in Distinct(RowId) /\ ToSet(WindowRows(w)) \subseteq WindowSet(w)
           /\ Len(WindowRows(w)) # Clamped(w.limit) => ToSet(WindowRows(w)) = WindowSet(w)
           /\ Len(WindowRows(w)) = Clamped(w.limit) => Last(WindowRows(w)) \in ToSet(WindowRows(w))
           /\ \A i \in ToSet(WindowRows(w)) :
                 i = Last(WindowRows(w)) \/ <<i, Last(WindowRows(w))>> \in FiledBefore
           /\ \A i \in WindowSet(w) \ ToSet(WindowRows(w)) : <<Last(WindowRows(w)), i>> \in FiledBefore
<1> DEFINE A == WindowSet(w)
           n == Clamped(w.limit)
           o == InOrder(A, FiledBefore)
           page == WindowRows(w)
<1>1. A \in SUBSET DOMAIN rows
    BY DEF WindowSet
<1>2. n \in Nat \ {0}
    BY ClampedIs
<1>3. page = Firsts(o, n)
    BY DEF WindowRows, WindowSet
<1>4. IsFiniteSet(A) /\ Orders(FiledBefore, A)
    BY <1>1, RowOrders
<1> HIDE DEF A
<1>5. /\ o \in Distinct(A) /\ ToSet(o) = A
      /\ \A i, j \in DOMAIN o : i < j => <<o[i], o[j]>> \in FiledBefore
    BY <1>4, InOrderIs
<1> HIDE DEF o, n, page
<1>6. o \in Seq(A)
    BY <1>5 DEF Distinct
<1>7. /\ page \in Seq(A) /\ Len(page) = IF n <= Len(o) THEN n ELSE Len(o)
      /\ \A i \in DOMAIN page : i \in DOMAIN o /\ page[i] = o[i]
    BY <1>2, <1>3, <1>6, FirstsOf
<1>8. page \in Distinct(A)
    BY <1>2, <1>3, <1>5, CutOf
<1>9. page \in Distinct(RowId)
    <2>1. A \in SUBSET RowId
        BY <1>1 DEF IsTable
    <2> QED BY <1>8, <2>1, DistinctMonotone
<1>10. ToSet(page) \subseteq A
    BY <1>5, <1>7 DEF ToSet
<1> DEFINE m == Len(page)
<1>11. m \in Nat /\ DOMAIN page = 1..m /\ Len(o) \in Nat /\ DOMAIN o = 1..Len(o) /\ m <= Len(o)
       /\ (m # n => m = Len(o)) /\ (m = n => m > 0) /\ Last(page) = page[m]
    BY <1>2, <1>6, <1>7 DEF Last
<1> HIDE DEF m
<1>12. ASSUME m # n PROVE ToSet(page) = A
    <2>1. m = Len(o) /\ DOMAIN page = DOMAIN o
        BY <1>11, <1>12
    <2>2. ToSet(page) = ToSet(o)
        BY <1>7, <2>1 DEF ToSet
    <2> QED BY <1>5, <2>2
<1>13. ASSUME NEW i \in ToSet(page) PROVE i = Last(page) \/ <<i, Last(page)>> \in FiledBefore
    <2>1. PICK k \in 1..m : page[k] = i
        BY <1>11 DEF ToSet
    <2>2. m \in 1..m /\ k <= m /\ k \in Int /\ m \in Int
        <3>1. m \in Nat
            BY <1>11
        <3> QED BY <2>1, <3>1
    <2>3. page[k] = o[k] /\ page[m] = o[m] /\ k \in DOMAIN o /\ m \in DOMAIN o
        BY <1>7, <1>11, <2>2
    <2>4. CASE k = m
        BY <1>11, <2>1, <2>4
    <2>5. CASE k # m
        <3>1. k < m
            BY <2>2, <2>5
        <3>2. <<o[k], o[m]>> \in FiledBefore
            BY <1>5, <2>3, <3>1
        <3> QED BY <1>11, <2>1, <2>3, <3>2
    <2> QED BY <2>4, <2>5
<1>14. ASSUME m = n PROVE Last(page) \in ToSet(page)
    <2>1. m \in 1..m
        BY <1>11, <1>14
    <2> QED BY <1>11, <2>1 DEF ToSet
<1>15. ASSUME NEW i \in A \ ToSet(page) PROVE <<Last(page), i>> \in FiledBefore
    <2>1. PICK k \in DOMAIN o : o[k] = i
        BY <1>5 DEF ToSet
    <2>2. k \notin DOMAIN page
        <3> SUFFICES ASSUME k \in DOMAIN page PROVE FALSE
            OBVIOUS
        <3>1. page[k] = i
            BY <1>7, <2>1
        <3> QED BY <1>15, <3>1 DEF ToSet
    <2>3. m < k /\ m = n /\ m \in DOMAIN page
        <3>1. m \in Nat /\ Len(o) \in Nat /\ (m # n => m = Len(o)) /\ (m = n => m > 0)
            BY <1>11
        <3>2. k \in 1..Len(o) /\ k \notin 1..m
            BY <1>11, <2>1, <2>2
        <3>3. m < k /\ k <= Len(o) /\ k \in Int
            BY <3>1, <3>2
        <3>4. m = n
            BY <3>1, <3>3
        <3>5. m \in 1..m
            BY <3>1, <3>4
        <3> QED BY <1>11, <3>3, <3>4, <3>5
    <2>4. page[m] = o[m] /\ m \in DOMAIN o
        BY <1>7, <2>3
    <2>5. <<o[m], o[k]>> \in FiledBefore
        BY <1>5, <2>1, <2>3, <2>4
    <2> QED BY <1>11, <2>1, <2>4, <2>5
<1> QED
    BY <1>9, <1>10, <1>12, <1>13, <1>14, <1>15 DEF A, n, page, m

\* The rows of /list: the anchors, then the orphan groups.
ListRows == Anchors \o OrphanGroups
HallwayRows == InOrder(DOMAIN rows, Stronger)

\* Both lists have every row they stand for once.
LEMMA ListRowsAre ==
    ASSUME IsTable
    PROVE  /\ Anchors \in Distinct(RowId) /\ OrphanGroups \in Distinct(RowId)
           /\ ListRows \in Distinct(RowId) /\ Len(ListRows) <= Cardinality(RowId)
           /\ Cardinality(DOMAIN rows) \in Nat
           /\ HallwayRows \in Distinct(RowId) /\ Len(HallwayRows) = Cardinality(DOMAIN rows)
           /\ Len(HallwayRows) <= Cardinality(RowId)
<1> DEFINE A == {i \in DOMAIN rows : rows[i] = Anchor}
           B == {i \in DOMAIN rows : rows[i] = Orphan}
           D == DOMAIN rows
<1>1. A \in SUBSET RowId /\ B \in SUBSET RowId /\ D \in SUBSET RowId /\ A \cap B = {}
      /\ A \in SUBSET DOMAIN rows /\ B \in SUBSET DOMAIN rows /\ D \in SUBSET DOMAIN rows
    BY DEF IsTable, Anchor, Orphan
<1>2. Anchors = InOrder(A, ById) /\ OrphanGroups = InOrder(B, ById) /\ HallwayRows = InOrder(D, Stronger)
    BY DEF Anchors, OrphanGroups, HallwayRows
<1> HIDE DEF A, B, D
<1>3. /\ IsFiniteSet(A) /\ IsFiniteSet(B) /\ IsFiniteSet(D)
      /\ Orders(ById, A) /\ Orders(ById, B) /\ Orders(Stronger, D)
    BY <1>1, RowOrders
<1>4. Anchors \in Distinct(A) /\ ToSet(Anchors) = A
    BY <1>2, <1>3, InOrderIs
<1>5. OrphanGroups \in Distinct(B) /\ ToSet(OrphanGroups) = B
    BY <1>2, <1>3, InOrderIs
<1>6. /\ HallwayRows \in Distinct(D) /\ Len(HallwayRows) = Cardinality(D) /\ Cardinality(D) \in Nat
      /\ ToSet(HallwayRows) = D
    BY <1>2, <1>3, InOrderIs
<1>7. Anchors \in Distinct(RowId)
    BY <1>1, <1>4, DistinctMonotone
<1>8. OrphanGroups \in Distinct(RowId)
    BY <1>1, <1>5, DistinctMonotone
<1>9. HallwayRows \in Distinct(RowId)
    BY <1>1, <1>6, DistinctMonotone
<1>10. ListRows \in Distinct(RowId)
    <2>1. ToSet(Anchors) \cap ToSet(OrphanGroups) = {}
        BY <1>1, <1>4, <1>5
    <2> QED BY <1>7, <1>8, <2>1, ConcatDistinct DEF ListRows
<1>11. \A s \in Distinct(RowId) : Len(s) <= Cardinality(RowId)
    <2> SUFFICES ASSUME NEW s \in Distinct(RowId) PROVE Len(s) <= Cardinality(RowId)
        OBVIOUS
    <2>1. Cardinality(ToSet(s)) = Len(s)
        BY DistinctLength
    <2>2. ToSet(s) \in SUBSET RowId
        BY DEF Distinct, ToSet
    <2>3. Cardinality(ToSet(s)) <= Cardinality(RowId)
        BY <2>2, ListingsAssumption, FS_Subset
    <2> QED BY <2>1, <2>3
<1> QED
    BY <1>6, <1>7, <1>8, <1>9, <1>10, <1>11 DEF D

\* A slice of a sequence.
LEMMA SliceIs ==
    ASSUME NEW S, NEW s \in Seq(S), NEW a \in Nat, NEW b \in Nat, b <= Len(s)
    PROVE  /\ SubSeq(s, a + 1, b) \in Seq(S)
           /\ Len(SubSeq(s, a + 1, b)) = IF a <= b THEN b - a ELSE 0
           /\ \A k \in 1..Len(SubSeq(s, a + 1, b)) : SubSeq(s, a + 1, b)[k] = s[a + k]
<1>1. Len(SubSeq(s, a + 1, b)) = IF a <= b THEN b - a ELSE 0
    OBVIOUS
<1>2. SubSeq(s, a + 1, b) \in Seq(S)
    OBVIOUS
<1>3. \A k \in 1..(b - a) : SubSeq(s, a + 1, b)[k] = s[a + k]
    OBVIOUS
<1> QED
    BY <1>1, <1>2, <1>3

\* A page of /list is the next rows, and says whether there are more.
LEMMA ListPageIs ==
    ASSUME IsTable, NEW w, w.limit \in Nat, w.offset \in Nat, w.offset <= Len(ListRows)
    PROVE  \E p \in Seq(RowId) :
              /\ ListPage(w) = [w EXCEPT !.got = @ \o p, !.offset = @ + Len(p),
                                         !.more = w.offset + Len(p) < Len(ListRows)]
              /\ w.offset + Len(p) <= Len(ListRows)
              /\ \A k \in 1..Len(p) : p[k] = ListRows[w.offset + k]
<1> DEFINE o == w.offset
           n == Clamped(w.limit)
           t == Len(Anchors)
           u == Len(OrphanGroups)
           page == IF o < t THEN SubSeq(Anchors, o + 1, Min({o + n, t})) ELSE <<>>
           start == IF o > t THEN o - t ELSE 0
           orphan == SubSeq(OrphanGroups, start + 1, Min({start + n - Len(page), u}))
           p == page \o orphan
           L == ListRows
<1>1. Anchors \in Seq(RowId) /\ OrphanGroups \in Seq(RowId)
    BY ListRowsAre DEF Distinct
<1>2. n \in Nat \ {0} /\ o \in Nat
    BY ClampedIs
<1>3. t \in Nat /\ u \in Nat /\ L \in Seq(RowId) /\ Len(L) = t + u
    BY <1>1 DEF ListRows
<1>4. /\ \A i \in 1..t : L[i] = Anchors[i]
      /\ \A i \in (t + 1)..(t + u) : L[i] = OrphanGroups[i - t]
    BY <1>1 DEF ListRows
<1>5. ListPage(w) = [w EXCEPT !.got = @ \o p, !.offset = @ + Len(p), !.more = w.offset + Len(p) < t + u]
    BY DEF ListPage
<1>6. o <= t + u
    BY <1>3
<1> HIDE DEF o, n, t, u, L
<1>7. /\ page \in Seq(RowId) /\ Len(page) = IF o < t THEN (IF o + n <= t THEN n ELSE t - o) ELSE 0
      /\ \A k \in 1..Len(page) : page[k] = Anchors[o + k]
    <2>1. CASE o < t
        <3> DEFINE b == Min({o + n, t})
        <3>1. b = IF o + n <= t THEN o + n ELSE t
            BY <1>2, <1>3, MinOfTwo
        <3>2. page = SubSeq(Anchors, o + 1, b)
            BY <2>1
        <3> HIDE DEF page, b
        <3>3. b \in Nat /\ b <= Len(Anchors) /\ o <= b
            BY <1>2, <1>3, <2>1, <3>1 DEF t
        <3>4. /\ page \in Seq(RowId) /\ Len(page) = b - o
              /\ \A k \in 1..Len(page) : page[k] = Anchors[o + k]
            BY <1>1, <1>2, <3>2, <3>3, SliceIs, SMTT(30)
        <3> QED BY <1>2, <1>3, <2>1, <3>1, <3>4
    <2>2. CASE ~(o < t)
        <3>1. page = <<>>
            BY <2>2
        <3> HIDE DEF page
        <3> QED BY <2>2, <3>1
    <2> QED BY <2>1, <2>2
<1> DEFINE q == Len(page)
           e == start + n - q
           c == Min({e, u})
<1>8. q \in Nat /\ q <= n /\ start \in Nat /\ start <= u
    BY <1>2, <1>3, <1>6, <1>7
<1>9. orphan = SubSeq(OrphanGroups, start + 1, c)
    OBVIOUS
<1> HIDE DEF page, orphan, start
<1>10. e \in Nat /\ start <= e
    BY <1>8, <1>2
<1>11. c = IF e <= u THEN e ELSE u
    BY <1>3, <1>10, MinOfTwo
<1> HIDE DEF c
<1>12. c \in Nat /\ c <= u /\ start <= c /\ c <= e
    BY <1>3, <1>8, <1>10, <1>11
<1>13. /\ orphan \in Seq(RowId) /\ Len(orphan) = c - start
       /\ \A k \in 1..Len(orphan) : orphan[k] = OrphanGroups[start + k]
    <2>1. c <= Len(OrphanGroups)
        BY <1>12 DEF u
    <2> QED BY <1>1, <1>8, <1>9, <1>12, <2>1, SliceIs, SMTT(30)
<1> HIDE DEF e
<1>14. /\ p \in Seq(RowId) /\ Len(p) = q + (c - start)
       /\ \A k \in 1..q : p[k] = page[k]
       /\ \A k \in (q + 1)..(q + (c - start)) : p[k] = orphan[k - q] /\ k - q \in 1..(c - start)
    <2>1. page \in Seq(RowId) /\ orphan \in Seq(RowId)
        BY <1>7, <1>13
    <2>2. /\ p \in Seq(RowId) /\ Len(p) = Len(page) + Len(orphan)
          /\ \A k \in 1..Len(page) : p[k] = page[k]
          /\ \A k \in (Len(page) + 1)..(Len(page) + Len(orphan)) :
                p[k] = orphan[k - Len(page)] /\ k - Len(page) \in 1..Len(orphan)
        BY <2>1
    <2> HIDE DEF p
    <2> QED BY <1>13, <2>2
<1> HIDE DEF p, q
<1>15. o + Len(p) <= t + u
    <2>1. q = IF o < t THEN (IF o + n <= t THEN n ELSE t - o) ELSE 0
        BY <1>7 DEF q
    <2>2. Len(p) = q + (c - start) /\ o + q <= t + start
        BY <1>2, <1>3, <1>14, <2>1 DEF start
    <2> QED BY <1>2, <1>3, <1>8, <1>12, <2>2
<1>16. ASSUME NEW k \in 1..Len(p) PROVE p[k] = L[o + k]
    <2>0. q = IF o < t THEN (IF o + n <= t THEN n ELSE t - o) ELSE 0
        BY <1>7 DEF q
    <2>1. CASE k \in 1..q
        <3>1. p[k] = Anchors[o + k]
            BY <1>7, <1>14, <2>1 DEF q
        <3>2. o + k \in 1..t
            BY <1>2, <1>3, <2>0, <2>1
        <3> QED BY <1>4, <3>1, <3>2
    <2>2. CASE k \in (q + 1)..(q + (c - start))
        <3>1. p[k] = orphan[k - q] /\ k - q \in 1..(c - start)
            BY <1>14, <2>2
        <3>2. p[k] = OrphanGroups[start + (k - q)]
            BY <1>13, <3>1
        <3>3. e = start + n - q
            BY DEF e, q
        <3>4. o + n > t
            <4> SUFFICES ASSUME o + n <= t PROVE FALSE
                BY <1>2, <1>3
            <4>1. q = n /\ start = 0
                BY <1>2, <1>3, <2>0 DEF start
            <4>2. e = 0
                BY <1>2, <3>3, <4>1
            <4>3. c = 0 /\ q \in Nat
                BY <1>8, <1>12, <4>2
            <4>4. k \in (q + 1)..(q + 0)
                BY <2>2, <4>1, <4>3
            <4> QED BY <4>3, <4>4
        <3>5. o + k = t + (start + (k - q)) /\ o + k \in (t + 1)..(t + u)
            <4>1. o + q = t + start
                BY <1>2, <1>3, <2>0, <3>4 DEF start
            <4> QED BY <1>2, <1>3, <1>8, <1>12, <2>2, <4>1
        <3>6. (o + k) - t = start + (k - q)
            BY <1>2, <1>3, <1>8, <2>2, <3>5
        <3>7. L[o + k] = OrphanGroups[(o + k) - t]
            BY <1>4, <3>5
        <3> QED BY <3>2, <3>6, <3>7
    <2> QED BY <1>8, <1>12, <1>14, <2>1, <2>2
<1>17. /\ ListPage(w) = [w EXCEPT !.got = @ \o p, !.offset = @ + Len(p),
                                  !.more = w.offset + Len(p) < Len(ListRows)]
       /\ w.offset + Len(p) <= Len(ListRows)
       /\ \A k \in 1..Len(p) : p[k] = ListRows[w.offset + k]
    BY <1>3, <1>5, <1>15, <1>16 DEF L, o
<1> QED
    BY <1>14, <1>17

\* A page of mempalace_list_hallways is the next hallways, as many as asked for or
\* all that are left, and `truncated' says which.
LEMMA HallwaysPageIs ==
    ASSUME IsTable, NEW w, w.limit \in Nat, w.offset \in Nat, w.offset <= Len(HallwayRows)
    PROVE  \E p \in Seq(RowId) :
              /\ HallwaysPage(w) = [w EXCEPT !.got = @ \o p, !.offset = @ + Len(p),
                                             !.more = w.offset + Len(p) < Len(HallwayRows)]
              /\ w.offset + Len(p) <= Len(HallwayRows)
              /\ \A k \in 1..Len(p) : p[k] = HallwayRows[w.offset + k]
<1> DEFINE o == w.offset
           n == HallwaysLimit(w.limit)
           L == HallwayRows
           l == Len(L)
           b == Min({o + n + 1, l})
           f == SubSeq(L, o + 1, b)
           p == Firsts(f, n)
<1>1. L \in Seq(RowId)
    BY ListRowsAre DEF Distinct
<1>2. n \in Nat \ {0} /\ o \in Nat
    <2> DEFINE a == IF w.limit = 0 THEN DefaultPage ELSE w.limit
    <2>1. a \in Nat
        BY ListingsAssumption
    <2>2. n = Clamped(a)
        BY DEF HallwaysLimit
    <2> HIDE DEF a, n
    <2> QED BY <2>1, <2>2, ClampedIs
<1>3. l \in Nat /\ o <= l
    BY <1>1
<1>4. HallwaysPage(w) = [w EXCEPT !.got = @ \o p, !.offset = @ + Len(p), !.more = Len(f) > n]
    BY DEF HallwaysPage, HallwayRows
<1> HIDE DEF o, n, l, L
<1>5. b = IF o + n + 1 <= l THEN o + n + 1 ELSE l
    BY <1>2, <1>3, MinOfTwo
<1> HIDE DEF b
<1>6. b \in Nat /\ b <= l /\ o <= b
    BY <1>2, <1>3, <1>5
<1>7. f \in Seq(RowId) /\ Len(f) = b - o /\ \A k \in 1..Len(f) : f[k] = L[o + k]
    <2>1. b <= Len(L)
        BY <1>6 DEF l
    <2>2. ASSUME NEW s \in Seq(RowId), NEW x \in Nat, NEW y \in Nat, y <= Len(s)
          PROVE  /\ SubSeq(s, x + 1, y) \in Seq(RowId)
                 /\ Len(SubSeq(s, x + 1, y)) = IF x <= y THEN y - x ELSE 0
                 /\ \A k \in 1..Len(SubSeq(s, x + 1, y)) : SubSeq(s, x + 1, y)[k] = s[x + k]
        BY <2>2, SliceIs, SMTT(30)
    <2>3. /\ f \in Seq(RowId) /\ Len(f) = IF o <= b THEN b - o ELSE 0
          /\ \A k \in 1..Len(f) : f[k] = L[o + k]
        BY <1>1, <1>2, <1>6, <2>1, <2>2, Zenon
    <2> HIDE DEF f
    <2> QED BY <1>6, <2>3
<1> HIDE DEF f
<1>8. /\ p \in Seq(RowId) /\ Len(p) = IF n <= Len(f) THEN n ELSE Len(f)
      /\ \A k \in DOMAIN p : k \in DOMAIN f /\ p[k] = f[k]
    BY <1>2, <1>7, FirstsOf
<1> HIDE DEF p
<1>9. \A k \in 1..Len(p) : p[k] = L[o + k]
    <2>1. DOMAIN p = 1..Len(p) /\ DOMAIN f = 1..Len(f)
        BY <1>7, <1>8
    <2> QED BY <1>7, <1>8, <2>1
<1>10. o + Len(p) <= l /\ (Len(f) > n <=> o + Len(p) < l)
    BY <1>2, <1>3, <1>5, <1>6, <1>7, <1>8
<1>11. (Len(f) > n) = (o + Len(p) < l)
    BY <1>10
<1>12. HallwaysPage(w) = [w EXCEPT !.got = @ \o p, !.offset = @ + Len(p), !.more = o + Len(p) < l]
    BY <1>4, <1>11, Zenon
<1> QED
    BY <1>8, <1>9, <1>10, <1>12 DEF o, l, L

\* As many entries as places, in a list without repetition.
LEMMA ImageSize ==
    ASSUME NEW S, NEW s \in Distinct(S), NEW X \in SUBSET DOMAIN s
    PROVE  IsFiniteSet(X) /\ Cardinality({s[q] : q \in X}) = Cardinality(X)
<1> DEFINE Y == {s[q] : q \in X}
           f == [q \in X |-> s[q]]
           n == Len(s)
<1>1. n \in Nat
    BY DEF Distinct
<1>2. DOMAIN s = 1..n
    BY DEF Distinct
<1> HIDE DEF n
<1>3. IsFiniteSet(1..n) /\ X \in SUBSET (1..n)
    BY <1>1, <1>2, FS_Interval
<1>4. IsFiniteSet(X)
    BY <1>3, FS_Subset
<1>5. f \in Bijection(X, Y)
    BY DEF Distinct, Bijection, Injection, Surjection, IsInjective
<1>6. ExistsBijection(X, Y)
    BY <1>5 DEF ExistsBijection
<1> HIDE DEF Y
<1>7. Cardinality(Y) = Cardinality(X)
    BY <1>4, <1>6, FS_Bijection
<1> QED
    BY <1>4, <1>7 DEF Y

\* The entry that Pick puts at place r.
LEMMA PickAt ==
    ASSUME NEW E, NEW s \in Seq(E), NEW I \in SUBSET DOMAIN s, NEW r \in 1..Cardinality(I)
    PROVE  \E p \in I : RankIn(p, Less, I) = r - 1 /\ Pick(s, I)[r] = s[p]
<1> DEFINE n == Cardinality(I)
           at == CHOOSE i \in I : Cardinality({j \in I : j < i}) = r - 1
<1>1. I \subseteq Int
    OBVIOUS
<1>2. n \in Nat
    BY PickSound
<1>3. IsFiniteSet(I)
    <2> DEFINE l == Len(s)
    <2>1. l \in Nat /\ I \in SUBSET (1..l)
        OBVIOUS
    <2> HIDE DEF l
    <2>2. IsFiniteSet(1..l)
        BY <2>1, FS_Interval
    <2> QED BY <2>1, <2>2, FS_Subset
<1>4. Orders(Less, I)
    BY <1>1 DEF Orders, Less
<1>5. \A i \in I : RankIn(i, Less, I) = Cardinality({j \in I : j < i})
    <2> SUFFICES ASSUME NEW i \in I
                 PROVE  {j \in I : <<j, i>> \in Less} = {j \in I : j < i}
        BY DEF RankIn
    <2> QED BY <1>1 DEF Less
<1>6. r - 1 \in 0..(n - 1)
    BY <1>2
<1>7. \E i \in I : RankIn(i, Less, I) = r - 1
    BY <1>3, <1>4, <1>6, RankBijective
<1>8. \E i \in I : Cardinality({j \in I : j < i}) = r - 1
    BY <1>5, <1>7
<1>9. at \in I /\ Cardinality({j \in I : j < at}) = r - 1
    BY <1>8
<1>10. Pick(s, I)[r] = s[at]
    BY DEF Pick
<1> HIDE DEF at
<1> QED
    BY <1>5, <1>9, <1>10

\* mempalace_mined over a table: for each wing the first sources, how many there
\* are, and whether some are missing.
LEMMA MinedIs ==
    ASSUME IsTable, NEW limit \in Nat, NEW k \in Keys,
           NEW mine, mine = InOrder({i \in DOMAIN rows : rows[i] = k}, ById),
           NEW n, n = (IF limit = 0 THEN Len(mine) ELSE limit)
    PROVE  /\ Mined(limit)[k].sources = Firsts(mine, n)
           /\ Mined(limit)[k].total = Len(mine)
           /\ Mined(limit)[k].truncated <=> Len(mine) > Len(Mined(limit)[k].sources)
<1> DEFINE D == DOMAIN rows
           all == InOrder(D, ByWing)
           K == {i \in D : rows[i] = k}
           M == {p \in DOMAIN all : rows[all[p]] = k}
           I == {p \in M : limit = 0 \/ Cardinality({q \in M : q < p}) < limit}
           slot == Mined(limit)[k]
<1>1. slot = [sources |-> Pick(all, I), total |-> Cardinality(M), truncated |-> (I # M)]
    BY DEF Mined
<1>2. mine = InOrder(K, ById)
    OBVIOUS
<1>3. D \in SUBSET DOMAIN rows /\ K \in SUBSET DOMAIN rows /\ \A i \in D : i \in Nat /\ rows[i] \in Nat
    BY ListingsAssumption DEF IsTable, Keys, Anchor, Orphan, Legacy
<1>4. IsFiniteSet(D) /\ Orders(ByWing, D)
    BY <1>3, RowOrders
<1>5. IsFiniteSet(K) /\ Orders(ById, K)
    BY <1>3, RowOrders
<1>6. /\ all \in Distinct(D) /\ ToSet(all) = D
      /\ \A i, j \in DOMAIN all : i < j => <<all[i], all[j]>> \in ByWing
    <2> HIDE DEF D
    <2> QED BY <1>4, InOrderIs
<1>7. /\ mine \in Distinct(K) /\ Cardinality(K) \in Nat /\ Len(mine) = Cardinality(K)
      /\ \A r \in DOMAIN mine : mine[r] \in K /\ RankIn(mine[r], ById, K) = r - 1
    <2> DEFINE o == InOrder(K, ById)
    <2>1. o = mine
        BY <1>2
    <2> HIDE DEF K
    <2>2. /\ o \in Distinct(K) /\ Cardinality(K) \in Nat /\ Len(o) = Cardinality(K)
          /\ \A r \in DOMAIN o : o[r] \in K /\ RankIn(o[r], ById, K) = r - 1
        BY <1>5, InOrderIs
    <2> HIDE DEF o
    <2> QED BY <2>1, <2>2
<1> HIDE DEF all, slot
<1>8. all \in Seq(D) /\ M \in SUBSET DOMAIN all /\ I \in SUBSET M /\ I \in SUBSET DOMAIN all
      /\ DOMAIN all \subseteq Int /\ M \subseteq Int /\ I \subseteq Int
    BY <1>6 DEF Distinct
<1>9. \A p \in M : all[p] \in K
    BY <1>8
<1>10. ASSUME NEW p \in M, NEW q \in M PROVE p < q <=> all[p] < all[q]
    <2>1. p \in Int /\ q \in Int /\ all[p] \in Nat /\ all[q] \in Nat /\ rows[all[p]] = rows[all[q]]
          /\ p \in DOMAIN all /\ q \in DOMAIN all /\ rows[all[p]] \in Nat
        BY <1>3, <1>8, <1>9
    <2>2. ASSUME p < q PROVE all[p] < all[q]
        <3>1. <<all[p], all[q]>> \in ByWing
            BY <1>6, <2>1, <2>2
        <3> QED BY <2>1, <3>1 DEF ByWing
    <2>3. ASSUME q < p PROVE all[q] < all[p]
        <3>1. <<all[q], all[p]>> \in ByWing
            BY <1>6, <2>1, <2>3
        <3> QED BY <2>1, <3>1 DEF ByWing
    <2> QED BY <2>1, <2>2, <2>3
<1>11. \A j \in K : \E p \in M : all[p] = j
    <2> SUFFICES ASSUME NEW j \in K PROVE \E p \in M : all[p] = j
        OBVIOUS
    <2>1. PICK p \in DOMAIN all : all[p] = j
        BY <1>6 DEF ToSet
    <2> QED BY <2>1
<1>12. IsFiniteSet(M) /\ Cardinality(M) = Cardinality(K)
    <2>1. {all[q] : q \in M} = K
        BY <1>9, <1>11
    <2> HIDE DEF M, K, D
    <2> QED BY <1>6, <1>8, <2>1, ImageSize
<1>13. ASSUME NEW p \in M PROVE RankIn(p, Less, M) = RankIn(all[p], ById, K)
    <2> DEFINE X == {q \in M : <<q, p>> \in Less}
               Y == {j \in K : <<j, all[p]>> \in ById}
    <2>1. \A q \in M : q \in X <=> q < p
        BY <1>8 DEF Less
    <2>2. \A j \in K : j \in Y <=> j < all[p]
        BY <1>9 DEF ById, Pairs
    <2>3. {all[q] : q \in X} = Y
        <3>1. \A q \in X : all[q] \in Y
            BY <1>9, <1>10, <2>1, <2>2
        <3>2. ASSUME NEW j \in Y PROVE \E q \in X : all[q] = j
            <4>1. PICK q \in M : all[q] = j
                BY <1>11
            <4>2. q < p
                BY <1>10, <2>2, <4>1
            <4> QED BY <2>1, <4>1, <4>2
        <3> HIDE DEF X, Y
        <3> QED BY <3>1, <3>2
    <2>4. X \in SUBSET DOMAIN all
        BY <1>8
    <2>5. RankIn(p, Less, M) = Cardinality(X) /\ RankIn(all[p], ById, K) = Cardinality(Y)
        BY DEF RankIn
    <2> HIDE DEF X, Y, M, K, D
    <2>6. Cardinality({all[q] : q \in X}) = Cardinality(X)
        BY <1>6, <2>4, ImageSize
    <2> QED BY <2>3, <2>5, <2>6
<1>14. Orders(Less, M) /\ Orders(Less, I)
    BY <1>8 DEF Orders, Less
<1>15. \A p \in M : RankIn(p, Less, M) = Cardinality({q \in M : q < p})
    <2> SUFFICES ASSUME NEW p \in M
                 PROVE  {q \in M : <<q, p>> \in Less} = {q \in M : q < p}
        BY DEF RankIn
    <2> QED BY <1>8 DEF Less
<1>16. n \in Nat /\ (limit = 0 => n = Cardinality(M)) /\ (limit # 0 => n = limit)
    BY <1>7, <1>12
<1>17. /\ Cardinality(M) \in Nat /\ \A p \in M : RankIn(p, Less, M) \in 0..(Cardinality(M) - 1)
       /\ \A p, q \in M : <<p, q>> \in Less => RankIn(p, Less, M) < RankIn(q, Less, M)
    <2> HIDE DEF M
    <2> QED BY <1>12, <1>14, RankMonotonic
<1>18. I = {p \in M : RankIn(p, Less, M) < n}
    <2>1. ASSUME NEW p \in M PROVE p \in I <=> RankIn(p, Less, M) < n
        <3>1. p \in I <=> limit = 0 \/ RankIn(p, Less, M) < limit
            BY <1>15
        <3> HIDE DEF I, M
        <3>2. RankIn(p, Less, M) \in Int /\ RankIn(p, Less, M) < Cardinality(M)
            BY <1>17
        <3> QED BY <1>16, <3>1, <3>2
    <2> QED BY <1>8, <2>1
<1>19. /\ IsFiniteSet(I) /\ Cardinality(I) \in Nat /\ Cardinality(I) <= n
       /\ I # M => Cardinality(I) = n
    <2> HIDE DEF I, M
    <2> DEFINE L == {x \in M : RankIn(x, Less, M) < n}
    <2>1. /\ IsFiniteSet(L) /\ Cardinality(L) \in Nat /\ Cardinality(L) <= n
          /\ L # M => Cardinality(L) = n
        <3>1. n \in Nat /\ IsFiniteSet(M) /\ Orders(Less, M)
            BY <1>12, <1>14, <1>16
        <3> QED BY <3>1, RankBelow
    <2> QED BY <1>18, <2>1
<1> HIDE DEF M, I, K, D
<1>20. Cardinality(I) <= Cardinality(M) /\ (Cardinality(I) = Cardinality(M) => I = M)
    BY <1>8, <1>12, FS_Subset
<1>21. Cardinality(I) = IF n <= Len(mine) THEN n ELSE Len(mine)
    BY <1>7, <1>12, <1>16, <1>19, <1>20
<1>22. ASSUME NEW p \in I PROVE RankIn(p, Less, I) = RankIn(p, Less, M)
    <2>1. p \in M /\ RankIn(p, Less, M) < n /\ RankIn(p, Less, M) \in Int
        BY <1>17, <1>18
    <2>2. ASSUME NEW q \in M, <<q, p>> \in Less PROVE q \in I
        <3>1. RankIn(q, Less, M) < RankIn(p, Less, M) /\ RankIn(q, Less, M) \in Int
            BY <1>17, <2>1, <2>2
        <3>2. RankIn(q, Less, M) < n
            BY <1>16, <2>1, <3>1
        <3> QED BY <1>18, <3>2
    <2>3. {q \in I : <<q, p>> \in Less} = {q \in M : <<q, p>> \in Less}
        BY <1>8, <2>2
    <2> QED BY <2>3 DEF RankIn
<1>23. /\ Pick(all, I) \in Seq(D) /\ Len(Pick(all, I)) = Cardinality(I)
    BY <1>8, PickSound
<1>24. /\ Firsts(mine, n) \in Seq(K) /\ Len(Firsts(mine, n)) = Cardinality(I)
       /\ \A r \in DOMAIN Firsts(mine, n) : r \in DOMAIN mine /\ Firsts(mine, n)[r] = mine[r]
    <2>1. mine \in Seq(K)
        BY <1>7 DEF Distinct
    <2>2. n \in Nat
        BY <1>16
    <2>3. ASSUME NEW x \in Seq(K), NEW m \in Nat
          PROVE  /\ Firsts(x, m) \in Seq(K) /\ Len(Firsts(x, m)) = IF m <= Len(x) THEN m ELSE Len(x)
                 /\ \A r \in DOMAIN Firsts(x, m) : r \in DOMAIN x /\ Firsts(x, m)[r] = x[r]
        BY FirstsOf
    <2>4. /\ Firsts(mine, n) \in Seq(K) /\ Len(Firsts(mine, n)) = IF n <= Len(mine) THEN n ELSE Len(mine)
          /\ \A r \in DOMAIN Firsts(mine, n) : r \in DOMAIN mine /\ Firsts(mine, n)[r] = mine[r]
        BY <2>1, <2>2, <2>3, Zenon
    <2> QED BY <1>21, <2>4
<1>25. ASSUME NEW r \in 1..Cardinality(I) PROVE Pick(all, I)[r] = Firsts(mine, n)[r]
    <2>1. PICK p \in I : RankIn(p, Less, I) = r - 1 /\ Pick(all, I)[r] = all[p]
        BY <1>8, PickAt
    <2>2. p \in M /\ all[p] \in K
        BY <1>8, <1>9
    <2>3. RankIn(all[p], ById, K) = r - 1
        BY <1>13, <1>22, <2>1, <2>2
    <2>4. r \in DOMAIN Firsts(mine, n)
        BY <1>24
    <2>5. Firsts(mine, n)[r] \in K /\ RankIn(Firsts(mine, n)[r], ById, K) = r - 1
        BY <1>7, <1>24, <2>4
    <2>6. all[p] = Firsts(mine, n)[r]
        BY <1>5, <2>2, <2>3, <2>5, RankBijective
    <2> QED BY <2>1, <2>6
<1>26. Pick(all, I) = Firsts(mine, n)
    <2>1. \A S : \A x \in Seq(S) : x = [r \in 1..Len(x) |-> x[r]]
        OBVIOUS
    <2>2. Pick(all, I) = [r \in 1..Cardinality(I) |-> Pick(all, I)[r]]
        BY <1>23, <2>1
    <2>3. Firsts(mine, n) = [r \in 1..Cardinality(I) |-> Firsts(mine, n)[r]]
        BY <1>24, <2>1
    <2> QED BY <1>25, <2>2, <2>3
<1>27. I # M <=> Len(mine) > Len(Pick(all, I))
    BY <1>7, <1>12, <1>19, <1>20, <1>23
<1>28. slot.sources = Pick(all, I) /\ slot.total = Cardinality(M) /\ (slot.truncated <=> I # M)
    BY <1>1
<1> QED
    BY <1>7, <1>12, <1>26, <1>27, <1>28 DEF slot

WalkKinds == {"none", "window", "list", "hallways", "mined"}
WalkRecords ==
    [kind : WalkKinds, limit : Nat, since : Nat, before : Nat, cursor : [key : Keys, id : Nat],
     offset : Nat, got : Distinct(RowId), more : BOOLEAN, kept : SUBSET RowId]

\* The drawers a walk over /window owes the client.
Awaited == {i \in walk.kept : InBounds(i, walk.since, walk.before) /\ rows[i] # Undated}

\* While /window is walked: no drawer returned is after the cursor, and every
\* drawer owed was returned or is after it.
WindowBooks ==
    walk.kind = "window" =>
        /\ walk.kept \subseteq DOMAIN rows
        /\ walk.more =>
             /\ walk.cursor = NoCursor => walk.got = <<>>
             /\ \A i \in ToSet(walk.got) \cap DOMAIN rows : ~AfterCursor(i, walk.cursor)
             /\ \A i \in Awaited : i \in ToSet(walk.got) \/ AfterCursor(i, walk.cursor)
        /\ ~walk.more => Awaited \subseteq ToSet(walk.got)

\* The listings by offset: what was returned is the first `offset' rows, and the
\* walk goes on just as long as there are more.
OffsetBooks ==
    /\ walk.kind = "list" =>
         /\ walk.offset <= Len(ListRows) /\ walk.got = Firsts(ListRows, walk.offset)
         /\ ~walk.more => walk.offset = Len(ListRows)
    /\ walk.kind = "hallways" =>
         /\ walk.offset <= Len(HallwayRows) /\ walk.got = Firsts(HallwayRows, walk.offset)
         /\ ~walk.more => walk.offset = Len(HallwayRows)
         /\ walk.more => walk.offset < Len(HallwayRows) \/ DOMAIN rows = {}
    /\ walk.kind \in {"none", "window", "mined"} => walk.offset = 0

ListingsInv ==
    /\ IsTable /\ walk \in WalkRecords /\ (walk.more => walk.kind # "none")
    /\ WindowBooks /\ OffsetBooks

\* Before the first page.
LEMMA StartIs ==
    IsTable =>
        /\ Firsts(ListRows, 0) = <<>> /\ Len(ListRows) \in Nat
        /\ Firsts(HallwayRows, 0) = <<>> /\ Len(HallwayRows) \in Nat
        /\ DOMAIN rows # {} => 0 < Len(HallwayRows)
<1> SUFFICES ASSUME IsTable
             PROVE  /\ Firsts(ListRows, 0) = <<>> /\ Len(ListRows) \in Nat
                    /\ Firsts(HallwayRows, 0) = <<>> /\ Len(HallwayRows) \in Nat
                    /\ DOMAIN rows # {} => 0 < Len(HallwayRows)
    OBVIOUS
<1>1. /\ ListRows \in Seq(RowId) /\ HallwayRows \in Seq(RowId)
      /\ Len(HallwayRows) = Cardinality(DOMAIN rows)
    BY ListRowsAre DEF Distinct
<1>2. \A s \in Seq(RowId) : Firsts(s, 0) = <<>> /\ Len(s) \in Nat
    BY DEF Firsts
<1>3. ASSUME DOMAIN rows # {} PROVE 0 < Len(HallwayRows)
    <2>1. IsFiniteSet(DOMAIN rows)
        BY RowOrders
    <2>2. Cardinality(DOMAIN rows) # 0
        BY <1>3, <2>1, FS_EmptySet
    <2> QED BY <1>1, <1>2, <2>2
<1> QED
    BY <1>1, <1>2, <1>3

\* A client begins to walk over some table.
LEMMA StartWalkKeeps ==
    ASSUME ListingsInv, NEW kind \in {"window", "list", "hallways", "mined"}, NEW ids \in SUBSET RowId,
           NEW f \in [ids -> Keys], NEW limit \in 0..MaxAsked, NEW since \in 0..2, NEW before \in 0..2,
           StartWalk(kind, ids, f, limit, since, before)
    PROVE  ListingsInv'
<1>1. rows' = f /\ DOMAIN rows' = ids /\ IsTable'
    BY DEF StartWalk, IsTable
<1>2. walk' = [kind |-> kind, limit |-> limit, since |-> since, before |-> before, cursor |-> NoCursor,
               offset |-> 0, got |-> <<>>, more |-> TRUE, kept |-> ids]
    BY DEF StartWalk, NoWalk
<1>3. <<>> \in Distinct(RowId) /\ ToSet(<<>>) = {}
    BY DEF Distinct, ToSet
<1>4. NoCursor \in [key : Keys, id : Nat] /\ limit \in Nat /\ since \in Nat /\ before \in Nat
    BY ListingsAssumption DEF NoCursor, Keys, Anchor, Orphan, Legacy
<1>5. walk' \in WalkRecords
    BY <1>2, <1>3, <1>4 DEF WalkRecords, WalkKinds
<1>6. WindowBooks'
    <2>1. \A i : AfterCursor(i, NoCursor)'
        BY DEF AfterCursor
    <2>2. walk'.kept = ids /\ walk'.more = TRUE /\ walk'.cursor = NoCursor /\ walk'.got = <<>>
        BY <1>2
    <2> QED BY <1>1, <1>3, <2>1, <2>2 DEF WindowBooks
<1>7. (IsTable =>
        /\ Firsts(ListRows, 0) = <<>> /\ Len(ListRows) \in Nat
        /\ Firsts(HallwayRows, 0) = <<>> /\ Len(HallwayRows) \in Nat
        /\ DOMAIN rows # {} => 0 < Len(HallwayRows))'
    BY StartIs, PTL
<1>8. /\ Firsts(ListRows', 0) = <<>> /\ Len(ListRows') \in Nat
      /\ Firsts(HallwayRows', 0) = <<>> /\ Len(HallwayRows') \in Nat
      /\ DOMAIN rows' # {} => 0 < Len(HallwayRows')
    BY <1>1, <1>7
<1>9. walk'.offset = 0 /\ walk'.got = <<>> /\ walk'.more = TRUE
    BY <1>2
<1>10. OffsetBooks'
    <2>1. 0 <= Len(ListRows') /\ 0 <= Len(HallwayRows')
        BY <1>8
    <2>2. 0 < Len(HallwayRows') \/ DOMAIN rows' = {}
        BY <1>8
    <2> QED BY <1>8, <1>9, <2>1, <2>2, Zenon DEF OffsetBooks
<1>11. walk'.kind # "none"
    BY <1>2
<1> QED
    BY <1>1, <1>5, <1>6, <1>10, <1>11 DEF ListingsInv

\* Drawers come and go while a window is walked.
LEMMA TableMovesKeep ==
    ASSUME ListingsInv, NEW i \in RowId, DrawerDeleted(i) \/ \E key \in Keys : DrawerFiled(i, key)
    PROVE  ListingsInv'
<1>1. walk.kind = "window" /\ walk.more /\ walk \in WalkRecords /\ IsTable
    BY DEF ListingsInv, DrawerDeleted, DrawerFiled
<1>2. CASE DrawerDeleted(i)
    <2>1. /\ rows' = [j \in DOMAIN rows \ {i} |-> rows[j]]
          /\ walk' = [walk EXCEPT !.kept = @ \ {i}]
        BY <1>2 DEF DrawerDeleted
    <2>2. IsTable' /\ DOMAIN rows' = DOMAIN rows \ {i} /\ \A j \in DOMAIN rows' : rows'[j] = rows[j]
        BY <1>1, <2>1 DEF IsTable
    <2>3. walk' \in WalkRecords
        BY <1>1, <2>1 DEF WalkRecords
    <2>4. /\ walk'.kind = "window" /\ walk'.more = walk.more /\ walk'.cursor = walk.cursor
          /\ walk'.got = walk.got /\ walk'.kept = walk.kept \ {i} /\ walk'.offset = walk.offset
          /\ walk'.since = walk.since /\ walk'.before = walk.before
        BY <1>1, <2>1 DEF WalkRecords
    <2>5. walk'.kept \subseteq DOMAIN rows' /\ walk.kept \subseteq DOMAIN rows
        BY <1>1, <2>2, <2>4 DEF ListingsInv, WindowBooks
    <2>6. \A j \in DOMAIN rows' :
             /\ AfterCursor(j, walk.cursor)' <=> AfterCursor(j, walk.cursor)
             /\ InBounds(j, walk.since, walk.before)' <=> InBounds(j, walk.since, walk.before)
        BY <2>2, <2>4 DEF AfterCursor, InBounds
    <2>7. Awaited' \subseteq Awaited /\ \A j \in Awaited' : j \in DOMAIN rows'
        BY <2>2, <2>4, <2>5, <2>6 DEF Awaited
    <2>8. WindowBooks'
        BY <1>1, <2>2, <2>4, <2>5, <2>6, <2>7 DEF ListingsInv, WindowBooks
    <2>9. OffsetBooks'
        BY <1>1, <2>4 DEF ListingsInv, OffsetBooks
    <2> QED BY <2>2, <2>3, <2>4, <2>8, <2>9 DEF ListingsInv
<1>3. ASSUME NEW key \in Keys, DrawerFiled(i, key) PROVE ListingsInv'
    <2>1. /\ rows' = [j \in DOMAIN rows \cup {i} |-> IF j = i THEN key ELSE rows[j]]
          /\ walk' = walk /\ i \notin DOMAIN rows /\ i \notin ToSet(walk.got)
        BY <1>3 DEF DrawerFiled
    <2>2. IsTable' /\ DOMAIN rows' = DOMAIN rows \cup {i} /\ \A j \in DOMAIN rows : rows'[j] = rows[j]
        BY <1>1, <2>1 DEF IsTable
    <2>3. walk.kept \subseteq DOMAIN rows
        BY <1>1 DEF ListingsInv, WindowBooks
    <2>4. \A j \in DOMAIN rows :
             /\ AfterCursor(j, walk.cursor)' <=> AfterCursor(j, walk.cursor)
             /\ InBounds(j, walk.since, walk.before)' <=> InBounds(j, walk.since, walk.before)
        BY <2>1, <2>2 DEF AfterCursor, InBounds
    <2>5. Awaited' = Awaited /\ \A j \in Awaited : j \in DOMAIN rows
        BY <2>1, <2>2, <2>3, <2>4 DEF Awaited
    <2>6. WindowBooks'
        BY <1>1, <2>1, <2>2, <2>3, <2>4, <2>5 DEF ListingsInv, WindowBooks
    <2>7. OffsetBooks'
        BY <1>1, <2>1 DEF ListingsInv, OffsetBooks
    <2> QED BY <1>1, <2>1, <2>2, <2>6, <2>7 DEF ListingsInv
<1> QED
    BY <1>2, <1>3

\* The next page of /window.
LEMMA WindowPageKeeps ==
    ASSUME ListingsInv, walk.kind = "window", walk.more, walk' = WindowPage(walk), UNCHANGED rows
    PROVE  ListingsInv'
<1> DEFINE p == WindowRows(walk)
           A == WindowSet(walk)
           full == Len(p) = Clamped(walk.limit)
           l == Last(p)
           c == walk.cursor
           d == IF full THEN [key |-> rows[l], id |-> l] ELSE NoCursor
           g == walk.got \o p
<1>1. /\ IsTable /\ walk \in WalkRecords /\ walk.limit \in Nat /\ walk.got \in Distinct(RowId)
      /\ walk.kept \subseteq DOMAIN rows /\ walk.offset = 0
      /\ c \in [key : Keys, id : Nat]
    BY DEF ListingsInv, WindowBooks, OffsetBooks, WalkRecords
<1>2. /\ c = NoCursor => walk.got = <<>>
      /\ \A i \in ToSet(walk.got) \cap DOMAIN rows : ~AfterCursor(i, c)
      /\ \A i \in Awaited : i \in ToSet(walk.got) \/ AfterCursor(i, c)
    BY DEF ListingsInv, WindowBooks
<1>3. /\ p \in Distinct(RowId) /\ ToSet(p) \subseteq A
      /\ ~full => ToSet(p) = A
      /\ full => l \in ToSet(p)
      /\ \A i \in ToSet(p) : i = l \/ <<i, l>> \in FiledBefore
      /\ \A i \in A \ ToSet(p) : <<l, i>> \in FiledBefore
    BY <1>1, WindowRowsAre
<1>4. walk' = [walk EXCEPT !.got = g, !.more = full, !.cursor = d]
    BY <1>1 DEF WindowPage, WalkRecords
<1>5. /\ \A i \in A : i \in DOMAIN rows /\ AfterCursor(i, c)
      /\ \A i \in DOMAIN rows : InBounds(i, walk.since, walk.before) /\ AfterCursor(i, c) => i \in A
    BY DEF WindowSet
<1>6. \A i \in DOMAIN rows : i \in Nat \ {0} /\ rows[i] \in Nat /\ rows[i] \in Keys
    BY <1>1, ListingsAssumption DEF IsTable, Keys, Anchor, Orphan, Legacy
<1>7. full \in BOOLEAN
    OBVIOUS
<1> HIDE DEF p, A, l, full
<1>8. g \in Distinct(RowId) /\ ToSet(g) = ToSet(walk.got) \cup ToSet(p)
    <2>1. ToSet(walk.got) \cap ToSet(p) = {}
        BY <1>2, <1>3, <1>5
    <2> QED BY <1>1, <1>3, <2>1, ConcatDistinct
<1>9. d \in [key : Keys, id : Nat]
    BY <1>3, <1>5, <1>6 DEF NoCursor, Keys, Anchor
<1> HIDE DEF g, d
<1>10. /\ walk' \in WalkRecords /\ walk'.kind = "window" /\ walk'.got = g /\ walk'.more = full
       /\ walk'.cursor = d /\ walk'.kept = walk.kept /\ walk'.since = walk.since
       /\ walk'.before = walk.before /\ walk'.offset = 0
    BY <1>1, <1>4, <1>7, <1>8, <1>9 DEF WalkRecords
<1>11. Awaited' = Awaited
    BY <1>10 DEF Awaited, InBounds
<1>12. \A i : AfterCursor(i, walk.cursor)' <=> AfterCursor(i, d)
    BY <1>10 DEF AfterCursor
<1>13. \A i \in Awaited : i \in DOMAIN rows /\ InBounds(i, walk.since, walk.before) /\ rows[i] # Undated
    BY <1>1 DEF Awaited
<1>14. \A i \in Awaited : i \in ToSet(walk.got) \/ i \in A
    BY <1>2, <1>5, <1>13
<1>15. CASE ~full
    <2>1. Awaited \subseteq ToSet(g)
        BY <1>3, <1>8, <1>14, <1>15
    <2>2. WindowBooks'
        BY <1>1, <1>10, <1>11, <1>15, <2>1 DEF WindowBooks
    <2> QED BY <1>1, <1>10, <2>2 DEF ListingsInv, OffsetBooks, IsTable
<1>16. CASE full
    <2>1. d = [key |-> rows[l], id |-> l] /\ l \in ToSet(p) /\ l \in A /\ l \in DOMAIN rows
        BY <1>3, <1>5, <1>16 DEF d
    <2>2. l \in Nat \ {0} /\ rows[l] \in Nat /\ d # NoCursor
        BY <1>6, <2>1 DEF NoCursor
    <2>3. \A i : AfterCursor(i, d) <=>
             /\ rows[i] # Undated /\ rows[l] # Undated
             /\ rows[i] > rows[l] \/ (rows[i] = rows[l] /\ i > l)
        BY <2>1, <2>2 DEF AfterCursor
    <2>4. \A i, j \in DOMAIN rows : <<i, j>> \in FiledBefore <=>
             \/ rows[i] = rows[j] /\ i < j
             \/ rows[i] # Undated /\ (rows[j] = Undated \/ rows[i] < rows[j])
        BY DEF FiledBefore, Pairs
    <2>5. ASSUME NEW i \in ToSet(g) \cap DOMAIN rows PROVE ~AfterCursor(i, d)
        <3> SUFFICES ASSUME AfterCursor(i, d) PROVE FALSE
            OBVIOUS
        <3>1. i \in Nat /\ rows[i] \in Nat /\ rows[i] # Undated /\ rows[l] # Undated
              /\ (rows[i] > rows[l] \/ (rows[i] = rows[l] /\ i > l))
            BY <1>6, <2>3
        <3>2. CASE i \in ToSet(p)
            <4>1. i = l \/ <<i, l>> \in FiledBefore
                BY <1>3, <3>2
            <4>2. i = l \/ (rows[i] = rows[l] /\ i < l) \/ rows[i] < rows[l]
                BY <2>1, <2>4, <3>1, <4>1
            <4> QED BY <2>2, <3>1, <4>2
        <3>3. CASE i \in ToSet(walk.got)
            <4>1. c # NoCursor
                <5>1. ToSet(<<>>) = {}
                    BY DEF ToSet
                <5> QED BY <1>2, <3>3, <5>1
            <4>2. ~AfterCursor(i, c) /\ AfterCursor(l, c)
                BY <1>2, <1>5, <2>1, <3>3
            <4>3. c.key # Undated /\ (rows[l] > c.key \/ (rows[l] = c.key /\ l > c.id))
                BY <4>1, <4>2 DEF AfterCursor
            <4>4. ~(rows[i] > c.key \/ (rows[i] = c.key /\ i > c.id))
                BY <3>1, <4>1, <4>2, <4>3 DEF AfterCursor
            <4>5. c.key \in Nat /\ c.id \in Nat
                BY <1>1 DEF Keys, Anchor, Orphan, Legacy
            <4> QED BY <2>2, <3>1, <4>3, <4>4, <4>5
        <3> QED BY <1>8, <3>2, <3>3
    <2>6. ASSUME NEW i \in Awaited PROVE i \in ToSet(g) \/ AfterCursor(i, d)
        <3> SUFFICES ASSUME i \notin ToSet(g) PROVE AfterCursor(i, d)
            OBVIOUS
        <3>1. i \in A \ ToSet(p) /\ i \in DOMAIN rows /\ rows[i] # Undated
            BY <1>8, <1>13, <1>14
        <3>2. <<l, i>> \in FiledBefore
            BY <1>3, <3>1
        <3>3. (rows[l] = rows[i] /\ l < i) \/ (rows[l] # Undated /\ rows[l] < rows[i])
            BY <2>1, <2>4, <3>1, <3>2
        <3>4. i \in Nat /\ rows[i] \in Nat
            BY <1>6, <3>1
        <3> QED BY <2>2, <2>3, <3>1, <3>3, <3>4
    <2>7. WindowBooks'
        BY <1>1, <1>10, <1>11, <1>12, <1>16, <2>2, <2>5, <2>6 DEF WindowBooks
    <2> QED BY <1>1, <1>10, <2>7 DEF ListingsInv, OffsetBooks, IsTable
<1> QED
    BY <1>15, <1>16

\* The next page of a listing by offset, of whose rows it is the next ones.
LEMMA OffsetPageKeeps ==
    ASSUME ListingsInv, walk.more, UNCHANGED rows,
           \/ walk.kind = "list" /\ walk' = ListPage(walk)
           \/ walk.kind = "hallways" /\ walk' = HallwaysPage(walk)
    PROVE  ListingsInv'
<1> DEFINE L == IF walk.kind = "list" THEN ListRows ELSE HallwayRows
<1>1. IsTable /\ walk \in WalkRecords /\ walk.limit \in Nat /\ walk.offset \in Nat
    BY DEF ListingsInv, WalkRecords
<1>2. L \in Distinct(RowId) /\ L \in Seq(RowId)
    BY <1>1, ListRowsAre DEF Distinct
<1>3. walk.offset <= Len(L) /\ walk.got = Firsts(L, walk.offset)
    BY DEF ListingsInv, OffsetBooks
<1>4. \E p \in Seq(RowId) :
          /\ walk' = [walk EXCEPT !.got = @ \o p, !.offset = @ + Len(p), !.more = walk.offset + Len(p) < Len(L)]
          /\ walk.offset + Len(p) <= Len(L)
          /\ \A k \in 1..Len(p) : p[k] = L[walk.offset + k]
    <2>1. CASE walk.kind = "list"
        <3>1. L = ListRows /\ walk' = ListPage(walk)
            BY <2>1
        <3> HIDE DEF L
        <3>2. walk.offset <= Len(ListRows)
            BY <1>3, <3>1
        <3>3. \E p \in Seq(RowId) :
                /\ ListPage(walk) = [walk EXCEPT !.got = @ \o p, !.offset = @ + Len(p),
                                                 !.more = walk.offset + Len(p) < Len(ListRows)]
                /\ walk.offset + Len(p) <= Len(ListRows)
                /\ \A k \in 1..Len(p) : p[k] = ListRows[walk.offset + k]
            BY <1>1, <3>2, ListPageIs
        <3> QED BY <3>1, <3>3, Zenon
    <2>2. CASE walk.kind = "hallways"
        <3>1. L = HallwayRows /\ walk' = HallwaysPage(walk)
            BY <2>2
        <3> HIDE DEF L
        <3>2. walk.offset <= Len(HallwayRows)
            BY <1>3, <3>1
        <3>3. \E p \in Seq(RowId) :
                /\ HallwaysPage(walk) = [walk EXCEPT !.got = @ \o p, !.offset = @ + Len(p),
                                                     !.more = walk.offset + Len(p) < Len(HallwayRows)]
                /\ walk.offset + Len(p) <= Len(HallwayRows)
                /\ \A k \in 1..Len(p) : p[k] = HallwayRows[walk.offset + k]
            BY <1>1, <3>2, HallwaysPageIs
        <3> QED BY <3>1, <3>3, Zenon
    <2> QED BY <2>1, <2>2
<1>5. PICK p \in Seq(RowId) :
          /\ walk' = [walk EXCEPT !.got = @ \o p, !.offset = @ + Len(p), !.more = walk.offset + Len(p) < Len(L)]
          /\ walk.offset + Len(p) <= Len(L)
          /\ \A k \in 1..Len(p) : p[k] = L[walk.offset + k]
    BY <1>4
<1>6. L' = L /\ L = IF walk'.kind = "list" THEN ListRows' ELSE HallwayRows'
    <2>1. walk'.kind = walk.kind
        BY <1>1, <1>5 DEF WalkRecords
    <2>2. ListRows' = ListRows /\ HallwayRows' = HallwayRows
        BY DEF ListRows, HallwayRows, Anchors, OrphanGroups, ById, Stronger, Pairs
    <2> QED BY <2>1, <2>2
<1> DEFINE o == walk.offset + Len(p)
<1>7. o \in Nat /\ (o < Len(L)) \in BOOLEAN /\ Len(L) \in Nat /\ o <= Len(L)
    BY <1>1, <1>2, <1>5
<1> HIDE DEF L
<1>8. walk.got \o p = Firsts(L, o)
    <2>1. ASSUME NEW x \in Seq(RowId), NEW a \in Nat, a <= Len(x), a + Len(p) <= Len(x),
                 \A k \in 1..Len(p) : p[k] = x[a + k]
          PROVE  Firsts(x, a) \o p = Firsts(x, a + Len(p))
        BY <2>1, NextOfFirsts
    <2>2. Firsts(L, walk.offset) \o p = Firsts(L, walk.offset + Len(p))
        BY <1>1, <1>2, <1>3, <1>5, <2>1, Zenon
    <2> QED BY <1>3, <2>2
<1>9. Firsts(L, o) \in Distinct(RowId)
    BY <1>2, <1>7, CutOf
<1>10. walk' = [walk EXCEPT !.got = Firsts(L, o), !.offset = o, !.more = o < Len(L)]
    BY <1>1, <1>5, <1>8 DEF WalkRecords
<1> HIDE DEF o
<1>11. /\ walk' \in WalkRecords /\ walk'.kind = walk.kind /\ walk'.offset = o /\ walk'.got = Firsts(L, o)
       /\ walk'.more = (o < Len(L))
    BY <1>1, <1>7, <1>9, <1>10 DEF WalkRecords
<1>12. walk'.kind \in {"list", "hallways"}
    BY <1>11
<1>13. WindowBooks'
    BY <1>12 DEF WindowBooks
<1>14. (~walk'.more => o = Len(L)) /\ (walk'.more => o < Len(L))
    <2>1. walk'.more <=> o < Len(L)
        BY <1>11, Zenon
    <2>2. o < Len(L) \/ o = Len(L)
        BY <1>7
    <2>3. ~(o < Len(L)) => o = Len(L)
        BY <2>2
    <2> QED BY <2>1, <2>3, Zenon
<1>15. OffsetBooks'
    <2>1. CASE walk'.kind = "list"
        <3>1. L = ListRows'
            BY <1>6, <2>1
        <3> QED BY <1>7, <1>11, <1>14, <2>1, <3>1 DEF OffsetBooks
    <2>2. CASE walk'.kind = "hallways"
        <3>1. L = HallwayRows'
            BY <1>6, <2>2
        <3> QED BY <1>7, <1>11, <1>14, <2>2, <3>1 DEF OffsetBooks
    <2> QED BY <1>12, <2>1, <2>2
<1> QED
    BY <1>1, <1>11, <1>13, <1>15 DEF ListingsInv, IsTable

\* Every step of the listings keeps their books.
LEMMA ListingsStep == ListingsInv /\ [ListingsNext]_listingsVars => ListingsInv'
<1> SUFFICES ASSUME ListingsInv, [ListingsNext]_listingsVars PROVE ListingsInv'
    OBVIOUS
<1>1. ASSUME NEW kind \in {"window", "list", "hallways", "mined"}, NEW ids \in SUBSET RowId,
             NEW f \in [ids -> Keys], NEW limit \in 0..MaxAsked, NEW since \in 0..2, NEW before \in 0..2,
             StartWalk(kind, ids, f, limit, since, before)
      PROVE  ListingsInv'
    BY <1>1, StartWalkKeeps
<1>2. CASE NextPage
    <2>1. walk.more /\ UNCHANGED rows /\ walk \in WalkRecords /\ walk.kind \in WalkKinds \ {"none"}
        BY <1>2 DEF NextPage, ListingsInv, WalkRecords
    <2>2. CASE walk.kind = "window"
        <3>1. walk' = WindowPage(walk)
            BY <1>2, <2>2 DEF NextPage
        <3> QED BY <2>1, <2>2, <3>1, WindowPageKeeps
    <2>3. CASE walk.kind = "list"
        <3>1. walk' = ListPage(walk)
            BY <1>2, <2>3 DEF NextPage
        <3> QED BY <2>1, <2>3, <3>1, OffsetPageKeeps
    <2>4. CASE walk.kind = "hallways"
        <3>1. walk' = HallwaysPage(walk)
            BY <1>2, <2>4 DEF NextPage
        <3> QED BY <2>1, <2>4, <3>1, OffsetPageKeeps
    <2>5. CASE walk.kind = "mined"
        <3>1. walk' = [walk EXCEPT !.more = FALSE]
            BY <1>2, <2>5 DEF NextPage
        <3>2. walk' \in WalkRecords /\ walk'.kind = "mined" /\ walk'.offset = walk.offset /\ ~walk'.more
            BY <2>1, <2>5, <3>1 DEF WalkRecords
        <3> QED BY <2>1, <2>5, <3>2 DEF ListingsInv, IsTable, WindowBooks, OffsetBooks
    <2> QED BY <2>1, <2>2, <2>3, <2>4, <2>5 DEF WalkKinds
<1>3. ASSUME NEW i \in RowId, DrawerDeleted(i) \/ \E key \in Keys : DrawerFiled(i, key)
      PROVE  ListingsInv'
    BY <1>3, TableMovesKeep
<1>4. CASE UNCHANGED listingsVars
    <2>1. rows' = rows /\ walk' = walk
        BY <1>4 DEF listingsVars
    <2>2. ListRows' = ListRows /\ HallwayRows' = HallwayRows /\ Awaited' = Awaited
        BY <2>1 DEF ListRows, HallwayRows, Anchors, OrphanGroups, ById, Stronger, Pairs, Awaited, InBounds
    <2>3. \A i, c : AfterCursor(i, c)' <=> AfterCursor(i, c)
        BY <2>1 DEF AfterCursor
    <2>4. IsTable' /\ WindowBooks' /\ OffsetBooks'
        <3>1. IsTable'
            BY <2>1 DEF ListingsInv, IsTable
        <3>2. WindowBooks'
            BY <2>1, <2>2, <2>3 DEF ListingsInv, WindowBooks
        <3>3. OffsetBooks'
            BY <2>1, <2>2 DEF ListingsInv, OffsetBooks
        <3> QED BY <3>1, <3>2, <3>3
    <2> QED BY <2>1, <2>4 DEF ListingsInv
<1> QED
    BY <1>1, <1>2, <1>3, <1>4 DEF ListingsNext

\* An element of a sequence without repetitions is in it once.
LEMMA OnceIn ==
    ASSUME NEW S, NEW x \in Distinct(S), NEW i \in ToSet(x)
    PROVE  Cardinality({k \in DOMAIN x : x[k] = i}) = 1
<1>1. PICK j \in DOMAIN x : x[j] = i
    BY DEF ToSet
<1>2. {k \in DOMAIN x : x[k] = i} = {j}
    BY <1>1 DEF Distinct
<1> QED
    BY <1>2, FS_Singleton

\* The first rows of a list are a prefix of it, and as many as the list has are
\* the list.
LEMMA FirstsArePrefix ==
    ASSUME NEW S, NEW s \in Seq(S), NEW n \in Nat, n <= Len(s)
    PROVE  /\ IsPrefix(Firsts(s, n), s) /\ Len(Firsts(s, n)) = n
           /\ n = Len(s) => Firsts(s, n) = s
<1>1. Len(s) \in Nat
    OBVIOUS
<1>2. Firsts(s, n) \in Seq(S) /\ Len(Firsts(s, n)) = n /\ Firsts(s, n) = SubSeq(s, 1, n)
    <2>1. Firsts(s, n) \in Seq(S) /\ Len(Firsts(s, n)) = IF n <= Len(s) THEN n ELSE Len(s)
        BY FirstsOf
    <2> QED BY <2>1 DEF Firsts
<1>3. IsPrefix(Firsts(s, n), s)
    BY <1>2 DEF IsPrefix
<1>4. ASSUME n = Len(s) PROVE Firsts(s, n) = s
    BY <1>2, <1>4
<1> QED
    BY <1>2, <1>3, <1>4

\* What the books say of a walk, finished or not.
LEMMA BooksAreComplete == ListingsInv => WalksComplete
<1> SUFFICES ASSUME ListingsInv PROVE WalksComplete
    OBVIOUS
<1>1. /\ IsTable /\ walk \in WalkRecords /\ WindowBooks /\ OffsetBooks
      /\ walk.got \in Distinct(RowId) /\ walk.got \in Seq(RowId) /\ walk.offset \in Nat /\ walk.limit \in Nat
      /\ walk.kind \in WalkKinds
    BY DEF ListingsInv, WalkRecords, Distinct
<1>2. /\ ListRows \in Seq(RowId) /\ Len(ListRows) \in Nat /\ Len(ListRows) <= Cardinality(RowId)
      /\ HallwayRows \in Seq(RowId) /\ Len(HallwayRows) \in Nat /\ Len(HallwayRows) <= Cardinality(RowId)
      /\ Len(HallwayRows) = Cardinality(DOMAIN rows)
    BY <1>1, ListRowsAre DEF Distinct
<1>3. Cardinality(RowId) \in Nat
    BY ListingsAssumption, FS_CardinalityType
<1>4. \A s \in Seq(RowId), n \in Nat : n <= Len(s) =>
          /\ IsPrefix(Firsts(s, n), s) /\ Len(Firsts(s, n)) = n
          /\ n = Len(s) => Firsts(s, n) = s
    BY FirstsArePrefix
<1>5. ListingsTypeOK
    <2>1. walk.offset <= Cardinality(RowId)
        <3>1. CASE walk.kind = "list"
            BY <1>1, <1>2, <1>3, <3>1 DEF OffsetBooks
        <3>2. CASE walk.kind = "hallways"
            BY <1>1, <1>2, <1>3, <3>2 DEF OffsetBooks
        <3>3. CASE walk.kind \in {"none", "window", "mined"}
            BY <1>1, <1>3, <3>3 DEF OffsetBooks
        <3> QED BY <1>1, <3>1, <3>2, <3>3 DEF WalkKinds
    <2>2. ToSet(walk.got) \subseteq RowId
        BY <1>1 DEF ToSet
    <2> QED BY <1>1, <2>1, <2>2 DEF ListingsTypeOK, IsTable, WalkKinds
<1>6. WindowWalkComplete
    <2>1. \A i \in ToSet(walk.got) : Times(i) = 1
        BY <1>1, OnceIn DEF Times
    <2>2. ASSUME Done("window"), NEW i \in walk.kept, InBounds(i, walk.since, walk.before), rows[i] # Undated
          PROVE  Times(i) = 1
        <3>1. i \in Awaited
            BY <2>2 DEF Awaited
        <3>2. i \in ToSet(walk.got)
            BY <1>1, <2>2, <3>1 DEF Done, WindowBooks
        <3> QED BY <2>1, <3>2
    <2> QED BY <2>1, <2>2 DEF WindowWalkComplete
<1>7. ListWalkComplete
    <2>1. ASSUME walk.kind = "list" PROVE IsPrefix(walk.got, ListRows) /\ (~walk.more => walk.got = ListRows)
        <3>1. /\ walk.offset <= Len(ListRows) /\ walk.got = Firsts(ListRows, walk.offset)
              /\ ~walk.more => walk.offset = Len(ListRows)
            BY <1>1, <2>1 DEF OffsetBooks
        <3>2. /\ IsPrefix(Firsts(ListRows, walk.offset), ListRows)
              /\ walk.offset = Len(ListRows) => Firsts(ListRows, walk.offset) = ListRows
            BY <1>1, <1>2, <1>4, <3>1
        <3> QED BY <3>1, <3>2, Zenon
    <2> QED BY <2>1 DEF ListWalkComplete, Done, ListRows
<1>8. HallwaysWalkComplete
    <2>1. ASSUME walk.kind = "hallways"
          PROVE  /\ ~walk.more => walk.got = HallwayRows
                 /\ walk.more => Len(walk.got) < Cardinality(DOMAIN rows) \/ DOMAIN rows = {}
        <3>1. /\ walk.offset <= Len(HallwayRows) /\ walk.got = Firsts(HallwayRows, walk.offset)
              /\ ~walk.more => walk.offset = Len(HallwayRows)
              /\ walk.more => walk.offset < Len(HallwayRows) \/ DOMAIN rows = {}
            BY <1>1, <2>1 DEF OffsetBooks
        <3>2. /\ Len(Firsts(HallwayRows, walk.offset)) = walk.offset
              /\ walk.offset = Len(HallwayRows) => Firsts(HallwayRows, walk.offset) = HallwayRows
            BY <1>1, <1>2, <1>4, <3>1
        <3> QED BY <1>2, <3>1, <3>2, Zenon
    <2> QED BY <2>1 DEF HallwaysWalkComplete, Done, HallwayRows
<1>9. MinedLimitExact
    <2> SUFFICES ASSUME NEW k \in Keys
                 PROVE  LET mine == InOrder({i \in DOMAIN rows : rows[i] = k}, ById)
                            n    == IF walk.limit = 0 THEN Len(mine) ELSE walk.limit
                            slot == Mined(walk.limit)[k]
                        IN  /\ slot.sources = Firsts(mine, n)
                            /\ slot.total = Len(mine)
                            /\ slot.truncated <=> Len(mine) > Len(slot.sources)
        BY DEF MinedLimitExact
    <2> DEFINE mine == InOrder({i \in DOMAIN rows : rows[i] = k}, ById)
               n == IF walk.limit = 0 THEN Len(mine) ELSE walk.limit
    <2>1. mine = InOrder({i \in DOMAIN rows : rows[i] = k}, ById)
        OBVIOUS
    <2> HIDE DEF mine
    <2>2. n = (IF walk.limit = 0 THEN Len(mine) ELSE walk.limit)
        OBVIOUS
    <2> HIDE DEF n
    <2>3. /\ Mined(walk.limit)[k].sources = Firsts(mine, n)
          /\ Mined(walk.limit)[k].total = Len(mine)
          /\ Mined(walk.limit)[k].truncated <=> Len(mine) > Len(Mined(walk.limit)[k].sources)
        BY <1>1, <2>1, <2>2, MinedIs
    <2> QED BY <2>1, <2>2, <2>3, Zenon
<1> QED
    BY <1>5, <1>6, <1>7, <1>8, <1>9 DEF WalksComplete

\* A client that follows /window, /list, mempalace_list_hallways or
\* mempalace_mined to its end gets what the listing stands for, whatever the
\* size of the table, the page length and the bounds.
THEOREM WalksCompleteHolds == ListingsSpec => []WalksComplete
<1>1. ListingsInit => ListingsInv
    <2> SUFFICES ASSUME ListingsInit PROVE ListingsInv
        OBVIOUS
    <2>1. IsTable
        BY DEF ListingsInit, IsTable
    <2>2. walk \in WalkRecords /\ walk.kind = "none" /\ walk.offset = 0 /\ ~walk.more
        <3>1. <<>> \in Distinct(RowId)
            BY DEF Distinct
        <3>2. NoCursor \in [key : Keys, id : Nat]
            BY DEF NoCursor, Keys, Anchor, Orphan, Legacy
        <3> QED BY <3>1, <3>2 DEF ListingsInit, NoWalk, WalkRecords, WalkKinds
    <2> QED BY <2>1, <2>2 DEF ListingsInv, WindowBooks, OffsetBooks
<1> QED
    BY <1>1, ListingsStep, BooksAreComplete, PTL DEF ListingsSpec
=============================================================================
