------------------------------- MODULE Rooms -------------------------------
(***************************************************************************)
(* The room vocabulary: rooms.py, the rooms tools of daemon_tools.py and   *)
(* the endpoints of main.py that use them.                                 *)
(*                                                                         *)
(* rooms.py keeps two sets in plain module globals without a lock: the     *)
(* canonical rooms (read once, dropped by the rooms tools and by           *)
(* /admin/refresh-rooms) and the rooms that hold drawers (read again       *)
(* before a filter is refused).  Callers are threads: the room dependency  *)
(* and the rooms tools run in worker threads beside the event loop.        *)
(*                                                                         *)
(* A room is a name already normalised (normalize_room_name); a drawer is  *)
(* the room it is in.  The table is the set of its names, with a version   *)
(* number so that properties can speak of older and newer.                 *)
(***************************************************************************)
EXTENDS Naturals

CONSTANTS Room,        \* room names
          DefaultRoom, \* the rooms of the taxonomy document
          Caller,      \* concurrent requests
          MaxChanges   \* bound on the changes of the table

ASSUME RoomsAssumption ==
    DefaultRoom \subseteq Room /\ DefaultRoom # {} /\ MaxChanges \in Nat

VARIABLES
    table,     \* mempalace_canonical_rooms: its names and its version
    foreign,   \* whether mempalace_drawers.room has its foreign key
    held,      \* the rooms that hold drawers
    canonical, \* _canonical_rooms_cache
    present,   \* _present_rooms_cache
    answered,  \* history: version of the last change a tool has reported
    ask        \* the requests in progress

roomsVars == <<table, foreign, held, canonical, present, answered, ask>>

-----------------------------------------------------------------------------
NoSet == [known |-> FALSE, rooms |-> {}, asOf |-> 0, excused |-> TRUE]
Unknown == [known |-> FALSE, rooms |-> {}]

\* What a request does: the write guard of POST and PATCH /memory, the filter
\* guard of the read endpoints, the rooms tools, the refresh endpoint.
Asks == {"write", "filter", "add", "rename", "remove", "refresh"}
Rest == [op |-> "none", at |-> "idle", room |-> CHOOSE r \in Room : TRUE,
         to |-> CHOOSE r \in Room : TRUE, got |-> NoSet, here |-> FALSE,
         failed |-> FALSE, miss |-> FALSE]

Goes(c, pc) == ask' = [ask EXCEPT ![c].at = pc]
Doing(c, op, pc) == ask[c].op = op /\ ask[c].at = pc

\* The rooms that hold drawers become `hs'; every filter in progress remembers
\* whether its room has held drawers all the time.
Witness(hs) == [c \in Caller |-> [ask[c] EXCEPT !.here = @ /\ ask[c].room \in hs]]

RoomsTypeOK ==
    /\ table \in [names : SUBSET Room, version : 0..MaxChanges]
    /\ foreign \in BOOLEAN /\ held \subseteq Room
    /\ answered \in 0..MaxChanges
    /\ canonical.rooms \subseteq Room /\ present.rooms \subseteq Room
    /\ \A c \in Caller : ask[c].op \in Asks \cup {"none"} /\ ask[c].room \in Room

RoomsInit ==
    /\ table = [names |-> DefaultRoom, version |-> 0]
    /\ foreign \in BOOLEAN /\ held = {}
    /\ canonical = NoSet /\ present = Unknown /\ answered = 0
    /\ ask = [c \in Caller |-> Rest]

-----------------------------------------------------------------------------
\* canonical_rooms() tests the global.
Tested == IF canonical.known THEN "return" ELSE "read"

\* A request arrives; the guards begin with canonical_rooms().  A write without
\* a room is filed under "discoveries", one of the defaults; a filter without a
\* room is not checked and not modelled.
Ask(c, op, r, to) ==
    /\ ask[c] = Rest
    /\ op # "rename" => to = Rest.to
    /\ op = "refresh" => r = Rest.room
    /\ ask' = [ask EXCEPT ![c] = [Rest EXCEPT !.op = op, !.room = r, !.to = to,
                 !.here = op = "filter" /\ r \in held,
                 !.at = IF op \in {"write", "filter"} THEN Tested ELSE "tool"]]
    /\ UNCHANGED <<table, foreign, held, canonical, present, answered>>

Ends(c) == ask' = [ask EXCEPT ![c] = Rest]

\* The same test where a request comes to it a second time.
TestCache(c) ==
    /\ ask[c].at = "test"
    /\ Goes(c, Tested)
    /\ UNCHANGED <<table, foreign, held, canonical, present, answered>>

\* The set the lookup yields: the table's names, or the defaults when it has
\* none or cannot be read (no postgres, no table, no connection).
TableLookup(ok) ==
    [known |-> TRUE, asOf |-> table.version, excused |-> ~ok,
     rooms |-> IF ok /\ table.names # {} THEN table.names ELSE DefaultRoom]

ReadTable(c, ok) ==
    /\ ask[c].at = "read"
    /\ ask' = [ask EXCEPT ![c].at = "store", ![c].got = TableLookup(ok)]
    /\ UNCHANGED <<table, foreign, held, canonical, present, answered>>

\* The assignment of the global.  A set read before a change that was reported
\* meanwhile is stored all the same: `excused' remembers that.
StoreCache(c) ==
    /\ ask[c].at = "store"
    /\ canonical' = [ask[c].got EXCEPT !.excused = @ \/ ask[c].got.asOf < answered]
    /\ ask' = [ask EXCEPT ![c].at = "return", ![c].got = NoSet]
    /\ UNCHANGED <<table, foreign, held, present, answered>>

\* The return statement reads the global again; another thread may have dropped
\* it since, and then the caller's test `room in None' raises.
ReturnCache(c) ==
    /\ ask[c].at = "return"
    /\ IF ~canonical.known \/ ask[c].op = "refresh" \/ ask[c].miss THEN Ends(c)
       ELSE LET in == ask[c].room \in canonical.rooms IN
            CASE ask[c].op = "write" /\ in -> Goes(c, "write")
              \* the refusal's text reads the set once more
              [] ask[c].op = "write" /\ ~in ->
                    ask' = [ask EXCEPT ![c].miss = TRUE, ![c].at = "test"]
              [] ask[c].op = "filter" /\ (in \/ ask[c].room \in present.rooms) -> Ends(c)
              [] OTHER -> Goes(c, IF present.known THEN "again" ELSE "first")
    /\ UNCHANGED <<table, foreign, held, canonical, present, answered>>

\* The write reaches the database, which refuses an unknown room if it has the
\* foreign key.
FileDrawer(c) ==
    /\ Doing(c, "write", "write")
    /\ held' = IF foreign /\ ask[c].room \notin table.names THEN held
               ELSE held \cup {ask[c].room}
    /\ Ends(c)
    /\ UNCHANGED <<table, foreign, canonical, present, answered>>

\* present_rooms(): the first read, made when nothing is cached; a failure means
\* "cannot tell" and the filter passes.
FirstRead(c, ok) ==
    /\ ask[c].at = "first"
    /\ present' = IF ok THEN [known |-> TRUE, rooms |-> held] ELSE present
    /\ IF ok /\ ask[c].room \notin held THEN Goes(c, "again") ELSE Ends(c)
    /\ UNCHANGED <<table, foreign, held, canonical, answered>>

\* present_rooms(refresh=True): a miss is looked at again.  If this read fails
\* the cached set decides.
ReadAgain(c, ok) ==
    /\ ask[c].at = "again"
    /\ present' = IF ok THEN [known |-> TRUE, rooms |-> held] ELSE present
    /\ IF ask[c].room \in present'.rooms THEN Ends(c)
       ELSE ask' = [ask EXCEPT ![c].at = "refuse", ![c].failed = ~ok]
    /\ UNCHANGED <<table, foreign, held, canonical, answered>>

Refuse(c) ==
    /\ ask[c].at = "refuse" /\ Ends(c)
    /\ UNCHANGED <<table, foreign, held, canonical, present, answered>>

-----------------------------------------------------------------------------
Change(names, hs) ==
    /\ table.version < MaxChanges
    /\ table' = [names |-> names, version |-> table.version + 1]
    /\ held' = hs

\* mempalace_rooms_add: an upsert, then the cache is dropped.
RoomsAdd(c) ==
    /\ Doing(c, "add", "tool")
    /\ Change(table.names \cup {ask[c].room}, held)
    /\ Goes(c, "drop")
    /\ UNCHANGED <<foreign, canonical, present, answered>>

\* mempalace_rooms_rename: refused when the old name is missing, the new one is
\* taken or both are one; the foreign key carries the drawers along.
RoomsRename(c) ==
    /\ Doing(c, "rename", "tool")
    /\ LET old == ask[c].room
           new == ask[c].to
           hs  == IF foreign /\ old \in held THEN (held \ {old}) \cup {new} ELSE held
       IN IF old = new \/ old \notin table.names \/ new \in table.names
          THEN Ends(c) /\ UNCHANGED <<table, held>>
          ELSE /\ Change((table.names \ {old}) \cup {new}, hs)
               /\ ask' = [Witness(hs) EXCEPT ![c].at = "drop"]
    /\ UNCHANGED <<foreign, canonical, present, answered>>

\* mempalace_rooms_remove counts the room's drawers and refuses if it has any ...
RoomsCount(c) ==
    /\ Doing(c, "remove", "tool")
    /\ IF ask[c].room \in held THEN Ends(c) ELSE Goes(c, "delete")
    /\ UNCHANGED <<table, foreign, held, canonical, present, answered>>

\* ... and deletes it; a drawer filed in between makes the foreign key object.
RoomsDelete(c) ==
    /\ Doing(c, "remove", "delete")
    /\ IF foreign /\ ask[c].room \in held THEN Ends(c) /\ UNCHANGED <<table, held>>
       ELSE /\ Change(table.names \ {ask[c].room}, held)
            /\ Goes(c, "drop")
    /\ UNCHANGED <<foreign, canonical, present, answered>>

\* Mutant: the tools leave the cache to the refresh endpoint.
DropCacheForgotten(c) ==
    /\ ask[c].at = "drop"
    /\ answered' = table.version
    /\ Ends(c)
    /\ UNCHANGED <<table, foreign, held, canonical, present>>

\* invalidate_rooms_cache(), and the tool answers.
DropCache(c) ==
    /\ ask[c].at = "drop"
    /\ canonical' = NoSet
    /\ answered' = table.version
    /\ Ends(c)
    /\ UNCHANGED <<table, foreign, held, present>>

\* POST /admin/refresh-rooms drops the cache and fills it at once.
RefreshRooms(c) ==
    /\ Doing(c, "refresh", "tool")
    /\ canonical' = NoSet
    /\ Goes(c, "test")
    /\ UNCHANGED <<table, foreign, held, present, answered>>

-----------------------------------------------------------------------------
\* mempalace itself: the miner files drawers straight into the database, the
\* `mempalace rooms' command changes the table, drawers are deleted.
MinerFiles(r) ==
    /\ r \notin held /\ (foreign => r \in table.names)
    /\ held' = held \cup {r}
    /\ UNCHANGED <<table, foreign, canonical, present, answered, ask>>

DrawersGo(r) ==
    /\ r \in held /\ held' = held \ {r} /\ ask' = Witness(held')
    /\ UNCHANGED <<table, foreign, canonical, present, answered>>

CliAdds(r) ==
    /\ r \notin table.names /\ Change(table.names \cup {r}, held)
    /\ UNCHANGED <<foreign, canonical, present, answered, ask>>

CanonicalRooms(c) ==
    \/ TestCache(c) \/ StoreCache(c) \/ ReturnCache(c)
    \/ \E ok \in BOOLEAN : ReadTable(c, ok)

RoomFilter(c) ==
    \/ Refuse(c)
    \/ \E ok \in BOOLEAN : FirstRead(c, ok) \/ ReadAgain(c, ok)

RoomTool(c) ==
    RoomsAdd(c) \/ RoomsRename(c) \/ RoomsCount(c) \/ RoomsDelete(c) \/ DropCache(c)
    \/ RefreshRooms(c)

RoomsNext ==
    \/ \E c \in Caller, op \in Asks, r, to \in Room : Ask(c, op, r, to)
    \/ \E c \in Caller : CanonicalRooms(c) \/ RoomFilter(c) \/ RoomTool(c) \/ FileDrawer(c)
    \/ \E r \in Room : MinerFiles(r) \/ DrawersGo(r) \/ CliAdds(r)

RoomsSpec == RoomsInit /\ [][RoomsNext]_roomsVars

-----------------------------------------------------------------------------
\* A filter is refused with 400 only for a room that at some moment of the
\* request held no drawers, unless the second look failed ("a stale cache must
\* never produce a 400 for a room that now exists").
RefusedOnlyIfAbsent ==
    \A c \in Caller : ask[c].at = "refuse" /\ ~ask[c].failed => ~ask[c].here

\* The cached canonical set has seen every change the rooms tools have
\* reported; the exceptions are a set that was read before the report and
\* stored after it, and the defaults that stand in for a failed read.
CanonicalSeesReports ==
    canonical.known /\ ~canonical.excused => canonical.asOf >= answered

\* The guards and tools of the rooms, under any interleaving of their threads,
\* keep both promises above.
RoomsCorrect == RoomsTypeOK /\ RefusedOnlyIfAbsent /\ CanonicalSeesReports
=============================================================================
