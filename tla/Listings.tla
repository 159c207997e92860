------------------------------ MODULE Listings ------------------------------
(***************************************************************************)
(* The paged listings, and a client that walks one from its first page to  *)
(* its last:                                                               *)
(*   window    /window, by keyset cursor    window_query.py, window_routes *)
(*   list      /list, by offset             fast_intercept.py              *)
(*   hallways  mempalace_list_hallways      daemon_tools.py                *)
(*   mined     mempalace_mined, in one page daemon_tools.py                *)
(*                                                                         *)
(* A row is its id and one number: the time it was filed (window, 0 for a  *)
(* drawer without one); what kind of row it is (list); its co-occurrence   *)
(* count (hallways); the wing of a source (mined).  A filter by wing or    *)
(* room selects rows before all of this and is left out, and so are the    *)
(* columns of a row.  A page of SQL is the sorted selection cut to length. *)
(***************************************************************************)
EXTENDS Selection, SequencesExt, FiniteSetsExt

CONSTANTS RowId,     \* ids: positive numbers, in the order of the ids
          MaxPage,   \* MAX_PAGE, _LIST_MAX_RESULTS, HALLWAY_MAX_LIMIT
          DefaultPage, \* HALLWAY_DEFAULT_LIMIT
          MaxAsked   \* the largest limit a client asks for

ASSUME ListingsAssumption ==
    /\ RowId \subseteq Nat \ {0} /\ IsFiniteSet(RowId)
    /\ MaxPage \in Nat \ {0} /\ DefaultPage \in Nat /\ MaxAsked \in Nat

VARIABLES rows,  \* the table: a function from the ids it has
          walk   \* the client's walk

listingsVars == <<rows, walk>>

-----------------------------------------------------------------------------
Undated == 0
\* the rows of list, see OrphanGroups
Anchor == 0
Orphan == 1
Legacy == 2
Keys == {Anchor, Orphan, Legacy}

NoCursor == [key |-> 0, id |-> 0]
NoWalk == [kind |-> "none", limit |-> 0, since |-> 0, before |-> 0, cursor |-> NoCursor,
           offset |-> 0, got |-> <<>>, more |-> FALSE, kept |-> {}]

\* max(1, min(limit, cap)), in all of them.
Clamped(limit) == Max({1, Min({limit, MaxPage})})

\* The pairs of rows; an order is a set of them.
Pairs == (DOMAIN rows) \X (DOMAIN rows)

\* ORDER BY: the elements of S by the total order R.
InOrder(S, R) ==
    [k \in 1..Cardinality(S) |-> CHOOSE i \in S : Cardinality({j \in S : <<j, i>> \in R}) = k - 1]

-----------------------------------------------------------------------------
(* /window                                                                 *)

\* ORDER BY filed_at, id: the database sorts a missing time last.
FiledBefore ==
    {p \in Pairs :
        \/ rows[p[1]] = rows[p[2]] /\ p[1] < p[2]
        \/ rows[p[1]] # Undated /\ (rows[p[2]] = Undated \/ rows[p[1]] < rows[p[2]])}

\* [since, before), where a bound excludes rows without a time.
InBounds(i, since, before) ==
    /\ since # 0 \/ before # 0 => rows[i] # Undated
    /\ since # 0 => rows[i] >= since
    /\ before # 0 => rows[i] < before

\* Mutant: the comparison of the times alone.
AfterCursorByTime(i, c) == c = NoCursor \/ (rows[i] # Undated /\ c.key # Undated /\ rows[i] > c.key)

\* The tuple comparison (filed_at, id) > cursor.  A missing time compares with
\* nothing; the cursor of an undated row holds the text "None", which is
\* greater than every time.
AfterCursor(i, c) ==
    c = NoCursor \/
        /\ rows[i] # Undated /\ c.key # Undated
        /\ rows[i] > c.key \/ (rows[i] = c.key /\ i > c.id)

WindowRows(w) ==
    Firsts(InOrder({i \in DOMAIN rows : InBounds(i, w.since, w.before) /\ AfterCursor(i, w.cursor)},
                        FiledBefore),
           Clamped(w.limit))

\* window(): a full page comes with the cursor of its last row.
WindowPage(w) ==
    LET page == WindowRows(w)
        full == Len(page) = Clamped(w.limit)
    IN  [w EXCEPT !.got = @ \o page, !.more = full,
                  !.cursor = IF full THEN [key |-> rows[Last(page)], id |-> Last(page)] ELSE NoCursor]

-----------------------------------------------------------------------------
(* /list                                                                   *)

ById == {p \in Pairs : p[1] < p[2]}

\* _load_chunk_groups(): chunks whose logical row exists are listed with it
\* (Legacy: a row of chunks, not listed itself), the others as groups of
\* their own.
OrphanGroups == InOrder({i \in DOMAIN rows : rows[i] = Orphan}, ById)
Anchors == InOrder({i \in DOMAIN rows : rows[i] = Anchor}, ById)

\* fast_list_payload(): anchors occupy the positions below anchor_total, the
\* orphan groups follow.
ListPage(w) ==
    LET total  == Len(Anchors)
        limit  == Clamped(w.limit)
        page   == IF w.offset < total
                  THEN SubSeq(Anchors, w.offset + 1, Min({w.offset + limit, total})) ELSE <<>>
        start  == IF w.offset > total THEN w.offset - total ELSE 0
        orphan == SubSeq(OrphanGroups, start + 1,
                         Min({start + limit - Len(page), Len(OrphanGroups)}))
    IN  [w EXCEPT !.got = @ \o (page \o orphan),
                  !.offset = @ + Len(page \o orphan),
                  !.more = w.offset + Len(page \o orphan) < total + Len(OrphanGroups)]

-----------------------------------------------------------------------------
(* mempalace_list_hallways, mempalace_mined                                *)

Stronger == {p \in Pairs : rows[p[1]] > rows[p[2]] \/ (rows[p[1]] = rows[p[2]] /\ p[1] < p[2])}

\* The limit of mempalace_list_hallways: zero stands for the default.
HallwaysLimit(limit) == Clamped(IF limit = 0 THEN DefaultPage ELSE limit)

\* fast_mcp_list_hallways(): one row more than the page is fetched, so that
\* "truncated" is a fact.
HallwaysPage(w) ==
    LET limit == HallwaysLimit(w.limit)
        all   == InOrder(DOMAIN rows, Stronger)
        found == SubSeq(all, w.offset + 1, Min({w.offset + limit + 1, Len(all)}))
        page  == Firsts(found, limit)
    IN  [w EXCEPT !.got = @ \o page, !.offset = @ + Len(page), !.more = Len(found) > limit]

\* ORDER BY wing, n DESC leaves sources of one count in any order; the id stands
\* for the order of the answer.
ByWing == {p \in Pairs : rows[p[1]] < rows[p[2]] \/ (rows[p[1]] = rows[p[2]] /\ p[1] < p[2])}

\* fast_mcp_mined(): one loop over the sources by wing.  A source is listed while
\* the sources of its wing counted before it are fewer than `limit' (0: no
\* limit), and makes the wing truncated otherwise.
Mined(limit) ==
    LET all     == InOrder(DOMAIN rows, ByWing)
        mine(k) == {p \in DOMAIN all : rows[all[p]] = k}
        listed(k) == {p \in mine(k) : limit = 0 \/ Cardinality({q \in mine(k) : q < p}) < limit}
    IN  [k \in Keys |-> [sources   |-> Pick(all, listed(k)),
                         total     |-> Cardinality(mine(k)),
                         truncated |-> listed(k) # mine(k)]]

-----------------------------------------------------------------------------
ListingsTypeOK ==
    /\ DOMAIN rows \subseteq RowId /\ \A i \in DOMAIN rows : rows[i] \in Keys
    /\ walk.kind \in {"none", "window", "list", "hallways", "mined"}
    /\ ToSet(walk.got) \subseteq RowId /\ walk.offset <= Cardinality(RowId)

ListingsInit == rows = << >> /\ walk = NoWalk

\* A table as it may be, and a client that asks for it.
StartWalk(kind, ids, f, limit, since, before) ==
    /\ kind # "window" => since = 0 /\ before = 0
    /\ rows' = f
    /\ walk' = [NoWalk EXCEPT !.kind = kind, !.limit = limit, !.since = since, !.before = before,
                              !.more = TRUE, !.kept = ids]

NextPage ==
    /\ walk.more
    /\ walk' = CASE walk.kind = "window"   -> WindowPage(walk)
                 [] walk.kind = "list"     -> ListPage(walk)
                 [] walk.kind = "hallways" -> HallwaysPage(walk)
                 [] walk.kind = "mined"    -> [walk EXCEPT !.more = FALSE]
    /\ UNCHANGED rows

\* While a window is walked drawers are filed, at any time (filed_at has two
\* time zones), and deleted.  One that is filed again under its id with a new
\* time is another drawer to the cursor, and left out here.  The offset listings
\* promise nothing then.
DrawerFiled(i, key) ==
    /\ walk.kind = "window" /\ walk.more
    /\ i \notin DOMAIN rows \cup ToSet(walk.got)
    /\ rows' = [j \in DOMAIN rows \cup {i} |-> IF j = i THEN key ELSE rows[j]]
    /\ UNCHANGED walk

DrawerDeleted(i) ==
    /\ walk.kind = "window" /\ walk.more
    /\ i \in DOMAIN rows
    /\ rows' = [j \in DOMAIN rows \ {i} |-> rows[j]]
    /\ walk' = [walk EXCEPT !.kept = @ \ {i}]

ListingsNext ==
    \/ /\ walk = NoWalk
       /\ \E kind \in {"window", "list", "hallways", "mined"}, ids \in SUBSET RowId :
            \E f \in [ids -> Keys], limit \in 0..MaxAsked, since, before \in 0..2 :
                StartWalk(kind, ids, f, limit, since, before)
    \/ NextPage
    \/ \E i \in RowId : DrawerDeleted(i) \/ \E key \in Keys : DrawerFiled(i, key)

ListingsSpec == ListingsInit /\ [][ListingsNext]_listingsVars

-----------------------------------------------------------------------------
Done(kind) == walk.kind = kind /\ ~walk.more
Times(i) == Cardinality({k \in DOMAIN walk.got : walk.got[k] = i})

\* A finished walk over /window has returned each dated drawer that was there
\* all the time, within the bounds, exactly once, whatever was filed or deleted
\* meanwhile and however many share one time.
WindowWalkComplete ==
    /\ Done("window") =>
         \A i \in walk.kept :
            InBounds(i, walk.since, walk.before) /\ rows[i] # Undated => Times(i) = 1
    /\ walk.kind = "window" => \A i \in ToSet(walk.got) : Times(i) = 1

\* The pages of /list over an unchanged table are every anchor and every orphan
\* group once, anchors first: no row is lost or repeated at the page on which
\* the anchors end.
ListWalkComplete ==
    /\ walk.kind = "list" => IsPrefix(walk.got, Anchors \o OrphanGroups)
    /\ Done("list") => walk.got = Anchors \o OrphanGroups

\* The pages of mempalace_list_hallways, asked for while "truncated", are all of
\* the hallways, strongest first, and no page was asked for in vain.
HallwaysWalkComplete ==
    /\ Done("hallways") => walk.got = InOrder(DOMAIN rows, Stronger)
    /\ walk.kind = "hallways" /\ walk.more =>
         Len(walk.got) < Cardinality(DOMAIN rows) \/ DOMAIN rows = {}

\* mempalace_mined returns for each wing the first `limit' sources and says of
\* each wing whether there are more.
MinedLimitExact ==
    Done("mined") =>
        \A k \in Keys :
            LET mine == InOrder({i \in DOMAIN rows : rows[i] = k}, ById)
                n    == IF walk.limit = 0 THEN Len(mine) ELSE walk.limit
                slot == Mined(walk.limit)[k]
            IN  /\ slot.sources = Firsts(mine, n)
                /\ slot.total = Len(mine)
                /\ slot.truncated <=> Len(mine) > Len(slot.sources)

\* Whatever the page length and the bounds, a client that follows a listing to
\* its end gets what the listing stands for.
WalksComplete ==
    /\ ListingsTypeOK
    /\ WindowWalkComplete /\ ListWalkComplete /\ HallwaysWalkComplete
    /\ MinedLimitExact
=============================================================================
