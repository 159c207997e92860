--------------------------- MODULE SearchRanking ----------------------------
(***************************************************************************)
(* What a search endpoint does with the hits it fetched: the kind filter   *)
(* and the fusion of search_routes.py, the reranking of rerank.py with its *)
(* ranker that is loaded once.                                             *)
(*                                                                         *)
(* A hit is its drawer and a class: plain text, a checkpoint known by its  *)
(* topic, one known by its text only, or a stub without text.  Scores of   *)
(* the cross-encoder are left out: any order of the passages may come back *)
(* and it may drop some.  The reciprocal ranks of the fusion are compared  *)
(* exactly, as fractions.                                                  *)
(***************************************************************************)
EXTENDS Selection, SequencesExt, FiniteSetsExt

CONSTANTS Drawer,      \* drawers a search may find
          RankCaller,  \* threads that call _get_ranker()
          FusionK,     \* fusion_k of the request
          TopK,        \* graph_top_k of the request
          MaxLimit     \* bound on `limit'

ASSUME SearchAssumption ==
    FusionK \in Nat \ {0} /\ TopK \in Nat \ {0} /\ MaxLimit \in Nat /\ IsFiniteSet(Drawer)

VARIABLES ranker,  \* _ranker and _ranker_load_error: "none", "loaded", "failed"
          loading, \* where each caller of _get_ranker() is
          loads,   \* history: how often the model was loaded, at most 2 counted
          found,   \* one request: what was fetched
          reply    \* and what it has become

searchVars == <<ranker, loading, loads, found, reply>>

-----------------------------------------------------------------------------
Class == {"plain", "topic", "prefix", "stub"}
Kind == {"content", "checkpoint", "all"}
Lists == {s \in UNION {[1..n -> Drawer] : n \in 0..Cardinality(Drawer)} : IsInjective(s)}

NotAsked == [way |-> "none", hits |-> <<>>, class |-> [d \in Drawer |-> "plain"], kind |-> "all",
             mentions |-> [d \in Drawer |-> 0], limit |-> 0]
NoReply == [at |-> "idle", hits |-> <<>>, status |-> "none"]

\* _hit_is_checkpoint(): the topic, or the body's prefix where it was lost.
IsCheckpoint(d) == found.class[d] \in {"topic", "prefix"}

\* _apply_kind_filter()
ApplyKind(hits, kind) ==
    Pick(hits, {i \in DOMAIN hits : CASE kind = "all" -> TRUE
                                      [] kind = "checkpoint" -> IsCheckpoint(hits[i])
                                      [] kind = "content" -> ~IsCheckpoint(hits[i])})

\* _passage_text() finds something to score.
Rankable(d) == found.class[d] # "stub"

\* rerank_hits(): the passages in the order of the scores, then those the ranker
\* dropped, then what it could not score, both in their old order.
Reordered(hits, scored) ==
    scored \o Pick(hits, {i \in DOMAIN hits : Rankable(hits[i]) /\ hits[i] \notin ToSet(scored)})
           \o Pick(hits, {i \in DOMAIN hits : ~Rankable(hits[i])})

-----------------------------------------------------------------------------
(* The fusion of search_age_fused().                                       *)

PosIn(d, list) == CHOOSE i \in DOMAIN list : list[i] = d
In(d, list) == d \in ToSet(list)

\* Ranks count from 0; 1/(k + rank) for each list the drawer is in.
Denominators(d, vec, graph) ==
    [v |-> IF In(d, vec) THEN FusionK + PosIn(d, vec) - 1 ELSE 0,
     g |-> IF In(d, graph) THEN FusionK + PosIn(d, graph) - 1 ELSE 0]

Fraction(n) ==
    IF n.v = 0 THEN <<1, n.g>> ELSE IF n.g = 0 THEN <<1, n.v>> ELSE <<n.v + n.g, n.v * n.g>>

ScoresAtLeast(a, b, vec, graph) ==
    LET x == Fraction(Denominators(a, vec, graph))
        y == Fraction(Denominators(b, vec, graph))
    IN  x[1] * y[2] >= y[1] * x[2]

\* The orders in which `mentions' may be sorted, cut to graph_top_k.
GraphLists(m) ==
    {Firsts(s, TopK) :
        s \in {l \in Lists : /\ ToSet(l) = {d \in Drawer : m[d] > 0}
                             /\ \A i, j \in DOMAIN l : i < j => m[l[i]] >= m[l[j]]}}

FusedLists(vec, graph, limit) ==
    {Firsts(s, limit) :
        s \in {l \in Lists : /\ ToSet(l) = ToSet(vec) \cup ToSet(graph)
                             /\ \A i, j \in DOMAIN l : i < j => ScoresAtLeast(l[i], l[j], vec, graph)}}

-----------------------------------------------------------------------------
SearchTypeOK ==
    /\ ranker \in {"none", "loaded", "failed"} /\ loads \in 0..2
    /\ loading \in [RankCaller -> {"idle", "lock", "load"}]
    /\ found.hits \in Lists /\ found.kind \in Kind /\ ToSet(reply.hits) \subseteq Drawer
    /\ reply.status \in {"none", "skipped", "failed", "ok"}

SearchInit ==
    /\ ranker = "none" /\ loads = 0 /\ loading = [c \in RankCaller |-> "idle"]
    /\ found = NotAsked /\ reply = NoReply

\* _get_ranker(): without the lock a ranker or an earlier failure is enough.
WantRanker(c) ==
    /\ loading[c] = "idle" /\ ranker = "none"
    /\ loading' = [loading EXCEPT ![c] = "lock"]
    /\ UNCHANGED <<ranker, loads, found, reply>>

\* Mutant: only a loaded ranker is tested again, not the failure.
LockRankerNoFailure(c) ==
    /\ loading[c] = "lock" /\ \A x \in RankCaller : loading[x] # "load"
    /\ loading' = [loading EXCEPT ![c] = IF ranker = "loaded" THEN "idle" ELSE "load"]
    /\ UNCHANGED <<ranker, loads, found, reply>>

\* With the lock both are tested again.
LockRanker(c) ==
    /\ loading[c] = "lock" /\ \A x \in RankCaller : loading[x] # "load"
    /\ loading' = [loading EXCEPT ![c] = IF ranker = "none" THEN "load" ELSE "idle"]
    /\ UNCHANGED <<ranker, loads, found, reply>>

LoadRanker(c, ok) ==
    /\ loading[c] = "load"
    /\ ranker' = IF ok THEN "loaded" ELSE "failed"
    /\ loads' = Min({2, loads + 1})
    /\ loading' = [loading EXCEPT ![c] = "idle"]
    /\ UNCHANGED <<found, reply>>

\* GET /search and /context: the hits of the tool, filtered by kind.
Search(hits, class, kind) ==
    /\ found' = [NotAsked EXCEPT !.way = "search", !.hits = hits, !.class = class, !.kind = kind]
    /\ reply' = [NoReply EXCEPT !.at = "fetched"]
    /\ UNCHANGED <<ranker, loading, loads>>

\* POST /search/hybrid and /search/keyword: the hits as they come.
SearchUnfiltered(hits, class) ==
    /\ found' = [NotAsked EXCEPT !.way = "search", !.hits = hits, !.class = class]
    /\ reply' = [NoReply EXCEPT !.at = "rerank", !.hits = hits]
    /\ UNCHANGED <<ranker, loading, loads>>

FilterKind ==
    /\ reply.at = "fetched" /\ found.way = "search"
    /\ reply' = [reply EXCEPT !.at = "rerank", !.hits = ApplyKind(found.hits, found.kind)]
    /\ UNCHANGED <<ranker, loading, loads, found>>

\* POST /search/age-fused: vector hits, and drawers of the graph by mentions (a
\* failed lookup is an empty graph).  Graph-only drawers that cannot be
\* hydrated are stubs.
SearchAgeFused(hits, class, mentions, limit) ==
    /\ \A d \in ToSet(hits) : class[d] = "plain"
    /\ found' = [NotAsked EXCEPT !.way = "fused", !.hits = hits, !.class = class,
                                 !.mentions = mentions, !.limit = limit]
    /\ reply' = [NoReply EXCEPT !.at = "fetched"]
    /\ UNCHANGED <<ranker, loading, loads>>

Fuse ==
    /\ reply.at = "fetched" /\ found.way = "fused"
    /\ \E g \in GraphLists(found.mentions) :
         \E l \in FusedLists(found.hits, g, found.limit) :
            reply' = [reply EXCEPT !.at = "rerank", !.hits = l]
    /\ UNCHANGED <<ranker, loading, loads, found>>

\* rerank_response(), once the ranker is there or known not to be: switched off
\* or nothing to score, no ranker or an exception of it, scores.
RerankSkips ==
    /\ reply.at = "rerank"
    /\ reply' = [reply EXCEPT !.at = "done", !.status = "skipped"]
    /\ UNCHANGED <<ranker, loading, loads, found>>

RerankFails ==
    /\ reply.at = "rerank" /\ ranker # "none" /\ \E d \in ToSet(reply.hits) : Rankable(d)
    /\ reply' = [reply EXCEPT !.at = "done", !.status = "failed"]
    /\ UNCHANGED <<ranker, loading, loads, found>>

RerankOrders(scored) ==
    /\ reply.at = "rerank" /\ ranker = "loaded"
    /\ scored # <<>> /\ \A d \in ToSet(scored) : In(d, reply.hits) /\ Rankable(d)
    /\ reply' = [reply EXCEPT !.at = "done", !.status = "ok", !.hits = Reordered(reply.hits, scored)]
    /\ UNCHANGED <<ranker, loading, loads, found>>

GetRanker(c) == WantRanker(c) \/ LockRanker(c) \/ \E ok \in BOOLEAN : LoadRanker(c, ok)

\* Requests are looked at when the ranker has settled: loading and ranking meet
\* in the value of `ranker' only.
Asking == reply.at = "idle" /\ \A c \in RankCaller : loading[c] = "idle"

SearchNext ==
    \/ reply.at = "idle" /\ \E c \in RankCaller : GetRanker(c)
    \/ Asking /\ \E hits \in Lists, class \in [Drawer -> Class] :
            \/ \E kind \in Kind : Search(hits, class, kind)
            \/ SearchUnfiltered(hits, class)
            \/ /\ \A d \in Drawer : class[d] \in {"plain", "stub"}
               /\ \E m \in [Drawer -> 0..2], limit \in 1..MaxLimit : SearchAgeFused(hits, class, m, limit)
    \/ FilterKind \/ Fuse
    \/ RerankSkips \/ RerankFails \/ (reply.at = "rerank" /\ \E s \in Lists : RerankOrders(s))

SearchSpec == SearchInit /\ [][SearchNext]_searchVars

-----------------------------------------------------------------------------
\* The model is loaded at most once in the daemon's life, also when concurrent
\* first requests find it missing and when the load failed.
RankerLoadedOnce == loads <= 1

\* GET /search answers with exactly the fetched hits of the kind, each once,
\* whatever the ranker drops or fails at; text checkpoints whose topic was lost
\* are checkpoints.
SearchAnswersKind ==
    reply.at = "done" /\ found.way = "search" =>
        /\ IsInjective(reply.hits)
        /\ ToSet(reply.hits) = {d \in ToSet(found.hits) :
              \/ found.kind = "all"
              \/ found.kind = "content" /\ found.class[d] \in {"plain", "stub"}
              \/ found.kind = "checkpoint" /\ found.class[d] \in {"topic", "prefix"}}

\* Stubs never pass a hit with text in a reranked answer.
StubsBehind ==
    reply.status = "ok" =>
        \A i, j \in DOMAIN reply.hits : i < j /\ ~Rankable(reply.hits[i]) => ~Rankable(reply.hits[j])

\* Drawer a was found earlier by the vectors and is mentioned more often.
BetterInBoth(a, b) ==
    /\ In(b, found.hits) => In(a, found.hits) /\ PosIn(a, found.hits) < PosIn(b, found.hits)
    /\ found.mentions[b] > 0 => found.mentions[a] > found.mentions[b]

\* The fusion of POST /search/age-fused: a drawer found earlier by the vectors
\* and mentioned more often in the graph is never behind, and never left out
\* for, one that is worse in both; without a graph the answer is the vector's.
FusionHonoursBoth ==
    reply.at = "rerank" /\ found.way = "fused" =>
        /\ \A i \in DOMAIN reply.hits, a \in ToSet(found.hits) :
             a # reply.hits[i] /\ BetterInBoth(a, reply.hits[i]) =>
                In(a, reply.hits) /\ PosIn(a, reply.hits) < i
        /\ (\A d \in Drawer : found.mentions[d] = 0) =>
             reply.hits = Firsts(found.hits, found.limit)

\* One load of the ranker, and from each endpoint the hits it fetched, of the
\* kind asked for, in an order no input contradicts.
SearchCorrect ==
    /\ SearchTypeOK
    /\ RankerLoadedOnce /\ SearchAnswersKind /\ StubsBehind /\ FusionHonoursBoth
=============================================================================
