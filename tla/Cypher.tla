------------------------------- MODULE Cypher -------------------------------
(***************************************************************************)
(* POST /cypher: cypher_rewrite.py and cypher_query() of main.py.          *)
(*                                                                         *)
(* A query is a sequence of clauses over a few names: UNWIND binds a name, *)
(* WITH and RETURN project names under aliases and may sort.  What the     *)
(* tokenizer throws away or skips (strings, brackets, property keys,       *)
(* labels, function names, map keys) is left out: a clause is the names    *)
(* the rewriting looks at, an expression is the variable it reads.         *)
(*                                                                         *)
(* The reference is Apache AGE as the header of cypher_rewrite.py measured *)
(* it: a name in ORDER BY is looked up among the variables in scope before *)
(* the projection, and is an error if it is not one of them.               *)
(***************************************************************************)
EXTENDS Naturals, Sequences

CONSTANTS Name,      \* variables and aliases
          MaxItems   \* bound on the items of a RETURN

ASSUME CypherAssumption == Name # {} /\ MaxItems \in Nat \ {0}

VARIABLES query,  \* the query as received and as sent to AGE
          kg,     \* the request's connection: its step, its transaction, its answer
          graph   \* the number of changes of the graph

cypherVars == <<query, kg, graph>>

-----------------------------------------------------------------------------
Item == [var : Name, as : Name]
Unwind(x) == [op |-> "UNWIND", items |-> <<[var |-> x, as |-> x]>>, order |-> <<>>]

Projects(c) == c.op \in {"WITH", "RETURN"}

\* The names a clause mentions: as variables, aliases or sort keys.
Mentioned(c) ==
    {c.items[i].var : i \in DOMAIN c.items} \cup {c.items[i].as : i \in DOMAIN c.items}
        \cup {c.order[i] : i \in DOMAIN c.order}

\* _bound_identifiers(): every name before the projection's keyword, an
\* over-approximation of the variables in scope there.
BoundBefore(q, i) == UNION {Mentioned(q[j]) : j \in 1..(i - 1)}

\* _alias_map(): the item that defines an alias, the last one if there are two.
Defines(c, k, a) == c.items[k].as = a /\ \A m \in DOMAIN c.items : m > k => c.items[m].as # a

\* Mutant: aliases that shadow a variable are replaced too.
SubstitutedAlways(q, i, n) ==
    LET c == q[i] IN
    IF \E k \in DOMAIN c.items : Defines(c, k, n)
    THEN c.items[CHOOSE k \in DOMAIN c.items : Defines(c, k, n)].var ELSE n

\* _substitutions(): an alias in ORDER BY becomes the expression behind it,
\* unless the name is bound already.
Substituted(q, i, n) ==
    LET c == q[i] IN
    IF n \notin BoundBefore(q, i) /\ \E k \in DOMAIN c.items : Defines(c, k, n)
    THEN c.items[CHOOSE k \in DOMAIN c.items : Defines(c, k, n)].var ELSE n

\* rewrite_order_by_aliases()
Rewrite(q) ==
    [i \in DOMAIN q |->
        IF Projects(q[i])
        THEN [q[i] EXCEPT !.order = [k \in DOMAIN q[i].order |-> Substituted(q, i, q[i].order[k])]]
        ELSE q[i]]

-----------------------------------------------------------------------------
(* AGE.  A name stands for a value that some UNWIND bound; the clauses     *)
(* after it pass the value on, under the same or another name.             *)

Clause == [op : {"UNWIND", "WITH", "RETURN"}, items : Seq(Item), order : Seq(Name)]
Query == Seq(Clause)

Aliases(c) == {c.items[k].as : k \in DOMAIN c.items}

\* After clause c the name n is what m was before it.
Passes(c, m, n) ==
    \/ c.op = "UNWIND" /\ n = m /\ n \notin Aliases(c)
    \/ Projects(c) /\ \E k \in DOMAIN c.items : Defines(c, k, n) /\ c.items[k].var = m

\* The value bound as m by clause j is in t[k] after clause k, up to clause i.
Carries(q, j, m, i, t) ==
    /\ q[j].op = "UNWIND" /\ m \in Aliases(q[j])
    /\ t[j] = m /\ \A k \in (j + 1)..i : Passes(q[k], t[k - 1], t[k])

\* Where the value of n after clause i comes from: the clause and name that
\* bound it; empty if n is not in scope.
Scope(q, i, n) ==
    {b \in (1..i) \X Name : \E t \in [b[1]..i -> Name] : t[i] = n /\ Carries(q, b[1], b[2], i, t)}

\* The projections' variables are in scope; sort keys are.
Legal(q, i) ==
    Projects(q[i]) => \A k \in DOMAIN q[i].items : Scope(q, i - 1, q[i].items[k].var) # {}
SortLegal(q, i) ==
    \A k \in DOMAIN q[i].order : Scope(q, i - 1, q[i].order[k]) # {}

WellFormed(q) == \A i \in DOMAIN q : \A j \in 1..i : Legal(q, j)
Accepted(q) == WellFormed(q) /\ \A i \in DOMAIN q : SortLegal(q, i)

\* What AGE sorts by, clause by clause.
SortKeys(q) == [i \in DOMAIN q |-> [k \in DOMAIN q[i].order |-> Scope(q, i - 1, q[i].order[k])]]

-----------------------------------------------------------------------------
Closed == [at |-> "idle", readOnly |-> FALSE, writes |-> FALSE, status |-> 0]

CypherTypeOK ==
    /\ query.sent \in Query
    /\ kg.at \in {"idle", "open", "begun", "ready", "close"}
    /\ kg.status \in {0, 200, 400, 403, 502, 504, 507}
    /\ graph \in 0..2

CypherInit == query = [got |-> <<>>, sent |-> <<>>] /\ kg = Closed /\ graph = 0

\* A request with a query; `writes' is whether it has a write verb, which the
\* daemon does not look for.
Post(q, w) ==
    /\ kg.at = "idle"
    /\ query' = [got |-> q, sent |-> <<>>]
    /\ kg' = [Closed EXCEPT !.at = "open", !.writes = w]
    /\ UNCHANGED graph

\* KnowledgeGraphAGE(dsn): creates the graph if it is absent, commits; or fails
\* to connect and nothing is left to close.
Construct(ok) ==
    /\ kg.at = "open"
    /\ graph' = IF ok /\ graph = 0 THEN 1 ELSE graph
    /\ kg' = IF ok THEN [kg EXCEPT !.at = "begun"] ELSE [Closed EXCEPT !.status = 502]
    /\ UNCHANGED query

\* rollback(), SET TRANSACTION READ ONLY.
BeginReadOnly ==
    /\ kg.at = "begun"
    /\ kg' = [kg EXCEPT !.at = "ready", !.readOnly = TRUE]
    /\ UNCHANGED <<query, graph>>

\* The statuses of the errors _run() tells apart: write verb, bad query, timeout,
\* shared memory, any other.
ErrorStatus == {400, 502, 504, 507}

\* The query runs, rewritten.  The database refuses a write in a read-only
\* transaction; other errors may come at any query.
RunCypher(status) ==
    /\ kg.at = "ready"
    /\ query' = [query EXCEPT !.sent = Rewrite(query.got)]
    /\ status \in IF kg.writes /\ kg.readOnly THEN {403} ELSE ErrorStatus \cup {200}
    /\ status = 200 => Accepted(Rewrite(query.got))
    /\ kg' = [kg EXCEPT !.at = "close", !.status = status]
    /\ graph' = IF kg.writes /\ status = 200 THEN 2 ELSE graph

\* finally: kg.close(), whatever happened.
CloseGraph ==
    /\ kg.at = "close"
    /\ kg' = [Closed EXCEPT !.status = kg.status]
    /\ UNCHANGED <<query, graph>>

\* The queries of the bound: one or two UNWIND, perhaps a WITH of one item, a
\* RETURN.
ListsOf(S, m, n) == UNION {[1..l -> S] : l \in m..n}
Starts == ListsOf({Unwind(x) : x \in Name}, 1, 2)
Withs == ListsOf([op : {"WITH"}, items : ListsOf(Item, 1, 1), order : ListsOf(Name, 0, 1)], 0, 1)
Returns == [op : {"RETURN"}, items : ListsOf(Item, 1, MaxItems), order : ListsOf(Name, 0, 1)]

CypherNext ==
    \/ /\ kg.at = "idle" /\ query.got = <<>>
       /\ \E s \in Starts, w \in Withs, r \in Returns, writes \in BOOLEAN : Post(s \o w \o <<r>>, writes)
    \/ \E ok \in BOOLEAN : Construct(ok)
    \/ BeginReadOnly
    \/ \E s \in {200, 400, 403, 502, 504, 507} : RunCypher(s)
    \/ CloseGraph

CypherSpec == CypherInit /\ [][CypherNext]_cypherVars

-----------------------------------------------------------------------------
\* The rewriting never turns a query that works into one that sorts otherwise
\* or fails ("the rewrite only ever turns an error into a success, never a
\* success into a different success").
RewriteKeepsMeaning ==
    query.sent # <<>> /\ Accepted(query.got) =>
        Accepted(query.sent) /\ SortKeys(query.sent) = SortKeys(query.got)

\* A query whose only fault is a sort by an alias that no earlier clause
\* mentions is accepted after the rewriting.
RewriteHelps ==
    query.sent # <<>> /\ WellFormed(query.got) =>
        ((\A i \in DOMAIN query.got : \A k \in DOMAIN query.got[i].order :
            LET n == query.got[i].order[k] IN
            \/ Scope(query.got, i - 1, n) # {}
            \/ /\ \E m \in DOMAIN query.got[i].items : query.got[i].items[m].as = n
               /\ \A j \in 1..(i - 1) : n \notin Mentioned(query.got[j]))
         => Accepted(query.sent))

\* /cypher creates a graph that was absent and never writes to one, whatever
\* verbs the query has: it runs in a transaction that was made read-only first.
CypherOnlyReads == graph # 2

\* The rewriting is safe and of use, and the endpoint only reads.
CypherCorrect == CypherTypeOK /\ RewriteKeepsMeaning /\ RewriteHelps /\ CypherOnlyReads
=============================================================================
