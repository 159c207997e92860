----------------------------- MODULE McpSession -----------------------------
(***************************************************************************)
(* One MCP session: the stdio client (clients/mempalace-mcp.py), which     *)
(* reads a request per line and forwards it, wakes a sleeping palace host  *)
(* or answers by itself, and the POST /mcp handler of the daemon           *)
(* (mcp_proxy in main.py), which answers from SQL, from a tool of its own  *)
(* or through _call().                                                     *)
(*                                                                         *)
(* A request is its kind and whether it carries an id: a handshake, the    *)
(* list of tools, a method nobody knows, or a call of a tool.  "scan" is a *)
(* tool _fast_intercept_fn() accepts, "room" one of the daemon's own,      *)
(* "write" any other.  A line that is no JSON object is skipped and is not *)
(* modelled.  What _call() does is CallGate's subject.                     *)
(***************************************************************************)
EXTENDS Naturals, Sequences

VARIABLES
    mcpMode,     \* resolve_mcp_mode()
    canWake,     \* auto_wake.command is configured
    intercept,   \* PALACE_MCP_FAST_INTERCEPT
    reachable,   \* the palace host is awake and the daemon listens
    proxy,       \* what the client does
    request,     \* the line it has read
    tries,       \* forward() calls for it
    lanes,       \* the ways the daemon has taken with it, latest last
    answers,     \* history: lines written for it
    contacts     \* history: what the client has asked the daemon for

mcpVars == <<mcpMode, canWake, intercept, reachable, proxy, request, tries, lanes, answers, contacts>>
settings == <<mcpMode, canWake, intercept>>

Tools == {"search", "scan", "room", "write"}
Kinds == {"handshake", "list", "unknown"} \cup Tools
Proxies == {"starting", "reading", "handling", "sending", "connected", "serving", "waking", "exited", "broken"}

McpTypeOK ==
    /\ mcpMode \in {"all", "search-only", "cli-only"} /\ canWake \in BOOLEAN /\ intercept \in BOOLEAN
    /\ reachable \in BOOLEAN /\ proxy \in Proxies
    /\ request \in [kind : Kinds, id : BOOLEAN] /\ tries \in 0..2 /\ answers \in 0..1
    /\ \A i \in 1..Len(lanes) : lanes[i] \in {"fast", "native", "call"}
    /\ contacts \subseteq Kinds \cup {"probe"}

McpInit ==
    /\ mcpMode \in {"all", "search-only", "cli-only"} /\ canWake \in BOOLEAN /\ intercept \in BOOLEAN
    /\ reachable \in BOOLEAN /\ proxy = "starting"
    /\ request = [kind |-> "handshake", id |-> FALSE]
    /\ tries = 0 /\ lanes = <<>> /\ answers = 0 /\ contacts = {}

-----------------------------------------------------------------------------
(* The client                                                              *)

\* main(): only in mode "all" is the daemon needed at the start.
Probe ==
    /\ proxy = "starting"
    /\ contacts' = IF mcpMode = "cli-only" THEN contacts ELSE contacts \cup {"probe"}
    /\ proxy' = IF mcpMode = "all" /\ ~reachable THEN "exited" ELSE "reading"
    /\ UNCHANGED <<settings, reachable, request, tries, lanes, answers>>

ReadLine(r) ==
    /\ proxy = "reading" /\ proxy' = "handling" /\ request' = r
    /\ tries' = 0 /\ lanes' = <<>> /\ answers' = 0
    /\ UNCHANGED <<settings, reachable, contacts>>

\* _stdio_loop(): a response is written if the request has an id.
Writes == answers' = (IF request.id THEN answers + 1 ELSE answers) /\ proxy' = "reading"

Forwarded ==
    \/ mcpMode = "all"
    \/ mcpMode = "search-only" /\ request.id /\ request.kind = "search"

\* Handshakes, lists and refusals of the two restricted modes; their
\* notifications are dropped.
HandleLocally ==
    /\ proxy = "handling" /\ ~Forwarded /\ Writes
    /\ UNCHANGED <<settings, reachable, request, tries, lanes, contacts>>

Sending == proxy = "sending" \/ (proxy = "handling" /\ Forwarded)

\* forward(): the connection is made ...
Send ==
    /\ Sending
    /\ reachable
    /\ tries' = tries + 1 /\ contacts' = contacts \cup {request.kind} /\ proxy' = "connected"
    /\ UNCHANGED <<settings, reachable, request, lanes, answers>>

\* ... or not (URLError).  In search-only mode the host is then woken, once.
SendFails ==
    /\ Sending
    /\ ~reachable
    /\ tries' = tries + 1 /\ contacts' = contacts \cup {request.kind}
    /\ IF mcpMode = "search-only" /\ canWake /\ tries = 0
       THEN proxy' = "waking" /\ UNCHANGED answers
       ELSE Writes
    /\ UNCHANGED <<settings, reachable, request, lanes>>

\* The wake command has run and three seconds have passed, or it failed.
Wakes(ok) ==
    /\ proxy = "waking"
    /\ IF ok THEN proxy' = "sending" /\ UNCHANGED answers ELSE Writes
    /\ UNCHANGED <<settings, reachable, request, tries, lanes, contacts>>

\* Mutant: a lost answer is taken for a sleeping host.
LinkCutAsAsleep ==
    /\ proxy \in {"connected", "serving"}
    /\ IF mcpMode = "search-only" /\ canWake /\ tries = 1
       THEN proxy' = "waking" /\ UNCHANGED answers
       ELSE Writes
    /\ UNCHANGED <<settings, reachable, request, tries, lanes, contacts>>

\* The answer does not come: a timeout, or the connection is closed.  Neither is
\* a URLError.  Mode "all" and the second attempt catch any exception; the first
\* attempt of search-only mode does not, and the client ends with a traceback.
LinkCut ==
    /\ proxy \in {"connected", "serving"}
    /\ IF mcpMode = "search-only" /\ tries = 1
       THEN proxy' = "broken" /\ UNCHANGED answers
       ELSE Writes
    /\ UNCHANGED <<settings, reachable, request, tries, lanes, contacts>>

-----------------------------------------------------------------------------
(* The daemon: mcp_proxy().  Each step ends with the answer at the client. *)

Goes(lane) ==
    /\ proxy = "connected" /\ proxy' = "serving"
    /\ lanes' = Append(lanes, lane)
    /\ UNCHANGED <<settings, reachable, request, tries, answers, contacts>>

Intercepted == request.kind = "scan" /\ intercept

FastIntercept == Intercepted /\ Goes("fast")
NativeTool == request.kind = "room" /\ Goes("native")
ThroughCall == ~Intercepted /\ request.kind # "room" /\ Goes("call")

\* The SQL fails: answered with an error.
FastFails ==
    /\ proxy = "serving" /\ lanes # <<>> /\ lanes[Len(lanes)] = "fast"
    /\ Writes
    /\ UNCHANGED <<settings, reachable, request, tries, lanes, contacts>>

\* A result, a tool's error, or a rejection (HTTPError) that ran nothing or
\* followed the run: every one is written as the answer.
Replies ==
    /\ proxy \in {"connected", "serving"} /\ Writes
    /\ UNCHANGED <<settings, reachable, request, tries, lanes, contacts>>

HostChanges ==
    /\ reachable' = ~reachable
    /\ UNCHANGED <<settings, proxy, request, tries, lanes, answers, contacts>>

-----------------------------------------------------------------------------

McpNext ==
    \/ Probe \/ HandleLocally \/ Send \/ SendFails \/ LinkCut
    \/ \E r \in [kind : Kinds, id : BOOLEAN] : ReadLine(r)
    \/ \E ok \in BOOLEAN : Wakes(ok)
    \/ FastIntercept \/ NativeTool \/ ThroughCall \/ FastFails \/ Replies
    \/ HostChanges

McpSpec == McpInit /\ [][McpNext]_mcpVars

-----------------------------------------------------------------------------
\* However often the client forwards a request, the daemon runs it at most once:
\* only an attempt that made no connection is repeated.
RunAtMostOnce == Len(lanes) <= 1

\* When the client reads its next line, the last request has been answered
\* exactly once, or not at all if it was a notification.
LineAnswered ==
    proxy = "reading" => answers = (IF request.id THEN 1 ELSE 0)

\* "Not falling back to the full-corpus scan": a tool that is answered from SQL
\* never reaches _call(), also when the SQL fails.
NoFullScan == Intercepted => \A i \in 1..Len(lanes) : lanes[i] # "call"

\* A sleeping host is no obstacle to the modes that are meant to do without it:
\* cli-only never contacts it, search-only for a search only, and neither ends
\* because it does not answer.
SleepHarmless ==
    /\ mcpMode = "cli-only" => contacts = {}
    /\ mcpMode = "search-only" => contacts \subseteq {"probe", "search"}
    /\ proxy = "exited" => mcpMode = "all"

\* "Either way, never raise": the client does not end while it serves.  The code
\* breaks it by LinkCut.
NeverRaises == proxy # "broken"

\* Every request of a session is answered once and run at most once, by the lane
\* meant for it, whether the host is awake or not.
SessionCorrect ==
    McpTypeOK /\ RunAtMostOnce /\ LineAnswered /\ NoFullScan /\ SleepHarmless
=============================================================================
