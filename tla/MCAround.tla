------------------------------ MODULE MCAround ------------------------------
(***************************************************************************)
(* What goes on around the requests, in one model: the file watcher, the   *)
(* bench lock, the daemon under systemd, the hooks of a session, the graph *)
(* backfill, the tests before a mine and an MCP session.  The modules      *)
(* share no state, so a behaviour is about one of them: `part' says which, *)
(* and the others stay as they began.                                      *)
(***************************************************************************)
EXTENDS Watcher, BenchLock, Lifecycle, HookTrigger, Backfill, MineAdmission,
        McpSession

VARIABLE part

aroundVars == <<part, watcherVars, benchVars, lifecycleVars, hookVars, backfillVars, mineVars, mcpVars>>

AroundInit ==
    /\ WatcherInit /\ BenchInit /\ LifecycleInit /\ HookInit /\ BackfillInit /\ MineInit /\ McpInit
    /\ part \in {"watcher", "bench", "life", "hooks", "backfill", "indexes", "mine", "mcp"}
    /\ part # "watcher" => observer = {}
    /\ part # "mcp" => mcpMode = "all" /\ ~canWake /\ ~intercept /\ ~reachable
    /\ part # "mine" => target = [kind |-> "directory", mode |-> "projects"]

AroundNext ==
    /\ UNCHANGED part
    /\ \/ part = "watcher" /\ WatcherNext
            /\ UNCHANGED <<benchVars, lifecycleVars, hookVars, backfillVars, mineVars, mcpVars>>
       \/ part = "bench" /\ BenchNext
            /\ UNCHANGED <<watcherVars, lifecycleVars, hookVars, backfillVars, mineVars, mcpVars>>
       \/ part = "life" /\ LifecycleNext
            /\ UNCHANGED <<watcherVars, benchVars, hookVars, backfillVars, mineVars, mcpVars>>
       \/ part = "hooks" /\ HookNext
            /\ UNCHANGED <<watcherVars, benchVars, lifecycleVars, backfillVars, mineVars, mcpVars>>
       \/ part = "backfill" /\ RunsNext
            /\ UNCHANGED <<watcherVars, benchVars, lifecycleVars, hookVars, mineVars, mcpVars>>
       \/ part = "indexes" /\ IndexesNext
            /\ UNCHANGED <<watcherVars, benchVars, lifecycleVars, hookVars, mineVars, mcpVars>>
       \/ part = "mine" /\ MineNext
            /\ UNCHANGED <<watcherVars, benchVars, lifecycleVars, hookVars, backfillVars, mcpVars>>
       \/ part = "mcp" /\ McpNext
            /\ UNCHANGED <<watcherVars, benchVars, lifecycleVars, hookVars, backfillVars, mineVars>>

AroundSpec == AroundInit /\ [][AroundNext]_aroundVars
=============================================================================
