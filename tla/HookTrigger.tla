---------------------------- MODULE HookTrigger ----------------------------
(***************************************************************************)
(* The hooks of one session in clients/hook.py: when Stop saves            *)
(* (hook_stop and its two state files), what each hook answers to the      *)
(* harness, and what the detached child then does.                         *)
(*                                                                         *)
(* The harness runs one hook at a time and waits for its answer; it kills  *)
(* a hook that takes too long.  A child goes on while later hooks run, but *)
(* touches none of their state, so one child is followed.  The ingest it   *)
(* calls is the subject of HookIngest.                                     *)
(***************************************************************************)
EXTENDS Integers, FiniteSets

CONSTANTS
    SaveInterval,      \* SAVE_INTERVAL, in exchanges
    TimeSaveInterval,  \* TIME_SAVE_INTERVAL
    ForceMinInterval,  \* FORCE_MIN_INTERVAL
    MaxHuman, MaxTool, \* bounds on the transcript
    MaxHookClock       \* bound on the clock, which begins at TimeSaveInterval

ASSUME HookTriggerAssumption ==
    /\ {SaveInterval, TimeSaveInterval} \subseteq Nat \ {0} /\ ForceMinInterval \in 0..TimeSaveInterval
    /\ {MaxHuman, MaxTool, MaxHookClock} \subseteq Nat /\ MaxHookClock >= TimeSaveInterval

VARIABLES
    hookClock,
    transcript,  \* entries: human turns and tool results
    strict,      \* the counting rule: TRUE since tool results are left out
    lastSave,    \* <session>_last_save; 0 also when it is missing
    lastSaveTs,  \* <session>_last_save_ts; 0 also when it is missing
    hook,        \* the hook the harness waits for
    child,       \* a detached child
    seen,        \* history: the count at the last Stop
    quiet,       \* history: Stops with new exchanges since one set out to save
    savedAt,     \* history: when Stop last got past both files, or the session began
    fresh,       \* history: exchanges counted since then
    faulty       \* history: a state file was lost or not written since then

files == <<lastSave, lastSaveTs>>
history == <<seen, quiet, savedAt, fresh, faulty>>
hookVars == <<hookClock, transcript, strict, files, hook, child, history>>

-----------------------------------------------------------------------------
NoHook == [name |-> "none", pc |-> "none", printed |-> 0, context |-> FALSE, count |-> 0]
NoChild == [work |-> {}, pc |-> "none", done |-> {}]

\* What the child of each hook has to do, whatever fails on the way; dir is the
\* MEMPAL_DIR of the environment.
Work(name, dir) ==
    CASE name = "stop" -> {"diary", "ingest"}
      [] name = "precompact" -> {"ingest"} \cup IF dir THEN {"mine"} ELSE {}
      [] name = "postcompact" -> {"diary"}

HookTypeOK ==
    /\ hookClock \in TimeSaveInterval..MaxHookClock
    /\ transcript \in [human : 0..MaxHuman, tool : 0..MaxTool] /\ strict \in BOOLEAN
    /\ lastSave \in 0..(MaxHuman + MaxTool) /\ lastSaveTs \in 0..hookClock
    /\ hook.name \in {"none", "start", "compact", "stop", "precompact", "postcompact"} /\ hook.printed \in 0..2
    /\ child.done \subseteq child.work /\ child.work \subseteq {"diary", "ingest", "mine"}
    /\ seen \in Nat /\ {quiet, fresh} \subseteq 0..(SaveInterval + 1) /\ savedAt \in 0..hookClock /\ faulty \in BOOLEAN

HookInit ==
    /\ hookClock = TimeSaveInterval
    /\ transcript = [human |-> 0, tool |-> 0] /\ strict = FALSE
    /\ lastSave = 0 /\ lastSaveTs = 0
    /\ hook = NoHook /\ child = NoChild
    /\ seen = 0 /\ quiet = 0 /\ savedAt = 0 /\ fresh = 0 /\ faulty = FALSE

\* _count_human_messages(): a tool result is framed as a user message; since the
\* rule was tightened only one with text counts.  No file, no count.
CountHumanMessages(readable) ==
    IF ~readable THEN 0 ELSE transcript.human + IF strict THEN 0 ELSE transcript.tool

\* The histories count no further than the properties ask.
OneMore(n) == IF n > SaveInterval THEN n ELSE n + 1

-----------------------------------------------------------------------------
(* The session                                                             *)

Idle == hook = NoHook

HumanTurn ==
    /\ Idle /\ transcript.human < MaxHuman
    /\ transcript' = [transcript EXCEPT !.human = @ + 1] /\ fresh' = OneMore(fresh)
    /\ UNCHANGED <<hookClock, strict, files, hook, child, seen, quiet, savedAt, faulty>>

ToolResult ==
    /\ Idle /\ transcript.tool < MaxTool
    /\ transcript' = [transcript EXCEPT !.tool = @ + 1]
    /\ fresh' = IF strict THEN fresh ELSE OneMore(fresh)
    /\ UNCHANGED <<hookClock, strict, files, hook, child, seen, quiet, savedAt, faulty>>

\* A new hook.py: the count of a running session goes backward.
RuleTightens ==
    /\ Idle /\ ~strict /\ strict' = TRUE
    /\ seen' = transcript.human /\ quiet' = 0
    /\ UNCHANGED <<hookClock, transcript, files, hook, child, savedAt, fresh, faulty>>

HookClockTicks ==
    /\ Idle /\ hookClock < MaxHookClock /\ hookClock' = hookClock + 1
    /\ UNCHANGED <<transcript, strict, files, hook, child, history>>

-----------------------------------------------------------------------------
(* Answers                                                                 *)

Printing(h) == [h EXCEPT !.printed = @ + 1]
Answer(h) == [Printing(h) EXCEPT !.pc = "done"]
Enter(name, pc) == [NoHook EXCEPT !.name = name, !.pc = pc]

\* run_hook(): the handler of the event.
RunHook(name) ==
    /\ Idle /\ hook' = Enter(name, "begin")
    /\ UNCHANGED <<hookClock, transcript, strict, files, child, history>>

\* The parent has returned; the harness takes the answer.
Return ==
    /\ hook.pc = "done" /\ hook' = NoHook
    /\ UNCHANGED <<hookClock, transcript, strict, files, child, history>>

\* The harness loses patience; with it goes a child that runs inline.
HookKilled ==
    /\ ~Idle /\ hook.pc # "done" /\ hook' = NoHook
    /\ child' = IF hook.pc = "inline" THEN NoChild ELSE child
    /\ UNCHANGED <<hookClock, transcript, strict, files, history>>

-----------------------------------------------------------------------------
(* hook_session_start()                                                    *)

\* The time of the last save is seeded (the write may fail), state files older
\* than a week are removed, then the journal is replayed and the palace asked.
SessionStart(written, pruned) ==
    /\ hook.name = "start" /\ hook.pc = "begin"
    /\ lastSaveTs' = IF written THEN hookClock ELSE lastSaveTs
    /\ lastSave' = IF pruned THEN 0 ELSE lastSave
    /\ savedAt' = hookClock /\ faulty' = (faulty \/ ~written \/ pruned)
    /\ hook' = [hook EXCEPT !.pc = "greet"]
    /\ UNCHANGED <<hookClock, transcript, strict, child, seen, quiet, fresh>>

\* One object with greeting and nudge, or the nudge alone if the daemon is down.
Greet ==
    /\ hook.pc = "greet" /\ hook' = [Answer(hook) EXCEPT !.context = TRUE]
    /\ UNCHANGED <<hookClock, transcript, strict, files, child, history>>

\* _handle_compact_resume(): the packet, or the fall-back if the daemon is slow
\* or knows nothing; no state is touched.
CompactResume ==
    /\ hook.name = "compact" /\ hook.pc = "begin" /\ hook' = [Answer(hook) EXCEPT !.context = TRUE]
    /\ UNCHANGED <<hookClock, transcript, strict, files, child, history>>

-----------------------------------------------------------------------------
(* hook_stop()                                                             *)

\* stop_hook_active: an empty answer.
StopSuppressed ==
    /\ hook.name = "stop" /\ hook.pc = "begin" /\ hook' = Answer(hook)
    /\ UNCHANGED <<hookClock, transcript, strict, files, child, history>>

\* Mutant: a count that goes backward is left alone.
RebasedNever(count) == lastSave

Rebased(count) == IF lastSave > count THEN count ELSE lastSave

\* The three triggers; force is the setting force_on_stop.
SaveDue(count, force) ==
    LET since == count - Rebased(count)
        elapsed == hookClock - lastSaveTs
    IN  \/ since >= SaveInterval /\ count > 0
        \/ elapsed >= TimeSaveInterval /\ since > 0
        \/ force /\ since > 0 /\ elapsed >= ForceMinInterval

\* The count is taken, a stale last_save rebased (the write may fail), the
\* triggers evaluated.
StopDecides(readable, written, force) ==
    LET count == CountHumanMessages(readable)
        lost == Rebased(count) # lastSave /\ ~written
    IN  /\ hook.name = "stop" /\ hook.pc = "begin"
        /\ lastSave' = IF written THEN Rebased(count) ELSE lastSave
        /\ hook' = IF SaveDue(count, force) THEN [hook EXCEPT !.pc = "record", !.count = count] ELSE Answer(hook)
        /\ quiet' = IF SaveDue(count, force) \/ lost THEN 0
                    ELSE IF count > seen THEN OneMore(quiet) ELSE quiet
        /\ seen' = IF readable THEN count ELSE seen
        /\ faulty' = (faulty \/ ~readable \/ lost)
        /\ UNCHANGED <<hookClock, transcript, strict, lastSaveTs, child, savedAt, fresh>>

\* last_save is written before anything is saved, by a write that may fail.  The
\* harness may kill the hook after it ...
StopRecordsCount(written) ==
    /\ hook.pc = "record" /\ hook' = [hook EXCEPT !.pc = "stamp"]
    /\ lastSave' = IF written THEN hook.count ELSE lastSave
    /\ UNCHANGED <<hookClock, transcript, strict, lastSaveTs, child, history>>

\* ... and before _write_last_save_ts(), which may fail as well.
StopRecordsTime(written) ==
    /\ hook.pc = "stamp" /\ hook' = [hook EXCEPT !.pc = "answer"]
    /\ lastSaveTs' = IF written THEN hookClock ELSE lastSaveTs
    /\ savedAt' = hookClock /\ fresh' = 0 /\ faulty' = (~written \/ lastSave # hook.count)
    /\ UNCHANGED <<hookClock, transcript, strict, lastSave, child, seen, quiet>>

\* A mine to approve, or a save the model is asked to make: the harness is told
\* to block.  A silent save prints its message first and detaches after.
StopAnswers(block) ==
    /\ hook.pc = "answer"
    /\ hook' = IF block THEN Answer(hook)
               ELSE [Printing(hook) EXCEPT !.pc = "detach"]
    /\ UNCHANGED <<hookClock, transcript, strict, files, child, history>>

-----------------------------------------------------------------------------
(* Detached work                                                           *)

\* hook_precompact() and hook_postcompact() answer at once.
CompactHookAnswers ==
    /\ hook.name \in {"precompact", "postcompact"} /\ hook.pc = "begin"
    /\ hook' = [Printing(hook) EXCEPT !.pc = "detach"]
    /\ UNCHANGED <<hookClock, transcript, strict, files, child, history>>

FirstTask == [stop |-> "diary", precompact |-> "ingest", postcompact |-> "diary"]

\* _detach_for_async_work(): the parent returns; without a fork the hook does
\* the work itself.
Detach(forked, dir) ==
    /\ hook.pc = "detach"
    /\ child = NoChild \/ forked
    /\ hook' = [hook EXCEPT !.pc = IF forked THEN "done" ELSE "inline"]
    /\ child' = IF child = NoChild THEN [work |-> Work(hook.name, dir), pc |-> FirstTask[hook.name], done |-> {}]
                ELSE child
    /\ UNCHANGED <<hookClock, transcript, strict, files, history>>

InlineEnds ==
    /\ hook.pc = "inline" /\ child = NoChild /\ hook' = [hook EXCEPT !.pc = "done"]
    /\ UNCHANGED <<hookClock, transcript, strict, files, child, history>>

\* One round trip: _post_mcp(), _ingest_with_wake_and_journal() or _post_mine().
\* A failure is logged and the next task is done all the same.
ChildTask(ok) ==
    /\ child.pc \in {"diary", "ingest", "mine"} /\ ok \in BOOLEAN
    /\ child' = [child EXCEPT !.done = @ \cup {child.pc},
                              !.pc = IF child.pc = "diary" /\ "ingest" \in child.work THEN "ingest"
                                     ELSE IF child.pc = "ingest" /\ "mine" \in child.work THEN "mine"
                                     ELSE "end"]
    /\ UNCHANGED <<hookClock, transcript, strict, files, hook, history>>

ChildEnds ==
    /\ child.pc = "end" /\ child' = NoChild
    /\ UNCHANGED <<hookClock, transcript, strict, files, hook, history>>

Stop ==
    \/ StopSuppressed \/ \E block \in BOOLEAN : StopAnswers(block)
    \/ \E readable, written, force \in BOOLEAN : StopDecides(readable, written, force)
    \/ \E written \in BOOLEAN : StopRecordsCount(written) \/ StopRecordsTime(written)

HookNext ==
    \/ HumanTurn \/ ToolResult \/ RuleTightens \/ HookClockTicks
    \/ \E name \in {"start", "compact", "stop", "precompact", "postcompact"} : RunHook(name)
    \/ Return \/ HookKilled
    \/ \E written, pruned \in BOOLEAN : SessionStart(written, pruned)
    \/ Greet \/ CompactResume \/ Stop \/ CompactHookAnswers
    \/ \E forked, dir \in BOOLEAN : Detach(forked, dir)
    \/ InlineEnds \/ \E ok \in BOOLEAN : ChildTask(ok) \/ ChildEnds

HookSpec == HookInit /\ [][HookNext]_hookVars

-----------------------------------------------------------------------------
\* The triggers never wedge: whatever the history of the two files, at most
\* SAVE_INTERVAL Stops with new exchanges go by before one sets out to save, also
\* when a change of the counting rule has left last_save above the count, and when
\* a Stop was killed between the two files, or failed to write one of them.  (A
\* rebase that cannot be written starts the count again.)
SavesResume == quiet <= SaveInterval

\* No save per response: a save comes FORCE_MIN_INTERVAL after the last one or
\* the start of the session, or after SAVE_INTERVAL new exchanges, as long as
\* neither state file was lost or could not be written.  A Stop that is killed
\* between the two leaves a new count beside an old time: that is no excuse.
NoSaveSpam ==
    hook.pc = "record" =>
        \/ hookClock - savedAt >= ForceMinInterval
        \/ fresh >= SaveInterval
        \/ faulty

\* On every path a hook prints exactly one object while the harness still reads
\* its output, and a session start carries context for the model.
HookAnswersOnce ==
    hook.pc = "done" => hook.printed = 1 /\ (hook.name \in {"start", "compact"} => hook.context)

\* A failed round trip does not keep the child from the rest of its work: the
\* transcript is ingested though the diary entry failed, the directory is mined
\* though the ingest failed.
ChildDoesAll == child.pc = "end" => child.done = child.work

\* A session is saved in time and not on every response, and every hook answers
\* and has its child do all of its work, whatever fails or is killed.
HooksCorrect == HookTypeOK /\ SavesResume /\ NoSaveSpam /\ HookAnswersOnce /\ ChildDoesAll
=============================================================================
