----------------------------- MODULE SilentSave -----------------------------
(***************************************************************************)
(* POST /silent-save and POST /repair in main.py: a save takes a permit of *)
(* _write_sem and writes its diary entry, or, while a rebuild is flagged,  *)
(* appends it to palace-daemon-pending.jsonl; /repair takes permits, does  *)
(* its work, clears the flag and replays the file.                         *)
(*                                                                         *)
(* Coroutines share one event loop; an action of a save or a repair is     *)
(* what it does between two suspensions.  The append runs in a thread: it  *)
(* opens the file in one step and flushes its line, when the file is       *)
(* closed, in another.  An open file is followed across os.rename() and    *)
(* os.remove(): a handle points to the pending file, to .processing or to  *)
(* a file that has no name any more.                                       *)
(*                                                                         *)
(* Of the permits of a rebuild only those of _write_sem are modelled:      *)
(* CallGate has the others.                                                *)
(***************************************************************************)
EXTENDS AsyncSemaphore, FiniteSets

CONSTANTS
    Saves,      \* POST /silent-save requests
    Repairs,    \* POST /repair requests
    Modes,      \* modes of the repairs that occur
    WriteCap,   \* permits of _write_sem; a rebuild takes them all
    MaxStops    \* bound: times the daemon is killed or stopped

ASSUME SaveAssumption ==
    /\ Saves \cap Repairs = {}
    /\ Modes \subseteq {"rebuild", "prune"}    \* "prune" stands for light too
    /\ WriteCap \in Nat \ {0} /\ MaxStops \in Nat

VARIABLES
    sem,         \* _write_sem
    flag,        \* _repair_state: "no" or the mode in progress
    pc,          \* where each save is, or its answer
    handle,      \* the file the append thread of a save has open
    exists,      \* the names that exist: "pending", "proc"
    file,        \* the lines of each
    quarantine,  \* saves in .failed-* files
    written,     \* number of diary entries written for each save
    rp,          \* where each repair is
    mode,        \* its mode
    held,        \* permits it holds
    lines,       \* lines its drain has still to replay
    failed,      \* lines its drain could not replay
    stops,       \* history: times the daemon stopped
    exposed,     \* history: saves whose line missed the pending file, or was
                 \* in the hands of a drain when the daemon stopped
    newest,      \* history: those in the last .failed-* file written
    overwritten  \* history: those whose .failed-* file was written over

vars == <<sem, flag, pc, handle, exists, file, quarantine, written, rp, mode, held, lines, failed,
          stops, exposed, newest, overwritten>>
history == <<stops, exposed, newest, overwritten>>
files == <<handle, exists, file>>
drain == <<mode, held, lines, failed>>

Names == {"pending", "proc"}
Answered == {"queued", "saved", "error"}

TypeOK ==
    /\ sem.free \in 0..WriteCap
    /\ flag \in {"no"} \cup Modes
    /\ pc \in [Saves -> {"idle", "wait", "opening", "opened", "appended", "writing"} \cup Answered]
    /\ handle \in [Saves -> Names \cup {"none", "gone"}]
    /\ exists \subseteq Names
    /\ file \in [Names -> Seq(Saves)]
    /\ quarantine \subseteq Saves
    /\ written \in [Saves -> Nat]
    /\ rp \in [Repairs -> {"idle", "acquire", "inside", "released", "wait", "replay", "finish", "done"}]
    /\ mode \in [Repairs -> Modes]
    /\ held \in [Repairs -> 0..WriteCap]
    /\ lines \in [Repairs -> Seq(Saves)]
    /\ failed \in [Repairs -> SUBSET Saves]
    /\ stops \in 0..MaxStops
    /\ exposed \subseteq Saves /\ newest \subseteq Saves /\ overwritten \subseteq Saves

Init ==
    /\ sem = NewSemaphore(WriteCap) /\ flag = "no"
    /\ pc = [s \in Saves |-> "idle"] /\ handle = [s \in Saves |-> "none"]
    /\ exists = {} /\ file = [n \in Names |-> <<>>]
    /\ quarantine = {} /\ written = [s \in Saves |-> 0]
    /\ rp = [r \in Repairs |-> "idle"] /\ mode \in [Repairs -> Modes]
    /\ held = [r \in Repairs |-> 0] /\ lines = [r \in Repairs |-> <<>>]
    /\ failed = [r \in Repairs |-> {}] /\ stops = 0 /\ exposed = {}
    /\ newest = {} /\ overwritten = {}

\* A drain is between its last replay and the removal of its file: the loop
\* runs nobody else.
LoopBusy == \E r \in Repairs : rp[r] = "finish"

-----------------------------------------------------------------------------
(* POST /silent-save                                                       *)

\* Mutant: the permit is given back before the entry is written.
SaveBodyUngated(s, q) ==
    /\ sem' = Give(q, 1)
    /\ pc' = [pc EXCEPT ![s] = IF flag = "rebuild" THEN "opening" ELSE "writing"]

\* With a permit in hand: look at the flag, then write or queue.
SaveBody(s, q) ==
    /\ sem' = q
    /\ pc' = [pc EXCEPT ![s] = IF flag = "rebuild" THEN "opening" ELSE "writing"]

Arrive(s) ==
    /\ pc[s] = "idle" /\ ~LoopBusy
    /\ \/ Available(sem) > 0 /\ SaveBody(s, TakePermits(sem, 1))
       \/ Available(sem) = 0 /\ sem' = Enqueue(sem, s) /\ pc' = [pc EXCEPT ![s] = "wait"]
    /\ UNCHANGED <<flag, files, quarantine, written, rp, drain, history>>

WakeSave(s) ==
    /\ s \in sem.woken /\ ~LoopBusy
    /\ SaveBody(s, Resume(sem, s))
    /\ UNCHANGED <<flag, files, quarantine, written, rp, drain, history>>

\* Mutant: the file is opened with "w".
OpensTruncating(s) ==
    /\ pc[s] = "opening"
    /\ pc' = [pc EXCEPT ![s] = "opened"]
    /\ handle' = [handle EXCEPT ![s] = "pending"]
    /\ exists' = exists \cup {"pending"}
    /\ file' = [file EXCEPT !["pending"] = <<>>]
    /\ UNCHANGED <<sem, flag, quarantine, written, rp, drain, history>>

\* _append() in its thread: open(path, "a") ...
Opens(s) ==
    /\ pc[s] = "opening"
    /\ pc' = [pc EXCEPT ![s] = "opened"]
    /\ handle' = [handle EXCEPT ![s] = "pending"]
    /\ exists' = exists \cup {"pending"}
    /\ UNCHANGED <<sem, flag, file, quarantine, written, rp, drain, history>>

\* ... and the line is flushed to whatever the handle points to.
Appends(s) ==
    /\ pc[s] = "opened"
    /\ pc' = [pc EXCEPT ![s] = "appended"]
    /\ handle' = [handle EXCEPT ![s] = "none"]
    /\ file' = IF handle[s] \in Names THEN [file EXCEPT ![handle[s]] = Append(@, s)] ELSE file
    /\ exposed' = IF handle[s] = "pending" THEN exposed ELSE exposed \cup {s}
    /\ UNCHANGED <<sem, flag, exists, quarantine, written, rp, drain, stops, newest, overwritten>>

\* "held in trust"
AnswerQueued(s) ==
    /\ pc[s] = "appended" /\ ~LoopBusy
    /\ pc' = [pc EXCEPT ![s] = "queued"]
    /\ sem' = Give(sem, 1)
    /\ UNCHANGED <<flag, files, quarantine, written, rp, drain, history>>

\* tool_diary_write() returned, or raised and wrote nothing.
AnswerWritten(s) ==
    /\ pc[s] = "writing" /\ ~LoopBusy
    /\ sem' = Give(sem, 1)
    /\ \/ pc' = [pc EXCEPT ![s] = "saved"] /\ written' = [written EXCEPT ![s] = @ + 1]
       \/ pc' = [pc EXCEPT ![s] = "error"] /\ UNCHANGED written
    /\ UNCHANGED <<flag, files, quarantine, rp, drain, history>>

-----------------------------------------------------------------------------
(* POST /repair                                                            *)

\* Only one at a time: the second is answered 409.
RepairStarts(r) ==
    /\ rp[r] = "idle" /\ ~LoopBusy
    /\ \/ /\ flag = "no"
          /\ flag' = mode[r]
          /\ rp' = [rp EXCEPT ![r] = "acquire"]
       \/ flag # "no" /\ rp' = [rp EXCEPT ![r] = "done"] /\ UNCHANGED flag
    /\ UNCHANGED <<sem, pc, files, quarantine, written, drain, history>>

\* Mutant: a rebuild leaves one permit to the saves.
NeedOneShort(r) == IF mode[r] = "rebuild" THEN WriteCap - 1 ELSE 1

Need(r) == IF mode[r] = "rebuild" THEN WriteCap ELSE 1

\* TakePermits what is free of the permits still needed; wait if that is not enough.
AcquireLoop(r, q, have) ==
    LET n == Min({Need(r) - have, Available(q)})
    IN /\ held' = [held EXCEPT ![r] = have + n]
       /\ \/ /\ have + n = Need(r)
             /\ sem' = TakePermits(q, n)
             /\ rp' = [rp EXCEPT ![r] = "inside"]
          \/ /\ have + n < Need(r)
             /\ sem' = Enqueue(TakePermits(q, n), r)
             /\ UNCHANGED rp

Acquire(r) ==
    /\ rp[r] = "acquire" /\ ~Suspended(sem, r) /\ ~LoopBusy
    /\ AcquireLoop(r, sem, 0)
    /\ UNCHANGED <<flag, pc, files, quarantine, written, mode, lines, failed, history>>

WakeRepair(r) ==
    /\ rp[r] = "acquire" /\ r \in sem.woken /\ ~LoopBusy
    /\ AcquireLoop(r, Resume(sem, r), held[r] + 1)
    /\ UNCHANGED <<flag, pc, files, quarantine, written, mode, lines, failed, history>>

\* The rebuild or prune ends and the permits go back.  After a success the
\* flag is still set while _warn_if_hnsw_threads_unset() is awaited; after a
\* failure it is cleared at once and nothing is drained.
WorkEnds(r) ==
    /\ rp[r] = "inside" /\ ~LoopBusy
    /\ sem' = Give(sem, held[r])
    /\ held' = [held EXCEPT ![r] = 0]
    /\ \/ rp' = [rp EXCEPT ![r] = "released"] /\ UNCHANGED flag
       \/ rp' = [rp EXCEPT ![r] = "done"] /\ flag' = "no"
    /\ UNCHANGED <<pc, files, quarantine, written, mode, lines, failed, history>>

-----------------------------------------------------------------------------
(* _drain_pending_writes()                                                 *)

\* Go on with the lines rest, q being the semaphore: "async with _write_sem".
NextLine(r, q, rest) ==
    /\ lines' = [lines EXCEPT ![r] = rest]
    /\ \/ rest = <<>> /\ sem' = q /\ rp' = [rp EXCEPT ![r] = "finish"]
       \/ /\ rest # <<>> /\ Available(q) > 0
          /\ sem' = TakePermits(q, 1) /\ rp' = [rp EXCEPT ![r] = "replay"]
       \/ /\ rest # <<>> /\ Available(q) = 0
          /\ sem' = Enqueue(q, r) /\ rp' = [rp EXCEPT ![r] = "wait"]

\* The flag is cleared; after a rebuild the pending file is renamed and read.
ClearAndClaim(r) ==
    /\ rp[r] = "released" /\ ~LoopBusy
    /\ flag' = "no"
    /\ \/ /\ mode[r] = "rebuild" /\ "pending" \in exists
          /\ exists' = {"proc"}
          /\ file' = [file EXCEPT !["pending"] = <<>>, !["proc"] = file["pending"]]
          /\ handle' = [s \in Saves |-> CASE handle[s] = "pending" -> "proc"
                                          [] handle[s] = "proc"    -> "gone"
                                          [] OTHER                 -> handle[s]]
          /\ NextLine(r, sem, file["pending"])
       \/ /\ mode[r] # "rebuild" \/ "pending" \notin exists
          /\ rp' = [rp EXCEPT ![r] = "done"]
          /\ UNCHANGED <<files, sem, lines>>
    /\ UNCHANGED <<pc, quarantine, written, mode, held, failed, history>>

WakeDrain(r) ==
    /\ rp[r] = "wait" /\ r \in sem.woken /\ ~LoopBusy
    /\ sem' = Resume(sem, r)
    /\ rp' = [rp EXCEPT ![r] = "replay"]
    /\ UNCHANGED <<flag, pc, files, quarantine, written, drain, history>>

Replayed(r) ==
    LET s == Head(lines[r])
    IN /\ rp[r] = "replay" /\ ~LoopBusy
       /\ NextLine(r, Give(sem, 1), Tail(lines[r]))
       /\ \/ written' = [written EXCEPT ![s] = @ + 1] /\ UNCHANGED failed
          \/ failed' = [failed EXCEPT ![r] = @ \cup {s}] /\ UNCHANGED written
       /\ UNCHANGED <<flag, pc, files, quarantine, mode, held, history>>

\* Mutant: failed lines are not kept.
FinishDropsFailed(r) ==
    /\ rp[r] = "finish"
    /\ rp' = [rp EXCEPT ![r] = "done"]
    /\ exists' = exists \ {"proc"}
    /\ file' = [file EXCEPT !["proc"] = <<>>]
    /\ handle' = [s \in Saves |-> IF handle[s] = "proc" THEN "gone" ELSE handle[s]]
    /\ failed' = [failed EXCEPT ![r] = {}]
    /\ UNCHANGED <<sem, flag, pc, quarantine, written, mode, held, lines, history>>

\* Failed lines go to a file named .failed-<second>, opened with "w": a file that
\* another drain has written in the same second is written over.
Quarantines(r) ==
    \/ failed[r] = {} /\ UNCHANGED <<quarantine, newest, overwritten>>
    \/ /\ failed[r] # {} /\ newest' = failed[r]
       /\ \/ quarantine' = quarantine \cup failed[r] /\ UNCHANGED overwritten
          \/ /\ quarantine' = (quarantine \ newest) \cup failed[r]
             /\ overwritten' = overwritten \cup newest

\* The failed lines are kept and .processing is removed.
Finish(r) ==
    /\ rp[r] = "finish"
    /\ rp' = [rp EXCEPT ![r] = "done"]
    /\ Quarantines(r)
    /\ exists' = exists \ {"proc"}
    /\ file' = [file EXCEPT !["proc"] = <<>>]
    /\ handle' = [s \in Saves |-> IF handle[s] = "proc" THEN "gone" ELSE handle[s]]
    /\ failed' = [failed EXCEPT ![r] = {}]
    /\ UNCHANGED <<sem, flag, pc, written, mode, held, lines, stops, exposed>>

-----------------------------------------------------------------------------
(* A stop of the daemon                                                    *)

Lines(f) == {f[i] : i \in DOMAIN f}
InDrain == UNION {Lines(lines[r]) \cup failed[r] : r \in Repairs}

\* The process is killed, or stopped (the drain's except clause does not catch
\* the cancellation), and started again.  What is in memory is gone, the files
\* stay, and the start looks at neither: .processing is never read again.
StopAndStart ==
    /\ stops < MaxStops /\ stops' = stops + 1
    /\ exposed' = exposed \cup Lines(file["proc"]) \cup InDrain
    /\ sem' = NewSemaphore(WriteCap) /\ flag' = "no"
    /\ pc' = [s \in Saves |-> IF pc[s] \in Answered \cup {"idle"} THEN pc[s] ELSE "error"]
    /\ handle' = [s \in Saves |-> "none"]
    /\ rp' = [r \in Repairs |-> IF rp[r] = "idle" THEN "idle" ELSE "done"]
    /\ held' = [r \in Repairs |-> 0] /\ lines' = [r \in Repairs |-> <<>>]
    /\ failed' = [r \in Repairs |-> {}]
    /\ UNCHANGED <<exists, file, quarantine, written, mode, newest, overwritten>>

Save(s) == WakeSave(s) \/ Opens(s) \/ Appends(s) \/ AnswerQueued(s) \/ AnswerWritten(s)

Repair(r) ==
    \/ Acquire(r) \/ WakeRepair(r) \/ WorkEnds(r) \/ ClearAndClaim(r)
    \/ WakeDrain(r) \/ Replayed(r) \/ Finish(r)

Next ==
    \/ \E s \in Saves : Arrive(s) \/ Save(s)
    \/ \E r \in Repairs : RepairStarts(r) \/ Repair(r)
    \/ StopAndStart

Spec == Init /\ [][Next]_vars

\* The loop and the threads run; diary writes and rebuilds end.  SaveReady and
\* RepairReady are ENABLED Save and ENABLED Repair, so that this is weak
\* fairness of both, in a form that TLC evaluates quickly.
SaveReady(s) ==
    \/ pc[s] \in {"opening", "opened"}
    \/ ~LoopBusy /\ (pc[s] \in {"appended", "writing"} \/ s \in sem.woken)

RepairReady(r) ==
    \/ rp[r] = "finish"
    \/ ~LoopBusy /\ rp[r] \notin {"idle", "done"}
       /\ \A i \in DOMAIN sem.queue : sem.queue[i] # r

FairSpec ==
    /\ Spec
    /\ \A s \in Saves : []<>~SaveReady(s) \/ []<><<Save(s)>>_vars
    /\ \A r \in Repairs : []<>~RepairReady(r) \/ []<><<Repair(r)>>_vars

-----------------------------------------------------------------------------
(* Properties                                                              *)

\* While a rebuild replaces the collection no diary entry is being written:
\* neither by a save nor by the drain of the rebuild before it.
NoWriteInsideRebuild ==
    \A r \in Repairs : rp[r] = "inside" /\ mode[r] = "rebuild" =>
        /\ \A s \in Saves : pc[s] # "writing"
        /\ \A d \in Repairs : rp[d] # "replay"

\* A save makes at most one diary entry, queued or not, also when the drains
\* of two rebuilds overlap or a stop cuts one short.
WrittenOnce == \A s \in Saves : written[s] <= 1

\* The diary writes of saves and drains: outside every rebuild, one per save.
DiaryWrites == NoWriteInsideRebuild /\ WrittenOnce

\* What a drain has read ends as a diary entry or in the quarantine file,
\* unless the daemon stops first.
DrainSettles ==
    \A s \in Saves : s \in InDrain ~> written[s] = 1 \/ s \in quarantine \cup exposed

\* Where a save that was answered "queued" can be.
Kept(s) ==
    \/ written[s] > 0 \/ s \in quarantine \cup InDrain
    \/ \E n \in exists : s \in Lines(file[n])

\* A queued save is lost in three ways only: its line was flushed into a file the
\* drain had renamed, the daemon stopped while a drain had it, or its replay had
\* failed and another drain wrote its failed lines to the file of the same second.
\* Failed rebuilds, drains over one .processing and other stops lose none.
LostOnlyIfExposed ==
    \A s \in Saves : pc[s] = "queued" /\ s \notin exposed \cup overwritten => Kept(s)

\* "No saves lost during a rebuild window": a save answered "queued" is in a
\* file, in the hands of a drain, in quarantine, or written.
NoQueuedSaveLost == \A s \in Saves : pc[s] = "queued" => Kept(s)

=============================================================================
