----------------------------- MODULE HookIngest -----------------------------
(***************************************************************************)
(* The ingest of transcripts by clients/hook.py.  A save (Stop or          *)
(* PreCompact) is announced to the user, then a detached process posts the *)
(* transcript to /mine, wakes a sleeping host once and retries, and at     *)
(* last journals the transcript.  SessionStart replays the journal.        *)
(*                                                                         *)
(* The processes of several sessions share the journal file, one flock per *)
(* transcript (the mine slot) and one flock per host (the wake lock).  The *)
(* kernel drops a flock with its holder, so a slot is held exactly while   *)
(* its holder is posting and needs no variable of its own; the wake lock   *)
(* has one, because a leader may go without it.                            *)
(*                                                                         *)
(* The journal is one file: those of earlier days are drained in the same  *)
(* way and nobody appends to them.  The daemon is what a hook sees of it:  *)
(* it answers 202 at once (background=True); what becomes of the mine it   *)
(* took is PendingMines.  Diary posts and the session-manifest mine are    *)
(* best effort and change nothing here.                                    *)
(***************************************************************************)
EXTENDS Integers, Sequences, SequencesExt, Selection

CONSTANTS
    Transcripts,    \* one per session
    Procs,          \* bound on the hook processes alive at a time
    None,           \* no transcript
    MaxEntries,     \* entries replayed by one drain
    AutoWake,       \* auto_wake is configured
    Faults,         \* which of AllFaults occur
    Refused,        \* transcripts the daemon may refuse for ever
    Deletable,      \* transcripts that may be deleted
    MaxJournal      \* bound on the lines of the journal

\* "kill": a process dies between two steps.  "noslot", "nolock": the slot
\* file, or the lock file of the wake, cannot be opened.  "nojournal": the
\* journal cannot be appended to or replaced.
AllFaults == {"kill", "noslot", "nolock", "nojournal"}

ASSUME IngestAssumption ==
    /\ None \notin Transcripts \cup Procs
    /\ Deletable \subseteq Transcripts /\ Refused \subseteq Transcripts
    /\ MaxEntries \in Nat \ {0} /\ MaxJournal \in Nat
    /\ AutoWake \in BOOLEAN
    /\ Faults \subseteq AllFaults

VARIABLES
    up,        \* the daemon's host answers
    covered,   \* transcripts whose last announced save the daemon has taken
    gone,      \* transcripts deleted from disk
    journal,   \* transcripts in the journal file, in file order
    proc,      \* the hook processes
    wakeLock,  \* the process whose flock is on the lock file of the wake
    late,      \* by drain: what others put or left in the journal behind its back
    cut        \* saves given up in one of the ways NothingLost names

\* late and cut are history, and no state of the program.
vars == <<up, covered, gone, journal, proc, wakeLock, late, cut>>

\* leader: "lock" with the flock, "null" when the lock file cannot be opened
\* (_NULL_LOCK).
Idle == [pc |-> "idle", t |-> None, drain |-> FALSE, try |-> 0, leader |-> "no",
         todo |-> <<>>, keep |-> <<>>, processed |-> 0]

TypeOK ==
    /\ up \in BOOLEAN
    /\ covered \subseteq Transcripts
    /\ gone \subseteq Transcripts /\ cut \subseteq Transcripts
    /\ journal \in Seq(Transcripts)
    /\ wakeLock \in Procs \cup {None}
    /\ late \in [Procs -> SUBSET Transcripts]
    /\ \A p \in Procs :
        /\ proc[p].pc \in {"idle", "ingest", "post", "wake", "command", "poll", "journal", "next"}
        /\ proc[p].t \in Transcripts \cup {None}
        /\ proc[p].try \in 0..2 /\ proc[p].processed \in 0..MaxEntries
        /\ \A f \in {"todo", "keep"} : proc[p][f] \in Seq(Transcripts)
        /\ proc[p].drain \in BOOLEAN /\ proc[p].leader \in {"no", "lock", "null"}

Init ==
    /\ up \in BOOLEAN
    /\ covered = Transcripts /\ gone = {} /\ journal = <<>>
    /\ proc = [p \in Procs |-> Idle]
    /\ wakeLock = None /\ late = [p \in Procs |-> {}]
    /\ cut = {}

SlotHeld(t) == \E q \in Procs : proc[q].pc = "post" /\ proc[q].t = t
Draining == \E q \in Procs : proc[q].drain

\* What only process p may know of: the transcript it works on, and the
\* entries its drain will write back.
InHand(p) == ({proc[p].t} \ {None}) \cup ToSet(proc[p].keep)

\* Process p, no drain any more, puts or leaves the lines S in the journal: new
\* to the drains but for what they have still to do.
Noted(p, S) ==
    [q \in Procs |-> IF q # p /\ proc[q].drain THEN late[q] \cup (S \ ToSet(proc[q].todo)) ELSE {}]

\* Those of S whose last save the daemon does not have are given up.
GivenUp(S) == cut \cup (S \ (covered \cup gone))

Goto(p, l) == proc' = [proc EXCEPT ![p].pc = l]

-----------------------------------------------------------------------------
(* A save                                                                  *)

\* hook_stop() once a trigger fired, or hook_precompact(): the user reads
\* "memories woven" and the process detaches.
Announce(p, t) ==
    /\ proc[p].pc = "idle" /\ t \notin gone
    /\ Len(journal) + Cardinality({q \in Procs : proc[q].pc # "idle"}) < MaxJournal
    /\ proc' = [proc EXCEPT ![p] = [Idle EXCEPT !.pc = "ingest", !.t = t, !.try = 1]]
    /\ covered' = covered \ {t} /\ cut' = cut \ {t}
    /\ UNCHANGED <<up, gone, journal, wakeLock, late>>

\* The ingest in hand is reported as a success: a save ends, a drain forgets
\* the entry and goes on.
Succeeded(p) ==
    proc' = [proc EXCEPT ![p] = IF proc[p].drain THEN [proc[p] EXCEPT !.pc = "next", !.t = None] ELSE Idle]

\* Mutant: the entry is put down before it is kept.
FailedKeepsNone(p, eligible) ==
    proc' = [proc EXCEPT ![p] =
        IF proc[p].drain
        THEN [proc[p] EXCEPT !.pc = "next", !.t = None, !.keep = Append(@, None)]
        ELSE [proc[p] EXCEPT !.pc = IF eligible /\ AutoWake /\ proc[p].try = 1 THEN "wake" ELSE "journal"]]

\* It failed: a drain keeps the entry, a save wakes the host if that can help
\* and was not tried before, and journals otherwise.
Failed(p, eligible) ==
    proc' = [proc EXCEPT ![p] =
        IF proc[p].drain
        THEN [proc[p] EXCEPT !.pc = "next", !.t = None, !.keep = Append(@, proc[p].t)]
        ELSE [proc[p] EXCEPT !.pc = IF eligible /\ AutoWake /\ proc[p].try = 1 THEN "wake" ELSE "journal"]]

\* _ingest_transcript_via_daemon() up to the slot.  A slot that is held means
\* that another process does the work; a slot file that cannot be opened
\* looks the same.
Claim(p) ==
    /\ proc[p].pc = "ingest"
    /\ \/ proc[p].t \in gone /\ Failed(p, FALSE) /\ UNCHANGED cut
       \/ proc[p].t \notin gone /\ ~SlotHeld(proc[p].t) /\ Goto(p, "post") /\ UNCHANGED cut
       \/ proc[p].t \notin gone /\ SlotHeld(proc[p].t) /\ Succeeded(p) /\ UNCHANGED cut
       \/ /\ proc[p].t \notin gone /\ "noslot" \in Faults /\ Succeeded(p)
          /\ cut' = GivenUp({proc[p].t})
    /\ UNCHANGED <<up, covered, gone, journal, wakeLock, late>>

\* The daemon takes the mine that p posts, whether p learns of it or not.
Accepted(p) == covered' = covered \cup {proc[p].t} /\ cut' = cut \ {proc[p].t}

\* Mutant: a timeout is taken for a success.
PostTimesOutAsOk(p) ==
    /\ proc[p].pc = "post" /\ up
    /\ Accepted(p) \/ UNCHANGED <<covered, cut>>
    /\ Succeeded(p)
    /\ UNCHANGED <<up, gone, journal, wakeLock, late>>

\* The client gives up waiting; the daemon may have taken the mine or not.
PostTimesOut(p) ==
    /\ proc[p].pc = "post" /\ up
    /\ Accepted(p) \/ UNCHANGED <<covered, cut>>
    /\ Failed(p, TRUE)
    /\ UNCHANGED <<up, gone, journal, wakeLock, late>>

PostAccepted(p) ==
    /\ proc[p].pc = "post" /\ up
    /\ Accepted(p)
    /\ Succeeded(p)
    /\ UNCHANGED <<up, gone, journal, wakeLock, late>>

\* An HTTP error (waking cannot help), or no connection.
PostRefused(p) ==
    /\ proc[p].pc = "post"
    /\ \/ up /\ Failed(p, FALSE)
       \/ ~up /\ Failed(p, TRUE)
    /\ UNCHANGED <<up, covered, gone, journal, wakeLock, late, cut>>

-----------------------------------------------------------------------------
(* _attempt_wake()                                                         *)

\* Whether p has the flock or not, it leaves the wake with no lock.
DropWakeLock(p) == wakeLock' = IF wakeLock = p THEN None ELSE wakeLock

\* Mutant: a follower is taken for a leader.
ClaimWakeLockAlways(p) ==
    /\ proc[p].pc = "wake"
    /\ proc' = [proc EXCEPT ![p].leader = "lock", ![p].pc = "command"]
    /\ wakeLock' = p
    /\ UNCHANGED <<up, covered, gone, journal, late, cut>>

\* _try_claim_wake_lock(): leader, follower, or leader without a lock when the
\* lock file cannot be opened.
ClaimWakeLock(p) ==
    /\ proc[p].pc = "wake"
    /\ \/ /\ wakeLock = None /\ wakeLock' = p
          /\ proc' = [proc EXCEPT ![p].leader = "lock", ![p].pc = "command"]
       \/ wakeLock # None /\ Goto(p, "poll") /\ UNCHANGED wakeLock
       \/ /\ "nolock" \in Faults /\ UNCHANGED wakeLock
          /\ proc' = [proc EXCEPT ![p].leader = "null", ![p].pc = "command"]
    /\ UNCHANGED <<up, covered, gone, journal, late, cut>>

\* The wake command ends: polling starts, or the lock goes back.
Command(p) ==
    /\ proc[p].pc = "command"
    /\ \/ Goto(p, "poll") /\ UNCHANGED wakeLock
       \/ DropWakeLock(p) /\ proc' = [proc EXCEPT ![p].leader = "no", ![p].pc = "journal"]
    /\ UNCHANGED <<up, covered, gone, journal, late, cut>>

\* Mutant: the retry is not remembered, so that it may wake the host again.
PollForgetsTry(p) ==
    /\ proc[p].pc = "poll" /\ DropWakeLock(p)
    /\ \/ up /\ proc' = [proc EXCEPT ![p].leader = "no", ![p].pc = "ingest"]
       \/ proc' = [proc EXCEPT ![p].leader = "no", ![p].pc = "journal"]
    /\ UNCHANGED <<up, covered, gone, journal, late, cut>>

\* /health answers and the ingest is tried once more, or the deadline passes.
Poll(p) ==
    /\ proc[p].pc = "poll" /\ DropWakeLock(p)
    /\ \/ up /\ proc' = [proc EXCEPT ![p].leader = "no", ![p].pc = "ingest", ![p].try = 2]
       \/ proc' = [proc EXCEPT ![p].leader = "no", ![p].pc = "journal"]
    /\ UNCHANGED <<up, covered, gone, journal, late, cut>>

-----------------------------------------------------------------------------
(* The journal.  Nothing keeps its processes apart.                        *)

\* _journal_failed_ingest() appends, or swallows the OSError.  A line written
\* to a file that a drain replaces between open() and write() is lost like
\* one that the rewrite overwrites.
Journal(p) ==
    /\ proc[p].pc = "journal"
    /\ \/ /\ journal' = Append(journal, proc[p].t)
          /\ late' = Noted(p, {proc[p].t}) /\ UNCHANGED cut
       \/ /\ "nojournal" \in Faults
          /\ cut' = GivenUp({proc[p].t}) /\ UNCHANGED <<journal, late>>
    /\ proc' = [proc EXCEPT ![p] = Idle]
    /\ UNCHANGED <<up, covered, gone, wakeLock>>

\* The entries of a file by transcript, in order of first appearance.
Dedup(s) == Pick(s, {i \in DOMAIN s : \A j \in 1..(i - 1) : s[j] # s[i]})

\* hook_session_start() reads the journal if /health answers.
SessionStart(p) ==
    /\ proc[p].pc = "idle"
    /\ journal # <<>> /\ up
    /\ proc' = [proc EXCEPT ![p] = [Idle EXCEPT !.pc = "next", !.drain = TRUE, !.todo = Dedup(journal)]]
    /\ UNCHANGED <<up, covered, gone, journal, wakeLock, late, cut>>

\* The next entry: kept when the budget is spent, discarded when its
\* transcript is gone, posted otherwise.
ReplayWithin(p, budget) ==
    /\ proc[p].pc = "next" /\ proc[p].todo # <<>>
    /\ LET t == Head(proc[p].todo)
           q == [proc[p] EXCEPT !.todo = Tail(@)]
       IN proc' = [proc EXCEPT ![p] =
            IF q.processed >= budget THEN [q EXCEPT !.keep = Append(@, t)]
            ELSE [q EXCEPT !.processed = @ + 1, !.t = IF t \in gone THEN None ELSE t,
                           !.pc = IF t \in gone THEN "next" ELSE "ingest"]]
    /\ UNCHANGED <<up, covered, gone, journal, wakeLock, late, cut>>

\* Mutant: the budget is one too small.
ReplayOneShort(p) == ReplayWithin(p, MaxEntries - 1)

Replay(p) == ReplayWithin(p, MaxEntries)

\* _rewrite_journal_file() writes over what others put into the file since p
\* read it (os.replace(), or unlink() when nothing is kept), or swallows the
\* OSError.  cut is the history of what only these lines answered for.
Rewrite(p) ==
    /\ proc[p].pc = "next" /\ proc[p].todo = <<>>
    /\ LET keep == ToSet(proc[p].keep)
           file == ToSet(journal)
       IN /\ late' = Noted(p, keep)
          /\ \/ /\ journal' = proc[p].keep
                /\ cut' = GivenUp((late[p] \cap file) \ keep)
             \/ /\ "nojournal" \in Faults /\ UNCHANGED journal
                /\ cut' = GivenUp(keep \ file)
    /\ proc' = [proc EXCEPT ![p] = Idle]
    /\ UNCHANGED <<up, covered, gone, wakeLock>>

-----------------------------------------------------------------------------
(* The rest of the world                                                   *)

\* A process dies; its flocks go with it.
Kill(p) ==
    /\ "kill" \in Faults
    /\ proc[p].pc # "idle"
    /\ cut' = GivenUp(InHand(p))
    /\ proc' = [proc EXCEPT ![p] = Idle]
    /\ DropWakeLock(p) /\ late' = [late EXCEPT ![p] = {}]
    /\ UNCHANGED <<up, covered, gone, journal>>

\* The host wakes by a wake command, by somebody's hand, or by the kick of a
\* compact-resume (_kick_wake_nonblocking()), which takes no lock and leaves
\* no state behind.
HostSleeps == up /\ up' = FALSE /\ UNCHANGED <<covered, gone, journal, proc, wakeLock, late, cut>>
HostWakes == ~up /\ up' = TRUE /\ UNCHANGED <<covered, gone, journal, proc, wakeLock, late, cut>>

\* The harness deletes a transcript.
Delete(t) ==
    /\ t \in Deletable \ gone
    /\ gone' = gone \cup {t} /\ cut' = cut \ {t}
    /\ UNCHANGED <<up, covered, journal, proc, wakeLock, late>>

-----------------------------------------------------------------------------

Step(p) ==
    \/ Claim(p) \/ PostAccepted(p) \/ PostTimesOut(p) \/ PostRefused(p)
    \/ ClaimWakeLock(p) \/ Command(p) \/ Poll(p) \/ Journal(p)
    \/ Replay(p) \/ Rewrite(p)

Next ==
    \/ \E p \in Procs : SessionStart(p) \/ Step(p) \/ Kill(p) \/ \E t \in Transcripts : Announce(p, t)
    \/ HostSleeps \/ HostWakes
    \/ \E t \in Transcripts : Delete(t)

Spec == Init /\ [][Next]_vars

\* The states in which Step(p) is enabled.
Ready(p) == proc[p].pc # "idle"

\* Processes run.
FairSpec == Spec /\ \A p \in Procs : []<>~Ready(p) \/ []<><<Step(p)>>_vars

\* In the end the host stays awake, sessions go on starting, no process is
\* killed, the journal can be replaced, and the daemon takes what is posted,
\* the transcripts in Refused excepted.
DaemonServes ==
    /\ <>[]up
    /\ []<>(journal = <<>> \/ Draining)
    /\ <>[][\A p \in Procs :
              /\ ~Kill(p) /\ (Rewrite(p) => journal' = proc[p].keep)
              /\ proc[p].t \notin Refused => ~PostTimesOut(p) /\ ~PostRefused(p)]_vars

-----------------------------------------------------------------------------
(* Properties                                                              *)

\* A save that was announced to the user is taken by the daemon, in the
\* hands of a process or in the journal, although a process
\* trusts whoever holds the slot, a timeout may be a success and drains
\* overlap.  A save goes missing in four ways only (cut): a killed process had
\* it in hand, a drain wrote over a line that it had not read, the journal
\* could not be written, the slot file could not be opened.
NothingLost ==
    \A t \in Transcripts \ (covered \cup gone \cup cut) :
        \/ Contains(journal, t)
        \/ \E p \in Procs : t \in InHand(p)

\* The flock of the wake neither expires under a leader that runs the command
\* or polls, nor outlives it: a leader has it, and a second one without it is
\* a process that could not open the lock file.  (The kick of a compact-resume
\* takes no lock: a second command may run beside the leader's.)
OneWaker == \A p \in Procs : proc[p].leader = "lock" <=> wakeLock = p

\* A hook process ends, with the host up or not.
ProcessEnds == \A p \in Procs : proc[p].pc # "idle" ~> proc[p].pc = "idle"

\* What is journaled is replayed in the end, also when a drain's budget is
\* smaller than the journal and some entries fail at its head for ever, as
\* long as these leave one place in the budget.
JournalReplayed ==
    Cardinality(Refused) < MaxEntries /\ DaemonServes =>
        \A t \in Transcripts \ Refused : Contains(journal, t) ~> (t \in covered \cup gone \cup cut)

=============================================================================
