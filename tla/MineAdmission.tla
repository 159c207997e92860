--------------------------- MODULE MineAdmission ---------------------------
(***************************************************************************)
(* Which mines of one source run: POST /mine up to its subprocess, and in  *)
(* the drain pass the two tests that keep a queued source from being mined *)
(* again (main.py, the mined-state file).  PendingMines models the queue   *)
(* itself; there these tests are a free choice.                            *)
(*                                                                         *)
(* The source grows while mines run.  A mine reads it some time between    *)
(* its start and its end.  The witness (mtime, size) is a version number:  *)
(* sources are append-only.                                                *)
(***************************************************************************)
EXTENDS Integers, FiniteSets

CONSTANTS MineWing,      \* wings a mine can be asked for
          MineInterval,  \* PALACE_MINE_MIN_INTERVAL_S; 0 turns the debounce off
          MaxContent,    \* bound on the versions of the source
          MaxMineClock   \* bound on the clock

ASSUME MineAssumption ==
    /\ MineInterval \in Nat /\ {MaxContent, MaxMineClock} \subseteq Nat \ {0}
    /\ MineWing # {} /\ "none" \notin MineWing

VARIABLES
    mineClock,
    target,    \* what the source is and the mode it is mined in
    content,   \* version of the source
    palace,    \* per wing: the version the palace holds, 0 for none
    known,     \* mined_state, loaded at the start of a pass
    stored,    \* the mined-state file
    waiting,   \* the wings of the entries in the queue
    drain,     \* the pass: where it is, the entry's wing, witness, version read
    blocking,  \* a POST /mine without background
    drainedAt, \* history: when the pass last mined this source
    forgot     \* history: that time has been lost since, or never stored

mineVars == <<mineClock, target, content, palace, known, stored, waiting, drain, blocking, drainedAt, forgot>>

-----------------------------------------------------------------------------
Nothing == [version |-> 0, at |-> 0]      \* no record
Off == [pc |-> "off", wing |-> "none", witness |-> 0, read |-> 0]
MinePc == {"off", "pass", "wait", "run", "read"}
Busy(p) == p.pc \in {"run", "read"}

\* _mineable_path_problem(): a directory in any mode, a .jsonl file as a
\* conversation, another text file as a project document.
Mineable(t) ==
    \/ t.kind = "directory"
    \/ t.kind = "transcript" /\ t.mode # "projects"
    \/ t.kind = "document" /\ t.mode = "projects"

Targets == [kind : {"directory", "transcript", "document"}, mode : {"convos", "session", "projects"}]

MineTypeOK ==
    /\ mineClock \in 1..MaxMineClock /\ Mineable(target) /\ content \in 1..MaxContent
    /\ palace \in [MineWing -> 0..content] /\ waiting \subseteq MineWing
    /\ {known, stored} \subseteq [version : 0..content, at : 0..mineClock]
    /\ {drain, blocking} \subseteq
        [pc : MinePc, wing : MineWing \cup {"none"}, witness : 0..content, read : 0..content]
    /\ ~(Busy(drain) /\ Busy(blocking))
    /\ drainedAt \in 0..mineClock /\ forgot \in BOOLEAN

MineInit ==
    /\ mineClock = 1 /\ target \in {t \in Targets : Mineable(t)} /\ content = 1
    /\ palace = [w \in MineWing |-> 0] /\ known = Nothing /\ stored = Nothing /\ waiting = {}
    /\ drain = Off /\ blocking = Off /\ drainedAt = 0 /\ forgot = TRUE

-----------------------------------------------------------------------------
(* POST /mine                                                              *)

\* In a rebuild, or if the caller asks for it, the mine is queued.  (Paused, on
\* low disk and in the background the request leaves no trace or an entry.)
MineQueued(w) ==
    /\ waiting' = waiting \cup {w}
    /\ UNCHANGED <<mineClock, target, content, palace, known, stored, drain, blocking, drainedAt, forgot>>

MineBlocks(w) ==
    /\ blocking = Off /\ blocking' = [Off EXCEPT !.pc = "wait", !.wing = w]
    /\ UNCHANGED <<mineClock, target, content, palace, known, stored, waiting, drain, drainedAt, forgot>>

\* One mine at a time: _mine_sem, or the whole palace.
BlockingStarts ==
    /\ blocking.pc = "wait" /\ ~Busy(drain) /\ blocking' = [blocking EXCEPT !.pc = "run"]
    /\ UNCHANGED <<mineClock, target, content, palace, known, stored, waiting, drain, drainedAt, forgot>>

BlockingReads ==
    /\ blocking.pc = "run" /\ blocking' = [blocking EXCEPT !.pc = "read", !.read = content]
    /\ UNCHANGED <<mineClock, target, content, palace, known, stored, waiting, drain, drainedAt, forgot>>

\* It ends, or is given up; no witness is kept either way.
BlockingEnds(ok) ==
    /\ blocking.pc = "read" /\ blocking' = Off
    /\ palace' = IF ok THEN [palace EXCEPT ![blocking.wing] = blocking.read] ELSE palace
    /\ UNCHANGED <<mineClock, target, content, known, stored, waiting, drain, drainedAt, forgot>>

-----------------------------------------------------------------------------
(* _drain_pending_mines(), for the entries of this source                  *)

PassBegins ==
    /\ drain.pc = "off" /\ waiting # {} /\ drain' = [Off EXCEPT !.pc = "pass"] /\ known' = stored
    /\ UNCHANGED <<mineClock, target, content, palace, stored, waiting, blocking, drainedAt, forgot>>

PassEnds ==
    /\ drain.pc = "pass" /\ drain' = Off
    /\ UNCHANGED <<mineClock, target, content, palace, known, stored, waiting, blocking, drainedAt, forgot>>

\* _source_witness(): for a file only.
HasWitness == target.kind # "directory"

\* _drain_should_skip_unchanged()
Unchanged == HasWitness /\ known # Nothing /\ known.version = content

\* _drain_recently_mined(): a transcript mined within the interval stays queued.
RecentlyMined ==
    /\ target.mode # "projects" /\ known # Nothing
    /\ mineClock - known.at < MineInterval

\* An unchanged source is dropped from the queue; so is a transcript over the
\* miner's cap, which leaves no witness.
EntryDropped(w) ==
    /\ drain.pc = "pass" /\ w \in waiting
    /\ Unchanged \/ (target.kind = "transcript" /\ ~RecentlyMined)
    /\ waiting' = waiting \ {w}
    /\ UNCHANGED <<mineClock, target, content, palace, known, stored, drain, blocking, drainedAt, forgot>>

\* Else the witness is taken, before the mine waits for its permit and starts.
EntryTaken(w) ==
    /\ drain.pc = "pass" /\ w \in waiting /\ ~Unchanged /\ ~RecentlyMined
    /\ waiting' = waiting \ {w}
    /\ drain' = [pc |-> "wait", wing |-> w, witness |-> IF HasWitness THEN content ELSE 0, read |-> 0]
    /\ UNCHANGED <<mineClock, target, content, palace, known, stored, blocking, drainedAt, forgot>>

DrainStarts ==
    /\ drain.pc = "wait" /\ ~Busy(blocking) /\ drain' = [drain EXCEPT !.pc = "run"]
    /\ UNCHANGED <<mineClock, target, content, palace, known, stored, waiting, blocking, drainedAt, forgot>>

DrainReads ==
    /\ drain.pc = "run" /\ drain' = [drain EXCEPT !.pc = "read", !.read = content]
    /\ UNCHANGED <<mineClock, target, content, palace, known, stored, waiting, blocking, drainedAt, forgot>>

\* Mutant: the source is looked at after the mine.
RecordLate == IF HasWitness THEN [version |-> content, at |-> mineClock] ELSE known

Record == IF HasWitness THEN [version |-> drain.witness, at |-> mineClock] ELSE known

\* Return code 0: the record is kept and saved, unless the save fails.
DrainEnds(saved) ==
    /\ drain.pc = "read" /\ drain' = [Off EXCEPT !.pc = "pass"]
    /\ palace' = [palace EXCEPT ![drain.wing] = drain.read]
    /\ known' = Record /\ stored' = IF saved THEN Record ELSE stored
    /\ drainedAt' = mineClock /\ forgot' = (~saved \/ ~HasWitness)
    /\ UNCHANGED <<mineClock, target, content, waiting, blocking>>

\* Another process holds the palace: queued again.  Any other failure: the entry
\* goes to the file of failed entries.
DrainFails(lock) ==
    /\ Busy(drain) /\ drain' = [Off EXCEPT !.pc = "pass"]
    /\ waiting' = IF lock THEN waiting \cup {drain.wing} ELSE waiting
    /\ UNCHANGED <<mineClock, target, content, palace, known, stored, blocking, drainedAt, forgot>>

-----------------------------------------------------------------------------
\* The daemon dies; the entry in progress is recovered from .processing.
Restart ==
    /\ drain' = Off /\ blocking' = Off /\ known' = Nothing
    /\ waiting' = waiting \cup (IF drain.wing = "none" THEN {} ELSE {drain.wing})
    /\ UNCHANGED <<mineClock, target, content, palace, stored, drainedAt, forgot>>

\* _load_mined_state() of a broken file, _prune_mined_state() of a full one.
RecordLost ==
    /\ drain.pc = "off" /\ stored' = Nothing /\ forgot' = TRUE
    /\ UNCHANGED <<mineClock, target, content, palace, known, waiting, drain, blocking, drainedAt>>

SourceGrows ==
    /\ content < MaxContent /\ content' = content + 1
    /\ UNCHANGED <<mineClock, target, palace, known, stored, waiting, drain, blocking, drainedAt, forgot>>

MineClockTicks ==
    /\ mineClock < MaxMineClock /\ mineClock' = mineClock + 1
    /\ UNCHANGED <<target, content, palace, known, stored, waiting, drain, blocking, drainedAt, forgot>>

MineNext ==
    \/ \E w \in MineWing : MineQueued(w) \/ MineBlocks(w) \/ EntryDropped(w) \/ EntryTaken(w)
    \/ BlockingStarts \/ BlockingReads \/ PassBegins \/ PassEnds \/ DrainStarts \/ DrainReads
    \/ \E b \in BOOLEAN : BlockingEnds(b) \/ DrainEnds(b) \/ DrainFails(b)
    \/ Restart \/ RecordLost \/ SourceGrows \/ MineClockTicks

MineSpec == MineInit /\ [][MineNext]_mineVars

-----------------------------------------------------------------------------
\* A record of the mined state, in memory or in the file, never claims more than
\* the palace holds in some wing: what is appended while a mine runs is not
\* taken for mined ("that ordering is the whole correctness of this").
WitnessMined ==
    \A record \in {known, stored} : \E w \in MineWing : palace[w] >= record.version

\* The drain mines a transcript again only after the interval, also across
\* passes and restarts, unless the record of the last mine was lost.
NoRemineSoon ==
    drain.pc = "wait" /\ target.mode # "projects" /\ ~forgot => mineClock - drainedAt >= MineInterval

\* A source is mined again only when due, and never skipped for what no mine
\* has read.
AdmissionCorrect == MineTypeOK /\ WitnessMined /\ NoRemineSoon
=============================================================================
