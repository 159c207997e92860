---------------------------- MODULE PendingMines ----------------------------
(***************************************************************************)
(* The durable queue of background mines in main.py: POST /mine appends a  *)
(* line to palace-daemon-pending-mines.jsonl and answers 202; a drainer    *)
(* replays the lines in capped passes, re-sorting its claim at every mine  *)
(* boundary, and keeps what it owes in the file .processing so that a      *)
(* restart loses nothing.                                                  *)
(*                                                                         *)
(* Two coroutines can drain: the background loop that _kick_mine_drain()   *)
(* starts ("loop") and the single pass /repair makes after a rebuild       *)
(* ("repair").  Between two awaits a coroutine has the event loop to       *)
(* itself; worker threads still append, under the flock, and the process   *)
(* can still die.                                                          *)
(*                                                                         *)
(* An entry is [key, defer, raw, tries]: its (dir, wing, mode), its        *)
(* drain_deferrals in memory and in the line it was read from, and its     *)
(* lock_retries.  Deferrals are counted up to Escape: only "at least       *)
(* Escape" is ever asked.  Whether a source is invalid, unchanged,         *)
(* recently mined, over the size cap or short of disk is the environment's *)
(* choice, as is what the mine subprocess returns.                         *)
(***************************************************************************)
EXTENDS Integers, Sequences, FiniteSets, FiniteSetsExt, Selection

CONSTANTS
    Targets,       \* (dir, wing, mode) triples that are mined
    Small,         \* the targets of a mode in _DRAIN_SMALL_MODES
    Drainers,      \* {"loop"} or {"loop", "repair"}
    Cap,           \* _drain_batch_size()
    Escape,        \* _DRAIN_PRIORITY_ESCAPE_DEFERRALS
    LockRetryMax,  \* _LOCK_REQUEUE_MAX
    Outcomes,      \* outcomes of a replay that occur
    Faults,        \* ways the daemon goes down, or a pass raises, that occur
    MaxPasses,     \* passes of one background loop, range(10_000) (0: not reached)
    MaxQueue,      \* bound: lines in the queue when a POST arrives
    MaxPosts,      \* bound: POSTs (0: no bound)
    MaxFaults,     \* bound: restarts
    MaxRebuilds    \* bound: rebuilds

ASSUME MinesAssumption ==
    /\ Small \subseteq Targets
    /\ "loop" \in Drainers /\ Drainers \subseteq {"loop", "repair"}
    /\ Cap \in Nat \ {0} /\ Escape \in Nat \ {0}
    /\ {LockRetryMax, MaxPasses, MaxQueue, MaxPosts, MaxFaults, MaxRebuilds} \subseteq Nat
    /\ Outcomes \subseteq {"ok", "skip", "requeue", "lock", "fail"}
    /\ Faults \subseteq {"kill", "killInMerge", "stop", "raise"}

VARIABLES
    queue,      \* lines of the pending file
    proc,       \* lines of .processing
    dr,         \* the locals of each drainer
    mineSem,    \* holder of _mine_sem: "free", a drainer or "rebuild"
    rebuild,    \* "no", "begun" or "holding": _repair_state and its hold
    passes,     \* passes the background loop has begun
    spent,      \* history: its pass was the last it may make, or has raised
    unkicked,   \* a POST has appended its line and not yet called _kick_mine_drain()
    owed,       \* history: targets with a 202 that no replay has answered
    base,       \* history: deferrals of each target when the last pass began
    posts, faults, rebuilds

vars == <<queue, proc, dr, mineSem, rebuild, passes, spent, unkicked, owed, base, posts, faults, rebuilds>>
counters == <<posts, faults, rebuilds>>
round == <<passes, spent>>

Entries == [key : Targets, defer : 0..Escape, raw : 0..Escape, tries : 0..LockRetryMax]
Idle == [pc |-> "off", owned |-> <<>>, held |-> <<>>, requeue |-> <<>>, arrivals |-> <<>>,
         cur |-> <<>>, covered |-> {}, consumed |-> 0]

TypeOK ==
    /\ queue \in Seq(Entries) /\ proc \in Seq(Entries)
    /\ dr \in [Drainers ->
         [pc : {"off", "top", "claim", "next", "wait", "mine", "merge", "write", "sleep", "end"},
          owned : Seq(Entries), held : Seq(Entries), requeue : Seq(Entries),
          arrivals : Seq(Entries), cur : Seq(Entries), covered : SUBSET Targets,
          consumed : 0..Cap]]
    /\ mineSem \in Drainers \cup {"free", "rebuild"}
    /\ rebuild \in {"no", "begun", "holding"}
    /\ unkicked \in BOOLEAN
    /\ owed \subseteq Targets
    /\ base \in [Targets -> 0..Escape]
    /\ passes \in Nat /\ spent \in BOOLEAN
    /\ posts \in Nat /\ faults \in Nat /\ rebuilds \in Nat

Init ==
    /\ queue = <<>> /\ proc = <<>>
    /\ dr = [d \in Drainers |-> Idle]
    /\ mineSem = "free" /\ rebuild = "no" /\ unkicked = FALSE
    /\ passes = 0 /\ spent = FALSE
    /\ owed = {} /\ base = [t \in Targets |-> 0]
    /\ posts = 0 /\ faults = 0 /\ rebuilds = 0

-----------------------------------------------------------------------------
(* Entries and sequences of entries.                                       *)

Keys(s) == {s[i].key : i \in DOMAIN s}

\* _drain_entry_priority()
Priority(e) == IF e.defer >= Escape THEN 0 ELSE IF e.key \in Small THEN 1 ELSE 2

\* The indices of the first n entries of s in the order (priority, index).
Best(s, n) ==
    {i \in DOMAIN s :
        Cardinality({j \in DOMAIN s : \/ Priority(s[j]) < Priority(s[i])
                                      \/ Priority(s[j]) = Priority(s[i]) /\ j < i}) < n}

\* The entries of s in the order (priority, index).
ByPriority(s) ==
    [r \in DOMAIN s |-> s[CHOOSE i \in DOMAIN s : i \in Best(s, r) /\ i \notin Best(s, r - 1)]]

\* The newest entry of each target, with the highest deferral count of all.
Dedup(s) ==
    LET newest == Pick(s, {i \in DOMAIN s : \A j \in DOMAIN s : j > i => s[j].key # s[i].key})
    IN [i \in DOMAIN newest |->
          [newest[i] EXCEPT !.defer =
              Max({s[j].defer : j \in {k \in DOMAIN s : s[k].key = newest[i].key}})]]

\* json.dumps(entry): the counters in memory become those of the line.
Dumped(s) == [i \in DOMAIN s |-> [s[i] EXCEPT !.raw = s[i].defer]]

\* _write_processing() and every read: a line carries the count it was read with.
Lines(s) == [i \in DOMAIN s |-> [s[i] EXCEPT !.defer = s[i].raw]]

\* _defer_entries()
Bumped(s) == Dumped([i \in DOMAIN s |-> [s[i] EXCEPT !.defer = Min({@ + 1, Escape})]])

-----------------------------------------------------------------------------
(* POST /mine (background, or any POST during a rebuild), and the kick.    *)

Post(t) ==
    /\ Len(queue) < MaxQueue
    /\ MaxPosts > 0 => posts < MaxPosts
    /\ posts' = IF MaxPosts > 0 THEN posts + 1 ELSE 0
    /\ queue' = Append(queue, [key |-> t, defer |-> 0, raw |-> 0, tries |-> 0])
    /\ unkicked' = (unkicked \/ rebuild = "no")
    /\ owed' = owed \cup {t}
    /\ dr' = [d \in Drainers |-> [dr[d] EXCEPT !.covered = @ \ {t}]]
    /\ UNCHANGED <<proc, mineSem, rebuild, base, faults, rebuilds, round>>

\* Some coroutine is between two awaits: no other one runs.
LoopBusy == \E d \in Drainers : dr[d].pc \in {"claim", "next", "merge", "write", "end"}

Kicked(f) == IF f["loop"].pc = "off" THEN [f EXCEPT !["loop"].pc = "top"] ELSE f

\* _kick_mine_drain(), after the append.
Kick ==
    /\ unkicked /\ ~LoopBusy
    /\ unkicked' = FALSE
    /\ dr' = Kicked(dr)
    /\ passes' = IF dr["loop"].pc = "off" THEN 0 ELSE passes
    /\ UNCHANGED <<queue, proc, mineSem, rebuild, spent, owed, base, counters>>

-----------------------------------------------------------------------------
(* One pass of _drain_pending_mines().                                     *)

\* The head of the background loop: during a rebuild it gives up.
LoopTop ==
    /\ dr["loop"].pc = "top" /\ ~LoopBusy
    /\ dr' = [dr EXCEPT !["loop"].pc = IF rebuild # "no" THEN "off" ELSE "claim"]
    /\ passes' = IF rebuild # "no" \/ MaxPasses = 0 THEN passes ELSE passes + 1
    /\ spent' = FALSE
    /\ UNCHANGED <<queue, proc, mineSem, rebuild, unkicked, owed, base, counters>>

\* Fold a leftover .processing back, rename the queue to .processing, dedup,
\* split into this pass and the deferred, and write both to .processing.
Claim(d) ==
    LET lines == queue \o proc
        unique == Dedup(lines)
        batch == ByPriority(Pick(unique, Best(unique, Cap)))
        deferred == Pick(unique, DOMAIN unique \ Best(unique, Cap))
    IN /\ dr[d].pc = "claim"
       /\ queue' = <<>>
       /\ IF lines = <<>>
          THEN /\ dr' = [dr EXCEPT ![d] = Idle]
               /\ UNCHANGED <<proc, base>>
          ELSE /\ proc' = IF deferred = <<>> THEN lines ELSE Lines(batch \o deferred)
               /\ dr' = [dr EXCEPT ![d] = [Idle EXCEPT !.pc = "next", !.owned = batch,
                                                       !.held = deferred]]
               /\ base' = [t \in Targets |->
                             Max({0} \cup {lines[i].defer : i \in {j \in DOMAIN lines : lines[j].key = t}})]
       /\ UNCHANGED <<mineSem, rebuild, unkicked, owed, counters, round>>

\* Take the next entry: settle it at once (invalid or unchanged source, over
\* the size cap), put it back (low disk, recently mined), or go and mine it.
Take(d) ==
    LET e == Head(dr[d].owned)
        popped == [dr[d] EXCEPT !.owned = Tail(@), !.consumed = @ + 1,
                                !.cur = <<e>>, !.covered = {e.key}]
    IN /\ dr[d].pc = "next" /\ dr[d].owned # <<>>
       /\ \/ /\ "skip" \in Outcomes
             /\ dr' = [dr EXCEPT ![d] = [popped EXCEPT !.pc = "merge", !.cur = <<>>]]
             /\ owed' = owed \ {e.key}
          \/ /\ "requeue" \in Outcomes
             /\ dr' = [dr EXCEPT ![d] = [popped EXCEPT !.pc = "merge", !.cur = <<>>,
                                                       !.requeue = @ \o Dumped(<<e>>)]]
             /\ UNCHANGED owed
          \/ /\ Outcomes \cap {"ok", "lock", "fail"} # {}
             /\ dr' = [dr EXCEPT ![d] = [popped EXCEPT !.pc = "wait"]]
             /\ UNCHANGED owed
       /\ UNCHANGED <<queue, proc, mineSem, rebuild, unkicked, base, counters, round>>

\* Mutant: spawn without _mine_sem.
SpawnAtOnce(d) ==
    /\ dr[d].pc = "wait" /\ ~LoopBusy
    /\ mineSem' = d
    /\ dr' = [dr EXCEPT ![d].pc = "mine"]
    /\ UNCHANGED <<queue, proc, rebuild, unkicked, owed, base, counters, round>>

\* async with _mine_sem: spawn the subprocess.
Spawn(d) ==
    /\ dr[d].pc = "wait" /\ mineSem = "free" /\ ~LoopBusy
    /\ mineSem' = d
    /\ dr' = [dr EXCEPT ![d].pc = "mine"]
    /\ UNCHANGED <<queue, proc, rebuild, unkicked, owed, base, counters, round>>

\* Mutant: one retry more than _LOCK_REQUEUE_MAX.
MayRetryOnceMore(e) == e.tries <= LockRetryMax

MayRetry(e) == e.tries + 1 <= LockRetryMax

\* The subprocess ends: mined or failed for good, or the palace lock was held
\* and the entry goes back.  An entry that failed has had its answer here; its
\* line is in memory until the end of the pass puts it into the quarantine file.
MineEnds(d) ==
    LET e == dr[d].cur[1]
        after == [dr[d] EXCEPT !.pc = "merge", !.cur = <<>>, !.covered = {}]
    IN /\ dr[d].pc = "mine" /\ ~LoopBusy
       /\ mineSem' = "free"
       /\ \/ /\ \/ Outcomes \cap {"ok", "fail"} # {}
                \/ "lock" \in Outcomes /\ ~MayRetry(e)
             /\ dr' = [dr EXCEPT ![d] = after]
             /\ owed' = owed \ dr[d].covered
          \/ /\ "lock" \in Outcomes /\ MayRetry(e)
             /\ dr' = [dr EXCEPT ![d] =
                   [after EXCEPT !.requeue = @ \o Dumped(<<[e EXCEPT !.tries = @ + 1]>>)]]
             /\ UNCHANGED owed
       /\ UNCHANGED <<queue, proc, rebuild, unkicked, base, counters, round>>

-----------------------------------------------------------------------------
(* _rebalance_claim(): the boundary after every entry.                     *)

\* Arrivals that no owned entry stands for, deduplicated.
NewArrivals(own, arr) == Dedup(Pick(arr, {i \in DOMAIN arr : arr[i].key \notin Keys(own)}))

\* Owned entries take over the deferral count of a repost.
Raised(own, arr) ==
    [i \in DOMAIN own |->
        [own[i] EXCEPT !.defer =
            Max({@} \cup {arr[j].defer : j \in {k \in DOMAIN arr : arr[k].key = own[i].key}})]]

\* Mutant: arrivals go to the end of the claim.
RebalancedUnsorted(own, arr, budget) ==
    LET all == Raised(own, arr) \o NewArrivals(own, arr)
    IN [keep |-> Pick(all, {i \in DOMAIN all : i <= budget}),
        displaced |-> Pick(all, {i \in DOMAIN all : i > budget})]

\* What the pass may still run, and what it sets aside.
Rebalanced(own, arr, budget) ==
    LET all == Raised(own, arr) \o NewArrivals(own, arr)
    IN [keep |-> ByPriority(Pick(all, Best(all, budget))),
        displaced |-> Pick(all, DOMAIN all \ Best(all, budget))]

\* No budget left: the remainder is displaced and arrivals are not looked at.
\* Otherwise the queue is renamed to .merge, read and removed.
Merge(d) ==
    /\ dr[d].pc = "merge"
    /\ \/ /\ dr[d].consumed >= Cap
          /\ proc' = Lines(dr[d].owned \o dr[d].held)
          /\ dr' = [dr EXCEPT ![d].pc = "next", ![d].owned = <<>>,
                              ![d].held = @ \o dr[d].owned]
          /\ UNCHANGED queue
       \/ /\ dr[d].consumed < Cap
          /\ dr' = [dr EXCEPT ![d].pc = "write", ![d].arrivals = queue]
          /\ queue' = <<>>
          /\ UNCHANGED proc
    /\ UNCHANGED <<mineSem, rebuild, unkicked, owed, base, counters, round>>

\* Mutant: what earlier boundaries set aside is in memory only.
WriteClaimForgetsHeld(d) ==
    LET b == Rebalanced(dr[d].owned, dr[d].arrivals, Cap - dr[d].consumed)
    IN /\ dr[d].pc = "write"
       /\ proc' = Lines(b.keep \o b.displaced)
       /\ dr' = [dr EXCEPT ![d].pc = "next", ![d].owned = b.keep, ![d].arrivals = <<>>,
                           ![d].held = @ \o b.displaced]
       /\ UNCHANGED <<queue, mineSem, rebuild, unkicked, owed, base, counters, round>>

\* Mutant: displaced entries are deferred at the boundary.
WriteClaimDefersNow(d) ==
    LET b == Rebalanced(dr[d].owned, dr[d].arrivals, Cap - dr[d].consumed)
    IN /\ dr[d].pc = "write"
       /\ proc' = Lines(b.keep \o dr[d].held)
       /\ queue' = queue \o Bumped(b.displaced)
       /\ dr' = [dr EXCEPT ![d].pc = "next", ![d].owned = b.keep, ![d].arrivals = <<>>]
       /\ UNCHANGED <<mineSem, rebuild, unkicked, owed, base, counters, round>>

\* .processing is rewritten to everything the pass still holds.
WriteClaim(d) ==
    LET b == Rebalanced(dr[d].owned, dr[d].arrivals, Cap - dr[d].consumed)
    IN /\ dr[d].pc = "write"
       /\ proc' = Lines(b.keep \o dr[d].held \o b.displaced)
       /\ dr' = [dr EXCEPT ![d].pc = "next", ![d].owned = b.keep, ![d].arrivals = <<>>,
                           ![d].held = @ \o b.displaced]
       /\ UNCHANGED <<queue, mineSem, rebuild, unkicked, owed, base, counters, round>>

\* The end of the pass: deferred and requeued entries go back to the queue;
\* .processing is removed, after a sleep if something was requeued.
EndPass(d) ==
    /\ dr[d].pc = "next" /\ dr[d].owned = <<>>
    /\ queue' = queue \o Bumped(dr[d].held) \o dr[d].requeue
    /\ proc' = IF dr[d].requeue = <<>> THEN <<>> ELSE proc
    /\ dr' = [dr EXCEPT ![d] = [Idle EXCEPT !.pc = IF dr[d].requeue = <<>> THEN "end" ELSE "sleep"]]
    /\ UNCHANGED <<mineSem, rebuild, unkicked, owed, base, counters, round>>

WakeUp(d) ==
    /\ dr[d].pc = "sleep" /\ ~LoopBusy
    /\ proc' = <<>>
    /\ dr' = [dr EXCEPT ![d].pc = "end"]
    /\ UNCHANGED <<queue, mineSem, rebuild, unkicked, owed, base, counters, round>>

\* Mutant: the loop makes one pass too.
AgainOnce(d) ==
    /\ dr[d].pc = "end"
    /\ dr' = [dr EXCEPT ![d].pc = "off"]
    /\ UNCHANGED <<queue, proc, mineSem, rebuild, unkicked, owed, base, counters, round>>

LastPass == MaxPasses > 0 /\ passes >= MaxPasses

\* The loop goes on while there is a queue and it may; /repair makes one pass.
Again(d) ==
    LET more == d = "loop" /\ queue # <<>>
    IN /\ dr[d].pc = "end"
       /\ dr' = [dr EXCEPT ![d].pc = IF more /\ ~LastPass THEN "top" ELSE "off"]
       /\ spent' = (spent \/ (more /\ LastPass))
       /\ UNCHANGED <<queue, proc, mineSem, rebuild, passes, unkicked, owed, base, counters>>

\* The orphaned .processing cannot be read: the exception leaves the drain, and
\* ends the background loop.
DrainRaises(d) ==
    /\ "raise" \in Faults /\ dr[d].pc = "claim" /\ proc # <<>>
    /\ dr' = [dr EXCEPT ![d] = Idle]
    /\ spent' = (spent \/ d = "loop")
    /\ UNCHANGED <<queue, proc, mineSem, rebuild, passes, unkicked, owed, base, counters>>

\* An exception ends the pass: its claim, or the arrivals of a boundary, cannot be
\* read, or what it gives back after deferring cannot be written.  .processing
\* stays as it is, and what the pass has in memory is lost.
PassRaises(d) ==
    /\ "raise" \in Faults
    /\ \/ dr[d].pc = "claim" /\ queue \o proc # <<>> /\ queue' = <<>> /\ proc' = queue \o proc
       \/ dr[d].pc = "write" /\ UNCHANGED <<queue, proc>>
       \/ dr[d].pc = "next" /\ dr[d].owned = <<>> /\ queue' = queue \o Bumped(dr[d].held) /\ UNCHANGED proc
    /\ dr' = [dr EXCEPT ![d] = [Idle EXCEPT !.pc = "end"]]
    /\ spent' = (spent \/ d = "loop")
    /\ UNCHANGED <<mineSem, rebuild, passes, unkicked, owed, base, counters>>

-----------------------------------------------------------------------------
(* /repair mode=rebuild, as far as it concerns the mines.                  *)

RebuildBegins ==
    /\ rebuild = "no" /\ ~LoopBusy /\ rebuilds < MaxRebuilds
    /\ rebuilds' = rebuilds + 1
    /\ rebuild' = "begun"
    /\ UNCHANGED <<queue, proc, dr, mineSem, unkicked, owed, base, posts, faults, round>>

RebuildHolds ==
    /\ rebuild = "begun" /\ mineSem = "free" /\ ~LoopBusy
    /\ mineSem' = "rebuild" /\ rebuild' = "holding"
    /\ UNCHANGED <<queue, proc, dr, unkicked, owed, base, counters, round>>

\* Only a rebuild that succeeded drains the queue.
RebuildEnds ==
    /\ rebuild = "holding" /\ ~LoopBusy
    /\ mineSem' = "free" /\ rebuild' = "no"
    /\ \/ "repair" \in Drainers /\ dr' = [dr EXCEPT !["repair"].pc = "claim"]
       \/ UNCHANGED dr
    /\ UNCHANGED <<queue, proc, unkicked, owed, base, counters, round>>

-----------------------------------------------------------------------------
(* The daemon goes down and starts again: .processing is folded back and   *)
(* the drainer started if there is anything to do.                         *)

Restart(q, p) ==
    LET idle == [d \in Drainers |-> Idle]
    IN /\ faults < MaxFaults /\ faults' = faults + 1
       /\ queue' = q \o p /\ proc' = <<>>
       /\ dr' = IF q \o p = <<>> THEN idle ELSE Kicked(idle)
       /\ mineSem' = "free" /\ rebuild' = "no" /\ unkicked' = FALSE /\ passes' = 0 /\ spent' = FALSE
       /\ UNCHANGED <<owed, base, posts, rebuilds>>

\* The process is killed.
Killed ==
    /\ \/ "kill" \in Faults /\ \A d \in Drainers : dr[d].pc # "write"
       \/ "killInMerge" \in Faults /\ \E d \in Drainers : dr[d].pc = "write"
    /\ Restart(queue, proc)

\* The service is stopped: the pass is cancelled at its await, and the finally
\* clause of the entry in hand runs one more boundary.
Stopped(d) ==
    LET b == Rebalanced(dr[d].owned, queue, Cap - dr[d].consumed)
    IN /\ "stop" \in Faults /\ ~LoopBusy
       /\ \A e \in Drainers \ {d} : dr[e].pc = "off"
       /\ \/ /\ dr[d].pc \in {"wait", "mine"} /\ dr[d].consumed < Cap
             /\ Restart(<<>>, Lines(b.keep \o dr[d].held \o b.displaced))
          \/ /\ dr[d].pc \in {"wait", "mine"} /\ dr[d].consumed >= Cap
             /\ Restart(queue, Lines(dr[d].owned \o dr[d].held))
          \/ /\ dr[d].pc = "sleep"
             /\ Restart(queue, proc)

-----------------------------------------------------------------------------

Pass(d) ==
    \/ Claim(d) \/ Take(d) \/ Spawn(d) \/ MineEnds(d) \/ Merge(d) \/ WriteClaim(d)
    \/ EndPass(d) \/ WakeUp(d) \/ Again(d) \/ DrainRaises(d) \/ PassRaises(d)

Next ==
    \/ \E t \in Targets : Post(t)
    \/ Kick \/ LoopTop
    \/ \E d \in Drainers : Pass(d)
    \/ RebuildBegins \/ RebuildHolds \/ RebuildEnds
    \/ Killed \/ \E d \in Drainers : Stopped(d)

Spec == Init /\ [][Next]_vars

\* The states in which Pass(d) is enabled.
PassReady(d) ==
    \/ dr[d].pc \in {"claim", "next", "merge", "write", "end"}
    \/ dr[d].pc \in {"wait", "mine", "sleep"} /\ ~LoopBusy
       /\ dr[d].pc = "wait" => mineSem = "free"

\* The event loop runs and every mine ends; POSTs may go on for ever.  The
\* second conjunct is WF_vars(Pass(d)) written out: while Pass(d) is enabled
\* only its steps move the pc of d.
FairSpec ==
    /\ Spec
    /\ \A d \in Drainers : []<>~PassReady(d) \/ []<><<dr'[d].pc # dr[d].pc>>_vars
    /\ WF_vars(Kick) /\ WF_vars(LoopTop)
    /\ WF_vars(RebuildHolds) /\ WF_vars(RebuildEnds)

-----------------------------------------------------------------------------
(* Properties                                                              *)

OnDisk == Keys(queue) \cup Keys(proc)

\* Every target that got a 202 and has not been replayed since is on disk at
\* every await, so that a restart replays it: what the pass still owes is in
\* .processing (#244).
DurableClaim == (\A d \in Drainers : dr[d].pc # "write") => owed \subseteq OnDisk

\* Of the owed targets only the entry in hand, those requeued by this pass and
\* the arrivals being merged ever leave the disk: no boundary, no end of a
\* pass and no restart, clean or not, drops the remainder, the deferred or
\* the displaced (#293).
InHand(d) == Keys(dr[d].cur) \cup Keys(dr[d].requeue) \cup Keys(dr[d].arrivals)
AtRisk == UNION {InHand(d) : d \in Drainers}
OnlyInHandLeavesDisk == [][(owed \ OnDisk)' \subseteq (owed \ OnDisk) \cup AtRisk \cup AtRisk']_vars

\* What is on disk, and no POST is about to kick for, has a drainer: the loop that
\* finds the queue empty and the POST that finds the loop alive never miss each
\* other, and a restart starts the drainer for what it recovered.  The exceptions
\* are the loop's own: the pass that was the last of its range(10_000), and one
\* that raised; the next POST or restart attends to what they leave.
NoLostWakeup ==
    OnDisk # {} /\ ~unkicked /\ rebuild = "no" => dr["loop"].pc # "off" \/ spent

\* The mines of both drainers run one at a time and none runs while the
\* rebuild holds the palace, although the loop may have been waiting for
\* _mine_sem when the rebuild began.
MinesAlone ==
    /\ Cardinality({d \in Drainers : dr[d].pc = "mine"}) <= 1
    /\ rebuild = "holding" => \A d \in Drainers : dr[d].pc # "mine"

\* A boundary swaps entries and never adds any: a pass runs at most Cap.
PassBounded == \A d \in Drainers : dr[d].consumed + Len(dr[d].owned) <= Cap

\* A pass raises a deferral count at most once, however many boundaries and
\* reposts fall into it (#293).
DeferredOncePerPass ==
    \A s \in {queue, proc} \cup {dr[d].owned : d \in Drainers} \cup {dr[d].held : d \in Drainers} :
        \A i \in DOMAIN s : s[i].defer <= base[s[i].key] + 1

\* Boundaries change neither how much a pass runs nor how it counts.
PassDiscipline == PassBounded /\ DeferredOncePerPass

\* What runs next is never outranked by what the pass has set aside, also
\* after arrivals displaced entries and reposts raised their counts.
NoInversion ==
    \A d \in Drainers : dr[d].pc = "next" =>
        \A i \in DOMAIN dr[d].owned :
            /\ \A j \in DOMAIN dr[d].owned :
                  i < j => Priority(dr[d].owned[i]) <= Priority(dr[d].owned[j])
            /\ \A j \in DOMAIN dr[d].held :
                  Priority(dr[d].owned[i]) <= Priority(dr[d].held[j])

\* No queued target starves, although POSTs of targets that outrank it may never
\* stop: "a low-priority entry deferred this many passes outranks everything".
\* It does not outrank other such entries: a target posted during a pass stands
\* before those the pass defers, and is promoted with them.
EveryEntryRuns ==
    \A t \in Targets : t \in Keys(queue) ~> \E d \in Drainers : t \in Keys(dr[d].cur)

=============================================================================
