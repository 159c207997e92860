---------------------------- MODULE AroundProofs ----------------------------
(***************************************************************************)
(* Proofs about the modules of what goes on around the requests, for any   *)
(* values of their constants.  The modules share no state; each theorem is *)
(* about the specification of one of them.                                 *)
(***************************************************************************)
EXTENDS Watcher, BenchLock, Lifecycle, HookTrigger, Backfill, MineAdmission,
        McpSession, Lemmas, SequenceTheorems

-----------------------------------------------------------------------------
(* McpSession                                                              *)

Lanes == {"fast", "native", "call"}

\* The client by its place: nothing has been run or answered before the daemon
\* has the request, one lane has been taken while it serves it, and what is
\* sent is meant to be.
SessionPlaces ==
    /\ proxy \in {"starting", "handling", "sending", "waking", "connected"} => lanes = <<>>
    /\ proxy # "reading" => answers = 0
    /\ proxy = "starting" => ~request.id /\ contacts = {}
    /\ proxy = "handling" => tries = 0
    /\ proxy \in {"sending", "waking"} => tries = 1
    /\ proxy \in {"sending", "waking", "connected", "serving"} => Forwarded

SessionInv == SessionCorrect /\ lanes \in Seq(Lanes) /\ SessionPlaces

\* A request is answered that has not been answered yet.
LEMMA WritesOnce ==
    ASSUME SessionInv, proxy # "reading", Writes, UNCHANGED <<settings, reachable, request, lanes>>,
           tries' \in 0..2,
           contacts' = contacts \/ (Forwarded /\ contacts' = contacts \cup {request.kind})
    PROVE  SessionInv'
<1>1. answers = 0 /\ proxy' = "reading" /\ answers' = IF request.id THEN 1 ELSE 0
    BY DEF SessionInv, SessionPlaces, Writes
<1>2. /\ mcpMode' = mcpMode /\ canWake' = canWake /\ intercept' = intercept
      /\ reachable' = reachable /\ request' = request /\ lanes' = lanes
    BY DEF settings
<1>3. answers' \in 0..1
    BY <1>1
<1>4. McpTypeOK'
    BY <1>1, <1>2, <1>3 DEF SessionInv, SessionCorrect, McpTypeOK, Proxies
<1>5. RunAtMostOnce' /\ LineAnswered' /\ NoFullScan'
    BY <1>1, <1>2 DEF SessionInv, SessionCorrect, RunAtMostOnce, LineAnswered, NoFullScan, Intercepted
<1>6. SleepHarmless'
    BY <1>1, <1>2 DEF SessionInv, SessionCorrect, SleepHarmless, Forwarded
<1> QED
    BY <1>1, <1>2, <1>4, <1>5, <1>6 DEF SessionInv, SessionCorrect, SessionPlaces

\* SessionInv is inductive.
LEMMA NextSession ==
    ASSUME SessionInv, [McpNext]_mcpVars
    PROVE  SessionInv'
<1> USE DEF settings
<1>1. /\ McpTypeOK /\ RunAtMostOnce /\ LineAnswered /\ NoFullScan /\ SleepHarmless
      /\ lanes \in Seq(Lanes) /\ SessionPlaces /\ tries \in 0..2
    BY DEF SessionInv, SessionCorrect, McpTypeOK
<1>2. <<>> \in Seq(Lanes) /\ Len(<<>>) = 0 /\ 0 \in 0..1 /\ 0 \in 0..2
    OBVIOUS
<1>3. ASSUME Probe PROVE SessionInv'
    <2>1. McpTypeOK'
        BY <1>1, <1>3 DEF Probe, McpTypeOK, Proxies
    <2>2. RunAtMostOnce' /\ NoFullScan' /\ lanes' \in Seq(Lanes)
        BY <1>1, <1>3 DEF Probe, RunAtMostOnce, NoFullScan, Intercepted
    <2>3. LineAnswered' /\ SleepHarmless' /\ SessionPlaces'
        BY <1>1, <1>3 DEF Probe, LineAnswered, SleepHarmless, SessionPlaces, Forwarded
    <2> QED
        BY <2>1, <2>2, <2>3 DEF SessionInv, SessionCorrect
<1>4. ASSUME NEW r \in [kind : Kinds, id : BOOLEAN], ReadLine(r) PROVE SessionInv'
    <2>1. McpTypeOK'
        BY <1>1, <1>2, <1>4 DEF ReadLine, McpTypeOK, Proxies
    <2>2. RunAtMostOnce' /\ NoFullScan' /\ lanes' \in Seq(Lanes)
        BY <1>1, <1>2, <1>4 DEF ReadLine, RunAtMostOnce, NoFullScan
    <2>3. LineAnswered' /\ SleepHarmless' /\ SessionPlaces'
        BY <1>1, <1>4 DEF ReadLine, LineAnswered, SleepHarmless, SessionPlaces
    <2> QED
        BY <2>1, <2>2, <2>3 DEF SessionInv, SessionCorrect
<1>5. ASSUME HandleLocally PROVE SessionInv'
    BY <1>1, <1>5, WritesOnce DEF HandleLocally
<1>6. ASSUME Sending, UNCHANGED <<settings, reachable, request, lanes>>, tries' = tries + 1,
             contacts' = contacts \cup {request.kind}
      PROVE  /\ Forwarded /\ Forwarded' /\ lanes = <<>> /\ answers = 0 /\ tries \in 0..1 /\ tries' \in 0..2
             /\ contacts' \subseteq Kinds \cup {"probe"} /\ proxy # "reading"
             /\ mcpMode # "cli-only" /\ (mcpMode = "search-only" => contacts' \subseteq {"probe", "search"})
    <2>1. Forwarded /\ lanes = <<>> /\ answers = 0 /\ tries \in 0..1 /\ proxy # "reading"
        BY <1>1, <1>6 DEF Sending, SessionPlaces
    <2>2. request.kind \in Kinds /\ contacts \subseteq Kinds \cup {"probe"}
        BY <1>1 DEF McpTypeOK
    <2>3. tries' \in 0..2
        BY <1>6, <2>1
    <2>4. mcpMode # "cli-only" /\ (mcpMode = "search-only" => contacts' \subseteq {"probe", "search"})
        BY <1>1, <1>6, <2>1 DEF Forwarded, SleepHarmless
    <2> QED
        BY <1>6, <2>1, <2>2, <2>3, <2>4 DEF Forwarded
<1>7. ASSUME Send PROVE SessionInv'
    <2>1. /\ Forwarded' /\ lanes = <<>> /\ answers = 0 /\ tries' \in 0..2
          /\ contacts' \subseteq Kinds \cup {"probe"}
          /\ mcpMode # "cli-only" /\ (mcpMode = "search-only" => contacts' \subseteq {"probe", "search"})
        BY <1>6, <1>7 DEF Send
    <2>2. McpTypeOK' /\ RunAtMostOnce' /\ LineAnswered' /\ NoFullScan' /\ lanes' \in Seq(Lanes)
        BY <1>1, <1>7, <2>1 DEF Send, McpTypeOK, RunAtMostOnce, LineAnswered, NoFullScan, Intercepted,
                                Proxies
    <2>3. SleepHarmless' /\ SessionPlaces'
        BY <1>7, <2>1 DEF Send, SleepHarmless, SessionPlaces
    <2> QED
        BY <2>2, <2>3 DEF SessionInv, SessionCorrect
<1>8. ASSUME SendFails PROVE SessionInv'
    <2>1. /\ Forwarded /\ Forwarded' /\ lanes = <<>> /\ answers = 0 /\ tries' \in 0..2 /\ proxy # "reading"
          /\ contacts' \subseteq Kinds \cup {"probe"} /\ tries \in 0..1
          /\ mcpMode # "cli-only" /\ (mcpMode = "search-only" => contacts' \subseteq {"probe", "search"})
        BY <1>6, <1>8 DEF SendFails
    <2>2. CASE proxy' = "waking" /\ tries = 0 /\ UNCHANGED answers
        <3>1. tries' = 1 /\ UNCHANGED <<settings, reachable, request, lanes>>
            BY <1>8, <2>2 DEF SendFails
        <3>2. McpTypeOK' /\ RunAtMostOnce' /\ LineAnswered' /\ NoFullScan' /\ lanes' \in Seq(Lanes)
            BY <1>1, <2>1, <2>2, <3>1 DEF McpTypeOK, RunAtMostOnce, LineAnswered, NoFullScan,
                                          Intercepted, Proxies
        <3>3. SleepHarmless' /\ SessionPlaces'
            BY <2>1, <2>2, <3>1 DEF SleepHarmless, SessionPlaces
        <3> QED
            BY <3>2, <3>3 DEF SessionInv, SessionCorrect
    <2>3. CASE Writes
        BY <1>8, <2>1, <2>3, WritesOnce DEF SendFails
    <2> QED
        BY <1>8, <2>2, <2>3 DEF SendFails
<1>9. ASSUME NEW ok \in BOOLEAN, Wakes(ok) PROVE SessionInv'
    <2>1. /\ proxy = "waking" /\ UNCHANGED <<settings, reachable, request, tries, lanes, contacts>>
          /\ (proxy' = "sending" /\ UNCHANGED answers) \/ Writes
        BY <1>9 DEF Wakes
    <2>2. CASE Writes
        BY <1>1, <2>1, <2>2, WritesOnce
    <2>3. CASE proxy' = "sending" /\ UNCHANGED answers
        <3>1. Forwarded /\ Forwarded'
            BY <1>1, <2>1 DEF SessionPlaces, Forwarded
        <3>2. McpTypeOK' /\ RunAtMostOnce' /\ LineAnswered' /\ NoFullScan' /\ lanes' \in Seq(Lanes)
            BY <1>1, <2>1, <2>3 DEF McpTypeOK, RunAtMostOnce, LineAnswered, NoFullScan,
                                    Intercepted, Proxies
        <3>3. SleepHarmless' /\ SessionPlaces'
            BY <1>1, <2>1, <2>3, <3>1 DEF SleepHarmless, SessionPlaces
        <3> QED
            BY <3>2, <3>3 DEF SessionInv, SessionCorrect
    <2> QED
        BY <2>1, <2>2, <2>3
<1>10. ASSUME LinkCut PROVE SessionInv'
    <2>1. /\ proxy \in {"connected", "serving"}
          /\ UNCHANGED <<settings, reachable, request, tries, lanes, contacts>>
          /\ (proxy' = "broken" /\ UNCHANGED answers) \/ Writes
        BY <1>10 DEF LinkCut
    <2>2. CASE Writes
        BY <1>1, <2>1, <2>2, WritesOnce
    <2>3. CASE proxy' = "broken" /\ UNCHANGED answers
        <3>1. McpTypeOK' /\ RunAtMostOnce' /\ LineAnswered' /\ NoFullScan' /\ lanes' \in Seq(Lanes)
            BY <1>1, <2>1, <2>3 DEF McpTypeOK, RunAtMostOnce, LineAnswered, NoFullScan,
                                    Intercepted, Proxies
        <3>2. SleepHarmless' /\ SessionPlaces'
            BY <1>1, <2>1, <2>3 DEF SleepHarmless, SessionPlaces
        <3> QED
            BY <3>1, <3>2 DEF SessionInv, SessionCorrect
    <2> QED
        BY <2>1, <2>2, <2>3
<1>11. ASSUME NEW lane \in Lanes, Goes(lane), Intercepted => lane # "call" PROVE SessionInv'
    <2>1. /\ proxy = "connected" /\ proxy' = "serving" /\ lanes' = Append(lanes, lane)
          /\ UNCHANGED <<settings, reachable, request, tries, answers, contacts>>
        BY <1>11 DEF Goes
    <2>2. lanes' = <<lane>> /\ lanes' \in Seq(Lanes) /\ Len(lanes') = 1 /\ lanes'[1] = lane
        BY <1>1, <2>1 DEF SessionPlaces
    <2>3. McpTypeOK'
        BY <1>1, <2>1, <2>2 DEF McpTypeOK, Proxies, Lanes
    <2>4. RunAtMostOnce' /\ LineAnswered' /\ NoFullScan'
        BY <1>1, <1>11, <2>1, <2>2 DEF RunAtMostOnce, LineAnswered, NoFullScan, Intercepted
    <2>5. SleepHarmless' /\ SessionPlaces'
        BY <1>1, <2>1 DEF SleepHarmless, SessionPlaces, Forwarded
    <2> QED
        BY <2>2, <2>3, <2>4, <2>5 DEF SessionInv, SessionCorrect
<1>12. ASSUME FastIntercept \/ NativeTool \/ ThroughCall PROVE SessionInv'
    BY <1>11, <1>12 DEF FastIntercept, NativeTool, ThroughCall, Lanes
<1>13. ASSUME FastFails \/ Replies PROVE SessionInv'
    BY <1>1, <1>13, WritesOnce DEF FastFails, Replies
<1>14. ASSUME HostChanges PROVE SessionInv'
    <2>1. /\ UNCHANGED <<settings, proxy, request, tries, lanes, answers, contacts>>
          /\ reachable' \in BOOLEAN
        BY <1>14 DEF HostChanges
    <2>2. McpTypeOK'
        BY <1>1, <2>1 DEF McpTypeOK
    <2>3. /\ RunAtMostOnce' /\ LineAnswered' /\ NoFullScan' /\ SleepHarmless' /\ SessionPlaces'
          /\ lanes' \in Seq(Lanes)
        BY <1>1, <2>1 DEF RunAtMostOnce, LineAnswered, NoFullScan, Intercepted, SleepHarmless,
                          SessionPlaces, Forwarded
    <2> QED
        BY <2>2, <2>3 DEF SessionInv, SessionCorrect
<1>15. CASE UNCHANGED mcpVars
    BY <1>1, <1>15 DEF mcpVars, SessionInv, SessionCorrect, McpTypeOK, RunAtMostOnce, LineAnswered,
                       NoFullScan, Intercepted, SleepHarmless, SessionPlaces, Forwarded
<1>16. CASE McpNext
    BY <1>3, <1>4, <1>5, <1>7, <1>8, <1>9, <1>10, <1>12, <1>13, <1>14, <1>16 DEF McpNext
<1> QED
    BY <1>15, <1>16

\* Every request of an MCP session is answered once and run at most once, by
\* the lane meant for it, whether the host is awake or not
\* (clients/mempalace-mcp.py and mcp_proxy()).
THEOREM SessionCorrectHolds == McpSpec => []SessionCorrect
<1>1. ASSUME McpInit PROVE SessionInv
    <2>1. Len(<<>>) = 0 /\ <<>> \in Seq(Lanes)
        OBVIOUS
    <2>2. McpTypeOK
        BY <1>1, <2>1 DEF McpInit, McpTypeOK, Kinds, Proxies
    <2>3. /\ RunAtMostOnce /\ LineAnswered /\ NoFullScan /\ SleepHarmless /\ lanes \in Seq(Lanes)
          /\ SessionPlaces
        BY <1>1, <2>1 DEF McpInit, RunAtMostOnce, LineAnswered, NoFullScan, SleepHarmless, SessionPlaces
    <2> QED
        BY <2>2, <2>3 DEF SessionInv, SessionCorrect
<1>2. SessionInv => SessionCorrect
    BY DEF SessionInv
<1> QED
    BY <1>1, <1>2, NextSession, PTL DEF McpSpec

-----------------------------------------------------------------------------
(* MineAdmission                                                           *)

Mine(c) == [pc : MinePc, wing : MineWing \cup {"none"}, witness : 0..c, read : 0..c]
MinedRecord(c, k) == [version : 0..c, at : 0..k]

AdmissionTypes ==
    /\ mineClock \in 1..MaxMineClock /\ Mineable(target) /\ content \in 1..MaxContent
    /\ palace \in [MineWing -> 0..content] /\ waiting \subseteq MineWing
    /\ known \in MinedRecord(content, mineClock) /\ stored \in MinedRecord(content, mineClock)
    /\ drain \in Mine(content) /\ blocking \in Mine(content)
    /\ drainedAt \in 0..mineClock /\ forgot \in BOOLEAN

\* One mine at a time, each for a wing; what one has read is no older than
\* anything the palace holds, and no older than its witness.
OneReads ==
    /\ ~(Busy(drain) /\ Busy(blocking))
    /\ drain.pc \in {"wait", "run", "read"} => drain.wing \in MineWing
    /\ blocking.pc \in {"wait", "run", "read"} => blocking.wing \in MineWing
    /\ drain.pc = "read" => drain.witness <= drain.read /\ \A w \in MineWing : palace[w] <= drain.read
    /\ blocking.pc = "read" => \A w \in MineWing : palace[w] <= blocking.read

\* Unless it was lost, the record in the file, and in a pass the one in memory,
\* is that of the last mine.
Remembered ==
    ~forgot => /\ stored.at = drainedAt /\ drainedAt >= 1
               /\ drain.pc # "off" => known = stored

AdmissionInv == AdmissionTypes /\ OneReads /\ Remembered /\ WitnessMined /\ NoRemineSoon

\* The types as the module states them.
LEMMA AdmissionTyped == AdmissionTypes /\ OneReads => MineTypeOK
BY DEF AdmissionTypes, OneReads, MineTypeOK, Mine, MinedRecord

\* The numbers in the state.
LEMMA AdmissionNumbers ==
    ASSUME AdmissionTypes
    PROVE  /\ content \in Nat /\ content >= 1 /\ mineClock \in Nat /\ mineClock >= 1
           /\ drainedAt \in Nat /\ drainedAt <= mineClock /\ MineInterval \in Nat
           /\ known.version \in 0..content /\ known.at \in 0..mineClock
           /\ stored.version \in 0..content /\ stored.at \in 0..mineClock
           /\ drain.witness \in 0..content /\ drain.read \in 0..content /\ drain.pc \in MinePc
           /\ blocking.read \in 0..content /\ blocking.pc \in MinePc
           /\ drain.wing \in MineWing \cup {"none"} /\ blocking.wing \in MineWing \cup {"none"}
           /\ \A w \in MineWing : palace[w] \in 0..content
BY MineAssumption DEF AdmissionTypes, Mine, MinedRecord

\* Nothing and Off fit any state.
LEMMA AdmissionConstants ==
    ASSUME NEW c \in Nat, NEW k \in Nat
    PROVE  /\ Nothing \in MinedRecord(c, k) /\ Nothing.version = 0 /\ Nothing.at = 0
           /\ Off \in Mine(c) /\ Off.pc = "off" /\ Off.wing = "none"
           /\ [Off EXCEPT !.pc = "pass"] \in Mine(c) /\ [Off EXCEPT !.pc = "pass"].pc = "pass"
           /\ \A w \in MineWing : /\ [Off EXCEPT !.pc = "wait", !.wing = w] \in Mine(c)
                                  /\ [Off EXCEPT !.pc = "wait", !.wing = w].pc = "wait"
                                  /\ [Off EXCEPT !.pc = "wait", !.wing = w].wing = w
<1>1. 0 \in 0..c /\ 0 \in 0..k
    OBVIOUS
<1> QED
    BY <1>1 DEF Nothing, MinedRecord, Off, Mine, MinePc

\* AdmissionInv is inductive.
LEMMA NextAdmission ==
    ASSUME AdmissionInv, [MineNext]_mineVars
    PROVE  AdmissionInv'
<1>1. AdmissionTypes /\ OneReads /\ Remembered /\ WitnessMined /\ NoRemineSoon
    BY DEF AdmissionInv
<1>2. /\ content \in Nat /\ content >= 1 /\ mineClock \in Nat /\ mineClock >= 1
      /\ drainedAt \in Nat /\ drainedAt <= mineClock /\ MineInterval \in Nat
      /\ known.version \in 0..content /\ known.at \in 0..mineClock
      /\ stored.version \in 0..content /\ stored.at \in 0..mineClock
      /\ drain.witness \in 0..content /\ drain.read \in 0..content /\ drain.pc \in MinePc
      /\ blocking.read \in 0..content /\ blocking.pc \in MinePc
      /\ drain.wing \in MineWing \cup {"none"} /\ blocking.wing \in MineWing \cup {"none"}
      /\ \A w \in MineWing : palace[w] \in 0..content
    BY <1>1, AdmissionNumbers
<1>3. drain \in Mine(content) /\ blocking \in Mine(content) /\ content \in 0..content
    BY <1>1, <1>2 DEF AdmissionTypes
<1>4. ASSUME NEW w \in MineWing, MineQueued(w) \/ EntryDropped(w) PROVE AdmissionInv'
    <2>1. /\ UNCHANGED <<mineClock, target, content, palace, known, stored, drain, blocking, drainedAt, forgot>>
          /\ waiting' \subseteq waiting \cup {w}
        BY <1>4 DEF MineQueued, EntryDropped
    <2> QED
        BY <1>1, <2>1 DEF AdmissionInv, AdmissionTypes, OneReads, Busy, Remembered, WitnessMined, NoRemineSoon
<1>5. ASSUME NEW p \in Mine(content), blocking' = p,
             UNCHANGED <<mineClock, target, content, palace, known, stored, waiting, drain, drainedAt, forgot>>,
             p.pc \in {"wait", "run", "read"} => p.wing \in MineWing,
             Busy(p) => ~Busy(drain),
             p.pc = "read" => p.read = content
      PROVE  AdmissionInv'
    <2>1. AdmissionTypes' /\ Remembered' /\ WitnessMined' /\ NoRemineSoon'
        BY <1>1, <1>5 DEF AdmissionTypes, Remembered, WitnessMined, NoRemineSoon
    <2>2. OneReads'
        BY <1>1, <1>2, <1>5 DEF OneReads, Busy
    <2> QED
        BY <2>1, <2>2 DEF AdmissionInv
<1>6. ASSUME NEW w \in MineWing, MineBlocks(w) PROVE AdmissionInv'
    <2> DEFINE p == [Off EXCEPT !.pc = "wait", !.wing = w]
    <2>1. p \in Mine(content) /\ p.pc = "wait" /\ p.wing = w
        BY <1>2, AdmissionConstants
    <2>2. blocking' = p
        BY <1>6 DEF MineBlocks
    <2> HIDE DEF p
    <2> QED
        BY <1>5, <1>6, <2>1, <2>2 DEF MineBlocks, Busy
<1>7. ASSUME BlockingStarts PROVE AdmissionInv'
    <2> DEFINE p == [blocking EXCEPT !.pc = "run"]
    <2>1. p \in Mine(content) /\ p.pc = "run" /\ p.wing = blocking.wing
        BY <1>3 DEF Mine, MinePc
    <2>2. blocking' = p /\ ~Busy(drain) /\ blocking.pc = "wait"
        BY <1>7 DEF BlockingStarts
    <2>3. blocking.wing \in MineWing
        BY <1>1, <2>2 DEF OneReads
    <2> HIDE DEF p
    <2> QED
        BY <1>5, <1>7, <2>1, <2>2, <2>3 DEF BlockingStarts
<1>8. ASSUME BlockingReads PROVE AdmissionInv'
    <2> DEFINE p == [blocking EXCEPT !.pc = "read", !.read = content]
    <2>1. p \in Mine(content) /\ p.pc = "read" /\ p.wing = blocking.wing /\ p.read = content
        BY <1>3 DEF Mine, MinePc
    <2>2. blocking' = p /\ blocking.pc = "run"
        BY <1>8 DEF BlockingReads
    <2>3. blocking.wing \in MineWing /\ ~Busy(drain)
        BY <1>1, <2>2 DEF OneReads, Busy
    <2> HIDE DEF p
    <2> QED
        BY <1>5, <1>8, <2>1, <2>2, <2>3 DEF BlockingReads
<1>9. ASSUME NEW ok \in BOOLEAN, BlockingEnds(ok) PROVE AdmissionInv'
    <2>1. /\ blocking.pc = "read" /\ blocking' = Off
          /\ palace' = palace \/ palace' = [palace EXCEPT ![blocking.wing] = blocking.read]
          /\ UNCHANGED <<mineClock, target, content, known, stored, waiting, drain, drainedAt, forgot>>
        BY <1>9 DEF BlockingEnds
    <2>2. blocking.wing \in MineWing /\ ~Busy(drain) /\ \A w \in MineWing : palace[w] <= blocking.read
        BY <1>1, <2>1 DEF OneReads, Busy
    <2>3. palace' \in [MineWing -> 0..content] /\ \A w \in MineWing : palace'[w] >= palace[w]
        BY <1>1, <1>2, <2>1, <2>2 DEF AdmissionTypes
    <2>4. Off \in Mine(content) /\ Off.pc = "off"
        BY <1>2, AdmissionConstants
    <2>5. AdmissionTypes' /\ Remembered' /\ NoRemineSoon'
        BY <1>1, <2>1, <2>3, <2>4 DEF AdmissionTypes, Remembered, NoRemineSoon
    <2>6. OneReads'
        BY <1>1, <2>1, <2>2, <2>4 DEF OneReads, Busy
    <2>7. WitnessMined'
        <3> SUFFICES ASSUME NEW record \in {known, stored} PROVE \E w \in MineWing : palace'[w] >= record.version
            BY <2>1 DEF WitnessMined
        <3>1. PICK w \in MineWing : palace[w] >= record.version
            BY <1>1 DEF WitnessMined
        <3>2. palace'[w] \in Nat /\ palace[w] \in Nat /\ record.version \in Nat
            BY <1>2, <2>3
        <3> QED
            BY <2>3, <3>1, <3>2
    <2> QED
        BY <2>5, <2>6, <2>7 DEF AdmissionInv
<1>10. ASSUME NEW p \in Mine(content), drain' = p, waiting' \subseteq MineWing,
              UNCHANGED <<mineClock, target, content, palace, stored, blocking, drainedAt, forgot>>,
              known' = known \/ known' = stored,
              p.pc # "off" /\ drain.pc = "off" => known' = stored,
              drain.pc # "off" => known' = known,
              p.pc \in {"wait", "run", "read"} => p.wing \in MineWing,
              Busy(p) => ~Busy(blocking),
              p.pc = "read" => p.read = content,
              p.pc = "wait" /\ target.mode # "projects" /\ ~forgot => mineClock - drainedAt >= MineInterval
       PROVE  AdmissionInv'
    <2>1. AdmissionTypes'
        BY <1>1, <1>10 DEF AdmissionTypes
    <2>2. Remembered'
        BY <1>1, <1>10 DEF Remembered
    <2>3. WitnessMined' /\ NoRemineSoon'
        BY <1>1, <1>10 DEF WitnessMined, NoRemineSoon
    <2>4. p.witness \in 0..content
        BY DEF Mine
    <2>5. OneReads'
        BY <1>1, <1>2, <1>10, <2>4 DEF OneReads, Busy
    <2> QED
        BY <2>1, <2>2, <2>3, <2>5 DEF AdmissionInv
<1>11. /\ Off \in Mine(content) /\ Off.pc = "off"
       /\ [Off EXCEPT !.pc = "pass"] \in Mine(content) /\ [Off EXCEPT !.pc = "pass"].pc = "pass"
       /\ waiting \subseteq MineWing
    BY <1>1, <1>2, AdmissionConstants DEF AdmissionTypes
<1>12. ASSUME PassBegins PROVE AdmissionInv'
    BY <1>10, <1>11, <1>12 DEF PassBegins, Busy
<1>13. ASSUME PassEnds PROVE AdmissionInv'
    BY <1>10, <1>11, <1>13 DEF PassEnds, Busy
<1>14. ASSUME NEW w \in MineWing, EntryTaken(w) PROVE AdmissionInv'
    <2> DEFINE p == [pc |-> "wait", wing |-> w, witness |-> IF HasWitness THEN content ELSE 0, read |-> 0]
    <2>1. p \in Mine(content) /\ p.pc = "wait" /\ p.wing = w
        BY <1>2 DEF Mine, MinePc
    <2>2. drain' = p /\ drain.pc = "pass" /\ waiting' = waiting \ {w} /\ ~RecentlyMined
        BY <1>14 DEF EntryTaken
    <2> HIDE DEF p
    <2>3. ASSUME target.mode # "projects", ~forgot PROVE mineClock - drainedAt >= MineInterval
        <3>1. known = stored /\ stored.at = drainedAt /\ drainedAt >= 1
            BY <1>1, <2>2, <2>3 DEF Remembered
        <3>2. known # Nothing
            BY <1>2, <3>1 DEF Nothing
        <3> QED
            BY <1>2, <2>2, <2>3, <3>1, <3>2 DEF RecentlyMined
    <2> QED
        BY <1>10, <1>11, <1>14, <2>1, <2>2, <2>3 DEF EntryTaken, Busy
<1>15. ASSUME DrainStarts PROVE AdmissionInv'
    <2> DEFINE p == [drain EXCEPT !.pc = "run"]
    <2>1. p \in Mine(content) /\ p.pc = "run" /\ p.wing = drain.wing
        BY <1>3 DEF Mine, MinePc
    <2>2. drain' = p /\ ~Busy(blocking) /\ drain.pc = "wait"
        BY <1>15 DEF DrainStarts
    <2>3. drain.wing \in MineWing
        BY <1>1, <2>2 DEF OneReads
    <2> HIDE DEF p
    <2> QED
        BY <1>10, <1>11, <1>15, <2>1, <2>2, <2>3 DEF DrainStarts
<1>16. ASSUME DrainReads PROVE AdmissionInv'
    <2> DEFINE p == [drain EXCEPT !.pc = "read", !.read = content]
    <2>1. p \in Mine(content) /\ p.pc = "read" /\ p.wing = drain.wing /\ p.read = content
        BY <1>3 DEF Mine, MinePc
    <2>2. drain' = p /\ drain.pc = "run"
        BY <1>16 DEF DrainReads
    <2>3. drain.wing \in MineWing /\ ~Busy(blocking)
        BY <1>1, <2>2 DEF OneReads, Busy
    <2> HIDE DEF p
    <2> QED
        BY <1>10, <1>11, <1>16, <2>1, <2>2, <2>3 DEF DrainReads
<1>17. ASSUME NEW lock \in BOOLEAN, DrainFails(lock) PROVE AdmissionInv'
    <2>1. drain.pc \in {"run", "read"} /\ drain.wing \in MineWing
        BY <1>1, <1>17 DEF DrainFails, Busy, OneReads
    <2>2. waiting' \subseteq MineWing
        BY <1>11, <1>17, <2>1 DEF DrainFails
    <2> QED
        BY <1>10, <1>11, <1>17, <2>1, <2>2 DEF DrainFails, Busy
<1>18. ASSUME NEW saved \in BOOLEAN, DrainEnds(saved) PROVE AdmissionInv'
    <2> DEFINE r == Record
    <2>1. /\ drain.pc = "read" /\ drain' = [Off EXCEPT !.pc = "pass"]
          /\ palace' = [palace EXCEPT ![drain.wing] = drain.read]
          /\ known' = r /\ stored' \in {r, stored}
          /\ drainedAt' = mineClock /\ forgot' \in BOOLEAN
          /\ ~forgot' => saved /\ HasWitness
          /\ saved => stored' = r
          /\ UNCHANGED <<mineClock, target, content, waiting, blocking>>
        BY <1>18 DEF DrainEnds
    <2>2. /\ drain.wing \in MineWing /\ ~Busy(blocking) /\ drain.witness <= drain.read
          /\ \A w \in MineWing : palace[w] <= drain.read
        BY <1>1, <2>1 DEF OneReads, Busy
    <2>3. /\ palace' \in [MineWing -> 0..content] /\ \A w \in MineWing : palace'[w] >= palace[w]
          /\ palace'[drain.wing] = drain.read
        BY <1>1, <1>2, <2>1, <2>2 DEF AdmissionTypes
    <2>4. /\ r \in MinedRecord(content, mineClock)
          /\ r = known \/ r.version = drain.witness
          /\ HasWitness => r.at = mineClock
        BY <1>1, <1>2 DEF AdmissionTypes, Record, MinedRecord
    <2> HIDE DEF r
    <2>5. AdmissionTypes'
        BY <1>1, <1>2, <1>11, <2>1, <2>3, <2>4 DEF AdmissionTypes
    <2>6. OneReads'
        BY <1>1, <1>11, <2>1, <2>2 DEF OneReads, Busy
    <2>7. Remembered' /\ NoRemineSoon'
        BY <1>2, <1>11, <2>1, <2>4 DEF Remembered, NoRemineSoon
    <2>8. \A record \in {known, stored} : \E w \in MineWing : palace'[w] >= record.version
        <3> SUFFICES ASSUME NEW record \in {known, stored} PROVE \E w \in MineWing : palace'[w] >= record.version
            OBVIOUS
        <3>1. PICK w \in MineWing : palace[w] >= record.version
            BY <1>1 DEF WitnessMined
        <3>2. palace'[w] \in Nat /\ palace[w] \in Nat /\ record.version \in Nat
            BY <1>2, <2>3
        <3> QED
            BY <2>3, <3>1, <3>2
    <2>9. \E w \in MineWing : palace'[w] >= r.version
        BY <1>2, <2>2, <2>3, <2>4, <2>8
    <2>10. WitnessMined'
        BY <2>1, <2>8, <2>9 DEF WitnessMined
    <2> QED
        BY <2>5, <2>6, <2>7, <2>10 DEF AdmissionInv
<1>19. Nothing \in MinedRecord(content, mineClock) /\ \E w \in MineWing : palace[w] >= Nothing.version
    <2>1. Nothing \in MinedRecord(content, mineClock) /\ Nothing.version = 0
        BY <1>2, AdmissionConstants
    <2>2. PICK w \in MineWing : TRUE
        BY MineAssumption
    <2>3. palace[w] >= 0
        BY <1>2, <2>2
    <2> QED
        BY <2>1, <2>2, <2>3
<1>20. ASSUME Restart PROVE AdmissionInv'
    <2>1. /\ drain' = Off /\ blocking' = Off /\ known' = Nothing /\ waiting' \subseteq MineWing
          /\ UNCHANGED <<mineClock, target, content, palace, stored, drainedAt, forgot>>
        BY <1>2, <1>11, <1>20 DEF Restart
    <2>2. AdmissionTypes'
        BY <1>1, <1>11, <1>19, <2>1 DEF AdmissionTypes
    <2>3. OneReads' /\ Remembered' /\ NoRemineSoon'
        BY <1>1, <1>11, <2>1 DEF OneReads, Busy, Remembered, NoRemineSoon
    <2>4. WitnessMined'
        BY <1>1, <1>19, <2>1 DEF WitnessMined
    <2> QED
        BY <2>2, <2>3, <2>4 DEF AdmissionInv
<1>21. ASSUME RecordLost PROVE AdmissionInv'
    <2>1. /\ stored' = Nothing /\ forgot' \in BOOLEAN /\ forgot'
          /\ UNCHANGED <<mineClock, target, content, palace, known, waiting, drain, blocking, drainedAt>>
        BY <1>21 DEF RecordLost
    <2>2. AdmissionTypes'
        BY <1>1, <1>19, <2>1 DEF AdmissionTypes
    <2>3. OneReads' /\ Remembered' /\ NoRemineSoon'
        BY <1>1, <2>1 DEF OneReads, Remembered, NoRemineSoon, Busy
    <2>4. WitnessMined'
        BY <1>1, <1>19, <2>1 DEF WitnessMined
    <2> QED
        BY <2>2, <2>3, <2>4 DEF AdmissionInv
<1>22. ASSUME SourceGrows PROVE AdmissionInv'
    <2>1. /\ content' = content + 1 /\ content < MaxContent
          /\ UNCHANGED <<mineClock, target, palace, known, stored, waiting, drain, blocking, drainedAt, forgot>>
        BY <1>22 DEF SourceGrows
    <2>2. content' \in 1..MaxContent /\ \A n \in 0..content : n \in 0..content'
        BY <1>2, <2>1, MineAssumption
    <2>3. AdmissionTypes'
        BY <1>1, <2>1, <2>2 DEF AdmissionTypes, Mine, MinedRecord
    <2>4. OneReads' /\ Remembered' /\ NoRemineSoon' /\ WitnessMined'
        BY <1>1, <2>1 DEF OneReads, Busy, Remembered, NoRemineSoon, WitnessMined
    <2> QED
        BY <2>3, <2>4 DEF AdmissionInv
<1>23. ASSUME MineClockTicks PROVE AdmissionInv'
    <2>1. /\ mineClock' = mineClock + 1 /\ mineClock < MaxMineClock
          /\ UNCHANGED <<target, content, palace, known, stored, waiting, drain, blocking, drainedAt, forgot>>
        BY <1>23 DEF MineClockTicks
    <2>2. mineClock' \in 1..MaxMineClock /\ \A n \in 0..mineClock : n \in 0..mineClock'
        BY <1>2, <2>1, MineAssumption
    <2>3. AdmissionTypes'
        BY <1>1, <2>1, <2>2 DEF AdmissionTypes, MinedRecord
    <2>4. OneReads' /\ Remembered' /\ WitnessMined'
        BY <1>1, <2>1 DEF OneReads, Busy, Remembered, WitnessMined
    <2>5. NoRemineSoon'
        BY <1>1, <1>2, <2>1 DEF NoRemineSoon
    <2> QED
        BY <2>3, <2>4, <2>5 DEF AdmissionInv
<1>24. CASE UNCHANGED mineVars
    BY <1>1, <1>24 DEF mineVars, AdmissionInv, AdmissionTypes, OneReads, Busy, Remembered, WitnessMined,
                       NoRemineSoon
<1>25. CASE MineNext
    BY <1>4, <1>6, <1>7, <1>8, <1>9, <1>12, <1>13, <1>14, <1>15, <1>16, <1>17, <1>18, <1>20, <1>21,
       <1>22, <1>23, <1>25 DEF MineNext
<1> QED
    BY <1>24, <1>25

\* A source is mined again only when due, and never skipped for what no mine has
\* read, however posts, passes, growth and restarts fall (_source_witness() and
\* the mined-state file).
THEOREM AdmissionCorrectHolds == MineSpec => []AdmissionCorrect
<1>1. ASSUME MineInit PROVE AdmissionInv
    <2>1. /\ content = 1 /\ mineClock = 1 /\ 1 \in Nat /\ 1 \in 1..MaxContent /\ 1 \in 1..MaxMineClock
          /\ 0 \in 0..1
        BY <1>1, MineAssumption DEF MineInit
    <2>2. /\ Nothing \in MinedRecord(1, 1) /\ Nothing.version = 0 /\ Off \in Mine(1) /\ Off.pc = "off"
        BY <2>1, AdmissionConstants
    <2>3. AdmissionTypes
        <3>1. forgot \in BOOLEAN /\ Mineable(target) /\ known = Nothing /\ stored = Nothing
            BY <1>1 DEF MineInit
        <3>2. palace \in [MineWing -> 0..1] /\ waiting \subseteq MineWing /\ drain = Off /\ blocking = Off
              /\ drainedAt \in 0..1
            BY <1>1, <2>1 DEF MineInit
        <3> QED
            BY <2>1, <2>2, <3>1, <3>2 DEF AdmissionTypes
    <2>4. OneReads /\ NoRemineSoon
        BY <1>1, <2>2 DEF MineInit, OneReads, Busy, NoRemineSoon
    <2>5. Remembered
        BY <1>1 DEF MineInit, Remembered
    <2>6. WitnessMined
        BY <1>1, <2>2, MineAssumption DEF MineInit, WitnessMined
    <2> QED
        BY <2>3, <2>4, <2>5, <2>6 DEF AdmissionInv
<1>2. AdmissionInv => AdmissionCorrect
    BY AdmissionTyped DEF AdmissionInv, AdmissionCorrect
<1> QED
    BY <1>1, <1>2, NextAdmission, PTL DEF MineSpec

-----------------------------------------------------------------------------
(* BenchLock                                                               *)

BenchPlaces ==
    {"idle", "count", "touch first", "touch", "stop model", "held", "recount", "rmdir", "start model"}
Holding == {"stop model", "held"}

\* A runner that holds the lock and whose marker has never been stale has its
\* marker in the directory.
HoldersMarked ==
    \A b \in Bench : bench[b] \in Holding /\ b \notin lapsed => shape = "dir" /\ mark[b] # Absent

\* What is stale, or was when the daemon looked, is known to have been.
StaleIsLapsed ==
    /\ \A b \in Bench : mark[b] # Absent /\ Stale(b) => b \in lapsed
    /\ doomed \cap Bench \subseteq lapsed

\* Unless something has left a marker behind, a marker is of a runner that holds
\* the lock.
MarkersOwned ==
    /\ shape = "none" => mark[Legacy] = Absent
    /\ ~spoilt /\ shape = "dir" => mark[Legacy] = Absent
    /\ ~spoilt => mark[OtherPid] = Absent /\ \A b \in Bench : mark[b] # Absent => bench[b] \in Holding

\* Unless ..., while the model is down a runner holds the lock or is about to
\* start the model.
SomeoneRestores ==
    ~spoilt /\ model = "down" =>
        \E b \in Bench : bench[b] \in Holding \cup {"recount", "rmdir", "start model"}

BenchInv ==
    /\ BenchTypeOK /\ bench \in [Bench -> BenchPlaces]
    /\ HoldersMarked /\ StaleIsLapsed /\ MarkersOwned /\ SomeoneRestores

\* The names of the markers are apart.
LEMMA MarkerNames ==
    /\ Legacy \notin Bench /\ OtherPid \notin Bench /\ OtherPid # Legacy
    /\ Legacy \in Marker /\ OtherPid \in Marker /\ Bench \subseteq Marker
<1>1. Legacy \notin Bench /\ OtherPid \notin Bench /\ OtherPid # Legacy
    BY MarkerAssumption DEF Legacy, OtherPid
<1> QED
    BY <1>1 DEF Marker

\* A count that is not 0 has counted something (_reap_and_count()).
LEMMA SomethingLive ==
    ASSUME LiveCount # 0
    PROVE  \E m \in Marker : Live(m)
<1>1. Cardinality({}) = 0
    BY FS_EmptySet
<1>2. {m \in Marker : Live(m)} # {}
    BY <1>1 DEF LiveCount
<1> QED
    BY <1>2

\* The reaping of stale markers harms no runner whose marker has been fresh.
LEMMA ReapingSafe ==
    ASSUME BenchInv
    PROVE  /\ Reaped \in [Marker -> {Absent} \cup 0..time]
           /\ \A m \in Marker : Reaped[m] # Absent => mark[m] # Absent /\ Reaped[m] = mark[m]
           /\ \A b \in Bench : b \notin lapsed => Reaped[b] = mark[b]
<1>1. mark \in [Marker -> {Absent} \cup 0..time] /\ Bench \subseteq Marker
    BY DEF BenchInv, BenchTypeOK, Marker
<1>2. \A m \in Marker : Reaped[m] = IF Live(m) THEN mark[m] ELSE Absent
    BY DEF Reaped
<1>3. \A b \in Bench : b \notin lapsed /\ mark[b] # Absent => Live(b)
    BY DEF BenchInv, StaleIsLapsed, Live
<1> QED
    BY <1>1, <1>2, <1>3 DEF Reaped

\* The inductive step, the commands of a runner one by one.
LEMMA BenchRunnerStep ==
    ASSUME BenchInv, NEW b \in Bench, Acquire(b) \/ Release(b) \/ Heartbeat(b) \/ BenchCrashes(b)
    PROVE  BenchInv'
<1>1. /\ BenchTypeOK /\ bench \in [Bench -> BenchPlaces]
      /\ HoldersMarked /\ StaleIsLapsed /\ MarkersOwned /\ SomeoneRestores
    BY DEF BenchInv
<1>2. /\ shape \in {"none", "file", "dir"} /\ model \in {"up", "down"} /\ oldRunner \in {"idle", "held"}
      /\ mark \in [Marker -> {Absent} \cup 0..time] /\ doomed \subseteq Marker
      /\ shape # "dir" => \A c \in Bench \cup {OtherPid} : mark[c] = Absent
      /\ time \in 0..MaxTime /\ lapsed \subseteq Bench /\ spoilt \in BOOLEAN
    BY <1>1 DEF BenchTypeOK
<1>3. /\ time \in Nat /\ MaxAge \in Nat /\ Legacy \notin Bench /\ Legacy \in Marker /\ Bench \subseteq Marker
      /\ OtherPid \notin Bench /\ OtherPid # Legacy /\ OtherPid \in Marker
    <2>1. time \in Nat /\ MaxAge \in Nat
        BY <1>2, BenchAssumption
    <2> QED
        BY <2>1, MarkerNames
<1>4. CASE MakeDir(b)
    <2>1. /\ bench[b] = "idle" /\ bench' = [bench EXCEPT ![b] = "count"] /\ shape' = "dir"
          /\ spoilt' \in BOOLEAN /\ (spoilt' <=> (spoilt \/ shape = "file"))
          /\ UNCHANGED <<mark, model, oldRunner, doomed, time, lapsed>>
        BY <1>2, <1>4 DEF MakeDir, BenchAt, BenchGoes
    <2>2. BenchTypeOK' /\ bench' \in [Bench -> BenchPlaces]
        BY <1>1, <1>2, <2>1 DEF BenchTypeOK, BenchPlaces
    <2>3. HoldersMarked' /\ StaleIsLapsed'
        BY <1>1, <2>1 DEF HoldersMarked, StaleIsLapsed, Stale, Holding
    <2>4. MarkersOwned'
        BY <1>1, <1>2, <2>1 DEF MarkersOwned, Holding
    <2>5. SomeoneRestores'
        BY <1>1, <2>1 DEF SomeoneRestores, Holding
    <2> QED
        BY <2>2, <2>3, <2>4, <2>5 DEF BenchInv
<1>5. CASE CountBefore(b) \/ CountAfter(b)
    <2>1. PICK pc \in {"touch first", "touch", "rmdir", "idle"} :
          /\ bench' = [bench EXCEPT ![b] = pc] /\ bench[b] \in {"count", "recount"}
          /\ bench[b] = "count" => pc \in {"touch first", "touch"}
          /\ bench[b] = "recount" => pc \in {"rmdir", "idle"}
          /\ pc = "idle" => shape = "dir" /\ LiveCount # 0
          /\ mark' = IF shape = "dir" THEN Reaped ELSE mark
          /\ UNCHANGED <<shape, model, oldRunner, doomed, time, lapsed, spoilt>>
        BY <1>5 DEF CountBefore, CountAfter, BenchAt, BenchGoes
    <2>2. /\ mark' \in [Marker -> {Absent} \cup 0..time]
          /\ \A m \in Marker : mark'[m] # Absent => mark[m] # Absent /\ mark'[m] = mark[m]
          /\ \A c \in Bench : c \notin lapsed => mark'[c] = mark[c]
        BY <1>2, <2>1, ReapingSafe
    <2>3. BenchTypeOK' /\ bench' \in [Bench -> BenchPlaces]
        <3>1. shape' # "dir" => \A c \in Bench \cup {OtherPid} : mark'[c] = Absent
            BY <1>2, <1>3, <2>1, <2>2
        <3>2. bench' \in [Bench -> BenchPlaces]
            BY <1>1, <2>1 DEF BenchPlaces
        <3> QED
            BY <1>2, <2>1, <2>2, <3>1, <3>2 DEF BenchTypeOK
    <2>4. HoldersMarked' /\ StaleIsLapsed'
        BY <1>1, <1>3, <2>1, <2>2 DEF HoldersMarked, StaleIsLapsed, Stale, Holding
    <2>5. MarkersOwned'
        BY <1>1, <1>3, <2>1, <2>2 DEF MarkersOwned, Holding
    <2>6. SomeoneRestores'
        <3>1. CASE pc # "idle"
            BY <1>1, <2>1, <3>1 DEF SomeoneRestores, Holding
        <3>2. ASSUME pc = "idle", ~spoilt PROVE \E c \in Bench : bench'[c] \in Holding
            <4>1. PICK m \in Marker : Live(m)
                BY <2>1, <3>2, SomethingLive
            <4>2. m \in Bench /\ bench[m] \in Holding
                BY <1>1, <2>1, <3>2, <4>1 DEF Live, MarkersOwned, Marker
            <4>3. m # b /\ bench'[m] = bench[m]
                BY <1>1, <2>1, <4>2 DEF Holding
            <4> QED
                BY <4>2, <4>3
        <3> QED
            BY <2>1, <3>1, <3>2 DEF SomeoneRestores
    <2> QED
        BY <2>3, <2>4, <2>5, <2>6 DEF BenchInv
<1>6. CASE TouchMarker(b)
    <2>1. /\ bench[b] \in {"touch", "touch first"}
          /\ UNCHANGED <<shape, model, oldRunner, doomed, time, lapsed, spoilt>>
        BY <1>6 DEF TouchMarker
    <2>2. CASE shape # "dir"
        <3>1. bench' = [bench EXCEPT ![b] = "idle"] /\ mark' = mark
            BY <1>6, <2>2 DEF TouchMarker, BenchGoes
        <3>2. BenchTypeOK' /\ bench' \in [Bench -> BenchPlaces]
            BY <1>1, <1>2, <2>1, <3>1 DEF BenchTypeOK, BenchPlaces
        <3>3. HoldersMarked' /\ StaleIsLapsed'
            BY <1>1, <2>1, <3>1 DEF HoldersMarked, StaleIsLapsed, Stale, Holding
        <3>4. MarkersOwned' /\ SomeoneRestores'
            BY <1>1, <2>1, <3>1 DEF MarkersOwned, SomeoneRestores, Holding
        <3> QED
            BY <3>2, <3>3, <3>4 DEF BenchInv
    <2>3. CASE shape = "dir"
        <3>1. PICK pc \in Holding : bench' = [bench EXCEPT ![b] = pc] /\ mark' = [mark EXCEPT ![b] = time]
            BY <1>6, <2>3 DEF TouchMarker, BenchGoes, Holding
        <3>2. /\ mark' \in [Marker -> {Absent} \cup 0..time] /\ mark'[b] = time /\ time # Absent
              /\ \A m \in Marker : m # b => mark'[m] = mark[m]
            BY <1>2, <1>3, <3>1 DEF Absent
        <3>3. BenchTypeOK' /\ bench' \in [Bench -> BenchPlaces]
            BY <1>1, <1>2, <2>1, <2>3, <3>1, <3>2 DEF BenchTypeOK, BenchPlaces, Holding
        <3>4. HoldersMarked'
            BY <1>1, <1>3, <2>1, <2>3, <3>1, <3>2 DEF HoldersMarked
        <3>5. StaleIsLapsed'
            <4>1. ~(time - time > MaxAge)
                BY <1>3
            <4> QED
                BY <1>1, <1>3, <2>1, <3>2, <4>1 DEF StaleIsLapsed, Stale
        <3>6. MarkersOwned'
            BY <1>1, <1>3, <2>1, <3>1, <3>2 DEF MarkersOwned
        <3>7. SomeoneRestores'
            BY <1>1, <3>1 DEF SomeoneRestores
        <3> QED
            BY <3>3, <3>4, <3>5, <3>6, <3>7 DEF BenchInv
    <2> QED
        BY <2>2, <2>3
<1>7. CASE StopModel(b)
    <2>1. /\ bench[b] = "stop model" /\ bench' = [bench EXCEPT ![b] = "held"] /\ model' \in {"up", "down"}
          /\ UNCHANGED <<shape, mark, oldRunner, doomed, time, lapsed, spoilt>>
        BY <1>2, <1>7 DEF StopModel, BenchAt, BenchGoes
    <2>2. BenchTypeOK' /\ bench' \in [Bench -> BenchPlaces]
        BY <1>1, <1>2, <2>1 DEF BenchTypeOK, BenchPlaces
    <2>3. HoldersMarked' /\ StaleIsLapsed'
        BY <1>1, <2>1 DEF HoldersMarked, StaleIsLapsed, Stale, Holding
    <2>4. MarkersOwned' /\ SomeoneRestores'
        BY <1>1, <2>1 DEF MarkersOwned, SomeoneRestores, Holding
    <2> QED
        BY <2>2, <2>3, <2>4 DEF BenchInv
<1>8. CASE RemoveMarker(b)
    <2>1. /\ bench[b] = "held"
          /\ UNCHANGED <<model, oldRunner, doomed, time, lapsed, spoilt>>
        BY <1>8 DEF RemoveMarker, BenchAt
    <2>2. PICK pc \in {"recount", "start model"} : bench' = [bench EXCEPT ![b] = pc]
        BY <1>8 DEF RemoveMarker, BenchGoes
    <2>3. CASE shape = "dir"
        <3>1. shape' = "dir" /\ mark' = [mark EXCEPT ![b] = Absent]
            BY <1>8, <2>3 DEF RemoveMarker
        <3>2. BenchTypeOK' /\ bench' \in [Bench -> BenchPlaces]
            BY <1>1, <1>2, <1>3, <2>1, <2>2, <3>1 DEF BenchTypeOK, BenchPlaces
        <3>3. HoldersMarked'
            BY <1>1, <1>2, <1>3, <2>1, <2>2, <3>1 DEF HoldersMarked, Holding
        <3>4. StaleIsLapsed'
            BY <1>1, <1>2, <1>3, <2>1, <3>1 DEF StaleIsLapsed, Stale
        <3>5. MarkersOwned' /\ SomeoneRestores'
            BY <1>1, <1>2, <1>3, <2>1, <2>2, <2>3, <3>1 DEF MarkersOwned, SomeoneRestores, Holding
        <3> QED
            BY <3>2, <3>3, <3>4, <3>5 DEF BenchInv
    <2>4. CASE shape # "dir"
        <3>1. /\ shape' = "none" /\ mark' \in [Marker -> {Absent} \cup 0..time] /\ mark'[Legacy] = Absent
              /\ \A c \in Bench \cup {OtherPid} : mark'[c] = Absent
            <4>1. CASE shape = "none"
                BY <1>1, <1>2, <1>8, <2>4, <4>1 DEF RemoveMarker, MarkersOwned
            <4>2. CASE shape # "none"
                BY <1>2, <1>3, <1>8, <2>4, <4>2 DEF RemoveMarker
            <4> QED
                BY <4>1, <4>2
        <3>2. BenchTypeOK' /\ bench' \in [Bench -> BenchPlaces]
            BY <1>1, <1>2, <2>1, <2>2, <3>1 DEF BenchTypeOK, BenchPlaces
        <3>3. HoldersMarked'
            BY <1>1, <2>1, <2>2, <2>4, <3>1 DEF HoldersMarked, Holding
        <3>4. StaleIsLapsed'
            BY <1>1, <2>1, <3>1 DEF StaleIsLapsed
        <3>5. MarkersOwned' /\ SomeoneRestores'
            BY <1>1, <2>1, <2>2, <3>1 DEF MarkersOwned, SomeoneRestores, Holding
        <3> QED
            BY <3>2, <3>3, <3>4, <3>5 DEF BenchInv
    <2> QED
        BY <2>3, <2>4
<1>9. CASE RemoveDir(b)
    <2>1. /\ bench[b] = "rmdir" /\ bench' = [bench EXCEPT ![b] = "start model"]
          /\ shape' = IF shape = "dir" /\ \A m \in Marker : mark[m] = Absent THEN "none" ELSE shape
          /\ UNCHANGED <<mark, model, oldRunner, doomed, time, lapsed, spoilt>>
        BY <1>9 DEF RemoveDir, BenchAt, BenchGoes
    <2>2. BenchTypeOK' /\ bench' \in [Bench -> BenchPlaces]
        BY <1>1, <1>2, <1>3, <2>1 DEF BenchTypeOK, BenchPlaces
    <2>3. HoldersMarked' /\ StaleIsLapsed'
        BY <1>1, <1>3, <2>1 DEF HoldersMarked, StaleIsLapsed, Stale, Holding
    <2>4. MarkersOwned' /\ SomeoneRestores'
        BY <1>1, <1>3, <2>1 DEF MarkersOwned, SomeoneRestores, Holding
    <2> QED
        BY <2>2, <2>3, <2>4 DEF BenchInv
<1>10. CASE StartModel(b)
    <2>1. /\ bench[b] = "start model" /\ bench' = [bench EXCEPT ![b] = "idle"] /\ model' = "up"
          /\ UNCHANGED <<shape, mark, oldRunner, doomed, time, lapsed, spoilt>>
        BY <1>10 DEF StartModel, BenchAt, BenchGoes
    <2>2. BenchTypeOK' /\ bench' \in [Bench -> BenchPlaces]
        BY <1>1, <1>2, <2>1 DEF BenchTypeOK, BenchPlaces
    <2>3. HoldersMarked' /\ StaleIsLapsed'
        BY <1>1, <2>1 DEF HoldersMarked, StaleIsLapsed, Stale, Holding
    <2>4. MarkersOwned' /\ SomeoneRestores'
        BY <1>1, <2>1 DEF MarkersOwned, SomeoneRestores, Holding
    <2> QED
        BY <2>2, <2>3, <2>4 DEF BenchInv
<1>11. CASE Heartbeat(b)
    <2>1. /\ bench[b] = "held" /\ mark[b] # Absent /\ mark' = [mark EXCEPT ![b] = time]
          /\ UNCHANGED <<shape, model, bench, oldRunner, doomed, time, lapsed, spoilt>>
        BY <1>11 DEF Heartbeat, BenchAt
    <2>2. /\ mark' \in [Marker -> {Absent} \cup 0..time] /\ mark'[b] = time /\ time # Absent
          /\ shape = "dir" /\ \A m \in Marker : m # b => mark'[m] = mark[m]
        BY <1>2, <1>3, <2>1 DEF Absent
    <2>3. BenchTypeOK' /\ bench' \in [Bench -> BenchPlaces]
        BY <1>1, <1>2, <2>1, <2>2 DEF BenchTypeOK
    <2>4. HoldersMarked' /\ MarkersOwned' /\ SomeoneRestores'
        BY <1>1, <1>3, <2>1, <2>2 DEF HoldersMarked, MarkersOwned, SomeoneRestores, Holding
    <2>5. StaleIsLapsed'
        <3>1. ~(time - time > MaxAge)
            BY <1>3
        <3> QED
            BY <1>1, <1>3, <2>1, <2>2, <3>1 DEF StaleIsLapsed, Stale
    <2> QED
        BY <2>3, <2>4, <2>5 DEF BenchInv
<1>12. CASE BenchCrashes(b)
    <2>1. /\ bench' = [bench EXCEPT ![b] = "idle"] /\ spoilt' \in BOOLEAN /\ spoilt'
          /\ UNCHANGED <<shape, mark, model, oldRunner, doomed, time, lapsed>>
        BY <1>12 DEF BenchCrashes, BenchGoes
    <2>2. BenchTypeOK' /\ bench' \in [Bench -> BenchPlaces]
        BY <1>1, <1>2, <2>1 DEF BenchTypeOK, BenchPlaces
    <2>3. HoldersMarked' /\ StaleIsLapsed'
        BY <1>1, <2>1 DEF HoldersMarked, StaleIsLapsed, Stale, Holding
    <2>4. MarkersOwned' /\ SomeoneRestores'
        BY <1>1, <2>1 DEF MarkersOwned, SomeoneRestores
    <2> QED
        BY <2>2, <2>3, <2>4 DEF BenchInv
<1>13. CASE LeaveMarker(b)
    <2>1. /\ bench[b] = "held" /\ bench' = [bench EXCEPT ![b] = "recount"] /\ shape = "dir"
          /\ mark[b] \in {Absent} \cup 0..time /\ mark[OtherPid] \in {Absent} \cup 0..time
          /\ spoilt' \in BOOLEAN /\ spoilt'
          /\ UNCHANGED <<shape, model, oldRunner, doomed, time, lapsed>>
        BY <1>2, <1>3, <1>13 DEF LeaveMarker, BenchAt, BenchGoes
    <2>2. PICK n \in {Absent} \cup 0..time : mark' = [mark EXCEPT ![b] = Absent, ![OtherPid] = n]
        BY <1>3, <1>13, <2>1 DEF LeaveMarker
    <2>3. /\ mark' \in [Marker -> {Absent} \cup 0..time] /\ mark'[b] = Absent
          /\ \A c \in Bench \ {b} : mark'[c] = mark[c]
        BY <1>2, <1>3, <2>2
    <2>4. BenchTypeOK' /\ bench' \in [Bench -> BenchPlaces]
        BY <1>1, <1>2, <2>1, <2>3 DEF BenchTypeOK, BenchPlaces
    <2>5. HoldersMarked'
        BY <1>1, <2>1, <2>3 DEF HoldersMarked, Holding
    <2>6. StaleIsLapsed'
        BY <1>1, <2>1, <2>3 DEF StaleIsLapsed, Stale
    <2>7. MarkersOwned' /\ SomeoneRestores'
        BY <2>1 DEF MarkersOwned, SomeoneRestores
    <2> QED
        BY <2>4, <2>5, <2>6, <2>7 DEF BenchInv
<1>14. CASE StartFails(b)
    <2>1. /\ bench' = [bench EXCEPT ![b] = "idle"] /\ spoilt' \in BOOLEAN /\ spoilt'
          /\ UNCHANGED <<shape, mark, model, oldRunner, doomed, time, lapsed>>
        BY <1>14 DEF StartFails, BenchGoes
    <2>2. BenchTypeOK' /\ bench' \in [Bench -> BenchPlaces]
        BY <1>1, <1>2, <2>1 DEF BenchTypeOK, BenchPlaces
    <2>3. HoldersMarked' /\ StaleIsLapsed'
        BY <1>1, <2>1 DEF HoldersMarked, StaleIsLapsed, Stale, Holding
    <2>4. MarkersOwned' /\ SomeoneRestores'
        BY <1>1, <2>1 DEF MarkersOwned, SomeoneRestores
    <2> QED
        BY <2>2, <2>3, <2>4 DEF BenchInv
<1> QED
    BY <1>4, <1>5, <1>6, <1>7, <1>8, <1>9, <1>10, <1>11, <1>12, <1>13, <1>14 DEF Acquire, Release

\* The inductive step for the daemon, the old contract and the clock.
LEMMA BenchOtherStep ==
    ASSUME BenchInv, DaemonLooks \/ DaemonReaps \/ OldTouch \/ OldRemove \/ BenchTimePasses
    PROVE  BenchInv'
<1>1. /\ BenchTypeOK /\ bench \in [Bench -> BenchPlaces]
      /\ HoldersMarked /\ StaleIsLapsed /\ MarkersOwned /\ SomeoneRestores
    BY DEF BenchInv
<1>2. /\ shape \in {"none", "file", "dir"} /\ model \in {"up", "down"} /\ oldRunner \in {"idle", "held"}
      /\ mark \in [Marker -> {Absent} \cup 0..time] /\ doomed \subseteq Marker
      /\ shape # "dir" => \A c \in Bench \cup {OtherPid} : mark[c] = Absent
      /\ time \in 0..MaxTime /\ lapsed \subseteq Bench /\ spoilt \in BOOLEAN
    BY <1>1 DEF BenchTypeOK
<1>3. /\ time \in Nat /\ MaxAge \in Nat /\ Legacy \notin Bench /\ Legacy \in Marker /\ Bench \subseteq Marker
      /\ OtherPid \notin Bench /\ OtherPid # Legacy /\ OtherPid \in Marker
    <2>1. time \in Nat /\ MaxAge \in Nat
        BY <1>2, BenchAssumption
    <2> QED
        BY <2>1, MarkerNames
<1>4. CASE DaemonLooks
    <2>1. /\ doomed' = {m \in Marker : mark[m] # Absent /\ Stale(m)}
          /\ UNCHANGED <<shape, mark, model, bench, oldRunner, time, lapsed, spoilt>>
        BY <1>4 DEF DaemonLooks
    <2>2. doomed' \cap Bench \subseteq lapsed /\ doomed' \subseteq Marker
        BY <1>1, <2>1 DEF StaleIsLapsed
    <2>3. BenchTypeOK' /\ bench' \in [Bench -> BenchPlaces]
        BY <1>1, <1>2, <2>1, <2>2 DEF BenchTypeOK
    <2>4. HoldersMarked' /\ StaleIsLapsed' /\ MarkersOwned' /\ SomeoneRestores'
        BY <1>1, <2>1, <2>2 DEF HoldersMarked, StaleIsLapsed, Stale, MarkersOwned, SomeoneRestores
    <2> QED
        BY <2>3, <2>4 DEF BenchInv
<1>5. CASE DaemonReaps
    <2>1. /\ mark' = [m \in Marker |-> IF m \in doomed /\ shape = "dir" THEN Absent ELSE mark[m]]
          /\ doomed' = {} /\ UNCHANGED <<shape, model, bench, oldRunner, time, lapsed, spoilt>>
        BY <1>5 DEF DaemonReaps
    <2>2. /\ mark' \in [Marker -> {Absent} \cup 0..time]
          /\ \A m \in Marker : mark'[m] # Absent => mark[m] # Absent /\ mark'[m] = mark[m]
          /\ \A c \in Bench : c \notin lapsed => mark'[c] = mark[c]
        BY <1>1, <1>2, <1>3, <2>1 DEF StaleIsLapsed
    <2>3. BenchTypeOK' /\ bench' \in [Bench -> BenchPlaces]
        <3>1. shape' # "dir" => \A c \in Bench \cup {OtherPid} : mark'[c] = Absent
            BY <1>2, <1>3, <2>1, <2>2
        <3> QED
            BY <1>1, <1>2, <2>1, <2>2, <3>1 DEF BenchTypeOK
    <2>4. HoldersMarked' /\ StaleIsLapsed'
        BY <1>1, <1>3, <2>1, <2>2 DEF HoldersMarked, StaleIsLapsed, Stale
    <2>5. MarkersOwned' /\ SomeoneRestores'
        BY <1>1, <1>3, <2>1, <2>2 DEF MarkersOwned, SomeoneRestores
    <2> QED
        BY <2>3, <2>4, <2>5 DEF BenchInv
<1>6. CASE OldTouch \/ OldRemove
    <2>1. /\ oldRunner' \in {"idle", "held"} /\ shape' \in {"none", "file", "dir"}
          /\ shape' = "dir" <=> shape = "dir"
          /\ shape = "dir" => mark' = mark
          /\ shape' = "none" => mark'[Legacy] = Absent
          /\ mark' \in [Marker -> {Absent} \cup 0..time]
          /\ \A c \in Bench \cup {OtherPid} : mark'[c] = mark[c]
          /\ UNCHANGED <<model, bench, doomed, time, lapsed, spoilt>>
        <3>1. CASE OldTouch
            BY <1>1, <1>2, <1>3, <3>1 DEF OldTouch, MarkersOwned
        <3>2. CASE OldRemove
            BY <1>1, <1>2, <1>3, <3>2 DEF OldRemove, MarkersOwned
        <3> QED
            BY <1>6, <3>1, <3>2
    <2>2. BenchTypeOK' /\ bench' \in [Bench -> BenchPlaces]
        <3>1. shape' # "dir" => \A c \in Bench \cup {OtherPid} : mark'[c] = Absent
            BY <1>2, <2>1
        <3> QED
            BY <1>1, <1>2, <2>1, <3>1 DEF BenchTypeOK
    <2>3. HoldersMarked' /\ StaleIsLapsed'
        BY <1>1, <2>1 DEF HoldersMarked, StaleIsLapsed, Stale
    <2>4. MarkersOwned' /\ SomeoneRestores'
        BY <1>1, <2>1 DEF MarkersOwned, SomeoneRestores
    <2> QED
        BY <2>2, <2>3, <2>4 DEF BenchInv
<1>7. CASE BenchTimePasses
    <2>1. /\ time < MaxTime /\ time' = time + 1
          /\ lapsed' = lapsed \cup {b \in Bench : mark[b] # Absent /\ time' - mark[b] > MaxAge}
          /\ UNCHANGED <<shape, mark, model, bench, oldRunner, doomed, spoilt>>
        BY <1>7 DEF BenchTimePasses
    <2>2. time' \in 0..MaxTime /\ mark' \in [Marker -> {Absent} \cup 0..time'] /\ lapsed' \subseteq Bench
        <3>1. time' \in 0..MaxTime /\ \A n \in 0..time : n \in 0..time'
            BY <1>2, <1>3, <2>1, BenchAssumption
        <3> QED
            BY <1>2, <2>1, <3>1
    <2>3. BenchTypeOK' /\ bench' \in [Bench -> BenchPlaces]
        BY <1>1, <1>2, <2>1, <2>2 DEF BenchTypeOK
    <2>4. HoldersMarked' /\ StaleIsLapsed'
        BY <1>1, <2>1 DEF HoldersMarked, StaleIsLapsed, Stale
    <2>5. MarkersOwned' /\ SomeoneRestores'
        BY <1>1, <2>1 DEF MarkersOwned, SomeoneRestores
    <2> QED
        BY <2>3, <2>4, <2>5 DEF BenchInv
<1> QED
    BY <1>4, <1>5, <1>6, <1>7

\* bench_lock.py and bench-lock.sh, any number of runners, any MaxAge: a runner
\* that has kept its marker fresh pauses the mines; once all have released under
\* the PID of their acquire the mining model is up, unless one crashed, systemctl
\* could not start it or the old contract was mixed in.
THEOREM BenchCorrectHolds == BenchSpec => []BenchCorrect
<1>1. BenchInit => BenchInv
    <2> SUFFICES ASSUME BenchInit PROVE BenchInv
        OBVIOUS
    <2>1. /\ shape = "none" /\ mark = [m \in Marker |-> Absent]
          /\ model = "up" /\ bench = [b \in Bench |-> "idle"] /\ oldRunner = "idle"
          /\ doomed = {} /\ time = 0 /\ lapsed = {} /\ spoilt \in BOOLEAN
        BY DEF BenchInit
    <2>2. 0 \in 0..MaxTime /\ Bench \subseteq Marker /\ Legacy \in Marker /\ OtherPid \in Marker
        BY BenchAssumption, MarkerNames
    <2>3. BenchTypeOK /\ bench \in [Bench -> BenchPlaces]
        BY <2>1, <2>2 DEF BenchTypeOK, BenchPlaces
    <2>4. HoldersMarked /\ StaleIsLapsed
        BY <2>1, <2>2 DEF HoldersMarked, StaleIsLapsed, Holding
    <2>5. MarkersOwned /\ SomeoneRestores
        BY <2>1, <2>2 DEF MarkersOwned, SomeoneRestores
    <2> QED
        BY <2>3, <2>4, <2>5 DEF BenchInv
<1>2. BenchInv /\ [BenchNext]_benchVars => BenchInv'
    <2> SUFFICES ASSUME BenchInv, [BenchNext]_benchVars PROVE BenchInv'
        OBVIOUS
    <2>1. CASE UNCHANGED benchVars
        BY <2>1 DEF benchVars, BenchInv, BenchTypeOK, HoldersMarked, StaleIsLapsed, Stale, MarkersOwned,
                    SomeoneRestores
    <2> QED
        BY <2>1, BenchRunnerStep, BenchOtherStep DEF BenchNext
<1>3. BenchInv => BenchCorrect
    <2> SUFFICES ASSUME BenchInv PROVE BenchCorrect
        OBVIOUS
    <2>1. BenchKeepsPause
        BY DEF BenchInv, BenchKeepsPause, HoldersMarked, StaleIsLapsed, Holding, BenchLockActive, Live, Marker
    <2>2. ModelRestored
        BY DEF BenchInv, BenchTypeOK, ModelRestored, SomeoneRestores, Holding, BenchAt
    <2> QED
        BY <2>1, <2>2 DEF BenchInv, BenchCorrect
<1> QED
    BY <1>1, <1>2, <1>3, PTL DEF BenchSpec

-----------------------------------------------------------------------------
(* Watcher                                                                 *)

JobPlaces == {"none", "fire", "gate", "wait", "starting", "run", "killed"}
Jobs == [of : Target, at : JobPlaces]

WatcherTypes ==
    /\ version \in [Target -> 0..MaxEvents] /\ timer \in [Target -> {"none", "armed", "fired"}]
    /\ mined \in [Target -> Nat] /\ unstarted \in [Target -> Nat]
    /\ \A t \in Target : mined[t] <= version[t] /\ unstarted[t] <= version[t]
    /\ job \in [Job -> Jobs] /\ observer \subseteq Target /\ handlers \subseteq Target /\ phase \in Phases

\* _mine_sem bounds the subprocesses.
MinesBounded == Cardinality(Active) <= MineSlots

\* A mine of the shutdown's list has a process it knows; one it no longer waits for has been
\* killed; and it goes on to the watcher only when it waits for none.
ShutdownList ==
    /\ old \subseteq Job /\ tracked \subseteq old
    /\ \A j \in old : job[j].at \in {"run", "killed"} /\ (j \notin tracked => job[j].at = "killed")
    /\ phase \notin {"serving", "terminating"} => tracked = {}

WatcherInv == WatcherTypes /\ MinesBounded /\ ShutdownList /\ ChangeWillBeMined

\* A file event, the observer, the handlers' timers: no job is touched.
LEMMA HandlerStep ==
    ASSUME WatcherInv, UNCHANGED <<job, mined, unstarted, old, tracked>>,
           \/ \E t \in Target : MaybeSchedule(t) \/ CancelPending(t)
           \/ AllCancelled \/ ObserverStops \/ Terminated
    PROVE  WatcherInv'
<1>1. WatcherTypes /\ MinesBounded /\ ShutdownList /\ ChangeWillBeMined
    BY DEF WatcherInv
<1>2. MinesBounded'
    BY <1>1 DEF MinesBounded, Active, In
<1>3. CASE \E t \in Target : MaybeSchedule(t)
    <2>1. PICK t \in Target : MaybeSchedule(t)
        BY <1>3
    <2>2. /\ version[t] < MaxEvents /\ version' = [version EXCEPT ![t] = version[t] + 1]
          /\ timer' = [timer EXCEPT ![t] = "armed"] /\ UNCHANGED <<observer, phase, handlers>>
        BY <2>1 DEF MaybeSchedule
    <2>3. WatcherTypes'
        <3>1. version[t] + 1 \in 0..MaxEvents /\ \A u \in Target : version[u] \in Nat /\ mined[u] \in Nat /\ unstarted[u] \in Nat
            BY <1>1, <2>2, WatcherAssumption DEF WatcherTypes
        <3>2. version' \in [Target -> 0..MaxEvents] /\ \A u \in Target : version'[u] \in {version[u], version[u] + 1}
            BY <1>1, <2>2, <3>1 DEF WatcherTypes
        <3>3. \A u \in Target : mined[u] <= version'[u] /\ unstarted[u] <= version'[u]
            BY <1>1, <3>1, <3>2 DEF WatcherTypes
        <3> QED
            BY <1>1, <2>2, <3>2, <3>3 DEF WatcherTypes
    <2>4. ShutdownList'
        BY <1>1, <2>2 DEF ShutdownList
    <2>5. ChangeWillBeMined'
        BY <1>1, <2>2 DEF ChangeWillBeMined, WatcherTypes, In
    <2> QED
        BY <1>2, <2>3, <2>4, <2>5 DEF WatcherInv
<1>4. CASE \E t \in Target : CancelPending(t)
    <2>1. PICK t \in Target : CancelPending(t)
        BY <1>4
    <2>2. /\ phase = "cancelling" /\ timer' = [timer EXCEPT ![t] = "none"] /\ handlers' = handlers \ {t}
          /\ UNCHANGED <<version, observer, phase>>
        BY <2>1 DEF CancelPending
    <2>3. WatcherTypes' /\ ShutdownList' /\ ChangeWillBeMined'
        BY <1>1, <2>2 DEF WatcherTypes, ShutdownList, ChangeWillBeMined
    <2> QED
        BY <1>2, <2>3 DEF WatcherInv
<1>5. CASE AllCancelled \/ ObserverStops \/ Terminated
    <2>1. /\ phase' \in Phases \ {"serving", "terminating"} /\ UNCHANGED <<version, timer, handlers>>
          /\ observer' \subseteq observer /\ (phase = "terminating" => tracked = {})
          /\ phase # "serving"
        BY <1>5 DEF AllCancelled, ObserverStops, Terminated, Phases
    <2>2. WatcherTypes' /\ ChangeWillBeMined'
        BY <1>1, <2>1 DEF WatcherTypes, ChangeWillBeMined
    <2>3. ShutdownList'
        BY <1>1, <2>1 DEF ShutdownList
    <2> QED
        BY <1>2, <2>2, <2>3 DEF WatcherInv
<1> QED
    BY <1>3, <1>4, <1>5

\* A job moves on outside a subprocess: a timer fires, the coroutine is posted,
\* a gate refuses or admits it.
LEMMA QueuedJobStep ==
    ASSUME WatcherInv, NEW j \in Job,
           \/ \E t \in Target : Fire(t, j)
           \/ Trigger(j) \/ Refused(j) \/ Admitted(j)
    PROVE  WatcherInv'
<1>1. WatcherTypes /\ MinesBounded /\ ShutdownList /\ ChangeWillBeMined
    BY DEF WatcherInv
<1>2. NoJob \in Jobs /\ NoJob.at = "none"
    BY WatcherAssumption DEF NoJob, Jobs, JobPlaces
<1>3. job[j] \in Jobs
    BY <1>1 DEF WatcherTypes
<1>4. PICK q \in Jobs :
      /\ job' = [job EXCEPT ![j] = q] /\ q.at \in {"none", "fire", "gate", "wait"}
      /\ q.at = "none" => phase = "exited" \/ (Refused(j) /\ phase # "exited")
      /\ q.at # "none" => q.of = job[j].of \/ \E t \in Target : Fire(t, j) /\ q.of = t
      /\ \A t \in Target : Fire(t, j) => q.of = t /\ q.at = "fire"
    <2>1. CASE \E t \in Target : Fire(t, j)
        <3>1. PICK t \in Target : Fire(t, j)
            BY <2>1
        <3>2. [of |-> t, at |-> "fire"] \in Jobs
            BY DEF Jobs, JobPlaces
        <3>3. \A u \in Target : Fire(u, j) => u = t
            <4> SUFFICES ASSUME NEW u \in Target, Fire(u, j) PROVE u = t
                OBVIOUS
            <4>1. job'[j] = [of |-> u, at |-> "fire"] /\ job'[j] = [of |-> t, at |-> "fire"]
                BY <1>1, <3>1 DEF Fire, WatcherTypes
            <4>2. [of |-> u, at |-> "fire"].of = [of |-> t, at |-> "fire"].of
                BY <4>1
            <4> QED
                BY <4>2
        <3>4. job' = [job EXCEPT ![j] = [of |-> t, at |-> "fire"]]
            BY <3>1 DEF Fire
        <3> QED
            BY <3>1, <3>2, <3>3, <3>4
    <2>2. ASSUME ~\E t \in Target : Fire(t, j), NEW at \in JobPlaces, Step(j, at)
          PROVE  LET q == [job[j] EXCEPT !.at = at]
                 IN  q \in Jobs /\ job' = [job EXCEPT ![j] = q] /\ q.at = at /\ q.of = job[j].of
        BY <1>1, <1>3, <2>2 DEF Step, WatcherTypes, Jobs
    <2>3. CASE Trigger(j) /\ ~\E t \in Target : Fire(t, j)
        <3>1. CASE phase = "exited"
            BY <1>2, <2>3, <3>1 DEF Trigger, Leaves
        <3>2. CASE phase # "exited"
            BY <2>2, <2>3, <3>2 DEF Trigger, JobPlaces
        <3> QED
            BY <3>1, <3>2
    <2>4. CASE Refused(j) /\ ~\E t \in Target : Fire(t, j)
        BY <1>2, <2>4 DEF Refused, Leaves
    <2>5. CASE Admitted(j) /\ ~\E t \in Target : Fire(t, j)
        BY <2>2, <2>5 DEF Admitted, JobPlaces
    <2> QED
        BY <2>1, <2>3, <2>4, <2>5
<1>5. /\ UNCHANGED <<version, unstarted, observer, handlers, phase, tracked, old>>
      /\ job[j].at \in {"none", "fire", "gate"}
    BY <1>2 DEF Fire, Trigger, Refused, Admitted
<1>6. timer' \in [Target -> {"none", "armed", "fired"}]
    BY <1>1 DEF Fire, Trigger, Refused, Admitted, WatcherTypes
<1>7. /\ mined' \in [Target -> Nat] /\ \A t \in Target : mined'[t] <= version[t]
    <2>1. version[job[j].of] \in Nat /\ job[j].of \in Target /\ \A n \in Nat : n <= n
        BY <1>1, <1>3 DEF WatcherTypes, Jobs
    <2> QED
        BY <1>1, <2>1 DEF Fire, Trigger, Refused, Admitted, WatcherTypes
<1>8. WatcherTypes'
    BY <1>1, <1>4, <1>5, <1>6, <1>7 DEF WatcherTypes
<1>9. job'[j].at \notin {"starting", "run", "killed"} /\ job'[j] = q /\ \A k \in Job \ {j} : job'[k] = job[k]
    BY <1>1, <1>4 DEF WatcherTypes
<1>10. MinesBounded'
    <2>1. Active' = Active
        BY <1>5, <1>9 DEF Active, In
    <2> QED
        BY <1>1, <2>1 DEF MinesBounded
<1>11. ShutdownList'
    BY <1>1, <1>5, <1>9 DEF ShutdownList
<1>12. ChangeWillBeMined'
    <2> SUFFICES ASSUME NEW t \in Target, phase = "serving", mined'[t] < version[t], unstarted[t] < version[t]
                 PROVE  timer'[t] = "armed" \/ \E k \in In({"fire", "gate", "wait"})' : job'[k].of = t
        BY <1>5 DEF ChangeWillBeMined
    <2>1. CASE \E u \in Target : Fire(u, j)
        <3>1. PICK u \in Target : Fire(u, j)
            BY <2>1
        <3>2. /\ mined' = mined /\ timer' = [timer EXCEPT ![u] = "fired"] /\ job[j].at = "none"
              /\ q.of = u /\ q.at = "fire"
            BY <1>2, <1>4, <3>1 DEF Fire
        <3>3. CASE u = t
            BY <1>9, <3>2, <3>3 DEF In
        <3>4. CASE u # t
            BY <1>1, <1>9, <3>2, <3>4 DEF In, ChangeWillBeMined, WatcherTypes
        <3> QED
            BY <3>3, <3>4
    <2>2. CASE Refused(j) /\ ~\E u \in Target : Fire(u, j)
        <3>1. /\ mined' = [mined EXCEPT ![job[j].of] = version[job[j].of]] /\ timer' = timer
              /\ job[j].of \in Target
            BY <1>3, <2>2 DEF Refused, Jobs
        <3>2. t # job[j].of /\ mined'[t] = mined[t]
            <4>1. version[t] \in Nat
                BY <1>1 DEF WatcherTypes
            <4>2. ~(version[t] < version[t])
                BY <4>1
            <4> QED
                BY <1>1, <3>1, <4>2 DEF WatcherTypes
        <3> QED
            BY <1>1, <1>9, <3>1, <3>2 DEF In, ChangeWillBeMined
    <2>3. CASE (Trigger(j) \/ Admitted(j)) /\ ~Refused(j) /\ ~\E u \in Target : Fire(u, j)
        <3>1. mined' = mined /\ timer' = timer /\ q.at \in {"fire", "gate", "wait"} /\ q.of = job[j].of
            BY <1>4, <2>3 DEF Trigger, Admitted
        <3> QED
            BY <1>1, <1>9, <3>1 DEF In, ChangeWillBeMined
    <2> QED
        BY <2>1, <2>2, <2>3
<1> QED
    BY <1>8, <1>10, <1>11, <1>12 DEF WatcherInv

\* A subprocess starts, ends or is killed.
LEMMA SubprocessStep ==
    ASSUME WatcherInv, NEW j \in Job, Spawn(j) \/ MineUnstarted(j) \/ Track(j) \/ MineEnds(j) \/ KillStraggler(j)
    PROVE  WatcherInv'
<1>1. WatcherTypes /\ MinesBounded /\ ShutdownList /\ ChangeWillBeMined
    BY DEF WatcherInv
<1>2. NoJob \in Jobs /\ NoJob.at = "none"
    BY WatcherAssumption DEF NoJob, Jobs, JobPlaces
<1>3. job[j] \in Jobs /\ job[j].of \in Target
    BY <1>1 DEF WatcherTypes, Jobs
<1>4. IsFiniteSet(Active) /\ Cardinality(Active) \in Nat
    <2>1. Active \subseteq Job
        BY DEF Active, In
    <2> QED
        BY <2>1, WatcherAssumption, FS_Subset, FS_CardinalityType
<1>5. CASE Spawn(j)
    <2>1. /\ job[j].at = "wait" /\ Cardinality(Active) < MineSlots
          /\ mined' = [mined EXCEPT ![job[j].of] = version[job[j].of]]
          /\ UNCHANGED <<version, unstarted, timer, observer, phase, tracked, old, handlers>>
        BY <1>5 DEF Spawn
    <2>2. /\ job' \in [Job -> Jobs] /\ job'[j].at = "starting" /\ job'[j].of = job[j].of
          /\ \A k \in Job \ {j} : job'[k] = job[k]
        BY <1>1, <1>3, <1>5 DEF Spawn, Step, WatcherTypes, Jobs, JobPlaces
    <2>3. WatcherTypes'
        <3>1. version[job[j].of] \in Nat /\ \A n \in Nat : n <= n
            BY <1>1, <1>3 DEF WatcherTypes
        <3> QED
            BY <1>1, <1>3, <2>1, <2>2, <3>1 DEF WatcherTypes
    <2>4. MinesBounded'
        <3>1. Active' = Active \cup {j} /\ j \notin Active
            BY <2>1, <2>2 DEF Active, In
        <3>2. Cardinality(Active \cup {j}) = Cardinality(Active) + 1
            BY <1>4, <3>1, FS_AddElement
        <3> QED
            BY <1>4, <2>1, <3>1, <3>2, WatcherAssumption DEF MinesBounded
    <2>5. ShutdownList'
        BY <1>1, <2>1, <2>2 DEF ShutdownList
    <2>6. ChangeWillBeMined'
        <3> SUFFICES ASSUME NEW t \in Target, phase = "serving", mined'[t] < version[t], unstarted[t] < version[t]
                     PROVE  timer[t] = "armed" \/ \E k \in In({"fire", "gate", "wait"})' : job'[k].of = t
            BY <2>1 DEF ChangeWillBeMined
        <3>1. version[t] \in Nat
            BY <1>1 DEF WatcherTypes
        <3>2. ~(version[t] < version[t])
            BY <3>1
        <3>3. t # job[j].of /\ mined'[t] = mined[t]
            BY <1>1, <2>1, <3>2 DEF WatcherTypes
        <3> QED
            BY <1>1, <2>1, <2>2, <3>3 DEF In, ChangeWillBeMined
    <2> QED
        BY <2>3, <2>4, <2>5, <2>6 DEF WatcherInv
<1>6. CASE MineEnds(j)
    <2>1. /\ job[j].at \in {"starting", "run", "killed"} /\ tracked' = tracked \ {j} /\ old' = old \ {j}
          /\ UNCHANGED <<version, mined, unstarted, timer, observer, phase, handlers>>
        BY <1>6 DEF MineEnds, Active, In
    <2>2. /\ job' \in [Job -> Jobs] /\ job'[j].at = "none" /\ \A k \in Job \ {j} : job'[k] = job[k]
        BY <1>1, <1>2, <1>6 DEF MineEnds, Leaves, WatcherTypes
    <2>3. WatcherTypes'
        BY <1>1, <2>1, <2>2 DEF WatcherTypes
    <2>4. MinesBounded'
        <3>1. Active' \subseteq Active
            BY <2>1, <2>2 DEF Active, In
        <3>2. Cardinality(Active') <= Cardinality(Active) /\ Cardinality(Active') \in Nat
            BY <1>4, <3>1, FS_Subset, FS_CardinalityType
        <3> QED
            BY <1>1, <1>4, <3>2, WatcherAssumption DEF MinesBounded
    <2>5. ShutdownList'
        BY <1>1, <2>1, <2>2 DEF ShutdownList
    <2>6. ChangeWillBeMined'
        BY <1>1, <2>1, <2>2 DEF ChangeWillBeMined, In
    <2> QED
        BY <2>3, <2>4, <2>5, <2>6 DEF WatcherInv
<1>7. CASE KillStraggler(j)
    <2>1. /\ job[j].at = "run" /\ tracked' = tracked \ {j}
          /\ UNCHANGED <<version, mined, unstarted, timer, observer, phase, old, handlers>>
        BY <1>7 DEF KillStraggler
    <2>2. /\ job' \in [Job -> Jobs] /\ job'[j].at = "killed" /\ \A k \in Job \ {j} : job'[k] = job[k]
        BY <1>1, <1>3, <1>7 DEF KillStraggler, Step, WatcherTypes, Jobs, JobPlaces
    <2>3. WatcherTypes'
        BY <1>1, <2>1, <2>2 DEF WatcherTypes
    <2>4. MinesBounded'
        <3>1. Active' = Active
            BY <2>1, <2>2 DEF Active, In
        <3> QED
            BY <1>1, <3>1 DEF MinesBounded
    <2>5. ShutdownList'
        BY <1>1, <2>1, <2>2 DEF ShutdownList
    <2>6. ChangeWillBeMined'
        BY <1>1, <2>1, <2>2 DEF ChangeWillBeMined, In
    <2> QED
        BY <2>3, <2>4, <2>5, <2>6 DEF WatcherInv
<1>8. CASE MineUnstarted(j)
    <2>1. /\ job[j].at = "wait" /\ unstarted' = [unstarted EXCEPT ![job[j].of] = version[job[j].of]]
          /\ UNCHANGED <<version, mined, timer, observer, phase, tracked, old, handlers>>
        BY <1>8 DEF MineUnstarted
    <2>2. /\ job' \in [Job -> Jobs] /\ job'[j].at = "none" /\ \A k \in Job \ {j} : job'[k] = job[k]
        BY <1>1, <1>2, <1>8 DEF MineUnstarted, Leaves, WatcherTypes
    <2>3. WatcherTypes'
        <3>1. version[job[j].of] \in Nat /\ \A n \in Nat : n <= n
            BY <1>1, <1>3 DEF WatcherTypes
        <3> QED
            BY <1>1, <1>3, <2>1, <2>2, <3>1 DEF WatcherTypes
    <2>4. MinesBounded'
        <3>1. Active' = Active
            BY <2>1, <2>2 DEF Active, In
        <3> QED
            BY <1>1, <3>1 DEF MinesBounded
    <2>5. ShutdownList'
        BY <1>1, <2>1, <2>2 DEF ShutdownList
    <2>6. ChangeWillBeMined'
        <3> SUFFICES ASSUME NEW t \in Target, phase = "serving", mined[t] < version[t], unstarted'[t] < version[t]
                     PROVE  timer[t] = "armed" \/ \E k \in In({"fire", "gate", "wait"})' : job'[k].of = t
            BY <2>1 DEF ChangeWillBeMined
        <3>1. version[t] \in Nat
            BY <1>1 DEF WatcherTypes
        <3>2. ~(version[t] < version[t])
            BY <3>1
        <3>3. t # job[j].of /\ unstarted'[t] = unstarted[t]
            BY <1>1, <2>1, <3>2 DEF WatcherTypes
        <3> QED
            BY <1>1, <2>1, <2>2, <3>3 DEF In, ChangeWillBeMined
    <2> QED
        BY <2>3, <2>4, <2>5, <2>6 DEF WatcherInv
<1>9. CASE Track(j)
    <2>1. /\ job[j].at = "starting"
          /\ UNCHANGED <<version, mined, unstarted, timer, observer, phase, tracked, old, handlers>>
        BY <1>9 DEF Track
    <2>2. /\ job' \in [Job -> Jobs] /\ job'[j].at = "run" /\ \A k \in Job \ {j} : job'[k] = job[k]
        BY <1>1, <1>3, <1>9 DEF Track, Step, WatcherTypes, Jobs, JobPlaces
    <2>3. WatcherTypes'
        BY <1>1, <2>1, <2>2 DEF WatcherTypes
    <2>4. MinesBounded'
        <3>1. Active' = Active
            BY <2>1, <2>2 DEF Active, In
        <3> QED
            BY <1>1, <3>1 DEF MinesBounded
    <2>5. ShutdownList'
        BY <1>1, <2>1, <2>2 DEF ShutdownList
    <2>6. ChangeWillBeMined'
        BY <1>1, <2>1, <2>2 DEF ChangeWillBeMined, In
    <2> QED
        BY <2>3, <2>4, <2>5, <2>6 DEF WatcherInv
<1> QED
    BY <1>5, <1>6, <1>7, <1>8, <1>9

\* The shutdown begins; the loop ends.
LEMMA ShutdownStep ==
    ASSUME WatcherInv, Shutdown \/ Exit
    PROVE  WatcherInv'
<1>1. WatcherTypes /\ MinesBounded /\ ShutdownList /\ ChangeWillBeMined
    BY DEF WatcherInv
<1>2. NoJob \in Jobs /\ NoJob.at = "none"
    BY WatcherAssumption DEF NoJob, Jobs, JobPlaces
<1>3. CASE Shutdown
    <2>1. /\ phase' = "terminating" /\ tracked' = In({"run"}) /\ old' = In({"run"})
          /\ UNCHANGED <<version, mined, unstarted, timer, job, observer, handlers>>
        BY <1>3 DEF Shutdown
    <2>2. WatcherTypes' /\ MinesBounded' /\ ChangeWillBeMined'
        BY <1>1, <2>1 DEF WatcherTypes, MinesBounded, ChangeWillBeMined, Active, In, Phases
    <2>3. ShutdownList'
        BY <2>1 DEF ShutdownList, In
    <2> QED
        BY <2>2, <2>3 DEF WatcherInv
<1>4. CASE Exit
    <2>1. /\ phase = "flushing" /\ phase' = "exited" /\ timer' = [t \in Target |-> "none"]
          /\ job' = [j \in Job |-> IF job[j].at \in {"gate", "wait"} THEN NoJob ELSE job[j]]
          /\ UNCHANGED <<version, mined, unstarted, observer, tracked, old, handlers>>
        BY <1>4 DEF Exit
    <2>2. WatcherTypes' /\ ChangeWillBeMined'
        BY <1>1, <1>2, <2>1 DEF WatcherTypes, ChangeWillBeMined, Phases
    <2>3. MinesBounded'
        <3>1. Active' = Active
            BY <1>2, <2>1 DEF Active, In
        <3> QED
            BY <1>1, <3>1 DEF MinesBounded
    <2>4. ShutdownList'
        BY <1>1, <1>2, <2>1 DEF ShutdownList
    <2> QED
        BY <2>2, <2>3, <2>4 DEF WatcherInv
<1> QED
    BY <1>3, <1>4

\* watcher.py and its lifespan, any targets, jobs and permits: while the daemon
\* serves a change is forgotten only when its mine cannot be started, and no mine
\* the shutdown found in active_mines still runs when the watcher is stopped.
THEOREM WatcherCorrectHolds == WatcherSpec => []WatcherCorrect
<1>1. WatcherInit => WatcherInv
    <2> SUFFICES ASSUME WatcherInit PROVE WatcherInv
        OBVIOUS
    <2>1. /\ observer \subseteq Target /\ handlers = observer
          /\ version = [t \in Target |-> 0] /\ mined = [t \in Target |-> 0] /\ unstarted = [t \in Target |-> 0]
          /\ timer = [t \in Target |-> "none"] /\ job = [j \in Job |-> NoJob]
          /\ phase = "serving" /\ tracked = {} /\ old = {}
        BY DEF WatcherInit
    <2>2. NoJob \in Jobs /\ NoJob.at = "none" /\ 0 \in 0..MaxEvents /\ 0 \in Nat /\ 0 <= 0
        BY WatcherAssumption DEF NoJob, Jobs, JobPlaces
    <2>3. WatcherTypes
        BY <2>1, <2>2 DEF WatcherTypes, Phases
    <2>4. MinesBounded
        <3>1. Active = {}
            BY <2>1, <2>2 DEF Active, In
        <3> QED
            BY <3>1, FS_EmptySet, WatcherAssumption DEF MinesBounded
    <2>5. ShutdownList /\ ChangeWillBeMined
        BY <2>1 DEF ShutdownList, ChangeWillBeMined
    <2> QED
        BY <2>3, <2>4, <2>5 DEF WatcherInv
<1>2. WatcherInv /\ [WatcherNext]_watcherVars => WatcherInv'
    <2> SUFFICES ASSUME WatcherInv, [WatcherNext]_watcherVars PROVE WatcherInv'
        OBVIOUS
    <2>1. CASE UNCHANGED watcherVars
        BY <2>1 DEF watcherVars, WatcherInv, WatcherTypes, MinesBounded, ShutdownList, ChangeWillBeMined, Active, In
    <2>2. CASE \E t \in Target : MaybeSchedule(t) \/ CancelPending(t)
        <3>1. UNCHANGED <<job, mined, unstarted, old, tracked>>
            BY <2>2 DEF MaybeSchedule, CancelPending
        <3> QED
            BY <2>2, <3>1, HandlerStep
    <2>3. CASE AllCancelled \/ ObserverStops \/ Terminated
        <3>1. UNCHANGED <<job, mined, unstarted, old, tracked>>
            BY <2>3 DEF AllCancelled, ObserverStops, Terminated
        <3> QED
            BY <2>3, <3>1, HandlerStep
    <2>4. CASE \E j \in Job : Trigger(j) \/ Refused(j) \/ Admitted(j) \/ \E t \in Target : Fire(t, j)
        BY <2>4, QueuedJobStep
    <2>5. CASE \E j \in Job : Spawn(j) \/ MineUnstarted(j) \/ Track(j) \/ MineEnds(j) \/ KillStraggler(j)
        BY <2>5, SubprocessStep
    <2> QED
        BY <2>1, <2>2, <2>3, <2>4, <2>5, ShutdownStep DEF WatcherNext, InternalMine
<1>3. WatcherInv => WatcherCorrect
    <2> SUFFICES ASSUME WatcherInv PROVE WatcherCorrect
        OBVIOUS
    <2>1. \A t \in Target : mined[t] \in 0..version[t] /\ unstarted[t] \in 0..version[t]
        BY DEF WatcherInv, WatcherTypes
    <2>2. WatcherTypeOK
        BY <2>1 DEF WatcherInv, WatcherTypes, MinesBounded, ShutdownList, WatcherTypeOK, Jobs, JobPlaces
    <2>3. NoTrackedMineSurvives
        BY DEF WatcherInv, ShutdownList, NoTrackedMineSurvives
    <2> QED
        BY <2>2, <2>3 DEF WatcherInv, WatcherCorrect
<1> QED
    BY <1>1, <1>2, <1>3, PTL DEF WatcherSpec

-----------------------------------------------------------------------------
(* Backfill                                                                *)

Builds ==
    [pc : {"idle", "building", "answered"} \cup Index,
     left : SUBSET Index, created : SUBSET Index, already : SUBSET Index, errors : SUBSET Index]

\* A process works on drawers, and only what is filed is marked.
RunTypes ==
    /\ bfTime \in 1..MaxBfTime /\ inProgress \in BOOLEAN
    /\ runAt \in [Run -> RunPlaces] /\ todo \in [Run -> SUBSET Drawers] /\ failed \subseteq Drawers
    /\ filed \in [Row -> {Missing, Undated} \cup 1..bfTime] /\ completed \in [Row -> {Missing} \cup 1..bfTime]
    /\ \A r \in Row : completed[r] # Missing => filed[r] # Missing

\* The output list is the end of what was printed: all of it, or at least what a
\* cut keeps.
OutputIsEnd ==
    /\ printed \in 0..MaxLines /\ outputLines \in Seq(1..MaxLines)
    /\ Len(outputLines) <= RingMax /\ Len(outputLines) <= printed
    /\ Len(outputLines) = printed \/ Len(outputLines) >= RingKeep
    /\ \A k \in 1..Len(outputLines) : outputLines[k] = printed - Len(outputLines) + k

\* What the request has reported is valid, at every step of it; the index it is
\* building is its own.
IndexesReported ==
    /\ index \in [Index -> {"absent", "building", "invalid", "valid"}] /\ build \in Builds
    /\ build.pc \in Index => index[build.pc] = "building"
    /\ \A i \in build.already \cup (build.created \ met) : index[i] = "valid"

NothingMarked == \A e \in Row : completed[e] = Missing
FiledByMarks(d) == \A e \in Row : completed[e] # Missing => filed[d] <= completed[e]

\* Before a process has started nothing is marked or failed.  What the first one has
\* failed on, or has yet to handle, was there when it started, before its marks.
FailedEarly ==
    /\ \A r \in Run : runAt[r] = "none" => todo[r] = {}
    /\ (\A r \in Run : runAt[r] \in {"none", "spawn"}) => NothingMarked /\ failed = {}
    /\ FirstRun =>
        /\ \A d \in failed : completed[d] = Missing /\ FiledByMarks(d)
        /\ \A r \in Run : \A d \in todo[r] : completed[d] = Missing /\ d \notin failed /\ FiledByMarks(d)

BackfillInv == RunTypes /\ FailedEarly /\ BackfillAlone /\ OutputIsEnd /\ IndexesReported

\* A run starts, goes on or ends.
LEMMA RunStep ==
    ASSUME BackfillInv, NEW r \in Run,
           \/ BackfillAge(r) \/ Spawned(r) \/ SpawnFails(r)
           \/ RunEnds(r) \/ OutputUnread(r) \/ AdriftEnds(r)
    PROVE  BackfillInv'
<1>1. RunTypes /\ FailedEarly /\ BackfillAlone /\ OutputIsEnd /\ IndexesReported
    BY DEF BackfillInv
<1>2. UNCHANGED <<bfTime, failed, filed, completed, index, build, met>>
    BY DEF BackfillAge, Spawned, SpawnFails, RunEnds, OutputUnread, AdriftEnds
<1>3. IndexesReported'
    BY <1>1, <1>2 DEF IndexesReported
<1>4. OutputIsEnd'
    <2>1. CASE UNCHANGED <<outputLines, printed>>
        BY <1>1, <2>1 DEF OutputIsEnd
    <2>2. CASE outputLines' = <<>> /\ printed' = 0
        <3>1. <<>> \in Seq(1..MaxLines) /\ Len(<<>>) = 0
            BY EmptySeq
        <3> QED
            BY <2>2, <3>1, BackfillAssumption DEF OutputIsEnd
    <2> QED
        BY <2>1, <2>2 DEF BackfillAge, Spawned, SpawnFails, RunEnds, OutputUnread, AdriftEnds
<1>5. Drawers' = Drawers /\ bfTime \in Nat /\ \A d \in Drawers : filed[d] \in 0..bfTime
    BY <1>1, <1>2 DEF RunTypes, Drawers, Undated, Missing
<1>6. CASE BackfillAge(r)
    <2>1. /\ runAt[r] = "none" /\ ~inProgress /\ inProgress' = TRUE /\ todo' = todo
          /\ runAt' = [runAt EXCEPT ![r] = "spawn"]
        BY <1>6 DEF BackfillAge, RunGoes
    <2>2. RunTypes'
        BY <1>1, <1>2, <1>5, <2>1 DEF RunTypes, RunPlaces
    <2>3. BackfillAlone'
        BY <1>1, <2>1 DEF RunTypes, BackfillAlone
    <2>4. FirstRun' => FirstRun /\ \A s \in Run : runAt[s] = "none"
        BY <1>1, <2>1 DEF RunTypes, FirstRun
    <2>5. FailedEarly'
        BY <1>1, <1>2, <2>1, <2>4 DEF RunTypes, FailedEarly, NothingMarked, FiledByMarks
    <2> QED
        BY <1>3, <1>4, <2>2, <2>3, <2>5 DEF BackfillInv
<1>7. CASE Spawned(r)
    <2>1. /\ runAt[r] = "spawn" /\ inProgress' = inProgress
          /\ runAt' = [runAt EXCEPT ![r] = "running"]
          /\ todo' = [todo EXCEPT ![r] = {d \in Drawers : completed[d] = Missing}]
        BY <1>7 DEF Spawned, RunGoes
    <2>2. RunTypes'
        BY <1>1, <1>2, <1>5, <2>1 DEF RunTypes, RunPlaces
    <2>3. BackfillAlone'
        BY <1>1, <2>1 DEF RunTypes, BackfillAlone
    <2>4. FirstRun' => FirstRun /\ \A s \in Run \ {r} : runAt[s] = "none"
        BY <1>1, <2>1 DEF RunTypes, FirstRun
    <2>5. FirstRun' => NothingMarked /\ failed = {}
        BY <1>1, <2>1, <2>4 DEF FailedEarly
    <2>6. FailedEarly'
        BY <1>1, <1>2, <2>1, <2>5 DEF RunTypes, FailedEarly, NothingMarked, FiledByMarks, Drawers
    <2> QED
        BY <1>3, <1>4, <2>2, <2>3, <2>6 DEF BackfillInv
<1>8. CASE SpawnFails(r) \/ RunEnds(r) \/ OutputUnread(r) \/ AdriftEnds(r)
    <2>1. PICK at \in {"adrift", "over"} : runAt' = [runAt EXCEPT ![r] = at]
        BY <1>8 DEF SpawnFails, RunEnds, OutputUnread, AdriftEnds, RunGoes
    <2>2. /\ runAt[r] # "none" /\ todo' \in {todo, [todo EXCEPT ![r] = {}]} /\ inProgress' \in BOOLEAN
          /\ (runAt[r] = "adrift" /\ inProgress' = inProgress) \/ runAt[r] \in {"spawn", "running"}
        BY <1>1, <1>8 DEF SpawnFails, RunEnds, OutputUnread, AdriftEnds, RunTypes
    <2>3. RunTypes'
        BY <1>1, <1>2, <1>5, <2>1, <2>2 DEF RunTypes, RunPlaces
    <2>4. BackfillAlone'
        BY <1>1, <2>1, <2>2 DEF RunTypes, BackfillAlone
    <2>5. (FirstRun' => FirstRun) /\ \A s \in Run : todo'[s] \subseteq todo[s]
        BY <1>1, <2>1, <2>2 DEF RunTypes, FirstRun
    <2>6. ~ \A s \in Run : runAt'[s] \in {"none", "spawn"}
        BY <1>1, <2>1 DEF RunTypes
    <2>7. FailedEarly'
        BY <1>1, <1>2, <2>1, <2>2, <2>5, <2>6 DEF RunTypes, FailedEarly, FiledByMarks
    <2> QED
        BY <1>3, <1>4, <2>3, <2>4, <2>7 DEF BackfillInv
<1> QED
    BY <1>6, <1>7, <1>8

\* What a list must be to be the end of the output.
LEMMA EndKept ==
    ASSUME NEW lines \in Seq(1..MaxLines), NEW total \in 0..MaxLines, outputLines' = lines, printed' = total,
           NEW n, Len(lines) = n, n <= RingMax, n <= total, n = total \/ n >= RingKeep,
           \A k \in 1..n : lines[k] = total - n + k
    PROVE  OutputIsEnd'
BY DEF OutputIsEnd

\* A line is printed; the list may be cut.
LEMMA OutputStep ==
    ASSUME BackfillInv, NEW r \in Run, OutputLine(r)
    PROVE  BackfillInv'
<1>1. RunTypes /\ FailedEarly /\ BackfillAlone /\ OutputIsEnd /\ IndexesReported
    BY DEF BackfillInv
<1>2. /\ printed < MaxLines /\ printed' = printed + 1
      /\ outputLines' = Trimmed(Append(outputLines, printed + 1))
      /\ UNCHANGED <<bfTime, inProgress, runAt, todo, failed, filed, completed, index, build, met>>
    BY DEF OutputLine
<1>3. RunTypes' /\ FailedEarly' /\ BackfillAlone' /\ IndexesReported'
    BY <1>1, <1>2 DEF RunTypes, FailedEarly, FirstRun, NothingMarked, FiledByMarks, BackfillAlone, IndexesReported, Drawers
<1> DEFINE lines == Append(outputLines, printed + 1)
           n == Len(outputLines)
<1>4. /\ printed \in Nat /\ MaxLines \in Nat /\ RingMax \in Nat /\ RingKeep \in Nat /\ RingKeep <= RingMax
      /\ outputLines \in Seq(1..MaxLines) /\ n \in Nat /\ n <= RingMax /\ n <= printed
      /\ n = printed \/ n >= RingKeep
      /\ \A k \in 1..n : outputLines[k] = printed - n + k
    <2>1. outputLines \in Seq(1..MaxLines)
        BY <1>1 DEF OutputIsEnd
    <2>2. n \in Nat
        BY <2>1, LenProperties
    <2> QED
        BY <1>1, <2>1, <2>2, BackfillAssumption DEF OutputIsEnd
<1>5. printed + 1 \in 1..MaxLines
    BY <1>2, <1>4
<1>6. /\ lines \in Seq(1..MaxLines) /\ Len(lines) = n + 1
      /\ \A k \in 1..n : lines[k] = outputLines[k]
      /\ lines[n + 1] = printed + 1
    BY <1>4, <1>5, AppendProperties
<1>7. outputLines' = Trimmed(lines)
    BY <1>2
<1> HIDE DEF lines, n
<1> DEFINE total == printed + 1
           len == n + 1
<1>8. /\ total \in 0..MaxLines /\ printed' = total /\ len \in Nat /\ len >= 1 /\ Len(lines) = len
      /\ len <= RingMax + 1 /\ len <= total /\ (len = total \/ len > RingKeep)
    BY <1>2, <1>4, <1>5, <1>6
<1>9. \A k \in 1..len : lines[k] = total - len + k
    <2> SUFFICES ASSUME NEW k \in 1..len PROVE lines[k] = total - len + k
        OBVIOUS
    <2>1. CASE k \in 1..n
        BY <1>4, <1>6, <2>1
    <2>2. CASE k = n + 1
        BY <1>4, <1>6, <2>2
    <2> QED
        BY <1>4, <2>1, <2>2
<1> HIDE DEF total, len
<1>10. CASE len <= RingMax
    <2>1. outputLines' = lines
        BY <1>4, <1>7, <1>8, <1>10 DEF Trimmed
    <2>2. len = total \/ len >= RingKeep
        BY <1>4, <1>8
    <2>3. OutputIsEnd'
        BY <1>6, <1>8, <1>9, <1>10, <2>1, <2>2, EndKept
    <2> QED
        BY <1>3, <2>3 DEF BackfillInv
<1>11. CASE len > RingMax
    <2> DEFINE m == len - RingKeep + 1
               cut == SubSeq(lines, m, len)
    <2>1. outputLines' = cut
        BY <1>4, <1>7, <1>8, <1>11 DEF Trimmed
    <2>2. /\ m \in Int /\ len \in Int /\ m >= 1 /\ (m <= len <=> RingKeep # 0) /\ len - m + 1 = RingKeep
          /\ RingKeep <= total /\ RingKeep >= RingKeep
        BY <1>4, <1>8, <1>11
    <2>3. \A k \in m..len : lines[k] \in 1..MaxLines
        <3> SUFFICES ASSUME NEW k \in m..len PROVE lines[k] \in 1..MaxLines
            OBVIOUS
        <3>1. k \in 1..Len(lines)
            BY <1>8, <2>2
        <3> QED
            BY <1>6, <3>1, ElementOfSeq
    <2> HIDE DEF m
    <2>4. /\ cut \in Seq(1..MaxLines) /\ Len(cut) = IF m <= len THEN len - m + 1 ELSE 0
          /\ \A k \in 1..(len - m + 1) : cut[k] = lines[m + k - 1]
        <3>1. m \in Int /\ len \in Int
            BY <2>2
        <3> QED
            BY <2>3, <3>1, SubSeqProperties
    <2> HIDE DEF cut
    <2>5. Len(cut) = RingKeep
        BY <2>2, <2>4
    <2>6. \A k \in 1..RingKeep : cut[k] = total - RingKeep + k
        <3> SUFFICES ASSUME NEW k \in 1..RingKeep PROVE cut[k] = total - RingKeep + k
            OBVIOUS
        <3>1. cut[k] = lines[m + k - 1] /\ m + k - 1 \in 1..len
            BY <1>4, <1>8, <2>2, <2>4
        <3>2. lines[m + k - 1] = total - len + (m + k - 1)
            BY <1>9, <3>1
        <3> QED
            BY <1>4, <1>8, <3>1, <3>2 DEF m
    <2>7. OutputIsEnd'
        BY <1>4, <1>8, <2>1, <2>2, <2>4, <2>5, <2>6, EndKept
    <2> QED
        BY <1>3, <2>7 DEF BackfillInv
<1> QED
    BY <1>4, <1>8, <1>10, <1>11

\* A drawer is handled or filed; the clock ticks.
LEMMA DrawerStep ==
    ASSUME BackfillInv,
           \/ \E r \in Run, d \in Row, ok \in BOOLEAN : Handles(r, d, ok)
           \/ \E d \in Row : Files(d, Undated) \/ Files(d, bfTime)
           \/ BackfillClockTicks
    PROVE  BackfillInv'
<1>1. RunTypes /\ FailedEarly /\ BackfillAlone /\ OutputIsEnd /\ IndexesReported
    BY DEF BackfillInv
<1>2. UNCHANGED <<inProgress, outputLines, printed, runAt, index, build, met>>
    BY DEF Handles, Files, BackfillClockTicks
<1>3. BackfillAlone' /\ OutputIsEnd' /\ IndexesReported'
    BY <1>1, <1>2 DEF BackfillAlone, OutputIsEnd, IndexesReported
<1>4. /\ bfTime \in 1..MaxBfTime /\ bfTime \in 1..bfTime /\ Undated # Missing /\ bfTime # Missing
      /\ \A d \in Drawers : filed[d] <= bfTime
    BY <1>1, BackfillAssumption DEF RunTypes, Drawers, Undated, Missing
<1>5. FirstRun' = FirstRun
    BY <1>2 DEF FirstRun
<1>6. CASE \E r \in Run, d \in Row, ok \in BOOLEAN : Handles(r, d, ok)
    <2>1. PICK r \in Run, d \in Row, ok \in BOOLEAN : Handles(r, d, ok)
        BY <1>6
    <2>2. /\ runAt[r] \in {"running", "adrift"} /\ d \in todo[r] /\ todo' = [todo EXCEPT ![r] = @ \ {d}]
          /\ UNCHANGED <<bfTime, filed>>
          /\ \/ completed' = [completed EXCEPT ![d] = bfTime] /\ failed' = failed
             \/ completed' = completed /\ failed' = failed \cup {d}
        BY <2>1 DEF Handles
    <2>3. Drawers' = Drawers /\ d \in Drawers
        BY <1>1, <2>2 DEF RunTypes, Drawers
    <2>4. RunTypes'
        <3>1. todo' \in [Run -> SUBSET Drawers] /\ failed' \subseteq Drawers
            BY <1>1, <2>2, <2>3 DEF RunTypes
        <3>2. /\ completed' \in [Row -> {Missing} \cup 1..bfTime]
              /\ \A x \in Row : completed'[x] # Missing => completed[x] # Missing \/ x = d
            BY <1>1, <1>4, <2>2 DEF RunTypes
        <3> QED
            BY <1>1, <1>2, <2>2, <2>3, <3>1, <3>2 DEF RunTypes, Drawers
    <2>5. \A s \in Run : todo'[s] \subseteq todo[s] /\ (s # r => todo'[s] = todo[s])
        BY <1>1, <2>2 DEF RunTypes
    <2>6. d \notin todo'[r]
        BY <1>1, <2>2 DEF RunTypes
    <2>7. ~ \A s \in Run : runAt'[s] \in {"none", "spawn"}
        BY <1>2, <2>2
    <2>8. \A s \in Run : runAt'[s] = "none" => todo'[s] = {}
        BY <1>1, <1>2, <2>2, <2>5 DEF FailedEarly
    <2>9. ASSUME FirstRun
          PROVE  /\ \A x \in failed' : completed'[x] = Missing /\ FiledByMarks(x)'
                 /\ \A s \in Run : \A x \in todo'[s] : completed'[x] = Missing /\ x \notin failed' /\ FiledByMarks(x)'
        <3>1. \A s \in Run \ {r} : todo'[s] = {}
            BY <1>1, <2>2, <2>5, <2>9 DEF FirstRun, FailedEarly
        <3>2. d \notin failed /\ FiledByMarks(d)
            BY <1>1, <2>2, <2>9 DEF FailedEarly
        <3>3. \A x \in failed \cup todo[r] : x \in Drawers /\ FiledByMarks(x)
            BY <1>1, <2>2, <2>9 DEF FailedEarly, RunTypes
        <3>4. \A x \in failed \cup todo[r] : FiledByMarks(x)'
            BY <1>1, <1>4, <2>2, <3>3 DEF FiledByMarks, RunTypes
        <3>5. \A x \in failed' : completed'[x] = Missing
            <4>1. \A x \in failed : completed[x] = Missing /\ x # d
                BY <1>1, <2>9, <3>2 DEF FailedEarly
            <4>2. CASE completed' = [completed EXCEPT ![d] = bfTime] /\ failed' = failed
                BY <1>1, <4>1, <4>2 DEF RunTypes
            <4>3. CASE completed' = completed /\ failed' = failed \cup {d}
                <5>1. completed[d] = Missing
                    BY <1>1, <2>2, <2>9 DEF FailedEarly
                <5> QED
                    BY <4>1, <4>3, <5>1
            <4> QED
                BY <2>2, <4>2, <4>3
        <3>6. \A x \in todo'[r] : x \in todo[r] /\ x # d /\ x \notin failed' /\ completed[x] = Missing
            BY <1>1, <2>2, <2>5, <2>6, <2>9 DEF FailedEarly
        <3>7. \A x \in todo'[r] : completed'[x] = Missing
            BY <1>1, <2>2, <3>6 DEF RunTypes, Drawers
        <3> QED
            BY <2>2, <3>1, <3>4, <3>5, <3>6, <3>7
    <2>10. FailedEarly'
        BY <1>5, <2>7, <2>8, <2>9 DEF FailedEarly
    <2> QED
        BY <1>3, <2>4, <2>10 DEF BackfillInv
<1>7. CASE \E d \in Row : Files(d, Undated) \/ Files(d, bfTime)
    <2>1. PICK d \in Row, at \in {Undated, bfTime} : Files(d, at)
        BY <1>7
    <2>2. /\ filed[d] = Missing /\ filed' = [filed EXCEPT ![d] = at]
          /\ UNCHANGED <<bfTime, todo, failed, completed>>
        BY <2>1 DEF Files
    <2>3. Drawers' = Drawers \cup {d} /\ \A x \in Drawers : x # d /\ filed'[x] = filed[x]
        BY <1>1, <1>4, <2>2 DEF RunTypes, Drawers
    <2>4. RunTypes'
        BY <1>1, <1>2, <1>4, <2>2, <2>3 DEF RunTypes
    <2>5. \A x \in Drawers : FiledByMarks(x) => FiledByMarks(x)'
        BY <2>2, <2>3 DEF FiledByMarks
    <2>6. failed \subseteq Drawers /\ \A r \in Run : todo[r] \subseteq Drawers
        BY <1>1 DEF RunTypes
    <2>7. FailedEarly'
        BY <1>1, <1>2, <1>5, <2>2, <2>5, <2>6 DEF FailedEarly, NothingMarked
    <2> QED
        BY <1>3, <2>4, <2>7 DEF BackfillInv
<1>8. CASE BackfillClockTicks
    <2>1. bfTime < MaxBfTime /\ bfTime' = bfTime + 1 /\ UNCHANGED <<todo, failed, filed, completed>>
        BY <1>8 DEF BackfillClockTicks
    <2>2. bfTime' \in 1..MaxBfTime /\ \A n \in 1..bfTime : n \in 1..bfTime'
        BY <1>4, <2>1, BackfillAssumption
    <2>3. RunTypes'
        BY <1>1, <1>2, <2>1, <2>2 DEF RunTypes, Drawers
    <2>4. FailedEarly'
        BY <1>1, <1>2, <1>5, <2>1 DEF FailedEarly, NothingMarked, FiledByMarks
    <2> QED
        BY <1>3, <2>3, <2>4 DEF BackfillInv
<1> QED
    BY <1>6, <1>7, <1>8

\* The index request, its statements and the operator.
LEMMA IndexStep ==
    ASSUME BackfillInv, IndexesNext
    PROVE  BackfillInv'
<1>1. RunTypes /\ FailedEarly /\ BackfillAlone /\ OutputIsEnd /\ IndexesReported
    BY DEF BackfillInv
<1>2. UNCHANGED <<bfTime, inProgress, outputLines, printed, runAt, todo, failed, filed, completed>>
    BY DEF IndexesNext, BuildBegins, BuildAnswers, BuildOver, BuildSkipped, BuildStarts, DropInvalid, BuildEnds
<1>3. RunTypes' /\ FailedEarly' /\ BackfillAlone' /\ OutputIsEnd'
    BY <1>1, <1>2 DEF RunTypes, Drawers, FailedEarly, FirstRun, NothingMarked, FiledByMarks, BackfillAlone, OutputIsEnd
<1>4. /\ index \in [Index -> {"absent", "building", "invalid", "valid"}] /\ build \in Builds
      /\ build.pc \in Index => index[build.pc] = "building"
      /\ \A i \in build.already \cup (build.created \ met) : index[i] = "valid"
    BY <1>1 DEF IndexesReported
<1>5. /\ build.pc \in {"idle", "building", "answered"} \cup Index /\ build.left \subseteq Index
      /\ build.created \subseteq Index /\ build.already \subseteq Index /\ build.errors \subseteq Index
    BY <1>4 DEF Builds
<1>6. CASE BuildBegins
    <2>1. build' \in Builds /\ build'.pc = "building" /\ build'.created = {} /\ build'.already = ExistingAgeIndexes
        BY <1>6 DEF BuildBegins, NoBuild, Builds, ExistingAgeIndexes
    <2>2. index' = index
        BY <1>6 DEF BuildBegins
    <2>3. IndexesReported'
        BY <1>4, <2>1, <2>2, BackfillAssumption DEF IndexesReported, ExistingAgeIndexes
    <2> QED
        BY <1>3, <2>3 DEF BackfillInv
<1>7. CASE BuildAnswers
    <2>1. /\ build' \in Builds /\ build'.pc = "answered" /\ build'.created = build.created
          /\ build'.already = build.already
        BY <1>4, <1>7 DEF BuildAnswers, Builds
    <2>2. index' = index /\ met' = met
        BY <1>7 DEF BuildAnswers
    <2>3. IndexesReported'
        BY <1>4, <2>1, <2>2, BackfillAssumption DEF IndexesReported
    <2> QED
        BY <1>3, <2>3 DEF BackfillInv
<1>8. CASE BuildOver
    <2>1. build' \in Builds /\ build'.pc = "idle" /\ build'.created = {} /\ build'.already = {}
        BY <1>8 DEF BuildOver, NoBuild, Builds
    <2>2. index' = index
        BY <1>8 DEF BuildOver
    <2>3. IndexesReported'
        BY <1>4, <2>1, <2>2, BackfillAssumption DEF IndexesReported
    <2> QED
        BY <1>3, <2>3 DEF BackfillInv
<1>9. ASSUME NEW i \in Index, BuildSkipped(i) PROVE BackfillInv'
    <2>1. /\ build.pc = "building" /\ build' \in Builds /\ build'.pc = "building"
          /\ build'.created = build.created \cup {i} /\ build'.already = build.already
        BY <1>4, <1>5, <1>9 DEF BuildSkipped, Builds
    <2>2. index' = index /\ met' = IF index[i] = "valid" THEN met ELSE met \cup {i}
        BY <1>9 DEF BuildSkipped
    <2>3. IndexesReported'
        BY <1>4, <2>1, <2>2, BackfillAssumption DEF IndexesReported
    <2> QED
        BY <1>3, <2>3 DEF BackfillInv
<1>10. ASSUME NEW i \in Index, BuildStarts(i) PROVE BackfillInv'
    <2>1. /\ build' \in Builds /\ build'.pc = i
          /\ build'.created = build.created /\ build'.already = build.already
        BY <1>4, <1>5, <1>10 DEF BuildStarts, Builds
    <2>2. index[i] = "absent" /\ index' = [index EXCEPT ![i] = "building"] /\ met' = met
        BY <1>10 DEF BuildStarts
    <2>3. IndexesReported'
        BY <1>4, <2>1, <2>2 DEF IndexesReported
    <2> QED
        BY <1>3, <2>3 DEF BackfillInv
<1>11. ASSUME NEW i \in Index, NEW ok \in BOOLEAN, BuildEnds(i, ok) PROVE BackfillInv'
    <2>1. /\ build.pc = i /\ index[i] = "building" /\ met' = met
          /\ index' = [index EXCEPT ![i] = IF ok THEN "valid" ELSE "invalid"]
        BY <1>4, <1>11 DEF BuildEnds
    <2>2. /\ build' \in Builds /\ build'.pc = "building" /\ build'.already = build.already
          /\ build'.created = IF ok THEN build.created \cup {i} ELSE build.created
        BY <1>4, <1>5, <1>11 DEF BuildEnds, Builds
    <2>3. IndexesReported'
        BY <1>4, <1>5, <2>1, <2>2, BackfillAssumption DEF IndexesReported
    <2> QED
        BY <1>3, <2>3 DEF BackfillInv
<1>12. ASSUME NEW i \in Index, DropInvalid(i) PROVE BackfillInv'
    <2>1. index[i] = "invalid" /\ index' = [index EXCEPT ![i] = "absent"] /\ UNCHANGED <<build, met>>
        BY <1>12 DEF DropInvalid
    <2>2. IndexesReported'
        BY <1>4, <1>5, <2>1 DEF IndexesReported
    <2> QED
        BY <1>3, <2>2 DEF BackfillInv
<1> QED
    BY <1>6, <1>7, <1>8, <1>9, <1>10, <1>11, <1>12 DEF IndexesNext

\* What the first run has failed on is not explained as a later arrival
\* (_backfill_unprocessed_breakdown()).
LEMMA FailuresReported ==
    ASSUME RunTypes, FailedEarly
    PROVE  FailuresNotExcused
<1> SUFFICES ASSUME FirstRun, Marks # {}, NEW d \in failed, d \notin NoFiledAt, d \notin PreRunUnmarked
             PROVE  d \in AddedDuringRun /\ \A m \in Marks : filed[d] <= m
    BY Zenon DEF FailuresNotExcused
<1>1. d \in Gap \ NoFiledAt /\ FiledByMarks(d)
    BY DEF RunTypes, FailedEarly, Gap, Drawers
<1>2. \A m \in Marks : m \in Nat /\ filed[d] <= m
    BY <1>1 DEF Marks, Gap, Drawers, FiledByMarks, RunTypes, Missing
<1>3. filed[d] \in Nat
    BY <1>1 DEF Gap, Drawers, RunTypes, Missing, Undated
<1>4. PICK m \in Marks : ~(filed[d] < m)
    BY <1>1 DEF PreRunUnmarked
<1>5. filed[d] >= m /\ filed[d] <= m
    BY <1>2, <1>3, <1>4
<1> QED
    BY <1>1, <1>2, <1>5 DEF AddedDuringRun

\* What the status shows is the end of the output.
LEMMA ShownIsEnd ==
    ASSUME OutputIsEnd
    PROVE  RecentOutputLast
<1> DEFINE n == Len(outputLines)
           first == IF n > Shown THEN n - Shown + 1 ELSE 1
           m == IF n > Shown THEN Shown ELSE n
           recent == SubSeq(outputLines, first, n)
<1>1. n \in Nat /\ outputLines \in Seq(1..MaxLines)
    BY LenProperties DEF OutputIsEnd
<1>2. /\ Shown \in Nat /\ printed \in Nat /\ first \in Int /\ first >= 1 /\ m \in Nat /\ n - first + 1 = m
      /\ (first <= n <=> m # 0) /\ m <= n /\ n <= printed /\ (printed >= Shown => m = Shown)
      /\ first = n - m + 1
    <2>1. /\ Shown \in Nat /\ RingKeep \in Nat /\ Shown <= RingKeep /\ printed \in Nat
          /\ n <= printed /\ (n = printed \/ n >= RingKeep)
        BY BackfillAssumption DEF OutputIsEnd
    <2> HIDE DEF n
    <2> QED
        BY <1>1, <2>1
<1>3. \A i \in first..n : outputLines[i] \in 1..MaxLines
    <2> SUFFICES ASSUME NEW i \in first..n PROVE outputLines[i] \in 1..MaxLines
        OBVIOUS
    <2>1. i \in 1..n
        BY <1>1, <1>2
    <2> QED
        BY <1>1, <2>1, ElementOfSeq
<1> HIDE DEF first, m
<1>4. /\ recent \in Seq(1..MaxLines) /\ Len(recent) = IF first <= n THEN n - first + 1 ELSE 0
      /\ \A i \in 1..(n - first + 1) : recent[i] = outputLines[first + i - 1]
    BY <1>1, <1>2, <1>3, SubSeqProperties
<1>5. RecentOutput = recent
    BY DEF RecentOutput, first
<1> HIDE DEF recent
<1>6. Len(recent) = m /\ recent = [i \in 1..m |-> recent[i]]
    <2>1. Len(recent) = m
        BY <1>2, <1>4
    <2> QED
        BY <1>4, <2>1, LenProperties
<1>7. \A i \in 1..m : recent[i] = printed - m + i
    <2> SUFFICES ASSUME NEW i \in 1..m PROVE recent[i] = printed - m + i
        OBVIOUS
    <2>1. first + i - 1 \in 1..n /\ recent[i] = outputLines[first + i - 1]
        BY <1>1, <1>2, <1>4
    <2>2. outputLines[first + i - 1] = printed - n + (first + i - 1)
        BY <2>1 DEF OutputIsEnd
    <2> QED
        BY <1>1, <1>2, <2>1, <2>2
<1>8. recent = [i \in 1..m |-> printed - m + i]
    BY <1>6, <1>7
<1> QED
    BY <1>2, <1>5, <1>6, <1>8 DEF RecentOutputLast

\* backfill_routes.py, any drawers, runs, indexes and any length of the output
\* list: one task at a time, and a status that tells the truth about its output,
\* about the drawers its first run has failed on and about the indexes.
THEOREM BackfillCorrectHolds == BackfillSpec => []BackfillCorrect
<1>1. BackfillInit => BackfillInv
    <2> SUFFICES ASSUME BackfillInit PROVE BackfillInv
        OBVIOUS
    <2>1. /\ bfTime = 1 /\ inProgress \in BOOLEAN /\ outputLines = <<>> /\ printed = 0
          /\ runAt = [r \in Run |-> "none"] /\ todo = [r \in Run |-> {}] /\ failed = {}
          /\ filed = [r \in Row |-> Missing] /\ completed = [r \in Row |-> Missing]
          /\ index = [i \in Index |-> "absent"] /\ build = NoBuild /\ met = {}
        BY DEF BackfillInit
    <2>2. 1 \in 1..MaxBfTime
        BY BackfillAssumption
    <2>3. RunTypes
        BY <2>1, <2>2 DEF RunTypes, RunPlaces
    <2>4. BackfillAlone /\ FailedEarly
        BY <2>1 DEF BackfillAlone, FailedEarly, NothingMarked
    <2>5. OutputIsEnd
        <3>1. <<>> \in Seq(1..MaxLines) /\ Len(<<>>) = 0
            BY EmptySeq
        <3> QED
            BY <2>1, <3>1, BackfillAssumption DEF OutputIsEnd
    <2>6. NoBuild \in Builds /\ NoBuild.pc = "idle" /\ NoBuild.created = {} /\ NoBuild.already = {}
        BY DEF NoBuild, Builds
    <2>7. IndexesReported
        BY <2>1, <2>6, BackfillAssumption DEF IndexesReported
    <2> QED
        BY <2>3, <2>4, <2>5, <2>7 DEF BackfillInv
<1>2. BackfillInv /\ [BackfillNext]_backfillVars => BackfillInv'
    <2> SUFFICES ASSUME BackfillInv, [BackfillNext]_backfillVars PROVE BackfillInv'
        OBVIOUS
    <2>1. CASE UNCHANGED backfillVars
        BY <2>1 DEF backfillVars, BackfillInv, RunTypes, Drawers, FailedEarly, FirstRun, NothingMarked, FiledByMarks,
                   BackfillAlone, OutputIsEnd, IndexesReported
    <2>2. CASE RunsNext
        BY <2>2, RunStep, OutputStep, DrawerStep DEF RunsNext
    <2> QED
        BY <2>1, <2>2, IndexStep DEF BackfillNext
<1>3. BackfillInv => BackfillCorrect
    <2> SUFFICES ASSUME BackfillInv PROVE BackfillCorrect
        OBVIOUS
    <2>1. /\ build.left \subseteq Index /\ build.created \subseteq Index /\ build.already \subseteq Index
          /\ build.errors \subseteq Index
        BY DEF BackfillInv, IndexesReported, Builds
    <2>2. \A f \in BuildFields : build[f] \subseteq Index
        BY <2>1 DEF BuildFields
    <2>3. BackfillTypeOK
        BY <2>2 DEF BackfillInv, RunTypes, OutputIsEnd, IndexesReported, BackfillTypeOK, Drawers
    <2>4. RecentOutputLast /\ FailuresNotExcused
        BY ShownIsEnd, FailuresReported DEF BackfillInv
    <2>5. IndexReportTrue
        BY DEF BackfillInv, IndexesReported, IndexReportTrue
    <2> QED
        BY <2>3, <2>4, <2>5 DEF BackfillInv, BackfillCorrect
<1> QED
    BY <1>1, <1>2, <1>3, PTL DEF BackfillSpec

-----------------------------------------------------------------------------
(* Lifecycle                                                               *)

LifeTypes ==
    /\ LifecycleTypeOK
    /\ life = "recording" => Len(starts) < MaxStarts
    /\ life = "serving" => loop # "off"

\* Unless a probe has failed or a handler has held the loop since the last feed,
\* the loop sleeps in time and its sleep ends a tick after that feed.
LoopInTime == loop = "sleep" /\ ~missed => now <= wake /\ wake = fed + Tick

\* In a rebuild that began with no probe out or failed, none is, unless a handler
\* has held the loop.
RebuildCalm == rebuild /\ ~overdue => loop = "sleep" /\ ~missed

\* The entries of a history that a window ending at t covers.
FreshAt(t) == {x \in Nat : x + Window > t}
After(file, t) == Hits(file, DOMAIN file, FreshAt(t))

\* From now on the file and the history of all starts have the same number of
\* entries in the window.
SameCounts == \A t \in Nat : t >= now => Cardinality(After(restarts, t)) = Cardinality(After(starts, t))

LifeInv == LifeTypes /\ LoopInTime /\ RebuildCalm /\ SameCounts

\* A tick is shorter than WatchdogSec.
LEMMA TickFits == Tick \in Nat /\ Tick < Interval
<1>1. Interval \div 2 \in Nat /\ Interval \div 2 < Interval
    BY LifecycleAssumption
<1> QED
    BY <1>1, LifecycleAssumption DEF Tick

\* How an entry at the end counts.
LEMMA AppendCounts ==
    ASSUME NEW s \in Seq(Nat), NEW x \in Nat, NEW t \in Nat
    PROVE  /\ Cardinality(After(s, t)) \in Nat
           /\ Cardinality(After(Append(s, x), t)) = Cardinality(After(s, t)) + IF x \in FreshAt(t) THEN 1 ELSE 0
<1> DEFINE l == Len(s)
           A == After(s, t)
           B == After(Append(s, x), t)
<1>1. l \in Nat /\ DOMAIN s = 1..l
    BY LenProperties
<1>2. /\ Append(s, x) \in Seq(Nat) /\ Len(Append(s, x)) = l + 1
      /\ \A i \in 1..l : Append(s, x)[i] = s[i]
      /\ Append(s, x)[l + 1] = x
    BY AppendProperties
<1>3. DOMAIN Append(s, x) = 1..(l + 1)
    BY <1>2, LenProperties
<1> HIDE DEF l
<1>4. A \subseteq 1..l /\ l + 1 \notin A
    BY <1>1 DEF After, Hits
<1>5. IsFiniteSet(A) /\ Cardinality(A) \in Nat
    <2>1. IsFiniteSet(1..l)
        BY <1>1, FS_Interval
    <2> QED
        BY <1>4, <2>1, FS_Subset, FS_CardinalityType
<1>6. B = IF x \in FreshAt(t) THEN A \cup {l + 1} ELSE A
    <2>1. \A i \in 1..l : i \in B <=> i \in A
        BY <1>1, <1>2, <1>3 DEF After, Hits
    <2>2. l + 1 \in B <=> x \in FreshAt(t)
        BY <1>1, <1>2, <1>3 DEF After, Hits
    <2>3. B \subseteq 1..(l + 1)
        BY <1>3 DEF After, Hits
    <2>4. 1..(l + 1) = 1..l \cup {l + 1}
        BY <1>1
    <2> HIDE DEF A, B
    <2>5. CASE x \in FreshAt(t)
        BY <1>4, <2>1, <2>2, <2>3, <2>4, <2>5
    <2>6. ASSUME x \notin FreshAt(t) PROVE B = A
        <3>1. B \subseteq 1..l
            BY <2>2, <2>3, <2>4, <2>6
        <3> QED
            BY <1>4, <2>1, <3>1
    <2> QED
        BY <2>5, <2>6
<1> HIDE DEF A, B
<1>7. Cardinality(A \cup {l + 1}) = Cardinality(A) + 1
    BY <1>4, <1>5, FS_AddElement
<1>8. Cardinality(B) = Cardinality(A) + IF x \in FreshAt(t) THEN 1 ELSE 0
    BY <1>5, <1>6, <1>7
<1> QED
    BY <1>5, <1>8 DEF A, B

\* Pruning keeps what a later window covers.
LEMMA PruningKeeps ==
    ASSUME now \in Nat, NEW s \in Seq(0..now), NEW t \in Nat, t >= now
    PROVE  /\ Recent(s) \in Seq(0..now) /\ Len(Recent(s)) = Cardinality(After(s, now))
           /\ Cardinality(After(Recent(s), t)) = Cardinality(After(s, t))
<1>1. Window \in Nat
    BY LifecycleAssumption
<1>2. \A i \in DOMAIN s : s[i] \in Nat
    <2>1. DOMAIN s = 1..Len(s)
        BY LenProperties
    <2> QED
        BY <2>1, ElementOfSeq
<1> DEFINE I == {i \in DOMAIN s : s[i] + Window > now}
<1>3. I = After(s, now) /\ Recent(s) = Pick(s, I) /\ I \in SUBSET (DOMAIN s)
    BY <1>2 DEF After, Hits, FreshAt, Recent
<1>4. Hits(s, I, FreshAt(t)) = After(s, t)
    BY <1>1, <1>2 DEF After, Hits, FreshAt
<1> HIDE DEF I
<1>5. Pick(s, I) \in Seq(0..now) /\ Len(Pick(s, I)) = Cardinality(I)
    BY <1>3, PickSound
<1>6. Cardinality(After(Recent(s), t)) = Cardinality(Hits(s, I, FreshAt(t)))
    BY <1>3, PickCounts DEF After
<1> QED
    BY <1>3, <1>4, <1>5, <1>6

\* The start: lifespan() up to its yield, and a torn history.
LEMMA StartStep ==
    ASSUME LifeInv, Boot \/ RecordRestart \/ TornWrite \/ Ready
    PROVE  LifeInv'
<1>1. LifeTypes /\ LoopInTime /\ RebuildCalm /\ SameCounts
    BY DEF LifeInv
<1>2. /\ now \in 0..MaxNow /\ life \in {"down", "recording", "starting", "serving"} /\ began \in 0..now
      /\ restarts \in Seq(0..now) /\ starts \in Seq(0..now) /\ Len(starts) <= MaxStarts
      /\ fed \in 0..now /\ loop \in {"off", "sleep", "probe"} /\ wake \in 0..(MaxNow + Tick)
      /\ missed \in BOOLEAN /\ rebuild \in BOOLEAN /\ overdue \in BOOLEAN
      /\ loop # "off" => life = "serving"
      /\ rebuild => life = "serving"
    BY <1>1 DEF LifeTypes, LifecycleTypeOK
<1>3. MaxNow \in Nat /\ MaxStarts \in Nat /\ Tick \in Nat /\ now \in Nat /\ now \in 0..now
    BY <1>2, TickFits, LifecycleAssumption
<1>4. CASE Boot
    <2>1. /\ Len(starts) < MaxStarts /\ life' = "recording" /\ began' = now /\ life = "down"
          /\ UNCHANGED <<now, restarts, starts, fed, loop, wake, missed, rebuild, overdue>>
        BY <1>4 DEF Boot
    <2>2. LifeTypes'
        BY <1>2, <1>3, <2>1 DEF LifeTypes, LifecycleTypeOK, Tick
    <2>3. LoopInTime' /\ RebuildCalm' /\ SameCounts'
        BY <1>1, <2>1 DEF LoopInTime, RebuildCalm, SameCounts, Tick
    <2> QED
        BY <2>2, <2>3 DEF LifeInv
<1>5. CASE RecordRestart
    <2>1. /\ life = "recording" /\ life' = "starting"
          /\ restarts' = Append(Recent(restarts), now) /\ starts' = Append(starts, now)
          /\ UNCHANGED <<now, began, fed, loop, wake, missed, rebuild, overdue>>
        BY <1>5 DEF RecordRestart
    <2>2. Recent(restarts) \in Seq(0..now)
        <3>1. now >= now
            BY <1>3
        <3> QED
            BY <1>2, <1>3, <3>1, PruningKeeps
    <2>3. /\ restarts' \in Seq(0..now) /\ starts' \in Seq(0..now) /\ Len(starts') <= MaxStarts
        <3>1. Len(starts') = Len(starts) + 1 /\ Len(starts) \in Nat
            BY <1>2, <1>3, <2>1, AppendProperties, LenProperties
        <3>2. Len(starts) < MaxStarts
            BY <1>1, <2>1 DEF LifeTypes
        <3>3. Len(starts') <= MaxStarts
            BY <1>3, <3>1, <3>2
        <3>4. restarts' \in Seq(0..now) /\ starts' \in Seq(0..now)
            BY <1>2, <1>3, <2>1, <2>2, AppendProperties
        <3> QED
            BY <3>3, <3>4
    <2>4. LifeTypes'
        BY <1>2, <1>3, <2>1, <2>3 DEF LifeTypes, LifecycleTypeOK, Tick
    <2>5. LoopInTime' /\ RebuildCalm'
        BY <1>1, <2>1 DEF LoopInTime, RebuildCalm, Tick
    <2>6. SameCounts'
        <3> SUFFICES ASSUME NEW t \in Nat, t >= now
                     PROVE  Cardinality(After(restarts', t)) = Cardinality(After(starts', t))
            BY <2>1 DEF SameCounts, After, FreshAt
        <3>1. Cardinality(After(Recent(restarts), t)) = Cardinality(After(restarts, t))
            BY <1>2, <1>3, PruningKeeps
        <3>2. Cardinality(After(restarts, t)) = Cardinality(After(starts, t))
            BY <1>1 DEF SameCounts
        <3>3. Recent(restarts) \in Seq(Nat) /\ starts \in Seq(Nat)
            BY <1>2, <2>2
        <3>4. Cardinality(After(restarts', t))
                = Cardinality(After(Recent(restarts), t)) + IF now \in FreshAt(t) THEN 1 ELSE 0
            BY <1>3, <2>1, <3>3, AppendCounts
        <3>5. Cardinality(After(starts', t))
                = Cardinality(After(starts, t)) + IF now \in FreshAt(t) THEN 1 ELSE 0
            BY <1>3, <2>1, <3>3, AppendCounts
        <3> QED
            BY <3>1, <3>2, <3>4, <3>5
    <2> QED
        BY <2>4, <2>5, <2>6 DEF LifeInv
<1>6. CASE TornWrite
    <2>1. /\ life = "recording" /\ life' = "down" /\ restarts' = <<>> /\ starts' = <<>>
          /\ UNCHANGED <<now, began, fed, loop, wake, missed, rebuild, overdue>>
        BY <1>6 DEF TornWrite
    <2>2. <<>> \in Seq(0..now) /\ Len(<<>>) = 0
        BY EmptySeq
    <2>3. LifeTypes'
        BY <1>2, <1>3, <2>1, <2>2 DEF LifeTypes, LifecycleTypeOK, Tick
    <2>4. LoopInTime' /\ RebuildCalm'
        BY <1>1, <2>1 DEF LoopInTime, RebuildCalm, Tick
    <2>5. SameCounts'
        BY <2>1 DEF SameCounts
    <2> QED
        BY <2>3, <2>4, <2>5 DEF LifeInv
<1>7. CASE Ready
    <2>1. /\ life = "starting" /\ life' = "serving" /\ fed' = now /\ loop' = "sleep" /\ wake' = now + Tick
          /\ missed' \in BOOLEAN /\ ~missed'
          /\ UNCHANGED <<now, began, restarts, starts, rebuild, overdue>>
        BY <1>7 DEF Ready
    <2>2. wake' \in 0..(MaxNow + Tick) /\ now <= now + Tick
        BY <1>2, <1>3, <2>1
    <2>3. LifeTypes'
        BY <1>2, <1>3, <2>1, <2>2 DEF LifeTypes, LifecycleTypeOK, Tick
    <2>4. LoopInTime' /\ RebuildCalm' /\ SameCounts'
        BY <1>1, <1>2, <2>1, <2>2 DEF LoopInTime, RebuildCalm, SameCounts, Tick
    <2> QED
        BY <2>3, <2>4 DEF LifeInv
<1> QED
    BY <1>4, <1>5, <1>6, <1>7

\* The watchdog loop, rebuilds, the end of the process, the clock: no start is
\* recorded.
LEMMA WatchStep ==
    ASSUME LifeInv,
           \/ WakeFeeds \/ WakeProbes \/ \E ok \in BOOLEAN : ProbeAnswers(ok)
           \/ RebuildBegins \/ RebuildEnds \/ StopsOrCrashes \/ Abort
           \/ ClockTicks \/ HandlerBlocks
    PROVE  LifeInv'
<1>1. LifeTypes /\ LoopInTime /\ RebuildCalm /\ SameCounts
    BY DEF LifeInv
<1>2. /\ now \in 0..MaxNow /\ life \in {"down", "recording", "starting", "serving"} /\ began \in 0..now
      /\ restarts \in Seq(0..now) /\ starts \in Seq(0..now) /\ Len(starts) <= MaxStarts
      /\ fed \in 0..now /\ loop \in {"off", "sleep", "probe"} /\ wake \in 0..(MaxNow + Tick)
      /\ missed \in BOOLEAN /\ rebuild \in BOOLEAN /\ overdue \in BOOLEAN
      /\ loop # "off" => life = "serving"
      /\ rebuild => life = "serving"
      /\ life = "recording" => Len(starts) < MaxStarts
      /\ life = "serving" => loop # "off"
    BY <1>1 DEF LifeTypes, LifecycleTypeOK
<1>3. MaxNow \in Nat /\ MaxStarts \in Nat /\ Tick \in Nat /\ now \in Nat /\ now \in 0..now
    BY <1>2, TickFits, LifecycleAssumption
<1>4. UNCHANGED <<restarts, starts>>
    BY DEF WakeFeeds, WakeProbes, ProbeAnswers, RebuildBegins, RebuildEnds, StopsOrCrashes, Abort, Dies,
           ClockTicks, HandlerBlocks
<1>5. ASSUME now' = now PROVE SameCounts'
    BY <1>1, <1>4, <1>5 DEF SameCounts
<1>6. ASSUME Feed, SleepAgain, loop # "off", UNCHANGED <<now, life, began, rebuild>> PROVE LifeInv'
    <2>1. /\ fed' = now /\ missed' \in BOOLEAN /\ ~missed' /\ overdue' \in BOOLEAN /\ ~overdue'
          /\ loop' = "sleep" /\ wake' = now + Tick
        BY <1>6 DEF Feed, SleepAgain
    <2>2. wake' \in 0..(MaxNow + Tick) /\ now <= now + Tick
        BY <1>2, <1>3, <2>1
    <2>3. LifeTypes'
        BY <1>2, <1>3, <1>4, <1>6, <2>1, <2>2 DEF LifeTypes, LifecycleTypeOK, Tick
    <2>4. LoopInTime' /\ RebuildCalm'
        BY <1>6, <2>1, <2>2 DEF LoopInTime, RebuildCalm, Tick
    <2> QED
        BY <1>5, <1>6, <2>3, <2>4 DEF LifeInv
<1>7. CASE WakeFeeds
    BY <1>6, <1>7 DEF WakeFeeds, Awake
<1>8. CASE WakeProbes
    <2>1. /\ loop = "sleep" /\ ~rebuild /\ loop' = "probe"
          /\ UNCHANGED <<now, life, began, fed, wake, missed, rebuild, overdue>>
        BY <1>8 DEF WakeProbes, Awake
    <2>2. LifeTypes' /\ LoopInTime' /\ RebuildCalm'
        BY <1>2, <1>4, <2>1 DEF LifeTypes, LifecycleTypeOK, LoopInTime, RebuildCalm, Tick
    <2> QED
        BY <1>5, <2>1, <2>2 DEF LifeInv
<1>9. ASSUME NEW ok \in BOOLEAN, ProbeAnswers(ok) PROVE LifeInv'
    <2>1. loop = "probe" /\ SleepAgain /\ UNCHANGED <<now, life, began, rebuild>>
        BY <1>9 DEF ProbeAnswers
    <2>2. CASE ok
        BY <1>6, <1>9, <2>1, <2>2 DEF ProbeAnswers
    <2>3. CASE ~ok
        <3>1. /\ missed' \in BOOLEAN /\ missed' /\ UNCHANGED <<fed, overdue>>
              /\ loop' = "sleep" /\ wake' = now + Tick
            BY <1>9, <2>3 DEF ProbeAnswers, SleepAgain
        <3>2. wake' \in 0..(MaxNow + Tick) /\ now <= now + Tick
            BY <1>2, <1>3, <3>1
        <3>3. LifeTypes'
            BY <1>2, <1>3, <1>4, <2>1, <3>1, <3>2 DEF LifeTypes, LifecycleTypeOK, Tick
        <3>4. LoopInTime'
            BY <2>1, <3>1, <3>2 DEF LoopInTime
        <3>5. RebuildCalm'
            BY <1>1, <2>1, <3>1 DEF RebuildCalm
        <3> QED
            BY <1>5, <2>1, <3>3, <3>4, <3>5 DEF LifeInv
    <2> QED
        BY <2>2, <2>3
<1>10. CASE RebuildBegins
    <2>1. /\ life = "serving" /\ rebuild' \in BOOLEAN /\ overdue' \in BOOLEAN
          /\ (overdue' <=> (loop = "probe" \/ missed))
          /\ UNCHANGED <<now, life, began, fed, loop, wake, missed>>
        BY <1>10 DEF RebuildBegins
    <2>2. LifeTypes' /\ LoopInTime'
        BY <1>1, <1>2, <1>4, <2>1 DEF LifeTypes, LifecycleTypeOK, LoopInTime, Tick
    <2>3. RebuildCalm'
        BY <1>2, <2>1 DEF RebuildCalm
    <2> QED
        BY <1>5, <2>1, <2>2, <2>3 DEF LifeInv
<1>11. CASE RebuildEnds
    <2>1. /\ rebuild' \in BOOLEAN /\ ~rebuild'
          /\ UNCHANGED <<now, life, began, fed, loop, wake, missed, overdue>>
        BY <1>11 DEF RebuildEnds
    <2>2. LifeTypes' /\ LoopInTime' /\ RebuildCalm'
        BY <1>1, <1>2, <1>4, <2>1 DEF LifeTypes, LifecycleTypeOK, LoopInTime, RebuildCalm, Tick
    <2> QED
        BY <1>5, <2>1, <2>2 DEF LifeInv
<1>12. CASE StopsOrCrashes \/ Abort
    <2>1. /\ life' = "down" /\ loop' = "off" /\ rebuild' \in BOOLEAN /\ ~rebuild'
          /\ missed' \in BOOLEAN /\ overdue' \in BOOLEAN
          /\ UNCHANGED <<now, began, fed, wake>>
        BY <1>12 DEF StopsOrCrashes, Abort, Dies
    <2>2. LifeTypes' /\ LoopInTime' /\ RebuildCalm'
        BY <1>2, <1>4, <2>1 DEF LifeTypes, LifecycleTypeOK, LoopInTime, RebuildCalm, Tick
    <2> QED
        BY <1>5, <2>1, <2>2 DEF LifeInv
<1>13. CASE ClockTicks
    <2>1. /\ now < MaxNow /\ ~(loop = "sleep" /\ now >= wake) /\ now' = now + 1
          /\ UNCHANGED <<life, began, fed, loop, wake, missed, rebuild, overdue>>
        BY <1>13 DEF ClockTicks, Awake
    <2>2. now' \in 0..MaxNow /\ \A n \in 0..now : n \in 0..now'
        BY <1>2, <1>3, <2>1
    <2>3. restarts' \in Seq(0..now') /\ starts' \in Seq(0..now')
        BY <1>2, <1>4, <2>2
    <2>4. LifeTypes'
        BY <1>2, <1>4, <2>1, <2>2, <2>3 DEF LifeTypes, LifecycleTypeOK, Tick
    <2>5. LoopInTime'
        <3>1. wake \in Int
            BY <1>2, <1>3
        <3> QED
            BY <1>1, <1>3, <2>1, <3>1 DEF LoopInTime, Tick
    <2>6. RebuildCalm'
        BY <1>1, <2>1 DEF RebuildCalm
    <2>7. SameCounts'
        <3>1. \A t \in Nat : t >= now' => t >= now
            BY <1>3, <2>1
        <3> QED
            BY <1>1, <1>4, <3>1 DEF SameCounts
    <2> QED
        BY <2>4, <2>5, <2>6, <2>7 DEF LifeInv
<1>14. CASE HandlerBlocks
    <2>1. /\ now < MaxNow /\ now' = now + 1
          /\ missed' \in BOOLEAN /\ missed' /\ overdue' \in BOOLEAN /\ overdue'
          /\ UNCHANGED <<life, began, fed, loop, wake, rebuild>>
        BY <1>14 DEF HandlerBlocks
    <2>2. now' \in 0..MaxNow /\ \A n \in 0..now : n \in 0..now'
        BY <1>2, <1>3, <2>1
    <2>3. restarts' \in Seq(0..now') /\ starts' \in Seq(0..now')
        BY <1>2, <1>4, <2>2
    <2>4. LifeTypes'
        BY <1>2, <1>4, <2>1, <2>2, <2>3 DEF LifeTypes, LifecycleTypeOK, Tick
    <2>5. LoopInTime' /\ RebuildCalm'
        BY <2>1 DEF LoopInTime, RebuildCalm
    <2>6. SameCounts'
        <3>1. \A t \in Nat : t >= now' => t >= now
            BY <1>3, <2>1
        <3> QED
            BY <1>1, <1>4, <3>1 DEF SameCounts
    <2> QED
        BY <2>4, <2>5, <2>6 DEF LifeInv
<1> QED
    BY <1>7, <1>8, <1>9, <1>10, <1>11, <1>12, <1>13, <1>14

\* crash_loop.py, sd_watchdog.py and the lifespan, any intervals in which a tick
\* fits into WatchdogSec: systemd aborts the daemon only with a probe failed or
\* out or the event loop held by a handler, in a rebuild only if that was so when
\* it began or a handler holds the loop in it, and the restart count misses no
\* start of the window.
THEOREM LifecycleCorrectHolds == LifecycleSpec => []LifecycleCorrect
<1>1. LifecycleInit => LifeInv
    <2> SUFFICES ASSUME LifecycleInit PROVE LifeInv
        OBVIOUS
    <2>1. /\ now = 0 /\ life = "down" /\ began = 0 /\ restarts = <<>> /\ starts = <<>>
          /\ fed = 0 /\ loop = "off" /\ wake = 0
          /\ missed \in BOOLEAN /\ rebuild \in BOOLEAN /\ ~rebuild /\ overdue \in BOOLEAN
        BY DEF LifecycleInit
    <2>2. <<>> \in Seq(0..0) /\ Len(<<>>) = 0
        BY EmptySeq
    <2>3. 0 \in 0..MaxNow /\ 0 \in 0..0 /\ 0 \in 0..(MaxNow + Tick) /\ 0 <= MaxStarts
        BY TickFits, LifecycleAssumption
    <2>4. LifeTypes
        BY <2>1, <2>2, <2>3 DEF LifeTypes, LifecycleTypeOK
    <2>5. LoopInTime /\ RebuildCalm /\ SameCounts
        BY <2>1 DEF LoopInTime, RebuildCalm, SameCounts
    <2> QED
        BY <2>4, <2>5 DEF LifeInv
<1>2. LifeInv /\ [LifecycleNext]_lifecycleVars => LifeInv'
    <2> SUFFICES ASSUME LifeInv, [LifecycleNext]_lifecycleVars PROVE LifeInv'
        OBVIOUS
    <2>1. CASE UNCHANGED lifecycleVars
        BY <2>1 DEF lifecycleVars, LifeInv, LifeTypes, LifecycleTypeOK, LoopInTime, RebuildCalm, SameCounts, Tick
    <2> QED
        BY <2>1, StartStep, WatchStep DEF LifecycleNext
<1>3. LifeInv => LifecycleCorrect
    <2> SUFFICES ASSUME LifeInv PROVE LifecycleCorrect
        OBVIOUS
    <2>1. /\ now \in Nat /\ fed \in Nat /\ wake \in Int /\ loop \in {"off", "sleep", "probe"}
          /\ restarts \in Seq(0..now) /\ starts \in Seq(0..now) /\ (life = "serving" => loop # "off")
        BY TickFits, LifecycleAssumption DEF LifeInv, LifeTypes, LifecycleTypeOK
    <2>2. ASSUME Starved PROVE missed \/ loop = "probe"
        <3> SUFFICES ASSUME loop = "sleep", ~missed PROVE FALSE
            BY <2>1, <2>2 DEF Starved
        <3>1. now <= fed + Tick
            BY DEF LifeInv, LoopInTime
        <3> QED
            BY <2>1, <2>2, <3>1, TickFits, LifecycleAssumption DEF Starved
    <2>3. KilledOnlyWithCause
        BY <2>2 DEF KilledOnlyWithCause, LifeInv, RebuildCalm
    <2>4. RestartCountExact
        <3>1. now >= now
            BY <2>1
        <3>2. /\ Len(Recent(restarts)) = Cardinality(After(restarts, now))
              /\ Len(Recent(starts)) = Cardinality(After(starts, now))
            BY <2>1, <3>1, PruningKeeps
        <3>3. Cardinality(After(restarts, now)) = Cardinality(After(starts, now))
            BY <2>1, <3>1 DEF LifeInv, SameCounts
        <3> QED
            BY <3>2, <3>3 DEF RestartCountExact, RestartCount
    <2> QED
        BY <2>3, <2>4 DEF LifeInv, LifeTypes, LifecycleCorrect
<1> QED
    BY <1>1, <1>2, <1>3, PTL DEF LifecycleSpec

-----------------------------------------------------------------------------
(* HookTrigger                                                             *)

HookNames == {"none", "start", "compact", "stop", "precompact", "postcompact"}
HookPlaces == {"none", "begin", "greet", "record", "stamp", "answer", "detach", "inline", "done"}
Hooks ==
    [name : HookNames, pc : HookPlaces, printed : 0..2, context : BOOLEAN, count : 0..(MaxHuman + MaxTool)]
Tasks == {"diary", "ingest", "mine"}
Children == [work : SUBSET Tasks, pc : {"none", "end"} \cup Tasks, done : SUBSET Tasks]

\* A hook by its place: what it has printed, and which hook it can be.
HookByPlace(h) ==
    /\ h.pc \in {"begin", "greet", "record", "stamp", "answer"} => h.printed = 0
    /\ h.pc \in {"detach", "inline", "done"} => h.printed = 1
    /\ h.pc = "greet" => h.name = "start"
    /\ h.pc \in {"record", "stamp", "answer"} => h.name = "stop"
    /\ h.pc \in {"detach", "inline"} => h.name \in {"stop", "precompact", "postcompact"}
    /\ h.pc = "done" /\ h.name \in {"start", "compact"} => h.context

\* A child by its place: what it has done, and what its work can be.
ChildByPlace(c) ==
    /\ c.pc = "none" => c.work = {} /\ c.done = {}
    /\ c.pc = "diary" => c.done = {} /\ c.work \in {{"diary"}, {"diary", "ingest"}}
    /\ c.pc = "ingest" => \/ c.done = {"diary"} /\ c.work = {"diary", "ingest"}
                          \/ c.done = {} /\ c.work \in {{"ingest"}, {"ingest", "mine"}}
    /\ c.pc = "mine" => c.done = {"ingest"} /\ c.work = {"ingest", "mine"}
    /\ c.pc = "end" => c.done = c.work

HookShape == hook \in Hooks /\ HookByPlace(hook) /\ child \in Children /\ ChildByPlace(child)

SaveTypes ==
    /\ hookClock \in TimeSaveInterval..MaxHookClock
    /\ transcript \in [human : 0..MaxHuman, tool : 0..MaxTool] /\ strict \in BOOLEAN
    /\ lastSave \in 0..(MaxHuman + MaxTool) /\ lastSaveTs \in 0..hookClock
    /\ seen \in Nat /\ quiet \in 0..SaveInterval /\ fresh \in 0..(SaveInterval + 1)
    /\ savedAt \in 0..hookClock /\ faulty \in BOOLEAN

Counted == transcript.human + IF strict THEN 0 ELSE transcript.tool

\* The Stops that went by quietly are covered by the distance from last_save;
\* one more after a rebase.  Above the count, last_save has let none go by.
QuietCovered ==
    /\ seen <= Counted
    /\ lastSave > seen => quiet = 0
    /\ lastSave <= seen => quiet <= 1 + seen - lastSave

\* With the state files kept, they tell of the last save, or of a later rebase.
FilesTell ==
    ~faulty => savedAt <= lastSaveTs /\ (Counted - lastSave <= fresh \/ fresh >= SaveInterval)

\* A Stop that has decided to save has the count of this moment.
AboutToRecord == hook.pc \in {"record", "stamp"} => hook.count = seen /\ hook.count = Counted /\ quiet = 0

SaveBooks == SaveTypes /\ QuietCovered /\ FilesTell /\ AboutToRecord /\ NoSaveSpam

HookInv == HookShape /\ SaveBooks

\* The values a hook begins and ends with.
LEMMA HookConstants ==
    /\ NoHook \in Hooks /\ HookByPlace(NoHook) /\ NoHook.pc = "none" /\ NoHook.printed = 0
    /\ NoChild \in Children /\ ChildByPlace(NoChild) /\ NoChild.pc = "none"
<1>1. 0 \in 0..2 /\ 0 \in 0..(MaxHuman + MaxTool)
    BY HookTriggerAssumption
<1>2. NoHook \in Hooks /\ NoHook.pc = "none" /\ NoHook.printed = 0
    BY <1>1 DEF NoHook, Hooks, HookNames, HookPlaces
<1>3. NoChild \in Children /\ NoChild.pc = "none" /\ NoChild.work = {} /\ NoChild.done = {}
    BY DEF NoChild, Children, Tasks
<1> QED
    BY <1>2, <1>3 DEF HookByPlace, ChildByPlace

\* An answer is printed.
LEMMA Answered ==
    ASSUME NEW h \in Hooks, h.printed = 0
    PROVE  /\ Answer(h) \in Hooks /\ Answer(h).pc = "done" /\ Answer(h).printed = 1 /\ Answer(h).name = h.name
           /\ \A pc \in HookPlaces :
                LET g == [Printing(h) EXCEPT !.pc = pc]
                IN  g \in Hooks /\ g.pc = pc /\ g.printed = 1 /\ g.name = h.name
           /\ LET g == [Answer(h) EXCEPT !.context = TRUE]
              IN  g \in Hooks /\ g.pc = "done" /\ g.printed = 1 /\ g.name = h.name /\ g.context
<1>1. 1 \in 0..2 /\ 0 + 1 = 1
    OBVIOUS
<1>2. Printing(h) \in Hooks /\ Printing(h).printed = 1 /\ Printing(h).name = h.name
    BY <1>1 DEF Printing, Hooks
<1>3. \A pc \in HookPlaces :
        LET g == [Printing(h) EXCEPT !.pc = pc]
        IN  g \in Hooks /\ g.pc = pc /\ g.printed = 1 /\ g.name = h.name
    BY <1>2 DEF Hooks
<1>4. Answer(h) \in Hooks /\ Answer(h).pc = "done" /\ Answer(h).printed = 1 /\ Answer(h).name = h.name
    BY <1>3 DEF Answer, HookPlaces
<1>5. LET g == [Answer(h) EXCEPT !.context = TRUE]
      IN  g \in Hooks /\ g.pc = "done" /\ g.printed = 1 /\ g.name = h.name /\ g.context
    BY <1>4 DEF Hooks
<1> QED
    BY <1>3, <1>4, <1>5

\* A step that changes nothing but the hook, to a place from which no save is
\* recorded next, and the child, leaves the books in order.
LEMMA BooksKept ==
    ASSUME HookInv, UNCHANGED <<hookClock, transcript, strict, files, history>>,
           hook' = hook \/ hook'.pc \notin {"record", "stamp"}
    PROVE  SaveBooks'
BY DEF HookInv, SaveBooks, SaveTypes, QuietCovered, FilesTell, AboutToRecord, NoSaveSpam, Counted, files, history

\* The hooks' steps that save nothing, and the child's.
LEMMA AnswerStep ==
    ASSUME HookInv,
           \/ \E name \in {"start", "compact", "stop", "precompact", "postcompact"} : RunHook(name)
           \/ Return \/ HookKilled \/ Greet \/ CompactResume \/ StopSuppressed
           \/ \E block \in BOOLEAN : StopAnswers(block)
           \/ CompactHookAnswers \/ InlineEnds
    PROVE  HookInv'
<1>1. hook \in Hooks /\ HookByPlace(hook) /\ child \in Children /\ ChildByPlace(child)
    BY DEF HookInv, HookShape
<1>2. UNCHANGED <<hookClock, transcript, strict, files, history>>
    BY DEF RunHook, Return, HookKilled, Greet, CompactResume, StopSuppressed, StopAnswers, CompactHookAnswers,
           InlineEnds
<1>3. child' \in Children /\ ChildByPlace(child')
    BY <1>1, HookConstants DEF RunHook, Return, HookKilled, Greet, CompactResume, StopSuppressed, StopAnswers,
           CompactHookAnswers, InlineEnds
<1>4. ASSUME hook' \in Hooks, HookByPlace(hook'), hook'.pc \notin {"record", "stamp"} PROVE HookInv'
    BY <1>2, <1>3, <1>4, BooksKept DEF HookInv, HookShape
<1>5. ASSUME NEW name \in {"start", "compact", "stop", "precompact", "postcompact"}, RunHook(name) PROVE HookInv'
    <2>1. hook' = Enter(name, "begin")
        BY <1>5 DEF RunHook
    <2>2. hook' \in Hooks /\ hook'.pc = "begin" /\ hook'.printed = 0
        BY <2>1, HookConstants DEF Enter, Hooks, HookNames, HookPlaces
    <2> QED
        BY <1>4, <2>2 DEF HookByPlace
<1>6. CASE Return \/ HookKilled
    BY <1>4, <1>6, HookConstants DEF Return, HookKilled
<1>7. CASE Greet \/ CompactResume
    <2>1. hook.printed = 0 /\ hook' = [Answer(hook) EXCEPT !.context = TRUE]
        BY <1>1, <1>7 DEF Greet, CompactResume, HookByPlace
    <2>2. hook' \in Hooks /\ hook'.pc = "done" /\ hook'.printed = 1 /\ hook'.context
        BY <1>1, <2>1, Answered
    <2> QED
        BY <1>4, <2>2 DEF HookByPlace
<1>8. CASE StopSuppressed
    <2>1. hook.name = "stop" /\ hook.printed = 0 /\ hook' = Answer(hook)
        BY <1>1, <1>8 DEF StopSuppressed, HookByPlace
    <2>2. hook' \in Hooks /\ hook'.pc = "done" /\ hook'.printed = 1 /\ hook'.name = "stop"
        BY <1>1, <2>1, Answered
    <2> QED
        BY <1>4, <2>2 DEF HookByPlace
<1>9. ASSUME NEW block \in BOOLEAN, StopAnswers(block) PROVE HookInv'
    <2>1. /\ hook.name = "stop" /\ hook.printed = 0
          /\ hook' = Answer(hook) \/ hook' = [Printing(hook) EXCEPT !.pc = "detach"]
        BY <1>1, <1>9 DEF StopAnswers, HookByPlace
    <2>2. hook' \in Hooks /\ hook'.pc \in {"done", "detach"} /\ hook'.printed = 1 /\ hook'.name = "stop"
        <3>1. CASE hook' = Answer(hook)
            BY <1>1, <2>1, <3>1, Answered
        <3>2. CASE hook' = [Printing(hook) EXCEPT !.pc = "detach"]
            BY <1>1, <2>1, <3>2, Answered DEF HookPlaces
        <3> QED
            BY <2>1, <3>1, <3>2
    <2> QED
        BY <1>4, <2>2 DEF HookByPlace
<1>10. CASE CompactHookAnswers
    <2>1. /\ hook.name \in {"precompact", "postcompact"} /\ hook.printed = 0
          /\ hook' = [Printing(hook) EXCEPT !.pc = "detach"]
        BY <1>1, <1>10 DEF CompactHookAnswers, HookByPlace
    <2>2. hook' \in Hooks /\ hook'.pc = "detach" /\ hook'.printed = 1 /\ hook'.name = hook.name
        BY <1>1, <2>1, Answered DEF HookPlaces
    <2> QED
        BY <1>4, <2>1, <2>2 DEF HookByPlace
<1>11. CASE InlineEnds
    <2>1. hook.pc = "inline" /\ hook' = [hook EXCEPT !.pc = "done"]
        BY <1>11 DEF InlineEnds
    <2>2. hook' \in Hooks /\ hook'.pc = "done" /\ hook'.printed = hook.printed /\ hook'.name = hook.name
        BY <1>1, <2>1 DEF Hooks, HookPlaces
    <2> QED
        BY <1>1, <1>4, <2>1, <2>2 DEF HookByPlace
<1> QED
    BY <1>5, <1>6, <1>7, <1>8, <1>9, <1>10, <1>11

\* A child is detached, works and ends.
LEMMA ChildStep ==
    ASSUME HookInv,
           \/ \E forked, dir \in BOOLEAN : Detach(forked, dir)
           \/ \E ok \in BOOLEAN : ChildTask(ok) \/ ChildEnds
    PROVE  HookInv'
<1>1. hook \in Hooks /\ HookByPlace(hook) /\ child \in Children /\ ChildByPlace(child)
    BY DEF HookInv, HookShape
<1>2. UNCHANGED <<hookClock, transcript, strict, files, history>>
    BY DEF Detach, ChildTask, ChildEnds
<1>3. ASSUME NEW forked \in BOOLEAN, NEW dir \in BOOLEAN, Detach(forked, dir) PROVE HookInv'
    <2>1. /\ hook.pc = "detach" /\ hook.printed = 1 /\ hook.name \in {"stop", "precompact", "postcompact"}
          /\ \E pc \in {"done", "inline"} : hook' = [hook EXCEPT !.pc = pc]
        BY <1>1, <1>3 DEF Detach, HookByPlace
    <2>2. hook' \in Hooks /\ hook'.pc \in {"done", "inline"} /\ hook'.printed = 1 /\ hook'.name = hook.name
        BY <1>1, <2>1 DEF Hooks, HookPlaces
    <2>3. HookByPlace(hook')
        BY <2>1, <2>2 DEF HookByPlace
    <2>4. child' \in Children /\ ChildByPlace(child')
        <3>1. CASE child # NoChild
            BY <1>1, <1>3, <3>1 DEF Detach
        <3>2. CASE child = NoChild
            <4>1. child' = [work |-> Work(hook.name, dir), pc |-> FirstTask[hook.name], done |-> {}]
                BY <1>3, <3>2 DEF Detach
            <4>2. CASE hook.name = "stop"
                <5>1. Work(hook.name, dir) = {"diary", "ingest"} /\ FirstTask[hook.name] = "diary"
                    BY <4>2 DEF Work, FirstTask
                <5> QED
                    BY <4>1, <5>1 DEF Children, Tasks, ChildByPlace
            <4>3. CASE hook.name = "precompact"
                <5>1. Work(hook.name, dir) \in {{"ingest"}, {"ingest", "mine"}} /\ FirstTask[hook.name] = "ingest"
                    BY <4>3 DEF Work, FirstTask
                <5> QED
                    BY <4>1, <5>1 DEF Children, Tasks, ChildByPlace
            <4>4. CASE hook.name = "postcompact"
                <5>1. Work(hook.name, dir) = {"diary"} /\ FirstTask[hook.name] = "diary"
                    BY <4>4 DEF Work, FirstTask
                <5> QED
                    BY <4>1, <5>1 DEF Children, Tasks, ChildByPlace
            <4> QED
                BY <2>1, <4>2, <4>3, <4>4
        <3> QED
            BY <3>1, <3>2
    <2>5. SaveBooks'
        BY <1>2, <2>2, BooksKept
    <2> QED
        BY <2>2, <2>3, <2>4, <2>5 DEF HookInv, HookShape
<1>4. ASSUME NEW ok \in BOOLEAN, ChildTask(ok) \/ ChildEnds PROVE HookInv'
    <2>1. hook' = hook
        BY <1>4 DEF ChildTask, ChildEnds
    <2>2. SaveBooks'
        BY <1>2, <2>1, BooksKept
    <2>3. CASE ChildEnds
        BY <1>1, <2>1, <2>2, <2>3, HookConstants DEF ChildEnds, HookInv, HookShape
    <2>4. CASE ChildTask(ok)
        <3> DEFINE next == IF child.pc = "diary" /\ "ingest" \in child.work THEN "ingest"
                           ELSE IF child.pc = "ingest" /\ "mine" \in child.work THEN "mine"
                           ELSE "end"
        <3>1. /\ child.pc \in Tasks
              /\ child' = [child EXCEPT !.done = child.done \cup {child.pc}, !.pc = next]
            BY <2>4 DEF ChildTask, Tasks
        <3>2. next \in {"none", "end"} \cup Tasks
            BY DEF Tasks
        <3>3. /\ child' \in Children /\ child'.work = child.work /\ child'.pc = next
              /\ child'.done = child.done \cup {child.pc}
            BY <1>1, <3>1, <3>2 DEF Children
        <3>4. ChildByPlace(child')
            <4>1. CASE child.pc = "diary"
                BY <1>1, <3>3, <4>1 DEF ChildByPlace
            <4>2. CASE child.pc = "ingest"
                BY <1>1, <3>3, <4>2 DEF ChildByPlace
            <4>3. CASE child.pc = "mine"
                BY <1>1, <3>3, <4>3 DEF ChildByPlace
            <4> QED
                BY <3>1, <4>1, <4>2, <4>3 DEF Tasks
        <3> QED
            BY <1>1, <2>1, <2>2, <3>3, <3>4 DEF HookInv, HookShape
    <2> QED
        BY <1>4, <2>3, <2>4
<1> QED
    BY <1>3, <1>4

\* The session goes on, without a hook.
LEMMA SessionStep ==
    ASSUME HookInv, HumanTurn \/ ToolResult \/ RuleTightens \/ HookClockTicks
    PROVE  HookInv'
<1>1. HookShape /\ SaveTypes /\ QuietCovered /\ FilesTell
    BY DEF HookInv, SaveBooks
<1>2. hook = NoHook /\ hook' = hook /\ child' = child /\ UNCHANGED <<lastSave, lastSaveTs>> /\ hook'.pc = "none"
    BY HookConstants DEF HumanTurn, ToolResult, RuleTightens, HookClockTicks, Idle, files
<1>3. HookShape' /\ AboutToRecord' /\ NoSaveSpam'
    BY <1>1, <1>2 DEF HookShape, AboutToRecord, NoSaveSpam
<1>4. /\ MaxHuman \in Nat /\ MaxTool \in Nat /\ SaveInterval \in Nat \ {0} /\ TimeSaveInterval \in Nat
      /\ MaxHookClock \in Nat
      /\ hookClock \in TimeSaveInterval..MaxHookClock
      /\ transcript \in [human : 0..MaxHuman, tool : 0..MaxTool] /\ strict \in BOOLEAN
      /\ lastSave \in Nat /\ lastSaveTs \in 0..hookClock
      /\ seen \in Nat /\ quiet \in 0..SaveInterval /\ fresh \in 0..(SaveInterval + 1)
      /\ savedAt \in 0..hookClock /\ faulty \in BOOLEAN
    BY <1>1, HookTriggerAssumption DEF SaveTypes
<1>5. transcript.human \in 0..MaxHuman /\ transcript.tool \in 0..MaxTool
    BY <1>4
<1>6. OneMore(fresh) \in 0..(SaveInterval + 1) /\ (OneMore(fresh) = fresh + 1 \/ OneMore(fresh) >= SaveInterval)
      /\ (fresh >= SaveInterval => OneMore(fresh) >= SaveInterval)
    BY <1>4 DEF OneMore
<1>7. CASE HumanTurn
    <2>1. /\ transcript.human < MaxHuman /\ transcript' = [transcript EXCEPT !.human = transcript.human + 1]
          /\ fresh' = OneMore(fresh) /\ UNCHANGED <<hookClock, strict, seen, quiet, savedAt, faulty>>
        BY <1>7 DEF HumanTurn
    <2>2. /\ transcript' \in [human : 0..MaxHuman, tool : 0..MaxTool]
          /\ transcript'.human = transcript.human + 1 /\ transcript'.tool = transcript.tool
        <3>1. transcript.human + 1 \in 0..MaxHuman
            BY <1>4, <1>5, <2>1
        <3> QED
            BY <1>4, <2>1, <3>1
    <2>3. Counted' = Counted + 1 /\ Counted \in Nat
        BY <1>4, <1>5, <2>1, <2>2 DEF Counted
    <2>4. SaveTypes'
        BY <1>1, <1>2, <1>6, <2>1, <2>2 DEF SaveTypes
    <2>5. QuietCovered'
        BY <1>1, <1>2, <1>4, <2>1, <2>3 DEF QuietCovered
    <2>6. FilesTell'
        BY <1>1, <1>2, <1>4, <1>6, <2>1, <2>3 DEF FilesTell
    <2> QED
        BY <1>3, <2>4, <2>5, <2>6 DEF HookInv, SaveBooks
<1>8. CASE ToolResult
    <2>1. /\ transcript.tool < MaxTool /\ transcript' = [transcript EXCEPT !.tool = transcript.tool + 1]
          /\ fresh' = (IF strict THEN fresh ELSE OneMore(fresh))
          /\ UNCHANGED <<hookClock, strict, seen, quiet, savedAt, faulty>>
        BY <1>8 DEF ToolResult
    <2>2. /\ transcript' \in [human : 0..MaxHuman, tool : 0..MaxTool]
          /\ transcript'.human = transcript.human /\ transcript'.tool = transcript.tool + 1
        <3>1. transcript.tool + 1 \in 0..MaxTool
            BY <1>4, <1>5, <2>1
        <3> QED
            BY <1>4, <2>1, <3>1
    <2>3. Counted \in Nat /\ (strict => Counted' = Counted) /\ (~strict => Counted' = Counted + 1)
        BY <1>4, <1>5, <2>1, <2>2 DEF Counted
    <2>4. SaveTypes'
        BY <1>1, <1>2, <1>6, <2>1, <2>2 DEF SaveTypes
    <2>5. QuietCovered'
        BY <1>1, <1>2, <1>4, <2>1, <2>3 DEF QuietCovered
    <2>6. FilesTell'
        BY <1>1, <1>2, <1>4, <1>6, <2>1, <2>3 DEF FilesTell
    <2> QED
        BY <1>3, <2>4, <2>5, <2>6 DEF HookInv, SaveBooks
<1>9. CASE RuleTightens
    <2>1. /\ ~strict /\ strict' \in BOOLEAN /\ strict' /\ seen' = transcript.human /\ quiet' = 0
          /\ UNCHANGED <<hookClock, transcript, savedAt, fresh, faulty>>
        BY <1>9 DEF RuleTightens
    <2>2. Counted' = transcript.human /\ Counted = transcript.human + transcript.tool
        BY <1>4, <1>5, <2>1 DEF Counted
    <2>3. SaveTypes'
        BY <1>1, <1>2, <1>4, <1>5, <2>1 DEF SaveTypes
    <2>4. QuietCovered'
        BY <1>2, <1>4, <1>5, <2>1, <2>2 DEF QuietCovered
    <2>5. FilesTell'
        BY <1>1, <1>2, <1>4, <1>5, <2>1, <2>2 DEF FilesTell
    <2> QED
        BY <1>3, <2>3, <2>4, <2>5 DEF HookInv, SaveBooks
<1>10. CASE HookClockTicks
    <2>1. /\ hookClock < MaxHookClock /\ hookClock' = hookClock + 1
          /\ UNCHANGED <<transcript, strict, seen, quiet, savedAt, fresh, faulty>>
        BY <1>10 DEF HookClockTicks, history
    <2>2. hookClock' \in TimeSaveInterval..MaxHookClock /\ \A n \in 0..hookClock : n \in 0..hookClock'
        BY <1>4, <2>1
    <2>3. SaveTypes'
        BY <1>1, <1>2, <2>1, <2>2 DEF SaveTypes
    <2>4. QuietCovered' /\ FilesTell'
        BY <1>1, <1>2, <2>1 DEF QuietCovered, FilesTell, Counted
    <2> QED
        BY <1>3, <2>3, <2>4 DEF HookInv, SaveBooks
<1> QED
    BY <1>7, <1>8, <1>9, <1>10

\* The steps that read and write the two state files.
LEMMA SaveStep ==
    ASSUME HookInv,
           \/ \E written, pruned \in BOOLEAN : SessionStart(written, pruned)
           \/ \E readable, written, force \in BOOLEAN : StopDecides(readable, written, force)
           \/ \E written \in BOOLEAN : StopRecordsCount(written) \/ StopRecordsTime(written)
    PROVE  HookInv'
<1>1. HookShape /\ SaveTypes /\ QuietCovered /\ FilesTell /\ AboutToRecord
    BY DEF HookInv, SaveBooks
<1>2. hook \in Hooks /\ HookByPlace(hook) /\ child \in Children /\ ChildByPlace(child)
    BY <1>1 DEF HookShape
<1>3. /\ MaxHuman \in Nat /\ MaxTool \in Nat /\ SaveInterval \in Nat \ {0} /\ TimeSaveInterval \in Nat
      /\ MaxHookClock \in Nat /\ ForceMinInterval \in Nat /\ ForceMinInterval <= TimeSaveInterval
      /\ hookClock \in TimeSaveInterval..MaxHookClock
      /\ transcript \in [human : 0..MaxHuman, tool : 0..MaxTool] /\ strict \in BOOLEAN
      /\ lastSave \in 0..(MaxHuman + MaxTool) /\ lastSaveTs \in 0..hookClock
      /\ seen \in Nat /\ quiet \in 0..SaveInterval /\ fresh \in 0..(SaveInterval + 1)
      /\ savedAt \in 0..hookClock /\ faulty \in BOOLEAN
    BY <1>1, HookTriggerAssumption DEF SaveTypes
<1>4. hookClock \in Nat /\ hookClock \in 0..hookClock /\ 0 \in 0..(MaxHuman + MaxTool) /\ 0 \in 0..SaveInterval
      /\ 0 \in 0..(SaveInterval + 1) /\ Counted \in 0..(MaxHuman + MaxTool)
    <2>1. transcript.human \in 0..MaxHuman /\ transcript.tool \in 0..MaxTool
        BY <1>3
    <2> QED
        BY <1>3, <2>1 DEF Counted
<1>5. ASSUME NEW written \in BOOLEAN, NEW pruned \in BOOLEAN, SessionStart(written, pruned) PROVE HookInv'
    <2>1. /\ hook.name = "start" /\ hook.pc = "begin" /\ hook.printed = 0 /\ hook' = [hook EXCEPT !.pc = "greet"]
          /\ lastSaveTs' = (IF written THEN hookClock ELSE lastSaveTs)
          /\ lastSave' = (IF pruned THEN 0 ELSE lastSave)
          /\ savedAt' = hookClock /\ faulty' \in BOOLEAN /\ (faulty' <=> (faulty \/ ~written \/ pruned))
          /\ UNCHANGED <<hookClock, transcript, strict, child, seen, quiet, fresh>>
        BY <1>2, <1>5 DEF SessionStart, HookByPlace
    <2>2. hook' \in Hooks /\ hook'.pc = "greet" /\ hook'.printed = 0 /\ hook'.name = "start"
        BY <1>2, <2>1 DEF Hooks, HookPlaces
    <2>3. HookShape'
        BY <1>2, <2>1, <2>2 DEF HookShape, HookByPlace
    <2>4. SaveTypes'
        BY <1>3, <1>4, <2>1 DEF SaveTypes
    <2>5. QuietCovered'
        BY <1>1, <1>3, <2>1 DEF QuietCovered, Counted
    <2>6. FilesTell'
        BY <1>1, <1>3, <1>4, <2>1 DEF FilesTell, Counted
    <2>7. AboutToRecord' /\ NoSaveSpam'
        BY <2>2 DEF AboutToRecord, NoSaveSpam
    <2> QED
        BY <2>3, <2>4, <2>5, <2>6, <2>7 DEF HookInv, SaveBooks
<1>6. ASSUME NEW readable \in BOOLEAN, NEW written \in BOOLEAN, NEW force \in BOOLEAN,
             StopDecides(readable, written, force)
      PROVE  HookInv'
    <2> DEFINE count == CountHumanMessages(readable)
               base == Rebased(count)
               due == SaveDue(count, force)
               lost == base # lastSave /\ ~written
    <2>1. /\ hook.name = "stop" /\ hook.pc = "begin" /\ hook.printed = 0
          /\ lastSave' = (IF written THEN base ELSE lastSave)
          /\ hook' = (IF due THEN [hook EXCEPT !.pc = "record", !.count = count] ELSE Answer(hook))
          /\ quiet' = (IF due \/ lost THEN 0 ELSE IF count > seen THEN OneMore(quiet) ELSE quiet)
          /\ seen' = (IF readable THEN count ELSE seen)
          /\ faulty' \in BOOLEAN /\ (faulty' <=> (faulty \/ ~readable \/ lost))
          /\ UNCHANGED <<hookClock, transcript, strict, lastSaveTs, child, savedAt, fresh>>
        BY <1>2, <1>6 DEF StopDecides, HookByPlace
    <2>2. /\ count \in 0..(MaxHuman + MaxTool) /\ (readable => count = Counted) /\ (~readable => count = 0)
        BY <1>4 DEF CountHumanMessages, Counted
    <2>3. /\ lastSave > count => base = count
          /\ lastSave <= count => base = lastSave
        BY <1>3, <2>2 DEF Rebased
    <2>4. /\ due <=> \/ count - base >= SaveInterval /\ count > 0
                     \/ hookClock - lastSaveTs >= TimeSaveInterval /\ count - base > 0
                     \/ force /\ count - base > 0 /\ hookClock - lastSaveTs >= ForceMinInterval
        BY DEF SaveDue
    <2> HIDE DEF count, base, due
    <2>5. base \in 0..(MaxHuman + MaxTool) /\ base <= count /\ base <= lastSave /\ count \in Nat /\ lastSave \in Nat
          /\ base \in Nat
        BY <1>3, <2>2, <2>3
    <2>6. /\ due => readable /\ count > 0 /\ lastSave < count /\ base = lastSave
          /\ ~due => count - base < SaveInterval
        BY <1>3, <2>2, <2>3, <2>4, <2>5
    <2>7. OneMore(quiet) = quiet + 1
        BY <1>3 DEF OneMore
    <2>8. HookShape'
        <3>1. CASE due
            <4>1. hook' = [hook EXCEPT !.pc = "record", !.count = count]
                BY <2>1, <3>1
            <4>2. hook' \in Hooks /\ hook'.pc = "record" /\ hook'.printed = 0 /\ hook'.name = "stop"
                BY <1>2, <2>1, <2>2, <4>1 DEF Hooks, HookPlaces
            <4> QED
                BY <1>2, <2>1, <4>2 DEF HookShape, HookByPlace
        <3>2. CASE ~due
            <4>1. hook' \in Hooks /\ hook'.pc = "done" /\ hook'.printed = 1 /\ hook'.name = "stop"
                BY <1>2, <2>1, <3>2, Answered
            <4> QED
                BY <1>2, <2>1, <4>1 DEF HookShape, HookByPlace
        <3> QED
            BY <3>1, <3>2
    <2>9. Counted' = Counted
        BY <2>1 DEF Counted
    <2>10. /\ seen' \in Nat /\ seen' <= Counted /\ (readable => seen' = count /\ count >= seen)
           /\ (~readable => seen' = seen)
        BY <1>1, <1>3, <1>4, <2>1, <2>2 DEF QuietCovered
    <2>11. quiet' \in 0..SaveInterval /\ (lastSave' > seen' => quiet' = 0)
           /\ (lastSave' <= seen' => quiet' <= 1 + seen' - lastSave')
        <3>1. CASE due \/ lost
            <4>1. quiet' = 0 /\ lastSave' \in Nat /\ seen' \in Nat
                BY <2>1, <2>5, <2>10, <3>1
            <4>2. \A a, b \in Nat : a <= b => 0 <= 1 + b - a
                OBVIOUS
            <4> QED
                BY <1>4, <4>1, <4>2
        <3>2. CASE ~due /\ ~lost /\ readable
            <4>1. lastSave' = base
                BY <2>1, <3>2
            <4>2. seen' = count /\ count >= seen /\ quiet' \in {quiet, quiet + 1} /\ (count = seen => quiet' = quiet)
                BY <1>3, <2>1, <2>5, <2>7, <2>10, <3>2
            <4>3. quiet' <= 1 + count - base
                <5>1. CASE lastSave > seen
                    BY <1>1, <1>3, <2>5, <4>2, <5>1 DEF QuietCovered
                <5>2. CASE lastSave <= seen
                    <6>1. base = lastSave /\ quiet <= 1 + seen - lastSave
                        BY <1>1, <1>3, <2>3, <2>5, <4>2, <5>2 DEF QuietCovered
                    <6>2. CASE count = seen
                        BY <4>2, <6>1, <6>2
                    <6>3. CASE count > seen
                        BY <1>3, <2>5, <4>2, <6>1, <6>3
                    <6> QED
                        BY <1>3, <2>5, <4>2, <6>2, <6>3
                <5> QED
                    BY <1>3, <2>5, <5>1, <5>2
            <4>4. quiet' \in Nat /\ quiet' <= SaveInterval
                BY <1>3, <2>5, <2>6, <3>2, <4>2, <4>3
            <4> QED
                BY <1>3, <2>5, <4>1, <4>2, <4>3, <4>4
        <3>3. CASE ~due /\ ~lost /\ ~readable
            <4>1. count = 0 /\ quiet' = quiet /\ seen' = seen /\ lastSave' = base /\ base <= lastSave
                BY <1>3, <2>1, <2>2, <2>5, <2>10, <3>3
            <4> QED
                BY <1>1, <1>3, <2>5, <4>1 DEF QuietCovered
        <3> QED
            BY <3>1, <3>2, <3>3
    <2>12. SaveTypes'
        <3>1. lastSave' \in 0..(MaxHuman + MaxTool)
            BY <1>3, <2>1, <2>5
        <3> QED
            BY <1>3, <2>1, <2>10, <2>11, <3>1 DEF SaveTypes
    <2>13. QuietCovered'
        BY <2>9, <2>10, <2>11 DEF QuietCovered
    <2>14. FilesTell'
        <3> SUFFICES ASSUME ~faulty'
                     PROVE  savedAt <= lastSaveTs /\ (Counted - lastSave' <= fresh \/ fresh >= SaveInterval)
            BY <2>1, <2>9 DEF FilesTell
        <3>1. /\ ~faulty /\ readable /\ ~lost /\ lastSave' = base /\ count = Counted
              /\ savedAt <= lastSaveTs /\ (Counted - lastSave <= fresh \/ fresh >= SaveInterval)
            BY <1>1, <2>1, <2>2 DEF FilesTell
        <3>2. Counted - base <= Counted - lastSave \/ Counted - base = 0
            BY <2>3, <2>5, <3>1
        <3> QED
            BY <1>3, <2>5, <3>1, <3>2
    <2>15. AboutToRecord'
        <3>1. CASE due
            <4>1. hook'.count = count /\ quiet' = 0
                BY <1>2, <2>1, <3>1 DEF Hooks
            <4> QED
                BY <2>2, <2>6, <2>9, <2>10, <3>1, <4>1 DEF AboutToRecord
        <3>2. CASE ~due
            BY <1>2, <2>1, <3>2, Answered DEF AboutToRecord
        <3> QED
            BY <3>1, <3>2
    <2>16. NoSaveSpam'
        <3>1. CASE ~due \/ faulty
            BY <1>2, <2>1, <3>1, Answered DEF NoSaveSpam
        <3>2. ASSUME due, ~faulty
              PROVE  hookClock - savedAt >= ForceMinInterval \/ fresh >= SaveInterval
            <4>1. /\ base = lastSave /\ count = Counted /\ savedAt <= lastSaveTs
                  /\ (Counted - lastSave <= fresh \/ fresh >= SaveInterval)
                BY <1>1, <2>2, <2>6, <3>2 DEF FilesTell
            <4>2. count - base >= SaveInterval \/ hookClock - lastSaveTs >= ForceMinInterval
                BY <1>3, <1>4, <2>4, <3>2
            <4> QED
                BY <1>3, <1>4, <2>5, <4>1, <4>2
        <3> QED
            BY <2>1, <3>1, <3>2 DEF NoSaveSpam
    <2> QED
        BY <2>8, <2>12, <2>13, <2>14, <2>15, <2>16 DEF HookInv, SaveBooks
<1>7. ASSUME NEW written \in BOOLEAN, StopRecordsCount(written) PROVE HookInv'
    <2>1. /\ hook.pc = "record" /\ hook' = [hook EXCEPT !.pc = "stamp"]
          /\ lastSave' = (IF written THEN hook.count ELSE lastSave)
          /\ UNCHANGED <<hookClock, transcript, strict, lastSaveTs, child, seen, quiet, savedAt, fresh, faulty>>
        BY <1>7 DEF StopRecordsCount, history
    <2>2. hook.count = seen /\ hook.count = Counted /\ quiet = 0 /\ hook.printed = 0 /\ hook.name = "stop"
        BY <1>1, <1>2, <2>1 DEF AboutToRecord, HookByPlace
    <2>3. /\ hook' \in Hooks /\ hook'.pc = "stamp" /\ hook'.printed = 0 /\ hook'.name = "stop"
          /\ hook'.count = hook.count
        BY <1>2, <2>1, <2>2 DEF Hooks, HookPlaces
    <2>4. HookShape'
        BY <1>2, <2>1, <2>3 DEF HookShape, HookByPlace
    <2>5. SaveTypes'
        BY <1>3, <1>4, <2>1, <2>2 DEF SaveTypes
    <2>6. Counted' = Counted
        BY <2>1 DEF Counted
    <2>7. QuietCovered'
        BY <1>1, <1>3, <1>4, <2>1, <2>2, <2>6 DEF QuietCovered
    <2>8. FilesTell'
        BY <1>1, <1>3, <1>4, <2>1, <2>2, <2>6 DEF FilesTell
    <2>9. AboutToRecord' /\ NoSaveSpam'
        BY <2>1, <2>2, <2>3, <2>6 DEF AboutToRecord, NoSaveSpam
    <2> QED
        BY <2>4, <2>5, <2>7, <2>8, <2>9 DEF HookInv, SaveBooks
<1>8. ASSUME NEW written \in BOOLEAN, StopRecordsTime(written) PROVE HookInv'
    <2>1. /\ hook.pc = "stamp" /\ hook' = [hook EXCEPT !.pc = "answer"]
          /\ lastSaveTs' = (IF written THEN hookClock ELSE lastSaveTs)
          /\ savedAt' = hookClock /\ fresh' = 0
          /\ faulty' \in BOOLEAN /\ (faulty' <=> (~written \/ lastSave # hook.count))
          /\ UNCHANGED <<hookClock, transcript, strict, lastSave, child, seen, quiet>>
        BY <1>8 DEF StopRecordsTime
    <2>2. hook.count = seen /\ hook.count = Counted /\ quiet = 0 /\ hook.printed = 0 /\ hook.name = "stop"
        BY <1>1, <1>2, <2>1 DEF AboutToRecord, HookByPlace
    <2>3. hook' \in Hooks /\ hook'.pc = "answer" /\ hook'.printed = 0 /\ hook'.name = "stop"
        BY <1>2, <2>1, <2>2 DEF Hooks, HookPlaces
    <2>4. HookShape'
        BY <1>2, <2>1, <2>3 DEF HookShape, HookByPlace
    <2>5. SaveTypes'
        BY <1>3, <1>4, <2>1, <2>2 DEF SaveTypes
    <2>6. Counted' = Counted
        BY <2>1 DEF Counted
    <2>7. QuietCovered'
        BY <1>1, <1>3, <1>4, <2>1, <2>2, <2>6 DEF QuietCovered
    <2>8. FilesTell'
        BY <1>3, <1>4, <2>1, <2>2, <2>6 DEF FilesTell
    <2>9. AboutToRecord' /\ NoSaveSpam'
        BY <2>3 DEF AboutToRecord, NoSaveSpam
    <2> QED
        BY <2>4, <2>5, <2>7, <2>8, <2>9 DEF HookInv, SaveBooks
<1> QED
    BY <1>5, <1>6, <1>7, <1>8

\* clients/hook.py, any intervals and any length of a session: at most
\* SAVE_INTERVAL Stops with new exchanges go by before one sets out to save, no
\* save comes too soon while each state file can be kept (a Stop killed between
\* the two included), every hook prints one object, and a
\* child does all of its work.
THEOREM HooksCorrectHolds == HookSpec => []HooksCorrect
<1>1. HookInit => HookInv
    <2> SUFFICES ASSUME HookInit PROVE HookInv
        OBVIOUS
    <2>1. /\ hookClock = TimeSaveInterval /\ transcript = [human |-> 0, tool |-> 0] /\ strict \in BOOLEAN
          /\ lastSave = 0 /\ lastSaveTs = 0 /\ hook = NoHook /\ child = NoChild
          /\ seen = 0 /\ quiet = 0 /\ savedAt = 0 /\ fresh = 0 /\ faulty \in BOOLEAN
        BY DEF HookInit
    <2>2. HookShape
        BY <2>1, HookConstants DEF HookShape
    <2>3. /\ TimeSaveInterval \in TimeSaveInterval..MaxHookClock /\ 0 \in 0..MaxHuman /\ 0 \in 0..MaxTool
          /\ 0 \in 0..(MaxHuman + MaxTool) /\ 0 \in 0..TimeSaveInterval /\ 0 \in Nat /\ 0 \in 0..SaveInterval
          /\ 0 \in 0..(SaveInterval + 1)
        BY HookTriggerAssumption
    <2>4. SaveTypes
        BY <2>1, <2>3 DEF SaveTypes
    <2>5. Counted = 0
        BY <2>1 DEF Counted
    <2>6. QuietCovered /\ FilesTell
        BY <2>1, <2>5 DEF QuietCovered, FilesTell
    <2>7. AboutToRecord /\ NoSaveSpam
        BY <2>1, HookConstants DEF AboutToRecord, NoSaveSpam
    <2> QED
        BY <2>2, <2>4, <2>6, <2>7 DEF HookInv, SaveBooks
<1>2. HookInv /\ [HookNext]_hookVars => HookInv'
    <2> SUFFICES ASSUME HookInv, [HookNext]_hookVars PROVE HookInv'
        OBVIOUS
    <2>1. CASE UNCHANGED hookVars
        <3>1. UNCHANGED <<hookClock, transcript, strict, files, history>> /\ hook' = hook /\ child' = child
            BY <2>1 DEF hookVars
        <3>2. SaveBooks'
            BY <3>1, BooksKept
        <3> QED
            BY <3>1, <3>2 DEF HookInv, HookShape
    <2> QED
        BY <2>1, AnswerStep, ChildStep, SessionStep, SaveStep DEF HookNext, Stop
<1>3. HookInv => HooksCorrect
    <2> SUFFICES ASSUME HookInv PROVE HooksCorrect
        OBVIOUS
    <2>1. hook \in Hooks /\ HookByPlace(hook) /\ child \in Children /\ ChildByPlace(child)
        BY DEF HookInv, HookShape
    <2>2. hook.name \in HookNames /\ hook.printed \in 0..2 /\ child.work \subseteq Tasks
        BY <2>1 DEF Hooks, Children
    <2>3. child.done \subseteq child.work
        BY <2>1 DEF ChildByPlace, Children, Tasks
    <2>4. {quiet, fresh} \subseteq 0..(SaveInterval + 1) /\ quiet <= SaveInterval
        BY HookTriggerAssumption DEF HookInv, SaveBooks, SaveTypes
    <2>5. HookTypeOK
        BY <2>2, <2>3, <2>4 DEF HookInv, SaveBooks, SaveTypes, HookTypeOK, HookNames, Tasks
    <2>6. HookAnswersOnce /\ ChildDoesAll
        BY <2>1 DEF HookAnswersOnce, HookByPlace, ChildDoesAll, ChildByPlace
    <2> QED
        BY <2>4, <2>5, <2>6 DEF HooksCorrect, HookInv, SaveBooks, SavesResume
<1> QED
    BY <1>1, <1>2, <1>3, PTL DEF HookSpec

=============================================================================
