------------------------- MODULE AnnouncedSnapshot -------------------------
(***************************************************************************)
(* What the status snapshot promises those who read it, without threads,   *)
(* locks, ages or generations: what is shown was true, it is never         *)
(* replaced by something older, and unless it is marked it reflects every  *)
(* change that was announced before.  StatusSnapshot implements it.        *)
(***************************************************************************)
EXTENDS Naturals

CONSTANT None      \* nothing has been shown yet

VARIABLES
    contents,   \* version of what the snapshot is about
    announced,  \* the version at the last announcement
    shown,      \* the version the snapshot shows
    marked      \* the snapshot is known to be behind

promiseVars == <<contents, announced, shown, marked>>

Init == contents = 0 /\ announced = 0 /\ shown = None /\ marked = FALSE

Change == contents' = contents + 1 /\ UNCHANGED <<announced, shown, marked>>

Announce == announced' = contents /\ marked' = TRUE /\ UNCHANGED <<contents, shown>>

\* A version is shown that is not newer than the contents nor older than the
\* one it replaces; only one that covers the announcements is shown unmarked.
Show(v, m) ==
    /\ v <= contents /\ (shown # None => shown <= v)
    /\ m \/ announced <= v
    /\ shown' = v /\ marked' = m
    /\ UNCHANGED <<contents, announced>>

Catchup == marked /\ shown # None /\ \E v \in 0..contents : Show(v, FALSE)

Next == Change \/ Announce \/ \E v \in 0..contents, m \in BOOLEAN : Show(v, m)

Spec == Init /\ [][Next]_promiseVars

\* A marked snapshot is eventually replaced by an unmarked one.
FairSpec == Spec /\ WF_promiseVars(Catchup)
=============================================================================
