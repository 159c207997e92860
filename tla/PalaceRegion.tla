---------------------------- MODULE PalaceRegion ----------------------------
(***************************************************************************)
(* What admission promises about the palace, without semaphores, permits,  *)
(* queues, threads or timeouts: many users may be in it, at most one of    *)
(* them a miner, or one owner alone.  CallGate implements it.              *)
(***************************************************************************)
CONSTANTS Tasks,  \* who may come
          Miners  \* those among them that mine, as users or as owners

VARIABLES users,  \* the tasks that use the palace beside each other
          owner   \* the task that has it to itself, if any

regionVars == <<users, owner>>

Init == users = {} /\ owner = {}

Enter(p) ==
    /\ owner = {} /\ p \notin users
    /\ p \in Miners => users \cap Miners = {}
    /\ users' = users \cup {p}
    /\ UNCHANGED owner

Exit(p) == p \in users /\ users' = users \ {p} /\ UNCHANGED owner

Seize(h) == users = {} /\ owner = {} /\ owner' = {h} /\ UNCHANGED users

Yield(h) == owner = {h} /\ owner' = {} /\ UNCHANGED users

Next == \E p \in Tasks : Enter(p) \/ Exit(p) \/ Seize(p) \/ Yield(p)

Spec == Init /\ [][Next]_regionVars
=============================================================================
