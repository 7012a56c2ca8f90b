----------------------------- MODULE PoolLease -----------------------------
(***************************************************************************)
(* What main.py promises those who share the host with it.  A run has the  *)
(* pools of the suite's names on lease: it takes a name only while nobody  *)
(* has it, it begins to test when it holds every pool it needs, and it     *)
(* gives back no pool but its own; a test may destroy one of them.  Others *)
(* come and go under the same names, but the run stands still while they   *)
(* do, and a reboot takes every pool away.                                 *)
(***************************************************************************)
EXTENDS Naturals

CONSTANTS Pools, Nobody, Stranger,
          Fragile  \* the pools a test may destroy

VARIABLES holder,  \* per pool: the run that made it, Nobody or Stranger
          needs,   \* the pools a run cannot test without
          run,     \* number of the run
          phase,   \* "out", "setup", "testing" or "leaving"
          place    \* where the run is: every step of its own, and only such
                   \* a step, moves it

vars == <<holder, needs, run, phase, place>>

Init ==
    /\ holder \in [Pools -> {Nobody, Stranger}] /\ needs \subseteq Pools
    /\ run = 0 /\ phase = "out"

Equipped == \A p \in needs : holder[p] = run

Launch ==
    /\ phase = "out" /\ phase' = "setup" /\ run' = run + 1 /\ place' # place
    /\ UNCHANGED <<holder, needs>>

Take(p) ==
    /\ phase = "setup" /\ holder[p] = Nobody
    /\ holder' = [holder EXCEPT ![p] = run]

GiveBack(p) ==
    /\ phase \in {"setup", "leaving"} /\ holder[p] = run
    /\ holder' = [holder EXCEPT ![p] = Nobody]

Destroy(p) ==
    /\ phase = "testing" /\ p \in Fragile /\ holder[p] = run
    /\ holder' = [holder EXCEPT ![p] = Nobody]

(* A run may be over at any time, and tests no more once it leaves. *)
Onwards == CASE phase = "setup"   -> {"setup", "testing", "leaving", "out"}
             [] phase = "testing" -> {"testing", "leaving", "out"}
             [] phase = "leaving" -> {"leaving", "out"}
             [] OTHER             -> {}

Step ==
    /\ place' # place
    /\ UNCHANGED holder \/ \E p \in Pools : Take(p) \/ GiveBack(p) \/ Destroy(p)
    /\ phase' \in Onwards
    /\ phase = "setup" /\ phase' = "testing" => Equipped'
    /\ UNCHANGED <<needs, run>>

Other(p) ==
    /\ holder[p] \in {Nobody, Stranger}
    /\ \E h \in {Nobody, Stranger} : holder' = [holder EXCEPT ![p] = h]
    /\ UNCHANGED <<needs, run, phase, place>>

Reboot ==
    /\ phase = "out" /\ holder' = [p \in Pools |-> Nobody]
    /\ UNCHANGED <<needs, run, phase, place>>

Next == Launch \/ Step \/ (\E p \in Pools : Other(p)) \/ Reboot

Spec == Init /\ [][Next]_vars
=============================================================================
