-------------------------- MODULE StateChangeProofs --------------------------
(***************************************************************************)
(* What StateChange promises of a verdict, for any number of calls and of  *)
(* looks, and for any faults.                                              *)
(***************************************************************************)
EXTENDS StateChange, TLAPS

(* A request in doubt is the only one, and is under way only while the     *)
(* guest is in another state than the one it leads to.                     *)
Doubtful ==
    doubt = "this" =>
        \/ moving = {}
        \/ enabled # want /\ \E r \in Requests : moving = {r} /\ EnState(r) = want

(* What was seen is no older than the request. *)
Fresh == pc = "compare" /\ doubt = "this" /\ seen = want => moving = {}

Places ==
    /\ pc \in {"look", "compare"} => call \in {"cim", "poll"}
    /\ pc \in {"get", "request"} => call # "poll"
    /\ refused => pc \in {"idle", "look", "compare"}

Inv == TypeOK /\ Settled /\ Doubtful /\ Fresh /\ Places /\ RefusalNoticed

LEMMA EnStates == \A r \in Requests : EnState(r) \in States
  BY DEF Requests, States, EnState

-----------------------------------------------------------------------------
LEMMA InitInv == Init => Inv
<1> SUFFICES ASSUME Init PROVE Inv
  OBVIOUS
<1> USE DEF Init
<1>1. calls \in 0..MaxCalls /\ polls \in 0..MaxPolls
  BY StateAssumption
<1>2. TypeOK
  BY <1>1 DEF TypeOK, States, Requests, Calls
<1>3. RefusalNoticed
  BY DEF RefusalNoticed
<1>4. QED
  BY <1>2, <1>3 DEF Inv, Settled, Doubtful, Fresh, Places

LEMMA StepTypes == TypeOK /\ [Next]_vars => TypeOK'
<1> SUFFICES ASSUME TypeOK, [Next]_vars PROVE TypeOK'
  OBVIOUS
<1> USE StateAssumption, EnStates DEF TypeOK, guest, thecall, ghosts
<1>1. CASE Begin
  <2>1. calls' \in 0..MaxCalls /\ polls' \in 0..MaxPolls
    BY <1>1 DEF Begin
  <2>2. pc' \in {"idle", "get", "request", "look", "compare"}
    BY <1>1 DEF Begin
  <2>3. QED
    BY <1>1, <2>1, <2>2 DEF Begin
<1>2. CASE Get
  BY <1>2 DEF Get, Return
<1>3. CASE Accept
  BY <1>3 DEF Accept, Proceed
<1>4. CASE Refuse
  BY <1>4 DEF Refuse, Proceed, Return
<1>5. CASE Look
  BY <1>5 DEF Look, Looks, Left, Return
<1>6. CASE Compare
  BY <1>6 DEF Compare, Return
<1>7. CASE GiveUp
  BY <1>7 DEF GiveUp, Return
<1>8. CASE Arrive
  BY <1>8 DEF Arrive
<1>9. CASE Crash
  BY <1>9 DEF Crash, States
<1>10. CASE UNCHANGED vars
  BY <1>10 DEF vars
<1>11. QED
  BY <1>1, <1>2, <1>3, <1>4, <1>5, <1>6, <1>7, <1>8, <1>9, <1>10
  DEF Next, Script

LEMMA StepInv == Inv /\ [Next]_vars => Inv'
<1> SUFFICES ASSUME Inv, [Next]_vars PROVE Inv'
  OBVIOUS
<1>0. TypeOK'
  BY StepTypes DEF Inv
<1> USE <1>0 DEF Inv, TypeOK, Settled, Doubtful, Fresh, Places, RefusalNoticed,
       guest, thecall, ghosts
<1>1. CASE Begin
  BY <1>1 DEF Begin
<1>2. CASE Get
  BY <1>2 DEF Get, Return
<1>3. CASE Accept
  BY <1>3 DEF Accept, Proceed
<1>4. CASE Refuse
  BY <1>4 DEF Refuse, Proceed, Return
<1>5. CASE Look
  BY <1>5 DEF Look, Looks, Return
<1>6. CASE Compare
  BY <1>6 DEF Compare, Matches, Return
<1>7. CASE GiveUp
  BY <1>7 DEF GiveUp, Return
<1>8. CASE Arrive
  BY <1>8 DEF Arrive
<1>9. CASE Crash
  BY <1>9 DEF Crash
<1>10. CASE UNCHANGED vars
  BY <1>10 DEF vars
<1>11. QED
  BY <1>1, <1>2, <1>3, <1>4, <1>5, <1>6, <1>7, <1>8, <1>9, <1>10
  DEF Next, Script

LEMMA Invariant == Spec => []Inv
<1>1. QED
  BY InitInv, StepInv, PTL DEF Spec

-----------------------------------------------------------------------------
(* Every variable keeps its type; no call looks more often than it may. *)
THEOREM Types == Spec => []TypeOK
<1>1. Inv => TypeOK
  BY DEF Inv
<1>2. QED
  BY <1>1, Invariant, PTL

(* Requests that were seen carried out leave nothing under way. *)
THEOREM NothingUnderWay == Spec => []Settled
<1>1. Inv => Settled
  BY DEF Inv
<1>2. QED
  BY <1>1, Invariant, PTL

(* A request turned down by its ReturnValue passes in cim_state_change     *)
(* only if the same one was taken before.                                  *)
THEOREM RefusalsNoticed == Spec => []RefusalNoticed
<1>1. Inv => RefusalNoticed
  BY DEF Inv
<1>2. QED
  BY <1>1, Invariant, PTL
-----------------------------------------------------------------------------
(***************************************************************************)
(* A call returns in bounded time.  What it has still to do shrinks with   *)
(* each of its steps, and the guest cannot make it more; that the steps    *)
(* are taken is the fairness of FairSpec, which TLC uses for CallsEnd.     *)
(***************************************************************************)
Rank == CASE pc = "idle"    -> 0  [] pc = "look"    -> 1
          [] pc = "compare" -> 2  [] pc = "request" -> 3  [] pc = "get" -> 4

ToGo == IF pc = "idle" THEN 0 ELSE Rank + 2 * polls

LEMMA ToGoBounded ==
  ASSUME TypeOK
  PROVE  ToGo \in 0..(2 * MaxPolls + 4) /\ (ToGo = 0 <=> pc = "idle")
<1>1. 2 * polls \in 0..(2 * MaxPolls)
  BY StateAssumption DEF TypeOK
<1>2. Rank \in 0..4 /\ (Rank = 0 <=> pc = "idle")
  BY DEF TypeOK, Rank
<1>3. QED
  BY <1>1, <1>2, StateAssumption DEF ToGo

LEMMA ScriptNearer == ASSUME TypeOK, Script PROVE ToGo' < ToGo
<1> USE StateAssumption DEF TypeOK, ToGo, Rank
<1>1. CASE Get
  BY <1>1 DEF Get, Return
<1>2. CASE Accept
  BY <1>2 DEF Accept, Proceed
<1>3. CASE Refuse
  BY <1>3 DEF Refuse, Proceed, Return
<1>4. CASE Look
  BY <1>4 DEF Look, Looks, Left, Return
<1>5. CASE Compare
  BY <1>5 DEF Compare, Return
<1>6. CASE GiveUp
  BY <1>6 DEF GiveUp, Return
<1>7. QED
  BY <1>1, <1>2, <1>3, <1>4, <1>5, <1>6 DEF Script

(* A call returns after 2 * MaxPolls + 4 steps of its own at most, even if *)
(* the guest never comes to the state: whatever the guest does takes none  *)
(* of them back (cim_state_change, poll_for_state_change).                 *)
THEOREM CallsAreShort ==
  Spec => /\ [](ToGo \in 0..(2 * MaxPolls + 4) /\ (ToGo = 0 <=> pc = "idle"))
          /\ [][pc # "idle" =>
                  ToGo' < ToGo \/ ((Arrive \/ Crash) /\ UNCHANGED ToGo)]_vars
<1>1. TypeOK =>
        ToGo \in 0..(2 * MaxPolls + 4) /\ (ToGo = 0 <=> pc = "idle")
  BY ToGoBounded
<1>2. TypeOK /\ [Next]_vars =>
        [pc # "idle" =>
           ToGo' < ToGo \/ ((Arrive \/ Crash) /\ UNCHANGED ToGo)]_vars
  <2> SUFFICES ASSUME TypeOK, Next, pc # "idle"
               PROVE  ToGo' < ToGo \/ ((Arrive \/ Crash) /\ UNCHANGED ToGo)
    OBVIOUS
  <2>1. CASE Script
    BY <2>1, ScriptNearer
  <2>2. CASE Arrive \/ Crash
    <3>1. pc' = pc /\ polls' = polls
      BY <2>2 DEF Arrive, Crash
    <3>2. QED
      BY <2>2, <3>1 DEF ToGo, Rank
  <2>3. QED
    BY <2>1, <2>2 DEF Next, Begin
<1>3. QED
  BY <1>1, <1>2, Types, PTL DEF Spec
=============================================================================
