----------------------------- MODULE StateChange ----------------------------
(***************************************************************************)
(* State changes of one guest, as the scripts of ComputerSystem ask for    *)
(* them one after another (XenKvmLib/vxml.py, cim_state_change and         *)
(* check_guest_state; common_util.py, call_request_state_change,           *)
(* try_request_state_change and poll_for_state_change).                    *)
(*                                                                         *)
(* RequestStateChange returns when the provider has taken the request; the *)
(* guest comes to its new state at a time of its own, or never, or goes    *)
(* down by itself.  The calls look at the instance a bounded number of     *)
(* times and say PASS when a look shows the state they are about.          *)
(***************************************************************************)
EXTENDS Naturals

CONSTANTS MaxCalls,  \* bound: calls of the script
          MaxPolls,  \* looks of a call, 30 in the code
          Faults     \* a subset of AllFaults

(* "refuse": the provider turns a request down, by an exception.  "code":  *)
(* it does so by the ReturnValue, which no caller looks at.  "lost": it    *)
(* takes the request, but its answer is lost and the call raises.          *)
AllFaults == {"get", "refuse", "code", "lost", "absent", "raise", "crash"}

ASSUME StateAssumption ==
    MaxCalls \in Nat /\ MaxPolls \in Nat \ {0} /\ Faults \subseteq AllFaults

(* What the scripts ask for, and the EnabledState that comes of it.        *)
Requests == {"enable", "disable", "pause", "suspend", "reboot", "reset"}
States   == {"on", "off", "paused", "suspended"}

EnState(r) == CASE r = "disable" -> "off"
                [] r = "pause"   -> "paused"
                [] r = "suspend" -> "suspended"
                [] OTHER         -> "on"

(* cim_state_change; call_ and try_request_state_change; poll_for_...      *)
Calls == {"cim", "call", "try", "poll"}

VARIABLES
    enabled,    \* EnabledState of the guest
    requested,  \* RequestedState, as the provider keeps it
    moving,     \* requests taken and not carried out yet
    pc,         \* where the script is
    calls,      \* how many calls it has made
    call, req,  \* the call it is in, or was in last, and what that is about
    polls,      \* looks left
    seen,       \* EnabledState at the last look, or "absent"
    verdict,    \* what the last call has returned
    refused,    \* the provider has turned down the request of that call
    doubt,      \* "none"; "this" request, not seen carried out; "ever"
    want        \* the state a request in doubt leads to

vars == <<enabled, requested, moving, pc, calls, call, req, polls, seen,
          verdict, refused, doubt, want>>
guest  == <<enabled, requested, moving>>
thecall == <<calls, call, req>>
ghosts == <<doubt, want>>

TypeOK ==
    /\ enabled \in States /\ requested \in Requests \cup {"none"}
    /\ moving \subseteq Requests
    /\ pc \in {"idle", "get", "request", "look", "compare"}
    /\ calls \in 0..MaxCalls /\ call \in Calls /\ req \in Requests
    /\ polls \in 0..MaxPolls /\ seen \in States \cup {"absent"}
    /\ verdict \in {"PASS", "FAIL"} /\ refused \in BOOLEAN
    /\ doubt \in {"none", "this", "ever"} /\ want \in States

(* A guest that has been defined. *)
Init ==
    /\ enabled = "off" /\ requested = "none" /\ moving = {}
    /\ pc = "idle" /\ calls = 0 /\ call = "cim" /\ req = "enable"
    /\ polls = 0 /\ seen = "absent" /\ verdict = "PASS" /\ refused = FALSE
    /\ doubt = "none" /\ want = "off"

-----------------------------------------------------------------------------
(***************************************************************************)
(* The guest and its provider (external)                                   *)
(***************************************************************************)
Arrive ==
    /\ \E r \in moving : enabled' = EnState(r) /\ moving' = moving \ {r}
    /\ UNCHANGED <<requested, pc, thecall, polls, seen, verdict, refused, ghosts>>

(* A guest that goes down takes along what it was asked to do. *)
Crash ==
    /\ "crash" \in Faults /\ enabled # "off"
    /\ enabled' = "off" /\ moving' = {}
    /\ UNCHANGED <<requested, pc, thecall, polls, seen, verdict, refused, ghosts>>

-----------------------------------------------------------------------------
(***************************************************************************)
(* The calls                                                               *)
(***************************************************************************)
(* The call returns v.  A PASS of a call that looked for the state in      *)
(* doubt ends the doubt.                                                   *)
Return(v) ==
    /\ pc' = "idle" /\ verdict' = v
    /\ doubt' = IF /\ v = "PASS" /\ call \in {"cim", "poll"}
                   /\ doubt = "this" /\ EnState(req) = want
                THEN "none" ELSE doubt
    /\ UNCHANGED want

Begin ==
    /\ pc = "idle" /\ calls < MaxCalls /\ calls' = calls + 1
    /\ call' \in Calls /\ req' \in Requests
    /\ pc' = IF call' = "poll" THEN "look" ELSE "get"
    /\ polls' = MaxPolls /\ refused' = FALSE
    /\ UNCHANGED <<guest, seen, verdict, ghosts>>

(* The instance is fetched first: a call without one fails. *)
Get ==
    /\ pc = "get"
    /\ \/ pc' = "request" /\ UNCHANGED <<verdict, ghosts>>
       \/ "get" \in Faults /\ Return("FAIL")
    /\ UNCHANGED <<guest, thecall, polls, seen, refused>>

(* What follows a request that raised nothing: cim_state_change looks for  *)
(* the state, the others return.                                           *)
Proceed ==
    /\ pc' = IF call = "cim" THEN "look" ELSE "idle"
    /\ verdict' = CASE call = "call" -> "PASS" [] call = "try" -> "FAIL"
                    [] OTHER -> verdict

(* The provider takes the request.  If another is in doubt, or the guest   *)
(* is in the state already, no look will tell when it has been carried out. *)
Accept ==
    /\ pc = "request"
    /\ moving' = moving \cup {req} /\ requested' = req
    /\ doubt' = IF doubt = "none" /\ enabled # EnState(req) THEN "this" ELSE "ever"
    /\ want' = EnState(req)
    /\ Proceed \/ ("lost" \in Faults /\ pc' = "idle" /\ verdict' = "FAIL")
    /\ UNCHANGED <<enabled, thecall, polls, seen, refused>>

(* Or refuses: with the exception try_request_state_change is after, or    *)
(* another; or with a ReturnValue, as if it had taken it.                  *)
Refuse ==
    /\ pc = "request" /\ refused' = TRUE
    /\ \/ /\ "refuse" \in Faults
          /\ \E v \in {"FAIL"} \cup (IF call = "try" THEN {"PASS"} ELSE {}) :
                Return(v)
       \/ "code" \in Faults /\ Proceed /\ UNCHANGED ghosts
    /\ UNCHANGED <<guest, thecall, polls, seen>>

(* A look at the instance, of which there may be none.  In cim_state_change *)
(* each look is followed by the comparison, in poll_for_state_change by a  *)
(* second of sleep and the comparison; without an instance it looks again. *)
Looks(s) == seen' = s /\ polls' = polls - 1

(* Mutant: one look more than there are. *)
LeftOneMore == polls + 1 > 0

Left == polls > 0

Look ==
    /\ pc = "look" /\ Left
    /\ \/ Looks(enabled) /\ pc' = "compare" /\ UNCHANGED <<verdict, ghosts>>
       \/ /\ "absent" \in Faults /\ Looks("absent")
          /\ UNCHANGED <<pc, verdict, ghosts>>
       \/ /\ "raise" \in Faults /\ call = "poll" /\ Looks(seen)
          /\ Return("FAIL")
    /\ UNCHANGED <<guest, thecall, refused>>

(* Mutant: only RequestedState is compared. *)
MatchesRequest == IF call = "cim" THEN requested = req ELSE seen = EnState(req)

(* Mutant: RequestedState is not compared. *)
MatchesState == seen = EnState(req)

(* The state that was looked for; check_guest_state reads RequestedState   *)
(* in the same instance.                                                   *)
Matches == seen = EnState(req) /\ (call = "cim" => requested = req)

(* Mutant: the looks are not counted. *)
CompareAgain ==
    /\ pc = "compare"
    /\ \/ Matches /\ Return("PASS") /\ UNCHANGED polls
       \/ ~Matches /\ pc' = "look" /\ polls' = polls + 1 /\ UNCHANGED <<verdict, ghosts>>
    /\ UNCHANGED <<guest, thecall, seen, refused>>

Compare ==
    /\ pc = "compare"
    /\ \/ Matches /\ Return("PASS")
       \/ ~Matches /\ pc' = "look" /\ UNCHANGED <<verdict, ghosts>>
    /\ UNCHANGED <<guest, thecall, polls, seen, refused>>

(* No look is left, and none has shown the state. *)
GiveUp ==
    /\ pc = "look" /\ ~Left /\ Return("FAIL")
    /\ UNCHANGED <<guest, thecall, polls, seen, refused>>

Script == Get \/ Accept \/ Refuse \/ Look \/ Compare \/ GiveUp

Next == Begin \/ Script \/ Arrive \/ Crash

Spec == Init /\ [][Next]_vars

(* The calls are one process whose requests all return.  Of the guest      *)
(* nothing is assumed: it may stay as it is for ever.                      *)
FairSpec == Spec /\ WF_vars(Script)

-----------------------------------------------------------------------------
(***************************************************************************)
(* Properties                                                              *)
(***************************************************************************)
(* When each request so far has asked for a state the guest was not in,    *)
(* and a PASS has been given for its arrival before the next was made,     *)
(* nothing is under way behind the script's back: what it looks at next is *)
(* not changed by what it has done before.                                 *)
Settled == doubt = "none" => moving = {}

(* A request that was turned down by its ReturnValue, which nobody looks   *)
(* at, is not taken for done by cim_state_change, though the guest may be  *)
(* in the state already or come to it by an earlier request: unless the    *)
(* last request that was taken is the same (the RequestedState in          *)
(* check_guest_state).                                                     *)
RefusalNoticed ==
    pc = "idle" /\ call = "cim" /\ verdict = "PASS" /\ refused =>
        requested = req

(* Each call returns, though the guest may never come to the state and the *)
(* provider may never show it.                                             *)
CallsEnd == pc # "idle" ~> pc = "idle"
=============================================================================
