---------------------------- MODULE Indications ----------------------------
(***************************************************************************)
(* How a script waits for CIM indications (XenKvmLib/indications.py, and   *)
(* the main of the RASDIndications scripts that drive it).                 *)
(*                                                                         *)
(* The parent subscribes to every kind of indication, one listener port    *)
(* each.  Then, kind by kind, it forks a child that serves the port of the *)
(* kind (handle_request), does what triggers the indication, and polls for *)
(* the child's exit (poll_for_ind).  The child unsubscribes its kind when  *)
(* the indication came; the parent, at the end, unsubscribes them all.     *)
(*                                                                         *)
(* The CIMOM delivers late or not at all, and to every listener registered *)
(* ("sfcb delivers indications to all registrations").  A call to it may   *)
(* fail in the parent and in the child; and since __do_cimpost throws the  *)
(* reply away, a call that the CIMOM refuses goes on as one that worked.   *)
(***************************************************************************)
EXTENDS Naturals, FiniteSets, Sequences

CONSTANTS Kinds,     \* the keys of ind_names
          MaxPolls,  \* timeout of poll_for_ind
          Burst,     \* bound: indications of one kind per listener
          Faults     \* a subset of AllFaults

(* "post": __do_cimpost meets an IOError and exits.  "raise": it raises, as *)
(* on a bad status line.  "refuse": the CIMOM answers a CreateInstance or  *)
(* a DeleteInstance with a CIM error.  "trigger": a call of the script's   *)
(* own, the one that should trigger the indication or the one that         *)
(* destroys the guest in the end, fails.  "lost": the indication never     *)
(* comes.  "bad": a connection to the port carries no indication.          *)
AllFaults == {"post", "raise", "refuse", "trigger", "lost", "bad"}

ASSUME IndAssumption ==
    /\ IsFiniteSet(Kinds) /\ Kinds # {}
    /\ MaxPolls \in Nat /\ Burst \in Nat \ {0}
    /\ Faults \subseteq AllFaults

VARIABLES
    reg,      \* per kind: which of its Parts the CIMOM has
    kept,     \* what the CIMOM refused to delete in the parent's last loop
    flight,   \* flight[j][k]: indications of kind k on their way to, or in
              \* the backlog of, the listener of kind j
    left,     \* kinds the parent's loop has still to take
    ind,      \* the kind at hand
    pc,       \* where the parent is
    todo,     \* per kind: calls left in the loop the parent is in
    polls,    \* rounds of poll_for_ind gone by
    status,   \* status of the parent
    child,    \* where the child is
    ctodo,    \* per kind: calls the child has left
    served,   \* indications the child has taken
    got       \* kinds whose child saw its indication

vars == <<reg, kept, flight, left, ind, pc, todo, polls, status,
          child, ctodo, served, got>>

Parts      == {"filter", "handler", "subscription"}
Registered == {k \in Kinds : reg[k] = Parts}

AllCalls == [k \in Kinds |-> 3]
NoCalls  == [k \in Kinds |-> 0]

ParentPcs == {"subscribe", "fork", "trigger", "poll", "raised", "next",
              "unsubscribe", "done", "off"}
(* "tail": the child has left the branch of the child and runs the end of  *)
(* main; "exit0", "exit1", "missed": it has exited, not yet reaped.        *)
ChildPcs  == {"none", "serve", "unsubscribe", "tail", "exit0", "exit1",
              "missed", "killed", "reaped"}

TypeOK ==
    /\ reg \in [Kinds -> SUBSET Parts] /\ kept \subseteq Kinds \X Parts
    /\ todo \in [Kinds -> 0..3] /\ ctodo \in [Kinds -> 0..3]
    /\ flight \in [Kinds -> [Kinds -> 0..Burst]]
    /\ left \subseteq Kinds /\ ind \in Kinds /\ got \subseteq Kinds
    /\ pc \in ParentPcs /\ polls \in 0..MaxPolls
    /\ status \in {"PASS", "FAIL"}
    /\ child \in ChildPcs /\ served \in 0..Cardinality(Kinds)

(* Scripts cut short may have left instances of the same names.            *)
Init ==
    /\ reg \in [Kinds -> SUBSET Parts] /\ kept = {}
    /\ flight = [j \in Kinds |-> [k \in Kinds |-> 0]]
    /\ left = Kinds /\ ind \in Kinds /\ got = {}
    /\ pc = "subscribe" /\ todo = AllCalls /\ polls = 0 /\ status = "FAIL"
    /\ child = "none" /\ ctodo = NoCalls /\ served = 0

parent == <<kept, left, ind, pc, todo, polls, status>>
son    == <<child, ctodo, served, got>>

-----------------------------------------------------------------------------
(***************************************************************************)
(* Calls to the CIMOM                                                      *)
(***************************************************************************)
(* The part that a call of subscribe makes, and the one that a call of     *)
(* unsubscribe deletes, by the number of calls left for the kind.          *)
Making   == <<"subscription", "handler", "filter">>
Deleting == <<"filter", "handler", "subscription">>

(* The kinds of the next call: the one whose calls are begun, if any.      *)
NextOf(calls) ==
    LET begun == {k \in Kinds : calls[k] \in {1, 2}}
    IN  IF begun # {} THEN begun ELSE {k \in Kinds : calls[k] = 3}

CallMade(calls, k) == [calls EXCEPT ![k] = @ - 1]

(* What the CIMOM has of the parts of the kinds. *)
Instances == {s \in Kinds \X Parts : s[2] \in reg[s[1]]}

(* A CreateInstance or DeleteInstance of __do_cimpost, answered somehow.   *)
PostCreate(k, n) ==
    \/ reg' = [reg EXCEPT ![k] = @ \cup {Making[n]}]
    \/ "refuse" \in Faults /\ UNCHANGED reg

PostDelete(k, n) ==
    \/ reg' = [reg EXCEPT ![k] = @ \ {Deleting[n]}]
    \/ "refuse" \in Faults /\ UNCHANGED reg

-----------------------------------------------------------------------------
(***************************************************************************)
(* The parent                                                              *)
(***************************************************************************)
(* sub_ind *)
Subscribe(k) ==
    /\ pc = "subscribe" /\ k \in NextOf(todo)
    /\ PostCreate(k, todo[k]) /\ todo' = CallMade(todo, k)
    /\ pc' = IF todo' = NoCalls THEN "fork" ELSE pc
    /\ UNCHANGED <<kept, flight, left, ind, polls, status, son>>

(* A failing call ends the process: nothing catches the exit in sub_ind or *)
(* in the last loop of main.                                               *)
PostFails ==
    /\ pc \in {"subscribe", "unsubscribe"}
    /\ {"post", "raise"} \cap Faults # {}
    /\ pc' = "off"
    /\ UNCHANGED <<reg, kept, flight, left, ind, todo, polls, status, son>>

(* for ind in ind_names.keys(): pid = fork() *)
Fork(k) ==
    /\ pc = "fork" /\ k \in left
    /\ ind' = k /\ left' = left \ {k}
    /\ child' = "serve" /\ served' = 0
    /\ pc' = "trigger" /\ polls' = 0
    /\ UNCHANGED <<reg, kept, flight, todo, status, ctodo, got>>

(* What the CIMOM sends when something of kind k happens: to the listener  *)
(* of the kind, unless it is lost, and maybe to the others.  What goes to  *)
(* a listener the parent is through with is never looked at.               *)
Deliver(k) ==
    \E n \in [Kinds -> 0..Burst] :
        /\ \A j \in Kinds : n[j] > 0 => j \in Registered \cap (left \cup {ind})
        /\ k \in Registered /\ "lost" \notin Faults => n[k] > 0
        /\ flight' = [j \in Kinds |-> [flight[j] EXCEPT ![k] = n[j]]]

(* gen_indication *)
Trigger ==
    /\ pc = "trigger" /\ Deliver(ind)
    /\ \/ pc' = "poll"
       \/ "trigger" \in Faults /\ pc' = "raised"
    /\ UNCHANGED <<reg, kept, left, ind, todo, polls, status, son>>

(* Mutant: a poll that goes on for ever. *)
PollEndless ==
    /\ pc = "poll"
    /\ IF child = "exit0" THEN status' = "PASS" /\ pc' = "next"
       ELSE UNCHANGED <<status, pc>>
    /\ UNCHANGED <<reg, kept, flight, left, ind, todo, polls, son>>

(* One round of poll_for_ind: waitpid finds the child gone, or still there *)
(* (then it sleeps); after MaxPolls rounds the loop is over.  The branch   *)
(* that kills the child is for a child still there with i >= timeout,      *)
(* which i, in range(0, timeout), never is.                                *)
Poll ==
    /\ pc = "poll"
    /\ \/ /\ polls = MaxPolls
          /\ status' = "FAIL" /\ pc' = "raised"
          /\ UNCHANGED <<polls, child>>
       \/ /\ polls < MaxPolls /\ child = "exit0"
          /\ status' = "PASS" /\ pc' = "next" /\ child' = "reaped"
          /\ UNCHANGED polls
       \/ /\ polls < MaxPolls /\ child \in {"exit1", "missed"}
          /\ status' = "FAIL" /\ pc' = "raised" /\ child' = "reaped"
          /\ UNCHANGED polls
       \/ /\ polls < MaxPolls /\ child \in {"serve", "unsubscribe", "tail"}
          /\ polls' = polls + 1
          /\ UNCHANGED <<status, pc, child>>
    /\ UNCHANGED <<reg, kept, flight, left, ind, todo, ctodo, served, got>>

(* Mutant: the except clause does not kill the child. *)
NoKill ==
    /\ pc = "raised" /\ pc' = "next" /\ status' = "FAIL"
    /\ UNCHANGED <<reg, kept, flight, left, ind, todo, polls, son>>

(* except: kill(pid, SIGKILL).  For a child already reaped kill raises,    *)
(* which the outer except takes in the same way.                           *)
KillChild ==
    /\ pc = "raised" /\ pc' = "next" /\ status' = "FAIL"
    /\ child' = IF child = "reaped" THEN child ELSE "killed"
    /\ ctodo' = NoCalls
    /\ UNCHANGED <<reg, kept, flight, left, ind, todo, polls, served, got>>

(* Mutant: the loop goes on after a failure, as in the main of             *)
(* ComputerSystemIndication/01_created_indication.py.                      *)
GoesOn ==
    /\ pc = "next"
    /\ IF left = {} THEN pc' = "unsubscribe" /\ todo' = AllCalls
                    ELSE pc' = "fork" /\ UNCHANGED todo
    /\ UNCHANGED <<reg, kept, flight, left, ind, polls, status, son>>

(* if status != PASS: break *)
NextKind ==
    /\ pc = "next"
    /\ IF status # "PASS" \/ left = {}
          THEN pc' = "unsubscribe" /\ todo' = AllCalls
          ELSE pc' = "fork" /\ UNCHANGED todo
    /\ UNCHANGED <<reg, kept, flight, left, ind, polls, status, son>>

(* Mutant: only what the loop has not taken is unsubscribed. *)
UnsubscribeLeft ==
    /\ pc = "unsubscribe"
    /\ \/ \E k \in NextOf(todo) \cap left :
             /\ PostDelete(k, todo[k]) /\ todo' = CallMade(todo, k)
             /\ kept' = kept \cup ({<<k, Deleting[todo[k]]>>} \cap Instances')
             /\ UNCHANGED pc
       \/ /\ \A k \in left : todo[k] = 0
          /\ pc' = "done" /\ UNCHANGED <<reg, todo, kept>>
    /\ UNCHANGED <<flight, left, ind, polls, status, son>>

(* for ind, sub in sub_list: sub.unsubscribe(), then main returns status,  *)
(* or FAIL if the guest is still active and cannot be destroyed.           *)
UnsubscribeAll ==
    /\ pc = "unsubscribe"
    /\ \/ \E k \in NextOf(todo) :
             /\ PostDelete(k, todo[k]) /\ todo' = CallMade(todo, k)
             /\ kept' = kept \cup ({<<k, Deleting[todo[k]]>>} \cap Instances')
             /\ UNCHANGED <<pc, status>>
       \/ /\ todo = NoCalls
          /\ pc' = "done" /\ UNCHANGED <<reg, todo, kept>>
          /\ status' = status \/ ("trigger" \in Faults /\ status' = "FAIL")
    /\ UNCHANGED <<flight, left, ind, polls, son>>

Parent ==
    \/ \E k \in Kinds : Subscribe(k) \/ Fork(k)
    \/ PostFails \/ Trigger \/ Poll \/ KillChild \/ NextKind
    \/ UnsubscribeAll

-----------------------------------------------------------------------------
(***************************************************************************)
(* The child                                                               *)
(***************************************************************************)
(* Mutant: one round of handle_request too many. *)
TakeOneMore(k) ==
    /\ child = "serve" /\ flight[ind][k] > 0
    /\ flight' = [flight EXCEPT ![ind][k] = @ - 1]
    /\ served' = served + 1
    /\ \/ /\ k = ind /\ child' = "unsubscribe" /\ got' = got \cup {k}
          /\ ctodo' = [NoCalls EXCEPT ![k] = 3]
       \/ /\ k # ind /\ UNCHANGED <<got, ctodo>>
          /\ child' = IF served = Cardinality(Kinds) THEN "missed"
                                                     ELSE "serve"
    /\ UNCHANGED <<reg, parent>>

(* A round of handle_request: an indication arrives.  That of another kind *)
(* is dropped; after exp_ind_ct rounds the child gives up.  That of its    *)
(* own kind makes it call sub.unsubscribe().                               *)
Take(k) ==
    /\ child = "serve" /\ flight[ind][k] > 0
    /\ flight' = [flight EXCEPT ![ind][k] = @ - 1]
    /\ served' = served + 1
    /\ \/ /\ k = ind /\ child' = "unsubscribe" /\ got' = got \cup {k}
          /\ ctodo' = [NoCalls EXCEPT ![k] = 3]
       \/ /\ k # ind /\ UNCHANGED <<got, ctodo>>
          /\ child' = IF served' = Cardinality(Kinds) THEN "missed"
                                                      ELSE "serve"
    /\ UNCHANGED <<reg, parent>>

(* "No valid indications received" *)
TakeNothing ==
    /\ child = "serve" /\ "bad" \in Faults
    /\ child' = "exit1"
    /\ UNCHANGED <<reg, flight, parent, ctodo, served, got>>

(* sub.unsubscribe() for its kind, then _exit(0); or, at the end of main,  *)
(* for all kinds, then the exit with FAIL.                                 *)
ChildUnsubscribe ==
    /\ \/ /\ child \in {"unsubscribe", "tail"} /\ UNCHANGED child
          /\ \E k \in NextOf(ctodo) :
                PostDelete(k, ctodo[k]) /\ ctodo' = CallMade(ctodo, k)
       \/ /\ ctodo = NoCalls /\ UNCHANGED <<reg, ctodo>>
          /\ \/ child = "unsubscribe" /\ child' = "exit0"
             \/ child = "tail" /\ child' = "exit1"
    /\ UNCHANGED <<flight, parent, served, got>>

(* A call of the child fails: with an exit, or with an exception.  The     *)
(* exception of the first kind's calls is caught by the handlers of main,  *)
(* so that the child falls out of the loop and runs the end of main as the *)
(* parent would; there nothing catches the next one.                       *)
ChildPostFails ==
    /\ \/ child \in {"unsubscribe", "tail"} /\ "post" \in Faults
          /\ child' = "exit1" /\ ctodo' = NoCalls
       \/ child = "unsubscribe" /\ "raise" \in Faults
          /\ child' = "tail" /\ ctodo' = AllCalls
       \/ child = "tail" /\ "raise" \in Faults
          /\ child' = "exit1" /\ ctodo' = NoCalls
    /\ UNCHANGED <<reg, flight, parent, served, got>>

Child ==
    \/ \E k \in Kinds : Take(k)
    \/ TakeNothing \/ ChildUnsubscribe \/ ChildPostFails

Next == Parent \/ Child

Spec == Init /\ [][Next]_vars

(* The parent never blocks: it calls, sleeps a second, and polls again.    *)
(* The child may wait for an indication for ever.                          *)
FairSpec == Spec /\ WF_vars(Parent)

-----------------------------------------------------------------------------
(***************************************************************************)
(* Properties                                                              *)
(***************************************************************************)
(* A script passes only if each indication arrived at its own listener     *)
(* ("used to verify the Created|Deleted RASD Indications").                *)
PassMeansSeen == pc = "done" /\ status = "PASS" => got = Kinds

(* The parent takes the next kind, or cleans up, with no child left at     *)
(* work: one that serves a port, or one that unsubscribes beside it.       *)
NoStrayChild ==
    pc \in {"fork", "next", "unsubscribe", "done"} =>
        child \notin {"serve", "unsubscribe", "tail"}

(* When the script returns, the only filters, handlers and subscriptions   *)
(* left at the CIMOM are those it refused to delete in the parent's last   *)
(* loop, whichever of parent and child deleted the others, was refused     *)
(* before or was killed while it did ("Make sure all subscriptions are     *)
(* really unsubscribed").                                                  *)
Unsubscribed == pc = "done" => Instances \subseteq kept

(* Every script comes to its end, whatever the CIMOM does. *)
ScriptEnds == <>(pc \in {"done", "off"})
=============================================================================
