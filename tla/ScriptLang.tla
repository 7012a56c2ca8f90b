----------------------------- MODULE ScriptLang -----------------------------
(***************************************************************************)
(* The words in which the test scripts of cimtest/ are written down.       *)
(*                                                                         *)
(* A script is a straight program with many ways out: it makes guests,     *)
(* pools and files on the host, looks at what the providers say of them,   *)
(* and removes what it made; each call may fail, by its result or by an    *)
(* exception, and the script then carries on, jumps to its handler or      *)
(* returns.  A step is such a call (or a row of calls whose failures leave *)
(* the same way), and an exit says what becomes of the script's status and *)
(* where it goes on.  What the script compares is left out; where each     *)
(* disagreement leads is not.                                              *)
(***************************************************************************)
EXTENDS Sequences, Naturals

Verdicts == {"PASS", "FAIL", "SKIP", "XFAIL"}

(* Code runs from "main" through "more" to "tail" and returns; "undo" and  *)
(* "undo2" are handlers, from which the script returns.                    *)
Sections == {"main", "more", "tail", "undo", "undo2"}

Exit == [v : Verdicts \cup {"same"},
         to : (Sections \ {"main"}) \cup {"next", "return"}]

To(v, t) == [v |-> v, to |-> t]

Go      == To("same", "next")     \* the result is dropped
Passed  == To("PASS", "next")     \* status = PASS
Failed  == To("FAIL", "next")     \* status = FAIL, but on with the next step
Out     == To("FAIL", "return")   \* return FAIL, or an exception no try holds
Leave   == To("same", "return")   \* return status
Skipped == To("SKIP", "return")
Known   == To("XFAIL", "return")  \* return XFAIL_RC(bug)
ToTail  == To("FAIL", "tail")     \* the except clause sets FAIL; then the tail
Hidden  == To("same", "tail")     \* on to the tail, status as it is
Undo    == To("FAIL", "undo")
XTail   == To("XFAIL", "tail")    \* XFAIL_RC(bug) after the tail
PassTail == To("PASS", "tail")
SkipTail == To("SKIP", "tail")
PassUndo == To("PASS", "undo")
Undo2   == To("FAIL", "undo2")
ToMore  == To("FAIL", "more")
Skipping == To("SKIP", "next")
Knowing == To("XFAIL", "next")

(* Things a script may make.  A guest is its definition and its running    *)
(* domain, each with a life of its own; a second guest has its own pair.   *)
Things == {"dom", "run", "dom2", "run2", "net", "net2", "netdef", "pool",
           "pooldef", "suitepool", "vol", "file", "dir", "exports", "mount", "bridge", "filter",
           "sub", "snap", "image", "proc"}

(* What is written over when it is there already, and what has a name that *)
(* nobody else uses: mkdtemp and mktemp choose one, a directory is made    *)
(* only where none is, and /etc/exports is put aside (module NetfsPool).   *)
Overwritten == {"image"}
Private == {"file", "dir", "exports"}

Acts == {"make", "start", "refuse", "drop", "check", "gate"}

Step == [act : Acts, on : SUBSET Things,
         ok : SUBSET Exit, fail : SUBSET Exit]

Do(act, on, fail) == [act |-> act, on |-> on, ok |-> {Go}, fail |-> fail]

(* A call that makes things, one that removes them and may fail, one whose *)
(* failure to remove is not looked at, and one that only looks.            *)
Make(on, fail)   == Do("make", on, fail)
DropOr(on, fail) == Do("drop", on, fail)
Drop(on)         == Do("drop", on, {Go})
Check(fail)      == Do("check", {}, fail)

(* A call that may leave what it makes though it fails. *)
Begin(on, fail) == Do("start", on, fail)

(* A call that is to be refused: all is well when it is, and what it makes *)
(* when it is not is there.                                                *)
Refused(on, fail) == Do("refuse", on, fail)

(* status is the result of the call; the script divides by the kind of      *)
(* hypervisor or by a version.                                             *)
Sets(s)    == [s EXCEPT !.ok = {Passed}]
Gate(es)   == [act |-> "gate", on |-> {}, ok |-> {Go} \cup es, fail |-> {}]
Say(v)     == [act |-> "gate", on |-> {}, ok |-> {To(v, "next")}, fail |-> {}]
Forks(s, es) == [s EXCEPT !.ok = @ \cup es]
Return(v)  == [act |-> "gate", on |-> {}, ok |-> {To(v, "return")}, fail |-> {}]

Jump(sec) == [act |-> "gate", on |-> {}, ok |-> {To("same", sec)}, fail |-> {}]

(* A loop over cases: what comes after a case is another case. *)
Twice(steps) == steps \o steps

(* create_netpool_conf and NetXML: when the name of the bridge is taken    *)
(* NetXML ends the program with SKIP, past all handlers.                   *)
MakeNet(on, fail) == Make(on, fail \cup {Skipped})

(* subscribe and unsubscribe raise, half-way it may be, or the CIMOM        *)
(* answers with an error that nobody reads (module Indications).           *)
Subscribe   == Begin({"sub"}, {Go, Out})
Unsubscribe == DropOr({"sub"}, {Go, Out})

(* The guest commands of XenKvmLib/vxml.py: cim_define and define;         *)
(* cim_start, which asks for a state and polls for it; start, which waits; *)
(* destroy; undefine; cim_destroy, which takes definition and domain.      *)
Define(fail) == Make({"dom"}, fail)
Start(fail)  == Begin({"run"}, fail)
Boot(fail)   == Make({"run"}, fail)
Destroy      == Drop({"run"})
Undefine     == Drop({"dom"})
CimDestroy   == Drop({"dom", "run"})
Define2(fail) == Make({"dom2"}, fail)
Start2(fail)  == Begin({"run2"}, fail)
Undefine2     == Drop({"dom2"})
CimDestroy2   == Drop({"dom2", "run2"})

(* destroy_and_undefine_all at the head of a main, once more after that of  *)
(* do_main: it raises when it cannot list the domains.                     *)
Reclean == Check({Out})

(* try_assoc: the provider answers instead of refusing (XFAIL_RC), refuses  *)
(* for another reason (FAIL), or is not reached.  A row of these goes on    *)
(* after a failure, and a later XFAIL takes the place of a FAIL.           *)
TryAssoc(sec) == Refused({}, {To("FAIL", sec), To("XFAIL", sec), Out})
Tries == Twice(<<TryAssoc("next")>>)

(* The script divides: what follows is for one case, the section named for *)
(* the other.                                                              *)
OrGo(sec) == Gate({To("same", sec)})

(* A script: the status it starts with, and its sections. *)
Script(v, main, tail) ==
    [init |-> v,
     code |-> [main |-> main, more |-> <<>>, tail |-> tail, undo |-> <<>>,
               undo2 |-> <<>>]]
WithUndo(s, undo) == [s EXCEPT !.code.undo = undo]
WithUndo2(s, undo) == [s EXCEPT !.code.undo2 = undo]
WithMore(s, more) == [s EXCEPT !.code.more = more]

(* Scripts that make nothing: one that looks at instances, and one that     *)
(* takes the keys of an instance, spoils one and waits for the CIM error.   *)
Looking == Script("FAIL", <<Sets(Check({Out}))>>, <<>>)
Probing == Script("FAIL", <<Check({Out}), Sets(Refused({}, {Out}))>>, <<>>)

(* And one that asks for an instance by a key it made up. *)
Asking == Script("FAIL", <<Sets(Refused({}, {Out}))>>, <<>>)

IsScript(s) == s.init \in Verdicts /\ s.code \in [Sections -> Seq(Step)]
=============================================================================
