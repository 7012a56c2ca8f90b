----------------------------- MODULE ScriptRun ------------------------------
(***************************************************************************)
(* One test script from its first call to its exit code, on a host where   *)
(* any call may fail and where things of the names it uses may lie about   *)
(* already.  Table gives the scripts; do_try of const.do_main runs one.    *)
(***************************************************************************)
EXTENDS ScriptRules

CONSTANTS Table,     \* the scripts, by name
          Hiding,    \* those that may pass though a call has failed
          Leaving,   \* those that may leave more than guests behind
          Grabbing,  \* those that may touch what others have made
          Littering  \* those that may leave something though they pass

ASSUME TableAssumption == \A s \in DOMAIN Table : IsScript(Table[s])

(* All scripts are Forthright, all but those named keep the other rules. *)
ASSUME RulesAssumption ==
    /\ \A s \in DOMAIN Table : Forthright(Table[s])
    /\ \A s \in DOMAIN Table \ Hiding : Sound(Table[s])
    /\ \A s \in DOMAIN Table \ Leaving : Tidy(Table[s])
    /\ \A s \in DOMAIN Table \ Littering : Thorough(Table[s])
    /\ \A s \in DOMAIN Table \ Grabbing : Gentle(Table[s])

VARIABLES script,   \* the script that runs
          sec, at,  \* where it is: a section, or "done", and a step of it
          status,   \* its status, and in the end its exit code
          mine,     \* what it has made and is still there
          theirs,   \* what was there before it, under the names it uses
          wrong,    \* a call that makes or looks at something has failed
          stuck     \* what a failing call has not removed

vars == <<script, sec, at, status, mine, theirs, wrong, stuck>>

Code == Table[script].code
Steps == Code[sec]
Here == Steps[at]
Running == sec # "done" /\ at <= Len(Steps)

(* The names the script uses, which somebody else may have used before. *)
Used(s) ==
    (UNION {UNION {Table[s].code[x][i].on : i \in DOMAIN Table[s].code[x]}
            : x \in Sections}) \ Private

(* A domain of somebody else is defined and running. *)
Paired(T) == ("dom" \in T <=> "run" \in T) /\ ("dom2" \in T <=> "run2" \in T)

TypeOK ==
    /\ script \in DOMAIN Table
    /\ sec \in Sections \cup {"done"}
    /\ at \in 1..(IF sec = "done" THEN 1 ELSE Len(Steps) + 1)
    /\ status \in Verdicts
    /\ mine \subseteq Things /\ theirs \subseteq Things
    /\ wrong \in BOOLEAN
    /\ stuck \subseteq mine

(* do_main has cleaned the host of the guests of earlier scripts. *)
Init ==
    /\ script \in DOMAIN Table
    /\ sec = "main" /\ at = 1
    /\ status = Table[script].init
    /\ mine = {} /\ wrong = FALSE /\ stuck = {}
    /\ theirs \in {T \in SUBSET (Used(script) \cup {"run", "run2"}) : Paired(T)}

-----------------------------------------------------------------------------
(* Mutant: do_try's except clause forgets rc, and the script exits with 0. *)
TakeForgets(e) ==
    /\ status' = CASE e = Out -> "PASS" [] e.v = "same" -> status [] OTHER -> e.v
    /\ \/ e.to = "next" /\ at' = at + 1 /\ UNCHANGED sec
       \/ e.to = "return" /\ sec' = "done" /\ at' = 1
       \/ e.to \in Sections /\ sec' = e.to /\ at' = 1
    /\ UNCHANGED script

(* Mutant: the check's result is not kept. *)
TakeUnset(e) ==
    /\ status' = IF e.v \in {"same", "PASS"} THEN status ELSE e.v
    /\ \/ e.to = "next" /\ at' = at + 1 /\ UNCHANGED sec
       \/ e.to = "return" /\ sec' = "done" /\ at' = 1
       \/ e.to \in Sections /\ sec' = e.to /\ at' = 1
    /\ UNCHANGED script

(* Mutant: do_try returns rc in its try only, and the program exits with   *)
(* None after an exception.                                                *)
TakeNone(e) ==
    /\ status' = CASE e = Out -> "None" [] e.v = "same" -> status [] OTHER -> e.v
    /\ \/ e.to = "next" /\ at' = at + 1 /\ UNCHANGED sec
       \/ e.to = "return" /\ sec' = "done" /\ at' = 1
       \/ e.to \in Sections /\ sec' = e.to /\ at' = 1
    /\ UNCHANGED script

(* The script leaves the step by exit e. *)
Take(e) ==
    /\ status' = IF e.v = "same" THEN status ELSE e.v
    /\ \/ e.to = "next" /\ at' = at + 1 /\ UNCHANGED sec
       \/ e.to = "return" /\ sec' = "done" /\ at' = 1
       \/ e.to \in Sections /\ sec' = e.to /\ at' = 1
    /\ UNCHANGED script

(* Mutant: DefineSystem changes a guest that is defined already. *)
MakesOver ==
    /\ Running /\ Here.act \in {"make", "start"}
    /\ "run" \in Here.on => "dom" \in mine \cup Here.on
    /\ "run2" \in Here.on => "dom2" \in mine \cup Here.on
    /\ mine' = mine \cup Here.on
    /\ theirs' = theirs \ Here.on
    /\ \E e \in Here.ok : Take(e)
    /\ UNCHANGED <<wrong, stuck>>

(* The call does what it is for.  Nothing is made under a name in use, but  *)
(* a file is written over; only a guest of the script's is started.        *)
Makes ==
    /\ Running /\ Here.act \in {"make", "start"}
    /\ Here.on \cap theirs \subseteq Overwritten
    /\ "run" \in Here.on => "dom" \in mine \cup Here.on
    /\ "run2" \in Here.on => "dom2" \in mine \cup Here.on
    /\ mine' = mine \cup Here.on
    /\ theirs' = theirs \ Here.on
    /\ \E e \in Here.ok : Take(e)
    /\ UNCHANGED <<wrong, stuck>>

(* Mutant: DestroySystem undefines the guest and lets the domain run. *)
DropsDefinition ==
    /\ Running /\ Here.act = "drop"
    /\ mine' = mine \ (Here.on \ {"run"}) /\ stuck' = stuck \ Here.on
    /\ theirs' = theirs \ Here.on
    /\ \E e \in Here.ok : Take(e)
    /\ UNCHANGED wrong

(* What bears the name is removed, whoever made it. *)
Drops ==
    /\ Running /\ Here.act = "drop"
    /\ mine' = mine \ Here.on /\ stuck' = stuck \ Here.on
    /\ theirs' = theirs \ Here.on
    /\ \E e \in Here.ok : Take(e)
    /\ UNCHANGED wrong

Looks ==
    /\ Running /\ Here.act \in {"check", "gate", "refuse"}
    /\ \E e \in Here.ok : Take(e)
    /\ UNCHANGED <<mine, theirs, wrong, stuck>>

(* The call fails, by its result or by an exception, and neither makes nor  *)
(* removes anything.  But a guest may be up after all, when the poll of    *)
(* its state ended too early, and what should be refused may be made.      *)
Late == IF Here.act \in {"start", "refuse"} THEN Here.on \ theirs ELSE {}

Fails ==
    /\ Running
    /\ \E e \in Here.fail : Take(e)
    /\ \E late \in SUBSET Late : mine' = mine \cup late
    /\ wrong' = (wrong \/ Blames(Here))
    /\ stuck' = IF Here.act = "drop" THEN stuck \cup (mine \cap Here.on) ELSE stuck
    /\ UNCHANGED theirs

(* Mutant: the cleanup at the end is reached by a jump only. *)
AfterReturns(x) == IF x = "main" THEN "more" ELSE "done"

(* A section ends: main runs into more, more into tail, the others return. *)
After(x) == CASE x = "main" -> "more" [] x = "more" -> "tail" [] OTHER -> "done"

RunsOn ==
    /\ sec # "done" /\ at > Len(Steps)
    /\ sec' = After(sec) /\ at' = 1
    /\ UNCHANGED <<script, status, mine, theirs, wrong, stuck>>

Next == Makes \/ Drops \/ Looks \/ Fails \/ RunsOn

Spec == Init /\ [][Next]_vars

-----------------------------------------------------------------------------
(***************************************************************************)
(* Properties                                                              *)
(***************************************************************************)
Ended == sec = "done"

(* A script that passes has seen every call it makes do what it is for:    *)
(* none has failed and been forgotten on the way to the exit code.         *)
PassMeansChecked ==
    Ended /\ status = "PASS" /\ script \notin Hiding => ~wrong

(* A script in which nothing fails is not reported as failing. *)
FailMeansWrong == Ended /\ status = "FAIL" => wrong

(* Whatever fails, and however the script ends, nothing it has made stays  *)
(* but guests, which the next script's do_main removes, and what a command *)
(* could not remove.                                                       *)
LeavesOnlyGuests ==
    Ended /\ script \notin Leaving => mine \cap Lasting \subseteq stuck

(* And a script that passes leaves no guest either. *)
PassLeavesNothing ==
    Ended /\ status = "PASS" /\ script \notin Littering => mine \subseteq stuck

(* What others have under the names a script uses stays as it is. *)
SparesOthers == [][script \notin Grabbing => theirs' = theirs]_vars
=============================================================================
