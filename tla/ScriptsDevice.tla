---------------------------- MODULE ScriptsDevice ---------------------------
(***************************************************************************)
(* The scripts that look at a guest's devices, at the pools these come     *)
(* from, at consoles and at network filters.                               *)
(***************************************************************************)
EXTENDS ScriptLang

EAFP_01 == WithUndo(Script("FAIL",
    <<Reclean, Define({Out}), Start({Undo, Out}), Sets(Check({ToTail}))>>,
    <<Destroy, Undefine>>), <<Undefine>>)

(* After an exception verify_eafp_values goes on with the next pool. *)
EAFP_02 == WithUndo(Script("FAIL",
    <<Define({Out}), Start({Undo, Out}), Sets(Check({ToTail, Passed}))>>,
    <<CimDestroy, Undefine>>), <<Undefine>>)

EAFP_03 == Script("PASS",
    <<Reclean, Define({Out})>> \o Twice(<<TryAssoc("tail")>>), <<Undefine>>)

(* The try_assoc of this script takes an empty answer for a refusal. *)
EAFP_04 == Script("PASS",
    <<Reclean, Define({Out})>>
    \o Twice(<<Refused({}, {ToTail, XTail, Out, Go})>>), <<Undefine>>)

(* The result of cim_define is not looked at: a guest of that name will do. *)
LD_01 == Script("PASS", <<Define({Go}), Check({Failed, Out})>>, <<Undefine>>)

(* Here no device is wanted, and a failing enumeration finds none. *)
LD_02 == Script("FAIL",
    <<Forks(Check({Out, Go}), {Skipped}), Sets(Check({Out, Passed}))>>, <<>>)

(* One key after the other is spoilt; only a CIM error is caught. *)
Spoiled == Twice(<<Sets(Refused({}, {ToTail, Out}))>>)

LD_03 == Script("FAIL", <<Define({Out}), Check({ToTail})>> \o Spoiled, <<Undefine>>)

MEM_01 == LD_01
MEM_02 == Script("FAIL", <<Define({ToTail}), Sets(Check({ToTail}))>>, <<Undefine>>)
MEM_03 == LD_03

NP_01 == Script("PASS",
    <<Define({Go}), Check({ToTail}), Check({Failed, Out})>>, <<Undefine>>)
NP_02 == [LD_03 EXCEPT !.code.main = <<Gate({Skipped})>> \o @]
NP_03 == Script("PASS",
    <<Define({Out}), Check({ToTail, Out}), Check({Failed, Out})>>, <<Undefine>>)

(* A device of another name is logged, no more; and the guest is to be     *)
(* stopped by a command "stop", which virsh does not have.                 *)
PROC_01 == Script("PASS",
    <<Define({Go}), Boot({Go}), Check({Failed, Out}), Check({Failed, Go})>>,
    <<Undefine>>)
PROC_02 == Script("FAIL", <<Define({ToTail}), Sets(Check({ToTail}))>>, <<Undefine>>)

(* When the processors cannot be listed the running guest is undefined. *)
PROC_03 == WithUndo(Script("FAIL",
    <<Define({Out}), Start({Undo, Out}), Check({Undo})>> \o Spoiled,
    <<CimDestroy, Undefine>>), <<Undefine>>)

(* The status of cim_start is not looked at, but that of define, again. *)
KRS_01 == WithUndo(Script("FAIL",
    <<Gate({Skipped}), Define({Undo}), Check({Undo}), Start({Go, Undo}),
      Sets(Check({ToTail}))>>, <<CimDestroy, Undefine>>), <<Undefine>>)

(* Nine addresses, a guest for each; an exception of a look leaves it. *)
KRS_02 == WithUndo(Script("PASS",
    <<Gate({Skipped})>>
    \o Twice(<<Define({Out}), Check({Undo, Out}), Undefine>>), <<>>),
    <<Undefine>>)

RS_01 == Script("FAIL", <<Gate({Skipped}), Sets(Check({Out}))>>, <<>>)
RS_02 == RS_01

(* status is PASS when the spoilt keys are tried, and no answer to them     *)
(* sets another: neither a wrong error nor none at all is a failure.       *)
RS_03 == WithUndo(Script("FAIL",
    <<Gate({Skipped}), Define({Out}), Sets(Check({Undo}))>>
    \o Twice(<<Refused({}, {Go, Out})>>), <<CimDestroy, Undefine>>),
    <<Undefine>>)

(* verify_rasd passes over the settings of other guests, the only ones too. *)
RAFP_01 == Script("FAIL",
    <<Define({ToTail}), Check({ToTail}), Sets(Check({ToTail, Passed}))>>,
    <<Undefine>>)

(* An empty list of settings is not noticed. *)
RAFP_02 == Script("FAIL",
    <<Define({ToTail}), Sets(Check({ToTail, Passed})), Check({ToTail})>>,
    <<Undefine>>)

(* The loop over the classes returns in its first round. *)
RAFP_03 == Asking
RAFP_04 == Asking

(* No try around cim_define.  The message that the network could not be    *)
(* destroyed is to hold a name that main does not have.                    *)
RAFP_05 == WithMore(WithUndo(Script("FAIL",
    <<Reclean, OrGo("more"), MakeNet({"net"}, {Out}), Define({Undo, Out}),
      DropOr({"net"}, {Out}), Sets(TryAssoc("tail")), Jump("tail")>>,
    <<Undefine>>), <<Drop({"net"}), Undefine>>),
    <<Define({ToTail, Out}), Sets(Refused({}, {ToTail, XTail})), Jump("tail")>>)

(* The result is for the reader to judge. *)
SS_01 == Script("XFAIL", <<Check({Go})>>, <<>>)

SYSD_01 == WithUndo(Script("FAIL",
    <<Define({Out}), Sets(Start({Undo, Out})), Check({ToTail, Out})>>,
    <<Destroy, Undefine>>), <<Undefine>>)

(* A failing enumeration is an empty one, and the status of the start      *)
(* stays; so it does when the association leads to another system.         *)
SYSD_02 == WithUndo(Script("FAIL",
    <<Define({Out}), Sets(Start({Undo, Out})), Check({ToTail, Passed, Out})>>,
    <<CimDestroy, Undefine>>), <<Undefine>>)

(* The handlers call cim_undefine, which vxml.py does not have: after the  *)
(* list of devices the script ends there, after an answer the loop's own   *)
(* try catches that, and XFAIL_RC is not reached.                          *)
SYSD_03 == WithUndo2(WithUndo(Script("FAIL",
    <<Define({Out}), Sets(Start({Undo, Out})), Check({Undo2})>>
    \o Twice(<<Refused({}, {ToTail, Failed})>>),
    <<CimDestroy, Undefine>>), <<Undefine>>), <<CimDestroy>>)

FL_01 == Looking
FL_02 == Looking

(* A filter of that name is deleted first.  What cannot be deleted in the  *)
(* end is found by the two looks, which raise where there is no list.      *)
FL_03 == WithUndo2(WithUndo(Script("XFAIL",
    <<Check({Undo2}), Drop({"filter"}), Make({"filter"}, {Undo2}), Check({Undo}),
      Define({Go}), Check({ToTail}), Say("PASS")>>,
    <<Drop({"filter"}), CimDestroy, Undefine, Check({Failed, Out})>>),
    <<Drop({"filter"}), Check({Out})>>), <<Check({Out})>>)

DeviceScripts ==
    [EAFP_01 |-> EAFP_01, EAFP_02 |-> EAFP_02, EAFP_03 |-> EAFP_03,
     EAFP_04 |-> EAFP_04, LD_01 |-> LD_01, LD_02 |-> LD_02, LD_03 |-> LD_03,
     MEM_01 |-> MEM_01, MEM_02 |-> MEM_02, MEM_03 |-> MEM_03, NP_01 |-> NP_01,
     NP_02 |-> NP_02, NP_03 |-> NP_03, PROC_01 |-> PROC_01,
     PROC_02 |-> PROC_02, PROC_03 |-> PROC_03, KRS_01 |-> KRS_01,
     KRS_02 |-> KRS_02, RS_01 |-> RS_01, RS_02 |-> RS_02, RS_03 |-> RS_03,
     RAFP_01 |-> RAFP_01, RAFP_02 |-> RAFP_02, RAFP_03 |-> RAFP_03,
     RAFP_04 |-> RAFP_04, RAFP_05 |-> RAFP_05, SS_01 |-> SS_01,
     SYSD_01 |-> SYSD_01, SYSD_02 |-> SYSD_02, SYSD_03 |-> SYSD_03,
     FL_01 |-> FL_01, FL_02 |-> FL_02, FL_03 |-> FL_03]
=============================================================================
