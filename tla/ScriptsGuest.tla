---------------------------- MODULE ScriptsGuest ----------------------------
(***************************************************************************)
(* The scripts that make a guest and follow its state and its settings:    *)
(* cimtest/ComputerSystem (CS) and VSSD.                                   *)
(***************************************************************************)
EXTENDS ScriptLang

(* An exception in the comparison leaves status at PASS. *)
CS_01 == Script("PASS", <<Check({Leave}), Check({Failed})>>, <<>>)

(* A failing enumeration comes back empty, as wanted. *)
CS_02 == Script("FAIL",
    <<Forks(Check({Out}), {Skipped}), Check({Out, Go}), Sets(Check({Failed}))>>,
    <<>>)

CS_03 == Script("FAIL",
    <<Define({Leave}), Check({ToTail}), Sets(Check({ToTail}))>>, <<Undefine>>)

CS_04 == Script("FAIL",
    <<Define({Out}), Sets(Start({Failed}))>>, <<Destroy, Undefine>>)

CS_05 == Script("FAIL",
    <<Define({Leave}), Sets(Check({ToTail})), Sets(Start({ToTail})),
      Sets(Check({ToTail}))>>, <<CimDestroy, Undefine>>)

(* LXC cannot pause: bug 00011. *)
CS_06 == Script("FAIL",
    <<Define({ToTail}), Sets(Start({ToTail})), Sets(Check({ToTail})),
      Sets(Check({ToTail, XTail})), Sets(Check({ToTail}))>>,
    <<Destroy, Undefine>>)

(* Whatever fails in cim_suspend is taken for the refusal that is wanted. *)
CS_22 == Script("FAIL",
    <<Define({ToTail}), Sets(Check({ToTail, Passed}))>>, <<Undefine>>)

CS_23 == Script("FAIL",
    <<Define({ToTail}), Sets(Start({ToTail, XTail})),
      Sets(Check({ToTail, XTail})), Sets(Check({ToTail, XTail, Passed}))>>,
    <<CimDestroy, Undefine>>)

(* Every exception, that of a failing define too, turns into PASS. *)
CS_27 == Script("FAIL",
    <<Define({PassTail}), Sets(Check({ToTail, Passed}))>>, <<Undefine>>)

CS_32 == Script("FAIL",
    <<Define({ToTail}), Sets(Start({ToTail})), Sets(Check({ToTail, XTail}))>>,
    <<CimDestroy, Undefine>>)

CS_33 == Script("FAIL",
    <<Define({ToTail}), Sets(Start({ToTail, XTail})),
      Sets(Check({ToTail, XTail}))>>,
    <<CimDestroy, Undefine>>)

CS_34 == Script("FAIL",
    <<Gate({Skipped}), Define({ToTail}), Sets(Start({ToTail})),
      Sets(Check({ToTail}))>>, <<CimDestroy, Undefine>>)

CS_35 == Script("FAIL",
    <<Define({ToTail}), Sets(Start({ToTail})), Sets(Check({ToTail}))>>,
    <<CimDestroy, Undefine>>)

CS_40 == Script("FAIL",
    <<Define({ToTail}), Sets(Start({ToTail}))>>, <<CimDestroy, Undefine>>)

(* setup_env tests the result of cim_define again after cim_start. *)
CS_41 == Script("FAIL",
    <<Define({Out}), Start({Go}), Say("PASS"), Sets(Check({ToTail}))>>,
    <<CimDestroy, Undefine>>)

(* When the guest is not among the instances it is left behind. *)
CS_42 == Script("FAIL",
    <<Define({Out}), Check({Out})>> \o Twice(<<Sets(Check({ToTail, Out}))>>),
    <<Undefine>>)

VSSD_01 == Script("PASS",
    <<Reclean, Define({Failed}), Check({ToTail})>>, <<Undefine>>)

VSSD_02 == Script("FAIL",
    <<Reclean, Define({Out}), Sets(Check({ToTail}))>>, <<Undefine>>)

VSSD_03 == Script("FAIL",
    <<Define({Out}), Sets(Check({ToTail, Out}))>>, <<Undefine>>)

(* A failing enumeration returns at once, a missing instance undefines. *)
VSSD_04 == WithUndo(Script("FAIL",
    <<Reclean, Define({Out}), Check({Out}), Check({Undo}),
      Sets(Check({ToTail, XTail, Out}))>>, <<Undefine>>), <<Undefine>>)

VSSD_05 == Script("FAIL",
    <<Gate({Skipped}), Define({Out}), Sets(Check({ToTail}))>>, <<Undefine>>)

(* A CIM error of another text leaves the PASS of get_vssd. *)
VSSD_06 == WithUndo(Script("FAIL",
    <<Gate({Skipped}), Define({Out}), Sets(Check({Undo})), Define2({ToTail}),
      Sets(Check({ToTail})), Sets(Check({ToTail, Hidden}))>>,
    <<Undefine2, Undefine>>), <<Undefine>>)

(* No try around the checks: a mismatch raises past the undefine. *)
VSSD_07 == Script("FAIL",
    <<Gate({Skipped}), Define({Out}), Sets(Check({Out}))>>, <<Undefine>>)

GuestScripts ==
    [CS_01 |-> CS_01, CS_02 |-> CS_02, CS_03 |-> CS_03, CS_04 |-> CS_04,
     CS_05 |-> CS_05, CS_06 |-> CS_06, CS_22 |-> CS_22, CS_23 |-> CS_23,
     CS_27 |-> CS_27, CS_32 |-> CS_32, CS_33 |-> CS_33, CS_34 |-> CS_34,
     CS_35 |-> CS_35, CS_40 |-> CS_40, CS_41 |-> CS_41, CS_42 |-> CS_42,
     VSSD_01 |-> VSSD_01, VSSD_02 |-> VSSD_02, VSSD_03 |-> VSSD_03,
     VSSD_04 |-> VSSD_04, VSSD_05 |-> VSSD_05, VSSD_06 |-> VSSD_06,
     VSSD_07 |-> VSSD_07]
=============================================================================
