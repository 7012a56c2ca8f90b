---------------------------- MODULE ScriptsVsms -----------------------------
(***************************************************************************)
(* The scripts of cimtest/VirtualSystemManagementService: they define      *)
(* guests from settings, good and bad, and add, modify and remove their    *)
(* resources.                                                              *)
(***************************************************************************)
EXTENDS ScriptLang

VSMS_01 == Script("FAIL",
    <<Define({Out}), Sets(Start({Failed}))>>, <<CimDestroy, Undefine>>)

VSMS_02 == WithUndo(Script("FAIL",
    <<Define({Out}), Check({Out, ToTail}), Start({Undo, ToTail}),
      Check({ToTail}), DropOr({"dom", "run"}, {ToTail}), Check({ToTail}),
      Return("PASS")>>,
    <<Destroy, Undefine>>), <<Undefine>>)

VSMS_03 == Script("FAIL", <<Sets(Refused({"dom"}, {ToTail}))>>, <<Undefine>>)
VSMS_04 == Script("FAIL", <<Sets(Refused({"dom"}, {ToTail}))>>, <<Undefine>>)
VSMS_05 == Script("FAIL", <<Sets(Refused({}, {Out}))>>, <<>>)

(* add_disk_res and add_net_res, for a guest that is defined and, not under *)
(* KVM, for one that is started.  No try around cim_define, which raises   *)
(* when the provider's revision is not a number.                           *)
VSMS_06 == Script("FAIL",
    <<MakeNet({"net"}, {Out}), Undefine, Define({ToTail, Out}),
      Sets(Check({ToTail})), Gate({Hidden}),
      Undefine, Define({ToTail, Out}), Boot({ToTail}), Sets(Check({ToTail}))>>,
    <<Drop({"net"}), Destroy, Undefine>>)

(* The result of cim_define is dropped; a return code that is not None     *)
(* leaves PASS, although the bad settings have been taken.                 *)
VSMS_07 == Script("PASS",
    <<Define({Go}), Refused({}, {ToTail, XTail, Hidden})>>, <<Undefine>>)

VSMS_08 == Script("FAIL",
    <<Undefine, Define({ToTail}), Sets(Check({ToTail})), Gate({Hidden}),
      Undefine, Define({ToTail}), Boot({ToTail}), Sets(Check({ToTail}))>>,
    <<Destroy, Undefine>>)

(* What is not known to run is only undefined. *)
VSMS_09 == WithUndo(Script("FAIL",
    Twice(<<Define({Out}), Sets(Check({Undo})), Start({Undo}),
            Sets(Check({ToTail, XTail})), CimDestroy, Undefine>>)
    \o <<Return("same")>>,
    <<CimDestroy, Undefine>>), <<Undefine>>)

VSMS_10 == Script("PASS", <<Check({Out}), Check({Known, Out})>>, <<>>)

(* No try: a failing GetInstance in check_value leaves the guest.          *)
VSMS_11 == Script("FAIL",
    Twice(<<Define({ToTail}), Sets(Check({ToTail, Out})), Undefine>>)
    \o <<Return("same")>>, <<Undefine>>)

(* guest1_setup and guest2_setup say what there is to remove; an exception *)
(* in cim_start leaves guest1_setup unset.  When the first guest cannot be *)
(* dumped its settings as they were given are taken for it.                *)
VSMS_12 == WithUndo2(WithUndo(Script("FAIL",
    <<Define({Out}), Start({Undo, Out}), Check({Undo2}), Define2({Undo2}),
      Check({ToTail, Go}), Sets(Check({ToTail}))>>,
    <<CimDestroy, Undefine2>>), <<Undefine>>), <<CimDestroy>>)

VSMS_13 == Script("FAIL",
    <<Define({ToTail}), Check({ToTail}), Define2({ToTail}), Start2({ToTail}),
      Sets(Check({ToTail}))>>, <<CimDestroy, CimDestroy2>>)

VSMS_14 == WithUndo(Script("FAIL",
    <<Make({"image"}, {Out}), Check({Undo}), Define({Undo}),
      Sets(Check({ToTail}))>>,
    <<DropOr({"image"}, {Out}), Undefine>>), <<DropOr({"image"}, {Out})>>)

(* Under LXC, and for old providers, whatever has happened is bug 00008 or *)
(* 00010.                                                                  *)
VSMS_15 == Script("FAIL",
    <<Undefine, Define({ToTail}), Sets(Check({ToTail})),
      Undefine, Define({ToTail}), Start({ToTail}), Check({ToTail}),
      DropOr({"run"}, {ToTail}), Sets(Check({ToTail}))>>,
    <<Check({Out}), CimDestroy, Gate({Known})>>)

(* The attribute /domain/@devices is looked for, which no guest has: its   *)
(* absence is PASS, whether the devices are gone or not and whether the    *)
(* guest could be dumped or not.                                           *)
VSMS_16 == WithUndo(Script("FAIL",
    <<Define({Out}), Check({Undo}), Sets(Check({Passed, Out}))>>,
    <<Undefine>>), <<Undefine, Gate({Known})>>)

VSMS_17 == Script("PASS",
    <<Define({Out}), Refused({}, {Failed})>>, <<Undefine>>)

(* A start that answers "no" undefines the guest, one that raises does not. *)
VSMS_18 == WithUndo(Script("FAIL",
    <<Sets(MakeNet({"net"}, {Out})), Define({ToTail}), Start({Undo, ToTail}),
      CimDestroy, Undefine>>,
    <<Drop({"net"})>>), <<Undefine, Drop({"net"})>>)

(* A guest on a network that is not there: refused by the define, or by    *)
(* the start, the case passes; when both take it, only a bridge of a wrong *)
(* name is an error, and the status stays.                                 *)
OffNetwork(refused) ==
    <<Gate({refused}), Define({ToTail}),
      Sets(Refused({"run"}, {Undo, ToTail, To("same", "undo2")})), Undefine>>
VSMS_19 == WithUndo2(WithUndo(WithMore(Script("FAIL",
    <<Sets(MakeNet({"net"}, {Out}))>> \o OffNetwork(To("PASS", "more")),
    <<Drop({"net"})>>), OffNetwork(PassTail)), <<Undefine, Drop({"net"})>>),
    <<CimDestroy, Undefine, Drop({"net"}), Gate({Out})>>)

VSMS_20 == Script("FAIL",
    <<Gate({Skipped}), Define({ToTail}), Start({ToTail}), Sets(Check({ToTail}))>>,
    <<CimDestroy, Undefine>>)

VSMS_21 == WithUndo(Script("FAIL",
    <<Define({Out}), Start({Undo, Out}), Sets(Check({ToTail}))>>,
    <<CimDestroy, Undefine>>), <<Undefine>>)

(* A network interface that is not added is bug 00015. *)
VSMS_22 == Script("FAIL",
    <<MakeNet({"net"}, {Out}), Define({ToTail}), Start({ToTail}), Check({ToTail}),
      MakeNet({"net2"}, {ToTail}), Sets(Check({Knowing})), Drop({"net2"})>>,
    <<CimDestroy, Undefine, Drop({"net"})>>)

VSMS_24a == Script("FAIL",
    <<Define({ToTail}), Sets(Check({ToTail}))>>, <<CimDestroy>>)

VSMS_24b == Script("FAIL",
    <<Define({ToTail}), Sets(Check({ToTail}))>>, <<Destroy, Undefine>>)

VSMS_25 == Script("FAIL",
    <<Gate({Skipped}), Check({Out}), Define({Out}), Sets(Check({ToTail}))>>,
    <<Undefine>>)

VSMS_26 == Script("FAIL",
    <<Gate({Skipped}), Check({ToTail}), Define({ToTail}), Start({ToTail}),
      Sets(Check({ToTail}))>>,
    <<Check({Out}), CimDestroy, Check({Out}), Undefine>>)

(* The guest is started and never destroyed. *)
VSMS_27 == Script("FAIL",
    <<Gate({Skipped}), Check({Out}), Define({Out}), Start({ToTail}),
      Sets(Check({ToTail}))>>, <<Undefine>>)

(* The except clause leaves status alone, which is PASS once the guest has *)
(* started.                                                                *)
VSMS_28 == Script("FAIL",
    <<Gate({Skipped}), Check({Out}), Define({ToTail}),
      Sets(Start({XTail, Hidden})), Sets(Check({ToTail, Hidden}))>>,
    <<CimDestroy, Undefine>>)

VSMS_29 == WithUndo(Script("FAIL",
    <<Gate({Skipped}), Check({Out}), Define({Out}), Start({Undo}),
      Sets(Check({ToTail}))>>, <<Destroy, Undefine>>), <<Undefine>>)

(* Nothing is removed, and the code of the modify call is not looked at.   *)
VSMS_30 == Script("FAIL",
    <<Undefine, Define({Out}), Boot({Out}), Sets(Check({Known})),
      Check({Out, Go})>>, <<>>)

(* The guest of 31 and 32 is removed after main has returned. *)
VSMS_31 == Script("FAIL",
    <<Check({Out}), Define({ToTail}), Check({SkipTail, ToTail}),
      Check({XTail, ToTail}), Sets(Check({ToTail}))>>,
    <<CimDestroy, Undefine>>)

(* A medium that cannot be modified ends the loop at its next turn: the    *)
(* last one has none.                                                      *)
VSMS_32 == Script("FAIL",
    <<Check({Out}), Define({ToTail}), Check({SkipTail, ToTail}),
      Check({ToTail}), Sets(Check({ToTail, Passed}))>>,
    <<CimDestroy, Undefine>>)

VsmsScripts ==
    [VSMS_01 |-> VSMS_01, VSMS_02 |-> VSMS_02, VSMS_03 |-> VSMS_03,
     VSMS_04 |-> VSMS_04, VSMS_05 |-> VSMS_05, VSMS_06 |-> VSMS_06,
     VSMS_07 |-> VSMS_07, VSMS_08 |-> VSMS_08, VSMS_09 |-> VSMS_09,
     VSMS_10 |-> VSMS_10, VSMS_11 |-> VSMS_11, VSMS_12 |-> VSMS_12,
     VSMS_13 |-> VSMS_13, VSMS_14 |-> VSMS_14, VSMS_15 |-> VSMS_15,
     VSMS_16 |-> VSMS_16, VSMS_17 |-> VSMS_17, VSMS_18 |-> VSMS_18,
     VSMS_19 |-> VSMS_19, VSMS_20 |-> VSMS_20, VSMS_21 |-> VSMS_21,
     VSMS_22 |-> VSMS_22, VSMS_24a |-> VSMS_24a, VSMS_24b |-> VSMS_24b,
     VSMS_25 |-> VSMS_25, VSMS_26 |-> VSMS_26, VSMS_27 |-> VSMS_27,
     VSMS_28 |-> VSMS_28, VSMS_29 |-> VSMS_29, VSMS_30 |-> VSMS_30,
     VSMS_31 |-> VSMS_31, VSMS_32 |-> VSMS_32]
=============================================================================
