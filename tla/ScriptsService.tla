--------------------------- MODULE ScriptsService ---------------------------
(***************************************************************************)
(* The scripts of the services for migration, snapshots and indications,   *)
(* and the two programs of misc_cimtests.  The child that waits for an     *)
(* indication is in module Indications, the image that a migration copies  *)
(* in module Migration.                                                    *)
(***************************************************************************)
EXTENDS ScriptLang

(* create starts a guest that has no definition of its own; a failing poll *)
(* of its state raises, outside of any try.                                *)
VMS_01 == Script("FAIL",
    <<Check({Out}), Make({"dom", "run"}, {ToTail}), Check({Out}),
      Check({ToTail}), Sets(Check({ToTail, Out}))>>, <<Destroy, Undefine>>)

(* The results of cim_define and start are dropped; without the state the  *)
(* object of the guest is None and nothing is cleaned up.                  *)
VMS_02 == Script("FAIL",
    <<Check({Out}), Define({Go})>>
    \o Twice(<<Boot({Go}), Check({Out}), Sets(Check({ToTail, Out}))>>),
    <<Destroy, Undefine>>)

VMS_05 == WithUndo(Script("FAIL",
    <<Define({Out}), Start({Undo, Out}), Check({ToTail}),
      Sets(Refused({}, {ToTail, Out}))>>, <<Destroy, Undefine>>), <<Undefine>>)

(* When the state is not reached the guest is undefined on a host of the   *)
(* guest's name, and stays where it is.  The network of the target is made *)
(* if there is none, and destroyed in any case.                            *)
VMS_07 == WithMore(Script("FAIL",
    <<Forks(Check({Out}), {Skipped}), Define({Out}), Check({Out}),
      OrGo("more"), MakeNet({"net2"}, {ToTail})>>,
    <<CimDestroy, Undefine, Drop({"net2"})>>), <<Sets(Check({ToTail}))>>)

(* Two migrations, "restart" and "resume": PASS when both have passed.  A  *)
(* cleanup that fails ends the loop; after the second it has no effect.    *)
(* Before the second, too, the network is made when it is not found.       *)
VMS_08 == WithMore(Script("PASS",
    <<Forks(Check({Out}), {Skipped}), Define({Out}), Start({Out}), Check({Out}),
      OrGo("more"), MakeNet({"net2"}, {ToTail})>>,
    <<CimDestroy, Undefine, Drop({"net2"})>>),
    <<Check({Failed}), DropOr({"dom", "run"}, {ToTail}), Define({Out}),
      Start({Out}), Check({ToTail, Skipped}), Check({Failed}), DropOr({"dom", "run"}, {Hidden})>>)

VSSS_01 == Looking
VSSS_02 == Script("FAIL", <<Check({Out})>> \o Twice(<<Sets(Refused({}, {Out}))>>), <<>>)

(* CreateSnapshot answers with a job, which nobody waits for. *)
VSSS_03 == Script("FAIL",
    <<Define({ToTail}), Start({ToTail}), Check({ToTail}),
      Begin({"snap"}, {ToTail}), Sets(Check({ToTail}))>>,
    <<CimDestroy, Undefine, Drop({"snap"})>>)

VSSSC_01 == Looking
VSSSC_02 == Asking

(* No failure ends the loop, and the last round sets the status. *)
CSI_01 == Script("FAIL",
    <<Subscribe, Sets(Begin({"dom"}, {Failed})),
      Sets(Begin({"run"}, {Failed})), Sets(DropOr({"dom", "run"}, {Failed}))>>,
    <<Unsubscribe, Undefine>>)

(* Without its state setup_guest gives no guest back, and the cleanup      *)
(* raises when it finds one.                                               *)
CSMIG_01 == WithUndo(WithMore(Script("FAIL",
    <<Forks(Check({Out}), {Skipped}), Subscribe, Define({Undo}),
      Check({Undo}), OrGo("more"), MakeNet({"net2"}, {ToTail})>>,
    <<Unsubscribe, Drop({"net2"}), Undefine>>),
    <<Sets(Check({ToTail})), Undefine>>), <<Unsubscribe, Drop({"net2"})>>)

(* A guest that is not active in the end stays defined. *)
RIND_01 == WithUndo(Script("FAIL",
    <<Gate({Skipped}), Subscribe, Define({Undo}), Check({Undo}),
      Start({Undo, ToTail}), Check({ToTail}), DropOr({"dom", "run"}, {ToTail}),
      Sets(Check({Undo}))>>,
    <<Unsubscribe, DropOr({"dom", "run"}, {Out})>>),
    <<Unsubscribe, Check({Out})>>)

RIND_02 == Script("FAIL",
    <<Gate({Skipped}), Subscribe, Define({Out}), Check({Out}),
      Check({ToTail}), Sets(Check({ToTail}))>>,
    <<Unsubscribe, DropOr({"dom"}, {Out})>>)

(* The result of verify_pool is overwritten by that of cleanup; a pool of  *)
(* that name ends the program with PASS.                                   *)
MISC_01 == WithUndo(Script("FAIL",
    <<Gate({Skipped}), Check({Out}), Make({"dir"}, {Out}), Gate({PassUndo}),
      Begin({"pool"}, {ToTail}), Check({Go}), DropOr({"pool"}, {Out}),
      Drop({"dir"}), Return("PASS")>>, <<Drop({"dir"})>>), <<Drop({"dir"})>>)

(* The handler destroys the network, and leaves a guest that runs. *)
MISC_02 == WithUndo2(WithUndo(Script("FAIL",
    <<Check({Out}), MakeNet({"net"}, {Out}), Define({Undo}), Start({Undo, Undo2}),
      Check({Undo}), Sets(Check({ToTail}))>>,
    <<CimDestroy, Undefine, Drop({"net"})>>), <<Drop({"net"})>>),
    <<Undefine, Drop({"net"})>>)

ServiceScripts ==
    [VMS_01 |-> VMS_01, VMS_02 |-> VMS_02, VMS_05 |-> VMS_05,
     VMS_07 |-> VMS_07, VMS_08 |-> VMS_08, VSSS_01 |-> VSSS_01,
     VSSS_02 |-> VSSS_02, VSSS_03 |-> VSSS_03, VSSSC_01 |-> VSSSC_01,
     VSSSC_02 |-> VSSSC_02, CSI_01 |-> CSI_01, CSMIG_01 |-> CSMIG_01,
     RIND_01 |-> RIND_01, RIND_02 |-> RIND_02, MISC_01 |-> MISC_01,
     MISC_02 |-> MISC_02]
=============================================================================
