---------------------------- MODULE ScriptsHost -----------------------------
(***************************************************************************)
(* The scripts that follow the associations from the host to its guests,   *)
(* pools and services: HostSystem (HS), HostedService (HSV),               *)
(* HostedAccessPoint (HAP) and HostedDependency (HD).                      *)
(***************************************************************************)
EXTENDS ScriptLang

(* A failing enumeration is an empty list, which is right when the host is *)
(* the one of SBLIM.                                                       *)
HS_01 == Script("FAIL", <<Check({Out, Go}), Sets(Check({Out}))>>, <<>>)

HS_02 == Script("FAIL",
    <<Check({Out}), Reclean, Define({Out}), Sets(Check({ToTail, XTail}))>>,
    <<Undefine>>)

(* get_hostsys raises when there is no host instance; get_alloccap goes on *)
(* with the next pool and returns the status of the last.                  *)
HS_03 == Script("FAIL",
    <<Define({Out}), Check({ToTail, Out}), Check({ToTail}),
      Check({ToTail, Go}), Sets(Check({ToTail, Out}))>>, <<Undefine>>)

(* verify_eafp_values goes on with the next pool after an exception. *)
HS_04 == Script("FAIL",
    <<Check({Out}), Reclean, Define({Out}), Check({ToTail, Out}),
      Sets(Check({ToTail, Passed}))>>, <<Undefine>>)

HS_05 == Script("FAIL",
    <<Check({Out}), Gate({Skipped}), Sets(Refused({}, {Out}))>>, <<>>)

(* An empty list of services ends the script with PASS. *)
HS_06 == Script("PASS", <<Check({Out}), Check({Leave, Out}), Check({Out})>>, <<>>)

HSV_01 == Looking
HSV_02 == Looking
HSV_03 == Probing
HSV_04 == Script("FAIL", <<Check({Out})>> \o Twice(<<Sets(Refused({}, {Out}))>>), <<>>)

(* setup_env undefines the guest that it could not define or start. *)
HAP_01 == WithUndo(Script("FAIL",
    <<Gate({Skipped}), Define({Undo}), Start({Undo, Out}), Check({ToTail}),
      Sets(Check({ToTail}))>>, <<CimDestroy, Undefine>>), <<Undefine>>)
HAP_02 == HAP_01

(* A failing enumeration of the guests is an empty one: the loop over the  *)
(* associations is not entered.                                            *)
HD_01 == Script("FAIL",
    <<Define({Out}), Check({ToTail}), Sets(Check({ToTail, Passed}))>>,
    <<Undefine>>)

HD_02 == WithUndo(Script("FAIL",
    <<Define({Out}), Start({Undo}), Sets(Check({ToTail}))>>,
    <<Destroy, Undefine>>), <<Undefine>>)

HD_03 == WithUndo(Script("FAIL",
    <<Define({Out}), Start({Undo}), Check({ToTail, XTail}),
      Sets(Check({ToTail}))>>, <<Destroy, Undefine>>), <<Undefine>>)

HD_04 == WithUndo(Script("FAIL",
    <<Define({Out}), Start({Undo, Out}), Check({ToTail})>>
    \o Twice(<<Sets(Refused({}, {ToTail, XTail}))>>),
    <<CimDestroy, Undefine>>), <<Undefine>>)

HostScripts ==
    [HS_01 |-> HS_01, HS_02 |-> HS_02, HS_03 |-> HS_03, HS_04 |-> HS_04,
     HS_05 |-> HS_05, HS_06 |-> HS_06, HSV_01 |-> HSV_01, HSV_02 |-> HSV_02,
     HSV_03 |-> HSV_03, HSV_04 |-> HSV_04, HAP_01 |-> HAP_01,
     HAP_02 |-> HAP_02, HD_01 |-> HD_01, HD_02 |-> HD_02, HD_03 |-> HD_03,
     HD_04 |-> HD_04]
=============================================================================
