---------------------------- MODULE ScriptsAssoc ----------------------------
(***************************************************************************)
(* The scripts that follow an association from or to a guest's settings,   *)
(* devices, capabilities and profiles.                                     *)
(***************************************************************************)
EXTENDS ScriptLang

(* domain_list gives None when the host is not reached: the loop raises. *)
EC_01 == Script("PASS",
    <<Check({Out}), Define({Out}), Check({ToTail, Out})>>, <<Undefine>>)
EC_02 == Script("PASS",
    <<Check({Out}), Define({Out}), Check({ToTail, Out})>>, <<Undefine>>)
EC_03 == Script("PASS", Twice(<<Refused({}, {Out})>>), <<>>)
EC_04 == EC_03
EC_05 == Looking

ECTP_01 == WithUndo(Script("FAIL",
    <<Reclean, Define({Out}), Boot({Undo}), Sets(Check({ToTail}))>>,
    <<Destroy, Undefine>>), <<Undefine>>)

(* The test for a missing guest looks at sys, not at cs: None goes on.  A   *)
(* failing enumeration of the profiles returns the status of get_host_info. *)
ECTP_02 == Script("FAIL",
    <<Reclean, Define({Out}), Check({Out}), Sets(Check({ToTail})),
      Check({Hidden}), Check({ToTail})>>, <<Undefine>>)

ECTP_03 == Script("PASS", Twice(Tries), <<>>)
ECTP_04 == Script("PASS", <<Define({Out})>> \o Twice(Tries), <<Undefine>>)

ESD_01 == Script("FAIL",
    <<Define({Out}), Check({ToTail}), Sets(Check({ToTail}))>>, <<Undefine>>)

ESD_03 == WithUndo(Script("FAIL",
    <<Define({Out}), Sets(Start({Undo, Out})), Check({ToTail})>> \o Tries,
    <<CimDestroy, Undefine>>), <<Undefine>>)

(* Without a guest the empty list of a failing enumeration is as wanted;   *)
(* main falls off its end, and do_main exits with None.                    *)
ELEC_01 == Script("PASS", <<Check({Out, Go}), Check({Out})>>, <<>>)

ELEC_02 == WithUndo(Script("FAIL",
    <<Define({Out}), Start({Undo, Out}), Say("FAIL"),
      Sets(Refused({}, {ToTail, Out}))>>, <<CimDestroy, Undefine>>), <<Undefine>>)

PROF_01 == Looking
PROF_02 == Script("FAIL",
    <<Reclean, Define({Out}), Check({ToTail}), Sets(Check({ToTail}))>>,
    <<Undefine>>)
PROF_03 == Asking

(* An empty list of profiles from slptool returns the PASS of the query. *)
PROF_04 == Script("FAIL",
    <<Check({Skipped, Out}), Sets(Check({Out})), Check({Leave, Out}),
      Sets(Check({Out}))>>, <<>>)

REFP_01 == Looking
REFP_02 == Script("FAIL",
    <<Sets(Check({Out}))>> \o Twice(<<Refused({}, {Known, Out})>>), <<>>)

(* setup_env of ServiceAccessBySAP and SettingsDefine: what it could not   *)
(* define or start main undefines (again).                                 *)
Settled(check) == WithUndo(Script("FAIL",
    <<Define({Undo}), Start({Undo, Out}), Check({ToTail}), Sets(check)>>,
    <<CimDestroy, Undefine>>), <<Undefine>>)

(* verify_kvmrsap accepts an association that returns nothing. *)
SAS_01 == [Settled(Check({ToTail, Passed})) EXCEPT
             !.code.main = <<Gate({Skipped})>> \o @]
SAS_02 == [Settled(Check({ToTail})) EXCEPT !.code.main = <<Gate({Skipped})>> \o @]

SAE_01 == Script("FAIL", <<Define({Out}), Sets(Check({ToTail}))>>, <<Undefine>>)

(* Empty lists leave the loop unentered, and the comparison of the last    *)
(* element is the one that counts.                                         *)
SAE_02 == Script("FAIL",
    <<Define({Out}), Sets(Check({ToTail, Passed}))>>
    \o Twice(<<Sets(Check({ToTail, Failed}))>>), <<Undefine>>)

(* verify_rasd passes over the settings of other guests: if the device is  *)
(* associated with such a one only, the status of the parse stays.         *)
SD_01 == Settled(Check({ToTail, Passed}))

(* Of the comparisons of the settings only the last counts. *)
SD_02 == WithUndo(Script("FAIL",
    <<Define({Out}), Start({Undo, Out}), Check({ToTail}), Check({Go, ToTail}),
      Sets(Check({ToTail}))>>, <<CimDestroy, Undefine>>), <<Undefine>>)

SD_03 == WithUndo(Script("FAIL",
    <<Define({Out}), Sets(Start({Undo, Out}))>> \o Tries,
    <<CimDestroy, Undefine>>), <<Undefine>>)
SD_04 == SD_03

(* After an exception the loop goes on with the next pool. *)
SDC_01 == Script("FAIL", <<Check({Out}), Sets(Check({Failed, Passed}))>>, <<>>)
SDC_03 == Script("PASS", Twice(<<Refused({}, {Out, Known})>>), <<>>)
SDC_04 == Looking
SDC_05 == Looking

VSSDC_01 == Script("FAIL",
    <<Reclean, Define({Out}), Check({ToTail}), Sets(Check({ToTail}))>>,
    <<Undefine>>)
VSSDC_02 == WithUndo(Script("FAIL",
    <<Reclean, Define({Out}), Start({Undo, Out}), Sets(Check({ToTail}))>>,
    <<Destroy, Undefine>>), <<Undefine>>)
VSSDC_03 == WithUndo(Script("FAIL",
    <<Reclean, Define({Out}), Sets(Start({Undo, Out}))>> \o Tries,
    <<Destroy, Undefine>>), <<Undefine>>)
VSSDC_04 == VSSDC_03

VSMCAP_01 == Looking
VSMCAP_02 == Asking
VSMIGCAP_01 == Looking
VSMIGCAP_02 == Asking
VMSD_01 == Looking
VMSD_02 == Asking

AssocScripts ==
    [EC_01 |-> EC_01, EC_02 |-> EC_02, EC_03 |-> EC_03, EC_04 |-> EC_04,
     EC_05 |-> EC_05, ECTP_01 |-> ECTP_01, ECTP_02 |-> ECTP_02,
     ECTP_03 |-> ECTP_03, ECTP_04 |-> ECTP_04, ESD_01 |-> ESD_01,
     ESD_03 |-> ESD_03, ELEC_01 |-> ELEC_01, ELEC_02 |-> ELEC_02,
     PROF_01 |-> PROF_01, PROF_02 |-> PROF_02, PROF_03 |-> PROF_03,
     PROF_04 |-> PROF_04, REFP_01 |-> REFP_01, REFP_02 |-> REFP_02,
     SAS_01 |-> SAS_01, SAS_02 |-> SAS_02, SAE_01 |-> SAE_01,
     SAE_02 |-> SAE_02, SD_01 |-> SD_01, SD_02 |-> SD_02, SD_03 |-> SD_03,
     SD_04 |-> SD_04, SDC_01 |-> SDC_01, SDC_03 |-> SDC_03, SDC_04 |-> SDC_04,
     SDC_05 |-> SDC_05, VSSDC_01 |-> VSSDC_01, VSSDC_02 |-> VSSDC_02,
     VSSDC_03 |-> VSSDC_03, VSSDC_04 |-> VSSDC_04, VSMCAP_01 |-> VSMCAP_01,
     VSMCAP_02 |-> VSMCAP_02, VSMIGCAP_01 |-> VSMIGCAP_01,
     VSMIGCAP_02 |-> VSMIGCAP_02, VMSD_01 |-> VMSD_01, VMSD_02 |-> VMSD_02]
=============================================================================
