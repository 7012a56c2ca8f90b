----------------------------- MODULE MCScripts ------------------------------
(***************************************************************************)
(* The scripts of cimtest/ for TLC, all of them in one table, and those of *)
(* them whose tables do not keep one of the rules of ScriptRules.          *)
(***************************************************************************)
EXTENDS ScriptRun, ScriptsVsms, ScriptsPool, ScriptsHost, ScriptsGuest,
        ScriptsAssoc, ScriptsDevice, ScriptsService, TLC

AllScripts == VsmsScripts @@ PoolScripts @@ HostScripts @@ GuestScripts
              @@ AssocScripts @@ DeviceScripts @@ ServiceScripts

(* A status is not set, or set again, or a result is not looked at: also   *)
(* that of a DeleteInstance which the CIMOM refuses.                       *)
HidingScripts ==
    {"CSI_01", "CSMIG_01", "CS_01", "CS_02", "CS_22", "CS_23", "CS_27",
     "CS_41", "EAFP_02", "EAFP_04", "ECTP_02", "ELEC_01", "FL_03", "HD_01",
     "HRP_02", "HS_01", "HS_03", "HS_04", "HS_06", "KRS_01", "LD_01", "LD_02",
     "MEM_01", "MISC_01", "NP_01", "PROC_01", "PROF_04", "RAFP_01", "RAFP_02",
     "RIND_01", "RIND_02", "RPCS_07", "RPCS_08", "RPCS_10", "RPCS_11",
     "RS_03", "SAE_02", "SAS_01", "SDC_01", "SD_01", "SD_02", "SYSD_02",
     "VMS_02", "VMS_08", "VSMS_07", "VSMS_12", "VSMS_16", "VSMS_19",
     "VSMS_28", "VSMS_30", "VSMS_32", "VSSD_06"}

(* A pool, a directory, a subscription or a file stays when main returns   *)
(* early, an exception meets no try, or NetXML ends the program.           *)
LeavingScripts ==
    {"CSI_01", "CSMIG_01", "MISC_01", "RAFP_05", "RASD_04", "RIND_01",
     "RIND_02", "RPCS_04", "RPCS_07", "RPCS_08", "RPCS_09", "RPCS_11",
     "RPCS_12", "RPCS_15", "RP_01", "VMS_08", "VSMS_06", "VSMS_22"}

(* A guest, a network, a subscription or an image is removed by its name   *)
(* though it was not made, or written over.                                *)
GrabbingScripts ==
    {"CSI_01", "CSMIG_01", "CS_06", "CS_22", "CS_23", "CS_27", "CS_32",
     "CS_33", "CS_34", "CS_35", "CS_40", "FL_03", "HAP_01", "HAP_02",
     "KRS_01", "LD_01", "MEM_01", "MEM_02", "NP_01", "PROC_01", "PROC_02",
     "RAFP_01", "RAFP_02", "RAFP_05", "RASD_04", "RIND_01", "RIND_02",
     "RPCS_04", "RPCS_09", "RPCS_10", "RPCS_11", "RPCS_12", "RPCS_13",
     "RPCS_14", "SAS_01", "SAS_02", "SD_01", "VMS_01", "VMS_02", "VMS_07",
     "VMS_08", "VSMS_03", "VSMS_04", "VSMS_06", "VSMS_07", "VSMS_08",
     "VSMS_11", "VSMS_13", "VSMS_14", "VSMS_15", "VSMS_20", "VSMS_22",
     "VSMS_24a", "VSMS_24b", "VSMS_26", "VSMS_28", "VSMS_30", "VSMS_31",
     "VSMS_32", "VSSD_01", "VSSD_06", "VSSS_03"}

(* Nothing is removed, or not what was made. *)
LitteringScripts ==
    {"PROC_01", "RP_01", "VSMS_27", "VSMS_30"}
=============================================================================
