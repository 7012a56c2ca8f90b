----------------------------- MODULE MCSuiteRun -----------------------------
(***************************************************************************)
(* Instances of SuiteRun.                                                  *)
(***************************************************************************)
EXTENDS SuiteRun

Anywhere == Pcs

(* Where no call fails that takes down a pool, replaces diskpool.conf or   *)
(* asks for the version, no answer of virsh is lost, a Ctrl-C does not     *)
(* strike into the cleaning up or into that replacing, and the process is  *)
(* killed only while it has nothing on the host.                           *)
MostFaults  == AllFaults \ {"net-destroy", "disk-destroy", "lost", "version",
                            "conf-move", "conf-write", "conf-remove",
                            "conf-restore"}
NotCleaning == Pcs \ (CleanupPcs \cup {"write-conf"})
HasNothing  == {"off", "check", "net-check", "net-create", "report"}
=============================================================================
