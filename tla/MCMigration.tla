---------------------------- MODULE MCMigration ----------------------------
(***************************************************************************)
(* Instances of Migration.                                                 *)
(***************************************************************************)
EXTENDS Migration

(* The four commands on the target's image work, and the cleaning up of    *)
(* guests and pools does.                                                  *)
CleaningWorks ==
    AllFaults \ {"ls", "backup", "rm", "restore", "list", "destroy",
                 "undefine", "net-destroy"}
=============================================================================
