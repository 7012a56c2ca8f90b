----------------------------- MODULE Migration -----------------------------
(***************************************************************************)
(* One migration of a guest to another host, and the cleaning up after it  *)
(* (XenKvmLib/vsmigrations.py: local_remote_migrate with remote_migrate 1, *)
(* and cleanup_guest_netpool; the order of the calls is that of main in    *)
(* VirtualSystemMigrationService/06_remote_live_migration.py).             *)
(*                                                                         *)
(* The script moves an image of the same name on the target out of the     *)
(* way, copies the guest's image there, starts the migration job and looks *)
(* at it every three seconds; then it puts the image back and removes the  *)
(* guest from both hosts and the network pool from the target.  Meanwhile  *)
(* libvirt migrates at its own pace.                                       *)
(***************************************************************************)
EXTENDS Naturals

CONSTANTS Timeout,   \* time_out: looks at the job before giving up
          Faults     \* a subset of AllFaults: steps of the script that fail

(* "bridge": on the target the bridge of the pool exists, and so does the  *)
(* name that NetXML draws instead; it calls sys.exit.  The others are the  *)
(* calls that may fail.                                                    *)
AllFaults == {"bridge", "net-create", "find", "ls", "backup", "copy",
              "check", "migrate", "enum", "rm", "restore", "list", "destroy",
              "undefine", "net-destroy"}

ASSUME MigAssumption == Timeout \in Nat \ {0} /\ Faults \subseteq AllFaults

VARIABLES
    pc,       \* where the script is
    status,   \* what local_remote_migrate returns
    img,      \* the file req_image on the target
    bak,      \* the file backup_image on the target
    bkup,     \* the variable backup_image is set
    net,      \* the network pool of the suite's name on the target
    guest,    \* the guest on "src" and "tgt"
    job,      \* the migration job
    seen,     \* job_inst: the job when it was last looked at
    looks,    \* i of check_migration_job
    had       \* what the target had before: its image and its pool

vars == <<pc, status, img, bak, bkup, net, guest, job, seen, looks,
          had>>

Hosts   == {"src", "tgt"}
(* "exit": NetXML has ended the process.                                   *)
Ended   == {"done", "exit"}
Jobs    == {"none", "starting", "running", "completed", "failed"}
Migrating == job \in {"starting", "running"}

TypeOK ==
    /\ pc \in {"net", "find", "ls", "backup", "copy", "check", "migrate",
               "fetch", "look", "verify", "rm", "restore", "destroy-tgt",
               "undefine-tgt", "destroy-src", "undefine-src", "net-destroy",
               "done", "exit"}
    /\ status \in {"PASS", "FAIL"}
    /\ img \in {"absent", "theirs", "ours"}
    /\ bak \in {"absent", "theirs", "ours"}
    /\ bkup \in BOOLEAN
    /\ net \in {"absent", "theirs", "ours"}
    /\ guest \in [Hosts -> {"absent", "off", "active"}]
    /\ job \in Jobs /\ seen \in Jobs
    /\ looks \in 0..Timeout
    /\ had \in [img : BOOLEAN, net : BOOLEAN]

(* The guest is defined and started on the source. *)
Init ==
    /\ had \in [img : BOOLEAN, net : BOOLEAN]
    /\ pc = "net" /\ status = "FAIL"
    /\ img = IF had.img THEN "theirs" ELSE "absent"
    /\ bak = "absent" /\ bkup = FALSE
    /\ net = IF had.net THEN "theirs" ELSE "absent"
    /\ guest = [h \in Hosts |-> IF h = "src" THEN "active" ELSE "absent"]
    /\ job = "none" /\ seen = "none" /\ looks = 0

files == <<img, bak, bkup>>
look  == <<seen, looks>>

(* A step of the script that may fail: on to `here` or, failing, `there`.  *)
Goes(at, here) == pc = at /\ pc' = here
Fails(at, f, there) == f \in Faults /\ Goes(at, there)

-----------------------------------------------------------------------------
(***************************************************************************)
(* The script, up to the migration                                         *)
(***************************************************************************)
(* net_list and create_netpool_conf on the target; an exception skips the  *)
(* migration and goes to cleanup_guest_netpool.  sys.exit is no Exception: *)
(* it passes the handlers of create_netpool_conf and of main, and the      *)
(* cleaning up with them.                                                  *)
MakeNet ==
    /\ \/ net # "absent" /\ Goes("net", "find") /\ UNCHANGED net
       \/ net = "absent" /\ Goes("net", "find") /\ net' = "ours"
       \/ /\ net = "absent" /\ UNCHANGED net
          /\ \/ Fails("net", "net-create", "destroy-tgt")
             \/ Fails("net", "bridge", "exit")
    /\ UNCHANGED <<status, files, guest, job, look, had>>

(* The disk RASD of the guest names the image; without it req_image is     *)
(* None and cleanup_image, `rm -rf None', touches no image.  Any later     *)
(* failure ends in cleanup_image with the image's name.                    *)
FindImage ==
    /\ Goes("find", "ls") \/ Fails("find", "find", "destroy-tgt")
    /\ UNCHANGED <<status, files, net, guest, job, look, had>>

(* ls -l: an image of the name on the target is to be backed up.  A        *)
(* failing ls looks like no image.                                         *)
LookForImage ==
    /\ \/ img # "absent" /\ Goes("ls", "backup")
       \/ img = "absent" /\ Goes("ls", "copy")
       \/ Fails("ls", "ls", "copy")
    /\ UNCHANGED <<status, files, net, guest, job, look, had>>

(* Mutant: the image is copied to the backup, and stays. *)
BackUpCopies ==
    /\ \/ /\ Goes("backup", "copy") /\ bak' = img /\ bkup' = TRUE
       \/ /\ Fails("backup", "backup", "rm") /\ UNCHANGED <<bak, bkup>>
    /\ UNCHANGED <<img, status, net, guest, job, look, had>>

(* mv req_image backup_image *)
BackUp ==
    /\ \/ /\ Goes("backup", "copy")
          /\ bak' = img /\ img' = "absent" /\ bkup' = TRUE
       \/ /\ Fails("backup", "backup", "rm") /\ UNCHANGED files
    /\ UNCHANGED <<status, net, guest, job, look, had>>

CopyImage ==
    /\ \/ Goes("copy", "check") /\ img' = "ours"
       \/ Fails("copy", "copy", "rm") /\ img' \in {img, "ours"}
    /\ UNCHANGED <<status, bak, bkup, net, guest, job, look, had>>

(* The guest's reference, the settings, CheckVirtualSystemIsMigratable...  *)
CheckHost ==
    /\ Goes("check", "migrate") \/ Fails("check", "check", "rm")
    /\ UNCHANGED <<status, files, net, guest, job, look, had>>

(* MigrateVirtualSystemToHost starts the job; a call that fails may have   *)
(* started it.                                                             *)
Migrate ==
    /\ \/ Goes("migrate", "fetch") /\ job' = "starting"
       \/ Fails("migrate", "migrate", "rm") /\ job' \in {"none", "starting"}
    /\ UNCHANGED <<status, files, net, guest, look, had>>

-----------------------------------------------------------------------------
(***************************************************************************)
(* check_migration_job                                                     *)
(***************************************************************************)
(* get_migration_job_instance, first and after each sleep. *)
FetchJob ==
    /\ \/ Goes("fetch", "look") /\ seen' = job
       \/ Fails("fetch", "enum", "rm") /\ UNCHANGED seen
    /\ UNCHANGED <<status, files, net, guest, job, looks, had>>

(* Mutant: a job that completed is taken for a success. *)
LookAtJobState ==
    /\ \/ /\ Goes("look", "rm") /\ seen \in {"completed", "failed"}
          /\ status' = "PASS" /\ UNCHANGED looks
       \/ /\ Goes("look", "fetch")
          /\ seen = "running" /\ looks < Timeout - 1
          /\ looks' = looks + 1 /\ UNCHANGED status
       \/ /\ Goes("look", "rm")
          /\ seen = "starting" \/ (seen = "running" /\ looks = Timeout - 1)
          /\ UNCHANGED <<status, looks>>
    /\ UNCHANGED <<files, net, guest, job, seen, had>>

(* Mutant: a running job is looked at until it ends. *)
LookUntilEnd ==
    /\ \/ Goes("look", "verify") /\ seen = "completed"
       \/ Goes("look", "rm") /\ seen \in {"failed", "starting"}
       \/ Goes("look", "fetch") /\ seen = "running"
    /\ UNCHANGED <<status, files, net, guest, job, look, had>>

(* Mutant: the last look is not told from the others. *)
LookCountsOn ==
    /\ \/ Goes("look", "verify") /\ seen = "completed" /\ UNCHANGED looks
       \/ Goes("look", "rm") /\ seen \in {"failed", "starting"} /\ UNCHANGED looks
       \/ Goes("look", "fetch") /\ seen = "running" /\ looks' = looks + 1
    /\ UNCHANGED <<status, files, net, guest, job, seen, had>>

(* A round of the loop over the job last seen: completed, failed (a Status *)
(* other than "Completed"), still running with a look to go, or neither:   *)
(* then it is called timed out, also a job that has not begun to run.      *)
LookAtJob ==
    /\ \/ Goes("look", "verify") /\ seen = "completed" /\ UNCHANGED looks
       \/ Goes("look", "rm") /\ seen = "failed" /\ UNCHANGED looks
       \/ /\ Goes("look", "fetch")
          /\ seen = "running" /\ looks < Timeout - 1
          /\ looks' = looks + 1
       \/ /\ Goes("look", "rm")
          /\ seen = "starting" \/ (seen = "running" /\ looks = Timeout - 1)
          /\ UNCHANGED looks
    /\ UNCHANGED <<status, files, net, guest, job, seen, had>>

(* verify_domain_list: gone from the source, there on the target. *)
Verify ==
    /\ Goes("verify", "rm")
    /\ LET moved == guest["src"] = "absent" /\ guest["tgt"] # "absent"
       IN  \/ moved /\ status' = "PASS"
           \/ (~moved \/ "list" \in Faults) /\ status' = "FAIL"
    /\ UNCHANGED <<files, net, guest, job, look, had>>

-----------------------------------------------------------------------------
(***************************************************************************)
(* cleanup_image, cleanup_guest_netpool                                    *)
(***************************************************************************)
(* rm -rf req_image, whoever's it is. *)
RemoveImage ==
    /\ Goes("rm", "restore")
    /\ img' = "absent" \/ ("rm" \in Faults /\ UNCHANGED img)
    /\ UNCHANGED <<status, bak, bkup, net, guest, job, look, had>>

(* Mutant: the backup is put back only after a success. *)
RestoreIfPassed ==
    /\ Goes("restore", "destroy-tgt")
    /\ IF bkup /\ status = "PASS" THEN img' = bak /\ bak' = "absent"
                                  ELSE UNCHANGED <<img, bak>>
    /\ UNCHANGED <<status, bkup, net, guest, job, look, had>>

(* mv backup_image req_image, if there is a backup. *)
RestoreImage ==
    /\ Goes("restore", "destroy-tgt")
    /\ \/ bkup /\ img' = bak /\ bak' = "absent"
       \/ (~bkup \/ "restore" \in Faults) /\ UNCHANGED <<img, bak>>
    /\ UNCHANGED <<status, bkup, net, guest, job, look, had>>

(* A listing that fails, or a call that does, leaves the guest. *)
Removed(h, listed, left, fs) ==
    \/ listed /\ guest' = [guest EXCEPT ![h] = left]
    \/ (~listed \/ fs \cap Faults # {}) /\ UNCHANGED guest

(* Mutant: the target's guest is left running. *)
DestroyNothing ==
    /\ Goes("destroy-tgt", "undefine-tgt")
    /\ UNCHANGED <<status, files, net, guest, job, look, had>>

(* An active guest is destroyed (DestroySystem also undefines it). *)
DestroyOnTarget ==
    /\ Goes("destroy-tgt", "undefine-tgt")
    /\ Removed("tgt", guest["tgt"] = "active", "absent", {"list", "destroy"})
    /\ UNCHANGED <<status, files, net, job, look, had>>

(* Mutant: the target is left to its own. *)
UndefineNothing ==
    /\ Goes("undefine-tgt", "destroy-src")
    /\ UNCHANGED <<status, files, net, guest, job, look, had>>

(* Then whatever is still listed is undefined; a guest that became active  *)
(* meanwhile goes on as a transient one.                                   *)
UndefineOnTarget ==
    /\ Goes("undefine-tgt", "destroy-src")
    /\ Removed("tgt", guest["tgt"] # "absent",
               IF guest["tgt"] = "active" THEN "active" ELSE "absent",
               {"list", "undefine"})
    /\ UNCHANGED <<status, files, net, job, look, had>>

(* Mutant: a guest is looked for on the target only. *)
SourceSkipped ==
    /\ Goes("destroy-src", "net-destroy")
    /\ UNCHANGED <<status, files, net, guest, job, look, had>>

DestroyOnSource ==
    /\ \/ Goes("destroy-src", "undefine-src") /\ guest["src"] # "absent"
       \/ /\ Goes("destroy-src", "net-destroy")
          /\ guest["src"] = "absent" \/ "list" \in Faults
    /\ \/ pc' = "undefine-src" /\ guest' = [guest EXCEPT !["src"] = "absent"]
       \/ (pc' = "net-destroy" \/ "destroy" \in Faults) /\ UNCHANGED guest
    /\ UNCHANGED <<status, files, net, job, look, had>>

UndefineOnSource ==
    /\ Goes("undefine-src", "net-destroy")
    /\ \/ guest' = [guest EXCEPT !["src"] = IF @ = "active" THEN @ ELSE "absent"]
       \/ "undefine" \in Faults /\ UNCHANGED guest
    /\ UNCHANGED <<status, files, net, job, look, had>>

(* The network pool of the name on the target, whoever made it. *)
DestroyNet ==
    /\ Goes("net-destroy", "done")
    /\ net' = "absent" \/ ("net-destroy" \in Faults /\ UNCHANGED net)
    /\ UNCHANGED <<status, files, guest, job, look, had>>

Script ==
    \/ MakeNet \/ FindImage \/ LookForImage \/ BackUp \/ CopyImage
    \/ CheckHost \/ Migrate \/ FetchJob \/ LookAtJob \/ Verify
    \/ RemoveImage \/ RestoreImage \/ DestroyOnTarget \/ UndefineOnTarget
    \/ DestroyOnSource \/ UndefineOnSource \/ DestroyNet

-----------------------------------------------------------------------------
(***************************************************************************)
(* libvirt                                                                 *)
(***************************************************************************)
JobRuns ==
    /\ job = "starting" /\ job' = "running"
    /\ UNCHANGED <<pc, status, files, net, guest, look, had>>

(* The guest has moved; it cannot, once it was destroyed on the source. *)
JobCompletes ==
    /\ job = "running" /\ guest["src"] = "active"
    /\ job' = "completed"
    /\ guest' = [guest EXCEPT !["src"] = "absent", !["tgt"] = "active"]
    /\ UNCHANGED <<pc, status, files, net, look, had>>

(* The migration fails, perhaps with a domain left defined on the target.  *)
JobFails ==
    /\ Migrating /\ job' = "failed"
    /\ guest' \in {guest, [guest EXCEPT !["tgt"] = "off"]}
    /\ UNCHANGED <<pc, status, files, net, look, had>>

Libvirt == JobRuns \/ JobCompletes \/ JobFails

(* The script has returned and libvirt is at rest. *)
Rest == pc \in Ended /\ ~Migrating /\ UNCHANGED vars

Next == Script \/ Libvirt \/ Rest

Spec == Init /\ [][Next]_vars

(* The script waits for nothing but its own sleeps. *)
FairSpec == Spec /\ WF_vars(Script)

-----------------------------------------------------------------------------
(***************************************************************************)
(* Properties                                                              *)
(***************************************************************************)
(* PASS is returned only when the guest has left the source and is on the  *)
(* target, and nothing moves it any more (verify_domain_list).             *)
PassMeansMoved ==
    pc \in {"rm", "restore", "destroy-tgt"} /\ status = "PASS" =>
        /\ guest["src"] = "absent" /\ guest["tgt"] = "active"
        /\ ~Migrating

(* The target has the image it had (cleanup_image, vsmigrations.py 330),   *)
(* whatever failed on the way.                                             *)
ImageRestored ==
    pc \in Ended => img = IF had.img THEN "theirs" ELSE "absent"

(* On the way it is set aside and put back as SetAside describes it: the   *)
(* copy, the guest's new image and the removal never hit an image of the   *)
(* target's own, nor one that is set aside (local_remote_migrate).         *)
ImageFile == INSTANCE SetAside WITH
    Contents <- {"absent", "theirs", "ours"},
    Theirs <- "theirs", Absent <- "absent", had <- had.img,
    file <- img, aside <- bak,
    busy <- pc \in {"backup", "copy", "check", "migrate", "fetch", "look",
                    "verify", "rm", "restore"}
KeepsImage == ImageFile!Spec

(* After a migration that passed, the guest is on neither host. *)
GoneIfPassed ==
    pc = "done" /\ status = "PASS" =>
        /\ \A h \in Hosts : guest[h] = "absent"
        /\ net # "ours"

(* What cleanup_guest_netpool can see to: no guest stays anywhere if the   *)
(* script saw the job over, or none was started.  A script that NetXML     *)
(* ends does not come to it, and leaves its guest running on the source.   *)
NothingLate ==
    pc = "done" /\ (seen \in {"completed", "failed"} \/ job = "none") =>
        \A h \in Hosts : guest[h] = "absent"

(* The script ends, even if the migration never does. *)
ScriptEnds == <>(pc \in Ended)
=============================================================================
