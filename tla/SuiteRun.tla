------------------------------ MODULE SuiteRun ------------------------------
(***************************************************************************)
(* One launch after another of suites/libvirt-cim/main.py, as the host     *)
(* sees it: the checks before a run, setup_env (a network pool, then a     *)
(* disk pool), the test scripts one by one, cleanup_env, and the handler   *)
(* that turns Ctrl-C or sys.exit, wherever it strikes, into a cleanup_env. *)
(*                                                                         *)
(* With libvirt 0.4.1 and later the disk pool is a libvirt pool; before,   *)
(* it is the file /etc/libvirt/diskpool.conf, which setup moves to a       *)
(* backup and cleanup moves back (XenKvmLib/common_util.py).               *)
(***************************************************************************)
EXTENDS Naturals

CONSTANTS HadConf,      \* the host had a diskpool.conf before the suite came
          NTests,       \* length of test_list
          MaxRuns,      \* bound: launches of main.py
          Faults,       \* calls that may fail, a subset of AllFaults
          InterruptAt,  \* values of pc at which Ctrl-C may arrive
          KillAt        \* values of pc at which the process may be killed

(* Calls refused or failing; "lost": ssh gives up after virsh has done its *)
(* work; "version": virsh_version returns None, on which virsh_version_cmp *)
(* raises; "pool-test": a test destroys the runner's disk pool             *)
(* (ResourcePoolConfigurationService 14_delete_storagevolume_errs.py).     *)
AllFaults == {"check", "bridge", "net-create", "disk-create", "net-destroy",
              "disk-destroy", "lost", "version", "conf-unlink", "conf-move",
              "conf-write", "conf-remove", "conf-restore", "pool-test"}

(* The steps of main, up to the last test; those of cleanup_env, which     *)
(* main and the handler share.                                             *)
SetupPcs   == {"check", "net-check", "net-create", "disk-check",
               "disk-create", "drop-backup", "move-conf", "write-conf",
               "undo-net"}
CleanupPcs == {"clean-net", "clean-disk", "remove-conf", "restore-conf"}
Pcs == {"off", "testing", "report"} \cup SetupPcs \cup CleanupPcs

ASSUME RunAssumption ==
    /\ HadConf \in BOOLEAN
    /\ NTests \in Nat /\ MaxRuns \in Nat
    /\ Faults \subseteq AllFaults
    /\ InterruptAt \subseteq Pcs /\ KillAt \subseteq Pcs

VARIABLES
    old,      \* virsh_version(server, virt) is before 0.4.1
    pc,       \* where the run is
    run,      \* number of the launch
    left,     \* tests still to run
    spoilt,   \* a test of this run has destroyed the run's disk pool
    handler,  \* the exception handler is running: Ctrl-C ends the process
    status,   \* what cleanup_env returned: "none" while it has not
    net,      \* the network pool of the suite's name: who made it
    disk,     \* the disk pool of the suite's name: who made it
    conf,     \* diskpool.conf
    backup    \* diskpool.conf.backup

vars == <<old, pc, run, left, spoilt, handler, status,
          net, disk, conf, backup>>
host == <<net, disk, conf, backup>>

(* The steps that deal with the disk pool as a pool, and as a file. *)
DiskPcs == {"disk-check", "disk-create", "clean-disk"}
ConfPcs == {"drop-backup", "move-conf", "write-conf", "remove-conf",
            "restore-conf"}

(* A pool belongs to the launch that made it, or to someone else. *)
Nobody   == 0
Stranger == MaxRuns + 1
Makers   == 0..Stranger
Contents == {"absent", "original", "cimtest"}

(* The disk pool is a file before libvirt 0.4.1 and a pool from then on.   *)
Branches ==
    /\ old  => pc \notin DiskPcs /\ disk \in {Nobody, Stranger}
    /\ ~old => pc \notin ConfPcs /\ backup = "absent"

TypeOK ==
    /\ old \in BOOLEAN
    /\ pc \in Pcs /\ run \in 0..MaxRuns /\ left \in 0..NTests
    /\ spoilt \in BOOLEAN
    /\ handler \in BOOLEAN /\ status \in {"none", "PASS", "FAIL"}
    /\ net \in Makers /\ disk \in Makers
    /\ conf \in Contents /\ backup \in Contents
    /\ Branches

Init ==
    /\ old \in BOOLEAN
    /\ pc = "off" /\ run = 0 /\ left = 0 /\ spoilt = FALSE
    /\ handler = FALSE /\ status = "none"
    /\ net \in {Nobody, Stranger} /\ disk \in {Nobody, Stranger}
    /\ conf = IF HadConf THEN "original" ELSE "absent"
    /\ backup = "absent"

-----------------------------------------------------------------------------
(***************************************************************************)
(* Helpers                                                                 *)
(***************************************************************************)
Goto(here, there) == pc = here /\ pc' = there

(* main returns, or an exception no except of main.py names: the process   *)
(* is gone, and nothing is cleaned up.                                     *)
Exit == /\ pc' = "off" /\ handler' = FALSE
        /\ UNCHANGED <<old, run, left, spoilt, status>>

(* Only the pc and the host move on. *)
Onward == UNCHANGED <<old, run, left, spoilt, handler, status>>

(* The end of cleanup_env with the given status: main goes on to its       *)
(* report, the handler to the end of the process.                          *)
CleanupReturns(s) ==
    /\ status' = s
    /\ pc' = IF handler THEN "off" ELSE "report"
    /\ handler' = FALSE
    /\ UNCHANGED <<old, run, left, spoilt>>

-----------------------------------------------------------------------------
(***************************************************************************)
(* main, up to the first test                                              *)
(***************************************************************************)
Launch ==
    /\ Goto("off", "check") /\ run < MaxRuns
    /\ run' = run + 1 /\ left' = NTests /\ status' = "none" /\ spoilt' = FALSE
    /\ UNCHANGED <<old, handler, host>>

(* pre_check and the selection of tests: a run that is refused returns 1.  *)
Refused == pc = "check" /\ "check" \in Faults /\ Exit /\ UNCHANGED host
Accepted == Goto("check", "net-check") /\ Onward /\ UNCHANGED host

(* create_netpool_conf: a pool of that name already exists, or not. *)
NetExists == pc = "net-check" /\ net # Nobody /\ Exit /\ UNCHANGED host
NetFree ==
    /\ Goto("net-check", "net-create") /\ net = Nobody
    /\ Onward /\ UNCHANGED host

(* NetXML finds no free bridge name and calls sys.exit(SKIP): the handler  *)
(* takes it for a Ctrl-C.                                                  *)
BridgeExits ==
    /\ "bridge" \in Faults
    /\ Goto("net-create", "clean-net") /\ handler' = TRUE
    /\ UNCHANGED <<old, run, left, spoilt, status, host>>

(* Mutant: the comparison of virsh_version with 0.4.1 is turned round. *)
NetCreatedOtherWay ==
    /\ net = Nobody /\ net' = run
    /\ Goto("net-create", IF old THEN "disk-check" ELSE "drop-backup")
    /\ Onward /\ UNCHANGED <<disk, conf, backup>>

(* virsh net-create, refused when the name was taken meanwhile. *)
NetCreated ==
    /\ net = Nobody /\ net' = run
    /\ Goto("net-create", IF old THEN "drop-backup" ELSE "disk-check")
    /\ Onward /\ UNCHANGED <<disk, conf, backup>>

(* Mutant: setup_env does not look at what create_netpool_conf returned. *)
NetFailsUnnoticed ==
    /\ net # Nobody \/ "net-create" \in Faults
    /\ Goto("net-create", IF old THEN "drop-backup" ELSE "disk-check")
    /\ Onward /\ UNCHANGED host

NetFails ==
    /\ pc = "net-create"
    /\ \/ (net # Nobody \/ "net-create" \in Faults) /\ UNCHANGED net
       \/ "lost" \in Faults /\ net = Nobody /\ net' = run
    /\ Exit /\ UNCHANGED <<disk, conf, backup>>

(* create_diskpool_conf, destroy_diskpool and cleanup_restore first ask    *)
(* for the version.  Without an answer virsh_version_cmp raises TypeError, *)
(* outside of every try, and main.py catches only Ctrl-C and sys.exit.     *)
VersionUnknown ==
    /\ "version" \in Faults
    /\ pc \in {"disk-check", "drop-backup", "clean-disk", "remove-conf"}
    /\ Exit /\ UNCHANGED host

(* Mutant: a disk pool found on the host is used. *)
DiskTakenOver ==
    /\ disk # Nobody /\ Goto("disk-check", "testing")
    /\ Onward /\ UNCHANGED host

(* create_diskpool: virsh pool-info, then pool-create. *)
DiskExists ==
    /\ disk # Nobody /\ Goto("disk-check", "undo-net")
    /\ Onward /\ UNCHANGED host
DiskFree ==
    /\ disk = Nobody /\ Goto("disk-check", "disk-create")
    /\ Onward /\ UNCHANGED host
DiskCreated ==
    /\ disk = Nobody /\ disk' = run /\ Goto("disk-create", "testing")
    /\ Onward /\ UNCHANGED <<net, conf, backup>>

(* Mutant: create_diskpool reports no failure. *)
DiskFailsUnnoticed ==
    /\ disk # Nobody \/ "disk-create" \in Faults
    /\ Goto("disk-create", "testing")
    /\ Onward /\ UNCHANGED host

DiskFails ==
    /\ \/ (disk # Nobody \/ "disk-create" \in Faults) /\ UNCHANGED disk
       \/ "lost" \in Faults /\ disk = Nobody /\ disk' = run
    /\ Goto("disk-create", "undo-net")
    /\ Onward /\ UNCHANGED <<net, conf, backup>>

(* create_diskpool_file: an old backup is unlinked, the file is moved to   *)
(* the backup, and conf_file writes the suite's own.  Only conf_file has a *)
(* try: an unlink or a move that fails ends the process.                   *)
DropBackup ==
    \/ /\ Goto("drop-backup", "move-conf") /\ backup' = "absent"
       /\ Onward /\ UNCHANGED <<net, disk, conf>>
    \/ /\ pc = "drop-backup" /\ backup # "absent" /\ "conf-unlink" \in Faults
       /\ Exit /\ UNCHANGED host
MoveConf ==
    \/ /\ Goto("move-conf", "write-conf")
       /\ IF conf = "absent" THEN UNCHANGED <<conf, backup>>
                             ELSE backup' = conf /\ conf' = "absent"
       /\ Onward /\ UNCHANGED <<net, disk>>
    \/ /\ pc = "move-conf" /\ conf # "absent" /\ "conf-move" \in Faults
       /\ Exit /\ UNCHANGED host
WriteConf ==
    \/ /\ Goto("write-conf", "testing") /\ conf' = "cimtest"
       /\ Onward /\ UNCHANGED <<net, disk, backup>>
    \/ /\ Goto("write-conf", "undo-net") /\ "conf-write" \in Faults
       /\ conf' \in {conf, "cimtest"}   \* open raised, or write did
       /\ Onward /\ UNCHANGED <<net, disk, backup>>

(* setup_env could not make the disk pool: it destroys the network pool    *)
(* again and the run returns 1.                                            *)
UndoNet ==
    /\ pc = "undo-net"
    /\ \/ net' = Nobody
       \/ "net-destroy" \in Faults /\ UNCHANGED net
    /\ Exit /\ UNCHANGED <<disk, conf, backup>>

-----------------------------------------------------------------------------
(***************************************************************************)
(* The tests and the way out                                               *)
(***************************************************************************)
(* A test makes and removes pools of other names.  Only one touches those  *)
(* of the runner, and only where there are storage pools: RPCS_14 hands    *)
(* its clean_vol to cleanup_pool_vol at the place of clean_pool.  It is in *)
(* test_list once, so the pool it destroys is still this run's.            *)
RunTest ==
    /\ pc = "testing" /\ left > 0 /\ left' = left - 1
    /\ \/ UNCHANGED <<spoilt, disk>>
       \/ /\ "pool-test" \in Faults /\ ~old /\ disk = run
          /\ disk' = Nobody /\ spoilt' = TRUE
    /\ UNCHANGED <<old, pc, run, handler, status, net, conf, backup>>
TestsDone ==
    /\ Goto("testing", "clean-net") /\ left = 0
    /\ Onward /\ UNCHANGED host

(* Mutant: cleanup_env ignores what destroy_netpool returned. *)
CleanNetGoesOn ==
    /\ Goto("clean-net", IF old THEN "remove-conf" ELSE "clean-disk")
    /\ \/ net' = Nobody
       \/ "net-destroy" \in Faults /\ UNCHANGED net
    /\ Onward /\ UNCHANGED <<disk, conf, backup>>

(* cleanup_env: destroy_netpool first; when it fails the disk pool is left. *)
CleanNet ==
    \/ /\ Goto("clean-net", IF old THEN "remove-conf" ELSE "clean-disk")
       /\ net # Nobody /\ net' = Nobody
       /\ Onward /\ UNCHANGED <<disk, conf, backup>>
    \/ /\ pc = "clean-net"
       /\ \/ (net = Nobody \/ "net-destroy" \in Faults) /\ UNCHANGED net
          \/ "lost" \in Faults /\ net' = Nobody
       /\ CleanupReturns("FAIL") /\ UNCHANGED <<disk, conf, backup>>

(* destroy_diskpool, with a libvirt pool. *)
CleanDisk ==
    /\ pc = "clean-disk"
    /\ \/ disk # Nobody /\ disk' = Nobody /\ CleanupReturns("PASS")
       \/ /\ disk = Nobody \/ "disk-destroy" \in Faults
          /\ UNCHANGED disk /\ CleanupReturns("FAIL")
       \/ "lost" \in Faults /\ disk' = Nobody /\ CleanupReturns("FAIL")
    /\ UNCHANGED <<net, conf, backup>>

(* destroy_diskpool with the file: cleanup_restore removes the file and    *)
(* moves the backup back, if there is a backup.  When either of these      *)
(* raises it returns SKIP.                                                 *)
RemoveConf ==
    /\ pc = "remove-conf"
    /\ \/ backup = "absent" /\ UNCHANGED conf /\ CleanupReturns("PASS")
       \/ /\ backup # "absent"
          /\ conf = "absent" \/ "conf-remove" \in Faults
          /\ UNCHANGED conf /\ CleanupReturns("FAIL")
       \/ /\ backup # "absent" /\ conf # "absent" /\ conf' = "absent"
          /\ pc' = "restore-conf" /\ Onward
    /\ UNCHANGED <<net, disk, backup>>

(* Mutant: the backup is copied, not moved. *)
RestoreConfCopies ==
    /\ pc = "restore-conf"
    /\ conf' = backup /\ UNCHANGED backup /\ CleanupReturns("PASS")
    /\ UNCHANGED <<net, disk>>

RestoreConf ==
    /\ pc = "restore-conf"
    /\ \/ conf' = backup /\ backup' = "absent" /\ CleanupReturns("PASS")
       \/ /\ "conf-restore" \in Faults
          /\ UNCHANGED <<conf, backup>> /\ CleanupReturns("FAIL")
    /\ UNCHANGED <<net, disk>>

(* gen_report and send_report, then main returns 0. *)
Report == pc = "report" /\ Exit /\ UNCHANGED host

(* Mutant: Ctrl-C in the handler starts it again. *)
InterruptAgain ==
    /\ pc \in InterruptAt \ {"off"}
    /\ pc' = "clean-net"
    /\ UNCHANGED <<old, run, left, spoilt, status, handler, host>>

(* Ctrl-C: main is left for the handler; in the handler it ends the run.   *)
Interrupt ==
    /\ pc \in InterruptAt \ {"off"}
    /\ IF handler THEN Exit
       ELSE /\ pc' = "clean-net" /\ handler' = TRUE
            /\ UNCHANGED <<old, run, left, spoilt, status>>
    /\ UNCHANGED host

Kill == pc \in KillAt \ {"off"} /\ Exit /\ UNCHANGED host

(* Someone else makes a pool of one of those names, or removes their own. *)
Other ==
    /\ \/ /\ net = Nobody \/ net = Stranger
          /\ net' \in {Nobody, Stranger} /\ UNCHANGED disk
       \/ /\ disk = Nobody \/ disk = Stranger
          /\ disk' \in {Nobody, Stranger} /\ UNCHANGED net
    /\ UNCHANGED <<old, pc, run, left, spoilt, handler, status, conf, backup>>

(* Between two launches the host is rebooted: pools made with net-create   *)
(* and pool-create are gone, files are not.                                *)
Reboot ==
    /\ pc = "off" /\ net' = Nobody /\ disk' = Nobody
    /\ UNCHANGED <<old, pc, run, left, spoilt, handler, status, conf, backup>>

Setup ==
    \/ Refused \/ Accepted \/ NetExists \/ NetFree \/ BridgeExits
    \/ NetCreated \/ NetFails \/ VersionUnknown
    \/ DiskExists \/ DiskFree \/ DiskCreated
    \/ DiskFails \/ DropBackup \/ MoveConf \/ WriteConf \/ UndoNet

Teardown == CleanNet \/ CleanDisk \/ RemoveConf \/ RestoreConf \/ Report

Step == Setup \/ RunTest \/ TestsDone \/ Teardown

Next == Launch \/ Step \/ Interrupt \/ Kill \/ Other \/ Reboot

Spec == Init /\ [][Next]_vars

(* main.py is one sequential process that waits for nobody. *)
FairSpec == Spec /\ WF_vars(Step)

-----------------------------------------------------------------------------
(***************************************************************************)
(* Properties                                                              *)
(***************************************************************************)
(* Every test runs with the pools of its own run (setup_env, main.py       *)
(* 123-140), whatever launches and removals of others went before; but     *)
(* once a test has destroyed the disk pool the later ones run without it,  *)
(* or with one that somebody else has made since.                          *)
TestsHavePools ==
    pc = "testing" =>
        /\ net = run
        /\ old     => conf = "cimtest"
        /\ ~old    => (disk = run <=> ~spoilt)
        /\ spoilt  => left < NTests

(* A run removes no pool but its own.  main.py destroys by name, and the   *)
(* names are its own from setup_env on.  Excused are the handler, which    *)
(* cannot tell when it was called, unless it is called in the tests only,  *)
(* and the disk pool's name once a test has given it away.                 *)
OnlyInTests == InterruptAt \subseteq {"testing"} /\ "bridge" \notin Faults
Moves == <<pc, left, handler>>' # <<pc, left, handler>>
SparesOthers ==
    [][ Moves /\ (~handler \/ OnlyInTests) =>
            /\ net # Nobody /\ net' = Nobody => net = run
            /\ disk # Nobody /\ disk' = Nobody => disk = run \/ spoilt ]_vars

(* When cleanup_env says PASS ("Clean up successful"), no pool of this run *)
(* is left and no diskpool.conf is still set aside, wherever the run was   *)
(* interrupted.                                                            *)
PassMeansClean ==
    pc \in {"off", "report"} /\ status = "PASS" =>
        net # run /\ disk # run /\ backup = "absent"

(* What setup_env made is taken down again (cleanup_env, main.py 144-155): *)
(* when a run is over, no pool of any run is left and the host has the     *)
(* diskpool.conf it had.  Faults, InterruptAt and KillAt say what may      *)
(* disturb the run (runner_whole, and Whole in SuiteRunProofs).            *)
NothingLeft ==
    pc = "off" => /\ net \notin 1..MaxRuns /\ disk \notin 1..MaxRuns
                  /\ HadConf => conf = "original" /\ backup = "absent"

(* The pools of the host are on lease to a run, as PoolLease describes it: *)
(* setup_env and cleanup_env deal with the names of the suite as one       *)
(* tenant among others (main.py 123-155).  Every step of the run moves     *)
(* main.py on, and nobody else's does.  The handler is excused as in       *)
(* SparesOthers, and so is a run whose disk pool a test has destroyed,     *)
(* while a stranger has its name.                                          *)
Lease == INSTANCE PoolLease WITH
    Pools   <- {"net", "disk"},
    Fragile <- IF "pool-test" \in Faults THEN {"disk"} ELSE {},
    holder <- [p \in {"net", "disk"} |-> IF p = "net" THEN net ELSE disk],
    needs  <- IF old THEN {"net"} ELSE {"net", "disk"},
    phase  <- CASE pc = "off"         -> "out"
                [] pc \in SetupPcs    -> "setup"
                [] pc = "testing"     -> "testing"
                [] OTHER              -> "leaving",
    place  <- <<pc, left, handler>>
NameLost == spoilt /\ disk = Stranger
KeepsLease ==
    /\ Lease!Init
    /\ [][(~handler \/ OnlyInTests) /\ ~NameLost => Lease!Next]_(Lease!vars)

(* The diskpool.conf of the host survives: "Restoring back the original    *)
(* diskpool.conf file" (cleanup_restore, common_util.py 302-305).          *)
OriginalKept == HadConf => "original" \in {conf, backup}

(* That file is set aside and put back as SetAside describes it: no write  *)
(* and no removal ever hits the host's own content, and when the run is    *)
(* over it is in its place (create_diskpool_file, cleanup_restore).        *)
ConfFile == INSTANCE SetAside WITH
    Theirs <- "original", Absent <- "absent", had <- HadConf,
    file <- conf, aside <- backup, busy <- pc # "off"
KeepsConf == ConfFile!Spec

(* Every run comes to its end. *)
RunEnds == pc # "off" ~> pc = "off"
=============================================================================
