----------------------------- MODULE NetfsPool ------------------------------
(***************************************************************************)
(* The NFS mount that a script uses for a netfs pool (XenKvmLib/           *)
(* common_util.py, nfs_netfs_setup and netfs_cleanup), one script after    *)
(* another on the same host.                                               *)
(*                                                                         *)
(* The setup puts /etc/exports aside, writes a line of its own and         *)
(* restarts the NFS server; where there is no server it takes the first    *)
(* NFS mount it finds.  The cleanup removes the directories and puts       *)
(* /etc/exports back.  Each call may fail, the script may return without   *)
(* the cleanup, and the process may be killed anywhere.                    *)
(***************************************************************************)
EXTENDS Naturals

CONSTANTS MaxRuns,  \* bound: scripts that set an NFS mount up
          Faults    \* calls that may fail, a subset of AllFaults

AllFaults == {"server", "start", "resolve", "move", "write", "chmod",
              "restart", "body", "rm", "kill"}

ASSUME NetfsAssumption ==
    MaxRuns \in Nat /\ Faults \subseteq AllFaults

VARIABLES
    pc,       \* where the script is
    run,      \* how many scripts have begun
    had,      \* the host had an /etc/exports before the suite came
    exports,  \* /etc/exports
    backup,   \* /etc/exports.backup
    serves,   \* what the NFS server exports: a file, or "off"
    tmp,      \* the script's temporary directories
    way,      \* the mount is "new" or "found"
    mount,    \* an NFS mount of the host's: "none", from "remote", "local"
    named,    \* the server's name is the first that gethostbyaddr gives it
    source,   \* the directory behind that mount is there
    unclean   \* a script has ended without putting /etc/exports back

vars == <<pc, run, had, exports, backup, serves, tmp, way, mount, named,
          source, unclean>>
files == <<exports, backup>>
host  == <<had, mount, named>>

Contents == {"absent", "original", "ours"}
Pcs == {"off", "config", "find", "backup", "move", "write", "chmod",
        "restart", "undo", "body", "rm", "remove", "restore", "again"}

TypeOK ==
    /\ pc \in Pcs /\ run \in 0..MaxRuns /\ had \in BOOLEAN
    /\ exports \in Contents /\ backup \in Contents
    /\ serves \in Contents \cup {"off"}
    /\ tmp \subseteq {"src", "dst"}
    /\ way \in {"new", "found"}
    /\ mount \in {"none", "remote", "local"} /\ named \in BOOLEAN
    /\ source \in BOOLEAN /\ unclean \in BOOLEAN

Init ==
    /\ pc = "off" /\ run = 0
    /\ had \in BOOLEAN
    /\ exports = IF had THEN "original" ELSE "absent"
    /\ backup = "absent"
    /\ serves \in {exports, "off"}
    /\ tmp = {} /\ way = "new"
    /\ mount \in {"none", "remote", "local"} /\ named \in BOOLEAN
    /\ source = TRUE /\ unclean = FALSE

Goes(at, to) == pc = at /\ pc' = to
Fails(at, f, to) == f \in Faults /\ Goes(at, to)

(* The script is over.  Directories that are there still are forgotten.    *)
Ends(dirty) ==
    /\ pc' = "off" /\ tmp' = {} /\ way' = "new"
    /\ unclean' = (unclean \/ dirty)
    /\ UNCHANGED <<run, host>>

-----------------------------------------------------------------------------
(***************************************************************************)
(* nfs_netfs_setup                                                         *)
(***************************************************************************)
(* get_nfs_bin may raise at a release it cannot read; then mkdtemp.        *)
Begin ==
    /\ run < MaxRuns /\ run' = run + 1
    /\ \/ Goes("off", "config") /\ tmp' = {"dst"}
       \/ Fails("off", "server", "off") /\ UNCHANGED tmp
    /\ UNCHANGED <<files, serves, way, host, source, unclean>>

(* nfs_config: a server that runs, one that is started, or none.           *)
Config ==
    /\ \/ /\ Goes("config", "backup") /\ serves # "off"
          /\ tmp' = {"src", "dst"} /\ UNCHANGED serves
       \/ /\ Goes("config", "backup") /\ serves = "off" /\ serves' = exports
          /\ tmp' = {"src", "dst"}
       \/ /\ Fails("config", "start", "find") /\ UNCHANGED <<serves, tmp>>
    /\ UNCHANGED <<run, files, way, host, source, unclean>>

(* check_existing_nfs: without a mount the script is skipped; the name of  *)
(* the mount's host is asked for, and the call may raise.                  *)
Find ==
    \/ /\ Goes("find", "body") /\ mount # "none" /\ way' = "found"
       /\ UNCHANGED <<run, files, serves, tmp, host, source, unclean>>
    \/ /\ pc = "find" /\ (mount = "none" \/ "resolve" \in Faults)
       /\ Ends(FALSE) /\ UNCHANGED <<files, serves, source>>

(* netfs_config: an old backup is removed, and the file takes its place.   *)
DropBackup ==
    /\ IF exports = "absent" THEN Goes("backup", "write") /\ UNCHANGED backup
                             ELSE Goes("backup", "move") /\ backup' = "absent"
    /\ UNCHANGED <<run, exports, serves, tmp, way, host, source, unclean>>

(* Mutant: the file is copied to the backup only after it was written. *)
MoveTooLate ==
    /\ Goes("move", "write")
    /\ exports' = "ours" /\ backup' = "ours"
    /\ UNCHANGED <<run, serves, tmp, way, host, source, unclean>>

MoveExports ==
    /\ \/ Goes("move", "write") /\ backup' = exports /\ exports' = "absent"
       \/ Fails("move", "move", "undo") /\ UNCHANGED files
    /\ UNCHANGED <<run, serves, tmp, way, host, source, unclean>>

WriteExports ==
    /\ \/ Goes("write", "chmod") /\ exports' = "ours"
       \/ Fails("write", "write", "undo") /\ exports' \in {exports, "ours"}
    /\ UNCHANGED <<run, backup, serves, tmp, way, host, source, unclean>>

Chmod ==
    /\ Goes("chmod", "restart") \/ Fails("chmod", "chmod", "undo")
    /\ UNCHANGED <<run, files, serves, tmp, way, host, source, unclean>>

(* Mutant: the result of the restart is not looked at. *)
RestartUnseen ==
    /\ Goes("restart", "body")
    /\ serves' = exports \/ ("restart" \in Faults /\ serves' \in {serves, "off"})
    /\ UNCHANGED <<run, files, tmp, way, host, source, unclean>>

Restart ==
    /\ \/ Goes("restart", "body") /\ serves' = exports
       \/ Fails("restart", "restart", "undo") /\ serves' \in {serves, "off"}
    /\ UNCHANGED <<run, files, tmp, way, host, source, unclean>>

(* The except clause removes the two directories and nothing else.         *)
Undo ==
    /\ pc = "undo" /\ Ends(TRUE) /\ UNCHANGED <<files, serves, source>>

-----------------------------------------------------------------------------
(***************************************************************************)
(* The script, and netfs_cleanup                                           *)
(***************************************************************************)
(* A script goes on to its cleanup, or returns without it.                 *)
Body ==
    \/ /\ Goes("body", "rm")
       /\ UNCHANGED <<run, files, serves, tmp, way, host, source, unclean>>
    \/ /\ pc = "body" /\ "body" \in Faults
       /\ Ends(way = "new") /\ UNCHANGED <<files, serves, source>>

(* check_haddr_is_localhost: the host of the mount is this one.            *)
IsLocal == IF way = "new" THEN named ELSE mount = "local"

(* Mutant: the source directory is removed whosever it is. *)
RemoveBothDirs ==
    /\ pc = "rm" /\ source' = (source /\ way = "new")
    /\ \/ IsLocal /\ pc' = "remove" /\ tmp' = {}
          /\ UNCHANGED <<run, way, host, unclean>>
       \/ ~IsLocal /\ Ends(way = "new")
    /\ UNCHANGED <<files, serves>>

(* The directories: of a mount that was found here, the one behind it too. *)
RemoveDirs ==
    \/ /\ Goes("rm", "remove") /\ IsLocal
       /\ \/ tmp' = {} /\ source' = (source /\ way = "new")
          \/ "rm" \in Faults /\ UNCHANGED <<tmp, source>>
       /\ UNCHANGED <<run, files, serves, way, host, unclean>>
    \/ /\ pc = "rm" /\ (~IsLocal \/ "resolve" \in Faults)
       /\ Ends(way = "new") /\ UNCHANGED <<files, serves, source>>

(* Is there a backup?  os.remove raises when there is no file.             *)
RemoveExports ==
    \/ /\ Goes("remove", "again") /\ backup = "absent"
       /\ UNCHANGED <<run, files, serves, tmp, way, host, source, unclean>>
    \/ /\ Goes("remove", "restore") /\ backup # "absent" /\ exports # "absent"
       /\ exports' = "absent"
       /\ UNCHANGED <<run, backup, serves, tmp, way, host, source, unclean>>
    \/ /\ pc = "remove" /\ backup # "absent" /\ exports = "absent"
       /\ Ends(TRUE) /\ UNCHANGED <<files, serves, source>>

(* Mutant: the backup is copied back, and stays. *)
RestoreCopies ==
    /\ Goes("restore", "again") /\ exports' = backup
    /\ UNCHANGED <<run, backup, serves, tmp, way, host, source, unclean>>

RestoreExports ==
    /\ \/ /\ Goes("restore", "again")
          /\ exports' = backup /\ backup' = "absent"
          /\ UNCHANGED <<run, tmp, way, host, unclean>>
       \/ /\ pc = "restore" /\ "move" \in Faults
          /\ Ends(TRUE) /\ UNCHANGED files
    /\ UNCHANGED <<serves, source>>

(* The server is restarted; a failure is only logged. *)
RestartAgain ==
    /\ pc = "again" /\ Ends(FALSE)
    /\ serves' = exports \/ ("restart" \in Faults /\ serves' \in {serves, "off"})
    /\ UNCHANGED <<files, source>>

Kill ==
    /\ pc # "off" /\ "kill" \in Faults
    /\ Ends(pc \notin {"config", "find"} /\ way = "new")
    /\ UNCHANGED <<files, serves, source>>

Script ==
    \/ Config \/ Find \/ DropBackup \/ MoveExports \/ WriteExports \/ Chmod
    \/ Restart \/ Undo \/ Body \/ RemoveDirs \/ RemoveExports
    \/ RestoreExports \/ RestartAgain

Next == Begin \/ Script \/ Kill

Spec == Init /\ [][Next]_vars

-----------------------------------------------------------------------------
(***************************************************************************)
(* Properties                                                              *)
(***************************************************************************)
(* The host's own /etc/exports is never lost by one script, whichever of   *)
(* its steps fails and wherever it is killed, nor by any number of scripts *)
(* of which each has reached the end of its cleanup: it is in its place or *)
(* in the backup at every moment.                                          *)
OriginalKept ==
    had /\ (run <= 1 \/ ~unclean) => "original" \in {exports, backup}

(* As long as no script before was cut short, it is set aside and put back *)
(* as SetAside describes it: no write and no removal hits the host's own   *)
(* content, and a script that is done with it has put it back or has left  *)
(* it in the backup and is unclean (netfs_config, netfs_cleanup).          *)
ExportsFile == INSTANCE SetAside WITH
    Theirs <- "original", Absent <- "absent",
    file <- exports, aside <- backup, busy <- pc # "off" \/ unclean
KeepsExports ==
    ExportsFile!Init
    /\ [][run <= 1 \/ ~unclean => ExportsFile!Next]_(ExportsFile!vars)

(* Between two scripts, when all before have cleaned up or have changed    *)
(* nothing, the host's file is in its place and there is no backup that a  *)
(* later cleanup would take for it.                                        *)
Restored ==
    pc = "off" /\ ~unclean =>
        backup = "absent" /\ (had => exports = "original")

(* The script goes on with a mount of its own only when the server exports *)
(* the directory the script has made for it.                               *)
MountServed ==
    pc = "body" /\ way = "new" =>
        exports = "ours" /\ serves = "ours" /\ tmp = {"src", "dst"}

(* A directory of another host, mounted before the suite came and used by  *)
(* it, is not removed.                                                     *)
TheirsKept == mount = "remote" => source
=============================================================================
