--------------------------- MODULE NetfsPoolProofs ---------------------------
(***************************************************************************)
(* What NetfsPool says of /etc/exports and of the mounts, for any number   *)
(* of scripts and any calls that may fail.                                 *)
(***************************************************************************)
EXTENDS NetfsPool, TLAPS

(* The host's file is in its place and there is no backup; or it is in the *)
(* backup, when the host has one.                                          *)
Rest  == backup = "absent" /\ (had => exports = "original")
Aside == had => backup = "original" /\ exports # "original"

(* Where the files are at each step, while every script has cleaned up.    *)
Placed ==
    /\ pc \in {"off", "config", "find", "backup", "move", "again"} => Rest
    /\ pc \in {"write", "restore"} => Aside
    /\ pc \in {"chmod", "restart"} => Aside
    /\ pc = "undo" => Aside \/ Rest
    /\ pc \in {"body", "rm", "remove"} /\ way = "new" => Aside
    /\ pc \in {"body", "rm", "remove"} /\ way = "found" => Rest
    /\ pc = "restore" => way = "new"

(* And after a script that has not, which is the first. *)
FirstKept ==
    unclean /\ run <= 1 =>
        pc = "off" /\ (had => "original" \in {exports, backup})

(* The way to a mount of the script's own. *)
Served ==
    /\ pc \in {"backup", "move", "write", "chmod", "restart"} =>
          tmp = {"src", "dst"}
    /\ pc \in {"chmod", "restart"} => exports = "ours"
    /\ way = "found" => pc \in {"body", "rm", "remove", "restore", "again"}

Inv == /\ TypeOK
       /\ (~unclean => Placed) /\ FirstKept
       /\ (run = 0 => pc = "off" /\ ~unclean)
       /\ Served /\ MountServed /\ TheirsKept
       /\ (~had => "original" \notin {exports, backup})

-----------------------------------------------------------------------------
(* Every variable keeps its type. *)
LEMMA InitTypes == Init => TypeOK
<1> SUFFICES ASSUME Init PROVE TypeOK
  OBVIOUS
<1> USE DEF Init
<1>1. run \in 0..MaxRuns
  BY NetfsAssumption
<1>2. exports \in Contents
  <2>1. CASE had
    BY <2>1 DEF Contents
  <2>2. CASE ~had
    BY <2>2 DEF Contents
  <2>3. QED
    BY <2>1, <2>2
<1>3. QED
  BY <1>1, <1>2 DEF TypeOK, Contents, Pcs

LEMMA StepTypes == TypeOK /\ [Next]_vars => TypeOK'
<1> SUFFICES ASSUME TypeOK, [Next]_vars PROVE TypeOK'
  OBVIOUS
<1> USE NetfsAssumption DEF TypeOK, Contents, Pcs, Goes, Fails, Ends, files, host
<1>1. CASE Begin
  <2>1. run' \in 0..MaxRuns
    BY <1>1 DEF Begin
  <2>2. tmp' \subseteq {"src", "dst"} /\ pc' \in Pcs
    BY <1>1 DEF Begin
  <2>3. QED
    BY <1>1, <2>1, <2>2 DEF Begin
<1>2. CASE Config
  <2>1. serves' \in Contents \cup {"off"} /\ tmp' \subseteq {"src", "dst"}
    BY <1>2 DEF Config
  <2>2. pc' \in Pcs
    BY <1>2 DEF Config
  <2>3. QED
    BY <1>2, <2>1, <2>2 DEF Config
<1>3. CASE Find
  <2>1. CASE pc' = "body"
    BY <1>3, <2>1 DEF Find
  <2>2. CASE pc' # "body"
    <3>1. Ends(FALSE) /\ UNCHANGED <<files, serves, source>>
      BY <1>3, <2>2 DEF Find
    <3>2. QED
      BY <3>1
  <2>3. QED
    BY <2>1, <2>2
<1>4. CASE DropBackup
  BY <1>4 DEF DropBackup
<1>5. CASE MoveExports
  BY <1>5 DEF MoveExports
<1>6. CASE WriteExports
  BY <1>6 DEF WriteExports
<1>7. CASE Chmod
  BY <1>7 DEF Chmod
<1>8. CASE Restart
  BY <1>8 DEF Restart
<1>9. CASE Undo
  BY <1>9 DEF Undo
<1>10. CASE Body
  <2>1. pc' \in Pcs /\ tmp' \subseteq {"src", "dst"} /\ unclean' \in BOOLEAN
    BY <1>10 DEF Body
  <2>2. QED
    BY <1>10, <2>1 DEF Body
<1>11. CASE RemoveDirs
  <2>1. pc' \in Pcs /\ tmp' \subseteq {"src", "dst"}
    BY <1>11 DEF RemoveDirs, IsLocal
  <2>2. source' \in BOOLEAN /\ unclean' \in BOOLEAN
    BY <1>11 DEF RemoveDirs, IsLocal
  <2>3. QED
    BY <1>11, <2>1, <2>2 DEF RemoveDirs, IsLocal
<1>12. CASE RemoveExports
  <2>1. CASE pc' = "off"
    <3>1. Ends(TRUE) /\ UNCHANGED <<files, serves, source>>
      BY <1>12, <2>1 DEF RemoveExports
    <3>2. QED
      BY <3>1
  <2>2. CASE pc' # "off"
    <3>1. /\ pc' \in {"again", "restore"} /\ exports' \in {exports, "absent"}
          /\ UNCHANGED <<run, backup, serves, tmp, way, host, source, unclean>>
      BY <1>12, <2>2 DEF RemoveExports
    <3>2. QED
      BY <3>1
  <2>3. QED
    BY <2>1, <2>2
<1>13. CASE RestoreExports
  <2>1. CASE pc' = "again"
    BY <1>13, <2>1 DEF RestoreExports
  <2>2. CASE pc' # "again"
    <3>1. Ends(TRUE) /\ UNCHANGED <<files, serves, source>>
      BY <1>13, <2>2 DEF RestoreExports
    <3>2. QED
      BY <3>1
  <2>3. QED
    BY <2>1, <2>2
<1>14. CASE RestartAgain
  BY <1>14 DEF RestartAgain
<1>15. CASE Kill
  BY <1>15 DEF Kill
<1>16. CASE UNCHANGED vars
  BY <1>16 DEF vars
<1>17. QED
  BY <1>1, <1>2, <1>3, <1>4, <1>5, <1>6, <1>7, <1>8, <1>9, <1>10, <1>11, <1>12, <1>13, <1>14, <1>15, <1>16 DEF Next, Script

THEOREM Types == Spec => []TypeOK
<1>1. QED
  BY InitTypes, StepTypes, PTL DEF Spec

(* Each step keeps the invariant: where the files are follows the script's *)
(* place, and a script that ends elsewhere than at the end is unclean.     *)
LEMMA InitInv == Init => Inv
  BY InitTypes
  DEF Init, Inv, Placed, Rest, FirstKept, Served, MountServed, TheirsKept

LEMMA StepInv == Inv /\ [Next]_vars => Inv'
<1> SUFFICES ASSUME Inv, [Next]_vars PROVE Inv'
  OBVIOUS
<1>0. TypeOK'
  BY StepTypes DEF Inv
<1> USE <1>0 DEF Inv, TypeOK, Contents, Pcs, Placed, Rest, Aside, FirstKept,
       Served, MountServed, TheirsKept, Goes, Fails, Ends, files, host
<1>1. CASE Begin
  BY <1>1 DEF Begin
<1>2. CASE Config
  BY <1>2 DEF Config
<1>3. CASE Find
  BY <1>3 DEF Find
<1>4. CASE DropBackup
  BY <1>4 DEF DropBackup
<1>5. CASE MoveExports
  BY <1>5 DEF MoveExports
<1>6. CASE WriteExports
  BY <1>6 DEF WriteExports
<1>7. CASE Chmod
  BY <1>7 DEF Chmod
<1>8. CASE Restart
  BY <1>8 DEF Restart
<1>9. CASE Undo
  BY <1>9 DEF Undo
<1>10. CASE Body
  BY <1>10 DEF Body
<1>11. CASE RemoveDirs
  BY <1>11 DEF RemoveDirs, IsLocal
<1>12. CASE RemoveExports
  BY <1>12 DEF RemoveExports
<1>13. CASE RestoreExports
  BY <1>13 DEF RestoreExports
<1>14. CASE RestartAgain
  BY <1>14 DEF RestartAgain
<1>15. CASE Kill
  BY <1>15 DEF Kill
<1>16. CASE UNCHANGED vars
  BY <1>16 DEF vars
<1>17. QED
  BY <1>1, <1>2, <1>3, <1>4, <1>5, <1>6, <1>7, <1>8, <1>9, <1>10, <1>11, <1>12, <1>13, <1>14, <1>15, <1>16 DEF Next, Script

LEMMA Invariant == Spec => []Inv
<1>1. QED
  BY InitInv, StepInv, PTL DEF Spec

-----------------------------------------------------------------------------
(* The host's file outlives the first script and any that clean up. *)
THEOREM OriginalSafe == Spec => []OriginalKept
<1>1. Inv => OriginalKept
  BY DEF Inv, TypeOK, Contents, Pcs, Placed, Rest, Aside, FirstKept,
         OriginalKept
<1>2. QED
  BY <1>1, Invariant, PTL

(* After scripts that clean up it is in its place. *)
THEOREM PutBack == Spec => []Restored
<1>1. Inv => Restored
  BY DEF Inv, TypeOK, Contents, Pcs, Placed, Rest, Restored
<1>2. QED
  BY <1>1, Invariant, PTL

(* A script runs on only with a mount that is served. *)
THEOREM OnlyServed == Spec => []MountServed
<1>1. Inv => MountServed
  BY DEF Inv
<1>2. QED
  BY <1>1, Invariant, PTL

(* No directory of another host is removed. *)
THEOREM TheirsSafe == Spec => []TheirsKept
<1>1. Inv => TheirsKept
  BY DEF Inv
<1>2. QED
  BY <1>1, Invariant, PTL

-----------------------------------------------------------------------------
(* A script, wherever it is cut short, moves the host's file as a whole.   *)
LEMMA ExportsStep ==
  ASSUME Inv, Inv', run <= 1 \/ ~unclean, [Next]_vars
  PROVE  [ExportsFile!Next]_(ExportsFile!vars)
<1> USE NetfsAssumption
    DEF Inv, TypeOK, Contents, Pcs, Placed, Rest, Aside, FirstKept, Served,
        Goes, Fails, Ends, files, host, ExportsFile!Next, ExportsFile!vars,
        ExportsFile!Home, ExportsFile!Away, ExportsFile!Back, ExportsFile!Use
<1>0. unclean => Begin \/ UNCHANGED vars
  <2>1. unclean => pc = "off"
    OBVIOUS
  <2>2. pc = "off" => ~Script /\ ~Kill
    BY DEF Script, Config, Find, DropBackup, MoveExports, WriteExports, Chmod,
           Restart, Undo, Body, RemoveDirs, RemoveExports, RestoreExports,
           RestartAgain, Kill
  <2>3. QED
    BY <2>1, <2>2 DEF Next
<1>1. CASE Begin
  BY <1>1 DEF Begin
<1>2. CASE Config \/ Find \/ Chmod \/ Restart
  BY <1>0, <1>2 DEF Config, Find, Chmod, Restart
<1>3. CASE DropBackup
  BY <1>0, <1>3 DEF DropBackup
<1>4. CASE MoveExports
  BY <1>0, <1>4 DEF MoveExports
<1>5. CASE WriteExports
  BY <1>0, <1>5 DEF WriteExports
<1>6. CASE Undo \/ Body \/ RemoveDirs \/ RestartAgain \/ Kill
  BY <1>0, <1>6 DEF Undo, Body, RemoveDirs, RestartAgain, Kill
<1>7. CASE RemoveExports
  BY <1>0, <1>7 DEF RemoveExports
<1>8. CASE RestoreExports
  BY <1>0, <1>8 DEF RestoreExports
<1>9. CASE UNCHANGED vars
  BY <1>9 DEF vars
<1>10. QED
  BY <1>1, <1>2, <1>3, <1>4, <1>5, <1>6, <1>7, <1>8, <1>9 DEF Next, Script

(* The NFS scripts keep the promise of SetAside for /etc/exports, whatever *)
(* fails and wherever they are killed, up to and with the first script     *)
(* that ends without its cleanup; the one after it may not (netfs_config,  *)
(* netfs_cleanup).                                                         *)
THEOREM ExportsSetAside == Spec => KeepsExports
<1>1. Init => ExportsFile!Init
  BY DEF Init, ExportsFile!Init
<1>2. Inv /\ Inv' /\ [Next]_vars
        => [run <= 1 \/ ~unclean => ExportsFile!Next]_(ExportsFile!vars)
  BY ExportsStep
<1>3. QED
  BY <1>1, <1>2, Invariant, PTL DEF Spec, KeepsExports
=============================================================================
