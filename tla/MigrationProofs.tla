--------------------------- MODULE MigrationProofs ---------------------------
(***************************************************************************)
(* What TLAPS proves of Migration, for every number of looks at the job.   *)
(* The last three theorems each name the faults they rule out.             *)
(***************************************************************************)
EXTENDS Migration, TLAPS

CleaningGuest == {"undefine-tgt", "destroy-src", "undefine-src",
                  "net-destroy", "done"}
Cleaning == CleaningGuest \cup {"destroy-tgt"}

-----------------------------------------------------------------------------
(* A verdict is about a job that completed, and a job stays completed.     *)
JobInv ==
    /\ pc \in {"net", "find", "ls", "backup", "copy", "check", "migrate"} =>
          job = "none" /\ seen = "none"
    /\ seen \in {"completed", "failed"} => job = seen
    /\ pc = "verify" => seen = "completed"
    /\ status = "PASS" => job = "completed" /\ seen = "completed"
    /\ job = "completed" => guest["src"] = "absent"
    /\ job = "completed" /\ pc \notin CleaningGuest =>
          guest["tgt"] = "active"

MigInv == TypeOK /\ JobInv

LEMMA MigInvInit == ASSUME Init PROVE MigInv
  <1>1. TypeOK
    <2>1. guest \in [Hosts -> {"absent", "off", "active"}]
      BY DEF Init, Hosts
    <2>2. img \in {"absent", "theirs"} /\ net \in {"absent", "theirs"}
      BY DEF Init
    <2>3. looks \in 0..Timeout BY MigAssumption DEF Init
    <2> QED BY <2>1, <2>2, <2>3 DEF Init, TypeOK, Jobs
  <1>2. JobInv BY DEF Init, JobInv
  <1> QED BY <1>1, <1>2 DEF MigInv

LEMMA ScriptKeepsTypes == ASSUME TypeOK, Script PROVE TypeOK'
  <1> USE MigAssumption DEF TypeOK, Hosts, Jobs, Goes, Fails, files, look
  <1>1. CASE MakeNet BY <1>1 DEF MakeNet
  <1>2. CASE FindImage BY <1>2 DEF FindImage
  <1>3. CASE LookForImage BY <1>3 DEF LookForImage
  <1>4. CASE BackUp
    <2>1. CASE pc' = "copy" /\ bak' = img /\ img' = "absent" /\ bkup' = TRUE
      BY <1>4, <2>1 DEF BackUp
    <2>2. CASE pc' = "rm" /\ UNCHANGED files
      BY <1>4, <2>2 DEF BackUp
    <2> QED BY <1>4, <2>1, <2>2 DEF BackUp
  <1>5. CASE CopyImage BY <1>5 DEF CopyImage
  <1>6. CASE CheckHost BY <1>6 DEF CheckHost
  <1>7. CASE Migrate BY <1>7 DEF Migrate
  <1>8. CASE FetchJob BY <1>8 DEF FetchJob
  <1>9. CASE LookAtJob
    <2>1. looks' \in 0..Timeout
      <3>1. UNCHANGED looks \/ (looks < Timeout - 1 /\ looks' = looks + 1)
        BY <1>9 DEF LookAtJob
      <3> QED BY <3>1
    <2>2. pc' \in {"verify", "rm", "fetch"}
      BY <1>9 DEF LookAtJob
    <2> QED BY <1>9, <2>1, <2>2 DEF LookAtJob
  <1>10. CASE Verify BY <1>10 DEF Verify
  <1>11. CASE RemoveImage BY <1>11 DEF RemoveImage
  <1>12. CASE RestoreImage BY <1>12 DEF RestoreImage
  <1>13. CASE DestroyOnTarget BY <1>13 DEF DestroyOnTarget, Removed
  <1>14. CASE UndefineOnTarget BY <1>14 DEF UndefineOnTarget, Removed
  <1>15. CASE DestroyOnSource BY <1>15 DEF DestroyOnSource
  <1>16. CASE UndefineOnSource BY <1>16 DEF UndefineOnSource
  <1>17. CASE DestroyNet BY <1>17 DEF DestroyNet
  <1> QED BY <1>1, <1>2, <1>3, <1>4, <1>5, <1>6, <1>7, <1>8, <1>9, <1>10,
             <1>11, <1>12, <1>13, <1>14, <1>15, <1>16, <1>17 DEF Script

LEMMA ScriptKeepsJobInv == ASSUME MigInv, Script PROVE JobInv'
  <1> USE DEF MigInv, TypeOK, JobInv, CleaningGuest, Hosts, Jobs, Goes,
              Fails, files, look
  <1>1. CASE MakeNet BY <1>1 DEF MakeNet
  <1>2. CASE FindImage BY <1>2 DEF FindImage
  <1>3. CASE LookForImage BY <1>3 DEF LookForImage
  <1>4. CASE BackUp BY <1>4 DEF BackUp
  <1>5. CASE CopyImage BY <1>5 DEF CopyImage
  <1>6. CASE CheckHost BY <1>6 DEF CheckHost
  <1>7. CASE Migrate BY <1>7 DEF Migrate
  <1>8. CASE FetchJob BY <1>8 DEF FetchJob
  <1>9. CASE LookAtJob BY <1>9 DEF LookAtJob
  <1>10. CASE Verify BY <1>10 DEF Verify
  <1>11. CASE RemoveImage BY <1>11 DEF RemoveImage
  <1>12. CASE RestoreImage BY <1>12 DEF RestoreImage
  <1>13. CASE DestroyOnTarget BY <1>13 DEF DestroyOnTarget, Removed
  <1>14. CASE UndefineOnTarget BY <1>14 DEF UndefineOnTarget, Removed
  <1>15. CASE DestroyOnSource BY <1>15 DEF DestroyOnSource
  <1>16. CASE UndefineOnSource BY <1>16 DEF UndefineOnSource
  <1>17. CASE DestroyNet BY <1>17 DEF DestroyNet
  <1> QED BY <1>1, <1>2, <1>3, <1>4, <1>5, <1>6, <1>7, <1>8, <1>9, <1>10,
             <1>11, <1>12, <1>13, <1>14, <1>15, <1>16, <1>17 DEF Script

LEMMA LibvirtKeepsInv == ASSUME MigInv, Libvirt PROVE MigInv'
  <1> USE DEF MigInv, TypeOK, JobInv, Hosts, Jobs, Migrating, files, look
  <1>1. CASE JobRuns BY <1>1 DEF JobRuns
  <1>2. CASE JobCompletes BY <1>2 DEF JobCompletes
  <1>3. CASE JobFails BY <1>3 DEF JobFails
  <1> QED BY <1>1, <1>2, <1>3 DEF Libvirt

THEOREM MigInvariant == Spec => []MigInv
  <1>1. Init => MigInv BY MigInvInit
  <1>2. MigInv /\ [Next]_vars => MigInv'
    <2> SUFFICES ASSUME MigInv, [Next]_vars PROVE MigInv' OBVIOUS
    <2>1. CASE Script
      BY <2>1, ScriptKeepsTypes, ScriptKeepsJobInv DEF MigInv
    <2>2. CASE Libvirt BY <2>2, LibvirtKeepsInv
    <2>3. CASE UNCHANGED vars BY <2>3 DEF vars, MigInv, TypeOK, JobInv
    <2> QED BY <2>1, <2>2, <2>3 DEF Next, Rest
  <1> QED BY <1>1, <1>2, PTL DEF Spec

(* Every variable stays in its range, the looks at the job within time_out *)
(* (check_migration_job).                                                  *)
THEOREM TypesKept == Spec => []TypeOK
  <1>1. MigInv => TypeOK BY DEF MigInv
  <1> QED BY <1>1, MigInvariant, PTL

(* PASS is returned only of a guest that has moved and is at rest, however *)
(* the job and the script interleave and whatever fails.                   *)
THEOREM PassIsMoved == Spec => []PassMeansMoved
  <1>1. MigInv => PassMeansMoved
    BY DEF MigInv, JobInv, CleaningGuest, PassMeansMoved, Migrating
  <1> QED BY <1>1, MigInvariant, PTL

-----------------------------------------------------------------------------
(* Where the target's own image is, at every place of the script.          *)
Own == IF had.img THEN "theirs" ELSE "absent"

ImageInv ==
    /\ pc \in {"net", "find", "ls", "exit"} =>
          img = Own /\ bak = "absent" /\ ~bkup
    /\ pc = "backup" => had.img /\ img = "theirs" /\ bak = "absent" /\ ~bkup
    /\ pc \in {"copy", "check", "migrate", "fetch", "look", "verify", "rm",
               "restore"} => bak = Own /\ bkup = had.img /\ img # "theirs"
    /\ pc = "restore" => img = "absent"
    /\ pc \in Cleaning => img = Own

LEMMA ScriptKeepsImage ==
  ASSUME TypeOK, ImageInv, Script,
         Faults \cap {"ls", "backup", "rm", "restore"} = {}
  PROVE  ImageInv'
  <1> USE DEF TypeOK, ImageInv, Cleaning, CleaningGuest, Own, Goes, Fails,
              files
  <1>1. CASE MakeNet BY <1>1 DEF MakeNet
  <1>2. CASE FindImage BY <1>2 DEF FindImage
  <1>3. CASE LookForImage BY <1>3 DEF LookForImage
  <1>4. CASE BackUp BY <1>4 DEF BackUp
  <1>5. CASE CopyImage BY <1>5 DEF CopyImage
  <1>6. CASE CheckHost BY <1>6 DEF CheckHost
  <1>7. CASE Migrate BY <1>7 DEF Migrate
  <1>8. CASE FetchJob BY <1>8 DEF FetchJob
  <1>9. CASE LookAtJob BY <1>9 DEF LookAtJob
  <1>10. CASE Verify BY <1>10 DEF Verify
  <1>11. CASE RemoveImage BY <1>11 DEF RemoveImage
  <1>12. CASE RestoreImage BY <1>12 DEF RestoreImage
  <1>13. CASE DestroyOnTarget BY <1>13 DEF DestroyOnTarget
  <1>14. CASE UndefineOnTarget BY <1>14 DEF UndefineOnTarget
  <1>15. CASE DestroyOnSource BY <1>15 DEF DestroyOnSource
  <1>16. CASE UndefineOnSource BY <1>16 DEF UndefineOnSource
  <1>17. CASE DestroyNet BY <1>17 DEF DestroyNet
  <1> QED BY <1>1, <1>2, <1>3, <1>4, <1>5, <1>6, <1>7, <1>8, <1>9, <1>10,
             <1>11, <1>12, <1>13, <1>14, <1>15, <1>16, <1>17 DEF Script

LEMMA ImageInvStep ==
  ASSUME Faults \cap {"ls", "backup", "rm", "restore"} = {}
  PROVE  TypeOK /\ ImageInv /\ [Next]_vars => ImageInv'
  <1> SUFFICES ASSUME TypeOK, ImageInv, [Next]_vars PROVE ImageInv'
    OBVIOUS
  <1>1. CASE Script BY <1>1, ScriptKeepsImage
  <1>2. CASE Libvirt
    BY <1>2 DEF Libvirt, JobRuns, JobCompletes, JobFails, ImageInv, Own,
                files
  <1>3. CASE UNCHANGED vars BY <1>3 DEF vars, ImageInv, Own
  <1> QED BY <1>1, <1>2, <1>3 DEF Next, Rest

(* The target has its image back in the end, or none if it had none, if    *)
(* the four commands on it over ssh work; all else may fail.               *)
THEOREM ImageComesBack ==
  ASSUME Faults \cap {"ls", "backup", "rm", "restore"} = {}
  PROVE  Spec => []ImageRestored
  <1>1. Init => ImageInv
    BY DEF Init, ImageInv, Own, Cleaning, CleaningGuest
  <1>2. TypeOK /\ ImageInv /\ [Next]_vars => ImageInv' BY ImageInvStep
  <1>3. ImageInv => ImageRestored
    BY DEF ImageInv, Own, Cleaning, CleaningGuest, ImageRestored, Ended
  <1> QED BY <1>1, <1>2, <1>3, TypesKept, PTL DEF Spec

(* On the way, the target's image is moved as a whole, and nothing the     *)
(* script does to the two files hits it.                                   *)
LEMMA ImageStep ==
  ASSUME TypeOK, TypeOK', ImageInv, ImageInv', Script,
         Faults \cap {"ls", "backup", "rm", "restore"} = {}
  PROVE  ImageFile!Next
         \/ UNCHANGED <<had.img, img, bak,
                        pc \in {"backup", "copy", "check", "migrate", "fetch",
                                "look", "verify", "rm", "restore"}>>
  <1> USE DEF TypeOK, ImageInv, Cleaning, CleaningGuest, Own, Goes, Fails,
              files, ImageFile!Next, ImageFile!Home, ImageFile!Away,
              ImageFile!Back, ImageFile!Use
  <1>1. CASE MakeNet BY <1>1 DEF MakeNet
  <1>2. CASE FindImage BY <1>2 DEF FindImage
  <1>3. CASE LookForImage BY <1>3 DEF LookForImage
  <1>4. CASE BackUp BY <1>4 DEF BackUp
  <1>5. CASE CopyImage BY <1>5 DEF CopyImage
  <1>6. CASE CheckHost BY <1>6 DEF CheckHost
  <1>7. CASE Migrate BY <1>7 DEF Migrate
  <1>8. CASE FetchJob BY <1>8 DEF FetchJob
  <1>9. CASE LookAtJob BY <1>9 DEF LookAtJob
  <1>10. CASE Verify BY <1>10 DEF Verify
  <1>11. CASE RemoveImage BY <1>11 DEF RemoveImage
  <1>12. CASE RestoreImage BY <1>12 DEF RestoreImage
  <1>13. CASE DestroyOnTarget BY <1>13 DEF DestroyOnTarget
  <1>14. CASE UndefineOnTarget BY <1>14 DEF UndefineOnTarget
  <1>15. CASE DestroyOnSource BY <1>15 DEF DestroyOnSource
  <1>16. CASE UndefineOnSource BY <1>16 DEF UndefineOnSource
  <1>17. CASE DestroyNet BY <1>17 DEF DestroyNet
  <1> QED BY <1>1, <1>2, <1>3, <1>4, <1>5, <1>6, <1>7, <1>8, <1>9, <1>10,
             <1>11, <1>12, <1>13, <1>14, <1>15, <1>16, <1>17 DEF Script

(* Migration keeps the promise of SetAside for the image, if the four      *)
(* commands work (local_remote_migrate, cleanup_image).                    *)
THEOREM ImageSetAside ==
  ASSUME Faults \cap {"ls", "backup", "rm", "restore"} = {}
  PROVE  Spec => KeepsImage
  <1>1. Init => ImageInv /\ ImageFile!Init
    BY DEF Init, ImageInv, Own, Cleaning, CleaningGuest, ImageFile!Init
  <1>2. TypeOK /\ ImageInv /\ [Next]_vars => ImageInv'
    BY ImageInvStep
  <1>3. TypeOK /\ TypeOK' /\ ImageInv /\ ImageInv' /\ [Next]_vars
        => [ImageFile!Next]_(ImageFile!vars)
    <2> SUFFICES ASSUME TypeOK, TypeOK', ImageInv, ImageInv', [Next]_vars
                 PROVE  [ImageFile!Next]_(ImageFile!vars)
      OBVIOUS
    <2>1. CASE Script BY <2>1, ImageStep DEF ImageFile!vars
    <2>2. CASE Libvirt
      BY <2>2 DEF Libvirt, JobRuns, JobCompletes, JobFails, files,
                  ImageFile!vars
    <2>3. CASE UNCHANGED vars BY <2>3 DEF vars, ImageFile!vars
    <2> QED BY <2>1, <2>2, <2>3 DEF Next, Rest
  <1> QED BY <1>1, <1>2, <1>3, TypesKept, PTL
          DEF Spec, KeepsImage, ImageFile!Spec

-----------------------------------------------------------------------------
(* The script saw the job over, or started none. *)
Over == seen \in {"completed", "failed"} \/ job = "none"

GuestInv ==
    /\ pc \in CleaningGuest /\ Over => guest["tgt"] # "active"
    /\ pc \in CleaningGuest \ {"undefine-tgt"} /\ Over =>
          guest["tgt"] = "absent"
    /\ pc \in {"undefine-src", "net-destroy", "done"} /\ Over =>
          guest["src"] = "absent"

LEMMA ScriptKeepsGuest ==
  ASSUME MigInv, GuestInv, Script,
         Faults \cap {"list", "destroy", "undefine"} = {}
  PROVE  GuestInv'
  <1> USE DEF MigInv, TypeOK, JobInv, GuestInv, Over, CleaningGuest, Goes,
              Fails, Hosts, Jobs, files, look
  <1>1. CASE MakeNet BY <1>1 DEF MakeNet
  <1>2. CASE FindImage BY <1>2 DEF FindImage
  <1>3. CASE LookForImage BY <1>3 DEF LookForImage
  <1>4. CASE BackUp BY <1>4 DEF BackUp
  <1>5. CASE CopyImage BY <1>5 DEF CopyImage
  <1>6. CASE CheckHost BY <1>6 DEF CheckHost
  <1>7. CASE Migrate BY <1>7 DEF Migrate
  <1>8. CASE FetchJob BY <1>8 DEF FetchJob
  <1>9. CASE LookAtJob BY <1>9 DEF LookAtJob
  <1>10. CASE Verify BY <1>10 DEF Verify
  <1>11. CASE RemoveImage BY <1>11 DEF RemoveImage
  <1>12. CASE RestoreImage BY <1>12 DEF RestoreImage
  <1>13. CASE DestroyOnTarget BY <1>13 DEF DestroyOnTarget, Removed
  <1>14. CASE UndefineOnTarget BY <1>14 DEF UndefineOnTarget, Removed
  <1>15. CASE DestroyOnSource BY <1>15 DEF DestroyOnSource
  <1>16. CASE UndefineOnSource BY <1>16 DEF UndefineOnSource
  <1>17. CASE DestroyNet BY <1>17 DEF DestroyNet
  <1> QED BY <1>1, <1>2, <1>3, <1>4, <1>5, <1>6, <1>7, <1>8, <1>9, <1>10,
             <1>11, <1>12, <1>13, <1>14, <1>15, <1>16, <1>17 DEF Script

(* No guest stays on either host once the script has ended, if it saw the  *)
(* job over or started none (cleanup_guest_netpool): a libvirt that is     *)
(* still migrating is the only way to be left with one.                    *)
THEOREM NoGuestStays ==
  ASSUME Faults \cap {"list", "destroy", "undefine"} = {}
  PROVE  Spec => []NothingLate
  <1>1. Init => GuestInv BY DEF Init, GuestInv, CleaningGuest
  <1>2. MigInv /\ GuestInv /\ [Next]_vars => GuestInv'
    <2> SUFFICES ASSUME MigInv, GuestInv, [Next]_vars PROVE GuestInv'
      OBVIOUS
    <2>1. CASE Script BY <2>1, ScriptKeepsGuest
    <2>2. CASE Libvirt
      BY <2>2 DEF Libvirt, JobRuns, JobCompletes, JobFails, Migrating,
                  MigInv, JobInv, GuestInv, Over, files, look
    <2>3. CASE UNCHANGED vars BY <2>3 DEF vars, GuestInv, Over
    <2> QED BY <2>1, <2>2, <2>3 DEF Next, Rest
  <1>3. GuestInv => NothingLate
    BY DEF GuestInv, Over, CleaningGuest, NothingLate, Hosts
  <1> QED BY <1>1, <1>2, <1>3, MigInvariant, PTL DEF Spec

-----------------------------------------------------------------------------
(* The last step of the script takes the network pool with it.             *)
NetGone == pc = "done" => net = "absent"

(* A migration that passed leaves neither guest nor network pool: its      *)
(* cleaning up meets a guest at rest (cleanup_guest_netpool).              *)
THEOREM NothingAfterPass ==
  ASSUME Faults \cap {"list", "destroy", "undefine", "net-destroy"} = {}
  PROVE  Spec => []GoneIfPassed
  <1>1. Spec => []NothingLate BY NoGuestStays
  <1>2. Init => NetGone BY DEF Init, NetGone
  <1>3. NetGone /\ [Next]_vars => NetGone'
    <2> SUFFICES ASSUME NetGone, [Next]_vars PROVE NetGone' OBVIOUS
    <2>1. CASE Script
      <3>1. pc # "done" /\ (pc' = "done" => UndefineOnSource \/ DestroyNet)
        BY <2>1 DEF Script, MakeNet, FindImage, LookForImage, BackUp,
                    CopyImage, CheckHost, Migrate, FetchJob, LookAtJob,
                    Verify, RemoveImage, RestoreImage, DestroyOnTarget,
                    UndefineOnTarget, DestroyOnSource, UndefineOnSource,
                    DestroyNet, Goes, Fails
      <3>2. CASE DestroyNet BY <3>2 DEF DestroyNet, NetGone
      <3>3. CASE UndefineOnSource
        BY <3>3 DEF UndefineOnSource, NetGone, Goes
      <3> QED BY <3>1, <3>2, <3>3 DEF NetGone
    <2>2. CASE Libvirt
      BY <2>2 DEF Libvirt, JobRuns, JobCompletes, JobFails, NetGone
    <2>3. CASE UNCHANGED vars BY <2>3 DEF vars, NetGone
    <2> QED BY <2>1, <2>2, <2>3 DEF Next, Rest
  <1>4. MigInv /\ NothingLate /\ NetGone => GoneIfPassed
    BY DEF MigInv, JobInv, NothingLate, NetGone, GoneIfPassed
  <1> QED BY <1>1, <1>2, <1>3, <1>4, MigInvariant, PTL DEF Spec
-----------------------------------------------------------------------------
(***************************************************************************)
(* The script waits for a bounded time.  What it has still to do shrinks   *)
(* with each of its steps, and libvirt cannot make it more; that the steps *)
(* are taken is the fairness of FairSpec, which TLC uses for ScriptEnds.   *)
(***************************************************************************)
Before == {"net", "find", "ls", "backup", "copy", "check", "migrate"}
Loop   == {"fetch", "look"}
After  == Cleaning \cup {"verify", "rm", "restore", "exit"}

Rank ==
    CASE pc \in Ended        -> 0   [] pc = "net-destroy"  -> 1
      [] pc = "undefine-src" -> 2   [] pc = "destroy-src"  -> 3
      [] pc = "undefine-tgt" -> 4   [] pc = "destroy-tgt"  -> 5
      [] pc = "restore"      -> 6   [] pc = "rm"           -> 7
      [] pc = "verify"       -> 8   [] pc = "look"         -> 9
      [] pc = "fetch"        -> 10  [] pc = "migrate"      -> 11
      [] pc = "check"        -> 12  [] pc = "copy"         -> 13
      [] pc = "backup"       -> 14  [] pc = "ls"           -> 15
      [] pc = "find"         -> 16  [] pc = "net"          -> 17

(* Each look that is left is worth two steps: fetching the job is one up   *)
(* from looking at it.                                                     *)
ToGo == Rank + (IF pc \in After THEN 0 ELSE 2 * (Timeout - looks))

LEMMA ToGoBounded ==
  ASSUME TypeOK
  PROVE  ToGo \in 0..(2 * Timeout + 17) /\ (ToGo = 0 <=> pc \in Ended)
  <1>1. 2 * (Timeout - looks) \in 0..(2 * Timeout)
    BY MigAssumption DEF TypeOK
  <1>2. CASE pc \in Before
    <2>1. Rank \in 11..17 BY <1>2 DEF Before, Rank, Ended
    <2> QED BY <1>1, <1>2, <2>1, MigAssumption
            DEF Before, After, Cleaning, CleaningGuest, ToGo, Ended
  <1>3. CASE pc \in Loop
    <2>1. Rank \in 9..10 BY <1>3 DEF Loop, Rank, Ended
    <2> QED BY <1>1, <1>3, <2>1, MigAssumption
            DEF Loop, After, Cleaning, CleaningGuest, ToGo, Ended
  <1>4. CASE pc \in After
    <2>1. CASE pc \in Ended
      <3>1. Rank = 0 BY <2>1 DEF Rank, Ended
      <3> QED BY <1>4, <2>1, <3>1, MigAssumption DEF ToGo
    <2>2. CASE pc \notin Ended
      <3>1. Rank \in 1..8
        BY <1>4, <2>2 DEF After, Cleaning, CleaningGuest, Rank, Ended
      <3> QED BY <1>4, <2>2, <3>1, MigAssumption DEF ToGo
    <2> QED BY <2>1, <2>2
  <1> QED BY <1>2, <1>3, <1>4
          DEF TypeOK, Before, Loop, After, Cleaning, CleaningGuest

LEMMA ScriptNearer ==
  ASSUME TypeOK, Script PROVE ToGo' < ToGo
  <1> USE MigAssumption DEF TypeOK, Goes, Fails, ToGo, Rank, After, Cleaning,
                            CleaningGuest, Ended, look
  <1>1. CASE MakeNet BY <1>1 DEF MakeNet
  <1>2. CASE FindImage BY <1>2 DEF FindImage
  <1>3. CASE LookForImage BY <1>3 DEF LookForImage
  <1>4. CASE BackUp BY <1>4 DEF BackUp
  <1>5. CASE CopyImage BY <1>5 DEF CopyImage
  <1>6. CASE CheckHost BY <1>6 DEF CheckHost
  <1>7. CASE Migrate BY <1>7 DEF Migrate
  <1>8. CASE FetchJob BY <1>8 DEF FetchJob
  <1>9. CASE LookAtJob BY <1>9 DEF LookAtJob
  <1>10. CASE Verify BY <1>10 DEF Verify
  <1>11. CASE RemoveImage BY <1>11 DEF RemoveImage
  <1>12. CASE RestoreImage BY <1>12 DEF RestoreImage
  <1>13. CASE DestroyOnTarget BY <1>13 DEF DestroyOnTarget
  <1>14. CASE UndefineOnTarget BY <1>14 DEF UndefineOnTarget
  <1>15. CASE DestroyOnSource BY <1>15 DEF DestroyOnSource
  <1>16. CASE UndefineOnSource BY <1>16 DEF UndefineOnSource
  <1>17. CASE DestroyNet BY <1>17 DEF DestroyNet
  <1> QED BY <1>1, <1>2, <1>3, <1>4, <1>5, <1>6, <1>7, <1>8, <1>9, <1>10,
             <1>11, <1>12, <1>13, <1>14, <1>15, <1>16, <1>17 DEF Script

(* A migration script is over after 2 * time_out + 17 steps of its own at  *)
(* most, even if the job never ends: whatever libvirt does takes none of   *)
(* them back (check_migration_job).                                        *)
THEOREM ScriptIsShort ==
  Spec => /\ [](ToGo \in 0..(2 * Timeout + 17) /\ (ToGo = 0 <=> pc \in Ended))
          /\ [][ToGo' < ToGo \/ (Libvirt /\ UNCHANGED ToGo)]_vars
  <1>1. TypeOK =>
          ToGo \in 0..(2 * Timeout + 17) /\ (ToGo = 0 <=> pc \in Ended)
    BY ToGoBounded
  <1>2. TypeOK /\ [Next]_vars =>
          [ToGo' < ToGo \/ (Libvirt /\ UNCHANGED ToGo)]_vars
    <2> SUFFICES ASSUME TypeOK, Next, ~UNCHANGED vars
                 PROVE  ToGo' < ToGo \/ (Libvirt /\ UNCHANGED ToGo)
      OBVIOUS
    <2>1. CASE Script BY <2>1, ScriptNearer
    <2>2. CASE Libvirt
      <3>1. pc' = pc /\ looks' = looks
        BY <2>2 DEF Libvirt, JobRuns, JobCompletes, JobFails, look
      <3> QED BY <2>2, <3>1 DEF ToGo, Rank
    <2> QED BY <2>1, <2>2 DEF Next, Rest
  <1> QED BY <1>1, <1>2, TypesKept, PTL DEF Spec
=============================================================================
