--------------------------- MODULE SuiteRunProofs ---------------------------
(***************************************************************************)
(* What TLAPS proves of SuiteRun, for every number of launches and tests,  *)
(* with and without diskpool.conf, and for every set of failing calls and  *)
(* of points of interruption (but where a theorem says otherwise).         *)
(***************************************************************************)
EXTENDS SuiteRun, TLAPS

(* What the code knows at a step but the properties do not say: whose      *)
(* network pool it holds, when a test may have destroyed the disk pool,    *)
(* and that a PASS, once given, stays true of the host until the next      *)
(* launch.                                                                 *)
NetHeld ==
    /\ pc # "off" => run > 0
    /\ pc \in {"disk-check", "disk-create", "drop-backup", "move-conf",
               "write-conf", "undo-net"} => net = run
    /\ pc \in {"clean-disk", "remove-conf", "restore-conf"} => net # run

Spoiling ==
    spoilt => /\ ~old /\ pc \notin SetupPcs /\ "pool-test" \in Faults
              /\ disk \in {Nobody, Stranger}

PassStays ==
    status = "PASS" => /\ pc \in {"off", "report"} \cup CleanupPcs
                       /\ run > 0 /\ net # run /\ disk # run /\ backup = "absent"

RunInv == TypeOK /\ NetHeld /\ Spoiling /\ PassStays /\ TestsHavePools

(* A run is neither nobody nor a stranger. *)
LEMMA MakersApart ==
  /\ Nobody \in Makers /\ Stranger \in Makers
  /\ \A r \in 0..MaxRuns :
        r > 0 => r \in Makers /\ r # Nobody /\ r # Stranger
  BY RunAssumption DEF Makers, Nobody, Stranger

LEMMA RunInvInit == ASSUME Init PROVE RunInv
  <1> USE RunAssumption, MakersApart DEF Init, Pcs, Contents
  <1>1. TypeOK
    <2>1. pc \in Pcs /\ run \in 0..MaxRuns /\ left \in 0..NTests OBVIOUS
    <2>2. handler \in BOOLEAN /\ status \in {"none", "PASS", "FAIL"} OBVIOUS
    <2>3. net \in Makers /\ disk \in Makers OBVIOUS
    <2>4. conf \in Contents /\ backup \in Contents OBVIOUS
    <2>5. spoilt \in BOOLEAN /\ Branches
      BY DEF Branches, DiskPcs, ConfPcs
    <2> QED BY <2>1, <2>2, <2>3, <2>4, <2>5 DEF TypeOK
  <1>2. NetHeld BY DEF NetHeld
  <1>3. Spoiling BY DEF Spoiling
  <1>4. PassStays /\ TestsHavePools BY DEF PassStays, TestsHavePools
  <1> QED BY <1>1, <1>2, <1>3, <1>4 DEF RunInv

(* TypeOK in parts: the run's own variables and the host's. *)
Control ==
    /\ old \in BOOLEAN
    /\ pc \in Pcs /\ run \in 0..MaxRuns /\ left \in 0..NTests
    /\ spoilt \in BOOLEAN
    /\ handler \in BOOLEAN /\ status \in {"none", "PASS", "FAIL"}
Places ==
    /\ net \in Makers /\ disk \in Makers
    /\ conf \in Contents /\ backup \in Contents

LEMMA TypeParts == ASSUME Control', Places', Branches' PROVE TypeOK'
  BY DEF Control, Places, TypeOK

(* The step from a pc where nothing is held yet up to the tests.           *)
LEMMA SetupKeepsInv == ASSUME RunInv, Setup PROVE RunInv'
  <1> USE RunAssumption, MakersApart
      DEF RunInv, TypeOK, NetHeld, Spoiling, PassStays, TestsHavePools,
          Branches, DiskPcs, ConfPcs, Pcs, SetupPcs, CleanupPcs, Contents,
          Goto, Exit, Onward, host
  <1>1. CASE Refused \/ Accepted
    <2>1. CASE Refused  BY <2>1 DEF Refused
    <2>2. CASE Accepted BY <2>2 DEF Accepted
    <2> QED BY <1>1, <2>1, <2>2
  <1>2. CASE NetExists \/ NetFree
    <2>1. CASE NetExists BY <2>1 DEF NetExists
    <2>2. CASE NetFree   BY <2>2 DEF NetFree
    <2> QED BY <1>2, <2>1, <2>2
  <1>3. CASE BridgeExits            BY <1>3 DEF BridgeExits
  <1>4. CASE NetCreated             BY <1>4 DEF NetCreated
  <1>5. CASE NetFails               BY <1>5 DEF NetFails
  <1>6. CASE DiskExists \/ DiskFree
    <2> USE <1>6 DEF DiskExists, DiskFree
    <2>1. TypeOK' OBVIOUS
    <2>2. NetHeld' /\ Spoiling' OBVIOUS
    <2>3. PassStays' /\ TestsHavePools' OBVIOUS
    <2> QED BY <2>1, <2>2, <2>3
  <1>7. CASE DiskCreated
    <2> USE <1>7 DEF DiskCreated
    <2>1. TypeOK' OBVIOUS
    <2>2. NetHeld' /\ Spoiling' OBVIOUS
    <2>3. PassStays' /\ TestsHavePools' OBVIOUS
    <2> QED BY <2>1, <2>2, <2>3
  <1>8. CASE DiskFails              BY <1>8 DEF DiskFails
  <1>9. CASE DropBackup
    <2> USE <1>9 DEF DropBackup
    <2>1. TypeOK' OBVIOUS
    <2>2. NetHeld' /\ Spoiling' OBVIOUS
    <2>3. PassStays' /\ TestsHavePools' OBVIOUS
    <2> QED BY <2>1, <2>2, <2>3
  <1>10. CASE MoveConf
    <2> USE <1>10 DEF MoveConf
    <2>1. TypeOK' OBVIOUS
    <2>2. NetHeld' /\ Spoiling' OBVIOUS
    <2>3. PassStays' /\ TestsHavePools' OBVIOUS
    <2> QED BY <2>1, <2>2, <2>3
  <1>11. CASE WriteConf             BY <1>11 DEF WriteConf
  <1>12. CASE UndoNet               BY <1>12 DEF UndoNet
  <1>13. CASE VersionUnknown        BY <1>13 DEF VersionUnknown
  <1> QED BY <1>1, <1>2, <1>3, <1>4, <1>5, <1>6, <1>7, <1>8, <1>9, <1>10,
             <1>11, <1>12, <1>13 DEF Setup

(* The tests, cleanup_env and the report.                                  *)
LEMMA TeardownKeepsInv ==
  ASSUME RunInv, RunTest \/ TestsDone \/ Teardown PROVE RunInv'
  <1> USE RunAssumption, MakersApart
      DEF RunInv, TypeOK, NetHeld, Spoiling, PassStays, TestsHavePools,
          Branches, DiskPcs, ConfPcs, Pcs, SetupPcs, CleanupPcs, Contents,
          Goto, Exit, Onward, host, CleanupReturns
  <1>1. CASE RunTest
    <2> USE <1>1 DEF RunTest
    <2>1. TypeOK'
      <3>1. left' \in 0..NTests
        <4>1. left \in Nat /\ left > 0 /\ left' = left - 1 /\ left <= NTests
          OBVIOUS
        <4> QED BY ONLY <4>1, RunAssumption DEF RunAssumption
      <3>2. Control' BY <3>1 DEF Control
      <3>3. Places' BY DEF Places
      <3>4. Branches' OBVIOUS
      <3> QED BY ONLY <3>2, <3>3, <3>4, TypeParts
    <2>2. NetHeld' /\ Spoiling' OBVIOUS
    <2>3. PassStays' /\ TestsHavePools' OBVIOUS
    <2> QED BY <2>1, <2>2, <2>3
  <1>2. CASE TestsDone   BY <1>2 DEF TestsDone
  <1>3. CASE CleanNet
    <2> USE <1>3 DEF CleanNet
    <2>1. TypeOK'
      <3>1. Control' BY DEF Control
      <3>2. Places' BY DEF Places
      <3>3. Branches' OBVIOUS
      <3> QED BY ONLY <3>1, <3>2, <3>3, TypeParts
    <2>2. NetHeld' /\ Spoiling' OBVIOUS
    <2>3. PassStays' /\ TestsHavePools' OBVIOUS
    <2> QED BY <2>1, <2>2, <2>3
  <1>4. CASE CleanDisk
    <2> USE <1>4 DEF CleanDisk
    <2>1. TypeOK'
      <3>1. Control' BY DEF Control
      <3>2. Places' BY DEF Places
      <3>3. Branches' OBVIOUS
      <3> QED BY ONLY <3>1, <3>2, <3>3, TypeParts
    <2>2. NetHeld' /\ Spoiling' OBVIOUS
    <2>3. PassStays' /\ TestsHavePools' OBVIOUS
    <2> QED BY <2>1, <2>2, <2>3
  <1>5. CASE RemoveConf
    <2> USE <1>5 DEF RemoveConf
    <2>1. TypeOK'
      <3>1. Control' BY DEF Control
      <3>2. Places' BY DEF Places
      <3>3. Branches' OBVIOUS
      <3> QED BY ONLY <3>1, <3>2, <3>3, TypeParts
    <2>2. NetHeld' /\ Spoiling' OBVIOUS
    <2>3. PassStays' /\ TestsHavePools' OBVIOUS
    <2> QED BY <2>1, <2>2, <2>3
  <1>6. CASE RestoreConf
    <2> USE <1>6 DEF RestoreConf
    <2>1. TypeOK'
      <3>1. Control' BY DEF Control
      <3>2. Places' BY DEF Places
      <3>3. Branches' OBVIOUS
      <3> QED BY ONLY <3>1, <3>2, <3>3, TypeParts
    <2>2. NetHeld' /\ Spoiling' OBVIOUS
    <2>3. PassStays' /\ TestsHavePools' OBVIOUS
    <2> QED BY <2>1, <2>2, <2>3
  <1>7. CASE Report      BY <1>7 DEF Report
  <1> QED BY <1>1, <1>2, <1>3, <1>4, <1>5, <1>6, <1>7 DEF Teardown

(* What happens to a run, and to the host, from outside.                   *)
LEMMA OutsideKeepsInv ==
  ASSUME RunInv, Launch \/ Interrupt \/ Kill \/ Other \/ Reboot
  PROVE  RunInv'
  <1> USE RunAssumption, MakersApart
      DEF RunInv, TypeOK, NetHeld, Spoiling, PassStays, TestsHavePools,
          Branches, DiskPcs, ConfPcs, Pcs, SetupPcs, CleanupPcs, Contents,
          Goto, Exit, host
  <1>1. CASE Launch
    <2> USE <1>1 DEF Launch
    <2>1. TypeOK'
      <3>1. run' \in 0..MaxRuns /\ left' \in 0..NTests
        <4>1. run \in Nat /\ run < MaxRuns /\ run' = run + 1 /\ left' = NTests
          OBVIOUS
        <4> QED BY ONLY <4>1, RunAssumption DEF RunAssumption
      <3>2. Control' BY <3>1 DEF Control
      <3>3. Places' BY DEF Places
      <3>4. Branches' OBVIOUS
      <3> QED BY ONLY <3>2, <3>3, <3>4, TypeParts
    <2>2. NetHeld' /\ Spoiling' OBVIOUS
    <2>3. PassStays' /\ TestsHavePools' OBVIOUS
    <2> QED BY <2>1, <2>2, <2>3
  <1>2. CASE Interrupt
    <2> USE <1>2 DEF Interrupt
    <2>1. TypeOK'
      <3>1. Control' BY DEF Control
      <3>2. Places' BY DEF Places
      <3>3. Branches' OBVIOUS
      <3> QED BY ONLY <3>1, <3>2, <3>3, TypeParts
    <2>2. NetHeld' /\ Spoiling' OBVIOUS
    <2>3. PassStays' /\ TestsHavePools' OBVIOUS
    <2> QED BY <2>1, <2>2, <2>3
  <1>3. CASE Kill      BY <1>3 DEF Kill
  <1>4. CASE Other \/ Reboot
    <2> USE <1>4 DEF Other, Reboot
    <2>1. TypeOK'     OBVIOUS
    <2>2. Spoiling'   OBVIOUS
    <2>3. NetHeld' /\ TestsHavePools' OBVIOUS
    <2>4. PassStays'
      <3>1. status' = status /\ pc' = pc /\ run' = run /\ backup' = backup
        OBVIOUS
      <3>2. net' = net \/ net' = Nobody \/ net' = Stranger OBVIOUS
      <3>3. disk' = disk \/ disk' = Nobody \/ disk' = Stranger OBVIOUS
      <3>4. PassStays BY DEF PassStays
      <3>5. run > 0 => run # Nobody /\ run # Stranger OBVIOUS
      <3> QED BY ONLY <3>1, <3>2, <3>3, <3>4, <3>5 DEF PassStays
    <2> QED BY <2>1, <2>2, <2>3, <2>4
  <1> QED BY <1>1, <1>2, <1>3, <1>4

LEMMA RunInvStep == ASSUME RunInv, [Next]_vars PROVE RunInv'
  <1>1. CASE Next
    BY <1>1, SetupKeepsInv, TeardownKeepsInv, OutsideKeepsInv DEF Next, Step
  <1>2. CASE UNCHANGED vars
    BY <1>2 DEF vars, RunInv, TypeOK, Branches, NetHeld, Spoiling, PassStays,
                TestsHavePools
  <1> QED BY <1>1, <1>2

THEOREM RunInvariant == Spec => []RunInv
  <1>1. Init => RunInv BY RunInvInit
  <1>2. RunInv /\ [Next]_vars => RunInv' BY RunInvStep
  <1> QED BY <1>1, <1>2, PTL DEF Spec

(* Every variable stays in its range, so a pool is nobody's, a launch's or *)
(* a stranger's (main.py 181-319).                                         *)
THEOREM TypesKept == Spec => []TypeOK
  <1>1. RunInv => TypeOK BY DEF RunInv
  <1> QED BY <1>1, RunInvariant, PTL

(* The tests run with the pools of their own run (main.py 254-264), until  *)
(* one of them destroys the disk pool, with whatever failures,             *)
(* interruptions and kills before.                                         *)
THEOREM PoolsForTests == Spec => []TestsHavePools
  <1>1. RunInv => TestsHavePools BY DEF RunInv
  <1> QED BY <1>1, RunInvariant, PTL

(* "Clean up successful" is never said with a pool of the run, or a        *)
(* diskpool.conf set aside, left on the host (main.py 144-155, 327-333).   *)
THEOREM PassIsClean == Spec => []PassMeansClean
  <1>1. RunInv => PassMeansClean
    BY DEF RunInv, PassStays, PassMeansClean
  <1> QED BY <1>1, RunInvariant, PTL

-----------------------------------------------------------------------------
(***************************************************************************)
(* Pools of others are spared: by main always, by the handler if nothing   *)
(* throws the run into it outside the tests.                               *)
(***************************************************************************)
Answers == ~handler \/ OnlyInTests

CleanupOwns ==
    Answers => /\ pc = "clean-net" => net = run
               /\ pc \in {"clean-net", "clean-disk"} /\ ~old
                    => disk = run \/ spoilt

LEMMA CleanupOwnsStep ==
  ASSUME RunInv, CleanupOwns, [Next]_vars
  PROVE  CleanupOwns'
  <1> USE RunAssumption, MakersApart
      DEF RunInv, TypeOK, Branches, DiskPcs, ConfPcs, NetHeld, Spoiling,
          TestsHavePools, CleanupOwns,
          Answers, OnlyInTests, Pcs, Goto, Exit, Onward,
          host, CleanupReturns
  <1>1. CASE Setup
    BY <1>1 DEF Setup, Refused, Accepted, NetExists, NetFree, BridgeExits,
                NetCreated, NetFails, VersionUnknown, DiskExists, DiskFree,
                DiskCreated,
                DiskFails, DropBackup, MoveConf, WriteConf, UndoNet
  <1>2. CASE RunTest \/ TestsDone \/ Teardown
    BY <1>2 DEF RunTest, TestsDone, Teardown, CleanNet, CleanDisk,
                RemoveConf, RestoreConf, Report
  <1>3. CASE Launch \/ Kill \/ Other \/ Reboot
    BY <1>3 DEF Launch, Kill, Other, Reboot
  <1>4. CASE Interrupt BY <1>4 DEF Interrupt
  <1>5. CASE UNCHANGED vars BY <1>5 DEF vars
  <1> QED BY <1>1, <1>2, <1>3, <1>4, <1>5 DEF Next, Step

LEMMA SparingStep ==
  ASSUME RunInv, CleanupOwns, Next, Moves, Answers
  PROVE  /\ net # Nobody /\ net' = Nobody => net = run
         /\ disk # Nobody /\ disk' = Nobody => disk = run \/ spoilt
  <1> USE RunAssumption, MakersApart
      DEF RunInv, TypeOK, Branches, DiskPcs, ConfPcs, NetHeld, Spoiling,
          CleanupOwns, Goto, Exit, Onward,
          host, CleanupReturns
  <1>1. CASE Setup
    BY <1>1 DEF Setup, Refused, Accepted, NetExists, NetFree, BridgeExits,
                NetCreated, NetFails, VersionUnknown, DiskExists, DiskFree,
                DiskCreated,
                DiskFails, DropBackup, MoveConf, WriteConf, UndoNet
  <1>2. CASE RunTest \/ TestsDone \/ Teardown
    BY <1>2 DEF RunTest, TestsDone, Teardown, CleanNet, CleanDisk,
                RemoveConf, RestoreConf, Report
  <1>3. CASE Launch \/ Interrupt \/ Kill \/ Other \/ Reboot
    BY <1>3 DEF Launch, Interrupt, Kill, Other, Reboot, Moves
  <1> QED BY <1>1, <1>2, <1>3 DEF Next, Step

(* main.py takes its pools down by name, and the names are its own when it *)
(* does, but in the handler of an interrupt that came outside the tests    *)
(* (main.py 127-155, 322-333).                                             *)
THEOREM OthersSpared == Spec => SparesOthers
  <1>1. Init => CleanupOwns BY DEF Init, CleanupOwns
  <1>2. RunInv /\ CleanupOwns /\ [Next]_vars => CleanupOwns'
    BY CleanupOwnsStep
  <1>3. RunInv /\ CleanupOwns /\ [Next]_vars
        => [Moves /\ (~handler \/ OnlyInTests) =>
              /\ net # Nobody /\ net' = Nobody => net = run
              /\ disk # Nobody /\ disk' = Nobody => disk = run \/ spoilt]_vars
    BY SparingStep DEF Answers
  <1> QED BY <1>1, <1>2, <1>3, RunInvariant, PTL DEF Spec, SparesOthers
-----------------------------------------------------------------------------
(***************************************************************************)
(* The refinement of PoolLease: every step but those of a handler that may *)
(* have been called elsewhere than in the tests.                           *)
(***************************************************************************)
Held  == [p \in {"net", "disk"} |-> IF p = "net" THEN net ELSE disk]
Needs == IF old THEN {"net"} ELSE {"net", "disk"}
Phase == CASE pc = "off"        -> "out"
           [] pc \in SetupPcs   -> "setup"
           [] pc = "testing"    -> "testing"
           [] OTHER             -> "leaving"

Place == <<pc, left, handler>>

(* A step of the run moves one pool at most: a free one becomes its own    *)
(* while it sets up, or its own becomes free; in the tests only the disk   *)
(* pool, which a test has destroyed.                                       *)
Taken(pool)    == pc \in SetupPcs /\ pool = Nobody /\ pool' = run
GivenBack(pool) ==
    pc \notin {"off", "testing"} /\ pool = run /\ pool' = Nobody
Destroyed ==
    /\ pc = "testing" /\ "pool-test" \in Faults
    /\ disk = run /\ disk' = Nobody
PoolsMove ==
    \/ UNCHANGED <<net, disk>>
    \/ (Taken(net) \/ GivenBack(net)) /\ UNCHANGED disk
    \/ (Taken(disk) \/ GivenBack(disk) \/ Destroyed) /\ UNCHANGED net

LEMMA PoolsMoveStep ==
  ASSUME RunInv, CleanupOwns, Answers, ~NameLost, pc # "off",
         Step \/ Interrupt \/ Kill
  PROVE  PoolsMove
  <1> USE DEF RunInv, TypeOK, Branches, DiskPcs, ConfPcs, NetHeld, Spoiling,
              CleanupOwns, Answers,
              PoolsMove, Taken, GivenBack, Destroyed, NameLost, SetupPcs,
              Goto, host
  <1>1. CASE Setup
    BY <1>1 DEF Setup, Refused, Accepted, NetExists, NetFree, BridgeExits,
                NetCreated, NetFails, VersionUnknown, DiskExists, DiskFree,
                DiskCreated,
                DiskFails, DropBackup, MoveConf, WriteConf, UndoNet
  <1>2. CASE RunTest \/ TestsDone \/ Teardown
    BY <1>2 DEF RunTest, TestsDone, Teardown, CleanNet, CleanDisk,
                RemoveConf, RestoreConf, Report
  <1>3. CASE Interrupt \/ Kill BY <1>3 DEF Interrupt, Kill
  <1> QED BY <1>1, <1>2, <1>3 DEF Step

(* And it goes the way of the phases. *)
LEMMA PhaseMoves ==
  ASSUME RunInv, pc # "off", Step \/ Interrupt \/ Kill
  PROVE  /\ Phase' \in CASE Phase = "setup" -> {"setup", "testing", "leaving",
                                                "out"}
                         [] Phase = "testing" -> {"testing", "leaving", "out"}
                         [] Phase = "leaving" -> {"leaving", "out"}
                         [] OTHER -> {}
         /\ UNCHANGED <<old, run>>
  <1> USE DEF RunInv, TypeOK, Pcs, SetupPcs, CleanupPcs, Phase, Goto, Exit,
              Onward, CleanupReturns
  <1>1. CASE Setup
    BY <1>1 DEF Setup, Refused, Accepted, NetExists, NetFree, BridgeExits,
                NetCreated, NetFails, VersionUnknown, DiskExists, DiskFree,
                DiskCreated,
                DiskFails, DropBackup, MoveConf, WriteConf, UndoNet
  <1>2. CASE RunTest \/ TestsDone
    BY <1>2 DEF RunTest, TestsDone
  <1>3. CASE Teardown
    BY <1>3 DEF Teardown, CleanNet, CleanDisk, RemoveConf, RestoreConf, Report
  <1>4. CASE Interrupt \/ Kill BY <1>4 DEF Interrupt, Kill
  <1> QED BY <1>1, <1>2, <1>3, <1>4 DEF Step

(* Each such step moves the run on. *)
LEMMA PlaceMoves ==
  ASSUME RunInv, Step \/ Interrupt \/ Kill PROVE Place' # Place /\ pc # "off"
  <1> USE RunAssumption DEF RunInv, TypeOK, Place, Goto, Exit, CleanupReturns
  <1>1. CASE Setup
    BY <1>1 DEF Setup, Refused, Accepted, NetExists, NetFree, BridgeExits,
                NetCreated, NetFails, VersionUnknown, DiskExists, DiskFree,
                DiskCreated, DiskFails, DropBackup, MoveConf, WriteConf,
                UndoNet
  <1>2. CASE RunTest
    <2>1. left' = left - 1 /\ left \in Nat BY <1>2 DEF RunTest
    <2>2. left' # left BY <2>1
    <2> QED BY <1>2, <2>2 DEF RunTest
  <1>3. CASE TestsDone \/ Teardown
    BY <1>3 DEF TestsDone, Teardown, CleanNet, CleanDisk,
                RemoveConf, RestoreConf, Report
  <1>4. CASE Interrupt \/ Kill BY <1>4 DEF Interrupt, Kill
  <1> QED BY <1>1, <1>2, <1>3, <1>4 DEF Step

(* What a change of one pool is for the host's pools together. *)
LEMMA HeldMoves ==
  /\ UNCHANGED <<net, disk>> => UNCHANGED Held
  /\ UNCHANGED disk => Held' = [Held EXCEPT !["net"] = net']
  /\ UNCHANGED net => Held' = [Held EXCEPT !["disk"] = disk']
  /\ Held["net"] = net /\ Held["disk"] = disk
  BY DEF Held

LEMMA LeaseStep ==
  ASSUME RunInv, RunInv', CleanupOwns, Answers, ~NameLost, [Next]_vars
  PROVE  Lease!Next \/ UNCHANGED <<Held, Needs, run, Phase, Place>>
  <1> USE DEF Held, Needs, Phase, Place
  <1>1. CASE Step \/ Interrupt \/ Kill
    <2>1. pc # "off" /\ Place' # Place BY <1>1, PlaceMoves
    <2>2. Phase' \in Lease!Onwards /\ UNCHANGED <<Needs, run>>
      BY <1>1, <2>1, PhaseMoves DEF Lease!Onwards
    <2>3. Phase = "setup" /\ Phase' = "testing" => Lease!Equipped'
      <3>1. Phase' = "testing" => pc' = "testing" BY DEF SetupPcs
      <3>2. Phase = "setup" => pc \in SetupPcs OBVIOUS
      <3>3. pc \in SetupPcs /\ pc' = "testing" => ~spoilt'
        BY <1>1 DEF RunInv, Spoiling, Step, Setup, Refused, Accepted,
                    NetExists,
             NetFree, BridgeExits, NetCreated, NetFails, VersionUnknown,
             DiskExists, DiskFree, DiskCreated, DiskFails, DropBackup,
             MoveConf,
             WriteConf, UndoNet, RunTest, TestsDone, Teardown, CleanNet,
             CleanDisk, RemoveConf, RestoreConf, Report, Interrupt, Kill, Goto,
             SetupPcs, Onward, Exit
      <3>4. TestsHavePools' /\ old' \in BOOLEAN BY DEF RunInv, TypeOK
      <3> QED BY <3>1, <3>2, <3>3, <3>4 DEF TestsHavePools, Lease!Equipped
    <2>4. \/ UNCHANGED Held
          \/ \E p \in {"net", "disk"} : Lease!Take(p) \/ Lease!GiveBack(p)
                                      \/ Lease!Destroy(p)
      <3>1. PoolsMove BY <1>1, <2>1, PoolsMoveStep
      <3>2. pc \in SetupPcs => Phase = "setup" BY DEF SetupPcs
      <3>3. pc \notin {"off", "testing"} => Phase \in {"setup", "leaving"}
        OBVIOUS
      <3>4. CASE UNCHANGED <<net, disk>> BY <3>4, HeldMoves
      <3>5. CASE (Taken(net) \/ GivenBack(net)) /\ UNCHANGED disk
        <4>1. CASE Taken(net)
          <5>1. Lease!Take("net")
            BY <3>2, <3>5, <4>1, HeldMoves DEF Lease!Take, Taken
          <5> QED BY <5>1
        <4>2. CASE GivenBack(net)
          <5>1. Lease!GiveBack("net")
            BY <3>3, <3>5, <4>2, HeldMoves DEF Lease!GiveBack, GivenBack
          <5> QED BY <5>1
        <4> QED BY <3>5, <4>1, <4>2
      <3>6. CASE (Taken(disk) \/ GivenBack(disk) \/ Destroyed) /\ UNCHANGED net
        <4>1. CASE Taken(disk)
          <5>1. Lease!Take("disk")
            BY <3>2, <3>6, <4>1, HeldMoves DEF Lease!Take, Taken
          <5> QED BY <5>1
        <4>2. CASE GivenBack(disk)
          <5>1. Lease!GiveBack("disk")
            BY <3>3, <3>6, <4>2, HeldMoves DEF Lease!GiveBack, GivenBack
          <5> QED BY <5>1
        <4>3. CASE Destroyed
          <5>1. Phase = "testing" BY <4>3 DEF Destroyed, SetupPcs
          <5>2. Lease!Destroy("disk")
            BY <5>1, <3>6, <4>3, HeldMoves DEF Lease!Destroy, Destroyed
          <5> QED BY <5>2
        <4> QED BY <3>6, <4>1, <4>2, <4>3
      <3> QED BY <3>1, <3>4, <3>5, <3>6 DEF PoolsMove
    <2> QED BY <2>1, <2>2, <2>3, <2>4 DEF Lease!Next, Lease!Step
  <1>2. CASE Launch
    <2>1. Phase = "out" /\ Phase' = "setup"
      BY <1>2 DEF Launch, Goto, SetupPcs
    <2>2. run' = run + 1 /\ Place' # Place /\ UNCHANGED <<Held, Needs>>
      BY <1>2 DEF Launch, Goto, host
    <2> QED BY <2>1, <2>2 DEF Lease!Next, Lease!Launch
  <1>3. CASE Other
    <2>1. UNCHANGED <<Needs, run, Phase, Place>> BY <1>3 DEF Other
    <2>2. CASE /\ net \in {Nobody, Stranger} /\ net' \in {Nobody, Stranger}
               /\ UNCHANGED disk
      <3>1. Lease!Other("net") BY <2>1, <2>2, HeldMoves DEF Lease!Other
      <3> QED BY <3>1 DEF Lease!Next
    <2>3. CASE /\ disk \in {Nobody, Stranger} /\ disk' \in {Nobody, Stranger}
               /\ UNCHANGED net
      <3>1. Lease!Other("disk") BY <2>1, <2>3, HeldMoves DEF Lease!Other
      <3> QED BY <3>1 DEF Lease!Next
    <2> QED BY <1>3, <2>2, <2>3 DEF Other
  <1>4. CASE Reboot
    <2>1. Phase = "out" /\ UNCHANGED <<Needs, run, Phase, Place>>
      BY <1>4 DEF Reboot, SetupPcs
    <2>2. Held' = [p \in {"net", "disk"} |-> Nobody] BY <1>4 DEF Reboot
    <2> QED BY <2>1, <2>2 DEF Lease!Next, Lease!Reboot
  <1>5. CASE UNCHANGED vars BY <1>5 DEF vars
  <1> QED BY <1>1, <1>2, <1>3, <1>4, <1>5 DEF Next

(* main.py keeps to the lease of the host's pools, in every launch and     *)
(* whatever fails or is killed, while others make and remove pools of the  *)
(* same names and the host is rebooted; the handler does so too unless it  *)
(* may be called elsewhere than in the tests (main.py 123-155, 322-333).   *)
THEOREM LeaseKept == Spec => KeepsLease
  <1>1. Init => Lease!Init
    <2> SUFFICES ASSUME Init PROVE Lease!Init OBVIOUS
    <2>1. Held \in [{"net", "disk"} -> {Nobody, Stranger}] BY DEF Init, Held
    <2>2. Needs \subseteq {"net", "disk"} BY DEF Needs
    <2>3. run = 0 /\ Phase = "out" BY DEF Init, Phase, SetupPcs
    <2> QED BY <2>1, <2>2, <2>3 DEF Lease!Init, Held, Needs, Phase
  <1>2. Init => CleanupOwns BY DEF Init, CleanupOwns
  <1>3. RunInv /\ CleanupOwns /\ [Next]_vars => CleanupOwns'
    BY CleanupOwnsStep
  <1>4. RunInv /\ RunInv' /\ CleanupOwns /\ [Next]_vars
        => [(~handler \/ OnlyInTests) /\ ~NameLost => Lease!Next]_Lease!vars
    BY LeaseStep DEF Lease!vars, Held, Needs, Phase, Place, Answers
  <1> QED BY <1>1, <1>2, <1>3, <1>4, RunInvariant, PTL DEF Spec, KeepsLease

(* So where it is called in the tests only, and no test destroys the disk  *)
(* pool, all of main.py implements it.                                     *)
THEOREM LeaseImplemented ==
  ASSUME OnlyInTests, "pool-test" \notin Faults PROVE Spec => Lease!Spec
  <1>1. [](~NameLost) /\ KeepsLease => Lease!Spec
    <2>1. ASSUME ~NameLost, [(~handler \/ OnlyInTests) /\ ~NameLost
                               => Lease!Next]_Lease!vars
          PROVE  [Lease!Next]_Lease!vars
      BY <2>1
    <2> QED BY <2>1, PTL DEF KeepsLease, Lease!Spec
  <1>2. RunInv => ~NameLost BY DEF RunInv, Spoiling, NameLost
  <1> QED BY <1>1, <1>2, LeaseKept, RunInvariant, PTL

-----------------------------------------------------------------------------
(***************************************************************************)
(* The host's diskpool.conf comes back if none of the calls fails that     *)
(* write the suite's own, destroy the network pool, ask for the version or *)
(* put the backup back, if no answer of virsh is lost, and if the run is   *)
(* disturbed nowhere between the move to the backup and the move back, but *)
(* by a Ctrl-C in the tests.  TLC loses the file as soon as any one of     *)
(* these faults, interrupts or kills is allowed.                           *)
(***************************************************************************)
AsidePcs == {"write-conf", "testing", "clean-net", "remove-conf",
             "restore-conf"}
Undisturbed ==
    /\ Faults \cap {"conf-write", "net-destroy", "lost", "version",
                    "conf-remove", "conf-restore"} = {}
    /\ InterruptAt \cap AsidePcs \subseteq {"testing"}
    /\ KillAt \cap AsidePcs = {}

(* The tests are not run by the handler, so a Ctrl-C in them is cleaned up *)
(* after.                                                                  *)
HandlerCleans == handler => pc \in CleanupPcs

(* Where the host's diskpool.conf is. *)
AtHome == conf = "original" /\ backup = "absent"
Aside  == conf = "cimtest"  /\ backup = "original"
ConfPlaces ==
    HadConf =>
        /\ pc \in {"write-conf", "restore-conf"} =>
              conf = "absent" /\ backup = "original"
        /\ pc \in {"testing", "clean-net", "remove-conf"} => AtHome \/ Aside
        /\ pc = "clean-net" /\ Aside => net = run
        /\ pc \in {"testing", "clean-net"} /\ ~old => AtHome
        /\ pc \notin AsidePcs => AtHome

LEMMA HandlerCleansStep ==
  ASSUME RunInv, HandlerCleans, [Next]_vars
  PROVE  HandlerCleans'
  <1> USE DEF HandlerCleans, CleanupPcs, Goto, Exit, Onward, CleanupReturns
  <1>1. CASE Setup
    BY <1>1 DEF Setup, Refused, Accepted, NetExists, NetFree, BridgeExits,
                NetCreated, NetFails, VersionUnknown, DiskExists, DiskFree,
                DiskCreated,
                DiskFails, DropBackup, MoveConf, WriteConf, UndoNet
  <1>2. CASE RunTest \/ TestsDone \/ Teardown
    BY <1>2 DEF RunTest, TestsDone, Teardown, CleanNet, CleanDisk,
                RemoveConf, RestoreConf, Report
  <1>3. CASE Launch \/ Interrupt \/ Kill \/ Other \/ Reboot
    BY <1>3 DEF Launch, Interrupt, Kill, Other, Reboot
  <1>4. CASE UNCHANGED vars BY <1>4 DEF vars
  <1> QED BY <1>1, <1>2, <1>3, <1>4 DEF Next, Step

LEMMA ConfPlacesStep ==
  ASSUME Undisturbed, RunInv, HandlerCleans, ConfPlaces, [Next]_vars
  PROVE  ConfPlaces'
  <1> USE RunAssumption
      DEF Undisturbed, AsidePcs, RunInv, TypeOK, Branches, DiskPcs, ConfPcs,
          NetHeld, Spoiling, TestsHavePools,
          ConfPlaces, AtHome, Aside, Contents, Goto, Exit, Onward, host,
          CleanupReturns
  <1>1. CASE Setup
    BY <1>1 DEF Setup, Refused, Accepted, NetExists, NetFree, BridgeExits,
                NetCreated, NetFails, VersionUnknown, DiskExists, DiskFree,
                DiskCreated,
                DiskFails, DropBackup, MoveConf, WriteConf, UndoNet
  <1>2. CASE RunTest \/ TestsDone \/ Teardown
    <2>1. CASE RunTest \/ TestsDone \/ CleanDisk \/ Report
      BY <2>1 DEF RunTest, TestsDone, CleanDisk, Report
    <2>2. CASE CleanNet BY <2>2 DEF CleanNet, Nobody
    <2>3. CASE RemoveConf BY <2>3 DEF RemoveConf
    <2>4. CASE RestoreConf BY <2>4 DEF RestoreConf
    <2> QED BY <1>2, <2>1, <2>2, <2>3, <2>4 DEF Teardown
  <1>3. CASE Launch \/ Kill \/ Reboot BY <1>3 DEF Launch, Kill, Reboot
  <1>4. CASE Other
    <2>1. pc # "off" /\ net = run => net' = net
      BY <1>4, MakersApart DEF Other
    <2> QED BY <1>4, <2>1 DEF Other
  <1>5. CASE Interrupt
    BY <1>5 DEF Interrupt, HandlerCleans, CleanupPcs
  <1>6. CASE UNCHANGED vars BY <1>6 DEF vars
  <1> QED BY <1>1, <1>2, <1>3, <1>4, <1>5, <1>6 DEF Next, Step

(* The host never loses its diskpool.conf (create_diskpool_file and         *)
(* cleanup_restore, common_util.py 301-335).                               *)
THEOREM OriginalSafe == ASSUME Undisturbed PROVE Spec => []OriginalKept
  <1>1. Init => HandlerCleans /\ ConfPlaces
    BY DEF Init, HandlerCleans, ConfPlaces, AtHome, AsidePcs
  <1>2. RunInv /\ HandlerCleans /\ [Next]_vars => HandlerCleans'
    BY HandlerCleansStep
  <1>3. RunInv /\ HandlerCleans /\ ConfPlaces /\ [Next]_vars => ConfPlaces'
    BY ConfPlacesStep
  <1>4. ConfPlaces => OriginalKept
    BY DEF ConfPlaces, AtHome, Aside, AsidePcs, OriginalKept
  <1> QED BY <1>1, <1>2, <1>3, <1>4, RunInvariant, PTL DEF Spec

(* Where the host had no such file, there is none of it anywhere. *)
NoneThere == ~HadConf => "original" \notin {conf, backup}

LEMMA NoneThereStep == ASSUME NoneThere, [Next]_vars PROVE NoneThere'
  <1> USE DEF NoneThere, host
  <1>1. CASE Setup
    BY <1>1 DEF Setup, Refused, Accepted, NetExists, NetFree, BridgeExits,
                NetCreated, NetFails, VersionUnknown, DiskExists, DiskFree,
                DiskCreated,
                DiskFails, DropBackup, MoveConf, WriteConf, UndoNet
  <1>2. CASE RunTest \/ TestsDone \/ Teardown
    BY <1>2 DEF RunTest, TestsDone, Teardown, CleanNet, CleanDisk,
                RemoveConf, RestoreConf, Report
  <1>3. CASE Launch \/ Interrupt \/ Kill \/ Other \/ Reboot
    BY <1>3 DEF Launch, Interrupt, Kill, Other, Reboot
  <1>4. CASE UNCHANGED vars BY <1>4 DEF vars
  <1> QED BY <1>1, <1>2, <1>3, <1>4 DEF Next, Step

(* Four steps change the two files; the others leave them alone. *)
LEMMA ConfMoves ==
  ASSUME RunInv, ConfPlaces, NoneThere, [Next]_vars
  PROVE  ConfFile!Away \/ ConfFile!Back \/ ConfFile!Use
  <1> USE DEF RunInv, TypeOK, Contents, NoneThere, ConfPlaces, AtHome, Aside,
              AsidePcs, Goto, host, ConfFile!Away, ConfFile!Back, ConfFile!Use
  <1>1. CASE UNCHANGED <<conf, backup>> BY <1>1
  <1>2. CASE DropBackup BY <1>2 DEF DropBackup
  <1>3. CASE MoveConf BY <1>3 DEF MoveConf
  <1>4. CASE WriteConf BY <1>4 DEF WriteConf
  <1>5. CASE RemoveConf BY <1>5 DEF RemoveConf
  <1>6. CASE RestoreConf BY <1>6 DEF RestoreConf
  <1>7. CASE ~UNCHANGED <<conf, backup>>
    <2>1. DropBackup \/ MoveConf \/ WriteConf \/ RemoveConf \/ RestoreConf
      BY <1>7 DEF Next, Step, Setup, Refused, Accepted, NetExists, NetFree,
                  BridgeExits, NetCreated, NetFails, VersionUnknown,
                  DiskExists, DiskFree,
                  DiskCreated, DiskFails, UndoNet, RunTest, TestsDone,
                  Teardown, CleanNet, CleanDisk, Report, Launch, Interrupt,
                  Kill, Other, Reboot, host, vars
    <2> QED BY <2>1, <1>2, <1>3, <1>4, <1>5, <1>6
  <1> QED BY <1>1, <1>7

LEMMA ConfStep ==
  ASSUME RunInv, RunInv', ConfPlaces, ConfPlaces', NoneThere, NoneThere',
         [Next]_vars
  PROVE  ConfFile!Next \/ UNCHANGED <<HadConf, conf, backup, pc # "off">>
  <1>1. conf' \in Contents /\ backup' \in Contents BY DEF RunInv, TypeOK
  <1>2. pc' = "off" => ConfFile!Home'
    BY DEF ConfPlaces, AtHome, AsidePcs, NoneThere, ConfFile!Home
  <1>3. CASE pc # "off" \/ pc' # "off"
    BY <1>1, <1>2, <1>3, ConfMoves DEF ConfFile!Next
  <1>4. CASE pc = "off" /\ pc' = "off"
    BY <1>4 DEF Next, Step, Setup, Refused, Accepted, NetExists, NetFree,
                BridgeExits, NetCreated, NetFails, VersionUnknown, DiskExists,
                DiskFree,
                DiskCreated, DiskFails, DropBackup, MoveConf, WriteConf,
                UndoNet, RunTest, TestsDone, Teardown, CleanNet, CleanDisk,
                RemoveConf, RestoreConf, Report, Launch, Interrupt, Kill,
                Other, Reboot, host, vars, Goto
  <1> QED BY <1>3, <1>4

(* Nothing the suite does to diskpool.conf hits the host's own content,    *)
(* and after each run it is in its place (create_diskpool_file and         *)
(* cleanup_restore, common_util.py 301-335).                               *)
THEOREM ConfKept == ASSUME Undisturbed PROVE Spec => KeepsConf
  <1>1. Init => /\ HandlerCleans /\ ConfPlaces /\ NoneThere
                /\ ConfFile!Init
    BY RunAssumption
       DEF Init, HandlerCleans, ConfPlaces, AtHome, AsidePcs, NoneThere,
           ConfFile!Init
  <1>2. RunInv /\ HandlerCleans /\ [Next]_vars => HandlerCleans'
    BY HandlerCleansStep
  <1>3. RunInv /\ HandlerCleans /\ ConfPlaces /\ [Next]_vars => ConfPlaces'
    BY ConfPlacesStep
  <1>4. NoneThere /\ [Next]_vars => NoneThere' BY NoneThereStep
  <1>5. /\ RunInv /\ RunInv' /\ ConfPlaces /\ ConfPlaces'
        /\ NoneThere /\ NoneThere' /\ [Next]_vars
        => [ConfFile!Next]_(ConfFile!vars)
    BY ConfStep DEF ConfFile!vars
  <1> QED BY <1>1, <1>2, <1>3, <1>4, <1>5, RunInvariant, PTL
          DEF Spec, KeepsConf, ConfFile!Spec

-----------------------------------------------------------------------------
(***************************************************************************)
(* A run takes down all it made, if it can destroy its pools, learn the    *)
(* version and replace and restore diskpool.conf, gets the answers virsh   *)
(* gives, is not interrupted in cleanup_env or while that file is written, *)
(* and is not killed once it has made a pool.  TLC finds something left as *)
(* soon as one of these faults, interrupts or kills is allowed.            *)
(***************************************************************************)
Runs  == 1..MaxRuns
Whole ==
    /\ Faults \cap {"net-destroy", "disk-destroy", "lost", "version",
                    "conf-move", "conf-write", "conf-remove",
                    "conf-restore"} = {}
    /\ InterruptAt \cap (CleanupPcs \cup {"write-conf"}) = {}
    /\ KillAt \subseteq {"off", "check", "net-check", "net-create", "report"}

(* A backup is there only while the suite's own diskpool.conf is, so the   *)
(* next run has none to unlink.                                            *)
BackupPlaces ==
    backup # "absent" =>
        /\ pc \in AsidePcs
        /\ pc = "clean-net" => net = run
        /\ pc \in {"testing", "clean-net", "remove-conf"} => conf # "absent"

LEMMA BackupPlacesStep ==
  ASSUME Whole, RunInv, HandlerCleans, BackupPlaces, [Next]_vars
  PROVE  BackupPlaces'
  <1> USE RunAssumption, MakersApart
      DEF Whole, AsidePcs, RunInv, TypeOK, Branches, DiskPcs, ConfPcs, NetHeld,
          TestsHavePools, BackupPlaces, Pcs, CleanupPcs, Goto, Exit, Onward,
          host, CleanupReturns
  <1>1. CASE Setup
    BY <1>1 DEF Setup, Refused, Accepted, NetExists, NetFree, BridgeExits,
                NetCreated, NetFails, VersionUnknown, DiskExists, DiskFree,
                DiskCreated, DiskFails, DropBackup, MoveConf, WriteConf,
                UndoNet
  <1>2. CASE RunTest \/ TestsDone \/ Teardown
    BY <1>2 DEF RunTest, TestsDone, Teardown, CleanNet, CleanDisk,
                RemoveConf, RestoreConf, Report
  <1>3. CASE Launch \/ Kill \/ Other \/ Reboot
    BY <1>3 DEF Launch, Kill, Other, Reboot
  <1>4. CASE Interrupt BY <1>4 DEF Interrupt, HandlerCleans
  <1>5. CASE UNCHANGED vars BY <1>5 DEF vars
  <1> QED BY <1>1, <1>2, <1>3, <1>4, <1>5 DEF Next, Step

(* Where a pool of a run may be: at the way out it holds both or neither,  *)
(* or cleanup_env would stop at the network pool and leave the disk pool.  *)
PoolPlaces ==
    /\ HandlerCleans
    /\ net \in Runs => net = run /\ pc \in {"disk-check", "disk-create",
          "drop-backup", "move-conf", "write-conf", "undo-net", "testing",
          "clean-net"}
    /\ disk \in Runs => disk = run /\ pc \in {"testing", "clean-net",
                                               "clean-disk"}
    /\ pc = "clean-net" /\ disk \in Runs => net = run

LEMMA PoolPlacesStep ==
  ASSUME Whole, RunInv, PoolPlaces, BackupPlaces, [Next]_vars
  PROVE  PoolPlaces'
  <1> USE RunAssumption, MakersApart
      DEF Whole, RunInv, TypeOK, Branches, DiskPcs, ConfPcs, NetHeld,
          Spoiling, TestsHavePools, Runs,
          PoolPlaces, HandlerCleans, Pcs, CleanupPcs, Makers, Nobody,
          Stranger, Goto, Exit,
          Onward, host, CleanupReturns
  <1>1. CASE Setup
    <2>1. CASE Refused \/ Accepted \/ NetExists \/ NetFree \/ BridgeExits
      BY <2>1 DEF Refused, Accepted, NetExists, NetFree, BridgeExits
    <2>2. CASE NetCreated \/ NetFails \/ VersionUnknown
      BY <2>2 DEF NetCreated, NetFails, VersionUnknown
    <2>3. CASE DiskExists \/ DiskFree \/ DiskCreated \/ DiskFails
      BY <2>3 DEF DiskExists, DiskFree, DiskCreated, DiskFails
    <2>4. CASE DropBackup \/ MoveConf
      BY <2>4 DEF DropBackup, MoveConf, BackupPlaces, AsidePcs
    <2>5. CASE WriteConf BY <2>5 DEF WriteConf
    <2>6. CASE UndoNet BY <2>6 DEF UndoNet
    <2> QED BY <1>1, <2>1, <2>2, <2>3, <2>4, <2>5, <2>6 DEF Setup
  <1>2. CASE RunTest \/ TestsDone \/ Teardown
    BY <1>2 DEF RunTest, TestsDone, Teardown, CleanNet, CleanDisk,
                RemoveConf, RestoreConf, Report
  <1>3. CASE Launch \/ Kill \/ Other \/ Reboot
    BY <1>3 DEF Launch, Kill, Other, Reboot
  <1>4. CASE Interrupt BY <1>4 DEF Interrupt
  <1>5. CASE UNCHANGED vars BY <1>5 DEF vars
  <1> QED BY <1>1, <1>2, <1>3, <1>4, <1>5 DEF Next, Step

(* When a run is over no pool of any run is left, and the diskpool.conf of *)
(* the host is where it was (setup_env, cleanup_env and the handler,       *)
(* main.py 123-155, 322-333), over any number of launches and reboots and  *)
(* whatever pools of these names others make.                              *)
THEOREM AllTakenDown == ASSUME Whole PROVE Spec => []NothingLeft
  <1>0. Undisturbed BY DEF Whole, Undisturbed, AsidePcs, CleanupPcs
  <1>1. Init => PoolPlaces /\ BackupPlaces /\ ConfPlaces
    BY RunAssumption, MakersApart
       DEF Init, PoolPlaces, BackupPlaces, HandlerCleans, ConfPlaces, AtHome,
           AsidePcs, Runs, Nobody, Stranger
  <1>2. RunInv /\ PoolPlaces /\ BackupPlaces /\ [Next]_vars
        => PoolPlaces' /\ BackupPlaces'
    BY PoolPlacesStep, BackupPlacesStep DEF PoolPlaces
  <1>3. RunInv /\ PoolPlaces /\ ConfPlaces /\ [Next]_vars => ConfPlaces'
    BY <1>0, ConfPlacesStep DEF PoolPlaces
  <1>4. PoolPlaces /\ ConfPlaces => NothingLeft
    BY DEF PoolPlaces, ConfPlaces, AtHome, AsidePcs, Runs, NothingLeft
  <1> QED BY <1>1, <1>2, <1>3, <1>4, RunInvariant, PTL DEF Spec

-----------------------------------------------------------------------------
(***************************************************************************)
(* A run cannot go on for ever: every step it takes, and every Ctrl-C and  *)
(* kill, brings it nearer to its end, and nobody else's step takes it back.*)
(* That it takes these steps is the fairness of FairSpec, which TLC uses   *)
(* for RunEnds.                                                            *)
(***************************************************************************)
Rank ==
    CASE pc = "off"          -> 0  [] pc = "report"      -> 1
      [] pc = "restore-conf" -> 2  [] pc \in {"remove-conf", "clean-disk"} -> 3
      [] pc = "clean-net"    -> 4  [] pc = "testing"     -> 5
      [] pc = "undo-net"     -> 6  [] pc \in {"disk-create", "write-conf"} -> 7
      [] pc \in {"disk-check", "move-conf"} -> 8
      [] pc = "drop-backup"  -> 9  [] pc = "net-create"  -> 10
      [] pc = "net-check"    -> 11 [] pc = "check"       -> 12

(* The tests still to run count one each, and the handler, which is entered *)
(* once and then does at most what main would do from clean-net on, five.  *)
ToGo == IF pc = "off" THEN 0
        ELSE Rank + left + (IF handler THEN 0 ELSE 5)

LEMMA ToGoBounded ==
  ASSUME TypeOK PROVE ToGo \in 0..(NTests + 17) /\ (ToGo = 0 <=> pc = "off")
  <1>1. CASE pc \in SetupPcs
    <2>1. Rank \in 6..12 BY <1>1 DEF SetupPcs, Rank
    <2> QED BY <1>1, <2>1, RunAssumption DEF TypeOK, ToGo, SetupPcs
  <1>2. CASE pc \in CleanupPcs
    <2>1. Rank \in 2..4 BY <1>2 DEF CleanupPcs, Rank
    <2> QED BY <1>2, <2>1, RunAssumption DEF TypeOK, ToGo, CleanupPcs
  <1>3. CASE pc \in {"off", "testing", "report"}
    BY <1>3, RunAssumption DEF TypeOK, ToGo, Rank
  <1> QED BY <1>1, <1>2, <1>3 DEF TypeOK, Pcs

LEMMA NearerStep ==
  ASSUME RunInv, HandlerCleans, pc # "off", Step \/ Interrupt \/ Kill
  PROVE  ToGo' < ToGo
  <1> USE RunAssumption DEF RunInv, TypeOK, ToGo, Rank, Goto, Exit, Onward,
                            CleanupReturns
  <1>1. CASE Refused \/ Accepted \/ NetExists \/ NetFree
    BY <1>1 DEF Refused, Accepted, NetExists, NetFree
  <1>2. CASE BridgeExits \/ NetCreated \/ NetFails
    BY <1>2 DEF BridgeExits, NetCreated, NetFails
  <1>3. CASE DiskExists \/ DiskFree \/ DiskCreated \/ DiskFails
    BY <1>3 DEF DiskExists, DiskFree, DiskCreated, DiskFails
  <1>4. CASE VersionUnknown \/ DropBackup \/ MoveConf \/ WriteConf \/ UndoNet
    BY <1>4 DEF VersionUnknown, DropBackup, MoveConf, WriteConf, UndoNet
  <1>5. CASE RunTest \/ TestsDone BY <1>5 DEF RunTest, TestsDone
  <1>6. CASE CleanNet BY <1>6 DEF CleanNet
  <1>7. CASE CleanDisk BY <1>7 DEF CleanDisk
  <1>8. CASE RemoveConf \/ RestoreConf \/ Report
    BY <1>8 DEF RemoveConf, RestoreConf, Report
  <1>9. CASE Interrupt
    BY <1>9 DEF Interrupt, Pcs, SetupPcs, CleanupPcs
  <1>10. CASE Kill BY <1>10 DEF Kill, Pcs, SetupPcs, CleanupPcs
  <1> QED BY <1>1, <1>2, <1>3, <1>4, <1>5, <1>6, <1>7, <1>8, <1>9, <1>10
          DEF Step, Setup, Teardown

(* A launch of main.py is over after NTests + 17 steps of its own at most, *)
(* however often it is interrupted: the cleanup that a Ctrl-C starts is    *)
(* not started again by another one (main.py 322-333).                     *)
THEOREM RunIsShort ==
  Spec => /\ [](ToGo \in 0..(NTests + 17) /\ (ToGo = 0 <=> pc = "off"))
          /\ [][pc # "off" => ToGo' < ToGo \/ (Other /\ UNCHANGED ToGo)]_vars
  <1>1. Init => HandlerCleans BY DEF Init, HandlerCleans
  <1>2. RunInv /\ HandlerCleans /\ [Next]_vars => HandlerCleans'
    BY HandlerCleansStep
  <1>3. RunInv => ToGo \in 0..(NTests + 17) /\ (ToGo = 0 <=> pc = "off")
    BY ToGoBounded DEF RunInv
  <1>4. RunInv /\ HandlerCleans /\ [Next]_vars =>
          [pc # "off" => ToGo' < ToGo \/ (Other /\ UNCHANGED ToGo)]_vars
    <2> SUFFICES ASSUME RunInv, HandlerCleans, Next, pc # "off"
                 PROVE  ToGo' < ToGo \/ (Other /\ UNCHANGED ToGo)
      OBVIOUS
    <2>1. CASE Step \/ Interrupt \/ Kill BY <2>1, NearerStep
    <2>2. CASE Launch \/ Reboot BY <2>2 DEF Launch, Reboot, Goto
    <2>3. CASE Other BY <2>3 DEF Other, ToGo, Rank
    <2> QED BY <2>1, <2>2, <2>3 DEF Next
  <1> QED BY <1>1, <1>2, <1>3, <1>4, RunInvariant, PTL DEF Spec
=============================================================================
