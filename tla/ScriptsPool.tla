---------------------------- MODULE ScriptsPool -----------------------------
(***************************************************************************)
(* The scripts about the pools of the host and what is allocated from      *)
(* them: ResourcePoolConfigurationService (RPCS) and its capabilities      *)
(* (RPCC), ResourcePool (RP), RASD, AllocationCapabilities (AC) and        *)
(* HostedResourcePool (HRP).                                               *)
(***************************************************************************)
EXTENDS ScriptLang

(* pool.create_pool: a pool that is defined and active; get_pool_rasds may *)
(* answer SKIP.                                                            *)
DiskPool == {"pool", "pooldef"}
NetPool == {"net", "netdef"}

RPCS_01 == Looking
RPCS_02 == Probing
RPCS_03 == Script("FAIL", <<Sets(Refused({}, {Out}))>>, <<>>)

(* For each mode of forwarding.  What cannot be destroyed stays defined.   *)
(* verify_pool makes a NetXML, which may end the program, and compares     *)
(* versions, which raises when virsh has told none.  Where an old provider *)
(* refuses to make the pool, as it should, a pool is looked for in vain,   *)
(* and one of that name removed.                                           *)
RPCS_04 == WithUndo2(WithUndo(Script("FAIL",
    <<OrGo("undo2")>>
    \o Twice(<<MakeNet(NetPool, {Out}), Check({Undo, Skipped, Out}),
               DropOr({"net"}, {Out}), Sets(DropOr({"netdef"}, {Out}))>>), <<>>),
    <<Drop({"net"}), Drop({"netdef"})>>),
    <<Refused({}, {Out}), Sets(Check({Undo, Skipped, Out}))>>)

RPCS_05 == Script("FAIL", <<Sets(Refused({}, {Out, Known}))>>, <<>>)
RPCS_06 == Script("FAIL", <<Sets(Refused({}, {Out}))>>, <<>>)

(* Old providers refuse.  With new ones status is that of verify_pool, and *)
(* stays so when the pool cannot be deleted.                               *)
RPCS_07 == WithUndo2(WithUndo(Script("FAIL",
    <<OrGo("undo2"), MakeNet(NetPool, {Out}), Sets(Check({Undo, Skipped, Out})),
      Check({Out}), Sets(DropOr(NetPool, {Leave}))>>, <<>>),
    <<Drop({"net"})>>), <<Sets(Refused({}, {Out}))>>)

(* destroy_diskpool in a handler: it answers, or raises when virsh has told *)
(* no version.  The script fails in either case.                           *)
DestroyPool(sec) == DropOr({"pool"}, {Failed, To("FAIL", sec)})

(* A directory pool, then a netfs pool, whose result is returned, whatever *)
(* became of the first.  create_pool may answer SKIP.                      *)
RPCS_08 == WithUndo2(WithUndo(WithMore(Script("FAIL",
    <<Gate({Skipped}), Make({"dir"}, {ToMore}),
      Make(DiskPool, {ToMore, To("SKIP", "more")}),
      Check({Undo, ToMore}), DropOr({"pool"}, {ToMore}),
      Sets(DropOr({"pooldef"}, {ToMore}))>>,
    <<DropOr({"exports"}, {Out})>>),
    <<DropOr({"dir"}, {Out}), Gate({Leave}), Begin({"exports"}, {Out}),
      Make(DiskPool, {ToTail, SkipTail}), Check({Undo2, ToTail}),
      DropOr({"pool"}, {ToTail}), Sets(DropOr({"pooldef"}, {ToTail}))>>),
    <<DestroyPool("more"), Drop({"pooldef"}), Jump("more")>>),
    <<DestroyPool("tail"), Drop({"pooldef"}), Jump("tail")>>)

(* The except clause removes the pool of that name, made or found; what it *)
(* raises no try holds.                                                    *)
RPCS_09 == WithUndo2(WithUndo(Script("FAIL",
    <<OrGo("undo2"), Make({"dir"}, {Undo}), Make(DiskPool, {Undo}),
      Check({Undo}), Sets(DropOr(DiskPool, {Undo}))>>,
    <<DropOr({"dir"}, {Out})>>),
    <<DestroyPool("return"), DropOr({"pooldef"}, {Failed, Out}),
      DropOr({"dir"}, {Out})>>),
    <<Sets(Refused({}, {Out}))>>)

(* For each format; the except clause goes on with the next one. *)
RPCS_10 == WithUndo(WithMore(Script("FAIL",
    <<Gate({Skipped}), Check({Undo}), Make({"vol"}, {Undo}),
      Check({Undo}), DropOr({"vol"}, {Out}), Check({Out})>>,
    <<Drop({"vol"})>>),
    <<Check({ToTail}), Make({"vol"}, {ToTail}), Check({ToTail}),
      DropOr({"vol"}, {Out}), Sets(Check({Out})), Return("PASS")>>),
    <<Drop({"vol"}), Jump("more")>>)

(* A volume that cannot be made the first time is taken for the duplicate  *)
(* that is to be refused.  No try cleans up.                               *)
RPCS_11 == Script("FAIL",
    <<Gate({Skipped}), Check({Out}), Make({"vol"}, {Go, Out}),
      Refused({}, {Out}), DropOr({"vol"}, {Out}),
      Check({Out}), Sets(Refused({"vol"}, {Out})), Drop({"vol"})>>, <<>>)

(* create_pool that fails returns without netfs_cleanup, one that raises   *)
(* does not.                                                               *)
RPCS_12 == WithUndo(Script("FAIL",
    <<Gate({Skipped}), Begin({"exports"}, {Out, Skipped}),
      Make(DiskPool, {Out, Skipped, Undo}), Sets(Refused({"vol"}, {ToTail}))>>,
    <<Drop({"vol"}), DropOr({"pool"}, {Undo}), DropOr({"pooldef"}, {Undo}),
      DropOr({"exports"}, {Out})>>),
    <<DropOr({"exports"}, {Out})>>)

RPCS_13 == WithUndo(Script("FAIL",
    <<Gate({Skipped}), Check({Undo}), Make({"vol"}, {Undo}), Check({Undo}),
      Sets(DropOr({"vol"}, {Undo, Out}))>>, <<>>), <<Drop({"vol"})>>)

(* cleanup_pool_vol takes its clean_vol for clean_pool: when a deletion    *)
(* was not refused as it should be, the disk pool of the suite goes.  That *)
(* the volume cannot be removed is only logged.                            *)
RPCS_14 == WithUndo(Script("FAIL",
    <<Gate({Skipped}), Check({ToTail}), Make({"vol"}, {ToTail}),
      Sets(Refused({}, {Undo}))>>,
    <<Drop({"vol"})>>), <<Drop({"vol"}), Drop({"suitepool"})>>)

RPCS_15 == WithUndo(Script("FAIL",
    <<Gate({Skipped}), Make({"dir"}, {ToTail}), Make(DiskPool, {ToTail}),
      Check({Undo}), DropOr({"pool"}, {ToTail}),
      Sets(DropOr({"pooldef"}, {ToTail}))>>, <<DropOr({"dir"}, {Out})>>),
    <<DestroyPool("tail"), Drop({"pooldef"}), Jump("tail")>>)

RPCC_01 == Looking
RPCC_02 == Script("FAIL", <<Sets(Refused({}, {Out}))>>, <<>>)

(* A network is made where none is active, and stays. *)
RP_01 == WithMore(Script("FAIL",
    <<OrGo("more"), MakeNet({"net"}, {})>>, <<>>), <<Sets(Check({Out}))>>)
RP_02 == Probing

RASD_01 == WithUndo(Script("FAIL",
    <<Define({Out}), Start({Undo, Out}), Sets(Check({ToTail}))>>,
    <<Destroy, Undefine>>), <<Undefine>>)

RASD_02 == Script("FAIL",
    <<Reclean, Define({Out}), Check({Out}), Sets(Check({ToTail, Out}))>>,
    <<Undefine>>)

RASD_03 == Script("FAIL",
    <<Define({Out}), Check({ToTail, Out}), Sets(Refused({}, {ToTail, Out}))>>,
    <<Undefine>>)

RASD_04 == Script("FAIL",
    <<Begin({"file"}, {Out}), Define({ToTail}), Sets(Check({ToTail}))>>,
    <<Drop({"file"}), Undefine>>)

RASD_05 == Script("FAIL",
    <<Gate({Skipped}), Define({Out}), Sets(Check({ToTail}))>>, <<Undefine>>)

RASD_06 == Script("FAIL", <<Check({Out, Skipped}), Sets(Check({Out}))>>, <<>>)
RASD_07 == Script("FAIL", <<Check({Out, Skipped}), Sets(Check({Out}))>>, <<>>)

AC_01 == Looking
AC_02 == Probing

HRP_01 == Looking

(* A pool with no host, or with two, is passed over. *)
HRP_02 == Script("PASS", <<Check({Out}), Check({Out, Go})>>, <<>>)

HRP_03 == Probing
HRP_04 == Script("PASS", <<Refused({}, {Failed, Knowing, Out})>>, <<>>)

PoolScripts ==
    [RPCS_01 |-> RPCS_01, RPCS_02 |-> RPCS_02, RPCS_03 |-> RPCS_03,
     RPCS_04 |-> RPCS_04, RPCS_05 |-> RPCS_05, RPCS_06 |-> RPCS_06,
     RPCS_07 |-> RPCS_07, RPCS_08 |-> RPCS_08, RPCS_09 |-> RPCS_09,
     RPCS_10 |-> RPCS_10, RPCS_11 |-> RPCS_11, RPCS_12 |-> RPCS_12,
     RPCS_13 |-> RPCS_13, RPCS_14 |-> RPCS_14, RPCS_15 |-> RPCS_15,
     RPCC_01 |-> RPCC_01, RPCC_02 |-> RPCC_02, RP_01 |-> RP_01,
     RP_02 |-> RP_02, RASD_01 |-> RASD_01, RASD_02 |-> RASD_02,
     RASD_03 |-> RASD_03, RASD_04 |-> RASD_04, RASD_05 |-> RASD_05,
     RASD_06 |-> RASD_06, RASD_07 |-> RASD_07, AC_01 |-> AC_01,
     AC_02 |-> AC_02, HRP_01 |-> HRP_01, HRP_02 |-> HRP_02, HRP_03 |-> HRP_03,
     HRP_04 |-> HRP_04]
=============================================================================
