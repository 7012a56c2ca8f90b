---------------------------- MODULE GuestLedger ----------------------------
(***************************************************************************)
(* How the suite keeps a host clean from one test script to the next.      *)
(*                                                                         *)
(* Every uuid given to a guest is appended to the file CIM_FUUID (the      *)
(* ledger: XenKvmLib/test_doms.py, set_uuid).  const.do_main wraps the     *)
(* main of every script: it first calls destroy_and_undefine_all, which    *)
(* lists the domains of the host, reads and unlinks the ledger, and then   *)
(* destroys and undefines each listed domain whose uuid was in it; only    *)
(* then does the script's own main (here the "body") run.                  *)
(*                                                                         *)
(* The test process is one sequential program of virsh commands and CIM    *)
(* calls, each a step here; beside it, guests may power off and the        *)
(* administrator of the host works on domains of their own.  The process   *)
(* may be killed (Ctrl-C reaches every process of the terminal) and each   *)
(* command may fail, in the ways Faults and CrashAt allow.                 *)
(***************************************************************************)
EXTENDS Libvirt

CONSTANTS SuiteNames,   \* names the test scripts give to their guests
          AdminNames,   \* names the administrator gives to domains
          SuiteUuids,   \* uuids made by uuid(), or by libvirt for a CIM guest
          OptVirt,      \* options.virt, the hypervisor under test
          Faults,       \* which commands may fail, a subset of AllFaults
          CrashAt,      \* the values of pc at which the process may be killed
          NoUuid,       \* no VirtXML object
          Blank,        \* an empty line: viruuid when virsh fails
          Zero          \* the 0 of viruuid when ssh fails

(* "ssh-list", "ssh-lookup": ssh itself fails, run_remote returns 255.     *)
(* "virsh-list", "virsh-lookup": virsh fails, and the sed it is piped into *)
(* does not, so the caller sees status 0 and no output.  "destroy": virsh  *)
(* cannot stop or remove a domain.  "cim": DefineSystem raises after it    *)
(* has made the guest.                                                     *)
AllFaults == {"ssh-list", "virsh-list", "ssh-lookup", "virsh-lookup",
              "destroy", "cim"}

(* Where the test process is: no process, the three calls that start       *)
(* destroy_and_undefine_all, its loop and the two halves of its virsh      *)
(* command, the body, and cim_define before it records the new guest.      *)
CleanupPcs == {"names", "ids", "read", "sweep", "destroy", "undefine"}
Pcs == {"off", "body", "defined"} \cup CleanupPcs

ASSUME SuiteAssumption ==
    /\ Names = SuiteNames \cup AdminNames
    /\ SuiteUuids \subseteq Uuids
    /\ NoUuid \notin Uuids
    /\ Blank \notin Uuids \cup Names
    /\ Zero \notin Uuids \cup {Blank}
    /\ Faults \subseteq AllFaults
    /\ CrashAt \subseteq Pcs

AdminUuids == Uuids \ SuiteUuids

VARIABLES doms,      \* the domains of the host
          ledger,    \* the lines of CIM_FUUID ({}: no file)
          pc,        \* where the test process is
          uri,       \* the virt type destroy_and_undefine_all was called with
          fresh,     \* the body has done nothing yet
          todo,      \* names and ids still to visit
          uuidList,  \* uuid_list of destroy_and_undefine_all
          cur,       \* the domain at hand (Blank: none)
          xml        \* the VirtXML objects of the body: their uuid, by name

sweep == <<todo, uuidList, cur>>
vars  == <<doms, ledger, pc, uri, fresh, todo, uuidList, cur, xml>>

(***************************************************************************)
(* Helpers                                                                 *)
(***************************************************************************)
(* virt2uri gives "Xen" and "XenFV" the same uri. *)
Uri(v) == IF v = "XenFV" THEN "Xen" ELSE v
Connects(v) == Uri(v) = Uri(OptVirt)

IsSuite(n)   == n \in Present(doms) /\ doms[n].uuid \in SuiteUuids
IsForeign(n) == n \in Present(doms) /\ doms[n].uuid \in AdminUuids
SuiteGuests  == {doms[n].uuid : n \in {m \in Names : IsSuite(m)}}

(* uuid() and libvirt give a uuid that is nowhere in use. *)
FreshUuids ==
    SuiteUuids \ (ledger \cup uuidList \cup UuidsOf(doms)
                         \cup {xml[n] : n \in SuiteNames})

(* viruuid(name, server, virt) returns res: the uuid of the domain; an     *)
(* empty string when virsh finds none or fails, for the status is sed's; 0 *)
(* when ssh fails.                                                         *)
LooksUp(r, v, res) ==
    \/ \E n \in Denoted(doms, r) : Connects(v) /\ res = doms[n].uuid
    \/ /\ Denoted(doms, r) = {} \/ ~Connects(v) \/ "virsh-lookup" \in Faults
       /\ res = Blank
    \/ "ssh-lookup" \in Faults /\ res = Zero

(* The process is gone: by its return, by sys.exit, or killed. *)
ProcessEnds ==
    /\ pc' = "off"
    /\ fresh' = FALSE
    /\ todo' = {} /\ uuidList' = {} /\ cur' = Blank
    /\ xml' = [n \in SuiteNames |-> NoUuid]
    /\ UNCHANGED <<doms, ledger, uri>>

TypeOK ==
    /\ doms \in HostMaps
    /\ ledger \subseteq SuiteUuids \cup {Blank}
    /\ pc \in Pcs
    /\ uri \in {"Xen", OptVirt}
    /\ fresh \in BOOLEAN
    /\ todo \subseteq Refs
    /\ uuidList \subseteq SuiteUuids \cup {Blank}
    /\ cur \in Refs \cup {Blank}
    /\ xml \in [SuiteNames -> SuiteUuids \cup {NoUuid}]

(* The suite is started on a host that carries the administrator's domains *)
(* only.                                                                   *)
Init ==
    /\ doms \in [Names -> [uuid : AdminUuids, active : BOOLEAN,
                           persistent : {TRUE}] \cup {NoDom}]
    /\ \A m, n \in Present(doms) : doms[m].uuid = doms[n].uuid => m = n
    /\ Present(doms) \subseteq AdminNames
    /\ ledger = {}
    /\ pc = "off" /\ uri = OptVirt /\ fresh = FALSE
    /\ todo = {} /\ uuidList = {} /\ cur = Blank
    /\ xml = [n \in SuiteNames |-> NoUuid]

-----------------------------------------------------------------------------
(***************************************************************************)
(* do_main and destroy_and_undefine_all                                    *)
(***************************************************************************)
(* A script starts: do_main calls destroy_and_undefine_all(options.ip,     *)
(* options.virt).                                                          *)
StartTest ==
    /\ pc = "off"
    /\ pc' = "names" /\ uri' = OptVirt
    /\ UNCHANGED <<doms, ledger, fresh, todo, uuidList, cur, xml>>

(* Some bodies begin with destroy_and_undefine_all(options.ip), whose virt *)
(* defaults to "Xen" whatever options.virt is.                             *)
Reclean ==
    /\ pc = "body" /\ fresh
    /\ pc' = "names" /\ uri' = "Xen"
    /\ UNCHANGED <<doms, ledger, fresh, todo, uuidList, cur, xml>>

(* A listing gives S when virsh answers, and nothing when virsh fails or   *)
(* has no such hypervisor: the status tested is that of sed.               *)
Lists(S, out) ==
    \/ Connects(uri) /\ out = S
    \/ (~Connects(uri) \/ "virsh-list" \in Faults) /\ out = {}

(* Mutant: "virsh list" without --all. *)
ListNamesActiveOnly ==
    /\ pc = "names"
    /\ Lists(Active(doms), todo')
    /\ pc' = "ids"
    /\ UNCHANGED <<doms, ledger, uri, fresh, uuidList, cur, xml>>

(* names = domain_list(server, virt) *)
ListNames ==
    /\ pc = "names"
    /\ Lists(Present(doms), todo')
    /\ pc' = "ids"
    /\ UNCHANGED <<doms, ledger, uri, fresh, uuidList, cur, xml>>

(* ids = virdomid_list(server, virt), names.extend(ids) *)
ListIds ==
    /\ pc = "ids"
    /\ \E ids \in {{}, {doms[n].uuid : n \in Active(doms)}} :
          /\ Lists({doms[n].uuid : n \in Active(doms)}, ids)
          /\ todo' = todo \cup ids
    /\ pc' = "read"
    /\ UNCHANGED <<doms, ledger, uri, fresh, uuidList, cur, xml>>

(* Mutant: the ledger is read before the listings. *)
ListingRaisesLate ==
    /\ pc \in {"names", "ids"}
    /\ "ssh-list" \in Faults
    /\ pc' = "off" /\ fresh' = FALSE /\ ledger' = {}
    /\ todo' = {} /\ uuidList' = {} /\ cur' = Blank
    /\ xml' = [n \in SuiteNames |-> NoUuid]
    /\ UNCHANGED <<doms, uri>>

(* ssh fails in either listing: it returns None, names.extend raises, and  *)
(* do_try turns the exception into FAIL.  The ledger has not been touched. *)
ListingRaises ==
    /\ pc \in {"names", "ids"}
    /\ "ssh-list" \in Faults
    /\ ProcessEnds

(* uuid_list = get_uuid_list(): read the ledger, then unlink it. *)
ReadLedger ==
    /\ pc = "read"
    /\ uuidList' = ledger /\ ledger' = {}
    /\ pc' = "sweep"
    /\ UNCHANGED <<doms, uri, fresh, todo, cur, xml>>

(* for name in names: the ids come after all the names. *)
NextRefs == IF todo \cap Names # {} THEN todo \cap Names ELSE todo

(* Mutant: every listed domain is taken, as with aggressive=True. *)
VisitAggressively(r) ==
    /\ pc = "sweep" /\ r \in NextRefs
    /\ todo' = todo \ {r}
    /\ pc' = "destroy" /\ cur' = r
    /\ UNCHANGED <<doms, ledger, uri, fresh, uuidList, xml>>

(* Mutant: the visited entry stays in the list. *)
VisitAgain(r) ==
    /\ pc = "sweep" /\ r \in NextRefs
    /\ \E res \in Uuids \cup {Blank, Zero} :
          /\ LooksUp(r, uri, res)
          /\ IF res \in uuidList THEN pc' = "destroy" /\ cur' = r
                                 ELSE UNCHANGED <<pc, cur>>
    /\ UNCHANGED <<doms, ledger, uri, fresh, todo, uuidList, xml>>

(* if viruuid(name, server, virt) in uuid_list *)
Visit(r) ==
    /\ pc = "sweep" /\ r \in NextRefs
    /\ todo' = todo \ {r}
    /\ \E res \in Uuids \cup {Blank, Zero} :
          /\ LooksUp(r, uri, res)
          /\ IF res \in uuidList THEN pc' = "destroy" /\ cur' = r
                                 ELSE UNCHANGED <<pc, cur>>
    /\ UNCHANGED <<doms, ledger, uri, fresh, uuidList, xml>>

(* virsh "destroy name ; undefine name": the result of either is dropped. *)
DestroyCur ==
    /\ pc = "destroy"
    /\ \/ doms' = Destroyed(doms, Denoted(doms, cur))
       \/ "destroy" \in Faults /\ UNCHANGED doms
    /\ pc' = "undefine"
    /\ UNCHANGED <<ledger, uri, fresh, todo, uuidList, cur, xml>>

(* Mutant: virsh destroy alone; a persistent guest stays defined. *)
UndefineSkipped ==
    /\ pc = "undefine"
    /\ pc' = "sweep" /\ cur' = Blank
    /\ UNCHANGED <<doms, ledger, uri, fresh, todo, uuidList, xml>>

UndefineCur ==
    /\ pc = "undefine"
    /\ \/ doms' = Undefined(doms, Denoted(doms, cur))
       \/ "destroy" \in Faults /\ UNCHANGED doms
    /\ pc' = "sweep" /\ cur' = Blank
    /\ UNCHANGED <<ledger, uri, fresh, todo, uuidList, xml>>

(* The loop is over; rc = f() begins or goes on. *)
EnterBody ==
    /\ pc = "sweep" /\ todo = {}
    /\ pc' = "body" /\ fresh' = TRUE /\ uuidList' = {}
    /\ UNCHANGED <<doms, ledger, uri, todo, cur, xml>>

-----------------------------------------------------------------------------
(***************************************************************************)
(* The body: any legal sequence of the calls the scripts make              *)
(***************************************************************************)
BodyStep ==
    /\ pc = "body"
    /\ fresh' = FALSE
    /\ UNCHANGED <<uri, todo, uuidList>>

(* VirtXML(name, set_uuid()): the uuid is recorded before any guest has it. *)
NewXml(n, u) ==
    /\ BodyStep /\ u \in FreshUuids
    /\ ledger' = ledger \cup {u}
    /\ xml' = [xml EXCEPT ![n] = u]
    /\ UNCHANGED <<doms, pc, cur>>

(* A virsh command of a VirtXML object: when ok, the host becomes d. *)
Command(n, ok, d) ==
    /\ BodyStep /\ xml[n] # NoUuid
    /\ doms' = IF ok THEN d ELSE doms
    /\ UNCHANGED <<ledger, pc, cur, xml>>

Define(n) == Command(n, Accepts(doms, n, xml[n]), Defined(doms, n, xml[n]))
Create(n) ==
    Command(n, Accepts(doms, n, xml[n]) /\ n \notin Active(doms),
            Created(doms, n, xml[n]))
Start(n)    == Command(n, n \in Present(doms), Started(doms, n))
Destroy(n)  == Command(n, TRUE, Destroyed(doms, {n} \cap Present(doms)))
Undefine(n) == Command(n, TRUE, Undefined(doms, {n} \cap Present(doms)))

(* service.DestroySystem: the guest is stopped and removed. *)
CimDestroy(n) ==
    Command(n, n \in Present(doms), [doms EXCEPT ![n] = NoDom])

(* cim_define(ip): DefineSystem makes a guest, its uuid chosen by libvirt. *)
CimDefine(n, u) ==
    /\ BodyStep /\ xml[n] # NoUuid
    /\ u \in FreshUuids /\ Accepts(doms, n, u)
    /\ doms' = Defined(doms, n, u)
    /\ \/ pc' = "defined" /\ cur' = n
       \/ "cim" \in Faults /\ UNCHANGED <<pc, cur>>
    /\ UNCHANGED <<ledger, xml>>

(* Mutant: the 0 of a failed lookup is recorded as it is. *)
RecordCimRaw ==
    /\ pc = "defined"
    /\ \E res \in Uuids \cup {Blank, Zero} :
          LooksUp(cur, OptVirt, res) /\ ledger' = ledger \cup {res}
    /\ pc' = "body" /\ cur' = Blank
    /\ UNCHANGED <<doms, uri, fresh, todo, uuidList, xml>>

(* set_uuid(viruuid(self.domain_name, ip, self.virt)): what viruuid        *)
(* returned is a line of the ledger, except that 0 makes set_uuid record a *)
(* new random uuid.                                                        *)
RecordCim ==
    /\ pc = "defined"
    /\ \E res \in Uuids \cup {Blank, Zero} :
          /\ LooksUp(cur, OptVirt, res)
          /\ IF res = Zero THEN \E u \in FreshUuids : ledger' = ledger \cup {u}
                           ELSE ledger' = ledger \cup {res}
    /\ pc' = "body" /\ cur' = Blank
    /\ UNCHANGED <<doms, uri, fresh, todo, uuidList, xml>>

(* The body returns, raises, or calls sys.exit, whatever is left behind. *)
EndTest == pc = "body" /\ ProcessEnds

Crash == pc \in CrashAt \ {"off"} /\ ProcessEnds

-----------------------------------------------------------------------------
(***************************************************************************)
(* Beside the suite                                                        *)
(***************************************************************************)
(* A guest shuts itself down. *)
GuestPowersOff(n) ==
    /\ IsSuite(n) /\ doms[n].active
    /\ doms' = Destroyed(doms, {n})
    /\ UNCHANGED <<ledger, pc, uri, fresh, sweep, xml>>

(* The administrator keeps off the names of the suite while a body runs    *)
(* and between the lookup of a domain and its removal.                     *)
AdminStep(n) ==
    /\ n \in AdminNames
    /\ n \in SuiteNames => pc \notin {"body", "defined", "destroy", "undefine"}
    /\ UNCHANGED <<ledger, pc, uri, fresh, sweep, xml>>

AdminDefine(n, u) ==
    /\ AdminStep(n) /\ Accepts(doms, n, u)
    /\ doms' = Defined(doms, n, u)

AdminStart(n) ==
    /\ AdminStep(n) /\ IsForeign(n) /\ ~doms[n].active
    /\ doms' = Started(doms, n)

AdminRemove(n) ==
    /\ AdminStep(n) /\ IsForeign(n)
    /\ \/ doms' = Destroyed(doms, {n})
       \/ doms' = Undefined(doms, {n})

-----------------------------------------------------------------------------
Cleanup ==
    \/ ListNames \/ ListIds \/ ReadLedger
    \/ \E r \in todo : Visit(r)
    \/ DestroyCur \/ UndefineCur \/ EnterBody

Body ==
    \/ Reclean
    \/ \E n \in SuiteNames, u \in SuiteUuids : NewXml(n, u) \/ CimDefine(n, u)
    \/ \E n \in SuiteNames : \/ Define(n) \/ Create(n) \/ Start(n)
                            \/ Destroy(n) \/ Undefine(n) \/ CimDestroy(n)
    \/ RecordCim
    \/ EndTest

Others ==
    \/ \E n \in SuiteNames : GuestPowersOff(n)
    \/ \E n \in AdminNames, u \in AdminUuids : AdminDefine(n, u)
    \/ \E n \in AdminNames : AdminStart(n) \/ AdminRemove(n)

Next == StartTest \/ Cleanup \/ ListingRaises \/ Body \/ Crash \/ Others

Spec == Init /\ [][Next]_vars

(* The process runs destroy_and_undefine_all without waiting for anyone. *)
FairSpec == Spec /\ WF_vars(Cleanup)

-----------------------------------------------------------------------------
(***************************************************************************)
(* Properties                                                              *)
(***************************************************************************)
(* destroy_and_undefine_all touches no domain of the administrator: a step *)
(* of its loop (test_doms.py 135-137) leaves every foreign domain as it is.*)
CleanupSparesForeign ==
    [][(pc \in {"destroy", "undefine"} /\ pc' # pc) =>
          (\A n \in Names : IsForeign(n) => doms'[n] = doms[n])]_vars

(* No guest is forgotten: each one on the host is in the ledger, is still  *)
(* to be visited by the cleanup that holds its uuid, or is the one that    *)
(* cim_define is about to record.                                          *)
Held(n) ==
    \/ doms[n].uuid \in ledger
    \/ /\ pc \in {"sweep", "destroy", "undefine"}
       /\ doms[n].uuid \in uuidList
       /\ n \in todo \cup {cur}
    \/ pc = "defined" /\ cur = n
Tracked == \A n \in Names : IsSuite(n) => Held(n)

(* A body is entered on a host without guests of the suite: the "clean env *)
(* for next testcase" of destroy_and_undefine_all (test_doms.py 127-128).  *)
CleanStart == pc = "body" /\ fresh => SuiteGuests = {}

(* do_main as CleanHost describes it. *)
Phase == IF pc = "off" THEN "idle"
         ELSE IF pc \in CleanupPcs THEN "cleaning" ELSE "testing"
Promise == INSTANCE CleanHost WITH Guests <- SuiteUuids,
                                   guests <- SuiteGuests, phase <- Phase
KeepsHostClean == Promise!Spec

(* The loop of destroy_and_undefine_all ends: the script gets to its body  *)
(* or the process is gone.                                                 *)
CleanupEnds == pc \in CleanupPcs ~> pc \in {"body", "off"}
=============================================================================
