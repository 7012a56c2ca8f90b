------------------------- MODULE GuestLedgerProofs -------------------------
(***************************************************************************)
(* Proofs about GuestLedger, for every set of names and uuids:             *)
(*   - type correctness, under every fault;                                *)
(*   - cleanup spares the administrator's domains, whatever fails or is    *)
(*     killed, unless a uuid lookup fails inside virsh;                    *)
(*   - no guest is forgotten, and every body starts on a clean host, when  *)
(*     only the listings can fail (through ssh) and the process is killed  *)
(*     at the safe points.                                                 *)
(***************************************************************************)
EXTENDS GuestLedger, TLAPS, FiniteSetTheorems

USE RefsDistinct, NoDomAssumption, SuiteAssumption

-----------------------------------------------------------------------------
(***************************************************************************)
(* The host operators                                                      *)
(***************************************************************************)
(* A domain that starts or stops, or is defined no longer, is the same     *)
(* domain otherwise.                                                       *)
LEMMA SwitchedDomain ==
    ASSUME NEW dom \in Domain, NEW a \in BOOLEAN
    PROVE  LET s == [dom EXCEPT !.active = a]
           IN  /\ s \in Domain /\ s.uuid = dom.uuid
               /\ s.active = a /\ s.persistent = dom.persistent
  BY DEF Domain

LEMMA DroppedDomain ==
    ASSUME NEW dom \in Domain
    PROVE  LET s == [dom EXCEPT !.persistent = FALSE]
           IN  /\ s \in Domain /\ s.uuid = dom.uuid
               /\ s.active = dom.active /\ s.persistent = FALSE
  BY DEF Domain

(* A name that has a domain. *)
LEMMA PresentDomain ==
    ASSUME NEW d \in HostMaps, NEW n \in Present(d)
    PROVE  n \in Names /\ d[n] \in Domain
  BY DEF HostMaps, Present

(* A domain that virsh keeps is a domain of the same uuid. *)
LEMMA KeptDomain ==
    ASSUME NEW dom \in Domain
    PROVE  /\ Kept(dom) \in Domain \cup {NoDom}
           /\ Kept(dom) # NoDom => Kept(dom) = dom
  BY DEF Kept

(* virsh destroy leaves the other domains alone, and a destroyed one is    *)
(* gone or off, under its uuid.                                            *)
LEMMA DestroyedHost ==
    ASSUME NEW d \in HostMaps, NEW S \in SUBSET Present(d)
    PROVE  /\ Destroyed(d, S) \in HostMaps
           /\ \A n \in Names \ S : Destroyed(d, S)[n] = d[n]
           /\ \A n \in S : Destroyed(d, S)[n] # NoDom =>
                 /\ Destroyed(d, S)[n].uuid = d[n].uuid
                 /\ ~Destroyed(d, S)[n].active
           /\ \A n \in S : d[n].persistent =>
                 Destroyed(d, S)[n] # NoDom /\ Destroyed(d, S)[n].persistent
<1> DEFINE off(n) == [d[n] EXCEPT !.active = FALSE]
<1>1. \A n \in S : /\ n \in Names /\ d[n] \in Domain
                   /\ off(n) \in Domain
                   /\ off(n).uuid = d[n].uuid
                   /\ off(n).active = FALSE
                   /\ off(n).persistent = d[n].persistent
  <2>1. \A n \in S : n \in Names /\ d[n] \in Domain
    BY PresentDomain
  <2>2. QED
    BY <2>1, SwitchedDomain
<1>2. \A n \in S : /\ Kept(off(n)) \in Domain \cup {NoDom}
                   /\ Kept(off(n)) # NoDom => Kept(off(n)) = off(n)
  BY <1>1, KeptDomain
<1>3. \A n \in S : d[n].persistent => Kept(off(n)) = off(n)
  BY <1>1 DEF Kept
<1>4. \A n \in S : Destroyed(d, S)[n] = Kept(off(n))
  BY <1>1 DEF Destroyed
<1>5. \A n \in Names \ S : Destroyed(d, S)[n] = d[n]
  BY DEF Destroyed
<1>6. Destroyed(d, S) \in HostMaps
  BY <1>1, <1>2, <1>5 DEF Destroyed, HostMaps
<1>7. \A n \in S : off(n) # NoDom
  BY <1>1
<1> HIDE DEF off
<1> QED BY <1>1, <1>2, <1>3, <1>4, <1>5, <1>6, <1>7

(* virsh undefine leaves the other domains alone, and an undefined one is  *)
(* gone, or runs on under its uuid.                                        *)
LEMMA UndefinedHost ==
    ASSUME NEW d \in HostMaps, NEW S \in SUBSET Present(d)
    PROVE  /\ Undefined(d, S) \in HostMaps
           /\ \A n \in Names \ S : Undefined(d, S)[n] = d[n]
           /\ \A n \in S : Undefined(d, S)[n] # NoDom =>
                 /\ Undefined(d, S)[n].uuid = d[n].uuid
                 /\ d[n].active
<1> DEFINE gone(n) == [d[n] EXCEPT !.persistent = FALSE]
<1>1. \A n \in S : /\ n \in Names /\ d[n] \in Domain
                   /\ gone(n) \in Domain
                   /\ gone(n).uuid = d[n].uuid
                   /\ gone(n).active = d[n].active
                   /\ gone(n).persistent = FALSE
  <2>1. \A n \in S : n \in Names /\ d[n] \in Domain
    BY PresentDomain
  <2>2. QED
    BY <2>1, DroppedDomain
<1>2. \A n \in S : /\ Kept(gone(n)) \in Domain \cup {NoDom}
                   /\ Kept(gone(n)) # NoDom => Kept(gone(n)) = gone(n)
  BY <1>1, KeptDomain
<1>3. \A n \in S : Kept(gone(n)) # NoDom => gone(n).active
  BY <1>1 DEF Kept
<1>4. \A n \in S : Undefined(d, S)[n] = Kept(gone(n))
  BY <1>1 DEF Undefined
<1>5. \A n \in Names \ S : Undefined(d, S)[n] = d[n]
  BY DEF Undefined
<1>6. Undefined(d, S) \in HostMaps
  BY <1>1, <1>2, <1>5 DEF Undefined, HostMaps
<1> HIDE DEF gone
<1> QED BY <1>1, <1>2, <1>3, <1>4, <1>5, <1>6

(* A name refers to the domain that has it, and to no other. *)
LEMMA DenotedName ==
    ASSUME NEW d \in HostMaps, NEW r \in Names
    PROVE  Denoted(d, r) = {r} \cap Present(d)
  BY DEF Denoted, Present, Active, HostMaps, Domain

-----------------------------------------------------------------------------
(***************************************************************************)
(* What a step may do to the host                                          *)
(***************************************************************************)
(* The six commands the body gives for a VirtXML object. *)
BodyCommand(n) == \/ Define(n) \/ Create(n) \/ Start(n)
                  \/ Destroy(n) \/ Undefine(n) \/ CimDestroy(n)

(* A body command changes at most the domain of its name, and leaves there *)
(* no domain, the old one, or one of the object's uuid.                    *)
LEMMA CommandEffect ==
    ASSUME TypeOK, NEW n \in SuiteNames, BodyCommand(n)
    PROVE  /\ BodyStep /\ UNCHANGED <<ledger, pc, cur, xml>>
           /\ xml[n] \in SuiteUuids
           /\ doms' \in HostMaps
           /\ \A m \in Names \ {n} : doms'[m] = doms[m]
           /\ doms'[n] # NoDom =>
                 \/ doms'[n].uuid = xml[n]
                 \/ doms[n] # NoDom /\ doms'[n].uuid = doms[n].uuid
<1> USE DEF TypeOK
<1> DEFINE here == {n} \cap Present(doms)
<1>1. /\ BodyStep /\ UNCHANGED <<ledger, pc, cur, xml>>
      /\ xml[n] # NoUuid
  BY DEF BodyCommand, Define, Create, Start, Destroy, Undefine, CimDestroy,
         Command
<1>2. n \in Names /\ xml[n] \in SuiteUuids /\ xml[n] \in Uuids
  BY <1>1
<1>3. here \in SUBSET Present(doms)
  OBVIOUS
<1>4. CASE Define(n)
  <2>1. [uuid |-> xml[n], active |-> n \in Active(doms), persistent |-> TRUE]
           \in Domain
    BY <1>2 DEF Domain
  <2> QED BY <1>1, <1>2, <1>4, <2>1 DEF Define, Command, Defined, HostMaps
<1>5. CASE Create(n)
  <2>1. [uuid |-> xml[n], active |-> TRUE,
         persistent |-> n \in Present(doms) /\ doms[n].persistent] \in Domain
    BY <1>2 DEF Domain, HostMaps, Present
  <2> QED BY <1>1, <1>2, <1>5, <2>1 DEF Create, Command, Created, HostMaps
<1>6. CASE Start(n)
  <2>1. ASSUME n \in Present(doms)
        PROVE  /\ [doms[n] EXCEPT !.active = TRUE] \in Domain
               /\ [doms[n] EXCEPT !.active = TRUE].uuid = doms[n].uuid
    <3>1. doms[n] \in Domain
      BY <1>2, <2>1 DEF HostMaps, Present
    <3> QED BY <3>1, SwitchedDomain
  <2>2. CASE n \in Present(doms)
    <3>1. doms' = [doms EXCEPT ![n] = [doms[n] EXCEPT !.active = TRUE]]
      BY <1>6, <2>2 DEF Start, Command, Started
    <3>2. n \in Names /\ doms[n] # NoDom
      BY <2>2 DEF Present
    <3>3. /\ doms' \in HostMaps
          /\ doms'[n] = [doms[n] EXCEPT !.active = TRUE]
          /\ \A m \in Names \ {n} : doms'[m] = doms[m]
      BY <2>1, <2>2, <3>1, <3>2 DEF HostMaps
    <3> QED BY <1>1, <1>2, <2>1, <2>2, <3>2, <3>3
  <2>3. CASE n \notin Present(doms)
    BY <1>1, <1>2, <1>6, <2>3 DEF Start, Command, Present
  <2> QED BY <2>2, <2>3
<1>7. CASE Destroy(n)
  <2>1. doms' = Destroyed(doms, here)
    BY <1>7 DEF Destroy, Command
  <2>2. /\ doms' \in HostMaps
        /\ \A m \in Names \ here : doms'[m] = doms[m]
        /\ \A m \in here : doms'[m] # NoDom => doms'[m].uuid = doms[m].uuid
    BY <1>3, <2>1, DestroyedHost
  <2> QED BY <1>1, <1>2, <2>2 DEF Present
<1>8. CASE Undefine(n)
  <2>1. doms' = Undefined(doms, here)
    BY <1>8 DEF Undefine, Command
  <2>2. /\ doms' \in HostMaps
        /\ \A m \in Names \ here : doms'[m] = doms[m]
        /\ \A m \in here : doms'[m] # NoDom => doms'[m].uuid = doms[m].uuid
    BY <1>3, <2>1, UndefinedHost
  <2> QED BY <1>1, <1>2, <2>2 DEF Present
<1>9. CASE CimDestroy(n)
  BY <1>1, <1>2, <1>9 DEF CimDestroy, Command, HostMaps
<1> QED BY <1>4, <1>5, <1>6, <1>7, <1>8, <1>9 DEF BodyCommand

(* The steps of the others leave the process alone.  A name keeps its      *)
(* domain, or loses or stops a guest, or is the administrator's to change. *)
PoweredOff(n) ==
    /\ IsSuite(n)
    /\ doms'[n] # NoDom => doms'[n].uuid = doms[n].uuid /\ ~doms'[n].active
    /\ doms[n].persistent => doms'[n] # NoDom /\ doms'[n].persistent
AdminChanged(n) ==
    /\ n \in AdminNames
    /\ n \in SuiteNames => pc \notin {"body", "defined", "destroy", "undefine"}
    /\ ~IsSuite(n)
    /\ doms'[n] # NoDom => doms'[n].uuid \in AdminUuids

LEMMA OthersEffect ==
    ASSUME TypeOK, Others
    PROVE  /\ UNCHANGED <<ledger, pc, uri, fresh, todo, uuidList, cur, xml>>
           /\ doms' \in HostMaps
           /\ \A m \in Names : \/ doms'[m] = doms[m]
                               \/ PoweredOff(m)
                               \/ AdminChanged(m)
<1> USE DEF TypeOK
<1>1. ASSUME NEW n \in SuiteNames, GuestPowersOff(n)
      PROVE  /\ UNCHANGED <<ledger, pc, uri, fresh, todo, uuidList, cur, xml>>
             /\ doms' \in HostMaps
             /\ \A m \in Names \ {n} : doms'[m] = doms[m]
             /\ PoweredOff(n)
  <2>1. n \in Present(doms) /\ doms' = Destroyed(doms, {n})
    BY <1>1 DEF GuestPowersOff, IsSuite
  <2>2. UNCHANGED <<ledger, pc, uri, fresh, todo, uuidList, cur, xml>>
    BY <1>1 DEF GuestPowersOff, sweep
  <2>3. {n} \in SUBSET Present(doms)
    BY <2>1
  <2> QED BY <1>1, <2>1, <2>2, <2>3, DestroyedHost
          DEF GuestPowersOff, PoweredOff
<1>2. ASSUME NEW n \in AdminNames, NEW u \in AdminUuids, AdminDefine(n, u)
      PROVE  /\ UNCHANGED <<ledger, pc, uri, fresh, todo, uuidList, cur, xml>>
             /\ doms' \in HostMaps
             /\ \A m \in Names \ {n} : doms'[m] = doms[m]
             /\ AdminChanged(n)
  <2>1. UNCHANGED <<ledger, pc, uri, fresh, todo, uuidList, cur, xml>>
    BY <1>2 DEF AdminDefine, AdminStep, sweep
  <2>2. [uuid |-> u, active |-> n \in Active(doms), persistent |-> TRUE]
           \in Domain
    BY DEF Domain, AdminUuids
  <2>3. n \in Names /\ doms' = Defined(doms, n, u) /\ ~IsSuite(n)
    BY <1>2 DEF AdminDefine, Accepts, IsSuite, Present, AdminUuids
  <2>4. doms' \in HostMaps /\ doms'[n].uuid = u
    BY <2>2, <2>3 DEF Defined, HostMaps
  <2> QED BY <1>2, <2>1, <2>3, <2>4
          DEF AdminDefine, AdminStep, AdminChanged, Defined, HostMaps
<1>3. ASSUME NEW n \in AdminNames, AdminStart(n) \/ AdminRemove(n)
      PROVE  /\ UNCHANGED <<ledger, pc, uri, fresh, todo, uuidList, cur, xml>>
             /\ doms' \in HostMaps
             /\ \A m \in Names \ {n} : doms'[m] = doms[m]
             /\ AdminChanged(n)
  <2>1. /\ UNCHANGED <<ledger, pc, uri, fresh, todo, uuidList, cur, xml>>
        /\ n \in SuiteNames =>
              pc \notin {"body", "defined", "destroy", "undefine"}
        /\ IsForeign(n)
    BY <1>3 DEF AdminStart, AdminRemove, AdminStep, sweep
  <2>2. /\ n \in Names /\ n \in Present(doms) /\ ~IsSuite(n)
        /\ doms[n].uuid \in AdminUuids /\ {n} \in SUBSET Present(doms)
    BY <2>1 DEF IsForeign, IsSuite, AdminUuids, Present
  <2>3. CASE doms' = Started(doms, n)
    <3>0. doms \in HostMaps /\ n \in Names /\ doms[n] # NoDom
      BY <2>2 DEF TypeOK, Present
    <3>1. /\ [doms[n] EXCEPT !.active = TRUE] \in Domain
          /\ [doms[n] EXCEPT !.active = TRUE].uuid = doms[n].uuid
      <4>1. doms[n] \in Domain BY <3>0 DEF HostMaps
      <4> QED BY ONLY <4>1, SwitchedDomain
    <3> QED BY <2>1, <2>2, <2>3, <3>1 DEF Started, HostMaps, AdminChanged
  <2>4. CASE doms' = Destroyed(doms, {n})
    BY <2>1, <2>2, <2>4, DestroyedHost DEF AdminChanged
  <2>5. CASE doms' = Undefined(doms, {n})
    BY <2>1, <2>2, <2>5, UndefinedHost DEF AdminChanged
  <2> QED BY <1>3, <2>3, <2>4, <2>5 DEF AdminStart, AdminRemove
<1> QED BY <1>1, <1>2, <1>3 DEF Others

-----------------------------------------------------------------------------
(***************************************************************************)
(* Type correctness                                                        *)
(***************************************************************************)
(* Between DefineSystem and the record, cur is the new guest, and it can   *)
(* power off but not vanish.                                               *)
DefinedOurs ==
    pc = "defined" =>
        cur \in SuiteNames /\ IsSuite(cur) /\ doms[cur].persistent

TypeInv == TypeOK /\ DefinedOurs

(* What viruuid says of the guest that cim_define has made. *)
LEMMA CimLookup ==
    ASSUME TypeInv, pc = "defined", NEW res, LooksUp(cur, OptVirt, res)
    PROVE  \/ res = doms[cur].uuid /\ res \in SuiteUuids
           \/ res = Blank /\ "virsh-lookup" \in Faults
           \/ res = Zero /\ "ssh-lookup" \in Faults
<1>1. /\ cur \in Names /\ cur \in Present(doms)
      /\ doms[cur].uuid \in SuiteUuids /\ doms \in HostMaps
  BY DEF TypeInv, TypeOK, DefinedOurs, IsSuite
<1>2. Denoted(doms, cur) = {cur}
  BY <1>1, DenotedName
<1>3. Connects(OptVirt)
  BY DEF Connects
<1> QED BY <1>1, <1>2, <1>3 DEF LooksUp

(* An id or a name of a listing is a reference. *)
LEMMA ListedRefs ==
    ASSUME TypeOK
    PROVE  /\ Present(doms) \subseteq Refs
           /\ {doms[n].uuid : n \in Active(doms)} \subseteq Refs
  BY DEF TypeOK, Present, Active, HostMaps, Domain, Refs

(* The type invariant, strengthened by DefinedOurs, is inductive. *)
LEMMA TypeStep == TypeInv /\ [Next]_vars => TypeInv'
<1> SUFFICES ASSUME TypeInv, [Next]_vars PROVE TypeInv'
  OBVIOUS
<1>0. TypeOK /\ DefinedOurs
  BY DEF TypeInv
<1> USE <1>0
<1> SuiteUuids \subseteq Uuids /\ SuiteNames \subseteq Names /\ Names \subseteq Refs
  BY DEF Refs
<1>1. CASE StartTest \/ Reclean
  BY <1>1 DEF StartTest, Reclean, TypeInv, TypeOK, DefinedOurs, Pcs, CleanupPcs
<1>2. CASE ListNames
  <2>1. todo' \subseteq Refs
    BY <1>2, ListedRefs DEF ListNames, Lists
  <2> QED BY <1>2, <2>1
          DEF ListNames, TypeInv, TypeOK, DefinedOurs, Pcs, CleanupPcs
<1>3. CASE ListIds
  <2>1. todo' \subseteq Refs
    BY <1>3, ListedRefs DEF ListIds, TypeOK
  <2> QED BY <1>3, <2>1
          DEF ListIds, TypeInv, TypeOK, DefinedOurs, Pcs, CleanupPcs
<1>4. CASE ReadLedger \/ EnterBody
  BY <1>4 DEF ReadLedger, EnterBody, TypeInv, TypeOK, DefinedOurs, Pcs,
              CleanupPcs
<1>5. ASSUME NEW r \in todo, Visit(r) PROVE TypeInv'
  <2>1. /\ UNCHANGED <<doms, ledger, uri, fresh, uuidList, xml>>
        /\ todo' = todo \ {r}
        /\ \/ pc' = "destroy" /\ cur' = r
           \/ pc' = pc /\ cur' = cur
        /\ pc = "sweep"
    BY <1>5 DEF Visit
  <2>2. r \in Refs
    BY DEF TypeOK
  <2> QED BY <2>1, <2>2 DEF TypeInv, TypeOK, DefinedOurs, Pcs, CleanupPcs
<1>6. CASE DestroyCur
  <2>1. doms' \in HostMaps
    <3>1. Denoted(doms, cur) \in SUBSET Present(doms)
      BY DEF Denoted
    <3> QED BY <1>6, <3>1, DestroyedHost DEF DestroyCur, TypeOK
  <2> QED BY <1>6, <2>1
          DEF DestroyCur, TypeInv, TypeOK, DefinedOurs, Pcs, CleanupPcs
<1>7. CASE UndefineCur
  <2>1. doms' \in HostMaps
    <3>1. Denoted(doms, cur) \in SUBSET Present(doms)
      BY DEF Denoted
    <3> QED BY <1>7, <3>1, UndefinedHost DEF UndefineCur, TypeOK
  <2> QED BY <1>7, <2>1
          DEF UndefineCur, TypeInv, TypeOK, DefinedOurs, Pcs, CleanupPcs
<1>8. CASE ProcessEnds
  BY <1>8 DEF ProcessEnds, TypeInv, TypeOK, DefinedOurs, Pcs
<1>9. ASSUME NEW n \in SuiteNames, NEW u \in SuiteUuids, NewXml(n, u)
      PROVE  TypeInv'
  BY <1>9 DEF NewXml, BodyStep, TypeInv, TypeOK, DefinedOurs, Pcs
<1>10. ASSUME NEW n \in SuiteNames, NEW u \in SuiteUuids, CimDefine(n, u)
       PROVE  TypeInv'
  <2>1. [uuid |-> u, active |-> n \in Active(doms), persistent |-> TRUE]
           \in Domain
    BY DEF Domain
  <2>2. doms' = [doms EXCEPT ![n] = [uuid |-> u, active |-> n \in Active(doms),
                                     persistent |-> TRUE]]
    BY <1>10 DEF CimDefine, Defined
  <2>3. /\ doms' \in HostMaps /\ n \in Names
        /\ doms'[n] \in Domain /\ doms'[n].uuid = u /\ doms'[n].persistent
    BY <2>1, <2>2 DEF TypeOK, HostMaps
  <2>4. /\ UNCHANGED <<ledger, uri, todo, uuidList, xml>>
        /\ pc = "body" /\ fresh' = FALSE
        /\ \/ pc' = "defined" /\ cur' = n
           \/ pc' = pc /\ cur' = cur
    BY <1>10 DEF CimDefine, BodyStep
  <2>5. TypeOK'
    BY <2>3, <2>4 DEF TypeOK, Pcs
  <2>6. DefinedOurs'
    <3>1. pc' = "defined" => cur' = n
      BY <2>4
    <3>2. IsSuite(n)'
      BY <2>3 DEF IsSuite, Present
    <3> QED BY <2>3, <3>1, <3>2 DEF DefinedOurs, IsSuite
  <2> QED BY <2>5, <2>6 DEF TypeInv
<1>11. ASSUME NEW n \in SuiteNames, BodyCommand(n) PROVE TypeInv'
  BY <1>11, CommandEffect DEF BodyStep, TypeInv, TypeOK, DefinedOurs
<1>12. CASE RecordCim
  <2>1. ledger' \subseteq SuiteUuids \cup {Blank}
    BY <1>12, CimLookup DEF RecordCim, TypeOK, FreshUuids
  <2> QED BY <1>12, <2>1 DEF RecordCim, TypeInv, TypeOK, DefinedOurs, Pcs
<1>13. CASE Others
  <2>1. pc = "defined" => cur \notin AdminNames \/ ~AdminChanged(cur)
    BY DEF AdminChanged, DefinedOurs
  <2>2. pc = "defined" =>
          IsSuite(cur)' /\ doms'[cur].persistent
    BY <1>13, <2>1, OthersEffect
       DEF PoweredOff, AdminChanged, DefinedOurs, IsSuite, Present
  <2> QED BY <1>13, <2>2, OthersEffect DEF TypeInv, TypeOK, DefinedOurs
<1>14. CASE UNCHANGED vars
  BY <1>14 DEF vars, TypeInv, TypeOK, DefinedOurs, IsSuite, Present
<1> QED BY <1>1, <1>2, <1>3, <1>4, <1>5, <1>6, <1>7, <1>8, <1>9, <1>10, <1>11,
           <1>12, <1>13, <1>14
        DEF Next, Cleanup, Body, ListingRaises, EndTest, Crash, BodyCommand

(* The variables keep their types, whatever fails: in particular every     *)
(* line of the ledger is a uuid of the suite or empty (set_uuid), and every *)
(* entry cleanup holds is a name or an id (destroy_and_undefine_all).      *)
THEOREM TypeCorrect == Spec => []TypeOK
<1>1. Init => TypeInv
  <2> SUFFICES ASSUME Init PROVE TypeInv
    OBVIOUS
  <2>1. doms \in HostMaps
    BY DEF Init, HostMaps, Domain, AdminUuids
  <2> QED BY <2>1 DEF Init, TypeInv, TypeOK, DefinedOurs, Pcs
<1>2. TypeInv => TypeOK
  BY DEF TypeInv
<1> QED BY <1>1, <1>2, TypeStep, PTL DEF Spec

-----------------------------------------------------------------------------
(***************************************************************************)
(* Cleanup spares the administrator's domains                              *)
(***************************************************************************)
(* Guests carry names of the suite; no line of the ledger is empty; and    *)
(* what the loop is about to destroy is a guest, or gone.  The last needs  *)
(* the first: it keeps the administrator off the name.                     *)
OursNamed  == \A n \in Names : IsSuite(n) => n \in SuiteNames
NoBlank    == Blank \notin ledger /\ Blank \notin uuidList
TargetOurs ==
    pc \in {"destroy", "undefine"} =>
        \/ cur \in SuiteUuids
        \/ cur \in SuiteNames /\ ~IsForeign(cur)

SpareInv == TypeInv /\ OursNamed /\ NoBlank /\ TargetOurs

(* The loop's virsh command changes the domains cur refers to, and no uuid. *)
LEMMA SweepEffect ==
    ASSUME TypeOK, DestroyCur \/ UndefineCur
    PROVE  \A n \in Names :
              /\ n \notin Denoted(doms, cur) => doms'[n] = doms[n]
              /\ doms'[n] # NoDom =>
                    doms[n] # NoDom /\ doms'[n].uuid = doms[n].uuid
<1>1. Denoted(doms, cur) \in SUBSET Present(doms)
  BY DEF Denoted
<1>2. CASE DestroyCur
  BY <1>1, <1>2, DestroyedHost DEF DestroyCur, TypeOK, Present
<1>3. CASE UndefineCur
  BY <1>1, <1>3, UndefinedHost DEF UndefineCur, TypeOK, Present
<1> QED BY <1>2, <1>3

(* What the loop takes for a guest is one. *)
LEMMA VisitFinds ==
    ASSUME SpareInv, NEW r \in todo, Visit(r), pc' = "destroy"
    PROVE  /\ cur' = r
           /\ r \in SuiteUuids \/ (r \in SuiteNames /\ IsSuite(r))
<1> USE DEF SpareInv, TypeInv, TypeOK
<1>1. PICK res \in uuidList : LooksUp(r, uri, res) /\ cur' = r
  BY DEF Visit
<1>2. res \in SuiteUuids /\ res # Blank /\ res # Zero
  BY <1>1 DEF NoBlank
<1>3. PICK n \in Denoted(doms, r) : res = doms[n].uuid
  BY <1>1, <1>2 DEF LooksUp
<1>4. n \in Names /\ IsSuite(n) /\ (n = r \/ doms[n].uuid = r)
  BY <1>2, <1>3 DEF Denoted, IsSuite, Present
<1> QED BY <1>1, <1>2, <1>3, <1>4 DEF OursNamed

(* Guests keep to the names of the suite. *)
LEMMA NamedStep == TypeInv /\ OursNamed /\ [Next]_vars => OursNamed'
<1> SUFFICES ASSUME TypeInv, OursNamed, [Next]_vars,
                    NEW m \in Names, IsSuite(m)'
             PROVE  m \in SuiteNames
  BY DEF OursNamed
<1>0. TypeOK
  BY DEF TypeInv
<1>1. CASE UNCHANGED doms
  BY <1>1 DEF OursNamed, IsSuite, Present
<1>2. CASE DestroyCur \/ UndefineCur
  BY <1>0, <1>2, SweepEffect DEF OursNamed, IsSuite, Present
<1>3. ASSUME NEW n \in SuiteNames, NEW u \in SuiteUuids, CimDefine(n, u)
      PROVE  m \in SuiteNames
  BY <1>3 DEF CimDefine, Defined, OursNamed, IsSuite, Present, TypeInv, TypeOK,
              HostMaps
<1>4. ASSUME NEW n \in SuiteNames, BodyCommand(n) PROVE m \in SuiteNames
  BY <1>0, <1>4, CommandEffect DEF OursNamed, IsSuite, Present
<1>5. CASE Others
  BY <1>0, <1>5, OthersEffect
     DEF OursNamed, IsSuite, Present, PoweredOff, AdminChanged, AdminUuids
<1> QED BY <1>1, <1>2, <1>3, <1>4, <1>5
        DEF Next, Cleanup, Body, BodyCommand, StartTest, ListNames, ListIds,
            ReadLedger, Visit, EnterBody, ListingRaises, Reclean, NewXml,
            RecordCim, EndTest, Crash, ProcessEnds, vars

LEMMA SpareStep ==
    ASSUME "virsh-lookup" \notin Faults
    PROVE  SpareInv /\ [Next]_vars => SpareInv'
<1> SUFFICES ASSUME SpareInv, [Next]_vars PROVE SpareInv'
  OBVIOUS
<1>0. TypeInv /\ TypeOK /\ OursNamed /\ NoBlank /\ TargetOurs
  BY DEF SpareInv, TypeInv
<1>1. TypeInv' /\ OursNamed'
  BY <1>0, TypeStep, NamedStep
<1>2. NoBlank'
  <2>1. CASE UNCHANGED <<ledger, uuidList>>
    BY <1>0, <2>1 DEF NoBlank
  <2>2. CASE ReadLedger \/ EnterBody \/ ProcessEnds
    BY <1>0, <2>2 DEF ReadLedger, EnterBody, ProcessEnds, NoBlank
  <2>3. ASSUME NEW n \in SuiteNames, NEW u \in SuiteUuids, NewXml(n, u)
        PROVE  NoBlank'
    BY <1>0, <2>3 DEF NewXml, BodyStep, NoBlank
  <2>4. CASE RecordCim
    BY <1>0, <2>4, CimLookup DEF RecordCim, NoBlank, FreshUuids
  <2>5. ASSUME NEW n \in SuiteNames, BodyCommand(n) PROVE NoBlank'
    BY <1>0, <2>5, CommandEffect DEF BodyStep, NoBlank
  <2>6. CASE Others
    BY <1>0, <2>6, OthersEffect DEF NoBlank
  <2> QED BY <2>1, <2>2, <2>3, <2>4, <2>5, <2>6
          DEF Next, Cleanup, Body, BodyCommand, StartTest, ListNames, ListIds,
              Visit, DestroyCur, UndefineCur, ListingRaises, Reclean,
              CimDefine, BodyStep, EndTest, Crash, vars
<1>3. TargetOurs'
  <2>1. ASSUME NEW r \in todo, Visit(r) PROVE TargetOurs'
    <3>1. pc' = "destroy" \/ pc' = "sweep"
      BY <2>1 DEF Visit
    <3>2. CASE pc' = "destroy"
      <4>1. /\ cur' = r
            /\ r \in SuiteUuids \/ (r \in SuiteNames /\ IsSuite(r))
        BY <2>1, <3>2, VisitFinds
      <4>2. doms' = doms
        BY <2>1 DEF Visit
      <4> QED BY <4>1, <4>2
              DEF TargetOurs, IsSuite, IsForeign, AdminUuids, Present
    <3> QED BY <3>1, <3>2 DEF TargetOurs
  <2>2. CASE DestroyCur
    <3>1. cur' = cur /\ pc = "destroy"
      BY <2>2 DEF DestroyCur
    <3>2. cur \in SuiteNames => cur \in Names
      OBVIOUS
    <3> QED BY <1>0, <2>2, <3>1, <3>2, SweepEffect
            DEF TargetOurs, IsForeign, Present
  <2>3. CASE Others
    <3>1. /\ pc' = pc /\ cur' = cur
          /\ cur \in Names => \/ doms'[cur] = doms[cur]
                              \/ PoweredOff(cur)
                              \/ AdminChanged(cur)
      BY <1>0, <2>3, OthersEffect
    <3>2. ASSUME pc \in {"destroy", "undefine"}, cur \in SuiteNames,
                 ~IsForeign(cur)
          PROVE  ~IsForeign(cur)'
      <4>1. cur \in Names /\ ~AdminChanged(cur)
        BY <3>2 DEF AdminChanged
      <4> QED BY <3>1, <3>2, <4>1
              DEF PoweredOff, IsSuite, IsForeign, Present, AdminUuids
    <3> QED BY <1>0, <3>1, <3>2 DEF TargetOurs
  <2>4. ASSUME NEW n \in SuiteNames, BodyCommand(n) PROVE TargetOurs'
    BY <1>0, <2>4, CommandEffect DEF BodyStep, TargetOurs
  <2>5. CASE UNCHANGED vars
    BY <1>0, <2>5 DEF vars, TargetOurs, IsForeign, Present
  <2>6. ASSUME pc' \notin {"destroy", "undefine"} PROVE TargetOurs'
    BY <2>6 DEF TargetOurs
  <2> QED BY <2>1, <2>2, <2>3, <2>4, <2>5, <2>6
          DEF Next, Cleanup, Body, BodyCommand, StartTest, ListNames, ListIds,
              ReadLedger, UndefineCur, EnterBody, ListingRaises, Reclean,
              NewXml, CimDefine, RecordCim, BodyStep, EndTest, Crash,
              ProcessEnds
<1> QED BY <1>1, <1>2, <1>3 DEF SpareInv

LEMMA SpareInit == Init => SpareInv
<1> SUFFICES ASSUME Init PROVE SpareInv
  OBVIOUS
<1>1. doms \in HostMaps
  BY DEF Init, HostMaps, Domain, AdminUuids
<1>2. TypeInv
  BY <1>1 DEF Init, TypeInv, TypeOK, DefinedOurs, Pcs
<1>3. \A n \in Names : ~IsSuite(n)
  BY DEF Init, IsSuite, Present, AdminUuids
<1> QED BY <1>2, <1>3 DEF Init, SpareInv, OursNamed, NoBlank, TargetOurs

(* destroy_and_undefine_all changes no domain of the administrator, however *)
(* the listings, the virsh commands and DefineSystem fail and wherever the *)
(* process is killed, as long as virsh answers viruuid's lookups.  The     *)
(* condition is needed: an empty answer is recorded in the ledger by       *)
(* cim_define, and matches the empty answer of any later failed lookup.    *)
THEOREM SparesForeign ==
    ASSUME "virsh-lookup" \notin Faults
    PROVE  Spec => CleanupSparesForeign
<1> DEFINE Spares ==
      (pc \in {"destroy", "undefine"} /\ pc' # pc) =>
          (\A n \in Names : IsForeign(n) => doms'[n] = doms[n])
<1>1. SpareInv /\ [Next]_vars => [Spares]_vars
  <2> SUFFICES ASSUME SpareInv, Next, pc \in {"destroy", "undefine"},
                      pc' # pc, NEW n \in Names, IsForeign(n)
               PROVE  doms'[n] = doms[n]
    OBVIOUS
  <2>0. TypeOK /\ doms \in HostMaps /\ TargetOurs
    BY DEF SpareInv, TypeInv, TypeOK
  <2>1. CASE DestroyCur \/ UndefineCur
    <3>1. CASE cur \in SuiteUuids
      <4>1. cur \notin Names
        BY <3>1
      <4> QED BY <2>0, <2>1, <3>1, <4>1, SweepEffect
              DEF Denoted, IsForeign, AdminUuids
    <3>2. CASE cur \in SuiteNames /\ ~IsForeign(cur)
      <4>1. Denoted(doms, cur) = {cur} \cap Present(doms)
        BY <2>0, <3>2, DenotedName
      <4> QED BY <2>0, <2>1, <3>2, <4>1, SweepEffect
    <3> QED BY <2>0, <3>1, <3>2 DEF TargetOurs
  <2>2. CASE ProcessEnds
    BY <2>2 DEF ProcessEnds
  <2>3. CASE Others
    BY <2>0, <2>3, OthersEffect
  <2> QED BY <2>1, <2>2, <2>3
          DEF Next, Cleanup, Body, BodyStep, StartTest, ListNames, ListIds,
              ReadLedger, Visit, EnterBody, ListingRaises, Reclean, NewXml,
              CimDefine, Define, Create, Start, Destroy, Undefine, CimDestroy,
              Command, RecordCim, EndTest, Crash
<1> QED BY <1>1, SpareInit, SpareStep, PTL DEF Spec, CleanupSparesForeign

-----------------------------------------------------------------------------
(***************************************************************************)
(* No guest is forgotten, and every body starts on a clean host            *)
(***************************************************************************)
(* Only the listings fail, and the process is killed at points where the   *)
(* ledger is on disk and complete.  TLC finds a body that starts beside a  *)
(* guest as soon as any other fault or any other point is allowed.         *)
Benign == /\ Faults \subseteq {"ssh-list"}
          /\ CrashAt \subseteq {"names", "ids", "read", "body"}

(* The uuid of a VirtXML object is in the ledger; until the body's first   *)
(* step, or with a hypervisor that cannot be reached, there is no guest;   *)
(* every guest was listed; between two visits no name is at hand; and what *)
(* virsh is about to undefine is off.  The loop runs without a ledger file. *)
XmlRecorded ==
    \A n \in SuiteNames : xml[n] # NoUuid =>
        pc \in {"body", "defined"} /\ ~fresh /\ xml[n] \in ledger
NoGuests   == \A n \in Names : ~IsSuite(n)
CleanPoint == \/ pc = "body" /\ fresh
              \/ pc \in CleanupPcs /\ ~Connects(uri)
FreshClean == CleanPoint => NoGuests
Listed     == pc \in {"ids", "read"} => \A n \in Names : IsSuite(n) => n \in todo
Unlinked   == pc \in {"sweep", "destroy", "undefine"} => ledger = {}
CurIdle    == \/ pc \in {"destroy", "undefine"} \/ cur = Blank
              \/ pc = "defined" /\ ~fresh
TargetOff  == pc = "undefine" /\ cur \in Names /\ IsSuite(cur)
                => ~doms[cur].active

TrackInv == /\ SpareInv /\ Tracked /\ XmlRecorded /\ FreshClean
            /\ Listed /\ Unlinked /\ CurIdle /\ TargetOff

(* A step that brings no guest and moves nothing a guest is held by keeps  *)
(* every guest held.                                                       *)
NoNewGuest ==
    \A n \in Names : IsSuite(n)' => IsSuite(n) /\ doms'[n].uuid = doms[n].uuid

LEMMA OthersBringNone ==
    ASSUME TypeOK, Others
    PROVE  NoNewGuest
  BY OthersEffect
  DEF NoNewGuest, PoweredOff, AdminChanged, IsSuite, Present, AdminUuids

LEMMA SweepBringsNone ==
    ASSUME TypeOK, DestroyCur \/ UndefineCur
    PROVE  NoNewGuest
  BY SweepEffect DEF NoNewGuest, IsSuite, Present

(* Where the process holds guests by the ledger alone. *)
LEMMA HeldByLedger ==
    ASSUME TrackInv, pc \notin {"sweep", "destroy", "undefine", "defined"}
    PROVE  \A n \in Names : IsSuite(n) => doms[n].uuid \in ledger
  BY DEF TrackInv, Tracked, Held

LEMMA TrackStep ==
    ASSUME Benign
    PROVE  TrackInv /\ [Next]_vars => TrackInv'
<1> SUFFICES ASSUME TrackInv, [Next]_vars PROVE TrackInv'
  OBVIOUS
<1>0. /\ SpareInv /\ Tracked /\ XmlRecorded /\ FreshClean /\ Listed
      /\ Unlinked /\ CurIdle /\ TargetOff /\ TypeInv /\ TypeOK
  BY DEF TrackInv, SpareInv, TypeInv
<1>a. /\ "virsh-list" \notin Faults /\ "virsh-lookup" \notin Faults
      /\ "ssh-lookup" \notin Faults /\ "destroy" \notin Faults
      /\ "cim" \notin Faults
  BY DEF Benign
<1>b. SpareInv'
  BY <1>0, <1>a, SpareStep
<1> SUFFICES Tracked' /\ XmlRecorded' /\ FreshClean' /\ Listed'
             /\ Unlinked' /\ CurIdle' /\ TargetOff'
  BY <1>b DEF TrackInv
<1> USE <1>0
<1>1. CASE StartTest
  <2>1. pc = "off" /\ pc' = "names" /\ uri' = OptVirt
        /\ UNCHANGED <<doms, ledger, fresh, todo, uuidList, cur, xml>>
    BY <1>1 DEF StartTest
  <2>2. Connects(uri)'
    BY <2>1 DEF Connects
  <2>3. Tracked'
    BY <2>1, HeldByLedger DEF Tracked, Held, IsSuite, Present
  <2> QED BY <2>1, <2>2, <2>3
          DEF XmlRecorded, FreshClean, CleanPoint, Listed, Unlinked, CurIdle,
              TargetOff
<1>2. CASE Reclean
  <2>1. pc = "body" /\ fresh /\ pc' = "names"
        /\ UNCHANGED <<doms, ledger, fresh, todo, uuidList, cur, xml>>
    BY <1>2 DEF Reclean
  <2>2. NoGuests /\ NoGuests'
    BY <2>1 DEF FreshClean, CleanPoint, NoGuests, IsSuite, Present
  <2> QED BY <2>1, <2>2
          DEF Tracked, NoGuests, XmlRecorded, FreshClean, Listed, Unlinked,
              CurIdle, TargetOff
<1>3. CASE ListNames
  <2>1. /\ pc = "names" /\ pc' = "ids"
        /\ UNCHANGED <<doms, ledger, uri, fresh, uuidList, cur, xml>>
        /\ \/ ~Connects(uri)
           \/ todo' = Present(doms)
    BY <1>3, <1>a DEF ListNames, Lists
  <2>2. Tracked'
    BY <2>1, HeldByLedger DEF Tracked, Held, IsSuite, Present
  <2>3. Listed' /\ FreshClean'
    BY <2>1 DEF Listed, FreshClean, CleanPoint, NoGuests, CleanupPcs, Connects,
                IsSuite, Present
  <2> QED BY <2>1, <2>2, <2>3 DEF XmlRecorded, Unlinked, CurIdle, TargetOff
<1>4. CASE ListIds
  <2>1. /\ pc = "ids" /\ pc' = "read" /\ todo \subseteq todo'
        /\ UNCHANGED <<doms, ledger, uri, fresh, uuidList, cur, xml>>
    BY <1>4 DEF ListIds
  <2>2. Tracked'
    BY <2>1, HeldByLedger DEF Tracked, Held, IsSuite, Present
  <2>3. Listed' /\ FreshClean'
    BY <2>1 DEF Listed, FreshClean, CleanPoint, NoGuests, CleanupPcs, Connects,
                IsSuite, Present
  <2> QED BY <2>1, <2>2, <2>3 DEF XmlRecorded, Unlinked, CurIdle, TargetOff
<1>5. CASE ReadLedger
  <2>1. /\ pc = "read" /\ pc' = "sweep" /\ uuidList' = ledger
        /\ ledger' = {}
        /\ UNCHANGED <<doms, uri, fresh, todo, cur, xml>>
    BY <1>5 DEF ReadLedger
  <2>2. Tracked'
    BY <2>1, HeldByLedger DEF Tracked, Held, Listed, IsSuite, Present
  <2>3. FreshClean'
    BY <2>1 DEF FreshClean, CleanPoint, NoGuests, CleanupPcs, Connects,
                IsSuite, Present
  <2> QED BY <2>1, <2>2, <2>3 DEF XmlRecorded, Listed, Unlinked, CurIdle,
              TargetOff
<1>6. ASSUME NEW r \in todo, Visit(r)
      PROVE  Tracked' /\ XmlRecorded' /\ FreshClean' /\ Listed'
             /\ Unlinked' /\ CurIdle' /\ TargetOff'
  <2>1. /\ pc = "sweep" /\ pc' \in {"sweep", "destroy"}
        /\ cur = Blank /\ cur \notin Names
        /\ UNCHANGED <<doms, ledger, uri, fresh, uuidList, xml>>
        /\ todo' = todo \ {r} /\ r \in NextRefs
        /\ pc' = "sweep" => cur' = cur
    BY <1>6 DEF Visit, CurIdle
  <2>2. FreshClean'
    BY <2>1 DEF FreshClean, CleanPoint, NoGuests, CleanupPcs, Connects,
                IsSuite, Present
  <2>3. ASSUME NEW n \in Names, IsSuite(n) PROVE Held(n)'
    <3>1. doms[n].uuid \in ledger \/ (doms[n].uuid \in uuidList /\ n \in todo)
      BY <2>1, <2>3 DEF Tracked, Held
    <3>2. CASE doms[n].uuid \in ledger \/ n # r
      BY <2>1, <3>1, <3>2 DEF Held
    <3>3. CASE doms[n].uuid \in uuidList /\ n = r
      <4>1. Connects(uri)
        BY <2>1, <2>3 DEF FreshClean, CleanPoint, NoGuests, CleanupPcs
      <4>2. n \in Denoted(doms, r) /\ Denoted(doms, r) = {r}
        BY <2>3, <3>3, DenotedName DEF IsSuite, TypeOK
      <4>3. \A res : LooksUp(r, uri, res) => res = doms[n].uuid
        BY <1>a, <3>3, <4>1, <4>2 DEF LooksUp
      <4>4. pc' = "destroy" /\ cur' = r
        BY <1>6, <3>3, <4>3 DEF Visit
      <4> QED BY <2>1, <3>3, <4>4 DEF Held
    <3> QED BY <3>1, <3>2, <3>3
  <2>4. Tracked'
    BY <2>1, <2>3 DEF Tracked, IsSuite, Present
  <2> QED BY <2>1, <2>2, <2>4 DEF XmlRecorded, Listed, Unlinked, CurIdle,
              TargetOff
<1>7. CASE DestroyCur
  <2>1. /\ pc = "destroy" /\ pc' = "undefine"
        /\ UNCHANGED <<ledger, uri, fresh, todo, uuidList, cur, xml>>
        /\ NoNewGuest
    BY <1>7, SweepBringsNone DEF DestroyCur
  <2>2. Tracked'
    BY <2>1 DEF Tracked, Held, NoNewGuest
  <2>3. FreshClean'
    BY <2>1 DEF FreshClean, CleanPoint, NoGuests, CleanupPcs, Connects,
                NoNewGuest
  <2>4. TargetOff'
    <3>1. doms' = Destroyed(doms, Denoted(doms, cur))
      BY <1>7, <1>a DEF DestroyCur
    <3>2. ASSUME cur \in Names, IsSuite(cur)' PROVE ~doms'[cur].active
      <4>1. cur \in Denoted(doms, cur) /\ Denoted(doms, cur) \in SUBSET Present(doms)
        BY <2>1, <3>2 DEF NoNewGuest, IsSuite, Denoted
      <4>2. doms'[cur] # NoDom
        BY <3>2, <2>1 DEF IsSuite, Present
      <4> QED BY <3>1, <4>1, <4>2, DestroyedHost DEF TypeOK
    <3> QED BY <2>1, <3>2 DEF TargetOff
  <2> QED BY <2>1, <2>2, <2>3, <2>4 DEF XmlRecorded, Listed, Unlinked, CurIdle
<1>8. CASE UndefineCur
  <2>1. /\ pc = "undefine" /\ pc' = "sweep" /\ cur' = Blank
        /\ UNCHANGED <<ledger, uri, fresh, todo, uuidList, xml>>
        /\ NoNewGuest
    BY <1>8, SweepBringsNone DEF UndefineCur
  <2>2. FreshClean'
    BY <2>1 DEF FreshClean, CleanPoint, NoGuests, CleanupPcs, Connects,
                NoNewGuest
  <2>3. ASSUME NEW c \in Names, c = cur PROVE ~IsSuite(c)'
    <3>1. doms' = Undefined(doms, Denoted(doms, cur))
      BY <1>8, <1>a DEF UndefineCur
    <3>2. SUFFICES ASSUME IsSuite(c)' PROVE FALSE
      OBVIOUS
    <3>3. /\ IsSuite(c) /\ doms'[c] # NoDom /\ ~doms[c].active
      BY <2>1, <2>3, <3>2 DEF NoNewGuest, TargetOff, IsSuite, Present
    <3>4. c \in Denoted(doms, cur) /\ Denoted(doms, cur) \in SUBSET Present(doms)
      BY <2>3, <3>3 DEF IsSuite, Denoted
    <3> QED BY <3>1, <3>3, <3>4, UndefinedHost DEF TypeOK
  <2>4. Tracked'
    BY <2>1, <2>3 DEF Tracked, Held, NoNewGuest
  <2> QED BY <2>1, <2>2, <2>4 DEF XmlRecorded, Listed, Unlinked, CurIdle,
              TargetOff
<1>9. CASE EnterBody
  <2>1. /\ pc = "sweep" /\ pc' = "body" /\ todo = {} /\ cur = Blank
        /\ cur \notin Names
        /\ UNCHANGED <<doms, ledger, uri, todo, cur, xml>>
    BY <1>9 DEF EnterBody, CurIdle
  <2>2. NoGuests
    BY <2>1 DEF Tracked, Held, Unlinked, NoGuests
  <2>3. NoGuests' /\ Tracked'
    BY <2>1, <2>2 DEF NoGuests, Tracked, IsSuite, Present
  <2> QED BY <2>1, <2>3
          DEF XmlRecorded, FreshClean, Listed, Unlinked, CurIdle, TargetOff
<1>10. ASSUME ProcessEnds, pc \in {"names", "ids", "read", "body"}
       PROVE  Tracked' /\ XmlRecorded' /\ FreshClean' /\ Listed'
              /\ Unlinked' /\ CurIdle' /\ TargetOff'
  <2>1. /\ pc' = "off" /\ cur' = Blank /\ UNCHANGED <<doms, ledger>>
        /\ xml' = [n \in SuiteNames |-> NoUuid]
    BY <1>10 DEF ProcessEnds
  <2>2. Tracked'
    BY <1>10, <2>1, HeldByLedger DEF Tracked, Held, IsSuite, Present
  <2> QED BY <2>1, <2>2
          DEF XmlRecorded, FreshClean, CleanPoint, CleanupPcs, Listed,
              Unlinked, CurIdle, TargetOff
<1>11. ASSUME BodyStep,
              NEW n \in SuiteNames, NEW u \in SuiteUuids,
              NewXml(n, u) \/ CimDefine(n, u) \/ BodyCommand(n)
       PROVE  Tracked' /\ XmlRecorded' /\ FreshClean' /\ Listed'
              /\ Unlinked' /\ CurIdle' /\ TargetOff'
  <2>1. /\ pc = "body" /\ ~fresh' /\ cur = Blank
        /\ UNCHANGED <<uri, todo, uuidList>>
    BY <1>11 DEF BodyStep, CurIdle
  <2>2. \A m \in Names : IsSuite(m) => doms[m].uuid \in ledger
    BY <2>1, HeldByLedger
  <2>3. CASE NewXml(n, u)
    <3>1. /\ UNCHANGED <<doms, pc, cur>> /\ ledger' = ledger \cup {u}
          /\ xml' = [xml EXCEPT ![n] = u]
      BY <2>3 DEF NewXml
    <3>2. Tracked'
      BY <2>2, <3>1 DEF Tracked, Held, IsSuite, Present
    <3>3. XmlRecorded'
      BY <2>1, <3>1 DEF XmlRecorded, TypeOK
    <3> QED BY <2>1, <3>1, <3>2, <3>3
            DEF FreshClean, CleanPoint, CleanupPcs, Listed, Unlinked, CurIdle,
                TargetOff
  <2>4. CASE CimDefine(n, u)
    <3>1. /\ pc' = "defined" /\ cur' = n /\ UNCHANGED <<ledger, xml>>
          /\ doms' = Defined(doms, n, u)
      BY <2>4, <1>a DEF CimDefine
    <3>2. \A m \in Names \ {n} : doms'[m] = doms[m]
      BY <3>1 DEF Defined, TypeOK, HostMaps
    <3>3. Tracked'
      BY <2>2, <3>1, <3>2 DEF Tracked, Held, IsSuite, Present
    <3>4. XmlRecorded'
      BY <2>1, <3>1 DEF XmlRecorded
    <3> QED BY <2>1, <3>1, <3>3, <3>4
            DEF FreshClean, CleanPoint, CleanupPcs, Listed, Unlinked, CurIdle,
                TargetOff
  <2>5. CASE BodyCommand(n)
    <3>1. /\ UNCHANGED <<ledger, pc, cur, xml>>
          /\ xml[n] \in SuiteUuids /\ xml[n] # NoUuid
          /\ \A m \in Names \ {n} : doms'[m] = doms[m]
          /\ doms'[n] # NoDom =>
                \/ doms'[n].uuid = xml[n]
                \/ doms[n] # NoDom /\ doms'[n].uuid = doms[n].uuid
      BY <2>5, CommandEffect
    <3>2. xml[n] \in ledger
      BY <3>1 DEF XmlRecorded
    <3>3. Tracked'
      BY <2>2, <3>1, <3>2 DEF Tracked, Held, IsSuite, Present
    <3>4. XmlRecorded'
      BY <2>1, <3>1 DEF XmlRecorded
    <3> QED BY <2>1, <3>1, <3>3, <3>4
            DEF FreshClean, CleanPoint, CleanupPcs, Listed, Unlinked, CurIdle,
                TargetOff
  <2> QED BY <1>11, <2>3, <2>4, <2>5
<1>12. CASE RecordCim
  <2>1. /\ pc = "defined" /\ pc' = "body" /\ cur' = Blank
        /\ UNCHANGED <<doms, uri, fresh, todo, uuidList, xml>>
        /\ ledger' = ledger \cup {doms[cur].uuid}
    BY <1>12, <1>a, CimLookup DEF RecordCim
  <2>2. Tracked'
    BY <2>1 DEF Tracked, Held, IsSuite, Present
  <2>3. ~fresh
    BY <2>1 DEF CurIdle, DefinedOurs, TypeInv
  <2> QED BY <2>1, <2>2, <2>3
          DEF XmlRecorded, FreshClean, CleanPoint, CleanupPcs, Listed,
              Unlinked, CurIdle, TargetOff
<1>13. CASE Others
  <2>1. /\ UNCHANGED <<ledger, pc, uri, fresh, todo, uuidList, cur, xml>>
        /\ NoNewGuest
    BY <1>13, OthersEffect, OthersBringNone
  <2>2. Tracked'
    BY <2>1 DEF Tracked, Held, NoNewGuest
  <2>3. FreshClean' /\ Listed'
    BY <2>1 DEF FreshClean, CleanPoint, NoGuests, CleanupPcs, Connects, Listed,
                NoNewGuest
  <2>4. TargetOff'
    <3>1. ASSUME pc = "undefine", cur \in Names, IsSuite(cur)'
          PROVE  ~doms'[cur].active
      <4>1. IsSuite(cur) /\ ~doms[cur].active
        BY <2>1, <3>1 DEF NoNewGuest, TargetOff
      <4> QED BY <1>13, <3>1, <4>1, OthersEffect
              DEF PoweredOff, AdminChanged, IsSuite, Present
    <3> QED BY <2>1, <3>1 DEF TargetOff
  <2> QED BY <2>1, <2>2, <2>3, <2>4 DEF XmlRecorded, Unlinked, CurIdle
<1>14. CASE UNCHANGED vars
  BY <1>14 DEF vars, Tracked, Held, XmlRecorded, FreshClean, CleanPoint,
               NoGuests, Connects, Listed, Unlinked, CurIdle, TargetOff,
               IsSuite, Present
<1> QED
  <2>1. CASE ListingRaises \/ EndTest \/ Crash
    BY <2>1, <1>10 DEF ListingRaises, EndTest, Crash, Benign
  <2>2. ASSUME NEW n \in SuiteNames, NEW u \in SuiteUuids,
               NewXml(n, u) \/ CimDefine(n, u)
        PROVE  BodyStep
    BY <2>2 DEF NewXml, CimDefine
  <2>3. ASSUME NEW n \in SuiteNames, BodyCommand(n)
        PROVE  BodyStep /\ SuiteUuids # {}
    BY <2>3, CommandEffect
  <2> QED BY <1>1, <1>2, <1>3, <1>4, <1>5, <1>6, <1>7, <1>8, <1>9, <1>11,
             <1>12, <1>13, <1>14, <2>1, <2>2, <2>3
          DEF Next, Cleanup, Body, BodyCommand

LEMMA TrackInit == Init => TrackInv
<1> SUFFICES ASSUME Init PROVE TrackInv
  OBVIOUS
<1>1. \A n \in Names : ~IsSuite(n)
  BY DEF Init, IsSuite, Present, AdminUuids
<1> QED BY <1>1, SpareInit
        DEF Init, TrackInv, Tracked, XmlRecorded, FreshClean, NoGuests,
            Listed, Unlinked, CurIdle, TargetOff

(* Every guest on the host is in the ledger, in the hands of the running   *)
(* cleanup, or about to be recorded by cim_define: set_uuid records a uuid *)
(* before a guest can have it, and get_uuid_list unlinks the ledger only   *)
(* after every guest has been listed.                                      *)
THEOREM NoneForgotten ==
    ASSUME Benign
    PROVE  Spec => []Tracked
<1>1. TrackInv => Tracked
  BY DEF TrackInv
<1> QED BY <1>1, TrackInit, TrackStep, PTL DEF Spec

(* A body begins on a host without guests of the suite: "clean env for     *)
(* next testcase" (test_doms.py 127) is true of every script of every      *)
(* sequence of scripts that is disturbed in benign ways only.              *)
THEOREM BodyStartsClean ==
    ASSUME Benign
    PROVE  Spec => []CleanStart
<1>1. TrackInv => CleanStart
  BY DEF TrackInv, FreshClean, CleanPoint, NoGuests, CleanStart, SuiteGuests
<1> QED BY <1>1, TrackInit, TrackStep, PTL DEF Spec

(* do_main keeps the promise of CleanHost: no body is entered while a guest *)
(* of an earlier script is on the host.                                    *)
THEOREM HostKeptClean ==
    ASSUME Benign
    PROVE  Spec => KeepsHostClean
<1>1. Init => Promise!Init
  <2> SUFFICES ASSUME Init PROVE Promise!Init
    OBVIOUS
  <2>1. \A n \in Names : ~IsSuite(n)
    BY DEF Init, IsSuite, Present, AdminUuids
  <2> QED BY <2>1 DEF Init, Promise!Init, SuiteGuests, Phase
<1>2. TrackInv /\ [Next]_vars => [Promise!Next]_Promise!vars
  <2> SUFFICES ASSUME TrackInv, [Next]_vars
               PROVE  Promise!Next \/ UNCHANGED <<SuiteGuests, Phase>>
    BY DEF Promise!vars
  <2>0. TypeOK
    BY DEF TrackInv, SpareInv, TypeInv
  <2>1. doms' = doms => SuiteGuests' = SuiteGuests
    BY DEF SuiteGuests, IsSuite, Present
  <2>2. NoNewGuest => SuiteGuests' \subseteq SuiteGuests
    BY DEF NoNewGuest, SuiteGuests
  <2>3. CASE StartTest \/ Reclean
    BY <2>1, <2>3 DEF StartTest, Reclean, Phase, CleanupPcs, Promise!Next,
                      Promise!Clean
  <2>4. CASE ListNames \/ ListIds \/ ReadLedger
    BY <2>1, <2>4 DEF ListNames, ListIds, ReadLedger, Phase, CleanupPcs
  <2>5. ASSUME NEW r \in todo, Visit(r)
        PROVE  UNCHANGED <<SuiteGuests, Phase>>
    BY <2>1, <2>5 DEF Visit, Phase, CleanupPcs
  <2>6. CASE DestroyCur \/ UndefineCur
    <3>1. SuiteGuests' \subseteq SuiteGuests
      BY <2>0, <2>2, <2>6, SweepBringsNone
    <3>2. Phase' = Phase
      BY <2>6 DEF DestroyCur, UndefineCur, Phase, CleanupPcs
    <3> QED BY <3>1, <3>2 DEF Promise!Next, Promise!Lose
  <2>7. CASE EnterBody
    <3>1. pc = "sweep" /\ pc' = "body" /\ todo = {} /\ doms' = doms /\ cur = Blank
      BY <2>7 DEF EnterBody, TrackInv, CurIdle
    <3>2. NoGuests
      BY <3>1 DEF TrackInv, Tracked, Held, Unlinked, NoGuests
    <3>3. SuiteGuests = {}
      BY <3>2 DEF SuiteGuests, NoGuests
    <3> QED BY <2>1, <3>1, <3>3
            DEF Phase, CleanupPcs, Promise!Next, Promise!Enter
  <2>8. CASE ProcessEnds
    BY <2>1, <2>8 DEF ProcessEnds, Phase, Promise!Next, Promise!Stop
  <2>9. ASSUME NEW n \in SuiteNames, NEW u \in SuiteUuids, NewXml(n, u)
        PROVE  UNCHANGED <<SuiteGuests, Phase>>
    BY <2>1, <2>9 DEF NewXml, Phase
  <2>10. ASSUME NEW n \in SuiteNames, NEW u \in SuiteUuids,
                pc = "body", pc' \in {"body", "defined"},
                n \in Names,
                \A m \in Names \ {n} : doms'[m] = doms[m],
                IsSuite(n)' => \/ doms'[n].uuid = u
                               \/ IsSuite(n) /\ doms'[n].uuid = doms[n].uuid
         PROVE  Promise!Next
    <3>1. Phase = "testing" /\ Phase' = "testing"
      BY <2>10 DEF Phase, CleanupPcs
    <3>2. \A m \in Names \ {n} : IsSuite(m)' <=> IsSuite(m)
      BY <2>10 DEF IsSuite, Present
    <3>3. SuiteGuests' \subseteq SuiteGuests \cup {u}
      BY <2>10, <3>2 DEF SuiteGuests
    <3> QED BY <3>1, <3>3 DEF Promise!Next, Promise!Make
  <2>11. ASSUME NEW n \in SuiteNames, NEW u \in SuiteUuids, CimDefine(n, u)
         PROVE  Promise!Next
    <3>1. /\ pc = "body" /\ pc' \in {"body", "defined"} /\ n \in Names
          /\ doms' = Defined(doms, n, u)
      BY <2>11 DEF CimDefine, BodyStep
    <3>2. /\ \A m \in Names \ {n} : doms'[m] = doms[m]
          /\ doms'[n].uuid = u
      BY <2>0, <3>1 DEF Defined, TypeOK, HostMaps
    <3> QED BY <2>10, <3>1, <3>2
  <2>12. ASSUME NEW n \in SuiteNames, BodyCommand(n) PROVE Promise!Next
    <3>1. /\ pc = "body" /\ pc' = pc /\ n \in Names /\ xml[n] \in SuiteUuids
          /\ \A m \in Names \ {n} : doms'[m] = doms[m]
          /\ doms'[n] # NoDom =>
                \/ doms'[n].uuid = xml[n]
                \/ doms[n] # NoDom /\ doms'[n].uuid = doms[n].uuid
      BY <2>0, <2>12, CommandEffect DEF BodyStep
    <3>2. IsSuite(n)' => \/ doms'[n].uuid = xml[n]
                         \/ IsSuite(n) /\ doms'[n].uuid = doms[n].uuid
      BY <3>1 DEF IsSuite, Present
    <3> QED BY <2>10, <3>1, <3>2
  <2>13. CASE RecordCim
    BY <2>1, <2>13 DEF RecordCim, Phase, CleanupPcs
  <2>14. CASE Others
    <3>1. SuiteGuests' \subseteq SuiteGuests /\ Phase' = Phase
      BY <2>0, <2>2, <2>14, OthersBringNone, OthersEffect DEF Phase
    <3> QED BY <3>1 DEF Promise!Next, Promise!Lose
  <2>15. CASE UNCHANGED vars
    BY <2>1, <2>15 DEF vars, Phase
  <2> QED BY <2>3, <2>4, <2>5, <2>6, <2>7, <2>8, <2>9, <2>11, <2>12, <2>13,
             <2>14, <2>15
          DEF Next, Cleanup, Body, BodyCommand, ListingRaises, EndTest, Crash
<1> QED BY <1>1, <1>2, TrackInit, TrackStep, PTL
        DEF Spec, KeepsHostClean, Promise!Spec
-----------------------------------------------------------------------------
(***************************************************************************)
(* Cleanup gets to its end: its work is a finite set of steps, each step   *)
(* of Cleanup takes one out at least, and nobody puts one back.  That the  *)
(* steps are taken is the fairness of FairSpec, which TLC uses for         *)
(* CleanupEnds.                                                            *)
(***************************************************************************)
Places == {"names", "ids", "read", "visit", "destroy", "undefine", "leave"}

(* What is still to do before the loop, and for the domain at hand. *)
Listing == CASE pc = "names" -> {"names", "ids", "read"}
             [] pc = "ids"   -> {"ids", "read"}
             [] pc = "read"  -> {"read"}
             [] OTHER        -> {}
AtHand  == CASE pc = "destroy"  -> {"destroy", "undefine"}
             [] pc = "undefine" -> {"undefine"}
             [] OTHER           -> {}

(* The step at place p is still ahead, for the entry r of the lists where  *)
(* there is one step for each; before the loop an entry may be anything.   *)
Ahead(p, r) ==
    \/ p \in Listing
    \/ /\ p \in {"visit", "destroy", "undefine"} /\ pc \in CleanupPcs
       /\ Listing # {} \/ r \in todo
    \/ p \in AtHand /\ r = cur
    \/ p = "leave" /\ pc \in CleanupPcs

Entries == Refs \cup {Blank}
Work    == {s \in Places \X Entries : Ahead(s[1], s[2])}

(* The domain at hand is not to be visited again. *)
CurTaken == pc \in {"destroy", "undefine"} => cur \in Refs \ todo

LEMMA WorkFinite ==
    ASSUME IsFiniteSet(Names), IsFiniteSet(Uuids)
    PROVE  IsFiniteSet(Work)
<1>1. IsFiniteSet(Places)
  <2>1. Places = {"names"} \cup {"ids"} \cup {"read"} \cup {"visit"}
                   \cup {"destroy"} \cup {"undefine"} \cup {"leave"}
    BY DEF Places
  <2> QED BY <2>1, FS_Singleton, FS_Union
<1>2. IsFiniteSet(Entries)
  BY FS_Singleton, FS_Union DEF Entries, Refs
<1>3. IsFiniteSet(Places \X Entries)
  BY <1>1, <1>2, FS_Product
<1> QED BY <1>3, FS_Subset DEF Work

(* What is enough for a step to take something out of the work. *)
NoneBack == \A p \in Places, r \in Entries : Ahead(p, r)' => Ahead(p, r)
OneOut   == \E p \in Places, r \in Entries : Ahead(p, r) /\ ~Ahead(p, r)'

LEMMA WorkShrinks ==
    /\ NoneBack => Work' \subseteq Work
    /\ OneOut => Work' # Work
<1>1. ASSUME NoneBack PROVE Work' \subseteq Work
  BY <1>1 DEF NoneBack, Work
<1>2. ASSUME OneOut PROVE Work' # Work
  <2>1. PICK p \in Places, r \in Entries : Ahead(p, r) /\ ~Ahead(p, r)'
    BY <1>2 DEF OneOut
  <2>2. <<p, r>> \in Work /\ <<p, r>> \notin Work'
    BY <2>1 DEF Work
  <2> QED BY <2>2
<1> QED BY <1>1, <1>2

LEMMA CleanupNearer ==
    ASSUME TypeOK, CurTaken, Cleanup
    PROVE  NoneBack /\ OneOut /\ CurTaken'
<1> USE DEF CurTaken, NoneBack, OneOut, Ahead, Listing, AtHand, CleanupPcs,
            Places, Entries
<1>1. CASE ListNames
  <2>1. Ahead("names", Blank) /\ ~Ahead("names", Blank)'
    BY <1>1 DEF ListNames
  <2>2. NoneBack
    BY <1>1 DEF ListNames
  <2> QED BY <1>1, <2>1, <2>2 DEF ListNames
<1>2. CASE ListIds
  <2>1. Ahead("ids", Blank) /\ ~Ahead("ids", Blank)'
    BY <1>2 DEF ListIds
  <2>2. NoneBack
    BY <1>2 DEF ListIds
  <2> QED BY <1>2, <2>1, <2>2 DEF ListIds
<1>3. CASE ReadLedger
  <2>1. Ahead("read", Blank) /\ ~Ahead("read", Blank)'
    BY <1>3 DEF ReadLedger
  <2>2. NoneBack
    BY <1>3 DEF ReadLedger
  <2> QED BY <1>3, <2>1, <2>2 DEF ReadLedger
<1>4. ASSUME NEW r \in todo, Visit(r)
      PROVE  NoneBack /\ OneOut /\ CurTaken'
  <2>1. /\ pc = "sweep" /\ todo' = todo \ {r} /\ r \in Refs
        /\ \/ pc' = "destroy" /\ cur' = r
           \/ pc' = pc /\ cur' = cur
    BY <1>4 DEF Visit, TypeOK
  <2>2. Ahead("visit", r) /\ ~Ahead("visit", r)'
    BY <2>1
  <2>3. NoneBack
    BY <2>1
  <2> QED BY <2>1, <2>2, <2>3
<1>5. CASE DestroyCur
  <2>1. Ahead("destroy", cur) /\ ~Ahead("destroy", cur)'
    BY <1>5 DEF DestroyCur
  <2>2. NoneBack
    BY <1>5 DEF DestroyCur
  <2> QED BY <1>5, <2>1, <2>2 DEF DestroyCur
<1>6. CASE UndefineCur
  <2>1. PICK r \in Entries : r = cur
    BY <1>6 DEF UndefineCur
  <2>2. Ahead("undefine", r) /\ ~Ahead("undefine", r)'
    BY <1>6, <2>1 DEF UndefineCur
  <2>3. NoneBack
    BY <1>6 DEF UndefineCur
  <2> QED BY <1>6, <2>2, <2>3 DEF UndefineCur
<1>7. CASE EnterBody
  <2>1. Ahead("leave", Blank) /\ ~Ahead("leave", Blank)'
    BY <1>7 DEF EnterBody
  <2>2. NoneBack
    BY <1>7 DEF EnterBody
  <2> QED BY <1>7, <2>1, <2>2 DEF EnterBody
<1> QED BY <1>1, <1>2, <1>3, <1>4, <1>5, <1>6, <1>7 DEF Cleanup

(* No other step touches the lists; it ends the process, or leaves it      *)
(* where it is.                                                            *)
LEMMA OthersAside ==
    ASSUME CurTaken, [Next]_vars, ~Cleanup
    PROVE  CurTaken' /\ (pc \in CleanupPcs => NoneBack)
<1>1. CASE StartTest \/ Reclean \/ RecordCim \/ EndTest
  <2>1. pc \notin CleanupPcs /\ pc' \notin {"destroy", "undefine"}
    BY <1>1 DEF StartTest, Reclean, RecordCim, EndTest, ProcessEnds,
                CleanupPcs
  <2> QED BY <2>1 DEF CurTaken
<1>2. CASE ListingRaises \/ Crash
  BY <1>2 DEF ListingRaises, Crash, ProcessEnds, CurTaken, NoneBack, Ahead,
              Listing, AtHand, CleanupPcs
<1>3. ASSUME NEW n \in SuiteNames, NEW u \in SuiteUuids,
             NewXml(n, u) \/ CimDefine(n, u)
      PROVE  CurTaken' /\ pc \notin CleanupPcs
  BY <1>3 DEF NewXml, CimDefine, BodyStep, CurTaken, CleanupPcs
<1>4. ASSUME NEW n \in SuiteNames, BodyCommand(n)
      PROVE  CurTaken' /\ pc \notin CleanupPcs
  BY <1>4 DEF BodyCommand, Define, Create, Start, Destroy, Undefine,
              CimDestroy, Command, BodyStep, CurTaken, CleanupPcs
<1>5. CASE Others \/ UNCHANGED vars
  <2>1. pc' = pc /\ todo' = todo /\ cur' = cur
    BY <1>5 DEF Others, GuestPowersOff, AdminDefine, AdminStart,
                AdminRemove, AdminStep, sweep, vars
  <2> QED BY <2>1 DEF CurTaken, NoneBack, Ahead, Listing, AtHand
<1> QED BY <1>1, <1>2, <1>3, <1>4, <1>5 DEF Next, Body, BodyCommand

(* On a host with finitely many domains destroy_and_undefine_all takes     *)
(* finitely many steps, and with the last of them the script gets to its   *)
(* body, whatever fails and whatever the guests and the administrator do   *)
(* meanwhile.                                                              *)
THEOREM CleanupIsShort ==
    ASSUME IsFiniteSet(Names), IsFiniteSet(Uuids)
    PROVE  Spec => /\ [](IsFiniteSet(Work) /\ (Work = {} <=> pc \notin CleanupPcs))
                   /\ [][(pc \in CleanupPcs) =>
                            Work' \subseteq Work /\ (Cleanup => Work' # Work)]_vars
<1>1. Init => CurTaken
  BY DEF Init, CurTaken
<1>2. TypeOK /\ CurTaken /\ [Next]_vars =>
        /\ CurTaken'
        /\ [(pc \in CleanupPcs) =>
                Work' \subseteq Work /\ (Cleanup => Work' # Work)]_vars
  BY CleanupNearer, OthersAside, WorkShrinks
<1>3. IsFiniteSet(Work) /\ (Work = {} <=> pc \notin CleanupPcs)
  <2>1. CASE pc \in CleanupPcs
    <3>1. <<"leave", Blank>> \in Work
      BY <2>1 DEF Work, Ahead, Places, Entries
    <3> QED BY <2>1, <3>1, WorkFinite
  <2>2. CASE pc \notin CleanupPcs
    <3>1. \A p \in Places, r \in Entries : ~Ahead(p, r)
      BY <2>2 DEF Ahead, Listing, AtHand, CleanupPcs
    <3> QED BY <2>2, <3>1, WorkFinite DEF Work
  <2> QED BY <2>1, <2>2
<1> QED BY <1>1, <1>2, <1>3, TypeCorrect, PTL DEF Spec
=============================================================================
