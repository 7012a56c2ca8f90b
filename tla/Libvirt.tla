------------------------------ MODULE Libvirt ------------------------------
(***************************************************************************)
(* The domains of one hypervisor host, as far as the suite can tell them   *)
(* apart through virsh and the CIM providers.  libvirt is not part of this *)
(* repository: these operators say what the virsh commands run by          *)
(* XenKvmLib/vxml.py and XenKvmLib/test_doms.py do to the host.  A domain  *)
(* map `d` takes every domain name to a domain or to NoDom.                *)
(***************************************************************************)
EXTENDS FiniteSets

CONSTANTS Names,    \* domain names a host may carry
          Uuids,    \* domain uuids
          NoDom     \* the value of a name no domain has

ASSUME RefsDistinct == Names \cap Uuids = {}

Domain == [uuid : Uuids, active : BOOLEAN, persistent : BOOLEAN]

ASSUME NoDomAssumption == NoDom \notin Domain

HostMaps == [Names -> Domain \cup {NoDom}]

(* The domains that exist, and the uuids they hold. *)
Present(d)   == {n \in Names : d[n] # NoDom}
UuidsOf(d)   == {d[n].uuid : n \in Present(d)}
Active(d)    == {n \in Present(d) : d[n].active}

(* What a virsh argument refers to: a name, or the id of a running domain. *)
(* An id lives as long as the domain runs, so it is written as the uuid of *)
(* the domain it was listed for and refers to nothing once that domain is  *)
(* off.                                                                    *)
Refs == Names \cup Uuids
Denoted(d, r) ==
    {n \in Present(d) : n = r \/ (n \in Active(d) /\ d[n].uuid = r)}

(* virsh refuses a second domain of a name or of a uuid, and takes a       *)
(* definition again when both agree.                                       *)
Accepts(d, n, u) ==
    \/ d[n] = NoDom /\ u \notin UuidsOf(d)
    \/ d[n] # NoDom /\ d[n].uuid = u

(* The domain of name n after a command that changes it alone. *)
Defined(d, n, u) ==
    [d EXCEPT ![n] = [uuid |-> u, active |-> n \in Active(d),
                      persistent |-> TRUE]]
Created(d, n, u) ==
    [d EXCEPT ![n] = [uuid |-> u, active |-> TRUE,
                      persistent |-> n \in Present(d) /\ d[n].persistent]]
Started(d, n) == [d EXCEPT ![n].active = TRUE]

(* A domain that is neither running nor persistent is gone. *)
Kept(dom) == IF dom.active \/ dom.persistent THEN dom ELSE NoDom

(* virsh destroy, and virsh undefine, of every domain named by the         *)
(* argument (none or one).                                                 *)
Destroyed(d, S) ==
    [n \in Names |-> IF n \in S THEN Kept([d[n] EXCEPT !.active = FALSE])
                                ELSE d[n]]
Undefined(d, S) ==
    [n \in Names |-> IF n \in S THEN Kept([d[n] EXCEPT !.persistent = FALSE])
                                ELSE d[n]]
=============================================================================
