--------------------------- MODULE MCGuestLedger ---------------------------
(***************************************************************************)
(* Instances of GuestLedger: guests "g1" and "g2", of which "g2" is also a *)
(* name the administrator uses, and a domain "adm" of the administrator.   *)
(***************************************************************************)
EXTENDS GuestLedger

MCSuiteNames == {"g1", "g2"}
MCAdminNames == {"adm", "g2"}
MCNames == MCSuiteNames \cup MCAdminNames

(* Every fault but a failing lookup through virsh, killed anywhere. *)
MostFaults == AllFaults \ {"virsh-lookup"}
Anywhere == Pcs

(* Killed only where nothing is lost: before the ledger is unlinked and in *)
(* the body.                                                               *)
SafePoints == {"names", "ids", "read", "body"}
=============================================================================
