----------------------------- MODULE CleanHost -----------------------------
(***************************************************************************)
(* What do_main promises of a host: between scripts and during the body of *)
(* a script guests come and go, but a body is never entered on a host that *)
(* still has a guest of an earlier script.                                 *)
(***************************************************************************)
CONSTANT Guests

VARIABLES guests,   \* the guests of the suite on the host
          phase     \* "idle", "cleaning" before a body, or "testing" in one

vars == <<guests, phase>>

TypeOK == guests \subseteq Guests /\ phase \in {"idle", "cleaning", "testing"}

Init == guests = {} /\ phase = "idle"

Clean == /\ phase # "cleaning"
         /\ phase' = "cleaning" /\ UNCHANGED guests

(* The promise. *)
Enter == /\ phase = "cleaning" /\ guests = {}
         /\ phase' = "testing" /\ UNCHANGED guests

(* A body makes guests one at a time, and may lose others. *)
Make == /\ phase = "testing"
        /\ \E g \in Guests : guests' \subseteq guests \cup {g}
        /\ UNCHANGED phase

Lose == /\ guests' \subseteq guests
        /\ UNCHANGED phase

Stop == phase' = "idle" /\ UNCHANGED guests

Next == Clean \/ Enter \/ Make \/ Lose \/ Stop

Spec == Init /\ [][Next]_vars
=============================================================================
