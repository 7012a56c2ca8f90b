--------------------------- MODULE MCIndications ---------------------------
(***************************************************************************)
(* Instances of Indications: the two kinds of                              *)
(* RASDIndications/01_guest_states_rasd_ind.py.                            *)
(***************************************************************************)
EXTENDS Indications

MCKinds == {"create", "delete"}
=============================================================================
