------------------------------ MODULE SetAside ------------------------------
(***************************************************************************)
(* What the suite promises of a file of the host's that it puts one of its *)
(* own in the place of: the host's own content is either in its place or   *)
(* set aside, never in neither and never in both, and when the suite is    *)
(* through with the file it is in its place.  /etc/libvirt/diskpool.conf   *)
(* (SuiteRun), /etc/exports (NetfsPool) and the image of a guest on the    *)
(* target of its migration (Migration) are such files.                     *)
(***************************************************************************)
CONSTANTS Contents,  \* what a file may hold, or that there is none
          Theirs,    \* the host's own content
          Absent     \* no file

VARIABLES had,    \* the host had such a file
          file,   \* what is in its place
          aside,  \* what is in the backup
          busy    \* the suite is at work on the file

vars == <<had, file, aside, busy>>

Init ==
    /\ had \in BOOLEAN /\ file = IF had THEN Theirs ELSE Absent
    /\ aside = Absent /\ busy = FALSE

Home == (had => file = Theirs) /\ aside # Theirs

(* The host's content goes aside, and comes back. *)
Away == file = Theirs /\ file' # Theirs /\ aside # Theirs /\ aside' = Theirs
Back == file # Theirs /\ file' = Theirs /\ aside = Theirs /\ aside' # Theirs

(* Anything else may be made, written, moved and removed. *)
Use == (file' = Theirs <=> file = Theirs) /\ (aside' = Theirs <=> aside = Theirs)

Next ==
    /\ busy \/ busy'
    /\ file' \in Contents /\ aside' \in Contents
    /\ Away \/ Back \/ Use
    /\ ~busy' => Home'
    /\ UNCHANGED had

Spec == Init /\ [][Next]_vars
=============================================================================
