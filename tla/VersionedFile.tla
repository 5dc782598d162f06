--------------------------- MODULE VersionedFile ---------------------------
(***************************************************************************)
(* What every transactional writer of the program promises about the file  *)
(* it manages, with the transaction machinery left out: a version that was *)
(* reported to the operator may be replaced only after it has been copied  *)
(* to the backup store, and a version becomes reported only while it is    *)
(* the content of the file.                                                *)
(***************************************************************************)
CONSTANTS Version, Absent

VARIABLES
    file,       \* content of the managed file, or Absent
    backups,    \* contents in the backup store
    settled     \* contents reported as the file's content

Init ==
    /\ file \in Version \union {Absent}
    /\ backups = {}
    /\ settled = {file} \ {Absent}

Keep ==
    /\ file # Absent
    /\ backups' = backups \union {file}
    /\ UNCHANGED <<file, settled>>

Replace ==
    /\ file \in settled => file \in backups
    /\ file' \in Version
    /\ UNCHANGED <<backups, settled>>

Report ==
    /\ file # Absent
    /\ settled' = settled \union {file}
    /\ UNCHANGED <<file, backups>>

Next == Keep \/ Replace \/ Report

Spec == Init /\ [][Next]_<<file, backups, settled>>
=============================================================================
