------------------------------- MODULE Files --------------------------------
(***************************************************************************)
(* A file that is written with std::fs::write, as the keystore, the        *)
(* genesis file, the configuration and the meter's file are: it is emptied *)
(* and then filled.  What is left when that is cut short exists and does   *)
(* not parse; it is Torn.                                                  *)
(***************************************************************************)
EXTENDS Naturals

CONSTANTS
    Absent,        \* there is no file
    Torn,          \* there is one, which does not parse
    FileFaults     \* "crash": a crash may cut a write short,
                   \* "error": a write or a read may fail

ASSUME FilesAssumption ==
    /\ Absent # Torn
    /\ Absent \notin Nat /\ Torn \notin Nat
    /\ FileFaults \subseteq {"crash", "error"}

\* What a write of new returns to: an error may come before the file is
\* emptied or after.
Written(old, new) ==
    {new} \cup (IF "error" \in FileFaults THEN {old, Torn} ELSE {})

\* What a read has to go on: after an error there is nothing to parse.
Read(file) == {file} \cup (IF "error" \in FileFaults THEN {Torn} ELSE {})

\* What a crash during that write leaves.
CutShort(old, new) ==
    {old} \cup (IF "crash" \in FileFaults THEN {Torn, new} ELSE {})
=============================================================================
