---------------------------- MODULE FileContents ----------------------------
(* What a file of the current-user directory can hold.                     *)
CONSTANTS Values,          \* payloads
          Absent           \* the file does not exist

ASSUME ValuesAssumption == Absent \notin Values

Contents == Values \cup {Absent}
=============================================================================
