--------------------------- MODULE MigrationFiles ---------------------------
(***************************************************************************)
(* The migration files, in the order of their names.  A file is its number *)
(* in that order and a statement is its place in a file.                   *)
(***************************************************************************)
EXTENDS Naturals

CONSTANTS
  Instances,
  LastFile,      \* the number of files
  Length         \* of each file: its statements

Files == 1..LastFile
Statements(f) == {f} \X (1..Length[f])
UpTo(v) == UNION {Statements(f) : f \in 1..v}

ASSUME FilesAssumption == LastFile \in Nat /\ Length \in [Files -> Nat \ {0}]
=============================================================================
