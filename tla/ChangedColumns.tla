--------------------------- MODULE ChangedColumns ---------------------------
(***************************************************************************)
(* The ORM's unit of work, by what a session will write: the UPDATE of a   *)
(* commit names the columns whose value differs from the one loaded, and   *)
(* says Keep of the others, which keep what other sessions have committed. *)
(* (UnitOfWork says the same by the values a session loaded.)              *)
(***************************************************************************)
CONSTANT Keep

\* What an UPDATE says of a column, and the value it leaves there.
Dirty(loaded, new) == IF new = loaded THEN Keep ELSE new
Written(current, change) == IF change = Keep THEN current ELSE change
=============================================================================
