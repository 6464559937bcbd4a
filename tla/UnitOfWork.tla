----------------------------- MODULE UnitOfWork -----------------------------
(***************************************************************************)
(* What the ORM's unit of work writes.  A handler sets attributes of the   *)
(* object it loaded; the UPDATE of its commit names only the attributes    *)
(* whose value differs from the one loaded.  Every other column keeps      *)
(* what other sessions have committed in the meantime.                     *)
(***************************************************************************)

\* The value an UPDATE leaves in a column.
Merged(current, loaded, new) == IF new = loaded THEN current ELSE new
=============================================================================
