--------------------------- MODULE CustomerJourney ---------------------------
(***************************************************************************)
(* What the CRM promises about one application, whatever endpoints moved   *)
(* it: a journey through stages.  A prospect is screened, possibly         *)
(* rejected and re-opened, sold to, invoiced, served and closed.  Nothing  *)
(* comes back across the payment gate: once production began the customer  *)
(* is never a prospect again, and a closed journey is over.                *)
(***************************************************************************)
CONSTANT Apps

VARIABLE stage

Stage == {"none", "screening", "rejected", "sales", "invoiced",
          "production", "delivery", "completed", "cancelled"}

Init == stage = [a \in Apps |-> "none"]

Go(a, from, to) == /\ stage[a] \in from
                   /\ stage' = [stage EXCEPT ![a] = to]

Submit(a)   == Go(a, {"none"}, "screening")
Reject(a)   == Go(a, {"screening"}, "rejected")
Reopen(a)   == Go(a, {"rejected"}, "screening")
Qualify(a)  == Go(a, {"screening"}, "sales")
Requalify(a) == Go(a, {"sales"}, "screening")
Invoice(a)  == Go(a, {"sales"}, "invoiced")
Produce(a)  == Go(a, {"invoiced"}, "production")
Deliver(a)  == Go(a, {"production"}, "delivery")
Rework(a)   == Go(a, {"delivery"}, "production")
Complete(a) == Go(a, {"delivery"}, "completed")
GiveUp(a)   == Go(a, {"production"}, "cancelled")

Next == \E a \in Apps :
          \/ Submit(a) \/ Reject(a) \/ Reopen(a) \/ Qualify(a)
          \/ Requalify(a) \/ Invoice(a) \/ Produce(a) \/ Deliver(a)
          \/ Rework(a) \/ Complete(a) \/ GiveUp(a)

Spec == Init /\ [][Next]_stage
=============================================================================
