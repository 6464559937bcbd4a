----------------------------- MODULE MCRequests -----------------------------
(***************************************************************************)
(* Requests that overlap, about rows that Stripe, Calendly, customers and  *)
(* an admin all move: subscriptions, the reset of their passwords, the     *)
(* times of calls and the meetings of applicants, with small values for    *)
(* TLC.  Of the rows of subscriptions a reset knows the addresses, which   *)
(* AddressIsKept says it may rely on; otherwise the four share no state,   *)
(* and a behaviour is about one of them.                                   *)
(***************************************************************************)
EXTENDS Subscription, PasswordReset, CallSlots, Meetings, TLC

VARIABLE part   \* which of the four a behaviour is about

OnePrice == [p \in {"pro price"} |-> "pro"]
OneAddress == [s \in Subs |-> "ann@example.com"]

\* The second lies within the first, and begins later.
TwoSlots == {[start |-> 0, length |-> 2], [start |-> 1, length |-> 1]}

PartsInit ==
  /\ Init /\ ResetInit /\ SlotInit /\ MeetingInit
  /\ part \in {"subscription", "reset", "slots", "meetings"}

PartsNext ==
  \/ part = "subscription" /\ Next /\ UNCHANGED <<part, resetVars, slotVars, meetingVars>>
  \/ part = "reset" /\ ResetNext /\ UNCHANGED <<part, vars, slotVars, meetingVars>>
  \/ part = "slots" /\ SlotNext /\ UNCHANGED <<part, vars, resetVars, meetingVars>>
  \/ part = "meetings" /\ MeetingNext /\ UNCHANGED <<part, vars, resetVars, slotVars>>

PartsSpec == PartsInit /\ [][PartsNext]_<<part, vars, resetVars, slotVars, meetingVars>>

PartsTypeOK == TypeOK /\ ResetTypeOK /\ SlotTypeOK /\ MeetingTypeOK

\* Sound: no temporal property with fairness is checked.  Workers, desks and handlers have
\* the same names as requests, and applications those of addresses: each part uses its own.
Symmetry == Permutations(Requests) \union Permutations(Tokens) \union Permutations(Apps)
=============================================================================
