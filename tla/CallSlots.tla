----------------------------- MODULE CallSlots -----------------------------
(***************************************************************************)
(* The times of the calls with applicants, which the admin books by hand   *)
(* and which must be free.  Lifecycle has the statuses and the audit log   *)
(* of the same handlers, Meetings has Calendly's meetings; here a handler  *)
(* other than book_call only moves the status.  Start and duration are one *)
(* value, a slot.                                                          *)
(***************************************************************************)
EXTENDS Naturals, UnitOfWork

CONSTANTS
  Apps,
  Slots,         \* the starts and lengths the admin may enter
  Desks,         \* requests in flight
  NoSlot, Free

ASSUME SlotsAssumption == Slots \subseteq [start : Nat, length : Nat \ {0}] /\ NoSlot \notin Slots

VARIABLES
  booking,       \* status and interview_start_time of each application
  desk,          \* what each handler loaded and is about to write
  rushed,        \* history: applications booked while another handler committed
  left           \* history: those that were neither APPROVED nor CALLED since

slotVars == <<booking, desk, rushed, left>>

Occupying == {"APPROVED", "CALLED"}
CallStatus == Occupying \union {"UNDER_REVIEW", "AWAITING_PAYMENT"}
Booking == [status : CallStatus, slot : Slots \union {NoSlot}]
Task == [app : Apps, loaded : Booking, new : Booking, books : BOOLEAN,
         seen : SUBSET (Apps \X Slots)]

ASSUME FreeAssumption == Free \notin Task

SlotInit ==
  /\ booking = [a \in Apps |-> [status |-> "APPROVED", slot |-> NoSlot]]
  /\ desk = [d \in Desks |-> Free]
  /\ rushed = {} /\ left = {}
-----------------------------------------------------------------------------
\* The bookings that occupy a time: of every other application in the two statuses.
Existing(a) ==
  {<<b, booking[b].slot>> : b \in {c \in Apps \ {a} : booking[c].status \in Occupying
                                                       /\ booking[c].slot # NoSlot}}

\* Fault: a booking that began earlier is taken to be over.
OverlapsLaterOnly(s, o) == s.start <= o.start /\ o.start < s.start + s.length

Overlaps(s, o) == s.start < o.start + o.length /\ o.start < s.start + s.length

Hold(d, a, new, books, seen) ==
  /\ desk[d] = Free
  /\ desk' = [desk EXCEPT ![d] =
       [app |-> a, loaded |-> booking[a], new |-> new, books |-> books, seen |-> seen]]
  /\ UNCHANGED <<booking, rushed, left>>

\* book_call up to its commit.
BookCall(d, a, s) ==
  /\ booking[a].status = "APPROVED"
  /\ \A e \in Existing(a) : ~Overlaps(s, e[2])
  /\ Hold(d, a, [status |-> "CALLED", slot |-> s], TRUE, Existing(a))

\* The other handlers that move an application between the statuses around a call: the
\* status endpoint, the approval, the payment link and Calendly's events.  All leave the
\* time, and that of a cancelled meeting goes on to occupy its slot.
OtherMove(d, a, to) ==
  /\ <<booking[a].status, to>> \in
       {<<"APPROVED", "UNDER_REVIEW">>, <<"UNDER_REVIEW", "APPROVED">>,
        <<"APPROVED", "CALLED">>, <<"CALLED", "APPROVED">>,
        <<"APPROVED", "AWAITING_PAYMENT">>, <<"CALLED", "AWAITING_PAYMENT">>}
  /\ Hold(d, a, [booking[a] EXCEPT !.status = to], FALSE, {})

MergedBooking(t) ==
  [status |-> Merged(booking[t.app].status, t.loaded.status, t.new.status),
   slot |-> Merged(booking[t.app].slot, t.loaded.slot, t.new.slot)]

\* The commit.  A booking was rushed when the row or the occupied times are not those it read.
CommitDesk(d) ==
  /\ desk[d] # Free
  /\ LET t == desk[d]
         a == t.app
         new == MergedBooking(t)
     IN /\ booking' = [booking EXCEPT ![a] = new]
        /\ rushed' = IF ~t.books THEN rushed
                    ELSE IF booking[a] = t.loaded /\ Existing(a) = t.seen THEN rushed \ {a}
                    ELSE rushed \union {a}
        /\ left' = IF new.status \notin Occupying THEN left \union {a}
                   ELSE IF t.books THEN left \ {a} ELSE left
  /\ desk' = [desk EXCEPT ![d] = Free]

\* A refused slot, an exception or the death of the process.
DropDesk(d) ==
  /\ desk[d] # Free
  /\ desk' = [desk EXCEPT ![d] = Free]
  /\ UNCHANGED <<booking, rushed, left>>

SlotNext ==
  \/ \E d \in Desks, a \in Apps, s \in Slots : BookCall(d, a, s)
  \/ \E d \in Desks, a \in Apps, to \in CallStatus : OtherMove(d, a, to)
  \/ \E d \in Desks : CommitDesk(d) \/ DropDesk(d)

SlotSpec == SlotInit /\ [][SlotNext]_slotVars
-----------------------------------------------------------------------------
SlotTypeOK ==
  /\ booking \in [Apps -> Booking]
  /\ desk \in [Desks -> Task \union {Free}]
  /\ rushed \subseteq Apps /\ left \subseteq Apps

Occupies(a) == booking[a].status \in Occupying /\ booking[a].slot # NoSlot

\* No two applications hold overlapping times, also after a cancelled meeting, unless
\* one was booked while another handler committed, or was in another status since it was
\* booked and came back with its old time.
CallsDoNotOverlap ==
  \A a, b \in Apps :
    a # b /\ Occupies(a) /\ Occupies(b) /\ {a, b} \intersect (rushed \union left) = {}
      => ~Overlaps(booking[a].slot, booking[b].slot)
=============================================================================
