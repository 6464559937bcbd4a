--------------------------- MODULE RequestsProofs ---------------------------
(***************************************************************************)
(* For any number of requests, applications, subscriptions and tokens:     *)
(* calls do not overlap; of an address one link is good, and works once;   *)
(* a subscription keeps its address and follows Stripe, which is answered  *)
(* after the e-mail; an application is CALLED while its meeting stands.    *)
(***************************************************************************)
EXTENDS MCRequests, SequenceTheorems, TLAPS

(***************************************************************************)
(* The times of calls.                                                     *)
(***************************************************************************)
LeftInv == \A a \in Apps : booking[a].status \notin Occupying => a \in left

\* A booking's new time is clear of the times it has seen; other moves leave the time.
TaskInv ==
  \A d \in Desks : desk[d] # Free =>
    IF desk[d].books
    THEN /\ desk[d].new.slot \in Slots
         /\ \A e \in desk[d].seen : ~Overlaps(desk[d].new.slot, e[2])
    ELSE desk[d].new.slot = desk[d].loaded.slot

SlotInv == SlotTypeOK /\ LeftInv /\ TaskInv /\ CallsDoNotOverlap

LEMMA ExistingType ==
  ASSUME SlotTypeOK, NEW a \in Apps
  PROVE  Existing(a) \in SUBSET (Apps \X Slots)
<1>1. \A b \in Apps : booking[b].slot # NoSlot => booking[b].slot \in Slots
  BY DEF SlotTypeOK, Booking
<1> QED BY <1>1 DEF Existing

LEMMA TaskFields ==
  ASSUME NEW t \in Task
  PROVE  /\ t # Free /\ t.app \in Apps /\ t.loaded \in Booking /\ t.new \in Booking
         /\ t.books \in BOOLEAN /\ t.seen \subseteq Apps \X Slots
BY FreeAssumption DEF Task

LEMMA HoldPreserves ==
  ASSUME SlotInv, NEW d \in Desks, NEW a \in Apps, NEW new \in Booking, NEW books \in BOOLEAN,
         NEW seen \in SUBSET (Apps \X Slots), Hold(d, a, new, books, seen),
         IF books THEN new.slot \in Slots /\ \A e \in seen : ~Overlaps(new.slot, e[2])
         ELSE new.slot = booking[a].slot
  PROVE  SlotInv'
<1> USE DEF SlotInv
<1> DEFINE t == [app |-> a, loaded |-> booking[a], new |-> new, books |-> books,
                 seen |-> seen]
<1>1. booking[a] \in Booking
  BY DEF SlotTypeOK
<1>2. t \in Task /\ t.new = new /\ t.books = books /\ t.seen = seen /\ t.loaded = booking[a]
  BY <1>1 DEF Task
<1>3. desk' = [desk EXCEPT ![d] = t] /\ UNCHANGED <<booking, rushed, left>>
  BY DEF Hold
<1> HIDE DEF t
<1>4. SlotTypeOK'
  BY <1>2, <1>3 DEF SlotTypeOK
<1>5. LeftInv' /\ CallsDoNotOverlap'
  BY <1>3 DEF LeftInv, CallsDoNotOverlap, Occupies
<1>6. desk'[d] = t /\ \A c \in Desks \ {d} : desk'[c] = desk[c]
  BY <1>3 DEF SlotTypeOK
<1>7. TaskInv'
  <2> SUFFICES ASSUME NEW c \in Desks, desk'[c] # Free
               PROVE  IF desk'[c].books
                      THEN /\ desk'[c].new.slot \in Slots
                           /\ \A e \in desk'[c].seen : ~Overlaps(desk'[c].new.slot, e[2])
                      ELSE desk'[c].new.slot = desk'[c].loaded.slot
    BY DEF TaskInv, Overlaps
  <2>1. CASE c = d
    BY <1>2, <1>6, <2>1
  <2>2. CASE c # d
    BY <1>6, <2>2 DEF TaskInv
  <2> QED BY <2>1, <2>2
<1> QED BY <1>4, <1>5, <1>7

LEMMA CommitDeskPreserves ==
  ASSUME SlotInv, NEW d \in Desks, CommitDesk(d)
  PROVE  SlotInv'
<1> USE DEF SlotInv
<1>1. PICK t \in Task : t = desk[d] /\ desk[d] # Free
  BY DEF CommitDesk, SlotTypeOK
<1>2. PICK a \in Apps : a = t.app
  BY <1>1, TaskFields
<1>3. PICK new \in Booking : new = MergedBooking(t)
  BY <1>1, <1>2, TaskFields DEF MergedBooking, Booking, Merged, SlotTypeOK
<1>4. /\ new.status = Merged(booking[a].status, t.loaded.status, t.new.status)
      /\ new.slot = Merged(booking[a].slot, t.loaded.slot, t.new.slot)
  BY <1>2, <1>3 DEF MergedBooking
<1>5. /\ booking' = [booking EXCEPT ![a] = new]
      /\ rushed' = IF ~t.books THEN rushed
                   ELSE IF booking[a] = t.loaded /\ Existing(a) = t.seen THEN rushed \ {a}
                   ELSE rushed \union {a}
      /\ left' = IF new.status \notin Occupying THEN left \union {a}
                 ELSE IF t.books THEN left \ {a} ELSE left
      /\ desk' = [desk EXCEPT ![d] = Free]
  BY <1>1, <1>2, <1>3 DEF CommitDesk
<1>6. booking'[a] = new /\ \A b \in Apps \ {a} : booking'[b] = booking[b]
  BY <1>5 DEF SlotTypeOK
<1>7. SlotTypeOK'
  BY <1>5 DEF SlotTypeOK
<1>8. LeftInv'
  BY <1>5, <1>6 DEF LeftInv
<1>9. TaskInv'
  <2>1. \A c \in Desks : desk'[c] # Free => desk'[c] = desk[c]
    BY <1>5 DEF SlotTypeOK
  <2> QED BY <2>1 DEF TaskInv, Overlaps
<1>10. \A b \in Apps : b # a =>
         /\ Occupies(b)' <=> Occupies(b)
         /\ b \in rushed' <=> b \in rushed
         /\ b \in left' <=> b \in left
  BY <1>5, <1>6 DEF Occupies
<1>11. ASSUME NEW b \in Apps, b # a, Occupies(a)', Occupies(b)',
              {a, b} \intersect (rushed' \union left') = {}
       PROVE  ~Overlaps(new.slot, booking[b].slot) /\ ~Overlaps(booking[b].slot, new.slot)
  <2>1. CASE t.books
    <3>1. booking[a] = t.loaded /\ Existing(a) = t.seen
      BY <1>5, <1>11, <2>1
    <3>2. new.slot = t.new.slot
      BY <1>4, <3>1 DEF Merged
    <3>3. <<b, booking[b].slot>> \in t.seen
      BY <1>10, <1>11, <3>1 DEF Existing, Occupies
    <3>4. ~Overlaps(t.new.slot, <<b, booking[b].slot>>[2])
      BY <1>1, <2>1, <3>3 DEF TaskInv
    <3> QED BY <3>2, <3>4 DEF Overlaps
  <2>2. CASE ~t.books
    <3>1. new.slot = booking[a].slot
      BY <1>1, <1>4, <2>2 DEF TaskInv, Merged
    <3>2. a \notin left' /\ new.status \in Occupying /\ a \notin left /\ a \notin rushed
      BY <1>5, <1>11, <2>2
    <3>3. Occupies(a) /\ Occupies(b)
      BY <1>6, <1>10, <1>11, <3>1, <3>2 DEF Occupies, LeftInv
    <3>4. {a, b} \intersect (rushed \union left) = {}
      BY <1>10, <1>11, <3>2
    <3> QED BY <1>11, <3>1, <3>3, <3>4 DEF CallsDoNotOverlap
  <2> QED BY <1>1, <2>1, <2>2, TaskFields
<1>12. CallsDoNotOverlap'
  <2> SUFFICES ASSUME NEW b \in Apps, NEW c \in Apps, b # c, Occupies(b)', Occupies(c)',
                      {b, c} \intersect (rushed' \union left') = {}
               PROVE  ~Overlaps(booking'[b].slot, booking'[c].slot)
    BY DEF CallsDoNotOverlap, Overlaps
  <2>1. CASE b = a
    BY <1>6, <1>11, <2>1
  <2>2. CASE c = a
    BY <1>6, <1>11, <2>2
  <2>3. CASE b # a /\ c # a
    <3>1. {b, c} \intersect (rushed \union left) = {} /\ Occupies(b) /\ Occupies(c)
      BY <1>10, <2>3
    <3> QED BY <1>6, <2>3, <3>1 DEF CallsDoNotOverlap
  <2> QED BY <2>1, <2>2, <2>3
<1> QED BY <1>7, <1>8, <1>9, <1>12

LEMMA SlotInvInit == SlotInit => SlotInv
<1> SUFFICES ASSUME SlotInit PROVE SlotInv
  OBVIOUS
<1>1. [status |-> "APPROVED", slot |-> NoSlot] \in Booking
  BY DEF Booking, CallStatus, Occupying
<1>2. SlotTypeOK
  BY <1>1 DEF SlotInit, SlotTypeOK
<1>3. LeftInv /\ TaskInv /\ CallsDoNotOverlap
  BY DEF SlotInit, LeftInv, TaskInv, CallsDoNotOverlap, Occupies, Occupying
<1> QED BY <1>2, <1>3 DEF SlotInv

LEMMA SlotInvNext == SlotInv /\ [SlotNext]_slotVars => SlotInv'
<1> SUFFICES ASSUME SlotInv, [SlotNext]_slotVars PROVE SlotInv'
  OBVIOUS
<1>0. SlotTypeOK
  BY DEF SlotInv
<1>1. CASE UNCHANGED slotVars
  BY <1>1 DEF slotVars, SlotInv, SlotTypeOK, LeftInv, TaskInv, CallsDoNotOverlap, Occupies,
              Overlaps
<1>2. ASSUME NEW d \in Desks, NEW a \in Apps, NEW s \in Slots, BookCall(d, a, s)
      PROVE  SlotInv'
  <2> DEFINE new == [status |-> "CALLED", slot |-> s]
  <2>1. new \in Booking /\ new.slot = s
    BY DEF Booking, CallStatus, Occupying
  <2>2. Existing(a) \in SUBSET (Apps \X Slots)
    BY <1>0, ExistingType
  <2>3. \A e \in Existing(a) : ~Overlaps(s, e[2])
    BY <1>2 DEF BookCall
  <2>4. Hold(d, a, new, TRUE, Existing(a))
    BY <1>2 DEF BookCall
  <2> HIDE DEF new
  <2> QED BY <2>1, <2>2, <2>3, <2>4, HoldPreserves
<1>3. ASSUME NEW d \in Desks, NEW a \in Apps, NEW to \in CallStatus, OtherMove(d, a, to)
      PROVE  SlotInv'
  <2>1. booking[a] \in Booking
    BY <1>0 DEF SlotTypeOK
  <2> DEFINE new == [booking[a] EXCEPT !.status = to]
  <2>2. new \in Booking /\ new.slot = booking[a].slot
    BY <2>1 DEF Booking
  <2>3. Hold(d, a, new, FALSE, {})
    BY <1>3 DEF OtherMove
  <2> HIDE DEF new
  <2> QED BY <2>2, <2>3, HoldPreserves
<1>4. ASSUME NEW d \in Desks, DropDesk(d) PROVE SlotInv'
  <2>1. \A c \in Desks : desk'[c] # Free => desk'[c] = desk[c]
    BY <1>0, <1>4 DEF DropDesk, SlotTypeOK
  <2>2. SlotTypeOK'
    BY <1>0, <1>4 DEF DropDesk, SlotTypeOK
  <2>3. LeftInv' /\ CallsDoNotOverlap'
    BY <1>4 DEF DropDesk, SlotInv, LeftInv, CallsDoNotOverlap, Occupies
  <2>4. TaskInv'
    BY <2>1 DEF SlotInv, TaskInv, Overlaps
  <2> QED BY <2>2, <2>3, <2>4 DEF SlotInv
<1> QED BY <1>1, <1>2, <1>3, <1>4, CommitDeskPreserves DEF SlotNext

\* The types of bookings and of the handlers that move them.
THEOREM SlotTypeCorrect == SlotSpec => []SlotTypeOK
<1>1. SlotInv => SlotTypeOK
  BY DEF SlotInv
<1> QED BY <1>1, SlotInvInit, SlotInvNext, PTL DEF SlotSpec

\* No two applications hold overlapping times but for the bookings that raced and those
\* that came back, for any number of applications, times and handlers.
THEOREM CallsNeverOverlap == SlotSpec => []CallsDoNotOverlap
<1>1. SlotInv => CallsDoNotOverlap
  BY DEF SlotInv
<1> QED BY <1>1, SlotInvInit, SlotInvNext, PTL DEF SlotSpec
-----------------------------------------------------------------------------
(***************************************************************************)
(* The reset of a password.                                                *)
(***************************************************************************)
Active(r) == request[r] # NoRequest
Making(r) == Active(r) /\ request[r].kind = "forgot" /\ request[r].step = "commit"
Using(r) == Active(r) /\ request[r].kind = "reset"

\* A new token is nobody else's; any other of a request, or in a mailbox, is on record.
SecretInv ==
  /\ \A r \in Requests : Making(r) => token[request[r].token] = NoToken
  /\ \A r, q \in Requests :
       Making(r) /\ Active(q) /\ request[r].token = request[q].token => r = q
  /\ \A r \in Requests : Active(r) /\ ~Making(r) =>
       /\ Exists(request[r].token) /\ token[request[r].token].email = request[r].email
       /\ Using(r) => request[r].step = "commit"
  /\ \A t \in mailbox : Exists(t)

\* The tokens a request will use up are of its address.
OldInv ==
  \A r \in Requests : Making(r) =>
    \A u \in request[r].old : Exists(u) /\ token[u].email = request[r].email

\* A token that has set a password is used.
UsesInv == \A t \in Tokens : uses[t] # 0 => Exists(t) /\ token[t].used

\* Of an address that has not raced one request at most is in flight.
AloneInv ==
  \A r, q \in Requests :
    Active(r) /\ Active(q) /\ request[r].email = request[q].email
      /\ request[r].email \notin raced => r = q

\* And then a live token is the latest, one request will use up all of them, and a token
\* about to be used is the latest and has not been used.
LatestInv ==
  \A t \in Tokens :
    Live(t) /\ token[t].email \notin raced => t = latest[token[t].email]

PendingInv ==
  \A r \in Requests : Active(r) /\ request[r].email \notin raced =>
    /\ Making(r) => \A t \in Tokens :
         Live(t) /\ token[t].email = request[r].email => t \in request[r].old
    /\ Using(r) => /\ uses[request[r].token] = 0
                   /\ request[r].token = latest[request[r].email]

LinkInv ==
  /\ ResetTypeOK /\ SecretInv /\ OldInv /\ UsesInv /\ AloneInv /\ LatestInv /\ PendingInv

LEMMA LinkInvInit == ResetInit => LinkInv
<1> SUFFICES ASSUME ResetInit PROVE LinkInv
  OBVIOUS
<1>1. ResetTypeOK
  BY DEF ResetInit, ResetTypeOK
<1>2. SecretInv /\ OldInv /\ AloneInv /\ PendingInv
  BY DEF ResetInit, SecretInv, OldInv, AloneInv, PendingInv, Active, Making, Using
<1>3. UsesInv /\ LatestInv
  BY DEF ResetInit, UsesInv, LatestInv, Live, Exists
<1> QED BY <1>1, <1>2, <1>3 DEF LinkInv

\* A step that leaves the tokens and their uses, and ends requests or none.
LEMMA QuietStep ==
  ASSUME LinkInv, request' \in [Requests -> Request \union {NoRequest}],
         \A r \in Requests : request'[r] \in {request[r], NoRequest},
         known' \subseteq Addresses, expired' \subseteq Tokens, expired \subseteq expired',
         mailbox' \subseteq Tokens, \A t \in mailbox' : Exists(t),
         UNCHANGED <<token, uses, latest, raced>>
  PROVE  LinkInv'
<1> USE DEF LinkInv
<1>1. ResetTypeOK'
  BY DEF ResetTypeOK
<1>2. \A r \in Requests : Active(r)' => Active(r) /\ request'[r] = request[r]
  BY DEF Active
<1>3. \A t \in Tokens : (Exists(t)' <=> Exists(t)) /\ (Live(t)' => Live(t))
  BY DEF Exists, Live
<1>4. SecretInv'
  BY <1>2 DEF SecretInv, Making, Using, Active, Exists
<1>5. OldInv'
  BY <1>2 DEF OldInv, Making, Active, Exists
<1>6. UsesInv' /\ LatestInv'
  BY <1>3 DEF UsesInv, LatestInv, Exists
<1>7. AloneInv'
  BY <1>2 DEF AloneInv
<1>8. PendingInv'
  BY <1>2, <1>3 DEF PendingInv, Making, Using, Active
<1> QED BY <1>1, <1>4, <1>5, <1>6, <1>7, <1>8

\* A request that begins.
LEMMA BeginStep ==
  ASSUME LinkInv, NEW r \in Requests, NEW kind \in {"forgot", "reset"},
         NEW email \in Addresses, NEW t \in Tokens, NEW old \in SUBSET Tokens,
         Begin(r, kind, email, t, old),
         kind = "forgot" =>
           /\ token[t] = NoToken /\ t \notin Held
           /\ old = {u \in Tokens : Live(u) /\ token[u].email = email},
         kind = "reset" => Live(t) /\ token[t].email = email
  PROVE  LinkInv'
<1> USE DEF LinkInv
<1> DEFINE new == [kind |-> kind, step |-> "commit", email |-> email, token |-> t,
                   old |-> old]
<1>1. /\ new \in Request /\ new.kind = kind /\ new.step = "commit" /\ new.email = email
      /\ new.token = t /\ new.old = old
  BY DEF Request
<1>2. /\ request[r] = NoRequest /\ request' = [request EXCEPT ![r] = new]
      /\ UNCHANGED <<known, token, expired, mailbox, uses, latest>>
      /\ raced' = IF \E q \in Requests : Active(q) /\ request[q].email = email
                  THEN raced \union {email} ELSE raced
  BY DEF Begin, Active
<1> HIDE DEF new
<1>3. ResetTypeOK'
  BY <1>1, <1>2 DEF ResetTypeOK
<1>4. request'[r] = new /\ new # NoRequest /\ \A q \in Requests \ {r} : request'[q] = request[q]
  BY <1>1, <1>2, NoRequestAssumption DEF ResetTypeOK
<1>5. \A q \in Requests \ {r} :
        (Active(q)' <=> Active(q)) /\ (Making(q)' <=> Making(q)) /\ (Using(q)' <=> Using(q))
  BY <1>4 DEF Active, Making, Using
<1>6. /\ Active(r)' /\ ~Active(r) /\ (Making(r)' <=> kind = "forgot")
      /\ Using(r)' <=> kind = "reset"
  BY <1>1, <1>2, <1>4 DEF Active, Making, Using
<1>7. \A u : (Exists(u)' <=> Exists(u)) /\ (Live(u)' <=> Live(u))
  BY <1>2 DEF Exists, Live
<1>8. kind = "reset" => Exists(t)
  BY DEF Live
<1>9. kind = "forgot" => \A q \in Requests : Active(q) => request[q].token # t
  BY DEF Held, Active
<1>10. SecretInv'
  <2>1. \A q \in Requests : Making(q)' => token'[request'[q].token] = NoToken
    BY <1>1, <1>2, <1>4, <1>5, <1>6 DEF SecretInv
  <2>2. \A p, q \in Requests :
          Making(p)' /\ Active(q)' /\ request'[p].token = request'[q].token => p = q
    <3> SUFFICES ASSUME NEW p \in Requests, NEW q \in Requests, Making(p)', Active(q)',
                        request'[p].token = request'[q].token, p # q
                 PROVE  FALSE
      OBVIOUS
    <3>1. CASE p = r
      BY <1>1, <1>4, <1>5, <1>6, <1>9, <3>1
    <3>2. CASE q = r
      <4>1. Making(p) /\ request[p].token = t
        BY <1>1, <1>4, <1>5, <3>2
      <4>2. token[t] = NoToken
        BY <4>1 DEF SecretInv
      <4>3. CASE kind = "reset"
        BY <1>8, <4>2, <4>3 DEF Exists
      <4>4. CASE kind = "forgot"
        BY <1>9, <4>1, <4>4 DEF Making
      <4> QED BY <4>3, <4>4
    <3>3. CASE p # r /\ q # r
      BY <1>4, <1>5, <3>3 DEF SecretInv
    <3> QED BY <3>1, <3>2, <3>3
  <2>3. \A q \in Requests : Active(q)' /\ ~Making(q)' =>
          /\ token'[request'[q].token] # NoToken
          /\ token'[request'[q].token].email = request'[q].email
          /\ Using(q)' => request'[q].step = "commit"
    BY <1>1, <1>2, <1>4, <1>5, <1>6, <1>8 DEF SecretInv, Exists
  <2>4. \A u \in mailbox' : token'[u] # NoToken
    BY <1>2 DEF SecretInv, Exists
  <2> QED BY <2>1, <2>2, <2>3, <2>4 DEF SecretInv, Exists
<1>11. OldInv'
  <2>1. kind = "forgot" => \A u \in old : token[u] # NoToken /\ token[u].email = email
    BY DEF Live, Exists
  <2>2. \A q \in Requests : Making(q)' =>
          \A u \in request'[q].old : token[u] # NoToken /\ token[u].email = request'[q].email
    BY <1>1, <1>4, <1>5, <1>6, <2>1 DEF OldInv, Exists
  <2> QED BY <1>2, <2>2 DEF OldInv, Exists
<1>12. UsesInv' /\ LatestInv'
  BY <1>2, <1>7 DEF UsesInv, LatestInv
<1>13. AloneInv'
  <2>1. email \notin raced' => \A q \in Requests : Active(q) => request[q].email # email
    BY <1>2
  <2>2. \A e : e \notin raced' => e \notin raced
    BY <1>2
  <2> QED BY <1>1, <1>4, <1>5, <1>6, <2>1, <2>2 DEF AloneInv
<1>14. PendingInv'
  <2>1. \A e : e \notin raced' => e \notin raced
    BY <1>2
  <2>2. kind = "reset" /\ email \notin raced => uses[t] = 0 /\ t = latest[email]
    BY DEF UsesInv, LatestInv, Live
  <2>3. ASSUME NEW q \in Requests, Active(q)', request'[q].email \notin raced'
        PROVE  /\ Making(q)' => \A u \in Tokens :
                    Live(u)' /\ token'[u].email = request'[q].email => u \in request'[q].old
               /\ Using(q)' => /\ uses'[request'[q].token] = 0
                               /\ request'[q].token = latest'[request'[q].email]
    <3>1. CASE q = r
      BY <1>1, <1>2, <1>4, <1>6, <1>7, <2>1, <2>2, <2>3, <3>1
    <3>2. CASE q # r
      <4>1. Active(q) /\ request'[q] = request[q] /\ request[q].email \notin raced
        BY <1>4, <1>5, <2>1, <2>3, <3>2
      <4> QED BY <1>2, <1>5, <1>7, <3>2, <4>1 DEF PendingInv
    <3> QED BY <3>1, <3>2
  <2> QED BY <2>3 DEF PendingInv
<1> QED BY <1>3, <1>10, <1>11, <1>12, <1>13, <1>14

LEMMA RequestFields ==
  ASSUME NEW q \in Request
  PROVE  /\ q # NoRequest /\ q.email \in Addresses /\ q.token \in Tokens
         /\ q.old \subseteq Tokens /\ q.kind \in {"forgot", "reset"}
         /\ [q EXCEPT !.step = "mail"] \in Request
         /\ [q EXCEPT !.step = "mail"].step = "mail"
         /\ [q EXCEPT !.step = "mail"].kind = q.kind
         /\ [q EXCEPT !.step = "mail"].email = q.email
         /\ [q EXCEPT !.step = "mail"].token = q.token
BY NoRequestAssumption DEF Request

\* The new link is good and the ones before it are not.
LEMMA CommitForgotPreserves ==
  ASSUME LinkInv, NEW r \in Requests, CommitForgot(r)
  PROVE  LinkInv'
<1> USE DEF LinkInv
<1>1. PICK q \in Request : q = request[r]
  BY DEF CommitForgot, ResetTypeOK
<1>2. Making(r) /\ Active(r)
  BY DEF CommitForgot, Making, Active
<1>3. PICK p \in Request : /\ request' = [request EXCEPT ![r] = p]
                           /\ p.step = "mail" /\ p.kind = "forgot" /\ p.email = q.email
                           /\ p.token = q.token
  <2> DEFINE k == [q EXCEPT !.step = "mail"]
  <2>1. request' = [request EXCEPT ![r] = k] /\ q.kind = "forgot"
    BY <1>1 DEF CommitForgot
  <2>2. /\ k \in Request /\ k.step = "mail" /\ k.kind = q.kind /\ k.email = q.email
        /\ k.token = q.token
    BY <1>1, RequestFields
  <2> HIDE DEF k
  <2> QED BY <2>1, <2>2
<1>4. q.token \in Tokens /\ q.email \in Addresses /\ q.old \subseteq Tokens
  BY RequestFields
<1>5. token[q.token] = NoToken
  BY <1>1, <1>2 DEF SecretInv
<1>6. \A u \in q.old : token[u] # NoToken /\ token[u].email = q.email
  BY <1>1, <1>2 DEF OldInv, Exists
<1>7. PICK made \in Token : made = [email |-> q.email, used |-> FALSE]
  BY <1>4 DEF Token
<1>8. /\ token' = [u \in Tokens |-> IF u = q.token THEN made
                   ELSE IF u \in q.old THEN [token[u] EXCEPT !.used = TRUE] ELSE token[u]]
      /\ latest' = [latest EXCEPT ![q.email] = q.token]
      /\ UNCHANGED <<known, expired, mailbox, uses, raced>>
  BY <1>1, <1>7 DEF CommitForgot
<1>9. \A u \in Tokens \ {q.token} :
        /\ token[u] = NoToken => token'[u] = NoToken
        /\ token[u] # NoToken => /\ token'[u] \in Token /\ token'[u] # NoToken
                                 /\ token'[u].email = token[u].email
                                 /\ token[u].used => token'[u].used
                                 /\ u \in q.old => token'[u].used
                                 /\ u \notin q.old => token'[u] = token[u]
  <2> SUFFICES ASSUME NEW u \in Tokens, u # q.token
               PROVE  /\ token[u] = NoToken => token'[u] = NoToken
                      /\ token[u] # NoToken =>
                           /\ token'[u] \in Token /\ token'[u] # NoToken
                           /\ token'[u].email = token[u].email
                           /\ token[u].used => token'[u].used
                           /\ u \in q.old => token'[u].used
                           /\ u \notin q.old => token'[u] = token[u]
    OBVIOUS
  <2>1. token[u] \in Token \union {NoToken}
    BY DEF ResetTypeOK
  <2>2. CASE u \in q.old
    <3>1. token'[u] = [token[u] EXCEPT !.used = TRUE]
      BY <1>8, <2>2
    <3> QED BY <1>6, <2>1, <2>2, <3>1, NoTokenAssumption DEF Token
  <2>3. CASE u \notin q.old
    <3>1. token'[u] = token[u]
      BY <1>8, <2>3
    <3> QED BY <2>1, <2>3, <3>1, NoTokenAssumption
  <2> QED BY <2>2, <2>3
<1>10. token'[q.token] = made /\ made # NoToken /\ made.email = q.email /\ ~made.used
  BY <1>4, <1>7, <1>8, NoTokenAssumption
<1>11. ResetTypeOK'
  <2>1. token' \in [Tokens -> Token \union {NoToken}]
    BY <1>8, <1>9, <1>10
  <2> QED BY <1>3, <1>4, <1>8, <2>1 DEF ResetTypeOK
<1>12. request'[r] = p /\ p # NoRequest /\ \A s \in Requests \ {r} : request'[s] = request[s]
  BY <1>3, RequestFields DEF ResetTypeOK
<1>13. \A s \in Requests \ {r} :
         (Active(s)' <=> Active(s)) /\ (Making(s)' <=> Making(s)) /\ (Using(s)' <=> Using(s))
  BY <1>12 DEF Active, Making, Using
<1>14. Active(r)' /\ ~Making(r)' /\ ~Using(r)'
  BY <1>3, <1>12 DEF Active, Making, Using
<1>15. \A s \in Requests \ {r} : Active(s) => request[s].token \in Tokens \ {q.token}
  <2> SUFFICES ASSUME NEW s \in Requests \ {r}, Active(s)
               PROVE  request[s].token \in Tokens /\ request[s].token # q.token
    OBVIOUS
  <2>1. request[s] \in Request
    BY DEF Active, ResetTypeOK
  <2> QED BY <1>1, <1>2, <2>1, RequestFields DEF SecretInv
<1>16. SecretInv'
  <2>1. \A s \in Requests : Making(s)' => token'[request'[s].token] = NoToken
    BY <1>9, <1>12, <1>13, <1>14, <1>15 DEF SecretInv, Making
  <2>2. \A s, t \in Requests :
          Making(s)' /\ Active(t)' /\ request'[s].token = request'[t].token => s = t
    <3> SUFFICES ASSUME NEW s \in Requests, NEW t \in Requests, Making(s)', Active(t)',
                        request'[s].token = request'[t].token
                 PROVE  s = t
      OBVIOUS
    <3>1. s # r /\ Making(s)
      BY <1>13, <1>14
    <3>2. CASE t = r
      BY <1>3, <1>12, <1>15, <3>1, <3>2 DEF Making
    <3>3. CASE t # r
      BY <1>12, <1>13, <3>1, <3>3 DEF SecretInv
    <3> QED BY <3>2, <3>3
  <2>3. \A s \in Requests : Active(s)' /\ ~Making(s)' =>
          /\ token'[request'[s].token] # NoToken
          /\ token'[request'[s].token].email = request'[s].email
          /\ Using(s)' => request'[s].step = "commit"
    BY <1>3, <1>9, <1>10, <1>12, <1>13, <1>14, <1>15 DEF SecretInv, Exists
  <2>4. \A u \in mailbox' : token'[u] # NoToken
    BY <1>5, <1>8, <1>9 DEF SecretInv, Exists, ResetTypeOK
  <2> QED BY <2>1, <2>2, <2>3, <2>4 DEF SecretInv, Exists
<1>17. OldInv'
  <2>1. \A s \in Requests : Making(s)' =>
          \A u \in request'[s].old : token'[u] # NoToken /\ token'[u].email = request'[s].email
    <3> SUFFICES ASSUME NEW s \in Requests, Making(s)', NEW u \in request'[s].old
                 PROVE  token'[u] # NoToken /\ token'[u].email = request'[s].email
      OBVIOUS
    <3>1. s # r /\ Making(s) /\ request'[s] = request[s]
      BY <1>12, <1>13, <1>14
    <3>2. token[u] # NoToken /\ token[u].email = request[s].email
      BY <3>1 DEF OldInv, Exists
    <3>3. u \in Tokens
      <4>1. request[s] \in Request
        BY <3>1 DEF Making, Active, ResetTypeOK
      <4>2. request[s].old \subseteq Tokens
        BY <4>1, RequestFields
      <4> QED BY <3>1, <4>2
    <3> QED BY <1>5, <1>9, <3>1, <3>2, <3>3
  <2> QED BY <2>1 DEF OldInv, Exists
<1>18. UsesInv'
  BY <1>5, <1>8, <1>9 DEF UsesInv, Exists
<1>19. AloneInv'
  <2>1. request'[r].email = request[r].email
    BY <1>1, <1>3, <1>12
  <2> QED BY <1>2, <1>8, <1>12, <1>13, <2>1 DEF AloneInv
<1>20. \A u \in Tokens \ {q.token} : Live(u)' => Live(u) /\ u \notin q.old
  BY <1>8, <1>9 DEF Live, Exists
<1>21. LatestInv'
  <2> SUFFICES ASSUME NEW u \in Tokens, Live(u)', token'[u].email \notin raced'
               PROVE  u = latest'[token'[u].email]
    BY DEF LatestInv
  <2>1. CASE u = q.token
    BY <1>4, <1>8, <1>10, <2>1 DEF ResetTypeOK
  <2>2. CASE u # q.token
    <3>1. Live(u) /\ u \notin q.old /\ token'[u].email = token[u].email
      BY <1>9, <1>20, <2>2 DEF Live, Exists
    <3>2. token[u].email # q.email
      BY <1>1, <1>2, <1>8, <3>1 DEF PendingInv
    <3> QED BY <1>8, <3>1, <3>2 DEF LatestInv, ResetTypeOK
  <2> QED BY <2>1, <2>2
<1>22. PendingInv'
  <2> SUFFICES ASSUME NEW s \in Requests, Active(s)', request'[s].email \notin raced'
               PROVE  /\ Making(s)' => \A u \in Tokens :
                           Live(u)' /\ token'[u].email = request'[s].email
                             => u \in request'[s].old
                      /\ Using(s)' => /\ uses'[request'[s].token] = 0
                                      /\ request'[s].token = latest'[request'[s].email]
    BY DEF PendingInv
  <2>1. CASE s = r
    BY <1>14, <2>1
  <2>2. CASE s # r
    <3>1. Active(s) /\ request'[s] = request[s] /\ request[s].email \notin raced
      BY <1>8, <1>12, <1>13, <2>2
    <3>2. request[s].email # q.email
      BY <1>1, <1>2, <2>2, <3>1 DEF AloneInv
    <3>3. ASSUME Making(s), NEW u \in Tokens, Live(u)', token'[u].email = request[s].email
          PROVE  u \in request[s].old
      <4>1. u # q.token
        BY <1>10, <3>2, <3>3
      <4>2. Live(u) /\ token'[u].email = token[u].email
        BY <1>9, <1>20, <3>3, <4>1 DEF Live, Exists
      <4> QED BY <3>1, <3>3, <4>2 DEF PendingInv
    <3>4. Using(s) => /\ uses[request[s].token] = 0
                      /\ request[s].token = latest'[request[s].email]
      BY <1>8, <3>1, <3>2 DEF PendingInv, ResetTypeOK
    <3> QED BY <1>8, <1>13, <2>2, <3>1, <3>3, <3>4
  <2> QED BY <2>1, <2>2
<1> QED BY <1>11, <1>16, <1>17, <1>18, <1>19, <1>21, <1>22

\* The link is used up, and its address has no other request.
LEMMA CommitResetPreserves ==
  ASSUME LinkInv, NEW r \in Requests, CommitReset(r)
  PROVE  LinkInv'
<1> USE DEF LinkInv
<1>1. PICK q \in Request : q = request[r]
  BY DEF CommitReset, ResetTypeOK
<1>2. Active(r) /\ Using(r) /\ ~Making(r)
  BY DEF CommitReset, Active, Using, Making
<1>3. PICK t \in Tokens : t = q.token
  BY RequestFields
<1>4. token[t] # NoToken /\ token[t].email = q.email
  BY <1>1, <1>2, <1>3 DEF SecretInv, Exists
<1>5. /\ uses' = [uses EXCEPT ![t] = @ + 1]
      /\ token' = [token EXCEPT ![t].used = TRUE]
      /\ request' = [request EXCEPT ![r] = NoRequest]
      /\ UNCHANGED <<known, expired, mailbox, latest, raced>>
  BY <1>1, <1>3 DEF CommitReset
<1>6. /\ token'[t] \in Token /\ token'[t].used /\ token'[t].email = token[t].email
      /\ token'[t] # NoToken /\ \A u \in Tokens \ {t} : token'[u] = token[u]
  <2>1. token[t] \in Token
    BY <1>4 DEF ResetTypeOK
  <2>2. token'[t] = [token[t] EXCEPT !.used = TRUE]
        /\ \A u \in Tokens \ {t} : token'[u] = token[u]
    BY <1>5 DEF ResetTypeOK
  <2> QED BY <2>1, <2>2, NoTokenAssumption DEF Token
<1>7. \A u \in Tokens : /\ Exists(u)' <=> Exists(u)
                        /\ token'[u].email = token[u].email
                        /\ Exists(u) /\ token[u].used => token'[u].used
                        /\ Live(u)' => Live(u)
  BY <1>4, <1>5, <1>6 DEF Exists, Live
<1>8. /\ \A u \in Tokens \ {t} : uses'[u] = uses[u]
      /\ uses'[t] \in Nat /\ uses' \in [Tokens -> Nat]
  BY <1>5 DEF ResetTypeOK
<1>9. ResetTypeOK'
  <2>1. token' \in [Tokens -> Token \union {NoToken}]
    BY <1>5, <1>6 DEF ResetTypeOK
  <2>2. request' \in [Requests -> Request \union {NoRequest}]
    BY <1>5 DEF ResetTypeOK
  <2> QED BY <1>5, <1>8, <2>1, <2>2 DEF ResetTypeOK
<1>10. \A s \in Requests : Active(s)' => s # r /\ Active(s) /\ request'[s] = request[s]
  BY <1>5 DEF Active, ResetTypeOK
<1>11. \A s \in Requests : Active(s) => request[s].token \in Tokens /\ request[s].old \subseteq Tokens
  BY RequestFields DEF Active, ResetTypeOK
<1>12. SecretInv'
  <2>1. \A s \in Requests : Making(s)' => token'[request'[s].token] = NoToken
    <3> SUFFICES ASSUME NEW s \in Requests, Making(s)' PROVE token'[request'[s].token] = NoToken
      OBVIOUS
    <3>1. Active(s)' /\ Active(s) /\ Making(s) /\ request'[s] = request[s]
      BY <1>10 DEF Making, Active
    <3>2. token[request[s].token] = NoToken
      BY <3>1 DEF SecretInv
    <3> QED BY <1>4, <1>6, <1>11, <3>1, <3>2
  <2>2. \A s, u \in Requests :
          Making(s)' /\ Active(u)' /\ request'[s].token = request'[u].token => s = u
    BY <1>10 DEF SecretInv, Making, Active
  <2>3. \A s \in Requests : Active(s)' /\ ~Making(s)' =>
          /\ token'[request'[s].token] # NoToken
          /\ token'[request'[s].token].email = request'[s].email
          /\ Using(s)' => request'[s].step = "commit"
    <3> SUFFICES ASSUME NEW s \in Requests, Active(s)', ~Making(s)'
                 PROVE  /\ token'[request'[s].token] # NoToken
                        /\ token'[request'[s].token].email = request'[s].email
                        /\ Using(s)' => request'[s].step = "commit"
      OBVIOUS
    <3>1. Active(s) /\ ~Making(s) /\ request'[s] = request[s]
      BY <1>10 DEF Making, Active
    <3>2. /\ token[request[s].token] # NoToken /\ token[request[s].token].email = request[s].email
          /\ Using(s) => request[s].step = "commit"
      BY <3>1 DEF SecretInv, Exists
    <3> QED BY <1>7, <1>11, <3>1, <3>2 DEF Using, Active, Exists
  <2>4. \A u \in mailbox' : token'[u] # NoToken
    BY <1>5, <1>7 DEF SecretInv, ResetTypeOK, Exists
  <2> QED BY <2>1, <2>2, <2>3, <2>4 DEF SecretInv, Exists
<1>13. OldInv'
  <2> SUFFICES ASSUME NEW s \in Requests, Making(s)', NEW u \in request'[s].old
               PROVE  token'[u] # NoToken /\ token'[u].email = request'[s].email
    BY DEF OldInv, Exists
  <2>1. Active(s) /\ Making(s) /\ request'[s] = request[s]
    BY <1>10 DEF Making, Active
  <2>2. u \in Tokens /\ Exists(u) /\ token[u].email = request[s].email
    BY <1>11, <2>1 DEF OldInv
  <2> QED BY <1>7, <2>1, <2>2 DEF Exists
<1>14. UsesInv'
  <2> SUFFICES ASSUME NEW u \in Tokens, uses'[u] # 0
               PROVE  token'[u] # NoToken /\ token'[u].used
    BY DEF UsesInv, Exists
  <2>1. CASE u = t
    BY <1>6, <2>1
  <2>2. CASE u # t
    BY <1>6, <1>8, <2>2 DEF UsesInv, Exists
  <2> QED BY <2>1, <2>2
<1>15. AloneInv'
  BY <1>5, <1>10 DEF AloneInv
<1>16. LatestInv'
  BY <1>5, <1>7 DEF LatestInv
<1>17. PendingInv'
  <2> SUFFICES ASSUME NEW s \in Requests, Active(s)', request'[s].email \notin raced'
               PROVE  /\ Making(s)' => \A u \in Tokens :
                           Live(u)' /\ token'[u].email = request'[s].email => u \in request'[s].old
                      /\ Using(s)' => /\ uses'[request'[s].token] = 0
                                      /\ request'[s].token = latest'[request'[s].email]
    BY DEF PendingInv
  <2>1. /\ s # r /\ Active(s) /\ request'[s] = request[s] /\ request[s].email \notin raced
        /\ (Making(s)' <=> Making(s)) /\ (Using(s)' <=> Using(s))
    BY <1>5, <1>10 DEF Making, Using, Active
  <2>2. Using(s) => request[s].token # t
    <3> SUFFICES ASSUME Using(s), request[s].token = t PROVE FALSE
      OBVIOUS
    <3>1. ~Making(s)
      BY DEF Using, Making
    <3>2. request[s].email = request[r].email
      BY <1>1, <1>4, <2>1, <3>1 DEF SecretInv
    <3> QED BY <1>2, <2>1, <3>2 DEF AloneInv
  <2> QED BY <1>5, <1>7, <1>8, <1>11, <2>1, <2>2 DEF PendingInv
<1> QED BY <1>9, <1>12, <1>13, <1>14, <1>15, <1>16, <1>17

LEMMA LinkInvNext == LinkInv /\ [ResetNext]_resetVars => LinkInv'
<1> SUFFICES ASSUME LinkInv, [ResetNext]_resetVars PROVE LinkInv'
  OBVIOUS
<1> USE DEF LinkInv
<1>1. ASSUME NEW r \in Requests, NEW email \in Addresses, ForgotPassword(r, email)
      PROVE  LinkInv'
  <2>1. PICK t \in Tokens \ Held :
          /\ ~Exists(t)
          /\ Begin(r, "forgot", email, t, {u \in Tokens : Live(u) /\ token[u].email = email})
    BY <1>1 DEF ForgotPassword
  <2> QED BY <2>1, BeginStep DEF Exists
<1>2. ASSUME NEW r \in Requests, NEW t \in Tokens, ResetPassword(r, t)
      PROVE  LinkInv'
  <2>1. Begin(r, "reset", token[t].email, t, {}) /\ Live(t) /\ token[t].email \in Addresses
    BY <1>2 DEF ResetPassword, ResetTypeOK
  <2> QED BY <2>1, BeginStep
<1>3. ASSUME NEW r \in Requests, SendLink(r)
      PROVE  LinkInv'
  <2>1. PICK q \in Request : q = request[r]
    BY <1>3 DEF SendLink, ResetTypeOK
  <2>2. Exists(q.token) /\ q.token \in Tokens
    <3>1. Active(r) /\ ~Making(r)
      BY <1>3 DEF SendLink, Active, Making
    <3> QED BY <2>1, <3>1, RequestFields DEF SecretInv
  <2>3. /\ mailbox' = mailbox \union {q.token} /\ request' = [request EXCEPT ![r] = NoRequest]
        /\ UNCHANGED <<known, token, expired, uses, latest, raced>>
    BY <1>3, <2>1 DEF SendLink
  <2>4. \A s \in Requests : request'[s] \in {request[s], NoRequest}
    BY <2>3 DEF ResetTypeOK
  <2>5. /\ request' \in [Requests -> Request \union {NoRequest}] /\ mailbox' \subseteq Tokens
        /\ \A t \in mailbox' : Exists(t)
    BY <2>2, <2>3 DEF ResetTypeOK, SecretInv
  <2>6. known' \subseteq Addresses /\ expired' \subseteq Tokens /\ expired \subseteq expired'
    BY <2>3 DEF ResetTypeOK
  <2> QED BY <2>3, <2>4, <2>5, <2>6, QuietStep
<1>4. ASSUME NEW r \in Requests, Drop(r)
      PROVE  LinkInv'
  <2>1. /\ request' = [request EXCEPT ![r] = NoRequest]
        /\ UNCHANGED <<known, token, expired, mailbox, uses, latest, raced>>
    BY <1>4 DEF Drop
  <2>2. /\ \A s \in Requests : request'[s] \in {request[s], NoRequest}
        /\ request' \in [Requests -> Request \union {NoRequest}]
    BY <2>1 DEF ResetTypeOK
  <2>3. /\ known' \subseteq Addresses /\ expired' \subseteq Tokens /\ expired \subseteq expired'
        /\ mailbox' \subseteq Tokens /\ \A t \in mailbox' : Exists(t)
    BY <2>1 DEF ResetTypeOK, SecretInv
  <2> QED BY <2>1, <2>2, <2>3, QuietStep
<1>5. ASSUME NEW t \in Tokens, Expire(t)
      PROVE  LinkInv'
  <2>1. expired' = expired \union {t} /\ UNCHANGED <<known, token, request, mailbox, uses, latest, raced>>
    BY <1>5 DEF Expire
  <2>2. /\ \A s \in Requests : request'[s] \in {request[s], NoRequest}
        /\ request' \in [Requests -> Request \union {NoRequest}]
        /\ known' \subseteq Addresses /\ expired' \subseteq Tokens /\ expired \subseteq expired'
        /\ mailbox' \subseteq Tokens /\ \A u \in mailbox' : Exists(u)
    BY <2>1 DEF ResetTypeOK, SecretInv
  <2> QED BY <2>1, <2>2, QuietStep
<1>6. ASSUME NEW email \in Addresses, Subscribed(email)
      PROVE  LinkInv'
  <2>1. /\ known' = known \union {email}
        /\ UNCHANGED <<token, expired, request, mailbox, uses, latest, raced>>
    BY <1>6 DEF Subscribed
  <2>2. /\ \A s \in Requests : request'[s] \in {request[s], NoRequest}
        /\ request' \in [Requests -> Request \union {NoRequest}]
        /\ known' \subseteq Addresses /\ expired' \subseteq Tokens /\ expired \subseteq expired'
        /\ mailbox' \subseteq Tokens /\ \A u \in mailbox' : Exists(u)
    BY <2>1 DEF ResetTypeOK, SecretInv
  <2> QED BY <2>1, <2>2, QuietStep
<1>7. CASE UNCHANGED resetVars
  <2>1. UNCHANGED <<known, token, expired, request, mailbox, uses, latest, raced>>
    BY <1>7 DEF resetVars
  <2>2. /\ \A s \in Requests : request'[s] \in {request[s], NoRequest}
        /\ request' \in [Requests -> Request \union {NoRequest}]
        /\ known' \subseteq Addresses /\ expired' \subseteq Tokens /\ expired \subseteq expired'
        /\ mailbox' \subseteq Tokens /\ \A u \in mailbox' : Exists(u)
    BY <2>1 DEF ResetTypeOK, SecretInv
  <2> QED BY <2>1, <2>2, QuietStep
<1> QED BY <1>1, <1>2, <1>3, <1>4, <1>5, <1>6, <1>7, CommitForgotPreserves, CommitResetPreserves
      DEF ResetNext

\* The types of tokens and of the requests about them.
THEOREM ResetTypeCorrect == ResetSpec => []ResetTypeOK
<1>1. LinkInv => ResetTypeOK
  BY DEF LinkInv
<1> QED BY <1>1, LinkInvInit, LinkInvNext, PTL DEF ResetSpec

\* For any number of addresses, links and requests: the links of an address that are good
\* at one time are one, unless two of its requests overlapped.
THEOREM OneLinkIsLive == ResetSpec => []OneLiveLink
<1>1. LinkInv => OneLiveLink
  BY DEF LinkInv, LatestInv, OneLiveLink
<1> QED BY <1>1, LinkInvInit, LinkInvNext, PTL DEF ResetSpec

\* No request takes up a link that has set a password, however requests overlap.  Where no
\* two requests of an address overlapped, a link sets a password once, and only while no
\* newer one has been made; two requests in flight with one link do set it twice.
THEOREM LinksWorkOnce == ResetSpec => LinkWorksOnce
<1> DEFINE Fresh == \A r \in Requests :
             request'[r] \notin {NoRequest, request[r]} /\ request'[r].kind = "reset" =>
               uses[request'[r].token] = 0
           Once == \A t \in Tokens :
             uses'[t] # uses[t] /\ token[t].email \notin raced =>
               uses[t] = 0 /\ t = latest[token[t].email]
<1>1. LinkInv /\ [ResetNext]_resetVars => [Once]_resetVars
  <2> SUFFICES ASSUME LinkInv, ResetNext, NEW t \in Tokens, uses'[t] # uses[t],
                      token[t].email \notin raced
               PROVE  uses[t] = 0 /\ t = latest[token[t].email]
    OBVIOUS
  <2>1. PICK r \in Requests : CommitReset(r)
    BY DEF ResetNext, ForgotPassword, ResetPassword, Begin, CommitForgot, SendLink, Drop,
           Expire, Subscribed
  <2>2. t = request[r].token
    BY <2>1 DEF CommitReset, LinkInv, ResetTypeOK
  <2>3. Active(r) /\ Using(r) /\ ~Making(r)
    BY <2>1 DEF CommitReset, Active, Using, Making
  <2>4. token[t].email = request[r].email
    BY <2>2, <2>3 DEF LinkInv, SecretInv
  <2> QED BY <2>2, <2>3, <2>4 DEF LinkInv, PendingInv
<1>2. LinkInv /\ [ResetNext]_resetVars => [Fresh]_resetVars
  <2> SUFFICES ASSUME LinkInv, ResetNext, NEW r \in Requests,
                      request'[r] # NoRequest, request'[r] # request[r], request'[r].kind = "reset"
               PROVE  uses[request'[r].token] = 0
    OBVIOUS
  <2>1. request \in [Requests -> Request \union {NoRequest}]
    BY DEF LinkInv, ResetTypeOK
  <2>2. ASSUME NEW q \in Requests, CommitForgot(q) PROVE FALSE
    <3>1. request'[r] = [request[r] EXCEPT !.step = "mail"] /\ request[r].kind = "forgot"
          /\ request[r] \in Request
      BY <2>1, <2>2 DEF CommitForgot
    <3> QED BY <3>1, RequestFields
  <2>3. ASSUME NEW q \in Requests, NEW email \in Addresses, ForgotPassword(q, email) PROVE FALSE
    BY <2>1, <2>3 DEF ForgotPassword, Begin
  <2>4. PICK q \in Requests, t \in Tokens : ResetPassword(q, t)
    BY <2>1, <2>2, <2>3 DEF ResetNext, SendLink, CommitReset, Drop, Expire, Subscribed
  <2>5. request'[r].token = t /\ Live(t)
    BY <2>1, <2>4 DEF ResetPassword, Begin
  <2> QED BY <2>4, <2>5 DEF LinkInv, UsesInv, Live
<1>3. LinkInv /\ [ResetNext]_resetVars => [Fresh /\ Once]_resetVars
  BY <1>1, <1>2
<1> QED BY <1>3, LinkInvInit, LinkInvNext, PTL DEF ResetSpec, LinkWorksOnce
-----------------------------------------------------------------------------
(***************************************************************************)
(* Subscriptions.                                                          *)
(***************************************************************************)
Handles(w) == session[w] # NoSession

TypeOf(s, n) == events[s][n].type

\* The checkout is the first event and only that.
EventsInv ==
  /\ \A s \in Subs : \A n \in 1..Len(events[s]) : TypeOf(s, n) = "checkout" <=> n = 1
  /\ \A s \in Subs, n \in 1..MaxEvents : <<s, n>> \in acked => n \in 1..Len(events[s])

\* What a delivery is about to write keeps the address, or is the first to set it.
SessionInv ==
  \A w \in Workers : Handles(w) =>
    LET h == session[w] IN
      /\ h.n \in 1..Len(events[h.sub])
      /\ h.step = "commit" /\ h.loaded # NoRow =>
           row[h.sub] # NoRow /\ h.new.customer_email = h.loaded.customer_email
      /\ h.step = "commit" /\ h.loaded = NoRow /\ h.sub \notin disordered =>
           h.new.customer_email = EmailOf[h.sub]
      /\ h.step = "mail" => row[h.sub] # NoRow

\* Who will get its e-mail.
ToInv ==
  \A w \in Workers : Handles(w) =>
    LET h == session[w] IN
      /\ TypeOf(h.sub, h.n) = "checkout" => h.to = EmailOf[h.sub]
      /\ TypeOf(h.sub, h.n) \in {"deleted", "payment_failed"} /\ h.sub \notin disordered =>
           h.to \in Emails

\* While events come in order the row is there once the checkout is answered, and has
\* the customer's address.
RowsInv ==
  \A s \in Subs \ disordered :
    /\ <<s, 1>> \in acked => row[s] # NoRow
    /\ row[s] # NoRow => row[s].customer_email = EmailOf[s]

SubInv == TypeOK /\ EventsInv /\ SessionInv /\ ToInv /\ RowsInv /\ AnsweredIsAnnounced

LEMMA SessionFields ==
  ASSUME NEW h \in Session
  PROVE  /\ h # NoSession /\ h.sub \in Subs /\ h.n \in 1..MaxEvents
         /\ h.step \in {"commit", "mail"} /\ h.loaded \in Row \union {NoRow} /\ h.new \in Row
         /\ h.to \in Emails \union {NoEmail, NoMail}
BY SessionAssumption DEF Session

LEMMA RowFields ==
  ASSUME NEW r \in Row
  PROVE  /\ r # NoRow /\ r.tier \in Tiers /\ r.status \in Status /\ r.cancelled_at \in BOOLEAN
         /\ r.customer_email \in Emails \union {NoEmail}
BY RowAssumption DEF Row

LEMMA SubInvInit == Init => SubInv
<1> SUFFICES ASSUME Init PROVE SubInv
  OBVIOUS
<1>1. TypeOK
  BY BoundAssumption DEF Init, TypeOK
<1>2. EventsInv /\ SessionInv /\ ToInv
  BY DEF Init, EventsInv, SessionInv, ToInv, Handles, TypeOf
<1>3. RowsInv /\ AnsweredIsAnnounced
  BY DEF Init, RowsInv, AnsweredIsAnnounced
<1> QED BY <1>1, <1>2, <1>3 DEF SubInv

\* What Stripe reports is added to what it has reported.
LEMMA EmitPreserves ==
  ASSUME SubInv, NEW s \in Subs, NEW new \in Seq(Event), Emit(s, new),
         \A i \in 1..Len(new) : new[i].type = "checkout" <=> Len(events[s]) + i = 1
  PROVE  SubInv'
<1> USE DEF SubInv
<1>1. events[s] \in Seq(Event) /\ Len(events[s]) \in Nat
  BY DEF TypeOK
<1>2. PICK both \in Seq(Event) :
        /\ both = events[s] \o new /\ Len(both) = Len(events[s]) + Len(new)
        /\ \A i \in 1..Len(events[s]) : both[i] = events[s][i]
        /\ \A i \in 1..Len(new) : both[Len(events[s]) + i] = new[i]
  <2>1. /\ events[s] \o new \in Seq(Event) /\ Len(events[s] \o new) = Len(events[s]) + Len(new)
        /\ \A i \in 1..(Len(events[s]) + Len(new)) : (events[s] \o new)[i] =
             IF i <= Len(events[s]) THEN events[s][i] ELSE new[i - Len(events[s])]
    BY <1>1, ConcatProperties
  <2>2. Len(new) \in Nat
    BY LenProperties
  <2> DEFINE k == events[s] \o new
  <2>3. k \in Seq(Event) /\ k = events[s] \o new /\ Len(k) = Len(events[s]) + Len(new)
    BY <2>1
  <2>4. \A i \in 1..(Len(events[s]) + Len(new)) : k[i] =
          IF i <= Len(events[s]) THEN events[s][i] ELSE new[i - Len(events[s])]
    BY <2>1
  <2> HIDE DEF k
  <2>5. \A i \in 1..Len(events[s]) : k[i] = events[s][i]
    BY <1>1, <2>2, <2>4
  <2>6. \A i \in 1..Len(new) : k[Len(events[s]) + i] = new[i]
    <3> SUFFICES ASSUME NEW i \in 1..Len(new) PROVE k[Len(events[s]) + i] = new[i]
      OBVIOUS
    <3> DEFINE j == Len(events[s]) + i
    <3>1. /\ j \in 1..(Len(events[s]) + Len(new)) /\ ~(j <= Len(events[s]))
          /\ j - Len(events[s]) = i
      BY <1>1, <2>2
    <3> HIDE DEF j
    <3>2. k[j] = new[i]
      BY <2>4, <3>1
    <3> QED BY <3>2 DEF j
  <2> QED BY <2>3, <2>5, <2>6
<1>3. /\ events' = [events EXCEPT ![s] = both] /\ Len(both) <= MaxEvents
      /\ UNCHANGED <<row, session, acked, mailed, guessed, disordered>>
  BY <1>2 DEF Emit
<1>4. events'[s] = both /\ \A t \in Subs \ {s} : events'[t] = events[t]
  BY <1>3 DEF TypeOK
<1>5. \A t \in Subs : \A n \in 1..Len(events[t]) :
        n \in 1..Len(events'[t]) /\ events'[t][n] = events[t][n]
  <2>1. \A n \in 1..Len(events[s]) : n \in 1..Len(both) /\ both[n] = events[s][n]
    BY <1>1, <1>2
  <2> QED BY <1>4, <2>1
<1>6. TypeOK'
  BY <1>2, <1>3, <1>4 DEF TypeOK
<1>7. EventsInv'
  <2>1. \A n \in 1..Len(both) : both[n].type = "checkout" <=> n = 1
    <3> SUFFICES ASSUME NEW n \in 1..Len(both) PROVE both[n].type = "checkout" <=> n = 1
      OBVIOUS
    <3>1. CASE n <= Len(events[s])
      BY <1>1, <1>2, <3>1 DEF EventsInv, TypeOf
    <3>2. CASE n > Len(events[s])
      <4>1. PICK i \in 1..Len(new) : n = Len(events[s]) + i
        <5>1. n - Len(events[s]) \in 1..Len(new) /\ n = Len(events[s]) + (n - Len(events[s]))
          BY <1>1, <1>2, <3>2, LenProperties
        <5> QED BY <5>1
      <4> QED BY <1>2, <4>1
    <3> QED BY <1>1, <3>1, <3>2
  <2>2. \A t \in Subs : \A n \in 1..Len(events'[t]) : events'[t][n].type = "checkout" <=> n = 1
    BY <1>4, <2>1 DEF EventsInv, TypeOf
  <2>3. \A t \in Subs, n \in 1..MaxEvents : <<t, n>> \in acked' => n \in 1..Len(events'[t])
    BY <1>3, <1>5 DEF EventsInv
  <2> QED BY <2>2, <2>3 DEF EventsInv, TypeOf
<1>8. \A w \in Workers : Handles(w) => session[w].sub \in Subs
  BY SessionFields DEF Handles, TypeOK
<1>9. SessionInv'
  BY <1>3, <1>5, <1>8 DEF SessionInv, Handles
<1>10. ToInv'
  BY <1>3, <1>5, <1>8 DEF ToInv, SessionInv, Handles, TypeOf
<1>11. RowsInv'
  BY <1>3 DEF RowsInv
<1>12. AnsweredIsAnnounced'
  BY <1>3, <1>5 DEF AnsweredIsAnnounced, EventsInv
<1> QED BY <1>6, <1>7, <1>9, <1>10, <1>11, <1>12

\* An event in order that is not the checkout finds a row with the address.
LEMMA FindsRow ==
  ASSUME SubInv, NEW s \in Subs, NEW n \in 1..MaxEvents, NotesOrder(s, n), n # 1,
         s \notin disordered'
  PROVE  row[s] # NoRow /\ row[s].customer_email = EmailOf[s]
<1>1. s \notin disordered /\ InOrder(s, n)
  BY DEF NotesOrder
<1>2. 1 \in 1..(n - 1)
  BY BoundAssumption
<1>3. <<s, 1>> \in acked
  BY <1>1, <1>2 DEF InOrder
<1> QED BY <1>1, <1>3 DEF SubInv, RowsInv

LEMMA OpenPreserves ==
  ASSUME SubInv, NEW w \in Workers, NEW s \in Subs, NEW n \in 1..MaxEvents, NEW new \in Row,
         NEW to \in Emails \union {NoEmail, NoMail}, Open(w, s, n, new, to),
         n \in 1..Len(events[s]), guessed' \subseteq Subs,
         row[s] # NoRow => new.customer_email = row[s].customer_email,
         row[s] = NoRow /\ s \notin disordered' => new.customer_email = EmailOf[s],
         TypeOf(s, n) = "checkout" => to = EmailOf[s],
         TypeOf(s, n) \in {"deleted", "payment_failed"} /\ s \notin disordered' => to \in Emails
  PROVE  SubInv'
<1> USE DEF SubInv
<1> DEFINE h == [sub |-> s, n |-> n, step |-> "commit", loaded |-> row[s], new |-> new, to |-> to]
<1>1. h \in Session
  BY DEF Session, TypeOK
<1>2. /\ h.sub = s /\ h.n = n /\ h.step = "commit" /\ h.loaded = row[s] /\ h.new = new
      /\ h.to = to
  OBVIOUS
<1>3. /\ session' = [session EXCEPT ![w] = h]
      /\ UNCHANGED <<events, row, acked, mailed>> /\ NotesOrder(s, n)
  BY DEF Open
<1> HIDE DEF h
<1>4. session'[w] = h /\ \A v \in Workers \ {w} : session'[v] = session[v]
  BY <1>3 DEF TypeOK
<1>5. disordered \subseteq disordered' /\ disordered' \subseteq Subs
  BY <1>3 DEF NotesOrder, TypeOK
<1>6. TypeOK'
  BY <1>1, <1>3, <1>5 DEF TypeOK
<1>7. EventsInv'
  BY <1>3 DEF EventsInv, TypeOf
<1>8. SessionInv'
  <2> SUFFICES ASSUME NEW v \in Workers, Handles(v)'
               PROVE  LET k == session'[v] IN
                        /\ k.n \in 1..Len(events[k.sub])
                        /\ k.step = "commit" /\ k.loaded # NoRow =>
                             row[k.sub] # NoRow /\ k.new.customer_email = k.loaded.customer_email
                        /\ k.step = "commit" /\ k.loaded = NoRow /\ k.sub \notin disordered' =>
                             k.new.customer_email = EmailOf[k.sub]
                        /\ k.step = "mail" => row[k.sub] # NoRow
    BY <1>3 DEF SessionInv
  <2>1. CASE v = w
    BY <1>2, <1>4, <2>1
  <2>2. CASE v # w
    BY <1>4, <1>5, <2>2 DEF SessionInv, Handles
  <2> QED BY <2>1, <2>2
<1>9. ToInv'
  <2> SUFFICES ASSUME NEW v \in Workers, Handles(v)'
               PROVE  LET k == session'[v] IN
                        /\ TypeOf(k.sub, k.n) = "checkout" => k.to = EmailOf[k.sub]
                        /\ TypeOf(k.sub, k.n) \in {"deleted", "payment_failed"}
                             /\ k.sub \notin disordered' => k.to \in Emails
    BY <1>3 DEF ToInv, TypeOf
  <2>1. CASE v = w
    BY <1>2, <1>4, <2>1
  <2>2. CASE v # w
    BY <1>4, <1>5, <2>2 DEF ToInv, Handles
  <2> QED BY <2>1, <2>2
<1>10. RowsInv'
  BY <1>3, <1>5 DEF RowsInv
<1>11. AnsweredIsAnnounced'
  BY <1>3, <1>5 DEF AnsweredIsAnnounced
<1> QED BY <1>6, <1>7, <1>8, <1>9, <1>10, <1>11

LEMMA UpsertedRow ==
  ASSUME NEW sub \in Row \union {NoRow}, NEW tier \in Tiers, NEW status \in Status,
         NEW cancelled_at \in BOOLEAN, NEW email \in Emails \union {NoEmail}
  PROVE  /\ Upserted(sub, tier, status, cancelled_at, email) \in Row
         /\ sub = NoRow =>
              Upserted(sub, tier, status, cancelled_at, email).customer_email = email
         /\ sub # NoRow =>
              Upserted(sub, tier, status, cancelled_at, email).customer_email
                = sub.customer_email
<1>1. sub # NoRow => sub.customer_email \in Emails \union {NoEmail}
  BY RowFields
<1> QED BY <1>1 DEF Upserted, Row

LEMMA TierInTable == \A price : TierFromPriceId(price) \in Tiers
<1>1. "starter" \in Tiers
  BY DEF Tiers
<1> QED BY <1>1, PriceAssumption DEF TierFromPriceId

LEMMA StatusInTable == \A status : SubscriptionStatusFromStripe(status) \in Status
BY DEF SubscriptionStatusFromStripe, Status

LEMMA EventAt ==
  ASSUME SubInv, NEW s \in Subs, NEW n, NEW type, Delivered(s, n, type)
  PROVE  n \in 1..Len(events[s]) /\ TypeOf(s, n) = type /\ events[s][n] \in Event
<1>1. events[s] \in Seq(Event)
  BY DEF SubInv, TypeOK
<1>2. n \in 1..Len(events[s])
  BY <1>1, LenProperties DEF Delivered
<1> QED BY <1>1, <1>2, ElementOfSeq DEF Delivered, TypeOf

LEMMA ReceivePreserves ==
  ASSUME SubInv, NEW w \in Workers, NEW s \in Subs, NEW n \in 1..MaxEvents, Receive(w, s, n)
  PROVE  SubInv'
<1>1. row[s] \in Row \union {NoRow} /\ EmailOf[s] \in Emails
      /\ guessed \subseteq Subs
  BY EmailAssumption DEF SubInv, TypeOK
<1>2. {"active", "past_due", "cancelled"} \subseteq Status
  BY DEF Status
<1>3. Addressee(row[s]) \in Emails \union {NoEmail, NoMail}
  BY <1>1, RowFields DEF Addressee
<1>4. CASE CheckoutSessionCompleted(w, s, n)
  <2>1. Delivered(s, n, "checkout")
    BY <1>4 DEF CheckoutSessionCompleted
  <2>2. n \in 1..Len(events[s]) /\ TypeOf(s, n) = "checkout" /\ events[s][n] \in Event
    BY <2>1, EventAt
  <2>3. n = 1
    BY <2>2 DEF SubInv, EventsInv
  <2>4. events[s][n].metadata # NoTier => events[s][n].metadata \in Tiers
    BY <2>2 DEF Event
  <2>5. PICK tier \in Tiers :
          /\ Open(w, s, n, Upserted(row[s], tier, "active", FALSE, EmailOf[s]), EmailOf[s])
          /\ guessed' \subseteq Subs
    <3>1. PICK retrieved \in BOOLEAN :
            LET e == events[s][n]
                tier == IF e.metadata # NoTier THEN e.metadata
                        ELSE IF retrieved THEN TierFromPriceId(Last(s).price) ELSE "starter"
            IN /\ Open(w, s, n, Upserted(row[s], tier, "active", FALSE, EmailOf[s]), EmailOf[s])
               /\ guessed' = IF e.metadata = NoTier /\ ~retrieved
                             THEN guessed \union {s} ELSE guessed
      BY <1>4 DEF CheckoutSessionCompleted
    <3> DEFINE tier == IF events[s][n].metadata # NoTier THEN events[s][n].metadata
                       ELSE IF retrieved THEN TierFromPriceId(Last(s).price) ELSE "starter"
    <3>2. tier \in Tiers
      BY <2>4, TierInTable DEF Tiers
    <3>3. Open(w, s, n, Upserted(row[s], tier, "active", FALSE, EmailOf[s]), EmailOf[s])
      BY <3>1
    <3>4. guessed' \subseteq Subs
      BY <1>1, <3>1
    <3> HIDE DEF tier
    <3> QED BY <3>2, <3>3, <3>4
  <2> DEFINE new == Upserted(row[s], tier, "active", FALSE, EmailOf[s])
  <2>6. /\ new \in Row
        /\ row[s] = NoRow => new.customer_email = EmailOf[s]
        /\ row[s] # NoRow => new.customer_email = row[s].customer_email
    BY <1>1, <1>2, UpsertedRow
  <2>7. Open(w, s, n, new, EmailOf[s])
    BY <2>5
  <2> HIDE DEF new
  <2> QED BY <1>1, <2>2, <2>5, <2>6, <2>7, OpenPreserves
<1>5. CASE SubscriptionUpdated(w, s, n)
  <2>1. Delivered(s, n, "updated")
    BY <1>5 DEF SubscriptionUpdated
  <2>2. n \in 1..Len(events[s]) /\ TypeOf(s, n) = "updated"
    BY <2>1, EventAt
  <2>3. n # 1
    BY <2>2 DEF SubInv, EventsInv
  <2> DEFINE new_tier == TierFromPriceId(events[s][n].price)
             new_status == SubscriptionStatusFromStripe(events[s][n].status)
             new == Upserted(row[s], new_tier, new_status, FALSE, NoEmail)
             to == IF row[s] # NoRow /\ row[s].tier # new_tier THEN Addressee(row[s]) ELSE NoMail
  <2>4. Open(w, s, n, new, to) /\ guessed' = guessed
    BY <1>5 DEF SubscriptionUpdated
  <2>5. new_tier \in Tiers /\ new_status \in Status
    BY TierInTable, StatusInTable
  <2> HIDE DEF new_tier, new_status
  <2>6. /\ Upserted(row[s], new_tier, new_status, FALSE, NoEmail) \in Row
        /\ row[s] # NoRow =>
             Upserted(row[s], new_tier, new_status, FALSE, NoEmail).customer_email
               = row[s].customer_email
    <3>1. NoEmail \in Emails \union {NoEmail}
      OBVIOUS
    <3> QED BY <1>1, <2>5, <3>1, UpsertedRow
  <2>7. to \in Emails \union {NoEmail, NoMail}
    BY <1>3
  <2>10. /\ new \in Row
         /\ row[s] # NoRow => new.customer_email = row[s].customer_email
    BY <2>6
  <2> HIDE DEF new, to
  <2>8. NotesOrder(s, n)
    BY <2>4 DEF Open
  <2>9. row[s] = NoRow => s \in disordered'
    BY <2>3, <2>8, FindsRow
  <2> QED BY <1>1, <2>2, <2>4, <2>7, <2>9, <2>10, OpenPreserves
<1>6. CASE SubscriptionDeleted(w, s, n)
  <2>1. Delivered(s, n, "deleted")
    BY <1>6 DEF SubscriptionDeleted
  <2>2. n \in 1..Len(events[s]) /\ TypeOf(s, n) = "deleted"
    BY <2>1, EventAt
  <2>3. n # 1
    BY <2>2 DEF SubInv, EventsInv
  <2> DEFINE tier == IF row[s] = NoRow THEN "starter" ELSE row[s].tier
             new == Upserted(row[s], tier, "cancelled", TRUE, NoEmail)
             to == Addressee(row[s])
  <2>4. Open(w, s, n, new, to) /\ guessed' = guessed
    BY <1>6 DEF SubscriptionDeleted
  <2>5. tier \in Tiers
    BY <1>1, RowFields DEF Tiers
  <2> HIDE DEF tier
  <2>6. /\ Upserted(row[s], tier, "cancelled", TRUE, NoEmail) \in Row
        /\ row[s] # NoRow =>
             Upserted(row[s], tier, "cancelled", TRUE, NoEmail).customer_email
               = row[s].customer_email
    <3>1. NoEmail \in Emails \union {NoEmail} /\ "cancelled" \in Status /\ TRUE \in BOOLEAN
      BY <1>2
    <3> QED BY <1>1, <2>5, <3>1, UpsertedRow
  <2>7. NotesOrder(s, n)
    BY <2>4 DEF Open
  <2>8. s \notin disordered' => row[s] # NoRow /\ row[s].customer_email = EmailOf[s]
    BY <2>3, <2>7, FindsRow
  <2>9. s \notin disordered' => to \in Emails
    BY <1>1, <2>8, EmailAssumption DEF Addressee
  <2>11. /\ new \in Row
         /\ row[s] # NoRow => new.customer_email = row[s].customer_email
    BY <2>6
  <2> HIDE DEF new, to
  <2>10. to \in Emails \union {NoEmail, NoMail}
    BY <1>3 DEF to
  <2> QED BY <1>1, <2>2, <2>4, <2>8, <2>9, <2>10, <2>11, OpenPreserves
<1>7. CASE InvoicePaymentFailed(w, s, n)
  <2>1. Delivered(s, n, "payment_failed") /\ row[s] # NoRow
    BY <1>7 DEF InvoicePaymentFailed
  <2>2. n \in 1..Len(events[s]) /\ TypeOf(s, n) = "payment_failed"
    BY <2>1, EventAt
  <2>3. n # 1
    BY <2>2 DEF SubInv, EventsInv
  <2> DEFINE new == [row[s] EXCEPT !.status = "past_due"]
  <2>4. Open(w, s, n, new, row[s].customer_email) /\ guessed' = guessed
    BY <1>7 DEF InvoicePaymentFailed
  <2>5. new \in Row /\ new.customer_email = row[s].customer_email
    BY <1>1, <2>1 DEF Row, Status
  <2> HIDE DEF new
  <2>6. row[s].customer_email \in Emails \union {NoEmail, NoMail}
    BY <1>1, <2>1, RowFields
  <2>7. NotesOrder(s, n)
    BY <2>4 DEF Open
  <2>8. s \notin disordered' => row[s].customer_email \in Emails
    BY <1>1, <2>3, <2>7, FindsRow
  <2> QED BY <1>1, <2>1, <2>2, <2>4, <2>5, <2>6, <2>8, OpenPreserves
<1> QED BY <1>4, <1>5, <1>6, <1>7 DEF Receive

LEMMA UpsertPreserves ==
  ASSUME SubInv, NEW w \in Workers, UpsertSubscription(w)
  PROVE  SubInv'
<1> USE DEF SubInv
<1>1. PICK h \in Session : h = session[w]
  BY DEF UpsertSubscription, TypeOK
<1>2. PICK sub \in Row : sub = row[h.sub]
  BY <1>1, SessionFields DEF UpsertSubscription, TypeOK
<1>3. PICK new \in Row :
        /\ new.customer_email = sub.customer_email
        /\ session' = [session EXCEPT ![w] = [h EXCEPT !.loaded = sub, !.new = new]]
  <2> DEFINE new == Upserted(sub, h.new.tier, h.new.status, h.new.cancelled_at,
                             h.new.customer_email)
  <2>1. new \in Row /\ new.customer_email = sub.customer_email
    BY RowFields, SessionFields, UpsertedRow
  <2>2. session' = [session EXCEPT ![w] = [h EXCEPT !.loaded = sub, !.new = new]]
    BY <1>1, <1>2 DEF UpsertSubscription, Session
  <2> HIDE DEF new
  <2> QED BY <2>1, <2>2
<1>4. PICK k \in Session :
        /\ session' = [session EXCEPT ![w] = k]
        /\ k.sub = h.sub /\ k.n = h.n /\ k.step = h.step /\ k.loaded = sub /\ k.new = new
        /\ k.to = h.to
  <2> DEFINE k == [h EXCEPT !.loaded = sub, !.new = new]
  <2>1. /\ k \in Session /\ k.sub = h.sub /\ k.n = h.n /\ k.step = h.step /\ k.loaded = sub
        /\ k.new = new /\ k.to = h.to
    BY DEF Session
  <2>2. session' = [session EXCEPT ![w] = k]
    BY <1>3
  <2> HIDE DEF k
  <2> QED BY <2>1, <2>2
<1>5. UNCHANGED <<events, row, acked, mailed, guessed, disordered>>
  BY DEF UpsertSubscription
<1>6. session'[w] = k /\ \A v \in Workers \ {w} : session'[v] = session[v]
  BY <1>4 DEF TypeOK
<1>7. Handles(w) /\ h.step = "commit"
  BY <1>1 DEF UpsertSubscription, Handles
<1>8. TypeOK'
  BY <1>4, <1>5 DEF TypeOK
<1>9. EventsInv' /\ RowsInv' /\ AnsweredIsAnnounced'
  BY <1>5 DEF EventsInv, RowsInv, AnsweredIsAnnounced, TypeOf
<1>10. SessionInv'
  <2> SUFFICES ASSUME NEW v \in Workers, Handles(v)'
               PROVE  LET g == session'[v] IN
                        /\ g.n \in 1..Len(events[g.sub])
                        /\ g.step = "commit" /\ g.loaded # NoRow =>
                             row[g.sub] # NoRow /\ g.new.customer_email = g.loaded.customer_email
                        /\ g.step = "commit" /\ g.loaded = NoRow /\ g.sub \notin disordered =>
                             g.new.customer_email = EmailOf[g.sub]
                        /\ g.step = "mail" => row[g.sub] # NoRow
    BY <1>5 DEF SessionInv
  <2>1. CASE v = w
    BY <1>1, <1>2, <1>3, <1>4, <1>6, <1>7, <2>1, RowFields DEF SessionInv
  <2>2. CASE v # w
    BY <1>6, <2>2 DEF SessionInv, Handles
  <2> QED BY <2>1, <2>2
<1>11. ToInv'
  <2> SUFFICES ASSUME NEW v \in Workers, Handles(v)'
               PROVE  LET g == session'[v] IN
                        /\ TypeOf(g.sub, g.n) = "checkout" => g.to = EmailOf[g.sub]
                        /\ TypeOf(g.sub, g.n) \in {"deleted", "payment_failed"}
                             /\ g.sub \notin disordered => g.to \in Emails
    BY <1>5 DEF ToInv, TypeOf
  <2>1. CASE v = w
    BY <1>1, <1>4, <1>6, <1>7, <2>1 DEF ToInv
  <2>2. CASE v # w
    BY <1>6, <2>2 DEF ToInv, Handles
  <2> QED BY <2>1, <2>2
<1> QED BY <1>8, <1>9, <1>10, <1>11

\* A commit makes the row, or leaves its address.
LEMMA CommitWrites ==
  ASSUME SubInv, NEW w \in Workers, Commit(w)
  PROVE  \E h \in Session, r \in Row :
           /\ h = session[w] /\ h.step = "commit"
           /\ row' = [row EXCEPT ![h.sub] = r]
           /\ row[h.sub] # NoRow => r.customer_email = row[h.sub].customer_email
           /\ row[h.sub] = NoRow => h.loaded = NoRow /\ r = h.new
<1>1. PICK h \in Session : h = session[w]
  BY DEF Commit, SubInv, TypeOK
<1>2. /\ h.step = "commit" /\ Handles(w)
      /\ row' = [row EXCEPT ![h.sub] =
                   IF h.loaded = NoRow THEN h.new ELSE MergedRow(@, h.loaded, h.new)]
      /\ h.loaded = NoRow => row[h.sub] = NoRow
  BY <1>1 DEF Commit, Conflicts, Handles
<1>3. h.loaded # NoRow => row[h.sub] # NoRow /\ h.new.customer_email = h.loaded.customer_email
  BY <1>1, <1>2 DEF SubInv, SessionInv
<1>4. h.sub \in Subs /\ h.new \in Row /\ h.loaded \in Row \union {NoRow}
  BY SessionFields
<1>5. CASE h.loaded = NoRow
  BY <1>1, <1>2, <1>4, <1>5
<1>6. CASE h.loaded # NoRow
  <2>1. PICK c \in Row : c = row[h.sub]
    BY <1>3, <1>4, <1>6 DEF SubInv, TypeOK
  <2>2. PICK l \in Row : l = h.loaded
    BY <1>4, <1>6
  <2> DEFINE r == MergedRow(c, l, h.new)
  <2>3. r \in Row
    BY <1>4, RowFields DEF MergedRow, Merged, Row
  <2>4. r.customer_email = c.customer_email
    BY <1>3, <1>6, <2>2 DEF MergedRow, Merged
  <2>5. row' = [row EXCEPT ![h.sub] = r]
    BY <1>2, <1>4, <1>6, <2>1, <2>2 DEF SubInv, TypeOK
  <2> HIDE DEF r
  <2> QED BY <1>1, <1>2, <1>3, <1>6, <2>1, <2>3, <2>4, <2>5
<1> QED BY <1>5, <1>6

LEMMA CommitPreserves ==
  ASSUME SubInv, NEW w \in Workers, Commit(w)
  PROVE  SubInv'
<1> USE DEF SubInv
<1>1. PICK h \in Session, r \in Row :
        /\ h = session[w] /\ h.step = "commit"
        /\ row' = [row EXCEPT ![h.sub] = r]
        /\ row[h.sub] # NoRow => r.customer_email = row[h.sub].customer_email
        /\ row[h.sub] = NoRow => h.loaded = NoRow /\ r = h.new
  BY CommitWrites
<1>2. PICK k \in Session :
        /\ session' = [session EXCEPT ![w] = k]
        /\ k.sub = h.sub /\ k.n = h.n /\ k.step = "mail" /\ k.to = h.to
  <2> DEFINE k == [h EXCEPT !.step = "mail"]
  <2>1. k \in Session /\ k.sub = h.sub /\ k.n = h.n /\ k.step = "mail" /\ k.to = h.to
    BY DEF Session
  <2>2. session' = [session EXCEPT ![w] = k]
    BY <1>1 DEF Commit
  <2> HIDE DEF k
  <2> QED BY <2>1, <2>2
<1>3. UNCHANGED <<events, acked, mailed, guessed, disordered>>
  BY DEF Commit
<1>4. session'[w] = k /\ \A v \in Workers \ {w} : session'[v] = session[v]
  BY <1>2 DEF TypeOK
<1>5. h.sub \in Subs /\ r # NoRow
  BY SessionFields, RowFields
<1>6. row'[h.sub] = r /\ \A s \in Subs \ {h.sub} : row'[s] = row[s]
  BY <1>1, <1>5 DEF TypeOK
<1>7. \A s \in Subs : row[s] # NoRow => row'[s] # NoRow
  BY <1>5, <1>6
<1>8. Handles(w)
  BY DEF Commit, Handles
<1>9. TypeOK'
  BY <1>1, <1>2, <1>3, <1>5 DEF TypeOK
<1>10. EventsInv' /\ AnsweredIsAnnounced'
  BY <1>3 DEF EventsInv, AnsweredIsAnnounced, TypeOf
<1>11. \A v \in Workers \ {w} : Handles(v)' => Handles(v) /\ session[v].sub \in Subs
  BY <1>4, SessionFields DEF Handles, TypeOK
<1>12. SessionInv'
  <2> SUFFICES ASSUME NEW v \in Workers, Handles(v)'
               PROVE  LET g == session'[v] IN
                        /\ g.n \in 1..Len(events[g.sub])
                        /\ g.step = "commit" /\ g.loaded # NoRow =>
                             row'[g.sub] # NoRow /\ g.new.customer_email = g.loaded.customer_email
                        /\ g.step = "commit" /\ g.loaded = NoRow /\ g.sub \notin disordered =>
                             g.new.customer_email = EmailOf[g.sub]
                        /\ g.step = "mail" => row'[g.sub] # NoRow
    BY <1>3 DEF SessionInv
  <2>1. CASE v = w
    BY <1>1, <1>2, <1>4, <1>5, <1>6, <1>8, <2>1 DEF SessionInv
  <2>2. CASE v # w
    BY <1>4, <1>7, <1>11, <2>2 DEF SessionInv
  <2> QED BY <2>1, <2>2
<1>13. ToInv'
  <2> SUFFICES ASSUME NEW v \in Workers, Handles(v)'
               PROVE  LET g == session'[v] IN
                        /\ TypeOf(g.sub, g.n) = "checkout" => g.to = EmailOf[g.sub]
                        /\ TypeOf(g.sub, g.n) \in {"deleted", "payment_failed"}
                             /\ g.sub \notin disordered => g.to \in Emails
    BY <1>3 DEF ToInv, TypeOf
  <2>1. CASE v = w
    BY <1>1, <1>2, <1>4, <1>8, <2>1 DEF ToInv
  <2>2. CASE v # w
    BY <1>4, <1>11, <2>2 DEF ToInv
  <2> QED BY <2>1, <2>2
<1>14. RowsInv'
  <2> SUFFICES ASSUME NEW s \in Subs \ disordered
               PROVE  /\ <<s, 1>> \in acked => row'[s] # NoRow
                      /\ row'[s] # NoRow => row'[s].customer_email = EmailOf[s]
    BY <1>3 DEF RowsInv
  <2>1. CASE s = h.sub
    <3>1. CASE row[s] = NoRow
      BY <1>1, <1>5, <1>6, <1>8, <2>1, <3>1 DEF SessionInv
    <3>2. CASE row[s] # NoRow
      BY <1>1, <1>5, <1>6, <2>1, <3>2 DEF RowsInv
    <3> QED BY <3>1, <3>2
  <2>2. CASE s # h.sub
    BY <1>6, <2>2 DEF RowsInv
  <2> QED BY <2>1, <2>2
<1> QED BY <1>9, <1>10, <1>12, <1>13, <1>14

\* A delivery that ends, with an answer or without.
LEMMA EndPreserves ==
  ASSUME SubInv, NEW w \in Workers, session' = [session EXCEPT ![w] = NoSession],
         UNCHANGED <<events, row, guessed, disordered>>,
         acked' \subseteq EventIds, mailed' \subseteq EventIds, mailed \subseteq mailed',
         \A s \in Subs, n \in 1..MaxEvents : <<s, n>> \in acked' =>
           \/ <<s, n>> \in acked
           \/ /\ n \in 1..Len(events[s]) /\ row[s] # NoRow
              /\ \/ <<s, n>> \in mailed'
                 \/ events[s][n].type = "updated"
                 \/ events[s][n].type # "checkout" /\ s \in disordered
  PROVE  SubInv'
<1> USE DEF SubInv
<1>1. TypeOK'
  BY DEF TypeOK
<1>2. EventsInv'
  BY DEF EventsInv, TypeOf
<1>3. \A v \in Workers : Handles(v)' => Handles(v) /\ session'[v] = session[v]
  BY DEF Handles, TypeOK
<1>4. SessionInv'
  BY <1>3 DEF SessionInv
<1>5. ToInv'
  BY <1>3 DEF ToInv, TypeOf
<1>6. RowsInv'
  <2> SUFFICES ASSUME NEW s \in Subs \ disordered
               PROVE  /\ <<s, 1>> \in acked' => row[s] # NoRow
                      /\ row[s] # NoRow => row[s].customer_email = EmailOf[s]
    BY DEF RowsInv
  <2>1. <<s, 1>> \in acked' => 1 \in 1..MaxEvents
    BY DEF EventIds
  <2> QED BY <2>1 DEF RowsInv
<1>7. AnsweredIsAnnounced'
  BY DEF AnsweredIsAnnounced
<1> QED BY <1>1, <1>2, <1>4, <1>5, <1>6, <1>7

LEMMA MailPreserves ==
  ASSUME SubInv, NEW w \in Workers, Mail(w)
  PROVE  SubInv'
<1>1. PICK h \in Session : h = session[w]
  BY DEF Mail, SubInv, TypeOK
<1>2. /\ h.step = "mail" /\ Handles(w)
      /\ acked' = acked \union {<<h.sub, h.n>>}
      /\ mailed' = IF h.to \in Emails THEN mailed \union {<<h.sub, h.n>>} ELSE mailed
      /\ session' = [session EXCEPT ![w] = NoSession]
      /\ UNCHANGED <<events, row, guessed, disordered>>
  BY <1>1 DEF Mail, Handles
<1>3. h.sub \in Subs /\ h.n \in 1..MaxEvents
  BY SessionFields
<1>4. h.n \in 1..Len(events[h.sub]) /\ row[h.sub] # NoRow
  BY <1>1, <1>2 DEF SubInv, SessionInv
<1>5. events[h.sub][h.n] \in Event
  <2>1. events[h.sub] \in Seq(Event)
    BY <1>3 DEF SubInv, TypeOK
  <2> QED BY <1>4, <2>1, ElementOfSeq
<1>6. \/ <<h.sub, h.n>> \in mailed'
      \/ events[h.sub][h.n].type = "updated"
      \/ events[h.sub][h.n].type # "checkout" /\ h.sub \in disordered
  <2>1. events[h.sub][h.n].type = "checkout" => h.to \in Emails
    BY <1>1, <1>2, <1>3, EmailAssumption DEF SubInv, ToInv, TypeOf
  <2>2. events[h.sub][h.n].type \in {"deleted", "payment_failed"} /\ h.sub \notin disordered =>
          h.to \in Emails
    BY <1>1, <1>2 DEF SubInv, ToInv, TypeOf
  <2>3. events[h.sub][h.n].type \in {"checkout", "updated", "deleted", "payment_failed"}
    BY <1>5 DEF Event
  <2> QED BY <1>2, <2>1, <2>2, <2>3
<1>7. acked' \subseteq EventIds /\ mailed' \subseteq EventIds /\ mailed \subseteq mailed'
  BY <1>2, <1>3 DEF SubInv, TypeOK, EventIds
<1>8. \A s \in Subs, n \in 1..MaxEvents : <<s, n>> \in acked' =>
           \/ <<s, n>> \in acked
           \/ /\ n \in 1..Len(events[s]) /\ row[s] # NoRow
              /\ \/ <<s, n>> \in mailed'
                 \/ events[s][n].type = "updated"
                 \/ events[s][n].type # "checkout" /\ s \in disordered
  BY <1>2, <1>4, <1>6
<1> QED BY <1>2, <1>7, <1>8, EndPreserves

LEMMA FailPreserves ==
  ASSUME SubInv, NEW w \in Workers, Fail(w)
  PROVE  SubInv'
<1>1. /\ session' = [session EXCEPT ![w] = NoSession]
      /\ UNCHANGED <<events, row, acked, mailed, guessed, disordered>>
  BY DEF Fail
<1>2. acked' \subseteq EventIds /\ mailed' \subseteq EventIds /\ mailed \subseteq mailed'
  BY <1>1 DEF SubInv, TypeOK
<1>3. \A s \in Subs, n \in 1..MaxEvents : <<s, n>> \in acked' => <<s, n>> \in acked
  BY <1>1
<1> QED BY <1>1, <1>2, <1>3, EndPreserves

LEMMA UnknownPreserves ==
  ASSUME SubInv, NEW s \in Subs, NEW n \in 1..MaxEvents, InvoiceOfUnknown(s, n)
  PROVE  SubInv'
<1> USE DEF SubInv
<1>1. /\ row[s] = NoRow /\ acked' = acked \union {<<s, n>>} /\ NotesOrder(s, n)
      /\ UNCHANGED <<events, row, session, mailed, guessed>>
  BY DEF InvoiceOfUnknown
<1>2. n \in 1..Len(events[s]) /\ TypeOf(s, n) = "payment_failed"
  BY EventAt DEF InvoiceOfUnknown
<1>3. s \in disordered'
  <2>1. n # 1
    BY <1>2 DEF EventsInv
  <2> QED BY <1>1, <2>1, FindsRow
<1>4. disordered \subseteq disordered' /\ disordered' \subseteq Subs
  BY <1>1 DEF NotesOrder, TypeOK
<1>5. TypeOK'
  BY <1>1, <1>4 DEF TypeOK, EventIds
<1>6. EventsInv'
  BY <1>1, <1>2 DEF EventsInv, TypeOf
<1>7. SessionInv' /\ ToInv'
  BY <1>1, <1>4 DEF SessionInv, ToInv, Handles, TypeOf
<1>8. RowsInv'
  BY <1>1, <1>3, <1>4 DEF RowsInv
<1>9. AnsweredIsAnnounced'
  BY <1>1, <1>2, <1>3, <1>4 DEF AnsweredIsAnnounced, TypeOf
<1> QED BY <1>5, <1>6, <1>7, <1>8, <1>9

LEMMA ReportType ==
  ASSUME NEW type \in {"checkout", "updated", "deleted", "payment_failed"},
         NEW price \in Prices, NEW metadata \in Tiers \union {NoTier},
         NEW status \in StripeStatus
  PROVE  /\ Report(type, price, metadata, status) \in Event
         /\ Report(type, price, metadata, status).type = type
BY DEF Report, Event

LEMMA StripePreserves ==
  ASSUME SubInv, NEW s \in Subs,
         \/ \E price \in Prices : Subscribe(s, price)
         \/ \E price \in Prices, status \in StripeStatus : Change(s, price, status)
         \/ FailPayment(s)
         \/ Cancel(s)
  PROVE  SubInv'
<1>1. events[s] \in Seq(Event)
  BY DEF SubInv, TypeOK
<1>2. Alive(s) => Len(events[s]) \in Nat \ {0} /\ Last(s).price \in Prices
  <2> SUFFICES ASSUME Alive(s) PROVE Len(events[s]) \in Nat \ {0} /\ Last(s).price \in Prices
    OBVIOUS
  <2>1. Len(events[s]) \in Nat \ {0}
    BY <1>1, EmptySeq DEF Alive
  <2>2. Last(s) \in Event
    <3>1. Len(events[s]) \in 1..Len(events[s])
      BY <2>1
    <3> QED BY <1>1, <3>1, ElementOfSeq DEF Last
  <2> QED BY <2>1, <2>2 DEF Event
<1>3. CASE \E price \in Prices : Subscribe(s, price)
  <2>1. PICK price \in Prices, metadata \in Tiers \union {NoTier} :
          events[s] = <<>> /\ Emit(s, <<Report("checkout", price, metadata, "active")>>)
    BY <1>3, TierInTable DEF Subscribe
  <2>2. PICK e \in Event : e = Report("checkout", price, metadata, "active") /\ e.type = "checkout"
    <3>1. "active" \in StripeStatus
      BY DEF StripeStatus
    <3> QED BY <3>1, ReportType
  <2>3. <<e>> \in Seq(Event) /\ Len(<<e>>) = 1 /\ <<e>>[1] = e /\ Emit(s, <<e>>)
    BY <2>1, <2>2
  <2>4. Len(events[s]) = 0
    BY <2>1
  <2> HIDE <2>1
  <2>5. \A i \in 1..Len(<<e>>) : <<e>>[i].type = "checkout" <=> Len(events[s]) + i = 1
    BY <2>2, <2>3, <2>4
  <2> QED BY <2>3, <2>5, EmitPreserves
<1>4. CASE \E price \in Prices, status \in StripeStatus : Change(s, price, status)
  <2>1. PICK price \in Prices, status \in StripeStatus :
          Alive(s) /\ Emit(s, <<Report("updated", price, NoTier, status)>>)
    BY <1>4 DEF Change
  <2>2. PICK e \in Event : e = Report("updated", price, NoTier, status) /\ e.type = "updated"
    <3>1. NoTier \in Tiers \union {NoTier}
      OBVIOUS
    <3> QED BY <3>1, ReportType
  <2>3. <<e>> \in Seq(Event) /\ Len(<<e>>) = 1 /\ <<e>>[1] = e /\ Emit(s, <<e>>)
    BY <2>1, <2>2
  <2>4. \A i \in 1..Len(<<e>>) : <<e>>[i].type = "checkout" <=> Len(events[s]) + i = 1
    BY <1>2, <2>1, <2>2, <2>3
  <2> QED BY <2>3, <2>4, EmitPreserves
<1>5. CASE FailPayment(s)
  <2>1. Alive(s) /\ Emit(s, <<Report("updated", Last(s).price, NoTier, "past_due"),
                             Report("payment_failed", Last(s).price, NoTier, "past_due")>>)
    BY <1>5 DEF FailPayment
  <2>2. PICK d \in Event : d = Report("updated", Last(s).price, NoTier, "past_due")
                          /\ d.type = "updated"
    BY <1>2, <2>1 DEF Report, Event, StripeStatus
  <2>3. PICK e \in Event : e = Report("payment_failed", Last(s).price, NoTier, "past_due")
                          /\ e.type = "payment_failed"
    BY <1>2, <2>1 DEF Report, Event, StripeStatus
  <2>4. /\ <<d, e>> \in Seq(Event) /\ Len(<<d, e>>) = 2 /\ <<d, e>>[1] = d /\ <<d, e>>[2] = e
        /\ Emit(s, <<d, e>>)
    BY <2>1, <2>2, <2>3
  <2>5. \A i \in 1..Len(<<d, e>>) : <<d, e>>[i].type = "checkout" <=> Len(events[s]) + i = 1
    BY <1>2, <2>1, <2>2, <2>3, <2>4
  <2> QED BY <2>4, <2>5, EmitPreserves
<1>6. CASE Cancel(s)
  <2>1. Alive(s) /\ Emit(s, <<Report("deleted", Last(s).price, NoTier, "canceled")>>)
    BY <1>6 DEF Cancel
  <2>2. PICK e \in Event : e = Report("deleted", Last(s).price, NoTier, "canceled")
                          /\ e.type = "deleted"
    BY <1>2, <2>1 DEF Report, Event, StripeStatus
  <2>3. <<e>> \in Seq(Event) /\ Len(<<e>>) = 1 /\ <<e>>[1] = e /\ Emit(s, <<e>>)
    BY <2>1, <2>2
  <2>4. \A i \in 1..Len(<<e>>) : <<e>>[i].type = "checkout" <=> Len(events[s]) + i = 1
    BY <1>2, <2>1, <2>2, <2>3
  <2> QED BY <2>3, <2>4, EmitPreserves
<1> QED BY <1>3, <1>4, <1>5, <1>6

LEMMA SubInvNext == SubInv /\ [Next]_vars => SubInv'
<1> SUFFICES ASSUME SubInv, [Next]_vars PROVE SubInv'
  OBVIOUS
<1>1. CASE Stripe
  BY <1>1, StripePreserves DEF Stripe
<1>2. CASE Webhook
  BY <1>2, ReceivePreserves, UnknownPreserves, UpsertPreserves, CommitPreserves, MailPreserves,
     FailPreserves DEF Webhook
<1>3. CASE UNCHANGED vars
  <2>1. UNCHANGED <<events, row, session, acked, mailed, guessed, disordered>>
    BY <1>3 DEF vars
  <2>2. TypeOK' /\ EventsInv' /\ SessionInv'
    BY <2>1 DEF SubInv, TypeOK, EventsInv, SessionInv, Handles, TypeOf
  <2>3. ToInv' /\ RowsInv' /\ AnsweredIsAnnounced'
    BY <2>1 DEF SubInv, ToInv, RowsInv, AnsweredIsAnnounced, Handles, TypeOf
  <2> QED BY <2>2, <2>3 DEF SubInv
<1> QED BY <1>1, <1>2, <1>3 DEF Next

\* The types of the rows, the events and the deliveries.
THEOREM SubscriptionTypeCorrect == Spec => []TypeOK
<1>1. SubInv => TypeOK
  BY DEF SubInv
<1> QED BY <1>1, SubInvInit, SubInvNext, PTL DEF Spec

\* For any number of subscriptions, events and deliveries: Stripe is answered after the
\* e-mail of its event, in whatever order its events come for the confirmation of a
\* checkout, and for the notices of a failed payment and of a cancellation if they come in
\* order.  Nothing is said of the notice of a new tier, which is lost when its e-mail fails.
THEOREM AnswersFollowMail == Spec => []AnsweredIsAnnounced
<1>1. SubInv => AnsweredIsAnnounced
  BY DEF SubInv
<1> QED BY <1>1, SubInvInit, SubInvNext, PTL DEF Spec

\* And whatever their order a row that has been made stays and keeps its address.
THEOREM AddressesAreKept == Spec => AddressIsKept
<1> DEFINE Kept == \A s \in Subs :
      row[s] # NoRow => row'[s] # NoRow /\ row'[s].customer_email = row[s].customer_email
<1>1. SubInv /\ [Next]_vars => [Kept]_vars
  <2> SUFFICES ASSUME SubInv, Next PROVE Kept
    OBVIOUS
  <2>1. CASE UNCHANGED row
    BY <2>1
  <2>2. ASSUME NEW w \in Workers, Commit(w)
        PROVE  Kept
    <3>1. PICK h \in Session, r \in Row :
            /\ row' = [row EXCEPT ![h.sub] = r]
            /\ row[h.sub] # NoRow => r.customer_email = row[h.sub].customer_email
      BY <2>2, CommitWrites
    <3>2. h.sub \in Subs /\ r # NoRow
      BY SessionFields, RowFields
    <3> QED BY <3>1, <3>2 DEF SubInv, TypeOK
  <2>3. Stripe => UNCHANGED row
    BY DEF Stripe, Subscribe, Change, FailPayment, Cancel, Emit
  <2>4. \A w \in Workers, s \in Subs, n \in 1..MaxEvents : Receive(w, s, n) => UNCHANGED row
    <3> SUFFICES ASSUME NEW w \in Workers, NEW s \in Subs, NEW n \in 1..MaxEvents,
                        Receive(w, s, n)
                 PROVE  UNCHANGED row
      OBVIOUS
    <3>1. CheckoutSessionCompleted(w, s, n) => UNCHANGED row
      BY DEF CheckoutSessionCompleted, Open
    <3>2. SubscriptionUpdated(w, s, n) => UNCHANGED row
      BY DEF SubscriptionUpdated, Open
    <3>3. SubscriptionDeleted(w, s, n) => UNCHANGED row
      BY DEF SubscriptionDeleted, Open
    <3>4. InvoicePaymentFailed(w, s, n) => UNCHANGED row
      BY DEF InvoicePaymentFailed, Open
    <3> QED BY <3>1, <3>2, <3>3, <3>4 DEF Receive
  <2>5. Webhook => UNCHANGED row \/ \E w \in Workers : Commit(w)
    BY <2>4 DEF Webhook, InvoiceOfUnknown, UpsertSubscription, Mail, Fail
  <2> QED BY <2>1, <2>2, <2>3, <2>5 DEF Next
<1> QED BY <1>1, SubInvInit, SubInvNext, PTL DEF Spec, AddressIsKept
-----------------------------------------------------------------------------
(***************************************************************************)
(* What the row says while the events of a subscription come in order.  A  *)
(* delivery that fails is made again, when its row may be written already; *)
(* so may the last answered event come again, after the next has been      *)
(* written: between answers the row is around two events.                  *)
(***************************************************************************)
\* What Stripe reports: a payment that fails changes no price, and neither does the end.
Reported(log) ==
  \A n \in 1..Len(log) :
    /\ log[n].type = "checkout" =>
         log[n].status = "active" /\ log[n].metadata \in {TierFromPriceId(log[n].price), NoTier}
    /\ log[n].type = "updated" => log[n].status # "canceled"
    /\ log[n].type = "payment_failed" =>
         /\ n > 1 /\ log[n].status = "past_due"
         /\ log[n - 1].status = "past_due" /\ log[n - 1].price = log[n].price
    /\ log[n].type = "deleted" =>
         n > 1 /\ log[n].status = "canceled" /\ log[n - 1].price = log[n].price

Says(r, e) == r.status = SubscriptionStatusFromStripe(e.status)
Ends(r, e) == r.cancelled_at <=> e.status = "canceled"

\* The tier may be ahead: a checkout asks Stripe for the price of now.
TierSince(log, r, n) == \E m \in n..Len(log) : r.tier = TierFromPriceId(log[m].price)

\* A row as event n leaves it.
LeftBy(log, r, n) ==
  n \in 1..Len(log) /\ r # NoRow /\ TierSince(log, r, n) /\ Says(r, log[n]) /\ Ends(r, log[n])

\* A row when k events are answered.
AroundOf(log, r, k) ==
  IF k = 0 THEN r = NoRow \/ LeftBy(log, r, 1)
  ELSE /\ r # NoRow /\ TierSince(log, r, k)
       /\ Says(r, log[k]) \/ (k < Len(log) /\ Says(r, log[k + 1]))
       /\ Ends(r, log[k]) \/ (k < Len(log) /\ Ends(r, log[k + 1]))

\* A delivery of the next event, or of the last one again.
Delivers(log, r, h, k) ==
  \/ /\ h.n = k + 1
     /\ h.step = "commit" => LeftBy(log, h.new, k + 1)
     /\ h.step = "mail" => LeftBy(log, r, k + 1)
  \/ /\ h.n = k
     /\ h.step = "commit" => AroundOf(log, h.new, k)

For(w, s) == Handles(w) /\ session[w].sub = s

UpTo(s, k) ==
  /\ \A n \in 1..MaxEvents : <<s, n>> \in acked <=> n <= k
  /\ AroundOf(events[s], row[s], k)
  /\ \A w \in Workers : For(w, s) =>
       /\ session[w].step = "commit" => session[w].loaded = row[s]
       /\ Delivers(events[s], row[s], session[w], k)

\* One delivery at a time, of the next event or of the last.
InStep(s) ==
  /\ \A v, w \in Workers : For(v, s) /\ For(w, s) => v = w
  /\ \E k \in 0..Len(events[s]) : UpTo(s, k)

FollowInv ==
  /\ SubInv
  /\ \A s \in Subs : Reported(events[s])
  /\ \A s \in Subs \ (disordered \union guessed) : InStep(s)

LEMMA FollowInvInit == Init => FollowInv
<1> SUFFICES ASSUME Init PROVE FollowInv
  OBVIOUS
<1>1. \A s \in Subs : Len(events[s]) = 0 /\ row[s] = NoRow
  BY DEF Init
<1>2. \A s \in Subs : Reported(events[s])
  BY <1>1 DEF Reported
<1>3. ASSUME NEW s \in Subs PROVE InStep(s)
  <2>1. \A w \in Workers : ~For(w, s)
    BY DEF Init, For, Handles
  <2>2. UpTo(s, 0)
    BY <1>1, <2>1, BoundAssumption DEF Init, UpTo, AroundOf
  <2> QED BY <1>1, <2>1, <2>2 DEF InStep
<1> QED BY <1>2, <1>3, SubInvInit DEF FollowInv

\* What is true of a row stays true when more has happened.
LEMMA RowsOutlastEvents ==
  ASSUME NEW log \in Seq(Event), NEW more \in Seq(Event), Len(log) <= Len(more),
         \A n \in 1..Len(log) : more[n] = log[n], NEW r
  PROVE  /\ \A n \in Nat : LeftBy(log, r, n) => LeftBy(more, r, n)
         /\ \A k \in 0..Len(log) : AroundOf(log, r, k) => AroundOf(more, r, k)
<1>1. Len(log) \in Nat /\ Len(more) \in Nat
  BY LenProperties
<1>2. \A n \in Nat \ {0} : TierSince(log, r, n) => TierSince(more, r, n)
  BY <1>1 DEF TierSince
<1>3. \A n \in Nat : LeftBy(log, r, n) => LeftBy(more, r, n)
  BY <1>1, <1>2 DEF LeftBy
<1>4. \A k \in 0..Len(log) : AroundOf(log, r, k) => AroundOf(more, r, k)
  <2> SUFFICES ASSUME NEW k \in 0..Len(log), AroundOf(log, r, k) PROVE AroundOf(more, r, k)
    OBVIOUS
  <2>1. CASE k = 0
    BY <1>3, <2>1 DEF AroundOf
  <2>2. CASE k # 0
    <3>1. more[k] = log[k] /\ (k < Len(log) => k < Len(more) /\ more[k + 1] = log[k + 1])
      BY <1>1, <2>2
    <3>2. k \in Nat \ {0}
      BY <1>1, <2>2
    <3> QED BY <1>2, <2>2, <3>1, <3>2 DEF AroundOf
  <2> QED BY <2>1, <2>2
<1> QED BY <1>3, <1>4

\* A row that the last or the next event has left is around the last.
LEMMA LeftIsAround ==
  ASSUME NEW log \in Seq(Event), NEW r, NEW k \in 0..Len(log)
  PROVE  /\ k # 0 /\ LeftBy(log, r, k) => AroundOf(log, r, k)
         /\ LeftBy(log, r, k + 1) => AroundOf(log, r, k)
<1>1. Len(log) \in Nat
  BY LenProperties
<1>2. k # 0 /\ LeftBy(log, r, k) => AroundOf(log, r, k)
  BY DEF LeftBy, AroundOf
<1>3. LeftBy(log, r, k + 1) => AroundOf(log, r, k)
  <2> SUFFICES ASSUME LeftBy(log, r, k + 1) PROVE AroundOf(log, r, k)
    OBVIOUS
  <2>1. k < Len(log)
    BY <1>1 DEF LeftBy
  <2>2. TierSince(log, r, k + 1) => TierSince(log, r, k)
    BY <1>1 DEF TierSince
  <2>3. CASE k = 0
    BY <2>3 DEF AroundOf
  <2>4. CASE k # 0
    BY <2>1, <2>2, <2>4 DEF AroundOf, LeftBy
  <2> QED BY <2>3, <2>4
<1> QED BY <1>2, <1>3

\* What a step leaves alone of a subscription stays in step.
LEMMA StaysInStep ==
  ASSUME NEW s \in Subs, InStep(s), events'[s] = events[s], row'[s] = row[s],
         \A n \in 1..MaxEvents : <<s, n>> \in acked' <=> <<s, n>> \in acked,
         \A w \in Workers : For(w, s)' => For(w, s) /\ session'[w] = session[w]
  PROVE  InStep(s)'
<1>1. PICK k \in 0..Len(events[s]) : UpTo(s, k)
  BY DEF InStep
<1>2. UpTo(s, k)'
  BY <1>1 DEF UpTo
<1> QED BY <1>1, <1>2 DEF InStep

\* More events of a subscription.
LEMMA StaysInStepAsMoreHappens ==
  ASSUME SubInv, NEW s \in Subs, InStep(s), events'[s] \in Seq(Event),
         Len(events[s]) <= Len(events'[s]),
         \A n \in 1..Len(events[s]) : events'[s][n] = events[s][n],
         UNCHANGED <<row, acked, session>>
  PROVE  InStep(s)'
<1>1. PICK k \in 0..Len(events[s]) : UpTo(s, k)
  BY DEF InStep
<1>2. events[s] \in Seq(Event)
  BY DEF SubInv, TypeOK
<1>3. /\ \A r : \A n \in Nat : LeftBy(events[s], r, n) => LeftBy(events'[s], r, n)
      /\ \A r : \A m \in 0..Len(events[s]) :
           AroundOf(events[s], r, m) => AroundOf(events'[s], r, m)
  BY <1>2, RowsOutlastEvents
<1>4. k \in Nat /\ k + 1 \in Nat /\ k \in 0..Len(events'[s])
  BY <1>2, LenProperties
<1>5. \A w \in Workers : Delivers(events[s], row[s], session[w], k) =>
        Delivers(events'[s], row[s], session[w], k)
  BY <1>1, <1>3, <1>4 DEF Delivers
<1>6. UpTo(s, k)'
  <2>1. AroundOf(events'[s], row[s], k)
    BY <1>1, <1>3 DEF UpTo
  <2>2. \A w \in Workers : For(w, s)' => For(w, s)
    BY DEF For, Handles
  <2>3. \A w \in Workers : For(w, s)' =>
          /\ session'[w].step = "commit" => session'[w].loaded = row'[s]
          /\ Delivers(events'[s], row'[s], session'[w], k)
    BY <1>1, <1>5, <2>2 DEF UpTo
  <2>4. \A n \in 1..MaxEvents : <<s, n>> \in acked' <=> n <= k
    BY <1>1 DEF UpTo
  <2> QED BY <2>1, <2>3, <2>4 DEF UpTo
<1>7. \A v, w \in Workers : For(v, s)' /\ For(w, s)' => v = w
  BY DEF For, Handles, InStep
<1> QED BY <1>4, <1>6, <1>7 DEF InStep

\* An event in order is the next, or the last one again.
LEMMA NextOrLast ==
  ASSUME SubInv, NEW s \in Subs, NEW k \in 0..Len(events[s]), UpTo(s, k),
         NEW n \in 1..MaxEvents, InOrder(s, n)
  PROVE  n = k \/ n = k + 1
<1>1. events[s] \in Seq(Event) /\ Len(events[s]) \in Nat /\ Len(events[s]) <= MaxEvents
  BY LenProperties DEF SubInv, TypeOK
<1>2. k <= n
  <2>1. CASE k = 0
    BY <2>1, BoundAssumption
  <2>2. CASE k # 0
    <3>1. k \in 1..MaxEvents /\ k <= k
      BY <1>1, <2>2, BoundAssumption
    <3>2. <<s, k>> \in acked
      BY <3>1 DEF UpTo
    <3> QED BY <3>1, <3>2 DEF InOrder
  <2> QED BY <2>1, <2>2
<1>3. n - 1 <= k
  <2>1. CASE n = 1
    BY <1>1, <2>1
  <2>2. CASE n # 1
    <3>1. n - 1 \in 1..(n - 1) /\ n - 1 \in 1..MaxEvents
      BY <2>2, BoundAssumption
    <3> QED BY <3>1 DEF UpTo, InOrder
  <2> QED BY <2>1, <2>2
<1> QED BY <1>1, <1>2, <1>3

\* A delivery that begins in order.
LEMMA OpensInStep ==
  ASSUME SubInv, NEW w \in Workers, NEW s \in Subs, NEW n \in 1..MaxEvents, NEW new \in Row,
         NEW to, Open(w, s, n, new, to), InOrder(s, n),
         NEW k \in 0..Len(events[s]), UpTo(s, k),
         n = k + 1 => LeftBy(events[s], new, n),
         n = k => AroundOf(events[s], new, n)
  PROVE  InStep(s)'
<1> DEFINE h == [sub |-> s, n |-> n, step |-> "commit", loaded |-> row[s], new |-> new, to |-> to]
<1>1. /\ h.sub = s /\ h.n = n /\ h.step = "commit" /\ h.loaded = row[s] /\ h.new = new
  OBVIOUS
<1>2. session' = [session EXCEPT ![w] = h] /\ UNCHANGED <<events, row, acked, mailed>>
  BY DEF Open
<1> HIDE DEF h
<1>3. session'[w] = h /\ \A v \in Workers \ {w} : session'[v] = session[v]
  BY <1>2 DEF SubInv, TypeOK
<1>4. \A v \in Workers : For(v, s)' => v = w
  BY <1>3 DEF For, Handles, InOrder, InFlight
<1>5. Delivers(events[s], row[s], h, k)
  <2>1. n = k \/ n = k + 1
    BY NextOrLast
  <2> QED BY <1>1, <2>1 DEF Delivers
<1>6. UpTo(s, k)'
  <2>1. \A v \in Workers : For(v, s)' =>
          /\ session'[v].step = "commit" => session'[v].loaded = row[s]
          /\ Delivers(events[s], row[s], session'[v], k)
    BY <1>1, <1>3, <1>4, <1>5
  <2>2. /\ \A m \in 1..MaxEvents : <<s, m>> \in acked <=> m <= k
        /\ AroundOf(events[s], row[s], k)
    BY DEF UpTo
  <2> QED BY <1>2, <2>1, <2>2 DEF UpTo
<1> QED BY <1>2, <1>4, <1>6 DEF InStep
\* What a delivery in order is about to write.
LEMMA ReceivesInStep ==
  ASSUME FollowInv, NEW w \in Workers, NEW s \in Subs, NEW n \in 1..MaxEvents, Receive(w, s, n),
         s \notin disordered', s \notin guessed'
  PROVE  InStep(s)'
<1> USE DEF FollowInv
<1> DEFINE log == events[s]
           now == row[s]
<1>1. NotesOrder(s, n) /\ guessed \subseteq guessed'
  BY DEF Receive, CheckoutSessionCompleted, SubscriptionUpdated, SubscriptionDeleted,
         InvoicePaymentFailed, Open
<1>2. s \notin disordered /\ s \notin guessed /\ InOrder(s, n)
  BY <1>1 DEF NotesOrder
<1>3. PICK k \in 0..Len(log) : UpTo(s, k)
  BY <1>2 DEF InStep
<1>4. n = k \/ n = k + 1
  BY <1>2, <1>3, NextOrLast
<1>5. log \in Seq(Event) /\ Reported(log) /\ AroundOf(log, now, k) /\ Len(log) \in Nat
  BY <1>3, LenProperties DEF SubInv, TypeOK, UpTo
<1>6. now \in Row \union {NoRow} /\ EmailOf[s] \in Emails
  BY EmailAssumption DEF SubInv, TypeOK
<1>7. {"active", "past_due", "cancelled"} \subseteq Status /\ "starter" \in Tiers
  BY DEF Status, Tiers
<1> HIDE DEF log, now
\* A handler that writes all of the event.
<1>8. ASSUME NEW new \in Row, NEW to, Open(w, s, n, new, to), LeftBy(log, new, n)
      PROVE  InStep(s)'
  <2>1. n = k => AroundOf(log, new, n)
    BY <1>5, <1>8, LeftIsAround DEF LeftBy
  <2> QED BY <1>2, <1>3, <1>8, <2>1, OpensInStep DEF log
\* An event that leaves the price finds a row with the tier.
<1>9. ASSUME n > 1, n \in 1..Len(log), log[n - 1].price = log[n].price
      PROVE  now \in Row /\ TierSince(log, now, n)
  <2>1. k # 0
    BY <1>4, <1>9
  <2>2. now \in Row /\ TierSince(log, now, k)
    BY <1>5, <1>6, <2>1 DEF AroundOf
  <2>3. CASE n = k
    BY <2>2, <2>3
  <2>4. CASE n = k + 1
    <3>1. PICK m \in k..Len(log) : now.tier = TierFromPriceId(log[m].price)
      BY <2>2 DEF TierSince
    <3>2. CASE m = k
      BY <1>9, <2>2, <2>4, <3>1, <3>2 DEF TierSince
    <3>3. CASE m # k
      BY <1>5, <2>2, <2>4, <3>1, <3>3 DEF TierSince
    <3> QED BY <3>2, <3>3
  <2> QED BY <1>4, <2>3, <2>4
<1>10. CASE CheckoutSessionCompleted(w, s, n)
  <2>1. n \in 1..Len(log) /\ TypeOf(s, n) = "checkout" /\ log[n] \in Event
    BY <1>10, EventAt DEF CheckoutSessionCompleted, log
  <2>2. log[n].status = "active" /\ log[n].metadata \in {TierFromPriceId(log[n].price), NoTier}
    BY <1>5, <2>1 DEF Reported, TypeOf, log
  <2>3. PICK tier, new :
          /\ new = Upserted(now, tier, "active", FALSE, EmailOf[s])
          /\ Open(w, s, n, new, EmailOf[s])
          /\ tier = TierFromPriceId(log[n].price) \/ tier = TierFromPriceId(log[Len(log)].price)
    <3>1. PICK retrieved \in BOOLEAN :
            LET e == log[n]
                tier == IF e.metadata # NoTier THEN e.metadata
                        ELSE IF retrieved THEN TierFromPriceId(log[Len(log)].price)
                        ELSE "starter"
            IN /\ Open(w, s, n, Upserted(now, tier, "active", FALSE, EmailOf[s]), EmailOf[s])
               /\ guessed' = IF e.metadata = NoTier /\ ~retrieved
                             THEN guessed \union {s} ELSE guessed
      BY <1>10 DEF CheckoutSessionCompleted, Last, log, now
    <3>2. log[n].metadata = NoTier => retrieved
      BY <3>1
    <3> QED BY <2>2, <3>1, <3>2
  <2>4. new \in Row
    BY <1>6, <1>7, <2>3, TierInTable, UpsertedRow
  <2>5. LeftBy(log, new, n)
    <3>1. new.tier = tier /\ new.status = "active" /\ new.cancelled_at = FALSE
      BY <2>3 DEF Upserted
    <3>2. TierSince(log, new, n)
      <4>1. n \in n..Len(log) /\ Len(log) \in n..Len(log)
        BY <1>5, <2>1
      <4> QED BY <2>3, <3>1, <4>1 DEF TierSince
    <3> QED BY <2>1, <2>2, <2>4, <3>1, <3>2, RowFields
            DEF LeftBy, Says, Ends, SubscriptionStatusFromStripe
  <2> QED BY <1>8, <2>3, <2>4, <2>5
<1>11. CASE SubscriptionUpdated(w, s, n)
  <2>1. n \in 1..Len(log) /\ TypeOf(s, n) = "updated" /\ log[n] \in Event
    BY <1>11, EventAt DEF SubscriptionUpdated, log
  <2>2. log[n].status # "canceled"
    BY <1>5, <2>1 DEF Reported, TypeOf, log
  <2>3. PICK new, to :
          /\ new = Upserted(now, TierFromPriceId(log[n].price),
                            SubscriptionStatusFromStripe(log[n].status), FALSE, NoEmail)
          /\ Open(w, s, n, new, to)
    BY <1>11 DEF SubscriptionUpdated, log, now
  <2>4. new \in Row
    BY <1>6, <2>3, TierInTable, StatusInTable, UpsertedRow
  <2>5. LeftBy(log, new, n)
    <3>1. /\ new.tier = TierFromPriceId(log[n].price) /\ new.cancelled_at = FALSE
          /\ new.status = SubscriptionStatusFromStripe(log[n].status)
      BY <2>3 DEF Upserted
    <3>2. TierSince(log, new, n)
      BY <1>5, <2>1, <3>1 DEF TierSince
    <3> QED BY <2>1, <2>2, <2>4, <3>1, <3>2, RowFields DEF LeftBy, Says, Ends
  <2> QED BY <1>8, <2>3, <2>4, <2>5
<1>12. CASE SubscriptionDeleted(w, s, n)
  <2>1. n \in 1..Len(log) /\ TypeOf(s, n) = "deleted" /\ log[n] \in Event
    BY <1>12, EventAt DEF SubscriptionDeleted, log
  <2>2. n > 1 /\ log[n].status = "canceled" /\ log[n - 1].price = log[n].price
    BY <1>5, <2>1 DEF Reported, TypeOf, log
  <2>3. now \in Row /\ TierSince(log, now, n)
    BY <1>9, <2>1, <2>2
  <2>4. PICK new, to :
          /\ new = Upserted(now, now.tier, "cancelled", TRUE, NoEmail)
          /\ Open(w, s, n, new, to)
    BY <1>12, <2>3, RowFields DEF SubscriptionDeleted, log, now
  <2>5. new \in Row
    BY <1>6, <1>7, <2>3, <2>4, RowFields, UpsertedRow
  <2>6. LeftBy(log, new, n)
    <3>1. new.tier = now.tier /\ new.status = "cancelled" /\ new.cancelled_at = TRUE
      BY <2>4 DEF Upserted
    <3>2. TierSince(log, new, n)
      BY <2>3, <3>1 DEF TierSince
    <3> QED BY <2>1, <2>2, <2>5, <3>1, <3>2, RowFields
            DEF LeftBy, Says, Ends, SubscriptionStatusFromStripe
  <2> QED BY <1>8, <2>4, <2>5, <2>6
\* This one keeps the rest of the row.
<1>13. CASE InvoicePaymentFailed(w, s, n)
  <2>1. n \in 1..Len(log) /\ TypeOf(s, n) = "payment_failed" /\ log[n] \in Event
    BY <1>13, EventAt DEF InvoicePaymentFailed, log
  <2>2. /\ n > 1 /\ log[n].status = "past_due" /\ log[n - 1].status = "past_due"
        /\ log[n - 1].price = log[n].price
    BY <1>5, <2>1 DEF Reported, TypeOf, log
  <2>3. now \in Row /\ TierSince(log, now, n)
    BY <1>9, <2>1, <2>2
  <2>4. PICK new, to : new = [now EXCEPT !.status = "past_due"] /\ Open(w, s, n, new, to)
    BY <1>13 DEF InvoicePaymentFailed, now
  <2>5. /\ new \in Row /\ new.tier = now.tier /\ new.status = "past_due"
        /\ new.cancelled_at = now.cancelled_at
    <3>1. "past_due" \in Status
      BY <1>7
    <3> QED BY <2>3, <2>4, <3>1 DEF Row
  <2>6. new # NoRow /\ TierSince(log, new, n) /\ Says(new, log[n]) /\ k # 0
    BY <1>4, <2>2, <2>3, <2>5, RowFields DEF TierSince, Says, SubscriptionStatusFromStripe
  <2>7. Ends(now, log[k]) \/ (k < Len(log) /\ Ends(now, log[k + 1]))
    BY <1>5, <2>6 DEF AroundOf
  <2>8. n = k + 1 => LeftBy(log, new, n)
    BY <1>5, <2>1, <2>2, <2>5, <2>6, <2>7 DEF LeftBy, Ends
  <2>9. n = k => AroundOf(log, new, n)
    BY <2>5, <2>6, <2>7 DEF AroundOf, Ends
  <2> QED BY <1>2, <1>3, <2>4, <2>5, <2>8, <2>9, OpensInStep DEF log
<1> QED BY <1>10, <1>11, <1>12, <1>13 DEF Receive

LEMMA StripeKeepsStep ==
  ASSUME FollowInv, NEW s \in Subs,
         \/ \E price \in Prices : Subscribe(s, price)
         \/ \E price \in Prices, status \in StripeStatus : Change(s, price, status)
         \/ FailPayment(s)
         \/ Cancel(s)
  PROVE  FollowInv'
<1> DEFINE log == events[s]
           Fits(more) ==
             \A n \in 1..Len(more) :
               LET e == more[n]
                   last == IF n = 1 THEN log[Len(log)] ELSE more[n - 1]
               IN /\ e.type = "checkout" =>
                       e.status = "active" /\ e.metadata \in {TierFromPriceId(e.price), NoTier}
                  /\ e.type = "updated" => e.status # "canceled"
                  /\ e.type = "payment_failed" =>
                       /\ Len(log) + n > 1 /\ e.status = "past_due"
                       /\ last.status = "past_due" /\ last.price = e.price
                  /\ e.type = "deleted" =>
                       Len(log) + n > 1 /\ e.status = "canceled" /\ last.price = e.price
<1>1. log \in Seq(Event) /\ Len(log) \in Nat
  BY DEF FollowInv, SubInv, TypeOK
<1>2. Alive(s) => Len(log) # 0 /\ log[Len(log)] = Last(s) /\ Last(s) \in Event
  <2> SUFFICES ASSUME Alive(s)
               PROVE  Len(log) # 0 /\ log[Len(log)] = Last(s) /\ Last(s) \in Event
    OBVIOUS
  <2>1. Len(log) \in 1..Len(log)
    BY <1>1, EmptySeq DEF Alive
  <2> QED BY <1>1, <2>1, ElementOfSeq DEF Last
<1>3. PICK more \in Seq(Event) : Emit(s, more) /\ Fits(more)
  <2>1. CASE \E price \in Prices : Subscribe(s, price)
    <3>1. PICK price \in Prices, metadata \in Tiers \union {NoTier} :
            /\ metadata \in {TierFromPriceId(price), NoTier}
            /\ Emit(s, <<Report("checkout", price, metadata, "active")>>)
      BY <2>1, TierInTable DEF Subscribe
    <3> DEFINE e == Report("checkout", price, metadata, "active")
    <3>2. /\ e.type = "checkout" /\ e.status = "active" /\ e.metadata = metadata
          /\ e.price = price
      BY DEF Report
    <3>3. e \in Event
      BY DEF Report, Event, StripeStatus
    <3>4. Emit(s, <<e>>)
      BY <3>1
    <3> HIDE DEF e
    <3>5. <<e>> \in Seq(Event) /\ Len(<<e>>) = 1 /\ <<e>>[1] = e
      BY <3>3
    <3>6. Fits(<<e>>)
      BY <3>1, <3>2, <3>5
    <3> QED BY <3>4, <3>5, <3>6
  <2>2. CASE \E price \in Prices, status \in StripeStatus : Change(s, price, status)
    <3>1. PICK price \in Prices, status \in StripeStatus :
            status # "canceled" /\ Emit(s, <<Report("updated", price, NoTier, status)>>)
      BY <2>2 DEF Change
    <3> DEFINE e == Report("updated", price, NoTier, status)
    <3>2. e.type = "updated" /\ e.status # "canceled" /\ e \in Event
      BY <3>1 DEF Report, Event
    <3>3. Emit(s, <<e>>)
      BY <3>1
    <3> HIDE DEF e
    <3>4. <<e>> \in Seq(Event) /\ Len(<<e>>) = 1 /\ <<e>>[1] = e
      BY <3>2
    <3>5. Fits(<<e>>)
      BY <3>2, <3>4
    <3> QED BY <3>3, <3>4, <3>5
  <2>3. CASE FailPayment(s)
    <3> DEFINE d == Report("updated", Last(s).price, NoTier, "past_due")
               e == Report("payment_failed", Last(s).price, NoTier, "past_due")
    <3>1. Alive(s) /\ Emit(s, <<d, e>>)
      BY <2>3 DEF FailPayment
    <3>2. /\ d.type = "updated" /\ d.status = "past_due" /\ d.price = e.price
          /\ e.type = "payment_failed" /\ e.status = "past_due"
      BY DEF Report
    <3>3. d \in Event /\ e \in Event
      BY <1>2, <3>1 DEF Report, Event, StripeStatus
    <3> HIDE DEF d, e
    <3>4. <<d, e>> \in Seq(Event) /\ Len(<<d, e>>) = 2 /\ <<d, e>>[1] = d /\ <<d, e>>[2] = e
      BY <3>3
    <3>5. Fits(<<d, e>>)
      BY <1>1, <1>2, <3>1, <3>2, <3>4
    <3> QED BY <3>1, <3>4, <3>5
  <2>4. CASE Cancel(s)
    <3> DEFINE e == Report("deleted", Last(s).price, NoTier, "canceled")
    <3>1. Alive(s) /\ Emit(s, <<e>>)
      BY <2>4 DEF Cancel
    <3>2. e.type = "deleted" /\ e.status = "canceled" /\ e.price = Last(s).price
      BY DEF Report
    <3>3. e \in Event
      BY <1>2, <3>1 DEF Report, Event, StripeStatus
    <3> HIDE DEF e
    <3>4. <<e>> \in Seq(Event) /\ Len(<<e>>) = 1 /\ <<e>>[1] = e
      BY <3>3
    <3>5. Fits(<<e>>)
      BY <1>1, <1>2, <3>1, <3>2, <3>4
    <3> QED BY <3>1, <3>4, <3>5
  <2> QED BY <2>1, <2>2, <2>3, <2>4
<1>4. events' = [events EXCEPT ![s] = log \o more]
      /\ UNCHANGED <<row, session, acked, mailed, guessed, disordered>>
  BY <1>3 DEF Emit
<1>5. /\ Len(log \o more) = Len(log) + Len(more) /\ log \o more \in Seq(Event)
      /\ \A n \in 1..(Len(log) + Len(more)) :
           (log \o more)[n] = IF n <= Len(log) THEN log[n] ELSE more[n - Len(log)]
  BY <1>1, <1>3, ConcatProperties
<1>6. PICK both : both = log \o more
  OBVIOUS
<1>7. /\ events'[s] = both /\ both \in Seq(Event) /\ Len(both) = Len(log) + Len(more)
      /\ Len(more) \in Nat
      /\ \A n \in 1..Len(both) :
           both[n] = IF n <= Len(log) THEN log[n] ELSE more[n - Len(log)]
  BY <1>3, <1>4, <1>5, <1>6, LenProperties DEF FollowInv, SubInv, TypeOK
<1>8. \A t \in Subs \ {s} : events'[t] = events[t]
  BY <1>4 DEF FollowInv, SubInv, TypeOK
<1>9. Reported(log)
  BY DEF FollowInv
<1> HIDE DEF log, Fits
<1>10. Reported(both)
  <2> SUFFICES ASSUME NEW n \in 1..Len(both)
               PROVE
                 /\ both[n].type = "checkout" =>
                      /\ both[n].status = "active"
                      /\ both[n].metadata \in {TierFromPriceId(both[n].price), NoTier}
                 /\ both[n].type = "updated" => both[n].status # "canceled"
                 /\ both[n].type = "payment_failed" =>
                      /\ n > 1 /\ both[n].status = "past_due"
                      /\ both[n - 1].status = "past_due" /\ both[n - 1].price = both[n].price
                 /\ both[n].type = "deleted" =>
                      n > 1 /\ both[n].status = "canceled" /\ both[n - 1].price = both[n].price
    BY DEF Reported
  <2>1. CASE n <= Len(log)
    <3>1. both[n] = log[n] /\ n \in 1..Len(log)
      BY <1>1, <1>7, <2>1
    <3>2. n > 1 => both[n - 1] = log[n - 1]
      <4>1. n > 1 => n - 1 \in 1..Len(both) /\ n - 1 <= Len(log)
        BY <1>1, <1>7, <2>1
      <4> QED BY <1>7, <4>1
    <3> QED BY <1>9, <3>1, <3>2 DEF Reported
  <2>2. CASE n > Len(log)
    <3>1. PICK i \in 1..Len(more) : n = Len(log) + i
      <4>1. n - Len(log) \in 1..Len(more) /\ n = Len(log) + (n - Len(log))
        BY <1>1, <1>7, <2>2
      <4> QED BY <4>1
    <3>2. both[n] = more[i]
      <4>1. n - Len(log) = i /\ ~(n <= Len(log))
        BY <1>1, <3>1
      <4> QED BY <1>7, <4>1
    <3>3. n > 1 => both[n - 1] = IF i = 1 THEN log[Len(log)] ELSE more[i - 1]
      <4>1. CASE i = 1
        BY <1>1, <1>7, <3>1, <4>1
      <4>2. CASE i # 1
        <5>1. n - 1 \in 1..Len(both) /\ ~(n - 1 <= Len(log)) /\ (n - 1) - Len(log) = i - 1
          BY <1>1, <1>7, <3>1, <4>2
        <5> QED BY <1>7, <4>2, <5>1
      <4> QED BY <4>1, <4>2
    <3> QED BY <1>3, <3>1, <3>2, <3>3 DEF Fits
  <2> QED BY <1>1, <2>1, <2>2
<1>11. SubInv'
  BY StripePreserves DEF FollowInv
<1>12. \A t \in Subs : Reported(events'[t])
  BY <1>7, <1>8, <1>10 DEF FollowInv
<1>13. ASSUME NEW t \in Subs \ (disordered' \union guessed')
       PROVE  InStep(t)'
  <2>1. InStep(t) /\ SubInv
    BY <1>4 DEF FollowInv
  <2>2. CASE t = s
    <3>1. /\ events'[t] \in Seq(Event) /\ Len(events[t]) <= Len(events'[t])
          /\ \A n \in 1..Len(events[t]) : events'[t][n] = events[t][n]
      BY <1>1, <1>7, <2>2 DEF log
    <3> QED BY <1>4, <2>1, <3>1, StaysInStepAsMoreHappens
  <2>3. CASE t # s
    BY <1>4, <1>8, <2>1, <2>3, StaysInStep DEF For, Handles
  <2> QED BY <2>2, <2>3
<1> QED BY <1>11, <1>12, <1>13 DEF FollowInv

\* Of a subscription in step the commit writes what was loaded and what is new.
LEMMA CommitKeepsStep ==
  ASSUME FollowInv, NEW w \in Workers, Commit(w)
  PROVE  FollowInv'
<1> USE DEF FollowInv
<1>1. PICK h \in Session : h = session[w]
  BY DEF Commit, SubInv, TypeOK
<1>2. PICK s \in Subs : s = h.sub
  BY SessionFields
<1>3. /\ For(w, s) /\ h.step = "commit" /\ h.new \in Row
      /\ h.loaded = NoRow => row[s] = NoRow
      /\ UNCHANGED <<events, acked, mailed, guessed, disordered>>
  BY <1>1, <1>2, SessionFields DEF Commit, Conflicts, For, Handles
<1>4. row' = [row EXCEPT ![s] =
                IF h.loaded = NoRow THEN h.new ELSE MergedRow(row[s], h.loaded, h.new)]
  BY <1>1, <1>2 DEF Commit, SubInv, TypeOK
<1>5. PICK k : /\ session' = [session EXCEPT ![w] = k]
               /\ k.sub = h.sub /\ k.n = h.n /\ k.step = "mail" /\ k # NoSession
  <2> DEFINE k == [h EXCEPT !.step = "mail"]
  <2>1. k \in Session /\ k.sub = h.sub /\ k.n = h.n /\ k.step = "mail"
    BY DEF Session
  <2>2. session' = [session EXCEPT ![w] = k]
    BY <1>1 DEF Commit
  <2> HIDE DEF k
  <2> QED BY <2>1, <2>2, SessionFields
<1>6. session'[w] = k /\ \A v \in Workers \ {w} : session'[v] = session[v]
  BY <1>5 DEF SubInv, TypeOK
<1>7. \A t \in Subs, v \in Workers : For(v, t)' => For(v, t)
  BY <1>1, <1>2, <1>3, <1>5, <1>6 DEF For, Handles
<1>8. ASSUME s \notin disordered \union guessed
      PROVE  InStep(s)'
  <2>1. PICK m \in 0..Len(events[s]) : UpTo(s, m)
    BY <1>8 DEF InStep
  <2>2. h.loaded = row[s] /\ Delivers(events[s], row[s], h, m)
    BY <1>1, <1>3, <2>1 DEF UpTo
  <2>3. row'[s] = h.new
    <3>1. CASE h.loaded = NoRow
      BY <1>4, <3>1 DEF SubInv, TypeOK
    <3>2. CASE h.loaded # NoRow
      <4>1. PICK r \in Row : r = row[s]
        BY <2>2, <3>2 DEF SubInv, TypeOK
      <4>2. MergedRow(r, r, h.new) = h.new
        <5>1. MergedRow(r, r, h.new) =
                [tier |-> h.new.tier, status |-> h.new.status,
                 cancelled_at |-> h.new.cancelled_at,
                 customer_email |-> h.new.customer_email]
          BY DEF MergedRow, Merged
        <5> QED BY <1>3, <5>1 DEF Row
      <4> QED BY <1>4, <2>2, <3>2, <4>1, <4>2 DEF SubInv, TypeOK
    <3> QED BY <3>1, <3>2
  <2>4. events[s] \in Seq(Event)
    BY DEF SubInv, TypeOK
  <2>5. \A v \in Workers : For(v, s)' => v = w
    BY <1>3, <1>7, <1>8 DEF InStep
  <2>6. /\ AroundOf(events[s], h.new, m)
        /\ h.n = m \/ (h.n = m + 1 /\ LeftBy(events[s], h.new, m + 1))
    BY <1>3, <2>2, <2>4, LeftIsAround DEF Delivers
  <2>7. Delivers(events[s], h.new, k, m)
    BY <1>5, <2>6 DEF Delivers
  <2>8. UpTo(s, m)'
    <3>1. \A n \in 1..MaxEvents : <<s, n>> \in acked <=> n <= m
      BY <2>1 DEF UpTo
    <3>2. AroundOf(events[s], row'[s], m)
      BY <2>3, <2>6
    <3>3. \A v \in Workers : For(v, s)' =>
            /\ session'[v].step = "commit" => session'[v].loaded = row'[s]
            /\ Delivers(events[s], row'[s], session'[v], m)
      BY <1>5, <1>6, <2>3, <2>5, <2>7
    <3> QED BY <1>3, <3>1, <3>2, <3>3 DEF UpTo
  <2> QED BY <1>3, <2>5, <2>8 DEF InStep
<1>9. ASSUME NEW t \in Subs \ (disordered' \union guessed')
      PROVE  InStep(t)'
  <2>1. InStep(t)
    BY <1>3
  <2>2. CASE t = s
    BY <1>3, <1>8, <2>2
  <2>3. CASE t # s
    <3>1. row'[t] = row[t] /\ events'[t] = events[t]
      BY <1>3, <1>4, <2>3 DEF SubInv, TypeOK
    <3>2. \A v \in Workers : For(v, t)' => v # w
      BY <1>2, <1>5, <1>6, <2>3 DEF For
    <3> QED BY <1>3, <1>6, <1>7, <2>1, <3>1, <3>2, StaysInStep
  <2> QED BY <2>2, <2>3
<1> QED BY <1>3, <1>9, CommitPreserves

\* The answer to the next event; to the last one again it changes nothing.
LEMMA MailKeepsStep ==
  ASSUME FollowInv, NEW w \in Workers, Mail(w)
  PROVE  FollowInv'
<1> USE DEF FollowInv
<1>1. PICK h \in Session : h = session[w]
  BY DEF Mail, SubInv, TypeOK
<1>2. PICK s \in Subs : s = h.sub
  BY SessionFields
<1>3. /\ For(w, s) /\ h.step = "mail" /\ h.n \in 1..MaxEvents
      /\ acked' = acked \union {<<s, h.n>>}
      /\ session' = [session EXCEPT ![w] = NoSession]
      /\ UNCHANGED <<events, row, guessed, disordered>>
  BY <1>1, <1>2, SessionFields DEF Mail, For, Handles
<1>4. \A t \in Subs, v \in Workers : For(v, t)' => For(v, t) /\ session'[v] = session[v] /\ v # w
  BY <1>3 DEF For, Handles, SubInv, TypeOK
<1>5. ASSUME s \notin disordered \union guessed
      PROVE  InStep(s)'
  <2>1. PICK k \in 0..Len(events[s]) : UpTo(s, k)
    BY <1>5 DEF InStep
  <2>2. Delivers(events[s], row[s], h, k)
    BY <1>1, <1>3, <2>1 DEF UpTo
  <2>3. CASE h.n = k
    <3>1. \A n \in 1..MaxEvents : <<s, n>> \in acked' <=> <<s, n>> \in acked
      BY <1>3, <2>1, <2>3 DEF UpTo
    <3> QED BY <1>3, <1>4, <1>5, <3>1, StaysInStep
  <2>4. CASE h.n = k + 1
    <3>1. LeftBy(events[s], row[s], k + 1)
      BY <1>3, <2>2, <2>4 DEF Delivers
    <3>2. events[s] \in Seq(Event) /\ k + 1 \in 0..Len(events[s]) /\ k + 1 # 0
      BY <3>1 DEF LeftBy, SubInv, TypeOK
    <3>3. AroundOf(events[s], row[s], k + 1)
      BY <3>1, <3>2, LeftIsAround
    <3>4. \A n \in 1..MaxEvents : <<s, n>> \in acked' <=> n <= k + 1
      <4>1. \A n \in 1..MaxEvents : <<s, n>> \in acked <=> n <= k
        BY <2>1 DEF UpTo
      <4>2. \A n \in 1..MaxEvents : n <= k + 1 <=> n <= k \/ n = k + 1
        OBVIOUS
      <4> QED BY <1>3, <2>4, <4>1, <4>2
    <3>5. \A v \in Workers : ~For(v, s)'
      BY <1>3, <1>4, <1>5 DEF InStep
    <3>6. UpTo(s, k + 1)'
      BY <1>3, <3>3, <3>4, <3>5 DEF UpTo
    <3> QED BY <1>3, <3>2, <3>5, <3>6 DEF InStep
  <2> QED BY <2>2, <2>3, <2>4 DEF Delivers
<1>6. ASSUME NEW t \in Subs \ (disordered' \union guessed')
      PROVE  InStep(t)'
  <2>1. CASE t = s
    BY <1>3, <1>5, <2>1
  <2>2. CASE t # s
    BY <1>3, <1>4, <2>2, StaysInStep
  <2> QED BY <2>1, <2>2
<1> QED BY <1>3, <1>6, MailPreserves

LEMMA FollowInvNext == FollowInv /\ [Next]_vars => FollowInv'
<1> SUFFICES ASSUME FollowInv, [Next]_vars PROVE FollowInv'
  OBVIOUS
<1> USE DEF FollowInv
<1>1. CASE Stripe
  BY <1>1, StripeKeepsStep DEF Stripe
<1>2. ASSUME NEW w \in Workers, NEW s \in Subs, NEW n \in 1..MaxEvents, Receive(w, s, n)
      PROVE  FollowInv'
  <2>1. /\ UNCHANGED <<events, row, acked>> /\ NotesOrder(s, n)
        /\ \E h : h.sub = s /\ session' = [session EXCEPT ![w] = h]
        /\ guessed' \in {guessed, guessed \union {s}}
    BY <1>2 DEF Receive, CheckoutSessionCompleted, SubscriptionUpdated, SubscriptionDeleted,
                InvoicePaymentFailed, Open
  <2>2. ASSUME NEW t \in Subs \ (disordered' \union guessed')
        PROVE  InStep(t)'
    <3>1. CASE t = s
      BY <1>2, <2>2, <3>1, ReceivesInStep
    <3>2. CASE t # s
      <4>1. t \notin disordered \union guessed
        BY <2>1, <2>2 DEF NotesOrder
      <4>2. \A v \in Workers : For(v, t)' => For(v, t) /\ session'[v] = session[v]
        BY <2>1, <3>2 DEF For, Handles, SubInv, TypeOK
      <4> QED BY <2>1, <4>1, <4>2, StaysInStep
    <3> QED BY <3>1, <3>2
  <2> QED BY <1>2, <2>1, <2>2, ReceivePreserves
<1>3. ASSUME NEW s \in Subs, NEW n \in 1..MaxEvents, InvoiceOfUnknown(s, n)
      PROVE  FollowInv'
  <2>1. /\ row[s] = NoRow /\ acked' = acked \union {<<s, n>>} /\ NotesOrder(s, n)
        /\ UNCHANGED <<events, row, session, mailed, guessed>>
    BY <1>3 DEF InvoiceOfUnknown
  <2>2. n # 1
    BY <1>3, EventAt DEF InvoiceOfUnknown, SubInv, EventsInv
  <2>3. s \in disordered' /\ disordered \subseteq disordered'
    BY <2>1, <2>2, FindsRow DEF NotesOrder
  <2>4. ASSUME NEW t \in Subs \ (disordered' \union guessed')
        PROVE  InStep(t)'
    BY <2>1, <2>3, StaysInStep DEF For, Handles
  <2> QED BY <1>3, <2>1, <2>4, UnknownPreserves
\* In step the second look finds no more than the first.
<1>4. ASSUME NEW w \in Workers, UpsertSubscription(w)
      PROVE  FollowInv'
  <2>1. PICK h \in Session : h = session[w]
    BY <1>4 DEF UpsertSubscription, SubInv, TypeOK
  <2>2. PICK s \in Subs : s = h.sub
    BY SessionFields
  <2>3. /\ For(w, s) /\ h.step = "commit" /\ h.loaded # row[s]
        /\ UNCHANGED <<events, row, acked, mailed, guessed, disordered>>
        /\ \E g : session' = [session EXCEPT ![w] = [h EXCEPT !.loaded = row[s], !.new = g]]
    BY <1>4, <2>1, <2>2 DEF UpsertSubscription, For, Handles
  <2>4. s \in disordered \union guessed
    BY <2>1, <2>3 DEF InStep, UpTo
  <2>5. ASSUME NEW t \in Subs \ (disordered' \union guessed')
        PROVE  InStep(t)'
    <3>1. t # s
      BY <2>3, <2>4
    <3>2. PICK g : /\ session' = [session EXCEPT ![w] = [h EXCEPT !.loaded = row[s], !.new = g]]
      BY <2>3
    <3>3. [h EXCEPT !.loaded = row[s], !.new = g].sub = s
      BY <2>2 DEF Session
    <3>4. \A v \in Workers : For(v, t)' => For(v, t) /\ session'[v] = session[v]
      BY <3>1, <3>2, <3>3 DEF For, Handles, SubInv, TypeOK
    <3> QED BY <2>3, <3>4, StaysInStep
  <2> QED BY <1>4, <2>3, <2>5, UpsertPreserves
<1>5. ASSUME NEW w \in Workers, Fail(w)
      PROVE  FollowInv'
  <2>1. /\ session' = [session EXCEPT ![w] = NoSession]
        /\ UNCHANGED <<events, row, acked, mailed, guessed, disordered>>
    BY <1>5 DEF Fail
  <2>2. ASSUME NEW t \in Subs \ (disordered' \union guessed')
        PROVE  InStep(t)'
    BY <2>1, StaysInStep DEF For, Handles, SubInv, TypeOK
  <2> QED BY <1>5, <2>1, <2>2, FailPreserves
<1>6. CASE UNCHANGED vars
  <2>1. UNCHANGED <<events, row, session, acked, mailed, guessed, disordered>>
    BY <1>6 DEF vars
  <2>2. ASSUME NEW t \in Subs \ (disordered' \union guessed')
        PROVE  InStep(t)'
    BY <2>1, StaysInStep DEF For, Handles
  <2> QED BY <1>6, <2>1, <2>2, SubInvNext
<1> QED BY <1>1, <1>2, <1>3, <1>4, <1>5, <1>6, CommitKeepsStep, MailKeepsStep DEF Next, Webhook

\* For any number of subscriptions, events and deliveries, with deliveries that fail and
\* are made again: once all is answered the row says what Stripe says, unless events came
\* out of order or Stripe did not tell the tier.
THEOREM RowsFollowStripe == Spec => []RowFollowsStripe
<1>1. FollowInv => RowFollowsStripe
  <2> SUFFICES ASSUME FollowInv, NEW s \in Subs \ (disordered \union guessed), Settled(s)
               PROVE  /\ row[s] # NoRow
                      /\ row[s].tier = TierFromPriceId(Last(s).price)
                      /\ row[s].status = SubscriptionStatusFromStripe(Last(s).status)
                      /\ row[s].cancelled_at = (Last(s).status = "canceled")
                      /\ row[s].customer_email = EmailOf[s]
    BY DEF RowFollowsStripe
  <2> DEFINE n == Len(events[s])
  <2>1. events[s] \in Seq(Event) /\ n \in Nat \ {0} /\ n <= MaxEvents
    BY EmptySeq DEF Settled, FollowInv, SubInv, TypeOK
  <2>2. PICK k \in 0..n : UpTo(s, k)
    BY DEF FollowInv, InStep
  <2>3. k = n
    <3>1. n \in 1..MaxEvents /\ n \in DOMAIN events[s]
      BY <2>1, BoundAssumption
    <3>2. <<s, n>> \in acked
      BY <3>1 DEF Settled
    <3> QED BY <2>1, <2>2, <3>1, <3>2 DEF UpTo
  <2>4. /\ row[s] # NoRow /\ TierSince(events[s], row[s], n)
        /\ Says(row[s], Last(s)) /\ Ends(row[s], Last(s))
    BY <2>1, <2>2, <2>3 DEF UpTo, AroundOf, Last
  <2>5. row[s].tier = TierFromPriceId(Last(s).price)
    BY <2>1, <2>4 DEF TierSince, Last
  <2>6. row[s] \in Row /\ row[s].customer_email = EmailOf[s]
    BY <2>4 DEF FollowInv, SubInv, TypeOK, RowsInv
  <2> QED BY <2>4, <2>5, <2>6, RowFields DEF Says, Ends
<1> QED BY <1>1, FollowInvInit, FollowInvNext, PTL DEF Spec
-----------------------------------------------------------------------------
(***************************************************************************)
(* Meetings.                                                               *)
(***************************************************************************)
Hears(h, e) == handler[h] # Idle /\ handler[h].email = e /\ handler[h].event # NoEvent

HandlerInv ==
  \A h \in Handlers : handler[h] # Idle /\ handler[h].event # NoEvent =>
    handler[h].event \in DOMAIN calendly[handler[h].email]

\* No meeting is booked twice.
BookedOnce ==
  \A e, f \in Invitees : \A i \in DOMAIN calendly[e], j \in DOMAIN calendly[f] :
    calendly[e][i] = calendly[f][j] /\ calendly[e][i].type = "created" => e = f /\ i = j

\* A meeting is booked, and only when it is cancelled the next one is.
Alternates(log) ==
  \A n \in DOMAIN log :
    IF n = 1 THEN log[n].type = "created"
    ELSE /\ log[n].type # log[n - 1].type
         /\ log[n].type = "canceled" => log[n].meeting = log[n - 1].meeting

\* After k answers the next event may be handled, and may be committed without an
\* answer.  The meeting that moved the application is the last one handled, or its
\* cancellation is.
Turn(e, k) ==
  /\ answered[e] = 1..k
  /\ \A h \in Handlers : Hears(h, e) =>
       /\ handler[h].event = k + 1
       /\ handler[h].new = After(handler[h].loaded, calendly[e][k + 1])
  /\ mover[e] # NoMeeting =>
       \E j \in DOMAIN calendly[e] :
         /\ calendly[e][j] = Created(mover[e])
         /\ \/ application[e].status = "CALLED" /\ j \in {k, k + 1}
            \/ application[e].status = "APPROVED" /\ j + 1 \in {k, k + 1} /\ j < Len(calendly[e])

MeetingInv ==
  /\ MeetingTypeOK /\ HandlerInv /\ BookedOnce
  /\ \A e \in Invitees \ jumbled :
       /\ Alternates(calendly[e])
       /\ \A g, h \in Handlers : Hears(g, e) /\ Hears(h, e) => g = h
       /\ \E k \in 0..Len(calendly[e]) : Turn(e, k)

\* What appending adds to a sequence.
LEMMA AppendElements ==
  ASSUME NEW S, NEW s \in Seq(S), NEW x \in S
  PROVE  /\ Append(s, x) \in Seq(S) /\ Len(Append(s, x)) = Len(s) + 1 /\ Len(s) \in Nat
         /\ \A i \in DOMAIN s : i \in DOMAIN Append(s, x) /\ Append(s, x)[i] = s[i]
         /\ Append(s, x)[Len(s) + 1] = x
         /\ \A i \in DOMAIN Append(s, x) : i \in DOMAIN s \/ i = Len(s) + 1
<1>1. /\ DOMAIN s = 1..Len(s) /\ Len(s) \in Nat /\ DOMAIN Append(s, x) = 1..Len(s) + 1
      /\ \A i \in 1..Len(s) : Append(s, x)[i] = s[i]
      /\ Append(s, x)[Len(s) + 1] = x /\ Append(s, x) \in Seq(S)
      /\ Len(Append(s, x)) = Len(s) + 1
  OBVIOUS
<1>2. \A i \in 1..Len(s) + 1 : i \in 1..Len(s) \/ i = Len(s) + 1
  BY <1>1
<1>3. \A i \in 1..Len(s) : i \in 1..Len(s) + 1
  BY <1>1
<1> QED BY <1>1, <1>2, <1>3

\* The log of an address, and what is in it.
LEMMA LogType ==
  ASSUME MeetingTypeOK, NEW e \in Invitees
  PROVE  /\ calendly[e] \in Seq([type : {"created", "canceled"}, meeting : Meeting])
         /\ Len(calendly[e]) \in Nat /\ DOMAIN calendly[e] = 1..Len(calendly[e])
         /\ \A i \in DOMAIN calendly[e] :
              /\ calendly[e][i].type \in {"created", "canceled"}
              /\ calendly[e][i].meeting \in Meeting
              /\ calendly[e][i].type = "created" => calendly[e][i] = Created(calendly[e][i].meeting)
              /\ calendly[e][i].type = "canceled" => calendly[e][i] = Canceled(calendly[e][i].meeting)
<1> DEFINE Item == [type : {"created", "canceled"}, meeting : Meeting]
<1>1. calendly[e] \in Seq(Item)
  BY DEF MeetingTypeOK
<1>2. \A x \in Item : /\ x.type \in {"created", "canceled"} /\ x.meeting \in Meeting
                      /\ x.type = "created" => x = Created(x.meeting)
                      /\ x.type = "canceled" => x = Canceled(x.meeting)
  BY DEF Created, Canceled
<1> HIDE DEF Item
<1>3. Len(calendly[e]) \in Nat /\ DOMAIN calendly[e] = 1..Len(calendly[e])
      /\ \A i \in DOMAIN calendly[e] : calendly[e][i] \in Item
  BY <1>1
<1> QED BY <1>1, <1>2, <1>3 DEF Item

\* In a log in order the meeting that stands is the last event's, if that made one.
LEMMA StandingIsLast ==
  ASSUME MeetingInv, NEW e \in Invitees \ jumbled
  PROVE  /\ \A m \in Standing(e) : /\ Len(calendly[e]) > 0
                                   /\ calendly[e][Len(calendly[e])] = Created(m)
         /\ \A i \in DOMAIN calendly[e] :
              calendly[e][i].type = "created" /\ calendly[e][i].meeting \notin Standing(e)
                => i < Len(calendly[e])
         /\ \A i \in DOMAIN calendly[e] :
              calendly[e][i].type = "created" /\ i < Len(calendly[e])
                => calendly[e][i].meeting \notin Standing(e)
<1> DEFINE log == calendly[e]
           n == Len(log)
<1>1. MeetingTypeOK /\ BookedOnce /\ Alternates(log)
  BY DEF MeetingInv
<1>2. /\ n \in Nat /\ DOMAIN log = 1..n
      /\ \A i \in DOMAIN log :
           /\ log[i].type \in {"created", "canceled"} /\ log[i].meeting \in Meeting
           /\ log[i].type = "created" => log[i] = Created(log[i].meeting)
           /\ log[i].type = "canceled" => log[i] = Canceled(log[i].meeting)
  BY <1>1, LogType
<1>3. \A i, j \in DOMAIN log : log[i] = log[j] /\ log[i].type = "created" => i = j
  BY <1>1 DEF BookedOnce
<1>4. \A m : /\ Created(m).type = "created" /\ Created(m).meeting = m
             /\ Canceled(m).type = "canceled" /\ Canceled(m).meeting = m
  BY DEF Created, Canceled
<1>5. \A x : x \in Log(e) <=> \E i \in DOMAIN log : log[i] = x
  BY DEF Log
<1> HIDE DEF log, n
<1>6. ASSUME NEW i \in DOMAIN log, log[i].type = "created", i < n
      PROVE  log[i].meeting \notin Standing(e)
  <2>1. i + 1 \in DOMAIN log /\ i + 1 # 1 /\ (i + 1) - 1 = i
    BY <1>2, <1>6
  <2>2. log[i + 1].type # log[i].type
        /\ (log[i + 1].type = "canceled" => log[i + 1].meeting = log[i].meeting)
    BY <1>1, <2>1 DEF Alternates
  <2>3. log[i + 1] = Canceled(log[i].meeting)
    BY <1>2, <1>6, <2>1, <2>2
  <2> QED BY <1>5, <2>1, <2>3 DEF Standing
<1>7. ASSUME NEW i \in DOMAIN log, log[i].type = "created", log[i].meeting \notin Standing(e)
      PROVE  i < n
  <2>1. Canceled(log[i].meeting) \in Log(e)
    BY <1>2, <1>5, <1>7 DEF Standing
  <2>2. PICK j \in DOMAIN log : log[j] = Canceled(log[i].meeting)
    BY <1>5, <2>1
  <2>3. j # 1
    BY <1>1, <1>4, <2>2 DEF Alternates
  <2>4. j - 1 \in DOMAIN log /\ log[j].type # log[j - 1].type /\ log[j].meeting = log[j - 1].meeting
    BY <1>1, <1>2, <1>4, <2>2, <2>3 DEF Alternates
  <2>5. log[j - 1] = Created(log[i].meeting)
    BY <1>2, <1>4, <2>2, <2>4
  <2>6. j - 1 = i
    BY <1>2, <1>3, <1>7, <2>4, <2>5
  <2> QED BY <1>2, <2>2, <2>6
<1>8. ASSUME NEW m \in Standing(e)
      PROVE  n > 0 /\ log[n] = Created(m)
  <2>1. PICK i \in DOMAIN log : log[i] = Created(m)
    BY <1>5, <1>8 DEF Standing
  <2>2. ~(i < n)
    BY <1>4, <1>6, <1>8, <2>1
  <2>3. i = n /\ n > 0
    BY <1>2, <2>2
  <2> QED BY <2>1, <2>3
<1> QED BY <1>6, <1>7, <1>8 DEF log, n

\* What a handler that is busy holds.
LEMMA TaskType ==
  ASSUME MeetingTypeOK, NEW h \in Handlers, handler[h] # Idle
  PROVE  /\ handler[h].email \in Invitees /\ handler[h].loaded \in Application
         /\ handler[h].new \in Application /\ handler[h].event \in Nat \union {NoEvent}
  BY DEF MeetingTypeOK

\* The row an event makes is one.
LEMMA AfterType ==
  ASSUME NEW r \in Application, NEW event, event.meeting \in Meeting
  PROVE  After(r, event) \in Application
  BY DEF After, AfterCreated, AfterCanceled, Application, MeetingStatus

\* Nothing is booked at the start.
LEMMA MeetingInvInit == MeetingInit => MeetingInv
<1> SUFFICES ASSUME MeetingInit PROVE MeetingInv
  OBVIOUS
<1>1. MeetingTypeOK
  BY MeetingBounds DEF MeetingInit, MeetingTypeOK, Application, MeetingStatus
<1>2. HandlerInv /\ BookedOnce
  BY DEF MeetingInit, HandlerInv, BookedOnce
<1>3. ASSUME NEW e \in Invitees
      PROVE  /\ Alternates(calendly[e])
             /\ \A g, h \in Handlers : Hears(g, e) /\ Hears(h, e) => g = h
             /\ 0 \in 0..Len(calendly[e]) /\ Turn(e, 0)
  BY DEF MeetingInit, Alternates, Hears, Turn
<1> QED BY <1>1, <1>2, <1>3 DEF MeetingInv

\* A new event at Calendly.
LEMMA EventPreserves ==
  ASSUME MeetingInv, NEW e \in Invitees,
         NEW event \in [type : {"created", "canceled"}, meeting : Meeting],
         calendly' = [calendly EXCEPT ![e] = Append(@, event)],
         event.type = "created" => \A f \in Invitees : event \notin Log(f),
         links' \in [Invitees -> 0..MaxLinks], jumbled' \in {jumbled, jumbled \union {e}},
         UNCHANGED <<answered, application, handler, mover>>,
         e \notin jumbled' => Alternates(Append(calendly[e], event))
  PROVE  MeetingInv'
<1> DEFINE Item == [type : {"created", "canceled"}, meeting : Meeting]
<1>1. MeetingTypeOK /\ HandlerInv /\ BookedOnce /\ jumbled \subseteq jumbled'
  BY DEF MeetingInv
<1>2. /\ calendly[e] \in Seq(Item) /\ event \in Item /\ calendly \in [Invitees -> Seq(Item)]
  BY <1>1 DEF MeetingTypeOK
<1> HIDE DEF Item
<1>3. /\ calendly' \in [Invitees -> Seq(Item)] /\ calendly'[e] = Append(calendly[e], event)
      /\ \A f \in Invitees \ {e} : calendly'[f] = calendly[f]
      /\ Len(calendly'[e]) = Len(calendly[e]) + 1 /\ Len(calendly[e]) \in Nat
      /\ \A i \in DOMAIN calendly[e] : i \in DOMAIN calendly'[e] /\ calendly'[e][i] = calendly[e][i]
      /\ calendly'[e][Len(calendly[e]) + 1] = event
      /\ \A i \in DOMAIN calendly'[e] : i \in DOMAIN calendly[e] \/ i = Len(calendly[e]) + 1
  BY <1>2, AppendElements
<1>4. /\ \A f \in Invitees : DOMAIN calendly[f] \subseteq DOMAIN calendly'[f]
      /\ \A f \in Invitees : \A i \in DOMAIN calendly[f] : calendly'[f][i] = calendly[f][i]
      /\ \A f \in Invitees : Len(calendly[f]) \in Nat /\ Len(calendly[f]) <= Len(calendly'[f])
                             /\ Len(calendly'[f]) \in Nat
  <2>1. \A f \in Invitees : Len(calendly[f]) \in Nat
    BY <1>1, LogType
  <2> QED BY <1>3, <2>1
<1>5. MeetingTypeOK'
  <2>1. \A f \in Invitees : answered'[f] \subseteq DOMAIN calendly'[f]
    BY <1>1, <1>4 DEF MeetingTypeOK
  <2>2. jumbled' \subseteq Invitees
    BY <1>1 DEF MeetingTypeOK
  <2> QED BY <1>1, <1>3, <2>1, <2>2 DEF MeetingTypeOK, Item
<1>6. HandlerInv'
  <2>1. \A h \in Handlers : handler[h] # Idle => handler[h].email \in Invitees
    BY <1>1, TaskType
  <2> QED BY <1>1, <1>4, <2>1 DEF HandlerInv
<1>7. BookedOnce'
  <2> SUFFICES ASSUME NEW f \in Invitees, NEW g \in Invitees,
                      NEW i \in DOMAIN calendly'[f], NEW j \in DOMAIN calendly'[g],
                      calendly'[f][i] = calendly'[g][j], calendly'[f][i].type = "created"
               PROVE  f = g /\ i = j
    BY DEF BookedOnce
  <2>1. \A h \in Invitees : \A k \in DOMAIN calendly'[h] :
          \/ k \in DOMAIN calendly[h] /\ calendly'[h][k] = calendly[h][k]
          \/ h = e /\ k = Len(calendly[e]) + 1 /\ calendly'[h][k] = event
    BY <1>3
  <2>2. event.type = "created" => \A h \in Invitees : \A k \in DOMAIN calendly[h] : calendly[h][k] # event
    BY DEF Log
  <2>3. CASE i \in DOMAIN calendly[f] /\ calendly'[f][i] = calendly[f][i]
    BY <1>1, <2>1, <2>2, <2>3 DEF BookedOnce
  <2>4. CASE f = e /\ i = Len(calendly[e]) + 1 /\ calendly'[f][i] = event
    BY <2>1, <2>2, <2>4
  <2> QED BY <2>1, <2>3, <2>4
<1>8. ASSUME NEW f \in Invitees \ jumbled'
      PROVE  /\ Alternates(calendly'[f])
             /\ \A g, h \in Handlers : Hears(g, f)' /\ Hears(h, f)' => g = h
             /\ \E k \in 0..Len(calendly'[f]) : Turn(f, k)'
  <2>0. f \in Invitees \ jumbled
    BY <1>1
  <2>1. Alternates(calendly'[f])
    <3>1. CASE f = e
      BY <1>3, <1>8, <3>1
    <3>2. CASE f # e
      BY <1>3, <2>0, <3>2 DEF MeetingInv
    <3> QED BY <3>1, <3>2
  <2>2. \A h \in Handlers : Hears(h, f)' <=> Hears(h, f)
    BY DEF Hears
  <2>3. PICK k \in 0..Len(calendly[f]) : Turn(f, k)
    BY <2>0 DEF MeetingInv
  <2>4. k \in 0..Len(calendly'[f])
    BY <1>4
  <2>5. \A h \in Handlers : Hears(h, f) => calendly'[f][k + 1] = calendly[f][k + 1]
    <3>1. \A h \in Handlers : Hears(h, f) => k + 1 \in DOMAIN calendly[f]
      BY <1>1, <2>3 DEF Hears, HandlerInv, Turn
    <3> QED BY <1>4, <3>1
  <2>6. Turn(f, k)'
    <3>1. \A h \in Handlers : Hears(h, f)' =>
             handler'[h].event = k + 1
             /\ handler'[h].new = After(handler'[h].loaded, calendly'[f][k + 1])
      BY <2>2, <2>3, <2>5 DEF Turn
    <3>2. ASSUME mover'[f] # NoMeeting
          PROVE  \E j \in DOMAIN calendly'[f] :
                   /\ calendly'[f][j] = Created(mover'[f])
                   /\ \/ application'[f].status = "CALLED" /\ j \in {k, k + 1}
                      \/ application'[f].status = "APPROVED" /\ j + 1 \in {k, k + 1}
                         /\ j < Len(calendly'[f])
      <4>1. PICK j \in DOMAIN calendly[f] :
              /\ calendly[f][j] = Created(mover[f])
              /\ \/ application[f].status = "CALLED" /\ j \in {k, k + 1}
                 \/ application[f].status = "APPROVED" /\ j + 1 \in {k, k + 1}
                    /\ j < Len(calendly[f])
        BY <2>3, <3>2 DEF Turn
      <4>2. j \in DOMAIN calendly'[f] /\ calendly'[f][j] = calendly[f][j]
            /\ (j < Len(calendly[f]) => j < Len(calendly'[f]))
        BY <1>1, <1>4, LogType
      <4> QED BY <4>1, <4>2
    <3>3. answered'[f] = 1..k
      BY <2>3 DEF Turn
    <3> QED BY <3>1, <3>2, <3>3 DEF Turn
  <2> QED BY <2>0, <2>1, <2>2, <2>4, <2>6 DEF MeetingInv
<1> QED BY <1>5, <1>6, <1>7, <1>8 DEF MeetingInv

\* A booking of an address without a meeting continues its log in order.
LEMMA BooksPreserves ==
  ASSUME MeetingInv, NEW e \in Invitees, InviteeBooks(e)
  PROVE  MeetingInv'
<1>1. PICK m \in Meeting : /\ Booked = 1..(m - 1)
                           /\ calendly' = [calendly EXCEPT ![e] = Append(@, Created(m))]
  BY DEF InviteeBooks
<1>2. MeetingTypeOK
  BY DEF MeetingInv
<1>3. m \in Nat /\ m \notin Booked
  BY <1>1, MeetingBounds DEF Meeting
<1>4. \A f \in Invitees : Created(m) \notin Log(f)
  BY <1>3 DEF Booked
<1>5. links' \in [Invitees -> 0..MaxLinks]
  <2>1. links[e] \in 0..MaxLinks /\ links[e] > 0 /\ links \in [Invitees -> 0..MaxLinks]
    BY <1>2 DEF InviteeBooks, MeetingTypeOK
  <2>2. links[e] - 1 \in 0..MaxLinks
    BY <2>1, MeetingBounds
  <2> QED BY <2>1, <2>2 DEF InviteeBooks
<1>6. /\ jumbled' \in {jumbled, jumbled \union {e}}
      /\ UNCHANGED <<answered, application, handler, mover>>
      /\ e \notin jumbled' => e \notin jumbled /\ Standing(e) = {}
  BY DEF InviteeBooks
<1>7. Created(m) \in [type : {"created", "canceled"}, meeting : Meeting]
  BY DEF Created
<1>8. ASSUME e \notin jumbled'
      PROVE  Alternates(Append(calendly[e], Created(m)))
  <2> DEFINE log == calendly[e]
             n == Len(log)
             event == Created(m)
             Item == [type : {"created", "canceled"}, meeting : Meeting]
  <2>1. log \in Seq(Item) /\ n \in Nat /\ DOMAIN log = 1..n
        /\ \A i \in DOMAIN log : log[i].type \in {"created", "canceled"}
    BY <1>2, LogType
  <2>2. Alternates(log) /\ Standing(e) = {}
    BY <1>6, <1>8 DEF MeetingInv
  <2>3. n > 0 => log[n].type # "created"
    <3>1. n > 0 => n \in DOMAIN log
      BY <2>1
    <3> QED BY <1>6, <1>8, <2>1, <2>2, <3>1, StandingIsLast
  <2>4. event.type = "created" /\ event \in Item
    BY <1>7 DEF Created
  <2> HIDE DEF log, event, Item
  <2>5. /\ \A i \in DOMAIN log : Append(log, event)[i] = log[i]
        /\ Append(log, event)[n + 1] = event
        /\ \A i \in DOMAIN Append(log, event) : i \in DOMAIN log \/ i = n + 1
    BY <2>1, <2>4, AppendElements
  <2>6. ASSUME NEW i \in DOMAIN Append(log, event)
        PROVE  IF i = 1 THEN Append(log, event)[i].type = "created"
               ELSE /\ Append(log, event)[i].type # Append(log, event)[i - 1].type
                    /\ Append(log, event)[i].type = "canceled" =>
                         Append(log, event)[i].meeting = Append(log, event)[i - 1].meeting
    <3>1. CASE i \in DOMAIN log
      <4>1. i # 1 => i - 1 \in DOMAIN log
        BY <2>1, <3>1
      <4> QED BY <2>2, <2>5, <3>1, <4>1 DEF Alternates
    <3>2. CASE i = n + 1
      <4>1. i # 1 => n \in DOMAIN log /\ n > 0 /\ i - 1 = n
        BY <2>1, <3>2
      <4> QED BY <2>3, <2>4, <2>5, <3>2, <4>1
    <3> QED BY <2>5, <3>1, <3>2
  <2> QED BY <2>6 DEF Alternates, log, event
<1> HIDE DEF Created
<1> QED BY <1>1, <1>4, <1>5, <1>6, <1>7, <1>8, EventPreserves

\* Only the meeting of the last event can be cancelled.
LEMMA CancelsPreserves ==
  ASSUME MeetingInv, NEW e \in Invitees, InviteeCancels(e)
  PROVE  MeetingInv'
<1>1. PICK m \in Standing(e) : calendly' = [calendly EXCEPT ![e] = Append(@, Canceled(m))]
  BY DEF InviteeCancels
<1>2. MeetingTypeOK
  BY DEF MeetingInv
<1>3. /\ UNCHANGED <<links, answered, application, handler, mover, jumbled>>
      /\ links' \in [Invitees -> 0..MaxLinks]
  BY <1>2 DEF InviteeCancels, MeetingTypeOK
<1>4. /\ Canceled(m) \in [type : {"created", "canceled"}, meeting : Meeting]
      /\ Canceled(m).type = "canceled" /\ Canceled(m).meeting = m
  BY DEF Canceled, Standing
<1>5. ASSUME e \notin jumbled'
      PROVE  Alternates(Append(calendly[e], Canceled(m)))
  <2> DEFINE log == calendly[e]
             n == Len(log)
             event == Canceled(m)
             Item == [type : {"created", "canceled"}, meeting : Meeting]
  <2>1. log \in Seq(Item) /\ n \in Nat /\ DOMAIN log = 1..n
    BY <1>2, LogType
  <2>2. Alternates(log) /\ n > 0 /\ log[n] = Created(m)
    BY <1>3, <1>5, StandingIsLast DEF MeetingInv
  <2>3. event \in Item /\ event.type = "canceled" /\ event.meeting = m
        /\ log[n].type = "created" /\ log[n].meeting = m
    BY <1>4, <2>2 DEF Created
  <2> HIDE DEF log, event, Item
  <2>4. /\ \A i \in DOMAIN log : Append(log, event)[i] = log[i]
        /\ Append(log, event)[n + 1] = event
        /\ \A i \in DOMAIN Append(log, event) : i \in DOMAIN log \/ i = n + 1
    BY <2>1, <2>3, AppendElements
  <2>5. ASSUME NEW i \in DOMAIN Append(log, event)
        PROVE  IF i = 1 THEN Append(log, event)[i].type = "created"
               ELSE /\ Append(log, event)[i].type # Append(log, event)[i - 1].type
                    /\ Append(log, event)[i].type = "canceled" =>
                         Append(log, event)[i].meeting = Append(log, event)[i - 1].meeting
    <3>1. CASE i \in DOMAIN log
      <4>1. i # 1 => i - 1 \in DOMAIN log
        BY <2>1, <3>1
      <4> QED BY <2>2, <2>4, <3>1, <4>1 DEF Alternates
    <3>2. CASE i = n + 1
      <4>1. i # 1 /\ n \in DOMAIN log /\ i - 1 = n
        BY <2>1, <2>2, <3>2
      <4> QED BY <2>3, <2>4, <3>2, <4>1
    <3> QED BY <2>4, <3>1, <3>2
  <2> QED BY <2>5 DEF Alternates, log, event
<1> HIDE DEF Canceled
<1> QED BY <1>1, <1>3, <1>4, <1>5, EventPreserves

\* A handler starts.
LEMMA TakePreserves ==
  ASSUME MeetingInv, NEW h \in Handlers, NEW e \in Invitees, NEW new \in Application, NEW n,
         Take(h, e, new, n), n # NoEvent => n \in DOMAIN calendly[e],
         jumbled' \in {jumbled, jumbled \union {e}},
         e \notin jumbled' /\ n # NoEvent =>
           Punctual(e, n) /\ new = After(application[e], calendly[e][n]),
         UNCHANGED <<links, calendly, answered, application, mover>>
  PROVE  MeetingInv'
<1> DEFINE t == [email |-> e, loaded |-> application[e], new |-> new, event |-> n]
<1>1. MeetingTypeOK /\ HandlerInv /\ BookedOnce /\ jumbled \subseteq jumbled'
  BY DEF MeetingInv
<1>2. handler[h] = Idle /\ handler' = [handler EXCEPT ![h] = t]
  BY DEF Take
<1>3. t.email = e /\ t.loaded = application[e] /\ t.new = new /\ t.event = n
  OBVIOUS
<1> HIDE DEF t
<1>4. /\ \A g \in Handlers \ {h} : handler'[g] = handler[g]
      /\ handler'[h] \in {handler[h], t}
  BY <1>2
<1>6. application[e] \in Application
  BY <1>1 DEF MeetingTypeOK
<1>5. MeetingTypeOK' /\ BookedOnce'
  <2>1. calendly[e] \in Seq([type : {"created", "canceled"}, meeting : Meeting])
        /\ n \in Nat \union {NoEvent}
    <3>1. DOMAIN calendly[e] \subseteq Nat
      BY <1>1, LogType
    <3> QED BY <1>1, <3>1, LogType
  <2>2. t \in [email : Invitees, loaded : Application, new : Application,
               event : Nat \union {NoEvent}]
    BY <1>6, <2>1 DEF t
  <2>3. handler' \in [Handlers -> [email : Invitees, loaded : Application, new : Application,
                                   event : Nat \union {NoEvent}] \union {Idle}]
    BY <1>1, <1>2, <2>2 DEF MeetingTypeOK
  <2>4. jumbled' \subseteq Invitees
    BY <1>1 DEF MeetingTypeOK
  <2>5. MeetingTypeOK'
    BY <1>1, <2>3, <2>4 DEF MeetingTypeOK
  <2>6. BookedOnce'
    BY <1>1 DEF BookedOnce
  <2> QED BY <2>5, <2>6
<1>7. HandlerInv'
  <2> SUFFICES ASSUME NEW g \in Handlers, handler'[g] # Idle, handler'[g].event # NoEvent
               PROVE  handler'[g].event \in DOMAIN calendly[handler'[g].email]
    BY DEF HandlerInv
  <2>1. CASE g = h
    BY <1>2, <1>3, <1>4, <1>6, <2>1
  <2>2. CASE g # h
    BY <1>1, <1>4, <2>2 DEF HandlerInv
  <2> QED BY <2>1, <2>2
<1>8. \A f \in Invitees, g \in Handlers :
        Hears(g, f)' <=> Hears(g, f) \/ (g = h /\ Hears(h, f)')
  BY <1>4, <1>2 DEF Hears
<1>9. \A f \in Invitees : Hears(h, f)' => f = e /\ n # NoEvent /\ handler'[h] = t
  BY <1>2, <1>3, <1>4 DEF Hears
<1>10. \A f \in Invitees : ~Hears(h, f)
  BY <1>2 DEF Hears
<1>11. ASSUME NEW f \in Invitees \ jumbled'
       PROVE  /\ Alternates(calendly'[f])
              /\ \A g, k \in Handlers : Hears(g, f)' /\ Hears(k, f)' => g = k
              /\ \E k \in 0..Len(calendly'[f]) : Turn(f, k)'
  <2>1. PICK k \in 0..Len(calendly[f]) : Turn(f, k)
    BY <1>1 DEF MeetingInv
  <2>2. Alternates(calendly'[f])
    BY <1>1 DEF MeetingInv
  <2>3. ASSUME Hears(h, f)'
        PROVE  \A g \in Handlers : ~Hears(g, f)
    BY <1>9, <1>11, <2>3 DEF Punctual, Hears
  <2>4. \A g, i \in Handlers : Hears(g, f)' /\ Hears(i, f)' => g = i
    <3>1. \A g, i \in Handlers : Hears(g, f) /\ Hears(i, f) => g = i
      BY <1>1, <1>11 DEF MeetingInv
    <3> QED BY <1>8, <2>3, <3>1
  <2>5. ASSUME Hears(h, f)'
        PROVE  n = k + 1
    <3>1. f = e /\ n # NoEvent /\ Punctual(e, n) /\ n \in 1..Len(calendly[e]) /\ Len(calendly[e]) \in Nat
      BY <1>1, <1>9, <1>11, <2>5, LogType
    <3>2. 1..(n - 1) = 1..k /\ n \in Nat \ {0} /\ k \in Nat
      BY <2>1, <3>1 DEF Punctual, Turn
    <3>3. n - 1 = k
      <4>1. \A a, b \in Nat : 1..a = 1..b => a = b
        <5>1. ASSUME NEW a \in Nat, NEW b \in Nat, 1..a = 1..b PROVE ~(a < b)
          <6>1. a < b => b \in 1..b /\ b \notin 1..a
            BY <5>1
          <6> QED BY <5>1, <6>1
        <5>2. ASSUME NEW a \in Nat, NEW b \in Nat, 1..a = 1..b PROVE a = b
          <6>1. ~(a < b) /\ ~(b < a)
            BY <5>1, <5>2
          <6> QED BY <6>1
        <5> QED BY <5>2
      <4>2. n - 1 \in Nat
        BY <3>2
      <4> QED BY <3>2, <4>1, <4>2
    <3> QED BY <3>2, <3>3
  <2>6. ASSUME NEW g \in Handlers, Hears(g, f)'
        PROVE  /\ handler'[g].event = k + 1
               /\ handler'[g].new = After(handler'[g].loaded, calendly[f][k + 1])
    <3>1. CASE Hears(g, f)
      <4>1. g # h /\ handler'[g] = handler[g]
        BY <1>4, <1>10, <3>1
      <4> QED BY <2>1, <3>1, <4>1 DEF Turn
    <3>2. CASE ~Hears(g, f)
      <4>1. g = h /\ Hears(h, f)'
        BY <1>8, <2>6, <3>2
      <4>2. f = e /\ n # NoEvent /\ handler'[h] = t /\ n = k + 1
        BY <1>9, <2>5, <4>1
      <4>3. e \notin jumbled'
        BY <1>11, <4>2
      <4>4. new = After(application[e], calendly[e][n])
        BY <4>2, <4>3
      <4> QED BY <1>3, <4>1, <4>2, <4>4
    <3> QED BY <3>1, <3>2
  <2>7. Turn(f, k)'
    BY <2>1, <2>6 DEF Turn
  <2> QED BY <2>1, <2>2, <2>4, <2>7
<1> QED BY <1>5, <1>7, <1>11 DEF MeetingInv

\* A commit of what was loaded, with or without an answer.
LEMMA CommitMeetingPreserves ==
  ASSUME MeetingInv, NEW h \in Handlers, CommitMeeting(h)
  PROVE  MeetingInv'
<1> DEFINE t == handler[h]
           e == t.email
           log == calendly[e]
<1>1. MeetingTypeOK /\ HandlerInv /\ BookedOnce /\ t # Idle
  BY DEF MeetingInv, CommitMeeting
<1>2. e \in Invitees /\ t.loaded \in Application /\ t.new \in Application
      /\ (t.event # NoEvent => t.event \in DOMAIN log)
  BY <1>1, TaskType DEF HandlerInv
<1>3. /\ application' = [application EXCEPT ![e] =
             [status |-> Merged(@.status, t.loaded.status, t.new.status),
              uri |-> Merged(@.uri, t.loaded.uri, t.new.uri)]]
      /\ mover' = [mover EXCEPT ![e] =
             IF t.event = NoEvent THEN NoMeeting
             ELSE IF t.new.status = "CALLED" /\ t.loaded.status # "CALLED" THEN t.new.uri ELSE @]
      /\ jumbled' = IF application[e] # t.loaded THEN jumbled \union {e} ELSE jumbled
      /\ answered' \in IF t.event = NoEvent THEN {answered}
                       ELSE {answered, [answered EXCEPT ![e] = @ \union {t.event}]}
      /\ handler' = [handler EXCEPT ![h] = Idle]
      /\ UNCHANGED <<links, calendly>>
  BY DEF CommitMeeting
<1> HIDE DEF t, e, log
<1>4. application' \in [Invitees -> Application]
  <2>1. application[e] \in Application /\ application \in [Invitees -> Application]
    BY <1>1, <1>2 DEF MeetingTypeOK
  <2>2. [status |-> Merged(application[e].status, t.loaded.status, t.new.status),
         uri |-> Merged(application[e].uri, t.loaded.uri, t.new.uri)] \in Application
    BY <1>2, <2>1 DEF Merged, Application
  <2> QED BY <1>3, <2>1, <2>2
<1>5. mover' \in [Invitees -> Meeting \union {NoMeeting}]
  BY <1>1, <1>2, <1>3 DEF MeetingTypeOK, Application
<1>6. /\ \A f \in Invitees : answered'[f] \subseteq DOMAIN calendly[f]
      /\ \A f \in Invitees \ {e} : answered'[f] = answered[f]
      /\ \/ answered'[e] = answered[e]
         \/ t.event # NoEvent /\ answered'[e] = answered[e] \union {t.event}
      /\ answered' \in [Invitees -> SUBSET Nat]
  <2>1. CASE answered' = answered
    BY <1>1, <2>1 DEF MeetingTypeOK
  <2>2. CASE t.event # NoEvent /\ answered' = [answered EXCEPT ![e] = @ \union {t.event}]
    <3>0. answered \in [Invitees -> SUBSET Nat] /\ t.event \in Nat
      BY <1>1, <1>2, <2>2, LogType DEF MeetingTypeOK, log
    <3>1. /\ \A f \in Invitees \ {e} : answered'[f] = answered[f]
          /\ answered' \in [Invitees -> SUBSET Nat]
      BY <2>2, <3>0
    <3>2. answered'[e] = answered[e] \union {t.event}
      BY <1>2, <2>2, <3>0
    <3>3. answered[e] \subseteq DOMAIN calendly[e] /\ t.event \in DOMAIN calendly[e]
          /\ \A f \in Invitees : answered[f] \subseteq DOMAIN calendly[f]
      BY <1>1, <1>2, <2>2 DEF MeetingTypeOK, log
    <3> QED BY <2>2, <3>1, <3>2, <3>3
  <2> QED BY <1>3, <2>1, <2>2
<1>7. MeetingTypeOK' /\ jumbled \subseteq jumbled'
  BY <1>1, <1>2, <1>3, <1>4, <1>5, <1>6 DEF MeetingTypeOK
<1>8. \A g \in Handlers : handler'[g] # Idle => g # h /\ handler'[g] = handler[g]
  BY <1>1, <1>3 DEF MeetingTypeOK
<1>9. HandlerInv' /\ BookedOnce'
  BY <1>1, <1>3, <1>8 DEF HandlerInv, BookedOnce
<1>10. \A f \in Invitees, g \in Handlers : Hears(g, f)' => Hears(g, f) /\ g # h /\ handler'[g] = handler[g]
  BY <1>8 DEF Hears
<1>11. ASSUME NEW f \in Invitees \ jumbled'
       PROVE  /\ Alternates(calendly'[f])
              /\ \A g, i \in Handlers : Hears(g, f)' /\ Hears(i, f)' => g = i
              /\ \E k \in 0..Len(calendly'[f]) : Turn(f, k)'
  <2>1. /\ Alternates(calendly'[f]) /\ f \in Invitees \ jumbled
        /\ \A g, i \in Handlers : Hears(g, f) /\ Hears(i, f) => g = i
    BY <1>3, <1>7 DEF MeetingInv
  <2>2. PICK k \in 0..Len(calendly[f]) : Turn(f, k)
    BY <2>1 DEF MeetingInv
  <2>3. \A g \in Handlers : Hears(g, f)' =>
          /\ handler'[g].event = k + 1
          /\ handler'[g].new = After(handler'[g].loaded, calendly[f][k + 1])
    BY <1>10, <2>2 DEF Turn
  <2>4. CASE f # e
    <3>1. application'[f] = application[f] /\ mover'[f] = mover[f] /\ answered'[f] = answered[f]
      BY <1>1, <1>3, <1>6, <2>4 DEF MeetingTypeOK
    <3>2. Turn(f, k)'
      BY <1>3, <2>2, <2>3, <3>1 DEF Turn
    <3> QED BY <1>3, <1>10, <2>1, <2>2, <3>2
  <2>5. CASE f = e /\ t.event = NoEvent
    <3>1. mover'[f] = NoMeeting /\ answered'[f] = answered[f]
      BY <1>1, <1>2, <1>3, <1>6, <2>5 DEF MeetingTypeOK
    <3>2. Turn(f, k)'
      BY <1>3, <2>2, <2>3, <3>1 DEF Turn
    <3> QED BY <1>3, <1>10, <2>1, <2>2, <3>2
  <2>6. CASE f = e /\ t.event # NoEvent
    <3>1. Hears(h, f) /\ \A g \in Handlers : ~Hears(g, f)'
      <4>1. Hears(h, f)
        BY <1>1, <2>6 DEF Hears, t, e
      <4>2. \A g \in Handlers : Hears(g, f)' => Hears(g, f) /\ g # h
        BY <1>10
      <4> QED BY <2>1, <4>1, <4>2
    <3>2. /\ t.event = k + 1 /\ t.new = After(t.loaded, log[k + 1]) /\ k + 1 \in DOMAIN log
          /\ answered[e] = 1..k
      BY <1>2, <2>2, <2>6, <3>1 DEF Turn, t, log
    <3>3. application[e] = t.loaded /\ application'[e] = t.new
      <4>1. application[e] = t.loaded
        BY <1>3, <2>6, <1>11
      <4>2. application'[e] = [status |-> t.new.status, uri |-> t.new.uri]
        BY <1>1, <1>2, <1>3, <4>1 DEF MeetingTypeOK, Merged
      <4>3. \A r \in Application : r = [status |-> r.status, uri |-> r.uri]
        BY DEF Application
      <4> QED BY <1>2, <4>1, <4>2, <4>3
    <3>4. /\ Len(log) \in Nat /\ DOMAIN log = 1..Len(log)
          /\ \A i \in DOMAIN log :
               /\ log[i].type \in {"created", "canceled"} /\ log[i].meeting \in Meeting
               /\ log[i].type = "created" => log[i] = Created(log[i].meeting)
               /\ log[i].type = "canceled" => log[i] = Canceled(log[i].meeting)
      BY <1>1, <1>2, LogType DEF log
    <3>5. \A i \in DOMAIN log : i > 1 => i - 1 \in DOMAIN log /\ log[i].type # log[i - 1].type
      BY <1>3, <2>1, <2>6, <3>4 DEF Alternates, log
    <3>6. mover'[e] = IF t.new.status = "CALLED" /\ t.loaded.status # "CALLED"
                      THEN t.new.uri ELSE mover[e]
      BY <1>1, <1>2, <1>3, <2>6 DEF MeetingTypeOK
    <3>7. mover[e] # NoMeeting =>
            \E j \in DOMAIN log :
              /\ log[j] = Created(mover[e])
              /\ \/ t.loaded.status = "CALLED" /\ j \in {k, k + 1}
                 \/ t.loaded.status = "APPROVED" /\ j + 1 \in {k, k + 1} /\ j < Len(log)
      BY <2>2, <2>6, <3>3 DEF Turn, log
    <3>8. \A m : Created(m).type = "created" /\ Created(m).meeting = m
      BY DEF Created
    <3>9. ASSUME mover'[e] # NoMeeting
          PROVE  \E j \in DOMAIN log :
                   /\ log[j] = Created(mover'[e])
                   /\ \/ t.new.status = "CALLED" /\ j = k + 1
                      \/ t.new.status = "APPROVED" /\ j = k /\ j < Len(log)
      <4>1. k \in Nat /\ k < Len(log)
        BY <2>2, <3>2, <3>4
      <4>2. CASE log[k + 1].type = "created" /\ t.loaded.status = "APPROVED"
        <5>1. t.new = [status |-> "CALLED", uri |-> log[k + 1].meeting]
          BY <3>2, <4>2 DEF After, AfterCreated
        <5>2. mover'[e] = log[k + 1].meeting /\ t.new.status = "CALLED"
          BY <3>6, <4>2, <5>1
        <5> QED BY <3>2, <3>4, <4>2, <5>2
      <4>3. CASE log[k + 1].type = "created" /\ t.loaded.status # "APPROVED"
        <5>1. t.new = t.loaded /\ mover'[e] = mover[e]
          BY <3>2, <3>6, <4>3 DEF After, AfterCreated
        <5>2. PICK j \in DOMAIN log : /\ log[j] = Created(mover[e])
                                      /\ t.loaded.status = "CALLED" /\ j \in {k, k + 1}
          BY <3>7, <3>9, <4>3, <5>1
        <5>3. j # k
          <6>1. ASSUME k \in DOMAIN log PROVE log[k + 1].type # log[k].type
            <7>1. k + 1 > 1 /\ (k + 1) - 1 = k
              BY <3>4, <6>1
            <7> QED BY <3>2, <3>5, <7>1
          <6> QED BY <3>8, <4>3, <5>2, <6>1
        <5> QED BY <5>1, <5>2, <5>3
      <4>4. CASE log[k + 1].type = "canceled" /\ t.loaded.status = "CALLED"
        <5>1. t.new.status = "APPROVED" /\ mover'[e] = mover[e]
          BY <3>2, <3>6, <4>4 DEF After, AfterCanceled
        <5>2. PICK j \in DOMAIN log : log[j] = Created(mover[e]) /\ j \in {k, k + 1}
          BY <3>7, <3>9, <4>4, <5>1
        <5>3. j # k + 1
          BY <3>8, <4>4, <5>2
        <5> QED BY <4>1, <5>1, <5>2, <5>3
      <4>5. CASE log[k + 1].type = "canceled" /\ t.loaded.status # "CALLED"
        <5>1. t.new = t.loaded /\ mover'[e] = mover[e]
          BY <3>2, <3>6, <4>5 DEF After, AfterCanceled
        <5>2. PICK j \in DOMAIN log : /\ log[j] = Created(mover[e])
                                      /\ t.loaded.status = "APPROVED" /\ j + 1 \in {k, k + 1}
                                      /\ j < Len(log)
          BY <3>7, <3>9, <4>5, <5>1
        <5>3. j + 1 # k
          <6>1. ASSUME j + 1 = k PROVE FALSE
            <7>1. k \in DOMAIN log /\ k > 1 /\ k - 1 = j /\ k + 1 > 1 /\ (k + 1) - 1 = k
              BY <3>4, <4>1, <5>2, <6>1
            <7>2. log[k].type # log[j].type /\ log[k + 1].type # log[k].type
              BY <3>2, <3>5, <7>1
            <7> QED BY <3>4, <3>8, <4>5, <5>2, <7>1, <7>2
          <6> QED BY <6>1
        <5>4. j = k
          BY <3>4, <4>1, <5>2, <5>3
        <5> QED BY <5>1, <5>2, <5>4
      <4> QED BY <3>2, <3>4, <4>2, <4>3, <4>4, <4>5
    <3>10. k \in Nat /\ k + 1 \in 0..Len(log) /\ k \in 0..Len(log)
           /\ (1..k) \union {k + 1} = 1..(k + 1)
      BY <2>2, <2>6, <3>2, <3>4 DEF log
    <3>11. \E l \in {k, k + 1} : answered'[e] = 1..l
      BY <1>6, <3>2, <3>10
    <3>12. PICK l \in {k, k + 1} : answered'[e] = 1..l
      BY <3>11
    <3>13. Turn(f, l)'
      <4>1. mover'[f] # NoMeeting =>
              \E j \in DOMAIN calendly'[f] :
                /\ calendly'[f][j] = Created(mover'[f])
                /\ \/ application'[f].status = "CALLED" /\ j \in {l, l + 1}
                   \/ application'[f].status = "APPROVED" /\ j + 1 \in {l, l + 1}
                      /\ j < Len(calendly'[f])
        BY <1>3, <2>6, <3>3, <3>9, <3>10 DEF log
      <4>2. answered'[f] = 1..l
        BY <2>6, <3>12
      <4> QED BY <3>1, <4>1, <4>2 DEF Turn
    <3>14. l \in 0..Len(calendly'[f])
      BY <1>3, <2>6, <3>10 DEF log
    <3> QED BY <1>10, <2>1, <3>13, <3>14
  <2> QED BY <2>4, <2>5, <2>6
<1> QED BY <1>7, <1>9, <1>11 DEF MeetingInv

LEMMA MeetingInvNext == MeetingInv /\ [MeetingNext]_meetingVars => MeetingInv'
<1> SUFFICES ASSUME MeetingInv, [MeetingNext]_meetingVars PROVE MeetingInv'
  OBVIOUS
<1>0. MeetingTypeOK /\ HandlerInv /\ BookedOnce
  BY DEF MeetingInv
<1>1. ASSUME UNCHANGED <<calendly, answered, application, handler, mover, jumbled>>,
             links' \in [Invitees -> 0..MaxLinks]
      PROVE  MeetingInv'
  <2>1. MeetingTypeOK' /\ HandlerInv' /\ BookedOnce'
    <3>1. MeetingTypeOK'
      BY <1>0, <1>1 DEF MeetingTypeOK
    <3>2. HandlerInv' /\ BookedOnce'
      BY <1>0, <1>1 DEF HandlerInv, BookedOnce
    <3> QED BY <3>1, <3>2
  <2>2. \A e \in Invitees : \A k \in 0..Len(calendly[e]) : Turn(e, k)' <=> Turn(e, k)
    BY <1>1 DEF Turn, Hears
  <2> QED BY <1>1, <2>1, <2>2 DEF MeetingInv, Hears
<1>2. ASSUME NEW e \in Invitees, BookMeeting(e)
      PROVE  MeetingInv'
  <2>1. links[e] \in 0..MaxLinks /\ links[e] < MaxLinks /\ links \in [Invitees -> 0..MaxLinks]
    BY <1>0, <1>2 DEF BookMeeting, MeetingTypeOK
  <2>2. links[e] + 1 \in 0..MaxLinks
    BY <2>1, MeetingBounds
  <2>3. links' \in [Invitees -> 0..MaxLinks]
    BY <1>2, <2>1, <2>2 DEF BookMeeting
  <2> QED BY <1>1, <1>2, <2>3 DEF BookMeeting
<1>3. ASSUME NEW h \in Handlers, NEW e \in Invitees, NEW n \in DOMAIN calendly[e],
             CalendlyWebhook(h, e, n)
      PROVE  MeetingInv'
  <2>1. After(application[e], calendly[e][n]) \in Application
    BY <1>0, LogType, AfterType DEF MeetingTypeOK
  <2> QED BY <1>3, <2>1, TakePreserves DEF CalendlyWebhook
<1>4. ASSUME NEW h \in Handlers, NEW e \in Invitees, NEW to \in MeetingStatus,
             MoveByAdmin(h, e, to)
      PROVE  MeetingInv'
  <2>1. [application[e] EXCEPT !.status = to] \in Application
    BY <1>0 DEF MeetingTypeOK, Application
  <2> QED BY <1>4, <2>1, TakePreserves DEF MoveByAdmin
<1>5. ASSUME NEW h \in Handlers, DropMeeting(h)
      PROVE  MeetingInv'
  <2>1. /\ handler' = [handler EXCEPT ![h] = Idle]
        /\ UNCHANGED <<links, calendly, answered, application, mover, jumbled>>
    BY <1>5 DEF DropMeeting
  <2>2. \A g \in Handlers : handler'[g] # Idle => handler'[g] = handler[g]
    BY <1>0, <2>1 DEF MeetingTypeOK
  <2>3. MeetingTypeOK' /\ HandlerInv' /\ BookedOnce'
    <3>1. MeetingTypeOK'
      BY <1>0, <2>1 DEF MeetingTypeOK
    <3>2. HandlerInv' /\ BookedOnce'
      BY <1>0, <2>1, <2>2 DEF HandlerInv, BookedOnce
    <3> QED BY <3>1, <3>2
  <2>4. \A g \in Handlers, e \in Invitees : Hears(g, e)' => Hears(g, e) /\ handler'[g] = handler[g]
    BY <2>2 DEF Hears
  <2>5. \A e \in Invitees : \A k \in 0..Len(calendly[e]) : Turn(e, k) => Turn(e, k)'
    BY <2>1, <2>4 DEF Turn
  <2>6. ASSUME NEW e \in Invitees \ jumbled
        PROVE  /\ Alternates(calendly[e])
               /\ \A g, i \in Handlers : Hears(g, e)' /\ Hears(i, e)' => g = i
               /\ \E k \in 0..Len(calendly[e]) : Turn(e, k)'
    BY <2>4, <2>5 DEF MeetingInv
  <2> QED BY <2>1, <2>3, <2>6 DEF MeetingInv
<1>6. CASE UNCHANGED meetingVars
  BY <1>0, <1>1, <1>6 DEF meetingVars, MeetingTypeOK
<1> QED
  BY <1>2, <1>3, <1>4, <1>5, <1>6, BooksPreserves, CancelsPreserves, CommitMeetingPreserves
     DEF MeetingNext

\* The state of the meetings is what the code's types say.
THEOREM MeetingTypeCorrect == MeetingSpec => []MeetingTypeOK
<1>1. MeetingInv => MeetingTypeOK
  BY DEF MeetingInv
<1> QED BY <1>1, MeetingInvInit, MeetingInvNext, PTL DEF MeetingSpec

\* Once every event is answered, in order and of one meeting at a time, an application
\* that a meeting moved is CALLED exactly while that meeting stands (calendly_webhook).
THEOREM CalledFollowsMeeting == MeetingSpec => []CalledWhileMeetingStands
<1>1. ASSUME MeetingInv PROVE CalledWhileMeetingStands
  <2> SUFFICES ASSUME NEW e \in Invitees \ jumbled,
                      answered[e] = DOMAIN calendly[e], mover[e] # NoMeeting
               PROVE  application[e].status = "CALLED" <=> mover[e] \in Standing(e)
    BY DEF CalledWhileMeetingStands
  <2> DEFINE log == calendly[e]
  <2>1. Len(log) \in Nat /\ DOMAIN log = 1..Len(log)
    BY <1>1, LogType DEF MeetingInv
  <2>2. PICK k \in 0..Len(log) : Turn(e, k)
    BY <1>1 DEF MeetingInv
  <2>3. k = Len(log)
    <3>1. 1..k = 1..Len(log)
      BY <2>1, <2>2 DEF Turn
    <3>2. k < Len(log) => Len(log) \in 1..Len(log) /\ Len(log) \notin 1..k
      BY <2>1, <2>2
    <3> QED BY <2>1, <2>2, <3>1, <3>2
  <2>4. PICK j \in DOMAIN log :
          /\ log[j] = Created(mover[e])
          /\ \/ application[e].status = "CALLED" /\ j \in {k, k + 1}
             \/ application[e].status = "APPROVED" /\ j + 1 \in {k, k + 1} /\ j < Len(log)
    BY <2>2 DEF Turn
  <2>5. log[j].type = "created" /\ log[j].meeting = mover[e]
    BY <2>4 DEF Created
  <2>6. /\ j < Len(log) => mover[e] \notin Standing(e)
        /\ ~(j < Len(log)) => mover[e] \in Standing(e)
    BY <1>1, <2>5, StandingIsLast
  <2>7. application[e].status = "CALLED" <=> ~(j < Len(log))
    BY <2>1, <2>3, <2>4
  <2> QED BY <2>6, <2>7
<1> QED BY <1>1, MeetingInvInit, MeetingInvNext, PTL DEF MeetingSpec
-----------------------------------------------------------------------------
\* A behaviour of the whole is one of each part.
LEMMA PartsAreComponents == PartsSpec => Spec /\ ResetSpec /\ SlotSpec /\ MeetingSpec
<1>1. PartsInit => Init /\ ResetInit /\ SlotInit /\ MeetingInit
  BY DEF PartsInit
<1>2. [PartsNext]_<<part, vars, resetVars, slotVars, meetingVars>> =>
        [Next]_vars /\ [ResetNext]_resetVars /\ [SlotNext]_slotVars /\ [MeetingNext]_meetingVars
  BY DEF PartsNext
<1> QED BY <1>1, <1>2, PTL DEF PartsSpec, Spec, ResetSpec, SlotSpec, MeetingSpec

\* The types of all rows, requests and histories, in the behaviours TLC runs too.
THEOREM PartsTypeCorrect == PartsSpec => []PartsTypeOK
<1>1. TypeOK /\ ResetTypeOK /\ SlotTypeOK /\ MeetingTypeOK => PartsTypeOK
  BY DEF PartsTypeOK
<1> QED
  BY <1>1, PartsAreComponents, SubscriptionTypeCorrect, ResetTypeCorrect, SlotTypeCorrect,
     MeetingTypeCorrect, PTL
=============================================================================
