------------------------------ MODULE Meetings ------------------------------
(***************************************************************************)
(* The meetings applicants book in Calendly, through a link the admin had  *)
(* made for one meeting, and the webhook that hears of them.  Calendly     *)
(* numbers the events of an e-mail address in the order in which they      *)
(* happen and delivers each until it is answered, in any order; the        *)
(* webhook matches an event to an application by the address alone.        *)
(***************************************************************************)
EXTENDS Naturals, Sequences, UnitOfWork

CONSTANTS
  Invitees,      \* the e-mail addresses, each with its newest application, the one an event is matched to
  Handlers,      \* requests in flight
  NoMeeting, NoEvent, Idle,
  MaxMeetings, MaxLinks   \* bounds

ASSUME MeetingBounds == MaxMeetings \in Nat /\ MaxLinks \in Nat

VARIABLES
  links,         \* unused links of each address
  calendly,      \* Calendly's log of each address
  answered,      \* the numbers of the events that were answered
  application,   \* status and calendly_event_uri
  handler,       \* what each handler loaded and is about to write
  mover,         \* history: the meeting that last made the application CALLED
  jumbled        \* history: addresses with two meetings at once, or events out of order

meetingVars == <<links, calendly, answered, application, handler, mover, jumbled>>

Meeting == 1..MaxMeetings
MeetingStatus == {"APPROVED", "CALLED", "UNDER_REVIEW"}
Application == [status : MeetingStatus, uri : Meeting \union {NoMeeting}]

MeetingInit ==
  /\ links = [e \in Invitees |-> 0]
  /\ calendly = [e \in Invitees |-> <<>>]
  /\ answered = [e \in Invitees |-> {}]
  /\ application = [e \in Invitees |-> [status |-> "APPROVED", uri |-> NoMeeting]]
  /\ handler = [h \in Handlers |-> Idle]
  /\ mover = [e \in Invitees |-> NoMeeting]
  /\ jumbled = {}
-----------------------------------------------------------------------------
Created(m) == [type |-> "created", meeting |-> m]
Canceled(m) == [type |-> "canceled", meeting |-> m]
Log(e) == {calendly[e][i] : i \in DOMAIN calendly[e]}
Standing(e) == {m \in Meeting : Created(m) \in Log(e) /\ Canceled(m) \notin Log(e)}
Booked == {m \in Meeting : \E e \in Invitees : Created(m) \in Log(e)}

\* book_meeting makes a link; the admin sends it to the applicant.
BookMeeting(e) ==
  /\ links[e] < MaxLinks
  /\ links' = [links EXCEPT ![e] = @ + 1]
  /\ UNCHANGED <<calendly, answered, application, handler, mover, jumbled>>

\* Calendly: the applicant books through a link.  Meetings are numbered as booked.
InviteeBooks(e) ==
  /\ links[e] > 0 /\ Booked # Meeting
  /\ links' = [links EXCEPT ![e] = @ - 1]
  /\ \E m \in Meeting :
       /\ Booked = 1..(m - 1)
       /\ calendly' = [calendly EXCEPT ![e] = Append(@, Created(m))]
  /\ jumbled' = IF Standing(e) # {} THEN jumbled \union {e} ELSE jumbled
  /\ UNCHANGED <<answered, application, handler, mover>>

InviteeCancels(e) ==
  /\ \E m \in Standing(e) : calendly' = [calendly EXCEPT ![e] = Append(@, Canceled(m))]
  /\ UNCHANGED <<links, answered, application, handler, mover, jumbled>>
-----------------------------------------------------------------------------
\* The row that an event makes of the one that was loaded.
AfterCreated(r, m) ==
  IF r.status = "APPROVED" THEN [status |-> "CALLED", uri |-> m] ELSE r

\* Fault: a cancellation only clears the URI.
AfterCanceledUriOnly(r) == [r EXCEPT !.uri = NoMeeting]

\* The URI of the event is not compared with the one on record.
AfterCanceled(r) ==
  IF r.status = "CALLED" THEN [status |-> "APPROVED", uri |-> NoMeeting] ELSE r

After(r, event) ==
  IF event.type = "created" THEN AfterCreated(r, event.meeting) ELSE AfterCanceled(r)

\* The events before this one are answered, no later one is, nobody handles another.
Punctual(e, n) ==
  /\ answered[e] = 1..(n - 1)
  /\ \A h \in Handlers : handler[h] # Idle => handler[h].email # e

Take(h, e, new, n) ==
  /\ handler[h] = Idle
  /\ handler' = [handler EXCEPT ![h] =
       [email |-> e, loaded |-> application[e], new |-> new, event |-> n]]

\* calendly_webhook up to its commit.
CalendlyWebhook(h, e, n) ==
  /\ n \in DOMAIN calendly[e] \ answered[e]
  /\ Take(h, e, After(application[e], calendly[e][n]), n)
  /\ jumbled' = IF Punctual(e, n) THEN jumbled ELSE jumbled \union {e}
  /\ UNCHANGED <<links, calendly, answered, application, mover>>

\* Everybody else: book_call, the status endpoint and the approval.
MoveByAdmin(h, e, to) ==
  /\ <<application[e].status, to>> \in
       {<<"APPROVED", "UNDER_REVIEW">>, <<"UNDER_REVIEW", "APPROVED">>,
        <<"APPROVED", "CALLED">>, <<"CALLED", "APPROVED">>}
  /\ Take(h, e, [application[e] EXCEPT !.status = to], NoEvent)
  /\ UNCHANGED <<links, calendly, answered, application, mover, jumbled>>

\* The commit; an event is answered after it, unless the process dies in between.
CommitMeeting(h) ==
  /\ handler[h] # Idle
  /\ LET t == handler[h]
         e == t.email
     IN /\ application' = [application EXCEPT ![e] =
             [status |-> Merged(@.status, t.loaded.status, t.new.status),
              uri |-> Merged(@.uri, t.loaded.uri, t.new.uri)]]
        /\ mover' = [mover EXCEPT ![e] =
             IF t.event = NoEvent THEN NoMeeting
             ELSE IF t.new.status = "CALLED" /\ t.loaded.status # "CALLED" THEN t.new.uri ELSE @]
        /\ jumbled' = IF application[e] # t.loaded THEN jumbled \union {e} ELSE jumbled
        /\ answered' \in IF t.event = NoEvent THEN {answered}
                         ELSE {answered, [answered EXCEPT ![e] = @ \union {t.event}]}
  /\ handler' = [handler EXCEPT ![h] = Idle]
  /\ UNCHANGED <<links, calendly>>

\* An exception, or the death of the process before the commit.
DropMeeting(h) ==
  /\ handler[h] # Idle
  /\ handler' = [handler EXCEPT ![h] = Idle]
  /\ UNCHANGED <<links, calendly, answered, application, mover, jumbled>>

MeetingNext ==
  \/ \E e \in Invitees : BookMeeting(e) \/ InviteeBooks(e) \/ InviteeCancels(e)
  \/ \E h \in Handlers, e \in Invitees : \E n \in DOMAIN calendly[e] : CalendlyWebhook(h, e, n)
  \/ \E h \in Handlers, e \in Invitees, to \in MeetingStatus : MoveByAdmin(h, e, to)
  \/ \E h \in Handlers : CommitMeeting(h) \/ DropMeeting(h)

MeetingSpec == MeetingInit /\ [][MeetingNext]_meetingVars
-----------------------------------------------------------------------------
MeetingTypeOK ==
  /\ links \in [Invitees -> 0..MaxLinks]
  /\ calendly \in [Invitees -> Seq([type : {"created", "canceled"}, meeting : Meeting])]
  /\ answered \in [Invitees -> SUBSET Nat]
  /\ \A e \in Invitees : answered[e] \subseteq DOMAIN calendly[e]
  /\ application \in [Invitees -> Application]
  /\ handler \in [Handlers -> [email : Invitees, loaded : Application, new : Application,
                              event : Nat \union {NoEvent}] \union {Idle}]
  /\ mover \in [Invitees -> Meeting \union {NoMeeting}]
  /\ jumbled \subseteq Invitees

\* When every event of an address is answered, and they were handled in order, of one
\* meeting at a time, the application that a meeting moved, and nobody since, is CALLED
\* exactly while that meeting stands.
CalledWhileMeetingStands ==
  \A e \in Invitees \ jumbled :
    answered[e] = DOMAIN calendly[e] /\ mover[e] # NoMeeting
      => (application[e].status = "CALLED" <=> mover[e] \in Standing(e))
=============================================================================
