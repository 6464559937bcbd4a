---------------------------- MODULE Subscription ----------------------------
(***************************************************************************)
(* The subscriptions to AISelect, as Stripe's events leave them.           *)
(*                                                                         *)
(* Stripe numbers the events of a subscription here; it promises neither   *)
(* their order nor that one comes only once, and delivers an event again   *)
(* until the webhook has answered it.  A delivery is a session: it loads   *)
(* the row, commits it anew or its changed columns, and sends an e-mail    *)
(* whose failure fails the delivery.                                       *)
(*                                                                         *)
(* Left out: the billing period, the company's name, the customer's id,    *)
(* subscriptions that begin with a trial, and a service without a key of   *)
(* the mail service, whose send_email returns and sends nothing.           *)
(***************************************************************************)
EXTENDS Naturals, Sequences, UnitOfWork

CONSTANTS
  Subs,          \* Stripe's subscriptions
  Emails,        \* addresses of customers
  EmailOf,       \* the address given at the checkout of each subscription
  NoEmail,       \* the empty customer_email
  NoMail,        \* the handler sends no e-mail
  Prices,
  PriceTier,     \* the tiers of the prices that are configured
  NoTier,        \* the checkout's metadata names no tier
  Workers,       \* deliveries in flight at one time
  NoRow, NoSession,
  MaxEvents,     \* bound: events of one subscription
  MaxOverlap     \* bound: events after which its deliveries no longer overlap

Tiers == {"free", "starter", "pro", "enterprise"}

ASSUME EmailAssumption ==
  EmailOf \in [Subs -> Emails] /\ NoEmail \notin Emails /\ NoMail \notin Emails \union {NoEmail}
ASSUME PriceAssumption ==
  DOMAIN PriceTier \subseteq Prices /\ \A p \in DOMAIN PriceTier : PriceTier[p] \in Tiers
ASSUME NoTierAssumption == NoTier \notin Tiers
ASSUME BoundAssumption == MaxEvents \in Nat /\ MaxOverlap \in Nat

VARIABLES
  events,        \* what has happened to each subscription at Stripe
  row,           \* aiselect_subscriptions
  session,       \* the delivery each worker is handling
  acked,         \* events answered with 200
  mailed,        \* history: events whose e-mail was sent
  guessed,       \* history: subscriptions whose tier was not to be had from Stripe
  disordered     \* history: subscriptions with an event late, early or beside another

vars == <<events, row, session, acked, mailed, guessed, disordered>>

StripeStatus == {"active", "past_due", "unpaid", "canceled"}
Event == [type : {"checkout", "updated", "deleted", "payment_failed"},
          price : Prices, metadata : Tiers \union {NoTier}, status : StripeStatus]

Status == {"active", "past_due", "cancelled", "incomplete"}
Row == [tier : Tiers, status : Status, cancelled_at : BOOLEAN,
        customer_email : Emails \union {NoEmail}]

\* `loaded` and `new` are the row before and after; `to` is who will get an e-mail.
Session == [sub : Subs, n : 1..MaxEvents, step : {"commit", "mail"},
            loaded : Row \union {NoRow}, new : Row,
            to : Emails \union {NoEmail, NoMail}]

ASSUME RowAssumption == NoRow \notin Row
ASSUME SessionAssumption == NoSession \notin Session

EventIds == Subs \X (1..MaxEvents)

Init ==
  /\ events = [s \in Subs |-> <<>>]
  /\ row = [s \in Subs |-> NoRow]
  /\ session = [w \in Workers |-> NoSession]
  /\ acked = {} /\ mailed = {} /\ guessed = {} /\ disordered = {}
-----------------------------------------------------------------------------
Last(s) == events[s][Len(events[s])]

TierFromPriceId(price) ==
  IF price \in DOMAIN PriceTier THEN PriceTier[price] ELSE "starter"

\* Fault: a status that is not in the table is stored as it came.
StatusFromStripeAsIs(status) == IF status = "canceled" THEN "cancelled" ELSE status

SubscriptionStatusFromStripe(status) ==
  CASE status \in {"active", "past_due"} -> status
    [] status = "canceled" -> "cancelled"
    [] OTHER -> "incomplete"
-----------------------------------------------------------------------------
(***************************************************************************)
(* Stripe.                                                                 *)
(***************************************************************************)
Emit(s, new) ==
  /\ Len(events[s]) + Len(new) <= MaxEvents
  /\ events' = [events EXCEPT ![s] = @ \o new]
  /\ UNCHANGED <<row, session, acked, mailed, guessed, disordered>>

Report(type, price, metadata, status) ==
  [type |-> type, price |-> price, metadata |-> metadata, status |-> status]

\* The metadata is the checkout's own and may name the tier.
Subscribe(s, price) ==
  /\ events[s] = <<>>
  /\ \E metadata \in {TierFromPriceId(price), NoTier} :
       Emit(s, <<Report("checkout", price, metadata, "active")>>)

Alive(s) == events[s] # <<>> /\ Last(s).status # "canceled"

\* Another price, or another status.
Change(s, price, status) ==
  /\ Alive(s)
  /\ status # "canceled"
  /\ price = Last(s).price <=> status # Last(s).status
  /\ Emit(s, <<Report("updated", price, NoTier, status)>>)

FailPayment(s) ==
  /\ Alive(s) /\ Last(s).status = "active"
  /\ Emit(s, <<Report("updated", Last(s).price, NoTier, "past_due"),
               Report("payment_failed", Last(s).price, NoTier, "past_due")>>)

Cancel(s) ==
  /\ Alive(s)
  /\ Emit(s, <<Report("deleted", Last(s).price, NoTier, "canceled")>>)
-----------------------------------------------------------------------------
(***************************************************************************)
(* The webhook.                                                            *)
(***************************************************************************)
InFlight(s) == {w \in Workers : session[w] # NoSession /\ session[w].sub = s}

\* Every earlier event has been answered, no later one has, none is being handled.
InOrder(s, n) ==
  /\ \A m \in 1..MaxEvents : <<s, m>> \in acked => m <= n
  /\ \A m \in 1..(n - 1) : <<s, m>> \in acked
  /\ InFlight(s) = {}

NotesOrder(s, n) ==
  disordered' = IF InOrder(s, n) THEN disordered ELSE disordered \union {s}

Delivered(s, n, type) == n \in DOMAIN events[s] /\ events[s][n].type = type

Open(w, s, n, new, to) ==
  /\ session[w] = NoSession
  /\ InFlight(s) # {} => Len(events[s]) <= MaxOverlap
  /\ session' = [session EXCEPT
       ![w] = [sub |-> s, n |-> n, step |-> "commit", loaded |-> row[s], new |-> new,
               to |-> to]]
  /\ NotesOrder(s, n)
  /\ UNCHANGED <<events, row, acked, mailed>>

\* Fault: the contact of the event is written to a known row too.
UpsertedContact(sub, tier, status, cancelled_at, email) ==
  [tier |-> tier, status |-> status, cancelled_at |-> cancelled_at,
   customer_email |-> email]

\* Only a new row gets the address.
Upserted(sub, tier, status, cancelled_at, email) ==
  [tier |-> tier, status |-> status, cancelled_at |-> cancelled_at,
   customer_email |-> IF sub = NoRow THEN email ELSE sub.customer_email]

\* Without a tier in the metadata the price Stripe knows now decides; it may not answer.
CheckoutSessionCompleted(w, s, n) ==
  /\ Delivered(s, n, "checkout")
  /\ \E retrieved \in BOOLEAN :
       LET e == events[s][n]
           tier == IF e.metadata # NoTier THEN e.metadata
                   ELSE IF retrieved THEN TierFromPriceId(Last(s).price) ELSE "starter"
       IN /\ Open(w, s, n, Upserted(row[s], tier, "active", FALSE, EmailOf[s]), EmailOf[s])
          /\ guessed' = IF e.metadata = NoTier /\ ~retrieved
                        THEN guessed \union {s} ELSE guessed

\* A row that this event has made, or will make, has no address: no e-mail.
Addressee(existing) ==
  IF existing = NoRow \/ existing.customer_email = NoEmail THEN NoMail
  ELSE existing.customer_email

SubscriptionUpdated(w, s, n) ==
  /\ Delivered(s, n, "updated")
  /\ LET new_tier == TierFromPriceId(events[s][n].price)
         new_status == SubscriptionStatusFromStripe(events[s][n].status)
         changed == row[s] # NoRow /\ row[s].tier # new_tier
     IN Open(w, s, n, Upserted(row[s], new_tier, new_status, FALSE, NoEmail),
             IF changed THEN Addressee(row[s]) ELSE NoMail)
  /\ UNCHANGED guessed

\* Fault: the tier of a subscription that ends is not looked up.
SubscriptionDeletedPlain(w, s, n) ==
  /\ Delivered(s, n, "deleted")
  /\ Open(w, s, n, Upserted(row[s], "starter", "cancelled", TRUE, NoEmail),
          Addressee(row[s]))
  /\ UNCHANGED guessed

SubscriptionDeleted(w, s, n) ==
  /\ Delivered(s, n, "deleted")
  /\ LET tier == IF row[s] = NoRow THEN "starter" ELSE row[s].tier
     IN Open(w, s, n, Upserted(row[s], tier, "cancelled", TRUE, NoEmail), Addressee(row[s]))
  /\ UNCHANGED guessed

InvoicePaymentFailed(w, s, n) ==
  /\ Delivered(s, n, "payment_failed")
  /\ row[s] # NoRow
  /\ Open(w, s, n, [row[s] EXCEPT !.status = "past_due"], row[s].customer_email)
  /\ UNCHANGED guessed

\* It is answered, and forgotten.
InvoiceOfUnknown(s, n) ==
  /\ Delivered(s, n, "payment_failed")
  /\ row[s] = NoRow
  /\ acked' = acked \union {<<s, n>>}
  /\ NotesOrder(s, n)
  /\ UNCHANGED <<events, row, session, mailed, guessed>>

Receive(w, s, n) ==
  \/ CheckoutSessionCompleted(w, s, n)
  \/ SubscriptionUpdated(w, s, n)
  \/ SubscriptionDeleted(w, s, n)
  \/ InvoicePaymentFailed(w, s, n)

\* _upsert_subscription looks for the row once more, and may find what the first look missed.
UpsertSubscription(w) ==
  /\ session[w] # NoSession /\ session[w].step = "commit"
  /\ session[w].loaded = NoRow /\ row[session[w].sub] # NoRow
  /\ LET h == session[w]
         sub == row[h.sub]
     IN session' = [session EXCEPT
          ![w] = [h EXCEPT !.loaded = sub,
                           !.new = Upserted(sub, @.tier, @.status, @.cancelled_at,
                                            @.customer_email)]]
  /\ UNCHANGED <<events, row, acked, mailed, guessed, disordered>>

MergedRow(current, loaded, new) ==
  [tier |-> Merged(current.tier, loaded.tier, new.tier),
   status |-> Merged(current.status, loaded.status, new.status),
   cancelled_at |-> Merged(current.cancelled_at, loaded.cancelled_at, new.cancelled_at),
   customer_email |->
     Merged(current.customer_email, loaded.customer_email, new.customer_email)]

\* stripe_subscription_id is unique: of two that insert the row, one fails.
Conflicts(w) == session[w].loaded = NoRow /\ row[session[w].sub] # NoRow

Commit(w) ==
  /\ session[w] # NoSession /\ session[w].step = "commit" /\ ~Conflicts(w)
  /\ LET h == session[w] IN
       /\ row' = [row EXCEPT ![h.sub] =
                    IF h.loaded = NoRow THEN h.new ELSE MergedRow(@, h.loaded, h.new)]
       /\ session' = [session EXCEPT ![w] = [h EXCEPT !.step = "mail"]]
  /\ UNCHANGED <<events, acked, mailed, guessed, disordered>>

\* Fault: the failure of the e-mail is caught, as it is for the other e-mails.
MailOrNot(w) ==
  /\ session[w] # NoSession /\ session[w].step = "mail"
  /\ \E sent \in BOOLEAN :
       LET h == session[w] IN
         /\ acked' = acked \union {<<h.sub, h.n>>}
         /\ mailed' = IF sent /\ h.to \in Emails THEN mailed \union {<<h.sub, h.n>>} ELSE mailed
         /\ session' = [session EXCEPT ![w] = NoSession]
  /\ UNCHANGED <<events, row, guessed, disordered>>

\* The e-mail is sent, if there is one to send, and Stripe gets its answer.
Mail(w) ==
  /\ session[w] # NoSession /\ session[w].step = "mail" /\ session[w].to # NoEmail
  /\ LET h == session[w] IN
       /\ acked' = acked \union {<<h.sub, h.n>>}
       /\ mailed' = IF h.to \in Emails THEN mailed \union {<<h.sub, h.n>>} ELSE mailed
       /\ session' = [session EXCEPT ![w] = NoSession]
  /\ UNCHANGED <<events, row, guessed, disordered>>

\* The process dies, the database fails, the commit conflicts or the e-mail is refused:
\* Stripe gets no answer, or an error.
Fail(w) ==
  /\ session[w] # NoSession
  /\ session' = [session EXCEPT ![w] = NoSession]
  /\ UNCHANGED <<events, row, acked, mailed, guessed, disordered>>
-----------------------------------------------------------------------------
Stripe ==
  \E s \in Subs :
    \/ \E price \in Prices : Subscribe(s, price)
    \/ \E price \in Prices, status \in StripeStatus : Change(s, price, status)
    \/ FailPayment(s)
    \/ Cancel(s)

Webhook ==
  \/ \E w \in Workers, s \in Subs, n \in 1..MaxEvents : Receive(w, s, n)
  \/ \E s \in Subs, n \in 1..MaxEvents : InvoiceOfUnknown(s, n)
  \/ \E w \in Workers : UpsertSubscription(w) \/ Commit(w) \/ Mail(w) \/ Fail(w)

Next == Stripe \/ Webhook

Spec == Init /\ [][Next]_vars
-----------------------------------------------------------------------------
TypeOK ==
  /\ events \in [Subs -> Seq(Event)]
  /\ \A s \in Subs : Len(events[s]) <= MaxEvents
  /\ row \in [Subs -> Row \union {NoRow}]
  /\ session \in [Workers -> Session \union {NoSession}]
  /\ acked \subseteq EventIds /\ mailed \subseteq EventIds
  /\ guessed \subseteq Subs /\ disordered \subseteq Subs

Settled(s) ==
  /\ events[s] # <<>> /\ InFlight(s) = {}
  /\ \A n \in DOMAIN events[s] : <<s, n>> \in acked

\* When all events of a subscription have been answered, the row says what Stripe says:
\* the tier, the status, and a date of cancellation if and only if it is cancelled;
\* unless an event was late, early or beside another, or Stripe did not tell the tier.
RowFollowsStripe ==
  \A s \in Subs \ (disordered \union guessed) :
    Settled(s) =>
      /\ row[s] # NoRow
      /\ row[s].tier = TierFromPriceId(Last(s).price)
      /\ row[s].status = SubscriptionStatusFromStripe(Last(s).status)
      /\ row[s].cancelled_at = (Last(s).status = "canceled")
      /\ row[s].customer_email = EmailOf[s]

\* Stripe is answered only after the e-mail of its event: the confirmation of a checkout
\* always, the notices of a failed payment and of a cancellation unless events were out of
\* order.  Not so the notice of a new tier: when its e-mail fails, the event comes again
\* and finds the tier on record.
AnsweredIsAnnounced ==
  \A s \in Subs, n \in 1..MaxEvents :
    <<s, n>> \in acked =>
      \/ <<s, n>> \in mailed
      \/ events[s][n].type = "updated"
      \/ events[s][n].type # "checkout" /\ s \in disordered

\* A row once made keeps its address: what a password reset finds it by, it will find.
AddressIsKept ==
  [][\A s \in Subs :
       row[s] # NoRow =>
         row'[s] # NoRow /\ row'[s].customer_email = row[s].customer_email]_vars
=============================================================================
