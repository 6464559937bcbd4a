------------------------------ MODULE Payment ------------------------------
(***************************************************************************)
(* How one application is paid for: payment links, the customer's checkout *)
(* at Stripe, and the three handlers that may learn of the charge.         *)
(*                                                                         *)
(* The sessions are those of Lifecycle: SELECT and test when an action     *)
(* opens one, write the changed columns at Commit.  Stripe is a system of  *)
(* its own: a payment intent is created while the session is still open    *)
(* and stays when that session fails, nothing ever cancels one, and the    *)
(* event of a charge is delivered until a delivery is acknowledged, and    *)
(* possibly once more.                                                     *)
(*                                                                         *)
(* verify_payment is given an order and a checkout session and compares    *)
(* neither the order the session was opened for nor its mode with the      *)
(* order.  So there are also checkout sessions of other orders and of      *)
(* subscriptions, of which it may be told.                                 *)
(*                                                                         *)
(* Left out: APPROVED, which these handlers treat like CALLED; the record  *)
(* of a failed attempt, which no handler reads; and the amounts.           *)
(***************************************************************************)
EXTENDS Integers, ApplicationStatus, UnitOfWork

CONSTANTS
  Intents,     \* the payment intents created for this application
  Legacy,      \* the one that belongs to a checkout session of the old flow
  Others,      \* checkout sessions of other orders and of subscriptions
  Subscriptions,  \* those of subscriptions, which have no payment intent
  NoIntent,
  Sessions,    \* slots for handlers that run at the same time
  NoRequest,
  NoEvent

ASSUME LegacyAssumption == Legacy \in Intents
ASSUME OthersAssumption == Others \cap Intents = {} /\ Subscriptions \subseteq Others
ASSUME NoIntentAssumption ==
  NoIntent \notin Intents \union Others /\ NoEvent \notin Intents

\* What a customer can pay at Stripe, named by its intent; a payment of a
\* subscription has none to record.
Payments == Intents \union Others
IntentOf(p) == IF p \in Subscriptions THEN NoIntent ELSE p

VARIABLES
  app,          \* the payment columns of the application
  stripe,       \* the state of every payment at Stripe
  outbox,       \* intents whose charge Stripe still has to report
  session,      \* what each open session loaded and is about to write
  confirmed,    \* how many committed AWAITING_PAYMENT -> PAID entries rest on a payment
  raced         \* history: an admin's request overlapped another request

vars == <<app, stripe, outbox, session, confirmed, raced>>

PaymentStatus == {"CALLED", "AWAITING_PAYMENT", "PAID", "IN_PRODUCTION"}

\* payment_token is represented by the intent it was generated with.
Columns == [status : PaymentStatus,
            stripe_payment_intent_id : Payments \union {NoIntent},
            payment_token : Intents \union {NoIntent}]

Values(status, intent, token) ==
  [status |-> status, stripe_payment_intent_id |-> intent,
   payment_token |-> token]

\* "shown": the customer's browser holds the secret needed to pay.
IntentState == {"none", "created", "shown", "charged"}

\* Who called the handler.  `confirms` is the payment the session's log entry
\* rests on, if it confirms one; `event` is the event it answers.
Caller == {"admin", "webhook", "success page"}

Request == [loaded : Columns, new : Columns, caller : Caller,
            confirms : Payments \union {NoIntent},
            event : Intents \union {NoEvent}]

ASSUME NoRequestAssumption == NoRequest \notin Request

\* An application that waits for its first link, or one whose customer was sent
\* to a checkout session of the old flow, which the handlers still serve.  The
\* other customers stand before theirs.
Init ==
  /\ \E shown \in {Others, Others \union {Legacy}} :
       /\ app = Values(IF Legacy \in shown THEN "AWAITING_PAYMENT" ELSE "CALLED",
                       NoIntent, NoIntent)
       /\ stripe = [p \in Payments |-> IF p \in shown THEN "shown" ELSE "none"]
  /\ outbox = {}
  /\ session = [s \in Sessions |-> NoRequest]
  /\ confirmed = [p \in Payments |-> 0]
  /\ raced = FALSE
-----------------------------------------------------------------------------
Hold(s, new, caller, confirms, event) ==
  /\ session[s] = NoRequest
  /\ session' = [session EXCEPT
       ![s] = [loaded |-> app, new |-> new, caller |-> caller,
               confirms |-> confirms, event |-> event]]
  /\ raced' = (raced \/ \E t \in Sessions :
                 /\ session[t] # NoRequest
                 /\ "admin" \in {caller, session[t].caller})
  /\ UNCHANGED <<app, confirmed>>

MergedColumns(current, r) ==
  Values(Merged(current.status, r.loaded.status, r.new.status),
         Merged(current.stripe_payment_intent_id,
                r.loaded.stripe_payment_intent_id, r.new.stripe_payment_intent_id),
         Merged(current.payment_token, r.loaded.payment_token, r.new.payment_token))

Commit(s) ==
  /\ session[s] # NoRequest
  /\ LET r == session[s] IN
       /\ app' = MergedColumns(app, r)
       /\ confirmed' = IF r.confirms = NoIntent THEN confirmed
                       ELSE [confirmed EXCEPT ![r.confirms] = @ + 1]
       /\ outbox' \in {outbox, outbox \ {r.event}}
  /\ session' = [session EXCEPT ![s] = NoRequest]
  /\ UNCHANGED <<stripe, raced>>

\* An exception or the death of the process; Stripe will deliver again.
Abort(s) ==
  /\ session[s] # NoRequest
  /\ session' = [session EXCEPT ![s] = NoRequest]
  /\ UNCHANGED <<app, stripe, outbox, confirmed, raced>>
-----------------------------------------------------------------------------
(***************************************************************************)
(* The admin.                                                              *)
(***************************************************************************)
\* Fault: a link can also be regenerated for an application already paid.
GeneratePaymentLinkAfterPaid(s, i) ==
  /\ app.status \in {"CALLED", "AWAITING_PAYMENT", "PAID"}
  /\ stripe[i] = "none" /\ i # Legacy
  /\ stripe' = [stripe EXCEPT ![i] = "created"]
  /\ Hold(s, Values("AWAITING_PAYMENT", i, i), "admin", NoIntent, NoEvent)
  /\ UNCHANGED outbox

\* Creates a fresh intent at Stripe, now, and a link to it at the commit.
GeneratePaymentLink(s, i) ==
  /\ app.status \in {"CALLED", "AWAITING_PAYMENT"}
  /\ stripe[i] = "none" /\ i # Legacy
  /\ stripe' = [stripe EXCEPT ![i] = "created"]
  /\ Hold(s, Values("AWAITING_PAYMENT", i, i), "admin", NoIntent, NoEvent)
  /\ UNCHANGED outbox

\* Drops the link, in any status; the intent stays payable.
ExpirePaymentLink(s) ==
  /\ Hold(s, Values(app.status, app.stripe_payment_intent_id, NoIntent),
          "admin", NoIntent, NoEvent)
  /\ UNCHANGED <<stripe, outbox>>

UpdateStatus(s, to) ==
  /\ <<app.status, to>> \in VALID_TRANSITIONS
  /\ Hold(s, Values(to, app.stripe_payment_intent_id, app.payment_token),
          "admin", NoIntent, NoEvent)
  /\ UNCHANGED <<stripe, outbox>>
-----------------------------------------------------------------------------
(***************************************************************************)
(* The customer, at the checkout page and at Stripe.                       *)
(***************************************************************************)
\* The checkout page trades the link's token for the secret of the intent on
\* record.
PaymentInit ==
  /\ app.payment_token # NoIntent
  /\ app.status = "AWAITING_PAYMENT"
  /\ app.stripe_payment_intent_id # NoIntent
  /\ stripe[app.stripe_payment_intent_id] = "created"
  /\ stripe' = [stripe EXCEPT ![app.stripe_payment_intent_id] = "shown"]
  /\ UNCHANGED <<app, outbox, session, confirmed, raced>>

\* The event of a payment for something else finds another row, or none.
Pay(p) ==
  /\ stripe[p] = "shown"
  /\ stripe' = [stripe EXCEPT ![p] = "charged"]
  /\ outbox' = outbox \union ({p} \cap Intents)
  /\ UNCHANGED <<app, session, confirmed, raced>>

\* At least once: Stripe may repeat an event that was acknowledged.
Redeliver(i) ==
  /\ stripe[i] = "charged" /\ i \notin outbox
  /\ outbox' = outbox \union {i}
  /\ UNCHANGED <<app, stripe, session, confirmed, raced>>
-----------------------------------------------------------------------------
(***************************************************************************)
(* The handlers that learn of a charge.                                    *)
(***************************************************************************)
\* Fault: a payment is verified whatever payment_status Stripe returns.
VerifyPaymentUnpaid(s, p) ==
  /\ p \in Others \union {Legacy}
  /\ stripe[p] # "none"
  /\ app.status = "AWAITING_PAYMENT"
  /\ Hold(s, Values("PAID", IntentOf(p), app.payment_token), "success page", p, NoEvent)
  /\ UNCHANGED <<stripe, outbox>>

\* The success page of the old flow asks the service to look a checkout session
\* up: any paid session will do, and what it names as its intent is recorded.
VerifyPayment(s, p) ==
  /\ p \in Others \union {Legacy}
  /\ stripe[p] = "charged"
  /\ app.status = "AWAITING_PAYMENT"
  /\ Hold(s, Values("PAID", IntentOf(p), app.payment_token), "success page", p, NoEvent)
  /\ UNCHANGED <<stripe, outbox>>

CheckoutCompleted(s) ==
  /\ Legacy \in outbox
  /\ app.status = "AWAITING_PAYMENT"
  /\ Hold(s, Values("PAID", Legacy, app.payment_token), "webhook", Legacy, Legacy)
  /\ UNCHANGED <<stripe, outbox>>

\* Fault: the intent of the event is not recorded.
SucceededKeepsIntent(s, i) ==
  /\ i \in outbox /\ i # Legacy
  /\ app.status = "AWAITING_PAYMENT"
  /\ Hold(s, Values("PAID", app.stripe_payment_intent_id, NoIntent), "webhook", i, i)
  /\ UNCHANGED <<stripe, outbox>>

\* Fault: only the intent of the newest link is accepted.
SucceededOnlyNewest(s, i) ==
  /\ i \in outbox /\ i # Legacy
  /\ app.status = "AWAITING_PAYMENT" /\ app.stripe_payment_intent_id = i
  /\ Hold(s, Values("PAID", i, NoIntent), "webhook", i, i)
  /\ UNCHANGED <<stripe, outbox>>

\* Fault: the token is emptied instead of being set to NULL.
SucceededEmptiesToken(s, i) ==
  /\ i \in outbox /\ i # Legacy
  /\ app.status = "AWAITING_PAYMENT"
  /\ Hold(s, Values("PAID", i, ""), "webhook", i, i)
  /\ UNCHANGED <<stripe, outbox>>

\* The event of any intent of the application counts, not only of its newest.
PaymentIntentSucceeded(s, i) ==
  /\ i \in outbox /\ i # Legacy
  /\ app.status = "AWAITING_PAYMENT"
  /\ Hold(s, Values("PAID", i, NoIntent), "webhook", i, i)
  /\ UNCHANGED <<stripe, outbox>>

\* An event for an application that does not await payment is answered and
\* ignored.
Ignore(i) ==
  /\ i \in outbox
  /\ app.status # "AWAITING_PAYMENT"
  /\ outbox' = outbox \ {i}
  /\ UNCHANGED <<app, stripe, session, confirmed, raced>>
-----------------------------------------------------------------------------
Deliver(s, i) ==
  \/ i = Legacy /\ CheckoutCompleted(s)
  \/ PaymentIntentSucceeded(s, i)

Handle(s) ==
  \/ \E i \in Intents : GeneratePaymentLink(s, i) \/ Deliver(s, i)
  \/ ExpirePaymentLink(s)
  \/ \E to \in PaymentStatus : UpdateStatus(s, to)
  \/ \E p \in Payments : VerifyPayment(s, p)
  \/ Commit(s) \/ Abort(s)

Next ==
  \/ \E s \in Sessions : Handle(s)
  \/ PaymentInit
  \/ \E p \in Payments : Pay(p)
  \/ \E i \in Intents : Redeliver(i) \/ Ignore(i)

\* A session ends, one way or the other; and the deliveries that Stripe keeps
\* repeating neither find the service unreachable nor fail for ever.
Fairness ==
  /\ \A s \in Sessions : WF_vars(Commit(s) \/ Abort(s))
  /\ SF_vars(\E s \in Sessions, i \in Intents : Deliver(s, i))
  /\ SF_vars(\E s \in Sessions :
              session[s] # NoRequest /\ session[s].caller = "webhook" /\ Commit(s))

Spec == Init /\ [][Next]_vars /\ Fairness
-----------------------------------------------------------------------------
TypeOK ==
  /\ app \in Columns
  /\ stripe \in [Payments -> IntentState]
  /\ outbox \subseteq Intents
  /\ session \in [Sessions -> Request \union {NoRequest}]
  /\ confirmed \in [Payments -> Nat]
  /\ raced \in BOOLEAN

\* The payment a confirmation rests on is one that Stripe charged, however requests,
\* links and deliveries overlap.  It need not be a payment for this application:
\* verify_payment takes any paid session, one of another order or of a subscription
\* included.
ConfirmationNeedsCharge ==
  \A p \in Payments : confirmed[p] > 0 => stripe[p] = "charged"

Settled == app.status \in {"PAID", "IN_PRODUCTION"}

\* The intent on record of a confirmed application is that of a payment which
\* confirmed it -- of a payment for something else when verify_payment was told of
\* one, and no intent at all when that was a subscription's --, unless an admin's
\* request overlapped another one.
RecordedIntentWasConfirmed ==
  Settled /\ ~raced /\ (\E p \in Payments : confirmed[p] > 0) =>
    \E p \in Payments : confirmed[p] > 0 /\ app.stripe_payment_intent_id = IntentOf(p)

\* A customer who has paid is never asked to pay again, nor treated as a prospect,
\* unless an admin's request overlapped another one.
PaidIsNotForgotten == [][Settled /\ ~raced' => Settled']_vars

\* A charge is never lost: the application of a customer charged for it is
\* eventually paid, unless an admin's request overlapped another one.
ChargeIsHonoured ==
  (\E i \in Intents : stripe[i] = "charged") ~> Settled \/ raced

\* verify_payment confirms a payment, and notifies the admin, only when nobody has
\* (its docstring: "Idempotent -- safe to call even if the webhook already
\* handled the transition").
VerifyIsIdempotent ==
  [][\A s \in Sessions :
       /\ session[s] # NoRequest /\ session'[s] = NoRequest
       /\ session[s].caller = "success page" /\ confirmed' # confirmed
       => \A p \in Payments : confirmed[p] = 0]_vars
=============================================================================
