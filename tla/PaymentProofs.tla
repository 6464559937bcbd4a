--------------------------- MODULE PaymentProofs ---------------------------
(***************************************************************************)
(* Payment, for any number of intents, of payments for something else and  *)
(* of overlapping sessions: types, no confirmation without a charge, and   *)
(* -- as long as an admin's requests overlap no other -- the record of the *)
(* payment that confirmed and the end of prospecting.                      *)
(***************************************************************************)
EXTENDS Payment, TLAPS

\* What a session that is open is about to do.
OpenRequest(r) ==
  /\ r.caller # "admin" =>
       /\ r.loaded.status = "AWAITING_PAYMENT"
       /\ r.new.status = "PAID"
       /\ r.confirms \in Payments
       /\ stripe[r.confirms] = "charged"
       /\ r.new.stripe_payment_intent_id = IntentOf(r.confirms)
  /\ r.caller = "admin" =>
       /\ r.confirms = NoIntent
       /\ r.loaded.status \in {"PAID", "IN_PRODUCTION"} =>
            /\ r.new.status \in {"PAID", "IN_PRODUCTION"}
            /\ r.new.stripe_payment_intent_id = r.loaded.stripe_payment_intent_id

SessionInv ==
  \A s \in Sessions : session[s] # NoRequest => OpenRequest(session[s])

ChargeInv ==
  /\ \A i \in outbox : stripe[i] = "charged"
  /\ ConfirmationNeedsCharge

Unconfirmed == \A p \in Payments : confirmed[p] = 0

\* The row names the intent of a payment that confirmed it, if that has one.
RecordConfirmed ==
  \E p \in Payments : confirmed[p] > 0 /\ app.stripe_payment_intent_id = IntentOf(p)

\* An admin's session that races with none is the only one, and what it loaded is
\* still the row.
AdminAlone ==
  \A s \in Sessions :
    session[s] # NoRequest /\ session[s].caller = "admin" =>
      /\ session[s].loaded = app
      /\ \A t \in Sessions : t # s => session[t] = NoRequest

RecordInv ==
  ~raced =>
    /\ AdminAlone
    /\ Unconfirmed =>
         \A s \in Sessions : session[s] # NoRequest =>
           session[s].loaded.stripe_payment_intent_id = app.stripe_payment_intent_id
    /\ ~Unconfirmed => Settled /\ RecordConfirmed

IInv == TypeOK /\ SessionInv /\ ChargeInv /\ RecordInv
-----------------------------------------------------------------------------
(***************************************************************************)
(* What opening a session does, whichever handler opens it.                *)
(***************************************************************************)
\* Session s loaded the row and will write what r says.
Stored(s, r) ==
  /\ session[s] = NoRequest
  /\ session' = [session EXCEPT ![s] = r]
  /\ r.loaded = app
  /\ UNCHANGED <<app, confirmed>>
  /\ raced' = (raced \/ \E t \in Sessions :
                 session[t] # NoRequest /\ "admin" \in {r.caller, session[t].caller})

Opening(s, r) ==
  /\ Stored(s, r) /\ OpenRequest(r)
  /\ outbox' = outbox
  /\ stripe' \in [Payments -> IntentState]
  /\ \A p \in Payments : stripe[p] = "charged" => stripe'[p] = "charged"

Opens(s) ==
  \/ \E i \in Intents : GeneratePaymentLink(s, i) \/ Deliver(s, i)
  \/ ExpirePaymentLink(s)
  \/ \E to \in PaymentStatus : UpdateStatus(s, to)
  \/ \E p \in Payments : VerifyPayment(s, p)

\* The record that Hold stores.
LEMMA HoldStores ==
  ASSUME TypeOK, NEW s \in Sessions, NEW new \in Columns, NEW caller \in Caller,
         NEW confirms \in Payments \union {NoIntent},
         NEW event \in Intents \union {NoEvent},
         Hold(s, new, caller, confirms, event)
  PROVE  \E r \in Request :
           Stored(s, r) /\ r.new = new /\ r.caller = caller
             /\ r.confirms = confirms /\ r.event = event
<1> DEFINE r == [loaded |-> app, new |-> new, caller |-> caller,
                 confirms |-> confirms, event |-> event]
<1>1. r \in Request
  BY DEF TypeOK, Request
<1>2. /\ r.loaded = app /\ r.new = new /\ r.caller = caller
      /\ r.confirms = confirms /\ r.event = event
  OBVIOUS
<1>3. Stored(s, r)
  BY DEF Hold, Stored
<1> HIDE DEF r
<1> QED BY <1>1, <1>2, <1>3

LEMMA AdminStores ==
  ASSUME TypeOK, NEW s \in Sessions, NEW new \in Columns,
         Hold(s, new, "admin", NoIntent, NoEvent)
  PROVE  \E r \in Request :
           Stored(s, r) /\ r.new = new /\ r.caller = "admin"
             /\ r.confirms = NoIntent /\ r.event = NoEvent
<1>1. PICK c \in Caller : c = "admin"
  BY DEF Caller
<1>2. Hold(s, new, c, NoIntent, NoEvent)
  BY <1>1
<1>3. \E r \in Request :
        Stored(s, r) /\ r.new = new /\ r.caller = c
          /\ r.confirms = NoIntent /\ r.event = NoEvent
  BY <1>2, HoldStores
<1> QED BY <1>1, <1>3

\* Every handler opens a session that fits SessionInv.
LEMMA HandlersOpen ==
  ASSUME TypeOK, ChargeInv, NEW s \in Sessions, Opens(s)
  PROVE  \E r \in Request : Opening(s, r)
<1> USE LegacyAssumption, NoIntentAssumption
<1>t. app \in Columns /\ app.status \in PaymentStatus
      /\ app.stripe_payment_intent_id \in Payments \union {NoIntent}
      /\ app.payment_token \in Intents \union {NoIntent}
  BY DEF TypeOK, Columns
<1>p. /\ Intents \subseteq Payments /\ Legacy \in Payments
      /\ \A p \in Payments : IntentOf(p) \in Payments \union {NoIntent}
      /\ \A i \in Intents : IntentOf(i) = i
  BY OthersAssumption DEF Payments, IntentOf
<1>v. \A st \in PaymentStatus, i \in Payments \union {NoIntent},
         k \in Intents \union {NoIntent} :
        /\ Values(st, i, k) \in Columns
        /\ Values(st, i, k).status = st
        /\ Values(st, i, k).stripe_payment_intent_id = i
        /\ Values(st, i, k).payment_token = k
  BY DEF Values, Columns
<1>1. CASE \E i \in Intents : GeneratePaymentLink(s, i)
  <2>1. PICK i \in Intents : GeneratePaymentLink(s, i)
    BY <1>1
  <2> DEFINE new == Values("AWAITING_PAYMENT", i, i)
  <2>2. new \in Columns /\ new.status = "AWAITING_PAYMENT"
    BY <1>v, <1>p DEF PaymentStatus
  <2>3. Hold(s, new, "admin", NoIntent, NoEvent) /\ outbox' = outbox
        /\ stripe' = [stripe EXCEPT ![i] = "created"] /\ stripe[i] = "none"
        /\ app.status \in {"CALLED", "AWAITING_PAYMENT"}
    BY <2>1 DEF GeneratePaymentLink
  <2>4. /\ stripe' \in [Payments -> IntentState]
        /\ \A p \in Payments : stripe[p] = "charged" => stripe'[p] = "charged"
    BY <2>3 DEF TypeOK, IntentState
  <2> HIDE DEF new
  <2>5. PICK r \in Request :
           Stored(s, r) /\ r.new = new /\ r.caller = "admin"
             /\ r.confirms = NoIntent /\ r.event = NoEvent
    BY <2>2, <2>3, AdminStores
  <2>6. OpenRequest(r)
    BY <2>3, <2>5 DEF OpenRequest, Stored
  <2> QED BY <2>3, <2>4, <2>5, <2>6 DEF Opening
<1>2. CASE \E to \in PaymentStatus : UpdateStatus(s, to)
  <2>1. PICK to \in PaymentStatus : UpdateStatus(s, to)
    BY <1>2
  <2> DEFINE new == Values(to, app.stripe_payment_intent_id, app.payment_token)
  <2>2. new \in Columns /\ new.status = to
        /\ new.stripe_payment_intent_id = app.stripe_payment_intent_id
    BY <1>v, <1>t
  <2>3. Hold(s, new, "admin", NoIntent, NoEvent) /\ outbox' = outbox
        /\ stripe' = stripe /\ <<app.status, to>> \in VALID_TRANSITIONS
    BY <2>1 DEF UpdateStatus
  <2>4. app.status \in {"PAID", "IN_PRODUCTION"} => to \in {"PAID", "IN_PRODUCTION"}
    BY <2>3 DEF VALID_TRANSITIONS, PaymentStatus
  <2> HIDE DEF new
  <2>5. PICK r \in Request :
           Stored(s, r) /\ r.new = new /\ r.caller = "admin"
             /\ r.confirms = NoIntent /\ r.event = NoEvent
    BY <2>2, <2>3, AdminStores
  <2>6. OpenRequest(r)
    BY <2>2, <2>4, <2>5 DEF OpenRequest, Stored
  <2> QED BY <2>3, <2>5, <2>6 DEF Opening, TypeOK
<1>3. CASE ExpirePaymentLink(s)
  <2> DEFINE new == Values(app.status, app.stripe_payment_intent_id, NoIntent)
  <2>2. new \in Columns /\ new.status = app.status
        /\ new.stripe_payment_intent_id = app.stripe_payment_intent_id
    BY <1>v, <1>t
  <2>3. Hold(s, new, "admin", NoIntent, NoEvent) /\ outbox' = outbox /\ stripe' = stripe
    BY <1>3 DEF ExpirePaymentLink
  <2> HIDE DEF new
  <2>5. PICK r \in Request :
           Stored(s, r) /\ r.new = new /\ r.caller = "admin"
             /\ r.confirms = NoIntent /\ r.event = NoEvent
    BY <2>2, <2>3, AdminStores
  <2>6. OpenRequest(r)
    BY <2>2, <2>5 DEF OpenRequest, Stored
  <2> QED BY <2>3, <2>5, <2>6 DEF Opening, TypeOK
<1>4. CASE \/ \E p \in Payments : VerifyPayment(s, p)
           \/ \E i \in Intents : Deliver(s, i)
  <2>1. PICK p \in Payments, k \in Intents \union {NoIntent},
             e \in Intents \union {NoEvent}, c \in Caller :
          /\ stripe[p] = "charged" /\ app.status = "AWAITING_PAYMENT"
          /\ c # "admin" /\ Hold(s, Values("PAID", IntentOf(p), k), c, p, e)
          /\ outbox' = outbox /\ stripe' = stripe
    <3>1. ASSUME NEW p \in Payments, VerifyPayment(s, p)
          PROVE  /\ stripe[p] = "charged" /\ app.status = "AWAITING_PAYMENT"
                 /\ Hold(s, Values("PAID", IntentOf(p), app.payment_token),
                         "success page", p, NoEvent)
                 /\ outbox' = outbox /\ stripe' = stripe
      BY <3>1 DEF VerifyPayment
    <3>2. ASSUME CheckoutCompleted(s)
          PROVE  /\ stripe[Legacy] = "charged" /\ app.status = "AWAITING_PAYMENT"
                 /\ Hold(s, Values("PAID", IntentOf(Legacy), app.payment_token),
                         "webhook", Legacy, Legacy)
                 /\ outbox' = outbox /\ stripe' = stripe
      BY <3>2, <1>p DEF CheckoutCompleted, ChargeInv
    <3>3. ASSUME NEW i \in Intents, PaymentIntentSucceeded(s, i)
          PROVE  /\ stripe[i] = "charged" /\ app.status = "AWAITING_PAYMENT"
                 /\ Hold(s, Values("PAID", IntentOf(i), NoIntent), "webhook", i, i)
                 /\ outbox' = outbox /\ stripe' = stripe
      BY <3>3, <1>p DEF PaymentIntentSucceeded, ChargeInv
    <3>4. "success page" \in Caller /\ "webhook" \in Caller
      BY DEF Caller
    <3>5. CASE \E p \in Payments : VerifyPayment(s, p)
      BY <3>1, <3>4, <3>5, <1>t
    <3>6. CASE CheckoutCompleted(s)
      BY <3>2, <3>4, <3>6, <1>t, <1>p
    <3>7. CASE \E i \in Intents : PaymentIntentSucceeded(s, i)
      BY <3>3, <3>4, <3>7, <1>p
    <3> QED BY <1>4, <3>5, <3>6, <3>7 DEF Deliver
  <2> DEFINE new == Values("PAID", IntentOf(p), k)
  <2>2. new \in Columns /\ new.status = "PAID"
        /\ new.stripe_payment_intent_id = IntentOf(p)
    <3>1. "PAID" \in PaymentStatus /\ IntentOf(p) \in Payments \union {NoIntent}
      BY <1>p DEF PaymentStatus
    <3> QED BY <3>1, <1>v
  <2>5. Hold(s, new, c, p, e)
    BY <2>1
  <2> HIDE DEF new
  <2>3. PICK r \in Request :
           Stored(s, r) /\ r.new = new /\ r.caller = c
             /\ r.confirms = p /\ r.event = e
    BY <2>2, <2>5, HoldStores
  <2>4. OpenRequest(r)
    BY <2>1, <2>2, <2>3 DEF OpenRequest, Stored
  <2> QED BY <2>1, <2>3, <2>4 DEF Opening, TypeOK
<1> QED BY <1>1, <1>2, <1>3, <1>4 DEF Opens
-----------------------------------------------------------------------------
(***************************************************************************)
(* The invariant.                                                          *)
(***************************************************************************)
\* OpenRequest depends on the charges only, and charges stay.
LEMMA ChargesStay ==
  ASSUME NEW r \in Request, OpenRequest(r),
         \A p \in Payments : stripe[p] = "charged" => stripe'[p] = "charged"
  PROVE  OpenRequest(r)'
BY DEF OpenRequest

LEMMA IInvOpening ==
  ASSUME IInv, NEW s \in Sessions, NEW r \in Request, Opening(s, r)
  PROVE  IInv'
<1>1. /\ session[s] = NoRequest /\ session' = [session EXCEPT ![s] = r]
      /\ r.loaded = app /\ app' = app /\ confirmed' = confirmed /\ outbox' = outbox
      /\ raced' = (raced \/ \E t \in Sessions :
                     session[t] # NoRequest /\ "admin" \in {r.caller, session[t].caller})
  BY DEF Opening, Stored
<1>2. /\ session'[s] = r
      /\ \A t \in Sessions : t # s => session'[t] = session[t]
  BY <1>1 DEF IInv, TypeOK
<1>3. TypeOK'
  BY <1>1 DEF IInv, TypeOK, Opening
<1>4. SessionInv'
  <2> SUFFICES ASSUME NEW t \in Sessions, session'[t] # NoRequest
               PROVE  OpenRequest(session[t])'
    BY DEF SessionInv
  <2>1. PICK q \in Request : q = session'[t]
    BY <1>3 DEF TypeOK
  <2>2. OpenRequest(q)
    BY <1>2, <2>1 DEF IInv, SessionInv, Opening
  <2>3. OpenRequest(q)'
    BY <2>2, ChargesStay DEF Opening
  <2> QED BY <2>1, <2>3 DEF OpenRequest
<1>5. ChargeInv'
  BY <1>1 DEF IInv, TypeOK, ChargeInv, ConfirmationNeedsCharge, Opening, Payments
<1>6. RecordInv'
  <2> SUFFICES ASSUME ~raced' PROVE RecordInv'
    BY DEF RecordInv
  <2>1. /\ ~raced
        /\ \A t \in Sessions : session[t] # NoRequest =>
             r.caller # "admin" /\ session[t].caller # "admin"
    BY <1>1
  <2>2. AdminAlone'
    BY <1>1, <1>2, <2>1 DEF AdminAlone
  <2>3. Unconfirmed' =>
          \A t \in Sessions : session'[t] # NoRequest =>
            session'[t].loaded.stripe_payment_intent_id
              = app'.stripe_payment_intent_id
    BY <1>1, <1>2, <2>1 DEF IInv, RecordInv, Unconfirmed
  <2>4. ~Unconfirmed' => Settled' /\ RecordConfirmed'
    BY <1>1, <2>1 DEF IInv, RecordInv, Unconfirmed, Settled, RecordConfirmed
  <2> QED BY <2>2, <2>3, <2>4 DEF RecordInv
<1> QED BY <1>3, <1>4, <1>5, <1>6 DEF IInv

\* The row a commit leaves.
LEMMA MergedFacts ==
  ASSUME NEW current \in Columns, NEW r \in Request
  PROVE  LET m == MergedColumns(current, r) IN
           /\ m \in Columns
           /\ r.new.status # r.loaded.status => m.status = r.new.status
           /\ m.stripe_payment_intent_id \in
                {current.stripe_payment_intent_id, r.new.stripe_payment_intent_id}
           /\ current.stripe_payment_intent_id = r.loaded.stripe_payment_intent_id
                => m.stripe_payment_intent_id = r.new.stripe_payment_intent_id
           /\ r.loaded = current => m.status = r.new.status
<1>1. /\ r.new \in Columns /\ r.loaded \in Columns
  BY DEF Request
<1> QED BY <1>1 DEF MergedColumns, Values, Merged, Columns

LEMMA IInvCommit ==
  ASSUME IInv, NEW s \in Sessions, Commit(s)
  PROVE  IInv' /\ (Settled /\ ~raced' => Settled')
<1> DEFINE r == session[s]
           m == MergedColumns(app, r)
<1>1. /\ r # NoRequest /\ app' = m
      /\ confirmed' = IF r.confirms = NoIntent THEN confirmed
                      ELSE [confirmed EXCEPT ![r.confirms] = @ + 1]
      /\ outbox' \in {outbox, outbox \ {r.event}}
      /\ session' = [session EXCEPT ![s] = NoRequest]
      /\ stripe' = stripe /\ raced' = raced
  BY DEF Commit
<1>2. r \in Request /\ OpenRequest(r) /\ app \in Columns
  BY <1>1 DEF IInv, TypeOK, SessionInv
<1>3. /\ m \in Columns
      /\ r.new.status # r.loaded.status => m.status = r.new.status
      /\ m.stripe_payment_intent_id \in
           {app.stripe_payment_intent_id, r.new.stripe_payment_intent_id}
      /\ app.stripe_payment_intent_id = r.loaded.stripe_payment_intent_id
           => m.stripe_payment_intent_id = r.new.stripe_payment_intent_id
      /\ r.loaded = app => m.status = r.new.status
  BY <1>2, MergedFacts
<1>4. /\ session'[s] = NoRequest
      /\ \A t \in Sessions : t # s => session'[t] = session[t]
  BY <1>1 DEF IInv, TypeOK
<1>5. r.confirms \in Payments \union {NoIntent}
  BY <1>2 DEF Request
<1> HIDE DEF m, r
<1>6. TypeOK'
  <2>1. confirmed' \in [Payments -> Nat]
    BY <1>1, <1>5 DEF IInv, TypeOK
  <2>2. outbox' \subseteq Intents
    BY <1>1 DEF IInv, TypeOK
  <2>3. session' \in [Sessions -> Request \union {NoRequest}]
    BY <1>1 DEF IInv, TypeOK
  <2> QED BY <1>1, <1>3, <2>1, <2>2, <2>3 DEF IInv, TypeOK
<1>7. SessionInv'
  BY <1>1, <1>4 DEF IInv, SessionInv, OpenRequest
<1>8. ChargeInv'
  <2>1. \A i \in outbox' : stripe'[i] = "charged"
    BY <1>1 DEF IInv, ChargeInv
  <2>2. ASSUME NEW i \in Payments, confirmed'[i] > 0 PROVE stripe'[i] = "charged"
    <3>1. CASE confirmed[i] > 0
      BY <1>1, <3>1 DEF IInv, ChargeInv, ConfirmationNeedsCharge
    <3>2. CASE ~(confirmed[i] > 0)
      <4>1. r.confirms = i
        BY <1>1, <1>5, <2>2, <3>2 DEF IInv, TypeOK
      <4> QED BY <1>1, <1>2, <4>1, NoIntentAssumption DEF OpenRequest, Payments
    <3> QED BY <3>1, <3>2
  <2> QED BY <2>1, <2>2 DEF ChargeInv, ConfirmationNeedsCharge
<1>9. ASSUME ~raced' PROVE RecordInv' /\ (Settled => Settled')
  <2>0. /\ AdminAlone
        /\ Unconfirmed =>
             \A t \in Sessions : session[t] # NoRequest =>
               session[t].loaded.stripe_payment_intent_id = app.stripe_payment_intent_id
        /\ ~Unconfirmed => Settled /\ RecordConfirmed
    BY <1>1, <1>9 DEF IInv, RecordInv
  <2>1. CASE r.caller = "admin"
    <3>1. /\ r.loaded = app
          /\ \A t \in Sessions : session'[t] = NoRequest
      BY <1>1, <1>4, <2>0, <2>1 DEF AdminAlone, r
    <3>2. confirmed' = confirmed
      BY <1>1, <1>2, <2>1 DEF OpenRequest
    <3>3. Settled => /\ Settled'
                     /\ app'.stripe_payment_intent_id = app.stripe_payment_intent_id
      BY <1>1, <1>2, <1>3, <2>1, <3>1 DEF OpenRequest, Settled
    <3>4. AdminAlone'
      BY <3>1 DEF AdminAlone
    <3> QED BY <2>0, <3>1, <3>2, <3>3, <3>4 DEF RecordInv, Unconfirmed, RecordConfirmed
  <2>2. CASE r.caller # "admin"
    <3>1. /\ r.confirms \in Payments
          /\ r.new.stripe_payment_intent_id = IntentOf(r.confirms)
          /\ r.loaded.status = "AWAITING_PAYMENT" /\ r.new.status = "PAID"
      BY <1>2, <2>2 DEF OpenRequest
    <3>2. Settled'
      BY <1>1, <1>3, <3>1 DEF Settled
    <3>3. /\ confirmed'[r.confirms] > 0
          /\ \A p \in Payments : confirmed[p] > 0 => confirmed'[p] > 0
      BY <1>1, <3>1, NoIntentAssumption DEF IInv, TypeOK, Payments
    <3>4. ~Unconfirmed'
      BY <3>1, <3>3 DEF Unconfirmed
    <3>5. AdminAlone'
      <4>1. \A t \in Sessions : session[t] # NoRequest => session[t].caller # "admin"
        BY <1>1, <2>0, <2>2 DEF AdminAlone, r
      <4> QED BY <1>4, <4>1 DEF AdminAlone
    <3>6. RecordConfirmed'
      <4>1. CASE app'.stripe_payment_intent_id = r.new.stripe_payment_intent_id
        BY <3>1, <3>3, <4>1 DEF RecordConfirmed, IntentOf
      <4>2. CASE ~Unconfirmed /\ app'.stripe_payment_intent_id = app.stripe_payment_intent_id
        BY <2>0, <3>3, <4>2 DEF RecordConfirmed, IntentOf
      <4>3. CASE Unconfirmed
        <5>1. app.stripe_payment_intent_id = r.loaded.stripe_payment_intent_id
          BY <1>1, <2>0, <4>3 DEF r
        <5> QED BY <1>1, <1>3, <4>1, <5>1
      <4> QED BY <1>1, <1>3, <4>1, <4>2, <4>3
    <3> QED BY <3>2, <3>4, <3>5, <3>6 DEF RecordInv
  <2> QED BY <2>1, <2>2
<1>10. RecordInv'
  BY <1>9 DEF RecordInv
<1> QED BY <1>6, <1>7, <1>8, <1>9, <1>10 DEF IInv

LEMMA IInvAbort ==
  ASSUME IInv, NEW s \in Sessions, Abort(s)
  PROVE  IInv'
<1>1. /\ session' = [session EXCEPT ![s] = NoRequest]
      /\ UNCHANGED <<app, stripe, outbox, confirmed, raced>>
  BY DEF Abort
<1>2. \A t \in Sessions : session'[t] \in {session[t], NoRequest}
  BY <1>1 DEF IInv, TypeOK
<1>3. TypeOK'
  BY <1>1 DEF IInv, TypeOK
<1>4. SessionInv'
  BY <1>1, <1>2 DEF IInv, SessionInv, OpenRequest
<1>5. ChargeInv'
  BY <1>1 DEF IInv, ChargeInv, ConfirmationNeedsCharge
<1>6. RecordInv'
  BY <1>1, <1>2 DEF IInv, RecordInv, AdminAlone, Unconfirmed, RecordConfirmed, Settled
<1> QED BY <1>3, <1>4, <1>5, <1>6 DEF IInv

\* The steps of the customer and of Stripe.
Outside ==
  \/ PaymentInit
  \/ \E p \in Payments : Pay(p)
  \/ \E i \in Intents : Redeliver(i) \/ Ignore(i)

LEMMA IInvOutside ==
  ASSUME IInv, Outside
  PROVE  IInv'
<1>1. /\ UNCHANGED <<app, session, confirmed, raced>>
      /\ stripe' \in [Payments -> IntentState]
      /\ \A p \in Payments : stripe[p] = "charged" => stripe'[p] = "charged"
      /\ outbox' \subseteq Intents
      /\ \A i \in outbox' : stripe'[i] = "charged"
  <2>1. CASE PaymentInit
    <3>1. app.stripe_payment_intent_id \in Payments
      BY <2>1 DEF IInv, TypeOK, Columns, PaymentInit
    <3> QED BY <2>1, <3>1 DEF PaymentInit, IInv, TypeOK, IntentState, ChargeInv
  <2>2. CASE \E p \in Payments : Pay(p)
    BY <2>2 DEF Pay, IInv, TypeOK, IntentState, ChargeInv, Payments
  <2>3. CASE \E i \in Intents : Redeliver(i) \/ Ignore(i)
    BY <2>3 DEF Redeliver, Ignore, IInv, TypeOK, ChargeInv
  <2> QED BY <2>1, <2>2, <2>3 DEF Outside
<1>2. TypeOK'
  BY <1>1 DEF IInv, TypeOK
<1>3. SessionInv'
  <2> SUFFICES ASSUME NEW t \in Sessions, session[t] # NoRequest
               PROVE  OpenRequest(session[t])'
    BY <1>1 DEF SessionInv
  <2>1. session[t] \in Request /\ OpenRequest(session[t])
    BY DEF IInv, TypeOK, SessionInv
  <2> QED BY <1>1, <2>1 DEF OpenRequest
<1>4. ChargeInv'
  BY <1>1 DEF IInv, ChargeInv, ConfirmationNeedsCharge
<1>5. RecordInv'
  BY <1>1 DEF IInv, RecordInv, AdminAlone, Unconfirmed, RecordConfirmed, Settled
<1> QED BY <1>2, <1>3, <1>4, <1>5 DEF IInv
-----------------------------------------------------------------------------
(***************************************************************************)
(* The theorems.                                                           *)
(***************************************************************************)
\* Next, seen as sessions that open and end and as steps outside the service.
LEMMA NextSplits ==
  ASSUME Next
  PROVE  \/ \E s \in Sessions : Opens(s) \/ Commit(s) \/ Abort(s)
         \/ Outside
BY DEF Next, Handle, Opens, Outside

LEMMA IInvInit ==
  ASSUME Init
  PROVE  IInv
<1> USE LegacyAssumption, NoIntentAssumption
<1>1. /\ outbox = {} /\ raced = FALSE
      /\ session = [s \in Sessions |-> NoRequest]
      /\ confirmed = [p \in Payments |-> 0]
      /\ stripe \in [Payments -> IntentState]
  BY DEF Init, IntentState
<1>2. app \in Columns
  BY DEF Init, Columns, Values, PaymentStatus
<1>3. TypeOK
  BY <1>1, <1>2 DEF TypeOK
<1>4. SessionInv /\ ChargeInv /\ AdminAlone
  BY <1>1 DEF SessionInv, ChargeInv, ConfirmationNeedsCharge, AdminAlone
<1>5. RecordInv
  BY <1>1, <1>4 DEF RecordInv, Unconfirmed
<1> QED BY <1>3, <1>4, <1>5 DEF IInv

LEMMA IInvNext ==
  ASSUME IInv, [Next]_vars
  PROVE  IInv' /\ (Settled /\ ~raced' => Settled')
<1>1. ASSUME NEW s \in Sessions, Opens(s)
      PROVE  IInv' /\ (Settled => Settled')
  <2>1. PICK r \in Request : Opening(s, r)
    BY <1>1, HandlersOpen DEF IInv
  <2>2. IInv'
    BY <2>1, IInvOpening
  <2> QED BY <2>1, <2>2 DEF Opening, Stored, Settled
<1>2. ASSUME NEW s \in Sessions, Commit(s)
      PROVE  IInv' /\ (Settled /\ ~raced' => Settled')
  BY <1>2, IInvCommit
<1>3. ASSUME NEW s \in Sessions, Abort(s)
      PROVE  IInv' /\ (Settled => Settled')
  <2>1. IInv'
    BY <1>3, IInvAbort
  <2> QED BY <1>3, <2>1 DEF Abort, Settled
<1>4. ASSUME Outside
      PROVE  IInv' /\ (Settled => Settled')
  <2>1. IInv'
    BY <1>4, IInvOutside
  <2> QED BY <1>4, <2>1 DEF Outside, PaymentInit, Pay, Redeliver, Ignore, Settled
<1>5. CASE UNCHANGED vars
  <2>1. UNCHANGED <<app, stripe, outbox, session, confirmed, raced>>
    BY <1>5 DEF vars
  <2>2. TypeOK' /\ ChargeInv'
    BY <2>1 DEF IInv, TypeOK, ChargeInv, ConfirmationNeedsCharge
  <2>3. SessionInv'
    BY <2>1 DEF IInv, SessionInv, OpenRequest
  <2>4. RecordInv'
    BY <2>1 DEF IInv, RecordInv, AdminAlone, Unconfirmed, RecordConfirmed, Settled
  <2> QED BY <2>1, <2>2, <2>3, <2>4 DEF IInv, Settled
<1> QED BY <1>1, <1>2, <1>3, <1>4, <1>5, NextSplits

\* IInv holds of every reachable state: the sessions of generate_payment_link,
\* verify_payment, the webhook and the rest never leave it.
THEOREM Invariance == Spec => []IInv
<1>1. Init => IInv
  BY IInvInit
<1>2. IInv /\ [Next]_vars => IInv'
  BY IInvNext
<1> QED BY <1>1, <1>2, PTL DEF Spec

\* The columns, the sessions and what Stripe holds keep their types, for any number
\* of intents and of overlapping sessions.
THEOREM TypeCorrect == Spec => []TypeOK
<1>1. IInv => TypeOK
  BY DEF IInv
<1> QED BY <1>1, Invariance, PTL

\* Every confirmation rests on a payment that Stripe charged, however requests, links
\* and deliveries overlap -- for this application or, through verify_payment, for
\* another order or a subscription.
THEOREM ConfirmedOnlyIfCharged == Spec => []ConfirmationNeedsCharge
<1>1. IInv => ConfirmationNeedsCharge
  BY DEF IInv, ChargeInv
<1> QED BY <1>1, Invariance, PTL

\* A confirmed application records the intent of a payment that confirmed it, or none
\* when a subscription's did, as long as no request of an admin overlapped another.
THEOREM RecordedIntentIsConfirmed == Spec => []RecordedIntentWasConfirmed
<1>1. IInv => RecordedIntentWasConfirmed
  <2> SUFFICES ASSUME IInv, Settled, ~raced, NEW p \in Payments, confirmed[p] > 0
               PROVE  RecordConfirmed
    BY DEF RecordedIntentWasConfirmed, RecordConfirmed
  <2>1. ~Unconfirmed
    BY DEF Unconfirmed
  <2> QED BY <2>1 DEF IInv, RecordInv
<1> QED BY <1>1, Invariance, PTL

\* No handler takes a customer who has paid back to an earlier status, as long as
\* no request of an admin overlapped another one.
THEOREM PaidCustomersStayPaid == Spec => PaidIsNotForgotten
<1>1. IInv /\ [Next]_vars => [Settled /\ ~raced' => Settled']_vars
  BY IInvNext
<1> QED BY <1>1, Invariance, PTL DEF Spec, PaidIsNotForgotten
=============================================================================
