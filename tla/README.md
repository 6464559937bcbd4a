# A TLA+ verification of the AIScore service

AIScore sells a report on how visible a company is to large language models.
A company applies through a public form, is screened, interviewed, invoiced,
served and, after quality control, invited to a review call.  The service is a
FastAPI application (`src/src`): one uvicorn process, asyncio, SQLAlchemy over
PostgreSQL, with Stripe, Calendly, a mail service, Redis and four LLM providers
around it.  This directory holds TLA+ models of its stateful parts, TLC
configurations that check them, and theorems about them that TLAPS proves.

Paths below are relative to the repository; `apply_routes.py` is
`src/api/apply_routes.py`.  `PROJECT.json` maps every definition of the models
to the lines it stands for.

## 1. Inventory

| Component | State | Operations | What is hard |
|---|---|---|---|
| Application lifecycle (`apply_routes.py`, `agent/verification.py`, `db/models.py`) | `status`, `qc_failure_count`, `has_been_escalated`, the audit log `customer_application_state_logs` | some twenty endpoints, webhook branches and one agent move the status | handlers overlap without locks; backward moves; the 3+3 QC loop; a log row built from a row read earlier |
| Payment of a report (`apply_routes.py`, `payments/stripe_client.py`, `static/checkout.html`) | `status`, `stripe_payment_intent_id`, `payment_token`, `paid_at`; intents at Stripe; undelivered events | generate and expire a link, checkout, `verify_payment`, two branches of `stripe_webhook` | an intent is created before the commit that records it and never cancelled; events repeat and come late; three handlers learn of one charge |
| Report pipeline (`apply_routes.py`, `questions/*`) | `generated_questions`, `report_questions`(`_status`), `scoring_status`, `scoring_results` | six endpoints, four background tasks | tasks run for minutes on a row loaded at their start and are lost with the process |
| Verification and research agents (`agent/*.py`, `apply_routes.py`) | `agent_verification_*`, `verification_substage`, `agent_research_*` | start, retry, resubmit; two background tasks | a verdict about a form that was replaced; a retry that overtakes its predecessor; a task lost at IN_PROGRESS |
| Bookings (`apply_routes.py`) | `interview_start_time`, interviewer, `calendly_event_uri` | manual booking, Calendly created / cancelled | overlap test before the commit; events matched by e-mail address |
| AISelect subscriptions (`apply_routes.py`) | `aiselect_subscriptions` | four kinds of Stripe events | unordered, repeated, concurrent upserts |
| AISelect password reset (`apply_routes.py`) | `password_reset_tokens` | request, reset | a single-use token tested before it is marked used |
| LLM gateway (`llm/router.py`, `llm/cache.py`, `llm/rate_limiter.py`, `llm/providers/*`) | Redis window and cache, their in-process fallbacks | acquire, get, set, fan-out | a count and its roll-back are two round trips; falling back to another window; a key without the model |
| Keys of the providers (`crypto.py`, `api/routes.py`, `scripts/migrate_encrypt_api_keys.py`) | `tenant_provider_configs.api_key`, `LLM_ENCRYPTION_KEY` | set, read, encrypt what is there | a script that reads in one transaction and writes in another, beside the running service |
| Scoring (`scoring/*.py`, `api/routes.py`) | stored responses and scores | calculate, aggregate, detect changes, recalculate in batches | autoflushed rows in an average; a batch that always selects the same rows |
| Migration runner (`db/connection.py`) | `schema_migrations` | split, apply, record | two instances starting together; half-applied files |
| E-mail, tenant API, authentication, pages, scripts | none that matters here, or plain rows | | see section 7 |

**How they interact.**  Everything meets in the row of the application.
Endpoints, webhook branches, agents and background tasks load it, decide and
write it back; they do not call one another.  A status (`IN_PROGRESS`,
`generating`, `running`, `AWAITING_PAYMENT`) is how one tells another what it is
doing.  Background tasks are FastAPI `BackgroundTasks`: they start after the
response of the request that added them, in the same process.

**How a request works**, in all modules.  A handler opens a database session,
SELECTs the row, tests it and answers with an HTTP error when the test fails;
otherwise it sets attributes of the loaded object, adds log rows and commits.
Nothing locks the row (no `FOR UPDATE`, no version column) and nothing reads it
again before the commit (`expire_on_commit=False`, READ COMMITTED), and the
handler awaits in between, for the database, Stripe or a model.  The UPDATE that
a commit issues names only attributes whose value differs from the one loaded:
columns set to the value they had keep what other sessions committed meanwhile.
So an operation is two steps here: an action that opens a session (SELECT, tests,
values to be written) and `Commit`, which writes the changed columns and the log
rows at once; `Abort` or `Fail` ends a session without its commit.

**What makes each component correct.**  Lifecycle: nobody is cancelled before a
correction by hand and three failed checks after it, no stage is skipped, every
change is logged as it happened, nothing comes back across the payment gate.
Payment: no confirmation without a payment that Stripe charged, no charge without a
confirmation, a customer who paid is not asked again.  Report pipeline: a complete
interview starts a generation, a finished scoring has scores, `generating` and
`running` end.  Agents: a verdict is about the form on record; what is running ends,
and its columns agree.  Bookings: two calls do not overlap; CALLED means that the
meeting stands.  Subscriptions: the row says what Stripe said last, keeps its
address, and an event is answered only after its e-mail.  Password reset: a used
link is not taken up again, one good link per address. Gateway: no more calls per
window than the limit; an answer is attributed to who gave it.  Scoring: an alert
means a change; the two views of the scores agree. Keys: what is read is a secret
that was set, and the newest.  Migrations: the schema moves by whole files, in
order, and nobody serves without them.

## 2. Modules

| Module | Models | Uses |
|---|---|---|
| `ApplicationStatus` | the statuses and `VALID_TRANSITIONS` of `db/models.py` | |
| `UnitOfWork` | `Merged`: what an UPDATE leaves in a column | |
| `CustomerJourney` | abstract: the stages one customer goes through | |
| `ChangedColumns` | `Dirty`, `Written`: the same by what the session will write | |
| `Lifecycle` | every operation that writes the lifecycle columns | the first three |
| `Payment` | one application's payment, with Stripe as environment | `ApplicationStatus`, `UnitOfWork` |
| `ReportPipeline` | one application's interview, report questions and scoring | `ChangedColumns` |
| `Verification` | one application's form, its verification and its way to review | `ApplicationStatus`, `ChangedColumns` |
| `Subscription` | the rows of AISelect, with Stripe's events as environment | `UnitOfWork` |
| `PasswordReset` | the links of subscribers | (rows with an address: `Subscription`) |
| `CallSlots` | the times of calls booked by hand | `UnitOfWork` |
| `Meetings` | Calendly's links, meetings and events | `UnitOfWork` |
| `Gateway` | router, cache, clients, stored answers, alerts, score endpoints | `Scoring` |
| `Scoring` | calculator and aggregator | |
| `RateLimiter` | the window of one provider and its fallbacks | |
| `ApiKeys` | the encrypted column and the script | |
| `Research` | one research task after another | `UnitOfWork` |
| `Schema` | abstract: what the migrations of all instances come to | `MigrationFiles` |
| `Migrations` | the start-up of each instance | `MigrationFiles`, `Schema` |
| `SqlSplitter` | the scanner of a migration file | |
| `...Proofs` | the theorems: `LifecycleProofs`, `PaymentProofs`, `ReportPipelineProofs`, `VerificationProofs`, `RequestsProofs` (Subscription, PasswordReset, CallSlots, Meetings), `GatewayProofs` (Gateway, Scoring, RateLimiter, ApiKeys), `SplitterProofs` (SqlSplitter), `BackgroundProofs` (Research, Migrations, and with the splitter) | |
| `MC...` | values and symmetry for TLC.  `MCRequests`, `MCGateway` and `MCBackground` take several modules that share no state: a behaviour is about one of them, named by the variable `part` | |

### Lifecycle

`row[a]` holds the three lifecycle columns; `session[s]` the row a handler
loaded, the values it is about to commit and the log rows it adds.  Of the audit
log two abstractions are kept, each enough for its property: `newest[a]`, the
entries of the newest commit, and `reached[a]`, the milestones some entry of the
application led to.  Two histories are about QC: `failed[a]` counts the failed checks
committed since the newest correction by hand (up to the threshold), and `mixed`
has the applications of which a failed check and a correction were ever open at the
same time.  Each operation is named after its function (`Approve` is
`approve_application`, `QcFail` and `QcPass` are the branches of
`submit_qc_result`, `UpdateStatus` is the admin's status endpoint, and so on); most are
`Move`, which loads a status in some set and commits another with one log entry.
`ManualCorrection` commits one status and two entries.  `AutoReject` is the only
part of the verification agent here.  The test of `move_to_review` on
verification columns may go either way.

### Payment

`app` holds the payment columns, `stripe[i]` the state of each intent at Stripe
(created, its secret shown to a browser, charged), `outbox` the charges whose event
Stripe still has to get acknowledged.  `GeneratePaymentLink` creates the intent when
its session opens, because the call to Stripe precedes the commit; an aborted
session leaves the intent behind.  `PaymentInit` is the endpoint that the checkout
page calls, `Pay` the browser and Stripe; `VerifyPayment`, `CheckoutCompleted` and
`PaymentIntentSucceeded` learn of a charge; `Commit` of a webhook's session may or
may not have its acknowledgement reach Stripe; `Redeliver` repeats an event;
`Ignore` is the branch that answers an event for an application that does not await
payment.  `Legacy` is the intent of a checkout session of the older flow, which the
success page and the webhook still serve. `verify_payment` takes an order and a
checkout session from its caller and compares neither the session's
`metadata.order_id` nor its mode with the order, so `VerifyPayment(s, p)` takes any
paid session: that of `Legacy`, or one of `Others`, the sessions of other orders and
of subscriptions, whose customers are at Stripe from the start.  `IntentOf(p)` is
what such a session names as its intent and the handler records: none, when it is of
`Subscriptions`.  `confirmed[p]` counts the log entries AWAITING_PAYMENT -> PAID
that rest on a payment.  The history variable `raced` records that a session of an
admin was open together with another session; the properties it qualifies are false
otherwise (section 5).

### ReportPipeline

A worker is a request and, once its first commit has returned, the task it added:
`job[w]` says which, `session[w]` holds the columns its open session will change
and what the worker does afterwards.  The interview is represented by the set of
its questions that have an answer, so `SaveAnswers` replaces a whole set, as the
code replaces a whole JSON list, and overlapping saves lose answers.  A task
loads the row when its session opens, before the minutes a model takes, and
commits what it decided then.  `CheckReportQuestions` is the session between
generation and scoring in `_generate_questions_then_score`.  `Fail` ends a worker
at any point: before its commit, or between two sessions of a task; `lost`
records that this happened to a task, `raced` that a request to score was opened
while another one was open.

### Verification

The sessions and workers are those of ReportPipeline.  A task has two sessions,
`MarkInProgress` and `Judge`, and a third, `RecordFailure`, when the second ends in an
exception (`GiveUp`); `UpdateApplicationPublic` replaces the form, takes the
verdict back and adds a task, while older tasks may be at work on the older form.
A form is a model value; a verdict says which form it is about and whether
it found nothing wrong, a field in ERROR or the website in ERROR, which is all
that the handlers test.  `verified` is the history of forms that a committed
verdict has found in order.  `lost` is that of ReportPipeline; `raced` records
that a resubmission was open together with another session.  Moves of the status
that the agent or the resubmission reacts to are in the model; of the statuses
behind APPROVED none is.

### Subscription and PasswordReset

`events[s]` is what has happened to a subscription at Stripe, numbered; a
delivery handles any of them, at any time and again, until `Mail` has answered
it.  A delivery loads the row (`CheckoutSessionCompleted`, `SubscriptionUpdated`,
`SubscriptionDeleted`, `InvoicePaymentFailed`), looks again in
`UpsertSubscription`, and commits: an INSERT that conflicts when another delivery
was faster, or the changed columns.  Then it sends its e-mail.  `send_email`
raises what the mail service raises, these e-mails are sent outside any `try`,
and so a failed one is an answer of 500 and another delivery: `Fail`, at any
step.  `disordered` and `guessed` record the subscriptions of which an event was
out of order or beside another, and those whose tier Stripe did not tell at the
checkout (the handler then stores STARTER).  PasswordReset has the same shape:
`request[r]` holds what a handler decided when it opened; the UPDATE that
uses up older links is part of the commit; `raced` records two open requests of
one address, also two uses of one link.  It needs of Subscription that a known
address stays, which `AddressIsKept` says.

`AnsweredIsAnnounced` is about a service with a key for its mail: without one
`send_email` returns and sends nothing (`emailer.py:31`), and nobody is told
anything.  It claims the mail of a checkout always; the notices of a failed payment
and of a cancellation where the events of the subscription came in order; of the
notice of a changed tier nothing, since that one may be lost (section 5).

### CallSlots and Meetings

Lifecycle has the statuses and the log; CallSlots adds to `book_call` the times
it tests and writes, Meetings adds to `calendly_webhook` which meeting an event is
about.  In each, a handler of another kind only moves the status.  `rushed`
records a booking that was committed on a row or on occupied times other than
those it read, `left` an application that left the two statuses whose times count
and may come back with its old time: no handler clears `interview_start_time`.
`jumbled` records events out of order, two meetings at a time, and an overwritten
status.

### Gateway, Scoring, RateLimiter and ApiKeys

A request to the gateway is at the cache, at a provider, or flushed and before
its commit, for each of its providers by itself; answers are abstracted to what
the calculator looks for, points are counted in halves.  `by`, in an answer, is
the history of who gave it.  The cache answers from Redis or, when Redis fails,
from the process; entries of Redis expire at any time.  `clear` records that no
other commit came between the alert's query and the request's commit.
RateLimiter follows one call through the two round trips to Redis; each may fail,
the first also after Redis has executed it, and the caller then asks the list of
its process.  `swept` is the latest reading of the clock that a pipeline ran with, and
`late` has the calls that were let through with an older one, for entries of their
window may already be gone: `WindowIsRespected` counts all calls but these.  In
ApiKeys a stored value is the secret behind as many encryption keys as it was
encrypted with, so that a second encryption shows.  `unreadable` has the rows that a
change of the encryption key put out of reach, and `stale` those that the script, or
an UPDATE without a changed column, left with an older secret in place of a newer
one: every readable row reads as one secret that was set, and as the one set last
if it is not stale.

### Research, Migrations and SqlSplitter

A worker of Research is a retry request and then its task: the sessions that say
IN_PROGRESS and FAILED, and between them the one that stays open while the
providers are asked in turn.  `lost` records the tasks that died with the process
or with the database in a session whose failure nothing stores; `overlapped` two
workers of one application.  Migrations is one runner per instance, over files of
any number of statements; a transaction's statements take effect with its
record.  `Abstract` maps it to Schema: the schema's statements, the images and who
is up.

SqlSplitter reads characters; its scripts are sequences of tokens as the
migrations write them, so that its property can speak of tokens.  A token is a
boundary, a blank or the end of a line, a comment, a literal, a block between two
equal delimiters, or a single letter or sign; `Letters` are the characters a
delimiter may be made of, `Signs` all those the scanner has no use for, and a
comment, a literal or a block may be of any length.  `WellFormed` excludes the two
tokens in a row that are really another one, such as two dashes.  The commands of a
script are its groups between two boundaries that have more than blanks and
comments, and `SplitsAtBoundaries` says that just these are sent, each whole and in
its order.  Blanks other than the space and the end of a line are left out.

## 3. Runs

| Run | Instance | Distinct states | Shows |
|---|---|---|---|
| `lifecycle_serial` | 2 applications, 1 session | 181 905 | `EveryTransitionLogged`, and that Lifecycle implements CustomerJourney (`KeepsJourney`), when requests do not overlap |
| `lifecycle_overlap` | 1 application, 2 sessions | 184 984 | `CancelledAfterTwoRounds` and `StagesInOrder` under any overlap |
| `lifecycle_audit_overlap` | 1 application, 2 sessions | violated | two requests that loaded the same row: the second log entry starts from a status the application no longer had |
| `lifecycle_escalation_bypass` | 1 application, 1 session | violated | ESCALATED -> RETRY -> IN_PRODUCTION through the status endpoint leaves the flag and the count alone |
| `payment` | 3 intents and a checkout session of a subscription, 2 sessions | 1 235 271 | `ConfirmationNeedsCharge`, `RecordedIntentWasConfirmed`, `PaidIsNotForgotten`, `ChargeIsHonoured` |
| `payment_verify_twice` | 1 intent, 2 sessions | violated | `verify_payment` confirms a payment the webhook has just confirmed |
| `report_pipeline` | 2 questions, 2 workers | 859 519 | `AnsweredIsTriggered`, `DoneHasScores`, `GenerationEnds`, `ScoringEnds` |
| `report_pipeline_stuck` | 1 question, 2 workers | violated | a lost run leaves `running` behind, and every later request is refused |
| `verification` | 2 forms, 2 workers | 705 456 | `VerdictIsAboutForm`, `ReviewedFormWasVerified`, `InProgressIsWorkedOn`, `VerificationEnds`, `PendingFormIsJudged` |
| `requests` | 1 subscription with 3 events, 3 links of 2 addresses, 2 calls, 2 meetings; 2 sessions each | 724 510 | `RowFollowsStripe`, `AnsweredIsAnnounced`, `AddressIsKept`; `OneLiveLink`, `LinkWorksOnce`; `CallsDoNotOverlap`; `CalledWhileMeetingStands` |
| `gateway` | 2 requests of 2 providers; 2 callers in 2 processes; 1 row and 2 encryption keys | 1 630 253 | `AnswerNamesItsModel`, `AlertsFollowHistory`, `AggregateAgreesWithScores`; `WindowIsRespected`; `KeyReadsBack` |
| `background` | 1 application, 2 workers; 2 instances, 2 files; all scripts of up to 3 of 14 tokens, and of 5 of the 5 that matter most | 155 548 | `ResearchAgrees`, `ResearchSettles`; `ImplementsSchema`; `SplitsAtBoundaries` |

Every passing run but `lifecycle_overlap`, whose columns `lifecycle_serial`
checks, has the type invariant of its modules.

**Bounds.**  Applications never share a row, so two suffice to see that an
operation leaves the other one alone, and one where sessions are to overlap.
Two sessions give every overlap of two handlers; what a third adds, a commit
between two others, is covered by the theorems, which hold for any number.
`MaxQcFailures = 4` exceeds the threshold of three, so the comparison in `QcFail`
is passed from below and from above; it is the only bound on a counter.  Payment
has the old intent and two new ones: an intent on record, one superseded by a
regenerated link, and one created by a session that failed.  Of the sessions that
are not this order's it has a subscription's, which leaves no intent on record; one of
another order differs only in that its intent is recorded (with one of each and two
intents: 272 308 states, the same properties).  Two questions make
an interview that is partly answered; two workers a task and a request, two
tasks or two requests; one list of report questions, one result and one error
message are enough because the code never compares two of them.  Verification has
two forms, an old and a new one, and two workers: a task and the resubmission that
overtakes it, or two tasks.

*requests*: three events (`MaxEvents`) are a checkout, a change and an end, or a
failed payment with its update; `MaxOverlap = 2` lets deliveries of the first two
events overlap, and later ones follow each other, where overlap only adds histories
that `disordered` already excludes.  Three links replace one another twice, or
belong to two addresses.  Of the two times one lies within the other.  Two meetings
are one that is cancelled and a newer one; `MaxLinks = 1` link is unused at a time.
*gateway*: the answers score 35 and 50 points, the one change that is an alert
against two earlier scores and none against one; `LocalMax = 1` fills the fallback
at once; `MaxSwitches = 1` change of the settings, `MaxAged = 2` rows that leave the
week; `MaxTime` exceeds the window, so that entries leave it; `MaxDeploys` allows
the encryption key to be set, and changed.  *background*: `Keys = 2` providers, one
after the other; a file of two statements and one of one; `MaxFailures = 2`.  The
scanner has no state that more than a few characters influence: a token in each of
its states followed by each token, with one letter and one sign.  The theorems have
none of these bounds, except where a bound is in a guard, and there for any value of
it.

`confirmed[p]` is not bounded, and the state space is finite all the same: each
confirmation needs a session that loaded AWAITING_PAYMENT, and each way back there
a new intent.
`CHECK_DEADLOCK FALSE` in the lifecycle runs: when every application is completed
or cancelled, nothing is left to do.  So it is in
`requests`, `gateway` and `background` when the bounds are used up or a script is
split.  In the other runs deadlock is checked.

## 4. Fairness

*Payment*: an open session ends (`WF` of its commit or abort): handlers await
only the database and Stripe's library, whose calls end with an answer or an
error.  `ChargeIsHonoured` also needs that the deliveries
Stripe keeps repeating sometimes reach the service and sometimes succeed (`SF` of
a delivery and of the commit of a webhook's session).  That is an assumption about the
environment: Stripe repeats an unacknowledged event for days, and the handler
answers an exception with an error.  Nothing is assumed of the admin, the
customer or the success page.

*ReportPipeline*: a task goes on and its sessions commit (`WF`), because every
wait of a task, for a model or the database, ends with an answer, an error or a
timeout, and the tasks turn errors into the status "error".  A task may instead
fail at any time, and the liveness properties say so: "unless a task was lost".
No endpoint is assumed to be called.

*Verification*: likewise, a task takes its steps and sessions commit; a task may
give up, record its failure or be lost at any time.  The agent's call of a model
and its request to the website go through clients with a timeout (their own or
the library's default).

*Research*: as Verification: all a task awaits ends.  That a provider has a
timeout is the clients' default.  A task may be lost at any time, and
`ResearchSettles` says so.

*Migrations*: an instance that is down is started, and a start goes on (`WF` of
`Startup`).  Starting again what failed is the platform's part (`Procfile`,
`nixpacks.toml`); `docker-compose.yml` states no restart policy, so under it the
fairness is an assumption about who operates the service.  `MaxFailures` makes
failures of the environment finite; without it a start may fail for ever.

*Lifecycle* and the modules of `requests` and `gateway` have safety properties only;
no handler has to be called.

## 5. What the checks say of the code

Four statements of the repository are not what the code does, each shown by a run.

1. **The audit log is not "full"** (`003_customer_applications.sql:47`,
   `lifecycle_audit_overlap`).  `from_status` comes from the row as it was loaded.
   Of two overlapping requests the second commit overwrites the first status and logs a
   transition that did not take place.  With one request at a time the log is
   complete: that is proved.
2. **An escalation is not always followed by a flag**
   (`db/models.py:202`, `lifecycle_escalation_bypass`).  Only the manual
   correction sets `has_been_escalated` and resets the count; the status endpoint
   takes an escalated report back to production without either, and its next
   failure escalates it again.
3. **`verify_payment` is not idempotent against the webhook**
   (`apply_routes.py:1859`, `payment_verify_twice`).  Each tests the status it
   loaded, so a payment may be logged, and the admin notified, twice.  The status
   is right either way.
4. **"Already running" may be said of a run that is gone**
   (`apply_routes.py:3245`, `report_pipeline_stuck`).  Only the task itself ends
   `running`; when the process dies, nothing resets it.

A confirmed payment need not be a payment for the application.  `verify_payment`
accepts any checkout session that Stripe calls paid, and the application is then
PAID with the intent of that session on record: of another order, or none when
the session was a subscription's.  `ConfirmationNeedsCharge` and
`RecordedIntentWasConfirmed` therefore speak of the payment a confirmation rests on,
and not of the application's own; the webhooks, which find the application by the
event's metadata, confirm with its own only.

A report may be cancelled early (`mixed`, Lifecycle).  The new count of a failed
check is the count of the row it loaded plus one; when a check and the manual
correction are in flight together, the later commit brings the old count back, and
the report, now flagged, is cancelled by the first or second failed check after the
correction, where `submit_qc_result` says the third (`apply_routes.py:2548`).
Without the exemption TLC shows this.  That the report was escalated, and corrected,
before it is cancelled holds all the same.

The history `raced` of three modules qualifies properties that are otherwise false,
which a reader should know.  Payment without `raced`: an admin's request that loaded
the row before a confirmation and commits after it takes a paid application back to
AWAITING_PAYMENT, or records the intent of a link that nobody paid. ReportPipeline
without `raced`: two requests to score that both read a status other than "running"
start two runs, and one run's "done" can stand beside the other's error message.
Verification without `raced`: a resubmission that loaded the row as PENDING, without
a verdict, while the old form was still being judged names neither column in its
UPDATE, since it does not change them; a verdict that is committed in between stays
beside the new form, and move_to_review may act on it until the new task ends.

The histories of the newer modules mark what a maintainer may want to
change; without them TLC finds each of these.

- *Subscriptions.*  Nothing compares the age of events.  An update or a failed
  invoice that comes after the deletion revives the row and clears its date of
  cancellation, or leaves a date beside PAST_DUE.  An update before the checkout
  creates the row without an address, and no later event fills it in (`Upserted`):
  the subscriber can never reset a password, and a failed payment of such a row is
  refused by the mail service at every delivery.  The notice of a changed tier, and
  only that one, is lost when its e-mail fails after the commit: the next delivery
  finds no change.
- *Password reset.*  Two requests of one address in flight leave two good links; two
  uses of one link in flight both set the password.  Once one use is committed, no
  request takes the link up, raced or not.  `forgot_password` compares in lower case
  with the address as Stripe gave it, so an address with capitals is never found
  (the model has addresses as they are compared).
- *Calls.*  Two bookings in flight may overlap.  A time stays when its meeting is
  cancelled, the application leaves CALLED, or comes back: it blocks a slot nobody
  uses, or overlaps with one booked meanwhile.
- *Calendly.*  The cancellation of an old meeting that comes late takes back a newer
  booking.  The comment says "most-recent non-terminal match"
  (`apply_routes.py:2440`); the query takes the most recent application, terminal or
  not.
- *Gateway.*  The key of the cache has no model: after a change of the settings,
  answers of the old model are stored under the name of the new one for the time
  they live.  The fallback cache is filled and emptied in the order of its writes,
  has no time to live, and evicts also when it overwrites (`cache.py` says LRU).  An
  alert's average contains the score it is compared with, so that the change must be
  greater than the threshold by a factor of (n + 1) / n; of a provider named twice
  in one request both rows have the score of the last.  An answer without a score
  removes its provider from `get_aggregated_aiscore`, not from `get_scores`: JSON
  null is not NULL.  The clients catch every exception inside `complete`, so the
  `@retry` around it never sees one.
- *Rate limiter.*  A caller drops the entries older than a minute before its own
  reading of the clock.  One that read the clock earlier and reaches Redis later no
  longer finds entries of the window that ends with its reading, and may be let
  through into a full window (`late`).  In an outage each process has its own window
  of the full limit.
- *Keys.*  A key set between the script's two transactions is overwritten with the
  old one (`stale`); what is read is then a secret that was set, but not the last.
  After a change of `LLM_ENCRYPTION_KEY`, values are read as they are stored, and
  the script encrypts them once more.
- *Research.*  "Must not raise — all errors are caught and stored as FAILED"
  (`research.py:171`) holds of the second session only.  The first is outside the
  `try`, and a failure of the last is logged: the status stays as it was.
- *Migrations.*  Two instances may run one file; the second is stopped by the
  primary key of the record, after its statements, all of which may be repeated. A
  database made by the container's init scripts has no record, and every file is run
  again.

## 6. Theorems

TLC checks the instances above.  The theorems hold for every set of
applications, sessions, intents, questions, forms, workers, subscriptions, links,
calls, meetings, requests, prompts, models, answers, rows, instances, letters and
scripts, finite or not (callers of the limiter: finite; providers: those the router
knows; a script is of finite length), under the
named `ASSUME`s of the modules (a null value is no value of the column it stands
for, scores are not error messages, and the like).

| Theorem | Statement |
|---|---|
| `LifecycleProofs!TypeCorrect` | `Spec => []TypeOK` |
| `LifecycleProofs!CancelledOnlyAfterTwoRounds` | `Spec => []CancelledAfterTwoRounds`; the three failed checks: but for `mixed` |
| `LifecycleProofs!StagesAreInOrder` | `Spec => []StagesInOrder` |
| `LifecycleProofs!AuditLogComplete` | one request at a time: `Spec => EveryTransitionLogged` |
| `LifecycleProofs!ImplementsJourney` | one request at a time: `Spec => KeepsJourney` |
| `PaymentProofs!TypeCorrect` | `Spec => []TypeOK` |
| `PaymentProofs!ConfirmedOnlyIfCharged` | `Spec => []ConfirmationNeedsCharge`: of the payment it rests on, whatever that was for |
| `PaymentProofs!RecordedIntentIsConfirmed` | `Spec => []RecordedIntentWasConfirmed` |
| `PaymentProofs!PaidCustomersStayPaid` | `Spec => PaidIsNotForgotten` |
| `ReportPipelineProofs!TypeCorrect` | `Spec => []TypeOK` |
| `ReportPipelineProofs!CompleteInterviewIsTriggered` | `Spec => []AnsweredIsTriggered` |
| `ReportPipelineProofs!ScoringDoneHasScores` | `Spec => []DoneHasScores` |
| `ReportPipelineProofs!RefusalsAreJustified` | `Spec => [](~lost => RefusedOnlyWhileRunning)` |
| `VerificationProofs!TypeCorrect` | `Spec => []TypeOK` |
| `VerificationProofs!VerdictsAreAboutTheForm` | `Spec => []VerdictIsAboutForm` |
| `VerificationProofs!InProgressIsAlive` | `Spec => []InProgressIsWorkedOn` |
| `VerificationProofs!ReviewedFormsWereVerified` | `Spec => ReviewedFormWasVerified` |
| `RequestsProofs!SubscriptionTypeCorrect`, `ResetTypeCorrect`, `SlotTypeCorrect`, `MeetingTypeCorrect` | the type invariants of Subscription, PasswordReset, CallSlots and Meetings |
| `RequestsProofs!PartsTypeCorrect` | `PartsSpec => []PartsTypeOK` |
| `RequestsProofs!RowsFollowStripe` | `Spec => []RowFollowsStripe` |
| `RequestsProofs!AnswersFollowMail` | `Spec => []AnsweredIsAnnounced`: checkouts; failed payments and cancellations in order; not the new tier |
| `RequestsProofs!AddressesAreKept` | `Spec => AddressIsKept` |
| `RequestsProofs!OneLinkIsLive` | `ResetSpec => []OneLiveLink` |
| `RequestsProofs!LinksWorkOnce` | `ResetSpec => LinkWorksOnce`: but for uses that are in flight together |
| `RequestsProofs!CallsNeverOverlap` | `SlotSpec => []CallsDoNotOverlap` |
| `RequestsProofs!CalledFollowsMeeting` | `MeetingSpec => []CalledWhileMeetingStands` |
| `GatewayProofs!GatewayTypeCorrect` | `GatewaySpec => []GatewayTypeOK` |
| `GatewayProofs!AnswersNamed` | `GatewaySpec => []AnswerNamesItsModel` |
| `GatewayProofs!ScoresAgree` | `GatewaySpec => []AggregateAgreesWithScores` |
| `GatewayProofs!AlertsFollow` | `GatewaySpec => AlertsFollowHistory` |
| `GatewayProofs!AllTypeCorrect` | `AllSpec => []AllTypeOK` |
| `GatewayProofs!WindowsAreRespected` | `LimiterSpec => []WindowIsRespected`: of all calls but those in `late` |
| `GatewayProofs!KeysReadBack` | `KeySpec => []KeyReadsBack`: rows not `unreadable`; the secret set last if not `stale` |
| `SplitterProofs!SplitTypeCorrect` | `SplitSpec => []SplitTypeOK`: the scanner reads nothing past the end of a script |
| `SplitterProofs!SplitCorrect` | `SplitSpec => []SplitsAtBoundaries` |
| `BackgroundProofs!ResearchTypeCorrect`, `MigrationTypeCorrect` | the type invariants of Research and Migrations |
| `BackgroundProofs!BackgroundTypeCorrect` | `BackgroundSpec => []BackgroundTypeOK` |
| `BackgroundProofs!BackgroundSplitsAtBoundaries` | `BackgroundSpec => []SplitsAtBoundaries` |
| `BackgroundProofs!MigrationInvariant` | the inductive invariant of Migrations |
| `BackgroundProofs!ResearchAlwaysAgrees` | `ResearchSpec => []ResearchAgrees` |
| `BackgroundProofs!SchemaMovesByWholeFiles` | the safety part of `ImplementsSchema`: initial states, and each step a step of Schema or a stutter |

`PartsSpec`, `AllSpec` and `BackgroundSpec` are what TLC runs: each behaviour is one
of one part, while the others rest.  `PartsAreComponents` and `AllAreComponents`
say that it is a behaviour of every part, so that the theorems about the parts
hold in the runs as well.

None of the safety invariants is inductive: a step that violates it may be the commit
of a session opened many steps ago.  The strengthenings (`IInv` in each proof
module) therefore speak of open sessions.

*Lifecycle.*  A session that is open is `Legal` (its move is an edge of the
transition relation, its log entries lead along it, it cancels only a flagged
report whose count it raises itself) and what it loaded is `OnRecord`: milestones
are never taken back and the flag is never cleared, so a row that was legal when it was
loaded is still testified to when the session commits.  The columns that must
agree are changed together: whoever changes the count also changes the status,
so a merged row is never CANCELLED with another session's count.  As long as an
application is not `mixed`, the counts are backed (`CountsBacked`): the row's, and the
one an open check has loaded, is no more than the checks that have failed since the
correction, unless these are three already.  The serial
theorems add `Fresh`: with one session (`OneAtATime`), the loaded row is the
current row, so each commit is a step of the status along an edge, and each edge
is a step of CustomerJourney or a stutter.

*Payment.*  An open session that is not an admin's confirms a payment that is
charged, and charges are final; what it writes as the intent is that payment's.  As
long as nothing raced, an admin's session is alone and fresh; the sessions that
confirm all write PAID and the intent they confirm, so whichever commits last, its
intent was confirmed.

*ReportPipeline.*  `Fits` relates what an open session will write to what its
worker is doing: only a run, or a request that starts one, writes
`scoring_status`, and only a run writes error messages.  While nothing raced
there is at most one run or starting request (`OneRunInv`), so no other session
changes the results between the load and the commit of a run (`ScoresFit`).
`RunningInv` keeps a `Writer` for "running": a live run whose last commit is to
come and will name the status.  It needs that a run loads "running" and
therefore writes "done" or "error" as a change.  `AnswersFit` carries the
decision of a save to its commit: a complete interview was loaded beside a
status that is triggered, or the save triggers it; and no step writes
"not_started".

*Verification.*  While nothing raced, an open session `Agrees` with the row: the
verdict it carries is about the form on record, a move to review was decided on a
form in `verified`, and a resubmission is alone and leaves "PENDING" and no
verdict whether its UPDATE names the columns or not.  Every commit keeps this for
the other sessions, because only a resubmission changes the form.  `RunningInv` keeps
an `Ender` for "IN_PROGRESS": a task that is judging or recording a failure and
whose open session, if it has one, will write another status.

*Subscription* (`SubInv`).  What a delivery will write keeps the address of the
row it loaded, a delivery that loaded no row either conflicts or inserts, and
each open delivery will mail what its event calls for: the address of the
checkout, or, unless the subscription is disordered, that of a row which an
answered checkout has made.

`RowFollowsStripe` needs more (`FollowInv`, checked by TLC before it was proved).
A subscription whose events came in order is `InStep`: for some k just the first k
events are answered, one delivery at most is open, of event k + 1 or of event k
once more, and the row is `AroundOf` event k.  Around, because the next event may
have been written by a delivery that died before its answer, and after that event
k may come again: the status is then that of either event, and so is the date, for a
failed payment writes the one and not the other.  The tier is that of some price
since event k (`TierSince`), because a checkout asks Stripe for the price of now;
and a deletion or a failed payment, which keep the tier, never come with a new
price (`Reported`).

*PasswordReset* (`LinkInv`).  While nothing raced, an address has at most one open
request; the links a new one replaces are all those of its address that are still
good, so that one remains; a request to reset holds the latest link, unused.  And,
raced or not, a link that has set a password is used, so that no request takes it
up.

*CallSlots* (`SlotInv`).  The time a session is about to book is clear of all it has
`seen`, and a session that only moves a status changes no time; an application
that does not occupy its time is in `left`.  A commit over bookings that are not
those seen puts the application in `rushed`.

*Meetings* (`MeetingInv`).  No meeting is booked twice, and of an address that is
not in `jumbled` bookings and cancellations alternate.  For some k just the first k
events are answered, a handler is at event k + 1, and the meeting that moved the
application is that of one of these two: CALLED beside its booking, APPROVED
beside the cancellation that follows (`Turn`).

*Gateway*.  Whose answers are on record (`NameInv`): of a provider whose settings
were never changed no request in flight has read any, so it is asked for its
default model; an entry of either cache was given by the provider in its key, and
by that model unless the settings changed meanwhile; results and flushed rows carry
the name of who answered from the call to the commit.  Scores (`ScoreInv`): a row has
dimensions exactly if it has a score, and scores are positive; from there the
agreement of the two endpoints is arithmetic: a weighted sum lies between its
weight times the least and times the greatest score.  Alerts (`AlertInv`): until a
commit overtakes it, a request has flagged its rows by the rows on record and its
own; the lemma behind it turns the detector's average over n + 1 scores, of which
the new one is the last, into the inequality the property states.  The sums are
`SumFunctionOnSet`, a recursive function over subsets: `SumsExist` shows by
induction on a finite set (`SetInduction`) that there is one.

*RateLimiter* (`WindowInv`).  What Redis let through in the minute before `swept`
is in the sorted set (an entry that is withdrawn was never let through), so for a
call whose reading is not older the count is an upper bound of the window that ends
with it; and every window that ended earlier held when it ended.  *ApiKeys* (`KeyInv`):
the value of a readable row is one secret that was set, as it is or encrypted once
with the key in use, and that of a row which is not stale is the last one; and what a
script in flight takes for plain text is one.

*Research* (`ResearchInv`): while its workers have not overlapped, a firm has at
most one at work, and what that one's session has loaded is the row.  *Migrations*
(`MigrationInvariant`): the files on record are the first ones, and the schema is
that of a whole number of files, at least as many; no instance knows of a file
that is not on record, and one that serves knows of all those in its image.

*SqlSplitter* (`SplitInv`, checked by TLC before it was proved).  The scanner knows
characters and the property speaks of tokens, so the invariant says where among the
tokens the scanner is (`Scanned`): before token i, or in the literal i past its
first quote, or in the block i between its delimiters, with `quoted` and `tag` to
match; what is in `buf` is the text from the newest boundary to that place, and the
statements are the groups with more than blanks that end before it.  Each step keeps
it because the first character, of a well-formed script, tells the token
(`HeadTells`): a semicolon is seen as a boundary only where it is one.  Three sorts
of lemmas carry this: where the text of a token or of a group lies in the whole
(`PlaceFound`, `FlattenOfPart`); what stripping and the division into lines do to it
(`StripCases`, `Lines`), from which a group is sent if it has a command and dropped
if it has none (`CommandIsSent`, `CommentsAreNotSent`); and that the groups dropped
leave the others in their order (`SentGroups`).

**Induction.**  The library's induction theorems take an operator, which the provers
cannot instantiate; `SetInduction` and `NumberInduction` state them with a set in
its place, and follow from the library's well-founded orders, and so does
`Recursion`, that a function defined by recursion on a number exists.

**Only model-checked**: the liveness properties `ChargeIsHonoured`,
`GenerationEnds`, `ScoringEnds`, `VerificationEnds`, `PendingFormIsJudged`,
`ResearchSettles` and that part of `ImplementsSchema`; fairness and ENABLED are
out of the prover's reach.  Every invariant and every action property of a run is a
theorem, and all that is proved is also checked on the instances above.

## 7. Not modelled

Within the modelled parts: `changed_by`, notes and timestamps; amounts;
`payment_intent.payment_failed`, which records a reason nobody reads;
`questions_status`, which nothing in the pipeline reads; `overall_score`,
`queries_run`, `rank`; what a generator or the scoring of a report computes; the
e-mails of an application (a message follows a commit and is lost when the
process dies in between); subscriptions on trial and billing periods; hashes,
signatures and the refusal of a time in the past; the search for words in an
answer, and roundings to two places; latencies and token counts.  Redis is
assumed to keep its entries until they expire: `docker-compose.yml` gives it
`allkeys-lru` and no persistence, so an eviction or a restart may forget calls
the limiter has let through.  Two equal readings of the clock, which would share
an entry of the window, are left out, and so are more than 500 answers without a
score, of which a recalculation takes the first 500 again and again.

Not modelled at all: the tenants' create-and-read endpoints and request
validation, authentication and the IP limiter (stateless comparisons, an external
library), static pages and PDF rendering, the transcripts of calls and text
overrides (a single write each), and the scripts that lay out one report.

## 8. Plan

Done, in order of importance to the business: `Lifecycle` with its refinement,
`Payment`, `ReportPipeline`, `Verification`; then `Subscription`,
`PasswordReset`, `CallSlots` and `Meetings`; `Gateway`, `Scoring`,
`RateLimiter` and `ApiKeys`; `Research`, `Migrations` with its refinement and
`SqlSplitter`; with theorems about all of them.  Left, most important first:

1. What the liveness properties rest on, as invariants: that the step which ends a
   run or a task is possible from each state in which it is owed.
2. The transcripts of calls and the review invitation, as further sessions of
   Lifecycle and ReportPipeline.

One run for each component's properties and one only where the code contradicts
its documentation; parts that share no state share a run where their instances
are small.

## 9. Running it

    tlc -workers 2 -config lifecycle_serial.cfg MCLifecycle.tla
    tlc -workers 2 -config payment.cfg          MCPayment.tla
    tlc -workers 2 -config report_pipeline.cfg  MCReportPipeline.tla
    tlc -workers 2 -config verification.cfg     MCVerification.tla
    tlc -workers 2 -config requests.cfg         MCRequests.tla
    tlc -workers 2 -config gateway.cfg          MCGateway.tla
    tlc -workers 2 -config background.cfg       MCBackground.tla
    tlapm LifecycleProofs.tla
    tlapm PaymentProofs.tla
    tlapm ReportPipelineProofs.tla
    tlapm VerificationProofs.tla
    tlapm RequestsProofs.tla
    tlapm GatewayProofs.tla
    tlapm SplitterProofs.tla
    tlapm BackgroundProofs.tla

Each run takes from a few seconds to three minutes.  Operators whose comment begins
with "Fault:" are plausible bugs of the definition that follows them.
`PROJECT.json` lists, for every property of a passing run, a fault that makes TLC
find the property violated; no specification uses them.
