------------------------------ MODULE Lifecycle ------------------------------
(***************************************************************************)
(* The life of customer applications: every endpoint, webhook and          *)
(* background task of the service that moves an application's status, with *)
(* the 3+3 quality-control loop.                                           *)
(*                                                                         *)
(* All of them have one shape.  A session SELECTs the row, tests it,       *)
(* answers with an HTTP error and no write when the test fails, otherwise  *)
(* sets attributes of the loaded object, adds audit-log rows and commits.  *)
(* Nothing locks the row and nothing re-reads it, and the handler awaits   *)
(* between the SELECT and the COMMIT, so other sessions run in between.    *)
(* The commit writes only the columns whose value differs from the one     *)
(* that was loaded, and the log rows, in one transaction.                  *)
(*                                                                         *)
(* One action per operation opens a session (SELECT, test, the values      *)
(* set); Commit and Abort close it.  With a single session the operations  *)
(* are serial; with two they overlap.                                      *)
(***************************************************************************)
EXTENDS Integers, Sequences, ApplicationStatus, UnitOfWork

CONSTANTS
  Apps,           \* the applications (rows of customer_applications)
  Sessions,       \* slots for handlers and tasks that run at the same time
  NoRequest,      \* the content of a slot no handler occupies
  MaxQcFailures   \* bound on qc_failure_count

ASSUME MaxQcFailuresAssumption == MaxQcFailures \in Nat /\ MaxQcFailures >= 1

VARIABLES
  row,       \* the lifecycle columns of each application
  newest,    \* the audit-log entries of the newest commit of each application
  reached,   \* the milestones some audit-log entry of each application reached
  session,   \* what each open session loaded and is about to write
  failed,    \* history: the failed checks committed since the newest correction
  mixed      \* history: where a failed check and a correction were open at once

vars == <<row, newest, reached, session, failed, mixed>>

Row == [status : Status, qc_failure_count : 0 .. MaxQcFailures,
        has_been_escalated : BOOLEAN]

\* An audit-log row; its changed_by, note and timestamp are left out.
StateLog == [from : Status, to : CustomerApplicationStatus]

\* The statuses the timeline of an application is searched for.
Milestones == {"UNDER_REVIEW", "APPROVED", "AWAITING_PAYMENT", "ESCALATED"}

Request == [app : Apps, loaded : Row, new : Row, entries : Seq(StateLog)]

ASSUME NoRequestAssumption == NoRequest \notin Request

_QC_ESCALATION_THRESHOLD == 3

Init ==
  /\ row = [a \in Apps |-> [status |-> "NONE", qc_failure_count |-> 0,
                            has_been_escalated |-> FALSE]]
  /\ newest = [a \in Apps |-> <<>>]
  /\ reached = [a \in Apps |-> {}]
  /\ session = [s \in Sessions |-> NoRequest]
  /\ failed = [a \in Apps |-> 0]
  /\ mixed = {}
-----------------------------------------------------------------------------
(***************************************************************************)
(* The session.                                                            *)
(***************************************************************************)
Entry(from, to) == [from |-> from, to |-> to]

\* The milestones among the statuses that log entries lead to.
MilestonesOf(entries) ==
  {entries[i].to : i \in DOMAIN entries} \intersect Milestones

\* Sessions that report a failed check, and that correct a report by hand.
FailedCheck(r) ==
  r.loaded.status = "QC_REVIEW" /\ r.new.qc_failure_count # r.loaded.qc_failure_count

Correction(r) ==
  r.loaded.status = "ESCALATED" /\ r.new.status = "IN_PRODUCTION"

\* Session r and an open session of the same application are one of each.
Mixes(r) ==
  \E t \in Sessions :
    /\ session[t] # NoRequest /\ session[t].app = r.app
    /\ \/ FailedCheck(r) /\ Correction(session[t])
       \/ Correction(r) /\ FailedCheck(session[t])

\* A handler that loaded a's row is about to commit the values `new`.
Hold(s, a, new, entries) ==
  LET r == [app |-> a, loaded |-> row[a], new |-> new, entries |-> entries] IN
    /\ session[s] = NoRequest
    /\ session' = [session EXCEPT ![s] = r]
    /\ mixed' = IF Mixes(r) THEN mixed \union {a} ELSE mixed
    /\ UNCHANGED <<row, newest, reached, failed>>

WithStatus(r, to) ==
  [status |-> to, qc_failure_count |-> r.qc_failure_count,
   has_been_escalated |-> r.has_been_escalated]

\* The common case: a status in `from` becomes `to`, with one log entry.
Move(s, a, from, to) ==
  /\ row[a].status \in from
  /\ Hold(s, a, WithStatus(row[a], to), <<Entry(row[a].status, to)>>)

MergedRow(current, r) ==
  [status |-> Merged(current.status, r.loaded.status, r.new.status),
   qc_failure_count |-> Merged(current.qc_failure_count,
                               r.loaded.qc_failure_count,
                               r.new.qc_failure_count),
   has_been_escalated |-> Merged(current.has_been_escalated,
                                 r.loaded.has_been_escalated,
                                 r.new.has_been_escalated)]

\* The failed checks since the newest correction, of which n were known, counted up
\* to the threshold.
FailedSince(r, n) ==
  IF Correction(r) THEN 0
  ELSE IF FailedCheck(r) /\ n < _QC_ESCALATION_THRESHOLD THEN n + 1
  ELSE n

\* The commit of a session: its dirty columns and its log rows, atomically.
Commit(s) ==
  /\ session[s] # NoRequest
  /\ LET r == session[s] IN
       /\ row' = [row EXCEPT ![r.app] = MergedRow(row[r.app], r)]
       /\ newest' = [newest EXCEPT ![r.app] = r.entries]
       /\ reached' = [reached EXCEPT ![r.app] = @ \union MilestonesOf(r.entries)]
       /\ failed' = [failed EXCEPT ![r.app] = FailedSince(r, @)]
  /\ session' = [session EXCEPT ![s] = NoRequest]
  /\ UNCHANGED mixed

\* A failed call to Stripe, an exception or the death of the process ends the
\* session before its commit.
Abort(s) ==
  /\ session[s] # NoRequest
  /\ session' = [session EXCEPT ![s] = NoRequest]
  /\ UNCHANGED <<row, newest, reached, failed, mixed>>
-----------------------------------------------------------------------------
(***************************************************************************)
(* Screening.                                                              *)
(***************************************************************************)
\* A customer submits: the row and its first log entry in one commit.
SubmitApplication(a) ==
  /\ row[a].status = "NONE"
  /\ row' = [row EXCEPT ![a] = WithStatus(@, "APPLIED")]
  /\ newest' = [newest EXCEPT ![a] = <<Entry("NONE", "APPLIED")>>]
  /\ UNCHANGED <<reached, session, failed, mixed>>

\* The further test, that the verification completed without ERROR fields, may
\* go either way here: the verification columns are not part of this module.
MoveToReview(s, a) == Move(s, a, {"APPLIED"}, "UNDER_REVIEW")

\* The verification agent found the website dead.
AutoReject(s, a) == Move(s, a, {"APPLIED", "UNDER_REVIEW"}, "REJECTED")

\* Fault: approval forgets that the application must be under review.
ApproveAnyProspect(s, a) ==
  Move(s, a, {"APPLIED", "UNDER_REVIEW"}, "APPROVED")

Approve(s, a) == Move(s, a, {"UNDER_REVIEW"}, "APPROVED")

Reject(s, a) == Move(s, a, {"APPLIED", "UNDER_REVIEW"}, "REJECTED")

\* The admin urges the applicant to update a rejected application.
UrgeUpdate(s, a) == Move(s, a, {"REJECTED"}, "APPLIED")

\* The applicant resubmits a rejected application.
Resubmit(s, a) == Move(s, a, {"REJECTED"}, "APPLIED")
-----------------------------------------------------------------------------
(***************************************************************************)
(* Sales and payment.                                                      *)
(***************************************************************************)
BookCall(s, a) == Move(s, a, {"APPROVED"}, "CALLED")

CalendlyCreated(s, a) == Move(s, a, {"APPROVED"}, "CALLED")

CalendlyCanceled(s, a) == Move(s, a, {"CALLED"}, "APPROVED")

\* Fault: a link can also be regenerated for an application already paid.
GeneratePaymentLinkAfterPaid(s, a) ==
  Move(s, a, {"CALLED", "APPROVED", "AWAITING_PAYMENT", "PAID"}, "AWAITING_PAYMENT")

\* Regenerating a link logs AWAITING_PAYMENT -> AWAITING_PAYMENT and writes no
\* status.
GeneratePaymentLink(s, a) ==
  Move(s, a, {"CALLED", "APPROVED", "AWAITING_PAYMENT"}, "AWAITING_PAYMENT")

VerifyPayment(s, a) == Move(s, a, {"AWAITING_PAYMENT"}, "PAID")

CheckoutCompleted(s, a) == Move(s, a, {"AWAITING_PAYMENT"}, "PAID")

PaymentIntentSucceeded(s, a) == Move(s, a, {"AWAITING_PAYMENT"}, "PAID")
-----------------------------------------------------------------------------
(***************************************************************************)
(* Production, quality control and the admin's status endpoint.            *)
(***************************************************************************)
UpdateStatus(s, a, to) ==
  /\ <<row[a].status, to>> \in VALID_TRANSITIONS
  /\ Move(s, a, {row[a].status}, to)

QcPass(s, a) == Move(s, a, {"QC_REVIEW"}, "QC_PASSED")

\* Where a failed check sends a report that has failed n times this cycle.
AfterFailure(n, escalated) ==
  IF n < _QC_ESCALATION_THRESHOLD THEN "IN_PRODUCTION"
  ELSE IF ~escalated THEN "ESCALATED"
  ELSE "CANCELLED"

QcFail(s, a) ==
  LET n  == row[a].qc_failure_count + 1
      to == AfterFailure(n, row[a].has_been_escalated)
  IN  /\ row[a].status = "QC_REVIEW"
      /\ n <= MaxQcFailures
      /\ Hold(s, a,
              [status |-> to, qc_failure_count |-> n,
               has_been_escalated |-> row[a].has_been_escalated],
              <<Entry("QC_REVIEW", to)>>)

\* Fault: the correction takes three failures off instead of resetting the count.
ManualCorrectionSubtracts(s, a) ==
  /\ row[a].status = "ESCALATED"
  /\ Hold(s, a,
          [status |-> "IN_PRODUCTION", has_been_escalated |-> TRUE,
           qc_failure_count |-> row[a].qc_failure_count - _QC_ESCALATION_THRESHOLD],
          <<Entry("ESCALATED", "RETRY"), Entry("RETRY", "IN_PRODUCTION")>>)

\* Fault: the correction logs only where it ends.
ManualCorrectionOneEntry(s, a) ==
  /\ row[a].status = "ESCALATED"
  /\ Hold(s, a,
          [status |-> "IN_PRODUCTION", qc_failure_count |-> 0,
           has_been_escalated |-> TRUE],
          <<Entry("RETRY", "IN_PRODUCTION")>>)

\* Fault: the correction forgets to reset the count.
ManualCorrectionKeepsCount(s, a) ==
  /\ row[a].status = "ESCALATED"
  /\ Hold(s, a,
          [status |-> "IN_PRODUCTION", has_been_escalated |-> TRUE,
           qc_failure_count |-> row[a].qc_failure_count],
          <<Entry("ESCALATED", "RETRY"), Entry("RETRY", "IN_PRODUCTION")>>)

\* Two log entries, one commit: RETRY is never the stored status.
ManualCorrection(s, a) ==
  /\ row[a].status = "ESCALATED"
  /\ Hold(s, a,
          [status |-> "IN_PRODUCTION", qc_failure_count |-> 0,
           has_been_escalated |-> TRUE],
          <<Entry("ESCALATED", "RETRY"), Entry("RETRY", "IN_PRODUCTION")>>)
-----------------------------------------------------------------------------
Screening(s, a) ==
  \/ MoveToReview(s, a) \/ AutoReject(s, a) \/ Approve(s, a)
  \/ Reject(s, a) \/ UrgeUpdate(s, a) \/ Resubmit(s, a)

Sales(s, a) ==
  \/ BookCall(s, a) \/ CalendlyCreated(s, a) \/ CalendlyCanceled(s, a)
  \/ GeneratePaymentLink(s, a) \/ VerifyPayment(s, a)
  \/ CheckoutCompleted(s, a) \/ PaymentIntentSucceeded(s, a)

Production(s, a) ==
  \/ \E to \in CustomerApplicationStatus : UpdateStatus(s, a, to)
  \/ QcPass(s, a) \/ QcFail(s, a) \/ ManualCorrection(s, a)

Open(s, a) == Screening(s, a) \/ Sales(s, a) \/ Production(s, a)

Next ==
  \/ \E a \in Apps : SubmitApplication(a)
  \/ \E s \in Sessions, a \in Apps : Open(s, a)
  \/ \E s \in Sessions : Commit(s) \/ Abort(s)

Spec == Init /\ [][Next]_vars
-----------------------------------------------------------------------------
TypeOK ==
  /\ row \in [Apps -> Row]
  /\ newest \in [Apps -> Seq(StateLog)]
  /\ reached \in [Apps -> SUBSET Milestones]
  /\ session \in [Sessions -> Request \union {NoRequest}]
  /\ failed \in [Apps -> 0 .. _QC_ESCALATION_THRESHOLD]
  /\ mixed \subseteq Apps

\* A cancelled report has been escalated and corrected by hand, and three of its
\* checks have failed since the newest correction, however requests overlap -- but
\* one overlap: where a failed check and a correction were open at the same time,
\* the late commit of the check brings an old count back, and fewer will do.
CancelledAfterTwoRounds ==
  \A a \in Apps : row[a].status = "CANCELLED" =>
    /\ row[a].has_been_escalated /\ "ESCALATED" \in reached[a]
    /\ a \notin mixed => failed[a] = _QC_ESCALATION_THRESHOLD

\* The milestones an application must have passed to be in a status.
Prerequisites(status) ==
  IF status \in {"NONE", "APPLIED", "REJECTED"} THEN {}
  ELSE IF status = "UNDER_REVIEW" THEN {"UNDER_REVIEW"}
  ELSE IF status \in {"APPROVED", "CALLED"} THEN {"UNDER_REVIEW", "APPROVED"}
  ELSE IF status \in {"ESCALATED", "RETRY", "CANCELLED"} THEN Milestones
  ELSE {"UNDER_REVIEW", "APPROVED", "AWAITING_PAYMENT"}

\* Nobody skips a stage: an application in a status has, on record, been
\* reviewed, approved, invoiced and escalated as that status requires.  It holds
\* under any overlap, although a late commit may move the status backwards.
StagesInOrder == \A a \in Apps : Prerequisites(row[a].status) \subseteq reached[a]

\* The log entries lead from one status to the other without a gap.
Leads(from, entries, to) ==
  LET n == Len(entries) IN
    /\ n > 0
    /\ entries[1].from = from /\ entries[n].to = to
    /\ \A i \in 1 .. n - 1 : entries[i].to = entries[i + 1].from

\* The audit log records every change of status as it happened
\* (003_customer_applications.sql: "Full audit log of every state transition").
EveryTransitionLogged ==
  [][\A a \in Apps : row'[a].status # row[a].status =>
       Leads(row[a].status, newest'[a], row'[a].status)]_vars

\* An application back in production after an escalation has been through the
\* manual correction, so that its next three failures cancel it (src/db/models.py
\* on has_been_escalated: "True after the first escalation").
SecondRoundIsFlagged ==
  \A a \in Apps :
    row[a].status = "IN_PRODUCTION" /\ "ESCALATED" \in reached[a] =>
      row[a].has_been_escalated

\* The stage of the customer's journey that a status belongs to.
StageOf(status) ==
  IF status = "NONE" THEN "none"
  ELSE IF status \in {"APPLIED", "UNDER_REVIEW"} THEN "screening"
  ELSE IF status = "REJECTED" THEN "rejected"
  ELSE IF status \in {"APPROVED", "CALLED"} THEN "sales"
  ELSE IF status = "AWAITING_PAYMENT" THEN "invoiced"
  ELSE IF status = "READY_FOR_REVIEW_CALL" THEN "delivery"
  ELSE IF status = "COMPLETED" THEN "completed"
  ELSE IF status = "CANCELLED" THEN "cancelled"
  ELSE "production"

Journey == INSTANCE CustomerJourney
             WITH stage <- [a \in Apps |-> StageOf(row[a].status)]

\* When requests do not overlap, the service keeps the promises of the customer
\* journey.
KeepsJourney == Journey!Spec
=============================================================================
