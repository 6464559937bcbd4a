---------------------------- MODULE Verification ----------------------------
(***************************************************************************)
(* The verification of an application's form: the agent that judges it in  *)
(* the background, the endpoints that start the agent, the applicant who   *)
(* replaces the form, and the admin who moves the application on.          *)
(*                                                                         *)
(* A worker is a request and then the background task it added.  A task    *)
(* marks the application, loads it again, waits for the website and a      *)
(* language model and commits its verdict; when that fails, a session of   *)
(* its own records the failure.  Sessions are those of Lifecycle.          *)
(*                                                                         *)
(* Left out: verification_substage and the times, which no handler reads;  *)
(* statuses after APPROVED, which the agent treats like it; the e-mails.   *)
(***************************************************************************)
EXTENDS ApplicationStatus, ChangedColumns

CONSTANTS
  Forms,        \* what the applicant may fill in
  Errors,       \* messages of exceptions, stored instead of a verdict
  Null,         \* a column without a value
  Workers,
  NoSession

VARIABLES
  row,          \* the application
  job,          \* what each worker is doing
  session,      \* the changes a worker's open session will commit
  verified,     \* history: the forms that a committed verdict has found in order
  lost,         \* history: a background task ended without its last commit
  raced         \* history: a resubmission overlapped another session

vars == <<row, job, session, verified, lost, raced>>

ScreeningStatus == {"APPLIED", "UNDER_REVIEW", "REJECTED", "APPROVED"}

\* What the agent finds: nothing wrong, a field in ERROR, or the website in ERROR.
Finding == {"ok", "field error", "website error"}
Verdict == [about : Forms, finding : Finding]

Row == [form : Forms, status : ScreeningStatus,
        agent_verification_status : {"PENDING", "IN_PROGRESS", "COMPLETED", "FAILED"},
        agent_verification_results : Verdict \union Errors \union {Null}]

\* Columns that no UPDATE names keep their value.
Change == [form : Forms \union {Keep}, status : ScreeningStatus \union {Keep},
           agent_verification_status :
             {"PENDING", "IN_PROGRESS", "COMPLETED", "FAILED", Keep},
           agent_verification_results : Verdict \union Errors \union {Null, Keep}]

\* A task is about to mark the application, to judge it, or to record a failure.
Task == {"verify", "judge", "record failure"}
Job == {"idle", "request"} \union Task

\* The endpoints, and the task.
Caller == {"admin", "move_to_review", "applicant", "agent"}
Session == [change : Change, caller : Caller, then : Task \union {"idle"}]

ASSUME NullAssumption == Null \notin Verdict \union Errors
ASSUME ErrorsAssumption == Errors \intersect Verdict = {}
ASSUME NoSessionAssumption == NoSession \notin Session
ASSUME KeepAssumption ==
  /\ Keep \notin Forms \union ScreeningStatus \union Verdict \union Errors \union {Null}
  /\ Keep \notin {"PENDING", "IN_PROGRESS", "COMPLETED", "FAILED"}

\* A submitted form: the public endpoint has added a verification, the older one none.
Init ==
  /\ \E form \in Forms :
       row = [form |-> form, status |-> "APPLIED",
              agent_verification_status |-> "PENDING",
              agent_verification_results |-> Null]
  /\ job \in {f \in [Workers -> {"idle", "verify"}] :
                \A v, w \in Workers : f[v] = "verify" /\ f[w] = "verify" => v = w}
  /\ session = [w \in Workers |-> NoSession]
  /\ verified = {}
  /\ lost = FALSE /\ raced = FALSE
-----------------------------------------------------------------------------
Changes(new) ==
  [form |-> Dirty(row.form, new.form),
   status |-> Dirty(row.status, new.status),
   agent_verification_status |->
     Dirty(row.agent_verification_status, new.agent_verification_status),
   agent_verification_results |->
     Dirty(row.agent_verification_results, new.agent_verification_results)]

\* Worker w has loaded the row, will commit `change` and go on with `then`.
HoldChange(w, change, caller, then) ==
  /\ session[w] = NoSession
  /\ session' = [session EXCEPT
       ![w] = [change |-> change, caller |-> caller, then |-> then]]
  /\ raced' = (raced \/ \E v \in Workers :
                 /\ session[v] # NoSession
                 /\ "applicant" \in {caller, session[v].caller})
  /\ UNCHANGED <<row, verified, lost>>

Hold(w, new, caller, then) == HoldChange(w, Changes(new), caller, then)

Request(w, new, caller, then) ==
  /\ job[w] = "idle"
  /\ job' = [job EXCEPT ![w] = "request"]
  /\ Hold(w, new, caller, then)

Commit(w) ==
  /\ session[w] # NoSession
  /\ LET c == session[w].change IN
       /\ row' = [form |-> Written(row.form, c.form),
                  status |-> Written(row.status, c.status),
                  agent_verification_status |->
                    Written(row.agent_verification_status, c.agent_verification_status),
                  agent_verification_results |->
                    Written(row.agent_verification_results, c.agent_verification_results)]
       /\ verified' = verified \union
            {form \in Forms :
               c.agent_verification_results = [about |-> form, finding |-> "ok"]}
  /\ job' = [job EXCEPT ![w] = session[w].then]
  /\ session' = [session EXCEPT ![w] = NoSession]
  /\ UNCHANGED <<lost, raced>>

\* The death of the process (then of every worker), or an exception that nothing
\* catches: a task is lost with the status it has left.
Fail(w) ==
  /\ job[w] # "idle"
  /\ job' = [job EXCEPT ![w] = "idle"]
  /\ session' = [session EXCEPT ![w] = NoSession]
  /\ lost' = (lost \/ job[w] \in Task)
  /\ UNCHANGED <<row, verified, raced>>
-----------------------------------------------------------------------------
(***************************************************************************)
(* The endpoints.                                                          *)
(***************************************************************************)
\* Fault: the old verdict is kept until there is a new one.
ResetStatusOnly(r) == [r EXCEPT !.agent_verification_status = "PENDING"]

\* Fault: the verdict goes, its status stays.
ResetResultsOnly(r) == [r EXCEPT !.agent_verification_results = Null]

Reset(r) == [r EXCEPT !.agent_verification_status = "PENDING",
                      !.agent_verification_results = Null]

VerifyApplication(w) == Request(w, Reset(row), "admin", "verify")

Reopened(status) == IF status = "REJECTED" THEN "APPLIED" ELSE status

\* The applicant's new form, in any status, and a new verification.
UpdateApplicationPublic(w, form) ==
  Request(w, [Reset(row) EXCEPT !.form = form, !.status = Reopened(@)],
          "applicant", "verify")

UrgeApplicantUpdate(w) ==
  Request(w, [row EXCEPT !.status = Reopened(@)], "admin", "idle")

\* "COMPLETED" and ERROR fields may meet, when verifications overlap.
HasErrors(results) == results \in Verdict /\ results.finding # "ok"

MoveToReview(w) ==
  /\ row.status = "APPLIED"
  /\ row.agent_verification_status = "COMPLETED"
  /\ ~HasErrors(row.agent_verification_results)
  /\ Request(w, [row EXCEPT !.status = "UNDER_REVIEW"], "move_to_review", "idle")

\* Approval, rejection and the status endpoint.
UpdateStatus(w, to) ==
  /\ <<row.status, to>> \in VALID_TRANSITIONS
  /\ Request(w, [row EXCEPT !.status = to], "admin", "idle")
-----------------------------------------------------------------------------
(***************************************************************************)
(* The agent.                                                              *)
(***************************************************************************)
MarkInProgress(w) ==
  /\ job[w] = "verify"
  /\ Hold(w, [row EXCEPT !.agent_verification_status = "IN_PROGRESS"], "agent", "judge")
  /\ UNCHANGED job

\* Fault: one of the other names the agent's last test knows for a success.
DeriveOtherStatus(finding) == IF finding = "ok" THEN "VERIFIED" ELSE "FAILED"

DeriveOverallStatus(finding) == IF finding = "ok" THEN "COMPLETED" ELSE "FAILED"

\* Where the agent leaves the status: a dead website rejects the application.
Rejected(status, finding) ==
  IF finding = "website error" /\ status \in {"APPLIED", "UNDER_REVIEW"}
  THEN "REJECTED" ELSE status

\* The verdict is in the words of a language model, never those that were loaded.
Judge(w, finding) ==
  /\ job[w] = "judge"
  /\ LET verdict == [about |-> row.form, finding |-> finding]
         new == [row EXCEPT
                   !.agent_verification_status = DeriveOverallStatus(finding),
                   !.agent_verification_results = verdict,
                   !.status = Rejected(@, finding)]
     IN HoldChange(w, [Changes(new) EXCEPT !.agent_verification_results = verdict],
                   "agent", "idle")
  /\ UNCHANGED job

\* Fault: the exception is logged and no more.
GiveUpLogsOnly(w) ==
  /\ job[w] = "judge"
  /\ job' = [job EXCEPT ![w] = "idle"]
  /\ session' = [session EXCEPT ![w] = NoSession]
  /\ UNCHANGED <<row, verified, lost, raced>>

\* Fault: the agent tries again, without a limit.
GiveUpRetries(w) ==
  /\ job[w] = "judge"
  /\ session' = [session EXCEPT ![w] = NoSession]
  /\ UNCHANGED <<row, job, verified, lost, raced>>

\* An exception while judging, or in the commit of the verdict.
GiveUp(w) ==
  /\ job[w] = "judge"
  /\ job' = [job EXCEPT ![w] = "record failure"]
  /\ session' = [session EXCEPT ![w] = NoSession]
  /\ UNCHANGED <<row, verified, lost, raced>>

\* Fault: the status is recorded and the exception is not.
RecordFailureStatusOnly(w, error) ==
  /\ job[w] = "record failure"
  /\ Hold(w, [row EXCEPT !.agent_verification_status = "FAILED"], "agent", "idle")
  /\ UNCHANGED job

RecordFailure(w, error) ==
  /\ job[w] = "record failure"
  /\ Hold(w, [row EXCEPT !.agent_verification_status = "FAILED",
                         !.agent_verification_results = error], "agent", "idle")
  /\ UNCHANGED job
-----------------------------------------------------------------------------
Endpoint(w) ==
  \/ VerifyApplication(w)
  \/ \E form \in Forms : UpdateApplicationPublic(w, form)
  \/ UrgeApplicantUpdate(w)
  \/ MoveToReview(w)
  \/ \E to \in ScreeningStatus : UpdateStatus(w, to)

Agent(w) ==
  \/ MarkInProgress(w)
  \/ \E finding \in Finding : Judge(w, finding)
  \/ \E error \in Errors : RecordFailure(w, error)

Next == \E w \in Workers : Endpoint(w) \/ Agent(w) \/ GiveUp(w) \/ Commit(w) \/ Fail(w)

\* The agent's calls have timeouts, and so have its waits for the database.
Fairness == \A w \in Workers : WF_vars(Agent(w)) /\ WF_vars(Commit(w))

Spec == Init /\ [][Next]_vars /\ Fairness
-----------------------------------------------------------------------------
TypeOK ==
  /\ row \in Row
  /\ job \in [Workers -> Job]
  /\ session \in [Workers -> Session \union {NoSession}]
  /\ verified \subseteq Forms
  /\ lost \in BOOLEAN /\ raced \in BOOLEAN

\* A verdict on record is about the form on record, although verifications overlap
\* each other, unless a resubmission overlapped another session.
VerdictIsAboutForm ==
  ~raced /\ row.agent_verification_results \in Verdict =>
    row.agent_verification_results.about = row.form

\* move_to_review takes an application to review only with a form that a
\* verification has found in order, unless a resubmission overlapped another session
\* (its docstring: "after verification").
ReviewedFormWasVerified ==
  [][\A w \in Workers :
       /\ session[w] # NoSession /\ session'[w] = NoSession
       /\ session[w].caller = "move_to_review"
       /\ row'.status = "UNDER_REVIEW" /\ row.status # "UNDER_REVIEW" /\ ~raced
       => row.form \in verified]_vars

\* "IN_PROGRESS" says that a task is alive to end it, unless a task was lost.
InProgressIsWorkedOn ==
  row.agent_verification_status = "IN_PROGRESS" /\ ~lost =>
    \E w \in Workers : job[w] \in Task

\* A verification comes to an end, unless a task was lost.
VerificationEnds ==
  row.agent_verification_status = "IN_PROGRESS"
    ~> row.agent_verification_status # "IN_PROGRESS" \/ lost

\* A form that is to be verified is judged, or its failure recorded, unless it is
\* replaced or a task was lost.
PendingFormIsJudged ==
  \A form \in Forms :
    row.form = form /\ row.agent_verification_status = "PENDING"
      /\ (\E w \in Workers : job[w] = "verify")
    ~> \/ row.agent_verification_results \in Errors \union [about : {form}, finding : Finding]
       \/ row.form # form \/ lost
=============================================================================
