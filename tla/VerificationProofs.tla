------------------------- MODULE VerificationProofs -------------------------
(***************************************************************************)
(* Verification, for any number of workers and forms: types, a verdict is  *)
(* about the form on record, what is reviewed was verified, and            *)
(* "IN_PROGRESS" means that a task is alive as long as none is lost.       *)
(***************************************************************************)
EXTENDS Verification, TLAPS

\* A task whose last commit is still to come, and will be an end of "IN_PROGRESS".
Ender(w) ==
  /\ job[w] \in {"judge", "record failure"}
  /\ session[w] # NoSession =>
       session[w].change.agent_verification_status \in {"COMPLETED", "FAILED"}

\* What an open session may be about to do.
Fits(s) ==
  /\ s.change.agent_verification_status = "IN_PROGRESS" => s.then = "judge"
  /\ s.change.agent_verification_status = "COMPLETED" =>
       /\ s.change.agent_verification_results \in Verdict
       /\ s.change.agent_verification_results.finding = "ok"
  /\ s.change.form # Keep => s.caller = "applicant"

\* What an open session of a worker that has not raced agrees with.
Agrees(s) ==
  /\ s.change.agent_verification_results \in Verdict =>
       s.change.agent_verification_results.about = row.form
  /\ s.caller = "move_to_review" => row.form \in verified
  /\ s.caller = "applicant" =>
       /\ Written(row.agent_verification_status,
                  s.change.agent_verification_status) = "PENDING"
       /\ Written(row.agent_verification_results,
                  s.change.agent_verification_results) = Null

SessionInv ==
  \A w \in Workers : session[w] # NoSession => Fits(session[w])

RunningInv ==
  row.agent_verification_status = "IN_PROGRESS" /\ ~lost =>
    \E w \in Workers : Ender(w)

Alone(w) == \A v \in Workers : session[v] # NoSession => v = w

AgreementInv ==
  ~raced =>
    \A w \in Workers : session[w] # NoSession =>
      /\ Agrees(session[w])
      /\ session[w].caller = "applicant" => Alone(w)

CompletedIsVerified ==
  ~raced /\ row.agent_verification_status = "COMPLETED" => row.form \in verified

IInv ==
  /\ TypeOK /\ SessionInv /\ RunningInv /\ AgreementInv
  /\ VerdictIsAboutForm /\ CompletedIsVerified
-----------------------------------------------------------------------------
(***************************************************************************)
(* What opening a session does, whichever endpoint or task opens it.       *)
(***************************************************************************)
Opens(w, s) ==
  /\ session[w] = NoSession /\ session' = [session EXCEPT ![w] = s]
  /\ UNCHANGED <<row, verified, lost>>
  /\ raced' = (raced \/ \E v \in Workers :
                 /\ session[v] # NoSession
                 /\ "applicant" \in {s.caller, session[v].caller})
  /\ \/ job[w] = "idle" /\ job' = [job EXCEPT ![w] = "request"]
     \/ job[w] \in Task /\ job' = job
  /\ Fits(s)
  /\ s.change.agent_verification_results \in Verdict =>
       s.change.agent_verification_results.about = row.form
  /\ s.caller = "move_to_review" => row.agent_verification_status = "COMPLETED"
  /\ s.caller = "applicant" =>
       /\ Written(row.agent_verification_status,
                  s.change.agent_verification_status) = "PENDING"
       /\ Written(row.agent_verification_results,
                  s.change.agent_verification_results) = Null
  /\ row.agent_verification_status = "IN_PROGRESS"
       /\ job'[w] \in {"judge", "record failure"} =>
       s.change.agent_verification_status \in {"COMPLETED", "FAILED"}

\* The session that HoldChange opens.
LEMMA HoldChangeOpens ==
  ASSUME NEW w, NEW change \in Change, NEW caller \in Caller,
         NEW then \in Task \union {"idle"}, HoldChange(w, change, caller, then)
  PROVE  \E s \in Session :
           /\ s.change = change /\ s.caller = caller /\ s.then = then
           /\ session[w] = NoSession /\ session' = [session EXCEPT ![w] = s]
           /\ UNCHANGED <<row, verified, lost>>
           /\ raced' = (raced \/ \E v \in Workers :
                          /\ session[v] # NoSession
                          /\ "applicant" \in {s.caller, session[v].caller})
<1> DEFINE s == [change |-> change, caller |-> caller, then |-> then]
<1>1. s \in Session /\ s.change = change /\ s.caller = caller /\ s.then = then
  BY DEF Session
<1>2. /\ session[w] = NoSession /\ session' = [session EXCEPT ![w] = s]
      /\ UNCHANGED <<row, verified, lost>>
      /\ raced' = (raced \/ \E v \in Workers :
                     /\ session[v] # NoSession
                     /\ "applicant" \in {caller, session[v].caller})
  BY DEF HoldChange
<1> HIDE DEF s
<1> QED BY <1>1, <1>2

\* A session changes the columns that its handler sets to another value.
LEMMA ChangesAreDirty ==
  ASSUME TypeOK, NEW new \in Row
  PROVE  /\ Changes(new) \in Change
         /\ Changes(new).form = Dirty(row.form, new.form)
         /\ Changes(new).status = Dirty(row.status, new.status)
         /\ Changes(new).agent_verification_status =
              Dirty(row.agent_verification_status, new.agent_verification_status)
         /\ Changes(new).agent_verification_results =
              Dirty(row.agent_verification_results, new.agent_verification_results)
BY DEF Changes, Change, Dirty, Row

\* A request but for those that need more than that they leave the verdict alone or
\* take it back.
LEMMA RequestOpens ==
  ASSUME TypeOK, NEW w \in Workers, NEW new \in Row, NEW caller \in Caller,
         NEW then \in Task \union {"idle"},
         new.agent_verification_results \in {row.agent_verification_results, Null},
         new.agent_verification_status \in {row.agent_verification_status, "PENDING"},
         new.form # row.form => caller = "applicant",
         caller = "move_to_review" => row.agent_verification_status = "COMPLETED",
         caller = "applicant" =>
           /\ new.agent_verification_status = "PENDING"
           /\ new.agent_verification_results = Null,
         Request(w, new, caller, then)
  PROVE  \E s \in Session : Opens(w, s)
<1> USE KeepAssumption, NullAssumption
<1>1. /\ job[w] = "idle" /\ job' = [job EXCEPT ![w] = "request"]
      /\ HoldChange(w, Changes(new), caller, then)
  BY DEF Request, Hold
<1>2. PICK c \in Change : c = Changes(new)
  BY ChangesAreDirty
<1>3. /\ c.form = Dirty(row.form, new.form)
      /\ c.agent_verification_status =
           Dirty(row.agent_verification_status, new.agent_verification_status)
      /\ c.agent_verification_results =
           Dirty(row.agent_verification_results, new.agent_verification_results)
  BY <1>2, ChangesAreDirty
<1>4. PICK s \in Session :
        /\ s.change = c /\ s.caller = caller /\ s.then = then
        /\ session[w] = NoSession /\ session' = [session EXCEPT ![w] = s]
        /\ UNCHANGED <<row, verified, lost>>
        /\ raced' = (raced \/ \E v \in Workers :
                       /\ session[v] # NoSession
                       /\ "applicant" \in {s.caller, session[v].caller})
  <2>1. HoldChange(w, c, caller, then)
    BY <1>1, <1>2
  <2> QED BY <2>1, HoldChangeOpens
<1>5. job'[w] = "request"
  BY <1>1 DEF TypeOK
<1>6. /\ c.agent_verification_status \in {Keep, "PENDING"}
      /\ c.agent_verification_results \in {Keep, Null}
      /\ c.form # Keep => caller = "applicant"
  BY <1>3 DEF Dirty
<1>7. Fits(s)
  BY <1>4, <1>5, <1>6 DEF Fits
<1>8. caller = "applicant" =>
        /\ Written(row.agent_verification_status, c.agent_verification_status) = "PENDING"
        /\ Written(row.agent_verification_results, c.agent_verification_results) = Null
  BY <1>3 DEF Dirty, Written
<1> QED BY <1>1, <1>4, <1>5, <1>6, <1>7, <1>8 DEF Opens

LEMMA EndpointsOpen ==
  ASSUME TypeOK, NEW w \in Workers, Endpoint(w)
  PROVE  \E s \in Session : Opens(w, s)
<1>r. row \in Row
  BY DEF TypeOK
<1>t. PICK idle \in Task \union {"idle"}, verify \in Task \union {"idle"} :
        idle = "idle" /\ verify = "verify"
  BY DEF Task
<1>c. PICK admin \in Caller, applicant \in Caller, review \in Caller :
        admin = "admin" /\ applicant = "applicant" /\ review = "move_to_review"
  BY DEF Caller
<1>1. ASSUME VerifyApplication(w)
      PROVE  \E s \in Session : Opens(w, s)
  <2>1. PICK new \in Row :
          /\ new.form = row.form
          /\ new.agent_verification_status = "PENDING"
          /\ new.agent_verification_results = Null
          /\ Request(w, new, admin, verify)
    <3>1. Reset(row) \in Row /\ Reset(row).form = row.form
          /\ Reset(row).agent_verification_status = "PENDING"
          /\ Reset(row).agent_verification_results = Null
      BY <1>r DEF Reset, Row
    <3>2. Request(w, Reset(row), admin, verify)
      BY <1>1, <1>t, <1>c DEF VerifyApplication
    <3> QED BY <3>1, <3>2
  <2> QED BY <1>c, <2>1, RequestOpens
<1>2. ASSUME NEW form \in Forms, UpdateApplicationPublic(w, form)
      PROVE  \E s \in Session : Opens(w, s)
  <2> DEFINE reset == [Reset(row) EXCEPT !.form = form, !.status = Reopened(@)]
  <2>1. /\ reset \in Row
        /\ reset.agent_verification_status = "PENDING"
        /\ reset.agent_verification_results = Null
    BY <1>r DEF Reset, Reopened, Row, ScreeningStatus
  <2>2. Request(w, reset, applicant, verify)
    BY <1>2, <1>t, <1>c DEF UpdateApplicationPublic
  <2> HIDE DEF reset
  <2> QED BY <1>c, <2>1, <2>2, RequestOpens
<1>3. ASSUME NEW new, NEW caller \in Caller, NEW to \in ScreeningStatus,
             new = [row EXCEPT !.status = to], Request(w, new, caller, idle),
             caller # "applicant",
             caller = "move_to_review" => row.agent_verification_status = "COMPLETED"
      PROVE  \E s \in Session : Opens(w, s)
  <2>1. /\ new \in Row /\ new.form = row.form
        /\ new.agent_verification_status = row.agent_verification_status
        /\ new.agent_verification_results = row.agent_verification_results
    BY <1>3, <1>r DEF Row
  <2> QED BY <1>3, <2>1, RequestOpens
<1>4. ASSUME UrgeApplicantUpdate(w)
      PROVE  \E s \in Session : Opens(w, s)
  <2>1. PICK to \in ScreeningStatus : to = Reopened(row.status)
    BY <1>r DEF Reopened, Row, ScreeningStatus
  <2>2. Request(w, [row EXCEPT !.status = to], admin, idle)
    BY <1>4, <1>r, <1>t, <1>c, <2>1 DEF UrgeApplicantUpdate, Row
  <2> QED BY <1>3, <1>c, <2>2
<1>5. ASSUME MoveToReview(w)
      PROVE  \E s \in Session : Opens(w, s)
  <2>1. PICK to \in ScreeningStatus : to = "UNDER_REVIEW"
    BY DEF ScreeningStatus
  <2>2. /\ row.agent_verification_status = "COMPLETED"
        /\ Request(w, [row EXCEPT !.status = to], review, idle)
    BY <1>5, <1>t, <1>c, <2>1 DEF MoveToReview
  <2> QED BY <1>3, <1>c, <2>2
<1>6. ASSUME NEW to \in ScreeningStatus, UpdateStatus(w, to)
      PROVE  \E s \in Session : Opens(w, s)
  <2>1. Request(w, [row EXCEPT !.status = to], admin, idle)
    BY <1>6, <1>t, <1>c DEF UpdateStatus
  <2> QED BY <1>3, <1>c, <2>1
<1> QED BY <1>1, <1>2, <1>4, <1>5, <1>6 DEF Endpoint

LEMMA TasksOpen ==
  ASSUME TypeOK, NEW w \in Workers, Agent(w)
  PROVE  \E s \in Session : Opens(w, s)
<1> USE KeepAssumption, NullAssumption, ErrorsAssumption
<1>r. row \in Row
  BY DEF TypeOK
<1>c. PICK agent \in Caller : agent = "agent"
  BY DEF Caller
<1>1. ASSUME NEW change \in Change, NEW then \in Task \union {"idle"},
             HoldChange(w, change, agent, then), job[w] \in Task, job' = job,
             change.form = Keep,
             change.agent_verification_status = "IN_PROGRESS" => then = "judge",
             change.agent_verification_status = "COMPLETED" =>
               /\ change.agent_verification_results \in Verdict
               /\ change.agent_verification_results.finding = "ok",
             change.agent_verification_results \in Verdict =>
               change.agent_verification_results.about = row.form,
             row.agent_verification_status = "IN_PROGRESS"
               /\ job[w] \in {"judge", "record failure"} =>
               change.agent_verification_status \in {"COMPLETED", "FAILED"}
      PROVE  \E s \in Session : Opens(w, s)
  <2>1. PICK s \in Session :
          /\ s.change = change /\ s.caller = agent /\ s.then = then
          /\ session[w] = NoSession /\ session' = [session EXCEPT ![w] = s]
          /\ UNCHANGED <<row, verified, lost>>
          /\ raced' = (raced \/ \E v \in Workers :
                         /\ session[v] # NoSession
                         /\ "applicant" \in {s.caller, session[v].caller})
    <3>1. HoldChange(w, change, agent, then)
      BY <1>1
    <3> QED BY ONLY w \in Workers, <3>1, change \in Change, agent \in Caller,
              then \in Task \union {"idle"}, HoldChangeOpens
  <2>2. Fits(s)
    BY <1>1, <2>1 DEF Fits, Task
  <2> QED BY <1>1, <1>c, <2>1, <2>2 DEF Opens
<1>2. ASSUME MarkInProgress(w)
      PROVE  \E s \in Session : Opens(w, s)
  <2>1. PICK new \in Row, then \in Task \union {"idle"} :
          /\ new.form = row.form /\ then = "judge"
          /\ new.agent_verification_status = "IN_PROGRESS"
          /\ new.agent_verification_results = row.agent_verification_results
          /\ HoldChange(w, Changes(new), agent, then)
    <3>1. [row EXCEPT !.agent_verification_status = "IN_PROGRESS"] \in Row
      BY <1>r DEF Row
    <3>2. "judge" \in Task \union {"idle"}
      BY DEF Task
    <3> QED BY <1>2, <1>r, <1>c, <3>1, <3>2 DEF MarkInProgress, Hold, Row
  <2>2. PICK c \in Change :
          /\ c = Changes(new) /\ c.form = Keep
          /\ c.agent_verification_status \in {Keep, "IN_PROGRESS"}
          /\ c.agent_verification_results = Keep
    BY <2>1, ChangesAreDirty DEF Dirty
  <2>3. job[w] = "verify" /\ job[w] \in Task /\ job' = job
    BY <1>2 DEF MarkInProgress, Task
  <2> QED BY <1>1, <2>1, <2>2, <2>3
<1>3. ASSUME NEW finding \in Finding, Judge(w, finding)
      PROVE  \E s \in Session : Opens(w, s)
  <2> DEFINE verdict == [about |-> row.form, finding |-> finding]
             new == [row EXCEPT
                       !.agent_verification_status = DeriveOverallStatus(finding),
                       !.agent_verification_results = verdict,
                       !.status = Rejected(@, finding)]
             change == [Changes(new) EXCEPT !.agent_verification_results = verdict]
  <2>1. verdict \in Verdict /\ verdict.about = row.form /\ verdict.finding = finding
    BY <1>r DEF Verdict, Row
  <2>2. job[w] = "judge" /\ HoldChange(w, change, agent, "idle") /\ job' = job
    BY <1>3, <1>c DEF Judge
  <2> HIDE DEF verdict
  <2>3. /\ new \in Row /\ new.form = row.form
        /\ new.agent_verification_status = DeriveOverallStatus(finding)
    <3>1. Rejected(row.status, finding) \in ScreeningStatus
      BY <1>r DEF Rejected, Row, ScreeningStatus
    <3>2. DeriveOverallStatus(finding) \in {"COMPLETED", "FAILED"}
      BY DEF DeriveOverallStatus
    <3> QED BY <1>r, <2>1, <3>1, <3>2 DEF Row
  <2> HIDE DEF new
  <2>4. PICK c \in Change :
          /\ c = Changes(new) /\ c.form = Keep
          /\ c.agent_verification_status =
               Dirty(row.agent_verification_status, DeriveOverallStatus(finding))
    BY <2>3, ChangesAreDirty DEF Dirty
  <2>5. /\ change \in Change /\ change.form = Keep
        /\ change.agent_verification_status = c.agent_verification_status
        /\ change.agent_verification_results = verdict
    BY <2>1, <2>4 DEF Change
  <2> HIDE DEF change
  <2>6. /\ change.agent_verification_status \in {Keep, "COMPLETED", "FAILED"}
        /\ change.agent_verification_status = "COMPLETED" => finding = "ok"
        /\ row.agent_verification_status = "IN_PROGRESS" =>
             change.agent_verification_status # Keep
    BY <2>4, <2>5 DEF Dirty, DeriveOverallStatus
  <2>7. PICK idle \in Task \union {"idle"} : idle = "idle"
    OBVIOUS
  <2> QED BY <1>1, <2>1, <2>2, <2>5, <2>6, <2>7 DEF Task
<1>4. ASSUME NEW error \in Errors, RecordFailure(w, error)
      PROVE  \E s \in Session : Opens(w, s)
  <2>1. PICK new \in Row, idle \in Task \union {"idle"} :
          /\ new.form = row.form
          /\ new.agent_verification_status = "FAILED"
          /\ new.agent_verification_results = error
          /\ HoldChange(w, Changes(new), agent, idle)
    <3>1. [row EXCEPT !.agent_verification_status = "FAILED",
                      !.agent_verification_results = error] \in Row
      BY <1>r DEF Row
    <3> QED BY <1>4, <1>r, <1>c, <3>1 DEF RecordFailure, Hold, Row
  <2>2. PICK c \in Change :
          /\ c = Changes(new) /\ c.form = Keep
          /\ c.agent_verification_status \in {Keep, "FAILED"}
          /\ row.agent_verification_status = "IN_PROGRESS" =>
               c.agent_verification_status = "FAILED"
          /\ c.agent_verification_results \notin Verdict
    BY <2>1, ChangesAreDirty DEF Dirty
  <2>3. job[w] \in Task /\ job' = job
    BY <1>4 DEF RecordFailure, Task
  <2> QED BY <1>1, <2>1, <2>2, <2>3
<1> QED BY <1>2, <1>3, <1>4 DEF Agent
-----------------------------------------------------------------------------
(***************************************************************************)
(* The invariant.                                                          *)
(***************************************************************************)
LEMMA IInvInit ==
  ASSUME Init
  PROVE  IInv
<1>1. PICK form \in Forms :
        row = [form |-> form, status |-> "APPLIED",
               agent_verification_status |-> "PENDING",
               agent_verification_results |-> Null]
  BY DEF Init
<1>2. TypeOK
  BY <1>1 DEF Init, TypeOK, Row, ScreeningStatus, Job, Task
<1>3. \A w \in Workers : session[w] = NoSession
  BY DEF Init
<1>4. /\ row.agent_verification_status = "PENDING"
      /\ row.agent_verification_results \notin Verdict
  BY <1>1, NullAssumption
<1> QED BY <1>2, <1>3, <1>4 DEF IInv, SessionInv, RunningInv, AgreementInv,
          VerdictIsAboutForm, CompletedIsVerified

LEMMA IInvOpens ==
  ASSUME IInv, NEW w \in Workers, NEW s \in Session, Opens(w, s)
  PROVE  IInv'
<1>1. /\ session[w] = NoSession /\ session' = [session EXCEPT ![w] = s]
      /\ row' = row /\ verified' = verified /\ lost' = lost
      /\ raced' = (raced \/ \E v \in Workers :
                     /\ session[v] # NoSession
                     /\ "applicant" \in {s.caller, session[v].caller})
      /\ \/ job[w] = "idle" /\ job' = [job EXCEPT ![w] = "request"]
         \/ job[w] \in Task /\ job' = job
      /\ Fits(s)
  BY DEF Opens
<1>2. /\ session'[w] = s /\ s # NoSession
      /\ \A v \in Workers : v # w => session'[v] = session[v] /\ job'[v] = job[v]
      /\ job'[w] = IF job[w] = "idle" THEN "request" ELSE job[w]
  BY <1>1, NoSessionAssumption DEF IInv, TypeOK, Task
<1>3. TypeOK'
  BY <1>1 DEF IInv, TypeOK, Job
<1>4. SessionInv'
  BY <1>1, <1>2 DEF IInv, SessionInv
<1>5. RunningInv'
  <2> SUFFICES ASSUME row.agent_verification_status = "IN_PROGRESS", ~lost
               PROVE  \E v \in Workers : Ender(v)'
    BY <1>1 DEF RunningInv
  <2>1. PICK v \in Workers : Ender(v)
    BY DEF IInv, RunningInv
  <2>2. CASE v # w
    BY <1>2, <2>1, <2>2 DEF Ender
  <2>3. CASE v = w
    <3>1. job'[w] = job[w] /\ job[w] \in {"judge", "record failure"}
      BY <1>2, <2>1, <2>3 DEF Ender
    <3>2. s.change.agent_verification_status \in {"COMPLETED", "FAILED"}
      BY <3>1 DEF Opens
    <3> QED BY <1>2, <3>1, <3>2 DEF Ender
  <2> QED BY <2>2, <2>3
<1>6. AgreementInv'
  <2> SUFFICES ASSUME ~raced', NEW v \in Workers, session'[v] # NoSession
               PROVE  Agrees(session[v])' /\ (session'[v].caller = "applicant" => Alone(v)')
    BY DEF AgreementInv
  <2>1. /\ ~raced
        /\ \A u \in Workers : session[u] # NoSession =>
             s.caller # "applicant" /\ session[u].caller # "applicant"
    BY <1>1
  <2>2. PICK q : q = session'[v]
    OBVIOUS
  <2>3. CASE v = w
    <3>1. Agrees(s)
      BY <2>1 DEF Opens, Agrees, IInv, CompletedIsVerified
    <3>2. s.caller = "applicant" => Alone(w)'
      BY <1>2, <2>1 DEF Alone
    <3> QED BY <1>1, <1>2, <2>2, <2>3, <3>1, <3>2 DEF Agrees
  <2>4. CASE v # w
    <3>1. q = session[v] /\ q # NoSession /\ Agrees(q) /\ q.caller # "applicant"
      BY <1>2, <2>1, <2>2, <2>4 DEF IInv, AgreementInv
    <3> QED BY <1>1, <2>2, <3>1 DEF Agrees
  <2> QED BY <2>3, <2>4
<1>7. VerdictIsAboutForm' /\ CompletedIsVerified'
  BY <1>1 DEF IInv, VerdictIsAboutForm, CompletedIsVerified
<1> QED BY <1>3, <1>4, <1>5, <1>6, <1>7 DEF IInv

\* A worker that drops its session: the agent gives up, or the worker ends.
LEMMA IInvDrops ==
  ASSUME IInv, NEW w \in Workers, GiveUp(w) \/ Fail(w)
  PROVE  IInv'
<1>1. /\ session' = [session EXCEPT ![w] = NoSession]
      /\ row' = row /\ verified' = verified /\ raced' = raced
      /\ \/ /\ job[w] = "judge" /\ job' = [job EXCEPT ![w] = "record failure"]
            /\ lost' = lost
         \/ job' = [job EXCEPT ![w] = "idle"] /\ lost' = (lost \/ job[w] \in Task)
  BY DEF GiveUp, Fail
<1>2. /\ session'[w] = NoSession
      /\ \A v \in Workers : v # w => session'[v] = session[v] /\ job'[v] = job[v]
  BY <1>1 DEF IInv, TypeOK
<1>3. TypeOK'
  BY <1>1 DEF IInv, TypeOK, Job, Task
<1>4. SessionInv'
  BY <1>2 DEF IInv, SessionInv
<1>5. RunningInv'
  <2> SUFFICES ASSUME row.agent_verification_status = "IN_PROGRESS", ~lost'
               PROVE  \E v \in Workers : Ender(v)'
    BY <1>1 DEF RunningInv
  <2>1. PICK v \in Workers : Ender(v)
    BY <1>1 DEF IInv, RunningInv
  <2>2. CASE v # w
    BY <1>2, <2>1, <2>2 DEF Ender
  <2>3. CASE v = w
    <3>1. job' = [job EXCEPT ![w] = "record failure"]
      BY <1>1, <2>1, <2>3 DEF Ender, Task
    <3>2. job'[w] = "record failure"
      BY <3>1 DEF IInv, TypeOK
    <3> QED BY <1>2, <3>2 DEF Ender
  <2> QED BY <2>2, <2>3
<1>6. AgreementInv'
  <2> SUFFICES ASSUME ~raced, NEW v \in Workers, session'[v] # NoSession
               PROVE  Agrees(session[v])' /\ (session'[v].caller = "applicant" => Alone(v)')
    BY <1>1 DEF AgreementInv
  <2>1. PICK q : q = session'[v]
    OBVIOUS
  <2>2. v # w /\ q = session[v] /\ Agrees(q) /\ (q.caller = "applicant" => Alone(v))
    BY <1>2, <2>1 DEF IInv, AgreementInv
  <2>3. Alone(v) => Alone(v)'
    BY <1>2 DEF Alone
  <2> QED BY <1>1, <2>1, <2>2, <2>3 DEF Agrees
<1>7. VerdictIsAboutForm' /\ CompletedIsVerified'
  BY <1>1 DEF IInv, VerdictIsAboutForm, CompletedIsVerified
<1> QED BY <1>3, <1>4, <1>5, <1>6, <1>7 DEF IInv

LEMMA IInvCommit ==
  ASSUME IInv, NEW w \in Workers, Commit(w)
  PROVE  IInv'
<1> USE KeepAssumption, NullAssumption, ErrorsAssumption
<1>1. session[w] # NoSession /\ session[w] \in Session
  BY DEF Commit, IInv, TypeOK
<1>2. PICK s \in Session : s = session[w]
  BY <1>1
<1>3. PICK c \in Change : c = s.change
  BY DEF Session
<1>4. s.then \in Task \union {"idle"} /\ Fits(s)
  BY <1>1, <1>2 DEF Session, IInv, SessionInv
<1>5. /\ row' = [form |-> Written(row.form, c.form),
                 status |-> Written(row.status, c.status),
                 agent_verification_status |->
                   Written(row.agent_verification_status, c.agent_verification_status),
                 agent_verification_results |->
                   Written(row.agent_verification_results, c.agent_verification_results)]
      /\ verified' = verified \union
           {form \in Forms :
              c.agent_verification_results = [about |-> form, finding |-> "ok"]}
      /\ job' = [job EXCEPT ![w] = s.then]
      /\ session' = [session EXCEPT ![w] = NoSession]
      /\ lost' = lost /\ raced' = raced
  BY <1>2, <1>3 DEF Commit
<1>6. /\ row'.form = Written(row.form, c.form)
      /\ row'.agent_verification_status =
           Written(row.agent_verification_status, c.agent_verification_status)
      /\ row'.agent_verification_results =
           Written(row.agent_verification_results, c.agent_verification_results)
  BY <1>5
<1>7. /\ session'[w] = NoSession /\ job'[w] = s.then
      /\ \A v \in Workers : v # w => session'[v] = session[v] /\ job'[v] = job[v]
  BY <1>5 DEF IInv, TypeOK
<1>8. TypeOK'
  <2>1. row' \in Row
    BY <1>5 DEF IInv, TypeOK, Row, Change, Written
  <2>2. s.then \in Job
    BY <1>4 DEF Job
  <2> QED BY <1>5, <2>1, <2>2 DEF IInv, TypeOK
<1>9. SessionInv'
  BY <1>7 DEF IInv, SessionInv
<1>10. RunningInv'
  <2> SUFFICES ASSUME row'.agent_verification_status = "IN_PROGRESS", ~lost
               PROVE  \E v \in Workers : Ender(v)'
    BY <1>5 DEF RunningInv
  <2>1. CASE c.agent_verification_status = Keep
    <3>1. PICK v \in Workers : Ender(v)
      BY <1>6, <2>1 DEF Written, IInv, RunningInv
    <3>2. v # w
      BY <1>1, <1>2, <1>3, <2>1, <3>1 DEF Ender
    <3> QED BY <1>7, <3>1, <3>2 DEF Ender
  <2>2. CASE c.agent_verification_status # Keep
    <3>1. s.then = "judge"
      BY <1>3, <1>4, <1>6, <2>2 DEF Written, Fits
    <3> QED BY <1>7, <3>1 DEF Ender
  <2> QED BY <2>1, <2>2
<1>11. ASSUME ~raced
       PROVE  AgreementInv' /\ VerdictIsAboutForm' /\ CompletedIsVerified'
  <2>1. Agrees(s) /\ (s.caller = "applicant" => Alone(w))
    BY <1>1, <1>2, <1>11 DEF IInv, AgreementInv
  <2>2. s.caller # "applicant" => row'.form = row.form
    BY <1>3, <1>4, <1>6 DEF Fits, Written
  <2>3. verified \subseteq verified'
    BY <1>5
  <2>4. ASSUME NEW v \in Workers, session'[v] # NoSession
        PROVE  Agrees(session[v])' /\ (session'[v].caller = "applicant" => Alone(v)')
    <3>1. PICK q : q = session'[v]
      OBVIOUS
    <3>2. /\ v # w /\ q = session[v] /\ q # NoSession /\ Agrees(q)
          /\ q.caller = "applicant" => Alone(v)
      BY <1>7, <1>11, <2>4, <3>1 DEF IInv, AgreementInv
    <3>3. q.caller # "applicant" /\ s.caller # "applicant"
      BY <1>1, <2>1, <3>2 DEF Alone
    <3> QED BY <2>2, <2>3, <3>1, <3>2, <3>3 DEF Agrees
  <2>5. CASE s.caller = "applicant"
    <3>1. row'.agent_verification_status = "PENDING" /\ row'.agent_verification_results = Null
      BY <1>3, <1>6, <2>1, <2>5 DEF Agrees
    <3> QED BY <2>4, <3>1 DEF AgreementInv, VerdictIsAboutForm, CompletedIsVerified
  <2>6. CASE s.caller # "applicant"
    <3>1. row'.form = row.form /\ row.form \in Forms
      BY <2>2, <2>6 DEF IInv, TypeOK, Row
    <3>2. VerdictIsAboutForm'
      BY <1>3, <1>6, <1>11, <2>1, <3>1
         DEF Agrees, Written, VerdictIsAboutForm, IInv
    <3>3. c.agent_verification_status = "COMPLETED" => row.form \in verified'
      <4> SUFFICES ASSUME c.agent_verification_status = "COMPLETED"
                   PROVE  row.form \in verified'
        OBVIOUS
      <4>1. /\ c.agent_verification_results \in Verdict
            /\ c.agent_verification_results.finding = "ok"
            /\ c.agent_verification_results.about = row.form
        BY <1>3, <1>4, <2>1 DEF Fits, Agrees
      <4>2. c.agent_verification_results = [about |-> row.form, finding |-> "ok"]
        BY <4>1 DEF Verdict
      <4> QED BY <1>5, <3>1, <4>2
    <3>4. CompletedIsVerified'
      BY <1>6, <1>11, <2>3, <3>1, <3>3 DEF Written, CompletedIsVerified, IInv
    <3> QED BY <2>4, <3>2, <3>4 DEF AgreementInv
  <2> QED BY <2>5, <2>6
<1>12. AgreementInv' /\ VerdictIsAboutForm' /\ CompletedIsVerified'
  BY <1>5, <1>11 DEF AgreementInv, VerdictIsAboutForm, CompletedIsVerified
<1> QED BY <1>8, <1>9, <1>10, <1>12 DEF IInv
-----------------------------------------------------------------------------
LEMMA IInvNext ==
  ASSUME IInv, [Next]_vars
  PROVE  IInv'
<1>1. CASE UNCHANGED vars
  <2>1. /\ row' = row /\ job' = job /\ session' = session
        /\ verified' = verified /\ lost' = lost /\ raced' = raced
    BY <1>1 DEF vars
  <2>2. TypeOK' /\ SessionInv' /\ RunningInv'
    BY <2>1 DEF IInv, TypeOK, SessionInv, RunningInv, Ender
  <2>3. AgreementInv' /\ VerdictIsAboutForm' /\ CompletedIsVerified'
    BY <2>1 DEF IInv, AgreementInv, Agrees, Alone, VerdictIsAboutForm, CompletedIsVerified
  <2> QED BY <2>2, <2>3 DEF IInv
<1>2. CASE Next
  <2>1. PICK w \in Workers :
          Endpoint(w) \/ Agent(w) \/ GiveUp(w) \/ Commit(w) \/ Fail(w)
    BY <1>2 DEF Next
  <2>2. TypeOK
    BY DEF IInv
  <2>3. CASE Endpoint(w) \/ Agent(w)
    <3>1. PICK s \in Session : Opens(w, s)
      BY <2>3, <2>2, EndpointsOpen, TasksOpen
    <3> QED BY <3>1, IInvOpens
  <2>4. CASE GiveUp(w) \/ Fail(w)
    BY <2>4, IInvDrops
  <2>5. CASE Commit(w)
    BY <2>5, IInvCommit
  <2> QED BY <2>1, <2>3, <2>4, <2>5
<1> QED BY <1>1, <1>2

\* The inductive invariant, from which the theorems below follow.
THEOREM Invariance == Spec => []IInv
<1>1. Init => IInv
  BY IInvInit
<1>2. IInv /\ [Next]_vars => IInv'
  BY IInvNext
<1> QED BY <1>1, <1>2, PTL DEF Spec

\* Types, with any number of workers and forms: no endpoint and no agent writes to a
\* column what is not a value of it.
THEOREM TypeCorrect == Spec => []TypeOK
<1>1. IInv => TypeOK
  BY DEF IInv
<1> QED BY <1>1, Invariance, PTL

\* run_application_verification: unless a resubmission overlapped another session, the
\* verdict on record is about the form on record, however many agents overlap.
THEOREM VerdictsAreAboutTheForm == Spec => []VerdictIsAboutForm
<1>1. IInv => VerdictIsAboutForm
  BY DEF IInv
<1> QED BY <1>1, Invariance, PTL

\* As long as no task is lost, "IN_PROGRESS" means that a task is alive to end it.
THEOREM InProgressIsAlive == Spec => []InProgressIsWorkedOn
<1>1. IInv => InProgressIsWorkedOn
  BY DEF IInv, RunningInv, Ender, InProgressIsWorkedOn, Task
<1> QED BY <1>1, Invariance, PTL

\* move_to_review: unless a resubmission overlapped another session, it takes nothing to
\* review whose form no agent has found in order, although it tests a row read earlier.
THEOREM ReviewedFormsWereVerified == Spec => ReviewedFormWasVerified
<1>1. IInv /\ [Next]_vars =>
        [\A w \in Workers :
           /\ session[w] # NoSession /\ session'[w] = NoSession
           /\ session[w].caller = "move_to_review"
           /\ row'.status = "UNDER_REVIEW" /\ row.status # "UNDER_REVIEW" /\ ~raced
           => row.form \in verified]_vars
  BY DEF IInv, AgreementInv, Agrees
<1> QED BY <1>1, Invariance, PTL DEF Spec, ReviewedFormWasVerified
=============================================================================
