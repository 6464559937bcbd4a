--------------------------- MODULE LifecycleProofs ---------------------------
(***************************************************************************)
(* Theorems about Lifecycle, for every set of applications and sessions.   *)
(*                                                                         *)
(* The argument for overlapping requests: a session acts on a row that     *)
(* existed when it loaded it, milestones are never taken back and the      *)
(* escalation flag is never cleared, so what a session relied on is still  *)
(* on record when it commits, and the columns that must agree are always   *)
(* written together.                                                       *)
(***************************************************************************)
EXTENDS Lifecycle, TLAPS

\* The moves of status a session may commit.
Edges ==
  VALID_TRANSITIONS \union
  {<<"REJECTED", "APPLIED">>, <<"APPROVED", "AWAITING_PAYMENT">>,
   <<"AWAITING_PAYMENT", "AWAITING_PAYMENT">>, <<"QC_REVIEW", "ESCALATED">>,
   <<"QC_REVIEW", "CANCELLED">>, <<"ESCALATED", "IN_PRODUCTION">>}

\* The milestones a row testifies to.
Passed(r) == Prerequisites(r.status) \union
             (IF r.has_been_escalated THEN {"ESCALATED"} ELSE {})

\* What holds of a session from the moment it opens.
Legal(r) ==
  /\ <<r.loaded.status, r.new.status>> \in Edges
  /\ Leads(r.loaded.status, r.entries, r.new.status)
  /\ Passed(r.new) \subseteq Passed(r.loaded) \union MilestonesOf(r.entries)
  /\ r.loaded.has_been_escalated => r.new.has_been_escalated
  /\ r.new.qc_failure_count # r.loaded.qc_failure_count =>
       r.new.status # r.loaded.status
  /\ r.new.status = "CANCELLED" =>
       /\ r.loaded.has_been_escalated
       /\ r.new.qc_failure_count >= _QC_ESCALATION_THRESHOLD
       /\ r.new.qc_failure_count # r.loaded.qc_failure_count
  /\ FailedCheck(r) => r.new.qc_failure_count = r.loaded.qc_failure_count + 1
  /\ Correction(r) => r.new.qc_failure_count = 0
  /\ r.new.qc_failure_count # r.loaded.qc_failure_count =>
       FailedCheck(r) \/ Correction(r)

\* What a session read stays on record while it is open.
OnRecord(r) ==
  /\ Passed(r.loaded) \subseteq reached[r.app]
  /\ r.loaded.has_been_escalated => row[r.app].has_been_escalated

IInv ==
  /\ TypeOK
  /\ \A s \in Sessions : session[s] # NoRequest =>
       Legal(session[s]) /\ OnRecord(session[s])
  /\ \A a \in Apps :
       /\ Passed(row[a]) \subseteq reached[a]
       /\ row[a].status = "CANCELLED" =>
            /\ row[a].has_been_escalated
            /\ row[a].qc_failure_count >= _QC_ESCALATION_THRESHOLD

\* A count of n is backed by f failed checks, which are counted to the threshold.
Backed(n, f) == n <= f \/ f = _QC_ESCALATION_THRESHOLD

\* Where no failed check met a correction, every count is backed by failed checks
\* since the newest correction: that of the row, and that of an open check; and an
\* open correction will find the count it loaded, or none.
CountsBacked(a) ==
  /\ Backed(row[a].qc_failure_count, failed[a])
  /\ \A s \in Sessions : session[s] # NoRequest /\ session[s].app = a =>
       /\ FailedCheck(session[s]) =>
            Backed(session[s].loaded.qc_failure_count, failed[a])
       /\ Correction(session[s]) =>
            row[a].qc_failure_count \in {0, session[s].loaded.qc_failure_count}
       /\ \A t \in Sessions : session[t] # NoRequest /\ session[t].app = a =>
            ~(FailedCheck(session[s]) /\ Correction(session[t]))

HInv == \A a \in Apps : a \notin mixed => CountsBacked(a)
-----------------------------------------------------------------------------
(***************************************************************************)
(* Facts about the tables.                                                 *)
(***************************************************************************)
\* Edges join statuses, and none leads out of CANCELLED or NONE.
LEMMA EdgesTyped ==
  ASSUME NEW f, NEW t, <<f, t>> \in Edges
  PROVE  /\ f \in Status /\ t \in CustomerApplicationStatus
         /\ f # "CANCELLED" /\ f # "NONE"
BY DEF Edges, VALID_TRANSITIONS, Status, CustomerApplicationStatus

\* An edge asks for no milestone that its source or its own log entry lacks.
LEMMA EdgeMilestones ==
  ASSUME NEW f, NEW t, <<f, t>> \in Edges, t # "CANCELLED"
  PROVE  Prerequisites(t) \subseteq
           Prerequisites(f) \union ({t} \intersect Milestones)
BY DEF Edges, VALID_TRANSITIONS, Prerequisites, Milestones

\* The milestones of a single log entry.
LEMMA OneEntryMilestones ==
  ASSUME NEW f, NEW t
  PROVE  MilestonesOf(<<Entry(f, t)>>) = {t} \intersect Milestones
BY DEF MilestonesOf, Entry

\* A single log entry leads from its source to its target.
LEMMA OneEntryLeads ==
  ASSUME NEW f, NEW t
  PROVE  Leads(f, <<Entry(f, t)>>, t)
BY DEF Leads, Entry
-----------------------------------------------------------------------------
(***************************************************************************)
(* What opening a session does.                                            *)
(***************************************************************************)
\* Session s has just loaded the row of a.
Opened(s, a) ==
  /\ session[s] = NoRequest
  /\ session'[s] \in Request
  /\ session' = [session EXCEPT ![s] = session'[s]]
  /\ session'[s].app = a /\ session'[s].loaded = row[a]
  /\ Legal(session'[s])
  /\ mixed' = IF Mixes(session'[s]) THEN mixed \union {a} ELSE mixed
  /\ UNCHANGED <<row, newest, reached, failed>>

\* A held legal request is an opened session.
LEMMA HoldOpens ==
  ASSUME TypeOK, NEW s \in Sessions, NEW a \in Apps, NEW new, NEW entries,
         Hold(s, a, new, entries),
         [app |-> a, loaded |-> row[a], new |-> new, entries |-> entries] \in Request,
         Legal([app |-> a, loaded |-> row[a], new |-> new, entries |-> entries])
  PROVE  Opened(s, a)
<1> DEFINE r == [app |-> a, loaded |-> row[a], new |-> new, entries |-> entries]
<1>1. r.app = a /\ r.loaded = row[a]
  OBVIOUS
<1>2. /\ session' = [session EXCEPT ![s] = r] /\ session[s] = NoRequest
      /\ mixed' = IF Mixes(r) THEN mixed \union {a} ELSE mixed
      /\ UNCHANGED <<row, newest, reached, failed>>
  BY DEF Hold
<1>3. session'[s] = r
  BY <1>2 DEF TypeOK
<1>4. r \in Request /\ Legal(r)
  OBVIOUS
<1> HIDE DEF r
<1> QED
  BY <1>1, <1>2, <1>3, <1>4 DEF Opened

\* A plain move along an edge opens a legal session.
LEMMA MoveOpens ==
  ASSUME TypeOK, NEW s \in Sessions, NEW a \in Apps, NEW from, NEW to,
         Move(s, a, from, to), <<row[a].status, to>> \in Edges, to # "CANCELLED",
         ~(row[a].status = "ESCALATED" /\ to = "IN_PRODUCTION")
  PROVE  Opened(s, a)
<1> DEFINE new     == WithStatus(row[a], to)
           entries == <<Entry(row[a].status, to)>>
           r == [app |-> a, loaded |-> row[a], new |-> new, entries |-> entries]
<1>1. /\ row[a] \in Row
      /\ row[a].status \in Status /\ to \in CustomerApplicationStatus
  BY EdgesTyped DEF TypeOK, Row
<1>2. /\ new \in Row
      /\ new.status = to
      /\ new.qc_failure_count = row[a].qc_failure_count
      /\ new.has_been_escalated = row[a].has_been_escalated
  BY <1>1 DEF Row, Status, WithStatus
<1>3. entries \in Seq(StateLog)
  BY <1>1 DEF StateLog, Entry
<1>4. r \in Request
  BY <1>1, <1>2, <1>3 DEF Request
<1>7. Passed(new) \subseteq Passed(row[a]) \union MilestonesOf(entries)
  BY <1>2, EdgeMilestones, OneEntryMilestones DEF Passed
<1>8. ~FailedCheck(r) /\ ~Correction(r)
  BY <1>2 DEF FailedCheck, Correction
<1>9. Legal(r)
  BY <1>2, <1>7, <1>8, OneEntryLeads DEF Legal
<1> QED
  BY <1>4, <1>9, HoldOpens DEF Move

\* A failed check opens a legal session.
LEMMA QcFailOpens ==
  ASSUME TypeOK, NEW s \in Sessions, NEW a \in Apps, QcFail(s, a)
  PROVE  Opened(s, a)
<1> DEFINE n == row[a].qc_failure_count + 1
           to == AfterFailure(n, row[a].has_been_escalated)
           new == [status |-> to, qc_failure_count |-> n,
                   has_been_escalated |-> row[a].has_been_escalated]
           entries == <<Entry("QC_REVIEW", to)>>
           r == [app |-> a, loaded |-> row[a], new |-> new, entries |-> entries]
<1>1. /\ row[a] \in Row /\ row[a].status = "QC_REVIEW"
      /\ row[a].qc_failure_count \in 0 .. MaxQcFailures
      /\ row[a].has_been_escalated \in BOOLEAN
      /\ n \in 0 .. MaxQcFailures /\ MaxQcFailures \in Nat
  BY MaxQcFailuresAssumption DEF TypeOK, Row, QcFail
<1>2. /\ to \in {"IN_PRODUCTION", "ESCALATED", "CANCELLED"}
      /\ to = "CANCELLED" => row[a].has_been_escalated
                             /\ n >= _QC_ESCALATION_THRESHOLD
  BY <1>1 DEF AfterFailure, _QC_ESCALATION_THRESHOLD
<1>3. <<row[a].status, to>> \in Edges
  BY <1>1, <1>2 DEF Edges, VALID_TRANSITIONS
<1>4. to \in CustomerApplicationStatus /\ to \in Status
  BY <1>3, EdgesTyped DEF Status
<1>5. /\ new \in Row /\ new.status = to /\ new.qc_failure_count = n
      /\ new.has_been_escalated = row[a].has_been_escalated
  BY <1>1, <1>4 DEF Row
<1>6. r \in Request
  BY <1>1, <1>4, <1>5 DEF Request, StateLog, Entry, Status, CustomerApplicationStatus
<1>9. Passed(new) \subseteq Passed(row[a]) \union MilestonesOf(entries)
  <2>1. CASE to = "CANCELLED"
    BY <2>1, <1>1, <1>2, <1>5 DEF Passed, Prerequisites, Milestones
  <2>2. CASE to # "CANCELLED"
    BY <2>2, <1>1, <1>3, <1>5, EdgeMilestones, OneEntryMilestones DEF Passed
  <2> QED
    BY <2>1, <2>2
<1>10. n # row[a].qc_failure_count /\ to # "QC_REVIEW"
  BY <1>1, <1>2
<1>11. Leads(row[a].status, entries, to)
  BY <1>1, OneEntryLeads
<1>12. FailedCheck(r) /\ ~Correction(r)
  BY <1>1, <1>5, <1>10 DEF FailedCheck, Correction
<1>13. Legal(r)
  BY <1>1, <1>2, <1>3, <1>5, <1>9, <1>10, <1>11, <1>12 DEF Legal
<1> QED
  BY <1>1, <1>6, <1>13, HoldOpens DEF QcFail

\* A manual correction opens a legal session.
LEMMA ManualCorrectionOpens ==
  ASSUME TypeOK, NEW s \in Sessions, NEW a \in Apps, ManualCorrection(s, a)
  PROVE  Opened(s, a)
<1> DEFINE new == [status |-> "IN_PRODUCTION", qc_failure_count |-> 0,
                   has_been_escalated |-> TRUE]
           entries == <<Entry("ESCALATED", "RETRY"), Entry("RETRY", "IN_PRODUCTION")>>
           r == [app |-> a, loaded |-> row[a], new |-> new, entries |-> entries]
<1>1. row[a] \in Row /\ row[a].status = "ESCALATED"
  BY DEF TypeOK, ManualCorrection
<1>2. new \in Row
  BY MaxQcFailuresAssumption DEF Row, Status, CustomerApplicationStatus
<1>3. /\ Entry("ESCALATED", "RETRY") \in StateLog
      /\ Entry("RETRY", "IN_PRODUCTION") \in StateLog
  BY DEF StateLog, Entry, Status, CustomerApplicationStatus
<1>4. r \in Request
  BY <1>1, <1>2, <1>3 DEF Request
<1>7. Passed(new) \subseteq Passed(row[a])
  BY <1>1 DEF Passed, Prerequisites, Milestones
<1>8. Leads(row[a].status, entries, "IN_PRODUCTION")
  BY <1>1 DEF Leads, Entry
<1>9. <<row[a].status, "IN_PRODUCTION">> \in Edges
  BY <1>1 DEF Edges
<1>10. ~FailedCheck(r) /\ Correction(r)
  BY <1>1 DEF FailedCheck, Correction
<1>11. Legal(r)
  BY <1>1, <1>7, <1>8, <1>9, <1>10 DEF Legal
<1> QED
  BY <1>4, <1>11, HoldOpens DEF ManualCorrection

\* So does every operation.
LEMMA OpenOpens ==
  ASSUME TypeOK, NEW s \in Sessions, NEW a \in Apps, Open(s, a)
  PROVE  Opened(s, a)
<1> USE DEF Edges, VALID_TRANSITIONS
<1>1. CASE Screening(s, a)
  <2>1. CASE MoveToReview(s, a)
    BY <2>1, MoveOpens DEF MoveToReview, Move
  <2>2. CASE AutoReject(s, a)
    BY <2>2, MoveOpens DEF AutoReject, Move
  <2>3. CASE Approve(s, a)
    BY <2>3, MoveOpens DEF Approve, Move
  <2>4. CASE Reject(s, a)
    BY <2>4, MoveOpens DEF Reject, Move
  <2>5. CASE UrgeUpdate(s, a)
    BY <2>5, MoveOpens DEF UrgeUpdate, Move
  <2>6. CASE Resubmit(s, a)
    BY <2>6, MoveOpens DEF Resubmit, Move
  <2> QED
    BY <1>1, <2>1, <2>2, <2>3, <2>4, <2>5, <2>6 DEF Screening
<1>2. CASE Sales(s, a)
  <2>1. CASE BookCall(s, a) \/ CalendlyCreated(s, a)
    BY <2>1, MoveOpens DEF BookCall, CalendlyCreated, Move
  <2>2. CASE CalendlyCanceled(s, a)
    BY <2>2, MoveOpens DEF CalendlyCanceled, Move
  <2>3. CASE GeneratePaymentLink(s, a)
    BY <2>3, MoveOpens DEF GeneratePaymentLink, Move
  <2>4. CASE VerifyPayment(s, a) \/ CheckoutCompleted(s, a)
               \/ PaymentIntentSucceeded(s, a)
    BY <2>4, MoveOpens
    DEF VerifyPayment, CheckoutCompleted, PaymentIntentSucceeded, Move
  <2> QED
    BY <1>2, <2>1, <2>2, <2>3, <2>4 DEF Sales
<1>3. CASE Production(s, a)
  <2>1. ASSUME NEW to \in CustomerApplicationStatus, UpdateStatus(s, a, to)
        PROVE  Opened(s, a)
    BY <2>1, MoveOpens DEF UpdateStatus
  <2>2. CASE QcPass(s, a)
    BY <2>2, MoveOpens DEF QcPass, Move
  <2>3. CASE QcFail(s, a)
    BY <2>3, QcFailOpens
  <2>4. CASE ManualCorrection(s, a)
    BY <2>4, ManualCorrectionOpens
  <2> QED
    BY <1>3, <2>1, <2>2, <2>3, <2>4 DEF Production
<1> QED
  BY <1>1, <1>2, <1>3 DEF Open
-----------------------------------------------------------------------------
(***************************************************************************)
(* What committing a session does.                                         *)
(***************************************************************************)
\* The columns of a committed row come from the row or from the session, and a
\* column the session changed comes from the session.
LEMMA MergedRowFacts ==
  ASSUME NEW current \in Row, NEW r \in Request
  PROVE  LET m == MergedRow(current, r) IN
           /\ m \in Row
           /\ m.status \in {current.status, r.new.status}
           /\ m.qc_failure_count =
                IF r.new.qc_failure_count = r.loaded.qc_failure_count
                THEN current.qc_failure_count ELSE r.new.qc_failure_count
           /\ r.new.status # r.loaded.status => m.status = r.new.status
           /\ r.new.status = r.loaded.status => m.status = current.status
           /\ m.has_been_escalated \in
                {current.has_been_escalated, r.new.has_been_escalated}
           /\ r.new.has_been_escalated = r.loaded.has_been_escalated =>
                m.has_been_escalated = current.has_been_escalated
BY DEF MergedRow, Merged, Row, Request

\* The types are right in every reachable state, for any number of
\* applications and of overlapping requests.
THEOREM TypeCorrect == Spec => []TypeOK
<1>1. Init => TypeOK
  BY MaxQcFailuresAssumption DEF Init, TypeOK, Row, Status, _QC_ESCALATION_THRESHOLD
<1>2. TypeOK /\ [Next]_vars => TypeOK'
  <2> SUFFICES ASSUME TypeOK, [Next]_vars PROVE TypeOK'
    OBVIOUS
  <2>1. ASSUME NEW a \in Apps, SubmitApplication(a) PROVE TypeOK'
    <3>1. WithStatus(row[a], "APPLIED") \in Row
      BY DEF TypeOK, Row, WithStatus, Status, CustomerApplicationStatus
    <3>2. Entry("NONE", "APPLIED") \in StateLog
      BY DEF StateLog, Entry, Status, CustomerApplicationStatus
    <3> QED
      BY <2>1, <3>1, <3>2 DEF SubmitApplication, TypeOK
  <2>2. ASSUME NEW s \in Sessions, NEW a \in Apps, Open(s, a) PROVE TypeOK'
    <3>1. Opened(s, a)
      BY <2>2, OpenOpens
    <3>2. mixed' \subseteq Apps
      BY <3>1 DEF Opened, TypeOK
    <3>3. session' \in [Sessions -> Request \union {NoRequest}]
      BY <3>1 DEF Opened, TypeOK
    <3> QED
      BY <3>1, <3>2, <3>3 DEF Opened, TypeOK
  <2>3. ASSUME NEW s \in Sessions, Commit(s) PROVE TypeOK'
    <3>1. session[s] \in Request
      BY <2>3 DEF Commit, TypeOK
    <3>2. /\ session[s].app \in Apps /\ session[s].entries \in Seq(StateLog)
          /\ MilestonesOf(session[s].entries) \subseteq Milestones
      BY <3>1 DEF Request, MilestonesOf
    <3>3. MergedRow(row[session[s].app], session[s]) \in Row
      BY <3>1, <3>2, MergedRowFacts DEF TypeOK
    <3>4. \A n \in 0 .. _QC_ESCALATION_THRESHOLD :
            FailedSince(session[s], n) \in 0 .. _QC_ESCALATION_THRESHOLD
      BY DEF FailedSince, _QC_ESCALATION_THRESHOLD
    <3> QED
      BY <2>3, <3>2, <3>3, <3>4 DEF Commit, TypeOK
  <2>4. ASSUME NEW s \in Sessions, Abort(s) PROVE TypeOK'
    BY <2>4 DEF Abort, TypeOK
  <2>5. CASE UNCHANGED vars
    BY <2>5 DEF vars, TypeOK
  <2> QED
    BY <2>1, <2>2, <2>3, <2>4, <2>5 DEF Next
<1> QED
  BY <1>1, <1>2, PTL DEF Spec
-----------------------------------------------------------------------------
(***************************************************************************)
(* The inductive invariant, whatever the sessions overlap.                 *)
(***************************************************************************)
LEMMA IInvSubmit ==
  ASSUME IInv, TypeOK', NEW a \in Apps, SubmitApplication(a)
  PROVE  IInv'
<1>1. /\ row' = [row EXCEPT ![a] = WithStatus(row[a], "APPLIED")]
      /\ reached' = reached /\ session' = session
      /\ row \in [Apps -> Row] /\ row[a].status = "NONE"
  BY DEF SubmitApplication, IInv, TypeOK
<1>2. /\ row'[a].has_been_escalated = row[a].has_been_escalated
      /\ row'[a].status = "APPLIED"
  BY <1>1 DEF WithStatus
<1>3. Passed(row'[a]) \subseteq Passed(row[a])
  BY <1>1, <1>2 DEF Passed, Prerequisites
<1>4. ASSUME NEW s \in Sessions, session'[s] # NoRequest
      PROVE  (Legal(session[s]) /\ OnRecord(session[s]))'
  BY <1>1, <1>2, <1>4 DEF IInv, OnRecord, TypeOK, Request
<1>5. ASSUME NEW b \in Apps
      PROVE  /\ Passed(row'[b]) \subseteq reached'[b]
             /\ row'[b].status = "CANCELLED" =>
                  /\ row'[b].has_been_escalated
                  /\ row'[b].qc_failure_count >= _QC_ESCALATION_THRESHOLD
  <2>1. CASE b = a
    BY <1>1, <1>2, <1>3, <2>1 DEF IInv
  <2>2. CASE b # a
    BY <1>1, <2>2 DEF IInv
  <2> QED
    BY <2>1, <2>2
<1> QED
  BY <1>4, <1>5 DEF IInv

LEMMA IInvOpened ==
  ASSUME IInv, TypeOK', NEW s \in Sessions, NEW a \in Apps, Opened(s, a)
  PROVE  IInv'
<1>1. row' = row /\ reached' = reached
  BY DEF Opened
<1>2. ASSUME NEW t \in Sessions, session'[t] # NoRequest
      PROVE  (Legal(session[t]) /\ OnRecord(session[t]))'
  <2>1. CASE t = s
    BY <1>1, <2>1 DEF Opened, OnRecord, IInv
  <2>2. CASE t # s
    BY <1>1, <1>2, <2>2 DEF Opened, OnRecord, IInv, TypeOK
  <2> QED
    BY <2>1, <2>2
<1> QED
  BY <1>1, <1>2 DEF IInv

LEMMA IInvCommit ==
  ASSUME IInv, TypeOK', NEW s \in Sessions, Commit(s)
  PROVE  IInv'
<1> DEFINE r == session[s]
           c == row[r.app]
           m == MergedRow(c, r)
<1>1. /\ r \in Request /\ r.app \in Apps /\ c \in Row
      /\ Legal(r) /\ OnRecord(r)
  BY DEF Commit, IInv, TypeOK, Request
<1>2. /\ row' = [row EXCEPT ![r.app] = m]
      /\ reached' = [reached EXCEPT
                       ![r.app] = reached[r.app] \union MilestonesOf(r.entries)]
      /\ session' = [session EXCEPT ![s] = NoRequest]
  BY DEF Commit
<1>3. /\ row'[r.app] = m
      /\ reached'[r.app] = reached[r.app] \union MilestonesOf(r.entries)
      /\ \A b \in Apps : b # r.app => row'[b] = row[b] /\ reached'[b] = reached[b]
      /\ \A b \in Apps : reached[b] \subseteq reached'[b]
  BY <1>1, <1>2 DEF IInv, TypeOK
<1>4. c.has_been_escalated => m.has_been_escalated
  <2>1. c.has_been_escalated \in BOOLEAN /\ r.new.has_been_escalated \in BOOLEAN
        /\ r.loaded.has_been_escalated \in BOOLEAN
    BY <1>1 DEF Row, Request
  <2>2. CASE r.new.has_been_escalated = r.loaded.has_been_escalated
    BY <1>1, <2>2, MergedRowFacts
  <2>3. CASE r.new.has_been_escalated # r.loaded.has_been_escalated
    <3>1. r.new.has_been_escalated
      BY <1>1, <2>1, <2>3 DEF Legal
    <3> QED
      BY <1>1, <3>1, MergedRowFacts
  <2> QED
    BY <2>2, <2>3
<1>5. Passed(m) \subseteq Passed(c) \union Passed(r.new)
  BY <1>1, MergedRowFacts DEF Passed, Row
<1>6. Passed(c) \subseteq reached[r.app]
  BY <1>1 DEF IInv
<1>7. Passed(r.new) \subseteq reached[r.app] \union MilestonesOf(r.entries)
  BY <1>1 DEF Legal, OnRecord
<1>8. ASSUME m.status = "CANCELLED"
      PROVE  /\ m.has_been_escalated
             /\ m.qc_failure_count >= _QC_ESCALATION_THRESHOLD
  <2>1. CASE r.new.status = r.loaded.status
    <3>1. c.status = "CANCELLED" /\ m.qc_failure_count = c.qc_failure_count
      BY <1>1, <1>8, <2>1, MergedRowFacts DEF Legal
    <3> QED
      BY <1>1, <1>4, <3>1 DEF IInv
  <2>2. CASE r.new.status # r.loaded.status
    <3>1. r.new.status = "CANCELLED"
      BY <1>1, <1>8, <2>2, MergedRowFacts
    <3>2. /\ m.qc_failure_count = r.new.qc_failure_count
          /\ c.has_been_escalated
      BY <1>1, <3>1, MergedRowFacts DEF Legal, OnRecord
    <3> QED
      BY <1>1, <1>4, <3>1, <3>2 DEF Legal
  <2> QED
    BY <2>1, <2>2
<1> HIDE DEF m
<1>9. ASSUME NEW t \in Sessions, session'[t] # NoRequest
      PROVE  (Legal(session[t]) /\ OnRecord(session[t]))'
  <2>1. t # s /\ session'[t] = session[t] /\ session[t] \in Request
    BY <1>2, <1>9 DEF IInv, TypeOK
  <2>2. Legal(session[t]) /\ OnRecord(session[t]) /\ session[t].app \in Apps
    BY <1>9, <2>1 DEF IInv, Request
  <2>3. OnRecord(session[t])'
    BY <1>3, <1>4, <2>1, <2>2 DEF OnRecord
  <2> QED
    BY <2>1, <2>2, <2>3
<1>10. ASSUME NEW b \in Apps
       PROVE  /\ Passed(row'[b]) \subseteq reached'[b]
              /\ row'[b].status = "CANCELLED" =>
                   /\ row'[b].has_been_escalated
                   /\ row'[b].qc_failure_count >= _QC_ESCALATION_THRESHOLD
  <2>1. CASE b = r.app
    BY <1>3, <1>5, <1>6, <1>7, <1>8, <2>1
  <2>2. CASE b # r.app
    BY <1>3, <2>2 DEF IInv
  <2> QED
    BY <2>1, <2>2
<1> QED
  BY <1>9, <1>10 DEF IInv

\* What sessions rely on stays on record; the claims below follow.
LEMMA IInvInvariant == Spec => []IInv
<1>1. Init => IInv
  <2> SUFFICES ASSUME Init PROVE IInv
    OBVIOUS
  <2>1. TypeOK
    BY MaxQcFailuresAssumption DEF Init, TypeOK, Row, Status, _QC_ESCALATION_THRESHOLD
  <2>2. \A a \in Apps : Passed(row[a]) = {}
    BY DEF Init, Passed, Prerequisites
  <2> QED
    BY <2>1, <2>2 DEF Init, IInv
<1>2. IInv /\ TypeOK' /\ [Next]_vars => IInv'
  <2> SUFFICES ASSUME IInv, TypeOK', [Next]_vars PROVE IInv'
    OBVIOUS
  <2>1. ASSUME NEW a \in Apps, SubmitApplication(a) PROVE IInv'
    BY <2>1, IInvSubmit
  <2>2. ASSUME NEW s \in Sessions, NEW a \in Apps, Open(s, a) PROVE IInv'
    BY <2>2, OpenOpens, IInvOpened DEF IInv
  <2>3. ASSUME NEW s \in Sessions, Commit(s) PROVE IInv'
    BY <2>3, IInvCommit
  <2>4. ASSUME NEW s \in Sessions, Abort(s) PROVE IInv'
    BY <2>4 DEF Abort, IInv, OnRecord, TypeOK
  <2>5. CASE UNCHANGED vars
    BY <2>5 DEF vars, IInv, OnRecord, TypeOK
  <2> QED
    BY <2>1, <2>2, <2>3, <2>4, <2>5 DEF Next
<1> QED
  BY <1>1, <1>2, TypeCorrect, PTL DEF Spec

-----------------------------------------------------------------------------
(***************************************************************************)
(* The failed checks behind a count.                                       *)
(***************************************************************************)
\* A session cannot be a failed check and a correction at once.
LEMMA CheckOrCorrection ==
  ASSUME NEW r
  PROVE  ~(FailedCheck(r) /\ Correction(r))
BY DEF FailedCheck, Correction

LEMMA HInvOpened ==
  ASSUME IInv, HInv, NEW s \in Sessions, NEW a \in Apps, Opened(s, a)
  PROVE  HInv'
<1> SUFFICES ASSUME NEW b \in Apps, b \notin mixed'
             PROVE  CountsBacked(b)'
  BY DEF HInv
<1>1. /\ row' = row /\ failed' = failed /\ session[s] = NoRequest
      /\ session'[s].app = a /\ session'[s].loaded = row[a]
      /\ \A t \in Sessions : t # s => session'[t] = session[t]
      /\ b \notin mixed /\ (b = a => ~Mixes(session'[s]))
  BY DEF Opened, IInv, TypeOK
<1>2. CountsBacked(b)
  BY <1>1 DEF HInv
<1>3. ASSUME NEW t \in Sessions, session'[t] # NoRequest, session'[t].app = b
      PROVE  /\ FailedCheck(session'[t]) =>
                  Backed(session'[t].loaded.qc_failure_count, failed[b])
             /\ Correction(session'[t]) =>
                  row[b].qc_failure_count \in {0, session'[t].loaded.qc_failure_count}
  <2>1. CASE t = s
    BY <1>1, <1>2, <1>3, <2>1 DEF CountsBacked
  <2>2. CASE t # s
    <3>1. session'[t] = session[t]
      BY <1>1, <2>2
    <3> QED BY <1>2, <1>3, <3>1 DEF CountsBacked
  <2> QED BY <2>1, <2>2
<1>4. ASSUME NEW t \in Sessions, session'[t] # NoRequest, session'[t].app = b,
             NEW u \in Sessions, session'[u] # NoRequest, session'[u].app = b
      PROVE  ~(FailedCheck(session'[t]) /\ Correction(session'[u]))
  <2>1. CASE t = s /\ u = s
    BY <2>1, CheckOrCorrection
  <2>2. CASE t = s /\ u # s
    BY <1>1, <1>4, <2>2 DEF Mixes
  <2>3. CASE t # s /\ u = s
    BY <1>1, <1>4, <2>3 DEF Mixes
  <2>4. CASE t # s /\ u # s
    <3>1. session'[t] = session[t] /\ session'[u] = session[u]
      BY <1>1, <2>4
    <3> QED BY <1>2, <1>4, <3>1 DEF CountsBacked
  <2> QED BY <2>1, <2>2, <2>3, <2>4
<1> QED
  BY <1>1, <1>2, <1>3, <1>4 DEF CountsBacked, FailedCheck, Correction

LEMMA HInvCommit ==
  ASSUME IInv, HInv, NEW s \in Sessions, Commit(s)
  PROVE  HInv'
<1> DEFINE r == session[s]
           m == MergedRow(row[r.app], r)
           f == FailedSince(r, failed[r.app])
<1> SUFFICES ASSUME NEW b \in Apps, b \notin mixed'
             PROVE  CountsBacked(b)'
  BY DEF HInv
<1>1. /\ r \in Request /\ r.app \in Apps /\ Legal(r) /\ r # NoRequest
      /\ row[r.app] \in Row /\ failed[r.app] \in 0 .. _QC_ESCALATION_THRESHOLD
  BY DEF Commit, IInv, TypeOK, Request
<1>2. /\ row' = [row EXCEPT ![r.app] = m]
      /\ failed' = [failed EXCEPT ![r.app] = f]
      /\ session' = [session EXCEPT ![s] = NoRequest] /\ mixed' = mixed
  BY DEF Commit
<1>3. \A t \in Sessions : session'[t] # NoRequest => session'[t] = session[t]
  BY <1>2 DEF IInv, TypeOK
<1>4. CountsBacked(b)
  BY <1>2 DEF HInv
<1>5. CASE b # r.app
  <2>1. row'[b] = row[b] /\ failed'[b] = failed[b]
    BY <1>2, <1>5 DEF IInv, TypeOK
  <2> QED
    BY <1>3, <1>4, <2>1 DEF CountsBacked, FailedCheck, Correction
<1>6. CASE b = r.app
  <2>1. row'[b] = m /\ failed'[b] = f
    BY <1>1, <1>2, <1>6 DEF IInv, TypeOK
  <2>2. /\ m.qc_failure_count =
             IF r.new.qc_failure_count = r.loaded.qc_failure_count
             THEN row[b].qc_failure_count ELSE r.new.qc_failure_count
        /\ row[b].qc_failure_count \in Nat /\ r.loaded.qc_failure_count \in Nat
    <3>1. row[b] \in Row /\ r.loaded \in Row
      BY <1>1, <1>6 DEF Request
    <3>2. /\ row[b].qc_failure_count \in Nat /\ r.loaded.qc_failure_count \in Nat
      BY <3>1, MaxQcFailuresAssumption DEF Row
    <3> HIDE DEF r
    <3>3. m.qc_failure_count =
             IF r.new.qc_failure_count = r.loaded.qc_failure_count
             THEN row[b].qc_failure_count ELSE r.new.qc_failure_count
      BY <1>1, <1>6, MergedRowFacts
    <3> QED
      BY <3>2, <3>3
  <2>3. /\ FailedCheck(r) => Backed(r.loaded.qc_failure_count, failed[b])
        /\ Correction(r) => row[b].qc_failure_count \in {0, r.loaded.qc_failure_count}
        /\ \A t \in Sessions : session[t] # NoRequest /\ session[t].app = b =>
             /\ ~(FailedCheck(r) /\ Correction(session[t]))
             /\ ~(FailedCheck(session[t]) /\ Correction(r))
    BY <1>1, <1>4, <1>6 DEF CountsBacked
  <2>4. /\ FailedCheck(r) => r.new.qc_failure_count = r.loaded.qc_failure_count + 1
        /\ Correction(r) => r.new.qc_failure_count = 0
        /\ r.new.qc_failure_count # r.loaded.qc_failure_count =>
             FailedCheck(r) \/ Correction(r)
    BY <1>1 DEF Legal
  <2>5. ~(FailedCheck(r) /\ Correction(r))
    BY CheckOrCorrection
  <2> HIDE DEF m, f, r
  <2>6. f = FailedSince(r, failed[b]) /\ failed[b] \in 0 .. _QC_ESCALATION_THRESHOLD
    BY <1>1, <1>6 DEF f
  <2>7. CASE Correction(r)
    <3>1. m.qc_failure_count = 0 /\ f = 0
      BY <2>2, <2>3, <2>4, <2>6, <2>7 DEF FailedSince
    <3> QED
      BY <1>3, <2>1, <2>3, <2>7, <3>1
      DEF CountsBacked, FailedCheck, Correction, Backed
  <2>8. CASE FailedCheck(r)
    <3>1. m.qc_failure_count = r.loaded.qc_failure_count + 1
      BY <2>2, <2>4, <2>8
    <3>2. \A n \in Nat : Backed(n, failed[b]) => Backed(n, f) /\ Backed(n + 1, f)
      BY <2>5, <2>6, <2>8 DEF FailedSince, Backed, _QC_ESCALATION_THRESHOLD
    <3>3. Backed(m.qc_failure_count, f)
      BY <2>2, <2>3, <2>8, <3>1, <3>2
    <3>4. ASSUME NEW t \in Sessions, session'[t] # NoRequest, session'[t].app = b
          PROVE  /\ FailedCheck(session'[t]) =>
                      Backed(session'[t].loaded.qc_failure_count, f)
                 /\ ~Correction(session'[t])
      <4>1. session'[t] = session[t] /\ session[t] \in Request
        BY <1>3, <3>4 DEF IInv, TypeOK
      <4>2. session[t].loaded.qc_failure_count \in Nat
        BY <4>1, MaxQcFailuresAssumption DEF Request, Row
      <4> QED
        BY <1>4, <2>3, <2>8, <3>2, <3>4, <4>1, <4>2 DEF CountsBacked
    <3> QED
      BY <2>1, <3>3, <3>4 DEF CountsBacked, FailedCheck, Correction
  <2>9. CASE ~Correction(r) /\ ~FailedCheck(r)
    <3>1. m.qc_failure_count = row[b].qc_failure_count /\ f = failed[b]
      BY <2>2, <2>4, <2>6, <2>9 DEF FailedSince
    <3> QED
      BY <1>3, <1>4, <2>1, <3>1 DEF CountsBacked, FailedCheck, Correction
  <2> QED
    BY <2>7, <2>8, <2>9
<1> QED
  BY <1>5, <1>6

LEMMA HInvInvariant == Spec => []HInv
<1>1. Init => HInv
  BY DEF Init, HInv, CountsBacked, Backed
<1>2. IInv /\ HInv /\ [Next]_vars => HInv'
  <2> SUFFICES ASSUME IInv, HInv, [Next]_vars PROVE HInv'
    OBVIOUS
  <2>1. ASSUME NEW a \in Apps, SubmitApplication(a) PROVE HInv'
    <3>1. /\ session' = session /\ failed' = failed /\ mixed' = mixed
          /\ \A b \in Apps : row'[b].qc_failure_count = row[b].qc_failure_count
      BY <2>1 DEF SubmitApplication, WithStatus, IInv, TypeOK
    <3> QED
      BY <3>1 DEF HInv, CountsBacked, FailedCheck, Correction
  <2>2. ASSUME NEW s \in Sessions, NEW a \in Apps, Open(s, a) PROVE HInv'
    BY <2>2, OpenOpens, HInvOpened DEF IInv
  <2>3. ASSUME NEW s \in Sessions, Commit(s) PROVE HInv'
    BY <2>3, HInvCommit
  <2>4. ASSUME NEW s \in Sessions, Abort(s) PROVE HInv'
    <3>1. /\ row' = row /\ failed' = failed /\ mixed' = mixed
          /\ \A t \in Sessions : session'[t] # NoRequest => session'[t] = session[t]
      BY <2>4 DEF Abort, IInv, TypeOK
    <3> QED
      BY <3>1 DEF HInv, CountsBacked, FailedCheck, Correction
  <2>5. CASE UNCHANGED vars
    BY <2>5 DEF vars, HInv, CountsBacked, FailedCheck, Correction
  <2> QED
    BY <2>1, <2>2, <2>3, <2>4, <2>5 DEF Next
<1> QED
  BY <1>1, <1>2, IInvInvariant, PTL DEF Spec
-----------------------------------------------------------------------------
\* However many requests overlap, a cancelled report has been escalated and corrected
\* by hand; and unless a failed check and a correction of it were open at the same
\* time, three of its checks have failed since the newest correction.
THEOREM CancelledOnlyAfterTwoRounds == Spec => []CancelledAfterTwoRounds
<1>1. IInv /\ HInv => CancelledAfterTwoRounds
  <2> SUFFICES ASSUME IInv, HInv, NEW a \in Apps, row[a].status = "CANCELLED"
               PROVE  /\ row[a].has_been_escalated /\ "ESCALATED" \in reached[a]
                      /\ a \notin mixed => failed[a] = _QC_ESCALATION_THRESHOLD
    BY DEF CancelledAfterTwoRounds
  <2>1. /\ row[a].has_been_escalated
        /\ row[a].qc_failure_count >= _QC_ESCALATION_THRESHOLD
        /\ "ESCALATED" \in reached[a]
    BY DEF IInv, Passed
  <2>2. /\ row[a].qc_failure_count \in Nat
        /\ failed[a] \in 0 .. _QC_ESCALATION_THRESHOLD
    BY MaxQcFailuresAssumption DEF IInv, TypeOK, Row
  <2>3. a \notin mixed => Backed(row[a].qc_failure_count, failed[a])
    BY DEF HInv, CountsBacked
  <2> QED
    BY <2>1, <2>2, <2>3 DEF Backed, _QC_ESCALATION_THRESHOLD
<1> QED
  BY <1>1, IInvInvariant, HInvInvariant, PTL

\* However many requests overlap, no application is in a status whose stages it
\* has not passed on record: none is in production that was never invoiced.
THEOREM StagesAreInOrder == Spec => []StagesInOrder
<1>1. IInv => StagesInOrder
  BY DEF IInv, StagesInOrder, Passed
<1> QED
  BY <1>1, IInvInvariant, PTL
-----------------------------------------------------------------------------
(***************************************************************************)
(* What holds when requests do not overlap: the audit log is complete and  *)
(* the service implements CustomerJourney, for every set of applications.  *)
(* The assumption cannot be dropped: with two sessions TLC refutes         *)
(* EveryTransitionLogged.                                                  *)
(***************************************************************************)
\* One request is served at a time.
OneAtATime == \A s, t \in Sessions : s = t

\* The open session works on the row as it is.
Fresh == \A s \in Sessions : session[s] # NoRequest =>
           session[s].loaded = row[session[s].app]

SInv == IInv /\ Fresh

\* What one step does to the status of application a.
StatusStep(a) ==
  row'[a].status # row[a].status =>
    /\ <<row[a].status, row'[a].status>> \in Edges \union {<<"NONE", "APPLIED">>}
    /\ Leads(row[a].status, newest'[a], row'[a].status)

\* A step of a fresh session changes a status along an edge and logs it.
LEMMA SerialStep ==
  ASSUME OneAtATime, SInv, IInv', [Next]_vars
  PROVE  Fresh' /\ \A a \in Apps : StatusStep(a)
<1> USE DEF SInv
<1>1. ASSUME NEW a \in Apps, SubmitApplication(a)
      PROVE  Fresh' /\ \A b \in Apps : StatusStep(b)
  <2>1. /\ row' = [row EXCEPT ![a] = WithStatus(row[a], "APPLIED")]
        /\ newest' = [newest EXCEPT ![a] = <<Entry("NONE", "APPLIED")>>]
        /\ session' = session /\ row[a].status = "NONE"
        /\ row \in [Apps -> Row] /\ newest \in [Apps -> Seq(StateLog)]
    BY <1>1 DEF SubmitApplication, IInv, TypeOK
  <2>2. row'[a].status = "APPLIED" /\ newest'[a] = <<Entry("NONE", "APPLIED")>>
    BY <2>1 DEF WithStatus
  <2>3. ASSUME NEW s \in Sessions, session[s] # NoRequest
        PROVE  session[s].app \in Apps /\ session[s].app # a
    <3>1. session[s] \in Request /\ Legal(session[s])
      BY <2>3 DEF IInv, TypeOK
    <3>2. session[s].loaded.status # "NONE"
      BY <3>1, EdgesTyped DEF Legal
    <3> QED
      BY <2>1, <2>3, <3>1, <3>2 DEF Fresh, Request
  <2>4. Fresh'
    BY <2>1, <2>3 DEF Fresh
  <2>5. ASSUME NEW b \in Apps PROVE StatusStep(b)
    <3>1. CASE b = a
      BY <2>1, <2>2, <3>1, OneEntryLeads DEF StatusStep
    <3>2. CASE b # a
      BY <2>1, <3>2 DEF StatusStep
    <3> QED
      BY <3>1, <3>2
  <2> QED
    BY <2>4, <2>5
<1>2. ASSUME NEW s \in Sessions, NEW a \in Apps, Open(s, a)
      PROVE  Fresh' /\ \A b \in Apps : StatusStep(b)
  <2>1. Opened(s, a)
    BY <1>2, OpenOpens DEF IInv
  <2>2. Fresh'
    BY <2>1 DEF Opened, Fresh, IInv, TypeOK
  <2> QED
    BY <2>1, <2>2 DEF Opened, StatusStep
<1>3. ASSUME NEW s \in Sessions, Commit(s)
      PROVE  Fresh' /\ \A b \in Apps : StatusStep(b)
  <2> DEFINE r == session[s]
  <2>1. /\ r \in Request /\ r.app \in Apps /\ r # NoRequest
        /\ Legal(r) /\ r.loaded = row[r.app] /\ row[r.app] \in Row
    BY <1>3 DEF Commit, IInv, TypeOK, Request, Fresh
  <2>2. /\ row' = [row EXCEPT ![r.app] = MergedRow(row[r.app], r)]
        /\ newest' = [newest EXCEPT ![r.app] = r.entries]
        /\ session' = [session EXCEPT ![s] = NoRequest]
    BY <1>3 DEF Commit
  <2>3. row'[r.app].status = r.new.status /\ newest'[r.app] = r.entries
    <3>1. MergedRow(row[r.app], r).status = r.new.status
      BY <2>1 DEF MergedRow, Merged
    <3> QED
      BY <2>1, <2>2, <3>1 DEF IInv, TypeOK
  <2>4. Fresh'
    BY <2>2 DEF OneAtATime, Fresh, IInv, TypeOK
  <2>5. ASSUME NEW b \in Apps PROVE StatusStep(b)
    <3>1. CASE b = r.app
      BY <2>1, <2>3, <3>1 DEF Legal, StatusStep
    <3>2. CASE b # r.app
      BY <2>2, <3>2 DEF StatusStep, IInv, TypeOK
    <3> QED
      BY <3>1, <3>2
  <2> QED
    BY <2>4, <2>5
<1>4. ASSUME NEW s \in Sessions, Abort(s)
      PROVE  Fresh' /\ \A b \in Apps : StatusStep(b)
  BY <1>4 DEF Abort, Fresh, StatusStep, IInv, TypeOK
<1>5. CASE UNCHANGED vars
  BY <1>5 DEF vars, Fresh, StatusStep
<1> QED
  BY <1>1, <1>2, <1>3, <1>4, <1>5 DEF Next

\* The open session is always fresh.
LEMMA SInvInvariant ==
  ASSUME OneAtATime
  PROVE  Spec => []SInv
<1>1. Init => Fresh
  BY DEF Init, Fresh
<1>2. SInv /\ IInv' /\ [Next]_vars => Fresh'
  BY SerialStep
<1> QED
  BY <1>1, <1>2, IInvInvariant, PTL DEF Spec, SInv

\* One request at a time, the audit log records every change of status as it
\* happened, without a gap.
THEOREM AuditLogComplete ==
  ASSUME OneAtATime
  PROVE  Spec => EveryTransitionLogged
<1>1. SInv /\ IInv' /\ [Next]_vars =>
        [\A a \in Apps : row'[a].status # row[a].status =>
           Leads(row[a].status, newest'[a], row'[a].status)]_vars
  BY SerialStep DEF StatusStep
<1> QED
  BY <1>1, SInvInvariant, IInvInvariant, PTL DEF Spec, EveryTransitionLogged
-----------------------------------------------------------------------------
\* The stages that follow one another on the journey.
StageEdges ==
  {<<"none", "screening">>, <<"screening", "rejected">>,
   <<"rejected", "screening">>, <<"screening", "sales">>,
   <<"sales", "screening">>, <<"sales", "invoiced">>,
   <<"invoiced", "production">>, <<"production", "delivery">>,
   <<"delivery", "production">>, <<"delivery", "completed">>,
   <<"production", "cancelled">>}

\* A status edge stays in its stage or follows the journey.
LEMMA EdgeStages ==
  ASSUME NEW f, NEW t, <<f, t>> \in Edges \union {<<"NONE", "APPLIED">>}
  PROVE  StageOf(f) = StageOf(t) \/ <<StageOf(f), StageOf(t)>> \in StageEdges
BY DEF Edges, VALID_TRANSITIONS, StageOf, StageEdges

\* A step changes the row of one application at most.
LEMMA OneRowAtATime ==
  ASSUME TypeOK, Next
  PROVE  \E a \in Apps : \A b \in Apps : b # a => row'[b] = row[b]
<1>1. ASSUME NEW a \in Apps, SubmitApplication(a)
      PROVE  \A b \in Apps : b # a => row'[b] = row[b]
  BY <1>1 DEF SubmitApplication, TypeOK
<1>2. ASSUME NEW s \in Sessions, NEW a \in Apps, Open(s, a)
      PROVE  \A b \in Apps : b # a => row'[b] = row[b]
  BY <1>2, OpenOpens DEF Opened
<1>3. ASSUME NEW s \in Sessions, Commit(s)
      PROVE  /\ session[s].app \in Apps
             /\ \A b \in Apps : b # session[s].app => row'[b] = row[b]
  BY <1>3 DEF Commit, TypeOK, Request
<1>4. ASSUME NEW s \in Sessions, Abort(s)
      PROVE  /\ session[s].app \in Apps
             /\ \A b \in Apps : row'[b] = row[b]
  BY <1>4 DEF Abort, TypeOK, Request
<1> QED
  BY <1>1, <1>2, <1>3, <1>4 DEF Next

\* One request at a time, the service implements the customer journey: nothing
\* comes back across the payment gate and a closed journey is over.
THEOREM ImplementsJourney ==
  ASSUME OneAtATime
  PROVE  Spec => KeepsJourney
<1> DEFINE stage == [a \in Apps |-> StageOf(row[a].status)]
<1>1. Init => Journey!Init
  BY DEF Init, Journey!Init, StageOf
<1>2. SInv /\ IInv' /\ [Next]_vars => [Journey!Next]_stage
  <2> SUFFICES ASSUME SInv, IInv', [Next]_vars, stage' # stage
               PROVE  Journey!Next
    OBVIOUS
  <2>1. CASE UNCHANGED vars
    BY <2>1 DEF vars
  <2>2. CASE Next
    <3>1. PICK a \in Apps : \A b \in Apps : b # a => row'[b] = row[b]
      BY <2>2, OneRowAtATime DEF SInv, IInv
    <3>2. StatusStep(a)
      BY SerialStep
    <3> DEFINE f == StageOf(row[a].status)
               t == StageOf(row'[a].status)
    <3>3. stage[a] = f /\ stage'[a] = t /\ stage' = [stage EXCEPT ![a] = t]
      BY <3>1
    <3>4. f # t
      BY <3>1, <3>3
    <3>5. <<f, t>> \in StageEdges
      BY <3>2, <3>4, EdgeStages DEF StatusStep
    <3> HIDE DEF f, t
    <3>6. stage[a] = f /\ stage' = [stage EXCEPT ![a] = t]
      BY <3>3
    <3> HIDE DEF stage
    <3> QED
      BY <3>5, <3>6
      DEF StageEdges, stage, Journey!Next, Journey!Go, Journey!Submit,
          Journey!Reject, Journey!Reopen, Journey!Qualify, Journey!Requalify,
          Journey!Invoice, Journey!Produce, Journey!Deliver, Journey!Rework,
          Journey!Complete, Journey!GiveUp
  <2> QED
    BY <2>1, <2>2
<1> QED
  BY <1>1, <1>2, SInvInvariant, IInvInvariant, PTL
  DEF Spec, KeepsJourney, Journey!Spec
=============================================================================
