------------------------------ MODULE Research ------------------------------
(***************************************************************************)
(* The research on an applicant: a background task reads the website, asks *)
(* a language model and fills columns of the application.  The task uses a *)
(* session for each thing it says of itself (running; finished; failed),   *)
(* and an admin may start another one at any time.                         *)
(*                                                                         *)
(* A worker is a request and, after its response, the task it has added.   *)
(* Left out: the content of the findings but for the recommendation.       *)
(***************************************************************************)
EXTENDS Naturals, UnitOfWork

CONSTANTS
  Firms,          \* the applications
  Workers,
  Keys,           \* how many of OpenAI, Gemini and Anthropic have a key
  NoJob,
  None            \* a column without a value

VARIABLES
  research,       \* the research columns of each application
  worker,         \* what each worker is doing, and the row its session loaded
  overlapped,          \* history: applications with two workers since the last lone retry
  lost            \* history: those a task left by the death of the process or of its database

researchVars == <<research, worker, overlapped, lost>>

Row == [status : {"PENDING", "IN_PROGRESS", "COMPLETED", "FAILED"},
        error : {None, "error"},
        fit : {None, "NEEDS_MORE_INFORMATION", "RECOMMEND"}]

\* request and queued: before and after the commit of the request that adds the task.
Step == {"request", "queued", "start", "load", "ask", "answered", "fail", "failed"}
Job == [firm : Firms, step : Step, loaded : Row, untried : 0..Keys,
        said : {None, "NEEDS_MORE_INFORMATION", "RECOMMEND"}]

ASSUME KeysAssumption == Keys \in Nat
ASSUME NoneAssumption == None \notin {"error", "NEEDS_MORE_INFORMATION", "RECOMMEND"}
ASSUME NoJobAssumption == NoJob \notin Job

NewRow == [status |-> "PENDING", error |-> None, fit |-> None]

\* submit_application has committed the new application and added its first task.
ResearchInit ==
  /\ research = [f \in Firms |-> NewRow]
  /\ \E w \in [Firms -> Workers] :
       /\ \A f, g \in Firms : w[f] = w[g] => f = g
       /\ worker = [x \in Workers |->
            IF \E f \in Firms : w[f] = x
            THEN [firm |-> CHOOSE f \in Firms : w[f] = x, step |-> "queued",
                  loaded |-> NewRow, untried |-> Keys, said |-> None]
            ELSE NoJob]
  /\ overlapped = {} /\ lost = {}
-----------------------------------------------------------------------------
Busy(f) == {w \in Workers : worker[w] # NoJob /\ worker[w].firm = f}
At(w, step) == worker[w] # NoJob /\ worker[w].step = step
Goto(w, step) == worker' = [worker EXCEPT ![w].step = step]
Load(w, step) ==
  worker' = [worker EXCEPT ![w].step = step, ![w].loaded = research[worker[w].firm]]
Done(w) == worker' = [worker EXCEPT ![w] = NoJob]

\* The commit of a session whose handler made new of the row it loaded.
MergedResearch(row, loaded, new) ==
  [status |-> Merged(row.status, loaded.status, new.status),
   error |-> Merged(row.error, loaded.error, new.error),
   fit |-> Merged(row.fit, loaded.fit, new.fit)]

Save(w, new) ==
  research' = [research EXCEPT ![worker[w].firm] = MergedResearch(@, worker[w].loaded, new)]

\* retry_research
RetryResearch(w, f) ==
  /\ worker[w] = NoJob
  /\ worker' = [worker EXCEPT ![w] =
       [firm |-> f, step |-> "request", loaded |-> research[f], untried |-> Keys,
        said |-> None]]
  /\ overlapped' = IF Busy(f) = {} THEN overlapped ELSE overlapped \union {f}
  /\ UNCHANGED <<research, lost>>

CommitRetry(w) ==
  /\ At(w, "request")
  /\ Save(w, [worker[w].loaded EXCEPT !.status = "PENDING", !.error = None])
  /\ Goto(w, "queued")
  /\ lost' = lost \ {worker[w].firm}
  /\ overlapped' = IF Busy(worker[w].firm) = {w} /\ research[worker[w].firm] = worker[w].loaded
              THEN overlapped \ {worker[w].firm} ELSE overlapped

\* run_application_research: the session that says the task runs ...
LoadToMark(w) == At(w, "queued") /\ Load(w, "start") /\ UNCHANGED <<research, overlapped, lost>>

CommitMark(w) ==
  /\ At(w, "start")
  /\ Save(w, [worker[w].loaded EXCEPT !.status = "IN_PROGRESS", !.error = None])
  /\ Goto(w, "load")
  /\ UNCHANGED <<overlapped, lost>>

\* ... the one that stays open while website and language model are asked ...
LoadToAsk(w) == At(w, "load") /\ Load(w, "ask") /\ UNCHANGED <<research, overlapped, lost>>

\* Fault: the loop goes on after the last provider.
ProviderFailsPast(w) ==
  /\ At(w, "ask")
  /\ worker' = [worker EXCEPT ![w].untried = @ - 1]
  /\ UNCHANGED <<research, overlapped, lost>>

\* _call_llm: each provider in turn until one answers with a JSON object.
ProviderFails(w) ==
  /\ At(w, "ask") /\ worker[w].untried # 0
  /\ worker' = [worker EXCEPT ![w].untried = @ - 1]
  /\ UNCHANGED <<research, overlapped, lost>>

ProviderAnswers(w) ==
  /\ At(w, "ask") /\ worker[w].untried # 0
  /\ \E said \in {None, "NEEDS_MORE_INFORMATION", "RECOMMEND"} :
       worker' = [worker EXCEPT ![w].step = "answered", ![w].said = said]
  /\ UNCHANGED <<research, overlapped, lost>>

CommitFindings(w) ==
  /\ At(w, "answered")
  /\ Save(w, [status |-> "COMPLETED", error |-> None, fit |-> worker[w].said])
  /\ Done(w)
  /\ UNCHANGED <<overlapped, lost>>

\* Fault: an exception ends the task without a word.
FailsSilently(w) ==
  /\ At(w, "ask") /\ worker[w].untried = 0
  /\ Done(w)
  /\ UNCHANGED <<research, overlapped, lost>>

\* No provider is left, or has a key; or the session fails, at its load or its commit.
Fails(w) ==
  /\ \/ At(w, "load") \/ At(w, "answered")
     \/ At(w, "ask") /\ worker[w].untried = 0
  /\ Goto(w, "fail")
  /\ UNCHANGED <<research, overlapped, lost>>

\* ... and the one that says it failed.
LoadToFail(w) == At(w, "fail") /\ Load(w, "failed") /\ UNCHANGED <<research, overlapped, lost>>

\* Fault: the recommendation is left as it is.
AfterFailureNoDefault(row) == [row EXCEPT !.status = "FAILED", !.error = "error"]

AfterFailure(row) ==
  [status |-> "FAILED", error |-> "error",
   fit |-> IF row.fit = None THEN "NEEDS_MORE_INFORMATION" ELSE row.fit]

CommitFailure(w) ==
  /\ At(w, "failed")
  /\ Save(w, AfterFailure(worker[w].loaded))
  /\ Done(w)
  /\ UNCHANGED <<overlapped, lost>>
-----------------------------------------------------------------------------
\* A request that fails before its commit has changed nothing.
RefuseRetry(w) == At(w, "request") /\ Done(w) /\ UNCHANGED <<research, overlapped, lost>>

\* The first session is outside the try block, and the last one's own failure is logged:
\* the task ends with the status as it stands.
LoseSession(w) ==
  /\ \E step \in {"queued", "start", "fail", "failed"} : At(w, step)
  /\ Done(w)
  /\ lost' = lost \union {worker[w].firm}
  /\ UNCHANGED <<research, overlapped>>

\* The process dies and with it the tasks, which nothing starts again.
Crash ==
  /\ \E w \in Workers : worker[w] # NoJob
  /\ worker' = [w \in Workers |-> NoJob]
  /\ lost' = lost \union {f \in Firms : Busy(f) # {}}
  /\ UNCHANGED <<research, overlapped>>

\* What a worker does by itself; all it awaits has a timeout.
TaskStep(w) ==
  \/ CommitRetry(w) \/ LoadToMark(w) \/ CommitMark(w) \/ LoadToAsk(w)
  \/ ProviderFails(w) \/ ProviderAnswers(w) \/ CommitFindings(w)
  \/ Fails(w) \/ LoadToFail(w) \/ CommitFailure(w)

ResearchNext ==
  \/ \E w \in Workers, f \in Firms : RetryResearch(w, f)
  \/ \E w \in Workers : TaskStep(w) \/ RefuseRetry(w) \/ LoseSession(w)
  \/ Crash

ResearchSpec ==
  /\ ResearchInit /\ [][ResearchNext]_researchVars
  /\ \A w \in Workers : WF_researchVars(TaskStep(w))
-----------------------------------------------------------------------------
ResearchTypeOK ==
  /\ research \in [Firms -> Row]
  /\ worker \in [Workers -> Job \union {NoJob}]
  /\ overlapped \subseteq Firms /\ lost \subseteq Firms

\* Unless two tasks of it overlapped, what the admin reads of an application agrees: a
\* failed research has its error and a recommendation, any other has no error.
ResearchAgrees ==
  \A f \in Firms \ overlapped :
    IF research[f].status = "FAILED"
    THEN research[f].error # None /\ research[f].fit # None
    ELSE research[f].error = None

\* A research that is pending or running ends, also when several run at once and when
\* every provider fails, unless the process dies or the database fails the first or the
\* last session of a task.
ResearchSettles ==
  \A f \in Firms :
    research[f].status \in {"PENDING", "IN_PROGRESS"}
      ~> research[f].status \in {"COMPLETED", "FAILED"} \/ f \in lost
=============================================================================
