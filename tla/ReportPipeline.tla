--------------------------- MODULE ReportPipeline ---------------------------
(***************************************************************************)
(* From the interview to the scores of one report: the columns of an       *)
(* application that background tasks fill, the endpoints that start the    *)
(* tasks, and the status columns by which both know of each other.         *)
(*                                                                         *)
(* A worker is a request and, after its response, the background task that *)
(* the request has added: both run in one process and die with it.  Each   *)
(* of their database sessions loads the row, decides (a task: after the    *)
(* minutes its language model takes) and commits the columns it changed.   *)
(*                                                                         *)
(* Left out: the approval of the interview's questions, which nothing here *)
(* reads, and the numbers (overall_score, queries_run, rank).              *)
(***************************************************************************)
EXTENDS ChangedColumns

CONSTANTS
  Questions,    \* the questions of the interview
  Lists,        \* non-empty lists of report questions a model may return
  Scores,       \* scoring results, of the pipeline or set by an admin
  Errors,       \* messages stored instead of scoring results
  Null,         \* a column without a value
  EmptyList,
  Workers,
  NoSession

VARIABLES
  row,          \* the application
  job,          \* what each worker is doing
  session,      \* the changes a worker's open session will commit
  lost,         \* history: a background task ended without its last commit
  raced         \* history: two requests to score overlapped

vars == <<row, job, session, lost, raced>>

\* The interview is represented by the questions that have an answer.
Row == [generated_questions : (SUBSET Questions) \union {Null},
        report_questions : Lists \union {Null, EmptyList},
        report_questions_status : {"not_started", "generating", "done", "error"},
        scoring_status : {"not_started", "running", "done", "error"},
        scoring_results : Scores \union Errors \union {Null}]

\* Columns that no UPDATE names keep their value.
Change == [generated_questions : (SUBSET Questions) \union {Null, Keep},
           report_questions : Lists \union {Null, EmptyList, Keep},
           report_questions_status : {"generating", "done", "error", Keep},
           scoring_status : {"running", "done", "error", Keep},
           scoring_results : Scores \union Errors \union {Keep}]

Task == {"questions", "report questions", "report questions, then score", "check", "score"}
ScoringTask == {"report questions, then score", "check", "score"}

Job == {"idle", "request"} \union Task
Session == [change : Change, then : Task \union {"idle"}]

ASSUME QuestionsAssumption == Questions # {}
ASSUME NullAssumption == \A answered \in SUBSET Questions : Null # answered
ASSUME NoSessionAssumption == NoSession \notin Session
ASSUME ResultsAssumption ==
  Scores \intersect Errors = {} /\ Null \notin Scores \union Errors
ASSUME KeepAssumption ==
  /\ Keep \notin Lists \union Scores \union Errors \union {Null, EmptyList}
  /\ \A answered \in SUBSET Questions : Keep # answered
  /\ \A status \in {"generating", "running", "done", "error"} : Keep # status

\* A submitted application; its first background task may still be to run.
Init ==
  /\ row = [generated_questions |-> Null, report_questions |-> Null,
            report_questions_status |-> "not_started",
            scoring_status |-> "not_started", scoring_results |-> Null]
  /\ job \in {f \in [Workers -> {"idle", "questions"}] :
                \A v, w \in Workers : f[v] = "questions" /\ f[w] = "questions" => v = w}
  /\ session = [w \in Workers |-> NoSession]
  /\ lost = FALSE /\ raced = FALSE
-----------------------------------------------------------------------------
Changes(new) ==
  [generated_questions |-> Dirty(row.generated_questions, new.generated_questions),
   report_questions |-> Dirty(row.report_questions, new.report_questions),
   report_questions_status |->
     Dirty(row.report_questions_status, new.report_questions_status),
   scoring_status |-> Dirty(row.scoring_status, new.scoring_status),
   scoring_results |-> Dirty(row.scoring_results, new.scoring_results)]

\* Worker w has loaded the row, will write `new` and go on with `then`.
Hold(w, new, then) ==
  /\ session[w] = NoSession
  /\ session' = [session EXCEPT ![w] = [change |-> Changes(new), then |-> then]]
  /\ UNCHANGED <<row, lost>>

Request(w, new, then) ==
  /\ job[w] = "idle"
  /\ job' = [job EXCEPT ![w] = "request"]
  /\ Hold(w, new, then)

Commit(w) ==
  /\ session[w] # NoSession
  /\ LET c == session[w].change IN
       row' = [generated_questions |->
                 Written(row.generated_questions, c.generated_questions),
               report_questions |-> Written(row.report_questions, c.report_questions),
               report_questions_status |->
                 Written(row.report_questions_status, c.report_questions_status),
               scoring_status |-> Written(row.scoring_status, c.scoring_status),
               scoring_results |-> Written(row.scoring_results, c.scoring_results)]
  /\ job' = [job EXCEPT ![w] = session[w].then]
  /\ session' = [session EXCEPT ![w] = NoSession]
  /\ UNCHANGED <<lost, raced>>

\* A database error, or the death of the process (then of every worker).
Fail(w) ==
  /\ job[w] # "idle"
  /\ job' = [job EXCEPT ![w] = "idle"]
  /\ session' = [session EXCEPT ![w] = NoSession]
  /\ lost' = (lost \/ job[w] \in Task)
  /\ UNCHANGED <<row, raced>>
-----------------------------------------------------------------------------
(***************************************************************************)
(* The endpoints.                                                          *)
(***************************************************************************)
Missing(list) == list \in {Null, EmptyList}

\* Fault: completeness is tested before the answers of this request are merged.
SaveAnswersTestsOld(w, answered) ==
  /\ row.generated_questions # Null
  /\ LET trigger == /\ row.generated_questions = Questions
                    /\ row.report_questions_status \in {"not_started", "error"}
         saved == [row EXCEPT !.generated_questions = answered]
     IN IF trigger
        THEN Request(w, [saved EXCEPT !.report_questions_status = "generating",
                                      !.report_questions = Null], "report questions")
        ELSE Request(w, saved, "idle")
  /\ UNCHANGED raced

\* Saves the answers of some questions (a blank one takes an answer back) as a whole
\* new list, and starts the report questions once every question is answered.
SaveAnswers(w, answered) ==
  /\ row.generated_questions # Null
  /\ LET trigger == /\ answered = Questions
                    /\ row.report_questions_status \in {"not_started", "error"}
         saved == [row EXCEPT !.generated_questions = answered]
     IN IF trigger
        THEN Request(w, [saved EXCEPT !.report_questions_status = "generating",
                                      !.report_questions = Null], "report questions")
        ELSE Request(w, saved, "idle")
  /\ UNCHANGED raced

RegenerateQuestions(w) ==
  /\ Request(w, [row EXCEPT !.generated_questions = Null], "questions")
  /\ UNCHANGED raced

GenerateReportQuestions(w) ==
  /\ row.report_questions_status # "generating"
  /\ Request(w, [row EXCEPT !.report_questions_status = "generating",
                            !.report_questions = Null], "report questions")
  /\ UNCHANGED raced

\* Fault: the status of the scoring is written to that of the questions.
EnterProductionRuns(w) ==
  /\ Request(w, [row EXCEPT !.report_questions_status = "running"],
             "report questions")
  /\ UNCHANGED raced

\* The status endpoint, when it moves the application to IN_PRODUCTION.
EnterProduction(w) ==
  /\ Request(w, [row EXCEPT !.report_questions_status = "generating"],
             "report questions")
  /\ UNCHANGED raced

RaisesRace ==
  \E v \in Workers : job[v] = "request" /\ session[v].then \in ScoringTask

\* Fault: a run is started although one is running.
TriggerGenerateReportAgain(w) ==
  /\ IF Missing(row.report_questions)
     THEN Request(w, [row EXCEPT !.scoring_status = "running",
                                 !.report_questions_status = "generating",
                                 !.report_questions = Null],
                  "report questions, then score")
     ELSE Request(w, [row EXCEPT !.scoring_status = "running"], "score")
  /\ raced' = (raced \/ RaisesRace)

TriggerGenerateReport(w) ==
  /\ row.scoring_status # "running"
  /\ IF Missing(row.report_questions)
     THEN Request(w, [row EXCEPT !.scoring_status = "running",
                                 !.report_questions_status = "generating",
                                 !.report_questions = Null],
                  "report questions, then score")
     ELSE Request(w, [row EXCEPT !.scoring_status = "running"], "score")
  /\ raced' = (raced \/ RaisesRace)

SetScoringData(w, scores) ==
  /\ Request(w, [row EXCEPT !.scoring_results = scores], "idle")
  /\ UNCHANGED raced
-----------------------------------------------------------------------------
(***************************************************************************)
(* The background tasks.                                                   *)
(***************************************************************************)
\* The questions of the bank, unanswered; a failure is logged and no more.
StoreQuestions(w) ==
  /\ job[w] = "questions"
  /\ \/ /\ Hold(w, [row EXCEPT !.generated_questions = {}], "idle")
        /\ UNCHANGED job
     \/ /\ session[w] = NoSession
        /\ job' = [job EXCEPT ![w] = "idle"]
        /\ UNCHANGED <<row, session, lost>>
  /\ UNCHANGED raced

AfterReportQuestions(w) ==
  IF job[w] = "report questions" THEN "idle" ELSE "check"

\* Fault: a failed generation is logged and leaves the status alone.
StoreReportQuestionsLogsOnly(w, list) ==
  /\ job[w] \in {"report questions", "report questions, then score"}
  /\ \/ Hold(w, [row EXCEPT !.report_questions = list,
                            !.report_questions_status = "done"],
             AfterReportQuestions(w))
     \/ Hold(w, row, AfterReportQuestions(w))
  /\ UNCHANGED <<job, raced>>

StoreReportQuestions(w, list) ==
  /\ job[w] \in {"report questions", "report questions, then score"}
  /\ \/ Hold(w, [row EXCEPT !.report_questions = list,
                            !.report_questions_status = "done"],
             AfterReportQuestions(w))
     \/ Hold(w, [row EXCEPT !.report_questions_status = "error"],
             AfterReportQuestions(w))
  /\ UNCHANGED <<job, raced>>

\* Fault: without questions the run just ends.
CheckReturnsEarly(w, error) ==
  /\ job[w] = "check" /\ session[w] = NoSession
  /\ job' = [job EXCEPT ![w] = IF Missing(row.report_questions) THEN "idle" ELSE "score"]
  /\ UNCHANGED <<row, session, lost, raced>>

CheckReportQuestions(w, error) ==
  /\ job[w] = "check" /\ session[w] = NoSession
  /\ IF Missing(row.report_questions)
     THEN /\ Hold(w, [row EXCEPT !.scoring_status = "error",
                                 !.scoring_results = error], "idle")
          /\ UNCHANGED job
     ELSE /\ job' = [job EXCEPT ![w] = "score"]
          /\ UNCHANGED <<row, session, lost>>
  /\ UNCHANGED raced

RunScoringPipeline(w, scores, error) ==
  /\ job[w] = "score"
  /\ \/ /\ ~Missing(row.report_questions)
        /\ Hold(w, [row EXCEPT !.scoring_status = "done",
                               !.scoring_results = scores], "idle")
     \/ Hold(w, [row EXCEPT !.scoring_status = "error",
                            !.scoring_results = error], "idle")
  /\ UNCHANGED <<job, raced>>
-----------------------------------------------------------------------------
Endpoint(w) ==
  \/ \E answered \in SUBSET Questions : SaveAnswers(w, answered)
  \/ RegenerateQuestions(w)
  \/ GenerateReportQuestions(w)
  \/ EnterProduction(w)
  \/ TriggerGenerateReport(w)
  \/ \E scores \in Scores : SetScoringData(w, scores)

Background(w) ==
  \/ StoreQuestions(w)
  \/ \E list \in Lists \union {EmptyList} : StoreReportQuestions(w, list)
  \/ \E error \in Errors : CheckReportQuestions(w, error)
  \/ \E scores \in Scores, error \in Errors : RunScoringPipeline(w, scores, error)

Next == \E w \in Workers : Endpoint(w) \/ Background(w) \/ Commit(w) \/ Fail(w)

\* Every wait of a task, for a model or for the database, ends: at the latest with a
\* timeout, which the task takes for a failure.
Fairness == \A w \in Workers : WF_vars(Background(w)) /\ WF_vars(Commit(w))

Spec == Init /\ [][Next]_vars /\ Fairness
-----------------------------------------------------------------------------
TypeOK ==
  /\ row \in Row
  /\ job \in [Workers -> Job]
  /\ session \in [Workers -> Session \union {NoSession}]
  /\ lost \in BOOLEAN /\ raced \in BOOLEAN

\* A complete interview is never left without a generation of report questions,
\* however the saves of several interviewers and a regeneration overlap.
AnsweredIsTriggered ==
  row.generated_questions = Questions => row.report_questions_status # "not_started"

\* A report whose scoring is "done" has scores and not an error message, unless two
\* requests to score overlapped.
DoneHasScores ==
  row.scoring_status = "done" /\ ~raced => row.scoring_results \in Scores

\* "generating" comes to an end, unless a background task was lost.
GenerationEnds ==
  row.report_questions_status = "generating"
    ~> row.report_questions_status # "generating" \/ lost

\* So does "running".
ScoringEnds == row.scoring_status = "running" ~> row.scoring_status # "running" \/ lost

\* generate-report answers "Scoring pipeline koerer allerede" (is running already) only
\* when it is.
RefusedOnlyWhileRunning ==
  row.scoring_status = "running" => \E w \in Workers : job[w] \in ScoringTask
=============================================================================
