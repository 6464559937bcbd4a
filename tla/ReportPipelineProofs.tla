------------------------ MODULE ReportPipelineProofs ------------------------
(***************************************************************************)
(* ReportPipeline, for any number of workers: types, a complete interview  *)
(* is triggered, a scoring that is done has scores, and "running" means    *)
(* that a run is alive as long as no task is lost.                         *)
(***************************************************************************)
EXTENDS ReportPipeline, TLAPS

\* A run of the scoring, and a request that will start one.
Alive(w) == job[w] \in ScoringTask
Starting(w) == job[w] = "request" /\ session[w].then \in ScoringTask

\* A run whose last commit is still to come, and will be an end of "running".
Writer(w) ==
  /\ Alive(w)
  /\ session[w] # NoSession /\ session[w].then = "idle" =>
       session[w].change.scoring_status \in {"done", "error"}

\* What an open session of a worker in job j may be about to do.
Fits(j, s) ==
  /\ j # "idle"
  /\ s.change.scoring_results \in Errors => j \in {"check", "score"}
  /\ j \in {"check", "score"} =>
       s.then = "idle" /\ s.change.scoring_status # "running"
  /\ j = "report questions, then score" => s.then = "check"
  /\ j = "request" /\ s.then \in ScoringTask => s.change.scoring_status = "running"
  /\ j \in Task /\ s.then # "idle" => s.then = "check" /\ j \in ScoringTask
  /\ s.change.scoring_status # Keep =>
       \/ j \in {"check", "score"}
       \/ j = "request" /\ s.then \in ScoringTask

AnswersFit(s) ==
  s.change.generated_questions = Questions =>
    \/ row.report_questions_status # "not_started"
    \/ s.change.report_questions_status = "generating"

ScoresFit(s) ==
  s.change.scoring_status = "done" =>
    \/ s.change.scoring_results \in Scores
    \/ s.change.scoring_results = Keep /\ row.scoring_results \in Scores

SessionInv ==
  \A w \in Workers : session[w] # NoSession =>
    Fits(job[w], session[w]) /\ AnswersFit(session[w])

JobInv == \A w \in Workers : session[w] = NoSession => job[w] # "request"

RunningInv ==
  row.scoring_status = "running" /\ ~lost => \E w \in Workers : Writer(w)

OneRunInv ==
  ~raced =>
    /\ \A v, w \in Workers :
         (Alive(v) \/ Starting(v)) /\ (Alive(w) \/ Starting(w)) => v = w
    /\ \A w \in Workers : Alive(w) => row.scoring_status = "running"
    /\ \A w \in Workers : session[w] # NoSession => ScoresFit(session[w])

IInv ==
  /\ TypeOK /\ SessionInv /\ JobInv /\ RunningInv /\ OneRunInv
  /\ AnsweredIsTriggered /\ DoneHasScores
-----------------------------------------------------------------------------
(***************************************************************************)
(* What opening a session does, whichever endpoint or task opens it.       *)
(***************************************************************************)
Opens(w, s) ==
  /\ session[w] = NoSession /\ session' = [session EXCEPT ![w] = s]
  /\ UNCHANGED <<row, lost>>
  /\ \/ /\ job[w] = "idle" /\ job' = [job EXCEPT ![w] = "request"]
        /\ s.then \in ScoringTask =>
             row.scoring_status # "running" /\ raced' = (raced \/ RaisesRace)
        /\ s.then \notin ScoringTask => raced' = raced
     \/ job[w] \in Task /\ job' = job /\ raced' = raced
  /\ Fits(job'[w], s) /\ AnswersFit(s) /\ ScoresFit(s)
  /\ row.scoring_status = "running" /\ job'[w] \in {"check", "score"} =>
       s.change.scoring_status \in {"done", "error"}

\* A step of a task that changes nothing but what its worker does next.
Moves(w) ==
  /\ session[w] = NoSession
  /\ UNCHANGED <<row, session, lost, raced>>
  /\ \/ job[w] = "questions" /\ job' = [job EXCEPT ![w] = "idle"]
     \/ job[w] = "check" /\ job' = [job EXCEPT ![w] = "score"]

\* The session that Hold opens.
LEMMA HoldOpens ==
  ASSUME TypeOK, NEW w \in Workers, NEW new \in Row, NEW then \in Task \union {"idle"},
         new.report_questions_status \in {row.report_questions_status, "generating", "done", "error"},
         new.scoring_status \in {row.scoring_status, "running", "done", "error"},
         new.scoring_results \in {row.scoring_results} \union Scores \union Errors,
         Hold(w, new, then)
  PROVE  \E s \in Session :
           /\ session[w] = NoSession /\ session' = [session EXCEPT ![w] = s]
           /\ UNCHANGED <<row, lost>>
           /\ s.then = then
           /\ s.change.generated_questions
                = Dirty(row.generated_questions, new.generated_questions)
           /\ s.change.report_questions_status
                = Dirty(row.report_questions_status, new.report_questions_status)
           /\ s.change.scoring_status = Dirty(row.scoring_status, new.scoring_status)
           /\ s.change.scoring_results = Dirty(row.scoring_results, new.scoring_results)
<1> DEFINE c == Changes(new)
           s == [change |-> c, then |-> then]
<1>1. c \in Change
  <2>1. /\ Dirty(row.generated_questions, new.generated_questions)
             \in (SUBSET Questions) \union {Null, Keep}
        /\ Dirty(row.report_questions, new.report_questions)
             \in Lists \union {Null, EmptyList, Keep}
    BY DEF TypeOK, Row, Dirty
  <2>2. /\ Dirty(row.report_questions_status, new.report_questions_status)
             \in {"generating", "done", "error", Keep}
        /\ Dirty(row.scoring_status, new.scoring_status)
             \in {"running", "done", "error", Keep}
        /\ Dirty(row.scoring_results, new.scoring_results)
             \in Scores \union Errors \union {Keep}
    BY DEF Dirty
  <2> QED BY <2>1, <2>2 DEF Changes, Change
<1>2. /\ c.generated_questions = Dirty(row.generated_questions, new.generated_questions)
      /\ c.report_questions_status
           = Dirty(row.report_questions_status, new.report_questions_status)
      /\ c.scoring_status = Dirty(row.scoring_status, new.scoring_status)
      /\ c.scoring_results = Dirty(row.scoring_results, new.scoring_results)
  BY DEF Changes
<1>3. Hold(w, new, then) => session[w] = NoSession /\ UNCHANGED <<row, lost>>
        /\ session' = [session EXCEPT ![w] = s]
  BY DEF Hold
<1> HIDE DEF c
<1>4. s \in Session /\ s.change = c /\ s.then = then
  BY <1>1 DEF Session
<1> HIDE DEF s
<1> QED BY <1>2, <1>3, <1>4

\* A request that starts no scoring.
LEMMA PlainRequestOpens ==
  ASSUME TypeOK, NEW w \in Workers, NEW new \in Row,
         NEW then \in (Task \union {"idle"}) \ ScoringTask,
         new.generated_questions # Questions \/ row.report_questions_status # "not_started"
           \/ new.report_questions_status = "generating"
           \/ new.generated_questions = row.generated_questions,
         new.report_questions_status \in {row.report_questions_status, "generating"},
         new.scoring_status = row.scoring_status,
         new.scoring_results \in {row.scoring_results} \union Scores,
         Request(w, new, then), raced' = raced
  PROVE  \E s \in Session : Opens(w, s)
<1> USE KeepAssumption, ResultsAssumption
<1>1. /\ job[w] = "idle" /\ job' = [job EXCEPT ![w] = "request"]
      /\ Hold(w, new, then)
  BY DEF Request
<1>2. PICK s \in Session :
        /\ session[w] = NoSession /\ session' = [session EXCEPT ![w] = s]
        /\ UNCHANGED <<row, lost>>
        /\ s.then = then
        /\ s.change.generated_questions
             = Dirty(row.generated_questions, new.generated_questions)
        /\ s.change.report_questions_status
             = Dirty(row.report_questions_status, new.report_questions_status)
        /\ s.change.scoring_status = Dirty(row.scoring_status, new.scoring_status)
        /\ s.change.scoring_results = Dirty(row.scoring_results, new.scoring_results)
  BY <1>1, HoldOpens
<1>3. job'[w] = "request"
  BY <1>1 DEF TypeOK
<1>4. s.change.scoring_status = Keep /\ s.change.scoring_results \notin Errors
  BY <1>2 DEF Dirty
<1>5. Fits(job'[w], s)
  BY <1>2, <1>3, <1>4 DEF Fits, Task, ScoringTask
<1>6. AnswersFit(s)
  <2> SUFFICES ASSUME s.change.generated_questions = Questions
               PROVE  \/ row.report_questions_status # "not_started"
                      \/ s.change.report_questions_status = "generating"
    BY DEF AnswersFit
  <2>1. new.generated_questions = Questions /\ row.generated_questions # Questions
    BY <1>2 DEF Dirty
  <2> QED BY <1>2, <2>1 DEF Dirty
<1>7. ScoresFit(s)
  BY <1>4 DEF ScoresFit
<1> QED BY <1>1, <1>2, <1>3, <1>5, <1>6, <1>7 DEF Opens

\* A request that starts a run of the scoring.
LEMMA StartOpens ==
  ASSUME TypeOK, NEW w \in Workers, NEW new \in Row, NEW then \in ScoringTask,
         row.scoring_status # "running", new.scoring_status = "running",
         new.generated_questions = row.generated_questions,
         new.report_questions_status \in {row.report_questions_status, "generating"},
         new.scoring_results = row.scoring_results,
         Request(w, new, then), raced' = (raced \/ RaisesRace)
  PROVE  \E s \in Session : Opens(w, s)
<1> USE KeepAssumption, ResultsAssumption
<1>1. /\ job[w] = "idle" /\ job' = [job EXCEPT ![w] = "request"]
      /\ Hold(w, new, then) /\ then \in Task \union {"idle"}
  BY DEF Request, Task, ScoringTask
<1>2. PICK s \in Session :
        /\ session[w] = NoSession /\ session' = [session EXCEPT ![w] = s]
        /\ UNCHANGED <<row, lost>>
        /\ s.then = then
        /\ s.change.generated_questions
             = Dirty(row.generated_questions, new.generated_questions)
        /\ s.change.report_questions_status
             = Dirty(row.report_questions_status, new.report_questions_status)
        /\ s.change.scoring_status = Dirty(row.scoring_status, new.scoring_status)
        /\ s.change.scoring_results = Dirty(row.scoring_results, new.scoring_results)
  BY <1>1, HoldOpens
<1>3. job'[w] = "request"
  BY <1>1 DEF TypeOK
<1>4. /\ s.change.scoring_status = "running" /\ s.change.scoring_results = Keep
      /\ s.change.generated_questions = Keep
  BY <1>2 DEF Dirty
<1>5. Fits(job'[w], s)
  BY <1>2, <1>3, <1>4 DEF Fits, Task
<1>6. AnswersFit(s)
  BY <1>4, Questions \in SUBSET Questions DEF AnswersFit
<1>7. ScoresFit(s)
  BY <1>4 DEF ScoresFit
<1> QED BY <1>1, <1>2, <1>3, <1>5, <1>6, <1>7 DEF Opens

\* A task that is about to write.
LEMMA TaskOpens ==
  ASSUME TypeOK, NEW w \in Workers, NEW new \in Row, NEW then \in {"idle", "check"},
         job[w] \in Task, job' = job, raced' = raced,
         new.generated_questions # Questions
           \/ new.generated_questions = row.generated_questions,
         new.report_questions_status \in {row.report_questions_status, "done", "error"},
         \/ /\ job[w] \notin {"check", "score"}
            /\ new.scoring_status = row.scoring_status
            /\ new.scoring_results = row.scoring_results
            /\ then = IF job[w] = "report questions, then score" THEN "check" ELSE "idle"
         \/ /\ job[w] \in {"check", "score"} /\ then = "idle"
            /\ \/ new.scoring_status = "error" /\ new.scoring_results \in Errors
               \/ new.scoring_status = "done" /\ new.scoring_results \in Scores,
         Hold(w, new, then)
  PROVE  \E s \in Session : Opens(w, s)
<1> USE KeepAssumption, ResultsAssumption
<1>1. then \in Task \union {"idle"}
  BY DEF Task
<1>2. PICK s \in Session :
        /\ session[w] = NoSession /\ session' = [session EXCEPT ![w] = s]
        /\ UNCHANGED <<row, lost>>
        /\ s.then = then
        /\ s.change.generated_questions
             = Dirty(row.generated_questions, new.generated_questions)
        /\ s.change.report_questions_status
             = Dirty(row.report_questions_status, new.report_questions_status)
        /\ s.change.scoring_status = Dirty(row.scoring_status, new.scoring_status)
        /\ s.change.scoring_results = Dirty(row.scoring_results, new.scoring_results)
  <2>1. /\ new.report_questions_status
             \in {row.report_questions_status, "generating", "done", "error"}
        /\ new.scoring_status \in {row.scoring_status, "running", "done", "error"}
        /\ new.scoring_results \in {row.scoring_results} \union Scores \union Errors
    OBVIOUS
  <2>2. Hold(w, new, then)
    OBVIOUS
  <2> QED BY ONLY TypeOK, w \in Workers, new \in Row, <1>1, <2>1, <2>2, HoldOpens
<1>3. job'[w] = job[w] /\ job[w] # "idle" /\ job[w] # "request"
  BY DEF Task
<1>4. AnswersFit(s)
  BY <1>2, Questions \in SUBSET Questions DEF AnswersFit, Dirty
<1>5. CASE job[w] \notin {"check", "score"}
  <2>1. s.change.scoring_status = Keep /\ s.change.scoring_results = Keep
    BY <1>2, <1>5 DEF Dirty
  <2>2. Fits(job'[w], s)
    BY <1>2, <1>3, <1>5, <2>1 DEF Fits, ScoringTask
  <2>3. ScoresFit(s)
    BY <2>1 DEF ScoresFit
  <2> QED BY <1>2, <1>3, <1>4, <1>5, <2>2, <2>3 DEF Opens
<1>6. CASE job[w] \in {"check", "score"}
  <2>1. Fits(job'[w], s)
    BY <1>2, <1>3, <1>6 DEF Fits, Dirty
  <2>2. ScoresFit(s)
    BY <1>2, <1>6 DEF ScoresFit, Dirty
  <2>3. row.scoring_status = "running" => s.change.scoring_status \in {"done", "error"}
    BY <1>2, <1>6 DEF Dirty
  <2> QED BY <1>2, <1>3, <1>4, <2>1, <2>2, <2>3 DEF Opens
<1> QED BY <1>5, <1>6

LEMMA EndpointsOpen ==
  ASSUME TypeOK, NEW w \in Workers, Endpoint(w)
  PROVE  \E s \in Session : Opens(w, s)
<1>r. row \in Row
  BY DEF TypeOK
<1>t. PICK idle \in (Task \union {"idle"}) \ ScoringTask,
           questions \in (Task \union {"idle"}) \ ScoringTask,
           report \in (Task \union {"idle"}) \ ScoringTask,
           both \in ScoringTask, score \in ScoringTask :
        /\ idle = "idle" /\ questions = "questions" /\ report = "report questions"
        /\ both = "report questions, then score" /\ score = "score"
  BY DEF Task, ScoringTask
<1>1. ASSUME NEW answered \in SUBSET Questions, SaveAnswers(w, answered)
      PROVE  \E s \in Session : Opens(w, s)
  <2> DEFINE saved == [row EXCEPT !.generated_questions = answered]
             started == [saved EXCEPT !.report_questions_status = "generating",
                                      !.report_questions = Null]
  <2>1. /\ saved \in Row /\ saved.generated_questions = answered
        /\ saved.report_questions_status = row.report_questions_status
        /\ saved.scoring_status = row.scoring_status
        /\ saved.scoring_results = row.scoring_results
    BY <1>r DEF Row
  <2>2. /\ started \in Row
        /\ started.report_questions_status = "generating"
        /\ started.scoring_status = row.scoring_status
        /\ started.scoring_results = row.scoring_results
    BY <1>r DEF Row
  <2>3. /\ raced' = raced
        /\ \/ Request(w, started, report)
           \/ /\ answered = Questions => row.report_questions_status # "not_started"
              /\ Request(w, saved, idle)
    BY <1>1, <1>t DEF SaveAnswers
  <2> HIDE DEF saved, started
  <2>4. CASE Request(w, started, report)
    BY <2>2, <2>3, <2>4, PlainRequestOpens
  <2>5. CASE /\ answered = Questions => row.report_questions_status # "not_started"
             /\ Request(w, saved, idle)
    BY <2>1, <2>3, <2>5, PlainRequestOpens
  <2> QED BY <2>3, <2>4, <2>5
<1>2. ASSUME RegenerateQuestions(w)
      PROVE  \E s \in Session : Opens(w, s)
  <2> DEFINE new == [row EXCEPT !.generated_questions = Null]
  <2>1. /\ new \in Row /\ new.generated_questions = Null
        /\ new.report_questions_status = row.report_questions_status
        /\ new.scoring_status = row.scoring_status
        /\ new.scoring_results = row.scoring_results
    BY <1>r DEF Row
  <2>2. Request(w, new, questions) /\ raced' = raced
    BY <1>2, <1>t DEF RegenerateQuestions
  <2>3. Null # Questions
    BY NullAssumption, Questions \in SUBSET Questions
  <2> HIDE DEF new
  <2> QED BY <2>1, <2>2, <2>3, PlainRequestOpens
<1>3. ASSUME GenerateReportQuestions(w) \/ EnterProduction(w)
      PROVE  \E s \in Session : Opens(w, s)
  <2>1. PICK new \in Row :
          /\ new.generated_questions = row.generated_questions
          /\ new.report_questions_status = "generating"
          /\ new.scoring_status = row.scoring_status
          /\ new.scoring_results = row.scoring_results
          /\ Request(w, new, report) /\ raced' = raced
    <3>1. CASE GenerateReportQuestions(w)
      <4>1. [row EXCEPT !.report_questions_status = "generating",
                        !.report_questions = Null] \in Row
        BY <1>r DEF Row
      <4> QED BY <1>r, <1>t, <3>1, <4>1 DEF GenerateReportQuestions, Row
    <3>2. CASE EnterProduction(w)
      <4>1. [row EXCEPT !.report_questions_status = "generating"] \in Row
        BY <1>r DEF Row
      <4> QED BY <1>r, <1>t, <3>2, <4>1 DEF EnterProduction, Row
    <3> QED BY <1>3, <3>1, <3>2
  <2> QED BY <2>1, PlainRequestOpens
<1>4. ASSUME TriggerGenerateReport(w)
      PROVE  \E s \in Session : Opens(w, s)
  <2>1. PICK new \in Row, then \in ScoringTask :
          /\ row.scoring_status # "running" /\ new.scoring_status = "running"
          /\ new.generated_questions = row.generated_questions
          /\ new.report_questions_status
               \in {row.report_questions_status, "generating"}
          /\ new.scoring_results = row.scoring_results
          /\ Request(w, new, then) /\ raced' = (raced \/ RaisesRace)
    <3>1. CASE Missing(row.report_questions)
      <4>1. [row EXCEPT !.scoring_status = "running",
                        !.report_questions_status = "generating",
                        !.report_questions = Null] \in Row
        BY <1>r DEF Row
      <4> QED BY <1>r, <1>t, <1>4, <3>1, <4>1 DEF TriggerGenerateReport, Row
    <3>2. CASE ~Missing(row.report_questions)
      <4>1. [row EXCEPT !.scoring_status = "running"] \in Row
        BY <1>r DEF Row
      <4> QED BY <1>r, <1>t, <1>4, <3>2, <4>1 DEF TriggerGenerateReport, Row
    <3> QED BY <3>1, <3>2
  <2> QED BY <2>1, StartOpens
<1>5. ASSUME NEW scores \in Scores, SetScoringData(w, scores)
      PROVE  \E s \in Session : Opens(w, s)
  <2> DEFINE new == [row EXCEPT !.scoring_results = scores]
  <2>1. /\ new \in Row /\ new.generated_questions = row.generated_questions
        /\ new.report_questions_status = row.report_questions_status
        /\ new.scoring_status = row.scoring_status
        /\ new.scoring_results = scores
    BY <1>r DEF Row
  <2>2. Request(w, new, idle) /\ raced' = raced
    BY <1>5, <1>t DEF SetScoringData
  <2> HIDE DEF new
  <2> QED BY <2>1, <2>2, PlainRequestOpens
<1> QED BY <1>1, <1>2, <1>3, <1>4, <1>5 DEF Endpoint

LEMMA TasksOpenOrMove ==
  ASSUME TypeOK, NEW w \in Workers, Background(w)
  PROVE  Moves(w) \/ \E s \in Session : Opens(w, s)
<1>r. row \in Row
  BY DEF TypeOK
<1>t. PICK idle \in {"idle", "check"}, check \in {"idle", "check"} :
        idle = "idle" /\ check = "check"
  OBVIOUS
<1>1. ASSUME StoreQuestions(w)
      PROVE  Moves(w) \/ \E s \in Session : Opens(w, s)
  <2>1. CASE Hold(w, [row EXCEPT !.generated_questions = {}], "idle") /\ UNCHANGED job
    <3> DEFINE new == [row EXCEPT !.generated_questions = {}]
    <3>1. /\ new \in Row /\ new.generated_questions = {}
          /\ new.report_questions_status = row.report_questions_status
          /\ new.scoring_status = row.scoring_status
          /\ new.scoring_results = row.scoring_results
      BY <1>r DEF Row
    <3>2. Hold(w, new, idle) /\ job' = job /\ raced' = raced /\ job[w] = "questions"
      BY <1>1, <1>t, <2>1 DEF StoreQuestions
    <3> HIDE DEF new
    <3>3. /\ job[w] \in Task /\ job[w] \notin {"check", "score"}
          /\ idle = IF job[w] = "report questions, then score" THEN "check" ELSE "idle"
          /\ new.generated_questions # Questions
      BY <1>t, <3>1, <3>2, QuestionsAssumption DEF Task
    <3> QED BY <3>1, <3>2, <3>3, TaskOpens
  <2>2. CASE ~(Hold(w, [row EXCEPT !.generated_questions = {}], "idle") /\ UNCHANGED job)
    BY <1>1, <2>2 DEF StoreQuestions, Moves
  <2> QED BY <2>1, <2>2
<1>2. ASSUME NEW list \in Lists \union {EmptyList}, StoreReportQuestions(w, list)
      PROVE  \E s \in Session : Opens(w, s)
  <2> DEFINE done == [row EXCEPT !.report_questions = list,
                                 !.report_questions_status = "done"]
             failed == [row EXCEPT !.report_questions_status = "error"]
  <2>1. \A new \in {done, failed} :
          /\ new \in Row /\ new.generated_questions = row.generated_questions
          /\ new.report_questions_status \in {"done", "error"}
          /\ new.scoring_status = row.scoring_status
          /\ new.scoring_results = row.scoring_results
    <3>1. /\ done \in Row /\ done.generated_questions = row.generated_questions
          /\ done.report_questions_status = "done"
          /\ done.scoring_status = row.scoring_status
          /\ done.scoring_results = row.scoring_results
      BY <1>r DEF Row
    <3>2. /\ failed \in Row /\ failed.generated_questions = row.generated_questions
          /\ failed.report_questions_status = "error"
          /\ failed.scoring_status = row.scoring_status
          /\ failed.scoring_results = row.scoring_results
      BY <1>r DEF Row
    <3> HIDE DEF done, failed
    <3> QED BY ONLY <3>1, <3>2
  <2>2. PICK then \in {"idle", "check"} : then = AfterReportQuestions(w)
    BY DEF AfterReportQuestions
  <2>3. PICK new \in {done, failed} : Hold(w, new, then)
    BY <1>2, <2>2 DEF StoreReportQuestions
  <2> HIDE DEF done, failed
  <2>4. /\ new \in Row /\ new.generated_questions = row.generated_questions
        /\ new.report_questions_status \in {"done", "error"}
        /\ new.scoring_status = row.scoring_status
        /\ new.scoring_results = row.scoring_results
    BY <2>1
  <2>5. /\ job[w] \in Task /\ job[w] \notin {"check", "score"}
        /\ job' = job /\ raced' = raced
        /\ then = IF job[w] = "report questions, then score" THEN "check" ELSE "idle"
    BY <1>2, <2>2 DEF StoreReportQuestions, AfterReportQuestions, Task
  <2> QED BY ONLY TypeOK, w \in Workers, <2>3, <2>4, <2>5, TaskOpens
<1>3. ASSUME NEW error \in Errors, CheckReportQuestions(w, error)
      PROVE  Moves(w) \/ \E s \in Session : Opens(w, s)
  <2>1. CASE Missing(row.report_questions)
    <3> DEFINE new == [row EXCEPT !.scoring_status = "error",
                                  !.scoring_results = error]
    <3>1. /\ new \in Row /\ new.generated_questions = row.generated_questions
          /\ new.report_questions_status = row.report_questions_status
          /\ new.scoring_status = "error" /\ new.scoring_results \in Errors
      BY <1>r DEF Row
    <3>2. /\ Hold(w, new, idle) /\ job' = job /\ raced' = raced
          /\ job[w] \in Task /\ job[w] \in {"check", "score"}
      BY <1>3, <1>t, <2>1 DEF CheckReportQuestions, Task
    <3> HIDE DEF new
    <3> QED BY ONLY TypeOK, w \in Workers, <1>t, <3>1, <3>2, TaskOpens
  <2>2. CASE ~Missing(row.report_questions)
    BY <1>3, <2>2 DEF CheckReportQuestions, Moves
  <2> QED BY <2>1, <2>2
<1>4. ASSUME NEW scores \in Scores, NEW error \in Errors,
             RunScoringPipeline(w, scores, error)
      PROVE  \E s \in Session : Opens(w, s)
  <2> DEFINE done == [row EXCEPT !.scoring_status = "done", !.scoring_results = scores]
             failed == [row EXCEPT !.scoring_status = "error", !.scoring_results = error]
  <2>1. \A new \in {done, failed} :
          /\ new \in Row /\ new.generated_questions = row.generated_questions
          /\ new.report_questions_status = row.report_questions_status
          /\ \/ new.scoring_status = "error" /\ new.scoring_results \in Errors
             \/ new.scoring_status = "done" /\ new.scoring_results \in Scores
    <3>1. /\ done \in Row /\ done.generated_questions = row.generated_questions
          /\ done.report_questions_status = row.report_questions_status
          /\ done.scoring_status = "done" /\ done.scoring_results \in Scores
      BY <1>r DEF Row
    <3>2. /\ failed \in Row /\ failed.generated_questions = row.generated_questions
          /\ failed.report_questions_status = row.report_questions_status
          /\ failed.scoring_status = "error" /\ failed.scoring_results \in Errors
      BY <1>r DEF Row
    <3> HIDE DEF done, failed
    <3> QED BY ONLY <3>1, <3>2
  <2>2. PICK new \in {done, failed} : Hold(w, new, idle)
    BY <1>4, <1>t DEF RunScoringPipeline
  <2> HIDE DEF done, failed
  <2>3. /\ new \in Row /\ new.generated_questions = row.generated_questions
        /\ new.report_questions_status = row.report_questions_status
        /\ \/ new.scoring_status = "error" /\ new.scoring_results \in Errors
           \/ new.scoring_status = "done" /\ new.scoring_results \in Scores
    BY <2>1
  <2>4. /\ job[w] \in Task /\ job[w] \in {"check", "score"}
        /\ job' = job /\ raced' = raced
    BY <1>4 DEF RunScoringPipeline, Task
  <2> QED BY ONLY TypeOK, w \in Workers, <1>t, <2>2, <2>3, <2>4, TaskOpens
<1> QED BY <1>1, <1>2, <1>3, <1>4 DEF Background
-----------------------------------------------------------------------------
(***************************************************************************)
(* The invariant.                                                          *)
(***************************************************************************)
LEMMA IInvInit ==
  ASSUME Init
  PROVE  IInv
<1>1. /\ row.generated_questions = Null /\ row.report_questions_status = "not_started"
      /\ row.scoring_status = "not_started" /\ lost = FALSE /\ raced = FALSE
      /\ \A w \in Workers : session[w] = NoSession /\ job[w] \in {"idle", "questions"}
  BY DEF Init
<1>2. TypeOK
  BY DEF Init, TypeOK, Row, Job, Task
<1>3. Questions # Null
  BY NullAssumption, Questions \in SUBSET Questions
<1>4. /\ SessionInv /\ JobInv /\ RunningInv /\ OneRunInv
      /\ AnsweredIsTriggered /\ DoneHasScores
  BY <1>1, <1>3 DEF SessionInv, JobInv, RunningInv, OneRunInv, Alive, Starting,
       ScoringTask, AnsweredIsTriggered, DoneHasScores
<1> QED BY <1>2, <1>4 DEF IInv

LEMMA IInvOpens ==
  ASSUME IInv, NEW w \in Workers, NEW s \in Session, Opens(w, s)
  PROVE  IInv'
<1>1. /\ session[w] = NoSession /\ session' = [session EXCEPT ![w] = s]
      /\ row' = row /\ lost' = lost
      /\ Fits(job'[w], s) /\ AnswersFit(s) /\ ScoresFit(s)
      /\ \/ /\ job[w] = "idle" /\ job' = [job EXCEPT ![w] = "request"]
            /\ s.then \in ScoringTask =>
                 row.scoring_status # "running" /\ raced' = (raced \/ RaisesRace)
            /\ s.then \notin ScoringTask => raced' = raced
         \/ job[w] \in Task /\ job' = job /\ raced' = raced
  BY DEF Opens
<1>2. /\ session'[w] = s /\ s # NoSession
      /\ \A v \in Workers : v # w => session'[v] = session[v] /\ job'[v] = job[v]
      /\ job'[w] = IF job[w] = "idle" THEN "request" ELSE job[w]
  BY <1>1, NoSessionAssumption DEF IInv, TypeOK, Task
<1>3. TypeOK'
  BY <1>1 DEF IInv, TypeOK, Job, RaisesRace
<1>4. SessionInv'
  <2> SUFFICES ASSUME NEW v \in Workers, session'[v] # NoSession
               PROVE  Fits(job'[v], session'[v]) /\ AnswersFit(session[v])'
    BY DEF SessionInv, Fits
  <2>1. PICK q : q = session'[v]
    OBVIOUS
  <2>2. Fits(job'[v], q) /\ AnswersFit(q)
    BY <1>1, <1>2, <2>1 DEF IInv, SessionInv
  <2> QED BY <1>1, <2>1, <2>2 DEF AnswersFit
<1>5. JobInv'
  BY <1>2 DEF IInv, JobInv
<1>6. RunningInv'
  <2> SUFFICES ASSUME row.scoring_status = "running", ~lost
               PROVE  \E v \in Workers : Writer(v)'
    BY <1>1 DEF RunningInv
  <2>1. PICK v \in Workers : Writer(v)
    BY DEF IInv, RunningInv
  <2>2. CASE v # w
    BY <1>2, <2>1, <2>2 DEF Writer, Alive
  <2>3. CASE v = w
    <3>1. job'[w] = job[w] /\ job[w] \in ScoringTask
      BY <1>2, <2>1, <2>3 DEF Writer, Alive, ScoringTask
    <3>2. s.then = "idle" => job'[w] \in {"check", "score"}
      BY <1>1, <3>1 DEF Fits, ScoringTask
    <3>3. s.then = "idle" => s.change.scoring_status \in {"done", "error"}
      BY <3>2 DEF Opens
    <3> QED BY <1>2, <3>1, <3>3 DEF Writer, Alive
  <2> QED BY <2>2, <2>3
<1>7. ASSUME ~raced' PROVE OneRunInv' /\ ~raced
  <2>1. ~raced
    BY <1>1, <1>7
  <2>2. /\ \A u, v \in Workers :
             (Alive(v) \/ Starting(v)) /\ (Alive(u) \/ Starting(u)) => v = u
        /\ \A v \in Workers : Alive(v) => row.scoring_status = "running"
        /\ \A v \in Workers : session[v] # NoSession => ScoresFit(session[v])
    BY <2>1 DEF IInv, OneRunInv
  <2>3. \A v \in Workers : Alive(v)' => Alive(v)
    BY <1>2 DEF Alive, ScoringTask
  <2>4. \A v \in Workers : v # w => (Starting(v)' => Starting(v))
    BY <1>2 DEF Starting
  <2>5. Starting(w)' => s.then \in ScoringTask /\ job[w] = "idle"
    BY <1>1, <1>2 DEF Starting, Task
  <2>6. s.then \in ScoringTask /\ job[w] = "idle" =>
          \A v \in Workers : ~Alive(v) /\ ~Starting(v)
    BY <1>1, <1>7, <2>2 DEF RaisesRace, Starting, Task
  <2>7. \A u, v \in Workers :
          (Alive(v) \/ Starting(v))' /\ (Alive(u) \/ Starting(u))' => v = u
    BY <2>2, <2>3, <2>4, <2>5, <2>6
  <2>8. ASSUME NEW v \in Workers, session'[v] # NoSession
        PROVE  ScoresFit(session[v])'
    <3>1. PICK q : q = session'[v]
      OBVIOUS
    <3>2. ScoresFit(q)
      BY <1>1, <1>2, <2>2, <2>8, <3>1
    <3> QED BY <1>1, <3>1, <3>2 DEF ScoresFit
  <2> QED BY <1>1, <2>1, <2>2, <2>3, <2>7, <2>8 DEF OneRunInv
<1>8. AnsweredIsTriggered' /\ DoneHasScores'
  BY <1>1, <1>7 DEF IInv, AnsweredIsTriggered, DoneHasScores
<1>9. OneRunInv'
  BY <1>7 DEF OneRunInv
<1> QED BY <1>3, <1>4, <1>5, <1>6, <1>8, <1>9 DEF IInv

LEMMA IInvMoves ==
  ASSUME IInv, NEW w \in Workers, Moves(w)
  PROVE  IInv'
<1>1. /\ session[w] = NoSession
      /\ row' = row /\ session' = session /\ lost' = lost /\ raced' = raced
      /\ \/ job[w] = "questions" /\ job' = [job EXCEPT ![w] = "idle"]
         \/ job[w] = "check" /\ job' = [job EXCEPT ![w] = "score"]
  BY DEF Moves
<1>2. /\ \A v \in Workers : v # w => job'[v] = job[v]
      /\ \/ job[w] = "questions" /\ job'[w] = "idle"
         \/ job[w] = "check" /\ job'[w] = "score"
  <2>1. job \in [Workers -> Job]
    BY DEF IInv, TypeOK
  <2>2. CASE job[w] = "questions" /\ job' = [job EXCEPT ![w] = "idle"]
    BY <2>1, <2>2
  <2>3. CASE job[w] = "check" /\ job' = [job EXCEPT ![w] = "score"]
    BY <2>1, <2>3
  <2> QED BY <1>1, <2>2, <2>3
<1>3. TypeOK'
  BY <1>1 DEF IInv, TypeOK, Job, Task
<1>4. SessionInv'
  <2> SUFFICES ASSUME NEW v \in Workers, session'[v] # NoSession
               PROVE  Fits(job'[v], session'[v]) /\ AnswersFit(session[v])'
    BY DEF SessionInv, Fits
  <2>1. v # w /\ Fits(job[v], session[v]) /\ AnswersFit(session[v])
    BY <1>1 DEF IInv, SessionInv
  <2>2. session'[v] = session[v] /\ job'[v] = job[v]
    BY <1>1, <1>2, <2>1
  <2>3. PICK q : q = session[v]
    OBVIOUS
  <2>4. AnswersFit(q)' <=> AnswersFit(q)
    BY <1>1 DEF AnswersFit
  <2>5. Fits(job'[v], session'[v])
    BY <2>1, <2>2
  <2>6. AnswersFit(session[v])'
    BY <2>1, <2>2, <2>3, <2>4, <1>1 DEF AnswersFit
  <2> QED BY <2>5, <2>6
<1>5. JobInv'
  BY <1>1, <1>2 DEF IInv, JobInv
<1>6. \A v \in Workers : /\ Alive(v)' <=> Alive(v)
                         /\ Starting(v)' <=> Starting(v)
                         /\ Writer(v) => Writer(v)'
  BY <1>1, <1>2 DEF Alive, Starting, Writer, ScoringTask
<1>7. RunningInv'
  BY <1>1, <1>6 DEF IInv, RunningInv
<1>8. OneRunInv'
  BY <1>1, <1>6 DEF IInv, OneRunInv, ScoresFit
<1>9. AnsweredIsTriggered' /\ DoneHasScores'
  BY <1>1 DEF IInv, AnsweredIsTriggered, DoneHasScores
<1> QED BY <1>3, <1>4, <1>5, <1>7, <1>8, <1>9 DEF IInv

LEMMA IInvFail ==
  ASSUME IInv, NEW w \in Workers, Fail(w)
  PROVE  IInv'
<1>1. /\ job' = [job EXCEPT ![w] = "idle"]
      /\ session' = [session EXCEPT ![w] = NoSession]
      /\ lost' = (lost \/ job[w] \in Task) /\ row' = row /\ raced' = raced
  BY DEF Fail
<1>2. /\ session'[w] = NoSession /\ job'[w] = "idle"
      /\ \A v \in Workers : v # w => session'[v] = session[v] /\ job'[v] = job[v]
  BY <1>1 DEF IInv, TypeOK
<1>3. TypeOK'
  BY <1>1 DEF IInv, TypeOK, Job
<1>4. SessionInv'
  <2> SUFFICES ASSUME NEW v \in Workers, session'[v] # NoSession
               PROVE  Fits(job'[v], session'[v]) /\ AnswersFit(session[v])'
    BY DEF SessionInv, Fits
  <2>1. PICK q : q = session'[v]
    OBVIOUS
  <2>2. v # w /\ q = session[v] /\ Fits(job[v], q) /\ AnswersFit(q)
    BY <1>2, <2>1 DEF IInv, SessionInv
  <2> QED BY <1>1, <1>2, <2>1, <2>2 DEF AnswersFit
<1>5. JobInv'
  BY <1>2 DEF IInv, JobInv
<1>6. \A v \in Workers : /\ Alive(v)' => Alive(v)
                         /\ Starting(v)' => Starting(v)
                         /\ Writer(v) /\ v # w => Writer(v)'
  BY <1>2 DEF Alive, Starting, Writer, ScoringTask
<1>7. RunningInv'
  <2> SUFFICES ASSUME row.scoring_status = "running", ~lost'
               PROVE  \E v \in Workers : Writer(v)'
    BY <1>1 DEF RunningInv
  <2>1. PICK v \in Workers : Writer(v)
    BY <1>1 DEF IInv, RunningInv
  <2>2. v # w
    BY <1>1, <2>1 DEF Writer, Alive, ScoringTask, Task
  <2> QED BY <1>6, <2>1, <2>2
<1>8. OneRunInv'
  <2> SUFFICES ASSUME ~raced
               PROVE  \A v \in Workers : session'[v] # NoSession => ScoresFit(session[v])'
    BY <1>1, <1>6 DEF IInv, OneRunInv
  <2> SUFFICES ASSUME NEW v \in Workers, session'[v] # NoSession
               PROVE  ScoresFit(session[v])'
    OBVIOUS
  <2>1. PICK q : q = session'[v]
    OBVIOUS
  <2>2. ScoresFit(q)
    BY <1>2, <2>1 DEF IInv, OneRunInv
  <2> QED BY <1>1, <2>1, <2>2 DEF ScoresFit
<1>9. AnsweredIsTriggered' /\ DoneHasScores'
  BY <1>1 DEF IInv, AnsweredIsTriggered, DoneHasScores
<1> QED BY <1>3, <1>4, <1>5, <1>7, <1>8, <1>9 DEF IInv
\* A commit neither wakes a worker as a run that was none nor takes back a trigger.
LEMMA IInvCommit ==
  ASSUME IInv, NEW w \in Workers, Commit(w)
  PROVE  IInv'
<1> USE KeepAssumption, ResultsAssumption
<1>1. session[w] # NoSession /\ session[w] \in Session
  BY DEF Commit, IInv, TypeOK
<1>2. PICK s \in Session : s = session[w]
  BY <1>1
<1>3. /\ s.change \in Change /\ s.then \in Task \union {"idle"}
      /\ Fits(job[w], s) /\ AnswersFit(s) /\ job[w] \in Job
  BY <1>1, <1>2 DEF Session, IInv, SessionInv, TypeOK
<1>4. PICK c \in Change : c = s.change
  BY <1>3
<1>5. row' = [generated_questions |-> Written(row.generated_questions, c.generated_questions),
              report_questions |-> Written(row.report_questions, c.report_questions),
              report_questions_status |->
                Written(row.report_questions_status, c.report_questions_status),
              scoring_status |-> Written(row.scoring_status, c.scoring_status),
              scoring_results |-> Written(row.scoring_results, c.scoring_results)]
  BY <1>2, <1>4 DEF Commit
<1>6. /\ row'.generated_questions = Written(row.generated_questions, c.generated_questions)
      /\ row'.report_questions_status
           = Written(row.report_questions_status, c.report_questions_status)
      /\ row'.scoring_status = Written(row.scoring_status, c.scoring_status)
      /\ row'.scoring_results = Written(row.scoring_results, c.scoring_results)
  BY <1>5
<1>7. /\ job' = [job EXCEPT ![w] = s.then]
      /\ session' = [session EXCEPT ![w] = NoSession]
      /\ lost' = lost /\ raced' = raced
  BY <1>2 DEF Commit
<1>8. /\ session'[w] = NoSession /\ job'[w] = s.then
      /\ \A v \in Workers : v # w => session'[v] = session[v] /\ job'[v] = job[v]
  BY <1>7 DEF IInv, TypeOK
<1>9. /\ c.generated_questions \in (SUBSET Questions) \union {Null, Keep}
      /\ c.report_questions \in Lists \union {Null, EmptyList, Keep}
      /\ c.report_questions_status \in {"generating", "done", "error", Keep}
      /\ c.scoring_status \in {"running", "done", "error", Keep}
      /\ c.scoring_results \in Scores \union Errors \union {Keep}
  BY DEF Change
<1>10. row.report_questions_status # "not_started" =>
         row'.report_questions_status # "not_started"
  BY <1>6, <1>9 DEF Written
<1>11. TypeOK'
  <2>1. row' \in Row
    BY <1>5, <1>9 DEF IInv, TypeOK, Row, Written
  <2>2. s.then \in Job
    BY <1>3 DEF Job
  <2> QED BY <1>7, <2>1, <2>2 DEF IInv, TypeOK
<1>12. SessionInv'
  <2> SUFFICES ASSUME NEW v \in Workers, session'[v] # NoSession
               PROVE  Fits(job'[v], session'[v]) /\ AnswersFit(session[v])'
    BY DEF SessionInv, Fits
  <2>1. PICK q : q = session'[v]
    OBVIOUS
  <2>2. v # w /\ q = session[v] /\ Fits(job[v], q) /\ AnswersFit(q)
    BY <1>8, <2>1 DEF IInv, SessionInv
  <2> QED BY <1>8, <1>10, <2>1, <2>2 DEF AnswersFit
<1>13. JobInv'
  BY <1>3, <1>8 DEF IInv, JobInv, Task
<1>14. AnsweredIsTriggered'
  <2> SUFFICES ASSUME row'.generated_questions = Questions
               PROVE  row'.report_questions_status # "not_started"
    BY DEF AnsweredIsTriggered
  <2>1. CASE c.generated_questions = Keep
    BY <1>6, <1>10, <2>1 DEF Written, IInv, AnsweredIsTriggered
  <2>2. CASE c.generated_questions = Questions
    BY <1>3, <1>4, <1>6, <1>10, <2>2 DEF Written, AnswersFit
  <2> QED BY <1>6, <2>1, <2>2 DEF Written
<1>15. RunningInv'
  <2> SUFFICES ASSUME row'.scoring_status = "running", ~lost
               PROVE  \E v \in Workers : Writer(v)'
    BY <1>7 DEF RunningInv
  <2>1. job'[w] \in ScoringTask => Writer(w)'
    BY <1>8 DEF Writer, Alive
  <2>2. CASE c.scoring_status = Keep
    <3>1. PICK v \in Workers : Writer(v)
      BY <1>6, <2>2 DEF Written, IInv, RunningInv
    <3>2. CASE v = w
      <4>1. job[w] \in ScoringTask /\ s.then # "idle"
        BY <1>1, <1>2, <1>4, <2>2, <3>1, <3>2 DEF Writer, Alive
      <4>2. s.then = "check"
        BY <1>3, <4>1 DEF Fits, Task, ScoringTask
      <4> QED BY <1>8, <2>1, <4>2 DEF ScoringTask
    <3>3. CASE v # w
      BY <1>8, <3>1, <3>3 DEF Writer, Alive
    <3> QED BY <3>2, <3>3
  <2>3. CASE c.scoring_status # Keep
    <3>1. c.scoring_status = "running"
      BY <1>6, <2>3 DEF Written
    <3>2. s.then \in ScoringTask
      BY <1>3, <1>4, <2>3, <3>1 DEF Fits
    <3> QED BY <1>8, <2>1, <3>2
  <2> QED BY <2>2, <2>3
<1>16. ASSUME ~raced PROVE OneRunInv' /\ DoneHasScores'
  <2>1. /\ \A u, v \in Workers :
             (Alive(v) \/ Starting(v)) /\ (Alive(u) \/ Starting(u)) => v = u
        /\ \A v \in Workers : Alive(v) => row.scoring_status = "running"
        /\ \A v \in Workers : session[v] # NoSession => ScoresFit(session[v])
    BY <1>16 DEF IInv, OneRunInv
  <2>2. s.then \in ScoringTask /\ job[w] # "request" => Alive(w) /\ c.scoring_status = Keep
    BY <1>3, <1>4 DEF Fits, Job, ScoringTask, Alive
  <2>3. s.then \in ScoringTask /\ job[w] = "request" =>
          Starting(w) /\ c.scoring_status = "running"
    BY <1>2, <1>3, <1>4 DEF Fits, Starting
  <2>4. \A v \in Workers : (Alive(v) \/ Starting(v))' => Alive(v) \/ Starting(v)
    <3> SUFFICES ASSUME NEW v \in Workers, (Alive(v) \/ Starting(v))'
                 PROVE  Alive(v) \/ Starting(v)
      OBVIOUS
    <3>1. CASE v # w
      BY <1>8, <3>1 DEF Alive, Starting
    <3>2. CASE v = w
      BY <1>3, <1>8, <2>2, <2>3, <3>2 DEF Alive, Starting, Task
    <3> QED BY <3>1, <3>2
  <2>5. c.scoring_status # Keep => Alive(w) \/ Starting(w)
    BY <1>2, <1>3, <1>4 DEF Fits, Alive, Starting, ScoringTask
  <2>6. c.scoring_results \in Errors => Alive(w)
    BY <1>3, <1>4 DEF Fits, Alive, ScoringTask
  <2>7. ASSUME NEW v \in Workers, Alive(v)' PROVE row'.scoring_status = "running"
    <3>1. CASE v # w
      <4>1. Alive(v)
        BY <1>8, <2>7, <3>1 DEF Alive
      <4> QED BY <1>6, <2>1, <2>5, <3>1, <4>1 DEF Written
    <3>2. CASE v = w
      <4>1. s.then \in ScoringTask
        BY <1>8, <2>7, <3>2 DEF Alive
      <4> QED BY <1>6, <2>1, <2>2, <2>3, <4>1 DEF Written
    <3> QED BY <3>1, <3>2
  <2>8. ASSUME NEW v \in Workers, session'[v] # NoSession PROVE ScoresFit(session[v])'
    <3>1. PICK q : q = session'[v]
      OBVIOUS
    <3>2. v # w /\ q = session[v] /\ Fits(job[v], q) /\ ScoresFit(q)
      BY <1>8, <2>1, <2>8, <3>1 DEF IInv, SessionInv
    <3>3. q.change.scoring_status = "done" => Alive(v) \/ Starting(v)
      BY <3>2 DEF Fits, Alive, Starting, ScoringTask
    <3>4. q.change.scoring_status = "done" => c.scoring_results \notin Errors
      BY <2>1, <2>6, <3>2, <3>3
    <3>5. q.change.scoring_status = "done" /\ row.scoring_results \in Scores =>
            row'.scoring_results \in Scores
      BY <1>6, <1>9, <3>4 DEF Written
    <3> QED BY <3>1, <3>2, <3>5 DEF ScoresFit
  <2>9. DoneHasScores'
    <3> SUFFICES ASSUME row'.scoring_status = "done"
                 PROVE  row'.scoring_results \in Scores
      BY DEF DoneHasScores
    <3>1. CASE c.scoring_status = Keep
      <4>1. row.scoring_status = "done" /\ row.scoring_results \in Scores
        BY <1>6, <1>16, <3>1 DEF Written, IInv, DoneHasScores
      <4>2. c.scoring_results \notin Errors
        BY <2>1, <2>6, <4>1
      <4> QED BY <1>6, <1>9, <4>1, <4>2 DEF Written
    <3>2. CASE c.scoring_status = "done"
      <4>1. ScoresFit(s)
        BY <1>1, <1>2, <2>1
      <4> QED BY <1>4, <1>6, <3>2, <4>1 DEF ScoresFit, Written
    <3> QED BY <1>6, <3>1, <3>2 DEF Written
  <2>10. OneRunInv'
    BY <2>1, <2>4, <2>7, <2>8 DEF OneRunInv
  <2> QED BY <2>9, <2>10
<1>17. OneRunInv' /\ DoneHasScores'
  BY <1>7, <1>16 DEF OneRunInv, DoneHasScores
<1> QED BY <1>11, <1>12, <1>13, <1>14, <1>15, <1>17 DEF IInv
-----------------------------------------------------------------------------
LEMMA IInvNext ==
  ASSUME IInv, [Next]_vars
  PROVE  IInv'
<1>1. CASE UNCHANGED vars
  <2>1. /\ row' = row /\ job' = job /\ session' = session
        /\ lost' = lost /\ raced' = raced
    BY <1>1 DEF vars
  <2>2. TypeOK' /\ SessionInv' /\ JobInv'
    BY <2>1 DEF IInv, TypeOK, SessionInv, AnswersFit, Fits, JobInv
  <2>3. RunningInv'
    BY <2>1 DEF IInv, RunningInv, Writer, Alive
  <2>4. OneRunInv'
    BY <2>1 DEF IInv, OneRunInv, Alive, Starting, ScoresFit
  <2> QED BY <2>1, <2>2, <2>3, <2>4 DEF IInv, AnsweredIsTriggered, DoneHasScores
<1>2. CASE Next
  <2>1. PICK w \in Workers : Endpoint(w) \/ Background(w) \/ Commit(w) \/ Fail(w)
    BY <1>2 DEF Next
  <2>2. TypeOK
    BY DEF IInv
  <2>3. CASE Endpoint(w)
    <3>1. PICK s \in Session : Opens(w, s)
      BY <2>3, <2>2, EndpointsOpen
    <3> QED BY <3>1, IInvOpens
  <2>4. CASE Background(w)
    <3>1. Moves(w) \/ \E s \in Session : Opens(w, s)
      BY <2>4, <2>2, TasksOpenOrMove
    <3> QED BY <3>1, IInvOpens, IInvMoves
  <2>5. CASE Commit(w)
    BY <2>5, IInvCommit
  <2>6. CASE Fail(w)
    BY <2>6, IInvFail
  <2> QED BY <2>1, <2>3, <2>4, <2>5, <2>6
<1> QED BY <1>1, <1>2

\* The inductive invariant, from which the theorems below follow.
THEOREM Invariance == Spec => []IInv
<1>1. Init => IInv
  BY IInvInit
<1>2. IInv /\ [Next]_vars => IInv'
  BY IInvNext
<1> QED BY <1>1, <1>2, PTL DEF Spec

\* Types, with any number of workers, questions and scores: no endpoint and no task
\* writes to a column what is not a value of it, and no task starts that is none.
THEOREM TypeCorrect == Spec => []TypeOK
<1>1. IInv => TypeOK
  BY DEF IInv
<1> QED BY <1>1, Invariance, PTL

\* save_question_answers never completes an interview without a trigger: whichever
\* saves, regenerations and tasks overlap, a completely answered interview has had its
\* report questions started.
THEOREM CompleteInterviewIsTriggered == Spec => []AnsweredIsTriggered
<1>1. IInv => AnsweredIsTriggered
  BY DEF IInv
<1> QED BY <1>1, Invariance, PTL

\* _run_scoring_pipeline: unless two requests to score overlapped, scoring_status "done"
\* stands beside scores, whatever admins set and whichever tasks fail meanwhile.
THEOREM ScoringDoneHasScores == Spec => []DoneHasScores
<1>1. IInv => DoneHasScores
  BY DEF IInv
<1> QED BY <1>1, Invariance, PTL

\* trigger_generate_report: as long as no background task is lost, it refuses a request
\* only while a run is alive to end the status "running".
THEOREM RefusalsAreJustified == Spec => [](~lost => RefusedOnlyWhileRunning)
<1>1. IInv => (~lost => RefusedOnlyWhileRunning)
  BY DEF IInv, RunningInv, Writer, Alive, RefusedOnlyWhileRunning
<1> QED BY <1>1, Invariance, PTL
=============================================================================
