---------------------------- MODULE MCBackground ----------------------------
(***************************************************************************)
(* What runs without anybody waiting for it: the research on an applicant, *)
(* and the start of an instance, with the migration runner and the         *)
(* splitter of its files.  Small values for TLC; the three share no state, *)
(* and a behaviour is about one of them.                                   *)
(***************************************************************************)
EXTENDS Research, Migrations, SqlSplitter, TLC

VARIABLE part   \* which of the three a behaviour is about

TwoFiles == <<2, 1>>

\* A token of every kind, with what a scanner might stumble over in it.
SomeTokens ==
  {<<";">>, <<" ">>, <<"n">>, <<"x">>, <<"(">>, <<"-">>, <<"$">>,
   <<"-", "-", ";", "'">>, <<"-", "-", "$", "$">>,
   <<"'", "'">>, <<"'", ";", "'">>, <<"'", "n", "-", "-", "$", "$", "'">>,
   <<"$", "$", "'", ";", "$", "$">>, <<"$", "x", "$", "$", "$", ";", "$", "x", "$">>}

\* Any three tokens, or five of those that matter most to each other.
Few == {<<";">>, <<"x">>, <<"n">>, <<"-", "-", ";", "'">>, <<"'", ";", "'">>}
TheScripts ==
  {s \in UNION {[1..n -> SomeTokens] : n \in 0..3} \union [1..5 -> Few] : WellFormed(s)}

\* The parts a behaviour is not about are at rest.
NoResearch ==
  /\ research = [f \in Firms |-> [NewRow EXCEPT !.status = "COMPLETED"]]
  /\ worker = [w \in Workers |-> NoJob]
  /\ overlapped = {} /\ lost = {}

NoMigration ==
  /\ image = [i \in Instances |-> 0] /\ schema = {} /\ applied = {} /\ failures = 0
  /\ runner = [i \in Instances |-> [Stopped EXCEPT !.at = "up"]]

BackgroundInit ==
  /\ part \in {"research", "migrations", "splitter"}
  /\ IF part = "research" THEN ResearchInit ELSE NoResearch
  /\ IF part = "migrations" THEN MigrationInit ELSE NoMigration
  /\ SplitInit
  /\ part # "splitter" => script = <<>>

BackgroundNext ==
  \/ part = "research" /\ ResearchNext /\ UNCHANGED <<part, migrationVars, splitVars>>
  \/ part = "migrations" /\ MigrationNext /\ UNCHANGED <<part, researchVars, splitVars>>
  \/ part = "splitter" /\ SplitNext /\ UNCHANGED <<part, researchVars, migrationVars>>

\* The fairness of ResearchSpec and MigrationSpec, each in its part.
BackgroundSpec ==
  /\ BackgroundInit /\ [][BackgroundNext]_<<part, researchVars, migrationVars, splitVars>>
  /\ \A w \in Workers : WF_researchVars(part = "research" /\ TaskStep(w))
  /\ \A i \in Instances : WF_migrationVars(part = "migrations" /\ Startup(i))

BackgroundTypeOK == ResearchTypeOK /\ MigrationTypeOK /\ SplitTypeOK
=============================================================================
