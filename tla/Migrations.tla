----------------------------- MODULE Migrations -----------------------------
(***************************************************************************)
(* The migration runner, with which every instance of the service starts:  *)
(* it reads which files are on record, and runs each of the others in a    *)
(* transaction that also records it.  Instances start side by side, in a   *)
(* rolling deployment with images of different age; one that fails exits   *)
(* and the platform starts it again.  Schema says what comes of it.        *)
(*                                                                         *)
(* Every statement of the files is one of IF [NOT] EXISTS, or a block that *)
(* catches what it duplicates: done again, it changes nothing.             *)
(***************************************************************************)
EXTENDS MigrationFiles

CONSTANT MaxFailures   \* bound

VARIABLES
  schema,        \* the statements that have taken effect
  image,         \* the files each instance has, up to this number
  applied,       \* schema_migrations, the files on record
  runner,        \* what each instance does
  failures

migrationVars == <<schema, image, applied, runner, failures>>

\* known: the files the instance need not run; tx: the statements of its open transaction.
Stopped == [at |-> "down", known |-> {}, tx |-> 0]
Runner == [at : {"down", "starting", "up"}, known : SUBSET Files, tx : Nat]

ASSUME FailuresAssumption == MaxFailures \in Nat

\* A new database is empty, or has been given all the files of an image by the init
\* scripts of the database's container, which record none.
MigrationInit ==
  /\ image \in [Instances -> 0..LastFile]
  /\ \E v \in {0} \union {image[i] : i \in Instances} : schema = UpTo(v)
  /\ applied = {}
  /\ runner = [i \in Instances |-> Stopped]
  /\ failures = 0
-----------------------------------------------------------------------------
\* The files an instance still has to run, of which it takes the first.
Todo(i) == (1..image[i]) \ runner[i].known
Takes(i, f) == runner[i].at = "starting" /\ f \in Todo(i) /\ \A g \in Todo(i) : f <= g

\* lifespan: run_migrations reads the record, once.
StartUp(i) ==
  /\ runner[i].at = "down"
  /\ runner' = [runner EXCEPT ![i] = [at |-> "starting", known |-> applied, tx |-> 0]]
  /\ UNCHANGED <<schema, image, applied, failures>>

\* Fault: each statement is committed by itself.
ExecuteAlone(i, f) ==
  /\ Takes(i, f) /\ runner[i].tx < Length[f]
  /\ runner' = [runner EXCEPT ![i].tx = @ + 1]
  /\ schema' = schema \union {<<f, runner[i].tx + 1>>}
  /\ UNCHANGED <<image, applied, failures>>

\* The next statement of the file, seen by this transaction only.
Execute(i, f) ==
  /\ Takes(i, f) /\ runner[i].tx < Length[f]
  /\ runner' = [runner EXCEPT ![i].tx = @ + 1]
  /\ UNCHANGED <<schema, image, applied, failures>>

\* The file is recorded, which another instance must not have done, and all is committed.
Record(i, f) ==
  /\ Takes(i, f) /\ runner[i].tx = Length[f] /\ f \notin applied
  /\ schema' = schema \union Statements(f)
  /\ applied' = applied \union {f}
  /\ runner' = [runner EXCEPT ![i].known = @ \union {f}, ![i].tx = 0]
  /\ UNCHANGED <<image, failures>>

\* The name is the primary key: the transaction is rolled back and the startup aborted.
RecordTwice(i, f) ==
  /\ Takes(i, f) /\ runner[i].tx = Length[f] /\ f \in applied
  /\ runner' = [runner EXCEPT ![i] = Stopped]
  /\ UNCHANGED <<schema, image, applied, failures>>

Serve(i) ==
  /\ runner[i].at = "starting" /\ Todo(i) = {}
  /\ runner' = [runner EXCEPT ![i].at = "up"]
  /\ UNCHANGED <<schema, image, applied, failures>>

\* A statement fails, for a concurrent one or for the connection, or the process dies.
FailStart(i) ==
  /\ runner[i].at # "down" /\ failures < MaxFailures
  /\ runner' = [runner EXCEPT ![i] = Stopped]
  /\ failures' = failures + 1
  /\ UNCHANGED <<schema, image, applied>>

\* A deployment replaces the instance by one of a newer image.
Deploy(i) ==
  /\ \E v \in image[i] + 1 .. LastFile : image' = [image EXCEPT ![i] = v]
  /\ runner' = [runner EXCEPT ![i] = Stopped]
  /\ UNCHANGED <<schema, applied, failures>>

Startup(i) ==
  \/ StartUp(i) \/ Serve(i)
  \/ \E f \in Files : Execute(i, f) \/ Record(i, f) \/ RecordTwice(i, f)

MigrationNext == \E i \in Instances : Startup(i) \/ FailStart(i) \/ Deploy(i)

MigrationSpec ==
  /\ MigrationInit /\ [][MigrationNext]_migrationVars
  /\ \A i \in Instances : WF_migrationVars(Startup(i))
-----------------------------------------------------------------------------
MigrationTypeOK ==
  /\ schema \subseteq UpTo(LastFile)
  /\ image \in [Instances -> 0..LastFile]
  /\ applied \subseteq Files
  /\ runner \in [Instances -> Runner]
  /\ failures \in 0..MaxFailures

\* The runner implements Schema: the schema is always that of the first files, whole,
\* however startups overlap or fail; no instance serves without a file that it knows; all
\* files are applied and all instances serve in the end.
Abstract == INSTANCE Schema WITH up <- {i \in Instances : runner[i].at = "up"}

ImplementsSchema == Abstract!SchemaSpec
=============================================================================
