-------------------------- MODULE BackgroundProofs --------------------------
(***************************************************************************)
(* The migration runner, for any number of instances and files: the schema *)
(* moves as Schema says it may.  The research of an applicant, for any     *)
(* number of workers: what the admin reads of one agrees.  And the two     *)
(* together with the splitter.                                             *)
(***************************************************************************)
EXTENDS MCBackground, SplitterProofs

Serving == {i \in Instances : runner[i].at = "up"}

\* The files on record are the first ones, and the schema has at least them.
RecordInv ==
  \E k \in 0..LastFile, v \in 0..LastFile :
    k <= v /\ applied = 1..k /\ schema = UpTo(v)

\* A runner knows of no file that is not on record, and one that serves knows all its own.
RunnerInv ==
  \A i \in Instances :
    /\ runner[i].known \subseteq applied
    /\ runner[i].at = "up" => 1..image[i] \subseteq runner[i].known

RowsInv ==
  /\ image \in [Instances -> 0..LastFile]
  /\ runner \in [Instances -> Runner]
  /\ failures \in 0..MaxFailures

MigrationInv == RowsInv /\ RecordInv /\ RunnerInv
-----------------------------------------------------------------------------
LEMMA UpToGrows ==
  ASSUME NEW v \in 0..LastFile, NEW w \in 0..LastFile, v <= w
  PROVE  UpTo(v) \subseteq UpTo(w)
<1>1. \A f \in 1..v : f \in 1..w
  BY FilesAssumption
<1> QED BY <1>1 DEF UpTo

LEMMA UpToNext ==
  ASSUME NEW v \in 0..LastFile
  PROVE  UpTo(v + 1) = UpTo(v) \union Statements(v + 1)
<1>1. \A f : f \in 1..(v + 1) <=> f \in 1..v \/ f = v + 1
  BY FilesAssumption
<1> QED BY <1>1 DEF UpTo

\* The file a runner takes and nobody has recorded is the one after those on record.
LEMMA TakesTheNext ==
  ASSUME MigrationInv, NEW i \in Instances, NEW f \in Files, Takes(i, f), f \notin applied,
         NEW k \in 0..LastFile, applied = 1..k
  PROVE  f = k + 1 /\ k < image[i]
<1>1. f \in 1..image[i] /\ image[i] \in 0..LastFile /\ runner[i].known \subseteq 1..k
  BY DEF Takes, Todo, MigrationInv, RowsInv, RunnerInv
<1>2. f > k
  BY <1>1, FilesAssumption
<1>3. k + 1 \in 1..image[i] /\ k + 1 \notin 1..k
  BY <1>1, <1>2, FilesAssumption
<1>4. k + 1 \in Todo(i)
  BY <1>1, <1>3 DEF Todo
<1>5. f <= k + 1
  BY <1>4 DEF Takes
<1> QED BY <1>1, <1>2, <1>5, FilesAssumption

LEMMA RunnerTypes ==
  /\ Stopped \in Runner
  /\ \A known \in SUBSET Files : [at |-> "starting", known |-> known, tx |-> 0] \in Runner
BY DEF Stopped, Runner

\* The record is always of files.
LEMMA RecordedFiles ==
  ASSUME RecordInv
  PROVE  applied \subseteq Files
<1>1. PICK k \in 0..LastFile : applied = 1..k
  BY DEF RecordInv
<1> QED BY <1>1, FilesAssumption DEF Files

LEMMA InvInit == MigrationInit => MigrationInv
<1> SUFFICES ASSUME MigrationInit PROVE MigrationInv
  OBVIOUS
<1> USE FilesAssumption, FailuresAssumption
<1>1. RowsInv
  BY RunnerTypes DEF MigrationInit, RowsInv
<1>2. PICK v \in 0..LastFile : schema = UpTo(v)
  BY DEF MigrationInit
<1>3. applied = 1..0
  BY DEF MigrationInit
<1>4. RecordInv
  BY <1>2, <1>3 DEF RecordInv
<1>5. RunnerInv
  BY DEF MigrationInit, RunnerInv, Stopped
<1> QED BY <1>1, <1>4, <1>5 DEF MigrationInv

\* A step of one runner that leaves record and schema, and knows no more than is recorded.
LEMMA RunnerStep ==
  ASSUME MigrationInv, NEW i \in Instances, NEW r \in Runner, NEW v \in 0..LastFile,
         runner' = [runner EXCEPT ![i] = r], image' = [image EXCEPT ![i] = v],
         applied' = applied, schema' = schema, failures' \in 0..MaxFailures,
         r.known \subseteq applied, r.at = "up" => 1..v \subseteq r.known
  PROVE  MigrationInv'
<1>1. RowsInv'
  BY DEF MigrationInv, RowsInv
<1>2. RecordInv'
  BY DEF MigrationInv, RecordInv
<1>3. RunnerInv'
  BY DEF MigrationInv, RowsInv, RunnerInv
<1> QED BY <1>1, <1>2, <1>3 DEF MigrationInv

LEMMA SameImage ==
  ASSUME MigrationInv, NEW i \in Instances
  PROVE  image = [image EXCEPT ![i] = image[i]] /\ image[i] \in 0..LastFile
BY DEF MigrationInv, RowsInv

LEMMA RecordPreserves ==
  ASSUME MigrationInv, NEW i \in Instances, NEW f \in Files, Record(i, f)
  PROVE  MigrationInv'
<1> USE FilesAssumption
<1>1. PICK k \in 0..LastFile, v \in 0..LastFile :
        k <= v /\ applied = 1..k /\ schema = UpTo(v)
  BY DEF MigrationInv, RecordInv
<1>2. Takes(i, f) /\ f \notin applied
  BY DEF Record
<1>3. f = k + 1 /\ k < image[i] /\ image[i] \in 0..LastFile
  BY <1>1, <1>2, TakesTheNext DEF MigrationInv, RowsInv
<1>4. k + 1 \in 0..LastFile /\ applied' = 1..(k + 1)
  <2>1. \A g : g \in 1..(k + 1) <=> g \in 1..k \/ g = k + 1
    OBVIOUS
  <2> QED BY <1>1, <1>3, <2>1 DEF Record
<1>5. \E u \in 0..LastFile : k + 1 <= u /\ schema' = UpTo(u)
  <2>1. CASE v = k
    BY <1>1, <1>3, <1>4, <2>1, UpToNext DEF Record
  <2>2. CASE k + 1 <= v
    <3>1. Statements(k + 1) \subseteq UpTo(v)
      BY <1>4, <2>2, UpToGrows, UpToNext, <1>1
    <3> QED BY <1>1, <1>3, <2>2, <3>1 DEF Record
  <2> QED BY <1>1, <2>1, <2>2
<1>6. RecordInv'
  BY <1>4, <1>5 DEF RecordInv
<1>7. RowsInv'
  <2>1. [runner[i] EXCEPT !.known = @ \union {f}, !.tx = 0] \in Runner
    BY DEF MigrationInv, RowsInv, Runner
  <2> QED BY <2>1 DEF Record, MigrationInv, RowsInv
<1>8. RunnerInv'
  <2>1. /\ runner[i] \in Runner /\ runner[i].at = "starting"
        /\ runner \in [Instances -> Runner]
    BY <1>2 DEF Takes, MigrationInv, RowsInv
  <2>2. /\ runner'[i].known = runner[i].known \union {f} /\ runner'[i].at = "starting"
        /\ \A j \in Instances \ {i} : runner'[j] = runner[j]
    BY <2>1 DEF Record, Runner
  <2> QED BY <2>2 DEF Record, MigrationInv, RunnerInv
<1> QED BY <1>6, <1>7, <1>8 DEF MigrationInv

LEMMA InvNext == MigrationInv /\ [MigrationNext]_migrationVars => MigrationInv'
<1> SUFFICES ASSUME MigrationInv, [MigrationNext]_migrationVars PROVE MigrationInv'
  OBVIOUS
<1>1. CASE UNCHANGED migrationVars
  BY <1>1 DEF migrationVars, MigrationInv, RowsInv, RecordInv, RunnerInv
<1>2. ASSUME NEW i \in Instances, StartUp(i) PROVE MigrationInv'
  <2>1. applied \subseteq Files
    BY RecordedFiles DEF MigrationInv
  <2>2. [at |-> "starting", known |-> applied, tx |-> 0] \in Runner
    BY <2>1, RunnerTypes
  <2> DEFINE r == [at |-> "starting", known |-> applied, tx |-> 0]
  <2>3. /\ runner' = [runner EXCEPT ![i] = r] /\ image' = [image EXCEPT ![i] = image[i]]
        /\ r.known \subseteq applied /\ r.at # "up"
    BY <1>2, SameImage DEF StartUp
  <2> HIDE DEF r
  <2> QED BY <1>2, <2>2, <2>3, SameImage, RunnerStep DEF StartUp, MigrationInv, RowsInv, r
<1>3. ASSUME NEW i \in Instances, Serve(i) PROVE MigrationInv'
  <2>1. /\ runner[i] \in Runner /\ 1..image[i] \subseteq runner[i].known
        /\ runner[i].known \subseteq applied
    BY <1>3 DEF Serve, Todo, MigrationInv, RowsInv, RunnerInv
  <2>2. PICK r \in Runner : r = [runner[i] EXCEPT !.at = "up"]
    BY <2>1 DEF Runner
  <2>3. r.known = runner[i].known
    BY <2>1, <2>2 DEF Runner
  <2>4. runner' = [runner EXCEPT ![i] = r]
    BY <1>3, <2>2 DEF Serve
  <2> QED BY <1>3, <2>1, <2>3, <2>4, SameImage, RunnerStep
          DEF Serve, MigrationInv, RowsInv
<1>4. ASSUME NEW i \in Instances, NEW f \in Files, Execute(i, f) PROVE MigrationInv'
  <2>1. runner[i] \in Runner /\ runner[i].at = "starting" /\ runner[i].known \subseteq applied
    BY <1>4 DEF Execute, Takes, MigrationInv, RowsInv, RunnerInv
  <2>2. PICK r \in Runner : r = [runner[i] EXCEPT !.tx = @ + 1]
    <3>1. runner[i].tx + 1 \in Nat
      BY <2>1 DEF Runner
    <3> QED BY <2>1, <3>1 DEF Runner
  <2>3. r.known = runner[i].known /\ r.at = "starting"
    BY <2>1, <2>2 DEF Runner
  <2>4. runner' = [runner EXCEPT ![i] = r]
    BY <1>4, <2>2 DEF Execute
  <2> QED BY <1>4, <2>1, <2>3, <2>4, SameImage, RunnerStep
          DEF Execute, MigrationInv, RowsInv
<1>5. ASSUME NEW i \in Instances, NEW f \in Files, Record(i, f) PROVE MigrationInv'
  BY <1>5, RecordPreserves
<1>6. Stopped \in Runner /\ Stopped.known = {} /\ Stopped.at # "up"
  BY DEF Stopped, Runner
<1>7. ASSUME NEW i \in Instances, NEW f \in Files, RecordTwice(i, f) PROVE MigrationInv'
  BY <1>6, <1>7, SameImage, RunnerStep DEF RecordTwice, MigrationInv, RowsInv
<1>8. ASSUME NEW i \in Instances, FailStart(i) PROVE MigrationInv'
  <2>1. failures' \in 0..MaxFailures
    BY <1>8, FailuresAssumption DEF FailStart, MigrationInv, RowsInv
  <2> QED BY <1>6, <1>8, <2>1, SameImage, RunnerStep DEF FailStart
<1>9. ASSUME NEW i \in Instances, Deploy(i) PROVE MigrationInv'
  <2>1. PICK v \in 0..LastFile : image' = [image EXCEPT ![i] = v]
    <3>1. PICK v \in image[i] + 1 .. LastFile : image' = [image EXCEPT ![i] = v]
      BY <1>9 DEF Deploy
    <3>2. v \in 0..LastFile
      BY <3>1, FilesAssumption, SameImage
    <3> QED BY <3>1, <3>2
  <2> QED BY <1>6, <1>9, <2>1, RunnerStep DEF Deploy, MigrationInv, RowsInv
<1> QED BY <1>1, <1>2, <1>3, <1>4, <1>5, <1>7, <1>8, <1>9 DEF MigrationNext, Startup

\* The migration runner keeps its invariant: the files on record are the first ones, the
\* schema is that of the first files and has all on record, a runner that serves knows its
\* files to be on record.
THEOREM MigrationInvariant == MigrationSpec => []MigrationInv
<1>1. MigrationInit => MigrationInv
  BY InvInit
<1>2. MigrationInv /\ [MigrationNext]_migrationVars => MigrationInv'
  BY InvNext
<1> QED BY <1>1, <1>2, PTL DEF MigrationSpec

LEMMA MigrationInvTypes == MigrationInv => MigrationTypeOK
<1> SUFFICES ASSUME MigrationInv PROVE MigrationTypeOK
  OBVIOUS
<1>1. PICK v \in 0..LastFile : schema = UpTo(v)
  BY DEF MigrationInv, RecordInv
<1>2. schema \subseteq UpTo(LastFile)
  BY <1>1, UpToGrows, FilesAssumption
<1>3. applied \subseteq Files
  BY RecordedFiles DEF MigrationInv
<1> QED BY <1>2, <1>3 DEF MigrationTypeOK, MigrationInv, RowsInv

\* The types of the runner's state.
THEOREM MigrationTypeCorrect == MigrationSpec => []MigrationTypeOK
<1> QED BY MigrationInvTypes, MigrationInvariant, PTL
-----------------------------------------------------------------------------
LEMMA SameFiles ==
  /\ \A v : Abstract!UpTo(v) = UpTo(v)
  /\ \A f : Abstract!Statements(f) = Statements(f)
BY DEF Abstract!UpTo, UpTo, Abstract!Statements, Statements

\* What the steps of an instance are to Schema.
LEMMA StopsOrNothing ==
  ASSUME NEW i \in Instances, NEW v \in image[i]..LastFile,
         schema' = schema, image' = [image EXCEPT ![i] = v], Serving' = Serving \ {i}
  PROVE  Abstract!Stops(i)
BY DEF Abstract!Stops, Serving

LEMMA ServingOf ==
  ASSUME NEW i \in Instances, NEW r,
         runner \in [Instances -> Runner], runner' = [runner EXCEPT ![i] = r]
  PROVE  Serving' = IF r.at = "up" THEN Serving \union {i} ELSE Serving \ {i}
BY DEF Serving

LEMMA RecordRefines ==
  ASSUME MigrationInv, NEW i \in Instances, NEW f \in Files, Record(i, f)
  PROVE  Abstract!Advance \/ UNCHANGED <<schema, image, Serving>>
<1> USE FilesAssumption
<1>1. PICK k \in 0..LastFile, v \in 0..LastFile :
        k <= v /\ applied = 1..k /\ schema = UpTo(v)
  BY DEF MigrationInv, RecordInv
<1>2. Takes(i, f) /\ f \notin applied
  BY DEF Record
<1>3. f = k + 1 /\ k < image[i] /\ image[i] \in 0..LastFile
  BY <1>1, <1>2, TakesTheNext DEF MigrationInv, RowsInv
<1>4. UNCHANGED <<image, Serving>>
  <2>1. /\ runner[i] \in Runner /\ runner[i].at = "starting"
        /\ runner \in [Instances -> Runner]
    BY <1>2 DEF Takes, MigrationInv, RowsInv
  <2>2. runner'[i].at = runner[i].at /\ \A j \in Instances \ {i} : runner'[j] = runner[j]
    BY <2>1 DEF Record, Runner
  <2> QED BY <2>2 DEF Record, Serving
<1>5. CASE v = k
  <2>1. schema' = UpTo(v + 1)
    BY <1>1, <1>3, <1>5, UpToNext DEF Record
  <2> QED BY <1>1, <1>3, <1>4, <1>5, <2>1, SameFiles DEF Abstract!Advance, Serving
<1>6. CASE k + 1 <= v
  <2>1. Statements(k + 1) \subseteq UpTo(v)
    BY <1>1, <1>3, <1>6, UpToGrows, UpToNext
  <2> QED BY <1>1, <1>3, <1>4, <2>1 DEF Record
<1> QED BY <1>1, <1>5, <1>6

LEMMA ServeRefines ==
  ASSUME MigrationInv, NEW i \in Instances, Serve(i)
  PROVE  Abstract!Serves(i)
<1>1. PICK k \in 0..LastFile, v \in 0..LastFile :
        k <= v /\ applied = 1..k /\ schema = UpTo(v)
  BY DEF MigrationInv, RecordInv
<1>2. 1..image[i] \subseteq 1..k /\ image[i] \in 0..LastFile
  BY <1>1 DEF Serve, Todo, MigrationInv, RowsInv, RunnerInv
<1>3. image[i] <= v
  BY <1>1, <1>2, FilesAssumption
<1>4. UpTo(image[i]) \subseteq schema
  BY <1>1, <1>2, <1>3, UpToGrows
<1>5. Serving' = Serving \union {i}
  <2>1. runner[i] \in Runner /\ runner \in [Instances -> Runner]
    BY DEF MigrationInv, RowsInv
  <2>2. runner'[i].at = "up" /\ \A j \in Instances \ {i} : runner'[j] = runner[j]
    BY <2>1 DEF Serve, Runner
  <2> QED BY <2>2 DEF Serving
<1> QED BY <1>4, <1>5, SameFiles DEF Serve, Abstract!Serves, Serving

\* Every step of the runner is one of Schema, or leaves what Schema speaks of.
LEMMA StepRefines ==
  MigrationInv /\ [MigrationNext]_migrationVars => [Abstract!SchemaNext]_(Abstract!schemaVars)
<1> SUFFICES ASSUME MigrationInv, [MigrationNext]_migrationVars
             PROVE  Abstract!SchemaNext \/ UNCHANGED <<schema, image, Serving>>
  BY DEF Abstract!schemaVars, Serving
<1> USE DEF MigrationInv, RowsInv
<1>0. Stopped.at = "down"
  BY DEF Stopped
<1>1. CASE UNCHANGED migrationVars
  BY <1>1 DEF migrationVars, Serving
<1>2. ASSUME NEW i \in Instances, StartUp(i) PROVE UNCHANGED <<schema, image, Serving>>
  BY <1>2, ServingOf DEF StartUp, Serving
<1>3. ASSUME NEW i \in Instances, Serve(i) PROVE Abstract!SchemaNext
  BY <1>3, ServeRefines DEF Abstract!SchemaNext
<1>4. ASSUME NEW i \in Instances, NEW f \in Files, Execute(i, f)
      PROVE  UNCHANGED <<schema, image, Serving>>
  <2>1. runner'[i].at = runner[i].at /\ \A j \in Instances \ {i} : runner'[j] = runner[j]
    BY <1>4 DEF Execute, Runner
  <2> QED BY <1>4, <2>1 DEF Execute, Serving
<1>5. ASSUME NEW i \in Instances, NEW f \in Files, Record(i, f)
      PROVE  Abstract!SchemaNext \/ UNCHANGED <<schema, image, Serving>>
  BY <1>5, RecordRefines DEF Abstract!SchemaNext
<1>6. ASSUME NEW i \in Instances, NEW f \in Files, RecordTwice(i, f)
      PROVE  UNCHANGED <<schema, image, Serving>>
  BY <1>6, ServingOf DEF RecordTwice, Takes, Stopped, Serving
<1>7. ASSUME NEW i \in Instances, FailStart(i) PROVE Abstract!SchemaNext
  <2>1. Serving' = Serving \ {i}
    BY <1>0, <1>7, ServingOf DEF FailStart
  <2>2. image' = [image EXCEPT ![i] = image[i]] /\ image[i] \in image[i]..LastFile
    BY <1>7, FilesAssumption DEF FailStart
  <2> QED BY <1>7, <2>1, <2>2, StopsOrNothing DEF FailStart, Abstract!SchemaNext
<1>8. ASSUME NEW i \in Instances, Deploy(i) PROVE Abstract!SchemaNext
  <2>1. Serving' = Serving \ {i}
    BY <1>0, <1>8, ServingOf DEF Deploy
  <2>2. PICK v \in image[i] + 1 .. LastFile : image' = [image EXCEPT ![i] = v]
    BY <1>8 DEF Deploy
  <2>3. v \in image[i]..LastFile
    BY <2>2, FilesAssumption
  <2> QED BY <1>8, <2>1, <2>2, <2>3, StopsOrNothing DEF Deploy, Abstract!SchemaNext
<1> QED BY <1>1, <1>2, <1>3, <1>4, <1>5, <1>6, <1>7, <1>8
        DEF MigrationNext, Startup, Abstract!SchemaNext

\* However startups overlap or fail, the schema is always that of the first files, whole,
\* moves forward by one file at a time, and an instance that begins to serve finds all the
\* files it knows: the safety part of ImplementsSchema, for any number of files and
\* instances.
THEOREM SchemaMovesByWholeFiles ==
  MigrationSpec => Abstract!SchemaInit /\ [][Abstract!SchemaNext]_(Abstract!schemaVars)
<1>1. MigrationInit => Abstract!SchemaInit
  <2> SUFFICES ASSUME MigrationInit PROVE Abstract!SchemaInit
    OBVIOUS
  <2>1. PICK v \in 0..LastFile : schema = UpTo(v)
    BY FilesAssumption DEF MigrationInit
  <2>2. Serving = {}
    BY DEF MigrationInit, Serving, Stopped
  <2> QED BY <2>1, <2>2, SameFiles DEF MigrationInit, Abstract!SchemaInit, Serving
<1>2. MigrationInv /\ [MigrationNext]_migrationVars
        => [Abstract!SchemaNext]_(Abstract!schemaVars)
  BY StepRefines
<1> QED BY <1>1, <1>2, MigrationInvariant, PTL DEF MigrationSpec
-----------------------------------------------------------------------------
\* Of a firm that is not overlapped one worker at most is at work, and what its session
\* has loaded is the row.
LoneInv ==
  \A f \in Firms \ overlapped : \A w, x \in Workers :
    worker[w] # NoJob /\ worker[x] # NoJob /\ worker[w].firm = f /\ worker[x].firm = f
      => w = x

Holding == {"request", "start", "ask", "answered", "failed"}

LoadedInv ==
  \A w \in Workers :
    worker[w] # NoJob /\ worker[w].step \in Holding /\ worker[w].firm \notin overlapped
      => worker[w].loaded = research[worker[w].firm]

ResearchInv == ResearchTypeOK /\ LoneInv /\ LoadedInv /\ ResearchAgrees

RowAgrees(r) == IF r.status = "FAILED" THEN r.error # None /\ r.fit # None ELSE r.error = None

LEMMA MergedInRow ==
  ASSUME NEW row \in Row, NEW loaded \in Row, NEW new \in Row
  PROVE  /\ MergedResearch(row, loaded, new) \in Row
         /\ row = loaded => MergedResearch(row, loaded, new) = new
BY DEF MergedResearch, Row, Merged

\* A step of a worker that leaves the rows: it goes on to another step, with the row that
\* it has loaded or the one it had.
LEMMA WorkerStep ==
  ASSUME ResearchInv, NEW w \in Workers, worker[w] # NoJob, NEW j \in Job,
         worker' = [worker EXCEPT ![w] = j], j.firm = worker[w].firm,
         UNCHANGED <<research, overlapped>>, lost' \subseteq Firms,
         j.step \in Holding =>
           \/ j.loaded = research[j.firm]
           \/ worker[w].step \in Holding /\ j.loaded = worker[w].loaded
  PROVE  ResearchInv'
<1>1. ResearchTypeOK'
  BY DEF ResearchInv, ResearchTypeOK
<1>2. worker'[w] = j /\ \A x \in Workers \ {w} : worker'[x] = worker[x]
  BY DEF ResearchInv, ResearchTypeOK
<1>3. LoneInv'
  BY <1>2 DEF ResearchInv, LoneInv
<1>4. LoadedInv'
  BY <1>2 DEF ResearchInv, LoadedInv
<1>5. ResearchAgrees'
  BY DEF ResearchInv, ResearchAgrees
<1> QED BY <1>1, <1>3, <1>4, <1>5 DEF ResearchInv

\* A commit: the row becomes what the worker makes of it, if it alone is at work, and the
\* worker goes on to a step without a session, or stops.
LEMMA CommitStep ==
  ASSUME ResearchInv, NEW w \in Workers, worker[w] # NoJob, NEW new \in Row, RowAgrees(new),
         worker[w].step \in Holding,
         Save(w, new), NEW j \in Job \union {NoJob}, worker' = [worker EXCEPT ![w] = j],
         j # NoJob => j.firm = worker[w].firm /\ j.step \notin Holding,
         lost' \subseteq Firms,
         \/ overlapped' = overlapped
         \/ /\ overlapped' = overlapped \ {worker[w].firm}
            /\ Busy(worker[w].firm) = {w} /\ worker[w].loaded = research[worker[w].firm]
  PROVE  ResearchInv'
<1> USE DEF ResearchInv
<1> DEFINE f == worker[w].firm
<1>1. worker[w] \in Job /\ f \in Firms /\ worker[w].loaded \in Row /\ research[f] \in Row
  BY DEF ResearchTypeOK, Job
<1>2. PICK r \in Row : /\ r = MergedResearch(research[f], worker[w].loaded, new)
                       /\ research[f] = worker[w].loaded => r = new
  BY <1>1, MergedInRow
<1>3. research' = [research EXCEPT ![f] = r]
  BY <1>2 DEF Save
<1>4. ResearchTypeOK'
  BY <1>1, <1>3 DEF ResearchTypeOK
<1>5. worker'[w] = j /\ \A x \in Workers \ {w} : worker'[x] = worker[x]
  BY DEF ResearchTypeOK
<1>6. \A x \in Workers : worker[x] # NoJob /\ worker[x].firm = f /\ f \notin overlapped' => x = w
  BY <1>1 DEF LoneInv, Busy
<1>7. LoneInv'
  BY <1>1, <1>5, <1>6 DEF LoneInv
<1>8. LoadedInv'
  <2> SUFFICES ASSUME NEW x \in Workers, worker'[x] # NoJob, worker'[x].step \in Holding,
                      worker'[x].firm \notin overlapped'
               PROVE  worker'[x].loaded = research'[worker'[x].firm]
    BY DEF LoadedInv
  <2>1. x # w /\ worker'[x] = worker[x] /\ worker[x] \in Job /\ worker[x].firm \in Firms
    BY <1>5 DEF ResearchTypeOK, Job
  <2>2. worker[x].firm # f
    BY <1>6, <2>1
  <2>3. worker[x].firm \notin overlapped
    BY <2>1, <2>2
  <2> QED BY <1>1, <1>3, <2>1, <2>2, <2>3 DEF LoadedInv, ResearchTypeOK
<1>9. ResearchAgrees'
  <2> SUFFICES ASSUME NEW g \in Firms, g \notin overlapped' PROVE RowAgrees(research'[g])
    BY DEF ResearchAgrees, RowAgrees
  <2>1. CASE g = f
    <3>1. research[f] = worker[w].loaded
      BY <2>1 DEF LoadedInv
    <3> QED BY <1>1, <1>2, <1>3, <2>1, <3>1 DEF ResearchTypeOK
  <2>2. CASE g # f
    BY <1>1, <1>3, <2>2 DEF ResearchAgrees, RowAgrees, ResearchTypeOK
  <2> QED BY <2>1, <2>2
<1> QED BY <1>4, <1>7, <1>8, <1>9

LEMMA JobFields ==
  ASSUME NEW j \in Job
  PROVE  /\ j # NoJob /\ j.firm \in Firms /\ j.loaded \in Row /\ j.untried \in 0..Keys
         /\ \A step \in Step : /\ [j EXCEPT !.step = step] \in Job
                               /\ [j EXCEPT !.step = step].firm = j.firm
                               /\ [j EXCEPT !.step = step].step = step
                               /\ [j EXCEPT !.step = step].loaded = j.loaded
         /\ \A step \in Step, row \in Row :
              /\ [j EXCEPT !.step = step, !.loaded = row] \in Job
              /\ [j EXCEPT !.step = step, !.loaded = row].firm = j.firm
              /\ [j EXCEPT !.step = step, !.loaded = row].loaded = row
BY NoJobAssumption DEF Job

\* The steps that open a session, and those that go on without touching the row.
LEMMA LoadPreserves ==
  ASSUME ResearchInv, NEW w \in Workers, worker[w] # NoJob, NEW step \in Step,
         Load(w, step), UNCHANGED <<research, overlapped, lost>>
  PROVE  ResearchInv'
<1>1. worker[w] \in Job /\ research[worker[w].firm] \in Row /\ lost \subseteq Firms
  BY JobFields DEF ResearchInv, ResearchTypeOK
<1>2. PICK j \in Job : /\ worker' = [worker EXCEPT ![w] = j] /\ j.firm = worker[w].firm
                       /\ j.loaded = research[j.firm]
  <2> DEFINE k == [worker[w] EXCEPT !.step = step, !.loaded = research[worker[w].firm]]
  <2>1. worker' = [worker EXCEPT ![w] = k]
    BY DEF Load
  <2>2. k \in Job /\ k.firm = worker[w].firm /\ k.loaded = research[worker[w].firm]
    BY <1>1 DEF Job
  <2> QED BY <2>1, <2>2
<1> QED BY <1>1, <1>2, WorkerStep

LEMMA GotoPreserves ==
  ASSUME ResearchInv, NEW w \in Workers, worker[w] # NoJob, NEW step \in Step,
         step \notin Holding, Goto(w, step), UNCHANGED <<research, overlapped, lost>>
  PROVE  ResearchInv'
<1>1. worker[w] \in Job /\ lost \subseteq Firms
  BY DEF ResearchInv, ResearchTypeOK
<1>2. PICK j \in Job :
        worker' = [worker EXCEPT ![w] = j] /\ j.firm = worker[w].firm /\ j.step = step
  <2>1. worker' = [worker EXCEPT ![w] = [worker[w] EXCEPT !.step = step]]
    BY DEF Goto
  <2> QED BY <1>1, <2>1, JobFields
<1> QED BY <1>1, <1>2, WorkerStep

\* Tasks that end without a commit.
LEMMA EndsPreserve ==
  ASSUME ResearchInv, worker' \in [Workers -> Job \union {NoJob}],
         \A w \in Workers : worker'[w] \in {worker[w], NoJob},
         UNCHANGED <<research, overlapped>>, lost' \subseteq Firms
  PROVE  ResearchInv'
<1>1. ResearchTypeOK'
  BY DEF ResearchInv, ResearchTypeOK
<1>2. LoneInv'
  BY DEF ResearchInv, LoneInv
<1>3. LoadedInv'
  BY DEF ResearchInv, LoadedInv
<1>4. ResearchAgrees'
  BY DEF ResearchInv, ResearchAgrees
<1> QED BY <1>1, <1>2, <1>3, <1>4 DEF ResearchInv

LEMMA RetryPreserves ==
  ASSUME ResearchInv, NEW w \in Workers, NEW f \in Firms, RetryResearch(w, f)
  PROVE  ResearchInv'
<1> USE DEF ResearchInv
<1>1. research[f] \in Row /\ worker \in [Workers -> Job \union {NoJob}]
  BY DEF ResearchTypeOK
<1> DEFINE j == [firm |-> f, step |-> "request", loaded |-> research[f], untried |-> Keys,
                 said |-> None]
<1>2. j \in Job /\ j.firm = f /\ j.loaded = research[f]
  BY <1>1, KeysAssumption DEF Job, Step
<1>3. worker[w] = NoJob /\ worker' = [worker EXCEPT ![w] = j] /\ UNCHANGED <<research, lost>>
  BY DEF RetryResearch
<1>4. overlapped' = IF Busy(f) = {} THEN overlapped ELSE overlapped \union {f}
  BY DEF RetryResearch
<1> HIDE DEF j
<1>5. worker'[w] = j /\ \A x \in Workers \ {w} : worker'[x] = worker[x]
  BY <1>1, <1>3
<1>6. ResearchTypeOK'
  BY <1>1, <1>2, <1>3, <1>4 DEF ResearchTypeOK
<1>7. f \notin overlapped' => \A x \in Workers : worker[x] # NoJob => worker[x].firm # f
  BY <1>4 DEF Busy
<1>8. LoneInv'
  BY <1>2, <1>4, <1>5, <1>7 DEF LoneInv
<1>9. LoadedInv'
  BY <1>2, <1>3, <1>4, <1>5 DEF LoadedInv
<1>10. ResearchAgrees'
  BY <1>3, <1>4 DEF ResearchAgrees
<1> QED BY <1>6, <1>8, <1>9, <1>10

\* A commit that leaves the worker at a step, or stops it.
LEMMA CommitOf ==
  ASSUME ResearchInv, NEW w \in Workers, worker[w] # NoJob, worker[w].step \in Holding,
         NEW new \in Row, RowAgrees(new), Save(w, new),
         \/ Done(w)
         \/ \E step \in Step \ Holding : Goto(w, step),
         lost' \subseteq Firms,
         \/ overlapped' = overlapped
         \/ /\ overlapped' = overlapped \ {worker[w].firm}
            /\ Busy(worker[w].firm) = {w} /\ worker[w].loaded = research[worker[w].firm]
  PROVE  ResearchInv'
<1>1. worker[w] \in Job
  BY DEF ResearchInv, ResearchTypeOK
<1>2. PICK j \in Job \union {NoJob} :
        /\ worker' = [worker EXCEPT ![w] = j]
        /\ j # NoJob => j.firm = worker[w].firm /\ j.step \notin Holding
  <2>1. CASE Done(w)
    BY <2>1 DEF Done
  <2>2. CASE \E step \in Step \ Holding : Goto(w, step)
    <3>1. PICK step \in Step \ Holding :
            worker' = [worker EXCEPT ![w] = [worker[w] EXCEPT !.step = step]]
      BY <2>2 DEF Goto
    <3> DEFINE k == [worker[w] EXCEPT !.step = step]
    <3>2. k \in Job /\ k.firm = worker[w].firm /\ k.step = step
      BY <1>1, JobFields
    <3> QED BY <3>1, <3>2
  <2> QED BY <2>1, <2>2
<1> QED BY <1>2, CommitStep

LEMMA ResearchInvInit == ResearchInit => ResearchInv
<1> SUFFICES ASSUME ResearchInit PROVE ResearchInv
  OBVIOUS
<1>1. NewRow \in Row /\ RowAgrees(NewRow)
  BY DEF NewRow, Row, RowAgrees
<1>2. PICK v \in [Firms -> Workers] :
        /\ \A f, g \in Firms : v[f] = v[g] => f = g
        /\ worker = [x \in Workers |->
             IF \E f \in Firms : v[f] = x
             THEN [firm |-> CHOOSE f \in Firms : v[f] = x, step |-> "queued",
                   loaded |-> NewRow, untried |-> Keys, said |-> None]
             ELSE NoJob]
  BY DEF ResearchInit
<1>3. \A f \in Firms : [firm |-> f, step |-> "queued", loaded |-> NewRow,
                        untried |-> Keys, said |-> None] \in Job
  BY <1>1, KeysAssumption DEF Job, Step
<1>4. \A x \in Workers : worker[x] # NoJob =>
        /\ v[worker[x].firm] = x /\ worker[x].step = "queued" /\ worker[x] \in Job
  <2> SUFFICES ASSUME NEW x \in Workers, worker[x] # NoJob
               PROVE  /\ v[worker[x].firm] = x /\ worker[x].step = "queued"
                      /\ worker[x] \in Job
    OBVIOUS
  <2>1. \E f \in Firms : v[f] = x
    BY <1>2
  <2> DEFINE g == CHOOSE f \in Firms : v[f] = x
  <2>2. g \in Firms /\ v[g] = x
    BY <2>1
  <2>3. worker[x] = [firm |-> g, step |-> "queued", loaded |-> NewRow, untried |-> Keys,
                     said |-> None]
    BY <1>2, <2>1
  <2> HIDE DEF g
  <2> QED BY <1>3, <2>2, <2>3
<1>5. worker \in [Workers -> Job \union {NoJob}]
  BY <1>2, <1>4
<1>6. ResearchTypeOK
  BY <1>1, <1>5 DEF ResearchInit, ResearchTypeOK
<1>7. LoneInv
  BY <1>4 DEF LoneInv
<1>8. LoadedInv
  BY <1>4 DEF LoadedInv, Holding
<1>9. ResearchAgrees
  BY <1>1 DEF ResearchInit, ResearchAgrees, RowAgrees
<1> QED BY <1>6, <1>7, <1>8, <1>9 DEF ResearchInv

LEMMA ResearchInvNext == ResearchInv /\ [ResearchNext]_researchVars => ResearchInv'
<1> SUFFICES ASSUME ResearchInv, [ResearchNext]_researchVars PROVE ResearchInv'
  OBVIOUS
<1> USE DEF At, Holding, Step
<1>0. ResearchTypeOK
  BY DEF ResearchInv
<1>1. CASE UNCHANGED researchVars
  BY <1>1 DEF researchVars, ResearchInv, ResearchTypeOK, LoneInv, LoadedInv, ResearchAgrees
<1>2. ASSUME NEW w \in Workers, NEW f \in Firms, RetryResearch(w, f) PROVE ResearchInv'
  BY <1>2, RetryPreserves
<1>3. ASSUME NEW w \in Workers, worker[w] # NoJob PROVE worker[w] \in Job
  BY <1>0, <1>3 DEF ResearchTypeOK
<1>4. ASSUME NEW w \in Workers, CommitRetry(w) PROVE ResearchInv'
  <2> DEFINE new == [worker[w].loaded EXCEPT !.status = "PENDING", !.error = None]
  <2>1. worker[w].loaded \in Row
    BY <1>3, <1>4, JobFields DEF CommitRetry
  <2>2. new \in Row /\ RowAgrees(new)
    BY <2>1 DEF Row, RowAgrees
  <2>3. Save(w, new) /\ lost' \subseteq Firms
    BY <1>0, <1>4 DEF CommitRetry, ResearchTypeOK
  <2> HIDE DEF new
  <2> QED BY <1>4, <2>2, <2>3, CommitOf DEF CommitRetry
<1>5. ASSUME NEW w \in Workers, LoadToMark(w) \/ LoadToAsk(w) \/ LoadToFail(w)
      PROVE  ResearchInv'
  BY <1>5, LoadPreserves DEF LoadToMark, LoadToAsk, LoadToFail
<1>6. ASSUME NEW w \in Workers, CommitMark(w) PROVE ResearchInv'
  <2> DEFINE new == [worker[w].loaded EXCEPT !.status = "IN_PROGRESS", !.error = None]
  <2>1. worker[w].loaded \in Row
    BY <1>3, <1>6, JobFields DEF CommitMark
  <2>2. new \in Row /\ RowAgrees(new)
    BY <2>1 DEF Row, RowAgrees
  <2>3. Save(w, new) /\ lost' \subseteq Firms
    BY <1>0, <1>6 DEF CommitMark, ResearchTypeOK
  <2> HIDE DEF new
  <2> QED BY <1>6, <2>2, <2>3, CommitOf DEF CommitMark
<1>7. ASSUME NEW w \in Workers, ProviderFails(w) \/ ProviderAnswers(w) PROVE ResearchInv'
  <2>1. worker[w] \in Job /\ worker[w] # NoJob /\ worker[w].step = "ask"
    BY <1>3, <1>7 DEF ProviderFails, ProviderAnswers
  <2>2. PICK j \in Job : /\ worker' = [worker EXCEPT ![w] = j] /\ j.firm = worker[w].firm
                         /\ j.loaded = worker[w].loaded
    <3>1. CASE ProviderFails(w)
      <4>1. worker[w].untried - 1 \in 0..Keys
        <5>1. worker[w].untried \in 0..Keys /\ worker[w].untried # 0
          BY <2>1, <3>1 DEF ProviderFails, Job
        <5> QED BY <5>1, KeysAssumption
      <4> DEFINE k == [worker[w] EXCEPT !.untried = worker[w].untried - 1]
      <4>2. worker' = [worker EXCEPT ![w] = k]
        BY <3>1 DEF ProviderFails
      <4>3. k \in Job /\ k.firm = worker[w].firm /\ k.loaded = worker[w].loaded
        BY <2>1, <4>1 DEF Job
      <4> QED BY <4>2, <4>3
    <3>2. CASE ProviderAnswers(w)
      <4>1. PICK said \in {None, "NEEDS_MORE_INFORMATION", "RECOMMEND"} :
              worker' = [worker EXCEPT ![w].step = "answered", ![w].said = said]
        BY <3>2 DEF ProviderAnswers
      <4> DEFINE k == [worker[w] EXCEPT !.step = "answered", !.said = said]
      <4>2. worker' = [worker EXCEPT ![w] = k]
        BY <4>1
      <4>3. k \in Job /\ k.firm = worker[w].firm /\ k.loaded = worker[w].loaded
        BY <2>1 DEF Job
      <4> QED BY <4>2, <4>3
    <3> QED BY <1>7, <3>1, <3>2
  <2>3. UNCHANGED <<research, overlapped>> /\ lost' \subseteq Firms
    BY <1>0, <1>7 DEF ProviderFails, ProviderAnswers, ResearchTypeOK
  <2> QED BY <2>1, <2>2, <2>3, WorkerStep
<1>8. ASSUME NEW w \in Workers, CommitFindings(w) PROVE ResearchInv'
  <2> DEFINE new == [status |-> "COMPLETED", error |-> None, fit |-> worker[w].said]
  <2>1. new \in Row /\ RowAgrees(new)
    BY <1>3, <1>8 DEF CommitFindings, Job, Row, RowAgrees
  <2>2. Save(w, new) /\ lost' \subseteq Firms
    BY <1>0, <1>8 DEF CommitFindings, ResearchTypeOK
  <2> HIDE DEF new
  <2> QED BY <1>8, <2>1, <2>2, CommitOf DEF CommitFindings
<1>9. ASSUME NEW w \in Workers, Fails(w) PROVE ResearchInv'
  BY <1>9, GotoPreserves DEF Fails
<1>10. ASSUME NEW w \in Workers, CommitFailure(w) PROVE ResearchInv'
  <2>1. worker[w].loaded \in Row
    BY <1>3, <1>10, JobFields DEF CommitFailure
  <2>2. PICK new \in Row : new = AfterFailure(worker[w].loaded) /\ RowAgrees(new)
    <3> DEFINE fit == IF worker[w].loaded.fit = None THEN "NEEDS_MORE_INFORMATION"
                      ELSE worker[w].loaded.fit
    <3>1. fit \in {"NEEDS_MORE_INFORMATION", "RECOMMEND"}
      BY <2>1 DEF Row
    <3>2. AfterFailure(worker[w].loaded) = [status |-> "FAILED", error |-> "error", fit |-> fit]
      BY DEF AfterFailure
    <3> HIDE DEF fit
    <3>3. [status |-> "FAILED", error |-> "error", fit |-> fit] \in Row
      BY <3>1 DEF Row
    <3> QED BY <3>1, <3>2, <3>3, NoneAssumption DEF RowAgrees
  <2>3. Save(w, new) /\ lost' \subseteq Firms
    BY <1>0, <1>10, <2>2 DEF CommitFailure, ResearchTypeOK
  <2> QED BY <1>10, <2>2, <2>3, CommitOf DEF CommitFailure
<1>11. ASSUME NEW w \in Workers, RefuseRetry(w) \/ LoseSession(w) PROVE ResearchInv'
  <2>1. worker[w] \in Job /\ worker[w] # NoJob
    BY <1>3, <1>11 DEF RefuseRetry, LoseSession
  <2>2. lost' \subseteq Firms
    <3>1. worker[w].firm \in Firms /\ lost \subseteq Firms
      BY <1>0, <2>1 DEF Job, ResearchTypeOK
    <3> QED BY <1>11, <3>1 DEF RefuseRetry, LoseSession
  <2>3. /\ worker' \in [Workers -> Job \union {NoJob}]
        /\ \A x \in Workers : worker'[x] \in {worker[x], NoJob}
    BY <1>0, <1>11 DEF RefuseRetry, LoseSession, Done, ResearchTypeOK
  <2> QED BY <1>11, <2>2, <2>3, EndsPreserve DEF RefuseRetry, LoseSession
<1>12. CASE Crash
  BY <1>0, <1>12, EndsPreserve DEF Crash, ResearchTypeOK
<1> QED BY <1>1, <1>2, <1>4, <1>5, <1>6, <1>7, <1>8, <1>9, <1>10, <1>11, <1>12
        DEF ResearchNext, TaskStep

\* Whatever workers do side by side, a firm on which they do not overlap has one worker at
\* most, whose session holds the row as it is; and so its columns agree.
THEOREM ResearchInvariant == ResearchSpec => []ResearchInv
<1>1. ResearchInit => ResearchInv
  BY ResearchInvInit
<1>2. ResearchInv /\ [ResearchNext]_researchVars => ResearchInv'
  BY ResearchInvNext
<1> QED BY <1>1, <1>2, PTL DEF ResearchSpec

\* The types of the research's state.
THEOREM ResearchTypeCorrect == ResearchSpec => []ResearchTypeOK
<1>1. ResearchInv => ResearchTypeOK
  BY DEF ResearchInv
<1> QED BY <1>1, ResearchInvariant, PTL

\* Unless two tasks of it overlapped, a failed research has its error and a recommendation
\* and any other has no error, for any number of applications, workers and providers.
THEOREM ResearchAlwaysAgrees == ResearchSpec => []ResearchAgrees
<1>1. ResearchInv => ResearchAgrees
  BY DEF ResearchInv
<1> QED BY <1>1, ResearchInvariant, PTL
-----------------------------------------------------------------------------
(***************************************************************************)
(* The three together.                                                     *)
(***************************************************************************)
LEMMA NoResearchAgrees == NoResearch => ResearchInv
<1> SUFFICES ASSUME NoResearch PROVE ResearchInv
  OBVIOUS
<1>1. \A w \in Workers : worker[w] = NoJob
  BY DEF NoResearch
<1> DEFINE done == [NewRow EXCEPT !.status = "COMPLETED"]
<1>2. done \in Row /\ done.status = "COMPLETED" /\ done.error = None
  BY DEF NewRow, Row
<1>3. research = [f \in Firms |-> done] /\ overlapped = {} /\ lost = {}
  BY DEF NoResearch
<1> HIDE DEF done
<1>4. ResearchTypeOK
  BY <1>2, <1>3 DEF NoResearch, ResearchTypeOK
<1>5. ResearchAgrees
  BY <1>2, <1>3 DEF ResearchAgrees
<1> QED BY <1>1, <1>4, <1>5 DEF ResearchInv, LoneInv, LoadedInv

LEMMA NoMigrationIsOnRecord == NoMigration => MigrationInv
<1> SUFFICES ASSUME NoMigration PROVE MigrationInv
  OBVIOUS
<1> DEFINE up == [Stopped EXCEPT !.at = "up"]
<1>1. up \in Runner /\ up.known = {}
  BY DEF Stopped, Runner
<1>2. /\ image = [i \in Instances |-> 0] /\ schema = {} /\ applied = {} /\ failures = 0
      /\ runner = [i \in Instances |-> up]
  BY DEF NoMigration
<1> HIDE DEF up
<1>3. RowsInv
  BY <1>1, <1>2, FilesAssumption, FailuresAssumption DEF RowsInv
<1>4. RecordInv
  BY <1>2, FilesAssumption DEF RecordInv, UpTo
<1>5. RunnerInv
  BY <1>1, <1>2 DEF RunnerInv
<1> QED BY <1>3, <1>4, <1>5 DEF MigrationInv

\* The types of the three, and what they rely on, in the behaviours TLC runs too.
AllInv == ResearchInv /\ MigrationInv /\ SplitInv

LEMMA AllInvariant == BackgroundSpec => []AllInv
<1>1. BackgroundInit => AllInv
  BY ResearchInvInit, NoResearchAgrees, InvInit, NoMigrationIsOnRecord, SplitInvInit
     DEF BackgroundInit, AllInv
<1>2. AllInv /\ [BackgroundNext]_<<part, researchVars, migrationVars, splitVars>> => AllInv'
  BY ResearchInvNext, InvNext, SplitInvNext DEF BackgroundNext, AllInv
<1> QED BY <1>1, <1>2, PTL DEF BackgroundSpec

\* The types of the three hold in the behaviours TLC runs.
THEOREM BackgroundTypeCorrect == BackgroundSpec => []BackgroundTypeOK
<1>1. AllInv => BackgroundTypeOK
  BY MigrationInvTypes DEF BackgroundTypeOK, AllInv, ResearchInv, SplitInv
<1> QED BY <1>1, AllInvariant, PTL

\* And so does what is sent of a script: its commands, each whole and in their order.
THEOREM BackgroundSplitsAtBoundaries == BackgroundSpec => []SplitsAtBoundaries
<1>1. AllInv => SplitsAtBoundaries
  BY DEF AllInv, SplitInv
<1> QED BY <1>1, AllInvariant, PTL
=============================================================================
