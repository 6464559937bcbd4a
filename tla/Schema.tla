------------------------------- MODULE Schema -------------------------------
(***************************************************************************)
(* What the migration runner promises: the schema moves forward by whole   *)
(* files, in their order, and an instance serves only on a schema that has *)
(* every file it knows.  Every file is applied in the end, and every       *)
(* instance serves again after it stopped.                                 *)
(***************************************************************************)
EXTENDS MigrationFiles

VARIABLES
  schema,        \* the statements that have taken effect
  image,         \* the files each instance has, up to this number
  up             \* the instances that serve

schemaVars == <<schema, image, up>>

SchemaInit ==
  /\ image \in [Instances -> 0..LastFile]
  /\ \E v \in 0..LastFile : schema = UpTo(v)
  /\ up \subseteq {i \in Instances : UpTo(image[i]) \subseteq schema}

\* The next file of some instance takes effect, as a whole.
Advance ==
  /\ \E v \in 0..LastFile :
       /\ schema = UpTo(v)
       /\ \E i \in Instances : v < image[i]
       /\ schema' = UpTo(v + 1)
  /\ UNCHANGED <<image, up>>

Serves(i) ==
  /\ UpTo(image[i]) \subseteq schema
  /\ up' = up \union {i}
  /\ UNCHANGED <<schema, image>>

\* An instance stops, to come back with the image it had or a newer one.
Stops(i) ==
  /\ \E v \in image[i]..LastFile : image' = [image EXCEPT ![i] = v]
  /\ up' = up \ {i}
  /\ UNCHANGED schema

SchemaNext == Advance \/ \E i \in Instances : Serves(i) \/ Stops(i)

SchemaSpec ==
  /\ SchemaInit /\ [][SchemaNext]_schemaVars
  /\ WF_schemaVars(Advance)
  /\ \A i \in Instances : WF_schemaVars(Serves(i))
=============================================================================
