------------------------------ MODULE ApiKeys ------------------------------
(***************************************************************************)
(* The tenants' keys for the language models: a column that is encrypted   *)
(* when the service writes it and decrypted when it reads it, if it can    *)
(* be; the endpoint that sets a key; and the script that encrypts what was *)
(* stored before the service had an encryption key.  The script reads in   *)
(* one transaction and writes in a second one.  A stored value is the      *)
(* secret, with one encryption key in front of it for each encryption.     *)
(***************************************************************************)
EXTENDS Naturals, Sequences

CONSTANTS
  Rows,          \* pairs of a tenant and a provider
  Secrets,
  NoSecret,      \* NULL
  MasterKeys,    \* values of LLM_ENCRYPTION_KEY
  NoKey,         \* it is not set
  Upserts, Runs, \* calls of the endpoint and runs of the script in flight
  Absent,        \* there is no row
  Done,
  MaxDeploys     \* bound

Value == Seq(MasterKeys \union Secrets \union {NoSecret}) \ {<<>>}

ASSUME PlainAssumption == Secrets \intersect MasterKeys = {} /\ MaxDeploys \in Nat
ASSUME NoKeyAssumption ==
  NoSecret \notin Secrets \union MasterKeys /\ NoKey \notin MasterKeys /\ Absent \notin Value

VARIABLES
  serviceKey,
  deploys,
  stored,        \* api_key of each row
  upsert,        \* the row, the value loaded and the value to write
  script,        \* the key and the values read
  written,       \* history: the secret last set
  unreadable,    \* history: rows encrypted with another key than the service's
  stale          \* history: rows where an older secret was left in place of a newer one

keyVars == <<serviceKey, deploys, stored, upsert, script, written, unreadable, stale>>
-----------------------------------------------------------------------------
Encrypt(key, value) == <<key>> \o value

\* process_bind_param.
Bind(key, secret) ==
  IF secret = NoSecret THEN <<NoSecret>>
  ELSE IF key = NoKey THEN <<secret>>
  ELSE Encrypt(key, <<secret>>)

\* process_result_value: what is not encrypted with this key is taken for plaintext.
ResultValue(key, value) ==
  IF key # NoKey /\ Head(value) = key THEN Tail(value) ELSE value

KeyInit ==
  /\ serviceKey = NoKey /\ deploys = 0
  /\ stored \in [Rows -> {Absent} \union {<<s>> : s \in Secrets}]
  /\ upsert = [u \in Upserts |-> Done]
  /\ script = [x \in Runs |-> Done]
  /\ written = stored
  /\ unreadable = {} /\ stale = {}

\* The process ends and starts with another setting.
Redeploy(key) ==
  /\ key # serviceKey /\ deploys < MaxDeploys
  /\ serviceKey' = key /\ deploys' = deploys + 1
  /\ upsert' = [u \in Upserts |-> Done]
  /\ unreadable' = unreadable \union {r \in Rows : stored[r] # Absent /\ Len(stored[r]) > 1}
  /\ UNCHANGED <<stored, script, written, stale>>

\* upsert_provider_config up to its SELECT.
BeginUpsert(u, r, secret) ==
  /\ upsert[u] = Done
  /\ upsert' = [upsert EXCEPT ![u] = [row |-> r, loaded |-> stored[r], secret |-> secret]]
  /\ UNCHANGED <<serviceKey, deploys, stored, script, written, unreadable, stale>>

\* Its INSERT, refused when another one was faster, or its UPDATE.  The ORM compares
\* with the decrypted value it loaded, and writes no column that is the same.
CommitUpsert(u) ==
  /\ upsert[u] # Done
  /\ LET r == upsert[u].row
         loaded == upsert[u].loaded
         secret == upsert[u].secret
         new == Bind(serviceKey, secret)
         same == loaded # Absent /\ ResultValue(serviceKey, loaded) = <<secret>>
     IN IF loaded = Absent /\ stored[r] # Absent
        THEN UNCHANGED <<stored, written, unreadable, stale>>
        ELSE /\ stored' = [stored EXCEPT ![r] = IF same THEN @ ELSE new]
             /\ written' = [written EXCEPT ![r] = <<secret>>]
             /\ unreadable' = IF same THEN unreadable ELSE unreadable \ {r}
             /\ stale' = IF same /\ ResultValue(serviceKey, stored[r]) # <<secret>>
                         THEN stale \union {r} ELSE stale \ {r}
  /\ upsert' = [upsert EXCEPT ![u] = Done]
  /\ UNCHANGED <<serviceKey, deploys, script>>

\* The script's first session.  It is run with the service's key.
ScriptReads(x) ==
  /\ script[x] = Done /\ serviceKey # NoKey
  /\ script' = [script EXCEPT ![x] =
       [key |-> serviceKey,
        read |-> [r \in {q \in Rows : stored[q] \notin {Absent, <<NoSecret>>}} |-> stored[r]]]]
  /\ UNCHANGED <<serviceKey, deploys, stored, upsert, written, unreadable, stale>>

\* Fault: all of them.
ToEncryptAll(key, read) == DOMAIN read

\* The rows it writes: those it did not find encrypted.
ToEncrypt(key, read) == {r \in DOMAIN read : Head(read[r]) # key}

\* Its second session.
ScriptWrites(x) ==
  /\ script[x] # Done
  /\ LET key == script[x].key
         read == script[x].read
         plain == ToEncrypt(key, read)
     IN /\ stored' = [r \in Rows |-> IF r \in plain THEN Encrypt(key, read[r]) ELSE stored[r]]
        /\ unreadable' = unreadable \union {r \in plain :
                            key # serviceKey \/ Len(ResultValue(key, read[r])) > 1}
        /\ stale' = stale \union {r \in plain :
                       ResultValue(key, stored[r]) # ResultValue(key, read[r])}
  /\ script' = [script EXCEPT ![x] = Done]
  /\ UNCHANGED <<serviceKey, deploys, upsert, written>>

KeyNext ==
  \/ \E key \in MasterKeys \union {NoKey} : Redeploy(key)
  \/ \E u \in Upserts, r \in Rows, secret \in Secrets \union {NoSecret} : BeginUpsert(u, r, secret)
  \/ \E u \in Upserts : CommitUpsert(u)
  \/ \E x \in Runs : ScriptReads(x) \/ ScriptWrites(x)

KeySpec == KeyInit /\ [][KeyNext]_keyVars
-----------------------------------------------------------------------------
KeyTypeOK ==
  /\ serviceKey \in MasterKeys \union {NoKey} /\ deploys \in 0..MaxDeploys
  /\ stored \in [Rows -> Value \union {Absent}]
  /\ \A u \in Upserts : upsert[u] # Done =>
       upsert[u] \in [row : Rows, loaded : Value \union {Absent}, secret : Secrets \union {NoSecret}]
  /\ \A x \in Runs : script[x] # Done =>
       /\ script[x].key \in MasterKeys
       /\ DOMAIN script[x].read \subseteq Rows
       /\ \A r \in DOMAIN script[x].read : script[x].read[r] \in Value
  /\ written \in [Rows -> Value \union {Absent}]
  /\ unreadable \subseteq Rows /\ stale \subseteq Rows

\* The router reads a secret and never what encrypts it, whatever the script did in the
\* meantime and however often (its comment: "The script is idempotent"), unless the
\* encryption key was changed or taken away after the row was encrypted, or the script ran
\* with an earlier one.  It is the secret that was last set, unless the script or an
\* unchanged UPDATE left an older one in place of a newer.
KeyReadsBack ==
  \A r \in Rows : stored[r] # Absent /\ r \notin unreadable =>
    /\ Len(ResultValue(serviceKey, stored[r])) = 1
    /\ r \notin stale => ResultValue(serviceKey, stored[r]) = written[r]
=============================================================================
