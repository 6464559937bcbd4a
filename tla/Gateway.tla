------------------------------ MODULE Gateway ------------------------------
(***************************************************************************)
(* The gateway to the language models, for one tenant: the router that     *)
(* sends a prompt to several providers, the cache in front of them, the    *)
(* clients, the scores of the answers, the alerts on a change, and the     *)
(* endpoints that read and recalculate the scores.                         *)
(*                                                                         *)
(* Requests interleave at each await.  Redis may fail at any call and its  *)
(* entries expire at any time; the process may die, and a request in       *)
(* flight dies with it.  Waiting for the rate limiter is only a delay here *)
(* (RateLimiter).  Rows stand in the order of their commits.               *)
(***************************************************************************)
EXTENDS Scoring, Sequences, SequencesExt

CONSTANTS
  Requests,      \* calls of the endpoint, each made once
  Prompts,
  ListOf,        \* the providers each of them asks for
  Models,
  EnvProviders,  \* providers with a key in the environment
  DefaultModel,  \* of each provider
  Answers,       \* the texts the models may give
  OldAnswers,    \* those of the rows from before there were scores
  Threshold,     \* scoring_alert_threshold, in halves of a point
  LocalMax,      \* capacity of the fallback cache, _LOCAL_MAX
  MaxSwitches,   \* bound: changes of the tenant's settings
  MaxAged,       \* bound: rows that leave the week
  NoConfig, NoEntry, Pending, Missed, Refused

Providers == DOMAIN DefaultModel
Registry == {"openai", "gemini", "perplexity", "claude"}

ASSUME ListsAssumption == ListOf \in [Requests -> Seq(Providers) \ {<<>>}]
ASSUME AnswersAssumption ==
  Answers \subseteq Answer /\ OldAnswers \subseteq Answers /\ NoText \notin Answers
ASSUME ModelsAssumption ==
  /\ Providers \subseteq Registry /\ EnvProviders \subseteq Providers
  /\ DefaultModel \in [Providers -> Models] /\ NoConfig \notin Models
  /\ OldAnswers # {} => "openai" \in Providers
ASSUME NumbersAssumption == Threshold \in Nat \ {0} /\ LocalMax \in Nat \ {0} /\ {MaxSwitches, MaxAged} \subseteq Nat

VARIABLES
  config,        \* the model of the tenant's active row for each provider
  redis,         \* the cache
  local,         \* its fallback in the process, oldest first
  request,
  rows,          \* llm_responses
  aged,          \* how many of them are older than scoring_window_days
  status,        \* of each request that is over: prompt_requests, or lost in a crash
  switched       \* history: the providers whose settings were changed, in order

gatewayVars == <<config, redis, local, request, rows, aged, status, switched>>

Key == Providers \X Prompts
Source == [provider : Providers, model : Models]
CacheEntry == [text : Answers, by : Source]    \* by: history, who gave the text

\* The result of one provider: text and error, the model it names.
Result == [provider : Providers, model : Models \union {NoConfig},
           text : Answers \union {NoText}, error : BOOLEAN,
           by : Source \union {NoEntry}]

Row == [provider : Providers, model : Models \union {NoConfig},
        text : Answers \union {NoText}, error : BOOLEAN, by : Source \union {NoEntry},
        score : Nat \union {NoScore}, dims : {"absent", "null", "set"}, alerted : BOOLEAN]

ASSUME NoResultAssumption == Pending # Missed /\ {Pending, Missed} \intersect Result = {}

Idle == [step |-> "idle", prompt |-> Pending, configs |-> Pending,
         results |-> <<>>, flushed |-> <<>>, clear |-> FALSE]
-----------------------------------------------------------------------------
\* A row stored before there were scores.
Legacy(text) ==
  [provider |-> "openai", model |-> DefaultModel["openai"], text |-> text, error |-> FALSE,
   by |-> [provider |-> "openai", model |-> DefaultModel["openai"]],
   score |-> NoScore, dims |-> "absent", alerted |-> FALSE]

GatewayInit ==
  /\ config = [p \in Providers |-> NoConfig]
  /\ redis = [k \in Key |-> NoEntry]
  /\ local = <<>>
  /\ request = [r \in Requests |-> Idle]
  /\ rows \in {<<>>} \union {<<Legacy(text)>> : text \in OldAnswers}
  /\ aged = 0
  /\ status = [r \in Requests |-> "none"]
  /\ switched = <<>>
-----------------------------------------------------------------------------
\* The clients: what each makes of a reply.  All catch every exception, so that the
\* retry around them never sees one.
Failed == [text |-> NoText, error |-> TRUE]
Text(text) == [text |-> text, error |-> FALSE]

OpenAIComplete(reply) == IF reply = Refused THEN Failed ELSE Text(reply)

PerplexityComplete(reply) == IF reply = Refused THEN Failed ELSE Text(reply)

ClaudeComplete(reply) == IF reply = Refused THEN Failed ELSE Text(reply)

\* A reply without a candidate or a text is a KeyError, and so a failure.
GeminiComplete(reply) == IF reply \in {Refused, NoText} THEN Failed ELSE Text(reply)

Complete(p, reply) ==
  CASE p = "openai" -> OpenAIComplete(reply)
    [] p = "gemini" -> GeminiComplete(reply)
    [] p = "perplexity" -> PerplexityComplete(reply)
    [] p = "claude" -> ClaudeComplete(reply)
-----------------------------------------------------------------------------
\* The model a provider is asked for: the tenant's row, else the environment.
ResolveConfig(p, configs) ==
  IF configs[p] # NoConfig THEN configs[p]
  ELSE IF p \in EnvProviders THEN DefaultModel[p] ELSE NoConfig

LocalEntries(key) == {i \in DOMAIN local : local[i].key = key}
LocalEntry(key) ==
  IF LocalEntries(key) = {} THEN NoEntry ELSE local[CHOOSE i \in LocalEntries(key) : TRUE].entry

\* Fault: the key leaves out the provider.
CacheGetAnyProvider(key) ==
  {redis[key], LocalEntry(key)} \union {redis[<<p, key[2]>>] : p \in Providers}

\* What the cache may answer: Redis, or the fallback when Redis fails.
CacheGet(key) == {redis[key], LocalEntry(key)}

\* Fault: nothing is evicted.
LocalSetUnbounded(key, entry) ==
  LET at == LocalEntries(key)
      item == [key |-> key, entry |-> entry]
  IN IF at = {} THEN Append(local, item) ELSE [local EXCEPT ![CHOOSE i \in at : TRUE] = item]

\* A new key goes to the end and the oldest goes out when the dictionary is full, also
\* when the key is already there, which then keeps its place.
LocalSet(key, entry) ==
  LET kept == IF Len(local) >= LocalMax THEN Tail(local) ELSE local
      at == {i \in DOMAIN kept : kept[i].key = key}
      item == [key |-> key, entry |-> entry]
  IN IF at = {} THEN Append(kept, item)
     ELSE [kept EXCEPT ![CHOOSE i \in at : TRUE] = item]

CacheSet(key, entry) ==
  \/ redis' = [redis EXCEPT ![key] = entry] /\ UNCHANGED local
  \/ local' = LocalSet(key, entry) /\ UNCHANGED redis
-----------------------------------------------------------------------------
\* upsert_provider_config, of what the router reads.
UpsertProviderConfig(p, model) ==
  /\ config[p] # model /\ Len(switched) < MaxSwitches
  /\ config' = [config EXCEPT ![p] = model]
  /\ switched' = Append(switched, p)
  /\ UNCHANGED <<redis, local, request, rows, aged, status>>

\* route_prompt and the start of route: the tenant's rows are read once.
RoutePrompt(r) ==
  /\ request[r].step = "idle" /\ status[r] = "none"
  /\ \E prompt \in Prompts :
       request' = [request EXCEPT ![r] =
         [Idle EXCEPT !.step = "asking", !.prompt = prompt, !.configs = config,
                      !.results = [i \in DOMAIN ListOf[r] |-> Pending]]]
  /\ UNCHANGED <<config, redis, local, rows, aged, status, switched>>

Asks(r, i) ==
  /\ request[r].step = "asking" /\ i \in DOMAIN ListOf[r]
  /\ request[r].results[i] \in {Pending, Missed}
KeyOf(r, i) == <<ListOf[r][i], request[r].prompt>>
ModelOf(r, i) == ResolveConfig(ListOf[r][i], request[r].configs)
Put(r, i, result) == request' = [request EXCEPT ![r].results[i] = result]

ResultOf(r, i, outcome, by) ==
  [provider |-> ListOf[r][i], model |-> ModelOf(r, i), text |-> outcome.text,
   error |-> outcome.error, by |-> by]

\* _call_provider up to the cache.  A hit is reported with the model of the request.
LookUp(r, i) ==
  /\ Asks(r, i) /\ request[r].results[i] = Pending
  /\ IF ModelOf(r, i) = NoConfig THEN Put(r, i, ResultOf(r, i, Failed, NoEntry))
     ELSE \E hit \in CacheGet(KeyOf(r, i)) :
            IF hit = NoEntry THEN Put(r, i, Missed)
            ELSE Put(r, i, ResultOf(r, i, Text(hit.text), hit.by))
  /\ UNCHANGED <<config, redis, local, rows, aged, status, switched>>

\* After the cache: the call, and the cache again on success.
CallProvider(r, i) ==
  /\ Asks(r, i) /\ request[r].results[i] = Missed
  /\ \E reply \in Answers \union {NoText, Refused} :
       LET p == ListOf[r][i]
           outcome == Complete(p, reply)
           by == [provider |-> p, model |-> ModelOf(r, i)]
       IN /\ Put(r, i, ResultOf(r, i, outcome, by))
          /\ IF outcome.text # NoText THEN CacheSet(KeyOf(r, i), [text |-> outcome.text, by |-> by])
             ELSE UNCHANGED <<redis, local>>
  /\ UNCHANGED <<config, rows, aged, status, switched>>
-----------------------------------------------------------------------------
Scored(s, p) == {i \in DOMAIN s : s[i].provider = p /\ s[i].score # NoScore}
Averaged(s, p) == {i \in Scored(s, p) : i > aged}
SumOf(s, I) == SumFunction([i \in I |-> s[i].score])
Abs(n) == IF n < 0 THEN -n ELSE n

\* Fault: only a rise is noticed.
DetectsARise(s, p, score) ==
  LET window == Averaged(s, p)
      n == Cardinality(window)
  IN n > 0 /\ n * score - SumOf(s, window) >= Threshold * n

\* detect_and_create_alert over the rows the session sees, its own flushed ones with
\* them: whether |score - average| reaches the threshold.
Detects(s, p, score) ==
  LET window == Averaged(s, p)
      n == Cardinality(window)
  IN n > 0 /\ Abs(n * score - SumOf(s, window)) >= Threshold * n

\* The scores are kept by provider: of a provider asked twice the last one counts.
ScoreIn(results, p) ==
  AIScore(results[CHOOSE i \in DOMAIN results :
    results[i].provider = p /\ \A j \in DOMAIN results : results[j].provider = p => j <= i].text)

ToRow(result, score) ==
  [provider |-> result.provider, model |-> result.model, text |-> result.text,
   error |-> result.error, by |-> result.by, score |-> score,
   dims |-> IF score = NoScore THEN "null" ELSE "set", alerted |-> FALSE]

\* The rest of route up to its commit: the scores, the rows and the alerts.
Detect(r) ==
  LET results == request[r].results
      written == [i \in DOMAIN results |-> ToRow(results[i], ScoreIn(results, results[i].provider))]
      seen == rows \o written
  IN /\ request[r].step = "asking"
     /\ \A i \in DOMAIN results : results[i] \notin {Pending, Missed}
     /\ request' = [request EXCEPT ![r] = [@ EXCEPT
          !.step = "flushed", !.clear = TRUE,
          !.flushed = [i \in DOMAIN written |-> [written[i] EXCEPT !.alerted =
             written[i].score # NoScore /\ Detects(seen, written[i].provider, written[i].score)]]]]
     /\ UNCHANGED <<config, redis, local, rows, aged, status, switched>>

RequestStatus(results) ==
  LET errors == {i \in DOMAIN results : results[i].error}
  IN IF errors = DOMAIN results THEN "error" ELSE IF errors # {} THEN "partial" ELSE "complete"

\* History: the averages of the requests that wait for their commit are out of date.
Overtaken == [r \in Requests |-> [request[r] EXCEPT !.clear = FALSE]]

\* One commit stores the rows, the alerts and the status.
Commit(r) ==
  /\ request[r].step = "flushed"
  /\ rows' = rows \o request[r].flushed
  /\ status' = [status EXCEPT ![r] = RequestStatus(request[r].results)]
  /\ request' = [Overtaken EXCEPT ![r] = Idle]
  /\ UNCHANGED <<config, redis, local, aged, switched>>

\* recalculate_scores.  The rows stay below the 500 of one call.
Unscored == {i \in DOMAIN rows : rows[i].score = NoScore /\ ~rows[i].error /\ rows[i].text # NoText}

\* Fault: the dimensions are not stored.
RecalculatedTotalOnly(row) ==
  IF AIScore(row.text) = NoScore THEN row ELSE [row EXCEPT !.score = AIScore(row.text)]

Recalculated(row) ==
  IF AIScore(row.text) = NoScore THEN row
  ELSE [row EXCEPT !.score = AIScore(row.text), !.dims = "set"]

RecalculateScores ==
  /\ Unscored # {}
  /\ rows' = [i \in DOMAIN rows |-> IF i \in Unscored THEN Recalculated(rows[i]) ELSE rows[i]]
  /\ request' = Overtaken
  /\ UNCHANGED <<config, redis, local, aged, status, switched>>
-----------------------------------------------------------------------------
Expire(key) ==
  /\ redis[key] # NoEntry
  /\ redis' = [redis EXCEPT ![key] = NoEntry]
  /\ UNCHANGED <<config, local, request, rows, aged, status, switched>>

Age ==
  /\ aged < Len(rows) /\ aged < MaxAged
  /\ aged' = aged + 1
  /\ request' = Overtaken
  /\ UNCHANGED <<config, redis, local, rows, status, switched>>

Crash ==
  /\ local' = <<>>
  /\ request' = [r \in Requests |-> Idle]
  /\ status' = [r \in Requests |-> IF request[r].step = "idle" THEN status[r] ELSE "lost"]
  /\ UNCHANGED <<config, redis, rows, aged, switched>>

GatewayNext ==
  \/ \E p \in Providers, model \in Models \union {NoConfig} : UpsertProviderConfig(p, model)
  \/ \E r \in Requests : RoutePrompt(r) \/ Detect(r) \/ Commit(r)
  \/ \E r \in Requests : \E i \in DOMAIN ListOf[r] : LookUp(r, i) \/ CallProvider(r, i)
  \/ RecalculateScores
  \/ \E key \in Key : Expire(key)
  \/ Age \/ Crash

GatewaySpec == GatewayInit /\ [][GatewayNext]_gatewayVars
-----------------------------------------------------------------------------
RequestState ==
  [step : {"idle", "asking", "flushed"}, prompt : Prompts \union {Pending},
   configs : [Providers -> Models \union {NoConfig}] \union {Pending},
   results : Seq(Result \union {Pending, Missed}), flushed : Seq(Row), clear : BOOLEAN]

GatewayTypeOK ==
  /\ config \in [Providers -> Models \union {NoConfig}]
  /\ redis \in [Key -> CacheEntry \union {NoEntry}]
  /\ local \in Seq([key : Key, entry : CacheEntry]) /\ Len(local) <= LocalMax
  /\ request \in [Requests -> RequestState]
  /\ rows \in Seq(Row)
  /\ aged \in 0..Len(rows)
  /\ status \in [Requests -> {"none", "error", "partial", "complete", "lost"}]
  /\ switched \in Seq(Providers) /\ Len(switched) <= MaxSwitches

\* An answer on record was given by the provider it names and, unless the tenant's
\* setting for it was changed, by the model it names: the cache keeps no model, and
\* reports a text under the model of the request that finds it.
AnswerNamesItsModel ==
  \A i \in DOMAIN rows :
    rows[i].text # NoText =>
      /\ rows[i].by.provider = rows[i].provider
      /\ rows[i].by.model = rows[i].model \/ rows[i].provider \in Range(switched)

\* A request that no other commit overtook raises an alert exactly when its score is
\* away from the average of the n scores of the last week by (n + 1) / n thresholds: its
\* own row, flushed by the query, is in the average it is held against.
AlertsFollowHistory ==
  [][\A r \in Requests :
       status'[r] \notin {status[r], "lost"} /\ request[r].clear /\ IsInjective(ListOf[r]) =>
         \A i \in DOMAIN ListOf[r] :
           LET row == rows'[Len(rows) + i]
               before == Averaged(rows, row.provider)
               n == Cardinality(before)
           IN row.score # NoScore =>
                (row.alerted <=> /\ n > 0
                                 /\ Abs(n * row.score - SumOf(rows, before)) >= Threshold * (n + 1))
    ]_gatewayVars
-----------------------------------------------------------------------------
Latest(I) == CHOOSE i \in I : \A j \in I : j <= i

\* get_scores: of each provider the latest row with a score.
GetScores == [p \in {q \in Providers : Scored(rows, q) # {}} |-> rows[Latest(Scored(rows, p))].score]

\* get_aggregated_aiscore: the latest row whose dimensions are not NULL; the JSON null
\* of a row without a score is not NULL, and such a provider is left out.
WithDims(p) == {i \in DOMAIN rows : rows[i].provider = p /\ rows[i].dims # "absent"}
ShownProviders == {p \in Providers : WithDims(p) # {} /\ rows[Latest(WithDims(p))].dims = "set"}
GetAggregatedAIScore == AggregateScores([p \in ShownProviders |-> rows[Latest(WithDims(p))].score])

\* The two endpoints agree: a provider in the aggregate counts there with the score
\* the list of scores shows for it, a listed one is missing from the aggregate only if
\* an answer without a score came later, and the aggregate is a mean of those scores.
AggregateAgreesWithScores ==
  /\ \A p \in ShownProviders : rows[Latest(WithDims(p))].score = GetScores[p]
  /\ \A p \in DOMAIN GetScores \ ShownProviders :
       \E i \in DOMAIN rows : /\ rows[i].provider = p /\ rows[i].score = NoScore
                              /\ i > Latest(Scored(rows, p))
  /\ LET total == GetAggregatedAIScore
     IN total.providers # {} =>
          /\ \E p \in total.providers : total.sum >= total.weight * GetScores[p]
          /\ \E p \in total.providers : total.sum <= total.weight * GetScores[p]
=============================================================================
