---------------------------- MODULE RateLimiter ----------------------------
(***************************************************************************)
(* The limiter that each call of a language model passes: a window of 60   *)
(* seconds that slides over a sorted set in Redis, shared by every process *)
(* of the service, and a list in each process for when Redis fails.        *)
(*                                                                         *)
(* One provider.  A caller reads the clock, runs the pipeline (one         *)
(* transaction in Redis) and, if it is not let through, takes its entry    *)
(* out again and sleeps.  An attempt may fail to reach Redis at any time:  *)
(* an outage is a row of them.  Redis keeps its data: no entry is evicted, *)
(* and a restart of Redis is not modelled.  Clocks of different machines   *)
(* agree, and no two readings are equal (equal ones would share an entry). *)
(***************************************************************************)
EXTENDS Integers, FiniteSets

CONSTANTS
  Callers,
  Processes,
  ProcessOf,     \* the process each caller runs in
  Limit,         \* rpm
  Window,        \* 60 seconds, in ticks
  MaxTime        \* bound: ticks of the clock

ASSUME ProcessAssumption == ProcessOf \in [Callers -> Processes]
ASSUME CallersAssumption == IsFiniteSet(Callers)
ASSUME LimitAssumption == Limit \in Nat \ {0} /\ Window \in Nat \ {0} /\ MaxTime \in Nat

VARIABLES
  now,
  bucket,        \* the sorted set: an entry is a caller and its reading of the clock
  fallback,      \* the list of each process
  caller,        \* where each caller is, and its reading
  granted,       \* history: entries let through by Redis
  late,          \* history: of these, the ones let through out of order
  swept          \* history: the latest reading that a pipeline has run with

limiterVars == <<now, bucket, fallback, caller, granted, late, swept>>

Time == 0..MaxTime
Entry == [by : Callers, at : Time]
At(c, t) == [by |-> c, at |-> t]
CallerState == [step : {"idle", "read", "withdraw", "sleep"}, at : Time]

LimiterInit ==
  /\ now = 0
  /\ bucket = {}
  /\ fallback = [p \in Processes |-> {}]
  /\ caller = [c \in Callers |-> [step |-> "idle", at |-> 0]]
  /\ granted = {} /\ late = {} /\ swept = 0
-----------------------------------------------------------------------------
\* The entries of the window that ends at t.
InWindow(entries, t) == {e \in entries : e.at > t - Window /\ e.at <= t}
Recent(entries, t) == {e \in entries : e.at > t - Window}

Moves(c, step, at) == caller' = [caller EXCEPT ![c] = [step |-> step, at |-> at]]

\* A pipeline has run with the reading t.
Sweeps(t) == swept' = IF t > swept THEN t ELSE swept

\* Redis lets e through, out of order if a pipeline has run with a later reading.
LetsThrough(e) ==
  /\ granted' = granted \union {e}
  /\ late' = IF e.at < swept THEN late \union {e} ELSE late

\* acquire: the first attempt, and one after every second of sleep.
ReadClock(c) ==
  /\ caller[c].step \in {"idle", "sleep"}
  /\ \A e \in bucket \union granted \union fallback[ProcessOf[c]] : e # At(c, now)
  /\ Moves(c, "read", now)
  /\ UNCHANGED <<now, bucket, fallback, granted, late, swept>>

\* Fault: the last slot is given twice.
PipelineOffByOne(c) ==
  /\ caller[c].step = "read"
  /\ LET kept == Recent(bucket, caller[c].at)
         e == At(c, caller[c].at)
     IN /\ bucket' = kept \union {e}
        /\ IF Cardinality(kept) > Limit
           THEN Moves(c, "withdraw", e.at) /\ UNCHANGED <<granted, late>>
           ELSE Moves(c, "idle", 0) /\ LetsThrough(e)
  /\ Sweeps(caller[c].at)
  /\ UNCHANGED <<now, fallback>>

\* ZREMRANGEBYSCORE, ZCARD and ZADD.
Pipeline(c) ==
  /\ caller[c].step = "read"
  /\ LET kept == Recent(bucket, caller[c].at)
         e == At(c, caller[c].at)
     IN /\ bucket' = kept \union {e}
        /\ IF Cardinality(kept) >= Limit
           THEN Moves(c, "withdraw", e.at) /\ UNCHANGED <<granted, late>>
           ELSE Moves(c, "idle", 0) /\ LetsThrough(e)
  /\ Sweeps(caller[c].at)
  /\ UNCHANGED <<now, fallback>>

\* The entry of a caller that was not let through.
Withdraw(c) ==
  /\ caller[c].step = "withdraw"
  /\ bucket' = bucket \ {At(c, caller[c].at)}
  /\ Moves(c, "sleep", 0)
  /\ UNCHANGED <<now, fallback, granted, late, swept>>

\* _try_acquire_local, at its own reading of the clock.
Local(c) ==
  LET p == ProcessOf[c]
      kept == Recent(fallback[p], now)
  IN IF Cardinality(kept) >= Limit
     THEN fallback' = [fallback EXCEPT ![p] = kept] /\ Moves(c, "sleep", 0)
     ELSE fallback' = [fallback EXCEPT ![p] = kept \union {At(c, now)}] /\ Moves(c, "idle", 0)

\* Redis is unreachable, or fails before the pipeline or the withdrawal.
FallBack(c) ==
  /\ caller[c].step \in {"read", "withdraw"}
  /\ At(c, now) \notin fallback[ProcessOf[c]]
  /\ Local(c)
  /\ UNCHANGED <<now, bucket, granted, late, swept>>

\* The connection breaks after Redis has run the pipeline: its entry stays.
PipelineUnanswered(c) ==
  /\ caller[c].step = "read"
  /\ At(c, now) \notin fallback[ProcessOf[c]]
  /\ bucket' = Recent(bucket, caller[c].at) \union {At(c, caller[c].at)}
  /\ Local(c)
  /\ Sweeps(caller[c].at)
  /\ UNCHANGED <<now, granted, late>>

Restart(p) ==
  /\ fallback' = [fallback EXCEPT ![p] = {}]
  /\ caller' = [c \in Callers |->
       IF ProcessOf[c] = p THEN [step |-> "idle", at |-> 0] ELSE caller[c]]
  /\ UNCHANGED <<now, bucket, granted, late, swept>>

Tick ==
  /\ now < MaxTime
  /\ now' = now + 1
  /\ UNCHANGED <<bucket, fallback, caller, granted, late, swept>>

LimiterNext ==
  \/ \E c \in Callers :
       ReadClock(c) \/ Pipeline(c) \/ Withdraw(c) \/ FallBack(c) \/ PipelineUnanswered(c)
  \/ \E p \in Processes : Restart(p)
  \/ Tick

LimiterSpec == LimiterInit /\ [][LimiterNext]_limiterVars
-----------------------------------------------------------------------------
LimiterTypeOK ==
  /\ now \in Time
  /\ bucket \subseteq Entry
  /\ fallback \in [Processes -> SUBSET Entry]
  /\ caller \in [Callers -> CallerState]
  /\ granted \subseteq Entry
  /\ late \subseteq granted
  /\ swept \in Time

\* Of the calls that Redis lets through in order, no window of 60 seconds holds more than
\* the limit, of all the processes together, over outages and restarts.  A call out of
\* order is one whose pipeline runs after that of a later reading: it counts only what the
\* other has left in the set, so each such call may be one too many.  The list of one
\* process holds no more than the limit either (the module's comment: "Each bucket allows
\* `rpm` requests per 60-second window").
WindowIsRespected ==
  \A t \in Time :
    /\ Cardinality(InWindow(granted \ late, t)) <= Limit
    /\ \A p \in Processes : Cardinality(InWindow(fallback[p], t)) <= Limit
=============================================================================
