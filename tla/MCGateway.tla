----------------------------- MODULE MCGateway -----------------------------
(***************************************************************************)
(* The gateway, its rate limiter and the tenants' keys with small values   *)
(* for TLC.  The three touch at one value each: a call waits for the       *)
(* limiter, and takes the key that the column yields.  So one run takes    *)
(* them side by side, each behaviour one of them.                          *)
(***************************************************************************)
EXTENDS Gateway, RateLimiter, ApiKeys

CONSTANTS c1, c2, p1, p2, r1, r2

VARIABLE part

TheProcesses == (c1 :> p1) @@ (c2 :> p2)

TheLists == (r1 :> <<"openai">>) @@ (r2 :> <<"gemini", "openai">>)
TheDefaults == [p \in {"openai", "gemini"} |-> "large model"]

\* 35 points, and 50: a change that reaches the threshold of 10 points against the
\* average of two earlier scores and its own, and not against one earlier score.
Worst == [named |-> TRUE, hits |-> 0, position |-> "end", praise |-> 0, blame |-> 3]
Better == [Worst EXCEPT !.hits = 1]
TheAnswers == {Worst, Better}
TheOldAnswers == {Better}

AllInit ==
  /\ part \in {"gateway", "limiter", "keys"}
  /\ GatewayInit /\ LimiterInit /\ KeyInit
  /\ part # "gateway" => rows = <<>>
  /\ part # "keys" => stored = [r \in Rows |-> Absent]

AllNext ==
  \/ part = "gateway" /\ GatewayNext /\ UNCHANGED <<part, limiterVars, keyVars>>
  \/ part = "limiter" /\ LimiterNext /\ UNCHANGED <<part, gatewayVars, keyVars>>
  \/ part = "keys" /\ KeyNext /\ UNCHANGED <<part, gatewayVars, limiterVars>>

AllSpec == AllInit /\ [][AllNext]_<<part, gatewayVars, limiterVars, keyVars>>

AllTypeOK == GatewayTypeOK /\ LimiterTypeOK /\ KeyTypeOK

\* Sound: no temporal property with fairness is checked.
Symmetry == Permutations(Upserts) \union Permutations(Runs)
=============================================================================
