------------------------------ MODULE Scoring ------------------------------
(***************************************************************************)
(* What an answer of a language model is worth to a company, and what the  *)
(* answers of several models are worth together.  Points are counted in    *)
(* halves: the calculator knows 7.5 and steps of 2.5.  Of a text the model *)
(* keeps what the calculator looks for: whether it names the company, how  *)
(* many phrases of choice and which words of praise and blame stand near   *)
(* the name, and how early the name comes.                                 *)
(***************************************************************************)
EXTENDS Integers, FiniteSets, Functions

CONSTANTS
  NoText,      \* no answer: an error, or a reply without a text
  NoScore      \* NULL in the column of the score

Position == {"first tenth", "first quarter", "first half", "third quarter", "end"}

Answer == [named : BOOLEAN, hits : Nat, position : Position, praise : Nat, blame : Nat]
-----------------------------------------------------------------------------
NaevntScore == 60

ValgtScore(text) ==
  CASE text.hits >= 2 -> 60 [] text.hits = 1 -> 30 [] OTHER -> 0

ValgbarhedScore(text) ==
  CASE text.position = "first tenth" -> 50
    [] text.position = "first quarter" -> 40
    [] text.position = "first half" -> 30
    [] text.position = "third quarter" -> 20
    [] OTHER -> 10

Clamp(n, high) == IF n < 0 THEN 0 ELSE IF n > high THEN high ELSE n

KonkurrencepositionScore(text) == Clamp(15 + 5 * (text.praise - text.blame), 30)

\* calculate, for the name of the tenant.
Calculate(text) ==
  IF text = NoText THEN 0
  ELSE IF ~text.named THEN 0
  ELSE Clamp(NaevntScore + ValgtScore(text) + ValgbarhedScore(text)
               + KonkurrencepositionScore(text), 200)

\* A total of zero is not stored.
AIScore(text) == IF Calculate(text) > 0 THEN Calculate(text) ELSE NoScore
-----------------------------------------------------------------------------
\* In hundredths.
Weight(p) ==
  CASE p \in {"openai", "perplexity"} -> 30
    [] p = "claude" -> 15
    [] OTHER -> 25

\* aggregate_scores over a function from providers to totals: the sum of the weighted
\* totals and the sum of the weights, whose quotient is the total of the aggregate.
AggregateScores(totals) ==
  LET scored == {p \in DOMAIN totals : totals[p] > 0}
  IN [sum |-> SumFunction([p \in scored |-> Weight(p) * totals[p]]),
      weight |-> SumFunction([p \in scored |-> Weight(p)]),
      providers |-> scored]
=============================================================================
