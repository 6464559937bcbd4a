--------------------------- MODULE GatewayProofs ---------------------------
(***************************************************************************)
(* The gateway's router, for any number of requests, prompts, providers'   *)
(* models and settings: whose answers are on record, when a score raises   *)
(* an alert, and that the endpoints that read the scores agree.  The rate  *)
(* limiter for any number of callers, processes and seconds, and the       *)
(* tenants' keys for any number of rows, encryption keys and runs of the   *)
(* script.                                                                 *)
(***************************************************************************)
EXTENDS MCGateway, SequenceTheorems, FiniteSetTheorems, WellFoundedInduction, TLAPS

(***************************************************************************)
(* Whose answers are on record.                                            *)
(***************************************************************************)
Switched == Range(switched)

\* What is in the state of a request that is under way: a provider is asked only if there
\* is a model to ask it for.
InFlightInv ==
  \A r \in Requests : request[r].step # "idle" =>
    /\ request[r].prompt \in Prompts
    /\ request[r].configs \in [Providers -> Models \union {NoConfig}]
    /\ DOMAIN request[r].results = DOMAIN ListOf[r]
    /\ \A i \in DOMAIN ListOf[r] :
         request[r].results[i] = Missed => ModelOf(r, i) # NoConfig

\* Of a provider whose settings never changed the tenant has no row, and had none when a
\* request in flight read them.
SettingsInv ==
  \A p \in Providers \ Switched :
    /\ config[p] = NoConfig
    /\ \A r \in Requests : request[r].step # "idle" => request[r].configs[p] = NoConfig

\* An entry of the cache is by the provider in its key, asked for its default model.
Belongs(entry, p) ==
  entry.by.provider = p /\ (p \in Switched \/ entry.by.model = DefaultModel[p])

CachedInv ==
  /\ \A key \in Key : redis[key] # NoEntry => Belongs(redis[key], key[1])
  /\ \A i \in DOMAIN local : Belongs(local[i].entry, local[i].key[1])

\* A result or a row names who gave its text.
Names(x) ==
  x.text # NoText =>
    x.by.provider = x.provider /\ (x.by.model = x.model \/ x.provider \in Switched)

AnsweredInv ==
  \A r \in Requests : request[r].step # "idle" =>
    \A i \in DOMAIN ListOf[r] :
      LET result == request[r].results[i]
      IN  result \notin {Pending, Missed} => result.provider = ListOf[r][i] /\ Names(result)

FlushedInv ==
  \A r \in Requests :
    /\ request[r].step = "flushed" => DOMAIN request[r].flushed = DOMAIN ListOf[r]
    /\ \A i \in DOMAIN request[r].flushed :
         i \in DOMAIN ListOf[r] /\ request[r].flushed[i].provider = ListOf[r][i]
           /\ Names(request[r].flushed[i])

StateInv == GatewayTypeOK /\ InFlightInv

NameInv ==
  /\ StateInv /\ SettingsInv /\ CachedInv /\ AnsweredInv /\ FlushedInv
  /\ AnswerNamesItsModel

(***************************************************************************)
(* The scores.                                                             *)
(***************************************************************************)
WellScored(row) ==
  /\ row.dims = "set" <=> row.score # NoScore
  /\ row.score # NoScore => row.score \in Nat \ {0}

ScoreInv ==
  /\ \A i \in DOMAIN rows : WellScored(rows[i])
  /\ \A r \in Requests : \A i \in DOMAIN request[r].flushed : WellScored(request[r].flushed[i])

\* A request that no commit has overtaken has its alerts by the rows as they are.
AlertInv ==
  \A r \in Requests : request[r].step = "flushed" /\ request[r].clear =>
    \A i \in DOMAIN request[r].flushed :
      LET row == request[r].flushed[i]
      IN row.alerted <=>
           row.score # NoScore /\ Detects(rows \o request[r].flushed, row.provider, row.score)
-----------------------------------------------------------------------------
(***************************************************************************)
(* Induction over a finite set.                                            *)
(***************************************************************************)
LEMMA SetInduction ==
  ASSUME NEW S, IsFiniteSet(S), NEW F, {} \in F,
         \A T \in SUBSET S : T # {} /\ (\A x \in T : T \ {x} \in F) => T \in F
  PROVE  S \in F
<1> DEFINE Bad == {T \in SUBSET S : T \notin F}
<1>1. SUFFICES ASSUME Bad # {} PROVE FALSE
  OBVIOUS
<1>2. IsWellFoundedOn(StrictSubsetOrdering(S), SUBSET S)
  BY FS_StrictSubsetOrderingWellFounded, FS_FiniteSubsetsOfFinite
<1>3. Bad \subseteq SUBSET S /\ Bad # {}
  BY <1>1
<1>4. \E T \in Bad : \A U \in Bad : ~ (<<U, T>> \in StrictSubsetOrdering(S))
  <2> HIDE DEF Bad
  <2> QED BY <1>3, <1>2, WFMin
<1>5. PICK T \in Bad : \A U \in Bad : ~ (<<U, T>> \in StrictSubsetOrdering(S))
  BY <1>4
<1>6. T \in SUBSET S /\ T \notin F /\ T # {}
  BY <1>5
<1>7. ASSUME NEW x \in T PROVE T \ {x} \in F
  <2>1. <<T \ {x}, T>> \in StrictSubsetOrdering(S)
    BY <1>6 DEF StrictSubsetOrdering
  <2> QED BY <1>5, <1>6, <2>1
<1> QED BY <1>6, <1>7

\* A function has a greatest value on a finite set.
LEMMA GreatestValue ==
  ASSUME NEW I, IsFiniteSet(I), I # {}, NEW f, \A i \in I : f[i] \in Int
  PROVE  \E i \in I : \A j \in I : f[j] <= f[i]
<1> DEFINE Greatest(J) == \E i \in J : \A j \in J : f[j] <= f[i]
           F == {J \in SUBSET I : J # {} => Greatest(J)}
<1>1. {} \in F
  OBVIOUS
<1>2. ASSUME NEW J \in SUBSET I, J # {}, \A x \in J : J \ {x} \in F
      PROVE  J \in F
  <2>1. PICK x \in J : TRUE
    BY <1>2
  <2>2. f[x] \in Int
    OBVIOUS
  <2>3. CASE J \ {x} = {}
    BY <2>1, <2>2, <2>3
  <2>4. CASE J \ {x} # {}
    <3>1. PICK i \in J \ {x} : \A j \in J \ {x} : f[j] <= f[i]
      BY <1>2, <2>4
    <3>2. f[i] \in Int
      BY <3>1
    <3>3. CASE f[x] <= f[i]
      BY <3>1, <3>3
    <3>4. CASE ~(f[x] <= f[i])
      <4>1. f[i] <= f[x] /\ \A j \in J \ {x} : f[j] \in Int
        BY <2>2, <3>2, <3>4
      <4>2. \A j \in J : f[j] <= f[x]
        BY <2>2, <3>1, <3>2, <4>1
      <4> QED BY <4>2
    <3> QED BY <3>3, <3>4
  <2> QED BY <2>3, <2>4
<1>3. I \in F
  <2> HIDE DEF F
  <2> QED BY <1>1, <1>2, SetInduction
<1> QED BY <1>3

\* A finite set of integers has a greatest element.
LEMMA GreatestExists ==
  ASSUME NEW I, IsFiniteSet(I), I \subseteq Int, I # {}
  PROVE  \E i \in I : \A j \in I : j <= i
<1> DEFINE f == [i \in I |-> i]
<1>1. \A i \in I : f[i] = i
  OBVIOUS
<1>2. \E i \in I : \A j \in I : f[j] <= f[i]
  <2> HIDE DEF f
  <2> QED BY <1>1, GreatestValue
<1> QED BY <1>1, <1>2

\* What a summation is defined by.
Sums(f, I, g) ==
  g = [T \in SUBSET I |->
         IF T = {} THEN 0 ELSE f[CHOOSE x \in T : TRUE] + g[T \ {CHOOSE x \in T : TRUE}]]

\* The sum is that of some such function.
LEMMA SumIsChosen ==
  ASSUME NEW f, NEW I
  PROVE  SumFunctionOnSet(f, I) = (CHOOSE g : Sums(f, I, g))[I]
  BY DEF Sums, SumFunctionOnSet, FoldFunctionOnSet, MapThenFoldSet

\* Over a finite set there is one.
LEMMA SumsExist ==
  ASSUME NEW f, NEW I, IsFiniteSet(I)
  PROVE  \E g : Sums(f, I, g)
<1> DEFINE Next(g, T) ==
      IF T = {} THEN 0 ELSE f[CHOOSE x \in T : TRUE] + g[T \ {CHOOSE x \in T : TRUE}]
    Upto(J) == {T \in SUBSET I : Cardinality(T) <= Cardinality(J)}
    Good(g, J) == DOMAIN g = SUBSET I /\ \A T \in Upto(J) : g[T] = Next(g, T)
    F == {J \in SUBSET I : \E g : g = [T \in SUBSET I |-> g[T]] /\ Good(g, J)}
<1>1. \A T \in SUBSET I : IsFiniteSet(T) /\ Cardinality(T) \in Nat
  BY FS_Subset, FS_CardinalityType
<1>2. {} \in F
  <2> DEFINE g == [T \in SUBSET I |-> 0]
  <2>1. \A T \in Upto({}) : T = {}
    BY <1>1, FS_EmptySet
  <2>2. Good(g, {})
    BY <2>1
  <2>3. g = [T \in SUBSET I |-> g[T]]
    OBVIOUS
  <2> HIDE DEF g, Good
  <2> QED BY <2>2, <2>3
<1>3. ASSUME NEW J \in SUBSET I, NEW x \in J, J \ {x} \in F
      PROVE  J \in F
  <2>1. PICK g : g = [T \in SUBSET I |-> g[T]] /\ Good(g, J \ {x})
    BY <1>3
  <2> DEFINE h == [T \in SUBSET I |-> IF T \in Upto(J \ {x}) THEN g[T] ELSE Next(g, T)]
  <2>2. Cardinality(J \ {x}) = Cardinality(J) - 1
    BY <1>1, FS_RemoveElement
  <2>3. ASSUME NEW T \in Upto(J), T # {}
        PROVE  T \ {CHOOSE y \in T : TRUE} \in Upto(J \ {x})
    <3>1. (CHOOSE y \in T : TRUE) \in T
      BY <2>3
    <3>2. Cardinality(T \ {CHOOSE y \in T : TRUE}) = Cardinality(T) - 1
      BY <1>1, <3>1, FS_RemoveElement
    <3>3. Cardinality(T) <= Cardinality(J) /\ Cardinality(T) \in Nat /\ Cardinality(J) \in Nat
      BY <1>1, <2>3
    <3> QED BY <2>2, <3>2, <3>3
  <2>4. ASSUME NEW T \in Upto(J) PROVE h[T] = Next(h, T)
    <3>1. h[T] = Next(g, T)
      BY <2>1
    <3>2. T # {} => h[T \ {CHOOSE y \in T : TRUE}] = g[T \ {CHOOSE y \in T : TRUE}]
      BY <2>3
    <3> QED BY <3>1, <3>2
  <2>5. DOMAIN h = SUBSET I /\ h = [T \in SUBSET I |-> h[T]]
    OBVIOUS
  <2> HIDE DEF h, Next, Upto
  <2> QED BY <2>4, <2>5
<1>4. I \in F
  <2> HIDE DEF F
  <2> QED BY <1>2, <1>3, SetInduction
<1>5. PICK g : g = [T \in SUBSET I |-> g[T]] /\ Good(g, I)
  BY <1>4
<1>6. \A T \in SUBSET I : T \in Upto(I)
  BY <1>1, FS_Subset
<1>7. \A T \in SUBSET I : g[T] = Next(g, T)
  BY <1>5, <1>6
<1>8. g = [T \in SUBSET I |-> Next(g, T)]
  BY <1>5, <1>7, Zenon
<1> QED BY <1>8 DEF Sums

\* What a sum is, one element after the other.
LEMMA SumsOfSubsets ==
  ASSUME NEW f, NEW I, IsFiniteSet(I)
  PROVE  SumFunctionOnSet(f, I) = IF I = {} THEN 0
           ELSE LET x == CHOOSE x \in I : TRUE IN f[x] + SumFunctionOnSet(f, I \ {x})
<1> DEFINE G(J) == CHOOSE g : Sums(f, J, g)
<1>1. \A J : IsFiniteSet(J) => Sums(f, J, G(J)) /\ SumFunctionOnSet(f, J) = G(J)[J]
  BY SumsExist, SumIsChosen
<1>2. ASSUME I # {}
      PROVE  LET x == CHOOSE x \in I : TRUE IN G(I)[I \ {x}] = G(I \ {x})[I \ {x}]
  <2> DEFINE x == CHOOSE x \in I : TRUE
             J == I \ {x}
             F == {T \in SUBSET J : G(I)[T] = G(J)[T]}
  <2>1. IsFiniteSet(J)
    BY FS_RemoveElement
  <2>2. \A T \in SUBSET J :
           /\ G(I)[T] = IF T = {} THEN 0
                        ELSE f[CHOOSE y \in T : TRUE] + G(I)[T \ {CHOOSE y \in T : TRUE}]
           /\ G(J)[T] = IF T = {} THEN 0
                        ELSE f[CHOOSE y \in T : TRUE] + G(J)[T \ {CHOOSE y \in T : TRUE}]
    <3> HIDE DEF G
    <3>1. Sums(f, I, G(I)) /\ Sums(f, J, G(J))
      BY <1>1, <2>1
    <3>2. SUBSET J \subseteq SUBSET I
      OBVIOUS
    <3> QED BY <3>1, <3>2 DEF Sums
  <2> HIDE DEF G
  <2>3. {} \in F
    BY <2>2
  <2>4. ASSUME NEW T \in SUBSET J, T # {}, \A z \in T : T \ {z} \in F
        PROVE  T \in F
    <3>1. (CHOOSE z \in T : TRUE) \in T
      BY <2>4
    <3> QED BY <2>2, <2>4, <3>1
  <2>5. J \in F
    <3> HIDE DEF F, J
    <3> QED BY <2>1, <2>3, <2>4, SetInduction
  <2> QED BY <2>5
<1>3. Sums(f, I, G(I))
  BY <1>1
<1>4. G(I)[I] = IF I = {} THEN 0
                ELSE f[CHOOSE x \in I : TRUE] + G(I)[I \ {CHOOSE x \in I : TRUE}]
  <2> HIDE DEF G
  <2> QED BY <1>3 DEF Sums
<1>5. IsFiniteSet(I \ {CHOOSE x \in I : TRUE})
  BY FS_RemoveElement
<1> HIDE DEF G
<1> QED BY <1>1, <1>2, <1>4, <1>5

\* Two functions that agree on a set have one sum there.
LEMMA SumAgrees ==
  ASSUME NEW I, IsFiniteSet(I), NEW f, NEW g, \A x \in I : f[x] = g[x]
  PROVE  SumFunctionOnSet(f, I) = SumFunctionOnSet(g, I)
<1> DEFINE F == {J \in SUBSET I : SumFunctionOnSet(f, J) = SumFunctionOnSet(g, J)}
<1>1. {} \in F
  BY SumsOfSubsets, FS_EmptySet
<1>2. ASSUME NEW J \in SUBSET I, J # {}, \A x \in J : J \ {x} \in F
      PROVE  J \in F
  <2> DEFINE c == CHOOSE x \in J : TRUE
  <2>1. IsFiniteSet(J) /\ c \in J
    BY <1>2, FS_Subset
  <2>2. /\ SumFunctionOnSet(f, J) = f[c] + SumFunctionOnSet(f, J \ {c})
        /\ SumFunctionOnSet(g, J) = g[c] + SumFunctionOnSet(g, J \ {c})
    BY <1>2, <2>1, SumsOfSubsets
  <2>3. SumFunctionOnSet(f, J \ {c}) = SumFunctionOnSet(g, J \ {c})
    BY <1>2, <2>1
  <2> QED BY <2>1, <2>2, <2>3
<1>3. I \in F
  <2> HIDE DEF F
  <2> QED BY <1>1, <1>2, SetInduction
<1> QED BY <1>3

\* A sum of integers is one.
LEMMA SumType ==
  ASSUME NEW I, IsFiniteSet(I), NEW f, \A x \in I : f[x] \in Int
  PROVE  SumFunctionOnSet(f, I) \in Int
<1> DEFINE F == {J \in SUBSET I : SumFunctionOnSet(f, J) \in Int}
<1>1. {} \in F
  <2>1. SumFunctionOnSet(f, {}) = 0
    BY SumsOfSubsets, FS_EmptySet
  <2> QED BY <2>1
<1>2. ASSUME NEW J \in SUBSET I, J # {}, \A x \in J : J \ {x} \in F
      PROVE  J \in F
  <2> DEFINE c == CHOOSE x \in J : TRUE
  <2>1. IsFiniteSet(J) /\ c \in J
    BY <1>2, FS_Subset
  <2>2. SumFunctionOnSet(f, J) = f[c] + SumFunctionOnSet(f, J \ {c})
    BY <1>2, <2>1, SumsOfSubsets
  <2>3. SumFunctionOnSet(f, J \ {c}) \in Int /\ f[c] \in Int
    BY <1>2, <2>1
  <2> QED BY <2>2, <2>3
<1>3. I \in F
  <2> HIDE DEF F
  <2> QED BY <1>1, <1>2, SetInduction
<1> QED BY <1>3

\* Any element may be added last.
LEMMA SumOfElement ==
  ASSUME NEW I, IsFiniteSet(I), NEW f, \A x \in I : f[x] \in Int, NEW e \in I
  PROVE  SumFunctionOnSet(f, I) = f[e] + SumFunctionOnSet(f, I \ {e})
<1> DEFINE Sum(J) == SumFunctionOnSet(f, J)
           Splits(J) == \A x \in J : Sum(J) = f[x] + Sum(J \ {x})
           F == {J \in SUBSET I : Splits(J)}
<1>0. \A J \in SUBSET I : IsFiniteSet(J) /\ Sum(J) \in Int
  <2>1. \A J \in SUBSET I : IsFiniteSet(J) /\ \A x \in J : f[x] \in Int
    BY FS_Subset
  <2> QED BY <2>1, SumType
<1>1. {} \in F
  OBVIOUS
<1>2. ASSUME NEW J \in SUBSET I, J # {}, \A x \in J : J \ {x} \in F
      PROVE  J \in F
  <2> DEFINE c == CHOOSE x \in J : TRUE
  <2>1. c \in J /\ Sum(J) = f[c] + Sum(J \ {c})
    BY <1>0, <1>2, SumsOfSubsets
  <2> HIDE DEF Sum, c
  <2>2. ASSUME NEW x \in J, x # c
        PROVE  Sum(J) = f[x] + Sum(J \ {x})
    <3>1. (J \ {c}) \ {x} = (J \ {x}) \ {c}
      OBVIOUS
    <3>2. Splits(J \ {c}) /\ Splits(J \ {x})
      BY <1>2, <2>1
    <3>3. /\ Sum(J \ {c}) = f[x] + Sum((J \ {c}) \ {x})
          /\ Sum(J \ {x}) = f[c] + Sum((J \ {c}) \ {x})
      BY <2>1, <2>2, <3>1, <3>2
    <3>4. f[x] \in Int /\ f[c] \in Int /\ Sum((J \ {c}) \ {x}) \in Int
      BY <1>0, <2>1
    <3> HIDE DEF Splits
    <3> QED BY <2>1, <3>3, <3>4
  <2>3. Splits(J)
    BY <2>1, <2>2
  <2> QED BY <2>3
<1>3. I \in F
  <2> HIDE DEF F
  <2> QED BY <1>1, <1>2, SetInduction
<1> QED BY <1>3

-----------------------------------------------------------------------------
(***************************************************************************)
(* The helpers.                                                            *)
(***************************************************************************)
\* Every client makes of a reply a text or a failure.
LEMMA CompleteType ==
  ASSUME NEW p \in Providers, NEW reply \in Answers \union {NoText, Refused}
  PROVE  Complete(p, reply) \in [text : Answers \union {NoText}, error : BOOLEAN]
<1>1. p \in Registry
  BY ModelsAssumption
<1> QED
  BY <1>1 DEF Registry, Complete, OpenAIComplete, GeminiComplete, PerplexityComplete,
     ClaudeComplete, Failed, Text

LEMMA ScoreType ==
  ASSUME NEW text \in Answers \union {NoText}
  PROVE  AIScore(text) # NoScore => AIScore(text) \in Nat \ {0}
<1>1. CASE text = NoText \/ ~text.named
  BY <1>1 DEF AIScore, Calculate
<1>2. CASE text # NoText /\ text.named
  <2>1. text.hits \in Nat /\ text.praise \in Nat /\ text.blame \in Nat
    BY <1>2, AnswersAssumption DEF Answer
  <2>2. \A n \in Int, high \in Nat : Clamp(n, high) \in Nat
    BY DEF Clamp
  <2>3. ValgtScore(text) \in Nat /\ ValgbarhedScore(text) \in Nat
    BY <2>1 DEF ValgtScore, ValgbarhedScore
  <2>4. KonkurrencepositionScore(text) \in Nat
    <3>1. 15 + 5 * (text.praise - text.blame) \in Int
      BY <2>1
    <3> QED BY <2>2, <3>1 DEF KonkurrencepositionScore
  <2>5. Calculate(text) \in Nat
    <3> DEFINE n == NaevntScore + ValgtScore(text) + ValgbarhedScore(text)
                      + KonkurrencepositionScore(text)
    <3>1. n \in Int
      BY <2>3, <2>4 DEF NaevntScore
    <3>2. Calculate(text) = Clamp(n, 200)
      BY <1>2 DEF Calculate
    <3> HIDE DEF n
    <3> QED BY <2>2, <3>1, <3>2
  <2> QED BY <2>5 DEF AIScore
<1> QED BY <1>1, <1>2

\* A sequence with another element in its place is one.
LEMMA SeqExcept ==
  ASSUME NEW S, NEW s \in Seq(S), NEW i, NEW e \in S
  PROVE  /\ [s EXCEPT ![i] = e] \in Seq(S)
         /\ DOMAIN [s EXCEPT ![i] = e] = DOMAIN s
<1>1. s \in [1..Len(s) -> S] /\ Len(s) \in Nat /\ DOMAIN s = 1..Len(s)
  OBVIOUS
<1>2. [s EXCEPT ![i] = e] \in [1..Len(s) -> S]
  BY <1>1
<1> QED BY <1>1, <1>2

\* The fallback holds what it held, or what was put into it, within its limits.
LEMMA LocalSetItems ==
  ASSUME NEW key \in Key, NEW entry \in CacheEntry, GatewayTypeOK
  PROVE  /\ LocalSet(key, entry) \in Seq([key : Key, entry : CacheEntry])
         /\ Len(LocalSet(key, entry)) <= LocalMax
         /\ \A i \in DOMAIN LocalSet(key, entry) :
              \/ LocalSet(key, entry)[i] = [key |-> key, entry |-> entry]
              \/ \E j \in DOMAIN local : LocalSet(key, entry)[i] = local[j]
<1> DEFINE Item == [key : Key, entry : CacheEntry]
           item == [key |-> key, entry |-> entry]
           kept == IF Len(local) >= LocalMax THEN Tail(local) ELSE local
           at == {i \in DOMAIN kept : kept[i].key = key}
           after == IF at = {} THEN Append(kept, item)
                    ELSE [kept EXCEPT ![CHOOSE i \in at : TRUE] = item]
<1>1. LocalSet(key, entry) = after
  BY DEF LocalSet
<1>2. local \in Seq(Item) /\ Len(local) <= LocalMax /\ LocalMax \in Nat \ {0}
  BY NumbersAssumption DEF GatewayTypeOK
<1>3. /\ kept \in Seq(Item) /\ Len(kept) < LocalMax
      /\ \A i \in DOMAIN kept : \E j \in DOMAIN local : kept[i] = local[j]
  <2>1. CASE Len(local) >= LocalMax
    <3>1. Len(local) > 0 /\ local # <<>>
      BY <1>2, <2>1
    <3>2. Tail(local) \in Seq(Item) /\ Len(Tail(local)) = Len(local) - 1
      BY <1>2, <3>1
    <3>3. \A i \in 1..Len(local) - 1 : Tail(local)[i] = local[i + 1]
      BY <1>2, <3>1
    <3>4. \A i \in 1..Len(local) - 1 : i + 1 \in DOMAIN local
      BY <1>2
    <3>5. DOMAIN Tail(local) = 1..Len(local) - 1
      BY <3>2
    <3> QED BY <1>2, <2>1, <3>2, <3>3, <3>4, <3>5
  <2>2. CASE ~(Len(local) >= LocalMax)
    BY <1>2, <2>2
  <2> QED BY <2>1, <2>2
<1>4. item \in Item
  OBVIOUS
<1> HIDE DEF kept, item, Item
<1>5. CASE at = {}
  <2>1. after = Append(kept, item)
    BY <1>5
  <2> HIDE DEF at, after
  <2>2. /\ after \in Seq(Item) /\ Len(after) = Len(kept) + 1
        /\ \A i \in 1..Len(kept) : after[i] = kept[i]
        /\ after[Len(kept) + 1] = item
    BY <1>3, <1>4, <2>1
  <2>3. DOMAIN after = 1..Len(kept) + 1 /\ DOMAIN kept = 1..Len(kept) /\ Len(kept) \in Nat
    BY <1>3, <2>2
  <2>4. \A i \in 1..Len(kept) + 1 : i \in 1..Len(kept) \/ i = Len(kept) + 1
    BY <2>3
  <2>5. Len(after) <= LocalMax
    BY <1>2, <1>3, <2>2, <2>3
  <2>6. \A i \in DOMAIN after : after[i] = item \/ \E j \in DOMAIN local : after[i] = local[j]
    BY <1>3, <2>2, <2>3, <2>4
  <2> QED BY <1>1, <2>2, <2>5, <2>6 DEF Item, item
<1>6. CASE at # {}
  <2>1. PICK c : c = (CHOOSE i \in at : TRUE)
    OBVIOUS
  <2>2. c \in DOMAIN kept /\ after = [kept EXCEPT ![c] = item]
    BY <1>6, <2>1
  <2> HIDE DEF at, after
  <2>3. after \in Seq(Item) /\ Len(after) = Len(kept) /\ DOMAIN after = DOMAIN kept
    BY <1>3, <1>4, <2>2
  <2>4. \A i \in DOMAIN after : after[i] = item \/ after[i] = kept[i]
    BY <1>3, <2>2, <2>3
  <2>5. Len(after) <= LocalMax
    BY <1>2, <1>3, <2>3
  <2>6. \A i \in DOMAIN after : after[i] = item \/ \E j \in DOMAIN local : after[i] = local[j]
    BY <1>3, <2>3, <2>4
  <2> QED BY <1>1, <2>3, <2>5, <2>6 DEF Item, item
<1> QED BY <1>5, <1>6
-----------------------------------------------------------------------------
(***************************************************************************)
(* Types.                                                                  *)
(***************************************************************************)
LEMMA StateInvInit == GatewayInit => StateInv
<1> SUFFICES ASSUME GatewayInit PROVE StateInv
  OBVIOUS
<1>1. \A text \in OldAnswers : Legacy(text) \in Row
  <2>1. \/ "openai" \in Providers /\ OldAnswers \subseteq Answers
        \/ OldAnswers = {}
    BY ModelsAssumption, AnswersAssumption
  <2> QED BY <2>1, ModelsAssumption DEF Legacy, Row, Source
<1>2. rows \in Seq(Row)
  <2>1. CASE rows = <<>>
    BY <2>1
  <2>2. CASE \E text \in OldAnswers : rows = <<Legacy(text)>>
    <3>1. PICK text \in OldAnswers : rows = <<Legacy(text)>>
      BY <2>2
    <3> DEFINE row == Legacy(text)
    <3>2. row \in Row
      BY <1>1
    <3> HIDE DEF row
    <3> QED BY <3>1, <3>2 DEF row
  <2> QED BY <2>1, <2>2 DEF GatewayInit
<1>3. Idle \in RequestState
  BY DEF Idle, RequestState
<1>4. Len(rows) \in Nat /\ aged \in 0..Len(rows)
  BY <1>2 DEF GatewayInit
<1>5. local = <<>> /\ switched = <<>> /\ Len(local) <= LocalMax /\ Len(switched) <= MaxSwitches
  BY NumbersAssumption DEF GatewayInit
<1>6. GatewayTypeOK
  BY <1>2, <1>3, <1>4, <1>5 DEF GatewayTypeOK, GatewayInit
<1>7. InFlightInv
  BY DEF InFlightInv, GatewayInit, Idle
<1> QED BY <1>6, <1>7 DEF StateInv

\* What storing a result does.
LEMMA PutChanges ==
  ASSUME StateInv, NEW r \in Requests, NEW i \in DOMAIN ListOf[r], request[r].step = "asking",
         NEW result \in Result \union {Pending, Missed}, Put(r, i, result),
         result = Missed => ModelOf(r, i) # NoConfig
  PROVE  /\ request' \in [Requests -> RequestState]
         /\ request'[r].results = [request[r].results EXCEPT ![i] = result]
         /\ \A f \in {"step", "prompt", "configs", "flushed", "clear"} :
              request'[r][f] = request[r][f]
         /\ \A q \in Requests \ {r} : request'[q] = request[q]
         /\ DOMAIN request'[r].results = DOMAIN ListOf[r]
         /\ InFlightInv'
<1>1. request \in [Requests -> RequestState] /\ request[r] \in RequestState
  BY DEF StateInv, GatewayTypeOK
<1>2. request[r].results \in Seq(Result \union {Pending, Missed})
  BY <1>1 DEF RequestState
<1> DEFINE results == [request[r].results EXCEPT ![i] = result]
           new == [request[r] EXCEPT !.results = results]
<1>3. results \in Seq(Result \union {Pending, Missed})
  BY <1>2, SeqExcept
<1>4. request' = [request EXCEPT ![r] = new]
  BY DEF Put
<1>5. new \in RequestState
  <2> HIDE DEF results
  <2> QED BY <1>1, <1>3 DEF RequestState
<1>6. /\ new.results = results
      /\ new.step = request[r].step /\ new.prompt = request[r].prompt
      /\ new.configs = request[r].configs /\ new.flushed = request[r].flushed
      /\ new.clear = request[r].clear
  <2> HIDE DEF results
  <2> QED BY <1>1 DEF RequestState
<1>7. DOMAIN results = DOMAIN ListOf[r]
  BY <1>2 DEF StateInv, InFlightInv
<1> HIDE DEF results, new
<1>8. request' \in [Requests -> RequestState] /\ request'[r] = new
      /\ \A q \in Requests \ {r} : request'[q] = request[q]
  BY <1>1, <1>4, <1>5
<1>9. ASSUME NEW j \in DOMAIN ListOf[r], results[j] = Missed
      PROVE  ModelOf(r, j) # NoConfig
  <2>1. CASE j = i
    BY <1>2, <1>9, <2>1 DEF results, StateInv, InFlightInv
  <2>2. CASE j # i
    BY <1>2, <1>9, <2>2 DEF results, StateInv, InFlightInv
  <2> QED BY <2>1, <2>2
<1>10. \A q \in Requests : \A j \in DOMAIN ListOf[q] : ModelOf(q, j)' = ModelOf(q, j)
  BY <1>6, <1>8 DEF ModelOf, ResolveConfig
<1>11. InFlightInv'
  <2>1. ASSUME NEW q \in Requests, request'[q].step # "idle"
        PROVE  /\ request'[q].prompt \in Prompts
               /\ request'[q].configs \in [Providers -> Models \union {NoConfig}]
               /\ DOMAIN request'[q].results = DOMAIN ListOf[q]
               /\ \A j \in DOMAIN ListOf[q] :
                    request'[q].results[j] = Missed => ModelOf(q, j)' # NoConfig
    <3>1. CASE q = r
      BY <1>6, <1>7, <1>8, <1>9, <1>10, <3>1 DEF StateInv, InFlightInv
    <3>2. CASE q # r
      BY <1>8, <1>10, <2>1, <3>2 DEF StateInv, InFlightInv
    <3> QED BY <3>1, <3>2
  <2> QED BY <2>1 DEF InFlightInv
<1> QED BY <1>6, <1>7, <1>8, <1>11 DEF results

LEMMA AskedProvider ==
  ASSUME NEW r \in Requests, NEW i \in DOMAIN ListOf[r]
  PROVE  ListOf[r][i] \in Providers
  BY ListsAssumption

LEMMA AskedModel ==
  ASSUME StateInv, NEW r \in Requests, request[r].step # "idle", NEW i \in DOMAIN ListOf[r]
  PROVE  ModelOf(r, i) \in Models \union {NoConfig}
<1>1. request[r].configs \in [Providers -> Models \union {NoConfig}]
  BY DEF StateInv, InFlightInv
<1> QED
  BY <1>1, AskedProvider, ModelsAssumption DEF ModelOf, ResolveConfig

LEMMA ResultType ==
  ASSUME StateInv, NEW r \in Requests, request[r].step # "idle", NEW i \in DOMAIN ListOf[r],
         NEW outcome \in [text : Answers \union {NoText}, error : BOOLEAN],
         NEW by \in Source \union {NoEntry}
  PROVE  ResultOf(r, i, outcome, by) \in Result
  BY AskedProvider, AskedModel DEF ResultOf, Result

\* What the cache answers is an entry of it.
LEMMA HitType ==
  ASSUME GatewayTypeOK, NEW key \in Key, NEW hit \in CacheGet(key), hit # NoEntry
  PROVE  /\ hit \in CacheEntry
         /\ \/ redis[key] # NoEntry /\ hit = redis[key]
            \/ \E i \in DOMAIN local : local[i].key = key /\ hit = local[i].entry
<1>1. redis[key] \in CacheEntry \union {NoEntry}
  BY DEF GatewayTypeOK
<1>2. CASE hit = redis[key]
  BY <1>1, <1>2
<1>3. CASE hit = LocalEntry(key)
  <2>1. LocalEntries(key) # {}
    BY <1>3 DEF LocalEntry
  <2>2. PICK c \in LocalEntries(key) : hit = local[c].entry
    BY <1>3, <2>1 DEF LocalEntry
  <2>3. c \in DOMAIN local /\ local[c].key = key
    BY <2>2 DEF LocalEntries
  <2>4. local[c] \in [key : Key, entry : CacheEntry]
    <3> DEFINE Item == [key : Key, entry : CacheEntry]
    <3>1. local \in Seq(Item)
      BY DEF GatewayTypeOK
    <3> HIDE DEF Item
    <3>2. local[c] \in Item
      BY <2>3, <3>1
    <3> QED BY <3>2 DEF Item
  <2> QED BY <2>2, <2>3, <2>4
<1> QED BY <1>2, <1>3 DEF CacheGet

\* A new average leaves everything of a request but its being clear.
LEMMA OvertakenState ==
  ASSUME StateInv
  PROVE  /\ Overtaken \in [Requests -> RequestState]
         /\ \A r \in Requests :
              /\ ~Overtaken[r].clear
              /\ \A f \in {"step", "prompt", "configs", "results", "flushed"} :
                   Overtaken[r][f] = request[r][f]
<1>1. ASSUME NEW r \in Requests
      PROVE  /\ Overtaken[r] \in RequestState /\ ~Overtaken[r].clear
             /\ \A f \in {"step", "prompt", "configs", "results", "flushed"} :
                  Overtaken[r][f] = request[r][f]
  <2>1. request[r] \in RequestState
    BY DEF StateInv, GatewayTypeOK
  <2>2. Overtaken[r] = [request[r] EXCEPT !.clear = FALSE]
    BY DEF Overtaken
  <2> QED BY <2>1, <2>2 DEF RequestState
<1>2. Overtaken = [r \in Requests |-> Overtaken[r]]
  BY DEF Overtaken
<1> QED BY <1>1, <1>2

LEMMA RoutePromptChanges ==
  ASSUME StateInv, NEW r \in Requests, RoutePrompt(r)
  PROVE  /\ request' \in [Requests -> RequestState]
         /\ request'[r].step = "asking" /\ request'[r].prompt \in Prompts
         /\ request'[r].configs = config
         /\ request'[r].results = [i \in DOMAIN ListOf[r] |-> Pending]
         /\ request'[r].flushed = <<>> /\ ~request'[r].clear
         /\ \A q \in Requests \ {r} : request'[q] = request[q]
<1>1. PICK prompt \in Prompts :
        request' = [request EXCEPT ![r] =
          [Idle EXCEPT !.step = "asking", !.prompt = prompt, !.configs = config,
                       !.results = [i \in DOMAIN ListOf[r] |-> Pending]]]
  BY DEF RoutePrompt
<1> DEFINE results == [i \in DOMAIN ListOf[r] |-> Pending]
           new == [Idle EXCEPT !.step = "asking", !.prompt = prompt, !.configs = config,
                               !.results = results]
<1>2. results \in Seq(Result \union {Pending, Missed})
  BY ListsAssumption
<1>3. config \in [Providers -> Models \union {NoConfig}] /\ request \in [Requests -> RequestState]
  BY DEF StateInv, GatewayTypeOK
<1> HIDE DEF results
<1>4. Idle \in RequestState /\ Idle.flushed = <<>> /\ ~Idle.clear
  BY DEF Idle, RequestState
<1>6. /\ new \in RequestState
      /\ new.step = "asking" /\ new.prompt = prompt /\ new.configs = config
      /\ new.results = results /\ new.flushed = <<>> /\ ~new.clear
  BY <1>2, <1>3, <1>4 DEF RequestState
<1>5. request' = [request EXCEPT ![r] = new]
  BY <1>1 DEF results
<1> HIDE DEF new
<1> QED BY <1>3, <1>5, <1>6 DEF results

\* The score kept for a provider is that of one of its answers.
LEMMA ScoreInType ==
  ASSUME NEW results \in Seq(Result), NEW i \in DOMAIN results
  PROVE  LET score == ScoreIn(results, results[i].provider)
         IN  score # NoScore => score \in Nat \ {0}
<1> DEFINE I == {j \in DOMAIN results : results[j].provider = results[i].provider}
           Newest(j) == /\ results[j].provider = results[i].provider
                      /\ \A k \in DOMAIN results :
                           results[k].provider = results[i].provider => k <= j
<1>1. DOMAIN results = 1..Len(results) /\ Len(results) \in Nat
  OBVIOUS
<1>2. IsFiniteSet(I) /\ I \subseteq Int /\ I # {}
  <2>1. IsFiniteSet(DOMAIN results)
    BY <1>1, FS_Interval
  <2>2. I \subseteq DOMAIN results /\ i \in I
    OBVIOUS
  <2> HIDE DEF I
  <2> QED BY <1>1, <2>1, <2>2, FS_Subset
<1>3. PICK g \in I : \A j \in I : j <= g
  <2> HIDE DEF I
  <2> QED BY <1>2, GreatestExists
<1>4. g \in DOMAIN results /\ Newest(g)
  BY <1>3
<1>5. PICK c \in DOMAIN results : c = (CHOOSE j \in DOMAIN results : Newest(j))
  <2> HIDE DEF Newest
  <2> QED BY <1>4
<1>6. results[c].text \in Answers \union {NoText}
  <2>1. results[c] \in Result
    OBVIOUS
  <2> QED BY <2>1 DEF Result
<1>7. ScoreIn(results, results[i].provider) = AIScore(results[c].text)
  BY <1>5 DEF ScoreIn
<1> QED BY <1>6, <1>7, ScoreType

\* What a request has flushed: a row for each result, with its score.
RowFor(row, result, results) ==
  /\ row \in Row
  /\ row.provider = result.provider /\ row.model = result.model
  /\ row.text = result.text /\ row.by = result.by
  /\ row.score = ScoreIn(results, result.provider)
  /\ row.dims = IF row.score = NoScore THEN "null" ELSE "set"

Written(results) ==
  [i \in DOMAIN results |-> ToRow(results[i], ScoreIn(results, results[i].provider))]

LEMMA DetectChanges ==
  ASSUME StateInv, NEW r \in Requests, Detect(r)
  PROVE  LET results == request[r].results
             added == Written(results)
         IN  /\ request[r].step = "asking"
             /\ results \in Seq(Result) /\ DOMAIN results = DOMAIN ListOf[r]
             /\ \A i \in DOMAIN results : results[i] \notin {Pending, Missed}
             /\ request' \in [Requests -> RequestState]
             /\ \A q \in Requests \ {r} : request'[q] = request[q]
             /\ request'[r].step = "flushed" /\ request'[r].clear
             /\ \A f \in {"prompt", "configs", "results"} : request'[r][f] = request[r][f]
             /\ DOMAIN request'[r].flushed = DOMAIN results
             /\ added \in Seq(Row) /\ DOMAIN added = DOMAIN results
             /\ \A i \in DOMAIN results :
                  LET row == request'[r].flushed[i]
                  IN  /\ RowFor(row, results[i], results) /\ RowFor(added[i], results[i], results)
                      /\ row.alerted <=> row.score # NoScore
                                         /\ Detects(rows \o added, row.provider, row.score)
<1> DEFINE results == request[r].results
           added == Written(results)
           seen == rows \o added
           Alerts(row) == row.score # NoScore /\ Detects(seen, row.provider, row.score)
           flushed == [i \in DOMAIN added |-> [added[i] EXCEPT !.alerted = Alerts(added[i])]]
           new == [request[r] EXCEPT !.step = "flushed", !.clear = TRUE, !.flushed = flushed]
<1>1. /\ request[r].step = "asking"
      /\ \A i \in DOMAIN results : results[i] \notin {Pending, Missed}
      /\ request' = [request EXCEPT ![r] = new]
  BY DEF Detect, Written
<1>2. request \in [Requests -> RequestState] /\ request[r] \in RequestState
  BY DEF StateInv, GatewayTypeOK
<1>3. results \in Seq(Result \union {Pending, Missed})
  BY <1>2 DEF RequestState
<1>4. \A i \in DOMAIN results : results[i] \in Result
  <2> HIDE DEF results
  <2> QED BY <1>1, <1>3
<1>5. results \in Seq(Result) /\ DOMAIN results = DOMAIN ListOf[r]
  <2>1. DOMAIN results = 1..Len(results) /\ Len(results) \in Nat
    BY <1>3
  <2>2. results = [i \in 1..Len(results) |-> results[i]]
    BY <1>3, <2>1
  <2>3. DOMAIN results = DOMAIN ListOf[r]
    BY <1>1 DEF StateInv, InFlightInv
  <2> HIDE DEF results
  <2>4. results \in [1..Len(results) -> Result]
    BY <1>4, <2>1, <2>2
  <2> QED BY <2>1, <2>3, <2>4
<1>6. ASSUME NEW i \in DOMAIN results
      PROVE  RowFor(added[i], results[i], results)
  <2> DEFINE score == ScoreIn(results, results[i].provider)
             row == ToRow(results[i], score)
  <2>1. added[i] = row
    BY DEF Written
  <2>2. score # NoScore => score \in Nat \ {0}
    BY <1>5, ScoreInType
  <2>3. results[i] \in Result
    BY <1>4
  <2> HIDE DEF score, results
  <2> QED BY <2>1, <2>2, <2>3 DEF RowFor, ToRow, Row, Result, score
<1>7. DOMAIN added = DOMAIN results /\ DOMAIN flushed = DOMAIN results
  BY DEF Written
<1>8. ASSUME NEW i \in DOMAIN results
      PROVE  /\ RowFor(flushed[i], results[i], results)
             /\ flushed[i].alerted <=> Alerts(flushed[i])
  <2> DEFINE row == added[i]
             b == Alerts(row)
  <2>1. flushed[i] = [row EXCEPT !.alerted = b]
    BY <1>7
  <2>2. RowFor(row, results[i], results)
    BY <1>6
  <2>3. b \in BOOLEAN
    OBVIOUS
  <2>4. Alerts([row EXCEPT !.alerted = b]) <=> b
    <3>1. row \in Row
      BY <2>2 DEF RowFor
    <3> DEFINE alerted == [row EXCEPT !.alerted = b]
    <3>2. alerted.score = row.score /\ alerted.provider = row.provider
      <4> HIDE DEF b, row
      <4> QED BY <3>1 DEF Row
    <3> HIDE DEF alerted, seen
    <3> QED BY <3>2
  <2> HIDE DEF b, row, results
  <2>5. /\ RowFor([row EXCEPT !.alerted = b], results[i], results)
        /\ [row EXCEPT !.alerted = b].alerted = b
    BY <2>2, <2>3 DEF RowFor, Row
  <2> HIDE DEF flushed, Alerts
  <2> QED BY <2>1, <2>4, <2>5
<1>9. flushed \in Seq(Row) /\ added \in Seq(Row)
  <2>1. DOMAIN results = 1..Len(results) /\ Len(results) \in Nat
    BY <1>5
  <2>2. /\ \A i \in DOMAIN results : flushed[i] \in Row /\ added[i] \in Row
        /\ flushed = [i \in DOMAIN results |-> flushed[i]]
        /\ added = [i \in DOMAIN results |-> added[i]]
    <3>1. flushed = [i \in DOMAIN flushed |-> flushed[i]]
          /\ added = [i \in DOMAIN added |-> added[i]]
      BY DEF Written
    <3> HIDE DEF flushed, added, results
    <3> QED BY <1>6, <1>7, <1>8, <3>1 DEF RowFor
  <2> HIDE DEF flushed, added, results
  <2> QED BY <2>1, <2>2
<1>10. /\ new \in RequestState /\ new.step = "flushed" /\ new.clear /\ new.flushed = flushed
       /\ new.prompt = request[r].prompt /\ new.configs = request[r].configs
       /\ new.results = results
  <2> HIDE DEF flushed
  <2> QED BY <1>2, <1>9 DEF RequestState
<1> HIDE DEF new
<1>11. /\ request' \in [Requests -> RequestState] /\ request'[r] = new
       /\ \A q \in Requests \ {r} : request'[q] = request[q]
  BY <1>1, <1>2, <1>10
<1> HIDE DEF flushed
<1> QED BY <1>1, <1>5, <1>6, <1>7, <1>8, <1>9, <1>10, <1>11

\* The key under which an answer is looked for, and kept.
LEMMA KeyType ==
  ASSUME StateInv, NEW r \in Requests, request[r].step # "idle", NEW i \in DOMAIN ListOf[r]
  PROVE  KeyOf(r, i) \in Key /\ KeyOf(r, i)[1] = ListOf[r][i]
  BY AskedProvider DEF KeyOf, Key, StateInv, InFlightInv

\* A result that the cache or a provider gave, and what the cache keeps of it.
LEMMA LookUpChanges ==
  ASSUME StateInv, NEW r \in Requests, NEW i \in DOMAIN ListOf[r], LookUp(r, i)
  PROVE  \E result \in Result \union {Missed} :
           /\ request[r].step = "asking" /\ Put(r, i, result)
           /\ \/ ModelOf(r, i) = NoConfig /\ result = ResultOf(r, i, Failed, NoEntry)
              \/ ModelOf(r, i) # NoConfig /\ result = Missed
              \/ /\ ModelOf(r, i) # NoConfig
                 /\ \E hit \in CacheGet(KeyOf(r, i)) :
                      hit # NoEntry /\ result = ResultOf(r, i, Text(hit.text), hit.by)
<1>1. request[r].step = "asking"
  BY DEF LookUp, Asks
<1>2. KeyOf(r, i) \in Key
  BY <1>1, KeyType
<1>3. Failed \in [text : Answers \union {NoText}, error : BOOLEAN]
  BY DEF Failed
<1>4. CASE ModelOf(r, i) = NoConfig
  <2>1. ResultOf(r, i, Failed, NoEntry) \in Result
    BY <1>1, <1>3, ResultType
  <2> QED BY <1>1, <1>4, <2>1 DEF LookUp
<1>5. CASE ModelOf(r, i) # NoConfig
  <2>1. PICK hit \in CacheGet(KeyOf(r, i)) :
          IF hit = NoEntry THEN Put(r, i, Missed)
          ELSE Put(r, i, ResultOf(r, i, Text(hit.text), hit.by))
    BY <1>5 DEF LookUp
  <2>2. CASE hit = NoEntry
    BY <1>1, <1>5, <2>1, <2>2
  <2>3. CASE hit # NoEntry
    <3>1. hit \in CacheEntry
      BY <1>2, <2>3, HitType DEF StateInv
    <3>2. Text(hit.text) \in [text : Answers \union {NoText}, error : BOOLEAN]
          /\ hit.by \in Source \union {NoEntry}
      BY <3>1 DEF CacheEntry, Text
    <3>3. ResultOf(r, i, Text(hit.text), hit.by) \in Result
      BY <1>1, <3>2, ResultType
    <3> QED BY <1>1, <1>5, <2>1, <2>3, <3>3
  <2> QED BY <2>2, <2>3
<1> QED BY <1>4, <1>5

LEMMA CallChanges ==
  ASSUME StateInv, NEW r \in Requests, NEW i \in DOMAIN ListOf[r], CallProvider(r, i)
  PROVE  \E outcome \in [text : Answers \union {NoText}, error : BOOLEAN] :
           LET by == [provider |-> ListOf[r][i], model |-> ModelOf(r, i)]
               entry == [text |-> outcome.text, by |-> by]
               result == ResultOf(r, i, outcome, by)
           IN  /\ request[r].step = "asking" /\ request[r].results[i] = Missed
               /\ Put(r, i, result)
               /\ \/ UNCHANGED <<redis, local>>
                  \/ outcome.text \in Answers /\ CacheSet(KeyOf(r, i), entry)
<1> DEFINE p == ListOf[r][i]
           by == [provider |-> p, model |-> ModelOf(r, i)]
<1>1. PICK reply \in Answers \union {NoText, Refused} :
        /\ Put(r, i, ResultOf(r, i, Complete(p, reply), by))
        /\ IF Complete(p, reply).text # NoText
           THEN CacheSet(KeyOf(r, i), [text |-> Complete(p, reply).text, by |-> by])
           ELSE UNCHANGED <<redis, local>>
  BY DEF CallProvider
<1> DEFINE outcome == Complete(p, reply)
<1>2. outcome \in [text : Answers \union {NoText}, error : BOOLEAN]
  BY AskedProvider, CompleteType
<1>3. outcome.text # NoText => outcome.text \in Answers
  BY <1>2
<1>4. request[r].step = "asking" /\ request[r].results[i] = Missed
  BY DEF CallProvider, Asks
<1> HIDE DEF outcome
<1>5. /\ Put(r, i, ResultOf(r, i, outcome, by))
      /\ \/ UNCHANGED <<redis, local>>
         \/ outcome.text \in Answers /\ CacheSet(KeyOf(r, i), [text |-> outcome.text, by |-> by])
  BY <1>1, <1>3 DEF outcome
<1> QED BY <1>2, <1>4, <1>5

LEMMA CacheSetType ==
  ASSUME GatewayTypeOK, NEW key \in Key, NEW entry \in CacheEntry, CacheSet(key, entry)
  PROVE  /\ redis' \in [Key -> CacheEntry \union {NoEntry}]
         /\ local' \in Seq([key : Key, entry : CacheEntry]) /\ Len(local') <= LocalMax
<1>1. CASE redis' = [redis EXCEPT ![key] = entry] /\ UNCHANGED local
  BY <1>1 DEF GatewayTypeOK
<1>2. CASE local' = LocalSet(key, entry) /\ UNCHANGED redis
  BY <1>2, LocalSetItems DEF GatewayTypeOK
<1> QED BY <1>1, <1>2 DEF CacheSet

LEMMA EntryType ==
  ASSUME StateInv, NEW r \in Requests, request[r].step # "idle", NEW i \in DOMAIN ListOf[r],
         ModelOf(r, i) # NoConfig, NEW text \in Answers
  PROVE  [text |-> text, by |-> [provider |-> ListOf[r][i], model |-> ModelOf(r, i)]] \in CacheEntry
  BY AskedProvider, AskedModel DEF CacheEntry, Source

\* Nothing that the invariants of requests are about changes.
RequestsStay ==
  \A r \in Requests : \A f \in {"step", "prompt", "configs", "results", "flushed"} :
    request'[r][f] = request[r][f]

LEMMA InFlightStays ==
  ASSUME StateInv, RequestsStay
  PROVE  InFlightInv'
<1>1. \A r \in Requests : \A i \in DOMAIN ListOf[r] : ModelOf(r, i)' = ModelOf(r, i)
  BY DEF RequestsStay, ModelOf, ResolveConfig
<1> QED
  BY <1>1 DEF RequestsStay, StateInv, InFlightInv

\* When one request is replaced the others stay in flight as they were.
LEMMA InFlightButOne ==
  ASSUME StateInv, NEW r \in Requests, \A q \in Requests \ {r} : request'[q] = request[q],
         request'[r].step # "idle" =>
           /\ request'[r].prompt \in Prompts
           /\ request'[r].configs \in [Providers -> Models \union {NoConfig}]
           /\ DOMAIN request'[r].results = DOMAIN ListOf[r]
           /\ \A i \in DOMAIN ListOf[r] : request'[r].results[i] # Missed
  PROVE  InFlightInv'
<1>1. \A q \in Requests \ {r} : \A i \in DOMAIN ListOf[q] : ModelOf(q, i)' = ModelOf(q, i)
  BY DEF ModelOf, ResolveConfig
<1>2. ASSUME NEW q \in Requests, request'[q].step # "idle"
      PROVE  /\ request'[q].prompt \in Prompts
             /\ request'[q].configs \in [Providers -> Models \union {NoConfig}]
             /\ DOMAIN request'[q].results = DOMAIN ListOf[q]
             /\ \A i \in DOMAIN ListOf[q] :
                  request'[q].results[i] = Missed => ModelOf(q, i)' # NoConfig
  <2>1. CASE q = r
    BY <1>2, <2>1
  <2>2. CASE q # r
    BY <1>1, <1>2, <2>2 DEF StateInv, InFlightInv
  <2> QED BY <2>1, <2>2
<1> QED
  BY <1>2 DEF InFlightInv

LEMMA CommitChanges ==
  ASSUME StateInv, NEW r \in Requests, Commit(r)
  PROVE  /\ request[r].step = "flushed" /\ rows' = rows \o request[r].flushed
         /\ request' \in [Requests -> RequestState]
         /\ request'[r].step = "idle" /\ request'[r].flushed = <<>>
         /\ \A q \in Requests \ {r} :
              /\ ~request'[q].clear
              /\ \A f \in {"step", "prompt", "configs", "results", "flushed"} :
                   request'[q][f] = request[q][f]
<1>1. /\ request[r].step = "flushed" /\ rows' = rows \o request[r].flushed
      /\ request' = [Overtaken EXCEPT ![r] = Idle]
  BY DEF Commit
<1>2. Idle \in RequestState /\ Idle.step = "idle" /\ Idle.flushed = <<>>
  BY DEF Idle, RequestState
<1> QED
  BY <1>1, <1>2, OvertakenState

LEMMA RecalculatedType ==
  ASSUME NEW row \in Row
  PROVE  /\ Recalculated(row) \in Row
         /\ \A f \in {"provider", "model", "text", "by"} : Recalculated(row)[f] = row[f]
         /\ WellScored(row) => WellScored(Recalculated(row))
<1>1. CASE AIScore(row.text) = NoScore
  BY <1>1 DEF Recalculated
<1>2. CASE AIScore(row.text) # NoScore
  <2> DEFINE score == AIScore(row.text)
  <2>1. score \in Nat \ {0} /\ score # NoScore
    BY <1>2, ScoreType DEF Row
  <2>2. Recalculated(row) = [row EXCEPT !.score = score, !.dims = "set"]
    BY <1>2 DEF Recalculated
  <2> HIDE DEF score
  <2> QED BY <2>1, <2>2 DEF Row, WellScored
<1> QED BY <1>1, <1>2

LEMMA StateInvStep ==
  ASSUME StateInv, [GatewayNext]_gatewayVars
  PROVE  StateInv'
<1> USE DEF StateInv
<1>1. ASSUME NEW p \in Providers, NEW model \in Models \union {NoConfig},
             UpsertProviderConfig(p, model)
      PROVE  StateInv'
  <2>1. switched' \in Seq(Providers) /\ Len(switched') <= MaxSwitches
    <3>1. switched \in Seq(Providers) /\ Len(switched) < MaxSwitches
          /\ switched' = Append(switched, p)
      BY <1>1 DEF UpsertProviderConfig, GatewayTypeOK
    <3>2. switched' \in Seq(Providers) /\ Len(switched') = Len(switched) + 1
      BY <3>1
    <3> QED BY <3>1, <3>2, NumbersAssumption
  <2>3. GatewayTypeOK'
    BY <1>1, <2>1 DEF UpsertProviderConfig, GatewayTypeOK
  <2>2. InFlightInv'
    BY <1>1, InFlightStays DEF UpsertProviderConfig, RequestsStay
  <2> QED BY <2>2, <2>3
<1>2. ASSUME NEW r \in Requests, RoutePrompt(r)
      PROVE  StateInv'
  <2>1. GatewayTypeOK'
    BY <1>2, RoutePromptChanges DEF RoutePrompt, GatewayTypeOK
  <2>2. config \in [Providers -> Models \union {NoConfig}]
    BY DEF GatewayTypeOK
  <2>3. \A i \in DOMAIN ListOf[r] : request'[r].results[i] = Missed => FALSE
    BY <1>2, RoutePromptChanges, NoResultAssumption
  <2>4. InFlightInv'
    BY <1>2, <2>2, <2>3, RoutePromptChanges, InFlightButOne
  <2> QED BY <2>1, <2>4
<1>3. ASSUME NEW r \in Requests, Detect(r)
      PROVE  StateInv'
  <2>1. GatewayTypeOK'
    BY <1>3, DetectChanges DEF Detect, GatewayTypeOK
  <2>2. \A i \in DOMAIN ListOf[r] : request'[r].results[i] # Missed
    BY <1>3, DetectChanges
  <2>3. /\ request'[r].prompt = request[r].prompt /\ request'[r].configs = request[r].configs
        /\ request'[r].results = request[r].results /\ request[r].step # "idle"
        /\ \A q \in Requests \ {r} : request'[q] = request[q]
    BY <1>3, DetectChanges
  <2>4. InFlightInv'
    BY <2>2, <2>3, InFlightButOne DEF InFlightInv
  <2> QED BY <2>1, <2>4
<1>4. ASSUME NEW r \in Requests, Commit(r)
      PROVE  StateInv'
  <2>1. request[r].flushed \in Seq(Row) /\ rows \in Seq(Row)
    <3>1. request[r] \in RequestState
      BY DEF GatewayTypeOK
    <3> QED BY <3>1 DEF GatewayTypeOK, RequestState
  <2>2. rows' \in Seq(Row) /\ Len(rows') >= Len(rows) /\ Len(rows) \in Nat /\ Len(rows') \in Nat
    <3> DEFINE new == request[r].flushed
    <3>1. rows' = rows \o new /\ new \in Seq(Row) /\ rows \in Seq(Row)
      BY <1>4, <2>1, CommitChanges
    <3> HIDE DEF new
    <3>2. rows' \in Seq(Row) /\ Len(rows') = Len(rows) + Len(new)
      BY <3>1
    <3>3. Len(rows) \in Nat /\ Len(new) \in Nat
      BY <3>1
    <3> QED BY <3>2, <3>3
  <2>3. aged' \in 0..Len(rows')
    BY <1>4, <2>2 DEF Commit, GatewayTypeOK
  <2>4. status' \in [Requests -> {"none", "error", "partial", "complete", "lost"}]
    BY <1>4 DEF Commit, GatewayTypeOK, RequestStatus
  <2>5. GatewayTypeOK'
    BY <1>4, <2>2, <2>3, <2>4, CommitChanges DEF Commit, GatewayTypeOK
  <2>6. ASSUME NEW q \in Requests, request'[q].step # "idle"
        PROVE  q # r /\ \A f \in {"step", "prompt", "configs", "results", "flushed"} :
                          request'[q][f] = request[q][f]
    BY <1>4, <2>6, CommitChanges
  <2>7. \A q \in Requests \ {r} : \A i \in DOMAIN ListOf[q] : ModelOf(q, i)' = ModelOf(q, i)
    BY <1>4, CommitChanges DEF ModelOf, ResolveConfig
  <2>8. InFlightInv'
    BY <2>6, <2>7 DEF InFlightInv
  <2> QED BY <2>5, <2>8
<1>5. ASSUME NEW r \in Requests, NEW i \in DOMAIN ListOf[r], LookUp(r, i)
      PROVE  StateInv'
  <2>1. PICK result \in Result \union {Missed} :
          /\ request[r].step = "asking" /\ Put(r, i, result)
          /\ result = Missed => ModelOf(r, i) # NoConfig
    <3>1. Missed \notin Result
      BY NoResultAssumption
    <3>2. PICK result \in Result \union {Missed} :
            /\ request[r].step = "asking" /\ Put(r, i, result)
            /\ \/ ModelOf(r, i) = NoConfig /\ result = ResultOf(r, i, Failed, NoEntry)
               \/ ModelOf(r, i) # NoConfig
      BY <1>5, LookUpChanges
    <3>3. request[r].step = "asking" => ResultOf(r, i, Failed, NoEntry) \in Result
      <4>1. Failed \in [text : Answers \union {NoText}, error : BOOLEAN]
        BY DEF Failed
      <4> QED BY <4>1, ResultType
    <3> QED BY <3>1, <3>2, <3>3
  <2>2. request' \in [Requests -> RequestState] /\ InFlightInv'
    BY <2>1, PutChanges
  <2>3. GatewayTypeOK'
    BY <1>5, <2>2 DEF LookUp, GatewayTypeOK
  <2> QED BY <2>2, <2>3
<1>6. ASSUME NEW r \in Requests, NEW i \in DOMAIN ListOf[r], CallProvider(r, i)
      PROVE  StateInv'
  <2> DEFINE by == [provider |-> ListOf[r][i], model |-> ModelOf(r, i)]
  <2>1. PICK outcome \in [text : Answers \union {NoText}, error : BOOLEAN] :
          /\ request[r].step = "asking" /\ request[r].results[i] = Missed
          /\ Put(r, i, ResultOf(r, i, outcome, by))
          /\ \/ UNCHANGED <<redis, local>>
             \/ /\ outcome.text \in Answers
                /\ CacheSet(KeyOf(r, i), [text |-> outcome.text, by |-> by])
    BY <1>6, CallChanges
  <2>2. ModelOf(r, i) # NoConfig
    BY <2>1 DEF InFlightInv
  <2>3. by \in Source
    BY <2>1, <2>2, AskedProvider, AskedModel DEF Source
  <2>4. ResultOf(r, i, outcome, by) \in Result
    <3> HIDE DEF by
    <3> QED BY <2>1, <2>3, ResultType
  <2>5. request' \in [Requests -> RequestState] /\ InFlightInv'
    <3> HIDE DEF by
    <3> QED BY <2>1, <2>2, <2>4, PutChanges
  <2>6. /\ redis' \in [Key -> CacheEntry \union {NoEntry}]
        /\ local' \in Seq([key : Key, entry : CacheEntry]) /\ Len(local') <= LocalMax
    <3>1. CASE UNCHANGED <<redis, local>>
      BY <3>1 DEF GatewayTypeOK
    <3>2. CASE /\ outcome.text \in Answers
               /\ CacheSet(KeyOf(r, i), [text |-> outcome.text, by |-> by])
      <4> DEFINE entry == [text |-> outcome.text, by |-> by]
      <4>1. entry \in CacheEntry
        BY <2>1, <2>2, <3>2, EntryType
      <4>2. KeyOf(r, i) \in Key
        BY <2>1, KeyType
      <4> HIDE DEF entry
      <4> QED BY <3>2, <4>1, <4>2, CacheSetType DEF entry
    <3> QED BY <2>1, <3>1, <3>2
  <2>7. GatewayTypeOK'
    BY <1>6, <2>5, <2>6 DEF CallProvider, GatewayTypeOK
  <2> QED BY <2>5, <2>7
<1>7. ASSUME RecalculateScores
      PROVE  StateInv'
  <2>1. rows \in Seq(Row) /\ DOMAIN rows = 1..Len(rows) /\ Len(rows) \in Nat
    BY DEF GatewayTypeOK
  <2>2. \A i \in DOMAIN rows : rows'[i] \in Row
    <3>1. \A i \in DOMAIN rows : rows[i] \in Row
      BY <2>1
    <3> QED BY <1>7, <3>1, RecalculatedType DEF RecalculateScores
  <2>3. rows' = [i \in 1..Len(rows) |-> rows'[i]]
    BY <1>7, <2>1 DEF RecalculateScores
  <2>4. rows' \in Seq(Row) /\ Len(rows') = Len(rows)
    BY <2>1, <2>2, <2>3
  <2>5. request' = Overtaken
    BY <1>7 DEF RecalculateScores
  <2>6. GatewayTypeOK'
    BY <1>7, <2>4, <2>5, OvertakenState DEF RecalculateScores, GatewayTypeOK
  <2>7. InFlightInv'
    BY <2>5, OvertakenState, InFlightStays DEF RequestsStay
  <2> QED BY <2>6, <2>7
<1>8. ASSUME NEW key \in Key, Expire(key)
      PROVE  StateInv'
  <2>1. GatewayTypeOK'
    BY <1>8 DEF Expire, GatewayTypeOK
  <2>2. InFlightInv'
    BY <1>8, InFlightStays DEF Expire, RequestsStay
  <2> QED BY <2>1, <2>2
<1>9. ASSUME Age
      PROVE  StateInv'
  <2>1. Len(rows) \in Nat
    BY DEF GatewayTypeOK
  <2>2. GatewayTypeOK'
    BY <1>9, <2>1, OvertakenState DEF Age, GatewayTypeOK
  <2>3. InFlightInv'
    BY <1>9, OvertakenState, InFlightStays DEF Age, RequestsStay
  <2> QED BY <2>2, <2>3
<1>10. ASSUME Crash
       PROVE  StateInv'
  <2>1. Idle \in RequestState /\ Idle.step = "idle"
    BY DEF Idle, RequestState
  <2>2. request' = [r \in Requests |-> Idle]
    BY <1>10 DEF Crash
  <2>3. local' = <<>> /\ Len(local') <= LocalMax
    BY <1>10, NumbersAssumption DEF Crash
  <2>4. GatewayTypeOK'
    BY <1>10, <2>1, <2>2, <2>3 DEF Crash, GatewayTypeOK
  <2>5. InFlightInv'
    BY <2>1, <2>2 DEF InFlightInv
  <2> QED BY <2>4, <2>5
<1>11. CASE UNCHANGED gatewayVars
  <2>1. GatewayTypeOK'
    BY <1>11 DEF gatewayVars, GatewayTypeOK
  <2>2. InFlightInv'
    BY <1>11, InFlightStays DEF gatewayVars, RequestsStay
  <2> QED BY <2>1, <2>2
<1> QED
  BY <1>1, <1>2, <1>3, <1>4, <1>5, <1>6, <1>7, <1>8, <1>9, <1>10, <1>11 DEF GatewayNext

\* Requests, rows, cache, lists of providers and settings have their types, whatever the
\* requests do side by side (router.route_prompt and what it calls).
THEOREM GatewayTypeCorrect == GatewaySpec => []GatewayTypeOK
<1>1. GatewayInit => StateInv
  BY StateInvInit
<1>2. StateInv /\ [GatewayNext]_gatewayVars => StateInv'
  BY StateInvStep
<1>3. StateInv => GatewayTypeOK
  BY DEF StateInv
<1> QED
  BY <1>1, <1>2, <1>3, PTL DEF GatewaySpec
-----------------------------------------------------------------------------
(***************************************************************************)
(* The answers on record.                                                  *)
(***************************************************************************)
\* A change of settings only adds to the providers that were switched.
LEMMA SwitchedGrows ==
  ASSUME GatewayTypeOK, NEW p \in Providers, switched' = Append(switched, p)
  PROVE  Switched' = Switched \union {p}
<1>1. switched \in Seq(Providers)
  BY DEF GatewayTypeOK
<1>2. /\ DOMAIN switched = 1..Len(switched) /\ Len(switched) \in Nat
      /\ DOMAIN Append(switched, p) = 1..Len(switched) + 1
      /\ \A i \in 1..Len(switched) : Append(switched, p)[i] = switched[i]
      /\ Append(switched, p)[Len(switched) + 1] = p
  BY <1>1
<1>3. \A i \in 1..Len(switched) + 1 : i \in 1..Len(switched) \/ i = Len(switched) + 1
  BY <1>2
<1>4. Switched' = {switched'[i] : i \in DOMAIN switched'} /\ Switched = {switched[i] : i \in DOMAIN switched}
  BY DEF Switched, Range
<1>5. ASSUME NEW x \in Switched' PROVE x \in Switched \union {p}
  <2>1. PICK i \in 1..Len(switched) + 1 : x = Append(switched, p)[i]
    BY <1>2, <1>4
  <2> QED BY <1>2, <1>3, <1>4, <2>1
<1>6. ASSUME NEW x \in Switched \union {p} PROVE x \in Switched'
  <2>1. CASE x \in Switched
    <3>1. PICK i \in 1..Len(switched) : x = switched[i]
      BY <1>2, <1>4, <2>1
    <3>2. i \in 1..Len(switched) + 1
      BY <1>2
    <3> QED BY <1>2, <1>4, <3>1, <3>2
  <2>2. CASE x = p
    <3>1. Len(switched) + 1 \in 1..Len(switched) + 1
      BY <1>2
    <3> QED BY <1>2, <1>4, <2>2, <3>1
  <2> QED BY <2>1, <2>2
<1> QED BY <1>5, <1>6

\* What was answered and flushed stays so where the requests stay.
LEMMA AnsweredStays ==
  ASSUME AnsweredInv, FlushedInv, RequestsStay, Switched \subseteq Switched'
  PROVE  AnsweredInv' /\ FlushedInv'
<1>1. \A r \in Requests :
        /\ request'[r].step = request[r].step /\ request'[r].results = request[r].results
        /\ request'[r].flushed = request[r].flushed
  BY DEF RequestsStay
<1>2. AnsweredInv'
  BY <1>1 DEF AnsweredInv, Names
<1>3. FlushedInv'
  BY <1>1 DEF FlushedInv, Names
<1> QED BY <1>2, <1>3

LEMMA SettingsStay ==
  ASSUME SettingsInv, RequestsStay, UNCHANGED <<config, switched>>
  PROVE  SettingsInv'
  BY DEF SettingsInv, RequestsStay, Switched

LEMMA RecordStays ==
  ASSUME AnswerNamesItsModel, UNCHANGED rows, Switched \subseteq Switched'
  PROVE  AnswerNamesItsModel'
  BY DEF AnswerNamesItsModel, Switched

LEMMA CacheStays ==
  ASSUME CachedInv, UNCHANGED <<redis, local>>, Switched \subseteq Switched'
  PROVE  CachedInv'
  BY DEF CachedInv, Belongs

\* Of the requests only one changes.
LEMMA AnsweredButOne ==
  ASSUME AnsweredInv, FlushedInv, SettingsInv, UNCHANGED <<config, switched>>,
         NEW r \in Requests, \A q \in Requests \ {r} : request'[q] = request[q],
         request'[r].step # "idle" =>
           /\ \A p \in Providers \ Switched : request'[r].configs[p] = NoConfig
           /\ \A i \in DOMAIN ListOf[r] :
                LET result == request'[r].results[i]
                IN  result \notin {Pending, Missed} => result.provider = ListOf[r][i] /\ Names(result),
         request'[r].step = "flushed" => DOMAIN request'[r].flushed = DOMAIN ListOf[r],
         \A i \in DOMAIN request'[r].flushed :
           i \in DOMAIN ListOf[r] /\ request'[r].flushed[i].provider = ListOf[r][i]
             /\ Names(request'[r].flushed[i])
  PROVE  SettingsInv' /\ AnsweredInv' /\ FlushedInv'
<1>1. Switched' = Switched
  BY DEF Switched
<1>2. SettingsInv'
  <2>1. ASSUME NEW p \in Providers \ Switched, NEW q \in Requests, request'[q].step # "idle"
        PROVE  request'[q].configs[p] = NoConfig
    <3>1. CASE q = r
      BY <2>1, <3>1
    <3>2. CASE q # r
      BY <2>1, <3>2 DEF SettingsInv
    <3> QED BY <3>1, <3>2
  <2> QED BY <1>1, <2>1 DEF SettingsInv
<1>3. AnsweredInv'
  <2>1. ASSUME NEW q \in Requests, request'[q].step # "idle", NEW i \in DOMAIN ListOf[q],
               request'[q].results[i] \notin {Pending, Missed}
        PROVE  /\ request'[q].results[i].provider = ListOf[q][i]
               /\ Names(request'[q].results[i])
    <3>1. CASE q = r
      BY <2>1, <3>1
    <3>2. CASE q # r
      BY <2>1, <3>2 DEF AnsweredInv
    <3> QED BY <3>1, <3>2
  <2> QED BY <1>1, <2>1 DEF AnsweredInv, Names
<1>4. FlushedInv'
  <2>1. ASSUME NEW q \in Requests
        PROVE  /\ request'[q].step = "flushed" => DOMAIN request'[q].flushed = DOMAIN ListOf[q]
               /\ \A i \in DOMAIN request'[q].flushed :
                    i \in DOMAIN ListOf[q] /\ request'[q].flushed[i].provider = ListOf[q][i]
                      /\ Names(request'[q].flushed[i])
    <3>1. CASE q = r
      BY <3>1
    <3>2. CASE q # r
      BY <3>2 DEF FlushedInv
    <3> QED BY <3>1, <3>2
  <2> QED BY <1>1, <2>1 DEF FlushedInv, Names
<1> QED BY <1>2, <1>3, <1>4

\* Of a provider that was never switched the default model is asked, or none.
LEMMA DefaultIsAsked ==
  ASSUME StateInv, SettingsInv, NEW r \in Requests, request[r].step # "idle",
         NEW i \in DOMAIN ListOf[r], ListOf[r][i] \notin Switched, ModelOf(r, i) # NoConfig
  PROVE  ModelOf(r, i) = DefaultModel[ListOf[r][i]]
  BY AskedProvider DEF SettingsInv, ModelOf, ResolveConfig

\* What a request puts in its place is by the provider it asked.
LEMMA AnsweredPut ==
  ASSUME NameInv, NEW r \in Requests, NEW i \in DOMAIN ListOf[r], request[r].step = "asking",
         NEW result \in Result \union {Pending, Missed}, Put(r, i, result),
         result = Missed => ModelOf(r, i) # NoConfig,
         result \notin {Pending, Missed} => result.provider = ListOf[r][i] /\ Names(result),
         UNCHANGED <<config, switched>>
  PROVE  SettingsInv' /\ AnsweredInv' /\ FlushedInv'
<1>1. /\ request'[r].results = [request[r].results EXCEPT ![i] = result]
      /\ \A f \in {"step", "prompt", "configs", "flushed", "clear"} :
           request'[r][f] = request[r][f]
      /\ \A q \in Requests \ {r} : request'[q] = request[q]
  BY PutChanges DEF NameInv
<1>2. /\ request'[r].step = "asking" /\ request'[r].configs = request[r].configs
      /\ request'[r].flushed = request[r].flushed
  BY <1>1
<1>3. \A p \in Providers \ Switched : request'[r].configs[p] = NoConfig
  BY <1>2 DEF NameInv, SettingsInv
<1>4. ASSUME NEW j \in DOMAIN ListOf[r], request'[r].results[j] \notin {Pending, Missed}
      PROVE  request'[r].results[j].provider = ListOf[r][j] /\ Names(request'[r].results[j])
  <2>0. DOMAIN request[r].results = DOMAIN ListOf[r]
    BY DEF NameInv, StateInv, InFlightInv
  <2>1. CASE j = i
    BY <1>1, <1>4, <2>0, <2>1
  <2>2. CASE j # i
    BY <1>1, <1>4, <2>0, <2>2 DEF NameInv, AnsweredInv
  <2> QED BY <2>1, <2>2
<1>5. \A j \in DOMAIN request'[r].flushed :
        j \in DOMAIN ListOf[r] /\ request'[r].flushed[j].provider = ListOf[r][j]
          /\ Names(request'[r].flushed[j])
  BY <1>2 DEF NameInv, FlushedInv
<1> QED
  BY <1>1, <1>2, <1>3, <1>4, <1>5, AnsweredButOne DEF NameInv

\* The elements of two sequences in a row.
LEMMA ConcatElements ==
  ASSUME NEW S, NEW s \in Seq(S), NEW t \in Seq(S)
  PROVE  /\ Len(s \o t) = Len(s) + Len(t)
         /\ \A i \in DOMAIN s : i \in DOMAIN (s \o t) /\ (s \o t)[i] = s[i]
         /\ \A i \in DOMAIN t : Len(s) + i \in DOMAIN (s \o t) /\ (s \o t)[Len(s) + i] = t[i]
         /\ \A i \in DOMAIN (s \o t) :
              \/ i \in DOMAIN s
              \/ i > Len(s) /\ i - Len(s) \in DOMAIN t /\ (s \o t)[i] = t[i - Len(s)]
<1>1. /\ DOMAIN s = 1..Len(s) /\ Len(s) \in Nat /\ DOMAIN t = 1..Len(t) /\ Len(t) \in Nat
      /\ DOMAIN (s \o t) = 1..Len(s) + Len(t) /\ Len(s \o t) = Len(s) + Len(t)
  OBVIOUS
<1>2. ASSUME NEW i \in 1..Len(s) + Len(t)
      PROVE  (s \o t)[i] = IF i <= Len(s) THEN s[i] ELSE t[i - Len(s)]
  OBVIOUS
<1>3. \A i \in 1..Len(t) : Len(s) + i \in 1..Len(s) + Len(t) /\ (Len(s) + i) - Len(s) = i
                           /\ ~(Len(s) + i <= Len(s))
  BY <1>1
<1>4. \A i \in 1..Len(s) : i \in 1..Len(s) + Len(t)
  BY <1>1
<1>5. \A i \in 1..Len(s) + Len(t) : i \in 1..Len(s) \/ (i > Len(s) /\ i - Len(s) \in 1..Len(t))
  BY <1>1
<1> QED
  BY <1>1, <1>2, <1>3, <1>4, <1>5

LEMMA NameInvInit == GatewayInit => NameInv
<1> SUFFICES ASSUME GatewayInit PROVE NameInv
  OBVIOUS
<1>1. StateInv
  BY StateInvInit
<1>2. \A r \in Requests : request[r] = Idle
  BY DEF GatewayInit
<1>3. SettingsInv /\ AnsweredInv /\ FlushedInv
  BY <1>2 DEF SettingsInv, AnsweredInv, FlushedInv, GatewayInit, Idle
<1>4. CachedInv
  BY DEF CachedInv, GatewayInit
<1>5. AnswerNamesItsModel
  <2>1. CASE rows = <<>>
    BY <2>1 DEF AnswerNamesItsModel
  <2>2. CASE \E text \in OldAnswers : rows = <<Legacy(text)>>
    <3>1. PICK text \in OldAnswers : rows = <<Legacy(text)>>
      BY <2>2
    <3> DEFINE row == Legacy(text)
    <3>2. row.by.provider = row.provider /\ row.by.model = row.model
      BY DEF Legacy
    <3> HIDE DEF row
    <3>3. \A i \in DOMAIN rows : rows[i] = row
      BY <3>1 DEF row
    <3> QED BY <3>2, <3>3 DEF AnswerNamesItsModel
  <2> QED BY <2>1, <2>2 DEF GatewayInit
<1> QED
  BY <1>1, <1>3, <1>4, <1>5 DEF NameInv

LEMMA NameInvStep ==
  ASSUME NameInv, [GatewayNext]_gatewayVars
  PROVE  NameInv'
<1>0. /\ StateInv /\ GatewayTypeOK /\ SettingsInv /\ CachedInv /\ AnsweredInv /\ FlushedInv
      /\ AnswerNamesItsModel /\ StateInv'
  BY StateInvStep DEF NameInv, StateInv
<1>1. ASSUME NEW p \in Providers, NEW model \in Models \union {NoConfig},
             UpsertProviderConfig(p, model)
      PROVE  NameInv'
  <2>1. Switched' = Switched \union {p}
    BY <1>0, <1>1, SwitchedGrows DEF UpsertProviderConfig
  <2>2. SettingsInv'
    BY <1>0, <1>1, <2>1 DEF SettingsInv, UpsertProviderConfig, GatewayTypeOK
  <2>3. AnsweredInv' /\ FlushedInv' /\ CachedInv' /\ AnswerNamesItsModel'
    BY <1>0, <1>1, <2>1, AnsweredStays, CacheStays, RecordStays
       DEF UpsertProviderConfig, RequestsStay
  <2> QED BY <1>0, <2>2, <2>3 DEF NameInv
<1>2. ASSUME NEW r \in Requests, RoutePrompt(r)
      PROVE  NameInv'
  <2>1. /\ request'[r].step = "asking" /\ request'[r].configs = config
        /\ request'[r].results = [i \in DOMAIN ListOf[r] |-> Pending]
        /\ request'[r].flushed = <<>>
        /\ \A q \in Requests \ {r} : request'[q] = request[q]
    BY <1>0, <1>2, RoutePromptChanges
  <2>2. UNCHANGED <<config, redis, local, rows, switched>>
    BY <1>2 DEF RoutePrompt
  <2>3. \A p \in Providers \ Switched : config[p] = NoConfig
    BY <1>0 DEF SettingsInv
  <2>4. SettingsInv' /\ AnsweredInv' /\ FlushedInv'
    BY <1>0, <2>1, <2>2, <2>3, AnsweredButOne
  <2>5. CachedInv' /\ AnswerNamesItsModel'
    BY <1>0, <2>2, CacheStays, RecordStays DEF Switched
  <2> QED BY <1>0, <2>4, <2>5 DEF NameInv
<1>3. ASSUME NEW r \in Requests, Detect(r)
      PROVE  NameInv'
  <2> DEFINE results == request[r].results
  <2>1. UNCHANGED <<config, redis, local, rows, switched>>
    BY <1>3 DEF Detect
  <2>2. /\ request[r].step = "asking" /\ DOMAIN results = DOMAIN ListOf[r]
        /\ \A i \in DOMAIN results : results[i] \notin {Pending, Missed}
        /\ \A q \in Requests \ {r} : request'[q] = request[q]
        /\ request'[r].configs = request[r].configs /\ request'[r].results = results
        /\ DOMAIN request'[r].flushed = DOMAIN results
        /\ \A i \in DOMAIN results : RowFor(request'[r].flushed[i], results[i], results)
    BY <1>0, <1>3, DetectChanges
  <2>3. \A i \in DOMAIN ListOf[r] : results[i].provider = ListOf[r][i] /\ Names(results[i])
    BY <1>0, <2>2 DEF AnsweredInv
  <2>4. ASSUME NEW i \in DOMAIN ListOf[r]
        PROVE  request'[r].flushed[i].provider = ListOf[r][i] /\ Names(request'[r].flushed[i])
    <3>1. RowFor(request'[r].flushed[i], results[i], results)
      BY <2>2
    <3> QED BY <2>3, <3>1 DEF RowFor, Names
  <2>5. \A p \in Providers \ Switched : request[r].configs[p] = NoConfig
    BY <1>0, <2>2 DEF SettingsInv
  <2> HIDE DEF results
  <2>6. SettingsInv' /\ AnsweredInv' /\ FlushedInv'
    BY <1>0, <2>1, <2>2, <2>3, <2>4, <2>5, AnsweredButOne
  <2>7. CachedInv' /\ AnswerNamesItsModel'
    BY <1>0, <2>1, CacheStays, RecordStays DEF Switched
  <2> QED BY <1>0, <2>6, <2>7 DEF NameInv
<1>4. ASSUME NEW r \in Requests, Commit(r)
      PROVE  NameInv'
  <2>1. UNCHANGED <<config, redis, local, switched>>
    BY <1>4 DEF Commit
  <2>2. /\ request[r].step = "flushed" /\ rows' = rows \o request[r].flushed
        /\ request'[r].step = "idle" /\ request'[r].flushed = <<>>
        /\ \A q \in Requests \ {r} : \A f \in {"step", "prompt", "configs", "results", "flushed"} :
             request'[q][f] = request[q][f]
    BY <1>0, <1>4, CommitChanges
  <2>3. \A q \in Requests \ {r} :
          /\ request'[q].step = request[q].step /\ request'[q].configs = request[q].configs
          /\ request'[q].results = request[q].results /\ request'[q].flushed = request[q].flushed
    BY <2>2
  <2>4. SettingsInv'
    BY <1>0, <2>1, <2>2, <2>3 DEF SettingsInv, Switched
  <2>5. AnsweredInv'
    BY <1>0, <2>1, <2>2, <2>3 DEF AnsweredInv, Names, Switched
  <2>6. FlushedInv'
    <3>1. Switched' = Switched
      BY <2>1 DEF Switched
    <3>2. ASSUME NEW q \in Requests
          PROVE  /\ request'[q].step = "flushed" => DOMAIN request'[q].flushed = DOMAIN ListOf[q]
                 /\ \A i \in DOMAIN request'[q].flushed :
                      i \in DOMAIN ListOf[q] /\ request'[q].flushed[i].provider = ListOf[q][i]
                        /\ Names(request'[q].flushed[i])
      <4>1. CASE q = r
        BY <2>2, <4>1
      <4>2. CASE q # r
        BY <1>0, <2>3, <4>2 DEF FlushedInv
      <4> QED BY <4>1, <4>2
    <3> QED BY <3>1, <3>2 DEF FlushedInv, Names
  <2>7. AnswerNamesItsModel'
    <3> DEFINE new == request[r].flushed
    <3>1. new \in Seq(Row) /\ rows \in Seq(Row)
      <4>1. request[r] \in RequestState
        BY <1>0 DEF GatewayTypeOK
      <4> QED BY <1>0, <4>1 DEF GatewayTypeOK, RequestState
    <3>2. \A i \in DOMAIN new : Names(new[i])
      BY <1>0 DEF FlushedInv
    <3>3. \A i \in DOMAIN rows : Names(rows[i])
      BY <1>0 DEF AnswerNamesItsModel, Names, Switched
    <3>4. rows' = rows \o new
      BY <2>2
    <3> HIDE DEF new
    <3>5. ASSUME NEW i \in DOMAIN rows' PROVE Names(rows'[i])
      <4>1. \/ i \in DOMAIN rows /\ rows'[i] = rows[i]
            \/ i - Len(rows) \in DOMAIN new /\ rows'[i] = new[i - Len(rows)]
        BY <3>1, <3>4, <3>5, ConcatElements
      <4> QED BY <3>2, <3>3, <4>1
    <3> QED BY <2>1, <3>5 DEF AnswerNamesItsModel, Names, Switched
  <2>8. CachedInv'
    BY <1>0, <2>1, CacheStays DEF Switched
  <2> QED BY <1>0, <2>4, <2>5, <2>6, <2>7, <2>8 DEF NameInv
<1>5. ASSUME NEW r \in Requests, NEW i \in DOMAIN ListOf[r], LookUp(r, i)
      PROVE  NameInv'
  <2> DEFINE p == ListOf[r][i]
             model == ModelOf(r, i)
  <2>1. UNCHANGED <<config, redis, local, rows, switched>>
    BY <1>5 DEF LookUp
  <2>2. PICK result \in Result \union {Missed} :
           /\ request[r].step = "asking" /\ Put(r, i, result)
           /\ \/ model = NoConfig /\ result = ResultOf(r, i, Failed, NoEntry)
              \/ model # NoConfig /\ result = Missed
              \/ /\ model # NoConfig
                 /\ \E hit \in CacheGet(KeyOf(r, i)) :
                      hit # NoEntry /\ result = ResultOf(r, i, Text(hit.text), hit.by)
    BY <1>0, <1>5, LookUpChanges
  <2>3. result \notin {Pending, Missed} => result.provider = p /\ Names(result)
    <3>1. CASE result = ResultOf(r, i, Failed, NoEntry)
      BY <3>1 DEF ResultOf, Failed, Names
    <3>2. ASSUME NEW hit \in CacheGet(KeyOf(r, i)), model # NoConfig, hit # NoEntry,
                 result = ResultOf(r, i, Text(hit.text), hit.by)
          PROVE  result.provider = p /\ Names(result)
      <4>1. KeyOf(r, i) \in Key /\ KeyOf(r, i)[1] = p
        BY <1>0, <2>2, KeyType
      <4>2. Belongs(hit, p)
        BY <1>0, <3>2, <4>1, HitType DEF CachedInv
      <4>3. p \notin Switched => model = DefaultModel[p]
        BY <1>0, <2>2, <3>2, DefaultIsAsked
      <4>4. /\ result.provider = p /\ result.model = model /\ result.by = hit.by
        BY <3>2 DEF ResultOf
      <4> QED BY <4>2, <4>3, <4>4 DEF Belongs, Names
    <3> QED BY <2>2, <3>1, <3>2
  <2>4. Missed \notin Result
    BY NoResultAssumption
  <2>5. result = Missed => model # NoConfig
    <3>1. model = NoConfig => ResultOf(r, i, Failed, NoEntry) \in Result
      <4>1. Failed \in [text : Answers \union {NoText}, error : BOOLEAN]
        BY DEF Failed
      <4> QED BY <1>0, <2>2, <4>1, ResultType
    <3> QED BY <2>2, <2>4, <3>1
  <2> HIDE DEF p, model
  <2>6. SettingsInv' /\ AnsweredInv' /\ FlushedInv'
    BY <2>1, <2>2, <2>3, <2>5, AnsweredPut DEF p, model
  <2>7. CachedInv' /\ AnswerNamesItsModel'
    BY <1>0, <2>1, CacheStays, RecordStays DEF Switched
  <2> QED BY <1>0, <2>6, <2>7 DEF NameInv
<1>6. ASSUME NEW r \in Requests, NEW i \in DOMAIN ListOf[r], CallProvider(r, i)
      PROVE  NameInv'
  <2> DEFINE p == ListOf[r][i]
             by == [provider |-> p, model |-> ModelOf(r, i)]
  <2>1. UNCHANGED <<config, rows, switched>>
    BY <1>6 DEF CallProvider
  <2>2. PICK outcome \in [text : Answers \union {NoText}, error : BOOLEAN] :
          /\ request[r].step = "asking" /\ request[r].results[i] = Missed
          /\ Put(r, i, ResultOf(r, i, outcome, by))
          /\ \/ UNCHANGED <<redis, local>>
             \/ /\ outcome.text \in Answers
                /\ CacheSet(KeyOf(r, i), [text |-> outcome.text, by |-> by])
    BY <1>6, CallChanges DEF NameInv
  <2>3. ModelOf(r, i) # NoConfig
    BY <1>0, <2>2 DEF StateInv, InFlightInv
  <2> DEFINE result == ResultOf(r, i, outcome, by)
  <2>4. result \in Result
    <3>1. by \in Source
      BY <1>0, <2>2, <2>3, AskedProvider, AskedModel DEF Source
    <3> HIDE DEF by
    <3> QED BY <1>0, <2>2, <3>1, ResultType
  <2>5. result.provider = p /\ Names(result)
    BY DEF ResultOf, Names
  <2>6. SettingsInv' /\ AnsweredInv' /\ FlushedInv'
    <3>1. Put(r, i, result) /\ request[r].step = "asking"
      BY <2>2
    <3> HIDE DEF result
    <3> QED BY <2>1, <2>3, <2>4, <2>5, <3>1, AnsweredPut
  <2>7. CachedInv'
    <3>1. CASE UNCHANGED <<redis, local>>
      BY <1>0, <2>1, <3>1, CacheStays DEF Switched
    <3>2. CASE /\ outcome.text \in Answers
               /\ CacheSet(KeyOf(r, i), [text |-> outcome.text, by |-> by])
      <4> DEFINE entry == [text |-> outcome.text, by |-> by]
      <4>1. entry \in CacheEntry
        BY <1>0, <2>2, <2>3, <3>2, EntryType
      <4>2. KeyOf(r, i) \in Key /\ KeyOf(r, i)[1] = p
        BY <1>0, <2>2, KeyType
      <4>3. Belongs(entry, p)
        <5>1. p \notin Switched => ModelOf(r, i) = DefaultModel[p]
          BY <1>0, <2>2, <2>3, DefaultIsAsked
        <5> QED BY <5>1 DEF Belongs
      <4> HIDE DEF entry
      <4>4. CachedInv'
        <5>1. CASE redis' = [redis EXCEPT ![KeyOf(r, i)] = entry] /\ UNCHANGED local
          BY <1>0, <2>1, <4>2, <4>3, <5>1 DEF CachedInv, Belongs, Switched, GatewayTypeOK
        <5>2. CASE local' = LocalSet(KeyOf(r, i), entry) /\ UNCHANGED redis
          <6>1. ASSUME NEW j \in DOMAIN local' PROVE Belongs(local'[j].entry, local'[j].key[1])
            <7>1. \/ local'[j] = [key |-> KeyOf(r, i), entry |-> entry]
                  \/ \E k \in DOMAIN local : local'[j] = local[k]
              BY <1>0, <4>1, <4>2, <5>2, <6>1, LocalSetItems
            <7> QED BY <1>0, <4>2, <4>3, <7>1 DEF CachedInv
          <6> QED BY <1>0, <2>1, <5>2, <6>1 DEF CachedInv, Belongs, Switched
        <5> QED BY <3>2, <5>1, <5>2 DEF CacheSet, entry
      <4> QED BY <4>4
    <3> QED BY <2>2, <3>1, <3>2
  <2>8. AnswerNamesItsModel'
    BY <1>0, <2>1, RecordStays DEF Switched
  <2> QED BY <1>0, <2>6, <2>7, <2>8 DEF NameInv
<1>7. ASSUME RecalculateScores
      PROVE  NameInv'
  <2>1. UNCHANGED <<config, redis, local, switched>> /\ RequestsStay
    BY <1>0, <1>7, OvertakenState DEF RecalculateScores, RequestsStay
  <2>2. SettingsInv' /\ AnsweredInv' /\ FlushedInv' /\ CachedInv'
    BY <1>0, <2>1, SettingsStay, AnsweredStays, CacheStays DEF Switched
  <2>3. AnswerNamesItsModel'
    <3>1. \A j \in DOMAIN rows : rows[j] \in Row
      BY <1>0 DEF GatewayTypeOK
    <3>2. DOMAIN rows' = DOMAIN rows
          /\ \A j \in DOMAIN rows : rows'[j] = rows[j] \/ rows'[j] = Recalculated(rows[j])
      BY <1>7 DEF RecalculateScores
    <3>3. ASSUME NEW j \in DOMAIN rows
          PROVE  /\ rows'[j].text = rows[j].text /\ rows'[j].provider = rows[j].provider
                 /\ rows'[j].model = rows[j].model /\ rows'[j].by = rows[j].by
      <4>1. \A f \in {"provider", "model", "text", "by"} : Recalculated(rows[j])[f] = rows[j][f]
        BY <3>1, RecalculatedType
      <4> QED BY <3>2, <4>1
    <3> QED BY <1>0, <2>1, <3>2, <3>3 DEF AnswerNamesItsModel
  <2> QED BY <1>0, <2>2, <2>3 DEF NameInv
<1>8. ASSUME NEW key \in Key, Expire(key)
      PROVE  NameInv'
  <2>1. UNCHANGED <<config, rows, switched, local>> /\ RequestsStay
    BY <1>8 DEF Expire, RequestsStay
  <2>2. SettingsInv' /\ AnsweredInv' /\ FlushedInv' /\ AnswerNamesItsModel'
    BY <1>0, <2>1, SettingsStay, AnsweredStays, RecordStays DEF Switched
  <2>3. CachedInv'
    BY <1>0, <1>8, <2>1 DEF Expire, CachedInv, Belongs, Switched, GatewayTypeOK
  <2> QED BY <1>0, <2>2, <2>3 DEF NameInv
<1>9. CASE Age \/ UNCHANGED gatewayVars
  <2>1. UNCHANGED <<config, redis, local, rows, switched>> /\ RequestsStay
    BY <1>0, <1>9, OvertakenState DEF Age, gatewayVars, RequestsStay
  <2>2. SettingsInv' /\ AnsweredInv' /\ FlushedInv' /\ CachedInv' /\ AnswerNamesItsModel'
    BY <1>0, <2>1, SettingsStay, AnsweredStays, CacheStays, RecordStays DEF Switched
  <2> QED BY <1>0, <2>2 DEF NameInv
<1>10. ASSUME Crash
       PROVE  NameInv'
  <2>1. UNCHANGED <<config, redis, rows, switched>> /\ local' = <<>>
    BY <1>10 DEF Crash
  <2>2. \A r \in Requests : request'[r].step = "idle" /\ request'[r].flushed = <<>>
    BY <1>10 DEF Crash, Idle
  <2>3. SettingsInv' /\ AnsweredInv' /\ FlushedInv'
    BY <1>0, <2>1, <2>2 DEF SettingsInv, AnsweredInv, FlushedInv, Switched
  <2>4. CachedInv'
    BY <1>0, <2>1 DEF CachedInv, Belongs, Switched
  <2>5. AnswerNamesItsModel'
    BY <1>0, <2>1, RecordStays DEF Switched
  <2> QED BY <1>0, <2>3, <2>4, <2>5 DEF NameInv
<1> QED
  BY <1>1, <1>2, <1>3, <1>4, <1>5, <1>6, <1>7, <1>8, <1>9, <1>10 DEF GatewayNext

\* An answer on record was given by the provider it names, and by the model it names
\* unless the settings of that provider were changed (router._call_provider, whose cache
\* keeps no model).
THEOREM AnswersNamed == GatewaySpec => []AnswerNamesItsModel
<1>1. GatewayInit => NameInv
  BY NameInvInit
<1>2. NameInv /\ [GatewayNext]_gatewayVars => NameInv'
  BY NameInvStep
<1>3. NameInv => AnswerNamesItsModel
  BY DEF NameInv
<1> QED
  BY <1>1, <1>2, <1>3, PTL DEF GatewaySpec
-----------------------------------------------------------------------------
\* Of two functions the one that is nowhere less has no lesser sum.
LEMMA SumsOrdered ==
  ASSUME NEW I, IsFiniteSet(I), NEW f, NEW g,
         \A x \in I : f[x] \in Int /\ g[x] \in Int /\ f[x] <= g[x]
  PROVE  SumFunctionOnSet(f, I) <= SumFunctionOnSet(g, I)
<1> DEFINE F == {J \in SUBSET I : SumFunctionOnSet(f, J) <= SumFunctionOnSet(g, J)}
<1>1. {} \in F
  <2>1. SumFunctionOnSet(f, {}) = 0 /\ SumFunctionOnSet(g, {}) = 0
    BY SumsOfSubsets, FS_EmptySet
  <2> QED BY <2>1
<1>2. ASSUME NEW J \in SUBSET I, J # {}, \A x \in J : J \ {x} \in F
      PROVE  J \in F
  <2>1. PICK c \in J : TRUE
    BY <1>2
  <2>2. IsFiniteSet(J) /\ IsFiniteSet(J \ {c})
    BY FS_Subset
  <2>3. /\ SumFunctionOnSet(f, J) = f[c] + SumFunctionOnSet(f, J \ {c})
        /\ SumFunctionOnSet(g, J) = g[c] + SumFunctionOnSet(g, J \ {c})
    BY <2>2, SumOfElement
  <2>4. SumFunctionOnSet(f, J \ {c}) \in Int /\ SumFunctionOnSet(g, J \ {c}) \in Int
    BY <2>2, SumType
  <2>5. /\ SumFunctionOnSet(f, J \ {c}) <= SumFunctionOnSet(g, J \ {c})
        /\ f[c] \in Int /\ g[c] \in Int /\ f[c] <= g[c]
    BY <1>2
  <2> QED BY <2>3, <2>4, <2>5
<1>3. I \in F
  <2> HIDE DEF F
  <2> QED BY <1>1, <1>2, SetInduction
<1> QED BY <1>3

\* A common factor may be taken out of a sum.
LEMMA SumScaled ==
  ASSUME NEW I, IsFiniteSet(I), NEW w, NEW f, NEW a \in Int,
         \A x \in I : w[x] \in Int /\ f[x] = w[x] * a
  PROVE  SumFunctionOnSet(f, I) = SumFunctionOnSet(w, I) * a
<1> DEFINE F == {J \in SUBSET I : SumFunctionOnSet(f, J) = SumFunctionOnSet(w, J) * a}
<1>0. \A x \in I : f[x] \in Int
  OBVIOUS
<1>1. {} \in F
  <2>1. SumFunctionOnSet(f, {}) = 0 /\ SumFunctionOnSet(w, {}) = 0
    BY SumsOfSubsets, FS_EmptySet
  <2> QED BY <2>1
<1>2. ASSUME NEW J \in SUBSET I, J # {}, \A x \in J : J \ {x} \in F
      PROVE  J \in F
  <2>1. PICK c \in J : TRUE
    BY <1>2
  <2>2. IsFiniteSet(J) /\ IsFiniteSet(J \ {c})
    BY FS_Subset
  <2>3. /\ SumFunctionOnSet(f, J) = f[c] + SumFunctionOnSet(f, J \ {c})
        /\ SumFunctionOnSet(w, J) = w[c] + SumFunctionOnSet(w, J \ {c})
    BY <1>0, <2>2, SumOfElement
  <2>4. SumFunctionOnSet(w, J \ {c}) \in Int /\ w[c] \in Int
    BY <2>2, SumType
  <2>5. SumFunctionOnSet(f, J \ {c}) = SumFunctionOnSet(w, J \ {c}) * a /\ f[c] = w[c] * a
    BY <1>2
  <2>6. \A x, y \in Int : (x + y) * a = x * a + y * a
    OBVIOUS
  <2> QED BY <2>3, <2>4, <2>5, <2>6
<1>3. I \in F
  <2> HIDE DEF F
  <2> QED BY <1>1, <1>2, SetInduction
<1> QED BY <1>3
-----------------------------------------------------------------------------
\* The latest of a set of rows.
LEMMA LatestOf ==
  ASSUME NEW I, I # {}, I \subseteq DOMAIN rows, GatewayTypeOK
  PROVE  Latest(I) \in I /\ Latest(I) \in Nat /\ \A j \in I : j <= Latest(I)
<1>1. rows \in Seq(Row) /\ DOMAIN rows = 1..Len(rows) /\ Len(rows) \in Nat
  BY DEF GatewayTypeOK
<1>2. IsFiniteSet(I) /\ I \subseteq Int
  <2>1. IsFiniteSet(DOMAIN rows)
    BY <1>1, FS_Interval
  <2> QED BY <1>1, <2>1, FS_Subset
<1>3. \E i \in I : \A j \in I : j <= i
  BY <1>2, GreatestExists
<1> QED
  BY <1>1, <1>3 DEF Latest

\* A row that was stored before there were scores has none.
LEMMA ScoreInvInit == GatewayInit => ScoreInv
<1> SUFFICES ASSUME GatewayInit PROVE ScoreInv
  OBVIOUS
<1>1. \A r \in Requests : request[r].flushed = <<>>
  BY DEF GatewayInit, Idle
<1>2. \A i \in DOMAIN rows : WellScored(rows[i])
  <2>1. CASE rows = <<>>
    BY <2>1
  <2>2. CASE \E text \in OldAnswers : rows = <<Legacy(text)>>
    <3>1. PICK text \in OldAnswers : rows = <<Legacy(text)>>
      BY <2>2
    <3> DEFINE row == Legacy(text)
    <3>2. WellScored(row)
      BY DEF Legacy, WellScored
    <3> HIDE DEF row
    <3>3. \A i \in DOMAIN rows : rows[i] = row
      BY <3>1 DEF row
    <3> QED BY <3>2, <3>3
  <2> QED BY <2>1, <2>2 DEF GatewayInit
<1> QED BY <1>1, <1>2 DEF ScoreInv

\* A row is scored when it is written, or later when the scores are recalculated.
LEMMA ScoreInvStep ==
  ASSUME StateInv, ScoreInv, [GatewayNext]_gatewayVars
  PROVE  ScoreInv'
<1>1. ASSUME NEW r \in Requests, RoutePrompt(r)
      PROVE  ScoreInv'
  <2>1. request'[r].flushed = <<>> /\ \A q \in Requests \ {r} : request'[q] = request[q]
    BY <1>1, RoutePromptChanges
  <2>2. ASSUME NEW q \in Requests, NEW i \in DOMAIN request'[q].flushed
        PROVE  WellScored(request'[q].flushed[i])
    BY <2>1, <2>2 DEF ScoreInv
  <2>3. UNCHANGED rows
    BY <1>1 DEF RoutePrompt
  <2> QED BY <2>2, <2>3 DEF ScoreInv, WellScored
<1>2. ASSUME NEW r \in Requests, Detect(r)
      PROVE  ScoreInv'
  <2> DEFINE results == request[r].results
  <2>1. /\ results \in Seq(Result)
        /\ DOMAIN request'[r].flushed = DOMAIN results
        /\ \A i \in DOMAIN results : RowFor(request'[r].flushed[i], results[i], results)
        /\ \A q \in Requests \ {r} : request'[q] = request[q]
    BY <1>2, DetectChanges
  <2>2. ASSUME NEW i \in DOMAIN results
        PROVE  WellScored(request'[r].flushed[i])
    <3>1. RowFor(request'[r].flushed[i], results[i], results)
      BY <2>1
    <3>2. LET score == ScoreIn(results, results[i].provider)
          IN  score # NoScore => score \in Nat \ {0}
      BY <2>1, <2>2, ScoreInType
    <3> QED BY <3>1, <3>2 DEF RowFor, WellScored
  <2>3. UNCHANGED rows
    BY <1>2 DEF Detect
  <2> QED BY <2>1, <2>2, <2>3 DEF ScoreInv, WellScored
<1>3. ASSUME NEW r \in Requests, Commit(r)
      PROVE  ScoreInv'
  <2> DEFINE new == request[r].flushed
  <2>1. /\ rows' = rows \o new /\ request'[r].flushed = <<>>
        /\ \A q \in Requests \ {r} : request'[q].flushed = request[q].flushed
    BY <1>3, CommitChanges
  <2>2. new \in Seq(Row) /\ rows \in Seq(Row)
    <3>1. request[r] \in RequestState
      BY DEF StateInv, GatewayTypeOK
    <3> QED BY <3>1 DEF StateInv, GatewayTypeOK, RequestState
  <2>3. /\ \A i \in DOMAIN new : WellScored(new[i])
        /\ \A i \in DOMAIN rows : WellScored(rows[i])
    BY DEF ScoreInv
  <2> HIDE DEF new
  <2>4. ASSUME NEW i \in DOMAIN rows' PROVE WellScored(rows'[i])
    <3>1. \/ i \in DOMAIN rows /\ rows'[i] = rows[i]
          \/ i - Len(rows) \in DOMAIN new /\ rows'[i] = new[i - Len(rows)]
      BY <2>1, <2>2, <2>4, ConcatElements
    <3> QED BY <2>3, <3>1
  <2>5. ASSUME NEW q \in Requests, NEW i \in DOMAIN request'[q].flushed
        PROVE  WellScored(request'[q].flushed[i])
    BY <2>1, <2>5 DEF ScoreInv
  <2> QED BY <2>4, <2>5 DEF ScoreInv, WellScored
<1>4. ASSUME NEW r \in Requests, NEW i \in DOMAIN ListOf[r], LookUp(r, i) \/ CallProvider(r, i)
      PROVE  ScoreInv'
  <2>1. UNCHANGED rows
    BY <1>4 DEF LookUp, CallProvider
  <2>2. \A q \in Requests : request'[q].flushed = request[q].flushed
    <3>1. \E result : Put(r, i, result)
      BY <1>4 DEF LookUp, CallProvider
    <3>2. request \in [Requests -> RequestState]
      BY DEF StateInv, GatewayTypeOK
    <3> QED BY <3>1, <3>2 DEF Put, RequestState
  <2> QED BY <2>1, <2>2 DEF ScoreInv, WellScored
<1>5. ASSUME RecalculateScores
      PROVE  ScoreInv'
  <2>1. \A r \in Requests : request'[r].flushed = request[r].flushed
    BY <1>5, OvertakenState DEF RecalculateScores
  <2>2. \A j \in DOMAIN rows : rows[j] \in Row
    BY DEF StateInv, GatewayTypeOK
  <2>3. DOMAIN rows' = DOMAIN rows
        /\ \A j \in DOMAIN rows : rows'[j] = rows[j] \/ rows'[j] = Recalculated(rows[j])
    BY <1>5 DEF RecalculateScores
  <2>4. ASSUME NEW j \in DOMAIN rows PROVE WellScored(rows'[j])
    <3>1. WellScored(rows[j])
      BY DEF ScoreInv
    <3>2. WellScored(Recalculated(rows[j]))
      BY <2>2, <3>1, RecalculatedType
    <3> QED BY <2>3, <3>1, <3>2
  <2> QED BY <2>1, <2>3, <2>4 DEF ScoreInv, WellScored
<1>6. ASSUME Age
      PROVE  ScoreInv'
  <2>1. \A r \in Requests : request'[r].flushed = request[r].flushed
    BY <1>6, OvertakenState DEF Age
  <2> QED BY <1>6, <2>1 DEF Age, ScoreInv, WellScored
<1>7. ASSUME Crash
      PROVE  ScoreInv'
  BY <1>7 DEF Crash, Idle, ScoreInv, WellScored
<1>8. ASSUME UNCHANGED <<rows, request>>
      PROVE  ScoreInv'
  BY <1>8 DEF ScoreInv, WellScored
<1> QED
  BY <1>1, <1>2, <1>3, <1>4, <1>5, <1>6, <1>7, <1>8
     DEF GatewayNext, UpsertProviderConfig, Expire, gatewayVars

LEMMA WeightType ==
  ASSUME NEW p
  PROVE  Weight(p) \in Nat \ {0}
  BY DEF Weight

\* The aggregate of positive totals is a mean of them.
LEMMA AggregateIsMean ==
  ASSUME NEW totals, IsFiniteSet(DOMAIN totals), DOMAIN totals # {},
         \A p \in DOMAIN totals : totals[p] \in Nat \ {0}
  PROVE  LET total == AggregateScores(totals)
         IN  /\ total.providers = DOMAIN totals
             /\ \E p \in DOMAIN totals : total.sum >= total.weight * totals[p]
             /\ \E p \in DOMAIN totals : total.sum <= total.weight * totals[p]
<1> DEFINE I == DOMAIN totals
           weighted == [p \in I |-> Weight(p) * totals[p]]
           weight == [p \in I |-> Weight(p)]
           scored == {p \in DOMAIN totals : totals[p] > 0}
           total == AggregateScores(totals)
<1>1. scored = I
  OBVIOUS
<1>2. /\ total.providers = I
      /\ total.sum = SumFunctionOnSet(weighted, I)
      /\ total.weight = SumFunctionOnSet(weight, I)
  <2>1. total = [sum |-> SumFunction([p \in scored |-> Weight(p) * totals[p]]),
                 weight |-> SumFunction([p \in scored |-> Weight(p)]), providers |-> scored]
    BY DEF AggregateScores
  <2>2. total = [sum |-> SumFunction(weighted), weight |-> SumFunction(weight), providers |-> I]
    BY <1>1, <2>1
  <2>3. DOMAIN weighted = I /\ DOMAIN weight = I
    OBVIOUS
  <2> HIDE DEF weighted, weight, total
  <2> QED BY <2>2, <2>3 DEF SumFunction
<1>3. \A p \in I : /\ weight[p] \in Nat \ {0} /\ totals[p] \in Nat
                   /\ weighted[p] = weight[p] * totals[p] /\ weighted[p] \in Int
  BY WeightType
<1> HIDE DEF weighted, weight, total, scored
<1>4. \E p \in I : total.sum <= total.weight * totals[p]
  <2>1. PICK p \in I : \A q \in I : totals[q] <= totals[p]
    BY <1>3, GreatestValue
  <2> DEFINE high == [q \in I |-> weight[q] * totals[p]]
  <2>2. \A q \in I : /\ high[q] = weight[q] * totals[p] /\ high[q] \in Int
                     /\ weighted[q] <= high[q]
    BY <1>3, <2>1
  <2> HIDE DEF high
  <2>3. SumFunctionOnSet(high, I) = SumFunctionOnSet(weight, I) * totals[p]
    BY <1>3, <2>2, SumScaled
  <2>4. SumFunctionOnSet(weighted, I) <= SumFunctionOnSet(high, I)
    BY <1>3, <2>2, SumsOrdered
  <2> QED BY <1>2, <2>3, <2>4
<1>5. \E p \in I : total.sum >= total.weight * totals[p]
  <2> DEFINE minus == [q \in I |-> -totals[q]]
  <2>1. \A q \in I : minus[q] \in Int /\ minus[q] = -totals[q]
    BY <1>3
  <2> HIDE DEF minus
  <2>2. PICK p \in I : \A q \in I : minus[q] <= minus[p]
    BY <2>1, GreatestValue
  <2>3. \A q \in I : totals[p] <= totals[q]
    BY <1>3, <2>1, <2>2
  <2> DEFINE low == [q \in I |-> weight[q] * totals[p]]
  <2>4. \A q \in I : /\ low[q] = weight[q] * totals[p] /\ low[q] \in Int
                     /\ low[q] <= weighted[q]
    BY <1>3, <2>3
  <2> HIDE DEF low
  <2>5. SumFunctionOnSet(low, I) = SumFunctionOnSet(weight, I) * totals[p]
    BY <1>3, <2>4, SumScaled
  <2>6. SumFunctionOnSet(low, I) <= SumFunctionOnSet(weighted, I)
    BY <1>3, <2>4, SumsOrdered
  <2>7. SumFunctionOnSet(low, I) \in Int /\ SumFunctionOnSet(weighted, I) \in Int
    BY <1>3, <2>4, SumType
  <2> QED BY <1>2, <2>5, <2>6, <2>7
<1> HIDE DEF I
<1>6. \E p \in I : total.sum >= total.weight * totals[p]
  BY <1>5
<1> QED BY <1>2, <1>4, <1>6 DEF I, total

\* Where every row is well scored the two endpoints agree.
LEMMA EndpointsAgree ==
  ASSUME StateInv, ScoreInv
  PROVE  AggregateAgreesWithScores
<1> DEFINE Shown(p) == rows[Latest(WithDims(p))]
<1>1. rows \in Seq(Row) /\ \A i \in DOMAIN rows : WellScored(rows[i])
  BY DEF StateInv, GatewayTypeOK, ScoreInv
<1>2. \A p : Scored(rows, p) \subseteq WithDims(p) /\ WithDims(p) \subseteq DOMAIN rows
  BY <1>1 DEF Scored, WithDims, WellScored
<1>3. ASSUME NEW p \in Providers, Scored(rows, p) # {}
      PROVE  /\ p \in DOMAIN GetScores /\ GetScores[p] = rows[Latest(Scored(rows, p))].score
             /\ Latest(Scored(rows, p)) \in Scored(rows, p)
             /\ \A j \in Scored(rows, p) : j <= Latest(Scored(rows, p))
             /\ Latest(Scored(rows, p)) \in Nat
  <2>1. Scored(rows, p) \subseteq DOMAIN rows
    BY DEF Scored
  <2> QED BY <1>3, <2>1, LatestOf DEF GetScores, StateInv
<1>4. ASSUME NEW p \in Providers, WithDims(p) # {}
      PROVE  /\ Latest(WithDims(p)) \in WithDims(p) /\ Latest(WithDims(p)) \in Nat
             /\ \A j \in WithDims(p) : j <= Latest(WithDims(p))
  BY <1>2, <1>4, LatestOf DEF StateInv
<1>5. ASSUME NEW p \in ShownProviders
      PROVE  /\ p \in DOMAIN GetScores /\ Shown(p).score = GetScores[p]
             /\ GetScores[p] \in Nat \ {0}
  <2>1. /\ p \in Providers /\ WithDims(p) # {} /\ rows[Latest(WithDims(p))].dims = "set"
    BY DEF ShownProviders
  <2> DEFINE l == Latest(WithDims(p))
  <2>2. l \in Scored(rows, p)
    BY <1>1, <1>2, <1>4, <2>1 DEF Scored, WithDims, WellScored
  <2>3. l = Latest(Scored(rows, p))
    BY <1>2, <1>3, <1>4, <2>1, <2>2
  <2>4. rows[l].score \in Nat \ {0}
    BY <1>1, <2>2 DEF Scored, WellScored
  <2> QED BY <1>3, <2>1, <2>2, <2>3, <2>4
<1>6. ASSUME NEW p \in DOMAIN GetScores \ ShownProviders
      PROVE  \E i \in DOMAIN rows : /\ rows[i].provider = p /\ rows[i].score = NoScore
                                    /\ i > Latest(Scored(rows, p))
  <2>1. p \in Providers /\ Scored(rows, p) # {}
    BY DEF GetScores
  <2>2. WithDims(p) # {}
    BY <1>2, <2>1
  <2>3. Shown(p).dims # "set"
    BY <1>6, <2>1, <2>2 DEF ShownProviders
  <2>4. Latest(WithDims(p)) \in DOMAIN rows /\ Shown(p).provider = p /\ Shown(p).score = NoScore
    BY <1>1, <1>4, <2>1, <2>2, <2>3 DEF WithDims, WellScored
  <2>5. Latest(Scored(rows, p)) <= Latest(WithDims(p))
    BY <1>2, <1>3, <1>4, <2>1, <2>2
  <2>6. Latest(Scored(rows, p)) # Latest(WithDims(p))
    BY <1>3, <2>1, <2>4 DEF Scored
  <2>7. Latest(WithDims(p)) > Latest(Scored(rows, p))
    BY <1>3, <1>4, <2>1, <2>2, <2>5, <2>6
  <2> QED BY <2>4, <2>7
<1>7. ASSUME GetAggregatedAIScore.providers # {}
      PROVE  LET total == GetAggregatedAIScore
             IN  /\ \E p \in total.providers : total.sum >= total.weight * GetScores[p]
                 /\ \E p \in total.providers : total.sum <= total.weight * GetScores[p]
  <2> DEFINE totals == [p \in ShownProviders |-> Shown(p).score]
  <2>1. GetAggregatedAIScore = AggregateScores(totals)
    BY DEF GetAggregatedAIScore
  <2>2. IsFiniteSet(DOMAIN totals)
    <3>1. IsFiniteSet({"openai", "gemini", "perplexity", "claude"})
      <4>1. IsFiniteSet({"claude"})
        BY FS_Singleton
      <4>2. IsFiniteSet({"claude"} \union {"perplexity"})
        BY <4>1, FS_AddElement
      <4>3. IsFiniteSet(({"claude"} \union {"perplexity"}) \union {"gemini"})
        BY <4>2, FS_AddElement
      <4>4. IsFiniteSet((({"claude"} \union {"perplexity"}) \union {"gemini"}) \union {"openai"})
        BY <4>3, FS_AddElement
      <4>5. {"openai", "gemini", "perplexity", "claude"} =
              (({"claude"} \union {"perplexity"}) \union {"gemini"}) \union {"openai"}
        OBVIOUS
      <4> QED BY <4>4, <4>5
    <3>2. ShownProviders \subseteq Registry
      BY ModelsAssumption DEF ShownProviders
    <3>3. IsFiniteSet(ShownProviders)
      BY <3>1, <3>2, FS_Subset DEF Registry
    <3> QED BY <3>3
  <2>3. \A p \in DOMAIN totals : totals[p] = GetScores[p] /\ totals[p] \in Nat \ {0}
    BY <1>5
  <2>4. DOMAIN totals # {}
    <3>1. AggregateScores(totals).providers \subseteq DOMAIN totals
      BY DEF AggregateScores
    <3> QED BY <1>7, <2>1, <3>1
  <2> HIDE DEF totals
  <2> QED BY <2>1, <2>2, <2>3, <2>4, AggregateIsMean
<1> QED
  BY <1>5, <1>6, <1>7 DEF AggregateAgreesWithScores

\* The aggregate takes the scores that the list of scores shows, misses one only after an
\* answer without a score, and lies between two of them
\* (routes.get_scores, get_aggregated_aiscore and aggregator.aggregate_scores).
THEOREM ScoresAgree == GatewaySpec => []AggregateAgreesWithScores
<1>1. GatewayInit => StateInv /\ ScoreInv
  BY StateInvInit, ScoreInvInit
<1>2. StateInv /\ ScoreInv /\ [GatewayNext]_gatewayVars => (StateInv /\ ScoreInv)'
  BY StateInvStep, ScoreInvStep
<1>3. StateInv /\ ScoreInv => AggregateAgreesWithScores
  BY EndpointsAgree
<1> QED
  BY <1>1, <1>2, <1>3, PTL DEF GatewaySpec
-----------------------------------------------------------------------------
\* The detector looks only at the providers and the scores of the rows.
LEMMA DetectsAlike ==
  ASSUME NEW s, NEW t, DOMAIN s = DOMAIN t,
         \A i \in DOMAIN s : s[i].provider = t[i].provider /\ s[i].score = t[i].score,
         NEW p, NEW score
  PROVE  Detects(s, p, score) <=> Detects(t, p, score)
<1>1. Averaged(s, p) = Averaged(t, p) /\ Averaged(s, p) \subseteq DOMAIN s
  BY DEF Averaged, Scored
<1>2. SumOf(s, Averaged(s, p)) = SumOf(t, Averaged(t, p))
  <2> DEFINE I == Averaged(s, p)
  <2>1. [i \in I |-> s[i].score] = [i \in I |-> t[i].score]
    BY <1>1
  <2> HIDE DEF I
  <2>2. SumOf(s, I) = SumOf(t, I)
    BY <2>1 DEF SumOf
  <2> QED BY <1>1, <2>2 DEF I
<1> QED BY <1>1, <1>2 DEF Detects

\* Nothing is flushed at the start.
LEMMA AlertInvInit == GatewayInit => AlertInv
  BY DEF GatewayInit, Idle, AlertInv

\* An alert stands as long as no commit, recalculation or ageing changes the average.
LEMMA AlertInvStep ==
  ASSUME StateInv, AlertInv, [GatewayNext]_gatewayVars
  PROVE  AlertInv'
<1>1. ASSUME UNCHANGED <<rows, aged>>, NEW r \in Requests,
             \A q \in Requests \ {r} : request'[q] = request[q], request'[r].step # "flushed"
      PROVE  AlertInv'
  <2>1. ASSUME NEW q \in Requests, request'[q].step = "flushed", request'[q].clear,
               NEW i \in DOMAIN request'[q].flushed
        PROVE  LET row == request'[q].flushed[i]
               IN row.alerted <=>
                    row.score # NoScore /\ Detects(rows \o request'[q].flushed, row.provider, row.score)
    <3>1. q # r /\ request'[q] = request[q]
      BY <1>1, <2>1
    <3> QED BY <2>1, <3>1 DEF AlertInv
  <2> QED BY <1>1, <2>1 DEF AlertInv, Detects, Averaged
<1>2. ASSUME NEW r \in Requests, RoutePrompt(r)
      PROVE  AlertInv'
  <2>1. UNCHANGED <<rows, aged>>
    BY <1>2 DEF RoutePrompt
  <2>2. request'[r].step # "flushed" /\ \A q \in Requests \ {r} : request'[q] = request[q]
    BY <1>2, RoutePromptChanges
  <2> QED BY <1>1, <2>1, <2>2
<1>3. ASSUME NEW r \in Requests, NEW i \in DOMAIN ListOf[r], LookUp(r, i) \/ CallProvider(r, i)
      PROVE  AlertInv'
  <2>1. UNCHANGED <<rows, aged>> /\ request[r].step = "asking"
    BY <1>3 DEF LookUp, CallProvider, Asks
  <2>2. request'[r].step = request[r].step /\ \A q \in Requests \ {r} : request'[q] = request[q]
    <3>1. \E result : Put(r, i, result)
      BY <1>3 DEF LookUp, CallProvider
    <3>2. request \in [Requests -> RequestState]
      BY DEF StateInv, GatewayTypeOK
    <3> QED BY <3>1, <3>2 DEF Put, RequestState
  <2> QED BY <1>1, <2>1, <2>2
<1>4. ASSUME NEW r \in Requests, Detect(r)
      PROVE  AlertInv'
  <2> DEFINE results == request[r].results
             added == Written(results)
             flushed == request'[r].flushed
  <2>0. UNCHANGED <<rows, aged>>
    BY <1>4 DEF Detect
  <2>1. /\ \A q \in Requests \ {r} : request'[q] = request[q]
        /\ request' \in [Requests -> RequestState]
        /\ DOMAIN flushed = DOMAIN results /\ DOMAIN added = DOMAIN results
        /\ added \in Seq(Row)
        /\ \A i \in DOMAIN results :
             /\ RowFor(flushed[i], results[i], results) /\ RowFor(added[i], results[i], results)
             /\ flushed[i].alerted <=>
                  flushed[i].score # NoScore
                  /\ Detects(rows \o added, flushed[i].provider, flushed[i].score)
    BY <1>4, DetectChanges
  <2>2. flushed \in Seq(Row) /\ rows \in Seq(Row)
    BY <2>1 DEF RequestState, StateInv, GatewayTypeOK
  <2>3. \A i \in DOMAIN results : flushed[i].provider = added[i].provider
                                  /\ flushed[i].score = added[i].score
    BY <2>1 DEF RowFor
  <2> HIDE DEF flushed, added, results
  <2>4. /\ DOMAIN (rows \o added) = DOMAIN (rows \o flushed)
        /\ \A i \in DOMAIN (rows \o added) :
             /\ (rows \o added)[i].provider = (rows \o flushed)[i].provider
             /\ (rows \o added)[i].score = (rows \o flushed)[i].score
    <3>1. Len(added) = Len(flushed)
      BY <2>1, <2>2
    <3>2. /\ DOMAIN (rows \o added) = 1..Len(rows) + Len(added)
          /\ DOMAIN (rows \o flushed) = 1..Len(rows) + Len(flushed)
          /\ \A i \in 1..Len(rows) + Len(added) :
               (rows \o added)[i] = IF i <= Len(rows) THEN rows[i] ELSE added[i - Len(rows)]
          /\ \A i \in 1..Len(rows) + Len(flushed) :
               (rows \o flushed)[i] = IF i <= Len(rows) THEN rows[i] ELSE flushed[i - Len(rows)]
      BY <2>1, <2>2
    <3>3. \A i \in 1..Len(rows) + Len(added) : i <= Len(rows) \/ i - Len(rows) \in DOMAIN results
      BY <2>1, <2>2
    <3> QED BY <2>3, <3>1, <3>2, <3>3
  <2>5. \A p, score : Detects(rows \o added, p, score) <=> Detects(rows \o flushed, p, score)
    <3> DEFINE s == rows \o added
               t == rows \o flushed
    <3>1. DOMAIN s = DOMAIN t
          /\ \A i \in DOMAIN s : s[i].provider = t[i].provider /\ s[i].score = t[i].score
      BY <2>4
    <3> HIDE DEF s, t
    <3>2. \A p, score : Detects(s, p, score) <=> Detects(t, p, score)
      BY <3>1, DetectsAlike
    <3> QED BY <3>2 DEF s, t
  <2>6. ASSUME NEW q \in Requests, request'[q].step = "flushed", request'[q].clear,
               NEW i \in DOMAIN request'[q].flushed
        PROVE  LET row == request'[q].flushed[i]
               IN row.alerted <=>
                    row.score # NoScore /\ Detects(rows \o request'[q].flushed, row.provider, row.score)
    <3>1. CASE q = r
      BY <2>1, <2>5, <2>6, <3>1 DEF flushed
    <3>2. CASE q # r
      BY <2>1, <2>6, <3>2 DEF AlertInv
    <3> QED BY <3>1, <3>2
  <2> QED BY <2>0, <2>6 DEF AlertInv, Detects, Averaged
<1>5. ASSUME \A r \in Requests : request'[r].step = "flushed" => ~request'[r].clear
      PROVE  AlertInv'
  BY <1>5 DEF AlertInv
<1>6. ASSUME NEW r \in Requests, Commit(r)
      PROVE  AlertInv'
  <2>1. \A q \in Requests : request'[q].step = "flushed" => ~request'[q].clear
    BY <1>6, CommitChanges
  <2> QED BY <1>5, <2>1
<1>7. ASSUME RecalculateScores \/ Age
      PROVE  AlertInv'
  BY <1>5, <1>7, OvertakenState DEF RecalculateScores, Age
<1>8. ASSUME Crash
      PROVE  AlertInv'
  BY <1>5, <1>8 DEF Crash, Idle
<1>9. ASSUME UNCHANGED <<rows, aged, request>>
      PROVE  AlertInv'
  BY <1>9 DEF AlertInv, Detects, Averaged
<1> QED
  BY <1>2, <1>3, <1>4, <1>6, <1>7, <1>8, <1>9
     DEF GatewayNext, UpsertProviderConfig, Expire, gatewayVars

\* One more score in the average of those it is held against.
LEMMA DetectsOwnRow ==
  ASSUME NameInv, NEW r \in Requests, request[r].step = "flushed", IsInjective(ListOf[r]),
         NEW i \in DOMAIN ListOf[r], request[r].flushed[i].score # NoScore
  PROVE  LET row == request[r].flushed[i]
             before == Averaged(rows, row.provider)
             n == Cardinality(before)
         IN  Detects(rows \o request[r].flushed, row.provider, row.score) <=>
               n > 0 /\ Abs(n * row.score - SumOf(rows, before)) >= Threshold * (n + 1)
<1> DEFINE new == request[r].flushed
           seen == rows \o new
           row == new[i]
           p == row.provider
           before == Averaged(rows, p)
           window == Averaged(seen, p)
           n == Cardinality(before)
           e == Len(rows) + i
           sum == SumOf(rows, before)
<1>1. /\ new \in Seq(Row) /\ rows \in Seq(Row) /\ Len(rows) \in Nat /\ aged \in 0..Len(rows)
      /\ DOMAIN new = DOMAIN ListOf[r] /\ \A j \in DOMAIN new : new[j].provider = ListOf[r][j]
  <2>1. request[r] \in RequestState
    BY DEF NameInv, StateInv, GatewayTypeOK
  <2>2. new \in Seq(Row)
    BY <2>1 DEF RequestState
  <2>3. rows \in Seq(Row) /\ aged \in 0..Len(rows)
    BY DEF NameInv, StateInv, GatewayTypeOK
  <2>4. DOMAIN new = DOMAIN ListOf[r] /\ \A j \in DOMAIN new : new[j].provider = ListOf[r][j]
    BY DEF NameInv, FlushedInv
  <2> HIDE DEF new
  <2> QED BY <2>2, <2>3, <2>4
<1>2. i \in DOMAIN new /\ i \in Nat \ {0}
  BY <1>1
<1>3. row \in Row /\ row.score \in Nat
  <2>1. row.score # NoScore
    OBVIOUS
  <2> HIDE DEF new
  <2>2. row \in Row
    BY <1>1, <1>2
  <2> QED BY <2>1, <2>2 DEF Row
<1>4. /\ \A j \in DOMAIN rows : j \in DOMAIN seen /\ seen[j] = rows[j]
      /\ e \in DOMAIN seen /\ seen[e] = row
      /\ \A j \in DOMAIN seen :
           \/ j \in DOMAIN rows
           \/ j > Len(rows) /\ j - Len(rows) \in DOMAIN new /\ seen[j] = new[j - Len(rows)]
  <2> HIDE DEF new
  <2> QED BY <1>1, <1>2, ConcatElements
<1>5. DOMAIN rows = 1..Len(rows) /\ e \in Nat /\ e \notin DOMAIN rows /\ e > aged
  BY <1>1, <1>2
<1>6. before \subseteq DOMAIN rows /\ IsFiniteSet(before)
  <2>1. before \subseteq DOMAIN rows
    BY DEF Averaged, Scored
  <2>2. IsFiniteSet(DOMAIN rows)
    BY <1>1, <1>5, FS_Interval
  <2> HIDE DEF before
  <2> QED BY <2>1, <2>2, FS_Subset
<1>7. window = before \union {e}
  <2> HIDE DEF new, seen, e
  <2>1. ASSUME NEW j \in window PROVE j \in before \union {e}
    <3>1. j \in DOMAIN seen /\ seen[j].provider = p /\ seen[j].score # NoScore /\ j > aged
      BY DEF Averaged, Scored
    <3>2. CASE j \in DOMAIN rows
      BY <1>4, <3>1, <3>2 DEF Averaged, Scored
    <3>3. CASE j > Len(rows) /\ j - Len(rows) \in DOMAIN new /\ seen[j] = new[j - Len(rows)]
      <4>1. ListOf[r][j - Len(rows)] = ListOf[r][i]
        BY <1>1, <1>2, <3>1, <3>3
      <4>2. j - Len(rows) = i
        BY <1>1, <3>3, <4>1 DEF IsInjective
      <4>3. j \in Int
        <5>1. seen \in Seq(Row)
          BY <1>1 DEF seen
        <5> QED BY <3>1, <5>1
      <4>4. j = e
        BY <1>1, <1>2, <4>2, <4>3 DEF e
      <4> QED BY <4>4
    <3> QED BY <1>4, <3>1, <3>2, <3>3
  <2>2. ASSUME NEW j \in before PROVE j \in window
    BY <1>4, <1>6 DEF Averaged, Scored
  <2>3. e \in window
    BY <1>4, <1>5 DEF Averaged, Scored, new
  <2> QED BY <2>1, <2>2, <2>3
<1>8. e \notin before /\ window \ {e} = before /\ IsFiniteSet(window) /\ Cardinality(window) = n + 1
      /\ n \in Nat
  <2> HIDE DEF before, window, e
  <2>1. e \notin before
    BY <1>5, <1>6
  <2> QED BY <1>6, <1>7, <2>1, FS_AddElement, FS_CardinalityType
<1>9. SumOf(seen, window) = row.score + sum /\ sum \in Int /\ (n = 0 => sum = 0)
  <2> DEFINE f == [j \in window |-> seen[j].score]
             g == [j \in before |-> rows[j].score]
  <2>1. SumOf(seen, window) = SumFunctionOnSet(f, window)
        /\ sum = SumFunctionOnSet(g, before)
    BY DEF SumOf, SumFunction
  <2>2. \A j \in before : f[j] = g[j] /\ g[j] \in Int
    <3>1. \A j \in before : seen[j] = rows[j]
      BY <1>4, <1>6
    <3>2. \A j \in before : rows[j].score \in Nat
      <4>1. \A j \in DOMAIN rows : rows[j] \in Row
        BY <1>1
      <4>2. \A j \in before : rows[j].score # NoScore
        BY DEF Averaged, Scored
      <4> QED BY <1>6, <4>1, <4>2 DEF Row
    <3>3. before \subseteq window
      BY <1>7
    <3> HIDE DEF before, window, seen
    <3> QED BY <3>1, <3>2, <3>3
  <2>3. f[e] = row.score
    BY <1>4, <1>7
  <2>4. \A j \in window : f[j] \in Int
    <3> HIDE DEF f, g, window, before, e
    <3> QED BY <1>3, <1>7, <2>2, <2>3
  <2>5. e \in window
    BY <1>7
  <2> HIDE DEF f, g, window, before, e
  <2>6. SumFunctionOnSet(f, window) = f[e] + SumFunctionOnSet(f, window \ {e})
    BY <1>8, <2>4, <2>5, SumOfElement
  <2>7. SumFunctionOnSet(f, before) = SumFunctionOnSet(g, before)
    BY <1>6, <2>2, SumAgrees
  <2>8. SumFunctionOnSet(g, before) \in Int
    BY <1>6, <2>2, SumType
  <2>9. n = 0 => SumFunctionOnSet(g, before) = 0
    <3>1. n = 0 => before = {}
      BY <1>6, FS_EmptySet
    <3> QED BY <1>6, <3>1, SumsOfSubsets
  <2> QED BY <1>8, <2>1, <2>3, <2>6, <2>7, <2>8, <2>9
<1>10. Threshold \in Nat \ {0}
  BY NumbersAssumption
<1> HIDE DEF window, before, e, n, sum, seen, row, p
<1>11. Detects(seen, p, row.score) <=>
         Abs((n + 1) * row.score - (row.score + sum)) >= Threshold * (n + 1)
  BY <1>8, <1>9 DEF Detects, window
<1>12. (n + 1) * row.score - (row.score + sum) = n * row.score - sum
  <2>1. (n + 1) * row.score = n * row.score + row.score
    <3>1. \A a, b \in Nat : (a + 1) * b = a * b + b
      OBVIOUS
    <3> QED BY <1>3, <1>8, <3>1
  <2>2. n * row.score \in Int
    BY <1>3, <1>8
  <2> QED BY <1>3, <1>9, <2>1, <2>2
<1>13. n = 0 => ~(Abs(n * row.score - sum) >= Threshold * (n + 1))
  BY <1>3, <1>9, <1>10 DEF Abs
<1>14. Detects(seen, p, row.score) <=>
         n > 0 /\ Abs(n * row.score - sum) >= Threshold * (n + 1)
  <2>1. n = 0 \/ n > 0
    BY <1>8
  <2> QED BY <1>11, <1>12, <1>13, <2>1
<1> QED
  BY <1>14 DEF window, before, n, sum, seen, row, p

\* A request that no other commit overtook raises an alert exactly when its score is away
\* from the average of the last week by (n + 1) / n thresholds, for the new score is itself
\* part of that average (change_detector.detect_and_create_alert).
THEOREM AlertsFollow == GatewaySpec => AlertsFollowHistory
<1> DEFINE Raised ==
      \A r \in Requests :
        status'[r] \notin {status[r], "lost"} /\ request[r].clear /\ IsInjective(ListOf[r]) =>
          \A i \in DOMAIN ListOf[r] :
            LET row == rows'[Len(rows) + i]
                before == Averaged(rows, row.provider)
                n == Cardinality(before)
            IN row.score # NoScore =>
                 (row.alerted <=> /\ n > 0
                                  /\ Abs(n * row.score - SumOf(rows, before)) >= Threshold * (n + 1))
<1>1. GatewayInit => NameInv /\ AlertInv
  BY NameInvInit, AlertInvInit
<1>2. NameInv /\ AlertInv /\ [GatewayNext]_gatewayVars => (NameInv /\ AlertInv)'
  BY NameInvStep, AlertInvStep DEF NameInv
<1>3. NameInv /\ AlertInv /\ [GatewayNext]_gatewayVars => [Raised]_gatewayVars
  <2> SUFFICES ASSUME NameInv, AlertInv, [GatewayNext]_gatewayVars,
                      NEW r \in Requests, status'[r] \notin {status[r], "lost"},
                      request[r].clear, IsInjective(ListOf[r]), NEW i \in DOMAIN ListOf[r],
                      rows'[Len(rows) + i].score # NoScore
               PROVE  LET row == rows'[Len(rows) + i]
                          before == Averaged(rows, row.provider)
                          n == Cardinality(before)
                      IN row.alerted <=>
                           n > 0 /\ Abs(n * row.score - SumOf(rows, before)) >= Threshold * (n + 1)
    OBVIOUS
  <2>1. Commit(r)
    <3>1. status \in [Requests -> {"none", "error", "partial", "complete", "lost"}]
      BY DEF NameInv, StateInv, GatewayTypeOK
    <3>2. ~Crash
      BY <3>1 DEF Crash
    <3>3. PICK q \in Requests : Commit(q)
      BY <3>2 DEF GatewayNext, gatewayVars, UpsertProviderConfig, RoutePrompt, Detect, LookUp,
         CallProvider, RecalculateScores, Expire, Age
    <3>4. q = r
      BY <3>1, <3>3 DEF Commit
    <3> QED BY <3>3, <3>4
  <2> DEFINE new == request[r].flushed
             row == new[i]
  <2>2. request[r].step = "flushed" /\ rows' = rows \o new
    BY <2>1 DEF Commit
  <2>3. new \in Seq(Row) /\ rows \in Seq(Row) /\ DOMAIN new = DOMAIN ListOf[r]
    <3>1. request[r] \in RequestState
      BY DEF NameInv, StateInv, GatewayTypeOK
    <3> QED BY <2>2, <3>1 DEF RequestState, NameInv, StateInv, GatewayTypeOK, FlushedInv
  <2>4. rows'[Len(rows) + i] = row
    <3>1. i \in DOMAIN new
      BY <2>3
    <3> HIDE DEF new
    <3> QED BY <2>2, <2>3, <3>1, ConcatElements
  <2>5. row.alerted <=> row.score # NoScore /\ Detects(rows \o new, row.provider, row.score)
    BY <2>2, <2>3 DEF AlertInv
  <2> QED BY <2>2, <2>4, <2>5, DetectsOwnRow
<1> QED
  BY <1>1, <1>2, <1>3, PTL DEF GatewaySpec, AlertsFollowHistory
-----------------------------------------------------------------------------
(***************************************************************************)
(* The rate limiter.                                                       *)
(***************************************************************************)
FiniteInv ==
  /\ IsFiniteSet(bucket) /\ IsFiniteSet(granted)
  /\ \A p \in Processes : IsFiniteSet(fallback[p])

\* Nothing is from the future.
ClockInv ==
  /\ \A p \in Processes : \A e \in fallback[p] : e.at <= now
  /\ \A c \in Callers : caller[c].at <= now

\* What was let through in the minute before the latest reading that a pipeline has run
\* with is in the bucket, and no caller that has not been let through will take it out.
GrantedInv ==
  /\ Recent(granted, swept) \subseteq bucket
  /\ \A c \in Callers : caller[c].step \in {"read", "withdraw"} => At(c, caller[c].at) \notin granted

WindowInv == LimiterTypeOK /\ FiniteInv /\ ClockInv /\ GrantedInv /\ WindowIsRespected

\* A full window takes no more, and one that is not takes one more.
LEMMA OneMore ==
  ASSUME NEW entries, IsFiniteSet(entries), NEW kept, IsFiniteSet(kept),
         NEW e, NEW t \in Int, NEW u \in Int,
         Cardinality(kept) \in Nat, Cardinality(kept) < Limit,
         u >= t => InWindow(entries, u) \subseteq kept,
         u < t => e \notin InWindow(entries \union {e}, u),
         Cardinality(InWindow(entries, u)) <= Limit
  PROVE  Cardinality(InWindow(entries \union {e}, u)) <= Limit
<1>1. InWindow(entries \union {e}, u) \subseteq InWindow(entries, u) \union {e}
  BY DEF InWindow
<1>2. IsFiniteSet(InWindow(entries, u))
  BY FS_Subset DEF InWindow
<1>3. CASE u < t
  <2>1. InWindow(entries \union {e}, u) = InWindow(entries, u)
    BY <1>1, <1>3 DEF InWindow
  <2> QED BY <2>1
<1>4. CASE u >= t
  <2>1. InWindow(entries \union {e}, u) \subseteq kept \union {e}
    BY <1>1, <1>4
  <2>2. /\ IsFiniteSet(kept \union {e}) /\ Cardinality(kept \union {e}) \in Nat
        /\ Cardinality(kept \union {e}) <= Cardinality(kept) + 1
    <3>1. /\ IsFiniteSet(kept \union {e})
          /\ Cardinality(kept \union {e})
               = IF e \in kept THEN Cardinality(kept) ELSE Cardinality(kept) + 1
      BY FS_AddElement
    <3> QED BY <3>1
  <2>3. InWindow(entries \union {e}, u) \in SUBSET (kept \union {e})
    BY <2>1
  <2>4. /\ IsFiniteSet(InWindow(entries \union {e}, u))
        /\ Cardinality(InWindow(entries \union {e}, u)) <= Cardinality(kept \union {e})
    BY <2>2, <2>3, FS_Subset
  <2>5. Cardinality(InWindow(entries \union {e}, u)) \in Nat
    BY <2>4, FS_CardinalityType
  <2> QED BY <2>2, <2>4, <2>5, LimitAssumption
<1> QED BY <1>3, <1>4

LEMMA WindowInvInit == LimiterInit => WindowInv
<1> SUFFICES ASSUME LimiterInit PROVE WindowInv
  OBVIOUS
<1>1. LimiterTypeOK
  <2>1. 0 \in Time
    BY LimitAssumption DEF Time
  <2>2. [step |-> "idle", at |-> 0] \in CallerState
    BY <2>1 DEF CallerState
  <2> QED BY <2>1, <2>2 DEF LimiterInit, LimiterTypeOK
<1>2. FiniteInv /\ ClockInv /\ GrantedInv
  BY FS_EmptySet DEF LimiterInit, FiniteInv, ClockInv, GrantedInv, Recent
<1>3. WindowIsRespected
  <2>1. \A t : InWindow({}, t) = {}
    BY DEF InWindow
  <2> QED BY <2>1, FS_EmptySet, LimitAssumption DEF LimiterInit, WindowIsRespected
<1> QED BY <1>1, <1>2, <1>3 DEF WindowInv
\* A part of a window is no larger.
LEMMA FewerInWindow ==
  ASSUME NEW entries, IsFiniteSet(entries), NEW fewer \in SUBSET entries, NEW u \in Int,
         Cardinality(InWindow(entries, u)) <= Limit
  PROVE  Cardinality(InWindow(fewer, u)) <= Limit
<1>1. InWindow(entries, u) \in SUBSET entries
  BY DEF InWindow
<1>2. IsFiniteSet(InWindow(entries, u))
  BY <1>1, FS_Subset
<1>3. InWindow(fewer, u) \in SUBSET InWindow(entries, u)
  BY DEF InWindow
<1>4. /\ IsFiniteSet(InWindow(fewer, u))
      /\ Cardinality(InWindow(fewer, u)) <= Cardinality(InWindow(entries, u))
  BY <1>2, <1>3, FS_Subset
<1>5. Cardinality(InWindow(fewer, u)) \in Nat /\ Cardinality(InWindow(entries, u)) \in Nat
  BY <1>2, <1>4, FS_CardinalityType
<1> QED BY <1>4, <1>5, LimitAssumption

LEMMA RecentIsFinite ==
  ASSUME NEW entries, IsFiniteSet(entries), NEW t
  PROVE  IsFiniteSet(Recent(entries, t)) /\ Cardinality(Recent(entries, t)) \in Nat
<1>1. Recent(entries, t) \in SUBSET entries
  BY DEF Recent
<1> QED BY <1>1, FS_Subset, FS_CardinalityType

LEMMA TimeIsInt == Time \subseteq Int
BY DEF Time

\* The list in the process.
LEMMA LocalPreserves ==
  ASSUME WindowInv, NEW c \in Callers, Local(c), UNCHANGED <<now, granted, late>>,
         bucket' \subseteq Entry, IsFiniteSet(bucket'), swept' \in Time,
         Recent(granted, swept') \subseteq bucket'
  PROVE  WindowInv'
<1> USE DEF WindowInv
<1> DEFINE p == ProcessOf[c]
           kept == Recent(fallback[p], now)
           e == At(c, now)
<1>1. p \in Processes /\ now \in Time /\ now \in Int
  BY ProcessAssumption, TimeIsInt DEF LimiterTypeOK
<1>2. e \in Entry /\ e.at = now
  BY <1>1 DEF At, Entry
<1>3. IsFiniteSet(fallback[p]) /\ fallback[p] \subseteq Entry /\ \A x \in fallback[p] : x.at <= now
  BY <1>1 DEF FiniteInv, LimiterTypeOK, ClockInv
<1>4. IsFiniteSet(kept) /\ Cardinality(kept) \in Nat
  BY <1>3, RecentIsFinite
<1>5. kept \in SUBSET fallback[p]
  BY DEF Recent
<1>6. \/ fallback' = [fallback EXCEPT ![p] = kept]
      \/ fallback' = [fallback EXCEPT ![p] = kept \union {e}] /\ Cardinality(kept) < Limit
  BY <1>4, LimitAssumption DEF Local
<1>7. \E step \in {"idle", "sleep"} : Moves(c, step, 0)
  BY DEF Local
<1> HIDE DEF p, kept, e
<1>8. fallback'[p] \in {kept, kept \union {e}} /\ \A q \in Processes \ {p} : fallback'[q] = fallback[q]
  BY <1>1, <1>6 DEF LimiterTypeOK
<1>9. /\ caller' \in [Callers -> CallerState]
      /\ \A x \in Callers : caller'[x].step \in {"read", "withdraw"} => caller'[x] = caller[x]
      /\ \A x \in Callers : caller'[x].at <= now
  <2>1. PICK step \in {"idle", "sleep"} : caller' = [caller EXCEPT ![c] = [step |-> step, at |-> 0]]
    BY <1>7 DEF Moves
  <2>2. 0 \in Time
    BY LimitAssumption DEF Time
  <2>3. [step |-> step, at |-> 0] \in CallerState
    BY <2>2 DEF CallerState
  <2>4. now >= 0
    BY DEF LimiterTypeOK, Time
  <2> QED BY <2>1, <2>3, <2>4 DEF LimiterTypeOK, ClockInv
<1>10. LimiterTypeOK'
  <2>1. fallback' \in [Processes -> SUBSET Entry]
    BY <1>2, <1>3, <1>5, <1>6 DEF LimiterTypeOK
  <2> QED BY <1>9, <2>1 DEF LimiterTypeOK
<1>11. FiniteInv'
  <2>1. IsFiniteSet(kept \union {e})
    BY <1>4, FS_AddElement
  <2> QED BY <1>4, <1>8, <2>1 DEF FiniteInv
<1>12. ClockInv'
  <2>1. \A q \in Processes : \A x \in fallback'[q] : x.at <= now
    BY <1>1, <1>2, <1>3, <1>5, <1>8 DEF ClockInv
  <2> QED BY <1>9, <2>1 DEF ClockInv
<1>13. GrantedInv'
  BY <1>9 DEF GrantedInv
<1>14. WindowIsRespected'
  <2>1. ASSUME NEW u \in Time
        PROVE  Cardinality(InWindow(fallback'[p], u)) <= Limit
    <3>1. u \in Int /\ Cardinality(InWindow(fallback[p], u)) <= Limit
      BY <1>1, TimeIsInt DEF WindowIsRespected
    <3>2. CASE fallback'[p] = kept
      BY <1>3, <1>5, <3>1, <3>2, FewerInWindow
    <3>3. CASE fallback'[p] = kept \union {e} /\ Cardinality(kept) < Limit
      <4>1. u >= now => InWindow(fallback[p], u) \subseteq kept
        BY <1>1, <1>3, <3>1, TimeIsInt, LimitAssumption DEF kept, InWindow, Recent, Entry
      <4>2. u < now => e \notin InWindow(fallback[p] \union {e}, u)
        BY <1>1, <1>2, <3>1 DEF InWindow
      <4>3. Cardinality(InWindow(fallback[p] \union {e}, u)) <= Limit
        BY <1>1, <1>3, <1>4, <3>1, <3>3, <4>1, <4>2, OneMore
      <4>4. IsFiniteSet(fallback[p] \union {e})
        BY <1>3, FS_AddElement
      <4>5. kept \union {e} \in SUBSET (fallback[p] \union {e})
        BY <1>5
      <4> QED BY <3>1, <3>3, <4>3, <4>4, <4>5, FewerInWindow
    <3> QED BY <1>1, <1>6, <3>2, <3>3 DEF LimiterTypeOK
  <2> QED BY <1>8, <2>1 DEF WindowIsRespected
<1> QED BY <1>10, <1>11, <1>12, <1>13, <1>14

\* The set in Redis.
LEMMA PipelinePreserves ==
  ASSUME WindowInv, NEW c \in Callers, Pipeline(c)
  PROVE  WindowInv'
<1> USE DEF WindowInv
<1> DEFINE t == caller[c].at
           kept == Recent(bucket, t)
           e == At(c, t)
<1>1. t \in Time /\ t \in Int /\ now \in Int /\ swept \in Int
  BY TimeIsInt DEF LimiterTypeOK, CallerState
<1>2. e \in Entry /\ e.at = t /\ e.by = c
  BY <1>1 DEF At, Entry
<1>3. IsFiniteSet(kept) /\ Cardinality(kept) \in Nat /\ kept \subseteq bucket
  BY RecentIsFinite DEF FiniteInv, Recent
<1>4. /\ caller[c].step = "read" /\ bucket' = kept \union {e}
      /\ UNCHANGED <<now, fallback>> /\ swept' = IF t > swept THEN t ELSE swept
      /\ \/ Moves(c, "withdraw", t) /\ UNCHANGED <<granted, late>>
         \/ /\ Moves(c, "idle", 0) /\ granted' = granted \union {e}
            /\ late' = IF t < swept THEN late \union {e} ELSE late
            /\ Cardinality(kept) < Limit
  BY <1>2, <1>3, LimitAssumption DEF Pipeline, Sweeps, LetsThrough
<1>5. swept' \in Time /\ swept' >= t /\ swept' >= swept
  BY <1>1, <1>4 DEF LimiterTypeOK
<1>6. e \notin granted
  BY <1>4 DEF GrantedInv
<1> HIDE DEF t, kept, e
<1>7. granted' \in {granted, granted \union {e}}
  BY <1>4
<1>8. /\ caller' \in [Callers -> CallerState]
      /\ \A x \in Callers \ {c} : caller'[x] = caller[x]
      /\ caller'[c].step # "read"
      /\ caller'[c].step = "withdraw" => caller'[c].at = t /\ UNCHANGED granted
  <2>1. 0 \in Time
    BY LimitAssumption DEF Time
  <2>2. [step |-> "idle", at |-> 0] \in CallerState /\ [step |-> "withdraw", at |-> t] \in CallerState
    BY <1>1, <2>1 DEF CallerState
  <2> QED BY <1>4, <2>2 DEF LimiterTypeOK, Moves
<1>9. LimiterTypeOK'
  <2>1. late' \subseteq granted'
    BY <1>4 DEF LimiterTypeOK
  <2> QED BY <1>2, <1>3, <1>4, <1>5, <1>7, <1>8, <2>1 DEF LimiterTypeOK
<1>10. FiniteInv'
  <2>1. IsFiniteSet(kept \union {e}) /\ IsFiniteSet(granted \union {e})
    BY <1>3, FS_AddElement DEF FiniteInv
  <2> QED BY <1>4, <1>7, <2>1 DEF FiniteInv
<1>11. /\ t <= now
       /\ \A x \in Callers : caller'[x].at <= now
  <2>1. t <= now /\ now >= 0
    BY DEF ClockInv, LimiterTypeOK, Time, t
  <2> QED BY <1>4, <1>8, <2>1 DEF ClockInv, Moves, LimiterTypeOK
<1>12. ClockInv'
  BY <1>2, <1>4, <1>7, <1>8, <1>11 DEF ClockInv
<1>13. GrantedInv'
  <2>1. Recent(granted', swept') \subseteq bucket'
    <3> SUFFICES ASSUME NEW x \in granted', x.at > swept' - Window PROVE x \in bucket'
      BY DEF Recent
    <3>1. CASE x = e
      BY <1>4, <3>1
    <3>2. CASE x \in granted
      <4>1. x.at \in Int /\ swept' \in Int
        BY <1>5, <3>2, TimeIsInt DEF LimiterTypeOK, Entry
      <4>2. x.at > swept - Window /\ x.at > t - Window
        BY <1>1, <1>5, <4>1, LimitAssumption
      <4> QED BY <1>4, <3>2, <4>2 DEF GrantedInv, Recent, kept
    <3> QED BY <1>7, <3>1, <3>2
  <2>2. \A x \in Callers : caller'[x].step \in {"read", "withdraw"} =>
          At(x, caller'[x].at) \notin granted'
    <3> SUFFICES ASSUME NEW x \in Callers, caller'[x].step \in {"read", "withdraw"}
                 PROVE  At(x, caller'[x].at) \notin granted'
      OBVIOUS
    <3>1. CASE x = c
      BY <1>6, <1>8, <3>1 DEF e
    <3>2. CASE x # c
      BY <1>2, <1>7, <1>8, <3>2 DEF GrantedInv, At
    <3> QED BY <3>1, <3>2
  <2> QED BY <1>4, <2>1, <2>2 DEF GrantedInv
<1>14. WindowIsRespected'
  <2> DEFINE ordered == granted \ late
  <2>1. IsFiniteSet(ordered)
    <3>1. ordered \in SUBSET granted
      OBVIOUS
    <3> QED BY <3>1, FS_Subset DEF FiniteInv
  <2>2. \/ (granted \ late)' = ordered
        \/ (granted \ late)' = ordered \union {e} /\ t >= swept /\ Cardinality(kept) < Limit
    <3>1. CASE UNCHANGED <<granted, late>>
      BY <3>1
    <3>2. CASE granted' = granted \union {e} /\ t < swept /\ late' = late \union {e}
      BY <1>6, <3>2
    <3>3. CASE granted' = granted \union {e} /\ ~(t < swept) /\ late' = late /\ Cardinality(kept) < Limit
      <4>1. e \notin late
        BY <1>6 DEF LimiterTypeOK
      <4>2. t >= swept
        BY <1>1, <3>3
      <4> QED BY <3>3, <4>1, <4>2
    <3> QED BY <1>4, <3>1, <3>2, <3>3
  <2>3. ASSUME NEW u \in Time
        PROVE  Cardinality(InWindow((granted \ late)', u)) <= Limit
    <3>1. u \in Int /\ Cardinality(InWindow(ordered, u)) <= Limit
      BY <2>3, TimeIsInt DEF WindowIsRespected
    <3>2. CASE (granted \ late)' = ordered
      BY <3>1, <3>2
    <3>3. CASE (granted \ late)' = ordered \union {e} /\ t >= swept /\ Cardinality(kept) < Limit
      <4>1. u >= t => InWindow(ordered, u) \subseteq kept
        <5> SUFFICES ASSUME u >= t, NEW x \in InWindow(ordered, u) PROVE x \in kept
          OBVIOUS
        <5>1. x \in granted /\ x.at \in Int /\ x.at > u - Window
          BY TimeIsInt DEF InWindow, LimiterTypeOK, Entry
        <5>2. x.at > t - Window /\ x.at > swept - Window
          BY <1>1, <3>1, <3>3, <5>1, LimitAssumption
        <5>3. x \in bucket
          BY <5>1, <5>2 DEF GrantedInv, Recent
        <5> QED BY <5>2, <5>3 DEF kept, Recent
      <4> HIDE DEF ordered
      <4>2. u < t => e \notin InWindow(ordered \union {e}, u)
        BY <1>1, <1>2, <3>1 DEF InWindow
      <4> QED BY <1>1, <1>3, <2>1, <3>1, <3>3, <4>1, <4>2, OneMore
    <3> QED BY <2>2, <3>2, <3>3
  <2> QED BY <1>4, <2>3 DEF WindowIsRespected
<1> QED BY <1>9, <1>10, <1>12, <1>13, <1>14

LEMMA WindowInvNext == WindowInv /\ [LimiterNext]_limiterVars => WindowInv'
<1> SUFFICES ASSUME WindowInv, [LimiterNext]_limiterVars PROVE WindowInv'
  OBVIOUS
<1> USE DEF WindowInv
<1>1. ASSUME NEW c \in Callers, ReadClock(c)
      PROVE  WindowInv'
  <2>1. /\ caller' = [caller EXCEPT ![c] = [step |-> "read", at |-> now]]
        /\ UNCHANGED <<now, bucket, fallback, granted, late, swept>>
        /\ At(c, now) \notin granted
    BY <1>1 DEF ReadClock, Moves
  <2>2. [step |-> "read", at |-> now] \in CallerState
    BY DEF LimiterTypeOK, CallerState
  <2>3. LimiterTypeOK'
    BY <2>1, <2>2 DEF LimiterTypeOK
  <2>4. now <= now
    BY TimeIsInt DEF LimiterTypeOK
  <2>5. FiniteInv' /\ ClockInv'
    BY <2>1, <2>4 DEF FiniteInv, ClockInv, LimiterTypeOK
  <2>6. GrantedInv' /\ WindowIsRespected'
    BY <2>1 DEF GrantedInv, WindowIsRespected, LimiterTypeOK
  <2> QED BY <2>3, <2>5, <2>6
<1>2. ASSUME NEW c \in Callers, Withdraw(c)
      PROVE  WindowInv'
  <2>1. /\ caller' = [caller EXCEPT ![c] = [step |-> "sleep", at |-> 0]]
        /\ UNCHANGED <<now, fallback, granted, late, swept>>
        /\ bucket' = bucket \ {At(c, caller[c].at)} /\ caller[c].step = "withdraw"
    BY <1>2 DEF Withdraw, Moves
  <2>2. 0 \in Time /\ now >= 0
    BY LimitAssumption DEF Time, LimiterTypeOK
  <2>3. [step |-> "sleep", at |-> 0] \in CallerState
    BY <2>2 DEF CallerState
  <2>4. LimiterTypeOK'
    BY <2>1, <2>3 DEF LimiterTypeOK
  <2>5. IsFiniteSet(bucket')
    BY <2>1, FS_RemoveElement DEF FiniteInv
  <2>6. FiniteInv' /\ ClockInv'
    BY <2>1, <2>2, <2>5 DEF FiniteInv, ClockInv, LimiterTypeOK
  <2>7. GrantedInv' /\ WindowIsRespected'
    BY <2>1 DEF GrantedInv, WindowIsRespected, LimiterTypeOK, Recent
  <2> QED BY <2>4, <2>6, <2>7
<1>3. ASSUME NEW c \in Callers, FallBack(c)
      PROVE  WindowInv'
  BY <1>3, LocalPreserves DEF FallBack, LimiterTypeOK, FiniteInv, GrantedInv
<1>4. ASSUME NEW c \in Callers, PipelineUnanswered(c)
      PROVE  WindowInv'
  <2> DEFINE t == caller[c].at
             kept == Recent(bucket, t)
  <2>1. t \in Time /\ t \in Int /\ swept \in Int
    BY TimeIsInt DEF LimiterTypeOK, CallerState
  <2>2. /\ bucket' = kept \union {At(c, t)} /\ Local(c) /\ UNCHANGED <<now, granted, late>>
        /\ swept' = IF t > swept THEN t ELSE swept
    BY <1>4 DEF PipelineUnanswered, Sweeps
  <2>3. At(c, t) \in Entry /\ kept \subseteq bucket
    BY <2>1 DEF At, Entry, Recent
  <2>4. IsFiniteSet(kept)
    BY RecentIsFinite DEF FiniteInv
  <2>5. IsFiniteSet(kept \union {At(c, t)})
    BY <2>4, FS_AddElement
  <2>6. swept' \in Time /\ Recent(granted, swept') \subseteq kept
    <3>1. swept' \in Time /\ swept' \in Int /\ swept' >= t /\ swept' >= swept
      BY <2>1, <2>2 DEF LimiterTypeOK
    <3>2. ASSUME NEW x \in granted, x.at > swept' - Window
          PROVE  x \in kept
      <4>1. x.at \in Int
        BY TimeIsInt DEF LimiterTypeOK, Entry
      <4>2. x.at > swept - Window /\ x.at > t - Window
        BY <2>1, <3>1, <3>2, <4>1, LimitAssumption
      <4> QED BY <4>2 DEF GrantedInv, Recent
    <3> QED BY <3>1, <3>2 DEF Recent
  <2> HIDE DEF t, kept
  <2>7. bucket' \subseteq Entry
    BY <2>2, <2>3 DEF LimiterTypeOK
  <2> QED BY <2>2, <2>5, <2>6, <2>7, LocalPreserves
<1>5. ASSUME NEW p \in Processes, Restart(p)
      PROVE  WindowInv'
  <2>1. /\ fallback' = [fallback EXCEPT ![p] = {}]
        /\ caller' = [c \in Callers |->
              IF ProcessOf[c] = p THEN [step |-> "idle", at |-> 0] ELSE caller[c]]
        /\ UNCHANGED <<now, bucket, granted, late, swept>>
    BY <1>5 DEF Restart
  <2>2. 0 \in Time /\ now >= 0
    BY LimitAssumption DEF Time, LimiterTypeOK
  <2>3. [step |-> "idle", at |-> 0] \in CallerState
    BY <2>2 DEF CallerState
  <2>4. LimiterTypeOK'
    BY <2>1, <2>3 DEF LimiterTypeOK
  <2>5. \A q \in Processes : fallback'[q] \in {{}, fallback[q]}
    BY <2>1 DEF LimiterTypeOK
  <2>6. \A c \in Callers : \/ caller'[c] = caller[c]
                           \/ caller'[c].step = "idle" /\ caller'[c].at = 0
    BY <2>1
  <2>7. FiniteInv'
    BY <2>1, <2>5, FS_EmptySet DEF FiniteInv
  <2>8. ClockInv'
    BY <2>1, <2>2, <2>5, <2>6 DEF ClockInv
  <2>9. GrantedInv'
    BY <2>1, <2>6 DEF GrantedInv
  <2>10. WindowIsRespected'
    <3>1. \A u : InWindow({}, u) = {}
      BY DEF InWindow
    <3>2. \A u \in Time, q \in Processes : Cardinality(InWindow(fallback'[q], u)) <= Limit
      <4> SUFFICES ASSUME NEW u \in Time, NEW q \in Processes
                   PROVE  Cardinality(InWindow(fallback'[q], u)) <= Limit
        OBVIOUS
      <4>1. CASE fallback'[q] = {}
        <5>1. Cardinality(InWindow(fallback'[q], u)) = 0
          BY <3>1, <4>1, FS_EmptySet
        <5> QED BY <5>1, LimitAssumption
      <4>2. CASE fallback'[q] = fallback[q]
        BY <4>2 DEF WindowIsRespected
      <4> QED BY <2>5, <4>1, <4>2
    <3> QED BY <2>1, <3>2 DEF WindowIsRespected
  <2> QED BY <2>4, <2>7, <2>8, <2>9, <2>10
<1>6. CASE Tick
  <2>1. /\ now < MaxTime /\ now' = now + 1
        /\ UNCHANGED <<bucket, fallback, caller, granted, late, swept>>
    BY <1>6 DEF Tick, LimiterTypeOK
  <2>2. LimiterTypeOK'
    BY <1>6, <2>1, LimitAssumption DEF Tick, LimiterTypeOK, Time
  <2>0. /\ now \in Int
        /\ \A p \in Processes : \A e \in fallback[p] : e.at \in Int
        /\ \A c \in Callers : caller[c].at \in Int
    <3>1. \A e \in Entry : e.at \in Int
      BY TimeIsInt DEF Entry
    <3>2. \A s \in CallerState : s.at \in Int
      BY TimeIsInt DEF CallerState
    <3>3. now \in Int
      BY TimeIsInt DEF LimiterTypeOK
    <3> QED BY <3>1, <3>2, <3>3 DEF LimiterTypeOK
  <2>3. ClockInv'
    <3>2. \A p \in Processes : \A e \in fallback[p] : e.at <= now'
      BY <2>0, <2>1 DEF ClockInv
    <3>3. \A c \in Callers : caller[c].at <= now'
      BY <2>0, <2>1 DEF ClockInv
    <3> QED BY <2>1, <3>2, <3>3 DEF ClockInv
  <2>4. FiniteInv'
    BY <2>1 DEF FiniteInv
  <2>5. GrantedInv'
    BY <2>1 DEF GrantedInv
  <2>6. WindowIsRespected'
    BY <2>1 DEF WindowIsRespected
  <2> QED BY <2>2, <2>3, <2>4, <2>5, <2>6
<1>7. CASE UNCHANGED limiterVars
  <2>1. UNCHANGED <<now, bucket, fallback, caller, granted, late, swept>>
    BY <1>7 DEF limiterVars
  <2>2. LimiterTypeOK' /\ FiniteInv' /\ ClockInv'
    BY <2>1 DEF LimiterTypeOK, FiniteInv, ClockInv
  <2>3. GrantedInv' /\ WindowIsRespected'
    BY <2>1 DEF GrantedInv, WindowIsRespected
  <2> QED BY <2>2, <2>3
<1> QED BY <1>1, <1>2, <1>3, <1>4, <1>5, <1>6, <1>7, PipelinePreserves DEF LimiterNext

\* Of the calls that pass Redis in order, no window of a minute holds more than the limit,
\* nor does the list of one process, for any number of callers and processes, over outages
\* and restarts.  Calls out of order, whose pipeline runs after that of a later reading,
\* are not counted: they may exceed the limit.
THEOREM WindowsAreRespected == LimiterSpec => []WindowIsRespected
<1>1. WindowInv => WindowIsRespected
  BY DEF WindowInv
<1> QED BY <1>1, WindowInvInit, WindowInvNext, PTL DEF LimiterSpec
-----------------------------------------------------------------------------
(***************************************************************************)
(* The keys.                                                               *)
(***************************************************************************)
Piece == MasterKeys \union Secrets \union {NoSecret}
Setting == Secrets \union {NoSecret}

\* The last setting of a row that is there.
WrittenInv == \A r \in Rows : stored[r] # Absent => \E s \in Setting : written[r] = <<s>>

\* A setting is stored as it is, or encrypted once with the service's key, and is the last
\* one unless the row is stale.
Fits(key, value) ==
  \E s \in Setting : value = <<s>> \/ (key # NoKey /\ value = Encrypt(key, <<s>>))

StoredInv == \A r \in Rows \ unreadable : stored[r] # Absent => Fits(serviceKey, stored[r])

FreshInv ==
  \A r \in Rows \ unreadable : stored[r] # Absent /\ r \notin stale =>
    ResultValue(serviceKey, stored[r]) = written[r]

\* What is not encrypted is a setting, and no row goes.
IsPlain(value) == Len(value) = 1 => \E s \in Setting : value = <<s>>

PlainInv == \A r \in Rows : stored[r] # Absent => IsPlain(stored[r])

ReadInv ==
  \A x \in Runs : script[x] # Done =>
    \A r \in DOMAIN script[x].read : stored[r] # Absent /\ IsPlain(script[x].read[r])

KeyInv ==
  /\ DOMAIN upsert = Upserts /\ DOMAIN script = Runs
  /\ KeyTypeOK /\ WrittenInv /\ StoredInv /\ FreshInv /\ PlainInv /\ ReadInv

LEMMA EncryptedValue ==
  ASSUME NEW key \in MasterKeys, NEW value \in Value
  PROVE  /\ Encrypt(key, value) \in Value
         /\ Len(Encrypt(key, value)) > 1 /\ Len(Encrypt(key, value)) # 1
         /\ Head(Encrypt(key, value)) = key
         /\ Tail(Encrypt(key, value)) = value
<1>1. value \in Seq(Piece) /\ value # <<>> /\ <<key>> \in Seq(Piece) /\ Len(<<key>>) = 1
  BY DEF Value, Piece
<1>2. Len(value) \in Nat \ {0}
  BY <1>1, EmptySeq
<1> DEFINE e == <<key>> \o value
<1>3. /\ e \in Seq(Piece) /\ Len(e) = 1 + Len(value)
      /\ \A i \in 1..(1 + Len(value)) : e[i] = IF i <= 1 THEN <<key>>[i] ELSE value[i - 1]
  BY <1>1, ConcatProperties
<1> HIDE DEF e
<1>4. Len(e) > 1 /\ Len(e) # 1 /\ e # <<>>
  BY <1>2, <1>3
<1>5. e[1] = key
  <2>1. 1 \in 1..(1 + Len(value))
    BY <1>2
  <2> QED BY <1>3, <2>1
<1>6. Head(e) = key
  BY <1>3, <1>4, <1>5
<1>7. /\ Tail(e) \in Seq(Piece) /\ Len(Tail(e)) = Len(value)
      /\ \A i \in 1..Len(Tail(e)) : Tail(e)[i] = e[i + 1]
  <2>1. /\ Tail(e) \in Seq(Piece) /\ Len(Tail(e)) = Len(e) - 1
        /\ \A i \in 1..Len(Tail(e)) : Tail(e)[i] = e[i + 1]
    BY <1>3, <1>4, HeadTailProperties
  <2> QED BY <1>2, <1>3, <2>1
<1>8. \A i \in 1..Len(value) : Tail(e)[i] = value[i]
  <2> SUFFICES ASSUME NEW i \in 1..Len(value) PROVE Tail(e)[i] = value[i]
    OBVIOUS
  <2>1. i + 1 \in 1..(1 + Len(value)) /\ ~(i + 1 <= 1) /\ (i + 1) - 1 = i
    BY <1>2
  <2>2. e[i + 1] = value[i]
    BY <1>3, <2>1
  <2> QED BY <1>7, <2>2
<1>9. Tail(e) = value
  BY <1>1, <1>7, <1>8, SeqEqual
<1> QED BY <1>3, <1>4, <1>6, <1>9 DEF e, Encrypt, Value, Piece

LEMMA PlainValue ==
  ASSUME NEW s \in Setting
  PROVE  /\ <<s>> \in Value /\ <<s>> # Absent /\ Len(<<s>>) = 1 /\ Head(<<s>>) = s
         /\ s \notin MasterKeys
<1>1. <<s>> \in Value
  BY DEF Value, Setting
<1> QED BY <1>1, NoKeyAssumption, PlainAssumption DEF Setting

LEMMA Reads ==
  ASSUME NEW key \in MasterKeys \union {NoKey}, NEW s \in Setting
  PROVE  /\ ResultValue(key, <<s>>) = <<s>>
         /\ key # NoKey => ResultValue(key, Encrypt(key, <<s>>)) = <<s>>
<1>1. ResultValue(key, <<s>>) = <<s>>
  BY PlainValue DEF ResultValue
<1>2. key # NoKey => ResultValue(key, Encrypt(key, <<s>>)) = <<s>>
  BY PlainValue, EncryptedValue DEF ResultValue
<1> QED BY <1>1, <1>2

LEMMA FittingReads ==
  ASSUME NEW key \in MasterKeys \union {NoKey}, NEW value, Fits(key, value)
  PROVE  Len(ResultValue(key, value)) = 1
<1>1. PICK s \in Setting : value = <<s>> \/ (key # NoKey /\ value = Encrypt(key, <<s>>))
  BY DEF Fits
<1>2. ResultValue(key, value) = <<s>>
  BY <1>1, Reads
<1> QED BY <1>2, PlainValue

LEMMA StoredReads == KeyInv => KeyReadsBack
<1> SUFFICES ASSUME KeyInv, NEW r \in Rows, stored[r] # Absent, r \notin unreadable
             PROVE  /\ Len(ResultValue(serviceKey, stored[r])) = 1
                    /\ r \notin stale => ResultValue(serviceKey, stored[r]) = written[r]
  BY DEF KeyReadsBack
<1>1. Fits(serviceKey, stored[r]) /\ serviceKey \in MasterKeys \union {NoKey}
  BY DEF KeyInv, StoredInv, KeyTypeOK
<1>2. r \notin stale => ResultValue(serviceKey, stored[r]) = written[r]
  BY DEF KeyInv, FreshInv
<1> QED BY <1>1, <1>2, FittingReads

LEMMA KeyInvInit == KeyInit => KeyInv
<1> SUFFICES ASSUME KeyInit PROVE KeyInv
  OBVIOUS
<1>1. \A s \in Secrets : <<s>> \in Value
  BY PlainValue DEF Setting
<1>2. KeyTypeOK
  BY <1>1, PlainAssumption DEF KeyInit, KeyTypeOK
<1>3. WrittenInv /\ StoredInv /\ PlainInv /\ ReadInv
  BY DEF KeyInit, WrittenInv, StoredInv, PlainInv, ReadInv, Setting, Fits, IsPlain
<1>5. FreshInv
  BY DEF KeyInit, FreshInv, ResultValue
<1>4. DOMAIN upsert = Upserts /\ DOMAIN script = Runs
  BY DEF KeyInit
<1> QED BY <1>2, <1>3, <1>4, <1>5 DEF KeyInv

LEMMA BoundValue ==
  ASSUME NEW key \in MasterKeys \union {NoKey}, NEW s \in Setting
  PROVE  /\ Bind(key, s) \in Value
         /\ \/ Bind(key, s) = <<s>>
            \/ key # NoKey /\ Bind(key, s) = Encrypt(key, <<s>>)
<1>1. s = NoSecret \/ key = NoKey => Bind(key, s) = <<s>>
  BY DEF Bind
<1>2. s # NoSecret /\ key # NoKey => key \in MasterKeys /\ Bind(key, s) = Encrypt(key, <<s>>)
  BY DEF Bind
<1> QED BY <1>1, <1>2, PlainValue, EncryptedValue

LEMMA RedeployPreserves ==
  ASSUME KeyInv, NEW key \in MasterKeys \union {NoKey}, Redeploy(key)
  PROVE  KeyInv'
<1> USE DEF KeyInv
<1>1. /\ serviceKey' = key /\ deploys < MaxDeploys /\ deploys' = deploys + 1
      /\ upsert' = [u \in Upserts |-> Done]
      /\ unreadable' = unreadable \union {r \in Rows : stored[r] # Absent /\ Len(stored[r]) > 1}
      /\ UNCHANGED <<stored, script, written, stale>>
  BY DEF Redeploy
<1>2. KeyTypeOK'
  BY <1>1, PlainAssumption DEF KeyTypeOK
<1>3. WrittenInv' /\ PlainInv' /\ ReadInv' /\ (DOMAIN upsert = Upserts /\ DOMAIN script = Runs)'
  BY <1>1 DEF WrittenInv, PlainInv, ReadInv
<1>4. StoredInv' /\ FreshInv'
  <2> SUFFICES ASSUME NEW r \in Rows, r \notin unreadable', stored[r] # Absent
               PROVE  /\ Fits(key, stored[r])
                      /\ r \notin stale => ResultValue(key, stored[r]) = written[r]
    BY <1>1 DEF StoredInv, FreshInv
  <2>1. r \notin unreadable /\ ~(Len(stored[r]) > 1)
    BY <1>1
  <2>2. Fits(serviceKey, stored[r])
    BY <2>1 DEF StoredInv
  <2>3. PICK s \in Setting :
          stored[r] = <<s>> \/ (serviceKey # NoKey /\ stored[r] = Encrypt(serviceKey, <<s>>))
    BY <2>2 DEF Fits
  <2>4. serviceKey \in MasterKeys \union {NoKey} /\ <<s>> \in Value
    BY PlainValue DEF KeyTypeOK
  <2>5. stored[r] = <<s>>
    BY <2>1, <2>3, <2>4, EncryptedValue
  <2>6. ResultValue(serviceKey, stored[r]) = <<s>> /\ ResultValue(key, stored[r]) = <<s>>
    BY <2>4, <2>5, Reads
  <2>7. r \notin stale => ResultValue(serviceKey, stored[r]) = written[r]
    BY <2>1 DEF FreshInv
  <2> QED BY <2>5, <2>6, <2>7 DEF Fits
<1> QED BY <1>2, <1>3, <1>4

LEMMA BeginPreserves ==
  ASSUME KeyInv, NEW u \in Upserts, NEW r \in Rows, NEW secret \in Setting,
         BeginUpsert(u, r, secret)
  PROVE  KeyInv'
<1> USE DEF KeyInv
<1> DEFINE b == [row |-> r, loaded |-> stored[r], secret |-> secret]
<1>1. b \in [row : Rows, loaded : Value \union {Absent}, secret : Secrets \union {NoSecret}]
  BY DEF KeyTypeOK, Setting
<1>2. /\ upsert' = [upsert EXCEPT ![u] = b]
      /\ UNCHANGED <<serviceKey, deploys, stored, script, written, unreadable, stale>>
  BY DEF BeginUpsert
<1> HIDE DEF b
<1>3. upsert'[u] = b /\ \A v \in Upserts \ {u} : upsert'[v] = upsert[v]
  BY <1>2
<1>4. KeyTypeOK'
  BY <1>1, <1>2, <1>3 DEF KeyTypeOK
<1>5. /\ WrittenInv' /\ StoredInv' /\ PlainInv' /\ ReadInv'
      /\ FreshInv' /\ (DOMAIN upsert = Upserts /\ DOMAIN script = Runs)'
  BY <1>2 DEF WrittenInv, StoredInv, FreshInv, PlainInv, ReadInv
<1> QED BY <1>4, <1>5

LEMMA CommitUpsertPreserves ==
  ASSUME KeyInv, NEW u \in Upserts, CommitUpsert(u)
  PROVE  KeyInv'
<1> USE DEF KeyInv
<1> DEFINE r == upsert[u].row
           loaded == upsert[u].loaded
           s == upsert[u].secret
           new == Bind(serviceKey, s)
           same == loaded # Absent /\ ResultValue(serviceKey, loaded) = <<s>>
<1>1. r \in Rows /\ loaded \in Value \union {Absent} /\ s \in Setting
  BY DEF CommitUpsert, KeyTypeOK, Setting
<1>2. serviceKey \in MasterKeys \union {NoKey}
  BY DEF KeyTypeOK
<1>3. /\ new \in Value /\ <<s>> \in Value /\ Fits(serviceKey, new) /\ IsPlain(new)
      /\ ResultValue(serviceKey, new) = <<s>>
  <2>1. /\ new \in Value /\ <<s>> \in Value
        /\ new = <<s>> \/ (serviceKey # NoKey /\ new = Encrypt(serviceKey, <<s>>))
    BY <1>1, <1>2, BoundValue, PlainValue
  <2>2. IsPlain(new)
    <3>1. CASE new = <<s>>
      BY <1>1, <3>1 DEF IsPlain
    <3>2. CASE serviceKey # NoKey /\ new = Encrypt(serviceKey, <<s>>)
      <4>1. Len(new) # 1
        BY <1>2, <2>1, <3>2, EncryptedValue
      <4> QED BY <4>1 DEF IsPlain
    <3> QED BY <2>1, <3>1, <3>2
  <2>3. Fits(serviceKey, new)
    BY <1>1, <2>1 DEF Fits
  <2>4. ResultValue(serviceKey, new) = <<s>>
    BY <1>1, <1>2, <2>1, Reads
  <2> QED BY <2>1, <2>2, <2>3, <2>4
<1>4. /\ upsert' = [upsert EXCEPT ![u] = Done] /\ UNCHANGED <<serviceKey, deploys, script>>
      /\ \/ UNCHANGED <<stored, written, unreadable, stale>>
         \/ /\ ~(loaded = Absent /\ stored[r] # Absent)
            /\ stored' = [stored EXCEPT ![r] = IF same THEN @ ELSE new]
            /\ written' = [written EXCEPT ![r] = <<s>>]
            /\ unreadable' = IF same THEN unreadable ELSE unreadable \ {r}
            /\ stale' = IF same /\ ResultValue(serviceKey, stored[r]) # <<s>>
                        THEN stale \union {r} ELSE stale \ {r}
  BY DEF CommitUpsert
<1> HIDE DEF r, loaded, s, new
<1>5. /\ DOMAIN upsert' = Upserts /\ DOMAIN script' = Runs
      /\ \A v \in Upserts : upsert'[v] = Done \/ upsert'[v] = upsert[v]
  BY <1>4
<1>6. CASE UNCHANGED <<stored, written, unreadable, stale>>
  <2>1. KeyTypeOK'
    BY <1>4, <1>5, <1>6 DEF KeyTypeOK
  <2> QED BY <1>4, <1>5, <1>6, <2>1 DEF WrittenInv, StoredInv, FreshInv, PlainInv, ReadInv
<1>7. CASE ~same /\ stored' = [stored EXCEPT ![r] = new] /\ written' = [written EXCEPT ![r] = <<s>>]
           /\ unreadable' = unreadable \ {r} /\ stale' = stale \ {r}
  <2>1. /\ stored'[r] = new /\ written'[r] = <<s>>
        /\ \A q \in Rows \ {r} : stored'[q] = stored[q] /\ written'[q] = written[q]
    BY <1>1, <1>7 DEF KeyTypeOK
  <2>2. KeyTypeOK'
    <3>1. stored' \in [Rows -> Value \union {Absent}] /\ written' \in [Rows -> Value \union {Absent}]
      BY <1>1, <1>3, <1>7 DEF KeyTypeOK
    <3>2. unreadable' \subseteq Rows /\ stale' \subseteq Rows
      BY <1>7 DEF KeyTypeOK
    <3> QED BY <1>4, <1>5, <3>1, <3>2 DEF KeyTypeOK
  <2>3. WrittenInv'
    BY <1>1, <2>1 DEF WrittenInv
  <2>4. StoredInv' /\ FreshInv' /\ PlainInv'
    BY <1>1, <1>3, <1>4, <1>7, <2>1 DEF StoredInv, FreshInv, PlainInv
  <2>5. ReadInv'
    <3>1. \A q \in Rows : stored[q] # Absent => stored'[q] # Absent
      BY <1>3, <2>1, NoKeyAssumption
    <3>2. \A x \in Runs : script[x] # Done => DOMAIN script[x].read \subseteq Rows
      BY DEF KeyTypeOK
    <3> QED BY <1>4, <3>1, <3>2 DEF ReadInv
  <2> QED BY <1>5, <2>2, <2>3, <2>4, <2>5
<1>8. CASE /\ same /\ stored' = stored /\ written' = [written EXCEPT ![r] = <<s>>]
           /\ unreadable' = unreadable
           /\ stale' = IF ResultValue(serviceKey, stored[r]) # <<s>>
                       THEN stale \union {r} ELSE stale \ {r}
  <2>1. written'[r] = <<s>> /\ \A q \in Rows \ {r} : written'[q] = written[q]
    BY <1>1, <1>8 DEF KeyTypeOK
  <2>2. KeyTypeOK'
    <3>1. written' \in [Rows -> Value \union {Absent}]
      BY <1>1, <1>3, <1>8 DEF KeyTypeOK
    <3>2. unreadable' \subseteq Rows /\ stale' \subseteq Rows
      BY <1>1, <1>8 DEF KeyTypeOK
    <3> QED BY <1>4, <1>5, <1>8, <3>1, <3>2 DEF KeyTypeOK
  <2>3. WrittenInv'
    BY <1>1, <1>8, <2>1 DEF WrittenInv
  <2>4. StoredInv' /\ FreshInv'
    <3>1. StoredInv'
      BY <1>4, <1>8 DEF StoredInv
    <3>2. FreshInv'
      BY <1>1, <1>4, <1>8, <2>1 DEF FreshInv
    <3> QED BY <3>1, <3>2
  <2>5. PlainInv' /\ ReadInv'
    BY <1>4, <1>8 DEF PlainInv, ReadInv
  <2> QED BY <1>5, <2>2, <2>3, <2>4, <2>5
<1>9. stored \in [Rows -> Value \union {Absent}]
  BY DEF KeyTypeOK
<1>10. same => [stored EXCEPT ![r] = IF same THEN @ ELSE new] = stored
  BY <1>1, <1>9
<1> QED BY <1>4, <1>6, <1>7, <1>8, <1>10

LEMMA ScriptReadsPreserves ==
  ASSUME KeyInv, NEW x \in Runs, ScriptReads(x)
  PROVE  KeyInv'
<1> USE DEF KeyInv
<1> DEFINE found == {q \in Rows : stored[q] \notin {Absent, <<NoSecret>>}}
           read == [r \in found |-> stored[r]]
           n == [key |-> serviceKey, read |-> read]
<1>1. /\ serviceKey # NoKey /\ script' = [script EXCEPT ![x] = n]
      /\ UNCHANGED <<serviceKey, deploys, stored, upsert, written, unreadable, stale>>
  BY DEF ScriptReads
<1>2. /\ DOMAIN read \subseteq Rows
      /\ \A r \in DOMAIN read : read[r] \in Value /\ stored[r] # Absent /\ IsPlain(read[r])
  BY DEF KeyTypeOK, PlainInv
<1>3. n.key = serviceKey /\ n.read = read
  OBVIOUS
<1> HIDE DEF found, read, n
<1>4. script'[x] = n /\ \A y \in Runs \ {x} : script'[y] = script[y]
  BY <1>1
<1>5. KeyTypeOK'
  <2>1. \A y \in Runs : script'[y] # Done =>
          /\ script'[y].key \in MasterKeys
          /\ DOMAIN script'[y].read \subseteq Rows
          /\ \A r \in DOMAIN script'[y].read : script'[y].read[r] \in Value
    BY <1>1, <1>2, <1>3, <1>4 DEF KeyTypeOK
  <2> QED BY <1>1, <2>1 DEF KeyTypeOK
<1>6. ReadInv'
  BY <1>1, <1>2, <1>3, <1>4 DEF ReadInv
<1>7. /\ WrittenInv' /\ StoredInv' /\ FreshInv' /\ PlainInv'
      /\ (DOMAIN upsert = Upserts /\ DOMAIN script = Runs)'
  BY <1>1 DEF WrittenInv, StoredInv, FreshInv, PlainInv
<1> QED BY <1>5, <1>6, <1>7

LEMMA ScriptWritesPreserves ==
  ASSUME KeyInv, NEW x \in Runs, ScriptWrites(x)
  PROVE  KeyInv'
<1> USE DEF KeyInv
<1> DEFINE key == script[x].key
           read == script[x].read
           plain == ToEncrypt(key, read)
<1>1. /\ stored' = [r \in Rows |-> IF r \in plain THEN Encrypt(key, read[r]) ELSE stored[r]]
      /\ unreadable' = unreadable \union {r \in plain : \/ key # serviceKey
                                                      \/ Len(ResultValue(key, read[r])) > 1}
      /\ stale' = stale \union {r \in plain : ResultValue(key, stored[r]) # ResultValue(key, read[r])}
      /\ script' = [script EXCEPT ![x] = Done]
      /\ UNCHANGED <<serviceKey, deploys, upsert, written>>
  BY DEF ScriptWrites
<1>2. /\ key \in MasterKeys
      /\ \A r \in plain : /\ r \in Rows /\ read[r] \in Value /\ Head(read[r]) # key
                         /\ stored[r] # Absent /\ IsPlain(read[r])
  BY DEF ScriptWrites, KeyTypeOK, ReadInv, ToEncrypt
<1> HIDE DEF key, read, plain
<1>3. \A r \in plain : /\ Encrypt(key, read[r]) \in Value /\ Encrypt(key, read[r]) # Absent
                      /\ Len(Encrypt(key, read[r])) # 1
  BY <1>2, EncryptedValue, NoKeyAssumption
<1>4. /\ DOMAIN script' = Runs
      /\ \A y \in Runs : script'[y] = Done \/ script'[y] = script[y]
  BY <1>1
<1>5. KeyTypeOK'
  <2>1. stored' \in [Rows -> Value \union {Absent}]
    BY <1>1, <1>3 DEF KeyTypeOK
  <2>2. unreadable' \subseteq Rows /\ stale' \subseteq Rows
    BY <1>1, <1>2 DEF KeyTypeOK
  <2>3. \A y \in Runs : script'[y] # Done =>
          /\ script'[y].key \in MasterKeys
          /\ DOMAIN script'[y].read \subseteq Rows
          /\ \A r \in DOMAIN script'[y].read : script'[y].read[r] \in Value
    BY <1>4 DEF KeyTypeOK
  <2> QED BY <1>1, <2>1, <2>2, <2>3 DEF KeyTypeOK
<1>6. \A r \in Rows : stored'[r] # Absent <=> stored[r] # Absent
  BY <1>1, <1>2, <1>3
<1>7. WrittenInv' /\ PlainInv'
  BY <1>1, <1>3, <1>6 DEF WrittenInv, PlainInv, IsPlain
<1>8. ReadInv'
  <2>1. \A y \in Runs : script[y] # Done => DOMAIN script[y].read \subseteq Rows
    BY DEF KeyTypeOK
  <2> QED BY <1>4, <1>6, <2>1 DEF ReadInv
<1>9. StoredInv' /\ FreshInv'
  <2> SUFFICES ASSUME NEW r \in Rows, r \notin unreadable', stored'[r] # Absent
               PROVE  /\ Fits(serviceKey, stored'[r])
                      /\ r \notin stale' => ResultValue(serviceKey, stored'[r]) = written[r]
    BY <1>1 DEF StoredInv, FreshInv
  <2>1. r \notin unreadable /\ stored[r] # Absent
    BY <1>1, <1>6
  <2>2. /\ Fits(serviceKey, stored[r])
        /\ r \notin stale => ResultValue(serviceKey, stored[r]) = written[r]
    BY <2>1 DEF StoredInv, FreshInv
  <2>3. CASE r \notin plain
    BY <1>1, <2>2, <2>3
  <2>4. CASE r \in plain
    <3>1. key = serviceKey /\ serviceKey # NoKey /\ ~(Len(ResultValue(key, read[r])) > 1)
      BY <1>1, <1>2, <2>4, NoKeyAssumption
    <3>2. ResultValue(key, read[r]) = read[r]
      BY <1>2, <2>4 DEF ResultValue
    <3>3. PICK s \in Setting : read[r] = <<s>>
      <4>1. read[r] \in Seq(Piece) /\ read[r] # <<>>
        BY <1>2, <2>4 DEF Value, Piece
      <4> DEFINE n == Len(read[r])
      <4>2. n \in Nat \ {0}
        BY <4>1, EmptySeq
      <4>3. ~(n > 1)
        BY <3>1, <3>2
      <4> HIDE DEF n
      <4>4. n = 1
        BY <4>2, <4>3
      <4> QED BY <1>2, <2>4, <4>4 DEF IsPlain, n
    <3>4. stored'[r] = Encrypt(serviceKey, <<s>>)
      BY <1>1, <2>4, <3>1, <3>3
    <3>5. Fits(serviceKey, stored'[r]) /\ ResultValue(serviceKey, stored'[r]) = <<s>>
      BY <1>2, <3>1, <3>4, Reads DEF Fits
    <3>6. r \notin stale' => written[r] = <<s>>
      BY <1>1, <2>2, <2>4, <3>1, <3>2, <3>3
    <3> QED BY <3>5, <3>6
  <2> QED BY <2>3, <2>4
<1> QED BY <1>1, <1>4, <1>5, <1>7, <1>8, <1>9

LEMMA KeyInvNext == KeyInv /\ [KeyNext]_keyVars => KeyInv'
<1> SUFFICES ASSUME KeyInv, [KeyNext]_keyVars PROVE KeyInv'
  OBVIOUS
<1>1. CASE UNCHANGED keyVars
  <2>1. UNCHANGED <<serviceKey, deploys, stored, upsert, script, written, unreadable, stale>>
    BY <1>1 DEF keyVars
  <2>2. KeyTypeOK' /\ (DOMAIN upsert = Upserts /\ DOMAIN script = Runs)'
    BY <2>1 DEF KeyInv, KeyTypeOK
  <2>3. WrittenInv' /\ StoredInv' /\ FreshInv' /\ PlainInv' /\ ReadInv'
    BY <2>1 DEF KeyInv, WrittenInv, StoredInv, FreshInv, PlainInv, ReadInv
  <2> QED BY <2>2, <2>3 DEF KeyInv
<1>2. CASE KeyNext
  BY <1>2, RedeployPreserves, BeginPreserves, CommitUpsertPreserves, ScriptReadsPreserves,
     ScriptWritesPreserves DEF KeyNext, Setting
<1> QED BY <1>1, <1>2

\* For any number of rows, calls, encryption keys and runs of the script: a row that is
\* within the reach of the service's encryption key yields a secret, and the one that was
\* last set unless an older secret was left in its place.
THEOREM KeysReadBack == KeySpec => []KeyReadsBack
<1> QED BY KeyInvInit, KeyInvNext, StoredReads, PTL DEF KeySpec
-----------------------------------------------------------------------------
\* A behaviour of the whole is one of each part.
LEMMA AllAreComponents == AllSpec => GatewaySpec /\ LimiterSpec /\ KeySpec
<1>1. AllInit => GatewayInit /\ LimiterInit /\ KeyInit
  BY DEF AllInit
<1>2. [AllNext]_<<part, gatewayVars, limiterVars, keyVars>> =>
        [GatewayNext]_gatewayVars /\ [LimiterNext]_limiterVars /\ [KeyNext]_keyVars
  BY DEF AllNext
<1> QED BY <1>1, <1>2, PTL DEF AllSpec, GatewaySpec, LimiterSpec, KeySpec

LEMMA LimiterTypeCorrect == LimiterSpec => []LimiterTypeOK
<1>1. WindowInv => LimiterTypeOK
  BY DEF WindowInv
<1> QED BY <1>1, WindowInvInit, WindowInvNext, PTL DEF LimiterSpec

LEMMA KeyTypeCorrect == KeySpec => []KeyTypeOK
<1>1. KeyInv => KeyTypeOK
  BY DEF KeyInv
<1> QED BY <1>1, KeyInvInit, KeyInvNext, PTL DEF KeySpec

\* The rows, the requests and the cache of the gateway, the windows of its limiter and the
\* keys of its providers have their types, in the behaviours TLC runs too.
THEOREM AllTypeCorrect == AllSpec => []AllTypeOK
<1>1. GatewayTypeOK /\ LimiterTypeOK /\ KeyTypeOK => AllTypeOK
  BY DEF AllTypeOK
<1> QED
  BY <1>1, AllAreComponents, GatewayTypeCorrect, LimiterTypeCorrect, KeyTypeCorrect, PTL
=============================================================================
