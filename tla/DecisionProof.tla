--------------------------- MODULE DecisionProof ---------------------------
(***************************************************************************)
(* What an invocation of the decision engine prints or fails to print, for *)
(* any lists of providers and actions, and whatever Jev answers.           *)
(***************************************************************************)
EXTENDS DecisionEngine, WellFoundedInduction, TLAPS

(***************************************************************************)
(* Requests.                                                               *)
(***************************************************************************)
Formed(q) ==
  /\ q.kind \in {"task", "retry", "action"} /\ q.work \in WorkTypes \union {None}
  /\ q.offer \in Seq(Providers) /\ q.enabled \in Seq(Providers) /\ q.allowed \in Seq(STRING)
  /\ q.previous \in Providers \union {None}

LEMMA RequestsFormed ==
  \A q \in Requests : Formed(q)
<1>1. <<>> \in Seq(Providers) /\ <<>> \in Seq(STRING)
  OBVIOUS
<1>2. /\ Lists \subseteq Seq(Providers) /\ {Order, <<>>} \subseteq Seq(Providers)
      /\ Allowed \subseteq Seq(STRING)
  BY <1>1, DecisionConstants DEF Lists
<1> QED
  BY <1>1, <1>2 DEF Requests, Formed

(***************************************************************************)
(* The rules.                                                              *)
(***************************************************************************)
LEMMA Least ==
  ASSUME NEW S, S \subseteq Nat, S # {}
  PROVE  Min(S) \in S
<1>1. PICK x \in S : \A y \in S : ~(<<y, x>> \in OpToRel(<, Nat))
  BY NatLessThanWellFounded, WFMin
<1>2. ASSUME NEW y \in S PROVE x <= y
  <2>1. x \in Nat /\ y \in Nat /\ ~(<<y, x>> \in OpToRel(<, Nat))
    BY <1>1
  <2>2. y < x => <<y, x>> \in OpToRel(<, Nat)
    BY <2>1 DEF OpToRel
  <2>3. ~(y < x)
    BY <2>1, <2>2
  <2>4. x \in Nat /\ y \in Nat
    OBVIOUS
  <2> QED BY <2>3, <2>4
<1> QED
  BY <1>1, <1>2 DEF Min

\* The fallback is an available provider, and not the one to be replaced if
\* there is another.
LEMMA FallbackAvailable ==
  ASSUME NEW q, Formed(q), NEW exclude
  PROVE  /\ FallbackProvider(q, exclude) \in ToSet(Available(q)) \union {None}
         /\ ToSet(Available(q)) \ {exclude} # {} => FallbackProvider(q, exclude) # exclude
<1> DEFINE a == Available(q)
           other == SelectInSeq(a, LAMBDA p : p # exclude)
           I == {i \in 1..Len(a) : a[i] # exclude}
<1>1. a \in Seq(Providers) /\ Len(a) \in Nat /\ DOMAIN a = 1..Len(a) /\ (a # <<>> => 1 \in 1..Len(a))
  BY DEF Formed, Available
<1>2. other = IF I # {} THEN Min(I) ELSE 0
  BY DEF SelectInSeq
<1>3. I # {} => Min(I) \in I
  <2>1. I \subseteq Nat
    BY <1>1
  <2> HIDE DEF I
  <2> QED BY <2>1, Least
<1>4. other # 0 => other \in 1..Len(a) /\ a[other] # exclude
  BY <1>2, <1>3
<1>5. ToSet(a) \ {exclude} # {} => other # 0
  <2>1. ToSet(a) \ {exclude} # {} => I # {}
    BY <1>1 DEF ToSet
  <2>2. \A i \in I : i # 0
    BY <1>1
  <2> QED BY <1>2, <1>3, <2>1, <2>2
<1> HIDE DEF I, other
<1>6. FallbackProvider(q, exclude) = IF other # 0 THEN a[other] ELSE IF a # <<>> THEN Head(a) ELSE None
  BY DEF FallbackProvider, other
<1> HIDE DEF a
<1>7. a # <<>> => Head(a) = a[1] /\ Head(a) \in ToSet(a)
  BY <1>1 DEF ToSet
<1>8. other # 0 => a[other] \in ToSet(a)
  BY <1>1, <1>4 DEF ToSet
<1> QED
  BY <1>4, <1>5, <1>6, <1>7, <1>8 DEF a

LEMMA ActionOffered ==
  ASSUME NEW q, Formed(q), q.allowed # <<>>
  PROVE  RuleAction(q).action \in ToSet(q.allowed)
<1> DEFINE known == SelectInSeq(Preferred, LAMBDA a : Contains(q.allowed, a))
           I == {i \in 1..Len(Preferred) : Contains(q.allowed, Preferred[i])}
<1>1. q.allowed \in Seq(STRING) /\ DOMAIN q.allowed = 1..Len(q.allowed) /\ 1 \in 1..Len(q.allowed)
  BY DEF Formed
<1>2. known = IF I # {} THEN Min(I) ELSE 0
  BY DEF SelectInSeq
<1>3. I # {} => Min(I) \in I
  <2>1. I \subseteq Nat
    BY DEF Preferred
  <2> HIDE DEF I
  <2> QED BY <2>1, Least
<1>4. known # 0 => Contains(q.allowed, Preferred[known])
  BY <1>2, <1>3
<1> HIDE DEF known, I
<1>5. RuleAction(q).action = IF known # 0 THEN Preferred[known] ELSE Head(q.allowed)
  BY DEF RuleAction, known
<1>6. \A a : Contains(q.allowed, a) => a \in ToSet(q.allowed)
  BY <1>1 DEF Contains, ToSet
<1>7. Head(q.allowed) \in ToSet(q.allowed)
  BY <1>1 DEF ToSet
<1> QED
  BY <1>4, <1>5, <1>6, <1>7

LEMMA RulesUsable ==
  ASSUME NEW q, Formed(q), Decidable(q), NEW f \in Fields(q.kind)
  PROVE  \/ Rules(q)[f] \in Offered(q, f) \union {None}
         \/ f = "provider" /\ q.kind = "retry" /\ Rules(q)[f] = q.previous
<1>1. CASE q.kind = "task"
  <2>1. Rules(q) = RuleTask(q) /\ f \in {"work_type", "provider", "model_profile", "review_mode"}
    BY <1>1 DEF Rules, Fields
  <2>2. CASE f = "provider"
    BY <2>1, <2>2, FallbackAvailable DEF RuleTask, Offered
  <2>3. CASE f = "work_type"
    BY <2>1, <2>3 DEF RuleTask, Offered, Formed
  <2>4. CASE f = "model_profile"
    BY <2>1, <2>4 DEF RuleTask, Offered, ModelProfile
  <2>5. CASE f = "review_mode"
    BY <2>1, <2>5 DEF RuleTask, Offered, ReviewMode
  <2> QED BY <2>1, <2>2, <2>3, <2>4, <2>5
<1>2. CASE q.kind = "retry"
  <2>1. Rules(q) = RuleRetry(q) /\ f \in {"strategy", "provider"}
    BY <1>2 DEF Rules, Fields
  <2>2. CASE f = "provider"
    <3>1. Rules(q)[f] = IF Strategy(q) = "switch_provider" THEN FallbackProvider(q, q.previous)
                        ELSE IF q.previous # None THEN q.previous ELSE FallbackProvider(q, None)
      BY <2>1, <2>2 DEF RuleRetry
    <3> QED BY <1>2, <2>2, <3>1, FallbackAvailable DEF Offered
  <2>3. CASE f = "strategy"
    <3>1. Rules(q)[f] = Strategy(q)
      BY <2>1, <2>3 DEF RuleRetry
    <3> QED BY <2>3, <3>1 DEF Offered, Strategy, Strategies
  <2> QED BY <2>1, <2>2, <2>3
<1>3. CASE q.kind = "action"
  <2>1. Rules(q) = RuleAction(q) /\ f = "action"
    BY <1>3 DEF Rules, Fields
  <2> QED BY <1>3, <2>1, ActionOffered DEF Offered, Decidable
<1> QED
  BY <1>1, <1>2, <1>3 DEF Formed

(***************************************************************************)
(* The invariant: what is printed is the rules' answer, or a response that *)
(* answers the questions that were asked, each judged on its own.          *)
(***************************************************************************)
Answer(q, r) == [f \in Fields(q.kind) |-> Gated(r[f], Rules(q)[f])]

Asked ==
  /\ request.backend = "jev" /\ response \in Responses(request)
Printed ==
  /\ Decidable(request)
  /\ out = Wrapped(request) \/ (Asked /\ out = Answer(request, response))

IInv ==
  /\ request \in Requests
  /\ pc \in {"asked", "printed"} => Decidable(request)
  /\ pc = "asked" => Asked
  /\ pc = "printed" => Printed
  /\ Answered

LEMMA Invariance ==
  /\ Init => IInv
  /\ IInv /\ [Next]_vars => IInv'
<1>1. ASSUME Init PROVE IInv
  BY <1>1 DEF Init, IInv, Answered
<1>2. ASSUME IInv, [Next]_vars PROVE IInv'
  <2>1. request' = request
    BY <1>2 DEF Next, vars, Unsupported, ByRules, RulesRaise, Ask, Judge, FallBack, Prints, Fails
  <2>2. CASE Unsupported
    BY <1>2, <2>1, <2>2 DEF Unsupported, Fails, IInv, Answered
  <2>3. CASE ByRules
    <3>1. pc' = "printed" /\ out' = Wrapped(request) /\ Decidable(request)
      BY <2>3 DEF ByRules, Prints, Raises
    <3> QED BY <1>2, <2>1, <3>1 DEF IInv, Answered, Printed
  <2>4. CASE RulesRaise
    BY <1>2, <2>1, <2>4 DEF RulesRaise, Raises, Fails, IInv, Answered
  <2>5. CASE Ask
    <3>1. pc' = "asked" /\ response' \in Responses(request) /\ request.backend = "jev" /\ Decidable(request)
      BY <2>5 DEF Ask, Raises
    <3> QED BY <1>2, <2>1, <3>1 DEF IInv, Answered, Asked
  <2>6. CASE Judge
    <3>1. pc' = "printed" /\ out' = Answer(request, response) /\ response' = response /\ pc = "asked"
      BY <2>6 DEF Judge, Prints, Answer
    <3> QED BY <1>2, <2>1, <3>1 DEF IInv, Answered, Printed, Asked
  <2>7. CASE FallBack
    <3>1. /\ pc = "read" /\ request.backend = "jev"
          /\ \/ request.fallback = "rules" /\ Decidable(request) /\ pc' = "printed"
                /\ out' = Wrapped(request)
             \/ ~(request.fallback = "rules" /\ Decidable(request)) /\ pc' = "failed"
      BY <2>7 DEF FallBack, Prints, Fails
    <3> QED BY <1>2, <2>1, <3>1 DEF IInv, Answered, Printed
  <2>8. CASE UNCHANGED vars
    BY <1>2, <2>8 DEF vars, IInv, Answered, Printed, Asked
  <2> QED BY <1>2, <2>2, <2>3, <2>4, <2>5, <2>6, <2>7, <2>8 DEF Next
<1> QED
  BY <1>1, <1>2

\* A field of an answer.
LEMMA Field ==
  ASSUME IInv, pc = "printed", NEW f \in Fields(request.kind)
  PROVE  /\ Formed(request) /\ Decidable(request)
         /\ \/ out[f].source = "rules" /\ out[f].value = Rules(request)[f]
            \/ out[f].source = "jev" /\ Asked /\ response[f].sure
<1>1. Formed(request) /\ Printed /\ Decidable(request)
  BY RequestsFormed DEF IInv
<1>2. CASE out = Wrapped(request)
  BY <1>1, <1>2 DEF Wrapped
<1>3. CASE Asked /\ out = Answer(request, response)
  <2>1. out[f] = Gated(response[f], Rules(request)[f])
    BY <1>3 DEF Answer
  <2> QED BY <1>1, <1>3, <2>1 DEF Gated
<1> QED
  BY <1>1, <1>2, <1>3 DEF Printed

\* Only a question that was asked has a confident answer.
LEMMA SureIsRouted ==
  ASSUME NEW q, Formed(q), NEW r \in Responses(q), NEW f \in Fields(q.kind), r[f].sure
  PROVE  f \in q.routed
<1> DEFINE A(x) == IF x \in Questions(q) THEN Answers(q, x) ELSE {Unasked}
<1>1. f \in Questions(q) \/ ~Unasked.sure
  BY DEF Unasked
<1>2. r[f] \in A(f)
  <2>1. CASE q.kind = "task"
    <3>1. r \in [work_type : A("work_type"), provider : A("provider"),
                 model_profile : A("model_profile"), review_mode : A("review_mode")]
      BY <2>1 DEF Responses
    <3>2. f \in {"work_type", "provider", "model_profile", "review_mode"}
      BY <2>1 DEF Fields
    <3> HIDE DEF A
    <3> QED BY <3>1, <3>2
  <2>2. CASE q.kind = "retry"
    <3>1. r \in [strategy : A("strategy"), provider : A("provider")] /\ f \in {"strategy", "provider"}
      BY <2>2 DEF Responses, Fields
    <3> HIDE DEF A
    <3> QED BY <3>1
  <2>3. CASE q.kind = "action"
    <3>1. r \in [action : A("action")] /\ f = "action"
      BY <2>3 DEF Responses, Fields
    <3> HIDE DEF A
    <3> QED BY <3>1
  <2> QED BY <2>1, <2>2, <2>3 DEF Formed
<1>3. f \in Questions(q)
  BY <1>2 DEF Unasked
<1> QED
  BY <1>3 DEF Questions

(***************************************************************************)
(* The results.                                                            *)
(***************************************************************************)
\* decide prints the rules' answer or a judged response of Jev, and fails only
\* when there is no answer.
THEOREM DecisionInvariant == Spec => []IInv
<1> QED
  BY Invariance, PTL DEF Spec

\* main, decide and rules_fallback answer every request that has an answer,
\* whatever Jev does, as long as the rules may stand in for it.
THEOREM AlwaysAnswered == Spec => []Answered
<1>1. IInv => Answered
  BY DEF IInv
<1> QED
  BY <1>1, DecisionInvariant, PTL

\* gated: Jev decides only what it was asked and is sure of; anything else is a
\* value the caller offered, or the provider the last attempt had.
THEOREM WellGoverned == Spec => []Governed
<1>1. ASSUME IInv PROVE Governed
  <2> SUFFICES ASSUME pc = "printed", NEW f \in Fields(request.kind)
               PROVE  IF out[f].source = "jev"
                      THEN f \in request.routed /\ response[f].sure
                      ELSE \/ out[f].value \in Offered(request, f) \union {None}
                           \/ f = "provider" /\ request.kind = "retry"
                              /\ out[f].value = request.previous
    BY DEF Governed
  <2>1. Formed(request) /\ Decidable(request)
    BY <1>1, Field
  <2>2. CASE out[f].source = "rules" /\ out[f].value = Rules(request)[f]
    BY <2>1, <2>2, RulesUsable
  <2>3. CASE out[f].source = "jev" /\ Asked /\ response[f].sure
    BY <2>1, <2>3, SureIsRouted DEF Asked
  <2> QED BY <1>1, <2>2, <2>3, Field
<1> QED
  BY <1>1, DecisionInvariant, PTL

\* rule_task: risky work goes to the strong model and to more than one standard
\* reviewer, unless Jev says otherwise.
THEOREM RiskIsRespected == Spec => []Cautious
<1>1. ASSUME IInv PROVE Cautious
  <2> SUFFICES ASSUME pc = "printed", request.kind = "task", request.risk \in {"HIGH", "CRITICAL"}
               PROVE  /\ out.model_profile.source = "jev" \/ out.model_profile.value = "strong"
                      /\ out.review_mode.source = "jev"
                         \/ out.review_mode.value \in {"security", "dual"}
    BY DEF Cautious
  <2>1. {"model_profile", "review_mode"} \subseteq Fields(request.kind)
    BY DEF Fields
  <2>2. /\ Rules(request)["model_profile"] = ModelProfile(request)
        /\ Rules(request)["review_mode"] = ReviewMode(request)
    BY DEF Rules, RuleTask
  <2>3. ModelProfile(request) = "strong" /\ ReviewMode(request) \in {"security", "dual"}
    BY DEF ModelProfile, ReviewMode
  <2>4. out["model_profile"].source = "jev" \/ out["model_profile"].value = "strong"
    BY <1>1, <2>1, <2>2, <2>3, Field
  <2>5. out["review_mode"].source = "jev" \/ out["review_mode"].value \in {"security", "dual"}
    BY <1>1, <2>1, <2>2, <2>3, Field
  <2> QED BY <2>4, <2>5
<1> QED
  BY <1>1, DecisionInvariant, PTL

\* rule_retry: to switch the provider is to name another one, if there is one.
THEOREM RulesSwitch == Spec => []SwitchedByRules
<1>1. ASSUME IInv PROVE SwitchedByRules
  <2> SUFFICES ASSUME pc = "printed" => \A f \in DOMAIN out : out[f].source = "rules",
                      pc = "printed", request.kind = "retry", out.strategy.value = "switch_provider",
                      ToSet(Available(request)) \ {request.previous} # {}
               PROVE  out.provider.value # request.previous
    BY DEF SwitchedByRules, Switched
  <2>1. DOMAIN out = Fields(request.kind) /\ Fields(request.kind) = {"strategy", "provider"}
    BY <1>1 DEF IInv, Printed, Wrapped, Answer, Fields
  <2>2. out["strategy"].source = "rules" /\ out["provider"].source = "rules"
    BY <2>1
  <2>3. /\ out["strategy"].value = Rules(request)["strategy"]
        /\ out["provider"].value = Rules(request)["provider"] /\ Formed(request)
    BY <1>1, <2>1, <2>2, Field
  <2>4. /\ Rules(request)["strategy"] = Strategy(request)
        /\ Strategy(request) = "switch_provider" =>
             Rules(request)["provider"] = FallbackProvider(request, request.previous)
    BY DEF Rules, RuleRetry
  <2> QED BY <2>3, <2>4, FallbackAvailable
<1> QED
  BY <1>1, DecisionInvariant, PTL
=============================================================================
