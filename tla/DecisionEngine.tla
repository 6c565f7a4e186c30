--------------------------- MODULE DecisionEngine ---------------------------
(***************************************************************************)
(* decide: one request of the coordinator or of bootstrap-project, judged  *)
(* by rules or by Jev, whose answers count when they are confident enough. *)
(*                                                                         *)
(* Jev is the network: it answers each question with one of the offered    *)
(* choices, with something else, not at all, or not confidently; or the    *)
(* call fails.  Work types are reduced to one of each kind the rules tell  *)
(* apart, and the kinds of failure to their five classes.                  *)
(***************************************************************************)
EXTENDS Integers, SequencesExt

CONSTANTS
  Order,    \* HARNESS_IMPLEMENTER_ORDER, the enabled providers of it
  Offers,   \* lists of available_providers that callers supply
  Allowed   \* lists of allowed_actions that callers supply

Providers == {"codex", "claude", "gemini"}
ASSUME DecisionConstants ==
  {Order} \union Offers \subseteq Seq(Providers) /\ Allowed \subseteq Seq(STRING)

VARIABLES
  request,   \* kind, state and environment of the invocation
  response,  \* Jev's answer to each question, or NoResponse
  out,       \* what is printed, per field: value and source
  pc         \* "read", "asked", "printed" or "failed"
vars == <<request, response, out, pc>>

None == "none"
Junk == "junk"  \* a choice that was not offered

WorkTypes == {"Architecture", "Documentation", "Backend", "Security"}
Strategies == {"same_provider", "switch_provider", "replan", "split_task", "human"}
Fields(kind) ==
  CASE kind = "task" -> {"work_type", "provider", "model_profile", "review_mode"}
    [] kind = "retry" -> {"strategy", "provider"}
    [] kind = "action" -> {"action"}

(***************************************************************************)
(* Requests.                                                               *)
(***************************************************************************)
Lists == Offers \union {<<>>}
Backends == {"rules", "jev", "unsupported"}
Requests ==
  [kind : {"task"}, offer : Lists, enabled : {Order, <<>>},
   risk : {"LOW", "MEDIUM", "HIGH", "CRITICAL"}, work : WorkTypes \union {None},
   attempts : {0}, failure : {"other"}, previous : {None}, allowed : {<<>>},
   backend : Backends, fallback : {"rules", "error"},
   routed : {{}, Fields("task"), {"provider", "review_mode"}}]
  \union
  [kind : {"retry"}, offer : Lists, enabled : {Order, <<>>}, risk : {"MEDIUM"}, work : {None},
   attempts : 0..1, failure : {"unavailable", "scope", "ambiguous", "plan", "other"},
   previous : Providers \union {None}, allowed : {<<>>},
   backend : Backends, fallback : {"rules", "error"}, routed : {{}, Fields("retry")}]
  \union
  [kind : {"action"}, offer : {<<>>}, enabled : {<<>>}, risk : {"MEDIUM"}, work : {None},
   attempts : {0}, failure : {"other"}, previous : {None}, allowed : Allowed,
   backend : Backends, fallback : {"rules", "error"}, routed : {{}, Fields("action")}]

(***************************************************************************)
(* The rules.                                                              *)
(***************************************************************************)
Available(q) == IF q.offer # <<>> THEN q.offer ELSE q.enabled

\* Mutant: whoever comes first, also when it is to be replaced.
FallbackFirst(q, exclude) ==
  IF Available(q) # <<>> THEN Head(Available(q)) ELSE exclude

\* The first available provider but the excluded one; that one if it is alone.
FallbackProvider(q, exclude) ==
  LET other == SelectInSeq(Available(q), LAMBDA p : p # exclude)
  IN CASE other # 0 -> Available(q)[other]
       [] other = 0 /\ Available(q) # <<>> -> Head(Available(q))
       [] OTHER -> None

\* Mutant: the documentation of a risky change is left to the fast model.
ModelProfileByWork(q) ==
  CASE q.work = "Documentation" -> "fast"
    [] q.risk \in {"HIGH", "CRITICAL"} -> "strong"
    [] OTHER -> "balanced"

\* rule_task.
ModelProfile(q) ==
  CASE q.risk \in {"HIGH", "CRITICAL"} \/ q.work \in {"Architecture", "Security"} -> "strong"
    [] q.risk = "LOW" /\ q.work = "Documentation" -> "fast"
    [] OTHER -> "balanced"
ReviewMode(q) ==
  CASE q.risk = "CRITICAL" -> "dual"
    [] q.risk = "HIGH" \/ (q.work = "Security" /\ q.risk # "CRITICAL") -> "security"
    [] OTHER -> "standard"
RuleTask(q) ==
  [work_type |-> q.work, provider |-> FallbackProvider(q, None),
   model_profile |-> ModelProfile(q), review_mode |-> ReviewMode(q)]

Strategy(q) ==
  CASE q.failure = "unavailable" -> "switch_provider"
    [] q.failure = "scope" -> "split_task"
    [] q.failure = "ambiguous" -> "human"
    [] q.failure = "plan" -> "replan"
    [] OTHER -> IF q.attempts >= 1 THEN "switch_provider" ELSE "same_provider"
RuleRetry(q) ==
  [strategy |-> Strategy(q),
   provider |-> IF Strategy(q) = "switch_provider" THEN FallbackProvider(q, q.previous)
                ELSE IF q.previous # None THEN q.previous ELSE FallbackProvider(q, None)]

Preferred == <<"dispatch_reviewer", "retry", "replan", "split_task",
               "dispatch_implementer", "plan", "wait_provider", "wait_human">>
\* rule_action raises without allowed actions.
Decidable(q) == q.kind = "action" => q.allowed # <<>>
RuleAction(q) ==
  LET known == SelectInSeq(Preferred, LAMBDA a : Contains(q.allowed, a))
  IN [action |-> IF known # 0 THEN Preferred[known] ELSE Head(q.allowed)]

Rules(q) ==
  CASE q.kind = "task" -> RuleTask(q)
    [] q.kind = "retry" -> RuleRetry(q)
    [] q.kind = "action" -> RuleAction(q)

(***************************************************************************)
(* Jev.                                                                    *)
(***************************************************************************)
Offered(q, f) ==
  CASE f = "work_type" -> WorkTypes
    [] f = "provider" -> ToSet(Available(q))
    [] f = "model_profile" -> {"fast", "balanced", "strong"}
    [] f = "review_mode" -> {"standard", "security", "dual"}
    [] f = "strategy" -> Strategies
    [] f = "action" -> ToSet(q.allowed)

\* What is asked: the task fields that are routed to Jev, and a retry's
\* provider when there is more than one.
Questions(q) ==
  CASE q.kind = "retry" /\ Len(Available(q)) < 2 -> q.routed \ {"provider"}
    [] OTHER -> q.routed

Answers(q, f) ==
  [value : Offered(q, f) \union {Junk}, sure : {TRUE}]
    \union {[value |-> None, sure |-> TRUE], [value |-> Junk, sure |-> FALSE]}
Unasked == [value |-> None, sure |-> FALSE]
NoResponse == [f \in {} |-> Unasked]
Responses(q) ==
  LET A(f) == IF f \in Questions(q) THEN Answers(q, f) ELSE {Unasked}
  IN CASE q.kind = "task" ->
            [work_type : A("work_type"), provider : A("provider"),
             model_profile : A("model_profile"), review_mode : A("review_mode")]
       [] q.kind = "retry" -> [strategy : A("strategy"), provider : A("provider")]
       [] q.kind = "action" -> [action : A("action")]

\* Mutant: the most likely choice counts, however unsure.
GatedUnsure(answer, fallback) ==
  IF answer.value # None THEN [value |-> answer.value, source |-> "jev"]
  ELSE [value |-> fallback, source |-> "rules"]

\* An answer counts when there is one and it is confident; nothing compares it
\* with the choices that were offered.  "rules" stands for rules-fallback too.
Gated(answer, fallback) ==
  IF answer.value # None /\ answer.sure
  THEN [value |-> answer.value, source |-> "jev"]
  ELSE [value |-> fallback, source |-> "rules"]
Wrapped(q) == [f \in Fields(q.kind) |-> [value |-> Rules(q)[f], source |-> "rules"]]

(***************************************************************************)
(* The invocation.                                                         *)
(***************************************************************************)
Init ==
  /\ request \in Requests /\ response = NoResponse /\ out = NoResponse /\ pc = "read"

Prints(decisions) == out' = decisions /\ pc' = "printed" /\ UNCHANGED <<request, response>>
Fails == pc' = "failed" /\ UNCHANGED <<request, response, out>>

\* rule_action and jev_action without allowed actions, jev_task without providers.
Raises ==
  \/ ~Decidable(request)
  \/ request.backend = "jev" /\ request.kind = "task" /\ Available(request) = <<>>

Unsupported == pc = "read" /\ request.backend = "unsupported" /\ Fails

\* The rules answer: the configured backend, or Jev with nothing to ask.
ByRules ==
  /\ pc = "read" /\ ~Raises
  /\ request.backend = "rules" \/ (request.backend = "jev" /\ Questions(request) = {})
  /\ Prints(Wrapped(request))
RulesRaise == pc = "read" /\ request.backend = "rules" /\ Raises /\ Fails

Ask ==
  /\ pc = "read" /\ request.backend = "jev" /\ ~Raises /\ Questions(request) # {}
  /\ response' \in Responses(request) /\ pc' = "asked"
  /\ UNCHANGED <<request, out>>
Judge ==
  /\ pc = "asked"
  /\ Prints([f \in Fields(request.kind) |-> Gated(response[f], Rules(request)[f])])

\* Mutant: what the fallback raises ends the invocation, and so does what Jev does.
FallBackNever ==
  /\ pc = "read" /\ request.backend = "jev"
  /\ Raises \/ Questions(request) # {}
  /\ Fails

\* The call or the preparation of it failed: the rules, if they are the fallback.
FallBack ==
  /\ pc = "read" /\ request.backend = "jev"
  /\ Raises \/ Questions(request) # {}
  /\ IF request.fallback = "rules" /\ Decidable(request) THEN Prints(Wrapped(request)) ELSE Fails

Next == Unsupported \/ ByRules \/ RulesRaise \/ Ask \/ Judge \/ FallBack
Spec == Init /\ [][Next]_vars

(***************************************************************************)
(* Properties.                                                             *)
(***************************************************************************)
\* Every request that has an answer gets one, whatever Jev does, as long as
\* the rules may stand in for it.
Answered ==
  pc = "failed" =>
    \/ request.backend = "unsupported"
    \/ ~Decidable(request)
    \/ request.backend = "jev" /\ request.fallback # "rules"

\* Jev decides a field only by an answer it was asked for and is sure of;
\* otherwise the value is one the caller can use, but for a retry with the
\* provider the last attempt had.
Governed ==
  pc = "printed" => \A f \in Fields(request.kind) :
    IF out[f].source = "jev"
    THEN f \in request.routed /\ response[f].sure
    ELSE \/ out[f].value \in Offered(request, f) \union {None}
         \/ f = "provider" /\ request.kind = "retry" /\ out[f].value = request.previous

\* Risky work is neither given to the fast model nor reviewed by one reviewer,
\* unless Jev says so.
Cautious ==
  pc = "printed" /\ request.kind = "task" /\ request.risk \in {"HIGH", "CRITICAL"} =>
    /\ out.model_profile.source = "jev" \/ out.model_profile.value = "strong"
    /\ out.review_mode.source = "jev" \/ out.review_mode.value \in {"security", "dual"}

\* To switch the provider is to name another one, if there is one.
Switched ==
  pc = "printed" /\ request.kind = "retry" /\ out.strategy.value = "switch_provider"
  /\ ToSet(Available(request)) \ {request.previous} # {}
    => out.provider.value # request.previous

\* It is so as long as the rules decide alone.
SwitchedByRules ==
  (pc = "printed" => \A f \in DOMAIN out : out[f].source = "rules") => Switched
=============================================================================
