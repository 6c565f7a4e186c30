-------------------------- MODULE MCDecisionEngine --------------------------
(***************************************************************************)
(* Two enabled providers, and callers that supply one, two or none.        *)
(***************************************************************************)
EXTENDS DecisionEngine

ImplementerOrder == <<"codex", "claude">>
SuppliedProviders == {<<>>, <<"claude">>, <<"gemini", "codex">>}
AllowedActions ==
  {<<>>, <<"retry">>, <<"plan", "retry", "dispatch_reviewer">>, <<"custom">>,
   <<"custom", "wait_human">>}
=============================================================================
