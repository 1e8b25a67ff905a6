-------------------------- MODULE MCProviderRouting -------------------------
(* The production configuration, and registries of three providers whose   *)
(* tiers and order differ, under policies that tie, overlap and exclude.   *)
EXTENDS ContinuationReceiver, TLC

D(enabled, semantic, authority, class) ==
    [Descriptor({"chat", "BALANCED"}, semantic, authority, class) EXCEPT !.enabled = enabled]

MCRegistries == {ProductionRegistry,
    1 :> D(TRUE, 2, 2, 0) @@ 2 :> D(TRUE, 2, 1, 0) @@ 3 :> D(TRUE, 3, 3, 1),
    1 :> D(TRUE, 1, 1, 2) @@ 2 :> D(TRUE, 3, 2, 1) @@ 3 :> D(FALSE, 3, 3, 0)}

P(id, precedence, when, minimum, never, ranking) ==
    [id |-> id, precedence |-> precedence, when |-> when, ranking |-> ranking,
     eligibility |-> [all |-> {}, some |-> {"chat"}, never |-> never, minimum |-> minimum]]

Authority(n) == [NoMinimum EXCEPT !["authority"] = n]
MCPolicies == {ProductionPolicies,
    {P(1, 5, [requestType |-> {"CONVERSATIONAL", "WORK"}], NoMinimum, {}, <<[by |-> "semantic", best |-> "low"]>>),
     P(2, 9, [validationProfile |-> {"AUTHORITY_SENSITIVE"}], Authority(3), {}, <<[by |-> "class", best |-> "low"]>>),
     P(3, 9, [requestType |-> {"WORK"}], Authority(2), {"SEMANTIC_HIGH"}, <<[by |-> "class", best |-> "low"]>>)},
    {P(1, 5, [requestType |-> {"WORK"}], Authority(2), {}, <<[by |-> "authority", best |-> "high"]>>)}}

MCBindings == {{1}, {1, 2}, {1, 2, 3}}
Wrongs == (Safety \cup Semantic \cup {"OUTPUT_LIMIT_VIOLATION"}) \ ValidatorBreaks
MCAnswers == {{}, {"EMPTY_OUTPUT"}, ValidatorBreaks} \cup {{w, v} : w, v \in Wrongs}
=============================================================================
