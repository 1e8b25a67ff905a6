---------------------------- MODULE RoutingPlan -----------------------------
(***************************************************************************)
(* Which provider a call goes to: the policy engine's selection over one   *)
(* snapshot of the provider registry, and the planner's choice of a        *)
(* fallback and of an escalation target among what was eligible.           *)
(*                                                                         *)
(* Pure definitions. A descriptor keeps what a comparison reads: traits    *)
(* (capabilities, routing classes, tool use, locality) as a set, and every *)
(* ordered scale (reliability, context, latency, cost) as a level. A sort  *)
(* followed by find() is the least element of the order it sorts by.       *)
(***************************************************************************)
EXTENDS Integers, FiniteSets, Sequences

CONSTANTS
    Providers,     \* ids, numbered in the order localeCompare gives them
    Traits,
    Dimensions,    \* the ordered scales
    None

ASSUME ProvidersAssumption ==
    /\ Providers \subseteq Nat
    /\ None \notin Providers
    /\ {"semantic", "authority", "class"} \subseteq Dimensions
    /\ {"chat", "BALANCED", "SEMANTIC_HIGH"} \subseteq Traits

Tiers == 0..3      \* UNPROVEN, LOW, STANDARD, HIGH

Descriptors == [enabled : BOOLEAN, traits : SUBSET Traits, level : [Dimensions -> Tiers]]

(* A validation profile: its rules, and the scale on which an escalation   *)
(* target has to be stronger, and at least how strong.                     *)
Common == {"EMPTY_OUTPUT", "OUTPUT_LIMIT_VIOLATION", "PROMPT_LEAK", "MULTI_ENTRY_ECHO", "SECRET_EXPOSURE_RISK"}

Profile ==
    [GENERAL_CHAT |->
        [rules |-> Common \cup {"RECENCY_GROUNDING_VIOLATION"}, axis |-> "semantic", minimum |-> 3],
     AUTHORITY_SENSITIVE |->
        [rules |-> Common \cup {"AUTHORITY_SCOPE_VIOLATION"}, axis |-> "authority", minimum |-> 2]]

-----------------------------------------------------------------------------
(* Configuration, as the constructors accept it.                           *)

(* A policy: the contexts it is for (a set of values for each field it     *)
(* constrains), who is eligible, and how they are ranked.                  *)
ValidEligibility(e) ==
    /\ e.all \cup e.some \cup e.never \subseteq Traits
    /\ e.some # {} => ~ e.some \subseteq e.never
    /\ e.minimum \in [Dimensions -> Tiers]

ValidRanking(ranking) ==
    /\ ranking \in Seq([by : Dimensions, best : {"low", "high"}]) \ {<<>>}
    /\ \A i, j \in DOMAIN ranking : ranking[i].by = ranking[j].by => i = j

ValidPolicies(policies) ==
    /\ policies # {} /\ IsFiniteSet(policies)
    /\ \A p \in policies :
          /\ p.id \in Nat
          /\ p.precedence \in Nat /\ p.precedence <= 10000
          /\ \A f \in DOMAIN p.when : p.when[f] # {}
          /\ ValidEligibility(p.eligibility)
          /\ ValidRanking(p.ranking)
    /\ \A p, q \in policies : p.id = q.id => p = q

(* Executable bindings are for enabled, registered providers.              *)
ValidBindings(registry, bound) ==
    /\ bound # {} /\ bound \subseteq DOMAIN registry
    /\ \A p \in bound : registry[p].enabled

(* The production configuration: a balanced provider, ranked first, and a  *)
(* semantically stronger one; chat may use both, a continuation only the   *)
(* balanced one.                                                           *)
Descriptor(traits, semantic, authority, class) ==
    [enabled |-> TRUE, traits |-> traits,
     level |-> [d \in Dimensions |-> CASE d = "semantic" -> semantic [] d = "authority" -> authority
                                       [] d = "class" -> class [] OTHER -> 0]]

ProductionRegistry ==
    [p \in {1, 2} |-> IF p = 1 THEN Descriptor({"chat", "BALANCED"}, 2, 2, 0)
                              ELSE Descriptor({"chat", "SEMANTIC_HIGH"}, 3, 2, 1)]

NoMinimum == [d \in Dimensions |-> 0]

ChatPolicy ==
    [id |-> 1, precedence |-> 100,
     when |-> [requestType |-> {"CONVERSATIONAL"}, validationProfile |-> {"GENERAL_CHAT"}],
     eligibility |-> [all |-> {}, some |-> {}, never |-> {}, minimum |-> NoMinimum],
     ranking |-> <<[by |-> "class", best |-> "low"], [by |-> "semantic", best |-> "high"]>>]

ContinuationPolicy ==
    [id |-> 2, precedence |-> 90,
     when |-> [requestType |-> {"WORK"}, validationProfile |-> {"AUTHORITY_SENSITIVE"}],
     eligibility |-> [all |-> {}, some |-> {"BALANCED"}, never |-> {}, minimum |-> NoMinimum],
     ranking |-> <<[by |-> "class", best |-> "low"], [by |-> "authority", best |-> "high"]>>]

ProductionPolicies == {ChatPolicy, ContinuationPolicy}

-----------------------------------------------------------------------------
(* Selection.                                                              *)

Matches(policy, context) == \A f \in DOMAIN policy.when : context[f] \in policy.when[f]

Precedes(p, q) ==
    p.precedence > q.precedence \/ (p.precedence = q.precedence /\ p.id < q.id)

MatchedPolicy(policies, context) ==
    LET matching == {p \in policies : Matches(p, context)} IN
    IF matching = {} THEN None
    ELSE CHOOSE p \in matching : \A q \in matching \ {p} : Precedes(p, q)

Eligible(descriptor, context, rule) ==
    /\ descriptor.enabled
    /\ context.requires \cup rule.all \subseteq descriptor.traits
    /\ rule.some # {} => rule.some \cap descriptor.traits # {}
    /\ rule.never \cap descriptor.traits = {}
    /\ \A d \in Dimensions : descriptor.level[d] >= rule.minimum[d]

Better(rule, a, b) ==
    IF rule.best = "high" THEN a.level[rule.by] > b.level[rule.by] ELSE a.level[rule.by] < b.level[rule.by]

(* The first ranking rule that tells two candidates apart decides; the     *)
(* provider id does when none does.                                        *)
Ahead(registry, ranking, p, q) ==
    LET a == registry[p]
        b == registry[q]
        Tie(i) == ~ Better(ranking[i], a, b) /\ ~ Better(ranking[i], b, a)
    IN  \/ \E i \in DOMAIN ranking : Better(ranking[i], a, b) /\ \A j \in 1..(i - 1) : Tie(j)
        \/ (\A i \in DOMAIN ranking : Tie(i)) /\ p < q

First(registry, ranking, candidates) ==
    IF candidates = {} THEN None
    ELSE CHOOSE p \in candidates : \A q \in candidates \ {p} : Ahead(registry, ranking, p, q)

Candidates(registry, available, policy, context) ==
    {p \in DOMAIN registry \cap available : Eligible(registry[p], context, policy.eligibility)}

Select(registry, available, policies, context) ==
    LET policy == MatchedPolicy(policies, context)
        eligible == IF policy = None THEN {} ELSE Candidates(registry, available, policy, context)
    IN  [reason |-> IF policy = None THEN "POLICY_NOT_MATCHED"
                    ELSE IF eligible = {} THEN "NO_ELIGIBLE_PROVIDER" ELSE "SELECTED",
         policy |-> policy,
         eligible |-> eligible,
         selected |-> IF eligible = {} THEN None ELSE First(registry, policy.ranking, eligible)]

-----------------------------------------------------------------------------
(* The plan.                                                               *)

Stronger(registry, profile, p, q) ==
    /\ registry[p].level[profile.axis] > registry[q].level[profile.axis]
    /\ registry[p].level[profile.axis] >= profile.minimum

(* The escalation target is taken first: the fallback is somebody else.    *)
Plan(registry, bound, decision, profile) ==
    LET others == (decision.eligible \cap bound) \ {decision.selected}
        escalation == First(registry, decision.policy.ranking,
                            {p \in others : Stronger(registry, profile, p, decision.selected)})
    IN  [PRIMARY |-> decision.selected,
         ESCALATION |-> escalation,
         FALLBACK |-> First(registry, decision.policy.ranking, others \ {escalation})]

(* What the planner asserts of its own plan before it returns it.          *)
TargetsHold(registry, available, bound, decision, profile, plan) ==
    /\ \A purpose \in DOMAIN plan : plan[purpose] # None =>
          /\ plan[purpose] \in decision.eligible \cap available \cap bound
          /\ registry[plan[purpose]].enabled
    /\ plan.ESCALATION # None => Stronger(registry, profile, plan.ESCALATION, plan.PRIMARY)

(* What the gateway requires of the shape of a plan.                       *)
ShapeHolds(plan) ==
    /\ plan.PRIMARY # None
    /\ \A a, b \in DOMAIN plan : plan[a] = plan[b] /\ plan[a] # None => a = b
=============================================================================
