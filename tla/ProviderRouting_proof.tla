------------------------ MODULE ProviderRouting_proof -------------------------
(* What a routed call guarantees, for every registry, policy               *)
(* configuration, binding, set of answers and deadline budget that the     *)
(* services accept: whom it asks, what it passes on, and what the receiver *)
(* of a continuation attempt may make of its end.                          *)
EXTENDS ContinuationReceiver, FiniteSetTheorems, WellFoundedInduction, TLAPS

-----------------------------------------------------------------------------
(* Sorting. The code sorts and takes the first; the model chooses a least  *)
(* element. There is one because the set is finite and the order is total. *)

(* A finite set has a least element under a strict total order: an element *)
(* with as few others before it as any.                                    *)
LEMMA Least ==
    ASSUME NEW S, IsFiniteSet(S), S # {}, NEW R,
           \A p \in S : <<p, p>> \notin R,
           \A p, q, r \in S : <<p, q>> \in R /\ <<q, r>> \in R => <<p, r>> \in R,
           \A p, q \in S : p # q => <<p, q>> \in R \/ <<q, p>> \in R
    PROVE  \E p \in S : \A q \in S \ {p} : <<p, q>> \in R
<1> DEFINE Before(p) == {q \in S : <<q, p>> \in R}
           T == {Before(p) : p \in S}
<1>1. T \subseteq FiniteSubsetsOf(S) /\ T # {}
  <2>1. ASSUME NEW p \in S
        PROVE  Before(p) \in FiniteSubsetsOf(S)
    <3>1. Before(p) \subseteq S
      OBVIOUS
    <3>2. IsFiniteSet(Before(p))
      BY <3>1, FS_Subset
    <3> QED BY <3>1, <3>2 DEF FiniteSubsetsOf
  <2> HIDE DEF Before
  <2>2. T \subseteq FiniteSubsetsOf(S)
    BY <2>1
  <2>3. PICK p \in S : TRUE
    OBVIOUS
  <2>4. Before(p) \in T
    BY <2>3
  <2> QED BY <2>2, <2>4
<1>2. PICK x \in T : \A y \in T : <<y, x>> \notin StrictSubsetOrdering(S)
  <2> HIDE DEF T
  <2> QED BY <1>1, FS_StrictSubsetOrderingWellFounded, WFMin
<1>3. PICK p \in S : x = Before(p)
  BY <1>2
<1>4. ASSUME NEW q \in S \ {p}, <<p, q>> \notin R
      PROVE  FALSE
  <2>1. <<q, p>> \in R
    BY <1>4
  <2>2. Before(q) \subseteq Before(p) /\ q \in Before(p) /\ q \notin Before(q)
    BY <2>1
  <2>3. <<Before(q), Before(p)>> \in StrictSubsetOrdering(S)
    BY <2>2 DEF StrictSubsetOrdering
  <2> QED BY <1>2, <1>3, <2>3
<1> QED BY <1>4

(* What two candidates compare on, and who wins there.                     *)
Level(registry, ranking, i, p) == registry[p].level[ranking[i].by]
Wins(registry, ranking, i, p, q) ==
    IF ranking[i].best = "high" THEN Level(registry, ranking, i, p) > Level(registry, ranking, i, q)
                                ELSE Level(registry, ranking, i, p) < Level(registry, ranking, i, q)

(* A registry and a ranking the constructors accept, and some of the       *)
(* registered providers.                                                   *)
Sortable(registry, ranking, candidates) ==
    /\ ranking \in Seq([by : Dimensions, best : {"low", "high"}])
    /\ candidates \subseteq Providers /\ IsFiniteSet(candidates)
    /\ \A p \in candidates : registry[p] \in Descriptors

(* A rule of a ranking gives every candidate a number.                     *)
LEMMA Levels ==
    ASSUME NEW registry, NEW ranking, NEW candidates, Sortable(registry, ranking, candidates),
           NEW i \in DOMAIN ranking, NEW p \in candidates
    PROVE  Level(registry, ranking, i, p) \in Nat
<1>1. ranking[i].by \in Dimensions
  <2> DEFINE Rules == [by : Dimensions, best : {"low", "high"}]
  <2>1. ranking \in Seq(Rules)
    BY DEF Sortable
  <2>2. ranking[i] \in Rules
    <3> HIDE DEF Rules
    <3> QED BY <2>1
  <2> QED BY <2>2
<1>2. registry[p].level \in [Dimensions -> Tiers]
  BY DEF Sortable, Descriptors
<1> QED BY <1>1, <1>2 DEF Level, Tiers

(* The order of the sort, in terms of the levels.                          *)
LEMMA AheadIs ==
    ASSUME NEW registry, NEW ranking, NEW candidates, Sortable(registry, ranking, candidates),
           NEW p \in candidates, NEW q \in candidates
    PROVE  Ahead(registry, ranking, p, q) <=>
             \/ \E i \in DOMAIN ranking :
                   /\ Wins(registry, ranking, i, p, q)
                   /\ \A j \in 1..(i - 1) : Level(registry, ranking, j, p) = Level(registry, ranking, j, q)
             \/ /\ \A i \in DOMAIN ranking : Level(registry, ranking, i, p) = Level(registry, ranking, i, q)
                /\ p < q
<1> DEFINE L(i, x) == Level(registry, ranking, i, x)
           B(i, x, y) == Better(ranking[i], registry[x], registry[y])
           Tie(i) == ~ B(i, p, q) /\ ~ B(i, q, p)
<1>1. \A i \in DOMAIN ranking : L(i, p) \in Nat /\ L(i, q) \in Nat
  BY Levels
<1>2. \A i \in DOMAIN ranking : B(i, p, q) = Wins(registry, ranking, i, p, q)
                             /\ B(i, q, p) = Wins(registry, ranking, i, q, p)
  BY DEF Better, Wins, Level
<1>3. \A i \in DOMAIN ranking : Tie(i) <=> L(i, p) = L(i, q)
  <2> TAKE i \in DOMAIN ranking
  <2>1. Tie(i) <=> ~ Wins(registry, ranking, i, p, q) /\ ~ Wins(registry, ranking, i, q, p)
    BY <1>2
  <2> HIDE DEF Tie
  <2> QED BY <2>1, <1>1 DEF Wins
<1>4. \A i \in DOMAIN ranking : 1..(i - 1) \subseteq DOMAIN ranking
  BY DEF Sortable
<1>5. Ahead(registry, ranking, p, q) <=>
        \/ \E i \in DOMAIN ranking : B(i, p, q) /\ \A j \in 1..(i - 1) : Tie(j)
        \/ (\A i \in DOMAIN ranking : Tie(i)) /\ p < q
  BY Zenon DEF Ahead
<1> HIDE DEF Tie, B, L
<1>6. \A i \in DOMAIN ranking : (\A j \in 1..(i - 1) : Tie(j)) <=> (\A j \in 1..(i - 1) : L(j, p) = L(j, q))
  BY <1>3, <1>4
<1>7. Ahead(registry, ranking, p, q) <=>
        \/ \E i \in DOMAIN ranking : Wins(registry, ranking, i, p, q) /\ \A j \in 1..(i - 1) : L(j, p) = L(j, q)
        \/ (\A i \in DOMAIN ranking : L(i, p) = L(i, q)) /\ p < q
  BY <1>2, <1>3, <1>5, <1>6
<1> QED BY <1>7 DEF L

(* It is a strict total order, whatever the rules tie on.                  *)
LEMMA AheadIsTotal ==
    ASSUME NEW registry, NEW ranking, NEW candidates, Sortable(registry, ranking, candidates),
           NEW p \in candidates, NEW q \in candidates
    PROVE  /\ ~ Ahead(registry, ranking, p, p)
           /\ p # q => Ahead(registry, ranking, p, q) \/ Ahead(registry, ranking, q, p)
<1> DEFINE L(i, x) == Level(registry, ranking, i, x)
           W(i, x, y) == Wins(registry, ranking, i, x, y)
<1>1. \A i \in DOMAIN ranking : L(i, p) \in Nat /\ L(i, q) \in Nat
  BY Levels
<1>2. \A i \in DOMAIN ranking : ~ W(i, p, p) /\ (L(i, p) # L(i, q) => W(i, p, q) \/ W(i, q, p))
  BY <1>1 DEF Wins
<1>3. p \in Nat /\ q \in Nat
  BY ProvidersAssumption DEF Sortable
<1> HIDE DEF L, W
<1>4. ~ Ahead(registry, ranking, p, p)
  BY <1>2, <1>3, AheadIs DEF W
<1>5. CASE \A i \in DOMAIN ranking : L(i, p) = L(i, q)
  <2>1. p # q => p < q \/ q < p
    BY <1>3
  <2> QED BY <1>4, <1>5, <2>1, AheadIs DEF L
<1>6. CASE \E i \in DOMAIN ranking : L(i, p) # L(i, q)
  <2> DEFINE Apart == {i \in DOMAIN ranking : L(i, p) # L(i, q)}
             Less == {ij \in Nat \X Nat : ij[1] < ij[2]}
  <2>1. IsFiniteSet(Apart) /\ Apart # {} /\ Apart \subseteq Nat
    <3>1. DOMAIN ranking = 1..Len(ranking) /\ Len(ranking) \in Nat
      BY DEF Sortable
    <3>2. IsFiniteSet(DOMAIN ranking)
      BY <3>1, FS_Interval
    <3> QED BY <1>6, <3>1, <3>2, FS_Subset
  <2>2. \E i \in Apart : \A j \in Apart \ {i} : <<i, j>> \in Less
    <3>1. \A i \in Apart : <<i, i>> \notin Less
      BY <2>1
    <3>2. \A i, j, k \in Apart : <<i, j>> \in Less /\ <<j, k>> \in Less => <<i, k>> \in Less
      BY <2>1
    <3>3. \A i, j \in Apart : i # j => <<i, j>> \in Less \/ <<j, i>> \in Less
      BY <2>1
    <3> HIDE DEF Apart, Less
    <3> QED BY <2>1, <3>1, <3>2, <3>3, Least
  <2>3. PICK i \in Apart : \A j \in Apart \ {i} : i < j
    BY <2>2
  <2>4. \A j \in 1..(i - 1) : L(j, p) = L(j, q)
    <3>1. \A j \in 1..(i - 1) : j \in DOMAIN ranking /\ ~ (i < j) /\ i # j
      BY <2>1, <2>3 DEF Sortable
    <3> QED BY <2>3, <3>1
  <2>5. W(i, p, q) \/ W(i, q, p)
    BY <1>2, <2>3
  <2> QED BY <1>4, <2>3, <2>4, <2>5, AheadIs DEF L, W
<1> QED BY <1>5, <1>6

(* The order of candidates is transitive.                                  *)
LEMMA AheadIsTransitive ==
    ASSUME NEW registry, NEW ranking, NEW candidates, Sortable(registry, ranking, candidates),
           NEW p \in candidates, NEW q \in candidates, NEW r \in candidates,
           Ahead(registry, ranking, p, q), Ahead(registry, ranking, q, r)
    PROVE  Ahead(registry, ranking, p, r)
<1> DEFINE L(i, x) == Level(registry, ranking, i, x)
           W(i, x, y) == Wins(registry, ranking, i, x, y)
<1>1. \A i \in DOMAIN ranking : L(i, p) \in Nat /\ L(i, q) \in Nat /\ L(i, r) \in Nat
  BY Levels
<1>2. \A i \in DOMAIN ranking :
        /\ W(i, p, q) /\ W(i, q, r) => W(i, p, r)
        /\ W(i, p, q) /\ L(i, q) = L(i, r) => W(i, p, r)
        /\ L(i, p) = L(i, q) /\ W(i, q, r) => W(i, p, r)
  BY <1>1 DEF Wins
<1>3. p \in Nat /\ q \in Nat /\ r \in Nat
  BY ProvidersAssumption DEF Sortable
<1>4. \A i \in DOMAIN ranking : i \in Nat /\ 1..(i - 1) \subseteq DOMAIN ranking
  BY DEF Sortable
<1> HIDE DEF L, W
<1>5. ASSUME NEW i \in DOMAIN ranking, W(i, p, q), \A j \in 1..(i - 1) : L(j, p) = L(j, q)
      PROVE  Ahead(registry, ranking, p, r)
  <2>1. CASE \A j \in DOMAIN ranking : L(j, q) = L(j, r)
    <3>1. W(i, p, r) /\ \A j \in 1..(i - 1) : L(j, p) = L(j, r)
      BY <1>2, <1>4, <1>5, <2>1
    <3> QED BY <3>1, AheadIs DEF L, W
  <2>2. ASSUME NEW k \in DOMAIN ranking, W(k, q, r), \A j \in 1..(k - 1) : L(j, q) = L(j, r)
        PROVE  Ahead(registry, ranking, p, r)
    <3>1. CASE i < k
      <4>1. \A j \in 1..i : L(j, q) = L(j, r)
        BY <1>4, <2>2, <3>1
      <4>2. W(i, p, r) /\ \A j \in 1..(i - 1) : L(j, p) = L(j, r)
        <5>1. i \in 1..i /\ 1..(i - 1) \subseteq 1..i
          <6>1. i >= 1
            BY DEF Sortable
          <6> QED BY <1>4, <6>1
        <5> QED BY <1>2, <1>5, <4>1, <5>1
      <4> QED BY <4>2, AheadIs DEF L, W
    <3>2. CASE i = k
      <4>1. W(i, p, r) /\ \A j \in 1..(i - 1) : L(j, p) = L(j, r)
        BY <1>2, <1>5, <2>2, <3>2
      <4> QED BY <4>1, AheadIs DEF L, W
    <3>3. CASE k < i
      <4>1. k \in 1..(i - 1) /\ 1..(k - 1) \subseteq 1..(i - 1)
        <5>1. k >= 1
          BY DEF Sortable
        <5> QED BY <1>4, <3>3, <5>1
      <4>2. W(k, p, r) /\ \A j \in 1..(k - 1) : L(j, p) = L(j, r)
        BY <1>2, <1>5, <2>2, <4>1
      <4> QED BY <4>2, AheadIs DEF L, W
    <3> QED BY <1>4, <3>1, <3>2, <3>3
  <2> QED BY <2>1, <2>2, AheadIs DEF L, W
<1>6. ASSUME \A j \in DOMAIN ranking : L(j, p) = L(j, q), p < q
      PROVE  Ahead(registry, ranking, p, r)
  <2>1. CASE (\A j \in DOMAIN ranking : L(j, q) = L(j, r)) /\ q < r
    <3>1. (\A j \in DOMAIN ranking : L(j, p) = L(j, r)) /\ p < r
      BY <1>3, <1>6, <2>1
    <3> QED BY <3>1, AheadIs DEF L, W
  <2>2. ASSUME NEW k \in DOMAIN ranking, W(k, q, r), \A j \in 1..(k - 1) : L(j, q) = L(j, r)
        PROVE  Ahead(registry, ranking, p, r)
    <3>1. W(k, p, r) /\ \A j \in 1..(k - 1) : L(j, p) = L(j, r)
      BY <1>2, <1>4, <1>6, <2>2
    <3> QED BY <3>1, AheadIs DEF L, W
  <2> QED BY <2>1, <2>2, AheadIs DEF L, W
<1> QED BY <1>5, <1>6, AheadIs DEF L, W

(* The first of the sorted candidates is one of them: nobody who is not    *)
(* eligible is ever taken from the list.                                   *)
LEMMA FirstIsCandidate ==
    ASSUME NEW registry, NEW ranking, NEW candidates, Sortable(registry, ranking, candidates)
    PROVE  /\ candidates = {} => First(registry, ranking, candidates) = None
           /\ candidates # {} => First(registry, ranking, candidates) \in candidates
<1> DEFINE R == {pq \in candidates \X candidates : Ahead(registry, ranking, pq[1], pq[2])}
<1>1. \A p, q \in candidates : <<p, q>> \in R <=> Ahead(registry, ranking, p, q)
  OBVIOUS
<1>2. \A p \in candidates : <<p, p>> \notin R
  BY <1>1, AheadIsTotal
<1>3. \A p, q, r \in candidates : <<p, q>> \in R /\ <<q, r>> \in R => <<p, r>> \in R
  BY <1>1, AheadIsTransitive
<1>4. \A p, q \in candidates : p # q => <<p, q>> \in R \/ <<q, p>> \in R
  BY <1>1, AheadIsTotal
<1>5. ASSUME candidates # {}
      PROVE  \E p \in candidates : \A q \in candidates \ {p} : Ahead(registry, ranking, p, q)
  <2>1. IsFiniteSet(candidates)
    BY DEF Sortable
  <2>2. \E p \in candidates : \A q \in candidates \ {p} : <<p, q>> \in R
    <3> HIDE DEF R
    <3> QED BY <1>2, <1>3, <1>4, <1>5, <2>1, Least
  <2> QED BY <1>1, <2>2
<1> QED BY <1>5 DEF First

-----------------------------------------------------------------------------
(* Selecting a policy.                                                     *)

(* The policies that are for a context are ordered by precedence and then  *)
(* by id, so that one of them comes first.                                 *)
LEMMA MatchedIsPolicy ==
    ASSUME NEW policies, ValidPolicies(policies), NEW context,
           MatchedPolicy(policies, context) # None
    PROVE  /\ MatchedPolicy(policies, context) \in policies
           /\ Matches(MatchedPolicy(policies, context), context)
<1> DEFINE M == {p \in policies : Matches(p, context)}
           R == {pq \in M \X M : Precedes(pq[1], pq[2])}
<1>1. M # {} /\ IsFiniteSet(M) /\ M \subseteq policies
  <2>1. M # {}
    BY DEF MatchedPolicy
  <2> QED BY <2>1, FS_Subset DEF ValidPolicies
<1>2. \A p, q \in policies : /\ p.id \in Nat /\ p.precedence \in Int
                             /\ p.id = q.id => p = q
  <2>1. \A p \in policies : p.id \in Nat
    BY DEF ValidPolicies
  <2>2. \A p \in policies : p.precedence \in Nat
    BY DEF ValidPolicies
  <2>3. \A p, q \in policies : p.id = q.id => p = q
    BY DEF ValidPolicies
  <2> QED BY <2>1, <2>2, <2>3
<1> HIDE DEF M
<1>3. \A p, q \in M : <<p, q>> \in R <=> Precedes(p, q)
  OBVIOUS
<1>4. \A p \in M : <<p, p>> \notin R
  BY <1>1, <1>2, <1>3 DEF Precedes
<1>5. \A p, q, r \in M : <<p, q>> \in R /\ <<q, r>> \in R => <<p, r>> \in R
  BY <1>1, <1>2, <1>3 DEF Precedes
<1>6. \A p, q \in M : p # q => <<p, q>> \in R \/ <<q, p>> \in R
  BY <1>1, <1>2, <1>3 DEF Precedes
<1>7. \E p \in M : \A q \in M \ {p} : Precedes(p, q)
  <2>1. \E p \in M : \A q \in M \ {p} : <<p, q>> \in R
    <3> HIDE DEF R
    <3> QED BY <1>1, <1>4, <1>5, <1>6, Least
  <2> QED BY <1>3, <2>1
<1>8. MatchedPolicy(policies, context) = CHOOSE p \in M : \A q \in M \ {p} : Precedes(p, q)
  BY <1>1 DEF MatchedPolicy, M
<1>9. MatchedPolicy(policies, context) \in M
  BY <1>7, <1>8
<1> QED BY <1>9 DEF M

(* Every candidate may be sorted by the ranking of the policy.             *)
LEMMA CandidatesAreSortable ==
    ASSUME NEW registry \in Registries, NEW policies \in Policies, NEW policy \in policies,
           NEW candidates, candidates \subseteq DOMAIN registry
    PROVE  Sortable(registry, policy.ranking, candidates)
<1>1. policy.ranking \in Seq([by : Dimensions, best : {"low", "high"}])
  <2>1. ValidPolicies(policies)
    BY RoutingAssumption
  <2>2. ValidRanking(policy.ranking)
    BY <2>1 DEF ValidPolicies
  <2> QED BY <2>2 DEF ValidRanking
<1>2. DOMAIN registry \subseteq Providers /\ IsFiniteSet(DOMAIN registry)
      /\ \A p \in DOMAIN registry : registry[p] \in Descriptors
  BY RoutingAssumption
<1>3. IsFiniteSet(candidates)
  BY <1>2, FS_Subset
<1> QED BY <1>1, <1>2, <1>3 DEF Sortable

(* Whoever is selected is eligible, and the reason says whether somebody   *)
(* is.                                                                     *)
LEMMA SelectChooses ==
    ASSUME NEW registry \in Registries, NEW policies \in Policies, NEW context, NEW ready,
           NEW d, d = Select(registry, ready, policies, context)
    PROVE  /\ d.eligible \subseteq DOMAIN registry \cap ready
           /\ d.reason \in {"POLICY_NOT_MATCHED", "NO_ELIGIBLE_PROVIDER", "SELECTED"}
           /\ d.policy # None => d.policy \in policies /\ Matches(d.policy, context)
           /\ d.policy # None => d.eligible = Candidates(registry, ready, d.policy, context)
           /\ d.reason = "SELECTED" <=> d.policy # None /\ d.eligible # {}
           /\ d.eligible = {} => d.selected = None
           /\ d.eligible # {} => d.selected \in d.eligible
           /\ \A p \in d.eligible : registry[p].enabled
<1> DEFINE policy == MatchedPolicy(policies, context)
           eligible == IF policy = None THEN {} ELSE Candidates(registry, ready, policy, context)
<1>1. /\ d.policy = policy /\ d.eligible = eligible
      /\ d.reason = IF policy = None THEN "POLICY_NOT_MATCHED"
                    ELSE IF eligible = {} THEN "NO_ELIGIBLE_PROVIDER" ELSE "SELECTED"
      /\ d.selected = IF eligible = {} THEN None ELSE First(registry, policy.ranking, eligible)
  BY DEF Select
<1>2. policy # None => policy \in policies /\ Matches(policy, context)
  BY MatchedIsPolicy, RoutingAssumption
<1>3. eligible \subseteq DOMAIN registry \cap ready /\ \A p \in eligible : registry[p].enabled
  BY DEF Candidates, Eligible
<1>4. eligible # {} => policy # None
  OBVIOUS
<1> HIDE DEF policy
<1>5. eligible # {} => First(registry, policy.ranking, eligible) \in eligible
  <2> HIDE DEF eligible
  <2>1. CASE eligible # {}
    <3>1. Sortable(registry, policy.ranking, eligible)
      BY <1>2, <1>3, <1>4, <2>1, CandidatesAreSortable
    <3> QED BY <2>1, <3>1, FirstIsCandidate
  <2> QED BY <2>1
<1>6. policy # None => eligible = Candidates(registry, ready, policy, context)
  OBVIOUS
<1> HIDE DEF eligible
<1> QED BY <1>1, <1>2, <1>3, <1>4, <1>5, <1>6

-----------------------------------------------------------------------------
(* The plan.                                                               *)

(* A plan made of a selection needs none of the assertions made about it:  *)
(* its targets are eligible, available, bound, enabled and different, and  *)
(* the escalation target is the stronger one.                              *)
LEMMA PlanFits ==
    ASSUME NEW registry \in Registries, NEW policies \in Policies, NEW context, NEW ready, NEW bound,
           ready \subseteq bound, NEW prof,
           NEW d, d = Select(registry, ready, policies, context), d.reason = "SELECTED",
           NEW made, made = Plan(registry, bound, d, prof)
    PROVE  /\ made \in [Purposes -> Providers \cup {None}]
           /\ made.PRIMARY = d.selected /\ d.selected \in d.eligible /\ d.selected \in bound
           /\ TargetsHold(registry, ready, bound, d, prof, made)
           /\ ShapeHolds(made)
<1> DEFINE others == (d.eligible \cap bound) \ {d.selected}
           strong == {p \in others : Stronger(registry, prof, p, d.selected)}
           escalation == First(registry, d.policy.ranking, strong)
           rest == others \ {escalation}
           fallback == First(registry, d.policy.ranking, rest)
<1>1. made = [PRIMARY |-> d.selected, ESCALATION |-> escalation, FALLBACK |-> fallback]
  BY DEF Plan
<1>2. /\ d.eligible \subseteq DOMAIN registry \cap ready
      /\ d.policy \in policies /\ d.selected \in d.eligible
      /\ \A p \in d.eligible : registry[p].enabled
  BY SelectChooses
<1>3. strong \subseteq DOMAIN registry /\ rest \subseteq DOMAIN registry
  BY <1>2
<1>4. Sortable(registry, d.policy.ranking, strong) /\ Sortable(registry, d.policy.ranking, rest)
  <2> HIDE DEF strong, rest
  <2> QED BY <1>2, <1>3, CandidatesAreSortable
<1>5. escalation = None \/ escalation \in strong
  <2> HIDE DEF strong
  <2> QED BY <1>4, FirstIsCandidate
<1>6. fallback = None \/ fallback \in rest
  <2> HIDE DEF rest
  <2> QED BY <1>4, FirstIsCandidate
<1>7. d.eligible \subseteq Providers /\ None \notin Providers
  BY <1>2, RoutingAssumption, ProvidersAssumption
<1>8. /\ escalation # None => /\ escalation \in others /\ Stronger(registry, prof, escalation, d.selected)
      /\ fallback # None => fallback \in others /\ fallback # escalation
  BY <1>5, <1>6
<1> HIDE DEF escalation, fallback
<1>9. made \in [Purposes -> Providers \cup {None}] /\ DOMAIN made = Purposes
  BY <1>1, <1>2, <1>7, <1>8 DEF Purposes
<1>10. /\ made.PRIMARY = d.selected /\ made.ESCALATION = escalation /\ made.FALLBACK = fallback
  BY <1>1
<1>11. TargetsHold(registry, ready, bound, d, prof, made)
  <2>1. ASSUME NEW purpose \in DOMAIN made, made[purpose] # None
        PROVE  made[purpose] \in d.eligible \cap ready \cap bound /\ registry[made[purpose]].enabled
    <3>1. made[purpose] \in d.eligible
      BY <1>2, <1>8, <1>9, <1>10, <2>1 DEF Purposes
    <3> QED BY <1>2, <3>1
  <2>2. made.ESCALATION # None => Stronger(registry, prof, made.ESCALATION, made.PRIMARY)
    BY <1>8, <1>10
  <2> QED BY <2>1, <2>2 DEF TargetsHold
<1>12. ShapeHolds(made)
  <2>1. made.PRIMARY # None
    BY <1>2, <1>7, <1>10
  <2>2. \A a, b \in DOMAIN made : made[a] = made[b] /\ made[a] # None => a = b
    BY <1>8, <1>9, <1>10 DEF Purposes
  <2> QED BY <2>1, <2>2 DEF ShapeHolds
<1> QED BY <1>2, <1>9, <1>10, <1>11, <1>12

(* The production policies keep the callers apart. Only the balanced       *)
(* provider is eligible for a continuation, so that its plan has nobody    *)
(* else in it.                                                             *)
LEMMA ProductionKeepsApart ==
    ASSUME ProductionRegistry \in Registries, ProductionPolicies \in Policies,
           NEW caller \in Callers, NEW ready, NEW bound, NEW prof,
           NEW d, d = Select(ProductionRegistry, ready, ProductionPolicies, Context[caller])
    PROVE  /\ d.policy # None => (d.policy.id = 1 <=> caller = "runtime")
           /\ caller = "continuation" /\ d.reason = "SELECTED" =>
                 /\ Plan(ProductionRegistry, bound, d, prof).FALLBACK = None
                 /\ Plan(ProductionRegistry, bound, d, prof).ESCALATION = None
<1>1. \A p \in ProductionPolicies : Matches(p, Context[caller]) =>
        /\ p.id = 1 <=> caller = "runtime"
        /\ caller = "continuation" => p.eligibility.some = {"BALANCED"}
  <2> TAKE p \in ProductionPolicies
  <2>1. CASE p = ChatPolicy
    <3>1. p.id = 1 /\ "requestType" \in DOMAIN p.when /\ p.when["requestType"] = {"CONVERSATIONAL"}
      BY <2>1 DEF ChatPolicy
    <3>2. Matches(p, Context[caller]) => Context[caller]["requestType"] = "CONVERSATIONAL"
      BY <3>1 DEF Matches
    <3> QED BY <3>1, <3>2 DEF Callers, Context
  <2>2. CASE p = ContinuationPolicy
    <3>1. /\ p.id = 2 /\ "requestType" \in DOMAIN p.when /\ p.when["requestType"] = {"WORK"}
          /\ p.eligibility.some = {"BALANCED"}
      BY <2>2 DEF ContinuationPolicy
    <3>2. Matches(p, Context[caller]) => Context[caller]["requestType"] = "WORK"
      BY <3>1 DEF Matches
    <3> QED BY <3>1, <3>2 DEF Callers, Context
  <2> QED BY <2>1, <2>2 DEF ProductionPolicies
<1>2. d.policy # None => d.policy \in ProductionPolicies /\ Matches(d.policy, Context[caller])
  BY SelectChooses
<1>3. ASSUME caller = "continuation", d.reason = "SELECTED"
      PROVE  d.eligible \subseteq {1} /\ d.selected \in d.eligible
  <2>1. d.policy # None /\ d.selected \in d.eligible
        /\ d.eligible = Candidates(ProductionRegistry, ready, d.policy, Context[caller])
    BY <1>3, SelectChooses
  <2>2. d.policy.eligibility.some = {"BALANCED"}
    BY <1>1, <1>2, <1>3, <2>1
  <2>3. \A p \in d.eligible : p \in {1, 2} /\ "BALANCED" \in ProductionRegistry[p].traits
    BY <2>1, <2>2 DEF Candidates, Eligible, ProductionRegistry
  <2>4. "BALANCED" \notin ProductionRegistry[2].traits
    BY DEF ProductionRegistry, Descriptor
  <2> QED BY <2>1, <2>3, <2>4
<1>4. ASSUME caller = "continuation", d.reason = "SELECTED"
      PROVE  /\ Plan(ProductionRegistry, bound, d, prof).FALLBACK = None
             /\ Plan(ProductionRegistry, bound, d, prof).ESCALATION = None
  <2>1. (d.eligible \cap bound) \ {d.selected} = {}
    BY <1>3, <1>4
  <2>2. /\ {p \in (d.eligible \cap bound) \ {d.selected} :
               Stronger(ProductionRegistry, prof, p, d.selected)} = {}
        /\ \A x : ((d.eligible \cap bound) \ {d.selected}) \ {x} = {}
    BY <2>1
  <2>3. First(ProductionRegistry, d.policy.ranking, {}) = None
    BY DEF First
  <2> QED BY <2>2, <2>3 DEF Plan
<1> QED BY <1>1, <1>2, <1>4

-----------------------------------------------------------------------------
(* The inductive invariant of a call.                                      *)

InGateway == phase \in {"ready", "executing", "returned"}
Going == phase = "planned" \/ InGateway

ReadyState == [PRIMARY |-> "PRIMARY_READY", FALLBACK |-> "FALLBACK_READY", ESCALATION |-> "ESCALATION_READY"]

(* The state machine stands where the call does, and the first attempt     *)
(* took at most three transitions, so that the second fits in what is      *)
(* left.                                                                   *)
StandsAt(state, soon, late) ==
    /\ machine[Len(machine)] = state
    /\ Len(machine) <= IF target = "PRIMARY" THEN soon ELSE late

MachineInStep ==
    /\ phase \in {"probing", "planned"} => machine = <<"INITIAL">>
    /\ phase = "ready" => StandsAt(ReadyState[target], 2, 5)
    /\ phase = "executing" => StandsAt(Executing[target], 3, 6)
    /\ phase = "returned" => StandsAt(Validating[target], 4, 7)
    /\ phase = "done" => Len(machine) = 1 \/ machine[Len(machine)] = "TERMINAL"

(* The plan a call goes on with is one the planner and the gateway accept, *)
(* and that of a continuation has nobody else in it.                       *)
PlanAccepted ==
    /\ TargetsHold(call.registry, available, call.bound, decision, profile, plan)
    /\ ShapeHolds(plan)
    /\ call.caller = "continuation" => plan.FALLBACK = None /\ plan.ESCALATION = None

(* The decision is that of the policy engine over what was asked.          *)
DecisionMade == decision = Select(call.registry, available, call.policies, Context[call.caller])

Decided ==
    /\ phase = "probing" => decision = NoDecision /\ plan = NoPlan
    /\ decision = NoDecision \/ DecisionMade
    /\ Going => PlanAccepted

(* What was tried, and why the target is whom it is.                       *)
Justifies(a) ==
    /\ a.provider = plan.PRIMARY
    /\ a.reasons \cap Safety = {}
    /\ target = "FALLBACK" => a.code \in Operational
    /\ target = "ESCALATION" => a.reasons \cap Semantic # {}

AttemptsInStep ==
    /\ phase \in {"probing", "planned"} => target = "PRIMARY"
    /\ phase # "done" => (target = "PRIMARY" <=> attempts = <<>>)
    /\ phase # "done" /\ target # "PRIMARY" =>
          Len(attempts) = 1 /\ Justifies(attempts[1]) /\ plan[target] # None
    /\ \A i \in DOMAIN attempts :
          attempts[i].outcome = "VALIDATION_ACCEPTED" => attempts[i].reasons = {} /\ attempts[i].code = None
    /\ call.caller = "continuation" => Len(attempts) <= 1

(* What the end says, and what may still be running behind it.             *)
ResultInStep ==
    /\ phase # "done" => result = NoResult
    /\ result.accepted # None <=> result.status = "ACCEPTED"
    /\ result.status = "ACCEPTED" => result.code = None /\ attempts # <<>>
    /\ phase = "done" /\ call.caller = "continuation" =>
          /\ result.disposition \in {"ACCEPTED", "FAILED", "UNRESOLVED"}
          /\ result.disposition = "ACCEPTED" <=> result.status = "ACCEPTED"
    /\ phase = "probing" => lingering = {}
    /\ call.caller = "continuation" /\ lingering # {} => phase = "done" /\ result.disposition = "UNRESOLVED"

RoutingInv ==
    /\ TypeOK /\ MachineInStep /\ Decided /\ AttemptsInStep /\ ResultInStep
    /\ AnswersJudged /\ NothingRefused

(* The invariant of a receiver: what it reports is what the routing ended  *)
(* with, unless the artifact was lost after it.                            *)
Told ==
    \/ result.disposition = reported.disposition /\ artifact = "none"
       /\ result.disposition \in {"FAILED", "UNRESOLVED"}
    \/ result.disposition = "ACCEPTED" /\ reported.disposition = "SUCCEEDED" /\ artifact = "saved"
    \/ result.disposition = "ACCEPTED" /\ reported.disposition = "FAILED" /\ artifact = "lost"

Believed ==
    /\ reported.disposition # "UNRESOLVED"
    /\ reported.audited => OutcomeHolds(reported.disposition, Audit)

ReceiverInv ==
    /\ stage \in {"none", "composing", "routing", "persisting", "reported", "closed"}
    /\ stage = "none" <=> call.caller = "runtime"
    /\ stage = "composing" => phase = "probing"
    /\ stage \in {"none", "composing", "routing", "persisting"} => artifact = "none"
    /\ stage = "persisting" => phase = "done" /\ result.disposition = "ACCEPTED"
    /\ stage \in {"reported", "closed"} =>
          IF reported.audited THEN phase = "done" /\ Told
          ELSE phase = "probing" /\ reported.disposition \in {"FAILED", "UNRESOLVED"} /\ artifact = "none"
    /\ run = IF stage = "closed" /\ Believed THEN reported.disposition ELSE "STARTED"

-----------------------------------------------------------------------------
(* Codes and numbers.                                                      *)

(* The times are positive numbers.                                         *)
LEMMA Numbers ==
    /\ Overall \in Nat \ {0} /\ Reserve \in Nat \ {0} /\ MinAttempt \in Nat \ {0}
    /\ \A n \in Timeouts : n \in Nat \ {0}
  BY RoutingAssumption

Kinds == {"UNAVAILABLE", "AUTH_REQUIRED", "TIMEOUT", "EXECUTION_FAILED", "EMPTY_OUTPUT"}

(* The failures a provider may report and the codes that allow a fallback. *)
LEMMA ProviderFailures ==
    /\ DOMAIN ProviderFailure = Kinds
    /\ FallbackAllowed = {"PROVIDER_UNAVAILABLE", "PROVIDER_AUTH_REQUIRED", "PROVIDER_TIMEOUT",
                          "PROVIDER_EXECUTION_FAILED", "EMPTY_OUTPUT"}
    /\ Operational = FallbackAllowed \cup {"OUTPUT_LIMIT_VIOLATION", "DEADLINE_EXHAUSTED"}
<1>1. DOMAIN ProviderFailure = Kinds
  BY DEF ProviderFailure, Kinds
<1>2. /\ ProviderFailure["UNAVAILABLE"] = "PROVIDER_UNAVAILABLE"
      /\ ProviderFailure["AUTH_REQUIRED"] = "PROVIDER_AUTH_REQUIRED"
      /\ ProviderFailure["TIMEOUT"] = "PROVIDER_TIMEOUT"
      /\ ProviderFailure["EXECUTION_FAILED"] = "PROVIDER_EXECUTION_FAILED"
      /\ ProviderFailure["EMPTY_OUTPUT"] = "EMPTY_OUTPUT"
  BY DEF ProviderFailure
<1> HIDE DEF ProviderFailure
<1>3. FallbackAllowed = {"PROVIDER_UNAVAILABLE", "PROVIDER_AUTH_REQUIRED", "PROVIDER_TIMEOUT",
                          "PROVIDER_EXECUTION_FAILED", "EMPTY_OUTPUT"}
  BY <1>1, <1>2 DEF FallbackAllowed, Kinds
<1> QED BY <1>1, <1>3 DEF Operational, FallbackAllowed

(* No code is the absence of one.                                          *)
LEMMA NoneIsNoCode == None \notin Codes /\ None # "PRE_DISPATCH_FAILED" /\ None \notin Safety
  BY CodesAssumption DEF Codes

(* The code of an answer that breaks rules: none exactly when it breaks    *)
(* none, a safety code exactly when it breaks a safety rule.               *)
LEMMA FailureCodes ==
    ASSUME NEW reasons, reasons \subseteq Safety \cup Semantic \cup Operational
    PROVE  /\ ValidationFailure(reasons) = None <=> reasons = {}
           /\ ValidationFailure(reasons) \in Safety <=> reasons \cap Safety # {}
           /\ ValidationFailure(reasons) \in (Codes \ (Configuration \cup {"PRE_DISPATCH_FAILED"})) \cup {None}
           /\ Disposition(reasons) = "ESCALATE" => reasons \cap Semantic # {}
<1>1. CASE reasons \cap Safety # {}
  <2>1. ValidationFailure(reasons) \in Safety
    BY <1>1 DEF ValidationFailure, Safety
  <2>2. Safety \subseteq Codes \ (Configuration \cup {"PRE_DISPATCH_FAILED"})
    BY DEF Codes, Safety, Configuration
  <2>3. Disposition(reasons) # "ESCALATE"
    BY <1>1 DEF Disposition
  <2> QED BY <1>1, <2>1, <2>2, <2>3, NoneIsNoCode
<1>2. CASE reasons \cap Safety = {} /\ reasons # {}
  <2>1. /\ "VALIDATOR_INTERNAL_FAILURE" \notin reasons /\ "PROMPT_LEAK" \notin reasons
        /\ "MULTI_ENTRY_ECHO" \notin reasons /\ "SECRET_EXPOSURE_RISK" \notin reasons
    BY <1>2 DEF Safety
  <2>2. ValidationFailure(reasons) \in {"EMPTY_OUTPUT", "OUTPUT_LIMIT_VIOLATION", "SEMANTIC_VALIDATION_FAILED"}
    BY <1>2, <2>1 DEF ValidationFailure
  <2>3. {"EMPTY_OUTPUT", "OUTPUT_LIMIT_VIOLATION", "SEMANTIC_VALIDATION_FAILED"}
           \subseteq Codes \ (Configuration \cup {"PRE_DISPATCH_FAILED"} \cup Safety)
    BY ProviderFailures DEF Codes, Configuration, Safety
  <2>4. Disposition(reasons) = "ESCALATE" => reasons \cap Semantic # {}
    BY <1>2 DEF Disposition
  <2> QED BY <1>2, <2>2, <2>3, <2>4, NoneIsNoCode
<1>3. CASE reasons = {}
  <2>1. ValidationFailure(reasons) = None /\ Disposition(reasons) = "ACCEPT"
    BY <1>3 DEF ValidationFailure, Disposition
  <2>2. Safety \subseteq Codes
    BY DEF Codes
  <2> QED BY <1>3, <2>1, <2>2, NoneIsNoCode
<1> QED BY <1>1, <1>2, <1>3

(* The reasons for which a validation rejects are rules of the profiles.   *)
LEMMA ReasonsAreTyped ==
    ASSUME NEW caller \in Callers, NEW breaks, breaks \subseteq Safety \cup Semantic \cup Operational
    PROVE  Reasons(ProfileOf[caller], breaks) \subseteq Safety \cup Semantic \cup Operational
  BY DEF Reasons

(* Only an accepted answer ends a call as ACCEPTED, and nothing but the    *)
(* configuration as CONFIGURATION_FAILED.                                  *)
LEMMA TerminalStatuses ==
    ASSUME NEW code
    PROVE  /\ TerminalStatus(code) \in Statuses \ {"ACCEPTED"}
           /\ code \in Safety => TerminalStatus(code) = "SAFETY_BLOCKED"
  BY DEF TerminalStatus, Statuses, Safety, Configuration

(* The failure of a provider is operational, never a safety rule or the    *)
(* configuration.                                                          *)
LEMMA ProviderCodes ==
    ASSUME NEW kind \in DOMAIN ProviderFailure
    PROVE  /\ ProviderFailure[kind] \in (Operational \cap Codes) \ (Configuration \cup Safety)
           /\ ProviderFailure[kind] # "PRE_DISPATCH_FAILED" /\ ProviderFailure[kind] # None
           /\ kind \in {"TIMEOUT", "EXECUTION_FAILED"} => ProviderFailure[kind] \in Uncertain
<1>1. ProviderFailure[kind] \in FallbackAllowed
  BY DEF FallbackAllowed
<1>2. FallbackAllowed \subseteq (Operational \cap Codes) \ (Configuration \cup Safety \cup {"PRE_DISPATCH_FAILED"})
  BY ProviderFailures DEF Codes, Configuration, Safety
<1>3. ProviderFailure["TIMEOUT"] \in Uncertain /\ ProviderFailure["EXECUTION_FAILED"] \in Uncertain
  BY DEF ProviderFailure, Uncertain
<1> QED BY <1>1, <1>2, <1>3, NoneIsNoCode

-----------------------------------------------------------------------------
(* The last step of a call and the hop to another provider, once for all   *)
(* the places they are made from.                                          *)

(* The state machine lets every call end.                                  *)
LEMMA FinishEnds ==
    ASSUME RoutingInv, Going, NEW status, NEW code, NEW made, Finish(status, code, made)
    PROVE  /\ machine' = Append(machine, "TERMINAL") /\ Len(machine) <= MaxTransitions
           /\ attempts' = made /\ phase' = "done" /\ target' = target
           /\ result' = Result(status, code, made)
<1>1. Len(machine) \in Nat /\ Len(machine) - 1 < MaxTransitions
  <2>1. Len(machine) \in 1..(MaxTransitions + 1)
    BY DEF RoutingInv, TypeOK
  <2>2. Len(machine) <= 7
    <3>1. CASE phase = "planned"
      <4>1. machine = <<"INITIAL">>
        BY <3>1 DEF RoutingInv, MachineInStep
      <4> QED BY <4>1
    <3>2. CASE InGateway
      <4>1. Len(machine) <= 2 \/ Len(machine) <= 3 \/ Len(machine) <= 4 \/ Len(machine) <= 5 \/ Len(machine) <= 6
            \/ Len(machine) <= 7
        BY <3>2 DEF RoutingInv, MachineInStep, InGateway, StandsAt
      <4> QED BY <4>1, <2>1
    <3> QED BY <3>1, <3>2 DEF Going
  <2> QED BY <2>1, <2>2 DEF MaxTransitions
<1>2. "TERMINAL" \in Successors[machine[Len(machine)]]
  <2>1. CASE phase = "planned"
    <3>1. machine = <<"INITIAL">>
      BY <2>1 DEF RoutingInv, MachineInStep
    <3>2. machine[Len(machine)] = "INITIAL"
      BY <3>1
    <3> QED BY <3>2 DEF Successors
  <2>2. CASE InGateway
    <3>1. target \in Purposes
      BY DEF RoutingInv, TypeOK
    <3>2. CASE phase = "ready"
      <4>1. machine[Len(machine)] \in {"PRIMARY_READY", "FALLBACK_READY", "ESCALATION_READY"}
        BY <3>1, <3>2 DEF RoutingInv, MachineInStep, StandsAt, Purposes, ReadyState
      <4> QED BY <4>1 DEF Successors
    <3>3. CASE phase = "executing"
      <4>1. machine[Len(machine)] \in {"PRIMARY_EXECUTING", "FALLBACK_EXECUTING", "ESCALATION_EXECUTING"}
        BY <3>1, <3>3 DEF RoutingInv, MachineInStep, StandsAt, Purposes, Executing
      <4> QED BY <4>1 DEF Successors
    <3>4. CASE phase = "returned"
      <4>1. machine[Len(machine)] \in {"PRIMARY_VALIDATING", "FALLBACK_VALIDATING", "ESCALATION_VALIDATING"}
        BY <3>1, <3>4 DEF RoutingInv, MachineInStep, StandsAt, Purposes, Validating
      <4> QED BY <4>1 DEF Successors
    <3> QED BY <2>2, <3>2, <3>3, <3>4 DEF InGateway
  <2> QED BY <2>1, <2>2 DEF Going
<1>3. Allows("TERMINAL")
  BY <1>1, <1>2 DEF Allows
<1> QED BY <1>1, <1>3 DEF Finish, Moves, MaxTransitions

(* What a call may end with.                                               *)
MayEnd(status, code, made) ==
    /\ status \in Statuses
    /\ code \in (Codes \ (Configuration \cup {"PRE_DISPATCH_FAILED"})) \cup {None}
    /\ made \in Seq(AttemptRecords) /\ Len(made) <= MaxAttempts
    /\ call.caller = "continuation" => Len(made) <= 1
    /\ \A i \in DOMAIN made :
          /\ made[i].outcome = "VALIDATION_ACCEPTED" => made[i].reasons = {} /\ made[i].code = None
          /\ made[i].reasons \cap Safety # {} => i = Len(made) /\ status = "SAFETY_BLOCKED"
    /\ status = "ACCEPTED" =>
          /\ code = None /\ made # <<>> /\ now < deadlineAt
          /\ made[Len(made)].outcome = "VALIDATION_ACCEPTED" /\ made[Len(made)].reasons = {}
    /\ call.caller = "continuation" /\ lingering' # {} =>
          status # "ACCEPTED" /\ made # <<>> /\ code \in Uncertain
    /\ lingering' \subseteq Providers

(* A step that ends the call.                                              *)
LEMMA EndKeeps ==
    ASSUME RoutingInv, Going, NEW status, NEW code, NEW made, Finish(status, code, made),
           MayEnd(status, code, made),
           UNCHANGED <<call, asked, decision, plan, now, deadlineAt>>,
           timeout' \in Nat, answer' \subseteq Safety \cup Semantic \cup Operational
    PROVE  RoutingInv'
<1> DEFINE last == made[Len(made)]
<1>1. /\ machine' = Append(machine, "TERMINAL") /\ Len(machine) <= MaxTransitions
      /\ attempts' = made /\ phase' = "done" /\ target' = target
      /\ result' = Result(status, code, made)
  BY FinishEnds
<1>2. /\ machine' \in Seq(DOMAIN Successors) /\ Len(machine') = Len(machine) + 1
      /\ machine'[Len(machine')] = "TERMINAL" /\ Len(machine) \in Nat
  <2>1. machine \in Seq(DOMAIN Successors) /\ "TERMINAL" \in DOMAIN Successors
    BY DEF RoutingInv, TypeOK, Successors
  <2> HIDE DEF Successors
  <2> QED BY <1>1, <2>1
<1>3. made # <<>> => last \in AttemptRecords
  BY DEF MayEnd
<1>4. last \in AttemptRecords => last.provider \in Providers
  BY DEF AttemptRecords
<1>5. /\ result'.status = status /\ result'.code = code
      /\ result'.accepted = IF status = "ACCEPTED" THEN last.provider ELSE None
      /\ result'.disposition = IF call.caller = "continuation" THEN DispositionOf(status, code, made) ELSE "NONE"
      /\ result' \in Results
  <2>1. DispositionOf(status, code, made) \in {"ACCEPTED", "FAILED", "UNRESOLVED"}
    BY DEF DispositionOf
  <2>2. status = "ACCEPTED" => last.provider \in Providers
    BY <1>3, <1>4 DEF MayEnd
  <2> QED BY <1>1, <2>1, <2>2 DEF Result, Results, MayEnd
<1>6. TypeOK'
  <2>1. Len(machine') \in 1..(MaxTransitions + 1)
    BY <1>1, <1>2 DEF RoutingInv, TypeOK, MaxTransitions
  <2> QED BY <1>1, <1>2, <1>5, <2>1 DEF RoutingInv, TypeOK, MayEnd
<1>7. MachineInStep'
  BY <1>1, <1>2 DEF MachineInStep
<1>8. Decided'
  BY <1>1 DEF RoutingInv, Decided, DecisionMade, Going, InGateway, available, profile
<1>9. AttemptsInStep'
  BY <1>1 DEF AttemptsInStep, MayEnd
<1>10. ResultInStep'
  BY <1>1, <1>3, <1>4, <1>5, NoneIsNoCode, ProvidersAssumption DEF ResultInStep, MayEnd, DispositionOf
<1>11. AnswersJudged'
  BY <1>1, <1>5 DEF AnswersJudged, MayEnd
<1>12. NothingRefused'
  BY <1>1, <1>2, <1>5, NoneIsNoCode DEF RoutingInv, NothingRefused, MayEnd, Codes, Configuration
<1> QED BY <1>6, <1>7, <1>8, <1>9, <1>10, <1>11, <1>12 DEF RoutingInv

(* Another provider is only ever asked after the first, and the state      *)
(* machine lets the call go on to it.                                      *)
LEMMA HopKeeps ==
    ASSUME RoutingInv, phase \in {"executing", "returned"},
           NEW purpose \in {"FALLBACK", "ESCALATION"}, purpose = "ESCALATION" => phase = "returned",
           NEW a \in AttemptRecords, NEW made, made = Append(attempts, a),
           MayHop(purpose, made), Hop(purpose, made),
           a.provider = plan[target], a.reasons \cap Safety = {}, a.outcome # "VALIDATION_ACCEPTED",
           purpose = "FALLBACK" => a.code \in Operational,
           purpose = "ESCALATION" => a.reasons \cap Semantic # {},
           lingering' \subseteq Providers,
           UNCHANGED <<call, asked, decision, plan, now, deadlineAt, timeout>>,
           answer' \subseteq Safety \cup Semantic \cup Operational
    PROVE  RoutingInv'
<1>1. /\ target = "PRIMARY" /\ plan[purpose] # None /\ attempts = <<>>
      /\ call.caller # "continuation" /\ Going /\ PlanAccepted
  <2>1. target = "PRIMARY" /\ plan[purpose] # None
    BY DEF MayHop
  <2>2. Going /\ PlanAccepted
    BY DEF RoutingInv, Decided, Going, InGateway
  <2> QED BY <2>1, <2>2 DEF RoutingInv, AttemptsInStep, PlanAccepted
<1>2. made = <<a>> /\ Len(made) = 1 /\ made[1] = a /\ made \in Seq(AttemptRecords) /\ DOMAIN made = {1}
  <2>1. made = <<a>>
    BY <1>1
  <2>2. made[1] = a /\ Len(made) = 1
    BY <2>1
  <2>3. \A i : i \in DOMAIN made <=> i = 1
    BY <2>1
  <2> QED BY <2>1, <2>2, <2>3
<1>3. Len(machine) \in Nat /\ Len(machine) <= 4 /\ Ready[purpose] \in Successors[machine[Len(machine)]]
  <2>1. Len(machine) \in Nat
    BY DEF RoutingInv, TypeOK
  <2>2. CASE phase = "executing"
    <3>1. machine[Len(machine)] = "PRIMARY_EXECUTING" /\ Len(machine) <= 3
      BY <1>1, <2>2 DEF RoutingInv, MachineInStep, StandsAt, Executing
    <3>2. Ready[purpose] = "FALLBACK_READY"
      BY <2>2 DEF Ready
    <3> QED BY <2>1, <3>1, <3>2 DEF Successors
  <2>3. CASE phase = "returned"
    <3>1. machine[Len(machine)] = "PRIMARY_VALIDATING" /\ Len(machine) <= 4
      BY <1>1, <2>3 DEF RoutingInv, MachineInStep, StandsAt, Validating
    <3>2. Ready[purpose] \in {"FALLBACK_READY", "ESCALATION_READY"}
      BY DEF Ready
    <3> QED BY <2>1, <3>1, <3>2 DEF Successors
  <2> QED BY <2>2, <2>3
<1>4. Allows(Ready[purpose])
  BY <1>3 DEF Allows, MaxTransitions
<1>5. /\ machine' = Append(machine, Ready[purpose]) /\ attempts' = made /\ target' = purpose
      /\ phase' = "ready" /\ result' = result
  BY <1>4 DEF Hop, Moves
<1>6. /\ machine' \in Seq(DOMAIN Successors) /\ Len(machine') = Len(machine) + 1
      /\ machine'[Len(machine')] = Ready[purpose]
  <2>1. machine \in Seq(DOMAIN Successors) /\ Ready[purpose] \in DOMAIN Successors
    BY DEF RoutingInv, TypeOK, Successors, Ready
  <2> HIDE DEF Successors
  <2> QED BY <1>5, <2>1
<1>7. TypeOK'
  <2>1. Len(machine') \in 1..(MaxTransitions + 1)
    BY <1>3, <1>6 DEF MaxTransitions
  <2> QED BY <1>2, <1>5, <1>6, <2>1 DEF RoutingInv, TypeOK, Purposes, MaxAttempts
<1>8. MachineInStep'
  <2>1. Ready[purpose] = ReadyState[purpose]
    BY DEF Ready, ReadyState
  <2> QED BY <1>3, <1>5, <1>6, <2>1 DEF MachineInStep, StandsAt
<1>9. Decided'
  BY <1>1, <1>5 DEF RoutingInv, Decided, DecisionMade, Going, InGateway, available, profile, PlanAccepted
<1>10. AttemptsInStep'
  BY <1>1, <1>2, <1>5 DEF RoutingInv, AttemptsInStep, Justifies
<1>11. ResultInStep'
  BY <1>1, <1>5 DEF RoutingInv, ResultInStep, NoResult
<1>12. result = NoResult /\ result.accepted = None /\ result.code = None
  BY <1>1 DEF RoutingInv, ResultInStep, Going, InGateway, NoResult
<1>13. AnswersJudged'
  BY <1>2, <1>5, <1>12 DEF AnswersJudged
<1>14. NothingRefused'
  BY <1>5, <1>12, NoneIsNoCode DEF RoutingInv, NothingRefused, Codes
<1> QED BY <1>7, <1>8, <1>9, <1>10, <1>11, <1>13, <1>14 DEF RoutingInv

-----------------------------------------------------------------------------
(* Each operation keeps the invariant.                                     *)

LEMMA InitKeeps == Init => RoutingInv
<1> SUFFICES ASSUME Init PROVE RoutingInv
  OBVIOUS
<1>1. result = NoResult /\ result.accepted = None /\ result.code = None /\ result.status = "NONE"
  BY DEF Init, NoResult
<1>2. machine = <<"INITIAL">> /\ Len(machine) = 1 /\ machine \in Seq(DOMAIN Successors)
  <2>1. "INITIAL" \in DOMAIN Successors
    BY DEF Successors
  <2>2. machine = <<"INITIAL">>
    BY DEF Init
  <2> HIDE DEF Successors
  <2> QED BY <2>1, <2>2
<1>3. TypeOK
  <2>1. result \in Results
    BY <1>1 DEF NoResult, Results
  <2>2. Len(machine) \in 1..(MaxTransitions + 1)
    BY <1>2 DEF MaxTransitions
  <2>3. /\ decision.selected \in Providers \cup {None} /\ decision.eligible \subseteq Providers
        /\ plan \in [Purposes -> Providers \cup {None}]
    BY DEF Init, NoDecision, NoPlan
  <2>4. now \in 0..MaxNow /\ attempts \in Seq(AttemptRecords) /\ Len(attempts) <= MaxAttempts
    BY RoutingAssumption DEF Init, MaxAttempts
  <2> QED BY <1>2, <2>1, <2>2, <2>3, <2>4 DEF Init, TypeOK, Purposes
<1>4. MachineInStep
  BY DEF Init, MachineInStep
<1>5. Decided
  BY DEF Init, Decided, Going, InGateway
<1>6. AttemptsInStep
  BY DEF Init, AttemptsInStep
<1>7. ResultInStep
  BY <1>1, NoneIsNoCode DEF Init, ResultInStep
<1>8. AnswersJudged
  BY <1>1 DEF Init, AnswersJudged
<1>9. NothingRefused
  BY <1>1, NoneIsNoCode DEF Init, NothingRefused, NoDecision, Codes
<1> QED BY <1>3, <1>4, <1>5, <1>6, <1>7, <1>8, <1>9 DEF RoutingInv

LEMMA ProbeKeeps ==
    ASSUME RoutingInv, NEW p \in Providers, Probe(p)
    PROVE  RoutingInv'
<1>1. phase = "probing" /\ decision = NoDecision /\ plan = NoPlan
  BY DEF RoutingInv, Decided, Probe
<1>2. UNCHANGED <<call, decision, plan, machine, now, deadlineAt, target, timeout, answer, attempts, phase,
                  result, lingering>>
  BY DEF Probe
<1>3. TypeOK'
  <2>1. asked' \in [call.bound -> {"ASKING", "AVAILABLE", "UNAVAILABLE"}]
    BY DEF RoutingInv, TypeOK, Probe
  <2> QED BY <1>2, <2>1 DEF RoutingInv, TypeOK
<1>4. MachineInStep'
  BY <1>2 DEF RoutingInv, MachineInStep, StandsAt
<1>5. Decided'
  BY <1>1, <1>2 DEF Decided, Going, InGateway
<1>6. AttemptsInStep' /\ ResultInStep'
  BY <1>2 DEF RoutingInv, AttemptsInStep, ResultInStep, Justifies
<1>7. AnswersJudged' /\ NothingRefused'
  BY <1>2 DEF RoutingInv, AnswersJudged, NothingRefused
<1> QED BY <1>3, <1>4, <1>5, <1>6, <1>7 DEF RoutingInv

(* The service ends a call itself: nothing was tried, nothing is running.  *)
LEMMA RefuseKeeps ==
    ASSUME RoutingInv, phase = "probing", NEW status \in Statuses \ {"ACCEPTED"}, NEW code \in Codes, Refuse(status, code),
           UNCHANGED <<call, asked, machine, now, deadlineAt, target, timeout, answer, attempts, lingering>>,
           TypeOK => decision'.selected \in Providers \cup {None} /\ decision'.eligible \subseteq Providers
                     /\ plan' \in [Purposes -> Providers \cup {None}],
           decision' = NoDecision \/ DecisionMade',
           decision'.reason = "SELECTED" => code \notin Configuration,
           call.registry = ProductionRegistry /\ call.policies = ProductionPolicies =>
              /\ code # "PRE_DISPATCH_FAILED"
              /\ decision'.policy # None => (decision'.policy.id = 1 <=> call.caller = "runtime")
    PROVE  RoutingInv'
<1>1. /\ phase' = "done" /\ result'.code = code /\ result'.accepted = None
      /\ result'.status \in Statuses \ {"ACCEPTED"} /\ result' \in Results
      /\ call.caller = "continuation" => result'.disposition = "FAILED"
  BY DEF Refuse, Result, DispositionOf, Results, Statuses
<1>2. machine = <<"INITIAL">> /\ Len(machine) = 1 /\ attempts = <<>> /\ lingering = {}
  <2>1. machine = <<"INITIAL">>
    BY DEF RoutingInv, MachineInStep
  <2> QED BY <2>1 DEF RoutingInv, AttemptsInStep, ResultInStep
<1>3. TypeOK'
  BY <1>1 DEF RoutingInv, TypeOK
<1>4. MachineInStep'
  BY <1>1, <1>2 DEF MachineInStep
<1>5. Decided'
  BY <1>1 DEF Decided, Going, InGateway
<1>6. AttemptsInStep'
  BY <1>1, <1>2 DEF AttemptsInStep
<1>7. ResultInStep'
  BY <1>1, <1>2 DEF ResultInStep
<1>8. AnswersJudged'
  BY <1>1, <1>2 DEF AnswersJudged
<1>9. NothingRefused'
  BY <1>1, <1>2 DEF NothingRefused
<1> QED BY <1>3, <1>4, <1>5, <1>6, <1>7, <1>8, <1>9 DEF RoutingInv

LEMMA RefuseFactsKeeps ==
    ASSUME RoutingInv, RefuseFacts
    PROVE  RoutingInv'
<1>1. decision = NoDecision /\ plan = NoPlan /\ phase = "probing"
  BY DEF RoutingInv, Decided, RefuseFacts
<1>2. NoDecision.reason # "SELECTED" /\ NoDecision.policy = None
  BY DEF NoDecision
<1>3. "CONFIGURATION_FAILED" \in Statuses \ {"ACCEPTED"} /\ "ROUTING_CONFIGURATION_MISMATCH" \in Codes
      /\ "ROUTING_CONFIGURATION_MISMATCH" # "PRE_DISPATCH_FAILED"
  BY DEF Statuses, Codes, Configuration
<1>4. Refuse("CONFIGURATION_FAILED", "ROUTING_CONFIGURATION_MISMATCH")
      /\ UNCHANGED <<call, asked, decision, plan, machine, now, deadlineAt, target, timeout, answer, attempts, lingering>>
  BY DEF RefuseFacts
<1>5. TypeOK => decision'.selected \in Providers \cup {None} /\ decision'.eligible \subseteq Providers
                     /\ plan' \in [Purposes -> Providers \cup {None}]
  BY <1>4 DEF TypeOK
<1> QED BY <1>1, <1>2, <1>3, <1>4, <1>5, RefuseKeeps

LEMMA SelectAndPlanKeeps ==
    ASSUME RoutingInv, SelectAndPlan
    PROVE  RoutingInv'
<1>1. PICK d : /\ d = Select(call.registry, available, call.policies, Context[call.caller])
               /\ decision' = d /\ plan' = Planned(d)
               /\ \/ /\ d.reason # "SELECTED"
                     /\ Refuse(IF d.reason = "POLICY_NOT_MATCHED" THEN "CONFIGURATION_FAILED" ELSE "EXECUTION_FAILED",
                               d.reason)
                  \/ /\ d.reason = "SELECTED" /\ d.selected \notin call.bound
                     /\ Refuse("CONFIGURATION_FAILED", "PROVIDER_BINDING_NOT_FOUND")
                  \/ /\ d.reason = "SELECTED" /\ d.selected \in call.bound
                     /\ ~ TargetsHold(call.registry, available, call.bound, d, profile, plan')
                     /\ Refuse("CONFIGURATION_FAILED", "ROUTING_CONFIGURATION_MISMATCH")
                  \/ /\ plan'.PRIMARY # None
                     /\ TargetsHold(call.registry, available, call.bound, d, profile, plan')
                     /\ IF call.caller = "continuation" /\ (plan'.FALLBACK # None \/ plan'.ESCALATION # None)
                        THEN Refuse("CONFIGURATION_FAILED", "PRE_DISPATCH_FAILED")
                        ELSE phase' = "planned" /\ UNCHANGED result
  BY DEF SelectAndPlan
<1>2. /\ phase = "probing"
      /\ UNCHANGED <<call, asked, machine, now, deadlineAt, target, timeout, answer, attempts, lingering>>
  BY DEF SelectAndPlan
<1>3. /\ call.registry \in Registries /\ call.policies \in Policies /\ call.caller \in Callers
      /\ available \subseteq call.bound
  BY DEF RoutingInv, TypeOK, Calls, available
<1>4. /\ d.eligible \subseteq DOMAIN call.registry \cap available
      /\ d.reason \in {"POLICY_NOT_MATCHED", "NO_ELIGIBLE_PROVIDER", "SELECTED"}
      /\ d.reason = "SELECTED" <=> d.policy # None /\ d.eligible # {}
      /\ d.eligible = {} => d.selected = None
      /\ d.eligible # {} => d.selected \in d.eligible
  BY <1>1, <1>3, SelectChooses
<1>5. d.eligible \subseteq Providers /\ d.selected \in Providers \cup {None}
  BY <1>3, <1>4, RoutingAssumption
<1>6. DecisionMade'
  BY <1>1, <1>2 DEF DecisionMade, available
<1>7. /\ NoPlan \in [Purposes -> Providers \cup {None}]
      /\ NoPlan.PRIMARY = None
  BY DEF NoPlan, Purposes
<1>8. ASSUME d.reason = "SELECTED"
      PROVE  /\ d.selected \in call.bound
             /\ plan' = Plan(call.registry, call.bound, d, profile)
             /\ plan' \in [Purposes -> Providers \cup {None}]
             /\ TargetsHold(call.registry, available, call.bound, d, profile, plan')
             /\ ShapeHolds(plan')
  <2>1. PICK made : made = Plan(call.registry, call.bound, d, profile)
    OBVIOUS
  <2>2. PICK prof : prof = profile
    OBVIOUS
  <2>3. /\ made \in [Purposes -> Providers \cup {None}] /\ d.selected \in call.bound
        /\ TargetsHold(call.registry, available, call.bound, d, prof, made)
        /\ ShapeHolds(made)
    BY <1>1, <1>3, <1>8, <2>1, <2>2, PlanFits
  <2>4. plan' = made
    BY <1>1, <1>8, <2>1, <2>3 DEF Planned
  <2> QED BY <2>1, <2>2, <2>3, <2>4
<1>9. plan' \in [Purposes -> Providers \cup {None}]
  BY <1>1, <1>7, <1>8 DEF Planned
<1>10. call.registry = ProductionRegistry /\ call.policies = ProductionPolicies =>
         /\ d.policy # None => (d.policy.id = 1 <=> call.caller = "runtime")
         /\ call.caller = "continuation" /\ d.reason = "SELECTED" =>
               plan'.FALLBACK = None /\ plan'.ESCALATION = None
  <2>1. CASE call.registry = ProductionRegistry /\ call.policies = ProductionPolicies
    <3>1. /\ d.policy # None => (d.policy.id = 1 <=> call.caller = "runtime")
          /\ call.caller = "continuation" /\ d.reason = "SELECTED" =>
                /\ Plan(ProductionRegistry, call.bound, d, profile).FALLBACK = None
                /\ Plan(ProductionRegistry, call.bound, d, profile).ESCALATION = None
      BY <1>1, <1>3, <2>1, ProductionKeepsApart
    <3> QED BY <1>8, <2>1, <3>1
  <2> QED BY <2>1
<1>11. CASE d.reason # "SELECTED"
  <2>1. /\ d.reason \in Codes /\ d.reason # "PRE_DISPATCH_FAILED"
        /\ (IF d.reason = "POLICY_NOT_MATCHED" THEN "CONFIGURATION_FAILED" ELSE "EXECUTION_FAILED")
               \in Statuses \ {"ACCEPTED"}
    BY <1>4, <1>11 DEF Codes, Statuses
  <2>2. plan' = NoPlan
    BY <1>1, <1>11 DEF Planned
  <2>3. Refuse(IF d.reason = "POLICY_NOT_MATCHED" THEN "CONFIGURATION_FAILED" ELSE "EXECUTION_FAILED", d.reason)
    BY <1>1, <1>7, <1>11, <2>2
  <2> QED BY <1>1, <1>2, <1>5, <1>6, <1>9, <1>10, <1>11, <2>1, <2>3, RefuseKeeps
<1>12. CASE d.reason = "SELECTED" /\ call.caller = "continuation" /\ (plan'.FALLBACK # None \/ plan'.ESCALATION # None)
  <2>1. Refuse("CONFIGURATION_FAILED", "PRE_DISPATCH_FAILED")
    BY <1>1, <1>8, <1>12
  <2>2. "CONFIGURATION_FAILED" \in Statuses \ {"ACCEPTED"} /\ "PRE_DISPATCH_FAILED" \in Codes \ Configuration
    BY DEF Statuses, Codes, Configuration
  <2> QED BY <1>1, <1>2, <1>5, <1>6, <1>9, <1>10, <1>12, <2>1, <2>2, RefuseKeeps
<1>13. CASE /\ d.reason = "SELECTED"
            /\ ~ (call.caller = "continuation" /\ (plan'.FALLBACK # None \/ plan'.ESCALATION # None))
  <2>1. phase' = "planned" /\ result' = result
    BY <1>1, <1>8, <1>13
  <2>2. PlanAccepted'
    <3>1. available' = available /\ profile' = profile
      BY <1>2 DEF available, profile
    <3> QED BY <1>1, <1>2, <1>8, <1>13, <3>1 DEF PlanAccepted
  <2>3. TypeOK'
    BY <1>1, <1>2, <1>5, <1>9, <2>1 DEF RoutingInv, TypeOK
  <2>4. MachineInStep'
    BY <1>2, <2>1 DEF RoutingInv, MachineInStep
  <2>5. Decided'
    BY <1>6, <2>1, <2>2 DEF Decided
  <2>6. result = NoResult /\ result.accepted = None /\ result.code = None
    BY <1>2 DEF RoutingInv, ResultInStep, NoResult
  <2>7. attempts = <<>> /\ target = "PRIMARY" /\ lingering = {}
    BY <1>2 DEF RoutingInv, AttemptsInStep, ResultInStep
  <2>8. AttemptsInStep'
    BY <1>2, <2>1, <2>7 DEF RoutingInv, AttemptsInStep
  <2>9. ResultInStep'
    BY <1>2, <2>1, <2>6, <2>7 DEF RoutingInv, ResultInStep
  <2>10. AnswersJudged'
    BY <1>2, <2>1, <2>6, <2>7 DEF AnswersJudged
  <2>11. NothingRefused'
    BY <1>1, <1>2, <1>10, <2>1, <2>6, NoneIsNoCode DEF NothingRefused, Codes
  <2> QED BY <2>3, <2>4, <2>5, <2>8, <2>9, <2>10, <2>11 DEF RoutingInv
<1> QED BY <1>11, <1>12, <1>13

LEMMA PreflightKeeps ==
    ASSUME RoutingInv, Preflight
    PROVE  RoutingInv'
<1>1. /\ phase = "planned" /\ PlanAccepted /\ machine = <<"INITIAL">>
      /\ target = "PRIMARY" /\ attempts = <<>> /\ result = NoResult
  BY DEF Preflight, RoutingInv, Decided, Going, MachineInStep, AttemptsInStep, ResultInStep
<1>2. /\ Moves("PRIMARY_READY") /\ deadlineAt' = now + Overall /\ phase' = "ready"
      /\ UNCHANGED <<attempts, target, result>>
      /\ UNCHANGED <<call, asked, decision, plan, now, timeout, answer, lingering>>
  BY <1>1 DEF Preflight, PlanAccepted
<1>3. machine' = Append(machine, "PRIMARY_READY")
  BY <1>2 DEF Moves
<1>4. machine' \in Seq(DOMAIN Successors) /\ Len(machine') = 2 /\ machine'[2] = "PRIMARY_READY"
  <2>1. "PRIMARY_READY" \in DOMAIN Successors /\ machine \in Seq(DOMAIN Successors)
    BY DEF Successors, RoutingInv, TypeOK
  <2>2. Len(machine) = 1
    BY <1>1
  <2> HIDE DEF Successors
  <2>3. machine' \in Seq(DOMAIN Successors) /\ Len(machine') = Len(machine) + 1
        /\ machine'[Len(machine) + 1] = "PRIMARY_READY"
    BY <1>3, <2>1
  <2> QED BY <2>2, <2>3
<1>5. TypeOK'
  <2>1. Len(machine') \in 1..(MaxTransitions + 1)
    BY <1>4 DEF MaxTransitions
  <2>2. deadlineAt' \in Nat
    <3>1. now \in Nat /\ Overall \in Nat
      BY RoutingAssumption DEF RoutingInv, TypeOK
    <3> QED BY <1>2, <3>1
  <2> QED BY <1>2, <1>4, <2>1, <2>2 DEF RoutingInv, TypeOK
<1>6. MachineInStep'
  BY <1>1, <1>2, <1>4 DEF MachineInStep, StandsAt, ReadyState
<1>7. Decided'
  BY <1>1, <1>2 DEF RoutingInv, Decided, DecisionMade, PlanAccepted, available, profile
<1>8. AttemptsInStep' /\ ResultInStep'
  BY <1>1, <1>2 DEF RoutingInv, AttemptsInStep, ResultInStep
<1>9. result.accepted = None /\ result.code = None
  BY <1>1 DEF NoResult
<1>10. AnswersJudged'
  BY <1>1, <1>2, <1>9 DEF AnswersJudged
<1>11. NothingRefused'
  BY <1>2, <1>9, NoneIsNoCode DEF RoutingInv, NothingRefused, Codes
<1> QED BY <1>5, <1>6, <1>7, <1>8, <1>10, <1>11 DEF RoutingInv

(* The deadline ends a call that has nothing more to hope for; what was    *)
(* tried before it stays on record.                                        *)
LEMMA NoTimeLeftKeeps ==
    ASSUME RoutingInv, NoTimeLeft
    PROVE  RoutingInv'
<1>1. phase = "ready" /\ Going /\ Finish("EXECUTION_FAILED", "DEADLINE_EXHAUSTED", attempts)
      /\ UNCHANGED <<call, asked, decision, plan, now, deadlineAt, timeout, answer, lingering>>
  BY DEF NoTimeLeft, Going, InGateway
<1>2. PICK made : made = attempts
  OBVIOUS
<1>3. \A i \in DOMAIN made : made[i].reasons \cap Safety = {}
  BY <1>1, <1>2 DEF RoutingInv, AnswersJudged
<1>4. "EXECUTION_FAILED" \in Statuses /\ "DEADLINE_EXHAUSTED" \in Codes \ (Configuration \cup {"PRE_DISPATCH_FAILED"})
  BY DEF Statuses, Codes, Configuration, Operational
<1>5. call.caller = "continuation" => lingering = {}
  BY <1>1 DEF RoutingInv, ResultInStep
<1>6. MayEnd("EXECUTION_FAILED", "DEADLINE_EXHAUSTED", made)
  BY <1>1, <1>2, <1>3, <1>4, <1>5 DEF MayEnd, RoutingInv, TypeOK, AttemptsInStep
<1>7. timeout' \in Nat /\ answer' \subseteq Safety \cup Semantic \cup Operational
  BY <1>1 DEF RoutingInv, TypeOK
<1> QED BY <1>1, <1>2, <1>6, <1>7, EndKeeps

(* Moving on within an attempt: nothing but the machine changes.           *)
LEMMA MoveKeeps ==
    ASSUME RoutingInv, InGateway, NEW to \in {"executing", "returned"},
           to = "executing" <=> phase = "ready", to = "returned" <=> phase = "executing",
           NEW state, state = IF to = "executing" THEN Executing[target] ELSE Validating[target],
           machine' = Append(machine, state), phase' = to,
           UNCHANGED <<call, asked, decision, plan, now, deadlineAt, attempts, target, result, lingering>>,
           timeout' \in Nat, answer' \subseteq Safety \cup Semantic \cup Operational
    PROVE  RoutingInv'
<1>1. target \in Purposes
  BY DEF RoutingInv, TypeOK
<1>2. state \in DOMAIN Successors
  BY <1>1 DEF Purposes, Executing, Validating, Successors
<1>3. machine' \in Seq(DOMAIN Successors) /\ Len(machine') = Len(machine) + 1 /\ machine'[Len(machine')] = state
      /\ Len(machine) \in Nat
  <2>1. machine \in Seq(DOMAIN Successors)
    BY DEF RoutingInv, TypeOK
  <2> HIDE DEF Successors
  <2> QED BY <1>2, <2>1
<1>4. MachineInStep'
  <2>1. CASE to = "executing"
    <3>1. Len(machine) <= IF target = "PRIMARY" THEN 2 ELSE 5
      BY <2>1 DEF RoutingInv, MachineInStep, StandsAt
    <3> QED BY <1>3, <2>1, <3>1 DEF MachineInStep, StandsAt
  <2>2. CASE to = "returned"
    <3>1. Len(machine) <= IF target = "PRIMARY" THEN 3 ELSE 6
      BY <2>2 DEF RoutingInv, MachineInStep, StandsAt
    <3> QED BY <1>3, <2>2, <3>1 DEF MachineInStep, StandsAt
  <2> QED BY <2>1, <2>2
<1>5. TypeOK'
  <2>1. Len(machine) <= 6
    BY <1>3 DEF RoutingInv, MachineInStep, StandsAt
  <2>2. Len(machine') \in 1..(MaxTransitions + 1)
    BY <1>3, <2>1 DEF MaxTransitions
  <2> QED BY <1>3, <2>2 DEF RoutingInv, TypeOK
<1>6. Decided'
  BY DEF RoutingInv, Decided, DecisionMade, PlanAccepted, available, profile, Going, InGateway
<1>7. AttemptsInStep' /\ ResultInStep'
  BY DEF RoutingInv, AttemptsInStep, ResultInStep, InGateway, Justifies
<1>8. result = NoResult /\ result.accepted = None /\ result.code = None
  BY DEF RoutingInv, ResultInStep, InGateway, NoResult
<1>9. AnswersJudged'
  BY <1>8 DEF RoutingInv, AnswersJudged, InGateway
<1>10. NothingRefused'
  BY <1>8, NoneIsNoCode DEF RoutingInv, NothingRefused, Codes
<1> QED BY <1>4, <1>5, <1>6, <1>7, <1>9, <1>10 DEF RoutingInv

(* The state machine lets the attempt go on.                               *)
LEMMA AttemptGoesOn ==
    ASSUME RoutingInv
    PROVE  /\ phase = "ready" => Allows(Executing[target])
           /\ phase = "executing" => Allows(Validating[target])
<1>1. target \in Purposes /\ Len(machine) \in Nat
  BY DEF RoutingInv, TypeOK
<1>2. CASE phase = "ready"
  <2>1. machine[Len(machine)] = ReadyState[target] /\ Len(machine) <= 5
    BY <1>1, <1>2 DEF RoutingInv, MachineInStep, StandsAt
  <2>2. Executing[target] \in Successors[ReadyState[target]]
    BY <1>1 DEF Purposes, Executing, Successors, ReadyState
  <2> QED BY <1>1, <1>2, <2>1, <2>2 DEF Allows, MaxTransitions
<1>3. CASE phase = "executing"
  <2>1. machine[Len(machine)] = Executing[target] /\ Len(machine) <= 6
    BY <1>1, <1>3 DEF RoutingInv, MachineInStep, StandsAt
  <2>2. Validating[target] \in Successors[Executing[target]]
    BY <1>1 DEF Purposes, Executing, Validating, Successors
  <2> QED BY <1>1, <1>3, <2>1, <2>2 DEF Allows, MaxTransitions
<1> QED BY <1>2, <1>3

LEMMA DispatchKeeps ==
    ASSUME RoutingInv, Dispatch
    PROVE  /\ RoutingInv'
           /\ phase' = "executing" /\ timeout' = EffectiveTimeout(call.timeout, Budget)
<1>1. phase = "ready" /\ PlanAccepted /\ Budget >= MinAttempt
      /\ UNCHANGED <<call, asked, decision, plan, now, deadlineAt, answer, lingering>>
  BY DEF Dispatch, RoutingInv, Decided, Going, InGateway
<1>2. plan[target] \in call.bound
  <2>1. plan[target] # None
    <3>1. target = "PRIMARY" => plan[target] # None
      BY <1>1 DEF PlanAccepted, ShapeHolds
    <3> QED BY <1>1, <3>1 DEF RoutingInv, AttemptsInStep
  <2>2. target \in DOMAIN plan
    BY DEF RoutingInv, TypeOK
  <2> QED BY <1>1, <2>1, <2>2 DEF PlanAccepted, TargetsHold
<1>3. Allows(Executing[target])
  BY <1>1, AttemptGoesOn
<1>4. /\ machine' = Append(machine, Executing[target]) /\ phase' = "executing"
      /\ timeout' = EffectiveTimeout(call.timeout, Budget)
      /\ UNCHANGED <<attempts, target, result>>
  BY <1>2, <1>3 DEF Dispatch, Moves
<1>5. timeout' \in Nat
  <2>1. call.timeout \in Timeouts /\ now \in Int /\ deadlineAt \in Int
    BY RoutingAssumption DEF RoutingInv, TypeOK, Calls
  <2>2. call.timeout \in Int /\ Budget \in Int
    BY <2>1, Numbers DEF Budget
  <2> QED BY <1>4, <2>2 DEF EffectiveTimeout
<1>6. answer' \subseteq Safety \cup Semantic \cup Operational
  BY <1>1 DEF RoutingInv, TypeOK
<1>7. PICK state : state = Executing[target]
  OBVIOUS
<1>8. RoutingInv'
  BY <1>1, <1>4, <1>5, <1>6, <1>7, MoveKeeps DEF InGateway
<1> QED BY <1>4, <1>8

LEMMA ProviderReturnsKeeps ==
    ASSUME RoutingInv, ProviderReturns
    PROVE  RoutingInv'
<1>1. phase = "executing" /\ answer' \subseteq Safety \cup Semantic \cup Operational
      /\ UNCHANGED <<call, asked, decision, plan, now, deadlineAt, timeout, lingering>>
  BY CodesAssumption DEF ProviderReturns
<1>2. machine' = Append(machine, Validating[target]) /\ phase' = "returned" /\ UNCHANGED <<attempts, target, result>>
  BY <1>1, AttemptGoesOn DEF ProviderReturns, Moves
<1>3. timeout' \in Nat
  BY <1>1 DEF RoutingInv, TypeOK
<1>4. PICK state : state = Validating[target]
  OBVIOUS
<1> QED BY <1>1, <1>2, <1>3, <1>4, MoveKeeps DEF InGateway

(* What is recorded of an attempt.                                         *)
Recorded(a, made) ==
    /\ a \in AttemptRecords
    /\ made \in Seq(AttemptRecords) /\ Len(made) = Len(attempts) + 1 /\ Len(made) \in 1..MaxAttempts
    /\ made # <<>> /\ DOMAIN made = 1..Len(made)
    /\ made[Len(made)] = a
    /\ \A i \in 1..Len(attempts) : made[i] = attempts[i]
    /\ call.caller = "continuation" => Len(made) <= 1

(* The attempt that a step adds to the audit record is one the invariant   *)
(* allows.                                                                 *)
LEMMA AttemptIsRecorded ==
    ASSUME RoutingInv, phase \in {"executing", "returned"},
           NEW outcome, outcome \in {"PROVIDER_FAILED", "VALIDATION_ACCEPTED", "VALIDATION_REJECTED"},
           NEW code, code \in Codes \cup {None},
           NEW reasons, reasons \in SUBSET (Safety \cup Semantic \cup Operational),
           NEW a, a = Attempt(outcome, code, reasons), NEW made, made = Append(attempts, a)
    PROVE  Recorded(a, made)
<1>1. target \in Purposes /\ attempts \in Seq(AttemptRecords)
  BY DEF RoutingInv, TypeOK
<1>2. plan[target] \in Providers
  <2>1. PlanAccepted
    BY DEF RoutingInv, Decided, Going, InGateway
  <2>2. plan[target] # None
    <3>1. target = "PRIMARY" => plan[target] # None
      BY <2>1 DEF PlanAccepted, ShapeHolds
    <3> QED BY <3>1 DEF RoutingInv, AttemptsInStep
  <2> QED BY <1>1, <2>2 DEF RoutingInv, TypeOK
<1>3. a \in AttemptRecords
  BY <1>1, <1>2 DEF Attempt, AttemptRecords
<1>4. Len(attempts) \in 0..1 /\ (call.caller = "continuation" => Len(attempts) = 0)
  <2>1. PlanAccepted
    BY DEF RoutingInv, Decided, Going, InGateway
  <2>2. Len(attempts) \in 0..1
    <3>1. CASE target = "PRIMARY"
      <4>1. attempts = <<>>
        BY <3>1 DEF RoutingInv, AttemptsInStep
      <4> QED BY <4>1
    <3>2. CASE target # "PRIMARY"
      BY <3>2 DEF RoutingInv, AttemptsInStep
    <3> QED BY <3>1, <3>2
  <2>3. ASSUME call.caller = "continuation"
        PROVE  Len(attempts) = 0
    <3>1. target = "PRIMARY"
      BY <1>1, <2>1, <2>3 DEF RoutingInv, AttemptsInStep, PlanAccepted, Purposes
    <3>2. attempts = <<>>
      BY <3>1 DEF RoutingInv, AttemptsInStep
    <3> QED BY <3>2
  <2> QED BY <2>2, <2>3
<1>5. /\ made \in Seq(AttemptRecords) /\ Len(made) = Len(attempts) + 1
      /\ made[Len(made)] = a /\ DOMAIN made = 1..Len(made)
      /\ \A i \in 1..Len(attempts) : made[i] = attempts[i]
  <2> HIDE DEF AttemptRecords
  <2> QED BY <1>1, <1>3
<1>6. Len(made) \in 1..MaxAttempts /\ made # <<>>
  BY <1>4, <1>5 DEF MaxAttempts
<1> QED BY <1>3, <1>4, <1>5, <1>6 DEF Recorded

LEMMA ProviderThrowsKeeps ==
    ASSUME RoutingInv, ProviderThrows
    PROVE  RoutingInv'
<1> DEFINE Made(code) == Append(attempts, Attempt("PROVIDER_FAILED", code, {}))
           Fate(code) ==
             IF code \in FallbackAllowed /\ MayHop("FALLBACK", Made(code)) THEN Hop("FALLBACK", Made(code))
             ELSE Finish(TerminalStatus(code), code, Made(code))
<1>1. PICK kind \in DOMAIN ProviderFailure :
        /\ lingering' \in IF kind \in {"TIMEOUT", "EXECUTION_FAILED"}
                          THEN {lingering, lingering \cup {plan[target]}} ELSE {lingering}
        /\ Fate(ProviderFailure[kind])
  BY DEF ProviderThrows
<1>2. phase = "executing" /\ Going /\ PlanAccepted
      /\ UNCHANGED <<call, asked, decision, plan, now, deadlineAt, timeout, answer>>
  BY DEF ProviderThrows, RoutingInv, Decided, Going, InGateway
<1>3. PICK code : code = ProviderFailure[kind] /\ Fate(code)
  <2> HIDE DEF Fate
  <2> QED BY <1>1
<1>4. /\ code \in (Operational \cap Codes) \ (Configuration \cup Safety \cup {"PRE_DISPATCH_FAILED", None})
      /\ kind \in {"TIMEOUT", "EXECUTION_FAILED"} => code \in Uncertain
  BY <1>3, ProviderCodes
<1>5. PICK a : a = Attempt("PROVIDER_FAILED", code, {})
  OBVIOUS
<1>6. PICK made : /\ made = Append(attempts, a)
                  /\ IF code \in FallbackAllowed /\ MayHop("FALLBACK", made) THEN Hop("FALLBACK", made)
                     ELSE Finish(TerminalStatus(code), code, made)
  BY <1>3, <1>5
<1>7. /\ a \in AttemptRecords
      /\ made \in Seq(AttemptRecords) /\ Len(made) = Len(attempts) + 1 /\ Len(made) \in 1..MaxAttempts
      /\ made # <<>> /\ DOMAIN made = 1..Len(made) /\ made[Len(made)] = a
      /\ \A i \in 1..Len(attempts) : made[i] = attempts[i]
      /\ call.caller = "continuation" => Len(made) <= 1
  <2>1. /\ a = Attempt("PROVIDER_FAILED", code, {}) /\ made = Append(attempts, a)
        /\ code \in Codes \cup {None} /\ phase \in {"executing", "returned"}
        /\ {} \in SUBSET (Safety \cup Semantic \cup Operational)
    BY <1>2, <1>4, <1>5, <1>6
  <2>2. Recorded(a, made)
    BY <2>1, AttemptIsRecorded
  <2> QED BY <2>2 DEF Recorded
<1>8. a.provider = plan[target] /\ a.outcome = "PROVIDER_FAILED" /\ a.code = code /\ a.reasons = {}
  BY <1>5 DEF Attempt
<1>9. lingering' \subseteq Providers
  <2>1. lingering \subseteq Providers
    BY DEF RoutingInv, TypeOK
  <2>2. plan[target] \in Providers
    <3>1. a.provider \in Providers
      BY <1>7 DEF AttemptRecords
    <3> QED BY <1>8, <3>1
  <2> QED BY <1>1, <2>1, <2>2
<1>10. timeout' \in Nat /\ answer' \subseteq Safety \cup Semantic \cup Operational
  BY <1>2 DEF RoutingInv, TypeOK
<1>11. made = Append(attempts, a)
  BY <1>6
<1>12. CASE code \in FallbackAllowed /\ MayHop("FALLBACK", made)
  <2>1. Hop("FALLBACK", made)
    BY <1>12, <1>6
  <2> QED BY <1>2, <1>4, <1>7, <1>8, <1>9, <1>10, <1>12, <1>11, <2>1, HopKeeps
<1>13. CASE ~ (code \in FallbackAllowed /\ MayHop("FALLBACK", made))
  <2>1. PICK status : status = TerminalStatus(code)
    OBVIOUS
  <2>2. Finish(status, code, made)
    BY <1>13, <1>6, <2>1
  <2>3. status \in Statuses \ {"ACCEPTED"}
    BY <2>1, TerminalStatuses
  <2>4. ASSUME NEW i \in DOMAIN made
        PROVE  /\ made[i].outcome = "VALIDATION_ACCEPTED" => made[i].reasons = {} /\ made[i].code = None
               /\ made[i].reasons \cap Safety = {}
    <3>1. CASE i = Len(made)
      BY <1>7, <1>8, <3>1
    <3>2. CASE i # Len(made)
      <4>1. i \in 1..Len(attempts) /\ i \in DOMAIN attempts /\ made[i] = attempts[i]
        BY <1>7, <2>4, <3>2 DEF RoutingInv, TypeOK
      <4> QED BY <1>2, <4>1 DEF RoutingInv, AttemptsInStep, AnswersJudged
    <3> QED BY <3>1, <3>2
  <2>5. call.caller = "continuation" /\ lingering' # {} => code \in Uncertain
    BY <1>1, <1>2, <1>4 DEF RoutingInv, ResultInStep
  <2>6. MayEnd(status, code, made)
    BY <1>4, <1>7, <1>9, <2>3, <2>4, <2>5 DEF MayEnd
  <2> QED BY <1>2, <1>10, <2>2, <2>6, EndKeeps
<1> QED BY <1>12, <1>13

(* What a judged answer may end the call with.                             *)
LEMMA JudgedMayEnd ==
    ASSUME RoutingInv, phase = "returned", UNCHANGED lingering,
           NEW a, NEW made, Recorded(a, made), a.outcome = "VALIDATION_ACCEPTED" => a.reasons = {} /\ a.code = None,
           NEW status \in Statuses, NEW code \in (Codes \ (Configuration \cup {"PRE_DISPATCH_FAILED"})) \cup {None},
           a.reasons \cap Safety # {} => status = "SAFETY_BLOCKED",
           status = "ACCEPTED" => a.outcome = "VALIDATION_ACCEPTED" /\ code = None /\ now < deadlineAt
    PROVE  MayEnd(status, code, made)
<1>1. ASSUME NEW i \in DOMAIN made
      PROVE  /\ made[i].outcome = "VALIDATION_ACCEPTED" => made[i].reasons = {} /\ made[i].code = None
             /\ made[i].reasons \cap Safety # {} => i = Len(made) /\ status = "SAFETY_BLOCKED"
  <2>1. CASE i = Len(made)
    BY <2>1 DEF Recorded
  <2>2. CASE i # Len(made)
    <3>1. i \in 1..Len(attempts) /\ i \in DOMAIN attempts /\ made[i] = attempts[i]
      BY <1>1, <2>2 DEF Recorded, RoutingInv, TypeOK
    <3> QED BY <3>1 DEF RoutingInv, AttemptsInStep, AnswersJudged
  <2> QED BY <2>1, <2>2
<1>2. lingering' \subseteq Providers /\ (call.caller = "continuation" => lingering' = {})
  BY DEF RoutingInv, TypeOK, ResultInStep
<1>3. Len(made) <= MaxAttempts
  BY DEF Recorded, MaxAttempts
<1> QED BY <1>1, <1>2, <1>3 DEF MayEnd, Recorded

LEMMA JudgeKeeps ==
    ASSUME RoutingInv, Judge
    PROVE  RoutingInv'
<1> DEFINE Outcome(code) == IF code = None THEN "VALIDATION_ACCEPTED" ELSE "VALIDATION_REJECTED"
           Fate(reasons, code, made) ==
             CASE code \in Safety -> Finish("SAFETY_BLOCKED", code, made)
               [] code \notin Safety /\ now >= deadlineAt -> Finish("EXECUTION_FAILED", "DEADLINE_EXHAUSTED", made)
               [] code = None /\ now < deadlineAt -> Finish("ACCEPTED", None, made)
               [] OTHER ->
                    IF code \in FallbackAllowed /\ MayHop("FALLBACK", made) THEN Hop("FALLBACK", made)
                    ELSE IF Escalates(code, reasons) /\ MayHop("ESCALATION", made) THEN Hop("ESCALATION", made)
                    ELSE IF code = "SEMANTIC_VALIDATION_FAILED"
                         THEN Finish("HUMAN_REVIEW_REQUIRED", "SEMANTIC_VALIDATION_UNRESOLVED", made)
                    ELSE Finish(TerminalStatus(code), code, made)
<1>1. PICK reasons : reasons = Reasons(profile, answer)
  OBVIOUS
<1>2. PICK code : code = ValidationFailure(reasons)
  OBVIOUS
<1>3. PICK a : a = Attempt(Outcome(code), code, reasons)
  OBVIOUS
<1>4. PICK made : made = Append(attempts, a)
  OBVIOUS
<1>5. Fate(reasons, code, made)
  BY <1>1, <1>2, <1>3, <1>4 DEF Judge
<1>6. phase = "returned" /\ Going /\ answer' = {}
      /\ UNCHANGED <<call, asked, decision, plan, now, deadlineAt, timeout, lingering>>
  BY DEF Judge, Going, InGateway
<1>7. reasons \subseteq Safety \cup Semantic \cup Operational
  <2>1. answer \subseteq Safety \cup Semantic \cup Operational /\ call.caller \in Callers
    BY DEF RoutingInv, TypeOK, Calls
  <2> QED BY <1>1, <2>1, ReasonsAreTyped DEF profile
<1>8. /\ code = None <=> reasons = {}
      /\ code \in Safety <=> reasons \cap Safety # {}
      /\ code \in (Codes \ (Configuration \cup {"PRE_DISPATCH_FAILED"})) \cup {None}
      /\ Disposition(reasons) = "ESCALATE" => reasons \cap Semantic # {}
  BY <1>2, <1>7, FailureCodes
<1>9. Recorded(a, made)
  <2>1. reasons \in SUBSET (Safety \cup Semantic \cup Operational) /\ code \in Codes \cup {None}
        /\ Outcome(code) \in {"PROVIDER_FAILED", "VALIDATION_ACCEPTED", "VALIDATION_REJECTED"}
    BY <1>7, <1>8
  <2> HIDE DEF Outcome
  <2> QED BY <1>3, <1>4, <1>6, <2>1, AttemptIsRecorded
<1>10. /\ a.provider = plan[target] /\ a.reasons = reasons /\ a.code = code
       /\ a.outcome = IF code = None THEN "VALIDATION_ACCEPTED" ELSE "VALIDATION_REJECTED"
  BY <1>3 DEF Attempt
<1> HIDE DEF Outcome
<1>11. timeout' \in Nat /\ answer' \subseteq Safety \cup Semantic \cup Operational
  BY <1>6 DEF RoutingInv, TypeOK
<1>12. {"SAFETY_BLOCKED", "EXECUTION_FAILED", "ACCEPTED", "HUMAN_REVIEW_REQUIRED"} \subseteq Statuses
  BY DEF Statuses
<1>13. {"DEADLINE_EXHAUSTED", "SEMANTIC_VALIDATION_UNRESOLVED"} \subseteq Codes \ (Configuration \cup {"PRE_DISPATCH_FAILED"})
  BY DEF Codes, Configuration, Operational
<1>14. ASSUME NEW status, NEW c, Finish(status, c, made), MayEnd(status, c, made)
       PROVE  RoutingInv'
  BY <1>6, <1>11, <1>14, EndKeeps
<1>15. CASE code \in Safety
  <2>1. Finish("SAFETY_BLOCKED", code, made)
    BY <1>5, <1>15, NoneIsNoCode
  <2>2. MayEnd("SAFETY_BLOCKED", code, made)
    BY <1>6, <1>8, <1>9, <1>10, <1>12, <1>15, JudgedMayEnd
  <2> QED BY <1>14, <2>1, <2>2
<1>16. CASE code \notin Safety /\ now >= deadlineAt
  <2>1. Finish("EXECUTION_FAILED", "DEADLINE_EXHAUSTED", made)
    <3>1. ~ (now < deadlineAt)
      BY <1>16 DEF RoutingInv, TypeOK
    <3> QED BY <1>5, <1>16, <3>1
  <2>2. MayEnd("EXECUTION_FAILED", "DEADLINE_EXHAUSTED", made)
    BY <1>6, <1>8, <1>9, <1>10, <1>12, <1>13, <1>16, JudgedMayEnd
  <2> QED BY <1>14, <2>1, <2>2
<1>17. CASE code = None /\ ~ (now >= deadlineAt)
  <2>1. now < deadlineAt
    BY <1>17 DEF RoutingInv, TypeOK
  <2>2. Finish("ACCEPTED", None, made)
    BY <1>5, <1>17, <2>1, NoneIsNoCode
  <2>3. MayEnd("ACCEPTED", None, made)
    BY <1>6, <1>8, <1>9, <1>10, <1>12, <1>17, <2>1, JudgedMayEnd
  <2> QED BY <1>14, <2>2, <2>3
<1>18. CASE code \notin Safety /\ ~ (now >= deadlineAt) /\ code # None
  <2>1. IF code \in FallbackAllowed /\ MayHop("FALLBACK", made) THEN Hop("FALLBACK", made)
        ELSE IF Escalates(code, reasons) /\ MayHop("ESCALATION", made) THEN Hop("ESCALATION", made)
        ELSE IF code = "SEMANTIC_VALIDATION_FAILED"
             THEN Finish("HUMAN_REVIEW_REQUIRED", "SEMANTIC_VALIDATION_UNRESOLVED", made)
        ELSE Finish(TerminalStatus(code), code, made)
    BY <1>5, <1>18
  <2> HIDE DEF Fate
  <2>2. a \in AttemptRecords
    BY <1>9 DEF Recorded
  <2>3. CASE code \in FallbackAllowed /\ MayHop("FALLBACK", made)
    <3>1. Hop("FALLBACK", made) /\ code \in Operational
      BY <2>1, <2>3, ProviderFailures
    <3> QED BY <1>4, <1>6, <1>8, <1>10, <1>11, <1>18, <2>2, <2>3, <3>1, HopKeeps DEF RoutingInv, TypeOK
  <2>4. CASE ~ (code \in FallbackAllowed /\ MayHop("FALLBACK", made)) /\ Escalates(code, reasons) /\ MayHop("ESCALATION", made)
    <3>1. Hop("ESCALATION", made) /\ reasons \cap Semantic # {}
      BY <1>8, <2>1, <2>4 DEF Escalates
    <3> QED BY <1>4, <1>6, <1>8, <1>10, <1>11, <1>18, <2>2, <2>4, <3>1, HopKeeps DEF RoutingInv, TypeOK
  <2>5. CASE ~ (code \in FallbackAllowed /\ MayHop("FALLBACK", made)) /\ ~ (Escalates(code, reasons) /\ MayHop("ESCALATION", made))
    <3>1. CASE code = "SEMANTIC_VALIDATION_FAILED"
      <4>1. Finish("HUMAN_REVIEW_REQUIRED", "SEMANTIC_VALIDATION_UNRESOLVED", made)
        BY <2>1, <2>5, <3>1
      <4>2. MayEnd("HUMAN_REVIEW_REQUIRED", "SEMANTIC_VALIDATION_UNRESOLVED", made)
        BY <1>6, <1>8, <1>9, <1>10, <1>12, <1>13, <1>18, JudgedMayEnd
      <4> QED BY <1>14, <4>1, <4>2
    <3>2. CASE code # "SEMANTIC_VALIDATION_FAILED"
      <4>1. PICK status : status = TerminalStatus(code)
        OBVIOUS
      <4>2. Finish(status, code, made) /\ status \in Statuses \ {"ACCEPTED"}
        BY <2>1, <2>5, <3>2, <4>1, TerminalStatuses
      <4>3. MayEnd(status, code, made)
        BY <1>6, <1>8, <1>9, <1>10, <1>18, <4>2, JudgedMayEnd
      <4> QED BY <1>14, <4>2, <4>3
    <3> QED BY <3>1, <3>2
  <2> QED BY <2>3, <2>4, <2>5
<1> QED BY <1>8, <1>15, <1>16, <1>17, <1>18, NoneIsNoCode

LEMMA TickKeeps ==
    ASSUME RoutingInv, Tick
    PROVE  RoutingInv'
<1>1. /\ InGateway /\ now < MaxNow /\ now' = now + 1
      /\ UNCHANGED <<call, asked, decision, plan, machine, deadlineAt, target, timeout, answer, attempts, phase,
                     result, lingering>>
  BY DEF Tick, InGateway
<1>2. TypeOK'
  <2>1. now' \in 0..MaxNow
    BY <1>1, RoutingAssumption DEF RoutingInv, TypeOK
  <2> QED BY <1>1, <2>1 DEF RoutingInv, TypeOK
<1>3. MachineInStep'
  BY <1>1 DEF RoutingInv, MachineInStep, StandsAt
<1>4. Decided'
  BY <1>1 DEF RoutingInv, Decided, DecisionMade, PlanAccepted, available, profile, Going, InGateway
<1>5. AttemptsInStep' /\ ResultInStep'
  BY <1>1 DEF RoutingInv, AttemptsInStep, ResultInStep, Justifies
<1>6. result = NoResult /\ result.accepted = None
  BY <1>1 DEF RoutingInv, ResultInStep, InGateway, NoResult
<1>7. AnswersJudged' /\ NothingRefused'
  BY <1>1, <1>6 DEF RoutingInv, AnswersJudged, NothingRefused
<1> QED BY <1>2, <1>3, <1>4, <1>5, <1>7 DEF RoutingInv

LEMMA StutterKeeps ==
    ASSUME RoutingInv, UNCHANGED vars
    PROVE  RoutingInv'
<1> USE DEF vars
<1>1. TypeOK' /\ MachineInStep'
  BY DEF RoutingInv, TypeOK, MachineInStep, StandsAt
<1>2. Decided'
  BY DEF RoutingInv, Decided, DecisionMade, PlanAccepted, available, profile, Going, InGateway
<1>3. AttemptsInStep' /\ ResultInStep'
  BY DEF RoutingInv, AttemptsInStep, ResultInStep, Justifies
<1>4. AnswersJudged' /\ NothingRefused'
  BY DEF RoutingInv, AnswersJudged, NothingRefused
<1> QED BY <1>1, <1>2, <1>3, <1>4 DEF RoutingInv

(* Every step of the gateway keeps the invariant.                          *)
LEMMA RoutingStep ==
    ASSUME RoutingInv, [Next]_vars
    PROVE  RoutingInv'
<1>1. ASSUME NEW p \in Providers, Probe(p)
      PROVE  RoutingInv'
  BY <1>1, ProbeKeeps
<1>2. CASE RefuseFacts
  BY <1>2, RefuseFactsKeeps
<1>3. CASE SelectAndPlan
  BY <1>3, SelectAndPlanKeeps
<1>4. CASE Preflight
  BY <1>4, PreflightKeeps
<1>5. CASE NoTimeLeft
  BY <1>5, NoTimeLeftKeeps
<1>6. CASE Dispatch
  BY <1>6, DispatchKeeps
<1>7. CASE ProviderReturns
  BY <1>7, ProviderReturnsKeeps
<1>8. CASE ProviderThrows
  BY <1>8, ProviderThrowsKeeps
<1>9. CASE Judge
  BY <1>9, JudgeKeeps
<1>10. CASE Tick
  BY <1>10, TickKeeps
<1>11. CASE UNCHANGED vars
  BY <1>11, StutterKeeps
<1> QED BY <1>1, <1>2, <1>3, <1>4, <1>5, <1>6, <1>7, <1>8, <1>9, <1>10, <1>11 DEF Next

(* A step of the receiver is a step of the routing, or leaves it alone.    *)
LEMMA ReceiverStep ==
    ASSUME [NextReceiver]_allVars
    PROVE  [Next]_vars
  BY DEF NextReceiver, allVars, Compose, Route, Routing, Answered, Persist, Close

(* Every state of a call, with a receiver or without, is as the invariant  *)
(* says.                                                                   *)
THEOREM RoutingInvariant == SpecReceiver => []RoutingInv
<1>1. InitReceiver => RoutingInv
  BY InitKeeps DEF InitReceiver
<1>2. RoutingInv /\ [NextReceiver]_allVars => RoutingInv'
  BY ReceiverStep, RoutingStep
<1> QED BY <1>1, <1>2, PTL DEF SpecReceiver

(* The state of a call is well formed: at most two attempts and eight      *)
(* states of the machine, whatever the providers do.                       *)
THEOREM TypeCorrect == SpecReceiver => []TypeOK
<1>1. RoutingInv => TypeOK
  BY DEF RoutingInv
<1> QED BY <1>1, RoutingInvariant, PTL

(* Whatever the answers: an unsafe one is the last of its call and blocks  *)
(* it, and the one passed on breaks no rule and came before the deadline.  *)
THEOREM AnswersAreJudged == SpecReceiver => []AnswersJudged
<1>1. RoutingInv => AnswersJudged
  BY DEF RoutingInv
<1> QED BY <1>1, RoutingInvariant, PTL

(* Whatever the configuration: once a provider is selected, no assertion   *)
(* of the planner, the gateway or its state machine fires; and in the      *)
(* production configuration the callers stay apart.                        *)
THEOREM NothingIsRefused == SpecReceiver => []NothingRefused
<1>1. RoutingInv => NothingRefused
  BY DEF RoutingInv
<1> QED BY <1>1, RoutingInvariant, PTL

-----------------------------------------------------------------------------
(* Whom a call asks.                                                       *)

(* Only the dispatch of an attempt starts a provider.                      *)
LEMMA OnlyDispatchExecutes ==
    ASSUME [Next]_vars, phase # "executing", phase' = "executing"
    PROVE  Dispatch
<1>1. \A status, code, made : Finish(status, code, made) => phase' = "done"
  BY DEF Finish, Thrown
<1>2. \A purpose, made : Hop(purpose, made) => phase' \in {"ready", "done"}
  BY DEF Hop, Thrown
<1>3. /\ \A p : ~ Probe(p)
      /\ ~ RefuseFacts /\ ~ SelectAndPlan /\ ~ Tick /\ ~ UNCHANGED vars
  BY DEF Probe, RefuseFacts, SelectAndPlan, Refuse, Tick, vars
<1>4. ~ Preflight /\ ~ NoTimeLeft
  BY <1>1 DEF Preflight, NoTimeLeft
<1>5. ~ ProviderReturns
  BY DEF ProviderReturns, Thrown
<1>6. ~ ProviderThrows
  BY DEF ProviderThrows
<1>7. ~ Judge
  BY <1>1, <1>2 DEF Judge
<1> QED BY <1>3, <1>4, <1>5, <1>6, <1>7 DEF Next

(* What the invariant says of a dispatch.                                  *)
LEMMA DispatchJustified ==
    ASSUME RoutingInv, Dispatch
    PROVE  LET p == plan[target] IN
           /\ asked[p] = "AVAILABLE" /\ call.registry[p].enabled
           /\ timeout' >= 1 /\ now + timeout' + Reserve <= deadlineAt
           /\ target = "PRIMARY" <=> attempts = <<>>
           /\ \A i \in DOMAIN attempts :
                 /\ attempts[i].provider # p
                 /\ attempts[i].reasons \cap Safety = {}
                 /\ target = "FALLBACK" => attempts[i].code \in Operational
                 /\ target = "ESCALATION" => /\ attempts[i].reasons \cap Semantic # {}
                                             /\ Stronger(call.registry, profile, p, attempts[i].provider)
<1>1. phase = "ready" /\ PlanAccepted /\ Budget >= MinAttempt /\ target \in DOMAIN plan /\ target \in Purposes
  BY DEF Dispatch, RoutingInv, Decided, Going, InGateway, TypeOK
<1>2. timeout' = EffectiveTimeout(call.timeout, Budget)
  BY DispatchKeeps
<1>3. plan[target] # None
  <2>1. target = "PRIMARY" => plan[target] # None
    BY <1>1 DEF PlanAccepted, ShapeHolds
  <2> QED BY <1>1, <2>1 DEF RoutingInv, AttemptsInStep
<1>4. asked[plan[target]] = "AVAILABLE" /\ call.registry[plan[target]].enabled
  BY <1>1, <1>3 DEF PlanAccepted, TargetsHold, available
<1>5. timeout' >= 1 /\ now + timeout' + Reserve <= deadlineAt
  <2>1. call.timeout \in Timeouts /\ now \in Int /\ deadlineAt \in Int
    BY RoutingAssumption DEF RoutingInv, TypeOK, Calls
  <2> QED BY <1>1, <1>2, <2>1, Numbers DEF EffectiveTimeout, Budget
<1>6. target = "PRIMARY" <=> attempts = <<>>
  BY <1>1 DEF RoutingInv, AttemptsInStep
<1>7. ASSUME NEW i \in DOMAIN attempts
      PROVE  /\ attempts[i].provider # plan[target]
             /\ attempts[i].reasons \cap Safety = {}
             /\ target = "FALLBACK" => attempts[i].code \in Operational
             /\ target = "ESCALATION" => /\ attempts[i].reasons \cap Semantic # {}
                                         /\ Stronger(call.registry, profile, plan[target], attempts[i].provider)
  <2>1. attempts # <<>> /\ target # "PRIMARY"
    <3>1. attempts # <<>>
      BY <1>7 DEF RoutingInv, TypeOK
    <3> QED BY <1>6, <3>1
  <2>2. Len(attempts) = 1 /\ Justifies(attempts[1])
    BY <1>1, <2>1 DEF RoutingInv, AttemptsInStep
  <2>3. i = 1
    BY <1>7, <2>2 DEF RoutingInv, TypeOK
  <2>4. attempts[i].provider = plan.PRIMARY
    BY <2>2, <2>3 DEF Justifies
  <2>5. plan.PRIMARY # plan[target]
    <3>1. "PRIMARY" \in DOMAIN plan
      BY DEF RoutingInv, TypeOK, Purposes
    <3> QED BY <1>1, <1>3, <2>1, <3>1 DEF PlanAccepted, ShapeHolds
  <2>6. target = "ESCALATION" => Stronger(call.registry, profile, plan[target], plan.PRIMARY)
    BY <1>1, <1>3 DEF PlanAccepted, TargetsHold
  <2> QED BY <2>2, <2>3, <2>4, <2>5, <2>6 DEF Justifies
<1> QED BY <1>4, <1>5, <1>6, <1>7

(* Whatever the registry and the policies: a provider is called only if it *)
(* said it is available and was not asked in this call, in time, and a     *)
(* second one only for the reason its purpose is for.                      *)
THEOREM DispatchesAreJustified == SpecReceiver => DispatchIsJustified
<1>1. RoutingInv /\ [NextReceiver]_allVars =>
        [phase # "executing" /\ phase' = "executing" =>
          LET p == plan[target] IN
          /\ asked[p] = "AVAILABLE" /\ call.registry[p].enabled
          /\ timeout' >= 1 /\ now + timeout' + Reserve <= deadlineAt
          /\ target = "PRIMARY" <=> attempts = <<>>
          /\ \A i \in DOMAIN attempts :
                /\ attempts[i].provider # p
                /\ attempts[i].reasons \cap Safety = {}
                /\ target = "FALLBACK" => attempts[i].code \in Operational
                /\ target = "ESCALATION" => /\ attempts[i].reasons \cap Semantic # {}
                                            /\ Stronger(call.registry, profile, p, attempts[i].provider)]_vars
  <2> SUFFICES ASSUME RoutingInv, [NextReceiver]_allVars, phase # "executing", phase' = "executing"
               PROVE  LET p == plan[target] IN
                      /\ asked[p] = "AVAILABLE" /\ call.registry[p].enabled
                      /\ timeout' >= 1 /\ now + timeout' + Reserve <= deadlineAt
                      /\ target = "PRIMARY" <=> attempts = <<>>
                      /\ \A i \in DOMAIN attempts :
                            /\ attempts[i].provider # p
                            /\ attempts[i].reasons \cap Safety = {}
                            /\ target = "FALLBACK" => attempts[i].code \in Operational
                            /\ target = "ESCALATION" =>
                                  /\ attempts[i].reasons \cap Semantic # {}
                                  /\ Stronger(call.registry, profile, p, attempts[i].provider)
    OBVIOUS
  <2>1. Dispatch
    BY ReceiverStep, OnlyDispatchExecutes
  <2> QED BY <2>1, DispatchJustified
<1> QED BY <1>1, RoutingInvariant, PTL DEF SpecReceiver, DispatchIsJustified

-----------------------------------------------------------------------------
(* The receiver of a continuation.                                         *)

(* The audit of an ended call is complete, and never contradicts itself.   *)
LEMMA AuditIsSound ==
    ASSUME RoutingInv, phase = "done", call.caller = "continuation"
    PROVE  /\ AuditHolds(Audit)
           /\ Audit.status = "ACCEPTED" <=> result.disposition = "ACCEPTED"
           /\ Audit.status # "ACCEPTED" => Audit.accepted = None
           /\ Audit.known /\ Audit.evidence # "UNKNOWN"
<1>1. ~ Threw
  <2>1. Len(machine) = 1 \/ machine[Len(machine)] = "TERMINAL"
    BY DEF RoutingInv, MachineInStep
  <2> QED BY <2>1 DEF Threw
<1>2. /\ attempts \in Seq(AttemptRecords) /\ Len(attempts) \in 0..1
      /\ DOMAIN attempts = 1..Len(attempts)
  <2>1. attempts \in Seq(AttemptRecords)
    BY DEF RoutingInv, TypeOK
  <2>2. Len(attempts) <= 1
    BY DEF RoutingInv, AttemptsInStep
  <2> HIDE DEF AttemptRecords
  <2>3. Len(attempts) \in Nat
    BY <2>1
  <2>4. DOMAIN attempts = 1..Len(attempts)
    BY <2>1
  <2>5. Len(attempts) \in 0..1
    <3>1. \A n \in Nat : n <= 1 => n \in 0..1
      OBVIOUS
    <3> QED BY <2>2, <2>3, <3>1, Zenon
  <2> QED BY <2>1, <2>4, <2>5, Zenon
<1>3. /\ Mapped = [i \in 1..Len(attempts) |-> MapAttempt(attempts[i])]
      /\ Len(Mapped) = Len(attempts) /\ DOMAIN Mapped = 1..Len(attempts)
      /\ Mapped = <<>> <=> Len(attempts) = 0
  <2>1. Mapped = [i \in 1..Len(attempts) |-> MapAttempt(attempts[i])]
    BY <1>1, <1>2 DEF Mapped
  <2>2. Len(Mapped) = Len(attempts) /\ DOMAIN Mapped = 1..Len(attempts)
    BY <1>2, <2>1
  <2> QED BY <1>2, <2>1, <2>2
<1>4. \A i \in DOMAIN Mapped :
        /\ i = 1 /\ Mapped[i].path = "PRIMARY"
        /\ Mapped[i].provider = attempts[i].provider /\ Mapped[i].outcome = attempts[i].outcome
        /\ Mapped[i].reasons = attempts[i].reasons
        /\ Mapped[i].code = ContinuationCode(attempts[i].code)
        /\ Mapped[i].outcome # "PROVIDER_FAILED" => Mapped[i].evidence = "RETURNED"
  BY <1>2, <1>3 DEF MapAttempt
<1>5. \A i \in DOMAIN attempts :
        attempts[i].outcome = "VALIDATION_ACCEPTED" => attempts[i].reasons = {} /\ attempts[i].code = None
  BY DEF RoutingInv, AttemptsInStep
<1>6. ContinuationCode(None) = None
  BY DEF ContinuationCode
<1>7. \A i \in DOMAIN Mapped : AttemptHolds(Mapped[i], i)
  BY <1>2, <1>3, <1>4, <1>5, <1>6 DEF AttemptHolds
<1>8. TransitionsKept <= 7
  <2>1. IsFiniteSet(Returned)
    <3>1. IsFiniteSet(1..Len(attempts))
      BY <1>2, FS_Interval
    <3>2. Returned \subseteq 1..Len(attempts)
      BY <1>3 DEF Returned
    <3> QED BY <3>1, <3>2, FS_Subset
  <2>2. Cardinality(Returned) \in Nat
    BY <2>1, FS_CardinalityType
  <2>3. Len(Mapped) + Cardinality(Returned) \in Nat
    BY <1>2, <1>3, <2>2
  <2> QED BY <2>3 DEF TransitionsKept
<1>9. /\ result.disposition \in {"ACCEPTED", "FAILED", "UNRESOLVED"}
      /\ result.disposition = "ACCEPTED" <=> result.status = "ACCEPTED"
      /\ result.accepted # None <=> result.status = "ACCEPTED"
      /\ result.status = "ACCEPTED" => result.code = None /\ attempts # <<>>
  BY DEF RoutingInv, ResultInStep
<1>10. /\ Audit.status = IF result.disposition = "UNRESOLVED" THEN "EXECUTION_FAILED" ELSE result.status
       /\ Audit.code = IF result.status = "PRE_DISPATCH_FAILED" THEN result.code ELSE ContinuationCode(result.code)
       /\ Audit.known = TRUE /\ Audit.attempts = Mapped /\ Audit.accepted = result.accepted
       /\ Audit.evidence = Evidence /\ Audit.transitions = TransitionsKept
  BY <1>1 DEF Audit
<1>11. Audit.status = "ACCEPTED" <=> result.disposition = "ACCEPTED"
  BY <1>9, <1>10
<1>12. Evidence \in {"DISPATCHED", "RETURNED", "NOT_DISPATCHED"} /\ (Evidence = "NOT_DISPATCHED" => Mapped = <<>>)
  BY <1>1 DEF Evidence
<1>13. ASSUME result.disposition = "ACCEPTED"
       PROVE  /\ Audit.code = None /\ Evidence = "RETURNED" /\ Mapped # <<>>
              /\ Mapped[Len(Mapped)].outcome = "VALIDATION_ACCEPTED"
              /\ result.accepted = Mapped[Len(Mapped)].provider
  <2>1. result.status = "ACCEPTED" /\ result.code = None /\ result.accepted # None /\ attempts # <<>>
    BY <1>9, <1>13
  <2>2. Len(attempts) = 1
    BY <1>2, <2>1
  <2>3. attempts[1].outcome = "VALIDATION_ACCEPTED" /\ attempts[1].provider = result.accepted
    BY <2>1, <2>2 DEF RoutingInv, AnswersJudged
  <2>4. /\ Len(Mapped) = 1 /\ 1 \in DOMAIN Mapped /\ Mapped[1].outcome = "VALIDATION_ACCEPTED"
        /\ Mapped[1].evidence = "RETURNED" /\ Mapped[1].provider = result.accepted /\ Mapped # <<>>
    BY <1>2, <1>3, <1>4, <2>2, <2>3
  <2>5. Returned # {}
    BY <2>4 DEF Returned
  <2>6. Evidence = "RETURNED"
    BY <1>1, <1>13, <2>5 DEF Evidence
  <2> QED BY <1>6, <1>10, <2>1, <2>4, <2>6
<1>14. AuditHolds(Audit)
  <2>1. CASE result.disposition = "ACCEPTED"
    BY <1>2, <1>3, <1>7, <1>8, <1>10, <1>11, <1>12, <1>13, <2>1 DEF AuditHolds
  <2>2. CASE result.disposition # "ACCEPTED"
    BY <1>2, <1>3, <1>7, <1>8, <1>9, <1>10, <1>11, <1>12, <2>2 DEF AuditHolds
  <2> QED BY <2>1, <2>2
<1> QED BY <1>9, <1>10, <1>11, <1>12, <1>14

(* What the execution service makes of a report about an ended call.       *)
LEMMA ReportIsJudged ==
    ASSUME RoutingInv, phase = "done", call.caller = "continuation"
    PROVE  /\ result.disposition = "FAILED" => OutcomeHolds("FAILED", Audit)
           /\ result.disposition = "ACCEPTED" => OutcomeHolds("SUCCEEDED", Audit) /\ ~ OutcomeHolds("FAILED", Audit)
  BY AuditIsSound DEF OutcomeHolds

LEMMA ReceiverInitKeeps == InitReceiver => ReceiverInv
<1> SUFFICES ASSUME InitReceiver PROVE ReceiverInv
  OBVIOUS
<1>1. call.caller \in {"runtime", "continuation"} /\ phase = "probing"
  BY DEF InitReceiver, Init, Calls, Callers
<1> QED BY <1>1 DEF InitReceiver, ReceiverInv

(* Every step of the gateway and its receiver keeps the invariant of the   *)
(* receiver.                                                               *)
LEMMA ReceiverKeeps ==
    ASSUME RoutingInv, ReceiverInv, [NextReceiver]_allVars
    PROVE  ReceiverInv'
<1>1. call.caller \in {"runtime", "continuation"}
  BY DEF RoutingInv, TypeOK, Calls, Callers
<1>2. CASE Compose
  <2>1. UNCHANGED vars /\ UNCHANGED <<call, phase, result, machine, attempts>>
    BY <1>2 DEF Compose, vars
  <2>2. stage = "composing" /\ phase = "probing" /\ artifact = "none" /\ run = "STARTED"
    BY <1>2 DEF Compose, ReceiverInv
  <2> QED BY <1>2, <2>1, <2>2 DEF Compose, Report, ReceiverInv
<1>3. CASE Route
  <2>1. stage \in {"none", "routing"} /\ Next /\ UNCHANGED <<stage, reported, artifact, run>>
    BY <1>3 DEF Route, Routing, rvars
  <2>2. call' = call
    BY <2>1 DEF Next, Probe, RefuseFacts, SelectAndPlan, Preflight, NoTimeLeft, Dispatch, ProviderReturns,
                ProviderThrows, Judge, Tick
  <2> QED BY <2>1, <2>2 DEF ReceiverInv
<1>4. CASE Answered
  <2>1. UNCHANGED <<call, phase, result, machine, attempts, artifact, run>>
    BY <1>4 DEF Answered, vars
  <2>2. stage = "routing" /\ phase = "done" /\ artifact = "none" /\ run = "STARTED"
    BY <1>4 DEF Answered, ReceiverInv
  <2>3. CASE result.disposition \in {"UNRESOLVED", "FAILED"} /\ Report(result.disposition, TRUE)
    <3>1. stage' = "reported" /\ reported' = [disposition |-> result.disposition, audited |-> TRUE]
      BY <2>3 DEF Report
    <3>2. Told' /\ reported'.audited
      BY <2>1, <2>2, <2>3, <3>1 DEF Told
    <3> QED BY <1>1, <2>1, <2>2, <3>1, <3>2 DEF ReceiverInv
  <2>4. CASE result.disposition = "ACCEPTED" /\ stage' = "persisting" /\ UNCHANGED reported
    BY <2>1, <2>2, <2>4 DEF ReceiverInv
  <2> QED BY <1>4, <2>3, <2>4 DEF Answered
<1>5. CASE Persist
  <2>1. UNCHANGED <<call, phase, result, machine, attempts, run>>
    BY <1>5 DEF Persist, vars
  <2>2. stage = "persisting" /\ phase = "done" /\ result.disposition = "ACCEPTED" /\ run = "STARTED"
    BY <1>5 DEF Persist, ReceiverInv
  <2>3. stage' = "reported" /\ reported'.audited /\ Told'
    BY <1>5, <2>1, <2>2 DEF Persist, Report, Told
  <2> QED BY <2>1, <2>2, <2>3 DEF ReceiverInv
<1>6. CASE Close
  <2>1. UNCHANGED <<call, phase, result, machine, attempts, reported, artifact>>
    BY <1>6 DEF Close, vars
  <2>2. stage = "reported" /\ stage' = "closed" /\ run = "STARTED"
    BY <1>6 DEF Close, ReceiverInv
  <2>3. run' = IF Believed THEN reported.disposition ELSE run
    BY <1>6 DEF Close, Believed
  <2>4. Believed' = Believed /\ Told' = Told
    <3>1. Audit' = Audit
      BY <2>1 DEF Audit, Evidence, TransitionsKept, Returned, Mapped, Threw
    <3> QED BY <2>1, <3>1 DEF Believed, Told
  <2> QED BY <2>1, <2>2, <2>3, <2>4 DEF ReceiverInv
<1>7. CASE UNCHANGED allVars
  <2>1. UNCHANGED <<call, phase, result, machine, attempts, stage, reported, artifact, run>>
    BY <1>7 DEF allVars, vars, rvars
  <2>2. Believed' = Believed /\ Told' = Told
    <3>1. Audit' = Audit
      BY <2>1 DEF Audit, Evidence, TransitionsKept, Returned, Mapped, Threw
    <3> QED BY <2>1, <3>1 DEF Believed, Told
  <2> QED BY <2>1, <2>2 DEF ReceiverInv
<1> QED BY <1>2, <1>3, <1>4, <1>5, <1>6, <1>7 DEF NextReceiver

(* What a report says is what the call ended with, for every configuration *)
(* and every answer.                                                       *)
THEOREM ReceiverInvariant == SpecReceiver => []ReceiverInv
  BY RoutingInvariant, ReceiverInitKeeps, ReceiverKeeps, PTL DEF SpecReceiver

(* An attempt is closed as FAILED, so that another may be started, only    *)
(* when no provider's work can still be going on.                          *)
THEOREM FailedIsSettled == SpecReceiver => []FailedMeansSettled
<1>1. RoutingInv /\ ReceiverInv => FailedMeansSettled
  <2> SUFFICES ASSUME RoutingInv, ReceiverInv, run = "FAILED" PROVE lingering = {}
    BY DEF FailedMeansSettled
  <2>1. stage = "closed" /\ Believed /\ reported.disposition = "FAILED" /\ call.caller = "continuation"
    <3>1. call.caller \in {"runtime", "continuation"}
      BY DEF RoutingInv, TypeOK, Calls, Callers
    <3> QED BY <3>1 DEF ReceiverInv
  <2>2. CASE ~ reported.audited
    BY <2>1, <2>2 DEF ReceiverInv, RoutingInv, ResultInStep
  <2>3. CASE reported.audited
    <3>1. phase = "done" /\ Told /\ OutcomeHolds("FAILED", Audit)
      BY <2>1, <2>3 DEF ReceiverInv, Believed
    <3>2. result.disposition # "ACCEPTED"
      BY <2>1, <3>1, ReportIsJudged
    <3>3. result.disposition = "FAILED"
      BY <2>1, <3>1, <3>2 DEF Told
    <3> QED BY <2>1, <3>3 DEF RoutingInv, ResultInStep
  <2> QED BY <2>2, <2>3
<1> QED BY <1>1, RoutingInvariant, ReceiverInvariant, PTL

(* The audits never contradict the reports: a known end is believed.       *)
THEOREM ReportsAreTaken == SpecReceiver => []ReportsAreBelieved
<1>1. RoutingInv /\ ReceiverInv => ReportsAreBelieved
  <2> SUFFICES ASSUME RoutingInv, ReceiverInv, stage = "closed", artifact # "lost"
               PROVE  run = IF reported.disposition = "UNRESOLVED" THEN "STARTED" ELSE reported.disposition
    BY DEF ReportsAreBelieved
  <2>1. call.caller = "continuation"
    <3>1. call.caller \in {"runtime", "continuation"}
      BY DEF RoutingInv, TypeOK, Calls, Callers
    <3> QED BY <3>1 DEF ReceiverInv
  <2>2. CASE ~ reported.audited
    BY <2>2 DEF ReceiverInv, Believed
  <2>3. CASE reported.audited
    <3>1. phase = "done" /\ Told
      BY <2>3 DEF ReceiverInv
    <3>2. reported.disposition # "UNRESOLVED" => OutcomeHolds(reported.disposition, Audit)
      BY <2>1, <3>1, ReportIsJudged DEF Told
    <3> QED BY <3>2 DEF ReceiverInv, Believed
  <2> QED BY <2>2, <2>3
<1> QED BY <1>1, RoutingInvariant, ReceiverInvariant, PTL
=============================================================================
