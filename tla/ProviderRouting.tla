--------------------------- MODULE ProviderRouting --------------------------
(***************************************************************************)
(* One call routed to a provider: RuntimeProviderRoutingService (a chat    *)
(* turn) or ContinuationProviderRoutingService (a continuation attempt),   *)
(* and the ProviderRoutingGateway they run.                                *)
(*                                                                         *)
(* Calls share nothing but immutable configuration, so one is modelled.    *)
(* What happens beside it is time, and the provider: the clock may tick    *)
(* between any two steps, and a provider settles when and how it likes.    *)
(* An answer is the set of the rules it breaks. Digests and versions of a  *)
(* configuration, equal for as long as the process lives, are left out.    *)
(***************************************************************************)
EXTENDS RoutingPlan

CONSTANTS
    Registries,    \* provider registries, policy configurations and
    Policies,      \* executable bindings the service may be built with
    Bindings,
    Answers,       \* what an answer may get wrong: sets of reason codes
    Timeouts,      \* of a request, in ticks
    Overall, Reserve, MinAttempt,   \* the deadline budget, in ticks
    MaxNow                          \* bound of the clock

ASSUME RoutingAssumption ==
    /\ \A r \in Registries :
          /\ DOMAIN r \subseteq Providers /\ IsFiniteSet(DOMAIN r)
          /\ \A p \in DOMAIN r : r[p] \in Descriptors
    /\ \A c \in Policies : ValidPolicies(c)
    /\ Timeouts \subseteq Nat \ {0}
    /\ {Overall, Reserve, MinAttempt} \subseteq Nat \ {0}
    /\ Reserve + MinAttempt <= Overall
    /\ MaxNow \in Nat

VARIABLES
    call,          \* who routes, over what; fixed for the whole call
    asked,         \* isAvailable() of each binding, as it settles
    decision,      \* of the policy engine
    plan,
    machine,       \* the states the gateway went through
    now,
    deadlineAt,
    target,        \* purpose of the attempt being made
    timeout,       \* what its provider was given
    answer,        \* what its provider returned, not judged yet
    attempts,
    phase,         \* "probing", "planned", "ready", "executing", "returned", "done"
    result,
    lingering      \* providers whose failed work nobody saw end

vars == <<call, asked, decision, plan, machine, now, deadlineAt, target, timeout, answer,
          attempts, phase, result, lingering>>

Purposes == {"PRIMARY", "FALLBACK", "ESCALATION"}
MaxAttempts == 2
MaxTransitionsSlip == 6
MaxTransitions == 7

-----------------------------------------------------------------------------
(* Failures.                                                               *)

(* The kind a provider throws. Whatever is not an AiProviderError counts   *)
(* as EXECUTION_FAILED.                                                    *)
ProviderFailure ==
    [UNAVAILABLE |-> "PROVIDER_UNAVAILABLE", AUTH_REQUIRED |-> "PROVIDER_AUTH_REQUIRED",
     TIMEOUT |-> "PROVIDER_TIMEOUT", EXECUTION_FAILED |-> "PROVIDER_EXECUTION_FAILED",
     EMPTY_OUTPUT |-> "EMPTY_OUTPUT"]

Operational == {ProviderFailure[k] : k \in DOMAIN ProviderFailure} \cup {"OUTPUT_LIMIT_VIOLATION", "DEADLINE_EXHAUSTED"}
FallbackAllowed == {ProviderFailure[k] : k \in DOMAIN ProviderFailure}
Safety == {"PROMPT_LEAK", "MULTI_ENTRY_ECHO", "SECRET_EXPOSURE_RISK", "VALIDATOR_INTERNAL_FAILURE"}
Semantic == {"RECENCY_GROUNDING_VIOLATION", "AUTHORITY_SCOPE_VIOLATION"}
Configuration == {"ROUTING_CONFIGURATION_MISMATCH", "PROVIDER_BINDING_NOT_FOUND"}

Codes == Operational \cup Safety \cup Configuration \cup
             {"SEMANTIC_VALIDATION_FAILED", "SEMANTIC_VALIDATION_UNRESOLVED", "POLICY_NOT_MATCHED",
              "NO_ELIGIBLE_PROVIDER", "PRE_DISPATCH_FAILED"}

ASSUME CodesAssumption ==
    /\ Answers \subseteq SUBSET (Safety \cup Semantic \cup Operational)
    /\ None \notin Codes

ValidatorBreaks == {"VALIDATOR_INTERNAL_FAILURE"}

(* The validator runs every rule of the profile, or breaks.                *)
Reasons(profile, breaks) ==
    IF breaks = ValidatorBreaks THEN breaks ELSE breaks \cap profile.rules

Disposition(reasons) ==
    IF reasons = {} THEN "ACCEPT"
    ELSE IF reasons \cap Safety = {} /\ reasons \cap Semantic # {} THEN "ESCALATE"
    ELSE "REJECT"

ValidationFailureSlip(reasons) ==
    CASE reasons = {} -> None
      [] reasons \cap Operational # {} -> CHOOSE code \in reasons \cap Operational : TRUE
      [] reasons \cap Operational = {} /\ reasons \cap Safety # {} -> CHOOSE code \in reasons \cap Safety : TRUE
      [] OTHER -> "SEMANTIC_VALIDATION_FAILED"

(* Safety comes before what is operational, and that before the rest.      *)
ValidationFailure(reasons) ==
    CASE reasons = {} -> None
      [] "VALIDATOR_INTERNAL_FAILURE" \in reasons -> "VALIDATOR_INTERNAL_FAILURE"
      [] "PROMPT_LEAK" \in reasons -> "PROMPT_LEAK"
      [] "MULTI_ENTRY_ECHO" \in reasons -> "MULTI_ENTRY_ECHO"
      [] "SECRET_EXPOSURE_RISK" \in reasons -> "SECRET_EXPOSURE_RISK"
      [] reasons \cap Safety = {} /\ reasons \cap Operational # {} ->
            IF "EMPTY_OUTPUT" \in reasons THEN "EMPTY_OUTPUT" ELSE "OUTPUT_LIMIT_VIOLATION"
      [] OTHER -> "SEMANTIC_VALIDATION_FAILED"

TerminalStatus(code) ==
    CASE code \in Configuration -> "CONFIGURATION_FAILED"
      [] code \in Safety -> "SAFETY_BLOCKED"
      [] code \in {"EMPTY_OUTPUT", "OUTPUT_LIMIT_VIOLATION", "SEMANTIC_VALIDATION_FAILED"} -> "REJECTED"
      [] code = "SEMANTIC_VALIDATION_UNRESOLVED" -> "HUMAN_REVIEW_REQUIRED"
      [] OTHER -> "EXECUTION_FAILED"

-----------------------------------------------------------------------------
(* Who calls: the context it routes for and the profile it plans with.     *)

Callers == {"runtime", "continuation"}
ProfileOf == [runtime |-> Profile.GENERAL_CHAT, continuation |-> Profile.AUTHORITY_SENSITIVE]

Context ==
    [runtime |-> [requestType |-> "CONVERSATIONAL", validationProfile |-> "GENERAL_CHAT", requires |-> {"chat"}],
     continuation |-> [requestType |-> "WORK", validationProfile |-> "AUTHORITY_SENSITIVE", requires |-> {"chat"}]]

Calls ==
    {c \in [caller : Callers, fits : BOOLEAN, registry : Registries, policies : Policies,
            bound : Bindings, timeout : Timeouts] : ValidBindings(c.registry, c.bound)}

profile == ProfileOf[call.caller]
available == {p \in call.bound : asked[p] = "AVAILABLE"}

NoDecision == [reason |-> "NONE", policy |-> None, eligible |-> {}, selected |-> None]
NoPlan == [p \in Purposes |-> None]
NoResult == [status |-> "NONE", code |-> None, accepted |-> None, disposition |-> "NONE"]

Init ==
    /\ call \in Calls
    /\ asked = [p \in call.bound |-> "ASKING"]
    /\ decision = NoDecision /\ plan = NoPlan
    /\ machine = <<"INITIAL">>
    /\ now = 0 /\ deadlineAt = 0
    /\ target = "PRIMARY" /\ timeout = 0
    /\ answer = {} /\ attempts = <<>>
    /\ phase = "probing" /\ result = NoResult
    /\ lingering = {}

-----------------------------------------------------------------------------
(* What the caller makes of the end of the gateway.                        *)

UncertainSlip ==
    {"PROVIDER_EXECUTION_FAILED", "PROVIDER_UNAVAILABLE", "DEADLINE_EXHAUSTED", "CONTAINMENT_FAILURE"}

(* Once a provider was called, these do not say that its work ended.       *)
Uncertain ==
    {"PROVIDER_TIMEOUT", "PROVIDER_EXECUTION_FAILED", "PROVIDER_UNAVAILABLE", "PROVIDER_SPAWN_FAILED",
     "DEADLINE_EXHAUSTED", "CONTAINMENT_FAILURE", "MODEL_DOWNLOAD_DETECTED"}

DispositionOf(status, code, made) ==
    IF status = "ACCEPTED" THEN "ACCEPTED"
    ELSE IF made # <<>> /\ code \in Uncertain THEN "UNRESOLVED"
    ELSE "FAILED"

Result(status, code, made) ==
    [status |-> status, code |-> code,
     accepted |-> IF status = "ACCEPTED" THEN made[Len(made)].provider ELSE None,
     disposition |-> IF call.caller = "continuation" THEN DispositionOf(status, code, made) ELSE "NONE"]

(* The service ends the call before the gateway is asked.                  *)
Refuse(status, code) ==
    /\ phase' = "done"
    /\ result' = Result(IF call.caller = "continuation" THEN "PRE_DISPATCH_FAILED" ELSE status, code, <<>>)

(* An error out of the gateway: a continuation cannot tell any more        *)
(* whether a provider was called.                                          *)
Thrown ==
    /\ phase' = "done"
    /\ result' = [status |-> "EXECUTION_FAILED", code |-> "PROVIDER_EXECUTION_FAILED", accepted |-> None,
                  disposition |-> IF call.caller = "continuation" THEN "UNRESOLVED" ELSE "NONE"]
    /\ UNCHANGED <<machine, attempts, target>>

Successors ==
    [INITIAL |-> {"PRIMARY_READY", "TERMINAL"},
     PRIMARY_READY |-> {"PRIMARY_EXECUTING", "TERMINAL"},
     PRIMARY_EXECUTING |-> {"PRIMARY_VALIDATING", "FALLBACK_READY", "TERMINAL"},
     PRIMARY_VALIDATING |-> {"FALLBACK_READY", "ESCALATION_READY", "TERMINAL"},
     FALLBACK_READY |-> {"FALLBACK_EXECUTING", "TERMINAL"},
     FALLBACK_EXECUTING |-> {"FALLBACK_VALIDATING", "TERMINAL"},
     FALLBACK_VALIDATING |-> {"TERMINAL"},
     ESCALATION_READY |-> {"ESCALATION_EXECUTING", "TERMINAL"},
     ESCALATION_EXECUTING |-> {"ESCALATION_VALIDATING", "TERMINAL"},
     ESCALATION_VALIDATING |-> {"TERMINAL"},
     TERMINAL |-> {}]

Allows(to) == to \in Successors[machine[Len(machine)]] /\ Len(machine) - 1 < MaxTransitions
Moves(to) == Allows(to) /\ machine' = Append(machine, to)

Ready == [FALLBACK |-> "FALLBACK_READY", ESCALATION |-> "ESCALATION_READY"]
Executing == [PRIMARY |-> "PRIMARY_EXECUTING", FALLBACK |-> "FALLBACK_EXECUTING", ESCALATION |-> "ESCALATION_EXECUTING"]
Validating == [PRIMARY |-> "PRIMARY_VALIDATING", FALLBACK |-> "FALLBACK_VALIDATING", ESCALATION |-> "ESCALATION_VALIDATING"]

(* finish(): the terminal transition, the audit and the caller's mapping.  *)
Finish(status, code, made) ==
    \/ /\ Moves("TERMINAL")
       /\ attempts' = made
       /\ phase' = "done"
       /\ result' = Result(status, code, made)
       /\ UNCHANGED target
    \/ ~ Allows("TERMINAL") /\ Thrown

(* The loop goes round with another target.                                *)
Hop(purpose, made) ==
    \/ /\ Moves(Ready[purpose])
       /\ attempts' = made
       /\ target' = purpose
       /\ phase' = "ready"
       /\ UNCHANGED result
    \/ ~ Allows(Ready[purpose]) /\ Thrown

-----------------------------------------------------------------------------
(* The service.                                                            *)

(* One isAvailable() settles; one that throws counts as unavailable.       *)
Probe(p) ==
    /\ phase = "probing" /\ call.fits
    /\ asked[p] = "ASKING"
    /\ \E a \in {"AVAILABLE", "UNAVAILABLE"} : asked' = [asked EXCEPT ![p] = a]
    /\ UNCHANGED <<call, decision, plan, machine, now, deadlineAt, target, timeout, answer, attempts, phase,
                   result, lingering>>

(* Facts no routing context is for.                                        *)
RefuseFacts ==
    /\ phase = "probing" /\ ~ call.fits
    /\ Refuse("CONFIGURATION_FAILED", "ROUTING_CONFIGURATION_MISMATCH")
    /\ UNCHANGED <<call, asked, decision, plan, machine, now, deadlineAt, target, timeout, answer, attempts, lingering>>

Planned(d) ==
    IF d.reason = "SELECTED" /\ d.selected \in call.bound
    THEN Plan(call.registry, call.bound, d, profile) ELSE NoPlan

(* Every answer is in: select, and plan. A continuation goes on only with  *)
(* a plan that has nobody else in it.                                      *)
SelectAndPlan ==
    /\ phase = "probing" /\ call.fits
    /\ \A p \in call.bound : asked[p] # "ASKING"
    /\ \E d \in {Select(call.registry, available, call.policies, Context[call.caller])} :
          /\ decision' = d
          /\ plan' = Planned(d)
          /\ \/ /\ d.reason # "SELECTED"
                /\ Refuse(IF d.reason = "POLICY_NOT_MATCHED" THEN "CONFIGURATION_FAILED" ELSE "EXECUTION_FAILED", d.reason)
             \/ /\ d.reason = "SELECTED" /\ d.selected \notin call.bound
                /\ Refuse("CONFIGURATION_FAILED", "PROVIDER_BINDING_NOT_FOUND")
             \/ /\ d.reason = "SELECTED" /\ d.selected \in call.bound
                /\ ~ TargetsHold(call.registry, available, call.bound, d, profile, plan')
                /\ Refuse("CONFIGURATION_FAILED", "ROUTING_CONFIGURATION_MISMATCH")
             \/ /\ plan'.PRIMARY # None
                /\ TargetsHold(call.registry, available, call.bound, d, profile, plan')
                /\ IF call.caller = "continuation" /\ (plan'.FALLBACK # None \/ plan'.ESCALATION # None)
                   THEN Refuse("CONFIGURATION_FAILED", "PRE_DISPATCH_FAILED")
                   ELSE phase' = "planned" /\ UNCHANGED result
    /\ UNCHANGED <<call, asked, machine, now, deadlineAt, target, timeout, answer, attempts, lingering>>

-----------------------------------------------------------------------------
(* The gateway.                                                            *)

(* What it checks before anything else; then the deadline is set, once.    *)
Preflight ==
    /\ phase = "planned"
    /\ \/ /\ ~ ShapeHolds(plan)
          /\ Finish("CONFIGURATION_FAILED", "ROUTING_CONFIGURATION_MISMATCH", attempts)
          /\ UNCHANGED deadlineAt
       \/ /\ ShapeHolds(plan)
          /\ Moves("PRIMARY_READY")
          /\ deadlineAt' = now + Overall
          /\ phase' = "ready"
          /\ UNCHANGED <<attempts, target, result>>
    /\ UNCHANGED <<call, asked, decision, plan, now, timeout, answer, lingering>>

BudgetSlip == deadlineAt - now

Budget == deadlineAt - now - Reserve

(* runAttempt() finds too little time left for the provider.               *)
NoTimeLeftSlip ==
    /\ phase = "ready" /\ attempts = <<>> /\ Budget < MinAttempt
    /\ Finish("EXECUTION_FAILED", "DEADLINE_EXHAUSTED", attempts)
    /\ UNCHANGED <<call, asked, decision, plan, now, deadlineAt, timeout, answer, lingering>>

NoTimeLeft ==
    /\ phase = "ready" /\ Budget < MinAttempt
    /\ Finish("EXECUTION_FAILED", "DEADLINE_EXHAUSTED", attempts)
    /\ UNCHANGED <<call, asked, decision, plan, now, deadlineAt, timeout, answer, lingering>>

EffectiveTimeout(requested, budget) ==
    LET least == IF requested < budget THEN requested ELSE budget IN IF least < 0 THEN 0 ELSE least

(* runAttempt(), up to the await of the provider.                          *)
Dispatch ==
    /\ phase = "ready" /\ Budget >= MinAttempt
    /\ \/ /\ plan[target] \notin call.bound
          /\ Finish("CONFIGURATION_FAILED", "PROVIDER_BINDING_NOT_FOUND", attempts)
          /\ UNCHANGED timeout
       \/ /\ plan[target] \in call.bound
          /\ \/ /\ Moves(Executing[target])
                /\ timeout' = EffectiveTimeout(call.timeout, Budget)
                /\ phase' = "executing"
                /\ UNCHANGED <<attempts, target, result>>
             \/ ~ Allows(Executing[target]) /\ Thrown /\ UNCHANGED timeout
    /\ UNCHANGED <<call, asked, decision, plan, now, deadlineAt, answer, lingering>>

Attempt(outcome, code, reasons) ==
    [purpose |-> target, provider |-> plan[target], outcome |-> outcome, code |-> code, reasons |-> reasons]

(* The provider returned.                                                  *)
ProviderReturns ==
    /\ phase = "executing"
    /\ \E a \in Answers : answer' = a
    /\ \/ /\ Moves(Validating[target])
          /\ phase' = "returned"
          /\ UNCHANGED <<attempts, target, result>>
       \/ ~ Allows(Validating[target]) /\ Thrown
    /\ UNCHANGED <<call, asked, decision, plan, now, deadlineAt, timeout, lingering>>

(* Another attempt may be made, by the purpose's rule.                     *)
MayHop(purpose, made) ==
    target = "PRIMARY" /\ plan[purpose] # None /\ Len(made) < MaxAttempts

(* The provider threw. A timeout or a failed execution does not say that   *)
(* its processes are gone.                                                 *)
ProviderThrows ==
    /\ phase = "executing"
    /\ \E kind \in DOMAIN ProviderFailure :
          LET code == ProviderFailure[kind]
              made == Append(attempts, Attempt("PROVIDER_FAILED", code, {}))
          IN  /\ lingering' \in IF kind \in {"TIMEOUT", "EXECUTION_FAILED"}
                                THEN {lingering, lingering \cup {plan[target]}} ELSE {lingering}
              /\ IF code \in FallbackAllowed /\ MayHop("FALLBACK", made)
                 THEN Hop("FALLBACK", made)
                 ELSE Finish(TerminalStatus(code), code, made)
    /\ UNCHANGED <<call, asked, decision, plan, now, deadlineAt, timeout, answer>>

Escalates(code, reasons) ==
    code = "SEMANTIC_VALIDATION_FAILED" /\ Disposition(reasons) = "ESCALATE"

(* An answer is validated, and its fate decided.                           *)
Judge ==
    /\ phase = "returned"
    /\ LET reasons == Reasons(profile, answer)
           code == ValidationFailure(reasons)
           made == Append(attempts, Attempt(IF code = None THEN "VALIDATION_ACCEPTED" ELSE "VALIDATION_REJECTED",
                                            code, reasons))
       IN  CASE code \in Safety -> Finish("SAFETY_BLOCKED", code, made)
             [] code \notin Safety /\ now >= deadlineAt -> Finish("EXECUTION_FAILED", "DEADLINE_EXHAUSTED", made)
             [] code = None /\ now < deadlineAt -> Finish("ACCEPTED", None, made)
             [] OTHER ->
                  IF code \in FallbackAllowed /\ MayHop("FALLBACK", made) THEN Hop("FALLBACK", made)
                  ELSE IF Escalates(code, reasons) /\ MayHop("ESCALATION", made) THEN Hop("ESCALATION", made)
                  ELSE IF code = "SEMANTIC_VALIDATION_FAILED"
                       THEN Finish("HUMAN_REVIEW_REQUIRED", "SEMANTIC_VALIDATION_UNRESOLVED", made)
                  ELSE Finish(TerminalStatus(code), code, made)
    /\ answer' = {}
    /\ UNCHANGED <<call, asked, decision, plan, now, deadlineAt, timeout, lingering>>

Tick ==
    /\ phase \in {"ready", "executing", "returned"} /\ now < MaxNow
    /\ now' = now + 1
    /\ UNCHANGED <<call, asked, decision, plan, machine, deadlineAt, target, timeout, answer, attempts, phase,
                   result, lingering>>

Next ==
    \/ \E p \in Providers : p \in call.bound /\ Probe(p)
    \/ RefuseFacts \/ SelectAndPlan
    \/ Preflight \/ NoTimeLeft \/ Dispatch \/ ProviderReturns \/ ProviderThrows \/ Judge
    \/ Tick

Spec == Init /\ [][Next]_vars

-----------------------------------------------------------------------------
(* Properties.                                                             *)

Statuses == {"ACCEPTED", "REJECTED", "HUMAN_REVIEW_REQUIRED", "EXECUTION_FAILED", "SAFETY_BLOCKED",
             "CONFIGURATION_FAILED", "PRE_DISPATCH_FAILED"}
AttemptRecords ==
    [purpose : Purposes, provider : Providers, outcome : {"PROVIDER_FAILED", "VALIDATION_ACCEPTED", "VALIDATION_REJECTED"},
     code : Codes \cup {None}, reasons : SUBSET (Safety \cup Semantic \cup Operational)]

Results ==
    [status : Statuses \cup {"NONE"}, code : Codes \cup {None}, accepted : Providers \cup {None},
     disposition : {"NONE", "ACCEPTED", "FAILED", "UNRESOLVED"}]

(* The state is well formed: at most two attempts are recorded, and the    *)
(* audit of the transitions holds at most seven.                           *)
TypeOK ==
    /\ call \in Calls
    /\ asked \in [call.bound -> {"ASKING", "AVAILABLE", "UNAVAILABLE"}]
    /\ decision.selected \in Providers \cup {None} /\ decision.eligible \subseteq Providers
    /\ plan \in [Purposes -> Providers \cup {None}]
    /\ machine \in Seq(DOMAIN Successors) /\ Len(machine) \in 1..(MaxTransitions + 1)
    /\ now \in 0..MaxNow /\ deadlineAt \in Nat /\ timeout \in Nat
    /\ target \in Purposes
    /\ answer \subseteq Safety \cup Semantic \cup Operational
    /\ attempts \in Seq(AttemptRecords) /\ Len(attempts) <= MaxAttempts
    /\ phase \in {"probing", "planned", "ready", "executing", "returned", "done"}
    /\ result \in Results
    /\ lingering \subseteq Providers

(* A call to a provider is made only of one that said it is available and  *)
(* that this call has not asked yet, with time to answer and the reserve   *)
(* left to judge it; a second call only when the first failed in the way   *)
(* its purpose is for, and an escalation only to a stronger provider.      *)
DispatchIsJustified ==
    [][phase # "executing" /\ phase' = "executing" =>
          LET p == plan[target] IN
          /\ asked[p] = "AVAILABLE" /\ call.registry[p].enabled
          /\ timeout' >= 1 /\ now + timeout' + Reserve <= deadlineAt
          /\ target = "PRIMARY" <=> attempts = <<>>
          /\ \A i \in DOMAIN attempts :
                /\ attempts[i].provider # p
                /\ attempts[i].reasons \cap Safety = {}
                /\ target = "FALLBACK" => attempts[i].code \in Operational
                /\ target = "ESCALATION" => /\ attempts[i].reasons \cap Semantic # {}
                                            /\ Stronger(call.registry, profile, p, attempts[i].provider)]_vars

(* An answer that echoes a prompt, entries or a secret, or that could not  *)
(* be judged, is the last of its call and blocks it, late or not; an       *)
(* answer that is passed on breaks no rule of the caller's profile and     *)
(* came before the deadline.                                               *)
AnswersJudged ==
    /\ \A i \in DOMAIN attempts : attempts[i].reasons \cap Safety # {} =>
          i = Len(attempts) /\ phase = "done" /\ result.status = "SAFETY_BLOCKED"
    /\ result.accepted # None =>
          LET last == attempts[Len(attempts)] IN
          /\ last.outcome = "VALIDATION_ACCEPTED" /\ last.reasons = {}
          /\ last.provider = result.accepted
          /\ now < deadlineAt

(* Once a provider is selected, none of the assertions the planner, the    *)
(* gateway and its state machine make of one another ever fires: the call  *)
(* does not fail for its configuration, and the longest path still fits in *)
(* the transitions the machine allows. And in the production configuration *)
(* the policies stay apart: a continuation always has a plan of its own.   *)
NothingRefused ==
    /\ decision.reason = "SELECTED" => result.code \notin Configuration
    /\ phase = "done" /\ Len(machine) > 1 => machine[Len(machine)] = "TERMINAL"
    /\ call.registry = ProductionRegistry /\ call.policies = ProductionPolicies =>
          /\ result.code # "PRE_DISPATCH_FAILED"
          /\ decision.policy # None => (decision.policy.id = 1 <=> call.caller = "runtime")
=============================================================================
