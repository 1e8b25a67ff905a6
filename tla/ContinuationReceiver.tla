------------------------- MODULE ContinuationReceiver -----------------------
(***************************************************************************)
(* What becomes of a routed call when a continuation attempt made it:      *)
(* ProviderBackedContinuationReceiver writes the prompt, has it routed and *)
(* keeps the answer as an artifact; the audit of the routing goes with its *)
(* report; and ContinuationReceiverExecutionService believes the report    *)
(* only if snapshotReceiverOutcome finds nothing in it that contradicts    *)
(* it. The attempt was started before, and is closed here. A chat turn     *)
(* (stage "none") has no receiver.                                         *)
(***************************************************************************)
EXTENDS ProviderRouting

VARIABLES
    stage,         \* "none", "composing", "routing", "persisting", "reported", "closed"
    reported,      \* disposition the receiver reports, with the audit or without
    artifact,      \* "none", "saved", "lost"
    run            \* status of the attempt's TaskRun

rvars == <<stage, reported, artifact, run>>
allVars == <<vars, rvars>>

-----------------------------------------------------------------------------
(* The audit of a routed call.                                             *)

Unmapped == {"POLICY_NOT_MATCHED", "NO_ELIGIBLE_PROVIDER", "PRE_DISPATCH_FAILED"}
ContinuationCode(code) == IF code \in Unmapped THEN None ELSE code

Threw == Len(machine) > 1 /\ machine[Len(machine)] # "TERMINAL"

MapAttempt(a) ==
    [path |-> "PRIMARY", provider |-> a.provider, outcome |-> a.outcome,
     code |-> ContinuationCode(a.code), reasons |-> a.reasons,
     evidence |-> IF a.outcome = "PROVIDER_FAILED" THEN "DISPATCHED" ELSE "RETURNED"]

Mapped == IF Threw THEN <<>> ELSE [i \in DOMAIN attempts |-> MapAttempt(attempts[i])]
Returned == {i \in DOMAIN Mapped : Mapped[i].evidence = "RETURNED"}

EvidenceSlip ==
    CASE Threw -> "UNKNOWN"
      [] ~ Threw /\ Returned # {} -> "RETURNED"
      [] OTHER -> "NOT_DISPATCHED"

Evidence ==
    CASE Threw -> "UNKNOWN"
      [] ~ Threw /\ result.disposition = "UNRESOLVED" -> "DISPATCHED"
      [] ~ Threw /\ result.disposition # "UNRESOLVED" /\ Returned # {} -> "RETURNED"
      [] ~ Threw /\ Returned = {} /\ Mapped # <<>> -> "DISPATCHED"
      [] OTHER -> "NOT_DISPATCHED"

(* One transition for a call to a provider, one for its return; at least   *)
(* one, and the newest seven.                                              *)
TransitionsKept ==
    LET n == Len(Mapped) + Cardinality(Returned)
    IN  CASE n = 0 -> 1 [] n > 7 -> 7 [] OTHER -> n

Audit ==
    [status |-> IF result.disposition = "UNRESOLVED" THEN "EXECUTION_FAILED" ELSE result.status,
     code |-> IF Threw THEN None
              ELSE IF result.status = "PRE_DISPATCH_FAILED" THEN result.code
              ELSE ContinuationCode(result.code),
     known |-> ~ Threw, attempts |-> Mapped, accepted |-> result.accepted,
     evidence |-> Evidence, transitions |-> TransitionsKept]

-----------------------------------------------------------------------------
(* What the execution service believes.                                    *)

(* projectAttempt(): the second attempt is never the primary path, and an  *)
(* accepted one has nothing against it.                                    *)
AttemptHolds(a, i) ==
    /\ a.path \in IF i = 1 THEN {"PRIMARY"} ELSE {"FALLBACK", "ESCALATION"}
    /\ a.outcome = "VALIDATION_ACCEPTED" => a.reasons = {} /\ a.code = None /\ a.evidence = "RETURNED"

(* projectAudit().                                                         *)
AuditHolds(a) ==
    /\ Len(a.attempts) <= 2 /\ a.transitions <= 7
    /\ ~ a.known => a.attempts = <<>>
    /\ \A i \in DOMAIN a.attempts : AttemptHolds(a.attempts[i], i)
    /\ a.evidence = "NOT_DISPATCHED" => a.known /\ a.attempts = <<>>
    /\ \/ /\ a.status = "ACCEPTED"
          /\ a.known /\ a.code = None /\ a.evidence = "RETURNED" /\ a.attempts # <<>>
          /\ LET last == a.attempts[Len(a.attempts)]
             IN  last.outcome = "VALIDATION_ACCEPTED" /\ a.accepted = last.provider
       \/ a.status # "ACCEPTED" /\ a.accepted = None

(* snapshotReceiverOutcome(): no disposition with evidence against it.     *)
OutcomeHolds(disposition, audit) ==
    /\ AuditHolds(audit)
    /\ CASE disposition = "SUCCEEDED" -> audit.status = "ACCEPTED"
         [] disposition = "FAILED" ->
              /\ audit.status # "ACCEPTED" /\ audit.accepted = None
              /\ audit.known /\ audit.evidence # "UNKNOWN"
         [] OTHER -> audit.status # "ACCEPTED" /\ audit.accepted = None

-----------------------------------------------------------------------------
NoReport == [disposition |-> "NONE", audited |-> FALSE]

InitReceiver ==
    /\ Init
    /\ stage = (IF call.caller = "continuation" THEN "composing" ELSE "none")
    /\ reported = NoReport /\ artifact = "none" /\ run = "STARTED"

Report(disposition, audited) ==
    /\ stage' = "reported"
    /\ reported' = [disposition |-> disposition, audited |-> audited]

(* The prompt is written from the handoff, or refused for its facts before *)
(* anything was sent. Any other throw is not a definite failure.           *)
Compose ==
    /\ stage = "composing"
    /\ \/ stage' = "routing" /\ UNCHANGED reported
       \/ Report("FAILED", FALSE)
       \/ Report("UNRESOLVED", FALSE)
    /\ UNCHANGED <<vars, artifact, run>>

(* A chat turn calls the routing directly.                                 *)
Routing(A) == stage \in {"none", "routing"} /\ A /\ UNCHANGED rvars
Route == Routing(Next)

(* The routing has answered.                                               *)
Answered ==
    /\ stage = "routing" /\ phase = "done"
    /\ \/ result.disposition \in {"UNRESOLVED", "FAILED"} /\ Report(result.disposition, TRUE)
       \/ result.disposition = "ACCEPTED" /\ stage' = "persisting" /\ UNCHANGED reported
    /\ UNCHANGED <<vars, artifact, run>>

(* The answer is saved as one artifact, or the save fails.                 *)
Persist ==
    /\ stage = "persisting"
    /\ \/ artifact' = "saved" /\ Report("SUCCEEDED", TRUE)
       \/ artifact' = "lost" /\ Report("FAILED", TRUE)
    /\ UNCHANGED <<vars, run>>

(* A report is believed and ends the attempt, or leaves it STARTED.        *)
Close ==
    /\ stage = "reported"
    /\ stage' = "closed"
    /\ run' = IF /\ reported.disposition # "UNRESOLVED"
                 /\ reported.audited => OutcomeHolds(reported.disposition, Audit)
              THEN reported.disposition ELSE run
    /\ UNCHANGED <<vars, reported, artifact>>

NextReceiver == Compose \/ Route \/ Answered \/ Persist \/ Close

(* The code goes on by itself; the adapters settle what they promise:      *)
(* isAvailable(), execute() and the storage of the artifact.               *)
Steps == RefuseFacts \/ SelectAndPlan \/ Preflight \/ NoTimeLeft \/ Dispatch \/ Judge
Probes == \E p \in Providers : p \in call.bound /\ Probe(p)
FairnessReceiver ==
    /\ WF_allVars(Routing(Steps))
    /\ WF_allVars(Routing(Probes))
    /\ WF_allVars(Routing(ProviderReturns \/ ProviderThrows))
    /\ WF_allVars(Compose \/ Answered \/ Persist \/ Close)

SpecReceiver == InitReceiver /\ [][NextReceiver]_allVars /\ FairnessReceiver

-----------------------------------------------------------------------------
(* Properties.                                                             *)

(* A continuation's attempt is closed as FAILED, so that another may be    *)
(* started, only when no provider's work can still be going on.            *)
FailedMeansSettled == run = "FAILED" => lingering = {}

(* The attempt is closed as the receiver reported it: the audits that the  *)
(* routing builds never contradict themselves or the report, so that a     *)
(* known end does not stay unresolved. An accepted answer whose artifact   *)
(* could not be saved is the exception: the receiver reports FAILED with   *)
(* an accepted audit, which is refused, and the attempt stays STARTED.     *)
ReportsAreBelieved ==
    stage = "closed" /\ artifact # "lost" =>
        run = (IF reported.disposition = "UNRESOLVED" THEN "STARTED" ELSE reported.disposition)

(* Every routed call ends, whatever the providers answer and however late, *)
(* and every attempt of a continuation is closed or found unresolved.      *)
CallsEnd == <>(stage = "closed" \/ (stage = "none" /\ phase = "done"))
=============================================================================
