------------------------- MODULE PreparedContainment ------------------------
(***************************************************************************)
(* How a contained continuation attempt is prepared: the sole provider is  *)
(* selected, a candidate binds it to one run, profile, instance and model, *)
(* two verification channels look at it, and only what both verified       *)
(* becomes a binding that can be executed and leaves evidence; and how     *)
(* that evidence is read back from a TaskRun row.                          *)
(*                                                                         *)
(* Every step issues an object and keeps it in a registry of the module (a *)
(* WeakSet), and takes only objects found there: a caller may present any  *)
(* other object. A copy with the content of an issued object, which the    *)
(* code also refuses, says nothing its original does not and is not told   *)
(* apart. A digest is what it is computed from. The name of the model, the *)
(* image and the policy travel with the model and the run.                 *)
(***************************************************************************)
EXTENDS FiniteSets, Sequences, Naturals

CONSTANTS
    None,
    Runs,          \* ids of TaskRuns; executionId is one of them too
    Providers, Profiles, Models,
    Tokens,        \* containment instances
    Verifiers,     \* versions of the verifiers
    MaxIssued      \* bound: objects issued of each kind

VARIABLES
    selections, profiles, instances, candidates, bindings, capabilities, prepared,
    answers,       \* what was executed, and on which instance
    audits,        \* evidence projected from prepared executions
    row, read      \* the evidence as stored, and as last read back

registries == <<selections, profiles, instances, candidates, bindings, capabilities, prepared>>
vars == <<registries, answers, audits, row, read>>

-----------------------------------------------------------------------------
Facts == [run : Runs, provider : Providers, profile : Profiles, token : Tokens, model : Models]

(* The five facts only evidence of a prepared execution carries.           *)
PreparedKeys == {"providerBindingDigest", "securityProfileId", "instanceIdentityDigest",
                 "channelAVerifierVersion", "channelBVerifierVersion"}

(* Channel, version of its verifier and what it looked at.                 *)
ChannelDigest(channel, verifier, facts) == <<channel, verifier, facts>>

(* One domain, schema and field order for issuing and for reading back.    *)
BindingDigest(b) == <<b.facts, b.verifiers, b.results>>

Init ==
    /\ selections = {} /\ profiles = {} /\ instances = {} /\ candidates = {}
    /\ bindings = {} /\ capabilities = {} /\ prepared = {}
    /\ answers = {} /\ audits = {} /\ row = None /\ read = None

Room(registry) == Cardinality(registry) < MaxIssued

-----------------------------------------------------------------------------
(* Selection, profile, instance, candidate.                                *)

(* A decision: the eligible providers in order, the selected one, and      *)
(* whether no fallback and no escalation is planned.                       *)
SoleSelection(eligible, selected, primaryOnly) ==
    primaryOnly /\ Len(eligible) = 1 /\ selected = eligible[1]

(* The object holds the provider; the decision is kept for the properties. *)
AssertExactSoleProviderSelection ==
    \E n \in 0..2 : \E eligible \in [1..n -> Providers], selected \in Providers, primaryOnly \in BOOLEAN :
        /\ Room(selections) /\ SoleSelection(eligible, selected, primaryOnly)
        /\ selections' = selections \cup {[provider |-> selected, eligible |-> eligible]}
        /\ UNCHANGED <<profiles, instances, candidates, bindings, capabilities, prepared,
                       answers, audits, row, read>>

CreateSecurityProfile ==
    /\ \E p \in Profiles : profiles' = profiles \cup {p}
    /\ UNCHANGED <<selections, instances, candidates, bindings, capabilities, prepared,
                   answers, audits, row, read>>

CreateInstanceIdentity ==
    /\ \E t \in Tokens : instances' = instances \cup {t}
    /\ UNCHANGED <<selections, profiles, candidates, bindings, capabilities, prepared,
                   answers, audits, row, read>>

(* The provider comes from the selection alone.                            *)
CreateCandidateBinding ==
    \E selection \in selections, execution \in Runs, taskRun \in Runs,
       p \in Profiles, t \in Tokens, m \in Models :
        /\ Room(candidates)
        /\ execution = taskRun
        /\ p \in profiles /\ t \in instances
        /\ candidates' = candidates \cup
               {[run |-> taskRun, provider |-> selection.provider, profile |-> p, token |-> t, model |-> m]}
        /\ UNCHANGED <<selections, profiles, instances, bindings, capabilities, prepared,
                       answers, audits, row, read>>

-----------------------------------------------------------------------------
(* Verification.                                                           *)

Statuses == {"VERIFIED", "FAILED", "UNAVAILABLE", "UNCERTAIN"}

(* A channel answers by itself: it may have looked at another candidate,   *)
(* or give no digest.                                                      *)
ChannelResults ==
    [status : Statuses, verifier : Verifiers,
     digest : {None} \cup {ChannelDigest(ch, v, f) : ch \in {"A", "B"}, v \in Verifiers, f \in candidates}]

ChannelVerifiedSlip(result, channel, facts) == result.status = "VERIFIED" /\ result.digest # None

ChannelVerified(result, channel, facts) ==
    /\ result.status = "VERIFIED"
    /\ result.digest = ChannelDigest(channel, result.verifier, facts)

(* Any facts may be presented as a candidate. One verifier cannot be both  *)
(* channels.                                                               *)
Independent(a, b) == a.verifier # b.verifier

PrepareVerifiedBinding ==
    \E facts \in Facts :
        /\ facts \in candidates /\ Room(bindings)
        /\ \E a \in ChannelResults : ChannelVerified(a, "A", facts) /\
           \E b \in ChannelResults : ChannelVerified(b, "B", facts) /\
              /\ Independent(a, b)
              /\ bindings' = bindings \cup
                    {[facts |-> facts, verifiers |-> <<a.verifier, b.verifier>>,
                      results |-> <<a.digest, b.digest>>]}
        /\ UNCHANGED <<selections, profiles, instances, candidates, capabilities, prepared,
                       answers, audits, row, read>>

-----------------------------------------------------------------------------
(* Execution.                                                              *)

(* Any instance identity of the right form will do, issued or not.         *)
CreateExecutionCapability ==
    /\ \E t \in Tokens : capabilities' = capabilities \cup {t}
    /\ UNCHANGED <<selections, profiles, instances, candidates, bindings, prepared,
                   answers, audits, row, read>>

(* What a caller may present as a verified binding: an issued one, or one  *)
(* with other facts.                                                       *)
Presented == bindings \cup {[b EXCEPT !.facts = f] : b \in bindings, f \in Facts}

Fits(b, capability) == b \in bindings /\ capability = b.facts.token

FromVerifiedBinding ==
    \E b \in Presented, capability \in capabilities :
        /\ Fits(b, capability) /\ Room(prepared)
        /\ prepared' = prepared \cup {[binding |-> b, capability |-> capability]}
        /\ UNCHANGED <<selections, profiles, instances, candidates, bindings, capabilities,
                       answers, audits, row, read>>

Execute ==
    \E x \in prepared :
        /\ answers' = answers \cup {[on |-> x.capability, facts |-> x.binding.facts]}
        /\ UNCHANGED <<registries, audits, row, read>>

-----------------------------------------------------------------------------
(* Evidence.                                                               *)

ProjectedSlip(evidence, run) ==
    /\ evidence.execution = run /\ evidence.binding.facts.run = run
    /\ evidence.keys # {} => evidence.keys = PreparedKeys

(* snapshotContainmentAudit(): evidence of the prepared form carries all   *)
(* five facts and the digest of everything it says; evidence without any   *)
(* of the five is of the older form, and taken as it is.                   *)
Projected(evidence, run) ==
    /\ evidence.execution = run /\ evidence.binding.facts.run = run
    /\ evidence.keys # {} =>
          /\ evidence.keys = PreparedKeys
          /\ evidence.binding.verifiers[1] # evidence.binding.verifiers[2]
          /\ evidence.digest = BindingDigest(evidence.binding)

Evidence(b) == [execution |-> b.facts.run, binding |-> b, keys |-> PreparedKeys, digest |-> BindingDigest(b)]

ContainmentAudit ==
    \E x \in prepared, exactTaskRunId \in Runs :
        /\ x.binding.facts.run = exactTaskRunId
        /\ Projected(Evidence(x.binding), exactTaskRunId)
        /\ audits' = audits \cup {Evidence(x.binding)}
        /\ UNCHANGED <<registries, answers, row, read>>

(* The row is written, and may lose or change a fact by the time it is     *)
(* read: an older or newer version wrote it, or a person edited it.        *)
StoreEvidence ==
    /\ row = None
    /\ \E e \in audits : row' = e
    /\ UNCHANGED <<registries, answers, audits, read>>

RowChanges ==
    /\ row # None /\ row \in audits
    /\ \/ \E f \in Facts : row' = [row EXCEPT !.binding.facts = f]
       \/ \E r \in Runs : row' = [row EXCEPT !.execution = r]
       \/ \E v \in Verifiers : row' = [row EXCEPT !.binding.verifiers = <<v, v>>]
       \/ \E k \in PreparedKeys : row' = [row EXCEPT !.keys = @ \ {k}]
       \/ row' = [row EXCEPT !.keys = {}]
    /\ UNCHANGED <<registries, answers, audits, read>>

ReadEvidence ==
    /\ row # None
    /\ \E run \in Runs : read' = IF Projected(row, run) THEN [run |-> run, evidence |-> row] ELSE None
    /\ UNCHANGED <<registries, answers, audits, row>>

Next ==
    \/ AssertExactSoleProviderSelection \/ CreateSecurityProfile \/ CreateInstanceIdentity
    \/ CreateCandidateBinding \/ PrepareVerifiedBinding
    \/ CreateExecutionCapability \/ FromVerifiedBinding \/ Execute
    \/ ContainmentAudit \/ StoreEvidence \/ RowChanges \/ ReadEvidence

Spec == Init /\ [][Next]_vars

-----------------------------------------------------------------------------
(* Properties.                                                             *)

Verified(facts, verifiers, results) ==
    /\ verifiers[1] # verifiers[2]
    /\ \A i \in 1..2 : results[i] = ChannelDigest(<<"A", "B">>[i], verifiers[i], facts)

(* Whatever was executed, and whatever evidence of it exists, was seen by  *)
(* two different verifiers, on its two channels, with exactly the facts it *)
(* has now; ran on the instance they saw; and is about the only provider   *)
(* that was eligible.                                                      *)
OnlyWhatWasVerified ==
    /\ \A x \in answers :
          /\ x.on = x.facts.token
          /\ \E b \in bindings : b.facts = x.facts /\ Verified(b.facts, b.verifiers, b.results)
    /\ \A e \in audits : Verified(e.binding.facts, e.binding.verifiers, e.binding.results)
    /\ \A f \in {x.facts : x \in answers} \cup {e.binding.facts : e \in audits} :
          \E s \in selections : s.provider = f.provider /\ s.eligible = <<f.provider>>

(* Evidence of the prepared form that is read back for a run is the        *)
(* evidence that was projected for that run, whatever happened to the row. *)
EvidenceReadsTrue ==
    read # None /\ read.evidence.keys # {} =>
        read.evidence \in audits /\ read.evidence.binding.facts.run = read.run
=============================================================================
