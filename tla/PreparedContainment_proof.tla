---------------------- MODULE PreparedContainment_proof ---------------------
(* What preparation guarantees for any runs, providers, instances and      *)
(* verifiers, and any number of objects issued in any order.               *)
EXTENDS PreparedContainment, TLAPS

Channels == {"A", "B"}
Digests == Channels \X Verifiers \X Facts
VerifiedBindings ==
    {b \in [facts : Facts, verifiers : Verifiers \X Verifiers, results : Digests \X Digests] :
        Verified(b.facts, b.verifiers, b.results)}

(* Every registered object names issued parts, and none of them changes.   *)
SelectionsInv == \A s \in selections : s.provider \in Providers /\ s.eligible = <<s.provider>>
CandidatesInv ==
    \A f \in candidates :
        /\ f \in Facts
        /\ \E s \in selections : s.provider = f.provider
BindingsInv == \A b \in bindings : b \in VerifiedBindings /\ b.facts \in candidates
PreparedInv == \A x \in prepared : x.binding \in bindings /\ x.capability = x.binding.facts.token
AnswersInv == \A x \in answers : \E b \in bindings : x.facts = b.facts /\ x.on = b.facts.token
AuditsInv == \A e \in audits : \E b \in bindings : e = Evidence(b)

(* A row that reads as evidence of the prepared form is what was projected *)
(* (a row that lost or changed a fact does not read as such).              *)
Reads(x) == x.keys # {} /\ \E run \in Runs : Projected(x, run)
RowInv == row # None /\ Reads(row) => row \in audits

PreparationInv ==
    /\ SelectionsInv /\ CandidatesInv /\ BindingsInv /\ PreparedInv
    /\ AnswersInv /\ AuditsInv /\ RowInv /\ EvidenceReadsTrue

-----------------------------------------------------------------------------
(* Objects, once issued, stay issued.                                      *)
Grows ==
    /\ selections \subseteq selections' /\ candidates \subseteq candidates'
    /\ bindings \subseteq bindings' /\ audits \subseteq audits'

LEMMA NextGrows == ASSUME [Next]_vars PROVE Grows
<1>1. CASE UNCHANGED vars
  BY <1>1 DEF vars, registries, Grows
<1>2. CASE AssertExactSoleProviderSelection
  BY <1>2 DEF AssertExactSoleProviderSelection, Grows
<1>3. CASE CreateSecurityProfile \/ CreateInstanceIdentity
  BY <1>3 DEF CreateSecurityProfile, CreateInstanceIdentity, Grows
<1>4. CASE CreateCandidateBinding
  BY <1>4 DEF CreateCandidateBinding, Grows
<1>5. CASE PrepareVerifiedBinding
  BY <1>5 DEF PrepareVerifiedBinding, Grows
<1>6. CASE CreateExecutionCapability \/ FromVerifiedBinding
  BY <1>6 DEF CreateExecutionCapability, FromVerifiedBinding, Grows
<1>7. CASE Execute
  BY <1>7 DEF Execute, registries, Grows
<1>8. CASE ContainmentAudit
  BY <1>8 DEF ContainmentAudit, registries, Grows
<1>9. CASE StoreEvidence \/ RowChanges \/ ReadEvidence
  BY <1>9 DEF StoreEvidence, RowChanges, ReadEvidence, registries, Grows
<1> QED
  BY <1>1, <1>2, <1>3, <1>4, <1>5, <1>6, <1>7, <1>8, <1>9 DEF Next

(* A selection is made of a single eligible provider.                      *)
LEMMA SoleIsTheOnlyOne ==
    ASSUME NEW n \in 0..2, NEW eligible \in [1..n -> Providers], NEW selected, NEW primaryOnly,
           SoleSelection(eligible, selected, primaryOnly)
    PROVE  eligible = <<selected>> /\ selected \in Providers
<1>1. eligible \in Seq(Providers) /\ Len(eligible) = n
  OBVIOUS
<1>2. n = 1 /\ selected = eligible[1]
  BY <1>1 DEF SoleSelection
<1>3. eligible = [i \in 1..1 |-> selected]
  BY <1>1, <1>2
<1> QED
  BY <1>2, <1>3

(* What two channels verified of the same facts makes a verified binding.  *)
LEMMA BothChannelsVerify ==
    ASSUME NEW facts \in Facts, NEW a \in ChannelResults, NEW b \in ChannelResults,
           ChannelVerified(a, "A", facts), ChannelVerified(b, "B", facts), Independent(a, b)
    PROVE  [facts |-> facts, verifiers |-> <<a.verifier, b.verifier>>, results |-> <<a.digest, b.digest>>]
               \in VerifiedBindings
<1> DEFINE x == [facts |-> facts, verifiers |-> <<a.verifier, b.verifier>>, results |-> <<a.digest, b.digest>>]
<1>1. a.verifier \in Verifiers /\ b.verifier \in Verifiers
  BY DEF ChannelResults
<1>2. a.digest = <<"A", a.verifier, facts>> /\ b.digest = <<"B", b.verifier, facts>>
  BY DEF ChannelVerified, ChannelDigest
<1>3. a.digest \in Digests /\ b.digest \in Digests
  BY <1>1, <1>2 DEF Digests, Channels
<1>4. x \in [facts : Facts, verifiers : Verifiers \X Verifiers, results : Digests \X Digests]
  BY <1>1, <1>3
<1>5. Verified(x.facts, x.verifiers, x.results)
  BY <1>2 DEF Verified, Independent, ChannelDigest
<1> QED
  BY <1>4, <1>5 DEF VerifiedBindings

-----------------------------------------------------------------------------
(* The steps.                                                              *)

LEMMA NextSelections == ASSUME SelectionsInv, [Next]_vars PROVE SelectionsInv'
<1>1. CASE AssertExactSoleProviderSelection
  <2>1. PICK n \in 0..2 :
            \E eligible \in [1..n -> Providers], selected \in Providers, primaryOnly \in BOOLEAN :
                /\ SoleSelection(eligible, selected, primaryOnly)
                /\ selections' = selections \cup {[provider |-> selected, eligible |-> eligible]}
    BY <1>1 DEF AssertExactSoleProviderSelection
  <2>2. PICK eligible \in [1..n -> Providers], selected \in Providers, primaryOnly \in BOOLEAN :
            /\ SoleSelection(eligible, selected, primaryOnly)
            /\ selections' = selections \cup {[provider |-> selected, eligible |-> eligible]}
    BY <2>1
  <2>3. eligible = <<selected>>
    BY <2>2, SoleIsTheOnlyOne
  <2> QED
    BY <2>2, <2>3 DEF SelectionsInv
<1>2. CASE selections' = selections
  BY <1>2 DEF SelectionsInv
<1>3. AssertExactSoleProviderSelection \/ selections' = selections
  BY DEF Next, vars, registries, CreateSecurityProfile, CreateInstanceIdentity, CreateCandidateBinding,
         PrepareVerifiedBinding, CreateExecutionCapability, FromVerifiedBinding, Execute,
         ContainmentAudit, StoreEvidence, RowChanges, ReadEvidence
<1> QED
  BY <1>1, <1>2, <1>3

LEMMA NextCandidates ==
    ASSUME SelectionsInv, CandidatesInv, [Next]_vars
    PROVE  CandidatesInv'
<1>0. selections \subseteq selections'
  BY NextGrows DEF Grows
<1>1. CASE CreateCandidateBinding
  <2> SUFFICES ASSUME NEW g \in candidates'
               PROVE  g \in Facts /\ \E s \in selections' : s.provider = g.provider
    BY DEF CandidatesInv
  <2>1. PICK selection \in selections, taskRun \in Runs, p \in Profiles, t \in Tokens, m \in Models :
            candidates' = candidates \cup
                {[run |-> taskRun, provider |-> selection.provider, profile |-> p, token |-> t, model |-> m]}
    BY <1>1 DEF CreateCandidateBinding
  <2>2. selection.provider \in Providers
    BY DEF SelectionsInv
  <2> QED
    BY <1>0, <2>1, <2>2 DEF CandidatesInv, Facts
<1>2. CASE candidates' = candidates
  BY <1>0, <1>2 DEF CandidatesInv
<1>3. CreateCandidateBinding \/ candidates' = candidates
  BY DEF Next, vars, registries, AssertExactSoleProviderSelection, CreateSecurityProfile,
         CreateInstanceIdentity, PrepareVerifiedBinding, CreateExecutionCapability,
         FromVerifiedBinding, Execute, ContainmentAudit, StoreEvidence, RowChanges, ReadEvidence
<1> QED
  BY <1>1, <1>2, <1>3

LEMMA NextBindings == ASSUME BindingsInv, [Next]_vars PROVE BindingsInv'
<1>0. candidates \subseteq candidates'
  BY NextGrows DEF Grows
<1>1. CASE PrepareVerifiedBinding
  <2>1. PICK facts \in Facts, a \in ChannelResults, b \in ChannelResults :
            /\ facts \in candidates
            /\ ChannelVerified(a, "A", facts) /\ ChannelVerified(b, "B", facts) /\ Independent(a, b)
            /\ bindings' = bindings \cup
                  {[facts |-> facts, verifiers |-> <<a.verifier, b.verifier>>, results |-> <<a.digest, b.digest>>]}
    BY <1>1 DEF PrepareVerifiedBinding
  <2> QED
    BY <1>0, <2>1, BothChannelsVerify DEF BindingsInv
<1>2. CASE bindings' = bindings
  BY <1>0, <1>2 DEF BindingsInv
<1>3. PrepareVerifiedBinding \/ bindings' = bindings
  BY DEF Next, vars, registries, AssertExactSoleProviderSelection, CreateSecurityProfile,
         CreateInstanceIdentity, CreateCandidateBinding, CreateExecutionCapability,
         FromVerifiedBinding, Execute, ContainmentAudit, StoreEvidence, RowChanges, ReadEvidence
<1> QED
  BY <1>1, <1>2, <1>3

LEMMA NextPrepared == ASSUME PreparedInv, [Next]_vars PROVE PreparedInv'
<1>0. bindings \subseteq bindings'
  BY NextGrows DEF Grows
<1>1. CASE FromVerifiedBinding
  BY <1>0, <1>1 DEF FromVerifiedBinding, Fits, PreparedInv
<1>2. CASE prepared' = prepared
  BY <1>0, <1>2 DEF PreparedInv
<1>3. FromVerifiedBinding \/ prepared' = prepared
  BY DEF Next, vars, registries, AssertExactSoleProviderSelection, CreateSecurityProfile,
         CreateInstanceIdentity, CreateCandidateBinding, PrepareVerifiedBinding,
         CreateExecutionCapability, Execute, ContainmentAudit, StoreEvidence, RowChanges, ReadEvidence
<1> QED
  BY <1>1, <1>2, <1>3

LEMMA NextAnswers == ASSUME PreparedInv, AnswersInv, [Next]_vars PROVE AnswersInv'
<1>0. bindings \subseteq bindings'
  BY NextGrows DEF Grows
<1>1. CASE Execute
  BY <1>0, <1>1 DEF Execute, PreparedInv, AnswersInv
<1>2. CASE answers' = answers
  BY <1>0, <1>2 DEF AnswersInv
<1>3. Execute \/ answers' = answers
  BY DEF Next, vars, registries, AssertExactSoleProviderSelection, CreateSecurityProfile,
         CreateInstanceIdentity, CreateCandidateBinding, PrepareVerifiedBinding,
         CreateExecutionCapability, FromVerifiedBinding, ContainmentAudit, StoreEvidence, RowChanges,
         ReadEvidence
<1> QED
  BY <1>1, <1>2, <1>3

LEMMA NextAudits == ASSUME PreparedInv, AuditsInv, [Next]_vars PROVE AuditsInv'
<1>0. bindings \subseteq bindings'
  BY NextGrows DEF Grows
<1>1. CASE ContainmentAudit
  BY <1>0, <1>1 DEF ContainmentAudit, PreparedInv, AuditsInv
<1>2. CASE audits' = audits
  BY <1>0, <1>2 DEF AuditsInv
<1>3. ContainmentAudit \/ audits' = audits
  BY DEF Next, vars, registries, AssertExactSoleProviderSelection, CreateSecurityProfile,
         CreateInstanceIdentity, CreateCandidateBinding, PrepareVerifiedBinding,
         CreateExecutionCapability, FromVerifiedBinding, Execute, StoreEvidence, RowChanges, ReadEvidence
<1> QED
  BY <1>1, <1>2, <1>3

(* Evidence with one fact changed no longer reads as prepared evidence,    *)
(* because the digest, the pair of verifiers, the run or the keys tell.    *)
LEMMA ChangesAreNoticed ==
    ASSUME NEW b \in VerifiedBindings, NEW x, Reads(x),
           \/ \E f \in Facts : x = [Evidence(b) EXCEPT !.binding.facts = f]
           \/ \E r \in Runs : x = [Evidence(b) EXCEPT !.execution = r]
           \/ \E v \in Verifiers : x = [Evidence(b) EXCEPT !.binding.verifiers = <<v, v>>]
           \/ \E k \in PreparedKeys : x = [Evidence(b) EXCEPT !.keys = @ \ {k}]
           \/ x = [Evidence(b) EXCEPT !.keys = {}]
    PROVE  x = Evidence(b)
<1> DEFINE e == Evidence(b)
<1>1. CASE \E f \in Facts : x = [e EXCEPT !.binding.facts = f]
  <2>1. PICK f \in Facts : x = [e EXCEPT !.binding.facts = f]
    BY <1>1
  <2>2. x.digest = BindingDigest(b) /\ x.binding = [b EXCEPT !.facts = f]
    BY <2>1 DEF Evidence
  <2>3. x.binding.facts = f
    BY <2>2 DEF VerifiedBindings
  <2>4. x.digest = BindingDigest(x.binding)
    BY DEF Reads, Projected
  <2>5. f = b.facts
    BY <2>2, <2>3, <2>4 DEF BindingDigest
  <2>6. [b EXCEPT !.facts = b.facts] = b
    BY DEF VerifiedBindings
  <2> QED
    BY <2>1, <2>5, <2>6 DEF Evidence
<1>2. CASE \E r \in Runs : x = [e EXCEPT !.execution = r]
  BY <1>2 DEF Evidence, Reads, Projected
<1>3. CASE \E v \in Verifiers : x = [e EXCEPT !.binding.verifiers = <<v, v>>]
  <2>1. PICK v \in Verifiers : x = [e EXCEPT !.binding.verifiers = <<v, v>>]
    BY <1>3
  <2>2. x.binding = [b EXCEPT !.verifiers = <<v, v>>]
    BY <2>1 DEF Evidence
  <2>3. x.binding.verifiers = <<v, v>>
    BY <2>2 DEF VerifiedBindings
  <2> QED
    BY <2>3 DEF Reads, Projected
<1>4. CASE \E k \in PreparedKeys : x = [e EXCEPT !.keys = @ \ {k}]
  BY <1>4 DEF Evidence, Reads, Projected
<1>5. CASE x = [e EXCEPT !.keys = {}]
  BY <1>5 DEF Evidence, Reads
<1> QED
  BY <1>1, <1>2, <1>3, <1>4, <1>5

LEMMA NextRow == ASSUME BindingsInv, AuditsInv, RowInv, [Next]_vars PROVE RowInv'
<1>0. audits \subseteq audits'
  BY NextGrows DEF Grows
<1>1. CASE StoreEvidence
  BY <1>1 DEF StoreEvidence, RowInv
<1>2. CASE RowChanges
  <2> SUFFICES ASSUME Reads(row') PROVE row' \in audits'
    BY DEF RowInv, Reads, Projected
  <2>1. PICK b \in bindings : row = Evidence(b)
    BY <1>2 DEF RowChanges, AuditsInv
  <2>2. b \in VerifiedBindings
    BY DEF BindingsInv
  <2>3. row' = row
    BY <1>2, <2>1, <2>2, ChangesAreNoticed DEF RowChanges
  <2> QED
    BY <1>0, <1>2, <2>3 DEF RowChanges
<1>3. CASE row' = row
  BY <1>0, <1>3 DEF RowInv, Reads, Projected
<1>4. StoreEvidence \/ RowChanges \/ row' = row
  BY DEF Next, vars, registries, AssertExactSoleProviderSelection, CreateSecurityProfile,
         CreateInstanceIdentity, CreateCandidateBinding, PrepareVerifiedBinding,
         CreateExecutionCapability, FromVerifiedBinding, Execute, ContainmentAudit, ReadEvidence
<1> QED
  BY <1>1, <1>2, <1>3, <1>4

LEMMA NextRead == ASSUME RowInv, EvidenceReadsTrue, [Next]_vars PROVE EvidenceReadsTrue'
<1>0. audits \subseteq audits'
  BY NextGrows DEF Grows
<1>1. CASE ReadEvidence
  <2>1. PICK run \in Runs : read' = IF Projected(row, run) THEN [run |-> run, evidence |-> row] ELSE None
    BY <1>1 DEF ReadEvidence
  <2>2. CASE Projected(row, run)
    BY <1>0, <1>1, <2>1, <2>2 DEF ReadEvidence, RowInv, Reads, EvidenceReadsTrue, Projected
  <2>3. CASE ~Projected(row, run)
    BY <2>1, <2>3 DEF EvidenceReadsTrue
  <2> QED
    BY <2>2, <2>3
<1>2. CASE read' = read
  BY <1>0, <1>2 DEF EvidenceReadsTrue
<1>3. ReadEvidence \/ read' = read
  BY DEF Next, vars, registries, AssertExactSoleProviderSelection, CreateSecurityProfile,
         CreateInstanceIdentity, CreateCandidateBinding, PrepareVerifiedBinding,
         CreateExecutionCapability, FromVerifiedBinding, Execute, ContainmentAudit, StoreEvidence, RowChanges
<1> QED
  BY <1>1, <1>2, <1>3

-----------------------------------------------------------------------------
(* The theorems.                                                           *)

(* Preparation keeps its chain of issued objects, whatever the callers     *)
(* present and in whatever order.                                          *)
THEOREM Preparation == Spec => []PreparationInv
<1>1. Init => PreparationInv
  BY DEF Init, PreparationInv, SelectionsInv, CandidatesInv, BindingsInv, PreparedInv, AnswersInv,
         AuditsInv, RowInv, EvidenceReadsTrue
<1>2. PreparationInv /\ [Next]_vars => PreparationInv'
  BY NextSelections, NextCandidates, NextBindings, NextPrepared, NextAnswers, NextAudits, NextRow,
     NextRead DEF PreparationInv
<1> QED
  BY <1>1, <1>2, PTL DEF Spec

(* What is executed, and what evidence says, was verified on both channels *)
(* with the facts it has, on that instance, for the sole eligible provider *)
(* (continuation-prepared-containment.ts:302).                             *)
THEOREM OnlyVerifiedIsExecuted == Spec => []OnlyWhatWasVerified
<1>1. PreparationInv => OnlyWhatWasVerified
  <2> SUFFICES ASSUME PreparationInv PROVE OnlyWhatWasVerified
    OBVIOUS
  <2>1. \A b \in bindings : Verified(b.facts, b.verifiers, b.results)
    BY DEF PreparationInv, BindingsInv, VerifiedBindings
  <2>2. \A b \in bindings : \E s \in selections :
           s.provider = b.facts.provider /\ s.eligible = <<b.facts.provider>>
    BY DEF PreparationInv, BindingsInv, CandidatesInv, SelectionsInv
  <2>3. \A x \in answers : \E b \in bindings : x.facts = b.facts /\ x.on = b.facts.token
    BY DEF PreparationInv, AnswersInv
  <2>4. \A e \in audits : \E b \in bindings : e.binding = b
    BY DEF PreparationInv, AuditsInv, Evidence
  <2>5. \A x \in answers :
           x.on = x.facts.token /\ \E b \in bindings : b.facts = x.facts /\ Verified(b.facts, b.verifiers, b.results)
    BY <2>1, <2>3
  <2>6. \A e \in audits : Verified(e.binding.facts, e.binding.verifiers, e.binding.results)
    BY <2>1, <2>4
  <2>7. \A f \in {x.facts : x \in answers} \cup {e.binding.facts : e \in audits} : \E b \in bindings : f = b.facts
    BY <2>3, <2>4
  <2>8. \A f \in {x.facts : x \in answers} \cup {e.binding.facts : e \in audits} :
           \E s \in selections : s.provider = f.provider /\ s.eligible = <<f.provider>>
    BY <2>2, <2>7, Zenon
  <2> QED
    BY <2>5, <2>6, <2>8 DEF OnlyWhatWasVerified
<1> QED
  BY <1>1, Preparation, PTL

(* Evidence of the prepared form that is read for a run is what was        *)
(* projected for it, whatever happened to the row in between.              *)
THEOREM EvidenceIsTrue == Spec => []EvidenceReadsTrue
<1>1. PreparationInv => EvidenceReadsTrue
  BY DEF PreparationInv
<1> QED
  BY <1>1, Preparation, PTL
=============================================================================
