------------------------ MODULE ApplyLifecycle_proof ------------------------
(***************************************************************************)
(* What the lifecycle guarantees for any number of plans, projects,        *)
(* approvals and overlapping turns, with every external event enabled, in  *)
(* four parts.                                                             *)
(*                                                                         *)
(* 1. The repositories. Every operation leaves them well formed: tips are  *)
(*    sets of changes, the checked-out branch and remote main exist, and   *)
(*    an open pull request has a head.                                     *)
(*                                                                         *)
(* 2. The approvals. IInv says that every copy of the anchor, the stored   *)
(*    one and those kept by suspended turns, carries ids of its own plan's *)
(*    requests and is past no gate whose request was not granted. A step   *)
(*    writes back either a copy that existed, which stays sound because    *)
(*    the table only grows, or one built by Advance, a request or a        *)
(*    decision.                                                            *)
(*                                                                         *)
(* 3. The commits. What a gate showed is what the anchor still carries, a  *)
(*    later evidence field repeats an earlier one, and the commit it names *)
(*    is where the status says it is. Five results hold only under a       *)
(*    condition the code leaves to its users or its configuration, and     *)
(*    name it: no installation token is awaited before a push (~AppAuth),  *)
(*    no save is lost, nobody else deletes the branch (OwnBranch), and     *)
(*    turns do not overlap (OneTurnAtATime, which NoDeleteRace adds to).   *)
(*                                                                         *)
(* 4. The ledger. Every step asks for a gate that is due, decides one, or  *)
(*    spends a granted one, or leaves both tables alone. The plan's own    *)
(*    gate is in no anchor, so LedgerInv says of every apply anchor, and   *)
(*    of a turn that is generating code, that its plan was granted.        *)
(***************************************************************************)
EXTENDS ApplyLifecycle, TLAPS

-----------------------------------------------------------------------------
(* PART 1. THE REPOSITORIES.                                               *)

WorldOK == WorldTypeOK /\ RefsExist

(* The clone and the hosting service as WorldInit builds them.             *)
LEMMA WorldInitOK == WorldInit => WorldOK
BY NoneAssumption
   DEF WorldInit, WorldOK, WorldTypeOK, RefsExist, Branches, Tips, MaybeTip, PrStates

(* Sets of changes are closed under what git does with them.               *)
LEMMA TipsClosed ==
    /\ \A s, t \in Tips : s \cup t \in Tips
    /\ \A p \in Plans : {p} \in Tips
    /\ \A tip \in Tips : tip # None
    /\ {} \in Tips
    /\ None \notin Branches
BY NoneAssumption DEF Tips, Changes

(* The files of a set of changes, named by a change each, are such a set.  *)
LEMMA FilesAreTips ==
    ASSUME NEW s \in Tips, NEW p \in Plans
    PROVE  FilesOf(s, p) \in Tips
BY DEF FilesOf, Tips, Changes

(* The checked-out branch has a tip.                                       *)
LEMMA HeadExists ==
    ASSUME WorldOK
    PROVE  Head \in Tips
BY DEF WorldOK, WorldTypeOK, RefsExist, Head, MaybeTip

(* git commit keeps the repositories well formed.                          *)
LEMMA CommitFilesOK ==
    ASSUME WorldOK, CommitFiles
    PROVE  WorldOK'
BY TipsClosed DEF WorldOK, WorldTypeOK, RefsExist, CommitFiles, MaybeTip

(* Moving a branch of the hosting service to an existing tip.              *)
LEMMA MoveOriginOK ==
    ASSUME WorldOK, NEW b, NEW tip \in MaybeTip, b = "main" => tip # None, MoveOrigin(b, tip)
    PROVE  /\ origin' \in [Branches -> MaybeTip]
           /\ prs' \in [PrIds -> [state : PrStates, head : MaybeTip]]
           /\ origin'["main"] # None
           /\ \A n \in PrIds : prs'[n].state = "open" => prs'[n].head # None
<1>1. PrsFollowing(tip) \in [PrIds -> [state : PrStates, head : MaybeTip]]
  BY DEF WorldOK, WorldTypeOK, PrsFollowing, PrStates
<1>2. \A n \in PrIds : PrsFollowing(tip)[n].state = "open" => PrsFollowing(tip)[n].head # None
  BY DEF WorldOK, WorldTypeOK, PrsFollowing
<1> QED
  BY <1>1, <1>2 DEF WorldOK, WorldTypeOK, RefsExist, MoveOrigin, Branches

(* So does a push of HEAD.                                                 *)
LEMMA PushHeadOK ==
    ASSUME WorldOK, NEW b, PushHead(b)
    PROVE  WorldOK'
<1>1. Head \in Tips /\ Head # None /\ Head \in MaybeTip
  BY HeadExists, TipsClosed DEF MaybeTip
<1> QED
  BY <1>1, MoveOriginOK DEF WorldOK, WorldTypeOK, RefsExist, PushHead

(* So does a main synchronisation, whether it fast-forwards or not.        *)
LEMMA SyncMainOK ==
    ASSUME WorldOK, NEW expected, NEW previous, SyncMainFastForward(expected, previous)
    PROVE  WorldOK'
BY DEF WorldOK, WorldTypeOK, RefsExist, SyncMainFastForward, CanFastForward, MaybeTip, Branches

(* So does deleting a branch that is not checked out.                      *)
LEMMA DeleteLocalOK ==
    ASSUME WorldOK, NEW b, b # at, DeleteMergedLocalBranch(b)
    PROVE  WorldOK'
BY DEF WorldOK, WorldTypeOK, RefsExist, DeleteMergedLocalBranch, MaybeTip

(* So does opening a pull request, whose head is then a tip.               *)
LEMMA CreatePullRequestOK ==
    ASSUME WorldOK, NEW n \in PrIds, CreatePullRequest(n)
    PROVE  WorldOK'
BY DEF WorldOK, WorldTypeOK, RefsExist, CreatePullRequest, MaybeTip, PrStates, Branches

(* So does merging one: main grows by the head.                            *)
LEMMA MergePullRequestOK ==
    ASSUME WorldOK, NEW n \in PrIds, MergePullRequest(n)
    PROVE  WorldOK'
<1>1. origin["main"] \cup prs[n].head \in Tips
  BY TipsClosed DEF WorldOK, WorldTypeOK, RefsExist, MergePullRequest, MaybeTip, Branches
<1> QED
  BY <1>1, TipsClosed
     DEF WorldOK, WorldTypeOK, RefsExist, MergePullRequest, MaybeTip, PrStates, Branches

(* So does deleting the remote branch: its pull request closes.            *)
LEMMA DeleteRemoteOK ==
    ASSUME WorldOK, DeleteRemoteRef("feature")
    PROVE  WorldOK'
BY MoveOriginOK DEF WorldOK, WorldTypeOK, RefsExist, DeleteRemoteRef, MaybeTip

(* What people do.                                                         *)
LEMMA HumanEditOK ==
    ASSUME WorldOK, NEW change \in Foreign, HumanEdit(change)
    PROVE  WorldOK'
BY DEF WorldOK, WorldTypeOK, RefsExist, HumanEdit, Tips, Changes

(* Somebody commits in the clone.                                          *)
LEMMA HumanCommitOK ==
    ASSUME WorldOK, HumanCommit
    PROVE  WorldOK'
<1>1. {"localCommit"} \in Tips
  BY DEF Tips, Changes, Foreign
<1> QED
  BY <1>1, TipsClosed DEF WorldOK, WorldTypeOK, RefsExist, HumanCommit, MaybeTip

(* Somebody discards, checks out or fetches.                               *)
LEMMA HumanCloneOK ==
    ASSUME WorldOK, NEW b \in Branches, HumanDiscard \/ HumanCheckout(b) \/ HumanFetch
    PROVE  WorldOK'
<1>1. CASE HumanDiscard
  BY <1>1, TipsClosed DEF WorldOK, WorldTypeOK, RefsExist, HumanDiscard
<1>2. CASE HumanCheckout(b)
  BY <1>2 DEF WorldOK, WorldTypeOK, RefsExist, HumanCheckout
<1>3. CASE HumanFetch
  BY <1>3 DEF WorldOK, WorldTypeOK, RefsExist, HumanFetch, MaybeTip
<1> QED
  BY <1>1, <1>2, <1>3

(* Somebody pushes to the hosting service.                                 *)
LEMMA HumanRemotePushOK ==
    ASSUME WorldOK, NEW event \in Foreign, NEW b \in Branches, HumanRemotePush(event, b)
    PROVE  WorldOK'
<1>1. origin[b] \cup {event} \in Tips
  BY DEF WorldOK, WorldTypeOK, HumanRemotePush, MaybeTip, Tips, Changes
<1>2. origin[b] \cup {event} \in MaybeTip /\ origin[b] \cup {event} # None
  BY <1>1, TipsClosed DEF MaybeTip
<1> QED
  BY <1>2, MoveOriginOK DEF WorldOK, WorldTypeOK, RefsExist, HumanRemotePush

(* Somebody merges, closes or deletes on the hosting service.              *)
LEMMA HumanPrOK ==
    ASSUME WorldOK, NEW n \in PrIds, HumanMerge(n) \/ HumanClose(n)
    PROVE  WorldOK'
<1>1. CASE HumanMerge(n)
  BY <1>1, MergePullRequestOK DEF HumanMerge
<1>2. CASE HumanClose(n)
  BY <1>2 DEF WorldOK, WorldTypeOK, RefsExist, HumanClose, PrStates
<1> QED
  BY <1>1, <1>2

-----------------------------------------------------------------------------
(* PART 2. THE APPROVALS.                                                  *)

Requests ==
    [gate : Gates, plan : Plans \cup {None}, scope : MaybeTip,
     status : {"NONE", "PENDING", "APPROVED", "REJECTED"}]
TurnRecords ==
    [pc : Steps, task : Tasks, project : Projects \cup {None},
     pr : PrIds \cup {None}, hash : MaybeTip, mutated : BOOLEAN]
Mutations ==
    [op : ApplyGates, approval : ApprovalIds \cup {None},
     plan : Plans \cup {None}, scope : MaybeTip]

-----------------------------------------------------------------------------
(* Tables.                                                                 *)

(* Between its request and its decision a gate passes no other gate.       *)
LEMMA GateTables ==
    /\ \A g \in ApplyGates : /\ Durable[g] \in Status
                             /\ Pending[g] \in Status
                             /\ Approved[g] \in Status
    /\ \A g, h \in ApplyGates :
          /\ Rank[Pending[g]] >= Rank[Approved[h]] =>
                h # g /\ Rank[Durable[g]] >= Rank[Approved[h]]
          /\ Rank[Approved[g]] >= Rank[Approved[h]] =>
                h = g \/ Rank[Pending[g]] >= Rank[Approved[h]]
          /\ Rank[Durable[g]] >= Rank[Approved[h]] =>
                h # g /\ Rank[Pending[g]] >= Rank[Approved[h]]
BY DEF ApplyGates, Durable, Pending, Approved, Status, Rank

(* None is no plan, project, approval id or pull request number.           *)
LEMMA NoneIsNoId ==
    None \notin Plans /\ None \notin Projects /\ None \notin ApprovalIds /\ None \notin PrIds
BY NoIdAssumption

(* An idle slot and an empty pointer have the declared types.              *)
LEMMA IdleTypes == Idle \in TurnRecords /\ NoTask \in Tasks
BY DEF Idle, TurnRecords, NoTask, Tasks, Steps, MaybeTip

-----------------------------------------------------------------------------
(* The approval table only grows: a request is made, then decided once.    *)

Grows ==
    \A id \in ApprovalIds :
        \/ approvals'[id] = approvals[id]
        \/ approvals[id].status = "NONE" /\ approvals'[id].status = "PENDING"
        \/ /\ approvals[id].status = "PENDING"
           /\ \E verdict \in {"APPROVED", "REJECTED"} :
                 approvals'[id] = [approvals[id] EXCEPT !.status = verdict]

(* requestForRisk only fills an unused row.                                *)
LEMMA RequestGrows ==
    ASSUME approvals \in [ApprovalIds -> Requests],
           NEW id \in ApprovalIds, NEW gate \in Gates, NEW plan \in Plans, NEW scope \in MaybeTip,
           RequestForRisk(id, gate, plan, scope)
    PROVE  approvals' \in [ApprovalIds -> Requests] /\ Grows
BY DEF Requests, RequestForRisk, Grows

(* decide only settles a pending row.                                      *)
LEMMA DecideGrows ==
    ASSUME approvals \in [ApprovalIds -> Requests],
           NEW id, NEW verdict \in {"APPROVED", "REJECTED"}, Decide(id, verdict)
    PROVE  approvals' \in [ApprovalIds -> Requests] /\ Grows
BY DEF Requests, Decide, Grows

(* newId() draws from the ids of the table.                                *)
LEMMA FreshIsUnused == Fresh \subseteq ApprovalIds
BY DEF Fresh, UnusedIds

(* The anchor a gate reads names a plan.                                   *)
LEMMA AnchoredPlan ==
    ASSUME TypeOK, PlansKnown, Anchored
    PROVE  task \in Tasks /\ task.kind = "apply" /\ task.plan \in Plans /\ {task.plan} \in MaybeTip
BY TipsClosed DEF TypeOK, PlansKnown, AnchorCopies, Anchored, MaybeTip

(* Asking for a gate only adds a request.                                  *)
LEMMA RequestGateGrows ==
    ASSUME TypeOK, PlansKnown, Anchored, NEW kept, NEW a,
           NEW g \in ApplyGates, NEW scope \in MaybeTip, RequestGate(g, scope, a, kept)
    PROVE  approvals' \in [ApprovalIds -> Requests] /\ Grows
BY RequestGrows, AnchoredPlan, FreshIsUnused DEF TypeOK, Requests, RequestGate, Gates

(* A turn at a gate adds one request or settles one.                       *)
LEMMA GateTurnGrows ==
    ASSUME TypeOK, RefsExist, PlansKnown, NEW kept \in BOOLEAN, GateTurn(kept)
    PROVE  approvals' \in [ApprovalIds -> Requests] /\ Grows
<1>1. \A f \in Evidence : task.ev[f] \in MaybeTip
  BY DEF TypeOK, Tasks
<1>2. Head \in MaybeTip
  BY HeadExists DEF TypeOK, WorldOK, MaybeTip
<1>3. ASSUME NEW g \in ApplyGates, NEW a, DecideGate(g, a, kept)
      PROVE  approvals' \in [ApprovalIds -> Requests] /\ Grows
  BY <1>3, DecideGrows DEF TypeOK, Requests, DecideGate
<1>4. CASE HandleApplyIntentTurn(kept)
  BY <1>4, RequestGateGrows, AnchoredPlan DEF HandleApplyIntentTurn, AnchoredAt, ApplyGates
<1>5. CASE HandleApplyApprovalTurn(kept)
  BY <1>5, DecideGrows DEF TypeOK, Requests, HandleApplyApprovalTurn
<1>6. CASE HandleCommitApprovalTurn(kept)
  BY <1>6, RequestGateGrows, AnchoredPlan DEF HandleCommitApprovalTurn, AnchoredAt, ApplyGates
<1>7. CASE HandlePushApprovalTurn(kept)
  BY <1>7, <1>2, RequestGateGrows DEF HandlePushApprovalTurn, AnchoredAt, ApplyGates
<1>8. CASE HandlePrApprovalTurn(kept)
  BY <1>8, <1>1, RequestGateGrows DEF HandlePrApprovalTurn, AnchoredAt, ApplyGates, Evidence
<1>9. CASE HandleMergeApprovalTurn(kept)
  BY <1>9, <1>1, RequestGateGrows DEF HandleMergeApprovalTurn, AnchoredAt, ApplyGates, Evidence
<1>10. CASE HandleRemoteBranchCleanupApprovalTurn(kept)
  BY <1>10, <1>1, RequestGateGrows
     DEF HandleRemoteBranchCleanupApprovalTurn, AnchoredAt, ApplyGates, Evidence
<1> QED
  BY <1>3, <1>4, <1>5, <1>6, <1>7, <1>8, <1>9, <1>10
     DEF GateTurn, ApplyGates, HandleCommitApprovalDecisionTurn, HandlePushApprovalDecisionTurn,
         HandlePrApprovalDecisionTurn, HandleMergeApprovalDecisionTurn,
         HandleRemoteBranchCleanupDecisionTurn

(* Planning only adds a request.                                           *)
LEMMA PlanRequestGrows ==
    ASSUME TypeOK, NEW p \in Plans, NEW kept, RunResolvedExecution(p, kept)
    PROVE  approvals' \in [ApprovalIds -> Requests] /\ Grows
BY RequestGrows, FreshIsUnused, TipsClosed
   DEF TypeOK, Requests, RunResolvedExecution, Gates, MaybeTip

(* A turn before the anchor adds one request or settles one.               *)
LEMMA PlanningTurnGrows ==
    ASSUME TypeOK, NEW kept, PlanningTurn(kept)
    PROVE  approvals' \in [ApprovalIds -> Requests] /\ Grows
<1>1. CASE UNCHANGED approvals
  BY <1>1 DEF TypeOK, Requests, Grows
<1>2. ASSUME NEW id \in ApprovalIds, HandleApprovalTurn(id)
      PROVE  approvals' \in [ApprovalIds -> Requests] /\ Grows
  BY <1>2, DecideGrows DEF TypeOK, Requests, HandleApprovalTurn
<1> QED
  BY <1>1, <1>2, PlanRequestGrows
     DEF PlanningTurn, RegisterProject, ClearStale, HandleExecutionIntent, AskForScope,
         HandleScopeClarificationTurn, records

(* Executing, resuming and dying leave the table of requests alone.        *)
LEMMA OtherTurnsKeepApprovals ==
    ASSUME NEW saved, NEW kept, NEW t,
           LocalTurn(saved, kept) \/ StartTurn(t) \/ TurnStep(t) \/ Crash \/ Human
    PROVE  UNCHANGED approvals
<1>1. CASE LocalTurn(saved, kept)
  BY <1>1 DEF LocalTurn, HandlePatchGenerationTurn, HandleWorkspaceApplyTurn,
       HandleCommitExecutionTurn, HandlePushExecutionTurn, HandleMainSyncTurn,
       HandleBranchCleanupTurn, records
<1>2. CASE StartTurn(t)
  BY <1>2 DEF StartTurn, SuspendPushExecutionTurn, HandlePrCreationExecutionTurn,
       HandleMergeExecutionTurn, SuspendMainSyncTurn, HandleRemoteBranchCleanupExecutionTurn, records
<1>3. CASE TurnStep(t)
  BY <1>3 DEF TurnStep, RunCodeGenerationPreview, ResumePushExecutionTurn, CheckBranches,
       FindOpenPullRequest, PostPullRequest, ReceivePullRequest, GetMergePreflight, PutMerge,
       ReceiveMerge, GetRemoteRefCommit, ResumeMainSyncTurn, ConfirmMerged, GetRemoteBranchCommit,
       RereadRemoteBranch, ReadRemoteBranch, DeleteRemoteBranch, ReceiveDelete, records
<1> QED
  BY <1>1, <1>2, <1>3 DEF Crash, Human, records

(* Whatever the step, the table of requests only grows.                    *)
LEMMA NextGrows ==
    ASSUME TypeOK, RefsExist, PlansKnown, [Next]_vars
    PROVE  approvals' \in [ApprovalIds -> Requests] /\ Grows
<1>1. CASE UNCHANGED approvals
  BY <1>1 DEF TypeOK, Requests, Grows
<1> QED
  BY <1>1, GateTurnGrows, PlanningTurnGrows, OtherTurnsKeepApprovals DEF Next, Saves, vars

-----------------------------------------------------------------------------
(* A slot keeps its copy of the anchor from the turn's start to its end,   *)
(* and its step moves within what that copy's status permits.              *)

Permitted(a, pc) ==
    /\ a.kind = "apply"
    /\ pc \in DOMAIN SuspendedAt /\ a.status = SuspendedAt[pc]
    /\ a.status = "MERGE_APPROVED" => a.pr # None

Flows(t) ==
    \/ turns'[t] = turns[t]
    \/ turns'[t] = Idle
    \/ turns'[t].task = turns[t].task /\ turns'[t].pc \in DOMAIN SuspendedAt
       /\ turns[t].pc \in DOMAIN SuspendedAt
       /\ SuspendedAt[turns'[t].pc] = SuspendedAt[turns[t].pc]
    \/ /\ turns'[t].task = task
       /\ \/ turns'[t].pc = "codegen" /\ task.kind = "plan"
          \/ Permitted(task, turns'[t].pc)

Flow == turns' \in [Turns -> TurnRecords] /\ \A t \in Turns : Flows(t)

(* A step that touches no suspended turn.                                  *)
LEMMA UnchangedFlow == ASSUME TypeOK, UNCHANGED turns PROVE Flow
BY DEF TypeOK, TurnRecords, Flow, Flows

(* A turn that ends frees its slot.                                        *)
LEMMA EndFlow ==
    ASSUME TypeOK, NEW t \in Turns, NEW said, End(t, said)
    PROVE  Flow
BY IdleTypes DEF TypeOK, TurnRecords, End, Flow, Flows

(* A turn that anchors its snapshot frees its slot.                        *)
LEMMA SnapshotFlow ==
    ASSUME TypeOK, NEW t \in Turns, NEW a, AnchorSnapshot(t, a)
    PROVE  Flow
BY EndFlow DEF AnchorSnapshot

(* A turn that moves on keeps the anchor it read.                          *)
LEMMA ResumeFlow ==
    ASSUME TypeOK, NEW t \in Turns, NEW pc \in DOMAIN SuspendedAt, Resume(t, pc),
           turns[t].pc \in DOMAIN SuspendedAt, SuspendedAt[pc] = SuspendedAt[turns[t].pc]
    PROVE  Flow
<1>1. pc \in Steps
  BY DEF SuspendedAt, Steps
<1> QED
  BY <1>1 DEF TypeOK, TurnRecords, Resume, Flow, Flows

(* A turn that suspends keeps the anchor that is stored now.               *)
LEMMA SuspendFlow ==
    ASSUME TypeOK, NEW t \in Turns, NEW pc, NEW hash \in MaybeTip, Suspend(t, pc, hash),
           (pc = "codegen" /\ task.kind = "plan") \/ Permitted(task, pc)
    PROVE  Flow
<1>1. pc \in Steps
  BY DEF Permitted, SuspendedAt, Steps
<1> QED
  BY <1>1 DEF TypeOK, TurnRecords, Suspend, Flow, Flows

(* A request that was carried out is remembered with its answer.           *)
LEMMA AnswerFlow ==
    ASSUME TypeOK, NEW t \in Turns, NEW pc \in DOMAIN SuspendedAt, NEW pr \in PrIds \cup {None},
           NEW hash \in MaybeTip, AwaitAnswer(t, pc, pr, hash),
           turns[t].pc \in DOMAIN SuspendedAt, SuspendedAt[pc] = SuspendedAt[turns[t].pc]
    PROVE  Flow
<1>1. pc \in Steps
  BY DEF SuspendedAt, Steps
<1> QED
  BY <1>1 DEF TypeOK, TurnRecords, AwaitAnswer, Flow, Flows

(* An execution turn suspends at the status its mutation needs.            *)
LEMMA StartTurnFlow ==
    ASSUME TypeOK, NEW t \in Turns, StartTurn(t)
    PROVE  Flow
<1>1. local["main"] \in MaybeTip /\ None \in MaybeTip
  BY DEF TypeOK, WorldTypeOK, MaybeTip, Branches
<1> USE SuspendFlow, <1>1 DEF AnchoredAt, Anchored, Permitted, SuspendedAt
<1>2. CASE SuspendPushExecutionTurn(t)
  BY <1>2 DEF SuspendPushExecutionTurn, PushExecutionChecks
<1>3. CASE HandlePrCreationExecutionTurn(t)
  BY <1>3 DEF HandlePrCreationExecutionTurn
<1>4. CASE HandleMergeExecutionTurn(t)
  BY <1>4 DEF HandleMergeExecutionTurn
<1>5. CASE SuspendMainSyncTurn(t)
  BY <1>5 DEF SuspendMainSyncTurn, MainSyncChecks
<1>6. CASE HandleRemoteBranchCleanupExecutionTurn(t)
  BY <1>6 DEF HandleRemoteBranchCleanupExecutionTurn
<1> QED
  BY <1>2, <1>3, <1>4, <1>5, <1>6 DEF StartTurn

(* Each reply moves a turn to its next request or ends it.                 *)
LEMMA TurnStepFlow ==
    ASSUME TypeOK, RefsExist, SuspendedWithinStatus, NEW t \in Turns, TurnStep(t)
    PROVE  Flow
<1>0. /\ origin["feature"] \in MaybeTip
      /\ None \in MaybeTip
      /\ turns[t].task \in Tasks
  BY DEF TypeOK, WorldTypeOK, Branches, MaybeTip
<1> USE EndFlow, SnapshotFlow, ResumeFlow, AnswerFlow, <1>0 DEF SuspendedAt
<1>1. CASE RunCodeGenerationPreview(t)
  BY <1>1 DEF RunCodeGenerationPreview
<1>2. CASE ResumePushExecutionTurn(t)
  BY <1>2 DEF ResumePushExecutionTurn
<1>3. CASE CheckBranches(t)
  BY <1>3 DEF CheckBranches
<1>4. CASE FindOpenPullRequest(t)
  BY <1>4 DEF FindOpenPullRequest
<1>5. CASE PostPullRequest(t)
  BY <1>5 DEF PostPullRequest
<1>6. CASE ReceivePullRequest(t)
  BY <1>6 DEF ReceivePullRequest
<1>7. CASE GetMergePreflight(t)
  BY <1>7 DEF GetMergePreflight
<1>8. CASE PutMerge(t)
  <2>1. turns[t].pc = "mergePut" /\ turns[t].task.pr \in PrIds
    BY <1>8 DEF PutMerge, SuspendedWithinStatus, Tasks
  <2>2. ASSUME MergePullRequest(turns[t].task.pr)
        PROVE  origin'["main"] \in MaybeTip
    BY <2>1, <2>2, MergePullRequestOK DEF TypeOK, WorldOK, WorldTypeOK, Branches
  <2> QED
    BY <1>8, <2>1, <2>2 DEF PutMerge
<1>9. CASE ReceiveMerge(t)
  BY <1>9 DEF ReceiveMerge
<1>10. CASE GetRemoteRefCommit(t)
  BY <1>10 DEF GetRemoteRefCommit
<1>11. CASE ResumeMainSyncTurn(t)
  BY <1>11 DEF ResumeMainSyncTurn
<1>12. CASE ConfirmMerged(t)
  BY <1>12 DEF ConfirmMerged
<1>13. CASE GetRemoteBranchCommit(t)
  BY <1>13 DEF GetRemoteBranchCommit, ReadRemoteBranch
<1>14. CASE RereadRemoteBranch(t)
  BY <1>14 DEF RereadRemoteBranch, ReadRemoteBranch
<1>15. CASE DeleteRemoteBranch(t)
  BY <1>15 DEF DeleteRemoteBranch
<1>16. CASE ReceiveDelete(t)
  BY <1>16 DEF ReceiveDelete
<1> QED
  BY <1>1, <1>2, <1>3, <1>4, <1>5, <1>6, <1>7, <1>8, <1>9, <1>10, <1>11, <1>12, <1>13, <1>14,
     <1>15, <1>16 DEF TurnStep

(* An approved plan suspends on the AI; nothing else there suspends.       *)
LEMMA PlanningTurnFlow ==
    ASSUME TypeOK, NEW kept, PlanningTurn(kept)
    PROVE  Flow
<1>1. ASSUME NEW id \in ApprovalIds, HandleApprovalTurn(id)
      PROVE  Flow
  BY <1>1, SuspendFlow, UnchangedFlow DEF HandleApprovalTurn, PlanApprovals, MaybeTip
<1> QED
  BY <1>1, UnchangedFlow
     DEF PlanningTurn, RegisterProject, ClearStale, HandleExecutionIntent, AskForScope,
         HandleScopeClarificationTurn, RunResolvedExecution

(* Whatever the step, a slot ends, moves on, or takes the stored anchor.   *)
LEMMA NextFlow ==
    ASSUME TypeOK, RefsExist, SuspendedWithinStatus, [Next]_vars
    PROVE  Flow
<1>1. CASE UNCHANGED turns
  BY <1>1, UnchangedFlow
<1>2. ASSUME NEW kept, GateTurn(kept)
      PROVE  Flow
  BY <1>1, <1>2
     DEF GateTurn, HandleApplyIntentTurn, HandleApplyApprovalTurn, HandleCommitApprovalTurn,
         HandleCommitApprovalDecisionTurn, HandlePushApprovalTurn, HandlePushApprovalDecisionTurn,
         HandlePrApprovalTurn, HandlePrApprovalDecisionTurn, HandleMergeApprovalTurn,
         HandleMergeApprovalDecisionTurn, HandleRemoteBranchCleanupApprovalTurn,
         HandleRemoteBranchCleanupDecisionTurn, RequestGate, DecideGate
<1>3. ASSUME NEW saved, NEW kept, LocalTurn(saved, kept)
      PROVE  Flow
  BY <1>1, <1>3
     DEF LocalTurn, HandlePatchGenerationTurn, HandleWorkspaceApplyTurn, HandleCommitExecutionTurn,
         HandlePushExecutionTurn, HandleMainSyncTurn, HandleBranchCleanupTurn
<1>4. CASE Crash
  BY <1>4, IdleTypes DEF Crash, Flow, Flows
<1>5. CASE Human
  BY <1>1, <1>5 DEF Human
<1> QED
  BY <1>1, <1>2, <1>3, <1>4, <1>5, PlanningTurnFlow, StartTurnFlow, TurnStepFlow DEF Next, vars

(* What flows remains within its status.                                   *)
LEMMA FlowSuspended ==
    ASSUME SuspendedWithinStatus, Flow
    PROVE  SuspendedWithinStatus'
<1>1. "codegen" \notin DOMAIN SuspendedAt /\ "idle" \notin DOMAIN SuspendedAt
  BY DEF SuspendedAt
<1> QED
  BY <1>1 DEF SuspendedWithinStatus, Flow, Flows, Permitted, Idle

-----------------------------------------------------------------------------
(* The repositories.                                                       *)

Scalars ==
    /\ project \in Projects \cup {None}
    /\ applied \subseteq Plans
    /\ overclaims \subseteq Steps

(* A synchronous execution turn keeps the repositories well formed.        *)
LEMMA LocalTurnWorld ==
    ASSUME TypeOK, RefsExist, PlansKnown, NEW saved \in BOOLEAN, NEW kept \in BOOLEAN,
           LocalTurn(saved, kept)
    PROVE  WorldOK' /\ Scalars'
<1>1. WorldOK /\ Scalars
  BY DEF TypeOK, WorldOK, Scalars
<1>2. UNCHANGED <<project, overclaims>>
  BY DEF LocalTurn, HandlePatchGenerationTurn, HandleWorkspaceApplyTurn, HandleCommitExecutionTurn,
         HandlePushExecutionTurn, HandleMainSyncTurn, HandleBranchCleanupTurn, Anchor
<1>3. CASE UNCHANGED <<world, applied>>
  BY <1>1, <1>2, <1>3 DEF WorldOK, WorldTypeOK, RefsExist, Scalars, world
<1>4. CASE HandleWorkspaceApplyTurn(saved, kept)
  <2>1. task.plan \in Plans
    BY <1>4, AnchoredPlan DEF HandleWorkspaceApplyTurn, AnchoredAt
  <2>2. applied' \subseteq Plans /\ worktree' \in Tips
    BY <1>1, <1>4, <2>1
       DEF HandleWorkspaceApplyTurn, ApplyDiff, Scalars, WorldOK, WorldTypeOK, Tips, Changes
  <2> QED
    BY <1>1, <1>2, <1>4, <2>2
       DEF HandleWorkspaceApplyTurn, Scalars, WorldOK, WorldTypeOK, RefsExist
<1>5. CASE HandleCommitExecutionTurn(kept)
  BY <1>1, <1>2, <1>5, CommitFilesOK DEF HandleCommitExecutionTurn, Scalars, records
<1>6. CASE HandlePushExecutionTurn(kept)
  BY <1>1, <1>2, <1>6, PushHeadOK DEF HandlePushExecutionTurn, Scalars, records
<1>7. CASE HandleMainSyncTurn(kept)
  BY <1>1, <1>2, <1>7, SyncMainOK DEF HandleMainSyncTurn, Scalars, records
<1>8. CASE HandleBranchCleanupTurn(kept)
  BY <1>1, <1>2, <1>8, DeleteLocalOK
     DEF HandleBranchCleanupTurn, LocalBranchDeletable, Scalars, records
<1> QED
  BY <1>3, <1>4, <1>5, <1>6, <1>7, <1>8 DEF LocalTurn, HandlePatchGenerationTurn, records

(* So does every step of a suspended turn.                                 *)
LEMMA TurnStepWorld ==
    ASSUME TypeOK, RefsExist, SuspendedWithinStatus, NEW t \in Turns, TurnStep(t)
    PROVE  WorldOK' /\ Scalars'
<1>1. WorldOK /\ Scalars /\ turns[t].pc \in Steps /\ turns[t].project \in Projects \cup {None}
  BY DEF TypeOK, WorldOK, Scalars
<1>2. ASSUME NEW said, End(t, said)
      PROVE  overclaims' \subseteq Steps
  BY <1>1, <1>2 DEF End, Scalars
<1>3. ASSUME NEW a, AnchorSnapshot(t, a)
      PROVE  overclaims' \subseteq Steps /\ project' \in Projects \cup {None}
  BY <1>1, <1>2, <1>3 DEF AnchorSnapshot
<1>4. Scalars'
  BY <1>1, <1>2, <1>3
     DEF Scalars, TurnStep, RunCodeGenerationPreview, ResumePushExecutionTurn, CheckBranches,
         FindOpenPullRequest, PostPullRequest, ReceivePullRequest, GetMergePreflight, PutMerge,
         ReceiveMerge, GetRemoteRefCommit, ResumeMainSyncTurn, ConfirmMerged,
         GetRemoteBranchCommit, RereadRemoteBranch, ReadRemoteBranch, DeleteRemoteBranch,
         ReceiveDelete, records, session
<1>5. CASE UNCHANGED world
  BY <1>1, <1>4, <1>5 DEF WorldOK, WorldTypeOK, RefsExist, world
<1>6. CASE ResumePushExecutionTurn(t)
  BY <1>1, <1>4, <1>5, <1>6, PushHeadOK DEF ResumePushExecutionTurn
<1>7. CASE PostPullRequest(t)
  BY <1>1, <1>4, <1>5, <1>7, CreatePullRequestOK DEF PostPullRequest
<1>8. CASE PutMerge(t)
  <2>1. turns[t].pc = "mergePut" => turns[t].task.pr \in PrIds
    BY DEF TypeOK, SuspendedWithinStatus, SuspendedAt, Tasks
  <2> QED
    BY <1>1, <1>4, <1>5, <1>8, <2>1, MergePullRequestOK DEF PutMerge
<1>9. CASE ResumeMainSyncTurn(t)
  BY <1>1, <1>4, <1>5, <1>9, SyncMainOK DEF ResumeMainSyncTurn
<1>10. CASE DeleteRemoteBranch(t)
  BY <1>1, <1>4, <1>5, <1>10, DeleteRemoteOK DEF DeleteRemoteBranch
<1> QED
  BY <1>4, <1>5, <1>6, <1>7, <1>8, <1>9, <1>10
     DEF TurnStep, RunCodeGenerationPreview, CheckBranches, FindOpenPullRequest,
         ReceivePullRequest, GetMergePreflight, ReceiveMerge, GetRemoteRefCommit, ConfirmMerged,
         GetRemoteBranchCommit, RereadRemoteBranch, ReadRemoteBranch, ReceiveDelete

(* So does everything people do.                                           *)
LEMMA HumanWorld ==
    ASSUME TypeOK, RefsExist, Human
    PROVE  WorldOK' /\ Scalars'
<1>1. WorldOK /\ Scalars'
  BY DEF TypeOK, WorldOK, Scalars, Human, session, records
<1> QED
  BY <1>1, HumanEditOK, HumanCommitOK, HumanCloneOK, HumanRemotePushOK, HumanPrOK, DeleteRemoteOK
     DEF Human, RemotePush, HumanDelete, Foreign, Branches

(* Whatever the step, the repositories stay well formed.                   *)
LEMMA NextWorld ==
    ASSUME TypeOK, RefsExist, PlansKnown, SuspendedWithinStatus, [Next]_vars
    PROVE  WorldOK' /\ Scalars'
<1>1. WorldOK /\ Scalars
  BY DEF TypeOK, WorldOK, Scalars
<1>2. CASE UNCHANGED <<world, applied, overclaims>> /\ project' \in Projects \cup {None}
  BY <1>1, <1>2 DEF WorldOK, WorldTypeOK, RefsExist, Scalars, world
<1>3. ASSUME NEW kept, PlanningTurn(kept)
      PROVE  WorldOK' /\ Scalars'
  BY <1>1, <1>2, <1>3
     DEF PlanningTurn, RegisterProject, ClearStale, HandleExecutionIntent, AskForScope,
         HandleScopeClarificationTurn, RunResolvedExecution, HandleApprovalTurn, Anchor,
         session, records, Scalars
<1>4. ASSUME NEW kept, GateTurn(kept)
      PROVE  WorldOK' /\ Scalars'
  BY <1>1, <1>2, <1>4
     DEF GateTurn, HandleApplyIntentTurn, HandleApplyApprovalTurn, HandleCommitApprovalTurn,
         HandleCommitApprovalDecisionTurn, HandlePushApprovalTurn, HandlePushApprovalDecisionTurn,
         HandlePrApprovalTurn, HandlePrApprovalDecisionTurn, HandleMergeApprovalTurn,
         HandleMergeApprovalDecisionTurn, HandleRemoteBranchCleanupApprovalTurn,
         HandleRemoteBranchCleanupDecisionTurn, RequestGate, DecideGate, Anchor, Scalars
<1>5. ASSUME NEW t \in Turns, StartTurn(t)
      PROVE  WorldOK' /\ Scalars'
  BY <1>1, <1>2, <1>5
     DEF StartTurn, SuspendPushExecutionTurn, HandlePrCreationExecutionTurn,
         HandleMergeExecutionTurn, SuspendMainSyncTurn, HandleRemoteBranchCleanupExecutionTurn,
         session, records, Scalars
<1>6. CASE Crash \/ UNCHANGED vars
  BY <1>1, <1>2, <1>6 DEF Crash, vars, session, records, Scalars
<1> QED
  BY <1>3, <1>4, <1>5, <1>6, LocalTurnWorld, TurnStepWorld, HumanWorld DEF Next, Saves

-----------------------------------------------------------------------------
(* The anchors.                                                            *)

Backed(a, table) ==
    \A g \in ApplyGates :
        /\ a.approval[g] # None =>
              /\ table[a.approval[g]].gate = g
              /\ table[a.approval[g]].plan = a.plan
              /\ table[a.approval[g]].status # "NONE"
        /\ Reached(a, Approved[g]) =>
              a.approval[g] # None /\ table[a.approval[g]].status = "APPROVED"

Sound(a, table) ==
    /\ a \in Tasks
    /\ a.kind \in {"plan", "apply"} => a.plan \in Plans
    /\ Backed(a, table)

AllSound == \A a \in AnchorCopies : Sound(a, approvals)

(* The invariant says that every copy of the anchor is sound.              *)
LEMMA InvariantSound ==
    ASSUME TypeOK
    PROVE  AllSound <=> PlansKnown /\ ApprovalsMatch /\ ChainApproved
<1>1. \A a \in AnchorCopies : a \in Tasks
  BY DEF TypeOK, AnchorCopies
<1> QED
  BY <1>1 DEF AllSound, Sound, Backed, PlansKnown, ApprovalsMatch, ChainApproved, Granted

(* A sound anchor stays sound while the table grows.                       *)
LEMMA SoundPersists ==
    ASSUME approvals \in [ApprovalIds -> Requests], Grows, NEW a, Sound(a, approvals)
    PROVE  Sound(a, approvals')
<1>1. ASSUME NEW g \in ApplyGates, a.approval[g] # None
      PROVE  /\ approvals'[a.approval[g]].gate = g
             /\ approvals'[a.approval[g]].plan = a.plan
             /\ approvals'[a.approval[g]].status # "NONE"
             /\ approvals[a.approval[g]].status = "APPROVED" =>
                   approvals'[a.approval[g]].status = "APPROVED"
  <2> DEFINE id == a.approval[g]
  <2>1. id \in ApprovalIds
    BY <1>1 DEF Sound, Tasks
  <2>2. approvals[id].gate = g /\ approvals[id].plan = a.plan /\ approvals[id].status # "NONE"
    BY <1>1 DEF Sound, Backed
  <2>3. \/ approvals'[id] = approvals[id]
        \/ /\ approvals[id].status = "PENDING"
           /\ \E verdict \in {"APPROVED", "REJECTED"} :
                 approvals'[id] = [approvals[id] EXCEPT !.status = verdict]
    BY <2>1, <2>2 DEF Grows
  <2>4. approvals[id] \in Requests
    BY <2>1
  <2> HIDE DEF id
  <2>5. /\ approvals'[id].gate = g
        /\ approvals'[id].plan = a.plan
        /\ approvals'[id].status # "NONE"
        /\ approvals[id].status = "APPROVED" => approvals'[id].status = "APPROVED"
    BY <2>2, <2>3, <2>4 DEF Requests
  <2> QED
    BY <2>5 DEF id
<1> QED
  BY <1>1 DEF Sound, Backed

(* An anchor without approvals, before the first gate.                     *)
LEMMA NewIsSound ==
    ASSUME NEW a \in Tasks, NEW table, a.kind \in {"plan", "apply"} => a.plan \in Plans,
           a.status \in {"NONE", "ELIGIBLE"}, a.approval = NoTask.approval
    PROVE  Sound(a, table)
BY DEF Sound, Backed, Reached, Rank, Status, Approved, ApplyGates, NoTask

(* Moving on without passing a gate.                                       *)
LEMMA AdvanceIsSound ==
    ASSUME NEW a, NEW table, Sound(a, table), NEW b \in Tasks,
           b.kind = a.kind, b.plan = a.plan, b.approval = a.approval,
           \A g \in ApplyGates : Reached(b, Approved[g]) => Reached(a, Approved[g])
    PROVE  Sound(b, table)
BY DEF Sound, Backed

(* Halting at a gate with a fresh request.                                 *)
LEMMA RequestIsSound ==
    ASSUME NEW a, NEW table, Sound(a, table), NEW b \in Tasks, NEW g \in ApplyGates, NEW id,
           b.kind = a.kind, b.plan = a.plan, b.approval = [a.approval EXCEPT ![g] = id],
           a.status = Durable[g], b.status = Pending[g],
           table[id].gate = g, table[id].plan = a.plan, table[id].status = "PENDING"
    PROVE  Sound(b, table)
<1>1. /\ a.approval \in [ApplyGates -> ApprovalIds \cup {None}]
      /\ a.status \in Status /\ b.status \in Status
  BY GateTables DEF Sound, Tasks
<1>2. \A h \in ApplyGates : Reached(b, Approved[h]) => h # g /\ Reached(a, Approved[h])
  BY <1>1, GateTables DEF Reached
<1> QED
  BY <1>1, <1>2 DEF Sound, Backed

(* Granting a gate, and refusing it.                                       *)
LEMMA GrantIsSound ==
    ASSUME NEW a, NEW table, Sound(a, table), NEW b \in Tasks, NEW g \in ApplyGates,
           b.kind = a.kind, b.plan = a.plan, b.approval = a.approval,
           a.status = Pending[g], b.status = Approved[g],
           a.approval[g] # None, table[a.approval[g]].status = "APPROVED"
    PROVE  Sound(b, table)
<1>1. \A h \in ApplyGates : Reached(b, Approved[h]) => h = g \/ Reached(a, Approved[h])
  BY GateTables DEF Reached
<1> QED
  BY <1>1 DEF Sound, Backed

(* A refused gate gives up its own request and no other.                   *)
LEMMA RefusalIsSound ==
    ASSUME NEW a, NEW table, Sound(a, table), NEW b \in Tasks, NEW g \in ApplyGates,
           b.kind = a.kind, b.plan = a.plan, b.approval = [a.approval EXCEPT ![g] = None],
           a.status = Pending[g], b.status = Durable[g]
    PROVE  Sound(b, table)
<1>1. a.approval \in [ApplyGates -> ApprovalIds \cup {None}]
  BY DEF Sound, Tasks
<1>2. \A h \in ApplyGates : Reached(b, Approved[h]) => h # g /\ Reached(a, Approved[h])
  BY GateTables DEF Reached
<1> QED
  BY <1>1, <1>2 DEF Sound, Backed

(* Every copy is still sound after the step.                               *)
LEMMA CopiesPersist ==
    ASSUME IInv, [Next]_vars
    PROVE  /\ \A a \in AnchorCopies : Sound(a, approvals) /\ Sound(a, approvals')
           /\ approvals' \in [ApprovalIds -> Requests]
           /\ task \in AnchorCopies /\ \A t \in Turns : turns[t].task \in AnchorCopies
<1>1. approvals \in [ApprovalIds -> Requests]
  BY DEF IInv, TypeOK, Requests
<1> QED
  BY <1>1, InvariantSound, NextGrows, SoundPersists DEF IInv, AllSound, AnchorCopies

(* A save that is kept stores a sound anchor; a lost one keeps the old.    *)
LEMMA AnchorIsSound ==
    ASSUME NEW kept \in BOOLEAN, NEW a, NEW table, Anchor(kept, a), Sound(task, table),
           Sound(a, table)
    PROVE  Sound(task', table)
BY DEF Anchor

(* Asking for a gate from its durable status keeps every copy sound.       *)
LEMMA RequestGateSound ==
    ASSUME IInv, [Next]_vars, NEW kept \in BOOLEAN, NEW a \in Tasks, NEW g \in ApplyGates, NEW scope,
           a.kind = task.kind, a.plan = task.plan, a.approval = task.approval,
           task.status = Durable[g], RequestGate(g, scope, a, kept)
    PROVE  Sound(task', approvals')
<1>1. PICK id \in Fresh : /\ RequestForRisk(id, g, task.plan, scope)
                          /\ Anchor(kept, [a EXCEPT !.status = Pending[g],
                                                    !.approval = [@ EXCEPT ![g] = id]])
  BY DEF RequestGate
<1> DEFINE b == [a EXCEPT !.status = Pending[g], !.approval = [@ EXCEPT ![g] = id]]
<1>2. id \in ApprovalIds
  BY FreshIsUnused
<1>3. /\ b \in Tasks
      /\ b.kind = task.kind /\ b.plan = task.plan /\ b.status = Pending[g]
      /\ b.approval = [task.approval EXCEPT ![g] = id]
  BY <1>2, GateTables DEF Tasks
<1>4. /\ approvals'[id].gate = g
      /\ approvals'[id].plan = task.plan
      /\ approvals'[id].status = "PENDING"
  BY <1>1, <1>2 DEF RequestForRisk, IInv, TypeOK
<1>5. Sound(task, approvals')
  BY CopiesPersist
<1> HIDE DEF b
<1>6. Sound(b, approvals')
  BY <1>3, <1>4, <1>5, RequestIsSound
<1> QED
  BY <1>1, <1>5, <1>6, AnchorIsSound DEF b

(* Deciding a pending gate keeps every copy sound.                         *)
LEMMA DecideGateSound ==
    ASSUME IInv, [Next]_vars, NEW kept \in BOOLEAN, NEW a \in Tasks, NEW g \in ApplyGates,
           a.kind = task.kind, a.plan = task.plan, a.approval = task.approval,
           DecideGate(g, a, kept)
    PROVE  Sound(task', approvals')
<1> DEFINE id == task.approval[g]
           granted == [task EXCEPT !.status = Approved[g]]
           refused == [a EXCEPT !.status = Durable[g], !.approval = [@ EXCEPT ![g] = None]]
<1>1. Sound(task, approvals') /\ task \in Tasks
  BY CopiesPersist DEF Sound
<1>2. id # None /\ task.status = Pending[g]
  BY DEF DecideGate, AnchoredAt
<1>3. CASE Decide(id, "APPROVED") /\ Anchor(kept, granted)
  <2>1. approvals'[id].status = "APPROVED"
    BY <1>1, <1>2, <1>3 DEF Decide, IInv, TypeOK, Tasks
  <2>2. /\ granted \in Tasks /\ granted.kind = task.kind /\ granted.plan = task.plan
        /\ granted.approval = task.approval /\ granted.status = Approved[g]
    BY <1>1, GateTables DEF Tasks
  <2> HIDE DEF granted
  <2>3. Sound(granted, approvals')
    BY <1>1, <1>2, <2>1, <2>2, GrantIsSound
  <2> QED
    BY <1>1, <1>3, <2>3, AnchorIsSound
<1>4. CASE Decide(id, "REJECTED") /\ Anchor(kept, refused)
  <2>1. /\ refused \in Tasks /\ refused.kind = task.kind /\ refused.plan = task.plan
        /\ refused.approval = [task.approval EXCEPT ![g] = None]
        /\ refused.status = Durable[g]
    BY <1>1, GateTables DEF Tasks
  <2> HIDE DEF refused
  <2>2. Sound(refused, approvals')
    BY <1>1, <1>2, <2>1, RefusalIsSound
  <2> QED
    BY <1>1, <1>4, <2>2, AnchorIsSound
<1> QED
  BY <1>3, <1>4 DEF DecideGate

(* So does every turn at a gate.                                           *)
LEMMA GateTurnSound ==
    ASSUME IInv, [Next]_vars, NEW kept \in BOOLEAN, GateTurn(kept)
    PROVE  Sound(task', approvals')
<1>1. task \in Tasks /\ Sound(task, approvals')
  BY CopiesPersist DEF Sound
<1>2. Head \in MaybeTip /\ at \in Branches
  BY HeadExists DEF IInv, TypeOK, WorldTypeOK, WorldOK, MaybeTip
<1>3. \A f \in Evidence : task.ev[f] \in MaybeTip
  BY <1>1 DEF Tasks
<1>4. ASSUME NEW fields
      PROVE  /\ Cleared(fields) \in Tasks /\ [Cleared(fields) EXCEPT !.branch = None] \in Tasks
             /\ Cleared(fields).kind = task.kind /\ Cleared(fields).plan = task.plan
             /\ Cleared(fields).approval = task.approval
             /\ [Cleared(fields) EXCEPT !.branch = None].kind = task.kind
             /\ [Cleared(fields) EXCEPT !.branch = None].plan = task.plan
             /\ [Cleared(fields) EXCEPT !.branch = None].approval = task.approval
  BY <1>1, <1>3 DEF Cleared, Tasks, MaybeTip
<1> USE RequestGateSound, DecideGateSound, <1>1 DEF ApplyGates, AnchoredAt, Durable
<1>5. CASE HandleApplyIntentTurn(kept)
  BY <1>5 DEF HandleApplyIntentTurn
<1>6. CASE HandleApplyApprovalTurn(kept)
  <2> DEFINE id == task.approval["APPLY"]
             granted == [task EXCEPT !.status = "APPROVED"]
  <2>1. id \in ApprovalIds /\ task.status = "AWAITING_APPROVAL"
    BY <1>6 DEF HandleApplyApprovalTurn, Tasks
  <2>2. CASE Decide(id, "APPROVED") /\ Anchor(kept, granted)
    <3>1. approvals'[id].status = "APPROVED"
      BY <2>1, <2>2 DEF Decide, IInv, TypeOK
    <3>2. /\ granted \in Tasks /\ granted.kind = task.kind /\ granted.plan = task.plan
          /\ granted.approval = task.approval /\ granted.status = "APPROVED"
      BY DEF Tasks, Status, Rank
    <3> HIDE DEF granted
    <3>3. Sound(granted, approvals')
      BY <1>6, <2>1, <3>1, <3>2, GrantIsSound DEF Pending, Approved, HandleApplyApprovalTurn
    <3> QED
      BY <2>2, <3>3, AnchorIsSound
  <2>3. CASE Anchor(kept, NoTask)
    BY <2>3, NewIsSound, IdleTypes, AnchorIsSound DEF NoTask
  <2> QED
    BY <1>6, <2>2, <2>3 DEF HandleApplyApprovalTurn
<1>7. CASE HandleCommitApprovalTurn(kept)
  BY <1>7 DEF HandleCommitApprovalTurn
<1>8. CASE HandleCommitApprovalDecisionTurn(kept)
  BY <1>8 DEF HandleCommitApprovalDecisionTurn
<1>9. CASE HandlePushApprovalTurn(kept)
  <2> DEFINE a == [task EXCEPT !.branch = at, !.ev["pushCommitHash"] = Head]
  <2>1. a \in Tasks /\ a.kind = task.kind /\ a.plan = task.plan /\ a.approval = task.approval
    BY <1>2 DEF Tasks, Evidence
  <2> HIDE DEF a
  <2> QED
    BY <1>9, <2>1 DEF HandlePushApprovalTurn, a
<1>10. CASE HandlePushApprovalDecisionTurn(kept)
  BY <1>4, <1>10 DEF HandlePushApprovalDecisionTurn
<1>11. CASE HandlePrApprovalTurn(kept)
  <2> DEFINE a == [task EXCEPT !.ev["prPushedCommitHash"] = task.ev["pushedCommitHash"]]
  <2>1. a \in Tasks /\ a.kind = task.kind /\ a.plan = task.plan /\ a.approval = task.approval
    BY <1>3 DEF Tasks, Evidence
  <2> HIDE DEF a
  <2> QED
    BY <1>11, <2>1 DEF HandlePrApprovalTurn, a
<1>12. CASE HandlePrApprovalDecisionTurn(kept)
  BY <1>4, <1>12 DEF HandlePrApprovalDecisionTurn
<1>13. CASE HandleMergeApprovalTurn(kept)
  BY <1>13 DEF HandleMergeApprovalTurn
<1>14. CASE HandleMergeApprovalDecisionTurn(kept)
  BY <1>14 DEF HandleMergeApprovalDecisionTurn
<1>15. CASE HandleRemoteBranchCleanupApprovalTurn(kept)
  BY <1>15 DEF HandleRemoteBranchCleanupApprovalTurn
<1>16. CASE HandleRemoteBranchCleanupDecisionTurn(kept)
  BY <1>16 DEF HandleRemoteBranchCleanupDecisionTurn
<1> QED
  BY <1>5, <1>6, <1>7, <1>8, <1>9, <1>10, <1>11, <1>12, <1>13, <1>14, <1>15, <1>16 DEF GateTurn

(* So does every turn before the anchor.                                   *)
LEMMA PlanningTurnSound ==
    ASSUME IInv, [Next]_vars, NEW kept \in BOOLEAN, PlanningTurn(kept)
    PROVE  Sound(task', approvals')
<1>1. Sound(task, approvals') /\ project \in Projects \cup {None}
  BY CopiesPersist DEF IInv, TypeOK
<1>2. Sound(NoTask, approvals')
  BY NewIsSound, IdleTypes DEF NoTask
<1>3. Sound([NoTask EXCEPT !.kind = "scope", !.project = project], approvals')
  <2> DEFINE a == [NoTask EXCEPT !.kind = "scope", !.project = project]
  <2>1. a \in Tasks /\ a.kind = "scope" /\ a.status = "NONE" /\ a.approval = NoTask.approval
    BY <1>1, IdleTypes DEF NoTask, Tasks
  <2> QED
    BY <2>1, NewIsSound
<1>4. ASSUME NEW p \in Plans, RunResolvedExecution(p, kept)
      PROVE  Sound(task', approvals')
  <2>1. /\ PlanTask(p) \in Tasks /\ PlanTask(p).kind = "plan" /\ PlanTask(p).plan = p
        /\ PlanTask(p).status = "NONE" /\ PlanTask(p).approval = NoTask.approval
    BY <1>1, IdleTypes DEF PlanTask, NoTask, Tasks
  <2>2. Sound(PlanTask(p), approvals')
    BY <2>1, NewIsSound
  <2> QED
    BY <1>1, <1>4, <2>2, AnchorIsSound DEF RunResolvedExecution
<1> QED
  BY <1>1, <1>2, <1>3, <1>4
     DEF PlanningTurn, RegisterProject, ClearStale, HandleExecutionIntent, AskForScope,
         HandleScopeClarificationTurn, HandleApprovalTurn, session

(* The successes of the mutations pass no gate.                            *)
LEMMA SuccessIsSound ==
    ASSUME NEW a, NEW table, Sound(a, table), NEW b \in Tasks, NEW from, NEW to,
           b.kind = a.kind, b.plan = a.plan, b.approval = a.approval,
           a.status = from, b.status = to,
           <<from, to>> \in {<<"APPROVED", "PATCH_READY">>, <<"PATCH_READY", "WORKSPACE_APPLIED">>,
                             <<"COMMIT_APPROVED", "GIT_COMMITTED">>, <<"PUSH_APPROVED", "GIT_PUSHED">>,
                             <<"PR_APPROVED", "PR_CREATED">>, <<"MERGE_APPROVED", "PR_MERGED">>,
                             <<"PR_MERGED", "MAIN_SYNCED">>, <<"MAIN_SYNCED", "BRANCH_CLEANED">>,
                             <<"REMOTE_BRANCH_CLEANUP_APPROVED", "REMOTE_BRANCH_CLEANED">>}
    PROVE  Sound(b, table)
<1>1. \A g \in ApplyGates : Reached(b, Approved[g]) => Reached(a, Approved[g])
  BY DEF Reached, Rank, Status, Approved, ApplyGates
<1> QED
  BY <1>1, AdvanceIsSound

(* So does every synchronous execution turn.                               *)
LEMMA LocalTurnSound ==
    ASSUME IInv, [Next]_vars, NEW saved \in BOOLEAN, NEW kept \in BOOLEAN, LocalTurn(saved, kept)
    PROVE  Sound(task', approvals')
<1>1. task \in Tasks /\ Sound(task, approvals')
  BY CopiesPersist DEF Sound
<1>2. WorldOK
  BY DEF IInv, TypeOK, WorldOK
<1>3. ASSUME NEW to \in Status
      PROVE  LET b == [task EXCEPT !.status = to]
             IN  /\ b \in Tasks /\ b.kind = task.kind /\ b.plan = task.plan
                 /\ b.approval = task.approval /\ b.status = to
  BY <1>1 DEF Tasks
<1>4. ASSUME NEW k \in BOOLEAN, NEW b, Anchor(k, b), b \in Tasks, b.kind = task.kind,
             b.plan = task.plan, b.approval = task.approval,
             <<task.status, b.status>> \in
                 {<<"APPROVED", "PATCH_READY">>, <<"PATCH_READY", "WORKSPACE_APPLIED">>,
                  <<"COMMIT_APPROVED", "GIT_COMMITTED">>, <<"PUSH_APPROVED", "GIT_PUSHED">>,
                  <<"PR_MERGED", "MAIN_SYNCED">>, <<"MAIN_SYNCED", "BRANCH_CLEANED">>}
      PROVE  Sound(task', approvals')
  BY <1>1, <1>4, SuccessIsSound, AnchorIsSound
<1>5. {"PATCH_READY", "WORKSPACE_APPLIED", "BRANCH_CLEANED"} \subseteq Status
  BY DEF Status, Rank
<1>6. CASE HandlePatchGenerationTurn(kept)
  BY <1>3, <1>4, <1>5, <1>6 DEF HandlePatchGenerationTurn, AnchoredAt
<1>7. CASE HandleWorkspaceApplyTurn(saved, kept)
  BY <1>3, <1>4, <1>5, <1>7 DEF HandleWorkspaceApplyTurn, AnchoredAt
<1>8. CASE HandleCommitExecutionTurn(kept)
  <2> DEFINE b == [task EXCEPT !.status = "GIT_COMMITTED", !.ev["commitHash"] = Head \cup worktree]
  <2>1. Head \cup worktree \in MaybeTip
    BY <1>2, HeadExists, TipsClosed DEF WorldOK, WorldTypeOK, MaybeTip
  <2>2. /\ b \in Tasks /\ b.kind = task.kind /\ b.plan = task.plan
        /\ b.approval = task.approval /\ b.status = "GIT_COMMITTED"
    BY <1>1, <2>1 DEF Tasks, Evidence, Status, Rank
  <2> HIDE DEF b
  <2> QED
    BY <1>4, <1>8, <2>2 DEF HandleCommitExecutionTurn, AnchoredAt, b
<1>9. CASE HandlePushExecutionTurn(kept)
  <2>1. /\ Pushed(task) \in Tasks /\ Pushed(task).kind = task.kind
        /\ Pushed(task).plan = task.plan /\ Pushed(task).approval = task.approval
        /\ Pushed(task).status = "GIT_PUSHED"
    BY <1>1 DEF Pushed, Tasks, Evidence, Status, Rank
  <2> QED
    BY <1>4, <1>9, <2>1 DEF HandlePushExecutionTurn, PushExecutionChecks, AnchoredAt
<1>10. CASE HandleMainSyncTurn(kept)
  <2>1. /\ MainSynced(task) \in Tasks /\ MainSynced(task).kind = task.kind
        /\ MainSynced(task).plan = task.plan /\ MainSynced(task).approval = task.approval
        /\ MainSynced(task).status = "MAIN_SYNCED"
    BY <1>1 DEF MainSynced, Tasks, Evidence, Status, Rank
  <2>2. PICK k \in BOOLEAN : Anchor(k, MainSynced(task))
    BY <1>10 DEF HandleMainSyncTurn
  <2> QED
    BY <1>4, <1>10, <2>1, <2>2 DEF HandleMainSyncTurn, MainSyncChecks, AnchoredAt
<1>11. CASE HandleBranchCleanupTurn(kept)
  BY <1>3, <1>4, <1>5, <1>11 DEF HandleBranchCleanupTurn, AnchoredAt
<1> QED
  BY <1>6, <1>7, <1>8, <1>9, <1>10, <1>11 DEF LocalTurn

(* So does a suspended turn that writes its old anchor back.               *)
LEMMA TurnStepSound ==
    ASSUME IInv, [Next]_vars, NEW t \in Turns, TurnStep(t)
    PROVE  Sound(task', approvals')
<1> DEFINE copy == turns[t].task
           hash == turns[t].hash
<1>1. /\ Sound(task, approvals') /\ Sound(copy, approvals) /\ Sound(copy, approvals')
      /\ copy \in Tasks /\ hash \in MaybeTip /\ turns[t].pr \in PrIds \cup {None}
      /\ turns[t].project \in Projects \cup {None}
  BY CopiesPersist DEF Sound, IInv, TypeOK
<1>2. /\ turns[t].pc = "codegen" => copy.kind = "plan"
      /\ turns[t].pc \in DOMAIN SuspendedAt =>
            copy.status = SuspendedAt[turns[t].pc]
      /\ turns[t].pc = "mergePreflight" => copy.pr \in PrIds
  BY <1>1 DEF IInv, SuspendedWithinStatus, SuspendedAt, Tasks
<1>3. CASE UNCHANGED task
  BY <1>1, <1>3
<1>4. ASSUME NEW b, AnchorSnapshot(t, b), b \in Tasks, b.kind = copy.kind,
             b.plan = copy.plan, b.approval = copy.approval,
             <<copy.status, b.status>> \in
                 {<<"PUSH_APPROVED", "GIT_PUSHED">>, <<"PR_APPROVED", "PR_CREATED">>,
                  <<"MERGE_APPROVED", "PR_MERGED">>, <<"PR_MERGED", "MAIN_SYNCED">>,
                  <<"REMOTE_BRANCH_CLEANUP_APPROVED", "REMOTE_BRANCH_CLEANED">>}
      PROVE  Sound(task', approvals')
  BY <1>1, <1>4, SuccessIsSound DEF AnchorSnapshot
<1>5. CASE RunCodeGenerationPreview(t)
  <2> DEFINE b == [NoTask EXCEPT !.kind = "apply", !.plan = copy.plan,
                                 !.project = turns[t].project, !.status = "ELIGIBLE"]
  <2>1. copy.plan \in Plans
    BY <1>1, <1>2, <1>5 DEF RunCodeGenerationPreview, Sound
  <2>2. "ELIGIBLE" \in Status
    BY DEF Status, Rank
  <2>3. b \in Tasks
    BY <1>1, <2>1, <2>2, IdleTypes DEF Tasks
  <2>4. b.plan \in Plans /\ b.status = "ELIGIBLE" /\ b.approval = NoTask.approval
    BY <2>1 DEF NoTask
  <2>5. Sound(b, approvals')
    BY <2>3, <2>4, NewIsSound
  <2> QED
    BY <1>3, <1>5, <2>5 DEF RunCodeGenerationPreview, AnchorSnapshot, session
<1>6. CASE ResumePushExecutionTurn(t)
  <2>1. /\ Pushed(copy) \in Tasks /\ Pushed(copy).kind = copy.kind
        /\ Pushed(copy).plan = copy.plan /\ Pushed(copy).approval = copy.approval
        /\ Pushed(copy).status = "GIT_PUSHED"
    BY <1>1 DEF Pushed, Tasks, Evidence, Status, Rank
  <2> QED
    BY <1>2, <1>3, <1>4, <1>6, <2>1 DEF ResumePushExecutionTurn, SuspendedAt, session
<1>7. ASSUME NEW n \in PrIds \cup {None}, NEW h \in MaybeTip
      PROVE  /\ PrCreated(t, n, h) \in Tasks /\ PrCreated(t, n, h).kind = copy.kind
             /\ PrCreated(t, n, h).plan = copy.plan
             /\ PrCreated(t, n, h).approval = copy.approval
             /\ PrCreated(t, n, h).status = "PR_CREATED"
  BY <1>1 DEF PrCreated, Tasks, Evidence, Status, Rank
<1>8. CASE FindOpenPullRequest(t)
  <2>1. \A n \in OpenPrs : n \in PrIds /\ prs[n].head \in MaybeTip
    BY DEF OpenPrs, IInv, TypeOK, WorldTypeOK
  <2> QED
    BY <1>2, <1>3, <1>4, <1>7, <1>8, <2>1 DEF FindOpenPullRequest, SuspendedAt, session
<1>9. CASE ReceivePullRequest(t)
  BY <1>1, <1>2, <1>3, <1>4, <1>7, <1>9 DEF ReceivePullRequest, SuspendedAt, session
<1>10. ASSUME NEW head \in MaybeTip, NEW mergeCommit \in MaybeTip
       PROVE  LET b == PrMerged(t, head, mergeCommit)
              IN  /\ b \in Tasks /\ b.kind = copy.kind /\ b.plan = copy.plan
                  /\ b.approval = copy.approval /\ b.status = "PR_MERGED"
  BY <1>1 DEF PrMerged, Tasks, Evidence, Status, Rank
<1>11. CASE GetMergePreflight(t)
  <2>1. turns[t].pc = "mergePreflight"
    BY <1>11 DEF GetMergePreflight
  <2>2. prs[copy.pr].head \in MaybeTip /\ None \in MaybeTip
    BY <1>2, <2>1 DEF IInv, TypeOK, WorldTypeOK, MaybeTip
  <2> QED
    BY <1>2, <1>3, <1>4, <1>10, <1>11, <2>2 DEF GetMergePreflight, SuspendedAt, session
<1>12. CASE ReceiveMerge(t)
  <2>1. ExpectedHead(t) \in MaybeTip
    BY <1>1 DEF ExpectedHead, Tasks, Evidence
  <2> QED
    BY <1>1, <1>2, <1>3, <1>4, <1>10, <1>12, <2>1 DEF ReceiveMerge, SuspendedAt, session
<1>13. CASE ResumeMainSyncTurn(t)
  <2>1. /\ MainSynced(copy) \in Tasks /\ MainSynced(copy).kind = copy.kind
        /\ MainSynced(copy).plan = copy.plan /\ MainSynced(copy).approval = copy.approval
        /\ MainSynced(copy).status = "MAIN_SYNCED"
    BY <1>1 DEF MainSynced, Tasks, Evidence, Status, Rank
  <2> QED
    BY <1>2, <1>3, <1>4, <1>13, <2>1 DEF ResumeMainSyncTurn, SuspendedAt, session
<1>14. /\ RemoteCleaned(t) \in Tasks /\ RemoteCleaned(t).kind = copy.kind
       /\ RemoteCleaned(t).plan = copy.plan /\ RemoteCleaned(t).approval = copy.approval
       /\ RemoteCleaned(t).status = "REMOTE_BRANCH_CLEANED"
  BY <1>1 DEF RemoteCleaned, Tasks, Status, Rank
<1>15. CASE GetRemoteBranchCommit(t)
  BY <1>2, <1>3, <1>4, <1>14, <1>15
     DEF GetRemoteBranchCommit, ReadRemoteBranch, SuspendedAt, session
<1>16. CASE RereadRemoteBranch(t)
  BY <1>2, <1>3, <1>4, <1>14, <1>16 DEF RereadRemoteBranch, ReadRemoteBranch, SuspendedAt, session
<1>17. CASE ReceiveDelete(t)
  BY <1>2, <1>3, <1>4, <1>14, <1>17 DEF ReceiveDelete, SuspendedAt, session
<1> QED
  BY <1>3, <1>5, <1>6, <1>8, <1>9, <1>11, <1>12, <1>13, <1>15, <1>16, <1>17
     DEF TurnStep, CheckBranches, PostPullRequest, PutMerge, GetRemoteRefCommit, ConfirmMerged,
         DeleteRemoteBranch, session

(* Whatever the step, every copy of the anchor stays sound.                *)
LEMMA NextSound ==
    ASSUME IInv, [Next]_vars
    PROVE  AllSound' /\ task' \in Tasks
<1>1. Sound(task', approvals')
  <2>1. CASE UNCHANGED task
    BY <2>1, CopiesPersist
  <2>2. ASSUME NEW t, StartTurn(t)
        PROVE  UNCHANGED task
    BY <2>2 DEF StartTurn, SuspendPushExecutionTurn, HandlePrCreationExecutionTurn,
         HandleMergeExecutionTurn, SuspendMainSyncTurn, HandleRemoteBranchCleanupExecutionTurn,
         session
  <2> QED
    BY <2>1, <2>2, PlanningTurnSound, GateTurnSound, LocalTurnSound, TurnStepSound
       DEF Next, Saves, Crash, Human, session, vars
<1>2. \A t \in Turns : Sound(turns'[t].task, approvals')
  <2>1. Sound(NoTask, approvals')
    BY NewIsSound, IdleTypes DEF NoTask
  <2> QED
    BY <2>1, NextFlow, CopiesPersist DEF IInv, Flow, Flows, Idle
<1> QED
  BY <1>1, <1>2 DEF AllSound, AnchorCopies, Sound

-----------------------------------------------------------------------------
(* The mutations.                                                          *)

BackedMutation(m, table) ==
    /\ m \in Mutations
    /\ m.approval # None
    /\ table[m.approval].status = "APPROVED"
    /\ table[m.approval].gate = m.op
    /\ table[m.approval].plan = m.plan

(* A mutation made for a sound anchor past that gate is backed.            *)
LEMMA RecordBacked ==
    ASSUME IInv, [Next]_vars, NEW a \in AnchorCopies, NEW op \in ApplyGates,
           NEW scope \in MaybeTip, Reached(a, Approved[op]), Record(op, a, scope)
    PROVE  \A m \in mutations' : BackedMutation(m, approvals') \/ m \in mutations
<1>1. Sound(a, approvals')
  BY CopiesPersist
<1> DEFINE new == [op |-> op, approval |-> a.approval[op], plan |-> a.plan, scope |-> scope]
<1>2. BackedMutation(new, approvals')
  BY <1>1 DEF Sound, Backed, BackedMutation, Mutations, Tasks
<1> QED
  BY <1>2 DEF Record

(* A step only adds mutations that are backed, and none loses its backing. *)
LEMMA NextBacked ==
    ASSUME IInv, [Next]_vars
    PROVE  \A m \in mutations' : BackedMutation(m, approvals')
<1>1. \A m \in mutations : BackedMutation(m, approvals')
  <2>1. \A m \in mutations : m \in Mutations /\ BackedMutation(m, approvals)
    BY DEF IInv, TypeOK, MutationsBacked, BackedMutation, Mutations
  <2>2. Grows /\ approvals \in [ApprovalIds -> Requests]
    BY NextGrows DEF IInv, TypeOK, Requests
  <2>3. ASSUME NEW m \in mutations
        PROVE  approvals'[m.approval] = approvals[m.approval]
    <3>1. m.approval \in ApprovalIds /\ approvals[m.approval].status = "APPROVED"
      BY <2>1 DEF BackedMutation, Mutations
    <3> QED
      BY <2>2, <3>1 DEF Grows
  <2> QED
    BY <2>1, <2>3 DEF BackedMutation
<1>2. CASE UNCHANGED mutations
  BY <1>1, <1>2
<1>3. ASSUME NEW a \in AnchorCopies, NEW op \in ApplyGates, NEW scope \in MaybeTip,
             Reached(a, Approved[op]), Record(op, a, scope)
      PROVE  \A m \in mutations' : BackedMutation(m, approvals')
  BY <1>1, <1>3, RecordBacked
<1>4. /\ task \in AnchorCopies
      /\ WorldOK /\ Head \in MaybeTip /\ origin["feature"] \in MaybeTip
  BY HeadExists DEF AnchorCopies, IInv, TypeOK, WorldOK, WorldTypeOK, MaybeTip, Branches
<1>5. ASSUME NEW saved \in BOOLEAN, NEW kept \in BOOLEAN, LocalTurn(saved, kept)
      PROVE  \A m \in mutations' : BackedMutation(m, approvals')
  <2>1. CASE HandleWorkspaceApplyTurn(saved, kept)
    <3>1. Reached(task, Approved["APPLY"]) /\ {task.plan} \in MaybeTip
      BY <2>1, AnchoredPlan
         DEF HandleWorkspaceApplyTurn, AnchoredAt, IInv, Reached, Approved, Rank, Status
    <3> QED
      BY <1>2, <1>3, <1>4, <2>1, <3>1 DEF HandleWorkspaceApplyTurn, ApplyDiff, ApplyGates
  <2>2. CASE HandleCommitExecutionTurn(kept)
    <3>1. Reached(task, Approved["COMMIT"])
      BY <2>2 DEF HandleCommitExecutionTurn, AnchoredAt, Reached, Approved, Rank, Status
    <3>2. FilesOf(worktree, task.plan) \in MaybeTip
      BY <1>4, <2>2, AnchoredPlan, FilesAreTips
         DEF HandleCommitExecutionTurn, AnchoredAt, IInv, WorldOK, WorldTypeOK, MaybeTip
    <3> QED
      BY <1>3, <1>4, <2>2, <3>1, <3>2 DEF HandleCommitExecutionTurn, ApplyGates
  <2>3. CASE HandlePushExecutionTurn(kept)
    <3>1. Reached(task, Approved["PUSH"])
      BY <2>3
         DEF HandlePushExecutionTurn, PushExecutionChecks, AnchoredAt, Reached, Approved, Rank, Status
    <3> QED
      BY <1>3, <1>4, <2>3, <3>1 DEF HandlePushExecutionTurn, ApplyGates
  <2> QED
    BY <1>2, <1>5, <2>1, <2>2, <2>3
       DEF LocalTurn, HandlePatchGenerationTurn, HandleMainSyncTurn, HandleBranchCleanupTurn
<1>6. ASSUME NEW t \in Turns, TurnStep(t)
      PROVE  \A m \in mutations' : BackedMutation(m, approvals')
  <2>1. turns[t].task \in AnchorCopies
    BY DEF AnchorCopies
  <2>2. ASSUME NEW op \in ApplyGates, turns[t].pc \in DOMAIN SuspendedAt,
               SuspendedAt[turns[t].pc] = Approved[op]
        PROVE  Reached(turns[t].task, Approved[op])
    BY <2>2 DEF IInv, SuspendedWithinStatus, Reached, Approved, Rank, Status, ApplyGates
  <2>3. CASE ResumePushExecutionTurn(t)
    BY <1>2, <1>3, <1>4, <2>1, <2>2, <2>3
       DEF ResumePushExecutionTurn, SuspendedAt, Approved, ApplyGates
  <2>4. CASE PostPullRequest(t)
    BY <1>2, <1>3, <1>4, <2>1, <2>2, <2>4 DEF PostPullRequest, SuspendedAt, Approved, ApplyGates
  <2>5. CASE PutMerge(t)
    <3>1. turns[t].pc = "mergePut" => turns[t].task.pr \in PrIds
      BY DEF IInv, TypeOK, SuspendedWithinStatus, SuspendedAt, Tasks
    <3>2. turns[t].pc = "mergePut" => prs[turns[t].task.pr].head \in MaybeTip
      BY <1>4, <3>1 DEF WorldOK, WorldTypeOK
    <3> QED
      BY <1>2, <1>3, <2>1, <2>2, <2>5, <3>2 DEF PutMerge, SuspendedAt, Approved, ApplyGates
  <2>6. CASE DeleteRemoteBranch(t)
    BY <1>2, <1>3, <1>4, <2>1, <2>2, <2>6 DEF DeleteRemoteBranch, SuspendedAt, Approved, ApplyGates
  <2> QED
    BY <1>2, <1>6, <2>3, <2>4, <2>5, <2>6
       DEF TurnStep, RunCodeGenerationPreview, CheckBranches, FindOpenPullRequest,
           ReceivePullRequest, GetMergePreflight, ReceiveMerge, GetRemoteRefCommit,
           ResumeMainSyncTurn, ConfirmMerged, GetRemoteBranchCommit, RereadRemoteBranch,
           ReadRemoteBranch, ReceiveDelete
<1>7. ASSUME NEW kept, PlanningTurn(kept) \/ GateTurn(kept)
      PROVE  UNCHANGED mutations
  BY <1>7
     DEF PlanningTurn, RegisterProject, ClearStale, HandleExecutionIntent, AskForScope,
         HandleScopeClarificationTurn, RunResolvedExecution, HandleApprovalTurn, GateTurn,
         HandleApplyIntentTurn, HandleApplyApprovalTurn, HandleCommitApprovalTurn,
         HandleCommitApprovalDecisionTurn, HandlePushApprovalTurn, HandlePushApprovalDecisionTurn,
         HandlePrApprovalTurn, HandlePrApprovalDecisionTurn, HandleMergeApprovalTurn,
         HandleMergeApprovalDecisionTurn, HandleRemoteBranchCleanupApprovalTurn,
         HandleRemoteBranchCleanupDecisionTurn, RequestGate, DecideGate
<1>8. ASSUME NEW t, StartTurn(t)
      PROVE  UNCHANGED mutations
  BY <1>8
     DEF StartTurn, SuspendPushExecutionTurn, HandlePrCreationExecutionTurn,
         HandleMergeExecutionTurn, SuspendMainSyncTurn, HandleRemoteBranchCleanupExecutionTurn
<1> QED
  BY <1>2, <1>5, <1>6, <1>7, <1>8 DEF Next, Saves, Crash, Human, vars

-----------------------------------------------------------------------------
(* The invariant is inductive.                                             *)

(* The empty session satisfies the invariant.                              *)
LEMMA InitInvariant == Init => IInv
<1> SUFFICES ASSUME Init PROVE IInv
  OBVIOUS
<1>1. WorldOK
  BY WorldInitOK DEF Init
<1>2. TypeOK
  BY <1>1, IdleTypes, TipsClosed
     DEF Init, TypeOK, WorldOK, TurnRecords, NoRequest, Gates, MaybeTip
<1>3. AllSound
  <2>1. Sound(NoTask, approvals)
    BY NewIsSound, IdleTypes DEF NoTask
  <2> QED
    BY <2>1 DEF Init, AllSound, AnchorCopies, Idle
<1>4. SuspendedWithinStatus
  BY DEF Init, SuspendedWithinStatus, SuspendedAt, Idle
<1>5. MutationsBacked
  BY DEF Init, MutationsBacked
<1> QED
  BY <1>1, <1>2, <1>3, <1>4, <1>5, InvariantSound DEF IInv, WorldOK

(* Every step preserves the invariant.                                     *)
LEMMA NextInvariant == IInv /\ [Next]_vars => IInv'
<1> SUFFICES ASSUME IInv, [Next]_vars PROVE IInv'
  OBVIOUS
<1>1. WorldOK' /\ Scalars'
  BY NextWorld DEF IInv
<1>2. TypeOK'
  BY <1>1, CopiesPersist, NextFlow, NextSound, NextBacked
     DEF IInv, TypeOK, WorldOK, Scalars, Flow, TurnRecords, Requests, BackedMutation, Mutations
<1>3. PlansKnown' /\ ApprovalsMatch' /\ ChainApproved'
  <2>1. \A a \in AnchorCopies' : a \in Tasks /\ Sound(a, approvals')
    BY NextSound DEF AllSound, Sound
  <2> QED
    BY <2>1 DEF Sound, Backed, PlansKnown, ApprovalsMatch, ChainApproved, Granted
<1>4. SuspendedWithinStatus'
  BY NextFlow, FlowSuspended DEF IInv
<1>5. MutationsBacked'
  BY NextBacked DEF MutationsBacked, BackedMutation
<1> QED
  BY <1>1, <1>2, <1>3, <1>4, <1>5 DEF IInv, WorldOK

(* The inductive invariant holds in every reachable state: no anchor is    *)
(* ahead of its approvals and no mutation without one.                     *)
THEOREM Invariant == Spec => []IInv
BY InitInvariant, NextInvariant, PTL DEF Spec

(* Every reachable state is of the declared type, in particular every      *)
(* status written back is one of the union the handlers dispatch on.       *)
THEOREM TypeCorrect == Spec => []TypeOK
<1>1. IInv => TypeOK
  BY DEF IInv
<1> QED
  BY <1>1, Invariant, PTL

(* Every mutation of the clone or of the hosting service is paid for by an *)
(* APPROVED request of its own gate and its own plan, for any number of    *)
(* overlapping turns, crashes, lost saves and external events.             *)
THEOREM EveryMutationIsBacked == Spec => []MutationsBacked
<1>1. IInv => MutationsBacked
  BY DEF IInv
<1> QED
  BY <1>1, Invariant, PTL

(* No copy of the anchor, stored or held by a suspended turn, is ever past *)
(* a gate that was not granted.                                            *)
THEOREM NoGateIsSkipped == Spec => []ChainApproved
<1>1. IInv => ChainApproved
  BY DEF IInv
<1> QED
  BY <1>1, Invariant, PTL

(* The approval ids an anchor carries are those of its own gates and plan. *)
THEOREM AnchorsCarryTheirOwnApprovals == Spec => []ApprovalsMatch
<1>1. IInv => ApprovalsMatch
  BY DEF IInv
<1> QED
  BY <1>1, Invariant, PTL

(* A turn on the network stays within what the status it read permits.     *)
THEOREM TurnsStayWithinTheirStatus == Spec => []SuspendedWithinStatus
<1>1. IInv => SuspendedWithinStatus
  BY DEF IInv
<1> QED
  BY <1>1, Invariant, PTL

(* The checked-out branch and remote main always exist, whatever the       *)
(* cleanup turns delete.                                                   *)
THEOREM BranchesInUseExist == Spec => []RefsExist
<1>1. IInv => RefsExist
  BY DEF IInv
<1> QED
  BY <1>1, Invariant, PTL

(* A verdict is never revised and a pending request never altered.         *)
THEOREM RequestsAreDecidedOnce == Spec => DecidedOnce
<1>1. IInv /\ [Next]_vars =>
        \A id \in ApprovalIds :
           /\ approvals[id].status \in {"APPROVED", "REJECTED"} => approvals'[id] = approvals[id]
           /\ approvals[id].status = "PENDING" =>
                 approvals'[id] = [approvals[id] EXCEPT !.status = approvals'[id].status]
  <2> SUFFICES ASSUME IInv, [Next]_vars, NEW id \in ApprovalIds
               PROVE  /\ approvals[id].status \in {"APPROVED", "REJECTED"} =>
                            approvals'[id] = approvals[id]
                      /\ approvals[id].status = "PENDING" =>
                            approvals'[id] = [approvals[id] EXCEPT !.status = approvals'[id].status]
    OBVIOUS
  <2>1. approvals[id] \in Requests
    BY DEF IInv, TypeOK, Requests
  <2>2. Grows
    BY NextGrows DEF IInv
  <2> QED
    BY <2>1, <2>2 DEF Grows, Requests
<1> QED
  BY <1>1, Invariant, PTL DEF Spec, DecidedOnce

-----------------------------------------------------------------------------
(* PART 3. THE COMMITS.                                                    *)

(* What a request of gate g shows the user, in the anchor's own words.     *)
Shown(a) ==
    [APPLY |-> {a.plan}, COMMIT |-> {a.plan}, PUSH |-> a.ev["pushCommitHash"],
     PR |-> a.ev["prPushedCommitHash"], MERGE |-> a.ev["pullRequestCommitHash"],
     REMOTE |-> a.ev["mergedHeadSha"]]

(* An anchor carries requests only of gates it has reached, and each was   *)
(* made for what the anchor still says.                                    *)
Agrees(a, table) ==
    \A g \in ApplyGates :
        a.approval[g] # None =>
            /\ Reached(a, Pending[g])
            /\ table[a.approval[g]].scope = Shown(a)[g]

(* A push names its branch, a pull request is of the feature branch, and   *)
(* from there on the evidence names one commit.                            *)
Traced(a) ==
    /\ a.kind = "apply" => a.status \in Status
    /\ Reached(a, "PUSH_APPROVAL_PENDING") => a.branch \in Branches
    /\ Reached(a, "PR_APPROVAL_PENDING") => a.branch # "main"
    /\ Reached(a, "PR_APPROVAL_PENDING") => a.ev["prPushedCommitHash"] = a.ev["pushedCommitHash"]
    /\ Reached(a, "PR_CREATED") => a.ev["pullRequestCommitHash"] = a.ev["prPushedCommitHash"]
    /\ Reached(a, "PR_MERGED") => a.ev["mergedHeadSha"] = a.ev["pullRequestCommitHash"]

(* The commits are where the status says they are.                         *)
Real(a, clone, host) ==
    /\ Reached(a, "GIT_COMMITTED") => a.ev["commitHash"] \subseteq Held(clone)
    /\ Reached(a, "PR_MERGED") => a.ev["mergedHeadSha"] \subseteq host["main"]
    /\ Reached(a, "MAIN_SYNCED") =>
          a.ev["syncedMainCommit"] \subseteq clone["main"] \cap host["main"]
    /\ Reached(a, "BRANCH_CLEANED") => clone["feature"] = None

Honest(a, table, clone, host) ==
    Agrees(a, table) /\ Traced(a) /\ Real(a, clone, host)

(* A turn knows of a mutation only while it waits for the answer to it,    *)
(* and a merge that was answered has happened.                             *)
Answered(turn, host) ==
    /\ turn.mutated => turn.pc \in {"prAnswer", "mergeAnswer", "rmAnswer"}
    /\ turn.pc = "mergeAnswer" => turn.task.ev["pullRequestCommitHash"] \subseteq host["main"]
    /\ turn.pc = "push" => AppAuth

(* Local main is never deleted; what was merged is in remote main.         *)
MainsHold ==
    /\ local["main"] # None
    /\ \A n \in PrIds : prs[n].state = "merged" => prs[n].head \subseteq origin["main"]

(* A mutation did what its request showed. A push is bound to it only with *)
(* ambient credentials.                                                    *)
AsShown(m, table) ==
    m.op \in {"APPLY", "COMMIT", "MERGE"} \/ (m.op = "PUSH" /\ ~AppAuth)
        => m.scope = table[m.approval].scope

EvidenceInv ==
    /\ IInv
    /\ MainsHold
    /\ \A a \in AnchorCopies : Honest(a, approvals, local, origin)
    /\ \A t \in Turns : Answered(turns[t], origin)
    /\ \A m \in mutations : AsShown(m, approvals)
    /\ overclaims = {}

-----------------------------------------------------------------------------
(* One turn at a time.                                                     *)

(* A suspended turn is alone, and the anchor it read is the one stored.    *)
Alone ==
    \A t \in Turns :
        /\ turns[t].pc = "idle" => turns[t] = Idle
        /\ OneTurnAtATime /\ turns[t].pc # "idle" =>
              /\ turns[t].task = task
              /\ \A u \in Turns : u # t => turns[u].pc = "idle"

(* Nobody writes to a branch between the last look at it and its deletion. *)
NoDeleteRace == OneTurnAtATime /\ {"deleteRace", "humanDelete"} \cap Events = {}

MergedWhenDeleted ==
    NoDeleteRace =>
        \A t \in Turns :
            turns[t].pc = "rmDelete" => origin["feature"] = turns[t].task.ev["mergedHeadSha"]

(* Pushes are ambient, and only the runtime deletes the branch.            *)
OwnBranch == ~AppAuth /\ "humanDelete" \notin Events

(* What was pushed is in remote main, or still on both feature branches:   *)
(* the local one goes first, and only when main has what it has.           *)
Delivered(tip, clone, host) ==
    \/ tip \subseteq host["main"]
    \/ /\ clone["feature"] # None /\ tip \subseteq clone["feature"]
       /\ host["feature"] # None /\ tip \subseteq host["feature"]

PushesAreReal ==
    OwnBranch =>
        \A a \in AnchorCopies :
            Reached(a, "GIT_PUSHED") => Delivered(a.ev["pushedCommitHash"], local, origin)

(* Every save is kept, so a decided gate is left.                          *)
GatesAreLeft == "lostSave" \notin Events => HaltedGateIsPending

TurnInv ==
    /\ EvidenceInv
    /\ Alone
    /\ MergedWhenDeleted
    /\ PushesAreReal
    /\ GatesAreLeft

-----------------------------------------------------------------------------
(* The repositories only grow where the anchor looks.                      *)

CloneGrows ==
    /\ local'["main"] # None /\ local["main"] \subseteq local'["main"]
    /\ Held(local) \subseteq Held(local')
    /\ local["feature"] = None => local'["feature"] = None

HostGrows ==
    /\ origin["main"] \subseteq origin'["main"]
    /\ \A n \in PrIds : prs'[n].state = "merged" => prs'[n].head \subseteq origin'["main"]

(* A tip that some branch still contains is not lost.                      *)
LEMMA NothingIsLost ==
    ASSUME NEW refs, NEW later,
           \A b \in Branches : refs[b] # None =>
               \E c \in Branches : later[c] # None /\ refs[b] \subseteq later[c]
    PROVE  Held(refs) \subseteq Held(later)
<1> SUFFICES ASSUME NEW x \in Held(refs)
             PROVE  x \in Held(later)
  OBVIOUS
<1>1. PICK b \in Branches : refs[b] # None /\ x \in refs[b]
  BY DEF Held
<1>2. PICK c \in Branches : later[c] # None /\ refs[b] \subseteq later[c]
  BY <1>1
<1> QED
  BY <1>1, <1>2 DEF Held

(* The same of the clone.                                                  *)
LEMMA NothingIsLostHere ==
    ASSUME \A b \in Branches : local[b] # None =>
               \E c \in Branches : local'[c] # None /\ local[b] \subseteq local'[c]
    PROVE  Held(local) \subseteq Held(local')
BY NothingIsLost

(* A tip of an existing branch is held.                                    *)
LEMMA TipsAreHeld ==
    ASSUME NEW refs, NEW b \in Branches, refs[b] # None
    PROVE  refs[b] \subseteq Held(refs)
BY DEF Held

(* A clone that is not touched keeps what it has.                          *)
LEMMA CloneStays == ASSUME MainsHold, UNCHANGED local PROVE CloneGrows
BY DEF MainsHold, CloneGrows

(* Nor does the hosting service.                                           *)
LEMMA HostStays == ASSUME MainsHold, UNCHANGED <<origin, prs>> PROVE HostGrows
BY DEF MainsHold, HostGrows

(* git commit extends the branch that is checked out.                      *)
LEMMA CommitGrows ==
    ASSUME WorldOK, MainsHold, NEW more \in Tips, local' = [local EXCEPT ![at] = @ \cup more]
    PROVE  CloneGrows
<1>1. /\ at \in Branches /\ "main" \in Branches
      /\ local \in [Branches -> MaybeTip] /\ local[at] \in Tips
  BY HeadExists DEF WorldOK, WorldTypeOK, Head, Branches
<1>2. local[at] \cup more # None
  BY <1>1, TipsClosed
<1>3. \A b \in Branches : local[b] # None => local'[b] # None /\ local[b] \subseteq local'[b]
  BY <1>1, <1>2
<1>4. at # "feature" \/ local["feature"] # None
  BY DEF WorldOK, RefsExist
<1>5. Held(local) \subseteq Held(local')
  <2>1. \A b \in Branches : local[b] # None =>
            \E c \in Branches : local'[c] # None /\ local[b] \subseteq local'[c]
    BY <1>3
  <2> QED
    BY <2>1, NothingIsLostHere
<1>6. local["feature"] = None => local'["feature"] = None
  BY <1>4
<1> QED
  BY <1>1, <1>3, <1>5, <1>6 DEF CloneGrows, MainsHold

(* The synchronisation of main fast-forwards or leaves the clone alone.    *)
LEMMA SyncGrows ==
    ASSUME WorldOK, MainsHold, NEW expected, NEW previous, SyncMainFastForward(expected, previous)
    PROVE  CloneGrows /\ HostGrows
<1>1. /\ "main" \in Branches /\ local \in [Branches -> MaybeTip]
      /\ origin["main"] # None
  BY DEF WorldOK, WorldTypeOK, RefsExist, Branches
<1>2. \A b \in Branches : local[b] # None => local'[b] # None /\ local[b] \subseteq local'[b]
  BY <1>1 DEF SyncMainFastForward, CanFastForward
<1>3. CloneGrows
  <2>1. Held(local) \subseteq Held(local')
    BY <1>2, NothingIsLost
  <2>2. local'["feature"] = local["feature"]
    BY <1>1 DEF SyncMainFastForward
  <2> QED
    BY <1>1, <1>2, <2>1, <2>2 DEF CloneGrows, MainsHold
<1> QED
  BY <1>3, HostStays DEF SyncMainFastForward

(* Cleanup deletes a branch whose commits main has.                        *)
LEMMA CleanupGrows ==
    ASSUME WorldOK, MainsHold, NEW b, NEW main, LocalBranchDeletable(b, main),
           DeleteMergedLocalBranch(b)
    PROVE  CloneGrows /\ HostGrows
<1>1. "main" \in Branches /\ local \in [Branches -> MaybeTip]
  BY DEF WorldOK, WorldTypeOK, Branches
<1>2. local'["main"] = local["main"] /\ local'["main"] # None
  BY <1>1 DEF LocalBranchDeletable, DeleteMergedLocalBranch, MainsHold
<1>3. \A c \in Branches : local[c] # None =>
          \E d \in Branches : local'[d] # None /\ local[c] \subseteq local'[d]
  BY <1>1, <1>2 DEF LocalBranchDeletable, DeleteMergedLocalBranch, MainsHold
<1>4. CloneGrows
  <2>1. Held(local) \subseteq Held(local')
    BY <1>3, NothingIsLost
  <2>2. local["feature"] = None => local'["feature"] = None
    BY <1>1 DEF DeleteMergedLocalBranch, Branches
  <2>3. local["main"] \subseteq local'["main"]
    BY <1>2
  <2> QED
    BY <1>2, <2>1, <2>2, <2>3 DEF CloneGrows
<1> QED
  BY <1>4, HostStays DEF DeleteMergedLocalBranch

(* Moving a branch of the hosting service forward.                         *)
LEMMA MoveGrows ==
    ASSUME WorldOK, MainsHold, NEW b, NEW tip, MoveOrigin(b, tip),
           b = "main" => origin["main"] \subseteq tip
    PROVE  HostGrows
<1>1. "main" \in Branches /\ origin \in [Branches -> MaybeTip]
  BY DEF WorldOK, WorldTypeOK, Branches
<1>2. origin["main"] \subseteq origin'["main"]
  BY <1>1 DEF MoveOrigin
<1>3. \A n \in PrIds : prs'[n].state = "merged" => prs'[n] = prs[n]
  BY DEF MoveOrigin, PrsFollowing, WorldOK, WorldTypeOK
<1> QED
  BY <1>2, <1>3 DEF MainsHold, HostGrows

(* A push is fast-forward only.                                            *)
LEMMA PushGrows ==
    ASSUME WorldOK, MainsHold, NEW b, PushHead(b)
    PROVE  CloneGrows /\ HostGrows
<1>1. b = "main" => origin["main"] \subseteq Head
  BY DEF PushHead, PushAccepted, WorldOK, RefsExist
<1> QED
  BY <1>1, MoveGrows, CloneStays DEF PushHead

(* Opening a pull request merges nothing.                                  *)
LEMMA CreateGrows ==
    ASSUME WorldOK, MainsHold, NEW n \in PrIds, CreatePullRequest(n)
    PROVE  CloneGrows /\ HostGrows
<1>1. \A m \in PrIds : prs'[m].state = "merged" => prs'[m] = prs[m]
  BY DEF CreatePullRequest, WorldOK, WorldTypeOK
<1> QED
  BY <1>1, CloneStays DEF CreatePullRequest, MainsHold, HostGrows

(* Merging one adds its head to main.                                      *)
LEMMA MergeGrows ==
    ASSUME WorldOK, MainsHold, NEW n \in PrIds, MergePullRequest(n)
    PROVE  /\ CloneGrows /\ HostGrows
           /\ prs[n].head \subseteq origin'["main"]
<1>1. "main" \in Branches /\ origin \in [Branches -> MaybeTip]
  BY DEF WorldOK, WorldTypeOK, Branches
<1>2. origin'["main"] = origin["main"] \cup prs[n].head
  BY <1>1 DEF MergePullRequest
<1>3. \A m \in PrIds : prs'[m].state = "merged" =>
          prs'[m].head = prs[m].head /\ (m = n \/ prs[m].state = "merged")
  BY DEF MergePullRequest, WorldOK, WorldTypeOK
<1> QED
  BY <1>2, <1>3, CloneStays DEF MergePullRequest, MainsHold, HostGrows

(* What people do outside the bot.                                         *)
LEMMA HumanGrows ==
    ASSUME WorldOK, MainsHold, Human
    PROVE  CloneGrows /\ HostGrows
<1> USE CloneStays, HostStays
<1>1. ASSUME NEW change, HumanEdit(change)
      PROVE  CloneGrows /\ HostGrows
  BY <1>1 DEF HumanEdit
<1>2. CASE HumanCommit
  <2>1. {"localCommit"} \in Tips
    BY DEF Tips, Changes, Foreign
  <2> QED
    BY <1>2, <2>1, CommitGrows DEF HumanCommit
<1>3. ASSUME NEW b, HumanDiscard \/ HumanCheckout(b) \/ HumanFetch
      PROVE  CloneGrows /\ HostGrows
  BY <1>3 DEF HumanDiscard, HumanCheckout, HumanFetch
<1>4. ASSUME NEW event, NEW b, HumanRemotePush(event, b)
      PROVE  CloneGrows /\ HostGrows
  BY <1>4, MoveGrows DEF HumanRemotePush
<1>5. ASSUME NEW n \in PrIds, HumanMerge(n)
      PROVE  CloneGrows /\ HostGrows
  BY <1>5, MergeGrows DEF HumanMerge
<1>6. ASSUME NEW n \in PrIds, HumanClose(n)
      PROVE  CloneGrows /\ HostGrows
  <2>1. \A m \in PrIds : prs'[m].state = "merged" => prs'[m] = prs[m]
    BY <1>6 DEF HumanClose, WorldOK, WorldTypeOK
  <2> QED
    BY <1>6, <2>1 DEF HumanClose, MainsHold, HostGrows
<1>7. CASE HumanDelete
  BY <1>7, MoveGrows DEF HumanDelete, DeleteRemoteRef
<1> QED
  BY <1>1, <1>2, <1>3, <1>4, <1>5, <1>6, <1>7 DEF Human, RemotePush

(* Whatever the step, main only grows and no local commit is lost.         *)
LEMMA NextGrowsWorld ==
    ASSUME IInv, MainsHold, [Next]_vars
    PROVE  CloneGrows /\ HostGrows
<1>1. WorldOK
  BY DEF IInv, TypeOK, WorldOK
<1>2. CASE UNCHANGED <<local, origin, prs>>
  BY <1>2, CloneStays, HostStays
<1>3. ASSUME NEW saved, NEW kept, LocalTurn(saved, kept)
      PROVE  CloneGrows /\ HostGrows
  <2>1. CASE HandleCommitExecutionTurn(kept)
    BY <1>1, <2>1, CommitGrows, HostStays
       DEF HandleCommitExecutionTurn, CommitFiles, WorldOK, WorldTypeOK
  <2>2. CASE HandlePushExecutionTurn(kept)
    BY <1>1, <2>2, PushGrows DEF HandlePushExecutionTurn
  <2>3. CASE HandleMainSyncTurn(kept)
    BY <1>1, <2>3, SyncGrows DEF HandleMainSyncTurn
  <2>4. CASE HandleBranchCleanupTurn(kept)
    BY <1>1, <2>4, CleanupGrows DEF HandleBranchCleanupTurn
  <2> QED
    BY <1>2, <1>3, <2>1, <2>2, <2>3, <2>4
       DEF LocalTurn, HandlePatchGenerationTurn, HandleWorkspaceApplyTurn, world
<1>4. ASSUME NEW t \in Turns, TurnStep(t)
      PROVE  CloneGrows /\ HostGrows
  <2>1. CASE UNCHANGED world
    BY <1>2, <2>1 DEF world
  <2>2. CASE ResumePushExecutionTurn(t)
    BY <1>1, <2>1, <2>2, PushGrows DEF ResumePushExecutionTurn
  <2>3. CASE PostPullRequest(t)
    BY <1>1, <2>1, <2>3, CreateGrows DEF PostPullRequest
  <2>4. CASE PutMerge(t)
    <3>1. turns[t].pc = "mergePut" => turns[t].task.pr \in PrIds
      BY DEF IInv, TypeOK, SuspendedWithinStatus, SuspendedAt, Tasks
    <3> QED
      BY <1>1, <2>1, <2>4, <3>1, MergeGrows DEF PutMerge
  <2>5. CASE ResumeMainSyncTurn(t)
    BY <1>1, <2>1, <2>5, SyncGrows DEF ResumeMainSyncTurn
  <2>6. CASE DeleteRemoteBranch(t)
    BY <1>1, <2>1, <2>6, MoveGrows, CloneStays DEF DeleteRemoteBranch, DeleteRemoteRef
  <2> QED
    BY <1>4, <2>1, <2>2, <2>3, <2>4, <2>5, <2>6
       DEF TurnStep, RunCodeGenerationPreview, CheckBranches, FindOpenPullRequest,
           ReceivePullRequest, GetMergePreflight, ReceiveMerge, GetRemoteRefCommit, ConfirmMerged,
           GetRemoteBranchCommit, RereadRemoteBranch, ReadRemoteBranch, ReceiveDelete
<1>5. ASSUME NEW kept, PlanningTurn(kept) \/ GateTurn(kept)
      PROVE  UNCHANGED world
  BY <1>5
     DEF PlanningTurn, RegisterProject, ClearStale, HandleExecutionIntent, AskForScope,
         HandleScopeClarificationTurn, RunResolvedExecution, HandleApprovalTurn, GateTurn,
         HandleApplyIntentTurn, HandleApplyApprovalTurn, HandleCommitApprovalTurn,
         HandleCommitApprovalDecisionTurn, HandlePushApprovalTurn, HandlePushApprovalDecisionTurn,
         HandlePrApprovalTurn, HandlePrApprovalDecisionTurn, HandleMergeApprovalTurn,
         HandleMergeApprovalDecisionTurn, HandleRemoteBranchCleanupApprovalTurn,
         HandleRemoteBranchCleanupDecisionTurn, RequestGate, DecideGate
<1>6. ASSUME NEW t, StartTurn(t)
      PROVE  UNCHANGED world
  BY <1>6
     DEF StartTurn, SuspendPushExecutionTurn, HandlePrCreationExecutionTurn,
         HandleMergeExecutionTurn, SuspendMainSyncTurn, HandleRemoteBranchCleanupExecutionTurn
<1> QED
  BY <1>1, <1>2, <1>3, <1>4, <1>5, <1>6, HumanGrows DEF Next, Crash, vars, world


-----------------------------------------------------------------------------
(* Anchors that exist stay honest.                                         *)

(* A request that was made is never made for something else.               *)
LEMMA ScopePersists ==
    ASSUME approvals \in [ApprovalIds -> Requests], Grows, NEW id \in ApprovalIds,
           approvals[id].status # "NONE"
    PROVE  approvals'[id].scope = approvals[id].scope
<1>1. approvals[id] \in Requests
  OBVIOUS
<1>2. \/ approvals'[id] = approvals[id]
      \/ \E verdict \in {"APPROVED", "REJECTED"} :
            approvals'[id] = [approvals[id] EXCEPT !.status = verdict]
  BY DEF Grows
<1> QED
  BY <1>1, <1>2 DEF Requests

(* A copy of the anchor that no step writes stays true of what the step    *)
(* does elsewhere.                                                         *)
LEMMA CopiesStayHonest ==
    ASSUME EvidenceInv, [Next]_vars
    PROVE  \A a \in AnchorCopies : Honest(a, approvals', local', origin')
<1> SUFFICES ASSUME NEW a \in AnchorCopies
             PROVE  Honest(a, approvals', local', origin')
  OBVIOUS
<1>1. IInv /\ MainsHold /\ Honest(a, approvals, local, origin)
  BY DEF EvidenceInv
<1>2. CloneGrows /\ HostGrows
  BY <1>1, NextGrowsWorld
<1>3. Sound(a, approvals) /\ approvals \in [ApprovalIds -> Requests] /\ Grows
  BY <1>1, CopiesPersist, NextGrows DEF IInv, TypeOK, Requests
<1>4. ASSUME NEW g \in ApplyGates, a.approval[g] # None
      PROVE  approvals'[a.approval[g]].scope = approvals[a.approval[g]].scope
  <2>1. a.approval[g] \in ApprovalIds /\ approvals[a.approval[g]].status # "NONE"
    BY <1>3, <1>4 DEF Sound, Backed, Tasks
  <2> QED
    BY <1>3, <2>1, ScopePersists
<1>5. Agrees(a, approvals')
  BY <1>1, <1>4 DEF Honest, Agrees
<1> QED
  BY <1>1, <1>2, <1>5 DEF Honest, Real, CloneGrows, HostGrows

-----------------------------------------------------------------------------
(* Anchors that a step writes are honest.                                  *)

Milestones ==
    {"GIT_COMMITTED", "GIT_PUSHED", "PR_CREATED", "PR_MERGED", "MAIN_SYNCED", "BRANCH_CLEANED"}
        \cup {Pending[g] : g \in ApplyGates}

(* A gate is no milestone but its own.                                     *)
LEMMA GateMilestones ==
    \A g \in ApplyGates, m \in Milestones :
        /\ m \in Status
        /\ Rank[Durable[g]] >= Rank[m] => Rank[Pending[g]] >= Rank[m]
        /\ Rank[Pending[g]] >= Rank[m] => m = Pending[g] \/ Rank[Durable[g]] >= Rank[m]
        /\ Rank[Approved[g]] >= Rank[m] <=> Rank[Pending[g]] >= Rank[m]
        /\ \A h \in ApplyGates : Pending[g] = Pending[h] => g = h
        /\ ~ Rank[Durable[g]] >= Rank[Pending[g]]
        /\ Rank[Pending[g]] >= Rank[Pending[g]]
BY DEF Milestones, ApplyGates, Durable, Pending, Approved, Status, Rank

(* An anchor without approvals says nothing that could be false.           *)
LEMMA NewIsHonest ==
    ASSUME NEW a \in Tasks, NEW table, NEW clone, NEW host, a.approval = NoTask.approval,
           a.status \in {"NONE", "ELIGIBLE"}, a.kind = "apply" => a.status = "ELIGIBLE"
    PROVE  Honest(a, table, clone, host)
BY DEF Honest, Agrees, Traced, Real, Reached, Rank, Status, NoTask

(* The plan, and the evidence no gate writes.                              *)
SameTrace(a, b) ==
    /\ b.kind = a.kind /\ b.plan = a.plan
    /\ \A f \in Evidence \ {"pushCommitHash", "prPushedCommitHash"} : b.ev[f] = a.ev[f]

(* Halting at a gate: the request shows what the anchor now says.          *)
LEMMA RequestIsHonest ==
    ASSUME NEW a \in Tasks, NEW b \in Tasks, NEW table, NEW clone, NEW host, NEW g \in ApplyGates,
           NEW id, Honest(a, table, clone, host), b.approval = [a.approval EXCEPT ![g] = id],
           a.status = Durable[g], b.status = Pending[g], SameTrace(a, b),
           \A h \in ApplyGates \ {g} : Shown(b)[h] = Shown(a)[h],
           table[id].scope = Shown(b)[g],
           g = "PR" => b.ev["prPushedCommitHash"] = b.ev["pushedCommitHash"] /\ a.branch # "main",
           IF g = "PUSH" THEN b.branch \in Branches ELSE b.branch = a.branch
    PROVE  Honest(b, table, clone, host)
<1>1. /\ a.approval \in [ApplyGates -> ApprovalIds \cup {None}]
      /\ a.status \in Status /\ b.status \in Status
  BY GateTables DEF Tasks
<1>2. \A m \in Milestones : /\ Reached(b, m) => m = Pending[g] \/ Reached(a, m)
                            /\ Reached(a, m) => Reached(b, m)
                            /\ Reached(b, Pending[g])
  BY <1>1, GateMilestones DEF Reached
<1>3. Agrees(b, table)
  BY <1>1, <1>2 DEF Honest, Agrees, Milestones
<1>4. Traced(b)
  <2>1. g # "PR" => b.ev["prPushedCommitHash"] = a.ev["prPushedCommitHash"]
    BY DEF Shown, ApplyGates
  <2>2. Reached(b, "PR_APPROVAL_PENDING") =>
            b.ev["prPushedCommitHash"] = b.ev["pushedCommitHash"]
    BY <1>2, <2>1 DEF Honest, Traced, SameTrace, Evidence, Milestones, Pending, ApplyGates
  <2>3. ~(g = "PR" /\ Reached(a, "PR_CREATED"))
    BY <1>1 DEF Reached, Durable, Rank
  <2>4. Reached(b, "PR_CREATED") => Reached(a, "PR_CREATED")
    BY <1>2 DEF Milestones, Pending, ApplyGates
  <2>5. Reached(b, "PR_MERGED") => Reached(a, "PR_MERGED")
    BY <1>2 DEF Milestones, Pending, ApplyGates
  <2>6. Reached(b, "PUSH_APPROVAL_PENDING") => b.branch \in Branches
    <3>1. Pending["PUSH"] = "PUSH_APPROVAL_PENDING" /\ "PUSH" \in ApplyGates
      BY DEF Pending, ApplyGates
    <3>2. "PUSH_APPROVAL_PENDING" \in Milestones
      BY <3>1 DEF Milestones
    <3>3. g # "PUSH" => Pending[g] # "PUSH_APPROVAL_PENDING"
      BY DEF Pending, ApplyGates
    <3>4. g = "PUSH" \/ (Reached(b, "PUSH_APPROVAL_PENDING") => Reached(a, "PUSH_APPROVAL_PENDING"))
      BY <1>2, <3>2, <3>3
    <3>5. a.branch \in Branches \/ ~Reached(a, "PUSH_APPROVAL_PENDING")
      BY DEF Honest, Traced
    <3> QED
      BY <3>4, <3>5
  <2>7. Reached(b, "PR_APPROVAL_PENDING") => b.branch # "main"
    <3>1. g = "PUSH" => ~Reached(b, "PR_APPROVAL_PENDING")
      BY DEF Reached, Pending, Rank
    <3>2. g # "PR" /\ Reached(b, "PR_APPROVAL_PENDING") => Reached(a, "PR_APPROVAL_PENDING")
      BY <1>2 DEF Milestones, Pending, ApplyGates
    <3> QED
      BY <3>1, <3>2 DEF Honest, Traced
  <2> QED
    BY <1>1, <2>1, <2>2, <2>3, <2>4, <2>5, <2>6, <2>7 DEF Honest, Traced, SameTrace, Evidence
<1>5. Real(b, clone, host)
  BY <1>2 DEF Honest, Real, SameTrace, Evidence, Milestones, Pending, ApplyGates
<1> QED
  BY <1>3, <1>4, <1>5 DEF Honest

(* Granting a gate changes nothing but the status.                         *)
LEMMA GrantIsHonest ==
    ASSUME NEW a \in Tasks, NEW b \in Tasks, NEW table, NEW clone, NEW host, NEW g \in ApplyGates,
           Honest(a, table, clone, host), b.plan = a.plan, b.approval = a.approval, b.ev = a.ev,
           b.branch = a.branch,
           a.status = Pending[g], b.status = Approved[g]
    PROVE  Honest(b, table, clone, host)
<1>1. a.status \in Status /\ b.status \in Status
  BY GateTables
<1>2. \A m \in Milestones : Reached(b, m) <=> Reached(a, m)
  BY <1>1, GateMilestones DEF Reached
<1> QED
  BY <1>1, <1>2 DEF Honest, Agrees, Traced, Real, Shown, Milestones, Pending, ApplyGates

(* Refusing a gate gives up its request with what the request showed.      *)
LEMMA RefusalIsHonest ==
    ASSUME NEW a \in Tasks, NEW b \in Tasks, NEW table, NEW clone, NEW host, NEW g \in ApplyGates,
           Honest(a, table, clone, host), b.approval = [a.approval EXCEPT ![g] = None],
           a.status = Pending[g], b.status = Durable[g], SameTrace(a, b),
           \A h \in ApplyGates \ {g} : Shown(b)[h] = Shown(a)[h], b.branch = a.branch \/ g = "PUSH"
    PROVE  Honest(b, table, clone, host)
<1>1. /\ a.approval \in [ApplyGates -> ApprovalIds \cup {None}]
      /\ a.status \in Status /\ b.status \in Status
  BY GateTables DEF Tasks
<1>2. \A m \in Milestones : /\ Reached(b, m) => m # Pending[g] /\ Reached(a, m)
                            /\ Reached(a, m) => m = Pending[g] \/ Reached(b, m)
  BY <1>1, GateMilestones DEF Reached
<1>3. Agrees(b, table)
  <2>1. \A h \in ApplyGates : h # g => Pending[h] # Pending[g]
    BY GateMilestones DEF Milestones
  <2> QED
    BY <1>1, <1>2, <2>1 DEF Honest, Agrees, Milestones
<1>4. Traced(b)
  <2>1. g # "PR" => b.ev["prPushedCommitHash"] = a.ev["prPushedCommitHash"]
    BY DEF Shown, ApplyGates
  <2>2. g = "PR" => ~Reached(b, "PR_APPROVAL_PENDING") /\ ~Reached(b, "PR_CREATED")
    BY <1>1 DEF Reached, Durable, Rank
  <2>3. \A m \in {"PUSH_APPROVAL_PENDING", "PR_APPROVAL_PENDING", "PR_CREATED", "PR_MERGED"} :
            Reached(b, m) => Reached(a, m)
    BY <1>2 DEF Milestones, Pending, ApplyGates
  <2>4. g = "PUSH" => ~Reached(b, "PUSH_APPROVAL_PENDING") /\ ~Reached(b, "PR_APPROVAL_PENDING")
    BY <1>1 DEF Reached, Durable, Rank
  <2> QED
    BY <1>1, <2>1, <2>2, <2>3, <2>4 DEF Honest, Traced, SameTrace, Evidence
<1>5. Real(b, clone, host)
  BY <1>2 DEF Honest, Real, SameTrace, Evidence, Milestones, Pending, ApplyGates
<1> QED
  BY <1>3, <1>4, <1>5 DEF Honest

(* The successes of the mutations, the evidence each writes, and what must *)
(* be the case for it to be true.                                          *)
Succeeds(a, b, clone, host) ==
    /\ b.kind = a.kind /\ b.plan = a.plan /\ b.approval = a.approval /\ b.branch = a.branch
    /\ <<a.status, b.status>> \in
           {<<"APPROVED", "PATCH_READY">>, <<"PATCH_READY", "WORKSPACE_APPLIED">>,
            <<"COMMIT_APPROVED", "GIT_COMMITTED">>, <<"PUSH_APPROVED", "GIT_PUSHED">>,
            <<"PR_APPROVED", "PR_CREATED">>, <<"MERGE_APPROVED", "PR_MERGED">>,
            <<"PR_MERGED", "MAIN_SYNCED">>, <<"MAIN_SYNCED", "BRANCH_CLEANED">>,
            <<"REMOTE_BRANCH_CLEANUP_APPROVED", "REMOTE_BRANCH_CLEANED">>}
    /\ \A f \in Evidence :
          \/ b.ev[f] = a.ev[f]
          \/ <<f, b.status>> \in
                 {<<"commitHash", "GIT_COMMITTED">>, <<"pushedCommitHash", "GIT_PUSHED">>,
                  <<"pullRequestCommitHash", "PR_CREATED">>, <<"mergedHeadSha", "PR_MERGED">>,
                  <<"mergeCommitHash", "PR_MERGED">>, <<"syncedMainCommit", "MAIN_SYNCED">>}
    /\ b.status = "GIT_COMMITTED" => b.ev["commitHash"] \subseteq Held(clone)
    /\ b.status = "PR_CREATED" => b.ev["pullRequestCommitHash"] = a.ev["prPushedCommitHash"]
    /\ b.status = "PR_MERGED" => /\ b.ev["mergedHeadSha"] = a.ev["pullRequestCommitHash"]
                                 /\ b.ev["mergedHeadSha"] \subseteq host["main"]
    /\ b.status = "MAIN_SYNCED" =>
          b.ev["syncedMainCommit"] \subseteq clone["main"] \cap host["main"]
    /\ b.status = "BRANCH_CLEANED" => clone["feature"] = None

(* A success that meets its condition leaves an honest anchor.             *)
LEMMA SuccessIsHonest ==
    ASSUME NEW a \in Tasks, NEW b \in Tasks, NEW table, NEW clone, NEW host,
           Honest(a, table, clone, host), Succeeds(a, b, clone, host)
    PROVE  Honest(b, table, clone, host)
<1>1. a.status \in Status /\ b.status \in Status
  BY DEF Succeeds, Status, Rank
<1>2. \A g \in ApplyGates : Reached(a, Pending[g]) => Reached(b, Pending[g])
  BY DEF Succeeds, Reached, Rank, Status, Pending, ApplyGates
<1>3. ASSUME NEW g \in ApplyGates, Reached(a, Pending[g])
      PROVE  Shown(b)[g] = Shown(a)[g]
  <2>1. /\ g = "MERGE" => b.status # "PR_CREATED"
        /\ g = "REMOTE" => b.status # "PR_MERGED"
    BY <1>3 DEF Succeeds, Reached, Rank, Status, Pending
  <2> QED
    BY <2>1 DEF Succeeds, Shown, Evidence, ApplyGates
<1>4. Agrees(b, table)
  BY <1>2, <1>3 DEF Honest, Agrees, Succeeds
<1>5. \A m \in {"GIT_COMMITTED", "PUSH_APPROVAL_PENDING", "PR_APPROVAL_PENDING", "PR_CREATED",
               "PR_MERGED", "MAIN_SYNCED", "BRANCH_CLEANED"} :
          Reached(b, m) => Reached(a, m) \/ b.status = m
  BY DEF Succeeds, Reached, Rank, Status
<1>6. Traced(b)
  <2>1. b.status \in {"GIT_COMMITTED", "GIT_PUSHED"} =>
            \A m \in {"PR_APPROVAL_PENDING", "PR_CREATED", "PR_MERGED"} : ~Reached(b, m)
    BY DEF Reached, Rank
  <2>2. b.status = "PR_CREATED" => ~Reached(b, "PR_MERGED") /\ Reached(a, "PR_APPROVAL_PENDING")
    BY DEF Succeeds, Reached, Rank, Status
  <2>3. b.status = "PR_MERGED" => Reached(a, "PR_APPROVAL_PENDING") /\ Reached(a, "PR_CREATED")
    BY DEF Succeeds, Reached, Rank, Status
  <2>4. b.status \notin {"PUSH_APPROVAL_PENDING", "PR_APPROVAL_PENDING"}
    BY DEF Succeeds
  <2> QED
    BY <1>1, <1>5, <2>1, <2>2, <2>3, <2>4 DEF Honest, Traced, Succeeds, Evidence
<1>7. Real(b, clone, host)
  <2>1. b.status = "GIT_COMMITTED" => ~Reached(b, "PR_MERGED") /\ ~Reached(b, "MAIN_SYNCED")
    BY DEF Reached, Rank
  <2>2. b.status = "PR_MERGED" => ~Reached(b, "MAIN_SYNCED")
    BY DEF Reached, Rank
  <2>3. b.status = "MAIN_SYNCED" => ~Reached(b, "BRANCH_CLEANED")
    BY DEF Reached, Rank
  <2> QED
    BY <1>5, <2>1, <2>2, <2>3 DEF Honest, Real, Succeeds, Evidence
<1> QED
  BY <1>4, <1>6, <1>7 DEF Honest


-----------------------------------------------------------------------------
(* The stored anchor, action by action.                                    *)

HonestTask == Honest(task', approvals', local', origin')

(* The stored anchor, and those of turns that are under way.               *)
Running == {task} \cup {turns[t].task : t \in {u \in Turns : turns[u].pc # "idle"}}

(* What a step may make of the stored anchor: nothing, an anchor that has  *)
(* reached no gate, one step along a gate, or the success of a mutation.   *)
Moved(b) ==
    \/ b = task
    \/ b.kind # "apply" /\ b.status = "NONE"
    \/ /\ b.status = "ELIGIBLE"
       /\ \E t \in Turns :
             turns[t].pc # "idle" /\ turns[t].task.kind = "plan" /\ b.plan = turns[t].task.plan
    \/ \E g \in ApplyGates :
          /\ SameTrace(task, b)
          /\ \/ task.status = Durable[g] /\ b.status = Pending[g]
             \/ task.status = Pending[g] /\ b.status \in {Approved[g], Durable[g]}
    \/ /\ \E a \in Running : Succeeds(a, b, local', origin')
       /\ b.status = "GIT_PUSHED" => AppAuth \/ Delivered(b.ev["pushedCommitHash"], local', origin')

Stored == HonestTask /\ Moved(task')

(* A save that is kept stores an honest anchor; a lost one keeps the old.  *)
LEMMA SavedIsHonest ==
    ASSUME EvidenceInv, [Next]_vars, NEW kept \in BOOLEAN, NEW a, Anchor(kept, a),
           Honest(a, approvals', local', origin'), Moved(a)
    PROVE  Stored
<1>1. task \in AnchorCopies
  BY DEF AnchorCopies
<1>2. Honest(task, approvals', local', origin') /\ Moved(task)
  BY <1>1, CopiesStayHonest DEF Moved
<1>3. task' = a \/ task' = task
  BY DEF Anchor
<1> QED
  BY <1>2, <1>3 DEF Stored, HonestTask

(* Asking for a gate.                                                      *)
LEMMA RequestGateHonest ==
    ASSUME EvidenceInv, [Next]_vars, NEW kept \in BOOLEAN, NEW a \in Tasks, NEW g \in ApplyGates,
           NEW scope, RequestGate(g, scope, a, kept), task.status = Durable[g],
           a.approval = task.approval, SameTrace(task, a),
           \A h \in ApplyGates \ {g} : Shown(a)[h] = Shown(task)[h], scope = Shown(a)[g],
           g = "PR" => a.ev["prPushedCommitHash"] = a.ev["pushedCommitHash"] /\ task.branch # "main",
           IF g = "PUSH" THEN a.branch \in Branches ELSE a.branch = task.branch
    PROVE  Stored
<1>1. PICK id \in Fresh : /\ RequestForRisk(id, g, task.plan, scope)
                          /\ Anchor(kept, [a EXCEPT !.status = Pending[g],
                                                    !.approval = [@ EXCEPT ![g] = id]])
  BY DEF RequestGate
<1> DEFINE b == [a EXCEPT !.status = Pending[g], !.approval = [@ EXCEPT ![g] = id]]
<1>2. id \in ApprovalIds /\ task \in Tasks /\ task \in AnchorCopies
  BY FreshIsUnused DEF EvidenceInv, IInv, TypeOK, AnchorCopies
<1>3. /\ b \in Tasks /\ b.status = Pending[g] /\ b.kind = a.kind /\ b.plan = a.plan /\ b.ev = a.ev
      /\ b.branch = a.branch
      /\ b.approval = [task.approval EXCEPT ![g] = id]
  BY <1>2, GateTables DEF Tasks
<1>4. approvals'[id].scope = scope
  BY <1>1, <1>2 DEF RequestForRisk, EvidenceInv, IInv, TypeOK
<1>5. Honest(task, approvals', local', origin')
  BY <1>2, CopiesStayHonest
<1> HIDE DEF b
<1>6. Shown(b) = Shown(a) /\ SameTrace(task, b)
  BY <1>3 DEF Shown, SameTrace
<1>7. Honest(b, approvals', local', origin')
  BY <1>2, <1>3, <1>4, <1>5, <1>6, RequestIsHonest
<1>8. Moved(b)
  BY <1>3, <1>6 DEF Moved
<1> QED
  BY <1>1, <1>7, <1>8, SavedIsHonest DEF b

(* Deciding a gate.                                                        *)
LEMMA DecideGateHonest ==
    ASSUME EvidenceInv, [Next]_vars, NEW kept \in BOOLEAN, NEW a \in Tasks, NEW g \in ApplyGates,
           DecideGate(g, a, kept), a.approval = task.approval, SameTrace(task, a),
           \A h \in ApplyGates \ {g} : Shown(a)[h] = Shown(task)[h],
           a.branch = task.branch \/ g = "PUSH"
    PROVE  Stored
<1> DEFINE granted == [task EXCEPT !.status = Approved[g]]
           refused == [a EXCEPT !.status = Durable[g], !.approval = [@ EXCEPT ![g] = None]]
<1>1. task \in AnchorCopies /\ task \in Tasks /\ task.status = Pending[g]
  BY DEF AnchorCopies, EvidenceInv, IInv, TypeOK, DecideGate, AnchoredAt
<1>2. Honest(task, approvals', local', origin')
  BY <1>1, CopiesStayHonest
<1>3. CASE Anchor(kept, granted)
  <2>1. /\ granted \in Tasks /\ granted.kind = task.kind /\ granted.plan = task.plan
        /\ granted.approval = task.approval
        /\ granted.ev = task.ev /\ granted.branch = task.branch /\ granted.status = Approved[g]
    BY <1>1, GateTables DEF Tasks
  <2> HIDE DEF granted
  <2>2. Honest(granted, approvals', local', origin')
    BY <1>1, <1>2, <2>1, GrantIsHonest
  <2>3. Moved(granted)
    BY <1>1, <2>1 DEF Moved, SameTrace
  <2> QED
    BY <1>3, <2>2, <2>3, SavedIsHonest
<1>4. CASE Anchor(kept, refused)
  <2>1. /\ refused \in Tasks /\ refused.kind = a.kind /\ refused.plan = a.plan /\ refused.ev = a.ev
        /\ refused.approval = [task.approval EXCEPT ![g] = None]
        /\ refused.branch = a.branch /\ refused.status = Durable[g]
    BY GateTables DEF Tasks
  <2> HIDE DEF refused
  <2>2. Shown(refused) = Shown(a) /\ SameTrace(task, refused)
    BY <2>1 DEF Shown, SameTrace
  <2>3. Honest(refused, approvals', local', origin')
    BY <1>1, <1>2, <2>1, <2>2, RefusalIsHonest
  <2>4. Moved(refused)
    BY <1>1, <2>1, <2>2 DEF Moved
  <2> QED
    BY <1>4, <2>3, <2>4, SavedIsHonest
<1> QED
  BY <1>3, <1>4 DEF DecideGate

(* Every turn at a gate.                                                   *)
LEMMA GateTurnHonest ==
    ASSUME EvidenceInv, [Next]_vars, NEW kept \in BOOLEAN, GateTurn(kept)
    PROVE  Stored
<1>1. task \in AnchorCopies /\ task \in Tasks
  BY DEF AnchorCopies, EvidenceInv, IInv, TypeOK
<1>2. Head \in MaybeTip /\ at \in Branches
  BY HeadExists DEF EvidenceInv, IInv, TypeOK, WorldTypeOK, WorldOK, MaybeTip
<1>3. \A f \in Evidence : task.ev[f] \in MaybeTip
  BY <1>1 DEF Tasks
<1>4. SameTrace(task, task)
  BY DEF SameTrace
<1>5. CASE HandleApplyIntentTurn(kept)
  <2>1. Shown(task)["APPLY"] = {task.plan}
    BY DEF Shown
  <2> QED
    BY <1>1, <1>4, <1>5, <2>1, RequestGateHonest
       DEF HandleApplyIntentTurn, AnchoredAt, Durable, ApplyGates
<1>6. CASE HandleApplyApprovalTurn(kept)
  <2> DEFINE granted == [task EXCEPT !.status = "APPROVED"]
  <2>1. CASE Anchor(kept, granted)
    <3>1. task.status = Pending["APPLY"] /\ "APPLY" \in ApplyGates
      BY <1>6 DEF HandleApplyApprovalTurn, AnchoredAt, Pending, ApplyGates
    <3>2. /\ granted \in Tasks /\ granted.kind = task.kind /\ granted.plan = task.plan
          /\ granted.approval = task.approval
          /\ granted.ev = task.ev /\ granted.branch = task.branch
          /\ granted.status = Approved["APPLY"]
      BY <1>1 DEF Tasks, Status, Rank, Approved
    <3> HIDE DEF granted
    <3>3. Honest(granted, approvals', local', origin')
      BY <1>1, <3>1, <3>2, CopiesStayHonest, GrantIsHonest
    <3>4. Moved(granted)
      BY <3>1, <3>2 DEF Moved, SameTrace
    <3> QED
      BY <2>1, <3>3, <3>4, SavedIsHonest
  <2>2. CASE Anchor(kept, NoTask)
    <3>1. Honest(NoTask, approvals', local', origin') /\ Moved(NoTask)
      BY NewIsHonest, IdleTypes DEF NoTask, Moved
    <3> QED
      BY <2>2, <3>1, SavedIsHonest
  <2> QED
    BY <1>6, <2>1, <2>2 DEF HandleApplyApprovalTurn
<1>7. CASE HandleCommitApprovalTurn(kept)
  <2>1. Shown(task)["COMMIT"] = {task.plan}
    BY DEF Shown
  <2> QED
    BY <1>1, <1>4, <1>7, <2>1, RequestGateHonest
       DEF HandleCommitApprovalTurn, AnchoredAt, Durable, ApplyGates
<1>8. CASE HandlePushApprovalTurn(kept)
  <2> DEFINE a == [task EXCEPT !.branch = at, !.ev["pushCommitHash"] = Head]
  <2>1. /\ a \in Tasks /\ a.kind = task.kind /\ a.plan = task.plan /\ a.approval = task.approval
        /\ \A f \in Evidence \ {"pushCommitHash"} : a.ev[f] = task.ev[f]
        /\ a.ev["pushCommitHash"] = Head /\ a.branch = at
    BY <1>1, <1>2 DEF Tasks, Evidence
  <2> HIDE DEF a
  <2>2. /\ SameTrace(task, a) /\ Shown(a)["PUSH"] = Head
        /\ \A h \in ApplyGates \ {"PUSH"} : Shown(a)[h] = Shown(task)[h]
    BY <2>1 DEF SameTrace, Shown, Evidence, ApplyGates
  <2>3. RequestGate("PUSH", Head, a, kept) /\ task.status = Durable["PUSH"]
    BY <1>8 DEF HandlePushApprovalTurn, AnchoredAt, Durable, a
  <2> QED
    BY <1>2, <2>1, <2>2, <2>3, RequestGateHonest DEF ApplyGates
<1>9. CASE HandlePrApprovalTurn(kept)
  <2> DEFINE hash == task.ev["pushedCommitHash"]
             a == [task EXCEPT !.ev["prPushedCommitHash"] = hash]
  <2>1. /\ a \in Tasks /\ a.kind = task.kind /\ a.plan = task.plan /\ a.approval = task.approval
        /\ \A f \in Evidence \ {"prPushedCommitHash"} : a.ev[f] = task.ev[f]
        /\ a.ev["prPushedCommitHash"] = hash /\ a.branch = task.branch
    BY <1>1, <1>3 DEF Tasks, Evidence
  <2> HIDE DEF a
  <2>2. /\ SameTrace(task, a) /\ Shown(a)["PR"] = hash /\ a.ev["pushedCommitHash"] = hash
        /\ \A h \in ApplyGates \ {"PR"} : Shown(a)[h] = Shown(task)[h]
    BY <2>1 DEF SameTrace, Shown, Evidence, ApplyGates
  <2>3. RequestGate("PR", hash, a, kept) /\ task.status = Durable["PR"] /\ task.branch # "main"
    BY <1>9 DEF HandlePrApprovalTurn, AnchoredAt, Durable, a
  <2> QED
    BY <2>1, <2>2, <2>3, RequestGateHonest DEF ApplyGates
<1>10. CASE HandleMergeApprovalTurn(kept)
  <2>1. Shown(task)["MERGE"] = task.ev["pullRequestCommitHash"]
    BY DEF Shown
  <2> QED
    BY <1>1, <1>4, <1>10, <2>1, RequestGateHonest
       DEF HandleMergeApprovalTurn, AnchoredAt, Durable, ApplyGates
<1>11. CASE HandleRemoteBranchCleanupApprovalTurn(kept)
  <2>1. Shown(task)["REMOTE"] = task.ev["mergedHeadSha"]
    BY DEF Shown
  <2> QED
    BY <1>1, <1>4, <1>11, <2>1, RequestGateHonest
       DEF HandleRemoteBranchCleanupApprovalTurn, AnchoredAt, Durable, ApplyGates
<1>12. ASSUME NEW g \in ApplyGates, DecideGate(g, task, kept)
       PROVE  Stored
  BY <1>1, <1>4, <1>12, DecideGateHonest
<1>13. CASE HandlePushApprovalDecisionTurn(kept)
  <2> DEFINE a == [Cleared({"pushCommitHash"}) EXCEPT !.branch = None]
  <2>1. /\ a \in Tasks /\ a.kind = task.kind /\ a.plan = task.plan /\ a.approval = task.approval
        /\ \A f \in Evidence \ {"pushCommitHash"} : a.ev[f] = task.ev[f]
    BY <1>1, <1>3 DEF Cleared, Tasks, MaybeTip
  <2> HIDE DEF a
  <2>2. /\ SameTrace(task, a)
        /\ \A h \in ApplyGates \ {"PUSH"} : Shown(a)[h] = Shown(task)[h]
    BY <2>1 DEF SameTrace, Shown, Evidence, ApplyGates
  <2> QED
    BY <1>13, <2>1, <2>2, DecideGateHonest DEF HandlePushApprovalDecisionTurn, a, ApplyGates
<1>14. CASE HandlePrApprovalDecisionTurn(kept)
  <2> DEFINE a == Cleared({"prPushedCommitHash"})
  <2>1. /\ a \in Tasks /\ a.kind = task.kind /\ a.plan = task.plan /\ a.approval = task.approval
        /\ a.branch = task.branch
        /\ \A f \in Evidence \ {"prPushedCommitHash"} : a.ev[f] = task.ev[f]
    BY <1>1, <1>3 DEF Cleared, Tasks, MaybeTip
  <2> HIDE DEF a
  <2>2. /\ SameTrace(task, a)
        /\ \A h \in ApplyGates \ {"PR"} : Shown(a)[h] = Shown(task)[h]
    BY <2>1 DEF SameTrace, Shown, Evidence, ApplyGates
  <2> QED
    BY <1>14, <2>1, <2>2, DecideGateHonest DEF HandlePrApprovalDecisionTurn, a, ApplyGates
<1> QED
  BY <1>5, <1>6, <1>7, <1>8, <1>9, <1>10, <1>11, <1>12, <1>13, <1>14
     DEF GateTurn, ApplyGates, HandleCommitApprovalDecisionTurn, HandleMergeApprovalDecisionTurn,
         HandleRemoteBranchCleanupDecisionTurn

(* Every turn before the anchor.                                           *)
LEMMA PlanningTurnHonest ==
    ASSUME EvidenceInv, [Next]_vars, NEW kept \in BOOLEAN, PlanningTurn(kept)
    PROVE  Stored
<1>1. /\ task \in AnchorCopies /\ project \in Projects \cup {None}
      /\ Honest(task, approvals', local', origin') /\ Moved(task)
  BY CopiesStayHonest DEF AnchorCopies, EvidenceInv, IInv, TypeOK, Moved
<1>2. Honest(NoTask, approvals', local', origin') /\ Moved(NoTask)
  BY NewIsHonest, IdleTypes DEF NoTask, Moved
<1>3. LET a == [NoTask EXCEPT !.kind = "scope", !.project = project]
      IN  Honest(a, approvals', local', origin') /\ Moved(a)
  <2> DEFINE a == [NoTask EXCEPT !.kind = "scope", !.project = project]
  <2>1. a \in Tasks /\ a.kind = "scope" /\ a.status = "NONE" /\ a.approval = NoTask.approval
    BY <1>1, IdleTypes DEF NoTask, Tasks
  <2> QED
    BY <2>1, NewIsHonest DEF Moved
<1>4. ASSUME NEW p \in Plans, RunResolvedExecution(p, kept)
      PROVE  Stored
  <2>1. /\ PlanTask(p) \in Tasks /\ PlanTask(p).kind = "plan"
        /\ PlanTask(p).status = "NONE" /\ PlanTask(p).approval = NoTask.approval
    BY <1>1, IdleTypes DEF PlanTask, NoTask, Tasks
  <2>2. Honest(PlanTask(p), approvals', local', origin') /\ Moved(PlanTask(p))
    BY <2>1, NewIsHonest DEF Moved
  <2> QED
    BY <1>4, <2>2, SavedIsHonest DEF RunResolvedExecution
<1> QED
  BY <1>1, <1>2, <1>3, <1>4
     DEF Stored, HonestTask, PlanningTurn, RegisterProject, ClearStale, HandleExecutionIntent,
         AskForScope, HandleScopeClarificationTurn, HandleApprovalTurn, session


(* A success that is kept, by a turn that was not suspended ...            *)
LEMMA SavedSuccess ==
    ASSUME EvidenceInv, [Next]_vars, NEW kept \in BOOLEAN, NEW b \in Tasks, Anchor(kept, b),
           Succeeds(task, b, local', origin'),
           b.status = "GIT_PUSHED" => AppAuth \/ Delivered(b.ev["pushedCommitHash"], local', origin')
    PROVE  Stored
<1>1. task \in AnchorCopies /\ task \in Tasks
  BY DEF AnchorCopies, EvidenceInv, IInv, TypeOK
<1>2. Honest(b, approvals', local', origin')
  BY <1>1, CopiesStayHonest, SuccessIsHonest
<1>3. Moved(b)
  BY DEF Moved, Running
<1> QED
  BY <1>2, <1>3, SavedIsHonest

(* ... and by one that was, whose old anchor is written back.              *)
LEMMA SnapshotSuccess ==
    ASSUME EvidenceInv, [Next]_vars, NEW t \in Turns, NEW b \in Tasks, AnchorSnapshot(t, b),
           turns[t].pc # "idle", Succeeds(turns[t].task, b, local', origin'),
           b.status = "GIT_PUSHED" => AppAuth \/ Delivered(b.ev["pushedCommitHash"], local', origin')
    PROVE  Stored
<1>1. turns[t].task \in AnchorCopies /\ turns[t].task \in Tasks
  BY DEF AnchorCopies, EvidenceInv, IInv, TypeOK
<1>2. Honest(b, approvals', local', origin')
  BY <1>1, CopiesStayHonest, SuccessIsHonest
<1>3. Moved(b)
  BY DEF Moved, Running
<1> QED
  BY <1>2, <1>3 DEF AnchorSnapshot, Stored, HonestTask

(* A push repeats the commit it was asked to deliver.                      *)
LEMMA PushedSucceeds ==
    ASSUME NEW a \in Tasks, a.status = "PUSH_APPROVED", NEW clone, NEW host
    PROVE  /\ Pushed(a) \in Tasks /\ Succeeds(a, Pushed(a), clone, host)
           /\ Pushed(a).ev["pushedCommitHash"] = a.ev["pushCommitHash"]
<1> DEFINE b == Pushed(a)
<1>1. /\ b \in Tasks /\ b.kind = a.kind /\ b.plan = a.plan /\ b.approval = a.approval
      /\ b.branch = a.branch /\ b.status = "GIT_PUSHED"
      /\ b.ev["pushedCommitHash"] = a.ev["pushCommitHash"]
      /\ \A f \in Evidence \ {"pushedCommitHash"} : b.ev[f] = a.ev[f]
  BY DEF Pushed, Tasks, Evidence, Status, Rank
<1> QED
  BY <1>1 DEF Succeeds

(* A synchronised main holds the merge commit.                             *)
LEMMA SyncedSucceeds ==
    ASSUME NEW a \in Tasks, a.status = "PR_MERGED", NEW clone, NEW host,
           a.ev["mergeCommitHash"] \subseteq clone["main"] \cap host["main"]
    PROVE  /\ MainSynced(a) \in Tasks /\ Succeeds(a, MainSynced(a), clone, host)
           /\ MainSynced(a).status = "MAIN_SYNCED"
<1> DEFINE b == MainSynced(a)
<1>1. /\ b \in Tasks /\ b.kind = a.kind /\ b.plan = a.plan /\ b.approval = a.approval
      /\ b.branch = a.branch /\ b.status = "MAIN_SYNCED" /\ b.ev["syncedMainCommit"] = a.ev["mergeCommitHash"]
      /\ \A f \in Evidence \ {"syncedMainCommit"} : b.ev[f] = a.ev[f]
  BY DEF MainSynced, Tasks, Evidence, Status, Rank
<1> QED
  BY <1>1 DEF Succeeds

(* Every synchronous execution turn.                                       *)
LEMMA LocalTurnHonest ==
    ASSUME EvidenceInv, [Next]_vars, NEW saved \in BOOLEAN, NEW kept \in BOOLEAN,
           LocalTurn(saved, kept)
    PROVE  Stored
<1>1. task \in AnchorCopies /\ task \in Tasks /\ WorldOK
  BY DEF AnchorCopies, EvidenceInv, IInv, TypeOK, WorldOK
<1>2. ASSUME NEW to \in {"PATCH_READY", "WORKSPACE_APPLIED", "BRANCH_CLEANED"}, NEW k \in BOOLEAN,
             Anchor(k, [task EXCEPT !.status = to]),
             <<task.status, to>> \in
                 {<<"APPROVED", "PATCH_READY">>, <<"PATCH_READY", "WORKSPACE_APPLIED">>,
                  <<"MAIN_SYNCED", "BRANCH_CLEANED">>},
             to = "BRANCH_CLEANED" => local'["feature"] = None
      PROVE  Stored
  <2> DEFINE b == [task EXCEPT !.status = to]
  <2>1. /\ b \in Tasks /\ b.kind = task.kind /\ b.plan = task.plan /\ b.ev = task.ev
        /\ b.approval = task.approval /\ b.branch = task.branch /\ b.status = to
    BY <1>1 DEF Tasks, Status, Rank
  <2> HIDE DEF b
  <2>2. Succeeds(task, b, local', origin')
    BY <1>2, <2>1 DEF Succeeds
  <2> QED
    BY <1>2, <2>1, <2>2, SavedSuccess DEF b
<1>3. CASE HandlePatchGenerationTurn(kept)
  BY <1>2, <1>3 DEF HandlePatchGenerationTurn, AnchoredAt
<1>4. CASE HandleWorkspaceApplyTurn(saved, kept)
  BY <1>2, <1>4 DEF HandleWorkspaceApplyTurn, AnchoredAt
<1>5. CASE HandleBranchCleanupTurn(kept)
  <2>1. /\ task.status = "MAIN_SYNCED" /\ task.branch # "main"
        /\ DeleteMergedLocalBranch(task.branch)
        /\ Anchor(kept, [task EXCEPT !.status = "BRANCH_CLEANED"])
    BY <1>5 DEF HandleBranchCleanupTurn, AnchoredAt, LocalBranchDeletable
  <2>2. task.branch \in Branches
    BY <1>1, <2>1 DEF EvidenceInv, Honest, Traced, Reached, Rank, Status
  <2>3. task.branch = "feature"
    BY <2>1, <2>2 DEF Branches
  <2>4. local'["feature"] = None
    BY <1>1, <2>1, <2>2, <2>3 DEF DeleteMergedLocalBranch, WorldOK, WorldTypeOK
  <2> QED
    BY <1>2, <2>1, <2>4
<1>6. CASE HandleCommitExecutionTurn(kept)
  <2> DEFINE b == [task EXCEPT !.status = "GIT_COMMITTED", !.ev["commitHash"] = Head \cup worktree]
  <2>1. Head \cup worktree \in Tips /\ Head \cup worktree # None /\ Head \cup worktree \in MaybeTip
    BY <1>1, HeadExists, TipsClosed DEF WorldOK, WorldTypeOK, MaybeTip
  <2>2. /\ b \in Tasks /\ b.kind = task.kind /\ b.plan = task.plan
        /\ b.approval = task.approval /\ b.branch = task.branch /\ b.status = "GIT_COMMITTED"
        /\ b.ev["commitHash"] = Head \cup worktree
        /\ \A f \in Evidence \ {"commitHash"} : b.ev[f] = task.ev[f]
    BY <1>1, <2>1 DEF Tasks, Evidence, Status, Rank
  <2>3. local'[at] = Head \cup worktree /\ at \in Branches
    BY <1>1, <1>6 DEF HandleCommitExecutionTurn, CommitFiles, WorldOK, WorldTypeOK, Head
  <2>4. Anchor(kept, b) /\ task.status = "COMMIT_APPROVED"
    BY <1>6 DEF HandleCommitExecutionTurn, AnchoredAt
  <2> HIDE DEF b
  <2>5. b.ev["commitHash"] \subseteq Held(local')
    BY <2>1, <2>2, <2>3, TipsAreHeld
  <2>6. Succeeds(task, b, local', origin')
    BY <2>2, <2>4, <2>5 DEF Succeeds
  <2> QED
    BY <2>2, <2>4, <2>6, SavedSuccess
<1>7. CASE HandlePushExecutionTurn(kept)
  <2>1. /\ task.status = "PUSH_APPROVED" /\ task.ev["pushCommitHash"] = Head
        /\ task.branch = at /\ at \in Branches /\ PushHead(at) /\ Anchor(kept, Pushed(task))
    BY <1>1, <1>7 DEF HandlePushExecutionTurn, PushExecutionChecks, PushPreflight, AnchoredAt,
                      WorldOK, WorldTypeOK
  <2>2. Head \in Tips /\ Head # None
    BY <1>1, HeadExists, TipsClosed
  <2>3. origin'[at] = Head
    BY <1>1, <2>1 DEF PushHead, MoveOrigin, WorldOK, WorldTypeOK
  <2>4. Delivered(Head, local', origin')
    <3>1. local' = local /\ Head = local[at]
      BY <2>1 DEF PushHead, Head
    <3> QED
      BY <2>1, <2>2, <2>3, <3>1 DEF Delivered, Branches
  <2> QED
    BY <1>1, <2>1, <2>4, PushedSucceeds, SavedSuccess
<1>8. CASE HandleMainSyncTurn(kept)
  <2> DEFINE expected == task.ev["mergeCommitHash"]
  <2>1. task.status = "PR_MERGED"
    BY <1>8 DEF HandleMainSyncTurn, MainSyncChecks, AnchoredAt
  <2>2. CASE CanFastForward(expected, local["main"])
    <3>1. local'["main"] = expected /\ origin'["main"] = expected
      BY <1>1, <1>8, <2>2
         DEF HandleMainSyncTurn, SyncMainFastForward, CanFastForward, WorldOK, WorldTypeOK, Branches
    <3>2. Anchor(kept, MainSynced(task))
      BY <1>8, <2>2 DEF HandleMainSyncTurn, Anchor
    <3> QED
      BY <1>1, <2>1, <3>1, <3>2, SyncedSucceeds, SavedSuccess
  <2>3. CASE ~CanFastForward(expected, local["main"])
    BY <1>1, <1>8, <2>3, CopiesStayHonest
       DEF HandleMainSyncTurn, Anchor, Stored, HonestTask, Moved
  <2> QED
    BY <2>2, <2>3
<1> QED
  BY <1>3, <1>4, <1>5, <1>6, <1>7, <1>8 DEF LocalTurn

(* Every step of a suspended turn.                                         *)
LEMMA TurnStepHonest ==
    ASSUME EvidenceInv, [Next]_vars, NEW t \in Turns, TurnStep(t)
    PROVE  Stored
<1> DEFINE copy == turns[t].task
           hash == turns[t].hash
<1>1. /\ copy \in Tasks /\ copy \in AnchorCopies /\ task \in AnchorCopies
      /\ hash \in MaybeTip /\ turns[t].pr \in PrIds \cup {None}
      /\ turns[t].project \in Projects \cup {None}
      /\ WorldOK
  BY DEF AnchorCopies, EvidenceInv, IInv, TypeOK, WorldOK
<1>2. /\ turns[t].pc = "codegen" => copy.kind = "plan" /\ copy.plan \in Plans
      /\ turns[t].pc \in DOMAIN SuspendedAt => copy.status = SuspendedAt[turns[t].pc]
      /\ turns[t].pc = "mergePreflight" => copy.pr \in PrIds
      /\ turns[t].pc # "idle"
  BY <1>1 DEF TurnStep, RunCodeGenerationPreview, ResumePushExecutionTurn, CheckBranches,
       FindOpenPullRequest, PostPullRequest, ReceivePullRequest, GetMergePreflight, PutMerge,
       ReceiveMerge, GetRemoteRefCommit, ResumeMainSyncTurn, ConfirmMerged, GetRemoteBranchCommit,
       RereadRemoteBranch, ReadRemoteBranch, DeleteRemoteBranch, ReceiveDelete, EvidenceInv, IInv, SuspendedWithinStatus, SuspendedAt, Tasks, PlansKnown
<1>3. CASE UNCHANGED task
  BY <1>1, <1>3, CopiesStayHonest DEF Stored, HonestTask, Moved
<1>4. CASE RunCodeGenerationPreview(t)
  <2> DEFINE b == [NoTask EXCEPT !.kind = "apply", !.plan = copy.plan,
                                 !.project = turns[t].project, !.status = "ELIGIBLE"]
  <2>1. copy.plan \in Plans /\ copy.kind = "plan"
    BY <1>2, <1>4 DEF RunCodeGenerationPreview
  <2>2. "ELIGIBLE" \in Status
    BY DEF Status, Rank
  <2>3. b \in Tasks
    BY <1>1, <2>1, <2>2, IdleTypes DEF Tasks
  <2>4. b.status = "ELIGIBLE" /\ b.approval = NoTask.approval /\ b.plan = copy.plan
    BY DEF NoTask
  <2>5. Honest(b, approvals', local', origin') /\ Moved(b)
    BY <1>2, <2>1, <2>3, <2>4, NewIsHonest DEF Moved
  <2> QED
    BY <1>3, <1>4, <2>5 DEF RunCodeGenerationPreview, AnchorSnapshot, session, Stored, HonestTask
<1>5. CASE ResumePushExecutionTurn(t)
  <2>1. turns[t].pc = "push"
    BY <1>5 DEF ResumePushExecutionTurn
  <2>2. AppAuth /\ copy.status = "PUSH_APPROVED"
    BY <1>2, <2>1 DEF EvidenceInv, Answered, SuspendedAt
  <2> QED
    BY <1>1, <1>2, <1>3, <1>5, <2>2, PushedSucceeds, SnapshotSuccess
       DEF ResumePushExecutionTurn, session
<1>6. ASSUME NEW n \in PrIds \cup {None}, NEW h \in MaybeTip, copy.status = "PR_APPROVED",
             h = copy.ev["prPushedCommitHash"], AnchorSnapshot(t, PrCreated(t, n, h))
      PROVE  Stored
  <2> DEFINE b == PrCreated(t, n, h)
  <2>1. /\ b \in Tasks /\ b.kind = copy.kind /\ b.plan = copy.plan
        /\ b.approval = copy.approval /\ b.branch = copy.branch /\ b.status = "PR_CREATED"
        /\ b.ev["pullRequestCommitHash"] = h
        /\ \A f \in Evidence \ {"pullRequestCommitHash"} : b.ev[f] = copy.ev[f]
    <3>1. copy \in Tasks /\ "PR_CREATED" \in Status
      BY <1>1 DEF Status, Rank
    <3>2. b = [copy EXCEPT !.status = "PR_CREATED", !.pr = n,
                           !.ev = [copy.ev EXCEPT !["pullRequestCommitHash"] = h]]
      BY DEF PrCreated
    <3>3. copy.ev \in [Evidence -> MaybeTip]
      BY <3>1 DEF Tasks
    <3> HIDE DEF b
    <3> QED BY <3>1, <3>2, <3>3 DEF Tasks, Evidence
  <2>2. Succeeds(copy, b, local', origin')
    BY <1>6, <2>1 DEF Succeeds
  <2> QED
    BY <1>2, <1>6, <2>1, <2>2, SnapshotSuccess
<1>7. CASE FindOpenPullRequest(t)
  <2>1. \A n \in OpenPrs : n \in PrIds /\ prs[n].head \in MaybeTip
    BY <1>1 DEF OpenPrs, WorldOK, WorldTypeOK
  <2> QED
    BY <1>2, <1>3, <1>6, <1>7, <2>1 DEF FindOpenPullRequest, SuspendedAt, session
<1>8. CASE ReceivePullRequest(t)
  BY <1>1, <1>2, <1>3, <1>6, <1>8 DEF ReceivePullRequest, SuspendedAt, session
<1>9. ASSUME NEW h \in MaybeTip, copy.status = "MERGE_APPROVED",
             copy.ev["pullRequestCommitHash"] \subseteq origin'["main"],
             AnchorSnapshot(t, PrMerged(t, copy.ev["pullRequestCommitHash"], h))
      PROVE  Stored
  <2> DEFINE head == copy.ev["pullRequestCommitHash"]
             b == PrMerged(t, head, h)
  <2>1. head \in MaybeTip
    BY <1>1 DEF Tasks, Evidence
  <2>2. /\ b \in Tasks /\ b.kind = copy.kind /\ b.plan = copy.plan
        /\ b.approval = copy.approval /\ b.branch = copy.branch /\ b.status = "PR_MERGED"
        /\ b.ev["mergedHeadSha"] = head
        /\ \A f \in Evidence \ {"mergedHeadSha", "mergeCommitHash"} : b.ev[f] = copy.ev[f]
    <3>1. copy \in Tasks /\ "PR_MERGED" \in Status
      BY <1>1 DEF Status, Rank
    <3>2. b = [copy EXCEPT !.status = "PR_MERGED",
                           !.ev = [copy.ev EXCEPT !["mergedHeadSha"] = head, !["mergeCommitHash"] = h]]
      BY DEF PrMerged
    <3>3. copy.ev \in [Evidence -> MaybeTip]
      BY <3>1 DEF Tasks
    <3> HIDE DEF b
    <3> QED BY <2>1, <3>1, <3>2, <3>3 DEF Tasks, Evidence
  <2>3. Succeeds(copy, b, local', origin')
    BY <1>9, <2>2 DEF Succeeds
  <2> QED
    BY <1>2, <1>9, <2>2, <2>3, SnapshotSuccess
<1>10. CASE GetMergePreflight(t)
  <2>1. turns[t].pc = "mergePreflight" /\ origin' = origin /\ None \in MaybeTip
    BY <1>10 DEF GetMergePreflight, world, MaybeTip
  <2>2. prs[copy.pr].state = "merged" => prs[copy.pr].head \subseteq origin["main"]
    BY <1>2, <2>1 DEF EvidenceInv, MainsHold
  <2>3. ExpectedHead(t) = copy.ev["pullRequestCommitHash"]
    BY DEF ExpectedHead
  <2>4. copy.status = "MERGE_APPROVED"
    BY <1>2, <2>1 DEF SuspendedAt
  <2> QED
    BY <1>3, <1>9, <1>10, <2>1, <2>2, <2>3, <2>4 DEF GetMergePreflight, session
<1>11. CASE ReceiveMerge(t)
  <2>1. turns[t].pc = "mergeAnswer" /\ origin' = origin
    BY <1>11 DEF ReceiveMerge, world
  <2>2. copy.ev["pullRequestCommitHash"] \subseteq origin["main"]
    BY <2>1 DEF EvidenceInv, Answered
  <2>3. copy.status = "MERGE_APPROVED"
    BY <1>2, <2>1 DEF SuspendedAt
  <2> QED
    BY <1>1, <1>3, <1>9, <1>11, <2>1, <2>2, <2>3 DEF ReceiveMerge, ExpectedHead, session
<1>12. CASE ResumeMainSyncTurn(t)
  <2>1. turns[t].pc = "syncMain"
    BY <1>12 DEF ResumeMainSyncTurn
  <2>2. copy.status = "PR_MERGED"
    BY <1>2, <2>1 DEF SuspendedAt
  <2>3. CASE UNCHANGED session
    BY <1>3, <2>3 DEF session
  <2>4. CASE /\ CanFastForward(copy.ev["mergeCommitHash"], hash)
             /\ SyncMainFastForward(copy.ev["mergeCommitHash"], hash)
             /\ AnchorSnapshot(t, MainSynced(copy))
    <3>1. local'["main"] = copy.ev["mergeCommitHash"] /\ origin'["main"] = copy.ev["mergeCommitHash"]
      BY <1>1, <2>4 DEF SyncMainFastForward, CanFastForward, WorldOK, WorldTypeOK, Branches
    <3> QED
      BY <1>1, <1>2, <2>2, <2>4, <3>1, SyncedSucceeds, SnapshotSuccess
  <2> QED
    BY <1>12, <2>3, <2>4 DEF ResumeMainSyncTurn
<1>13. ASSUME copy.status = "REMOTE_BRANCH_CLEANUP_APPROVED", AnchorSnapshot(t, RemoteCleaned(t))
       PROVE  Stored
  <2> DEFINE b == RemoteCleaned(t)
  <2>1. /\ b \in Tasks /\ b.kind = copy.kind /\ b.plan = copy.plan /\ b.ev = copy.ev
        /\ b.approval = copy.approval /\ b.branch = copy.branch /\ b.status = "REMOTE_BRANCH_CLEANED"
    BY <1>1 DEF RemoteCleaned, Tasks, Status, Rank
  <2>2. Succeeds(copy, b, local', origin')
    BY <1>13, <2>1 DEF Succeeds
  <2> QED
    BY <1>2, <1>13, <2>1, <2>2, SnapshotSuccess
<1>14. CASE GetRemoteBranchCommit(t)
  BY <1>2, <1>3, <1>13, <1>14 DEF GetRemoteBranchCommit, ReadRemoteBranch, SuspendedAt, session
<1>15. CASE RereadRemoteBranch(t)
  BY <1>2, <1>3, <1>13, <1>15 DEF RereadRemoteBranch, ReadRemoteBranch, SuspendedAt, session
<1>16. CASE ReceiveDelete(t)
  BY <1>2, <1>3, <1>13, <1>16 DEF ReceiveDelete, SuspendedAt, session
<1> QED
  BY <1>3, <1>4, <1>5, <1>7, <1>8, <1>10, <1>11, <1>12, <1>14, <1>15, <1>16
     DEF TurnStep, CheckBranches, PostPullRequest, PutMerge, GetRemoteRefCommit, ConfirmMerged,
         DeleteRemoteBranch, session


(* Whatever the step, the stored anchor is honest and made a known move.   *)
LEMMA NextStored ==
    ASSUME EvidenceInv, [Next]_vars
    PROVE  Stored
<1>1. CASE UNCHANGED task
  <2>1. task \in AnchorCopies
    BY DEF AnchorCopies
  <2> QED
    BY <1>1, <2>1, CopiesStayHonest DEF Stored, HonestTask, Moved
<1>2. ASSUME NEW t, StartTurn(t)
      PROVE  UNCHANGED task
  BY <1>2 DEF StartTurn, SuspendPushExecutionTurn, HandlePrCreationExecutionTurn,
       HandleMergeExecutionTurn, SuspendMainSyncTurn, HandleRemoteBranchCleanupExecutionTurn, session
<1> QED
  BY <1>1, <1>2, PlanningTurnHonest, GateTurnHonest, LocalTurnHonest, TurnStepHonest
     DEF Next, Saves, Crash, Human, session, vars

(* Whatever the step, every copy of the anchor is honest.                  *)
LEMMA NextHonest ==
    ASSUME EvidenceInv, [Next]_vars
    PROVE  \A a \in AnchorCopies' : Honest(a, approvals', local', origin')
<1>1. HonestTask
  BY NextStored DEF Stored
<1>2. Honest(NoTask, approvals', local', origin')
  BY NewIsHonest, IdleTypes DEF NoTask
<1>3. \A t \in Turns : turns'[t].task \in AnchorCopies \cup {NoTask}
  BY NextFlow DEF EvidenceInv, IInv, Flow, Flows, Idle, AnchorCopies
<1> QED
  BY <1>1, <1>2, <1>3, CopiesStayHonest DEF AnchorCopies, HonestTask

-----------------------------------------------------------------------------
(* What a suspended turn knows of its own mutation, and what it says.      *)

Replies ==
    /\ \A u \in Turns : Answered(turns'[u], origin')
    /\ overclaims' = {}

(* A slot that no step touches.                                            *)
LEMMA AnsweredStays ==
    ASSUME EvidenceInv, [Next]_vars
    PROVE  \A u \in Turns : Answered(turns[u], origin')
<1>1. HostGrows
  BY NextGrowsWorld DEF EvidenceInv
<1> QED
  BY <1>1 DEF EvidenceInv, Answered, HostGrows

(* A free slot knows of nothing.                                           *)
LEMMA IdleAnswered == \A host : Answered(Idle, host)
BY DEF Answered, Idle

(* A turn that ends says "blocked" only before its request.                *)
LEMMA EndReplies ==
    ASSUME EvidenceInv, [Next]_vars, NEW t \in Turns, NEW said, End(t, said),
           said = "blocked" => turns[t].pc \notin {"prAnswer", "mergeAnswer", "rmAnswer"}
    PROVE  Replies
<1>1. turns \in [Turns -> TurnRecords]
  BY DEF EvidenceInv, IInv, TypeOK, TurnRecords
<1>2. said = "blocked" => ~turns[t].mutated
  BY DEF EvidenceInv, Answered
<1> QED
  BY <1>1, <1>2, AnsweredStays, IdleAnswered DEF End, EvidenceInv, Replies

(* A turn that anchors its snapshot ends.                                  *)
LEMMA SnapshotReplies ==
    ASSUME EvidenceInv, [Next]_vars, NEW t \in Turns, NEW a, AnchorSnapshot(t, a)
    PROVE  Replies
BY EndReplies DEF AnchorSnapshot

(* A turn that moves on has asked for nothing yet.                         *)
LEMMA ResumeReplies ==
    ASSUME EvidenceInv, [Next]_vars, NEW t \in Turns, NEW pc, Resume(t, pc), UNCHANGED overclaims,
           turns[t].pc \notin {"prAnswer", "mergeAnswer", "rmAnswer"},
           pc \notin {"push", "mergeAnswer"}
    PROVE  Replies
<1>1. turns \in [Turns -> TurnRecords]
  BY DEF EvidenceInv, IInv, TypeOK, TurnRecords
<1>2. ~turns[t].mutated
  BY DEF EvidenceInv, Answered
<1>3. /\ turns'[t].pc = pc /\ turns'[t].mutated = turns[t].mutated
      /\ \A u \in Turns : u # t => turns'[u] = turns[u]
  BY <1>1 DEF Resume, TurnRecords
<1>4. Answered(turns'[t], origin')
  BY <1>2, <1>3 DEF Answered
<1> QED
  BY <1>3, <1>4, AnsweredStays DEF EvidenceInv, Replies

(* A turn that suspends has asked for nothing yet.                         *)
LEMMA SuspendReplies ==
    ASSUME EvidenceInv, [Next]_vars, NEW t \in Turns, NEW pc, NEW hash, Suspend(t, pc, hash),
           UNCHANGED overclaims, pc = "push" => AppAuth, pc # "mergeAnswer"
    PROVE  Replies
<1>1. turns \in [Turns -> TurnRecords]
  BY DEF EvidenceInv, IInv, TypeOK, TurnRecords
<1>2. /\ turns'[t].pc = pc /\ turns'[t].mutated = FALSE
      /\ \A u \in Turns : u # t => turns'[u] = turns[u]
  BY <1>1 DEF Suspend
<1>3. Answered(turns'[t], origin')
  BY <1>2 DEF Answered
<1> QED
  BY <1>2, <1>3, AnsweredStays DEF EvidenceInv, Replies

(* A request that was carried out is remembered until its answer.          *)
LEMMA AnswerReplies ==
    ASSUME EvidenceInv, [Next]_vars, NEW t \in Turns, NEW pc, NEW pr, NEW hash,
           AwaitAnswer(t, pc, pr, hash), UNCHANGED overclaims,
           pc \in {"prAnswer", "mergeAnswer", "rmAnswer"},
           pc = "mergeAnswer" =>
               turns[t].task.ev["pullRequestCommitHash"] \subseteq origin'["main"]
    PROVE  Replies
<1>1. turns \in [Turns -> TurnRecords]
  BY DEF EvidenceInv, IInv, TypeOK, TurnRecords
<1>2. /\ turns'[t].pc = pc /\ turns'[t].task = turns[t].task
      /\ \A u \in Turns : u # t => turns'[u] = turns[u]
  BY <1>1 DEF AwaitAnswer, TurnRecords
<1>3. Answered(turns'[t], origin')
  BY <1>2 DEF Answered
<1> QED
  BY <1>2, <1>3, AnsweredStays DEF EvidenceInv, Replies

(* Every step of a suspended turn.                                         *)
LEMMA TurnStepReplies ==
    ASSUME EvidenceInv, [Next]_vars, NEW t \in Turns, TurnStep(t)
    PROVE  Replies
<1> USE EndReplies, SnapshotReplies, ResumeReplies, AnswerReplies
<1>1. CASE RunCodeGenerationPreview(t)
  BY <1>1 DEF RunCodeGenerationPreview
<1>2. CASE ResumePushExecutionTurn(t)
  BY <1>2 DEF ResumePushExecutionTurn
<1>3. CASE CheckBranches(t)
  BY <1>3 DEF CheckBranches
<1>4. CASE FindOpenPullRequest(t)
  BY <1>4 DEF FindOpenPullRequest
<1>5. CASE PostPullRequest(t)
  BY <1>5 DEF PostPullRequest
<1>6. CASE ReceivePullRequest(t)
  BY <1>6 DEF ReceivePullRequest
<1>7. CASE GetMergePreflight(t)
  BY <1>7 DEF GetMergePreflight
<1>8. CASE PutMerge(t)
  <2>1. turns[t].pc = "mergePut" /\ turns[t].task.pr \in PrIds
    BY <1>8 DEF PutMerge, EvidenceInv, IInv, TypeOK, SuspendedWithinStatus, SuspendedAt, Tasks
  <2>2. WorldOK /\ MainsHold
    BY DEF EvidenceInv, IInv, TypeOK, WorldOK
  <2>3. ASSUME PutMergeAccepted(turns[t].task.pr, ExpectedHead(t)),
               MergePullRequest(turns[t].task.pr)
        PROVE  turns[t].task.ev["pullRequestCommitHash"] \subseteq origin'["main"]
    BY <2>1, <2>2, <2>3, MergeGrows DEF PutMergeAccepted, ExpectedHead
  <2> QED
    BY <1>8, <2>1, <2>3 DEF PutMerge
<1>9. CASE ReceiveMerge(t)
  BY <1>9 DEF ReceiveMerge
<1>10. CASE GetRemoteRefCommit(t)
  BY <1>10 DEF GetRemoteRefCommit
<1>11. CASE ResumeMainSyncTurn(t)
  BY <1>11 DEF ResumeMainSyncTurn
<1>12. CASE ConfirmMerged(t)
  BY <1>12 DEF ConfirmMerged
<1>13. CASE GetRemoteBranchCommit(t)
  BY <1>13 DEF GetRemoteBranchCommit, ReadRemoteBranch
<1>14. CASE RereadRemoteBranch(t)
  BY <1>14 DEF RereadRemoteBranch, ReadRemoteBranch
<1>15. CASE DeleteRemoteBranch(t)
  BY <1>15 DEF DeleteRemoteBranch
<1>16. CASE ReceiveDelete(t)
  BY <1>16 DEF ReceiveDelete
<1> QED
  BY <1>1, <1>2, <1>3, <1>4, <1>5, <1>6, <1>7, <1>8, <1>9, <1>10, <1>11, <1>12, <1>13, <1>14,
     <1>15, <1>16 DEF TurnStep

(* A turn that suspends.                                                   *)
LEMMA StartTurnReplies ==
    ASSUME EvidenceInv, [Next]_vars, NEW t \in Turns, StartTurn(t)
    PROVE  Replies
BY SuspendReplies
   DEF StartTurn, SuspendPushExecutionTurn, HandlePrCreationExecutionTurn,
       HandleMergeExecutionTurn, SuspendMainSyncTurn, HandleRemoteBranchCleanupExecutionTurn

(* Whatever the step, a turn knows what it did and says so.                *)
LEMMA NextReplies ==
    ASSUME EvidenceInv, [Next]_vars
    PROVE  Replies
<1>1. CASE UNCHANGED <<turns, overclaims>>
  BY <1>1, AnsweredStays DEF EvidenceInv, Replies
<1>2. ASSUME NEW kept, GateTurn(kept)
      PROVE  UNCHANGED <<turns, overclaims>>
  BY <1>2
     DEF GateTurn, HandleApplyIntentTurn, HandleApplyApprovalTurn, HandleCommitApprovalTurn,
         HandleCommitApprovalDecisionTurn, HandlePushApprovalTurn, HandlePushApprovalDecisionTurn,
         HandlePrApprovalTurn, HandlePrApprovalDecisionTurn, HandleMergeApprovalTurn,
         HandleMergeApprovalDecisionTurn, HandleRemoteBranchCleanupApprovalTurn,
         HandleRemoteBranchCleanupDecisionTurn, RequestGate, DecideGate
<1>3. ASSUME NEW saved, NEW kept, LocalTurn(saved, kept)
      PROVE  UNCHANGED <<turns, overclaims>>
  BY <1>3
     DEF LocalTurn, HandlePatchGenerationTurn, HandleWorkspaceApplyTurn, HandleCommitExecutionTurn,
         HandlePushExecutionTurn, HandleMainSyncTurn, HandleBranchCleanupTurn
<1>4. ASSUME NEW id \in ApprovalIds, HandleApprovalTurn(id)
      PROVE  Replies
  BY <1>1, <1>4, SuspendReplies DEF HandleApprovalTurn
<1>5. ASSUME NEW kept, PlanningTurn(kept)
      PROVE  Replies
  BY <1>1, <1>4, <1>5
     DEF PlanningTurn, RegisterProject, ClearStale, HandleExecutionIntent, AskForScope,
         HandleScopeClarificationTurn, RunResolvedExecution
<1>6. CASE Crash
  BY <1>6, IdleAnswered DEF Crash, EvidenceInv, Replies
<1> QED
  BY <1>1, <1>2, <1>3, <1>5, <1>6, StartTurnReplies, TurnStepReplies DEF Next, Human, vars


-----------------------------------------------------------------------------
(* The mutations.                                                          *)

AllShown == \A m \in mutations' : AsShown(m, approvals')

(* A verdict stands, so what a mutation was paid with stays what it was.   *)
LEMMA ShownStays ==
    ASSUME EvidenceInv, [Next]_vars
    PROVE  \A m \in mutations : AsShown(m, approvals')
<1> SUFFICES ASSUME NEW m \in mutations
             PROVE  AsShown(m, approvals')
  OBVIOUS
<1>1. Grows
  BY NextGrows DEF EvidenceInv, IInv
<1>2. m.approval \in ApprovalIds /\ approvals[m.approval].status = "APPROVED"
  BY DEF EvidenceInv, IInv, TypeOK, MutationsBacked
<1>3. approvals'[m.approval] = approvals[m.approval]
  BY <1>1, <1>2 DEF Grows
<1> QED
  BY <1>3 DEF EvidenceInv, AsShown

(* A mutation whose scope is what the anchor says is what its request      *)
(* showed.                                                                 *)
LEMMA RecordShown ==
    ASSUME EvidenceInv, [Next]_vars, NEW a \in AnchorCopies, NEW op \in ApplyGates, NEW scope,
           Record(op, a, scope), Reached(a, Approved[op]),
           op \in {"APPLY", "COMMIT", "MERGE"} \/ (op = "PUSH" /\ ~AppAuth) => scope = Shown(a)[op]
    PROVE  AllShown
<1>1. Honest(a, approvals', local', origin') /\ Sound(a, approvals')
  BY CopiesStayHonest, CopiesPersist DEF EvidenceInv
<1>2. approvals'[a.approval[op]].scope = Shown(a)[op]
  BY <1>1 DEF Honest, Agrees, Sound, Backed
<1> DEFINE new == [op |-> op, approval |-> a.approval[op], plan |-> a.plan, scope |-> scope]
<1>3. AsShown(new, approvals')
  BY <1>2 DEF AsShown
<1> QED
  BY <1>3, ShownStays DEF Record, AllShown

(* Every synchronous execution turn.                                       *)
LEMMA LocalTurnShown ==
    ASSUME EvidenceInv, [Next]_vars, NEW saved \in BOOLEAN, NEW kept \in BOOLEAN,
           LocalTurn(saved, kept)
    PROVE  AllShown
<1>1. task \in AnchorCopies
  BY DEF AnchorCopies
<1>2. CASE UNCHANGED mutations
  BY <1>2, ShownStays DEF AllShown
<1>3. CASE HandleWorkspaceApplyTurn(saved, kept)
  <2>1. Reached(task, Approved["APPLY"]) /\ Shown(task)["APPLY"] = {task.plan}
    BY <1>3 DEF HandleWorkspaceApplyTurn, AnchoredAt, Reached, Approved, Rank, Status, Shown
  <2> QED
    BY <1>1, <1>2, <1>3, <2>1, RecordShown DEF HandleWorkspaceApplyTurn, ApplyDiff, ApplyGates
<1>4. CASE HandleCommitExecutionTurn(kept)
  <2>1. Reached(task, Approved["COMMIT"]) /\ Shown(task)["COMMIT"] = {task.plan}
    BY <1>4 DEF HandleCommitExecutionTurn, AnchoredAt, Reached, Approved, Rank, Status, Shown
  <2> QED
    BY <1>1, <1>4, <2>1, RecordShown
       DEF HandleCommitExecutionTurn, CommitScopeHolds, ApplyGates
<1>5. CASE HandlePushExecutionTurn(kept)
  <2>1. Reached(task, Approved["PUSH"]) /\ Shown(task)["PUSH"] = task.ev["pushCommitHash"]
    BY <1>5 DEF HandlePushExecutionTurn, PushExecutionChecks, AnchoredAt, Reached, Approved, Rank,
                Status, Shown
  <2> QED
    BY <1>1, <1>5, <2>1, RecordShown
       DEF HandlePushExecutionTurn, PushExecutionChecks, PushPreflight, ApplyGates
<1> QED
  BY <1>2, <1>3, <1>4, <1>5
     DEF LocalTurn, HandlePatchGenerationTurn, HandleMainSyncTurn, HandleBranchCleanupTurn

(* Every step of a suspended turn.                                         *)
LEMMA TurnStepShown ==
    ASSUME EvidenceInv, [Next]_vars, NEW t \in Turns, TurnStep(t)
    PROVE  AllShown
<1>1. turns[t].task \in AnchorCopies
  BY DEF AnchorCopies
<1>2. CASE UNCHANGED mutations
  BY <1>2, ShownStays DEF AllShown
<1>3. ASSUME NEW op \in ApplyGates, turns[t].pc \in DOMAIN SuspendedAt,
             SuspendedAt[turns[t].pc] = Approved[op]
      PROVE  Reached(turns[t].task, Approved[op])
  BY <1>3 DEF EvidenceInv, IInv, SuspendedWithinStatus, Reached, Approved, Rank, Status, ApplyGates
<1>4. CASE ResumePushExecutionTurn(t)
  <2>1. turns[t].pc = "push"
    BY <1>4 DEF ResumePushExecutionTurn
  <2>2. AppAuth
    BY <2>1 DEF EvidenceInv, Answered
  <2>3. Reached(turns[t].task, Approved["PUSH"])
    BY <1>3, <2>1 DEF SuspendedAt, Approved, ApplyGates
  <2> QED
    BY <1>1, <1>2, <1>4, <2>2, <2>3, RecordShown DEF ResumePushExecutionTurn, ApplyGates
<1>5. CASE PostPullRequest(t)
  <2>1. turns[t].pc = "prCreate" => Reached(turns[t].task, Approved["PR"])
    BY <1>3 DEF SuspendedAt, Approved, ApplyGates
  <2> QED
    BY <1>1, <1>2, <1>5, <2>1, RecordShown DEF PostPullRequest, ApplyGates
<1>6. CASE PutMerge(t)
  <2>1. turns[t].pc = "mergePut" => Reached(turns[t].task, Approved["MERGE"])
    BY <1>3 DEF SuspendedAt, Approved, ApplyGates
  <2>2. Shown(turns[t].task)["MERGE"] = ExpectedHead(t)
    BY DEF Shown, ExpectedHead
  <2> QED
    BY <1>1, <1>2, <1>6, <2>1, <2>2, RecordShown DEF PutMerge, PutMergeAccepted, ApplyGates
<1>7. CASE DeleteRemoteBranch(t)
  <2>1. turns[t].pc = "rmDelete" => Reached(turns[t].task, Approved["REMOTE"])
    BY <1>3 DEF SuspendedAt, Approved, ApplyGates
  <2> QED
    BY <1>1, <1>2, <1>7, <2>1, RecordShown DEF DeleteRemoteBranch, ApplyGates
<1> QED
  BY <1>2, <1>4, <1>5, <1>6, <1>7
     DEF TurnStep, RunCodeGenerationPreview, CheckBranches, FindOpenPullRequest,
         ReceivePullRequest, GetMergePreflight, ReceiveMerge, GetRemoteRefCommit,
         ResumeMainSyncTurn, ConfirmMerged, GetRemoteBranchCommit, RereadRemoteBranch,
         ReadRemoteBranch, ReceiveDelete

(* Whatever the step, a mutation did what its request showed.              *)
LEMMA NextShown ==
    ASSUME EvidenceInv, [Next]_vars
    PROVE  AllShown
<1>1. CASE UNCHANGED mutations
  BY <1>1, ShownStays DEF AllShown
<1>2. ASSUME NEW kept, PlanningTurn(kept) \/ GateTurn(kept)
      PROVE  UNCHANGED mutations
  BY <1>2
     DEF PlanningTurn, RegisterProject, ClearStale, HandleExecutionIntent, AskForScope,
         HandleScopeClarificationTurn, RunResolvedExecution, HandleApprovalTurn, GateTurn,
         HandleApplyIntentTurn, HandleApplyApprovalTurn, HandleCommitApprovalTurn,
         HandleCommitApprovalDecisionTurn, HandlePushApprovalTurn, HandlePushApprovalDecisionTurn,
         HandlePrApprovalTurn, HandlePrApprovalDecisionTurn, HandleMergeApprovalTurn,
         HandleMergeApprovalDecisionTurn, HandleRemoteBranchCleanupApprovalTurn,
         HandleRemoteBranchCleanupDecisionTurn, RequestGate, DecideGate
<1>3. ASSUME NEW t, StartTurn(t)
      PROVE  UNCHANGED mutations
  BY <1>3
     DEF StartTurn, SuspendPushExecutionTurn, HandlePrCreationExecutionTurn,
         HandleMergeExecutionTurn, SuspendMainSyncTurn, HandleRemoteBranchCleanupExecutionTurn
<1> QED
  BY <1>1, <1>2, <1>3, LocalTurnShown, TurnStepShown DEF Next, Saves, Crash, Human, vars

-----------------------------------------------------------------------------
(* The evidence invariant is inductive.                                    *)

(* The empty session satisfies it.                                         *)
LEMMA InitEvidence == Init => EvidenceInv
<1> SUFFICES ASSUME Init PROVE EvidenceInv
  OBVIOUS
<1>1. IInv
  BY InitInvariant
<1>2. MainsHold
  BY NoneAssumption DEF Init, WorldInit, MainsHold, Branches, Tips
<1>3. Honest(NoTask, approvals, local, origin)
  BY NewIsHonest, IdleTypes DEF NoTask
<1>4. \A a \in AnchorCopies : Honest(a, approvals, local, origin)
  BY <1>3 DEF Init, AnchorCopies, Idle
<1>5. \A t \in Turns : Answered(turns[t], origin)
  BY IdleAnswered DEF Init
<1> QED
  BY <1>1, <1>2, <1>4, <1>5 DEF Init, EvidenceInv

(* Every step preserves it.                                                *)
LEMMA NextEvidence == EvidenceInv /\ [Next]_vars => EvidenceInv'
<1> SUFFICES ASSUME EvidenceInv, [Next]_vars PROVE EvidenceInv'
  OBVIOUS
<1>1. IInv'
  BY NextInvariant DEF EvidenceInv
<1>2. MainsHold'
  BY NextGrowsWorld DEF EvidenceInv, MainsHold, CloneGrows, HostGrows
<1>3. \A a \in AnchorCopies' : Honest(a, approvals', local', origin')
  BY NextHonest
<1>4. Replies /\ AllShown
  BY NextReplies, NextShown
<1> QED
  BY <1>1, <1>2, <1>3, <1>4 DEF EvidenceInv, Replies, AllShown

(* The evidence invariant holds in every reachable state.                  *)
THEOREM EvidenceInvariant == Spec => []EvidenceInv
BY InitEvidence, NextEvidence, PTL DEF Spec

(* What was applied, committed and merged is exactly what the request it   *)
(* was approved under showed, however the tree, the clone and the remote   *)
(* branch move and whichever turns overlap.                                *)
THEOREM ScopesAreApproved == Spec => []ApprovedScope
<1>1. EvidenceInv => ApprovedScope
  BY DEF EvidenceInv, AsShown, ApprovedScope
<1> QED
  BY <1>1, EvidenceInvariant, PTL

(* With ambient git credentials a push delivers the commit it was approved *)
(* for; the push_after_token run shows that it need not with App           *)
(* authentication, where the turn awaits a token in between.               *)
THEOREM AmbientPushesAreApproved ==
    ASSUME ~AppAuth
    PROVE  Spec => []PushIsApprovedCommit
<1>1. EvidenceInv => PushIsApprovedCommit
  BY DEF EvidenceInv, AsShown, PushIsApprovedCommit
<1> QED
  BY <1>1, EvidenceInvariant, PTL

(* No turn ever denies a request of its own that was carried out.          *)
THEOREM RepliesAreHonest == Spec => []BlockedMeansUntouched
<1>1. EvidenceInv => BlockedMeansUntouched
  BY DEF EvidenceInv, BlockedMeansUntouched
<1> QED
  BY <1>1, EvidenceInvariant, PTL

(* What the anchor calls merged was approved for merging and is in remote  *)
(* main, whoever merged it; what it calls synchronised is in local main.   *)
THEOREM MergedIsMerged == Spec => []MergesAreReal
<1>1. EvidenceInv => MergesAreReal
  <2> SUFFICES ASSUME EvidenceInv, NEW a \in AnchorCopies
               PROVE  /\ Reached(a, "PR_MERGED") =>
                            /\ a.ev["mergedHeadSha"] = approvals[a.approval["MERGE"]].scope
                            /\ a.ev["mergedHeadSha"] \subseteq origin["main"]
                      /\ Reached(a, "MAIN_SYNCED") => a.ev["syncedMainCommit"] \subseteq local["main"]
    BY DEF MergesAreReal
  <2>1. Honest(a, approvals, local, origin)
    BY DEF EvidenceInv
  <2>2. ASSUME Reached(a, "PR_MERGED")
        PROVE  a.ev["mergedHeadSha"] = approvals[a.approval["MERGE"]].scope
    <3>1. Reached(a, Approved["MERGE"]) /\ "MERGE" \in ApplyGates
      BY <2>2 DEF Reached, Approved, Rank, Status, ApplyGates
    <3>2. a.approval["MERGE"] # None
      BY <3>1 DEF EvidenceInv, IInv, ChainApproved, Granted
    <3>3. approvals[a.approval["MERGE"]].scope = a.ev["pullRequestCommitHash"]
      BY <2>1, <3>1, <3>2 DEF Honest, Agrees, Shown
    <3> QED
      BY <2>1, <2>2, <3>3 DEF Honest, Traced
  <2> QED
    BY <2>1, <2>2 DEF Honest, Real
<1> QED
  BY <1>1, EvidenceInvariant, PTL

(* No step of the runtime or of its users loses a local commit: cleanup    *)
(* deletes only what main has, and main is only fast-forwarded.            *)
THEOREM LocalCommitsAreKept == Spec => LocalCommitsKept
<1>1. EvidenceInv /\ [Next]_vars => Held(local) \subseteq Held(local')
  BY NextGrowsWorld DEF EvidenceInv, CloneGrows
<1> QED
  BY <1>1, EvidenceInvariant, PTL DEF Spec, LocalCommitsKept


-----------------------------------------------------------------------------
(* Who moves when: a message is handled when the runtime is ready for it,  *)
(* a suspended turn moves only its own slot.                               *)

OthersStay(t) == \A u \in Turns \ {t} : turns'[u] = turns[u]

Starts(t) ==
    /\ turns[t].pc = "idle"
    /\ turns'[t].task = task /\ turns'[t].pc \notin {"idle", "rmDelete"}
    /\ OthersStay(t)

Handled == Ready /\ (UNCHANGED turns \/ (UNCHANGED task /\ \E t \in Turns : Starts(t)))

(* A turn that suspends takes a free slot.                                 *)
LEMMA SuspendStarts ==
    ASSUME TypeOK, NEW t \in Turns, NEW pc, NEW hash, Suspend(t, pc, hash),
           pc \notin {"idle", "rmDelete"}
    PROVE  Starts(t)
BY DEF TypeOK, Suspend, Starts, OthersStay

(* Planning, gates and executions wait until the runtime is ready.         *)
LEMMA MessagesHandled ==
    ASSUME TypeOK, NEW saved, NEW kept,
           PlanningTurn(kept) \/ GateTurn(kept) \/ LocalTurn(saved, kept)
    PROVE  Handled
<1>1. CASE PlanningTurn(kept)
  <2>1. ASSUME NEW id, HandleApprovalTurn(id)
        PROVE  Handled
    BY <2>1, SuspendStarts DEF HandleApprovalTurn, Handled, session
  <2> QED
    BY <1>1, <2>1
       DEF PlanningTurn, RegisterProject, ClearStale, HandleExecutionIntent, AskForScope,
           HandleScopeClarificationTurn, RunResolvedExecution, Handled
<1>2. CASE GateTurn(kept)
  BY <1>2
     DEF GateTurn, HandleApplyIntentTurn, HandleApplyApprovalTurn, HandleCommitApprovalTurn,
         HandleCommitApprovalDecisionTurn, HandlePushApprovalTurn, HandlePushApprovalDecisionTurn,
         HandlePrApprovalTurn, HandlePrApprovalDecisionTurn, HandleMergeApprovalTurn,
         HandleMergeApprovalDecisionTurn, HandleRemoteBranchCleanupApprovalTurn,
         HandleRemoteBranchCleanupDecisionTurn, RequestGate, DecideGate, AnchoredAt, Handled
<1>3. CASE LocalTurn(saved, kept)
  BY <1>3
     DEF LocalTurn, HandlePatchGenerationTurn, HandleWorkspaceApplyTurn, HandleCommitExecutionTurn,
         HandlePushExecutionTurn, PushExecutionChecks, HandleMainSyncTurn, MainSyncChecks,
         HandleBranchCleanupTurn, AnchoredAt, Handled
<1> QED
  BY <1>1, <1>2, <1>3

(* So does an execution turn that will wait for the network.               *)
LEMMA StartTurnHandled ==
    ASSUME TypeOK, NEW t \in Turns, StartTurn(t)
    PROVE  Handled
BY SuspendStarts
   DEF StartTurn, SuspendPushExecutionTurn, PushExecutionChecks, HandlePrCreationExecutionTurn,
       HandleMergeExecutionTurn, SuspendMainSyncTurn, MainSyncChecks,
       HandleRemoteBranchCleanupExecutionTurn, AnchoredAt, Handled, session

(* A turn that proceeds keeps the anchor it read. It comes to the deletion *)
(* only from a look at the branch.                                         *)
Proceeds(t) ==
    /\ turns[t].pc # "idle"
    /\ OthersStay(t)
    /\ \/ turns'[t] = Idle
       \/ /\ UNCHANGED task
          /\ turns'[t].pc # "idle" /\ turns'[t].task = turns[t].task
          /\ turns'[t].pc = "rmDelete" =>
                 UNCHANGED origin /\ origin["feature"] = turns[t].task.ev["mergedHeadSha"]

(* A turn that ends.                                                       *)
LEMMA EndProceeds ==
    ASSUME TypeOK, NEW t \in Turns, turns[t].pc # "idle", NEW said, End(t, said)
    PROVE  Proceeds(t)
BY DEF TypeOK, End, Proceeds, OthersStay

(* A turn that moves on.                                                   *)
LEMMA ResumeProceeds ==
    ASSUME TypeOK, NEW t \in Turns, turns[t].pc # "idle", NEW pc, Resume(t, pc), pc # "idle",
           UNCHANGED task,
           pc = "rmDelete" =>
               UNCHANGED origin /\ origin["feature"] = turns[t].task.ev["mergedHeadSha"]
    PROVE  Proceeds(t)
<1>1. turns \in [Turns -> TurnRecords]
  BY DEF TypeOK, TurnRecords
<1>2. turns'[t].pc = pc /\ turns'[t].task = turns[t].task /\ OthersStay(t)
  BY <1>1 DEF Resume, TurnRecords, OthersStay
<1> QED
  BY <1>2 DEF Proceeds

(* A turn whose request was carried out.                                   *)
LEMMA AnswerProceeds ==
    ASSUME TypeOK, NEW t \in Turns, turns[t].pc # "idle", NEW pc, NEW pr, NEW hash,
           AwaitAnswer(t, pc, pr, hash), pc \notin {"idle", "rmDelete"}, UNCHANGED task
    PROVE  Proceeds(t)
<1>1. turns \in [Turns -> TurnRecords]
  BY DEF TypeOK, TurnRecords
<1>2. turns'[t].pc = pc /\ turns'[t].task = turns[t].task /\ OthersStay(t)
  BY <1>1 DEF AwaitAnswer, TurnRecords, OthersStay
<1> QED
  BY <1>2 DEF Proceeds

(* Every step of a suspended turn.                                         *)
LEMMA TurnStepProceeds ==
    ASSUME TypeOK, NEW t \in Turns, TurnStep(t)
    PROVE  Proceeds(t)
<1> USE EndProceeds, ResumeProceeds, AnswerProceeds DEF AnchorSnapshot, session, world
<1>1. CASE RunCodeGenerationPreview(t)
  BY <1>1 DEF RunCodeGenerationPreview
<1>2. CASE ResumePushExecutionTurn(t)
  BY <1>2 DEF ResumePushExecutionTurn
<1>3. CASE CheckBranches(t)
  BY <1>3 DEF CheckBranches
<1>4. CASE FindOpenPullRequest(t)
  BY <1>4 DEF FindOpenPullRequest
<1>5. CASE PostPullRequest(t)
  BY <1>5 DEF PostPullRequest
<1>6. CASE ReceivePullRequest(t)
  BY <1>6 DEF ReceivePullRequest
<1>7. CASE GetMergePreflight(t)
  BY <1>7 DEF GetMergePreflight
<1>8. CASE PutMerge(t)
  BY <1>8 DEF PutMerge
<1>9. CASE ReceiveMerge(t)
  BY <1>9 DEF ReceiveMerge
<1>10. CASE GetRemoteRefCommit(t)
  BY <1>10 DEF GetRemoteRefCommit
<1>11. CASE ResumeMainSyncTurn(t)
  BY <1>11 DEF ResumeMainSyncTurn
<1>12. CASE ConfirmMerged(t)
  BY <1>12 DEF ConfirmMerged
<1>13. CASE GetRemoteBranchCommit(t)
  BY <1>13 DEF GetRemoteBranchCommit, ReadRemoteBranch
<1>14. CASE RereadRemoteBranch(t)
  BY <1>14 DEF RereadRemoteBranch, ReadRemoteBranch
<1>15. CASE DeleteRemoteBranch(t)
  BY <1>15 DEF DeleteRemoteBranch
<1>16. CASE ReceiveDelete(t)
  BY <1>16 DEF ReceiveDelete
<1> QED
  BY <1>1, <1>2, <1>3, <1>4, <1>5, <1>6, <1>7, <1>8, <1>9, <1>10, <1>11, <1>12, <1>13, <1>14,
     <1>15, <1>16 DEF TurnStep

(* What a step is, as far as the slots are concerned.                      *)
LEMMA StepsOfSlots ==
    ASSUME TypeOK, [Next]_vars
    PROVE  \/ Handled
           \/ \E t \in Turns : TurnStep(t) /\ Proceeds(t)
           \/ UNCHANGED <<task, world>> /\ \A t \in Turns : turns'[t] = Idle
           \/ UNCHANGED <<task, turns>> /\ (Human \/ UNCHANGED world)
<1>1. CASE Crash
  BY <1>1 DEF Crash, session
<1>2. CASE Human \/ UNCHANGED vars
  BY <1>2 DEF Human, vars, session
<1> QED
  BY <1>1, <1>2, MessagesHandled, StartTurnHandled, TurnStepProceeds DEF Next

(* Where nothing is suspended nothing can meet.                            *)
LEMMA AllIdleAlone == ASSUME \A t \in Turns : turns'[t] = Idle PROVE Alone'
<1>1. \A t \in Turns : turns'[t].pc = "idle"
  BY DEF Idle
<1> QED
  BY <1>1 DEF Alone

(* A suspended turn stays alone with the anchor it read.                   *)
LEMMA NextAlone ==
    ASSUME TypeOK, Alone, [Next]_vars
    PROVE  Alone'
<1>0. ASSUME \A u \in Turns : turns'[u].pc = "idle" => turns'[u] = Idle,
             NEW t \in Turns, turns'[t].task = task',
             OneTurnAtATime => \A u \in Turns \ {t} : turns'[u].pc = "idle"
      PROVE  Alone'
  <2>1. ASSUME OneTurnAtATime, NEW v \in Turns, turns'[v].pc # "idle"
        PROVE  v = t /\ turns'[v].task = task' /\ \A u \in Turns : u # v => turns'[u].pc = "idle"
    BY <1>0, <2>1
  <2> QED
    BY <1>0, <2>1 DEF Alone
<1>1. CASE UNCHANGED <<task, turns>>
  BY <1>1 DEF Alone
<1>2. CASE \A t \in Turns : turns'[t] = Idle
  BY <1>2, AllIdleAlone
<1>3. ASSUME NEW t \in Turns, Proceeds(t)
      PROVE  Alone'
  <2>1. CASE turns'[t] = Idle
    <3>1. \A u \in Turns : turns'[u] = Idle \/ (u # t /\ turns'[u] = turns[u])
      BY <1>3, <2>1 DEF Proceeds, OthersStay
    <3>2. OneTurnAtATime => \A u \in Turns : turns'[u] = Idle
      BY <1>3, <3>1 DEF Proceeds, Alone
    <3>3. \A u \in Turns : turns'[u].pc = "idle" => turns'[u] = Idle
      BY <3>1 DEF Alone
    <3>4. OneTurnAtATime => \A u \in Turns : turns'[u].pc = "idle"
      BY <3>2 DEF Idle
    <3> QED
      BY <3>3, <3>4 DEF Alone
  <2>2. CASE task' = task /\ turns'[t].pc # "idle" /\ turns'[t].task = turns[t].task
    <3>1. \A u \in Turns \ {t} : turns'[u] = turns[u]
      BY <1>3 DEF Proceeds, OthersStay
    <3>2. OneTurnAtATime => turns[t].task = task /\ \A u \in Turns \ {t} : turns[u].pc = "idle"
      BY <1>3 DEF Proceeds, Alone
    <3>3. CASE OneTurnAtATime
      <4>1. turns'[t].task = task' /\ \A u \in Turns \ {t} : turns'[u].pc = "idle"
        BY <2>2, <3>1, <3>2, <3>3
      <4>2. \A u \in Turns : turns'[u].pc = "idle" => turns'[u] = Idle
        BY <2>2, <3>1 DEF Alone
      <4> QED
        BY <1>0, <4>1, <4>2
    <3>4. CASE ~OneTurnAtATime
      BY <2>2, <3>1, <3>4 DEF Alone
    <3> QED
      BY <3>3, <3>4
  <2> QED
    BY <1>3, <2>1, <2>2 DEF Proceeds
<1>4. CASE Handled
  <2>1. OneTurnAtATime => \A t \in Turns : turns[t].pc = "idle"
    BY <1>4 DEF Handled, Ready
  <2>2. CASE UNCHANGED turns
    BY <2>1, <2>2 DEF Alone
  <2>3. ASSUME NEW t \in Turns, Starts(t), UNCHANGED task
        PROVE  Alone'
    <3>1. /\ turns'[t].task = task' /\ turns'[t].pc # "idle"
          /\ \A u \in Turns \ {t} : turns'[u] = turns[u]
      BY <2>3 DEF Starts, OthersStay
    <3>2. OneTurnAtATime => \A u \in Turns \ {t} : turns'[u].pc = "idle"
      BY <2>1, <3>1
    <3>3. \A u \in Turns : turns'[u].pc = "idle" => turns'[u] = Idle
      BY <3>1 DEF Alone
    <3> QED
      BY <1>0, <3>1, <3>2, <3>3
  <2> QED
    BY <1>4, <2>2, <2>3 DEF Handled
<1> QED
  BY <1>1, <1>2, <1>3, <1>4, StepsOfSlots

-----------------------------------------------------------------------------
(* The branches of the hosting service.                                    *)

BranchesGrow ==
    \A b \in Branches : origin[b] # None => origin'[b] # None /\ origin[b] \subseteq origin'[b]

(* A step that leaves the hosted repository alone.                         *)
LEMMA OriginStays == ASSUME UNCHANGED origin PROVE BranchesGrow
BY DEF BranchesGrow

(* A branch that is moved forward.                                         *)
LEMMA MoveKeeps ==
    ASSUME WorldOK, NEW b, NEW tip \in Tips, MoveOrigin(b, tip),
           origin[b] # None => origin[b] \subseteq tip
    PROVE  BranchesGrow
<1>1. tip # None
  BY NoneAssumption
<1>2. origin \in [Branches -> MaybeTip]
  BY DEF WorldOK, WorldTypeOK
<1> QED
  BY <1>1, <1>2 DEF MoveOrigin, BranchesGrow

(* A push is fast-forward only.                                            *)
LEMMA PushKeeps ==
    ASSUME WorldOK, NEW b, PushHead(b)
    PROVE  BranchesGrow
BY HeadExists, MoveKeeps DEF PushHead, PushAccepted

(* A merge adds to main.                                                   *)
LEMMA MergeKeeps ==
    ASSUME WorldOK, NEW n \in PrIds, MergePullRequest(n)
    PROVE  BranchesGrow
<1>1. /\ origin \in [Branches -> MaybeTip] /\ origin["main"] # None /\ "main" \in Branches
      /\ prs[n].head \in MaybeTip /\ prs[n].head # None
  BY DEF WorldOK, WorldTypeOK, RefsExist, MergePullRequest, Branches
<1>2. origin["main"] \in Tips /\ prs[n].head \in Tips
  BY <1>1 DEF MaybeTip
<1>3. origin["main"] \cup prs[n].head # None
  BY <1>2, TipsClosed
<1> QED
  BY <1>1, <1>3 DEF MergePullRequest, BranchesGrow

(* The bot deletes the branch, or somebody does, or every branch grows.    *)
Deletes == \E t \in Turns : turns[t].pc = "rmDelete" /\ DeleteRemoteRef("feature")

(* A person only adds to a branch, unless branch deletions are among the   *)
(* events.                                                                 *)
LEMMA HumanKeeps ==
    ASSUME WorldOK, Human
    PROVE  BranchesGrow \/ "humanDelete" \in Events
<1> USE OriginStays
<1>1. ASSUME NEW event \in {"remotePush", "mainPush"}, NEW b \in Branches, HumanRemotePush(event, b)
      PROVE  BranchesGrow
  <2>1. origin[b] \in Tips /\ {event} \in Tips
    BY <1>1 DEF HumanRemotePush, WorldOK, WorldTypeOK, MaybeTip, Tips, Changes, Foreign
  <2>2. origin[b] \cup {event} \in Tips
    BY <2>1, TipsClosed
  <2> QED
    BY <1>1, <2>2, MoveKeeps DEF HumanRemotePush
<1>2. ASSUME NEW n \in PrIds, HumanMerge(n)
      PROVE  BranchesGrow
  BY <1>2, MergeKeeps DEF HumanMerge
<1>3. CASE UNCHANGED origin
  BY <1>3
<1> QED
  BY <1>1, <1>2, <1>3
     DEF Human, HumanEdit, HumanDiscard, HumanCommit, HumanCheckout, HumanFetch, RemotePush,
         HumanClose, HumanDelete, Branches

(* Of the remote steps of a turn, only the deletion takes a branch away.   *)
LEMMA TurnStepKeeps ==
    ASSUME IInv, NEW t \in Turns, TurnStep(t)
    PROVE  BranchesGrow \/ Deletes
<1> USE OriginStays DEF world
<1>1. WorldOK
  BY DEF IInv, TypeOK, WorldOK
<1>2. CASE UNCHANGED origin
  BY <1>2
<1>3. CASE ResumePushExecutionTurn(t)
  BY <1>1, <1>2, <1>3, PushKeeps DEF ResumePushExecutionTurn
<1>4. CASE PutMerge(t)
  <2>1. turns[t].pc = "mergePut" => turns[t].task.pr \in PrIds
    BY DEF IInv, TypeOK, SuspendedWithinStatus, SuspendedAt, Tasks
  <2> QED
    BY <1>1, <1>2, <1>4, <2>1, MergeKeeps DEF PutMerge
<1>5. CASE DeleteRemoteBranch(t)
  BY <1>2, <1>5 DEF DeleteRemoteBranch, Deletes
<1>6. CASE PostPullRequest(t) \/ ResumeMainSyncTurn(t)
  BY <1>2, <1>6
     DEF PostPullRequest, CreatePullRequest, ResumeMainSyncTurn, SyncMainFastForward
<1> QED
  BY <1>2, <1>3, <1>4, <1>5, <1>6
     DEF TurnStep, RunCodeGenerationPreview, CheckBranches, FindOpenPullRequest,
         ReceivePullRequest, GetMergePreflight, ReceiveMerge, GetRemoteRefCommit, ConfirmMerged,
         GetRemoteBranchCommit, RereadRemoteBranch, ReadRemoteBranch, ReceiveDelete

(* Any step: branches grow, a turn deletes the feature branch, or a person *)
(* deletes one.                                                            *)
LEMMA NextKeeps ==
    ASSUME IInv, [Next]_vars
    PROVE  BranchesGrow \/ Deletes \/ (Human /\ "humanDelete" \in Events)
<1>1. WorldOK
  BY DEF IInv, TypeOK, WorldOK
<1>2. CASE UNCHANGED world
  BY <1>2, OriginStays DEF world
<1>3. ASSUME NEW saved, NEW kept, LocalTurn(saved, kept)
      PROVE  BranchesGrow
  <2>1. CASE HandlePushExecutionTurn(kept)
    BY <1>1, <2>1, PushKeeps DEF HandlePushExecutionTurn
  <2>2. CASE UNCHANGED origin
    BY <2>2, OriginStays
  <2> QED
    BY <1>3, <2>1, <2>2
       DEF LocalTurn, HandlePatchGenerationTurn, HandleWorkspaceApplyTurn,
           HandleCommitExecutionTurn, CommitFiles, HandleMainSyncTurn, SyncMainFastForward,
           HandleBranchCleanupTurn, DeleteMergedLocalBranch, world
<1>4. ASSUME NEW kept, PlanningTurn(kept) \/ GateTurn(kept)
      PROVE  UNCHANGED world
  BY <1>4
     DEF PlanningTurn, RegisterProject, ClearStale, HandleExecutionIntent, AskForScope,
         HandleScopeClarificationTurn, RunResolvedExecution, HandleApprovalTurn, GateTurn,
         HandleApplyIntentTurn, HandleApplyApprovalTurn, HandleCommitApprovalTurn,
         HandleCommitApprovalDecisionTurn, HandlePushApprovalTurn, HandlePushApprovalDecisionTurn,
         HandlePrApprovalTurn, HandlePrApprovalDecisionTurn, HandleMergeApprovalTurn,
         HandleMergeApprovalDecisionTurn, HandleRemoteBranchCleanupApprovalTurn,
         HandleRemoteBranchCleanupDecisionTurn, RequestGate, DecideGate
<1>5. ASSUME NEW t, StartTurn(t)
      PROVE  UNCHANGED world
  BY <1>5
     DEF StartTurn, SuspendPushExecutionTurn, HandlePrCreationExecutionTurn,
         HandleMergeExecutionTurn, SuspendMainSyncTurn, HandleRemoteBranchCleanupExecutionTurn
<1> QED
  BY <1>1, <1>2, <1>3, <1>4, <1>5, HumanKeeps, TurnStepKeeps DEF Next, Crash, vars

(* What a turn is about to delete is what was merged.                      *)
LEMMA NextMergedWhenDeleted ==
    ASSUME EvidenceInv, Alone, MergedWhenDeleted, [Next]_vars
    PROVE  MergedWhenDeleted'
<1> SUFFICES ASSUME NoDeleteRace, NEW t \in Turns, turns'[t].pc = "rmDelete"
             PROVE  origin'["feature"] = turns'[t].task.ev["mergedHeadSha"]
  BY DEF MergedWhenDeleted, NoDeleteRace
<1>1. OneTurnAtATime /\ TypeOK /\ "deleteRace" \notin Events /\ "humanDelete" \notin Events
  BY DEF NoDeleteRace, EvidenceInv, IInv
<1>2. ASSUME turns'[t] = turns[t], UNCHANGED origin
      PROVE  origin'["feature"] = turns'[t].task.ev["mergedHeadSha"]
  BY <1>2 DEF MergedWhenDeleted
<1>3. CASE Handled
  BY <1>1, <1>3 DEF Handled, Ready, Starts, OthersStay
<1>4. ASSUME NEW u \in Turns, Proceeds(u)
      PROVE  origin'["feature"] = turns'[t].task.ev["mergedHeadSha"]
  <2>1. t = u
    BY <1>1, <1>4 DEF Proceeds, OthersStay, Alone
  <2> QED
    BY <1>4, <2>1 DEF Proceeds, Idle
<1>5. CASE \A u \in Turns : turns'[u] = Idle
  BY <1>5 DEF Idle
<1>6. CASE UNCHANGED turns /\ (Human \/ UNCHANGED world)
  <2>1. origin'["feature"] = origin["feature"]
    <3>1. ASSUME NEW n \in PrIds, MergePullRequest(n)
          PROVE  origin'["feature"] = origin["feature"]
      BY <1>1, <3>1 DEF MergePullRequest, TypeOK, WorldTypeOK, Branches
    <3>2. CASE HumanRemotePush("mainPush", "main")
      BY <1>1, <3>2 DEF HumanRemotePush, MoveOrigin, TypeOK, WorldTypeOK, Branches
    <3> QED
      BY <1>1, <1>6, <3>1, <3>2
         DEF Human, HumanEdit, HumanDiscard, HumanCommit, HumanCheckout, HumanFetch, RemotePush,
             HumanMerge, HumanClose, HumanDelete, world
  <2> QED
    BY <1>6, <2>1 DEF MergedWhenDeleted
<1> QED
  BY <1>1, <1>3, <1>4, <1>5, <1>6, StepsOfSlots


(* A branch that is deleted as the merge left it loses nothing.            *)
LEMMA DeletionLosesNothing ==
    ASSUME EvidenceInv, MergedWhenDeleted, NoDeleteRace, Deletes
    PROVE  \A b \in Branches : origin[b] # None =>
               \E c \in Branches : origin'[c] # None /\ origin[b] \subseteq origin'[c]
<1>1. PICK t \in Turns : turns[t].pc = "rmDelete" /\ DeleteRemoteRef("feature")
  BY DEF Deletes
<1>2. turns[t].task.status = "REMOTE_BRANCH_CLEANUP_APPROVED" /\ turns[t].task \in AnchorCopies
  BY <1>1 DEF EvidenceInv, IInv, SuspendedWithinStatus, SuspendedAt, AnchorCopies
<1>3. turns[t].task.ev["mergedHeadSha"] \subseteq origin["main"]
  BY <1>2 DEF EvidenceInv, Honest, Real, Reached, Rank, Status
<1>4. origin["feature"] \subseteq origin["main"]
  BY <1>1, <1>3 DEF MergedWhenDeleted
<1>5. origin["main"] # None /\ origin'["main"] = origin["main"]
  BY <1>1 DEF EvidenceInv, IInv, TypeOK, WorldTypeOK, RefsExist, DeleteRemoteRef, MoveOrigin, Branches
<1> QED
  BY <1>4, <1>5 DEF Branches

-----------------------------------------------------------------------------
(* The anchor of a plan moves along the lifecycle.                         *)

(* The tables of the gates and of the successes follow the ranks.          *)
LEMMA MovesForward ==
    /\ \A g \in ApplyGates : Rank[Pending[g]] >= Rank[Durable[g]]
                             /\ Rank[Approved[g]] >= Rank[Pending[g]]
    /\ \A s \in Status : Rank[s] >= Rank["ELIGIBLE"] /\ Rank[s] \in Nat
    /\ "NONE" \notin Status /\ "ELIGIBLE" \in Status
BY DEF ApplyGates, Durable, Pending, Approved, Status, Rank

(* A remote step that succeeds raises the status.                          *)
LEMMA SuccessForward ==
    ASSUME NEW a, NEW b, NEW clone, NEW host, Succeeds(a, b, clone, host)
    PROVE  Rank[b.status] >= Rank[a.status]
BY DEF Succeeds, Rank

(* With one turn at a time a status falls only where a gate that is        *)
(* refused goes back to its durable state.                                 *)
LEMMA NextForward ==
    ASSUME EvidenceInv, Alone, OneTurnAtATime, [Next]_vars,
           task.kind = "apply", task'.kind = "apply"
    PROVE  \/ Rank[task'.status] >= Rank[task.status]
           \/ \E g \in ApplyGates : task.status = Pending[g] /\ task'.status = Durable[g]
<1>1. task.status \in Status
  BY DEF EvidenceInv, Honest, Traced, AnchorCopies
<1>2. Moved(task')
  BY NextStored DEF Stored
<1>3. \A a \in Running : a = task
  BY DEF Running, Alone
<1>4. ASSUME NEW t \in Turns, turns[t].pc # "idle"
      PROVE  turns[t].task.kind = "apply"
  BY <1>4 DEF Alone
<1>5. CASE task' = task
  BY <1>1, <1>5, MovesForward
<1>6. ASSUME NEW g \in ApplyGates, task.status = Durable[g], task'.status = Pending[g]
      PROVE  Rank[task'.status] >= Rank[task.status]
  BY <1>6, MovesForward
<1>7. ASSUME NEW g \in ApplyGates, task.status = Pending[g], task'.status \in {Approved[g], Durable[g]}
      PROVE  \/ Rank[task'.status] >= Rank[task.status]
             \/ \E h \in ApplyGates : task.status = Pending[h] /\ task'.status = Durable[h]
  BY <1>7, MovesForward
<1>8. ASSUME NEW a \in Running, Succeeds(a, task', local', origin')
      PROVE  Rank[task'.status] >= Rank[task.status]
  BY <1>3, <1>8, SuccessForward
<1> QED
  BY <1>2, <1>4, <1>5, <1>6, <1>7, <1>8 DEF Moved

-----------------------------------------------------------------------------
(* Pushed commits, where only the runtime deletes the branch.              *)

(* The local feature branch grows until main has what it has.              *)
FeatureKept ==
    local["feature"] # None =>
        \/ local'["feature"] # None /\ local["feature"] \subseteq local'["feature"]
        \/ local["feature"] \subseteq origin["main"]

(* A commit adds to the branch it is made on.                              *)
LEMMA CommitKeepsFeature ==
    ASSUME WorldOK, NEW more \in Tips, local' = [local EXCEPT ![at] = @ \cup more]
    PROVE  FeatureKept
<1>1. at \in Branches /\ local \in [Branches -> MaybeTip] /\ local[at] \in Tips
  BY HeadExists DEF WorldOK, WorldTypeOK, Head
<1>2. local[at] \cup more # None
  BY <1>1, TipsClosed
<1> QED
  BY <1>1, <1>2 DEF FeatureKept, Branches

(* The fast-forward of main leaves the feature branch alone.               *)
LEMMA SyncKeepsFeature ==
    ASSUME WorldOK, NEW expected, NEW previous, SyncMainFastForward(expected, previous)
    PROVE  FeatureKept
<1>1. local \in [Branches -> MaybeTip] /\ "feature" \in Branches
  BY DEF WorldOK, WorldTypeOK, Branches
<1> QED
  BY <1>1 DEF SyncMainFastForward, FeatureKept

(* Any step keeps the local feature branch or finds it in the hosted main. *)
LEMMA NextKeepsFeature ==
    ASSUME EvidenceInv, [Next]_vars
    PROVE  FeatureKept
<1>1. WorldOK /\ IInv
  BY DEF EvidenceInv, IInv, TypeOK, WorldOK
<1>2. CASE UNCHANGED local
  BY <1>2 DEF FeatureKept
<1>3. ASSUME NEW saved, NEW kept, LocalTurn(saved, kept)
      PROVE  FeatureKept
  <2>1. CASE HandleCommitExecutionTurn(kept)
    BY <1>1, <2>1, CommitKeepsFeature
       DEF HandleCommitExecutionTurn, CommitFiles, WorldOK, WorldTypeOK
  <2>2. CASE HandleMainSyncTurn(kept)
    BY <1>1, <2>2, SyncKeepsFeature DEF HandleMainSyncTurn
  <2>3. CASE HandleBranchCleanupTurn(kept)
    <3>1. /\ task \in AnchorCopies /\ task.status = "MAIN_SYNCED"
          /\ LocalBranchDeletable(task.branch, task.ev["syncedMainCommit"])
          /\ DeleteMergedLocalBranch(task.branch)
      BY <2>3 DEF HandleBranchCleanupTurn, AnchoredAt, AnchorCopies
    <3>2. task.branch \in Branches /\ task.ev["syncedMainCommit"] \subseteq origin["main"]
      BY <3>1 DEF EvidenceInv, Honest, Traced, Real, Reached, Rank, Status
    <3>3. task.branch = "feature"
      BY <3>1, <3>2 DEF LocalBranchDeletable, Branches
    <3> QED
      BY <3>1, <3>2, <3>3 DEF LocalBranchDeletable, FeatureKept
  <2> QED
    BY <1>2, <1>3, <2>1, <2>2, <2>3
       DEF LocalTurn, HandlePatchGenerationTurn, HandleWorkspaceApplyTurn, HandlePushExecutionTurn,
           PushHead, world
<1>4. ASSUME NEW t \in Turns, TurnStep(t)
      PROVE  FeatureKept
  <2>1. CASE ResumeMainSyncTurn(t)
    BY <1>1, <1>2, <2>1, SyncKeepsFeature DEF ResumeMainSyncTurn, world
  <2> QED
    BY <1>2, <1>4, <2>1
       DEF TurnStep, RunCodeGenerationPreview, ResumePushExecutionTurn, PushHead, CheckBranches,
           FindOpenPullRequest, PostPullRequest, CreatePullRequest, ReceivePullRequest,
           GetMergePreflight, PutMerge, MergePullRequest, ReceiveMerge, GetRemoteRefCommit,
           ConfirmMerged, GetRemoteBranchCommit, RereadRemoteBranch, ReadRemoteBranch,
           DeleteRemoteBranch, DeleteRemoteRef, ReceiveDelete, world
<1>5. ASSUME NEW kept, PlanningTurn(kept) \/ GateTurn(kept)
      PROVE  UNCHANGED world
  BY <1>5
     DEF PlanningTurn, RegisterProject, ClearStale, HandleExecutionIntent, AskForScope,
         HandleScopeClarificationTurn, RunResolvedExecution, HandleApprovalTurn, GateTurn,
         HandleApplyIntentTurn, HandleApplyApprovalTurn, HandleCommitApprovalTurn,
         HandleCommitApprovalDecisionTurn, HandlePushApprovalTurn, HandlePushApprovalDecisionTurn,
         HandlePrApprovalTurn, HandlePrApprovalDecisionTurn, HandleMergeApprovalTurn,
         HandleMergeApprovalDecisionTurn, HandleRemoteBranchCleanupApprovalTurn,
         HandleRemoteBranchCleanupDecisionTurn, RequestGate, DecideGate
<1>6. ASSUME NEW t, StartTurn(t)
      PROVE  UNCHANGED world
  BY <1>6
     DEF StartTurn, SuspendPushExecutionTurn, HandlePrCreationExecutionTurn,
         HandleMergeExecutionTurn, SuspendMainSyncTurn, HandleRemoteBranchCleanupExecutionTurn
<1>7. CASE Human
  <2>1. CASE HumanCommit
    <3>1. {"localCommit"} \in Tips
      BY DEF Tips, Changes, Foreign
    <3> QED
      BY <1>1, <2>1, <3>1, CommitKeepsFeature DEF HumanCommit
  <2> QED
    BY <1>2, <1>7, <2>1
       DEF Human, HumanEdit, HumanDiscard, HumanCheckout, HumanFetch, RemotePush, HumanRemotePush,
           HumanMerge, MergePullRequest, HumanClose, HumanDelete, DeleteRemoteRef
<1> QED
  BY <1>2, <1>3, <1>4, <1>5, <1>6, <1>7 DEF Next, Crash, vars, world

(* A commit that was delivered stays delivered.                            *)
LEMMA DeliveredStays ==
    ASSUME EvidenceInv, "humanDelete" \notin Events, [Next]_vars,
           NEW tip, Delivered(tip, local, origin)
    PROVE  Delivered(tip, local', origin')
<1>1. HostGrows /\ FeatureKept /\ (BranchesGrow \/ Deletes)
  BY NextGrowsWorld, NextKeepsFeature, NextKeeps DEF EvidenceInv
<1>2. CASE tip \subseteq origin["main"]
  BY <1>1, <1>2 DEF HostGrows, Delivered
<1>3. CASE Deletes
  <2>1. PICK t \in Turns : turns[t].pc = "rmDelete"
    BY <1>3 DEF Deletes
  <2>2. turns[t].task.status = "REMOTE_BRANCH_CLEANUP_APPROVED" /\ turns[t].task \in AnchorCopies
    BY <2>1 DEF EvidenceInv, IInv, SuspendedWithinStatus, SuspendedAt, AnchorCopies
  <2>3. local["feature"] = None
    BY <2>2 DEF EvidenceInv, Honest, Real, Reached, Rank, Status
  <2> QED
    BY <1>2, <2>3 DEF Delivered
<1>4. CASE BranchesGrow
  BY <1>1, <1>2, <1>4 DEF BranchesGrow, FeatureKept, HostGrows, Delivered, Branches
<1> QED
  BY <1>1, <1>3, <1>4

(* No gate is the push, and no gate changes what was pushed.               *)
LEMMA PushedStays ==
    ASSUME NEW a, NEW b, Reached(b, "GIT_PUSHED"),
           \/ \E g \in ApplyGates :
                 /\ SameTrace(a, b)
                 /\ \/ a.status = Durable[g] /\ b.status = Pending[g]
                    \/ a.status = Pending[g] /\ b.status \in {Approved[g], Durable[g]}
           \/ \E clone, host : Succeeds(a, b, clone, host) /\ b.status # "GIT_PUSHED"
    PROVE  Reached(a, "GIT_PUSHED") /\ b.ev["pushedCommitHash"] = a.ev["pushedCommitHash"]
<1>1. CASE \E g \in ApplyGates :
              /\ SameTrace(a, b)
              /\ \/ a.status = Durable[g] /\ b.status = Pending[g]
                 \/ a.status = Pending[g] /\ b.status \in {Approved[g], Durable[g]}
  BY <1>1 DEF SameTrace, Evidence, Reached, ApplyGates, Durable, Pending, Approved, Status, Rank
<1>2. CASE \E clone, host : Succeeds(a, b, clone, host) /\ b.status # "GIT_PUSHED"
  BY <1>2 DEF Succeeds, Evidence, Reached, Status, Rank
<1> QED
  BY <1>1, <1>2

(* What every copy of the anchor calls pushed was delivered.               *)
LEMMA NextPushesReal ==
    ASSUME EvidenceInv, PushesAreReal, [Next]_vars
    PROVE  PushesAreReal'
<1> SUFFICES ASSUME OwnBranch, NEW a \in AnchorCopies', Reached(a, "GIT_PUSHED")
             PROVE  Delivered(a.ev["pushedCommitHash"], local', origin')
  BY DEF PushesAreReal, OwnBranch, Reached
<1>1. ASSUME NEW old \in AnchorCopies, Reached(old, "GIT_PUSHED")
      PROVE  Delivered(old.ev["pushedCommitHash"], local', origin')
  BY <1>1, DeliveredStays DEF PushesAreReal, OwnBranch
<1>2. ~Reached(NoTask, "GIT_PUSHED")
  BY DEF Reached, Status, Rank, NoTask
<1>3. \A t \in Turns : turns'[t].task \in AnchorCopies \cup {NoTask}
  BY NextFlow DEF EvidenceInv, IInv, Flow, Flows, Idle, AnchorCopies
<1>4. a = task' \/ a \in AnchorCopies
  BY <1>2, <1>3 DEF AnchorCopies
<1>5. CASE a = task'
  <2>1. Moved(a)
    BY <1>5, NextStored DEF Stored
  <2>2. Running \subseteq AnchorCopies /\ task \in AnchorCopies
    BY DEF Running, AnchorCopies
  <2>3. a.status \notin {"NONE", "ELIGIBLE"}
    BY DEF Reached, Status, Rank
  <2>4. ASSUME NEW g \in ApplyGates, SameTrace(task, a),
               \/ task.status = Durable[g] /\ a.status = Pending[g]
               \/ task.status = Pending[g] /\ a.status \in {Approved[g], Durable[g]}
        PROVE  Delivered(a.ev["pushedCommitHash"], local', origin')
    <3>1. Reached(task, "GIT_PUSHED") /\ a.ev["pushedCommitHash"] = task.ev["pushedCommitHash"]
      BY <2>4, PushedStays
    <3> QED
      BY <1>1, <2>2, <3>1
  <2>5. ASSUME NEW old \in Running, Succeeds(old, a, local', origin'),
               a.status = "GIT_PUSHED" =>
                   AppAuth \/ Delivered(a.ev["pushedCommitHash"], local', origin')
        PROVE  Delivered(a.ev["pushedCommitHash"], local', origin')
    <3>1. CASE a.status = "GIT_PUSHED"
      BY <2>5, <3>1 DEF OwnBranch
    <3>2. CASE a.status # "GIT_PUSHED"
      <4>1. Reached(old, "GIT_PUSHED") /\ a.ev["pushedCommitHash"] = old.ev["pushedCommitHash"]
        BY <2>5, <3>2, PushedStays
      <4> QED
        BY <1>1, <2>2, <4>1
    <3> QED
      BY <3>1, <3>2
  <2> QED
    BY <1>1, <2>1, <2>2, <2>3, <2>4, <2>5 DEF Moved
<1> QED
  BY <1>1, <1>4, <1>5

-----------------------------------------------------------------------------
(* A gate that halts can be decided, where every save is kept.             *)

Halts(a, table) ==
    a.kind = "apply" =>
        \A g \in ApplyGates :
            a.status = Pending[g] =>
                a.approval[g] # None /\ table[a.approval[g]].status = "PENDING"

(* An anchor that waits for no gate.                                       *)
OffGate(a) == \A g \in ApplyGates : a.status # Pending[g]

(* An anchor that waits at no gate satisfies the property about gates.     *)
LEMMA NoGateHalts == ASSUME NEW a, NEW table, a.kind # "apply" \/ OffGate(a) PROVE Halts(a, table)
BY DEF Halts, OffGate

(* The statuses that wait for no gate.                                     *)
LEMMA OffGateStatuses ==
    /\ \A g \in ApplyGates, h \in ApplyGates : Durable[g] # Pending[h] /\ Approved[g] # Pending[h]
    /\ \A g \in ApplyGates, h \in ApplyGates : Pending[g] = Pending[h] => g = h
    /\ \A a : a.status \in {"NONE", "ELIGIBLE", "APPROVED", "PATCH_READY", "WORKSPACE_APPLIED",
                            "GIT_COMMITTED", "GIT_PUSHED", "PR_CREATED", "PR_MERGED",
                            "MAIN_SYNCED", "BRANCH_CLEANED", "REMOTE_BRANCH_CLEANED"}
                  => OffGate(a)
BY DEF ApplyGates, Durable, Approved, Pending, OffGate

(* A request halts at its gate.                                            *)
LEMMA RequestHalts ==
    ASSUME TypeOK, NEW g \in ApplyGates, NEW scope, NEW a \in Tasks, RequestGate(g, scope, a, TRUE)
    PROVE  Halts(task', approvals')
<1>1. PICK id \in Fresh : /\ RequestForRisk(id, g, task.plan, scope)
                          /\ task' = [a EXCEPT !.status = Pending[g],
                                               !.approval = [@ EXCEPT ![g] = id]]
  BY DEF RequestGate, Anchor
<1>2. id \in ApprovalIds /\ id # None
  BY FreshIsUnused, NoneIsNoId
<1>3. approvals'[id].status = "PENDING"
  BY <1>1, <1>2 DEF RequestForRisk, TypeOK
<1>4. task'.status = Pending[g] /\ task'.approval[g] = id
  BY <1>1 DEF Tasks
<1> QED
  BY <1>2, <1>3, <1>4, OffGateStatuses DEF Halts

(* A decision leaves it.                                                   *)
LEMMA DecisionHalts ==
    ASSUME TypeOK, NEW g \in ApplyGates, NEW a \in Tasks, DecideGate(g, a, TRUE)
    PROVE  Halts(task', approvals')
<1>1. task'.status \in {Approved[g], Durable[g]}
  BY DEF DecideGate, Anchor, TypeOK, Tasks
<1> QED
  BY <1>1, OffGateStatuses, NoGateHalts DEF OffGate

(* A turn at a gate whose save arrives leaves a request that can be        *)
(* decided.                                                                *)
LEMMA GateTurnHalts ==
    ASSUME TypeOK, RefsExist, GateTurn(TRUE)
    PROVE  Halts(task', approvals')
<1>1. task \in Tasks /\ \A g \in {"APPLY", "COMMIT", "PUSH", "PR", "MERGE", "REMOTE"} : g \in ApplyGates
  BY DEF TypeOK, ApplyGates
<1>2. Head \in MaybeTip /\ at \in Branches
  BY HeadExists DEF TypeOK, WorldTypeOK, WorldOK, MaybeTip
<1>3. /\ [task EXCEPT !.branch = at, !.ev["pushCommitHash"] = Head] \in Tasks
      /\ [task EXCEPT !.ev["prPushedCommitHash"] = task.ev["pushedCommitHash"]] \in Tasks
  BY <1>1, <1>2 DEF Tasks, Evidence
<1>4. /\ \A fields : Cleared(fields) \in Tasks
      /\ \A fields : [Cleared(fields) EXCEPT !.branch = None] \in Tasks
  BY <1>1 DEF Cleared, Tasks, MaybeTip
<1>5. CASE HandleApplyApprovalTurn(TRUE)
  <2>1. task' = NoTask \/ task'.status = "APPROVED"
    BY <1>1, <1>5 DEF HandleApplyApprovalTurn, Anchor, Tasks
  <2>2. NoTask.status = "NONE"
    BY DEF NoTask
  <2> QED
    BY <2>1, <2>2, OffGateStatuses, NoGateHalts
<1>6. CASE HandlePushApprovalTurn(TRUE)
  BY <1>1, <1>3, <1>6, RequestHalts DEF HandlePushApprovalTurn
<1>7. CASE HandlePrApprovalTurn(TRUE)
  BY <1>1, <1>3, <1>7, RequestHalts DEF HandlePrApprovalTurn
<1>8. CASE HandlePushApprovalDecisionTurn(TRUE) \/ HandlePrApprovalDecisionTurn(TRUE)
  BY <1>1, <1>4, <1>8, DecisionHalts
     DEF HandlePushApprovalDecisionTurn, HandlePrApprovalDecisionTurn
<1>9. CASE HandleApplyIntentTurn(TRUE) \/ HandleCommitApprovalTurn(TRUE)
           \/ HandleMergeApprovalTurn(TRUE) \/ HandleRemoteBranchCleanupApprovalTurn(TRUE)
  BY <1>1, <1>9, RequestHalts
     DEF HandleApplyIntentTurn, HandleCommitApprovalTurn, HandleMergeApprovalTurn,
         HandleRemoteBranchCleanupApprovalTurn
<1>10. CASE HandleCommitApprovalDecisionTurn(TRUE) \/ HandleMergeApprovalDecisionTurn(TRUE)
            \/ HandleRemoteBranchCleanupDecisionTurn(TRUE)
  BY <1>1, <1>10, DecisionHalts
     DEF HandleCommitApprovalDecisionTurn, HandleMergeApprovalDecisionTurn,
         HandleRemoteBranchCleanupDecisionTurn
<1> QED
  BY <1>5, <1>6, <1>7, <1>8, <1>9, <1>10 DEF GateTurn

(* Planning writes an anchor only of a plan or of a question.              *)
LEMMA PlanningTurnHalts ==
    ASSUME TypeOK, Halts(task, approvals), PlanningTurn(TRUE)
    PROVE  Halts(task', approvals')
<1>1. CASE UNCHANGED <<task, approvals>>
  BY <1>1
<1>2. ASSUME task'.kind # "apply"
      PROVE  Halts(task', approvals')
  BY <1>2, NoGateHalts
<1>3. ASSUME NEW p, RunResolvedExecution(p, TRUE)
      PROVE  task'.kind # "apply"
  BY <1>3 DEF RunResolvedExecution, Anchor, PlanTask, NoTask
<1>4. ASSUME NEW id, HandleApprovalTurn(id)
      PROVE  task'.kind # "apply"
  BY <1>4 DEF HandleApprovalTurn, PlanApprovals, session
<1>5. CASE ClearStale \/ AskForScope \/ HandleScopeClarificationTurn(TRUE)
  <2>1. NoTask.kind # "apply"
    BY DEF NoTask
  <2>2. CASE ClearStale
    BY <1>2, <2>1, <2>2 DEF ClearStale
  <2>3. CASE AskForScope
    <3>1. task'.kind = "scope"
      BY <2>3 DEF AskForScope, NoTask
    <3> QED
      BY <1>2, <3>1
  <2>4. CASE HandleScopeClarificationTurn(TRUE)
    <3>1. task' = NoTask \/ \E p \in Plans : RunResolvedExecution(p, TRUE)
      BY <2>4 DEF HandleScopeClarificationTurn
    <3>2. task'.kind # "apply"
      BY <1>3, <2>1, <3>1
    <3> QED
      BY <1>2, <3>2
  <2> QED
    BY <1>5, <2>2, <2>3, <2>4
<1>6. ASSUME NEW q, RegisterProject(q)
      PROVE  UNCHANGED <<task, approvals>>
  BY <1>6 DEF RegisterProject, records
<1>7. CASE \E p \in Plans : HandleExecutionIntent(p, TRUE)
  BY <1>2, <1>3, <1>7 DEF HandleExecutionIntent
<1> QED
  BY <1>1, <1>2, <1>4, <1>5, <1>6, <1>7 DEF PlanningTurn

(* A mutation moves the anchor off the gates.                              *)
LEMMA LocalTurnHalts ==
    ASSUME TypeOK, NEW saved, NEW kept, LocalTurn(saved, kept)
    PROVE  UNCHANGED task \/ OffGate(task')
<1>1. ASSUME NEW b \in Tasks, NEW yes, Anchor(yes, b), OffGate(b)
      PROVE  UNCHANGED task \/ OffGate(task')
  BY <1>1 DEF Anchor
<1>2. task \in Tasks
  BY DEF TypeOK
<1>3. ASSUME NEW status \in {"PATCH_READY", "WORKSPACE_APPLIED", "BRANCH_CLEANED"}, NEW yes,
             Anchor(yes, [task EXCEPT !.status = status])
      PROVE  UNCHANGED task \/ OffGate(task')
  <2> DEFINE b == [task EXCEPT !.status = status]
  <2>1. b.status = status
    BY <1>2 DEF Tasks
  <2> HIDE DEF b
  <2>2. OffGate(b)
    BY <1>3, <2>1, OffGateStatuses
  <2> QED
    BY <1>3, <2>2 DEF Anchor, b
<1>4. CASE HandlePatchGenerationTurn(kept) \/ HandleWorkspaceApplyTurn(saved, kept)
           \/ HandleBranchCleanupTurn(kept)
  BY <1>3, <1>4
     DEF HandlePatchGenerationTurn, HandleWorkspaceApplyTurn, HandleBranchCleanupTurn
<1>5. CASE HandleCommitExecutionTurn(kept)
  <2> DEFINE b == [task EXCEPT !.status = "GIT_COMMITTED", !.ev["commitHash"] = Head \cup worktree]
  <2>1. b.status = "GIT_COMMITTED"
    BY <1>2 DEF Tasks
  <2> HIDE DEF b
  <2>2. OffGate(b)
    BY <2>1, OffGateStatuses
  <2> QED
    BY <1>5, <2>2 DEF HandleCommitExecutionTurn, Anchor, b
<1>6. Pushed(task).status = "GIT_PUSHED" /\ MainSynced(task).status = "MAIN_SYNCED"
  BY <1>2 DEF Pushed, MainSynced, Tasks
<1>7. OffGate(Pushed(task)) /\ OffGate(MainSynced(task))
  BY <1>6, OffGateStatuses
<1>8. CASE HandlePushExecutionTurn(kept) \/ HandleMainSyncTurn(kept)
  BY <1>7, <1>8 DEF HandlePushExecutionTurn, HandleMainSyncTurn, Anchor
<1> QED
  BY <1>4, <1>5, <1>8 DEF LocalTurn

(* No remote step ends at a gate.                                          *)
LEMMA TurnStepHalts ==
    ASSUME TypeOK, NEW t \in Turns, TurnStep(t)
    PROVE  UNCHANGED task \/ OffGate(task')
<1>1. turns[t].task \in Tasks
  BY DEF TypeOK
<1>2. /\ Pushed(turns[t].task).status = "GIT_PUSHED"
      /\ MainSynced(turns[t].task).status = "MAIN_SYNCED"
      /\ RemoteCleaned(t).status = "REMOTE_BRANCH_CLEANED"
      /\ \A n, h : PrCreated(t, n, h).status = "PR_CREATED"
      /\ \A n, h : PrMerged(t, n, h).status = "PR_MERGED"
  BY <1>1 DEF Pushed, MainSynced, RemoteCleaned, PrCreated, PrMerged, Tasks
<1>3. /\ OffGate(Pushed(turns[t].task)) /\ OffGate(MainSynced(turns[t].task))
      /\ OffGate(RemoteCleaned(t))
      /\ \A n, h : OffGate(PrCreated(t, n, h)) /\ OffGate(PrMerged(t, n, h))
  BY <1>2, OffGateStatuses
<1>4. CASE RunCodeGenerationPreview(t)
  <2>1. UNCHANGED task \/ task'.status = "ELIGIBLE"
    BY <1>4 DEF RunCodeGenerationPreview, AnchorSnapshot, NoTask, session
  <2> QED
    BY <2>1, OffGateStatuses
<1>5. ASSUME NEW b, AnchorSnapshot(t, b), OffGate(b)
      PROVE  OffGate(task')
  BY <1>5 DEF AnchorSnapshot
<1> QED
  BY <1>3, <1>4, <1>5
     DEF TurnStep, ResumePushExecutionTurn, CheckBranches, FindOpenPullRequest, PostPullRequest,
         ReceivePullRequest, GetMergePreflight, PutMerge, ReceiveMerge, GetRemoteRefCommit,
         ResumeMainSyncTurn, ConfirmMerged, GetRemoteBranchCommit, RereadRemoteBranch,
         ReadRemoteBranch, DeleteRemoteBranch, ReceiveDelete, session

(* Any step, when no save is lost.                                         *)
LEMMA NextGatesLeft ==
    ASSUME IInv, GatesAreLeft, [Next]_vars
    PROVE  GatesAreLeft'
<1> SUFFICES ASSUME "lostSave" \notin Events
             PROVE  Halts(task', approvals')
  BY DEF GatesAreLeft, HaltedGateIsPending, Halts
<1>1. TypeOK /\ RefsExist /\ Halts(task, approvals)
  BY DEF IInv, GatesAreLeft, HaltedGateIsPending, Halts
<1>2. Saves = {TRUE}
  BY DEF Saves
<1>3. ASSUME UNCHANGED approvals, UNCHANGED task \/ OffGate(task')
      PROVE  Halts(task', approvals')
  BY <1>1, <1>3, NoGateHalts
<1>4. CASE PlanningTurn(TRUE) \/ GateTurn(TRUE)
  BY <1>1, <1>4, PlanningTurnHalts, GateTurnHalts
<1>5. ASSUME NEW saved, NEW kept, LocalTurn(saved, kept)
      PROVE  Halts(task', approvals')
  BY <1>1, <1>3, <1>5, LocalTurnHalts, OtherTurnsKeepApprovals
<1>6. ASSUME NEW t \in Turns, TurnStep(t)
      PROVE  Halts(task', approvals')
  BY <1>1, <1>3, <1>6, TurnStepHalts, OtherTurnsKeepApprovals
<1>7. ASSUME NEW t, StartTurn(t)
      PROVE  UNCHANGED task
  BY <1>7 DEF StartTurn, SuspendPushExecutionTurn, HandlePrCreationExecutionTurn,
       HandleMergeExecutionTurn, SuspendMainSyncTurn, HandleRemoteBranchCleanupExecutionTurn, session
<1>8. CASE Crash \/ Human \/ UNCHANGED vars
  BY <1>1, <1>8 DEF Crash, Human, vars, session, records
<1> QED
  BY <1>2, <1>3, <1>4, <1>5, <1>6, <1>7, <1>8, OtherTurnsKeepApprovals DEF Next


-----------------------------------------------------------------------------
(* The results about turns.                                                *)

(* The invariant of the turns holds at the start.                          *)
LEMMA InitTurns == Init => TurnInv
<1> SUFFICES ASSUME Init PROVE TurnInv
  OBVIOUS
<1>1. \A t \in Turns : turns[t] = Idle
  BY DEF Init
<1>2. \A t \in Turns : turns[t].pc = "idle"
  BY <1>1 DEF Idle
<1>3. NoTask.kind = "none" /\ ~Reached(NoTask, "GIT_PUSHED")
  BY DEF NoTask, Reached, Status, Rank
<1>4. \A a \in AnchorCopies : a = NoTask
  BY <1>1 DEF Init, AnchorCopies, Idle
<1>5. Alone /\ MergedWhenDeleted
  BY <1>1, <1>2 DEF Alone, MergedWhenDeleted
<1>6. PushesAreReal
  BY <1>3, <1>4 DEF PushesAreReal
<1>7. GatesAreLeft
  BY <1>3 DEF Init, GatesAreLeft, HaltedGateIsPending
<1> QED
  BY <1>5, <1>6, <1>7, InitEvidence DEF TurnInv

(* Every step keeps it.                                                    *)
LEMMA NextTurns == TurnInv /\ [Next]_vars => TurnInv'
<1> SUFFICES ASSUME TurnInv, [Next]_vars PROVE TurnInv'
  OBVIOUS
<1>1. /\ EvidenceInv /\ Alone /\ MergedWhenDeleted /\ PushesAreReal /\ GatesAreLeft
      /\ IInv /\ TypeOK
  BY DEF TurnInv, EvidenceInv, IInv
<1>2. EvidenceInv' /\ Alone' /\ MergedWhenDeleted'
  BY <1>1, NextEvidence, NextAlone, NextMergedWhenDeleted
<1>3. PushesAreReal' /\ GatesAreLeft'
  BY <1>1, NextPushesReal, NextGatesLeft
<1> QED
  BY <1>2, <1>3 DEF TurnInv

(* What one suspended turn at a time may rely on holds in every reachable  *)
(* state, each part under the condition it names.                          *)
THEOREM TurnInvariant == Spec => []TurnInv
BY InitTurns, NextTurns, PTL DEF Spec

(* Where every save is kept, an anchor that waits for a decision names a   *)
(* request that is still undecided, whichever turns overlap: a gate can    *)
(* always be left.                                                         *)
THEOREM HaltedGatesAreDecidable ==
    ASSUME "lostSave" \notin Events
    PROVE  Spec => []HaltedGateIsPending
<1>1. TurnInv => HaltedGateIsPending
  BY DEF TurnInv, GatesAreLeft
<1> QED
  BY <1>1, TurnInvariant, PTL

(* With ambient credentials and a branch that only the runtime deletes, a  *)
(* commit the anchor calls committed or pushed exists where it says, after *)
(* the branch is cleaned up too and whichever turns overlap.               *)
THEOREM CommitsStayReal ==
    ASSUME OwnBranch
    PROVE  Spec => []CommitsAreReal
<1>1. TurnInv => CommitsAreReal
  <2>1. ASSUME NEW tip, Delivered(tip, local, origin), IInv
        PROVE  tip \subseteq Held(origin)
    <3>1. origin["main"] # None /\ "main" \in Branches /\ "feature" \in Branches
      BY <2>1 DEF IInv, RefsExist, Branches
    <3> QED
      BY <2>1, <3>1, TipsAreHeld DEF Delivered
  <2> QED
    BY <2>1 DEF TurnInv, EvidenceInv, Honest, Real, PushesAreReal, CommitsAreReal
<1> QED
  BY <1>1, TurnInvariant, PTL

(* With one turn at a time the anchor of a plan moves along the lifecycle, *)
(* or back from a refused gate to the status that gate started from.       *)
THEOREM AnchorsNeverRegress ==
    ASSUME OneTurnAtATime
    PROVE  Spec => NeverRegresses
<1>1. TurnInv /\ [Next]_vars =>
          (task.kind = "apply" /\ task'.kind = "apply" /\ task'.plan = task.plan =>
              \/ Rank[task'.status] >= Rank[task.status]
              \/ \E g \in ApplyGates : task.status = Pending[g] /\ task'.status = Durable[g])
  BY NextForward DEF TurnInv
<1> QED
  BY <1>1, TurnInvariant, PTL DEF Spec, NeverRegresses

(* With one turn at a time, and nobody pushing to the branch or deleting   *)
(* it between the last look at it and its deletion, no commit disappears   *)
(* from the hosting service.                                               *)
THEOREM RemoteCommitsAreKept ==
    ASSUME NoDeleteRace
    PROVE  Spec => RemoteCommitsKept
<1>1. TurnInv /\ [Next]_vars => Held(origin) \subseteq Held(origin')
  <2> SUFFICES ASSUME TurnInv, [Next]_vars
               PROVE  Held(origin) \subseteq Held(origin')
    OBVIOUS
  <2>1. BranchesGrow \/ Deletes
    BY NextKeeps DEF TurnInv, EvidenceInv, NoDeleteRace
  <2>2. CASE BranchesGrow
    BY <2>2, NothingIsLost DEF BranchesGrow
  <2>3. CASE Deletes
    BY <2>3, DeletionLosesNothing, NothingIsLost DEF TurnInv
  <2> QED
    BY <2>1, <2>2, <2>3
<1> QED
  BY <1>1, TurnInvariant, PTL DEF Spec, RemoteCommitsKept

-----------------------------------------------------------------------------
(* PART 4. THE LEDGER.                                                     *)

GrantedIn(table, gate, plan) ==
    \E id \in ApprovalIds :
        /\ table[id].gate = gate
        /\ table[id].plan = plan
        /\ table[id].status = "APPROVED"

OnlyThePlan(table, plan) ==
    \A id \in ApprovalIds : table[id].plan = plan => table[id].gate = "PLAN"

(* An apply anchor, and a turn that generates its code, come from a plan   *)
(* that was granted; until then nothing but the plan was asked.            *)
LedgerInv ==
    /\ EvidenceInv
    /\ \A a \in AnchorCopies : a.kind = "apply" => GrantedIn(approvals, "PLAN", a.plan)
    /\ \A t \in Turns :
          turns[t].pc = "codegen" => GrantedIn(approvals, "PLAN", turns[t].task.plan)
    /\ task.kind = "plan" => OnlyThePlan(approvals, task.plan)

(* What was granted stays granted.                                         *)
LEMMA GrantsStay ==
    ASSUME Grows, NEW gate, NEW plan, GrantedIn(approvals, gate, plan)
    PROVE  GrantedIn(approvals', gate, plan)
BY DEF Grows, GrantedIn

(* Only a plan that was just granted starts generating code.               *)
LEMMA CodegenStarts ==
    ASSUME IInv, [Next]_vars, NEW u \in Turns, turns'[u].pc = "codegen"
    PROVE  \/ turns'[u] = turns[u]
           \/ /\ turns'[u].task = task
              /\ \E id \in PlanApprovals : HandleApprovalTurn(id) /\ Decide(id, "APPROVED")
<1>1. TypeOK /\ turns \in [Turns -> TurnRecords]
  BY DEF IInv, TypeOK, TurnRecords
<1>2. CASE UNCHANGED turns
  BY <1>2
<1>3. ASSUME NEW t \in Turns, NEW pc, NEW hash, Suspend(t, pc, hash), pc # "codegen"
      PROVE  turns'[u] = turns[u]
  BY <1>1, <1>3 DEF Suspend
<1>4. ASSUME NEW t \in Turns, NEW pc, Resume(t, pc), pc # "codegen"
      PROVE  turns'[u] = turns[u]
  BY <1>1, <1>4 DEF Resume, TurnRecords
<1>5. ASSUME NEW t \in Turns, NEW pc, NEW pr, NEW hash, AwaitAnswer(t, pc, pr, hash), pc # "codegen"
      PROVE  turns'[u] = turns[u]
  BY <1>1, <1>5 DEF AwaitAnswer, TurnRecords
<1>6. ASSUME NEW t \in Turns, NEW said, End(t, said)
      PROVE  turns'[u] = turns[u]
  BY <1>1, <1>6 DEF End, Idle
<1>7. ASSUME NEW id \in ApprovalIds, HandleApprovalTurn(id)
      PROVE  \/ turns'[u] = turns[u]
             \/ /\ turns'[u].task = task
                /\ id \in PlanApprovals /\ HandleApprovalTurn(id) /\ Decide(id, "APPROVED")
  BY <1>1, <1>7 DEF HandleApprovalTurn, Suspend
<1>8. ASSUME NEW kept, PlanningTurn(kept)
      PROVE  UNCHANGED turns \/ \E id \in ApprovalIds : HandleApprovalTurn(id)
  BY <1>8 DEF PlanningTurn, RegisterProject, ClearStale, HandleExecutionIntent, AskForScope,
       HandleScopeClarificationTurn, RunResolvedExecution
<1>9. ASSUME NEW kept, NEW saved, GateTurn(kept) \/ LocalTurn(saved, kept)
      PROVE  UNCHANGED turns
  BY <1>9
     DEF GateTurn, HandleApplyIntentTurn, HandleApplyApprovalTurn, HandleCommitApprovalTurn,
         HandleCommitApprovalDecisionTurn, HandlePushApprovalTurn, HandlePushApprovalDecisionTurn,
         HandlePrApprovalTurn, HandlePrApprovalDecisionTurn, HandleMergeApprovalTurn,
         HandleMergeApprovalDecisionTurn, HandleRemoteBranchCleanupApprovalTurn,
         HandleRemoteBranchCleanupDecisionTurn, RequestGate, DecideGate, LocalTurn,
         HandlePatchGenerationTurn, HandleWorkspaceApplyTurn, HandleCommitExecutionTurn,
         HandlePushExecutionTurn, HandleMainSyncTurn, HandleBranchCleanupTurn
<1>10. ASSUME NEW t \in Turns, StartTurn(t)
       PROVE  turns'[u] = turns[u]
  BY <1>3, <1>10
     DEF StartTurn, SuspendPushExecutionTurn, HandlePrCreationExecutionTurn,
         HandleMergeExecutionTurn, SuspendMainSyncTurn, HandleRemoteBranchCleanupExecutionTurn
<1>11. ASSUME NEW t \in Turns, TurnStep(t)
       PROVE  turns'[u] = turns[u]
  BY <1>4, <1>5, <1>6, <1>11
     DEF TurnStep, RunCodeGenerationPreview, ResumePushExecutionTurn, CheckBranches,
         FindOpenPullRequest, PostPullRequest, ReceivePullRequest, GetMergePreflight, PutMerge,
         ReceiveMerge, GetRemoteRefCommit, ResumeMainSyncTurn, ConfirmMerged,
         GetRemoteBranchCommit, RereadRemoteBranch, ReadRemoteBranch, DeleteRemoteBranch,
         ReceiveDelete, AnchorSnapshot
<1>12. CASE Crash
  BY <1>12 DEF Crash, Idle
<1> QED
  BY <1>2, <1>7, <1>8, <1>9, <1>10, <1>11, <1>12 DEF Next, Human, vars

(* A decision on a plan decides the request of that plan.                  *)
LEMMA CodegenIsGranted ==
    ASSUME LedgerInv, [Next]_vars, NEW u \in Turns, turns'[u].pc = "codegen"
    PROVE  GrantedIn(approvals', "PLAN", turns'[u].task.plan)
<1>0. IInv /\ Grows /\ approvals \in [ApprovalIds -> Requests]
  BY NextGrows DEF LedgerInv, EvidenceInv, IInv, TypeOK, Requests
<1>1. CASE turns'[u] = turns[u]
  BY <1>0, <1>1, GrantsStay DEF LedgerInv
<1>2. ASSUME NEW id \in PlanApprovals, Decide(id, "APPROVED"), turns'[u].task = task
      PROVE  GrantedIn(approvals', "PLAN", turns'[u].task.plan)
  <2>1. /\ id \in ApprovalIds /\ task.kind = "plan"
        /\ approvals[id].plan = task.plan /\ approvals[id].gate = "PLAN"
    BY <1>2 DEF PlanApprovals, LedgerInv, OnlyThePlan
  <2>2. /\ approvals'[id].plan = task.plan /\ approvals'[id].gate = "PLAN"
        /\ approvals'[id].status = "APPROVED"
    BY <1>0, <1>2, <2>1 DEF Decide, Requests
  <2> QED
    BY <1>2, <2>1, <2>2 DEF GrantedIn
<1> QED
  BY <1>0, <1>1, <1>2, CodegenStarts


(* A step writes back an anchor whose plan was granted.                    *)
LEMMA CopiesAreGranted ==
    ASSUME LedgerInv, [Next]_vars, NEW a \in AnchorCopies', a.kind = "apply"
    PROVE  GrantedIn(approvals', "PLAN", a.plan)
<1>1. EvidenceInv /\ IInv /\ TypeOK /\ Grows
  BY NextGrows DEF LedgerInv, EvidenceInv, IInv
<1>2. ASSUME NEW b \in AnchorCopies, b.kind = "apply"
      PROVE  GrantedIn(approvals', "PLAN", b.plan)
  BY <1>1, <1>2, GrantsStay DEF LedgerInv
<1>3. ASSUME NEW t \in Turns, turns[t].pc # "idle", turns[t].task.kind = "plan"
      PROVE  GrantedIn(approvals', "PLAN", turns[t].task.plan)
  <2>1. turns[t].pc \in Steps
    BY <1>1 DEF TypeOK
  <2>2. turns[t].pc \notin DOMAIN SuspendedAt
    BY <1>1, <1>3 DEF IInv, SuspendedWithinStatus
  <2>3. turns[t].pc = "codegen"
    BY <1>3, <2>1, <2>2 DEF Steps, SuspendedAt
  <2> QED
    BY <1>1, <2>3, GrantsStay DEF LedgerInv
<1>4. CASE a = task'
  <2>1. Moved(a)
    BY <1>1, <1>4, NextStored DEF Stored
  <2>2. CASE a = task
    BY <1>2, <2>2 DEF AnchorCopies
  <2>3. ASSUME NEW b \in AnchorCopies, a.kind = b.kind, a.plan = b.plan
        PROVE  GrantedIn(approvals', "PLAN", a.plan)
    BY <1>2, <2>3
  <2>4. Running \subseteq AnchorCopies /\ task \in AnchorCopies
    BY DEF Running, AnchorCopies
  <2> QED
    BY <1>3, <2>1, <2>2, <2>3, <2>4 DEF Moved, SameTrace, Succeeds
<1>5. ASSUME NEW t \in Turns, a = turns'[t].task
      PROVE  GrantedIn(approvals', "PLAN", a.plan)
  <2>1. a \in AnchorCopies \cup {NoTask}
    BY <1>1, <1>5, NextFlow DEF IInv, Flow, Flows, Idle, AnchorCopies
  <2>2. NoTask.kind # "apply"
    BY DEF NoTask
  <2> QED
    BY <1>2, <2>1, <2>2
<1> QED
  BY <1>4, <1>5 DEF AnchorCopies

(* A turn at a gate leaves an apply anchor, or none.                       *)
LEMMA GateTurnKinds ==
    ASSUME TypeOK, RefsExist, NEW kept \in BOOLEAN, GateTurn(kept)
    PROVE  task'.kind \in {"apply", "none"}
<1>1. task \in Tasks /\ NoTask.kind = "none" /\ at \in Branches /\ Head \in MaybeTip
  BY HeadExists DEF TypeOK, NoTask, WorldTypeOK, WorldOK, MaybeTip
<1>2. ASSUME NEW a \in Tasks, a.kind = task.kind, NEW g, NEW scope, Anchored,
             RequestGate(g, scope, a, kept)
      PROVE  task'.kind = "apply"
  BY <1>1, <1>2 DEF RequestGate, Anchor, Anchored, Tasks
<1>3. ASSUME NEW a \in Tasks, a.kind = task.kind, NEW g, DecideGate(g, a, kept)
      PROVE  task'.kind = "apply"
  BY <1>1, <1>3 DEF DecideGate, AnchoredAt, Anchored, Anchor, Tasks
<1>4. /\ [task EXCEPT !.branch = at, !.ev["pushCommitHash"] = Head] \in Tasks
      /\ [task EXCEPT !.branch = at, !.ev["pushCommitHash"] = Head].kind = task.kind
      /\ [task EXCEPT !.ev["prPushedCommitHash"] = task.ev["pushedCommitHash"]] \in Tasks
      /\ [task EXCEPT !.ev["prPushedCommitHash"] = task.ev["pushedCommitHash"]].kind = task.kind
  BY <1>1 DEF Tasks, Evidence
<1>5. \A fields : /\ Cleared(fields) \in Tasks /\ Cleared(fields).kind = task.kind
                  /\ [Cleared(fields) EXCEPT !.branch = None] \in Tasks
                  /\ [Cleared(fields) EXCEPT !.branch = None].kind = task.kind
  BY <1>1 DEF Cleared, Tasks, MaybeTip
<1>6. CASE HandleApplyApprovalTurn(kept)
  BY <1>1, <1>6 DEF HandleApplyApprovalTurn, AnchoredAt, Anchored, Anchor, Tasks
<1>7. CASE HandlePushApprovalTurn(kept) \/ HandlePrApprovalTurn(kept)
  BY <1>1, <1>2, <1>4, <1>7 DEF HandlePushApprovalTurn, HandlePrApprovalTurn, AnchoredAt
<1>8. CASE HandlePushApprovalDecisionTurn(kept) \/ HandlePrApprovalDecisionTurn(kept)
  BY <1>3, <1>5, <1>8 DEF HandlePushApprovalDecisionTurn, HandlePrApprovalDecisionTurn
<1>9. CASE HandleApplyIntentTurn(kept) \/ HandleCommitApprovalTurn(kept)
           \/ HandleMergeApprovalTurn(kept) \/ HandleRemoteBranchCleanupApprovalTurn(kept)
  BY <1>1, <1>2, <1>9
     DEF HandleApplyIntentTurn, HandleCommitApprovalTurn, HandleMergeApprovalTurn,
         HandleRemoteBranchCleanupApprovalTurn, AnchoredAt
<1>10. CASE HandleCommitApprovalDecisionTurn(kept) \/ HandleMergeApprovalDecisionTurn(kept)
            \/ HandleRemoteBranchCleanupDecisionTurn(kept)
  BY <1>1, <1>3, <1>10
     DEF HandleCommitApprovalDecisionTurn, HandleMergeApprovalDecisionTurn,
         HandleRemoteBranchCleanupDecisionTurn
<1> QED
  BY <1>6, <1>7, <1>8, <1>9, <1>10 DEF GateTurn

(* An execution turn starts from an apply anchor and leaves one.           *)
LEMMA LocalTurnKinds ==
    ASSUME TypeOK, NEW saved, NEW kept, LocalTurn(saved, kept)
    PROVE  UNCHANGED task \/ task'.kind = "apply"
<1>1. task \in Tasks
  BY DEF TypeOK
<1>2. task.kind = "apply"
  BY DEF LocalTurn, HandlePatchGenerationTurn, HandleWorkspaceApplyTurn,
         HandleCommitExecutionTurn, HandlePushExecutionTurn, PushExecutionChecks,
         HandleMainSyncTurn, MainSyncChecks, HandleBranchCleanupTurn, AnchoredAt, Anchored
<1>3. ASSUME NEW b, NEW yes, Anchor(yes, b), b.kind = task.kind
      PROVE  UNCHANGED task \/ task'.kind = "apply"
  BY <1>2, <1>3 DEF Anchor
<1>4. /\ \A status : [task EXCEPT !.status = status].kind = task.kind
      /\ [task EXCEPT !.status = "GIT_COMMITTED", !.ev["commitHash"] = Head \cup worktree].kind = task.kind
      /\ Pushed(task).kind = task.kind /\ MainSynced(task).kind = task.kind
  BY <1>1 DEF Tasks, Pushed, MainSynced
<1> QED
  BY <1>3, <1>4
     DEF LocalTurn, HandlePatchGenerationTurn, HandleWorkspaceApplyTurn,
         HandleCommitExecutionTurn, HandlePushExecutionTurn, HandleMainSyncTurn,
         HandleBranchCleanupTurn

(* So does a turn that was suspended, whichever anchor it writes back.     *)
LEMMA TurnStepKinds ==
    ASSUME IInv, NEW t \in Turns, TurnStep(t)
    PROVE  UNCHANGED task \/ task'.kind = "apply"
<1>1. turns[t].task \in Tasks
  BY DEF IInv, TypeOK
<1>2. turns[t].pc \in DOMAIN SuspendedAt => turns[t].task.kind = "apply"
  BY DEF IInv, SuspendedWithinStatus
<1>3. /\ Pushed(turns[t].task).kind = turns[t].task.kind
      /\ MainSynced(turns[t].task).kind = turns[t].task.kind
      /\ RemoteCleaned(t).kind = turns[t].task.kind
      /\ \A n, h : PrCreated(t, n, h).kind = turns[t].task.kind
      /\ \A n, h : PrMerged(t, n, h).kind = turns[t].task.kind
  BY <1>1 DEF Pushed, MainSynced, RemoteCleaned, PrCreated, PrMerged, Tasks
<1>4. CASE RunCodeGenerationPreview(t)
  BY <1>4 DEF RunCodeGenerationPreview, AnchorSnapshot, NoTask, session
<1>5. ASSUME NEW b, AnchorSnapshot(t, b), b.kind = turns[t].task.kind,
             turns[t].pc \in DOMAIN SuspendedAt
      PROVE  task'.kind = "apply"
  BY <1>2, <1>5 DEF AnchorSnapshot
<1> QED
  BY <1>3, <1>4, <1>5
     DEF TurnStep, ResumePushExecutionTurn, CheckBranches, FindOpenPullRequest, PostPullRequest,
         ReceivePullRequest, GetMergePreflight, PutMerge, ReceiveMerge, GetRemoteRefCommit,
         ResumeMainSyncTurn, ConfirmMerged, GetRemoteBranchCommit, RereadRemoteBranch,
         ReadRemoteBranch, DeleteRemoteBranch, ReceiveDelete, session, SuspendedAt

(* While the anchor is that of a plan, only the plan has been asked.       *)
LEMMA PlanIsAskedFirst ==
    ASSUME LedgerInv, [Next]_vars, task'.kind = "plan"
    PROVE  OnlyThePlan(approvals', task'.plan)
<1>1. /\ IInv /\ TypeOK /\ RefsExist /\ Grows
      /\ approvals \in [ApprovalIds -> Requests]
  BY NextGrows DEF LedgerInv, EvidenceInv, IInv, TypeOK, Requests
<1>2. task.kind = "plan" => OnlyThePlan(approvals, task.plan)
  BY DEF LedgerInv
<1>3. CASE UNCHANGED <<task, approvals>>
  BY <1>2, <1>3
<1>4. ASSUME NEW id \in ApprovalIds, HandleApprovalTurn(id)
      PROVE  OnlyThePlan(approvals', task'.plan)
  <2>1. /\ UNCHANGED task
        /\ \A i \in ApprovalIds : /\ approvals'[i].plan = approvals[i].plan
                                  /\ approvals'[i].gate = approvals[i].gate
    BY <1>1, <1>4 DEF HandleApprovalTurn, Decide, Requests, session
  <2> QED
    BY <1>2, <2>1 DEF OnlyThePlan
<1>5. ASSUME NEW p \in Plans, NEW kept, RunResolvedExecution(p, kept)
      PROVE  OnlyThePlan(approvals', task'.plan)
  <2>1. PICK id \in ApprovalIds : RequestForRisk(id, "PLAN", p, {})
    BY <1>5, FreshIsUnused DEF RunResolvedExecution
  <2>2. \A i \in ApprovalIds : approvals'[i] = approvals[i] \/ approvals'[i].gate = "PLAN"
    BY <1>1, <2>1 DEF RequestForRisk
  <2>3. \/ UNCHANGED task
        \/ task'.plan = p /\ \A i \in ApprovalIds : approvals[i].plan # p
    BY <1>5 DEF RunResolvedExecution, Anchor, PlanTask, NoTask
  <2> QED
    BY <1>2, <2>2, <2>3 DEF OnlyThePlan
<1>6. ASSUME NEW kept \in BOOLEAN, PlanningTurn(kept)
      PROVE  OnlyThePlan(approvals', task'.plan)
  <2>1. NoTask.kind # "plan" /\ [NoTask EXCEPT !.kind = "scope", !.project = project].kind # "plan"
    BY DEF NoTask
  <2>2. ASSUME NEW q, RegisterProject(q)
        PROVE  UNCHANGED <<task, approvals>>
    BY <2>2 DEF RegisterProject, records
  <2>3. ~ClearStale /\ ~AskForScope
    BY <2>1 DEF ClearStale, AskForScope
  <2>4. CASE HandleScopeClarificationTurn(kept)
    BY <1>5, <2>1, <2>4 DEF HandleScopeClarificationTurn
  <2>5. ASSUME NEW p \in Plans, HandleExecutionIntent(p, kept)
        PROVE  RunResolvedExecution(p, kept)
    BY <2>5 DEF HandleExecutionIntent
  <2> QED
    BY <1>3, <1>4, <1>5, <1>6, <2>2, <2>3, <2>4, <2>5 DEF PlanningTurn
<1>7. ~ \E kept \in BOOLEAN : GateTurn(kept)
  BY <1>1, GateTurnKinds
<1>8. ASSUME NEW saved, NEW kept, LocalTurn(saved, kept)
      PROVE  OnlyThePlan(approvals', task'.plan)
  BY <1>1, <1>3, <1>8, LocalTurnKinds, OtherTurnsKeepApprovals
<1>9. ASSUME NEW t \in Turns, TurnStep(t)
      PROVE  OnlyThePlan(approvals', task'.plan)
  BY <1>1, <1>3, <1>9, TurnStepKinds, OtherTurnsKeepApprovals
<1>10. ASSUME NEW t, StartTurn(t)
       PROVE  OnlyThePlan(approvals', task'.plan)
  <2>1. UNCHANGED task
    BY <1>10 DEF StartTurn, SuspendPushExecutionTurn, HandlePrCreationExecutionTurn,
         HandleMergeExecutionTurn, SuspendMainSyncTurn, HandleRemoteBranchCleanupExecutionTurn,
         session
  <2> QED
    BY <1>3, <1>10, <2>1, OtherTurnsKeepApprovals
<1>11. CASE Crash \/ Human \/ UNCHANGED vars
  BY <1>3, <1>11 DEF Crash, Human, vars, session, records
<1> QED
  BY <1>6, <1>7, <1>8, <1>9, <1>10, <1>11 DEF Next, Saves

-----------------------------------------------------------------------------
(* The ledger's invariant is inductive.                                    *)

(* The empty session has granted nothing and asked nothing.                *)
LEMMA InitLedger == Init => LedgerInv
<1> SUFFICES ASSUME Init PROVE LedgerInv
  OBVIOUS
<1>1. \A a \in AnchorCopies : a = NoTask
  BY DEF Init, AnchorCopies, Idle
<1>2. /\ NoTask.kind = "none"
      /\ \A t \in Turns : turns[t].pc = "idle"
      /\ task = NoTask
  BY DEF Init, Idle, NoTask
<1> QED
  BY <1>1, <1>2, InitEvidence DEF LedgerInv

(* Every step preserves it.                                                *)
LEMMA NextLedger == LedgerInv /\ [Next]_vars => LedgerInv'
<1> SUFFICES ASSUME LedgerInv, [Next]_vars PROVE LedgerInv'
  OBVIOUS
<1>1. EvidenceInv'
  BY NextEvidence DEF LedgerInv
<1>2. \A a \in AnchorCopies' : a.kind = "apply" => GrantedIn(approvals', "PLAN", a.plan)
  BY CopiesAreGranted
<1>3. \A t \in Turns :
         turns'[t].pc = "codegen" => GrantedIn(approvals', "PLAN", turns'[t].task.plan)
  BY CodegenIsGranted
<1>4. task'.kind = "plan" => OnlyThePlan(approvals', task'.plan)
  BY PlanIsAskedFirst
<1> QED
  BY <1>1, <1>2, <1>3, <1>4 DEF LedgerInv

(* Every apply anchor, stored or suspended, is of a plan that was granted, *)
(* and while the anchor is that of a plan none of its gates was asked.     *)
THEOREM LedgerInvariant == Spec => []LedgerInv
BY InitLedger, NextLedger, PTL DEF Spec

-----------------------------------------------------------------------------
(* Every step is a step of the ledger, or leaves it alone.                 *)

(* A gate is asked where the anchor stands, and there the one before it    *)
(* was granted.                                                            *)
LEMMA GateIsDue ==
    ASSUME LedgerInv, NEW g \in ApplyGates, task.kind = "apply", task.status = Durable[g]
    PROVE  Approvals!Due(g, task.plan)
<1>1. IInv /\ task \in AnchorCopies /\ task \in Tasks
  BY DEF LedgerInv, EvidenceInv, IInv, TypeOK, AnchorCopies
<1>2. CASE g = "APPLY"
  BY <1>1, <1>2
     DEF LedgerInv, GrantedIn, Approvals!Due, Approvals!Granted, Approvals!Before,
         Approvals!Mutating
<1>3. CASE g # "APPLY"
  <2> DEFINE former == Approvals!Before[g]
  <2>1. former \in ApplyGates /\ Reached(task, Approved[former])
    BY <1>3 DEF ApplyGates, Approvals!Before, Reached, Approved, Durable, Rank, Status
  <2>2. /\ task.approval[former] \in ApprovalIds
        /\ approvals[task.approval[former]].status = "APPROVED"
        /\ approvals[task.approval[former]].gate = former
        /\ approvals[task.approval[former]].plan = task.plan
    BY <1>1, <2>1 DEF IInv, ChainApproved, Granted, ApprovalsMatch, Tasks
  <2>3. Approvals!Granted(former, task.plan)
    BY <2>2 DEF Approvals!Granted
  <2>4. g \in Approvals!Mutating
    BY DEF ApplyGates, Approvals!Mutating, Approvals!Before
  <2> QED
    BY <2>3, <2>4 DEF Approvals!Due
<1> QED
  BY <1>2, <1>3

(* A request for a gate that is due is asked of the ledger.                *)
LEMMA RequestIsAsked ==
    ASSUME LedgerInv, NEW id \in ApprovalIds, NEW gate \in Gates, NEW plan \in Plans,
           NEW scope \in MaybeTip, RequestForRisk(id, gate, plan, scope),
           Approvals!Due(gate, plan), UNCHANGED mutations
    PROVE  Approvals!Ask(id)
<1>1. approvals \in [ApprovalIds -> Requests]
  BY DEF LedgerInv, EvidenceInv, IInv, TypeOK, Requests
<1>2. /\ approvals'[id] = [gate |-> gate, plan |-> plan, scope |-> scope, status |-> "PENDING"]
      /\ \A other \in ApprovalIds \ {id} : approvals'[other] = approvals[other]
      /\ approvals[id].status = "NONE"
  BY <1>1 DEF RequestForRisk
<1>3. approvals'[id] \in Approvals!Proposals
  BY <1>2 DEF Approvals!Proposals, Approvals!Mutating, Approvals!Before, Gates, ApplyGates
<1> QED
  BY <1>2, <1>3 DEF Approvals!Ask

(* Asking for the next gate.                                               *)
LEMMA GateIsAsked ==
    ASSUME LedgerInv, NEW kept, NEW a, NEW g \in ApplyGates, AnchoredAt(Durable[g]),
           NEW scope \in MaybeTip, RequestGate(g, scope, a, kept)
    PROVE  Approvals!Next
<1>1. task.plan \in Plans /\ Approvals!Due(g, task.plan)
  BY GateIsDue, AnchoredPlan DEF LedgerInv, EvidenceInv, IInv, AnchoredAt, Anchored
<1>2. PICK id \in ApprovalIds : RequestForRisk(id, g, task.plan, scope)
  BY FreshIsUnused DEF RequestGate
<1>3. UNCHANGED mutations
  BY DEF RequestGate
<1>4. Approvals!Ask(id)
  BY <1>1, <1>2, <1>3, RequestIsAsked DEF Gates
<1> QED
  BY <1>4 DEF Approvals!Next

(* Deciding, at whatever gate.                                             *)
LEMMA DecisionIsDecided ==
    ASSUME NEW id \in ApprovalIds, NEW verdict \in {"APPROVED", "REJECTED"},
           Decide(id, verdict), UNCHANGED mutations
    PROVE  Approvals!Next
<1>1. Approvals!Decide(id)
  BY DEF Decide, Approvals!Decide
<1> QED
  BY <1>1 DEF Approvals!Next

(* A turn at a gate asks or decides.                                       *)
LEMMA GateTurnKeepsLedger ==
    ASSUME LedgerInv, NEW kept \in BOOLEAN, GateTurn(kept)
    PROVE  Approvals!Next
<1>1. TypeOK /\ RefsExist /\ PlansKnown /\ task \in Tasks
  BY DEF LedgerInv, EvidenceInv, IInv, TypeOK
<1>2. \A f \in Evidence : task.ev[f] \in MaybeTip
  BY <1>1 DEF Tasks
<1>3. Head \in MaybeTip
  BY <1>1, HeadExists DEF TypeOK, WorldOK, MaybeTip
<1>4. \A g \in ApplyGates : task.approval[g] # None => task.approval[g] \in ApprovalIds
  BY <1>1 DEF Tasks
<1>5. ASSUME NEW g \in ApplyGates, NEW a, DecideGate(g, a, kept)
      PROVE  Approvals!Next
  BY <1>4, <1>5, DecisionIsDecided DEF DecideGate
<1>6. CASE HandleApplyIntentTurn(kept)
  BY <1>1, <1>6, GateIsAsked, AnchoredPlan
     DEF HandleApplyIntentTurn, AnchoredAt, ApplyGates, Durable
<1>7. CASE HandleApplyApprovalTurn(kept)
  BY <1>4, <1>7, DecisionIsDecided DEF HandleApplyApprovalTurn, ApplyGates
<1>8. CASE HandleCommitApprovalTurn(kept)
  BY <1>1, <1>8, GateIsAsked, AnchoredPlan
     DEF HandleCommitApprovalTurn, AnchoredAt, ApplyGates, Durable
<1>9. CASE HandlePushApprovalTurn(kept)
  BY <1>3, <1>9, GateIsAsked DEF HandlePushApprovalTurn, ApplyGates, Durable
<1>10. CASE HandlePrApprovalTurn(kept)
  BY <1>2, <1>10, GateIsAsked DEF HandlePrApprovalTurn, ApplyGates, Durable, Evidence
<1>11. CASE HandleMergeApprovalTurn(kept)
  BY <1>2, <1>11, GateIsAsked DEF HandleMergeApprovalTurn, ApplyGates, Durable, Evidence
<1>12. CASE HandleRemoteBranchCleanupApprovalTurn(kept)
  BY <1>2, <1>12, GateIsAsked
     DEF HandleRemoteBranchCleanupApprovalTurn, ApplyGates, Durable, Evidence
<1> QED
  BY <1>5, <1>6, <1>7, <1>8, <1>9, <1>10, <1>11, <1>12
     DEF GateTurn, ApplyGates, HandleCommitApprovalDecisionTurn, HandlePushApprovalDecisionTurn,
         HandlePrApprovalDecisionTurn, HandleMergeApprovalDecisionTurn,
         HandleRemoteBranchCleanupDecisionTurn

(* Planning asks for the plan, a reply to it decides; nothing else of a    *)
(* turn before the anchor touches the table.                               *)
LEMMA PlanningTurnKeepsLedger ==
    ASSUME LedgerInv, NEW kept, PlanningTurn(kept)
    PROVE  Approvals!Next \/ UNCHANGED <<approvals, mutations>>
<1>1. ASSUME NEW p \in Plans, NEW yes, RunResolvedExecution(p, yes)
      PROVE  Approvals!Next
  <2>1. PICK id \in ApprovalIds : RequestForRisk(id, "PLAN", p, {})
    BY <1>1, FreshIsUnused DEF RunResolvedExecution
  <2>2. Approvals!Due("PLAN", p) /\ UNCHANGED mutations
    BY <1>1 DEF RunResolvedExecution, Approvals!Due
  <2>3. Approvals!Ask(id)
    BY <2>1, <2>2, RequestIsAsked, TipsClosed DEF Gates, MaybeTip
  <2> QED
    BY <2>3 DEF Approvals!Next
<1>2. ASSUME NEW id \in ApprovalIds, HandleApprovalTurn(id)
      PROVE  Approvals!Next
  BY <1>2, DecisionIsDecided DEF HandleApprovalTurn
<1> QED
  BY <1>1, <1>2
     DEF PlanningTurn, RegisterProject, ClearStale, HandleExecutionIntent, AskForScope,
         HandleScopeClarificationTurn, records

(* A step that adds a mutation spends the request it was backed by.        *)
LEMMA MutationIsSpent ==
    ASSUME LedgerInv, [Next]_vars, NEW op \in ApplyGates, NEW a, NEW scope,
           Record(op, a, scope), UNCHANGED approvals
    PROVE  Approvals!Next
<1> DEFINE m == [op |-> op, approval |-> a.approval[op], plan |-> a.plan, scope |-> scope]
<1>1. m \in mutations' /\ mutations' = mutations \cup {m}
  BY DEF Record
<1>2. BackedMutation(m, approvals') /\ AsShown(m, approvals')
  BY <1>1, NextBacked, NextShown DEF LedgerInv, EvidenceInv, AllShown
<1>3. PICK id : id = m.approval
  OBVIOUS
<1>4. /\ id \in ApprovalIds /\ approvals[id].status = "APPROVED"
      /\ approvals[id].gate = m.op /\ approvals[id].plan = m.plan /\ m.scope \in MaybeTip
  BY <1>2, <1>3 DEF BackedMutation, Mutations
<1>5. m.op \in {"APPLY", "COMMIT", "MERGE"} => m.scope = approvals[id].scope
  BY <1>2, <1>3 DEF AsShown
<1>6. Approvals!Spend(id)
  <2>1. approvals[id].gate \in Approvals!Mutating
    BY <1>4 DEF ApplyGates, Approvals!Mutating, Approvals!Before
  <2>2. m.scope \in (IF m.op \in Approvals!Exact THEN {approvals[id].scope} ELSE MaybeTip)
    BY <1>4, <1>5 DEF Approvals!Exact
  <2> HIDE DEF m
  <2> QED
    BY <1>1, <1>3, <1>4, <2>1, <2>2 DEF Approvals!Spend
<1> QED
  BY <1>4, <1>6 DEF Approvals!Next

(* Every synchronous execution turn.                                       *)
LEMMA LocalTurnKeepsLedger ==
    ASSUME LedgerInv, [Next]_vars, NEW saved, NEW kept, LocalTurn(saved, kept)
    PROVE  Approvals!Next \/ UNCHANGED mutations
<1>1. UNCHANGED approvals
  BY OtherTurnsKeepApprovals
<1>2. ASSUME NEW op \in ApplyGates, NEW scope, Record(op, task, scope)
      PROVE  Approvals!Next
  BY <1>1, <1>2, MutationIsSpent
<1> QED
  BY <1>2
     DEF LocalTurn, HandlePatchGenerationTurn, HandleWorkspaceApplyTurn, ApplyDiff,
         HandleCommitExecutionTurn, HandlePushExecutionTurn, HandleMainSyncTurn,
         HandleBranchCleanupTurn, ApplyGates

(* Every step of a suspended turn.                                         *)
LEMMA TurnStepKeepsLedger ==
    ASSUME LedgerInv, [Next]_vars, NEW t \in Turns, TurnStep(t)
    PROVE  Approvals!Next \/ UNCHANGED mutations
<1>1. UNCHANGED approvals
  BY OtherTurnsKeepApprovals
<1>2. ASSUME NEW op \in ApplyGates, NEW scope, Record(op, turns[t].task, scope)
      PROVE  Approvals!Next
  BY <1>1, <1>2, MutationIsSpent
<1> QED
  BY <1>2
     DEF TurnStep, RunCodeGenerationPreview, ResumePushExecutionTurn, CheckBranches,
         FindOpenPullRequest, PostPullRequest, ReceivePullRequest, GetMergePreflight, PutMerge,
         ReceiveMerge, GetRemoteRefCommit, ResumeMainSyncTurn, ConfirmMerged,
         GetRemoteBranchCommit, RereadRemoteBranch, ReadRemoteBranch, DeleteRemoteBranch,
         ReceiveDelete, ApplyGates

(* Whichever turns overlap, die or lose their saves, and whatever people   *)
(* do to the branches, the approvals and the mutations keep the promise of *)
(* ApprovalLedger.                                                         *)
THEOREM ApprovalsAreKept == Spec => KeepsApprovals
<1>1. Init => Approvals!Init
  BY DEF Init, NoRequest, Approvals!Init, Approvals!Unasked
<1>2. ASSUME LedgerInv, [Next]_vars
      PROVE  Approvals!Next \/ UNCHANGED <<approvals, mutations>>
  <2>1. ASSUME NEW kept \in BOOLEAN, PlanningTurn(kept) \/ GateTurn(kept)
        PROVE  Approvals!Next \/ UNCHANGED <<approvals, mutations>>
    BY <1>2, <2>1, PlanningTurnKeepsLedger, GateTurnKeepsLedger
  <2>2. ASSUME NEW saved \in BOOLEAN, NEW kept \in BOOLEAN, LocalTurn(saved, kept)
        PROVE  Approvals!Next \/ UNCHANGED <<approvals, mutations>>
    BY <1>2, <2>2, LocalTurnKeepsLedger, OtherTurnsKeepApprovals
  <2>3. ASSUME NEW t \in Turns, TurnStep(t)
        PROVE  Approvals!Next \/ UNCHANGED <<approvals, mutations>>
    BY <1>2, <2>3, TurnStepKeepsLedger, OtherTurnsKeepApprovals
  <2>4. ASSUME NEW t \in Turns, StartTurn(t)
        PROVE  UNCHANGED <<approvals, mutations>>
    BY <2>4
       DEF StartTurn, SuspendPushExecutionTurn, HandlePrCreationExecutionTurn,
           HandleMergeExecutionTurn, SuspendMainSyncTurn, HandleRemoteBranchCleanupExecutionTurn,
           records
  <2>5. CASE Crash \/ Human \/ UNCHANGED vars
    BY <2>5 DEF Crash, Human, vars, records
  <2> QED
    BY <1>2, <2>1, <2>2, <2>3, <2>4, <2>5 DEF Next, Saves
<1>3. LedgerInv /\ [Next]_vars => [Approvals!Next]_<<approvals, mutations>>
  BY <1>2
<1> QED
  BY <1>1, <1>3, LedgerInvariant, PTL DEF Spec, KeepsApprovals, Approvals!Spec

=============================================================================
