--------------------------- MODULE ApplyLifecycle ---------------------------
(***************************************************************************)
(* The conversation runtime's development lifecycle for one session: a     *)
(* code request is planned and approved, previewed, applied, committed,    *)
(* pushed, turned into a pull request, merged, synchronised and cleaned    *)
(* up. Between turns the runtime keeps one pointer, Session.activeTaskId,  *)
(* to an inert task whose metadata is the anchor; here `task` is what the  *)
(* pointer leads to. A handler that only touches sqlite, the file system   *)
(* or a spawnSync child runs to completion in one action. A handler that   *)
(* awaits the network keeps the session and the anchor it read at its      *)
(* start and may be overtaken; it is a slot of `turns`.                    *)
(***************************************************************************)
EXTENDS GitWorld

CONSTANTS
    Projects,          \* projects that can be registered in the session
    ApprovalIds,       \* ids newId() may give an ApprovalRequest
    Turns,             \* slots for turns suspended on the network
    OneTurnAtATime,    \* the user waits for each reply before writing again
    AppAuth            \* git credentials are minted over the network per call

ASSUME FlagsAssumption == OneTurnAtATime \in BOOLEAN /\ AppAuth \in BOOLEAN
ASSUME NoIdAssumption == None \notin Plans \cup Projects \cup ApprovalIds \cup PrIds

ApplyGates == {"APPLY", "COMMIT", "PUSH", "PR", "MERGE", "REMOTE"}
Gates == ApplyGates \cup {"PLAN"}

(* ApplyPreviewAnchorStatus, in lifecycle order.                           *)
Rank ==
    [ELIGIBLE |-> 1, AWAITING_APPROVAL |-> 2, APPROVED |-> 3, PATCH_READY |-> 4,
     WORKSPACE_APPLIED |-> 5, COMMIT_APPROVAL_PENDING |-> 6, COMMIT_APPROVED |-> 7,
     GIT_COMMITTED |-> 8, PUSH_APPROVAL_PENDING |-> 9, PUSH_APPROVED |-> 10,
     GIT_PUSHED |-> 11, PR_APPROVAL_PENDING |-> 12, PR_APPROVED |-> 13,
     PR_CREATED |-> 14, MERGE_APPROVAL_PENDING |-> 15, MERGE_APPROVED |-> 16,
     PR_MERGED |-> 17, MAIN_SYNCED |-> 18, BRANCH_CLEANED |-> 19,
     REMOTE_BRANCH_CLEANUP_PENDING |-> 20, REMOTE_BRANCH_CLEANUP_APPROVED |-> 21,
     REMOTE_BRANCH_CLEANED |-> 22]
Status == DOMAIN Rank

(* Each gate leads from a durable status, through one in which its         *)
(* approval is pending, to one in which permission is recorded.            *)
Durable ==
    [APPLY |-> "ELIGIBLE", COMMIT |-> "WORKSPACE_APPLIED", PUSH |-> "GIT_COMMITTED",
     PR |-> "GIT_PUSHED", MERGE |-> "PR_CREATED", REMOTE |-> "BRANCH_CLEANED"]
Pending ==
    [APPLY |-> "AWAITING_APPROVAL", COMMIT |-> "COMMIT_APPROVAL_PENDING",
     PUSH |-> "PUSH_APPROVAL_PENDING", PR |-> "PR_APPROVAL_PENDING",
     MERGE |-> "MERGE_APPROVAL_PENDING", REMOTE |-> "REMOTE_BRANCH_CLEANUP_PENDING"]
Approved ==
    [APPLY |-> "APPROVED", COMMIT |-> "COMMIT_APPROVED", PUSH |-> "PUSH_APPROVED",
     PR |-> "PR_APPROVED", MERGE |-> "MERGE_APPROVED",
     REMOTE |-> "REMOTE_BRANCH_CLEANUP_APPROVED"]

(* The anchor's evidence fields that hold a commit.                        *)
Evidence == {"commitHash", "pushCommitHash", "pushedCommitHash", "prPushedCommitHash",
             "pullRequestCommitHash", "mergedHeadSha", "mergeCommitHash", "syncedMainCommit"}

NoTask ==
    [kind |-> "none", plan |-> None, project |-> None, status |-> "NONE",
     approval |-> [g \in ApplyGates |-> None],
     ev |-> [f \in Evidence |-> None], branch |-> None, pr |-> None]

Tasks ==
    [kind : {"none", "plan", "scope", "apply"}, plan : Plans \cup {None},
     project : Projects \cup {None}, status : Status \cup {"NONE"},
     approval : [ApplyGates -> ApprovalIds \cup {None}],
     ev : [Evidence -> MaybeTip], branch : Branches \cup {None}, pr : PrIds \cup {None}]

Steps == {"idle", "codegen", "push", "prBranches", "prFind", "prCreate", "prAnswer",
          "mergePreflight", "mergePut", "mergeAnswer", "syncTip", "syncMain",
          "rmPreflight", "rmRead", "rmReread", "rmDelete", "rmAnswer"}

VARIABLES
    task,       \* what Session.activeTaskId points at
    project,    \* Session.activeProjectId
    approvals,  \* the ApprovalRequest table
    applied,    \* plans whose WorkspaceChange is stored as APPLIED
    turns,      \* turns suspended on the network
    mutations,  \* history: the approved mutations carried out
    overclaims  \* history: replies that denied a mutation that had happened

session == <<task, project>>
records == <<approvals, applied>>
vars == <<world, session, approvals, applied, turns, mutations, overclaims>>

Idle == [pc |-> "idle", task |-> NoTask, project |-> None, pr |-> None,
         hash |-> None, mutated |-> FALSE]
NoRequest == [gate |-> "PLAN", plan |-> None, scope |-> {}, status |-> "NONE"]

TypeOK ==
    /\ WorldTypeOK
    /\ task \in Tasks
    /\ project \in Projects \cup {None}
    /\ approvals \in [ApprovalIds -> [gate : Gates, plan : Plans \cup {None}, scope : MaybeTip,
                                      status : {"NONE", "PENDING", "APPROVED", "REJECTED"}]]
    /\ applied \subseteq Plans
    /\ turns \in [Turns -> [pc : Steps, task : Tasks, project : Projects \cup {None},
                            pr : PrIds \cup {None}, hash : MaybeTip, mutated : BOOLEAN]]
    /\ mutations \subseteq [op : ApplyGates, approval : ApprovalIds \cup {None},
                            plan : Plans \cup {None}, scope : MaybeTip]
    /\ overclaims \subseteq Steps

Init ==
    /\ WorldInit
    /\ task = NoTask
    /\ project = None
    /\ approvals = [id \in ApprovalIds |-> NoRequest]
    /\ applied = {}
    /\ turns = [t \in Turns |-> Idle]
    /\ mutations = {}
    /\ overclaims = {}

-----------------------------------------------------------------------------
(* The approval store.                                                     *)

UnusedIds == {id \in ApprovalIds : approvals[id].status = "NONE"}
Fresh == IF UnusedIds = {} THEN {} ELSE {CHOOSE id \in UnusedIds : TRUE}

RequestForRisk(id, gate, plan, scope) ==
    /\ approvals[id].status = "NONE"
    /\ approvals' = [approvals EXCEPT ![id] =
                        [gate |-> gate, plan |-> plan, scope |-> scope, status |-> "PENDING"]]

Decide(id, verdict) ==
    /\ approvals[id].status = "PENDING"
    /\ approvals' = [approvals EXCEPT ![id].status = verdict]

(* What every execution turn re-reads before it acts.                      *)
HoldsApproved(a, g) ==
    LET id == a.approval[g] IN
    /\ id # None
    /\ approvals[id].status = "APPROVED"
    /\ approvals[id].plan = a.plan

RecordSlip(op, a, scope) ==      \* slip: every gate cites the apply approval
    mutations' = mutations \cup
        {[op |-> op, approval |-> a.approval["APPLY"], plan |-> a.plan, scope |-> scope]}

(* The approvalRef a handler hands to the capability manager.              *)
Record(op, a, scope) ==
    mutations' = mutations \cup
        {[op |-> op, approval |-> a.approval[op], plan |-> a.plan, scope |-> scope]}

-----------------------------------------------------------------------------
(* Routing. A message is handled when the adapter delivers it; nothing     *)
(* serialises the turns of a channel but the user's patience.              *)

Ready == OneTurnAtATime => \A t \in Turns : turns[t].pc = "idle"

PlanApprovals == {id \in ApprovalIds : /\ task.kind = "plan"
                                       /\ approvals[id].plan = task.plan
                                       /\ approvals[id].status = "PENDING"}
Anchored == task.kind = "apply" /\ task.project = project
AnchoredAt(status) == Ready /\ Anchored /\ task.status = status
Scoping == task.kind = "scope" /\ task.project = project
Intercepted ==
    \/ PlanApprovals # {}
    \/ Scoping
    \/ Anchored /\ \E g \in ApplyGates : task.status = Pending[g]

(* applyPreviewFlow.anchor on behalf of the running turn; `kept` is FALSE  *)
(* when the process dies, or a result cannot be read back, after the       *)
(* handler's effect and before the anchor is saved.                        *)
Anchor(kept, a) == task' = (IF kept THEN a ELSE task) /\ UNCHANGED project

(* A turn that suspends keeps the session and the anchor it read.          *)
Suspend(t, pc, hash) ==
    /\ turns[t].pc = "idle"
    /\ turns' = [turns EXCEPT ![t] = [pc |-> pc, task |-> task, project |-> project,
                                      pr |-> None, hash |-> hash, mutated |-> FALSE]]

Resume(t, pc) == turns' = [turns EXCEPT ![t].pc = pc]

(* The request of turn t was carried out; its answer is on the way.        *)
AwaitAnswer(t, pc, pr, hash) ==
    turns' = [turns EXCEPT ![t] = [@ EXCEPT !.pc = pc, !.pr = pr, !.hash = hash, !.mutated = TRUE]]

(* A turn ends with a reply; "blocked" tells the user nothing was done.    *)
End(t, said) ==
    /\ turns' = [turns EXCEPT ![t] = Idle]
    /\ overclaims' = IF said = "blocked" /\ turns[t].mutated
                     THEN overclaims \cup {turns[t].pc} ELSE overclaims

(* applyPreviewFlow.anchor on behalf of a turn that was suspended: the     *)
(* whole session row is written back as it was read.                       *)
AnchorSnapshot(t, a) ==
    /\ task' = a
    /\ project' = turns[t].project
    /\ End(t, "done")

-----------------------------------------------------------------------------
(* Registration, new code requests, scope clarification, the plan gate.    *)

(* setActiveProject writes back the session as it was opened, so a task of *)
(* the former project stays in the pointer.                                *)
RegisterProject(q) ==
    /\ Ready /\ ~Intercepted
    /\ project' = q
    /\ UNCHANGED <<world, task, records, turns, mutations, overclaims>>

(* findAnchor and findPending drop a task of another project.              *)
ClearStale ==
    /\ Ready
    /\ task.kind \in {"apply", "scope"}
    /\ task.project # project
    /\ task' = NoTask
    /\ UNCHANGED <<world, project, records, turns, mutations, overclaims>>

PlanTask(p) == [NoTask EXCEPT !.kind = "plan", !.plan = p, !.project = project]

(* The orchestrator plans, asks for a HIGH approval and halts; the runtime *)
(* anchors the plan. A code request names its target file or it is asked   *)
(* for one.                                                                *)
RunResolvedExecution(p, kept) ==
    /\ project # None
    /\ \A id \in ApprovalIds : approvals[id].plan # p
    /\ \E id \in Fresh : RequestForRisk(id, "PLAN", p, {})
    /\ Anchor(kept, PlanTask(p))
    /\ UNCHANGED <<world, applied, turns, mutations, overclaims>>

HandleExecutionIntent(p, kept) ==
    /\ Ready /\ ~Intercepted
    /\ RunResolvedExecution(p, kept)

AskForScope ==
    /\ Ready /\ ~Intercepted
    /\ project # None
    /\ task' = [NoTask EXCEPT !.kind = "scope", !.project = project]
    /\ UNCHANGED <<world, project, records, turns, mutations, overclaims>>

HandleScopeClarificationTurn(kept) ==
    /\ Ready /\ PlanApprovals = {} /\ Scoping
    /\ \/ /\ task' = NoTask
          /\ UNCHANGED <<world, project, records, turns, mutations, overclaims>>
       \/ \E p \in Plans : RunResolvedExecution(p, kept)

HandleApprovalTurnSlip(id) ==    \* slip: a refusal starts the generation too
    /\ Ready
    /\ id \in PlanApprovals
    /\ \E verdict \in {"APPROVED", "REJECTED"} : Decide(id, verdict)
    /\ \/ \E t \in Turns : Suspend(t, "codegen", None)
       \/ UNCHANGED turns
    /\ UNCHANGED <<world, session, applied, mutations, overclaims>>

(* Approving resumes the plan and suspends on the AI; denying only decides.*)
HandleApprovalTurn(id) ==
    /\ Ready
    /\ id \in PlanApprovals
    /\ \/ /\ Decide(id, "APPROVED")
          /\ \/ \E t \in Turns : Suspend(t, "codegen", None)
             \/ UNCHANGED turns
       \/ Decide(id, "REJECTED") /\ UNCHANGED turns
    /\ UNCHANGED <<world, session, applied, mutations, overclaims>>

RunCodeGenerationPreview(t) ==
    /\ turns[t].pc = "codegen"
    /\ \/ AnchorSnapshot(t, [NoTask EXCEPT !.kind = "apply", !.plan = turns[t].task.plan,
                                           !.project = turns[t].project, !.status = "ELIGIBLE"])
       \/ End(t, "blocked") /\ UNCHANGED session
    /\ UNCHANGED <<world, records, mutations>>

-----------------------------------------------------------------------------
(* The approval gates. A request halts in the pending status; a decision   *)
(* re-reads the request, and a refusal returns to the durable status with  *)
(* that gate's own fields cleared.                                         *)

RequestGateSlip(g, scope, a, kept) ==  \* slip: every id is kept as the apply approval
    /\ \E id \in Fresh :
          /\ RequestForRisk(id, g, task.plan, scope)
          /\ Anchor(kept, [a EXCEPT !.status = Pending[g], !.approval = [@ EXCEPT !["APPLY"] = id]])
    /\ UNCHANGED <<world, applied, turns, mutations, overclaims>>

RequestGate(g, scope, a, kept) ==
    /\ \E id \in Fresh :
          /\ RequestForRisk(id, g, task.plan, scope)
          /\ Anchor(kept, [a EXCEPT !.status = Pending[g], !.approval = [@ EXCEPT ![g] = id]])
    /\ UNCHANGED <<world, turns, applied, mutations, overclaims>>

DecideGateSlip(g, a, kept) ==    \* slip: a refusal falls back to ELIGIBLE
    LET id == task.approval[g]
        refused == [a EXCEPT !.status = "ELIGIBLE", !.approval = [@ EXCEPT ![g] = None]]
    IN  /\ AnchoredAt(Pending[g])
        /\ id # None
        /\ approvals[id].plan = task.plan
        /\ \/ Decide(id, "APPROVED") /\ Anchor(kept, [task EXCEPT !.status = Approved[g]])
           \/ Decide(id, "REJECTED") /\ Anchor(kept, refused)
        /\ UNCHANGED <<world, applied, turns, mutations, overclaims>>

DecideGateStays(g, a, kept) ==   \* slip: a refusal is recorded but not anchored
    LET id == task.approval[g]
    IN  /\ AnchoredAt(Pending[g])
        /\ id # None
        /\ approvals[id].plan = task.plan
        /\ \/ Decide(id, "APPROVED") /\ Anchor(kept, [task EXCEPT !.status = Approved[g]])
           \/ Decide(id, "REJECTED") /\ UNCHANGED session
        /\ UNCHANGED <<world, applied, turns, mutations, overclaims>>

DecideGate(g, a, kept) ==
    LET id == task.approval[g]
        refused == [a EXCEPT !.status = Durable[g], !.approval = [@ EXCEPT ![g] = None]]
    IN  /\ AnchoredAt(Pending[g])
        /\ id # None
        /\ approvals[id].plan = task.plan
        /\ \/ Decide(id, "APPROVED") /\ Anchor(kept, [task EXCEPT !.status = Approved[g]])
           \/ Decide(id, "REJECTED") /\ Anchor(kept, refused)
        /\ UNCHANGED <<world, turns, applied, mutations, overclaims>>

Cleared(fields) == [task EXCEPT !.ev = [f \in Evidence |-> IF f \in fields THEN None ELSE @[f]]]

HandleApplyIntentTurn(kept) ==
    /\ AnchoredAt("ELIGIBLE")
    /\ RequestGate("APPLY", {task.plan}, task, kept)

(* The apply decision re-reads nothing; a refusal clears the anchor.       *)
HandleApplyApprovalTurn(kept) ==
    LET id == task.approval["APPLY"] IN
    /\ AnchoredAt("AWAITING_APPROVAL")
    /\ id # None
    /\ \/ Decide(id, "APPROVED") /\ Anchor(kept, [task EXCEPT !.status = "APPROVED"])
       \/ Decide(id, "REJECTED") /\ Anchor(kept, NoTask)
    /\ UNCHANGED <<world, turns, applied, mutations, overclaims>>

HandleCommitApprovalTurn(kept) ==
    /\ AnchoredAt("WORKSPACE_APPLIED")
    /\ FilesOf(worktree, task.plan) = {task.plan}
    /\ RequestGate("COMMIT", {task.plan}, task, kept)

HandleCommitApprovalDecisionTurn(kept) == DecideGate("COMMIT", task, kept)

PushPreflightSlip(b) ==          \* slip: HEAD is not compared
    /\ worktree = {}
    /\ b = at
    /\ Ahead(b) # {} /\ Behind(b) = {}

(* HEAD is the commit, the tree is clean and, as far as the tracking ref   *)
(* knows, the branch is ahead of its upstream and not behind it.           *)
PushPreflight(b) ==
    /\ Head = task.ev["commitHash"]
    /\ worktree = {}
    /\ b = at
    /\ Ahead(b) # {} /\ Behind(b) = {}

HandlePushApprovalTurn(kept) ==
    /\ AnchoredAt("GIT_COMMITTED")
    /\ task.ev["commitHash"] # None
    /\ PushPreflight(at)
    /\ RequestGate("PUSH", Head, [task EXCEPT !.branch = at, !.ev["pushCommitHash"] = Head], kept)

HandlePushApprovalDecisionTurn(kept) ==
    DecideGate("PUSH", [Cleared({"pushCommitHash"}) EXCEPT !.branch = None], kept)

HandlePrApprovalTurn(kept) ==
    LET hash == task.ev["pushedCommitHash"] IN
    /\ AnchoredAt("GIT_PUSHED")
    /\ hash # None
    /\ hash = task.ev["pushCommitHash"] /\ hash = task.ev["commitHash"]
    /\ task.branch # "main"
    /\ RequestGate("PR", hash, [task EXCEPT !.ev["prPushedCommitHash"] = hash], kept)

HandlePrApprovalDecisionTurn(kept) == DecideGate("PR", Cleared({"prPushedCommitHash"}), kept)

HandleMergeApprovalTurn(kept) ==
    /\ AnchoredAt("PR_CREATED")
    /\ task.pr # None
    /\ RequestGate("MERGE", task.ev["pullRequestCommitHash"], task, kept)

HandleMergeApprovalDecisionTurn(kept) == DecideGate("MERGE", task, kept)

HandleRemoteBranchCleanupApprovalTurn(kept) ==
    /\ AnchoredAt("BRANCH_CLEANED")
    /\ RequestGate("REMOTE", task.ev["mergedHeadSha"], task, kept)

HandleRemoteBranchCleanupDecisionTurn(kept) == DecideGate("REMOTE", task, kept)

-----------------------------------------------------------------------------
(* Local mutations.                                                        *)

HandlePatchGenerationTurn(kept) ==
    /\ AnchoredAt("APPROVED")
    /\ task.approval["APPLY"] # None
    /\ approvals[task.approval["APPLY"]].status = "APPROVED"
    /\ Anchor(kept, [task EXCEPT !.status = "PATCH_READY"])
    /\ UNCHANGED <<world, records, turns, mutations, overclaims>>

(* The PatchSet carries the approval it was generated under, so the apply  *)
(* turn does not read the store. A stored APPLIED WorkspaceChange is       *)
(* returned as it is; otherwise the diff must still apply, and the change  *)
(* may be lost before it is stored. A touch-up older than the diff is      *)
(* overwritten, a younger one stays.                                       *)
ApplyDiff(saved) ==
    /\ task.plan \notin worktree \cup Head
    /\ \E kept \in SUBSET (worktree \cap {"touchUp"}) :
          worktree' = (worktree \ {"touchUp"}) \cup kept \cup {task.plan}
    /\ applied' = IF saved THEN applied \cup {task.plan} ELSE applied
    /\ Record("APPLY", task, {task.plan})

HandleWorkspaceApplyTurn(saved, kept) ==
    /\ AnchoredAt("PATCH_READY")
    /\ task.approval["APPLY"] # None
    /\ \/ task.plan \in applied /\ UNCHANGED <<worktree, applied, mutations>>
       \/ task.plan \notin applied /\ ApplyDiff(saved)
    /\ Anchor(kept /\ saved, [task EXCEPT !.status = "WORKSPACE_APPLIED"])
    /\ UNCHANGED <<at, local, tracking, origin, prs, approvals, turns, overclaims>>

CommitScopeSlip == task.plan \in worktree   \* slip: extra files are not noticed
(* The exact-scope recheck: the files changed are the files approved.      *)
CommitScopeHolds == FilesOf(worktree, task.plan) = {task.plan}

HandleCommitExecutionTurn(kept) ==
    /\ AnchoredAt("COMMIT_APPROVED")
    /\ HoldsApproved(task, "COMMIT")
    /\ CommitScopeHolds
    /\ CommitFiles
    /\ Record("COMMIT", task, FilesOf(worktree, task.plan))
    /\ Anchor(kept, [task EXCEPT !.status = "GIT_COMMITTED",
                                   !.ev["commitHash"] = Head \cup worktree])
    /\ UNCHANGED <<records, turns, overclaims>>

Pushed(a) == [a EXCEPT !.status = "GIT_PUSHED", !.ev["pushedCommitHash"] = a.ev["pushCommitHash"]]

PushExecutionChecks ==
    /\ AnchoredAt("PUSH_APPROVED")
    /\ HoldsApproved(task, "PUSH")
    /\ task.ev["pushCommitHash"] = task.ev["commitHash"]
    /\ PushPreflight(task.branch)

HandlePushExecutionTurnSlip(kept) ==  \* slip: the exit code of git push is ignored
    /\ ~AppAuth
    /\ PushExecutionChecks
    /\ IF PushAccepted(task.branch) THEN PushHead(task.branch) ELSE UNCHANGED world
    /\ Record("PUSH", task, Head)
    /\ Anchor(kept, Pushed(task))
    /\ UNCHANGED <<records, turns, overclaims>>

(* With ambient credentials the push is part of the turn's one step; a     *)
(* push that fails, or a reply that is lost, leaves PUSH_APPROVED.         *)
HandlePushExecutionTurn(kept) ==
    /\ ~AppAuth
    /\ PushExecutionChecks
    /\ PushHead(task.branch)
    /\ Record("PUSH", task, Head)
    /\ Anchor(kept, Pushed(task))
    /\ UNCHANGED <<records, turns, overclaims>>

(* With App authentication the turn awaits a token between its preflight   *)
(* and the push.                                                           *)
SuspendPushExecutionTurn(t) ==
    /\ AppAuth
    /\ PushExecutionChecks
    /\ Suspend(t, "push", None)
    /\ UNCHANGED <<world, session, records, mutations, overclaims>>

ResumePushExecutionTurn(t) ==
    LET a == turns[t].task IN
    /\ turns[t].pc = "push"
    /\ \/ /\ PushHead(a.branch)
          /\ Record("PUSH", a, Head)
          /\ \/ AnchorSnapshot(t, Pushed(a))
             \/ End(t, "unverified") /\ UNCHANGED session
       \/ \E said \in {"blocked", "unverified"} :
             End(t, said) /\ UNCHANGED <<world, session, mutations>>
    /\ UNCHANGED records

-----------------------------------------------------------------------------
(* Creating the pull request: existence checks, the lookup of an open one, *)
(* the POST, and the answer, which may be lost. A failed read is Blocked;  *)
(* anything at or after the POST is Unverified.                            *)

HandlePrCreationExecutionTurn(t) ==
    LET hash == task.ev["prPushedCommitHash"] IN
    /\ AnchoredAt("PR_APPROVED")
    /\ HoldsApproved(task, "PR")
    /\ hash # None /\ \A f \in {"pushedCommitHash", "pushCommitHash", "commitHash"} :
                          hash = task.ev[f]
    /\ Suspend(t, "prBranches", None)
    /\ UNCHANGED <<world, session, records, mutations, overclaims>>

PrCreated(t, n, hash) ==
    [turns[t].task EXCEPT !.status = "PR_CREATED", !.pr = n, !.ev["pullRequestCommitHash"] = hash]

CheckBranches(t) ==
    /\ turns[t].pc = "prBranches"
    /\ \/ origin["feature"] # None /\ Resume(t, "prFind") /\ UNCHANGED overclaims
       \/ End(t, "blocked")
    /\ UNCHANGED <<world, session, records, mutations>>

(* An open pull request at the expected commit is reused.                  *)
FindOpenPullRequest(t) ==
    /\ turns[t].pc = "prFind"
    /\ \/ OpenPrs = {} /\ Resume(t, "prCreate") /\ UNCHANGED <<session, overclaims>>
       \/ \E n \in OpenPrs :
             /\ prs[n].head = turns[t].task.ev["prPushedCommitHash"]
             /\ AnchorSnapshot(t, PrCreated(t, n, prs[n].head))
       \/ End(t, "blocked") /\ UNCHANGED session
    /\ UNCHANGED <<world, records, mutations>>

PostPullRequest(t) ==
    /\ turns[t].pc = "prCreate"
    /\ \/ \E n \in PrIds :
             /\ CreatePullRequest(n)
             /\ Record("PR", turns[t].task, origin["feature"])
             /\ AwaitAnswer(t, "prAnswer", n, origin["feature"])
             /\ UNCHANGED overclaims
       \/ End(t, "unverified") /\ UNCHANGED <<world, mutations>>
    /\ UNCHANGED <<session, records>>

ReceivePullRequestSlip(t) ==     \* slip: a mismatch is reported as not created
    /\ turns[t].pc = "prAnswer"
    /\ \/ /\ turns[t].hash = turns[t].task.ev["prPushedCommitHash"]
          /\ AnchorSnapshot(t, PrCreated(t, turns[t].pr, turns[t].hash))
       \/ End(t, "blocked") /\ UNCHANGED session
    /\ UNCHANGED <<world, records, mutations>>

ReceivePullRequest(t) ==
    /\ turns[t].pc = "prAnswer"
    /\ \/ /\ turns[t].hash = turns[t].task.ev["prPushedCommitHash"]
          /\ AnchorSnapshot(t, PrCreated(t, turns[t].pr, turns[t].hash))
       \/ End(t, "unverified") /\ UNCHANGED session
    /\ UNCHANGED <<world, records, mutations>>

-----------------------------------------------------------------------------
(* Merging: a live preflight whose integrity check precedes every branch,  *)
(* the PUT conditional on the approved head, and the answer.               *)

HandleMergeExecutionTurn(t) ==
    /\ AnchoredAt("MERGE_APPROVED")
    /\ HoldsApproved(task, "MERGE")
    /\ task.pr # None
    /\ Suspend(t, "mergePreflight", None)
    /\ UNCHANGED <<world, session, records, mutations, overclaims>>

ExpectedHead(t) == turns[t].task.ev["pullRequestCommitHash"]

PrMerged(t, head, mergeCommit) ==
    [turns[t].task EXCEPT !.status = "PR_MERGED",
                          !.ev["mergedHeadSha"] = head,
                          !.ev["mergeCommitHash"] = mergeCommit]

GetMergePreflightHangs(t) ==     \* slip: a closed pull request is waited for
    LET pr == prs[turns[t].task.pr] IN
    /\ turns[t].pc = "mergePreflight"
    /\ pr.head = ExpectedHead(t)
    /\ \/ pr.state = "merged" /\ AnchorSnapshot(t, PrMerged(t, pr.head, None))
       \/ /\ pr.state = "open"
          /\ Resume(t, "mergePut")
          /\ UNCHANGED <<session, overclaims>>
    /\ UNCHANGED <<world, records, mutations>>

GetMergePreflightSlip(t) ==      \* slip: merged is trusted before the head is
    LET pr == prs[turns[t].task.pr] IN
    /\ turns[t].pc = "mergePreflight"
    /\ \/ pr.state = "merged" /\ AnchorSnapshot(t, PrMerged(t, pr.head, None))
       \/ /\ pr.state = "open" /\ pr.head = ExpectedHead(t)
          /\ Resume(t, "mergePut")
          /\ UNCHANGED <<session, overclaims>>
       \/ End(t, "blocked") /\ UNCHANGED session
    /\ UNCHANGED <<world, records, mutations>>

(* A pull request found merged at the approved head is a success that      *)
(* carries no merge commit.                                                *)
GetMergePreflight(t) ==
    LET pr == prs[turns[t].task.pr] IN
    /\ turns[t].pc = "mergePreflight"
    /\ \/ /\ pr.head = ExpectedHead(t)
          /\ \/ pr.state = "merged" /\ AnchorSnapshot(t, PrMerged(t, pr.head, None))
             \/ /\ pr.state = "open"
                /\ Resume(t, "mergePut")
                /\ UNCHANGED <<session, overclaims>>
       \/ End(t, "blocked") /\ UNCHANGED session
    /\ UNCHANGED <<world, records, mutations>>

PutMerge(t) ==
    LET n == turns[t].task.pr IN
    /\ turns[t].pc = "mergePut"
    /\ \/ /\ PutMergeAccepted(n, ExpectedHead(t))
          /\ MergePullRequest(n)
          /\ Record("MERGE", turns[t].task, prs[n].head)
          /\ AwaitAnswer(t, "mergeAnswer", None, origin'["main"])
          /\ UNCHANGED overclaims
       \/ End(t, "unverified") /\ UNCHANGED <<world, mutations>>
    /\ UNCHANGED <<session, records>>

ReceiveMerge(t) ==
    /\ turns[t].pc = "mergeAnswer"
    /\ \/ AnchorSnapshot(t, PrMerged(t, ExpectedHead(t), turns[t].hash))
       \/ End(t, "unverified") /\ UNCHANGED session
    /\ UNCHANGED <<world, records, mutations>>

-----------------------------------------------------------------------------
(* Synchronising local main and deleting the merged local branch. Neither  *)
(* takes an approval: both are local, fast-forward or compare-and-swap.    *)

MainSynced(a) == [a EXCEPT !.status = "MAIN_SYNCED", !.ev["syncedMainCommit"] = a.ev["mergeCommitHash"]]

MainSyncChecks ==
    /\ AnchoredAt("PR_MERGED")
    /\ task.ev["mergeCommitHash"] # None      \* no fallback to mergedHeadSha
    /\ worktree = {}

HandleMainSyncTurn(kept) ==
    LET expected == task.ev["mergeCommitHash"] IN
    /\ ~AppAuth
    /\ MainSyncChecks
    /\ origin["main"] = expected
    /\ SyncMainFastForward(expected, local["main"])
    /\ Anchor(kept /\ CanFastForward(expected, local["main"]), MainSynced(task))
    /\ UNCHANGED <<records, turns, mutations, overclaims>>

(* With App authentication both remote calls await a token; the base of    *)
(* the compare-and-swap is read before the first.                          *)
SuspendMainSyncTurn(t) ==
    /\ AppAuth
    /\ MainSyncChecks
    /\ Suspend(t, "syncTip", local["main"])
    /\ UNCHANGED <<world, session, records, mutations, overclaims>>

GetRemoteRefCommit(t) ==
    /\ turns[t].pc = "syncTip"
    /\ \/ /\ origin["main"] = turns[t].task.ev["mergeCommitHash"]
          /\ Resume(t, "syncMain")
          /\ UNCHANGED overclaims
       \/ End(t, "blocked")
    /\ UNCHANGED <<world, session, records, mutations>>

ResumeMainSyncTurn(t) ==
    LET a == turns[t].task
        expected == a.ev["mergeCommitHash"]
    IN  /\ turns[t].pc = "syncMain"
        /\ \/ /\ CanFastForward(expected, turns[t].hash)
              /\ SyncMainFastForward(expected, turns[t].hash)
              /\ \/ AnchorSnapshot(t, MainSynced(a))
                 \/ End(t, "unverified") /\ UNCHANGED session
           \/ /\ ~CanFastForward(expected, turns[t].hash)
              /\ SyncMainFastForward(expected, turns[t].hash)
              /\ End(t, "blocked") /\ UNCHANGED session
           \/ End(t, "blocked") /\ UNCHANGED <<world, session>>
        /\ UNCHANGED <<records, mutations>>

HandleBranchCleanupTurn(kept) ==
    /\ AnchoredAt("MAIN_SYNCED")
    /\ LocalBranchDeletable(task.branch, task.ev["syncedMainCommit"])
    /\ DeleteMergedLocalBranch(task.branch)
    /\ Anchor(kept, [task EXCEPT !.status = "BRANCH_CLEANED"])
    /\ UNCHANGED <<records, turns, mutations, overclaims>>

-----------------------------------------------------------------------------
(* Deleting the remote branch: the merge is confirmed, the ref read by the *)
(* manager and again by the provider, then deleted unconditionally.        *)

HandleRemoteBranchCleanupExecutionTurn(t) ==
    /\ AnchoredAt("REMOTE_BRANCH_CLEANUP_APPROVED")
    /\ HoldsApproved(task, "REMOTE")
    /\ Suspend(t, "rmPreflight", None)
    /\ UNCHANGED <<world, session, records, mutations, overclaims>>

RemoteCleaned(t) == [turns[t].task EXCEPT !.status = "REMOTE_BRANCH_CLEANED"]

ConfirmMerged(t) ==
    LET pr == prs[turns[t].task.pr] IN
    /\ turns[t].pc = "rmPreflight"
    /\ \/ /\ pr.state = "merged" /\ pr.head = turns[t].task.ev["mergedHeadSha"]
          /\ Resume(t, "rmRead")
          /\ UNCHANGED overclaims
       \/ End(t, "blocked")
    /\ UNCHANGED <<world, session, records, mutations>>

ReadRemoteBranchSlip(t, pc, next, failure) ==  \* slip: the commit is not compared
    /\ turns[t].pc = pc
    /\ \/ origin["feature"] = None /\ AnchorSnapshot(t, RemoteCleaned(t))
       \/ origin["feature"] # None /\ Resume(t, next) /\ UNCHANGED <<session, overclaims>>
       \/ \E said \in {"blocked", failure} : End(t, said) /\ UNCHANGED session
    /\ UNCHANGED <<world, records, mutations>>

(* An absent branch is a success; a branch off the expected commit blocks. *)
ReadRemoteBranch(t, pc, next, failure) ==
    /\ turns[t].pc = pc
    /\ \/ origin["feature"] = None /\ AnchorSnapshot(t, RemoteCleaned(t))
       \/ /\ origin["feature"] = turns[t].task.ev["mergedHeadSha"]
          /\ Resume(t, next)
          /\ UNCHANGED <<session, overclaims>>
       \/ \E said \in {"blocked", failure} : End(t, said) /\ UNCHANGED session
    /\ UNCHANGED <<world, records, mutations>>

GetRemoteBranchCommit(t) == ReadRemoteBranch(t, "rmRead", "rmReread", "blocked")
RereadRemoteBranch(t) == ReadRemoteBranch(t, "rmReread", "rmDelete", "unverified")

DeleteRemoteBranch(t) ==
    /\ turns[t].pc = "rmDelete"
    /\ \/ /\ DeleteRemoteRef("feature")
          /\ Record("REMOTE", turns[t].task, origin["feature"])
          /\ AwaitAnswer(t, "rmAnswer", None, None)
          /\ UNCHANGED overclaims
       \/ End(t, "unverified") /\ UNCHANGED <<world, mutations>>
    /\ UNCHANGED <<session, records>>

ReceiveDelete(t) ==
    /\ turns[t].pc = "rmAnswer"
    /\ \/ AnchorSnapshot(t, RemoteCleaned(t))
       \/ End(t, "unverified") /\ UNCHANGED session
    /\ UNCHANGED <<world, records, mutations>>

-----------------------------------------------------------------------------
(* Scheduling.                                                             *)

(* The process dies: suspended turns are lost, sqlite, the clone and the   *)
(* hosting service are not.                                                *)
Crash ==
    /\ "crash" \in Events
    /\ \E t \in Turns : turns[t].pc # "idle"
    /\ turns' = [t \in Turns |-> Idle]
    /\ UNCHANGED <<world, session, records, mutations, overclaims>>

PlanningTurn(kept) ==
    \/ \E q \in Projects : RegisterProject(q)
    \/ ClearStale
    \/ \E p \in Plans : HandleExecutionIntent(p, kept)
    \/ AskForScope
    \/ HandleScopeClarificationTurn(kept)
    \/ \E id \in ApprovalIds : HandleApprovalTurn(id)

GateTurn(kept) ==
    \/ HandleApplyIntentTurn(kept)
    \/ HandleApplyApprovalTurn(kept)
    \/ HandleCommitApprovalTurn(kept)
    \/ HandleCommitApprovalDecisionTurn(kept)
    \/ HandlePushApprovalTurn(kept)
    \/ HandlePushApprovalDecisionTurn(kept)
    \/ HandlePrApprovalTurn(kept)
    \/ HandlePrApprovalDecisionTurn(kept)
    \/ HandleMergeApprovalTurn(kept)
    \/ HandleMergeApprovalDecisionTurn(kept)
    \/ HandleRemoteBranchCleanupApprovalTurn(kept)
    \/ HandleRemoteBranchCleanupDecisionTurn(kept)

LocalTurn(saved, kept) ==
    \/ HandlePatchGenerationTurn(kept)
    \/ HandleWorkspaceApplyTurn(saved, kept)
    \/ HandleCommitExecutionTurn(kept)
    \/ HandlePushExecutionTurn(kept)
    \/ HandleMainSyncTurn(kept)
    \/ HandleBranchCleanupTurn(kept)

(* "lostSave" lets a turn die between its effect and its last save.        *)
Saves == {TRUE} \cup (IF "lostSave" \in Events THEN {FALSE} ELSE {})

StartTurn(t) ==
    \/ SuspendPushExecutionTurn(t)
    \/ HandlePrCreationExecutionTurn(t)
    \/ HandleMergeExecutionTurn(t)
    \/ SuspendMainSyncTurn(t)
    \/ HandleRemoteBranchCleanupExecutionTurn(t)

TurnStep(t) ==
    \/ RunCodeGenerationPreview(t)
    \/ ResumePushExecutionTurn(t)
    \/ CheckBranches(t)
    \/ FindOpenPullRequest(t)
    \/ PostPullRequest(t)
    \/ ReceivePullRequest(t)
    \/ GetMergePreflight(t)
    \/ PutMerge(t)
    \/ ReceiveMerge(t)
    \/ GetRemoteRefCommit(t)
    \/ ResumeMainSyncTurn(t)
    \/ ConfirmMerged(t)
    \/ GetRemoteBranchCommit(t)
    \/ RereadRemoteBranch(t)
    \/ DeleteRemoteBranch(t)
    \/ ReceiveDelete(t)

(* The window between the provider's last read of the branch and its       *)
(* unconditional delete is open to a push only when "deleteRace" is set.   *)
RemotePush ==
    /\ "deleteRace" \in Events \/ \A t \in Turns : turns[t].pc # "rmDelete"
    /\ HumanRemotePush("remotePush", "feature")

Human ==
    /\ \/ \E change \in {"edit", "touchUp"} : HumanEdit(change)
       \/ HumanDiscard
       \/ HumanCommit
       \/ \E b \in Branches : HumanCheckout(b)
       \/ HumanFetch
       \/ RemotePush
       \/ HumanRemotePush("mainPush", "main")
       \/ \E n \in PrIds : HumanMerge(n) \/ HumanClose(n)
       \/ HumanDelete
    /\ UNCHANGED <<session, records, turns, mutations, overclaims>>

Next ==
    \/ \E kept \in Saves : PlanningTurn(kept) \/ GateTurn(kept)
    \/ \E saved, kept \in Saves : LocalTurn(saved, kept)
    \/ \E t \in Turns : StartTurn(t) \/ TurnStep(t)
    \/ Crash
    \/ Human

Spec == Init /\ [][Next]_vars

(* The app configures no deadline for its hosting requests, but Node's     *)
(* fetch gives up on a silent peer by itself and the AI CLI is killed at   *)
(* its timeout, so each step of a suspended turn comes; the user and the   *)
(* people around the bot need never act.                                   *)
FairSpec == Spec /\ \A t \in Turns : WF_vars(TurnStep(t))

-----------------------------------------------------------------------------
(* Safety.                                                                 *)

AnchorCopies == {task} \cup {turns[t].task : t \in Turns}
Reached(a, status) == a.status \in Status /\ Rank[a.status] >= Rank[status]

(* Every mutation of the clone or of the hosting service was carried out   *)
(* under an APPROVED request made for that gate and for that plan: an      *)
(* approval of one gate never pays for another, whatever turns interleave. *)
MutationsBacked ==
    \A m \in mutations :
        /\ m.approval # None
        /\ approvals[m.approval].status = "APPROVED"
        /\ approvals[m.approval].gate = m.op
        /\ approvals[m.approval].plan = m.plan

(* What was applied, committed and merged is exactly what the user was     *)
(* shown when approving, although the tree, the clone and the remote       *)
(* branch move between the decision and the execution.                     *)
ApprovedScope ==
    \A m \in mutations :
        m.op \in {"APPLY", "COMMIT", "MERGE"} => m.scope = approvals[m.approval].scope

(* The commit a push delivers is the commit the push was approved for.     *)
PushIsApprovedCommit ==
    \A m \in mutations : m.op = "PUSH" => m.scope = approvals[m.approval].scope

(* A reply that says nothing happened is never sent by a turn whose own    *)
(* request had been carried out: a lost answer is reported as unverified.  *)
BlockedMeansUntouched == overclaims = {}

Held(refs) == UNION ({refs[b] : b \in Branches} \ {None})

(* The anchor never claims more than the repositories show. A commit it    *)
(* calls committed or pushed exists there.                                 *)
CommitsAreReal ==
    \A a \in AnchorCopies :
        /\ Reached(a, "GIT_COMMITTED") => a.ev["commitHash"] \subseteq Held(local) \cup Held(origin)
        /\ Reached(a, "GIT_PUSHED") => a.ev["pushedCommitHash"] \subseteq Held(origin)

(* A head the anchor calls merged is the head the merge was approved for   *)
(* and is part of remote main, whoever merged it; a synchronised main      *)
(* really holds the merge commit in the clone.                             *)
MergesAreReal ==
    \A a \in AnchorCopies :
        /\ Reached(a, "PR_MERGED") =>
              /\ a.ev["mergedHeadSha"] = approvals[a.approval["MERGE"]].scope
              /\ a.ev["mergedHeadSha"] \subseteq origin["main"]
        /\ Reached(a, "MAIN_SYNCED") => a.ev["syncedMainCommit"] \subseteq local["main"]

(* A halted gate can be decided: while the anchor says an approval is      *)
(* pending, the request it names still is. Every message goes to that      *)
(* decision, so a gate whose request is decided would never let go.        *)
HaltedGateIsPending ==
    task.kind = "apply" =>
        \A g \in ApplyGates :
            task.status = Pending[g] =>
                task.approval[g] # None /\ approvals[task.approval[g]].status = "PENDING"

-----------------------------------------------------------------------------
(* The inductive invariant behind MutationsBacked.                         *)

(* A plan task and an apply anchor name the plan they are about.           *)
PlansKnown ==
    \A a \in AnchorCopies : a.kind \in {"plan", "apply"} => a.plan \in Plans

(* The approval ids of an anchor are distinct by gate: each names a        *)
(* request made for its own gate and for the anchor's plan, whichever      *)
(* turns have written the anchor back.                                     *)
ApprovalsMatch ==
    \A a \in AnchorCopies, g \in ApplyGates :
        a.approval[g] # None =>
            /\ approvals[a.approval[g]].gate = g
            /\ approvals[a.approval[g]].plan = a.plan
            /\ approvals[a.approval[g]].status # "NONE"

Granted(a, g) == a.approval[g] # None /\ approvals[a.approval[g]].status = "APPROVED"

(* No anchor is past a gate whose approval was not granted: a merged pull  *)
(* request, say, has its apply, commit, push, PR and merge approvals, even *)
(* in an anchor written back by a turn that was overtaken.                 *)
ChainApproved ==
    \A a \in AnchorCopies, g \in ApplyGates : Reached(a, Approved[g]) => Granted(a, g)

SuspendedAt ==
    [push |-> "PUSH_APPROVED",
     prBranches |-> "PR_APPROVED", prFind |-> "PR_APPROVED", prCreate |-> "PR_APPROVED",
     prAnswer |-> "PR_APPROVED",
     mergePreflight |-> "MERGE_APPROVED", mergePut |-> "MERGE_APPROVED",
     mergeAnswer |-> "MERGE_APPROVED",
     syncTip |-> "PR_MERGED", syncMain |-> "PR_MERGED",
     rmPreflight |-> "REMOTE_BRANCH_CLEANUP_APPROVED", rmRead |-> "REMOTE_BRANCH_CLEANUP_APPROVED",
     rmReread |-> "REMOTE_BRANCH_CLEANUP_APPROVED", rmDelete |-> "REMOTE_BRANCH_CLEANUP_APPROVED",
     rmAnswer |-> "REMOTE_BRANCH_CLEANUP_APPROVED"]

(* A turn carries out on the network exactly what the status it read       *)
(* permits, at every one of its steps, and a merge names a pull request.   *)
SuspendedWithinStatus ==
    \A t \in Turns :
        /\ turns[t].pc = "codegen" => turns[t].task.kind = "plan"
        /\ turns[t].pc \in DOMAIN SuspendedAt =>
              /\ turns[t].task.kind = "apply"
              /\ turns[t].task.status = SuspendedAt[turns[t].pc]
              /\ turns[t].task.status = "MERGE_APPROVED" => turns[t].task.pr # None

(* What the proofs are about, in one inductive invariant: every copy of    *)
(* the anchor, the stored one and those of suspended turns, carries ids of *)
(* its own plan's requests and is past no gate whose request was refused   *)
(* or is undecided, and every mutation was paid for.                       *)
IInv ==
    /\ TypeOK
    /\ RefsExist
    /\ PlansKnown
    /\ ApprovalsMatch
    /\ ChainApproved
    /\ SuspendedWithinStatus
    /\ MutationsBacked

-----------------------------------------------------------------------------
(* Action properties.                                                      *)

(* No step of the runtime or of its users makes a local commit             *)
(* unreachable: branch cleanup deletes only what main already has.         *)
LocalCommitsKept == [][Held(local) \subseteq Held(local')]_vars

(* No commit disappears from the hosting service: the remote branch is     *)
(* deleted only at the commit main already contains.                       *)
RemoteCommitsKept == [][Held(origin) \subseteq Held(origin')]_vars

(* A request is decided once: neither verdict is ever revised and the      *)
(* request itself never changes, so a retried or overlapping decision turn *)
(* cannot turn a refusal into a permission.                                *)
DecidedOnce ==
    [][\A id \in ApprovalIds :
          /\ approvals[id].status \in {"APPROVED", "REJECTED"} => approvals'[id] = approvals[id]
          /\ approvals[id].status = "PENDING" =>
                approvals'[id] = [approvals[id] EXCEPT !.status = approvals'[id].status]]_vars

(* The anchor of a plan moves backwards only when a pending gate is        *)
(* refused, and then exactly to that gate's durable status.                *)
NeverRegresses ==
    [][task.kind = "apply" /\ task'.kind = "apply" /\ task'.plan = task.plan =>
          \/ Rank[task'.status] >= Rank[task.status]
          \/ \E g \in ApplyGates : task.status = Pending[g] /\ task'.status = Durable[g]]_vars

-----------------------------------------------------------------------------
(* The abstract specification.                                             *)

(* The lifecycle keeps the promise of the approval gates, whichever turns  *)
(* overlap, die or lose their saves, and whatever people do meanwhile: a   *)
(* gate is asked only after the one before it was granted for the same     *)
(* plan, and a granted request pays for what it showed and nothing else.   *)
Approvals ==
    INSTANCE ApprovalLedger WITH
        Ids <- ApprovalIds, Scopes <- MaybeTip, requests <- approvals, spent <- mutations
KeepsApprovals == Approvals!Spec

-----------------------------------------------------------------------------
(* Liveness.                                                               *)

(* No turn stays suspended: whatever the network answers, and whatever     *)
(* others do meanwhile, the user gets a reply.                             *)
TurnsEnd == \A t \in Turns : turns[t].pc # "idle" ~> turns[t].pc = "idle"
=============================================================================
