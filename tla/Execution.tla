----------------------------- MODULE Execution -----------------------------
(* The execution pipeline: ExecutionOrchestrator.run and resume over the   *)
(* managers they call (code generation, approval, patch, workspace write,  *)
(* command, receipt) and the rows those managers store, with people who    *)
(* edit the workspace at any moment and a process that may die at any.     *)
(*                                                                         *)
(* A call is one run or resume, or one of the runtime's turns that apply   *)
(* a stored patch. Ids are the call's: it makes at most one aggregate of   *)
(* each kind, a resume goes on with the plan of the run it resumes.        *)
(* sqlite, files and commands are synchronous, so a call keeps the event   *)
(* loop except while the AI provider writes its answer.                    *)
EXTENDS WorkspaceFiles, Naturals, FiniteSets

CONSTANTS
    Calls,        \* executions that may be started
    Paths,        \* files of the workspace
    Initial,      \* their contents at first
    Requests,     \* what may be asked for
    Proposals,    \* what the AI may answer
    MaxEdits      \* bound: edits people make

VARIABLES
    calls, loop,                                  \* in memory
    generations, approvals, patches, changes, commands, receipts,   \* stored
    files, edits                                  \* the workspace

stored == <<generations, approvals, patches, changes, commands, receipts>>
vars == <<calls, loop, stored, files, edits>>

-----------------------------------------------------------------------------
(* Stages and risk.                                                        *)
Stages == <<"PLANNING", "CODE_GENERATION", "WORKSPACE_DIFF", "APPROVAL",
            "PATCH", "WORKSPACE_WRITE", "COMMAND_EXECUTION">>

(* A request: capabilities, planningOnly, a command or None, and whether   *)
(* it names a workspace.                                                   *)
SelectStages(q) ==
    LET code == "CODE_IMPLEMENTATION" \in q.capabilities
        generates == code /\ ~q.planningOnly
        runs == "TEST_EXECUTION" \in q.capabilities /\ q.command # None
    IN  {"PLANNING"}
        \cup (IF generates THEN {"CODE_GENERATION", "WORKSPACE_DIFF", "PATCH", "WORKSPACE_WRITE"}
                           ELSE {})
        \cup (IF code \/ runs THEN {"APPROVAL"} ELSE {})
        \cup (IF runs THEN {"COMMAND_EXECUTION"} ELSE {})

RequiresApprovalSlip(q) == q.capabilities = {"CODE_IMPLEMENTATION"}   \* slip: not the highest risk decides
(* Code implementation is HIGH, every other capability the pipeline serves *)
(* at most MEDIUM: the plan's overall risk is the highest.                 *)
RequiresApproval(q) == "CODE_IMPLEMENTATION" \in q.capabilities

(* The gates before a command runs, by the kind of command: unlisted or    *)
(* evaluating and destructive ones are refused, a publishing one is HIGH.  *)
CommandAllowed(command, approval) ==
    \/ command = "local"
    \/ command = "publishing" /\ approval = "APPROVED"

-----------------------------------------------------------------------------
(* What the variables hold. A call's type lists every stage it waits in    *)
(* and every aggregate its outcome may name.                               *)
Decisions == {"PENDING", "APPROVED", "REJECTED"}
Statuses == {"COMPLETED", "STOPPED_ON_FAILURE", "CANCELLED", "AWAITING_APPROVAL", "DENIED"}
Waits == {"GENERATING", "RESUME", "WRITING", "RUNNING", "RECEIPT", "end", "lost"}
Terminal == {"SUCCEEDED", "FAILED", "TIMED_OUT"}

CallRecords ==
    [kind : {"run", "resume", "apply"}, plan : Calls, request : Requests,
     at : {Stages[i] : i \in DOMAIN Stages} \cup Waits, cancel : BOOLEAN,
     approval : Decisions \cup {None}, changes : Proposals \cup {None},
     diff : Diffs(Paths) \cup {None}, todo : SUBSET Paths, results : ResultMaps(Paths),
     refs : SUBSET {"plan", "generation", "approval", "patch", "change", "command"},
     outcome : Statuses \cup {None}]
GenerationRecords ==
    [status : {"GENERATING", "SUCCEEDED", "FAILED"}, proposal : Proposals \cup {None}]
ApprovalRecords == [status : Decisions, by : {"system", "person", None}]
PatchRecords == [approval : Decisions, ops : Diffs(Paths)]
ChangeRecords ==
    [status : {"APPLYING", "APPLIED", "PARTIALLY_APPLIED", "FAILED"},
     results : ResultMaps(Paths)]

(* None is none of what a variable holds; the initial files and the        *)
(* proposals are files of the workspace; literals are strings.             *)
ASSUME ExecutionAssumption ==
    /\ None \notin Calls /\ None \notin CallRecords /\ None \notin GenerationRecords
    /\ None \notin ApprovalRecords /\ None \notin PatchRecords /\ None \notin ChangeRecords
    /\ None \notin Statuses /\ None \notin Terminal \cup {"RUNNING"} /\ None \notin Texts
    /\ "hand" \in STRING
    /\ Initial \in [Paths -> Files]
    /\ \A p \in Proposals : DOMAIN p \subseteq Paths /\ p \in [DOMAIN p -> Files]

TypeOK ==
    /\ calls \in [Calls -> CallRecords \cup {None}] /\ loop \in Calls \cup {None}
    /\ generations \in [Calls -> GenerationRecords \cup {None}]
    /\ approvals \in [Calls -> ApprovalRecords \cup {None}]
    /\ patches \in [Calls -> PatchRecords \cup {None}]
    /\ changes \in [Calls -> ChangeRecords \cup {None}]
    /\ commands \in [Calls -> Terminal \cup {"RUNNING", None}]
    /\ receipts \subseteq [source : Calls, succeeded : BOOLEAN]
    /\ files \in [Paths -> Files] /\ edits \in Nat

-----------------------------------------------------------------------------
(* One call. at: the stage it is about to enter or, inside a stage, what   *)
(* it waits for. plan: whose plan, generation and approval it works on.    *)
(* refs: the aggregates its outcome names.                                 *)
NewCall(kind, of, q, at) ==
    [kind |-> kind, plan |-> of, request |-> q, at |-> at, cancel |-> FALSE,
     approval |-> None, changes |-> None, diff |-> None, todo |-> {}, results |-> << >>,
     refs |-> {}, outcome |-> None]

Live(c) == calls[c] # None /\ calls[c].outcome = None /\ calls[c].at # "lost"
HasLoop(c) == Live(c) /\ loop \in {None, c}
At(c, stage) == HasLoop(c) /\ calls[c].at = stage

NextStage(stage, selected) ==
    LET later == {i \in DOMAIN Stages : /\ Stages[i] \in selected
                                        /\ \A j \in DOMAIN Stages : Stages[j] = stage => j < i}
    IN  IF later = {} THEN "end" ELSE Stages[CHOOSE i \in later : \A j \in later : i <= j]

(* What a call becomes: it stops, halts or goes on to the next stage.      *)
Ended(rec, status) == [rec EXCEPT !.outcome = status]
Advanced(rec, stage) ==
    LET next == NextStage(stage, SelectStages(rec.request))
    IN  IF rec.kind = "apply" \/ next = "end" THEN Ended([rec EXCEPT !.at = "end"], "COMPLETED")
        ELSE [rec EXCEPT !.at = next]

(* Every step of a call hands its new record over here.                    *)
Becomes(c, rec) ==
    /\ calls' = [calls EXCEPT ![c] = rec]
    /\ loop' = IF rec.outcome = None /\ rec.at # "GENERATING" THEN c ELSE None

Fail(c) == Becomes(c, Ended(calls[c], "STOPPED_ON_FAILURE"))

-----------------------------------------------------------------------------
(* run: planning, generation, diff, approval.                              *)
Run(c) ==
    /\ calls[c] = None /\ loop = None
    /\ \E q \in Requests, cancelled \in BOOLEAN :
          Becomes(c, [NewCall("run", c, q, "PLANNING") EXCEPT !.cancel = cancelled])
    /\ UNCHANGED <<stored, files, edits>>

Boundaries == {Stages[i] : i \in DOMAIN Stages} \cup {"RESUME"}

(* cancelledAt: looked at before each stage, and on resume.                *)
CancelledAt(c) == calls[c].cancel

(* The token is set before the call or while it waits for the provider.    *)
Cancel(c) ==
    /\ Live(c) /\ ~calls[c].cancel /\ loop = None
    /\ calls' = [calls EXCEPT ![c].cancel = TRUE]
    /\ UNCHANGED <<loop, stored, files, edits>>

StopCancelled(c) ==
    /\ HasLoop(c) /\ calls[c].at \in Boundaries /\ calls[c].kind # "apply"
    /\ CancelledAt(c)
    /\ Becomes(c, Ended(calls[c], "CANCELLED"))
    /\ UNCHANGED <<stored, files, edits>>

Enters(c, stage) == At(c, stage) /\ (~CancelledAt(c) \/ calls[c].kind = "apply")

Plan(c) ==
    /\ Enters(c, "PLANNING")
    /\ Fail(c) \/ Becomes(c, Advanced([calls[c] EXCEPT !.refs = {"plan"}], "PLANNING"))
    /\ UNCHANGED <<stored, files, edits>>

Generate(c) ==
    /\ Enters(c, "CODE_GENERATION")
    /\ generations' = [generations EXCEPT ![c] = [status |-> "GENERATING", proposal |-> None]]
    /\ Becomes(c, [calls[c] EXCEPT !.at = "GENERATING"])
    /\ UNCHANGED <<approvals, patches, changes, commands, receipts, files, edits>>

(* The provider's answer, parsed; failures and malformed answers are       *)
(* recorded as FAILED.                                                     *)
ProviderAnswers(c) ==
    /\ At(c, "GENERATING")
    /\ \/ \E p \in Proposals :
            /\ generations' = [generations EXCEPT ![c] = [status |-> "SUCCEEDED", proposal |-> p]]
            /\ Becomes(c, Advanced([calls[c] EXCEPT !.changes = p, !.refs = @ \cup {"generation"}],
                                   "CODE_GENERATION"))
       \/ /\ generations' = [generations EXCEPT ![c].status = "FAILED"]
          /\ Becomes(c, Ended([calls[c] EXCEPT !.refs = @ \cup {"generation"}],
                              "STOPPED_ON_FAILURE"))
    /\ UNCHANGED <<approvals, patches, changes, commands, receipts, files, edits>>

WorkspaceDiff(c) ==
    /\ Enters(c, "WORKSPACE_DIFF")
    /\ \/ Fail(c)
       \/ /\ calls[c].request.workspace
          /\ Becomes(c, Advanced([calls[c] EXCEPT !.diff = Diff(files, calls[c].changes)],
                                 "WORKSPACE_DIFF"))
    /\ UNCHANGED <<stored, files, edits>>

RequestApproval(c) ==
    /\ Enters(c, "APPROVAL")
    /\ LET person == RequiresApproval(calls[c].request)
           status == IF person THEN "PENDING" ELSE "APPROVED"
           rec == [calls[c] EXCEPT !.approval = status, !.refs = @ \cup {"approval"}]
       IN  \/ Fail(c) /\ UNCHANGED approvals
           \/ /\ approvals' = [approvals EXCEPT ![c] =
                     [status |-> status, by |-> IF person THEN None ELSE "system"]]
              /\ Becomes(c, IF status = "PENDING" THEN Ended(rec, "AWAITING_APPROVAL")
                            ELSE Advanced(rec, "APPROVAL"))
    /\ UNCHANGED <<generations, patches, changes, commands, receipts, files, edits>>

-----------------------------------------------------------------------------
(* The wait for a person, and resume.                                      *)
Decide(c) ==
    /\ approvals[c] # None /\ approvals[c].status = "PENDING" /\ loop = None
    /\ \E status \in {"APPROVED", "REJECTED"} :
            approvals' = [approvals EXCEPT ![c] = [status |-> status, by |-> "person"]]
    /\ UNCHANGED <<calls, loop, generations, patches, changes, commands, receipts, files, edits>>

(* The caller hands back the request and the halted outcome, as anchored.  *)
(* An outcome that is not halted is returned as it is: nothing happens.    *)
Resume(c) ==
    /\ calls[c] = None /\ loop = None
    /\ \E prior \in Calls :
          /\ calls[prior] # None /\ calls[prior].outcome = "AWAITING_APPROVAL"
          /\ Becomes(c, [NewCall("resume", calls[prior].plan, calls[prior].request, "RESUME")
                            EXCEPT !.refs = calls[prior].refs])
    /\ UNCHANGED <<stored, files, edits>>

(* The stored proposal is compared with the workspace as it is now.        *)
ResumeDiff(c) == Diff(files, generations[calls[c].plan].proposal)

(* The decision is read again; what the run had in memory is rebuilt.      *)
ReviewDecision(c) ==
    /\ Enters(c, "RESUME")
    /\ LET status == approvals[calls[c].plan].status
           selected == SelectStages(calls[c].request)
           rec == [calls[c] EXCEPT !.approval = status]
           rebuilt == [rec EXCEPT !.changes = generations[rec.plan].proposal, !.diff = ResumeDiff(c)]
       IN  \/ status = "PENDING" /\ Becomes(c, Ended(rec, "AWAITING_APPROVAL"))
           \/ status = "REJECTED" /\ Becomes(c, Ended(rec, "DENIED"))
           \/ /\ status = "APPROVED" /\ "PATCH" \in selected
              /\ Fail(c) \/ Becomes(c, Advanced(rebuilt, "APPROVAL"))
           \/ /\ status = "APPROVED" /\ "PATCH" \notin selected
              /\ Becomes(c, Advanced(rec, "APPROVAL"))
    /\ UNCHANGED <<stored, files, edits>>

-----------------------------------------------------------------------------
(* runMutatingStages: patch, write, command.                               *)
(* PatchManager.generate: one operation per change, under the approval.    *)
GeneratePatch(c) == [approval |-> calls[c].approval, ops |-> calls[c].diff]

Patch(c) ==
    /\ Enters(c, "PATCH")
    /\ \/ Fail(c) /\ UNCHANGED patches
       \/ /\ calls[c].approval = "APPROVED"
          /\ patches' = [patches EXCEPT ![c] = GeneratePatch(c)]
          /\ Becomes(c, Advanced([calls[c] EXCEPT !.refs = @ \cup {"patch"}], "PATCH"))
    /\ UNCHANGED <<generations, approvals, changes, commands, receipts, files, edits>>

(* The patch a call writes: its own, or for a turn of the runtime the      *)
(* stored one it was asked to apply.                                       *)
PatchOf(c) == IF calls[c].kind = "apply" THEN calls[c].plan ELSE c

(* handleWorkspaceApplyTurn takes one update under an approval.            *)
ApplyStoredPatch(c) ==
    /\ calls[c] = None /\ loop = None
    /\ \E owner \in Calls :
          /\ patches[owner] # None
          /\ Cardinality(DOMAIN patches[owner].ops) = 1
          /\ \A p \in DOMAIN patches[owner].ops :
                /\ patches[owner].ops[p].operation = "update"
                /\ patches[owner].ops[p].form # "binary"
          /\ Becomes(c, [NewCall("apply", owner, calls[owner].request, "WORKSPACE_WRITE")
                            EXCEPT !.approval = patches[owner].approval])
    /\ UNCHANGED <<stored, files, edits>>

AlreadyAppliedSlip(p) == FALSE   \* slip: an applied patch is applied again
(* The stored change of this patch says it was applied.                    *)
AlreadyApplied(p) == changes[p] # None /\ changes[p].status = "APPLIED"

(* WorkspaceWriteManager.apply: a change already applied is returned, any  *)
(* other is attempted again; APPLYING is stored before the first file.     *)
StartWrite(c) ==
    /\ Enters(c, "WORKSPACE_WRITE")
    /\ LET p == PatchOf(c)
           rec == [calls[c] EXCEPT !.refs = @ \cup {"change"}]
       IN  \/ Fail(c) /\ UNCHANGED changes
           \/ /\ calls[c].approval = "APPROVED" /\ AlreadyApplied(p)
              /\ Becomes(c, Advanced(rec, "WORKSPACE_WRITE"))
              /\ UNCHANGED changes
           \/ /\ calls[c].approval = "APPROVED" /\ ~AlreadyApplied(p)
              /\ changes' = [changes EXCEPT ![p] = [status |-> "APPLYING", results |-> << >>]]
              /\ Becomes(c, [calls[c] EXCEPT !.at = "WRITING", !.results = << >>,
                                             !.todo = DOMAIN patches[p].ops])
    /\ UNCHANGED <<generations, approvals, patches, commands, receipts, files, edits>>

(* Every operation is attempted, whatever became of the others.            *)
ApplyOperation(c, path) ==
    /\ At(c, "WRITING") /\ path \in calls[c].todo
    /\ \E o \in Outcomes(files[path], patches[PatchOf(c)].ops[path]) :
          /\ files' = [files EXCEPT ![path] = o.file]
          /\ Becomes(c, [calls[c] EXCEPT !.todo = @ \ {path},
                        !.results = [p \in DOMAIN @ \cup {path} |->
                                        IF p = path THEN o.result ELSE @[p]]])
    /\ UNCHANGED <<stored, edits>>

FinishWrite(c) ==
    /\ At(c, "WRITING") /\ calls[c].todo = {}
    /\ LET status == DeriveStatus(calls[c].results)
           rec == [calls[c] EXCEPT !.refs = @ \cup {"change"}]
       IN  /\ changes' = [changes EXCEPT ![PatchOf(c)] =
                                [status |-> status, results |-> calls[c].results]]
           /\ Becomes(c, IF status = "APPLIED" THEN Advanced(rec, "WORKSPACE_WRITE")
                         ELSE Ended(rec, "STOPPED_ON_FAILURE"))
    /\ UNCHANGED <<generations, approvals, patches, commands, receipts, files, edits>>

(* CommandExecutionManager.run: a refused command leaves no record.        *)
StartCommand(c) ==
    /\ Enters(c, "COMMAND_EXECUTION")
    /\ \/ Fail(c) /\ UNCHANGED commands
       \/ /\ calls[c].request.workspace
          /\ CommandAllowed(calls[c].request.command, calls[c].approval)
          /\ commands' = [commands EXCEPT ![c] = "RUNNING"]
          /\ Becomes(c, [calls[c] EXCEPT !.at = "RUNNING"])
    /\ UNCHANGED <<generations, approvals, patches, changes, receipts, files, edits>>

(* deriveStatus of what the runner returns; a runner that throws FAILED.   *)
CommandEnds(c) ==
    /\ At(c, "RUNNING")
    /\ \E status \in {"SUCCEEDED", "FAILED", "TIMED_OUT"} :
          commands' = [commands EXCEPT ![c] = status]
    /\ Becomes(c, [calls[c] EXCEPT !.at = "RECEIPT"])
    /\ UNCHANGED <<generations, approvals, patches, changes, receipts, files, edits>>

(* CAP-013: a terminal command's outcome; timed out counts as failed.      *)
ReceiptOf(c) == [source |-> c, succeeded |-> commands[c] = "SUCCEEDED"]

ReportedSlip(c) == calls[c]   \* slip: a failed receipt hides the command
(* The outcome names the command, receipt or not.                          *)
Reported(c) == [calls[c] EXCEPT !.refs = @ \cup {"command"}]

(* recordCommandExecution reads the stored command and inserts; a refused  *)
(* insert stops the call, which still reports the command.                 *)
RecordReceipt(c) ==
    /\ At(c, "RECEIPT")
    /\ \/ /\ receipts' = receipts \cup {ReceiptOf(c)}
          /\ Becomes(c, IF commands[c] = "SUCCEEDED"
                        THEN Advanced([calls[c] EXCEPT !.refs = @ \cup {"command"}],
                                      "COMMAND_EXECUTION")
                        ELSE Ended([calls[c] EXCEPT !.refs = @ \cup {"command"}],
                                   "STOPPED_ON_FAILURE"))
       \/ Becomes(c, Ended(Reported(c), "STOPPED_ON_FAILURE")) /\ UNCHANGED receipts
    /\ UNCHANGED <<generations, approvals, patches, changes, commands, files, edits>>

-----------------------------------------------------------------------------
(* People in the workspace, and a crash.                                   *)
HandWritten == [r \in Regions |-> <<"hand">>]

EditRegion(path, r) ==
    /\ edits < MaxEdits /\ edits' = edits + 1
    /\ files[path] \notin {None, Empty} /\ files[path][r] # <<"hand">>
    /\ files' = [files EXCEPT ![path][r] = <<"hand">>]
    /\ UNCHANGED <<calls, loop, stored>>

(* Writes what is not there, or empty; removes what is.                    *)
ReplaceFile(path) ==
    /\ edits < MaxEdits /\ edits' = edits + 1
    /\ \/ files[path] \in {None, Empty} /\ files' = [files EXCEPT ![path] = HandWritten]
       \/ files[path] # None /\ files' = [files EXCEPT ![path] = None]
    /\ UNCHANGED <<calls, loop, stored>>

Crash ==
    /\ \E c \in Calls : Live(c)
    /\ calls' = [c \in Calls |-> IF Live(c) THEN [calls[c] EXCEPT !.at = "lost"] ELSE calls[c]]
    /\ loop' = None
    /\ UNCHANGED <<stored, files, edits>>

-----------------------------------------------------------------------------
Init ==
    /\ calls = [c \in Calls |-> None] /\ loop = None
    /\ generations = [c \in Calls |-> None] /\ approvals = [c \in Calls |-> None]
    /\ patches = [c \in Calls |-> None] /\ changes = [c \in Calls |-> None]
    /\ commands = [c \in Calls |-> None] /\ receipts = {}
    /\ files = Initial /\ edits = 0

CallStep(c) ==
    \/ StopCancelled(c)
    \/ Plan(c)
    \/ Generate(c)
    \/ ProviderAnswers(c)
    \/ WorkspaceDiff(c)
    \/ RequestApproval(c)
    \/ ReviewDecision(c)
    \/ Patch(c)
    \/ StartWrite(c)
    \/ \E path \in Paths : ApplyOperation(c, path)
    \/ FinishWrite(c)
    \/ StartCommand(c)
    \/ CommandEnds(c)
    \/ RecordReceipt(c)

Environment ==
    \/ \E c \in Calls : Run(c) \/ Resume(c) \/ ApplyStoredPatch(c) \/ Decide(c) \/ Cancel(c)
    \/ \E path \in Paths, r \in Regions : EditRegion(path, r)
    \/ \E path \in Paths : ReplaceFile(path)
    \/ Crash

Next == Environment \/ \E c \in Calls : CallStep(c)
Spec == Init /\ [][Next]_vars

-----------------------------------------------------------------------------
(* Properties.                                                             *)

(* A call that ended tells what happened: it names a command exactly when  *)
(* that command ran to its end (execution-orchestrator.ts:404, receipt or  *)
(* not); it is COMPLETED only with every selected file written and a       *)
(* command that succeeded, under its one receipt; halted, denied or        *)
(* approved-for-nothing it left no patch, no written file, no command.     *)
OutcomeIsTrue ==
    /\ \A c \in Calls : calls[c] # None /\ calls[c].outcome # None =>
          LET rec == calls[c]
              selected == SelectStages(rec.request)
          IN  /\ "command" \in rec.refs <=> commands[c] \in Terminal
              /\ rec.outcome = "COMPLETED" =>
                    /\ "WORKSPACE_WRITE" \in selected \/ rec.kind = "apply" =>
                          changes[PatchOf(c)].status = "APPLIED"
                    /\ "COMMAND_EXECUTION" \in selected /\ rec.kind # "apply" =>
                          [source |-> c, succeeded |-> TRUE] \in receipts
              /\ rec.outcome \in {"AWAITING_APPROVAL", "DENIED"} =>
                    patches[c] = None /\ commands[c] = None
    /\ \A x \in receipts :
          /\ x = ReceiptOf(x.source) /\ commands[x.source] \in Terminal
          /\ \A y \in receipts : y.source = x.source => y = x

(* What the program did in a step, as opposed to people.                   *)
Written == IF edits' = edits THEN {p \in Paths : files'[p] # files[p]} ELSE {}

(* The operation a call makes on a path.                                   *)
OperationOf(c, path) == patches[PatchOf(c)].ops[path]

(* Files change only under a person's approval of the very plan the patch  *)
(* was made for, and only by what the approved generation proposed         *)
(* (execution-orchestrator.ts:346, patch-manager.ts:44,                    *)
(* workspace-write-manager.ts:57), across halts, resumes, crashes and the  *)
(* turns that apply a stored patch: a region stays, or holds all that was  *)
(* proposed for it and nothing else that was not there before.             *)
ApprovedWrite ==
    \A p \in Written :
       LET plan == calls[PatchOf(loop)].plan
           goal == generations[plan].proposal[p]
           before == Text(files[p])
           after == Text(files'[p])
       IN  /\ approvals[plan] = [status |-> "APPROVED", by |-> "person"]
           /\ p \in DOMAIN generations[plan].proposal
           /\ IF goal = None THEN files'[p] = None
              ELSE \A r \in Regions :
                     \/ after[r] = before[r]
                     \/ /\ goal[r] \in SubSeqs(after[r])
                        /\ ToSet(after[r]) \subseteq ToSet(goal[r]) \cup ToSet(before[r])
ApprovedWrites == [][ApprovedWrite]_vars

(* A line that stands in the workspace, a person's last edit as much as    *)
(* any, is lost to a write only if the diff had read it: the patch fails,  *)
(* or what was proposed goes above it (workspace-local/src/index.ts:435).  *)
(* A delete does not look, and is exempt.                                  *)
EditKept ==
    \A p \in Written : files[p] # None /\ files'[p] # None =>
       \A r \in Regions :
          ToSet(files[p][r]) \ ToSet(files'[p][r]) \subseteq ToSet(OperationOf(loop, p).from[r])
EditsSurvive == [][EditKept]_vars

(* A patch recorded as applied stays so and is never written again: no     *)
(* retry or second turn makes it APPLYING or FAILED                        *)
(* (workspace-write-manager.ts:79).                                        *)
AppliedKept ==
    \A p \in Calls : changes[p] # None /\ changes[p].status = "APPLIED" =>
       changes'[p] = changes[p] /\ (loop # None /\ PatchOf(loop) = p => Written = {})
AppliedForGood == [][AppliedKept]_vars

=============================================================================
