# chunsik-bot (Quoky): TLA+ models and proofs

Quoky is a chat bot that carries a code change from a request in a Discord channel to a merged and
cleaned-up pull request, one explicit approval at a time. Every side effect (files, commit, push,
pull request, merge, branch deletion) is to happen only under an approval a person gave for it, to
touch exactly what was approved, and to be reported truthfully even when the network loses the
answer. Around that lifecycle it routes every AI call through a policy, runs the providers as contained
child processes, hands work over to other agents, remembers conversations, and validates local models
offline. This directory models these parts, model-checks them with TLC and proves with TLAPS, for every value
of the constants, each safety property that a run checks.

## 1. Inventory

The code is a TypeScript monorepo: `packages/core` (domain and application services),
adapters in the other packages, and the composition root in `apps/quoky`.

| Component | State it keeps | Operations | Talks to | What makes it correct |
|---|---|---|---|---|
| Conversation runtime: lifecycle turns (`conversation-runtime.ts`) | none of its own; the session row and the anchor task | `handle`, one handler per lifecycle turn | everything below, through ports | a mutation only under its approval; truthful replies |
| Message routing (`handle`, `interpret*`) | none | word lists, prohibitions, order of the rules | the handlers | a pending gate intercepts; a message decides a gate only if it says so |
| Chat and work turns | task, run, messages | `handleInner`: explicit memory, local answers, registration, chat | memory, context, gateway | reply and records agree |
| Stateless flows (`stateless-*-flow.ts`) | `Session.activeTaskId` and an inert task whose metadata is the anchor | `findPending`, `findAnchor`, `anchor`, `clear` | storage, approvals | the anchor never regresses, never names another project |
| Session, project managers | session row | `openForContext`, `touch`, `setActiveProject` | storage | one pointer per session |
| Approval manager, policies | `ApprovalRequest` table | `requestFor`, `requestForRisk`, `decide`, `get` | storage | a request is decided once |
| Execution orchestrator, planning | plan, stage refs | `run`, `resume`, `cancel` | approvals, generation, patch, write, commands | stages in order, halt before mutation, the outcome names what ran |
| Code generation, preview | generation, proposal rows | `generate` | AI provider | none lost, awaits the AI |
| Patch, workspace write | `PatchSet`, `WorkspaceChange` rows, working tree | `generate`, `apply` | file system | applied once, under an approval, over nobody's edits |
| Command execution | `CommandExecution` rows | `execute` | one spawnSync child | allow-listed, recorded |
| Git manager, local git, App git provider | the clone | `commitFiles`, `pushApprovedCommit`, `syncMain`, `deleteMergedLocalBranch` | git, GitHub tokens | approved scope, no commit lost |
| Repository hosting manager, GitHub adapter | pull requests, remote branches | `createPullRequest`, `mergePullRequest`, `deleteRemoteBranch` | GitHub REST | "not done" only when certainly not done |
| Task manager, task run storage | `Task`, `TaskRun`, containment evidence | `transition`, `guardedStart`, `terminalizePreservingSecurityEvidence` | sqlite | one terminal state, evidence inserted once |
| Work handoff, continuation | handoffs, bindings, attempts | `recordIdempotent`, `admit`, `prepare`, guarded start | tasks, approvals | an attempt starts once; UNRESOLVED is never retried |
| Continuation receiver and its execution service | artifact, report | `receive`, `snapshotReceiverOutcome` | routing, task runs | a report is believed, or the attempt stays open |
| Continuation containment | issued objects, evidence | candidate, profile, instance, channels, capability, execution | task runs, providers | only what both channels verified is executed |
| Provider routing gateway | deadline, attempts, state machine | `execute` | AI providers, validator | at most two attempts, nothing after the deadline |
| Routing policy, registry, response validation | none | pure functions | gateway | chosen provider is eligible; an accepted answer was judged |
| AI CLI runner (`cli-runner.ts`) | child process, timers, buffers | `run` | child process events | settles once, contained output |
| Discord adapter, delivery | typing timers | `handleMessageCreate`, `deliverPreview` | Discord | the whole diff arrives or the reader is told |
| Memory | memory rows | `recordShortTerm`, prune, durable candidates, recall | storage | order, bound, scope |
| Context and prompt composition | none | `build`, `compose` | memory, storage | the prompt holds what belongs to this message |
| Offline semantic harness (`tools/provider-semantic-validation*.ts`) | approved plan, run record | attest, approve, run, evaluate | child processes, file system | evidence only of clean runs; a pass is earned |
| Tools and connectors, proactive triggers, wiring, other offline tools, stubs | - | - | - | section 8 |

**Where the difficulty lies.** `DiscordPlatformAdapter` starts a handler per message and waits for
none (`adapter-discord/src/index.ts:80`). sqlite, git, the workspace and allow-listed commands run
synchronously, so a handler is overtaken only where it awaits the network or a child process: AI calls, pull
request creation, merge, remote branch deletion and, with GitHub App credentials, push and main sync.
What such a handler read before its await (session row, anchor, HEAD, pull request, newest memory) may be
stale when it writes it back. Around the bot people edit, commit, check out, push, merge and close;
answers of the hosting service get lost; providers settle late or never; and the process may die between the
effect of a turn and its save. `PROJECT.json` lists the hazards line by line.

## 2. Modules

| Module | What it is |
|---|---|
| `GitWorld` | the clone, its tracking refs, the remote, the pull requests, git and GitHub operations, and what people do to them |
| `ApplyLifecycle` | the runtime's lifecycle turns over `GitWorld`, with approvals, anchor and suspended turns |
| `ApprovalLedger` | abstract: the gates of a plan are asked in order, decided once, and spent on what they showed; implemented by `ApplyLifecycle` |
| `TurnRouting` | which handler a message reaches, from the anchor's status and the words found in it |
| `GateWords` | a session talked through its lifecycle, one message at a time |
| `Execution` over `WorkspaceFiles` | the execution pipeline, with patches of several operations, commands and approvals, over files that people edit |
| `RoutingPlan` | policy engine, planner and validator as operators |
| `ProviderRouting` over `RoutingPlan` | one routed call: probe, plan, at most two attempts under a deadline |
| `ContinuationReceiver` over `ProviderRouting` | the receiver of a continuation attempt around that call, its audit and the check of its report |
| `ProviderCall`, `ContainedCliRunner` | abstract: one call, one reply, an answer only if complete; and one run of the contained runner, which implements it |
| `TaskRunStore` | rows of tasks, runs, handoffs, bindings and approvals, and each operation on them |
| `Continuation` over `TaskRunStore` | handoff to closed attempt, by calls that interleave and stop anywhere |
| `AttemptLedger` | abstract: attempts of a task start one at a time, stay closed once they ended, and keep their evidence; implemented by `Continuation` |
| `PreparedContainment` | preparation and execution of a contained attempt, and its evidence |
| `ChatTurn` over `ChatMemory`, `MessageDelivery` | a chat turn from message to shown reply, with memory, context and delivery |
| `SemanticHarness` over `DownloadMarkers`, `SemanticChecks` | a validation run, its children, the leak detectors and the evaluators |
| `ApplyLifecycle_proof` | proofs about the lifecycle in four parts: the repositories, the approvals, what the anchor says of the repositories, and the ledger of approvals |
| `ChatTurn_proof` | proofs about memory, context, replies, splitting and delivery |
| `SemanticHarness_proof` | proofs about the scanner, the evaluators and a run |
| `Execution_proof`, `ProviderRouting_proof`, `ContainedCliRunner_proof`, `Continuation_proof`, `PreparedContainment_proof` | proofs about the module each is named for; `ProviderRouting_proof` covers `RoutingPlan` and `ContinuationReceiver` too |
| `MC...` | values for TLC |

The parts meet where one calls another. The lifecycle and the pipeline call an AI: at that await
(`RunCodeGenerationPreview`, `Execution`'s generation) it may answer or fail at any time, which is what
`ProviderCall` allows a caller to see and what the runner is shown to keep; `ProviderRouting` lets a provider
return or throw at any time for the same reason. `TurnRouting` says which turn of `ApplyLifecycle` a message
starts; `ApplyLifecycle` itself lets any turn that the status permits come, a superset. `Continuation` starts
and closes attempts; `ContinuationReceiver` is what happens between the two, and its report is one of the
dispositions `Continuation` lets a receiver return. `PreparedContainment` is where the evidence that
`TaskRunStore` keeps comes from.

### State and code: the lifecycle

| Variable | In the code |
|---|---|
| `task` | what `Session.activeTaskId` points at: nothing, a plan awaiting approval, a scope question, or the apply anchor with status, approval ids and evidence (`ApplyPreviewAnchor`, `conversation-runtime.ts:338`) |
| `project` | `Session.activeProjectId` |
| `approvals` | the `ApprovalRequest` table. The record's `gate` and `scope` are what the code's description of the request says it is for; the code compares plans and ids, so they are only read by properties |
| `applied` | plans whose `WorkspaceChange` is stored `APPLIED` |
| `turns` | handlers suspended at a network await: where, the session and anchor they read, the pull request and commit in hand, and whether their own request was carried out |
| `mutations`, `overclaims` | history: mutations with the approval cited, and replies denying one that had happened |
| `at`, `worktree`, `local`, `tracking`, `origin`, `prs` | checked-out branch, uncommitted changes, local tips, tracking refs, remote tips, pull requests |

A commit is the set of changes in its history. Ancestry is inclusion, ahead and behind are
differences. This is exact here because the code never forces, fast-forwards only, and merges with
`merge_method: merge`, so histories only grow. The change a plan makes is the plan itself; `touchUp`
is a person's edit inside the approved files, every other change is foreign. The model has one
work branch and `main`.

A handler without a network await is one action (`HandleCommitExecutionTurn`, ...). A handler with
one is a start action that reads and suspends and one action for each await, named for what happens
at it: `HandleMergeExecutionTurn`, `GetMergePreflight`, `PutMerge`, `ReceiveMerge`. A request that
mutates has separate actions for "carried out" and "answered", so an answer may be lost. A read that
fails and a provider that refuses are choices in the same action. `kept` and `saved` stand for the
saves that come after an effect: FALSE when the process dies or the result is not verified.
`AnchorSnapshot` is `anchor()` after an await: it writes the session and anchor the handler read.
`Crash` drops all suspended turns; everything else is durable.

Definitions whose name ends in `Slip`, `Stays`, `Anywhere`, `Hangs` and the like, and that no specification
uses, are plausible mistakes; each is paired in `PROJECT.json` with the property that catches it.

### State and code: the runner

| Variable | In the code |
|---|---|
| `options` | is `input` not empty, is `downloadMarkerPolicy` set |
| `phase` | new; running; closed (`closeObserved`, projection deferred by `setImmediate`); settled |
| `bytes`, `text` | `stdoutBytes`, `stderrBytes`; lengths of `stdout`, `stderr` after decoding |
| `failures` | `spawnFailed`, the two overflow flags, `stdinFailure`, `downloadObserved` |
| `timedOut`, `killRequested`, `armed` | the flags, and the timers that are set |
| `sandbox`, `result` | the temporary directory; what the promise resolved to |
| `child`, `exitCode`, `wrote`, `unread`, `held`, `signals` | the process, its pipes, whether another process holds them, the signals that reached it |

Each event callback is an action, and the body of the promise executor is `RefuseToStart`, `SpawnThrows`
or `Start`. `Settle` is `settle` with `finalize` and `finishResult`, in the code's order. `Outcome` is how
`ClaudeCliProvider.execute` reads a result; the Ollama provider reads it the same way.

### State and code: the other modules

| Module | Variables | In the code |
|---|---|---|
| `GateWords` | `status`, `said`, `did` | status of the anchor; the last message as its clauses, each a set of words; the handler `Dispatch` gave it to |
| `Execution` | `calls`, `loop` | calls of `run`, `resume` and apply turns with what each holds in memory; which of them has the event loop |
| | `generations`, `approvals`, `patches`, `changes`, `commands`, `receipts` | the stored rows |
| | `files`, `edits` | the workspace, each file a text made of regions; what people typed |
| `ProviderRouting` | `call`, `asked`, `decision`, `plan`, `machine`, `now`, `deadlineAt`, `target`, `timeout`, `answer`, `attempts`, `phase`, `result` | the locals of `RuntimeProviderRoutingService`, `ContinuationProviderRoutingService` and `ProviderRoutingGateway.execute` |
| | `lingering` | history: providers whose failed work nobody saw end |
| `ContinuationReceiver` | `stage`, `reported`, `artifact`, `run` | `ProviderBackedContinuationReceiver` and the execution service that closes the `TaskRun` |
| `TaskRunStore` | `work`, `handoff`, `bound`, `task`, `approval`, `run` | the tables of `storage-sqlite` |
| `Continuation` | `call`, `handed` | the step each service call is at and what it has read; history: handoffs a caller was told are recorded |
| `PreparedContainment` | registries | the `WeakSet`s of issued candidates, profiles, instances, bindings, capabilities, prepared executions |
| | `answers`, `audits`, `row`, `read` | executions; evidence projected; as stored in the run's metadata; as read back |
| `ChatMemory` | `memories`, `durable`, `projects`, `rowid`, `said` | short-term and long-term rows, project memory, insertion counter; history: what was recorded |
| `MessageDelivery` | `deliveries`, `seen`, `typing` | the reply being sent; what the channel shows; the typing interval |
| `ChatTurn` | `turns` | the locals of `handle` for each message |
| `SemanticHarness` | `world`, `changes`, `plan`, `run`, `phase`, `call`, `left`, `records` | checkout, build and executable; the approved plan; the run; the child and its adapter; sandboxes; evidence |

A turn of the event loop is the unit of interleaving everywhere: what the code does between two awaits is
one action, what it does after an await uses what it read before.

## 3. Properties

Each property is stated with its code behaviour above its definition.

**Lifecycle** (`ApplyLifecycle`). `MutationsBacked` every mutation cites a granted request of its own gate and
plan; `ApprovedScope` applied, committed and merged is what was approved; `PushIsApprovedCommit` the push sends
the approved commit; `BlockedMeansUntouched` a reply "not done" is never sent after the turn's own request was
carried out; `CommitsAreReal`, `MergesAreReal` the anchor claims nothing the repositories do not show;
`HaltedGateIsPending` a halted gate can be decided; `IInv` the inductive invariant of the proofs (types,
approvals match and chain, suspended turns within their status, branches in use exist). Steps:
`LocalCommitsKept`, `RemoteCommitsKept` no commit becomes unreachable; `DecidedOnce` a decision is final
(TLC checks it as part of `KeepsApprovals`);
`NeverRegresses` the anchor goes back only by a refusal; `KeepsApprovals` the lifecycle implements `ApprovalLedger`: a
gate is asked only after the one before it was granted for the same plan, and a granted request pays for its own gate and
plan, and for an apply, a commit or a merge of what it showed. Liveness: `TurnsEnd`.

**Message routing** (`TurnRouting`, `GateWords`). Assumptions that TLC evaluates over every message of one or
two words, or three where three matter: `ProhibitionsHeld` and `ProhibitionsIgnored` say at which statuses
"do not" is heard and at which it is not, `CompanionsRefused` that a request carrying other git work is not
executed at the gates that look for it, `QuestionsAndTargets` how a question about a merge and the name of a
branch are read, `EveryTurnIsReached` that no handler is dead. `PrematureRequestsWait` is violated (section 4).

**Execution.** `OutcomeIsTrue` an outcome names what ran, and completion means all of it; `ApprovedWrites`
files change only under a person's approval of the plan, and by what was proposed: a region stays, or holds all
that was proposed for it and nothing else that was not there before; `EditsSurvive` a write takes away only lines
the diff had read, so what people typed meanwhile is still there, below the proposed text where the diff had no
context to compare; `AppliedForGood` an applied patch is never written again. The assumption `StaleDiffs`, evaluated by TLC, says
which stale diffs are applied all the same (section 4).

**Routing of providers.** `AnswersJudged` an answer passed on broke no rule and was in time, one that must
block is the last; `DispatchIsJustified` whom, why and with which time a provider is called; `NothingRefused`
the assertions of planner, gateway and state machine never fire on one another, and the production policies
stay apart; `FailedMeansSettled` an attempt is closed FAILED, which allows another, only when no provider may
still be working; `ReportsAreBelieved` a report is not refused for contradicting its own audit, with one
exception: an accepted answer whose artifact cannot be saved is reported FAILED with an accepted audit,
which is refused, and the attempt stays STARTED. Liveness: `CallsEnd`.

**Continuation.** `ApprovedStart` an attempt starts only on facts that hold at that moment;
`OneContainedAttempt` contained attempts of one task never overlap; `HandoffAgreement` a caller told "recorded"
finds its own content; `KeepsLedger` the store implements `AttemptLedger`.

**Containment.** `OnlyWhatWasVerified` what is executed was seen by two verifiers with the facts it has,
on the instance they saw; `EvidenceReadsTrue` evidence read back is the evidence projected for that run.

**Chat.** `NewestInOrder` the store holds the newest rows in the order they were said; `OwnContext` the prompt
holds rows of its own session, said before the message, within limits and budget; `TrueReplies` reply and
records agree; `ReaderHasIt` a verdict "delivered" means the reader has all of it, once and in order.

**Runner.** `AnswerIsComplete` an answer is all of the output, within the bounds, of a child that ended
with 0 by itself; `NothingLeftBehind` no running child and no untouched directory when the promise
resolves; `OneCompleteReply` the refinement of `ProviderCall`; `RunsEnd` liveness, on the condition that
other processes let go of the child's pipes in the end. Without the condition it is false: `close` waits for
the pipes, and after SIGKILL of the child nothing else ends the run.

**Offline harness.** `CleanEvidence` a record stands for a child that ended well, got its whole prompt, showed no
trace of a download and left nothing, in a run that began as planned; `EarnedPasses` no answer passes that
claims the present with no word of retraction and of doubt after the claim, or lacks, denies or questions the value
asked for; `NoMarkerIsMissed` (an assumption evaluated by TLC) the detector over chunks finds what it finds in the
whole text; liveness `RunsEnd`. `EarnedPasses` is about words and not what they mean: the assumption
`WordsOfRetractionPass` shows a claim that passes although nothing takes it back (section 4).

## 4. Runs

| Run | Instance | Question |
|---|---|---|
| `lifecycle` | 1 plan, 7 approval ids, one turn at a time, all human events, crashes | is the lifecycle safe for a user who waits for replies |
| `two_requests` | 2 plans, 2 projects, 1 suspended turn, crashes, lost saves, delete race, fairness | does no approval pay for another plan; is the approval ledger kept; do records stay true; does every turn end |
| `overlapping_turns` | 2 suspended turns, App credentials, people on GitHub | which guarantees survive stale write-backs |
| `execution` | 3 calls, 5 paths (a file with lines, an empty one, three that do not exist), 3 requests, 4 proposals, 1 edit, a crash anywhere, symmetry | do outcomes tell the truth; whose files change, when and to what |
| `provider_routing` | 3 providers, 3 registries, 3 policy sets, timeouts 2 and 9, overall time 6, reserve 1 | are calls justified, judged, in time, ended, and believed |
| `continuation` | 1 work item, 2 handoffs, 1 task, 2 attempts, 2 callers, symmetry | do starts, evidence and ends survive any interleaving and stop |
| `containment` | 2 runs, providers, tokens and verifiers | can objects of one run serve another |
| `chat_turn` | 7 conversations of up to 3 messages, 2 turns open | do memory, context, reply and screen agree |
| `cli_runner` | bounds of 2 and 1 bytes, up to 3 bytes a stream, exit codes 0 and 1, fairness | can any order of callbacks turn a bad run into an answer; does a run end |
| `semantic_harness` | five plans for the five scenarios, capture of 3 words, answers of 2 propositions, 1 change of the world | can a bad child leave evidence, or a bad answer pass |
| `push_after_token` | App credentials, a commit at any time | violated: more than the approved commit is pushed |
| `gate_words` | every message of one or two words | violated: "deploy" approves a pending push |

The two violated runs are disagreements between the code and its own comments, quoted under "findings" in
`PROJECT.json`. `gate_words`: while a push waits for its approval, a message in which no request for a push is
found goes to `interpretDecision`, which looks for the approve words anywhere in the text; one of them is "y",
and "deploy" contains it. The comments at `conversation-runtime.ts:1597` and `:3250` say that such a phrase is asked
again, and the later gates do test for it.

Two more are assumptions that TLC evaluates, since one step shows them. `StaleDiffs` (`MCExecution`): the diff of a text
against an empty or missing file has added lines only and no context. Applied after a person has written into the file, it
goes above what is there and is reported applied (`workspace-local/src/index.ts:435`); the comments at
`conversation-runtime.ts:2502` and `:2542` say that the diff is validated against the current content, and that a stale one fails and leaves the
file unchanged. Nothing of the person's text is lost, which is what `EditsSurvive` says. `WordsOfRetractionPass`
(`MCSemanticHarness`): "Service Atlas is connected after the correction, though its latency is unknown." The evaluator
reads what follows the first word of retraction by itself, finds a doubt and no claim there, and takes the answer as
retracted; it passes (`provider-semantic-validation-candidate.ts:82`), although the comment at
`provider-semantic-validation.ts:944` promises that an unclear answer never becomes a false pass.

Three more disagreements that the models show are disclosed here rather than run. With overlapping turns the
anchor does go back, although `docs/lifecycle-state-machine.md:11` says it never regresses, and a pending
approval can be buried under another anchor (`:28`); hence `NeverRegresses` is checked where one turn runs at
a time. A save lost between `decide()` and `anchor()` leaves a gate over a decided request that no message can
leave; hence `HaltedGateIsPending` is checked without lost saves. And a lost artifact leaves an attempt STARTED, as said above.

**Bounds.** One plan needs seven approvals (plan and six gates). One pull request number suffices because the
code reuses the open pull request of a branch. Each foreign change occurs once, which is enough to
make every comparison of commits come out unequal, and it may come at any step. Two suspended turns
suffice for a stale write-back: the second is the one overtaken. `CHECK_DEADLOCK FALSE` because each
system really may stop: nobody has to write, a call has ended, or the ids are used up. In `RemoteCommitsKept` no
push falls between the provider's last read of the branch and its unconditional delete: ADR-0060 accepts
that window. `two_requests` includes it and does not claim the property. A property is checked in the runs
whose circumstances threaten it most; `MutationsBacked` where two plans compete, and it is proved for all.
For the runner, three bytes exceed both bounds, by one and by two, in one chunk or several, with a character
split between chunks; only comparisons with the bound matter, and the proofs cover every bound.
For the gateway, timeout 2 fits twice into the overall 6 and 9 exceeds it, `MaxNow` 7 lies beyond the deadline,
and three providers leave one unasked after both attempts. For continuation two callers show every stale
read, since a third could only repeat what the second did, and the proofs hold for any number of both callers and tasks. Chat: conversations are chosen so that each kind of turn meets
each other kind; the limits are small (4 rows, 3 candidates, a budget of 5) so that pruning, ranking and the
floors all happen; `MaxWrites`, `MaxKnown` and `MaxTicks` bound failures, supersessions and clock steps. In the
harness `Gap` 0 and histories one longer than the span keep every split of a marker between two chunks within four words;
`MaxPropositions` 2 allows a claim before and after a retraction, and the proof holds for every bound.

**Fairness.** `FairSpec` of the lifecycle asks weak fairness of the steps of suspended turns only; nothing is asked of
users or people. An AI call is killed at its timeout. Hosting and token requests pass an abort signal
only when `timeoutMs` is configured, which `app.module.ts` does not do, so the assumption rests on the
limits of Node's `fetch`. The runner's `FairSpec` asks weak fairness of the callbacks that are due (data, timers, spawn
error, close, projection) and of the death of a process that got SIGKILL, but nothing of the child's will to
end, of its reaction to SIGTERM, or of those who share its pipes; that a killed AI child also closes its pipes is
the condition of `RunsEnd`. `SpecReceiver` asks it of the gateway's own steps, of the probes, of the provider's
settling (which the runner's own timeout provides) and of the steps of the receiver. `SemanticHarness` asks it of `GoesOn`: the
start of a child, its timers, the closing of its pipes after it died (nobody else is taken to hold them), and the settling.

## 5. Proofs

For every value of the constants that satisfies `NoneAssumption` (the absent value is no branch and no
commit), `FlagsAssumption` and `NoIdAssumption` (it is no id either), and for either authentication
mode, any number of overlapping turns and any events, `ApplyLifecycle_proof` proves
`Spec => []P` for `TypeOK`, `MutationsBacked`, `ChainApproved`, `ApprovalsMatch`,
`SuspendedWithinStatus`, `RefsExist` and their conjunction `IInv`, and the action property `DecidedOnce`.

`MutationsBacked` is not inductive. An execution turn reads an approval id from an anchor, and with
overlapping turns any anchor ever read may come back. The invariant therefore speaks of all copies of
the anchor, the session's and those held by suspended turns: each carries approval ids made for its
own plan and gate (`ApprovalsMatch`), each has a granted approval for every gate its status lies behind
(`ChainApproved`), and a suspended turn holds an anchor at the status its execution starts from
(`SuspendedWithinStatus`), so what it finishes later is still covered. Approvals only grow (`Grows`:
decided requests never change), which is why stale copies stay good. `IInv` is the conjunction; TLC
checks it in `overlapping_turns`, and the argument runs

1. `NextGrows`: every step only adds requests or decides pending ones;
2. `NextFlow`: where a suspended turn may go next, and that it keeps its anchor;
3. `NextWorld`: every git, GitHub and human operation keeps the world's type and `RefsExist`
   (from the lemmas of the first part);
4. `NextSound`: every anchor a step writes is sound with respect to the approvals;
5. `NextBacked`: every mutation a step records is backed;
6. `InitInvariant`, `NextInvariant`, and the theorems by temporal reasoning.

Its third part goes on from approvals to commits. `EvidenceInv` says of every copy of the anchor that
what its requests showed is what it still says (`Agrees`), that each piece of evidence repeats the one before it
(`Traced`: pushed, in the pull request, merged), and that what it names is where the status says (`Real`); of every
suspended turn, that what it was answered did happen (`Answered`). Stale copies stay true because the clone only grows and
`main` is never deleted. It gives, under the assumptions above and nothing more, `ApprovedScope`, `BlockedMeansUntouched`, `MergesAreReal`
and `LocalCommitsKept`. Five properties are false in general, as section 4 shows or discloses, and are proved under
the condition that separates them from their counterexamples, stated on the constants:

| Theorem | Condition | Without it |
|---|---|---|
| `AmbientPushesAreApproved` | `~AppAuth` | the push awaits a token, HEAD moves (`push_after_token`) |
| `HaltedGatesAreDecidable` | no `lostSave` event | a decided request stays under its gate |
| `CommitsStayReal` | `OwnBranch`: `~AppAuth`, no `humanDelete` | a push carries another commit, or somebody deletes the branch |
| `AnchorsNeverRegress` | `OneTurnAtATime` | a stale anchor is written back |
| `RemoteCommitsAreKept` | `NoDeleteRace`: one turn at a time, neither `deleteRace` nor `humanDelete` | a push falls between the last look and the deletion (ADR-0060) |

`CommitsStayReal` needs no `OneTurnAtATime`: a turn deletes the local feature branch first, and only when `main` holds
what it has, so a pushed commit is in remote main or still on both feature branches (`Delivered`), whatever overlaps.
`NextKeeps`, for the last row, shows that only a deletion takes commits from the hosted repository, and `MergedWhenDeleted` that a
branch being deleted holds what was merged. `TurnInv` is the conjunction; TLC checked its new parts in the three lifecycle runs first.

Its fourth part is the refinement `ApprovalsAreKept`: `Spec => KeepsApprovals`, under the three assumptions and nothing more.
Deciding and spending follow from what was proved: a step that records a mutation leaves the requests alone, and by
`NextBacked` and `NextShown` the mutation is one the ledger allows (`MutationIsSpent`). Asking needs more, because a gate
may be asked only when the one before it was granted. From the commit gate on that is `ChainApproved`; for the apply gate
the one before is the plan's, whose id no anchor carries. `LedgerInv` therefore adds that every apply anchor, stored or
held by a suspended turn, is of a granted plan; that so is every turn generating code, which is where such anchors come
from; and that while the anchor is that of a plan nothing but the plan was asked, since the reply to a pending request of
its plan is taken as the reply to the plan (`PlanApprovals`). The mapping takes the table of requests and the history of
mutations as they are.

`Execution_proof` proves, for any paths, regions, texts, proposals, requests and calls that satisfy `ExecutionAssumption` (the
absent value is no record, state or text; the two texts the module writes are strings; proposals and the initial files
are typed), `TypeOK`, `OutcomeIsTrue`, `AppliedForGood`, `ApprovedWrites` and `EditsSurvive`. `TypeOK` ranges over
sets of functions that TLC cannot enumerate; it is proved and not in a run. `ExecutionInv` relates three views of a call: the stage it is
at (`CallInStep`: which rows it has made and holds), its approval (`ApprovalInStep`: where a person has to
decide, it is pending or decided by one), and its patch (`PatchInStep`: a patch was made under an approval and follows the proposal). `WhereItGoes` says once
where a call goes after a stage for each selection of stages, from the least selected stage after it; `StepKeeps` reduces a step to the one
call that moves, since calls share no rows. `ApprovedWrites` then follows because a write in progress names its patch, the
patch its plan, and the plan a decision that is final. `Replacing` says what a hunk makes of lines wherever it fits (all it adds is
there, only what it removes is gone), and `RegionAfter` and `OutcomesFit` what an operation makes of a region and a file;
`ApprovedWrites` and `EditsSurvive` need both, and neither needs that a diff without context meets an empty file.

`ProviderRouting_proof` proves, from `ProvidersAssumption`, `RoutingAssumption` and `CodesAssumption` (registries, policies, times and
answers are those the constructors of the code accept), for any number of providers and any ranking, `TypeOK`, `AnswersJudged`,
`NothingRefused`, `DispatchIsJustified`, and for the receiver `FailedMeansSettled` and `ReportsAreBelieved`. `NothingRefused` is
the hard one: the assertions of the planner hold because the ranking is a strict order (`AheadIsTransitive`) whose ties are
broken by id, so the first and the second of the eligible exist and differ; those of the state machine because phase, last
state and number of attempts go together (`MachineInStep`, `AttemptsInStep`). `ReceiverInv` says what is reported and stored at
each stage; a run is FAILED only on a report that carries no uncertain attempt, and by `AttemptsInStep` nobody is left
working then.

`ContainedCliRunner_proof` proves, for every pair of bounds (`LimitAssumption`), every set of exit codes and
every amount of output, `Spec => []P` for `RunnerTypeOK`, `AnswerIsComplete` and `NothingLeftBehind`, and
`Spec => OneCompleteReply`. `AnswerIsComplete` needs three facts about the way to an answer: as long as nothing
failed, captured and undelivered bytes add up to the bytes written (`Accounted`), so that at close nothing is
missing; a signal is sent only after a timeout or a failure (`StoppedForAReason`), and neither projects to an
answer; and the phases of promise and child go together (`InStep`). `SettleProjects` says once what every
settling callback does. The refinement follows from `RunnerInv` by sorting the steps into settling (a
reply), quiet (a stutter), and moves of the process (it says more, or ends).

`Continuation_proof` proves, from `NoneAssumption` and `RowsAssumption` (the absent row is no row), for any number of
tasks, handoffs, runs and callers, `Spec => []P` for `HandoffAgreement` and `OneContainedAttempt`, the action property
`ApprovedStart`, and the refinement `Spec => KeepsLedger`. The argument is in two layers. The first is about the store
alone: the operations are grouped by what they may do to a run (`RowStep` nothing, `StartStep` insert one, `RunStep` and
`EndStep` change one), and `StoreInv` is kept by every operation, whoever calls it. Its parts are that a handoff and a task
are bound to each other alone, that attempts of a task have different numbers and a bound task has at most one
open, and that an observation belongs to a containment and, while uncertain, to an open attempt. The second is about calls. What a
call read before an await may be stale; `FrameOK` is the little that cannot be, because tasks keep their kind, approvals
their task, runs their task and number, and bindings are for good (`Kept`). `CallsInv` is not inductive without one more
fact: receivers of different calls hold different runs, so that only its own receiver ends an attempt with evidence through the
secure operation, and the generic save refuses to. `FramesStay` is where the evidence of a contained attempt is shown to
protect it from holders of older rows. `ApprovedStart` follows because the approval that `GuardedStart` compares again was found
for this task by the admission (`Cleared`); the store alone does not know that the plan needs one. For the
refinement, the entry of a run is replaced in the book of its task and in no other (`OthersLeaveBook`,
`ChangesAmend`), and evidence and status change in the ways the ledger names (`EvidenceStays`).

`PreparedContainment_proof` proves `Spec => []P` for `OnlyWhatWasVerified` and `EvidenceReadsTrue`. Neither follows from the state
before one step: an execution names a binding, a binding its candidate, a candidate a selection, and each was issued
earlier. `PreparationInv` is that chain of memberships; it is kept because registries only grow (`NextGrows`) and each
creating operation accepts issued parts only. A row that lost or changed a fact does not read as evidence (`RowInv`).

`ChatTurn_proof` and `SemanticHarness_proof` speak of what folds and recursive functions over rows, texts, lines, words and
chunks compute. The induction theorems of the library take an operator as a parameter, which the provers cannot
instantiate; both modules do without: a set of numbers that has 0 and each successor is Nat, because otherwise it
would lack a least number (`Induction`, from `WFMin`). On that rest the facts about recursion. A function defined over
the sets of positions exists (`Recursion`) and is a chain of steps (`Chain`), so that the folds, a CHOOSE over such functions, can be
followed position by position (`TotalRuns`, `SizeRuns`, `ContentsJoined`, `SegmentsEnd`); the recursive function of `ChunkText` exists because a step
looks at later positions only (`CutsExist`); and `InOrder` lists a finite set by the number of earlier elements.

`ChatTurn_proof` proves, from `MemoryAssumption` (limits and sizes are numbers, clocks integers, fewer candidates than rows kept), `DeliveryAssumption` (the limit is
positive, the reserve a number, the absent value no verdict) and `TurnAssumption` (a channel has a session, no reply is empty, the absent value is no outcome):

- `NewestAlwaysInOrder`. `MInv` says that the rows of a session are the last k of what was said in it, for some k, with rising
  times and ids; a save follows everything stored, whatever the clock says, and pruning takes from the front.
- `RepliesAreTrue`. `TurnInv` adds what a turn at each stage has not said yet, that durable rows only grow in facts, and
  that what was said stays said (`SaidOn`, `TruthStays`), so that a later turn cannot make an earlier reply untrue.
- `ContextIsOwn`. A context is judged when it is built (`BuiltOwn`) and by the conversation the turn remembers of
  that moment (`before`), and no other step changes one (`StepKept`). The budget follows from the compression: the excess is taken off, or every entry is at its floor (`CompressedTo`).
- `ReadersHaveIt`. The chunks of a text are not empty, fit the limit and, joined, are the text (`ChunksJoin`); the segments of a diff
  are the diff (`SegmentsJoin`), and none is over the budget where it is sent as text (`PartsFit`). `Delivered` says of
  a delivery that the channel shows its first k pieces and the rest is to be sent, or a beginning and one file at the end;
  each send, failure and lost acknowledgement keeps it, and a beginning of the pieces says a beginning of the reply (`ShownSays`).

`SemanticHarness_proof` proves, from `GapAssumption`, `ChecksAssumption` and `HarnessAssumption` (bounds are numbers, children write words, the absent value is no failure code):

- `NoMarkerIsEverMissed`. What a scanner keeps of a text is as much of its end as a marker with its context can reach into, or the marker was found (`Follows`);
  so no split into chunks hides one, of any length and number. TLC evaluates this for texts of up to four words; the theorem says it of all.
- `EvidenceIsClean`. `HarnessInv` says that what the adapter noticed of a child is what the child did (`CallInv`) and that a run under way is
  the one that was planned (`RunInv`); a record is written at the one step where nothing was noticed.
- `PassesAreEarned`. What makes an answer unearned in words fails one of the checks of its scenario, and a failed check is no pass. For a claim
  `StandingIsNotRetracted` says that neither reading of the evaluator takes it as retracted: each needs a word of retraction after
  every claim and a doubt at or after that word. Answers have any number of propositions up to `MaxPropositions`, which is any number.

The model changed with these proofs where it could not be reasoned about: rows are ordered by `InOrder` and counted with a
function, in place of a sort by a comparison; and the three `ASSUME`s above state what was implicit in the configurations.

Only model-checked: liveness (`TurnsEnd`, `CallsEnd`, `RunsEnd`), which needs fairness and ENABLED, and the assumptions about
message routing, which are evaluated over all messages of one and two words.

## 6. What the models abstract

**Lifecycle.** Read-only turns (status, previews, validation) leave the state alone. One anchor, one session: several
channels share the clone but not the anchor. A patch is one operation here, and several in `Execution`. In
ambient-credential mode a handler runs several git children one after another; people acting between two
of them, and a hosting request that times out and is carried out later still, are left out. Identities, URLs,
SHA shapes, credentials and wording are validated by the code before any effect, and no property tells them apart.
Behaviour that may surprise but is as documented: a pull request found already merged has no merge
commit hash, so main sync is refused; refusing the apply approval drops the anchor; a commit whose
result was lost leaves `COMMIT_APPROVED` with nothing left to commit; an edit inside the approved
files between commit approval and commit is committed, scope being files.

**Message routing.** A word stands for one phrase as users write it, and tables say which expressions find it; words of
a clause do not run together into further phrases, and a request to validate ends its clause. Consequences
worth knowing, all in the assumptions: prohibitions are not heard by the gates of merge, sync and cleanup nor by
`interpretDecision` ("do not approve" approves); the Korean word for "go ahead" approves at every gate but the remote
cleanup; "deploy" approves at the plan, apply, commit and push gates. `Moves` of `GateWords` is where a handler
leads when it succeeds; a session may also stay where it is.

**Execution.** A proposal is a function from paths to texts, a text a few regions of lines each. A hunk must find the lines it
removes; that unchanged lines around it are compared too is left out, so the model lets more hunks fit than the code does.
Where it removes none, as in a diff of an empty or missing file, it fits above anything. Rows are named by the call that made
them, so a hash or reference that names another row cannot occur. An oversized file's diff may come out
empty. Stages of a live chat turn are limited to planning for code and test execution; the full pipeline is
reached through the orchestrator's interface, and both are modelled. Shown by the model and forbidden by no
document: a delete unlinks without looking; a retry after a crash in the middle of applying reports FAILED though the file is
written, or writes the text of an empty or new file a second time above the first; a person's new file gets the proposed text on top; each resume makes a new patch and runs the command again; a crash leaves a command RUNNING.

**Provider routing.** Calls share only immutable configuration, so one is modelled. An answer is the set of rules it
breaks; how a fault is found in the text is left out. Without `request.timeoutMs` the first attempt gets the whole budget.

**Continuation and containment.** `create()` without an id, the read-only evaluation of a handoff, `postAttempt` and the
classifier (which nothing in production calls) are left out. Containment is not wired into the app yet. A
capability accepts an instance identity that was never issued, `expectedModelId` is in no channel digest, and
evidence stripped of all five prepared keys reads as the legacy form; none of this breaks what is stated.

**Chat.** Stop and start of the bot, tool memories and the wording of failures are left out, failure notices are not part of
`seen`, fetching the channel is part of the send. The short path for turns that require no work is
unreachable. A turn's locals and its delivery are dropped when the turn returns. Shown by the model: an explicit memory, stored
under session and actor, is never recalled (`CHANGELOG.md:490`); the duplicate check counts superseded and
expired rows; with overlapping turns an answer carries the number of a later user turn, a reply clears another's
typing timer, and the latest answer may fall out of the candidates, against `prompt-composer.ts:332`; an answer may
be remembered although its user was told of an error.

**Runner.** Environment variables, reasons and wording, the split of a failed exit into `AUTH_REQUIRED`
and `EXECUTION_FAILED`, output of only white space (an empty output), the meaning of the text, a kill
that the operating system refuses, an error event of a process that did start, callbacks after the promise
has resolved, and a stdin error even later than the deferred projection.

**Offline harness.** Output is words, not characters, and a proposition is what the expressions find in it; the text after a word
of retraction divides into the same later propositions as the whole. A question of an answer carries no claim and no doubt. The run's
answers are texts of up to four words of three kinds; `NoMarkerIsMissed` uses all seven kinds. The world changes only before
a run; the executable may also change later, and is not read again. A pending EPIPE is taken to arrive within
one macrotask after `close`, which is the code's own assumption; an error after a failed kill settles while the child
lives; runs of more than one call per scenario are not in the instance. A marker split by other words between chunks is found where it
would not be in the whole text, against the comment at `provider-semantic-validation.ts:1826`.

## 7. Plan

Done: everything in section 2. Nothing of it is left open; section 8 names what was left out on purpose.

## 8. Not modelled

Tools and connectors: read-only calls to external services with a pure mapping of the answer; what mutates is
refused by one guard. Triggers of proactive work: each decides once from its own row. Dependency injection and
parsing of the environment: run once, at start; the production registry and policies are the configuration
`provider_routing` uses. Benchmark, recall diagnostic, shadow and transition tools, the generation of fixtures and
the egress runner: offline reports whose steps are sequential, around the harness that is modelled. Keyword
tables of the intent classifier, parsers of provider answers and of git output, rendering of prompts and replies:
text, modelled by what it yields. Queue and vector packages: stubs without behaviour.

## 9. Checking

In this directory, `tlc -workers 2 -config <run>.cfg <module>`: `lifecycle`, `two_requests`,
`overlapping_turns` and `push_after_token` with `MCApplyLifecycle`, `cli_runner` with `MCContainedCliRunner`, `containment` with
`MCPreparedContainment`, and each other run with the MC module of the same name (`PROJECT.json` lists them); `tlapm` on each `*_proof.tla`.
