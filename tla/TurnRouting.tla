----------------------------- MODULE TurnRouting ----------------------------
(***************************************************************************)
(* What a message means to the runtime: which handler handle() gives it    *)
(* to, from the status of the session's anchor and the words found in it.  *)
(*                                                                         *)
(* A message is its clauses, each a set of words and whether it carries a  *)
(* prohibition. A word stands for one phrase as users write it, most of    *)
(* them Korean; the tables say which patterns find it. Words of a clause   *)
(* do not run together into further phrases.                               *)
(***************************************************************************)
EXTENDS Integers, Sequences, FiniteSetsExt

CONSTANT None

Finds ==
    [approve |-> {"approve", "go", "deploy", "typecheck"},   \* deplo-y, t-y-pecheck
     deny |-> {"refuse"},
     cancel |-> {"cancel"},
     apply |-> {"apply", "apply patch"},
     patch |-> {"make patch"},
     finalApply |-> {"apply patch"},
     commitToken |-> {"commit", "do commit", "run commit"},
     commit |-> {"do commit"},
     commitExecution |-> {"run commit"},
     gitOther |-> {"push", "run push", "branch", "merge"},
     gitMutating |-> {"do commit", "push", "run push", "merge"},
     gitDiff |-> {"diff"},
     push |-> {"push", "run push"},
     pushExecution |-> {"run push"},
     pushOther |-> {"force", "deploy", "ship", "branch", "pr", "open pr", "merge"},
     pr |-> {"pr", "open pr"},
     prCreation |-> {"open pr"},
     prOther |-> {"force", "deploy", "ship", "merge"},
     deploy |-> {"deploy", "ship"},
     prCreatedOther |-> {"deploy", "ship", "merge", "reviewer"},
     prNoun |-> {"pr", "open pr", "reviewer", "typecheck"},
     query |-> {"check"},
     merge |-> {"merge"},
     mergeRequest |-> {"approve", "do", "do commit", "test", "typecheck"},
     mergeExecution |-> {"do", "now", "do commit", "run commit", "run push", "test", "typecheck"},
     sync |-> {"sync"},
     main |-> {"main", "delete main"},
     delete |-> {"delete", "delete main"},
     branch |-> {"branch"},
     remote |-> {"remote"},
     bulk |-> {"all"},
     mainTarget |-> {"delete main"},
     execute |-> {"go", "now", "run commit", "run push", "test"},
     test |-> {"test"},
     typecheck |-> {"typecheck"},
     denied |-> {"rm"}]

Vocabulary == UNION {Finds[p] : p \in DOMAIN Finds}

Says(m, p) == \E i \in DOMAIN m : m[i].words \cap Finds[p] # {}
(* unnegatedMatch(): found in a clause without a prohibition.              *)
Asks(m, p) == \E i \in DOMAIN m : ~m[i].negated /\ m[i].words \cap Finds[p] # {}

-----------------------------------------------------------------------------
(* The interpretations. Those of commit, push, pull request, patch and     *)
(* apply heed a prohibition; those of merge, sync and cleanup do not.      *)

Decision(m) ==
    IF Says(m, "cancel") THEN "cancel"
    ELSE IF Says(m, "approve") /\ ~Says(m, "deny") THEN "approve"
    ELSE IF Says(m, "deny") /\ ~Says(m, "approve") THEN "deny" ELSE "ambiguous"

Validation(m) ==
    IF Says(m, "denied") /\ (Asks(m, "test") \/ Asks(m, "typecheck")) THEN "unsupported"
    ELSE IF Asks(m, "test") /\ Asks(m, "typecheck") THEN "ambiguous"
    ELSE IF Asks(m, "test") \/ Asks(m, "typecheck") THEN "run" ELSE None

GitPreview(m) ==
    IF Says(m, "gitMutating") THEN "unsupported" ELSE IF Says(m, "gitDiff") THEN "preview" ELSE None

Commit(m) ==
    IF Asks(m, "commitToken") /\ Asks(m, "gitOther") THEN "unsupported"
    ELSE IF Asks(m, "commit") THEN "request" ELSE None

CommitExecution(m) ==
    IF Asks(m, "gitOther") THEN "unsupported" ELSE IF Asks(m, "commitExecution") THEN "execute" ELSE None

Push(m) ==
    IF ~Asks(m, "push") THEN None ELSE IF Asks(m, "pushOther") THEN "unsupported" ELSE "request"

PushExecution(m) ==
    IF ~Asks(m, "push") THEN None
    ELSE IF Asks(m, "pushOther") THEN "unsupported"
    ELSE IF Asks(m, "pushExecution") THEN "execute" ELSE None

Pr(m) ==
    IF ~Asks(m, "pr") THEN None
    ELSE IF Asks(m, "prOther") THEN "unsupported" ELSE IF Asks(m, "prCreation") THEN "create" ELSE None

PrStatus(m) == Says(m, "prNoun") /\ Says(m, "query")
MergeStatus(m) == Says(m, "merge") /\ Says(m, "query")
MergeAsked(m) == Says(m, "merge") /\ ~Says(m, "query") /\ Says(m, "mergeRequest")
MergeExecuted(m) == Says(m, "merge") /\ ~Says(m, "query") /\ Says(m, "mergeExecution")
MainSync(m) == Says(m, "sync") /\ Says(m, "main")
TooMuch(m) == Says(m, "bulk") \/ Says(m, "mainTarget")
RemoteCleanup(m) ==
    ~TooMuch(m) /\ Says(m, "delete") /\ Says(m, "branch") /\ Says(m, "remote")
RemoteExecution(m) == ~TooMuch(m) /\ Says(m, "execute")
BranchCleanup(m) ==
    ~TooMuch(m) /\ ~Says(m, "remote") /\ Says(m, "delete") /\ Says(m, "branch")

-----------------------------------------------------------------------------
(* handle(): the pending gates, and then rules tried in order. A handler   *)
(* is named for what it does: a request for approval, an execution, or a   *)
(* reply that changes nothing.                                             *)
First(rules) == LET i == Min({j \in DOMAIN rules : rules[j][1]}) IN rules[i][2]

(* A premature command does not decide the gate it is waiting for.         *)
Premature(status, m) ==
    CASE status = "PUSH_APPROVAL_PENDING" -> PushExecution(m) # None
      [] status = "PR_APPROVAL_PENDING" -> Pr(m) # None \/ Says(m, "deploy")
      [] status = "MERGE_APPROVAL_PENDING" -> MergeAsked(m) \/ PrStatus(m) \/ Says(m, "deploy")
      [] status = "REMOTE_BRANCH_CLEANUP_PENDING" ->
            RemoteCleanup(m) \/ RemoteExecution(m) \/ PrStatus(m) \/ Says(m, "deploy")
      [] OTHER -> FALSE

Decided(status, m) == IF Premature(status, m) THEN "ambiguous" ELSE Decision(m)

PendingStatuses ==
    {"AWAITING_APPROVAL", "COMMIT_APPROVAL_PENDING", "PUSH_APPROVAL_PENDING",
     "PR_APPROVAL_PENDING", "MERGE_APPROVAL_PENDING", "REMOTE_BRANCH_CLEANUP_PENDING"}

(* What every status after the pull request is merged has in common.       *)
AfterMerge(m) ==
    << <<PrStatus(m) \/ MergeStatus(m), "preview">>, <<Says(m, "merge"), "already">>,
       <<Says(m, "prCreatedOther"), "unsupported">> >>

BeforeMerge(status, m) ==
    CASE status = "COMMIT_APPROVED" ->
            << <<CommitExecution(m) = "unsupported", "unsupported">>,
               <<CommitExecution(m) = "execute", "commitExecution">> >>
      [] status = "GIT_COMMITTED" ->
            << <<Push(m) = "unsupported", "unsupported">>, <<Push(m) = "request", "pushRequest">>,
               <<CommitExecution(m) = "unsupported", "unsupported">>,
               <<CommitExecution(m) = "execute", "already">> >>
      [] status = "PUSH_APPROVED" ->
            << <<PushExecution(m) = "unsupported", "unsupported">>,
               <<PushExecution(m) = "execute", "pushExecution">>,
               <<Push(m) = "request", "already">> >>
      [] status = "GIT_PUSHED" ->
            << <<PushExecution(m) = "unsupported", "unsupported">>,
               <<PushExecution(m) = "execute", "already">>,
               <<Pr(m) = "unsupported", "unsupported">>, <<Pr(m) = "create", "prRequest">>,
               <<Says(m, "deploy"), "unsupported">>, <<Push(m) = "request", "already">> >>
      [] status = "PR_APPROVED" ->
            << <<Pr(m) = "unsupported", "unsupported">>, <<Pr(m) = "create", "prExecution">>,
               <<Says(m, "deploy"), "unsupported">> >>
      [] status = "PR_CREATED" ->
            << <<PrStatus(m), "preview">>, <<MergeAsked(m), "mergeRequest">>,
               <<Pr(m) = "create", "already">>,
               <<Pr(m) = "unsupported" \/ Says(m, "prCreatedOther"), "unsupported">> >>
      [] status = "MERGE_APPROVED" ->
            << <<PrStatus(m) \/ MergeStatus(m), "preview">>, <<MergeExecuted(m), "mergeExecution">>,
               <<Says(m, "merge"), "already">>, <<Says(m, "prCreatedOther"), "unsupported">> >>
      [] OTHER -> <<>>

Merged(status, m) ==
    CASE status = "PR_MERGED" -> << <<MainSync(m), "mainSync">> >> \o AfterMerge(m)
      [] status = "MAIN_SYNCED" ->
            << <<RemoteCleanup(m), "unsupported">>, <<BranchCleanup(m), "branchCleanup">>,
               <<MainSync(m), "already">> >> \o AfterMerge(m)
      [] status = "BRANCH_CLEANED" ->
            << <<RemoteCleanup(m), "remoteRequest">>, <<BranchCleanup(m), "already">>,
               <<MainSync(m), "already">> >> \o AfterMerge(m)
      [] status = "REMOTE_BRANCH_CLEANUP_APPROVED" ->
            << <<RemoteExecution(m), "remoteExecution">>, <<RemoteCleanup(m), "already">> >> \o AfterMerge(m)
      [] status = "REMOTE_BRANCH_CLEANED" ->
            << <<RemoteExecution(m) \/ RemoteCleanup(m), "already">>, <<BranchCleanup(m), "already">>,
               <<MainSync(m), "already">> >> \o AfterMerge(m)
      [] OTHER -> <<>>

(* The follow-ups of an applied patch: validation, commit, git preview.    *)
Applied(status, m) ==
    IF status # "WORKSPACE_APPLIED" THEN <<>>
    ELSE << <<Validation(m) = "run", "validation">>, <<Validation(m) # None, "unsupported">>,
            <<Commit(m) = "request", "commitRequest">>, <<Commit(m) # None, "unsupported">>,
            <<GitPreview(m) # None, GitPreview(m)>> >>

At(status, statuses, then) == IF status \in statuses THEN then ELSE "unavailable"

(* Commands that no rule of the status took never become ordinary chat.    *)
Anywhere(status, m) ==
    << <<Commit(m) # None, At(status, {"COMMIT_APPROVED"}, "already")>>,
       <<Asks(m, "finalApply"), IF status = "PATCH_READY" THEN "workspaceApply"
                                ELSE At(status, {"WORKSPACE_APPLIED"}, "already")>>,
       <<Asks(m, "patch"), IF status = "APPROVED" THEN "patch"
                           ELSE At(status, {"PATCH_READY", "WORKSPACE_APPLIED"}, "already")>>,
       <<Asks(m, "apply"), IF status = "ELIGIBLE" THEN "applyRequest"
                           ELSE At(status, {"APPROVED", "PATCH_READY", "WORKSPACE_APPLIED"}, "already")>>,
       <<TRUE, "chat">> >>

StrayExecution(status, m) ==
    << <<status \notin {"COMMIT_APPROVED", "GIT_COMMITTED"} /\ CommitExecution(m) = "execute", "unavailable">> >>

Dispatch(status, m) ==
    IF status \in PendingStatuses THEN Decided(status, m)
    ELSE IF Validation(m) = "unsupported" THEN "unsupported"
    ELSE First(BeforeMerge(status, m) \o Merged(status, m) \o StrayExecution(status, m) \o Applied(status, m) \o Anywhere(status, m))
=============================================================================
