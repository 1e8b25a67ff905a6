------------------------------ MODULE GateWords -----------------------------
(***************************************************************************)
(* A user talks the session through its lifecycle: each message goes where *)
(* Dispatch sends it, and what it starts may succeed or fail.              *)
(***************************************************************************)
EXTENDS TurnRouting

CONSTANTS Messages

VARIABLES
    status,   \* of the session's anchor, None without one
    said,     \* the last message
    did       \* what the runtime made of it, and at which status

vars == <<status, said, did>>

(* From, the handler, and where it leads when it succeeds.                 *)
Moves ==
    {<<"ELIGIBLE", "applyRequest", "AWAITING_APPROVAL">>,
     <<"AWAITING_APPROVAL", "approve", "APPROVED">>,
     <<"AWAITING_APPROVAL", "deny", None>>,
     <<"APPROVED", "patch", "PATCH_READY">>,
     <<"PATCH_READY", "workspaceApply", "WORKSPACE_APPLIED">>,
     <<"WORKSPACE_APPLIED", "commitRequest", "COMMIT_APPROVAL_PENDING">>,
     <<"COMMIT_APPROVAL_PENDING", "approve", "COMMIT_APPROVED">>,
     <<"COMMIT_APPROVAL_PENDING", "deny", "WORKSPACE_APPLIED">>,
     <<"COMMIT_APPROVED", "commitExecution", "GIT_COMMITTED">>,
     <<"GIT_COMMITTED", "pushRequest", "PUSH_APPROVAL_PENDING">>,
     <<"PUSH_APPROVAL_PENDING", "approve", "PUSH_APPROVED">>,
     <<"PUSH_APPROVAL_PENDING", "deny", "GIT_COMMITTED">>,
     <<"PUSH_APPROVED", "pushExecution", "GIT_PUSHED">>,
     <<"GIT_PUSHED", "prRequest", "PR_APPROVAL_PENDING">>,
     <<"PR_APPROVAL_PENDING", "approve", "PR_APPROVED">>,
     <<"PR_APPROVAL_PENDING", "deny", "GIT_PUSHED">>,
     <<"PR_APPROVED", "prExecution", "PR_CREATED">>,
     <<"PR_CREATED", "mergeRequest", "MERGE_APPROVAL_PENDING">>,
     <<"MERGE_APPROVAL_PENDING", "approve", "MERGE_APPROVED">>,
     <<"MERGE_APPROVAL_PENDING", "deny", "PR_CREATED">>,
     <<"MERGE_APPROVED", "mergeExecution", "PR_MERGED">>,
     <<"PR_MERGED", "mainSync", "MAIN_SYNCED">>,
     <<"MAIN_SYNCED", "branchCleanup", "BRANCH_CLEANED">>,
     <<"BRANCH_CLEANED", "remoteRequest", "REMOTE_BRANCH_CLEANUP_PENDING">>,
     <<"REMOTE_BRANCH_CLEANUP_PENDING", "approve", "REMOTE_BRANCH_CLEANUP_APPROVED">>,
     <<"REMOTE_BRANCH_CLEANUP_PENDING", "deny", "BRANCH_CLEANED">>,
     <<"REMOTE_BRANCH_CLEANUP_APPROVED", "remoteExecution", "REMOTE_BRANCH_CLEANED">>}

(* Cancelling a gate is denying it. What was asked may be refused or fail, *)
(* and then the status stays.                                              *)
Outcome(handler) == IF handler = "cancel" THEN "deny" ELSE handler
Leads(handler) == {status} \cup {move[3] : move \in {n \in Moves : n[1] = status /\ n[2] = Outcome(handler)}}

Init ==
    /\ status = "ELIGIBLE"
    /\ said = <<>>
    /\ did = [at |-> status, handler |-> "chat"]

Turn(m) ==
    /\ said' = m
    /\ did' = [at |-> status, handler |-> Dispatch(status, m)]
    /\ status' \in Leads(did'.handler)

Next == \E m \in Messages : Turn(m)

Spec == Init /\ [][Next]_vars

-----------------------------------------------------------------------------
(* While a push waits for its approval, a message that speaks of a push,   *)
(* of forcing it or of a deployment is asked again and never decides it.   *)
PrematureRequestsWait ==
    did.at = "PUSH_APPROVAL_PENDING"
        /\ (Says(said, "push") \/ Says(said, "deploy") \/ \E i \in DOMAIN said : "force" \in said[i].words)
    => did.handler = "ambiguous"
=============================================================================
