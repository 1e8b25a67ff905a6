-------------------------- MODULE MCApplyLifecycle --------------------------
(* The lifecycle on small instances. A configuration chooses the plans,    *)
(* the number of approvals and overlapping turns, and which of the events  *)
(* below it explores.                                                      *)
EXTENDS ApplyLifecycle

(* People working in the clone.                                            *)
InTheClone == {"edit", "touchUp", "discard", "localCommit", "checkout", "fetch"}
(* People working on the hosting service.                                  *)
OnTheHost == {"remotePush", "mainPush", "humanMerge", "humanClose"}

AllButLostSaves == {"crash"} \cup InTheClone \cup OnTheHost
HostEvents == {"crash", "checkout", "humanDelete"} \cup OnTheHost
Mishaps == {"crash", "checkout", "lostSave", "deleteRace", "remotePush"}
OneCommit == {"localCommit"}

-----------------------------------------------------------------------------
(* What reaches the turns of the lifecycle: the routing of messages of one *)
(* or two words, of three about branches, and of a prohibition followed by *)
(* a request.                                                              *)
R == INSTANCE TurnRouting

Clause(words, n) == [words |-> words, negated |-> n]
Branching == {"delete", "branch", "remote", "all", "delete main"}
Texts ==
    {<<Clause({v, w}, n)>> : v, w \in R!Vocabulary, n \in BOOLEAN}
        \cup {<<Clause({u, v, w}, FALSE)>> : u, v, w \in Branching}
        \cup {<<Clause({v}, TRUE), Clause({w}, FALSE)>> : v, w \in R!Vocabulary}

Statuses ==
    {"ELIGIBLE", "APPROVED", "PATCH_READY", "WORKSPACE_APPLIED", "COMMIT_APPROVED", "GIT_COMMITTED",
     "PUSH_APPROVED", "GIT_PUSHED", "PR_APPROVED", "PR_CREATED", "MERGE_APPROVED", "PR_MERGED",
     "MAIN_SYNCED", "BRANCH_CLEANED", "REMOTE_BRANCH_CLEANUP_APPROVED", "REMOTE_BRANCH_CLEANED", None}
        \cup R!PendingStatuses

(* What each handler needs of the message that reaches it.                 *)
Heeding ==
    {"applyRequest", "patch", "workspaceApply", "validation", "commitRequest", "commitExecution",
     "pushRequest", "pushExecution", "prRequest", "prExecution"}
Merging == {"mergeRequest", "mergeExecution"}
Deleting == {"branchCleanup", "remoteRequest", "remoteExecution"}

Routed == [s \in Statuses |-> {<<m, R!Dispatch(s, m)>> : m \in Texts}]

(* A message that only prohibits starts nothing that edits, runs or        *)
(* publishes ...                                                           *)
ASSUME ProhibitionsHeld ==
    \A s \in Statuses : \A r \in Routed[s] :
        (\A i \in DOMAIN r[1] : r[1][i].negated) => r[2] \notin Heeding
(* ... except what happens after the pull request: "do not merge now"      *)
(* merges, and "do not approve" approves.                                  *)
ASSUME ProhibitionsIgnored ==
    /\ R!Dispatch("MERGE_APPROVED", <<[words |-> {"merge", "now"}, negated |-> TRUE]>>) = "mergeExecution"
    /\ \A s \in R!PendingStatuses \ {"MERGE_APPROVAL_PENDING"} :
          R!Dispatch(s, <<[words |-> {"approve"}, negated |-> TRUE]>>) = "approve"
(* A commit, push or pull request asked for in one breath with something   *)
(* the gate does not cover is refused whole.                               *)
ASSUME CompanionsRefused ==
    \A s \in Statuses : \A r \in Routed[s] :
        /\ r[2] \in {"commitRequest", "commitExecution"} => ~R!Asks(r[1], "gitOther")
        /\ r[2] \in {"pushRequest", "pushExecution"} => ~R!Asks(r[1], "pushOther")
        /\ r[2] \in {"prRequest", "prExecution"} => ~R!Asks(r[1], "prOther")
(* Asking about a merge never merges, and a message that speaks of every   *)
(* branch, or of main, deletes none.                                       *)
ASSUME QuestionsAndTargets ==
    \A s \in Statuses : \A r \in Routed[s] :
        /\ r[2] \in Merging => R!Says(r[1], "merge") /\ ~R!Says(r[1], "query")
        /\ r[2] \in Deleting => ~R!TooMuch(r[1])
(* No rule hides another for good: every mutation is reached from exactly  *)
(* the status it belongs to.                                               *)
ASSUME EveryTurnIsReached ==
    \A h \in Heeding \cup Merging \cup Deleting \cup {"mainSync"} :
        Cardinality({s \in Statuses : \E r \in Routed[s] : r[2] = h}) = 1
=============================================================================
