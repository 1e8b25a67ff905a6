------------------------------ MODULE GitWorld ------------------------------
(***************************************************************************)
(* The world the runtime acts on: the local clone, its remote-tracking     *)
(* refs, the remote repository on the hosting service and its pull         *)
(* requests, together with what people outside the bot may do to them.     *)
(*                                                                         *)
(* A commit is the set of changes its history contains: "git merge-base    *)
(* --is-ancestor a b" is a \subseteq b, "ahead" and "behind" are set       *)
(* differences, and a tip that moved is a different set. This is exact     *)
(* because the code pushes without force, fast-forwards, and merges with   *)
(* merge_method "merge", so histories only grow. The change a plan makes   *)
(* is the plan itself; every other change belongs to somebody else.        *)
(***************************************************************************)
EXTENDS Naturals, FiniteSets

CONSTANTS
    Plans,      \* execution plans, each standing for the change it proposes
    PrIds,      \* pull request numbers the hosting service may hand out
    None,       \* an absent field, branch or id
    Events      \* which external events a configuration explores

Branches == {"feature", "main"}
Foreign == {"edit", "touchUp", "localCommit", "remotePush", "mainPush"}
Changes == Plans \cup Foreign
Tips == SUBSET Changes
MaybeTip == Tips \cup {None}

ASSUME NoneAssumption == None \notin Branches /\ \A tip \in Tips : None # tip

PrStates == {"none", "open", "closed", "merged"}

VARIABLES
    at,        \* the branch the clone has checked out
    worktree,  \* uncommitted changes in the working tree
    local,     \* local branch tips (None: no such branch)
    tracking,  \* remote-tracking refs, as of the last push or fetch
    origin,    \* branch tips on the hosting service
    prs        \* pull requests from "feature" into "main"

world == <<at, worktree, local, tracking, origin, prs>>

WorldTypeOK ==
    /\ at \in Branches
    /\ worktree \in Tips
    /\ local \in [Branches -> MaybeTip]
    /\ tracking \in [Branches -> Tips]
    /\ origin \in [Branches -> MaybeTip]
    /\ prs \in [PrIds -> [state : PrStates, head : MaybeTip]]

(* What every reading of a tip relies on: the checked-out branch and       *)
(* remote main exist, and an open pull request has a head.                 *)
RefsExist ==
    /\ local[at] # None
    /\ origin["main"] # None
    /\ \A n \in PrIds : prs[n].state = "open" => prs[n].head # None

WorldInit ==
    /\ at = "feature"
    /\ worktree = {}
    /\ local = [b \in Branches |-> {}]
    /\ tracking = [b \in Branches |-> {}]
    /\ origin = [b \in Branches |-> {}]
    /\ prs = [n \in PrIds |-> [state |-> "none", head |-> None]]

-----------------------------------------------------------------------------
(* What the git adapter reads. A touch-up is a hand edit of the very file  *)
(* the plan targets, so paths alone do not tell the two apart.             *)

Head == local[at]
Ahead(b) == local[b] \ tracking[b]
Behind(b) == tracking[b] \ local[b]
FilesOf(changes, p) == {IF c = "touchUp" THEN p ELSE c : c \in changes}

(* git commit --only: the working tree becomes one commit on HEAD.         *)
CommitFiles ==
    /\ local' = [local EXCEPT ![at] = @ \cup worktree]
    /\ worktree' = {}
    /\ UNCHANGED <<at, tracking, origin, prs>>

(* An open pull request follows the head branch; it closes with it.        *)
PrsFollowing(tip) ==
    [n \in PrIds |-> IF prs[n].state # "open" THEN prs[n]
                     ELSE IF tip = None THEN [prs[n] EXCEPT !.state = "closed"]
                     ELSE [prs[n] EXCEPT !.head = tip]]

MoveOrigin(b, tip) ==
    /\ origin' = [origin EXCEPT ![b] = tip]
    /\ prs' = IF b = "feature" THEN PrsFollowing(tip) ELSE prs

(* git push <remote> HEAD:<branch>: what is HEAD now, fast-forward only.   *)
PushAccepted(b) == origin[b] # None => origin[b] \subseteq Head

PushHead(b) ==
    /\ PushAccepted(b)
    /\ MoveOrigin(b, Head)
    /\ tracking' = [tracking EXCEPT ![b] = Head]
    /\ UNCHANGED <<at, worktree, local>>

(* git fetch, verification of the fetched tip, and the compare-and-swap    *)
(* fast-forward of local main; the tracking ref moves even when the        *)
(* verification fails.                                                     *)
CanFastForward(expected, previous) ==
    /\ origin["main"] = expected
    /\ previous \subseteq expected
    /\ local["main"] = previous

SyncMainFastForward(expected, previous) ==
    /\ tracking' = [tracking EXCEPT !["main"] = origin["main"]]
    /\ local' = IF CanFastForward(expected, previous)
                THEN [local EXCEPT !["main"] = expected] ELSE local
    /\ UNCHANGED <<at, worktree, origin, prs>>

(* The preflight and compare-and-swap delete of a merged local branch.     *)
LocalBranchDeletableSlip(b, main) ==           \* slip: no ancestry check
    /\ b # "main" /\ b # at
    /\ local["main"] = main

LocalBranchDeletable(b, main) ==
    /\ b # "main" /\ b # at
    /\ local["main"] = main
    /\ local[b] # None => local[b] \subseteq main

DeleteMergedLocalBranch(b) ==
    /\ local' = [local EXCEPT ![b] = None]
    /\ UNCHANGED <<at, worktree, tracking, origin, prs>>

-----------------------------------------------------------------------------
(* What the hosting service does with a request.                           *)

OpenPrs == {n \in PrIds : prs[n].state = "open"}
UnusedPrs == {n \in PrIds : prs[n].state = "none"}

(* POST /pulls: refused while one is open or nothing is left to merge.     *)
CreatePullRequest(n) ==
    /\ OpenPrs = {}
    /\ n \in UnusedPrs
    /\ origin["feature"] # None
    /\ ~(origin["feature"] \subseteq origin["main"])
    /\ prs' = [prs EXCEPT ![n] = [state |-> "open", head |-> origin["feature"]]]
    /\ UNCHANGED <<at, worktree, local, tracking, origin>>

(* PUT /merge with `sha`: refused unless the head still is that commit.    *)
PutMergeAccepted(n, sha) == prs[n].state = "open" /\ prs[n].head = sha

MergePullRequest(n) ==
    /\ prs[n].state = "open"
    /\ prs' = [prs EXCEPT ![n].state = "merged"]
    /\ origin' = [origin EXCEPT !["main"] = @ \cup prs[n].head]
    /\ UNCHANGED <<at, worktree, local, tracking>>

(* DELETE /git/refs: unconditional, whatever the branch points at now.     *)
DeleteRemoteRef(b) ==
    /\ origin[b] # None
    /\ MoveOrigin(b, None)
    /\ UNCHANGED <<at, worktree, local, tracking>>

-----------------------------------------------------------------------------
(* What people may do, between any two steps of the runtime. Each foreign  *)
(* change happens at most once.                                            *)

Everywhere == worktree \cup UNION ({local[b] : b \in Branches} \ {None})
                       \cup UNION ({origin[b] : b \in Branches} \ {None})

HumanEdit(change) ==
    /\ change \in Events
    /\ change \notin Everywhere
    /\ worktree' = worktree \cup {change}
    /\ UNCHANGED <<at, local, tracking, origin, prs>>

HumanDiscard ==
    /\ "discard" \in Events
    /\ worktree # {}
    /\ worktree' = {}
    /\ UNCHANGED <<at, local, tracking, origin, prs>>

HumanCommit ==
    /\ "localCommit" \in Events
    /\ "localCommit" \notin Everywhere
    /\ local[at] # None
    /\ local' = [local EXCEPT ![at] = @ \cup {"localCommit"}]
    /\ UNCHANGED <<at, worktree, tracking, origin, prs>>

HumanCheckout(b) ==
    /\ "checkout" \in Events
    /\ b # at
    /\ local[b] # None
    /\ at' = b
    /\ UNCHANGED <<worktree, local, tracking, origin, prs>>

HumanFetch ==
    /\ "fetch" \in Events
    /\ tracking' = [b \in Branches |-> IF origin[b] = None THEN tracking[b] ELSE origin[b]]
    /\ UNCHANGED <<at, worktree, local, origin, prs>>

HumanRemotePush(event, b) ==
    /\ event \in Events
    /\ event \notin Everywhere
    /\ origin[b] # None
    /\ MoveOrigin(b, origin[b] \cup {event})
    /\ UNCHANGED <<at, worktree, local, tracking>>

HumanMerge(n) ==
    /\ "humanMerge" \in Events
    /\ MergePullRequest(n)

HumanClose(n) ==
    /\ "humanClose" \in Events
    /\ prs[n].state = "open"
    /\ prs' = [prs EXCEPT ![n].state = "closed"]
    /\ UNCHANGED <<at, worktree, local, tracking, origin>>

HumanDelete ==
    /\ "humanDelete" \in Events
    /\ DeleteRemoteRef("feature")
=============================================================================
