---------------------------- MODULE TaskRunStore ----------------------------
(***************************************************************************)
(* The durable state behind the continuation of handed-off work, and the   *)
(* transactions of the repositories over it. Each is one better-sqlite3    *)
(* call, so it is atomic, between processes too.                           *)
(*                                                                         *)
(* A row is reduced to what a decision depends on. The comparison of whole *)
(* stored rows with a caller's snapshot (isDeepStrictEqual) becomes a      *)
(* comparison of these fields; the code's also sees a row that was saved   *)
(* again with the same ones, and refuses then.                             *)
(***************************************************************************)
EXTENDS Naturals, FiniteSets

CONSTANTS
    Works,         \* work items
    Handoffs,      \* ids a caller may give a handoff
    Objectives,    \* contents of a handoff
    Tasks,
    ApprovalIds,   \* ids newId() may give an approval request
    RunIds,        \* ids newId() may give a task run
    Digests,       \* of containment bindings
    None

ASSUME NoneAssumption ==
    None \notin Works \cup Handoffs \cup Objectives \cup Tasks \cup ApprovalIds \cup RunIds \cup Digests

VARIABLES
    work,        \* status of each work item
    handoff,     \* handoffs recorded: the work item and the objective
    bound,       \* continuation_bindings: the task of a handoff
    task,        \* status, and what its plan asks for
    approval,    \* the task whose plan it is for, and its status
    run          \* task runs, with the containment evidence in their metadata

store == <<work, handoff, bound, task, approval, run>>

WorkStatus == {"ACTIVE", "COMPLETED", "CANCELED"}
TaskStatus == {"PENDING", "PLANNING", "WAITING_APPROVAL", "RUNNING", "NEEDS_REVIEW", "COMPLETED", "FAILED"}
(* No plan; a plan that needs no approval; one that does.                  *)
Kinds == {"plain", "low", "high"}
Decisions == {"APPROVED", "REJECTED"}
RunStatus == {"STARTED", "SUCCEEDED", "FAILED"}
Attempts == 1..Cardinality(RunIds)

HandoffRows == [work : Works, objective : Objectives]
TaskRows == [status : TaskStatus, kind : Kinds]
ApprovalRows == [task : Tasks, status : {"PENDING"} \cup Decisions]
RunRows == [task : Tasks, attempt : Attempts, status : RunStatus \cup {"DELETED"},
            digest : Digests \cup {None}, post : {"none", "verified", "uncertain"}]

ASSUME RowsAssumption == None \notin HandoffRows \cup TaskRows \cup ApprovalRows \cup RunRows

StoreTypeOK ==
    /\ work \in [Works -> WorkStatus]
    /\ handoff \in [Handoffs -> HandoffRows \cup {None}]
    /\ bound \in [Handoffs -> Tasks \cup {None}]
    /\ task \in [Tasks -> TaskRows \cup {None}]
    /\ approval \in [ApprovalIds -> ApprovalRows \cup {None}]
    /\ run \in [RunIds -> RunRows \cup {None}]

StoreInit ==
    /\ work = [w \in Works |-> "ACTIVE"]
    /\ handoff = [h \in Handoffs |-> None]
    /\ bound = [h \in Handoffs |-> None]
    /\ task = [t \in Tasks |-> None]
    /\ approval = [a \in ApprovalIds |-> None]
    /\ run = [r \in RunIds |-> None]

Stored(r) == run[r] # None /\ run[r].status # "DELETED"
RunsOf(t) == {r \in RunIds : Stored(r) /\ run[r].task = t}
IsBound(t) == \E h \in Handoffs : bound[h] = t
Unresolved(t) == \E r \in RunsOf(t) : run[r].status = "STARTED"

-----------------------------------------------------------------------------
(* Work items, handoffs, tasks and approvals.                              *)

(* WorkManager.transition reads the item and saves it: two of them may     *)
(* both have read it active, so an end can be replaced by the other end.   *)
EndWork(w) ==
    /\ \E end \in WorkStatus \ {"ACTIVE"} : work' = [work EXCEPT ![w] = end]
    /\ UNCHANGED <<handoff, bound, task, approval, run>>

InsertHandoff(h, row) ==
    /\ handoff[h] = None
    /\ handoff' = [handoff EXCEPT ![h] = row]
    /\ UNCHANGED <<work, bound, task, approval, run>>

CreateTask(t, kind) ==
    /\ task[t] = None
    /\ task' = [task EXCEPT ![t] = [status |-> "PENDING", kind |-> kind]]
    /\ UNCHANGED <<work, handoff, bound, approval, run>>

(* TaskManager.transition checks the status in the caller's snapshot and   *)
(* saves the whole row, whatever is stored by then.                        *)
SaveTask(t, status) ==
    /\ task' = [task EXCEPT ![t].status = status]
    /\ UNCHANGED <<work, handoff, bound, approval, run>>

(* ApprovalManager.requestFor: the policy approves a plan that needs no    *)
(* decision by itself.                                                     *)
RequestFor(t, a) ==
    /\ approval[a] = None
    /\ approval' = [approval EXCEPT ![a] =
           [task |-> t, status |-> IF task[t].kind = "high" THEN "PENDING" ELSE "APPROVED"]]
    /\ UNCHANGED <<work, handoff, bound, task, run>>

(* ApprovalManager.decide, which reads and saves like transition does: the *)
(* later of two overlapping decisions stays.                               *)
Decide(a) ==
    /\ approval[a] # None
    /\ task[approval[a].task].kind = "high"
    /\ \E d \in Decisions : approval' = [approval EXCEPT ![a].status = d]
    /\ UNCHANGED <<work, handoff, bound, task, run>>

-----------------------------------------------------------------------------
(* Continuation bindings.                                                  *)

(* The handoff, its work item and the task must still be what the caller   *)
(* read. A task and a handoff are bound once, to each other.               *)
AdmitBinding(h, t) ==
    /\ handoff[h] # None /\ work[handoff[h].work] = "ACTIVE"
    /\ task[t] # None /\ task[t].status = "PENDING"
    /\ bound[h] = None /\ ~IsBound(t)
    /\ RunsOf(t) = {}
    /\ bound' = [bound EXCEPT ![h] = t]
    /\ UNCHANGED <<work, handoff, task, approval, run>>

-----------------------------------------------------------------------------
(* Task runs.                                                              *)

(* One more than MAX(attempt); within Attempts, as the code checks that it *)
(* is a safe integer.                                                      *)
IsNextAttempt(t, n) ==
    /\ \A r \in RunsOf(t) : run[r].attempt < n
    /\ n = 1 \/ \E r \in RunsOf(t) : run[r].attempt = n - 1

InsertStarted(t, r) ==
    /\ run[r] = None
    /\ \E n \in Attempts :
        /\ IsNextAttempt(t, n)
        /\ run' = [run EXCEPT ![r] = [task |-> t, attempt |-> n, status |-> "STARTED",
                                      digest |-> None, post |-> "none"]]

(* An ordinary task: it is stored as the caller holds it, and running.     *)
StartRun(t, r) ==
    /\ ~IsBound(t)
    /\ task[t].status = "RUNNING"
    /\ InsertStarted(t, r)
    /\ UNCHANGED <<work, handoff, bound, task, approval>>

GuardedStartSlip(h, t, a, r) ==  \* slip: the stored approval is not read again
    /\ work[handoff[h].work] = "ACTIVE"
    /\ bound[h] = t
    /\ task[t].status = "RUNNING"
    /\ ~Unresolved(t)
    /\ InsertStarted(t, r)
    /\ UNCHANGED <<work, handoff, bound, task, approval>>

(* A bound task: everything the caller's decision rested on is compared    *)
(* with what is stored, and no attempt may be unresolved. That a plan of   *)
(* this kind needs an approval at all is not known here.                   *)
GuardedStart(h, t, a, r) ==
    /\ work[handoff[h].work] = "ACTIVE"
    /\ bound[h] = t
    /\ task[t].status = "RUNNING"
    /\ a # None => approval[a].status = "APPROVED"
    /\ ~Unresolved(t)
    /\ InsertStarted(t, r)
    /\ UNCHANGED <<work, handoff, bound, task, approval>>

SameEvidence(row, other) == row.digest = other.digest /\ row.post = other.post

SavableSlip(r, row) ==          \* slip: an attempt with evidence may be ended generically
    /\ IsBound(row.task) =>
        /\ Stored(r)
        /\ ~(row.status = "STARTED" /\ run[r].status # "STARTED")
    /\ \A q \in RunsOf(row.task) \ {r} : run[q].attempt # row.attempt

(* The generic save of a row some caller holds. An attempt with evidence   *)
(* is ended by the secure operation only; a bound task gets no new row, no *)
(* revived one, and no change of evidence. A row that was deleted comes    *)
(* back if its attempt number is still free (the unique index).            *)
Savable(r, row) ==
    /\ ~(Stored(r) /\ run[r].status = "STARTED" /\ row.status # "STARTED" /\ run[r].digest # None)
    /\ IsBound(row.task) =>
        /\ Stored(r)
        /\ ~(row.status = "STARTED" /\ run[r].status # "STARTED")
        /\ SameEvidence(run[r], row)
    /\ \A q \in RunsOf(row.task) \ {r} : run[q].attempt # row.attempt

SaveRun(r, row) ==
    /\ Savable(r, row)
    /\ run' = [run EXCEPT ![r] = row]
    /\ UNCHANGED <<work, handoff, bound, task, approval>>

(* What the operations on evidence load: an open attempt of a bound task.  *)
Open(r) == Stored(r) /\ IsBound(run[r].task) /\ run[r].status = "STARTED"

RecordBinding(r, d) ==
    /\ Open(r)
    /\ run[r].digest \in {None, d}
    /\ run' = [run EXCEPT ![r].digest = d]
    /\ UNCHANGED <<work, handoff, bound, task, approval>>

RecordPost(r, d, p) ==
    /\ Open(r)
    /\ run[r].digest = d
    /\ run[r].post \in {"none", p}
    /\ run' = [run EXCEPT ![r].post = p]
    /\ UNCHANGED <<work, handoff, bound, task, approval>>

TerminalizeSlip(r, verdict) ==  \* slip: no veto by what was observed
    /\ Open(r)
    /\ run' = [run EXCEPT ![r].status = verdict]
    /\ UNCHANGED <<work, handoff, bound, task, approval>>

(* From the current row. An uncertain observation keeps the attempt open,  *)
(* whatever the caller asks for.                                           *)
Terminalize(r, verdict) ==
    /\ Open(r)
    /\ run' = IF run[r].post = "uncertain" THEN run ELSE [run EXCEPT ![r].status = verdict]
    /\ UNCHANGED <<work, handoff, bound, task, approval>>

DeleteRun(r) ==
    /\ Stored(r) /\ ~IsBound(run[r].task)
    /\ run' = [run EXCEPT ![r].status = "DELETED"]
    /\ UNCHANGED <<work, handoff, bound, task, approval>>
=============================================================================
