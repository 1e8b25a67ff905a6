---------------------------- MODULE Continuation ----------------------------
(***************************************************************************)
(* Handed-off work and its continuation: delegation records a handoff,     *)
(* admission binds it to a task, preparation walks the task to RUNNING     *)
(* past an approval, the entry starts an attempt, and a receiver carries   *)
(* it out. Beside them are ordinary work turns of the conversation         *)
(* runtime, people who decide and end work, and holders of old rows.       *)
(*                                                                         *)
(* A caller is one call in some process. Between two of its awaits other   *)
(* calls run, so what it read may be stale; a call that throws, does not   *)
(* get the database lock, or dies with its process stops where it is       *)
(* (Abandon), and its caller may call again.                               *)
(***************************************************************************)
EXTENDS TaskRunStore

CONSTANT Callers

VARIABLES
    call,      \* the step each call is at, and what it has read
    handed     \* history: handoffs a caller was told are recorded

vars == <<store, call, handed>>

Verdicts == {"SUCCEEDED", "FAILED"}
Prepare == {"plan", "request", "wait", "run"}
Turn == {"turnPlan", "turnRun", "turnStart", "turnAsk", "turnComplete", "turnUnaccepted", "turnThrown"}
Steps == {"idle", "insert", "approval", "admission", "commit", "receive", "attempt", "observed", "held"}
             \cup Prepare \cup Turn

Frames ==
    [at : Steps, goal : {"prepare", "execute", "start", None},
     h : Handoffs \cup {None}, t : Tasks \cup {None}, ap : ApprovalIds \cup {None},
     status : TaskStatus \cup {None},                  \* of the task, as read or saved last
     decided : {"PENDING", "APPROVED", None},          \* of the approval, as read
     r : RunIds \cup {None}, row : RunRows \cup HandoffRows \cup {None},
     digest : Digests \cup {None}]                     \* of the containment it runs in

Idle == [at |-> "idle", goal |-> None, h |-> None, t |-> None, ap |-> None, status |-> None,
         decided |-> None, r |-> None, row |-> None, digest |-> None]

TypeOK ==
    /\ StoreTypeOK
    /\ call \in [Callers -> Frames]
    /\ handed \subseteq (Handoffs \X HandoffRows)

Init == StoreInit /\ call = [c \in Callers |-> Idle] /\ handed = {}

Become(c, f) == call' = [call EXCEPT ![c] = f]
Goes(c, from, to) == call[c].at = from /\ Become(c, [call[c] EXCEPT !.at = to])
Ends(c) == Become(c, Idle)

-----------------------------------------------------------------------------
(* Delegation. The work must be active; the handoff is recorded once, and  *)
(* whoever finds it there must have meant the same.                        *)

Delegate(c, h, row) ==
    /\ call[c] = Idle
    /\ work[row.work] = "ACTIVE"
    /\ \/ /\ handoff[h] = None
          /\ Become(c, [Idle EXCEPT !.at = "insert", !.h = h, !.row = row])
          /\ UNCHANGED handed
       \/ /\ handoff[h] = row
          /\ handed' = handed \cup {<<h, row>>}
          /\ UNCHANGED call
    /\ UNCHANGED store

InsertSlip(c) ==                \* slip: a failed insert is taken for one's own
    /\ call[c].at = "insert"
    /\ InsertHandoff(call[c].h, call[c].row) \/ UNCHANGED store
    /\ handed' = handed \cup {<<call[c].h, call[c].row>>}
    /\ Ends(c)

(* The insert fails if another came first, and then its row is compared.   *)
Insert(c) ==
    /\ call[c].at = "insert"
    /\ LET h == call[c].h
           row == call[c].row
       IN  /\ \/ InsertHandoff(h, row)
              \/ handoff[h] = row /\ UNCHANGED store
           /\ handed' = handed \cup {<<h, row>>}
    /\ Ends(c)

-----------------------------------------------------------------------------
(* Admission: what it reads before the transaction is compared in it, so   *)
(* the transaction is all of it.                                           *)
Admit(h, t) == AdmitBinding(h, t) /\ UNCHANGED <<call, handed>>

-----------------------------------------------------------------------------
(* Preparation.                                                            *)

(* Family A, which explicit execution is limited to: a live plan, and no   *)
(* capability or risk that needs a person.                                 *)
FamilyA(t) == task[t].kind = "low"
NeedsApproval(t) == task[t].kind = "high"

(* What prepare does next, by the status it believes the task has.         *)
NextStep(t, status, decided) ==
    IF status = "PENDING" THEN "plan"
    ELSE IF NeedsApproval(t) /\ decided = None THEN "request"
    ELSE IF status = "PLANNING" /\ (NeedsApproval(t) \/ decided # None) THEN "wait"
    ELSE IF decided = "PENDING" THEN "idle"
    ELSE "run"

Continues(c, f) ==
    LET next == NextStep(f.t, f.status, f.decided)
    IN  IF next = "idle" THEN Ends(c) ELSE Become(c, [f EXCEPT !.at = next])

(* The work item and the task are read; a task that waits for an approval  *)
(* the caller cannot name is left alone. Execution of a task that runs     *)
(* already goes straight to the entry.                                     *)
BeginPrepare(c, goal, h, t, a) ==
    /\ call[c] = Idle
    /\ bound[h] = t
    /\ work[handoff[h].work] = "ACTIVE"
    /\ goal = "execute" => FamilyA(t) /\ a = None
    /\ a # None => task[t].kind # "plain"
    /\ LET f == [Idle EXCEPT !.goal = goal, !.h = h, !.t = t, !.ap = a, !.status = task[t].status]
       IN  \/ /\ f.status = "RUNNING" /\ goal = "execute"
              /\ Become(c, [f EXCEPT !.at = "admission"])
           \/ /\ f.status \in {"PENDING", "PLANNING", "WAITING_APPROVAL"}
              /\ f.status = "WAITING_APPROVAL" => a # None
              /\ IF a = None THEN Continues(c, f) ELSE Become(c, [f EXCEPT !.at = "approval"])
    /\ UNCHANGED <<store, handed>>

ReadApproval(c) ==
    /\ call[c].at = "approval"
    /\ LET a == approval[call[c].ap]
       IN  /\ a # None
           /\ a.task = call[c].t /\ a.status \in {"PENDING", "APPROVED"}
           /\ Continues(c, [call[c] EXCEPT !.decided = a.status])
    /\ UNCHANGED <<store, handed>>

(* A transition out of the status in the caller's snapshot.                *)
Transition(c, from, status) ==
    /\ call[c].at = from
    /\ SaveTask(call[c].t, status)
    /\ UNCHANGED handed

Plan(c) ==
    Transition(c, "plan", "PLANNING") /\ Continues(c, [call[c] EXCEPT !.status = "PLANNING"])

Request(c, a) ==
    /\ call[c].at = "request"
    /\ RequestFor(call[c].t, a)
    /\ Continues(c, [call[c] EXCEPT !.decided = approval'[a].status])
    /\ UNCHANGED handed

Wait(c) ==
    /\ Transition(c, "wait", "WAITING_APPROVAL")
    /\ Continues(c, [call[c] EXCEPT !.status = "WAITING_APPROVAL"])

Run(c) ==
    /\ Transition(c, "run", "RUNNING")
    /\ IF call[c].goal = "execute"
       THEN Become(c, [call[c] EXCEPT !.at = "admission", !.status = "RUNNING"])
       ELSE Ends(c)

-----------------------------------------------------------------------------
(* The start of an attempt.                                                *)

(* Fresh reads by the admission of the entry. Only here is it known that   *)
(* the plan needs an approval.                                             *)
Admissible(h, t, a) ==
    /\ bound[h] = t
    /\ work[handoff[h].work] = "ACTIVE"
    /\ task[t].status = "RUNNING"
    /\ NeedsApproval(t) => a # None
    /\ a # None =>
        /\ task[t].kind # "plain"
        /\ approval[a] # None
        /\ approval[a].task = t /\ approval[a].status = "APPROVED"
    /\ ~Unresolved(t)

Admission(c) ==
    /\ Goes(c, "admission", "commit")
    /\ Admissible(call[c].h, call[c].t, call[c].ap)
    /\ UNCHANGED <<store, handed>>

(* The entry called by itself, for an approved plan too.                   *)
BeginStart(c, h, t, a) ==
    /\ call[c] = Idle
    /\ Admissible(h, t, a)
    /\ Become(c, [Idle EXCEPT !.at = "commit", !.goal = "start", !.h = h, !.t = t, !.ap = a])
    /\ UNCHANGED <<store, handed>>

CommitStart(c, r) ==
    /\ call[c].at = "commit"
    /\ GuardedStart(call[c].h, call[c].t, call[c].ap, r)
    /\ IF call[c].goal = "execute"
       THEN Become(c, [call[c] EXCEPT !.at = "receive", !.r = r])
       ELSE Become(c, [Idle EXCEPT !.at = "held", !.r = r, !.row = run'[r]])
    /\ UNCHANGED handed

-----------------------------------------------------------------------------
(* The receiver. In production it routes to a provider; the contained one  *)
(* records what it prepared before its attempt, and may add what it        *)
(* observed after. An outcome that is not definite leaves the attempt open *)
(* (Abandon).                                                              *)

Dispatch(c) == Goes(c, "receive", "attempt") /\ UNCHANGED <<store, handed>>

DispatchContained(c, d) ==
    /\ call[c].at = "receive"
    /\ RecordBinding(call[c].r, d)
    /\ Become(c, [call[c] EXCEPT !.at = "attempt", !.digest = d])
    /\ UNCHANGED handed

Observe(c, p) ==
    /\ call[c].digest # None
    /\ Goes(c, "attempt", "observed")
    /\ RecordPost(call[c].r, call[c].digest, p)
    /\ UNCHANGED handed

(* A refusal before the dispatch is a definite failure.                    *)
Conclude(c, verdict) ==
    /\ call[c].at \in {"receive", "attempt", "observed"}
    /\ call[c].at = "receive" => verdict = "FAILED"
    /\ Terminalize(call[c].r, verdict)
    /\ Ends(c)
    /\ UNCHANGED handed

-----------------------------------------------------------------------------
(* Holders of a row: who started an attempt without a receiver, or fetched *)
(* one. They save it with any status later (completeRun, failRun), and may *)
(* use the operations on evidence.                                         *)

Fetch(c, r) ==
    /\ call[c] = Idle
    /\ Stored(r)
    /\ Become(c, [Idle EXCEPT !.at = "held", !.r = r, !.row = run[r]])
    /\ UNCHANGED <<store, handed>>

SaveHeld(c, status) ==
    /\ call[c].at = "held"
    /\ SaveRun(call[c].r, [call[c].row EXCEPT !.status = status])
    /\ Ends(c)
    /\ UNCHANGED handed

RecordHeld(c, d) ==
    /\ call[c].at = "held"
    /\ RecordBinding(call[c].r, d) \/ RecordPost(call[c].r, d, "verified")
    /\ UNCHANGED <<call, handed>>

-----------------------------------------------------------------------------
(* A work turn of the conversation runtime. Its task is new, and another   *)
(* call may bind it before the turn has started its run.                   *)

BeginTurn(c, t) ==
    /\ call[c] = Idle
    /\ CreateTask(t, "plain")
    /\ Become(c, [Idle EXCEPT !.at = "turnPlan", !.t = t])
    /\ UNCHANGED handed

TurnTransition(c, from, status, to) == Transition(c, from, status) /\ Goes(c, from, to)

StartTurnRun(c, r) ==
    /\ call[c].at = "turnStart"
    /\ StartRun(call[c].t, r)
    /\ Become(c, [call[c] EXCEPT !.at = "turnAsk", !.r = r, !.row = run'[r]])
    /\ UNCHANGED handed

(* completeRun or failRun with the row the run was started as.             *)
SaveTurnRun(c, from, status, to) ==
    /\ Goes(c, from, to)
    /\ SaveRun(call[c].r, [call[c].row EXCEPT !.status = status])
    /\ UNCHANGED handed

EndTurn(c, from, status) == Transition(c, from, status) /\ Ends(c)

(* A throw after completeRun fails the run that was completed.             *)
WorkTurn(c) ==
    \/ TurnTransition(c, "turnPlan", "PLANNING", "turnRun")
    \/ TurnTransition(c, "turnRun", "RUNNING", "turnStart")
    \/ \E r \in RunIds : StartTurnRun(c, r)
    \/ SaveTurnRun(c, "turnAsk", "SUCCEEDED", "turnComplete")
    \/ SaveTurnRun(c, "turnAsk", "FAILED", "turnUnaccepted")
    \/ \E from \in {"turnAsk", "turnComplete"} : SaveTurnRun(c, from, "FAILED", "turnThrown")
    \/ EndTurn(c, "turnComplete", "COMPLETED")
    \/ \E status \in {"FAILED", "NEEDS_REVIEW"} : EndTurn(c, "turnUnaccepted", status)
    \/ EndTurn(c, "turnThrown", "FAILED")

-----------------------------------------------------------------------------
(* Everyone else.                                                          *)

(* The planner of another flow, and its request for an approval.           *)
Elsewhere ==
    /\ \/ \E t \in Tasks, kind \in Kinds : CreateTask(t, kind)
       \/ \E t \in Tasks, a \in ApprovalIds :
             task[t] # None /\ task[t].kind # "plain" /\ RequestFor(t, a)
       \/ \E a \in ApprovalIds : Decide(a)
       \/ \E w \in Works : EndWork(w)
       \/ \E r \in RunIds : DeleteRun(r)
    /\ UNCHANGED <<call, handed>>

Abandon(c) == call[c] # Idle /\ Ends(c) /\ UNCHANGED <<store, handed>>

Continue(c) ==
    \/ \E h \in Handoffs, row \in HandoffRows : Delegate(c, h, row)
    \/ Insert(c)
    \/ \E h \in Handoffs, t \in Tasks, a \in ApprovalIds \cup {None} :
          \/ \E goal \in {"prepare", "execute"} : BeginPrepare(c, goal, h, t, a)
          \/ BeginStart(c, h, t, a)
    \/ ReadApproval(c) \/ Plan(c) \/ Wait(c) \/ Run(c)
    \/ \E a \in ApprovalIds : Request(c, a)
    \/ Admission(c)
    \/ \E r \in RunIds : CommitStart(c, r) \/ Fetch(c, r)
    \/ Dispatch(c)
    \/ \E d \in Digests : DispatchContained(c, d) \/ RecordHeld(c, d)
    \/ \E p \in {"verified", "uncertain"} : Observe(c, p)
    \/ \E verdict \in Verdicts : Conclude(c, verdict)
    \/ \E status \in RunStatus : SaveHeld(c, status)

Next ==
    \/ \E c \in Callers :
          \/ Continue(c) \/ Abandon(c)
          \/ \E t \in Tasks : BeginTurn(c, t)
          \/ WorkTurn(c)
    \/ \E h \in Handoffs, t \in Tasks : Admit(h, t)
    \/ Elsewhere

Spec == Init /\ [][Next]_vars

-----------------------------------------------------------------------------
(* Whatever was read when, an attempt of a bound task starts only while    *)
(* the task is running, its work active, and a plan that needs a person's  *)
(* approval has one that still stands (guardedStart against stale reads).  *)
Starts(r) == run[r] = None /\ run'[r] # None
ApprovedStart ==
    [][\A r \in RunIds : \A h \in Handoffs :
        Starts(r) /\ bound[h] = run'[r].task =>
            LET t == bound[h]
            IN  /\ task[t].status = "RUNNING"
                /\ work[handoff[h].work] = "ACTIVE"
                /\ NeedsApproval(t) =>
                    \E a \in ApprovalIds :
                        approval[a] # None /\ approval[a].task = t /\ approval[a].status = "APPROVED"]_vars

(* Two receivers are never inside contained attempts of one task at once:  *)
(* evidence recorded for an attempt keeps holders of older rows from       *)
(* ending it, and so keeps the next one from starting beside it.           *)
Contained(c) == call[c].at = "attempt" /\ call[c].digest # None
OneContainedAttempt ==
    \A c, d \in Callers :
        c # d /\ Contained(c) /\ Contained(d) => call[c].t # call[d].t

(* Every caller who was told that its handoff is recorded finds its own    *)
(* content under the id, also when two recorded at once.                   *)
HandoffAgreement == \A told \in handed : handoff[told[1]] = told[2]

(* The attempts of bound tasks keep the promise of the ledger, whichever   *)
(* operations run, by whoever holds which rows.                            *)
EntryOf(row) == [attempt |-> row.attempt, status |-> row.status, digest |-> row.digest, post |-> row.post]
Ledger ==
    INSTANCE AttemptLedger WITH
        ledger <- [t \in Tasks |->
            IF IsBound(t) THEN {EntryOf(run[r]) : r \in RunsOf(t)} ELSE {}]
KeepsLedger == Ledger!Spec
=============================================================================
