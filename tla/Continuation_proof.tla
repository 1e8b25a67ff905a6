-------------------------- MODULE Continuation_proof ------------------------
(* What continuation guarantees for any number of tasks, handoffs, runs    *)
(* and callers, whoever reads what and stops where.                        *)
EXTENDS Continuation, TLAPS

-----------------------------------------------------------------------------
(* The store.                                                              *)

(* A handoff and its task are bound to each other alone.                   *)
BoundInv ==
    /\ \A h \in Handoffs : bound[h] # None => handoff[h] # None /\ task[bound[h]] # None
    /\ \A h, g \in Handoffs : bound[h] # None /\ bound[h] = bound[g] => h = g

(* Attempts of a task have different numbers, and of a bound task at most  *)
(* one is open.                                                            *)
AttemptsInv ==
    \A r, q \in RunIds :
        r # q /\ Stored(r) /\ Stored(q) /\ run[r].task = run[q].task =>
            /\ run[r].attempt # run[q].attempt
            /\ IsBound(run[r].task) => ~(run[r].status = "STARTED" /\ run[q].status = "STARTED")

(* What was observed belongs to a containment, and while it is uncertain   *)
(* the attempt is open.                                                    *)
EvidenceInv ==
    \A r \in RunIds : Stored(r) /\ IsBound(run[r].task) =>
        /\ run[r].post # "none" => run[r].digest # None
        /\ run[r].post = "uncertain" => run[r].status = "STARTED"

StoreInv == StoreTypeOK /\ BoundInv /\ AttemptsInv /\ EvidenceInv

(* A row some caller holds is of the run it names.                         *)
Copy(r, row) == run[r] # None /\ row.task = run[r].task /\ row.attempt = run[r].attempt

(* The operations on the store, with what their callers see to.            *)
RowStep ==
    \/ UNCHANGED store
    \/ \E w \in Works : EndWork(w)
    \/ \E h \in Handoffs, row \in HandoffRows : InsertHandoff(h, row)
    \/ \E t \in Tasks, kind \in Kinds : CreateTask(t, kind)
    \/ \E t \in Tasks, status \in TaskStatus : task[t] # None /\ SaveTask(t, status)
    \/ \E t \in Tasks, a \in ApprovalIds : task[t] # None /\ RequestFor(t, a)
    \/ \E a \in ApprovalIds : Decide(a)
    \/ \E h \in Handoffs, t \in Tasks : AdmitBinding(h, t)

StartStep ==
    \/ \E t \in Tasks, r \in RunIds : StartRun(t, r)
    \/ \E h \in Handoffs, t \in Tasks, a \in ApprovalIds \cup {None}, r \in RunIds : GuardedStart(h, t, a, r)

RunStep ==
    \/ \E r \in RunIds, row \in RunRows : row.status \in RunStatus /\ Copy(r, row) /\ SaveRun(r, row)
    \/ \E r \in RunIds, d \in Digests : RecordBinding(r, d)
    \/ \E r \in RunIds, d \in Digests, p \in {"verified", "uncertain"} : RecordPost(r, d, p)
    \/ \E r \in RunIds : DeleteRun(r)

EndStep(r) == \E verdict \in Verdicts : Terminalize(r, verdict)

StoreStep == RowStep \/ StartStep \/ RunStep \/ \E r \in RunIds : EndStep(r)

(* A new attempt is a row of its own, with the next number.                *)
LEMMA StartsInsert ==
    ASSUME StartStep
    PROVE  \E r \in RunIds, t \in Tasks, n \in Attempts :
              /\ run[r] = None
              /\ run' = [run EXCEPT ![r] = [task |-> t, attempt |-> n, status |-> "STARTED",
                                            digest |-> None, post |-> "none"]]
              /\ \A q \in RunsOf(t) : run[q].attempt < n
              /\ IsBound(t) => ~Unresolved(t)
              /\ UNCHANGED <<work, handoff, bound, task, approval>>
  BY DEF StartStep, StartRun, GuardedStart, InsertStarted, IsNextAttempt

(* Every other operation on a run changes one row, and keeps its task, its *)
(* number and, once a run of a bound task is recorded as contained, that.  *)
LEMMA RunsChange ==
    ASSUME StoreTypeOK, RunStep \/ \E r \in RunIds : EndStep(r)
    PROVE  \E r \in RunIds, x \in RunRows :
              /\ run[r] # None /\ run' = [run EXCEPT ![r] = x]
              /\ x.task = run[r].task /\ x.attempt = run[r].attempt
              /\ UNCHANGED <<work, handoff, bound, task, approval>>
<1>1. CASE \E r \in RunIds, row \in RunRows : row.status \in RunStatus /\ Copy(r, row) /\ SaveRun(r, row)
  BY <1>1 DEF Copy, SaveRun
<1>2. CASE \E r \in RunIds, d \in Digests : RecordBinding(r, d)
  BY <1>2 DEF RecordBinding, Open, Stored, StoreTypeOK, RunRows
<1>3. CASE \E r \in RunIds, d \in Digests, p \in {"verified", "uncertain"} : RecordPost(r, d, p)
  BY <1>3 DEF RecordPost, Open, Stored, StoreTypeOK, RunRows
<1>4. CASE \E r \in RunIds : DeleteRun(r)
  BY <1>4 DEF DeleteRun, Stored, StoreTypeOK, RunRows
<1>5. CASE \E r \in RunIds : EndStep(r)
  <2>1. PICK r \in RunIds, verdict \in Verdicts : Terminalize(r, verdict)
    BY <1>5 DEF EndStep
  <2>2. CASE run[r].post = "uncertain"
    <3>1. run[r] # None /\ run' = [run EXCEPT ![r] = run[r]] /\ run[r] \in RunRows
      BY <2>1, <2>2 DEF Terminalize, Open, Stored, StoreTypeOK
    <3> QED
      BY <2>1, <3>1 DEF Terminalize
  <2>3. CASE run[r].post # "uncertain"
    BY <2>1, <2>3 DEF Terminalize, Open, Stored, StoreTypeOK, RunRows, RunStatus, Verdicts
  <2> QED
    BY <2>2, <2>3
<1> QED
  BY <1>1, <1>2, <1>3, <1>4, <1>5 DEF RunStep

(* What never goes away: the kind of a task, the task of an approval, what *)
(* a handoff and a run are for, and who is bound.                          *)
Kept ==
    /\ \A h \in Handoffs :
          /\ handoff[h] # None => handoff'[h] = handoff[h]
          /\ bound[h] # None => bound'[h] = bound[h]
    /\ \A t \in Tasks : task[t] # None => task'[t] # None /\ task'[t].kind = task[t].kind
    /\ \A a \in ApprovalIds : approval[a] # None => approval'[a] # None /\ approval'[a].task = approval[a].task
    /\ \A r \in RunIds : run[r] # None =>
          run'[r] # None /\ run'[r].task = run[r].task /\ run'[r].attempt = run[r].attempt

LEMMA RowsKeep == ASSUME StoreTypeOK, RowStep PROVE StoreTypeOK' /\ Kept
<1> USE RowsAssumption DEF StoreTypeOK, Kept
<1>1. CASE UNCHANGED store
  BY <1>1 DEF store
<1>2. CASE \E w \in Works : EndWork(w)
  BY <1>2 DEF EndWork, WorkStatus
<1>3. CASE \E h \in Handoffs, row \in HandoffRows : InsertHandoff(h, row)
  BY <1>3 DEF InsertHandoff
<1>4. CASE \E t \in Tasks, kind \in Kinds : CreateTask(t, kind)
  BY <1>4 DEF CreateTask, TaskRows, TaskStatus
<1>5. CASE \E t \in Tasks, status \in TaskStatus : task[t] # None /\ SaveTask(t, status)
  <2>1. PICK t \in Tasks, status \in TaskStatus : task[t] # None /\ SaveTask(t, status)
    BY <1>5
  <2>2. [task[t] EXCEPT !.status = status] \in TaskRows /\ task[t] \in TaskRows
    BY <2>1 DEF TaskRows
  <2>3. task' = [task EXCEPT ![t] = [task[t] EXCEPT !.status = status]]
    BY <2>1 DEF SaveTask
  <2>4. [task[t] EXCEPT !.status = status].kind = task[t].kind
    BY <2>2 DEF TaskRows
  <2>5. UNCHANGED <<work, handoff, bound, approval, run>>
    BY <2>1 DEF SaveTask
  <2> QED
    BY <2>2, <2>3, <2>4, <2>5
<1>6. CASE \E t \in Tasks, a \in ApprovalIds : task[t] # None /\ RequestFor(t, a)
  BY <1>6 DEF RequestFor, ApprovalRows, Decisions
<1>7. CASE \E a \in ApprovalIds : Decide(a)
  <2>1. PICK a \in ApprovalIds, d \in Decisions :
            /\ approval[a] # None
            /\ approval' = [approval EXCEPT ![a] = [approval[a] EXCEPT !.status = d]]
            /\ UNCHANGED <<work, handoff, bound, task, run>>
    BY <1>7 DEF Decide
  <2>2. approval[a] \in ApprovalRows
    BY <2>1
  <2>3. /\ [approval[a] EXCEPT !.status = d] \in ApprovalRows
        /\ [approval[a] EXCEPT !.status = d].task = approval[a].task
    BY <2>2 DEF ApprovalRows
  <2> QED
    BY <2>1, <2>2, <2>3
<1>8. CASE \E h \in Handoffs, t \in Tasks : AdmitBinding(h, t)
  BY <1>8 DEF AdmitBinding
<1> QED
  BY <1>1, <1>2, <1>3, <1>4, <1>5, <1>6, <1>7, <1>8 DEF RowStep

LEMMA StoreKeeps == ASSUME StoreTypeOK, StoreStep PROVE StoreTypeOK' /\ Kept
<1>1. CASE RowStep
  BY <1>1, RowsKeep
<1>2. CASE StartStep
  <2>1. PICK r \in RunIds, t \in Tasks, n \in Attempts :
            /\ run[r] = None
            /\ run' = [run EXCEPT ![r] = [task |-> t, attempt |-> n, status |-> "STARTED",
                                          digest |-> None, post |-> "none"]]
            /\ UNCHANGED <<work, handoff, bound, task, approval>>
    BY <1>2, StartsInsert
  <2>2. [task |-> t, attempt |-> n, status |-> "STARTED", digest |-> None, post |-> "none"] \in RunRows
    BY DEF RunRows, RunStatus
  <2> QED
    BY <2>1, <2>2 DEF StoreTypeOK, Kept
<1>3. CASE RunStep \/ \E r \in RunIds : EndStep(r)
  <2>1. PICK r \in RunIds, x \in RunRows :
            /\ run[r] # None /\ run' = [run EXCEPT ![r] = x]
            /\ x.task = run[r].task /\ x.attempt = run[r].attempt
            /\ UNCHANGED <<work, handoff, bound, task, approval>>
    BY <1>3, RunsChange
  <2>2. x # None
    BY RowsAssumption
  <2> QED
    BY <2>1, <2>2 DEF StoreTypeOK, Kept
<1> QED
  BY <1>1, <1>2, <1>3 DEF StoreStep

LEMMA NextBound == ASSUME StoreTypeOK, BoundInv, StoreStep PROVE BoundInv'
<1>1. Kept /\ StoreTypeOK'
  BY StoreKeeps
<1>2. CASE \E h \in Handoffs, t \in Tasks : AdmitBinding(h, t)
  <2>1. PICK h \in Handoffs, t \in Tasks : AdmitBinding(h, t)
    BY <1>2
  <2>2. /\ handoff[h] # None /\ task[t] # None /\ bound[h] = None
        /\ \A g \in Handoffs : bound[g] # t
        /\ bound' = [bound EXCEPT ![h] = t]
        /\ UNCHANGED <<work, handoff, task, approval, run>>
    BY <2>1 DEF AdmitBinding, IsBound
  <2> QED
    BY <2>2 DEF BoundInv, StoreTypeOK
<1>3. CASE bound' = bound
  BY <1>1, <1>3 DEF BoundInv, Kept, StoreTypeOK
<1>4. \/ \E h \in Handoffs, t \in Tasks : AdmitBinding(h, t)
      \/ bound' = bound
  BY StartsInsert, RunsChange DEF StoreStep, RowStep, store, EndWork, InsertHandoff, CreateTask, SaveTask, RequestFor, Decide
<1> QED
  BY <1>2, <1>3, <1>4

(* Who is bound stays bound.                                               *)
LEMMA BoundGrows ==
    ASSUME StoreTypeOK, StoreStep, NEW t \in Tasks, IsBound(t)
    PROVE  IsBound(t)'
  BY StoreKeeps, NoneAssumption DEF Kept, IsBound

(* Whoever is newly bound has no runs.                                     *)
LEMMA NewlyBound ==
    ASSUME StoreTypeOK, StoreStep, NEW t \in Tasks, ~IsBound(t), IsBound(t)'
    PROVE  RunsOf(t) = {} /\ run' = run
<1>1. bound' # bound
  BY DEF IsBound
<1>2. PICK h \in Handoffs, u \in Tasks : AdmitBinding(h, u)
  BY <1>1, StartsInsert, RunsChange
     DEF StoreStep, RowStep, store, EndWork, InsertHandoff, CreateTask, SaveTask, RequestFor, Decide
<1>3. u = t
  BY <1>2 DEF AdmitBinding, IsBound, StoreTypeOK
<1> QED
  BY <1>2, <1>3 DEF AdmitBinding

(* An operation on a stored run leaves it with its number, and open only   *)
(* if it was; a save may bring a deleted one back, unbound and with a      *)
(* number that is free.                                                    *)
LEMMA RunsStay ==
    ASSUME StoreTypeOK, RunStep \/ \E r \in RunIds : EndStep(r), NEW q \in RunIds, Stored(q)'
    PROVE  /\ run[q] # None
           /\ run'[q].task = run[q].task /\ run'[q].attempt = run[q].attempt
           /\ ~Stored(q) =>
                 /\ ~IsBound(run[q].task)
                 /\ \A p \in RunsOf(run[q].task) : run[p].attempt # run[q].attempt
           /\ IsBound(run[q].task) /\ run'[q].status = "STARTED" => run[q].status = "STARTED"
           /\ bound' = bound
<1>1. PICK r \in RunIds, x \in RunRows :
          /\ run[r] # None /\ run' = [run EXCEPT ![r] = x]
          /\ x.task = run[r].task /\ x.attempt = run[r].attempt
          /\ UNCHANGED <<work, handoff, bound, task, approval>>
  BY RunsChange
<1>2. run[q] # None /\ run'[q].task = run[q].task /\ run'[q].attempt = run[q].attempt /\ bound' = bound
  BY <1>1 DEF StoreTypeOK, Stored
<1>3. CASE q # r
  BY <1>1, <1>2, <1>3 DEF Stored, StoreTypeOK
<1>4. CASE q = r
  <2>1. CASE \E s \in RunIds, row \in RunRows : row.status \in RunStatus /\ Copy(s, row) /\ SaveRun(s, row)
    <3>1. PICK s \in RunIds, row \in RunRows : row.status \in RunStatus /\ Copy(s, row) /\ SaveRun(s, row)
      BY <2>1
    <3>2. CASE s = q
      <4>1. run'[q] = row /\ row.task = run[q].task /\ row.attempt = run[q].attempt
        BY <3>1, <3>2 DEF SaveRun, StoreTypeOK, Copy
      <4>2. Savable(q, row)
        BY <3>1, <3>2 DEF SaveRun
      <4>3. ~Stored(q) => ~IsBound(run[q].task)
        BY <4>1, <4>2 DEF Savable
      <4>4. ~Stored(q) => \A p \in RunsOf(run[q].task) : run[p].attempt # run[q].attempt
        BY <4>1, <4>2 DEF Savable, RunsOf
      <4>5. IsBound(run[q].task) /\ run'[q].status = "STARTED" => run[q].status = "STARTED"
        BY <4>1, <4>2 DEF Savable
      <4> QED
        BY <1>2, <4>3, <4>4, <4>5
    <3>3. CASE s # q
      <4>1. run'[q] = run[q]
        BY <3>1, <3>3 DEF SaveRun, StoreTypeOK
      <4> QED
        BY <1>2, <4>1 DEF Stored
    <3> QED
      BY <3>2, <3>3
  <2>2. CASE \E s \in RunIds, d \in Digests : RecordBinding(s, d)
    <3>1. PICK s \in RunIds, d \in Digests : RecordBinding(s, d)
      BY <2>2
    <3>2. Stored(q) /\ run'[q].status = run[q].status
      BY <1>2, <3>1 DEF RecordBinding, Open, Stored, StoreTypeOK, RunRows
    <3> QED
      BY <1>2, <3>2
  <2>3. CASE \E s \in RunIds, d \in Digests, p \in {"verified", "uncertain"} : RecordPost(s, d, p)
    <3>1. PICK s \in RunIds, d \in Digests, p \in {"verified", "uncertain"} : RecordPost(s, d, p)
      BY <2>3
    <3>2. Stored(q) /\ run'[q].status = run[q].status
      BY <1>2, <3>1 DEF RecordPost, Open, Stored, StoreTypeOK, RunRows
    <3> QED
      BY <1>2, <3>2
  <2>4. CASE \E s \in RunIds : DeleteRun(s)
    <3>1. PICK s \in RunIds : DeleteRun(s)
      BY <2>4
    <3>2. s # q /\ run'[q] = run[q]
      BY <3>1 DEF DeleteRun, Stored, StoreTypeOK, RunRows
    <3> QED
      BY <1>2, <3>2 DEF Stored
  <2>5. CASE \E s \in RunIds : EndStep(s)
    <3>1. PICK s \in RunIds, verdict \in Verdicts : Terminalize(s, verdict)
      BY <2>5 DEF EndStep
    <3>2. CASE run' = run
      BY <1>2, <3>2 DEF Stored
    <3>3. CASE run' = [run EXCEPT ![s].status = verdict]
      <4>1. CASE s = q
        BY <1>2, <3>1, <3>3, <4>1 DEF Terminalize, Open, StoreTypeOK, RunRows, Verdicts, Stored
      <4>2. CASE s # q
        <5>1. run'[q] = run[q]
          BY <3>3, <4>2 DEF StoreTypeOK
        <5> QED
          BY <1>2, <5>1 DEF Stored
      <4> QED
        BY <4>1, <4>2
    <3> QED
      BY <3>1, <3>2, <3>3 DEF Terminalize
  <2> QED
    BY <2>1, <2>2, <2>3, <2>4, <2>5 DEF RunStep
<1> QED
  BY <1>3, <1>4

LEMMA NextAttempts == ASSUME StoreTypeOK, AttemptsInv, StoreStep PROVE AttemptsInv'
<1> SUFFICES ASSUME NEW r \in RunIds, NEW q \in RunIds, r # q, Stored(r)', Stored(q)', run'[r].task = run'[q].task
             PROVE  /\ run'[r].attempt # run'[q].attempt
                    /\ IsBound(run[r].task)' => ~(run'[r].status = "STARTED" /\ run'[q].status = "STARTED")
  BY DEF AttemptsInv
<1>1. CASE RowStep
  <2>1. run' = run
    BY <1>1 DEF RowStep, store, EndWork, InsertHandoff, CreateTask, SaveTask, RequestFor, Decide, AdmitBinding
  <2>2. Stored(r) /\ Stored(q) /\ run[r].task = run[q].task /\ run[r].task \in Tasks
    BY <2>1 DEF Stored, StoreTypeOK, RunRows
  <2>3. r \in RunsOf(run[r].task)
    BY <2>2 DEF RunsOf
  <2>4. IsBound(run[r].task)' => IsBound(run[r].task)
    BY <2>1, <2>2, <2>3, NewlyBound DEF IsBound
  <2> QED
    BY <2>1, <2>2, <2>4 DEF AttemptsInv
<1>2. CASE StartStep
  <2>1. PICK s \in RunIds, t \in Tasks, n \in Attempts :
            /\ run[s] = None
            /\ run' = [run EXCEPT ![s] = [task |-> t, attempt |-> n, status |-> "STARTED",
                                          digest |-> None, post |-> "none"]]
            /\ \A p \in RunsOf(t) : run[p].attempt < n
            /\ IsBound(t) => ~Unresolved(t)
            /\ UNCHANGED <<work, handoff, bound, task, approval>>
    BY <1>2, StartsInsert
  <2>2. \A p \in RunIds \ {s} : run'[p] = run[p]
    BY <2>1 DEF StoreTypeOK
  <2>3. run'[s] = [task |-> t, attempt |-> n, status |-> "STARTED", digest |-> None, post |-> "none"]
    BY <2>1 DEF StoreTypeOK
  <2>4. ASSUME NEW p \in RunIds \ {s}, Stored(p)', run'[p].task = t
        PROVE  /\ run'[p].attempt # n
               /\ IsBound(t) => run'[p].status # "STARTED"
    <3>1. p \in RunsOf(t)
      BY <2>2, <2>4 DEF Stored, RunsOf
    <3>2. run[p].attempt \in Attempts /\ n \in Nat
      BY <3>1 DEF RunsOf, Stored, StoreTypeOK, RunRows, Attempts
    <3>3. run[p].attempt < n /\ (IsBound(t) => run[p].status # "STARTED")
      BY <2>1, <3>1 DEF Unresolved
    <3> QED
      BY <2>2, <3>2, <3>3 DEF Attempts
  <2>5. IsBound(run[r].task)' => IsBound(run'[r].task)
    BY <2>1 DEF IsBound
  <2>6. CASE r = s
    BY <2>3, <2>4, <2>5, <2>6
  <2>7. CASE q = s
    BY <2>3, <2>4, <2>5, <2>7
  <2>8. CASE r # s /\ q # s
    BY <2>2, <2>5, <2>8 DEF AttemptsInv, Stored
  <2> QED
    BY <2>6, <2>7, <2>8
<1>3. CASE RunStep \/ \E s \in RunIds : EndStep(s)
  <2>1. /\ run'[r].task = run[r].task /\ run'[r].attempt = run[r].attempt
        /\ run'[q].task = run[q].task /\ run'[q].attempt = run[q].attempt
        /\ run[r].task = run[q].task
    BY <1>3, RunsStay
  <2>2. IsBound(run[r].task)' => IsBound(run[r].task)
    BY <1>3, <2>1, RunsStay DEF IsBound
  <2>3. CASE Stored(r) /\ Stored(q)
    BY <1>3, <2>1, <2>2, <2>3, RunsStay DEF AttemptsInv
  <2>4. CASE ~Stored(r) /\ Stored(q)
    <3>1. q \in RunsOf(run[r].task)
      BY <2>1, <2>4 DEF RunsOf
    <3> QED
      BY <1>3, <2>1, <2>2, <2>4, <3>1, RunsStay
  <2>5. CASE Stored(r) /\ ~Stored(q)
    <3>1. r \in RunsOf(run[q].task)
      BY <2>1, <2>5 DEF RunsOf
    <3> QED
      BY <1>3, <2>1, <2>2, <2>5, <3>1, RunsStay
  <2>6. CASE ~Stored(r) /\ ~Stored(q)
    <3>1. PICK s \in RunIds, x \in RunRows : run' = [run EXCEPT ![s] = x]
      BY <1>3, RunsChange
    <3> QED
      BY <2>6, <3>1 DEF StoreTypeOK, Stored
  <2> QED
    BY <2>3, <2>4, <2>5, <2>6
<1> QED
  BY <1>1, <1>2, <1>3 DEF StoreStep

(* The containment of an open attempt is recorded, or what was observed in *)
(* it.                                                                     *)
Bound(x, y) ==
    /\ x.status = "STARTED" /\ y.status = "STARTED" /\ y.post = x.post
    /\ x.digest = None /\ y.digest \in Digests
Observed(x, y) ==
    /\ x.status = "STARTED" /\ y.status = "STARTED" /\ y.digest = x.digest
    /\ x.digest # None /\ x.post = "none" /\ y.post \in {"verified", "uncertain"}

(* What a step does to the evidence of a run that is stored after it.      *)
LEMMA EvidenceStays ==
    ASSUME StoreTypeOK, EvidenceInv, RunStep \/ \E r \in RunIds : EndStep(r), NEW q \in RunIds,
           Stored(q)', IsBound(run[q].task)
    PROVE  /\ Stored(q)
           /\ run'[q].digest # run[q].digest => Bound(run[q], run'[q])
           /\ run'[q].post # run[q].post => Observed(run[q], run'[q])
           /\ run[q].post = "uncertain" => run'[q].status = run[q].status
<1>0. Stored(q)
  BY RunsStay
<1>1. CASE \E s \in RunIds, row \in RunRows : row.status \in RunStatus /\ Copy(s, row) /\ SaveRun(s, row)
  <2>1. PICK s \in RunIds, row \in RunRows : row.status \in RunStatus /\ Copy(s, row) /\ SaveRun(s, row)
    BY <1>1
  <2>2. CASE s = q
    <3>1. run'[q] = row /\ row.task = run[q].task /\ Savable(q, row)
      BY <2>1, <2>2 DEF SaveRun, StoreTypeOK, Copy
    <3>2. SameEvidence(run[q], row)
      BY <3>1 DEF Savable
    <3>3. run[q].post = "uncertain" => run[q].digest # None /\ run[q].status = "STARTED"
      BY <1>0 DEF EvidenceInv
    <3>4. run[q].post = "uncertain" => row.status = "STARTED"
      BY <1>0, <3>1, <3>3 DEF Savable
    <3> QED
      BY <1>0, <3>1, <3>2, <3>3, <3>4 DEF SameEvidence
  <2>3. CASE s # q
    BY <1>0, <2>1, <2>3 DEF SaveRun, StoreTypeOK
  <2> QED
    BY <2>2, <2>3
<1>2. CASE \E s \in RunIds, d \in Digests : RecordBinding(s, d)
  <2>1. PICK s \in RunIds, d \in Digests : RecordBinding(s, d)
    BY <1>2
  <2> QED
    BY <1>0, <2>1 DEF RecordBinding, Bound, Open, Stored, StoreTypeOK, RunRows
<1>3. CASE \E s \in RunIds, d \in Digests, p \in {"verified", "uncertain"} : RecordPost(s, d, p)
  <2>1. PICK s \in RunIds, d \in Digests, p \in {"verified", "uncertain"} : RecordPost(s, d, p)
    BY <1>3
  <2> QED
    BY <1>0, <2>1, NoneAssumption DEF RecordPost, Observed, Open, Stored, StoreTypeOK, RunRows
<1>4. CASE \E s \in RunIds : DeleteRun(s)
  <2>1. PICK s \in RunIds : DeleteRun(s)
    BY <1>4
  <2> QED
    BY <1>0, <2>1 DEF DeleteRun, Stored, StoreTypeOK, RunRows
<1>5. CASE \E s \in RunIds : EndStep(s)
  <2>1. PICK s \in RunIds, verdict \in Verdicts : Terminalize(s, verdict)
    BY <1>5 DEF EndStep
  <2> QED
    BY <1>0, <2>1 DEF Terminalize, Open, Stored, StoreTypeOK, RunRows
<1> QED
  BY <1>1, <1>2, <1>3, <1>4, <1>5 DEF RunStep

LEMMA NextEvidence == ASSUME StoreTypeOK, EvidenceInv, StoreStep PROVE EvidenceInv'
<1> SUFFICES ASSUME NEW r \in RunIds, Stored(r)', IsBound(run[r].task)'
             PROVE  /\ run'[r].post # "none" => run'[r].digest # None
                    /\ run'[r].post = "uncertain" => run'[r].status = "STARTED"
  BY DEF EvidenceInv
<1>1. CASE RowStep
  <2>1. run' = run
    BY <1>1 DEF RowStep, store, EndWork, InsertHandoff, CreateTask, SaveTask, RequestFor, Decide, AdmitBinding
  <2>2. Stored(r) /\ run[r].task \in Tasks
    BY <2>1 DEF Stored, StoreTypeOK, RunRows
  <2>3. r \in RunsOf(run[r].task)
    BY <2>2 DEF RunsOf
  <2>4. IsBound(run[r].task)
    BY <2>1, <2>2, <2>3, NewlyBound DEF IsBound
  <2> QED
    BY <2>1, <2>2, <2>4 DEF EvidenceInv
<1>2. CASE StartStep
  <2>1. PICK s \in RunIds, t \in Tasks, n \in Attempts :
            /\ run[s] = None
            /\ run' = [run EXCEPT ![s] = [task |-> t, attempt |-> n, status |-> "STARTED",
                                          digest |-> None, post |-> "none"]]
            /\ UNCHANGED <<work, handoff, bound, task, approval>>
    BY <1>2, StartsInsert
  <2>2. CASE r = s
    BY <2>1, <2>2 DEF StoreTypeOK
  <2>3. CASE r # s
    <3>1. run'[r] = run[r]
      BY <2>1, <2>3 DEF StoreTypeOK
    <3>2. Stored(r) /\ IsBound(run[r].task)
      BY <2>1, <3>1 DEF Stored, IsBound
    <3> QED
      BY <3>1, <3>2 DEF EvidenceInv
  <2> QED
    BY <2>2, <2>3
<1>3. CASE RunStep \/ \E s \in RunIds : EndStep(s)
  <2>1. IsBound(run[r].task)
    BY <1>3, RunsStay DEF IsBound
  <2>2. /\ Stored(r)
        /\ run'[r].digest # run[r].digest => Bound(run[r], run'[r])
        /\ run'[r].post # run[r].post => Observed(run[r], run'[r])
        /\ run[r].post = "uncertain" => run'[r].status = run[r].status
    BY <1>3, <2>1, EvidenceStays
  <2>3. /\ run[r].post # "none" => run[r].digest # None
        /\ run[r].post = "uncertain" => run[r].status = "STARTED"
    BY <2>1, <2>2 DEF EvidenceInv
  <2> QED
    BY <2>2, <2>3, NoneAssumption DEF Bound, Observed
<1> QED
  BY <1>1, <1>2, <1>3 DEF StoreStep

LEMMA NextStoreInv == ASSUME StoreInv, StoreStep PROVE StoreInv'
  BY StoreKeeps, NextBound, NextAttempts, NextEvidence DEF StoreInv

-----------------------------------------------------------------------------
(* The calls.                                                              *)

Preparing == Prepare \cup {"approval", "admission", "commit"}
Receiving == {"receive", "attempt", "observed"}
Holding == {"held", "turnAsk", "turnComplete", "turnUnaccepted", "turnThrown"}

(* What a call between two awaits still knows.                             *)
Inserts(f) == f.at = "insert" => f.h \in Handoffs /\ f.row \in HandoffRows
Prepares(f) ==
    /\ f.at \in Preparing => f.h \in Handoffs /\ f.t \in Tasks /\ bound[f.h] = f.t /\ f.digest = None
    /\ f.at \in Preparing \cup Turn => f.t \in Tasks /\ task[f.t] # None
    /\ f.at = "approval" => f.ap \in ApprovalIds
Cleared(f) ==
    f.at = "commit" /\ NeedsApproval(f.t) =>
        f.ap \in ApprovalIds /\ approval[f.ap] # None /\ approval[f.ap].task = f.t
Receives(f) == f.at \in Receiving => f.r \in RunIds /\ run[f.r] # None /\ run[f.r].task = f.t
Holds(f) == f.at \in Holding => f.r \in RunIds /\ f.row \in RunRows /\ Copy(f.r, f.row)

(* The attempt of a contained receiver is open, and has its evidence.      *)
Contains(f) ==
    /\ f.at = "receive" => f.digest = None
    /\ f.at = "attempt" /\ f.digest # None =>
          /\ run[f.r].status = "STARTED" /\ run[f.r].digest # None
          /\ IsBound(run[f.r].task)

FrameOK(f) == Inserts(f) /\ Prepares(f) /\ Cleared(f) /\ Receives(f) /\ Holds(f) /\ Contains(f)

CallsInv ==
    /\ call \in [Callers -> Frames]
    /\ \A c \in Callers : FrameOK(call[c])
    /\ \A c, d \in Callers :
          c # d /\ call[c].at \in Receiving /\ call[d].at \in Receiving => call[c].r # call[d].r

ContinuationInv == TypeOK /\ StoreInv /\ CallsInv /\ HandoffAgreement

(* The starts a call may make.                                             *)
CallStarts(c) ==
    \/ \E t \in Tasks, r \in RunIds : StartRun(t, r)
    \/ /\ call[c].at = "commit"
       /\ \E r \in RunIds : GuardedStart(call[c].h, call[c].t, call[c].ap, r)

(* A step of a call changes its own frame, and the store by one operation. *)
(* Only the receiver of an attempt ends it as one, and only a call that    *)
(* has started an attempt becomes its receiver.                            *)
Turns(c, f) ==
    /\ f \in Frames /\ call' = [call EXCEPT ![c] = f] /\ FrameOK(f)'
    /\ f.at \in Receiving => run[f.r] = None \/ (call[c].at \in Receiving /\ f.r = call[c].r)
CallStep(c) ==
    /\ \E f \in Frames : Turns(c, f)
    /\ RowStep \/ CallStarts(c) \/ RunStep \/ (call[c].at \in Receiving /\ EndStep(call[c].r))
OtherStep == UNCHANGED call /\ (RowStep \/ RunStep)

(* What a call knows stays true while others take their steps.             *)
LEMMA FramesStay ==
    ASSUME StoreTypeOK, EvidenceInv, NEW f \in Frames, FrameOK(f), StoreStep,
           f.at \in Receiving /\ run'[f.r] # run[f.r] => RunStep
    PROVE  FrameOK(f)'
<1>1. Kept /\ StoreTypeOK'
  BY StoreKeeps
<1>2. Inserts(f)'
  BY DEF FrameOK, Inserts
<1>3. Prepares(f)'
  BY <1>1, NoneAssumption DEF FrameOK, Prepares, Kept
<1>4. Cleared(f)'
  BY <1>1, NoneAssumption DEF FrameOK, Cleared, Prepares, Preparing, NeedsApproval, Kept
<1>5. Receives(f)'
  BY <1>1 DEF FrameOK, Receives, Kept
<1>6. Holds(f)'
  BY <1>1 DEF FrameOK, Holds, Copy, Kept
<1>7. Contains(f)'
  <2> SUFFICES ASSUME f.at = "attempt", f.digest # None
               PROVE  /\ run'[f.r].status = "STARTED" /\ run'[f.r].digest # None
                      /\ IsBound(run[f.r].task)'
    BY DEF FrameOK, Contains
  <2>1. /\ f.r \in RunIds /\ run[f.r] # None /\ f.at \in Receiving
        /\ run[f.r].status = "STARTED" /\ run[f.r].digest # None
        /\ IsBound(run[f.r].task) /\ Stored(f.r)
    BY DEF FrameOK, Receives, Contains, Receiving, Stored
  <2>2. run'[f.r].task = run[f.r].task /\ run[f.r].task \in Tasks
    BY <1>1, <2>1 DEF Kept, StoreTypeOK, RunRows
  <2>3. IsBound(run[f.r].task)'
    BY <2>1, <2>2, BoundGrows DEF IsBound
  <2>4. CASE run'[f.r] = run[f.r]
    BY <2>1, <2>3, <2>4
  <2>5. CASE RunStep
    <3>1. run'[f.r].status = "STARTED" /\ run'[f.r].digest # None
      <4>1. CASE \E s \in RunIds, row \in RunRows : row.status \in RunStatus /\ Copy(s, row) /\ SaveRun(s, row)
        <5>1. PICK s \in RunIds, row \in RunRows : row.status \in RunStatus /\ Copy(s, row) /\ SaveRun(s, row)
          BY <4>1
        <5>2. CASE s = f.r
          <6>1. run'[f.r] = row /\ row.task = run[f.r].task /\ Savable(f.r, row)
            BY <5>1, <5>2 DEF SaveRun, StoreTypeOK, Copy
          <6> QED
            BY <2>1, <6>1 DEF Savable, SameEvidence
        <5>3. CASE s # f.r
          BY <2>1, <5>1, <5>3 DEF SaveRun, StoreTypeOK
        <5> QED
          BY <5>2, <5>3
      <4>2. CASE \E s \in RunIds, d \in Digests : RecordBinding(s, d)
        BY <2>1, <4>2, NoneAssumption DEF RecordBinding, StoreTypeOK, RunRows
      <4>3. CASE \E s \in RunIds, d \in Digests, p \in {"verified", "uncertain"} : RecordPost(s, d, p)
        BY <2>1, <4>3 DEF RecordPost, StoreTypeOK, RunRows
      <4>4. CASE \E s \in RunIds : DeleteRun(s)
        BY <2>1, <4>4 DEF DeleteRun, StoreTypeOK
      <4> QED
        BY <2>5, <4>1, <4>2, <4>3, <4>4 DEF RunStep
    <3> QED
      BY <2>3, <3>1
  <2> QED
    BY <2>1, <2>4, <2>5
<1> QED
  BY <1>2, <1>3, <1>4, <1>5, <1>6, <1>7 DEF FrameOK

(* A call that ends knows nothing.                                         *)
LEMMA IdleKnowsNothing == Idle \in Frames /\ Idle.at = "idle" /\ FrameOK(Idle)'
  BY DEF Idle, Frames, Steps, Prepare, Turn, FrameOK, Inserts, Prepares, Cleared, Receives, Holds, Contains,
         Preparing, Receiving, Holding

LEMMA EndsTurn == ASSUME NEW c \in Callers, Ends(c) PROVE \E f \in Frames : Turns(c, f)
  BY IdleKnowsNothing DEF Ends, Become, Turns, Receiving

(* A preparing call knows its handoff and its task.                        *)
LEMMA PreparingKnows ==
    ASSUME StoreTypeOK, StoreStep, NEW c \in Callers, NEW f \in Frames, Become(c, f),
           f.at \in Preparing, f.at # "commit", f.digest = None, f.h \in Handoffs, f.t \in Tasks, bound[f.h] = f.t, task[f.t] # None,
           f.at = "approval" => f.ap \in ApprovalIds
    PROVE  Turns(c, f)
<1>1. bound'[f.h] = f.t /\ task'[f.t] # None
  BY StoreKeeps, NoneAssumption DEF Kept
<1>2. Prepares(f)'
  BY <1>1 DEF Prepares
<1>3. f.at \notin Receiving \cup Holding \cup {"insert", "commit", "attempt"}
  BY DEF Preparing, Prepare, Receiving, Holding
<1>4. FrameOK(f)'
  BY <1>2, <1>3 DEF FrameOK, Inserts, Cleared, Receives, Holds, Contains
<1> QED
  BY <1>3, <1>4 DEF Turns, Become

LEMMA ContinuesTurn ==
    ASSUME StoreTypeOK, StoreStep, NEW c \in Callers, NEW f \in Frames, Continues(c, f),
           f.digest = None, f.h \in Handoffs, f.t \in Tasks, bound[f.h] = f.t, task[f.t] # None
    PROVE  \E g \in Frames : Turns(c, g)
<1>1. PICK next \in Prepare \cup {"idle"} : next = NextStep(f.t, f.status, f.decided)
  BY DEF NextStep, Prepare
<1>2. CASE next = "idle"
  BY <1>1, <1>2, EndsTurn DEF Continues
<1>3. CASE next # "idle"
  <2> DEFINE g == [f EXCEPT !.at = next]
  <2>1. next \in Steps /\ next \in Preparing /\ next # "commit" /\ next # "approval"
    BY <1>1, <1>3 DEF Steps, Preparing, Prepare
  <2>2. g \in Frames /\ g.at = next /\ g.h = f.h /\ g.t = f.t /\ g.digest = None
    BY <2>1 DEF Frames
  <2>3. Become(c, g)
    BY <1>1, <1>3 DEF Continues
  <2> QED
    BY <2>1, <2>2, <2>3, PreparingKnows
<1> QED
  BY <1>2, <1>3

-----------------------------------------------------------------------------
(* Frames that differ in a few fields.                                     *)

Like(g, f) == g.h = f.h /\ g.t = f.t /\ g.ap = f.ap

LEMMA Moved ==
    ASSUME NEW f \in Frames, NEW to \in Steps
    PROVE  \E g \in Frames : g = [f EXCEPT !.at = to] /\ g.at = to /\ Like(g, f) /\ g.r = f.r /\ g.row = f.row
                            /\ g.digest = f.digest
<1> DEFINE e == [f EXCEPT !.at = to]
<1>1. e \in Frames
  BY DEF Frames
<1>2. e.at = to /\ Like(e, f) /\ e.r = f.r /\ e.row = f.row /\ e.digest = f.digest
  BY DEF Frames, Like
<1> QED
  BY <1>1, <1>2

LEMMA Learned ==
    ASSUME NEW f \in Frames
    PROVE  /\ \A status \in TaskStatus : \E g \in Frames :
                 g = [f EXCEPT !.status = status] /\ Like(g, f) /\ g.digest = f.digest
           /\ \A d \in {"PENDING", "APPROVED"} : \E g \in Frames :
                 g = [f EXCEPT !.decided = d] /\ Like(g, f) /\ g.digest = f.digest
<1>1. ASSUME NEW status \in TaskStatus
      PROVE  \E g \in Frames : g = [f EXCEPT !.status = status] /\ Like(g, f) /\ g.digest = f.digest
  <2> DEFINE e == [f EXCEPT !.status = status]
  <2>1. e \in Frames
    BY DEF Frames
  <2>2. Like(e, f) /\ e.digest = f.digest
    BY DEF Frames, Like
  <2> QED
    BY <2>1, <2>2
<1>2. ASSUME NEW d \in {"PENDING", "APPROVED"}
      PROVE  \E g \in Frames : g = [f EXCEPT !.decided = d] /\ Like(g, f) /\ g.digest = f.digest
  <2> DEFINE e == [f EXCEPT !.decided = d]
  <2>1. e \in Frames
    BY DEF Frames
  <2>2. Like(e, f) /\ e.digest = f.digest
    BY DEF Frames, Like
  <2> QED
    BY <2>1, <2>2
<1> QED
  BY <1>1, <1>2

(* Saving a row some caller holds, with any status.                        *)
LEMMA SavedRow ==
    ASSUME NEW r \in RunIds, NEW row \in RunRows, NEW status \in RunStatus, Copy(r, row),
           SaveRun(r, [row EXCEPT !.status = status])
    PROVE  RunStep
<1> DEFINE x == [row EXCEPT !.status = status]
<1>1. x \in RunRows /\ x.status \in RunStatus /\ Copy(r, x)
  BY DEF RunRows, RunStatus, Copy
<1> QED
  BY <1>1 DEF RunStep

-----------------------------------------------------------------------------
(* The steps of each part of the model.                                    *)

Sound == StoreTypeOK /\ CallsInv

LEMMA SameStore == UNCHANGED store => RowStep /\ StoreStep
  BY DEF RowStep, StoreStep

LEMMA Frame == ASSUME Sound, NEW c \in Callers PROVE call[c] \in Frames /\ FrameOK(call[c])
  BY DEF Sound, CallsInv

LEMMA DelegateSteps ==
    ASSUME Sound, NEW c \in Callers, NEW h \in Handoffs, NEW row \in HandoffRows, Delegate(c, h, row)
    PROVE  CallStep(c) \/ OtherStep
<1>1. UNCHANGED store /\ RowStep
  BY SameStore DEF Delegate
<1>2. CASE UNCHANGED call
  BY <1>1, <1>2 DEF OtherStep
<1>3. CASE Become(c, [Idle EXCEPT !.at = "insert", !.h = h, !.row = row])
  <2> DEFINE f == [Idle EXCEPT !.at = "insert", !.h = h, !.row = row]
  <2>1. f \in Frames /\ f.at = "insert" /\ f.h = h /\ f.row = row
    BY DEF Idle, Frames, Steps
  <2>2. FrameOK(f)'
    BY <2>1 DEF FrameOK, Inserts, Prepares, Cleared, Receives, Holds, Contains, Preparing, Prepare, Turn,
                Receiving, Holding
  <2> QED
    BY <1>1, <1>3, <2>1, <2>2 DEF CallStep, Turns, Become, Receiving
<1> QED
  BY <1>2, <1>3 DEF Delegate

LEMMA InsertSteps == ASSUME Sound, NEW c \in Callers, Insert(c) PROVE CallStep(c)
<1>1. call[c].h \in Handoffs /\ call[c].row \in HandoffRows
  BY Frame DEF Insert, FrameOK, Inserts
<1>2. RowStep
  BY <1>1, SameStore DEF Insert, RowStep
<1> QED
  BY <1>2, EndsTurn DEF Insert, CallStep

LEMMA BeginPrepareSteps ==
    ASSUME Sound, BoundInv, NEW c \in Callers, NEW goal \in {"prepare", "execute"},
           NEW h \in Handoffs, NEW t \in Tasks, NEW a \in ApprovalIds \cup {None}, BeginPrepare(c, goal, h, t, a)
    PROVE  CallStep(c)
<1>1. bound[h] = t /\ task[t] # None /\ task[t].status \in TaskStatus /\ UNCHANGED store
  BY NoneAssumption DEF BeginPrepare, BoundInv, Sound, StoreTypeOK, TaskRows
<1>2. PICK f \in Frames :
          /\ f = [Idle EXCEPT !.goal = goal, !.h = h, !.t = t, !.ap = a, !.status = task[t].status]
          /\ f.h = h /\ f.t = t /\ f.ap = a /\ f.digest = None
  <2> DEFINE e == [Idle EXCEPT !.goal = goal, !.h = h, !.t = t, !.ap = a, !.status = task[t].status]
  <2>1. e \in Frames
    BY <1>1 DEF Frames, Idle, Steps
  <2>2. e.h = h /\ e.t = t /\ e.ap = a /\ e.digest = None
    BY DEF Idle
  <2> WITNESS e \in Frames
  <2> QED
    BY <2>1, <2>2
<1>3. StoreTypeOK /\ StoreStep /\ RowStep
  BY <1>1, SameStore DEF Sound
<1>4. CASE Become(c, [f EXCEPT !.at = "admission"])
  <2>1. PICK g \in Frames :
            g = [f EXCEPT !.at = "admission"] /\ g.at = "admission" /\ Like(g, f) /\ g.digest = f.digest
    BY Moved DEF Steps
  <2>2. Turns(c, g)
    BY <1>1, <1>2, <1>3, <1>4, <2>1, PreparingKnows DEF Preparing, Like
  <2> QED
    BY <1>3, <2>2 DEF CallStep
<1>5. CASE a = None /\ Continues(c, f)
  BY <1>1, <1>2, <1>3, <1>5, ContinuesTurn DEF CallStep
<1>6. CASE a # None /\ Become(c, [f EXCEPT !.at = "approval"])
  <2>1. PICK g \in Frames :
            g = [f EXCEPT !.at = "approval"] /\ g.at = "approval" /\ Like(g, f) /\ g.digest = f.digest
    BY Moved DEF Steps
  <2>2. Turns(c, g)
    BY <1>1, <1>2, <1>3, <1>6, <2>1, PreparingKnows DEF Preparing, Like
  <2> QED
    BY <1>3, <2>2 DEF CallStep
<1> QED
  BY <1>2, <1>4, <1>5, <1>6 DEF BeginPrepare

(* The steps of preparation itself start from what the call knows.         *)
LEMMA PrepareSteps ==
    ASSUME Sound, NEW c \in Callers,
           ReadApproval(c) \/ Plan(c) \/ Wait(c) \/ Run(c) \/ \E a \in ApprovalIds : Request(c, a)
    PROVE  CallStep(c)
<1>1. PICK f \in Frames : f = call[c] /\ f.at \in Preparing
  BY Frame DEF ReadApproval, Plan, Wait, Run, Request, Transition, Preparing, Prepare
<1>2. f.h \in Handoffs /\ f.t \in Tasks /\ bound[f.h] = f.t /\ task[f.t] # None /\ f.digest = None
  BY <1>1, Frame DEF FrameOK, Prepares
<1>3. CASE ReadApproval(c)
  <2>1. PICK d \in {"PENDING", "APPROVED"} : Continues(c, [f EXCEPT !.decided = d])
    BY <1>1, <1>3 DEF ReadApproval
  <2>2. PICK g \in Frames : g = [f EXCEPT !.decided = d] /\ Like(g, f) /\ g.digest = f.digest
    BY Learned
  <2>3. RowStep /\ StoreStep
    BY <1>3, SameStore DEF ReadApproval
  <2> QED
    BY <1>2, <2>1, <2>2, <2>3, ContinuesTurn DEF CallStep, Like, Sound
<1>4. CASE Plan(c)
  <2>1. RowStep /\ StoreStep
    BY <1>1, <1>2, <1>4 DEF Plan, Transition, RowStep, StoreStep, TaskStatus
  <2>2. PICK g \in Frames : g = [f EXCEPT !.status = "PLANNING"] /\ Like(g, f) /\ g.digest = f.digest
    BY Learned DEF TaskStatus
  <2>3. Continues(c, g)
    BY <1>1, <1>4, <2>2 DEF Plan
  <2> QED
    BY <1>2, <2>1, <2>2, <2>3, ContinuesTurn DEF CallStep, Like, Sound
<1>5. CASE Wait(c)
  <2>1. RowStep /\ StoreStep
    BY <1>1, <1>2, <1>5 DEF Wait, Transition, RowStep, StoreStep, TaskStatus
  <2>2. PICK g \in Frames : g = [f EXCEPT !.status = "WAITING_APPROVAL"] /\ Like(g, f) /\ g.digest = f.digest
    BY Learned DEF TaskStatus
  <2>3. Continues(c, g)
    BY <1>1, <1>5, <2>2 DEF Wait
  <2> QED
    BY <1>2, <2>1, <2>2, <2>3, ContinuesTurn DEF CallStep, Like, Sound
<1>6. CASE Run(c)
  <2>1. RowStep /\ StoreStep
    BY <1>1, <1>2, <1>6 DEF Run, Transition, RowStep, StoreStep, TaskStatus
  <2>2. PICK g \in Frames : g = [f EXCEPT !.at = "admission", !.status = "RUNNING"] /\ g.at = "admission"
                            /\ Like(g, f) /\ g.digest = f.digest
    <3> DEFINE e == [f EXCEPT !.at = "admission", !.status = "RUNNING"]
    <3>1. e \in Frames
      BY DEF Frames, Steps, TaskStatus
    <3>2. e.at = "admission" /\ Like(e, f) /\ e.digest = f.digest
      BY DEF Frames, Like
    <3> WITNESS e \in Frames
    <3> QED
      BY <3>1, <3>2
  <2>3. CASE Become(c, [f EXCEPT !.at = "admission", !.status = "RUNNING"])
    <3>1. Turns(c, g)
      BY <1>2, <2>1, <2>2, <2>3, PreparingKnows DEF Like, Sound, Preparing
    <3> QED
      BY <2>1, <3>1 DEF CallStep
  <2>4. CASE Ends(c)
    BY <2>1, <2>4, EndsTurn DEF CallStep
  <2> QED
    BY <1>1, <1>6, <2>3, <2>4 DEF Run
<1>7. CASE \E a \in ApprovalIds : Request(c, a)
  <2>1. PICK a \in ApprovalIds : Request(c, a)
    BY <1>7
  <2>2. RowStep /\ StoreStep
    BY <1>1, <1>2, <2>1 DEF Request, RowStep, StoreStep
  <2>3. PICK d \in {"PENDING", "APPROVED"} : d = approval'[a].status
    BY <2>1 DEF Request, RequestFor, Sound, StoreTypeOK
  <2>4. PICK g \in Frames : g = [f EXCEPT !.decided = d] /\ Like(g, f) /\ g.digest = f.digest
    BY Learned
  <2>5. Continues(c, g)
    BY <1>1, <2>1, <2>3, <2>4 DEF Request
  <2> QED
    BY <1>2, <2>2, <2>4, <2>5, ContinuesTurn DEF CallStep, Like, Sound
<1> QED
  BY <1>3, <1>4, <1>5, <1>6, <1>7

(* A call at the commit of a start has found an approval for its task, if  *)
(* the plan needs one.                                                     *)
LEMMA CommitKnows ==
    ASSUME Sound, BoundInv, UNCHANGED store, NEW c \in Callers, NEW f \in Frames, Become(c, f), f.at = "commit",
           f.digest = None, f.h \in Handoffs, f.t \in Tasks, f.ap \in ApprovalIds \cup {None}, Admissible(f.h, f.t, f.ap)
    PROVE  CallStep(c)
<1>1. bound[f.h] = f.t /\ task[f.t] # None
  BY NoneAssumption DEF Admissible, BoundInv
<1>2. NeedsApproval(f.t) => f.ap \in ApprovalIds /\ approval[f.ap] # None /\ approval[f.ap].task = f.t
  BY DEF Admissible
<1>3. Prepares(f)' /\ Cleared(f)'
  BY <1>1, <1>2 DEF Prepares, Cleared, NeedsApproval, store
<1>4. FrameOK(f)'
  BY <1>3 DEF FrameOK, Inserts, Receives, Holds, Contains, Receiving, Holding
<1> QED
  BY <1>4, SameStore DEF CallStep, Turns, Become, Receiving

LEMMA StartSteps ==
    ASSUME Sound, BoundInv, NEW c \in Callers,
           \/ Admission(c)
           \/ \E h \in Handoffs, t \in Tasks, a \in ApprovalIds \cup {None} : BeginStart(c, h, t, a)
    PROVE  CallStep(c)
<1>1. CASE Admission(c)
  <2>1. call[c] \in Frames /\ call[c].at = "admission"
    BY <1>1, Frame DEF Admission, Goes
  <2>2. PICK f \in Frames :
            /\ f = [call[c] EXCEPT !.at = "commit"]
            /\ f.at = "commit" /\ f.h = call[c].h /\ f.t = call[c].t /\ f.ap = call[c].ap
            /\ f.digest = call[c].digest
    BY <2>1, Moved DEF Like, Steps
  <2>3. f.digest = None /\ f.h \in Handoffs /\ f.t \in Tasks /\ f.ap \in ApprovalIds \cup {None}
    BY <2>1, <2>2, Frame DEF FrameOK, Prepares, Preparing, Frames
  <2> QED
    BY <1>1, <2>2, <2>3, CommitKnows DEF Admission, Goes
<1>2. CASE \E h \in Handoffs, t \in Tasks, a \in ApprovalIds \cup {None} : BeginStart(c, h, t, a)
  <2>1. PICK h \in Handoffs, t \in Tasks, a \in ApprovalIds \cup {None} : BeginStart(c, h, t, a)
    BY <1>2
  <2> DEFINE f == [Idle EXCEPT !.at = "commit", !.goal = "start", !.h = h, !.t = t, !.ap = a]
  <2>2. f \in Frames /\ f.at = "commit" /\ f.h = h /\ f.t = t /\ f.ap = a /\ f.digest = None
    BY DEF Idle, Frames, Steps
  <2> QED
    BY <2>1, <2>2, CommitKnows DEF BeginStart
<1> QED
  BY <1>1, <1>2

LEMMA CommitSteps ==
    ASSUME Sound, NEW c \in Callers, NEW r \in RunIds, CommitStart(c, r)
    PROVE  CallStep(c)
<1>1. call[c] \in Frames /\ call[c].h \in Handoffs /\ call[c].t \in Tasks /\ call[c].digest = None
  BY Frame DEF CommitStart, FrameOK, Prepares, Preparing, Frames
<1>2. CallStarts(c) /\ StoreStep
  BY <1>1 DEF CommitStart, CallStarts, StartStep, StoreStep, Frames
<1>3. StoreTypeOK'
  BY <1>2, StoreKeeps DEF Sound
<1>4. PICK n \in Attempts :
          /\ run[r] = None
          /\ run' = [run EXCEPT ![r] = [task |-> call[c].t, attempt |-> n, status |-> "STARTED",
                                        digest |-> None, post |-> "none"]]
  BY DEF CommitStart, GuardedStart, InsertStarted
<1>5. run'[r] = [task |-> call[c].t, attempt |-> n, status |-> "STARTED", digest |-> None, post |-> "none"]
  BY <1>4 DEF Sound, StoreTypeOK
<1>6. run'[r] \in RunRows /\ run'[r] # None
  BY <1>1, <1>5, RowsAssumption DEF RunRows, RunStatus
<1>7. CASE Become(c, [call[c] EXCEPT !.at = "receive", !.r = r])
  <2>1. PICK f \in Frames :
            f = [call[c] EXCEPT !.at = "receive", !.r = r] /\ f.at = "receive" /\ Like(f, call[c]) /\ f.r = r
            /\ f.digest = call[c].digest
    <3> DEFINE e == [call[c] EXCEPT !.at = "receive", !.r = r]
    <3>0. "receive" \in Steps
      BY DEF Steps
    <3>1. e \in Frames
      BY <1>1, <3>0 DEF Frames
    <3>2. e.at = "receive" /\ Like(e, call[c]) /\ e.r = r /\ e.digest = call[c].digest
      BY <1>1 DEF Frames, Like
    <3> WITNESS e \in Frames
    <3> QED
      BY <3>1, <3>2
  <2>2. Receives(f)' /\ f.digest = None
    BY <1>1, <1>5, <1>6, <2>1 DEF Receives, Like
  <2>3. FrameOK(f)'
    BY <2>1, <2>2 DEF FrameOK, Inserts, Prepares, Cleared, Holds, Contains, Preparing, Prepare, Turn, Holding
  <2> QED
    BY <1>2, <1>4, <1>7, <2>1, <2>3 DEF CallStep, Turns, Become
<1>8. CASE Become(c, [Idle EXCEPT !.at = "held", !.r = r, !.row = run'[r]])
  <2>1. PICK f \in Frames :
            f = [Idle EXCEPT !.at = "held", !.r = r, !.row = run'[r]] /\ f.at = "held" /\ Like(f, Idle)
            /\ f.r = r /\ f.row = run'[r] /\ f.digest = Idle.digest
    <3> DEFINE e == [Idle EXCEPT !.at = "held", !.r = r, !.row = run'[r]]
    <3>1. e \in Frames
      BY <1>6 DEF Frames, Steps, Idle
    <3>2. e.at = "held" /\ Like(e, Idle) /\ e.r = r /\ e.row = run'[r] /\ e.digest = Idle.digest
      BY DEF Idle, Like
    <3> WITNESS e \in Frames
    <3> QED
      BY <3>1, <3>2
  <2>2. Holds(f)'
    BY <1>6, <2>1 DEF Holds, Copy
  <2>3. FrameOK(f)'
    BY <2>1, <2>2 DEF FrameOK, Inserts, Prepares, Cleared, Receives, Contains, Preparing, Prepare, Turn, Receiving
  <2> QED
    BY <1>2, <1>8, <2>1, <2>3 DEF CallStep, Turns, Become, Receiving
<1> QED
  BY <1>7, <1>8 DEF CommitStart

LEMMA ReceiverSteps ==
    ASSUME Sound, NEW c \in Callers,
           \/ Dispatch(c)
           \/ \E d \in Digests : DispatchContained(c, d)
           \/ \E p \in {"verified", "uncertain"} : Observe(c, p)
           \/ \E verdict \in Verdicts : Conclude(c, verdict)
    PROVE  CallStep(c)
<1>1. call[c] \in Frames /\ call[c].at \in Receiving
  BY Frame DEF Dispatch, DispatchContained, Observe, Conclude, Goes, Receiving
<1>2. call[c].r \in RunIds /\ run[call[c].r] # None /\ run[call[c].r].task = call[c].t
  BY <1>1, Frame DEF FrameOK, Receives
<1>3. CASE Dispatch(c)
  <2>1. PICK f \in Frames :
            /\ f = [call[c] EXCEPT !.at = "attempt"]
            /\ f.at = "attempt" /\ f.r = call[c].r /\ f.t = call[c].t /\ f.digest = call[c].digest
    BY <1>1, Moved DEF Like, Steps
  <2>2. RowStep
    BY <1>3, SameStore DEF Dispatch
  <2>3. Receives(f)'
    BY <1>2, <1>3, <2>1 DEF Receives, Dispatch, store
  <2>4. call[c].digest = None
    BY <1>1, <1>3, Frame DEF Dispatch, Goes, FrameOK, Contains
  <2>5. FrameOK(f)'
    BY <2>1, <2>3, <2>4 DEF FrameOK, Inserts, Prepares, Cleared, Holds, Contains, Preparing, Prepare, Turn, Holding
  <2> QED
    BY <1>1, <1>3, <2>1, <2>2, <2>5 DEF CallStep, Turns, Dispatch, Goes, Become
<1>4. CASE \E d \in Digests : DispatchContained(c, d)
  <2>1. PICK d \in Digests : DispatchContained(c, d)
    BY <1>4
  <2>2. PICK f \in Frames :
            f = [call[c] EXCEPT !.at = "attempt", !.digest = d] /\ f.at = "attempt" /\ Like(f, call[c])
            /\ f.r = call[c].r /\ f.digest = d
    <3> DEFINE e == [call[c] EXCEPT !.at = "attempt", !.digest = d]
    <3>1. e \in Frames
      BY <1>1 DEF Frames, Steps
    <3>2. e.at = "attempt" /\ Like(e, call[c]) /\ e.r = call[c].r /\ e.digest = d
      BY <1>1 DEF Frames, Like
    <3> WITNESS e \in Frames
    <3> QED
      BY <3>1, <3>2
  <2>3. RunStep /\ RecordBinding(f.r, d)
    BY <1>2, <2>1, <2>2 DEF DispatchContained, RunStep
  <2>4. Receives(f)'
    BY <1>2, <2>2, <2>3, StoreKeeps DEF Receives, Sound, Kept, StoreStep, Like
  <2>5. Contains(f)'
    BY <1>2, <2>2, <2>3, NoneAssumption DEF Contains, RecordBinding, Open, IsBound, Sound, StoreTypeOK, RunRows
  <2>6. FrameOK(f)'
    BY <2>2, <2>4, <2>5 DEF FrameOK, Inserts, Prepares, Cleared, Holds, Preparing, Prepare, Turn, Holding
  <2> QED
    BY <1>1, <2>1, <2>2, <2>3, <2>6 DEF CallStep, Turns, DispatchContained, Become
<1>5. CASE \E p \in {"verified", "uncertain"} : Observe(c, p)
  <2>1. PICK p \in {"verified", "uncertain"} : Observe(c, p)
    BY <1>5
  <2>2. PICK f \in Frames :
            /\ f = [call[c] EXCEPT !.at = "observed"]
            /\ f.at = "observed" /\ f.r = call[c].r /\ f.t = call[c].t
    BY <1>1, Moved DEF Like, Steps
  <2>3. RunStep
    BY <1>1, <1>2, <2>1 DEF Observe, RunStep, Frames
  <2>4. Receives(f)'
    BY <1>2, <2>2, <2>3, StoreKeeps DEF Receives, Sound, Kept, StoreStep
  <2>5. FrameOK(f)'
    BY <2>2, <2>4 DEF FrameOK, Inserts, Prepares, Cleared, Holds, Contains, Preparing, Prepare, Turn, Holding
  <2> QED
    BY <1>1, <2>1, <2>2, <2>3, <2>5 DEF CallStep, Turns, Observe, Goes, Become
<1>6. CASE \E verdict \in Verdicts : Conclude(c, verdict)
  BY <1>1, <1>6, EndsTurn DEF Conclude, CallStep, EndStep
<1> QED
  BY <1>3, <1>4, <1>5, <1>6

LEMMA HolderSteps ==
    ASSUME Sound, NEW c \in Callers,
           \/ \E r \in RunIds : Fetch(c, r)
           \/ \E status \in RunStatus : SaveHeld(c, status)
           \/ \E d \in Digests : RecordHeld(c, d)
    PROVE  CallStep(c) \/ OtherStep
<1>1. CASE \E r \in RunIds : Fetch(c, r)
  <2>1. PICK r \in RunIds : Fetch(c, r)
    BY <1>1
  <2>2. run[r] \in RunRows /\ run[r] # None
    BY <2>1 DEF Fetch, Stored, Sound, StoreTypeOK
  <2>3. PICK f \in Frames :
            f = [Idle EXCEPT !.at = "held", !.r = r, !.row = run[r]] /\ f.at = "held" /\ Like(f, Idle)
            /\ f.r = r /\ f.row = run[r] /\ f.digest = Idle.digest
    <3> DEFINE e == [Idle EXCEPT !.at = "held", !.r = r, !.row = run[r]]
    <3>1. e \in Frames
      BY <2>2 DEF Frames, Steps, Idle
    <3>2. e.at = "held" /\ Like(e, Idle) /\ e.r = r /\ e.row = run[r] /\ e.digest = Idle.digest
      BY DEF Idle, Like
    <3> WITNESS e \in Frames
    <3> QED
      BY <3>1, <3>2
  <2>4. RowStep /\ run' = run
    BY <2>1, SameStore DEF Fetch, store
  <2>5. Holds(f)'
    BY <2>2, <2>3, <2>4 DEF Holds, Copy
  <2>6. FrameOK(f)'
    BY <2>3, <2>5 DEF FrameOK, Inserts, Prepares, Cleared, Receives, Contains, Preparing, Prepare, Turn, Receiving
  <2> QED
    BY <2>1, <2>3, <2>4, <2>6 DEF CallStep, Turns, Fetch, Become, Receiving
<1>2. CASE \E status \in RunStatus : SaveHeld(c, status)
  <2>1. PICK status \in RunStatus : SaveHeld(c, status)
    BY <1>2
  <2>2. call[c].r \in RunIds /\ call[c].row \in RunRows /\ Copy(call[c].r, call[c].row)
    BY <2>1, Frame DEF SaveHeld, FrameOK, Holds, Holding
  <2>3. RunStep
    BY <2>1, <2>2, SavedRow DEF SaveHeld
  <2> QED
    BY <2>1, <2>3, EndsTurn DEF SaveHeld, CallStep
<1>3. CASE \E d \in Digests : RecordHeld(c, d)
  <2>1. call[c].r \in RunIds
    BY <1>3, Frame DEF RecordHeld, FrameOK, Holds, Holding
  <2> QED
    BY <1>3, <2>1 DEF RecordHeld, OtherStep, RunStep
<1> QED
  BY <1>1, <1>2, <1>3

LEMMA TurnSteps == ASSUME Sound, NEW c \in Callers, WorkTurn(c) PROVE CallStep(c)
<1>1. ASSUME NEW from \in Turn, NEW status \in TaskStatus, Transition(c, from, status)
      PROVE  RowStep /\ StoreStep /\ call[c].t \in Tasks /\ task[call[c].t] # None
  BY <1>1, Frame DEF Transition, FrameOK, Prepares, RowStep, StoreStep
<1>2. ASSUME NEW from \in {"turnPlan", "turnRun"}, NEW to \in {"turnRun", "turnStart"}, NEW status \in TaskStatus,
             TurnTransition(c, from, status, to)
      PROVE  CallStep(c)
  <2>1. RowStep /\ StoreStep /\ call[c].t \in Tasks /\ task[call[c].t] # None
    BY <1>1, <1>2 DEF TurnTransition, Turn
  <2>2. PICK f \in Frames : f = [call[c] EXCEPT !.at = to] /\ f.at = to /\ Like(f, call[c])
    BY Frame, Moved DEF Steps, Turn
  <2>3. Prepares(f)'
    BY <2>1, <2>2, StoreKeeps DEF Prepares, Like, Kept, Sound, Preparing, Prepare
  <2>4. FrameOK(f)'
    BY <2>2, <2>3 DEF FrameOK, Inserts, Cleared, Receives, Holds, Contains, Receiving, Holding
  <2> QED
    BY <1>2, <2>1, <2>2, <2>4 DEF CallStep, Turns, TurnTransition, Goes, Become, Receiving
<1>3. ASSUME NEW r \in RunIds, StartTurnRun(c, r)
      PROVE  CallStep(c)
  <2>1. call[c] \in Frames /\ call[c].t \in Tasks /\ task[call[c].t] # None
    BY <1>3, Frame DEF StartTurnRun, FrameOK, Prepares, Turn
  <2>2. CallStarts(c) /\ StoreStep
    BY <1>3, <2>1 DEF StartTurnRun, CallStarts, StartStep, StoreStep
  <2>3. PICK n \in Attempts :
            /\ run[r] = None
            /\ run' = [run EXCEPT ![r] = [task |-> call[c].t, attempt |-> n, status |-> "STARTED",
                                          digest |-> None, post |-> "none"]]
    BY <1>3 DEF StartTurnRun, StartRun, InsertStarted
  <2>4. run'[r] \in RunRows /\ run'[r] # None
    BY <2>1, <2>3, RowsAssumption DEF RunRows, RunStatus, Sound, StoreTypeOK
  <2>5. PICK f \in Frames :
            f = [call[c] EXCEPT !.at = "turnAsk", !.r = r, !.row = run'[r]] /\ f.at = "turnAsk" /\ Like(f, call[c])
            /\ f.r = r /\ f.row = run'[r] /\ f.digest = call[c].digest
    <3> DEFINE e == [call[c] EXCEPT !.at = "turnAsk", !.r = r, !.row = run'[r]]
    <3>1. e \in Frames
      BY <2>1, <2>4 DEF Frames, Steps, Turn
    <3>2. e.at = "turnAsk" /\ Like(e, call[c]) /\ e.r = r /\ e.row = run'[r] /\ e.digest = call[c].digest
      BY <2>1 DEF Frames, Like
    <3> WITNESS e \in Frames
    <3> QED
      BY <3>1, <3>2
  <2>6. Holds(f)'
    BY <2>4, <2>5 DEF Holds, Copy
  <2>7. Prepares(f)'
    BY <2>1, <2>2, <2>5, StoreKeeps DEF Prepares, Like, Kept, Sound, Preparing, Prepare
  <2>8. FrameOK(f)'
    BY <2>5, <2>6, <2>7 DEF FrameOK, Inserts, Cleared, Receives, Contains, Receiving
  <2> QED
    BY <1>3, <2>2, <2>5, <2>8 DEF CallStep, Turns, StartTurnRun, Become, Receiving
<1>4. ASSUME NEW from \in {"turnAsk", "turnComplete"}, NEW status \in RunStatus,
             NEW to \in {"turnComplete", "turnUnaccepted", "turnThrown"}, SaveTurnRun(c, from, status, to)
      PROVE  CallStep(c)
  <2>1. /\ call[c] \in Frames /\ call[c].t \in Tasks /\ task[call[c].t] # None
        /\ call[c].r \in RunIds /\ call[c].row \in RunRows /\ Copy(call[c].r, call[c].row)
    BY <1>4, Frame DEF SaveTurnRun, Goes, FrameOK, Prepares, Holds, Turn, Holding
  <2>2. RunStep /\ StoreStep
    BY <1>4, <2>1, SavedRow DEF SaveTurnRun, StoreStep
  <2>3. PICK f \in Frames :
            f = [call[c] EXCEPT !.at = to] /\ f.at = to /\ Like(f, call[c]) /\ f.r = call[c].r /\ f.row = call[c].row
    <3>1. to \in Steps
      BY DEF Steps, Turn
    <3> QED
      BY <2>1, <3>1, Moved
  <2>4. Holds(f)'
    BY <2>1, <2>2, <2>3, StoreKeeps DEF Holds, Copy, Kept, Sound
  <2>5. Prepares(f)'
    BY <2>1, <2>2, <2>3, StoreKeeps DEF Prepares, Like, Kept, Sound, Preparing, Prepare
  <2>6. FrameOK(f)'
    BY <2>3, <2>4, <2>5 DEF FrameOK, Inserts, Cleared, Receives, Contains, Receiving
  <2> QED
    BY <1>4, <2>2, <2>3, <2>6 DEF CallStep, Turns, SaveTurnRun, Goes, Become, Receiving
<1>5. ASSUME NEW from \in Turn, NEW status \in TaskStatus, EndTurn(c, from, status)
      PROVE  CallStep(c)
  BY <1>1, <1>5, EndsTurn DEF EndTurn, CallStep
<1> QED
  BY <1>2, <1>3, <1>4, <1>5 DEF WorkTurn, TaskStatus, RunStatus, Turn

(* Whoever begins a turn, and whoever is not a call.                       *)
LEMMA BeginTurnSteps ==
    ASSUME Sound, NEW c \in Callers, NEW t \in Tasks, BeginTurn(c, t)
    PROVE  CallStep(c)
<1>1. RowStep /\ StoreStep
  BY DEF BeginTurn, RowStep, StoreStep, Kinds
<1>2. task'[t] # None
  BY StoreKeeps, <1>1, RowsAssumption DEF BeginTurn, CreateTask, Sound, StoreTypeOK, TaskRows, TaskStatus, Kinds
<1> DEFINE f == [Idle EXCEPT !.at = "turnPlan", !.t = t]
<1>3. f \in Frames /\ f.at = "turnPlan" /\ f.t = t
  BY DEF Idle, Frames, Steps, Turn
<1>4. Prepares(f)'
  BY <1>2, <1>3 DEF Prepares, Preparing, Prepare
<1>5. FrameOK(f)'
  BY <1>3, <1>4 DEF FrameOK, Inserts, Cleared, Receives, Holds, Contains, Receiving, Holding
<1> QED
  BY <1>1, <1>3, <1>5 DEF CallStep, Turns, BeginTurn, Become, Receiving

LEMMA OtherSteps ==
    ASSUME Elsewhere \/ \E h \in Handoffs, t \in Tasks : Admit(h, t)
    PROVE  OtherStep
  BY DEF OtherStep, Elsewhere, Admit, RowStep, RunStep

(* Every step is one of these.                                             *)
LEMMA NextSteps ==
    ASSUME Sound, BoundInv, [Next]_vars
    PROVE  OtherStep \/ \E c \in Callers : CallStep(c)
<1>1. CASE UNCHANGED vars
  BY <1>1, SameStore DEF vars, OtherStep
<1>2. ASSUME NEW c \in Callers, Continue(c)
      PROVE  CallStep(c) \/ OtherStep
  BY <1>2, DelegateSteps, InsertSteps, BeginPrepareSteps, PrepareSteps, StartSteps, CommitSteps, ReceiverSteps,
     HolderSteps DEF Continue
<1>3. ASSUME NEW c \in Callers, Abandon(c)
      PROVE  CallStep(c)
  BY <1>3, EndsTurn, SameStore DEF Abandon, CallStep
<1> QED
  BY <1>1, <1>2, <1>3, BeginTurnSteps, TurnSteps, OtherSteps DEF Next

-----------------------------------------------------------------------------
(* The invariant.                                                          *)

LEMMA StartsKnow == ASSUME Sound, NEW c \in Callers, CallStarts(c) PROVE StartStep
  BY Frame DEF CallStarts, StartStep, FrameOK, Prepares, Preparing, Frames

LEMMA EndsItsOwn ==
    ASSUME StoreTypeOK, NEW r \in RunIds, EndStep(r), NEW q \in RunIds, q # r
    PROVE  run'[q] = run[q]
  BY DEF EndStep, Terminalize, StoreTypeOK

LEMMA NextCalls ==
    ASSUME StoreInv, CallsInv, [Next]_vars
    PROVE  StoreStep /\ CallsInv'
<1>1. Sound /\ BoundInv /\ EvidenceInv
  BY DEF Sound, StoreInv
<1>2. CASE OtherStep
  <2>1. StoreStep /\ call' = call
    BY <1>2 DEF OtherStep, StoreStep
  <2>2. ASSUME NEW d \in Callers
        PROVE  FrameOK(call[d])'
    <3>1. PICK f \in Frames : f = call[d] /\ FrameOK(f)
      BY <1>1, Frame
    <3>2. RunStep \/ run' = run
      BY <1>2 DEF OtherStep, RowStep, store, EndWork, InsertHandoff, CreateTask, SaveTask, RequestFor, Decide,
                  AdmitBinding
    <3>3. FrameOK(f)'
      BY <1>1, <2>1, <3>1, <3>2, FramesStay DEF Sound
    <3> QED
      BY <2>1, <3>1, <3>3
  <2> QED
    BY <2>1, <2>2 DEF CallsInv
<1>3. ASSUME NEW c \in Callers, CallStep(c)
      PROVE  StoreStep /\ CallsInv'
  <2>1. StoreStep
    BY <1>1, <1>3, StartsKnow, Frame DEF CallStep, StoreStep, FrameOK, Receives
  <2>2. PICK f \in Frames : Turns(c, f)
    BY <1>3 DEF CallStep
  <2>3. call \in [Callers -> Frames] /\ call' \in [Callers -> Frames] /\ call'[c] = f
    BY <2>2 DEF CallsInv, Turns
  <2>4. \A d \in Callers \ {c} : call'[d] = call[d]
    BY <2>2, <2>3 DEF Turns
  <2>5. ASSUME NEW d \in Callers \ {c}
        PROVE  FrameOK(call[d])'
    <3>1. PICK g \in Frames : g = call[d] /\ FrameOK(g)
      BY <1>1, Frame
    <3>2. ASSUME g.at \in Receiving, run'[g.r] # run[g.r]
          PROVE  RunStep
      <4>1. g.r \in RunIds /\ run[g.r] # None
        BY <3>1, <3>2 DEF FrameOK, Receives
      <4>2. CASE RowStep
        BY <3>2, <4>2 DEF RowStep, store, EndWork, InsertHandoff, CreateTask, SaveTask, RequestFor, Decide, AdmitBinding
      <4>3. CASE CallStarts(c)
        <5>1. PICK s \in RunIds : \E x : run[s] = None /\ run' = [run EXCEPT ![s] = x]
          BY <1>1, <4>3, StartsKnow, StartsInsert
        <5> QED
          BY <1>1, <3>2, <4>1, <5>1 DEF Sound, StoreTypeOK
      <4>4. CASE call[c].at \in Receiving /\ EndStep(call[c].r)
        <5>1. call[c].r \in RunIds /\ call[c].r # g.r
          BY <1>1, <3>1, <3>2, <4>4, Frame DEF CallsInv, FrameOK, Receives
        <5> QED
          BY <1>1, <3>2, <4>1, <4>4, <5>1, EndsItsOwn DEF Sound
      <4> QED
        BY <1>3, <4>2, <4>3, <4>4 DEF CallStep
    <3>3. FrameOK(g)'
      BY <1>1, <2>1, <3>1, <3>2, FramesStay DEF Sound
    <3> QED
      BY <2>4, <3>1, <3>3
  <2>6. FrameOK(call[c])'
    BY <2>2, <2>3 DEF Turns
  <2>7. ASSUME NEW d \in Callers \ {c}, call'[c].at \in Receiving, call'[d].at \in Receiving
        PROVE  call'[c].r # call'[d].r
    <3>1. run[call[d].r] # None
      BY <1>1, <2>4, <2>7, Frame DEF FrameOK, Receives
    <3>2. run[f.r] = None \/ (call[c].at \in Receiving /\ f.r = call[c].r)
      BY <2>2, <2>3, <2>7 DEF Turns
    <3> QED
      BY <2>3, <2>4, <2>7, <3>1, <3>2 DEF CallsInv
  <2> QED
    BY <2>1, <2>3, <2>4, <2>5, <2>6, <2>7 DEF CallsInv
<1> QED
  BY <1>1, <1>2, <1>3, NextSteps

(* Whoever is told of a handoff found it there, or recorded it.            *)
LEMMA NextHanded ==
    ASSUME Sound, [Next]_vars, NEW told \in handed', told \notin handed
    PROVE  told \in Handoffs \X HandoffRows /\ handoff'[told[1]] = told[2]
<1>1. ASSUME NEW c \in Callers, NEW h \in Handoffs, NEW row \in HandoffRows, Delegate(c, h, row)
      PROVE  told = <<h, row>> /\ handoff'[h] = row
  BY <1>1 DEF Delegate, store
<1>2. ASSUME NEW c \in Callers, Insert(c)
      PROVE  told = <<call[c].h, call[c].row>> /\ handoff'[call[c].h] = call[c].row
  BY <1>2, Frame DEF Insert, InsertHandoff, FrameOK, Inserts, Sound, StoreTypeOK, store
<1>3. ASSUME NEW c \in Callers, Insert(c)
      PROVE  call[c].h \in Handoffs /\ call[c].row \in HandoffRows
  BY <1>3, Frame DEF Insert, FrameOK, Inserts
<1>4. \/ \E c \in Callers : \/ \E h \in Handoffs, row \in HandoffRows : Delegate(c, h, row)
                            \/ Insert(c)
  <2>1. ASSUME NEW c \in Callers, Continue(c)
        PROVE  \/ handed' = handed
               \/ \E h \in Handoffs, row \in HandoffRows : Delegate(c, h, row)
               \/ Insert(c)
    <3>1. ASSUME ReadApproval(c) \/ Plan(c) \/ Wait(c) \/ Run(c) \/ \E a \in ApprovalIds : Request(c, a)
          PROVE  handed' = handed
      BY <3>1 DEF ReadApproval, Plan, Wait, Run, Request, Transition
    <3>2. ASSUME NEW h \in Handoffs, NEW t \in Tasks, NEW a \in ApprovalIds \cup {None},
                 BeginStart(c, h, t, a) \/ \E goal \in {"prepare", "execute"} : BeginPrepare(c, goal, h, t, a)
          PROVE  handed' = handed
      BY <3>2 DEF BeginStart, BeginPrepare
    <3>3. ASSUME Admission(c) \/ Dispatch(c) \/ \E r \in RunIds : CommitStart(c, r) \/ Fetch(c, r)
          PROVE  handed' = handed
      BY <3>3 DEF Admission, Dispatch, CommitStart, Fetch
    <3>4. ASSUME \/ \E d \in Digests : DispatchContained(c, d) \/ RecordHeld(c, d)
                 \/ \E p \in {"verified", "uncertain"} : Observe(c, p)
                 \/ \E verdict \in Verdicts : Conclude(c, verdict)
                 \/ \E status \in RunStatus : SaveHeld(c, status)
          PROVE  handed' = handed
      BY <3>4 DEF DispatchContained, RecordHeld, Observe, Conclude, SaveHeld
    <3> QED
      BY <2>1, <3>1, <3>2, <3>3, <3>4 DEF Continue
  <2>2. ASSUME NEW c \in Callers, WorkTurn(c)
        PROVE  handed' = handed
    BY <2>2 DEF WorkTurn, TurnTransition, Transition, StartTurnRun, SaveTurnRun, EndTurn
  <2>3. handed' # handed
    OBVIOUS
  <2> QED
    BY <2>1, <2>2, <2>3 DEF Next, Abandon, BeginTurn, Admit, Elsewhere, vars
<1> QED
  BY <1>1, <1>2, <1>3, <1>4

LEMMA InitInv == Init => ContinuationInv
<1> SUFFICES ASSUME Init PROVE ContinuationInv
  OBVIOUS
<1>1. StoreTypeOK
  BY DEF Init, StoreInit, StoreTypeOK, WorkStatus
<1>2. BoundInv /\ AttemptsInv /\ EvidenceInv
  BY DEF Init, StoreInit, BoundInv, AttemptsInv, EvidenceInv, Stored
<1>3. \A c \in Callers : call[c] = Idle
  BY DEF Init
<1>4. Idle \in Frames /\ Idle.at = "idle"
  BY DEF Idle, Frames, Steps
<1>5. \A c \in Callers : FrameOK(call[c])
  BY <1>3, <1>4 DEF FrameOK, Inserts, Prepares, Cleared, Receives, Holds, Contains, Preparing, Prepare, Turn, Receiving,
                    Holding
<1>6. CallsInv
  BY <1>3, <1>4, <1>5 DEF CallsInv, Init, Receiving
<1> QED
  BY <1>1, <1>2, <1>6 DEF ContinuationInv, StoreInv, TypeOK, CallsInv, HandoffAgreement, Init

LEMMA NextInv == ContinuationInv /\ [Next]_vars => ContinuationInv'
<1> SUFFICES ASSUME ContinuationInv, [Next]_vars PROVE ContinuationInv'
  OBVIOUS
<1>1. StoreStep /\ CallsInv'
  BY NextCalls DEF ContinuationInv
<1>2. StoreInv'
  BY <1>1, NextStoreInv DEF ContinuationInv
<1>3. Sound /\ Kept
  BY <1>1, StoreKeeps DEF ContinuationInv, StoreInv, Sound
<1>4. \A told \in handed' : told \in Handoffs \X HandoffRows /\ handoff'[told[1]] = told[2]
  <2> SUFFICES ASSUME NEW told \in handed', told \in handed
               PROVE  told \in Handoffs \X HandoffRows /\ handoff'[told[1]] = told[2]
    BY <1>3, NextHanded
  <2>1. told \in Handoffs \X HandoffRows /\ handoff[told[1]] = told[2]
    BY DEF ContinuationInv, TypeOK, HandoffAgreement
  <2>2. told[1] \in Handoffs /\ told[2] # None
    BY <2>1, RowsAssumption
  <2> QED
    BY <1>3, <2>1, <2>2 DEF Kept
<1> QED
  BY <1>1, <1>2, <1>4 DEF ContinuationInv, StoreInv, TypeOK, CallsInv, HandoffAgreement

(* Every reachable state satisfies the invariant: attempts are numbered    *)
(* apart, a bound task has at most one that is open, what was observed has *)
(* its containment, and every call that goes on between two awaits is      *)
(* right about the little that it relies on.                               *)
THEOREM ContinuationInvariant == Spec => []ContinuationInv
<1> QED
  BY InitInv, NextInv, PTL DEF Spec

(* Every caller who was told that its handoff is recorded finds its own    *)
(* content under the id.                                                   *)
THEOREM HandoffsAgree == Spec => []HandoffAgreement
<1>1. ContinuationInv => HandoffAgreement
  BY DEF ContinuationInv
<1> QED
  BY <1>1, ContinuationInvariant, PTL

(* Two receivers are never inside contained attempts of one task.          *)
THEOREM OneContained == Spec => []OneContainedAttempt
<1>1. ContinuationInv => OneContainedAttempt
  <2> SUFFICES ASSUME ContinuationInv, NEW c \in Callers, NEW d \in Callers, c # d, Contained(c), Contained(d),
                      call[c].t = call[d].t
               PROVE  FALSE
    BY DEF OneContainedAttempt
  <2>1. ASSUME NEW e \in Callers, Contained(e)
        PROVE  /\ call[e].at \in Receiving /\ call[e].r \in RunIds
               /\ Stored(call[e].r) /\ run[call[e].r].task = call[e].t
               /\ run[call[e].r].status = "STARTED" /\ IsBound(run[call[e].r].task)
    BY <2>1 DEF ContinuationInv, CallsInv, FrameOK, Receives, Contains, Contained, Receiving, Stored
  <2>2. call[c].r # call[d].r
    BY <2>1 DEF ContinuationInv, CallsInv
  <2> QED
    BY <2>1, <2>2 DEF ContinuationInv, StoreInv, AttemptsInv
<1> QED
  BY <1>1, ContinuationInvariant, PTL

(* An attempt of a bound task starts only while the task runs, its work is *)
(* active, and a plan that needs an approval has one that stands.          *)
THEOREM StartsApproved == Spec => ApprovedStart
<1>1. ASSUME ContinuationInv, [Next]_vars, NEW r \in RunIds, NEW h \in Handoffs, Starts(r), bound[h] = run'[r].task
      PROVE  /\ task[bound[h]].status = "RUNNING"
             /\ work[handoff[h].work] = "ACTIVE"
             /\ NeedsApproval(bound[h]) =>
                  \E a \in ApprovalIds :
                     approval[a] # None /\ approval[a].task = bound[h] /\ approval[a].status = "APPROVED"
  <2>1. Sound /\ BoundInv
    BY <1>1 DEF ContinuationInv, StoreInv, Sound
  <2>2. PICK c \in Callers : CallStarts(c)
    <3>1. ~RowStep
      BY <1>1 DEF Starts, RowStep, store, EndWork, InsertHandoff, CreateTask, SaveTask, RequestFor, Decide, AdmitBinding
    <3>2. ~(RunStep \/ \E s \in RunIds : EndStep(s))
      <4> SUFFICES ASSUME RunStep \/ \E s \in RunIds : EndStep(s) PROVE FALSE
        OBVIOUS
      <4>1. PICK s \in RunIds : \E x : run[s] # None /\ run' = [run EXCEPT ![s] = x]
        BY <2>1, RunsChange DEF Sound
      <4> QED
        BY <1>1, <2>1, <4>1 DEF Starts, Sound, StoreTypeOK
    <3>3. ASSUME NEW c \in Callers, call[c].at \in Receiving
          PROVE  call[c].r \in RunIds
      BY <2>1, <3>3, Frame DEF FrameOK, Receives
    <3> QED
      BY <1>1, <2>1, <3>1, <3>2, <3>3, NextSteps DEF OtherStep, CallStep
  <2>3. CASE \E t \in Tasks, s \in RunIds : StartRun(t, s)
    <3>1. PICK t \in Tasks, s \in RunIds : StartRun(t, s)
      BY <2>3
    <3>2. s = r /\ run'[r].task = t
      BY <1>1, <2>1, <3>1 DEF StartRun, InsertStarted, Starts, Sound, StoreTypeOK
    <3> QED
      BY <1>1, <3>1, <3>2 DEF StartRun, IsBound
  <2>4. CASE call[c].at = "commit" /\ \E s \in RunIds : GuardedStart(call[c].h, call[c].t, call[c].ap, s)
    <3>1. PICK s \in RunIds : GuardedStart(call[c].h, call[c].t, call[c].ap, s)
      BY <2>4
    <3>2. s = r /\ run'[r].task = call[c].t
      BY <1>1, <2>1, <3>1 DEF GuardedStart, InsertStarted, Starts, Sound, StoreTypeOK
    <3>3. Prepares(call[c]) /\ Cleared(call[c]) /\ call[c].h \in Handoffs /\ call[c].t \in Tasks
      BY <2>1, <2>4, Frame DEF FrameOK, Prepares, Preparing
    <3>4. call[c].h = h
      BY <1>1, <2>1, <3>1, <3>2, <3>3, NoneAssumption DEF GuardedStart, BoundInv
    <3> QED
      BY <1>1, <2>4, <3>1, <3>2, <3>3, <3>4, NoneAssumption DEF GuardedStart, Cleared
  <2> QED
    BY <2>2, <2>3, <2>4 DEF CallStarts
<1>2. ContinuationInv /\ [Next]_vars =>
        [\A r \in RunIds : \A h \in Handoffs :
            Starts(r) /\ bound[h] = run'[r].task =>
                LET t == bound[h]
                IN  /\ task[t].status = "RUNNING"
                    /\ work[handoff[h].work] = "ACTIVE"
                    /\ NeedsApproval(t) =>
                        \E a \in ApprovalIds :
                            approval[a] # None /\ approval[a].task = t /\ approval[a].status = "APPROVED"]_vars
  BY <1>1
<1> QED
  BY <1>2, ContinuationInvariant, PTL DEF Spec, ApprovedStart

-----------------------------------------------------------------------------
(* The attempts of bound tasks keep the promise of the ledger.             *)

BookOf(t) == IF IsBound(t) THEN {EntryOf(run[r]) : r \in RunsOf(t)} ELSE {}
Book == [t \in Tasks |-> BookOf(t)]

LEMMA BookSame ==
    ASSUME NEW t \in Tasks, IsBound(t)' <=> IsBound(t),
           IsBound(t) => RunsOf(t)' = RunsOf(t) /\ \A r \in RunsOf(t) : run'[r] = run[r]
    PROVE  BookOf(t)' = BookOf(t)
<1>1. CASE ~IsBound(t)
  BY <1>1 DEF BookOf
<1>2. CASE IsBound(t)
  <2>1. BookOf(t)' = {EntryOf(run'[r]) : r \in RunsOf(t)'}
    BY <1>2 DEF BookOf, EntryOf
  <2>2. BookOf(t) = {EntryOf(run[r]) : r \in RunsOf(t)}
    BY <1>2 DEF BookOf
  <2> QED
    BY <1>2, <2>1, <2>2
<1> QED
  BY <1>1, <1>2

(* Nothing is in the book for a run that is not changed, and a task that   *)
(* becomes bound has no runs.                                              *)
LEMMA RowsLeaveBook ==
    ASSUME StoreTypeOK, RowStep, NEW t \in Tasks
    PROVE  BookOf(t)' = BookOf(t)
<1>1. run' = run
  BY DEF RowStep, store, EndWork, InsertHandoff, CreateTask, SaveTask, RequestFor, Decide, AdmitBinding
<1>2. StoreStep /\ RunsOf(t)' = RunsOf(t)
  BY <1>1 DEF StoreStep, RunsOf, Stored
<1>3. CASE IsBound(t)
  BY <1>1, <1>2, <1>3, BoundGrows, BookSame
<1>4. CASE ~IsBound(t) /\ ~IsBound(t)'
  BY <1>1, <1>2, <1>4, BookSame
<1>5. CASE ~IsBound(t) /\ IsBound(t)'
  <2>1. RunsOf(t)' = {}
    BY <1>2, <1>5, NewlyBound
  <2>2. BookOf(t)' = {EntryOf(run'[r]) : r \in RunsOf(t)'}
    BY <1>5 DEF BookOf, EntryOf
  <2> QED
    BY <1>5, <2>1, <2>2 DEF BookOf
<1> QED
  BY <1>3, <1>4, <1>5

(* A run that is changed is in the book of its task alone.                 *)
LEMMA OthersLeaveBook ==
    ASSUME StoreTypeOK, NEW s \in RunIds, NEW x \in RunRows, run' = [run EXCEPT ![s] = x], bound' = bound,
           run[s] = None \/ run[s].task = x.task, NEW t \in Tasks, t # x.task \/ ~IsBound(t)
    PROVE  BookOf(t)' = BookOf(t)
<1>1. IsBound(t)' <=> IsBound(t)
  BY DEF IsBound
<1>2. ASSUME t # x.task
      PROVE  RunsOf(t)' = RunsOf(t) /\ \A r \in RunsOf(t) : run'[r] = run[r]
  <2>1. \A r \in RunIds \ {s} : run'[r] = run[r]
    BY DEF StoreTypeOK
  <2>2. run'[s] = x /\ s \notin RunsOf(t)
    BY <1>2 DEF StoreTypeOK, RunsOf, Stored
  <2>3. s \notin RunsOf(t)'
    BY <1>2, <2>2 DEF RunsOf
  <2>4. \A r \in RunIds \ {s} : r \in RunsOf(t)' <=> r \in RunsOf(t)
    BY <2>1 DEF RunsOf, Stored
  <2>5. RunsOf(t) \subseteq RunIds /\ RunsOf(t)' \subseteq RunIds
    BY DEF RunsOf
  <2> QED
    BY <2>1, <2>2, <2>3, <2>4, <2>5
<1> QED
  BY <1>1, <1>2, BookSame

(* A guarded start adds one open entry with a higher number.               *)
LEMMA StartsOpen ==
    ASSUME StoreTypeOK, NEW t \in Tasks, IsBound(t), NEW s \in RunIds, NEW n \in Attempts, run[s] = None,
           run' = [run EXCEPT ![s] = [task |-> t, attempt |-> n, status |-> "STARTED", digest |-> None, post |-> "none"]],
           bound' = bound
    PROVE  BookOf(t)' = BookOf(t) \cup {Ledger!Entry(n)}
<1>1. \A r \in RunIds \ {s} : run'[r] = run[r]
  BY DEF StoreTypeOK
<1>2. run'[s] = [task |-> t, attempt |-> n, status |-> "STARTED", digest |-> None, post |-> "none"]
  BY DEF StoreTypeOK
<1>3. run'[s] # None
  BY <1>2, RowsAssumption DEF RunRows, RunStatus
<1>4. RunsOf(t)' = RunsOf(t) \cup {s} /\ s \notin RunsOf(t)
  BY <1>1, <1>2, <1>3 DEF RunsOf, Stored
<1>5. EntryOf(run'[s]) = Ledger!Entry(n)
  BY <1>2 DEF EntryOf, Ledger!Entry
<1>6. BookOf(t)' = {EntryOf(run'[r]) : r \in RunsOf(t)'} /\ BookOf(t) = {EntryOf(run[r]) : r \in RunsOf(t)}
  BY DEF BookOf, EntryOf, IsBound
<1>7. \A r \in RunsOf(t) : run'[r] = run[r]
  BY <1>1, <1>4 DEF RunsOf
<1> QED
  BY <1>4, <1>5, <1>6, <1>7

(* A changed run of a bound task has its entry replaced, as its number is  *)
(* no other's.                                                             *)
LEMMA ChangesAmend ==
    ASSUME StoreTypeOK, AttemptsInv, NEW s \in RunIds, Stored(s), IsBound(run[s].task), NEW x \in RunRows,
           run' = [run EXCEPT ![s] = x], x.task = run[s].task, x.status # "DELETED", bound' = bound
    PROVE  /\ EntryOf(run[s]) \in BookOf(x.task)
           /\ BookOf(x.task)' = (BookOf(x.task) \ {EntryOf(run[s])}) \cup {EntryOf(x)}
<1> DEFINE t == x.task
<1>0. t \in Tasks /\ IsBound(t)
  BY DEF RunRows
<1>1. \A r \in RunIds \ {s} : run'[r] = run[r]
  BY DEF StoreTypeOK
<1>2. run'[s] = x /\ x # None
  BY RowsAssumption DEF StoreTypeOK
<1>3. RunsOf(t)' = RunsOf(t) /\ s \in RunsOf(t)
  BY <1>1, <1>2 DEF RunsOf, Stored
<1>4. BookOf(t)' = {EntryOf(run'[r]) : r \in RunsOf(t)} /\ BookOf(t) = {EntryOf(run[r]) : r \in RunsOf(t)}
  BY <1>0, <1>3 DEF BookOf, EntryOf, IsBound
<1>5. \A r \in RunsOf(t) \ {s} : run'[r] = run[r] /\ EntryOf(run[r]) # EntryOf(run[s])
  <2>1. ASSUME NEW r \in RunsOf(t) \ {s}
        PROVE  run[r].attempt # run[s].attempt
    BY <1>3 DEF AttemptsInv, RunsOf
  <2> QED
    BY <1>1, <2>1 DEF EntryOf, RunsOf
<1> HIDE DEF t
<1>6. BookOf(t)' = (BookOf(t) \ {EntryOf(run[s])}) \cup {EntryOf(x)}
  BY <1>2, <1>3, <1>4, <1>5
<1> QED
  BY <1>3, <1>4, <1>6 DEF t

(* No run of a bound task is deleted.                                      *)
LEMMA BoundStored ==
    ASSUME StoreTypeOK, RunStep \/ \E r \in RunIds : EndStep(r), NEW q \in RunIds, Stored(q), IsBound(run[q].task)
    PROVE  Stored(q)'
<1>1. run'[q] # None
  BY StoreKeeps DEF Kept, StoreStep, Stored
<1>2. CASE \E s \in RunIds, row \in RunRows : row.status \in RunStatus /\ Copy(s, row) /\ SaveRun(s, row)
  BY <1>1, <1>2 DEF SaveRun, StoreTypeOK, Stored, RunStatus
<1>3. CASE \E s \in RunIds, d \in Digests : RecordBinding(s, d)
  BY <1>1, <1>3 DEF RecordBinding, StoreTypeOK, Stored, RunRows
<1>4. CASE \E s \in RunIds, d \in Digests, p \in {"verified", "uncertain"} : RecordPost(s, d, p)
  BY <1>1, <1>4 DEF RecordPost, StoreTypeOK, Stored, RunRows
<1>5. CASE \E s \in RunIds : DeleteRun(s)
  BY <1>1, <1>5 DEF DeleteRun, StoreTypeOK, Stored, RunRows
<1>6. CASE \E s \in RunIds : EndStep(s)
  BY <1>1, <1>6 DEF EndStep, Terminalize, StoreTypeOK, Stored, RunRows, Verdicts
<1> QED
  BY <1>2, <1>3, <1>4, <1>5, <1>6 DEF RunStep

LEMMA LedgerStarts ==
    ASSUME StoreInv, StartStep
    PROVE  Book' = Book \/ \E t \in Tasks : Ledger!Open(t)
<1>1. PICK s \in RunIds, t \in Tasks, n \in Attempts :
          /\ run[s] = None
          /\ run' = [run EXCEPT ![s] = [task |-> t, attempt |-> n, status |-> "STARTED",
                                        digest |-> None, post |-> "none"]]
          /\ \A q \in RunsOf(t) : run[q].attempt < n
          /\ IsBound(t) => ~Unresolved(t)
          /\ UNCHANGED <<work, handoff, bound, task, approval>>
  BY StartsInsert
<1>2. StoreTypeOK
  BY DEF StoreInv
<1> DEFINE x == [task |-> t, attempt |-> n, status |-> "STARTED", digest |-> None, post |-> "none"]
<1>3. x \in RunRows /\ x.task = t
  BY DEF RunRows, RunStatus
<1>4. \A u \in Tasks : u # t \/ ~IsBound(u) => BookOf(u)' = BookOf(u)
  BY <1>1, <1>2, <1>3, OthersLeaveBook
<1>5. CASE ~IsBound(t)
  BY <1>4, <1>5 DEF Book
<1>6. CASE IsBound(t)
  <2>1. BookOf(t)' = BookOf(t) \cup {Ledger!Entry(n)}
    BY <1>1, <1>2, <1>6, StartsOpen
  <2>2. Book' = [Book EXCEPT ![t] = Book[t] \cup {Ledger!Entry(n)}]
    BY <1>4, <2>1 DEF Book
  <2>3. \A e \in Book[t] : e.status # "STARTED" /\ e.attempt < n
    BY <1>1, <1>6 DEF Book, BookOf, EntryOf, Unresolved
  <2>4. Ledger!Open(t)
    BY <2>2, <2>3 DEF Ledger!Open, Book, BookOf
  <2> QED
    BY <2>4
<1> QED
  BY <1>5, <1>6

LEMMA LedgerChanges ==
    ASSUME StoreInv, RunStep \/ \E r \in RunIds : EndStep(r)
    PROVE  \/ Book' = Book
           \/ \E t \in Tasks : \E e \in Book[t] : Ledger!Bind(t, e) \/ Ledger!Observe(t, e) \/ Ledger!Close(t, e)
<1>1. PICK s \in RunIds, x \in RunRows :
          /\ run[s] # None /\ run' = [run EXCEPT ![s] = x]
          /\ x.task = run[s].task /\ x.attempt = run[s].attempt
          /\ UNCHANGED <<work, handoff, bound, task, approval>>
  BY RunsChange DEF StoreInv
<1>2. StoreTypeOK /\ EvidenceInv /\ AttemptsInv
  BY DEF StoreInv
<1>3. PICK t \in Tasks : t = x.task
  BY DEF RunRows
<1>4. \A u \in Tasks : u # t \/ ~IsBound(u) => BookOf(u)' = BookOf(u)
  BY <1>1, <1>2, <1>3, OthersLeaveBook
<1>5. run'[s] = x /\ \A r \in RunIds \ {s} : run'[r] = run[r]
  BY <1>1, <1>2 DEF StoreTypeOK
<1>6. CASE ~IsBound(t)
  BY <1>4, <1>6 DEF Book
<1>7. CASE IsBound(t) /\ ~Stored(s)
  <2>1. ~Stored(s)'
    BY <1>1, <1>2, <1>3, <1>7, EvidenceStays
  <2>2. RunsOf(t)' = RunsOf(t) /\ \A r \in RunsOf(t) : run'[r] = run[r]
    BY <1>5, <1>7, <2>1 DEF RunsOf, Stored
  <2>3. BookOf(t)' = BookOf(t)
    BY <1>1, <2>2, BookSame DEF IsBound
  <2> QED
    BY <1>4, <2>3 DEF Book
<1>8. CASE IsBound(t) /\ Stored(s)
  <2>1. Stored(s)' /\ x.status \in RunStatus
    BY <1>1, <1>2, <1>3, <1>5, <1>8, BoundStored DEF Stored, RunRows
  <2>2. /\ x.digest # run[s].digest => Bound(run[s], x)
        /\ x.post # run[s].post => Observed(run[s], x)
        /\ run[s].post = "uncertain" => x.status = run[s].status
    BY <1>1, <1>2, <1>3, <1>5, <1>8, <2>1, EvidenceStays
  <2>3. x.status = "STARTED" => run[s].status = "STARTED"
    BY <1>1, <1>2, <1>3, <1>5, <1>8, <2>1, RunsStay
  <2> DEFINE e == EntryOf(run[s])
             f == EntryOf(x)
  <2>4. e \in BookOf(t) /\ BookOf(t)' = (BookOf(t) \ {e}) \cup {f}
    BY <1>1, <1>2, <1>3, <1>8, <2>1, ChangesAmend DEF RunStatus
  <2>5. Book[t] = BookOf(t) /\ Book' = [Book EXCEPT ![t] = (Book[t] \ {e}) \cup {f}]
    BY <1>4, <2>4 DEF Book
  <2>6. Ledger!Amend(t, e, f)
    BY <2>5 DEF Ledger!Amend, Book, BookOf
  <2>7. /\ e.attempt = run[s].attempt /\ e.status = run[s].status /\ e.digest = run[s].digest /\ e.post = run[s].post
    BY DEF EntryOf
  <2>8. CASE x.digest # run[s].digest
    <3>1. f = [e EXCEPT !.digest = x.digest] /\ x.digest \in Digests
      BY <1>1, <2>2, <2>8 DEF Bound, EntryOf
    <3>2. Ledger!Bind(t, e)
      BY <2>2, <2>6, <2>7, <2>8, <3>1 DEF Ledger!Bind, Bound
    <3> QED
      BY <2>4, <2>5, <3>2
  <2>9. CASE x.post # run[s].post
    <3>1. f = [e EXCEPT !.post = x.post] /\ x.post \in {"verified", "uncertain"}
      BY <1>1, <2>2, <2>9 DEF Observed, EntryOf
    <3>2. Ledger!Observe(t, e)
      BY <2>2, <2>6, <2>7, <2>9, <3>1 DEF Ledger!Observe, Observed
    <3> QED
      BY <2>4, <2>5, <3>2
  <2>10. CASE x.digest = run[s].digest /\ x.post = run[s].post /\ x.status # run[s].status
    <3>1. f = [e EXCEPT !.status = x.status]
      BY <1>1, <2>10 DEF EntryOf
    <3>2. x.status \in Ledger!Verdicts /\ run[s].post # "uncertain"
      BY <2>1, <2>2, <2>3, <2>10 DEF Ledger!Verdicts, RunStatus
    <3>3. Ledger!Close(t, e)
      BY <2>6, <2>7, <3>1, <3>2 DEF Ledger!Close
    <3> QED
      BY <2>4, <2>5, <3>3
  <2>11. CASE x.digest = run[s].digest /\ x.post = run[s].post /\ x.status = run[s].status
    <3>1. e = f
      BY <1>1, <2>11 DEF EntryOf
    <3>2. BookOf(t)' = BookOf(t)
      BY <2>4, <3>1
    <3> QED
      BY <1>4, <3>2 DEF Book
  <2> QED
    BY <2>8, <2>9, <2>10, <2>11
<1> QED
  BY <1>6, <1>7, <1>8

(* Whichever operations run, by whoever holds which rows, the attempts of  *)
(* bound tasks keep the promise of AttemptLedger.                          *)
THEOREM LedgerKept == Spec => KeepsLedger
<1>1. Init => Ledger!Init
  BY NoneAssumption DEF Init, StoreInit, Ledger!Init, IsBound
<1>2. ASSUME ContinuationInv, [Next]_vars
      PROVE  Ledger!Next \/ Book' = Book
  <2>1. StoreInv /\ StoreStep
    BY <1>2, NextCalls DEF ContinuationInv
  <2>2. CASE RowStep
    BY <2>1, <2>2, RowsLeaveBook DEF Book, StoreInv
  <2>3. CASE StartStep
    BY <2>1, <2>3, LedgerStarts DEF Ledger!Next
  <2>4. CASE RunStep \/ \E r \in RunIds : EndStep(r)
    BY <2>1, <2>4, LedgerChanges DEF Ledger!Next, Book, BookOf
  <2> QED
    BY <2>1, <2>2, <2>3, <2>4 DEF StoreStep
<1>3. ContinuationInv /\ [Next]_vars => [Ledger!Next]_Book
  BY <1>2
<1> QED
  BY <1>1, <1>3, ContinuationInvariant, PTL DEF Spec, KeepsLedger, Ledger!Spec, Book, BookOf
=============================================================================
