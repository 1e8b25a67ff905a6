--------------------------- MODULE ApprovalLedger ---------------------------
(***************************************************************************)
(* What the approval gates promise the user, of whatever turns, crashes    *)
(* and stale anchors happen behind them. A gate of a plan is asked only    *)
(* after the one before it was granted for that plan; a request is decided *)
(* once; only a granted request is spent, on the mutation of its own gate  *)
(* and plan; and an apply, a commit or a merge is spent on exactly what    *)
(* the request showed. Asking, deciding and spending are three different   *)
(* steps.                                                                  *)
(***************************************************************************)

CONSTANTS
    Ids,      \* of requests
    Plans,
    Scopes,   \* what a request may show
    None      \* no plan

VARIABLES
    requests, \* the request of each id
    spent     \* the mutations carried out

Before ==
    [APPLY |-> "PLAN", COMMIT |-> "APPLY", PUSH |-> "COMMIT",
     PR |-> "PUSH", MERGE |-> "PR", REMOTE |-> "MERGE"]
Mutating == DOMAIN Before
Exact == {"APPLY", "COMMIT", "MERGE"}

Unasked == [gate |-> "PLAN", plan |-> None, scope |-> {}, status |-> "NONE"]

Init ==
    /\ requests = [id \in Ids |-> Unasked]
    /\ spent = {}

Proposals ==
    [gate : Mutating \cup {"PLAN"}, plan : Plans, scope : Scopes, status : {"PENDING"}]

Granted(gate, plan) ==
    \E id \in Ids :
        /\ requests[id].gate = gate
        /\ requests[id].plan = plan
        /\ requests[id].status = "APPROVED"

(* A plan is proposed once; its gates are asked in their order.            *)
Due(gate, plan) ==
    \/ gate = "PLAN" /\ \A id \in Ids : requests[id].plan # plan
    \/ gate \in Mutating /\ Granted(Before[gate], plan)

Ask(id) ==
    /\ requests[id].status = "NONE"
    /\ requests'[id] \in Proposals
    /\ Due(requests'[id].gate, requests'[id].plan)
    /\ \A other \in Ids \ {id} : requests'[other] = requests[other]
    /\ UNCHANGED spent

Decide(id) ==
    /\ requests[id].status = "PENDING"
    /\ \E verdict \in {"APPROVED", "REJECTED"} :
          requests' = [requests EXCEPT ![id].status = verdict]
    /\ UNCHANGED spent

Spend(id) ==
    LET request == requests[id] IN
    /\ request.status = "APPROVED"
    /\ request.gate \in Mutating
    /\ \E m \in spent' :
          /\ m.op = request.gate /\ m.approval = id /\ m.plan = request.plan
          /\ m.scope \in (IF m.op \in Exact THEN {request.scope} ELSE Scopes)
          /\ spent' = spent \cup {m}
    /\ UNCHANGED requests

Next == \E id \in Ids : Ask(id) \/ Decide(id) \/ Spend(id)

Spec == Init /\ [][Next]_<<requests, spent>>
=============================================================================
