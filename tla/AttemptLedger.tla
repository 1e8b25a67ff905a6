---------------------------- MODULE AttemptLedger ----------------------------
(***************************************************************************)
(* What the store of task runs promises about the attempts of a            *)
(* continuation: they are numbered upward, at most one is open, what was   *)
(* recorded of the containment of an attempt is never changed or lost, and *)
(* an attempt whose outcome is uncertain is never given one.               *)
(***************************************************************************)
EXTENDS Naturals

CONSTANTS
    Tasks,
    Attempts,    \* the numbers, naturals, an attempt may have
    Digests,     \* of containment bindings
    None         \* no evidence

VARIABLE ledger  \* the attempts of each task

Verdicts == {"SUCCEEDED", "FAILED"}
Entry(n) == [attempt |-> n, status |-> "STARTED", digest |-> None, post |-> "none"]

Init == ledger = [t \in Tasks |-> {}]

Open(t) ==
    /\ \A e \in ledger[t] : e.status # "STARTED"
    /\ \E n \in Attempts :
        /\ \A e \in ledger[t] : e.attempt < n
        /\ ledger' = [ledger EXCEPT ![t] = @ \cup {Entry(n)}]

Amend(t, e, f) == ledger' = [ledger EXCEPT ![t] = (@ \ {e}) \cup {f}]

Bind(t, e) ==
    /\ e.status = "STARTED" /\ e.digest = None
    /\ \E d \in Digests : Amend(t, e, [e EXCEPT !.digest = d])

Observe(t, e) ==
    /\ e.status = "STARTED" /\ e.digest # None /\ e.post = "none"
    /\ \E p \in {"verified", "uncertain"} : Amend(t, e, [e EXCEPT !.post = p])

(* A closed attempt stays closed, though its verdict may be corrected.     *)
Close(t, e) ==
    /\ e.post # "uncertain"
    /\ \E v \in Verdicts : Amend(t, e, [e EXCEPT !.status = v])

Next ==
    \E t \in Tasks :
        \/ Open(t)
        \/ \E e \in ledger[t] : Bind(t, e) \/ Observe(t, e) \/ Close(t, e)

Spec == Init /\ [][Next]_ledger
=============================================================================
