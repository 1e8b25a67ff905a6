----------------------------- MODULE ProviderCall -----------------------------
(***************************************************************************)
(* What a caller of an AI provider relies on: one call gets one reply,     *)
(* and a reply that is an answer is the whole of what the provider's       *)
(* process said before it ended. Everything else is a failure.             *)
(***************************************************************************)
EXTENDS Naturals

CONSTANT Pending     \* no reply yet

(* EXECUTION_FAILED stands for AUTH_REQUIRED too.                         *)
Failures == {"TIMEOUT", "UNAVAILABLE", "EXECUTION_FAILED", "EMPTY_OUTPUT"}
Answer(n) == [kind |-> "ANSWER", text |-> n]
Failure(why) == [kind |-> why, text |-> 0]

VARIABLES
    said,    \* how much the process has written
    over,    \* the process and whoever shares its output have ended
    reply    \* what the caller was told

vars == <<said, over, reply>>

Init == said = 0 /\ over = FALSE /\ reply = Pending

Say ==
    /\ ~over
    /\ said' \in Nat /\ said' >= said
    /\ over' \in BOOLEAN
    /\ UNCHANGED reply

ReplyWithAnswer ==
    /\ reply = Pending
    /\ over /\ said > 0
    /\ reply' = Answer(said)
    /\ UNCHANGED <<said, over>>

ReplyWithFailure ==
    /\ reply = Pending
    /\ \E why \in Failures : reply' = Failure(why)
    /\ UNCHANGED <<said, over>>

Next == Say \/ ReplyWithAnswer \/ ReplyWithFailure

Spec == Init /\ [][Next]_vars
=============================================================================
