------------------------- MODULE MCSemanticHarness --------------------------
(* A probe, three scenarios by themselves, and the two others in one run.  *)
(* The first two commands write at most a word to each stream; an answer   *)
(* is long enough for a marker to leave the history of the scanner, and to *)
(* be captured no more.                                                    *)
EXTENDS SemanticHarness

Asked == <<"A", "B", "C", "D", "E">>

Plan(mode, scenarios, calls) == [mode |-> mode, scenarios |-> scenarios, calls |-> calls]

Plans ==
    {Plan("probe-provider", <<>>, 0), Plan("run-all", <<"C", "E">>, 1)}
    \cup {Plan("run", <<"A">>, 1), Plan("run", <<"B">>, 1), Plan("run", <<"D">>, 1)}

Short == [out |-> 1, err |-> 1]
Texts == [VERSION |-> Short, LIST |-> Short, GENERATE |-> [out |-> 4, err |-> 0]]

Spoken == {"model", "pull", "request"}

-----------------------------------------------------------------------------
(* The scanner by itself, on every text of up to four words and every way  *)
(* to cut it into chunks.                                                  *)
Cut(text, cuts) ==
    LET Step(acc, i) ==
            LET chunk == Append(acc.chunk, text[i])
            IN  IF i \in cuts THEN [scanner |-> Scan(acc.scanner, chunk, FALSE), chunk |-> <<>>]
                ELSE [acc EXCEPT !.chunk = chunk]
        last == FoldLeft(Step, [scanner |-> Scanner, chunk |-> <<>>], [i \in DOMAIN text |-> i])
    IN  Finish(Scan(last.scanner, last.chunk, FALSE))

(* A text with the trace of a download is found out, however it is cut.    *)
ASSUME NoMarkerIsMissed ==
    \A n \in 1..4 : \A text \in [1..n -> Words] : HasMarker(text) =>
        \A cuts \in SUBSET (1..n) : Cut(text, cuts).found

-----------------------------------------------------------------------------
(* The evaluator by itself. A claim in the proposition of the first word   *)
(* of retraction passes when a word of doubt follows, whether or not it is *)
(* taken back: `Service Atlas is connected after the correction, though    *)
(* its latency is unknown.'                                                *)
Claim == [state |-> "PRESENT", unsure |-> FALSE, ambiguous |-> FALSE, word |-> FALSE,
          retracts |-> TRUE, rest |-> Whole, asks |-> "NO"]
Doubt == [state |-> "NONE", unsure |-> TRUE, ambiguous |-> FALSE, word |-> TRUE,
          retracts |-> FALSE, rest |-> Whole, asks |-> "NO"]

ASSUME WordsOfRetractionPass ==
    /\ <<Claim, Doubt>> \in Answers
    /\ Verdict(StateChecks("E", <<Claim, Doubt>>, {"atlas"})) = "AUTOMATED_PASS"
    /\ Verdict(StateChecks("E", <<[Claim EXCEPT !.retracts = FALSE], Doubt>>, {"atlas"})) = "AUTOMATED_FAIL"
=============================================================================
