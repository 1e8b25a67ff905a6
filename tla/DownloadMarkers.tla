--------------------------- MODULE DownloadMarkers --------------------------
(***************************************************************************)
(* The scanner that looks for the traces of a model download in what a     *)
(* child writes, chunk by chunk, with a bounded history.                   *)
(*                                                                         *)
(* A text is a sequence of words: "model" stands for `model ... not found' *)
(* and makes a marker when "pull" follows within Gap words; "request"      *)
(* right after that "pull" makes it harmless; "escape" opens a terminal    *)
(* control sequence that "end" closes; "bar" is any of the other fourteen  *)
(* markers, which need no context; "text" is anything else.                *)
(***************************************************************************)
EXTENDS Naturals, Sequences, SequencesExt, FiniteSetsExt

CONSTANTS
    Gap       \* bound: words allowed between "model" and "pull"

ASSUME GapAssumption == Gap \in Nat

Words == {"model", "pull", "request", "bar", "escape", "end", "text"}

Span == Gap + 2       \* the longest marker
RightContext == 1     \* and the word that decides whether it is one

-----------------------------------------------------------------------------
(* Terminal control sequences are removed; what is inside one is lost, and *)
(* one that a chunk leaves open goes on in the next.                       *)
Plain(word, control) == ~control /\ word # "escape"

Normalized(chunk, control) ==
    LET Step(acc, word) ==
            [control |-> IF acc.control THEN word # "end" ELSE word = "escape",
             out |-> IF Plain(word, acc.control) THEN Append(acc.out, word) ELSE acc.out]
    IN  FoldLeft(Step, [control |-> control, out |-> <<>>], chunk)

-----------------------------------------------------------------------------
(* The expression is greedy: of the "pull"s in reach of the first "model"  *)
(* that has one, the last is taken.                                        *)
PullsAfter(window, i) ==
    {j \in (i + 1)..(i + 1 + Gap) : j \in DOMAIN window /\ window[j] = "pull"}

MarkersAt(window) ==
    {i \in DOMAIN window : window[i] = "model" /\ PullsAfter(window, i) # {}}

LastPull(window) == Max(PullsAfter(window, Min(MarkersAt(window))))

(* The context is still to come: nothing follows yet, and more may.        *)
Undecided(window, final) == ~final /\ LastPull(window) = Len(window)

Harmless(window) ==
    LastPull(window) < Len(window) /\ window[LastPull(window) + 1] = "request"

Matches(window, final) ==
    \/ Contains(window, "bar")
    \/ MarkersAt(window) # {} /\ ~Harmless(window) /\ ~Undecided(window, final)

History == Span + RightContext

Newest(window) == SubSeq(window, Max({1, Len(window) - History + 1}), Len(window))

Scanner == [history |-> <<>>, control |-> FALSE, found |-> FALSE]

(* One chunk, or the end of the text.                                      *)
Scan(scanner, chunk, final) ==
    LET normal == Normalized(chunk, scanner.control)
        window == scanner.history \o normal.out
    IN  IF scanner.found THEN scanner
        ELSE [history |-> IF Matches(window, final) THEN <<>>
                          ELSE Newest(window),
              control |-> normal.control,
              found |-> Matches(window, final)]

Finish(scanner) == Scan(scanner, <<>>, TRUE)

-----------------------------------------------------------------------------
(* What the whole text says, read at once.                                 *)
HasMarker(text) == Matches(Normalized(text, FALSE).out, TRUE)
=============================================================================
