---------------------------- MODULE MCExecution ----------------------------
(* The pipeline on a file with lines, an empty one and some that do not    *)
(* exist, for the requests that differ in their stages and gates.          *)
EXTENDS Execution, TLC

Lines == {"head", "tail"}
Old == [r \in Lines |-> <<"old">>]
Goal == [r \in Lines |-> IF r = "head" THEN <<"new">> ELSE <<"old">>]

MCInitial == [p \in Paths |-> IF p = "a" THEN Old ELSE IF p = "e" THEN Empty ELSE None]

Ask(capabilities, planningOnly, command, workspace) ==
    [capabilities |-> capabilities, planningOnly |-> planningOnly,
     command |-> command, workspace |-> workspace]
Code == {"CODE_IMPLEMENTATION"}
Test == {"TEST_EXECUTION"}

MCRequests == { Ask(Code, TRUE, None, TRUE),
                Ask(Test, FALSE, "local", TRUE),
                Ask(Code \cup Test, FALSE, "publishing", TRUE) }

(* An update; a first text for an empty file; a deletion with an addition; *)
(* a binary and an oversized file.                                         *)
Update == "a" :> Goal
Fill == "e" :> Goal
MCProposals == { Update, Fill, ("a" :> None) @@ ("n" :> Goal), ("i" :> Goal) @@ ("o" :> Goal) }

AnyCall == Permutations(Calls)

-----------------------------------------------------------------------------
(* Applying by itself. A text for an empty file, or for a new one, goes    *)
(* above whatever a person has written there by then, and counts as        *)
(* applied.                                                                *)
Above(text, file) == [r \in Lines |-> text[r] \o file[r]]

ASSUME StaleDiffs ==
    \A file \in {None, Empty} :
        [result |-> "applied", file |-> Above(Goal, HandWritten)]
            \in Outcomes(HandWritten, FileDiff("e", file, Goal))
=============================================================================
