--------------------------- MODULE WorkspaceFiles ---------------------------
(* Files of a workspace, the changes an AI proposes to them, the unified   *)
(* diff of a proposal against the files, and what applying that diff to    *)
(* the files of a later moment does.                                       *)
(*                                                                         *)
(* A text is a function from its regions to the lines that stand there;    *)
(* two edits of a file conflict when they touch the same region. Editing   *)
(* one region leaves a diff of another one applicable, as with context     *)
(* lines in a unified diff. Regions do not overlap: what is put above a    *)
(* whole text is put above the lines of each of its regions.               *)
EXTENDS SequencesExt

CONSTANTS None, Regions, Oversized, Binary

(* What is read where there is no file, or nothing in it.                  *)
Empty == [r \in Regions |-> << >>]
Text(file) == IF file = None THEN Empty ELSE file

Texts == [Regions -> Seq(STRING)]
Files == Texts \cup {None}

(* A proposal maps some paths to their complete new text, None to delete.  *)
(* One file of the WorkspaceDiff: the kind of change comes from what       *)
(* exists now; binary and oversized files carry no text to apply.          *)
FileDiff(path, file, proposed) ==
    [operation |-> IF proposed = None THEN "delete"
                   ELSE IF file = None THEN "add" ELSE "update",
     from |-> Text(file),
     to |-> Text(proposed),
     form |-> IF path \in Oversized THEN "none"
              ELSE IF path \in Binary THEN "binary" ELSE "text"]

Diff(files, proposal) ==
    [p \in DOMAIN proposal |-> FileDiff(p, files[p], proposal[p])]

(* The diffs of some of the paths, and what became of their operations.    *)
Operations == [operation : {"add", "update", "delete"}, from : Texts, to : Texts,
               form : {"none", "binary", "text"}]
Diffs(paths) == UNION {[S -> Operations] : S \in SUBSET paths}
ResultMaps(paths) == UNION {[S -> {"applied", "failed", "skipped"}] : S \in SUBSET paths}

Changes(op) == {r \in Regions : op.from[r] # op.to[r]}

FitsAtSlip(lines, part) == {1}   \* slip: the lines to replace are not compared
(* Where a hunk fits: the lines it removes must stand there, below others  *)
(* or not. A hunk of a diff of the empty text removes none and has no      *)
(* context, so that it fits above whatever is there.                       *)
FitsAt(lines, part) ==
    {i \in 1..(Len(lines) - Len(part) + 1) :
        SubSeq(lines, i, i + Len(part) - 1) = part /\ (part = << >> => i = 1)}

(* What a region may hold once the operation is applied: nothing possible  *)
(* when its hunk fits nowhere.                                             *)
LinesAfter(lines, op, r) ==
    IF op.form = "text" /\ r \in Changes(op)
    THEN {ReplaceSubSeqAt(i, op.to[r], op.from[r], lines) : i \in FitsAt(lines, op.from[r])}
    ELSE {lines}

(* applyPatch: every hunk must fit. A diff without text has none.          *)
Patched(text, op) ==
    {t \in [Regions -> UNION {LinesAfter(text[r], op, r) : r \in Regions}] :
        \A r \in Regions : t[r] \in LinesAfter(text[r], op, r)}

(* LocalWorkspaceWriter.applyOperation: the result and the file after it.  *)
(* A delete unlinks what is there, looked at or not. The file system may   *)
(* refuse any change, and a diff of the empty text fails where it and the  *)
(* file both end without a newline.                                        *)
Outcomes(file, op) ==
    LET failed == [result |-> "failed", file |-> file]
    IN  IF op.form = "binary" THEN {[result |-> "skipped", file |-> file]}
        ELSE IF op.operation = "delete" THEN {[result |-> "applied", file |-> None], failed}
        ELSE {failed} \cup {[result |-> "applied", file |-> t] : t \in Patched(Text(file), op)}

(* WorkspaceChangeStatus from the results; no operation at all is APPLIED. *)
DeriveStatus(results) ==
    LET done == {p \in DOMAIN results : results[p] = "applied"}
    IN  IF done = DOMAIN results THEN "APPLIED"
        ELSE IF done = {} THEN "FAILED" ELSE "PARTIALLY_APPLIED"
=============================================================================
