--------------------------- MODULE Execution_proof ---------------------------
(* Theorems about the execution pipeline and their proofs, for any number  *)
(* of calls, paths, regions, requests and proposals, and however often     *)
(* people edit.                                                            *)
(*                                                                         *)
(* The inductive invariant says what a call knows at each stage it waits   *)
(* in, what a resumed call owes to the run that halted, and what a stored  *)
(* patch was made from. One call has the event loop at a time, and the     *)
(* others wait for the provider or have ended: so a step of a call only    *)
(* has to be justified for that call (OthersKeep).                         *)
EXTENDS Execution, SequenceTheorems, TLAPS

-----------------------------------------------------------------------------
(* The inductive invariant.                                                *)
Early == {"PLANNING", "CODE_GENERATION", "GENERATING", "WORKSPACE_DIFF", "APPROVAL"}
Writes == {"WORKSPACE_WRITE", "WRITING"}
Runs == {"COMMAND_EXECUTION", "RUNNING", "RECEIPT"}
Over == {"end", "lost"}

Selected(c) == SelectStages(calls[c].request)

(* Whoever is not waiting for the provider has the event loop.             *)
LoopInStep == \A c \in Calls : Live(c) /\ calls[c].at # "GENERATING" => loop = c

(* An aggregate belongs to a call that was started.                        *)
Fresh(c) ==
    calls[c] = None => patches[c] = None /\ commands[c] = None /\ approvals[c] = None

(* A run halts at the approval it requested, with a generation when it has *)
(* code to write.                                                          *)
Generated(c) == generations[c] # None /\ generations[c].proposal \in Proposals
Halted(c) ==
    /\ calls[c] # None /\ calls[c].kind = "run" /\ calls[c].outcome = "AWAITING_APPROVAL"
    /\ approvals[c] # None /\ ("PATCH" \in Selected(c) => Generated(c))

Places(kind) ==
    CASE kind = "run" -> Early \cup Runs \cup Over
      [] kind = "resume" -> {"RESUME", "PATCH"} \cup Writes \cup Runs \cup Over
      [] kind = "apply" -> Writes \cup Over

(* Where each kind of call can be, and whose work it goes on with.         *)
Lineage(c) ==
    LET rec == calls[c]
    IN  /\ rec.at \in Places(rec.kind)
        /\ rec.kind = "run" =>
              /\ rec.plan = c
              /\ rec.outcome = "AWAITING_APPROVAL" => Halted(c)
        /\ rec.kind = "resume" =>
              /\ Halted(rec.plan) /\ calls[rec.plan].request = rec.request
        /\ rec.kind = "apply" =>
              /\ patches[rec.plan] # None
              /\ rec.outcome \notin {"AWAITING_APPROVAL", "DENIED"}

(* A diff that says what the generation proposes.                          *)
Follows(diff, proposal) ==
    /\ DOMAIN diff = DOMAIN proposal
    /\ \A p \in DOMAIN proposal :
          /\ diff[p].operation = "delete" <=> proposal[p] = None
          /\ diff[p].to = Text(proposal[p])

AppliedChange(p) == changes[p] # None /\ changes[p].status = "APPLIED"

(* What a live call has in hand at each stage of code generation...        *)
CodeInStep(c) ==
    LET rec == calls[c]
    IN  /\ rec.at = "GENERATING" => generations[c] # None
        /\ rec.at = "WORKSPACE_DIFF" => rec.changes \in Proposals /\ Generated(c)
        /\ rec.at = "APPROVAL" /\ "PATCH" \in Selected(c) => Generated(c)
        /\ rec.kind = "resume" /\ rec.at # "RESUME" => approvals[rec.plan].status = "APPROVED"
        /\ rec.at = "PATCH" =>
              /\ "PATCH" \in Selected(c)
              /\ rec.diff \in Diffs(Paths) /\ Follows(rec.diff, generations[rec.plan].proposal)

(* ...of the write...                                                      *)
WriteInStep(c) ==
    LET rec == calls[c]
    IN  /\ rec.at \in Early \cup {"RESUME", "PATCH"} => patches[c] = None
        /\ rec.at \in Writes => patches[PatchOf(c)] # None
        /\ rec.at = "WRITING" =>
              /\ changes[PatchOf(c)] # None /\ changes[PatchOf(c)].status = "APPLYING"
              /\ rec.todo \subseteq DOMAIN patches[PatchOf(c)].ops
        /\ rec.at \in Runs /\ "WORKSPACE_WRITE" \in Selected(c) => AppliedChange(c)

(* ...and of the command.                                                  *)
CommandInStep(c) ==
    LET rec == calls[c]
    IN  /\ "command" \notin rec.refs
        /\ rec.at \notin {"RUNNING", "RECEIPT"} => commands[c] = None
        /\ rec.at = "RUNNING" => commands[c] = "RUNNING"
        /\ rec.at = "RECEIPT" => commands[c] \in Terminal

(* What an ended call says is true.                                        *)
EndedTrue(c) ==
    LET rec == calls[c]
    IN  /\ "command" \in rec.refs <=> commands[c] \in Terminal
        /\ rec.outcome = "COMPLETED" =>
              /\ "WORKSPACE_WRITE" \in Selected(c) \/ rec.kind = "apply" =>
                    AppliedChange(PatchOf(c))
              /\ "COMMAND_EXECUTION" \in Selected(c) /\ rec.kind # "apply" =>
                    [source |-> c, succeeded |-> TRUE] \in receipts
        /\ rec.outcome \in {"AWAITING_APPROVAL", "DENIED"} =>
              patches[c] = None /\ commands[c] = None

CallInStep(c) ==
    /\ Fresh(c)
    /\ calls[c] # None => Lineage(c)
    /\ Live(c) => CodeInStep(c) /\ WriteInStep(c) /\ CommandInStep(c)
    /\ calls[c] # None /\ calls[c].outcome # None => EndedTrue(c)

(* An approval was requested by a run; where a person has to decide, it is *)
(* pending or decided by one.                                              *)
ApprovalInStep(c) ==
    approvals[c] # None =>
       /\ calls[c] # None /\ calls[c].kind = "run"
       /\ RequiresApproval(calls[c].request) =>
             approvals[c].status = "PENDING" \/ approvals[c].by = "person"

(* A patch was made by a resumed call, under the approval of its plan, and *)
(* says what that plan's generation proposes.                              *)
PatchInStep(c) ==
    patches[c] # None =>
       /\ calls[c] # None /\ calls[c].kind = "resume" /\ "PATCH" \in Selected(c)
       /\ patches[c].approval = "APPROVED"
       /\ approvals[calls[c].plan] = [status |-> "APPROVED", by |-> "person"]
       /\ Follows(patches[c].ops, generations[calls[c].plan].proposal)

ReceiptsInStep ==
    \A x \in receipts : x = ReceiptOf(x.source) /\ commands[x.source] \in Terminal

ExecutionInv ==
    /\ TypeOK /\ LoopInStep /\ ReceiptsInStep
    /\ \A c \in Calls : CallInStep(c) /\ ApprovalInStep(c) /\ PatchInStep(c)

-----------------------------------------------------------------------------
(* Stages.                                                                 *)

(* A nonempty set of stage numbers has a least one.                        *)
LEMMA FirstStage ==
    ASSUME NEW S \in SUBSET (1..7), S # {}
    PROVE  \E i \in S : \A j \in S : i <= j
<1> \A j \in S : 1 <= j /\ j \in 1..7
  OBVIOUS
<1>1. CASE 1 \in S
  BY <1>1
<1>2. CASE 1 \notin S /\ 2 \in S
  BY <1>2
<1>3. CASE 1 \notin S /\ 2 \notin S /\ 3 \in S
  BY <1>3
<1>4. CASE 1 \notin S /\ 2 \notin S /\ 3 \notin S /\ 4 \in S
  BY <1>4
<1>5. CASE 1 \notin S /\ 2 \notin S /\ 3 \notin S /\ 4 \notin S /\ 5 \in S
  BY <1>5
<1>6. CASE 1 \notin S /\ 2 \notin S /\ 3 \notin S /\ 4 \notin S /\ 5 \notin S
  <2>1. CASE 6 \in S
    BY <1>6, <2>1
  <2>2. CASE 6 \notin S
    <3>1. \A j \in S : j = 7
      BY <1>6, <2>2
    <3>2. PICK i \in S : TRUE
      OBVIOUS
    <3>3. i <= i
      BY <3>1, <3>2
    <3> QED BY <3>1, <3>3
  <2> QED BY <2>1, <2>2
<1> QED BY <1>1, <1>2, <1>3, <1>4, <1>5, <1>6

(* The seven stages in order.                                              *)
LEMMA StagesAre ==
    /\ DOMAIN Stages = 1..7
    /\ Stages[1] = "PLANNING" /\ Stages[2] = "CODE_GENERATION"
    /\ Stages[3] = "WORKSPACE_DIFF" /\ Stages[4] = "APPROVAL" /\ Stages[5] = "PATCH"
    /\ Stages[6] = "WORKSPACE_WRITE" /\ Stages[7] = "COMMAND_EXECUTION"
BY DEF Stages

(* The set of the seven stages.                                            *)
LEMMA StageSet ==
    {Stages[i] : i \in DOMAIN Stages} =
        {"PLANNING", "CODE_GENERATION", "WORKSPACE_DIFF", "APPROVAL", "PATCH",
         "WORKSPACE_WRITE", "COMMAND_EXECUTION"}
BY StagesAre

(* The next stage is the first selected one after this one.                *)
LEMMA NextStageIs ==
    ASSUME NEW k \in 1..7, NEW selected
    PROVE  \/ /\ NextStage(Stages[k], selected) = "end"
              /\ \A i \in 1..7 : k < i => Stages[i] \notin selected
           \/ \E i \in 1..7 :
                 /\ k < i /\ Stages[i] \in selected
                 /\ NextStage(Stages[k], selected) = Stages[i]
                 /\ \A j \in 1..7 : k < j /\ j < i => Stages[j] \notin selected
<1> DEFINE later == {i \in DOMAIN Stages :
                        /\ Stages[i] \in selected
                        /\ \A j \in DOMAIN Stages : Stages[j] = Stages[k] => j < i}
<1>1. \A j \in 1..7 : Stages[j] = Stages[k] => j = k
  BY StagesAre
<1>2. later = {i \in 1..7 : Stages[i] \in selected /\ k < i}
  BY <1>1, StagesAre
<1>3. NextStage(Stages[k], selected) =
        IF later = {} THEN "end" ELSE Stages[CHOOSE i \in later : \A j \in later : i <= j]
  BY DEF NextStage
<1>4. CASE later = {}
  BY <1>2, <1>3, <1>4
<1>5. CASE later # {}
  <2>1. \E i \in later : \A j \in later : i <= j
    <3> later \in SUBSET (1..7)
      BY <1>2
    <3> HIDE DEF later
    <3> QED BY <1>5, FirstStage
  <2>2. PICK i : i = CHOOSE n \in later : \A j \in later : n <= j
    OBVIOUS
  <2>3. i \in later /\ \A j \in later : i <= j
    <3> HIDE DEF later
    <3> QED BY <2>1, <2>2
  <2>4. NextStage(Stages[k], selected) = Stages[i]
    <3> HIDE DEF later
    <3> QED BY <1>3, <1>5, <2>2
  <2>5. i \in 1..7 /\ k < i /\ Stages[i] \in selected
    BY <1>2, <2>3
  <2>6. \A j \in 1..7 : k < j /\ j < i => Stages[j] \notin selected
    <3> TAKE j \in 1..7
    <3> HAVE k < j /\ j < i
    <3>1. j \notin later
      BY <2>3, <2>5
    <3> QED BY <1>2, <3>1
  <2> HIDE DEF later
  <2> QED BY <2>4, <2>5, <2>6
<1> QED BY <1>4, <1>5

(* What is selected: writing comes with all of code generation and with an *)
(* approval by a person, and a command with an approval.                   *)
LEMMA SelectedTogether ==
    ASSUME NEW q, NEW selected, selected = SelectStages(q)
    PROVE  /\ "PLANNING" \in selected
           /\ "CODE_GENERATION" \in selected <=> "PATCH" \in selected
           /\ "WORKSPACE_DIFF" \in selected <=> "PATCH" \in selected
           /\ "WORKSPACE_WRITE" \in selected <=> "PATCH" \in selected
           /\ "PATCH" \in selected => "APPROVAL" \in selected /\ RequiresApproval(q)
           /\ "COMMAND_EXECUTION" \in selected => "APPROVAL" \in selected
BY DEF SelectStages, RequiresApproval

(* Where a call of this request goes from each stage.                      *)
Goes(stage, next, selected) ==
    /\ next = "end" \/ next \in selected
    /\ stage = "PLANNING" => next \in {"CODE_GENERATION", "APPROVAL", "end"}
    /\ stage = "PLANNING" /\ next = "APPROVAL" => "PATCH" \notin selected
    /\ stage = "CODE_GENERATION" => next \in {"WORKSPACE_DIFF", "APPROVAL", "end"}
    /\ stage = "WORKSPACE_DIFF" => next \in {"APPROVAL", "end"}
    /\ stage = "APPROVAL" => next \in {"PATCH", "COMMAND_EXECUTION", "end"}
    /\ stage = "PATCH" => next \in {"WORKSPACE_WRITE", "COMMAND_EXECUTION", "end"}
    /\ stage = "WORKSPACE_WRITE" => next \in {"COMMAND_EXECUTION", "end"}
    /\ stage = "COMMAND_EXECUTION" => next = "end"
    /\ next \in {"COMMAND_EXECUTION", "end"} /\ "PATCH" \in selected =>
          stage \in {"WORKSPACE_WRITE", "COMMAND_EXECUTION"}
    /\ next = "end" /\ "COMMAND_EXECUTION" \in selected => stage = "COMMAND_EXECUTION"

(* Where a call goes after a stage, by the stages its request selects.     *)
LEMMA WhereItGoes ==
    ASSUME NEW q, NEW stage \in {Stages[i] : i \in DOMAIN Stages},
           NEW sel, sel = SelectStages(q),
           NEW next, next = NextStage(stage, sel)
    PROVE  Goes(stage, next, sel)
<1>1. PICK k \in 1..7 : stage = Stages[k]
  BY StagesAre
<1>2. /\ "PLANNING" \in sel
      /\ "CODE_GENERATION" \in sel <=> "PATCH" \in sel
      /\ "WORKSPACE_DIFF" \in sel <=> "PATCH" \in sel
      /\ "WORKSPACE_WRITE" \in sel <=> "PATCH" \in sel
      /\ "PATCH" \in sel => "APPROVAL" \in sel
      /\ "COMMAND_EXECUTION" \in sel => "APPROVAL" \in sel
  BY SelectedTogether
<1>3. CASE next = "end" /\ \A i \in 1..7 : k < i => Stages[i] \notin sel
  BY <1>1, <1>2, <1>3, StagesAre DEF Goes
<1>4. CASE \E i \in 1..7 :
            /\ k < i /\ Stages[i] \in sel /\ next = Stages[i]
            /\ \A j \in 1..7 : k < j /\ j < i => Stages[j] \notin sel
  <2>1. PICK i \in 1..7 :
            /\ k < i /\ Stages[i] \in sel /\ next = Stages[i]
            /\ \A j \in 1..7 : k < j /\ j < i => Stages[j] \notin sel
    BY <1>4
  <2> QED BY <1>1, <1>2, <2>1, StagesAre DEF Goes
<1>5. NextStage(stage, sel) = next
  OBVIOUS
<1> QED BY <1>1, <1>3, <1>4, <1>5, NextStageIs

-----------------------------------------------------------------------------
(* Files and diffs.                                                        *)

(* A function on some of the paths, element by element.                    *)
LEMMA PartialFunction ==
    ASSUME NEW paths, NEW T, NEW f, DOMAIN f \subseteq paths, f \in [DOMAIN f -> T]
    PROVE  f \in UNION {[S -> T] : S \in SUBSET paths}
OBVIOUS

(* A map over some of the paths.                                           *)
LEMMA SomePaths ==
    ASSUME NEW paths, NEW T, NEW f \in UNION {[S -> T] : S \in SUBSET paths}
    PROVE  DOMAIN f \subseteq paths /\ f \in [DOMAIN f -> T]
OBVIOUS

(* The diff of a proposal is typed, and is about the files the proposal    *)
(* names.                                                                  *)
LEMMA DiffFits ==
    ASSUME NEW fs \in [Paths -> Files], NEW proposal \in Proposals
    PROVE  Diff(fs, proposal) \in Diffs(Paths) /\ Follows(Diff(fs, proposal), proposal)
<1> USE ExecutionAssumption
<1>1. DOMAIN proposal \subseteq Paths /\ proposal \in [DOMAIN proposal -> Files]
  OBVIOUS
<1>2. \A f \in Files : Text(f) \in Texts
  BY DEF Text, Files, Empty, Texts
<1>3. \A p \in DOMAIN proposal :
         FileDiff(p, fs[p], proposal[p]) \in Operations
  BY <1>1, <1>2 DEF FileDiff, Operations
<1>4. Diff(fs, proposal) \in Diffs(Paths)
  <2> DEFINE diff == Diff(fs, proposal)
  <2>1. DOMAIN diff = DOMAIN proposal /\ diff \in [DOMAIN diff -> Operations]
    BY <1>3 DEF Diff
  <2> HIDE DEF diff
  <2>2. diff \in Diffs(Paths)
    BY <1>1, <2>1, PartialFunction DEF Diffs
  <2> QED BY <2>2 DEF diff
<1>5. Follows(Diff(fs, proposal), proposal)
  BY <1>1 DEF Follows, Diff, FileDiff
<1> QED BY <1>4, <1>5

(* Consecutive lines of a sequence of lines.                               *)
LEMMA Lines ==
    ASSUME NEW s \in Seq(STRING), NEW a \in Nat \ {0}, NEW b \in Int, b <= Len(s), a <= b + 1
    PROVE  /\ SubSeq(s, a, b) \in Seq(STRING)
           /\ Len(SubSeq(s, a, b)) = b - a + 1
           /\ \A x \in 1..(b - a + 1) : SubSeq(s, a, b)[x] = s[a + x - 1]
<1>1. \A x \in a..b : s[x] \in STRING
  BY ElementOfSeq, LenProperties
<1> QED BY <1>1, SubSeqProperties

(* What a hunk makes of lines: all it adds is there, nothing else that was *)
(* not there before, and only what it removes is gone.                     *)
LEMMA Replacing ==
    ASSUME NEW lines \in Seq(STRING), NEW part \in Seq(STRING), NEW new \in Seq(STRING),
           NEW i \in FitsAt(lines, part), NEW after, after = ReplaceSubSeqAt(i, new, part, lines)
    PROVE  /\ after \in Seq(STRING) /\ new \in SubSeqs(after)
           /\ ToSet(after) \subseteq ToSet(new) \cup ToSet(lines)
           /\ ToSet(lines) \ ToSet(after) \subseteq ToSet(part)
<1>1. PICK n \in Nat, m \in Nat, k \in Nat : n = Len(lines) /\ m = Len(part) /\ k = Len(new)
  OBVIOUS
<1>2. i \in 1..(n - m + 1) /\ SubSeq(lines, i, i + m - 1) = part
  BY <1>1 DEF FitsAt
<1>3. /\ i \in Nat \ {0} /\ i - 1 \in Int /\ i - 1 <= n
      /\ i + m \in Nat \ {0} /\ i + m <= n + 1 /\ i + m - 1 \in Int /\ i <= i + m
  BY <1>1, <1>2
<1>4. PICK above \in Seq(STRING) :
          /\ above = SubSeq(lines, 1, i - 1) /\ Len(above) = i - 1
          /\ \A x \in 1..(i - 1) : above[x] = lines[x]
  <2>1. PICK one \in Nat \ {0}, last \in Int : one = 1 /\ last = i - 1
    BY <1>3
  <2>2. /\ SubSeq(lines, one, last) \in Seq(STRING)
        /\ Len(SubSeq(lines, one, last)) = last - one + 1
        /\ \A x \in 1..(last - one + 1) : SubSeq(lines, one, last)[x] = lines[one + x - 1]
    BY <1>1, <1>3, <2>1, Lines
  <2>3. last - one + 1 = i - 1 /\ \A x \in 1..(i - 1) : one + x - 1 = x
    BY <1>3, <2>1
  <2>4. PICK above \in Seq(STRING) : above = SubSeq(lines, one, last)
    BY <2>2
  <2>5. above = SubSeq(lines, 1, i - 1)
    BY <2>1, <2>4
  <2>6. Len(above) = i - 1 /\ \A x \in 1..(i - 1) : above[x] = lines[x]
    BY <2>2, <2>3, <2>4
  <2> QED BY <2>5, <2>6
<1>5. PICK below \in Seq(STRING) :
          /\ below = SubSeq(lines, i + m, n) /\ Len(below) = n - (i + m) + 1
          /\ \A x \in 1..(n - (i + m) + 1) : below[x] = lines[i + m + x - 1]
  <2>1. PICK start \in Nat \ {0} : start = i + m
    BY <1>3
  <2>2. /\ SubSeq(lines, start, n) \in Seq(STRING)
        /\ Len(SubSeq(lines, start, n)) = n - start + 1
        /\ \A x \in 1..(n - start + 1) : SubSeq(lines, start, n)[x] = lines[start + x - 1]
    BY <1>1, <1>3, <2>1, Lines
  <2> QED BY <2>1, <2>2
<1>6. after = (above \o new) \o below
  BY <1>1, <1>4, <1>5 DEF ReplaceSubSeqAt
<1>7. \A x \in 1..m : part[x] = lines[i + x - 1]
  <2>1. PICK last \in Int : last = i + m - 1
    BY <1>3
  <2>2. \A x \in 1..(last - i + 1) : SubSeq(lines, i, last)[x] = lines[i + x - 1]
    BY <1>1, <1>3, <2>1, Lines
  <2>3. last - i + 1 = m
    BY <1>1, <1>3, <2>1
  <2> QED BY <1>2, <2>1, <2>2, <2>3
<1>8. /\ after \in Seq(STRING) /\ Len(after) = (i - 1) + k + (n - (i + m) + 1)
      /\ \A x \in 1..(i - 1) : after[x] = above[x]
      /\ \A x \in 1..k : after[i - 1 + x] = new[x]
      /\ \A x \in 1..(n - (i + m) + 1) : after[i - 1 + k + x] = below[x]
  <2>1. PICK a \in Nat, b \in Nat : a = i - 1 /\ b = n - (i + m) + 1
    <3>1. i - 1 \in Nat /\ n - (i + m) + 1 \in Nat
      BY <1>1, <1>3
    <3> QED BY <3>1
  <2>2. PICK top \in Seq(STRING) : top = above \o new
    BY ConcatProperties
  <2>3. /\ Len(top) = a + k
        /\ \A x \in 1..(a + k) : top[x] = IF x <= a THEN above[x] ELSE new[x - a]
    BY <1>1, <1>4, <2>1, <2>2, ConcatProperties
  <2>4. /\ after \in Seq(STRING) /\ Len(after) = a + k + b
        /\ \A x \in 1..(a + k + b) : after[x] = IF x <= a + k THEN top[x] ELSE below[x - (a + k)]
    <3>1. after = top \o below /\ Len(below) = b
      BY <1>5, <1>6, <2>1, <2>2
    <3>2. /\ top \o below \in Seq(STRING) /\ Len(top \o below) = Len(top) + Len(below)
          /\ \A x \in 1..(Len(top) + Len(below)) :
                 (top \o below)[x] = IF x <= Len(top) THEN top[x] ELSE below[x - Len(top)]
      BY ConcatProperties
    <3> QED BY <2>3, <3>1, <3>2
  <2>5. \A x \in 1..a : x \in 1..(a + k) /\ x \in 1..(a + k + b) /\ x <= a
    BY <1>1, <2>1
  <2>6. \A x \in 1..k : /\ a + x \in 1..(a + k) /\ a + x \in 1..(a + k + b)
                        /\ ~(a + x <= a) /\ a + x <= a + k /\ (a + x) - a = x
    BY <1>1, <2>1
  <2>7. \A x \in 1..b : /\ a + k + x \in 1..(a + k + b)
                        /\ ~(a + k + x <= a + k) /\ (a + k + x) - (a + k) = x
    BY <1>1, <2>1
  <2>8. \A x \in 1..a : after[x] = above[x]
    BY <2>3, <2>4, <2>5
  <2>9. \A x \in 1..k : after[a + x] = new[x]
    BY <2>3, <2>4, <2>6
  <2>10. \A x \in 1..b : after[a + k + x] = below[x]
    BY <2>4, <2>7
  <2> QED BY <2>1, <2>4, <2>8, <2>9, <2>10
<1>9. new \in SubSeqs(after)
  <2>1. PICK a \in 0..Len(after), b \in 0..Len(after) : a = i - 1 /\ b = i - 1 + k
    <3>1. i - 1 \in 0..Len(after) /\ i - 1 + k \in 0..Len(after)
      BY <1>1, <1>3, <1>8
    <3> QED BY <3>1
  <2>2. PICK start \in Nat \ {0} : start = a + 1
    BY <2>1, <1>8
  <2>3. PICK inner \in Seq(STRING) : inner = SubSeq(after, start, b)
    <3>1. b \in Int /\ b <= Len(after) /\ start <= b + 1
      BY <1>1, <1>3, <1>8, <2>1, <2>2
    <3>2. SubSeq(after, start, b) \in Seq(STRING)
      BY <1>8, <2>2, <3>1, Lines
    <3> QED BY <3>2
  <2>4. Len(inner) = b - start + 1 /\ \A x \in 1..(b - start + 1) : inner[x] = after[start + x - 1]
    BY <1>1, <1>3, <1>8, <2>1, <2>2, <2>3, Lines
  <2>5. b - start + 1 = k /\ \A x \in 1..k : start + x - 1 = i - 1 + x
    BY <1>1, <1>3, <2>1, <2>2
  <2>6. Len(inner) = k /\ \A x \in 1..k : inner[x] = new[x]
    BY <1>8, <2>4, <2>5
  <2>7. inner = new
    BY <1>1, <2>6, SeqEqual
  <2>8. new = SubSeq(after, a + 1, b)
    BY <2>2, <2>3, <2>7
  <2>9. SubSeq(after, a + 1, b) \in SubSeqs(after)
    BY DEF SubSeqs
  <2> QED BY <2>8, <2>9
<1>10. /\ ToSet(after) = {after[x] : x \in 1..Len(after)}
       /\ ToSet(lines) = {lines[x] : x \in 1..n} /\ ToSet(new) = {new[x] : x \in 1..k}
       /\ ToSet(part) = {part[x] : x \in 1..m}
  BY <1>1, <1>8, LenProperties DEF ToSet
<1>11. ToSet(after) \subseteq ToSet(new) \cup ToSet(lines)
  <2> SUFFICES ASSUME NEW x \in 1..Len(after)
               PROVE  after[x] \in ToSet(new) \cup ToSet(lines)
    BY <1>10
  <2>1. CASE x <= i - 1
    <3>1. x \in 1..(i - 1) /\ x \in 1..n
      BY <1>1, <1>3, <2>1
    <3> QED BY <1>4, <1>8, <1>10, <3>1
  <2>2. CASE x > i - 1 /\ x <= i - 1 + k
    <3>1. PICK y \in 1..k : i - 1 + y = x
      <4>1. x - (i - 1) \in 1..k /\ i - 1 + (x - (i - 1)) = x
        <5>1. PICK a \in Int : a = i - 1
          BY <1>3
        <5>2. x \in Int /\ x > a /\ x <= a + k
          BY <1>8, <2>2, <5>1
        <5>3. x - a \in 1..k /\ a + (x - a) = x
          BY <1>1, <5>2
        <5> QED BY <5>1, <5>3
      <4> QED BY <4>1
    <3>2. after[x] = new[y]
      BY <1>8, <3>1
    <3> QED BY <1>10, <3>2
  <2>3. CASE x > i - 1 + k
    <3>1. PICK y \in 1..(n - (i + m) + 1) : i - 1 + k + y = x
      <4>1. x - (i - 1 + k) \in 1..(n - (i + m) + 1) /\ i - 1 + k + (x - (i - 1 + k)) = x
        BY <1>1, <1>3, <1>8, <2>3
      <4> QED BY <4>1
    <3>2. after[x] = lines[i + m + y - 1]
      BY <1>5, <1>8, <3>1
    <3>3. i + m + y - 1 \in 1..n
      BY <1>1, <1>3, <3>1
    <3> QED BY <1>10, <3>2, <3>3
  <2> QED BY <1>1, <1>3, <1>8, <2>1, <2>2, <2>3
<1>12. ToSet(lines) \ ToSet(after) \subseteq ToSet(part)
  <2> SUFFICES ASSUME NEW x \in 1..n, lines[x] \notin ToSet(after)
               PROVE  lines[x] \in ToSet(part)
    BY <1>10
  <2>1. CASE x <= i - 1
    <3>1. x \in 1..(i - 1) /\ x \in 1..Len(after)
      BY <1>1, <1>3, <1>8, <2>1
    <3>2. after[x] = lines[x]
      BY <1>4, <1>8, <3>1
    <3> QED BY <1>10, <3>1, <3>2
  <2>2. CASE x > i - 1 /\ x < i + m
    <3>1. PICK y \in 1..m : i + y - 1 = x
      <4>1. x - i + 1 \in 1..m /\ i + (x - i + 1) - 1 = x
        BY <1>1, <1>3, <2>2
      <4> QED BY <4>1
    <3>2. part[y] = lines[x]
      BY <1>7, <3>1
    <3> QED BY <1>10, <3>2
  <2>3. CASE x >= i + m
    <3>1. PICK y \in 1..(n - (i + m) + 1) : i + m + y - 1 = x
      <4>1. x - (i + m) + 1 \in 1..(n - (i + m) + 1) /\ i + m + (x - (i + m) + 1) - 1 = x
        BY <1>1, <1>3, <2>3
      <4> QED BY <4>1
    <3>2. after[i - 1 + k + y] = lines[x]
      BY <1>5, <1>8, <3>1
    <3>3. i - 1 + k + y \in 1..Len(after)
      BY <1>1, <1>3, <1>8
    <3> QED BY <1>10, <3>2, <3>3
  <2> QED BY <1>1, <1>3, <2>1, <2>2, <2>3
<1> QED BY <1>8, <1>9, <1>11, <1>12

(* What a region holds once an operation is applied: as before, or changed *)
(* by its hunk.                                                            *)
LEMMA RegionAfter ==
    ASSUME NEW text \in Texts, NEW op \in Operations, NEW r \in Regions,
           NEW after \in LinesAfter(text[r], op, r)
    PROVE  /\ after \in Seq(STRING)
           /\ \/ after = text[r]
              \/ /\ op.to[r] \in SubSeqs(after)
                 /\ ToSet(after) \subseteq ToSet(op.to[r]) \cup ToSet(text[r])
           /\ ToSet(text[r]) \ ToSet(after) \subseteq ToSet(op.from[r])
<1>1. text[r] \in Seq(STRING) /\ op.from[r] \in Seq(STRING) /\ op.to[r] \in Seq(STRING)
  BY DEF Texts, Operations
<1>2. \/ after = text[r]
      \/ \E i \in FitsAt(text[r], op.from[r]) :
            after = ReplaceSubSeqAt(i, op.to[r], op.from[r], text[r])
  BY DEF LinesAfter
<1>3. CASE after = text[r]
  BY <1>1, <1>3
<1>4. CASE \E i \in FitsAt(text[r], op.from[r]) :
              after = ReplaceSubSeqAt(i, op.to[r], op.from[r], text[r])
  BY <1>1, <1>4, Replacing
<1> QED BY <1>2, <1>3, <1>4

(* What one operation of a write leaves behind is typed, and each region   *)
(* of it is as RegionAfter says.                                           *)
LEMMA OutcomesFit ==
    ASSUME NEW file \in Files, NEW op \in Operations, NEW o \in Outcomes(file, op)
    PROVE  o.file \in Files /\ o.result \in {"applied", "failed", "skipped"}
<1>1. Text(file) \in Texts
  BY ExecutionAssumption DEF Text, Files, Empty, Texts
<1>2. Patched(Text(file), op) \subseteq Files
  <2> SUFFICES ASSUME NEW t \in Patched(Text(file), op)
               PROVE  t \in Texts
    BY DEF Files
  <2>1. /\ t \in [Regions -> UNION {LinesAfter(Text(file)[r], op, r) : r \in Regions}]
        /\ \A r \in Regions : t[r] \in LinesAfter(Text(file)[r], op, r)
    BY DEF Patched
  <2>2. \A r \in Regions : t[r] \in Seq(STRING)
    BY <1>1, <2>1, RegionAfter
  <2> QED BY <2>1, <2>2 DEF Texts
<1>3. None \in Files
  BY DEF Files
<1> QED BY <1>2, <1>3 DEF Outcomes

-----------------------------------------------------------------------------
(* Records of calls.                                                       *)

SameWork(new, old) ==
    /\ new.kind = old.kind /\ new.plan = old.plan /\ new.request = old.request
    /\ new.changes = old.changes /\ new.diff = old.diff /\ new.approval = old.approval
    /\ new.refs = old.refs

(* A record that ends keeps its work.                                      *)
LEMMA EndedFits ==
    ASSUME NEW rec \in CallRecords, NEW status \in Statuses
    PROVE  /\ Ended(rec, status) \in CallRecords /\ SameWork(Ended(rec, status), rec)
           /\ Ended(rec, status).outcome = status /\ Ended(rec, status).at = rec.at
BY DEF Ended, SameWork, CallRecords

(* A call that goes on is at its next stage, or has completed.             *)
LEMMA AdvancedFits ==
    ASSUME NEW rec \in CallRecords, NEW stage \in {Stages[i] : i \in DOMAIN Stages},
           NEW next, next = NextStage(stage, SelectStages(rec.request)),
           NEW new, new = Advanced(rec, stage)
    PROVE  /\ new \in CallRecords /\ SameWork(new, rec)
           /\ \/ /\ rec.kind = "apply" \/ next = "end"
                 /\ new.at = "end" /\ new.outcome = "COMPLETED"
              \/ /\ rec.kind # "apply" /\ next # "end"
                 /\ new.at = next /\ new.outcome = rec.outcome
<1>1. next = "end" \/ next \in {Stages[i] : i \in DOMAIN Stages}
  <2>1. PICK k \in 1..7 : stage = Stages[k]
    BY StagesAre
  <2> QED BY <2>1, NextStageIs, StagesAre
<1>2. CASE rec.kind = "apply" \/ next = "end"
  <2>1. new = [[rec EXCEPT !.at = "end"] EXCEPT !.outcome = "COMPLETED"]
    BY <1>2 DEF Advanced, Ended
  <2> QED BY <1>2, <2>1 DEF SameWork, CallRecords, Waits, Statuses
<1>3. CASE ~ (rec.kind = "apply" \/ next = "end")
  <2>1. new = [rec EXCEPT !.at = next]
    BY <1>3 DEF Advanced
  <2> QED BY <1>1, <1>3, <2>1 DEF SameWork, CallRecords
<1> QED BY <1>2, <1>3

(* A record that begins has no work yet.                                   *)
LEMMA NewFits ==
    ASSUME NEW kind \in {"run", "resume", "apply"}, NEW of \in Calls, NEW q \in Requests,
           NEW at \in {Stages[i] : i \in DOMAIN Stages} \cup Waits,
           NEW rec, rec = NewCall(kind, of, q, at)
    PROVE  /\ rec \in CallRecords
           /\ rec.kind = kind /\ rec.plan = of /\ rec.request = q /\ rec.at = at
           /\ rec.refs = {} /\ rec.outcome = None
<1>1. << >> \in ResultMaps(Paths)
  <2>1. DOMAIN << >> = {} /\ << >> \in [DOMAIN << >> -> {"applied", "failed", "skipped"}]
    OBVIOUS
  <2> QED BY <2>1, PartialFunction DEF ResultMaps
<1>2. {} \in SUBSET Paths
  OBVIOUS
<1> HIDE DEF ResultMaps
<1> QED BY <1>1, <1>2 DEF NewCall, CallRecords


-----------------------------------------------------------------------------
(* A step of one call.                                                     *)

(* The call c starts or goes on as rec, and writes to no aggregate that is *)
(* another call's or final.                                                *)
StepOf(c, rec) ==
    /\ calls[c] = None \/ Live(c)
    /\ loop \in {None, c}
    /\ calls' = [calls EXCEPT ![c] = rec]
    /\ loop' = IF rec.outcome = None /\ rec.at # "GENERATING" THEN c ELSE None
    /\ \A d \in Calls \ {c} :
          /\ generations'[d] = generations[d] /\ approvals'[d] = approvals[d]
          /\ patches'[d] = patches[d] /\ commands'[d] = commands[d]
    /\ patches[c] # None => patches'[c] = patches[c]
    /\ \A p \in Calls : AppliedChange(p) => changes'[p] = changes[p]
    /\ receipts \subseteq receipts'

(* A run that halted is not touched by the step of another call.           *)
LEMMA HaltedKeeps ==
    ASSUME ExecutionInv, NEW c \in Calls, NEW rec \in CallRecords, StepOf(c, rec),
           NEW d \in Calls, Halted(d)
    PROVE  /\ d # c /\ calls'[d] = calls[d] /\ Halted(d)'
           /\ generations'[d] = generations[d] /\ approvals'[d] = approvals[d]
<1>1. calls \in [Calls -> CallRecords \cup {None}]
  BY DEF ExecutionInv, TypeOK
<1>2. d # c
  BY ExecutionAssumption DEF Halted, StepOf, Live, Statuses
<1>3. /\ calls'[d] = calls[d] /\ generations'[d] = generations[d]
      /\ approvals'[d] = approvals[d]
  BY <1>1, <1>2 DEF StepOf
<1> QED BY <1>2, <1>3 DEF Halted, Selected, Generated

(* Nothing changes for the other calls.                                    *)
LEMMA OthersKeep ==
    ASSUME ExecutionInv, NEW c \in Calls, NEW rec \in CallRecords, StepOf(c, rec),
           NEW d \in Calls \ {c}
    PROVE  /\ calls'[d] = calls[d]
           /\ CallInStep(d)' /\ ApprovalInStep(d)' /\ PatchInStep(d)'
           /\ Live(d)' => calls'[d].at = "GENERATING"
<1>1. /\ calls \in [Calls -> CallRecords \cup {None}]
      /\ CallInStep(d) /\ ApprovalInStep(d) /\ PatchInStep(d) /\ LoopInStep
  BY DEF ExecutionInv, TypeOK
<1>2. /\ calls'[d] = calls[d] /\ generations'[d] = generations[d]
      /\ approvals'[d] = approvals[d]
      /\ patches'[d] = patches[d] /\ commands'[d] = commands[d]
  BY <1>1 DEF StepOf
<1>3. calls[d] # None => calls[d] \in CallRecords /\ calls[d].plan \in Calls
  BY <1>1 DEF CallRecords
<1>4. Live(d) => calls[d].at = "GENERATING"
  BY <1>1, ExecutionAssumption DEF LoopInStep, StepOf
<1>5. Live(d)' = Live(d) /\ PatchOf(d)' = PatchOf(d) /\ Selected(d)' = Selected(d)
  BY <1>2 DEF Live, PatchOf, Selected
<1>6. \A p \in Calls : AppliedChange(p) => AppliedChange(p)'
  BY DEF StepOf, AppliedChange
<1>7. \A p \in Calls : patches[p] # None => patches'[p] = patches[p]
  BY DEF StepOf
<1>8. PatchOf(d) \in Calls \/ calls[d] = None
  BY <1>3 DEF PatchOf
<1>9. CallInStep(d)'
  <2>1. Fresh(d)'
    BY <1>1, <1>2 DEF CallInStep, Fresh
  <2>2. ASSUME calls[d] # None
        PROVE  Lineage(d)'
    <3>1. Lineage(d) /\ calls[d].plan \in Calls
      BY <1>1, <1>3, <2>2 DEF CallInStep
    <3>2. CASE calls[d].kind = "run"
      <4>1. Halted(d) => Halted(d)'
        BY HaltedKeeps
      <4> QED BY <1>2, <3>1, <3>2, <4>1 DEF Lineage
    <3>3. CASE calls[d].kind = "resume"
      <4>1. Halted(calls[d].plan) /\ calls[calls[d].plan].request = calls[d].request
        BY <3>1, <3>3 DEF Lineage
      <4>2. PICK plan \in Calls : plan = calls[d].plan
        BY <3>1
      <4>3. Halted(plan)' /\ calls'[plan] = calls[plan]
        BY <4>1, <4>2, HaltedKeeps
      <4> QED BY <1>2, <3>1, <3>3, <4>1, <4>2, <4>3 DEF Lineage
    <3>4. CASE calls[d].kind = "apply"
      BY <1>2, <1>7, <3>1, <3>4 DEF Lineage
    <3>5. CASE calls[d].kind \notin {"run", "resume", "apply"}
      BY <1>2, <3>1, <3>5 DEF Lineage
    <3> QED BY <3>2, <3>3, <3>4, <3>5
  <2>3. ASSUME Live(d)
        PROVE  CodeInStep(d)' /\ WriteInStep(d)' /\ CommandInStep(d)'
    <3>1. /\ calls[d].at = "GENERATING" /\ calls[d] # None
          /\ CodeInStep(d) /\ WriteInStep(d) /\ CommandInStep(d) /\ Lineage(d)
      BY <1>1, <1>4, <2>3 DEF CallInStep, Live
    <3>2. calls[d].kind # "resume"
      BY <3>1 DEF Lineage, Places, Writes, Runs, Over
    <3>3. CodeInStep(d)'
      BY <1>2, <3>1, <3>2 DEF CodeInStep
    <3>4. WriteInStep(d)'
      BY <1>2, <3>1 DEF WriteInStep, Writes, Runs, Early
    <3>5. CommandInStep(d)'
      BY <1>2, <3>1 DEF CommandInStep
    <3> QED BY <3>3, <3>4, <3>5
  <2>4. ASSUME calls[d] # None, calls[d].outcome # None
        PROVE  EndedTrue(d)'
    <3>1. EndedTrue(d)
      BY <1>1, <2>4 DEF CallInStep
    <3>2. receipts \subseteq receipts'
      BY DEF StepOf
    <3> QED BY <1>2, <1>5, <1>6, <1>8, <2>4, <3>1, <3>2 DEF EndedTrue
  <2> QED BY <1>2, <1>5, <2>1, <2>2, <2>3, <2>4 DEF CallInStep
<1>10. ApprovalInStep(d)'
  BY <1>1, <1>2 DEF ApprovalInStep
<1>11. PatchInStep(d)'
  <2>1. CASE patches[d] = None
    BY <1>2, <2>1 DEF PatchInStep
  <2>2. CASE patches[d] # None
    <3>1. /\ calls[d] # None /\ calls[d].kind = "resume" /\ calls[d].plan \in Calls
          /\ Lineage(d)
      BY <1>1, <1>3, <2>2 DEF PatchInStep, CallInStep
    <3>2. PICK plan \in Calls : plan = calls[d].plan
      BY <3>1
    <3>3. Halted(plan)
      BY <3>1, <3>2 DEF Lineage
    <3>4. generations'[plan] = generations[plan] /\ approvals'[plan] = approvals[plan]
      BY <3>3, HaltedKeeps
    <3> QED BY <1>1, <1>2, <1>5, <2>2, <3>2, <3>4 DEF PatchInStep
  <2> QED BY <2>1, <2>2
<1> QED BY <1>2, <1>4, <1>5, <1>9, <1>10, <1>11


(* A step of one call keeps the invariant when it keeps that call in step  *)
(* with what is stored.                                                    *)
LEMMA StepKeeps ==
    ASSUME ExecutionInv, NEW c \in Calls, NEW rec \in CallRecords, StepOf(c, rec),
           TypeOK', ReceiptsInStep',
           CallInStep(c)', ApprovalInStep(c)', PatchInStep(c)'
    PROVE  ExecutionInv'
<1>1. calls'[c] = rec
  BY DEF StepOf, ExecutionInv, TypeOK
<1>2. LoopInStep'
  <2> SUFFICES ASSUME NEW d \in Calls, Live(d)', calls'[d].at # "GENERATING"
               PROVE  loop' = d
    BY DEF LoopInStep
  <2>1. d = c
    BY OthersKeep
  <2> QED BY <1>1, <2>1 DEF StepOf, Live
<1>3. \A d \in Calls : CallInStep(d)' /\ ApprovalInStep(d)' /\ PatchInStep(d)'
  BY OthersKeep
<1> QED BY <1>2, <1>3 DEF ExecutionInv

(* A live call goes on with its work, or ends: what has to be shown is     *)
(* what it has in hand, or what it says.                                   *)
LEMMA GoesOn ==
    ASSUME ExecutionInv, NEW c \in Calls, NEW rec \in CallRecords, StepOf(c, rec), Live(c),
           rec.kind = calls[c].kind, rec.plan = calls[c].plan,
           rec.request = calls[c].request,
           rec.at \in Places(rec.kind),
           rec.outcome \in {"AWAITING_APPROVAL", "DENIED"} => rec.kind = "resume",
           approvals' = approvals, patches' = patches, TypeOK', ReceiptsInStep',
           rec.outcome = None => CodeInStep(c)' /\ WriteInStep(c)' /\ CommandInStep(c)',
           rec.outcome # None => EndedTrue(c)'
    PROVE  ExecutionInv'
<1>1. /\ calls'[c] = rec /\ calls[c] # None /\ calls'[c] # None
      /\ calls[c] \in CallRecords /\ calls[c].plan \in Calls
      /\ CallInStep(c) /\ ApprovalInStep(c) /\ PatchInStep(c)
  <2>1. calls \in [Calls -> CallRecords \cup {None}]
    BY DEF ExecutionInv, TypeOK
  <2>2. calls[c] # None /\ calls[c] \in CallRecords
    BY <2>1 DEF Live
  <2>3. calls[c].plan \in Calls
    BY <2>2 DEF CallRecords
  <2>4. calls'[c] = rec /\ rec # None
    BY <2>1, ExecutionAssumption DEF StepOf
  <2> QED BY <2>2, <2>3, <2>4 DEF ExecutionInv
<1>2. Lineage(c)'
  <2>1. Lineage(c)
    BY <1>1 DEF CallInStep
  <2>2. CASE rec.kind = "run"
    BY <1>1, <2>1, <2>2 DEF Lineage
  <2>3. CASE rec.kind = "resume"
    <3>1. PICK plan \in Calls : plan = calls[c].plan
      BY <1>1
    <3>2. Halted(plan) /\ calls[plan].request = calls[c].request
      BY <2>1, <2>3, <3>1 DEF Lineage
    <3>3. Halted(plan)' /\ calls'[plan] = calls[plan]
      BY <3>2, HaltedKeeps
    <3> QED BY <1>1, <2>3, <3>1, <3>2, <3>3 DEF Lineage
  <2>4. CASE rec.kind = "apply"
    BY <1>1, <2>1, <2>4 DEF Lineage
  <2>5. CASE rec.kind \notin {"run", "resume", "apply"}
    BY <1>1, <2>1, <2>5 DEF Lineage
  <2> QED BY <2>2, <2>3, <2>4, <2>5
<1>3. CallInStep(c)'
  BY <1>1, <1>2 DEF CallInStep, Fresh, Live
<1>4. ApprovalInStep(c)'
  BY <1>1 DEF ApprovalInStep
<1>5. PatchInStep(c)'
  <2>1. CASE patches[c] = None
    BY <2>1 DEF PatchInStep
  <2>2. CASE patches[c] # None
    <3>1. PICK plan \in Calls : plan = calls[c].plan
      BY <1>1
    <3>2. calls[c].kind = "resume" /\ Lineage(c)
      BY <1>1, <2>2 DEF PatchInStep, CallInStep
    <3>3. Halted(plan)
      BY <3>1, <3>2 DEF Lineage
    <3>4. generations'[plan] = generations[plan]
      BY <3>3, HaltedKeeps
    <3>5. Selected(c)' = Selected(c)
      BY <1>1 DEF Selected
    <3> QED BY <1>1, <2>2, <3>1, <3>4, <3>5 DEF PatchInStep
  <2> QED BY <2>1, <2>2
<1> QED BY <1>3, <1>4, <1>5, StepKeeps


-----------------------------------------------------------------------------
(* Steps, action by action.                                                *)

(* What is known of a call that has not ended.                             *)
LEMMA LiveFacts ==
    ASSUME ExecutionInv, NEW c \in Calls, Live(c)
    PROVE  /\ calls[c] # None /\ calls[c] \in CallRecords /\ calls[c].outcome = None
           /\ calls[c].plan \in Calls /\ calls[c].at \in Places(calls[c].kind)
           /\ calls[c].kind \in {"run", "resume", "apply"}
           /\ Lineage(c) /\ CodeInStep(c) /\ WriteInStep(c) /\ CommandInStep(c)
<1>1. calls[c] # None /\ calls[c].outcome = None /\ calls[c] \in CallRecords
  BY DEF Live, ExecutionInv, TypeOK
<1>2. CallInStep(c)
  BY DEF ExecutionInv
<1>3. Lineage(c) /\ CodeInStep(c) /\ WriteInStep(c) /\ CommandInStep(c)
  BY <1>1, <1>2 DEF CallInStep
<1>4. calls[c].plan \in Calls /\ calls[c].kind \in {"run", "resume", "apply"}
  BY <1>1 DEF CallRecords
<1> QED BY <1>1, <1>3, <1>4 DEF Lineage

(* A step that stores nothing.                                             *)
LEMMA QuietStep ==
    ASSUME ExecutionInv, NEW c \in Calls, NEW rec \in CallRecords,
           calls[c] = None \/ Live(c), loop \in {None, c},
           Becomes(c, rec), UNCHANGED stored, UNCHANGED edits, files' \in [Paths -> Files]
    PROVE  StepOf(c, rec) /\ TypeOK' /\ ReceiptsInStep' /\ calls'[c] = rec
<1>1. calls \in [Calls -> CallRecords \cup {None}] /\ loop \in Calls \cup {None}
  BY DEF ExecutionInv, TypeOK
<1>2. StepOf(c, rec) /\ calls'[c] = rec
  BY <1>1 DEF StepOf, Becomes, stored
<1>3. calls' \in [Calls -> CallRecords \cup {None}]
  BY <1>1 DEF Becomes
<1>4. loop' \in Calls \cup {None}
  BY DEF Becomes
<1>5. TypeOK'
  BY <1>3, <1>4 DEF ExecutionInv, TypeOK, stored
<1>6. ReceiptsInStep'
  BY DEF ExecutionInv, ReceiptsInStep, ReceiptOf, stored
<1> QED BY <1>2, <1>5, <1>6

(* A call that stops before its command is started: a failure or a         *)
(* cancellation.                                                           *)
LEMMA StopKeeps ==
    ASSUME ExecutionInv, NEW c \in Calls, HasLoop(c),
           calls[c].at \notin {"RUNNING", "RECEIPT"},
           NEW status \in {"STOPPED_ON_FAILURE", "CANCELLED"},
           Becomes(c, Ended(calls[c], status)), UNCHANGED <<stored, files, edits>>
    PROVE  ExecutionInv'
<1>1. Live(c) /\ loop \in {None, c}
  BY DEF HasLoop
<1>2. /\ calls[c] \in CallRecords /\ calls[c].at \in Places(calls[c].kind)
      /\ CommandInStep(c)
  BY <1>1, LiveFacts
<1>3. PICK rec \in CallRecords :
          /\ rec = Ended(calls[c], status) /\ SameWork(rec, calls[c])
          /\ rec.outcome = status /\ rec.at = calls[c].at
  BY <1>2, EndedFits DEF Statuses
<1>4. files' \in [Paths -> Files]
  BY DEF ExecutionInv, TypeOK
<1>5. StepOf(c, rec) /\ TypeOK' /\ ReceiptsInStep' /\ calls'[c] = rec
  BY <1>1, <1>3, <1>4, QuietStep
<1>6. EndedTrue(c)'
  <2>1. "command" \notin calls'[c].refs
    BY <1>2, <1>3, <1>5 DEF CommandInStep, SameWork
  <2>2. commands'[c] = None /\ None \notin Terminal
    BY <1>2, ExecutionAssumption DEF CommandInStep, stored
  <2> QED BY <1>3, <1>5, <2>1, <2>2 DEF EndedTrue
<1>7. rec.outcome # None
  BY <1>3, ExecutionAssumption DEF Statuses
<1> QED BY <1>1, <1>2, <1>3, <1>5, <1>6, <1>7, GoesOn DEF SameWork, stored

LEMMA StopCancelledKeeps ==
    ASSUME ExecutionInv, NEW c \in Calls, StopCancelled(c)
    PROVE  ExecutionInv'
<1>1. calls[c].at \notin {"RUNNING", "RECEIPT"}
  BY StageSet DEF StopCancelled, Boundaries
<1> QED BY <1>1, StopKeeps DEF StopCancelled

LEMMA FailKeeps ==
    ASSUME ExecutionInv, NEW c \in Calls, HasLoop(c),
           calls[c].at \notin {"RUNNING", "RECEIPT"},
           Fail(c), UNCHANGED <<stored, files, edits>>
    PROVE  ExecutionInv'
BY StopKeeps DEF Fail


(* A call that starts.                                                     *)
LEMMA StartKeeps ==
    ASSUME ExecutionInv, NEW c \in Calls, calls[c] = None, loop = None,
           NEW rec \in CallRecords, Becomes(c, rec), UNCHANGED <<stored, files, edits>>,
           rec.outcome = None, rec.at \notin {"RUNNING", "RECEIPT"}, "command" \notin rec.refs,
           Lineage(c)', CodeInStep(c)', WriteInStep(c)'
    PROVE  ExecutionInv'
<1>1. files' \in [Paths -> Files]
  BY DEF ExecutionInv, TypeOK
<1>2. StepOf(c, rec) /\ TypeOK' /\ ReceiptsInStep' /\ calls'[c] = rec
  BY <1>1, QuietStep
<1>3. patches[c] = None /\ commands[c] = None /\ approvals[c] = None
  BY DEF ExecutionInv, CallInStep, Fresh
<1>4. CommandInStep(c)'
  BY <1>2, <1>3 DEF CommandInStep, stored
<1>5. rec # None
  BY ExecutionAssumption
<1>6. CallInStep(c)'
  BY <1>2, <1>4, <1>5 DEF CallInStep, Fresh
<1>7. ApprovalInStep(c)' /\ PatchInStep(c)'
  BY <1>3 DEF ApprovalInStep, PatchInStep, stored
<1> QED BY <1>2, <1>6, <1>7, StepKeeps

LEMMA RunKeeps ==
    ASSUME ExecutionInv, NEW c \in Calls, Run(c)
    PROVE  ExecutionInv'
<1>1. PICK q \in Requests, cancelled \in BOOLEAN :
          Becomes(c, [NewCall("run", c, q, "PLANNING") EXCEPT !.cancel = cancelled])
  BY DEF Run
<1>2. PICK new : new = NewCall("run", c, q, "PLANNING")
  OBVIOUS
<1>3. /\ new \in CallRecords /\ new.kind = "run" /\ new.plan = c /\ new.at = "PLANNING"
      /\ new.refs = {} /\ new.outcome = None
  BY <1>2, NewFits, StageSet
<1>4. PICK rec : rec = [new EXCEPT !.cancel = cancelled]
  OBVIOUS
<1>5. /\ rec \in CallRecords /\ rec.kind = "run" /\ rec.plan = c /\ rec.at = "PLANNING"
      /\ rec.refs = {} /\ rec.outcome = None
  BY <1>3, <1>4 DEF CallRecords
<1>6. calls[c] = None /\ loop = None /\ Becomes(c, rec) /\ UNCHANGED <<stored, files, edits>>
  BY <1>1, <1>2, <1>4 DEF Run
<1>7. calls'[c] = rec
  BY <1>6 DEF Becomes, ExecutionInv, TypeOK
<1>8. Lineage(c)'
  BY <1>5, <1>7, ExecutionAssumption DEF Lineage, Places, Early, Statuses
<1>9. CodeInStep(c)'
  BY <1>5, <1>7 DEF CodeInStep
<1>10. WriteInStep(c)'
  <2>1. patches'[c] = None
    BY <1>6 DEF ExecutionInv, CallInStep, Fresh, stored
  <2> QED BY <1>5, <1>7, <2>1 DEF WriteInStep, Writes, Runs
<1> QED BY <1>5, <1>6, <1>8, <1>9, <1>10, StartKeeps

(* A call that goes on and stores nothing.                                 *)
LEMMA QuietKeeps ==
    ASSUME ExecutionInv, NEW c \in Calls, Live(c), loop \in {None, c},
           NEW rec \in CallRecords, Becomes(c, rec), UNCHANGED stored, UNCHANGED edits,
           files' \in [Paths -> Files],
           rec.kind = calls[c].kind, rec.plan = calls[c].plan,
           rec.request = calls[c].request, rec.at \in Places(rec.kind),
           rec.outcome \in {"AWAITING_APPROVAL", "DENIED"} => rec.kind = "resume",
           rec.outcome = None => CodeInStep(c)' /\ WriteInStep(c)' /\ CommandInStep(c)',
           rec.outcome # None => EndedTrue(c)'
    PROVE  ExecutionInv'
<1>1. StepOf(c, rec) /\ TypeOK' /\ ReceiptsInStep'
  BY QuietStep
<1> QED BY <1>1, GoesOn DEF stored

(* A step of a call that stores nothing is typed.                          *)
LEMMA BecomesTyped ==
    ASSUME ExecutionInv, NEW c \in Calls, NEW rec \in CallRecords, Becomes(c, rec)
    PROVE  /\ calls' \in [Calls -> CallRecords \cup {None}] /\ loop' \in Calls \cup {None}
           /\ calls'[c] = rec
BY DEF Becomes, ExecutionInv, TypeOK

(* A step that stores what became of the call's generation.                *)
LEMMA GenerationStep ==
    ASSUME ExecutionInv, NEW c \in Calls, Live(c), loop \in {None, c},
           NEW rec \in CallRecords, Becomes(c, rec), NEW g \in GenerationRecords,
           generations' = [generations EXCEPT ![c] = g],
           UNCHANGED <<approvals, patches, changes, commands, receipts, files, edits>>
    PROVE  /\ StepOf(c, rec) /\ TypeOK' /\ ReceiptsInStep'
           /\ calls'[c] = rec /\ generations'[c] = g /\ g # None
<1>1. generations \in [Calls -> GenerationRecords \cup {None}]
  BY DEF ExecutionInv, TypeOK
<1>2. /\ generations' \in [Calls -> GenerationRecords \cup {None}] /\ generations'[c] = g
      /\ \A d \in Calls \ {c} : generations'[d] = generations[d]
  BY <1>1
<1>3. StepOf(c, rec)
  BY <1>2 DEF StepOf, Becomes
<1>4. TypeOK'
  BY <1>2, BecomesTyped DEF ExecutionInv, TypeOK
<1>5. ReceiptsInStep'
  BY DEF ExecutionInv, ReceiptsInStep, ReceiptOf
<1>6. g # None
  BY ExecutionAssumption
<1> QED BY <1>2, <1>3, <1>4, <1>5, <1>6, BecomesTyped

LEMMA GenerateKeeps ==
    ASSUME ExecutionInv, NEW c \in Calls, Generate(c)
    PROVE  ExecutionInv'
<1>1. /\ Live(c) /\ loop \in {None, c} /\ calls[c].at = "CODE_GENERATION"
      /\ generations' = [generations EXCEPT ![c] = [status |-> "GENERATING", proposal |-> None]]
      /\ Becomes(c, [calls[c] EXCEPT !.at = "GENERATING"])
      /\ UNCHANGED <<approvals, patches, changes, commands, receipts, files, edits>>
  BY DEF Generate, Enters, At, HasLoop
<1>2. /\ calls[c] \in CallRecords /\ calls[c].at \in Places(calls[c].kind)
      /\ calls[c].kind \in {"run", "resume", "apply"} /\ calls[c].outcome = None
      /\ CommandInStep(c) /\ WriteInStep(c)
  BY <1>1, LiveFacts
<1>3. calls[c].kind = "run"
  BY <1>1, <1>2 DEF Places, Writes, Runs, Over
<1>4. PICK rec : rec = [calls[c] EXCEPT !.at = "GENERATING"]
  OBVIOUS
<1>5. /\ rec \in CallRecords /\ SameWork(rec, calls[c]) /\ rec.at = "GENERATING"
      /\ rec.outcome = None
  BY <1>2, <1>4 DEF CallRecords, SameWork, Waits
<1>6. PICK g \in GenerationRecords : g = [status |-> "GENERATING", proposal |-> None]
  BY DEF GenerationRecords
<1>7. /\ StepOf(c, rec) /\ TypeOK' /\ ReceiptsInStep'
      /\ calls'[c] = rec /\ generations'[c] = g /\ g # None
  BY <1>1, <1>4, <1>5, <1>6, GenerationStep
<1>8. CodeInStep(c)' /\ WriteInStep(c)' /\ CommandInStep(c)'
  BY <1>1, <1>2, <1>3, <1>5, <1>7
  DEF CodeInStep, WriteInStep, CommandInStep, Early, Writes, Runs, SameWork
<1>9. rec.at \in Places(rec.kind) /\ rec.outcome \notin {"AWAITING_APPROVAL", "DENIED"}
  BY <1>3, <1>5, ExecutionAssumption DEF Places, Early, SameWork, Statuses
<1> QED BY <1>1, <1>3, <1>5, <1>7, <1>8, <1>9, GoesOn, ExecutionAssumption
        DEF SameWork

(* A call that has finished a stage of code generation, with nothing       *)
(* written and nothing run, goes to the next one or has completed.         *)
LEMMA OnFromCode ==
    ASSUME ExecutionInv, NEW c \in Calls, Live(c),
           calls[c].at \in Early \cup {"RESUME"},
           NEW stage \in {"PLANNING", "CODE_GENERATION", "WORKSPACE_DIFF", "APPROVAL"},
           NEW old \in CallRecords, NEW rec, rec = Advanced(old, stage),
           old.kind \in {"run", "resume"}, old.request = calls[c].request,
           old.outcome = None, "command" \notin old.refs, calls'[c] = rec,
           patches' = patches, commands' = commands
    PROVE  /\ rec \in CallRecords /\ SameWork(rec, old)
           /\ Goes(stage, rec.at, Selected(c)) /\ Selected(c)' = Selected(c)
           /\ rec.at \in {"CODE_GENERATION", "WORKSPACE_DIFF", "APPROVAL", "PATCH",
                          "COMMAND_EXECUTION", "end"}
           /\ WriteInStep(c)' /\ CommandInStep(c)'
           /\ rec.outcome \in {None, "COMPLETED"}
           /\ rec.outcome = None <=> rec.at # "end"
           /\ rec.outcome = "COMPLETED" => EndedTrue(c)'
<1>1. PICK next : next = NextStage(stage, SelectStages(old.request))
  OBVIOUS
<1>2. None \notin Statuses /\ None \notin Terminal
  BY ExecutionAssumption
<1>3. stage \in {Stages[i] : i \in DOMAIN Stages}
  BY StageSet
<1>4. Goes(stage, next, Selected(c))
  BY <1>1, <1>3, WhereItGoes DEF Selected
<1>5. next \in {"CODE_GENERATION", "WORKSPACE_DIFF", "APPROVAL", "PATCH",
                "COMMAND_EXECUTION", "end"}
  BY <1>4 DEF Goes
<1>6. /\ rec \in CallRecords /\ SameWork(rec, old) /\ rec.at = next
      /\ \/ next = "end" /\ rec.outcome = "COMPLETED"
         \/ next # "end" /\ rec.outcome = None
  BY <1>1, <1>3, AdvancedFits
<1>7. Selected(c)' = Selected(c)
  BY <1>6 DEF Selected, SameWork
<1>8. WriteInStep(c) /\ CommandInStep(c)
  BY LiveFacts
<1>9. patches'[c] = None /\ commands'[c] = None /\ "command" \notin rec.refs
  BY <1>6, <1>8 DEF WriteInStep, CommandInStep, SameWork, Early
<1>10. next \in {"COMMAND_EXECUTION", "end"} => "PATCH" \notin Selected(c)
  BY <1>4 DEF Goes
<1>11. "WORKSPACE_WRITE" \in Selected(c) <=> "PATCH" \in Selected(c)
  BY SelectedTogether DEF Selected
<1>12. WriteInStep(c)' /\ CommandInStep(c)'
  BY <1>5, <1>6, <1>7, <1>9, <1>10, <1>11
  DEF WriteInStep, CommandInStep, Writes, Runs
<1>13. next = "end" => "COMMAND_EXECUTION" \notin Selected(c)
  BY <1>4 DEF Goes
<1>14. ASSUME rec.outcome = "COMPLETED"
       PROVE  EndedTrue(c)'
  <2>1. next = "end"
    BY <1>2, <1>6, <1>14 DEF Statuses
  <2>2. rec.kind # "apply"
    BY <1>6 DEF SameWork
  <2> QED BY <1>2, <1>6, <1>7, <1>9, <1>10, <1>11, <1>13, <1>14, <2>1, <2>2 DEF EndedTrue
<1>15. rec.outcome = None <=> rec.at # "end"
  BY <1>2, <1>6 DEF Statuses
<1> QED BY <1>4, <1>5, <1>6, <1>7, <1>12, <1>14, <1>15


LEMMA PlanKeeps ==
    ASSUME ExecutionInv, NEW c \in Calls, Plan(c)
    PROVE  ExecutionInv'
<1>1. /\ HasLoop(c) /\ Live(c) /\ loop \in {None, c} /\ calls[c].at = "PLANNING"
      /\ UNCHANGED <<stored, files, edits>> /\ files' \in [Paths -> Files]
  BY DEF Plan, Enters, At, HasLoop, ExecutionInv, TypeOK
<1>2. CASE Fail(c)
  BY <1>1, <1>2, FailKeeps
<1>3. CASE Becomes(c, Advanced([calls[c] EXCEPT !.refs = {"plan"}], "PLANNING"))
  <2>1. /\ calls[c] \in CallRecords /\ calls[c].at \in Places(calls[c].kind)
        /\ calls[c].kind \in {"run", "resume", "apply"} /\ calls[c].outcome = None
    BY <1>1, LiveFacts
  <2>2. calls[c].kind = "run"
    BY <1>1, <2>1 DEF Places, Writes, Runs, Over
  <2>3. PICK old : old = [calls[c] EXCEPT !.refs = {"plan"}]
    OBVIOUS
  <2>4. /\ old \in CallRecords /\ old.kind = "run" /\ old.plan = calls[c].plan
        /\ old.request = calls[c].request /\ old.refs = {"plan"} /\ old.outcome = None
    BY <2>1, <2>2, <2>3 DEF CallRecords
  <2>5. PICK rec : rec = Advanced(old, "PLANNING")
    OBVIOUS
  <2>6. Becomes(c, rec) /\ calls'[c] = rec
    BY <1>3, <2>3, <2>5 DEF Becomes, ExecutionInv, TypeOK
  <2>7. calls[c].at \in Early \cup {"RESUME"}
    BY <1>1 DEF Early
  <2>8. /\ rec \in CallRecords /\ SameWork(rec, old)
        /\ Goes("PLANNING", rec.at, Selected(c)) /\ Selected(c)' = Selected(c)
        /\ WriteInStep(c)' /\ CommandInStep(c)'
        /\ rec.outcome \in {None, "COMPLETED"}
        /\ rec.outcome = None <=> rec.at # "end"
        /\ rec.outcome = "COMPLETED" => EndedTrue(c)'
    BY <1>1, <2>4, <2>5, <2>6, <2>7, OnFromCode DEF stored
  <2>9. /\ rec.at \in {"CODE_GENERATION", "APPROVAL", "end"}
        /\ rec.at = "APPROVAL" => "PATCH" \notin Selected(c)
    BY <2>8 DEF Goes
  <2>10. CodeInStep(c)'
    BY <2>4, <2>6, <2>8, <2>9 DEF CodeInStep, SameWork
  <2>11. rec.at \in Places(rec.kind)
    BY <2>4, <2>8, <2>9 DEF Places, Early, Over, SameWork
  <2>12. rec.outcome \notin {"AWAITING_APPROVAL", "DENIED"}
    BY <2>8, ExecutionAssumption DEF Statuses
  <2> QED BY <1>1, <2>2, <2>4, <2>6, <2>8, <2>10, <2>11, <2>12, QuietKeeps DEF SameWork
<1> QED BY <1>1, <1>2, <1>3 DEF Plan

LEMMA ProviderAnswersKeeps ==
    ASSUME ExecutionInv, NEW c \in Calls, ProviderAnswers(c)
    PROVE  ExecutionInv'
<1>1. /\ Live(c) /\ loop \in {None, c} /\ calls[c].at = "GENERATING"
      /\ calls[c].at \in Early \cup {"RESUME"}
      /\ UNCHANGED <<approvals, patches, changes, commands, receipts, files, edits>>
  BY DEF ProviderAnswers, At, HasLoop, Early
<1>2. /\ calls[c] \in CallRecords /\ calls[c].at \in Places(calls[c].kind)
      /\ calls[c].kind \in {"run", "resume", "apply"} /\ calls[c].outcome = None
      /\ CodeInStep(c) /\ CommandInStep(c)
  BY <1>1, LiveFacts
<1>3. /\ calls[c].kind = "run" /\ generations[c] # None /\ "command" \notin calls[c].refs
      /\ commands[c] = None /\ None \notin Terminal
  BY <1>1, <1>2, ExecutionAssumption DEF Places, Writes, Runs, Over, CodeInStep, CommandInStep
<1>4. ASSUME NEW p \in Proposals,
             generations' = [generations EXCEPT ![c] = [status |-> "SUCCEEDED", proposal |-> p]],
             Becomes(c, Advanced([calls[c] EXCEPT !.changes = p, !.refs = @ \cup {"generation"}],
                                 "CODE_GENERATION"))
      PROVE  ExecutionInv'
  <2>1. PICK old : old = [calls[c] EXCEPT !.changes = p, !.refs = @ \cup {"generation"}]
    OBVIOUS
  <2>2. /\ old \in CallRecords /\ old.kind = "run" /\ old.plan = calls[c].plan
        /\ old.request = calls[c].request /\ "command" \notin old.refs /\ old.outcome = None
        /\ old.changes = p
    BY <1>2, <1>3, <2>1 DEF CallRecords
  <2>3. PICK rec : rec = Advanced(old, "CODE_GENERATION")
    OBVIOUS
  <2>4. Becomes(c, rec) /\ calls'[c] = rec
    BY <1>4, <2>1, <2>3 DEF Becomes, ExecutionInv, TypeOK
  <2>5. /\ rec \in CallRecords /\ SameWork(rec, old)
        /\ Goes("CODE_GENERATION", rec.at, Selected(c)) /\ Selected(c)' = Selected(c)
        /\ WriteInStep(c)' /\ CommandInStep(c)'
        /\ rec.outcome \in {None, "COMPLETED"}
        /\ rec.outcome = "COMPLETED" => EndedTrue(c)'
    BY <1>1, <2>2, <2>3, <2>4, OnFromCode
  <2>6. PICK g \in GenerationRecords : g = [status |-> "SUCCEEDED", proposal |-> p]
    BY DEF GenerationRecords
  <2>7. /\ StepOf(c, rec) /\ TypeOK' /\ ReceiptsInStep'
        /\ generations'[c] = g /\ g # None
    BY <1>1, <1>4, <2>4, <2>5, <2>6, GenerationStep
  <2>8. Generated(c)'
    BY <2>6, <2>7 DEF Generated
  <2>9. rec.at \in {"WORKSPACE_DIFF", "APPROVAL", "end"}
    BY <2>5 DEF Goes
  <2>10. CodeInStep(c)'
    BY <2>2, <2>4, <2>5, <2>8, <2>9 DEF CodeInStep, SameWork
  <2>11. rec.at \in Places(rec.kind)
    BY <2>2, <2>5, <2>9 DEF Places, Early, Over, SameWork
  <2>12. rec.outcome \notin {"AWAITING_APPROVAL", "DENIED"}
    BY <2>5, ExecutionAssumption DEF Statuses
  <2> QED BY <1>1, <1>3, <2>2, <2>5, <2>7, <2>10, <2>11, <2>12, GoesOn DEF SameWork
<1>5. ASSUME generations' = [generations EXCEPT ![c].status = "FAILED"],
             Becomes(c, Ended([calls[c] EXCEPT !.refs = @ \cup {"generation"}],
                              "STOPPED_ON_FAILURE"))
      PROVE  ExecutionInv'
  <2>1. PICK old : old = [calls[c] EXCEPT !.refs = @ \cup {"generation"}]
    OBVIOUS
  <2>2. /\ old \in CallRecords /\ old.kind = "run" /\ old.plan = calls[c].plan
        /\ old.request = calls[c].request /\ "command" \notin old.refs
        /\ old.at = calls[c].at
    BY <1>2, <1>3, <2>1 DEF CallRecords
  <2>3. PICK rec : rec = Ended(old, "STOPPED_ON_FAILURE")
    OBVIOUS
  <2>4. /\ rec \in CallRecords /\ SameWork(rec, old)
        /\ rec.outcome = "STOPPED_ON_FAILURE" /\ rec.at = old.at
    BY <2>2, <2>3, EndedFits DEF Statuses
  <2>5. generations[c] \in GenerationRecords
    BY <1>3 DEF ExecutionInv, TypeOK
  <2>6. PICK g : g = [generations[c] EXCEPT !.status = "FAILED"]
    OBVIOUS
  <2>7. g \in GenerationRecords /\ generations' = [generations EXCEPT ![c] = g]
    BY <1>5, <2>5, <2>6 DEF GenerationRecords
  <2>8. Becomes(c, rec)
    BY <1>5, <2>1, <2>3
  <2>9. /\ StepOf(c, rec) /\ TypeOK' /\ ReceiptsInStep' /\ calls'[c] = rec
    BY <1>1, <2>4, <2>7, <2>8, GenerationStep
  <2>10. EndedTrue(c)'
    BY <1>1, <1>3, <2>2, <2>4, <2>9 DEF EndedTrue, SameWork
  <2>11. rec.outcome # None
    BY <2>4, ExecutionAssumption DEF Statuses
  <2>12. rec.at \in Places(rec.kind)
    BY <1>2, <1>3, <2>2, <2>4 DEF SameWork
  <2> QED BY <1>1, <1>3, <2>2, <2>4, <2>9, <2>10, <2>11, <2>12, GoesOn DEF SameWork
<1> QED BY <1>4, <1>5 DEF ProviderAnswers

LEMMA WorkspaceDiffKeeps ==
    ASSUME ExecutionInv, NEW c \in Calls, WorkspaceDiff(c)
    PROVE  ExecutionInv'
<1>1. /\ HasLoop(c) /\ Live(c) /\ loop \in {None, c} /\ calls[c].at = "WORKSPACE_DIFF"
      /\ UNCHANGED <<stored, files, edits>>
      /\ files \in [Paths -> Files] /\ files' \in [Paths -> Files]
      /\ calls[c].at \in Early \cup {"RESUME"}
  BY DEF WorkspaceDiff, Enters, At, HasLoop, ExecutionInv, TypeOK, Early
<1>2. CASE Fail(c)
  BY <1>1, <1>2, FailKeeps
<1>3. CASE Becomes(c, Advanced([calls[c] EXCEPT !.diff = Diff(files, calls[c].changes)],
                               "WORKSPACE_DIFF"))
  <2>1. /\ calls[c] \in CallRecords /\ calls[c].at \in Places(calls[c].kind)
        /\ calls[c].kind \in {"run", "resume", "apply"} /\ calls[c].outcome = None
        /\ CodeInStep(c) /\ CommandInStep(c)
    BY <1>1, LiveFacts
  <2>2. /\ calls[c].kind = "run" /\ calls[c].changes \in Proposals /\ Generated(c)
        /\ "command" \notin calls[c].refs
    BY <1>1, <2>1 DEF Places, Writes, Runs, Over, CodeInStep, CommandInStep
  <2>3. PICK diff : diff = Diff(files, calls[c].changes)
    OBVIOUS
  <2>4. diff \in Diffs(Paths)
    BY <1>1, <2>2, <2>3, DiffFits
  <2>5. PICK old : old = [calls[c] EXCEPT !.diff = diff]
    OBVIOUS
  <2>6. /\ old \in CallRecords /\ old.kind = "run" /\ old.plan = calls[c].plan
        /\ old.request = calls[c].request /\ "command" \notin old.refs /\ old.outcome = None
    BY <2>1, <2>2, <2>4, <2>5 DEF CallRecords
  <2>7. PICK rec : rec = Advanced(old, "WORKSPACE_DIFF")
    OBVIOUS
  <2>8. Becomes(c, rec) /\ calls'[c] = rec
    BY <1>3, <2>3, <2>5, <2>7 DEF Becomes, ExecutionInv, TypeOK
  <2>9. /\ rec \in CallRecords /\ SameWork(rec, old)
        /\ Goes("WORKSPACE_DIFF", rec.at, Selected(c)) /\ Selected(c)' = Selected(c)
        /\ WriteInStep(c)' /\ CommandInStep(c)'
        /\ rec.outcome \in {None, "COMPLETED"}
        /\ rec.outcome = "COMPLETED" => EndedTrue(c)'
    BY <1>1, <2>6, <2>7, <2>8, OnFromCode DEF stored
  <2>10. rec.at \in {"APPROVAL", "end"} /\ Generated(c)'
    BY <1>1, <2>2, <2>9 DEF Goes, Generated, stored
  <2>11. CodeInStep(c)'
    BY <2>6, <2>8, <2>9, <2>10 DEF CodeInStep, SameWork
  <2>12. rec.at \in Places(rec.kind)
    BY <2>6, <2>9, <2>10 DEF Places, Early, Over, SameWork
  <2>13. rec.outcome \notin {"AWAITING_APPROVAL", "DENIED"}
    BY <2>9, ExecutionAssumption DEF Statuses
  <2> QED BY <1>1, <2>2, <2>6, <2>8, <2>9, <2>11, <2>12, <2>13, QuietKeeps DEF SameWork
<1> QED BY <1>1, <1>2, <1>3 DEF WorkspaceDiff

LEMMA CancelKeeps ==
    ASSUME ExecutionInv, NEW c \in Calls, Cancel(c)
    PROVE  ExecutionInv'
<1>1. /\ Live(c) /\ loop = None /\ loop' = None
      /\ calls' = [calls EXCEPT ![c] = [calls[c] EXCEPT !.cancel = TRUE]]
      /\ UNCHANGED <<stored, files, edits>> /\ files' \in [Paths -> Files]
  BY DEF Cancel, ExecutionInv, TypeOK
<1>2. /\ calls[c] \in CallRecords /\ calls[c].at \in Places(calls[c].kind)
      /\ calls[c].outcome = None
      /\ CodeInStep(c) /\ WriteInStep(c) /\ CommandInStep(c)
  BY <1>1, LiveFacts
<1>3. calls[c].at = "GENERATING"
  BY <1>1, ExecutionAssumption DEF ExecutionInv, LoopInStep
<1>4. PICK rec : rec = [calls[c] EXCEPT !.cancel = TRUE]
  OBVIOUS
<1>5. /\ rec \in CallRecords /\ SameWork(rec, calls[c]) /\ rec.at = "GENERATING"
      /\ rec.outcome = None
  BY <1>2, <1>3, <1>4 DEF CallRecords, SameWork
<1>6. Becomes(c, rec) /\ calls'[c] = rec
  BY <1>1, <1>4, <1>5 DEF Becomes, ExecutionInv, TypeOK
<1>7. CodeInStep(c)' /\ WriteInStep(c)' /\ CommandInStep(c)'
  BY <1>1, <1>2, <1>3, <1>5, <1>6
  DEF CodeInStep, WriteInStep, CommandInStep, Early, Writes, Runs, SameWork, stored
<1> QED BY <1>1, <1>2, <1>3, <1>5, <1>6, <1>7, QuietKeeps, ExecutionAssumption
        DEF SameWork, Statuses

LEMMA RequestApprovalKeeps ==
    ASSUME ExecutionInv, NEW c \in Calls, RequestApproval(c)
    PROVE  ExecutionInv'
<1>1. /\ HasLoop(c) /\ Live(c) /\ loop \in {None, c} /\ calls[c].at = "APPROVAL"
      /\ UNCHANGED <<generations, patches, changes, commands, receipts, files, edits>>
      /\ approvals \in [Calls -> ApprovalRecords \cup {None}]
      /\ calls[c].at \in Early \cup {"RESUME"}
  BY DEF RequestApproval, Enters, At, HasLoop, ExecutionInv, TypeOK, Early
<1>2. CASE Fail(c) /\ UNCHANGED approvals
  BY <1>1, <1>2, FailKeeps DEF stored
<1>3. PICK person : person = RequiresApproval(calls[c].request)
  OBVIOUS
<1>4. PICK status : status = IF person THEN "PENDING" ELSE "APPROVED"
  OBVIOUS
<1>5. PICK old : old = [calls[c] EXCEPT !.approval = status, !.refs = @ \cup {"approval"}]
  OBVIOUS
<1>6. CASE /\ approvals' = [approvals EXCEPT ![c] =
                  [status |-> status, by |-> IF person THEN None ELSE "system"]]
           /\ Becomes(c, IF status = "PENDING" THEN Ended(old, "AWAITING_APPROVAL")
                         ELSE Advanced(old, "APPROVAL"))
  <2>1. /\ calls[c] \in CallRecords /\ calls[c].at \in Places(calls[c].kind)
        /\ calls[c].kind \in {"run", "resume", "apply"} /\ calls[c].outcome = None
        /\ Lineage(c) /\ CodeInStep(c) /\ WriteInStep(c) /\ CommandInStep(c)
    BY <1>1, LiveFacts
  <2>2. /\ calls[c].kind = "run" /\ calls[c].plan = c /\ "command" \notin calls[c].refs
        /\ patches[c] = None /\ commands[c] = None /\ None \notin Terminal
        /\ "PATCH" \in Selected(c) => Generated(c)
    BY <1>1, <2>1, ExecutionAssumption
    DEF Places, Writes, Runs, Over, Lineage, CodeInStep, WriteInStep, CommandInStep
  <2>3. /\ old \in CallRecords /\ old.kind = "run" /\ old.plan = c
        /\ old.request = calls[c].request /\ "command" \notin old.refs
        /\ old.outcome = None /\ old.at = calls[c].at
    BY <1>4, <1>5, <2>1, <2>2 DEF CallRecords, Decisions
  <2>4. PICK a : a = [status |-> status, by |-> IF person THEN None ELSE "system"]
    OBVIOUS
  <2>5. a \in ApprovalRecords /\ a.status = status
    BY <1>4, <2>4 DEF ApprovalRecords, Decisions
  <2>6. a # None
    BY <2>5, ExecutionAssumption
  <2>7. /\ approvals' \in [Calls -> ApprovalRecords \cup {None}] /\ approvals'[c] = a
        /\ \A d \in Calls \ {c} : approvals'[d] = approvals[d]
    BY <1>1, <1>6, <2>4, <2>5
  <2>8. ASSUME NEW rec \in CallRecords, Becomes(c, rec), SameWork(rec, old),
               CallInStep(c)'
        PROVE  ExecutionInv'
    <3>1. calls'[c] = rec /\ rec # None
      BY <2>8, BecomesTyped, ExecutionAssumption
    <3>2. StepOf(c, rec)
      BY <1>1, <2>7, <2>8 DEF StepOf, Becomes
    <3>3. TypeOK'
      BY <1>1, <2>7, <2>8, BecomesTyped DEF ExecutionInv, TypeOK
    <3>4. ReceiptsInStep'
      BY <1>1 DEF ExecutionInv, ReceiptsInStep, ReceiptOf
    <3>5. rec.kind = "run" /\ rec.request = calls[c].request
      BY <2>3, <2>8 DEF SameWork
    <3>6. ApprovalInStep(c)'
      <4>1. RequiresApproval(calls[c].request) => a.status = "PENDING"
        BY <1>3, <1>4, <2>5
      <4>2. RequiresApproval(calls[c].request)' <=> RequiresApproval(calls[c].request)
        BY <3>1, <3>5 DEF RequiresApproval
      <4> QED BY <2>7, <3>1, <3>5, <4>1, <4>2 DEF ApprovalInStep
    <3>7. PatchInStep(c)'
      BY <1>1, <2>2 DEF PatchInStep
    <3> QED BY <2>8, <3>2, <3>3, <3>4, <3>6, <3>7, StepKeeps
  <2>9. CASE person
    <3>1. PICK rec : rec = Ended(old, "AWAITING_APPROVAL")
      OBVIOUS
    <3>2. /\ rec \in CallRecords /\ SameWork(rec, old) /\ rec.at = old.at
          /\ rec.outcome = "AWAITING_APPROVAL" /\ Becomes(c, rec) /\ rec.outcome # None
      BY <1>4, <1>6, <2>3, <2>9, <3>1, EndedFits, ExecutionAssumption DEF Statuses
    <3>3. calls'[c] = rec /\ rec # None
      BY <3>2, BecomesTyped, ExecutionAssumption
    <3>4. rec.kind = "run" /\ rec.plan = c /\ rec.request = calls[c].request
      BY <2>3, <3>2 DEF SameWork
    <3>5. Halted(c)'
      <4>1. Selected(c)' = Selected(c) /\ (Generated(c) => Generated(c)')
        BY <1>1, <3>3, <3>4 DEF Selected, Generated
      <4> QED BY <2>2, <2>6, <2>7, <3>2, <3>3, <3>4, <4>1 DEF Halted
    <3>6. Lineage(c)'
      BY <1>1, <2>1, <2>2, <2>3, <3>2, <3>3, <3>4, <3>5 DEF Lineage
    <3>7. EndedTrue(c)'
      BY <1>1, <2>2, <2>3, <3>2, <3>3 DEF EndedTrue, SameWork
    <3>8. CallInStep(c)'
      BY <3>2, <3>3, <3>6, <3>7 DEF CallInStep, Fresh, Live
    <3> QED BY <2>8, <3>2, <3>8
  <2>10. CASE ~ person
    <3>1. PICK rec : rec = Advanced(old, "APPROVAL")
      OBVIOUS
    <3>2. Becomes(c, rec) /\ calls'[c] = rec
      BY <1>4, <1>6, <2>10, <3>1 DEF Becomes, ExecutionInv, TypeOK
    <3>3. /\ rec \in CallRecords /\ SameWork(rec, old)
          /\ Goes("APPROVAL", rec.at, Selected(c)) /\ Selected(c)' = Selected(c)
          /\ WriteInStep(c)' /\ CommandInStep(c)'
          /\ rec.outcome \in {None, "COMPLETED"}
          /\ rec.outcome = "COMPLETED" => EndedTrue(c)'
      BY <1>1, <2>3, <3>1, <3>2, OnFromCode
    <3>4. "PATCH" \notin Selected(c)
      BY <1>3, <2>10, SelectedTogether DEF Selected
    <3>5. rec.at \in {"COMMAND_EXECUTION", "end"}
      BY <3>3, <3>4 DEF Goes
    <3>6. /\ rec.kind = "run" /\ rec.plan = c /\ rec # None
          /\ rec.outcome # "AWAITING_APPROVAL" /\ rec.outcome \notin {"DENIED"}
      BY <2>3, <3>3, ExecutionAssumption DEF SameWork, Statuses
    <3>7. Lineage(c)'
      BY <3>2, <3>5, <3>6 DEF Lineage, Places, Runs, Over
    <3>8. CodeInStep(c)'
      BY <3>2, <3>5, <3>6 DEF CodeInStep
    <3>9. CallInStep(c)'
      BY <3>2, <3>3, <3>6, <3>7, <3>8 DEF CallInStep, Fresh, Live
    <3> QED BY <2>8, <3>2, <3>3, <3>9
  <2> QED BY <2>9, <2>10
<1> QED BY <1>2, <1>3, <1>4, <1>5, <1>6 DEF RequestApproval

LEMMA DecideKeeps ==
    ASSUME ExecutionInv, NEW c \in Calls, Decide(c)
    PROVE  ExecutionInv'
<1>1. PICK status \in {"APPROVED", "REJECTED"} :
         approvals' = [approvals EXCEPT ![c] = [status |-> status, by |-> "person"]]
  BY DEF Decide
<1>2. /\ approvals[c] # None /\ approvals[c].status = "PENDING"
      /\ UNCHANGED <<calls, loop, generations, patches, changes, commands, receipts,
                     files, edits>>
      /\ approvals \in [Calls -> ApprovalRecords \cup {None}]
  BY DEF Decide, ExecutionInv, TypeOK
<1>3. PICK a : a = [status |-> status, by |-> "person"]
  OBVIOUS
<1>4. a \in ApprovalRecords /\ a.by = "person"
  BY <1>3 DEF ApprovalRecords, Decisions
<1>5. a # None
  BY <1>4, ExecutionAssumption
<1>6. /\ approvals' \in [Calls -> ApprovalRecords \cup {None}] /\ approvals'[c] = a
      /\ \A d \in Calls \ {c} : approvals'[d] = approvals[d]
  BY <1>1, <1>2, <1>3, <1>4
<1>7. \A d \in Calls : approvals[d] # None /\ approvals[d].status # "PENDING" =>
                          approvals'[d] = approvals[d]
  BY <1>2, <1>6
<1>8. \A d \in Calls : approvals[d] # None <=> approvals'[d] # None
  BY <1>2, <1>5, <1>6
<1>9. TypeOK' /\ LoopInStep' /\ ReceiptsInStep'
  BY <1>2, <1>6
  DEF ExecutionInv, TypeOK, LoopInStep, Live, ReceiptsInStep, ReceiptOf
<1>10. ASSUME NEW d \in Calls
       PROVE  CallInStep(d)' /\ ApprovalInStep(d)' /\ PatchInStep(d)'
  <2>1. CallInStep(d) /\ ApprovalInStep(d) /\ PatchInStep(d)
    BY DEF ExecutionInv
  <2>2. \A e \in Calls : Halted(e) => Halted(e)'
    BY <1>2, <1>8 DEF Halted, Selected, Generated
  <2>3. calls[d] # None => calls[d].plan \in Calls
    BY DEF ExecutionInv, TypeOK, CallRecords
  <2>4. ASSUME calls[d] # None
        PROVE  Lineage(d)'
    BY <1>2, <2>1, <2>2, <2>3, <2>4 DEF CallInStep, Lineage
  <2>5. ASSUME Live(d)
        PROVE  CodeInStep(d)' /\ WriteInStep(d)' /\ CommandInStep(d)'
    <3>1. /\ CodeInStep(d) /\ WriteInStep(d) /\ CommandInStep(d) /\ Lineage(d)
          /\ calls[d].plan \in Calls
      BY <2>5, LiveFacts
    <3>2. WriteInStep(d)' /\ CommandInStep(d)'
      BY <1>2, <3>1 DEF WriteInStep, CommandInStep, PatchOf, AppliedChange, Selected
    <3>3. ASSUME calls[d].kind = "resume", calls[d].at # "RESUME"
          PROVE  approvals'[calls[d].plan].status = "APPROVED"
      <4>1. PICK plan \in Calls : plan = calls[d].plan
        BY <3>1
      <4>2. approvals[plan] # None /\ approvals[plan].status = "APPROVED"
        BY <3>1, <3>3, <4>1 DEF Lineage, Halted, CodeInStep
      <4> QED BY <1>7, <4>1, <4>2
    <3>4. CodeInStep(d)'
      BY <1>2, <3>1, <3>3 DEF CodeInStep, Generated, Selected
    <3> QED BY <3>2, <3>4
  <2>6. EndedTrue(d) => EndedTrue(d)'
    BY <1>2 DEF EndedTrue, Selected, AppliedChange, PatchOf
  <2>7. CallInStep(d)'
    BY <1>2, <1>8, <2>1, <2>4, <2>5, <2>6 DEF CallInStep, Fresh, Live
  <2>8. ApprovalInStep(d)'
    <3>1. CASE d = c
      BY <1>2, <1>4, <1>6, <2>1, <3>1 DEF ApprovalInStep
    <3>2. CASE d # c
      BY <1>2, <1>6, <2>1, <3>2 DEF ApprovalInStep
    <3> QED BY <3>1, <3>2
  <2>9. PatchInStep(d)'
    <3>1. CASE patches[d] = None
      BY <1>2, <3>1 DEF PatchInStep
    <3>2. CASE patches[d] # None
      <4>1. PICK plan \in Calls : plan = calls[d].plan
        BY <2>1, <2>3, <3>2 DEF PatchInStep
      <4>2. approvals[plan] = [status |-> "APPROVED", by |-> "person"]
        BY <2>1, <3>2, <4>1 DEF PatchInStep
      <4>3. plan # c
        BY <1>2, <4>2
      <4>4. approvals'[plan] = approvals[plan]
        BY <1>6, <4>3
      <4> QED BY <1>2, <2>1, <3>2, <4>1, <4>4 DEF PatchInStep, Selected
    <3> QED BY <3>1, <3>2
  <2> QED BY <2>7, <2>8, <2>9
<1> QED BY <1>9, <1>10 DEF ExecutionInv


LEMMA ResumeKeeps ==
    ASSUME ExecutionInv, NEW c \in Calls, Resume(c)
    PROVE  ExecutionInv'
<1>1. PICK prior \in Calls :
          /\ calls[prior] # None /\ calls[prior].outcome = "AWAITING_APPROVAL"
          /\ Becomes(c, [NewCall("resume", calls[prior].plan, calls[prior].request, "RESUME")
                            EXCEPT !.refs = calls[prior].refs])
  BY DEF Resume
<1>2. calls[c] = None /\ loop = None /\ UNCHANGED <<stored, files, edits>>
  BY DEF Resume
<1>3. calls[prior] \in CallRecords /\ CallInStep(prior)
  BY <1>1 DEF ExecutionInv, TypeOK
<1>4. /\ calls[prior].plan \in Calls /\ calls[prior].request \in Requests
      /\ calls[prior].kind \in {"run", "resume", "apply"}
      /\ calls[prior].refs \in SUBSET {"plan", "generation", "approval", "patch", "change",
                                       "command"}
  BY <1>3 DEF CallRecords
<1>5. PICK plan \in Calls : plan = calls[prior].plan
  BY <1>4
<1>6. Lineage(prior) /\ EndedTrue(prior)
  BY <1>1, <1>3, ExecutionAssumption DEF CallInStep, Statuses
<1>7. Halted(plan) /\ calls[plan].request = calls[prior].request
  BY <1>1, <1>4, <1>5, <1>6 DEF Lineage
<1>8. "command" \notin calls[prior].refs
  BY <1>1, <1>6, ExecutionAssumption DEF EndedTrue
<1>9. PICK new : new = NewCall("resume", calls[prior].plan, calls[prior].request, "RESUME")
  OBVIOUS
<1>10. /\ new \in CallRecords /\ new.kind = "resume" /\ new.plan = plan
       /\ new.request = calls[prior].request /\ new.at = "RESUME" /\ new.outcome = None
  BY <1>4, <1>5, <1>9, NewFits DEF Waits
<1>11. PICK rec : rec = [new EXCEPT !.refs = calls[prior].refs]
  OBVIOUS
<1>12. /\ rec \in CallRecords /\ rec.kind = "resume" /\ rec.plan = plan
       /\ rec.request = calls[prior].request /\ rec.at = "RESUME" /\ rec.outcome = None
       /\ "command" \notin rec.refs
  BY <1>4, <1>8, <1>10, <1>11 DEF CallRecords
<1>13. Becomes(c, rec) /\ calls'[c] = rec
  BY <1>1, <1>9, <1>11 DEF Becomes, ExecutionInv, TypeOK
<1>14. plan # c /\ calls'[plan] = calls[plan]
  BY <1>2, <1>7, <1>13 DEF Halted, Becomes, ExecutionInv, TypeOK
<1>15. Halted(plan)'
  BY <1>2, <1>7, <1>14 DEF Halted, Selected, Generated, stored
<1>16. Lineage(c)'
  BY <1>7, <1>12, <1>13, <1>14, <1>15 DEF Lineage, Places
<1>17. CodeInStep(c)'
  BY <1>12, <1>13 DEF CodeInStep
<1>18. patches'[c] = None
  BY <1>2 DEF ExecutionInv, CallInStep, Fresh, stored
<1>19. WriteInStep(c)'
  BY <1>12, <1>13, <1>18 DEF WriteInStep, Writes, Runs
<1> QED BY <1>2, <1>12, <1>13, <1>16, <1>17, <1>19, StartKeeps

LEMMA ReviewDecisionKeeps ==
    ASSUME ExecutionInv, NEW c \in Calls, ReviewDecision(c)
    PROVE  ExecutionInv'
<1>1. /\ HasLoop(c) /\ Live(c) /\ loop \in {None, c} /\ calls[c].at = "RESUME"
      /\ UNCHANGED <<stored, files, edits>>
      /\ files \in [Paths -> Files] /\ files' \in [Paths -> Files]
      /\ calls[c].at \in Early \cup {"RESUME"}
      /\ approvals \in [Calls -> ApprovalRecords \cup {None}]
  BY DEF ReviewDecision, Enters, At, HasLoop, ExecutionInv, TypeOK, Early
<1>2. /\ calls[c] \in CallRecords /\ calls[c].at \in Places(calls[c].kind)
      /\ calls[c].kind \in {"run", "resume", "apply"} /\ calls[c].outcome = None
      /\ Lineage(c) /\ WriteInStep(c) /\ CommandInStep(c) /\ calls[c].plan \in Calls
  BY <1>1, LiveFacts
<1>3. calls[c].kind = "resume"
  BY <1>1, <1>2 DEF Places, Early, Writes, Runs, Over
<1>4. PICK plan \in Calls : plan = calls[c].plan
  BY <1>2
<1>5. Halted(plan) /\ calls[plan].request = calls[c].request
  BY <1>2, <1>3, <1>4 DEF Lineage
<1>6. PICK status \in Decisions : status = approvals[plan].status
  BY <1>1, <1>5 DEF Halted, ApprovalRecords
<1>7. PICK rec : rec = [calls[c] EXCEPT !.approval = status]
  OBVIOUS
<1>8. /\ rec \in CallRecords /\ rec.kind = "resume" /\ rec.plan = plan
      /\ rec.request = calls[c].request /\ rec.refs = calls[c].refs /\ rec.at = "RESUME"
      /\ rec.outcome = None
  BY <1>1, <1>2, <1>3, <1>4, <1>6, <1>7 DEF CallRecords
<1>9. /\ "command" \notin calls[c].refs /\ commands[c] = None /\ patches[c] = None
      /\ None \notin Terminal
  BY <1>1, <1>2, ExecutionAssumption DEF CommandInStep, WriteInStep
<1>10. ASSUME NEW outcome \in {"AWAITING_APPROVAL", "DENIED"}, Becomes(c, Ended(rec, outcome))
       PROVE  ExecutionInv'
  <2>1. PICK new : new = Ended(rec, outcome)
    OBVIOUS
  <2> outcome \in Statuses /\ outcome # None
    BY ExecutionAssumption DEF Statuses
  <2>2. /\ new \in CallRecords /\ SameWork(new, rec) /\ new.outcome = outcome
        /\ new.at = "RESUME" /\ new.outcome # None
    BY <1>8, <2>1, EndedFits
  <2>3. Becomes(c, new) /\ calls'[c] = new
    BY <1>10, <2>1, <2>2, BecomesTyped
  <2>4. EndedTrue(c)'
    BY <1>1, <1>8, <1>9, <2>2, <2>3 DEF EndedTrue, SameWork, stored
  <2>5. new.at \in Places(new.kind)
    BY <1>8, <2>2 DEF Places, SameWork
  <2> QED BY <1>1, <1>3, <1>4, <1>8, <2>2, <2>3, <2>4, <2>5, QuietKeeps DEF SameWork
<1>11. ASSUME status = "APPROVED", NEW old \in CallRecords,
              old.kind = rec.kind, old.plan = rec.plan, old.request = rec.request,
              old.refs = rec.refs, old.outcome = None,
              "PATCH" \in Selected(c) =>
                 old.diff \in Diffs(Paths) /\ Follows(old.diff, generations[plan].proposal),
              Becomes(c, Advanced(old, "APPROVAL"))
       PROVE  ExecutionInv'
  <2>1. PICK new : new = Advanced(old, "APPROVAL")
    OBVIOUS
  <2>2. Becomes(c, new) /\ calls'[c] = new
    BY <1>11, <2>1 DEF Becomes, ExecutionInv, TypeOK
  <2>3. /\ new \in CallRecords /\ SameWork(new, old)
        /\ Goes("APPROVAL", new.at, Selected(c)) /\ Selected(c)' = Selected(c)
        /\ WriteInStep(c)' /\ CommandInStep(c)'
        /\ new.outcome \in {None, "COMPLETED"}
        /\ new.outcome = "COMPLETED" => EndedTrue(c)'
    BY <1>1, <1>8, <1>9, <1>11, <2>1, <2>2, OnFromCode DEF stored
  <2>4. /\ new.at \in {"PATCH", "COMMAND_EXECUTION", "end"}
        /\ new.at = "PATCH" => "PATCH" \in Selected(c)
    BY <2>3 DEF Goes
  <2>5. CodeInStep(c)'
    BY <1>1, <1>6, <1>8, <1>11, <2>2, <2>3, <2>4 DEF CodeInStep, SameWork, stored
  <2>6. new.at \in Places(new.kind)
    BY <1>8, <1>11, <2>3, <2>4 DEF Places, Runs, Over, SameWork
  <2>7. new.outcome \notin {"AWAITING_APPROVAL", "DENIED"}
    BY <2>3, ExecutionAssumption DEF Statuses
  <2> QED BY <1>1, <1>3, <1>4, <1>8, <1>11, <2>2, <2>3, <2>5, <2>6, <2>7, QuietKeeps DEF SameWork
<1>12. CASE status = "PENDING" /\ Becomes(c, Ended(rec, "AWAITING_APPROVAL"))
  BY <1>10, <1>12
<1>13. CASE status = "REJECTED" /\ Becomes(c, Ended(rec, "DENIED"))
  BY <1>10, <1>13
<1>14. CASE Fail(c)
  BY <1>1, <1>14, FailKeeps
<1>15. CASE /\ status = "APPROVED" /\ "PATCH" \in Selected(c)
            /\ Becomes(c, Advanced([rec EXCEPT !.changes = generations[plan].proposal,
                                               !.diff = ResumeDiff(c)], "APPROVAL"))
  <2>1. PICK proposal \in Proposals : proposal = generations[plan].proposal
    <3>1. Selected(plan) = Selected(c)
      BY <1>5 DEF Selected
    <3> QED BY <1>5, <1>15, <3>1 DEF Halted, Generated
  <2>2. PICK diff : diff = ResumeDiff(c)
    OBVIOUS
  <2>3. diff \in Diffs(Paths) /\ Follows(diff, generations[plan].proposal)
    BY <1>1, <1>4, <2>1, <2>2, DiffFits DEF ResumeDiff
  <2>4. PICK old : old = [rec EXCEPT !.changes = proposal, !.diff = diff]
    OBVIOUS
  <2>5. /\ old \in CallRecords /\ old.kind = rec.kind /\ old.plan = rec.plan
        /\ old.request = rec.request /\ old.refs = rec.refs /\ old.outcome = None
        /\ old.diff = diff
    BY <1>8, <2>3, <2>4 DEF CallRecords
  <2>6. Becomes(c, Advanced(old, "APPROVAL"))
    BY <1>15, <2>1, <2>2, <2>4
  <2> QED BY <1>11, <1>15, <2>3, <2>5, <2>6
<1>16. CASE /\ status = "APPROVED" /\ "PATCH" \notin Selected(c)
            /\ Becomes(c, Advanced(rec, "APPROVAL"))
  BY <1>8, <1>11, <1>16
<1>17. \/ status = "PENDING" /\ Becomes(c, Ended(rec, "AWAITING_APPROVAL"))
       \/ status = "REJECTED" /\ Becomes(c, Ended(rec, "DENIED"))
       \/ Fail(c)
       \/ /\ status = "APPROVED" /\ "PATCH" \in Selected(c)
          /\ Becomes(c, Advanced([rec EXCEPT !.changes = generations[plan].proposal,
                                             !.diff = ResumeDiff(c)], "APPROVAL"))
       \/ /\ status = "APPROVED" /\ "PATCH" \notin Selected(c)
          /\ Becomes(c, Advanced(rec, "APPROVAL"))
  BY <1>4, <1>6, <1>7, <1>8 DEF ReviewDecision, Selected
<1> QED BY <1>12, <1>13, <1>14, <1>15, <1>16, <1>17

LEMMA ApplyStoredPatchKeeps ==
    ASSUME ExecutionInv, NEW c \in Calls, ApplyStoredPatch(c)
    PROVE  ExecutionInv'
<1>1. PICK owner \in Calls :
          /\ patches[owner] # None
          /\ Becomes(c, [NewCall("apply", owner, calls[owner].request, "WORKSPACE_WRITE")
                            EXCEPT !.approval = patches[owner].approval])
  BY DEF ApplyStoredPatch
<1>2. calls[c] = None /\ loop = None /\ UNCHANGED <<stored, files, edits>>
  BY DEF ApplyStoredPatch
<1>3. calls[owner] \in CallRecords /\ patches[owner].approval = "APPROVED"
  BY <1>1 DEF ExecutionInv, TypeOK, PatchInStep
<1>4. calls[owner].request \in Requests
  BY <1>3 DEF CallRecords
<1>5. PICK new : new = NewCall("apply", owner, calls[owner].request, "WORKSPACE_WRITE")
  OBVIOUS
<1>6. /\ new \in CallRecords /\ new.kind = "apply" /\ new.plan = owner
      /\ new.at = "WORKSPACE_WRITE" /\ new.refs = {} /\ new.outcome = None
  BY <1>4, <1>5, NewFits, StageSet
<1>7. PICK rec : rec = [new EXCEPT !.approval = patches[owner].approval]
  OBVIOUS
<1>8. /\ rec \in CallRecords /\ rec.kind = "apply" /\ rec.plan = owner
      /\ rec.at = "WORKSPACE_WRITE" /\ rec.refs = {} /\ rec.outcome = None
  BY <1>3, <1>6, <1>7 DEF CallRecords, Decisions
<1>9. Becomes(c, rec) /\ calls'[c] = rec
  BY <1>1, <1>5, <1>7 DEF Becomes, ExecutionInv, TypeOK
<1>10. patches'[owner] # None
  BY <1>1, <1>2 DEF stored
<1>11. Lineage(c)'
  BY <1>8, <1>9, <1>10, ExecutionAssumption DEF Lineage, Places, Writes, Statuses
<1>12. CodeInStep(c)'
  BY <1>8, <1>9 DEF CodeInStep
<1>13. WriteInStep(c)'
  BY <1>8, <1>9, <1>10 DEF WriteInStep, PatchOf, Early, Writes, Runs
<1> QED BY <1>2, <1>8, <1>9, <1>11, <1>12, <1>13, StartKeeps


LEMMA PatchKeeps ==
    ASSUME ExecutionInv, NEW c \in Calls, Patch(c)
    PROVE  ExecutionInv'
<1>1. /\ HasLoop(c) /\ Live(c) /\ loop \in {None, c} /\ calls[c].at = "PATCH"
      /\ UNCHANGED <<generations, approvals, changes, commands, receipts, files, edits>>
      /\ patches \in [Calls -> PatchRecords \cup {None}]
      /\ approvals \in [Calls -> ApprovalRecords \cup {None}]
  BY DEF Patch, Enters, At, HasLoop, ExecutionInv, TypeOK
<1>2. CASE Fail(c) /\ UNCHANGED patches
  BY <1>1, <1>2, FailKeeps DEF stored
<1>3. CASE /\ calls[c].approval = "APPROVED"
           /\ patches' = [patches EXCEPT ![c] = GeneratePatch(c)]
           /\ Becomes(c, Advanced([calls[c] EXCEPT !.refs = @ \cup {"patch"}], "PATCH"))
  <2>1. /\ calls[c] \in CallRecords /\ calls[c].at \in Places(calls[c].kind)
        /\ calls[c].kind \in {"run", "resume", "apply"} /\ calls[c].outcome = None
        /\ Lineage(c) /\ CodeInStep(c) /\ WriteInStep(c) /\ CommandInStep(c)
        /\ calls[c].plan \in Calls
    BY <1>1, LiveFacts
  <2>2. calls[c].kind = "resume"
    BY <1>1, <2>1 DEF Places, Early, Writes, Runs, Over
  <2>3. PICK plan \in Calls : plan = calls[c].plan
    BY <2>1
  <2>4. /\ Halted(plan) /\ calls[plan].request = calls[c].request
        /\ patches[c] = None /\ "command" \notin calls[c].refs /\ commands[c] = None
        /\ "PATCH" \in Selected(c) /\ approvals[plan].status = "APPROVED"
        /\ calls[c].diff \in Diffs(Paths)
        /\ Follows(calls[c].diff, generations[plan].proposal)
    BY <1>1, <2>1, <2>2, <2>3 DEF Lineage, CodeInStep, WriteInStep, CommandInStep
  <2>5. PICK a \in ApprovalRecords : a = approvals[plan]
    BY <1>1, <2>4 DEF Halted
  <2>6. a.status = "APPROVED" /\ a.by = "person"
    <3>1. RequiresApproval(calls[plan].request)
      BY <2>4, SelectedTogether DEF Selected
    <3>2. ApprovalInStep(plan) /\ approvals[plan] # None
      BY <2>4 DEF ExecutionInv, Halted
    <3> QED BY <2>4, <2>5, <3>1, <3>2 DEF ApprovalInStep
  <2>7. approvals[plan] = [status |-> "APPROVED", by |-> "person"]
    BY <2>5, <2>6 DEF ApprovalRecords
  <2>8. PICK pr : pr = GeneratePatch(c)
    OBVIOUS
  <2>9. /\ pr \in PatchRecords /\ pr.approval = "APPROVED" /\ pr.ops = calls[c].diff
    BY <1>3, <2>4, <2>8 DEF GeneratePatch, PatchRecords, Decisions
  <2>10. pr # None
    BY <2>9, ExecutionAssumption
  <2>11. /\ patches' \in [Calls -> PatchRecords \cup {None}] /\ patches'[c] = pr
         /\ \A d \in Calls \ {c} : patches'[d] = patches[d]
    BY <1>1, <1>3, <2>8, <2>9
  <2>12. PICK old : old = [calls[c] EXCEPT !.refs = @ \cup {"patch"}]
    OBVIOUS
  <2>13. /\ old \in CallRecords /\ old.kind = "resume" /\ old.plan = plan
         /\ old.request = calls[c].request /\ "command" \notin old.refs /\ old.outcome = None
    BY <2>1, <2>2, <2>3, <2>4, <2>12 DEF CallRecords
  <2>14. PICK rec : rec = Advanced(old, "PATCH")
    OBVIOUS
  <2>15. PICK next : next = NextStage("PATCH", SelectStages(old.request))
    OBVIOUS
  <2>16. Goes("PATCH", next, Selected(c))
    BY <2>13, <2>15, WhereItGoes, StageSet DEF Selected
  <2>17. next = "WORKSPACE_WRITE"
    BY <2>4, <2>16 DEF Goes
  <2>18. /\ rec \in CallRecords /\ SameWork(rec, old)
         /\ rec.at = "WORKSPACE_WRITE" /\ rec.outcome = None
    BY <2>13, <2>14, <2>15, <2>17, AdvancedFits, StageSet
  <2>19. rec.kind = "resume" /\ rec.plan = plan /\ rec.request = calls[c].request /\ rec # None
    BY <2>13, <2>18, ExecutionAssumption DEF SameWork
  <2>20. Becomes(c, rec)
    BY <1>3, <2>12, <2>14
  <2>21. calls'[c] = rec
    BY <2>18, <2>20, BecomesTyped
  <2>22. StepOf(c, rec)
    BY <1>1, <2>4, <2>11, <2>20 DEF StepOf, Becomes
  <2>23. TypeOK'
    BY <1>1, <2>11, <2>18, <2>20, BecomesTyped DEF ExecutionInv, TypeOK
  <2>24. ReceiptsInStep'
    BY <1>1 DEF ExecutionInv, ReceiptsInStep, ReceiptOf
  <2>25. Halted(plan)' /\ calls'[plan] = calls[plan]
    BY <2>4, <2>18, <2>22, HaltedKeeps
  <2>26. Lineage(c)'
    BY <2>4, <2>18, <2>19, <2>21, <2>25 DEF Lineage, Places, Writes
  <2>27. CodeInStep(c)'
    BY <1>1, <2>4, <2>18, <2>19, <2>21 DEF CodeInStep
  <2>28. WriteInStep(c)'
    BY <2>10, <2>11, <2>18, <2>19, <2>21 DEF WriteInStep, PatchOf, Early, Writes, Runs
  <2>29. CommandInStep(c)'
    BY <1>1, <2>4, <2>13, <2>18, <2>21 DEF CommandInStep, SameWork
  <2>30. CallInStep(c)'
    BY <2>18, <2>19, <2>21, <2>26, <2>27, <2>28, <2>29 DEF CallInStep, Fresh
  <2>31. ApprovalInStep(c)'
    <3>1. approvals[c] = None
      BY <2>2 DEF ExecutionInv, ApprovalInStep
    <3> QED BY <1>1, <3>1 DEF ApprovalInStep
  <2>32. PatchInStep(c)'
    <3>1. Selected(c)' = Selected(c)
      BY <2>19, <2>21 DEF Selected
    <3> QED BY <1>1, <2>4, <2>7, <2>9, <2>11, <2>19, <2>21, <3>1 DEF PatchInStep
  <2> QED BY <2>18, <2>22, <2>23, <2>24, <2>30, <2>31, <2>32, StepKeeps
<1> QED BY <1>2, <1>3 DEF Patch

(* A step that stores what became of a patch that was not applied.         *)
LEMMA ChangeStep ==
    ASSUME ExecutionInv, NEW c \in Calls, Live(c), loop \in {None, c},
           NEW rec \in CallRecords, Becomes(c, rec),
           NEW p \in Calls, ~ AppliedChange(p), NEW ch \in ChangeRecords,
           changes' = [changes EXCEPT ![p] = ch],
           UNCHANGED <<generations, approvals, patches, commands, receipts, files, edits>>
    PROVE  /\ StepOf(c, rec) /\ TypeOK' /\ ReceiptsInStep'
           /\ calls'[c] = rec /\ changes'[p] = ch /\ ch # None
<1>1. changes \in [Calls -> ChangeRecords \cup {None}]
  BY DEF ExecutionInv, TypeOK
<1>2. /\ changes' \in [Calls -> ChangeRecords \cup {None}] /\ changes'[p] = ch
      /\ \A q \in Calls \ {p} : changes'[q] = changes[q]
  BY <1>1
<1>3. StepOf(c, rec)
  BY <1>2 DEF StepOf, Becomes
<1>4. TypeOK'
  BY <1>2, BecomesTyped DEF ExecutionInv, TypeOK
<1>5. ReceiptsInStep'
  BY DEF ExecutionInv, ReceiptsInStep, ReceiptOf
<1>6. ch # None
  BY ExecutionAssumption
<1> QED BY <1>2, <1>3, <1>4, <1>5, <1>6, BecomesTyped

(* A call whose patch is applied goes to its command or has completed.     *)
LEMMA OnFromWrite ==
    ASSUME ExecutionInv, NEW c \in Calls, Live(c), calls[c].at \in Writes,
           NEW old \in CallRecords, NEW rec, rec = Advanced(old, "WORKSPACE_WRITE"),
           old.kind = calls[c].kind, old.plan = calls[c].plan,
           old.request = calls[c].request,
           old.outcome = None, "command" \notin old.refs, calls'[c] = rec,
           approvals' = approvals, commands' = commands, AppliedChange(PatchOf(c))'
    PROVE  /\ rec \in CallRecords /\ SameWork(rec, old) /\ rec.at \in Places(rec.kind)
           /\ rec.outcome \in {None, "COMPLETED"}
           /\ rec.outcome = None => CodeInStep(c)' /\ WriteInStep(c)' /\ CommandInStep(c)'
           /\ rec.outcome # None => EndedTrue(c)'
<1>1. PICK next : next = NextStage("WORKSPACE_WRITE", SelectStages(old.request))
  OBVIOUS
<1>2. None \notin Statuses /\ None \notin Terminal
  BY ExecutionAssumption
<1>3. Goes("WORKSPACE_WRITE", next, Selected(c))
  BY <1>1, StageSet, WhereItGoes DEF Selected
<1>4. next \in {"COMMAND_EXECUTION", "end"}
  BY <1>3 DEF Goes
<1>5. /\ rec \in CallRecords /\ SameWork(rec, old)
      /\ \/ /\ rec.kind = "apply" \/ next = "end"
            /\ rec.at = "end" /\ rec.outcome = "COMPLETED"
         \/ /\ rec.kind # "apply" /\ next = "COMMAND_EXECUTION"
            /\ rec.at = "COMMAND_EXECUTION" /\ rec.outcome = None
  BY <1>1, <1>4, AdvancedFits, StageSet DEF SameWork
<1>6. Selected(c)' = Selected(c)
  BY <1>5 DEF Selected, SameWork
<1>7. /\ calls[c].kind \in {"run", "resume", "apply"} /\ calls[c].at \in Places(calls[c].kind)
      /\ CodeInStep(c) /\ CommandInStep(c)
  BY LiveFacts
<1>8. rec.kind \in {"resume", "apply"} /\ rec.plan = calls[c].plan /\ rec.kind = calls[c].kind
  BY <1>5, <1>7 DEF Places, Early, Writes, Runs, Over, SameWork
<1>9. rec.at \in Places(rec.kind)
  BY <1>5, <1>8 DEF Places, Runs, Over
<1>10. commands'[c] = None /\ "command" \notin rec.refs
  BY <1>5, <1>7 DEF CommandInStep, SameWork, Writes
<1>11. ASSUME rec.outcome = None
       PROVE  CodeInStep(c)' /\ WriteInStep(c)' /\ CommandInStep(c)'
  <2>1. rec.at = "COMMAND_EXECUTION" /\ rec.kind = "resume"
    BY <1>2, <1>5, <1>8, <1>11 DEF Statuses
  <2>2. CodeInStep(c)'
    BY <1>7, <1>8, <2>1 DEF CodeInStep, Writes
  <2>3. PatchOf(c) = c
    BY <1>8, <2>1 DEF PatchOf
  <2>4. WriteInStep(c)'
    <3>1. AppliedChange(c)'
      BY <1>8, <2>1 DEF AppliedChange, PatchOf
    <3> QED BY <2>1, <3>1 DEF WriteInStep, Early, Writes
  <2>5. CommandInStep(c)'
    BY <1>10, <2>1 DEF CommandInStep
  <2> QED BY <2>2, <2>4, <2>5
<1>12. ASSUME rec.outcome # None
       PROVE  EndedTrue(c)'
  <2>1. rec.at = "end" /\ (rec.kind = "apply" \/ next = "end") /\ rec.outcome = "COMPLETED"
    BY <1>5, <1>12
  <2>2. rec.kind # "apply" => "COMMAND_EXECUTION" \notin Selected(c)
    BY <1>3, <2>1 DEF Goes
  <2> QED BY <1>2, <1>6, <1>10, <2>1, <2>2 DEF EndedTrue
<1>13. rec.outcome \in {None, "COMPLETED"}
  BY <1>5
<1> QED BY <1>5, <1>9, <1>11, <1>12, <1>13


(* A call in its write works on a patch of a call.                         *)
LEMMA WriteFacts ==
    ASSUME ExecutionInv, NEW c \in Calls, Live(c), calls[c].at \in Writes
    PROVE  /\ PatchOf(c) \in Calls /\ patches[PatchOf(c)] \in PatchRecords
           /\ DOMAIN patches[PatchOf(c)].ops \subseteq Paths
           /\ patches[PatchOf(c)].ops \in [DOMAIN patches[PatchOf(c)].ops -> Operations]
<1>1. PatchOf(c) \in Calls /\ patches[PatchOf(c)] # None
  BY LiveFacts DEF PatchOf, WriteInStep
<1>2. patches[PatchOf(c)] \in PatchRecords
  BY <1>1 DEF ExecutionInv, TypeOK
<1>3. patches[PatchOf(c)].ops \in Diffs(Paths)
  BY <1>2 DEF PatchRecords
<1> QED BY <1>1, <1>2, <1>3, SomePaths DEF Diffs

LEMMA StartWriteKeeps ==
    ASSUME ExecutionInv, NEW c \in Calls, StartWrite(c)
    PROVE  ExecutionInv'
<1>1. /\ HasLoop(c) /\ Live(c) /\ loop \in {None, c} /\ calls[c].at = "WORKSPACE_WRITE"
      /\ UNCHANGED <<generations, approvals, patches, commands, receipts, files, edits>>
      /\ files' \in [Paths -> Files] /\ calls[c].at \in Writes
  BY DEF StartWrite, Enters, At, HasLoop, ExecutionInv, TypeOK, Writes
<1>2. CASE Fail(c) /\ UNCHANGED changes
  BY <1>1, <1>2, FailKeeps DEF stored
<1>3. /\ calls[c] \in CallRecords /\ calls[c].at \in Places(calls[c].kind)
      /\ calls[c].kind \in {"run", "resume", "apply"} /\ calls[c].outcome = None
      /\ CodeInStep(c) /\ WriteInStep(c) /\ CommandInStep(c)
  BY <1>1, LiveFacts
<1>4. PICK p \in Calls : p = PatchOf(c)
  BY <1>1, WriteFacts
<1>5. CASE /\ AlreadyApplied(p)
           /\ Becomes(c, Advanced([calls[c] EXCEPT !.refs = @ \cup {"change"}],
                                  "WORKSPACE_WRITE"))
           /\ UNCHANGED changes
  <2>1. PICK old : old = [calls[c] EXCEPT !.refs = @ \cup {"change"}]
    OBVIOUS
  <2>2. /\ old \in CallRecords /\ old.kind = calls[c].kind /\ old.plan = calls[c].plan
        /\ old.request = calls[c].request /\ "command" \notin old.refs /\ old.outcome = None
    BY <1>3, <2>1 DEF CallRecords, CommandInStep
  <2>3. PICK rec : rec = Advanced(old, "WORKSPACE_WRITE")
    OBVIOUS
  <2>4. Becomes(c, rec) /\ calls'[c] = rec
    BY <1>5, <2>1, <2>3 DEF Becomes, ExecutionInv, TypeOK
  <2>5. rec.kind = calls[c].kind /\ rec.plan = calls[c].plan
    BY <2>2, <2>3, AdvancedFits, StageSet DEF SameWork
  <2>6. AppliedChange(PatchOf(c))'
    BY <1>4, <1>5, <2>4, <2>5 DEF AppliedChange, AlreadyApplied, PatchOf
  <2>7. /\ rec \in CallRecords /\ SameWork(rec, old) /\ rec.at \in Places(rec.kind)
        /\ rec.outcome \in {None, "COMPLETED"}
        /\ rec.outcome = None => CodeInStep(c)' /\ WriteInStep(c)' /\ CommandInStep(c)'
        /\ rec.outcome # None => EndedTrue(c)'
    BY <1>1, <2>2, <2>3, <2>4, <2>6, OnFromWrite
  <2>8. UNCHANGED stored
    BY <1>1, <1>5 DEF stored
  <2>9. rec.outcome \notin {"AWAITING_APPROVAL", "DENIED"}
    BY <2>7, ExecutionAssumption DEF Statuses
  <2> QED BY <1>1, <2>2, <2>4, <2>5, <2>7, <2>8, <2>9, QuietKeeps DEF SameWork
<1>6. CASE /\ ~ AlreadyApplied(p)
           /\ changes' = [changes EXCEPT ![p] = [status |-> "APPLYING", results |-> << >>]]
           /\ Becomes(c, [calls[c] EXCEPT !.at = "WRITING", !.results = << >>,
                                          !.todo = DOMAIN patches[p].ops])
  <2>1. << >> \in ResultMaps(Paths)
    <3>1. DOMAIN << >> = {} /\ << >> \in [DOMAIN << >> -> {"applied", "failed", "skipped"}]
      OBVIOUS
    <3> QED BY <3>1, PartialFunction DEF ResultMaps
  <2>2. PICK empty \in ResultMaps(Paths) : empty = << >>
    BY <2>1
  <2>3. PICK ch : ch = [status |-> "APPLYING", results |-> empty]
    OBVIOUS
  <2>4. ch \in ChangeRecords /\ ch.status = "APPLYING"
    BY <2>3 DEF ChangeRecords
  <2>5. PICK todo \in SUBSET Paths : todo = DOMAIN patches[p].ops
    BY <1>1, <1>4, WriteFacts
  <2>6. PICK rec : rec = [calls[c] EXCEPT !.at = "WRITING", !.results = empty, !.todo = todo]
    OBVIOUS
  <2>7. /\ rec \in CallRecords /\ SameWork(rec, calls[c]) /\ rec.at = "WRITING"
        /\ rec.outcome = None /\ rec.todo = todo
    BY <1>3, <2>6 DEF CallRecords, SameWork, Waits
  <2>8. Becomes(c, rec) /\ changes' = [changes EXCEPT ![p] = ch]
    BY <1>6, <2>2, <2>3, <2>5, <2>6
  <2>9. ~ AppliedChange(p)
    BY <1>6 DEF AlreadyApplied, AppliedChange
  <2>10. /\ StepOf(c, rec) /\ TypeOK' /\ ReceiptsInStep'
         /\ calls'[c] = rec /\ changes'[p] = ch /\ ch # None
    BY <1>1, <2>4, <2>7, <2>8, <2>9, ChangeStep
  <2>11. PatchOf(c)' = p
    BY <1>4, <2>7, <2>10 DEF PatchOf, SameWork
  <2>12. CodeInStep(c)'
    BY <1>1, <1>3, <2>7, <2>10 DEF CodeInStep, SameWork
  <2>13. WriteInStep(c)'
    BY <1>1, <1>3, <1>4, <2>4, <2>5, <2>7, <2>10, <2>11
    DEF WriteInStep, Early, Writes, Runs
  <2>14. CommandInStep(c)'
    BY <1>1, <1>3, <2>7, <2>10 DEF CommandInStep, SameWork
  <2>15. rec.at \in Places(rec.kind)
    BY <1>1, <1>3, <2>7 DEF Places, SameWork, Early, Writes, Runs, Over
  <2> QED BY <1>1, <2>7, <2>10, <2>12, <2>13, <2>14, <2>15, GoesOn, ExecutionAssumption
          DEF SameWork, Statuses
<1> QED BY <1>2, <1>4, <1>5, <1>6 DEF StartWrite

LEMMA ApplyOperationKeeps ==
    ASSUME ExecutionInv, NEW c \in Calls, NEW path \in Paths, ApplyOperation(c, path)
    PROVE  ExecutionInv'
<1>1. /\ Live(c) /\ loop \in {None, c} /\ calls[c].at = "WRITING" /\ calls[c].at \in Writes
      /\ UNCHANGED <<stored, edits>> /\ path \in calls[c].todo
      /\ files \in [Paths -> Files]
  BY DEF ApplyOperation, At, HasLoop, ExecutionInv, TypeOK, Writes
<1>2. PICK o \in Outcomes(files[path], patches[PatchOf(c)].ops[path]) :
          /\ files' = [files EXCEPT ![path] = o.file]
          /\ Becomes(c, [calls[c] EXCEPT !.todo = @ \ {path},
                        !.results = [p \in DOMAIN @ \cup {path} |->
                                        IF p = path THEN o.result ELSE @[p]]])
  BY DEF ApplyOperation
<1>3. /\ calls[c] \in CallRecords /\ calls[c].at \in Places(calls[c].kind)
      /\ calls[c].kind \in {"run", "resume", "apply"} /\ calls[c].outcome = None
      /\ CodeInStep(c) /\ WriteInStep(c) /\ CommandInStep(c)
  BY <1>1, LiveFacts
<1>4. PICK p \in Calls : p = PatchOf(c)
  BY <1>1, WriteFacts
<1>5. patches[p].ops[path] \in Operations
  BY <1>1, <1>3, <1>4, WriteFacts DEF WriteInStep
<1>6. o.file \in Files /\ o.result \in {"applied", "failed", "skipped"}
  BY <1>1, <1>2, <1>4, <1>5, OutcomesFit
<1>7. files' \in [Paths -> Files]
  BY <1>1, <1>2, <1>6
<1>8. PICK old \in ResultMaps(Paths) : old = calls[c].results
  BY <1>3 DEF CallRecords
<1>9. PICK results : results = [q \in DOMAIN old \cup {path} |->
                                   IF q = path THEN o.result ELSE old[q]]
  OBVIOUS
<1>10. results \in ResultMaps(Paths)
  <2>1. /\ DOMAIN old \subseteq Paths
        /\ old \in [DOMAIN old -> {"applied", "failed", "skipped"}]
    BY SomePaths DEF ResultMaps
  <2>2. /\ DOMAIN results \subseteq Paths
        /\ results \in [DOMAIN results -> {"applied", "failed", "skipped"}]
    BY <1>6, <1>9, <2>1
  <2> QED BY <2>2, PartialFunction DEF ResultMaps
<1>11. PICK rec : rec = [calls[c] EXCEPT !.todo = @ \ {path}, !.results = results]
  OBVIOUS
<1>12. /\ rec \in CallRecords /\ SameWork(rec, calls[c]) /\ rec.at = "WRITING"
       /\ rec.outcome = None /\ rec.todo \subseteq calls[c].todo
  BY <1>1, <1>3, <1>10, <1>11 DEF CallRecords, SameWork
<1>13. Becomes(c, rec)
  BY <1>2, <1>8, <1>9, <1>11
<1>14. calls'[c] = rec
  BY <1>12, <1>13, BecomesTyped
<1>15. PatchOf(c)' = PatchOf(c)
  BY <1>12, <1>14 DEF PatchOf, SameWork
<1>16. CodeInStep(c)' /\ WriteInStep(c)' /\ CommandInStep(c)'
  BY <1>1, <1>3, <1>12, <1>14, <1>15
  DEF CodeInStep, WriteInStep, CommandInStep, SameWork, Early, Writes, Runs, stored
<1> QED BY <1>1, <1>3, <1>7, <1>12, <1>13, <1>16, QuietKeeps, ExecutionAssumption
        DEF SameWork, Statuses

LEMMA FinishWriteKeeps ==
    ASSUME ExecutionInv, NEW c \in Calls, FinishWrite(c)
    PROVE  ExecutionInv'
<1>1. /\ Live(c) /\ loop \in {None, c} /\ calls[c].at = "WRITING" /\ calls[c].at \in Writes
      /\ UNCHANGED <<generations, approvals, patches, commands, receipts, files, edits>>
  BY DEF FinishWrite, At, HasLoop, Writes
<1>2. /\ calls[c] \in CallRecords /\ calls[c].at \in Places(calls[c].kind)
      /\ calls[c].kind \in {"run", "resume", "apply"} /\ calls[c].outcome = None
      /\ CodeInStep(c) /\ WriteInStep(c) /\ CommandInStep(c)
  BY <1>1, LiveFacts
<1>3. PICK p \in Calls : p = PatchOf(c)
  BY <1>1, WriteFacts
<1>4. ~ AppliedChange(p)
  BY <1>1, <1>2, <1>3 DEF WriteInStep, AppliedChange
<1>5. PICK status : status = DeriveStatus(calls[c].results)
  OBVIOUS
<1>6. PICK old : old = [calls[c] EXCEPT !.refs = @ \cup {"change"}]
  OBVIOUS
<1>7. /\ old \in CallRecords /\ old.kind = calls[c].kind /\ old.plan = calls[c].plan
      /\ old.request = calls[c].request /\ "command" \notin old.refs /\ old.outcome = None
      /\ old.at = calls[c].at
  BY <1>2, <1>6 DEF CallRecords, CommandInStep
<1>8. PICK ch : ch = [status |-> status, results |-> calls[c].results]
  OBVIOUS
<1>9. ch \in ChangeRecords /\ ch.status = status
  <2>1. status \in {"APPLIED", "FAILED", "PARTIALLY_APPLIED"}
    BY <1>5 DEF DeriveStatus
  <2>2. calls[c].results \in ResultMaps(Paths)
    BY <1>2 DEF CallRecords
  <2> QED BY <1>8, <2>1, <2>2 DEF ChangeRecords
<1>10. PICK rec : rec = IF status = "APPLIED" THEN Advanced(old, "WORKSPACE_WRITE")
                        ELSE Ended(old, "STOPPED_ON_FAILURE")
  OBVIOUS
<1>11. Becomes(c, rec) /\ changes' = [changes EXCEPT ![p] = ch] /\ calls'[c] = rec
  BY <1>3, <1>5, <1>6, <1>8, <1>10 DEF FinishWrite, Becomes, ExecutionInv, TypeOK
<1>12. rec \in CallRecords /\ SameWork(rec, old)
  BY <1>7, <1>10, AdvancedFits, EndedFits, StageSet DEF Statuses
<1>13. /\ StepOf(c, rec) /\ TypeOK' /\ ReceiptsInStep' /\ changes'[p] = ch /\ ch # None
  BY <1>1, <1>4, <1>9, <1>11, <1>12, ChangeStep
<1>14. PatchOf(c)' = p
  BY <1>3, <1>7, <1>11, <1>12 DEF PatchOf, SameWork
<1>15. CASE status = "APPLIED"
  <2>1. rec = Advanced(old, "WORKSPACE_WRITE")
    BY <1>10, <1>15
  <2>2. AppliedChange(PatchOf(c))'
    BY <1>9, <1>13, <1>14, <1>15 DEF AppliedChange
  <2>3. /\ rec.at \in Places(rec.kind)
        /\ rec.outcome \in {None, "COMPLETED"}
        /\ rec.outcome = None => CodeInStep(c)' /\ WriteInStep(c)' /\ CommandInStep(c)'
        /\ rec.outcome # None => EndedTrue(c)'
    BY <1>1, <1>7, <1>11, <2>1, <2>2, OnFromWrite
  <2>4. rec.outcome \notin {"AWAITING_APPROVAL", "DENIED"}
    BY <2>3, ExecutionAssumption DEF Statuses
  <2> QED BY <1>1, <1>7, <1>12, <1>13, <2>3, <2>4, GoesOn DEF SameWork
<1>16. CASE status # "APPLIED"
  <2>1. rec = Ended(old, "STOPPED_ON_FAILURE")
    BY <1>10, <1>16
  <2>2. rec.outcome = "STOPPED_ON_FAILURE" /\ rec.at = old.at
    BY <1>7, <2>1, EndedFits DEF Statuses
  <2>3. rec.outcome # None /\ None \notin Terminal
    BY <2>2, ExecutionAssumption DEF Statuses
  <2>4. commands'[c] = None
    BY <1>1, <1>2 DEF CommandInStep
  <2>5. EndedTrue(c)'
    BY <1>7, <1>11, <1>12, <2>2, <2>3, <2>4 DEF EndedTrue, SameWork
  <2> QED BY <1>1, <1>2, <1>7, <1>12, <1>13, <2>2, <2>3, <2>5, GoesOn DEF SameWork
<1> QED BY <1>15, <1>16


(* A step that stores where the call's command stands, before its end was  *)
(* stored.                                                                 *)
LEMMA CommandStep ==
    ASSUME ExecutionInv, NEW c \in Calls, Live(c), loop \in {None, c},
           NEW rec \in CallRecords, Becomes(c, rec), commands[c] \notin Terminal,
           NEW status \in Terminal \cup {"RUNNING"},
           commands' = [commands EXCEPT ![c] = status],
           UNCHANGED <<generations, approvals, patches, changes, receipts, files, edits>>
    PROVE  /\ StepOf(c, rec) /\ TypeOK' /\ ReceiptsInStep'
           /\ calls'[c] = rec /\ commands'[c] = status
<1>1. commands \in [Calls -> Terminal \cup {"RUNNING", None}]
  BY DEF ExecutionInv, TypeOK
<1>2. /\ commands' \in [Calls -> Terminal \cup {"RUNNING", None}] /\ commands'[c] = status
      /\ \A d \in Calls \ {c} : commands'[d] = commands[d]
  BY <1>1
<1>3. StepOf(c, rec)
  BY <1>2 DEF StepOf, Becomes
<1>4. TypeOK'
  BY <1>2, BecomesTyped DEF ExecutionInv, TypeOK
<1>5. ReceiptsInStep'
  <2> SUFFICES ASSUME NEW x \in receipts
               PROVE  x = ReceiptOf(x.source)' /\ commands'[x.source] \in Terminal
    BY DEF ReceiptsInStep
  <2>1. x = ReceiptOf(x.source) /\ commands[x.source] \in Terminal /\ x.source \in Calls
    BY DEF ExecutionInv, ReceiptsInStep, TypeOK
  <2>2. commands'[x.source] = commands[x.source]
    BY <1>2, <2>1
  <2> QED BY <2>1, <2>2 DEF ReceiptOf
<1> QED BY <1>2, <1>3, <1>4, <1>5, BecomesTyped

LEMMA StartCommandKeeps ==
    ASSUME ExecutionInv, NEW c \in Calls, StartCommand(c)
    PROVE  ExecutionInv'
<1>1. /\ HasLoop(c) /\ Live(c) /\ loop \in {None, c} /\ calls[c].at = "COMMAND_EXECUTION"
      /\ UNCHANGED <<generations, approvals, patches, changes, receipts, files, edits>>
  BY DEF StartCommand, Enters, At, HasLoop
<1>2. CASE Fail(c) /\ UNCHANGED commands
  BY <1>1, <1>2, FailKeeps DEF stored
<1>3. CASE /\ commands' = [commands EXCEPT ![c] = "RUNNING"]
           /\ Becomes(c, [calls[c] EXCEPT !.at = "RUNNING"])
  <2>1. /\ calls[c] \in CallRecords /\ calls[c].at \in Places(calls[c].kind)
        /\ calls[c].kind \in {"run", "resume", "apply"} /\ calls[c].outcome = None
        /\ CodeInStep(c) /\ WriteInStep(c) /\ CommandInStep(c)
    BY <1>1, LiveFacts
  <2>2. commands[c] \notin Terminal
    BY <1>1, <2>1, ExecutionAssumption DEF CommandInStep
  <2>3. PICK rec : rec = [calls[c] EXCEPT !.at = "RUNNING"]
    OBVIOUS
  <2>4. /\ rec \in CallRecords /\ SameWork(rec, calls[c]) /\ rec.at = "RUNNING"
        /\ rec.outcome = None
    BY <2>1, <2>3 DEF CallRecords, SameWork, Waits
  <2>5. PICK status \in Terminal \cup {"RUNNING"} : status = "RUNNING"
    OBVIOUS
  <2>6. Becomes(c, rec) /\ commands' = [commands EXCEPT ![c] = status]
    BY <1>3, <2>3, <2>5
  <2>7. /\ StepOf(c, rec) /\ TypeOK' /\ ReceiptsInStep'
        /\ calls'[c] = rec /\ commands'[c] = status
    BY <1>1, <2>2, <2>4, <2>6, CommandStep
  <2>8. CodeInStep(c)'
    BY <1>1, <2>1, <2>4, <2>7 DEF CodeInStep, SameWork
  <2>9. WriteInStep(c)'
    BY <1>1, <2>1, <2>4, <2>7
    DEF WriteInStep, SameWork, Early, Writes, Runs, AppliedChange, Selected
  <2>10. CommandInStep(c)'
    BY <2>1, <2>4, <2>5, <2>7 DEF CommandInStep, SameWork
  <2>11. rec.at \in Places(rec.kind)
    BY <1>1, <2>1, <2>4 DEF Places, SameWork, Early, Writes, Runs, Over
  <2> QED BY <1>1, <2>4, <2>7, <2>8, <2>9, <2>10, <2>11, GoesOn, ExecutionAssumption
          DEF SameWork, Statuses
<1> QED BY <1>2, <1>3 DEF StartCommand

LEMMA CommandEndsKeeps ==
    ASSUME ExecutionInv, NEW c \in Calls, CommandEnds(c)
    PROVE  ExecutionInv'
<1>1. /\ Live(c) /\ loop \in {None, c} /\ calls[c].at = "RUNNING"
      /\ UNCHANGED <<generations, approvals, patches, changes, receipts, files, edits>>
      /\ Becomes(c, [calls[c] EXCEPT !.at = "RECEIPT"])
  BY DEF CommandEnds, At, HasLoop
<1>2. PICK status \in Terminal : commands' = [commands EXCEPT ![c] = status]
  BY DEF CommandEnds, Terminal
<1>3. /\ calls[c] \in CallRecords /\ calls[c].at \in Places(calls[c].kind)
      /\ calls[c].kind \in {"run", "resume", "apply"} /\ calls[c].outcome = None
      /\ CodeInStep(c) /\ WriteInStep(c) /\ CommandInStep(c)
  BY <1>1, LiveFacts
<1>4. commands[c] \notin Terminal
  BY <1>1, <1>3 DEF CommandInStep, Terminal
<1>5. PICK rec : rec = [calls[c] EXCEPT !.at = "RECEIPT"]
  OBVIOUS
<1>6. /\ rec \in CallRecords /\ SameWork(rec, calls[c]) /\ rec.at = "RECEIPT"
      /\ rec.outcome = None
  BY <1>3, <1>5 DEF CallRecords, SameWork, Waits
<1>7. Becomes(c, rec)
  BY <1>1, <1>5
<1>8. /\ StepOf(c, rec) /\ TypeOK' /\ ReceiptsInStep'
      /\ calls'[c] = rec /\ commands'[c] = status
  BY <1>1, <1>2, <1>4, <1>6, <1>7, CommandStep
<1>9. CodeInStep(c)'
  BY <1>1, <1>3, <1>6, <1>8 DEF CodeInStep, SameWork
<1>10. WriteInStep(c)'
  BY <1>1, <1>3, <1>6, <1>8
  DEF WriteInStep, SameWork, Early, Writes, Runs, AppliedChange, Selected
<1>11. CommandInStep(c)'
  BY <1>3, <1>6, <1>8 DEF CommandInStep, SameWork
<1>12. rec.at \in Places(rec.kind)
  BY <1>1, <1>3, <1>6 DEF Places, SameWork, Early, Writes, Runs, Over
<1> QED BY <1>1, <1>6, <1>8, <1>9, <1>10, <1>11, <1>12, GoesOn, ExecutionAssumption
        DEF SameWork, Statuses

(* A call whose command ended stops, or has completed with its receipt.    *)
LEMMA RecordReceiptKeeps ==
    ASSUME ExecutionInv, NEW c \in Calls, RecordReceipt(c)
    PROVE  ExecutionInv'
<1>1. /\ Live(c) /\ loop \in {None, c} /\ calls[c].at = "RECEIPT"
      /\ UNCHANGED <<generations, approvals, patches, changes, commands, files, edits>>
  BY DEF RecordReceipt, At, HasLoop
<1>2. /\ calls[c] \in CallRecords /\ calls[c].at \in Places(calls[c].kind)
      /\ calls[c].kind \in {"run", "resume", "apply"} /\ calls[c].outcome = None
      /\ WriteInStep(c) /\ CommandInStep(c)
  BY <1>1, LiveFacts
<1>3. calls[c].kind \in {"run", "resume"} /\ commands[c] \in Terminal
  BY <1>1, <1>2 DEF Places, Writes, Over, CommandInStep
<1>4. PICK old : old = [calls[c] EXCEPT !.refs = @ \cup {"command"}]
  OBVIOUS
<1>5. /\ old \in CallRecords /\ old.kind = calls[c].kind /\ old.plan = calls[c].plan
      /\ old.request = calls[c].request /\ "command" \in old.refs /\ old.outcome = None
      /\ old.at = "RECEIPT"
  BY <1>1, <1>2, <1>4 DEF CallRecords
<1>6. ASSUME NEW rec, Becomes(c, rec),
             \/ rec = Ended(old, "STOPPED_ON_FAILURE") /\ receipts' \in {receipts, receipts \cup {ReceiptOf(c)}}
             \/ /\ rec = Advanced(old, "COMMAND_EXECUTION") /\ commands[c] = "SUCCEEDED"
                /\ receipts' = receipts \cup {ReceiptOf(c)}
      PROVE  ExecutionInv'
  <2>1. Goes("COMMAND_EXECUTION", NextStage("COMMAND_EXECUTION", Selected(c)), Selected(c))
    BY WhereItGoes, StageSet DEF Selected
  <2>2. NextStage("COMMAND_EXECUTION", SelectStages(old.request)) = "end"
    BY <1>5, <2>1 DEF Goes, Selected
  <2>3. /\ rec \in CallRecords /\ SameWork(rec, old)
        /\ rec.at \in {"RECEIPT", "end"}
        /\ rec.outcome \in {"STOPPED_ON_FAILURE", "COMPLETED"}
        /\ rec.outcome = "COMPLETED" => /\ commands[c] = "SUCCEEDED"
                                        /\ receipts' = receipts \cup {ReceiptOf(c)}
    <3>1. CASE rec = Ended(old, "STOPPED_ON_FAILURE")
      BY <1>5, <3>1, EndedFits DEF Statuses
    <3>2. CASE /\ rec = Advanced(old, "COMMAND_EXECUTION") /\ commands[c] = "SUCCEEDED"
               /\ receipts' = receipts \cup {ReceiptOf(c)}
      BY <1>5, <2>2, <3>2, AdvancedFits, StageSet
    <3> QED BY <1>6, <3>1, <3>2
  <2>4. ReceiptOf(c) \in [source : Calls, succeeded : BOOLEAN] /\ ReceiptOf(c).source = c
    BY DEF ReceiptOf
  <2>5. receipts \subseteq receipts' /\ receipts' \subseteq receipts \cup {ReceiptOf(c)}
    BY <1>6
  <2>6. TypeOK'
    BY <1>1, <1>6, <2>3, <2>4, <2>5, BecomesTyped DEF ExecutionInv, TypeOK
  <2>7. ReceiptsInStep'
    <3> SUFFICES ASSUME NEW x \in receipts'
                 PROVE  x = ReceiptOf(x.source)' /\ commands'[x.source] \in Terminal
      BY DEF ReceiptsInStep
    <3>1. x = ReceiptOf(x.source) /\ commands[x.source] \in Terminal
      BY <1>3, <2>4, <2>5 DEF ExecutionInv, ReceiptsInStep
    <3> QED BY <1>1, <3>1 DEF ReceiptOf
  <2>8. StepOf(c, rec)
    BY <1>1, <1>6, <2>5 DEF StepOf, Becomes
  <2>9. calls'[c] = rec
    BY <1>6, <2>3, BecomesTyped
  <2>10. EndedTrue(c)'
    <3>1. Selected(c)' = Selected(c)
      BY <1>5, <2>3, <2>9 DEF SameWork, Selected
    <3>2. rec.kind = calls[c].kind /\ "command" \in rec.refs
      BY <1>5, <2>3 DEF SameWork
    <3>3. PatchOf(c)' = c
      BY <1>3, <2>9, <3>2 DEF PatchOf
    <3>4. "WORKSPACE_WRITE" \in Selected(c) => AppliedChange(c)'
      BY <1>1, <1>2 DEF WriteInStep, Runs, AppliedChange
    <3>5. AppliedChange(c)' => AppliedChange(PatchOf(c))'
      BY <3>3 DEF AppliedChange
    <3>6. rec.outcome = "COMPLETED" => [source |-> c, succeeded |-> TRUE] \in receipts'
      BY <2>3 DEF ReceiptOf
    <3> QED BY <1>1, <1>3, <2>3, <2>9, <3>1, <3>2, <3>4, <3>5, <3>6 DEF EndedTrue
  <2>11. rec.at \in Places(rec.kind) /\ rec.outcome # None
    BY <1>3, <1>5, <2>3, ExecutionAssumption DEF Places, SameWork, Runs, Over, Statuses
  <2> QED BY <1>1, <1>5, <2>3, <2>6, <2>7, <2>8, <2>10, <2>11, GoesOn DEF SameWork
<1>7. \/ /\ receipts' = receipts \cup {ReceiptOf(c)}
         /\ \/ commands[c] = "SUCCEEDED" /\ Becomes(c, Advanced(old, "COMMAND_EXECUTION"))
            \/ Becomes(c, Ended(old, "STOPPED_ON_FAILURE"))
      \/ Becomes(c, Ended(old, "STOPPED_ON_FAILURE")) /\ receipts' = receipts
  BY <1>4 DEF RecordReceipt, Reported
<1>8. CASE /\ receipts' = receipts \cup {ReceiptOf(c)} /\ commands[c] = "SUCCEEDED"
           /\ Becomes(c, Advanced(old, "COMMAND_EXECUTION"))
  BY <1>6, <1>8
<1>9. CASE /\ receipts' \in {receipts, receipts \cup {ReceiptOf(c)}}
           /\ Becomes(c, Ended(old, "STOPPED_ON_FAILURE"))
  BY <1>6, <1>9
<1> QED BY <1>7, <1>8, <1>9


-----------------------------------------------------------------------------
(* People, and a crash.                                                    *)

(* A step that changes files only leaves every call in step with what is   *)
(* stored.                                                                 *)
LEMMA FilesOnly ==
    ASSUME ExecutionInv, UNCHANGED <<calls, loop, stored>>,
           files' \in [Paths -> Files], edits' \in Nat
    PROVE  ExecutionInv'
<1>1. TypeOK' /\ LoopInStep' /\ ReceiptsInStep'
  BY DEF ExecutionInv, TypeOK, LoopInStep, Live, ReceiptsInStep, ReceiptOf, stored
<1>2. \A c \in Calls : /\ Fresh(c) <=> Fresh(c)'
                       /\ Lineage(c) <=> Lineage(c)'
                       /\ CodeInStep(c) <=> CodeInStep(c)'
                       /\ WriteInStep(c) <=> WriteInStep(c)'
                       /\ CommandInStep(c) <=> CommandInStep(c)'
                       /\ EndedTrue(c) <=> EndedTrue(c)'
  BY DEF Fresh, Lineage, Halted, CodeInStep, WriteInStep, CommandInStep, EndedTrue,
         Generated, Selected, AppliedChange, PatchOf, stored
<1>3. \A c \in Calls : CallInStep(c) => CallInStep(c)'
  BY <1>2 DEF CallInStep, Live
<1>4. \A c \in Calls : /\ ApprovalInStep(c) => ApprovalInStep(c)'
                       /\ PatchInStep(c) => PatchInStep(c)'
  BY DEF ApprovalInStep, PatchInStep, Selected, stored
<1> QED BY <1>1, <1>3, <1>4 DEF ExecutionInv

LEMMA EditRegionKeeps ==
    ASSUME ExecutionInv, NEW path \in Paths, NEW r \in Regions, EditRegion(path, r)
    PROVE  ExecutionInv'
<1>1. files \in [Paths -> Files] /\ edits \in Nat
  BY DEF ExecutionInv, TypeOK
<1>2. files[path] \in Texts
  BY <1>1 DEF EditRegion, Files
<1>3. [files[path] EXCEPT ![r] = <<"hand">>] \in Files
  <2>1. <<"hand">> \in Seq(STRING)
    BY ExecutionAssumption
  <2> QED BY <1>2, <2>1 DEF Texts, Files
<1>4. files' \in [Paths -> Files] /\ edits' \in Nat
  BY <1>1, <1>3 DEF EditRegion
<1> QED BY <1>4, FilesOnly DEF EditRegion

LEMMA ReplaceFileKeeps ==
    ASSUME ExecutionInv, NEW path \in Paths, ReplaceFile(path)
    PROVE  ExecutionInv'
<1>1. files \in [Paths -> Files] /\ edits \in Nat
  BY DEF ExecutionInv, TypeOK
<1>2. HandWritten \in Files /\ None \in Files
  <2>1. <<"hand">> \in Seq(STRING)
    BY ExecutionAssumption
  <2> QED BY <2>1 DEF Texts, Files, HandWritten
<1>3. files' \in [Paths -> Files] /\ edits' \in Nat
  BY <1>1, <1>2 DEF ReplaceFile
<1> QED BY <1>3, FilesOnly DEF ReplaceFile

(* A crash loses the live calls; what has ended or is stored stays.        *)
LEMMA CrashKeeps ==
    ASSUME ExecutionInv, Crash
    PROVE  ExecutionInv'
<1>1. /\ UNCHANGED <<stored, files, edits>> /\ loop' = None
      /\ calls \in [Calls -> CallRecords \cup {None}]
  BY DEF Crash, ExecutionInv, TypeOK
<1>2. \A c \in Calls : calls'[c] = IF Live(c) THEN [calls[c] EXCEPT !.at = "lost"] ELSE calls[c]
  BY DEF Crash
<1>3. ASSUME NEW c \in Calls, Live(c)
      PROVE  /\ calls'[c] \in CallRecords /\ calls'[c] # None
             /\ calls'[c].at = "lost" /\ calls'[c].outcome = None
             /\ calls'[c].kind = calls[c].kind /\ calls'[c].plan = calls[c].plan
             /\ calls'[c].request = calls[c].request
  <2>1. calls[c] \in CallRecords /\ calls[c].outcome = None
    BY <1>3, LiveFacts
  <2>2. calls'[c] = [calls[c] EXCEPT !.at = "lost"]
    BY <1>2, <1>3
  <2>3. calls'[c] \in CallRecords
    BY <2>1, <2>2 DEF CallRecords, Waits
  <2> QED BY <2>1, <2>2, <2>3, ExecutionAssumption DEF CallRecords
<1>4. \A c \in Calls : ~ Live(c) => calls'[c] = calls[c]
  BY <1>2
<1>5. calls' \in [Calls -> CallRecords \cup {None}]
  <2>1. \A c \in Calls : calls'[c] \in CallRecords \cup {None}
    BY <1>1, <1>3, <1>4
  <2> QED BY <2>1 DEF Crash
<1>6. TypeOK' /\ ReceiptsInStep'
  BY <1>1, <1>5 DEF ExecutionInv, TypeOK, ReceiptsInStep, ReceiptOf, stored
<1>7. \A c \in Calls : ~ Live(c)'
  BY <1>3, <1>4 DEF Live
<1>8. LoopInStep'
  BY <1>7 DEF LoopInStep
<1>9. \A c \in Calls : Halted(c) => Halted(c)' /\ calls'[c] = calls[c]
  <2> TAKE c \in Calls
  <2> HAVE Halted(c)
  <2>1. calls'[c] = calls[c]
    BY <1>4, ExecutionAssumption DEF Halted, Live, Statuses
  <2> QED BY <1>1, <2>1 DEF Halted, Selected, Generated, stored
<1>10. ASSUME NEW c \in Calls
       PROVE  CallInStep(c)' /\ ApprovalInStep(c)' /\ PatchInStep(c)'
  <2>1. CallInStep(c) /\ ApprovalInStep(c) /\ PatchInStep(c)
    BY DEF ExecutionInv
  <2>2. calls'[c] = None <=> calls[c] = None
    BY <1>3, <1>4 DEF Live
  <2>3. calls[c] # None => /\ calls'[c].kind = calls[c].kind /\ calls'[c].plan = calls[c].plan
                           /\ calls'[c].request = calls[c].request
                           /\ calls'[c].at \in {calls[c].at, "lost"}
                           /\ calls'[c].outcome = calls[c].outcome
                           /\ calls[c].plan \in Calls
                           /\ calls[c].kind \in {"run", "resume", "apply"}
    <3>1. CASE Live(c)
      BY <1>3, <3>1, LiveFacts
    <3>2. CASE ~ Live(c)
      BY <1>1, <1>4, <3>2 DEF CallRecords
    <3> QED BY <3>1, <3>2
  <2>4. Fresh(c)'
    BY <1>1, <2>1, <2>2 DEF CallInStep, Fresh, stored
  <2>5. ASSUME calls[c] # None
        PROVE  Lineage(c)'
    <3>1. Lineage(c)
      BY <2>1, <2>5 DEF CallInStep
    <3>2. calls'[c].at \in Places(calls'[c].kind)
      BY <2>3, <2>5, <3>1 DEF Lineage, Places, Over
    <3>3. CASE calls[c].kind = "run"
      BY <1>9, <2>3, <2>5, <3>1, <3>2, <3>3 DEF Lineage
    <3>4. CASE calls[c].kind = "resume"
      <4>1. PICK plan \in Calls : plan = calls[c].plan
        BY <2>3, <2>5
      <4>2. Halted(plan) /\ calls[plan].request = calls[c].request
        BY <3>1, <3>4, <4>1 DEF Lineage
      <4>3. Halted(plan)' /\ calls'[plan] = calls[plan]
        BY <1>9, <4>2
      <4> QED BY <2>3, <2>5, <3>2, <3>4, <4>1, <4>2, <4>3 DEF Lineage
    <3>5. CASE calls[c].kind = "apply"
      BY <1>1, <2>3, <2>5, <3>1, <3>2, <3>5 DEF Lineage, stored
    <3> QED BY <2>3, <2>5, <3>3, <3>4, <3>5
  <2>6. ASSUME calls[c] # None, calls'[c].outcome # None
        PROVE  EndedTrue(c)'
    <3>1. calls'[c] = calls[c]
      BY <1>3, <1>4, <2>6
    <3>2. EndedTrue(c)
      BY <2>1, <2>6, <3>1 DEF CallInStep
    <3> QED BY <1>1, <3>1, <3>2 DEF EndedTrue, Selected, AppliedChange, PatchOf, stored
  <2>7. CallInStep(c)'
    BY <1>7, <2>2, <2>4, <2>5, <2>6 DEF CallInStep
  <2>8. ApprovalInStep(c)'
    BY <1>1, <2>1, <2>2, <2>3 DEF ApprovalInStep, stored
  <2>9. PatchInStep(c)'
    BY <1>1, <2>1, <2>2, <2>3 DEF PatchInStep, Selected, stored
  <2> QED BY <2>7, <2>8, <2>9
<1> QED BY <1>6, <1>8, <1>10 DEF ExecutionInv

-----------------------------------------------------------------------------
(* The invariant.                                                          *)

LEMMA InitInv == Init => ExecutionInv
<1> SUFFICES ASSUME Init
             PROVE  ExecutionInv
  OBVIOUS
<1>1. TypeOK
  BY ExecutionAssumption DEF Init, TypeOK
<1>2. LoopInStep /\ ReceiptsInStep
  BY DEF Init, LoopInStep, Live, ReceiptsInStep
<1>3. \A c \in Calls : CallInStep(c) /\ ApprovalInStep(c) /\ PatchInStep(c)
  BY DEF Init, CallInStep, Fresh, Live, ApprovalInStep, PatchInStep
<1> QED BY <1>1, <1>2, <1>3 DEF ExecutionInv

LEMMA NextInv == ExecutionInv /\ [Next]_vars => ExecutionInv'
<1> SUFFICES ASSUME ExecutionInv, [Next]_vars
             PROVE  ExecutionInv'
  OBVIOUS
<1>1. CASE UNCHANGED vars
  <2>1. UNCHANGED <<calls, loop, stored>> /\ files' \in [Paths -> Files] /\ edits' \in Nat
    BY <1>1 DEF vars, ExecutionInv, TypeOK
  <2> QED BY <2>1, FilesOnly
<1>2. ASSUME NEW c \in Calls, CallStep(c)
      PROVE  ExecutionInv'
  BY <1>2, StopCancelledKeeps, PlanKeeps, GenerateKeeps, ProviderAnswersKeeps,
     WorkspaceDiffKeeps, RequestApprovalKeeps, ReviewDecisionKeeps, PatchKeeps,
     StartWriteKeeps, ApplyOperationKeeps, FinishWriteKeeps, StartCommandKeeps,
     CommandEndsKeeps, RecordReceiptKeeps DEF CallStep
<1>3. CASE Environment
  BY <1>3, RunKeeps, ResumeKeeps, ApplyStoredPatchKeeps, DecideKeeps, CancelKeeps,
     EditRegionKeeps, ReplaceFileKeeps, CrashKeeps DEF Environment
<1> QED BY <1>1, <1>2, <1>3 DEF Next

(* In every reachable state each call holds what its stage needs, each     *)
(* resumed call goes on with a run that halted at its approval, and each   *)
(* patch is what that run generated, under a person's approval.            *)
THEOREM ExecutionInvariant == Spec => []ExecutionInv
BY InitInv, NextInv, PTL DEF Spec


-----------------------------------------------------------------------------
(* What the invariant says of the pipeline.                                *)

(* A call that ended tells what happened: it names a command exactly when  *)
(* that command ran to its end, it is COMPLETED only with everything       *)
(* selected done, and halted or denied it left nothing behind; a receipt   *)
(* repeats its command's end, once.                                        *)
THEOREM OutcomesAreTrue == Spec => []OutcomeIsTrue
<1>1. ExecutionInv => OutcomeIsTrue
  <2> SUFFICES ASSUME ExecutionInv
               PROVE  OutcomeIsTrue
    OBVIOUS
  <2>1. ASSUME NEW c \in Calls, calls[c] # None, calls[c].outcome # None
        PROVE  EndedTrue(c)
    BY <2>1 DEF ExecutionInv, CallInStep
  <2>2. \A x \in receipts : x = ReceiptOf(x.source) /\ commands[x.source] \in Terminal
    BY DEF ExecutionInv, ReceiptsInStep
  <2>3. \A x, y \in receipts : y.source = x.source => y = x
    BY <2>2
  <2> QED BY <2>1, <2>2, <2>3 DEF OutcomeIsTrue, EndedTrue, AppliedChange, Selected
<1> QED BY <1>1, ExecutionInvariant, PTL

(* Only the operation of a call that has the loop writes a file.           *)
LEMMA WhoWrites ==
    ASSUME ExecutionInv, [Next]_vars, NEW p \in Written
    PROVE  \E c \in Calls : /\ ApplyOperation(c, p) /\ loop = c /\ Live(c)
                            /\ calls[c].at = "WRITING"
<1>1. edits' = edits /\ files'[p] # files[p] /\ p \in Paths /\ edits \in Nat
  BY DEF Written, ExecutionInv, TypeOK
<1>2. CASE UNCHANGED vars
  BY <1>1, <1>2 DEF vars
<1>3. ~ Environment
  <2>1. ASSUME Environment
        PROVE  files' = files \/ edits' = edits + 1
    BY <2>1 DEF Environment, Run, Resume, ApplyStoredPatch, Decide, Cancel, EditRegion,
       ReplaceFile, Crash
  <2> QED BY <1>1, <2>1
<1>4. ASSUME NEW c \in Calls, CallStep(c)
      PROVE  ApplyOperation(c, p) /\ loop = c /\ Live(c) /\ calls[c].at = "WRITING"
  <2>1. files' = files \/ \E path \in Paths : ApplyOperation(c, path)
    BY <1>4 DEF CallStep, StopCancelled, Plan, Generate, ProviderAnswers, WorkspaceDiff,
       RequestApproval, ReviewDecision, Patch, StartWrite, FinishWrite, StartCommand,
       CommandEnds, RecordReceipt
  <2>2. PICK path \in Paths : ApplyOperation(c, path)
    BY <1>1, <2>1
  <2>3. path = p
    BY <1>1, <2>2 DEF ApplyOperation, ExecutionInv, TypeOK
  <2>4. Live(c) /\ calls[c].at = "WRITING"
    BY <2>2 DEF ApplyOperation, At, HasLoop
  <2>5. loop = c
    BY <2>4 DEF ExecutionInv, LoopInStep
  <2> QED BY <2>2, <2>3, <2>4, <2>5
<1> QED BY <1>2, <1>3, <1>4 DEF Next

(* A patch recorded as applied stays so and is never written again.        *)
THEOREM AppliedStaysApplied == Spec => AppliedForGood
<1>1. ASSUME ExecutionInv, [Next]_vars, NEW p \in Calls, AppliedChange(p)
      PROVE  changes'[p] = changes[p]
  <2>1. CASE UNCHANGED vars
    BY <2>1 DEF vars, stored
  <2>2. CASE Environment
    BY <2>2 DEF Environment, Run, Resume, ApplyStoredPatch, Decide, Cancel, EditRegion,
       ReplaceFile, Crash, stored
  <2>3. ASSUME NEW c \in Calls, StartWrite(c)
        PROVE  changes'[p] = changes[p]
    <3>1. \/ UNCHANGED changes
          \/ /\ ~ AlreadyApplied(PatchOf(c))
             /\ changes' = [changes EXCEPT ![PatchOf(c)] =
                                [status |-> "APPLYING", results |-> << >>]]
      BY <2>3 DEF StartWrite
    <3>2. CASE ~ AlreadyApplied(PatchOf(c))
      <4>1. p # PatchOf(c)
        BY <1>1, <3>2 DEF AlreadyApplied, AppliedChange
      <4>2. changes \in [Calls -> ChangeRecords \cup {None}]
        BY <1>1 DEF ExecutionInv, TypeOK
      <4> QED BY <3>1, <4>1, <4>2
    <3> QED BY <3>1, <3>2
  <2>4. ASSUME NEW c \in Calls, FinishWrite(c)
        PROVE  changes'[p] = changes[p]
    <3>1. Live(c) /\ calls[c].at = "WRITING"
      BY <2>4 DEF FinishWrite, At, HasLoop
    <3>2. ~ AppliedChange(PatchOf(c))
      BY <1>1, <3>1, LiveFacts DEF WriteInStep, AppliedChange
    <3>3. p # PatchOf(c)
      BY <1>1, <3>2
    <3> QED BY <2>4, <3>3 DEF FinishWrite
  <2>5. ASSUME NEW c \in Calls, CallStep(c), ~ StartWrite(c), ~ FinishWrite(c)
        PROVE  changes' = changes
    <3>1. ASSUME StopCancelled(c) \/ Plan(c) \/ WorkspaceDiff(c) \/ ReviewDecision(c)
          PROVE  changes' = changes
      BY <3>1 DEF StopCancelled, Plan, WorkspaceDiff, ReviewDecision, stored
    <3>2. ASSUME Generate(c) \/ ProviderAnswers(c) \/ RequestApproval(c) \/ Patch(c)
          PROVE  changes' = changes
      BY <3>2 DEF Generate, ProviderAnswers, RequestApproval, Patch
    <3>3. ASSUME NEW path \in Paths, ApplyOperation(c, path)
          PROVE  changes' = changes
      BY <3>3 DEF ApplyOperation, stored
    <3>4. ASSUME StartCommand(c) \/ CommandEnds(c) \/ RecordReceipt(c)
          PROVE  changes' = changes
      BY <3>4 DEF StartCommand, CommandEnds, RecordReceipt
    <3> QED BY <2>5, <3>1, <3>2, <3>3, <3>4 DEF CallStep
  <2> QED BY <1>1, <2>1, <2>2, <2>3, <2>4, <2>5 DEF Next
<1>2. ASSUME ExecutionInv, [Next]_vars, NEW p \in Calls, AppliedChange(p), PatchOf(loop) = p
      PROVE  Written = {}
  <2> SUFFICES ASSUME NEW q \in Written
               PROVE  FALSE
    OBVIOUS
  <2>1. PICK c \in Calls : loop = c /\ Live(c) /\ calls[c].at = "WRITING"
    BY <1>2, WhoWrites
  <2>2. ~ AppliedChange(PatchOf(c))
    BY <1>2, <2>1, LiveFacts DEF WriteInStep, AppliedChange
  <2> QED BY <1>2, <2>1, <2>2
<1>3. ExecutionInv /\ [Next]_vars => AppliedKept
  BY <1>1, <1>2 DEF AppliedKept, AppliedChange
<1>4. ExecutionInv /\ [Next]_vars => [AppliedKept]_vars
  BY <1>3
<1> QED BY <1>4, ExecutionInvariant, PTL DEF Spec, AppliedForGood

(* Files change only under a person's approval of the plan the patch was   *)
(* made for, and only by what that plan's generation proposed: a region    *)
(* stays, or holds all of that and nothing else that was not there before. *)
THEOREM WritesAreApproved == Spec => ApprovedWrites
<1>1. ASSUME ExecutionInv, [Next]_vars
      PROVE  ApprovedWrite
  <2> SUFFICES ASSUME NEW p \in Written,
                      NEW plan, plan = calls[PatchOf(loop)].plan,
                      NEW goal, goal = generations[plan].proposal[p]
               PROVE  /\ approvals[plan] = [status |-> "APPROVED", by |-> "person"]
                      /\ p \in DOMAIN generations[plan].proposal
                      /\ IF goal = None THEN files'[p] = None
                         ELSE \A r \in Regions :
                            \/ Text(files'[p])[r] = Text(files[p])[r]
                            \/ /\ goal[r] \in SubSeqs(Text(files'[p])[r])
                               /\ ToSet(Text(files'[p])[r]) \subseteq
                                     ToSet(goal[r]) \cup ToSet(Text(files[p])[r])
    BY DEF ApprovedWrite
  <2>1. PICK c \in Calls : /\ ApplyOperation(c, p) /\ loop = c /\ Live(c)
                           /\ calls[c].at = "WRITING"
    BY <1>1, WhoWrites
  <2>2. calls[c].at \in Writes /\ p \in calls[c].todo
    BY <2>1 DEF Writes, ApplyOperation
  <2>3. PICK owner \in Calls : owner = PatchOf(c)
    BY <1>1, <2>1, <2>2, WriteFacts
  <2>4. plan = calls[owner].plan
    BY <2>1, <2>3
  <2>5. patches[owner] # None /\ p \in DOMAIN patches[owner].ops
    BY <1>1, <2>1, <2>2, <2>3, LiveFacts DEF WriteInStep
  <2>6. /\ approvals[plan] = [status |-> "APPROVED", by |-> "person"]
        /\ Follows(patches[owner].ops, generations[plan].proposal)
    BY <1>1, <2>4, <2>5 DEF ExecutionInv, PatchInStep
  <2>7. PICK op \in Operations : op = patches[owner].ops[p]
    BY <1>1, <2>1, <2>2, <2>3, <2>5, WriteFacts
  <2>8. /\ p \in DOMAIN generations[plan].proposal
        /\ op.operation = "delete" <=> goal = None
        /\ op.to = Text(goal)
    BY <2>5, <2>6, <2>7 DEF Follows
  <2>9. files \in [Paths -> Files] /\ p \in Paths /\ files'[p] # files[p]
    BY <1>1 DEF ExecutionInv, TypeOK, Written
  <2>10. PICK o \in Outcomes(files[p], op) : files'[p] = o.file
    BY <2>1, <2>3, <2>7, <2>9 DEF ApplyOperation
  <2>11. \/ op.operation = "delete" /\ files'[p] = None
         \/ op.operation # "delete" /\ files'[p] \in Patched(Text(files[p]), op)
    BY <2>9, <2>10 DEF Outcomes
  <2>12. CASE op.operation = "delete"
    BY <2>6, <2>8, <2>11, <2>12
  <2>13. CASE op.operation # "delete"
    <3>1. goal # None /\ op.to = goal
      BY <2>8, <2>13 DEF Text
    <3>2. PICK before \in Texts : before = Text(files[p])
      <4>1. \A file \in Files : Text(file) \in Texts
        BY ExecutionAssumption DEF Text, Files, Empty, Texts
      <4> QED BY <2>9, <4>1
    <3>3. PICK after \in Patched(before, op) : after = files'[p]
      BY <2>11, <2>13, <3>2
    <3>4. /\ after \in [Regions -> UNION {LinesAfter(before[r], op, r) : r \in Regions}]
          /\ \A r \in Regions : after[r] \in LinesAfter(before[r], op, r)
      BY DEF Patched
    <3>5. Text(files'[p]) = after
      <4>1. \A r \in Regions : after[r] \in Seq(STRING)
        BY <3>4, RegionAfter
      <4>2. after \in Texts
        BY <3>4, <4>1 DEF Texts
      <4> QED BY <3>3, <4>2, ExecutionAssumption DEF Text
    <3>6. ASSUME NEW r \in Regions
          PROVE  \/ after[r] = before[r]
                 \/ /\ goal[r] \in SubSeqs(after[r])
                    /\ ToSet(after[r]) \subseteq ToSet(goal[r]) \cup ToSet(before[r])
      BY <3>1, <3>4, RegionAfter
    <3> QED BY <2>6, <2>8, <3>1, <3>2, <3>5, <3>6
  <2> QED BY <2>12, <2>13
<1>2. ExecutionInv /\ [Next]_vars => [ApprovedWrite]_vars
  BY <1>1
<1> QED BY <1>2, ExecutionInvariant, PTL DEF Spec, ApprovedWrites

(* A line is lost to a write only if the diff had read it, whatever people *)
(* wrote meanwhile and wherever a hunk fits.                               *)
THEOREM PeoplesEditsSurvive == Spec => EditsSurvive
<1>1. ASSUME ExecutionInv, [Next]_vars
      PROVE  EditKept
  <2> SUFFICES ASSUME NEW p \in Written, files[p] # None, files'[p] # None,
                      NEW r \in Regions
               PROVE  ToSet(files[p][r]) \ ToSet(files'[p][r])
                         \subseteq ToSet(patches[PatchOf(loop)].ops[p].from[r])
    BY DEF EditKept, OperationOf
  <2>1. PICK c \in Calls : /\ ApplyOperation(c, p) /\ loop = c /\ Live(c)
                           /\ calls[c].at = "WRITING"
    BY <1>1, WhoWrites
  <2>2. calls[c].at \in Writes /\ p \in calls[c].todo
    BY <2>1 DEF Writes, ApplyOperation
  <2>3. PICK owner \in Calls : owner = PatchOf(c)
    BY <1>1, <2>1, <2>2, WriteFacts
  <2>4. patches[owner] # None /\ p \in DOMAIN patches[owner].ops
    BY <1>1, <2>1, <2>2, <2>3, LiveFacts DEF WriteInStep
  <2>5. PICK op \in Operations : op = patches[owner].ops[p]
    BY <1>1, <2>1, <2>2, <2>3, <2>4, WriteFacts
  <2>6. files \in [Paths -> Files] /\ p \in Paths /\ files'[p] # files[p]
    BY <1>1 DEF ExecutionInv, TypeOK, Written
  <2>7. PICK o \in Outcomes(files[p], op) : files'[p] = o.file
    BY <2>1, <2>3, <2>5, <2>6 DEF ApplyOperation
  <2>8. PICK before \in Texts : before = files[p]
    BY <2>6 DEF Files
  <2>9. PICK after \in Patched(before, op) : after = files'[p]
    BY <2>6, <2>7, <2>8 DEF Outcomes, Text
  <2>10. after[r] \in LinesAfter(before[r], op, r)
    BY DEF Patched
  <2>11. ToSet(before[r]) \ ToSet(after[r]) \subseteq ToSet(op.from[r])
    BY <2>10, RegionAfter
  <2> QED BY <2>1, <2>3, <2>5, <2>8, <2>9, <2>11
<1>2. ExecutionInv /\ [Next]_vars => [EditKept]_vars
  BY <1>1
<1> QED BY <1>2, ExecutionInvariant, PTL DEF Spec, EditsSurvive


=============================================================================
