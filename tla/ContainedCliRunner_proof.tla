----------------------- MODULE ContainedCliRunner_proof -----------------------
(* What one run of the contained runner guarantees, for every output       *)
(* bound, every set of exit codes and every amount of output.              *)
EXTENDS ContainedCliRunner, TLAPS

(* What has been captured, as long as nothing failed, and what has not     *)
(* arrived yet make up what was written; a watched download empties both.  *)
Accounted ==
    /\ failures = {} => \A s \in Streams : bytes[s] + unread[s] = wrote[s]
    /\ "download" \in failures => text["stdout"] = 0

(* A child is only ever stopped for a reason that keeps its output from    *)
(* being an answer.                                                        *)
StoppedForAReason ==
    /\ signals # {} => killRequested
    /\ "grace" \in armed => killRequested
    /\ killRequested => timedOut \/ failures # {}

(* The phase of the promise and the life of the child go together.         *)
InStep ==
    /\ child \in {"none", "failed"} => ~held
    /\ phase = "new" => child = "none" /\ sandbox = "none"
    /\ phase = "running" => child # "none" /\ sandbox = "present"
    /\ phase = "closed" => /\ child = "exited" /\ ~held
                           /\ \A s \in Streams : unread[s] = 0
    /\ phase = "settled" => child # "running" /\ ~held /\ sandbox # "present"

RunnerInv == RunnerTypeOK /\ Accounted /\ StoppedForAReason /\ InStep /\ AnswerIsComplete

-----------------------------------------------------------------------------
(* The projection.                                                         *)

(* An outcome is an answer only for a zero exit code in time with output,  *)
(* and one of the provider's failures otherwise.                           *)
LEMMA OutcomeKinds ==
    ASSUME NEW r \in Results
    PROVE  /\ Outcome(r) \in Call!Failures \cup {"ANSWER"}
           /\ Outcome(r) = "ANSWER" => ~r.timedOut /\ r.code = 0 /\ r.code # None /\ r.stdout > 0
  BY DEF Outcome, Results, Call!Failures

(* A run that failed closed is no answer.                                  *)
LEMMA FailClosedIsNoAnswer == FailClosed \in Results /\ Outcome(FailClosed) # "ANSWER"
  BY DEF FailClosed, Results, Outcome

(* Settling resolves the promise and disposes of the directory; the result *)
(* carries the output only if nothing failed and the directory is gone.    *)
LEMMA SettleProjects ==
    ASSUME RunnerTypeOK, NEW failed, NEW code \in Codes \cup {None}, NEW out \in Nat,
           Settle(failed, code, out)
    PROVE  /\ phase' = "settled" /\ armed' = {} /\ sandbox' \in {"removed", "stuck"}
           /\ result' \in Results
           /\ Outcome(result') = "ANSWER" =>
                 /\ failed \cap Terminal = {} /\ sandbox' = "removed"
                 /\ result' = [code |-> code, stdout |-> out, timedOut |-> timedOut]
<1>1. FinishResult(failed, sandbox', code, out) \in Results
  BY FailClosedIsNoAnswer DEF FinishResult, Results, RunnerTypeOK
<1>2. CASE failed \cap Terminal # {} \/ sandbox' = "stuck"
  BY <1>1, <1>2, FailClosedIsNoAnswer DEF Settle, FinishResult
<1>3. CASE failed \cap Terminal = {} /\ sandbox' # "stuck"
  BY <1>1, <1>3 DEF Settle, FinishResult
<1> QED
  BY <1>2, <1>3

-----------------------------------------------------------------------------
(* The invariant.                                                          *)

(* A run that has not started satisfies the invariant.                     *)
LEMMA RunnerInit == Init => RunnerInv
<1> SUFFICES ASSUME Init PROVE RunnerInv
  OBVIOUS
<1>1. \A s \in Streams : Limit[s] \in Nat /\ bytes[s] = 0 /\ text[s] = 0
                         /\ wrote[s] = 0 /\ unread[s] = 0
  BY LimitAssumption DEF Init
<1>2. RunnerTypeOK
  <2>1. /\ bytes \in [Streams -> Nat] /\ text \in [Streams -> Nat]
        /\ wrote \in [Streams -> Nat] /\ unread \in [Streams -> Nat]
    BY DEF Init
  <2>2. \A s \in Streams : bytes[s] <= Limit[s] /\ text[s] <= bytes[s]
    BY <1>1
  <2> QED
    BY <2>1, <2>2, FailClosedIsNoAnswer DEF Init, RunnerTypeOK
<1>3. Accounted /\ StoppedForAReason /\ InStep
  BY <1>1 DEF Init, Accounted, StoppedForAReason, InStep
<1> QED
  BY <1>2, <1>3 DEF Init, RunnerInv, AnswerIsComplete, Answered

(* Every callback and every move of the processes preserves it.            *)
LEMMA RunnerNext == RunnerInv /\ [Next]_vars => RunnerInv'
<1> SUFFICES ASSUME RunnerInv, [Next]_vars PROVE RunnerInv'
  OBVIOUS
<1> USE LimitAssumption
<1>1. CASE RefuseToStart
  BY <1>1, FailClosedIsNoAnswer
     DEF RunnerInv, RunnerTypeOK, Accounted, StoppedForAReason, InStep, AnswerIsComplete,
         Answered, RefuseToStart, process
<1>2. CASE SpawnThrows
  <2>1. result' \in Results /\ Outcome(result') # "ANSWER" /\ phase' = "settled" /\ armed' = {}
        /\ sandbox' \in {"removed", "stuck"}
    BY <1>2, SettleProjects DEF SpawnThrows, RunnerInv, Terminal
  <2> QED
    BY <1>2, <2>1
       DEF RunnerInv, RunnerTypeOK, Accounted, StoppedForAReason, InStep, AnswerIsComplete,
           Answered, SpawnThrows, process, Terminal
<1>3. CASE Start
  <2>1. /\ phase = "new" /\ phase' = "running" /\ sandbox' = "present"
        /\ child' \in {"running", "failed"} /\ child = "none"
        /\ UNCHANGED <<options, bytes, text, timedOut, result, exitCode, wrote, unread, held>>
    BY <1>3 DEF Start, RunnerInv, InStep
  <2>2. /\ failures' \in {failures, {"unavailable"}, {"delivery"}}
        /\ killRequested' \in {killRequested, TRUE}
        /\ armed' \subseteq {"timeout", "grace"}
        /\ signals' \subseteq {"SIGTERM", "SIGKILL"}
        /\ StoppedForAReason'
    <3>1. CASE armed' = {"timeout"} /\ UNCHANGED <<failures, killRequested, signals>>
      BY <2>1, <3>1 DEF RunnerInv, RunnerTypeOK, StoppedForAReason
    <3>2. CASE /\ failures' \in {{"unavailable"}, {"delivery"}} /\ killRequested' = TRUE
               /\ armed' = {"timeout", "grace"} /\ signals' \in {{}, {"SIGTERM"}}
      BY <3>2 DEF StoppedForAReason
    <3> QED
      BY <1>3, <3>1, <3>2 DEF Start
  <2>3. RunnerTypeOK'
    BY <2>1, <2>2 DEF RunnerInv, RunnerTypeOK, Terminal
  <2> QED
    BY <2>1, <2>2, <2>3
       DEF RunnerInv, Accounted, InStep, AnswerIsComplete, Answered
<1>4. ASSUME NEW s \in Streams, Data(s) PROVE RunnerInv'
  <2> PICK n \in 1 .. unread[s] :
         /\ unread' = [unread EXCEPT ![s] = @ - n]
         /\ Dropped \/ Overflows(s, n) \/ ShowsDownload(s, n) \/ Captured(s, n)
    BY <1>4 DEF Data
  <2>1. /\ phase = "running" /\ child # "failed"
        /\ UNCHANGED <<options, phase, timedOut, sandbox, result, child, exitCode, wrote, held>>
    BY <1>4 DEF Data, Waiting
  <2>2. n \in Nat /\ n >= 1 /\ n <= unread[s] /\ unread[s] \in Nat /\ bytes[s] \in Nat
        /\ text[s] \in Nat /\ Limit[s] \in Nat
    BY DEF RunnerInv, RunnerTypeOK
  <2>3. unread' \in [Streams -> Nat]
    BY <2>2 DEF RunnerInv, RunnerTypeOK
  <2>4. CASE Dropped
    BY <2>1, <2>2, <2>3, <2>4
       DEF Dropped, RunnerInv, RunnerTypeOK, Accounted, StoppedForAReason, InStep,
           AnswerIsComplete, Answered
  <2>5. CASE Overflows(s, n) \/ ShowsDownload(s, n)
    <3>1. /\ failures' \in {{s}, {"download"}} /\ RequestTermination(armed) /\ bytes' = bytes
          /\ text' \in {[text EXCEPT ![s] = 0], [t \in Streams |-> 0]}
          /\ failures' = {"download"} => text' = [t \in Streams |-> 0]
      BY <2>5 DEF Overflows, ShowsDownload, Streams
    <3>2. /\ text' \in [Streams -> Nat]
          /\ \A t \in Streams : text'[t] <= bytes'[t]
      BY <3>1 DEF RunnerInv, RunnerTypeOK
    <3>3. failures' # {} /\ failures' \subseteq Terminal \cup {"download"}
      BY <3>1 DEF Streams, Terminal
    <3>4. /\ killRequested' = TRUE
          /\ armed' \subseteq {"timeout", "grace"} /\ signals' \subseteq {"SIGTERM", "SIGKILL"}
      BY <3>1 DEF RequestTermination, RunnerInv, RunnerTypeOK
    <3>5. RunnerTypeOK'
      BY <2>1, <2>3, <3>1, <3>2, <3>3, <3>4 DEF RunnerInv, RunnerTypeOK
    <3>6. Accounted'
      BY <3>1, <3>3 DEF Accounted, Streams
    <3>7. StoppedForAReason' /\ InStep' /\ AnswerIsComplete'
      BY <2>1, <3>3, <3>4 DEF RunnerInv, StoppedForAReason, InStep, AnswerIsComplete, Answered
    <3> QED
      BY <3>5, <3>6, <3>7 DEF RunnerInv
  <2>6. CASE Captured(s, n)
    <3>1. bytes' \in [Streams -> Nat] /\ text' \in [Streams -> Nat]
      BY <2>2, <2>6 DEF Captured, RunnerInv, RunnerTypeOK
    <3>2. \A t \in Streams : bytes'[t] <= Limit[t] /\ text'[t] <= bytes'[t]
      BY <2>2, <2>6, <3>1 DEF Captured, RunnerInv, RunnerTypeOK
    <3>3. \A t \in Streams : bytes'[t] + unread'[t] = wrote'[t]
      BY <2>1, <2>2, <2>6, <3>1 DEF Captured, RunnerInv, RunnerTypeOK, Accounted
    <3> QED
      BY <2>1, <2>3, <2>6, <3>1, <3>2, <3>3
         DEF Captured, RunnerInv, RunnerTypeOK, Accounted, StoppedForAReason, InStep,
             AnswerIsComplete, Answered
  <2> QED
    BY <2>4, <2>5, <2>6
<1>5. CASE SpawnError
  <2>1. result' \in Results /\ Outcome(result') # "ANSWER" /\ phase' = "settled" /\ armed' = {}
        /\ sandbox' \in {"removed", "stuck"}
    BY <1>5, SettleProjects DEF SpawnError, RunnerInv, Terminal
  <2> QED
    BY <1>5, <2>1
       DEF RunnerInv, RunnerTypeOK, Accounted, StoppedForAReason, InStep, AnswerIsComplete,
           Answered, SpawnError, process, Terminal
<1>6. CASE StdinFails
  BY <1>6
     DEF RunnerInv, RunnerTypeOK, Accounted, StoppedForAReason, InStep, AnswerIsComplete,
         Answered, StdinFails, RequestTermination, Waiting, Terminal
<1>7. CASE TimeoutFires
  BY <1>7
     DEF RunnerInv, RunnerTypeOK, Accounted, StoppedForAReason, InStep, AnswerIsComplete,
         Answered, TimeoutFires, RequestTermination, Waiting
<1>8. CASE GraceFires
  BY <1>8
     DEF RunnerInv, RunnerTypeOK, Accounted, StoppedForAReason, InStep, AnswerIsComplete,
         Answered, GraceFires, Waiting
<1>9. CASE Close
  BY <1>9
     DEF RunnerInv, RunnerTypeOK, Accounted, StoppedForAReason, InStep, AnswerIsComplete,
         Answered, Close, Waiting, process
<1>10. CASE Project
  <2>1. text' \in [Streams -> Nat] /\ \A s \in Streams : text'[s] <= bytes[s]
    BY <1>10 DEF Project, FlushDecoders, RunnerInv, RunnerTypeOK
  <2>2. text'["stdout"] \in Nat
    BY <2>1 DEF Streams
  <2>3. exitCode \in Codes \cup {None}
    BY DEF RunnerInv, RunnerTypeOK
  <2>4. /\ phase' = "settled" /\ armed' = {} /\ sandbox' \in {"removed", "stuck"}
        /\ result' \in Results
        /\ Outcome(result') = "ANSWER" =>
              /\ failures \cap Terminal = {} /\ sandbox' = "removed"
              /\ result' = [code |-> exitCode, stdout |-> text'["stdout"], timedOut |-> timedOut]
    BY <1>10, <2>2, <2>3, SettleProjects DEF Project, RunnerInv
  <2>5. ASSUME Outcome(result') = "ANSWER"
        PROVE  /\ failures = {} /\ ~timedOut /\ exitCode = 0 /\ text' = bytes
               /\ result'.stdout = text'["stdout"]
    <3>1. ~result'.timedOut /\ result'.code = 0 /\ result'.stdout > 0
      BY <2>4, <2>5, OutcomeKinds
    <3>2. ~timedOut /\ exitCode = 0 /\ result'.stdout = text'["stdout"] /\ text'["stdout"] > 0
      BY <2>4, <2>5, <3>1
    <3>3. "download" \notin failures
      BY <1>10, <2>2, <3>2 DEF Project, FlushDecoders, RunnerInv, Accounted
    <3>4. failures = {}
      BY <2>4, <2>5, <3>3 DEF RunnerInv, RunnerTypeOK
    <3> QED
      BY <1>10, <3>2, <3>4 DEF Project, FlushDecoders
  <2>6. UNCHANGED <<options, bytes, failures, timedOut, killRequested, child, exitCode, wrote,
                    unread, held, signals>>
    BY <1>10 DEF Project, process
  <2>7. phase = "closed" /\ child = "exited" /\ ~held /\ \A s \in Streams : unread[s] = 0
    BY <1>10 DEF Project, RunnerInv, InStep
  <2>8. AnswerIsComplete'
    <3> SUFFICES ASSUME Outcome(result') = "ANSWER" PROVE AnswerIsComplete'
      BY DEF AnswerIsComplete, Answered
    <3>1. \A s \in Streams : bytes[s] = wrote[s] /\ bytes[s] <= Limit[s]
      BY <2>5, <2>7 DEF RunnerInv, RunnerTypeOK, Accounted
    <3>2. signals = {}
      BY <2>5 DEF RunnerInv, StoppedForAReason
    <3> QED
      BY <2>4, <2>5, <2>6, <2>7, <3>1, <3>2 DEF AnswerIsComplete, Answered, Streams
  <2>9. Accounted'
    BY <1>10, <2>6 DEF Project, FlushDecoders, RunnerInv, Accounted
  <2> QED
    BY <2>1, <2>4, <2>6, <2>7, <2>8, <2>9
       DEF RunnerInv, RunnerTypeOK, StoppedForAReason, InStep
<1>11. ASSUME NEW s \in Streams, Write(s) PROVE RunnerInv'
  BY <1>11
     DEF RunnerInv, RunnerTypeOK, Accounted, StoppedForAReason, InStep, AnswerIsComplete,
         Answered, Write, runner, Streams
<1>12. ASSUME NEW codes, codes \subseteq Codes \cup {None}, Exit(codes) PROVE RunnerInv'
  BY <1>12
     DEF RunnerInv, RunnerTypeOK, Accounted, StoppedForAReason, InStep, AnswerIsComplete,
         Answered, Exit, runner
<1>13. CASE PipesClosed
  BY <1>13
     DEF RunnerInv, RunnerTypeOK, Accounted, StoppedForAReason, InStep, AnswerIsComplete,
         Answered, PipesClosed, runner
<1>14. CASE UNCHANGED vars
  BY <1>14
     DEF RunnerInv, RunnerTypeOK, Accounted, StoppedForAReason, InStep, AnswerIsComplete,
         Answered, vars, runner, process
<1> QED
  BY <1>1, <1>2, <1>3, <1>4, <1>5, <1>6, <1>7, <1>8, <1>9, <1>10, <1>11, <1>12, <1>13, <1>14
     DEF Next, Callback, ChildExits, ChildKilled

-----------------------------------------------------------------------------
(* What holds of every run.                                                *)

(* The strengthened invariant holds in every reachable state.              *)
THEOREM RunnerInvariant == Spec => []RunnerInv
<1>1. Init => RunnerInv
  BY RunnerInit
<1>2. RunnerInv /\ [Next]_vars => RunnerInv'
  BY RunnerNext
<1> QED
  BY <1>1, <1>2, PTL DEF Spec

(* The runner's state keeps its shape and its capture bounds.              *)
THEOREM RunnerTypeCorrect == Spec => []RunnerTypeOK
<1>1. RunnerInv => RunnerTypeOK
  BY DEF RunnerInv
<1> QED
  BY <1>1, RunnerInvariant, PTL

(* An answer is the whole output of a child that ended by itself with 0,   *)
(* whichever of data, timers, stdin errors and close came first.           *)
THEOREM AnswersAreComplete == Spec => []AnswerIsComplete
<1>1. RunnerInv => AnswerIsComplete
  BY DEF RunnerInv
<1> QED
  BY <1>1, RunnerInvariant, PTL

(* A promise that has resolved leaves neither a running child nor an       *)
(* untouched temporary directory.                                          *)
THEOREM NoRunLeavesAnythingBehind == Spec => []NothingLeftBehind
<1>1. RunnerInv => NothingLeftBehind
  BY DEF RunnerInv, InStep, NothingLeftBehind
<1> QED
  BY <1>1, RunnerInvariant, PTL

-----------------------------------------------------------------------------
(* The caller's contract.                                                  *)

(* A run that has not started is a call without a reply.                   *)
LEMMA CallInit == Init => Call!Init
  BY DEF Init, Call!Init, Streams

(* Each step of the runner is a step of the call, or none.                 *)
LEMMA CallNext == RunnerInv /\ RunnerInv' /\ [Next]_vars => [Call!Next]_(Call!vars)
<1> SUFFICES ASSUME RunnerInv, RunnerInv', [Next]_vars PROVE [Call!Next]_(Call!vars)
  OBVIOUS
<1>1. ASSUME phase # "settled", phase' = "settled", process' = process
      PROVE  Call!Next
  <2>1. UNCHANGED <<child, held, wrote>> /\ result' \in Results
    BY <1>1 DEF process, RunnerInv, RunnerTypeOK
  <2>2. CASE Outcome(result') = "ANSWER"
    <3>1. child = "exited" /\ ~held /\ result'.stdout = wrote["stdout"] /\ wrote["stdout"] > 0
      BY <1>1, <2>1, <2>2, OutcomeKinds
         DEF RunnerInv, AnswerIsComplete, Answered, InStep
    <3> QED
      BY <1>1, <2>1, <2>2, <3>1 DEF Call!Next, Call!ReplyWithAnswer, Call!Answer, Answered
  <2>3. CASE Outcome(result') # "ANSWER"
    <3>1. Outcome(result') \in Call!Failures
      BY <2>1, <2>3, OutcomeKinds
    <3> QED
      BY <1>1, <2>1, <2>3, <3>1 DEF Call!Next, Call!ReplyWithFailure, Call!Failure, Answered
  <2> QED
    BY <2>2, <2>3
<1>2. ASSUME phase # "settled", phase' # "settled", UNCHANGED <<held, wrote>>,
             (child' = "exited") <=> (child = "exited")
      PROVE  UNCHANGED Call!vars
  BY <1>2 DEF Call!vars, Answered
<1>3. ASSUME UNCHANGED <<phase, result>>, child # "exited" \/ held,
             wrote'["stdout"] >= wrote["stdout"]
      PROVE  Call!Next
  <2>1. wrote'["stdout"] \in Nat
    BY DEF RunnerInv, RunnerTypeOK, Streams
  <2>2. Answered' <=> Answered
    BY <1>3 DEF Answered
  <2> QED
    BY <1>3, <2>1, <2>2 DEF Call!Next, Call!Say
<1>4. CASE RefuseToStart \/ SpawnThrows \/ SpawnError \/ Project
  BY <1>1, <1>4 DEF RefuseToStart, SpawnThrows, SpawnError, Project, Settle
<1>5. CASE Start
  <2>1. child = "none" /\ phase # "settled"
    BY <1>5 DEF Start, RunnerInv, InStep
  <2>2. phase' # "settled" /\ UNCHANGED <<held, wrote>> /\ child' # "exited"
    BY <1>5 DEF Start
  <2> QED
    BY <1>2, <2>1, <2>2
<1>6. CASE (\E s \in Streams : Data(s)) \/ StdinFails \/ TimeoutFires \/ GraceFires \/ Close
  <2>1. phase # "settled" /\ phase' # "settled" /\ UNCHANGED <<held, wrote>>
        /\ ((child' = "exited") <=> (child = "exited"))
    <3>1. ASSUME NEW s \in Streams, Data(s)
          PROVE  phase = "running" /\ phase' = phase /\ child' = child
                 /\ UNCHANGED <<held, wrote>>
      BY <3>1 DEF Data, Waiting
    <3>2. CASE StdinFails
      BY <3>2 DEF StdinFails, Waiting
    <3>3. CASE TimeoutFires \/ GraceFires \/ Close
      BY <3>3 DEF TimeoutFires, GraceFires, Close, Waiting, process
    <3> QED
      BY <1>6, <3>1, <3>2, <3>3
  <2> QED
    BY <1>2, <2>1
<1>7. CASE (\E s \in Streams : Write(s)) \/ ChildExits \/ ChildKilled \/ PipesClosed
  <2>1. UNCHANGED <<phase, result>> /\ (child # "exited" \/ held)
    BY <1>7 DEF Write, ChildExits, ChildKilled, Exit, PipesClosed, runner
  <2>2. wrote'["stdout"] >= wrote["stdout"]
    BY <1>7 DEF Write, ChildExits, ChildKilled, Exit, PipesClosed, RunnerInv, RunnerTypeOK, Streams
  <2> QED
    BY <1>3, <2>1, <2>2
<1>8. CASE UNCHANGED vars
  BY <1>8 DEF vars, runner, process, Call!vars, Answered
<1> QED
  BY <1>4, <1>5, <1>6, <1>7, <1>8 DEF Next, Callback

(* The runner with the provider's reading of its result implements the     *)
(* abstract call: one reply, and an answer only if it is complete.         *)
THEOREM RunnerKeepsTheContract == Spec => OneCompleteReply
<1>1. Init => Call!Init
  BY CallInit
<1>2. RunnerInv /\ RunnerInv' /\ [Next]_vars => [Call!Next]_(Call!vars)
  BY CallNext
<1> QED
  BY <1>1, <1>2, RunnerInvariant, PTL DEF Spec, OneCompleteReply, Call!Spec
=============================================================================
