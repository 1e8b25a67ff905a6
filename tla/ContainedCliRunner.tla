-------------------------- MODULE ContainedCliRunner --------------------------
(***************************************************************************)
(* One run of the contained CLI runner: it prepares a temporary directory, *)
(* starts the provider's child process, collects its output within bounds, *)
(* stops it when it must, and resolves its promise once. Each callback of  *)
(* the event loop is one action; the child, and processes that inherited   *)
(* its output pipes, move between them as they like.                       *)
(*                                                                         *)
(* Output is counted in bytes: what was captured is its length, and a      *)
(* character split between two chunks is a byte the decoder still holds.   *)
(* Callbacks that come after the promise has resolved change nothing its   *)
(* caller sees, and are left out.                                          *)
(***************************************************************************)
EXTENDS Naturals

CONSTANTS
    Limit,        \* MAX_STDOUT_CAPTURE_BYTES, MAX_STDERR_CAPTURE_BYTES
    MaxOutput,    \* bound: bytes the child writes to a stream
    Codes,        \* exit codes explored
    None          \* no exit code

Streams == {"stdout", "stderr"}

ASSUME LimitAssumption == Limit \in [Streams -> Nat]
VARIABLES
    options,      \* is there a prompt, is a download watched for
    phase,        \* of the promise: new, running, closed, settled
    bytes,        \* counted per stream
    text,         \* decoded per stream
    failures,     \* the containment failures recorded
    timedOut,
    killRequested,
    armed,        \* timers
    sandbox,      \* the temporary directory
    result,       \* what the promise resolved to
    child,        \* the process
    exitCode,
    wrote,        \* bytes written to each pipe so far
    unread,       \* of those, not yet delivered to the runner
    held,         \* another process still has the pipes open
    signals       \* that reached the process

runner == <<bytes, text, failures, timedOut, killRequested, armed, sandbox, result>>
process == <<child, exitCode, wrote, unread, held, signals>>
vars == <<options, phase, runner, process>>

Terminal == {"spawn", "stdout", "stderr", "unavailable", "delivery"}
Results == [code : Codes \cup {None}, stdout : Nat, timedOut : BOOLEAN]
FailClosed == [code |-> None, stdout |-> 0, timedOut |-> FALSE]

RunnerTypeOK ==
    /\ options \in [prompt : BOOLEAN, watch : BOOLEAN]
    /\ phase \in {"new", "running", "closed", "settled"}
    /\ bytes \in [Streams -> Nat] /\ \A s \in Streams : bytes[s] <= Limit[s]
    /\ text \in [Streams -> Nat] /\ \A s \in Streams : text[s] <= bytes[s]
    /\ failures \subseteq Terminal \cup {"download"}
    /\ timedOut \in BOOLEAN /\ killRequested \in BOOLEAN
    /\ armed \subseteq {"timeout", "grace"}
    /\ sandbox \in {"none", "present", "removed", "stuck"}
    /\ result \in Results
    /\ child \in {"none", "failed", "running", "exited"}
    /\ exitCode \in Codes \cup {None}
    /\ wrote \in [Streams -> Nat] /\ unread \in [Streams -> Nat]
    /\ held \in BOOLEAN
    /\ signals \subseteq {"SIGTERM", "SIGKILL"}

Init ==
    /\ options \in [prompt : BOOLEAN, watch : BOOLEAN]
    /\ phase = "new"
    /\ bytes = [s \in Streams |-> 0] /\ text = [s \in Streams |-> 0]
    /\ failures = {} /\ timedOut = FALSE /\ killRequested = FALSE /\ armed = {}
    /\ sandbox = "none" /\ result = FailClosed
    /\ child = "none" /\ exitCode = None
    /\ wrote = [s \in Streams |-> 0] /\ unread = [s \in Streams |-> 0]
    /\ held = FALSE /\ signals = {}

-----------------------------------------------------------------------------
(* What several callbacks share.                                           *)

FinishResultSlip(failed, removed, code, out) ==     \* slip: containment failures are not looked at
    [code |-> code, stdout |-> out, timedOut |-> timedOut]

(* The projection of a run that ended with this exit code and output. A    *)
(* watched download is no failure of its own, but has emptied the output.  *)
FinishResult(failed, removed, code, out) ==
    IF failed \cap Terminal # {} \/ removed = "stuck"
    THEN FailClosed
    ELSE [code |-> code, stdout |-> out, timedOut |-> timedOut]

(* Finalizing comes first, because whether the directory could be removed  *)
(* decides the result.                                                     *)
Settle(failed, code, out) ==
    /\ phase' = "settled"
    /\ armed' = {}
    /\ sandbox' \in {"removed", "stuck"}
    /\ result' = FinishResult(failed, sandbox', code, out)

(* The child is asked to stop at most once; the grace timer follows. A     *)
(* process that never started or has ended gets no signal.                 *)
RequestTermination(timers) ==
    /\ killRequested' = TRUE
    /\ IF killRequested
       THEN armed' = timers /\ UNCHANGED signals
       ELSE /\ armed' = timers \cup {"grace"}
            /\ signals' = signals \cup (IF child = "running" THEN {"SIGTERM"} ELSE {})

(* Callbacks come in any order, except that the error of a process that    *)
(* could not be started is the first of them.                              *)
Waiting == phase = "running" /\ child # "failed"

-----------------------------------------------------------------------------
(* Starting.                                                               *)

(* The directory cannot be created, or a caller's variable is refused.     *)
RefuseToStart ==
    /\ phase = "new"
    /\ phase' = "settled"
    /\ sandbox' \in {"none", "removed", "stuck"}
    /\ result' = FailClosed
    /\ UNCHANGED <<options, bytes, text, failures, timedOut, killRequested, armed, process>>

SpawnThrows ==
    /\ phase = "new"
    /\ failures' = {"spawn"}
    /\ Settle(failures', None, 0)
    /\ UNCHANGED <<options, bytes, text, timedOut, killRequested, process>>

(* The child has no stdin, writing the prompt throws, or it is handed on.  *)
Start ==
    /\ phase = "new"
    /\ phase' = "running"
    /\ sandbox' = "present"
    /\ child' \in {"running", "failed"}
    /\ \/ /\ armed' = {"timeout"}
          /\ UNCHANGED <<failures, killRequested, signals>>
       \/ /\ failures' \in {{"unavailable"}} \cup (IF options.prompt THEN {{"delivery"}} ELSE {})
          /\ killRequested' = TRUE
          /\ armed' = {"timeout", "grace"}
          /\ signals' = IF child' = "running" THEN {"SIGTERM"} ELSE {}
    /\ UNCHANGED <<options, bytes, text, timedOut, result, exitCode, wrote, unread, held>>

-----------------------------------------------------------------------------
(* Output.                                                                 *)

(* Once anything failed no chunk is counted, decoded or kept.              *)
Dropped ==
    /\ failures # {}
    /\ UNCHANGED <<bytes, text, failures, killRequested, armed, signals>>

(* A chunk that breaches the bound is not decoded, and the stream emptied. *)
Overflows(s, n) ==
    /\ failures = {}
    /\ bytes[s] + n > Limit[s]
    /\ failures' = {s}
    /\ text' = [text EXCEPT ![s] = 0]
    /\ RequestTermination(armed)
    /\ UNCHANGED bytes

ShowsDownload(s, n) ==
    /\ failures = {}
    /\ bytes[s] + n <= Limit[s]
    /\ options.watch
    /\ failures' = {"download"}
    /\ text' = [t \in Streams |-> 0]
    /\ RequestTermination(armed)
    /\ UNCHANGED bytes

Captured(s, n) ==
    /\ failures = {}
    /\ bytes[s] + n <= Limit[s]
    /\ bytes' = [bytes EXCEPT ![s] = @ + n]
    /\ \E split \in {0, 1} : text' = [text EXCEPT ![s] = bytes[s] + n - split]
    /\ UNCHANGED <<failures, killRequested, armed, signals>>

Data(s) ==
    /\ Waiting
    /\ \E n \in 1 .. unread[s] :
          /\ unread' = [unread EXCEPT ![s] = @ - n]
          /\ Dropped \/ Overflows(s, n) \/ ShowsDownload(s, n) \/ Captured(s, n)
    /\ UNCHANGED <<options, phase, timedOut, sandbox, result, child, exitCode, wrote, held>>

-----------------------------------------------------------------------------
(* The other callbacks.                                                    *)

SpawnError ==
    /\ phase = "running" /\ child = "failed"
    /\ failures' = failures \cup {"spawn"}
    /\ Settle(failures', None, 0)
    /\ UNCHANGED <<options, bytes, text, timedOut, killRequested, process>>

(* A write that fails matters only if there was a prompt to deliver. It    *)
(* may be seen after close: then it still counts but nothing is signalled. *)
StdinFails ==
    /\ Waiting \/ phase = "closed"
    /\ options.prompt
    /\ failures \cap {"unavailable", "delivery"} = {}
    /\ failures' = failures \cup {"delivery"}
    /\ IF phase = "running"
       THEN RequestTermination(armed)
       ELSE UNCHANGED <<killRequested, armed, signals>>
    /\ UNCHANGED <<options, phase, bytes, text, timedOut, sandbox, result,
                   child, exitCode, wrote, unread, held>>

TimeoutFiresSlip ==                     \* slip: the timeout resolves the promise itself
    /\ Waiting /\ "timeout" \in armed
    /\ timedOut' = TRUE
    /\ killRequested' = TRUE
    /\ signals' = signals \cup {"SIGTERM"}
    /\ Settle(failures, None, text["stdout"])
    /\ UNCHANGED <<options, bytes, text, failures, child, exitCode, wrote, unread, held>>

TimeoutFires ==
    /\ Waiting /\ "timeout" \in armed
    /\ timedOut' = TRUE
    /\ RequestTermination(armed \ {"timeout"})
    /\ UNCHANGED <<options, phase, bytes, text, failures, sandbox, result,
                   child, exitCode, wrote, unread, held>>

GraceFiresSlip ==                       \* slip: the second signal is another SIGTERM
    /\ Waiting /\ "grace" \in armed
    /\ armed' = armed \ {"grace"}
    /\ UNCHANGED <<options, phase, bytes, text, failures, timedOut, killRequested, sandbox,
                   result, process>>

GraceFires ==
    /\ Waiting /\ "grace" \in armed
    /\ armed' = armed \ {"grace"}
    /\ signals' = signals \cup (IF child = "running" THEN {"SIGKILL"} ELSE {})
    /\ UNCHANGED <<options, phase, bytes, text, failures, timedOut, killRequested, sandbox,
                   result, child, exitCode, wrote, unread, held>>

(* Node emits close when the process has ended and its output pipes, which *)
(* others may have inherited, are drained and closed.                      *)
Close ==
    /\ Waiting /\ child = "exited" /\ ~held
    /\ \A s \in Streams : unread[s] = 0
    /\ phase' = "closed"
    /\ armed' = {}
    /\ UNCHANGED <<options, bytes, text, failures, timedOut, killRequested, sandbox, result, process>>

FlushDecodersSlip == text               \* slip: what the decoders hold is lost

FlushDecoders == IF failures = {} THEN bytes ELSE text

(* One macrotask later the decoders are flushed and the result projected.  *)
Project ==
    /\ phase = "closed"
    /\ text' = FlushDecoders
    /\ Settle(failures, exitCode, text'["stdout"])
    /\ UNCHANGED <<options, bytes, failures, timedOut, killRequested, process>>

-----------------------------------------------------------------------------
(* The process, and those it shares its pipes with.                        *)

Write(s) ==
    /\ child = "running" \/ held
    /\ wrote[s] < MaxOutput
    /\ wrote' = [wrote EXCEPT ![s] = @ + 1]
    /\ unread' = [unread EXCEPT ![s] = @ + 1]
    /\ UNCHANGED <<options, phase, runner, child, exitCode, held, signals>>

(* It may leave a process behind that holds the pipes.                     *)
Exit(codes) ==
    /\ child = "running"
    /\ child' = "exited"
    /\ exitCode' \in codes
    /\ held' \in BOOLEAN
    /\ UNCHANGED <<options, phase, runner, wrote, unread, signals>>

(* By itself, by a signal, or as it must by SIGKILL.                       *)
ChildExits == Exit(Codes \cup {None})
ChildKilled == "SIGKILL" \in signals /\ Exit({None})

PipesClosed ==
    /\ child = "exited" /\ held
    /\ held' = FALSE
    /\ UNCHANGED <<options, phase, runner, child, exitCode, wrote, unread, signals>>

Callback ==
    \/ RefuseToStart \/ SpawnThrows \/ Start
    \/ \E s \in Streams : Data(s)
    \/ SpawnError \/ StdinFails \/ TimeoutFires \/ GraceFires
    \/ Close \/ Project

Next ==
    \/ Callback
    \/ \E s \in Streams : Write(s)
    \/ ChildExits \/ ChildKilled \/ PipesClosed

Spec == Init /\ [][Next]_vars

(* The event loop runs what is due: pending data, timers, close and the    *)
(* deferred projection. The child need not end, nor others let go of its   *)
(* pipes; only SIGKILL cannot be ignored.                                  *)
FairSpec ==
    /\ Spec
    /\ WF_vars(RefuseToStart \/ SpawnThrows \/ Start)
    /\ \A s \in Streams : WF_vars(Data(s))
    /\ WF_vars(SpawnError) /\ WF_vars(TimeoutFires) /\ WF_vars(GraceFires)
    /\ WF_vars(Close) /\ WF_vars(Project)
    /\ WF_vars(ChildKilled)

-----------------------------------------------------------------------------
(* The provider's reading of the result (ClaudeCliProvider.execute).       *)
Outcome(r) ==
    CASE r.timedOut -> "TIMEOUT"
      [] ~r.timedOut /\ r.code = None -> "UNAVAILABLE"
      [] ~r.timedOut /\ r.code # None /\ r.code # 0 -> "EXECUTION_FAILED"
      [] ~r.timedOut /\ r.code # None /\ r.code = 0 /\ r.stdout = 0 -> "EMPTY_OUTPUT"
      [] OTHER -> "ANSWER"

Answered == phase = "settled" /\ Outcome(result) = "ANSWER"

(* An answer is everything the child wrote, within the bound, from a child *)
(* that ended with 0 and was never signalled, with its prompt delivered as *)
(* far as known and its directory gone, whichever callbacks raced.         *)
AnswerIsComplete ==
    Answered =>
        /\ result.stdout = wrote["stdout"]
        /\ wrote["stdout"] <= Limit["stdout"] /\ wrote["stderr"] <= Limit["stderr"]
        /\ child = "exited" /\ exitCode = 0
        /\ signals = {} /\ failures = {}
        /\ sandbox = "removed"

(* When the promise resolves no child is running and the directory's       *)
(* removal has been tried, so a caller that asks again finds nothing left. *)
NothingLeftBehind == phase = "settled" => child # "running" /\ sandbox # "present"

(* A run ends, however the child behaves, unless another process keeps its *)
(* pipes open: the timeout bounds the child, and nothing bounds the others.*)
RunsEnd == <>[](~held) => <>(phase = "settled")

(* The runner and the provider's reading together keep the caller's        *)
(* contract: one reply, and an answer only if it is complete.              *)
Call ==
    INSTANCE ProviderCall WITH
        Pending <- None,
        said <- wrote["stdout"],
        over <- child = "exited" /\ ~held,
        reply <- IF phase # "settled" THEN None
                 ELSE [kind |-> Outcome(result),
                       text |-> IF Answered THEN result.stdout ELSE 0]

OneCompleteReply == Call!Spec
=============================================================================
