--------------------------- MODULE SemanticHarness --------------------------
(***************************************************************************)
(* The offline harness that asks a local model the scenarios and keeps     *)
(* evidence: a plan that a person approves, the bindings checked against   *)
(* it, `--version', `list', and one child process per call, each watched   *)
(* for downloads, excess output, a broken stdin and a deadline.            *)
(*                                                                         *)
(* A binding digest is what it is computed from. A chunk of output is a    *)
(* few words, and the capture bound counts words.                          *)
(***************************************************************************)
EXTENDS DownloadMarkers, SemanticChecks

CONSTANTS
    AllScenarios,  \* the scenarios of the fixtures, in order
    Configs,       \* [mode, scenarios, calls] a person may plan and start
    MaxCapture,    \* words of one stream that may be captured
    MaxText,       \* bound: words written by one child, by command
    Output,        \* bound: words a child may write
    MaxChanges     \* bound: changes of the checkout and the executable

ASSUME HarnessAssumption ==
    /\ MaxCapture \in Nat /\ MaxChanges \in Nat
    /\ Output \subseteq Words
    /\ \A c \in Configs : c.mode \in {"probe-provider", "run", "run-all"}
    /\ None \notin {"MODEL_DOWNLOAD_DETECTED", "PROVIDER_SPAWN_FAILED", "OUTPUT_LIMIT_EXCEEDED",
                   "CHILD_STDIN_FAILED", "SANDBOX_CLEANUP_FAILED"}

VARIABLES
    world,         \* the checkout, its build and the executable
    changes,       \* how often it changed
    plan,          \* what a person approved, or None
    run,           \* the run: its config and what was observed when it began, or None
    phase,         \* "IDLE", the command under way, or how the run ended
    call,          \* the child and what the adapter knows of it, or None
    left,          \* some sandbox of the run is still there
    records        \* evidence

vars == <<world, changes, plan, run, phase, call, left, records>>

Commands == {"VERSION", "LIST", "GENERATE"}
Streams == {"out", "err"}

Init ==
    /\ world = [head |-> 1, source |-> 1, built |-> 1, compiled |-> 1, executable |-> 1]
    /\ changes = 0 /\ plan = None /\ run = None /\ phase = "IDLE"
    /\ call = None /\ left = FALSE /\ records = <<>>

-----------------------------------------------------------------------------
(* The checkout: edits, commits, builds, and what replaces files by hand.  *)
(* Once a run has begun nothing looks at them any more.                    *)
WorldChanges ==
    /\ changes < MaxChanges /\ phase = "IDLE"
    /\ changes' = changes + 1
    /\ \/ world' = [world EXCEPT !.source = 3 - @]
       \/ world' = [world EXCEPT !.head = world.source]
       \/ world' = [world EXCEPT !.built = world.source, !.compiled = world.source]
       \/ world' = [world EXCEPT !.compiled = 3 - @]
       \/ world' = [world EXCEPT !.executable = 3 - @]
    /\ world' # world
    /\ UNCHANGED <<plan, run, phase, call, left, records>>

(* computeStaticCodeBinding(): every source is what the last build read.   *)
Attested(w) == w.source = w.built
Clean(w) == w.source = w.head

StaticBinding(w) == <<w.head, Clean(w), w.source, w.compiled>>

(* canonicalExecutionBindingPayload()                                      *)
ExecutionBinding(w, config) == <<StaticBinding(w), w.executable, config>>

(* `plan-execution' prints the bindings and starts nothing; it does not    *)
(* ask for a clean checkout.                                               *)
PlanExecution ==
    /\ phase = "IDLE" /\ plan = None /\ Attested(world)
    /\ \E config \in Configs :
          plan' = [config |-> config, world |-> world, binding |-> ExecutionBinding(world, config)]
    /\ UNCHANGED <<world, changes, run, phase, call, left, records>>

-----------------------------------------------------------------------------
(* The adapter: one child.                                                 *)

NewCall ==
    [status |-> "RUNNING", code |-> None, input |-> IF phase = "GENERATE" THEN "PENDING" ELSE "WRITTEN",
     text |-> [s \in Streams |-> <<>>], scanner |-> [s \in Streams |-> Scanner],
     limited |-> FALSE, timedOut |-> FALSE, stdinFailed |-> FALSE,
     killRequested |-> FALSE, killEscalated |-> FALSE, closing |-> FALSE]

(* A child without a stdin is stopped at once.                             *)
Spawned == {NewCall, [NewCall EXCEPT !.input = "REPORTED", !.stdinFailed = TRUE, !.killRequested = TRUE]}

Detected(c) == \E s \in Streams : c.scanner[s].found
BlockedOutput(c) == c.limited \/ Detected(c)

(* terminate(): SIGTERM once, and the timer of the SIGKILL.                *)
Terminated(c) == [c EXCEPT !.killRequested = TRUE]

Appended(c, s, chunk) ==
    LET text == [c.text EXCEPT ![s] = @ \o chunk]
        scanner == [c.scanner EXCEPT ![s] = Scan(@, chunk, FALSE)]
        read == [c EXCEPT !.text = text, !.scanner = scanner]
        over == ~BlockedOutput(read) /\ Len(read.text[s]) > MaxCapture
    IN  CASE over -> Terminated([read EXCEPT !.limited = TRUE])
          [] Detected(read) /\ ~Detected(c) -> Terminated(read)
          [] OTHER -> read

Watching == phase \in Commands /\ call # None
Quiet == UNCHANGED <<world, changes, plan, run, phase, left, records>>

Data ==
    /\ Watching /\ ~call.closing
    /\ \E s \in Streams : \E n \in 1..MaxText[phase][s] :
          /\ Len(call.text[s]) + n <= MaxText[phase][s]
          /\ ~call.scanner[s].found
          /\ \E chunk \in [1..n -> Output] : call' = Appended(call, s, chunk)
    /\ Quiet

(* The prompt is in the pipe, or the child went away before it was.        *)
InputWritten ==
    /\ Watching /\ call.input = "PENDING" /\ call.status = "RUNNING"
    /\ call' = [call EXCEPT !.input = "WRITTEN"]
    /\ Quiet

InputBroken ==
    /\ Watching /\ call.input = "PENDING"
    /\ call' = [call EXCEPT !.input = "BROKEN"]
    /\ Quiet

StdinError ==
    /\ Watching /\ call.input = "BROKEN"
    /\ call' = Terminated([call EXCEPT !.input = "REPORTED", !.stdinFailed = TRUE])
    /\ Quiet

TimeoutFires ==
    /\ Watching /\ ~call.timedOut
    /\ call' = Terminated([call EXCEPT !.timedOut = TRUE])
    /\ Quiet

GraceFiresSlip ==
    /\ Watching /\ call.killRequested /\ ~call.killEscalated
    /\ call' = Terminated(call)
    /\ Quiet

GraceFires ==
    /\ Watching /\ call.killRequested /\ ~call.killEscalated
    /\ call' = [call EXCEPT !.killEscalated = TRUE]
    /\ Quiet

(* A child ends by itself, or by a signal.                                 *)
Exits ==
    /\ Watching /\ call.status = "RUNNING"
    /\ \E code \in {0, 1} \cup (IF call.killRequested THEN {None} ELSE {}) :
          call' = [call EXCEPT !.status = "EXITED", !.code = code,
                               !.input = IF @ = "PENDING" THEN "BROKEN" ELSE @]
    /\ Quiet

(* 'close': the child is gone and nobody holds its pipes.                  *)
PipesClose ==
    /\ Watching /\ call.status = "EXITED" /\ ~call.closing
    /\ call' = [call EXCEPT !.closing = TRUE]
    /\ Quiet

-----------------------------------------------------------------------------
(* Results.                                                                *)

(* emit(): the sandbox is removed, which may fail.                         *)
ResultOf(c, spawnFailed, cleanupFailed) ==
    [download |-> Detected(c), spawnFailed |-> spawnFailed, limited |-> c.limited,
     stdinFailed |-> c.stdinFailed, cleanupFailed |-> cleanupFailed,
     timedOut |-> c.timedOut, code |-> c.code,
     empty |-> BlockedOutput(c) \/ c.text["out"] = <<>>]

Finished(c) == [c EXCEPT !.scanner = [s \in Streams |-> Finish(c.scanner[s])]]

(* assertProcessResultSafe(), in its order.                                *)
Unsafe(r) ==
    IF r.download THEN "MODEL_DOWNLOAD_DETECTED"
    ELSE IF r.spawnFailed THEN "PROVIDER_SPAWN_FAILED"
    ELSE IF r.limited THEN "OUTPUT_LIMIT_EXCEEDED"
    ELSE IF r.stdinFailed THEN "CHILD_STDIN_FAILED"
    ELSE IF r.cleanupFailed THEN "SANDBOX_CLEANUP_FAILED" ELSE None

Failed(r) == r.code # 0 \/ r.timedOut

(* Where the next record belongs.                                          *)
Scenario(n) == run.config.scenarios[((n - 1) \div run.config.calls) + 1]
Wanted == Len(run.config.scenarios) * run.config.calls

End(how) == phase' = how /\ call' = None
Go(command) == phase' = command /\ call' = None

Judged == {<<id, Judgements(id)>> : id \in ToSet(AllScenarios)}

(* The record is kept, and a leak then discards them all with the run.     *)
Recorded ==
    LET n == Len(records) + 1
    IN  \E judged \in Judged : judged[1] = Scenario(n) /\ \E j \in judged[2] :
           IF j.verdict = "BLOCKED"
           THEN End("PROMPT_LEAK_DETECTED") /\ records' = <<>>
           ELSE /\ records' = Append(records, [scenario |-> Scenario(n), ordinal |-> ((n - 1) % run.config.calls) + 1,
                                               verdict |-> j.verdict, unearned |-> j.unearned])
                /\ IF n < Wanted THEN Go("GENERATE")
                   ELSE End(IF \E i \in 1..n : records'[i].verdict = "AUTOMATED_FAIL"
                            THEN "AUTOMATED_FAIL" ELSE "HUMAN_REVIEW_REQUIRED")

(* A failure discards the records: run() throws.                           *)
Blocked(code) == End(code) /\ records' = <<>>

Delivered(r) ==
    /\ left' = (left \/ r.cleanupFailed)
    /\ IF Unsafe(r) # None THEN Blocked(Unsafe(r))
       ELSE \/ /\ phase = "VERSION"
               /\ IF Failed(r) THEN Blocked("PROVIDER_UNAVAILABLE") ELSE Go("LIST") /\ UNCHANGED records
            \/ /\ phase = "LIST"
               /\ IF Failed(r) THEN Blocked("MODEL_INVENTORY_UNAVAILABLE")
                  ELSE \/ Blocked("MODEL_NOT_INSTALLED")
                       \/ /\ ~r.empty /\ UNCHANGED records
                          /\ IF run.config.mode = "probe-provider" THEN End("PROBED") ELSE Go("GENERATE")
            \/ /\ phase = "GENERATE"
               /\ IF Failed(r) \/ r.empty THEN Blocked("UNCLASSIFIED_ERROR") ELSE Recorded
    /\ UNCHANGED <<world, changes, plan, run>>

(* One macrotask after 'close'; a broken pipe is reported before it.       *)
SettlesSlip ==
    /\ Watching /\ call.closing
    /\ \E cleanupFailed \in BOOLEAN : Delivered(ResultOf(Finished(call), FALSE, cleanupFailed))

Settles ==
    /\ Watching /\ call.closing /\ call.input # "BROKEN"
    /\ \E cleanupFailed \in BOOLEAN : Delivered(ResultOf(Finished(call), FALSE, cleanupFailed))

(* 'error': the child never started, or could not be killed.               *)
ChildError ==
    /\ Watching /\ call.status = "RUNNING"
    /\ call.killRequested \/ call.text = [s \in Streams |-> <<>>]
    /\ \E cleanupFailed \in BOOLEAN : Delivered(ResultOf(call, TRUE, cleanupFailed))

(* The next child of a run, or a spawn that throws.                        *)
StartChild ==
    /\ phase \in Commands /\ call = None
    /\ \/ call' \in Spawned /\ Quiet
       \/ \E cleanupFailed \in BOOLEAN : Delivered(ResultOf(NewCall, TRUE, cleanupFailed))

-----------------------------------------------------------------------------
(* A run: everything is observed again and must be what was planned.       *)
Approves(config) ==
    /\ Clean(world) /\ Attested(world)
    /\ plan # None /\ plan.world.head = world.head
    /\ ExecutionBinding(world, config) = plan.binding

Run ==
    /\ phase = "IDLE"
    /\ \E config \in Configs :
          IF Approves(config)
          THEN phase' = "VERSION" /\ run' = [config |-> config, world |-> world]
          ELSE phase' = "REFUSED" /\ UNCHANGED run
    /\ UNCHANGED <<world, changes, plan, call, left, records>>

Ended == phase \notin {"IDLE"} \cup Commands
Done == Ended /\ UNCHANGED vars

Next ==
    \/ WorldChanges \/ PlanExecution \/ Run \/ StartChild
    \/ Data \/ InputWritten \/ InputBroken \/ StdinError
    \/ TimeoutFires \/ GraceFires \/ Exits \/ PipesClose
    \/ Settles \/ ChildError \/ Done

(* Timers fire, a child that got SIGKILL ends, its pipes close, and the    *)
(* run goes on: while one of these can happen, one of them does. Nothing   *)
(* else is promised: a child need not end, or take its input, by itself.   *)
GoesOn ==
    \/ StartChild \/ StdinError \/ TimeoutFires \/ GraceFires
    \/ PipesClose \/ Settles \/ (Exits /\ call.killEscalated)

Fairness == WF_vars(GoesOn)

Spec == Init /\ [][Next]_vars /\ Fairness

-----------------------------------------------------------------------------
(* Properties.                                                             *)

(* A record is added only for a child that ended with 0 and in time, took  *)
(* the whole prompt into its pipe, wrote no more than is captured and,     *)
(* read as a whole, no trace of a download, and left no sandbox behind,    *)
(* nor did a child before it; and only in a run that began exactly as it   *)
(* was planned, from a clean checkout that the last build has read.        *)
CleanEvidence ==
    [][Len(records') > Len(records) =>
          /\ call.status = "EXITED" /\ call.code = 0 /\ ~call.timedOut
          /\ call.input = "WRITTEN"
          /\ \A s \in Streams : Len(call.text[s]) <= MaxCapture /\ ~HasMarker(call.text[s])
          /\ ~left'
          /\ run.config = plan.config /\ run.world = plan.world
          /\ run.world.source = run.world.head /\ run.world.source = run.world.built]_vars

(* No answer passes that claims the present state with no word of          *)
(* retraction and of doubt after the claim, or that does not give the      *)
(* value asked for, or also denies or questions it.                        *)
EarnedPasses ==
    \A i \in DOMAIN records : records[i].unearned => records[i].verdict # "AUTOMATED_PASS"

(* A run that began ends, whatever its children do, if nobody else keeps   *)
(* their pipes open.                                                       *)
RunsEnd == phase \in Commands ~> Ended
=============================================================================
