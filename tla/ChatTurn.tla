------------------------------ MODULE ChatTurn ------------------------------
(* A message from the channel to its reply: DiscordPlatformAdapter,        *)
(* QuokyCore and the ConversationRuntime's turns that are not steps of the *)
(* apply lifecycle, over the chat memory and the delivery of replies. A    *)
(* turn gives way at the typing call, while a provider answers and at each *)
(* send; between these it keeps the event loop. Any storage call may fail. *)
EXTENDS ChatMemory, MessageDelivery

CONSTANTS
    Inboxes,         \* what the messages may be: kind, body of the reply, fact
    SessionOf,       \* the session of a channel
    AuthorOf,        \* who wrote a message
    Writes,          \* what callers of the MemoryWriter may promote
    MaxWrites,       \* bound: they promote this often, before the first message
    MaxKnown,        \* bound: of which this often when a message follows
    MaxOpen          \* bound: turns open at a time

(* compose puts a note in the place of an empty answer, and a preview is   *)
(* attached only when it has lines, so that no reply is empty.             *)
ASSUME TurnAssumption ==
    /\ SessionOf \in [Channels -> Sessions]
    /\ \A inbox \in Inboxes, m \in Messages : inbox[m] # None =>
           \/ inbox[m].body.kind = "text" /\ inbox[m].body.body \in Texts
           \/ inbox[m].body.kind = "preview" /\ inbox[m].body.body \in Diffs
    /\ None \notin {"answer", "error", "terminal", "stored", "COMPLETED"}

VARIABLE turns       \* one record per message

vars == <<memoryVars, deliveryVars, turns>>

NewTurn(asks) == [at |-> "unsent", asks |-> asks, context |-> None, before |-> << >>,
                  run |-> None, task |-> None, outcome |-> None]

Init ==
    /\ MemoryInit /\ DeliveryInit
    /\ \E inbox \in Inboxes : turns = [m \in Messages |-> NewTurn(inbox[m])]

SessionFor(m) == SessionOf[ChannelOf[m]]
Turns(m, t) == turns' = [turns EXCEPT ![m] = t]

(* What a reply says; an answer and a local reply carry the turn's body.   *)
Reply(m, outcome) ==
    IF outcome \in {"answer", "local"} THEN turns[m].asks.body
    ELSE [kind |-> "text", body |-> <<"x">>]

(* The runtime returns a TurnResult and the facade delivers it.            *)
Returns(m, t, outcome) ==
    /\ Turns(m, [t EXCEPT !.at = "replied", !.outcome = outcome, !.context = None, !.before = << >>])
    /\ SendMessage(m, Reply(m, outcome))

-----------------------------------------------------------------------------
Open(m) == turns[m].at \notin {"unsent", "over"}

(* messageCreate: a person's message; typing is shown first.               *)
MessageCreate(m) ==
    /\ turns[m].at = "unsent" /\ turns[m].asks # None
    /\ Cardinality({n \in Messages : Open(n)}) < MaxOpen
    /\ (\A n \in Messages : turns[n].at = "unsent") => rowid <= MaxKnown
    /\ Turns(m, [turns[m] EXCEPT !.at = "typing"])
    /\ UNCHANGED <<memoryVars, deliveryVars>>

(* sendTyping returns whether or not the indicator could be shown.         *)
TypingShown(m) ==
    /\ turns[m].at = "typing"
    /\ StartTyping(m)
    /\ Turns(m, [turns[m] EXCEPT !.at = "handling"])
    /\ UNCHANGED memoryVars

Handling(m) == turns[m].at = "handling"
Asks(m, kind) == Handling(m) /\ turns[m].asks.kind = kind
Works(m) == Asks(m, "chat") \/ (Asks(m, "analysis") /\ SessionFor(m) \in projects)
Local(m) == Asks(m, "local") \/ (Asks(m, "analysis") /\ SessionFor(m) \notin projects)

(* What is stored once the message is, and once the reply is as well; the  *)
(* pruning that follows a save may stop early.                             *)
UserSaved(m, clock, keep) == Recorded(Memory, SessionFor(m), "user", m, clock, keep)
AnswerSaved(mem, m, clock, keep) == Recorded(mem, SessionFor(m), "assistant", m, clock, keep)
BothSaved(m, clock, keep) == AnswerSaved(UserSaved(m, clock, MaxShortTerm), m, clock, keep)
Keeps == MaxShortTerm..(MaxShortTerm + Cardinality(Messages))

(* An error that escapes becomes one sanitized reply, after nothing was    *)
(* saved, or the message, or the reply too.                                *)
Escapes(m, t, after) ==
    /\ \E clock \in Clocks, keep \in Keeps :
          \/ "nothing" \in after /\ Remembers(Memory)
          \/ Remembers(UserSaved(m, clock, keep))
          \/ "reply" \in after /\ Remembers(BothSaved(m, clock, keep))
    /\ Returns(m, t, "sanitized")

(* Of createTask, two transitions and startRun an error can leave any.     *)
HandleFails(m) ==
    /\ Handling(m)
    /\ \/ Escapes(m, turns[m], {"nothing"})
       \/ (Local(m) \/ Asks(m, "register")) /\ Escapes(m, turns[m], {"reply"})
       \/ /\ Works(m)
          /\ \E status \in {"PENDING", "PLANNING", "RUNNING"} :
                Escapes(m, [turns[m] EXCEPT !.task = status], {})
    /\ \/ UNCHANGED projects
       \/ Asks(m, "register") /\ projects' = projects \cup {SessionFor(m)}
    /\ UNCHANGED durable

(* respondComposed, failComposed: the turns that need no provider, and an  *)
(* analysis for which no project is registered.                            *)
HandleLocal(m) ==
    /\ Local(m)
    /\ \E clock \in Clocks : Remembers(BothSaved(m, clock, MaxShortTerm))
    /\ Returns(m, turns[m], "local")
    /\ UNCHANGED <<durable, projects>>

(* ProjectManager.register: the summary is stored, the session is bound.   *)
HandleRegister(m) ==
    /\ Asks(m, "register")
    /\ \E clock \in Clocks : Remembers(BothSaved(m, clock, MaxShortTerm))
    /\ projects' = projects \cup {SessionFor(m)}
    /\ Returns(m, turns[m], "local")
    /\ UNCHANGED durable

(* "remember: ...": promoted in the author's scope of this session. The    *)
(* reply says whether it is stored, and an error after it says nothing.    *)
CandidateOf(m) ==
    [session |-> SessionFor(m), actor |-> AuthorOf[m], fact |-> turns[m].asks.fact,
     secret |-> turns[m].asks.secret, supersedes |-> NoRow]

(* PROMOTED and DUPLICATE are reported as stored.                          *)
SaysStored(m, fails) == fails = "none" /\ Decision(CandidateOf(m)) # "REJECTED"

HandleRemember(m) ==
    /\ Asks(m, "remember")
    /\ \E fails \in {"none", "save"} :
          LET c == CandidateOf(m)
          IN  /\ Decision(c) # "PROMOTED" => fails = "none"
              /\ durable' = IF Decision(c) = "PROMOTED" THEN Written(c, fails) ELSE durable
              /\ \/ /\ \E clock \in Clocks : Remembers(BothSaved(m, clock, MaxShortTerm))
                    /\ Returns(m, turns[m], IF SaysStored(m, fails) THEN "stored" ELSE "notStored")
                 \/ Escapes(m, turns[m], {"reply"})
    /\ UNCHANGED <<projects>>

-----------------------------------------------------------------------------
(* handleWorkTurn.                                                         *)

(* The catch: the run and the task are failed and the user is told. When a *)
(* save fails here too, the error escapes and the task stays as it is.     *)
Caught(m, t) ==
    \/ Returns(m, [t EXCEPT !.run = "FAILED", !.task = "FAILED"], "error")
    \/ \E run \in {t.run, "FAILED"} : Returns(m, [t EXCEPT !.run = run], "sanitized")

(* compose: the layers of the prompt. The message is the task; what is     *)
(* known of it is said beside what the session remembers.                  *)
Prompt(m, context) ==
    [task |-> m, background |-> context.project, recall |-> context.recall,
     transcript |-> context.transcript]

(* Task, run and context, all before a provider is asked. `before` is what *)
(* the session had said.                                                   *)
HandleWork(m) ==
    LET s == SessionFor(m)
        working == [turns[m] EXCEPT !.run = "STARTED", !.task = "RUNNING", !.before = said[s]]
    IN  /\ Works(m)
        /\ \E clock \in Clocks :
              LET mem == UserSaved(m, clock, MaxShortTerm)
              IN  /\ Remembers(mem)
                  /\ \/ /\ \E context \in Contexts(mem.rows, s, mem.id) :
                             Turns(m, [working EXCEPT !.at = "answering", !.context = Prompt(m, context)])
                        /\ UNCHANGED deliveryVars
                     \/ Caught(m, working)
        /\ UNCHANGED <<durable, projects>>

AcceptedSlip(t) ==    \* slip: completed before the answer is recorded
    {[t EXCEPT !.run = "SUCCEEDED", !.task = "COMPLETED"]}
(* How far a turn with an answer has come when the answer is recorded:     *)
(* completeRun is done, transition is not.                                 *)
Accepted(t) == {[t EXCEPT !.run = "SUCCEEDED"]}

(* An answer: completeRun, recordAssistant, transition, reply. An error on *)
(* the way is caught, with what was done by then.                          *)
Answer(m) ==
    /\ turns[m].at = "answering"
    /\ \E t \in Accepted(turns[m]), clock \in Clocks, keep \in Keeps :
          \/ /\ Remembers(AnswerSaved(Memory, m, clock, MaxShortTerm))
             /\ Returns(m, [t EXCEPT !.task = "COMPLETED"], "answer")
          \/ Remembers(AnswerSaved(Memory, m, clock, keep)) /\ Caught(m, t)
          \/ Remembers(Memory) /\ Caught(m, t)
    /\ UNCHANGED <<durable, projects>>

(* No answer: the provider failed, or its routing ended without one, which *)
(* has a reply of its own and may ask for a review.                        *)
NoAnswer(m) ==
    /\ turns[m].at = "answering"
    /\ \/ Caught(m, turns[m])
       \/ /\ turns[m].asks.kind = "chat"
          /\ \E status \in {"FAILED", "NEEDS_REVIEW"} :
                Returns(m, [turns[m] EXCEPT !.run = "FAILED", !.task = status], "terminal")
    /\ UNCHANGED memoryVars

-----------------------------------------------------------------------------
(* Other callers of the MemoryWriter.                                      *)
MemoryWrites ==
    /\ rowid < MaxWrites /\ \A m \in Messages : turns[m].at = "unsent"
    /\ \/ \E w \in {v \in Writes : v.fact <= rowid + 1}, fails \in {"none", "save", "mark", "rollback"},
             old \in {NoRow} \cup {r.id : r \in durable} :
             Write([w EXCEPT !.supersedes = old], fails)
       \/ \E r \in durable, scope \in Writes : Forget(r.id, scope)
    /\ UNCHANGED <<deliveryVars, turns>>

Deliver(m) == DeliveryStep(m) /\ UNCHANGED <<memoryVars, turns>>
(* handleMessageCreate returns.                                            *)
Over(m) ==
    /\ Report(m)
    /\ Turns(m, [NewTurn(None) EXCEPT !.at = "over"])
    /\ UNCHANGED memoryVars
Tick(ch) == TypingTick(ch) /\ UNCHANGED <<memoryVars, turns>>

Handle(m) ==
    \/ HandleFails(m) \/ HandleLocal(m) \/ HandleRegister(m)
    \/ HandleRemember(m) \/ HandleWork(m)

Next ==
    \/ \E m \in Messages :
          \/ MessageCreate(m) \/ TypingShown(m) \/ Handle(m) \/ Answer(m) \/ NoAnswer(m) \/ Deliver(m) \/ Over(m)
    \/ \E ch \in Channels : Tick(ch)
    \/ MemoryWrites

Spec == Init /\ [][Next]_vars

-----------------------------------------------------------------------------
Rows(context) == {context.transcript[i].row : i \in DOMAIN context.transcript}
Spent(context) ==
    context.background + Cardinality(context.recall)
        + Total([i \in DOMAIN context.transcript |-> context.transcript[i].size])
LeastSpent(context) ==
    context.background
        + Total([i \in DOMAIN context.transcript |-> Min({Floor, context.transcript[i].size})])

(* The provider sees the conversation it is in: rows of its own session    *)
(* said before the current message and in that order, never the message    *)
(* itself, which the prompt has already; no more than RecentLimit; and no  *)
(* more than the budget, which only the floors may exceed. The latest user *)
(* message is there and so is the latest answer, unless more rows than the *)
(* candidates have come after it.                                          *)
OwnContext ==
    \A m \in Messages : turns[m].context # None =>
        LET context == turns[m].context
            before == turns[m].before
            last(role) == {i \in DOMAIN before :
                              /\ before[i].role = role
                              /\ \A j \in DOMAIN before : before[j].role = role => j <= i
                              /\ Len(before) - i < CandidateLimit}
        IN  /\ context.task = m /\ Rows(context) \subseteq ToSet(before)
            /\ \A i, j \in DOMAIN context.transcript :
                  i < j => context.transcript[i].row.id < context.transcript[j].row.id
            /\ Len(context.transcript) <= RecentLimit
            /\ Spent(context) <= Max({TokenBudget, LeastSpent(context)})
            /\ {before[i] : i \in last("user") \cup last("assistant")} \subseteq Rows(context)

(* The reply and the records agree: an answer is given exactly when the    *)
(* task and its run are stored as done and the session remembers it, a     *)
(* failure is stored as one, and "stored" is said of a fact that is. A     *)
(* later failure undoes an earlier success, and the failure of undoing is  *)
(* only ever told in the sanitized words.                                  *)
TrueReplies ==
    \A m \in Messages :
        LET t == turns[m]
        IN  /\ t.outcome = "answer" <=> t.task = "COMPLETED"
            /\ t.outcome = "answer" =>
                  t.run = "SUCCEEDED" /\ \E i \in DOMAIN said[SessionFor(m)] :
                      said[SessionFor(m)][i].by = m /\ said[SessionFor(m)][i].role = "assistant"
            /\ t.outcome \in {"error", "terminal"} =>
                  t.run = "FAILED" /\ t.task \in {"FAILED", "NEEDS_REVIEW"}
            /\ t.outcome = "stored" =>
                  \E r \in durable : r.fact = t.asks.fact /\ r.actor = AuthorOf[m]
                                       /\ r.session = SessionFor(m)

=============================================================================
