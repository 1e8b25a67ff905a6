----------------------------- MODULE ChatMemory -----------------------------
(* What the assistant remembers, and the context of an answer: MemoryManager *)
(* and MemoryWriter over the memories table, the retriever, and the          *)
(* ContextBuilder's bounded selection. sqlite is synchronous, so one call    *)
(* is one step; a statement of it may fail.                                  *)
(* Sizes are in tokens, scaled down with every limit. Relevance scores are   *)
(* not computed: whatever they are, some choice allowed here follows.        *)
EXTENDS Integers, SequencesExt

CONSTANTS
    Sessions,
    Authors,         \* people durable memories may belong to
    NoOne,           \* no actor in a durable scope
    MaxShortTerm,    \* MAX_SESSION_SHORT_TERM
    CandidateLimit,  \* RANKING_CANDIDATE_LIMIT
    RecentLimit,     \* RECENT_LIMIT
    RecallLimit,     \* DURABLE_RECALL_LIMIT
    TokenBudget,     \* maxTokens
    Tokens,          \* size of a "user", "assistant" or "project" text
    Floor,           \* minimumCharactersPerEntry
    Clocks           \* what the wall clock may show: it can step back

(* The limits of the code are 30, 20, 10 and 10: no more than this is used *)
(* of them.                                                                *)
ASSUME MemoryAssumption ==
    /\ MaxShortTerm \in Nat /\ CandidateLimit \in Nat /\ CandidateLimit < MaxShortTerm
    /\ RecentLimit \in Nat /\ RecallLimit \in Nat
    /\ TokenBudget \in Nat /\ Floor \in Nat /\ Clocks \subseteq Int
    /\ Tokens \in [{"user", "assistant", "project"} -> Nat]

VARIABLES
    memories,        \* SHORT_TERM rows
    durable,         \* LONG_TERM rows
    projects,        \* sessions with an active project and its PROJECT memory
    rowid,           \* rows inserted so far
    said             \* every message and answer ever recorded, per session

memoryVars == <<memories, durable, projects, rowid, said>>

NoRow == 0

-----------------------------------------------------------------------------
(* SHORT_TERM.                                                             *)
(* By creation time, then by insertion.                                    *)
Earlier(r, s) == r.at < s.at \/ (r.at = s.at /\ r.id < s.id)

(* ORDER BY created_at, rowid.                                             *)
InOrder(S) ==
    [i \in 1..Cardinality(S) |-> CHOOSE r \in S : Cardinality({q \in S : Earlier(q, r)}) = i - 1]

Newest(rows, n) == SubSeq(rows, Max({1, Len(rows) - n + 1}), Len(rows))

NextTimestampSlip(rows, clock) == clock   \* slip: the clock as it is
(* nextPersistenceTimestamp: after everything the session has stored.      *)
NextTimestamp(rows, clock) == Max({clock} \cup {rows[i].at + 1 : i \in DOMAIN rows})

(* pruneSession deletes oldest first; it may fail with `keep` rows left.   *)
Pruned(rows, keep) == Newest(rows, keep)

(* Rows to which nothing or more has been saved since the step began.      *)
Memory == [rows |-> memories, id |-> rowid, said |-> said]
Remembers(mem) == memories' = mem.rows /\ rowid' = mem.id /\ said' = mem.said

FindByScope(rows, s) == InOrder({r \in rows : r.session = s})

(* saveShortTerm: read, saved after all of it, pruned.                     *)
Recorded(mem, s, role, by, clock, keep) ==
    LET rows == FindByScope(mem.rows, s)
        row == [id |-> mem.id + 1, session |-> s, role |-> role, by |-> by,
                at |-> NextTimestamp(rows, clock)]
        kept == Pruned(InOrder(ToSet(rows) \cup {row}), keep)
    IN  [rows |-> {r \in mem.rows : r.session # s} \cup ToSet(kept), id |-> row.id,
         said |-> [mem.said EXCEPT ![s] = Append(@, row)]]

-----------------------------------------------------------------------------
(* LONG_TERM.                                                              *)
SameScope(r, c) == r.session = c.session /\ r.actor = c.actor
Live(r) == r.supersededBy = NoRow

DuplicateOf(c) == {r \in durable : SameScope(r, c) /\ r.fact = c.fact}

(* validateSupersession: same scope, and not superseded already.           *)
Supersedable(c) == {r \in durable : r.id = c.supersedes /\ SameScope(r, c) /\ Live(r)}

(* promote: a secret is refused, a duplicate found, a new version saved    *)
(* and the old one marked. Saving, marking and the rollback may each fail. *)
Decision(c) ==
    CASE c.secret -> "REJECTED"
      [] ~c.secret /\ DuplicateOf(c) # {} -> "DUPLICATE"
      [] OTHER -> IF c.supersedes # NoRow /\ Supersedable(c) = {} THEN "REJECTED" ELSE "PROMOTED"

NewVersion(c) ==
    [id |-> rowid + 1, session |-> c.session, actor |-> c.actor, fact |-> c.fact,
     supersedes |-> c.supersedes, supersededBy |-> NoRow]

(* fails: nothing, "save", "mark" or "rollback", the first call to fail.   *)
Written(c, fails) ==
    LET with == durable \cup {NewVersion(c)}
    IN  CASE fails \in {"save", "mark"} -> durable
          [] fails = "rollback" -> with
          [] OTHER -> {IF r.id = c.supersedes THEN [r EXCEPT !.supersededBy = rowid + 1] ELSE r : r \in with}

Promote(c, fails) ==
    IF Decision(c) = "PROMOTED"
    THEN /\ fails \in {"none", "save"} \cup (IF c.supersedes = NoRow THEN {} ELSE {"mark", "rollback"})
         /\ durable' = Written(c, fails)
         /\ rowid' = IF durable' = durable THEN rowid ELSE rowid + 1
    ELSE fails = "none" /\ UNCHANGED <<durable, rowid>>

(* forget: an exact id in its exact scope.                                 *)
Forget(id, scope) ==
    /\ durable' = {r \in durable : ~(r.id = id /\ SameScope(r, scope))}
    /\ UNCHANGED <<memories, projects, rowid, said>>

(* The writer is also there for callers other than an explicit message.    *)
Write(c, fails) ==
    /\ Promote(c, fails)
    /\ UNCHANGED <<memories, projects, said>>

-----------------------------------------------------------------------------
(* The context of one answer.                                              *)
(* The newest rows but the current message's.                              *)
Candidates(rows, s, me) ==
    LET newest == Newest(FindByScope(rows, s), CandidateLimit + 1)
    IN  Newest(InOrder({r \in ToSet(newest) : r.id # me}), CandidateLimit)

NewestOf(rows, role) ==
    LET of == {i \in DOMAIN rows : rows[i].role = role}
    IN  IF of = {} THEN {} ELSE {rows[Max(of)]}

WindowsSlip(rows) ==   \* slip: only the score admits
    {w \in SUBSET ToSet(rows) : Cardinality(w) = Min({RecentLimit, Len(rows)})}
(* rankTranscript: the newest user turn and the newest answer are admitted *)
(* before any score counts.                                                *)
Windows(rows) ==
    {w \in SUBSET ToSet(rows) :
        /\ Cardinality(w) = Min({RecentLimit, Len(rows)})
        /\ NewestOf(rows, "user") \cup NewestOf(rows, "assistant") \subseteq w}

Total(sizes) == FoldLeft(LAMBDA sum, size : sum + size, 0, sizes)

(* compressRankedTranscript: the excess is taken from entries, none below  *)
(* the floor and none dropped.                                             *)
Compressions(rows, budget) ==
    LET full == [i \in DOMAIN rows |-> Tokens[rows[i].role]]
        least == [i \in DOMAIN rows |-> Min({Floor, full[i]})]
    IN  {z \in [DOMAIN rows -> 0..Max({Tokens[r] : r \in DOMAIN Tokens})] :
            /\ \A i \in DOMAIN rows : least[i] <= z[i] /\ z[i] <= full[i]
            /\ Total(z) = Max({Total(least), Min({Total(full), budget})})}

Transcript(rows, sizes) == [i \in DOMAIN rows |-> [row |-> rows[i], size |-> sizes[i]]]

(* The newest RecallLimit live rows of the session, whoever they are for.  *)
FindDurableCandidates(s) ==
    LET rows == {r \in durable : r.session = s /\ Live(r)}
    IN  {r \in rows : Cardinality({q \in rows : q.id > r.id}) < RecallLimit}

(* retrieve: of these, only then, the ones of the exact scope, which names *)
(* nobody and, with an active project, a project that no writer names.     *)
Recallable(s) ==
    {r \in FindDurableCandidates(s) : SameScope(r, [session |-> s, actor |-> NoOne]) /\ s \notin projects}

Remainder(spent) == Max({0, TokenBudget - spent})

(* selectDurableRecall: one token each, while some are left.               *)
Recalls(facts, spent) ==
    {g \in SUBSET facts : Cardinality(g) = Min({Remainder(spent), Cardinality(facts)})}

Project(s) == IF s \in projects THEN Min({Tokens["project"], TokenBudget}) ELSE 0

(* build: the project first, then the transcript, then what is left over   *)
(* for recall. Every context the code may build.                           *)
Contexts(stored, s, me) ==
    LET rows == Candidates(stored, s, me)
        left == TokenBudget - Project(s)
    IN  UNION {UNION {
            {[transcript |-> Transcript(InOrder(w), z), project |-> Project(s), recall |-> f] :
                f \in Recalls(Recallable(s), Project(s) + Total(z))}
            : z \in Compressions(InOrder(w), left)} : w \in Windows(rows)}

MemoryInit ==
    /\ memories = {} /\ durable = {} /\ projects = {} /\ rowid = 0
    /\ said = [s \in Sessions |-> << >>]

-----------------------------------------------------------------------------
(* The store holds, of everything ever said in a session, the newest part, *)
(* at least what the limit allows, and gives it back in the order it was   *)
(* said, even though the clock may stand still or step back and turns      *)
(* record between each other's messages.                                   *)
NewestInOrder ==
    \A s \in Sessions :
        LET rows == FindByScope(memories, s)
        IN  /\ IsSuffix(rows, said[s])
            /\ Len(rows) >= Min({MaxShortTerm, Len(said[s])})

=============================================================================
