-------------------------- MODULE MessageDelivery --------------------------
(* How a reply reaches the people of a Discord channel: plain text in      *)
(* numbered chunks, a code preview as fenced parts or as one attachment,   *)
(* each message sent only after the one before it, and the typing          *)
(* indicator that runs until a reply is sent. A send may fail, and one     *)
(* that fails may still have been shown.                                   *)
(* Text is a sequence of characters of three kinds, a diff a sequence of   *)
(* lines; both are split by the code's rule at scaled limits.              *)
EXTENDS Integers, SequencesExt

CONSTANTS
    None,
    Messages,        \* inbound messages, each answered by one reply
    ChannelOf,       \* the channel or thread a message came from
    SafeLimit,       \* DISCORD_SAFE_LIMIT
    Reserve,         \* PREVIEW_WRAPPER_RESERVE and the trailer
    PartThreshold,   \* FILE_ATTACHMENT_CHUNK_THRESHOLD
    MaxTicks         \* TYPING_MAX_TICKS

ASSUME DeliveryAssumption ==
    /\ SafeLimit \in Nat \ {0} /\ Reserve \in Nat
    /\ None \notin {"COMPLETE", "SUCCESS_TEXT_COMPLETE",
                    "SUCCESS_ATTACHMENT_COMPLETE", "PARTIAL_TEXT_ATTACHMENT_COMPLETE"}

VARIABLES
    deliveries,      \* the reply being sent for a message, or None
    seen,            \* what the channel shows of that reply, in order
    typing           \* refreshes left to a channel's typing timer, or None

Channels == {ChannelOf[m] : m \in Messages}
deliveryVars == <<deliveries, seen, typing>>

-----------------------------------------------------------------------------
(* Splitting.                                                              *)
(* chunkText cuts at the last newline, else the last space, of the final   *)
(* two fifths of the window, else at its end.                              *)
Cut(rest) ==
    LET at(c) == {i \in 1..SafeLimit : rest[i] = c /\ i > (SafeLimit * 3) \div 5}
    IN  IF at("nl") # {} THEN Max(at("nl"))
        ELSE IF at("sp") # {} THEN Max(at("sp")) ELSE SafeLimit

ChunkText(text) ==
    LET from[n \in 0..Len(text)] ==
            LET rest == SubSeq(text, n + 1, Len(text))
            IN  IF Len(rest) <= SafeLimit THEN IF rest = << >> THEN << >> ELSE <<rest>>
                ELSE <<SubSeq(rest, 1, Cut(rest))>> \o from[n + Cut(rest)]
    IN  from[0]

Size(lines) == FoldLeft(LAMBDA sum, line : sum + line.size, 0, lines)
Budget == SafeLimit - Reserve

SplitSlip(lines) ==   \* slip: the last, unfinished segment is not flushed
    FoldLeft(LAMBDA acc, line :
                 IF acc.current # << >> /\ Size(acc.current) + line.size > Budget
                 THEN [done |-> Append(acc.done, acc.current), current |-> <<line>>]
                 ELSE [acc EXCEPT !.current = Append(@, line)],
             [done |-> << >>, current |-> << >>], lines).done
(* splitCanonicalDiff: whole lines, a new segment when the next line would *)
(* overflow or when a file or hunk starts and the segment is substantial.  *)
Segments(lines) ==
    LET add(acc, line) ==
            IF /\ acc.current # << >>
               /\ \/ Size(acc.current) + line.size > Budget
                  \/ line.starts /\ Size(acc.current) >= (Budget * 3) \div 5
            THEN [done |-> Append(acc.done, acc.current), current |-> <<line>>]
            ELSE [acc EXCEPT !.current = Append(@, line)]
        end == FoldLeft(add, [done |-> << >>, current |-> << >>], lines)
    IN  IF Size(lines) <= Budget THEN <<lines>> ELSE Append(end.done, end.current)

(* planPreviewDelivery: as text unless a line is too long or the parts are *)
(* too many.                                                               *)
AsText(lines) ==
    /\ \A i \in DOMAIN lines : lines[i].size <= Budget
    /\ Len(Segments(lines)) <= PartThreshold

-----------------------------------------------------------------------------
(* A delivery: what is still to be sent and where it stands. The trailer   *)
(* (warning and footer) goes out with the last part, or in the caption.    *)
Texts == Seq({"x", "nl", "sp"}) \ {<< >>}
Diffs == Seq([size : Nat \ {0}, starts : BOOLEAN]) \ {<< >>}

Piece(kind, content, last) == [kind |-> kind, content |-> content, last |-> last]

Outgoing(reply) ==
    IF reply.kind = "text"
    THEN [i \in DOMAIN ChunkText(reply.body) |->
             Piece("chunk", ChunkText(reply.body)[i], i = Len(ChunkText(reply.body)))]
    ELSE LET parts == Segments(reply.body)
         IN  <<Piece("header", << >>, FALSE)>>
             \o [i \in DOMAIN parts |-> Piece("part", parts[i], i = Len(parts))]

(* A channel that cannot be fetched or sent to is skipped.                 *)
NewDelivery(reply, sendable) ==
    LET inFile == reply.kind = "preview" /\ ~AsText(reply.body)
    IN  [reply |-> reply,
         at |-> IF ~sendable THEN "report" ELSE IF inFile THEN "file" ELSE "pieces",
         verdict |-> IF sendable THEN None ELSE "SKIPPED",
         todo |-> IF inFile THEN << >> ELSE Outgoing(reply)]

DeliveryInit ==
    /\ deliveries = [m \in Messages |-> None]
    /\ seen = [m \in Messages |-> << >>]
    /\ typing = [ch \in Channels |-> None]

(* sendMessage stops the typing timer before anything can fail.            *)
Stopped(m) == [typing EXCEPT ![ChannelOf[m]] = None]

SendMessage(m, reply) ==
    /\ \E sendable \in BOOLEAN :
          deliveries' = [deliveries EXCEPT ![m] = NewDelivery(reply, sendable)]
    /\ typing' = Stopped(m)
    /\ UNCHANGED seen

Sending(m) == deliveries[m] # None
At(m, where) == Sending(m) /\ deliveries[m].at = where
Shows(m, piece) == seen' = [seen EXCEPT ![m] = Append(@, piece)]
Becomes(m, d) == deliveries' = [deliveries EXCEPT ![m] = d]
Ended(m, verdict) == [deliveries[m] EXCEPT !.at = "report", !.verdict = verdict]

(* deliverChunks, deliverPreview: the next piece; the first failure stops. *)
PieceSent(m) ==
    LET d == deliveries[m]
        rest == Tail(d.todo)
    IN  IF rest # << >> THEN [d EXCEPT !.todo = rest]
        ELSE [d EXCEPT !.todo = rest, !.at = "report",
                       !.verdict = IF d.reply.kind = "text" THEN "COMPLETE" ELSE "SUCCESS_TEXT_COMPLETE"]

PieceFailed(m) ==
    IF deliveries[m].reply.kind = "text"
    THEN Ended(m, "PARTIAL")
    ELSE [deliveries[m] EXCEPT !.at = "file"]

SendPiece(m) ==
    /\ At(m, "pieces")
    /\ \/ Shows(m, Head(deliveries[m].todo)) /\ Becomes(m, PieceSent(m))
       \/ /\ Shows(m, Head(deliveries[m].todo)) \/ UNCHANGED seen
          /\ Becomes(m, PieceFailed(m))
    /\ UNCHANGED typing

(* sendCompleteAttachment: the whole diff, at once or after a failure.     *)
FileSent(m) ==
    LET d == deliveries[m]
    IN  IF d.todo = << >> THEN Ended(m, "SUCCESS_ATTACHMENT_COMPLETE")
        ELSE Ended(m, IF Len(d.todo) < Len(Segments(d.reply.body))
                      THEN "PARTIAL_TEXT_ATTACHMENT_COMPLETE" ELSE "SUCCESS_ATTACHMENT_COMPLETE")

SendAttachment(m) ==
    /\ At(m, "file")
    /\ LET file == Piece("file", deliveries[m].reply.body, TRUE)
       IN  \/ Shows(m, file) /\ Becomes(m, FileSent(m))
           \/ /\ Shows(m, file) \/ UNCHANGED seen
              /\ Becomes(m, Ended(m, "DELIVERY_FAILED"))
    /\ UNCHANGED typing

(* One best-effort notice of a failure or of the attachment may follow; it *)
(* carries nothing of the reply and is not shown here. The report is       *)
(* logged and nothing of the delivery is kept.                             *)
Report(m) ==
    /\ At(m, "report")
    /\ Becomes(m, None)
    /\ seen' = [seen EXCEPT ![m] = << >>]
    /\ UNCHANGED typing

DeliveryStep(m) == SendPiece(m) \/ SendAttachment(m)

-----------------------------------------------------------------------------
(* Typing.                                                                 *)
StartTyping(m) ==
    /\ typing' = [typing EXCEPT ![ChannelOf[m]] = IF @ = None THEN MaxTicks ELSE @]
    /\ UNCHANGED <<deliveries, seen>>

TypingTick(ch) ==
    /\ typing[ch] # None
    /\ typing' = [typing EXCEPT ![ch] = IF @ = 1 THEN None ELSE @ - 1]
    /\ UNCHANGED <<deliveries, seen>>

-----------------------------------------------------------------------------
(* What the pieces of a kind say, joined.                                  *)
Contents(pieces, kind) ==
    FoldLeft(LAMBDA joined, p : IF p.kind = kind THEN joined \o p.content ELSE joined, << >>, pieces)

(* What a verdict claims the reader has: every character of a text or      *)
(* every line of a diff, in order, the trailer with its last part, or the  *)
(* whole diff in one file. And nothing is shown twice: no piece is sent    *)
(* again after a failure that may have been a lost acknowledgement.        *)
ReaderHasIt ==
    \A m \in Messages : Sending(m) =>
        LET d == deliveries[m]
            body(kind) == Contents(seen[m], kind)
        IN  /\ d.verdict = "COMPLETE" => body("chunk") = d.reply.body
            /\ d.verdict = "SUCCESS_TEXT_COMPLETE" => body("part") = d.reply.body /\ Last(seen[m]).last
            /\ d.verdict \in {"SUCCESS_ATTACHMENT_COMPLETE", "PARTIAL_TEXT_ATTACHMENT_COMPLETE"} =>
                  Piece("file", d.reply.body, TRUE) \in ToSet(seen[m])
            /\ IsPrefix(body(IF d.reply.kind = "text" THEN "chunk" ELSE "part"), d.reply.body)
            /\ Cardinality({i \in DOMAIN seen[m] : seen[m][i].kind = "file"}) <= 1
=============================================================================
