----------------------------- MODULE MCChatTurn -----------------------------
(* Three messages in one channel, where at most two are open at a time.    *)
EXTENDS ChatTurn, TLC

CONSTANTS m1, m2, m3, chA, s1, s2, alice

MCChannelOf == [m \in Messages |-> chA]
MCSessionOf == chA :> s1
MCAuthorOf == [m \in Messages |-> alice]
MCTokens == [user |-> 2, assistant |-> 3, project |-> 1]

Plain == [kind |-> "text", body |-> <<"x">>]
Asked(kind, body) == [kind |-> kind, body |-> body, fact |-> 1, secret |-> FALSE]
Long == [kind |-> "text", body |-> <<"x", "x", "nl", "x", "sp", "x", "x", "x">>]
Line(size, starts) == [size |-> size, starts |-> starts]
Diff(lines) == [kind |-> "preview", body |-> lines]

Chat == Asked("chat", Plain)
Parts == Diff(<<Line(2, TRUE), Line(1, FALSE), Line(1, TRUE), Line(2, FALSE)>>)
OneLongLine == Diff(<<Line(2, TRUE), Line(5, FALSE)>>)

MCInboxes ==
    {m1 :> a @@ m2 :> b @@ m3 :> c :
        <<a, b, c>> \in
            {<<Asked("local", Plain), Asked("local", Plain), Chat>>,
             <<Chat, Chat, None>>,
             <<Asked("remember", Plain), Chat, None>>,
             <<[Asked("remember", Plain) EXCEPT !.secret = TRUE], None, None>>,
             <<Asked("register", Plain), Asked("analysis", Plain), None>>,
             <<Asked("chat", Long), Asked("local", Parts), None>>,
             <<Asked("local", OneLongLine), Chat, None>>}}

MCWrites == {[session |-> s1, actor |-> NoOne, fact |-> f, secret |-> FALSE, supersedes |-> NoRow]
                : f \in 1..3}
=============================================================================
