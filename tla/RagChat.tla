------------------------------ MODULE RagChat ------------------------------
(***************************************************************************)
(* Ask of internal/rag/chat/service.go with the sessions and chat logs of  *)
(* internal/rag/store/store.go, in one knowledge base: a session is made   *)
(* or read, search and language model answer, the log row is stored, and   *)
(* message_count is set to one more than it was when the session was read, *)
(* before the answer.  Sessions and the base are deleted at any moment.    *)
(***************************************************************************)
EXTENDS Integers, FiniteSets

CONSTANTS
    Chats,        \* rag_session rows that may come to be
    Asks,         \* Ask calls that run at the same time
    MaxAsked,     \* bound: calls in one behaviour
    MaxChatFaults \* bound: failed writes, calls cut off

ASSUME ChatBounds == MaxAsked \in Nat /\ MaxChatFaults \in Nat

VARIABLES
    base,        \* "open" or "gone"
    chat,        \* [Chats -> "new", "open" or "gone"]
    messages,    \* [Chats -> message_count]
    logs,        \* [Chats -> rows of rag_chat_log with the session's id]
    asking,      \* [Asks -> where the call is]
    crossed,     \* observation: sessions two calls were answering at once, or
                 \* that were deleted while a call was
    blotted,     \* observation: sessions a write of which failed
    asked, chatFaults

chatVars == <<base, chat, messages, logs, asking, crossed, blotted, asked, chatFaults>>

NoQuestion == [pc |-> "idle"]
Asking == [pc : {"answer", "log", "count"}, chat : Chats, seen : Nat]

ChatTypeOK ==
    /\ base \in {"open", "gone"}
    /\ chat \in [Chats -> {"new", "open", "gone"}]
    /\ messages \in [Chats -> Nat]
    /\ logs \in [Chats -> Nat]
    /\ asking \in [Asks -> {NoQuestion} \cup Asking]
    /\ crossed \subseteq Chats /\ blotted \subseteq Chats
    /\ asked \in 0..MaxAsked /\ chatFaults \in 0..MaxChatFaults

ChatInit ==
    /\ base = "open"
    /\ chat = [s \in Chats |-> "new"]
    /\ messages = [s \in Chats |-> 0]
    /\ logs = [s \in Chats |-> 0]
    /\ asking = [k \in Asks |-> NoQuestion]
    /\ crossed = {} /\ blotted = {}
    /\ asked = 0 /\ chatFaults = 0

AskingIn(s) == {k \in Asks : asking[k] # NoQuestion /\ asking[k].chat = s}

EndAsk(k) == asking' = [asking EXCEPT ![k] = NoQuestion]

-----------------------------------------------------------------------------
\* sessionId = 0: a new row.  Nobody asks whether the base still exists.
CreateSession(k, s) ==
    /\ asked < MaxAsked
    /\ asking[k] = NoQuestion
    /\ chat[s] = "new"
    /\ chat' = [chat EXCEPT ![s] = "open"]
    /\ asking' = [asking EXCEPT ![k] = [pc |-> "answer", chat |-> s, seen |-> 0]]
    /\ crossed' = IF base = "gone" THEN crossed \cup {s} ELSE crossed
    /\ asked' = asked + 1
    /\ UNCHANGED <<base, messages, logs, blotted, chatFaults>>

\* sessionId > 0: the row is read, with its count.
GetSession(k, s) ==
    /\ asked < MaxAsked
    /\ asking[k] = NoQuestion
    /\ chat[s] = "open"
    /\ asking' = [asking EXCEPT ![k] = [pc |-> "answer", chat |-> s, seen |-> messages[s]]]
    /\ crossed' = IF AskingIn(s) = {} THEN crossed ELSE crossed \cup {s}
    /\ asked' = asked + 1
    /\ UNCHANGED <<base, chat, messages, logs, blotted, chatFaults>>

\* Retrieval finds nothing, the model fails or answers nothing: no log.
AnswerNothing(k) ==
    /\ asking[k].pc = "answer"
    /\ EndAsk(k)
    /\ UNCHANGED <<base, chat, messages, logs, crossed, blotted, asked, chatFaults>>

Answer(k) ==
    /\ asking[k].pc = "answer"
    /\ asking' = [asking EXCEPT ![k].pc = "log"]
    /\ UNCHANGED <<base, chat, messages, logs, crossed, blotted, asked, chatFaults>>

\* The row goes in whether or not its session is still there.
CreateChatLog(k) ==
    /\ asking[k].pc = "log"
    /\ logs' = [logs EXCEPT ![asking[k].chat] = @ + 1]
    /\ asking' = [asking EXCEPT ![k].pc = "count"]
    /\ UNCHANGED <<base, chat, messages, crossed, blotted, asked, chatFaults>>

\* A failed log is only noted, and counted all the same.
FailLog(k) ==
    /\ chatFaults < MaxChatFaults
    /\ asking[k].pc = "log"
    /\ asking' = [asking EXCEPT ![k].pc = "count"]
    /\ blotted' = blotted \cup {asking[k].chat}
    /\ chatFaults' = chatFaults + 1
    /\ UNCHANGED <<base, chat, messages, logs, crossed, asked>>

\* Mutant: question and answer count as two messages.
CountAsked(k) ==
    LET s == asking[k].chat
    IN  /\ asking[k].pc = "count"
        /\ messages' = IF chat[s] = "open" THEN [messages EXCEPT ![s] = asking[k].seen + 2]
                       ELSE messages
        /\ EndAsk(k)
        /\ UNCHANGED <<base, chat, logs, crossed, blotted, asked, chatFaults>>

\* UPDATE rag_session SET message_count: no row, no change.
CountMessage(k) ==
    LET s == asking[k].chat
    IN  /\ asking[k].pc = "count"
        /\ messages' = IF chat[s] = "open" THEN [messages EXCEPT ![s] = asking[k].seen + 1]
                       ELSE messages
        /\ EndAsk(k)
        /\ UNCHANGED <<base, chat, logs, crossed, blotted, asked, chatFaults>>

\* The update fails or the pod goes after the log.
CutCount(k) ==
    /\ chatFaults < MaxChatFaults
    /\ asking[k].pc = "count"
    /\ EndAsk(k)
    /\ blotted' = blotted \cup {asking[k].chat}
    /\ chatFaults' = chatFaults + 1
    /\ UNCHANGED <<base, chat, messages, logs, crossed, asked>>

-----------------------------------------------------------------------------
\* The rows of deleted sessions, and whether calls still answer in them.
Drop(gone) ==
    /\ chat' = [s \in Chats |-> IF s \in gone THEN "gone" ELSE chat[s]]
    /\ messages' = [s \in Chats |-> IF s \in gone THEN 0 ELSE messages[s]]
    /\ crossed' = crossed \cup {s \in gone : AskingIn(s) # {}}

\* One transaction: the logs, then the session.
DeleteSession(s) ==
    /\ chat[s] = "open"
    /\ Drop({s})
    /\ logs' = [logs EXCEPT ![s] = 0]
    /\ UNCHANGED <<base, asking, blotted, asked, chatFaults>>

\* DeleteKB: every log and session of the base.
DeleteChatBase ==
    /\ base = "open"
    /\ base' = "gone"
    /\ Drop({s \in Chats : chat[s] = "open"})
    /\ logs' = [s \in Chats |-> 0]
    /\ UNCHANGED <<asking, blotted, asked, chatFaults>>

Ask(k) ==
    \/ \E s \in Chats : CreateSession(k, s) \/ GetSession(k, s)
    \/ AnswerNothing(k) \/ Answer(k) \/ CreateChatLog(k) \/ FailLog(k)
    \/ CountMessage(k) \/ CutCount(k)

ChatNext ==
    \/ \E k \in Asks : Ask(k)
    \/ \E s \in Chats : DeleteSession(s)
    \/ DeleteChatBase

ChatSpec == ChatInit /\ [][ChatNext]_chatVars

-----------------------------------------------------------------------------
Uncounted(s) == {k \in AskingIn(s) : asking[k].pc = "count"}

\* The count of a session never runs ahead of its stored answers, not even when
\* two questions are answered at once and both start from the same count; and
\* where they did not meet and no write failed it is exact, but for the answer
\* that is just being counted.
CountMatchesLogs ==
    \A s \in Chats : chat[s] = "open" /\ s \notin blotted =>
        /\ messages[s] <= logs[s]
        /\ s \notin crossed => logs[s] = messages[s] + Cardinality(Uncounted(s))

\* A deleted session leaves no answers behind, unless it, or its base, was
\* deleted while an answer was still being made.
LogsNeedSession ==
    \A s \in Chats \ crossed : chat[s] # "open" => logs[s] = 0

\* Sessions, counts and answers tell the same story.
LogsAgree == CountMatchesLogs /\ LogsNeedSession

=============================================================================
