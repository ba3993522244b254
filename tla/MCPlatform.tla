----------------------------- MODULE MCPlatform -----------------------------
(***************************************************************************)
(* Small instances of Session, Profile, OrderId, RagChat, RagEval, Deploy, *)
(* Chunker and Markdown for TLC.  They share no state: every behaviour     *)
(* runs one of them and leaves the others as they began.                   *)
(***************************************************************************)
EXTENDS Session, Profile, OrderId, RagChat, RagEval, Deploy, Chunker, Markdown, TLC

CONSTANTS p1, n0, n1, b1, b2, t1, t2, r1, r2, s1, s2, s3, f1, f2, o1, o2, o3,
          q1, q2, k1, k2, e1, e2, j1, j2, j3, today, tomorrow

VARIABLE part

\* Midnight is between the seconds 1 and 2.
DayOfSecond == [s \in {0, 1, 2} |-> IF s < 2 THEN today ELSE tomorrow]
EvalSize == [e \in {e1, e2} |-> IF e = e1 THEN 2 ELSE 1]

(* Documents.  With chunks of 4 tokens and 30 percent an overlap is one    *)
(* character.                                                              *)
Block(type, level, says, text) == [type |-> type, level |-> level, says |-> says, text |-> text]
Say(text) == Block("text", 0, "other", text)

\* Titles of two levels and one below the sixth, an image, a rule without
\* tokens, texts that fit, that are cut into paragraphs and sentences, and that
\* cannot be cut, items, a table that fits, one that is cut by rows, one
\* without rows, a question and an answer.
SomeKinds ==
    {Block("title", 1, "other", << <<1>> >>), Block("title", 2, "other", << <<1>> >>),
     Block("title", 7, "other", << <<1>> >>), Block("image", 0, "other", << <<1>> >>),
     Say(<< <<0>> >>), Say(<< <<2>> >>), Say(<< <<1>>, <<3, 2>>, <<1>> >>), Say(<< <<5>>, <<1>> >>),
     Block("list", 0, "other", << <<3, 2>> >>),
     Block("table", 0, "other", << <<1>>, <<0>>, <<1>> >>),
     Block("table", 0, "other", << <<1>>, <<0>>, <<2>>, <<1>>, <<4>> >>),
     Block("table", 0, "other", << <<5>>, <<0>> >>),
     Block("text", 0, "question", << <<2>> >>), Block("text", 0, "answer", << <<3>>, <<3>> >>)}

vars == <<sessionVars, profileVars, orderIdVars, chatVars, evalVars, deployVars, chunkVars,
          markdownVars, part>>

Init ==
    /\ part \in {"session", "profile", "order id", "chat", "eval", "deploy", "chunk", "markdown"}
    /\ ChunkInit
    /\ part # "chunk" => method = "one" /\ doc = <<Say(<< <<2>> >>)>>
    /\ SessionInit /\ ProfileInit
    /\ part # "profile" => \A c \in Saves : save[c].fields = {f1}
    /\ OrderIdInit /\ ChatInit /\ EvalInit /\ DeployInit /\ MarkdownInit
    /\ part # "deploy" => \A j \in Jobs : job[j].action = "build"

Next ==
    /\ UNCHANGED part
    /\ \/ /\ part = "session" /\ SessionNext
          /\ UNCHANGED <<profileVars, orderIdVars, chatVars, evalVars, deployVars,
                         chunkVars, markdownVars>>
       \/ /\ part = "profile" /\ ProfileNext
          /\ UNCHANGED <<sessionVars, orderIdVars, chatVars, evalVars, deployVars,
                         chunkVars, markdownVars>>
       \/ /\ part = "order id" /\ OrderIdNext
          /\ UNCHANGED <<sessionVars, profileVars, chatVars, evalVars, deployVars,
                         chunkVars, markdownVars>>
       \/ /\ part = "chat" /\ ChatNext
          /\ UNCHANGED <<sessionVars, profileVars, orderIdVars, evalVars, deployVars,
                         chunkVars, markdownVars>>
       \/ /\ part = "eval" /\ EvalNext
          /\ UNCHANGED <<sessionVars, profileVars, orderIdVars, chatVars, deployVars,
                         chunkVars, markdownVars>>
       \/ /\ part = "deploy" /\ DeployNext
          /\ UNCHANGED <<sessionVars, profileVars, orderIdVars, chatVars, evalVars,
                         chunkVars, markdownVars>>
       \/ /\ part = "chunk" /\ ChunkNext
          /\ UNCHANGED <<sessionVars, profileVars, orderIdVars, chatVars, evalVars,
                         deployVars, markdownVars>>
       \/ /\ part = "markdown" /\ MarkdownNext
          /\ UNCHANGED <<sessionVars, profileVars, orderIdVars, chatVars, evalVars,
                         deployVars, chunkVars>>

Spec == Init /\ [][Next]_vars

\* The types of the eight modules.
TypeOK ==
    /\ SessionTypeOK /\ ProfileTypeOK /\ OrderIdTypeOK
    /\ ChatTypeOK /\ EvalTypeOK /\ DeployTypeOK
    /\ ChunkTypeOK /\ MarkdownTypeOK

Symmetry == Permutations({t1, t2}) \cup Permutations({r1, r2}) \cup Permutations({j1, j2, j3})

=============================================================================
