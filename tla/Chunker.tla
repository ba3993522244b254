------------------------------ MODULE Chunker ------------------------------
(***************************************************************************)
(* Splitting a parsed document into chunks: Split of                       *)
(* internal/rag/chunker/chunker.go with all of its templates.              *)
(*                                                                         *)
(* A document is a sequence of blocks.  A block's text is a sequence of    *)
(* paragraphs (lines of a table: header, separator, rows), a paragraph a   *)
(* sequence of sentences, a sentence the number of its tokens, which may   *)
(* be 0: a rule, punctuation.  A sentence is named <<block, paragraph,     *)
(* sentence>> and token counts add up, for what joins sentences has none.  *)
(*                                                                         *)
(* A chunk has the sentences of its `own`; what it repeats of an earlier   *)
(* chunk is `lap`, the tokens of an overlap, or `head`, the header of a    *)
(* table.                                                                  *)
(***************************************************************************)
EXTENDS Integers, Sequences, FiniteSets, SequencesExt

CONSTANTS
    Methods,        \* templates that may be asked for
    TokenNum,       \* cfg.TokenNum
    OverlapPercent, \* cfg.OverlapPercent
    Kinds,          \* blocks that the parsers may produce
    MaxBlocks       \* bound: blocks of a document

ASSUME ConfigAssumption == TokenNum \in Int /\ OverlapPercent \in Int /\ MaxBlocks \in Nat
ASSUME KindsAssumption ==
    \A b \in Kinds :
      /\ b.type \in {"title", "text", "table", "list", "image"}
      /\ b.level \in Int
      /\ b.says \in {"question", "answer", "other"}
      /\ b.text \in Seq(Seq(Nat)) /\ b.text # <<>>

\* No parser makes a block without text.  A line of a table counts when it is
\* empty, by a line break in a cell: it is a sentence of no tokens.
ASSUME TextsAssumption ==
    \A b \in Kinds :
      /\ \E j \in DOMAIN b.text : b.text[j] # <<>>
      /\ b.type = "table" => \A j \in DOMAIN b.text : b.text[j] # <<>>

VARIABLES
    doc,     \* the blocks
    method,  \* the template asked for
    phase,   \* "pairs" of chunkQA, "split", or "end"
    at,      \* blocks read
    todo,    \* pieces of the last block that are not in a chunk or in cur
    sec,     \* sectionBuffer.headings: titles by their block, 0 for ""
    cur,     \* the open chunk
    mark,    \* headingsAtStart, startPage and startOffset: [headings, start]
    pair,    \* chunkQA: q and a as texts, matched, and the pairs so far
    chunks   \* the result

chunkVars == <<doc, method, phase, at, todo, sec, cur, mark, pair, chunks>>

-----------------------------------------------------------------------------
(* Configuration and token counts *)

MaxTokens == IF TokenNum <= 0 THEN 256 ELSE TokenNum

Overlap == IF OverlapPercent < 0 THEN 0 ELSE IF OverlapPercent > 30 THEN 30 ELSE OverlapPercent

\* Characters of an overlap: integer division.
TailRunes == (MaxTokens * Overlap) \div 100

\* A Chinese character is a token, and so is each pair of neighbours.
MaxLap == IF TailRunes = 0 THEN 0 ELSE 2 * TailRunes - 1

TokenCount(s) ==
    LET sum[k \in 0..Len(s)] ==
          IF k = 0 THEN 0 ELSE sum[k - 1] + doc[s[k][1]].text[s[k][2]][s[k][3]]
    IN  sum[Len(s)]

\* The text of a block with its sentences named.
TextOf(b) ==
    [j \in DOMAIN doc[b].text |-> [k \in DOMAIN doc[b].text[j] |-> <<b, j, k>>]]

-----------------------------------------------------------------------------
(* splitPiece and splitTable *)

NoPieces == [out |-> <<>>, open |-> <<>>, tokens |-> 0]

\* The open piece is done.
Done(p) == IF p.tokens > 0 THEN [NoPieces EXCEPT !.out = Append(p.out, p.open)] ELSE p

\* Text goes into the open piece if it fits.
AddText(p, u) ==
    LET q == IF p.tokens + TokenCount(u) > MaxTokens THEN Done(p) ELSE p
    IN  [q EXCEPT !.open = @ \o u, !.tokens = @ + TokenCount(u)]

\* A paragraph that is too long begins a piece and is added by sentences.
AddParagraph(p, para) ==
    LET added[k \in 0..Len(para)] ==
          IF k = 0 THEN Done(p) ELSE AddText(added[k - 1], <<para[k]>>)
    IN  IF TokenCount(para) <= MaxTokens THEN AddText(p, para) ELSE added[Len(para)]

\* All paragraphs, one after the other.
Packed(text) ==
    LET packed[k \in 0..Len(text)] ==
          IF k = 0 THEN NoPieces ELSE AddParagraph(packed[k - 1], text[k])
    IN  packed[Len(text)]

\* Mutant: the piece that is still open at the end is forgotten.
SplitLosing(text) ==
    IF TokenCount(FlattenSeq(text)) <= MaxTokens THEN <<FlattenSeq(text)>>
    ELSE Packed(text).out

SplitPiece(text) ==
    IF TokenCount(FlattenSeq(text)) <= MaxTokens THEN <<FlattenSeq(text)>>
    ELSE IF Packed(text).open = <<>> THEN Packed(text).out
    ELSE Append(Packed(text).out, Packed(text).open)

Piece(own, head) == [own |-> own, head |-> head]

\* A row goes to those before it if they fit with the header.
AddRow(p, row, header) ==
    IF p.tokens + TokenCount(row) > MaxTokens /\ p.open # <<>>
    THEN [out |-> Append(p.out, p.open), open |-> row, tokens |-> TokenCount(header) + TokenCount(row)]
    ELSE [p EXCEPT !.open = @ \o row, !.tokens = @ + TokenCount(row)]

\* Every piece has the header, the first one as its own.
SplitTable(text) ==
    LET header == text[1] \o text[2]
        cut[k \in 0..(Len(text) - 2)] ==
          IF k = 0 THEN [NoPieces EXCEPT !.tokens = TokenCount(header)]
          ELSE AddRow(cut[k - 1], text[k + 2], header)
        last == cut[Len(text) - 2]
        parts == Append(last.out, last.open)
        whole == SplitPiece(text)
    IN  IF Len(text) < 3 THEN [i \in DOMAIN whole |-> Piece(whole[i], <<>>)]
        ELSE [i \in DOMAIN parts |->
               IF i = 1 THEN Piece(header \o parts[1], <<>>) ELSE Piece(parts[i], header)]

-----------------------------------------------------------------------------
(* Sections and the open chunk *)

Clamp(level) == IF level < 1 THEN 1 ELSE IF level > 6 THEN 6 ELSE level

\* push: deeper titles go, missing levels are empty.
PushTitle(s, level, b) ==
    [i \in 1..level |-> IF i = level THEN b ELSE IF i <= Len(s) THEN s[i] ELSE 0]

\* path: the titles that are not empty, by level; their order is that of the blocks.
Path(s) == {s[i] : i \in DOMAIN s} \ {0}

NoLap == -1
Empty == [own |-> <<>>, lap |-> NoLap, tokens |-> 0]

Lapped(lap) == IF lap = NoLap THEN 0 ELSE lap

\* flush: the open chunk goes to the others, with the titles and the position
\* that were noted when it began.
Flushed ==
    IF cur.own = <<>> THEN chunks
    ELSE Append(chunks, [own |-> cur.own, lap |-> cur.lap, head |-> <<>>, start |-> mark.start,
                         tokens |-> TokenCount(cur.own) + Lapped(cur.lap), headings |-> mark.headings])

Alone(piece, headings, b) ==
    [own |-> piece.own, lap |-> NoLap, head |-> piece.head, start |-> b,
     tokens |-> TokenCount(piece.head) + TokenCount(piece.own), headings |-> headings]

AllAlone(pieces, headings, b) == [i \in DOMAIN pieces |-> Alone(pieces[i], headings, b)]

-----------------------------------------------------------------------------
Docs == UNION {[1..n -> Kinds] : n \in 1..MaxBlocks}
NoPair == [q |-> <<>>, a |-> <<>>, matched |-> FALSE, all |-> <<>>]

ChunkInit ==
    /\ doc \in Docs
    /\ method \in Methods
    /\ phase = IF method = "qa" THEN "pairs" ELSE "split"
    /\ at = 0
    /\ todo = <<>>
    /\ sec = <<>>
    /\ cur = Empty
    /\ mark = [headings |-> {}, start |-> 0]
    /\ pair = NoPair
    /\ chunks = <<>>

\* Split: every template that is not named here is the naive one.
Naive == phase = "split" /\ method \notin {"table", "one"}

\* The next block, when the last one is in.
NextIs(types) ==
    /\ todo = <<>>
    /\ at < Len(doc)
    /\ doc[at + 1].type \in types
    /\ at' = at + 1

Big(b) == doc[b].type = "table" /\ TokenCount(FlattenSeq(TextOf(b))) > MaxTokens
Single(b) == method = "resume" /\ doc[b].type = "list"

\* A title closes the open chunk.
Title ==
    LET b == at + 1
        s == PushTitle(sec, Clamp(doc[b].level), b)
    IN  /\ Naive
        /\ NextIs({"title"})
        /\ chunks' = Flushed
        /\ cur' = Empty
        /\ sec' = s
        /\ mark' = [headings |-> Path(s), start |-> b]
        /\ UNCHANGED <<doc, method, phase, todo, pair>>

\* No parser makes blocks of images today; the templates pass over them.
Image ==
    /\ Naive
    /\ NextIs({"image"})
    /\ UNCHANGED <<doc, method, phase, todo, sec, cur, mark, pair, chunks>>

\* An item of a list in a resume is a chunk of its own.
Item ==
    LET b == at + 1
    IN  /\ Naive
        /\ NextIs({"list"})
        /\ Single(b)
        /\ chunks' = Append(Flushed, Alone(Piece(FlattenSeq(TextOf(b)), <<>>), Path(sec), b))
        /\ cur' = Empty
        /\ mark' = [mark EXCEPT !.headings = Path(sec)]
        /\ UNCHANGED <<doc, method, phase, todo, sec, pair>>

\* Mutant: the beginning is noted again whatever the open chunk has.
MarkAnew(b) == [headings |-> Path(sec), start |-> b]

\* Where the open chunk begins is noted again while it has no tokens.
Marked(b) == IF cur.tokens = 0 THEN [headings |-> Path(sec), start |-> b] ELSE mark

\* A table that is too long is split by rows.
BigTable ==
    LET b == at + 1
        noted == Marked(b)
        last == IF cur.own = <<>> THEN <<>>
                ELSE <<[own |-> cur.own, lap |-> cur.lap, head |-> <<>>, start |-> noted.start,
                        tokens |-> TokenCount(cur.own) + Lapped(cur.lap), headings |-> noted.headings]>>
    IN  /\ Naive
        /\ NextIs({"table"})
        /\ Big(b)
        /\ chunks' = chunks \o last \o AllAlone(SplitTable(TextOf(b)), Path(sec), b)
        /\ cur' = Empty
        /\ mark' = [noted EXCEPT !.headings = Path(sec)]
        /\ UNCHANGED <<doc, method, phase, todo, sec, pair>>

\* Anything else is split into pieces.
Body ==
    LET b == at + 1
    IN  /\ Naive
        /\ NextIs({"text", "list", "table"})
        /\ ~Big(b) /\ ~Single(b)
        /\ todo' = SplitPiece(TextOf(b))
        /\ mark' = Marked(b)
        /\ UNCHANGED <<doc, method, phase, sec, cur, pair, chunks>>

\* tailTokens: no tail, or the end of the text, cut by characters and at a
\* line: up to MaxLap tokens, and none that the text does not have.
Tails ==
    {NoLap} \cup {n \in 0..MaxLap : TailRunes > 0 /\ n <= TokenCount(cur.own) + Lapped(cur.lap)}

\* Mutant: the piece itself is not counted.
FitsSoFar(p) == cur.tokens <= MaxTokens

Fits(p) == cur.tokens = 0 \/ cur.tokens + TokenCount(p) <= MaxTokens

\* A piece goes into the open chunk.  The newline before it counts one token.
Join ==
    LET p == Head(todo)
        newline == IF cur = Empty THEN 0 ELSE 1
    IN  /\ todo # <<>>
        /\ Fits(p)
        /\ cur' = [cur EXCEPT !.own = @ \o p, !.tokens = @ + newline + TokenCount(p)]
        /\ todo' = Tail(todo)
        /\ UNCHANGED <<doc, method, phase, at, sec, mark, pair, chunks>>

\* A piece that does not fit begins a chunk, after the overlap.
Overflow ==
    LET p == Head(todo)
    IN  /\ todo # <<>>
        /\ ~Fits(p)
        /\ chunks' = Flushed
        /\ \E lap \in Tails :
             cur' = [own |-> p, lap |-> lap,
                     tokens |-> TokenCount(p) + IF lap = NoLap THEN 0 ELSE lap + 1]
        /\ mark' = [headings |-> Path(sec), start |-> at]
        /\ todo' = Tail(todo)
        /\ UNCHANGED <<doc, method, phase, at, sec, pair>>

\* The last flush.
EndNaive ==
    /\ Naive
    /\ todo = <<>> /\ at = Len(doc)
    /\ chunks' = Flushed
    /\ cur' = Empty
    /\ phase' = "end"
    /\ UNCHANGED <<doc, method, at, todo, sec, mark, pair>>

-----------------------------------------------------------------------------
(* chunkTableOnly, chunkOne *)

TableOnly ==
    LET b == at + 1
    IN  /\ method = "table"
        /\ NextIs({"title", "text", "table", "list", "image"})
        /\ chunks' = IF doc[b].type # "table" THEN chunks
                     ELSE chunks \o AllAlone(SplitTable(TextOf(b)), {}, b)
        /\ UNCHANGED <<doc, method, phase, todo, sec, cur, mark, pair>>

\* All of the text, titles too.
One ==
    LET Text(b) == IF doc[b].type = "image" THEN <<>> ELSE FlattenSeq(TextOf(b))
        text == FlattenSeq([b \in DOMAIN doc |-> Text(b)])
    IN  /\ method = "one" /\ phase = "split"
        /\ chunks' = IF text = <<>> THEN <<>> ELSE <<Alone(Piece(text, <<>>), {}, 0)>>
        /\ phase' = "end"
        /\ at' = Len(doc)
        /\ UNCHANGED <<doc, method, todo, sec, cur, mark, pair>>

-----------------------------------------------------------------------------
(* chunkQA *)

\* Two texts with no newline between them: the last paragraph goes on.
Glue(t, u) ==
    IF t = <<>> \/ u = <<>> THEN t \o u
    ELSE Front(t) \o <<Last(t) \o Head(u)>> \o Tail(u)

\* flushPair: a question and what was said after it; the answers that come
\* before the first question are a pair without one.
PairFlushed ==
    IF pair.q = <<>> /\ pair.a = <<>> THEN pair.all ELSE Append(pair.all, pair.q \o pair.a)

QAQuestion ==
    /\ phase = "pairs"
    /\ NextIs({"title", "text", "list", "image"})
    /\ doc[at + 1].says = "question"
    /\ pair' = [q |-> TextOf(at + 1), a |-> <<>>, matched |-> TRUE, all |-> PairFlushed]
    /\ UNCHANGED <<doc, method, phase, todo, sec, cur, mark, chunks>>

\* An answer goes to the pair, and once there was a question all the rest does.
QAAnswer ==
    LET b == at + 1
    IN  /\ phase = "pairs"
        /\ NextIs({"title", "text", "list", "image"})
        /\ doc[b].says # "question"
        /\ pair' = IF doc[b].says = "answer" THEN [pair EXCEPT !.a = Glue(@, TextOf(b))]
                   ELSE IF pair.matched THEN [pair EXCEPT !.a = @ \o TextOf(b)]
                   ELSE pair
        /\ UNCHANGED <<doc, method, phase, todo, sec, cur, mark, chunks>>

SkipTable ==
    /\ phase = "pairs"
    /\ NextIs({"table"})
    /\ UNCHANGED <<doc, method, phase, todo, sec, cur, mark, pair, chunks>>

\* Pairs of more than two chunks' tokens are split; a document without a
\* question is read again by the naive template.
EndQA ==
    LET Parts(t) == IF TokenCount(FlattenSeq(t)) <= 2 * MaxTokens THEN <<FlattenSeq(t)>> ELSE SplitPiece(t)
        Chunks(t) == [i \in DOMAIN Parts(t) |-> Alone(Piece(Parts(t)[i], <<>>), {}, 0)]
        pairs == PairFlushed
    IN  /\ phase = "pairs"
        /\ at = Len(doc)
        /\ IF ~pair.matched \/ pairs = <<>>
           THEN phase' = "split" /\ at' = 0 /\ chunks' = <<>>
           ELSE /\ phase' = "end" /\ at' = at
                /\ chunks' = FlattenSeq([i \in DOMAIN pairs |-> Chunks(pairs[i])])
        /\ UNCHANGED <<doc, method, todo, sec, cur, mark, pair>>

ChunkNext ==
    \/ Title \/ Image \/ Item \/ BigTable \/ Body
    \/ Join \/ Overflow \/ EndNaive
    \/ TableOnly \/ One
    \/ QAQuestion \/ QAAnswer \/ SkipTable \/ EndQA

ChunkSpec == ChunkInit /\ [][ChunkNext]_chunkVars

-----------------------------------------------------------------------------
TextType == Seq(Seq(Seq(Nat)))
ChunkOK(c) ==
    /\ c.own # <<>> /\ c.start \in 0..Len(doc) /\ c.tokens \in Nat
    /\ c.lap \in {NoLap} \cup 0..MaxLap /\ c.headings \subseteq 1..Len(doc)

ChunkTypeOK ==
    /\ doc \in Docs /\ method \in Methods /\ phase \in {"pairs", "split", "end"}
    /\ at \in 0..Len(doc)
    /\ todo \in Seq(Seq(Seq(Nat)))
    /\ Len(sec) <= 6 /\ \A i \in DOMAIN sec : sec[i] \in 0..Len(doc)
    /\ cur.own \in Seq(Seq(Nat)) /\ cur.tokens \in Nat /\ cur.lap \in {NoLap} \cup 0..MaxLap
    /\ mark.headings \subseteq 1..Len(doc) /\ mark.start \in 0..Len(doc)
    /\ pair.q \in TextType /\ pair.a \in TextType /\ pair.matched \in BOOLEAN
    /\ \A i \in DOMAIN chunks : ChunkOK(chunks[i])

\* The template the chunks come from.
Template == IF method = "qa" /\ ~pair.matched THEN "naive" ELSE method
BySection == Template \notin {"table", "one", "qa"}

\* What a template is there to keep.  Of a document of questions and answers
\* that leaves tables out and what comes before the first of them.
Due(b) ==
    CASE Template = "table" -> doc[b].type = "table"
      [] Template = "one" -> doc[b].type # "image"
      [] Template = "qa" -> /\ doc[b].type # "table"
                            /\ \/ doc[b].says = "answer"
                               \/ \E q \in 1..b : doc[q].says = "question" /\ doc[q].type # "table"
      [] OTHER -> doc[b].type \notin {"title", "image"}

\* No sentence is lost, repeated as new, or moved, whatever is cut where: the
\* chunks' own text, with what is not in a chunk yet, is that of the blocks
\* read so far.
NothingLost ==
    phase # "pairs" =>
        FlattenSeq([i \in DOMAIN chunks |-> chunks[i].own]) \o cur.own \o FlattenSeq(todo)
        = FlattenSeq([b \in 1..at |-> IF Due(b) THEN FlattenSeq(TextOf(b)) ELSE <<>>])

\* The titles over a block: those that no later title of their level or a
\* higher one has closed.
Ancestors(b) ==
    {t \in 1..(b - 1) :
       /\ doc[t].type = "title"
       /\ \A u \in (t + 1)..(b - 1) :
            doc[u].type = "title" => Clamp(doc[u].level) > Clamp(doc[t].level)}

\* A chunk carries the titles that are over each of its sentences: it never
\* reaches into another section, and the titles noted at its beginning are
\* not those of an earlier or a later one.
HeadingsAreAncestors ==
    BySection =>
        \A i \in DOMAIN chunks : \A k \in DOMAIN chunks[i].own :
            chunks[i].headings = Ancestors(chunks[i].own[k][1])

\* The position of a chunk is that of the block where its text begins, or of
\* a later one when all before it has no token.
StartsWhereItSays ==
    BySection =>
        \A i \in DOMAIN chunks :
            /\ chunks[i].own[1][1] <= chunks[i].start
            /\ \A k \in DOMAIN chunks[i].own :
                 chunks[i].own[k][1] < chunks[i].start => TokenCount(<<chunks[i].own[k]>>) = 0

\* A row of a table is never without the header.
RowsKeepHeader ==
    \A i \in DOMAIN chunks : \A k \in DOMAIN chunks[i].own :
        LET id == chunks[i].own[k]
            c == chunks[i]
        IN  doc[id[1]].type = "table" /\ id[2] > 2 =>
              \A h \in DOMAIN doc[id[1]].text[1] :
                Contains(c.own, <<id[1], 1, h>>) \/ Contains(c.head, <<id[1], 1, h>>)

Rows(c) == {<<c.own[k][1], c.own[k][2]>> : k \in {n \in DOMAIN c.own : c.own[n][2] > 2}}

\* A chunk has no more tokens than asked for and those of the overlap, unless
\* one sentence or one row has; a pair may have twice as many; the chunks of
\* "one" and the items of a resume are never cut.
ChunksFit ==
    \A i \in DOMAIN chunks :
        LET c == chunks[i]
            b == c.own[1][1]
        IN  \/ c.tokens <= MaxTokens + MaxLap
            \/ \E k \in DOMAIN c.own :
                 TokenCount(<<c.own[k]>>) > MaxTokens /\ c.tokens <= MaxLap + TokenCount(<<c.own[k]>>)
            \/ doc[b].type = "table" /\ Cardinality(Rows(c)) = 1 /\ c.lap = NoLap
            \/ Template = "qa" /\ c.tokens <= 2 * MaxTokens
            \/ Template = "one"
            \/ Template = "resume" /\ doc[b].type = "list" /\ \A k \in DOMAIN c.own : c.own[k][1] = b

\* A question and all that was said after it are one chunk, with nothing of
\* another, if they fit.
PairsWhole ==
    Template = "qa" /\ phase = "end" =>
        \A q \in DOMAIN doc :
            LET Opens(b) == doc[b].says = "question" /\ doc[b].type # "table"
                said == {b \in q..Len(doc) : doc[b].type # "table" /\ \A u \in (q + 1)..b : ~Opens(u)}
                text == FlattenSeq([b \in DOMAIN doc |->
                            IF b \in said THEN FlattenSeq(TextOf(b)) ELSE <<>>])
            IN  Opens(q) /\ TokenCount(text) <= 2 * MaxTokens =>
                    \E i \in DOMAIN chunks : chunks[i].own = text

\* What flush notes early and uses late is right: each chunk carries the titles
\* over its text and the position where that begins, after any number of
\* overflows, titles and tables since.
ChunksArePlaced == HeadingsAreAncestors /\ StartsWhereItSays

\* However a text is cut, its pieces keep within the limit as far as the cut
\* can reach, rows keep their header, and a question its answer.
CutsKeep == ChunksFit /\ RowsKeepHeader /\ PairsWhole

=============================================================================
