------------------------------ MODULE Markdown ------------------------------
(***************************************************************************)
(* Parsing a Markdown document into blocks: markdownParser.Parse of        *)
(* internal/rag/parser/text.go.  A line is one of six kinds and named by   *)
(* its number.  A paragraph and a table are collected and flushed by what  *)
(* follows.  Offsets, which the source calls estimates, are left out.      *)
(***************************************************************************)
EXTENDS Integers, Sequences, FiniteSets, SequencesExt

CONSTANT MaxLines \* bound: lines of a document

ASSUME LinesAssumption == MaxLines \in Nat

VARIABLES
    lines,  \* the kinds of the lines read so far
    inCode, \* between two fences
    para,   \* lines of the open paragraph
    table,  \* lines of the open table
    blocks, \* the result: [type, lines]
    parsed  \* Parse has returned

markdownVars == <<lines, inCode, para, table, blocks, parsed>>

LineKinds == {"fence", "title", "row", "item", "blank", "text"}

\* flushPara and flushTable.
Flush(type, open) == IF open = <<>> THEN <<>> ELSE <<[type |-> type, lines |-> open]>>

MarkdownInit ==
    /\ lines = <<>>
    /\ inCode = FALSE
    /\ para = <<>> /\ table = <<>>
    /\ blocks = <<>>
    /\ parsed = FALSE

Line == Len(lines) + 1

ReadLine(kind) ==
    /\ ~parsed
    /\ Len(lines) < MaxLines
    /\ lines' = Append(lines, kind)

\* ``` opens or closes a code block, which is kept in the paragraph.
Fence ==
    /\ ReadLine("fence")
    /\ inCode' = ~inCode
    /\ para' = Append(para, Line)
    /\ UNCHANGED <<table, blocks, parsed>>

\* Mutant: blank lines are not told from those of code.
CodeBreaks ==
    /\ inCode
    /\ \E kind \in LineKinds \ {"fence"} :
         /\ ReadLine(kind)
         /\ para' = IF kind = "blank" THEN <<>> ELSE Append(para, Line)
         /\ blocks' = IF kind = "blank" THEN blocks \o Flush("text", para) ELSE blocks
    /\ UNCHANGED <<inCode, table, parsed>>

Code ==
    /\ inCode
    /\ \E kind \in LineKinds \ {"fence"} : ReadLine(kind)
    /\ para' = Append(para, Line)
    /\ UNCHANGED <<inCode, table, blocks, parsed>>

Heading ==
    /\ ~inCode
    /\ ReadLine("title")
    /\ blocks' = blocks \o Flush("text", para) \o Flush("table", table)
                        \o <<[type |-> "title", lines |-> <<Line>>]>>
    /\ para' = <<>> /\ table' = <<>>
    /\ UNCHANGED <<inCode, parsed>>

Row ==
    /\ ~inCode
    /\ ReadLine("row")
    /\ blocks' = blocks \o Flush("text", para)
    /\ para' = <<>>
    /\ table' = Append(table, Line)
    /\ UNCHANGED <<inCode, parsed>>

\* Mutant: the item comes before the paragraph it follows.
ItemFirst ==
    /\ ~inCode
    /\ ReadLine("item")
    /\ blocks' = blocks \o Flush("table", table)
                        \o <<[type |-> "list", lines |-> <<Line>>]>> \o Flush("text", para)
    /\ table' = <<>> /\ para' = <<>>
    /\ UNCHANGED <<inCode, parsed>>

ListItem ==
    /\ ~inCode
    /\ ReadLine("item")
    /\ blocks' = blocks \o Flush("table", table) \o Flush("text", para)
                        \o <<[type |-> "list", lines |-> <<Line>>]>>
    /\ table' = <<>> /\ para' = <<>>
    /\ UNCHANGED <<inCode, parsed>>

Blank ==
    /\ ~inCode
    /\ ReadLine("blank")
    /\ blocks' = blocks \o Flush("table", table) \o Flush("text", para)
    /\ table' = <<>> /\ para' = <<>>
    /\ UNCHANGED <<inCode, parsed>>

Plain ==
    /\ ~inCode
    /\ ReadLine("text")
    /\ blocks' = blocks \o Flush("table", table)
    /\ table' = <<>>
    /\ para' = Append(para, Line)
    /\ UNCHANGED <<inCode, parsed>>

\* The last line is read.
EndParse ==
    /\ ~parsed
    /\ blocks' = blocks \o Flush("text", para) \o Flush("table", table)
    /\ para' = <<>> /\ table' = <<>>
    /\ parsed' = TRUE
    /\ UNCHANGED <<lines, inCode>>

MarkdownNext ==
    \/ Fence \/ Code \/ Heading \/ Row \/ ListItem \/ Blank \/ Plain \/ EndParse

MarkdownSpec == MarkdownInit /\ [][MarkdownNext]_markdownVars

-----------------------------------------------------------------------------
MarkdownTypeOK ==
    /\ lines \in Seq(LineKinds) /\ Len(lines) <= MaxLines
    /\ inCode \in BOOLEAN /\ parsed \in BOOLEAN
    /\ \A s \in {para, table} \cup {blocks[i].lines : i \in DOMAIN blocks} :
         s \in Seq(DOMAIN lines)
    /\ \A i \in DOMAIN blocks :
         blocks[i].type \in {"title", "text", "table", "list"} /\ blocks[i].lines # <<>>

\* A line of a code block, its closing fence included.
Coded(n) == Cardinality({k \in 1..(n - 1) : lines[k] = "fence"}) % 2 = 1

\* A code block right after a table: the rows wait while the code is read, so
\* that the code may come before them, and rows after it join them.
CodeAfterTable ==
    \E n \in DOMAIN lines :
        n + 1 \in DOMAIN lines /\ lines[n] = "row" /\ ~Coded(n) /\ lines[n + 1] = "fence"

DueLines == {n \in DOMAIN lines : lines[n] # "blank" \/ Coded(n)}

\* The lines of the blocks, and of what is still open.
Kept == [i \in DOMAIN blocks |-> blocks[i].lines] \o <<table, para>>

LinesOf(parts) == UNION {Range(parts[i]) : i \in DOMAIN parts}

\* No line is in two places.
Once(parts) ==
    \A i, j \in DOMAIN parts : \A k \in DOMAIN parts[i], l \in DOMAIN parts[j] :
        parts[i][k] = parts[j][l] => i = j /\ k = l

\* The parts, and the lines in each, come as in the document.
Ordered(parts) ==
    \A i, j \in DOMAIN parts : \A k \in DOMAIN parts[i], l \in DOMAIN parts[j] :
        i < j \/ (i = j /\ k < l) => parts[i][k] < parts[j][l]

\* Every line of the document is in the blocks, or in what is still open, and
\* once, and the blocks follow the document unless code comes after a table.
LinesKept ==
    /\ LinesOf(Kept) = DueLines /\ Once(Kept)
    /\ CodeAfterTable \/ Ordered(Kept)

\* A code block is kept whole as text, whatever its lines look like: from its
\* fence to the closing one, or to the last line, it is in one block.
CodeIsWhole ==
    parsed =>
        \A n \in DOMAIN lines :
            Coded(n) =>
                \E i \in DOMAIN blocks :
                    /\ blocks[i].type = "text"
                    /\ Contains(blocks[i].lines, n - 1) /\ Contains(blocks[i].lines, n)

\* The rows of one table, and no others, are a table: what lies between two
\* rows parts them, unless it is code.
TablesAreRuns ==
    \A i \in DOMAIN blocks :
        blocks[i].type = "table" /\ ~CodeAfterTable =>
            \A k \in 1..(Len(blocks[i].lines) - 1) :
                blocks[i].lines[k + 1] = blocks[i].lines[k] + 1

\* Code blocks and tables come out whole.
BlocksAreWhole == CodeIsWhole /\ TablesAreRuns

=============================================================================
