--------------------------- MODULE MarkdownProofs ---------------------------
(***************************************************************************)
(* Code blocks are kept whole, tables are runs of rows, every line is kept *)
(* once and in order, and no block is without lines, for documents of any  *)
(* length.  All rest on one fact: the flag of the loop agrees with the     *)
(* number of fences that came before.                                      *)
(***************************************************************************)
EXTENDS Markdown, FiniteSetTheorems, TLAPS

Parsed == [type : {"title", "text", "table", "list"}, lines : Seq(Nat)]

Types ==
    /\ lines \in Seq(LineKinds)
    /\ inCode \in BOOLEAN /\ parsed \in BOOLEAN
    /\ para \in Seq(Nat) /\ table \in Seq(Nat)
    /\ blocks \in Seq(Parsed)

\* A line of code and the line before it are together, in the open paragraph
\* or in a block.
Together(n) ==
    \/ Contains(para, n - 1) /\ Contains(para, n)
    \/ \E i \in DOMAIN blocks :
         /\ blocks[i].type = "text"
         /\ Contains(blocks[i].lines, n - 1) /\ Contains(blocks[i].lines, n)

CodeInv ==
    /\ Coded(Line) <=> inCode
    /\ inCode /\ ~parsed => Contains(para, Len(lines))
    /\ \A n \in DOMAIN lines : Coded(n) => Together(n)

IsRun(s) == \A k \in 1..(Len(s) - 1) : s[k + 1] = s[k] + 1

\* Unless code came after a table, the open table ends with the last line.
TableInv ==
    ~CodeAfterTable =>
        /\ IsRun(table)
        /\ \A i \in DOMAIN blocks : blocks[i].type = "table" => IsRun(blocks[i].lines)
        /\ table # <<>> =>
             /\ ~inCode
             /\ Len(lines) > 0
             /\ table[Len(table)] = Len(lines)
             /\ lines[Len(lines)] = "row" /\ ~Coded(Len(lines))

MarkdownInv == Types /\ CodeInv /\ TableInv

-----------------------------------------------------------------------------
(* Reading a line *)

\* What is coded is settled when the line is read; whether the next one is
\* changes with a fence only.
LEMMA ReadLineCoded ==
    ASSUME Types, NEW kind \in LineKinds, ReadLine(kind)
    PROVE  /\ lines' = Append(lines, kind) /\ lines' \in Seq(LineKinds)
           /\ Len(lines') = Len(lines) + 1 /\ Len(lines) \in Nat
           /\ lines'[Len(lines')] = kind
           /\ \A n \in DOMAIN lines : lines'[n] = lines[n]
           /\ \A n \in 1..Line : Coded(n)' <=> Coded(n)
           /\ IF kind = "fence" THEN Coded(Line)' <=> ~Coded(Line) ELSE Coded(Line)' <=> Coded(Line)
<1>1. /\ lines' = Append(lines, kind) /\ lines' \in Seq(LineKinds)
      /\ Len(lines') = Len(lines) + 1 /\ Len(lines) \in Nat
      /\ lines'[Len(lines')] = kind
      /\ \A n \in DOMAIN lines : lines'[n] = lines[n]
    BY DEF ReadLine, Types
<1>2. ASSUME NEW n \in 1..(Len(lines) + 1) PROVE Coded(n)' <=> Coded(n)
  <2>1. {k \in 1..(n - 1) : lines'[k] = "fence"} = {k \in 1..(n - 1) : lines[k] = "fence"}
    <3>1. \A k \in 1..(n - 1) : k \in DOMAIN lines
      BY <1>1 DEF Types
    <3> QED
      BY <1>1, <3>1
  <2> QED
    BY <2>1 DEF Coded
<1> DEFINE F == {k \in 1..Len(lines) : lines[k] = "fence"}
           G == {k \in 1..(Len(lines) + 1) : lines'[k] = "fence"}
<1>3. IsFiniteSet(F) /\ Cardinality(F) \in Nat
  <2>1. IsFiniteSet(1..Len(lines))
    BY <1>1, FS_Interval
  <2>2. IsFiniteSet(F)
    BY <2>1, FS_Subset
  <2> QED
    BY <2>2, FS_CardinalityType
<1>4. /\ Coded(Line) <=> Cardinality(F) % 2 = 1
      /\ Coded(Line)' <=> Cardinality(G) % 2 = 1
  <2>1. 1..(Line - 1) = 1..Len(lines) /\ 1..(Line' - 1) = 1..(Len(lines) + 1)
    BY <1>1 DEF Line
  <2> QED
    BY <2>1 DEF Coded
<1>5. IF kind = "fence" THEN G = F \cup {Len(lines) + 1} ELSE G = F
  <2>1. \A k \in 1..(Len(lines) + 1) : k \in 1..Len(lines) \/ k = Len(lines) + 1
    BY <1>1
  <2>2. \A k \in 1..Len(lines) : lines'[k] = lines[k]
    BY <1>1 DEF Types
  <2> QED
    BY <1>1, <2>1, <2>2
<1>8. \A n \in 1..Line : Coded(n)' <=> Coded(n)
    BY <1>2 DEF Line
<1> HIDE DEF F, G
<1>6. CASE kind = "fence"
  <2>1. Len(lines) + 1 \notin F
    BY <1>1 DEF F
  <2>2. Cardinality(G) = Cardinality(F) + 1
    BY <1>3, <1>5, <1>6, <2>1, FS_AddElement
  <2>3. Cardinality(G) % 2 = 1 <=> Cardinality(F) % 2 # 1
    BY <1>3, <2>2
  <2>4. Coded(Line)' <=> ~Coded(Line)
    BY <1>4, <2>3
  <2> QED
    BY <1>1, <1>6, <1>8, <2>4
<1>7. CASE kind # "fence"
  <2>1. Coded(Line)' <=> Coded(Line)
    BY <1>4, <1>5, <1>7
  <2> QED
    BY <1>1, <1>7, <1>8, <2>1
<1> QED
    BY <1>6, <1>7

\* Code after a table stays so when lines are added, and a fence right after
\* a row makes it so.
LEMMA CodeAfterTableStays ==
    ASSUME Types, NEW kind \in LineKinds, ReadLine(kind)
    PROVE  /\ CodeAfterTable => CodeAfterTable'
           /\ Len(lines) > 0 /\ lines[Len(lines)] = "row" /\ ~Coded(Len(lines)) /\ kind = "fence"
                => CodeAfterTable'
<1>1. /\ lines' \in Seq(LineKinds) /\ Len(lines') = Len(lines) + 1 /\ Len(lines) \in Nat
      /\ lines'[Len(lines')] = kind /\ \A n \in DOMAIN lines : lines'[n] = lines[n]
      /\ DOMAIN lines = 1..Len(lines) /\ DOMAIN lines' = 1..(Len(lines) + 1)
    BY ReadLineCoded DEF Types
<1>2. \A n \in DOMAIN lines : Coded(n)' <=> Coded(n)
    BY <1>1, ReadLineCoded DEF Line
<1>3. CodeAfterTable => CodeAfterTable'
    BY <1>1, <1>2 DEF CodeAfterTable
<1>4. ASSUME Len(lines) > 0, lines[Len(lines)] = "row", ~Coded(Len(lines)), kind = "fence"
      PROVE  CodeAfterTable'
  <2>1. Len(lines) \in DOMAIN lines /\ Len(lines) + 1 \in DOMAIN lines' /\ Len(lines) \in DOMAIN lines'
    BY <1>1, <1>4
  <2>2. lines'[Len(lines)] = "row" /\ lines'[Len(lines) + 1] = "fence"
    BY <1>1, <1>4, <2>1
  <2>3. ASSUME NEW n \in DOMAIN lines, n = Len(lines) PROVE ~Coded(n)'
    BY <1>2, <1>4, <2>3
  <2>4. \E n \in DOMAIN lines : n = Len(lines)
    BY <2>1
  <2> QED
    BY <1>1, <2>1, <2>2, <2>3, <2>4 DEF CodeAfterTable
<1> QED
    BY <1>3, <1>4

-----------------------------------------------------------------------------
(* What is together stays together *)

\* A line that is read comes last, and the others stay where they are.
LEMMA LastOfAppend ==
    ASSUME NEW s \in Seq(Nat), NEW n \in Nat
    PROVE  /\ Append(s, n) \in Seq(Nat)
           /\ Contains(Append(s, n), n)
           /\ \A m : Contains(s, m) => Contains(Append(s, n), m)
<1>1. /\ Append(s, n) \in Seq(Nat) /\ Len(Append(s, n)) = Len(s) + 1 /\ Len(s) \in Nat
      /\ Append(s, n)[Len(s) + 1] = n
      /\ \A i \in 1..Len(s) : Append(s, n)[i] = s[i]
    OBVIOUS
<1>2. Contains(Append(s, n), n)
    BY <1>1 DEF Contains
<1>3. \A m : Contains(s, m) => Contains(Append(s, n), m)
    BY <1>1 DEF Contains
<1> QED
    BY <1>1, <1>2, <1>3

\* Every block of s is where it was.
Extends(s, t) == \A i \in DOMAIN s : i \in DOMAIN t /\ t[i] = s[i]

\* The tables are runs.
Runs(s) == \A i \in DOMAIN s : s[i].type = "table" => IsRun(s[i].lines)

\* A paragraph has become a block.
Has(s, open) == \E i \in DOMAIN s : s[i].type = "text" /\ s[i].lines = open

\* Blocks put behind others.
LEMMA Behind ==
    ASSUME NEW s \in Seq(Parsed), NEW t \in Seq(Parsed)
    PROVE  /\ s \o t \in Seq(Parsed)
           /\ Extends(s, s \o t)
           /\ Runs(s) /\ Runs(t) => Runs(s \o t)
           /\ \A open : Has(s, open) \/ Has(t, open) => Has(s \o t, open)
<1>1. /\ s \o t \in Seq(Parsed) /\ Len(s \o t) = Len(s) + Len(t) /\ Len(s) \in Nat /\ Len(t) \in Nat
      /\ DOMAIN s = 1..Len(s) /\ DOMAIN t = 1..Len(t) /\ DOMAIN (s \o t) = 1..(Len(s) + Len(t))
      /\ \A i \in 1..(Len(s) + Len(t)) : (s \o t)[i] = IF i <= Len(s) THEN s[i] ELSE t[i - Len(s)]
    OBVIOUS
<1>2. Extends(s, s \o t)
    BY <1>1 DEF Extends
<1>3. ASSUME NEW i \in DOMAIN t PROVE Len(s) + i \in DOMAIN (s \o t) /\ (s \o t)[Len(s) + i] = t[i]
    BY <1>1
<1>4. ASSUME Runs(s), Runs(t), NEW i \in DOMAIN (s \o t), (s \o t)[i].type = "table"
      PROVE  IsRun((s \o t)[i].lines)
  <2>1. CASE i <= Len(s)
    BY <1>1, <1>4, <2>1 DEF Runs
  <2>2. CASE i > Len(s)
    <3>1. i - Len(s) \in DOMAIN t /\ (s \o t)[i] = t[i - Len(s)]
      BY <1>1, <2>2
    <3> QED
      BY <1>4, <3>1 DEF Runs
  <2> QED
    BY <1>1, <2>1, <2>2
<1>5. ASSUME NEW open, Has(s, open) \/ Has(t, open) PROVE Has(s \o t, open)
    BY <1>2, <1>3, <1>5 DEF Extends, Has
<1> QED
    BY <1>1, <1>2, <1>4, <1>5 DEF Runs

\* One more block.
LEMMA OneBlock ==
    ASSUME NEW s \in Seq(Parsed), NEW type \in {"title", "text", "table", "list"},
           NEW open \in Seq(Nat)
    PROVE  /\ s \o <<[type |-> type, lines |-> open]>> \in Seq(Parsed)
           /\ Extends(s, s \o <<[type |-> type, lines |-> open]>>)
           /\ Runs(s) /\ (type = "table" => IsRun(open)) => Runs(s \o <<[type |-> type, lines |-> open]>>)
           /\ type = "text" => Has(s \o <<[type |-> type, lines |-> open]>>, open)
           /\ \A o : Has(s, o) => Has(s \o <<[type |-> type, lines |-> open]>>, o)
<1> DEFINE b == [type |-> type, lines |-> open]
<1>1. b \in Parsed /\ b.type = type /\ b.lines = open
    BY DEF Parsed
<1> HIDE DEF b
<1>2. <<b>> \in Seq(Parsed) /\ DOMAIN <<b>> = 1..1 /\ <<b>>[1] = b
    BY <1>1
<1>3. (type = "table" => IsRun(open)) => Runs(<<b>>)
    BY <1>1, <1>2 DEF Runs
<1>4. type = "text" => Has(<<b>>, open)
    BY <1>1, <1>2 DEF Has
<1>5. /\ s \o <<b>> \in Seq(Parsed) /\ Extends(s, s \o <<b>>)
      /\ Runs(s) /\ Runs(<<b>>) => Runs(s \o <<b>>)
      /\ \A o : Has(s, o) \/ Has(<<b>>, o) => Has(s \o <<b>>, o)
    BY <1>2, Behind
<1> QED
    BY <1>3, <1>4, <1>5 DEF b

\* flushPara puts the open paragraph, if there is one, behind the blocks.
LEMMA FlushText ==
    ASSUME NEW s \in Seq(Parsed), NEW open \in Seq(Nat)
    PROVE  /\ s \o Flush("text", open) \in Seq(Parsed)
           /\ Extends(s, s \o Flush("text", open))
           /\ Runs(s) => Runs(s \o Flush("text", open))
           /\ open = <<>> \/ Has(s \o Flush("text", open), open)
<1>1. CASE open = <<>>
  <2>1. s \o Flush("text", open) = s
    BY <1>1 DEF Flush
  <2> QED
    BY <1>1, <2>1 DEF Extends
<1>2. CASE open # <<>>
  <2>1. Flush("text", open) = <<[type |-> "text", lines |-> open]>>
    BY <1>2 DEF Flush
  <2> QED
    BY <2>1, OneBlock
<1> QED
    BY <1>1, <1>2

\* flushTable does so with the rows, which are a table.
LEMMA FlushTable ==
    ASSUME NEW s \in Seq(Parsed), NEW open \in Seq(Nat)
    PROVE  /\ s \o Flush("table", open) \in Seq(Parsed)
           /\ Extends(s, s \o Flush("table", open))
           /\ Runs(s) /\ IsRun(open) => Runs(s \o Flush("table", open))
           /\ \A o : Has(s, o) => Has(s \o Flush("table", open), o)
<1>1. CASE open = <<>>
  <2>1. s \o Flush("table", open) = s
    BY <1>1 DEF Flush
  <2> QED
    BY <1>1, <2>1 DEF Extends
<1>2. CASE open # <<>>
  <2>1. Flush("table", open) = <<[type |-> "table", lines |-> open]>>
    BY <1>2 DEF Flush
  <2> QED
    BY <2>1, OneBlock
<1> QED
    BY <1>1, <1>2

\* A title and an item are blocks of their own.
LEMMA OwnBlock ==
    ASSUME NEW s \in Seq(Parsed), NEW type \in {"title", "list"}, NEW n \in Nat
    PROVE  /\ s \o <<[type |-> type, lines |-> <<n>>]>> \in Seq(Parsed)
           /\ Extends(s, s \o <<[type |-> type, lines |-> <<n>>]>>)
           /\ Runs(s) => Runs(s \o <<[type |-> type, lines |-> <<n>>]>>)
           /\ \A o : Has(s, o) => Has(s \o <<[type |-> type, lines |-> <<n>>]>>, o)
<1>1. type \in {"title", "text", "table", "list"} /\ type # "table" /\ <<n>> \in Seq(Nat)
    OBVIOUS
<1> QED
    BY <1>1, OneBlock

\* Blocks that are added to twice.
LEMMA ExtendsOn ==
    ASSUME NEW r, NEW s, NEW t, Extends(r, s), Extends(s, t)
    PROVE  Extends(r, t)
    BY DEF Extends

\* A run of rows goes on with the next line.
LEMMA RunAppend ==
    ASSUME NEW s \in Seq(Nat), NEW n \in Nat, IsRun(s), s = <<>> \/ s[Len(s)] = n
    PROVE  /\ IsRun(Append(s, n + 1)) /\ Append(s, n + 1) # <<>>
           /\ Append(s, n + 1)[Len(Append(s, n + 1))] = n + 1
<1> DEFINE t == Append(s, n + 1)
<1>1. /\ t \in Seq(Nat) /\ Len(t) = Len(s) + 1 /\ Len(s) \in Nat /\ t[Len(s) + 1] = n + 1
      /\ \A i \in 1..Len(s) : t[i] = s[i]
    OBVIOUS
<1>2. s = <<>> => Len(s) = 0
    OBVIOUS
<1> HIDE DEF t
<1>3. ASSUME NEW k \in 1..(Len(t) - 1) PROVE t[k + 1] = t[k] + 1
  <2>1. CASE k = Len(s)
    <3>1. k \in 1..Len(s) /\ s # <<>>
      BY <1>1, <1>2, <1>3, <2>1
    <3> QED
      BY <1>1, <2>1, <3>1
  <2>2. CASE k # Len(s)
    <3>1. k \in 1..(Len(s) - 1) /\ k \in 1..Len(s) /\ k + 1 \in 1..Len(s)
      BY <1>1, <1>3, <2>2
    <3> QED
      BY <1>1, <3>1 DEF IsRun
  <2> QED
    BY <2>1, <2>2
<1>4. t # <<>>
    BY <1>1
<1> QED
    BY <1>1, <1>3, <1>4 DEF IsRun, t

-----------------------------------------------------------------------------
(* The invariant *)

\* Blocks are only added, and the open paragraph grows or becomes one of them:
\* what was together still is.
LEMMA TogetherStays ==
    ASSUME NEW n, Together(n), Extends(blocks, blocks'),
           \/ \A m : Contains(para, m) => Contains(para', m)
           \/ para = <<>> \/ Has(blocks', para)
    PROVE  Together(n)'
<1>1. CASE Contains(para, n - 1) /\ Contains(para, n)
  <2>1. para # <<>>
    BY <1>1 DEF Contains
  <2> QED
    BY <1>1, <2>1 DEF Together, Has
<1>2. CASE \E i \in DOMAIN blocks :
             /\ blocks[i].type = "text"
             /\ Contains(blocks[i].lines, n - 1) /\ Contains(blocks[i].lines, n)
    BY <1>2 DEF Together, Extends
<1> QED
    BY <1>1, <1>2 DEF Together

\* A line keeps CodeInv when the new line, if it is code, is put behind the
\* last one, and the paragraph is given up outside of code only.
LEMMA LineKeepsCode ==
    ASSUME Types, CodeInv, NEW kind \in LineKinds, ReadLine(kind), ~parsed, ~parsed',
           Extends(blocks, blocks'),
           inCode' <=> IF kind = "fence" THEN ~inCode ELSE inCode,
           \/ para' = Append(para, Line)
           \/ ~inCode /\ ~inCode' /\ (para = <<>> \/ Has(blocks', para))
    PROVE  CodeInv'
<1>1. /\ Len(lines') = Line /\ Len(lines) \in Nat /\ Line = Len(lines) + 1
      /\ DOMAIN lines = 1..Len(lines) /\ DOMAIN lines' = 1..Line
    BY ReadLineCoded DEF Line, Types
<1>2. Coded(Line)' <=> inCode'
    BY ReadLineCoded DEF CodeInv
<1>3. ASSUME para' = Append(para, Line)
      PROVE  Contains(para', Line) /\ \A m : Contains(para, m) => Contains(para', m)
    BY <1>1, <1>3, LastOfAppend DEF Types
<1>4. inCode' => Contains(para', Line)
    BY <1>3
<1>5. ASSUME NEW n \in DOMAIN lines', Coded(n)' PROVE Together(n)'
  <2>1. CASE n \in DOMAIN lines
    <3>1. Coded(n)
      BY <1>1, <1>5, <2>1, ReadLineCoded
    <3>2. Together(n)
      BY <2>1, <3>1 DEF CodeInv
    <3> QED
      BY <1>3, <3>2, TogetherStays
  <2>2. CASE n = Line
    <3>1. inCode /\ para' = Append(para, Line) /\ Contains(para, Line - 1)
      <4>1. Coded(n)
        BY <1>1, <1>5, <2>2, ReadLineCoded
      <4> QED
        BY <1>1, <2>2, <4>1 DEF CodeInv
    <3> QED
      BY <1>3, <2>2, <3>1 DEF Together
  <2> QED
    BY <1>1, <2>1, <2>2
<1> QED
    BY <1>1, <1>2, <1>4, <1>5 DEF CodeInv

\* A line that keeps the open table, or that no table follows.
LEMMA LineKeepsTable ==
    ASSUME Types, TableInv, NEW kind \in LineKinds, ReadLine(kind),
           ~CodeAfterTable /\ IsRun(table) /\ Runs(blocks) => Runs(blocks'),
           \/ table' = <<>>
           \/ table' = table /\ table # <<>> /\ kind = "fence"
    PROVE  TableInv'
<1>1. CodeAfterTable => CodeAfterTable'
    BY CodeAfterTableStays
<1>2. ~CodeAfterTable => IsRun(table) /\ Runs(blocks)
    BY DEF TableInv, Runs
<1>3. CASE table' = <<>>
    BY <1>1, <1>2, <1>3 DEF TableInv, Runs, IsRun
<1>4. CASE table' = table /\ table # <<>> /\ kind = "fence"
  <2>1. CodeAfterTable'
    BY <1>1, <1>4, CodeAfterTableStays DEF TableInv
  <2> QED
    BY <2>1 DEF TableInv
<1> QED
    BY <1>3, <1>4

\* Nothing is read at the start.
LEMMA MarkdownInvInit == MarkdownInit => MarkdownInv
<1> SUFFICES ASSUME MarkdownInit PROVE MarkdownInv
    OBVIOUS
<1>1. Types
  <2>1. <<>> \in Seq(LineKinds) /\ <<>> \in Seq(Nat) /\ <<>> \in Seq(Parsed)
    OBVIOUS
  <2> QED
    BY <2>1 DEF MarkdownInit, Types
<1>2. CodeInv
  <2>1. {k \in 1..(Line - 1) : lines[k] = "fence"} = {}
    BY DEF MarkdownInit, Line
  <2>2. ~Coded(Line)
    BY <2>1, FS_EmptySet DEF Coded
  <2> QED
    BY <2>2 DEF MarkdownInit, CodeInv
<1>3. TableInv
    BY DEF MarkdownInit, TableInv, IsRun
<1> QED
    BY <1>1, <1>2, <1>3 DEF MarkdownInv

\* The number of the next line.
LEMMA LineIsNat == Types => Line \in Nat /\ Len(lines) \in Nat /\ Line = Len(lines) + 1
    BY DEF Types, Line

\* A fence joins the paragraph and changes what comes next.
LEMMA FenceKeeps == ASSUME MarkdownInv, Fence PROVE MarkdownInv'
<1>1. Types /\ CodeInv /\ TableInv /\ ReadLine("fence") /\ "fence" \in LineKinds
      /\ ~parsed /\ parsed' = parsed /\ inCode' = ~inCode /\ para' = Append(para, Line)
      /\ blocks' = blocks /\ table' = table
    BY DEF Fence, MarkdownInv, ReadLine, LineKinds
<1>2. Types'
  <2>1. para' \in Seq(Nat)
    BY <1>1, LineIsNat, LastOfAppend DEF Types
  <2>2. lines' \in Seq(LineKinds)
    BY <1>1, ReadLineCoded
  <2> QED
    BY <1>1, <2>1, <2>2 DEF Types
<1>3. CodeInv'
    BY <1>1, LineKeepsCode DEF Extends
<1>4. TableInv'
    BY <1>1, LineKeepsTable
<1> QED
    BY <1>2, <1>3, <1>4 DEF MarkdownInv

\* A line of code joins the line before it.
LEMMA CodeKeeps == ASSUME MarkdownInv, Code PROVE MarkdownInv'
<1>1. PICK kind \in LineKinds \ {"fence"} : ReadLine(kind)
    BY DEF Code
<1>2. Types /\ CodeInv /\ TableInv /\ ~parsed /\ parsed' = parsed /\ inCode /\ inCode' = inCode
      /\ para' = Append(para, Line) /\ blocks' = blocks /\ table' = table
    BY <1>1 DEF Code, MarkdownInv, ReadLine
<1>3. Types'
  <2>1. para' \in Seq(Nat)
    BY <1>2, LineIsNat, LastOfAppend DEF Types
  <2>2. lines' \in Seq(LineKinds)
    BY <1>1, <1>2, ReadLineCoded
  <2> QED
    BY <1>2, <2>1, <2>2 DEF Types
<1>4. CodeInv'
    BY <1>1, <1>2, LineKeepsCode DEF Extends
<1>5. TableInv'
  <2>1. CASE table = <<>>
    BY <1>1, <1>2, <2>1, LineKeepsTable
  <2>2. CASE table # <<>>
    BY <1>1, <1>2, <2>2, CodeAfterTableStays DEF TableInv
  <2> QED
    BY <2>1, <2>2
<1> QED
    BY <1>3, <1>4, <1>5 DEF MarkdownInv

\* Outside of code, a line that closes the paragraph and the table, and may be
\* a block of its own.
LEMMA CloseKeeps ==
    ASSUME MarkdownInv, NEW kind \in LineKinds \ {"fence"}, ReadLine(kind), ~inCode,
           blocks' \in Seq(Parsed), Extends(blocks, blocks'),
           Runs(blocks) /\ IsRun(table) => Runs(blocks'),
           para = <<>> \/ Has(blocks', para),
           para' = <<>>, table' = <<>>, UNCHANGED <<inCode, parsed>>
    PROVE  MarkdownInv'
<1>1. Types /\ CodeInv /\ TableInv /\ ~parsed /\ ~parsed' /\ ~inCode'
    BY DEF MarkdownInv, ReadLine
<1>3. Types'
  <2>1. lines' \in Seq(LineKinds)
    BY <1>1, ReadLineCoded
  <2>2. para' \in Seq(Nat) /\ table' \in Seq(Nat)
    OBVIOUS
  <2> QED
    BY <1>1, <2>1, <2>2 DEF Types
<1>4. CodeInv'
    BY <1>1, LineKeepsCode
<1>5. TableInv'
    BY <1>1, LineKeepsTable
<1> QED
    BY <1>3, <1>4, <1>5 DEF MarkdownInv

\* A title closes both.
LEMMA HeadingKeeps == ASSUME MarkdownInv, Heading PROVE MarkdownInv'
<1> DEFINE b1 == blocks \o Flush("text", para)
           b2 == b1 \o Flush("table", table)
           b3 == b2 \o <<[type |-> "title", lines |-> <<Line>>]>>
<1>0. /\ b1 = blocks \o Flush("text", para)
      /\ b2 = b1 \o Flush("table", table)
      /\ b3 = b2 \o <<[type |-> "title", lines |-> <<Line>>]>>
    OBVIOUS
<1>1. Types /\ ReadLine("title") /\ "title" \in LineKinds \ {"fence"} /\ ~inCode
      /\ para' = <<>> /\ table' = <<>> /\ UNCHANGED <<inCode, parsed>> /\ blocks' = b3
    BY DEF Heading, MarkdownInv, LineKinds
<1> HIDE DEF b1, b2, b3
<1>2. blocks \in Seq(Parsed) /\ para \in Seq(Nat) /\ table \in Seq(Nat) /\ Line \in Nat
    BY <1>1, LineIsNat DEF Types
<1>3. /\ b1 \in Seq(Parsed) /\ Extends(blocks, b1) /\ (Runs(blocks) => Runs(b1))
      /\ para = <<>> \/ Has(b1, para)
    BY <1>2, <1>0, FlushText
<1>4. /\ b2 \in Seq(Parsed) /\ Extends(b1, b2) /\ (Runs(b1) /\ IsRun(table) => Runs(b2))
      /\ Has(b1, para) => Has(b2, para)
    BY <1>2, <1>3, <1>0, FlushTable
<1>5. /\ b3 \in Seq(Parsed) /\ Extends(b2, b3) /\ (Runs(b2) => Runs(b3))
      /\ Has(b2, para) => Has(b3, para)
    BY <1>2, <1>4, <1>0, OwnBlock
<1>6. Extends(blocks, b3)
    BY <1>3, <1>4, <1>5, ExtendsOn
<1> QED
    BY <1>1, <1>3, <1>4, <1>5, <1>6, CloseKeeps

\* An item closes both.
LEMMA ListItemKeeps == ASSUME MarkdownInv, ListItem PROVE MarkdownInv'
<1> DEFINE b1 == blocks \o Flush("table", table)
           b2 == b1 \o Flush("text", para)
           b3 == b2 \o <<[type |-> "list", lines |-> <<Line>>]>>
<1>0. /\ b1 = blocks \o Flush("table", table)
      /\ b2 = b1 \o Flush("text", para)
      /\ b3 = b2 \o <<[type |-> "list", lines |-> <<Line>>]>>
    OBVIOUS
<1>1. Types /\ ReadLine("item") /\ "item" \in LineKinds \ {"fence"} /\ ~inCode
      /\ para' = <<>> /\ table' = <<>> /\ UNCHANGED <<inCode, parsed>> /\ blocks' = b3
    BY DEF ListItem, MarkdownInv, LineKinds
<1> HIDE DEF b1, b2, b3
<1>2. blocks \in Seq(Parsed) /\ para \in Seq(Nat) /\ table \in Seq(Nat) /\ Line \in Nat
    BY <1>1, LineIsNat DEF Types
<1>3. b1 \in Seq(Parsed) /\ Extends(blocks, b1) /\ (Runs(blocks) /\ IsRun(table) => Runs(b1))
    BY <1>2, <1>0, FlushTable
<1>4. /\ b2 \in Seq(Parsed) /\ Extends(b1, b2) /\ (Runs(b1) => Runs(b2))
      /\ para = <<>> \/ Has(b2, para)
    BY <1>2, <1>3, <1>0, FlushText
<1>5. /\ b3 \in Seq(Parsed) /\ Extends(b2, b3) /\ (Runs(b2) => Runs(b3))
      /\ Has(b2, para) => Has(b3, para)
    BY <1>2, <1>4, <1>0, OwnBlock
<1>6. Extends(blocks, b3)
    BY <1>3, <1>4, <1>5, ExtendsOn
<1> QED
    BY <1>1, <1>3, <1>4, <1>5, <1>6, CloseKeeps

\* A blank line closes both.
LEMMA BlankKeeps == ASSUME MarkdownInv, Blank PROVE MarkdownInv'
<1> DEFINE b1 == blocks \o Flush("table", table)
           b2 == b1 \o Flush("text", para)
<1>0. /\ b1 = blocks \o Flush("table", table)
      /\ b2 = b1 \o Flush("text", para)
    OBVIOUS
<1>1. Types /\ ReadLine("blank") /\ "blank" \in LineKinds \ {"fence"} /\ ~inCode
      /\ para' = <<>> /\ table' = <<>> /\ UNCHANGED <<inCode, parsed>> /\ blocks' = b2
    BY DEF Blank, MarkdownInv, LineKinds
<1> HIDE DEF b1, b2
<1>2. blocks \in Seq(Parsed) /\ para \in Seq(Nat) /\ table \in Seq(Nat)
    BY <1>1 DEF Types
<1>3. b1 \in Seq(Parsed) /\ Extends(blocks, b1) /\ (Runs(blocks) /\ IsRun(table) => Runs(b1))
    BY <1>2, <1>0, FlushTable
<1>4. /\ b2 \in Seq(Parsed) /\ Extends(b1, b2) /\ (Runs(b1) => Runs(b2))
      /\ para = <<>> \/ Has(b2, para)
    BY <1>2, <1>3, <1>0, FlushText
<1>5. Extends(blocks, b2)
    BY <1>3, <1>4, ExtendsOn
<1> QED
    BY <1>1, <1>3, <1>4, <1>5, CloseKeeps

\* A row closes the paragraph and goes on with the table.
LEMMA RowKeeps == ASSUME MarkdownInv, Row PROVE MarkdownInv'
<1> DEFINE b1 == blocks \o Flush("text", para)
<1>0. /\ b1 = blocks \o Flush("text", para)
    OBVIOUS
<1>1. Types /\ CodeInv /\ TableInv /\ ReadLine("row") /\ "row" \in LineKinds /\ ~inCode
      /\ ~parsed /\ para' = <<>> /\ table' = Append(table, Line)
      /\ inCode' = inCode /\ parsed' = parsed /\ blocks' = b1
    BY DEF Row, MarkdownInv, ReadLine, LineKinds
<1> HIDE DEF b1
<1>2. /\ b1 \in Seq(Parsed) /\ Extends(blocks, b1) /\ (Runs(blocks) => Runs(b1))
      /\ para = <<>> \/ Has(b1, para)
  <2>1. blocks \in Seq(Parsed) /\ para \in Seq(Nat)
    BY <1>1 DEF Types
  <2> QED
    BY <2>1, <1>0, FlushText
<1>3. Types'
  <2>1. lines' \in Seq(LineKinds)
    BY <1>1, ReadLineCoded
  <2>2. para' \in Seq(Nat) /\ table' \in Seq(Nat)
    BY <1>1, LineIsNat DEF Types
  <2> QED
    BY <1>1, <1>2, <2>1, <2>2 DEF Types
<1>4. CodeInv'
    BY <1>1, <1>2, LineKeepsCode
<1>5. ASSUME ~CodeAfterTable'
      PROVE  /\ IsRun(table') /\ Runs(blocks')
             /\ table'[Len(table')] = Len(lines') /\ lines'[Len(lines')] = "row"
             /\ ~Coded(Len(lines))' /\ Len(lines') > 0
  <2>1. ~CodeAfterTable
    BY <1>1, <1>5, CodeAfterTableStays
  <2>2. Runs(blocks')
    BY <1>1, <1>2, <2>1 DEF TableInv, Runs
  <2>3. IsRun(table') /\ table'[Len(table')] = Line
    BY <1>1, <2>1, LineIsNat, RunAppend DEF TableInv, Types
  <2>4. Len(lines') = Line /\ lines'[Len(lines')] = "row" /\ Len(lines') > 0
    BY <1>1, ReadLineCoded, LineIsNat
  <2>5. ~Coded(Len(lines))'
    <3>1. ~Coded(Line)
      BY <1>1 DEF CodeInv
    <3>2. ASSUME NEW n \in 1..Line, n = Line PROVE ~Coded(n)'
      BY <1>1, <3>1, <3>2, ReadLineCoded
    <3>3. \E n \in 1..Line : n = Line
      BY <1>1, LineIsNat
    <3> QED
      BY <2>4, <3>2, <3>3
  <2> QED
    BY <2>2, <2>3, <2>4, <2>5
<1>6. TableInv'
    BY <1>1, <1>5 DEF TableInv, Runs
<1> QED
    BY <1>3, <1>4, <1>6 DEF MarkdownInv

\* A line of text closes the table and goes on with the paragraph.
LEMMA PlainKeeps == ASSUME MarkdownInv, Plain PROVE MarkdownInv'
<1> DEFINE b1 == blocks \o Flush("table", table)
<1>0. /\ b1 = blocks \o Flush("table", table)
    OBVIOUS
<1>1. Types /\ CodeInv /\ TableInv /\ ReadLine("text") /\ "text" \in LineKinds
      /\ ~parsed /\ para' = Append(para, Line) /\ table' = <<>>
      /\ inCode' = inCode /\ parsed' = parsed /\ blocks' = b1
    BY DEF Plain, MarkdownInv, ReadLine, LineKinds
<1> HIDE DEF b1
<1>2. b1 \in Seq(Parsed) /\ Extends(blocks, b1) /\ (Runs(blocks) /\ IsRun(table) => Runs(b1))
  <2>1. blocks \in Seq(Parsed) /\ table \in Seq(Nat)
    BY <1>1 DEF Types
  <2> QED
    BY <2>1, <1>0, FlushTable
<1>3. Types'
  <2>1. lines' \in Seq(LineKinds)
    BY <1>1, ReadLineCoded
  <2>2. para' \in Seq(Nat) /\ table' \in Seq(Nat)
    BY <1>1, LineIsNat DEF Types
  <2> QED
    BY <1>1, <1>2, <2>1, <2>2 DEF Types
<1>4. CodeInv'
    BY <1>1, <1>2, LineKeepsCode
<1>5. TableInv'
    BY <1>1, <1>2, LineKeepsTable
<1> QED
    BY <1>3, <1>4, <1>5 DEF MarkdownInv

\* The end closes both.
LEMMA EndParseKeeps == ASSUME MarkdownInv, EndParse PROVE MarkdownInv'
<1> DEFINE b1 == blocks \o Flush("text", para)
           b2 == b1 \o Flush("table", table)
<1>0. /\ b1 = blocks \o Flush("text", para)
      /\ b2 = b1 \o Flush("table", table)
    OBVIOUS
<1>1. Types /\ CodeInv /\ TableInv /\ parsed' /\ parsed' \in BOOLEAN /\ para' = <<>> /\ table' = <<>>
      /\ lines' = lines /\ inCode' = inCode /\ blocks' = b2
    BY DEF EndParse, MarkdownInv
<1> HIDE DEF b1, b2
<1>2. blocks \in Seq(Parsed) /\ para \in Seq(Nat) /\ table \in Seq(Nat)
    BY <1>1 DEF Types
<1>3. /\ b1 \in Seq(Parsed) /\ Extends(blocks, b1) /\ (Runs(blocks) => Runs(b1))
      /\ para = <<>> \/ Has(b1, para)
    BY <1>2, <1>0, FlushText
<1>4. /\ b2 \in Seq(Parsed) /\ Extends(b1, b2) /\ (Runs(b1) /\ IsRun(table) => Runs(b2))
      /\ Has(b1, para) => Has(b2, para)
    BY <1>2, <1>3, <1>0, FlushTable
<1>5. Extends(blocks, b2)
    BY <1>3, <1>4, ExtendsOn
<1>6. Types'
  <2>1. para' \in Seq(Nat) /\ table' \in Seq(Nat)
    BY <1>1
  <2> QED
    BY <1>1, <1>4, <2>1 DEF Types
<1>7. CodeInv'
  <2>1. ASSUME NEW n \in DOMAIN lines, Coded(n) PROVE Together(n)'
    <3>1. Together(n)
      BY <1>1, <2>1 DEF CodeInv
    <3> QED
      BY <1>1, <1>3, <1>4, <1>5, <3>1, TogetherStays
  <2> QED
    BY <1>1, <2>1 DEF CodeInv, Coded, Line
<1>8. TableInv'
  <2>1. ~CodeAfterTable => IsRun(table) /\ Runs(blocks)
    BY <1>1 DEF TableInv, Runs
  <2>2. CodeAfterTable' = CodeAfterTable
    BY <1>1 DEF CodeAfterTable, Coded
  <2>3. IsRun(table')
    BY <1>1 DEF IsRun
  <2> QED
    BY <1>1, <1>3, <1>4, <2>1, <2>2, <2>3 DEF TableInv, Runs
<1> QED
    BY <1>6, <1>7, <1>8 DEF MarkdownInv

\* Every step keeps the invariant.
LEMMA MarkdownInvNext == MarkdownInv /\ [MarkdownNext]_markdownVars => MarkdownInv'
<1> SUFFICES ASSUME MarkdownInv, [MarkdownNext]_markdownVars PROVE MarkdownInv'
    OBVIOUS
<1>1. CASE UNCHANGED markdownVars
    BY <1>1 DEF markdownVars, MarkdownInv, Types, CodeInv, TableInv, Coded, Line, Together, CodeAfterTable
<1> QED
    BY <1>1, FenceKeeps, CodeKeeps, HeadingKeeps, RowKeeps, ListItemKeeps, BlankKeeps, PlainKeeps,
       EndParseKeeps DEF MarkdownNext

\* The end leaves no paragraph open, and nothing comes after it.
Closed == parsed => para = <<>>

\* The end flushes the paragraph, and nothing is read after it.
LEMMA ClosedNext == Closed /\ [MarkdownNext]_markdownVars => Closed'
<1> SUFFICES ASSUME Closed, [MarkdownNext]_markdownVars PROVE Closed'
    OBVIOUS
<1>1. CASE UNCHANGED markdownVars
    BY <1>1 DEF markdownVars, Closed
<1>2. CASE EndParse
    BY <1>2 DEF EndParse, Closed
<1>3. CASE Fence \/ Code \/ Heading \/ Row \/ ListItem \/ Blank \/ Plain
  <2>1. ~parsed /\ parsed' = parsed
    BY <1>3 DEF Fence, Code, Heading, Row, ListItem, Blank, Plain, ReadLine
  <2> QED
    BY <2>1 DEF Closed
<1> QED
    BY <1>1, <1>2, <1>3 DEF MarkdownNext

\* What is together when the end has closed the paragraph is in a block.
LEMMA InvImpliesCode == MarkdownInv /\ Closed => CodeIsWhole
<1> SUFFICES ASSUME MarkdownInv, Closed, parsed, NEW n \in DOMAIN lines, Coded(n)
             PROVE  \E i \in DOMAIN blocks :
                      /\ blocks[i].type = "text"
                      /\ Contains(blocks[i].lines, n - 1) /\ Contains(blocks[i].lines, n)
    BY DEF CodeIsWhole
<1>1. Together(n)
    BY DEF MarkdownInv, CodeInv
<1>2. ~Contains(para, n)
    BY DEF Closed, Contains
<1> QED
    BY <1>1, <1>2 DEF Together

\* The tables of the blocks are runs.
LEMMA InvImpliesTables == MarkdownInv => TablesAreRuns
    BY DEF MarkdownInv, TableInv, TablesAreRuns, IsRun

-----------------------------------------------------------------------------
\* A code block of a document of any length ends up in one text block, from
\* its fence to the closing one, whatever lines it has in between: rows,
\* titles, items and blank lines of code close nothing.
THEOREM CodeStaysWhole == MarkdownSpec => []CodeIsWhole
<1>1. MarkdownInit => MarkdownInv /\ Closed
    BY MarkdownInvInit DEF MarkdownInit, Closed
<1>2. MarkdownInv /\ Closed /\ [MarkdownNext]_markdownVars => MarkdownInv' /\ Closed'
    BY MarkdownInvNext, ClosedNext
<1>3. MarkdownInv /\ Closed => CodeIsWhole
    BY InvImpliesCode
<1> QED
    BY <1>1, <1>2, <1>3, PTL DEF MarkdownSpec

\* In a document of any length where no code comes right after a table, a
\* table has the rows of one run of lines.
THEOREM TablesStayRuns == MarkdownSpec => []TablesAreRuns
<1>1. MarkdownInit => MarkdownInv
    BY MarkdownInvInit
<1>2. MarkdownInv /\ [MarkdownNext]_markdownVars => MarkdownInv'
    BY MarkdownInvNext
<1>3. MarkdownInv => TablesAreRuns
    BY InvImpliesTables
<1> QED
    BY <1>1, <1>2, <1>3, PTL DEF MarkdownSpec

\* Both together, for documents of any length.
THEOREM BlocksStayWhole == MarkdownSpec => []BlocksAreWhole
<1>1. CodeIsWhole /\ TablesAreRuns => BlocksAreWhole
    BY DEF BlocksAreWhole
<1> QED
    BY <1>1, CodeStaysWhole, TablesStayRuns, PTL

-----------------------------------------------------------------------------
(* Every line in one place *)

\* The parts of a parse: its blocks, then the open table and paragraph.
PartsOf(bs, rows, text) == [i \in DOMAIN bs |-> bs[i].lines] \o <<rows, text>>

Keeps(bs, rows, text, due, inOrder) ==
    /\ LinesOf(PartsOf(bs, rows, text)) = due
    /\ Once(PartsOf(bs, rows, text))
    /\ inOrder => Ordered(PartsOf(bs, rows, text))

\* The invariant: unless code came after a table, a paragraph is not open
\* behind an open table.
LinesInv ==
    /\ Keeps(blocks, table, para, DueLines, ~CodeAfterTable)
    /\ ~CodeAfterTable => table = <<>> \/ para = <<>>

\* What the places of the parts hold.
Holds(ps, n, bs, rows, text) ==
    /\ ps \in Seq(Seq(Nat)) /\ n \in Nat /\ n = Len(bs)
    /\ DOMAIN ps = 1..(n + 2)
    /\ \A i \in 1..n : ps[i] = bs[i].lines
    /\ ps[n + 1] = rows /\ ps[n + 2] = text

\* The parts of a document: its blocks, the rows and the paragraph.
LEMMA PartsAre ==
    ASSUME NEW bs \in Seq(Parsed), NEW rows \in Seq(Nat), NEW text \in Seq(Nat)
    PROVE  Holds(PartsOf(bs, rows, text), Len(bs), bs, rows, text)
<1>0. PICK ps : ps = PartsOf(bs, rows, text)
  OBVIOUS
<1> DEFINE ls == [i \in DOMAIN bs |-> bs[i].lines]
<1>1. ls \in Seq(Seq(Nat)) /\ Len(ls) = Len(bs) /\ Len(bs) \in Nat /\ DOMAIN bs = 1..Len(bs)
      /\ \A i \in 1..Len(bs) : ls[i] = bs[i].lines
  <2>1. Len(bs) \in Nat /\ DOMAIN bs = 1..Len(bs) /\ \A i \in 1..Len(bs) : bs[i] \in Parsed
    OBVIOUS
  <2>2. \A i \in 1..Len(bs) : bs[i].lines \in Seq(Nat)
    BY <2>1 DEF Parsed
  <2>3. ls \in [1..Len(bs) -> Seq(Nat)]
    BY <2>1, <2>2
  <2> QED  BY <2>1, <2>3
<1>2. ps = ls \o <<rows, text>>
  BY <1>0 DEF PartsOf
<1> HIDE DEF ls
<1>3. <<rows, text>> \in Seq(Seq(Nat)) /\ Len(<<rows, text>>) = 2
  OBVIOUS
<1>4. /\ ls \o <<rows, text>> \in Seq(Seq(Nat)) /\ Len(ls \o <<rows, text>>) = Len(bs) + 2
      /\ \A i \in 1..Len(bs) : (ls \o <<rows, text>>)[i] = ls[i]
      /\ (ls \o <<rows, text>>)[Len(bs) + 1] = rows /\ (ls \o <<rows, text>>)[Len(bs) + 2] = text
  BY <1>1, <1>3
<1>5. DOMAIN ps = 1..(Len(bs) + 2)
  BY <1>1, <1>2, <1>4
<1> QED  BY <1>0, <1>1, <1>2, <1>4, <1>5 DEF Holds

\* The parts qs are the parts ps in other places, but for empty ones: g tells
\* where each comes from.
Moved(ps, qs, g) ==
    /\ \A i \in DOMAIN qs : qs[i] # <<>> => g[i] \in DOMAIN ps /\ qs[i] = ps[g[i]]
    /\ \A i, j \in DOMAIN qs : qs[i] # <<>> /\ qs[j] # <<>> /\ g[i] = g[j] => i = j
    /\ \A i \in DOMAIN ps : ps[i] # <<>> => \E j \in DOMAIN qs : qs[j] = ps[i]

Rises(qs, g) ==
    \A i, j \in DOMAIN qs : qs[i] # <<>> /\ qs[j] # <<>> /\ i < j => g[i] < g[j]

\* Lines that move with their part stay once and in order.
LEMMA Regrouped ==
    ASSUME NEW ps \in Seq(Seq(Nat)), NEW qs \in Seq(Seq(Nat)), NEW g, Moved(ps, qs, g)
    PROVE  /\ LinesOf(qs) = LinesOf(ps)
           /\ Once(ps) => Once(qs)
           /\ Rises(qs, g) /\ Ordered(ps) => Ordered(qs)
<1> USE DEF Moved, Rises
<1>1. \A i \in DOMAIN qs : \A k \in DOMAIN qs[i] : qs[i] # <<>>
  OBVIOUS
<1>2. \A i \in DOMAIN ps : \A k \in DOMAIN ps[i] : ps[i] # <<>>
  OBVIOUS
<1>3. LinesOf(qs) = LinesOf(ps)
  <2>1. \A n : n \in LinesOf(qs) <=> \E i \in DOMAIN qs : \E k \in DOMAIN qs[i] : n = qs[i][k]
    BY DEF LinesOf, Range
  <2>2. \A n : n \in LinesOf(ps) <=> \E i \in DOMAIN ps : \E k \in DOMAIN ps[i] : n = ps[i][k]
    BY DEF LinesOf, Range
  <2>3. ASSUME NEW n, n \in LinesOf(qs) PROVE n \in LinesOf(ps)
    <3>1. PICK i \in DOMAIN qs : \E k \in DOMAIN qs[i] : n = qs[i][k]
      BY <2>1, <2>3
    <3>2. g[i] \in DOMAIN ps /\ qs[i] = ps[g[i]]
      BY <1>1, <3>1
    <3> QED  BY <2>2, <3>1, <3>2
  <2>4. ASSUME NEW n, n \in LinesOf(ps) PROVE n \in LinesOf(qs)
    BY <1>2, <2>1, <2>2, <2>4
  <2> QED  BY <2>3, <2>4
<1>4. ASSUME Once(ps) PROVE Once(qs)
  <2> SUFFICES ASSUME NEW i \in DOMAIN qs, NEW j \in DOMAIN qs,
                      NEW k \in DOMAIN qs[i], NEW l \in DOMAIN qs[j], qs[i][k] = qs[j][l]
               PROVE  i = j /\ k = l
    BY DEF Once
  <2>1. /\ g[i] \in DOMAIN ps /\ g[j] \in DOMAIN ps /\ qs[i] = ps[g[i]] /\ qs[j] = ps[g[j]]
        /\ qs[i] # <<>> /\ qs[j] # <<>>
    BY <1>1
  <2>2. g[i] = g[j] /\ k = l
    <3>1. k \in DOMAIN ps[g[i]] /\ l \in DOMAIN ps[g[j]] /\ ps[g[i]][k] = ps[g[j]][l]
      BY <2>1
    <3> QED  BY <1>4, <2>1, <3>1 DEF Once
  <2> QED  BY <2>1, <2>2
<1>5. ASSUME Ordered(ps), Rises(qs, g)
      PROVE  Ordered(qs)
  <2> SUFFICES ASSUME NEW i \in DOMAIN qs, NEW j \in DOMAIN qs,
                      NEW k \in DOMAIN qs[i], NEW l \in DOMAIN qs[j], i < j \/ (i = j /\ k < l)
               PROVE  qs[i][k] < qs[j][l]
    BY DEF Ordered
  <2>1. /\ g[i] \in DOMAIN ps /\ g[j] \in DOMAIN ps /\ qs[i] = ps[g[i]] /\ qs[j] = ps[g[j]]
        /\ qs[i] # <<>> /\ qs[j] # <<>>
    BY <1>1
  <2>2. g[i] < g[j] \/ (g[i] = g[j] /\ k < l)
    BY <1>5, <2>1
  <2> QED  BY <1>5, <2>1, <2>2 DEF Ordered
<1> QED  BY <1>3, <1>4, <1>5

\* The parts are numbered.
LEMMA IndexIsNat ==
    ASSUME NEW ps \in Seq(Seq(Nat)), NEW i \in DOMAIN ps PROVE i \in Nat
OBVIOUS

\* A line greater than all that came before is put at the end of a part.
LEMMA OneMore ==
    ASSUME NEW ps \in Seq(Seq(Nat)), NEW qs \in Seq(Seq(Nat)), NEW c \in DOMAIN ps, NEW n \in Nat,
           DOMAIN qs = DOMAIN ps, qs[c] = Append(ps[c], n),
           \A i \in DOMAIN ps \ {c} : qs[i] = ps[i],
           \A m \in LinesOf(ps) : m < n
    PROVE  /\ LinesOf(qs) = LinesOf(ps) \cup {n}
           /\ Once(ps) => Once(qs)
           /\ Ordered(ps) /\ (\A i \in DOMAIN ps : c < i => ps[i] = <<>>) => Ordered(qs)
<1>1. /\ ps[c] \in Seq(Nat) /\ Len(ps[c]) \in Nat /\ DOMAIN ps[c] = 1..Len(ps[c])
      /\ DOMAIN qs[c] = 1..(Len(ps[c]) + 1) /\ qs[c][Len(ps[c]) + 1] = n
      /\ \A k \in 1..Len(ps[c]) : qs[c][k] = ps[c][k]
  <2>1. ps[c] \in Seq(Nat)
    OBVIOUS
  <2> QED  BY <2>1
<1> DEFINE Newest(i, k) == i = c /\ k = Len(ps[c]) + 1
<1>2. ASSUME NEW i \in DOMAIN qs, NEW k \in DOMAIN qs[i]
      PROVE  \/ Newest(i, k) /\ qs[i][k] = n
             \/ /\ ~Newest(i, k) /\ k \in DOMAIN ps[i] /\ qs[i][k] = ps[i][k]
                /\ ps[i][k] < n /\ ps[i][k] \in Nat /\ ps[i] # <<>>
  <2>1. ASSUME k \in DOMAIN ps[i], qs[i][k] = ps[i][k]
        PROVE  ps[i][k] < n /\ ps[i][k] \in Nat /\ ps[i] # <<>>
    <3>1. ps[i] \in Seq(Nat)
      OBVIOUS
    <3>2. ps[i][k] \in LinesOf(ps)
      BY <2>1 DEF LinesOf, Range
    <3> QED  BY <2>1, <3>1, <3>2
  <2>2. CASE i = c
    <3>1. k = Len(ps[c]) + 1 \/ (k # Len(ps[c]) + 1 /\ k \in 1..Len(ps[c]))
      <4>1. k \in 1..(Len(ps[c]) + 1) /\ Len(ps[c]) \in Nat
        BY <1>1, <2>2
      <4> QED  BY <4>1
    <3> QED  BY <1>1, <2>1, <2>2, <3>1
  <2>3. CASE i # c
    BY <2>1, <2>3
  <2> QED  BY <2>2, <2>3
<1>3. LinesOf(qs) = LinesOf(ps) \cup {n}
  <2>1. \A m : m \in LinesOf(qs) <=> \E i \in DOMAIN qs : \E k \in DOMAIN qs[i] : m = qs[i][k]
    BY DEF LinesOf, Range
  <2>2. \A m : m \in LinesOf(ps) <=> \E i \in DOMAIN ps : \E k \in DOMAIN ps[i] : m = ps[i][k]
    BY DEF LinesOf, Range
  <2>3. ASSUME NEW m, m \in LinesOf(qs) PROVE m \in LinesOf(ps) \cup {n}
    <3>1. PICK i \in DOMAIN qs : \E k \in DOMAIN qs[i] : m = qs[i][k]
      BY <2>1, <2>3
    <3>2. PICK k \in DOMAIN qs[i] : m = qs[i][k]
      BY <3>1
    <3> QED  BY <1>2, <2>2, <3>2
  <2>4. ASSUME NEW m, m \in LinesOf(ps) PROVE m \in LinesOf(qs)
    <3>1. PICK i \in DOMAIN ps : \E k \in DOMAIN ps[i] : m = ps[i][k]
      BY <2>2, <2>4
    <3>2. PICK k \in DOMAIN ps[i] : m = ps[i][k]
      BY <3>1
    <3>3. k \in DOMAIN qs[i] /\ qs[i][k] = ps[i][k]
      <4>1. CASE i = c
        BY <1>1, <4>1
      <4>2. CASE i # c
        BY <4>2
      <4> QED  BY <4>1, <4>2
    <3> QED  BY <2>1, <3>2, <3>3
  <2>5. n \in LinesOf(qs)
    <3>1. Len(ps[c]) + 1 \in DOMAIN qs[c] /\ c \in DOMAIN qs
      BY <1>1
    <3> QED  BY <1>1, <2>1, <3>1
  <2> QED  BY <2>3, <2>4, <2>5
<1>4. ASSUME Once(ps) PROVE Once(qs)
  <2> SUFFICES ASSUME NEW i \in DOMAIN qs, NEW j \in DOMAIN qs,
                      NEW k \in DOMAIN qs[i], NEW l \in DOMAIN qs[j], qs[i][k] = qs[j][l]
               PROVE  i = j /\ k = l
    BY DEF Once
  <2>1. CASE Newest(i, k) /\ Newest(j, l)
    BY <2>1
  <2>2. CASE ~Newest(i, k) /\ ~Newest(j, l)
    <3>1. k \in DOMAIN ps[i] /\ qs[i][k] = ps[i][k]
      BY <1>2, <2>2
    <3>2. l \in DOMAIN ps[j] /\ qs[j][l] = ps[j][l]
      BY <1>2, <2>2
    <3>3. i \in DOMAIN ps /\ j \in DOMAIN ps /\ ps[i][k] = ps[j][l]
      BY <3>1, <3>2
    <3> QED  BY <1>4, <3>1, <3>2, <3>3 DEF Once
  <2>3. ASSUME Newest(i, k), ~Newest(j, l) PROVE FALSE
    BY <1>2, <2>3
  <2>4. ASSUME ~Newest(i, k), Newest(j, l) PROVE FALSE
    BY <1>2, <2>4
  <2> QED  BY <2>1, <2>2, <2>3, <2>4
<1>5. ASSUME Ordered(ps), \A i \in DOMAIN ps : c < i => ps[i] = <<>>
      PROVE  Ordered(qs)
  <2> SUFFICES ASSUME NEW i \in DOMAIN qs, NEW j \in DOMAIN qs,
                      NEW k \in DOMAIN qs[i], NEW l \in DOMAIN qs[j], i < j \/ (i = j /\ k < l)
               PROVE  qs[i][k] < qs[j][l]
    BY DEF Ordered
  <2>1. CASE ~Newest(i, k) /\ ~Newest(j, l)
    <3>1. k \in DOMAIN ps[i] /\ qs[i][k] = ps[i][k]
      BY <1>2, <2>1
    <3>2. l \in DOMAIN ps[j] /\ qs[j][l] = ps[j][l]
      BY <1>2, <2>1
    <3>3. ps[i][k] < ps[j][l]
      BY <1>5, <3>1, <3>2 DEF Ordered
    <3> QED  BY <3>1, <3>2, <3>3
  <2>2. CASE ~Newest(i, k) /\ Newest(j, l)
    BY <1>2, <2>2
  <2>3. ASSUME Newest(i, k) PROVE FALSE
    <3>1. CASE i < j
      <4>1. i \in Nat /\ j \in Nat
        BY IndexIsNat
      <4>2. i = c
        BY <2>3
      <4>3. j \in DOMAIN ps /\ j # c /\ c < j
        BY <3>1, <4>1, <4>2
      <4>4. ps[j] = <<>>
        BY <1>5, <4>3
      <4>5. qs[j] = <<>>
        BY <4>3, <4>4
      <4> QED  BY <4>5
    <3>2. CASE i = j /\ k < l
      BY <1>1, <2>3, <3>2
    <3> QED  BY <3>1, <3>2
  <2> QED  BY <2>1, <2>2, <2>3
<1> QED  BY <1>3, <1>4, <1>5

\* The open table becomes a block.
LEMMA TableFlushed ==
    ASSUME NEW bs \in Seq(Parsed), NEW rows \in Seq(Nat), NEW text \in Seq(Nat),
           NEW due, NEW inOrder \in BOOLEAN, Keeps(bs, rows, text, due, inOrder)
    PROVE  Keeps(bs \o Flush("table", rows), <<>>, text, due, inOrder)
<1>1. CASE rows = <<>>
  <2>1. bs \o Flush("table", rows) = bs
    BY <1>1 DEF Flush
  <2> QED  BY <1>1, <2>1
<1>2. CASE rows # <<>>
  <2>1. PICK cs : cs = bs \o Flush("table", rows)
    OBVIOUS
  <2>2. cs = bs \o <<[type |-> "table", lines |-> rows]>>
    BY <1>2, <2>1 DEF Flush
  <2>3. cs \in Seq(Parsed)
    BY <2>2, OneBlock
  <2>4. PICK n \in Nat : n = Len(bs)
    OBVIOUS
  <2>5. Len(cs) = n + 1 /\ cs[n + 1].lines = rows /\ \A i \in 1..n : cs[i] = bs[i]
    BY <2>2, <2>4
  <2>6. PICK ps : ps = PartsOf(bs, rows, text)
    OBVIOUS
  <2>7. PICK qs : qs = PartsOf(cs, <<>>, text)
    OBVIOUS
  <2>8. Holds(ps, n, bs, rows, text) /\ Holds(qs, n + 1, cs, <<>>, text)
    <3>1. <<>> \in Seq(Nat)
      OBVIOUS
    <3> QED  BY <2>3, <2>4, <2>5, <2>6, <2>7, <3>1, PartsAre
  <2>9. /\ ps \in Seq(Seq(Nat)) /\ qs \in Seq(Seq(Nat))
        /\ DOMAIN ps = 1..(n + 2) /\ DOMAIN qs = 1..(n + 3)
        /\ \A i \in 1..(n + 1) : qs[i] = ps[i]
        /\ qs[n + 2] = <<>> /\ qs[n + 3] = ps[n + 2]
    <3>1. DOMAIN qs = 1..(n + 3) /\ qs[n + 2] = <<>> /\ qs[n + 3] = text
      <4>1. n + 1 + 2 = n + 3 /\ n + 1 + 1 = n + 2
        OBVIOUS
      <4> QED  BY <2>8, <4>1 DEF Holds
    <3>2. ASSUME NEW i \in 1..(n + 1) PROVE qs[i] = ps[i]
      <4>1. qs[i] = cs[i].lines
        BY <2>8 DEF Holds
      <4>2. CASE i = n + 1
        BY <2>5, <2>8, <4>1, <4>2 DEF Holds
      <4>3. CASE i # n + 1
        <5>1. i \in 1..n
          BY <4>3
        <5> QED  BY <2>5, <2>8, <4>1, <5>1 DEF Holds
      <4> QED  BY <4>2, <4>3
    <3> QED  BY <2>8, <3>1, <3>2 DEF Holds
  <2>10. PICK g : g = [i \in 1..(n + 3) |-> IF i <= n + 1 THEN i ELSE n + 2]
    OBVIOUS
  <2>11. ASSUME NEW i \in DOMAIN qs, qs[i] # <<>>
         PROVE  /\ i # n + 2 /\ i \in 1..(n + 3)
                /\ g[i] = IF i <= n + 1 THEN i ELSE n + 2
                /\ g[i] \in DOMAIN ps /\ qs[i] = ps[g[i]]
    <3>1. i # n + 2 /\ i \in 1..(n + 3)
      BY <2>9, <2>11
    <3>2. g[i] = IF i <= n + 1 THEN i ELSE n + 2
      BY <2>10, <3>1
    <3>3. CASE i <= n + 1
      <4>1. i \in 1..(n + 1) /\ i \in 1..(n + 2)
        BY <3>1, <3>3
      <4> QED  BY <2>9, <3>1, <3>2, <3>3, <4>1
    <3>4. CASE i = n + 3
      BY <2>9, <3>1, <3>2, <3>4
    <3> QED  BY <3>1, <3>3, <3>4
  <2>12. ASSUME NEW i \in DOMAIN qs, NEW j \in DOMAIN qs, qs[i] # <<>>, qs[j] # <<>>
         PROVE  (g[i] = g[j] => i = j) /\ (i < j => g[i] < g[j])
    <3>1. /\ i # n + 2 /\ i \in 1..(n + 3) /\ g[i] = IF i <= n + 1 THEN i ELSE n + 2
          /\ j # n + 2 /\ j \in 1..(n + 3) /\ g[j] = IF j <= n + 1 THEN j ELSE n + 2
      BY <2>11, <2>12
    <3> QED  BY <3>1
  <2>14. ASSUME NEW i \in DOMAIN ps PROVE \E j \in DOMAIN qs : qs[j] = ps[i]
    <3>1. i = n + 2 \/ i \in 1..(n + 1)
      BY <2>9
    <3>2. n + 3 \in DOMAIN qs /\ \A j \in 1..(n + 1) : j \in DOMAIN qs
      BY <2>9
    <3> QED  BY <2>9, <3>1, <3>2
  <2>15. /\ LinesOf(qs) = LinesOf(ps) /\ (Once(ps) => Once(qs)) /\ (Ordered(ps) => Ordered(qs))
    <3>1. Moved(ps, qs, g) /\ Rises(qs, g)
      BY <2>11, <2>12, <2>14 DEF Moved, Rises
    <3> QED  BY <2>9, <3>1, Regrouped
  <2> QED  BY <2>1, <2>6, <2>7, <2>15 DEF Keeps
<1> QED  BY <1>1, <1>2

\* The open paragraph becomes a block: before the open table, if there is one.
LEMMA TextPushed ==
    ASSUME NEW bs \in Seq(Parsed), NEW rows \in Seq(Nat), NEW text \in Seq(Nat),
           NEW due, NEW inOrder \in BOOLEAN, Keeps(bs, rows, text, due, inOrder),
           inOrder => rows = <<>> \/ text = <<>>,
           NEW type \in {"title", "text", "list"}
    PROVE  Keeps(bs \o <<[type |-> type, lines |-> text]>>, rows, <<>>, due, inOrder)
<1>1. PICK cs : cs = bs \o <<[type |-> type, lines |-> text]>>
  OBVIOUS
<1>2. cs \in Seq(Parsed)
  BY <1>1, OneBlock
<1>3. PICK n \in Nat : n = Len(bs)
  OBVIOUS
<1>4. Len(cs) = n + 1 /\ cs[n + 1].lines = text /\ \A i \in 1..n : cs[i] = bs[i]
  BY <1>1, <1>3
<1>5. PICK ps : ps = PartsOf(bs, rows, text)
  OBVIOUS
<1>6. PICK qs : qs = PartsOf(cs, rows, <<>>)
  OBVIOUS
<1>7. Holds(ps, n, bs, rows, text) /\ Holds(qs, n + 1, cs, rows, <<>>)
  <2>1. <<>> \in Seq(Nat)
    OBVIOUS
  <2> QED  BY <1>2, <1>3, <1>4, <1>5, <1>6, <2>1, PartsAre
<1>8. /\ ps \in Seq(Seq(Nat)) /\ qs \in Seq(Seq(Nat))
      /\ DOMAIN ps = 1..(n + 2) /\ DOMAIN qs = 1..(n + 3)
      /\ \A i \in 1..n : qs[i] = ps[i]
      /\ qs[n + 1] = ps[n + 2] /\ qs[n + 2] = ps[n + 1] /\ qs[n + 3] = <<>>
      /\ ps[n + 1] = rows /\ ps[n + 2] = text
  <2>1. DOMAIN qs = 1..(n + 3) /\ qs[n + 2] = rows /\ qs[n + 3] = <<>>
    <3>1. n + 1 + 2 = n + 3 /\ n + 1 + 1 = n + 2
      OBVIOUS
    <3> QED  BY <1>7, <3>1 DEF Holds
  <2>2. \A i \in 1..(n + 1) : qs[i] = cs[i].lines
    BY <1>7 DEF Holds
  <2>3. ASSUME NEW i \in 1..n PROVE qs[i] = ps[i]
    <3>1. i \in 1..(n + 1)
      OBVIOUS
    <3> QED  BY <1>4, <1>7, <2>2, <3>1 DEF Holds
  <2>4. qs[n + 1] = text
    <3>1. n + 1 \in 1..(n + 1)
      OBVIOUS
    <3> QED  BY <1>4, <2>2, <3>1
  <2> QED  BY <1>7, <2>1, <2>3, <2>4 DEF Holds
<1>9. PICK g : g = [i \in 1..(n + 3) |-> IF i <= n THEN i ELSE IF i = n + 1 THEN n + 2 ELSE n + 1]
  OBVIOUS
<1>10. ASSUME NEW i \in DOMAIN qs, qs[i] # <<>>
       PROVE  /\ i \in 1..(n + 2)
              /\ g[i] = IF i <= n THEN i ELSE IF i = n + 1 THEN n + 2 ELSE n + 1
              /\ g[i] \in DOMAIN ps /\ qs[i] = ps[g[i]]
  <2>1. i \in 1..(n + 2) /\ i \in 1..(n + 3)
    BY <1>8, <1>10
  <2>2. g[i] = IF i <= n THEN i ELSE IF i = n + 1 THEN n + 2 ELSE n + 1
    BY <1>9, <2>1
  <2>3. CASE i <= n
    <3>1. i \in 1..n
      BY <2>1, <2>3
    <3> QED  BY <1>8, <2>1, <2>2, <2>3, <3>1
  <2>4. CASE i = n + 1
    BY <1>8, <2>1, <2>2, <2>4
  <2>5. CASE i = n + 2
    BY <1>8, <2>1, <2>2, <2>5
  <2> QED  BY <2>1, <2>3, <2>4, <2>5
<1>11. ASSUME NEW i \in DOMAIN qs, NEW j \in DOMAIN qs, qs[i] # <<>>, qs[j] # <<>>
       PROVE  /\ g[i] = g[j] => i = j
              /\ (rows = <<>> \/ text = <<>>) /\ i < j => g[i] < g[j]
  <2>1. /\ i \in 1..(n + 2) /\ g[i] = IF i <= n THEN i ELSE IF i = n + 1 THEN n + 2 ELSE n + 1
        /\ j \in 1..(n + 2) /\ g[j] = IF j <= n THEN j ELSE IF j = n + 1 THEN n + 2 ELSE n + 1
    BY <1>10, <1>11
  <2>2. ASSUME i = n + 1, j = n + 2 PROVE rows # <<>> /\ text # <<>>
    <3>1. qs[n + 1] = text /\ qs[n + 2] = rows
      BY <1>8
    <3>2. qs[n + 1] # <<>> /\ qs[n + 2] # <<>>
      BY <1>11, <2>2
    <3> QED  BY <3>1, <3>2
  <2> QED  BY <2>1, <2>2
<1>14. ASSUME NEW i \in DOMAIN ps PROVE \E j \in DOMAIN qs : qs[j] = ps[i]
  <2>0. DOMAIN ps = 1..(n + 2) /\ DOMAIN qs = 1..(n + 3)
    BY <1>8
  <2>1. i = n + 2 \/ i = n + 1 \/ i \in 1..n
    BY <2>0
  <2>2. n + 1 \in DOMAIN qs /\ n + 2 \in DOMAIN qs /\ \A j \in 1..n : j \in DOMAIN qs
    BY <2>0
  <2> QED  BY <1>8, <2>1, <2>2
<1>15. /\ LinesOf(qs) = LinesOf(ps) /\ (Once(ps) => Once(qs))
       /\ (rows = <<>> \/ text = <<>>) /\ Ordered(ps) => Ordered(qs)
  <2>1. Moved(ps, qs, g) /\ (rows = <<>> \/ text = <<>> => Rises(qs, g))
    BY <1>10, <1>11, <1>14 DEF Moved, Rises
  <2> QED  BY <1>8, <2>1, Regrouped
<1> QED  BY <1>1, <1>5, <1>6, <1>15 DEF Keeps

\* A paragraph that is flushed has its lines where they were, behind no rows.
LEMMA TextFlushed ==
    ASSUME NEW bs \in Seq(Parsed), NEW rows \in Seq(Nat), NEW text \in Seq(Nat),
           NEW due, NEW inOrder \in BOOLEAN, Keeps(bs, rows, text, due, inOrder),
           inOrder => rows = <<>> \/ text = <<>>
    PROVE  Keeps(bs \o Flush("text", text), rows, <<>>, due, inOrder)
<1>1. CASE text = <<>>
  <2>1. bs \o Flush("text", text) = bs
    BY <1>1 DEF Flush
  <2> QED  BY <1>1, <2>1
<1>2. CASE text # <<>>
  <2>1. Flush("text", text) = <<[type |-> "text", lines |-> text]>>
    BY <1>2 DEF Flush
  <2> QED  BY <2>1, TextPushed
<1> QED  BY <1>1, <1>2

\* A new line joins the open paragraph.
LEMMA TextGrows ==
    ASSUME NEW bs \in Seq(Parsed), NEW rows \in Seq(Nat), NEW text \in Seq(Nat),
           NEW due, NEW inOrder \in BOOLEAN, Keeps(bs, rows, text, due, inOrder),
           NEW n \in Nat, \A m \in due : m < n
    PROVE  Keeps(bs, rows, Append(text, n), due \cup {n}, inOrder)
<1>1. PICK ps : ps = PartsOf(bs, rows, text)
  OBVIOUS
<1>2. PICK qs : qs = PartsOf(bs, rows, Append(text, n))
  OBVIOUS
<1>3. PICK len \in Nat : len = Len(bs)
  OBVIOUS
<1>4. Holds(ps, len, bs, rows, text) /\ Holds(qs, len, bs, rows, Append(text, n))
  <2>1. Append(text, n) \in Seq(Nat)
    OBVIOUS
  <2> QED  BY <1>1, <1>2, <1>3, <2>1, PartsAre
<1>5. PICK c \in 1..(len + 2) : c = len + 2
  OBVIOUS
<1>6. /\ ps \in Seq(Seq(Nat)) /\ qs \in Seq(Seq(Nat)) /\ DOMAIN ps = 1..(len + 2)
      /\ DOMAIN qs = DOMAIN ps /\ c \in DOMAIN ps /\ qs[c] = Append(ps[c], n)
  BY <1>4, <1>5 DEF Holds
<1>7. ASSUME NEW i \in DOMAIN ps \ {c} PROVE qs[i] = ps[i]
  <2>1. i = len + 1 \/ i \in 1..len
    <3>1. i \in 1..(len + 2) /\ i # len + 2
      BY <1>5, <1>6
    <3> QED  BY <3>1
  <2> QED  BY <1>4, <2>1 DEF Holds
<1>8. \A i \in DOMAIN ps : c < i => ps[i] = <<>>
  BY <1>5, <1>6
<1>9. /\ LinesOf(qs) = LinesOf(ps) \cup {n} /\ (Once(ps) => Once(qs)) /\ (Ordered(ps) => Ordered(qs))
  <2>1. \A m \in LinesOf(ps) : m < n
    BY <1>1 DEF Keeps
  <2> QED  BY <1>6, <1>7, <1>8, <2>1, OneMore
<1> QED  BY <1>1, <1>2, <1>9 DEF Keeps

\* A new line joins the open table.
LEMMA TableGrows ==
    ASSUME NEW bs \in Seq(Parsed), NEW rows \in Seq(Nat),
           NEW due, NEW inOrder \in BOOLEAN, Keeps(bs, rows, <<>>, due, inOrder),
           NEW n \in Nat, \A m \in due : m < n
    PROVE  Keeps(bs, Append(rows, n), <<>>, due \cup {n}, inOrder)
<1>1. PICK ps : ps = PartsOf(bs, rows, <<>>)
  OBVIOUS
<1>2. PICK qs : qs = PartsOf(bs, Append(rows, n), <<>>)
  OBVIOUS
<1>3. PICK len \in Nat : len = Len(bs)
  OBVIOUS
<1>4. Holds(ps, len, bs, rows, <<>>) /\ Holds(qs, len, bs, Append(rows, n), <<>>)
  <2>1. Append(rows, n) \in Seq(Nat) /\ <<>> \in Seq(Nat)
    OBVIOUS
  <2> QED  BY <1>1, <1>2, <1>3, <2>1, PartsAre
<1>5. PICK c \in 1..(len + 2) : c = len + 1
  OBVIOUS
<1>6. /\ ps \in Seq(Seq(Nat)) /\ qs \in Seq(Seq(Nat)) /\ DOMAIN ps = 1..(len + 2)
      /\ DOMAIN qs = DOMAIN ps /\ c \in DOMAIN ps /\ qs[c] = Append(ps[c], n)
  BY <1>4, <1>5 DEF Holds
<1>7. ASSUME NEW i \in DOMAIN ps \ {c} PROVE qs[i] = ps[i] /\ (c < i => ps[i] = <<>>)
  <2>1. i = len + 2 \/ i \in 1..len
    <3>1. i \in 1..(len + 2) /\ i # len + 1
      BY <1>5, <1>6
    <3> QED  BY <3>1
  <2>2. i \in 1..len => ~(c < i)
    BY <1>5
  <2> QED  BY <1>4, <2>1, <2>2 DEF Holds
<1>8. \A i \in DOMAIN ps : c < i => ps[i] = <<>>
  <2>1. ~(c < c)
    BY <1>5
  <2> QED  BY <1>7, <2>1
<1>9. /\ LinesOf(qs) = LinesOf(ps) \cup {n} /\ (Once(ps) => Once(qs)) /\ (Ordered(ps) => Ordered(qs))
  <2>1. \A m \in LinesOf(ps) : m < n
    BY <1>1 DEF Keeps
  <2> QED  BY <1>6, <1>7, <1>8, <2>1, OneMore
<1> QED  BY <1>1, <1>2, <1>9 DEF Keeps

\* A new line is a block of its own when nothing is open.
LEMMA OwnLine ==
    ASSUME NEW bs \in Seq(Parsed), NEW due, NEW inOrder \in BOOLEAN,
           Keeps(bs, <<>>, <<>>, due, inOrder),
           NEW n \in Nat, \A m \in due : m < n, NEW type \in {"title", "list"}
    PROVE  Keeps(bs \o <<[type |-> type, lines |-> <<n>>]>>, <<>>, <<>>, due \cup {n}, inOrder)
<1>1. <<>> \in Seq(Nat) /\ <<n>> \in Seq(Nat) /\ Append(<<>>, n) = <<n>>
  OBVIOUS
<1>2. Keeps(bs, <<>>, Append(<<>>, n), due \cup {n}, inOrder)
  BY <1>1, TextGrows
<1>3. Keeps(bs, <<>>, <<n>>, due \cup {n}, inOrder)
  BY <1>1, <1>2
<1> QED  BY <1>1, <1>3, TextPushed

\* A line that is read is due unless it is blank outside of code.
LEMMA DueGrows ==
    ASSUME Types, CodeInv, NEW kind \in LineKinds, ReadLine(kind)
    PROVE  /\ DueLines' = IF kind # "blank" \/ inCode THEN DueLines \cup {Line} ELSE DueLines
           /\ Line \in Nat /\ \A m \in DueLines : m < Line
<1>1. /\ lines' \in Seq(LineKinds) /\ Len(lines') = Line /\ Len(lines) \in Nat /\ Line = Len(lines) + 1
      /\ DOMAIN lines = 1..Len(lines) /\ DOMAIN lines' = 1..Line /\ lines'[Line] = kind
      /\ \A n \in DOMAIN lines : lines'[n] = lines[n]
      /\ \A n \in 1..Line : Coded(n)' <=> Coded(n)
      /\ Coded(Line) <=> inCode
  BY ReadLineCoded DEF Line, Types, CodeInv
<1>2. \A n : n \in DueLines <=> n \in DOMAIN lines /\ (lines[n] # "blank" \/ Coded(n))
  BY DEF DueLines
<1>3. \A n : n \in DueLines' <=> n \in DOMAIN lines' /\ (lines'[n] # "blank" \/ Coded(n)')
  BY DEF DueLines
<1>4. ASSUME NEW n
      PROVE  n \in DueLines' <=> n \in DueLines \/ (n = Line /\ (kind # "blank" \/ inCode))
  <2>1. CASE n \in DOMAIN lines
    <3>1. n \in 1..Line /\ n # Line
      BY <1>1, <2>1
    <3> QED  BY <1>1, <1>2, <1>3, <2>1, <3>1
  <2>2. CASE n = Line
    <3>1. n \in 1..Line /\ n \notin DOMAIN lines
      BY <1>1, <2>2
    <3> QED  BY <1>1, <1>2, <1>3, <2>2, <3>1
  <2>3. CASE n \notin DOMAIN lines /\ n # Line
    <3>1. n \notin DOMAIN lines'
      BY <1>1, <2>3
    <3> QED  BY <1>2, <1>3, <2>3, <3>1
  <2> QED  BY <2>1, <2>2, <2>3
<1>5. \A m \in DueLines : m < Line
  BY <1>1, <1>2
<1>6. DueLines' = IF kind # "blank" \/ inCode THEN DueLines \cup {Line} ELSE DueLines
  <2>1. CASE kind # "blank" \/ inCode
    <3>1. \A n : n \in DueLines' <=> n \in DueLines \cup {Line}
      BY <1>4, <2>1
    <3> QED  BY <2>1, <3>1
  <2>2. CASE ~(kind # "blank" \/ inCode)
    BY <1>4, <2>2
  <2> QED  BY <2>1, <2>2
<1>7. Line \in Nat
  BY <1>1
<1> QED  BY <1>5, <1>6, <1>7

\* Code that came after a table stays: what is in order after a line was
\* before it.
LEMMA OrderWas ==
    ASSUME MarkdownInv, LinesInv, NEW kind \in LineKinds, ReadLine(kind),
           NEW o \in BOOLEAN, o = ~CodeAfterTable'
    PROVE  /\ Keeps(blocks, table, para, DueLines, o)
           /\ o => table = <<>> \/ para = <<>>
<1>1. o => ~CodeAfterTable
  BY CodeAfterTableStays DEF MarkdownInv
<1> QED  BY <1>1 DEF LinesInv, Keeps

\* A line of code, its fences included, joins the paragraph.
LEMMA CodeLineKeepsLines ==
    ASSUME MarkdownInv, LinesInv, NEW kind \in LineKinds, ReadLine(kind),
           kind = "fence" \/ inCode,
           para' = Append(para, Line), blocks' = blocks, table' = table
    PROVE  LinesInv'
<1>1. Types /\ CodeInv /\ TableInv
  BY DEF MarkdownInv
<1>2. PICK o \in BOOLEAN : o = ~CodeAfterTable'
  OBVIOUS
<1>3. Keeps(blocks, table, para, DueLines, o)
  BY <1>2, OrderWas
<1>4. DueLines' = DueLines \cup {Line} /\ Line \in Nat /\ \A m \in DueLines : m < Line
  BY <1>1, DueGrows
<1>5. Keeps(blocks', table', para', DueLines', o)
  <2>1. blocks \in Seq(Parsed) /\ table \in Seq(Nat) /\ para \in Seq(Nat)
    BY <1>1 DEF Types
  <2>2. Keeps(blocks, table, Append(para, Line), DueLines \cup {Line}, o)
    BY <1>3, <1>4, <2>1, TextGrows
  <2> QED  BY <1>4, <2>2
<1>6. o => table = <<>>
  <2>1. o => ~CodeAfterTable
    BY <1>1, <1>2, CodeAfterTableStays
  <2>2. ASSUME table # <<>>, ~CodeAfterTable PROVE CodeAfterTable'
    <3>1. /\ ~inCode /\ Len(lines) > 0 /\ lines[Len(lines)] = "row" /\ ~Coded(Len(lines))
      BY <1>1, <2>2 DEF TableInv
    <3> QED  BY <1>1, <3>1, CodeAfterTableStays
  <2> QED  BY <1>2, <2>1, <2>2
<1> QED  BY <1>2, <1>5, <1>6 DEF LinesInv

\* A title flushes the paragraph, then the rows, and comes after both.
LEMMA HeadingKeepsLines == ASSUME MarkdownInv, LinesInv, Heading PROVE LinesInv'
<1>1. /\ Types /\ CodeInv /\ ReadLine("title") /\ "title" \in LineKinds
      /\ para' = <<>> /\ table' = <<>>
  BY DEF Heading, MarkdownInv, LineKinds
<1>2. PICK o \in BOOLEAN : o = ~CodeAfterTable'
  OBVIOUS
<1>3. Keeps(blocks, table, para, DueLines, o) /\ (o => table = <<>> \/ para = <<>>)
  BY <1>1, <1>2, OrderWas
<1>4. blocks \in Seq(Parsed) /\ table \in Seq(Nat) /\ para \in Seq(Nat) /\ <<>> \in Seq(Nat)
  BY <1>1 DEF Types
<1>5. DueLines' = DueLines \cup {Line} /\ Line \in Nat /\ \A m \in DueLines : m < Line
  BY <1>1, DueGrows
<1>6. PICK b1 : b1 = blocks \o Flush("text", para)
  OBVIOUS
<1>7. PICK b2 : b2 = b1 \o Flush("table", table)
  OBVIOUS
<1>8. b1 \in Seq(Parsed) /\ b2 \in Seq(Parsed)
  BY <1>4, <1>6, <1>7, FlushText, FlushTable
<1>9. blocks' = b2 \o <<[type |-> "title", lines |-> <<Line>>]>>
  BY <1>6, <1>7 DEF Heading
<1>10. Keeps(b1, table, <<>>, DueLines, o)
  BY <1>3, <1>4, <1>6, TextFlushed
<1>11. Keeps(b2, <<>>, <<>>, DueLines, o)
  BY <1>4, <1>7, <1>8, <1>10, TableFlushed
<1>12. Keeps(blocks', <<>>, <<>>, DueLines', o)
  BY <1>4, <1>5, <1>8, <1>9, <1>11, OwnLine
<1> QED  BY <1>1, <1>2, <1>12 DEF LinesInv

\* An item flushes the rows, then the paragraph, and comes after both.
LEMMA ListItemKeepsLines == ASSUME MarkdownInv, LinesInv, ListItem PROVE LinesInv'
<1>1. /\ Types /\ CodeInv /\ ReadLine("item") /\ "item" \in LineKinds
      /\ para' = <<>> /\ table' = <<>>
  BY DEF ListItem, MarkdownInv, LineKinds
<1>2. PICK o \in BOOLEAN : o = ~CodeAfterTable'
  OBVIOUS
<1>3. Keeps(blocks, table, para, DueLines, o)
  BY <1>1, <1>2, OrderWas
<1>4. blocks \in Seq(Parsed) /\ table \in Seq(Nat) /\ para \in Seq(Nat) /\ <<>> \in Seq(Nat)
  BY <1>1 DEF Types
<1>5. DueLines' = DueLines \cup {Line} /\ Line \in Nat /\ \A m \in DueLines : m < Line
  BY <1>1, DueGrows
<1>6. PICK b1 : b1 = blocks \o Flush("table", table)
  OBVIOUS
<1>7. PICK b2 : b2 = b1 \o Flush("text", para)
  OBVIOUS
<1>8. b1 \in Seq(Parsed) /\ b2 \in Seq(Parsed)
  BY <1>4, <1>6, <1>7, FlushText, FlushTable
<1>9. blocks' = b2 \o <<[type |-> "list", lines |-> <<Line>>]>>
  BY <1>6, <1>7 DEF ListItem
<1>10. Keeps(b1, <<>>, para, DueLines, o)
  BY <1>3, <1>4, <1>6, TableFlushed
<1>11. Keeps(b2, <<>>, <<>>, DueLines, o)
  BY <1>4, <1>7, <1>8, <1>10, TextFlushed
<1>12. Keeps(blocks', <<>>, <<>>, DueLines', o)
  BY <1>4, <1>5, <1>8, <1>9, <1>11, OwnLine
<1> QED  BY <1>1, <1>2, <1>12 DEF LinesInv

\* A blank line flushes both and is not kept.
LEMMA BlankKeepsLines == ASSUME MarkdownInv, LinesInv, Blank PROVE LinesInv'
<1>1. /\ Types /\ CodeInv /\ ReadLine("blank") /\ "blank" \in LineKinds /\ ~inCode
      /\ para' = <<>> /\ table' = <<>>
  BY DEF Blank, MarkdownInv, LineKinds
<1>2. PICK o \in BOOLEAN : o = ~CodeAfterTable'
  OBVIOUS
<1>3. Keeps(blocks, table, para, DueLines, o)
  BY <1>1, <1>2, OrderWas
<1>4. blocks \in Seq(Parsed) /\ table \in Seq(Nat) /\ para \in Seq(Nat) /\ <<>> \in Seq(Nat)
  BY <1>1 DEF Types
<1>5. DueLines' = DueLines
  BY <1>1, DueGrows
<1>6. PICK b1 : b1 = blocks \o Flush("table", table)
  OBVIOUS
<1>7. b1 \in Seq(Parsed)
  BY <1>4, <1>6, FlushTable
<1>8. blocks' = b1 \o Flush("text", para)
  BY <1>6 DEF Blank
<1>9. Keeps(b1, <<>>, para, DueLines, o)
  BY <1>3, <1>4, <1>6, TableFlushed
<1>10. Keeps(blocks', <<>>, <<>>, DueLines', o)
  BY <1>4, <1>5, <1>7, <1>8, <1>9, TextFlushed
<1> QED  BY <1>1, <1>2, <1>10 DEF LinesInv

\* A row flushes the paragraph and joins the rows.
LEMMA RowKeepsLines == ASSUME MarkdownInv, LinesInv, Row PROVE LinesInv'
<1>1. /\ Types /\ CodeInv /\ ReadLine("row") /\ "row" \in LineKinds
      /\ para' = <<>> /\ table' = Append(table, Line) /\ blocks' = blocks \o Flush("text", para)
  BY DEF Row, MarkdownInv, LineKinds
<1>2. PICK o \in BOOLEAN : o = ~CodeAfterTable'
  OBVIOUS
<1>3. Keeps(blocks, table, para, DueLines, o) /\ (o => table = <<>> \/ para = <<>>)
  BY <1>1, <1>2, OrderWas
<1>4. blocks \in Seq(Parsed) /\ table \in Seq(Nat) /\ para \in Seq(Nat)
  BY <1>1 DEF Types
<1>5. DueLines' = DueLines \cup {Line} /\ Line \in Nat /\ \A m \in DueLines : m < Line
  BY <1>1, DueGrows
<1>6. PICK b1 : b1 = blocks \o Flush("text", para)
  OBVIOUS
<1>7. b1 \in Seq(Parsed) /\ Keeps(b1, table, <<>>, DueLines, o)
  BY <1>3, <1>4, <1>6, FlushText, TextFlushed
<1>8. Keeps(b1, Append(table, Line), <<>>, DueLines \cup {Line}, o)
  BY <1>4, <1>5, <1>7, TableGrows
<1> QED  BY <1>1, <1>2, <1>5, <1>6, <1>8 DEF LinesInv

\* A line of text flushes the rows and joins the paragraph.
LEMMA PlainKeepsLines == ASSUME MarkdownInv, LinesInv, Plain PROVE LinesInv'
<1>1. /\ Types /\ CodeInv /\ ReadLine("text") /\ "text" \in LineKinds
      /\ table' = <<>> /\ para' = Append(para, Line) /\ blocks' = blocks \o Flush("table", table)
  BY DEF Plain, MarkdownInv, LineKinds
<1>2. PICK o \in BOOLEAN : o = ~CodeAfterTable'
  OBVIOUS
<1>3. Keeps(blocks, table, para, DueLines, o)
  BY <1>1, <1>2, OrderWas
<1>4. blocks \in Seq(Parsed) /\ table \in Seq(Nat) /\ para \in Seq(Nat) /\ <<>> \in Seq(Nat)
  BY <1>1 DEF Types
<1>5. DueLines' = DueLines \cup {Line} /\ Line \in Nat /\ \A m \in DueLines : m < Line
  BY <1>1, DueGrows
<1>6. PICK b1 : b1 = blocks \o Flush("table", table)
  OBVIOUS
<1>7. b1 \in Seq(Parsed) /\ Keeps(b1, <<>>, para, DueLines, o)
  BY <1>3, <1>4, <1>6, FlushTable, TableFlushed
<1>8. Keeps(b1, <<>>, Append(para, Line), DueLines \cup {Line}, o)
  BY <1>4, <1>5, <1>7, TextGrows
<1> QED  BY <1>1, <1>2, <1>5, <1>6, <1>8 DEF LinesInv

\* The end flushes both.
LEMMA EndParseKeepsLines == ASSUME MarkdownInv, LinesInv, EndParse PROVE LinesInv'
<1>1. /\ Types /\ para' = <<>> /\ table' = <<>> /\ lines' = lines
  BY DEF EndParse, MarkdownInv
<1>2. PICK o \in BOOLEAN : o = ~CodeAfterTable
  OBVIOUS
<1>3. Keeps(blocks, table, para, DueLines, o) /\ (o => table = <<>> \/ para = <<>>)
  BY <1>2 DEF LinesInv
<1>4. blocks \in Seq(Parsed) /\ table \in Seq(Nat) /\ para \in Seq(Nat) /\ <<>> \in Seq(Nat)
  BY <1>1 DEF Types
<1>5. DueLines' = DueLines /\ CodeAfterTable' = CodeAfterTable
  BY <1>1 DEF DueLines, CodeAfterTable, Coded
<1>6. PICK b1 : b1 = blocks \o Flush("text", para)
  OBVIOUS
<1>7. b1 \in Seq(Parsed) /\ Keeps(b1, table, <<>>, DueLines, o)
  BY <1>3, <1>4, <1>6, FlushText, TextFlushed
<1>8. Keeps(b1 \o Flush("table", table), <<>>, <<>>, DueLines, o)
  BY <1>4, <1>7, TableFlushed
<1>9. blocks' = b1 \o Flush("table", table)
  BY <1>6 DEF EndParse
<1> QED  BY <1>1, <1>2, <1>5, <1>8, <1>9 DEF LinesInv

\* No line is read and none is kept.
LEMMA LinesInvInit == MarkdownInit => LinesInv
<1> SUFFICES ASSUME MarkdownInit PROVE LinesInv
  OBVIOUS
<1>1. PICK ps : ps = PartsOf(<<>>, <<>>, <<>>)
  OBVIOUS
<1>2. Holds(ps, 0, <<>>, <<>>, <<>>)
  <2>1. <<>> \in Seq(Parsed) /\ <<>> \in Seq(Nat) /\ Len(<<>>) = 0
    OBVIOUS
  <2> QED  BY <1>1, <2>1, PartsAre
<1>3. \A i \in DOMAIN ps : ps[i] = <<>>
  <2>1. ASSUME NEW i \in DOMAIN ps PROVE i = 1 \/ i = 2
    BY <1>2 DEF Holds
  <2> QED  BY <1>2, <2>1 DEF Holds
<1>4. LinesOf(ps) = {} /\ Once(ps) /\ Ordered(ps)
  BY <1>3 DEF LinesOf, Range, Once, Ordered
<1>5. DueLines = {}
  BY DEF MarkdownInit, DueLines
<1> QED  BY <1>1, <1>4, <1>5 DEF MarkdownInit, LinesInv, Keeps

\* Every step keeps every line.
LEMMA LinesInvNext ==
    MarkdownInv /\ LinesInv /\ [MarkdownNext]_markdownVars => LinesInv'
<1> SUFFICES ASSUME MarkdownInv, LinesInv, [MarkdownNext]_markdownVars PROVE LinesInv'
  OBVIOUS
<1>1. CASE UNCHANGED markdownVars
  BY <1>1 DEF markdownVars, LinesInv, DueLines, CodeAfterTable, Coded
<1>2. CASE Fence
  <2>1. ReadLine("fence") /\ "fence" \in LineKinds /\ para' = Append(para, Line)
        /\ blocks' = blocks /\ table' = table
    BY <1>2 DEF Fence, LineKinds
  <2> QED  BY <2>1, CodeLineKeepsLines
<1>3. CASE Code
  <2>1. PICK kind \in LineKinds : ReadLine(kind)
    BY <1>3 DEF Code
  <2>2. inCode /\ para' = Append(para, Line) /\ blocks' = blocks /\ table' = table
    BY <1>3 DEF Code
  <2> QED  BY <2>1, <2>2, CodeLineKeepsLines
<1> QED
  BY <1>1, <1>2, <1>3, HeadingKeepsLines, RowKeepsLines, ListItemKeepsLines, BlankKeepsLines,
     PlainKeepsLines, EndParseKeepsLines DEF MarkdownNext

\* The parser loses no line of a document of any length and gives none twice,
\* whichever of the paragraph and the table a line closes or joins; and the
\* blocks follow the document unless a code block comes right after a table.
THEOREM EveryLineIsKept == MarkdownSpec => []LinesKept
<1>1. MarkdownInit => MarkdownInv /\ LinesInv
  BY MarkdownInvInit, LinesInvInit
<1>2. MarkdownInv /\ LinesInv /\ [MarkdownNext]_markdownVars => MarkdownInv' /\ LinesInv'
  BY MarkdownInvNext, LinesInvNext
<1>3. LinesInv => LinesKept
  <2>1. Kept = PartsOf(blocks, table, para)
    BY DEF Kept, PartsOf
  <2> QED  BY <2>1 DEF LinesInv, Keeps, LinesKept
<1> QED  BY <1>1, <1>2, <1>3, PTL DEF MarkdownSpec

-----------------------------------------------------------------------------
(* Types *)

Filled(s) == \A i \in DOMAIN s : s[i].lines # <<>>

\* What flushing never does, and what the types need besides the lines' places:
\* a block without lines is not made, and no more is read than the bound.
LimitInv == Len(lines) <= MaxLines /\ Filled(blocks)

\* Blocks with lines after blocks with lines.
LEMMA FilledOn ==
    ASSUME NEW s \in Seq(Parsed), NEW t \in Seq(Parsed), Filled(s), Filled(t)
    PROVE  Filled(s \o t) /\ s \o t \in Seq(Parsed)
<1>1. /\ s \o t \in Seq(Parsed) /\ Len(s \o t) = Len(s) + Len(t) /\ Len(s) \in Nat /\ Len(t) \in Nat
      /\ \A i \in 1..(Len(s) + Len(t)) : (s \o t)[i] = IF i <= Len(s) THEN s[i] ELSE t[i - Len(s)]
  OBVIOUS
<1>2. ASSUME NEW i \in DOMAIN (s \o t) PROVE (s \o t)[i].lines # <<>>
  <2>1. i \in 1..(Len(s) + Len(t))
    BY <1>1
  <2>2. CASE i <= Len(s)
    BY <1>1, <2>1, <2>2 DEF Filled
  <2>3. CASE ~(i <= Len(s))
    <3>1. i - Len(s) \in 1..Len(t)
      BY <1>1, <2>1, <2>3
    <3>2. i - Len(s) \in DOMAIN t /\ (s \o t)[i] = t[i - Len(s)]
      BY <1>1, <2>1, <2>3, <3>1
    <3> QED  BY <3>2 DEF Filled
  <2> QED  BY <2>2, <2>3
<1> QED  BY <1>1, <1>2 DEF Filled

\* What is flushed is nothing or a block with lines.
LEMMA FlushFilled ==
    ASSUME NEW s \in Seq(Parsed), NEW type \in {"text", "table"}, NEW open \in Seq(Nat), Filled(s)
    PROVE  Filled(s \o Flush(type, open)) /\ s \o Flush(type, open) \in Seq(Parsed)
<1>1. Flush(type, open) \in Seq(Parsed) /\ Filled(Flush(type, open))
  <2>1. CASE open = <<>>
    <3>1. Flush(type, open) = <<>>
      BY <2>1 DEF Flush
    <3> QED  BY <3>1 DEF Filled
  <2>2. CASE open # <<>>
    <3>1. [type |-> type, lines |-> open] \in Parsed
      BY DEF Parsed
    <3>2. Flush(type, open) = <<[type |-> type, lines |-> open]>>
      BY <2>2 DEF Flush
    <3> QED  BY <2>2, <3>1, <3>2 DEF Filled
  <2> QED  BY <2>1, <2>2
<1> QED  BY <1>1, FilledOn

\* A title or an item has its own line.
LEMMA OwnFilled ==
    ASSUME NEW s \in Seq(Parsed), NEW type \in {"title", "list"}, NEW n \in Nat, Filled(s)
    PROVE  Filled(s \o <<[type |-> type, lines |-> <<n>>]>>)
<1>1. [type |-> type, lines |-> <<n>>] \in Parsed
  BY DEF Parsed
<1>2. PICK b : b = [type |-> type, lines |-> <<n>>]
  OBVIOUS
<1>3. <<b>> \in Seq(Parsed) /\ b.lines # <<>>
  BY <1>1, <1>2
<1>4. Filled(<<b>>)
  BY <1>3 DEF Filled
<1> QED  BY <1>2, <1>3, <1>4, FilledOn

\* Nothing is read and there is no block.
LEMMA LimitInvInit == MarkdownInit => LimitInv
BY LinesAssumption DEF MarkdownInit, LimitInv, Filled

\* No step reads beyond the bound or makes a block without lines.
LEMMA LimitInvNext == MarkdownInv /\ LimitInv /\ [MarkdownNext]_markdownVars => LimitInv'
<1> SUFFICES ASSUME MarkdownInv, LimitInv, [MarkdownNext]_markdownVars PROVE LimitInv'
  OBVIOUS
<1>1. /\ blocks \in Seq(Parsed) /\ para \in Seq(Nat) /\ table \in Seq(Nat) /\ lines \in Seq(LineKinds)
      /\ Line \in Nat /\ MaxLines \in Nat
  BY LineIsNat, LinesAssumption DEF MarkdownInv, Types
<1>2. Len(lines) <= MaxLines /\ Filled(blocks)
  BY DEF LimitInv
<1>3. ASSUME NEW kind, ReadLine(kind) PROVE Len(lines') <= MaxLines
  <2>1. Len(lines') = Len(lines) + 1 /\ Len(lines) < MaxLines /\ Len(lines) \in Nat
    BY <1>1, <1>3 DEF ReadLine
  <2> QED  BY <1>1, <2>1
<1>4. CASE UNCHANGED markdownVars
  BY <1>2, <1>4 DEF markdownVars, LimitInv, Filled
<1>5. CASE Fence
  BY <1>2, <1>3, <1>5 DEF Fence, LimitInv, Filled
<1>6. CASE Code
  BY <1>2, <1>3, <1>6 DEF Code, LimitInv, Filled
<1>7. CASE Heading
  <2>1. PICK b1 : b1 = blocks \o Flush("text", para)
    OBVIOUS
  <2>2. PICK b2 : b2 = b1 \o Flush("table", table)
    OBVIOUS
  <2>3. b1 \in Seq(Parsed) /\ Filled(b1)
    BY <1>1, <1>2, <2>1, FlushFilled
  <2>4. b2 \in Seq(Parsed) /\ Filled(b2)
    BY <1>1, <2>2, <2>3, FlushFilled
  <2>5. Filled(b2 \o <<[type |-> "title", lines |-> <<Line>>]>>)
    BY <1>1, <2>4, OwnFilled
  <2>6. blocks' = b2 \o <<[type |-> "title", lines |-> <<Line>>]>>
    BY <1>7, <2>1, <2>2 DEF Heading
  <2>7. Len(lines') <= MaxLines
    BY <1>3, <1>7 DEF Heading
  <2> QED  BY <2>5, <2>6, <2>7 DEF LimitInv, Filled
<1>8. CASE Row
  <2>1. Filled(blocks \o Flush("text", para))
    BY <1>1, <1>2, FlushFilled
  <2>2. Len(lines') <= MaxLines /\ blocks' = blocks \o Flush("text", para)
    BY <1>3, <1>8 DEF Row
  <2> QED  BY <2>1, <2>2 DEF LimitInv, Filled
<1>9. CASE ListItem
  <2>1. PICK b1 : b1 = blocks \o Flush("table", table)
    OBVIOUS
  <2>2. PICK b2 : b2 = b1 \o Flush("text", para)
    OBVIOUS
  <2>3. b1 \in Seq(Parsed) /\ Filled(b1)
    BY <1>1, <1>2, <2>1, FlushFilled
  <2>4. b2 \in Seq(Parsed) /\ Filled(b2)
    BY <1>1, <2>2, <2>3, FlushFilled
  <2>5. Filled(b2 \o <<[type |-> "list", lines |-> <<Line>>]>>)
    BY <1>1, <2>4, OwnFilled
  <2>6. blocks' = b2 \o <<[type |-> "list", lines |-> <<Line>>]>>
    BY <1>9, <2>1, <2>2 DEF ListItem
  <2>7. Len(lines') <= MaxLines
    BY <1>3, <1>9 DEF ListItem
  <2> QED  BY <2>5, <2>6, <2>7 DEF LimitInv, Filled
<1>10. CASE Blank
  <2>1. PICK b1 : b1 = blocks \o Flush("table", table)
    OBVIOUS
  <2>2. b1 \in Seq(Parsed) /\ Filled(b1)
    BY <1>1, <1>2, <2>1, FlushFilled
  <2>3. Filled(b1 \o Flush("text", para))
    BY <1>1, <2>2, FlushFilled
  <2>4. Len(lines') <= MaxLines /\ blocks' = b1 \o Flush("text", para)
    BY <1>3, <1>10, <2>1 DEF Blank
  <2> QED  BY <2>3, <2>4 DEF LimitInv, Filled
<1>11. CASE Plain
  <2>1. Filled(blocks \o Flush("table", table))
    BY <1>1, <1>2, FlushFilled
  <2>2. Len(lines') <= MaxLines /\ blocks' = blocks \o Flush("table", table)
    BY <1>3, <1>11 DEF Plain
  <2> QED  BY <2>1, <2>2 DEF LimitInv, Filled
<1>12. CASE EndParse
  <2>1. PICK b1 : b1 = blocks \o Flush("text", para)
    OBVIOUS
  <2>2. b1 \in Seq(Parsed) /\ Filled(b1)
    BY <1>1, <1>2, <2>1, FlushFilled
  <2>3. Filled(b1 \o Flush("table", table))
    BY <1>1, <2>2, FlushFilled
  <2>4. lines' = lines /\ blocks' = b1 \o Flush("table", table)
    BY <1>12, <2>1 DEF EndParse
  <2> QED  BY <1>2, <2>3, <2>4 DEF LimitInv, Filled
<1> QED
  BY <1>4, <1>5, <1>6, <1>7, <1>8, <1>9, <1>10, <1>11, <1>12 DEF MarkdownNext

\* Where the lines are kept no line is that the document does not have.
LEMMA MarkdownTyped == MarkdownInv /\ LinesInv /\ LimitInv => MarkdownTypeOK
<1> SUFFICES ASSUME MarkdownInv, LinesInv, LimitInv PROVE MarkdownTypeOK
  OBVIOUS
<1>1. Types /\ Keeps(blocks, table, para, DueLines, ~CodeAfterTable)
  BY DEF MarkdownInv, LinesInv
<1>2. blocks \in Seq(Parsed) /\ table \in Seq(Nat) /\ para \in Seq(Nat)
  BY <1>1 DEF Types
<1>3. PICK ps : ps = PartsOf(blocks, table, para)
  OBVIOUS
<1>4. LinesOf(ps) \subseteq DOMAIN lines
  BY <1>1, <1>3 DEF Keeps, DueLines
<1>5. ASSUME NEW i \in DOMAIN ps, ps[i] \in Seq(Nat) PROVE ps[i] \in Seq(DOMAIN lines)
  <2>1. \A k \in DOMAIN ps[i] : ps[i][k] \in DOMAIN lines
    BY <1>4 DEF LinesOf, Range
  <2> QED  BY <1>5, <2>1
<1>6. PICK n : Holds(ps, n, blocks, table, para)
  BY <1>2, <1>3, PartsAre
<1>7. para \in Seq(DOMAIN lines) /\ table \in Seq(DOMAIN lines)
  <2>1. n + 1 \in DOMAIN ps /\ n + 2 \in DOMAIN ps /\ ps[n + 1] = table /\ ps[n + 2] = para
    BY <1>6 DEF Holds
  <2> QED  BY <1>2, <1>5, <2>1
<1>8. ASSUME NEW i \in DOMAIN blocks PROVE blocks[i].lines \in Seq(DOMAIN lines)
  <2>1. blocks[i] \in Parsed
    BY <1>2
  <2>2. blocks[i].lines \in Seq(Nat)
    BY <2>1 DEF Parsed
  <2> QED  BY <1>5, <1>6, <2>2 DEF Holds
<1>9. ASSUME NEW i \in DOMAIN blocks PROVE blocks[i].type \in {"title", "text", "table", "list"}
  <2>1. blocks[i] \in Parsed
    BY <1>2
  <2> QED  BY <2>1 DEF Parsed
<1> QED  BY <1>1, <1>7, <1>8, <1>9 DEF Types, LimitInv, Filled, MarkdownTypeOK

=============================================================================
