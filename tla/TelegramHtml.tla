---------------------------- MODULE TelegramHtml ----------------------------
(***************************************************************************)
(* From the markdown of a reply to the messages sent to Telegram:          *)
(*   agent/src/core/channels/markdown_html.rs   render_telegram            *)
(*   agent/src/core/channels/telegram.rs        strip_tags                 *)
(*                                                                         *)
(* A line is rendered to tokens of HTML: tags, and atoms of text.  Blocks  *)
(* of lines are packed into chunks of at most Limit characters; a block    *)
(* that is longer is split between tokens, its open tags closed and opened *)
(* again.  Text is a sequence of one-character strings.  A token has the   *)
(* width it has on the wire, with links and languages of one character.    *)
(***************************************************************************)
EXTENDS Integers, Sequences, SequencesExt

CONSTANTS
  Limit,              \* TELEGRAM_LIMIT
  MaxInlineDepth,     \* MAX_INLINE_DEPTH
  MobileGridMaxWidth  \* MOBILE_GRID_MAX_WIDTH

ASSUME HtmlAssumption ==
  /\ Limit \in Nat \ {0} /\ MaxInlineDepth \in Nat \ {0}
  /\ MobileGridMaxWidth \in Nat

Open(name) == <<"open", name>>
Close(name) == <<"close", name>>
Atom(c) == <<"atom", c>>
Escape(s) == [i \in 1..Len(s) |-> Atom(s[i])]
Wrap(name, tokens) == <<Open(name)>> \o tokens \o <<Close(name)>>
Newline == Atom("\n")

\* The tags <b> .. <blockquote>, <a href="u"> and <code class="language-l">.
OpenWidth == [b |-> 3, i |-> 3, s |-> 3, u |-> 3, pre |-> 5, code |-> 6,
              a |-> 12, language |-> 25, blockquote |-> 12]
CloseWidth == [b |-> 4, i |-> 4, s |-> 4, u |-> 4, pre |-> 6, code |-> 7,
               a |-> 4, language |-> 7, blockquote |-> 13]

\* "<" is written "&lt;", which tokenize_html keeps whole.
Width(token) ==
  CASE token[1] = "open" -> OpenWidth[token[2]]
    [] token[1] = "close" -> CloseWidth[token[2]]
    [] OTHER -> IF token[2] = "<" THEN 4 ELSE 1

WidthOf(tokens) == FoldLeft(LAMBDA n, t : n + Width(t), 0, tokens)
Closers(open) == [k \in 1..Len(open) |-> Close(open[Len(open) + 1 - k][2])]

-----------------------------------------------------------------------------
(* One line: render_inline.                                                *)

Alphanumeric == {"p", "q", "r", "t"}
Backtick == "tick"

Least(S) == IF S = {} THEN 0 ELSE CHOOSE j \in S : \A k \in S : j <= k
Find(s, from, c) == Least({j \in from..Len(s) : s[j] = c})
FindDouble(s, from, c) == Least({j \in from..(Len(s) - 1) : s[j] = c /\ s[j + 1] = c})

\* The ")" that closes a link, balanced pairs before it skipped.
Count(s, from, to, c) == Len(SelectSeq(SubSeq(s, from, to), LAMBDA x : x = c))
FindUrlClose(s, from) ==
  Least({j \in from..Len(s) :
           s[j] = ")" /\ Count(s, from, j - 1, "(") = Count(s, from, j - 1, ")")})

Span(tag, from, to, next) == [tag |-> tag, from |-> from, to |-> to, next |-> next]
NoSpan == Span("", 0, 0, 0)

CodeAt(s, i) ==
  LET close == Find(s, i + 1, Backtick) IN
  IF s[i] = Backtick /\ close # 0 THEN Span("code", i + 1, close - 1, close + 1) ELSE NoSpan

LinkAt(s, i) ==
  LET closeText == Find(s, i + 1, "]")
      closeUrl == FindUrlClose(s, closeText + 2)
  IN IF /\ s[i] = "["
        /\ closeText # 0 /\ closeText < Len(s) /\ s[closeText + 1] = "("
        /\ closeUrl # 0
     THEN Span("a", i + 1, closeText - 1, closeUrl + 1) ELSE NoSpan

\* "_" inside a word is no emphasis.
Guarded(s, i) == s[i] = "_" /\ i > 1 /\ s[i - 1] \in Alphanumeric

DoubleAt(s, i, tag, delims) ==
  LET close == FindDouble(s, i + 2, s[i]) IN
  IF /\ s[i] \in delims /\ i < Len(s) /\ s[i + 1] = s[i]
     /\ ~Guarded(s, i)
     /\ close > i + 2
  THEN Span(tag, i + 2, close - 1, close + 2) ELSE NoSpan

ItalicAt(s, i) ==
  LET close == Find(s, i + 1, s[i]) IN
  IF s[i] \in {"*", "_"} /\ ~Guarded(s, i) /\ close > i + 1
  THEN Span("i", i + 1, close - 1, close + 1) ELSE NoSpan

\* What starts at s[i], in the order the code tries them.
FirstSpan(spans) ==
  LET found == {k \in 1..Len(spans) : spans[k] # NoSpan}
  IN IF found = {} THEN NoSpan ELSE spans[Least(found)]
SpanAt(s, i) ==
  FirstSpan(<<CodeAt(s, i), LinkAt(s, i), DoubleAt(s, i, "b", {"*", "_"}),
              DoubleAt(s, i, "s", {"~"}), ItalicAt(s, i)>>)

\* A character, or a span with what is in it; then the rest of the line.  The
\* place is a text, a position in it and how deep the text is in spans.
InlineFrom[place \in Seq(STRING) \X (Nat \ {0}) \X Nat] ==
  LET s == place[1]
      i == place[2]
      depth == place[3]
      span == SpanAt(s, i)
      content == SubSeq(s, span.from, span.to)
      inner == IF span.tag = "code" \/ depth + 1 >= MaxInlineDepth
               THEN Escape(content) ELSE InlineFrom[<<content, 1, depth + 1>>]
  IN IF i > Len(s) THEN <<>>
     ELSE IF span = NoSpan
          THEN <<Atom(s[i])>> \o InlineFrom[<<s, i + 1, depth>>]
          ELSE Wrap(span.tag, inner) \o InlineFrom[<<s, span.next, depth>>]

RenderInline(s) == InlineFrom[<<s, 1, 0>>]

-----------------------------------------------------------------------------
(* Tables.                                                                 *)

\* A line is its kind and its text, the mark that gives it the kind taken off.
LineKinds == {"fence", "tagged", "heading", "subheading", "quote", "item",
              "blank", "rule", "text"}
Lines == Seq([kind : LineKinds, text : Seq(STRING)])

IsFence(line) == line.kind \in {"fence", "tagged"}
IsTableRow(line) == line.kind # "blank" /\ Contains(line.text, "|")
IsSeparator(line) == line.kind = "rule"

CellsWith(cells, c) ==
  IF c = "|" THEN Append(cells, <<>>) ELSE Front(cells) \o <<Append(Last(cells), c)>>
SplitRow(text) ==
  LET t == IF text # <<>> /\ Head(text) = "|" THEN Tail(text) ELSE text
      u == IF t # <<>> /\ Last(t) = "|" THEN Front(t) ELSE t
  IN FoldLeft(CellsWith, <<<<>>>>, u)

Joined(parts, separator) ==
  IF parts = <<>> THEN <<>>
  ELSE FoldLeft(LAMBDA s, part : s \o separator \o part, Head(parts), Tail(parts))

TrimEnd(s) ==
  SubSeq(s, 1, LET n == {k \in 1..Len(s) : s[k] # " "}
               IN IF n = {} THEN 0 ELSE CHOOSE k \in n : \A j \in n : j <= k)

CellAt(row, c) == IF c <= Len(row) THEN row[c] ELSE <<>>

FormatRow(row, widths) ==
  LET padded == [c \in 1..Len(widths) |->
        CellAt(row, c) \o [k \in 1..(widths[c] - Len(CellAt(row, c))) |-> " "]]
  IN TrimEnd(Joined(padded, <<" ", "|", " ">>))

\* The first row that is no longer the table's, from the one below the rule.
TableEnd(lines, i) ==
  Least({j \in (i + 2)..(Len(lines) + 1) :
           j <= Len(lines) => ~IsTableRow(lines[j]) \/ IsSeparator(lines[j])})

\* The rows: the header, and those below the rule cut or filled to its length.
TableRows(lines, i) ==
  LET header == SplitRow(lines[i].text)
      below == [k \in 1..(TableEnd(lines, i) - i - 2) |->
                  LET row == SplitRow(lines[i + 1 + k].text)
                  IN [c \in 1..Len(header) |-> CellAt(row, c)]]
  IN <<header>> \o below

RenderTable(rows) ==
  LET header == rows[1]
      columns == 1..Len(header)
      widths == [c \in columns |->
                   Len(rows[CHOOSE r \in 1..Len(rows) : \A q \in 1..Len(rows) :
                         Len(rows[q][c]) <= Len(rows[r][c])][c])]
      gridWidth == FoldLeft(+, 0, widths) + 3 * (Len(header) - 1)
      grid == [r \in 1..Len(rows) |-> Escape(FormatRow(rows[r], widths))]
      record(row) == Wrap("b", Escape(row[1])) \o
        FlattenSeq([c \in 1..(Len(header) - 1) |->
          <<Newline>> \o Escape(<<" ", " ">> \o header[c + 1] \o <<":", " ">> \o row[c + 1])])
  IN IF Len(rows) <= 1 \/ gridWidth <= MobileGridMaxWidth
     THEN Wrap("pre", Joined(grid, <<Newline>>))
     ELSE Joined([r \in 1..(Len(rows) - 1) |-> record(rows[r + 1])], <<Newline, Newline>>)

-----------------------------------------------------------------------------
(* Blocks: render_blocks.                                                  *)

\* The first line from j on that is no longer of the kind.
EndOf(lines, j, InBlock(_)) ==
  Least({k \in j..(Len(lines) + 1) : k <= Len(lines) => ~InBlock(lines[k])})

\* A fence that is never closed runs to the end.
CodeBlock(lines, i) ==
  LET end == EndOf(lines, i + 1, LAMBDA line : ~IsFence(line))
      body == FlattenSeq([k \in 1..(end - i - 1) |-> Escape(lines[i + k].text) \o <<Newline>>])
  IN [tokens |-> Wrap("pre", IF lines[i].kind = "tagged" THEN Wrap("language", body) ELSE body),
      next |-> end + 1]

Blockquote(lines, i) ==
  LET end == EndOf(lines, i, LAMBDA line : line.kind = "quote")
  IN [tokens |-> Wrap("blockquote",
                   Joined([k \in 1..(end - i) |-> RenderInline(lines[i + k - 1].text)], <<Newline>>)),
      next |-> end]

LineBlock(line) ==
  CASE line.kind = "heading" -> Wrap("u", Wrap("b", RenderInline(line.text)))
    [] line.kind = "subheading" -> Wrap("b", RenderInline(line.text))
    [] line.kind = "item" -> Escape(<<"-", " ">>) \o RenderInline(line.text)
    [] OTHER -> RenderInline(line.text)

BlockAt(lines, i) ==
  CASE IsFence(lines[i]) -> CodeBlock(lines, i)
    [] ~IsFence(lines[i]) /\ IsTableRow(lines[i]) /\ i < Len(lines) /\ IsSeparator(lines[i + 1])
         -> [tokens |-> RenderTable(TableRows(lines, i)), next |-> TableEnd(lines, i)]
    [] OTHER -> IF lines[i].kind = "quote" THEN Blockquote(lines, i)
                ELSE [tokens |-> LineBlock(lines[i]), next |-> i + 1]

RenderBlocks(lines) ==
  LET BlocksFrom[i \in Nat \ {0}] ==
        IF i > Len(lines) THEN <<>>
        ELSE LET block == BlockAt(lines, i)
             IN (IF lines[i].kind = "blank" THEN <<>> ELSE <<block.tokens>>) \o BlocksFrom[block.next]
  IN BlocksFrom[1]

-----------------------------------------------------------------------------
(* Splitting and packing.                                                  *)

\* Where split_block is: the chunks so far, the one it fills, the tags open in
\* it, and whether it holds more than reopened tags.
EmptySplit == [out |-> <<>>, cur |-> <<>>, open |-> <<>>, progressed |-> FALSE]

Flushed(x) == Append(x.out, x.cur \o Closers(x.open))

\* The token does not fit, with the closing tags that must follow it.
Overflows(x, token) ==
  /\ x.progressed
  /\ WidthOf(x.cur) + Width(token) + WidthOf(Closers(x.open))
       + (IF token[1] = "open" THEN CloseWidth[token[2]] ELSE 0) > Limit

\* Mutant of Reopened: the next chunk starts without the tags that are open.
ReopenedBare(x) == [x EXCEPT !.out = Flushed(x), !.cur = <<>>, !.progressed = FALSE]

Reopened(x) == [x EXCEPT !.out = Flushed(x), !.cur = x.open, !.progressed = FALSE]

SplitToken(x, token) ==
  LET y == IF Overflows(x, token) THEN Reopened(x) ELSE x IN
  [out |-> y.out,
   cur |-> Append(y.cur, token),
   open |-> CASE token[1] = "open" -> Append(y.open, token)
              [] token[1] = "close" -> Front(y.open)
              [] OTHER -> y.open,
   progressed |-> TRUE]

SplitBlock(tokens) ==
  IF WidthOf(tokens) <= Limit THEN <<tokens>>
  ELSE Flushed(FoldLeft(SplitToken, EmptySplit, tokens))

\* Mutant of PackBlock: a block that is split drops the chunk before it.
PackBlockDrops(x, block) ==
  IF WidthOf(block) > Limit
  THEN [chunks |-> x.chunks \o SplitBlock(block), current |-> <<>>]
  ELSE [chunks |-> x.chunks \o (IF x.current = <<>> THEN <<>> ELSE <<x.current>>),
        current |-> block]

\* chunk_blocks, one block: into the current chunk, into a new one, or split.
PackBlock(x, block) ==
  LET full == IF x.current = <<>> THEN x.chunks ELSE Append(x.chunks, x.current) IN
  IF WidthOf(block) > Limit
  THEN [chunks |-> full \o SplitBlock(block), current |-> <<>>]
  ELSE IF x.current = <<>> THEN [chunks |-> x.chunks, current |-> block]
  ELSE IF WidthOf(x.current) + 1 + WidthOf(block) > Limit
       THEN [chunks |-> full, current |-> block]
       ELSE [chunks |-> x.chunks, current |-> x.current \o <<Newline>> \o block]

ChunkBlocks(blocks) ==
  LET x == FoldLeft(PackBlock, [chunks |-> <<>>, current |-> <<>>], blocks) IN
  IF x.current = <<>> THEN x.chunks ELSE Append(x.chunks, x.current)

RenderTelegram(lines) == ChunkBlocks(RenderBlocks(lines))

\* strip_tags: the plain text that is sent when Telegram refuses the HTML.
StripTags(tokens) ==
  FlattenSeq([k \in 1..Len(tokens) |->
    IF tokens[k][1] = "atom" THEN <<tokens[k][2]>> ELSE <<>>])

\* What Telegram accepts: every tag is closed, the last one opened first.
WellFormed(tokens) ==
  LET step(x, t) ==
        CASE t[1] = "open" -> [x EXCEPT !.open = Append(@, t[2])]
          [] t[1] = "close" ->
               IF x.open # <<>> /\ Last(x.open) = t[2]
               THEN [x EXCEPT !.open = Front(@)] ELSE [x EXCEPT !.ok = FALSE]
          [] OTHER -> x
      end == FoldLeft(step, [open |-> <<>>, ok |-> TRUE], tokens)
  IN end.ok /\ end.open = <<>>
=============================================================================
