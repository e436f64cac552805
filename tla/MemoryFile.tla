----------------------------- MODULE MemoryFile -----------------------------
(***************************************************************************)
(* The text of MEMORY.md: parse_blocks and serialize_blocks of             *)
(* agent/src/core/tools/memory_tools.rs.                                   *)
(*                                                                         *)
(* Every memory operation parses the whole file, changes the entries and   *)
(* writes the whole file.  A line is a text, with "## " before it or not;  *)
(* a text is a word, a metadata fragment "[id] time (tags: a, b)", or a    *)
(* word that opens a bracket and never closes it.  A title is the texts of *)
(* its lines, and a tag is plain, or closed by a parenthesis of its own,   *)
(* or broken by a newline.                                                 *)
(***************************************************************************)
EXTENDS Integers, Sequences, SequencesExt

TagSet == [form : {"plain", "closed", "broken"}, v : STRING]
Tag(form, v) == [form |-> form, v |-> v]

TextSet == [form : {"word", "meta", "bracket"}, v : STRING, tags : Seq(TagSet)]
LineSet == [heading : BOOLEAN, text : TextSet]
Word(v) == [form |-> "word", v |-> v, tags |-> <<>>]
Bracket(v) == [form |-> "bracket", v |-> v, tags |-> <<>>]
Meta(id, tags) == [form |-> "meta", v |-> id, tags |-> tags]
Line(text) == [heading |-> FALSE, text |-> text]
Heading(text) == [heading |-> TRUE, text |-> text]
Blank == Line(Word(""))

\* MemoryBlock; legacy entries have no title.
NoTitle == <<>>
Block(id, tags, title, content) == [id |-> id, tags |-> tags, title |-> title, content |-> content]

NoHeader == [found |-> FALSE, id |-> "", tags |-> <<>>, title |-> NoTitle, next |-> 0]
Header(id, tags, title, next) ==
  [found |-> TRUE, id |-> id, tags |-> tags, title |-> title, next |-> next]

\* str::trim of a content: blank lines at both ends go.
Trim(lines) ==
  LET kept == {k \in 1..Len(lines) : lines[k] # Blank} IN
  IF kept = {} THEN <<>>
  ELSE SubSeq(lines, CHOOSE k \in kept : \A j \in kept : k <= j,
                     CHOOSE k \in kept : \A j \in kept : j <= k)

\* What the tool saves: it trims a content before, and a title.
MemoryBlocks ==
  {b \in [id : STRING, tags : Seq(TagSet), title : Seq(TextSet), content : Seq(LineSet)] :
     /\ Trim(b.content) = b.content
     /\ b.title # NoTitle => b.title[1] # Word("") /\ b.title[Len(b.title)] # Word("")}

\* The tags that parse_metadata finds: of the last one it takes the closing
\* parentheses off, and a tag of which nothing is left is none.
ParsedTags(tags) ==
  LET n == Len(tags) IN
  CASE n > 0 /\ tags[n].form = "closed" /\ tags[n].v # "" ->
         SubSeq(tags, 1, n - 1) \o <<Tag("plain", tags[n].v)>>
    [] n > 0 /\ tags[n].form = "closed" /\ tags[n].v = "" -> SubSeq(tags, 1, n - 1)
    [] OTHER -> tags

\* What a heading and the text of metadata make, next being the line below.
HeaderOf(meta, title, next) == Header(meta.v, ParsedTags(meta.tags), title, next)

\* Mutant of TryParseHeaderAt: a heading need not be followed by metadata.
TryParseHeaderAtAny(lines, i) ==
  IF ~lines[i].heading THEN NoHeader
  ELSE IF lines[i].text.form = "meta" THEN HeaderOf(lines[i].text, NoTitle, i + 1)
  ELSE IF i < Len(lines) /\ lines[i + 1].text.form = "meta"
       THEN HeaderOf(lines[i + 1].text, <<lines[i].text>>, i + 2)
       ELSE Header("", <<>>, <<lines[i].text>>, i + 1)

\* A legacy heading carries the metadata; a current one has them on the next
\* line that is not blank.
TryParseHeaderAt(lines, i) ==
  LET below == {j \in (i + 1)..Len(lines) : lines[j] # Blank}
      j == CHOOSE k \in below : \A m \in below : k <= m
      isMeta(line) == ~line.heading /\ line.text.form = "meta"
  IN CASE lines[i].heading /\ lines[i].text.form = "meta" ->
            HeaderOf(lines[i].text, NoTitle, i + 1)
       [] lines[i].heading /\ lines[i].text.form = "word" /\ below # {} ->
            IF isMeta(lines[j]) THEN HeaderOf(lines[j].text, <<lines[i].text>>, j + 1) ELSE NoHeader
       [] OTHER -> NoHeader

NextBlockStart(lines, start) ==
  LET heads == {i \in start..Len(lines) : TryParseHeaderAt(lines, i).found} IN
  IF heads = {} THEN Len(lines) + 1 ELSE CHOOSE i \in heads : \A j \in heads : i <= j

ParseBlocks(lines) ==
  LET ParseFrom[i \in Nat \ {0}] ==
        LET start == NextBlockStart(lines, i) IN
        IF start > Len(lines) THEN <<>>
        ELSE LET header == TryParseHeaderAt(lines, start)
                 end == NextBlockStart(lines, header.next)
             IN <<Block(header.id, header.tags, header.title,
                        Trim(SubSeq(lines, header.next, end - 1)))>>
                  \o ParseFrom[end]
  IN ParseFrom[1]

ContentLines(b) == IF b.content = <<>> THEN <<Blank>> ELSE b.content

\* The metadata of an entry, text by text: a tag that is broken by a newline
\* ends a line, and a word of it starts the next.
MetadataLine(b) ==
  LET broken == {k \in 1..Len(b.tags) : b.tags[k].form = "broken"}
      first == CHOOSE k \in broken : \A j \in broken : k <= j
      parts == SelectSeq(b.tags, LAMBDA t : t.form = "broken")
  IN IF broken = {} THEN <<Meta(b.id, b.tags)>>
     ELSE <<Meta(b.id, Append(SubSeq(b.tags, 1, first - 1), Tag("plain", b.tags[first].v)))>>
            \o [k \in 1..Len(parts) |-> Word(parts[k].v)]

\* Texts, line by line, below a heading and with their first as one.
AsLines(texts) == [k \in 1..Len(texts) |-> Line(texts[k])]
HeadedLines(texts) == <<Heading(Head(texts))>> \o AsLines(Tail(texts))

SerializeBlock(b) ==
  IF b.title = NoTitle THEN HeadedLines(MetadataLine(b)) \o ContentLines(b)
  ELSE HeadedLines(b.title) \o AsLines(MetadataLine(b)) \o <<Blank>> \o ContentLines(b)

SerializeBlocks(blocks) ==
  FlattenSeq([k \in 1..Len(blocks) |->
    (IF k > 1 THEN <<Blank>> ELSE <<>>) \o SerializeBlock(blocks[k])])
=============================================================================
