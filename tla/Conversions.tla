---------------------------- MODULE Conversions -----------------------------
(***************************************************************************)
(* The conversions of TelegramHtml, MemoryFile, ToolMarkup, ToolArguments  *)
(* and Transcript, each with what it must give back: one step converts one *)
(* input.                                                                  *)
(***************************************************************************)
EXTENDS TelegramHtml, MemoryFile, ToolMarkup, ToolArguments, Transcript

CONSTANT Inputs    \* records with a field kind; see Convert

ASSUME InputsAssumption ==
  \A x \in Inputs :
    /\ x.kind = "session" => IsSession(x)
    /\ x.kind = "markdown" => x.lines \in Lines
    /\ x.kind = "memory" => x.blocks \in Seq(MemoryBlocks)

VARIABLES
  input,     \* what is converted
  output,    \* what comes out
  converted

vars == <<input, output, converted>>

\* How a model writes calls as XML, in quotes of one form, and those quotes in
\* a value behind a backslash.
Escaped(value, quote) ==
  FlattenSeq([k \in 1..Len(value) |->
    IF value[k] = quote THEN <<Backslash, quote>> ELSE <<value[k]>>])
XmlTag(call, quote) ==
  <<"<">> \o call.tool
    \o FlattenSeq([k \in 1..Len(call.args) |->
         <<" ">> \o call.args[k][1] \o <<"=", quote>> \o Escaped(call.args[k][2], quote) \o <<quote>>])
    \o <<">", "<", "/">> \o call.tool \o <<">">>
Xml(calls, quote) ==
  <<"p", "calls">> \o FlattenSeq([k \in 1..Len(calls) |-> XmlTag(calls[k], quote)]) \o <<"/calls">>

\* How GLM writes calls, with values in JSON; the last marker may be missing.
Json(value) ==
  <<Quote>> \o FlattenSeq([k \in 1..Len(value) |->
    IF value[k] \in {Quote, Backslash} THEN <<Backslash, value[k]>> ELSE <<value[k]>>]) \o <<Quote>>
GlmCall(call) ==
  <<Separator>> \o call.tool \o <<"(">>
    \o Joined([k \in 1..Len(call.args) |->
                 call.args[k][1] \o <<"=">> \o Json(call.args[k][2])], <<",", " ">>)
    \o <<")">>
Glm(calls) == <<"p", "open">> \o FlattenSeq([k \in 1..Len(calls) |-> GlmCall(calls[k])])

Convert(x) ==
  CASE x.kind = "markdown" -> RenderTelegram(x.lines)
    [] x.kind = "memory" -> ParseBlocks(SerializeBlocks(x.blocks))
    [] x.kind = "xml" -> RecoverXmlToolCalls(Xml(x.calls, x.quote))
    [] x.kind = "glm" -> RecoverGlmToolCalls(Glm(x.calls))
    [] x.kind = "arguments" -> ValidateArgs(BuildArguments(x.attrs, x.schema), x.schema)
    [] x.kind = "session" -> ConvertSession(x)

Init ==
  /\ input \in Inputs
  /\ output = <<>>
  /\ converted = FALSE

ConvertInput ==
  /\ ~converted
  /\ output' = Convert(input)
  /\ converted' = TRUE
  /\ UNCHANGED input

Spec == Init /\ [][ConvertInput]_vars

-----------------------------------------------------------------------------
(* Properties.                                                             *)

Is(kind) == converted /\ input.kind = kind

\* No run of open tags leaves less room than the widest atom.
TagsFit(tokens) ==
  LET step(x, t) ==
        LET open == CASE t[1] = "open" -> Append(x.open, t)
                      [] t[1] = "close" -> Front(x.open)
                      [] OTHER -> x.open
        IN [open |-> open,
            widest |-> LET w == WidthOf(open) + WidthOf(Closers(open))
                       IN IF w > x.widest THEN w ELSE x.widest]
  IN FoldLeft(step, [open |-> <<>>, widest |-> 0], tokens).widest + 4 <= Limit

\* Doc, on split_block: the pieces are "each <= limit chars AND each
\* independently well-formed".  Every chunk that is sent is, wherever the
\* limit falls in text, tags and entities.
ChunksValid ==
  Is("markdown") =>
    LET blocks == RenderBlocks(input.lines) IN
    \A k \in 1..Len(output) :
      /\ WellFormed(output[k])
      /\ (\A n \in 1..Len(blocks) : TagsFit(blocks[n])) => WidthOf(output[k]) <= Limit

\* Splitting and packing lose no text and do not reorder it: the chunks, as
\* plain text, are the blocks one after the other, newlines aside.
Solid(text) ==
  FlattenSeq([k \in 1..Len(text) |-> IF text[k] = "\n" THEN <<>> ELSE <<text[k]>>])
TextKept ==
  Is("markdown") =>
    LET plain(parts) == Solid(FlattenSeq([k \in 1..Len(parts) |-> StripTags(parts[k])]))
    IN plain(output) = plain(RenderBlocks(input.lines))

\* What the file can hold: a title of one line and not in brackets, no newline
\* in a tag and no parenthesis at the end of the last, and no content in which
\* a heading is one of an entry, or stands above metadata.
Storable(b) ==
  /\ \A k \in 1..Len(b.title) : k = 1 /\ b.title[k].form = "word"
  /\ \A k \in 1..Len(b.tags) :
       /\ b.tags[k].form # "broken"
       /\ k = Len(b.tags) => b.tags[k].form # "closed"
  /\ \A i \in 1..Len(b.content) : b.content[i].heading =>
       /\ b.content[i].text.form # "meta"
       /\ \A j \in (i + 1)..Len(b.content) :
            /\ b.content[j].text.form = "meta" /\ ~b.content[j].heading
            => \E k \in (i + 1)..(j - 1) : b.content[k] # Blank

\* The file gives back the entries that were written to it, in order, with
\* headings and blank lines in their contents, and legacy entries among them.
EntriesReadBack ==
  Is("memory") /\ (\A k \in 1..Len(input.blocks) : Storable(input.blocks[k]))
    => output = input.blocks

\* A call that a model wrote as markup is found, with the arguments it gave,
\* and no other: not the text of an argument, not a tag that is no tool.  In
\* XML a value must not end in a backslash, which takes its closing quote for
\* a part of the value.
Quotable(calls) ==
  \A n \in 1..Len(calls) : \A k \in 1..Len(calls[n].args) :
    calls[n].args[k][2] = <<>> \/ Last(calls[n].args[k][2]) # Backslash
KnownCalls(calls) == SelectSeq(calls, LAMBDA c : \E t \in Tools : c.tool = <<t>>)
CallsRecovered ==
  /\ Is("xml") /\ Quotable(input.calls) => output = KnownCalls(input.calls)
  /\ Is("glm") => output = input.calls
  /\ Is("arguments") => output = Fits(input.attrs, input.schema)

\* Comment in execute_tool_calls: "ONE assistant message carrying every
\* tool_call from this LLM response, then ONE tool result per call matched by
\* tool_call_id".  Every request is so, in a turn and after it was read back
\* from the session file, if the provider gives its calls ids.
IdsGiven(x) ==
  \A t \in 1..Len(x.turns) : \A r \in 1..Len(x.turns[t].answers) :
    x.turns[t].answers[r].ids = "given"
RequestsPaired == Is("session") /\ IdsGiven(input) => Paired(output.request)

\* Comment in build_openai_payload: without a call's signature "Gemini returns
\* 400 ... on subsequent turns".  On the firmware each goes back with its call
\* in every later request, on the desktop in every later request of its turn.
SignaturesReturn ==
  Is("session") => Signatures(output.request) = Signed(input)

\* Doc, on synthesize_history_events: a session is replayed "as the same
\* ChatEvent stream a live turn would produce".  But for the order of a
\* batch's calls, the turns that ended with an error, the texts that were
\* nudged and, on the desktop, the texts of users that begin with brackets,
\* the history is the end of what the page showed.
ReplayIsLive ==
  Is("session") /\ ~Nudged(input) =>
    \A types \in {{"user", "text"}, {"started"}, {"finished"}} :
      ("user" \in types => ~Enveloped(input)) =>
        IsSuffix(OfType(output.history, types), OfType(Shown(input), types))

\* Doc, in telegram.rs: a formatting defect "can never lose a message".
\* Telegram refuses a message without text, with tags and as plain text.
EveryChunkHasText ==
  Is("markdown") => \A k \in 1..Len(output) : StripTags(output[k]) # <<>>
=============================================================================
