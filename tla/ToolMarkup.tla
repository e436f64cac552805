----------------------------- MODULE ToolMarkup -----------------------------
(***************************************************************************)
(* Tool calls that a model wrote into its text, found again:               *)
(*   agent/src/core/tool_recovery.rs  <calls><tool arg="v"></tool></calls> *)
(*   agent/src/core/runner.rs         GLM's  tool(arg="v", arg="v")        *)
(*                                                                         *)
(* A text is a sequence of one-character strings; the markers of a region  *)
(* and GLM's separator are one character each, and so are the names.  The  *)
(* JSON of an argument is the string it decodes to.                        *)
(***************************************************************************)
EXTENDS Integers, Sequences, SequencesExt

CONSTANTS
  Tools,      \* the names of the registered tools, one character each
  NameChars   \* is_name_char, the tools among them

ASSUME MarkupAssumption == Tools \subseteq NameChars

Quote == "\""
Apostrophe == "'"
Backslash == "\\"
Separator == "glm"     \* GLM_PREFIX

Call(tool, args) == [tool |-> tool, args |-> args]
Arg(name, value) == <<name, value>>

\* The first position from "from" on with a character of S; past the end if
\* there is none.
Next(s, from, S) ==
  LET at == {j \in from..Len(s) : s[j] \in S} IN
  IF at = {} THEN Len(s) + 1 ELSE CHOOSE j \in at : \A k \in at : j <= k
Skip(s, from, S) ==
  LET at == {j \in from..Len(s) : s[j] \notin S} IN
  IF at = {} THEN Len(s) + 1 ELSE CHOOSE j \in at : \A k \in at : j <= k

At(s, j) == IF j <= Len(s) THEN s[j] ELSE ""

-----------------------------------------------------------------------------
(* <calls> .. </calls>.                                                    *)

\* The quote that ends a value; one behind a backslash is part of it.
ValueEnd[s \in Seq(STRING), j \in Nat, quote \in {Quote, Apostrophe}] ==
  CASE j > Len(s) -> j
    [] s[j] = Backslash /\ At(s, j + 1) = quote -> ValueEnd[s, j + 2, quote]
    [] s[j] = quote -> j
    [] OTHER -> ValueEnd[s, j + 1, quote]

\* The value, with the backslashes before its own quotes taken off.
Unescape(s, quote) ==
  SelectSeq([k \in 1..Len(s) |->
               IF s[k] = Backslash /\ At(s, k + 1) = quote THEN "" ELSE s[k]],
            LAMBDA c : c # "")

NoTag == [ok |-> FALSE, args |-> <<>>, next |-> 0]

\* The attributes from j on, up to the ">" of the tag.
AttrsFrom[s \in Seq(STRING), from \in Nat, args \in Seq(Seq(STRING) \X Seq(STRING))] ==
  LET j == Skip(s, from, {" "})
      nameEnd == Skip(s, j, NameChars)
      name == SubSeq(s, j, nameEnd - 1)
      eq == Skip(s, nameEnd, {" "})
      value == Skip(s, eq + 1, {" "})
      quote == At(s, value)
      close == ValueEnd[s, value + 1, quote]
  IN CASE j > Len(s) -> NoTag
       [] At(s, j) = ">" -> [ok |-> TRUE, args |-> args, next |-> j + 1]
       [] At(s, j) = "/" ->
            [ok |-> TRUE, args |-> args,
             next |-> IF Next(s, j, {">"}) <= Len(s) THEN Next(s, j, {">"}) + 1 ELSE Len(s) + 1]
       [] OTHER ->
            CASE name = <<>> -> NoTag
              [] name # <<>> /\ At(s, eq) # "=" -> AttrsFrom[s, eq, Append(args, Arg(name, <<>>))]
              [] OTHER ->
                   IF quote \notin {Quote, Apostrophe} \/ close > Len(s) THEN NoTag
                   ELSE AttrsFrom[s, close + 1,
                          Append(args, Arg(name, Unescape(SubSeq(s, value + 1, close - 1), quote)))]

\* An open tag; a call if a tool has its name.
ParseTag(s, start) ==
  LET nameEnd == Skip(s, start + 1, NameChars)
      name == SubSeq(s, start + 1, nameEnd - 1)
      tag == IF name = <<>> THEN NoTag ELSE AttrsFrom[s, nameEnd, <<>>]
  IN [ok |-> tag.ok, next |-> tag.next,
      calls |-> IF \E t \in Tools : name = <<t>> THEN <<Call(name, tag.args)>> ELSE <<>>]

TagsFrom[s \in Seq(STRING), i \in Nat] ==
  LET tag == ParseTag(s, i) IN
  CASE i > Len(s) -> <<>>
    [] s[i] = "<" /\ i < Len(s) /\ s[i + 1] # "/" /\ tag.ok -> tag.calls \o TagsFrom[s, tag.next]
    [] OTHER -> TagsFrom[s, i + 1]

\* The region between the markers; without the last one it runs to the end.
Region(s, open, close) ==
  LET from == Next(s, 1, {open})
      ends == {j \in (from + 1)..Len(s) : s[j] = close}
  IN IF from > Len(s) THEN <<>>
     ELSE SubSeq(s, from + 1,
            IF ends = {} THEN Len(s) ELSE (CHOOSE j \in ends : \A k \in ends : k <= j) - 1)

RecoverXmlToolCalls(s) == TagsFrom[Region(s, "calls", "/calls"), 1]

-----------------------------------------------------------------------------
(* GLM's markup.                                                           *)

\* The positions of s that lie inside a string literal, its quotes included.
InLiteral(s) ==
  LET step(x, c) ==
        CASE x.escape -> [x EXCEPT !.escape = FALSE, !.marks = Append(@, TRUE)]
          [] x.inString /\ ~x.escape ->
               [inString |-> c # Quote, escape |-> c = Backslash,
                marks |-> Append(x.marks, TRUE)]
          [] OTHER -> [x EXCEPT !.inString = (c = Quote), !.marks = Append(@, c = Quote)]
  IN FoldLeft(step, [inString |-> FALSE, escape |-> FALSE, marks |-> <<>>], s).marks

\* Where a character is outside the string literals.
TopLevel(s, c) == {j \in 1..Len(s) : s[j] = c /\ ~InLiteral(s)[j]}

Pieces(s, cuts) ==
  LET at == SetToSortSeq(cuts \cup {0, Len(s) + 1}, <)
  IN [k \in 1..(Len(at) - 1) |-> SubSeq(s, at[k] + 1, at[k + 1] - 1)]

\* from_str of a JSON string.
JsonString(s) ==
  LET step(x, c) == IF c = Backslash /\ ~x.escape THEN [x EXCEPT !.escape = TRUE]
                    ELSE [escape |-> FALSE, out |-> Append(x.out, c)]
  IN FoldLeft(step, [escape |-> FALSE, out |-> <<>>], SubSeq(s, 2, Len(s) - 1)).out

Spaceless(s) ==
  LET from == Skip(s, 1, {" "})
      kept == {k \in 1..Len(s) : s[k] # " "}
  IN IF kept = {} THEN <<>> ELSE SubSeq(s, from, CHOOSE k \in kept : \A j \in kept : j <= k)

ParseGlmArg(segment) ==
  LET eq == Next(segment, 1, {"="}) IN
  Arg(Spaceless(SubSeq(segment, 1, eq - 1)),
      LET value == Spaceless(SubSeq(segment, eq + 1, Len(segment))) IN
      IF At(value, 1) = Quote THEN JsonString(value) ELSE value)

\* A call that cannot be read, one without arguments among them, is NoCall.
NoCall == Call(<<>>, <<>>)
ParseGlmCall(chunk) ==
  LET paren == Next(chunk, 1, {"("})
      after == SubSeq(chunk, paren + 1, Len(chunk))
      closes == TopLevel(after, ")")
      inner == SubSeq(after, 1, (CHOOSE j \in closes : \A k \in closes : j <= k) - 1)
      segments == SelectSeq(Pieces(inner, TopLevel(inner, ",")), LAMBDA x : Spaceless(x) # <<>>)
      readable == \A k \in 1..Len(segments) :
                    Next(segments[k], 1, {"="}) \in 2..Len(segments[k])
  IN IF paren \notin 2..Len(chunk) \/ closes = {} THEN NoCall
     ELSE IF ~readable \/ segments = <<>> THEN NoCall
     ELSE Call(Spaceless(SubSeq(chunk, 1, paren - 1)), [k \in 1..Len(segments) |-> ParseGlmArg(segments[k])])

\* All calls of the region, or none if one of them cannot be read.
RecoverGlmToolCalls(s) ==
  LET body == Region(s, "open", "close")
      chunks == SelectSeq(Pieces(body, {j \in 1..Len(body) : body[j] = Separator}),
                          LAMBDA x : Spaceless(x) # <<>>)
      calls == [k \in 1..Len(chunks) |-> ParseGlmCall(Spaceless(chunks[k]))]
  IN IF Contains(calls, NoCall) THEN <<>> ELSE calls
=============================================================================
