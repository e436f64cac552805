--------------------------- MODULE MCConversions ----------------------------
(* Small instances of Conversions for TLC.                                 *)
EXTENDS Conversions, FiniteSetsExt

UpTo(S, n) == UNION {[1..k -> S] : k \in 0..n}
Repeat(c, n) == [k \in 1..n |-> c]
MdLine(kind, text) == [kind |-> kind, text |-> text]
Markdown(lines) == [kind |-> "markdown", lines |-> lines]

\* One line with every arrangement of the delimiters.
Inline ==
  {Markdown(<<MdLine("text", s)>>) :
     s \in UpTo({"*", "_", "p"}, 6) \cup UpTo({"*", "~", Backtick, "<"}, 5)
             \cup UpTo({"[", "]", "(", ")", "*"}, 5)}

\* Every order of the kinds of lines, tables among them.
Kinds ==
  {MdLine(k, IF k \in {"fence", "tagged", "blank"} THEN <<>> ELSE <<"p">>) :
     k \in LineKinds \ {"rule"}}
    \cup {MdLine("rule", <<"|">>), MdLine("text", <<"p", "|", "q">>),
          MdLine("quote", <<"|", "p", "|">>)}
Layouts == {Markdown(lines) : lines \in UpTo(Kinds, 3)}

\* Blocks around the limit, one after the other.
Long(n) ==
  {MdLine("text", Repeat("p", n)), MdLine("text", <<"*", "*">> \o Repeat("<", n \div 4) \o <<"*", "*">>),
   MdLine("heading", <<"_">> \o Repeat("p", n) \o <<"_">>), MdLine("tagged", <<>>)}
Boundaries ==
  {Markdown(<<x, y>>) : x, y \in UNION {Long(n) : n \in (Limit - 12)..(Limit + 1)}}
    \cup {Markdown(<<MdLine("tagged", <<>>), MdLine("text", Repeat("<", n)), x>>) :
            n \in 0..Limit, x \in Long(Limit)}

\* Every short content between two entries; every title and tags of an entry.
Contents == UpTo({Line(Word("p")), Heading(Word("q")), Line(Bracket("p")), Line(Meta("x", <<>>)), Blank}, 3)
Titles == {NoTitle} \cup {<<x>> \o y : x \in {Word("t"), Bracket("t")}, y \in UpTo({Word("u")}, 1)}
Tags == UpTo({Tag(form, v) : form \in {"plain", "closed", "broken"}, v \in {"l"}} \cup {Tag("closed", "")}, 2)
Memories ==
  LET entries == {Block("m1", <<>>, title, Trim(c)) : title \in {NoTitle, <<Word("t")>>}, c \in Contents}
        \cup {Block("m1", tags, title, c) : tags \in Tags, title \in Titles, c \in {<<>>, <<Line(Word("p"))>>}}
      others == {Block("m2", <<Tag("plain", "l")>>, title, c) : title \in {NoTitle, <<Word("t")>>},
                   c \in {<<>>, <<Line(Word("p"))>>, <<Heading(Word("q"))>>}}
  IN {[kind |-> "memory", blocks |-> <<>>]}
       \cup {[kind |-> "memory", blocks |-> <<x, y>>] : x \in entries, y \in others}
       \cup {[kind |-> "memory", blocks |-> <<y, x>>] : x \in entries, y \in others}

ValueChars == {"w", Quote, Apostrophe, "<", ">", ",", ")", "=", " ", Backslash}
CallsOf(tools) ==
  {<<Call(<<t>>, <<Arg(<<"a">>, v)>>)>> : t \in tools, v \in UpTo(ValueChars, 3)}
    \cup {<<Call(<<t>>, <<Arg(<<"a">>, v), Arg(<<"b">>, u)>>), Call(<<"w">>, <<Arg(<<"a">>, u)>>)>> :
            t \in tools, v \in UpTo(ValueChars, 1), u \in UpTo(ValueChars, 2)}
Markup ==
  {[kind |-> "xml", quote |-> q, calls |-> c] : q \in {Quote, Apostrophe}, c \in CallsOf({"w", "a"})}
    \cup {[kind |-> "glm", calls |-> c] : c \in CallsOf({"w", "a"})}

\* One attribute of every form against every type, required or with an enum;
\* two attributes, of one name or not; a name of the program's own.
Schema(properties, required, enums) ==
  [properties |-> properties, required |-> required, enums |-> enums]
Attr(name, form) == [name |-> name, form |-> form]
Arguments(attrs, schema) == [kind |-> "arguments", attrs |-> attrs, schema |-> schema]
CallArguments ==
  {Arguments(attrs, Schema([n \in {name} |-> type], required, enums)) :
     attrs \in UpTo([name : {"a"}, form : Forms], 2), name \in {"a", "_own"}, type \in Types,
     required \in SUBSET {"a", "_own"}, enums \in SUBSET {"a"}}
    \cup {Arguments(<<Attr("a", f), Attr(other, g)>>,
                    Schema([a |-> type, _own |-> "integer"], {"a"}, {})) :
            f, g \in Forms, other \in {"_own", "unknown"}, type \in Types}

\* Sessions of one turn in every course, and of two with the second or the
\* first cut short by an error, and what their users say.
Replies == {Answer(text, <<>>, "given", FALSE) : text \in {"", "said", "markup"}}
Requests ==
  {Answer(text, names, ids, signed) :
     text \in {"", "said"}, names \in {<<"f">>, <<"warned", "f">>, <<"refused", "f">>, <<"f", "f">>},
     ids \in {"given", "empty", "absent"}, signed \in BOOLEAN}
Markups == {Answer("markup", <<>>, "given", FALSE)}
Few == {r \in Requests : r.names \in {<<"f">>, <<"warned", "f">>} /\ r.ids = "given"}
Turn(answers, error) == [said |-> "hello", answers |-> answers, error |-> error]
Bracketed(turn) == [turn EXCEPT !.said = "[x] hello"]
Short ==
  {Turn(<<a, b>>, FALSE) : a \in Few \cup Markups, b \in Replies} \cup {Turn(<<b>>, FALSE) : b \in Replies}
    \cup {Turn(<<>>, TRUE)} \cup {Turn(<<a>>, TRUE) : a \in Few}
Courses ==
  Short
    \cup {Turn(<<a, b>>, e) : a \in Requests \cup Markups, b \in Replies \cup Requests, e \in BOOLEAN}
    \cup {Turn(<<a, b, c>>, e) : a \in Few \cup Markups, b \in Replies \cup Few, c \in Replies, e \in BOOLEAN}
Sessions ==
  {x \in {[kind |-> "session", desktop |-> desktop, turns |-> turns] :
             desktop \in BOOLEAN, turns \in {<<c>> : c \in Courses}
               \cup {<<c, d>> : c \in Short, d \in Short \cup {Bracketed(e) : e \in Short}}} :
     IsSession(x)}

MCInputs == Inline \cup Layouts \cup Boundaries \cup Memories \cup Markup \cup CallArguments \cup Sessions
=============================================================================
