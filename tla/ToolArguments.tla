---------------------------- MODULE ToolArguments ----------------------------
(***************************************************************************)
(* The arguments of a tool call that was recovered from XML, and their     *)
(* validation before the tool runs:                                        *)
(*   agent/src/core/tool_recovery.rs  build_arguments, coerce              *)
(*   agent/src/core/tools/mod.rs      ToolRegistry::execute, validate_args *)
(*                                                                         *)
(* A text is its form; a schema gives the type each property declares, the *)
(* required ones and those with an enum, which a word is in.               *)
(***************************************************************************)
EXTENDS Integers, Sequences, SequencesExt

Forms == {"integer", "decimal", "nan", "boolean", "object", "array", "word", "other"}
Types == {"string", "number", "integer", "boolean", "array", "object"}

\* A JSON value: its type, and the form of the text it came from.
Value(type, form) == [type |-> type, form |-> form]

\* from_str
JsonType(form) ==
  CASE form \in {"integer", "boolean", "object", "array"} -> form
    [] form = "decimal" -> "number"
    [] OTHER -> "string"

\* Mutant of Coerce: a number is whatever parses as JSON.
CoerceAny(form, type) == Value(JsonType(form), form)

\* The text as a value of the declared type, or as a string if it is none.  A
\* text for an object or an array may be any JSON; NaN parses as a number,
\* and no JSON number is made of it.
Coerce(form, type) ==
  CASE type \in {"object", "array"} -> Value(JsonType(form), form)
    [] type = "integer" /\ form = "integer" -> Value("integer", form)
    [] type = "number" /\ form \in {"integer", "decimal"} -> Value("number", form)
    [] type = "boolean" /\ form = "boolean" -> Value("boolean", form)
    [] OTHER -> Value("string", form)

TypeOf(schema, name) ==
  IF name \in DOMAIN schema.properties THEN schema.properties[name] ELSE "none"

\* A later attribute of the same name replaces an earlier one.
BuildArguments(attrs, schema) ==
  [name \in {attrs[k].name : k \in 1..Len(attrs)} |->
    LET last == SelectLastInSeq(attrs, LAMBDA a : a.name = name)
    IN Coerce(attrs[last].form, TypeOf(schema, name))]

TypeMatches(type, value) ==
  \/ value.type = type
  \/ type = "number" /\ value.type = "integer"

\* All required are there; those the schema knows have its type and are in
\* its enum.  Names that begin with an underscore are the program's own.
ValidateArgs(args, schema) ==
  /\ schema.required \subseteq DOMAIN args
  /\ \A name \in DOMAIN args \cap DOMAIN schema.properties :
       name # "_own" =>
         /\ TypeMatches(schema.properties[name], args[name])
         /\ name \in schema.enums => args[name].form = "word"

\* A text denotes a value of a type.
Denotes(form, type) ==
  \/ type = "string" \/ form = type
  \/ type = "number" /\ form \in {"integer", "decimal"}

\* What a model may expect: the call runs if it gives what is required, and
\* each text, the last one of a name, denotes what the schema asks for.
Fits(attrs, schema) ==
  /\ \A name \in schema.required : \E k \in 1..Len(attrs) : attrs[k].name = name
  /\ \A k \in 1..Len(attrs) :
       LET name == attrs[k].name IN
       name \in DOMAIN schema.properties /\ name # "_own"
         /\ (\A j \in (k + 1)..Len(attrs) : attrs[j].name # name) =>
           /\ Denotes(attrs[k].form, schema.properties[name])
           /\ name \in schema.enums => attrs[k].form = "word"
=============================================================================
