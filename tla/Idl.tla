--------------------------------- MODULE Idl ---------------------------------
(***************************************************************************)
(* Avro IDL between its tokenizer, its parser and its printer: tokens, and *)
(* the declarations, types and values of a file.                           *)
(*                                                                         *)
(* Texts are abstract.  A doc comment is "", "d", or "d" as an item of a   *)
(* list, "*d" or "**d"; a number is what it is written as.                 *)
(***************************************************************************)
EXTENDS Naturals, Sequences

Token(type, val) == [type |-> type, val |-> val]

Symbol(val) == Token("symbol", val)
Backtick == Symbol("backtick")
Name(val) == Token("identifier", val)
Annotation(val) == Token("annotation", val)
Quoted(val) == Token("string", val)
Number(val) == Token("number", val)
Doc(val) == Token("doc", val)
Comment(val) == Token("comment", val)

\* Types.
Ident(name) == [kind |-> "ident", name |-> name]
Array(items) == [kind |-> "array", items |-> items]
Map(values) == [kind |-> "map", values |-> values]
Union(types) == [kind |-> "union", types |-> types]

\* parseOptionalNullable and the field's "?" put null before the type.
Nullable(type) == Union(<<Ident("null"), type>>)

\* JSON values: annotations and defaults.  An object maps its keys to values.
Scalar(kind, val) == [kind |-> kind, val |-> val]
List(items) == [kind |-> "list", items |-> items]
Object(entries) == [kind |-> "object", entries |-> entries]

Nothing == << >>

\* The numbers that are written with a dot.
Fractions == {"1.0", "1.5", "1e21.0"}

\* A declaration before anything but its keyword is known.
NewEnum ==
  [kind |-> "enum", doc |-> "", name |-> "", namespace |-> "", aliases |-> << >>,
   properties |-> Nothing, values |-> << >>, default |-> Nothing]

NewFixed ==
  [kind |-> "fixed", doc |-> "", name |-> "", namespace |-> "", aliases |-> << >>,
   properties |-> Nothing, size |-> "0"]

NewRecord ==
  [kind |-> "record", doc |-> "", name |-> "", namespace |-> "", aliases |-> << >>,
   properties |-> Nothing, fields |-> << >>]

NewField(doc, type) ==
  [doc |-> doc, name |-> "", aliases |-> << >>, type |-> type, order |-> "ascending",
   properties |-> Nothing, default |-> Nothing]

EnumValue(comments, doc, name) == [comments |-> comments, doc |-> doc, name |-> name]

NewFile == [comments |-> << >>, namespace |-> "", type |-> Nothing, types |-> << >>]
=============================================================================
