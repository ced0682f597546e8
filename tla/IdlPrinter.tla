----------------------------- MODULE IdlPrinter -----------------------------
(***************************************************************************)
(* idl.Print, as the tokens that are in what it writes.                    *)
(*                                                                         *)
(* Cut is no token but the place where the text ends: pr.err is sticky, so *)
(* nothing follows what set it.  Strange is a character that starts no     *)
(* token.                                                                  *)
(***************************************************************************)
EXTENDS Idl, SequencesExt

Cut == Token("cut", "")
Strange == Token("error", "")

\* What for with a "," before every element but the first writes.
Separated(parts) ==
  FlattenSeq([i \in 1 .. Len(parts) |-> IF i = 1 THEN parts[i] ELSE <<Symbol(",")>> \o parts[i]])

\* slices.Sort(keys): the order is lost on whoever reads it.
Ordered(keys) == SetToSeq(keys)

\* fmt's %g drops a fraction of zero, and writes an exponent after 21 digits.
Float(val) ==
  CASE val = "1.0" -> <<Number("1")>>
    [] val = "1e21.0" -> <<Number("1"), Name("e"), Strange>>
    [] OTHER -> <<Number(val)>>

\* printValue.
RECURSIVE Value(_)
Value(v) ==
  CASE v.kind = "null" -> <<Name("null")>>
    [] v.kind = "bool" -> <<Name(v.val)>>
    [] v.kind = "int" -> <<Number(v.val)>>
    [] v.kind = "float" -> Float(v.val)
    [] v.kind = "string" -> <<Quoted(v.val)>>
    [] v.kind = "list" ->
         <<Symbol("[")>> \o Separated([i \in DOMAIN v.items |-> Value(v.items[i])]) \o <<Symbol("]")>>
    [] v.kind = "object" ->
         LET keys == Ordered(DOMAIN v.entries)
             entry(k) == <<Quoted(k), Symbol(":")>> \o Value(v.entries[k])
         IN  <<Symbol("{")>> \o Separated([i \in DOMAIN keys |-> entry(keys[i])]) \o <<Symbol("}")>>

\* Mutant: any union with a null is written with a "?".
IsNullableWithNull(type) == \E i \in DOMAIN type.types : type.types[i] = Ident("null")

\* isNullableUnion.
IsNullable(type) == Len(type.types) = 2 /\ type.types[1] = Ident("null")

\* printType of what may stand for a type; no name is escaped.
RECURSIVE Type(_)
Type(t) ==
  CASE t = Nothing -> <<Cut>>
    [] t.kind = "ident" -> <<Name(t.name)>>
    [] t.kind = "map" -> <<Name("map"), Symbol("<"), Name(t.values), Symbol(">")>>
    [] t.kind = "array" -> <<Name("array"), Symbol("<")>> \o Type(t.items) \o <<Symbol(">")>>
    [] t.kind = "union" ->
         IF t.types = << >> THEN <<Cut>>
         ELSE IF IsNullable(t) THEN Append(Type(t.types[2]), Symbol("?"))
         ELSE <<Name("union"), Symbol("{")>>
              \o Separated([i \in DOMAIN t.types |-> Type(t.types[i])]) \o <<Symbol("}")>>

\* printDoc, printNamespaceAnnotation, printAliasesAnnotation, printProperties.
DocComment(doc) == IF doc = "" THEN << >> ELSE <<Doc(doc)>>

Note(name, value) == <<Annotation(name), Symbol("(")>> \o Value(value) \o <<Symbol(")")>>

Namespace(namespace) ==
  IF namespace = "" THEN << >> ELSE Note("namespace", Scalar("string", namespace))

Aliases(aliases) ==
  IF aliases = << >> THEN << >>
  ELSE Note("aliases", List([i \in DOMAIN aliases |-> Scalar("string", aliases[i])]))

Properties(properties) ==
  LET keys == Ordered(DOMAIN properties)
  IN  FlattenSeq([i \in DOMAIN keys |-> Note(keys[i], properties[keys[i]])])

\* printField.
Default(default) == IF default = Nothing THEN << >> ELSE <<Symbol("=")>> \o Value(default[1])

Order(order) == IF order = "ascending" THEN << >> ELSE Note("order", Scalar("string", order))

PrintField(field) ==
  DocComment(field.doc) \o Aliases(field.aliases) \o Properties(field.properties)
  \o Type(field.type) \o Order(field.order)
  \o <<Name(field.name)>> \o Default(field.default) \o <<Symbol(";")>>

\* printEnumValues, for one of them.
PrintEnumValue(value) == value.comments \o DocComment(value.doc) \o <<Name(value.name)>>

EnumDefault(default) ==
  IF default = Nothing THEN << >> ELSE <<Symbol("="), Name(default[1]), Symbol(";")>>

\* printEnum, printFixed, printRecord.
Body(decl) ==
  CASE decl.kind = "enum" ->
         <<Symbol("{")>>
         \o Separated([i \in DOMAIN decl.values |-> PrintEnumValue(decl.values[i])])
         \o <<Symbol("}")>> \o EnumDefault(decl.default)
    [] decl.kind = "fixed" -> <<Symbol("("), Number(decl.size), Symbol(")"), Symbol(";")>>
    [] decl.kind = "record" ->
         <<Symbol("{")>> \o FlattenSeq([i \in DOMAIN decl.fields |-> PrintField(decl.fields[i])])
         \o <<Symbol("}")>>

PrintDeclaration(decl) ==
  DocComment(decl.doc) \o Namespace(decl.namespace) \o Aliases(decl.aliases)
  \o Properties(decl.properties) \o <<Name(decl.kind), Name(decl.name)>> \o Body(decl)

\* printFile: the namespace comes first, wherever the comments were.
Header(file) ==
  (IF file.namespace = "" THEN << >> ELSE <<Name("namespace"), Name(file.namespace), Symbol(";")>>)
  \o file.comments

PrintFile(file) ==
  IF file.type = Nothing THEN Append(Header(file), Cut)
  ELSE Header(file) \o <<Name("schema")>> \o Type(file.type) \o <<Symbol(";")>>
       \o FlattenSeq([i \in DOMAIN file.types |-> PrintDeclaration(file.types[i])])

-----------------------------------------------------------------------------
\* What the tokenizer makes of the first n tokens that are written.
Tokenized(tokens, n) ==
  LET ends == {i \in 1 .. n : tokens[i] \in {Cut, Strange}}
      end == IF ends = {} THEN n + 1 ELSE Min(ends)
  IN  [tokens |-> SubSeq(tokens, 1, end - 1),
       end |-> IF end <= n /\ tokens[end] = Strange THEN "error" ELSE "eof"]
=============================================================================
