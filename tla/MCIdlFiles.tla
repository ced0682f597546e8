----------------------------- MODULE MCIdlFiles -----------------------------
EXTENDS IdlFiles

AnInt == Ident("int")

SomeTypes ==
  {AnInt, Ident("array"), Array(AnInt), Array(Ident("map")), Array(Array(AnInt)),
   Array(Nullable(AnInt)), Map("int"), Map("union"), Nullable(AnInt), Nullable(Array(AnInt)),
   Nullable(Nullable(AnInt)), Nullable(Ident("union")), Union(<< >>), Union(<<AnInt>>),
   Union(<<AnInt, Ident("null")>>), Union(<<Ident("null"), AnInt, Map("int")>>),
   Union(<<Nullable(AnInt), Array(AnInt)>>), Union(<<AnInt, Union(<<AnInt>>)>>)}

Text == Scalar("string", "s")
One == Scalar("int", "1")

SomeValues ==
  {Scalar("null", ""), Scalar("bool", "true"), Scalar("bool", "false"), One,
   Scalar("float", "1.0"), Scalar("float", "1.5"), Scalar("float", "1e21.0"), Text,
   List(<< >>), List(<<One, Text, One>>), List(<<Scalar("float", "1.0"), List(<<One>>)>>),
   Object(Nothing), Object([k |-> One]), Object([k |-> List(<<Text>>), l |-> Object([k |-> One])])}

Docs == {"", "d", "*d", "**d"}

Values == [{"p"} -> SomeValues]
Notes == {Nothing} \cup Values \cup {[p |-> One, q |-> Text]}
Names == {<< >>, <<"A">>, <<"A", "B">>}

AField == [NewField("", AnInt) EXCEPT !.name = "f"]

Fields ==
  {[AField EXCEPT !.type = t] : t \in SomeTypes}
  \cup {[AField EXCEPT !.doc = d, !.order = o] : d \in Docs, o \in SortOrders}
  \cup {[AField EXCEPT !.properties = p, !.order = o] : p \in Notes, o \in SortOrders}
  \cup {[AField EXCEPT !.aliases = a, !.type = Nullable(AnInt), !.default = <<v>>] :
          a \in Names, v \in SomeValues}

AValue(name) == EnumValue(<< >>, "", name)

EnumValues ==
  {<< >>, <<AValue("a")>>, <<AValue("array"), AValue("b")>>}
  \cup {<<AValue("a"), EnumValue(c, d, "b")>> :
          c \in {<< >>, <<Comment("c")>>, <<Comment("c"), Comment("c")>>}, d \in Docs}

AnEnum == [NewEnum EXCEPT !.name = "E", !.values = <<AValue("a")>>]
AFixed == [NewFixed EXCEPT !.name = "F", !.size = "1"]
ARecord == [NewRecord EXCEPT !.name = "R", !.fields = <<AField>>]

Plain == {AnEnum, [AnEnum EXCEPT !.default = <<"a">>], AFixed, ARecord}

Noted ==
  {[d EXCEPT !.doc = doc, !.properties = p] :
     d \in Plain, doc \in {"", "d"}, p \in {Nothing, [p |-> Scalar("null", "")]}}

Alone ==
  {[d EXCEPT !.doc = doc, !.namespace = n, !.aliases = a] :
     d \in Plain, doc \in Docs, n \in {"", "n"}, a \in Names}
  \cup {[d EXCEPT !.properties = p] : d \in Plain, p \in Notes}
  \cup {[ARecord EXCEPT !.fields = <<f>>] : f \in Fields}
  \cup {[ARecord EXCEPT !.fields = fs] : fs \in {<< >>, <<AField, AField>>}}
  \cup {[AnEnum EXCEPT !.values = vs] : vs \in EnumValues}

AFile == [NewFile EXCEPT !.type = AnInt]

Declaring(decls) == [AFile EXCEPT !.types = decls]

Headers ==
  {[NewFile EXCEPT !.namespace = n, !.comments = c, !.type = t] :
     n \in {"", "n"}, c \in {<< >>, <<Comment("c")>>, <<Doc("c"), Comment("c")>>},
     t \in SomeTypes \cup {Nothing}}

Printed ==
  Headers \cup {Declaring(<<d>>) : d \in Alone} \cup {Declaring(<<d, e>>) : d, e \in Noted}

\* Files with something of everything.
Rich ==
  {[AFile EXCEPT !.namespace = "n", !.type = Union(<<AnInt, Map("int")>>),
                 !.types = <<[AnEnum EXCEPT !.values = <<AValue("a"), EnumValue(<<Comment("c")>>, "d", "b")>>],
                             [ARecord EXCEPT !.properties = [p |-> List(<<One, One>>)]]>>],
   Declaring(<<[AnEnum EXCEPT !.doc = "d"], [AnEnum EXCEPT !.default = <<"a">>],
               [AFixed EXCEPT !.aliases = <<"A">>]>>),
   Declaring(<<[ARecord EXCEPT
                  !.fields = <<[AField EXCEPT !.type = Nullable(Array(AnInt)), !.order = "ignore"],
                               [AField EXCEPT !.default = <<Object([k |-> One, l |-> Text])>>]>>]>>)}

OneToken ==
  {Symbol(s) : s \in {";", ",", "=", "?", "{", "}", "[", "]", "<", ">", "(", ")", ":"}}
  \cup {Backtick, Name("x"), Name("schema"), Annotation("p"), Quoted("s"), Number("1"), Doc("d"),
        Comment("c"), Token("error", "")}

Intruders ==
  {<<tok>> : tok \in OneToken}
  \cup {<<Annotation("q"), Symbol("("), Number("1"), Symbol(")")>>}

MCSources ==
  {Whole(f) : f \in Printed}
  \cup UNION {CutShort(f) : f \in Rich \cup {Declaring(<<d, e>>) : d, e \in Plain}}
  \cup UNION {Extra(f, Intruders) \cup Escaped(f) : f \in Rich}
=============================================================================
