----------------------------- MODULE MCDocuments -----------------------------
(***************************************************************************)
(* Small types and payloads for Documents.                                 *)
(***************************************************************************)
EXTENDS Documents

a == <<97>>
b == <<98>>
c == <<99>>

Field(name, ty) ==
  [name |-> name, ty |-> ty, flatten |-> FALSE, aliases |-> <<>>, skip_store_if |-> {},
   default |-> Err]

Variant(tag, shape, fields) ==
  [tag |-> tag, aliases |-> <<>>, other |-> FALSE, shape |-> shape, fields |-> fields]

U8  == LeafType("U8")
I16 == LeafType("I16")
Str == StrType

\* A type: whether AData implements it, serde does, and both lay it out alike; the
\* types it replaced, with what their values are now; whether it is a directory; the values
\* stored whole.
Schema(ty, adata, serde, plain, olds) ==
  [ty |-> ty, adata |-> adata, serde |-> serde, plain |-> plain, olds |-> olds, dir |-> FALSE,
   stores |-> Values(ty)]

Plain(ty) == Schema(ty, TRUE, TRUE, TRUE, {})
Data(ty)  == Schema(ty, TRUE, FALSE, FALSE, {})

\* Fields declared out of name order, of both fixed and varying width
Record == StructType(<<Field(b, Str), Field(a, OptType(I16))>>)

Nested == StructType(<<Field(b, SeqType(Str)), Field(a, MapType(Str, OptType(U8)))>>)

Rows == SeqType(StructType(<<Field(b, U8), Field(a, OptType(Str))>>))

Book == MapType(Str, StructType(<<Field(b, OptType(Str)), Field(a, U8)>>))

Variants ==
  <<Variant(a, "unit", <<>>),
    Variant(b, "newtype", <<Field(a, Str)>>),
    Variant(c, "tuple", <<Field(a, I16), Field(a, Str)>>),
    Variant(<<100>>, "named", <<Field(b, U8)>>)>>

Tagged(repr) == [tag |-> <<116>>, content |-> <<117>>] @@ EnumType(repr, Variants)

\* Under an option an untagged unit variant, a null leaf, would load as None.
Choice(repr) ==
  StructType(<<Field(b, IF repr = "untagged" THEN Tagged(repr) ELSE OptType(Tagged(repr))),
               Field(a, U8)>>)

\* A renamed field, one that came later, and a flattened struct
New ==
  StructType(<<[Field(b, U8) EXCEPT !.aliases = <<c>>],
               [Field(<<100>>, I16) EXCEPT !.default = <<0>>, !.skip_store_if = {<<0>>}],
               [Field(<<>>, StructType(<<Field(a, OptType(Str))>>)) EXCEPT !.flatten = TRUE]>>)

\* It was written without the later field, under the older name.
Old ==
  StructType(<<Field(c, U8), [Field(<<100>>, I16) EXCEPT !.skip_store_if = Values(I16)],
               New.fields[3]>>)

Same(values) == [x \in values |-> x]

Evolved ==
  Schema(New, TRUE, FALSE, FALSE,
         {[ty |-> Old, reads |-> Same({x \in Values(New) : x[2] = <<0>>})]})

\* Variants renamed, and a catch-all for the ones that are gone
NewVariants ==
  <<[Variant(a, "unit", <<>>) EXCEPT !.other = TRUE],
    [Variant(b, "newtype", <<Field(a, Str)>>) EXCEPT !.aliases = <<c>>],
    [Variant(<<100>>, "named", <<Field(b, U8)>>) EXCEPT !.aliases = << <<101>>, <<102>> >>]>>

OldVariants ==
  <<Variant(<<103>>, "newtype", <<Field(a, U8)>>),
    Variant(c, "newtype", <<Field(a, Str)>>),
    Variant(<<102>>, "named", <<Field(b, U8)>>)>>

Revised(repr) ==
  LET type(vs) == [tag |-> <<116>>, content |-> <<117>>] @@ EnumType(repr, vs)
  IN Schema(type(NewVariants), TRUE, FALSE, FALSE,
            {[ty    |-> type(OldVariants),
              reads |-> [x \in Values(type(OldVariants)) |->
                           IF x.variant = 1 THEN [x EXCEPT !.args = <<>>] ELSE x]]})

\* The types of a map's keys; None and an enum's payload make no name.
KeyTypes ==
  {LeafType("I8"), LeafType("F32"), LeafType("Bool"), OptType(LeafType("I8")),
   EnumType("external", <<Variants[1], Variants[2]>>)}

\* A struct that was a longer tuple, serialized as a list
Reshaped ==
  Schema(StructType(<<Field(a, U8), Field(b, U8)>>), FALSE, TRUE, FALSE,
         {[ty    |-> SeqType(U8),
           reads |-> [x \in [1 .. 3 -> Values(U8)] |-> SubSeq(x, 1, 2)]]})

Directory == [Schema(Str, FALSE, FALSE, FALSE, {}) EXCEPT !.dir = TRUE, !.stores = {<<>>}]

Leaves == {"Bool", "I8", "I32", "I64", "I128", "U16", "U32", "U64", "U128", "F32", "F64", "Bytes",
           "Uuid", "Date", "Time", "DateTime", "Duration", "BigInt", "BigFloat", "Rational"}

MCSchemas ==
  {Plain(Record),
   [Plain(Nested) EXCEPT !.stores = {<< <<>>, <<>> >>, << << <<120>> >>, a :> None >>}],
   [Plain(Rows) EXCEPT !.stores = {<<>>, << << <<0>>, None>>, << <<255>>, <<120>> >> >>}],
   [Plain(Book) EXCEPT !.stores = {<<>>, a :> <<None, <<255>> >>}],
   Reshaped, Directory,
   Evolved}
    \cup {Schema(MapType(k, U8), FALSE, TRUE, FALSE, {}) : k \in KeyTypes}
    \cup {Revised(r) : r \in {"external", "adjacent", "internal"}}
    \cup {Schema(Choice(r), TRUE, TRUE, FALSE, {}) :
            r \in {"external", "adjacent", "internal", "untagged"}}
    \cup {Data(LeafType(t)) : t \in Leaves}

\* Extremes, and strings of two widths
MCPayloads ==
  [Null |-> {<<>>}, Bool |-> {<<0>>, <<1>>}, Str |-> {<<>>, <<120>>},
   I8 |-> {<<-1>>, <<10>>, <<2>>}, I16 |-> {<<0>>, <<-2>>}, I32 |-> {<<-70000>>, <<5>>},
   I64 |-> {<<-1>>, <<70000>>}, I128 |-> {<<-2>>, <<3>>},
   U8 |-> {<<0>>, <<255>>}, U16 |-> {<<0>>, <<65535>>}, U32 |-> {<<7>>, <<70000>>},
   U64 |-> {<<0>>, <<70000>>}, U128 |-> {<<0>>, <<256>>},
   F32 |-> {<<0>>, <<1069547520>>}, F64 |-> {<<0>>, <<1>>},
   Bytes |-> {<<>>, <<0, 255>>}, Uuid |-> {[k \in 1 .. 16 |-> 0], [k \in 1 .. 16 |-> k]},
   Date |-> {<<0>>, <<-1>>}, Time |-> {<<0, 0>>, <<86399, 999999999>>},
   DateTime |-> {<<0, 0, 1>>, <<-1, 86399, 0>>},
   Duration |-> {<<0, 0>>, <<-1, 999999999>>, <<-2, 5>>, <<3, 7>>},
   BigInt |-> {<<0>>, <<-128>>, <<128>>, <<32767>>},
   BigFloat |-> {<<22>>, <<25>>, <<26>>, <<23, -3, 128, 1>>, <<24, 4, 200>>},
   Rational |-> {<<-1, 3>>, <<200, 7>>},
   AKey |-> {1, 300}]

\* 0 and 1.5
MCFloatText == [F32 |-> (<<0>> :> <<48>>) @@ (<<1069547520>> :> <<49, 46, 53>>)]

MCKeyNames == {a, <<97, 98>>}

\* Present and absent names, one a prefix of another
MCProbeNames == {a, b, <<97, 98>>, <<>>}

\* What a state's identity leaves out: no guard reads it
ButCall == <<schema, form, entry, seen>>

=============================================================================
