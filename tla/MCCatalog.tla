------------------------------ MODULE MCCatalog ------------------------------
(***************************************************************************)
(* Catalog for TLC: a program for every two neighbours of a ladder of      *)
(* scalars, and programs that use the registry, rooted views and builds.   *)
(***************************************************************************)
EXTENDS Catalog

\* Names of tables, indexes and fields, in ASCII
t == <<116>>
u == <<117>>
a == <<97>>
b == <<98>>
d == <<100>>
n == <<110>>
l == <<108>>
x == <<120>>

Field == <<Name(n)>>
Nested == <<Name(l), Index(0), Name(x)>>

One(type, v) == {Scalar(type, <<v>>)}
Str(text) == {Scalar("Str", text)}
BigFloat(class, exponent, digits) == Scalar("BigFloat", <<FloatClass[class], exponent>> \o digits)
Special(class) == {Scalar("BigFloat", <<FloatClass[class]>>)}
Ratio(p, q) == {Scalar("Rational", <<p, q>>)}

MCLadder ==
  <<{Null}, One("Bool", 1), One("I8", -128), One("I8", -1), One("I8", 0),
    One("I64", -256), One("I64", 255), One("U16", 255), One("U16", 256),
    One("F32", -1073741824), One("F32", -1082130432), One("F32", 1065353216),
    Str(<<>>), Str(<<0>>), Str(<<0, 1>>), Str(<<97>>), Str(<<97, 0>>), Str(<<97, 1>>),
    One("Date", -1), One("Date", 1),
    {Scalar("DateTime", <<-1, 86399, 0>>)}, {Scalar("DateTime", <<0, 0, 1>>)},
    {Scalar("Duration", <<-1, 999999999>>)}, {Scalar("Duration", <<0, 1>>)},
    One("BigInt", -256), One("BigInt", -255), One("BigInt", 0), One("BigInt", 255), One("BigInt", 256),
    Special("inf_neg"), {BigFloat("neg", 1, <<1>>), BigFloat("neg", 0, <<1, 0>>)},
    {BigFloat("neg", -1, <<9>>)}, Special("zero"),
    {BigFloat("pos", 0, <<1>>), BigFloat("pos", -1, <<1, 0>>)}, {BigFloat("pos", -1, <<1, 5>>)},
    Special("nan"),
    Ratio(-3, 2), Ratio(-1, 2), Ratio(1, 3), Ratio(2, 5), Ratio(1, 2), Ratio(2, 3), Ratio(1, 1)>>

Document(field, nested) ==
  Node([f \in {n, l} |-> IF f = n THEN Leaf(field)
                         ELSE List(<<Node([g \in {x} |-> Leaf(nested)])>>)])

Pair(k) ==
  UNION {{Document(v, Scalar("Bool", <<1>>)), Document(w, Null)} : v \in MCLadder[k], w \in MCLadder[k + 1]}

Ascending == IndexDef(a, Star, <<Column(Field, FALSE), Column(Nested, TRUE)>>, FALSE)
Descending == IndexDef(a, Star, <<Column(Field, TRUE), Column(Nested, FALSE)>>, FALSE)
Unique == IndexDef(b, d \o <<Slash>> \o Star, <<Column(Nested, TRUE)>>, TRUE)

Build(version, features) == [version |-> version, features |-> features]
Full == Build(1, {Permissions, "entry-timestamps"})

\* One table, its indexes and two neighbours of the ladder
Ordering(k) ==
  [builds |-> {Build(1, {})}, restarts |-> FALSE, tables |-> {t}, roots |-> {<<>>}, texts |-> {a, b},
   defs |-> {Ascending, Descending}, docs |-> Pair(k)]

\* Indexes of three names and two tables that come and go
Registering ==
  [builds |-> {Build(1, {})}, restarts |-> TRUE, tables |-> {t, u}, roots |-> {<<>>}, texts |-> {d \o <<Slash>> \o a},
   defs |-> {Ascending, Descending, Unique}, docs |-> Pair(1)]

\* Views of two roots, and paths that lead up
Rooting ==
  [builds |-> {Build(1, {})}, restarts |-> FALSE, tables |-> {t}, roots |-> {<<>>, <<d>>, <<a, b>>},
   texts |-> {a, d \o <<Slash>> \o a, Dot \o <<Slash>> \o b, DotDot \o <<Slash>> \o a},
   defs |-> {Descending, Unique}, docs |-> Pair(1)]

\* Builds of two versions, with and without features
Upgrading ==
  [builds |-> {Full, Build(1, {}), Build(2, {"entry-timestamps"})}, restarts |-> TRUE, tables |-> {t},
   roots |-> {<<>>}, texts |-> {a}, defs |-> {Ascending}, docs |-> Pair(1)]

MCPrograms == {Ordering(k) : k \in 1 .. Len(MCLadder) - 1} \cup {Registering, Rooting, Upgrading}

View == <<meta, data, rows, build, has_indexes, program, declared>>

=============================================================================
