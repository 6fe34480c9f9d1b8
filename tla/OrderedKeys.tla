----------------------------- MODULE OrderedKeys -----------------------------
(***************************************************************************)
(* The keys of the $index table: index/ordered.rs encodes a scalar so that *)
(* the order of the bytes is the order of the values, index/key.rs puts    *)
(* the columns between the index's id and the entity, index/scan.rs reads  *)
(* the rows under a prefix.                                                *)
(***************************************************************************)
EXTENDS DocValue

\* The sign bit flipped: negative numbers come first.
push_signed(be) == <<(be[1] + 128) % 256>> \o Tail(be)

\* float32, float64: a negative float's bits are all flipped, so that the larger
\* magnitude comes first.
float_bits(be) == IF be[1] >= 128 THEN Complement(be) ELSE push_signed(be)

\* Mutant of ordered_bytes: a zero byte is not escaped.
ordered_bytes_plain(bytes) == bytes \o <<0, 1>>

\* A zero byte is escaped, so that the terminator is below whatever may follow.
ordered_bytes(bytes) ==
  Joined([i \in 1 .. Len(bytes) |-> IF bytes[i] = 0 THEN <<0, 255>> ELSE <<bytes[i]>>]) \o <<0, 1>>

\* The big-endian bytes of a natural number, without leading zeros.
to_bytes_be(n) == to_be_bytes(n, CHOOSE w \in 0 .. 3 : n < 256 ^ w /\ (w = 0 \/ n >= 256 ^ (w - 1)))

\* The length of the length, the length, the magnitude: more digits, a larger number.
put_uint_be(mag) ==
  LET len == to_bytes_be(Len(mag)) IN <<Len(len)>> \o len \o mag

encode_signed_int(n) ==
  CASE n = 0 -> <<1>>
    [] n > 0 -> <<2>> \o put_uint_be(to_bytes_be(n))
    [] n < 0 -> <<0>> \o Complement(put_uint_be(to_bytes_be(-n)))

\* The classes of a BigFloat in ascending order, with NaN parked at the end.
FloatTag == [inf_neg |-> 22, neg |-> 23, zero |-> 24, pos |-> 25, inf_pos |-> 26, nan |-> 27]

ClassOf(payload) == CHOOSE c \in DOMAIN FloatClass : FloatClass[c] = payload[1]

RECURSIVE WithoutTrailingZeros(_)
WithoutTrailingZeros(digits) ==
  IF Len(digits) > 1 /\ Last(digits) = 0 THEN WithoutTrailingZeros(Front(digits)) ELSE digits

\* The exponent of the leading digit, then the digits.
FloatBody(exponent, digits) ==
  push_signed(to_be_bytes(Len(digits) - 1 + exponent, 2)) \o ordered_bytes(WithoutTrailingZeros(digits))

encode_bigfloat(payload) ==
  LET class == ClassOf(payload)
      body  == FloatBody(payload[2], SubSeq(payload, 3, Len(payload)))
  IN <<FloatTag[class]>>
       \o (CASE class = "pos" -> body [] class = "neg" -> Complement(body) [] OTHER -> <<>>)

RECURSIVE continued_fraction(_, _)
continued_fraction(p, q) ==
  <<p \div q>> \o (IF p % q = 0 THEN <<>> ELSE continued_fraction(q, p % q))

\* The terms behind the first one count downwards at odd places, and a fraction that
\* stops there is above one that goes on.
encode_rational(p, q) ==
  LET terms == continued_fraction(p, q)
      term(k) == put_uint_be(to_bytes_be(terms[k]))
  IN <<BIG_RATIONAL>> \o encode_signed_int(terms[1])
       \o Joined([j \in 1 .. Len(terms) - 1 |->
                    <<1>> \o (IF j % 2 = 1 THEN Complement(term(j + 1)) ELSE term(j + 1))])
       \o (IF Len(terms) % 2 = 0 THEN <<2>> ELSE <<0>>)

\* Up to Duration the tags are those of the storage encoding.
encode_fixed(type, payload) ==
  LET layout == Fixed[type].parts
      be(k)  == to_be_bytes(payload[k], layout[k].width)
  IN Joined([k \in 1 .. Len(layout) |-> IF layout[k].signed THEN push_signed(be(k)) ELSE be(k)])

encode_ascending(s) ==
  CASE s.type \in {"F32", "F64"} ->
         <<Fixed[s.type].tag>> \o float_bits(encode_parts(Fixed[s.type].parts, s.payload))
    [] s.type = "Duration" ->
         <<Fixed.Duration.tag>>
           \o push_signed(to_be_bytes(s.payload[1] * NanosPerSecond + s.payload[2], 16))
    [] s.type \in DOMAIN Fixed \ {"F32", "F64", "Duration"} ->
         <<Fixed[s.type].tag>> \o encode_fixed(s.type, s.payload)
    [] s.type \in {"Str", "Bytes"} -> <<Prefixed[s.type]>> \o ordered_bytes(s.payload)
    [] s.type = "BigInt" -> <<Prefixed.BigInt>> \o encode_signed_int(s.payload[1])
    [] s.type = "BigFloat" -> encode_bigfloat(s.payload)
    [] s.type = "Rational" -> encode_rational(s.payload[1], s.payload[2])

encode_scalar(s, descending) ==
  IF descending THEN Complement(encode_ascending(s)) ELSE encode_ascending(s)

---------------------------------------------------------------------------

into_bytes(akey) == to_be_bytes(akey, 16)

try_from_bytes(bytes) == from_be_bytes(bytes, FALSE)

id_prefix(id) == put_u32(id)

entry_key(id, cols, entity) ==
  id_prefix(id) \o cols \o (IF entity = None THEN <<>> ELSE into_bytes(entity))

\* The keys of the table from lower on, in the engine's order, until one does not
\* begin with it
RowsUnder(index, lower) ==
  LET from == SetToSortSeq({k \in DOMAIN index : ~Before(k, lower)}, Before)
      ends == {n \in DOMAIN from : ~IsPrefixOf(lower, from[n])}
  IN IF ends = {} THEN from
     ELSE SubSeq(from, 1, (CHOOSE n \in ends : \A m \in ends : n <= m) - 1)

EntityOf(key, value, unique) ==
  try_from_bytes(IF unique THEN value ELSE SubSeq(key, Len(key) - 15, Len(key)))

scan_prefix(index, id, cols_prefix, unique) ==
  LET under == RowsUnder(index, id_prefix(id) \o cols_prefix)
  IN [n \in DOMAIN under |-> EntityOf(under[n], index[under[n]], unique)]

=============================================================================
