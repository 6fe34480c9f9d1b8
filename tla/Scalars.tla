------------------------------- MODULE Scalars -------------------------------
(***************************************************************************)
(* data/scalar.rs: the content of a leaf and its storage encoding.  A      *)
(* scalar is its variant and its payload, a sequence of integers: the      *)
(* number, the bytes of a string, the parts of a time; a float is its bit  *)
(* pattern.  The features that add big numbers are on.                     *)
(***************************************************************************)
EXTENDS ByteOrder

Scalar(type, payload) == [type |-> type, payload |-> payload]

Null == Scalar("Null", <<>>)

Unsigned(width) == [width |-> width, signed |-> FALSE]
Signed(width) == [width |-> width, signed |-> TRUE]

\* The tag and the integers of each variant of fixed width.
Fixed ==
  [Null |-> [tag |-> 0, parts |-> <<>>],
   Bool |-> [tag |-> 1, parts |-> <<Unsigned(1)>>],
   I8   |-> [tag |-> 2, parts |-> <<Signed(1)>>],
   I16  |-> [tag |-> 3, parts |-> <<Signed(2)>>],
   I32  |-> [tag |-> 4, parts |-> <<Signed(4)>>],
   I64  |-> [tag |-> 5, parts |-> <<Signed(8)>>],
   I128 |-> [tag |-> 6, parts |-> <<Signed(16)>>],
   U8   |-> [tag |-> 7, parts |-> <<Unsigned(1)>>],
   U16  |-> [tag |-> 8, parts |-> <<Unsigned(2)>>],
   U32  |-> [tag |-> 9, parts |-> <<Unsigned(4)>>],
   U64  |-> [tag |-> 10, parts |-> <<Unsigned(8)>>],
   U128 |-> [tag |-> 11, parts |-> <<Unsigned(16)>>],
   F32  |-> [tag |-> 12, parts |-> <<Unsigned(4)>>],
   F64  |-> [tag |-> 13, parts |-> <<Unsigned(8)>>],
   Uuid |-> [tag |-> 16, parts |-> [k \in 1 .. 16 |-> Unsigned(1)]],
   Date |-> [tag |-> 17, parts |-> <<Signed(4)>>],
   Time |-> [tag |-> 18, parts |-> <<Unsigned(4), Unsigned(4)>>],
   DateTime |-> [tag |-> 19, parts |-> <<Signed(4), Unsigned(4), Unsigned(4)>>],
   Duration |-> [tag |-> 20, parts |-> <<Signed(8), Signed(4)>>]]

\* The variants that hold one length-prefixed byte string.
Prefixed == [Str |-> 14, Bytes |-> 15, BigInt |-> 21]

BIG_RATIONAL == 28

\* The special values of a BigFloat, each with a tag of its own; any other
\* one is a sign, an exponent and a mantissa.
FloatClass == [zero |-> 22, pos |-> 23, neg |-> 24, nan |-> 25, inf_pos |-> 26, inf_neg |-> 27]

NanosPerSecond == 1000000000

\* A TimeDelta is whole seconds, rounded down, and nanoseconds of one second;
\* num_seconds and subsec_nanos round towards zero.
num_parts(d) ==
  IF d[1] < 0 /\ d[2] > 0 THEN <<d[1] + 1, d[2] - NanosPerSecond>> ELSE d

\* seconds + nanoseconds
TimeDelta(p) == <<p[1] + p[2] \div NanosPerSecond, p[2] % NanosPerSecond>>

\* Mutant of to_signed_bytes_be: no room is left for the sign.
to_signed_bytes_be_unsigned(n) ==
  LET fits(w) == -128 * 256 ^ (w - 1) <= n /\ n < 256 ^ w
  IN to_be_bytes(n, CHOOSE w \in 1 .. 3 : fits(w) /\ \A v \in 1 .. w - 1 : ~fits(v))

\* The least number of bytes that hold n in two's complement.
to_signed_bytes_be(n) ==
  LET fits(w) == -128 * 256 ^ (w - 1) <= n /\ n < 128 * 256 ^ (w - 1)
  IN to_be_bytes(n, CHOOSE w \in 1 .. 3 : fits(w) /\ \A v \in 1 .. w - 1 : ~fits(v))

from_signed_bytes_be(bytes) == from_be_bytes(bytes, TRUE)

Joined(parts) ==
  LET upto[n \in 0 .. Len(parts)] == IF n = 0 THEN <<>> ELSE upto[n - 1] \o parts[n]
  IN upto[Len(parts)]

encode_parts(layout, payload) ==
  Joined([k \in 1 .. Len(layout) |-> to_be_bytes(payload[k], layout[k].width)])

\* A finite BigFloat is <<tag, exponent>> followed by its mantissa, a special one
\* its tag alone.
encode_float(payload) ==
  IF payload[1] \in {FloatClass.pos, FloatClass.neg}
  THEN <<payload[1]>> \o to_be_bytes(payload[2], 1)
         \o put_bytes(SubSeq(payload, 3, Len(payload)))
  ELSE <<payload[1]>>

Scalar_encode(s) ==
  CASE s.type \in DOMAIN Fixed ->
         <<Fixed[s.type].tag>>
           \o encode_parts(Fixed[s.type].parts,
                           IF s.type = "Duration" THEN num_parts(s.payload) ELSE s.payload)
    [] s.type = "BigInt" -> <<Prefixed.BigInt>> \o put_bytes(to_signed_bytes_be(s.payload[1]))
    [] s.type = "BigFloat" -> encode_float(s.payload)
    [] s.type = "Rational" ->
         <<BIG_RATIONAL>> \o put_bytes(to_signed_bytes_be(s.payload[1]))
           \o put_bytes(to_signed_bytes_be(s.payload[2]))
    [] OTHER -> <<Prefixed[s.type]>> \o put_bytes(s.payload)

Start(layout, k) ==
  LET before[n \in 0 .. Len(layout)] == IF n = 0 THEN 0 ELSE before[n - 1] + layout[n].width
  IN before[k - 1]

decode_parts(layout, body) ==
  [k \in 1 .. Len(layout) |->
     from_be_bytes(Slice(body, Start(layout, k), layout[k].width), layout[k].signed)]

TypeWithTag(table, t) == CHOOSE type \in DOMAIN table : table[type] = t
FixedTags == [type \in DOMAIN Fixed |-> Fixed[type].tag]

\* What a Reader makes of the bytes that begin with a scalar, and its position
\* after it.
Scalar_decode(bytes) ==
  LET t    == bytes[1]
      body == SubSeq(bytes, 2, Len(bytes))
      run(off) == [at |-> off + 4, len |-> read_u32(body, off)]
      text(off) == Slice(body, run(off).at, run(off).len)
      after(off) == run(off).at + run(off).len
      got(type, payload, len) == [scalar |-> Scalar(type, payload), len |-> 1 + len]
  IN CASE \E type \in DOMAIN Fixed : Fixed[type].tag = t ->
            LET type   == TypeWithTag(FixedTags, t)
                layout == Fixed[type].parts
                parts  == decode_parts(layout, body)
            IN got(type, CASE type = "Duration" -> TimeDelta(parts)
                           [] type = "Bool" -> <<IF parts[1] # 0 THEN 1 ELSE 0>>
                           [] OTHER -> parts,
                   Start(layout, Len(layout) + 1))
       [] t = Prefixed.BigInt -> got("BigInt", <<from_signed_bytes_be(text(0))>>, after(0))
       [] t \in {Prefixed.Str, Prefixed.Bytes} ->
            got(TypeWithTag(Prefixed, t), text(0), after(0))
       [] t \in {FloatClass.pos, FloatClass.neg} ->
            got("BigFloat", <<t, from_be_bytes(Slice(body, 0, 1), TRUE)>> \o text(1), after(1))
       [] t \in {FloatClass[c] : c \in DOMAIN FloatClass \ {"pos", "neg"}} ->
            got("BigFloat", <<t>>, 0)
       [] t = BIG_RATIONAL ->
            got("Rational", <<from_signed_bytes_be(text(0)), from_signed_bytes_be(text(after(0)))>>,
                after(after(0)))

=============================================================================
