------------------------------ MODULE ByteOrder ------------------------------
(***************************************************************************)
(* Byte strings: the order Rust's slices, its BTreeMap and the engine's    *)
(* tables put them in, and big-endian integers.  A byte is a number of     *)
(* 0..255, a byte string a sequence of them.                               *)
(***************************************************************************)
EXTENDS Integers, Sequences

\* a and b agree on their first n bytes.
Agree(a, b, n) == \A i \in 1 .. n : a[i] = b[i]

\* Lexicographic order, a proper prefix first.
Before(a, b) ==
  \E n \in 0 .. Len(b) - 1 :
    /\ n <= Len(a)
    /\ Agree(a, b, n)
    /\ n = Len(a) \/ a[n + 1] < b[n + 1]

Complement(bytes) == [i \in DOMAIN bytes |-> 255 - bytes[i]]

IsPrefixOf(a, b) == Len(a) <= Len(b) /\ Agree(a, b, Len(a))

\* The length bytes from offset off on, counted from 0.
Slice(bytes, off, length) == SubSeq(bytes, off + 1, off + length)

\* The k-th byte of v's two's complement, from the least significant one.  The
\* integers of an instance fit in 32 bits: above them only the sign is left.
ByteOf(v, k) == IF k > 3 THEN (IF v < 0 THEN 255 ELSE 0) ELSE (v \div 256 ^ k) % 256

to_be_bytes(v, width) == [i \in 1 .. width |-> ByteOf(v, width - i)]

\* Horner's rule from the first byte, which carries the sign of a signed integer.
from_be_bytes(bytes, signed) ==
  LET first == IF signed /\ bytes[1] > 127 THEN bytes[1] - 256 ELSE bytes[1]
      value[i \in 1 .. Len(bytes)] ==
        IF i = 1 THEN first ELSE value[i - 1] * 256 + bytes[i]
  IN value[Len(bytes)]

put_u32(n) == to_be_bytes(n, 4)

put_bytes(bytes) == put_u32(Len(bytes)) \o bytes

read_u8(bytes, off) == bytes[off + 1]

read_u32(bytes, off) == from_be_bytes(Slice(bytes, off, 4), FALSE)

=============================================================================
