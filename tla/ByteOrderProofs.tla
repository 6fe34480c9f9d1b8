--------------------------- MODULE ByteOrderProofs ---------------------------
(***************************************************************************)
(* What the keys of $index rest on, for byte strings of every length: the  *)
(* order of the engine is total, the keys under a prefix are neighbours,   *)
(* columns that are no prefix of one another decide in turn, and the       *)
(* complement of such a column reverses its order.                         *)
(***************************************************************************)
EXTENDS ByteOrder, SequenceTheorems, WellFoundedInduction, TLAPS

Bytes == Seq(0 .. 255)

\* Neither begins with the other: they differ at a byte that both have.
Apart(a, b) ==
  \E n \in Nat : n < Len(a) /\ n < Len(b) /\ Agree(a, b, n) /\ a[n + 1] # b[n + 1]

\* The bytes of a byte string are integers, and so is its length.
LEMMA BytesAre ==
  ASSUME NEW a \in Bytes
  PROVE  /\ Len(a) \in Nat /\ DOMAIN a = 1 .. Len(a)
         /\ \A i \in 1 .. Len(a) : a[i] \in Int /\ a[i] \in 0 .. 255
<1>1. a \in Seq(0 .. 255)
  BY DEF Bytes
<1>2. Len(a) \in Nat /\ DOMAIN a = 1 .. Len(a)
  BY <1>1, LenProperties
<1>3. ASSUME NEW i \in 1 .. Len(a) PROVE a[i] \in 0 .. 255
  BY <1>1, ElementOfSeq
<1>4. \A x \in 0 .. 255 : x \in Int
  OBVIOUS
<1> QED BY <1>2, <1>3, <1>4

\* A set of numbers has a least one.
LEMMA Least ==
  ASSUME NEW S, S \subseteq Nat, S # {}
  PROVE  \E n \in S : \A m \in S : n <= m
<1> DEFINE R == OpToRel(<, Nat)
<1>1. IsWellFoundedOn(R, Nat)
  BY NatLessThanWellFounded
<1>2. \A m, n \in Nat : m < n => <<m, n>> \in R
  BY DEF OpToRel
<1> HIDE DEF R
<1>3. PICK n \in S : \A m \in S : ~(<<m, n>> \in R)
  BY <1>1, WFMin
<1>4. \A m \in S : m \in Nat /\ n \in Nat /\ ~(m < n)
  BY <1>2, <1>3
<1>5. \A m, k \in Nat : ~(m < k) => k <= m
  OBVIOUS
<1> QED BY <1>4, <1>5

\* Two byte strings agree up to the first place where one ends or they differ.
LEMMA FirstDifference ==
  ASSUME NEW a \in Bytes, NEW b \in Bytes
  PROVE  \E n \in Nat : /\ n <= Len(a) /\ n <= Len(b) /\ Agree(a, b, n)
                        /\ n = Len(a) \/ n = Len(b) \/ a[n + 1] # b[n + 1]
<1> DEFINE S == {n \in Nat : n = Len(a) \/ n = Len(b) \/ a[n + 1] # b[n + 1]}
<1>1. Len(a) \in Nat /\ Len(b) \in Nat
  BY BytesAre
<1>2. S \in SUBSET Nat /\ S # {} /\ Len(a) \in S /\ Len(b) \in S
  BY <1>1
<1>3. PICK n \in S : \A m \in S : n <= m
  <2> HIDE DEF S
  <2> QED BY <1>2, Least
<1>4. n \in Nat /\ n <= Len(a) /\ n <= Len(b)
  BY <1>2, <1>3
<1>5. ASSUME NEW i \in 1 .. n PROVE a[i] = b[i]
  <2>1. i - 1 \in Nat /\ i - 1 < n /\ (i - 1) + 1 = i
    BY <1>4
  <2>2. i - 1 \notin S
    <3> HIDE DEF S
    <3> QED BY <1>3, <1>4, <2>1
  <2> QED BY <2>1, <2>2
<1>6. Agree(a, b, n)
  BY <1>5 DEF Agree
<1> QED BY <1>3, <1>4, <1>6

\* Byte strings that are no prefix of one another differ at a byte that both have.
LEMMA ApartIs ==
  ASSUME NEW a \in Bytes, NEW b \in Bytes
  PROVE  Apart(a, b) <=> ~IsPrefixOf(a, b) /\ ~IsPrefixOf(b, a)
<1> USE BytesAre
<1>1. ASSUME Apart(a, b) PROVE ~IsPrefixOf(a, b) /\ ~IsPrefixOf(b, a)
  BY <1>1 DEF Apart, IsPrefixOf, Agree
<1>2. ASSUME ~IsPrefixOf(a, b), ~IsPrefixOf(b, a) PROVE Apart(a, b)
  <2>1. PICK n \in Nat : /\ n <= Len(a) /\ n <= Len(b) /\ Agree(a, b, n)
                         /\ n = Len(a) \/ n = Len(b) \/ a[n + 1] # b[n + 1]
    BY FirstDifference
  <2>2. n # Len(a)
    BY <1>2, <2>1 DEF IsPrefixOf
  <2>3. n # Len(b)
    BY <1>2, <2>1 DEF IsPrefixOf, Agree
  <2> QED BY <2>1, <2>2, <2>3 DEF Apart
<1> QED BY <1>1, <1>2

\* Where two byte strings first differ, the smaller byte decides.
LEMMA ApartOrder ==
  ASSUME NEW a \in Bytes, NEW b \in Bytes, NEW n \in Nat,
         n < Len(a), n < Len(b), Agree(a, b, n), a[n + 1] # b[n + 1]
  PROVE  Before(a, b) <=> a[n + 1] < b[n + 1]
<1> USE BytesAre
<1>1. ASSUME a[n + 1] < b[n + 1] PROVE Before(a, b)
  BY <1>1 DEF Before
<1>2. ASSUME Before(a, b) PROVE a[n + 1] < b[n + 1]
  <2>1. PICK m \in 0 .. Len(b) - 1 : m <= Len(a) /\ Agree(a, b, m) /\ (m = Len(a) \/ a[m + 1] < b[m + 1])
    BY <1>2 DEF Before
  <2>2. m \in Nat
    BY <2>1
  <2>3. m <= n
    BY <2>1, <2>2 DEF Agree
  <2>4. n <= m
    BY <2>1, <2>2, <2>3 DEF Agree
  <2> QED BY <2>1, <2>2, <2>3, <2>4
<1> QED BY <1>1, <1>2

-----------------------------------------------------------------------------
(* The order of the engine's tables. *)

\* A proper prefix comes first, and nothing comes before a prefix of itself.
LEMMA PrefixOrder ==
  ASSUME NEW a \in Bytes, NEW b \in Bytes, IsPrefixOf(a, b)
  PROVE  ~Before(b, a) /\ (Len(a) < Len(b) => Before(a, b)) /\ (Len(a) = Len(b) => a = b)
<1> USE BytesAre
<1>1. ~Before(b, a)
  BY DEF Before, IsPrefixOf, Agree
<1>2. Len(a) < Len(b) => Before(a, b)
  BY DEF Before, IsPrefixOf
<1>3. ASSUME Len(a) = Len(b) PROVE a = b
  <2>1. a \in Seq(0 .. 255) /\ b \in Seq(0 .. 255) /\ \A i \in 1 .. Len(a) : a[i] = b[i]
    BY DEF Bytes, IsPrefixOf, Agree
  <2> QED BY <1>3, <2>1, SeqEqual
<1> QED BY <1>1, <1>2, <1>3

\* Byte strings are totally ordered, as the keys of a BTreeMap and of the engine's tables
\* must be: no key is before itself, the order is transitive, and of two keys that
\* differ one is before the other.
LEMMA BytesTotallyOrdered ==
  /\ \A a \in Bytes : ~Before(a, a)
  /\ \A a, b \in Bytes : a # b => Before(a, b) \/ Before(b, a)
  /\ \A a, b, c \in Bytes : Before(a, b) /\ Before(b, c) => Before(a, c)
<1> USE BytesAre
<1>1. ASSUME NEW a \in Bytes PROVE ~Before(a, a)
  BY PrefixOrder DEF IsPrefixOf, Agree
<1>2. ASSUME NEW a \in Bytes, NEW b \in Bytes, a # b PROVE Before(a, b) \/ Before(b, a)
  <2>1. PICK n \in Nat : /\ n <= Len(a) /\ n <= Len(b) /\ Agree(a, b, n)
                         /\ n = Len(a) \/ n = Len(b) \/ a[n + 1] # b[n + 1]
    BY FirstDifference
  <2>2. Agree(b, a, n)
    BY <2>1 DEF Agree
  <2>3. CASE n = Len(a)
    BY <1>2, <2>1, <2>3, PrefixOrder DEF IsPrefixOf
  <2>4. CASE n = Len(b)
    BY <1>2, <2>1, <2>2, <2>4, PrefixOrder DEF IsPrefixOf
  <2>5. CASE n < Len(a) /\ n < Len(b)
    <3>1. a[n + 1] \in Int /\ b[n + 1] \in Int /\ a[n + 1] # b[n + 1]
      BY <2>1, <2>5
    <3> QED BY <2>1, <2>2, <2>5, <3>1, ApartOrder
  <2> QED BY <2>1, <2>3, <2>4, <2>5
<1>3. ASSUME NEW a \in Bytes, NEW b \in Bytes, NEW c \in Bytes, Before(a, b), Before(b, c)
      PROVE  Before(a, c)
  <2>1. PICK m \in 0 .. Len(b) - 1 : m <= Len(a) /\ Agree(a, b, m) /\ (m = Len(a) \/ a[m + 1] < b[m + 1])
    BY <1>3 DEF Before
  <2>2. PICK n \in 0 .. Len(c) - 1 : n <= Len(b) /\ Agree(b, c, n) /\ (n = Len(b) \/ b[n + 1] < c[n + 1])
    BY <1>3 DEF Before
  <2>3. m \in Nat /\ n \in Nat /\ m < Len(b)
    BY <2>1, <2>2
  <2>4. CASE m < n
    <3>1. Agree(a, c, m) /\ b[m + 1] = c[m + 1] /\ m \in 0 .. Len(c) - 1
      BY <2>1, <2>2, <2>3, <2>4 DEF Agree
    <3> QED BY <2>1, <3>1 DEF Before
  <2>5. CASE n < m
    <3>1. Agree(a, c, n) /\ a[n + 1] = b[n + 1] /\ n <= Len(a) /\ n # Len(b)
      BY <2>1, <2>2, <2>3, <2>5 DEF Agree
    <3> QED BY <2>2, <3>1 DEF Before
  <2>6. CASE m = n
    <3>1. Agree(a, c, n) /\ n <= Len(a) /\ n # Len(b)
      BY <2>1, <2>2, <2>3, <2>6 DEF Agree
    <3>2. n = Len(a) \/ a[n + 1] < c[n + 1]
      <4>1. CASE n # Len(a)
        <5>1. a[n + 1] \in Int /\ b[n + 1] \in Int /\ c[n + 1] \in Int
          BY <2>2, <2>3, <2>6, <3>1, <4>1
        <5> QED BY <2>1, <2>2, <2>6, <3>1, <4>1, <5>1
      <4> QED BY <4>1
    <3> QED BY <2>2, <3>1, <3>2 DEF Before
  <2> QED BY <2>3, <2>4, <2>5, <2>6
<1> QED BY <1>1, <1>2, <1>3

\* The rows of one prefix are neighbours: no key between two that begin with p begins
\* otherwise, and none of them is before p.  A scan from p on that stops at the first key
\* with another beginning therefore reads exactly the rows under p (scan::scan_prefix,
\* maintenance::delete_all).
THEOREM PrefixIsARange ==
  ASSUME NEW p \in Bytes, NEW a \in Bytes, NEW b \in Bytes, NEW c \in Bytes,
         IsPrefixOf(p, a), IsPrefixOf(p, c), Before(a, b), Before(b, c)
  PROVE  IsPrefixOf(p, b) /\ ~Before(a, p)
<1> USE BytesAre
<1>1. ~Before(a, p)
  BY PrefixOrder
<1>2. ASSUME ~IsPrefixOf(p, b) PROVE FALSE
  <2>1. CASE IsPrefixOf(b, p)
    <3>1. IsPrefixOf(b, a)
      BY <2>1 DEF IsPrefixOf, Agree
    <3> QED BY <3>1, PrefixOrder
  <2>2. CASE ~IsPrefixOf(b, p)
    <3>1. PICK n \in Nat : n < Len(p) /\ n < Len(b) /\ Agree(p, b, n) /\ p[n + 1] # b[n + 1]
      BY <1>2, <2>2, ApartIs DEF Apart
    <3>2. /\ n < Len(a) /\ Agree(a, b, n) /\ a[n + 1] = p[n + 1]
          /\ n < Len(c) /\ Agree(b, c, n) /\ c[n + 1] = p[n + 1]
      BY <3>1 DEF IsPrefixOf, Agree
    <3>3. a[n + 1] < b[n + 1]
      BY <3>1, <3>2, ApartOrder
    <3>4. b[n + 1] < c[n + 1]
      BY <3>1, <3>2, ApartOrder
    <3>5. p[n + 1] \in Int /\ b[n + 1] \in Int
      BY <3>1
    <3> QED BY <3>2, <3>3, <3>4, <3>5
  <2> QED BY <2>1, <2>2
<1> QED BY <1>1, <1>2

-----------------------------------------------------------------------------
(* Composite keys. *)

\* Columns that are no prefix of one another decide the order of the keys that begin
\* with them, whatever follows, and the keys are no prefix of one another either
\* (key::entry_key concatenates the columns).
THEOREM FirstColumnDecides ==
  ASSUME NEW a \in Bytes, NEW b \in Bytes, NEW x \in Bytes, NEW y \in Bytes, Apart(a, b)
  PROVE  /\ Before(a \o x, b \o y) <=> Before(a, b)
         /\ Apart(a \o x, b \o y)
<1>1. PICK n \in Nat : n < Len(a) /\ n < Len(b) /\ Agree(a, b, n) /\ a[n + 1] # b[n + 1]
  BY DEF Apart
<1>2. /\ a \o x \in Bytes /\ Len(a \o x) = Len(a) + Len(x)
      /\ b \o y \in Bytes /\ Len(b \o y) = Len(b) + Len(y)
      /\ Len(a) \in Nat /\ Len(b) \in Nat /\ Len(x) \in Nat /\ Len(y) \in Nat
  BY BytesAre, ConcatProperties DEF Bytes
<1>3. /\ \A i \in 1 .. Len(a) : (a \o x)[i] = a[i]
      /\ \A i \in 1 .. Len(b) : (b \o y)[i] = b[i]
  BY <1>2, ConcatProperties DEF Bytes
<1>4. /\ n < Len(a \o x) /\ n < Len(b \o y)
      /\ Agree(a \o x, b \o y, n)
      /\ (a \o x)[n + 1] = a[n + 1] /\ (b \o y)[n + 1] = b[n + 1]
  BY <1>1, <1>2, <1>3 DEF Agree
<1>5. Apart(a \o x, b \o y)
  BY <1>1, <1>4 DEF Apart
<1>6. Before(a \o x, b \o y) <=> a[n + 1] < b[n + 1]
  BY <1>1, <1>2, <1>4, ApartOrder
<1>7. Before(a, b) <=> a[n + 1] < b[n + 1]
  BY <1>1, ApartOrder
<1> QED BY <1>5, <1>6, <1>7

\* What follows a common head agrees where it did before the head was put there.
LEMMA HeadAgrees ==
  ASSUME NEW a \in Bytes, NEW x \in Bytes, NEW y \in Bytes, NEW n \in Nat, n <= Len(x), n <= Len(y), Agree(x, y, n)
  PROVE  /\ Agree(a \o x, a \o y, Len(a) + n)
         /\ n < Len(x) => (a \o x)[(Len(a) + n) + 1] = x[n + 1]
         /\ n < Len(y) => (a \o y)[(Len(a) + n) + 1] = y[n + 1]
<1>1. Len(a) \in Nat /\ Len(x) \in Nat /\ Len(y) \in Nat
  BY BytesAre
<1>2. ASSUME NEW z \in Bytes, NEW i \in 1 .. Len(a) + Len(z)
      PROVE  (a \o z)[i] = IF i <= Len(a) THEN a[i] ELSE z[i - Len(a)]
  BY ConcatProperties DEF Bytes
<1>3. ASSUME NEW i \in 1 .. Len(a) + n PROVE (a \o x)[i] = (a \o y)[i]
  <2>1. /\ i \in 1 .. Len(a) + Len(x) /\ i \in 1 .. Len(a) + Len(y)
        /\ i <= Len(a) \/ (~(i <= Len(a)) /\ i - Len(a) \in 1 .. n)
    BY <1>1
  <2>2. i <= Len(a) \/ x[i - Len(a)] = y[i - Len(a)]
    BY <2>1 DEF Agree
  <2> QED BY <1>2, <2>1, <2>2
<1>4. ASSUME NEW z \in Bytes, n < Len(z) PROVE (a \o z)[(Len(a) + n) + 1] = z[n + 1]
  <2>1. Len(z) \in Nat
    BY BytesAre
  <2>2. /\ (Len(a) + n) + 1 \in 1 .. Len(a) + Len(z) /\ ~((Len(a) + n) + 1 <= Len(a))
        /\ ((Len(a) + n) + 1) - Len(a) = n + 1
    BY <1>1, <1>4, <2>1
  <2> QED BY <1>2, <2>2
<1> QED BY <1>3, <1>4 DEF Agree

\* Behind equal columns the rest decides: encode_scalar appends each column of a row to
\* the same buffer and entry_key the entity, so what follows is compared on its own.
LEMMA EqualColumnsDefer ==
  ASSUME NEW a \in Bytes, NEW x \in Bytes, NEW y \in Bytes
  PROVE  Before(a \o x, a \o y) <=> Before(x, y)
<1>1. /\ a \o x \in Bytes /\ Len(a \o x) = Len(a) + Len(x)
      /\ a \o y \in Bytes /\ Len(a \o y) = Len(a) + Len(y)
      /\ Len(a) \in Nat /\ Len(x) \in Nat /\ Len(y) \in Nat
  BY BytesAre, ConcatProperties DEF Bytes
<1>2. ASSUME NEW u \in Bytes, NEW v \in Bytes, IsPrefixOf(u, v)
      PROVE  IsPrefixOf(a \o u, a \o v)
  <2>1. /\ Len(a \o u) = Len(a) + Len(u) /\ Len(a \o v) = Len(a) + Len(v)
        /\ Len(u) \in Nat /\ Len(v) \in Nat
    BY BytesAre, ConcatProperties DEF Bytes
  <2>2. Len(u) <= Len(v) /\ Agree(u, v, Len(u))
    BY <1>2 DEF IsPrefixOf
  <2>3. Agree(a \o u, a \o v, Len(a) + Len(u))
    BY <2>1, <2>2, HeadAgrees
  <2>4. Len(a) + Len(u) <= Len(a) + Len(v)
    BY <1>1, <2>1, <2>2
  <2> QED BY <2>1, <2>3, <2>4 DEF IsPrefixOf
<1>3. CASE IsPrefixOf(x, y)
  <2>1. IsPrefixOf(a \o x, a \o y)
    BY <1>2, <1>3
  <2>2. CASE Len(x) < Len(y)
    <3>1. Len(a \o x) < Len(a \o y)
      BY <1>1, <2>2
    <3>2. Before(a \o x, a \o y)
      BY <1>1, <2>1, <3>1, PrefixOrder
    <3>3. Before(x, y)
      BY <1>3, <2>2, PrefixOrder
    <3> QED BY <3>2, <3>3
  <2>3. CASE Len(x) = Len(y)
    <3>1. x = y
      BY <1>3, <2>3, PrefixOrder
    <3> QED BY <3>1, <1>1, BytesTotallyOrdered
  <2>4. Len(x) < Len(y) \/ Len(x) = Len(y)
    BY <1>1, <1>3 DEF IsPrefixOf
  <2> QED BY <2>2, <2>3, <2>4
<1>4. CASE IsPrefixOf(y, x)
  <2>1. ~Before(x, y)
    BY <1>4, PrefixOrder
  <2>2. IsPrefixOf(a \o y, a \o x)
    BY <1>2, <1>4
  <2>3. ~Before(a \o x, a \o y)
    BY <1>1, <2>2, PrefixOrder
  <2> QED BY <2>1, <2>3
<1>5. CASE Apart(x, y)
  <2>1. PICK n \in Nat : n < Len(x) /\ n < Len(y) /\ Agree(x, y, n) /\ x[n + 1] # y[n + 1]
    BY <1>5 DEF Apart
  <2>2. /\ Len(a) + n \in Nat /\ Len(a) + n < Len(a \o x) /\ Len(a) + n < Len(a \o y)
        /\ n <= Len(x) /\ n <= Len(y)
    BY <1>1, <2>1
  <2>3. /\ Agree(a \o x, a \o y, Len(a) + n)
        /\ (a \o x)[(Len(a) + n) + 1] = x[n + 1] /\ (a \o y)[(Len(a) + n) + 1] = y[n + 1]
    BY <2>1, <2>2, HeadAgrees
  <2>4. Before(a \o x, a \o y) <=> x[n + 1] < y[n + 1]
    BY <1>1, <2>1, <2>2, <2>3, ApartOrder
  <2>5. Before(x, y) <=> x[n + 1] < y[n + 1]
    BY <2>1, ApartOrder
  <2> QED BY <2>4, <2>5
<1> QED BY <1>3, <1>4, <1>5, ApartIs

\* Two columns one after the other order rows by the first, then by the second: when a
\* column's encodings are no prefix of one another, the key of a composite index sorts
\* like the tuple of its columns (index_key).
THEOREM RowsSortByColumns ==
  ASSUME NEW a \in Bytes, NEW b \in Bytes, NEW x \in Bytes, NEW y \in Bytes, a = b \/ Apart(a, b)
  PROVE  Before(a \o x, b \o y) <=> Before(a, b) \/ (a = b /\ Before(x, y))
<1>1. CASE a = b
  BY <1>1, EqualColumnsDefer, BytesTotallyOrdered
<1>2. CASE Apart(a, b)
  <2>1. a # b
    BY <1>2 DEF Apart
  <2> QED BY <1>2, <2>1, FirstColumnDecides
<1> QED BY <1>1, <1>2

\* The complement is a byte string of the same length.
LEMMA ComplementIs ==
  ASSUME NEW c \in Bytes
  PROVE  /\ Complement(c) \in Bytes /\ Len(Complement(c)) = Len(c)
         /\ \A i \in 1 .. Len(c) : Complement(c)[i] = 255 - c[i]
<1>1. PICK m \in Nat : m = Len(c) /\ c \in [1 .. m -> 0 .. 255] /\ DOMAIN c = 1 .. m
  BY LenProperties DEF Bytes
<1> DEFINE g == [i \in 1 .. m |-> 255 - c[i]]
<1>2. Complement(c) = g
  BY <1>1 DEF Complement
<1>3. \A i \in 1 .. m : g[i] = 255 - c[i]
  OBVIOUS
<1>4. ASSUME NEW i \in 1 .. m PROVE 255 - c[i] \in 0 .. 255
  <2> HIDE DEF g
  <2>1. c[i] \in 0 .. 255
    BY <1>1
  <2>2. \A k \in 0 .. 255 : 255 - k \in 0 .. 255
    OBVIOUS
  <2> QED BY <2>1, <2>2
<1>5. g \in [1 .. m -> 0 .. 255]
  BY <1>4
<1> HIDE DEF g
<1>6. g \in Seq(0 .. 255) /\ Len(g) = m
  BY <1>5
<1> QED BY <1>1, <1>2, <1>3, <1>6 DEF Bytes

\* A column whose every byte is complemented sorts the other way round, and stays no
\* prefix of another (encode_scalar of a descending column).
THEOREM DescendingReverses ==
  ASSUME NEW a \in Bytes, NEW b \in Bytes, Apart(a, b)
  PROVE  /\ Before(Complement(a), Complement(b)) <=> Before(b, a)
         /\ Apart(Complement(a), Complement(b))
<1>1. PICK n \in Nat : n < Len(a) /\ n < Len(b) /\ Agree(a, b, n) /\ a[n + 1] # b[n + 1]
  BY DEF Apart
<1>2. ASSUME NEW c \in Bytes
      PROVE  /\ Complement(c) \in Bytes /\ Len(Complement(c)) = Len(c)
             /\ \A i \in 1 .. Len(c) : Complement(c)[i] = 255 - c[i]
  BY ComplementIs
<1>3. Len(a) \in Nat /\ Len(b) \in Nat /\ a[n + 1] \in Int /\ b[n + 1] \in Int /\ n + 1 \in 1 .. Len(a) /\ n + 1 \in 1 .. Len(b)
  BY <1>1, BytesAre
<1>4. /\ Complement(a)[n + 1] = 255 - a[n + 1]
      /\ Complement(b)[n + 1] = 255 - b[n + 1]
      /\ Agree(Complement(a), Complement(b), n)
      /\ Agree(b, a, n)
  <2>1. \A i \in 1 .. n : i \in 1 .. Len(a) /\ i \in 1 .. Len(b) /\ a[i] = b[i]
    BY <1>1, <1>3 DEF Agree
  <2>2. \A i \in 1 .. n : Complement(a)[i] = Complement(b)[i]
    BY <1>2, <2>1
  <2> QED BY <1>2, <1>3, <2>1, <2>2 DEF Agree
<1>5. Complement(a)[n + 1] # Complement(b)[n + 1]
  BY <1>1, <1>3, <1>4
<1>6. Before(Complement(a), Complement(b)) <=> Complement(a)[n + 1] < Complement(b)[n + 1]
  BY <1>1, <1>2, <1>4, <1>5, ApartOrder
<1>7. Before(b, a) <=> b[n + 1] < a[n + 1]
  BY <1>1, <1>4, ApartOrder
<1>8. Apart(Complement(a), Complement(b))
  BY <1>1, <1>2, <1>4, <1>5 DEF Apart
<1> QED BY <1>3, <1>4, <1>6, <1>7, <1>8

\* Columns of one width are no prefix of one another (the types of fixed width).
LEMMA SameWidthApart ==
  ASSUME NEW a \in Bytes, NEW b \in Bytes, Len(a) = Len(b), a # b
  PROVE  Apart(a, b)
<1>1. ~IsPrefixOf(a, b) /\ ~IsPrefixOf(b, a)
  BY PrefixOrder
<1> QED BY <1>1, ApartIs

=============================================================================
