--------------------------- MODULE MCVersionedCache ---------------------------
(* Small instances of VersionedCache for TLC. *)
EXTENDS VersionedCache, TLC

CONSTANTS k1, k2, a, b, v1, v2, i1, i2

File(v) == [kind |-> "file", value |-> v]
Dir(f) == [kind |-> "dir", children |-> [n \in Name |-> IF n \in DOMAIN f THEN f[n] ELSE None]]
Table(f) == [k \in AKey |-> IF k \in DOMAIN f THEN f[k] ELSE None]
NoInodes == [k \in AKey |-> None]

One(x, y) == [z \in {x} |-> y]

\* A file at /a; the same a-node overwritten; another a-node
\* at /a, a directory now, holding the first one as /a/b.
FileAtA  == Table([k \in {ROOT, k1} |-> IF k = ROOT THEN Dir(One(a, k1)) ELSE File(v1)])
Rewrote  == Table([k \in {ROOT, k1} |-> IF k = ROOT THEN Dir(One(a, k1)) ELSE File(v2)])
MovedToAB == Table([k \in AKey |-> CASE k = ROOT -> Dir(One(a, k2))
                                     [] k = k2 -> Dir(One(b, k1))
                                     [] k = k1 -> File(v1)])

MCPath == {<<a>>, <<a, b>>}
ShortPath == {<<a>>}

DataContents == {[data |-> d, inodes |-> NoInodes] : d \in {FileAtA, Rewrote, MovedToAB}}

InodeContents ==
  {[data |-> d, inodes |-> [k \in AKey |-> IF k = k1 THEN i ELSE None]] :
     d \in {FileAtA}, i \in {i1, i2}}

\* Threads are interchangeable.
Threads == Permutations(Reader) \cup Permutations(Writer)

=============================================================================
