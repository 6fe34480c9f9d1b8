-------------------------------- MODULE Blob --------------------------------
(***************************************************************************)
(* codec/archived.rs: a document as one byte string.  A header (version,   *)
(* offset of the root), then the nodes, children first; lists and objects  *)
(* hold absolute offsets, objects in name order.  A blob is written by the *)
(* library: reads of damaged bytes are not modelled.                       *)
(***************************************************************************)
EXTENDS DocValue

FORMAT_VERSION == 1
HEADER_LEN     == 5

LEAF == 0
LIST == 1
NODE == 2

begin_blob == <<FORMAT_VERSION>> \o put_u32(0)

patch_root(buf, root) == <<buf[1]>> \o put_u32(root) \o SubSeq(buf, HEADER_LEN + 1, Len(buf))

\* A buffer grown by a node, and the node's offset.
Pushed(buf, off) == [buf |-> buf, off |-> off]

\* One more node, its offset after the others
Collected(offs, node) == Pushed(node.buf, Append(offs, node.off))

push_leaf(buf, scalar) == Pushed(buf \o <<LEAF>> \o Scalar_encode(scalar), Len(buf))

Flat(parts) == FoldLeft(LAMBDA all, part : all \o part, <<>>, parts)

push_list(buf, children) ==
  Pushed(buf \o <<LIST>> \o put_u32(Len(children))
             \o Flat([k \in 1 .. Len(children) |-> put_u32(children[k])]),
         Len(buf))

\* How many bytes the names before the k-th take
NamesBefore(names, k) == Len(Flat(SubSeq(names, 1, k - 1)))

\* The names of an object, their table and the children at the offsets.
push_object(buf, names, children) ==
  Pushed(buf \o Flat(names) \o <<NODE>> \o put_u32(Len(names))
           \o Flat([k \in 1 .. Len(names) |->
                      put_u32(Len(buf) + NamesBefore(names, k)) \o put_u32(Len(names[k]))
                        \o put_u32(children[k])]),
         Len(buf) + NamesBefore(names, Len(names) + 1))

\* A list and an object whose children have just been pushed
PushedList(kids) == push_list(kids.buf, kids.off)
PushedObject(kids, names) == push_object(kids.buf, names, kids.off)

\* The children of a map in the order of the names
InOrder(map, names) == [k \in 1 .. Len(names) |-> map[names[k]]]

RECURSIVE push_value(_, _)
RECURSIVE push_values(_, _)
RECURSIVE push_map(_, _, _)
push_value(v, buf) ==
  CASE v.kind = "leaf" -> push_leaf(buf, v.scalar)
    [] v.kind = "list" -> PushedList(push_values(v.items, Pushed(buf, <<>>)))
    [] v.kind = "node" -> push_map(v.map, keys(v), buf)

push_map(map, names, buf) ==
  PushedObject(push_values(InOrder(map, names), Pushed(buf, <<>>)), names)

\* The values one after the other, their offsets collected in pushed.off.
push_values(values, pushed) ==
  IF values = <<>> THEN pushed
  ELSE push_values(Tail(values), Collected(pushed.off, push_value(Head(values), pushed.buf)))

\* The blob of what has been pushed after its header
Finished(pushed) == patch_root(pushed.buf, pushed.off)

encode(v) == Finished(push_value(v, begin_blob))

\* An ArchivedNode is the blob and an offset of it.
root(blob) == read_u32(blob, 1)

KindOf(blob, off) ==
  CASE read_u8(blob, off) = LEAF -> "leaf"
    [] read_u8(blob, off) = LIST -> "list"
    [] read_u8(blob, off) = NODE -> "node"

ScalarRead(blob, off) == Scalar_decode(SubSeq(blob, off + 2, Len(blob)))

scalar_if_leaf(blob, off) ==
  IF KindOf(blob, off) = "leaf" THEN ScalarRead(blob, off).scalar ELSE None

Count(blob, off) == read_u32(blob, off + 1)

node_at(blob, off, k) ==
  IF KindOf(blob, off) = "list" /\ k < Count(blob, off)
  THEN read_u32(blob, off + 5 + k * 4) ELSE None

entry_name(blob, entry) == Slice(blob, read_u32(blob, entry), read_u32(blob, entry + 4))

\* The binary search over a table of records of a width: the record's offset.
RECURSIVE Search(_, _, _, _, _, _)
RECURSIVE Compare(_, _, _, _, _, _, _)
Search(blob, table, width, needle, lo, hi) ==
  IF lo >= hi THEN None
  ELSE Compare(blob, table, width, needle, lo, hi, lo + (hi - lo) \div 2)

\* Mutant of Compare: the upper bound is taken to be inclusive.
Compare_short(blob, table, width, needle, lo, hi, mid) ==
  LET name == entry_name(blob, table + mid * width)
  IN CASE name = needle -> table + mid * width
       [] Before(name, needle) -> Search(blob, table, width, needle, mid + 1, hi)
       [] OTHER -> Search(blob, table, width, needle, lo, mid - 1)

Compare(blob, table, width, needle, lo, hi, mid) ==
  LET name == entry_name(blob, table + mid * width)
  IN CASE name = needle -> table + mid * width
       [] Before(name, needle) -> Search(blob, table, width, needle, mid + 1, hi)
       [] OTHER -> Search(blob, table, width, needle, lo, mid)

\* The integer eight bytes into a record, if there is one
ChildAt(blob, record) == IF record = None THEN None ELSE read_u32(blob, record + 8)

node_get(blob, off, name) ==
  IF KindOf(blob, off) # "node" THEN None
  ELSE ChildAt(blob, Search(blob, off + 5, 12, name, 0, Count(blob, off)))

\* <<name, offset of the child>> for every field
entries(blob, off) ==
  [k \in 1 .. Count(blob, off) |->
     LET entry == off + 5 + (k - 1) * 12
     IN <<entry_name(blob, entry), read_u32(blob, entry + 8)>>]

object_keys(blob, off) == [k \in 1 .. Count(blob, off) |-> entries(blob, off)[k][1]]

StepFrom(blob, off, segment) ==
  CASE off = None -> None
    [] off # None /\ segment.is = "name" -> node_get(blob, off, segment.name)
    [] off # None /\ segment.is = "index" -> node_at(blob, off, segment.index)

navigate(blob, off, path) == FoldLeft(LAMBDA o, segment : StepFrom(blob, o, segment), off, path)

\* A sequence of <<name, x>> as a map
AsMap(pairs) ==
  [n \in {pairs[k][1] : k \in DOMAIN pairs} |->
     pairs[CHOOSE k \in DOMAIN pairs : pairs[k][1] = n][2]]

RECURSIVE to_value(_, _)
to_value(blob, off) ==
  CASE KindOf(blob, off) = "leaf" -> Leaf(ScalarRead(blob, off).scalar)
    [] KindOf(blob, off) = "list" ->
         List([k \in 1 .. Count(blob, off) |-> to_value(blob, node_at(blob, off, k - 1))])
    [] KindOf(blob, off) = "node" ->
         LET child == AsMap(entries(blob, off))
         IN Node([n \in DOMAIN child |-> to_value(blob, child[n])])

decode(blob) == to_value(blob, root(blob))

\* The offset and the length of the scalar of a leaf, None for another node or none
scalar_span(blob, off) ==
  IF off # None /\ KindOf(blob, off) = "leaf"
  THEN [off |-> off + 1, len |-> ScalarRead(blob, off).len] ELSE None

leaf_scalar_span(blob, path) == scalar_span(blob, navigate(blob, root(blob), path))

\* Mutant of Overwritten: a narrower scalar is written over a wider one.
Overwritten_narrower(blob, span, bytes) ==
  IF span # None /\ span.len >= Len(bytes)
  THEN [k \in DOMAIN blob |-> IF k - 1 \in span.off .. span.off + Len(bytes) - 1
                              THEN bytes[k - span.off] ELSE blob[k]]
  ELSE None

\* bytes written over the span, None when it is none or of another width
Overwritten(blob, span, bytes) ==
  IF span # None /\ span.len = Len(bytes)
  THEN [k \in DOMAIN blob |-> IF k - 1 \in span.off .. span.off + span.len - 1
                              THEN bytes[k - span.off] ELSE blob[k]]
  ELSE None

\* The scalar written over the leaf of the same width at path (txn/context/table.rs)
patch_scalar(blob, path, scalar) ==
  Overwritten(blob, leaf_scalar_span(blob, path), Scalar_encode(scalar))

\* put_scalar_into on an existing file: the patch, or decode, edit and encode.
PutScalar(blob, path, scalar) ==
  LET patched == patch_scalar(blob, path, scalar)
  IN IF patched # None THEN patched
     ELSE encode(set_value(decode(blob), path, Leaf(scalar)))

---------------------------------------------------------------------------
(* codec/dir.rs: a directory's children, name to key, in name order. *)

ENTRY == 24

DirRecords(children, names) ==
  Flat([k \in 1 .. Len(names) |->
          put_u32(4 + Len(names) * ENTRY + NamesBefore(names, k)) \o put_u32(Len(names[k]))
            \o to_be_bytes(children[names[k]], 16)])

encode_dir(children) ==
  LET names == Sorted(DOMAIN children)
  IN put_u32(Len(names)) \o DirRecords(children, names) \o Flat(names)

dir_len(blob) == read_u32(blob, 0)

entry_akey(blob, entry) == from_be_bytes(Slice(blob, entry + 8, 16), FALSE)

dir_get(blob, name) ==
  LET entry == Search(blob, 4, ENTRY, name, 0, dir_len(blob))
  IN IF entry = None THEN None ELSE entry_akey(blob, entry)

\* <<name, key>> for every child, in name order
dir_entries(blob) ==
  [k \in 1 .. dir_len(blob) |->
     LET entry == 4 + (k - 1) * ENTRY IN <<entry_name(blob, entry), entry_akey(blob, entry)>>]

=============================================================================
