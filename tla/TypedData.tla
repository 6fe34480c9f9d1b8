------------------------------ MODULE TypedData ------------------------------
(***************************************************************************)
(* Rust values as documents: the AData implementations of data/*.rs and    *)
(* those `#[derive(AData)]` generates (arbordb-derive), over the readers   *)
(* and writers of access/*.rs.                                             *)
(*                                                                         *)
(* A type is a record: a leaf of a scalar type, an option, a list, a map   *)
(* (AData's have names for keys), a struct (its fields in declaration      *)
(* order, with their attributes) or an enum (its representation and        *)
(* variants).  A value of a leaf type is the scalar's payload; of an       *)
(* option, None or the value itself; then a sequence; a function; the      *)
(* sequence of the fields' values; [variant, args].  Err is the result of  *)
(* a call that fails.  The attributes skip, skip_store and skip_load, and  *)
(* store_with and load_with, are not modelled.                             *)
(***************************************************************************)
EXTENDS Blob

CONSTANT Err

LeafType(scalar) == [is |-> "leaf", scalar |-> scalar]
OptType(of)      == [is |-> "opt", of |-> of]
SeqType(of)      == [is |-> "seq", of |-> of]
MapType(key, of) == [is |-> "map", key |-> key, of |-> of]
StructType(fs)   == [is |-> "struct", fields |-> fs]
EnumType(repr, vs) == [is |-> "enum", repr |-> repr, variants |-> vs]

StrType  == LeafType("Str")
NullType == LeafType("Null")

\* What stands for an empty list or object where a value's parts are listed
ShapeType(list) == [is |-> "shape", list |-> list]

---------------------------------------------------------------------------
(* engine/entry.rs: a table entry is a kind tag and its payload. *)

DIR_TAG  == 0
FILE_TAG == 1

dir_entry(blob) == <<DIR_TAG>> \o blob

file_entry(blob) == <<FILE_TAG>> \o blob

payload_of(entry) == Tail(entry)

(* A handle is what AData reads from or writes to: a value being built    *)
(* (MemWriter), a stored blob read in place (ArchivedReader), or a stored *)
(* file edited in place (MutCursor, which decodes it for every read).     *)

Mem(v)       == [over |-> "mem", value |-> v]
Archived(e)  == [over |-> "archived", entry |-> e]
Cursor(e)    == [over |-> "cursor", entry |-> e]

\* The file a cursor edits; its access path and key are WriteTxn's matter.
Document(h) == IF h.over = "mem" THEN h.value ELSE decode(payload_of(h.entry))

\* What the calls return for a node of a blob and for one of a value
ArchivedNode(blob, off) ==
  IF off = None THEN None
  ELSE [kind   |-> KindOf(blob, off),
        scalar |-> scalar_if_leaf(blob, off),
        len    |-> IF KindOf(blob, off) = "list" THEN Count(blob, off) ELSE Err,
        keys   |-> IF KindOf(blob, off) = "node" THEN object_keys(blob, off) ELSE Err]

ValueNode(node) ==
  IF node = None THEN None
  ELSE [kind   |-> node.kind,
        scalar |-> leaf(node),
        len    |-> IF node.kind = "list" THEN Len(node.items) ELSE Err,
        keys   |-> IF node.kind = "node" THEN keys(node) ELSE Err]

\* The node at a path of the handle
NodeAt(h, path) ==
  IF h.over = "archived"
  THEN ArchivedNode(payload_of(h.entry),
                    navigate(payload_of(h.entry), root(payload_of(h.entry)), path))
  ELSE ValueNode(subtree(Document(h), path))

exists_at(h, path) == NodeAt(h, path) # None

ScalarOf(node) == IF node = None THEN None ELSE node.scalar
LenOf(node)    == IF node = None THEN Err ELSE node.len
KeysOf(node)   == IF node = None THEN Err ELSE node.keys

scalar_at(h, path) == ScalarOf(NodeAt(h, path))
len_at(h, path)    == LenOf(NodeAt(h, path))
keys_at(h, path)   == KeysOf(NodeAt(h, path))

\* A handle with another document, re-encoded as a whole
Rewritten(h, v) == IF h.over = "mem" THEN Mem(v) ELSE Cursor(file_entry(encode(v)))

put_scalar(h, path, scalar) ==
  IF h.over = "mem" THEN Mem(set_value(h.value, path, Leaf(scalar)))
  ELSE Cursor(file_entry(PutScalar(payload_of(h.entry), path, scalar)))

\* The value with an empty container at path, unless one of its kind is there
WithContainer(v, path, empty) ==
  LET node == subtree(v, path)
  IN IF node # None /\ node.kind = empty.kind THEN v ELSE set_value(v, path, empty)

ensure_container(h, path, list) ==
  Rewritten(h, WithContainer(Document(h), path, IF list THEN new_empty_list ELSE new_empty_node))

remove(h, path) == Rewritten(h, remove_value(Document(h), path))

---------------------------------------------------------------------------
(* Storing. *)

\* The names an enum's payload fields have under internal tagging: their own,
\* or their position in decimal.
Digit(k) == <<48 + k>>

FieldNames(variant) ==
  [k \in 1 .. Len(variant.fields) |->
     IF variant.shape = "named" THEN variant.fields[k].name ELSE Digit(k - 1)]

\* Where a variant's payload sits (EnumRepr::payload_base_*).  It is stored under the
\* variant's tag and loaded under the tag that was found, which may be an alias.
PayloadBase(ty, tag, at_) ==
  CASE ty.repr = "external" -> child_name(at_, tag)
    [] ty.repr = "adjacent" -> child_name(at_, ty.content)
    [] OTHER -> at_

\* The path of the k-th field of a variant's payload
ArgPath(ty, variant, tag, at_, k) ==
  LET base == PayloadBase(ty, tag, at_)
  IN CASE ty.repr = "internal" -> child_name(at_, FieldNames(variant)[k])
       [] variant.shape = "newtype" -> base
       [] variant.shape = "tuple" -> child_index(base, k - 1)
       [] variant.shape = "named" -> child_name(base, variant.fields[k].name)

\* A value is stored part by part: <<type, value, path>> each, in this order.
Container(list, at_) == << <<ShapeType(list), <<>>, at_>> >>

Elements(ty, x, at_) == [k \in 1 .. Len(x) |-> <<ty.of, x[k], child_index(at_, k - 1)>>]

Entries(ty, x, at_, names) ==
  [k \in 1 .. Len(names) |-> <<ty.of, x[names[k]], child_name(at_, names[k])>>]

FieldPath(field, at_) == IF field.flatten THEN at_ ELSE child_name(at_, field.name)

\* The positions of the fields that are stored
Kept(ty, x) == SelectSeq([k \in 1 .. Len(x) |-> k], LAMBDA k : x[k] \notin ty.fields[k].skip_store_if)

Fields(ty, x, at_) ==
  LET part(k) == <<ty.fields[k].ty, x[k], FieldPath(ty.fields[k], at_)>>
  IN [k \in 1 .. Len(Kept(ty, x)) |-> part(Kept(ty, x)[k])]

\* An enum's vnode: an object unless it is untagged, and the tag inside it
EnumHead(ty, variant, at_) ==
  CASE ty.repr = "untagged" -> <<>>
    [] ty.repr = "external" -> Container(FALSE, at_)
    [] OTHER -> Container(FALSE, at_) \o << <<StrType, variant.tag, child_name(at_, ty.tag)>> >>

\* The payload's own container, or the null that a unit variant is
PayloadHead(ty, variant, base) ==
  CASE variant.shape = "unit" /\ ty.repr \in {"external", "untagged"} -> << <<NullType, <<>>, base>> >>
    [] variant.shape \in {"tuple", "named"} /\ ty.repr # "internal" ->
         Container(variant.shape = "tuple", base)
    [] OTHER -> <<>>

Args(ty, variant, args, at_) ==
  [k \in 1 .. Len(args) |-> <<variant.fields[k].ty, args[k], ArgPath(ty, variant, variant.tag, at_, k)>>]

EnumParts(ty, variant, args, at_) ==
  EnumHead(ty, variant, at_) \o PayloadHead(ty, variant, PayloadBase(ty, variant.tag, at_))
    \o Args(ty, variant, args, at_)

Parts(ty, x, at_) ==
  CASE ty.is = "opt" -> << IF x = None THEN <<NullType, <<>>, at_>> ELSE <<ty.of, x, at_>> >>
    [] ty.is = "seq" -> Container(TRUE, at_) \o Elements(ty, x, at_)
    [] ty.is = "map" -> Container(FALSE, at_) \o Entries(ty, x, at_, Sorted(DOMAIN x))
    [] ty.is = "struct" -> Container(FALSE, at_) \o Fields(ty, x, at_)
    [] ty.is = "enum" -> EnumParts(ty, ty.variants[x.variant], x.args, at_)

\* An enum clears what was there, for it may have had another shape.
RECURSIVE store(_, _, _, _)
RECURSIVE store_each(_, _)
store(ty, x, h, at_) ==
  CASE ty.is = "leaf" -> put_scalar(h, at_, Scalar(ty.scalar, x))
    [] ty.is = "shape" -> ensure_container(h, at_, ty.list)
    [] OTHER -> store_each(Parts(ty, x, at_), IF ty.is = "enum" THEN remove(h, at_) ELSE h)

store_each(parts, h) ==
  IF parts = <<>> THEN h
  ELSE store_each(Tail(parts), store(Head(parts)[1], Head(parts)[2], h, Head(parts)[3]))

\* The document AData::store builds in memory (MemWriter)
Built(ty, x) == store(ty, x, Mem(new_empty_node), <<>>).value

\* A derived struct emits its fields itself unless one is flattened
IsSimple(ty) == \A k \in DOMAIN ty.fields : ~ty.fields[k].flatten

\* The stored fields in the order of their names, and those names
Emitted(ty, x) == SortSeq(Kept(ty, x), LAMBDA j, k : Before(ty.fields[j].name, ty.fields[k].name))

EmittedNames(ty, order) == [k \in 1 .. Len(order) |-> ty.fields[order[k]].name]

EmittedFields(ty, x, order) == [k \in 1 .. Len(order) |-> <<ty.fields[order[k]].ty, x[order[k]]>>]

RECURSIVE encode_node(_, _, _)
RECURSIVE encode_nodes(_, _)
RECURSIVE encode_object(_, _, _)
encode_node(ty, x, buf) ==
  CASE ty.is = "leaf" -> push_leaf(buf, Scalar(ty.scalar, x))
    [] ty.is = "opt" -> IF x = None THEN push_leaf(buf, Null) ELSE encode_node(ty.of, x, buf)
    [] ty.is = "seq" -> PushedList(encode_nodes(Elements(ty, x, <<>>), Pushed(buf, <<>>)))
    [] ty.is = "map" ->
         encode_object(Entries(ty, x, <<>>, Sorted(DOMAIN x)), Sorted(DOMAIN x), buf)
    [] ty.is = "struct" /\ IsSimple(ty) ->
         encode_object(EmittedFields(ty, x, Emitted(ty, x)), EmittedNames(ty, Emitted(ty, x)), buf)
    [] OTHER -> push_value(Built(ty, x), buf)

\* The children, then the object that names them
encode_object(parts, names, buf) == PushedObject(encode_nodes(parts, Pushed(buf, <<>>)), names)

encode_nodes(parts, pushed) ==
  IF parts = <<>> THEN pushed
  ELSE encode_nodes(Tail(parts),
                    Collected(pushed.off, encode_node(Head(parts)[1], Head(parts)[2], pushed.buf)))

encode_data(ty, x) == Finished(encode_node(ty, x, begin_blob))

---------------------------------------------------------------------------
(* Loading. *)

\* The results together, or the failure of one of them
AllOf(results) == IF \E k \in DOMAIN results : results[k] = Err THEN Err ELSE results

\* The names a field may have on load, and the first of them that is there
Candidates(field) == <<field.name>> \o field.aliases

First(set) == CHOOSE k \in set : \A j \in set : k <= j

\* Mutant of Chosen: the last of them.
Chosen_last(field, h, at_) ==
  LET there == {k \in DOMAIN Candidates(field) :
                  exists_at(h, child_name(at_, Candidates(field)[k]))}
  IN IF there = {} THEN None ELSE Candidates(field)[CHOOSE k \in there : \A j \in there : j <= k]

Chosen(field, h, at_) ==
  LET there == {k \in DOMAIN Candidates(field) :
                  exists_at(h, child_name(at_, Candidates(field)[k]))}
  IN IF there = {} THEN None ELSE Candidates(field)[First(there)]

\* The variant with this tag or alias, else the one that is `other`, if there is one
FirstTagged(ty, tag) ==
  LET others == {i \in DOMAIN ty.variants : ty.variants[i].other}
      named  == {i \in DOMAIN ty.variants \ others :
                   tag \in {ty.variants[i].tag} \cup Range(ty.variants[i].aliases)}
      arms   == IF named = {} THEN others ELSE named
  IN IF tag = Err \/ arms = {} THEN Err ELSE First(arms)

\* The first of the results that is none of the failures
FirstOk(results) ==
  LET ok == {i \in DOMAIN results : results[i] # Err}
  IN IF ok = {} THEN Err ELSE results[First(ok)]

\* A leaf's payload, if it is of the type
from_scalar(type, s) == IF s # None /\ s.type = type THEN s.payload ELSE Err

\* The name of an object's one field
FirstKey(names) == IF names = Err \/ names = <<>> THEN Err ELSE names[1]

\* The value of an enum from its variant and the loaded payload at the node
VariantOf(ty, i, args, node) ==
  IF args = Err \/ (ty.repr = "untagged" /\ ty.variants[i].shape = "unit" /\ ScalarOf(node) # Null)
  THEN Err ELSE [variant |-> i, args |-> args]

\* The value of a type at a path, where the handle has this node or none
RECURSIVE load(_, _, _)
RECURSIVE load_node(_, _, _, _)
RECURSIVE load_elements(_, _, _, _)
RECURSIVE load_entries(_, _, _, _)
RECURSIVE load_field(_, _, _, _)
RECURSIVE load_tagged(_, _, _, _, _)
RECURSIVE load_variant(_, _, _, _, _, _)
load(ty, h, at_) == load_node(ty, h, at_, NodeAt(h, at_))

load_node(ty, h, at_, node) ==
  CASE ty.is = "leaf" -> from_scalar(ty.scalar, ScalarOf(node))
    [] ty.is = "opt" ->
         IF node = None \/ ScalarOf(node) = Null THEN None ELSE load_node(ty.of, h, at_, node)
    [] ty.is = "seq" -> load_elements(ty, h, at_, LenOf(node))
    [] ty.is = "map" -> load_entries(ty, h, at_, KeysOf(node))
    [] ty.is = "struct" ->
         AllOf([k \in DOMAIN ty.fields |->
                  load_field(ty.fields[k], h, at_, Chosen(ty.fields[k], h, at_))])
    [] ty.is = "enum" /\ ty.repr = "untagged" ->
         FirstOk([i \in DOMAIN ty.variants |-> load_variant(ty, i, Err, h, at_, node)])
    [] ty.is = "enum" /\ ty.repr = "external" ->
         load_tagged(ty, FirstKey(KeysOf(node)), h, at_, node)
    [] OTHER ->
         load_tagged(ty, load(StrType, h, child_name(at_, ty.tag)), h, at_, node)

load_elements(ty, h, at_, len) ==
  IF len = Err THEN Err
  ELSE AllOf([k \in 1 .. len |-> load(ty.of, h, child_index(at_, k - 1))])

load_entries(ty, h, at_, names) ==
  IF names = Err THEN Err
  ELSE AllOf([n \in Range(names) |-> load(ty.of, h, child_name(at_, n))])

load_field(field, h, at_, chosen) ==
  IF ~field.flatten /\ chosen = None /\ field.default # Err THEN field.default
  ELSE load(field.ty, h,
            IF field.flatten \/ chosen = None THEN FieldPath(field, at_) ELSE child_name(at_, chosen))

load_tagged(ty, tag, h, at_, node) ==
  load_variant(ty, FirstTagged(ty, tag), tag, h, at_, node)

\* The variant i, which the tag names; an untagged enum has none.
load_variant(ty, i, tag, h, at_, node) ==
  IF i = Err THEN Err
  ELSE VariantOf(ty, i,
                 AllOf([k \in 1 .. Len(ty.variants[i].fields) |->
                          load(ty.variants[i].fields[k].ty, h,
                               ArgPath(ty, ty.variants[i], tag, at_, k))]),
                 node)

=============================================================================
