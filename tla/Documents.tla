------------------------------ MODULE Documents ------------------------------
(***************************************************************************)
(* The life of one stored entry: a document of some type, written whole by *)
(* WriteTxn::store, store_value or store_serde, then edited in place by    *)
(* the typed accessors and by value, and read zero-copy; or a directory    *)
(* whose children come and go.  The bytes are exact.                       *)
(***************************************************************************)
EXTENDS SerdeBlob

CONSTANTS
  Schemas,     \* the types under test, each a record (see MCDocuments)
  Payloads,    \* the payloads a leaf of a scalar type takes
  KeyNames,    \* the names of map entries and of directory children
  MaxLen,      \* the most elements or entries a list, map or directory holds
  ProbeNames,  \* names and positions the reads are probed with
  ProbeIndexes

VARIABLES
  schema,  \* the type of the document
  form,    \* who wrote its present layout: "adata", "serde" or "dir"
  entry,   \* the stored bytes
  seen,    \* what loading the entry gives its user
  call     \* the last call, as in TypedDocument

vars == <<schema, form, entry, seen, call>>

RECURSIVE Tuples(_)
Tuples(sets) ==
  IF sets = <<>> THEN {<<>>} ELSE {<<x>> \o t : x \in Head(sets), t \in Tuples(Tail(sets))}

\* The values of a type that an instance stores
RECURSIVE Values(_)
Values(ty) ==
  CASE ty.is = "leaf" -> Payloads[ty.scalar]
    [] ty.is = "opt" -> {None} \cup Values(ty.of)
    [] ty.is = "seq" -> UNION {Tuples([k \in 1 .. n |-> Values(ty.of)]) : n \in 0 .. MaxLen}
    [] ty.is = "map" ->
         LET ks == IF ty.key = StrType THEN KeyNames ELSE Values(ty.key)
         IN UNION {[s -> Values(ty.of)] : s \in {t \in SUBSET ks : Cardinality(t) <= MaxLen}}
    [] ty.is = "struct" -> Tuples([k \in DOMAIN ty.fields |-> Values(ty.fields[k].ty)])
    [] ty.is = "enum" ->
         UNION {LET fs == ty.variants[i].fields
                IN {[variant |-> i, args |-> a] :
                      a \in Tuples([k \in DOMAIN fs |-> Values(fs[k].ty)])} : i \in DOMAIN ty.variants}

\* The children of a directory
Children(e) ==
  LET es == dir_entries(payload_of(e))
  IN [n \in {es[k][1] : k \in DOMAIN es} |-> es[CHOOSE k \in DOMAIN es : es[k][1] = n][2]]

\* What the entry e, written in the form f, holds for its user
Loaded(f, e) ==
  CASE f = "adata" -> load(schema.ty, Archived(e), <<>>)
    [] f = "serde" -> from_blob(schema.ty, payload_of(e))
    [] f = "dir"   -> Children(e)

Abstract == INSTANCE TypedDocument WITH doc <- seen

\* The entry and its form after a call
Written(f, e) == entry' = e /\ form' = f /\ UNCHANGED schema

Did(op, addr, arg) == call' = Abstract!Call(op, addr, arg)

---------------------------------------------------------------------------
(* Whole documents. *)

IsData == schema.adata /\ form # "dir"

\* The document's type, and the ones it replaced, with which the same program wrote
\* before a field or a variant was renamed, added or dropped: each with what its
\* values are in the present type.
Versions == {[ty |-> schema.ty, reads |-> [x \in schema.stores |-> x]]} \cup schema.olds

StoreData(v, x) ==
  /\ IsData
  /\ Written("adata", file_entry(encode_data(v.ty, x)))
  /\ Did("set", <<>>, v.reads[x])

\* A value with a key that is no name is refused.
StoreSerde(v, x) ==
  /\ schema.serde /\ form # "dir"
  /\ \E blob \in {to_blob(v.ty, x)} \ {Err} : Written("serde", file_entry(blob))
  /\ Did("set", <<>>, v.reads[x])

---------------------------------------------------------------------------
(* Accessors: the Mut handles a program can obtain from fetch_mut, each    *)
(* with its type, its path and the address of the part it stands for.      *)

Accessor(ty, path, addr) == [ty |-> ty, path |-> path, addr |-> addr]

Element(a, k) == Accessor(a.ty.of, child_index(a.path, k - 1), Append(a.addr, k))

Entry(a, n) == Accessor(a.ty.of, child_name(a.path, n), Append(a.addr, n))

FieldOf(a, k) ==
  Accessor(a.ty.fields[k].ty, FieldPath(a.ty.fields[k], a.path), Append(a.addr, k))

\* The accessors one call away, where the cursor has this node or none
Nearer(a, node) ==
  CASE a.ty.is = "seq" /\ LenOf(node) # Err -> {Element(a, k) : k \in 1 .. LenOf(node)}
    [] a.ty.is = "map" /\ KeysOf(node) # Err -> {Entry(a, n) : n \in Range(KeysOf(node))}
    [] a.ty.is = "struct" -> {FieldOf(a, k) : k \in DOMAIN a.ty.fields}
    [] OTHER -> {}

RECURSIVE Reach(_, _)
Reach(a, h) == {a} \cup UNION {Reach(b, h) : b \in Nearer(a, NodeAt(h, a.path))}

\* A document serde wrote is opened by a typed accessor only when the type
\* has the same layout under both.
Accessors ==
  IF ~IsData \/ (form = "serde" /\ ~schema.plain) THEN {}
  ELSE Reach(Accessor(schema.ty, <<>>, <<>>), Cursor(entry))

\* The call goes through a cursor, which leaves it with the handle h
Edited(h) == Written(form, h.entry)

LeafMut_set(a, x) ==
  /\ Edited(put_scalar(Cursor(entry), a.path, Scalar(a.ty.scalar, x)))
  /\ Did("set", a.addr, x)

\* An option that is an element of a list is left out: the removal shifts the
\* elements behind it.
OptMut_set(a, x) ==
  /\ a.path = <<>> \/ Last(a.path).is = "name"
  /\ LET cleared == remove(Cursor(entry), a.path)
     IN Edited(IF x = None THEN put_scalar(cleared, a.path, Null)
               ELSE store(a.ty.of, x, cleared, a.path))
  /\ Did("set", a.addr, x)

\* A container takes no more than MaxLen parts.
SeqMut_push(a, x) ==
  \E len \in {len_at(Cursor(entry), a.path)} \ {Err} :
    /\ len < MaxLen
    /\ Edited(store(a.ty.of, x, Cursor(entry), child_index(a.path, len)))
    /\ Did("push", a.addr, x)

HasRoomFor(n, names) == n \in Range(names) \/ Len(names) < MaxLen

MapMut_insert(a, n, x) ==
  /\ \E names \in {keys_at(Cursor(entry), a.path)} \ {Err} : HasRoomFor(n, names) = TRUE
  /\ Edited(store(a.ty.of, x, remove(Cursor(entry), child_name(a.path, n)), child_name(a.path, n)))
  /\ Did("extend", a.addr, Single(n, x))

MapMut_remove(a, n) ==
  /\ keys_at(Cursor(entry), a.path) # Err
  /\ Edited(remove(Cursor(entry), child_name(a.path, n)))
  /\ Did("remove_key", a.addr, n)

---------------------------------------------------------------------------
(* Editing by value: load_value, an operation on the node at a path        *)
(* (get_value_mut), store_value.                                           *)

Size(node) == IF node.kind = "list" THEN Len(node.items) ELSE Cardinality(DOMAIN node.map)

\* The node at the accessor's path, edited to be this one
Replaced(a, node) ==
  /\ Size(node) <= MaxLen
  /\ Edited(Cursor(file_entry(encode(set_value(decode(payload_of(entry)), a.path, node)))))

PushValue(a, node, x) ==
  Replaced(a, push(node, Built(a.ty.of, x))) /\ Did("push", a.addr, x)

InsertValue(a, node, n, x) ==
  Replaced(a, insert(node, n, Built(a.ty.of, x))) /\ Did("extend", a.addr, Single(n, x))

RemoveAtValue(a, node, k) ==
  k <= Size(node) /\ Replaced(a, remove_at(node, k - 1)) /\ Did("remove_at", a.addr, k)

RemoveKeyValue(a, node, n) ==
  Replaced(a, remove_key(node, n)) /\ Did("remove_key", a.addr, n)

ClearValue(a, node) == Replaced(a, clear(node)) /\ Did("set", a.addr, <<>>)

\* merge: another list is appended, another map wins over the entries
MergeValue(a, node, x) ==
  /\ Replaced(a, merge(node, Built(a.ty, x)))
  /\ Did(IF a.ty.is = "seq" THEN "append" ELSE "extend", a.addr, x)

---------------------------------------------------------------------------
(* A directory's entry: the child map is decoded, changed and re-encoded   *)
(* (txn/context/ctx.rs).                                                   *)

LinkChild(n, key) ==
  LET children == Children(entry)
  IN /\ form = "dir" /\ (n \in DOMAIN children \/ Cardinality(DOMAIN children) < MaxLen)
     /\ Written("dir", dir_entry(encode_dir(Extended(children, Single(n, key)))))
     /\ Did("extend", <<>>, Single(n, key))

UnlinkChild(n) ==
  /\ form = "dir"
  /\ Written("dir", dir_entry(encode_dir(Without(Children(entry), n))))
  /\ Did("remove_key", <<>>, n)

---------------------------------------------------------------------------

Init ==
  /\ schema \in Schemas
  /\ form = CASE schema.dir -> "dir" [] schema.adata -> "adata" [] OTHER -> "serde"
  /\ \E x \in schema.stores :
       /\ form = "serde" => to_blob(schema.ty, x) # Err
       /\ entry = CASE form = "dir" -> dir_entry(encode_dir(x))
                    [] form = "adata" -> file_entry(encode_data(schema.ty, x))
                    [] form = "serde" -> file_entry(to_blob(schema.ty, x))
       /\ call = Abstract!Call("set", <<>>, x)
  /\ seen = Loaded(form, entry)

WholeStep ==
  \E v \in Versions : \E x \in DOMAIN v.reads : StoreData(v, x) \/ StoreSerde(v, x)

AccessorStep ==
  \E a \in Accessors :
    \/ a.ty.is = "leaf" /\ \E x \in Values(a.ty) : LeafMut_set(a, x)
    \/ a.ty.is = "opt" /\ \E x \in Values(a.ty) : OptMut_set(a, x)
    \/ a.ty.is = "seq" /\ \E x \in Values(a.ty.of) : SeqMut_push(a, x)
    \/ /\ a.ty.is = "map"
       /\ \E n \in KeyNames : MapMut_remove(a, n) \/ \E x \in Values(a.ty.of) : MapMut_insert(a, n, x)

ListStep(a, node) ==
  \/ \E x \in Values(a.ty.of) : PushValue(a, node, x)
  \/ \E k \in 1 .. MaxLen : RemoveAtValue(a, node, k)

MapStep(a, node) ==
  \E n \in KeyNames :
    RemoveKeyValue(a, node, n) \/ \E x \in Values(a.ty.of) : InsertValue(a, node, n, x)

ValueStep ==
  \E a \in {b \in Accessors : b.ty.is \in {"seq", "map"}} :
    \E node \in {subtree(decode(payload_of(entry)), a.path)} \ {None} :
      \/ a.ty.is = "seq" /\ ListStep(a, node)
      \/ a.ty.is = "map" /\ MapStep(a, node)
      \/ ClearValue(a, node)
      \/ \E x \in Values(a.ty) : MergeValue(a, node, x)

DirStep == \E n \in KeyNames : UnlinkChild(n) \/ \E key \in Payloads["AKey"] : LinkChild(n, key)

\* The entry is loaded after every call.
Reads == seen' = Loaded(form', entry')

Next ==
  \/ WholeStep /\ Reads
  \/ AccessorStep /\ Reads
  \/ ValueStep /\ Reads
  \/ DirStep /\ Reads

Spec == Init /\ [][Next]_vars

---------------------------------------------------------------------------

\* The entry is bytes, and the value it was last given reads back as one of its type.
TypeOK ==
  /\ \A k \in DOMAIN entry : entry[k] \in 0 .. 255
  /\ entry[1] = IF form = "dir" THEN DIR_TAG ELSE FILE_TAG
  /\ form # "dir" => seen \in Values(schema.ty)

\* Whatever the sequence of stores, accessor edits and edits by value, the document reads
\* back as the Rust value that the same calls make of a plain variable: no call loses,
\* keeps or touches a part that it does not name.
ImplementsTypedDocument == Abstract!Spec

Probes ==
  LET segments == {Name(n) : n \in ProbeNames} \cup {Index(k) : k \in ProbeIndexes}
  IN {<<>>} \cup {<<s>> : s \in segments} \cup {<<s, t>> : s \in segments, t \in segments}

\* A zero-copy read (ArchivedReader: offsets and binary search) and a read of the decoded
\* value answer alike at every path, whether it leads somewhere or not.
ReadsAgree ==
  IF form = "dir"
  THEN \A n \in ProbeNames :
         dir_get(payload_of(entry), n) =
           IF n \in DOMAIN seen THEN seen[n] ELSE None
  ELSE \A path \in Probes : NodeAt(Archived(entry), path) = NodeAt(Cursor(entry), path)

\* The direct encoders and the same-width patches leave the very bytes that encoding the
\* decoded value would: "An override MUST produce the byte-for-byte blob the default would."
Canonical == form = "adata" => payload_of(entry) = encode(decode(payload_of(entry)))

\* A type without enums and attributes has one layout: what AData or an accessor wrote,
\* serde reads, and the other way round.
LayoutsAgree ==
  schema.plain => load(schema.ty, Archived(entry), <<>>) = from_blob(schema.ty, payload_of(entry))

=============================================================================
