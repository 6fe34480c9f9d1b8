------------------------------ MODULE SerdeBlob ------------------------------
(***************************************************************************)
(* serde/*.rs: a value that implements Serialize written straight into a   *)
(* blob, and read back.  The types and values are TypedData's; serde's     *)
(* derives know nothing of AData's attributes and representations: a       *)
(* struct is a map of its fields, an enum is tagged by its variant's name, *)
(* a newtype struct is what it wraps.  Reading a scalar by another type    *)
(* than its own, where serde's visitors would take it, is not modelled.    *)
(***************************************************************************)
EXTENDS TypedData

CONSTANT FloatText  \* by type and payload, the decimal text of a float that is a key

\* The scalars that serde's data model has (scalar_into refuses the others)
SerdeScalars ==
  {"Null", "Bool", "I8", "I16", "I32", "I64", "I128", "U8", "U16", "U32", "U64", "U128",
   "F32", "F64", "Str", "Bytes"}

---------------------------------------------------------------------------
(* Map keys are field names: KeySerializer and MapKeyDeserializer. *)

TrueText  == <<116, 114, 117, 101>>
FalseText == <<102, 97, 108, 115, 101>>

KeyInts == {"I8", "I16", "I32", "I64", "I128", "U8", "U16", "U32", "U64", "U128"}

\* Display and FromStr of an integer: decimal digits after a sign
RECURSIVE digits(_)
digits(n) == IF n < 10 THEN Digit(n) ELSE Append(digits(n \div 10), 48 + (n % 10))

to_string(n) == IF n < 0 THEN <<45>> \o digits(-n) ELSE digits(n)

RECURSIVE undigits(_)
undigits(text) == IF text = <<>> THEN 0 ELSE undigits(Front(text)) * 10 + Last(text) - 48

from_string(text) == IF text[1] = 45 THEN -undigits(Tail(text)) ELSE undigits(text)

KeyFloats == {"F32", "F64"}

\* FromStr of a float: the one that Display writes so
FloatOf(type, text) ==
  LET floats == {x \in DOMAIN FloatText[type] : FloatText[type][x] = text}
  IN IF floats = {} THEN Err ELSE CHOOSE x \in floats : TRUE

\* A key's field name; Err for a structural key and for None
RECURSIVE serialize_key(_, _)
serialize_key(ty, k) ==
  CASE ty.is = "leaf" /\ ty.scalar = "Str" -> k
    [] ty.is = "leaf" /\ ty.scalar \in KeyFloats -> FloatText[ty.scalar][k]
    [] ty.is = "opt" /\ k # None -> serialize_key(ty.of, k)
    [] ty.is = "leaf" /\ ty.scalar = "Bool" -> IF k = <<1>> THEN TrueText ELSE FalseText
    [] ty.is = "leaf" /\ ty.scalar \in KeyInts -> to_string(k[1])
    [] ty.is = "enum" /\ ty.variants[k.variant].shape = "unit" -> ty.variants[k.variant].tag
    [] OTHER -> Err

IsNumber(text) ==
  LET body == IF text # <<>> /\ text[1] = 45 THEN Tail(text) ELSE text
  IN body # <<>> /\ \A i \in DOMAIN body : body[i] \in 48 .. 57

VariantNamed(ty, name) ==
  LET named == {i \in DOMAIN ty.variants : ty.variants[i].tag = name}
  IN IF named = {} THEN Err ELSE CHOOSE i \in named : TRUE

\* The key of a field name; an optional one is never None.
RECURSIVE deserialize_key(_, _)
deserialize_key(ty, name) ==
  CASE ty.is = "leaf" /\ ty.scalar = "Str" -> name
    [] ty.is = "leaf" /\ ty.scalar \in KeyFloats -> FloatOf(ty.scalar, name)
    [] ty.is = "opt" -> deserialize_key(ty.of, name)
    [] ty.is = "leaf" /\ ty.scalar = "Bool" ->
         IF name = TrueText THEN <<1>> ELSE IF name = FalseText THEN <<0>> ELSE Err
    [] ty.is = "leaf" /\ ty.scalar \in KeyInts ->
         IF IsNumber(name) THEN <<from_string(name)>> ELSE Err
    [] ty.is = "enum" ->
         LET i == VariantNamed(ty, name)
         IN IF i = Err THEN Err
            ELSE IF ty.variants[i].shape = "unit" THEN [variant |-> i, args |-> <<>>] ELSE Err
    [] OTHER -> Err

---------------------------------------------------------------------------
(* BlobSerializer: nodes are written in the order serde visits them, each  *)
(* object's table in name order.  A failure, of a key, is Err in place of  *)
(* an offset, and goes all the way up.                                     *)

Failed(pushed) == Pushed(pushed.buf, Err)

finish_list(pushed) == IF Err \in Range(pushed.off) THEN Failed(pushed) ELSE PushedList(pushed)

finish_object(pushed, names) ==
  LET order == SortSeq([k \in 1 .. Len(names) |-> k], LAMBDA j, k : Before(names[j], names[k]))
  IN IF Err \in Range(pushed.off) \/ Err \in Range(names) THEN Failed(pushed)
     ELSE push_object(pushed.buf, InOrder(names, order), InOrder(pushed.off, order))

wrap_variant(payload, name) ==
  IF payload.off = Err THEN payload ELSE push_object(payload.buf, <<name>>, <<payload.off>>)

FieldNamesOf(fields) == [k \in 1 .. Len(fields) |-> fields[k].name]

\* A variant's payload once its fields have been written
Payload(variant, args) ==
  CASE variant.shape = "newtype" -> Pushed(args.buf, args.off[1])
    [] variant.shape = "tuple" -> finish_list(args)
    [] variant.shape = "named" -> finish_object(args, FieldNamesOf(variant.fields))

\* The order a map is visited in: any fixed one
Visited(x) == SetToSeq(DOMAIN x)

RECURSIVE serialize(_, _, _)
RECURSIVE serialize_each(_, _)
RECURSIVE serialize_map(_, _, _, _)
serialize(ty, x, buf) ==
  CASE ty.is = "leaf" -> push_leaf(buf, Scalar(ty.scalar, x))
    [] ty.is = "opt" -> IF x = None THEN push_leaf(buf, Null) ELSE serialize(ty.of, x, buf)
    [] ty.is = "seq" -> finish_list(serialize_each(Elements(ty, x, <<>>), Pushed(buf, <<>>)))
    [] ty.is = "map" -> serialize_map(ty, x, Visited(x), buf)
    [] ty.is = "struct" ->
         finish_object(serialize_each([k \in 1 .. Len(x) |-> <<ty.fields[k].ty, x[k]>>],
                                      Pushed(buf, <<>>)),
                       FieldNamesOf(ty.fields))
    [] ty.is = "enum" ->
         LET variant == ty.variants[x.variant]
         IN IF variant.shape = "unit" THEN push_leaf(buf, Scalar("Str", variant.tag))
            ELSE wrap_variant(
                   Payload(variant, serialize_each([k \in 1 .. Len(x.args) |->
                                                      <<variant.fields[k].ty, x.args[k]>>],
                                                   Pushed(buf, <<>>))),
                   variant.tag)

serialize_map(ty, x, ks, buf) ==
  finish_object(serialize_each([k \in 1 .. Len(ks) |-> <<ty.of, x[ks[k]]>>], Pushed(buf, <<>>)),
                [k \in 1 .. Len(ks) |-> serialize_key(ty.key, ks[k])])

serialize_each(parts, pushed) ==
  IF parts = <<>> THEN pushed
  ELSE serialize_each(Tail(parts),
                      Collected(pushed.off, serialize(Head(parts)[1], Head(parts)[2], pushed.buf)))

to_blob(ty, x) ==
  LET pushed == serialize(ty, x, begin_blob) IN IF pushed.off = Err THEN Err ELSE Finished(pushed)

---------------------------------------------------------------------------
(* BlobDeserializer at the node at off of the blob.  deserialize_node has  *)
(* the node's scalar, None when it is no leaf.                             *)

\* An enum's variant name and the offset of its payload, if it has one
EnumAccess(blob, off, s) ==
  CASE KindOf(blob, off) = "leaf" -> IF s.type = "Str" THEN <<s.payload, None>> ELSE Err
    [] KindOf(blob, off) = "node" -> IF Count(blob, off) = 1 THEN entries(blob, off)[1] ELSE Err
    [] KindOf(blob, off) = "list" -> Err

\* The map's entries under their keys, name to offset before
Keyed(key, child) ==
  LET names == {n \in DOMAIN child : deserialize_key(key, n) # Err}
  IN IF names # DOMAIN child THEN Err
     ELSE [x \in {deserialize_key(key, n) : n \in names} |->
             child[CHOOSE n \in names : deserialize_key(key, n) = x]]

RECURSIVE deserialize(_, _, _)
RECURSIVE deserialize_node(_, _, _, _)
RECURSIVE deserialize_all(_, _, _)
RECURSIVE deserialize_first(_, _, _)
RECURSIVE deserialize_fields(_, _, _)
RECURSIVE deserialize_variant(_, _, _)
deserialize(ty, blob, off) == deserialize_node(ty, blob, off, scalar_if_leaf(blob, off))

deserialize_node(ty, blob, off, s) ==
  CASE ty.is = "leaf" -> IF ty.scalar \in SerdeScalars THEN from_scalar(ty.scalar, s) ELSE Err
    [] ty.is = "opt" -> IF s = Null THEN None ELSE deserialize(ty.of, blob, off)
    [] ty.is = "seq" ->
         IF KindOf(blob, off) # "list" THEN Err
         ELSE deserialize_all(ty.of, blob, [k \in 1 .. Count(blob, off) |-> node_at(blob, off, k - 1)])
    [] ty.is = "map" ->
         IF KindOf(blob, off) # "node" THEN Err
         ELSE deserialize_all(ty.of, blob, Keyed(ty.key, AsMap(entries(blob, off))))
    [] ty.is = "struct" -> deserialize_fields(ty.fields, blob, off)
    [] ty.is = "enum" -> deserialize_variant(ty, blob, EnumAccess(blob, off, s))

\* The nodes at the offsets
deserialize_all(ty, blob, offs) ==
  IF offs = Err THEN Err ELSE AllOf([k \in DOMAIN offs |-> deserialize(ty, blob, offs[k])])

\* Mutant of deserialize_fields: the fields are taken in the order of the table.
deserialize_fields_in_order(fields, blob, off) ==
  IF KindOf(blob, off) # "node" \/ Count(blob, off) # Len(fields) THEN Err
  ELSE AllOf([k \in DOMAIN fields |-> deserialize(fields[k].ty, blob, entries(blob, off)[k][2])])

\* What serde's derive does with a list (visit_seq): the fields are the first
\* elements, and the others are left unread.
deserialize_first(fields, blob, off) ==
  IF KindOf(blob, off) # "list" \/ Count(blob, off) < Len(fields) THEN Err
  ELSE AllOf([k \in DOMAIN fields |-> deserialize(fields[k].ty, blob, node_at(blob, off, k - 1))])

\* And with a map of fields (visit_map): the entries it does not know are skipped, a
\* missing option is None.
deserialize_fields(fields, blob, off) ==
  IF KindOf(blob, off) # "node" THEN deserialize_first(fields, blob, off)
  ELSE AllOf([k \in DOMAIN fields |->
                LET child == AsMap(entries(blob, off))
                IN IF fields[k].name \in DOMAIN child
                   THEN deserialize(fields[k].ty, blob, child[fields[k].name])
                   ELSE IF fields[k].ty.is = "opt" THEN None ELSE Err])

\* access is <<name, offset of the payload or None>>
deserialize_variant(ty, blob, access) ==
  IF access = Err \/ VariantNamed(ty, access[1]) = Err THEN Err
  ELSE LET i       == VariantNamed(ty, access[1])
           variant == ty.variants[i]
           payload == access[2]
           args    ==
             CASE variant.shape = "unit" -> <<>>
               [] variant.shape # "unit" /\ payload = None -> Err
               [] variant.shape = "newtype" /\ payload # None ->
                    AllOf(<<deserialize(variant.fields[1].ty, blob, payload)>>)
               [] variant.shape = "tuple" /\ payload # None ->
                    deserialize_first(variant.fields, blob, payload)
               [] variant.shape = "named" /\ payload # None ->
                    deserialize_fields(variant.fields, blob, payload)
       IN IF args = Err THEN Err ELSE [variant |-> i, args |-> args]

from_blob(ty, blob) == deserialize(ty, blob, root(blob))

=============================================================================
