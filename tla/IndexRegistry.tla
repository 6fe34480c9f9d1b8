---------------------------- MODULE IndexRegistry ----------------------------
(***************************************************************************)
(* index/definitions and index/registry: the definition of an index, and   *)
(* the registry of all of them, one byte string of the $metadata table     *)
(* (None before the first index).  Names and patterns are byte strings; a  *)
(* column is a value path and a direction.                                 *)
(***************************************************************************)
EXTENDS Paths, OrderedKeys

CONSTANT
  IdMax    \* the last number of the id counter: u32::MAX in the code

IndexDef(name, pattern, columns, unique) ==
  [name |-> name, pattern |-> pattern, columns |-> columns, unique |-> unique]

Column(path, desc) == [path |-> path, desc |-> desc]

Flag(b) == IF b THEN <<1>> ELSE <<0>>

IndexDef_encode(def) ==
  put_bytes(def.name) \o put_bytes(def.pattern) \o Flag(def.unique) \o put_u32(Len(def.columns))
    \o Joined([k \in 1 .. Len(def.columns) |->
                 put_bytes(VPath_display(def.columns[k].path)) \o Flag(def.columns[k].desc)])

\* A Reader: where it stands in the bytes, and what it has read.
Reader(pos, got) == [pos |-> pos, got |-> got]

ReadBytes(bytes, r, len) == Reader(r.pos + 4 + len, Append(r.got, Slice(bytes, r.pos + 4, len)))

ReadField(bytes, r, field) ==
  CASE field = "u8" -> Reader(r.pos + 1, Append(r.got, read_u8(bytes, r.pos)))
    [] field = "u32" -> Reader(r.pos + 4, Append(r.got, read_u32(bytes, r.pos)))
    [] field = "bytes" -> ReadBytes(bytes, r, read_u32(bytes, r.pos))

\* Some fields, one after the other
RECURSIVE ReadFields(_, _, _)
ReadFields(bytes, r, fields) ==
  IF fields = <<>> THEN r ELSE ReadFields(bytes, ReadField(bytes, r, Head(fields)), Tail(fields))

Read(bytes, pos, fields) == ReadFields(bytes, Reader(pos, <<>>), fields)

\* A name, a pattern, the uniqueness and the number of columns; a column
DefFields == <<"bytes", "bytes", "u8", "u32">>
ColumnFields == <<"bytes", "u8">>

WithColumn(columns, r) ==
  Reader(r.pos, Append(columns, Column(VPath_parse(r.got[1]), r.got[2] = 1)))

\* The columns from here on, n of them, behind those already read
RECURSIVE decode_columns(_, _, _)
decode_columns(bytes, r, n) ==
  IF n = 0 THEN r
  ELSE decode_columns(bytes, WithColumn(r.got, Read(bytes, r.pos, ColumnFields)), n - 1)

DefOf(head, columns) ==
  Reader(columns.pos, IndexDef(head.got[1], head.got[2], columns.got, head.got[3] # 0))

IndexDefFrom(bytes, head) ==
  DefOf(head, decode_columns(bytes, Reader(head.pos, <<>>), head.got[4]))

IndexDef_decode(bytes, pos) == IndexDefFrom(bytes, Read(bytes, pos, DefFields))

RECURSIVE skip_columns(_, _, _)
skip_columns(bytes, pos, n) ==
  IF n = 0 THEN pos ELSE skip_columns(bytes, Read(bytes, pos, ColumnFields).pos, n - 1)

NameFrom(bytes, head) == Reader(skip_columns(bytes, head.pos, Last(head.got)), head.got[1])

\* The name of the definition that begins here; the rest of it is skipped.
decode_name(bytes, pos) == NameFrom(bytes, Read(bytes, pos, DefFields))

\* A short list of values encodes only the leading columns.
encode_columns(def, values) ==
  LET n == IF Len(values) < Len(def.columns) THEN Len(values) ELSE Len(def.columns)
  IN Joined([k \in 1 .. n |-> encode_scalar(values[k], def.columns[k].desc)])

---------------------------------------------------------------------------

IndexEntry(table, id, def) == [table |-> table, id |-> id, def |-> def]

Registry(next_id, entries_) == [next_id |-> next_id, entries |-> entries_]

Registry_encode(reg) ==
  put_u32(reg.next_id) \o put_u32(Len(reg.entries))
    \o Joined([k \in 1 .. Len(reg.entries) |->
                 put_bytes(reg.entries[k].table) \o put_u32(reg.entries[k].id)
                   \o IndexDef_encode(reg.entries[k].def)])

WithEntry(entries_, r, def) ==
  Reader(def.pos, Append(entries_, IndexEntry(r.got[1], r.got[2], def.got)))

EntryFrom(bytes, entries_, r) == WithEntry(entries_, r, IndexDef_decode(bytes, r.pos))

\* The table and the id of an entry, the counter and the number of entries
EntryFields == <<"bytes", "u32">>
RegistryFields == <<"u32", "u32">>

RECURSIVE decode_entries(_, _, _)
decode_entries(bytes, r, n) ==
  IF n = 0 THEN r
  ELSE decode_entries(bytes, EntryFrom(bytes, r.got, Read(bytes, r.pos, EntryFields)), n - 1)

RegistryFrom(bytes, head) ==
  Registry(head.got[1], decode_entries(bytes, Reader(head.pos, <<>>), head.got[2]).got)

Registry_load(bytes) ==
  IF bytes = None THEN Registry(0, <<>>) ELSE RegistryFrom(bytes, Read(bytes, 0, RegistryFields))

IsNamed(e, table, name) == e.table = table /\ e.def.name = name

\* The place of an index in the registry, 0 if it is not there
Position(reg, table, name) == SelectInSeq(reg.entries, LAMBDA e : IsNamed(e, table, name))

EntryAt(reg, k) == IF k = 0 THEN None ELSE reg.entries[k]

lookup(reg, table, name) == EntryAt(reg, Position(reg, table, name))

for_table(reg, table) == SelectSeq(reg.entries, LAMBDA e : e.table = table)

\* has and any read no more of the bytes than they need.
RECURSIVE has_among(_, _, _, _, _)
has_among(bytes, pos, n, table, name) ==
  /\ n > 0
  /\ \E r \in {Read(bytes, pos, EntryFields)} : \E d \in {decode_name(bytes, r.pos)} :
       (r.got[1] = table /\ d.got = name) \/ has_among(bytes, d.pos, n - 1, table, name)

has(bytes, table, name) == bytes # None /\ has_among(bytes, 8, read_u32(bytes, 4), table, name)

any(bytes) == bytes # None /\ read_u32(bytes, 4) > 0

\* Mutant of Registered: the number goes back to zero when the counter is spent.
Registered_wrapping(reg, table, def) ==
  Registry((reg.next_id + 1) % (IdMax + 1), Append(reg.entries, IndexEntry(table, reg.next_id, def)))

\* The registry with a further index; Err when the counter is spent.
Registered(reg, table, def) ==
  IF reg.next_id = IdMax THEN Err
  ELSE Registry(reg.next_id + 1, Append(reg.entries, IndexEntry(table, reg.next_id, def)))

\* The registry after create, which is the same for a definition that is there
\* already; Err for another definition of the same name.
create(reg, table, def) ==
  LET old == lookup(reg, table, def.name)
  IN CASE old = None -> Registered(reg, table, def)
       [] old # None -> IF old.def = def THEN reg ELSE Err

\* The registry after delete; the counter stays.
delete(reg, table, name) ==
  Registry(reg.next_id, SelectSeq(reg.entries, LAMBDA e : ~IsNamed(e, table, name)))

=============================================================================
