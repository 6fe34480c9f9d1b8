------------------------------- MODULE Catalog -------------------------------
(***************************************************************************)
(* A database file over its life: the builds of the library that open it   *)
(* (engine/functions.rs, engine/features.rs), its secondary indexes        *)
(* (table.rs, index/maintenance.rs, index/pattern.rs), the queries on them *)
(* (txn/query.rs, txn/grab.rs) and the rooted views through which its      *)
(* tables are written (txn/rooted).  A table is a tree: what is at each  *)
(* path, a document or, where it is None, a directory.  Every write        *)
(* transaction here makes one call and commits; a call that fails leaves   *)
(* nothing.  What happens inside a longer transaction is WriteTxn's.       *)
(***************************************************************************)
EXTENDS IndexRegistry

CONSTANTS
  Programs,   \* what the processes that use the file may do, see below
  Keys,       \* the a-keys a table can draw, besides the root's, 0
  Ladder      \* scalars in ascending order, equal ones in a set

VARIABLES
  meta,     \* $metadata: the version, the required features and the registry's bytes
  data,     \* the data table of each table: path -> key and document
  rows,     \* $index: key -> value, both byte strings
  build,    \* the build that has the file open, or None
  has_indexes, \* DbInner's flag, of the open database
  program,  \* the builds, tables, roots of views, texts of paths, index definitions and
            \* documents that are used in this behaviour, and whether the file is ever
            \* closed before its end
  declared, \* what the program has registered and not dropped: table, definition, id
  call      \* the table and the view's root of the last write

vars == <<meta, data, rows, build, has_indexes, program, declared, call>>

Permissions == "permissions"

---------------------------------------------------------------------------
(* Opening *)

\* Every recorded feature is compiled in.
features_check(required, b) == required \subseteq b.features

\* Mutant of bootstrap_metadata: the features are looked at in a new file only.
bootstrap_metadata_once(m, b) ==
  IF m.version = None THEN [m EXCEPT !.version = b.version]
  ELSE IF m.version > b.version THEN None ELSE m

\* The file a build leaves behind when it opens it, None when it must not.
bootstrap_metadata(m, b) ==
  IF (m.version # None /\ m.version > b.version) \/ ~features_check(m.required, b) THEN None
  ELSE [m EXCEPT !.version = IF m.version = None THEN b.version ELSE m.version]

\* ArborDb::wrap
Open(b) ==
  LET m == bootstrap_metadata(meta, b)
  IN /\ build = None
     /\ m # None
     /\ meta' = m
     /\ build' = b
     /\ has_indexes' = any(m.registry)
     /\ UNCHANGED <<data, rows, program, declared, call>>

Close ==
  /\ build # None
  /\ program.restarts
  /\ build' = None
  /\ UNCHANGED <<meta, data, rows, has_indexes, program, declared, call>>

\* What promotion leaves in $metadata (features::require); the rest of it is in
\* module Permissions.
Promote ==
  /\ build # None
  /\ Permissions \in build.features
  /\ meta' = [meta EXCEPT !.required = @ \cup {Permissions}]
  /\ UNCHANGED <<data, rows, build, has_indexes, program, declared, call>>

---------------------------------------------------------------------------
(* Patterns and the rows they give *)

children(tree, path) == {p \in DOMAIN tree : Len(p) = Len(path) + 1 /\ IsPrefix(path, p)}

\* Pattern::walk, one segment further: literal segments and the scope restrict it
\* where they reach
WalkOn(tree, reached, segment, scope, depth) ==
  {p \in UNION {children(tree, q) : q \in reached} :
     /\ segment # Star => Last(p) = segment
     /\ depth < Len(scope) => Last(p) = scope[depth + 1]}

RECURSIVE walk(_, _, _, _, _)
walk(tree, segs, reached, scope, depth) ==
  IF segs = <<>> THEN reached
  ELSE walk(tree, Tail(segs), WalkOn(tree, reached, Head(segs), scope, depth), scope, depth + 1)

\* Where the entities are that a pattern matches on the line of the scope
affected_entities(tree, pattern, scope) == walk(tree, pattern, {<<>>}, scope, 0)

column_scalar(doc, path) ==
  LET node == IF doc = None THEN None ELSE subtree(doc, path)
  IN IF node = None \/ (node # None /\ leaf(node) = None) THEN Null ELSE leaf(node)

Columns(def, doc) == [k \in DOMAIN def.columns |-> column_scalar(doc, def.columns[k].path)]

\* The key and the value of one entity's row
index_key(id, def, node) ==
  LET cols == encode_columns(def, Columns(def, node.doc))
  IN IF def.unique THEN <<entry_key(id, cols, None), into_bytes(node.key)>>
     ELSE <<entry_key(id, cols, node.key), <<>>>>

entries_for(tree, entry, scope) ==
  {index_key(entry.id, entry.def, tree[p]) :
     p \in affected_entities(tree, Pattern_parse(entry.def.pattern), scope)}

maintenance_delete(index, tree, indexes, scope) ==
  LET dead == UNION {{e[1] : e \in entries_for(tree, indexes[k], scope)} : k \in DOMAIN indexes}
  IN [k \in DOMAIN index \ dead |-> index[k]]

\* No two of the new rows, and no new row and an old one, share a key and differ.
guard_unique(index, new) ==
  /\ \A e \in new : e[1] \in DOMAIN index => index[e[1]] = e[2]
  /\ \A e, f \in new : e[1] = f[1] => e = f

InsertRows(index, new) ==
  IF guard_unique(index, new)
  THEN [k \in DOMAIN index \cup {e[1] : e \in new} |->
          IF k \in DOMAIN index THEN index[k] ELSE (CHOOSE e \in new : e[1] = k)[2]]
  ELSE Err

\* Err for a unique violation
maintenance_insert(index, tree, indexes, scope) ==
  InsertRows(index, UNION {entries_for(tree, indexes[k], scope) : k \in DOMAIN indexes})

\* Mutant of delete_all: the scan ends before the last row.
delete_all_short(index, id) ==
  LET under == RowsUnder(index, id_prefix(id))
  IN [k \in DOMAIN index \ Range(SubSeq(under, 1, Len(under) - 1)) |-> index[k]]

delete_all(index, id) ==
  [k \in DOMAIN index \ Range(RowsUnder(index, id_prefix(id))) |-> index[k]]

---------------------------------------------------------------------------
(* Table::create_index, ensure_index and delete_index *)

\* The index that is new in the registry is filled with its rows; an index that was
\* there already stays as it is.
Registers(t, def, old, reg) ==
  IF reg = old THEN UNCHANGED <<meta, rows, declared>>
  ELSE LET entry == IndexEntry(t, old.next_id, def)
       IN \E full \in {maintenance_insert(rows, data[t], <<entry>>, <<>>)} :
            /\ full # Err
            /\ rows' = full
            /\ meta' = [meta EXCEPT !.registry = Registry_encode(reg)]
            /\ declared' = declared \cup {entry}

CreateIndex(t, def) ==
  /\ build # None
  /\ Pattern_parse(def.pattern) # Err
  /\ \E old \in {Registry_load(meta.registry)} : \E reg \in {create(old, t, def)} :
       reg # Err /\ Registers(t, def, old, reg)
  /\ has_indexes' = TRUE
  /\ UNCHANGED <<data, build, program, call>>

\* By name: a definition that is there already is not compared.
EnsureIndex(t, def) ==
  IF build # None /\ has(meta.registry, t, def.name)
  THEN has_indexes' = TRUE /\ UNCHANGED <<meta, data, rows, build, program, declared, call>>
  ELSE CreateIndex(t, def)

\* The flag stays as it is.
DeleteIndex(t, name) ==
  \E old \in {Registry_load(meta.registry)} : \E entry \in {lookup(old, t, name)} :
    /\ build # None
    /\ entry # None
    /\ meta' = [meta EXCEPT !.registry = Registry_encode(delete(old, t, name))]
    /\ rows' = delete_all(rows, entry.id)
    /\ declared' = {d \in declared : ~IsNamed(d, t, name)}
    /\ UNCHANGED <<data, build, has_indexes, program, call>>

---------------------------------------------------------------------------
(* Writes through a rooted view *)

ProperPrefixes(path) == {SubSeq(path, 1, n) : n \in 0 .. Len(path) - 1}

\* AKey::generate: keys nothing mentions
Unused ==
  Keys \ (UNION {{data[t][p].key : p \in DOMAIN data[t]} : t \in program.tables}
            \cup {EntityOf(k, rows[k], rows[k] # <<>>) : k \in DOMAIN rows})

Least(keys_) == CHOOSE k \in keys_ : \A j \in keys_ : k <= j

\* ensure_dir and link_child: the tree with a node at each prefix of the path, shortest
\* first.  A new one takes the least key left; an instance may have none left.
RECURSIVE Grown(_, _, _, _)
Grown(tree, path, n, free) ==
  IF n > Len(path) THEN tree
  ELSE IF SubSeq(path, 1, n) \in DOMAIN tree THEN Grown(tree, path, n + 1, free)
  ELSE IF free = {} THEN Err
  ELSE Grown(Extended(tree, Single(SubSeq(path, 1, n), [key |-> Least(free), doc |-> None])),
             path, n + 1, free \ {Least(free)})

cascade_delete(tree, path) == [p \in {q \in DOMAIN tree : ~IsPrefix(path, q)} |-> tree[p]]

IsFile(tree, path) == path \in DOMAIN tree /\ tree[path].doc # None

WithDoc(tree, path, doc) ==
  IF tree = Err THEN Err ELSE Extended(tree, Single(path, [key |-> tree[path].key, doc |-> doc]))

\* A file keeps its key; a directory goes with all that is under it.
store_blob_into(tree, path, doc, free) ==
  IF \E p \in ProperPrefixes(path) : IsFile(tree, p) THEN Err
  ELSE WithDoc(Grown(IF IsFile(tree, path) THEN tree ELSE cascade_delete(tree, path), path, 1, free),
               path, doc)

rm_into(tree, path) == cascade_delete(tree, path)

reindexed(index, before, after, indexes, scope) ==
  maintenance_insert(maintenance_delete(index, before, indexes, scope), after, indexes, scope)

\* WriteTxn::reindex_around, with the commit
reindex_around(t, root, path, after) ==
  \E index \in {IF has_indexes
                THEN reindexed(rows, data[t], after, for_table(Registry_load(meta.registry), t), path)
                ELSE rows} :
    /\ index # Err
    /\ rows' = index
    /\ data' = [data EXCEPT ![t] = after]
    /\ call' = [table |-> t, root |-> root]
    /\ UNCHANGED <<meta, build, has_indexes, program, declared>>

StoreAt(t, root, text, doc) ==
  \E path \in {absolute(root, text)}, free \in {Unused} :
    /\ build # None
    /\ path \notin {Err, <<>>}
    /\ \E after \in {store_blob_into(data[t], path, doc, free)} :
         after # Err /\ reindex_around(t, root, path, after)

Rm(t, root, text) ==
  \E path \in {absolute(root, text)} :
    /\ build # None
    /\ path \notin {Err, <<>>}
    /\ reindex_around(t, root, path, rm_into(data[t], path))

---------------------------------------------------------------------------

Init ==
  /\ program \in Programs
  /\ meta = [version |-> None, required |-> {}, registry |-> None]
  /\ data = [t \in program.tables |-> [p \in {<<>>} |-> [key |-> 0, doc |-> None]]]
  /\ rows = [k \in {} |-> <<>>]
  /\ build = None
  /\ has_indexes = FALSE
  /\ declared = {}
  /\ call = None

Next ==
  \/ \E b \in program.builds : Open(b)
  \/ Close
  \/ Promote
  \/ \E t \in program.tables, def \in program.defs : CreateIndex(t, def)
  \/ \E t \in program.tables, def \in program.defs : EnsureIndex(t, def)
  \/ \E t \in program.tables, def \in program.defs : DeleteIndex(t, def.name)
  \/ \E t \in program.tables, root \in program.roots, text \in program.texts, doc \in program.docs : StoreAt(t, root, text, doc)
  \/ \E t \in program.tables, root \in program.roots, text \in program.texts : Rm(t, root, text)

Spec == Init /\ [][Next]_vars

---------------------------------------------------------------------------
(* Queries *)

\* At or under the root of the view
under_root(tree, pattern, root, entity) ==
  root = <<>> \/ (/\ Len(pattern) >= Len(root)
                  /\ entity \in {tree[p].key : p \in affected_entities(tree, pattern, root)})

\* load_entity: the entity's path when it is a file
load_entity(tree, entity) == {p \in DOMAIN tree : tree[p].key = entity /\ IsFile(tree, p)}

\* What a query hands out, as the paths of the files, in the order of the scan; a
\* reversed query hands out the same backwards.
execute_query(tree, entry, prefix, root) ==
  IF Len(prefix) > Len(entry.def.columns) THEN Err
  ELSE LET found == SelectSeq(scan_prefix(rows, entry.id, encode_columns(entry.def, prefix),
                                          entry.def.unique),
                              LAMBDA e : /\ under_root(tree, Pattern_parse(entry.def.pattern), root, e)
                                         /\ load_entity(tree, e) # {})
       IN [n \in DOMAIN found |-> CHOOSE p \in load_entity(tree, found[n]) : TRUE]

---------------------------------------------------------------------------
(* Properties *)

Matches(pattern, path) ==
  Len(pattern) = Len(path) /\ \A k \in DOMAIN path : pattern[k] \in {Star, path[k]}

Entities(d) == {p \in DOMAIN data[d.table] : Matches(Pattern_parse(d.def.pattern), p)}

\* How a value compares: its rung of the ladder
Rank(scalar) == CHOOSE k \in DOMAIN Ladder : scalar \in Ladder[k]

\* How the columns of a document compare, smaller first in the order of the index
Ranks(def, doc) ==
  [k \in DOMAIN def.columns |->
     Rank(column_scalar(doc, def.columns[k].path)) * (IF def.columns[k].desc THEN -1 ELSE 1)]

\* These are the paths of the files an index's query for leading columns must find
\* at or under the root, in the right order.
Answers(d, root, ranks, got) ==
  LET tree   == data[d.table]
      at_(i) == Append(Ranks(d.def, tree[got[i]].doc), tree[got[i]].key)
  IN /\ Range(got) = {p \in Entities(d) : /\ IsFile(tree, p)
                                          /\ IsPrefix(root, p)
                                          /\ IsPrefix(ranks, Ranks(d.def, tree[p].doc))}
     /\ \A i \in 2 .. Len(got) : Before(at_(i - 1), at_(i))

\* A registered index answers every query with just the files of its pattern at or
\* under the view's root whose leading columns equal the values asked for, ordered by
\* their columns (each in its direction) and then by their keys (Table::query,
\* RootedRead::query and find).  The bytes of the rows and of the ladder's values know
\* nothing of one another.
QueryExact ==
  \A d \in declared : \E entry \in {lookup(Registry_load(meta.registry), d.table, d.def.name)} :
    \A doc \in program.docs, root \in program.roots, n \in 0 .. Len(d.def.columns) :
      Answers(d, root, SubSeq(Ranks(d.def, doc), 1, n),
              execute_query(data[d.table], entry, SubSeq(Columns(d.def, doc), 1, n), root))

\* $index holds the rows of the registered indexes for what is in the tables now, and
\* no other: none is left of an index that was dropped (delete_index), of a document
\* that was replaced or removed (reindex_around), and none is missing of what was
\* there before the index (backfill) or came before the flag was primed again
\* (ArborDb::wrap).
RowsExact ==
  {<<k, rows[k]>> : k \in DOMAIN rows}
    = UNION {{index_key(d.id, d.def, data[d.table][p]) : p \in Entities(d)} : d \in declared}

\* What the program registered and did not drop is what the registry's bytes say, to
\* each of the ways of reading them: lookup and for_table decode definitions, has and
\* any skip them.  Column paths survive their text.
RegistryFaithful ==
  \E reg \in {Registry_load(meta.registry)} :
    /\ any(meta.registry) <=> declared # {}
    /\ \A t \in program.tables : Range(for_table(reg, t)) = {d \in declared : d.table = t}
    /\ \A t \in program.tables, def \in program.defs :
         \E of \in {{d \in declared : IsNamed(d, t, def.name)}} :
           /\ has(meta.registry, t, def.name) <=> of # {}
           /\ lookup(reg, t, def.name) \in IF of = {} THEN {None} ELSE of

\* The id counter is above every id in use, ids are never shared, and keys are not
\* either, neither in a table nor by two tables but for the root's, which each has.
TypeOK ==
  /\ meta.version \in {None} \cup {b.version : b \in program.builds}
  /\ meta.required \subseteq UNION {b.features : b \in program.builds}
  /\ build \in program.builds \cup {None}
  /\ has_indexes \in BOOLEAN
  /\ \A d \in declared : d.id < Registry_load(meta.registry).next_id
  /\ \A d, e \in declared : d.id = e.id => d = e
  /\ \A t \in program.tables : \A p \in DOMAIN data[t] :
       /\ data[t][p].key \in Keys \cup {0}
       /\ \A q \in ProperPrefixes(p) : q \in DOMAIN data[t] /\ ~IsFile(data[t], q)
       /\ \A u \in program.tables : \A q \in DOMAIN data[u] :
            data[t][p].key = data[u][q].key => p = q /\ (t = u \/ p = <<>>)

\* A build has the file open only if it knows the file's format and every feature the
\* file requires, whichever build wrote it, promoted it or opened it before
\* (bootstrap_metadata, features::check).
OnlyCapable ==
  build # None => meta.required \subseteq build.features /\ meta.version <= build.version

\* A write through a rooted view changes nothing outside the root, but for the
\* directories that lead to it, whatever the text of the path (RootedWrite::absolute).
WritesUnderRoot ==
  [][\A t \in program.tables : data'[t] # data[t] =>
       /\ t = call'.table
       /\ \A p \in DOMAIN data[t] \cup DOMAIN data'[t] :
            \/ IsPrefix(call'.root, p)
            \/ p \in DOMAIN data[t] /\ p \in DOMAIN data'[t] /\ data[t][p] = data'[t][p]
            \/ p \notin DOMAIN data[t] /\ p \in ProperPrefixes(call'.root)]_vars

=============================================================================
