------------------------------ MODULE WriteTxn ------------------------------
(***************************************************************************)
(* Write transactions on one table, one after the other, with the          *)
(* secondary index they maintain: every WriteTxn operation, mutable        *)
(* cursors, commit, and the creation and removal of the index by other     *)
(* threads, whose flag DbInner.has_indexes is set after their commit.      *)
(* One index definition is modelled: Pattern, one column, unique or not.   *)
(***************************************************************************)
EXTENDS ArborTree

CONSTANTS
  StorePath, DirPath, RmPath, CursorPath,  \* the paths calls are made with
  Moves, Copies,   \* the (source, destination) pairs of mv and cp
  Pattern,         \* the index's pattern: names and Star
  Star,
  Uniques,         \* whether the index is unique: the cases considered
  Column,          \* the indexed column of each file content, Null if it has none
  Null,
  IndexedAtOpen,   \* whether the database is opened with the index in place
  Redefines,       \* whether other threads create and delete the index
  Restarts,        \* whether the process may end and open the database again
  DropsOnError,    \* whether the client drops a transaction after an error
  MaxRelinks,      \* bound: relinks per transaction
  MaxDepth         \* bound: length of the paths in use

ASSUME ColumnAssumption == DOMAIN Column = Value
ASSUME PathsAssumption ==
  /\ StorePath \cup DirPath \cup RmPath \cup CursorPath \subseteq Seq(Name)
  /\ Moves \cup Copies \subseteq Seq(Name) \X Seq(Name)
ASSUME PatternAssumption == Pattern \in Seq(Name \cup {Star})
ASSUME FlagAssumption ==
  Uniques \cup {IndexedAtOpen, Redefines, Restarts, DropsOnError} \subseteq BOOLEAN

VARIABLES
  db,           \* committed: the table, the $index rows, whether the index exists;
                \* and the definition's uniqueness
  has_indexes,  \* DbInner.has_indexes
  marking,      \* a create_index has committed and not yet set the flag
  txn,          \* the open transaction's store, or None
  rows,         \* the $index rows as that transaction sees them
  cursor,       \* the open mutable cursor: path, key and epoch; or None
  failed,       \* a call of this transaction has returned an error
  last          \* the last call, its arguments and how it ended

vars == <<db, has_indexes, marking, txn, rows, cursor, failed, last>>
shared == <<db, has_indexes, marking>>

EmptyTable == [k \in AKey |-> None]

-----------------------------------------------------------------------------
(* The index. *)

\* One level of Pattern::walk, at a-node k: the children on scope's line.
step(data, scope, k, d) ==
  LET below == IF data[k] # None /\ data[k].kind = "dir" THEN Targets(data[k].children) ELSE {}
      named(n) == {child_of(data[k], n)} \ {None}
  IN  IF Pattern[d] = Star
        THEN IF d <= Len(scope) THEN named(scope[d]) ELSE below
        ELSE IF d <= Len(scope) /\ scope[d] # Pattern[d] THEN {} ELSE named(Pattern[d])

\* Pattern::walk, one level at a time: the entities on scope's line.
affected_entities(data, scope) ==
  LET level[d \in 0..Len(Pattern)] ==
        IF d = 0 THEN {ROOT} ELSE UNION {step(data, scope, k, d) : k \in level[d - 1]}
  IN  level[Len(Pattern)]

\* Null for a directory, an absent a-node or a value without the column.
column_scalar(data, k) ==
  IF data[k] # None /\ data[k].kind = "file" THEN Column[data[k].value] ELSE Null

entries_for(data, scopes) ==
  UNION {{[col |-> column_scalar(data, k), key |-> k] : k \in affected_entities(data, p)} :
           p \in scopes}

\* Mutant: every index's rows are deleted by the column alone.
delete_by_column(rs, es) == {r \in rs : \A e \in es : e.col # r.col}

\* A unique index's rows are keyed by the column alone.
delete(rs, es) ==
  IF db.unique THEN {r \in rs : \A e \in es : e.col # r.col} ELSE rs \ es

\* Mutant: no collision is ever noticed.
Collides_never(rs, es) == FALSE

Collides(rs, es) ==
  db.unique /\ \E e \in es, r \in rs \cup es : e.col = r.col /\ e.key # r.key

\* The rows insert may leave behind: all of es or, up to the first collision
\* (the order is the names'), some of them.
insert(rs, es) ==
  IF Collides(rs, es) THEN {rs \cup some : some \in {x \in SUBSET es : ~Collides(rs, x)}}
                      ELSE {rs \cup es}

-----------------------------------------------------------------------------
Init ==
  /\ \E u \in Uniques :
       db = [data |-> EmptyTable, rows |-> {}, registered |-> IndexedAtOpen, unique |-> u]
  /\ has_indexes = IndexedAtOpen /\ marking = FALSE
  /\ txn = None /\ rows = {} /\ cursor = None /\ failed = FALSE /\ last = <<"open">>

Open == txn # None

\* The client makes another call.
Calls == Open /\ txn.structure < MaxRelinks /\ ~(DropsOnError /\ failed)

Held == IF cursor = None THEN {} ELSE {cursor.key}

\* Table::write.
Begin ==
  /\ ~Open
  /\ txn' = NewStore(db.data, ~has_indexes) /\ rows' = db.rows
  /\ last' = <<"begin">>
  /\ UNCHANGED <<shared, cursor, failed>>

Ends(call, how) == last' = Append(call, how) /\ failed' = (failed \/ how = "err")

\* Index maintenance happens when the flag says there may be an index and the
\* registry has it; it reads the engine, so the buffer is written out first.
Indexed == has_indexes /\ db.registered

take_and_disable(s) == [flush_buffered(s) EXCEPT !.buffering = FALSE]

Current == IF Indexed THEN take_and_disable(txn) ELSE txn

\* Mutant: the rows the change makes obsolete are not deleted.
reindex_around_insert_only(call, scopes, r) ==
  /\ r.res # "full" /\ txn' = r.store
  /\ rows' \in IF Indexed THEN insert(rows, entries_for(r.store.data, scopes)) ELSE {rows}
  /\ Ends(call, r.res)

\* The mutation of Current that ends in r, bracketed by index maintenance.
\* After an error the deleted rows are not put back.
reindex_around(call, scopes, r) ==
  LET kept == delete(rows, entries_for(Current.data, scopes))
      new == entries_for(r.store.data, scopes)
  IN  /\ r.res # "full"
      /\ txn' = r.store
      /\ IF ~Indexed THEN rows' = rows /\ Ends(call, r.res)
         ELSE IF r.res = "err" THEN rows' = kept /\ Ends(call, "err")
         ELSE /\ rows' \in insert(kept, new)
              /\ Ends(call, IF Collides(kept, new) THEN "err" ELSE r.res)

\* A call refused before it touches anything.
Refused(call) == Ends(call, "err") /\ UNCHANGED <<txn, rows>>

StoreValue(p, v) ==
  /\ Calls
  /\ IF p = <<>> THEN Refused(<<"store", p, v>>)
     ELSE \E r \in {store_blob_into(Current, p, v, Held)} :
            reindex_around(<<"store", p, v>>, {p}, r)
  /\ UNCHANGED <<shared, cursor>>

\* mkdir is not bracketed by index maintenance.
Mkdir(p) ==
  /\ Calls
  /\ \E d \in {ensure_dir(txn, p, Held)} :
       d.res # "full" /\ txn' = d.store /\ Ends(<<"mkdir", p>>, d.res)
  /\ UNCHANGED <<shared, rows, cursor>>

Rm(p) ==
  /\ Calls
  /\ IF p = <<>> THEN Refused(<<"rm", p>>)
     ELSE \E r \in {rm_into(Current, p)} :
            reindex_around(<<"rm", p>>, {p}, r)
  /\ UNCHANGED <<shared, cursor>>

\* Bound: nothing under k ends up deeper than MaxDepth.
Shallow(k, p) ==
  IF Len(p) < MaxDepth \/ k = None THEN TRUE ELSE Below(txn, k) = {}

Mv(src, dst) ==
  /\ Calls /\ Shallow(resolve(txn, src), dst)
  /\ IF starts_with(dst, src) \/ dst = <<>> THEN Refused(<<"mv", src, dst>>)
     ELSE \E r \in {mv_into(Current, src, dst, Held)} :
            reindex_around(<<"mv", src, dst>>, {src, dst}, r)
  /\ UNCHANGED <<shared, cursor>>

Cp(src, dst) ==
  LET k == resolve(txn, src) IN
  /\ Calls /\ Shallow(k, dst)
  /\ IF starts_with(dst, src) \/ dst = <<>> THEN Refused(<<"cp", src, dst>>)
     ELSE \E r \in {cp_into(Current, src, dst, Held)} :
            reindex_around(<<"cp", src, dst>>, {dst}, r)
  /\ UNCHANGED <<shared, cursor>>

-----------------------------------------------------------------------------
(* What a read on the transaction sees, and mutable cursors. *)

resolve_buffered(s, p) ==
  LET next(k, n) == IF dir_buffered(s, k) # None THEN dir_buffered(s, k)[n]
                                                 ELSE child_of(s.data[k], n)
  IN  Walk([k \in AKey |-> [n \in Name |-> next(k, n)]], p)

entry_blob(s, k) ==
  IF dir_buffered(s, k) # None THEN DirEntry(dir_buffered(s, k)) ELSE with_entry(s, k)

\* Mutant: whatever is not a directory passes for a file.
resolve_with_kind_unchecked(s, p) ==
  LET k == resolve_buffered(s, p) IN
  [key |-> k, kind |-> IF k # None /\ kind(s, k) = "dir" THEN "dir" ELSE "file"]

resolve_with_kind(s, p) ==
  LET k == resolve_buffered(s, p) IN
  [key  |-> k,
   kind |-> IF k = None THEN None
            ELSE IF dir_buffered(s, k) # None THEN "dir"
            ELSE IF s.data[k] = None THEN None ELSE s.data[k].kind]

FetchMut(p) ==
  LET found == resolve_with_kind(txn, p)
      call == <<"fetch_mut", p>>
  IN
  /\ Calls
  /\ CASE found.kind = "file" ->
            /\ cursor' = [path |-> p, key |-> found.key, epoch |-> txn.structure]
            /\ Ends(call, "ok")
       [] found.kind = "dir" -> Ends(call, "err") /\ UNCHANGED cursor
       [] found.kind = None -> Ends(call, "none") /\ UNCHANGED cursor
  /\ UNCHANGED <<shared, txn, rows>>

\* The entry load_value_at reads: the file buffer, then the engine.
loaded(s, p) ==
  LET k == resolve_buffered(s, p) IN IF k = None THEN None ELSE with_entry(s, k)

\* Writer::put_scalar of a MutCursor.
PutScalar(v) ==
  /\ Calls /\ cursor # None
  /\ \E r \in {put_scalar_into(Current, cursor.path, cursor, v, Held)} :
       reindex_around(<<"edit", v>>, {cursor.path}, r)
  /\ UNCHANGED <<shared, cursor>>

\* Its structural edits: load the value at the path, change it, store it.
CursorStore(v) ==
  /\ Calls /\ cursor # None
  /\ IF loaded(txn, cursor.path) # None /\ loaded(txn, cursor.path).kind = "dir"
     THEN Refused(<<"edit", v>>)
     ELSE \E r \in {store_blob_into(Current, cursor.path, v, Held)} :
            reindex_around(<<"edit", v>>, {cursor.path}, r)
  /\ UNCHANGED <<shared, cursor>>

DropCursor ==
  /\ cursor # None /\ cursor' = None /\ last' = <<"drop">>
  /\ UNCHANGED <<shared, txn, rows, failed>>

Closed(how) ==
  /\ txn' = None /\ rows' = {} /\ cursor' = None /\ failed' = FALSE /\ last' = <<how>>
  /\ UNCHANGED <<has_indexes, marking>>

\* A cursor borrows the transaction, so none is open at a commit.
Commit ==
  /\ Open /\ cursor = None /\ ~(DropsOnError /\ failed)
  /\ db' = [db EXCEPT !.data = flush_buffered(txn).data, !.rows = rows]
  /\ Closed("commit")

Abandon == Open /\ Closed("abandon") /\ UNCHANGED db

-----------------------------------------------------------------------------
(* Other threads; the engine runs one write transaction at a time.          *)

\* Table::create_index and ensure_index, up to the engine commit; over
\* duplicates a unique index is refused and nothing is committed.
CreateIndex ==
  /\ Redefines /\ ~Open /\ ~db.registered
  /\ LET all == entries_for(db.data, {<<>>}) IN
     /\ ~Collides({}, all)
     /\ db' = [db EXCEPT !.rows = all, !.registered = TRUE]
  /\ marking' = TRUE
  /\ UNCHANGED <<has_indexes, txn, rows, cursor, failed, last>>

\* Their last step, at any later moment.
MarkHasIndex ==
  /\ marking /\ marking' = FALSE /\ has_indexes' = TRUE
  /\ UNCHANGED <<db, txn, rows, cursor, failed, last>>

DeleteIndex ==
  /\ Redefines /\ ~Open /\ db.registered
  /\ db' = [db EXCEPT !.rows = {}, !.registered = FALSE]
  /\ UNCHANGED <<has_indexes, marking, txn, rows, cursor, failed, last>>

\* The process ends and the database is opened again: the flag is primed
\* from the registry.
Reopen ==
  /\ Restarts /\ ~Open
  /\ has_indexes' = db.registered /\ marking' = FALSE
  /\ UNCHANGED <<db, txn, rows, cursor, failed, last>>

Next ==
  \/ Begin \/ Commit \/ Abandon \/ DropCursor
  \/ \E v \in Value : \/ \E p \in StorePath : StoreValue(p, v)
                      \/ PutScalar(v) \/ CursorStore(v)
  \/ \E p \in DirPath : Mkdir(p)
  \/ \E p \in RmPath : Rm(p)
  \/ \E p \in CursorPath : FetchMut(p)
  \/ \E m \in Moves : Mv(m[1], m[2])
  \/ \E m \in Copies : Cp(m[1], m[2])
  \/ CreateIndex \/ MarkHasIndex \/ DeleteIndex \/ Reopen

Spec == Init /\ [][Next]_vars

-----------------------------------------------------------------------------
(* Properties. *)

Cursor == [path : CursorPath, key : AKey, epoch : Nat]
Row == [col : {Column[v] : v \in Value} \cup {Null}, key : AKey]
Outcome == {"open", "begin", "commit", "abandon", "drop", "ok", "none", "err"}

\* The state is of the types of the code's structures: a table of entries, a
\* write buffer, index rows, a cursor.
TypeOK ==
  /\ db \in [data : Table, rows : SUBSET Row, registered : BOOLEAN, unique : Uniques]
  /\ has_indexes \in BOOLEAN /\ marking \in BOOLEAN /\ failed \in BOOLEAN
  /\ txn = None \/ txn \in Store
  /\ rows \subseteq Row
  /\ cursor = None \/ cursor \in Cursor
  /\ last[Len(last)] \in Outcome

\* A table in which every link leads to an entry, no two links lead to the
\* same one, and every entry is reached from the root.
WellFormed(data) ==
  LET s == NewStore(data, FALSE)
      to(l) == child_of(data[l[1]], l[2])
      links == {l \in AKey \X Name : to(l) # None}
  IN  /\ \A l \in links : data[to(l)] # None /\ to(l) # ROOT
      /\ \A l, m \in links : to(l) = to(m) => l = m
      /\ \A k \in AKey : data[k] # None => k \in Subtree(s, ROOT)

\* Whatever mix of store, mkdir, rm, mv, cp and cursor edits a transaction
\* makes, buffered or written through, the table it would commit is a tree,
\* and so is every committed table.
TreeWellFormed ==
  /\ WellFormed(db.data)
  /\ Open => WellFormed(flush_buffered(txn).data)

\* resolve_target trusts a cursor's key while the structural count stands:
\* then the cursor's path does still lead to that a-node.
HintSound ==
  Open /\ cursor # None /\ cursor.epoch = txn.structure
    => resolve(txn, cursor.path) = cursor.key

-----------------------------------------------------------------------------
(* What the two rest on. *)

\* No mv or cp is given a destination above its source, but for the root, which is
\* refused.  mv and cp free the destination's name first, and with it their source.
NoneUpward ==
  \A m \in Moves \cup Copies : starts_with(m[1], m[2]) => m[1] = m[2] \/ m[2] = <<>>

\* A tree whose root, once it is there, is a directory.
Rooted(data) == WellFormed(data) /\ (data[ROOT] # None => data[ROOT].kind = "dir")

\* The committed table and the one that a flush would leave are trees; what the buffer
\* holds fits what it hides; a cursor belongs to the open transaction, is not at the root
\* and counted the relinks no earlier than they happened.
TreeInv ==
  /\ TypeOK
  /\ Rooted(db.data)
  /\ Open => Buffered(txn) /\ Rooted(Seen(txn))
  /\ cursor # None => Open /\ cursor.path # <<>> /\ cursor.epoch <= txn.structure
  /\ HintSound

-----------------------------------------------------------------------------
(* The index's properties. *)

Matches(p) == Len(p) = Len(Pattern) /\ \A i \in 1..Len(Pattern) : Pattern[i] \in {Star, p[i]}

\* The a-nodes of a table whose path matches the pattern.
Matched(data) ==
  {resolve(NewStore(data, FALSE), p) : p \in {q \in [1..Len(Pattern) -> Name] : Matches(q)}} \ {None}

IsFile(data, k) == data[k] # None /\ data[k].kind = "file"

RowOf(data, k) == [col |-> column_scalar(data, k), key |-> k]

\* Every committed index is in sync with the committed table: each row is
\* the one some matched a-node has now, and each matched file has its row.
IndexInSync ==
  db.registered =>
    /\ db.rows \subseteq {RowOf(db.data, k) : k \in Matched(db.data)}
    /\ \A k \in Matched(db.data) : IsFile(db.data, k) => RowOf(db.data, k) \in db.rows

\* A unique index keeps the committed files it matches apart.
UniqueHolds ==
  db.registered /\ db.unique =>
    \A j, k \in Matched(db.data) :
      /\ IsFile(db.data, j) /\ IsFile(db.data, k)
      /\ column_scalar(db.data, j) = column_scalar(db.data, k)
      => j = k

-----------------------------------------------------------------------------
(* What the two rest on. *)

\* The index is there from the start, or at least the flag never falls behind it; the
\* client gives a transaction up after an error; and mkdir makes no directory that a
\* unique index matches.
Careful ==
  /\ IndexedAtOpen /\ ~(Restarts /\ Redefines) /\ DropsOnError /\ NoneUpward
  /\ TRUE \in Uniques =>
       \A p \in DirPath : Len(Pattern) \in 1..Len(p) => ~Matches(SubSeq(p, 1, Len(Pattern)))

\* Each row is a matched a-node's, and each matched file's is there; in a unique index, each
\* matched a-node's but the root's, which need not be stored yet; and no two have the same
\* column, for a row is deleted by its column alone.
Synced(data, rs, unique) ==
  /\ rs \subseteq {RowOf(data, k) : k \in Matched(data)}
  /\ \A k \in Matched(data) : IsFile(data, k) \/ (unique /\ k # ROOT) => RowOf(data, k) \in rs
  /\ unique => \A j, k \in Matched(data) :
                 column_scalar(data, j) = column_scalar(data, k) => j = k

\* Until a call fails, the rows that a transaction sees are in sync with the table that a
\* flush would leave; the flag says that there may be an index.
IndexInv ==
  /\ has_indexes /\ (Redefines \/ db.registered)
  /\ db.registered => Synced(db.data, db.rows, db.unique)
  /\ Open /\ ~failed /\ db.registered => Synced(Seen(txn), rows, db.unique)

=============================================================================
