------------------------------ MODULE ArborTree ------------------------------
(***************************************************************************)
(* The tree of directories and files a write transaction edits, as         *)
(* operators on a store: the engine's data table together with the         *)
(* transaction's write-back buffer.  Every mutation of the txn::context    *)
(* layer is an operator from a store to a result, a store and how the call *)
(* ended.  The handle is unrestricted: no access check ever fails.         *)
(***************************************************************************)
EXTENDS Naturals, Sequences

CONSTANTS
  AKey, ROOT,  \* a-node keys, and the root directory's
  Name,        \* names of directory entries
  Value,       \* file contents
  None         \* Rust's None

ASSUME RootAssumption == ROOT \in AKey /\ None \notin AKey

Children == [Name -> AKey \cup {None}]
NoChildren == [n \in Name |-> None]

FileEntry(v) == [kind |-> "file", value |-> v]
DirEntry(m) == [kind |-> "dir", children |-> m]
Entry == {FileEntry(v) : v \in Value} \cup {DirEntry(m) : m \in Children}

ASSUME EntryAssumption == None \notin Entry \cup Children \cup {"file", "dir"}

Table == [AKey -> Entry \cup {None}]

\* The data table inside the transaction, and its WriteBuffer.
Store ==
  [data        : Table,
   dirs        : [AKey -> Children \cup {None}],
   files       : [AKey -> Entry \cup {None}],
   dirs_dirty  : BOOLEAN,
   files_dirty : BOOLEAN,
   buffering   : BOOLEAN,
   structure   : Nat]

ASSUME StoreAssumption == None \notin Store

NotBuffered == [k \in AKey |-> None]

\* WriteBuffer::new over the engine's table.
NewStore(data, buffering) ==
  [data |-> data, dirs |-> NotBuffered, files |-> NotBuffered,
   dirs_dirty |-> FALSE, files_dirty |-> FALSE,
   buffering |-> buffering, structure |-> 0]

-----------------------------------------------------------------------------
(* Reading through the buffer. *)

\* A directory's buffered children, behind the lock-free gate.
dir_buffered(s, k) == IF s.dirs_dirty THEN s.dirs[k] ELSE None

\* Mutant: the gate of the file buffer is taken for the one of directories.
file_get_wrong_gate(s, k) == IF s.dirs_dirty THEN s.files[k] ELSE None

file_get(s, k) == IF s.files_dirty THEN s.files[k] ELSE None

with_entry(s, k) == IF file_get(s, k) # None THEN file_get(s, k) ELSE s.data[k]

\* engine::child_of: nothing under a file or an absent a-node.
child_of(e, n) == IF e # None /\ e.kind = "dir" THEN e.children[n] ELSE None

child(s, k, n) ==
  IF dir_buffered(s, k) # None THEN dir_buffered(s, k)[n] ELSE child_of(with_entry(s, k), n)

kind(s, k) ==
  IF dir_buffered(s, k) # None THEN "dir"
  ELSE LET e == with_entry(s, k) IN IF e = None THEN None ELSE e.kind

\* Of a directory or an absent a-node; the callers never name a file.
dir_children(s, k) ==
  IF dir_buffered(s, k) # None THEN dir_buffered(s, k)
  ELSE LET e == with_entry(s, k) IN IF e = None THEN NoChildren ELSE e.children

has_entry(s, k) == dir_buffered(s, k) # None \/ s.data[k] # None

\* The key that p leads to from the root along the links of each key; None if a
\* step fails.
Walk(links, p) ==
  LET at[i \in 0..Len(p)] ==
        IF i = 0 THEN ROOT ELSE IF at[i - 1] = None THEN None ELSE links[at[i - 1]][p[i]]
  IN  at[Len(p)]

resolve(s, p) == Walk([k \in AKey |-> [n \in Name |-> child(s, k, n)]], p)

-----------------------------------------------------------------------------
(* Writing entries. *)

\* A direct write supersedes a buffered edit of the same file.
put_entry(s, k, e) ==
  [s EXCEPT !.data[k] = e, !.files[k] = IF s.files_dirty THEN None ELSE @]

put_file_edit(s, k, e) ==
  IF s.buffering THEN [s EXCEPT !.files[k] = e, !.files_dirty = TRUE]
                 ELSE put_entry(s, k, e)

\* Mutant: a buffered edit of a removed file stays in the buffer.
remove_entries_keeping_edits(s, gone) ==
  [s EXCEPT !.data = [k \in AKey |-> IF k \in gone THEN None ELSE @[k]],
            !.dirs = [k \in AKey |-> IF k \in gone /\ s.dirs_dirty THEN None ELSE @[k]]]

\* remove_entry of each key of gone.
remove_entries(s, gone) ==
  [s EXCEPT !.data = [k \in AKey |-> IF k \in gone THEN None ELSE @[k]],
            !.dirs = [k \in AKey |-> IF k \in gone /\ s.dirs_dirty THEN None ELSE @[k]],
            !.files = [k \in AKey |-> IF k \in gone /\ s.files_dirty THEN None ELSE @[k]]]

put_dir(s, k, m) ==
  IF s.buffering THEN [s EXCEPT !.dirs[k] = m, !.dirs_dirty = TRUE]
                 ELSE put_entry(s, k, DirEntry(m))

\* New entries es, by key: put_dir of the directories and put_entry of the files.
put_all(s, es) ==
  LET dirs == {k \in DOMAIN es : s.buffering /\ es[k].kind = "dir"}
      rest == DOMAIN es \ dirs
  IN  [s EXCEPT !.data = [k \in AKey |-> IF k \in rest THEN es[k] ELSE @[k]],
                !.files = [k \in AKey |-> IF k \in rest /\ s.files_dirty THEN None ELSE @[k]],
                !.dirs = [k \in AKey |-> IF k \in dirs THEN es[k].children ELSE @[k]],
                !.dirs_dirty = @ \/ dirs # {}]

bump_structure(s) == [s EXCEPT !.structure = @ + 1]

\* Mutant: a relink does not invalidate cursor hints.
link_child_quietly(s, parent, n, c) ==
  put_dir(s, parent, [dir_children(s, parent) EXCEPT ![n] = c])

link_child(s, parent, n, c) ==
  put_dir(bump_structure(s), parent, [dir_children(s, parent) EXCEPT ![n] = c])

unlink_child(s, parent, n) ==
  put_dir(bump_structure(s), parent, [dir_children(s, parent) EXCEPT ![n] = None])

\* WriteBuffer::take, then every buffered entry written through.
flush_buffered(s) ==
  [data |-> [k \in AKey |->
               IF s.files[k] # None THEN s.files[k]
               ELSE IF s.dirs[k] # None THEN DirEntry(s.dirs[k])
               ELSE s.data[k]],
   dirs |-> NotBuffered, files |-> NotBuffered,
   dirs_dirty |-> FALSE, files_dirty |-> FALSE,
   buffering |-> s.buffering, structure |-> s.structure]

-----------------------------------------------------------------------------
(* Keys.  AKey::generate draws 128 random bits: a key nothing mentions.     *)

Targets(m) == {m[n] : n \in Name} \ {None}

\* The children of k, in the transaction's own view.
Below(s, k) == IF kind(s, k) = "dir" THEN Targets(dir_children(s, k)) ELSE {}

Mentioned(s) ==
  LET live == {k \in AKey : s.data[k] # None \/ s.dirs[k] # None}
  IN  {ROOT} \cup live \cup UNION {Below(s, k) : k \in live}

\* k and everything under it: the least set with k and the children of its keys.
Subtree(s, k) ==
  LET closed == {S \in SUBSET AKey : k \in S /\ \A j \in S : Below(s, j) \subseteq S}
  IN  {j \in AKey : \A S \in closed : j \in S}

-----------------------------------------------------------------------------
(* Mutations.  A result is a store, the key the call yields, and how it     *)
(* ended: "ok", "none" (nothing to do) or "err"; "full" is a bound, there   *)
(* is no key left to draw.  `used' are keys that the caller holds besides   *)
(* the ones in the store.                                                   *)

Done(s, k) == [store |-> s, key |-> k, res |-> "ok"]
Ended(s, res) == [store |-> s, key |-> None, res |-> res]

Spare(s, used) == AKey \ (Mentioned(s) \cup used)

Fresh(s, used) == IF Spare(s, used) = {} THEN None ELSE CHOOSE k \in Spare(s, used) : TRUE

ensure_root(s) == IF has_entry(s, ROOT) THEN s ELSE put_dir(s, ROOT, NoChildren)

\* One turn of ensure_dir's loop, at directory r.key.
ensure_child(r, n, used) ==
  LET c == child(r.store, r.key, n)
      k == Fresh(r.store, used)
  IN  IF r.res # "ok" THEN r
      ELSE IF c # None
        THEN IF kind(r.store, c) = "dir" THEN Done(r.store, c) ELSE Ended(r.store, "err")
      ELSE IF k = None THEN Ended(r.store, "full")
      ELSE Done(link_child(put_dir(r.store, k, NoChildren), r.key, n, k), k)

ensure_dir(s, p, used) ==
  LET upto[i \in 0..Len(p)] ==
        IF i = 0 THEN Done(ensure_root(s), ROOT) ELSE ensure_child(upto[i - 1], p[i], used)
  IN  upto[Len(p)]

\* Mutant: only the a-node itself is removed, not its subtree.
cascade_delete_top(s, k) == remove_entries(s, {k})

cascade_delete(s, k) == remove_entries(s, Subtree(s, k))

\* The subtree of k again, under fresh keys; a missing a-node is Corrupt (the
\* entries copied before it is met, which nothing links, are left out).
deep_copy(s, k, used) ==
  LET old == Subtree(s, k)
      maps == {f \in [old -> Spare(s, used)] : \A i, j \in old : f[i] = f[j] => i = j}
      new == CHOOSE f \in maps : TRUE
      copied(m) == [n \in Name |-> IF m[n] = None THEN None ELSE new[m[n]]]
      copy(j) == IF kind(s, j) = "dir" THEN DirEntry(copied(dir_children(s, j))) ELSE with_entry(s, j)
      es == [i \in {new[j] : j \in old} |-> copy(CHOOSE j \in old : new[j] = i)]
  IN  IF \E j \in old : kind(s, j) = None THEN Ended(s, "err")
      ELSE IF maps = {} THEN Ended(s, "full")
      ELSE Done(put_all(s, es), new[k])

parent(p) == SubSeq(p, 1, Len(p) - 1)
name(p) == p[Len(p)]
starts_with(p, q) == Len(q) <= Len(p) /\ SubSeq(p, 1, Len(q)) = q

store_blob_into(s, p, v, used) ==
  LET d == ensure_dir(s, parent(p), used)
      c == child(d.store, d.key, name(p))
      k == Fresh(d.store, used)
      cleared == IF c = None THEN d.store ELSE cascade_delete(d.store, c)
  IN  IF d.res # "ok" THEN d
      ELSE IF c # None /\ kind(d.store, c) = "file"
        THEN Done(put_entry(d.store, c, FileEntry(v)), c)
      ELSE IF k = None THEN Ended(d.store, "full")
      ELSE Done(put_entry(link_child(cleared, d.key, name(p), k), k, FileEntry(v)), k)

rm_into(s, p) ==
  LET k == resolve(s, parent(p))
      c == child(s, k, name(p))
  IN  IF k = None \/ c = None
        THEN Ended(s, "none")
        ELSE Ended(unlink_child(cascade_delete(s, c), k, name(p)), "ok")

\* What mv and cp share: the destination's directory, with the name freed.
make_room(s, dst, used) ==
  LET d == ensure_dir(s, parent(dst), used)
      c == child(d.store, d.key, name(dst))
  IN  IF d.res # "ok" \/ c = None THEN d ELSE Done(cascade_delete(d.store, c), d.key)

mv_into(s, src, dst, used) ==
  LET from == resolve(s, parent(src))
      k == child(s, from, name(src))
      d == make_room(s, dst, used)
  IN  IF from = None \/ k = None THEN Ended(s, "err")
      ELSE IF d.res # "ok" THEN d
      ELSE Ended(unlink_child(link_child(d.store, d.key, name(dst), k), from, name(src)), "ok")

cp_into(s, src, dst, used) ==
  LET k == resolve(s, src)
      d == make_room(s, dst, used)
      c == deep_copy(d.store, k, used)
  IN  IF k = None THEN Ended(s, "err")
      ELSE IF d.res # "ok" THEN d
      ELSE IF c.res # "ok" THEN c
      ELSE Ended(link_child(c.store, d.key, name(dst), c.key), "ok")

-----------------------------------------------------------------------------
(* Cursors. *)

\* A hint is trusted while no relink has happened and its a-node is live.
resolve_target(s, p, hint) ==
  IF hint.epoch = s.structure /\ with_entry(s, hint.key) # None THEN hint.key ELSE resolve(s, p)

put_scalar_into(s, p, hint, v, used) ==
  LET k == resolve_target(s, p, hint) IN
  IF k = None \/ with_entry(s, k) = None
    THEN store_blob_into(s, p, v, used)
    ELSE IF with_entry(s, k).kind = "dir"
           THEN Ended(s, "err")
           ELSE Done(put_file_edit(s, k, FileEntry(v)), k)

-----------------------------------------------------------------------------
(* What holds of a store between two operations. *)

\* The table that a flush would leave.
Seen(s) == flush_buffered(s).data

\* What is buffered is behind its gate and of the kind of the entry that it hides: a file
\* hides a file, a directory a directory or nothing.
BufferedAt(s, k) ==
  /\ s.files[k] # None =>
       /\ s.files_dirty /\ s.files[k].kind = "file" /\ s.dirs[k] = None
       /\ s.data[k] # None /\ s.data[k].kind = "file"
  /\ s.dirs[k] # None => s.dirs_dirty /\ (s.data[k] # None => s.data[k].kind = "dir")
  /\ ~ s.buffering => s.files[k] = None /\ s.dirs[k] = None

Buffered(s) == \A k \in AKey : BufferedAt(s, k)

=============================================================================
