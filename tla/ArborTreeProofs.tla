--------------------------- MODULE ArborTreeProofs ---------------------------
(***************************************************************************)
(* ArborTree on tables of any size.  Reads and writes, buffered or not,    *)
(* are understood on the table that a flush would leave; and that table,   *)
(* when it is a tree, stays one if a branch is cut off, replaced or moved  *)
(* out of itself, as the removal and the move of an entry do.              *)
(***************************************************************************)
EXTENDS ArborTree, TLAPS

-----------------------------------------------------------------------------
(* Reading: every read is one of the table that a flush would leave. *)

\* The links of a table.
Links(V) == [k \in AKey |-> [n \in Name |-> child_of(V[k], n)]]

\* The two kinds of entry.
LEMMA Entries ==
  /\ \A e \in Entry : /\ e # None /\ e.kind \in {"file", "dir"}
                      /\ e.kind = "dir" => e.children \in Children /\ e = DirEntry(e.children)
                      /\ e.kind = "file" => e.value \in Value
  /\ \A m \in Children : /\ DirEntry(m) \in Entry /\ DirEntry(m) # None /\ DirEntry(m).kind = "dir"
                         /\ DirEntry(m).children = m
  /\ \A v \in Value : FileEntry(v) \in Entry /\ FileEntry(v) # None /\ FileEntry(v).kind = "file"
<1>1. \A m \in Children : DirEntry(m) \in Entry /\ DirEntry(m).kind = "dir" /\ DirEntry(m).children = m
  BY Zenon DEF Entry, DirEntry
<1>2. \A v \in Value : FileEntry(v) \in Entry /\ FileEntry(v).kind = "file" /\ FileEntry(v).value = v
  BY Zenon DEF Entry, FileEntry
<1>3. \A e \in Entry : (\E m \in Children : e = DirEntry(m)) \/ (\E v \in Value : e = FileEntry(v))
  BY Zenon DEF Entry
<1>4. \A e \in Entry : e # None
  BY EntryAssumption, Zenon
<1>5. ASSUME NEW e \in Entry
      PROVE  /\ e.kind \in {"file", "dir"}
             /\ e.kind = "dir" => e.children \in Children /\ e = DirEntry(e.children)
             /\ e.kind = "file" => e.value \in Value
  <2>1. "file" # "dir"
    BY Zenon
  <2>2. CASE \E m \in Children : e = DirEntry(m)
    BY <1>1, <2>1, <2>2, Zenon
  <2>3. CASE \E v \in Value : e = FileEntry(v)
    BY <1>2, <2>1, <2>3, Zenon
  <2> QED BY <1>3, <2>2, <2>3, Zenon
<1>6. \A m \in Children : DirEntry(m) # None
  BY <1>1, <1>4, Zenon
<1>7. \A v \in Value : FileEntry(v) # None
  BY <1>2, <1>4, Zenon
<1>8. \A e \in Entry : /\ e # None /\ e.kind \in {"file", "dir"}
                       /\ e.kind = "dir" => e.children \in Children /\ e = DirEntry(e.children)
                       /\ e.kind = "file" => e.value \in Value
  BY <1>4, <1>5, Zenon
<1>9. \A m \in Children : /\ DirEntry(m) \in Entry /\ DirEntry(m) # None /\ DirEntry(m).kind = "dir"
                          /\ DirEntry(m).children = m
  BY <1>1, <1>6, Zenon
<1>10. \A v \in Value : FileEntry(v) \in Entry /\ FileEntry(v) # None /\ FileEntry(v).kind = "file"
  BY <1>2, <1>7, Zenon
<1> QED BY <1>8, <1>9, <1>10, Zenon

\* What a directory holds.
LEMMA ChildrenAre ==
  /\ NoChildren \in Children /\ \A n \in Name : NoChildren[n] = None
  /\ \A m \in Children, n \in Name, c \in AKey \cup {None} : [m EXCEPT ![n] = c] \in Children
BY Zenon DEF Children, NoChildren

\* A child is an a-node's key, and only a directory has any.
LEMMA ChildOf ==
  ASSUME NEW e \in Entry \cup {None}, NEW n \in Name
  PROVE  /\ child_of(e, n) \in AKey \cup {None}
         /\ e = None \/ e.kind = "file" => child_of(e, n) = None
         /\ e # None /\ e.kind = "dir" => child_of(e, n) = e.children[n]
<1>1. e # None /\ e.kind = "dir" => e.children[n] \in AKey \cup {None}
  BY Entries, Zenon DEF Children
<1>2. "file" # "dir"
  BY Zenon
<1> QED BY <1>1, <1>2, Zenon DEF child_of

\* The fields of a store.
LEMMA StoreFields ==
  ASSUME NEW s \in Store
  PROVE  /\ \A k \in AKey : /\ s.data[k] \in Entry \cup {None} /\ s.files[k] \in Entry \cup {None}
                            /\ s.dirs[k] \in Children \cup {None}
         /\ s.structure \in Nat /\ s.buffering \in BOOLEAN
         /\ s.dirs_dirty \in BOOLEAN /\ s.files_dirty \in BOOLEAN
BY Zenon DEF Store, Table

\* The table after a flush, entry by entry.
LEMMA SeenIs ==
  ASSUME NEW s \in Store
  PROVE  /\ Seen(s) \in Table
         /\ \A k \in AKey : Seen(s)[k] = IF s.files[k] # None THEN s.files[k]
                                         ELSE IF s.dirs[k] # None THEN DirEntry(s.dirs[k]) ELSE s.data[k]
<1> DEFINE e(k) == IF s.files[k] # None THEN s.files[k]
                   ELSE IF s.dirs[k] # None THEN DirEntry(s.dirs[k]) ELSE s.data[k]
<1>1. Seen(s) = [k \in AKey |-> e(k)]
  BY Zenon DEF Seen, flush_buffered
<1>2. ASSUME NEW k \in AKey PROVE e(k) \in Entry \cup {None}
  BY StoreFields, Entries, Zenon
<1>3. Seen(s) \in [AKey -> Entry \cup {None}]
  <2> HIDE DEF e
  <2> QED BY <1>1, <1>2, Zenon
<1> QED BY <1>1, <1>3, Zenon DEF Table

\* The gates are open where something is buffered.
LEMMA Gates ==
  ASSUME NEW s \in Store, Buffered(s), NEW k \in AKey
  PROVE  dir_buffered(s, k) = s.dirs[k] /\ file_get(s, k) = s.files[k]
BY Zenon DEF Buffered, BufferedAt, dir_buffered, file_get

\* child, kind, dir_children and has_entry, of the table after a flush; with_entry is of it
\* where no directory is buffered.
LEMMA Reads ==
  ASSUME NEW s \in Store, Buffered(s), NEW k \in AKey
  PROVE  /\ Seen(s)[k] \in Entry \cup {None}
         /\ \A n \in Name : child(s, k, n) = child_of(Seen(s)[k], n)
         /\ kind(s, k) = IF Seen(s)[k] = None THEN None ELSE Seen(s)[k].kind
         /\ Seen(s)[k] = None => dir_children(s, k) = NoChildren
         /\ Seen(s)[k] # None /\ Seen(s)[k].kind = "dir" => dir_children(s, k) = Seen(s)[k].children
         /\ has_entry(s, k) <=> Seen(s)[k] # None
         /\ s.dirs[k] = None => with_entry(s, k) = Seen(s)[k]
         /\ s.dirs[k] # None /\ with_entry(s, k) # None => with_entry(s, k).kind = "dir"
<1>1. dir_buffered(s, k) = s.dirs[k] /\ file_get(s, k) = s.files[k]
  BY Gates, Zenon
<1>2. Seen(s)[k] = IF s.files[k] # None THEN s.files[k]
                   ELSE IF s.dirs[k] # None THEN DirEntry(s.dirs[k]) ELSE s.data[k]
  BY SeenIs, Zenon
<1>3. /\ s.data[k] \in Entry \cup {None} /\ s.files[k] \in Entry \cup {None}
      /\ s.dirs[k] \in Children \cup {None}
  BY StoreFields, Zenon
<1>4. /\ s.files[k] # None => s.dirs[k] = None /\ s.data[k] # None
      /\ s.dirs[k] # None /\ s.data[k] # None => s.data[k].kind = "dir"
  BY Zenon DEF Buffered, BufferedAt
<1>5. CASE s.dirs[k] # None
  <2>1. Seen(s)[k] = DirEntry(s.dirs[k]) /\ s.files[k] = None /\ s.dirs[k] \in Children
    BY <1>2, <1>3, <1>4, <1>5, Zenon
  <2>2. /\ DirEntry(s.dirs[k]) # None /\ DirEntry(s.dirs[k]).kind = "dir" /\ DirEntry(s.dirs[k]) \in Entry
        /\ DirEntry(s.dirs[k]).children = s.dirs[k]
    BY <2>1, Entries, Zenon
  <2> QED BY <1>1, <1>4, <1>5, <2>1, <2>2, Zenon
        DEF child, child_of, kind, dir_children, has_entry, with_entry
<1>6. CASE s.dirs[k] = None
  <2>1. with_entry(s, k) = Seen(s)[k]
    BY <1>1, <1>2, <1>6, Zenon DEF with_entry
  <2>2. Seen(s)[k] \in Entry \cup {None} /\ (s.data[k] # None <=> Seen(s)[k] # None)
    BY <1>2, <1>3, <1>4, <1>6, Zenon
  <2> QED BY <1>1, <1>6, <2>1, <2>2, Zenon DEF child, kind, dir_children, has_entry
<1> QED BY <1>5, <1>6, Zenon

-----------------------------------------------------------------------------
(* Writing: what each write of entries does to the table that a flush would leave. *)

\* A store that agrees with its buffer.
Good(s) == s \in Store /\ Buffered(s)

\* An entry that is left alone.
LEMMA Unwritten ==
  ASSUME NEW s \in Store, Buffered(s), NEW t \in Store, NEW k \in AKey,
         t.data[k] = s.data[k], t.files[k] = s.files[k], t.dirs[k] = s.dirs[k],
         t.buffering = s.buffering, s.files_dirty => t.files_dirty, s.dirs_dirty => t.dirs_dirty
  PROVE  BufferedAt(t, k) /\ Seen(t)[k] = Seen(s)[k]
<1>1. BufferedAt(t, k)
  BY Zenon DEF Buffered, BufferedAt
<1>2. Seen(t)[k] = IF t.files[k] # None THEN t.files[k]
                   ELSE IF t.dirs[k] # None THEN DirEntry(t.dirs[k]) ELSE t.data[k]
  BY SeenIs, Zenon
<1>3. Seen(s)[k] = IF s.files[k] # None THEN s.files[k]
                   ELSE IF s.dirs[k] # None THEN DirEntry(s.dirs[k]) ELSE s.data[k]
  BY SeenIs, Zenon
<1> QED BY <1>1, <1>2, <1>3

\* An entry of which nothing is buffered.
LEMMA Through ==
  ASSUME NEW t \in Store, NEW k \in AKey, t.files[k] = None, t.dirs[k] = None
  PROVE  BufferedAt(t, k) /\ Seen(t)[k] = t.data[k]
BY SeenIs, Zenon DEF BufferedAt

\* A direct write of an entry.
LEMMA PutEntry ==
  ASSUME NEW s, Good(s), NEW k \in AKey, NEW e \in Entry, s.dirs[k] = None,
         NEW t, t = put_entry(s, k, e)
  PROVE  /\ Good(t) /\ t.structure = s.structure /\ t.buffering = s.buffering
         /\ \A j \in AKey : Seen(t)[j] = IF j = k THEN e ELSE Seen(s)[j]
<1>1. s \in Store /\ Buffered(s)
  BY Zenon DEF Good
<1>2. /\ t \in Store /\ t.structure = s.structure /\ t.buffering = s.buffering
      /\ t.dirs = s.dirs /\ t.dirs_dirty = s.dirs_dirty /\ t.files_dirty = s.files_dirty
      /\ t.data[k] = e /\ t.files[k] = IF s.files_dirty THEN None ELSE s.files[k]
      /\ \A j \in AKey : j # k => t.data[j] = s.data[j] /\ t.files[j] = s.files[j]
  BY <1>1, Zenon DEF put_entry, Store, Table
<1>3. t.files[k] = None
  BY <1>1, <1>2, Zenon DEF Buffered, BufferedAt
<1>4. BufferedAt(t, k) /\ Seen(t)[k] = e
  BY <1>2, <1>3, Through, Zenon
<1>5. \A j \in AKey : j # k => BufferedAt(t, j) /\ Seen(t)[j] = Seen(s)[j]
  BY <1>1, <1>2, Unwritten, ZenonT(40)
<1>6. Good(t)
  BY <1>2, <1>4, <1>5, Zenon DEF Good, Buffered
<1> QED BY <1>2, <1>4, <1>5, <1>6, Zenon

\* The children of a directory, existing or new.
LEMMA PutDir ==
  ASSUME NEW s, Good(s), NEW k \in AKey, NEW m \in Children,
         Seen(s)[k] # None => Seen(s)[k].kind = "dir",
         NEW t, t = put_dir(s, k, m)
  PROVE  /\ Good(t) /\ t.structure = s.structure /\ t.buffering = s.buffering
         /\ \A j \in AKey : Seen(t)[j] = IF j = k THEN DirEntry(m) ELSE Seen(s)[j]
<1>1. s \in Store /\ Buffered(s)
  BY Zenon DEF Good
<1>2. DirEntry(m) \in Entry /\ m # None
  BY Entries, EntryAssumption, Zenon
<1>3. CASE ~ s.buffering
  <2>1. t = put_entry(s, k, DirEntry(m)) /\ s.dirs[k] = None
    BY <1>1, <1>3, Zenon DEF put_dir, Buffered, BufferedAt
  <2> QED BY <1>2, <2>1, PutEntry
<1>4. CASE s.buffering
  <2>1. /\ t \in Store /\ t.structure = s.structure /\ t.buffering = s.buffering
        /\ t.files = s.files /\ t.dirs_dirty /\ t.files_dirty = s.files_dirty /\ t.data = s.data
        /\ t.dirs[k] = m /\ \A j \in AKey : j # k => t.dirs[j] = s.dirs[j]
    BY <1>1, <1>4, Zenon DEF put_dir, Store
  <2>2. s.files[k] = None /\ (s.data[k] # None => s.data[k].kind = "dir")
    <3>1. "file" # "dir"
      BY Zenon
    <3> QED BY <1>1, <3>1, SeenIs, ZenonT(40) DEF Buffered, BufferedAt
  <2>3. BufferedAt(t, k)
    BY <1>4, <2>1, <2>2, Zenon DEF BufferedAt
  <2>4. Seen(t)[k] = DirEntry(m)
    BY <1>2, <2>1, <2>2, SeenIs
  <2>5. \A j \in AKey : j # k => BufferedAt(t, j) /\ Seen(t)[j] = Seen(s)[j]
    BY <1>1, <2>1, Unwritten
  <2>6. Good(t)
    BY <2>1, <2>3, <2>5, Zenon DEF Good, Buffered
  <2> QED BY <2>1, <2>4, <2>5, <2>6, Zenon
<1> QED BY <1>1, <1>3, <1>4, StoreFields, Zenon

\* An edit of a file that is there.
LEMMA PutFileEdit ==
  ASSUME NEW s, Good(s), NEW k \in AKey, NEW v \in Value,
         with_entry(s, k) # None, with_entry(s, k).kind # "dir",
         NEW t, t = put_file_edit(s, k, FileEntry(v))
  PROVE  /\ Good(t) /\ t.structure = s.structure /\ t.buffering = s.buffering
         /\ \A j \in AKey : Seen(t)[j] = IF j = k THEN FileEntry(v) ELSE Seen(s)[j]
         /\ Seen(s)[k] # None /\ Seen(s)[k].kind = "file"
<1> DEFINE e == FileEntry(v)
<1>1. s \in Store /\ Buffered(s)
  BY Zenon DEF Good
<1>2. e \in Entry /\ e # None /\ e.kind = "file"
  BY Entries, Zenon
<1>3. s.dirs[k] = None /\ Seen(s)[k] # None /\ Seen(s)[k].kind = "file"
  <2>1. s.dirs[k] = None
    BY <1>1, Reads, Zenon
  <2>2. Seen(s)[k] = with_entry(s, k) /\ Seen(s)[k] \in Entry \cup {None}
    BY <1>1, <2>1, Reads, Zenon
  <2> QED BY <2>1, <2>2, Entries, Zenon
<1>4. CASE ~ s.buffering
  <2>1. t = put_entry(s, k, e)
    BY <1>4, Zenon DEF put_file_edit
  <2> HIDE DEF e
  <2>2. /\ Good(t) /\ t.structure = s.structure /\ t.buffering = s.buffering
        /\ \A j \in AKey : Seen(t)[j] = IF j = k THEN e ELSE Seen(s)[j]
    BY <1>2, <1>3, <2>1, PutEntry
  <2> QED BY <1>3, <2>2, Zenon DEF e
<1>5. CASE s.buffering
  <2>1. /\ t \in Store /\ t.structure = s.structure /\ t.buffering = s.buffering
        /\ t.dirs = s.dirs /\ t.dirs_dirty = s.dirs_dirty /\ t.files_dirty /\ t.data = s.data
        /\ t.files[k] = e /\ \A j \in AKey : j # k => t.files[j] = s.files[j]
    BY <1>1, <1>2, <1>5, Zenon DEF put_file_edit, Store
  <2>2. s.data[k] # None /\ s.data[k].kind = "file"
    BY <1>1, <1>3, SeenIs, Zenon DEF Buffered, BufferedAt
  <2> HIDE DEF e
  <2>3. BufferedAt(t, k)
    BY <1>2, <1>3, <1>5, <2>1, <2>2, Zenon DEF BufferedAt
  <2>4. Seen(t)[k] = e
    BY <1>2, <2>1, SeenIs, Zenon
  <2>5. \A j \in AKey : j # k => BufferedAt(t, j) /\ Seen(t)[j] = Seen(s)[j]
    BY <1>1, <2>1, Unwritten, ZenonT(40)
  <2>6. Good(t)
    BY <2>1, <2>3, <2>5, Zenon DEF Good, Buffered
  <2> QED BY <1>3, <2>1, <2>4, <2>5, <2>6, Zenon DEF e
<1> QED BY <1>1, <1>4, <1>5, StoreFields, Zenon

\* The removal of a set of entries.
LEMMA RemoveEntries ==
  ASSUME NEW s, Good(s), NEW gone,
         NEW t, t = remove_entries(s, gone)
  PROVE  /\ Good(t) /\ t.structure = s.structure /\ t.buffering = s.buffering
         /\ \A j \in AKey : Seen(t)[j] = IF j \in gone THEN None ELSE Seen(s)[j]
<1>1. s \in Store /\ Buffered(s)
  BY Zenon DEF Good
<1>2. /\ t \in Store /\ t.structure = s.structure /\ t.buffering = s.buffering
      /\ t.dirs_dirty = s.dirs_dirty /\ t.files_dirty = s.files_dirty
      /\ \A j \in AKey : t.data[j] = IF j \in gone THEN None ELSE s.data[j]
      /\ \A j \in AKey : t.dirs[j] = IF j \in gone /\ s.dirs_dirty THEN None ELSE s.dirs[j]
      /\ \A j \in AKey : t.files[j] = IF j \in gone /\ s.files_dirty THEN None ELSE s.files[j]
  BY <1>1, Zenon DEF remove_entries, Store, Table
<1>3. ASSUME NEW j \in AKey, j \in gone PROVE BufferedAt(t, j) /\ Seen(t)[j] = None
  <2>1. t.data[j] = None /\ t.dirs[j] = None /\ t.files[j] = None
    BY <1>1, <1>2, <1>3, Zenon DEF Buffered, BufferedAt
  <2> QED BY <1>2, <2>1, Through, Zenon
<1>4. ASSUME NEW j \in AKey, j \notin gone PROVE BufferedAt(t, j) /\ Seen(t)[j] = Seen(s)[j]
  <2>1. t.data[j] = s.data[j] /\ t.dirs[j] = s.dirs[j] /\ t.files[j] = s.files[j]
    BY <1>2, <1>4, Zenon
  <2> QED BY <1>1, <1>2, <2>1, Unwritten, ZenonT(40)
<1>5. Good(t)
  BY <1>2, <1>3, <1>4, Zenon DEF Good, Buffered
<1> QED BY <1>2, <1>3, <1>4, <1>5, Zenon

\* Nothing is buffered of an entry that is not seen.
LEMMA Absent ==
  ASSUME NEW s, Good(s), NEW k \in AKey, Seen(s)[k] = None
  PROVE  s.data[k] = None /\ s.dirs[k] = None /\ s.files[k] = None
<1>1. Seen(s)[k] = IF s.files[k] # None THEN s.files[k]
                   ELSE IF s.dirs[k] # None THEN DirEntry(s.dirs[k]) ELSE s.data[k]
  BY SeenIs, Zenon DEF Good
<1>2. s.dirs[k] # None => DirEntry(s.dirs[k]) # None
  BY StoreFields, Entries, Zenon DEF Good
<1> QED BY <1>1, <1>2, Zenon

\* New entries under keys that have none.
LEMMA PutAll ==
  ASSUME NEW s, Good(s), NEW E \in SUBSET AKey, NEW es \in [E -> Entry],
         \A k \in E : Seen(s)[k] = None,
         NEW t, t = put_all(s, es)
  PROVE  /\ Good(t) /\ t.structure = s.structure /\ t.buffering = s.buffering
         /\ \A j \in AKey : Seen(t)[j] = IF j \in E THEN es[j] ELSE Seen(s)[j]
<1> DEFINE D == {k \in E : s.buffering /\ es[k].kind = "dir"}
           R == E \ D
<1>1. s \in Store /\ Buffered(s)
  BY Zenon DEF Good
<1>2. DOMAIN es = E /\ \A k \in E : es[k] \in Entry
  BY Zenon
<1>3. ASSUME NEW k \in D
      PROVE  es[k].children \in Children /\ es[k] = DirEntry(es[k].children) /\ es[k].children # None
  <2>1. es[k] \in Entry /\ es[k].kind = "dir"
    BY <1>2, Zenon
  <2>2. es[k].children \in Children /\ es[k] = DirEntry(es[k].children)
    BY <2>1, Entries, Zenon
  <2> QED BY <2>2, EntryAssumption, Zenon
<1> DEFINE data == [k \in AKey |-> IF k \in R THEN es[k] ELSE s.data[k]]
           files == [k \in AKey |-> IF k \in R /\ s.files_dirty THEN None ELSE s.files[k]]
           dirs == [k \in AKey |-> IF k \in D THEN es[k].children ELSE s.dirs[k]]
           dirty == s.dirs_dirty \/ D # {}
<1>4. t = [s EXCEPT !.data = data, !.files = files, !.dirs = dirs, !.dirs_dirty = dirty]
  BY <1>2, Zenon DEF put_all
<1>5. D \subseteq E /\ R \subseteq E /\ (\A k \in D : s.buffering) /\ (\A k \in E : k \in D \/ k \in R)
      /\ \A k \in D : k \notin R
  BY Zenon
<1> HIDE DEF D, R
<1>6. /\ t \in Store /\ t.structure = s.structure /\ t.buffering = s.buffering
      /\ t.files_dirty = s.files_dirty /\ (s.dirs_dirty \/ D # {} => t.dirs_dirty)
      /\ \A j \in AKey : t.data[j] = IF j \in R THEN es[j] ELSE s.data[j]
      /\ \A j \in AKey : t.dirs[j] = IF j \in D THEN es[j].children ELSE s.dirs[j]
      /\ \A j \in AKey : t.files[j] = IF j \in R /\ s.files_dirty THEN None ELSE s.files[j]
  <2>1. data \in Table
    BY <1>1, <1>2, <1>5, StoreFields, Zenon DEF Table
  <2>2. files \in [AKey -> Entry \cup {None}]
    BY <1>1, StoreFields, Zenon
  <2>3. dirs \in [AKey -> Children \cup {None}]
    BY <1>1, <1>3, StoreFields, Zenon
  <2>4. dirty \in BOOLEAN
    BY Zenon
  <2> HIDE DEF data, files, dirs, dirty
  <2>5. /\ t \in Store /\ t.structure = s.structure /\ t.buffering = s.buffering
        /\ t.files_dirty = s.files_dirty /\ t.dirs_dirty = dirty
        /\ t.data = data /\ t.files = files /\ t.dirs = dirs
    BY <1>1, <1>4, <2>1, <2>2, <2>3, <2>4 DEF Store
  <2> QED BY <2>5, Zenon DEF data, files, dirs, dirty
<1>7. ASSUME NEW j \in E PROVE s.data[j] = None /\ s.dirs[j] = None /\ s.files[j] = None /\ j \in AKey
  BY Absent, Zenon
<1>8. ASSUME NEW j \in R PROVE BufferedAt(t, j) /\ Seen(t)[j] = es[j]
  <2>1. t.data[j] = es[j] /\ t.dirs[j] = None /\ t.files[j] = None /\ j \in AKey
    BY <1>5, <1>6, <1>7
  <2> QED BY <1>6, <2>1, Through, Zenon
<1>9. ASSUME NEW j \in D PROVE BufferedAt(t, j) /\ Seen(t)[j] = es[j]
  <2>1. t.data[j] = None /\ t.dirs[j] = es[j].children /\ t.files[j] = None /\ j \in AKey /\ t.dirs_dirty
    BY <1>5, <1>6, <1>7
  <2>2. BufferedAt(t, j)
    BY <1>5, <1>6, <2>1, Zenon DEF BufferedAt
  <2> QED BY <1>3, <1>6, <2>1, <2>2, SeenIs
<1>10. ASSUME NEW j \in AKey, j \notin E PROVE BufferedAt(t, j) /\ Seen(t)[j] = Seen(s)[j]
  <2>1. t.data[j] = s.data[j] /\ t.dirs[j] = s.dirs[j] /\ t.files[j] = s.files[j]
    BY <1>5, <1>6, <1>10, Zenon
  <2> QED BY <1>1, <1>6, <2>1, Unwritten
<1>11. Good(t)
  BY <1>5, <1>6, <1>8, <1>9, <1>10, Zenon DEF Good, Buffered
<1> QED BY <1>5, <1>6, <1>8, <1>9, <1>10, <1>11, Zenon

\* The structural count is not part of the table.
LEMMA BumpStructure ==
  ASSUME NEW s, Good(s), NEW t, t = bump_structure(s)
  PROVE  /\ Good(t) /\ t.structure = s.structure + 1 /\ t.buffering = s.buffering
         /\ Seen(t) = Seen(s)
         /\ \A k \in AKey : dir_children(t, k) = dir_children(s, k)
<1>1. /\ t \in Store /\ t.structure = s.structure + 1 /\ t.buffering = s.buffering
      /\ t.data = s.data /\ t.files = s.files /\ t.dirs = s.dirs
      /\ t.files_dirty = s.files_dirty /\ t.dirs_dirty = s.dirs_dirty
  BY DEF Good, bump_structure, Store
<1>2. Buffered(t)
  BY <1>1, ZenonT(40) DEF Good, Buffered, BufferedAt
<1>3. Seen(t) = Seen(s)
  BY <1>1 DEF Seen, flush_buffered
<1>4. \A k \in AKey : dir_children(t, k) = dir_children(s, k)
  BY <1>1 DEF dir_children, dir_buffered, with_entry, file_get
<1> QED BY <1>1, <1>2, <1>3, <1>4, Zenon DEF Good

\* A directory with another child under one name.
Given(e, n, c) == DirEntry([e.children EXCEPT ![n] = c])

\* A relink of one name of a directory; unlink_child is one to None.
LEMMA LinkChild ==
  ASSUME NEW s, Good(s), NEW d \in AKey, NEW n \in Name, NEW c \in AKey \cup {None},
         Seen(s)[d] # None, Seen(s)[d].kind = "dir",
         NEW t, t = link_child(s, d, n, c)
  PROVE  /\ Good(t) /\ t.structure = s.structure + 1 /\ t.buffering = s.buffering
         /\ \A j \in AKey : Seen(t)[j] = IF j = d THEN Given(Seen(s)[d], n, c) ELSE Seen(s)[j]
<1> DEFINE b == bump_structure(s)
           m == [Seen(s)[d].children EXCEPT ![n] = c]
<1>1. dir_children(s, d) = Seen(s)[d].children /\ Seen(s)[d] \in Entry
  BY Reads, Zenon DEF Good
<1>2. m \in Children
  <2>1. Seen(s)[d].children \in Children
    BY <1>1, Entries, Zenon
  <2> QED BY <2>1, ChildrenAre, Zenon
<1>3. t = put_dir(b, d, m)
  BY <1>1, Zenon DEF link_child
<1>4. Good(b) /\ b.structure = s.structure + 1 /\ b.buffering = s.buffering /\ Seen(b) = Seen(s)
  BY BumpStructure, Zenon
<1> HIDE DEF b, m
<1> QED BY <1>2, <1>3, <1>4, PutDir DEF m, Given

\* unlink_child takes a name from a directory, and counts a relink.
LEMMA UnlinkChild ==
  ASSUME NEW s, Good(s), NEW d \in AKey, NEW n \in Name,
         Seen(s)[d] # None, Seen(s)[d].kind = "dir",
         NEW t, t = unlink_child(s, d, n)
  PROVE  /\ Good(t) /\ t.structure = s.structure + 1 /\ t.buffering = s.buffering
         /\ \A j \in AKey : Seen(t)[j] = IF j = d THEN Given(Seen(s)[d], n, None) ELSE Seen(s)[j]
<1>1. ASSUME NEW c \in AKey \cup {None}, NEW u, u = link_child(s, d, n, c)
      PROVE  /\ Good(u) /\ u.structure = s.structure + 1 /\ u.buffering = s.buffering
             /\ \A j \in AKey : Seen(u)[j] = IF j = d THEN Given(Seen(s)[d], n, c) ELSE Seen(s)[j]
  BY <1>1, LinkChild
<1>2. t = link_child(s, d, n, None)
  BY Zenon DEF unlink_child, link_child
<1> QED BY <1>1, <1>2, Zenon

-----------------------------------------------------------------------------
(* Trees, as links L between the keys D: what hangs from a key, and how a branch is cut *)
(* off and hung elsewhere.                                                              *)

LinkClosed(L, S) == \A k \in S, n \in Name : L[k][n] # None => L[k][n] \in S

\* What hangs from k: the least closed set with it.
Under(L, k) == {j \in AKey : \A S \in SUBSET AKey : k \in S /\ LinkClosed(L, S) => j \in S}

\* Links are between entries and not to the root; no two lead to the same one.
LiveLinks(L, D) ==
  \A k \in AKey, n \in Name : L[k][n] # None => k \in D /\ L[k][n] \in D /\ L[k][n] # ROOT
OneLink(L, S) ==
  \A j, k \in S, m, n \in Name : L[j][m] # None /\ L[j][m] = L[k][n] => j = k /\ m = n

Tree(L, D) ==
  /\ L \in [AKey -> Children] /\ D \subseteq AKey
  /\ LiveLinks(L, D) /\ OneLink(L, AKey) /\ D \subseteq Under(L, ROOT)

\* E, linked by X, is a tree of its own with root k.
Branch(X, E, k) ==
  /\ E \subseteq AKey /\ k \in E /\ ROOT \notin E
  /\ \A i \in E, n \in Name : X[i][n] # None => X[i][n] \in E /\ X[i][n] # k
  /\ OneLink(X, E)
  /\ \A S \in SUBSET E : k \in S /\ LinkClosed(X, S) => E \subseteq S

\* The link to an entry, named.
LEMMA SameLink ==
  ASSUME NEW L, NEW S, OneLink(L, S), NEW j \in S, NEW k \in S, NEW m \in Name, NEW n \in Name,
         NEW c, c # None, L[j][m] = c, L[k][n] = c
  PROVE  j = k /\ m = n
BY DEF OneLink

\* A closed set with k in it holds what hangs from k, which is such a set.
LEMMA UnderIs ==
  ASSUME NEW L \in [AKey -> Children], NEW k \in AKey
  PROVE  /\ Under(L, k) \subseteq AKey /\ k \in Under(L, k) /\ LinkClosed(L, Under(L, k))
         /\ \A S \in SUBSET AKey : k \in S /\ LinkClosed(L, S) => Under(L, k) \subseteq S
<1>1. Under(L, k) \subseteq AKey /\ k \in Under(L, k)
  BY Zenon DEF Under
<1>2. \A S \in SUBSET AKey : k \in S /\ LinkClosed(L, S) => Under(L, k) \subseteq S
  BY Zenon DEF Under
<1>3. ASSUME NEW j \in Under(L, k), NEW n \in Name, L[j][n] # None PROVE L[j][n] \in Under(L, k)
  <2>1. j \in AKey /\ L[j][n] \in AKey
    BY <1>1, <1>3, Zenon DEF Children
  <2>2. ASSUME NEW S \in SUBSET AKey, k \in S, LinkClosed(L, S) PROVE L[j][n] \in S
    <3>1. j \in S
      BY <1>2, <2>2, Zenon
    <3> QED BY <1>3, <2>2, <3>1, Zenon DEF LinkClosed
  <2> QED BY <2>1, <2>2, Zenon DEF Under
<1> QED BY <1>1, <1>2, <1>3, Zenon DEF LinkClosed

\* The parent of a key under c, other than c, is under c.
LEMMA UnderParent ==
  ASSUME NEW L, NEW D, Tree(L, D), NEW c \in AKey, NEW i \in AKey, NEW n \in Name,
         L[i][n] # None, L[i][n] \in Under(L, c), L[i][n] # c
  PROVE  i \in Under(L, c)
<1> DEFINE U == Under(L, c)
           S == U \ {L[i][n]}
<1>0. L \in [AKey -> Children]
  BY Zenon DEF Tree, LiveLinks, OneLink
<1>1. U \subseteq AKey /\ c \in U /\ LinkClosed(L, U)
  BY <1>0, UnderIs, Zenon
<1> HIDE DEF U
<1> SUFFICES ASSUME i \notin U PROVE FALSE
  BY Zenon DEF U
<1>2. LinkClosed(L, S)
  <2> SUFFICES ASSUME NEW k \in S, NEW m \in Name, L[k][m] # None PROVE L[k][m] \in S
    BY Zenon DEF LinkClosed
  <2>1. k \in U /\ k \in AKey /\ L[k][m] \in U
    BY <1>1, Zenon DEF LinkClosed
  <2>2. L[k][m] # L[i][n]
    <3>1. L[k][m] = L[i][n] => k = i
      BY <2>1 DEF Tree, LiveLinks, OneLink
    <3> QED BY <2>1, <3>1, Zenon
  <2> QED BY <2>1, <2>2, Zenon
<1>3. S \in SUBSET AKey /\ c \in S
  BY <1>1, Zenon
<1>4. U \subseteq S
  <2> HIDE DEF S
  <2> QED BY <1>0, <1>2, <1>3, UnderIs, Zenon DEF U
<1> QED BY <1>4, Zenon DEF U

\* The root hangs from nothing else.
LEMMA RootUnder ==
  ASSUME NEW L, NEW D, Tree(L, D), NEW c \in AKey, c # ROOT
  PROVE  ROOT \notin Under(L, c)
<1> DEFINE S == Under(L, c) \ {ROOT}
<1>0. L \in [AKey -> Children]
  BY Zenon DEF Tree, LiveLinks, OneLink
<1>1. Under(L, c) \subseteq AKey /\ c \in Under(L, c) /\ LinkClosed(L, Under(L, c))
  BY <1>0, UnderIs, Zenon
<1>2. LinkClosed(L, S)
  BY <1>1, Zenon DEF LinkClosed, Tree, LiveLinks, OneLink
<1>3. S \in SUBSET AKey /\ c \in S
  BY <1>1, Zenon
<1>4. Under(L, c) \subseteq S
  <2> HIDE DEF S
  <2> QED BY <1>0, <1>2, <1>3, UnderIs, Zenon
<1> QED BY <1>4, Zenon

\* What hangs from an entry are entries.
LEMMA UnderLive ==
  ASSUME NEW L, NEW D, Tree(L, D), NEW c \in D
  PROVE  Under(L, c) \subseteq D
<1>1. L \in [AKey -> Children] /\ D \in SUBSET AKey /\ c \in AKey
  BY Zenon DEF Tree, LiveLinks, OneLink
<1>2. LinkClosed(L, D)
  BY <1>1, Zenon DEF LinkClosed, Tree, LiveLinks, OneLink
<1> QED BY <1>1, <1>2, UnderIs, Zenon

\* A directory does not hang from its own child: no cycles.
LEMMA NotBelow ==
  ASSUME NEW L, NEW D, Tree(L, D), NEW d \in AKey, NEW n \in Name, L[d][n] # None
  PROVE  d \notin Under(L, L[d][n])
<1> DEFINE c == L[d][n]
           U == Under(L, c)
           S == AKey \ U
<1>0. L \in [AKey -> Children] /\ c \in D /\ c # ROOT /\ c \in AKey /\ D \subseteq AKey
  BY Zenon DEF Tree, LiveLinks, OneLink
<1> HIDE DEF c
<1>1. U \subseteq AKey /\ c \in U /\ LinkClosed(L, U) /\ ROOT \notin U
  BY <1>0, UnderIs, RootUnder, Zenon
<1> HIDE DEF U
<1> SUFFICES ASSUME d \in U PROVE FALSE
  BY Zenon DEF U, c
<1>2. LinkClosed(L, S)
  <2> SUFFICES ASSUME NEW k \in S, NEW m \in Name, L[k][m] # None PROVE L[k][m] \in S
    BY Zenon DEF LinkClosed
  <2>1. k \in AKey /\ k \notin U /\ L[k][m] \in AKey
    BY Zenon DEF Tree, LiveLinks, OneLink
  <2>2. L[k][m] # c
    <3>1. L[k][m] = c => k = d
      BY <2>1 DEF Tree, LiveLinks, OneLink, c
    <3> QED BY <2>1, <3>1, Zenon
  <2>3. L[k][m] \notin U
    BY <1>0, <2>1, <2>2, UnderParent, Zenon DEF U
  <2> QED BY <2>1, <2>3, Zenon
<1>3. S \in SUBSET AKey /\ ROOT \in S
  BY <1>1, RootAssumption, Zenon
<1>4. c \in S
  <2> HIDE DEF S
  <2>1. c \in Under(L, ROOT)
    BY <1>0, Zenon DEF Tree, LiveLinks, OneLink
  <2> QED BY <1>0, <1>2, <1>3, <2>1, RootAssumption, UnderIs, Zenon
<1> QED BY <1>1, <1>4, Zenon

\* A tree with the branch under one link cut off and removed is a tree.
LEMMA Detach ==
  ASSUME NEW L, NEW D, Tree(L, D), NEW d \in AKey, NEW n \in Name, NEW c, c = L[d][n], c # None,
         NEW M \in [AKey -> Children],
         \A k \in AKey, m \in Name :
           M[k][m] = IF k \in Under(L, c) \/ (k = d /\ m = n) THEN None ELSE L[k][m]
  PROVE  Tree(M, D \ Under(L, c))
<1> DEFINE U == Under(L, c)
<1>0. L \in [AKey -> Children] /\ c \in D /\ c # ROOT /\ c \in AKey /\ D \subseteq AKey
  BY Zenon DEF Tree, LiveLinks, OneLink
<1>1. U \subseteq AKey /\ c \in U /\ LinkClosed(L, U)
  BY <1>0, UnderIs, Zenon
<1> HIDE DEF U
<1>2. ASSUME NEW k \in AKey, NEW m \in Name, M[k][m] # None
      PROVE  k \notin U /\ ~ (k = d /\ m = n) /\ M[k][m] = L[k][m]
  BY <1>2, Zenon DEF U
<1>3. ASSUME NEW k \in AKey, NEW m \in Name, M[k][m] # None
      PROVE  k \in D \ U /\ M[k][m] \in D \ U /\ M[k][m] # ROOT
  <2>1. k \notin U /\ ~ (k = d /\ m = n) /\ M[k][m] = L[k][m]
    BY <1>2, <1>3, Zenon
  <2>2. k \in D /\ L[k][m] \in D /\ L[k][m] # ROOT
    BY <1>3, <2>1, Zenon DEF Tree, LiveLinks, OneLink
  <2>3. L[k][m] # c
    BY <1>3, <2>1 DEF Tree, LiveLinks, OneLink
  <2>4. L[k][m] \notin U
    BY <1>0, <1>3, <2>1, <2>3, UnderParent, ZenonT(40) DEF U
  <2> QED BY <2>1, <2>2, <2>4, Zenon
<1>4. ASSUME NEW j \in AKey, NEW k \in AKey, NEW m \in Name, NEW l \in Name,
             M[j][m] # None, M[j][m] = M[k][l]
      PROVE  j = k /\ m = l
  <2>1. M[j][m] = L[j][m] /\ M[k][l] = L[k][l]
    BY <1>2, <1>4, Zenon
  <2>2. L[j][m] # None /\ L[j][m] = L[k][l]
    BY <1>4, <2>1, Zenon
  <2>3. OneLink(L, AKey)
    BY Zenon DEF Tree
  <2> QED BY <2>2, <2>3 DEF OneLink
<1>5. ASSUME NEW S \in SUBSET AKey, ROOT \in S, LinkClosed(M, S) PROVE D \subseteq S \cup U
  <2> DEFINE R == S \cup U
  <2>1. ASSUME NEW k \in R, NEW m \in Name, L[k][m] # None PROVE L[k][m] \in R
    <3>1. CASE k \in U
      BY <1>1, <2>1, <3>1, Zenon DEF LinkClosed
    <3>2. CASE k \notin U /\ k = d /\ m = n
      BY <1>1, <3>2, Zenon
    <3>3. CASE k \notin U /\ ~ (k = d /\ m = n)
      <4>1. k \in S /\ k \in AKey
        BY <3>3, Zenon
      <4>2. M[k][m] = L[k][m]
        BY <3>3, <4>1, Zenon DEF U
      <4>3. M[k][m] \in S
        BY <1>5, <2>1, <4>1, <4>2, Zenon DEF LinkClosed
      <4> QED BY <4>2, <4>3, Zenon
    <3> QED BY <3>1, <3>2, <3>3, Zenon
  <2>2. LinkClosed(L, R) /\ R \in SUBSET AKey /\ ROOT \in R
    BY <1>1, <1>5, <2>1, Zenon DEF LinkClosed
  <2> HIDE DEF R
  <2>3. Under(L, ROOT) \subseteq R
    BY <1>0, <2>2, RootAssumption, UnderIs, Zenon
  <2> QED BY <2>3, Zenon DEF R, Tree
<1>6. D \ U \subseteq Under(M, ROOT)
  BY <1>0, <1>5, Zenon DEF Under
<1>7. LiveLinks(M, D \ U) /\ OneLink(M, AKey) /\ D \ U \subseteq AKey
  BY <1>0, <1>3, <1>4 DEF LiveLinks, OneLink
<1> QED BY <1>6, <1>7, Zenon DEF Tree, U

\* A tree with a branch of new keys hung from a free name is a tree.
LEMMA Attach ==
  ASSUME NEW L, NEW D, Tree(L, D), NEW d \in D, NEW n \in Name, L[d][n] = None,
         NEW X, NEW E, NEW k, Branch(X, E, k), E \cap D = {},
         NEW M \in [AKey -> Children],
         \A j \in AKey, m \in Name :
           M[j][m] = IF j \in E THEN X[j][m] ELSE IF j = d /\ m = n THEN k ELSE L[j][m]
  PROVE  Tree(M, D \cup E)
<1>0. /\ L \in [AKey -> Children] /\ D \subseteq AKey /\ d \in AKey /\ d \notin E
      /\ E \subseteq AKey /\ k \in E /\ ROOT \notin E
  BY Zenon DEF Tree, Branch
<1>1. \A j \in AKey, m \in Name :
        /\ j \in E => M[j][m] = X[j][m]
        /\ j \notin E /\ j = d /\ m = n => M[j][m] = k
        /\ j \notin E /\ ~ (j = d /\ m = n) => M[j][m] = L[j][m]
  BY Zenon
<1>2. ASSUME NEW j \in AKey, NEW m \in Name, M[j][m] # None
      PROVE  /\ j \in D \cup E /\ M[j][m] \in D \cup E /\ M[j][m] # ROOT
             /\ j \in E => M[j][m] \in E /\ M[j][m] # k
             /\ j \notin E /\ ~ (j = d /\ m = n) => M[j][m] \in D
  <2>1. CASE j \in E
    <3>1. M[j][m] = X[j][m]
      BY <1>1, <2>1, Zenon
    <3>2. X[j][m] \in E /\ X[j][m] # k
      BY <1>2, <2>1, <3>1, Zenon DEF Branch
    <3> QED BY <1>0, <2>1, <3>1, <3>2, Zenon
  <2>2. CASE j \notin E /\ j = d /\ m = n
    BY <1>0, <1>1, <2>2, ZenonT(40)
  <2>3. CASE j \notin E /\ ~ (j = d /\ m = n)
    <3>1. M[j][m] = L[j][m]
      BY <1>1, <2>3, Zenon
    <3>2. j \in D /\ L[j][m] \in D /\ L[j][m] # ROOT
      BY <1>2, <3>1, Zenon DEF Tree, LiveLinks, OneLink
    <3> QED BY <2>3, <3>1, <3>2, Zenon
  <2> QED BY <2>1, <2>2, <2>3, Zenon
<1>3. ASSUME NEW i \in AKey, NEW j \in AKey, NEW m \in Name, NEW l \in Name,
             M[i][m] # None, M[i][m] = M[j][l]
      PROVE  i = j /\ m = l
  <2>1. CASE i \in E
    <3>1. j \in E
      BY <1>0, <1>1, <1>2, <1>3, <2>1
    <3> QED BY <1>1, <1>3, <2>1, <3>1 DEF Branch, OneLink
  <2>2. CASE i \notin E /\ i = d /\ m = n
    BY <1>0, <1>1, <1>2, <1>3, <2>2
  <2>3. CASE i \notin E /\ ~ (i = d /\ m = n)
    <3>1. j \notin E /\ ~ (j = d /\ l = n)
      BY <1>0, <1>1, <1>2, <1>3, <2>3
    <3> QED BY <1>1, <1>3, <2>3, <3>1 DEF Tree, LiveLinks, OneLink
  <2> QED BY <2>1, <2>2, <2>3, Zenon
<1>4. ASSUME NEW S \in SUBSET AKey, ROOT \in S, LinkClosed(M, S) PROVE D \cup E \subseteq S
  <2> DEFINE R == S \cup (AKey \ D)
             T == S \cap E
  <2>1. ASSUME NEW j \in R, NEW m \in Name, L[j][m] # None PROVE L[j][m] \in R
    <3>1. j \in D /\ j \in S /\ j \notin E /\ ~ (j = d /\ m = n) /\ j \in AKey
      BY <1>0, <2>1, Zenon DEF Tree, LiveLinks, OneLink
    <3>2. M[j][m] = L[j][m]
      BY <1>1, <3>1, Zenon
    <3> QED BY <1>4, <2>1, <3>1, <3>2, Zenon DEF LinkClosed
  <2>2. LinkClosed(L, R) /\ R \in SUBSET AKey /\ ROOT \in R
    BY <1>4, <2>1, Zenon DEF LinkClosed
  <2>3. Under(L, ROOT) \subseteq R
    <3> HIDE DEF R
    <3> QED BY <1>0, <2>2, RootAssumption, UnderIs, Zenon
  <2>4. D \subseteq S
    BY <2>3, Zenon DEF Tree, LiveLinks, OneLink
  <2>5. k \in S
    <3>1. M[d][n] = k
      BY <1>0, <1>1, Zenon
    <3>2. k # None
      BY <1>0, RootAssumption, Zenon
    <3> QED BY <1>4, <2>4, <3>1, <3>2, Zenon DEF LinkClosed
  <2>6. ASSUME NEW j \in T, NEW m \in Name, X[j][m] # None PROVE X[j][m] \in T
    <3>1. M[j][m] = X[j][m] /\ X[j][m] \in E
      BY <1>0, <1>1, <2>6, Zenon DEF Branch, OneLink
    <3> QED BY <1>4, <2>6, <3>1, Zenon DEF LinkClosed
  <2>7. E \subseteq T
    <3>1. T \in SUBSET E /\ k \in T /\ LinkClosed(X, T)
      BY <1>0, <2>5, <2>6, Zenon DEF LinkClosed
    <3> HIDE DEF T
    <3> QED BY <3>1, Zenon DEF Branch, OneLink
  <2> QED BY <2>4, <2>7, Zenon
<1>5. D \cup E \subseteq Under(M, ROOT)
  BY <1>0, <1>4, Zenon DEF Under
<1>6. LiveLinks(M, D \cup E) /\ OneLink(M, AKey) /\ D \cup E \subseteq AKey
  BY <1>0, <1>2, <1>3 DEF LiveLinks, OneLink
<1> QED BY <1>5, <1>6, Zenon DEF Tree

\* A key without links is a branch.
LEMMA BranchLeaf ==
  ASSUME NEW X, NEW k \in AKey, k # ROOT, \A n \in Name : X[k][n] = None
  PROVE  Branch(X, {k}, k)
BY Zenon DEF Branch, OneLink

\* What hangs from an entry other than the root is a branch.
LEMMA BranchUnder ==
  ASSUME NEW L, NEW D, Tree(L, D), NEW c \in D, c # ROOT
  PROVE  Branch(L, Under(L, c), c)
<1> DEFINE U == Under(L, c)
<1>0. L \in [AKey -> Children] /\ c \in AKey
  BY Zenon DEF Tree, LiveLinks, OneLink
<1>1. U \subseteq AKey /\ c \in U /\ LinkClosed(L, U) /\ ROOT \notin U
  BY <1>0, UnderIs, RootUnder, Zenon
<1>2. \A S \in SUBSET U : c \in S /\ LinkClosed(L, S) => U \subseteq S
  BY <1>0, <1>1, UnderIs, Zenon
<1>3. ASSUME NEW i \in U, NEW n \in Name, L[i][n] # None PROVE L[i][n] \in U /\ L[i][n] # c
  <2>1. i \in AKey /\ L[i][n] \in U
    BY <1>1, <1>3, Zenon DEF LinkClosed
  <2>2. i \notin Under(L, L[i][n])
    BY <1>3, <2>1, NotBelow, Zenon
  <2> QED BY <2>1, <2>2, Zenon
<1>4. \A i, j \in U, m, n \in Name : L[i][m] # None /\ L[i][m] = L[j][n] => i = j /\ m = n
  BY <1>1, ZenonT(40) DEF Tree, LiveLinks, OneLink
<1> HIDE DEF U
<1>5. Branch(L, U, c)
  BY <1>1, <1>2, <1>3, <1>4, Zenon DEF Branch, OneLink
<1> QED BY <1>5, Zenon DEF U

\* A copy of a branch under other keys is a branch.
LEMMA BranchCopy ==
  ASSUME NEW X, NEW E, NEW k, Branch(X, E, k), None \notin E,
         NEW F \in SUBSET AKey, ROOT \notin F, NEW f \in [E -> F],
         \A i, j \in E : f[i] = f[j] => i = j, \A i \in F : \E j \in E : f[j] = i,
         NEW Y,
         \A i \in E, n \in Name : Y[f[i]][n] = IF X[i][n] = None THEN None ELSE f[X[i][n]]
  PROVE  Branch(Y, F, f[k])
<1>0. k \in E /\ f[k] \in F /\ None \notin F
  BY RootAssumption, Zenon DEF Branch
<1>1. ASSUME NEW i \in E, NEW n \in Name, Y[f[i]][n] # None
      PROVE  X[i][n] # None /\ X[i][n] \in E /\ X[i][n] # k /\ Y[f[i]][n] = f[X[i][n]]
  <2>1. X[i][n] # None /\ Y[f[i]][n] = f[X[i][n]]
    BY <1>1, ZenonT(40)
  <2> QED BY <2>1, Zenon DEF Branch
<1>2. ASSUME NEW i \in F, NEW n \in Name, Y[i][n] # None
      PROVE  Y[i][n] \in F /\ Y[i][n] # f[k]
  <2>1. PICK j \in E : f[j] = i
    BY Zenon
  <2>2. X[j][n] \in E /\ X[j][n] # k /\ Y[i][n] = f[X[j][n]]
    BY <1>1, <1>2, <2>1
  <2> QED BY <1>0, <2>2
<1>3. ASSUME NEW i \in F, NEW j \in F, NEW m \in Name, NEW n \in Name,
             Y[i][m] # None, Y[i][m] = Y[j][n]
      PROVE  i = j /\ m = n
  <2>1. PICK a \in E : f[a] = i
    BY Zenon
  <2>2. PICK b \in E : f[b] = j
    BY Zenon
  <2>3. X[a][m] # None /\ X[a][m] \in E /\ Y[i][m] = f[X[a][m]]
    BY <1>1, <1>3, <2>1
  <2>4. X[b][n] # None /\ X[b][n] \in E /\ Y[j][n] = f[X[b][n]]
    BY <1>1, <1>3, <2>2
  <2>5. X[a][m] = X[b][n]
    <3>1. f[X[a][m]] = f[X[b][n]]
      BY <1>3, <2>3, <2>4, Zenon
    <3> QED BY <2>3, <2>4, <3>1, ZenonT(40)
  <2>6. OneLink(X, E)
    BY Zenon DEF Branch
  <2>7. a = b /\ m = n
    BY <2>3, <2>5, <2>6 DEF OneLink
  <2> QED BY <2>1, <2>2, <2>7, Zenon
<1>4. ASSUME NEW S \in SUBSET F, f[k] \in S, LinkClosed(Y, S) PROVE F \subseteq S
  <2> DEFINE T == {i \in E : f[i] \in S}
  <2>1. ASSUME NEW i \in T, NEW n \in Name, X[i][n] # None PROVE X[i][n] \in T
    <3>1. X[i][n] \in E
      BY <2>1, Zenon DEF Branch
    <3>2. Y[f[i]][n] = f[X[i][n]] /\ f[X[i][n]] \in F
      BY <2>1, <3>1, Zenon
    <3>3. Y[f[i]][n] # None
      BY <1>0, <3>2
    <3>4. Y[f[i]][n] \in S
      BY <1>4, <3>3, Zenon DEF LinkClosed
    <3> QED BY <3>1, <3>2, <3>4, Zenon
  <2>2. T \in SUBSET E /\ k \in T /\ LinkClosed(X, T)
    BY <1>0, <1>4, <2>1, Zenon DEF LinkClosed
  <2>3. E \subseteq T
    <3> HIDE DEF T
    <3> QED BY <2>2, Zenon DEF Branch
  <2> QED BY <2>3
<1>5. OneLink(Y, F)
  BY <1>3 DEF OneLink
<1> QED BY <1>0, <1>2, <1>4, <1>5, Zenon DEF Branch

\* Without a root there is nothing; and a root can be made.
LEMMA NoRoot ==
  ASSUME NEW L, NEW D, Tree(L, D), ROOT \notin D
  PROVE  D = {} /\ (\A k \in AKey, n \in Name : L[k][n] = None) /\ Tree(L, {ROOT})
<1>1. \A n \in Name : L[ROOT][n] = None
  BY RootAssumption, Zenon DEF Tree, LiveLinks
<1>2. LinkClosed(L, {ROOT}) /\ {ROOT} \in SUBSET AKey /\ L \in [AKey -> Children]
  BY <1>1, RootAssumption, Zenon DEF LinkClosed, Tree
<1>3. Under(L, ROOT) \subseteq {ROOT} /\ ROOT \in Under(L, ROOT)
  BY <1>2, RootAssumption, UnderIs, Zenon
<1>4. D = {}
  BY <1>3, Zenon DEF Tree
<1>5. \A k \in AKey, n \in Name : L[k][n] = None
  BY <1>4, Zenon DEF Tree, LiveLinks
<1>6. LiveLinks(L, {ROOT}) /\ OneLink(L, AKey)
  BY <1>5, Zenon DEF LiveLinks, OneLink
<1> QED BY <1>2, <1>3, <1>4, <1>5, <1>6, Zenon DEF Tree

-----------------------------------------------------------------------------
(* What the operations do to a tree: a name is freed, and something is hung there. *)

\* What hangs from one name of d.
Cut(L, d, n) == IF L[d][n] = None THEN {} ELSE Under(L, L[d][n])

\* The links M are those of L with that name freed.
Freed(M, L, d, n) ==
  \A j \in AKey, m \in Name :
    M[j][m] = IF j \in Cut(L, d, n) \/ (j = d /\ m = n) THEN None ELSE L[j][m]

\* rm: a tree with a name freed is a tree.
LEMMA CutOff ==
  ASSUME NEW L, NEW D, Tree(L, D), NEW d \in AKey, NEW n \in Name,
         NEW M \in [AKey -> Children], Freed(M, L, d, n)
  PROVE  Tree(M, D \ Cut(L, d, n)) /\ d \notin Cut(L, d, n)
<1> DEFINE U == Cut(L, d, n)
<1>1. CASE L[d][n] = None
  <2>1. U = {} /\ D \ U = D
    BY <1>1, Zenon DEF Cut
  <2>2. L \in [AKey -> Children]
    BY Zenon DEF Tree
  <2>3. ASSUME NEW j \in AKey PROVE M[j] = L[j]
    <3>1. M[j] \in Children /\ L[j] \in Children
      BY <2>2, Zenon
    <3>2. \A m \in Name : M[j][m] = L[j][m]
      BY <1>1, <2>1, Zenon DEF Freed
    <3> QED BY <3>1, <3>2 DEF Children
  <2>4. M = L
    BY <2>2, <2>3
  <2> QED BY <2>1, <2>4, Zenon
<1>2. CASE L[d][n] # None
  <2> DEFINE c == L[d][n]
  <2>1. U = Under(L, c)
    BY <1>2, Zenon DEF Cut
  <2>2. d \notin U
    <3>1. d \notin Under(L, L[d][n])
      BY <1>2, NotBelow, Zenon
    <3> QED BY <2>1, <3>1, Zenon
  <2>3. Tree(M, D \ Under(L, c))
    <3>1. \A j \in AKey, m \in Name :
            M[j][m] = IF j \in Under(L, c) \/ (j = d /\ m = n) THEN None ELSE L[j][m]
      BY <2>1, Zenon DEF Freed
    <3> HIDE DEF c
    <3> QED BY <1>2, <3>1, Detach DEF c
  <2> QED BY <2>1, <2>2, <2>3, Zenon
<1> QED BY <1>1, <1>2, Zenon

\* The links that are left when a name is freed.
LEMMA CutLinks ==
  ASSUME NEW L, NEW D, Tree(L, D), NEW d \in AKey, NEW n \in Name
  PROVE  \E N \in [AKey -> Children] : Tree(N, D \ Cut(L, d, n)) /\ Freed(N, L, d, n)
<1> DEFINE U == Cut(L, d, n)
           e(j, m) == IF j \in U \/ (j = d /\ m = n) THEN None ELSE L[j][m]
           N == [j \in AKey |-> [m \in Name |-> e(j, m)]]
<1>1. ASSUME NEW j \in AKey, NEW m \in Name PROVE e(j, m) \in AKey \cup {None}
  <2>1. L[j][m] \in AKey \cup {None}
    BY Zenon DEF Tree, Children
  <2> QED BY <2>1, Zenon
<1>2. Freed(N, L, d, n)
  BY Zenon DEF Freed
<1>3. N \in [AKey -> Children]
  <2> HIDE DEF e
  <2> QED BY <1>1, Zenon DEF Children
<1> HIDE DEF N
<1>4. Tree(N, D \ U)
  BY <1>2, <1>3, CutOff, Zenon
<1> QED BY <1>2, <1>3, <1>4, Zenon

\* store and cp: a tree with a branch of new keys in the place of what one name led to is a tree.
LEMMA Replace ==
  ASSUME NEW L, NEW D, Tree(L, D), NEW d \in D, NEW n \in Name, NEW U, U = Cut(L, d, n),
         NEW X, NEW E, NEW k, Branch(X, E, k), E \cap (D \ U) = {},
         NEW M \in [AKey -> Children],
         \A j \in AKey, m \in Name :
           M[j][m] = IF j \in E THEN X[j][m] ELSE IF j = d /\ m = n THEN k
                     ELSE IF j \in U THEN None ELSE L[j][m]
  PROVE  Tree(M, (D \ U) \cup E)
<1>1. d \in AKey
  BY Zenon DEF Tree
<1>2. PICK N \in [AKey -> Children] :
        Tree(N, D \ U) /\ Freed(N, L, d, n)
  BY <1>1, CutLinks, Zenon
<1>3. d \in D \ U /\ N[d][n] = None
  <2>1. d \notin U
    BY <1>1, <1>2, CutOff, Zenon
  <2> QED BY <1>1, <1>2, <2>1, Zenon DEF Freed
<1>4. \A j \in AKey, m \in Name :
        M[j][m] = IF j \in E THEN X[j][m] ELSE IF j = d /\ m = n THEN k ELSE N[j][m]
  BY <1>2 DEF Freed
<1> DEFINE C == D \ U
<1>5. Tree(N, C) /\ d \in C /\ E \cap C = {}
  BY <1>2, <1>3, Zenon
<1> HIDE DEF C
<1>6. Tree(M, C \cup E)
  BY <1>3, <1>4, <1>5, Attach
<1> QED BY <1>6, Zenon DEF C

\* Fewer links, less under a key.
LEMMA UnderLess ==
  ASSUME NEW L \in [AKey -> Children], NEW N \in [AKey -> Children], NEW k \in AKey,
         \A j \in AKey, m \in Name : N[j][m] # None => N[j][m] = L[j][m]
  PROVE  Under(N, k) \subseteq Under(L, k)
<1>1. Under(L, k) \in SUBSET AKey /\ k \in Under(L, k) /\ LinkClosed(L, Under(L, k))
  BY UnderIs, Zenon
<1>2. LinkClosed(N, Under(L, k))
  BY <1>1, Zenon DEF LinkClosed
<1> QED BY <1>1, <1>2, UnderIs, Zenon

\* mv: so is a tree with the branch under one name moved to another, outside of that branch.
LEMMA Regraft ==
  ASSUME NEW L, NEW D, Tree(L, D), NEW d \in D, NEW n \in Name, NEW U, U = Cut(L, d, n),
         NEW i \in AKey, NEW l \in Name, NEW k, k = L[i][l], k # None,
         i \notin U, k \notin U, ~ (i = d /\ l = n), d \notin Under(L, k),
         NEW M \in [AKey -> Children],
         \A j \in AKey, m \in Name :
           M[j][m] = IF j \in U \/ (j = i /\ m = l) THEN None ELSE IF j = d /\ m = n THEN k ELSE L[j][m]
  PROVE  Tree(M, D \ U)
<1> DEFINE C == D \ U
<1>1. L \in [AKey -> Children] /\ d \in AKey /\ k \in D /\ k \in AKey /\ k # ROOT
  BY Zenon DEF Tree, LiveLinks
<1>2. PICK N \in [AKey -> Children] :
        Tree(N, C) /\ Freed(N, L, d, n)
  BY <1>1, CutLinks, Zenon
<1>3. d \in C /\ N[d][n] = None /\ N[i][l] = k /\ k \in C
  <2>1. d \notin U
    BY <1>1, <1>2, CutOff, Zenon
  <2> QED BY <1>1, <1>2, <2>1, Zenon DEF Freed
<1> DEFINE W == Under(N, k)
           B == C \ W
<1>4. W \subseteq Under(L, k)
  <2>1. \A j \in AKey, m \in Name : N[j][m] # None => N[j][m] = L[j][m]
    BY <1>2, Zenon DEF Freed
  <2> QED BY <1>1, <2>1, UnderLess, Zenon
<1> HIDE DEF C
<1>5. W \subseteq C /\ Branch(N, W, k) /\ W = Cut(N, i, l)
  BY <1>1, <1>2, <1>3, UnderLive, BranchUnder, Zenon DEF Cut
<1>6. PICK P \in [AKey -> Children] :
        Tree(P, B) /\ Freed(P, N, i, l)
  BY <1>2, <1>5, CutLinks, Zenon
<1>7. d \in B /\ P[d][n] = None /\ i \notin W
  <2>1. i \notin W
    <3>1. i \notin Cut(N, i, l)
      BY <1>2, <1>6, CutOff, Zenon
    <3> QED BY <1>5, <3>1, Zenon
  <2>2. d \notin W
    BY <1>4, Zenon
  <2>3. P[d][n] = None
    BY <1>1, <1>3, <1>5, <1>6, Zenon DEF Freed
  <2> QED BY <1>3, <2>1, <2>2, <2>3, Zenon
<1>8. \A j \in AKey, m \in Name :
        M[j][m] = IF j \in W THEN N[j][m] ELSE IF j = d /\ m = n THEN k ELSE P[j][m]
  <2>1. \A j \in W : j \notin U /\ j # i /\ j # d
    BY <1>5, <1>7, Zenon DEF C
  <2>2. d \notin U
    BY <1>3, Zenon DEF C
  <2>3. \A j \in AKey, m \in Name :
          N[j][m] = IF j \in U \/ (j = d /\ m = n) THEN None ELSE L[j][m]
    BY <1>2, Zenon DEF Freed
  <2>4. \A j \in AKey, m \in Name : P[j][m] = IF j \in W \/ (j = i /\ m = l) THEN None ELSE N[j][m]
    BY <1>5, <1>6, ZenonT(40) DEF Freed
  <2> HIDE DEF W
  <2> QED BY <2>1, <2>2, <2>3, <2>4
<1>9. Tree(M, B \cup W)
  <2>1. W \cap B = {}
    BY Zenon
  <2> HIDE DEF W, B
  <2> QED BY <1>5, <1>6, <1>7, <1>8, <2>1, Attach
<1>10. B \cup W = C
  BY <1>5, Zenon
<1> QED BY <1>9, <1>10, Zenon DEF C

-----------------------------------------------------------------------------
(* Stores whose table is a tree, and what the operations read of them. *)

Live(V) == {k \in AKey : V[k] # None}

IsTree(V) == Tree(Links(V), Live(V)) /\ (V[ROOT] # None => V[ROOT].kind = "dir")

Sound(s) == Good(s) /\ IsTree(Seen(s))

\* k is a directory.
IsDir(s, k) == k \in AKey /\ Seen(s)[k] # None /\ Seen(s)[k].kind = "dir"

\* The links of a table.
LEMMA LinksAre ==
  ASSUME NEW V \in Table
  PROVE  /\ Links(V) \in [AKey -> Children]
         /\ \A k \in AKey, n \in Name :
              /\ Links(V)[k][n] = child_of(V[k], n)
              /\ Links(V)[k][n] # None => V[k] # None /\ V[k].kind = "dir"
              /\ V[k] # None /\ V[k].kind = "dir" => Links(V)[k][n] = V[k].children[n]
<1>1. ASSUME NEW k \in AKey, NEW n \in Name
      PROVE  /\ child_of(V[k], n) \in AKey \cup {None}
             /\ child_of(V[k], n) # None => V[k] # None /\ V[k].kind = "dir"
             /\ V[k] # None /\ V[k].kind = "dir" => child_of(V[k], n) = V[k].children[n]
  <2>1. V[k] \in Entry \cup {None}
    BY Zenon DEF Table
  <2> QED BY <2>1, ChildOf, Zenon DEF child_of
<1>2. \A k \in AKey, n \in Name : Links(V)[k][n] = child_of(V[k], n)
  BY Zenon DEF Links
<1>3. Links(V) \in [AKey -> Children]
  BY <1>1, Zenon DEF Links, Children
<1> QED BY <1>1, <1>2, <1>3, ZenonT(40)

\* What the operations find in a store is in the table after a flush.
LEMMA Views ==
  ASSUME NEW s, Good(s)
  PROVE  /\ Seen(s) \in Table /\ Links(Seen(s)) \in [AKey -> Children] /\ s \in Store
         /\ \A k \in AKey, n \in Name : child(s, k, n) = Links(Seen(s))[k][n]
         /\ \A p : resolve(s, p) = Walk(Links(Seen(s)), p)
         /\ \A k \in AKey : kind(s, k) = "dir" <=> IsDir(s, k)
         /\ \A k \in AKey : kind(s, k) = "file" <=> Seen(s)[k] # None /\ ~ IsDir(s, k)
         /\ \A k \in AKey : kind(s, k) = None <=> Seen(s)[k] = None
<1> DEFINE V == Seen(s)
<1>0. s \in Store /\ Buffered(s)
  BY Zenon DEF Good
<1>1. V \in Table
  BY <1>0, SeenIs, Zenon
<1>2. \A k \in AKey : V[k] \in Entry \cup {None}
  BY <1>0, Reads, Zenon
<1>3. \A k \in AKey, n \in Name : child(s, k, n) = child_of(V[k], n)
  BY <1>0, Reads, Zenon
<1>4. \A k \in AKey : kind(s, k) = IF V[k] = None THEN None ELSE V[k].kind
  BY <1>0, Reads, Zenon
<1> HIDE DEF V
<1>5. Links(V) \in [AKey -> Children] /\ \A k \in AKey, n \in Name : Links(V)[k][n] = child_of(V[k], n)
  BY <1>1, LinksAre, Zenon
<1>6. [k \in AKey |-> [n \in Name |-> child(s, k, n)]] = Links(V)
  BY <1>3, Zenon DEF Links
<1>7. \A p : resolve(s, p) = Walk(Links(V), p)
  BY <1>6, Zenon DEF resolve
<1>8. \A k \in AKey, n \in Name : child(s, k, n) = Links(V)[k][n]
  BY <1>3, <1>5, Zenon
<1>9. ASSUME NEW k \in AKey
      PROVE  /\ kind(s, k) = "dir" <=> V[k] # None /\ V[k].kind = "dir"
             /\ kind(s, k) = "file" <=> V[k] # None /\ V[k].kind # "dir"
             /\ kind(s, k) = None <=> V[k] = None
  <2>1. V[k] # None => V[k].kind \in {"file", "dir"}
    BY <1>2, Entries, Zenon
  <2>2. "file" # "dir" /\ None # "file" /\ None # "dir"
    BY EntryAssumption, Zenon
  <2>3. kind(s, k) = IF V[k] = None THEN None ELSE V[k].kind
    BY <1>4, Zenon
  <2> QED BY <2>1, <2>2, <2>3, Zenon
<1> QED BY <1>0, <1>1, <1>5, <1>7, <1>8, <1>9, Zenon DEF V, IsDir

\* The subtree of a key is what hangs from it.
LEMMA SubtreeIsUnder ==
  ASSUME NEW s, Good(s), NEW k \in AKey
  PROVE  Subtree(s, k) = Under(Links(Seen(s)), k)
<1> DEFINE L == Links(Seen(s))
<1>1. ASSUME NEW j \in AKey PROVE Below(s, j) = {L[j][n] : n \in Name} \ {None}
  <2>1. CASE IsDir(s, j)
    <3>1. kind(s, j) = "dir" /\ dir_children(s, j) = Seen(s)[j].children
      BY <2>1, Views, Reads, Zenon DEF Good, IsDir
    <3>2. \A n \in Name : L[j][n] = Seen(s)[j].children[n]
      BY <2>1, Views, LinksAre, ZenonT(40) DEF IsDir
    <3> HIDE DEF L
    <3> QED BY <3>1, <3>2, Zenon DEF Below, Targets
  <2>2. CASE ~ IsDir(s, j)
    <3>1. kind(s, j) # "dir"
      BY <2>2, Views, Zenon
    <3>2. \A n \in Name : L[j][n] = None
      BY <2>2, Views, LinksAre, ZenonT(40) DEF IsDir
    <3> HIDE DEF L
    <3> QED BY <3>1, <3>2, Zenon DEF Below
  <2> QED BY <2>1, <2>2, Zenon
<1> HIDE DEF L
<1>2. ASSUME NEW S \in SUBSET AKey
      PROVE  (\A j \in S : Below(s, j) \subseteq S) <=> LinkClosed(L, S)
  BY <1>1 DEF LinkClosed
<1>3. ASSUME NEW j
      PROVE  j \in Subtree(s, k) <=> j \in Under(L, k)
  BY <1>2, Zenon DEF Subtree, Under
<1> QED BY <1>3, Zenon DEF L

\* A fresh key is a key, without an entry, and not the root's.
LEMMA FreshIs ==
  ASSUME NEW s, Good(s), NEW used
  PROVE  /\ \A k \in Spare(s, used) : k \in AKey /\ Seen(s)[k] = None /\ k # ROOT
         /\ Fresh(s, used) # None => Fresh(s, used) \in Spare(s, used)
<1>1. ASSUME NEW k \in AKey, Seen(s)[k] # None PROVE k \in Mentioned(s)
  <2>1. s.data[k] # None \/ s.dirs[k] # None
    BY <1>1, SeenIs, Zenon DEF Good, Buffered, BufferedAt
  <2> QED BY <2>1, Zenon DEF Mentioned
<1>2. ROOT \in Mentioned(s)
  BY Zenon DEF Mentioned
<1>3. Fresh(s, used) # None => Fresh(s, used) \in Spare(s, used)
  BY Zenon DEF Fresh
<1> QED BY <1>1, <1>2, <1>3, Zenon DEF Spare

-----------------------------------------------------------------------------
(* The steps that the operations are made of, on stores whose table is a tree. *)

\* A relink is counted, and writing through is not given up.
Since(s, t) ==
  /\ s.structure <= t.structure /\ (t.buffering => s.buffering)
  /\ t.structure = s.structure => Links(Seen(t)) = Links(Seen(s))

\* There was a relink.
After(s, t) == s.structure < t.structure /\ (t.buffering => s.buffering)

\* An entry that is still the same file, or still none.
SameFile(e, f) ==
  (e # None /\ e.kind = "file") \/ (f # None /\ f.kind = "file") => e = f

\* Apart from the keys U, entries stay the files they were and links are kept, but for n of d
\* and l of i.
Beside(V, W, U, d, n, i, l) ==
  \A j \in AKey :
    V[j] # None /\ j \notin U =>
      /\ SameFile(V[j], W[j])
      /\ \A m \in Name : (j = d /\ m = n) \/ (j = i /\ m = l) \/ Links(W)[j][m] = Links(V)[j][m]

\* Every entry keeps its kind, every file its content, every link its end.
Grew(s, t) ==
  /\ Since(s, t)
  /\ \A k \in AKey : Seen(s)[k] # None =>
       /\ Seen(t)[k] # None /\ Seen(t)[k].kind = Seen(s)[k].kind
       /\ SameFile(Seen(s)[k], Seen(t)[k])
  /\ \A k \in AKey, n \in Name :
       Links(Seen(s))[k][n] # None => Links(Seen(t))[k][n] = Links(Seen(s))[k][n]

\* A store grows in steps.
LEMMA GrewOn ==
  ASSUME NEW s, Good(s)
  PROVE  /\ Grew(s, s)
         /\ \A t, u : Good(t) /\ Good(u) /\ Grew(s, t) /\ Grew(t, u) => Grew(s, u)
<1>1. s.structure \in Nat
  BY StoreFields, Zenon DEF Good
<1>2. Grew(s, s)
  BY <1>1 DEF Grew, Since, SameFile
<1>3. ASSUME NEW t, NEW u, Good(t), Good(u), Grew(s, t), Grew(t, u) PROVE Grew(s, u)
  <2>1. t.structure \in Nat /\ u.structure \in Nat
    BY <1>3, StoreFields, Zenon DEF Good
  <2>2. Since(s, t) /\ Since(t, u)
    BY <1>3, Zenon DEF Grew
  <2>3. Since(s, u)
    <3>1. s.structure <= u.structure /\ (u.structure = s.structure => t.structure = s.structure)
      BY <1>1, <2>1, <2>2 DEF Since
    <3>2. u.structure = s.structure => u.structure = t.structure
      BY <3>1, Zenon
    <3> QED BY <2>2, <3>1, <3>2, Zenon DEF Since
  <2>4. ASSUME NEW k \in AKey, Seen(s)[k] # None
        PROVE  /\ Seen(u)[k] # None /\ Seen(u)[k].kind = Seen(s)[k].kind
               /\ SameFile(Seen(s)[k], Seen(u)[k])
    <3>1. /\ Seen(t)[k] # None /\ Seen(t)[k].kind = Seen(s)[k].kind
          /\ SameFile(Seen(s)[k], Seen(t)[k])
      BY <1>3, <2>4, Zenon DEF Grew
    <3>2. /\ Seen(u)[k] # None /\ Seen(u)[k].kind = Seen(t)[k].kind
          /\ SameFile(Seen(t)[k], Seen(u)[k])
      BY <1>3, <3>1, Zenon DEF Grew
    <3> QED BY <3>1, <3>2 DEF SameFile
  <2>5. \A k \in AKey, n \in Name :
          Links(Seen(s))[k][n] # None => Links(Seen(u))[k][n] = Links(Seen(s))[k][n]
    BY <1>3 DEF Grew
  <2> QED BY <2>3, <2>4, <2>5, Zenon DEF Grew
<1> QED BY <1>2, <1>3, Zenon

\* A file that changes its content stays where it is.
LEMMA Rewritten ==
  ASSUME NEW s, Sound(s), NEW t, Good(t), t.structure = s.structure, t.buffering = s.buffering,
         NEW k \in AKey, Seen(s)[k] # None, Seen(s)[k].kind = "file", NEW v \in Value,
         \A j \in AKey : Seen(t)[j] = IF j = k THEN FileEntry(v) ELSE Seen(s)[j]
  PROVE  /\ Sound(t) /\ Since(s, t)
         /\ \A U, d, n : k \in U => Beside(Seen(s), Seen(t), U, d, n, d, n)
<1>1. FileEntry(v) # None /\ FileEntry(v).kind = "file" /\ "file" # "dir"
  BY Entries, Zenon
<1>2. ASSUME NEW j \in AKey, NEW n \in Name PROVE child_of(Seen(t)[j], n) = child_of(Seen(s)[j], n)
  BY <1>1, Zenon DEF child_of
<1>3. Links(Seen(t)) = Links(Seen(s))
  BY <1>2, Zenon DEF Links
<1>4. \A j \in AKey : Seen(t)[j] # None <=> Seen(s)[j] # None
  BY <1>1, Zenon
<1>5. Live(Seen(t)) = Live(Seen(s))
  BY <1>4, Zenon DEF Live
<1>6. \A j \in AKey : Seen(s)[j] # None => Seen(t)[j].kind = Seen(s)[j].kind
  BY <1>1, Zenon
<1>7. Sound(t)
  BY <1>3, <1>4, <1>5, <1>6, RootAssumption, Zenon DEF Sound, IsTree
<1>8. s.structure \in Nat
  BY StoreFields, Zenon DEF Sound, Good
<1>9. Since(s, t)
  BY <1>3, <1>8 DEF Since
<1>10. ASSUME NEW U, NEW d, NEW n, k \in U PROVE Beside(Seen(s), Seen(t), U, d, n, d, n)
  <2>1. \A j \in AKey : j \notin U => Seen(t)[j] = Seen(s)[j]
    BY <1>10, Zenon
  <2> QED BY <1>3, <2>1 DEF Beside, SameFile
<1> QED BY <1>7, <1>9, <1>10, Zenon

\* The root directory.
LEMMA EnsureRoot ==
  ASSUME NEW s, Sound(s), NEW t, t = ensure_root(s)
  PROVE  Sound(t) /\ Grew(s, t) /\ IsDir(t, ROOT) /\ Links(Seen(t)) = Links(Seen(s))
<1>0. Good(s) /\ IsTree(Seen(s)) /\ s \in Store /\ Buffered(s) /\ ROOT \in AKey
  BY RootAssumption, Zenon DEF Sound, Good
<1>1. has_entry(s, ROOT) <=> Seen(s)[ROOT] # None
  BY <1>0, Reads, Zenon
<1>2. CASE Seen(s)[ROOT] # None
  <2>1. t = s
    BY <1>1, <1>2, Zenon DEF ensure_root
  <2> QED BY <1>0, <1>2, <2>1, GrewOn, Zenon DEF IsDir, IsTree
<1>3. CASE Seen(s)[ROOT] = None
  <2> DEFINE L == Links(Seen(s))
  <2>1. t = put_dir(s, ROOT, NoChildren)
    BY <1>1, <1>3, Zenon DEF ensure_root
  <2>2. /\ Good(t) /\ t.structure = s.structure /\ t.buffering = s.buffering
        /\ \A j \in AKey : Seen(t)[j] = IF j = ROOT THEN DirEntry(NoChildren) ELSE Seen(s)[j]
    BY <1>0, <1>3, <2>1, ChildrenAre, PutDir
  <2>3. /\ Live(Seen(s)) = {} /\ \A k \in AKey, n \in Name : L[k][n] = None
        /\ Tree(L, {ROOT})
    <3>1. ROOT \notin Live(Seen(s)) /\ Tree(L, Live(Seen(s)))
      BY <1>0, <1>3, Zenon DEF Live, IsTree
    <3> QED BY <3>1, NoRoot, Zenon
  <2>4. DirEntry(NoChildren) # None /\ DirEntry(NoChildren).kind = "dir"
        /\ DirEntry(NoChildren).children = NoChildren
    BY ChildrenAre, Entries, Zenon
  <2>5. \A j \in AKey : Seen(s)[j] = None
    BY <2>3, Zenon DEF Live
  <2>6. \A j \in AKey, n \in Name : child_of(Seen(t)[j], n) = None /\ child_of(Seen(s)[j], n) = None
    BY <2>2, <2>4, <2>5, ChildrenAre, Zenon DEF child_of
  <2>7. Links(Seen(t)) = L
    BY <2>6, Zenon DEF Links
  <2>8. Live(Seen(t)) = {ROOT}
    BY <1>0, <2>2, <2>4, <2>5, Zenon DEF Live
  <2>9. IsDir(t, ROOT)
    BY <1>0, <2>2, <2>4, Zenon DEF IsDir
  <2>10. Sound(t)
    BY <2>2, <2>3, <2>7, <2>8, <2>9, Zenon DEF Sound, IsTree, IsDir
  <2>11. s.structure \in Nat
    BY <1>0, StoreFields, Zenon
  <2>12. Grew(s, t)
    BY <2>2, <2>5, <2>7, <2>11 DEF Grew, Since
  <2> QED BY <2>7, <2>9, <2>10, <2>12, Zenon
<1> QED BY <1>2, <1>3, Zenon

\* The links of an entry that is kept, removed, or given another child.
LEMMA LinksOf ==
  ASSUME NEW V \in Table, NEW W \in Table, NEW j \in AKey
  PROVE  /\ W[j] = V[j] => \A m \in Name : Links(W)[j][m] = Links(V)[j][m]
         /\ W[j] = None => \A m \in Name : Links(W)[j][m] = None
<1>1. \A m \in Name : Links(W)[j][m] = child_of(W[j], m) /\ Links(V)[j][m] = child_of(V[j], m)
  BY LinksAre, Zenon
<1> QED BY <1>1, Zenon DEF child_of

\* A directory that was given a name has the link ...
LEMMA Relinked ==
  ASSUME NEW V \in Table, NEW W \in Table, NEW d \in AKey, V[d] # None, V[d].kind = "dir",
         NEW n \in Name, NEW k \in AKey,
         W[d] = Given(V[d], n, k)
  PROVE  /\ W[d] # None /\ W[d].kind = "dir"
         /\ \A m \in Name : Links(W)[d][m] = IF m = n THEN k ELSE Links(V)[d][m]
<1> DEFINE m0 == [V[d].children EXCEPT ![n] = k]
<1>1. V[d] \in Entry
  BY Zenon DEF Table
<1>2. V[d].children \in Children
  BY <1>1, Entries, Zenon
<1>3. m0 \in Children /\ \A m \in Name : m0[m] = IF m = n THEN k ELSE V[d].children[m]
  BY <1>2, Zenon DEF Children
<1>4. W[d] # None /\ W[d].kind = "dir" /\ W[d].children = m0
  BY <1>3, Entries, Zenon DEF Given
<1> HIDE DEF m0
<1>5. \A m \in Name : Links(W)[d][m] = m0[m] /\ Links(V)[d][m] = V[d].children[m]
  BY <1>4, LinksAre, ZenonT(40)
<1> QED BY <1>3, <1>4, <1>5, Zenon

\* ... and one that lost the name has not.
LEMMA Unlinked ==
  ASSUME NEW V \in Table, NEW W \in Table, NEW d \in AKey, V[d] # None, V[d].kind = "dir",
         NEW n \in Name,
         W[d] = Given(V[d], n, None)
  PROVE  /\ W[d] # None /\ W[d].kind = "dir"
         /\ \A m \in Name : Links(W)[d][m] = IF m = n THEN None ELSE Links(V)[d][m]
<1> DEFINE m0 == [V[d].children EXCEPT ![n] = None]
<1>1. V[d] \in Entry
  BY Zenon DEF Table
<1>2. V[d].children \in Children
  BY <1>1, Entries, Zenon
<1>3. m0 \in Children /\ \A m \in Name : m0[m] = IF m = n THEN None ELSE V[d].children[m]
  BY <1>2, Zenon DEF Children
<1>4. W[d] # None /\ W[d].kind = "dir" /\ W[d].children = m0
  BY <1>3, Entries, Zenon DEF Given
<1> HIDE DEF m0
<1>5. \A m \in Name : Links(W)[d][m] = m0[m] /\ Links(V)[d][m] = V[d].children[m]
  BY <1>4, LinksAre, Zenon
<1> QED BY <1>3, <1>4, <1>5, Zenon

\* What one name of a directory d led to is replaced by the new keys E, a branch from k.
LEMMA Hung ==
  ASSUME NEW s, Sound(s), NEW d, IsDir(s, d), NEW n \in Name, NEW t, Good(t),
         NEW U, U = Cut(Links(Seen(s)), d, n),
         NEW E, NEW k, Branch(Links(Seen(t)), E, k), E \cap (Live(Seen(s)) \ U) = {},
         \A j \in E : Seen(t)[j] # None,
         Seen(t)[d] = Given(Seen(s)[d], n, k),
         \A j \in AKey : j \notin E /\ j # d => Seen(t)[j] = IF j \in U THEN None ELSE Seen(s)[j]
  PROVE  Sound(t) /\ Beside(Seen(s), Seen(t), U, d, n, d, n)
<1> DEFINE L == Links(Seen(s))
           M == Links(Seen(t))
           D == Live(Seen(s))
<1>1. /\ Good(s) /\ Seen(s) \in Table /\ Seen(t) \in Table
      /\ L \in [AKey -> Children] /\ M \in [AKey -> Children] /\ Tree(L, D)
  BY Views, Zenon DEF Sound, IsTree
<1>2. d \in AKey /\ Seen(s)[d] # None /\ Seen(s)[d].kind = "dir" /\ d \in D
  BY Zenon DEF IsDir, Live
<1>3. E \subseteq AKey /\ k \in E /\ k \in AKey /\ ROOT \notin E
  BY Zenon DEF Branch
<1>6. /\ Seen(t)[d] # None /\ Seen(t)[d].kind = "dir"
      /\ \A m \in Name : M[d][m] = IF m = n THEN k ELSE L[d][m]
  BY <1>1, <1>2, <1>3, Relinked
<1>7. d \notin U
  BY <1>1, <1>2, CutLinks, CutOff, Zenon
<1>10. \A j \in AKey, m \in Name : j \notin E /\ j # d => M[j][m] = IF j \in U THEN None ELSE L[j][m]
  <2> SUFFICES ASSUME NEW j \in AKey, NEW m \in Name, j \notin E, j # d
               PROVE  M[j][m] = IF j \in U THEN None ELSE L[j][m]
    BY Zenon
  <2>1. Seen(t)[j] = IF j \in U THEN None ELSE Seen(s)[j]
    BY Zenon
  <2> QED BY <1>1, <2>1, LinksOf
<1>11. Tree(M, (D \ U) \cup E)
  <2> HIDE DEF L, M, D
  <2>1. \A j \in AKey, m \in Name :
          M[j][m] = IF j \in E THEN M[j][m] ELSE IF j = d /\ m = n THEN k
                    ELSE IF j \in U THEN None ELSE L[j][m]
    BY <1>6, <1>7, <1>10, Zenon
  <2>2. Branch(M, E, k) /\ E \cap (D \ U) = {} /\ U = Cut(L, d, n)
    BY Zenon DEF L, M, D
  <2> QED BY <1>1, <1>2, <2>1, <2>2, Replace
<1>12. Live(Seen(t)) = (D \ U) \cup E
  BY <1>2, <1>3, <1>6, <1>7, ZenonT(40) DEF Live
<1>13. Seen(t)[ROOT] # None => Seen(t)[ROOT].kind = "dir"
  <2>1. Seen(s)[ROOT] # None => Seen(s)[ROOT].kind = "dir"
    BY Zenon DEF Sound, IsTree
  <2> QED BY <1>3, <1>6, <2>1, RootAssumption, Zenon
<1>14. ASSUME NEW j \in AKey, Seen(s)[j] # None, j \notin U
       PROVE  /\ SameFile(Seen(s)[j], Seen(t)[j])
              /\ \A m \in Name : (j = d /\ m = n) \/ M[j][m] = L[j][m]
  <2>1. j \notin E
    BY <1>14, Zenon DEF Live
  <2>2. CASE j = d
    BY <1>2, <1>6, <2>2, Zenon DEF SameFile
  <2>3. CASE j # d
    BY <1>10, <1>14, <2>1, <2>3, Zenon DEF SameFile
  <2> QED BY <2>2, <2>3, Zenon
<1>15. Beside(Seen(s), Seen(t), U, d, n, d, n)
  BY <1>14, Zenon DEF Beside
<1> QED BY <1>11, <1>12, <1>13, <1>15, Zenon DEF Sound, IsTree

\* The links M are those of L, or k, which had none, has been linked under one name of d.
Grown(L, M, D, d, n, k) ==
  \/ M = L
  \/ /\ k \in AKey \ D /\ k # ROOT /\ \A m \in Name : M[k][m] = None
     /\ M[d][n] = k
     /\ \A j \in AKey, m \in Name : j # k /\ ~ (j = d /\ m = n) => M[j][m] = L[j][m]

\* A turn of ensure_dir: the key it yields is the one under the name.
LEMMA EnsureChild ==
  ASSUME NEW r, r.res = "ok", Sound(r.store), IsDir(r.store, r.key), NEW n \in Name, NEW used,
         NEW q, q = ensure_child(r, n, used)
  PROVE  /\ q.res \in {"ok", "err", "full"} /\ Sound(q.store) /\ Grew(r.store, q.store)
         /\ q.res = "ok" => IsDir(q.store, q.key) /\ Links(Seen(q.store))[r.key][n] = q.key
         /\ Grown(Links(Seen(r.store)), Links(Seen(q.store)), Live(Seen(r.store)), r.key, n, q.key)
<1> DEFINE s == r.store
           d == r.key
           L == Links(Seen(s))
           c == L[d][n]
           k == Fresh(s, used)
<1>0. Good(s) /\ s \in Store /\ Seen(s) \in Table /\ d \in AKey /\ Tree(L, Live(Seen(s)))
      /\ L \in [AKey -> Children] /\ s.structure \in Nat /\ Grew(s, s)
  BY Views, StoreFields, GrewOn, Zenon DEF Sound, IsTree, IsDir
<1>1. child(s, d, n) = c
  BY <1>0, Views
<1>2. c # None => c \in AKey /\ Seen(s)[c] # None
  BY <1>0, Zenon DEF Tree, LiveLinks, Live
<1>3. c # None => (kind(s, c) = "dir" <=> IsDir(s, c))
  BY <1>0, <1>2, Views, Zenon
<1>4. q = IF c # None THEN IF kind(s, c) = "dir" THEN Done(s, c) ELSE Ended(s, "err")
          ELSE IF k = None THEN Ended(s, "full")
          ELSE Done(link_child(put_dir(s, k, NoChildren), d, n, k), k)
  BY <1>1, Zenon DEF ensure_child
<1>5. CASE c # None /\ IsDir(s, c)
  <2>1. q.store = s /\ q.key = c /\ q.res = "ok"
    BY <1>3, <1>4, <1>5 DEF Done
  <2> QED BY <1>0, <1>5, <2>1, Zenon DEF Grown
<1>6. CASE c # None /\ ~ IsDir(s, c)
  <2>1. q.store = s /\ q.res = "err"
    BY <1>3, <1>4, <1>6 DEF Ended
  <2> QED BY <1>0, <2>1, Zenon DEF Grown
<1>7. CASE c = None /\ k = None
  <2>1. q.store = s /\ q.res = "full"
    BY <1>4, <1>7 DEF Ended
  <2> QED BY <1>0, <2>1, Zenon DEF Grown
<1>8. CASE c = None /\ k # None
  <2> DEFINE u == put_dir(s, k, NoChildren)
             t == link_child(u, d, n, k)
  <2>1. q.store = t /\ q.key = k /\ q.res = "ok"
    BY <1>4, <1>8 DEF Done
  <2>2. k \in AKey /\ Seen(s)[k] = None /\ k # ROOT
    BY <1>0, <1>8, FreshIs, Zenon
  <2>3. /\ Good(u) /\ u.structure = s.structure /\ u.buffering = s.buffering
        /\ \A j \in AKey : Seen(u)[j] = IF j = k THEN DirEntry(NoChildren) ELSE Seen(s)[j]
    BY <1>0, <2>2, ChildrenAre, PutDir
  <2>4. Seen(s)[d] # None /\ Seen(s)[d].kind = "dir" /\ d # k
    BY <2>2, Zenon DEF IsDir
  <2>5. Seen(u)[d] = Seen(s)[d]
    BY <1>0, <2>3, <2>4, Zenon
  <2> HIDE DEF k, u
  <2>6. /\ Good(t) /\ t.structure = u.structure + 1 /\ t.buffering = u.buffering
        /\ \A j \in AKey :
             Seen(t)[j] = IF j = d THEN Given(Seen(u)[d], n, k) ELSE Seen(u)[j]
    BY <1>0, <2>2, <2>3, <2>4, <2>5, LinkChild
  <2> HIDE DEF t
  <2>7. DirEntry(NoChildren) # None /\ DirEntry(NoChildren).kind = "dir"
        /\ DirEntry(NoChildren).children = NoChildren
    BY ChildrenAre, Entries, Zenon
  <2>8. Seen(t) \in Table /\ Seen(t)[k] = DirEntry(NoChildren)
    BY <2>2, <2>3, <2>4, <2>6, Views, Zenon
  <2>9. \A m \in Name : Links(Seen(t))[k][m] = None
    BY <2>2, <2>7, <2>8, LinksAre, ChildrenAre
  <2>10. Branch(Links(Seen(t)), {k}, k)
    BY <2>2, <2>9, BranchLeaf, Zenon
  <2>11. Cut(L, d, n) = {}
    BY <1>8, Zenon DEF Cut
  <2>12. {k} \cap (Live(Seen(s)) \ {}) = {}
    BY <2>2, Zenon DEF Live
  <2>13. Seen(t)[d] = Given(Seen(s)[d], n, k)
    BY <1>0, <2>5, <2>6, Zenon
  <2>14. \A j \in AKey : j \notin {k} /\ j # d => Seen(t)[j] = IF j \in {} THEN None ELSE Seen(s)[j]
    BY <2>3, <2>6, ZenonT(40)
  <2>15. Sound(t)
    BY <2>6, <2>7, <2>8, <2>10, <2>11, <2>12, <2>13, <2>14, Hung
  <2>16. IsDir(t, k)
    BY <2>2, <2>7, <2>8, ZenonT(40) DEF IsDir
  <2>17. /\ Seen(t)[d] # None /\ Seen(t)[d].kind = "dir"
         /\ \A m \in Name : Links(Seen(t))[d][m] = IF m = n THEN k ELSE L[d][m]
    BY <1>0, <2>2, <2>4, <2>8, <2>13, Relinked
  <2>20. ASSUME NEW j \in AKey, NEW m \in Name, L[j][m] # None PROVE Links(Seen(t))[j][m] = L[j][m]
    <3>1. CASE j = d
      BY <1>8, <2>17, <2>20, <3>1, Zenon
    <3>2. CASE j # d
      <4>1. j # k
        BY <1>0, <2>2, <2>20, LinksAre, Zenon
      <4>2. Seen(t)[j] = Seen(s)[j]
        BY <2>14, <3>2, <4>1, Zenon
      <4> QED BY <1>0, <2>8, <4>2, LinksOf, Zenon
    <3> QED BY <3>1, <3>2, Zenon
  <2>21. ASSUME NEW j \in AKey, Seen(s)[j] # None
         PROVE  /\ Seen(t)[j] # None /\ Seen(t)[j].kind = Seen(s)[j].kind
                /\ SameFile(Seen(s)[j], Seen(t)[j])
    <3>1. j # k
      BY <2>2, <2>21, Zenon
    <3>2. CASE j = d
      BY <2>4, <2>17, <3>2, Zenon DEF SameFile
    <3>3. CASE j # d
      BY <2>14, <2>21, <3>1, <3>3, Zenon DEF SameFile
    <3> QED BY <3>2, <3>3, Zenon
  <2>22. s.structure <= t.structure /\ t.structure # s.structure /\ t.buffering = s.buffering
    BY <1>0, <2>3, <2>6
  <2>23. Grew(s, t)
    BY <2>20, <2>21, <2>22, Zenon DEF Grew, Since
  <2>24. ASSUME NEW j \in AKey, NEW m \in Name, j # k, ~ (j = d /\ m = n)
         PROVE  Links(Seen(t))[j][m] = L[j][m]
    <3>1. CASE j = d
      BY <2>17, <2>24, <3>1, Zenon
    <3>2. CASE j # d
      BY <1>0, <2>8, <2>14, <2>24, <3>2, LinksOf, Zenon
    <3> QED BY <3>1, <3>2, Zenon
  <2>25. Grown(L, Links(Seen(t)), Live(Seen(s)), d, n, k)
    BY <2>2, <2>9, <2>17, <2>24, Zenon DEF Grown, Live
  <2> QED BY <2>1, <2>15, <2>16, <2>17, <2>23, <2>25, Zenon
<1> QED BY <1>5, <1>6, <1>7, <1>8, Zenon

\* One more relink is a later table.
LEMMA Relink ==
  ASSUME NEW s, s.structure \in Nat, NEW t, t.structure = s.structure + 1, t.buffering = s.buffering
  PROVE  After(s, t)
BY DEF After

\* What a mutation leaves: a tree, and every relink counted.
Kept(s, t) == Sound(t) /\ Since(s, t)

\* A mutation may follow on others that only added.
LEMMA KeptOn ==
  ASSUME NEW s, Sound(s), NEW t, Sound(t), NEW u
  PROVE  /\ Kept(s, s)
         /\ Grew(s, t) => Kept(s, t)
         /\ Grew(s, t) /\ Sound(u) /\ After(t, u) => Kept(s, u)
         /\ Grew(s, t) /\ Kept(t, u) => Kept(s, u)
<1>1. Good(s) /\ Good(t) /\ s.structure \in Nat /\ t.structure \in Nat
  BY StoreFields, Zenon DEF Sound, Good
<1>2. Kept(s, s) /\ (Grew(s, t) => Kept(s, t))
  BY <1>1, GrewOn, Zenon DEF Kept, Grew
<1>3. Sound(u) => u.structure \in Nat
  BY StoreFields, Zenon DEF Sound, Good
<1>4. ASSUME Grew(s, t), Sound(u), After(t, u) PROVE Kept(s, u)
  <2>1. s.structure <= t.structure /\ (t.buffering => s.buffering)
    BY <1>4, Zenon DEF Grew, Since
  <2>2. s.structure <= u.structure /\ u.structure # s.structure /\ (u.buffering => s.buffering)
    BY <1>1, <1>3, <1>4, <2>1 DEF After
  <2> QED BY <1>4, <2>2, Zenon DEF Kept, Since
<1>5. ASSUME Grew(s, t), Kept(t, u) PROVE Kept(s, u)
  <2>1. Since(s, t) /\ Since(t, u) /\ Sound(u)
    BY <1>5, Zenon DEF Grew, Kept
  <2>2. s.structure <= u.structure /\ (u.structure = s.structure => t.structure = s.structure)
    BY <1>1, <1>3, <2>1 DEF Since
  <2>3. u.structure = s.structure => u.structure = t.structure
    BY <2>2, Zenon
  <2> QED BY <2>1, <2>2, <2>3, Zenon DEF Kept, Since
<1> QED BY <1>2, <1>4, <1>5, Zenon

\* What one name leads to is deleted, and the link left for the moment.
LEMMA FreeName ==
  ASSUME NEW s, Good(s), NEW d \in AKey, NEW n \in Name, NEW c, c = Links(Seen(s))[d][n],
         NEW t, t = IF c = None THEN s ELSE cascade_delete(s, c)
  PROVE  /\ Good(t) /\ t.structure = s.structure /\ t.buffering = s.buffering
         /\ \A j \in AKey : Seen(t)[j] = IF j \in Cut(Links(Seen(s)), d, n) THEN None ELSE Seen(s)[j]
<1>1. CASE c = None
  <2>1. Cut(Links(Seen(s)), d, n) = {} /\ t = s
    BY <1>1, Zenon DEF Cut
  <2> QED BY <2>1, Zenon
<1>2. CASE c # None
  <2>1. Links(Seen(s)) \in [AKey -> Children]
    BY Views, Zenon
  <2>2. c \in AKey
    BY <1>2, <2>1, Zenon DEF Children
  <2>3. Cut(Links(Seen(s)), d, n) = Subtree(s, c)
    BY <1>2, <2>2, SubtreeIsUnder, Zenon DEF Cut
  <2>4. t = remove_entries(s, Subtree(s, c))
    BY <1>2, Zenon DEF cascade_delete
  <2> QED BY <2>3, <2>4, RemoveEntries
<1> QED BY <1>1, <1>2, Zenon

\* Nothing is buffered as a directory of what is seen as a file.
LEMMA FileIs ==
  ASSUME NEW s, Good(s), NEW k \in AKey, Seen(s)[k] # None, ~ IsDir(s, k)
  PROVE  s.dirs[k] = None /\ Seen(s)[k].kind = "file"
<1>1. s \in Store /\ Buffered(s) /\ Seen(s)[k] \in Entry
  BY Reads, Zenon DEF Good
<1>2. Seen(s)[k].kind = "file"
  BY <1>1, Entries, Zenon DEF IsDir
<1>3. Seen(s)[k] = IF s.files[k] # None THEN s.files[k]
                   ELSE IF s.dirs[k] # None THEN DirEntry(s.dirs[k]) ELSE s.data[k]
  BY <1>1, SeenIs, Zenon
<1>4. s.dirs[k] # None => s.files[k] = None /\ DirEntry(s.dirs[k]).kind = "dir"
  BY <1>1, StoreFields, Entries, ZenonT(40) DEF Buffered, BufferedAt
<1> QED BY <1>2, <1>3, <1>4, Zenon

\* What hangs from one name is removed with the link.
LEMMA RemoveName ==
  ASSUME NEW s, Sound(s), NEW d \in AKey, NEW n \in Name, NEW c, c = Links(Seen(s))[d][n], c # None,
         NEW u, u = cascade_delete(s, c), NEW t, t = unlink_child(u, d, n)
  PROVE  /\ Sound(t) /\ After(s, t)
         /\ Beside(Seen(s), Seen(t), Cut(Links(Seen(s)), d, n), d, n, d, n)
<1> DEFINE L == Links(Seen(s))
           M == Links(Seen(t))
           U == Cut(L, d, n)
<1>1. Good(s) /\ Seen(s) \in Table /\ L \in [AKey -> Children] /\ Tree(L, Live(Seen(s)))
  BY Views, Zenon DEF Sound, IsTree
<1>2. Seen(s)[d] # None /\ Seen(s)[d].kind = "dir"
  BY <1>1, LinksAre, Zenon
<1>3. /\ Good(u) /\ u.structure = s.structure /\ u.buffering = s.buffering
      /\ \A j \in AKey : Seen(u)[j] = IF j \in U THEN None ELSE Seen(s)[j]
  BY <1>1, FreeName
<1>4. d \notin U
  BY <1>1, CutLinks, CutOff, Zenon
<1>5. Seen(u)[d] = Seen(s)[d]
  BY <1>3, <1>4, Zenon
<1>6. /\ Good(t) /\ t.structure = u.structure + 1 /\ t.buffering = u.buffering
      /\ \A j \in AKey : Seen(t)[j] = IF j = d THEN Given(Seen(u)[d], n, None) ELSE Seen(u)[j]
  BY <1>2, <1>3, <1>5, UnlinkChild
<1> HIDE DEF U
<1>7. Seen(t) \in Table /\ M \in [AKey -> Children]
  BY <1>6, Views, Zenon
<1>8. Seen(t)[d] = Given(Seen(s)[d], n, None)
  BY <1>5, <1>6, Zenon
<1>9. /\ Seen(t)[d] # None /\ Seen(t)[d].kind = "dir"
      /\ \A m \in Name : M[d][m] = IF m = n THEN None ELSE L[d][m]
  BY <1>1, <1>2, <1>7, <1>8, Unlinked
<1>10. \A j \in AKey : j # d => Seen(t)[j] = IF j \in U THEN None ELSE Seen(s)[j]
  BY <1>3, <1>6, Zenon
<1>11. \A j \in AKey, m \in Name : j # d => M[j][m] = IF j \in U THEN None ELSE L[j][m]
  BY <1>1, <1>7, <1>10, LinksOf
<1>12. Freed(M, L, d, n)
  BY <1>4, <1>9, <1>11, Zenon DEF Freed, U
<1>13. Tree(M, Live(Seen(s)) \ U)
  BY <1>1, <1>7, <1>12, CutOff, Zenon DEF U
<1>14. Live(Seen(t)) = Live(Seen(s)) \ U
  BY <1>2, <1>4, <1>9, <1>10, Zenon DEF Live
<1>15. Seen(s)[ROOT] # None => Seen(s)[ROOT].kind = "dir"
  BY Zenon DEF Sound, IsTree
<1>16. Seen(t)[ROOT] # None => Seen(t)[ROOT].kind = "dir"
  BY <1>9, <1>10, <1>15, RootAssumption, Zenon
<1>17. Sound(t)
  BY <1>6, <1>13, <1>14, <1>16, Zenon DEF Sound, IsTree
<1>18. s.structure \in Nat
  BY <1>1, StoreFields, Zenon DEF Good
<1>19. After(s, t)
  BY <1>3, <1>6, <1>18 DEF After
<1>20. ASSUME NEW j \in AKey, Seen(s)[j] # None, j \notin U
       PROVE  /\ SameFile(Seen(s)[j], Seen(t)[j])
              /\ \A m \in Name : (j = d /\ m = n) \/ M[j][m] = L[j][m]
  <2>1. CASE j = d
    BY <1>2, <1>9, <2>1, Zenon DEF SameFile
  <2>2. CASE j # d
    BY <1>10, <1>11, <1>20, <2>2, Zenon DEF SameFile
  <2> QED BY <2>1, <2>2, Zenon
<1>21. Beside(Seen(s), Seen(t), U, d, n, d, n)
  BY <1>20, Zenon DEF Beside
<1> QED BY <1>17, <1>19, <1>21, Zenon DEF U

\* What hangs from one name is moved to another, whose own is gone, outside of it.
LEMMA MoveName ==
  ASSUME NEW g, Sound(g), NEW d, IsDir(g, d), NEW n \in Name, NEW U, U = Cut(Links(Seen(g)), d, n),
         NEW i \in AKey, NEW l \in Name, NEW k, k = Links(Seen(g))[i][l], k # None,
         i \notin U, k \notin U, ~ (i = d /\ l = n), d \notin Under(Links(Seen(g)), k),
         NEW u, Good(u), u.structure = g.structure, u.buffering = g.buffering,
         \A j \in AKey : Seen(u)[j] = IF j \in U THEN None ELSE Seen(g)[j],
         NEW w, w = link_child(u, d, n, k), NEW t, t = unlink_child(w, i, l)
  PROVE  Sound(t) /\ After(g, t) /\ Beside(Seen(g), Seen(t), U, d, n, i, l)
<1> DEFINE L == Links(Seen(g))
           W == Links(Seen(w))
           M == Links(Seen(t))
<1>1. /\ Good(g) /\ Seen(g) \in Table /\ L \in [AKey -> Children] /\ Tree(L, Live(Seen(g)))
      /\ d \in AKey /\ Seen(g)[d] # None /\ Seen(g)[d].kind = "dir" /\ d \in Live(Seen(g))
  BY Views, Zenon DEF Sound, IsTree, IsDir, Live
<1>2. k \in AKey /\ Seen(g)[i] # None /\ Seen(g)[i].kind = "dir"
  BY <1>1, LinksAre DEF Children
<1>3. d \notin U
  BY <1>1, CutLinks, CutOff, Zenon
<1>4. Seen(u)[d] = Seen(g)[d]
  BY <1>1, <1>3, Zenon
<1>5. /\ Good(w) /\ w.structure = u.structure + 1 /\ w.buffering = u.buffering
      /\ \A j \in AKey : Seen(w)[j] = IF j = d THEN Given(Seen(u)[d], n, k) ELSE Seen(u)[j]
  BY <1>1, <1>2, <1>4, LinkChild
<1>6. Seen(w) \in Table /\ Seen(w)[d] = Given(Seen(g)[d], n, k)
  BY <1>1, <1>4, <1>5, Views, Zenon
<1>7. /\ Seen(w)[d] # None /\ Seen(w)[d].kind = "dir"
      /\ \A m \in Name : W[d][m] = IF m = n THEN k ELSE L[d][m]
  BY <1>1, <1>2, <1>6, Relinked
<1>8. \A j \in AKey : j # d => Seen(w)[j] = IF j \in U THEN None ELSE Seen(g)[j]
  BY <1>5, Zenon
<1>9. \A j \in AKey, m \in Name : j # d => W[j][m] = IF j \in U THEN None ELSE L[j][m]
  BY <1>1, <1>6, <1>8, LinksOf
<1>10. Seen(w)[i] # None /\ Seen(w)[i].kind = "dir"
  BY <1>2, <1>7, <1>8, ZenonT(40)
<1>11. /\ Good(t) /\ t.structure = w.structure + 1 /\ t.buffering = w.buffering
       /\ \A j \in AKey : Seen(t)[j] = IF j = i THEN Given(Seen(w)[i], l, None) ELSE Seen(w)[j]
  BY <1>5, <1>10, UnlinkChild
<1>12. Seen(t) \in Table /\ M \in [AKey -> Children] /\ Seen(t)[i] = Given(Seen(w)[i], l, None)
  BY <1>11, Views, ZenonT(40)
<1>13. /\ Seen(t)[i] # None /\ Seen(t)[i].kind = "dir"
       /\ \A m \in Name : M[i][m] = IF m = l THEN None ELSE W[i][m]
  BY <1>6, <1>10, <1>12, Unlinked
<1>14. \A j \in AKey, m \in Name : j # i => M[j][m] = W[j][m]
  BY <1>6, <1>11, <1>12, LinksOf
<1>15. \A j \in AKey, m \in Name :
         M[j][m] = IF j \in U \/ (j = i /\ m = l) THEN None ELSE IF j = d /\ m = n THEN k ELSE L[j][m]
  <2> HIDE DEF L, M, W
  <2> QED BY <1>3, <1>7, <1>9, <1>13, <1>14
<1>16. Tree(M, Live(Seen(g)) \ U)
  <2> DEFINE D == Live(Seen(g))
  <2>1. k = L[i][l] /\ U = Cut(L, d, n) /\ d \notin Under(L, k)
    BY ZenonT(40)
  <2> HIDE DEF L, M, W, D
  <2>2. Tree(M, D \ U)
    BY <1>1, <1>12, <1>15, <2>1, Regraft, SMTT(40) DEF D
  <2> QED BY <2>2, Zenon DEF D
<1>17. \A j \in AKey : Seen(t)[j] # None <=> Seen(g)[j] # None /\ j \notin U
  <2> TAKE j \in AKey
  <2>1. Seen(w)[j] # None <=> Seen(g)[j] # None /\ j \notin U
    <3>1. CASE j = d
      BY <1>1, <1>3, <1>7, <3>1, Zenon
    <3>2. CASE j # d
      BY <1>8, <3>2, Zenon
    <3> QED BY <3>1, <3>2, Zenon
  <2>2. CASE j = i
    BY <1>2, <1>13, <2>2, Zenon
  <2>3. CASE j # i
    <3>1. Seen(t)[j] = Seen(w)[j]
      BY <1>11, <2>3, Zenon
    <3> QED BY <2>1, <3>1, Zenon
  <2> QED BY <2>2, <2>3, Zenon
<1>18. Live(Seen(t)) = Live(Seen(g)) \ U
  BY <1>17, Zenon DEF Live
<1>19. Seen(g)[ROOT] # None => Seen(g)[ROOT].kind = "dir"
  BY ZenonT(40) DEF Sound, IsTree
<1>20. Seen(t)[ROOT] # None => Seen(t)[ROOT].kind = "dir"
  <2>1. CASE ROOT = i
    BY <1>13, <2>1, Zenon
  <2>2. CASE ROOT # i
    <3>1. Seen(t)[ROOT] = Seen(w)[ROOT]
      BY <1>11, <2>2, RootAssumption, Zenon
    <3>2. CASE ROOT = d
      BY <1>7, <3>1, <3>2, Zenon
    <3>3. CASE ROOT # d
      <4>1. Seen(w)[ROOT] = None \/ Seen(w)[ROOT] = Seen(g)[ROOT]
        BY <1>8, <3>3, RootAssumption, Zenon
      <4> QED BY <1>19, <3>1, <4>1, Zenon
    <3> QED BY <3>2, <3>3, Zenon
  <2> QED BY <2>1, <2>2, Zenon
<1>21. Sound(t)
  BY <1>11, <1>16, <1>18, <1>20, Zenon DEF Sound, IsTree
<1>22. g.structure \in Nat
  BY <1>1, StoreFields, Zenon DEF Good
<1>23. After(g, t)
  BY <1>5, <1>11, <1>22 DEF After
<1>24. ASSUME NEW j \in AKey, Seen(g)[j] # None, j \notin U
       PROVE  /\ SameFile(Seen(g)[j], Seen(t)[j])
              /\ \A m \in Name : (j = d /\ m = n) \/ (j = i /\ m = l) \/ M[j][m] = L[j][m]
  <2>1. SameFile(Seen(g)[j], Seen(w)[j])
    <3>1. CASE j = d
      BY <1>1, <1>7, <3>1, Zenon DEF SameFile
    <3>2. CASE j # d
      BY <1>8, <1>24, <3>2, Zenon DEF SameFile
    <3> QED BY <3>1, <3>2, Zenon
  <2>2. SameFile(Seen(g)[j], Seen(t)[j])
    <3>1. CASE j = i
      BY <1>2, <1>13, <3>1, Zenon DEF SameFile
    <3>2. CASE j # i
      <4>1. Seen(t)[j] = Seen(w)[j]
        BY <1>11, <3>2, Zenon
      <4> QED BY <2>1, <4>1, Zenon
    <3> QED BY <3>1, <3>2, Zenon
  <2> QED BY <1>15, <1>24, <2>2, Zenon
<1>25. Beside(Seen(g), Seen(t), U, d, n, i, l)
  BY <1>24, Zenon DEF Beside
<1> QED BY <1>21, <1>23, <1>25, Zenon

=============================================================================
