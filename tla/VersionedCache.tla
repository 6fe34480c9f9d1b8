---------------------------- MODULE VersionedCache ----------------------------
(***************************************************************************)
(* The version protocol of an open database: read transactions that        *)
(* capture a snapshot together with the database generation, transactions  *)
(* that commit to the storage engine, and the per-table caches that every  *)
(* read transaction shares.                                                *)
(*                                                                         *)
(* The engine (redb) is external: one write transaction at a time, a       *)
(* commit replaces the committed state atomically, a read transaction      *)
(* keeps the state it began with.  A write transaction is seen here only   *)
(* through the table content it leaves behind, taken from Contents; what   *)
(* the operations do to a tree is the subject of module ArborTree.         *)
(***************************************************************************)
EXTENDS Naturals, FiniteSets, Sequences

CONSTANTS
  Reader,      \* threads that open read transactions, one at a time each
  Writer,      \* threads that open engine write transactions
  AKey, ROOT,  \* a-node keys, and the key of the root directory
  Name,        \* directory entry names
  Value,       \* file contents
  Inode,       \* raw $inodes blobs
  Path,        \* the access paths that are read: sequences of names
  Contents,    \* the table contents that write transactions produce
  Kind,        \* the kinds of engine write transaction that run
  None,        \* Rust's None
  PathCap, BlobCap, InodeCap,  \* cache capacities
  MaxGen       \* bound: no write begins once the generation reaches it

Entry == [kind : {"file"}, value : Value]
           \cup [kind : {"dir"}, children : [Name -> AKey \cup {None}]]

Content == [data : [AKey -> Entry \cup {None}], inodes : [AKey -> Inode \cup {None}]]

\* What each kind of engine write transaction runs for.
Kinds == {"write",   \* WriteTxn::commit
          "reap",    \* ArborDb::remove_user
          "access",  \* ArborDb::flush_access_times
          "ddl",     \* indexes, users, groups: $metadata and $index only
          "acl"}     \* remove_group, promote_to_master: rewrite $inodes

ASSUME KeyAssumption == ROOT \in AKey /\ None \notin AKey /\ None \notin Writer
ASSUME EntryAssumption == None \notin Entry /\ None \notin Inode
ASSUME PathAssumption == Path \subseteq Seq(Name)
ASSUME ContentsAssumption == Contents \subseteq Content /\ Contents # {}
ASSUME KindAssumption == Kind \subseteq Kinds
ASSUME BoundAssumption == MaxGen \in Nat

VARIABLES
  db,       \* the committed content of the table
  durable,  \* the content a crash falls back to
  gen,      \* DbInner.generation
  vread,    \* readers holding the version lock shared
  vholder,  \* the writer holding it exclusively, or None
  mutex,    \* the writer owning the engine's write transaction, or None
  work,     \* the content of that transaction, or None
  wpc,      \* where each writer is
  wkind,    \* the kind of transaction each writer runs, or None
  rpc,      \* where each reader is
  snap,     \* the snapshot of its read transaction, or None
  rgen,     \* the generation of its read transaction
  req,      \* the path it is reading
  idx, at,  \* names walked so far and the a-node reached (None: not found)
  got,      \* the entry it was handed for `at'
  paths, blobs, inodes  \* the shared caches

engine  == <<db, durable, mutex, work>>
version == <<gen, vread, vholder>>
writers == <<wpc, wkind>>
walking == <<req, idx, at, got>>
readers == <<rpc, snap, rgen>>
caches  == <<paths, blobs, inodes>>
vars == <<engine, version, writers, walking, readers, caches>>

-----------------------------------------------------------------------------
(* The caches.  LRU order is abstracted: a full cache drops any one entry. *)

EmptyCache == [x \in {} |-> None]

With(c, k, v) == [x \in DOMAIN c \cup {k} |-> IF x = k THEN v ELSE c[x]]
Without(c, k) == [x \in DOMAIN c \ {k} |-> c[x]]

\* The caches LruCache::put(k, v) may leave behind.
LruPut(c, cap, k, v) ==
  IF k \in DOMAIN c \/ Cardinality(DOMAIN c) < cap
    THEN {With(c, k, v)}
    ELSE {With(Without(c, e), k, v) : e \in DOMAIN c}

\* Mutant: get_path trusts an entry of any generation.
PathHitAnyGeneration(g, p) == p \in DOMAIN paths

\* PathCache::get_path: an entry of another generation reads as a miss.
PathHit(g, p) == p \in DOMAIN paths /\ paths[p].gen = g
BlobHit(g, k) == <<g, k>> \in DOMAIN blobs
InodeHit(g, k) == <<g, k>> \in DOMAIN inodes

\* Mutant: a blob is cached under the generation of the moment.
put_blob_current(g, k, e) == blobs' \in LruPut(blobs, BlobCap, <<gen, k>>, e)

put_path(g, p, k) == paths' \in LruPut(paths, PathCap, p, [gen |-> g, key |-> k])
put_blob(g, k, e) == blobs' \in LruPut(blobs, BlobCap, <<g, k>>, e)
put_inode(g, k, i) == inodes' \in LruPut(inodes, InodeCap, <<g, k>>, i)

\* The child of an entry: none under a file or an absent name.
child_of(e, n) == IF e.kind = "dir" THEN e.children[n] ELSE None

-----------------------------------------------------------------------------
(* Opening a database: everything but the engine's content starts anew. *)

Each(S, x) == [s \in S |-> x]

Init ==
  /\ db \in Contents /\ durable = db /\ mutex = None /\ work = None
  /\ gen = 0 /\ vread = {} /\ vholder = None
  /\ wpc = Each(Writer, "idle") /\ wkind = Each(Writer, None)
  /\ rpc = Each(Reader, "idle") /\ snap = Each(Reader, None) /\ rgen = Each(Reader, 0)
  /\ req = Each(Reader, <<>>) /\ idx = Each(Reader, 0)
  /\ at = Each(Reader, ROOT) /\ got = Each(Reader, None)
  /\ paths = EmptyCache /\ blobs = EmptyCache /\ inodes = EmptyCache

\* A crash, then ArborDb::open: generation 0 again, over empty caches.
Crash ==
  /\ db' = durable /\ UNCHANGED durable /\ mutex' = None /\ work' = None
  /\ gen' = 0 /\ vread' = {} /\ vholder' = None
  /\ wpc' = Each(Writer, "idle") /\ wkind' = Each(Writer, None)
  /\ rpc' = Each(Reader, "idle") /\ snap' = Each(Reader, None) /\ rgen' = Each(Reader, 0)
  /\ req' = Each(Reader, <<>>) /\ idx' = Each(Reader, 0)
  /\ at' = Each(Reader, ROOT) /\ got' = Each(Reader, None)
  /\ paths' = EmptyCache /\ blobs' = EmptyCache /\ inodes' = EmptyCache

-----------------------------------------------------------------------------
(* Writers. *)

\* Mutant: flush_access_times commits without the version lock and the bump.
LockedButAccess(k) == k \in {"write", "reap"}

\* Kinds whose commit is paired with a generation bump under the version lock.
Locked(k) == k \in {"write", "reap", "access"}

BeginWrite(w) ==
  /\ wpc[w] = "idle" /\ mutex = None /\ gen < MaxGen
  /\ \E k \in Kind : wkind' = [wkind EXCEPT ![w] = k]
  /\ mutex' = w /\ work' = db
  /\ wpc' = [wpc EXCEPT ![w] = "working"]
  /\ UNCHANGED <<db, durable, version, walking, readers, caches>>

\* Mutant: a back-fill may rewrite the data it reads.
EffectAny(k) == Contents

\* What the operations of one transaction may have done to the content.
Effect(k) ==
  CASE k \in {"write", "reap"} -> Contents
    [] k \in {"access", "acl"} -> {c \in Contents : c.data = work.data}
    [] k = "ddl" -> {work}

Work(w) ==
  /\ wpc[w] = "working"
  /\ work' \in Effect(wkind[w])
  /\ UNCHANGED <<db, durable, mutex, version, writers, walking, readers, caches>>

Idle(w) == wpc' = [wpc EXCEPT ![w] = "idle"] /\ wkind' = [wkind EXCEPT ![w] = None]

\* The transaction is dropped without a commit.
Abandon(w) ==
  /\ wpc[w] = "working"
  /\ mutex' = None /\ work' = None
  /\ Idle(w)
  /\ UNCHANGED <<db, durable, version, walking, readers, caches>>

\* Mutant: the version lock does not wait for readers in Table::read.
LockVersionEarly(w) ==
  /\ wpc[w] = "working" /\ Locked(wkind[w]) /\ vholder = None
  /\ vholder' = w
  /\ wpc' = [wpc EXCEPT ![w] = "locked"]
  /\ UNCHANGED <<engine, gen, vread, wkind, walking, readers, caches>>

LockVersion(w) ==
  /\ wpc[w] = "working" /\ Locked(wkind[w])
  /\ vholder = None /\ vread = {}
  /\ vholder' = w
  /\ wpc' = [wpc EXCEPT ![w] = "locked"]
  /\ UNCHANGED <<engine, gen, vread, wkind, walking, readers, caches>>

\* Only a WriteTxn may relax its durability; every other commit is immediate.
Flushed(w) == wkind[w] = "write" \/ durable' = work

EngineCommit(w) ==
  /\ db' = work /\ mutex' = None /\ work' = None
  /\ durable' \in {durable, work} /\ Flushed(w)
  /\ UNCHANGED <<version, walking, readers, caches>>

CommitLocked(w) ==
  /\ wpc[w] = "locked"
  /\ EngineCommit(w)
  /\ wpc' = [wpc EXCEPT ![w] = "bump"] /\ UNCHANGED wkind

CommitUnlocked(w) ==
  /\ wpc[w] = "working" /\ ~Locked(wkind[w])
  /\ EngineCommit(w)
  /\ Idle(w)

\* The engine refuses the commit: the guard is dropped, nothing was written.
CommitFails(w) ==
  /\ wpc[w] = "locked"
  /\ mutex' = None /\ work' = None /\ vholder' = None
  /\ Idle(w)
  /\ UNCHANGED <<db, durable, gen, vread, walking, readers, caches>>

Bump(w) ==
  /\ wpc[w] = "bump"
  /\ gen' = gen + 1 /\ vholder' = None
  /\ Idle(w)
  /\ UNCHANGED <<engine, vread, walking, readers, caches>>

-----------------------------------------------------------------------------
(* Readers: Table::read, then any number of reads, then Drop. *)

ReadLock(r) ==
  /\ rpc[r] = "idle" /\ vholder = None
  /\ vread' = vread \cup {r}
  /\ rpc' = [rpc EXCEPT ![r] = "guarded"]
  /\ UNCHANGED <<engine, gen, vholder, writers, walking, snap, rgen, caches>>

BeginRead(r) ==
  /\ rpc[r] = "guarded"
  /\ snap' = [snap EXCEPT ![r] = db]
  /\ rpc' = [rpc EXCEPT ![r] = "snapped"]
  /\ UNCHANGED <<engine, version, writers, walking, rgen, caches>>

\* The generation is loaded and the guard dropped.
Capture(r) ==
  /\ rpc[r] = "snapped"
  /\ rgen' = [rgen EXCEPT ![r] = gen] /\ vread' = vread \ {r}
  /\ rpc' = [rpc EXCEPT ![r] = "open"]
  /\ UNCHANGED <<engine, gen, vholder, writers, walking, snap, caches>>

Close(r) ==
  /\ rpc[r] = "open"
  /\ rpc' = [rpc EXCEPT ![r] = "idle"]
  /\ snap' = [snap EXCEPT ![r] = None] /\ rgen' = [rgen EXCEPT ![r] = 0]
  /\ UNCHANGED <<engine, version, writers, walking, caches>>

\* Grab::resolve: the path cache, else a walk from the root.
Resolve(r, p) ==
  /\ rpc[r] = "open"
  /\ req' = [req EXCEPT ![r] = p]
  /\ IF PathHit(rgen[r], p)
       THEN /\ at' = [at EXCEPT ![r] = paths[p].key]
            /\ idx' = [idx EXCEPT ![r] = Len(p)]
            /\ rpc' = [rpc EXCEPT ![r] = "load"]
       ELSE /\ at' = [at EXCEPT ![r] = ROOT]
            /\ idx' = [idx EXCEPT ![r] = 0]
            /\ rpc' = [rpc EXCEPT ![r] = "walk"]
  /\ UNCHANGED <<engine, version, writers, got, snap, rgen, caches>>

\* One turn of resolve_walk's loop, the directory's entry e in hand.
Descend(r, e) ==
  LET c == child_of(e, req[r][idx[r] + 1]) IN
  /\ at' = [at EXCEPT ![r] = c]
  /\ idx' = [idx EXCEPT ![r] = @ + 1]
  /\ rpc' = [rpc EXCEPT ![r] = IF c = None THEN "done" ELSE "walk"]
  /\ UNCHANGED <<req, got>>

\* The read ends with entry e (None: the a-node is absent).
Hand(r, e) ==
  /\ got' = [got EXCEPT ![r] = e]
  /\ rpc' = [rpc EXCEPT ![r] = "done"]
  /\ UNCHANGED <<req, idx, at>>

WalkHit(r) ==
  /\ rpc[r] = "walk" /\ idx[r] < Len(req[r]) /\ BlobHit(rgen[r], at[r])
  /\ Descend(r, blobs[<<rgen[r], at[r]>>])
  /\ UNCHANGED <<engine, version, writers, snap, rgen, caches>>

WalkMiss(r) ==
  /\ rpc[r] = "walk" /\ idx[r] < Len(req[r]) /\ ~BlobHit(rgen[r], at[r])
  /\ rpc' = [rpc EXCEPT ![r] = "walkmiss"]
  /\ UNCHANGED <<engine, version, writers, walking, snap, rgen, caches>>

\* Mutant: after a miss the walk only fills the cache and tries again.
WalkFetchRetry(r) ==
  /\ rpc[r] = "walkmiss"
  /\ put_blob(rgen[r], at[r], snap[r].data[at[r]])
  /\ rpc' = [rpc EXCEPT ![r] = "walk"]
  /\ UNCHANGED <<engine, version, writers, walking, snap, rgen, paths, inodes>>

\* The entry comes from the snapshot and is cached under the generation.
WalkFetch(r) ==
  LET e == snap[r].data[at[r]] IN
  /\ rpc[r] = "walkmiss"
  /\ IF e = None
       THEN /\ at' = [at EXCEPT ![r] = None]
            /\ rpc' = [rpc EXCEPT ![r] = "done"]
            /\ UNCHANGED <<req, idx, got, blobs>>
       ELSE Descend(r, e) /\ put_blob(rgen[r], at[r], e)
  /\ UNCHANGED <<engine, version, writers, snap, rgen, paths, inodes>>

Resolved(r) ==
  /\ rpc[r] = "walk" /\ idx[r] = Len(req[r])
  /\ put_path(rgen[r], req[r], at[r])
  /\ rpc' = [rpc EXCEPT ![r] = "load"]
  /\ UNCHANGED <<engine, version, writers, walking, snap, rgen, blobs, inodes>>

\* entry_blob looks the cache up, and blob_at once more after a miss.
LoadHit(r) ==
  /\ rpc[r] \in {"load", "loadmiss"} /\ BlobHit(rgen[r], at[r])
  /\ Hand(r, blobs[<<rgen[r], at[r]>>])
  /\ UNCHANGED <<engine, version, writers, snap, rgen, caches>>

LoadMiss(r) ==
  /\ rpc[r] = "load" /\ ~BlobHit(rgen[r], at[r])
  /\ rpc' = [rpc EXCEPT ![r] = "loadmiss"]
  /\ UNCHANGED <<engine, version, writers, walking, snap, rgen, caches>>

LoadFetch(r) ==
  LET e == snap[r].data[at[r]] IN
  /\ rpc[r] = "loadmiss"
  /\ Hand(r, e)
  /\ IF e = None THEN UNCHANGED blobs ELSE put_blob(rgen[r], at[r], e)
  /\ UNCHANGED <<engine, version, writers, snap, rgen, paths, inodes>>

\* The result goes to the caller; the transaction stays open.
Return(r) ==
  /\ rpc[r] = "done"
  /\ rpc' = [rpc EXCEPT ![r] = "open"]
  /\ req' = [req EXCEPT ![r] = <<>>] /\ idx' = [idx EXCEPT ![r] = 0]
  /\ at' = [at EXCEPT ![r] = ROOT] /\ got' = [got EXCEPT ![r] = None]
  /\ UNCHANGED <<engine, version, writers, snap, rgen, caches>>

\* Mutant: an absent inode is cached too.
MetaAbsent(r, k) ==
  /\ rpc[r] = "open" /\ ~InodeHit(rgen[r], k)
  /\ put_inode(rgen[r], k, snap[r].inodes[k])
  /\ UNCHANGED <<engine, version, writers, walking, readers, paths, blobs>>

\* ReadTxn::meta on a miss: a present inode is cached under the generation.
Meta(r, k) ==
  /\ rpc[r] = "open" /\ ~InodeHit(rgen[r], k)
  /\ snap[r].inodes[k] # None
  /\ put_inode(rgen[r], k, snap[r].inodes[k])
  /\ UNCHANGED <<engine, version, writers, walking, readers, paths, blobs>>

-----------------------------------------------------------------------------
WriterStep(w) ==
  \/ BeginWrite(w) \/ Work(w) \/ Abandon(w) \/ LockVersion(w)
  \/ CommitLocked(w) \/ CommitUnlocked(w) \/ CommitFails(w) \/ Bump(w)

\* The steps of a read that has begun; none of them waits for anyone.
ReadStep(r) ==
  \/ WalkHit(r) \/ WalkMiss(r) \/ WalkFetch(r) \/ Resolved(r)
  \/ LoadHit(r) \/ LoadMiss(r) \/ LoadFetch(r) \/ Return(r)

ReaderStep(r) ==
  \/ ReadLock(r) \/ BeginRead(r) \/ Capture(r) \/ Close(r)
  \/ \E p \in Path : Resolve(r, p)
  \/ ReadStep(r)
  \/ \E k \in AKey : Meta(r, k)

Next ==
  \/ \E w \in Writer : WriterStep(w)
  \/ \E r \in Reader : ReaderStep(r)
  \/ Crash

\* A reader's thread is scheduled: a read it has begun goes on.
Fairness == \A r \in Reader : WF_vars(ReadStep(r))

Spec == Init /\ [][Next]_vars /\ Fairness

-----------------------------------------------------------------------------
(* Properties. *)

Opening == {"guarded", "snapped"}
Reading == {"open", "walk", "walkmiss", "load", "loadmiss", "done"}
IsOpen(r) == rpc[r] \in Reading

\* The types of the variables.
TypeOK ==
  /\ db \in Content /\ durable \in Content /\ work \in Content \cup {None}
  /\ gen \in Nat /\ vread \subseteq Reader /\ vholder \in Writer \cup {None}
  /\ mutex \in Writer \cup {None}
  /\ wpc \in [Writer -> {"idle", "working", "locked", "bump"}]
  /\ wkind \in [Writer -> Kind \cup {None}]
  /\ rpc \in [Reader -> {"idle"} \cup Opening \cup Reading]
  /\ snap \in [Reader -> Content \cup {None}] /\ rgen \in [Reader -> Nat]
  /\ req \in [Reader -> Path \cup {<<>>}] /\ idx \in [Reader -> Nat]
  /\ at \in [Reader -> AKey \cup {None}] /\ got \in [Reader -> Entry \cup {None}]
  /\ DOMAIN paths \subseteq Path /\ DOMAIN blobs \subseteq Nat \X AKey
  /\ DOMAIN inodes \subseteq Nat \X AKey
  /\ \A p \in DOMAIN paths : paths[p] \in [gen : Nat, key : AKey]
  /\ \A x \in DOMAIN blobs : blobs[x] \in Entry
  /\ \A x \in DOMAIN inodes : inodes[x] \in Inode

\* key is the a-node that walking path's first n names from the root reaches.
Reaches(data, path, n, key) ==
  \E chain \in [0..n -> AKey] :
    /\ chain[0] = ROOT /\ chain[n] = key
    /\ \A i \in 1..n : /\ data[chain[i - 1]] # None
                       /\ child_of(data[chain[i - 1]], path[i]) = chain[i]

Resolves(data, path, key) == Reaches(data, path, Len(path), key)

\* Two transactions of one generation read one version: the (snapshot,
\* generation) capture of Table::read is atomic against the (commit, bump) of
\* every commit that touches data (the promise of DbInner.version_lock).
SameGenerationSameData ==
  \A r, q \in Reader :
    IsOpen(r) /\ IsOpen(q) /\ rgen[r] = rgen[q] => snap[r].data = snap[q].data

\* Whatever the shared caches hold under a transaction's generation is what
\* that transaction's own snapshot would have answered (PathCache).
CacheCoherent ==
  \A r \in Reader : IsOpen(r) =>
    /\ \A k \in AKey :
         BlobHit(rgen[r], k) => blobs[<<rgen[r], k>>] = snap[r].data[k]
    /\ \A p \in DOMAIN paths :
         PathHit(rgen[r], p) => Resolves(snap[r].data, p, paths[p].key)

\* What a finished read hands out: the key its path resolves to in its own
\* snapshot with that key's entry, or absence when the path resolves to nothing.
HandsOwn(r) ==
  rpc[r] = "done" =>
    IF at[r] = None
      THEN \A k \in AKey : ~Resolves(snap[r].data, req[r], k)
      ELSE Resolves(snap[r].data, req[r], at[r]) /\ got[r] = snap[r].data[at[r]]

\* A read hands out its own snapshot's answer, found or absent, whichever mix
\* of cache entries and engine reads it took (Grab::resolve, entry_blob).
ReadsSeeSnapshot == \A r \in Reader : HandsOwn(r)

\* What the inode cache holds under a transaction's generation is what that
\* transaction's snapshot of $inodes holds (the premise of ReadTxn::check_tag).
InodeCacheCoherent ==
  \A r \in Reader, k \in AKey :
    IsOpen(r) /\ InodeHit(rgen[r], k) => inodes[<<rgen[r], k>>] = snap[r].inodes[k]

\* A read that has begun ends, however often other threads commit, evict
\* what it was about to use, or replace the path it walks.
ReadEnds == \A r \in Reader : rpc[r] \in {"walk", "load"} ~> rpc[r] \in {"open", "idle"}

-----------------------------------------------------------------------------
(* The inductive invariant behind the safety properties. *)

\* No commit stands between its engine commit and its generation bump.
Settled == \A w \in Writer : wpc[w] # "bump"

\* Who holds the two locks is where the program counters say.
LockInv ==
  /\ \A w \in Writer : wpc[w] \in {"locked", "bump"} <=> vholder = w
  /\ \A w \in Writer : wpc[w] \in {"working", "locked"} <=> mutex = w
  /\ \A r \in Reader : rpc[r] \in Opening <=> r \in vread
  /\ vholder # None => vread = {}

\* A transaction that will commit without the version lock left data alone.
WorkInv ==
  \A w \in Writer : mutex = w =>
    /\ work \in Content /\ wkind[w] \in Kind
    /\ ~Locked(wkind[w]) => work.data = db.data

\* A captured generation never runs ahead, and the current one means the
\* committed data except inside a commit.
SnapInv ==
  \A r \in Reader :
    /\ IsOpen(r) \/ rpc[r] = "snapped" => snap[r] \in Content
    /\ rpc[r] = "snapped" => snap[r].data = db.data
    /\ IsOpen(r) => rgen[r] <= gen
    /\ IsOpen(r) /\ Settled /\ rgen[r] = gen => snap[r].data = db.data

\* The same for what is cached under a generation, read by anyone or not.
EntryInv ==
  /\ \A x \in DOMAIN blobs :
       /\ x[1] <= gen
       /\ Settled /\ x[1] = gen => blobs[x] = db.data[x[2]]
  /\ \A p \in DOMAIN paths :
       /\ paths[p].gen <= gen
       /\ Settled /\ paths[p].gen = gen => Resolves(db.data, p, paths[p].key)

\* The walk of path's first n names ends at key and nowhere else.
LeadsTo(data, path, n, key) ==
  Reaches(data, path, n, key) /\ \A k \in AKey : Reaches(data, path, n, k) => k = key

\* A walk stands where its names lead in its own snapshot, and only there.
StandsRight(r) ==
  /\ rpc[r] \in {"walk", "walkmiss"} =>
       /\ req[r] \in Path /\ idx[r] \in 0..Len(req[r]) /\ at[r] \in AKey
       /\ LeadsTo(snap[r].data, req[r], idx[r], at[r])
       /\ rpc[r] = "walkmiss" => idx[r] < Len(req[r])
  /\ rpc[r] \in {"load", "loadmiss"} =>
       at[r] \in AKey /\ Resolves(snap[r].data, req[r], at[r])

WalkInv == \A r \in Reader : StandsRight(r)

\* The inductive invariant: the version lock ties snapshots, generations and
\* cache entries together (Table::read against the three bumping commits).
VersionInv ==
  /\ TypeOK /\ LockInv /\ WorkInv /\ SnapInv /\ EntryInv
  /\ SameGenerationSameData /\ CacheCoherent /\ WalkInv /\ ReadsSeeSnapshot
-----------------------------------------------------------------------------
(* The same argument for $inodes, where only the locked kinds rewrite it. *)

\* A transaction that will commit without the version lock left $inodes alone.
InodeWorkInv ==
  \A w \in Writer : mutex = w /\ ~Locked(wkind[w]) => work.inodes = db.inodes

\* The current generation means the committed $inodes except inside a commit,
\* for a transaction's snapshot and for what is cached.
InodeSnapInv ==
  \A r \in Reader :
    /\ rpc[r] = "snapped" => snap[r].inodes = db.inodes
    /\ IsOpen(r) /\ Settled /\ rgen[r] = gen => snap[r].inodes = db.inodes

InodeEntryInv ==
  \A x \in DOMAIN inodes :
    x[1] <= gen /\ (Settled /\ x[1] = gen => inodes[x] = db.inodes[x[2]])

\* Two transactions of one generation read one version of $inodes.
SameGenerationSameInodes ==
  \A r, q \in Reader :
    IsOpen(r) /\ IsOpen(q) /\ rgen[r] = rgen[q] => snap[r].inodes = snap[q].inodes

\* With VersionInv, the inductive invariant behind InodeCacheCoherent.
InodeInv ==
  /\ InodeWorkInv /\ InodeSnapInv /\ InodeEntryInv
  /\ SameGenerationSameInodes /\ InodeCacheCoherent
=============================================================================
