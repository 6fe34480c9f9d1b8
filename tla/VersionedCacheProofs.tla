------------------------- MODULE VersionedCacheProofs -------------------------
(***************************************************************************)
(* Cache coherence of VersionedCache for any number of readers, writers,   *)
(* keys and paths, any cache capacities and any bound on the generation.   *)
(* First the steps that open, commit and close transactions (the version   *)
(* lock, the engine's mutex and the generation), then what a read may      *)
(* leave in the shared caches, then the reads themselves.                  *)
(***************************************************************************)
EXTENDS VersionedCache, TLAPS

-----------------------------------------------------------------------------
(* The initial state, crashes and writers. *)

\* Opening a database establishes the invariant.
LEMMA InitStep == Init => VersionInv
<1> SUFFICES ASSUME Init PROVE VersionInv
  BY Zenon
<1>1. db \in Content
  BY ContentsAssumption, Zenon DEF Init
<1>2. TypeOK
  BY <1>1, KeyAssumption, Zenon DEF Init, TypeOK, Each, EmptyCache, Opening, Reading
<1>3. LockInv
  BY KeyAssumption, Zenon DEF Init, LockInv, Each, Opening
<1>4. WorkInv /\ SnapInv /\ EntryInv
  BY KeyAssumption, Zenon DEF Init, WorkInv, SnapInv, EntryInv, IsOpen, Reading, Each, EmptyCache
<1>5. SameGenerationSameData /\ CacheCoherent
  BY Zenon DEF Init, SameGenerationSameData, CacheCoherent, IsOpen, Reading, Each
<1>6. WalkInv /\ ReadsSeeSnapshot
  BY Zenon DEF Init, WalkInv, StandsRight, ReadsSeeSnapshot, HandsOwn, Each
<1> QED BY <1>2, <1>3, <1>4, <1>5, <1>6, Zenon DEF VersionInv

\* So does a crash followed by a reopening: generation 0 again is safe
\* because the caches are empty.
LEMMA CrashStep == ASSUME VersionInv, Crash PROVE VersionInv'
<1>1. db' \in Content
  BY Zenon DEF Crash, VersionInv, TypeOK
<1>2. TypeOK'
  BY <1>1, KeyAssumption, Zenon DEF Crash, TypeOK, Each, EmptyCache, Opening, Reading
<1>3. LockInv'
  BY KeyAssumption, Zenon DEF Crash, LockInv, Each, Opening
<1>4. WorkInv' /\ SnapInv' /\ EntryInv'
  BY KeyAssumption, Zenon DEF Crash, WorkInv, SnapInv, EntryInv, IsOpen, Reading, Each, EmptyCache
<1>5. SameGenerationSameData' /\ CacheCoherent'
  BY Zenon DEF Crash, SameGenerationSameData, CacheCoherent, IsOpen, Reading, Each
<1>6. WalkInv' /\ ReadsSeeSnapshot'
  BY Zenon DEF Crash, WalkInv, StandsRight, ReadsSeeSnapshot, HandsOwn, Each
<1> QED BY <1>2, <1>3, <1>4, <1>5, <1>6, Zenon DEF VersionInv

\* A writer's step leaves every reader and every cache alone.
LEMMA WriterFrame ==
  ASSUME VersionInv, UNCHANGED <<walking, readers, caches>>
  PROVE  SameGenerationSameData' /\ CacheCoherent' /\ WalkInv' /\ ReadsSeeSnapshot'
<1> USE DEF VersionInv, walking, readers, caches, IsOpen
<1>1. SameGenerationSameData'
  BY Zenon DEF SameGenerationSameData
<1>2. CacheCoherent'
  BY Zenon DEF CacheCoherent, BlobHit, PathHit
<1>3. WalkInv'
  BY Zenon DEF WalkInv, StandsRight
<1>4. ReadsSeeSnapshot'
  BY Zenon DEF ReadsSeeSnapshot, HandsOwn
<1> QED BY <1>1, <1>2, <1>3, <1>4, Zenon

\* Beginning a write transaction keeps the invariant.
LEMMA BeginWriteStep ==
  ASSUME VersionInv, NEW w \in Writer, BeginWrite(w) PROVE VersionInv'
<1> USE DEF BeginWrite, VersionInv, engine, version, writers, walking, readers, caches
<1>1. TypeOK'
  BY KeyAssumption, ContentsAssumption, Zenon DEF TypeOK
<1>2. LockInv'
  BY KeyAssumption DEF LockInv, TypeOK
<1>3. WorkInv'
  BY KeyAssumption, Zenon DEF WorkInv, LockInv, TypeOK
<1>4. SnapInv'
  BY Zenon DEF SnapInv, LockInv, TypeOK, IsOpen, Settled
<1>5. EntryInv'
  BY Zenon DEF EntryInv, LockInv, TypeOK, Settled
<1> QED BY <1>1, <1>2, <1>3, <1>4, <1>5, WriterFrame, Zenon

\* The operations of a transaction touch only its own working content.
LEMMA WorkStep ==
  ASSUME VersionInv, NEW w \in Writer, Work(w) PROVE VersionInv'
<1> USE DEF Work, VersionInv, engine, version, writers, walking, readers, caches
<1>0. mutex = w /\ work \in Content /\ wkind[w] \in Kind
  BY Zenon DEF LockInv, WorkInv
<1>a. work' \in Content /\ (~Locked(wkind[w]) => work'.data = work.data)
  BY <1>0, ContentsAssumption, KindAssumption, Zenon DEF Effect, Locked, Kinds
<1>1. TypeOK'
  BY <1>a, Zenon DEF TypeOK
<1>2. LockInv'
  BY KeyAssumption, Zenon DEF LockInv, TypeOK
<1>3. WorkInv'
  BY <1>0, <1>a, Zenon DEF WorkInv
<1>4. SnapInv'
  BY Zenon DEF SnapInv, LockInv, TypeOK, IsOpen, Settled
<1>5. EntryInv'
  BY Zenon DEF EntryInv, LockInv, TypeOK, Settled
<1> QED BY <1>1, <1>2, <1>3, <1>4, <1>5, WriterFrame, Zenon

\* Dropping a transaction gives the engine back unchanged.
LEMMA AbandonStep ==
  ASSUME VersionInv, NEW w \in Writer, Abandon(w) PROVE VersionInv'
<1> USE DEF Abandon, VersionInv, engine, version, writers, walking, readers, caches, Idle
<1>1. TypeOK'
  BY KeyAssumption, ContentsAssumption, Zenon DEF TypeOK
<1>2. LockInv'
  BY KeyAssumption, Zenon DEF LockInv, TypeOK
<1>3. WorkInv'
  BY KeyAssumption, Zenon DEF WorkInv, LockInv, TypeOK
<1>4. SnapInv'
  BY Zenon DEF SnapInv, LockInv, TypeOK, IsOpen, Settled
<1>5. EntryInv'
  BY Zenon DEF EntryInv, LockInv, TypeOK, Settled
<1> QED BY <1>1, <1>2, <1>3, <1>4, <1>5, WriterFrame, Zenon

\* The version lock is taken only when no reader is opening.
LEMMA LockVersionStep ==
  ASSUME VersionInv, NEW w \in Writer, LockVersion(w) PROVE VersionInv'
<1> USE DEF LockVersion, VersionInv, engine, version, writers, walking, readers, caches
<1>1. TypeOK'
  BY KeyAssumption, ContentsAssumption, Zenon DEF TypeOK
<1>2. LockInv'
  BY KeyAssumption DEF LockInv, TypeOK
<1>3. WorkInv'
  BY KeyAssumption, Zenon DEF WorkInv, LockInv, TypeOK
<1>4. SnapInv'
  BY Zenon DEF SnapInv, LockInv, TypeOK, IsOpen, Settled
<1>5. EntryInv'
  BY Zenon DEF EntryInv, LockInv, TypeOK, Settled
<1> QED BY <1>1, <1>2, <1>3, <1>4, <1>5, WriterFrame, Zenon

\* A refused commit releases both locks and changes nothing.
LEMMA CommitFailsStep ==
  ASSUME VersionInv, NEW w \in Writer, CommitFails(w) PROVE VersionInv'
<1> USE DEF CommitFails, VersionInv, engine, version, writers, walking, readers, caches, Idle
<1>1. TypeOK'
  BY KeyAssumption, ContentsAssumption, Zenon DEF TypeOK
<1>2. LockInv'
  BY KeyAssumption DEF LockInv, TypeOK
<1>3. WorkInv'
  BY KeyAssumption, Zenon DEF WorkInv, LockInv, TypeOK
<1>4. SnapInv'
  BY Zenon DEF SnapInv, LockInv, TypeOK, IsOpen, Settled
<1>5. EntryInv'
  BY Zenon DEF EntryInv, LockInv, TypeOK, Settled
<1> QED BY <1>1, <1>2, <1>3, <1>4, <1>5, WriterFrame, Zenon

\* The engine commit under the version lock: no reader can be between its
\* snapshot and its generation.
LEMMA CommitLockedStep ==
  ASSUME VersionInv, NEW w \in Writer, CommitLocked(w) PROVE VersionInv'
<1> USE DEF CommitLocked, VersionInv, engine, version, writers, walking, readers, caches,
           EngineCommit
<1>0. mutex = w /\ work \in Content /\ wkind[w] \in Kind
  BY Zenon DEF LockInv, WorkInv
<1>a. ~Settled'
  BY Zenon DEF Settled, TypeOK
<1>b. \A r \in Reader : rpc[r] # "snapped"
  BY KeyAssumption, Zenon DEF LockInv, Opening
<1>1. TypeOK'
  BY <1>0, KeyAssumption, Zenon DEF TypeOK
<1>2. LockInv'
  BY KeyAssumption, Zenon DEF LockInv, TypeOK
<1>3. WorkInv'
  BY KeyAssumption, Zenon DEF WorkInv, LockInv, TypeOK
<1>4. SnapInv'
  BY <1>a, <1>b, Zenon DEF SnapInv, IsOpen
<1>5. EntryInv'
  BY <1>a, Zenon DEF EntryInv
<1> QED BY <1>1, <1>2, <1>3, <1>4, <1>5, WriterFrame, Zenon

\* A commit without the version lock leaves the data as it was.
LEMMA CommitUnlockedStep ==
  ASSUME VersionInv, NEW w \in Writer, CommitUnlocked(w) PROVE VersionInv'
<1> USE DEF CommitUnlocked, VersionInv, engine, version, writers, walking, readers, caches,
           EngineCommit, Idle
<1>0. mutex = w /\ work \in Content /\ wkind[w] \in Kind
  BY Zenon DEF LockInv, WorkInv
<1>a. db' \in Content /\ db'.data = db.data
  BY <1>0, Zenon DEF WorkInv
<1>1. TypeOK'
  BY <1>0, KeyAssumption, Zenon DEF TypeOK
<1>2. LockInv'
  BY KeyAssumption, Zenon DEF LockInv, TypeOK
<1>3. WorkInv'
  BY KeyAssumption, Zenon DEF WorkInv, LockInv, TypeOK
<1>4. SnapInv'
  BY <1>a, Zenon DEF SnapInv, LockInv, TypeOK, IsOpen, Settled
<1>5. EntryInv'
  BY <1>a, Zenon DEF EntryInv, LockInv, TypeOK, Settled
<1> QED BY <1>1, <1>2, <1>3, <1>4, <1>5, WriterFrame, Zenon

\* The bump retires every cache entry of the old generation.
LEMMA BumpStep ==
  ASSUME VersionInv, NEW w \in Writer, Bump(w) PROVE VersionInv'
<1> USE DEF Bump, VersionInv, engine, version, writers, walking, readers, caches, Idle
<1>1. TypeOK'
  <2>1. gen' \in Nat /\ vholder' \in Writer \cup {None}
    BY DEF TypeOK
  <2>2. /\ wpc' \in [Writer -> {"idle", "working", "locked", "bump"}]
        /\ wkind' \in [Writer -> Kind \cup {None}]
    BY Zenon DEF TypeOK
  <2>3. UNCHANGED <<engine, vread, walking, readers, caches>> /\ TypeOK
    BY Zenon
  <2> HIDE DEF Bump, VersionInv
  <2> QED BY <2>1, <2>2, <2>3, Zenon DEF TypeOK
<1>2. LockInv'
  <2>1. /\ wpc'[w] = "idle" /\ \A u \in Writer : u # w => wpc'[u] = wpc[u]
        /\ vholder' = None /\ wpc[w] = "bump" /\ LockInv /\ UNCHANGED <<mutex, vread, rpc>>
    BY Zenon DEF TypeOK
  <2> HIDE DEF Bump, VersionInv
  <2> QED BY <2>1, KeyAssumption, Zenon DEF LockInv
<1>3. WorkInv'
  BY KeyAssumption, Zenon DEF WorkInv, LockInv, TypeOK
<1>4. SnapInv'
  <2>1. /\ gen \in Nat /\ gen' = gen + 1 /\ \A r \in Reader : rgen[r] \in Nat
        /\ UNCHANGED <<engine, readers>> /\ SnapInv
    BY Zenon DEF TypeOK
  <2>2. \A r \in Reader : rgen[r] <= gen => rgen[r] <= gen' /\ rgen[r] # gen'
    BY <2>1
  <2> HIDE DEF Bump, VersionInv
  <2> QED BY <2>1, <2>2, Zenon DEF SnapInv, IsOpen
<1>5. EntryInv'
  <2>1. /\ gen \in Nat /\ gen' = gen + 1
        /\ DOMAIN blobs \subseteq Nat \X AKey
        /\ \A p \in DOMAIN paths : paths[p] \in [gen : Nat, key : AKey]
    BY Zenon DEF TypeOK
  <2>2. \A x \in DOMAIN blobs : x[1] \in Nat /\ x[1] <= gen
    BY <2>1, Zenon DEF EntryInv
  <2>3. \A p \in DOMAIN paths : paths[p].gen \in Nat /\ paths[p].gen <= gen
    BY <2>1, Zenon DEF EntryInv
  <2>4. \A n \in Nat : n <= gen => n <= gen' /\ n # gen'
    BY <2>1
  <2>5. UNCHANGED <<blobs, paths>>
    BY Zenon
  <2> HIDE DEF Bump, VersionInv
  <2> QED BY <2>2, <2>3, <2>4, <2>5, Zenon DEF EntryInv
<1> QED BY <1>1, <1>2, <1>3, <1>4, <1>5, WriterFrame, Zenon

-----------------------------------------------------------------------------
(* Readers. *)

\* A reader's step leaves the engine and the writers alone.
LEMMA ReaderFrame ==
  ASSUME VersionInv, UNCHANGED <<engine, writers>> PROVE WorkInv'
BY Zenon DEF VersionInv, WorkInv, engine, writers

\* A reader that is not open has no part in what is said of open ones.
LEMMA OutsideFrame ==
  ASSUME VersionInv, NEW r \in Reader, rpc'[r] \in {"idle"} \cup Opening,
         \A q \in Reader : q # r =>
           rpc'[q] = rpc[q] /\ snap'[q] = snap[q] /\ rgen'[q] = rgen[q],
         UNCHANGED <<walking, caches>>
  PROVE  SameGenerationSameData' /\ CacheCoherent' /\ WalkInv' /\ ReadsSeeSnapshot'
<1>1. /\ SameGenerationSameData /\ CacheCoherent /\ WalkInv /\ ReadsSeeSnapshot
      /\ UNCHANGED <<req, idx, at, got, paths, blobs>>
  BY Zenon DEF VersionInv, walking, caches
<1>2. \A q \in Reader : IsOpen(q)' => q # r /\ IsOpen(q)
  BY Zenon DEF IsOpen, Opening, Reading
<1>3. SameGenerationSameData'
  BY <1>1, <1>2 DEF SameGenerationSameData
<1>4. CacheCoherent'
  <2>1. ASSUME NEW q \in Reader, IsOpen(q)'
        PROVE  /\ \A k \in AKey :
                    BlobHit(rgen[q], k)' => blobs'[<<rgen'[q], k>>] = snap'[q].data[k]
               /\ \A p \in DOMAIN paths' :
                    PathHit(rgen[q], p)' => Resolves(snap'[q].data, p, paths'[p].key)
    <3>1. IsOpen(q) /\ snap'[q] = snap[q] /\ rgen'[q] = rgen[q]
      BY <1>2, <2>1, Zenon
    <3> QED BY <1>1, <3>1, Zenon DEF CacheCoherent, BlobHit, PathHit
  <2> QED BY <2>1, Zenon DEF CacheCoherent
<1>5. WalkInv'
  BY <1>1, Zenon DEF WalkInv, StandsRight, Opening
<1>6. ReadsSeeSnapshot'
  BY <1>1 DEF ReadsSeeSnapshot, HandsOwn, Opening
<1> QED BY <1>3, <1>4, <1>5, <1>6, Zenon

\* A reader takes the version lock shared.
LEMMA ReadLockStep ==
  ASSUME VersionInv, NEW r \in Reader, ReadLock(r) PROVE VersionInv'
<1> USE DEF ReadLock, VersionInv, engine, version, writers, walking, caches
<1>1. TypeOK'
  BY Zenon DEF TypeOK, Opening
<1>2. LockInv'
  <2>1. /\ rpc'[r] = "guarded" /\ \A q \in Reader : q # r => rpc'[q] = rpc[q]
        /\ vread' = vread \cup {r} /\ vholder = None /\ LockInv
        /\ UNCHANGED <<vholder, mutex, wpc>>
    BY Zenon DEF TypeOK
  <2> HIDE DEF ReadLock, VersionInv
  <2> QED BY <2>1, Zenon DEF LockInv, Opening
<1>3. SnapInv'
  BY Zenon DEF SnapInv, TypeOK, IsOpen, Reading, Settled
<1>4. EntryInv'
  BY Zenon DEF EntryInv, Settled
<1>5. /\ rpc'[r] \in {"idle"} \cup Opening
      /\ \A q \in Reader : q # r =>
           rpc'[q] = rpc[q] /\ snap'[q] = snap[q] /\ rgen'[q] = rgen[q]
  BY Zenon DEF TypeOK, Opening
<1>6. SameGenerationSameData' /\ CacheCoherent' /\ WalkInv' /\ ReadsSeeSnapshot'
  BY <1>5, OutsideFrame, Zenon
<1> QED BY <1>1, <1>2, <1>3, <1>4, <1>6, ReaderFrame, Zenon

\* The snapshot taken under the lock is the committed data.
LEMMA BeginReadStep ==
  ASSUME VersionInv, NEW r \in Reader, BeginRead(r) PROVE VersionInv'
<1> USE DEF BeginRead, VersionInv, engine, version, writers, walking, caches
<1>1. TypeOK'
  BY Zenon DEF TypeOK, Opening
<1>2. LockInv'
  BY Zenon DEF LockInv, TypeOK, Opening
<1>3. SnapInv'
  BY Zenon DEF SnapInv, TypeOK, IsOpen, Reading, Settled
<1>4. EntryInv'
  BY Zenon DEF EntryInv, Settled
<1>5. /\ rpc'[r] \in {"idle"} \cup Opening
      /\ \A q \in Reader : q # r =>
           rpc'[q] = rpc[q] /\ snap'[q] = snap[q] /\ rgen'[q] = rgen[q]
  BY Zenon DEF TypeOK, Opening
<1>6. SameGenerationSameData' /\ CacheCoherent' /\ WalkInv' /\ ReadsSeeSnapshot'
  BY <1>5, OutsideFrame, Zenon
<1> QED BY <1>1, <1>2, <1>3, <1>4, <1>6, ReaderFrame, Zenon

\* The heart of the protocol: no commit is between its two halves while a
\* reader holds the lock, so the pair it captures is a pair of one version.
LEMMA CaptureStep ==
  ASSUME VersionInv, NEW r \in Reader, Capture(r) PROVE VersionInv'
<1> USE DEF Capture, VersionInv, engine, version, writers, walking, caches
<1>0. Settled /\ snap[r] \in Content /\ snap[r].data = db.data
  BY KeyAssumption, Zenon DEF LockInv, SnapInv, Settled, Opening
<1>1. TypeOK'
  BY Zenon DEF TypeOK, Reading
<1>2. LockInv'
  BY Zenon DEF LockInv, TypeOK, Opening
<1>a. /\ gen \in Nat /\ rpc'[r] = "open" /\ rgen'[r] = gen
      /\ \A q \in Reader : q # r => rpc'[q] = rpc[q] /\ rgen'[q] = rgen[q]
      /\ UNCHANGED <<db, gen, wpc, snap>>
  BY Zenon DEF TypeOK
<1>3. SnapInv'
  <2> SUFFICES ASSUME NEW q \in Reader
      PROVE  /\ IsOpen(q)' \/ rpc'[q] = "snapped" => snap'[q] \in Content
             /\ rpc'[q] = "snapped" => snap'[q].data = db'.data
             /\ IsOpen(q)' => rgen'[q] <= gen'
             /\ IsOpen(q)' /\ Settled' /\ rgen'[q] = gen' => snap'[q].data = db'.data
    BY Zenon DEF SnapInv
  <2>1. SnapInv
    BY Zenon
  <2> HIDE DEF Capture, VersionInv
  <2>2. CASE q = r
    BY <1>0, <1>a, <2>2
  <2>3. CASE q # r
    BY <1>a, <2>1, <2>3, Zenon DEF SnapInv, IsOpen, Settled
  <2> QED BY <2>2, <2>3, Zenon
<1>4. EntryInv'
  BY Zenon DEF EntryInv, Settled
<1>5. SameGenerationSameData'
  <2>1. \A q \in Reader : q # r /\ IsOpen(q) /\ rgen[q] = gen => snap[q].data = db.data
    BY <1>0, Zenon DEF SnapInv
  <2>2. \A q \in Reader : q # r => (IsOpen(q)' <=> IsOpen(q))
    BY <1>a, Zenon DEF IsOpen
  <2>3. SameGenerationSameData
    BY Zenon
  <2> HIDE DEF Capture, VersionInv
  <2>4. ASSUME NEW q \in Reader, q # r, IsOpen(q)', rgen'[q] = rgen'[r]
        PROVE  snap'[q].data = snap'[r].data
    BY <1>0, <1>a, <2>1, <2>2, <2>4, Zenon
  <2>5. ASSUME NEW p \in Reader, NEW q \in Reader, p # r, q # r,
               IsOpen(p)', IsOpen(q)', rgen'[p] = rgen'[q]
        PROVE  snap'[p].data = snap'[q].data
    BY <1>a, <2>2, <2>3, <2>5, Zenon DEF SameGenerationSameData
  <2> QED BY <2>4, <2>5, Zenon DEF SameGenerationSameData
<1>6. CacheCoherent'
  <2> SUFFICES ASSUME NEW q \in Reader, IsOpen(q)'
      PROVE  /\ \A k \in AKey :
                  BlobHit(rgen[q], k)' => blobs'[<<rgen'[q], k>>] = snap'[q].data[k]
             /\ \A p \in DOMAIN paths' :
                  PathHit(rgen[q], p)' => Resolves(snap'[q].data, p, paths'[p].key)
    BY Zenon DEF CacheCoherent
  <2>1. CASE q = r
    BY <1>0, <2>1, Zenon DEF EntryInv, BlobHit, PathHit, TypeOK
  <2>2. CASE q # r
    BY <2>2, Zenon DEF CacheCoherent, BlobHit, PathHit, TypeOK, IsOpen
  <2> QED BY <2>1, <2>2, Zenon
<1>7. WalkInv' /\ ReadsSeeSnapshot'
  BY Zenon DEF WalkInv, StandsRight, ReadsSeeSnapshot, HandsOwn, TypeOK
<1> QED BY <1>1, <1>2, <1>3, <1>4, <1>5, <1>6, <1>7, ReaderFrame, Zenon

\* Dropping a read transaction keeps the invariant.
LEMMA CloseStep ==
  ASSUME VersionInv, NEW r \in Reader, Close(r) PROVE VersionInv'
<1> USE DEF Close, VersionInv, engine, version, writers, walking, caches
<1>1. TypeOK'
  BY Zenon DEF TypeOK
<1>2. LockInv'
  BY Zenon DEF LockInv, TypeOK, Opening
<1>3. SnapInv'
  BY Zenon DEF SnapInv, TypeOK, IsOpen, Reading, Settled
<1>4. EntryInv'
  BY Zenon DEF EntryInv, Settled
<1>5. /\ rpc'[r] \in {"idle"} \cup Opening
      /\ \A q \in Reader : q # r =>
           rpc'[q] = rpc[q] /\ snap'[q] = snap[q] /\ rgen'[q] = rgen[q]
  BY Zenon DEF TypeOK, Opening
<1>6. SameGenerationSameData' /\ CacheCoherent' /\ WalkInv' /\ ReadsSeeSnapshot'
  BY <1>5, OutsideFrame, Zenon
<1> QED BY <1>1, <1>2, <1>3, <1>4, <1>6, ReaderFrame, Zenon

-----------------------------------------------------------------------------
(* Facts about the operators. *)

\* Cache d has the entry v for k and, besides it, only entries of c.
Puts(c, d, k, v) ==
  /\ k \in DOMAIN d /\ d[k] = v
  /\ \A x \in DOMAIN d : x # k => x \in DOMAIN c /\ d[x] = c[x]

\* LruCache::put leaves the new entry and, besides it, only old ones.
LEMMA LruPutEntries ==
  ASSUME NEW c, NEW cap, NEW k, NEW v, NEW d \in LruPut(c, cap, k, v)
  PROVE  Puts(c, d, k, v)
<1>1. CASE d = With(c, k, v)
  BY <1>1, Zenon DEF With, Puts
<1>2. ASSUME NEW e \in DOMAIN c, d = With(Without(c, e), k, v)
      PROVE  Puts(c, d, k, v)
  <2> DEFINE b == Without(c, e)
  <2>1. DOMAIN b \subseteq DOMAIN c /\ \A x \in DOMAIN b : b[x] = c[x]
    BY Zenon DEF Without
  <2> HIDE DEF b
  <2>2. d = With(b, k, v)
    BY <1>2, Zenon DEF b
  <2> QED BY <2>1, <2>2, Zenon DEF With, Puts
<1>3. d = With(c, k, v) \/ \E e \in DOMAIN c : d = With(Without(c, e), k, v)
  <2>1. CASE k \in DOMAIN c \/ Cardinality(DOMAIN c) < cap
    BY <2>1, Zenon DEF LruPut
  <2>2. CASE ~(k \in DOMAIN c \/ Cardinality(DOMAIN c) < cap)
    BY <2>2, Zenon DEF LruPut
  <2> QED BY <2>1, <2>2, Zenon
<1> QED BY <1>1, <1>2, <1>3, Zenon

\* Cache c holds values V under keys K.
Holds(c, K, V) == DOMAIN c \subseteq K /\ \A x \in DOMAIN c : c[x] \in V

\* So a cache that held well-typed entries still does.
LEMMA PutTypes ==
  ASSUME NEW c, NEW d, NEW K, NEW V, NEW k \in K, NEW v \in V,
         Puts(c, d, k, v), Holds(c, K, V)
  PROVE  Holds(d, K, V)
BY Zenon DEF Puts, Holds

\* Updating a function at one point.
LEMMA UpdateType ==
  ASSUME NEW S, NEW T, NEW f \in [S -> T], NEW x, NEW v \in T
  PROVE  [f EXCEPT ![x] = v] \in [S -> T]
BY Zenon

\* The next index of a walk that is not at its end.
LEMMA NextIndex ==
  ASSUME NEW i \in Nat, NEW n \in Nat, i < n
  PROVE  i + 1 \in Nat /\ i + 1 \in 1..n /\ i + 1 \in 0..n
OBVIOUS

\* A path is made of names.
LEMMA NameAt ==
  ASSUME NEW S, NEW s \in Seq(S), NEW i \in 1..Len(s) PROVE s[i] \in S
OBVIOUS

\* And has a length.
LEMMA PathLength ==
  ASSUME NEW S, NEW s \in Seq(S) PROVE Len(s) \in Nat
OBVIOUS

\* A walk starts at the root.
LEMMA LeadsToRoot ==
  ASSUME NEW data, NEW path PROVE LeadsTo(data, path, 0, ROOT)
<1> DEFINE chain == [i \in 0..0 |-> ROOT]
<1>1. chain \in [0..0 -> AKey] /\ chain[0] = ROOT
  BY KeyAssumption
<1>2. \A i \in 1..0 : FALSE
  OBVIOUS
<1> HIDE DEF chain
<1> QED BY <1>1, <1>2, Zenon DEF LeadsTo, Reaches

\* Following one more name extends a walk.
LEMMA ReachesStep ==
  ASSUME NEW data, NEW path, NEW n \in Nat, NEW key, NEW c \in AKey,
         Reaches(data, path, n, key),
         data[key] # None, child_of(data[key], path[n + 1]) = c
  PROVE  Reaches(data, path, n + 1, c)
<1>1. PICK chain \in [0..n -> AKey] :
        /\ chain[0] = ROOT /\ chain[n] = key
        /\ \A i \in 1..n : /\ data[chain[i - 1]] # None
                           /\ child_of(data[chain[i - 1]], path[i]) = chain[i]
  BY Zenon DEF Reaches
<1> DEFINE longer == [i \in 0..(n + 1) |-> IF i = n + 1 THEN c ELSE chain[i]]
<1>2. longer \in [0..(n + 1) -> AKey]
  OBVIOUS
<1>3. longer[0] = ROOT /\ longer[n + 1] = c
  BY <1>1
<1>4. ASSUME NEW i \in 1..(n + 1)
      PROVE  /\ data[longer[i - 1]] # None
             /\ child_of(data[longer[i - 1]], path[i]) = longer[i]
  <2>1. CASE i = n + 1
    BY <1>1, <2>1
  <2>2. CASE i \in 1..n
    BY <1>1, <2>2
  <2> QED BY <2>1, <2>2
<1> HIDE DEF longer
<1> QED BY <1>2, <1>3, <1>4, Zenon DEF Reaches

\* A walk passes through the places of its shorter walks.
LEMMA ReachesThrough ==
  ASSUME NEW data, NEW path, NEW n \in Nat, NEW m \in Nat, n < m, NEW k,
         Reaches(data, path, m, k)
  PROVE  \E key \in AKey :
           /\ Reaches(data, path, n, key) /\ data[key] # None
           /\ child_of(data[key], path[n + 1]) \in AKey
           /\ m = n + 1 => child_of(data[key], path[n + 1]) = k
<1>1. PICK chain \in [0..m -> AKey] :
        /\ chain[0] = ROOT /\ chain[m] = k
        /\ \A i \in 1..m : /\ data[chain[i - 1]] # None
                           /\ child_of(data[chain[i - 1]], path[i]) = chain[i]
  BY Zenon DEF Reaches
<1> DEFINE shorter == [i \in 0..n |-> chain[i]]
<1>2. /\ shorter \in [0..n -> AKey] /\ shorter[0] = ROOT /\ shorter[n] = chain[n]
      /\ \A i \in 1..n : /\ data[shorter[i - 1]] # None
                         /\ child_of(data[shorter[i - 1]], path[i]) = shorter[i]
  <2>1. 0 \in 0..n /\ n \in 0..n /\ \A i \in 0..n : i \in 0..m
    OBVIOUS
  <2>2. \A i \in 1..n : i - 1 \in 0..n /\ i \in 0..n /\ i \in 1..m
    OBVIOUS
  <2>3. \A i \in 0..n : shorter[i] = chain[i]
    BY Zenon
  <2>4. shorter \in [0..n -> AKey]
    BY <2>1, Zenon
  <2> HIDE DEF shorter
  <2>5. \A i \in 1..n : shorter[i - 1] = chain[i - 1] /\ shorter[i] = chain[i]
    BY <2>2, <2>3, Zenon
  <2> QED BY <1>1, <2>1, <2>2, <2>3, <2>4, <2>5, Zenon
<1> HIDE DEF shorter
<1>3. Reaches(data, path, n, chain[n])
  BY <1>2, Zenon DEF Reaches
<1>4. n + 1 \in 1..m /\ (n + 1) - 1 = n /\ n \in 0..m /\ n + 1 \in 0..m
  OBVIOUS
<1>5. /\ chain[n] \in AKey /\ chain[n + 1] \in AKey /\ data[chain[n]] # None
      /\ child_of(data[chain[n]], path[n + 1]) = chain[n + 1]
  BY <1>1, <1>4, Zenon
<1> QED BY <1>1, <1>3, <1>5, Zenon

\* Following one more name keeps a walk's end the only one.
LEMMA LeadsOn ==
  ASSUME NEW data, NEW path, NEW n \in Nat, NEW key, NEW c \in AKey,
         LeadsTo(data, path, n, key),
         data[key] # None, child_of(data[key], path[n + 1]) = c
  PROVE  LeadsTo(data, path, n + 1, c)
<1>1. Reaches(data, path, n + 1, c)
  BY ReachesStep, Zenon DEF LeadsTo
<1>2. ASSUME NEW k \in AKey, Reaches(data, path, n + 1, k) PROVE k = c
  <2>1. n + 1 \in Nat /\ n < n + 1
    OBVIOUS
  <2>2. PICK j \in AKey : Reaches(data, path, n, j) /\ child_of(data[j], path[n + 1]) = k
    BY <1>2, <2>1, ReachesThrough
  <2> QED BY <2>2, Zenon DEF LeadsTo
<1> QED BY <1>1, <1>2, Zenon DEF LeadsTo

\* A path with an absent a-node, or no such child, on its way resolves to nothing
\* (the two early returns of resolve_walk).
LEMMA DeadEnd ==
  ASSUME NEW data, NEW path, NEW n \in Nat, NEW m \in Nat, n < m, NEW key,
         LeadsTo(data, path, n, key),
         data[key] = None \/ child_of(data[key], path[n + 1]) = None
  PROVE  \A k \in AKey : ~Reaches(data, path, m, k)
<1> SUFFICES ASSUME NEW k \in AKey, Reaches(data, path, m, k) PROVE FALSE
  BY Zenon
<1>1. PICK j \in AKey :
        /\ Reaches(data, path, n, j) /\ data[j] # None
        /\ child_of(data[j], path[n + 1]) \in AKey
  BY ReachesThrough, Zenon
<1> QED BY <1>1, KeyAssumption, Zenon DEF LeadsTo

\* A directory links to keys only.
LEMMA ChildType ==
  ASSUME NEW e \in Entry, NEW n \in Name
  PROVE  child_of(e, n) \in AKey \cup {None}
BY EntryAssumption, Zenon DEF Entry, child_of

-----------------------------------------------------------------------------
(* Reads on an open transaction. *)

\* Such a step moves one reader among the states of an open transaction.
Moves(r) ==
  /\ rpc[r] \in Reading /\ rpc' \in [Reader -> {"idle"} \cup Opening \cup Reading]
  /\ rpc'[r] \in Reading /\ \A q \in Reader : q # r => rpc'[q] = rpc[q]
  /\ UNCHANGED <<engine, version, writers, snap, rgen>>

\* Such a step keeps everything the locks and the snapshots are in.
LEMMA MovesFrame ==
  ASSUME VersionInv, NEW r \in Reader, Moves(r)
  PROVE  LockInv' /\ WorkInv' /\ SnapInv' /\ SameGenerationSameData'
<1> USE DEF Moves, VersionInv, engine, version, writers
<1>1. \A q \in Reader : /\ IsOpen(q)' <=> IsOpen(q)
                        /\ rpc'[q] \in Opening <=> rpc[q] \in Opening
                        /\ rpc'[q] = "snapped" <=> rpc[q] = "snapped"
  BY Zenon DEF IsOpen, Reading, Opening
<1>2. LockInv'
  BY <1>1, Zenon DEF LockInv
<1>3. SnapInv'
  BY <1>1, Zenon DEF SnapInv, Settled
<1>4. SameGenerationSameData'
  BY <1>1, Zenon DEF SameGenerationSameData
<1> QED BY <1>2, <1>3, <1>4, ReaderFrame, Zenon

\* And, when it caches nothing, the coherence of the caches.
LEMMA SameCaches ==
  ASSUME VersionInv, NEW r \in Reader, Moves(r), UNCHANGED caches
  PROVE  EntryInv' /\ CacheCoherent'
<1> USE DEF Moves, VersionInv, engine, version, writers, caches
<1>1. \A q \in Reader : IsOpen(q)' <=> IsOpen(q)
  BY Zenon DEF IsOpen
<1>2. EntryInv'
  BY Zenon DEF EntryInv, Settled
<1>3. CacheCoherent'
  BY <1>1, Zenon DEF CacheCoherent, BlobHit, PathHit
<1> QED BY <1>2, <1>3, Zenon

\* A step that only moves the reader's program counter and its walk.
LEMMA MovesTo ==
  ASSUME VersionInv, NEW r \in Reader, rpc[r] \in Reading, NEW x \in Reading,
         rpc' = [rpc EXCEPT ![r] = x], UNCHANGED <<engine, version, writers, snap, rgen>>
  PROVE  Moves(r) /\ rpc'[r] = x
<1>1. rpc \in [Reader -> {"idle"} \cup Opening \cup Reading]
  BY Zenon DEF VersionInv, TypeOK
<1>2. /\ rpc' \in [Reader -> {"idle"} \cup Opening \cup Reading]
      /\ rpc'[r] = x /\ \A q \in Reader : q # r => rpc'[q] = rpc[q]
  BY <1>1, Zenon
<1> QED BY <1>2, Zenon DEF Moves

\* The walks of the other readers stand where they stood.
LEMMA OthersStand ==
  ASSUME VersionInv, NEW r \in Reader, Moves(r), StandsRight(r)', HandsOwn(r)',
         \A q \in Reader : q # r => /\ req'[q] = req[q] /\ idx'[q] = idx[q]
                                   /\ at'[q] = at[q] /\ got'[q] = got[q]
  PROVE  WalkInv' /\ ReadsSeeSnapshot'
<1>1. /\ \A q \in Reader : q # r => rpc'[q] = rpc[q]
      /\ snap' = snap /\ WalkInv /\ ReadsSeeSnapshot
  BY Zenon DEF Moves, VersionInv
<1>2. ASSUME NEW q \in Reader, q # r PROVE StandsRight(q)' /\ HandsOwn(q)'
  <2>1. /\ rpc'[q] = rpc[q] /\ req'[q] = req[q] /\ idx'[q] = idx[q]
        /\ at'[q] = at[q] /\ got'[q] = got[q] /\ snap' = snap
    BY <1>1, <1>2, Zenon
  <2>2. StandsRight(q) /\ HandsOwn(q)
    BY <1>1, Zenon DEF WalkInv, ReadsSeeSnapshot
  <2> QED BY <2>1, <2>2, Zenon DEF StandsRight, HandsOwn
<1> QED BY <1>2, Zenon DEF WalkInv, ReadsSeeSnapshot

\* What the invariant says of one open transaction.
LEMMA OpenFacts ==
  ASSUME VersionInv, NEW r \in Reader, rpc[r] \in Reading
  PROVE  /\ IsOpen(r) /\ snap[r] \in Content /\ rgen[r] \in Nat /\ gen \in Nat
         /\ rgen[r] <= gen /\ (Settled /\ rgen[r] = gen => snap[r].data = db.data)
<1>1. TypeOK /\ SnapInv
  BY Zenon DEF VersionInv
<1>2. IsOpen(r)
  BY Zenon DEF IsOpen
<1>3. rgen[r] \in Nat /\ gen \in Nat
  BY <1>1, Zenon DEF TypeOK
<1> QED BY <1>1, <1>2, <1>3, Zenon DEF SnapInv

\* A reader may cache, under its generation, an entry of its own snapshot.
LEMMA PutBlobKeeps ==
  ASSUME VersionInv, NEW r \in Reader, Moves(r), UNCHANGED <<paths, inodes>>,
         NEW k \in AKey, snap[r].data[k] # None,
         put_blob(rgen[r], k, snap[r].data[k])
  PROVE  Holds(blobs', Nat \X AKey, Entry) /\ EntryInv' /\ CacheCoherent'
<1> USE DEF Moves, VersionInv, engine, version, writers
<1> DEFINE new == <<rgen[r], k>>
<1>0. Puts(blobs, blobs', new, snap[r].data[k])
  BY LruPutEntries, Zenon DEF put_blob
<1>1. /\ new \in DOMAIN blobs' /\ blobs'[new] = snap[r].data[k]
      /\ \A x \in DOMAIN blobs' : x # new => x \in DOMAIN blobs /\ blobs'[x] = blobs[x]
  BY <1>0, Zenon DEF Puts
<1>2. /\ IsOpen(r) /\ snap[r] \in Content /\ rgen[r] \in Nat /\ gen \in Nat
      /\ rgen[r] <= gen /\ (Settled /\ rgen[r] = gen => snap[r].data = db.data)
  BY OpenFacts, Zenon
<1>3. snap[r].data[k] \in Entry
  BY <1>2, Zenon DEF Content
<1>4. new \in Nat \X AKey /\ Holds(blobs, Nat \X AKey, Entry)
  BY <1>2, Zenon DEF TypeOK, Holds
<1>5. Holds(blobs', Nat \X AKey, Entry)
  <2> HIDE DEF new, Moves, VersionInv
  <2> QED BY <1>0, <1>3, <1>4, PutTypes
<1>6. EntryInv'
  <2>1. ASSUME NEW x \in DOMAIN blobs'
        PROVE  x[1] <= gen /\ (Settled /\ x[1] = gen => blobs'[x] = db.data[x[2]])
    <3>1. CASE x = new
      BY <1>1, <1>2, <3>1, Zenon
    <3>2. CASE x # new
      BY <1>1, <3>2, Zenon DEF EntryInv
    <3> QED BY <3>1, <3>2, Zenon
  <2> QED BY <2>1, Zenon DEF EntryInv, Settled
<1>7. CacheCoherent'
  <2>1. \A q \in Reader : IsOpen(q)' <=> IsOpen(q)
    BY Zenon DEF IsOpen
  <2>2. ASSUME NEW q \in Reader, IsOpen(q), NEW j \in AKey, <<rgen[q], j>> \in DOMAIN blobs'
        PROVE  blobs'[<<rgen[q], j>>] = snap[q].data[j]
    <3>1. CASE <<rgen[q], j>> = new
      <4>1. rgen[q] = rgen[r] /\ j = k
        BY <3>1, Zenon
      <4> QED BY <1>1, <1>2, <4>1, <2>2, Zenon DEF SameGenerationSameData
    <3>2. CASE <<rgen[q], j>> # new
      BY <1>1, <3>2, <2>2, Zenon DEF CacheCoherent, BlobHit
    <3> QED BY <3>1, <3>2, Zenon
  <2> QED BY <2>1, <2>2, Zenon DEF CacheCoherent, BlobHit, PathHit
<1> QED BY <1>5, <1>6, <1>7, Zenon

\* A reader may cache, under its generation, what a path means in its snapshot.
LEMMA PutPathKeeps ==
  ASSUME VersionInv, NEW r \in Reader, Moves(r), UNCHANGED <<blobs, inodes>>,
         NEW p \in Path, NEW k \in AKey, Resolves(snap[r].data, p, k),
         put_path(rgen[r], p, k)
  PROVE  Holds(paths', Path, [gen : Nat, key : AKey]) /\ EntryInv' /\ CacheCoherent'
<1> USE DEF Moves, VersionInv, engine, version, writers
<1> DEFINE new == [gen |-> rgen[r], key |-> k]
<1>0. Puts(paths, paths', p, new)
  BY LruPutEntries, Zenon DEF put_path
<1>1. /\ p \in DOMAIN paths' /\ paths'[p] = new
      /\ \A x \in DOMAIN paths' : x # p => x \in DOMAIN paths /\ paths'[x] = paths[x]
  BY <1>0, Zenon DEF Puts
<1>2. /\ IsOpen(r) /\ rgen[r] \in Nat /\ gen \in Nat
      /\ rgen[r] <= gen /\ (Settled /\ rgen[r] = gen => snap[r].data = db.data)
  BY OpenFacts, Zenon
<1>3. /\ new \in [gen : Nat, key : AKey] /\ new.gen = rgen[r] /\ new.key = k
  BY <1>2, Zenon
<1> HIDE DEF new
<1>4. Holds(paths, Path, [gen : Nat, key : AKey])
  BY Zenon DEF TypeOK, Holds
<1>5. Holds(paths', Path, [gen : Nat, key : AKey])
  <2> HIDE DEF Moves, VersionInv
  <2> QED BY <1>0, <1>3, <1>4, PutTypes, Zenon
<1>6. EntryInv'
  <2>1. ASSUME NEW x \in DOMAIN paths'
        PROVE  /\ paths'[x].gen <= gen
               /\ Settled /\ paths'[x].gen = gen => Resolves(db.data, x, paths'[x].key)
    <3>1. CASE x = p
      BY <1>1, <1>2, <1>3, <3>1, Zenon
    <3>2. CASE x # p
      BY <1>1, <3>2, Zenon DEF EntryInv
    <3> QED BY <3>1, <3>2, Zenon
  <2> QED BY <2>1, Zenon DEF EntryInv, Settled
<1>7. CacheCoherent'
  <2>1. \A q \in Reader : IsOpen(q)' <=> IsOpen(q)
    BY Zenon DEF IsOpen
  <2>2. ASSUME NEW q \in Reader, IsOpen(q), NEW x \in DOMAIN paths', paths'[x].gen = rgen[q]
        PROVE  Resolves(snap[q].data, x, paths'[x].key)
    <3>1. CASE x = p
      BY <1>1, <1>2, <1>3, <2>2, <3>1, Zenon DEF SameGenerationSameData
    <3>2. CASE x # p
      BY <1>1, <2>2, <3>2, Zenon DEF CacheCoherent, PathHit
    <3> QED BY <3>1, <3>2, Zenon
  <2> QED BY <2>1, <2>2, Zenon DEF CacheCoherent, BlobHit, PathHit
<1> QED BY <1>5, <1>6, <1>7, Zenon

\* Caching an inode touches neither the path nor the blob cache.
LEMMA MetaStep ==
  ASSUME VersionInv, NEW r \in Reader, NEW k \in AKey, Meta(r, k) PROVE VersionInv'
<1> USE DEF Meta, VersionInv, walking, readers
<1>1. Moves(r)
  BY Zenon DEF Moves, TypeOK, Reading
<1> DEFINE new == <<rgen[r], k>>
<1>2. Puts(inodes, inodes', new, snap[r].inodes[k])
  BY LruPutEntries, Zenon DEF put_inode
<1>3. snap[r].inodes[k] \in Inode /\ new \in Nat \X AKey
  <2>1. snap[r] \in Content /\ snap[r].inodes[k] # None /\ rgen[r] \in Nat
    BY <1>1, OpenFacts, Zenon DEF Moves
  <2> HIDE DEF Meta, VersionInv
  <2> QED BY <2>1, Zenon DEF Content
<1>4. Holds(inodes', Nat \X AKey, Inode)
  <2>1. Holds(inodes, Nat \X AKey, Inode)
    BY Zenon DEF TypeOK, Holds
  <2> HIDE DEF new, Meta, VersionInv
  <2> QED BY <1>2, <1>3, <2>1, PutTypes
<1>5. TypeOK'
  BY <1>4, Zenon DEF TypeOK, Holds, engine, version, writers
<1>6. EntryInv' /\ CacheCoherent'
  BY Zenon DEF EntryInv, CacheCoherent, Settled, IsOpen, BlobHit, PathHit, engine, version, writers
<1>7. WalkInv' /\ ReadsSeeSnapshot'
  BY Zenon DEF WalkInv, StandsRight, ReadsSeeSnapshot, HandsOwn
<1> QED BY <1>1, <1>5, <1>6, <1>7, MovesFrame, Zenon

-----------------------------------------------------------------------------
(* Every step of a read on an open transaction keeps VersionInv. *)

\* A resolve starts from a coherent path entry or from the root.
LEMMA ResolveStep ==
  ASSUME VersionInv, NEW r \in Reader, NEW p \in Path, Resolve(r, p) PROVE VersionInv'
<1>1. p \in Seq(Name) /\ Len(p) \in Nat /\ 0 \in 0..Len(p) /\ Len(p) \in 0..Len(p)
  BY PathAssumption
<1>2. /\ rpc[r] = "open" /\ req' = [req EXCEPT ![r] = p] /\ got' = got
      /\ UNCHANGED <<engine, version, writers, snap, rgen, caches>>
  BY Zenon DEF Resolve
<1>3. /\ req \in [Reader -> Path \cup {<<>>}] /\ idx \in [Reader -> Nat]
      /\ at \in [Reader -> AKey \cup {None}]
  BY Zenon DEF VersionInv, TypeOK
<1>4. PICK key \in AKey, n \in 0..Len(p), pc \in {"load", "walk"} :
        /\ at' = [at EXCEPT ![r] = key] /\ idx' = [idx EXCEPT ![r] = n]
        /\ rpc' = [rpc EXCEPT ![r] = pc]
        /\ IF pc = "load" THEN Resolves(snap[r].data, p, key)
                          ELSE LeadsTo(snap[r].data, p, n, key)
  <2>1. CASE PathHit(rgen[r], p)
    <3>1. p \in DOMAIN paths /\ paths[p].key \in AKey
      BY <2>1, Zenon DEF VersionInv, TypeOK, PathHit
    <3>2. Resolves(snap[r].data, p, paths[p].key)
      BY <1>2, <2>1, <3>1, Zenon DEF VersionInv, CacheCoherent, IsOpen, Reading
    <3>3. /\ at' = [at EXCEPT ![r] = paths[p].key] /\ idx' = [idx EXCEPT ![r] = Len(p)]
          /\ rpc' = [rpc EXCEPT ![r] = "load"]
      BY <2>1, Zenon DEF Resolve
    <3> QED BY <1>1, <3>1, <3>2, <3>3, Zenon
  <2>2. CASE ~PathHit(rgen[r], p)
    <3>1. /\ at' = [at EXCEPT ![r] = ROOT] /\ idx' = [idx EXCEPT ![r] = 0]
          /\ rpc' = [rpc EXCEPT ![r] = "walk"]
      BY <2>2, Zenon DEF Resolve
    <3> QED BY <1>1, <3>1, LeadsToRoot, KeyAssumption, Zenon
  <2> QED BY <2>1, <2>2, Zenon
<1>5. Moves(r) /\ rpc'[r] = pc
  BY <1>2, <1>4, MovesTo, Zenon DEF Reading
<1>6. /\ at'[r] = key /\ idx'[r] = n /\ req'[r] = p
      /\ \A q \in Reader : q # r => /\ req'[q] = req[q] /\ idx'[q] = idx[q]
                                    /\ at'[q] = at[q] /\ got'[q] = got[q]
  BY <1>2, <1>3, <1>4, Zenon
<1>7. TypeOK'
  <2>1. /\ at' \in [Reader -> AKey \cup {None}] /\ idx' \in [Reader -> Nat]
        /\ req' \in [Reader -> Path \cup {<<>>}]
    <3>1. n \in Nat
      BY <1>1
    <3> QED BY <1>2, <1>3, <1>4, <3>1, UpdateType, Zenon
  <2>2. TypeOK
    BY Zenon DEF VersionInv
  <2> QED BY <1>2, <1>5, <2>1, <2>2, Zenon DEF TypeOK, Moves, engine, version, writers, caches
<1>8. StandsRight(r)' /\ HandsOwn(r)'
  <2>1. IF pc = "load" THEN Resolves(snap'[r].data, p, key)
                       ELSE LeadsTo(snap'[r].data, p, n, key)
    BY <1>2, <1>4, Zenon
  <2> QED BY <1>1, <1>4, <1>5, <1>6, <2>1, Zenon DEF StandsRight, HandsOwn
<1>9. WalkInv' /\ ReadsSeeSnapshot'
  BY <1>5, <1>6, <1>8, OthersStand, Zenon
<1> QED BY <1>2, <1>5, <1>7, <1>9, MovesFrame, SameCaches, Zenon DEF VersionInv

\* One turn of the walk, given an entry that is the snapshot's.
LEMMA DescendKeeps ==
  ASSUME VersionInv, NEW r \in Reader, rpc[r] \in {"walk", "walkmiss"}, Moves(r),
         idx[r] < Len(req[r]), NEW e \in Entry, e = snap[r].data[at[r]], Descend(r, e)
  PROVE  /\ at' \in [Reader -> AKey \cup {None}] /\ idx' \in [Reader -> Nat]
         /\ WalkInv' /\ ReadsSeeSnapshot'
<1> DEFINE c == child_of(e, req[r][idx[r] + 1])
<1>1. /\ req[r] \in Path /\ idx[r] \in 0..Len(req[r]) /\ at[r] \in AKey
      /\ LeadsTo(snap[r].data, req[r], idx[r], at[r])
  BY Zenon DEF VersionInv, WalkInv, StandsRight
<1>2. /\ rpc \in [Reader -> {"idle"} \cup Opening \cup Reading] /\ idx \in [Reader -> Nat]
      /\ at \in [Reader -> AKey \cup {None}]
  BY Zenon DEF VersionInv, TypeOK
<1>3. /\ req[r] \in Seq(Name) /\ idx[r] \in Nat /\ idx[r] + 1 \in Nat
      /\ idx[r] + 1 \in 1..Len(req[r]) /\ idx[r] + 1 \in 0..Len(req[r])
  <2>1. req[r] \in Seq(Name)
    BY <1>1, PathAssumption, Zenon
  <2>2. Len(req[r]) \in Nat
    BY <2>1, PathLength, Zenon
  <2>3. idx[r] \in Nat
    BY <1>2, Zenon
  <2> QED BY <2>1, <2>2, <2>3, NextIndex, Zenon
<1>4. c \in AKey \cup {None}
  BY <1>3, NameAt, ChildType, Zenon
<1>5. c # None => LeadsTo(snap[r].data, req[r], idx[r] + 1, c)
  BY <1>1, <1>3, <1>4, LeadsOn, EntryAssumption, Zenon
<1>6. /\ at' = [at EXCEPT ![r] = c] /\ idx' = [idx EXCEPT ![r] = idx[r] + 1]
      /\ rpc' = [rpc EXCEPT ![r] = IF c = None THEN "done" ELSE "walk"]
      /\ req' = req /\ got' = got
  BY Zenon DEF Descend
<1> HIDE DEF c
<1>7. at' \in [Reader -> AKey \cup {None}] /\ idx' \in [Reader -> Nat]
  BY <1>2, <1>3, <1>4, <1>6, UpdateType, Zenon
<1>8. /\ at'[r] = c /\ idx'[r] = idx[r] + 1 /\ snap' = snap
      /\ rpc'[r] = IF c = None THEN "done" ELSE "walk"
      /\ \A q \in Reader : q # r => at'[q] = at[q] /\ idx'[q] = idx[q]
  BY <1>2, <1>6, Zenon DEF Moves
<1>9. StandsRight(r)' /\ HandsOwn(r)'
  <2>1. CASE c = None
    <3>1. \A k \in AKey : ~Resolves(snap[r].data, req[r], k)
      BY <1>1, <1>3, <2>1, PathLength, DeadEnd, Zenon DEF c, Resolves
    <3> QED BY <1>6, <1>8, <2>1, <3>1 DEF StandsRight, HandsOwn
  <2>2. CASE c # None
    <3>1. /\ rpc'[r] = "walk" /\ at'[r] = c /\ c \in AKey /\ snap' = snap
          /\ idx'[r] = idx[r] + 1 /\ req'[r] = req[r]
          /\ LeadsTo(snap[r].data, req[r], idx[r] + 1, c)
      BY <1>4, <1>5, <1>6, <1>8, <2>2, Zenon
    <3> QED BY <1>1, <1>3, <3>1, Zenon DEF StandsRight, HandsOwn
  <2> QED BY <2>1, <2>2, Zenon
<1> QED BY <1>6, <1>7, <1>8, <1>9, OthersStand, Zenon

\* A walk that goes on from a cached directory.
LEMMA WalkHitStep ==
  ASSUME VersionInv, NEW r \in Reader, WalkHit(r) PROVE VersionInv'
<1> USE DEF WalkHit, VersionInv
<1> DEFINE e == blobs[<<rgen[r], at[r]>>]
<1>1. Moves(r)
  BY Zenon DEF Moves, TypeOK, Reading, Descend
<1>2. e \in Entry /\ e = snap[r].data[at[r]]
  BY Zenon DEF TypeOK, BlobHit, CacheCoherent, WalkInv, StandsRight, IsOpen, Reading
<1>3. /\ at' \in [Reader -> AKey \cup {None}] /\ idx' \in [Reader -> Nat]
      /\ WalkInv' /\ ReadsSeeSnapshot'
  BY <1>1, <1>2, DescendKeeps, Zenon
<1>4. TypeOK'
  BY <1>1, <1>3, Zenon DEF TypeOK, Moves, Descend, engine, version, writers, caches
<1> QED BY <1>1, <1>3, <1>4, MovesFrame, SameCaches, Zenon

\* A walk that misses the blob cache.
LEMMA WalkMissStep ==
  ASSUME VersionInv, NEW r \in Reader, WalkMiss(r) PROVE VersionInv'
<1> USE DEF WalkMiss, VersionInv, walking
<1>1. Moves(r)
  BY Zenon DEF Moves, TypeOK, Reading
<1>2. TypeOK'
  BY Zenon DEF TypeOK, Reading, engine, version, writers, caches
<1>3. WalkInv' /\ ReadsSeeSnapshot'
  BY Zenon DEF WalkInv, StandsRight, ReadsSeeSnapshot, HandsOwn, TypeOK
<1> QED BY <1>1, <1>2, <1>3, MovesFrame, SameCaches, Zenon

\* A walk that reads its directory from the snapshot and caches it.
LEMMA WalkFetchStep ==
  ASSUME VersionInv, NEW r \in Reader, WalkFetch(r) PROVE VersionInv'
<1> USE DEF WalkFetch, VersionInv
<1> DEFINE e == snap[r].data[at[r]]
<1>0. rpc[r] = "walkmiss"
  BY Zenon
<1>1. at[r] \in AKey /\ idx[r] < Len(req[r]) /\ snap[r] \in Content
  BY Zenon DEF WalkInv, StandsRight, SnapInv, IsOpen, Reading
<1>2. CASE e = None
  <2>0. /\ at' = [at EXCEPT ![r] = None] /\ rpc' = [rpc EXCEPT ![r] = "done"]
        /\ UNCHANGED <<engine, version, writers, snap, rgen, req, idx, got, caches>>
    BY <1>2, Zenon DEF caches
  <2>1. Moves(r)
    BY <2>0, MovesTo, Zenon DEF Reading
  <2> HIDE DEF WalkFetch
  <2>2. TypeOK'
    BY <2>0, Zenon DEF TypeOK, Reading, engine, version, writers, caches
  <2>3. \A k \in AKey : ~Resolves(snap[r].data, req[r], k)
    <3>1. LeadsTo(snap[r].data, req[r], idx[r], at[r]) /\ idx[r] \in Nat
      BY <1>0, Zenon DEF WalkInv, StandsRight, TypeOK
    <3>2. Len(req[r]) \in Nat
      BY <1>0, PathAssumption, PathLength, Zenon DEF WalkInv, StandsRight
    <3> HIDE DEF VersionInv
    <3> QED BY <1>1, <1>2, <3>1, <3>2, DeadEnd, Zenon DEF Resolves
  <2>4. WalkInv'
    BY <2>0, Zenon DEF WalkInv, StandsRight, TypeOK
  <2>5. ReadsSeeSnapshot'
    BY <2>0, <2>3, Zenon DEF ReadsSeeSnapshot, HandsOwn, TypeOK
  <2> QED BY <2>0, <2>1, <2>2, <2>4, <2>5, MovesFrame, SameCaches, Zenon
<1>3. CASE e # None
  <2>1. e \in Entry
    BY <1>1, <1>3, Zenon DEF Content
  <2>2. Moves(r)
    BY <1>3, Zenon DEF Moves, TypeOK, Reading, Descend
  <2>3. /\ at' \in [Reader -> AKey \cup {None}] /\ idx' \in [Reader -> Nat]
        /\ WalkInv' /\ ReadsSeeSnapshot'
    BY <1>1, <1>3, <2>1, <2>2, DescendKeeps, Zenon
  <2>4. Holds(blobs', Nat \X AKey, Entry) /\ EntryInv' /\ CacheCoherent'
    BY <1>1, <1>3, <2>2, PutBlobKeeps, Zenon
  <2>5. TypeOK'
    BY <1>3, <2>2, <2>3, <2>4, Zenon DEF TypeOK, Holds, Moves, Descend, engine, version, writers
  <2> QED BY <2>2, <2>3, <2>4, <2>5, MovesFrame, Zenon
<1> QED BY <1>2, <1>3, Zenon

\* A finished walk caches the resolution.
LEMMA ResolvedStep ==
  ASSUME VersionInv, NEW r \in Reader, Resolved(r) PROVE VersionInv'
<1> USE DEF Resolved, VersionInv, walking
<1>1. Moves(r)
  BY Zenon DEF Moves, TypeOK, Reading
<1>2. /\ req[r] \in Path /\ at[r] \in AKey
      /\ Resolves(snap[r].data, req[r], at[r])
  BY Zenon DEF WalkInv, StandsRight, Resolves, LeadsTo
<1>3. Holds(paths', Path, [gen : Nat, key : AKey]) /\ EntryInv' /\ CacheCoherent'
  BY <1>1, <1>2, PutPathKeeps, Zenon
<1>4. TypeOK'
  BY <1>1, <1>3, Zenon DEF TypeOK, Holds, Moves, engine, version, writers
<1>5. WalkInv' /\ ReadsSeeSnapshot'
  BY <1>2, Zenon DEF WalkInv, StandsRight, ReadsSeeSnapshot, HandsOwn, TypeOK
<1> QED BY <1>1, <1>3, <1>4, <1>5, MovesFrame, Zenon

\* The load ends with the entry its key has in the snapshot.
LEMMA HandKeeps ==
  ASSUME VersionInv, NEW r \in Reader, rpc[r] \in {"load", "loadmiss"},
         Hand(r, snap[r].data[at[r]]), UNCHANGED snap
  PROVE  got' \in [Reader -> Entry \cup {None}] /\ WalkInv' /\ ReadsSeeSnapshot'
<1> USE DEF Hand, VersionInv
<1>1. snap[r].data[at[r]] \in Entry \cup {None}
  BY Zenon DEF WalkInv, StandsRight, SnapInv, IsOpen, Reading, Content
<1>2. got' \in [Reader -> Entry \cup {None}]
  BY <1>1, Zenon DEF TypeOK
<1>3. WalkInv'
  BY Zenon DEF WalkInv, StandsRight, TypeOK
<1>4. ReadsSeeSnapshot'
  <2>1. at[r] # None /\ Resolves(snap[r].data, req[r], at[r])
    BY KeyAssumption, Zenon DEF WalkInv, StandsRight
  <2> QED BY <2>1, Zenon DEF ReadsSeeSnapshot, HandsOwn, TypeOK
<1> QED BY <1>2, <1>3, <1>4, Zenon

\* A load answered by the blob cache.
LEMMA LoadHitStep ==
  ASSUME VersionInv, NEW r \in Reader, LoadHit(r) PROVE VersionInv'
<1> USE DEF LoadHit, VersionInv
<1>1. Moves(r)
  BY Zenon DEF Moves, TypeOK, Reading, Hand
<1>2. blobs[<<rgen[r], at[r]>>] = snap[r].data[at[r]]
  BY Zenon DEF CacheCoherent, WalkInv, StandsRight, IsOpen, Reading
<1>3. got' \in [Reader -> Entry \cup {None}] /\ WalkInv' /\ ReadsSeeSnapshot'
  BY <1>2, HandKeeps, Zenon
<1>4. TypeOK'
  BY <1>1, <1>3, Zenon DEF TypeOK, Moves, Hand, engine, version, writers, caches
<1> QED BY <1>1, <1>3, <1>4, MovesFrame, SameCaches, Zenon

\* A load that misses it.
LEMMA LoadMissStep ==
  ASSUME VersionInv, NEW r \in Reader, LoadMiss(r) PROVE VersionInv'
<1> USE DEF LoadMiss, VersionInv, walking
<1>1. Moves(r)
  BY Zenon DEF Moves, TypeOK, Reading
<1>2. TypeOK'
  BY Zenon DEF TypeOK, Reading, engine, version, writers, caches
<1>3. WalkInv' /\ ReadsSeeSnapshot'
  BY Zenon DEF WalkInv, StandsRight, ReadsSeeSnapshot, HandsOwn, TypeOK
<1> QED BY <1>1, <1>2, <1>3, MovesFrame, SameCaches, Zenon

\* A load that reads the snapshot and caches the entry.
LEMMA LoadFetchStep ==
  ASSUME VersionInv, NEW r \in Reader, LoadFetch(r) PROVE VersionInv'
<1> USE DEF LoadFetch, VersionInv
<1> DEFINE e == snap[r].data[at[r]]
<1>1. at[r] \in AKey
  BY Zenon DEF WalkInv, StandsRight
<1>2. Moves(r)
  BY Zenon DEF Moves, TypeOK, Reading, Hand
<1>3. got' \in [Reader -> Entry \cup {None}] /\ WalkInv' /\ ReadsSeeSnapshot'
  BY HandKeeps, Zenon
<1>4. CASE e = None
  <2>1. TypeOK'
    BY <1>2, <1>3, <1>4, Zenon DEF TypeOK, Moves, Hand, engine, version, writers
  <2> QED BY <1>2, <1>3, <1>4, <2>1, MovesFrame, SameCaches, Zenon DEF caches
<1>5. CASE e # None
  <2>1. Holds(blobs', Nat \X AKey, Entry) /\ EntryInv' /\ CacheCoherent'
    BY <1>1, <1>2, <1>5, PutBlobKeeps, Zenon
  <2>2. TypeOK'
    BY <1>2, <1>3, <2>1, Zenon DEF TypeOK, Holds, Moves, Hand, engine, version, writers
  <2> QED BY <1>2, <1>3, <2>1, <2>2, MovesFrame, Zenon
<1> QED BY <1>4, <1>5, Zenon

\* Handing the result to the caller.
LEMMA ReturnStep ==
  ASSUME VersionInv, NEW r \in Reader, Return(r) PROVE VersionInv'
<1> USE DEF Return, VersionInv
<1>1. Moves(r)
  BY Zenon DEF Moves, TypeOK, Reading
<1>2. TypeOK'
  BY KeyAssumption, Zenon DEF TypeOK, Reading, engine, version, writers, caches
<1>3. WalkInv' /\ ReadsSeeSnapshot'
  BY Zenon DEF WalkInv, StandsRight, ReadsSeeSnapshot, HandsOwn, TypeOK
<1> QED BY <1>1, <1>2, <1>3, MovesFrame, SameCaches, Zenon

-----------------------------------------------------------------------------
(* Every step, and the theorems. *)

\* Every step of a writer keeps the invariant.
LEMMA WriterKeeps ==
  ASSUME VersionInv, NEW w \in Writer, WriterStep(w) PROVE VersionInv'
BY BeginWriteStep, WorkStep, AbandonStep, LockVersionStep, CommitLockedStep,
   CommitUnlockedStep, CommitFailsStep, BumpStep, Zenon DEF WriterStep

\* Every step of a reader keeps the invariant.
LEMMA ReaderKeeps ==
  ASSUME VersionInv, NEW r \in Reader, ReaderStep(r) PROVE VersionInv'
BY ReadLockStep, BeginReadStep, CaptureStep, CloseStep, ResolveStep, WalkHitStep,
   WalkMissStep, WalkFetchStep, ResolvedStep, LoadHitStep, LoadMissStep,
   LoadFetchStep, ReturnStep, MetaStep, Zenon DEF ReaderStep, ReadStep

\* So does a step that changes nothing.
LEMMA StutterKeeps ==
  ASSUME VersionInv, UNCHANGED vars PROVE VersionInv'
<1> USE DEF VersionInv, vars, engine, version, writers, walking, readers, caches
<1>1. TypeOK'
  BY Zenon DEF TypeOK
<1>2. LockInv' /\ WorkInv'
  BY Zenon DEF LockInv, WorkInv
<1>3. SnapInv'
  BY Zenon DEF SnapInv, IsOpen, Settled
<1>4. EntryInv'
  BY Zenon DEF EntryInv, Settled
<1> QED BY <1>1, <1>2, <1>3, <1>4, WriterFrame, Zenon

\* The inductive invariant holds for every set of threads, keys and paths,
\* every cache capacity and every number of commits and crashes.
THEOREM VersionInvariant == Spec => []VersionInv
<1>1. Init => VersionInv
  BY InitStep, Zenon
<1>2. VersionInv /\ [Next]_vars => VersionInv'
  BY WriterKeeps, ReaderKeeps, CrashStep, StutterKeeps, Zenon DEF Next
<1> QED BY <1>1, <1>2, PTL DEF Spec

\* The variables keep their types.
THEOREM TypeCorrect == Spec => []TypeOK
BY VersionInvariant, PTL DEF VersionInv

\* One generation is one version of the data: the promise of
\* DbInner.version_lock, which Table::read and the bumping commits rely on.
THEOREM OneGenerationOneVersion == Spec => []SameGenerationSameData
BY VersionInvariant, PTL DEF VersionInv

\* The path and blob caches never answer for another version.
THEOREM CachesCoherent == Spec => []CacheCoherent
BY VersionInvariant, PTL DEF VersionInv

\* A read answers from its own snapshot, found or absent, whatever was
\* evicted, replaced or committed while it walked.
THEOREM ReadsAnswerOwnVersion == Spec => []ReadsSeeSnapshot
BY VersionInvariant, PTL DEF VersionInv

-----------------------------------------------------------------------------
(* The inode cache, where no transaction rewrites $inodes outside the lock. *)

\* Opening a database establishes the invariant of the inode cache.
LEMMA InodeInitStep == Init => InodeInv
BY KeyAssumption, Zenon DEF Init, InodeInv, InodeWorkInv, InodeSnapInv, InodeEntryInv,
   SameGenerationSameInodes, InodeCacheCoherent, IsOpen, Reading, Each, EmptyCache

\* So does a crash followed by a reopening.
LEMMA InodeCrashStep == Crash => InodeInv'
BY KeyAssumption, Zenon DEF Crash, InodeInv, InodeWorkInv, InodeSnapInv, InodeEntryInv,
   SameGenerationSameInodes, InodeCacheCoherent, IsOpen, Reading, Each, EmptyCache

\* A writer's step leaves what readers hold and what is cached alone.
LEMMA InodeWriterFrame ==
  ASSUME InodeInv, UNCHANGED <<walking, readers, caches>>
  PROVE  SameGenerationSameInodes' /\ InodeCacheCoherent'
<1> USE DEF InodeInv, walking, readers, caches, IsOpen
<1>1. SameGenerationSameInodes'
  BY Zenon DEF SameGenerationSameInodes
<1>2. InodeCacheCoherent'
  BY Zenon DEF InodeCacheCoherent, InodeHit
<1> QED BY <1>1, <1>2, Zenon

\* Outside the version lock only $metadata and $index are written.
LEMMA UnlockedIsDdl ==
  ASSUME "acl" \notin Kind, NEW k \in Kind, ~Locked(k) PROVE k = "ddl"
BY KindAssumption, Zenon DEF Kinds, Locked

\* Writers that have not reached their engine commit, or give it up.
LEMMA InodeWriterStays ==
  ASSUME "acl" \notin Kind, VersionInv, InodeInv, NEW w \in Writer,
         BeginWrite(w) \/ Work(w) \/ Abandon(w) \/ LockVersion(w) \/ CommitFails(w)
  PROVE  InodeInv'
<1>1. UNCHANGED <<db, gen, walking, readers, caches>>
  BY Zenon DEF BeginWrite, Work, Abandon, LockVersion, CommitFails, engine, version
<1>2. Settled' <=> Settled
  BY Zenon DEF BeginWrite, Work, Abandon, LockVersion, CommitFails, Settled, Idle, writers,
         VersionInv, TypeOK
<1>3. InodeSnapInv' /\ InodeEntryInv'
  BY <1>1, <1>2, Zenon DEF InodeInv, InodeSnapInv, InodeEntryInv, IsOpen, readers, caches
<1>4. InodeWorkInv'
  <2>1. CASE BeginWrite(w)
    BY <2>1, KeyAssumption, Zenon DEF BeginWrite, InodeWorkInv, VersionInv, TypeOK
  <2>2. CASE Work(w)
    <3>1. mutex = w /\ wkind[w] \in Kind
      BY <2>2, Zenon DEF Work, VersionInv, LockInv, WorkInv
    <3>2. ~Locked(wkind[w]) => work' = work
      BY <2>2, <3>1, UnlockedIsDdl, Zenon DEF Work, Effect
    <3> QED BY <2>2, <3>1, <3>2, Zenon DEF Work, InodeInv, InodeWorkInv, writers
  <2>3. CASE LockVersion(w)
    BY <2>3, Zenon DEF LockVersion, InodeInv, InodeWorkInv, engine
  <2>4. CASE Abandon(w) \/ CommitFails(w)
    BY <2>4, KeyAssumption, Zenon DEF Abandon, CommitFails, InodeWorkInv
  <2> QED BY <2>1, <2>2, <2>3, <2>4, Zenon
<1> QED BY <1>1, <1>3, <1>4, InodeWriterFrame, Zenon DEF InodeInv

\* The engine commit under the version lock.
LEMMA InodeCommitLocked ==
  ASSUME VersionInv, InodeInv, NEW w \in Writer, CommitLocked(w) PROVE InodeInv'
<1>1. UNCHANGED <<walking, readers, caches, gen>> /\ mutex' = None
  BY Zenon DEF CommitLocked, EngineCommit, version
<1>2. ~Settled'
  BY Zenon DEF CommitLocked, Settled, VersionInv, TypeOK
<1>3. \A r \in Reader : rpc[r] # "snapped"
  BY KeyAssumption, Zenon DEF CommitLocked, VersionInv, LockInv, Opening
<1>4. InodeWorkInv'
  BY <1>1, KeyAssumption, Zenon DEF InodeWorkInv
<1>5. InodeSnapInv' /\ InodeEntryInv'
  BY <1>1, <1>2, <1>3, Zenon DEF InodeInv, InodeSnapInv, InodeEntryInv, readers, caches
<1> QED BY <1>1, <1>4, <1>5, InodeWriterFrame, Zenon DEF InodeInv

\* A commit without it leaves $inodes as it was.
LEMMA InodeCommitUnlocked ==
  ASSUME VersionInv, InodeInv, NEW w \in Writer, CommitUnlocked(w) PROVE InodeInv'
<1>1. UNCHANGED <<walking, readers, caches, gen>> /\ mutex' = None
  BY Zenon DEF CommitUnlocked, EngineCommit, version
<1>2. db'.inodes = db.inodes
  BY Zenon DEF CommitUnlocked, EngineCommit, VersionInv, LockInv, InodeInv, InodeWorkInv
<1>3. Settled' <=> Settled
  BY Zenon DEF CommitUnlocked, Idle, Settled, VersionInv, TypeOK
<1>4. InodeWorkInv'
  BY <1>1, KeyAssumption, Zenon DEF InodeWorkInv
<1>5. InodeSnapInv' /\ InodeEntryInv'
  BY <1>1, <1>2, <1>3, Zenon DEF InodeInv, InodeSnapInv, InodeEntryInv, IsOpen, readers, caches
<1> QED BY <1>1, <1>4, <1>5, InodeWriterFrame, Zenon DEF InodeInv

\* The bump retires every cached inode of the old generation.
LEMMA InodeBump ==
  ASSUME VersionInv, InodeInv, NEW w \in Writer, Bump(w) PROVE InodeInv'
<1>1. /\ UNCHANGED <<engine, walking, readers, caches>> /\ gen' = gen + 1 /\ wkind'[w] = None
      /\ \A u \in Writer : u # w => wkind'[u] = wkind[u]
  BY Zenon DEF Bump, Idle, VersionInv, TypeOK
<1>2. /\ gen \in Nat /\ \A n \in Nat : n <= gen => n <= gen' /\ n # gen'
  BY <1>1 DEF VersionInv, TypeOK
<1>3. mutex # w
  BY Zenon DEF Bump, VersionInv, LockInv
<1>4. InodeWorkInv'
  BY <1>1, <1>3, Zenon DEF InodeInv, InodeWorkInv, engine
<1>5. InodeSnapInv'
  <2>1. \A r \in Reader : IsOpen(r) => rgen[r] \in Nat /\ rgen[r] <= gen
    BY Zenon DEF VersionInv, TypeOK, SnapInv
  <2> QED BY <1>1, <1>2, <2>1, Zenon DEF InodeInv, InodeSnapInv, IsOpen, engine, readers
<1>6. InodeEntryInv'
  <2>1. \A x \in DOMAIN inodes : x[1] \in Nat /\ x[1] <= gen
    BY Zenon DEF VersionInv, TypeOK, InodeInv, InodeEntryInv
  <2> QED BY <1>1, <1>2, <2>1, Zenon DEF InodeEntryInv, caches
<1> QED BY <1>1, <1>4, <1>5, <1>6, InodeWriterFrame, Zenon DEF InodeInv

\* A step on an open transaction that caches no inode.
LEMMA InodeMoves ==
  ASSUME VersionInv, InodeInv, NEW r \in Reader, Moves(r), UNCHANGED inodes
  PROVE  InodeInv'
<1> USE DEF Moves, InodeInv, engine, version, writers
<1>1. \A q \in Reader : /\ IsOpen(q)' <=> IsOpen(q)
                        /\ rpc'[q] = "snapped" <=> rpc[q] = "snapped"
  BY Zenon DEF IsOpen, Reading
<1>2. InodeWorkInv'
  BY Zenon DEF InodeWorkInv
<1>3. InodeSnapInv' /\ InodeEntryInv'
  BY <1>1, Zenon DEF InodeSnapInv, InodeEntryInv, Settled
<1>4. SameGenerationSameInodes' /\ InodeCacheCoherent'
  BY <1>1, Zenon DEF SameGenerationSameInodes, InodeCacheCoherent, InodeHit
<1> QED BY <1>2, <1>3, <1>4, Zenon

\* Every step of a read is one.
LEMMA ReadMoves ==
  ASSUME VersionInv, NEW r \in Reader, ReadStep(r) \/ \E p \in Path : Resolve(r, p)
  PROVE  Moves(r) /\ UNCHANGED inodes
<1>1. PICK x \in Reading : rpc' = [rpc EXCEPT ![r] = x]
  <2>1. CASE \E p \in Path : Resolve(r, p)
    BY <2>1, Zenon DEF Resolve, Reading
  <2>2. CASE WalkHit(r) \/ WalkMiss(r) \/ WalkFetch(r) \/ Resolved(r)
    BY <2>2, Zenon DEF WalkHit, WalkMiss, WalkFetch, Resolved, Descend, Reading
  <2>3. CASE LoadHit(r) \/ LoadMiss(r) \/ LoadFetch(r) \/ Return(r)
    BY <2>3, Zenon DEF LoadHit, LoadMiss, LoadFetch, Return, Hand, Reading
  <2> QED BY <2>1, <2>2, <2>3, Zenon DEF ReadStep
<1>2. rpc[r] \in Reading /\ UNCHANGED <<engine, version, writers, snap, rgen, inodes>>
  <2>1. CASE \E p \in Path : Resolve(r, p)
    BY <2>1, Zenon DEF Resolve, Reading, caches
  <2>2. CASE WalkHit(r) \/ WalkMiss(r) \/ WalkFetch(r) \/ Resolved(r)
    BY <2>2, Zenon DEF WalkHit, WalkMiss, WalkFetch, Resolved, Reading, caches
  <2>3. CASE LoadHit(r) \/ LoadMiss(r) \/ LoadFetch(r) \/ Return(r)
    BY <2>3, Zenon DEF LoadHit, LoadMiss, LoadFetch, Return, Reading, caches
  <2> QED BY <2>1, <2>2, <2>3, Zenon DEF ReadStep
<1> QED BY <1>1, <1>2, MovesTo, Zenon

\* Opening, snapshotting and closing a read transaction.
LEMMA InodeOutside ==
  ASSUME VersionInv, InodeInv, NEW r \in Reader, ReadLock(r) \/ BeginRead(r) \/ Close(r)
  PROVE  InodeInv'
<1>1. /\ rpc'[r] \in {"idle"} \cup Opening /\ (rpc'[r] = "snapped" => snap'[r] = db)
      /\ \A q \in Reader : q # r =>
           rpc'[q] = rpc[q] /\ snap'[q] = snap[q] /\ rgen'[q] = rgen[q]
  BY Zenon DEF ReadLock, BeginRead, Close, VersionInv, TypeOK, Opening
<1>2. UNCHANGED <<engine, gen, writers, inodes>>
  BY Zenon DEF ReadLock, BeginRead, Close, version, caches
<1>3. \A q \in Reader : IsOpen(q)' => q # r /\ IsOpen(q)
  BY <1>1, Zenon DEF IsOpen, Opening, Reading
<1>4. InodeWorkInv'
  BY <1>2, Zenon DEF InodeInv, InodeWorkInv, engine, writers
<1>5. InodeSnapInv' /\ InodeEntryInv'
  BY <1>1, <1>2, <1>3, Zenon DEF InodeInv, InodeSnapInv, InodeEntryInv, Settled, engine, writers
<1>6. SameGenerationSameInodes'
  BY <1>1, <1>3 DEF InodeInv, SameGenerationSameInodes
<1>7. InodeCacheCoherent'
  BY <1>1, <1>2, <1>3, Zenon DEF InodeInv, InodeCacheCoherent, InodeHit
<1> QED BY <1>4, <1>5, <1>6, <1>7, Zenon DEF InodeInv

\* The captured pair is a pair of one version of $inodes too.
LEMMA InodeCapture ==
  ASSUME VersionInv, InodeInv, NEW r \in Reader, Capture(r) PROVE InodeInv'
<1>1. /\ gen \in Nat /\ rpc[r] = "snapped" /\ rpc'[r] = "open" /\ rgen'[r] = gen
      /\ \A q \in Reader : q # r => rpc'[q] = rpc[q] /\ rgen'[q] = rgen[q]
      /\ UNCHANGED <<engine, gen, writers, snap, inodes>>
  BY Zenon DEF Capture, VersionInv, TypeOK, caches
<1>2. Settled /\ snap[r].inodes = db.inodes
  BY <1>1, KeyAssumption DEF VersionInv, LockInv, Settled, Opening, InodeInv, InodeSnapInv
<1>3. \A q \in Reader : q # r => (IsOpen(q)' <=> IsOpen(q))
  BY <1>1, Zenon DEF IsOpen
<1>4. InodeWorkInv'
  BY <1>1, Zenon DEF InodeInv, InodeWorkInv, engine, writers
<1>5. InodeSnapInv' /\ InodeEntryInv'
  BY <1>1, <1>2, <1>3, Zenon DEF InodeInv, InodeSnapInv, InodeEntryInv, Settled, engine, writers
<1>6. SameGenerationSameInodes'
  <2>1. ASSUME NEW q \in Reader, q # r, IsOpen(q)', rgen'[q] = rgen'[r]
        PROVE  snap'[q].inodes = snap'[r].inodes
    BY <1>1, <1>2, <1>3, <2>1, Zenon DEF InodeInv, InodeSnapInv
  <2>2. ASSUME NEW p \in Reader, NEW q \in Reader, p # r, q # r,
               IsOpen(p)', IsOpen(q)', rgen'[p] = rgen'[q]
        PROVE  snap'[p].inodes = snap'[q].inodes
    BY <1>1, <1>3, <2>2, Zenon DEF InodeInv, SameGenerationSameInodes
  <2> QED BY <2>1, <2>2, Zenon DEF SameGenerationSameInodes
<1>7. InodeCacheCoherent'
  <2> SUFFICES ASSUME NEW q \in Reader, NEW k \in AKey, IsOpen(q)',
                      <<rgen'[q], k>> \in DOMAIN inodes
      PROVE  inodes[<<rgen'[q], k>>] = snap[q].inodes[k]
    BY <1>1, Zenon DEF InodeCacheCoherent, InodeHit
  <2>1. CASE q = r
    BY <1>1, <1>2, <2>1, Zenon DEF InodeInv, InodeEntryInv
  <2>2. CASE q # r
    BY <1>1, <1>3, <2>2, Zenon DEF InodeInv, InodeCacheCoherent, InodeHit
  <2> QED BY <2>1, <2>2, Zenon
<1> QED BY <1>4, <1>5, <1>6, <1>7, Zenon DEF InodeInv

\* A reader may cache, under its generation, an inode of its own snapshot.
LEMMA InodeMeta ==
  ASSUME VersionInv, InodeInv, NEW r \in Reader, NEW k \in AKey, Meta(r, k)
  PROVE  InodeInv'
<1> DEFINE new == <<rgen[r], k>>
<1>1. /\ rpc[r] = "open" /\ UNCHANGED <<engine, version, writers, readers>>
      /\ put_inode(rgen[r], k, snap[r].inodes[k])
  BY Zenon DEF Meta
<1>2. /\ new \in DOMAIN inodes' /\ inodes'[new] = snap[r].inodes[k]
      /\ \A x \in DOMAIN inodes' : x # new => x \in DOMAIN inodes /\ inodes'[x] = inodes[x]
  <2>1. Puts(inodes, inodes', new, snap[r].inodes[k])
    BY <1>1, LruPutEntries, Zenon DEF put_inode
  <2> QED BY <2>1, Zenon DEF Puts
<1>3. /\ IsOpen(r) /\ rgen[r] <= gen
      /\ (Settled /\ rgen[r] = gen => snap[r].inodes = db.inodes)
  BY <1>1, OpenFacts, Zenon DEF Reading, InodeInv, InodeSnapInv
<1>4. /\ UNCHANGED <<db, mutex, work, wpc, wkind, gen, snap, rgen, rpc>>
      /\ \A q \in Reader : IsOpen(q)' <=> IsOpen(q)
  BY <1>1, Zenon DEF engine, version, writers, readers, IsOpen
<1>5. InodeWorkInv' /\ InodeSnapInv' /\ SameGenerationSameInodes'
  BY <1>4, Zenon DEF InodeInv, InodeWorkInv, InodeSnapInv, SameGenerationSameInodes, Settled
<1>6. InodeEntryInv'
  <2> SUFFICES ASSUME NEW x \in DOMAIN inodes'
      PROVE  x[1] <= gen /\ (Settled /\ x[1] = gen => inodes'[x] = db.inodes[x[2]])
    BY <1>4, Zenon DEF InodeEntryInv, Settled
  <2>1. CASE x = new
    BY <1>2, <1>3, <2>1, Zenon
  <2>2. CASE x # new
    BY <1>2, <2>2, Zenon DEF InodeInv, InodeEntryInv
  <2> QED BY <2>1, <2>2, Zenon
<1>7. InodeCacheCoherent'
  <2> SUFFICES ASSUME NEW q \in Reader, NEW j \in AKey, IsOpen(q),
                      <<rgen[q], j>> \in DOMAIN inodes'
      PROVE  inodes'[<<rgen[q], j>>] = snap[q].inodes[j]
    BY <1>4, Zenon DEF InodeCacheCoherent, InodeHit
  <2>1. CASE <<rgen[q], j>> = new
    <3>1. rgen[q] = rgen[r] /\ j = k
      BY <2>1, Zenon
    <3>2. snap[q].inodes = snap[r].inodes
      BY <1>3, <3>1, Zenon DEF InodeInv, SameGenerationSameInodes
    <3> QED BY <1>2, <2>1, <3>1, <3>2, Zenon
  <2>2. CASE <<rgen[q], j>> # new
    BY <1>2, <2>2, Zenon DEF InodeInv, InodeCacheCoherent, InodeHit
  <2> QED BY <2>1, <2>2, Zenon
<1> QED BY <1>5, <1>6, <1>7, Zenon DEF InodeInv

\* Every step keeps the invariant of the inode cache.
LEMMA InodeKeeps ==
  ASSUME "acl" \notin Kind, VersionInv, InodeInv, [Next]_vars PROVE InodeInv'
<1>1. ASSUME NEW w \in Writer, WriterStep(w) PROVE InodeInv'
  BY <1>1, InodeWriterStays, InodeCommitLocked, InodeCommitUnlocked, InodeBump, Zenon
     DEF WriterStep
<1>2. ASSUME NEW r \in Reader, ReaderStep(r) PROVE InodeInv'
  <2>1. CASE ReadStep(r) \/ \E p \in Path : Resolve(r, p)
    BY <2>1, ReadMoves, InodeMoves, Zenon
  <2>2. CASE ReadLock(r) \/ BeginRead(r) \/ Close(r)
    BY <2>2, InodeOutside, Zenon
  <2>3. CASE Capture(r) \/ \E k \in AKey : Meta(r, k)
    BY <2>3, InodeCapture, InodeMeta, Zenon
  <2> QED BY <1>2, <2>1, <2>2, <2>3, Zenon DEF ReaderStep
<1>3. CASE UNCHANGED vars
  BY <1>3, Zenon DEF vars, engine, version, writers, readers, caches, InodeInv, InodeWorkInv,
     InodeSnapInv, InodeEntryInv, SameGenerationSameInodes, InodeCacheCoherent, InodeHit,
     IsOpen, Settled
<1> QED BY <1>1, <1>2, <1>3, InodeCrashStep, Zenon DEF Next

\* The inode cache never answers for another version, whatever the threads,
\* keys and capacities, as long as no transaction of the kinds that rewrite
\* $inodes without the version lock runs (remove_group, promote_to_master).
THEOREM InodesCoherent == "acl" \notin Kind => (Spec => []InodeCacheCoherent)
<1> SUFFICES ASSUME "acl" \notin Kind PROVE Spec => []InodeCacheCoherent
  BY Zenon
<1>1. Init => InodeInv
  BY InodeInitStep, Zenon
<1>2. VersionInv /\ InodeInv /\ [Next]_vars => InodeInv'
  BY InodeKeeps, Zenon
<1>3. InodeInv => InodeCacheCoherent
  BY Zenon DEF InodeInv
<1> QED BY <1>1, <1>2, <1>3, VersionInvariant, PTL DEF Spec

=============================================================================
