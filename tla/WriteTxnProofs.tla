---------------------------- MODULE WriteTxnProofs ----------------------------
(***************************************************************************)
(* Write transactions on tables of any size: the table a transaction would *)
(* commit is a tree whatever calls it makes, and a cursor's key is trusted *)
(* only while its path leads there.                                        *)
(***************************************************************************)
EXTENDS WriteTxn, ArborPathProofs

-----------------------------------------------------------------------------
(* Tables. *)

\* A new transaction sees the committed table.
LEMMA NewStoreIs ==
  ASSUME NEW V \in Table, NEW b \in BOOLEAN
  PROVE  Good(NewStore(V, b)) /\ Seen(NewStore(V, b)) = V /\ NewStore(V, b).structure = 0
<1> DEFINE s == NewStore(V, b)
<1>1. /\ s \in Store /\ s.data = V /\ s.structure = 0
      /\ \A k \in AKey : s.files[k] = None /\ s.dirs[k] = None
  BY Zenon DEF NewStore, Store, NotBuffered
<1> HIDE DEF s
<1>2. \A k \in AKey : BufferedAt(s, k) /\ Seen(s)[k] = V[k]
  BY <1>1, Through, Zenon
<1>3. Seen(s) \in Table
  BY <1>1, SeenIs, Zenon
<1>4. Seen(s) = V
  BY <1>2, <1>3 DEF Table
<1> QED BY <1>1, <1>2, <1>4, Zenon DEF Good, Buffered, s

\* A table is well-formed when its links are a tree of its entries.
LEMMA RootedIs ==
  ASSUME NEW V \in Table PROVE Rooted(V) <=> IsTree(V)
<1> DEFINE s == NewStore(V, FALSE)
           to(l) == child_of(V[l[1]], l[2])
           ls == {l \in AKey \X Name : to(l) # None}
<1>1. Good(s) /\ Seen(s) = V
  BY NewStoreIs, Zenon
<1>2. Subtree(s, ROOT) = Under(Links(V), ROOT)
  BY <1>1, RootAssumption, SubtreeIsUnder, Zenon
<1> HIDE DEF s
<1>3. WellFormed(V) <=>
        /\ \A l \in ls : V[to(l)] # None /\ to(l) # ROOT
        /\ \A l, m \in ls : to(l) = to(m) => l = m
        /\ \A k \in AKey : V[k] # None => k \in Under(Links(V), ROOT)
  BY <1>2, Zenon DEF WellFormed, s
<1>4. /\ Links(V) \in [AKey -> Children]
      /\ \A k \in AKey, n \in Name :
           /\ Links(V)[k][n] = child_of(V[k], n)
           /\ Links(V)[k][n] # None => V[k] # None /\ Links(V)[k][n] \in AKey
  <2>1. Links(V) \in [AKey -> Children]
    BY LinksAre, Zenon
  <2>2. \A k \in AKey, n \in Name : Links(V)[k][n] \in AKey \cup {None}
    BY <2>1, Zenon DEF Children
  <2> QED BY <2>1, <2>2, LinksAre, Zenon
<1>5. /\ (\A l \in ls : V[to(l)] # None /\ to(l) # ROOT) <=>
           \A k \in AKey, n \in Name : Links(V)[k][n] # None =>
             V[Links(V)[k][n]] # None /\ Links(V)[k][n] # ROOT
      /\ (\A l, m \in ls : to(l) = to(m) => l = m) <=> OneLink(Links(V), AKey)
  <2>1. \A k \in AKey, n \in Name : to(<<k, n>>) = Links(V)[k][n] /\ <<k, n>> \in AKey \X Name
    BY <1>4, Zenon
  <2>2. \A l \in AKey \X Name : l[1] \in AKey /\ l[2] \in Name /\ l = <<l[1], l[2]>>
    OBVIOUS
  <2>3. \A j, k \in AKey, m, n \in Name : <<j, m>> = <<k, n>> <=> j = k /\ m = n
    BY Zenon
  <2>4. \A l : l \in ls <=> l \in AKey \X Name /\ to(l) # None
    BY Zenon
  <2> HIDE DEF to, ls
  <2>5. ASSUME \A k \in AKey, n \in Name : Links(V)[k][n] # None =>
                 V[Links(V)[k][n]] # None /\ Links(V)[k][n] # ROOT,
               NEW l \in ls
        PROVE  V[to(l)] # None /\ to(l) # ROOT
    <3>1. l[1] \in AKey /\ l[2] \in Name /\ to(l) = Links(V)[l[1]][l[2]] /\ to(l) # None
      BY <2>1, <2>2, <2>4, <2>5
    <3> QED BY <2>5, <3>1, Zenon
  <2>6. ASSUME OneLink(Links(V), AKey), NEW l \in ls, NEW m \in ls, to(l) = to(m)
        PROVE  l = m
    <3>1. PICK i \in AKey, h \in Name : l = <<i, h>> /\ Links(V)[i][h] = to(l)
      BY <2>1, <2>2, <2>4
    <3>2. PICK k \in AKey, n \in Name : m = <<k, n>> /\ Links(V)[k][n] = to(l)
      BY <2>1, <2>2, <2>4, <2>6
    <3>3. to(l) # None
      BY <2>4, Zenon
    <3> DEFINE c == to(l)
    <3>4. Links(V)[i][h] = c /\ Links(V)[k][n] = c /\ c # None
      BY <3>1, <3>2, <3>3, Zenon
    <3> HIDE DEF c
    <3> DEFINE L == Links(V)
    <3>5. OneLink(L, AKey) /\ L[i][h] = c /\ L[k][n] = c /\ c # None
      BY <2>6, <3>4, Zenon
    <3> HIDE DEF L
    <3>6. i = k /\ h = n
      BY <3>5, SameLink
    <3> QED BY <3>1, <3>2, <3>6, Zenon
  <2>7. ASSUME \A l \in ls : V[to(l)] # None /\ to(l) # ROOT,
               NEW k \in AKey, NEW n \in Name, Links(V)[k][n] # None
        PROVE  V[Links(V)[k][n]] # None /\ Links(V)[k][n] # ROOT
    <3>1. to(<<k, n>>) = Links(V)[k][n] /\ <<k, n>> \in ls
      BY <2>1, <2>4, <2>7, Zenon
    <3>2. V[to(<<k, n>>)] # None /\ to(<<k, n>>) # ROOT
      BY <2>7, <3>1, Zenon
    <3> QED BY <3>1, <3>2, Zenon
  <2>8. ASSUME \A l, m \in ls : to(l) = to(m) => l = m,
               NEW j \in AKey, NEW k \in AKey, NEW m \in Name, NEW n \in Name,
               Links(V)[j][m] # None, Links(V)[j][m] = Links(V)[k][n]
        PROVE  j = k /\ m = n
    <3>1. to(<<j, m>>) = Links(V)[j][m] /\ <<j, m>> \in ls
      BY <2>1, <2>4, <2>8, Zenon
    <3>2. to(<<k, n>>) = Links(V)[k][n] /\ <<k, n>> \in ls
      BY <2>1, <2>4, <2>8, Zenon
    <3>3. to(<<j, m>>) = to(<<k, n>>)
      BY <2>8, <3>1, <3>2, Zenon
    <3>4. <<j, m>> = <<k, n>>
      BY <2>8, <3>1, <3>2, <3>3, Zenon
    <3> QED BY <2>3, <3>4, Zenon
  <2>9. OneLink(Links(V), AKey) <=>
          \A j, k \in AKey, m, n \in Name :
            Links(V)[j][m] # None /\ Links(V)[j][m] = Links(V)[k][n] => j = k /\ m = n
    BY Zenon DEF OneLink
  <2>10. (\A l, m \in ls : to(l) = to(m) => l = m) <=> OneLink(Links(V), AKey)
    <3>1. OneLink(Links(V), AKey) => \A l, m \in ls : to(l) = to(m) => l = m
      BY <2>6, Zenon
    <3>2. (\A l, m \in ls : to(l) = to(m) => l = m) => OneLink(Links(V), AKey)
      BY <2>8, <2>9
    <3> QED BY <3>1, <3>2, Zenon
  <2>11. (\A l \in ls : V[to(l)] # None /\ to(l) # ROOT) <=>
           \A k \in AKey, n \in Name : Links(V)[k][n] # None =>
             V[Links(V)[k][n]] # None /\ Links(V)[k][n] # ROOT
    BY <2>5, <2>7, Zenon
  <2> QED BY <2>10, <2>11, Zenon
<1> HIDE DEF ls, to
<1>6. LiveLinks(Links(V), Live(V)) <=>
        \A k \in AKey, n \in Name : Links(V)[k][n] # None =>
          V[Links(V)[k][n]] # None /\ Links(V)[k][n] # ROOT
  BY <1>4, Zenon DEF LiveLinks, Live
<1>7. Live(V) \subseteq AKey /\ (Live(V) \subseteq Under(Links(V), ROOT) <=>
        \A k \in AKey : V[k] # None => k \in Under(Links(V), ROOT))
  BY Zenon DEF Live
<1> QED BY <1>3, <1>4, <1>5, <1>6, <1>7, Zenon DEF Rooted, IsTree, Tree

\* A flush, buffering from there on or not, leaves what is seen.
LEMMA TakeAndDisable ==
  ASSUME NEW s, Sound(s)
  PROVE  /\ Sound(take_and_disable(s)) /\ Grew(s, take_and_disable(s))
         /\ Seen(take_and_disable(s)) = Seen(s) /\ take_and_disable(s).data = Seen(s)
         /\ take_and_disable(s).structure = s.structure /\ ~ take_and_disable(s).buffering
<1> DEFINE t == take_and_disable(s)
<1>1. s \in Store /\ Seen(s) \in Table /\ Links(Seen(s)) \in [AKey -> Children]
  BY Views, Zenon DEF Sound
<1>2. /\ t.data = Seen(s) /\ t.structure = s.structure /\ t.buffering = FALSE
      /\ \A k \in AKey : t.files[k] = None /\ t.dirs[k] = None
  BY <1>1, Zenon DEF take_and_disable, flush_buffered, Seen, NotBuffered
<1>3. t \in Store
  <2>1. s.structure \in Nat
    BY <1>1, Zenon DEF Store
  <2>2. flush_buffered(s).data \in Table
    BY <1>1, Zenon DEF Seen
  <2> QED BY <2>1, <2>2, Zenon DEF take_and_disable, flush_buffered, NotBuffered, Store
<1> HIDE DEF t
<1>4. \A k \in AKey : BufferedAt(t, k) /\ Seen(t)[k] = Seen(s)[k]
  BY <1>2, <1>3, Through, Zenon
<1>5. Seen(t) = Seen(s)
  <2>1. Seen(t) \in Table
    BY <1>3, SeenIs, Zenon
  <2> QED BY <1>1, <1>4, <2>1 DEF Table
<1>6. Sound(t)
  BY <1>3, <1>4, <1>5, Zenon DEF Sound, Good, Buffered
<1>7. s.structure <= t.structure
  BY <1>1, <1>2 DEF Store
<1>8. Grew(s, t)
  BY <1>2, <1>5, <1>7, Zenon DEF Grew, Since, SameFile
<1> QED BY <1>2, <1>5, <1>6, <1>8, Zenon DEF t

-----------------------------------------------------------------------------
(* Index rows. *)

\* The walk of the pattern from the root, level by level.
Levels(V, scope, f, m) ==
  f = [d \in 0..m |-> IF d = 0 THEN {ROOT} ELSE UNION {step(V, scope, k, d) : k \in f[d - 1]}]

\* The walk has every level.
LEMMA LevelsExist ==
  ASSUME NEW V, NEW scope, NEW n \in Nat PROVE \E f : Levels(V, scope, f, n)
<1> DEFINE T == {m \in Nat : \E f : Levels(V, scope, f, m)}
           Up(X, d) == UNION {step(V, scope, k, d) : k \in X}
<1>1. 0 \in T
  <2> DEFINE f == [d \in 0..0 |-> {ROOT}]
  <2>1. Levels(V, scope, f, 0)
    BY DEF Levels
  <2> QED BY <2>1, Zenon
<1>2. ASSUME NEW m \in Nat, m \in T PROVE m + 1 \in T
  <2>1. PICK f : Levels(V, scope, f, m)
    BY <1>2, Zenon
  <2> DEFINE g == [d \in 0..(m + 1) |-> IF d = m + 1 THEN Up(f[m], m + 1) ELSE f[d]]
  <2>2. m + 1 \in Nat /\ \A d \in 0..m : d \in 0..(m + 1) /\ d # m + 1
    OBVIOUS
  <2>3. f = [d \in 0..m |-> IF d = 0 THEN {ROOT} ELSE Up(f[d - 1], d)]
    BY <2>1, Zenon DEF Levels
  <2> HIDE DEF Up
  <2>4. g[m + 1] = Up(f[m], m + 1) /\ \A d \in 0..m : g[d] = f[d]
    BY <2>2
  <2>5. \A d \in 0..(m + 1) : g[d] = IF d = 0 THEN {ROOT} ELSE Up(g[d - 1], d)
    <3>1. ASSUME NEW d \in 0..m PROVE g[d] = IF d = 0 THEN {ROOT} ELSE Up(g[d - 1], d)
      <4>1. d # 0 => d - 1 \in 0..m
        OBVIOUS
      <4>2. f[d] = IF d = 0 THEN {ROOT} ELSE Up(f[d - 1], d)
        BY <2>3, Zenon
      <4> HIDE DEF g
      <4> QED BY <2>4, <4>1, <4>2, Zenon
    <3>2. (m + 1) - 1 = m /\ m + 1 # 0 /\ m \in 0..m
      OBVIOUS
    <3>3. g[m + 1] = Up(g[m], m + 1)
      <4> HIDE DEF g
      <4> QED BY <2>4, <3>2, Zenon
    <3>4. \A d \in 0..(m + 1) : d \in 0..m \/ d = m + 1
      OBVIOUS
    <3> HIDE DEF g
    <3> QED BY <3>1, <3>2, <3>3, <3>4, Zenon
  <2>6. Levels(V, scope, g, m + 1)
    <3>1. g = [d \in 0..(m + 1) |-> IF d = 0 THEN {ROOT} ELSE Up(g[d - 1], d)]
      BY <2>5, Zenon
    <3> HIDE DEF g
    <3> QED BY <3>1, Zenon DEF Levels, Up
  <2> QED BY <2>2, <2>6, Zenon
<1> HIDE DEF T
<1>3. n \in T
  BY <1>1, <1>2, Inherited, Zenon
<1> QED BY <1>3, Zenon DEF T

\* The walk goes from a-node to a-node.
LEMMA StepKeys ==
  ASSUME NEW V \in Table, NEW scope \in Seq(Name), NEW k \in AKey, NEW d \in 1..Len(Pattern)
  PROVE  step(V, scope, k, d) \subseteq AKey
<1>1. \A n \in Name : child_of(V[k], n) \in AKey \cup {None}
  <2>1. Links(V) \in [AKey -> Children]
    BY LinksAre, Zenon
  <2>2. \A n \in Name : Links(V)[k][n] \in AKey \cup {None}
    BY <2>1, Zenon DEF Children
  <2> QED BY <2>2, LinksAre, Zenon
<1>2. V[k] # None /\ V[k].kind = "dir" => Targets(V[k].children) \subseteq AKey
  <2>1. V[k] # None => V[k] \in Entry
    BY Zenon DEF Table
  <2>2. \A m \in Children : Targets(m) \subseteq AKey
    BY Zenon DEF Children, Targets
  <2> QED BY <2>1, <2>2, Entries, Zenon
<1>3. Pattern[d] \in Name \cup {Star} /\ (d <= Len(scope) => scope[d] \in Name)
  BY PatternAssumption
<1> QED BY <1>1, <1>2, <1>3, Zenon DEF step

\* The entities on a scope's line are a-nodes.
LEMMA AffectedKeys ==
  ASSUME NEW V \in Table, NEW scope \in Seq(Name)
  PROVE  affected_entities(V, scope) \subseteq AKey
<1> DEFINE N == Len(Pattern)
           level == CHOOSE f : Levels(V, scope, f, N)
<1>1. N \in Nat
  BY PatternAssumption
<1>2. affected_entities(V, scope) = level[N]
  BY Zenon DEF affected_entities, Levels
<1>3. Levels(V, scope, level, N)
  BY <1>1, LevelsExist, Zenon
<1> HIDE DEF level
<1>4. level = [d \in 0..N |-> IF d = 0 THEN {ROOT} ELSE UNION {step(V, scope, k, d) : k \in level[d - 1]}]
  BY <1>3, Zenon DEF Levels
<1> DEFINE T == {d \in Nat : d <= N => level[d] \subseteq AKey}
<1>5. 0 \in T
  <2>1. 0 \in 0..N
    BY <1>1
  <2>2. level[0] = {ROOT}
    BY <1>4, <2>1, Zenon
  <2> QED BY <2>2, RootAssumption, Zenon
<1>6. ASSUME NEW d \in Nat, d \in T PROVE d + 1 \in T
  <2> SUFFICES ASSUME d + 1 <= N PROVE level[d + 1] \subseteq AKey
    OBVIOUS
  <2>1. d + 1 \in 0..N /\ d + 1 # 0 /\ (d + 1) - 1 = d /\ d + 1 \in 1..N /\ d <= N
    BY <1>1
  <2>2. level[d + 1] = UNION {step(V, scope, k, d + 1) : k \in level[d]}
    BY <1>4, <2>1, Zenon
  <2>3. level[d] \subseteq AKey
    BY <1>6, <2>1, Zenon
  <2>4. \A k \in AKey : step(V, scope, k, d + 1) \subseteq AKey
    BY <2>1, StepKeys, Zenon
  <2> QED BY <2>2, <2>3, <2>4, Zenon
<1> HIDE DEF T
<1>7. N \in T
  BY <1>1, <1>5, <1>6, Inherited, Zenon
<1> QED BY <1>1, <1>2, <1>7 DEF T

\* The rows of the entities on some lines.
LEMMA EntriesFor ==
  ASSUME NEW V \in Table, NEW scopes \in SUBSET Seq(Name)
  PROVE  entries_for(V, scopes) \subseteq Row
<1>1. \A k \in AKey : column_scalar(V, k) \in {Column[v] : v \in Value} \cup {Null}
  <2> TAKE k \in AKey
  <2>1. V[k] # None => V[k] \in Entry
    BY Zenon DEF Table
  <2>2. V[k] # None /\ V[k].kind = "file" => V[k].value \in Value
    BY <2>1, Entries, Zenon
  <2> QED BY <2>2, Zenon DEF column_scalar
<1>2. \A k \in AKey : [col |-> column_scalar(V, k), key |-> k] \in Row
  BY <1>1, Zenon DEF Row
<1>3. \A p \in scopes : affected_entities(V, p) \subseteq AKey
  BY AffectedKeys, Zenon
<1>4. \A p \in scopes :
        {[col |-> column_scalar(V, k), key |-> k] : k \in affected_entities(V, p)} \subseteq Row
  BY <1>2, <1>3, Zenon
<1> QED BY <1>4, Zenon DEF entries_for

\* What is left of the rows, and what is added to them, are rows.
LEMMA RowsStay ==
  ASSUME NEW rs \in SUBSET Row, NEW es \in SUBSET Row
  PROVE  delete(rs, es) \subseteq Row /\ \A x \in insert(rs, es) : x \subseteq Row
BY Zenon DEF delete, insert

-----------------------------------------------------------------------------
(* Reads, and the calls. *)

\* A read of the transaction finds what the mutations find.
LEMMA ReadsThrough ==
  ASSUME NEW s, Good(s)
  PROVE  \A p : resolve_buffered(s, p) = Walk(Links(Seen(s)), p)
<1> DEFINE next(k, n) == IF dir_buffered(s, k) # None THEN dir_buffered(s, k)[n]
                                                     ELSE child_of(s.data[k], n)
<1>1. \A k \in AKey, n \in Name : next(k, n) = Links(Seen(s))[k][n]
  <2> TAKE k \in AKey, n \in Name
  <2>1. s \in Store /\ Buffered(s) /\ BufferedAt(s, k)
    BY Zenon DEF Good, Buffered
  <2>2. dir_buffered(s, k) = s.dirs[k]
    BY <2>1, Gates, Zenon
  <2>3. Links(Seen(s))[k][n] = child_of(Seen(s)[k], n)
    BY <2>1, SeenIs, LinksAre, Zenon
  <2>4. Seen(s)[k] = IF s.files[k] # None THEN s.files[k]
                     ELSE IF s.dirs[k] # None THEN DirEntry(s.dirs[k]) ELSE s.data[k]
    BY <2>1, SeenIs, Zenon
  <2>5. CASE s.dirs[k] # None
    <3>1. s.files[k] = None
      BY <2>1, <2>5, Zenon DEF BufferedAt
    <3>2. s.dirs[k] \in Children
      BY <2>1, <2>5, StoreFields, Zenon
    <3>3. child_of(DirEntry(s.dirs[k]), n) = s.dirs[k][n]
      BY <3>2, Entries, Zenon DEF child_of
    <3> QED BY <2>2, <2>3, <2>4, <2>5, <3>1, <3>3, Zenon
  <2>6. CASE s.dirs[k] = None /\ s.files[k] # None
    <3>1. s.data[k].kind = "file" /\ s.files[k].kind = "file" /\ "file" # "dir"
      BY <2>1, <2>6, Zenon DEF BufferedAt
    <3>2. child_of(s.data[k], n) = None /\ child_of(s.files[k], n) = None
      BY <3>1, Zenon DEF child_of
    <3> QED BY <2>2, <2>3, <2>4, <2>6, <3>2, Zenon
  <2>7. CASE s.dirs[k] = None /\ s.files[k] = None
    BY <2>2, <2>3, <2>4, <2>7, Zenon
  <2> QED BY <2>5, <2>6, <2>7, Zenon
<1>2. Links(Seen(s)) = [k \in AKey |-> [n \in Name |-> Links(Seen(s))[k][n]]]
  BY Zenon DEF Links
<1> HIDE DEF next
<1>3. [k \in AKey |-> [n \in Name |-> next(k, n)]] = Links(Seen(s))
  BY <1>1, <1>2, Zenon
<1> QED BY <1>3, Zenon DEF resolve_buffered, next

\* fetch_mut accepts the path of a file only.
LEMMA FetchFile ==
  ASSUME NEW s, Sound(s), NEW p \in Seq(Name), resolve_with_kind(s, p).kind = "file"
  PROVE  /\ p # <<>> /\ resolve_with_kind(s, p).key \in AKey
         /\ Walk(Links(Seen(s)), p) = resolve_with_kind(s, p).key
<1> DEFINE k == resolve_buffered(s, p)
<1>1. /\ Good(s) /\ s \in Store /\ Buffered(s) /\ IsTree(Seen(s))
      /\ Links(Seen(s)) \in [AKey -> Children]
  BY Views, Zenon DEF Sound, Good
<1>2. k = Walk(Links(Seen(s)), p)
  BY <1>1, ReadsThrough, Zenon
<1> HIDE DEF k
<1>3. resolve_with_kind(s, p).key = k
  BY Zenon DEF resolve_with_kind, k
<1>4. /\ k # None /\ dir_buffered(s, k) = None /\ s.data[k] # None /\ s.data[k].kind = "file"
  BY EntryAssumption, Zenon DEF resolve_with_kind, k
<1>5. k \in AKey
  BY <1>1, <1>2, <1>4, WalkType, Zenon
<1>6. Seen(s)[k] # None /\ Seen(s)[k].kind = "file"
  <2>1. s.dirs[k] = None
    BY <1>1, <1>4, <1>5, Gates, Zenon
  <2>2. Seen(s)[k] = IF s.files[k] # None THEN s.files[k] ELSE s.data[k]
    BY <1>1, <1>5, <2>1, SeenIs, Zenon
  <2>3. s.files[k] # None => s.files[k].kind = "file"
    BY <1>1, <1>5, Zenon DEF Buffered, BufferedAt
  <2> QED BY <1>4, <2>2, <2>3, Zenon
<1>7. k # ROOT
  <2>1. "file" # "dir"
    BY Zenon
  <2> QED BY <1>1, <1>6, <2>1, Zenon DEF IsTree
<1>8. p # <<>>
  BY <1>2, <1>7, WalkEmpty, Zenon
<1> QED BY <1>2, <1>3, <1>5, <1>8, Zenon

\* The end of the record of a call is how it ended ...
Told(call) == \A h : Append(call, h)[Len(Append(call, h))] = h

\* ... whatever the call is.
LEMMA CallsTold ==
  \A a, b, c : Told(<<a, b>>) /\ Told(<<a, b, c>>)
BY DEF Told

\* What the invariant says, in terms of stores.
LEMMA InvIs ==
  ASSUME TreeInv
  PROVE  /\ TypeOK /\ db.data \in Table /\ db.rows \in SUBSET Row /\ rows \in SUBSET Row
         /\ IsTree(db.data) /\ (Open => txn \in Store /\ Sound(txn))
         /\ cursor # None =>
              /\ Open /\ cursor.path \in Seq(Name) /\ cursor.path # <<>> /\ cursor.key \in AKey
              /\ cursor.epoch \in Nat /\ cursor.epoch <= txn.structure
              /\ cursor.epoch = txn.structure => Walk(Links(Seen(txn)), cursor.path) = cursor.key
<1>1. /\ TypeOK /\ db.data \in Table /\ db.rows \in SUBSET Row /\ rows \in SUBSET Row
      /\ (Open => txn \in Store)
  BY Zenon DEF TreeInv, TypeOK, Open
<1>2. IsTree(db.data)
  BY <1>1, RootedIs, Zenon DEF TreeInv
<1>3. Open => Sound(txn)
  <2>1. Open => Seen(txn) \in Table /\ Rooted(Seen(txn)) /\ Buffered(txn)
    BY <1>1, SeenIs, Zenon DEF TreeInv
  <2> QED BY <1>1, <2>1, RootedIs, Zenon DEF Sound, Good
<1>4. cursor # None => cursor.path \in Seq(Name) /\ cursor.key \in AKey /\ cursor.epoch \in Nat
  BY PathsAssumption, Zenon DEF TreeInv, TypeOK, Cursor
<1>5. cursor # None => Open /\ cursor.path # <<>> /\ cursor.epoch <= txn.structure
  BY Zenon DEF TreeInv
<1>6. cursor # None /\ cursor.epoch = txn.structure => Walk(Links(Seen(txn)), cursor.path) = cursor.key
  <2>1. Open => resolve(txn, cursor.path) = Walk(Links(Seen(txn)), cursor.path)
    BY <1>3, Views, Zenon DEF Sound
  <2> QED BY <1>5, <2>1, Zenon DEF TreeInv, HintSound
<1> QED BY <1>1, <1>2, <1>3, <1>4, <1>5, <1>6, Zenon

\* The store that a call works on: the transaction's, written out if the index is kept.
LEMMA CurrentIs ==
  ASSUME Sound(txn)
  PROVE  Sound(Current) /\ \A t : Kept(Current, t) => Kept(txn, t)
<1>1. Sound(Current) /\ (Current = txn \/ Grew(txn, Current))
  BY TakeAndDisable, Zenon DEF Current
<1>2. ASSUME NEW t, Kept(Current, t), Grew(txn, Current) PROVE Kept(txn, t)
  BY <1>1, <1>2, KeptOn, Zenon DEF Kept
<1> QED BY <1>1, <1>2, Zenon

\* A call that keeps the tree and counts its relinks keeps what the invariant says of the
\* open transaction and of its cursor.
LEMMA Called ==
  ASSUME TreeInv, Open, Kept(txn, txn'), db' = db, cursor' = cursor
  PROVE  /\ txn' \in Store /\ Open' /\ Buffered(txn') /\ Rooted(Seen(txn'))
         /\ cursor # None => cursor.epoch <= txn'.structure
         /\ HintSound'
<1>1. /\ txn \in Store /\ Sound(txn)
      /\ cursor # None =>
           /\ Open /\ cursor.path \in Seq(Name) /\ cursor.path # <<>> /\ cursor.key \in AKey
           /\ cursor.epoch \in Nat /\ cursor.epoch <= txn.structure
           /\ cursor.epoch = txn.structure => Walk(Links(Seen(txn)), cursor.path) = cursor.key
  BY InvIs, Zenon
<1> DEFINE t == txn'
<1>2. Sound(t) /\ Since(txn, t)
  BY Zenon DEF Kept
<1>3. t \in Store /\ Good(t) /\ Buffered(t) /\ Seen(t) \in Table /\ IsTree(Seen(t))
  BY <1>2, Views, Zenon DEF Sound, Good
<1>4. t # None
  BY <1>3, StoreAssumption, Zenon
<1>5. Rooted(Seen(t))
  BY <1>3, RootedIs, Zenon
<1>6. resolve(t, cursor.path) = Walk(Links(Seen(t)), cursor.path)
  BY <1>3, Views, Zenon
<1>7. txn.structure \in Nat /\ t.structure \in Nat
  BY <1>1, <1>3, StoreFields, Zenon
<1>8. txn.structure <= t.structure /\ (t.structure = txn.structure => Links(Seen(t)) = Links(Seen(txn)))
  BY <1>2, Zenon DEF Since
<1> HIDE DEF t
<1>9. cursor # None => cursor.epoch <= t.structure
  BY <1>1, <1>7, <1>8
<1>10. ASSUME cursor # None, cursor.epoch = t.structure PROVE resolve(t, cursor.path) = cursor.key
  <2>1. t.structure = txn.structure /\ cursor.epoch = txn.structure
    BY <1>1, <1>7, <1>8, <1>10
  <2> QED BY <1>1, <1>6, <1>8, <1>10, <2>1, Zenon
<1>11. HintSound'
  BY <1>10, Zenon DEF HintSound, t
<1> QED BY <1>3, <1>4, <1>5, <1>9, <1>11, Zenon DEF t, Open

\* What a call does to the state, if it leaves the index's definition and the cursor alone.
LEMMA AfterCall ==
  ASSUME TreeInv, Open, Kept(txn, txn'), UNCHANGED <<shared, cursor>>,
         rows' \in SUBSET Row, failed' \in BOOLEAN, last'[Len(last')] \in Outcome
  PROVE  TreeInv'
<1>1. db' = db /\ has_indexes' = has_indexes /\ marking' = marking /\ cursor' = cursor
  BY Zenon DEF shared
<1>2. /\ txn' \in Store /\ Open' /\ Buffered(txn') /\ Rooted(Seen(txn'))
      /\ cursor # None => cursor.epoch <= txn'.structure
      /\ HintSound'
  BY <1>1, Called, Zenon
<1>3. TypeOK'
  BY <1>1, <1>2, Zenon DEF TreeInv, TypeOK
<1> QED BY <1>1, <1>2, <1>3, Zenon DEF TreeInv

\* What a mutation of s yields.
Yields(s, r) ==
  r.res \in {"ok", "none", "err", "full"} /\ (r.res # "full" => Kept(s, r.store))

\* Index maintenance around a call: rows stay rows.
LEMMA Reindexed ==
  ASSUME TreeInv, Open, NEW call, Told(call), UNCHANGED <<shared, cursor>>,
         NEW scopes \in SUBSET Seq(Name), NEW r, Yields(Current, r), reindex_around(call, scopes, r)
  PROVE  TreeInv'
<1>1. /\ rows \in SUBSET Row /\ Sound(txn)
  BY InvIs, Zenon
<1>2. r.res # "full" /\ txn' = r.store
  BY Zenon DEF reindex_around
<1>3. Kept(txn, txn')
  BY <1>1, <1>2, CurrentIs, Zenon DEF Yields
<1> DEFINE kept == delete(rows, entries_for(Current.data, scopes))
           new == entries_for(r.store.data, scopes)
<1>4. Current.data \in Table /\ r.store.data \in Table
  <2>1. Current \in Store /\ r.store \in Store
    BY <1>1, <1>2, CurrentIs, Zenon DEF Yields, Kept, Sound, Good
  <2> QED BY <2>1, Zenon DEF Store
<1>5. kept \in SUBSET Row /\ new \in SUBSET Row /\ \A x \in insert(kept, new) : x \in SUBSET Row
  <2>1. entries_for(Current.data, scopes) \in SUBSET Row /\ new \in SUBSET Row
    BY <1>4, EntriesFor, Zenon
  <2>2. kept \in SUBSET Row
    BY <1>1, <2>1, RowsStay, Zenon
  <2> QED BY <2>1, <2>2, RowsStay, Zenon
<1>6. \/ rows' = rows /\ Ends(call, r.res)
      \/ rows' = kept /\ Ends(call, "err")
      \/ rows' \in insert(kept, new) /\ Ends(call, IF Collides(kept, new) THEN "err" ELSE r.res)
  BY Zenon DEF reindex_around
<1> HIDE DEF kept, new
<1>7. rows' \in SUBSET Row
  BY <1>1, <1>5, <1>6, Zenon
<1>8. \E h \in {"ok", "none", "err"} : Ends(call, h)
  <2>1. r.res \in {"ok", "none", "err"}
    BY <1>2, Zenon DEF Yields
  <2> QED BY <1>6, <2>1, Zenon
<1>9. PICK h \in {"ok", "none", "err"} : Ends(call, h)
  BY <1>8, Zenon
<1>10. failed' \in BOOLEAN
  BY <1>9, Zenon DEF Ends
<1>11. last'[Len(last')] \in Outcome
  <2>1. last'[Len(last')] = h
    BY <1>9, Zenon DEF Ends, Told
  <2> QED BY <2>1, Zenon DEF Outcome
<1> QED BY <1>3, <1>7, <1>10, <1>11, AfterCall, Zenon

\* A call that is refused.
LEMMA RefusedCall ==
  ASSUME TreeInv, Open, NEW call, Told(call), UNCHANGED <<shared, cursor>>, Refused(call)
  PROVE  TreeInv'
<1>1. txn' = txn /\ rows' = rows /\ last' = Append(call, "err") /\ failed' \in BOOLEAN
  BY Zenon DEF Refused, Ends
<1>2. Kept(txn, txn) /\ rows \in SUBSET Row
  BY InvIs, KeptOn, Zenon
<1>3. last'[Len(last')] = "err"
  BY <1>1, Zenon DEF Told
<1>4. last'[Len(last')] \in Outcome
  BY <1>3, Zenon DEF Outcome
<1>5. Kept(txn, txn') /\ rows' \in SUBSET Row
  BY <1>1, <1>2, Zenon
<1> QED BY <1>1, <1>4, <1>5, AfterCall, Zenon

\* store.
LEMMA StoreValueKeeps ==
  ASSUME TreeInv, NEW p \in StorePath, NEW v \in Value, StoreValue(p, v)
  PROVE  TreeInv'
<1> DEFINE call == <<"store", p, v>>
           r == store_blob_into(Current, p, v, Held)
<1>1. Open /\ UNCHANGED <<shared, cursor>> /\ p \in Seq(Name)
  BY PathsAssumption, Zenon DEF StoreValue, Calls
<1>2. Told(call)
  BY CallsTold, Zenon
<1>3. Sound(Current)
  BY <1>1, InvIs, CurrentIs, Zenon
<1>4. \/ p = <<>> /\ Refused(call)
      \/ p # <<>> /\ reindex_around(call, {p}, r)
  BY Zenon DEF StoreValue
<1> HIDE DEF call, r
<1>5. CASE p = <<>> /\ Refused(call)
  BY <1>1, <1>2, <1>5, RefusedCall, Zenon
<1>6. CASE p # <<>> /\ reindex_around(call, {p}, r)
  <2>1. r.res \in {"ok", "err", "full"} /\ Kept(Current, r.store)
    BY <1>1, <1>3, <1>6, StoreBlob, Zenon DEF r
  <2>2. Yields(Current, r)
    BY <2>1, Zenon DEF Yields
  <2> DEFINE lines == {p}
  <2>3. lines \in SUBSET Seq(Name) /\ reindex_around(call, lines, r)
    BY <1>1, <1>6, Zenon
  <2> HIDE DEF lines
  <2> QED BY <1>1, <1>2, <1>6, <2>2, <2>3, Reindexed, Zenon
<1> QED BY <1>4, <1>5, <1>6, Zenon

\* rm.
LEMMA RmKeeps ==
  ASSUME TreeInv, NEW p \in RmPath, Rm(p)
  PROVE  TreeInv'
<1> DEFINE call == <<"rm", p>>
           r == rm_into(Current, p)
<1>1. Open /\ UNCHANGED <<shared, cursor>> /\ p \in Seq(Name)
  BY PathsAssumption, Zenon DEF Rm, Calls
<1>2. Told(call)
  BY CallsTold, Zenon
<1>3. Sound(Current)
  BY <1>1, InvIs, CurrentIs, Zenon
<1>4. \/ p = <<>> /\ Refused(call)
      \/ p # <<>> /\ reindex_around(call, {p}, r)
  BY Zenon DEF Rm
<1> HIDE DEF call, r
<1>5. CASE p = <<>> /\ Refused(call)
  BY <1>1, <1>2, <1>5, RefusedCall, Zenon
<1>6. CASE p # <<>> /\ reindex_around(call, {p}, r)
  <2>1. r.res \in {"ok", "none"} /\ Kept(Current, r.store)
    BY <1>1, <1>3, <1>6, RmInto, Zenon DEF r
  <2>2. Yields(Current, r)
    BY <2>1, Zenon DEF Yields
  <2> DEFINE lines == {p}
  <2>3. lines \in SUBSET Seq(Name) /\ reindex_around(call, lines, r)
    BY <1>1, <1>6, Zenon
  <2> HIDE DEF lines
  <2> QED BY <1>1, <1>2, <1>6, <2>2, <2>3, Reindexed, Zenon
<1> QED BY <1>4, <1>5, <1>6, Zenon

\* mkdir, which the index does not see.
LEMMA MkdirKeeps ==
  ASSUME TreeInv, NEW p \in DirPath, Mkdir(p)
  PROVE  TreeInv'
<1> DEFINE d == ensure_dir(txn, p, Held)
<1>1. /\ Open /\ UNCHANGED <<shared, cursor>> /\ rows' = rows /\ p \in Seq(Name)
      /\ d.res # "full" /\ txn' = d.store /\ Ends(<<"mkdir", p>>, d.res)
  BY PathsAssumption, Zenon DEF Mkdir, Calls
<1>2. Sound(txn) /\ rows \in SUBSET Row
  BY <1>1, InvIs, Zenon
<1> HIDE DEF d
<1>3. d.res \in {"ok", "err", "full"} /\ Sound(d.store) /\ Grew(txn, d.store)
  <2>1. Ensured(txn, p, d)
    BY <1>1, <1>2, EnsureDir, Zenon DEF d
  <2> QED BY <2>1, Zenon DEF Ensured
<1>4. Kept(txn, txn')
  BY <1>1, <1>2, <1>3, KeptOn, Zenon
<1>5. last'[Len(last')] = d.res /\ failed' \in BOOLEAN
  <2>1. Told(<<"mkdir", p>>)
    BY CallsTold, Zenon
  <2> QED BY <1>1, <2>1, Zenon DEF Ends, Told
<1>6. last'[Len(last')] \in Outcome
  BY <1>1, <1>3, <1>5, Zenon DEF Outcome
<1> QED BY <1>1, <1>2, <1>4, <1>5, <1>6, AfterCall, Zenon

\* mv, but for upward ones.
LEMMA MvKeeps ==
  ASSUME TreeInv, NoneUpward, NEW m \in Moves, Mv(m[1], m[2])
  PROVE  TreeInv'
<1> DEFINE src == m[1]
           dst == m[2]
           call == <<"mv", src, dst>>
           r == mv_into(Current, src, dst, Held)
<1>1. Open /\ UNCHANGED <<shared, cursor>>
  BY Zenon DEF Mv, Calls
<1>2. src \in Seq(Name) /\ dst \in Seq(Name)
  BY PathsAssumption, Zenon
<1>3. starts_with(src, dst) => src = dst \/ dst = <<>>
  BY Zenon DEF NoneUpward
<1>4. Told(call)
  BY CallsTold, Zenon
<1>5. Sound(Current)
  BY <1>1, InvIs, CurrentIs, Zenon
<1>6. \/ Refused(call)
      \/ ~ starts_with(dst, src) /\ dst # <<>> /\ reindex_around(call, {src, dst}, r)
  BY Zenon DEF Mv
<1> HIDE DEF call, r, src, dst
<1>7. CASE Refused(call)
  BY <1>1, <1>4, <1>7, RefusedCall, Zenon
<1>8. CASE ~ starts_with(dst, src) /\ dst # <<>> /\ reindex_around(call, {src, dst}, r)
  <2>1. starts_with(src, src) /\ starts_with(dst, <<>>)
    BY <1>2 DEF starts_with
  <2>2. src # <<>> /\ ~ starts_with(src, dst)
    BY <1>3, <1>8, <2>1, Zenon
  <2>3. r.res \in {"ok", "err", "full"} /\ Kept(Current, r.store)
    BY <1>2, <1>5, <1>8, <2>2, MvInto, Zenon DEF r
  <2>4. Yields(Current, r)
    BY <2>3, Zenon DEF Yields
  <2> DEFINE lines == {src, dst}
  <2>5. lines \in SUBSET Seq(Name) /\ reindex_around(call, lines, r)
    BY <1>2, <1>8, Zenon
  <2> HIDE DEF lines
  <2> QED BY <1>1, <1>4, <1>8, <2>4, <2>5, Reindexed, Zenon
<1> QED BY <1>6, <1>7, <1>8, Zenon

\* cp, but for upward ones.
LEMMA CpKeeps ==
  ASSUME TreeInv, NoneUpward, NEW m \in Copies, Cp(m[1], m[2])
  PROVE  TreeInv'
<1> DEFINE src == m[1]
           dst == m[2]
           call == <<"cp", src, dst>>
           r == cp_into(Current, src, dst, Held)
<1>1. Open /\ UNCHANGED <<shared, cursor>>
  BY Zenon DEF Cp, Calls
<1>2. src \in Seq(Name) /\ dst \in Seq(Name)
  BY PathsAssumption, Zenon
<1>3. starts_with(src, dst) => src = dst \/ dst = <<>>
  BY Zenon DEF NoneUpward
<1>4. Told(call)
  BY CallsTold, Zenon
<1>5. Sound(Current)
  BY <1>1, InvIs, CurrentIs, Zenon
<1>6. \/ Refused(call)
      \/ ~ starts_with(dst, src) /\ dst # <<>> /\ reindex_around(call, {dst}, r)
  BY Zenon DEF Cp
<1> HIDE DEF call, r, src, dst
<1>7. CASE Refused(call)
  BY <1>1, <1>4, <1>7, RefusedCall, Zenon
<1>8. CASE ~ starts_with(dst, src) /\ dst # <<>> /\ reindex_around(call, {dst}, r)
  <2>1. starts_with(src, src) /\ starts_with(dst, <<>>)
    BY <1>2 DEF starts_with
  <2>2. src # <<>> /\ ~ starts_with(src, dst)
    BY <1>3, <1>8, <2>1, Zenon
  <2>3. r.res \in {"ok", "err", "full"} /\ (r.res # "full" => Kept(Current, r.store))
    BY <1>2, <1>5, <1>8, <2>2, CpInto, Zenon DEF r
  <2>4. Yields(Current, r)
    BY <2>3, Zenon DEF Yields
  <2> DEFINE lines == {dst}
  <2>5. lines \in SUBSET Seq(Name) /\ reindex_around(call, lines, r)
    BY <1>2, <1>8, Zenon
  <2> HIDE DEF lines
  <2> QED BY <1>1, <1>4, <1>8, <2>4, <2>5, Reindexed, Zenon
<1> QED BY <1>6, <1>7, <1>8, Zenon

\* A cursor's put_scalar.
LEMMA PutScalarKeeps ==
  ASSUME TreeInv, NEW v \in Value, PutScalar(v)
  PROVE  TreeInv'
<1> DEFINE call == <<"edit", v>>
           lines == {cursor.path}
           r == put_scalar_into(Current, cursor.path, cursor, v, Held)
<1>1. Open /\ cursor # None /\ UNCHANGED <<shared, cursor>> /\ reindex_around(call, lines, r)
  BY Zenon DEF PutScalar, Calls
<1>2. cursor.path \in Seq(Name) /\ cursor.path # <<>> /\ cursor.key \in AKey
  BY <1>1, InvIs, Zenon
<1>3. Told(call) /\ lines \in SUBSET Seq(Name)
  BY <1>2, CallsTold, Zenon
<1>4. Sound(Current)
  BY <1>1, InvIs, CurrentIs, Zenon
<1> HIDE DEF call, lines, r
<1>5. r.res \in {"ok", "err", "full"} /\ Kept(Current, r.store)
  BY <1>2, <1>4, PutScalarInto, Zenon DEF r
<1>6. Yields(Current, r)
  BY <1>5, Zenon DEF Yields
<1> QED BY <1>1, <1>3, <1>6, Reindexed, Zenon

\* Its other edits, which store the value again.
LEMMA CursorStoreKeeps ==
  ASSUME TreeInv, NEW v \in Value, CursorStore(v)
  PROVE  TreeInv'
<1> DEFINE call == <<"edit", v>>
           lines == {cursor.path}
           r == store_blob_into(Current, cursor.path, v, Held)
<1>1. /\ Open /\ cursor # None /\ UNCHANGED <<shared, cursor>>
      /\ Refused(call) \/ reindex_around(call, lines, r)
  BY Zenon DEF CursorStore, Calls
<1>2. cursor.path \in Seq(Name) /\ cursor.path # <<>>
  BY <1>1, InvIs, Zenon
<1>3. Told(call) /\ lines \in SUBSET Seq(Name)
  BY <1>2, CallsTold, Zenon
<1>4. Sound(Current)
  BY <1>1, InvIs, CurrentIs, Zenon
<1> HIDE DEF call, lines, r
<1>5. CASE Refused(call)
  BY <1>1, <1>3, <1>5, RefusedCall, Zenon
<1>6. CASE reindex_around(call, lines, r)
  <2>1. r.res \in {"ok", "err", "full"} /\ Kept(Current, r.store)
    BY <1>2, <1>4, StoreBlob, Zenon DEF r
  <2>2. Yields(Current, r)
    BY <2>1, Zenon DEF Yields
  <2> QED BY <1>1, <1>3, <1>6, <2>2, Reindexed, Zenon
<1> QED BY <1>1, <1>5, <1>6, Zenon

\* What fetch_mut finds is a file, a directory or nothing.
LEMMA FetchKinds ==
  ASSUME TreeInv, Open, NEW p \in CursorPath
  PROVE  /\ resolve_with_kind(txn, p).kind \in {"file", "dir", None}
         /\ "file" # None /\ "dir" # None
<1> DEFINE found == resolve_with_kind(txn, p)
           k == resolve_buffered(txn, p)
<1>1. p \in Seq(Name) /\ txn \in Store /\ Sound(txn)
  BY PathsAssumption, InvIs, Zenon
<1>2. k \in AKey \cup {None}
  <2>1. Good(txn) /\ Links(Seen(txn)) \in [AKey -> Children]
    BY <1>1, Views, Zenon DEF Sound
  <2>2. Walk(Links(Seen(txn)), p) \in AKey \cup {None}
    BY <1>1, <2>1, WalkType, Zenon
  <2> QED BY <2>1, <2>2, ReadsThrough, Zenon
<1> HIDE DEF k
<1>3. k \in AKey => txn.data[k] \in Entry \cup {None}
  BY <1>1, StoreFields, Zenon
<1>4. \A e \in Entry : e.kind \in {"file", "dir"}
  BY Entries, Zenon
<1>5. found.kind = IF k = None THEN None
                   ELSE IF dir_buffered(txn, k) # None THEN "dir"
                   ELSE IF txn.data[k] = None THEN None ELSE txn.data[k].kind
  BY Zenon DEF resolve_with_kind, k
<1>6. found.kind \in {"file", "dir", None}
  BY <1>2, <1>3, <1>4, <1>5, Zenon
<1> QED BY <1>6, EntryAssumption, Zenon

\* fetch_mut.
LEMMA FetchMutKeeps ==
  ASSUME TreeInv, NEW p \in CursorPath, FetchMut(p)
  PROVE  TreeInv'
<1> DEFINE found == resolve_with_kind(txn, p)
           call == <<"fetch_mut", p>>
           new == [path |-> p, key |-> found.key, epoch |-> txn.structure]
<1>1. Open /\ UNCHANGED <<shared, txn, rows>> /\ p \in Seq(Name)
  BY PathsAssumption, Zenon DEF FetchMut, Calls
<1>2. txn \in Store /\ Sound(txn) /\ rows \in SUBSET Row /\ txn.structure \in Nat
  BY <1>1, InvIs, StoreFields, Zenon
<1>3. found.kind \in {"file", "dir", None}
  BY <1>1, FetchKinds, Zenon
<1>4. found.kind = "file" =>
        p # <<>> /\ found.key \in AKey /\ Walk(Links(Seen(txn)), p) = found.key
  BY <1>1, <1>2, FetchFile, Zenon
<1>5. "file" # None /\ "dir" # None
  BY EntryAssumption, Zenon
<1>6. \/ found.kind = "file" /\ cursor' = new /\ Ends(call, "ok")
      \/ cursor' = cursor /\ \E h \in {"none", "err"} : Ends(call, h)
  <2>1. CASE found.kind = "file"
    BY <1>5, <2>1, Zenon DEF FetchMut
  <2>2. CASE found.kind = "dir"
    BY <1>5, <2>2, Zenon DEF FetchMut
  <2>3. CASE found.kind = None
    BY <1>5, <2>3, Zenon DEF FetchMut
  <2> QED BY <1>3, <2>1, <2>2, <2>3, Zenon
<1>7. Told(call)
  BY CallsTold, Zenon
<1> HIDE DEF found, call
<1>8. failed' \in BOOLEAN /\ last'[Len(last')] \in Outcome
  <2>1. PICK h \in {"ok", "none", "err"} : Ends(call, h)
    BY <1>6, Zenon
  <2>2. last'[Len(last')] = h /\ failed' \in BOOLEAN
    BY <1>7, <2>1, Zenon DEF Ends, Told
  <2> QED BY <2>2, Zenon DEF Outcome
<1>9. CASE cursor' = cursor
  <2>1. Kept(txn, txn') /\ rows' \in SUBSET Row /\ UNCHANGED <<shared, cursor>>
    BY <1>1, <1>2, <1>9, KeptOn, Zenon
  <2> QED BY <1>1, <1>8, <2>1, AfterCall, Zenon
<1>10. CASE found.kind = "file" /\ cursor' = new
  <2>1. /\ new \in Cursor /\ new.path = p /\ new.key = found.key /\ new.epoch = txn.structure
        /\ new.epoch <= txn.structure
    BY <1>2, <1>4, <1>10 DEF Cursor
  <2>2. resolve(txn, p) = found.key
    BY <1>2, <1>4, <1>10, Views, Zenon DEF Sound
  <2> HIDE DEF new
  <2>3. db' = db /\ has_indexes' = has_indexes /\ marking' = marking /\ txn' = txn /\ rows' = rows
    BY <1>1, Zenon DEF shared
  <2>4. TypeOK'
    BY <1>2, <1>8, <1>10, <2>1, <2>3, Zenon DEF TreeInv, TypeOK
  <2>5. HintSound'
    BY <1>10, <2>1, <2>2, <2>3, Zenon DEF HintSound
  <2>6. Open' /\ cursor'.path # <<>> /\ cursor'.epoch <= txn'.structure
    BY <1>1, <1>4, <1>10, <2>1, <2>3, Zenon DEF Open
  <2> QED BY <2>3, <2>4, <2>5, <2>6, Zenon DEF TreeInv, Open
<1> QED BY <1>6, <1>9, <1>10, Zenon

\* Table::write.
LEMMA BeginKeeps ==
  ASSUME TreeInv, Begin
  PROVE  TreeInv'
<1> DEFINE s == NewStore(db.data, ~has_indexes)
<1>1. /\ ~Open /\ txn' = s /\ rows' = db.rows /\ last' = <<"begin">>
      /\ UNCHANGED <<shared, cursor, failed>>
  BY Zenon DEF Begin
<1>2. /\ db.data \in Table /\ db.rows \in SUBSET Row /\ IsTree(db.data) /\ cursor = None
      /\ has_indexes \in BOOLEAN
  BY <1>1, InvIs, Zenon DEF TypeOK
<1>3. Good(s) /\ Seen(s) = db.data
  BY <1>2, NewStoreIs, Zenon
<1> HIDE DEF s
<1>4. s \in Store /\ Buffered(s) /\ Rooted(Seen(s))
  BY <1>2, <1>3, RootedIs, Zenon DEF Good
<1>5. last'[Len(last')] \in Outcome
  BY <1>1, Zenon DEF Outcome
<1>6. /\ db' = db /\ has_indexes' = has_indexes /\ marking' = marking /\ cursor' = None
      /\ failed' = failed
  BY <1>1, <1>2, Zenon DEF shared
<1>7. TypeOK'
  BY <1>1, <1>2, <1>4, <1>5, <1>6, Zenon DEF TreeInv, TypeOK
<1> QED BY <1>1, <1>4, <1>6, <1>7, Zenon DEF TreeInv, HintSound

\* Commit publishes what the transaction sees; a drop publishes nothing.
LEMMA CloseKeeps ==
  ASSUME TreeInv, Commit \/ Abandon
  PROVE  TreeInv'
<1>1. Open /\ \E how \in {"commit", "abandon"} : Closed(how)
  BY Zenon DEF Commit, Abandon
<1>2. PICK how \in {"commit", "abandon"} : Closed(how)
  BY <1>1, Zenon
<1>3. /\ txn' = None /\ rows' = {} /\ cursor' = None /\ failed' = FALSE /\ last' = <<how>>
      /\ has_indexes' = has_indexes /\ marking' = marking
  BY <1>2, Zenon DEF Closed
<1>4. last'[Len(last')] \in Outcome
  BY <1>3, Zenon DEF Outcome
<1>5. /\ db' \in [data : Table, rows : SUBSET Row, registered : BOOLEAN, unique : Uniques]
      /\ Rooted(db'.data)
  <2>1. /\ db \in [data : Table, rows : SUBSET Row, registered : BOOLEAN, unique : Uniques]
        /\ Rooted(db.data) /\ rows \in SUBSET Row
    BY InvIs, Zenon DEF TreeInv, TypeOK
  <2>2. Seen(txn) \in Table /\ Rooted(Seen(txn))
    BY <1>1, InvIs, SeenIs, Zenon DEF TreeInv
  <2>3. db' = db \/ db' = [db EXCEPT !.data = Seen(txn), !.rows = rows]
    BY Zenon DEF Commit, Abandon, Seen
  <2> QED BY <2>1, <2>2, <2>3, Zenon
<1>6. TypeOK'
  BY <1>3, <1>4, <1>5, Zenon DEF TreeInv, TypeOK
<1> QED BY <1>3, <1>5, <1>6, Zenon DEF TreeInv, HintSound, Open

\* The steps of other threads, of which the transaction's table knows nothing.
LEMMA OthersKeep ==
  ASSUME TreeInv, CreateIndex \/ MarkHasIndex \/ DeleteIndex \/ Reopen
  PROVE  TreeInv'
<1>1. /\ db \in [data : Table, rows : SUBSET Row, registered : BOOLEAN, unique : Uniques]
      /\ db.data \in Table /\ has_indexes \in BOOLEAN /\ marking \in BOOLEAN
  BY InvIs, Zenon DEF TypeOK
<1>2. UNCHANGED <<txn, rows, cursor, failed, last>>
  BY Zenon DEF CreateIndex, MarkHasIndex, DeleteIndex, Reopen
<1>3. has_indexes' \in BOOLEAN /\ marking' \in BOOLEAN
  BY <1>1, Zenon DEF CreateIndex, MarkHasIndex, DeleteIndex, Reopen
<1>4. /\ db' \in [data : Table, rows : SUBSET Row, registered : BOOLEAN, unique : Uniques]
      /\ db'.data = db.data
  <2> DEFINE all == entries_for(db.data, {<<>>})
  <2>1. all \in SUBSET Row
    <3>1. {<<>>} \in SUBSET Seq(Name)
      OBVIOUS
    <3> QED BY <1>1, <3>1, EntriesFor, Zenon
  <2>2. \/ db' = db \/ db' = [db EXCEPT !.rows = all, !.registered = TRUE]
        \/ db' = [db EXCEPT !.rows = {}, !.registered = FALSE]
    BY Zenon DEF CreateIndex, MarkHasIndex, DeleteIndex, Reopen
  <2> HIDE DEF all
  <2> QED BY <1>1, <2>1, <2>2, Zenon
<1>5. TypeOK'
  BY <1>2, <1>3, <1>4, Zenon DEF TreeInv, TypeOK
<1>6. txn' = txn /\ cursor' = cursor
  BY <1>2, Zenon
<1> QED BY <1>4, <1>5, <1>6, Zenon DEF TreeInv, HintSound, Open

\* The end of a cursor.
LEMMA DropKeeps ==
  ASSUME TreeInv, DropCursor
  PROVE  TreeInv'
<1>1. /\ cursor' = None /\ last' = <<"drop">> /\ txn' = txn /\ rows' = rows /\ failed' = failed
      /\ db' = db /\ has_indexes' = has_indexes /\ marking' = marking
  BY Zenon DEF DropCursor, shared
<1>2. last'[Len(last')] \in Outcome
  BY <1>1, Zenon DEF Outcome
<1>3. TypeOK'
  BY <1>1, <1>2, Zenon DEF TreeInv, TypeOK
<1> QED BY <1>1, <1>3, Zenon DEF TreeInv, HintSound, Open

-----------------------------------------------------------------------------
(* The entities on a scope's line. *)

\* A name that the pattern and the scope allow at level d.
Allowed(scope, n, d) == Pattern[d] \in {Star, n} /\ (d <= Len(scope) => n = scope[d])

\* A step goes to the children under the allowed names.
LEMMA StepIs ==
  ASSUME NEW V \in Table, NEW scope \in Seq(Name), NEW k \in AKey, NEW d \in 1..Len(Pattern)
  PROVE  \A x : x \in step(V, scope, k, d) <=>
                  x # None /\ \E n \in Name : Allowed(scope, n, d) /\ Links(V)[k][n] = x
<1> DEFINE L == Links(V)
           below == IF V[k] # None /\ V[k].kind = "dir" THEN Targets(V[k].children) ELSE {}
<1>1. Pattern[d] \in Name \cup {Star} /\ (d <= Len(scope) => scope[d] \in Name)
  BY PatternAssumption
<1>2. \A n \in Name : L[k][n] = child_of(V[k], n)
  BY LinksAre, Zenon
<1>3. \A x : x \in below <=> x # None /\ \E n \in Name : L[k][n] = x
  <2>1. CASE V[k] # None /\ V[k].kind = "dir"
    <3>1. \A n \in Name : L[k][n] = V[k].children[n]
      BY <1>2, <2>1, Zenon DEF child_of
    <3> QED BY <2>1, <3>1, Zenon DEF Targets
  <2>2. CASE ~ (V[k] # None /\ V[k].kind = "dir")
    <3>1. \A n \in Name : L[k][n] = None
      BY <1>2, <2>2, Zenon DEF child_of
    <3> QED BY <2>2, <3>1, Zenon
  <2> QED BY <2>1, <2>2, Zenon
<1>4. step(V, scope, k, d) =
        IF Pattern[d] = Star
          THEN IF d <= Len(scope) THEN {child_of(V[k], scope[d])} \ {None} ELSE below
          ELSE IF d <= Len(scope) /\ scope[d] # Pattern[d] THEN {} ELSE {child_of(V[k], Pattern[d])} \ {None}
  BY Zenon DEF step
<1> HIDE DEF below, L
<1> SUFFICES ASSUME NEW x
             PROVE  x \in step(V, scope, k, d) <=>
                      x # None /\ \E n \in Name : Allowed(scope, n, d) /\ L[k][n] = x
  BY Zenon DEF L
<1>5. CASE Pattern[d] = Star /\ d <= Len(scope)
  <2>1. \A n \in Name : Allowed(scope, n, d) <=> n = scope[d]
    BY <1>5, Zenon DEF Allowed
  <2>2. x \in step(V, scope, k, d) <=> x # None /\ x = L[k][scope[d]]
    BY <1>1, <1>2, <1>4, <1>5, Zenon
  <2> QED BY <1>1, <1>5, <2>1, <2>2, Zenon
<1>6. CASE Pattern[d] = Star /\ ~ (d <= Len(scope))
  BY <1>3, <1>4, <1>6, Zenon DEF Allowed
<1>7. CASE Pattern[d] # Star /\ d <= Len(scope) /\ scope[d] # Pattern[d]
  BY <1>4, <1>7, Zenon DEF Allowed
<1>8. CASE Pattern[d] # Star /\ ~ (d <= Len(scope) /\ scope[d] # Pattern[d])
  <2>1. \A n \in Name : Allowed(scope, n, d) <=> n = Pattern[d]
    BY <1>8, Zenon DEF Allowed
  <2>2. x \in step(V, scope, k, d) <=> x # None /\ x = L[k][Pattern[d]]
    <3>1. Pattern[d] \in Name /\ step(V, scope, k, d) = {child_of(V[k], Pattern[d])} \ {None}
      BY <1>1, <1>4, <1>8, Zenon
    <3>2. step(V, scope, k, d) = {L[k][Pattern[d]]} \ {None}
      BY <1>2, <3>1, Zenon
    <3> QED BY <3>2, Zenon
  <2> QED BY <1>1, <1>8, <2>1, <2>2, Zenon
<1> QED BY <1>5, <1>6, <1>7, <1>8, Zenon

\* A path, a name longer.
LEMMA Longer ==
  ASSUME NEW p \in Seq(Name), NEW n \in Name
  PROVE  /\ Append(p, n) \in Seq(Name) /\ Append(p, n) # <<>> /\ Len(Append(p, n)) = Len(p) + 1
         /\ parent(Append(p, n)) = p /\ name(Append(p, n)) = n
         /\ \A i \in 1..Len(p) : Append(p, n)[i] = p[i]
<1> DEFINE q == Append(p, n)
<1>1. /\ q \in Seq(Name) /\ q # <<>> /\ Len(q) = Len(p) + 1 /\ q[Len(q)] = n
      /\ \A i \in 1..Len(p) : q[i] = p[i]
  OBVIOUS
<1> HIDE DEF q
<1>2. parent(q) \in Seq(Name) /\ Len(parent(q)) = Len(p) /\ \A i \in 1..Len(p) : parent(q)[i] = p[i]
  <2>1. Len(q) - 1 = Len(p)
    BY <1>1
  <2>2. /\ parent(q) \in Seq(Name) /\ Len(parent(q)) = Len(q) - 1
        /\ \A i \in 1..(Len(q) - 1) : parent(q)[i] = q[i]
    BY <1>1, PathParts, Zenon
  <2> QED BY <1>1, <2>1, <2>2, Zenon
<1>3. parent(q) = p
  BY <1>2
<1>4. name(q) = n
  BY <1>1, Zenon DEF name
<1> QED BY <1>1, <1>3, <1>4, Zenon DEF q

\* A path of d names, all allowed.
Fits(scope, p, d) == p \in Seq(Name) /\ Len(p) = d /\ \A i \in 1..d : Allowed(scope, p[i], i)

\* The paths that fit, a level on.
LEMMA FitsOn ==
  ASSUME NEW scope, NEW d \in Nat
  PROVE  /\ \A p, n : Fits(scope, p, d) /\ n \in Name /\ Allowed(scope, n, d + 1)
                        => Fits(scope, Append(p, n), d + 1)
         /\ \A q : Fits(scope, q, d + 1) =>
                     q # <<>> /\ Fits(scope, parent(q), d) /\ Allowed(scope, name(q), d + 1)
<1>1. ASSUME NEW p, NEW n \in Name, Fits(scope, p, d), Allowed(scope, n, d + 1)
      PROVE  Fits(scope, Append(p, n), d + 1)
  <2> DEFINE q == Append(p, n)
  <2>1. p \in Seq(Name) /\ Len(p) = d /\ \A i \in 1..d : Allowed(scope, p[i], i)
    BY <1>1, Zenon DEF Fits
  <2>2. q \in Seq(Name) /\ q # <<>> /\ Len(q) = d + 1 /\ name(q) = n /\ \A i \in 1..d : q[i] = p[i]
    BY <2>1, Longer, Zenon
  <2> HIDE DEF q
  <2>3. q[d + 1] = n
    BY <2>2, Zenon DEF name
  <2>4. \A i \in 1..(d + 1) : i \in 1..d \/ i = d + 1
    OBVIOUS
  <2>5. ASSUME NEW i \in 1..(d + 1) PROVE Allowed(scope, q[i], i)
    <3>1. CASE i \in 1..d
      BY <2>1, <2>2, <3>1, Zenon
    <3>2. CASE i = d + 1
      BY <1>1, <2>3, <3>2, Zenon
    <3> QED BY <2>4, <3>1, <3>2, Zenon
  <2> QED BY <2>2, <2>5, Zenon DEF Fits, q
<1>2. ASSUME NEW q, Fits(scope, q, d + 1)
      PROVE  q # <<>> /\ Fits(scope, parent(q), d) /\ Allowed(scope, name(q), d + 1)
  <2>1. q \in Seq(Name) /\ Len(q) = d + 1 /\ \A i \in 1..(d + 1) : Allowed(scope, q[i], i)
    BY <1>2, Zenon DEF Fits
  <2>2. q # <<>> /\ (d + 1) - 1 = d /\ d + 1 \in 1..(d + 1) /\ \A i \in 1..d : i \in 1..(d + 1)
    BY <2>1
  <2>3. parent(q) \in Seq(Name) /\ Len(parent(q)) = d /\ \A i \in 1..d : parent(q)[i] = q[i]
    BY <2>1, <2>2, PathParts, Zenon
  <2>4. \A i \in 1..d : Allowed(scope, parent(q)[i], i)
    BY <2>1, <2>2, <2>3, Zenon
  <2>5. Allowed(scope, name(q), d + 1)
    BY <2>1, <2>2, Zenon DEF name
  <2> QED BY <2>2, <2>3, <2>4, <2>5, Zenon DEF Fits
<1> QED BY <1>1, <1>2, Zenon

\* The walk's levels: where the paths that fit lead.
LEMMA LevelIs ==
  ASSUME NEW V \in Table, NEW scope \in Seq(Name), NEW f, Levels(V, scope, f, Len(Pattern))
  PROVE  \A d \in Nat : d <= Len(Pattern) =>
           \A x : x \in f[d] <=> x # None /\ \E p : Fits(scope, p, d) /\ Walk(Links(V), p) = x
<1> DEFINE N == Len(Pattern)
           L == Links(V)
           Is(d) == \A x : x \in f[d] <=> x # None /\ \E p : Fits(scope, p, d) /\ Walk(L, p) = x
           T == {d \in Nat : d <= N => Is(d)}
<1>1. N \in Nat /\ L \in [AKey -> Children] /\ ROOT # None /\ None \notin AKey
  BY PatternAssumption, LinksAre, RootAssumption
<1>2. f = [d \in 0..N |-> IF d = 0 THEN {ROOT} ELSE UNION {step(V, scope, k, d) : k \in f[d - 1]}]
  BY Zenon DEF Levels
<1>3. 0 \in T
  <2>1. 0 \in 0..N
    BY <1>1
  <2>2. f[0] = {ROOT}
    BY <1>2, <2>1, Zenon
  <2>3. Fits(scope, <<>>, 0)
    BY DEF Fits
  <2>4. \A p : Fits(scope, p, 0) => p = <<>>
    BY DEF Fits
  <2>5. Is(0)
    BY <1>1, <2>2, <2>3, <2>4, WalkEmpty, Zenon
  <2> QED BY <2>5, Zenon
<1>4. ASSUME NEW d \in Nat, d \in T PROVE d + 1 \in T
  <2> SUFFICES ASSUME d + 1 <= N PROVE Is(d + 1)
    OBVIOUS
  <2>1. d + 1 \in 0..N /\ d + 1 # 0 /\ (d + 1) - 1 = d /\ d + 1 \in 1..N /\ d <= N
    BY <1>1
  <2>2. f[d + 1] = UNION {step(V, scope, k, d + 1) : k \in f[d]}
    BY <1>2, <2>1, Zenon
  <2>3. Is(d)
    BY <1>4, <2>1, Zenon
  <2>4. \A p : Fits(scope, p, d) => Walk(L, p) \in AKey \cup {None}
    BY <1>1, WalkType, Zenon DEF Fits
  <2>5. \A k \in AKey : \A x : x \in step(V, scope, k, d + 1) <=>
          x # None /\ \E n \in Name : Allowed(scope, n, d + 1) /\ L[k][n] = x
    <3>1. \A e \in 1..Len(Pattern) : \A k \in AKey : \A x : x \in step(V, scope, k, e) <=>
            x # None /\ \E n \in Name : Allowed(scope, n, e) /\ L[k][n] = x
      BY StepIs
    <3>2. d + 1 \in 1..Len(Pattern)
      BY <2>1, Zenon
    <3> QED BY <3>1, <3>2, Zenon
  <2> HIDE DEF N, L
  <2>6. ASSUME NEW x, x \in f[d + 1]
        PROVE  x # None /\ \E q : Fits(scope, q, d + 1) /\ Walk(L, q) = x
    <3>1. PICK k \in f[d] : x \in step(V, scope, k, d + 1)
      BY <2>2, <2>6, Zenon
    <3>2. PICK p : Fits(scope, p, d) /\ Walk(L, p) = k
      BY <2>3, Zenon
    <3>3. k # None /\ k \in AKey /\ p \in Seq(Name)
      BY <2>3, <2>4, <3>2, Zenon DEF Fits
    <3>4. PICK n \in Name : Allowed(scope, n, d + 1) /\ L[k][n] = x
      BY <2>5, <3>1, <3>3, Zenon
    <3>5. x # None
      BY <2>5, <3>1, <3>3, Zenon
    <3> DEFINE q == Append(p, n)
    <3>6. Fits(scope, q, d + 1)
      BY <3>2, <3>4, FitsOn, Zenon
    <3>7. q \in Seq(Name) /\ q # <<>> /\ parent(q) = p /\ name(q) = n
      BY <3>3, Longer, Zenon
    <3> HIDE DEF q
    <3>8. Walk(L, q) = L[k][n]
      BY <3>2, <3>3, <3>7, WalkStep, Zenon
    <3> QED BY <3>4, <3>5, <3>6, <3>8, Zenon
  <2>7. ASSUME NEW x, x # None, NEW q, Fits(scope, q, d + 1), Walk(L, q) = x
        PROVE  x \in f[d + 1]
    <3>1. q # <<>> /\ Fits(scope, parent(q), d) /\ Allowed(scope, name(q), d + 1) /\ q \in Seq(Name)
      BY <2>7, FitsOn, Zenon DEF Fits
    <3> DEFINE k == Walk(L, parent(q))
    <3>2. name(q) \in Name /\ k \in AKey /\ x = L[k][name(q)]
      BY <1>1, <2>7, <3>1, LastLink, Zenon
    <3>3. k # None
      BY <1>1, <3>2, Zenon
    <3>4. k \in f[d]
      BY <2>3, <3>1, <3>3, Zenon
    <3> HIDE DEF k
    <3>5. x \in step(V, scope, k, d + 1)
      BY <2>5, <2>7, <3>1, <3>2, Zenon
    <3> QED BY <2>2, <3>4, <3>5, Zenon
  <2> QED BY <2>6, <2>7, Zenon
<1> HIDE DEF T
<1>5. \A d \in Nat : d \in T
  BY <1>3, <1>4, Inherited, Zenon
<1> QED BY <1>5, Zenon DEF T, Is

\* A path that fits to the end matches the pattern and is comparable with the scope.
LEMMA FitsIs ==
  ASSUME NEW scope \in Seq(Name), NEW p
  PROVE  Fits(scope, p, Len(Pattern)) <=> p \in Seq(Name) /\ Matches(p) /\ Comparable(scope, p)
<1> DEFINE N == Len(Pattern)
           S == Len(scope)
<1>1. N \in Nat /\ S \in Nat
  BY PatternAssumption
<1>2. Matches(p) <=> Len(p) = N /\ \A i \in 1..N : Pattern[i] \in {Star, p[i]}
  BY Zenon DEF Matches
<1>3. Fits(scope, p, N) <=>
        p \in Seq(Name) /\ Matches(p) /\ \A i \in 1..N : i <= S => p[i] = scope[i]
  BY <1>2, Zenon DEF Fits, Allowed
<1>4. ASSUME p \in Seq(Name), Len(p) = N
      PROVE  Comparable(scope, p) <=> \A i \in 1..N : i <= S => p[i] = scope[i]
  <2>1. starts_with(p, scope) <=> S <= N /\ \A i \in 1..S : p[i] = scope[i]
    BY <1>4, StartsWith, Zenon
  <2>2. starts_with(scope, p) <=> N <= S /\ \A i \in 1..N : scope[i] = p[i]
    BY <1>4, StartsWith, Zenon
  <2> HIDE DEF N, S
  <2>3. S <= N => ((\A i \in 1..N : i <= S => p[i] = scope[i]) <=> \A i \in 1..S : p[i] = scope[i])
    BY <1>1
  <2>4. N <= S => ((\A i \in 1..N : i <= S => p[i] = scope[i]) <=> \A i \in 1..N : p[i] = scope[i])
    BY <1>1
  <2>5. S <= N \/ N <= S
    BY <1>1
  <2>6. S <= N /\ N <= S => ((\A i \in 1..S : p[i] = scope[i]) <=> \A i \in 1..N : p[i] = scope[i])
    BY <1>1
  <2>7. (\A i \in 1..N : scope[i] = p[i]) <=> (\A i \in 1..N : p[i] = scope[i])
    BY Zenon
  <2> QED BY <2>1, <2>2, <2>3, <2>4, <2>5, <2>6, <2>7, Zenon DEF Comparable
<1> QED BY <1>2, <1>3, <1>4, Zenon

\* affected_entities: what the paths on the scope's line that match lead to.
LEMMA AffectedIs ==
  ASSUME NEW V \in Table, NEW scope \in Seq(Name)
  PROVE  \A k : k \in affected_entities(V, scope) <=>
           /\ k # None
           /\ \E p \in Seq(Name) : Matches(p) /\ Comparable(scope, p) /\ Walk(Links(V), p) = k
<1> DEFINE N == Len(Pattern)
<1>1. N \in Nat /\ N <= N
  BY PatternAssumption
<1>2. \E f : Levels(V, scope, f, N) /\ affected_entities(V, scope) = f[N]
  <2>1. affected_entities(V, scope) = (CHOOSE f : Levels(V, scope, f, N))[N]
    BY Zenon DEF affected_entities, Levels
  <2>2. \E f : Levels(V, scope, f, N)
    BY <1>1, LevelsExist, Zenon
  <2> QED BY <2>1, <2>2, Zenon
<1>3. PICK f : Levels(V, scope, f, N) /\ affected_entities(V, scope) = f[N]
  BY <1>2, Zenon
<1>4. \A d \in Nat : d <= Len(Pattern) =>
        \A k : k \in f[d] <=> k # None /\ \E p : Fits(scope, p, d) /\ Walk(Links(V), p) = k
  BY <1>3, LevelIs
<1>5. \A k : k \in f[N] <=> k # None /\ \E p : Fits(scope, p, N) /\ Walk(Links(V), p) = k
  BY <1>1, <1>4, Zenon
<1> QED BY <1>3, <1>5, FitsIs, Zenon

\* The matched a-nodes: what the paths that match lead to.
LEMMA MatchedIs ==
  ASSUME NEW V \in Table
  PROVE  \A k : k \in Matched(V) <=>
                  k # None /\ \E p \in Seq(Name) : Matches(p) /\ Walk(Links(V), p) = k
<1> DEFINE s == NewStore(V, FALSE)
           Q == {q \in [1..Len(Pattern) -> Name] : Matches(q)}
<1>1. Good(s) /\ Seen(s) = V
  BY NewStoreIs, Zenon
<1>2. \A p : resolve(s, p) = Walk(Links(V), p)
  BY <1>1, Views, Zenon
<1>3. \A q : q \in Q <=> q \in Seq(Name) /\ Matches(q)
  <2>1. Len(Pattern) \in Nat
    BY PatternAssumption
  <2> DEFINE N == Len(Pattern)
  <2>2. ASSUME NEW q \in [1..N -> Name] PROVE q \in Seq(Name)
    <3> HIDE DEF N
    <3>1. N \in Nat
      BY <2>1, Zenon DEF N
    <3> QED BY <3>1
  <2>3. ASSUME NEW q \in Seq(Name), Len(q) = N PROVE q \in [1..N -> Name]
    BY <2>3
  <2> QED BY <2>2, <2>3, Zenon DEF Matches
<1>4. Matched(V) = {resolve(s, p) : p \in Q} \ {None}
  BY Zenon DEF Matched
<1> HIDE DEF s, Q
<1> QED BY <1>2, <1>3, <1>4, Zenon

-----------------------------------------------------------------------------
(* The rows after a mutation. *)

\* The matched a-nodes on the lines of some scopes.
On(V, P) == UNION {affected_entities(V, p) : p \in P}

\* A row's fields.
LEMMA RowIs ==
  /\ \A V, k : RowOf(V, k).col = column_scalar(V, k) /\ RowOf(V, k).key = k
  /\ \A V, j, k : RowOf(V, j).key = RowOf(V, k).key => j = k
BY DEF RowOf

\* entries_for: the rows of the matched a-nodes on those lines.
LEMMA LinesAre ==
  ASSUME NEW V \in Table, NEW P \in SUBSET Seq(Name)
  PROVE  /\ entries_for(V, P) = {RowOf(V, k) : k \in On(V, P)}
         /\ \A k : k \in On(V, P) <=>
              /\ k # None
              /\ \E q \in Seq(Name) : /\ Matches(q) /\ Walk(Links(V), q) = k
                                      /\ \E p \in P : Comparable(p, q)
         /\ On(V, P) \subseteq Matched(V)
<1>1. entries_for(V, P) = UNION {{RowOf(V, k) : k \in affected_entities(V, p)} : p \in P}
  BY Zenon DEF entries_for, RowOf
<1>2. entries_for(V, P) = {RowOf(V, k) : k \in On(V, P)}
  <2>1. \A x : x \in entries_for(V, P) <=> \E p \in P : \E k \in affected_entities(V, p) : x = RowOf(V, k)
    <3> DEFINE R(p) == {RowOf(V, k) : k \in affected_entities(V, p)}
    <3>1. \A x, p : x \in R(p) <=> \E k \in affected_entities(V, p) : x = RowOf(V, k)
      BY Zenon
    <3>2. entries_for(V, P) = UNION {R(p) : p \in P}
      BY <1>1, Zenon
    <3> HIDE DEF R
    <3>3. \A x : x \in entries_for(V, P) <=> \E p \in P : x \in R(p)
      BY <3>2, Zenon
    <3> QED BY <3>1, <3>3, Zenon
  <2>2. \A x : x \in {RowOf(V, k) : k \in On(V, P)} <=>
          \E p \in P : \E k \in affected_entities(V, p) : x = RowOf(V, k)
    BY Zenon DEF On
  <2> QED BY <2>1, <2>2, Zenon
<1>3. ASSUME NEW p \in P
      PROVE  \A k : k \in affected_entities(V, p) <=>
               /\ k # None
               /\ \E q \in Seq(Name) : Matches(q) /\ Comparable(p, q) /\ Walk(Links(V), q) = k
  <2>1. p \in Seq(Name)
    BY Zenon
  <2> QED BY <2>1, AffectedIs
<1>4. \A k : k \in On(V, P) <=> \E p \in P : k \in affected_entities(V, p)
  BY Zenon DEF On
<1>5. \A k : k \in On(V, P) <=>
        /\ k # None
        /\ \E q \in Seq(Name) : /\ Matches(q) /\ Walk(Links(V), q) = k
                                /\ \E p \in P : Comparable(p, q)
  BY <1>3, <1>4, Zenon
<1>6. On(V, P) \subseteq Matched(V)
  BY <1>5, MatchedIs, Zenon
<1> QED BY <1>2, <1>5, <1>6, Zenon

\* What is the same elsewhere is the same both ways.
LEMMA ElsewhereBack ==
  ASSUME NEW V, NEW W, NEW P, Elsewhere(V, W, P)
  PROVE  Elsewhere(W, V, P)
<1> SUFFICES ASSUME NEW q \in Seq(Name), \A p \in P : ~ Comparable(p, q)
             PROVE  /\ Walk(Links(V), q) = Walk(Links(W), q)
                    /\ Walk(Links(W), q) # None =>
                         SameFile(W[Walk(Links(W), q)], V[Walk(Links(W), q)])
  BY Zenon DEF Elsewhere
<1>1. /\ Walk(Links(W), q) = Walk(Links(V), q)
      /\ Walk(Links(V), q) # None => SameFile(V[Walk(Links(V), q)], W[Walk(Links(V), q)])
  BY Zenon DEF Elsewhere
<1>2. \A e, f : SameFile(e, f) => SameFile(f, e)
  BY Zenon DEF SameFile
<1> QED BY <1>1, <1>2, Zenon

\* The same file has the same column.
LEMMA SameColumn ==
  ASSUME NEW V, NEW W, NEW k, SameFile(V[k], W[k])
  PROVE  column_scalar(W, k) = column_scalar(V, k) /\ (IsFile(W, k) <=> IsFile(V, k))
BY Zenon DEF SameFile, column_scalar, IsFile

\* A matched a-node on none of the lines is there, and the same, before and after.
LEMMA OffLines ==
  ASSUME NEW V \in Table, NEW W \in Table, IsTree(W), NEW P \in SUBSET Seq(Name),
         Elsewhere(V, W, P), NEW k \in Matched(V), k \notin On(V, P)
  PROVE  /\ k \in Matched(W) /\ k \notin On(W, P)
         /\ column_scalar(W, k) = column_scalar(V, k) /\ (IsFile(W, k) <=> IsFile(V, k))
         /\ P # {} => k # ROOT
<1> DEFINE L == Links(V)
           M == Links(W)
<1>1. k # None /\ \E q \in Seq(Name) : Matches(q) /\ Walk(L, q) = k
  BY MatchedIs
<1>2. PICK q \in Seq(Name) : Matches(q) /\ Walk(L, q) = k
  BY <1>1, Zenon
<1>3. \A p \in P : ~ Comparable(p, q)
  <2>1. k # None /\ Matches(q) /\ Walk(Links(V), q) = k
    BY <1>1, <1>2, Zenon
  <2> QED BY <2>1, LinesAre, Zenon
<1>4. Walk(M, q) = Walk(L, q) /\ (Walk(L, q) # None => SameFile(V[Walk(L, q)], W[Walk(L, q)]))
  BY <1>3, Zenon DEF Elsewhere
<1>5. Walk(M, q) = k /\ SameFile(V[k], W[k])
  BY <1>1, <1>2, <1>4, Zenon
<1>6. k \in Matched(W)
  BY <1>1, <1>2, <1>5, MatchedIs
<1>7. \A o \in Seq(Name) : Walk(M, o) = k => o = q
  <2>1. Tree(M, Live(W))
    BY Zenon DEF IsTree
  <2> HIDE DEF M
  <2>2. \A o, u \in Seq(Name) : Walk(M, o) # None /\ Walk(M, o) = Walk(M, u) => o = u
    BY <2>1, OnePath, Zenon
  <2> QED BY <1>1, <1>5, <2>2, Zenon
<1>8. k \notin On(W, P)
  <2> SUFFICES ASSUME k \in On(W, P) PROVE FALSE
    BY Zenon
  <2>1. PICK o \in Seq(Name) : Walk(M, o) = k /\ \E p \in P : Comparable(p, o)
    BY LinesAre, Zenon
  <2> QED BY <1>3, <1>7, <2>1, Zenon
<1>9. ASSUME P # {} PROVE k # ROOT
  <2> SUFFICES ASSUME k = ROOT PROVE FALSE
    BY Zenon
  <2>1. <<>> \in Seq(Name) /\ \A p \in Seq(Name) : starts_with(p, <<>>)
    BY DEF starts_with
  <2>2. Walk(M, <<>>) = ROOT
    BY WalkEmpty, Zenon
  <2>3. q = <<>>
    BY <1>7, <2>1, <2>2, Zenon
  <2>4. PICK p \in P : p \in Seq(Name)
    BY <1>9, Zenon
  <2>5. Comparable(p, q)
    BY <2>1, <2>3, <2>4, Zenon DEF Comparable
  <2> QED BY <1>3, <2>5, Zenon
<1>10. column_scalar(W, k) = column_scalar(V, k) /\ (IsFile(W, k) <=> IsFile(V, k))
  BY <1>5, SameColumn, Zenon
<1> QED BY <1>6, <1>8, <1>9, <1>10, Zenon

\* Index maintenance around a mutation: if all is the same but on the lines of the scopes, the
\* rows that are left and those that are added are in sync with the table after it.
LEMMA Resynced ==
  ASSUME NEW V \in Table, NEW W \in Table, IsTree(V), IsTree(W),
         NEW P \in SUBSET Seq(Name), P # {}, Elsewhere(V, W, P),
         NEW rs, Synced(V, rs, db.unique), db.unique \in BOOLEAN,
         ~ Collides(delete(rs, entries_for(V, P)), entries_for(W, P))
  PROVE  Synced(W, delete(rs, entries_for(V, P)) \cup entries_for(W, P), db.unique)
<1> DEFINE A == Matched(V)
           B == Matched(W)
           a == On(V, P)
           b == On(W, P)
           kept == delete(rs, entries_for(V, P))
           new == entries_for(W, P)
           Needs(k) == db.unique /\ k # ROOT
<1>1. /\ entries_for(V, P) = {RowOf(V, k) : k \in a} /\ a \subseteq A
      /\ new = {RowOf(W, k) : k \in b} /\ b \subseteq B
  BY LinesAre, Zenon
<1>2. \A k \in A : k \notin a =>
        /\ k \in B /\ k \notin b /\ RowOf(W, k) = RowOf(V, k)
        /\ column_scalar(W, k) = column_scalar(V, k) /\ (IsFile(W, k) <=> IsFile(V, k)) /\ k # ROOT
  BY OffLines, Zenon DEF RowOf
<1>3. \A k \in B : k \notin b => k \in A /\ k \notin a
  BY ElsewhereBack, OffLines, Zenon
<1>4. /\ \A x \in rs : \E k \in A : x = RowOf(V, k)
      /\ \A k \in A : IsFile(V, k) \/ Needs(k) => RowOf(V, k) \in rs
      /\ db.unique => \A j, k \in A : column_scalar(V, j) = column_scalar(V, k) => j = k
  BY Zenon DEF Synced
<1>5. /\ ~ db.unique => kept = rs \ {RowOf(V, k) : k \in a}
      /\ db.unique => kept = {x \in rs : \A e \in {RowOf(V, k) : k \in a} : e.col # x.col}
  BY <1>1, Zenon DEF delete
<1>6. db.unique => \A e \in new, x \in kept \cup new : e.col = x.col => e.key = x.key
  BY Zenon DEF Collides
<1> HIDE DEF A, B, a, b, kept, new
<1>7. kept \subseteq rs /\ \A k \in a : RowOf(V, k) \notin kept
  BY <1>5, Zenon
<1>8. ASSUME NEW k \in A, k \notin a, RowOf(V, k) \in rs PROVE RowOf(V, k) \in kept
  <2>1. CASE ~ db.unique
    <3>1. RowOf(V, k) \notin {RowOf(V, j) : j \in a}
      <4>1. \A j \in a : RowOf(V, j) = RowOf(V, k) => j = k
        BY RowIs
      <4> QED BY <1>8, <4>1, Zenon
    <3> QED BY <1>5, <1>8, <2>1, <3>1, Zenon
  <2>2. CASE db.unique
    <3>1. \A j \in a : column_scalar(V, j) # column_scalar(V, k)
      BY <1>1, <1>4, <1>8, <2>2, Zenon
    <3>2. \A j \in a : RowOf(V, j).col # RowOf(V, k).col
      BY <3>1, RowIs, Zenon
    <3>3. \A e \in {RowOf(V, j) : j \in a} : e.col # RowOf(V, k).col
      BY <3>2, Zenon
    <3> QED BY <1>5, <1>8, <2>2, <3>3, Zenon
  <2> QED BY <2>1, <2>2, Zenon
<1>9. ASSUME NEW x \in kept \cup new PROVE \E k \in B : x = RowOf(W, k)
  <2>1. CASE x \in new
    BY <1>1, <2>1, Zenon
  <2>2. CASE x \in kept
    <3>1. PICK k \in A : x = RowOf(V, k)
      BY <1>4, <1>7, <2>2, Zenon
    <3>2. k \notin a
      BY <1>7, <2>2, <3>1, Zenon
    <3> QED BY <1>2, <3>1, <3>2, Zenon
  <2> QED BY <1>9, <2>1, <2>2, Zenon
<1>10. ASSUME NEW k \in B, IsFile(W, k) \/ Needs(k) PROVE RowOf(W, k) \in kept \cup new
  <2>1. CASE k \in b
    BY <1>1, <2>1, Zenon
  <2>2. CASE k \notin b
    <3>1. k \in A /\ k \notin a
      BY <1>3, <2>2, Zenon
    <3>2. RowOf(W, k) = RowOf(V, k) /\ (IsFile(W, k) <=> IsFile(V, k))
      BY <1>2, <3>1, Zenon
    <3>3. RowOf(V, k) \in rs
      BY <1>4, <1>10, <3>1, <3>2, Zenon
    <3>4. RowOf(V, k) \in kept
      BY <1>8, <3>1, <3>3, Zenon
    <3> QED BY <3>2, <3>4, Zenon
  <2> QED BY <2>1, <2>2, Zenon
<1>11. ASSUME db.unique, NEW j \in b, NEW k \in B, column_scalar(W, j) = column_scalar(W, k)
       PROVE  j = k
  <2>1. RowOf(W, j) \in new
    BY <1>1, Zenon
  <2>2. RowOf(W, k) \in kept \cup new
    <3>1. CASE k \in b
      BY <1>1, <3>1, Zenon
    <3>2. CASE k \notin b
      <4>1. k # ROOT
        BY <1>2, <1>3, <3>2, Zenon
      <4> QED BY <1>10, <1>11, <4>1, Zenon
    <3> QED BY <3>1, <3>2, Zenon
  <2>3. RowOf(W, j).col = RowOf(W, k).col
    BY <1>11, RowIs, Zenon
  <2>4. RowOf(W, j).key = RowOf(W, k).key
    BY <1>6, <1>11, <2>1, <2>2, <2>3, Zenon
  <2> QED BY <2>4, RowIs, Zenon
<1>12. ASSUME db.unique, NEW j \in B, NEW k \in B, column_scalar(W, j) = column_scalar(W, k)
       PROVE  j = k
  <2>1. CASE j \in b
    BY <1>11, <1>12, <2>1, Zenon
  <2>2. CASE k \in b
    BY <1>11, <1>12, <2>2, Zenon
  <2>3. CASE j \notin b /\ k \notin b
    <3>1. j \in A /\ k \in A /\ j \notin a /\ k \notin a
      BY <1>3, <2>3, Zenon
    <3>2. column_scalar(V, j) = column_scalar(W, j) /\ column_scalar(V, k) = column_scalar(W, k)
      BY <1>2, <3>1, Zenon
    <3>3. column_scalar(V, j) = column_scalar(V, k)
      BY <1>12, <3>2, Zenon
    <3> QED BY <1>4, <1>12, <3>1, <3>3, Zenon
  <2> QED BY <2>1, <2>2, <2>3, Zenon
<1>13. kept \cup new \subseteq {RowOf(W, k) : k \in B}
  BY <1>9, Zenon
<1>14. Synced(W, kept \cup new, db.unique)
  BY <1>10, <1>12, <1>13, Zenon DEF Synced, B
<1> QED BY <1>14, Zenon DEF kept, new

\* mkdir: what is new is a directory, and matched by no unique index.
LEMMA MkdirSynced ==
  ASSUME NEW s, Sound(s), NEW p \in DirPath, NEW t, Sound(t), Grew(s, t), OnlyUpTo(s, p, t),
         NEW rs, NEW unique \in Uniques, Synced(Seen(s), rs, unique), Careful
  PROVE  Synced(Seen(t), rs, unique)
<1> DEFINE V == Seen(s)
           W == Seen(t)
           L == Links(V)
           M == Links(W)
           A == Matched(V)
           B == Matched(W)
<1>1. /\ V \in Table /\ W \in Table /\ L \in [AKey -> Children] /\ Tree(L, Live(V)) /\ IsTree(W)
      /\ p \in Seq(Name) /\ unique \in BOOLEAN
  BY Views, PathsAssumption, FlagAssumption, Zenon DEF Sound, IsTree
<1>2. /\ \A k \in A : k # None /\ \E q \in Seq(Name) : Matches(q) /\ Walk(L, q) = k
      /\ \A k \in B : k # None /\ \E q \in Seq(Name) : Matches(q) /\ Walk(M, q) = k
      /\ \A k, q : k # None /\ q \in Seq(Name) /\ Matches(q) /\ Walk(M, q) = k => k \in B
      /\ \A k, q : k # None /\ q \in Seq(Name) /\ Matches(q) /\ Walk(L, q) = k => k \in A
  BY <1>1, MatchedIs
<1>3. /\ \A k \in AKey : V[k] # None => SameFile(V[k], W[k])
      /\ \A k \in AKey, n \in Name : L[k][n] # None => M[k][n] = L[k][n]
  BY Zenon DEF Grew
<1>4. \A q \in Seq(Name) : Walk(M, q) # None =>
        Walk(L, q) = Walk(M, q) \/ (q # <<>> /\ starts_with(p, q) /\ IsDir(t, Walk(M, q)))
  BY Zenon DEF OnlyUpTo
<1>5. W[ROOT] # None => W[ROOT].kind = "dir"
  BY <1>1, Zenon DEF IsTree
<1> HIDE DEF L, M, A, B
<1>6. \A q \in Seq(Name) : Walk(L, q) # None => Walk(M, q) = Walk(L, q)
  BY <1>1, <1>3, WalkKept, Zenon
<1>7. ASSUME NEW k \in A
      PROVE  /\ k \in B /\ column_scalar(W, k) = column_scalar(V, k)
             /\ (IsFile(W, k) <=> IsFile(V, k)) /\ RowOf(W, k) = RowOf(V, k)
  <2>1. k # None
    BY <1>2, Zenon
  <2>2. PICK q \in Seq(Name) : Matches(q) /\ Walk(L, q) = k
    BY <1>2, Zenon
  <2>3. k \in B
    BY <1>2, <1>6, <2>1, <2>2, Zenon
  <2>4. SameFile(V[k], W[k])
    <3>1. CASE q = <<>>
      <4>1. k = ROOT
        BY <2>2, <3>1, WalkEmpty, Zenon
      <4>2. "file" # "dir"
        BY Zenon
      <4>3. V[ROOT] = None => SameFile(V[ROOT], W[ROOT])
        BY <1>5, <4>2, Zenon DEF SameFile
      <4> QED BY <1>3, <4>1, <4>3, RootAssumption, Zenon
    <3>2. CASE q # <<>>
      <4>1. k \in Live(V)
        BY <1>1, <2>1, <2>2, <3>2, WalkLive, Zenon
      <4> QED BY <1>3, <4>1, Zenon DEF Live
    <3> QED BY <3>1, <3>2, Zenon
  <2>5. column_scalar(W, k) = column_scalar(V, k) /\ (IsFile(W, k) <=> IsFile(V, k))
    BY <2>4, SameColumn, Zenon
  <2> QED BY <2>3, <2>5, Zenon DEF RowOf
<1>8. ASSUME NEW k \in B, k \notin A PROVE ~ IsFile(W, k) /\ ~ unique
  <2>1. k # None
    BY <1>2, Zenon
  <2>2. PICK q \in Seq(Name) : Matches(q) /\ Walk(M, q) = k
    BY <1>2, Zenon
  <2>3. Walk(L, q) # k
    BY <1>2, <1>8, <2>1, <2>2, Zenon
  <2>4. q # <<>> /\ starts_with(p, q) /\ IsDir(t, k)
    BY <1>4, <2>1, <2>2, <2>3, Zenon
  <2>5. ~ IsFile(W, k)
    <3>1. "file" # "dir"
      BY Zenon
    <3> QED BY <2>4, <3>1, Zenon DEF IsFile, IsDir
  <2>6. Len(q) = Len(Pattern)
    BY <2>2, Zenon DEF Matches
  <2>7. Len(q) \in 1..Len(p) /\ SubSeq(p, 1, Len(q)) = q
    BY <1>1, <2>4 DEF starts_with
  <2>8. Matches(SubSeq(p, 1, Len(Pattern))) /\ Len(Pattern) \in 1..Len(p)
    BY <2>2, <2>6, <2>7, Zenon
  <2>9. ~ unique
    BY <1>1, <2>8, Zenon DEF Careful
  <2> QED BY <2>5, <2>9, Zenon
<1>9. /\ \A x \in rs : \E k \in A : x = RowOf(V, k)
      /\ \A k \in A : IsFile(V, k) \/ (unique /\ k # ROOT) => RowOf(V, k) \in rs
      /\ unique => \A j, k \in A : column_scalar(V, j) = column_scalar(V, k) => j = k
  BY Zenon DEF Synced, A
<1> HIDE DEF V, W
<1>10. rs \subseteq {RowOf(W, k) : k \in B}
  <2> SUFFICES ASSUME NEW x \in rs PROVE \E k \in B : x = RowOf(W, k)
    BY Zenon
  <2> QED BY <1>7, <1>9, Zenon
<1>11. ASSUME NEW k \in B, IsFile(W, k) \/ (unique /\ k # ROOT) PROVE RowOf(W, k) \in rs
  <2>1. k \in A
    BY <1>8, <1>11, Zenon
  <2>2. RowOf(V, k) \in rs
    BY <1>7, <1>9, <1>11, <2>1, Zenon
  <2> QED BY <1>7, <2>1, <2>2, Zenon
<1>12. ASSUME unique, NEW j \in B, NEW k \in B, column_scalar(W, j) = column_scalar(W, k) PROVE j = k
  <2>1. j \in A /\ k \in A
    BY <1>8, <1>12, Zenon
  <2>2. column_scalar(V, j) = column_scalar(W, j) /\ column_scalar(V, k) = column_scalar(W, k)
    BY <1>7, <2>1, Zenon
  <2>3. column_scalar(V, j) = column_scalar(V, k)
    BY <1>12, <2>2, Zenon
  <2> QED BY <1>9, <1>12, <2>1, <2>3, Zenon
<1>13. Synced(W, rs, unique)
  BY <1>10, <1>11, <1>12, Zenon DEF Synced, B
<1> QED BY <1>13, Zenon DEF W

\* create_index: the rows of the whole table are in sync with it.
LEMMA AllSynced ==
  ASSUME NEW V \in Table, NEW all, all = entries_for(V, {<<>>}), ~ Collides({}, all)
  PROVE  Synced(V, all, db.unique)
<1> DEFINE P == {<<>>}
           A == Matched(V)
<1>1. <<>> \in P /\ P \in SUBSET Seq(Name) /\ \A q \in Seq(Name) : starts_with(q, <<>>)
  BY DEF starts_with
<1> HIDE DEF P
<1>2. \A q \in Seq(Name) : \E p \in P : Comparable(p, q)
  BY <1>1, Zenon DEF Comparable
<1>3. entries_for(V, P) = {RowOf(V, k) : k \in On(V, P)} /\ On(V, P) \subseteq A
  BY <1>1, LinesAre, Zenon
<1>4. A \subseteq On(V, P)
  <2> SUFFICES ASSUME NEW k \in A PROVE k \in On(V, P)
    BY Zenon
  <2>1. k # None /\ \E q \in Seq(Name) : Matches(q) /\ Walk(Links(V), q) = k
    BY MatchedIs
  <2>2. PICK q \in Seq(Name) : Matches(q) /\ Walk(Links(V), q) = k
    BY <2>1, Zenon
  <2> QED BY <1>1, <1>2, <2>1, <2>2, LinesAre, Zenon
<1>5. A = On(V, P)
  BY <1>3, <1>4, Zenon
<1>6. all = {RowOf(V, k) : k \in A}
  BY <1>3, <1>5, Zenon DEF P
<1>7. ASSUME db.unique, NEW j \in A, NEW k \in A, column_scalar(V, j) = column_scalar(V, k) PROVE j = k
  <2> HIDE DEF A
  <2>1. RowOf(V, j) \in all /\ RowOf(V, k) \in {} \cup all
    BY <1>6, Zenon
  <2>2. RowOf(V, j).col = RowOf(V, k).col
    BY <1>7, RowIs, Zenon
  <2>3. RowOf(V, j).key = RowOf(V, k).key
    BY <1>7, <2>1, <2>2, Zenon DEF Collides
  <2> QED BY <2>3, RowIs, Zenon
<1> QED BY <1>6, <1>7, Zenon DEF Synced

\* An index of an empty table.
LEMMA EmptySynced ==
  ASSUME NEW unique \in BOOLEAN PROVE Synced(EmptyTable, {}, unique)
<1>1. EmptyTable \in Table /\ \A k \in AKey : EmptyTable[k] = None
  BY Zenon DEF EmptyTable, Table
<1>2. /\ Links(EmptyTable) \in [AKey -> Children]
      /\ \A k \in AKey, n \in Name : Links(EmptyTable)[k][n] = None
  BY <1>1, LinksAre, Zenon
<1>3. ASSUME NEW k \in Matched(EmptyTable) PROVE k = ROOT
  <2>1. k # None /\ \E q \in Seq(Name) : Matches(q) /\ Walk(Links(EmptyTable), q) = k
    BY <1>1, MatchedIs
  <2>2. PICK q \in Seq(Name) : Walk(Links(EmptyTable), q) = k
    BY <2>1, Zenon
  <2>3. q = <<>>
    BY <1>2, <2>1, <2>2, LastLink, Zenon
  <2> QED BY <2>2, <2>3, WalkEmpty, Zenon
<1>4. ~ IsFile(EmptyTable, ROOT)
  BY <1>1, RootAssumption, Zenon DEF IsFile
<1> QED BY <1>3, <1>4, Zenon DEF Synced

-----------------------------------------------------------------------------
(* The calls, and the index. *)

\* A store that writes through has nothing buffered.
LEMMA WrittenThrough ==
  ASSUME NEW s, Good(s), ~ s.buffering PROVE s.data = Seen(s)
<1>1. s \in Store /\ s.data \in Table /\ Seen(s) \in Table
  BY Views, Zenon DEF Good, Store
<1>2. \A k \in AKey : s.files[k] = None /\ s.dirs[k] = None
  BY Zenon DEF Good, Buffered, BufferedAt
<1>3. \A k \in AKey : Seen(s)[k] = s.data[k]
  BY <1>1, <1>2, Through, Zenon
<1> QED BY <1>1, <1>3 DEF Table

\* A call that succeeds has left what is not on its lines alone.
LEMMA Maintained ==
  ASSUME TreeInv, IndexInv, Open, NEW call, UNCHANGED <<shared, cursor>>,
         NEW scopes \in SUBSET Seq(Name), scopes # {}, NEW r, Yields(Current, r),
         reindex_around(call, scopes, r),
         r.res \in {"ok", "none"} => Elsewhere(Seen(Current), Seen(r.store), scopes)
  PROVE  IndexInv'
<1>1. db' = db /\ has_indexes' = has_indexes
  BY Zenon DEF shared
<1>2. /\ r.res # "full" /\ txn' = r.store
      /\ IF ~Indexed THEN rows' = rows /\ Ends(call, r.res)
         ELSE IF r.res = "err"
         THEN rows' = delete(rows, entries_for(Current.data, scopes)) /\ Ends(call, "err")
         ELSE /\ rows' \in insert(delete(rows, entries_for(Current.data, scopes)),
                                  entries_for(r.store.data, scopes))
              /\ Ends(call, IF Collides(delete(rows, entries_for(Current.data, scopes)),
                                        entries_for(r.store.data, scopes)) THEN "err" ELSE r.res)
  BY Zenon DEF reindex_around
<1>3. ASSUME ~ failed', db.registered PROVE Synced(Seen(r.store), rows', db.unique)
  <2>1. Indexed
    BY <1>3, Zenon DEF IndexInv, Indexed
  <2>2. \A h : Ends(call, h) => h # "err" /\ ~ failed
    BY <1>3, Zenon DEF Ends
  <2>3. Sound(txn) /\ db.unique \in BOOLEAN
    BY InvIs, FlagAssumption, Zenon DEF TypeOK
  <2>4. /\ Current = take_and_disable(txn) /\ Sound(Current) /\ Seen(Current) = Seen(txn)
        /\ Current.data = Seen(txn) /\ ~ Current.buffering
    BY <2>1, <2>3, TakeAndDisable, Zenon DEF Current
  <2>5. Sound(r.store) /\ Good(r.store) /\ ~ r.store.buffering /\ r.store \in Store
    BY <1>2, <2>4, Zenon DEF Yields, Kept, Since, Sound, Good
  <2>6. r.store.data = Seen(r.store)
    BY <2>5, WrittenThrough, Zenon
  <2> DEFINE V == Seen(txn)
             W == Seen(r.store)
             kept == delete(rows, entries_for(V, scopes))
             new == entries_for(W, scopes)
  <2>7. V \in Table /\ W \in Table /\ IsTree(V) /\ IsTree(W)
    BY <2>3, <2>5, Views, Zenon DEF Sound
  <2>8. /\ r.res # "err" => /\ rows' \in insert(kept, new)
                            /\ Ends(call, IF Collides(kept, new) THEN "err" ELSE r.res)
        /\ r.res = "err" => Ends(call, "err")
    BY <1>2, <2>1, <2>4, <2>6, Zenon
  <2> HIDE DEF V, W, kept, new
  <2>9. r.res # "err" /\ ~ Collides(kept, new)
    BY <2>2, <2>8, Zenon
  <2>10. r.res \in {"ok", "none"} /\ ~ failed
    BY <1>2, <2>2, <2>8, <2>9, Zenon DEF Yields
  <2>11. rows' = kept \cup new
    BY <2>8, <2>9, Zenon DEF insert
  <2>12. Elsewhere(V, W, scopes)
    BY <2>4, <2>10, Zenon DEF V, W
  <2>13. Synced(V, rows, db.unique)
    BY <1>3, <2>10, Zenon DEF IndexInv, V
  <2>14. Synced(W, kept \cup new, db.unique)
    BY <2>3, <2>7, <2>9, <2>12, <2>13, Resynced, Zenon DEF kept, new
  <2> QED BY <2>11, <2>14, Zenon DEF W
<1> QED BY <1>1, <1>2, <1>3, Zenon DEF IndexInv

\* A call that leaves store and rows alone.
LEMMA Untouched ==
  ASSUME IndexInv, UNCHANGED <<shared, txn, rows>>, failed => failed'
  PROVE  IndexInv'
<1>1. db' = db /\ has_indexes' = has_indexes /\ txn' = txn /\ rows' = rows
  BY Zenon DEF shared
<1> QED BY <1>1, Zenon DEF IndexInv, Open

\* A call that is refused.
LEMMA RefusedIndex ==
  ASSUME IndexInv, UNCHANGED <<shared, cursor>>, NEW call, Refused(call)
  PROVE  IndexInv'
<1>1. UNCHANGED <<shared, txn, rows>> /\ (failed => failed')
  BY Zenon DEF Refused, Ends
<1> QED BY <1>1, Untouched, Zenon

\* store.
LEMMA StoreValueIndex ==
  ASSUME TreeInv, IndexInv, NEW p \in StorePath, NEW v \in Value, StoreValue(p, v)
  PROVE  IndexInv'
<1> DEFINE call == <<"store", p, v>>
           lines == {p}
           r == store_blob_into(Current, p, v, Held)
<1>1. Open /\ UNCHANGED <<shared, cursor>> /\ p \in Seq(Name)
  BY PathsAssumption, Zenon DEF StoreValue, Calls
<1>2. Sound(Current)
  BY <1>1, InvIs, CurrentIs, Zenon
<1>3. \/ p = <<>> /\ Refused(call)
      \/ p # <<>> /\ reindex_around(call, lines, r)
  BY Zenon DEF StoreValue
<1>4. lines \in SUBSET Seq(Name) /\ lines # {} /\ p \in lines
  BY <1>1, Zenon
<1> HIDE DEF call, r, lines
<1>5. CASE p = <<>> /\ Refused(call)
  BY <1>1, <1>5, RefusedIndex, Zenon
<1>6. CASE p # <<>> /\ reindex_around(call, lines, r)
  <2>1. /\ r.res \in {"ok", "err", "full"} /\ Kept(Current, r.store)
        /\ \A P : r.res = "ok" /\ p \in P => Elsewhere(Seen(Current), Seen(r.store), P)
    BY <1>1, <1>2, <1>6, StoreBlob, Zenon DEF r
  <2>2. Yields(Current, r)
    BY <2>1, Zenon DEF Yields
  <2>3. r.res \in {"ok", "none"} => Elsewhere(Seen(Current), Seen(r.store), lines)
    <3>1. "none" \notin {"ok", "err", "full"}
      BY Zenon
    <3> QED BY <1>4, <2>1, <3>1, Zenon
  <2> QED BY <1>1, <1>4, <1>6, <2>2, <2>3, Maintained, Zenon
<1> QED BY <1>3, <1>5, <1>6, Zenon

\* rm.
LEMMA RmIndex ==
  ASSUME TreeInv, IndexInv, NEW p \in RmPath, Rm(p)
  PROVE  IndexInv'
<1> DEFINE call == <<"rm", p>>
           lines == {p}
           r == rm_into(Current, p)
<1>1. Open /\ UNCHANGED <<shared, cursor>> /\ p \in Seq(Name)
  BY PathsAssumption, Zenon DEF Rm, Calls
<1>2. Sound(Current)
  BY <1>1, InvIs, CurrentIs, Zenon
<1>3. \/ p = <<>> /\ Refused(call)
      \/ p # <<>> /\ reindex_around(call, lines, r)
  BY Zenon DEF Rm
<1>4. lines \in SUBSET Seq(Name) /\ lines # {} /\ p \in lines
  BY <1>1, Zenon
<1> HIDE DEF call, r, lines
<1>5. CASE p = <<>> /\ Refused(call)
  BY <1>1, <1>5, RefusedIndex, Zenon
<1>6. CASE p # <<>> /\ reindex_around(call, lines, r)
  <2>1. /\ r.res \in {"ok", "none"} /\ Kept(Current, r.store)
        /\ \A P : p \in P => Elsewhere(Seen(Current), Seen(r.store), P)
    BY <1>1, <1>2, <1>6, RmInto, Zenon DEF r
  <2>2. Yields(Current, r)
    BY <2>1, Zenon DEF Yields
  <2>3. Elsewhere(Seen(Current), Seen(r.store), lines)
    BY <1>4, <2>1, Zenon
  <2> QED BY <1>1, <1>4, <1>6, <2>2, <2>3, Maintained, Zenon
<1> QED BY <1>3, <1>5, <1>6, Zenon

\* mkdir, which does not look at the index.
LEMMA MkdirIndex ==
  ASSUME TreeInv, IndexInv, Careful, NEW p \in DirPath, Mkdir(p)
  PROVE  IndexInv'
<1> DEFINE d == ensure_dir(txn, p, Held)
<1>1. /\ Open /\ UNCHANGED shared /\ rows' = rows /\ p \in Seq(Name)
      /\ d.res # "full" /\ txn' = d.store /\ Ends(<<"mkdir", p>>, d.res)
  BY PathsAssumption, Zenon DEF Mkdir, Calls
<1>2. Sound(txn) /\ db.unique \in Uniques /\ db' = db /\ has_indexes' = has_indexes
  BY <1>1, InvIs, Zenon DEF TypeOK, shared
<1>3. Ensured(txn, p, d)
  BY <1>1, <1>2, EnsureDir, Zenon
<1> HIDE DEF d
<1>4. ASSUME ~ failed', db.registered PROVE Synced(Seen(d.store), rows, db.unique)
  <2>1. d.res = "ok" /\ ~ failed
    BY <1>1, <1>3, <1>4, Zenon DEF Ends, Ensured
  <2>2. Sound(d.store) /\ Grew(txn, d.store) /\ OnlyUpTo(txn, p, d.store)
    BY <1>3, <2>1, Zenon DEF Ensured
  <2>3. Synced(Seen(txn), rows, db.unique)
    BY <1>1, <1>4, <2>1, Zenon DEF IndexInv
  <2> QED BY <1>2, <2>2, <2>3, MkdirSynced, Zenon
<1> QED BY <1>1, <1>2, <1>4, Zenon DEF IndexInv

\* mv, but for upward ones.
LEMMA MvIndex ==
  ASSUME TreeInv, IndexInv, NoneUpward, NEW m \in Moves, Mv(m[1], m[2])
  PROVE  IndexInv'
<1> DEFINE src == m[1]
           dst == m[2]
           call == <<"mv", src, dst>>
           lines == {src, dst}
           r == mv_into(Current, src, dst, Held)
<1>1. Open /\ UNCHANGED <<shared, cursor>>
  BY Zenon DEF Mv, Calls
<1>2. src \in Seq(Name) /\ dst \in Seq(Name)
  BY PathsAssumption, Zenon
<1>3. starts_with(src, dst) => src = dst \/ dst = <<>>
  BY Zenon DEF NoneUpward
<1>4. Sound(Current)
  BY <1>1, InvIs, CurrentIs, Zenon
<1>5. \/ Refused(call)
      \/ ~ starts_with(dst, src) /\ dst # <<>> /\ reindex_around(call, lines, r)
  BY Zenon DEF Mv
<1>6. lines \in SUBSET Seq(Name) /\ lines # {} /\ src \in lines /\ dst \in lines
  BY <1>2, Zenon
<1> HIDE DEF call, r, src, dst, lines
<1>7. CASE Refused(call)
  BY <1>1, <1>7, RefusedIndex, Zenon
<1>8. CASE ~ starts_with(dst, src) /\ dst # <<>> /\ reindex_around(call, lines, r)
  <2>1. starts_with(src, src) /\ starts_with(dst, <<>>)
    BY <1>2 DEF starts_with
  <2>2. src # <<>> /\ ~ starts_with(src, dst)
    BY <1>3, <1>8, <2>1, Zenon
  <2>3. /\ r.res \in {"ok", "err", "full"} /\ Kept(Current, r.store)
        /\ \A P : r.res = "ok" /\ src \in P /\ dst \in P => Elsewhere(Seen(Current), Seen(r.store), P)
    BY <1>2, <1>4, <1>8, <2>2, MvInto, Zenon DEF r
  <2>4. Yields(Current, r)
    BY <2>3, Zenon DEF Yields
  <2>5. r.res \in {"ok", "none"} => Elsewhere(Seen(Current), Seen(r.store), lines)
    <3>1. "none" \notin {"ok", "err", "full"}
      BY Zenon
    <3> QED BY <1>6, <2>3, <3>1, Zenon
  <2> QED BY <1>1, <1>6, <1>8, <2>4, <2>5, Maintained, Zenon
<1> QED BY <1>5, <1>7, <1>8, Zenon

\* cp, but for upward ones.
LEMMA CpIndex ==
  ASSUME TreeInv, IndexInv, NoneUpward, NEW m \in Copies, Cp(m[1], m[2])
  PROVE  IndexInv'
<1> DEFINE src == m[1]
           dst == m[2]
           call == <<"cp", src, dst>>
           lines == {dst}
           r == cp_into(Current, src, dst, Held)
<1>1. Open /\ UNCHANGED <<shared, cursor>>
  BY Zenon DEF Cp, Calls
<1>2. src \in Seq(Name) /\ dst \in Seq(Name)
  BY PathsAssumption, Zenon
<1>3. starts_with(src, dst) => src = dst \/ dst = <<>>
  BY Zenon DEF NoneUpward
<1>4. Sound(Current)
  BY <1>1, InvIs, CurrentIs, Zenon
<1>5. \/ Refused(call)
      \/ ~ starts_with(dst, src) /\ dst # <<>> /\ reindex_around(call, lines, r)
  BY Zenon DEF Cp
<1>6. lines \in SUBSET Seq(Name) /\ lines # {} /\ dst \in lines
  BY <1>2, Zenon
<1> HIDE DEF call, r, src, dst, lines
<1>7. CASE Refused(call)
  BY <1>1, <1>7, RefusedIndex, Zenon
<1>8. CASE ~ starts_with(dst, src) /\ dst # <<>> /\ reindex_around(call, lines, r)
  <2>1. starts_with(src, src) /\ starts_with(dst, <<>>)
    BY <1>2 DEF starts_with
  <2>2. src # <<>> /\ ~ starts_with(src, dst)
    BY <1>3, <1>8, <2>1, Zenon
  <2>3. /\ r.res \in {"ok", "err", "full"} /\ (r.res # "full" => Kept(Current, r.store))
        /\ \A P : r.res = "ok" /\ dst \in P => Elsewhere(Seen(Current), Seen(r.store), P)
    BY <1>2, <1>4, <1>8, <2>2, CpInto, Zenon DEF r
  <2>4. Yields(Current, r)
    BY <2>3, Zenon DEF Yields
  <2>5. r.res \in {"ok", "none"} => Elsewhere(Seen(Current), Seen(r.store), lines)
    <3>1. "none" \notin {"ok", "err", "full"}
      BY Zenon
    <3> QED BY <1>6, <2>3, <3>1, Zenon
  <2> QED BY <1>1, <1>6, <1>8, <2>4, <2>5, Maintained, Zenon
<1> QED BY <1>5, <1>7, <1>8, Zenon

\* A cursor's put_scalar: under the key it remembers, it writes what its path leads to.
LEMMA PutScalarIndex ==
  ASSUME TreeInv, IndexInv, NEW v \in Value, PutScalar(v)
  PROVE  IndexInv'
<1> DEFINE call == <<"edit", v>>
           lines == {cursor.path}
           r == put_scalar_into(Current, cursor.path, cursor, v, Held)
<1>1. Open /\ cursor # None /\ UNCHANGED <<shared, cursor>> /\ reindex_around(call, lines, r)
  BY Zenon DEF PutScalar, Calls
<1>2. /\ cursor.path \in Seq(Name) /\ cursor.path # <<>> /\ cursor.key \in AKey /\ Sound(txn)
      /\ cursor.epoch = txn.structure => Walk(Links(Seen(txn)), cursor.path) = cursor.key
  BY <1>1, InvIs, Zenon
<1>3. lines \in SUBSET Seq(Name) /\ lines # {} /\ cursor.path \in lines
  BY <1>2, Zenon
<1>4. Sound(Current) /\ Seen(Current) = Seen(txn) /\ Current.structure = txn.structure
  BY <1>2, CurrentIs, TakeAndDisable, Zenon DEF Current
<1>5. cursor.epoch = Current.structure => Walk(Links(Seen(Current)), cursor.path) = cursor.key
  BY <1>2, <1>4, Zenon
<1> HIDE DEF call, lines, r
<1>6. /\ r.res \in {"ok", "err", "full"} /\ Kept(Current, r.store)
      /\ \A P : r.res = "ok" /\ cursor.path \in P => Elsewhere(Seen(Current), Seen(r.store), P)
  BY <1>2, <1>4, <1>5, PutScalarInto, Zenon DEF r
<1>7. Yields(Current, r)
  BY <1>6, Zenon DEF Yields
<1>8. r.res \in {"ok", "none"} => Elsewhere(Seen(Current), Seen(r.store), lines)
  <2>1. "none" \notin {"ok", "err", "full"}
    BY Zenon
  <2> QED BY <1>3, <1>6, <2>1, Zenon
<1> QED BY <1>1, <1>3, <1>7, <1>8, Maintained, Zenon

\* Its other edits, which store the value again.
LEMMA CursorStoreIndex ==
  ASSUME TreeInv, IndexInv, NEW v \in Value, CursorStore(v)
  PROVE  IndexInv'
<1> DEFINE call == <<"edit", v>>
           lines == {cursor.path}
           r == store_blob_into(Current, cursor.path, v, Held)
<1>1. /\ Open /\ cursor # None /\ UNCHANGED <<shared, cursor>>
      /\ Refused(call) \/ reindex_around(call, lines, r)
  BY Zenon DEF CursorStore, Calls
<1>2. cursor.path \in Seq(Name) /\ cursor.path # <<>>
  BY <1>1, InvIs, Zenon
<1>3. lines \in SUBSET Seq(Name) /\ lines # {} /\ cursor.path \in lines
  BY <1>2, Zenon
<1>4. Sound(Current)
  BY <1>1, InvIs, CurrentIs, Zenon
<1> HIDE DEF call, lines, r
<1>5. CASE Refused(call)
  BY <1>1, <1>5, RefusedIndex, Zenon
<1>6. CASE reindex_around(call, lines, r)
  <2>1. /\ r.res \in {"ok", "err", "full"} /\ Kept(Current, r.store)
        /\ \A P : r.res = "ok" /\ cursor.path \in P => Elsewhere(Seen(Current), Seen(r.store), P)
    BY <1>2, <1>4, StoreBlob, Zenon DEF r
  <2>2. Yields(Current, r)
    BY <2>1, Zenon DEF Yields
  <2>3. r.res \in {"ok", "none"} => Elsewhere(Seen(Current), Seen(r.store), lines)
    <3>1. "none" \notin {"ok", "err", "full"}
      BY Zenon
    <3> QED BY <1>3, <2>1, <3>1, Zenon
  <2> QED BY <1>1, <1>3, <1>6, <2>2, <2>3, Maintained, Zenon
<1> QED BY <1>1, <1>5, <1>6, Zenon

\* fetch_mut and the end of a cursor.
LEMMA CursorIndex ==
  ASSUME TreeInv, IndexInv, DropCursor \/ \E p \in CursorPath : FetchMut(p)
  PROVE  IndexInv'
<1>1. CASE DropCursor
  <2>1. UNCHANGED <<shared, txn, rows>> /\ failed' = failed
    BY <1>1, Zenon DEF DropCursor
  <2> QED BY <2>1, Untouched, Zenon
<1>2. CASE \E p \in CursorPath : FetchMut(p)
  <2>1. PICK p \in CursorPath : FetchMut(p)
    BY <1>2, Zenon
  <2>2. Open /\ UNCHANGED <<shared, txn, rows>>
    BY <2>1, Zenon DEF FetchMut, Calls
  <2>3. failed => failed'
    <3>1. \A call, h : Ends(call, h) => (failed => failed')
      BY Zenon DEF Ends
    <3>2. \E call, h : Ends(call, h)
      BY <2>1, <2>2, FetchKinds, Zenon DEF FetchMut
    <3> QED BY <3>1, <3>2, Zenon
  <2> QED BY <2>2, <2>3, Untouched, Zenon
<1> QED BY <1>1, <1>2, Zenon

\* Table::write and the transaction's end: rows and table are published together.
LEMMA TxnIndex ==
  ASSUME TreeInv, IndexInv, DropsOnError, Begin \/ Commit \/ Abandon
  PROVE  IndexInv'
<1>1. CASE Begin
  <2> DEFINE s == NewStore(db.data, ~has_indexes)
  <2>1. txn' = s /\ rows' = db.rows /\ db' = db /\ has_indexes' = has_indexes
    BY <1>1, Zenon DEF Begin, shared
  <2>2. Seen(s) = db.data
    <3>1. db.data \in Table /\ has_indexes \in BOOLEAN
      BY InvIs, Zenon DEF TypeOK
    <3> QED BY <3>1, NewStoreIs, Zenon
  <2> HIDE DEF s
  <2> QED BY <2>1, <2>2, Zenon DEF IndexInv
<1>2. CASE Commit
  <2>1. /\ Open /\ ~ failed /\ ~ Open' /\ has_indexes' = has_indexes
        /\ db' = [db EXCEPT !.data = Seen(txn), !.rows = rows]
    BY <1>2, Zenon DEF Commit, Closed, Open, Seen
  <2>2. /\ db'.data = Seen(txn) /\ db'.rows = rows /\ db'.registered = db.registered
        /\ db'.unique = db.unique
    BY <2>1, InvIs, Zenon DEF TypeOK
  <2> QED BY <2>1, <2>2, Zenon DEF IndexInv
<1>3. CASE Abandon
  <2>1. ~ Open' /\ db' = db /\ has_indexes' = has_indexes
    BY <1>3, Zenon DEF Abandon, Closed, Open
  <2> QED BY <2>1, Zenon DEF IndexInv
<1> QED BY <1>1, <1>2, <1>3, Zenon

\* The steps of other threads: while a transaction is open, only the flag is set.
LEMMA OthersIndex ==
  ASSUME TreeInv, IndexInv, ~(Restarts /\ Redefines), CreateIndex \/ MarkHasIndex \/ DeleteIndex \/ Reopen
  PROVE  IndexInv'
<1>1. /\ db \in [data : Table, rows : SUBSET Row, registered : BOOLEAN, unique : Uniques]
      /\ db.data \in Table
  BY InvIs, Zenon DEF TypeOK
<1>2. txn' = txn /\ rows' = rows /\ failed' = failed
  BY Zenon DEF CreateIndex, MarkHasIndex, DeleteIndex, Reopen
<1>3. CASE CreateIndex
  <2> DEFINE all == entries_for(db.data, {<<>>})
  <2>1. /\ ~ Open /\ ~ Collides({}, all) /\ db' = [db EXCEPT !.rows = all, !.registered = TRUE]
        /\ has_indexes' = has_indexes /\ Redefines
    BY <1>3, Zenon DEF CreateIndex
  <2>2. Synced(db.data, all, db.unique)
    BY <1>1, <2>1, AllSynced, Zenon
  <2> HIDE DEF all
  <2>3. db'.data = db.data /\ db'.rows = all /\ db'.unique = db.unique
    BY <1>1, <2>1, Zenon
  <2>4. ~ Open'
    BY <1>2, <2>1, Zenon DEF Open
  <2> QED BY <2>1, <2>2, <2>3, <2>4, Zenon DEF IndexInv
<1>4. CASE MarkHasIndex
  <2>1. db' = db /\ has_indexes' = TRUE
    BY <1>4, Zenon DEF MarkHasIndex
  <2> QED BY <1>2, <2>1, Zenon DEF IndexInv, Open
<1>5. CASE DeleteIndex
  <2>1. /\ ~ Open /\ db' = [db EXCEPT !.rows = {}, !.registered = FALSE]
        /\ has_indexes' = has_indexes /\ Redefines
    BY <1>5, Zenon DEF DeleteIndex
  <2>2. db'.registered = FALSE
    BY <1>1, <2>1, Zenon
  <2> QED BY <2>1, <2>2, Zenon DEF IndexInv
<1>6. CASE Reopen
  <2>1. ~ Open /\ db' = db /\ has_indexes' = db.registered /\ ~ Redefines
    BY <1>6, Zenon DEF Reopen
  <2>2. db.registered
    BY <2>1, Zenon DEF IndexInv
  <2> QED BY <1>2, <2>1, <2>2, Zenon DEF IndexInv, Open
<1> QED BY <1>3, <1>4, <1>5, <1>6, Zenon

-----------------------------------------------------------------------------
(* The theorems. *)

\* Every step, with mv and cp that are not given a destination above their source, keeps the
\* trees, the buffer and the cursor in order.
THEOREM TreeInvariant == NoneUpward => (Spec => []TreeInv)
<1> SUFFICES ASSUME NoneUpward PROVE Spec => []TreeInv
  BY Zenon
<1>1. Init => TreeInv
  <2> SUFFICES ASSUME Init PROVE TreeInv
    BY Zenon
  <2>1. EmptyTable \in Table /\ \A k \in AKey : EmptyTable[k] = None
    BY Zenon DEF EmptyTable, Table
  <2>2. PICK u \in Uniques :
          db = [data |-> EmptyTable, rows |-> {}, registered |-> IndexedAtOpen, unique |-> u]
    BY Zenon DEF Init
  <2>3. /\ db \in [data : Table, rows : SUBSET Row, registered : BOOLEAN, unique : Uniques]
        /\ db.data = EmptyTable
    BY <2>1, <2>2, FlagAssumption, Zenon
  <2>4. /\ has_indexes \in BOOLEAN /\ marking = FALSE /\ txn = None /\ rows = {}
        /\ cursor = None /\ failed = FALSE
    BY FlagAssumption, Zenon DEF Init
  <2>5. last[Len(last)] \in Outcome
    BY Zenon DEF Init, Outcome
  <2>6. TypeOK
    BY <2>3, <2>4, <2>5, Zenon DEF TypeOK
  <2>7. IsTree(EmptyTable)
    <3>1. Live(EmptyTable) = {} /\ Links(EmptyTable) \in [AKey -> Children]
      BY <2>1, LinksAre, Zenon DEF Live
    <3>2. \A k \in AKey, n \in Name : Links(EmptyTable)[k][n] = None
      BY <2>1, LinksAre, Zenon
    <3> QED BY <2>1, <3>1, <3>2, RootAssumption, Zenon DEF IsTree, Tree, LiveLinks, OneLink
  <2>8. Rooted(EmptyTable)
    BY <2>1, <2>7, RootedIs, Zenon
  <2> QED BY <2>3, <2>4, <2>6, <2>8, Zenon DEF TreeInv, HintSound, Open
<1>2. TreeInv /\ [Next]_vars => TreeInv'
  <2> SUFFICES ASSUME TreeInv, [Next]_vars PROVE TreeInv'
    BY Zenon
  <2>1. CASE Begin
    BY <2>1, BeginKeeps, Zenon
  <2>2. CASE Commit \/ Abandon
    BY <2>2, CloseKeeps, Zenon
  <2>3. CASE DropCursor
    BY <2>3, DropKeeps, Zenon
  <2>4. CASE \E v \in Value, p \in StorePath : StoreValue(p, v)
    BY <2>4, StoreValueKeeps, Zenon
  <2>5. CASE \E v \in Value : PutScalar(v)
    BY <2>5, PutScalarKeeps, Zenon
  <2>6. CASE \E v \in Value : CursorStore(v)
    BY <2>6, CursorStoreKeeps, Zenon
  <2>7. CASE \E p \in DirPath : Mkdir(p)
    BY <2>7, MkdirKeeps, Zenon
  <2>8. CASE \E p \in RmPath : Rm(p)
    BY <2>8, RmKeeps, Zenon
  <2>9. CASE \E p \in CursorPath : FetchMut(p)
    BY <2>9, FetchMutKeeps, Zenon
  <2>10. CASE \E m \in Moves : Mv(m[1], m[2])
    BY <2>10, MvKeeps, Zenon
  <2>11. CASE \E m \in Copies : Cp(m[1], m[2])
    BY <2>11, CpKeeps, Zenon
  <2>12. CASE CreateIndex \/ MarkHasIndex \/ DeleteIndex \/ Reopen
    BY <2>12, OthersKeep, Zenon
  <2>13. CASE UNCHANGED vars
    BY <2>13, Zenon DEF vars, TreeInv, TypeOK, HintSound, Open
  <2> QED
    BY <2>1, <2>2, <2>3, <2>4, <2>5, <2>6, <2>7, <2>8, <2>9, <2>10, <2>11, <2>12, <2>13, Zenon
    DEF Next
<1> QED BY <1>1, <1>2, PTL DEF Spec

\* Whatever mix of store, mkdir, rm, mv, cp and cursor edits a transaction makes, buffered or
\* written through, the table it would commit is a tree, and so is every committed one; but
\* for upward mv and cp.
THEOREM TreesStay == NoneUpward => (Spec => []TreeWellFormed)
<1>1. TreeInv => TreeWellFormed
  BY Zenon DEF TreeInv, TreeWellFormed, Rooted, Seen
<1> QED BY <1>1, TreeInvariant, PTL

\* The key a cursor remembers is used only while its path leads to it.
THEOREM HintsSound == NoneUpward => (Spec => []HintSound)
<1>1. TreeInv => HintSound
  BY Zenon DEF TreeInv
<1> QED BY <1>1, TreeInvariant, PTL

\* Table, buffer, rows and cursor keep their types.
THEOREM TxnTypes == NoneUpward => (Spec => []TypeOK)
<1>1. TreeInv => TypeOK
  BY Zenon DEF TreeInv
<1> QED BY <1>1, TreeInvariant, PTL

\* Until a call of it fails, the rows that a transaction sees are in sync with the table it
\* would commit, and committed rows with the committed table: reindex_around deletes and adds
\* the rows of the a-nodes on the lines of the call's paths, and a call changes no other.
\* The hypothesis is what the index relies on: the flag is set, the client gives up after an
\* error, and neither mkdir nor an upward mv or cp goes behind the index's back.
THEOREM IndexInvariant == Careful => (Spec => []IndexInv)
<1> SUFFICES ASSUME Careful PROVE Spec => []IndexInv
  BY Zenon
<1>1. NoneUpward /\ DropsOnError /\ IndexedAtOpen /\ ~(Restarts /\ Redefines)
  BY Zenon DEF Careful
<1>2. Init => IndexInv
  <2> SUFFICES ASSUME Init PROVE IndexInv
    BY Zenon
  <2>1. PICK u \in Uniques :
          db = [data |-> EmptyTable, rows |-> {}, registered |-> IndexedAtOpen, unique |-> u]
    BY Zenon DEF Init
  <2>2. db.data = EmptyTable /\ db.rows = {} /\ db.unique = u /\ db.registered = IndexedAtOpen
    BY <2>1, Zenon
  <2>3. Synced(EmptyTable, {}, u)
    BY EmptySynced, FlagAssumption, Zenon
  <2>4. has_indexes = IndexedAtOpen /\ ~ Open
    BY Zenon DEF Init, Open
  <2> QED BY <1>1, <2>2, <2>3, <2>4, Zenon DEF IndexInv
<1>3. TreeInv /\ IndexInv /\ [Next]_vars => IndexInv'
  <2> SUFFICES ASSUME TreeInv, IndexInv, [Next]_vars PROVE IndexInv'
    BY Zenon
  <2>1. CASE Begin \/ Commit \/ Abandon
    BY <1>1, <2>1, TxnIndex, Zenon
  <2>2. CASE DropCursor \/ \E p \in CursorPath : FetchMut(p)
    BY <2>2, CursorIndex, Zenon
  <2>3. CASE \E v \in Value, p \in StorePath : StoreValue(p, v)
    BY <2>3, StoreValueIndex, Zenon
  <2>4. CASE \E v \in Value : PutScalar(v)
    BY <2>4, PutScalarIndex, Zenon
  <2>5. CASE \E v \in Value : CursorStore(v)
    BY <2>5, CursorStoreIndex, Zenon
  <2>6. CASE \E p \in DirPath : Mkdir(p)
    BY <2>6, MkdirIndex, Zenon
  <2>7. CASE \E p \in RmPath : Rm(p)
    BY <2>7, RmIndex, Zenon
  <2>8. CASE \E m \in Moves : Mv(m[1], m[2])
    BY <1>1, <2>8, MvIndex, Zenon
  <2>9. CASE \E m \in Copies : Cp(m[1], m[2])
    BY <1>1, <2>9, CpIndex, Zenon
  <2>10. CASE CreateIndex \/ MarkHasIndex \/ DeleteIndex \/ Reopen
    BY <1>1, <2>10, OthersIndex, Zenon
  <2>11. CASE UNCHANGED vars
    BY <2>11, Zenon DEF vars, IndexInv, Open
  <2> QED
    BY <2>1, <2>2, <2>3, <2>4, <2>5, <2>6, <2>7, <2>8, <2>9, <2>10, <2>11, Zenon DEF Next
<1>4. Spec => []TreeInv
  BY <1>1, TreeInvariant, PTL
<1> QED BY <1>2, <1>3, <1>4, PTL DEF Spec

\* Each committed row is the one its a-node has now, and each committed file that the pattern
\* matches has its row, whatever the pattern, the paths and the order of the calls.
THEOREM IndexStays == Careful => (Spec => []IndexInSync)
<1>1. IndexInv => IndexInSync
  BY Zenon DEF IndexInv, IndexInSync, Synced
<1> QED BY <1>1, IndexInvariant, PTL

\* A unique index keeps the committed files that it matches apart.
THEOREM UniqueStays == Careful => (Spec => []UniqueHolds)
<1>1. IndexInv => UniqueHolds
  BY Zenon DEF IndexInv, UniqueHolds, Synced
<1> QED BY <1>1, IndexInvariant, PTL

=============================================================================
