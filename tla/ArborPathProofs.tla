--------------------------- MODULE ArborPathProofs ---------------------------
(***************************************************************************)
(* The operations of ArborTree on tables of any size: each keeps the       *)
(* buffer consistent and the table that a flush would leave a tree, and    *)
(* counts the relinks it makes.                                            *)
(***************************************************************************)
EXTENDS ArborTreeProofs, WellFoundedInduction

-----------------------------------------------------------------------------
(* The steps of the operations: an entry copied or stored under a name. *)

\* A copy of what hangs from k, in a store where a name d/n has been freed, is hung there.
LEMMA CopyName ==
  ASSUME NEW g, Sound(g), NEW d, IsDir(g, d), NEW n \in Name, NEW U, U = Cut(Links(Seen(g)), d, n),
         NEW k \in Live(Seen(g)), k # ROOT, k \notin U, d \notin Under(Links(Seen(g)), k),
         NEW s, Good(s), s.structure = g.structure, s.buffering = g.buffering,
         \A j \in AKey : Seen(s)[j] = IF j \in U THEN None ELSE Seen(g)[j],
         NEW used, NEW r, r = deep_copy(s, k, used), NEW t, t = link_child(r.store, d, n, r.key)
  PROVE  /\ r.res \in {"ok", "full"}
         /\ r.res = "ok" => Sound(t) /\ After(g, t) /\ Beside(Seen(g), Seen(t), U, d, n, d, n)
<1> DEFINE L == Links(Seen(g))
           D == Live(Seen(g))
           K == Links(Seen(s))
           E == Subtree(s, k)
<1>1. /\ Good(g) /\ Seen(g) \in Table /\ L \in [AKey -> Children] /\ Tree(L, D)
      /\ d \in AKey /\ Seen(g)[d] # None /\ Seen(g)[d].kind = "dir" /\ k \in AKey
      /\ Seen(s) \in Table /\ K \in [AKey -> Children]
  BY Views, Zenon DEF Sound, IsTree, IsDir, Live
<1>2. PICK N \in [AKey -> Children] : Tree(N, D \ U) /\ Freed(N, L, d, n)
  BY <1>1, CutLinks, Zenon
<1>3. d \notin U
  BY <1>1, <1>2, CutOff, Zenon
<1>4. \A j \in AKey, m \in Name : K[j][m] = IF j \in U THEN None ELSE L[j][m]
  BY <1>1, LinksOf
<1>5. /\ \A j \in AKey, m \in Name : N[j][m] = IF j = d /\ m = n THEN None ELSE K[j][m]
      /\ \A j \in AKey, m \in Name : N[j][m] # None => N[j][m] = L[j][m]
  BY <1>2, <1>3, <1>4 DEF Freed
<1> HIDE DEF L, D, K
<1>6. E = Under(N, k) /\ d \notin E
  <2>1. E = Under(K, k)
    BY <1>1, SubtreeIsUnder, Zenon DEF K
  <2>2. Under(N, k) \subseteq Under(K, k)
    BY <1>1, <1>2, <1>5, UnderLess
  <2>3. d \notin Under(N, k)
    <3>1. Under(N, k) \subseteq Under(L, k)
      BY <1>1, <1>2, <1>5, UnderLess, Zenon
    <3> QED BY <3>1, Zenon DEF L
  <2>4. Under(N, k) \in SUBSET AKey /\ k \in Under(N, k) /\ LinkClosed(N, Under(N, k))
    BY <1>1, <1>2, UnderIs, Zenon
  <2>5. LinkClosed(K, Under(N, k))
    BY <1>5, <2>3, <2>4 DEF LinkClosed
  <2>6. Under(K, k) \subseteq Under(N, k)
    BY <1>1, <2>4, <2>5, UnderIs, Zenon
  <2> QED BY <2>1, <2>2, <2>3, <2>6, Zenon
<1>7. E \subseteq D \ U /\ Branch(N, E, k)
  <2>1. k \in D \ U
    BY Zenon DEF D
  <2> QED BY <1>2, <1>6, <2>1, UnderLive, BranchUnder
<1> HIDE DEF E
<1>8. /\ E \subseteq AKey /\ k \in E /\ None \notin E
      /\ \A j \in E : Seen(s)[j] # None /\ Seen(s)[j] \in Entry /\ kind(s, j) # None
      /\ \A j \in E, m \in Name : N[j][m] = K[j][m] /\ (K[j][m] # None => K[j][m] \in E)
  <2>1. E \subseteq AKey /\ k \in E /\ None \notin E
    BY <1>7, RootAssumption, Zenon DEF Branch
  <2>2. \A j \in E : Seen(s)[j] # None
    BY <1>7, <2>1, Zenon DEF D, Live
  <2>3. \A j \in E : Seen(s)[j] \in Entry /\ kind(s, j) # None
    <3>1. \A j \in E : Seen(s)[j] \in Entry
      BY <1>1, <2>1, <2>2, Zenon DEF Table
    <3>2. \A j \in AKey : kind(s, j) = None <=> Seen(s)[j] = None
      BY Views, Zenon
    <3> QED BY <2>1, <2>2, <3>1, <3>2, Zenon
  <2>4. \A j \in E, m \in Name : N[j][m] = K[j][m]
    BY <1>5, <1>6, <2>1, ZenonT(40)
  <2> QED BY <1>7, <2>1, <2>2, <2>3, <2>4, Zenon DEF Branch
<1> DEFINE maps == {f \in [E -> Spare(s, used)] : \A i, j \in E : f[i] = f[j] => i = j}
           new == CHOOSE f \in maps : TRUE
           copied(m) == [l \in Name |-> IF m[l] = None THEN None ELSE new[m[l]]]
           copy(j) == IF kind(s, j) = "dir" THEN DirEntry(copied(dir_children(s, j))) ELSE with_entry(s, j)
           F == {new[j] : j \in E}
           es == [i \in F |-> copy(CHOOSE j \in E : new[j] = i)]
<1>9. r = IF maps = {} THEN Ended(s, "full") ELSE Done(put_all(s, es), new[k])
  BY <1>8, Zenon DEF deep_copy, E
<1>10. CASE maps = {}
  <2> HIDE DEF es, maps, new
  <2>1. r = Ended(s, "full")
    BY <1>9, <1>10, Zenon
  <2>2. r.res = "full"
    BY <2>1 DEF Ended
  <2> QED BY <2>2, Zenon
<1>11. CASE maps # {}
  <2> DEFINE c == put_all(s, es)
  <2>1. r.store = c /\ r.key = new[k] /\ r.res = "ok"
    <3> HIDE DEF c, maps, new
    <3>1. r = Done(c, new[k])
      BY <1>9, <1>11, Zenon DEF c
    <3> QED BY <3>1 DEF Done
  <2>2. new \in maps
    BY <1>11, Zenon
  <2>3. /\ new \in [E -> Spare(s, used)] /\ \A i, j \in E : new[i] = new[j] => i = j
        /\ \A i \in Spare(s, used) : i \in AKey /\ Seen(s)[i] = None /\ i # ROOT
    BY <2>2, FreshIs, Zenon
  <2> HIDE DEF maps, new
  <2>4. F \subseteq AKey /\ ROOT \notin F /\ new \in [E -> F] /\ \A i \in F : Seen(s)[i] = None
    BY <2>3
  <2>5. \A j \in E : copy(j) \in Entry
    <3> SUFFICES ASSUME NEW j \in E PROVE copy(j) \in Entry
      BY Zenon
    <3>1. CASE IsDir(s, j)
      <4>1. kind(s, j) = "dir" /\ j \in AKey
        BY <1>8, <3>1, Views, ZenonT(40)
      <4>2. dir_children(s, j) = Seen(s)[j].children /\ \A m \in Name : K[j][m] = Seen(s)[j].children[m]
        BY <1>1, <3>1, <4>1, Reads, LinksAre, SMTT(40) DEF IsDir, K, Good
      <4>3. copied(dir_children(s, j)) \in Children
        <5>1. ASSUME NEW m \in Name, Seen(s)[j].children[m] # None
              PROVE  new[Seen(s)[j].children[m]] \in AKey
          <6>1. Seen(s)[j].children[m] \in E
            BY <1>8, <4>2, <5>1, Zenon
          <6> QED BY <2>4, <6>1
        <5> QED BY <4>2, <5>1 DEF Children
      <4> HIDE DEF copied
      <4> QED BY <4>1, <4>3, Entries, Zenon
    <3>2. CASE ~ IsDir(s, j)
      <4>1. kind(s, j) # "dir" /\ j \in AKey /\ s.dirs[j] = None
        BY <1>8, <3>2, Views, FileIs, SMTT(40)
      <4>2. with_entry(s, j) = Seen(s)[j]
        BY <4>1, Reads, Zenon DEF Good
      <4> QED BY <1>8, <4>1, <4>2, Zenon
    <3> QED BY <3>1, <3>2, Zenon
  <2>6. \A j \in E : es[new[j]] = copy(j)
    <3> SUFFICES ASSUME NEW j \in E PROVE es[new[j]] = copy(j)
      BY Zenon
    <3>1. (CHOOSE i \in E : new[i] = new[j]) = j
      BY <2>3, Zenon
    <3> HIDE DEF copy
    <3> QED BY <3>1, Zenon
  <2>7. es \in [F -> Entry]
    <3>1. ASSUME NEW i \in F PROVE es[i] \in Entry
      <4>1. PICK j \in E : i = new[j]
        BY <3>1, Zenon
      <4> HIDE DEF es, copy
      <4> QED BY <2>5, <2>6, <4>1, Zenon
    <3> HIDE DEF copy
    <3> QED BY <3>1, Zenon
  <2>8. /\ Good(c) /\ c.structure = s.structure /\ c.buffering = s.buffering
        /\ \A j \in AKey : Seen(c)[j] = IF j \in F THEN es[j] ELSE Seen(s)[j]
    <3> HIDE DEF es, F
    <3> QED BY <2>4, <2>7, PutAll
  <2>9. Seen(s)[d] = Seen(g)[d] /\ d \notin F
    BY <1>1, <1>3, <2>4, Zenon
  <2>10. Seen(c)[d] = Seen(g)[d] /\ new[k] \in AKey
    BY <1>1, <1>8, <2>4, <2>8, <2>9, ZenonT(40)
  <2> HIDE DEF c, es, F
  <2>11. /\ Good(t) /\ t.structure = c.structure + 1 /\ t.buffering = c.buffering
         /\ \A j \in AKey : Seen(t)[j] = IF j = d THEN Given(Seen(c)[d], n, new[k]) ELSE Seen(c)[j]
    BY <1>1, <2>1, <2>8, <2>10, LinkChild, SMTT(40)
  <2> DEFINE M == Links(Seen(t))
  <2>12. Seen(t) \in Table
    BY <2>11, Views, Zenon
  <2>13. \A j \in E : Seen(t)[new[j]] = copy(j)
    <3> HIDE DEF copy
    <3> QED BY <2>4, <2>6, <2>8, <2>9, <2>11, ZenonT(40)
  <2>14. \A j \in E, m \in Name : M[new[j]][m] = IF N[j][m] = None THEN None ELSE new[N[j][m]]
    <3> SUFFICES ASSUME NEW j \in E, NEW m \in Name
                 PROVE  M[new[j]][m] = IF K[j][m] = None THEN None ELSE new[K[j][m]]
      BY <1>8, SMTT(40)
    <3>0. Seen(t)[new[j]] = copy(j) /\ new[j] \in AKey
      BY <2>4, <2>13, Zenon
    <3>1. M[new[j]][m] = child_of(copy(j), m)
      <4> HIDE DEF copy
      <4> QED BY <2>12, <3>0, LinksAre, SMTT(40)
    <3>2. CASE IsDir(s, j)
      <4>1. kind(s, j) = "dir" /\ j \in AKey
        BY <1>8, <3>2, Views, ZenonT(40)
      <4>2. dir_children(s, j) = Seen(s)[j].children /\ \A i \in Name : K[j][i] = Seen(s)[j].children[i]
        BY <1>1, <3>2, <4>1, Reads, LinksAre, SMTT(40) DEF IsDir, K, Good
      <4>3. copied(dir_children(s, j)) \in Children
        BY <1>8, <2>4, <4>2, SMTT(40) DEF Children
      <4>4. copied(dir_children(s, j))[m] = IF K[j][m] = None THEN None ELSE new[K[j][m]]
        BY <4>2, Zenon
      <4> HIDE DEF copied
      <4>5. child_of(copy(j), m) = copied(dir_children(s, j))[m]
        BY <4>1, <4>3, Entries, Zenon DEF child_of
      <4> QED BY <3>1, <4>4, <4>5, Zenon
    <3>3. CASE ~ IsDir(s, j)
      <4>1. kind(s, j) # "dir" /\ j \in AKey /\ s.dirs[j] = None /\ Seen(s)[j].kind = "file"
        BY <1>8, <3>3, Views, FileIs, SMTT(40)
      <4>2. with_entry(s, j) = Seen(s)[j]
        BY <4>1, Reads, Zenon DEF Good
      <4>3. copy(j) = Seen(s)[j]
        BY <4>1, <4>2, Zenon
      <4> HIDE DEF copy
      <4>4. K[j][m] = None
        BY <1>1, <4>1, LinksAre, Zenon DEF K
      <4> QED BY <3>1, <4>1, <4>3, <4>4, ZenonT(40) DEF child_of
    <3> QED BY <3>2, <3>3, Zenon
  <2>15. Branch(M, F, new[k])
    <3>1. \A i \in F : \E j \in E : new[j] = i
      BY Zenon DEF F
    <3> HIDE DEF M
    <3> HIDE DEF F
    <3>2. /\ Branch(N, E, k) /\ None \notin E
          /\ F \in SUBSET AKey /\ ROOT \notin F /\ new \in [E -> F]
      BY <1>7, <1>8, <2>4, Zenon
    <3>3. \A i, j \in E : new[i] = new[j] => i = j
      BY <2>3, Zenon
    <3> QED BY <2>14, <3>1, <3>2, <3>3, BranchCopy, SMTT(40)
  <2>16. F \cap (D \ U) = {}
    BY <2>4, Zenon DEF D, Live
  <2>17. \A j \in F : Seen(t)[j] # None
    BY <2>4, <2>7, <2>8, <2>9, <2>11, Entries
  <2>18. Seen(t)[d] = Given(Seen(g)[d], n, new[k])
    BY <1>1, <2>10, <2>11, Zenon
  <2>19. \A j \in AKey : j \notin F /\ j # d => Seen(t)[j] = IF j \in U THEN None ELSE Seen(g)[j]
    BY <2>8, <2>11, ZenonT(40)
  <2>20. Sound(t) /\ Beside(Seen(g), Seen(t), U, d, n, d, n)
    BY <2>11, <2>15, <2>16, <2>17, <2>18, <2>19, Hung, SMTT(40) DEF D
  <2>21. g.structure \in Nat
    BY <1>1, StoreFields, Zenon DEF Good
  <2>22. After(g, t)
    <3>1. t.structure = g.structure + 1 /\ t.buffering = g.buffering
      BY <2>8, <2>11, Zenon
    <3> QED BY <2>21, <3>1, Relink, Zenon
  <2> QED BY <2>1, <2>20, <2>22, Zenon
<1> QED BY <1>10, <1>11, Zenon

\* A new file under a name, in the place of what was there.
LEMMA StoreName ==
  ASSUME NEW g, Sound(g), NEW d, IsDir(g, d), NEW n \in Name, NEW c, c = Links(Seen(g))[d][n],
         NEW k \in AKey, Seen(g)[k] = None, k # ROOT, NEW v \in Value,
         NEW u, u = IF c = None THEN g ELSE cascade_delete(g, c),
         NEW w, w = link_child(u, d, n, k), NEW t, t = put_entry(w, k, FileEntry(v))
  PROVE  /\ Sound(t) /\ After(g, t)
         /\ Beside(Seen(g), Seen(t), Cut(Links(Seen(g)), d, n), d, n, d, n)
<1> DEFINE L == Links(Seen(g))
           U == Cut(L, d, n)
<1>1. /\ Good(g) /\ Tree(L, Live(Seen(g))) /\ d \in AKey /\ d # k
      /\ Seen(g)[d] # None /\ Seen(g)[d].kind = "dir"
  BY Zenon DEF Sound, IsTree, IsDir
<1>2. /\ Good(u) /\ u.structure = g.structure /\ u.buffering = g.buffering
      /\ \A j \in AKey : Seen(u)[j] = IF j \in U THEN None ELSE Seen(g)[j]
  BY <1>1, FreeName, SMTT(40)
<1>3. d \notin U
  BY <1>1, CutLinks, CutOff, Zenon
<1>4. Seen(u)[d] = Seen(g)[d]
  BY <1>1, <1>2, <1>3, ZenonT(40)
<1> HIDE DEF U
<1>5. /\ Good(w) /\ w.structure = u.structure + 1 /\ w.buffering = u.buffering
      /\ \A j \in AKey : Seen(w)[j] = IF j = d THEN Given(Seen(u)[d], n, k) ELSE Seen(u)[j]
  BY <1>1, <1>2, <1>4, LinkChild, SMTT(40)
<1>6. FileEntry(v) \in Entry /\ FileEntry(v) # None /\ FileEntry(v).kind = "file"
  BY Entries, Zenon
<1>7. w.dirs[k] = None
  <2>1. Seen(w)[k] = None
    BY <1>1, <1>2, <1>5, ZenonT(40)
  <2> QED BY <1>5, <2>1, Absent, ZenonT(40)
<1>8. /\ Good(t) /\ t.structure = w.structure /\ t.buffering = w.buffering
      /\ \A j \in AKey : Seen(t)[j] = IF j = k THEN FileEntry(v) ELSE Seen(w)[j]
  BY <1>5, <1>6, <1>7, PutEntry, SMTT(40)
<1>9. Seen(t)[k] = FileEntry(v) /\ Seen(t) \in Table
  BY <1>8, Views, Zenon
<1>10. \A m \in Name : Links(Seen(t))[k][m] = None
  BY <1>6, <1>9, LinksAre
<1>11. Branch(Links(Seen(t)), {k}, k)
  BY <1>10, BranchLeaf, Zenon
<1>12. {k} \cap (Live(Seen(g)) \ U) = {} /\ \A j \in {k} : Seen(t)[j] # None
  BY <1>6, <1>9, Zenon DEF Live
<1>13. Seen(t)[d] = Given(Seen(g)[d], n, k)
  BY <1>1, <1>4, <1>5, <1>8, ZenonT(40)
<1>14. \A j \in AKey : j \notin {k} /\ j # d => Seen(t)[j] = IF j \in U THEN None ELSE Seen(g)[j]
  <2> SUFFICES ASSUME NEW j \in AKey, j # k, j # d
               PROVE  Seen(t)[j] = IF j \in U THEN None ELSE Seen(g)[j]
    BY ZenonT(40)
  <2>1. Seen(t)[j] = Seen(w)[j]
    BY <1>8, ZenonT(40)
  <2>2. Seen(w)[j] = Seen(u)[j]
    BY <1>5, ZenonT(40)
  <2>3. Seen(u)[j] = IF j \in U THEN None ELSE Seen(g)[j]
    BY <1>2, ZenonT(40)
  <2> QED BY <2>1, <2>2, <2>3, ZenonT(40)
<1>15. U = Cut(Links(Seen(g)), d, n)
  BY ZenonT(40) DEF U
<1> HIDE DEF L
<1>16. Sound(t) /\ Beside(Seen(g), Seen(t), U, d, n, d, n)
  BY <1>8, <1>11, <1>12, <1>13, <1>14, <1>15, Hung, SMTT(40)
<1>17. g.structure \in Nat
  BY <1>1, StoreFields, ZenonT(40) DEF Good
<1>18. After(g, t)
  <2>1. t.structure = g.structure + 1 /\ t.buffering = g.buffering
    BY <1>2, <1>5, <1>8, Zenon
  <2> QED BY <1>17, <2>1, Relink, Zenon
<1> QED BY <1>15, <1>16, <1>18, Zenon

\* A file overwritten, its buffered edit dropped.
LEMMA StoreOver ==
  ASSUME NEW g, Sound(g), NEW c \in AKey, kind(g, c) = "file", NEW v \in Value,
         NEW t, t = put_entry(g, c, FileEntry(v))
  PROVE  /\ Kept(g, t)
         /\ \A U, d, n : c \in U => Beside(Seen(g), Seen(t), U, d, n, d, n)
<1>1. Good(g)
  BY Zenon DEF Sound
<1>2. Seen(g)[c] # None /\ ~ IsDir(g, c)
  BY <1>1, Views, Zenon
<1>3. g.dirs[c] = None /\ Seen(g)[c].kind = "file"
  BY <1>1, <1>2, FileIs, Zenon
<1>4. FileEntry(v) \in Entry
  BY Entries, Zenon
<1>5. /\ Good(t) /\ t.structure = g.structure /\ t.buffering = g.buffering
      /\ \A j \in AKey : Seen(t)[j] = IF j = c THEN FileEntry(v) ELSE Seen(g)[j]
  BY <1>1, <1>3, <1>4, PutEntry
<1>6. /\ Sound(t) /\ Since(g, t)
      /\ \A U, d, n : c \in U => Beside(Seen(g), Seen(t), U, d, n, d, n)
  BY <1>2, <1>3, <1>5, Rewritten, Zenon
<1> QED BY <1>6, Zenon DEF Kept

-----------------------------------------------------------------------------
(* Induction, and the walk along a path. *)

\* What holds of 0 and is inherited holds of every number.
LEMMA Inherited ==
  ASSUME NEW T, 0 \in T, \A n \in Nat : n \in T => n + 1 \in T
  PROVE  \A n \in Nat : n \in T
<1> DEFINE R == OpToRel(<, Nat)
           S == {n \in Nat : n \notin T}
<1>1. IsWellFoundedOn(R, Nat)
  BY NatLessThanWellFounded, Zenon
<1>2. \A m, n \in Nat : m < n => <<m, n>> \in R
  BY Zenon DEF OpToRel
<1> HIDE DEF R
<1> SUFFICES ASSUME S # {} PROVE FALSE
  BY Zenon
<1>3. S \subseteq Nat
  BY Zenon
<1>4. PICK n \in S : \A m \in S : ~(<<m, n>> \in R)
  <2> HIDE DEF S
  <2> QED BY <1>1, <1>3, WFMin, Zenon
<1>5. n \in Nat /\ n \notin T /\ n # 0
  BY <1>4, Zenon
<1>6. n - 1 \in Nat /\ n - 1 < n /\ (n - 1) + 1 = n
  BY <1>5
<1>7. n - 1 \notin S
  BY <1>2, <1>4, <1>5, <1>6, Zenon
<1>8. n - 1 \in T
  BY <1>6, <1>7, Zenon
<1> QED BY <1>5, <1>6, <1>8, Zenon

\* The trail of p along the links, up to its i-th name.
Trail(links, p, f, m) ==
  f = [i \in 0..m |->
         IF i = 0 THEN ROOT ELSE IF f[i - 1] = None THEN None ELSE links[f[i - 1]][p[i]]]

\* There is a trail as long as the path ...
LEMMA TrailExists ==
  ASSUME NEW links, NEW p, NEW n \in Nat PROVE \E f : Trail(links, p, f, n)
<1> DEFINE T == {m \in Nat : \E f : Trail(links, p, f, m)}
<1>1. 0 \in T
  <2> DEFINE f == [i \in 0..0 |-> ROOT]
  <2>1. Trail(links, p, f, 0)
    BY DEF Trail
  <2> QED BY <2>1, Zenon
<1>2. ASSUME NEW m \in Nat, m \in T PROVE m + 1 \in T
  <2>1. PICK f : Trail(links, p, f, m)
    BY <1>2, Zenon
  <2> DEFINE e(x) == IF x = None THEN None ELSE links[x][p[m + 1]]
             g == [i \in 0..(m + 1) |-> IF i = m + 1 THEN e(f[m]) ELSE f[i]]
  <2>2. m + 1 \in Nat /\ \A i \in 0..m : i \in 0..(m + 1) /\ i # m + 1
    OBVIOUS
  <2>3. g[m + 1] = e(f[m]) /\ \A i \in 0..m : g[i] = f[i]
    BY <2>2
  <2>4. \A i \in 0..(m + 1) :
          g[i] = IF i = 0 THEN ROOT ELSE IF g[i - 1] = None THEN None ELSE links[g[i - 1]][p[i]]
    <3>1. ASSUME NEW i \in 0..m
          PROVE  g[i] = IF i = 0 THEN ROOT ELSE IF g[i - 1] = None THEN None ELSE links[g[i - 1]][p[i]]
      <4>1. i # 0 => i - 1 \in 0..m
        OBVIOUS
      <4>2. f[i] = IF i = 0 THEN ROOT ELSE IF f[i - 1] = None THEN None ELSE links[f[i - 1]][p[i]]
        BY <2>1, Zenon DEF Trail
      <4> HIDE DEF g
      <4> QED BY <2>3, <4>1, <4>2, Zenon
    <3>2. (m + 1) - 1 = m /\ m + 1 # 0 /\ m \in 0..m
      OBVIOUS
    <3>3. g[m + 1] = IF g[m] = None THEN None ELSE links[g[m]][p[m + 1]]
      <4> HIDE DEF g
      <4> QED BY <2>3, <3>2, Zenon
    <3>4. \A i \in 0..(m + 1) : i \in 0..m \/ i = m + 1
      OBVIOUS
    <3> HIDE DEF g
    <3> QED BY <3>1, <3>2, <3>3, <3>4, Zenon
  <2>5. Trail(links, p, g, m + 1)
    BY <2>4, Zenon DEF Trail
  <2> QED BY <2>2, <2>5, Zenon
<1> HIDE DEF T
<1>3. n \in T
  BY <1>1, <1>2, Inherited, Zenon
<1> QED BY <1>3, Zenon DEF T

\* ... and only one: paths that agree have the same trail as far as they do.
LEMMA TrailUnique ==
  ASSUME NEW links, NEW p, NEW q, NEW f, NEW g, NEW m \in Nat, NEW n \in Nat,
         Trail(links, p, f, m), Trail(links, q, g, n),
         NEW l \in Nat, l <= m, l <= n, \A i \in 1..l : p[i] = q[i]
  PROVE  f[l] = g[l]
<1> DEFINE T == {i \in Nat : i <= l => f[i] = g[i]}
<1>1. 0 \in T
  <2>1. 0 \in 0..m /\ 0 \in 0..n
    OBVIOUS
  <2>2. f[0] = ROOT /\ g[0] = ROOT
    BY <2>1, Zenon DEF Trail
  <2> QED BY <2>2, Zenon
<1>2. ASSUME NEW i \in Nat, i \in T PROVE i + 1 \in T
  <2> SUFFICES ASSUME i + 1 <= l PROVE f[i + 1] = g[i + 1]
    OBVIOUS
  <2>1. /\ i + 1 \in 0..m /\ i + 1 \in 0..n /\ i + 1 # 0 /\ (i + 1) - 1 = i /\ i + 1 \in 1..l
        /\ i <= l
    OBVIOUS
  <2>2. f[i] = g[i] /\ p[i + 1] = q[i + 1]
    BY <1>2, <2>1, Zenon
  <2>3. \A j \in 0..m :
          f[j] = IF j = 0 THEN ROOT ELSE IF f[j - 1] = None THEN None ELSE links[f[j - 1]][p[j]]
    BY Zenon DEF Trail
  <2>4. \A j \in 0..n :
          g[j] = IF j = 0 THEN ROOT ELSE IF g[j - 1] = None THEN None ELSE links[g[j - 1]][q[j]]
    BY Zenon DEF Trail
  <2> QED BY <2>1, <2>2, <2>3, <2>4
<1> HIDE DEF T
<1>3. l \in T
  BY <1>1, <1>2, Inherited, Zenon
<1> QED BY <1>3 DEF T

\* The walk ends where the trail does.
LEMMA WalkIsTrail ==
  ASSUME NEW links, NEW p, Len(p) \in Nat
  PROVE  \E f : Trail(links, p, f, Len(p)) /\ Walk(links, p) = f[Len(p)]
<1> DEFINE at == CHOOSE f : Trail(links, p, f, Len(p))
<1>1. Walk(links, p) = at[Len(p)]
  BY Zenon DEF Walk, Trail
<1>2. Trail(links, p, at, Len(p))
  BY TrailExists, Zenon
<1> QED BY <1>1, <1>2, Zenon

\* The first names of a path.
LEMMA Prefix ==
  ASSUME NEW p \in Seq(Name), NEW n \in Nat, n <= Len(p)
  PROVE  /\ SubSeq(p, 1, n) \in Seq(Name) /\ Len(SubSeq(p, 1, n)) = n
         /\ \A i \in 1..n : SubSeq(p, 1, n)[i] = p[i]
OBVIOUS

\* A path and its parent.
LEMMA PathParts ==
  ASSUME NEW p \in Seq(Name), p # <<>>
  PROVE  /\ Len(p) \in Nat /\ Len(p) # 0 /\ parent(p) \in Seq(Name) /\ Len(parent(p)) = Len(p) - 1
         /\ \A i \in 1..(Len(p) - 1) : parent(p)[i] = p[i]
         /\ name(p) \in Name /\ name(p) = p[Len(p)]
<1>1. Len(p) \in Nat /\ Len(p) # 0
  OBVIOUS
<1>2. Len(p) - 1 \in Nat /\ Len(p) - 1 <= Len(p)
  BY <1>1
<1>3. name(p) \in Name
  BY <1>1 DEF name
<1> QED BY <1>1, <1>2, <1>3, Prefix, Zenon DEF parent, name

\* The empty path leads to the root ...
LEMMA WalkEmpty ==
  ASSUME NEW links PROVE Walk(links, <<>>) = ROOT
<1>1. Len(<<>>) = 0
  BY Zenon
<1>2. PICK f : Trail(links, <<>>, f, 0) /\ Walk(links, <<>>) = f[0]
  BY <1>1, WalkIsTrail, Zenon
<1>3. 0 \in 0..0
  OBVIOUS
<1> QED BY <1>2, <1>3, Zenon DEF Trail

\* ... any other path one step on from its parent.
LEMMA WalkStep ==
  ASSUME NEW links, NEW p \in Seq(Name), p # <<>>
  PROVE  Walk(links, p) =
           IF Walk(links, parent(p)) = None THEN None ELSE links[Walk(links, parent(p))][name(p)]
<1>1. /\ Len(p) \in Nat /\ Len(p) # 0 /\ Len(parent(p)) \in Nat /\ Len(parent(p)) = Len(p) - 1
      /\ \A i \in 1..(Len(p) - 1) : p[i] = parent(p)[i]
  BY PathParts
<1>2. PICK f : Trail(links, p, f, Len(p)) /\ Walk(links, p) = f[Len(p)]
  BY <1>1, WalkIsTrail, Zenon
<1>3. PICK g : Trail(links, parent(p), g, Len(parent(p))) /\ Walk(links, parent(p)) = g[Len(parent(p))]
  BY <1>1, WalkIsTrail, Zenon
<1>4. f[Len(p) - 1] = g[Len(p) - 1]
  BY <1>1, <1>2, <1>3, TrailUnique
<1>5. Len(p) \in 0..Len(p)
  BY <1>1
<1>6. f[Len(p)] = IF f[Len(p) - 1] = None THEN None ELSE links[f[Len(p) - 1]][p[Len(p)]]
  BY <1>1, <1>2, <1>5, Zenon DEF Trail
<1>7. Walk(links, parent(p)) = f[Len(p) - 1]
  BY <1>1, <1>3, <1>4, Zenon
<1> QED BY <1>2, <1>6, <1>7, Zenon DEF name

-----------------------------------------------------------------------------
(* Paths in a tree. *)

\* What holds of the empty path and passes from a parent to its children holds of every path.
LEMMA OfPaths ==
  ASSUME NEW T, <<>> \in T, \A p \in Seq(Name) : p # <<>> /\ parent(p) \in T => p \in T
  PROVE  \A p \in Seq(Name) : p \in T
<1> DEFINE N == {n \in Nat : \A p \in Seq(Name) : Len(p) = n => p \in T}
<1>1. 0 \in N
  <2>1. \A p \in Seq(Name) : Len(p) = 0 => p = <<>>
    OBVIOUS
  <2> QED BY <2>1, Zenon
<1>2. ASSUME NEW n \in Nat, n \in N PROVE n + 1 \in N
  <2>1. n + 1 \in Nat
    OBVIOUS
  <2>2. ASSUME NEW p \in Seq(Name), Len(p) = n + 1 PROVE p \in T
    <3>1. p # <<>>
      BY <2>2
    <3>2. parent(p) \in Seq(Name) /\ Len(parent(p)) = n
      BY <2>2, <3>1, PathParts
    <3>3. parent(p) \in T
      BY <1>2, <3>2, Zenon
    <3> QED BY <3>1, <3>3, Zenon
  <2> QED BY <2>1, <2>2, Zenon
<1> HIDE DEF N
<1>3. \A n \in Nat : n \in N
  BY <1>1, <1>2, Inherited, Zenon
<1> QED BY <1>3 DEF N

\* A path leads to a key or nowhere.
LEMMA WalkType ==
  ASSUME NEW L \in [AKey -> Children] PROVE \A p \in Seq(Name) : Walk(L, p) \in AKey \cup {None}
<1> DEFINE T == {p \in Seq(Name) : Walk(L, p) \in AKey \cup {None}}
<1>1. <<>> \in T
  <2>1. <<>> \in Seq(Name)
    OBVIOUS
  <2> QED BY <2>1, WalkEmpty, RootAssumption, Zenon
<1>2. ASSUME NEW p \in Seq(Name), p # <<>>, parent(p) \in T PROVE p \in T
  <2>1. Walk(L, parent(p)) \in AKey \cup {None} /\ name(p) \in Name
    BY <1>2, PathParts, Zenon
  <2>2. Walk(L, parent(p)) \in AKey => L[Walk(L, parent(p))][name(p)] \in AKey \cup {None}
    BY <2>1, Zenon DEF Children
  <2> QED BY <1>2, <2>1, <2>2, WalkStep, Zenon
<1> HIDE DEF T
<1>3. \A p \in Seq(Name) : p \in T
  BY <1>1, <1>2, OfPaths, Zenon
<1> QED BY <1>3, Zenon DEF T

\* The last link of a path that leads somewhere.
LEMMA LastLink ==
  ASSUME NEW L \in [AKey -> Children], NEW p \in Seq(Name), p # <<>>, Walk(L, p) # None
  PROVE  /\ parent(p) \in Seq(Name) /\ name(p) \in Name /\ Walk(L, parent(p)) \in AKey
         /\ Walk(L, p) = L[Walk(L, parent(p))][name(p)]
<1>1. parent(p) \in Seq(Name) /\ name(p) \in Name
  BY PathParts, Zenon
<1>2. Walk(L, parent(p)) \in AKey \cup {None}
  BY <1>1, WalkType, Zenon
<1> QED BY <1>1, <1>2, WalkStep, Zenon

\* Links that are kept keep the paths along them.
LEMMA WalkKept ==
  ASSUME NEW L \in [AKey -> Children], NEW M,
         \A k \in AKey, n \in Name : L[k][n] # None => M[k][n] = L[k][n]
  PROVE  \A p \in Seq(Name) : Walk(L, p) # None => Walk(M, p) = Walk(L, p)
<1> DEFINE T == {p \in Seq(Name) : Walk(L, p) # None => Walk(M, p) = Walk(L, p)}
<1>1. <<>> \in T
  <2>1. <<>> \in Seq(Name)
    OBVIOUS
  <2> QED BY <2>1, WalkEmpty, Zenon
<1>2. ASSUME NEW p \in Seq(Name), p # <<>>, parent(p) \in T PROVE p \in T
  <2> SUFFICES ASSUME Walk(L, p) # None PROVE Walk(M, p) = Walk(L, p)
    BY Zenon
  <2>1. /\ name(p) \in Name /\ Walk(L, parent(p)) \in AKey
        /\ Walk(L, p) = L[Walk(L, parent(p))][name(p)]
    BY <1>2, LastLink, Zenon
  <2>2. Walk(L, parent(p)) # None
    BY <2>1, RootAssumption, Zenon
  <2>3. Walk(M, parent(p)) = Walk(L, parent(p))
    BY <1>2, <2>2, Zenon
  <2>4. Walk(M, p) = M[Walk(M, parent(p))][name(p)]
    BY <1>2, <2>2, <2>3, WalkStep, Zenon
  <2> QED BY <2>1, <2>3, <2>4, Zenon
<1> HIDE DEF T
<1>3. \A p \in Seq(Name) : p \in T
  BY <1>1, <1>2, OfPaths, Zenon
<1> QED BY <1>3, Zenon DEF T

\* Only the empty path leads to the root, and a path leads to an entry.
LEMMA WalkLive ==
  ASSUME NEW L, NEW D, Tree(L, D), NEW p \in Seq(Name), p # <<>>, Walk(L, p) # None
  PROVE  Walk(L, p) \in D /\ Walk(L, p) # ROOT /\ Walk(L, parent(p)) \in D
<1>1. L \in [AKey -> Children] /\ LiveLinks(L, D)
  BY Zenon DEF Tree
<1>2. /\ name(p) \in Name /\ Walk(L, parent(p)) \in AKey
      /\ Walk(L, p) = L[Walk(L, parent(p))][name(p)]
  BY <1>1, LastLink, Zenon
<1> QED BY <1>1, <1>2, Zenon DEF LiveLinks

\* Two paths with the same parent and name are the same.
LEMMA SamePath ==
  ASSUME NEW p \in Seq(Name), NEW q \in Seq(Name), p # <<>>, q # <<>>,
         parent(p) = parent(q), name(p) = name(q)
  PROVE  p = q
<1>1. Len(p) \in Nat /\ Len(q) \in Nat /\ Len(p) = Len(q) /\ p[Len(p)] = q[Len(q)]
  BY PathParts
<1>2. \A i \in 1..(Len(p) - 1) : p[i] = q[i]
  BY <1>1, PathParts, SMTT(40)
<1>3. ASSUME NEW i \in 1..Len(p) PROVE p[i] = q[i]
  <2>1. i \in 1..(Len(p) - 1) \/ i = Len(p)
    BY <1>1
  <2> QED BY <1>1, <1>2, <2>1, Zenon
<1> QED BY <1>1, <1>3

\* Two paths to the same entry are the same.
LEMMA OnePath ==
  ASSUME NEW L, NEW D, Tree(L, D)
  PROVE  \A p, q \in Seq(Name) : Walk(L, p) # None /\ Walk(L, p) = Walk(L, q) => p = q
<1> DEFINE T == {p \in Seq(Name) :
                   \A q \in Seq(Name) : Walk(L, p) # None /\ Walk(L, p) = Walk(L, q) => p = q}
<1>0. L \in [AKey -> Children] /\ OneLink(L, AKey)
  BY Zenon DEF Tree
<1>1. <<>> \in T
  <2>1. <<>> \in Seq(Name)
    OBVIOUS
  <2> QED BY <2>1, WalkEmpty, WalkLive, Zenon
<1>2. ASSUME NEW p \in Seq(Name), p # <<>>, parent(p) \in T PROVE p \in T
  <2> SUFFICES ASSUME NEW q \in Seq(Name), Walk(L, p) # None, Walk(L, p) = Walk(L, q) PROVE p = q
    BY Zenon
  <2>1. q # <<>>
    BY <1>2, WalkEmpty, WalkLive, Zenon
  <2>2. /\ parent(p) \in Seq(Name) /\ name(p) \in Name /\ Walk(L, parent(p)) \in AKey
        /\ Walk(L, p) = L[Walk(L, parent(p))][name(p)]
    BY <1>0, <1>2, LastLink, Zenon
  <2>3. /\ parent(q) \in Seq(Name) /\ name(q) \in Name /\ Walk(L, parent(q)) \in AKey
        /\ Walk(L, q) = L[Walk(L, parent(q))][name(q)]
    BY <1>0, <2>1, LastLink, Zenon
  <2>4. Walk(L, parent(p)) = Walk(L, parent(q)) /\ name(p) = name(q)
    <3> DEFINE j == Walk(L, parent(p))
               k == Walk(L, parent(q))
               c == Walk(L, p)
    <3>1. /\ OneLink(L, AKey) /\ j \in AKey /\ k \in AKey /\ name(p) \in Name /\ name(q) \in Name
          /\ c # None /\ L[j][name(p)] = c /\ L[k][name(q)] = c
      BY <1>0, <2>2, <2>3, Zenon
    <3> HIDE DEF j, k, c
    <3>2. j = k /\ name(p) = name(q)
      BY <3>1, SameLink
    <3> QED BY <3>2, Zenon DEF j, k
  <2>5. Walk(L, parent(p)) # None
    BY <2>2, RootAssumption, Zenon
  <2>6. parent(p) = parent(q)
    BY <1>2, <2>3, <2>4, <2>5, Zenon
  <2> QED BY <1>2, <2>1, <2>4, <2>6, SamePath, Zenon
<1> HIDE DEF T
<1>3. \A p \in Seq(Name) : p \in T
  BY <1>1, <1>2, OfPaths, Zenon
<1> QED BY <1>3, Zenon DEF T

\* A prefix, name by name.
LEMMA StartsWith ==
  ASSUME NEW p \in Seq(Name), NEW q \in Seq(Name)
  PROVE  starts_with(p, q) <=> Len(q) <= Len(p) /\ \A i \in 1..Len(q) : p[i] = q[i]
<1> SUFFICES ASSUME Len(q) <= Len(p)
             PROVE  SubSeq(p, 1, Len(q)) = q <=> \A i \in 1..Len(q) : p[i] = q[i]
  BY Zenon DEF starts_with
<1> DEFINE r == SubSeq(p, 1, Len(q))
<1>1. r \in Seq(Name) /\ Len(r) = Len(q) /\ \A i \in 1..Len(q) : r[i] = p[i]
  BY Prefix
<1> HIDE DEF r
<1>2. r = q <=> \A i \in 1..Len(q) : p[i] = q[i]
  BY <1>1
<1> QED BY <1>2, Zenon DEF r

\* A path starts with itself, and with what its parent starts with.
LEMMA StartsWithMore ==
  ASSUME NEW p \in Seq(Name), NEW q \in Seq(Name)
  PROVE  starts_with(p, p) /\ (p # <<>> /\ starts_with(parent(p), q) => starts_with(p, q))
<1>1. starts_with(p, p)
  BY StartsWith
<1>2. ASSUME p # <<>>, starts_with(parent(p), q) PROVE starts_with(p, q)
  <2>1. /\ Len(p) \in Nat /\ Len(p) # 0 /\ parent(p) \in Seq(Name) /\ Len(parent(p)) = Len(p) - 1
        /\ \A i \in 1..(Len(p) - 1) : parent(p)[i] = p[i]
    BY <1>2, PathParts, Zenon
  <2>2. Len(q) <= Len(p) - 1 /\ \A i \in 1..Len(q) : parent(p)[i] = q[i]
    BY <1>2, <2>1, StartsWith, Zenon
  <2>3. Len(q) \in Nat /\ \A i \in 1..Len(q) : i \in 1..(Len(p) - 1)
    BY <2>1, <2>2
  <2>4. Len(q) <= Len(p) /\ \A i \in 1..Len(q) : p[i] = q[i]
    BY <2>1, <2>2, <2>3
  <2> QED BY <2>4, StartsWith, Zenon
<1> QED BY <1>1, <1>2, Zenon

\* What hangs from the entry at q is at paths that start with q.
LEMMA PathUnder ==
  ASSUME NEW L, NEW D, Tree(L, D), NEW q \in Seq(Name), Walk(L, q) # None
  PROVE  \A p \in Seq(Name) : Walk(L, p) # None /\ Walk(L, p) \in Under(L, Walk(L, q)) => starts_with(p, q)
<1> DEFINE c == Walk(L, q)
           T == {p \in Seq(Name) : Walk(L, p) # None /\ Walk(L, p) \in Under(L, c) => starts_with(p, q)}
<1>0. L \in [AKey -> Children]
  BY Zenon DEF Tree
<1>1. c \in AKey
  BY <1>0, WalkType, Zenon
<1>2. <<>> \in T
  <2>1. <<>> \in Seq(Name)
    OBVIOUS
  <2>2. ROOT \in Under(L, c) => c = ROOT
    BY <1>1, RootUnder, Zenon
  <2>3. c = ROOT => q = <<>>
    BY WalkLive, Zenon
  <2>4. q = <<>> => starts_with(<<>>, q)
    BY <2>1, StartsWithMore, Zenon
  <2> QED BY <2>1, <2>2, <2>3, <2>4, WalkEmpty, Zenon
<1>3. ASSUME NEW p \in Seq(Name), p # <<>>, parent(p) \in T PROVE p \in T
  <2> SUFFICES ASSUME Walk(L, p) # None, Walk(L, p) \in Under(L, c) PROVE starts_with(p, q)
    BY Zenon
  <2>1. CASE Walk(L, p) = c
    <3>1. p = q
      BY <2>1, OnePath, Zenon
    <3> QED BY <3>1, StartsWithMore, Zenon
  <2>2. CASE Walk(L, p) # c
    <3>1. /\ name(p) \in Name /\ Walk(L, parent(p)) \in AKey
          /\ Walk(L, p) = L[Walk(L, parent(p))][name(p)]
      BY <1>0, <1>3, LastLink, Zenon
    <3>2. Walk(L, parent(p)) \in Under(L, c)
      <4> HIDE DEF c
      <4> QED BY <1>1, <2>2, <3>1, UnderParent, Zenon
    <3>3. Walk(L, parent(p)) # None
      BY <3>1, RootAssumption, Zenon
    <3>4. starts_with(parent(p), q)
      BY <1>3, <3>2, <3>3, Zenon
    <3> QED BY <1>3, <3>4, StartsWithMore, Zenon
  <2> QED BY <2>1, <2>2, Zenon
<1> HIDE DEF T
<1>4. \A p \in Seq(Name) : p \in T
  BY <1>2, <1>3, OfPaths, Zenon
<1> QED BY <1>4, Zenon DEF T

-----------------------------------------------------------------------------
(* Directories: ensure_dir only adds to the tree. *)

\* The directories made along p, up to its i-th name.
Made(s, p, used, f, m) ==
  f = [i \in 0..m |-> IF i = 0 THEN Done(ensure_root(s), ROOT) ELSE ensure_child(f[i - 1], p[i], used)]

\* As with trails, there is one for each length ...
LEMMA MadeExists ==
  ASSUME NEW s, NEW p, NEW used, NEW n \in Nat PROVE \E f : Made(s, p, used, f, n)
<1> DEFINE T == {m \in Nat : \E f : Made(s, p, used, f, m)}
<1>1. 0 \in T
  <2> DEFINE f == [i \in 0..0 |-> Done(ensure_root(s), ROOT)]
  <2>1. Made(s, p, used, f, 0)
    BY DEF Made
  <2> QED BY <2>1, Zenon
<1>2. ASSUME NEW m \in Nat, m \in T PROVE m + 1 \in T
  <2>1. PICK f : Made(s, p, used, f, m)
    BY <1>2, Zenon
  <2> DEFINE g == [i \in 0..(m + 1) |-> IF i = m + 1 THEN ensure_child(f[m], p[m + 1], used) ELSE f[i]]
  <2>2. m + 1 \in Nat /\ \A i \in 0..m : i \in 0..(m + 1) /\ i # m + 1
    OBVIOUS
  <2>3. g[m + 1] = ensure_child(f[m], p[m + 1], used) /\ \A i \in 0..m : g[i] = f[i]
    BY <2>2
  <2>4. \A i \in 0..(m + 1) :
          g[i] = IF i = 0 THEN Done(ensure_root(s), ROOT) ELSE ensure_child(g[i - 1], p[i], used)
    <3>1. ASSUME NEW i \in 0..m
          PROVE  g[i] = IF i = 0 THEN Done(ensure_root(s), ROOT) ELSE ensure_child(g[i - 1], p[i], used)
      <4>1. i # 0 => i - 1 \in 0..m
        OBVIOUS
      <4>2. f[i] = IF i = 0 THEN Done(ensure_root(s), ROOT) ELSE ensure_child(f[i - 1], p[i], used)
        BY <2>1, Zenon DEF Made
      <4> HIDE DEF g
      <4> QED BY <2>3, <4>1, <4>2, Zenon
    <3>2. (m + 1) - 1 = m /\ m + 1 # 0 /\ m \in 0..m
      OBVIOUS
    <3>3. g[m + 1] = ensure_child(g[m], p[m + 1], used)
      <4> HIDE DEF g
      <4> QED BY <2>3, <3>2, Zenon
    <3>4. \A i \in 0..(m + 1) : i \in 0..m \/ i = m + 1
      OBVIOUS
    <3> HIDE DEF g
    <3> QED BY <3>1, <3>2, <3>3, <3>4, Zenon
  <2>5. Made(s, p, used, g, m + 1)
    BY <2>4, Zenon DEF Made
  <2> QED BY <2>2, <2>5, Zenon
<1> HIDE DEF T
<1>3. n \in T
  BY <1>1, <1>2, Inherited, Zenon
<1> QED BY <1>3, Zenon DEF T

\* ... and only one.
LEMMA MadeUnique ==
  ASSUME NEW s, NEW used, NEW p, NEW q, NEW f, NEW g, NEW m \in Nat, NEW n \in Nat,
         Made(s, p, used, f, m), Made(s, q, used, g, n),
         NEW l \in Nat, l <= m, l <= n, \A i \in 1..l : p[i] = q[i]
  PROVE  f[l] = g[l]
<1> DEFINE T == {i \in Nat : i <= l => f[i] = g[i]}
<1>1. 0 \in T
  <2>1. 0 \in 0..m /\ 0 \in 0..n
    OBVIOUS
  <2>2. f[0] = Done(ensure_root(s), ROOT) /\ g[0] = Done(ensure_root(s), ROOT)
    BY <2>1, Zenon DEF Made
  <2> QED BY <2>2, Zenon
<1>2. ASSUME NEW i \in Nat, i \in T PROVE i + 1 \in T
  <2> SUFFICES ASSUME i + 1 <= l PROVE f[i + 1] = g[i + 1]
    OBVIOUS
  <2>1. /\ i + 1 \in 0..m /\ i + 1 \in 0..n /\ i + 1 # 0 /\ (i + 1) - 1 = i /\ i + 1 \in 1..l
        /\ i <= l
    OBVIOUS
  <2>2. f[i] = g[i] /\ p[i + 1] = q[i + 1]
    BY <1>2, <2>1, Zenon
  <2>3. f[i + 1] = ensure_child(f[i], p[i + 1], used)
    BY <2>1, Zenon DEF Made
  <2>4. g[i + 1] = ensure_child(g[i], q[i + 1], used)
    BY <2>1, Zenon DEF Made
  <2> QED BY <2>2, <2>3, <2>4, Zenon
<1> HIDE DEF T
<1>3. l \in T
  BY <1>1, <1>2, Inherited, Zenon
<1> QED BY <1>3 DEF T

\* Where ensure_dir ends.
LEMMA EnsureIsMade ==
  ASSUME NEW s, NEW p, NEW used, Len(p) \in Nat
  PROVE  \E f : Made(s, p, used, f, Len(p)) /\ ensure_dir(s, p, used) = f[Len(p)]
<1> DEFINE upto == CHOOSE f : Made(s, p, used, f, Len(p))
<1>1. ensure_dir(s, p, used) = upto[Len(p)]
  BY Zenon DEF ensure_dir, Made
<1>2. Made(s, p, used, upto, Len(p))
  BY MadeExists, Zenon
<1> QED BY <1>1, <1>2, Zenon

\* The empty path is the root; any other, a turn after its parent.
LEMMA EnsureStep ==
  ASSUME NEW s, NEW used
  PROVE  /\ ensure_dir(s, <<>>, used) = Done(ensure_root(s), ROOT)
         /\ \A p \in Seq(Name) :
              p # <<>> => ensure_dir(s, p, used) = ensure_child(ensure_dir(s, parent(p), used), name(p), used)
<1>1. ensure_dir(s, <<>>, used) = Done(ensure_root(s), ROOT)
  <2>1. Len(<<>>) = 0
    BY Zenon
  <2>2. PICK f : Made(s, <<>>, used, f, 0) /\ ensure_dir(s, <<>>, used) = f[0]
    BY <2>1, EnsureIsMade, Zenon
  <2>3. 0 \in 0..0
    OBVIOUS
  <2> QED BY <2>2, <2>3, Zenon DEF Made
<1>2. ASSUME NEW p \in Seq(Name), p # <<>>
      PROVE  ensure_dir(s, p, used) = ensure_child(ensure_dir(s, parent(p), used), name(p), used)
  <2>1. /\ Len(p) \in Nat /\ Len(p) # 0 /\ Len(parent(p)) \in Nat /\ Len(parent(p)) = Len(p) - 1
        /\ \A i \in 1..(Len(p) - 1) : p[i] = parent(p)[i]
    BY <1>2, PathParts
  <2>2. PICK f : Made(s, p, used, f, Len(p)) /\ ensure_dir(s, p, used) = f[Len(p)]
    BY <2>1, EnsureIsMade, Zenon
  <2>3. PICK g : /\ Made(s, parent(p), used, g, Len(parent(p)))
                 /\ ensure_dir(s, parent(p), used) = g[Len(parent(p))]
    BY <2>1, EnsureIsMade, Zenon
  <2>4. f[Len(p) - 1] = g[Len(p) - 1]
    BY <2>1, <2>2, <2>3, MadeUnique
  <2>5. Len(p) \in 0..Len(p)
    BY <2>1
  <2>6. f[Len(p)] = ensure_child(f[Len(p) - 1], p[Len(p)], used)
    BY <2>1, <2>2, <2>5, Zenon DEF Made
  <2>7. ensure_dir(s, parent(p), used) = f[Len(p) - 1]
    BY <2>1, <2>3, <2>4, Zenon
  <2> QED BY <2>2, <2>6, <2>7, Zenon DEF name
<1> QED BY <1>1, <1>2, Zenon

\* What a path leads to and did not lead to before is a directory on the way to p.
OnlyUpTo(s, p, t) ==
  LET L == Links(Seen(s))
      M == Links(Seen(t))
  IN  \A q \in Seq(Name) :
        Walk(M, q) # None =>
          Walk(L, q) = Walk(M, q) \/ (q # <<>> /\ starts_with(p, q) /\ IsDir(t, Walk(M, q)))

\* What ensure_dir yields: the tree with what was missing of the path; if it succeeds, the
\* directory at the path.
Ensured(s, p, r) ==
  /\ r.res \in {"ok", "err", "full"} /\ Sound(r.store) /\ Grew(s, r.store)
  /\ r.res = "ok" => /\ IsDir(r.store, r.key) /\ Walk(Links(Seen(r.store)), p) = r.key
                     /\ OnlyUpTo(s, p, r.store)

\* A link more, to a key that had none, makes one path more.
LEMMA OneMore ==
  ASSUME NEW L, NEW D, Tree(L, D), NEW M \in [AKey -> Children], NEW p \in Seq(Name), p # <<>>,
         NEW d \in AKey, Walk(L, parent(p)) = d, Walk(M, parent(p)) = d,
         NEW k, Grown(L, M, D, d, name(p), k)
  PROVE  \A q \in Seq(Name) : Walk(M, q) # None => Walk(L, q) = Walk(M, q) \/ q = p
<1>1. CASE M = L
  BY <1>1, Zenon
<1>2. CASE M # L
  <2> DEFINE T == {q \in Seq(Name) : Walk(M, q) # None => Walk(L, q) = Walk(M, q) \/ q = p}
  <2>1. /\ k \in AKey \ D /\ k # ROOT /\ \A m \in Name : M[k][m] = None
        /\ M[d][name(p)] = k
        /\ \A j \in AKey, m \in Name : j # k /\ ~ (j = d /\ m = name(p)) => M[j][m] = L[j][m]
    BY <1>2, Zenon DEF Grown
  <2>2. L \in [AKey -> Children] /\ d # None /\ parent(p) \in Seq(Name)
    BY PathParts, RootAssumption, Zenon DEF Tree
  <2>3. Walk(M, p) = k
    <3>1. Walk(M, p) = M[d][name(p)]
      BY <2>2, WalkStep, Zenon
    <3> QED BY <2>1, <3>1, Zenon
  <2>4. <<>> \in T
    <3>1. <<>> \in Seq(Name)
      OBVIOUS
    <3> QED BY <3>1, WalkEmpty, Zenon
  <2>5. ASSUME NEW q \in Seq(Name), q # <<>>, parent(q) \in T PROVE q \in T
    <3> SUFFICES ASSUME Walk(M, q) # None, q # p PROVE Walk(L, q) = Walk(M, q)
      BY Zenon
    <3> DEFINE j == Walk(M, parent(q))
               m == name(q)
    <3>1. parent(q) \in Seq(Name) /\ m \in Name /\ j \in AKey /\ Walk(M, q) = M[j][m] /\ j # None
      BY <2>5, LastLink, RootAssumption, Zenon
    <3> HIDE DEF j, m
    <3>2. j # k
      BY <2>1, <3>1, Zenon
    <3>3. parent(q) # p
      BY <2>3, <3>2, Zenon DEF j
    <3>4. Walk(L, parent(q)) = j
      BY <2>5, <3>1, <3>3, Zenon DEF j
    <3>5. ~ (j = d /\ m = name(p))
      <4> SUFFICES ASSUME j = d, m = name(p) PROVE FALSE
        BY Zenon
      <4>1. parent(q) = parent(p)
        BY <2>2, <3>1, <3>4, OnePath, Zenon
      <4> QED BY <2>5, <4>1, SamePath, Zenon DEF m
    <3>6. M[j][m] = L[j][m]
      BY <2>1, <3>1, <3>2, <3>5, Zenon
    <3>7. Walk(L, q) = L[j][m]
      BY <2>5, <3>1, <3>4, WalkStep, Zenon DEF m
    <3> QED BY <3>1, <3>6, <3>7, Zenon
  <2> HIDE DEF T
  <2>6. \A q \in Seq(Name) : q \in T
    BY <2>4, <2>5, OfPaths, Zenon
  <2> QED BY <2>6, Zenon DEF T
<1> QED BY <1>1, <1>2, Zenon

\* ensure_dir, by induction on the path.
LEMMA EnsureDir ==
  ASSUME NEW s, Sound(s), NEW used
  PROVE  \A p \in Seq(Name) : Ensured(s, p, ensure_dir(s, p, used))
<1> DEFINE T == {p \in Seq(Name) : Ensured(s, p, ensure_dir(s, p, used))}
<1>1. <<>> \in T
  <2> DEFINE t == ensure_root(s)
  <2>1. ensure_dir(s, <<>>, used) = Done(t, ROOT) /\ <<>> \in Seq(Name)
    BY EnsureStep
  <2>2. Sound(t) /\ Grew(s, t) /\ IsDir(t, ROOT) /\ OnlyUpTo(s, <<>>, t)
    BY EnsureRoot, Zenon DEF OnlyUpTo
  <2>3. Done(t, ROOT).store = t /\ Done(t, ROOT).key = ROOT /\ Done(t, ROOT).res = "ok"
    BY Zenon DEF Done
  <2> HIDE DEF t
  <2>4. Ensured(s, <<>>, Done(t, ROOT))
    BY <2>2, <2>3, WalkEmpty, Zenon DEF Ensured
  <2> QED BY <2>1, <2>4, Zenon
<1>2. ASSUME NEW p \in Seq(Name), p # <<>>, parent(p) \in T PROVE p \in T
  <2> DEFINE r == ensure_dir(s, parent(p), used)
             q == ensure_dir(s, p, used)
  <2>1. Ensured(s, parent(p), r) /\ name(p) \in Name /\ parent(p) \in Seq(Name)
    BY <1>2, PathParts, Zenon
  <2>2. q = ensure_child(r, name(p), used)
    BY <1>2, EnsureStep, Zenon
  <2> HIDE DEF r, q
  <2>3. CASE r.res # "ok"
    <3>1. q = r
      BY <2>2, <2>3, Zenon DEF ensure_child
    <3> QED BY <1>2, <2>1, <2>3, <3>1, ZenonT(40) DEF Ensured, q
  <2>4. CASE r.res = "ok"
    <3>1. /\ Sound(r.store) /\ Grew(s, r.store) /\ IsDir(r.store, r.key)
          /\ Walk(Links(Seen(r.store)), parent(p)) = r.key /\ OnlyUpTo(s, parent(p), r.store)
      BY <2>1, <2>4, Zenon DEF Ensured
    <3>2. /\ q.res \in {"ok", "err", "full"} /\ Sound(q.store) /\ Grew(r.store, q.store)
          /\ q.res = "ok" => IsDir(q.store, q.key) /\ Links(Seen(q.store))[r.key][name(p)] = q.key
          /\ Grown(Links(Seen(r.store)), Links(Seen(q.store)), Live(Seen(r.store)), r.key, name(p), q.key)
      BY <2>1, <2>2, <2>4, <3>1, EnsureChild, ZenonT(40)
    <3>3. Good(s) /\ Good(r.store) /\ Good(q.store)
      BY <3>1, <3>2, Zenon DEF Sound
    <3>4. Grew(s, q.store)
      BY <3>1, <3>2, <3>3, GrewOn, Zenon
    <3>5. r.key \in AKey /\ r.key # None
      BY <3>1, RootAssumption, Zenon DEF IsDir
    <3>6. Links(Seen(r.store)) \in [AKey -> Children]
      BY <3>3, Views, Zenon
    <3>7. \A k \in AKey, n \in Name : Links(Seen(r.store))[k][n] # None =>
            Links(Seen(q.store))[k][n] = Links(Seen(r.store))[k][n]
      BY <3>2, Zenon DEF Grew
    <3>8. Walk(Links(Seen(q.store)), parent(p)) = r.key
      <4> DEFINE L == Links(Seen(r.store))
                 M == Links(Seen(q.store))
      <4> HIDE DEF L, M
      <4>1. Walk(L, parent(p)) # None => Walk(M, parent(p)) = Walk(L, parent(p))
        BY <2>1, <3>6, <3>7, WalkKept, Zenon DEF L, M
      <4> QED BY <3>1, <3>5, <4>1, Zenon DEF L, M
    <3>9. q.res = "ok" => Walk(Links(Seen(q.store)), p) = q.key
      BY <1>2, <3>2, <3>5, <3>8, WalkStep, Zenon
    <3>10. q.res = "ok" => OnlyUpTo(s, p, q.store)
      <4> DEFINE K == Links(Seen(s))
                 L == Links(Seen(r.store))
                 M == Links(Seen(q.store))
      <4>1. /\ Tree(L, Live(Seen(r.store))) /\ M \in [AKey -> Children]
            /\ Grown(L, M, Live(Seen(r.store)), r.key, name(p), q.key)
        BY <3>1, <3>2, <3>3, Views, Zenon DEF Sound, IsTree
      <4>2. \A x \in AKey : IsDir(r.store, x) => IsDir(q.store, x)
        BY <3>2, Zenon DEF Grew, IsDir
      <4>3. \A o \in Seq(Name) :
              Walk(L, o) # None =>
                Walk(K, o) = Walk(L, o) \/ (o # <<>> /\ starts_with(parent(p), o) /\ IsDir(r.store, Walk(L, o)))
        BY <3>1, Zenon DEF OnlyUpTo
      <4>4. Walk(L, parent(p)) = r.key /\ Walk(M, parent(p)) = r.key
        BY <3>1, <3>8, Zenon
      <4>5. q.res = "ok" => Walk(M, p) = q.key
        BY <3>9, Zenon
      <4> HIDE DEF K, L, M
      <4>6. \A o \in Seq(Name) : Walk(M, o) # None => Walk(L, o) = Walk(M, o) \/ o = p
        BY <1>2, <3>5, <4>1, <4>4, OneMore, ZenonT(40)
      <4>7. ASSUME NEW o \in Seq(Name), Walk(M, o) # None, Walk(K, o) # Walk(M, o), q.res = "ok"
            PROVE  o # <<>> /\ starts_with(p, o) /\ IsDir(q.store, Walk(M, o))
        <5>1. CASE o = p
          BY <1>2, <3>2, <4>5, <4>7, <5>1, StartsWithMore, ZenonT(40)
        <5>2. CASE o # p
          <6>1. Walk(L, o) = Walk(M, o)
            BY <4>6, <4>7, <5>2, Zenon
          <6>2. o # <<>> /\ starts_with(parent(p), o) /\ IsDir(r.store, Walk(M, o))
            BY <4>3, <4>7, <6>1, Zenon
          <6>3. Walk(M, o) \in AKey
            BY <6>2, Zenon DEF IsDir
          <6> QED BY <1>2, <4>2, <6>2, <6>3, StartsWithMore, ZenonT(40)
        <5> QED BY <5>1, <5>2, Zenon
      <4> QED BY <4>7, Zenon DEF OnlyUpTo, K, M
    <3>11. Ensured(s, p, q)
      BY <3>2, <3>4, <3>9, <3>10, ZenonT(40) DEF Ensured
    <3> QED BY <1>2, <3>11, Zenon DEF q
  <2> QED BY <2>3, <2>4, Zenon
<1> HIDE DEF T
<1>3. \A p \in Seq(Name) : p \in T
  BY <1>1, <1>2, OfPaths, Zenon
<1> QED BY <1>3, Zenon DEF T

-----------------------------------------------------------------------------
(* Paths that a mutation leaves alone. *)

\* What a name led to, by its path: only a path that starts with it leads there.
LEMMA OutsideCut ==
  ASSUME NEW L, NEW D, Tree(L, D), NEW p \in Seq(Name), p # <<>>, NEW d \in AKey, d = Walk(L, parent(p)),
         NEW q \in Seq(Name), ~ starts_with(q, p), Walk(L, q) # None
  PROVE  Walk(L, q) \notin Cut(L, d, name(p))
<1> DEFINE n == name(p)
<1>1. L \in [AKey -> Children] /\ n \in Name /\ d # None
  BY PathParts, RootAssumption, Zenon DEF Tree
<1>2. Walk(L, p) = L[d][n]
  BY <1>1, WalkStep, Zenon
<1>3. CASE L[d][n] = None
  BY <1>3, Zenon DEF Cut
<1>4. CASE L[d][n] # None
  <2>1. Cut(L, d, n) = Under(L, Walk(L, p))
    BY <1>2, <1>4, Zenon DEF Cut
  <2>2. Walk(L, q) \notin Under(L, Walk(L, p))
    BY <1>2, <1>4, PathUnder, Zenon
  <2> QED BY <2>1, <2>2, Zenon
<1> QED BY <1>3, <1>4, Zenon

\* One of the two paths starts with the other.
Comparable(p, q) == starts_with(p, q) \/ starts_with(q, p)

\* A path that is comparable with none of P leads where it led, and a file there, before or
\* after, is the same.
Elsewhere(V, W, P) ==
  \A q \in Seq(Name) :
    (\A p \in P : ~ Comparable(p, q)) =>
      /\ Walk(Links(W), q) = Walk(Links(V), q)
      /\ Walk(Links(V), q) # None => SameFile(V[Walk(Links(V), q)], W[Walk(Links(V), q)])

\* Nothing is changed.
LEMMA ElsewhereSame ==
  ASSUME NEW V, NEW P PROVE Elsewhere(V, V, P)
BY Zenon DEF Elsewhere, SameFile

\* If all is kept beside what p leads to, but for the last links of p and o, then a path that
\* starts neither with p nor with o leads where it led.
LEMMA BesidePaths ==
  ASSUME NEW V, NEW W, IsTree(V),
         NEW p \in Seq(Name), p # <<>>, NEW d \in Live(V), d = Walk(Links(V), parent(p)),
         NEW o \in Seq(Name), o # <<>>, NEW i \in AKey, i = Walk(Links(V), parent(o)),
         Beside(V, W, Cut(Links(V), d, name(p)), d, name(p), i, name(o))
  PROVE  \A q \in Seq(Name) :
           ~ starts_with(q, p) /\ ~ starts_with(q, o) =>
             /\ Walk(Links(W), q) = Walk(Links(V), q)
             /\ q # <<>> /\ Walk(Links(V), q) # None =>
                  SameFile(V[Walk(Links(V), q)], W[Walk(Links(V), q)])
<1> DEFINE L == Links(V)
           M == Links(W)
           D == Live(V)
           U == Cut(L, d, name(p))
           Off(q) == ~ starts_with(q, p) /\ ~ starts_with(q, o)
           T == {q \in Seq(Name) : Off(q) => Walk(M, q) = Walk(L, q)}
<1>1. /\ Tree(L, D) /\ L \in [AKey -> Children] /\ d \in AKey /\ d # None /\ i # None
      /\ parent(p) \in Seq(Name) /\ parent(o) \in Seq(Name)
  BY PathParts, RootAssumption, Zenon DEF IsTree, Tree, Live
<1>2. \A j \in AKey :
        V[j] # None /\ j \notin U =>
          /\ SameFile(V[j], W[j])
          /\ \A m \in Name : (j = d /\ m = name(p)) \/ (j = i /\ m = name(o)) \/ M[j][m] = L[j][m]
  BY Zenon DEF Beside
<1>3. \A j : j \in D <=> j \in AKey /\ V[j] # None
  BY Zenon DEF Live
<1>4. Walk(L, parent(p)) = d /\ Walk(L, parent(o)) = i
  BY Zenon
<1> HIDE DEF L, M, D
<1>5. ROOT \in D
  BY <1>1, <1>3, NoRoot, Zenon DEF D
<1>6. ASSUME NEW q \in Seq(Name), Off(q), Walk(L, q) # None
      PROVE  Walk(L, q) \in D /\ Walk(L, q) \notin U
  <2>1. Walk(L, q) \in D
    BY <1>1, <1>5, <1>6, WalkEmpty, WalkLive, ZenonT(40)
  <2> QED BY <1>1, <1>4, <1>6, <2>1, OutsideCut, Zenon
<1>7. <<>> \in T
  <2>1. <<>> \in Seq(Name)
    OBVIOUS
  <2> QED BY <2>1, WalkEmpty, Zenon
<1>8. ASSUME NEW q \in Seq(Name), q # <<>>, parent(q) \in T PROVE q \in T
  <2> SUFFICES ASSUME Off(q) PROVE Walk(M, q) = Walk(L, q)
    BY Zenon
  <2> DEFINE j == Walk(L, parent(q))
             m == name(q)
  <2>1. parent(q) \in Seq(Name) /\ m \in Name
    BY <1>8, PathParts, Zenon
  <2>2. Off(parent(q))
    BY <1>8, StartsWithMore, Zenon
  <2>3. Walk(M, parent(q)) = j
    BY <1>8, <2>2, Zenon
  <2>4. CASE j = None
    BY <1>8, <2>3, <2>4, WalkStep, Zenon
  <2>5. CASE j # None
    <3>1. Walk(L, q) = L[j][m] /\ Walk(M, q) = M[j][m]
      BY <1>8, <2>3, <2>5, WalkStep, Zenon
    <3>2. j \in AKey /\ V[j] # None /\ j \notin U
      BY <1>3, <1>6, <2>1, <2>2, <2>5, Zenon
    <3>3. ~ (j = d /\ m = name(p))
      <4> SUFFICES ASSUME j = d, m = name(p) PROVE FALSE
        BY Zenon
      <4>1. parent(q) = parent(p)
        BY <1>1, <1>4, <2>1, OnePath, ZenonT(40)
      <4>2. q = p
        BY <1>8, <4>1, SamePath, Zenon
      <4> QED BY <4>2, StartsWithMore, Zenon
    <3>4. ~ (j = i /\ m = name(o))
      <4> SUFFICES ASSUME j = i, m = name(o) PROVE FALSE
        BY Zenon
      <4>1. parent(q) = parent(o)
        BY <1>1, <1>4, <2>1, OnePath, ZenonT(40)
      <4>2. q = o
        BY <1>8, <4>1, SamePath, Zenon
      <4> QED BY <4>2, StartsWithMore, Zenon
    <3> HIDE DEF j, m, U
    <3>5. M[j][m] = L[j][m]
      BY <1>2, <2>1, <3>2, <3>3, <3>4, ZenonT(40)
    <3> QED BY <3>1, <3>5, Zenon
  <2> QED BY <2>4, <2>5, Zenon
<1> HIDE DEF T
<1>9. \A q \in Seq(Name) : q \in T
  BY <1>7, <1>8, OfPaths, Zenon
<1>10. ASSUME NEW q \in Seq(Name), Off(q), q # <<>>, Walk(L, q) # None
       PROVE  SameFile(V[Walk(L, q)], W[Walk(L, q)])
  BY <1>2, <1>3, <1>6, <1>10, Zenon
<1> QED BY <1>9, <1>10, Zenon DEF T, L, M

\* The directories up to p's are made, then all but what p and o lead to is kept.
LEMMA ElsewhereAfter ==
  ASSUME NEW s, Sound(s), NEW g, Sound(g), Grew(s, g), NEW W,
         NEW p \in Seq(Name), p # <<>>, OnlyUpTo(s, parent(p), g),
         NEW d, IsDir(g, d), d = Walk(Links(Seen(g)), parent(p)),
         NEW o \in Seq(Name), o # <<>>, NEW i \in AKey, i = Walk(Links(Seen(g)), parent(o)),
         Beside(Seen(g), W, Cut(Links(Seen(g)), d, name(p)), d, name(p), i, name(o)),
         NEW P, p \in P, o \in P
  PROVE  Elsewhere(Seen(s), W, P)
<1> DEFINE K == Links(Seen(s))
           L == Links(Seen(g))
<1>1. d \in Live(Seen(g)) /\ IsTree(Seen(g))
  BY Zenon DEF IsDir, Live, Sound
<1>2. \A q \in Seq(Name) :
        ~ starts_with(q, p) /\ ~ starts_with(q, o) =>
          /\ Walk(Links(W), q) = Walk(L, q)
          /\ q # <<>> /\ Walk(L, q) # None => SameFile(Seen(g)[Walk(L, q)], W[Walk(L, q)])
  BY <1>1, BesidePaths, Zenon
<1>3. /\ Tree(K, Live(Seen(s))) /\ K \in [AKey -> Children]
      /\ \A k \in AKey, n \in Name : K[k][n] # None => L[k][n] = K[k][n]
      /\ \A k \in Live(Seen(s)) : SameFile(Seen(s)[k], Seen(g)[k])
  BY Zenon DEF Sound, IsTree, Tree, Grew, Live
<1>4. \A q \in Seq(Name) : Walk(L, q) # None => Walk(K, q) = Walk(L, q) \/ starts_with(parent(p), q)
  BY Zenon DEF OnlyUpTo
<1> HIDE DEF K, L
<1>5. \A q \in Seq(Name) : Walk(K, q) # None => Walk(L, q) = Walk(K, q)
  BY <1>3, WalkKept, Zenon
<1>6. ASSUME NEW q \in Seq(Name), \A x \in P : ~ Comparable(x, q)
      PROVE  /\ Walk(Links(W), q) = Walk(K, q)
             /\ Walk(K, q) # None => SameFile(Seen(s)[Walk(K, q)], W[Walk(K, q)])
  <2>1. ~ starts_with(q, p) /\ ~ starts_with(p, q) /\ ~ starts_with(q, o)
    BY <1>6, Zenon DEF Comparable
  <2>2. ~ starts_with(parent(p), q)
    BY <2>1, StartsWithMore, Zenon
  <2>3. q # <<>>
    <3>1. starts_with(p, <<>>)
      BY DEF starts_with
    <3> QED BY <2>1, <3>1, ZenonT(40)
  <2>4. Walk(L, q) = Walk(K, q)
    BY <1>4, <1>5, <2>2, Zenon
  <2>5. Walk(Links(W), q) = Walk(K, q)
    BY <1>2, <2>1, <2>4, ZenonT(40)
  <2>6. ASSUME Walk(K, q) # None PROVE SameFile(Seen(s)[Walk(K, q)], W[Walk(K, q)])
    <3> DEFINE k == Walk(K, q)
    <3>1. k \in Live(Seen(s))
      BY <1>3, <2>3, <2>6, WalkLive, ZenonT(40)
    <3>2. SameFile(Seen(s)[k], Seen(g)[k])
      BY <1>3, <3>1, Zenon
    <3>3. SameFile(Seen(g)[k], W[k])
      BY <1>2, <2>1, <2>3, <2>4, <2>6, ZenonT(40)
    <3> HIDE DEF k
    <3>4. SameFile(Seen(s)[k], W[k])
      BY <3>2, <3>3 DEF SameFile
    <3> QED BY <3>4, Zenon DEF k
  <2> QED BY <2>5, <2>6, Zenon
<1> QED BY <1>6, Zenon DEF Elsewhere, K

-----------------------------------------------------------------------------
(* The mutations. *)

\* store.
LEMMA StoreBlob ==
  ASSUME NEW s, Sound(s), NEW p \in Seq(Name), p # <<>>, NEW v \in Value, NEW used,
         NEW r, r = store_blob_into(s, p, v, used)
  PROVE  /\ r.res \in {"ok", "err", "full"} /\ Kept(s, r.store)
         /\ \A P : r.res = "ok" /\ p \in P => Elsewhere(Seen(s), Seen(r.store), P)
<1> DEFINE e == ensure_dir(s, parent(p), used)
           g == e.store
           d == e.key
           n == name(p)
           c == Links(Seen(g))[d][n]
           k == Fresh(g, used)
           u == IF c = None THEN g ELSE cascade_delete(g, c)
           w == link_child(u, d, n, k)
           t == put_entry(w, k, FileEntry(v))
           o == put_entry(g, c, FileEntry(v))
<1>1. Ensured(s, parent(p), e) /\ n \in Name
  BY PathParts, EnsureDir, Zenon
<1>2. /\ e.res \in {"ok", "err", "full"} /\ Sound(g) /\ Grew(s, g) /\ Good(g)
      /\ e.res = "ok" => IsDir(g, d) /\ d \in AKey /\ Walk(Links(Seen(g)), parent(p)) = d
      /\ e.res = "ok" => OnlyUpTo(s, parent(p), g)
  BY <1>1, Zenon DEF Ensured, IsDir, Sound
<1>3. CASE e.res # "ok"
  <2>1. r = e
    BY <1>3, Zenon DEF store_blob_into
  <2> HIDE DEF e
  <2> QED BY <1>2, <1>3, <2>1, KeptOn, Zenon
<1>4. CASE e.res = "ok"
  <2>1. child(g, d, n) = c
    BY <1>1, <1>2, <1>4, Views
  <2>2. r = IF c # None /\ kind(g, c) = "file" THEN Done(o, c)
            ELSE IF k = None THEN Ended(g, "full") ELSE Done(t, k)
    BY <1>4, <2>1, Zenon DEF store_blob_into
  <2> HIDE DEF e, n, g, d
  <2>3. Links(Seen(g)) \in [AKey -> Children] /\ (c # None => c \in AKey)
    <3>1. Links(Seen(g)) \in [AKey -> Children]
      BY <1>2, Views, Zenon
    <3> QED BY <1>1, <1>2, <1>4, <3>1, ZenonT(40) DEF Children
  <2>4. ASSUME NEW W, Beside(Seen(g), W, Cut(Links(Seen(g)), d, n), d, n, d, n), NEW P, p \in P
         PROVE  Elsewhere(Seen(s), W, P)
    BY <1>2, <1>4, <2>4, ElsewhereAfter, ZenonT(40) DEF n
  <2>5. CASE c # None /\ kind(g, c) = "file"
    <3>1. r = Done(o, c)
      BY <2>2, <2>5, Zenon
    <3>2. Kept(g, o) /\ \A U, i, l : c \in U => Beside(Seen(g), Seen(o), U, i, l, i, l)
      BY <1>2, <2>3, <2>5, StoreOver, ZenonT(40)
    <3>3. c \in Cut(Links(Seen(g)), d, n)
      BY <2>3, <2>5, UnderIs, ZenonT(40) DEF Cut
    <3> HIDE DEF o, c
    <3>4. r.store = o /\ r.res = "ok"
      BY <3>1 DEF Done
    <3>5. Kept(s, o)
      BY <1>2, <3>2, KeptOn, Zenon
    <3> QED BY <2>4, <3>2, <3>3, <3>4, <3>5, ZenonT(40)
  <2>6. CASE ~ (c # None /\ kind(g, c) = "file") /\ k = None
    <3>1. r = Ended(g, "full")
      BY <2>2, <2>6, Zenon
    <3>2. r.store = g /\ r.res = "full"
      BY <3>1 DEF Ended
    <3>3. "full" # "ok"
      BY Zenon
    <3> QED BY <1>2, <3>2, <3>3, KeptOn, ZenonT(40)
  <2>7. CASE ~ (c # None /\ kind(g, c) = "file") /\ k # None
    <3>1. r = Done(t, k)
      BY <2>2, <2>7, Zenon
    <3>2. k \in AKey /\ Seen(g)[k] = None /\ k # ROOT
      BY <1>2, <2>7, FreshIs, Zenon
    <3> HIDE DEF k
    <3>3. Sound(t) /\ After(g, t) /\ Beside(Seen(g), Seen(t), Cut(Links(Seen(g)), d, n), d, n, d, n)
      BY <1>1, <1>2, <1>4, <3>2, StoreName, ZenonT(40)
    <3> HIDE DEF t
    <3>4. r.store = t /\ r.res = "ok"
      BY <3>1 DEF Done
    <3>5. Kept(s, t)
      BY <1>2, <3>3, KeptOn, Zenon
    <3> QED BY <2>4, <3>3, <3>4, <3>5, ZenonT(40)
  <2> QED BY <2>5, <2>6, <2>7, ZenonT(40)
<1> QED BY <1>3, <1>4, Zenon

\* rm.
LEMMA RmInto ==
  ASSUME NEW s, Sound(s), NEW p \in Seq(Name), p # <<>>, NEW r, r = rm_into(s, p)
  PROVE  /\ r.res \in {"ok", "none"} /\ Kept(s, r.store)
         /\ \A P : p \in P => Elsewhere(Seen(s), Seen(r.store), P)
<1> DEFINE L == Links(Seen(s))
           d == Walk(L, parent(p))
           n == name(p)
           c == L[d][n]
           t == unlink_child(cascade_delete(s, c), d, n)
<1>1. /\ Good(s) /\ L \in [AKey -> Children]
      /\ n \in Name /\ parent(p) \in Seq(Name) /\ resolve(s, parent(p)) = d
  BY Views, PathParts, Zenon DEF Sound
<1>2. d \in AKey \cup {None}
  BY <1>1, WalkType, ZenonT(40)
<1>3. d # None => child(s, d, n) = c
  BY <1>1, <1>2, Views, ZenonT(40)
<1>4. r = IF d = None \/ c = None THEN Ended(s, "none") ELSE Ended(t, "ok")
  BY <1>1, <1>3, Zenon DEF rm_into
<1>5. CASE d = None \/ c = None
  <2>1. r.store = s /\ r.res = "none"
    BY <1>4, <1>5 DEF Ended
  <2> QED BY <2>1, KeptOn, ElsewhereSame, ZenonT(40)
<1>6. CASE d # None /\ c # None
  <2>1. r.store = t /\ r.res = "ok"
    BY <1>4, <1>6 DEF Ended
  <2>2. Sound(t) /\ After(s, t) /\ Beside(Seen(s), Seen(t), Cut(L, d, n), d, n, d, n)
    BY <1>1, <1>2, <1>6, RemoveName, ZenonT(40)
  <2> HIDE DEF t
  <2>3. Kept(s, t)
    BY <1>1, <2>2, KeptOn, GrewOn, ZenonT(40)
  <2>4. IsDir(s, d) /\ d \in AKey
    BY <1>1, <1>2, <1>6, LinksAre, Views, ZenonT(40) DEF IsDir
  <2>5. Grew(s, s) /\ OnlyUpTo(s, parent(p), s)
    BY <1>1, GrewOn, Zenon DEF OnlyUpTo
  <2>6. \A P : p \in P => Elsewhere(Seen(s), Seen(t), P)
    BY <1>1, <2>2, <2>4, <2>5, ElsewhereAfter, ZenonT(40)
  <2> QED BY <2>1, <2>3, <2>6, ZenonT(40)
<1> QED BY <1>5, <1>6, Zenon

\* What mv and cp share: from a store g that has grown, what the destination led to is gone.
LEMMA MakeRoom ==
  ASSUME NEW s, Sound(s), NEW p \in Seq(Name), p # <<>>, NEW used, NEW r, r = make_room(s, p, used)
  PROVE  \E g :
           /\ Sound(g) /\ Grew(s, g) /\ r.res \in {"ok", "err", "full"}
           /\ r.res # "ok" => r.store = g
           /\ r.res = "ok" =>
                /\ IsDir(g, r.key) /\ Walk(Links(Seen(g)), parent(p)) = r.key /\ OnlyUpTo(s, parent(p), g)
                /\ Good(r.store) /\ r.store.structure = g.structure /\ r.store.buffering = g.buffering
                /\ \A j \in AKey : Seen(r.store)[j] = IF j \in Cut(Links(Seen(g)), r.key, name(p)) THEN None
                                                      ELSE Seen(g)[j]
<1> DEFINE e == ensure_dir(s, parent(p), used)
           g == e.store
           d == e.key
           n == name(p)
           c == Links(Seen(g))[d][n]
           u == IF c = None THEN g ELSE cascade_delete(g, c)
<1>1. Ensured(s, parent(p), e) /\ n \in Name
  BY PathParts, EnsureDir, Zenon
<1>2. /\ e.res \in {"ok", "err", "full"} /\ Sound(g) /\ Grew(s, g) /\ Good(g)
      /\ e.res = "ok" => IsDir(g, d) /\ d \in AKey /\ Walk(Links(Seen(g)), parent(p)) = d
      /\ e.res = "ok" => OnlyUpTo(s, parent(p), g)
  BY <1>1, Zenon DEF Ensured, IsDir, Sound
<1>3. r = IF e.res # "ok" \/ child(g, d, n) = None THEN e ELSE Done(cascade_delete(g, child(g, d, n)), d)
  BY Zenon DEF make_room
<1>4. CASE e.res # "ok"
  <2>1. r = e
    BY <1>3, <1>4, Zenon
  <2> HIDE DEF e
  <2> QED BY <1>2, <1>4, <2>1, Zenon
<1>5. CASE e.res = "ok"
  <2>1. child(g, d, n) = c
    BY <1>1, <1>2, <1>5, Views, ZenonT(40)
  <2> HIDE DEF e, n
  <2>2. r.store = u /\ r.key = d /\ r.res = "ok"
    BY <1>3, <1>5, <2>1 DEF Done
  <2>3. /\ Good(u) /\ u.structure = g.structure /\ u.buffering = g.buffering
        /\ \A j \in AKey : Seen(u)[j] = IF j \in Cut(Links(Seen(g)), d, n) THEN None ELSE Seen(g)[j]
    BY <1>1, <1>2, <1>5, FreeName
  <2> HIDE DEF u, g
  <2> QED BY <1>2, <1>5, <2>2, <2>3, ZenonT(40) DEF n
<1> QED BY <1>4, <1>5, Zenon

\* mv, neither into itself nor onto a directory above.
LEMMA MvInto ==
  ASSUME NEW s, Sound(s), NEW src \in Seq(Name), NEW dst \in Seq(Name), src # <<>>, dst # <<>>,
         ~ starts_with(dst, src), ~ starts_with(src, dst), NEW used,
         NEW r, r = mv_into(s, src, dst, used)
  PROVE  /\ r.res \in {"ok", "err", "full"} /\ Kept(s, r.store)
         /\ \A P : r.res = "ok" /\ src \in P /\ dst \in P => Elsewhere(Seen(s), Seen(r.store), P)
<1> DEFINE K == Links(Seen(s))
           i == Walk(K, parent(src))
           l == name(src)
           k == K[i][l]
           e == make_room(s, dst, used)
           n == name(dst)
<1>1. /\ Good(s) /\ K \in [AKey -> Children] /\ resolve(s, parent(src)) = i
      /\ l \in Name /\ n \in Name /\ parent(src) \in Seq(Name) /\ parent(dst) \in Seq(Name)
  BY Views, PathParts, Zenon DEF Sound
<1>2. i \in AKey \cup {None}
  BY <1>1, WalkType, ZenonT(40)
<1>3. i # None => child(s, i, l) = k
  BY <1>1, <1>2, Views
<1>4. r = IF i = None \/ k = None THEN Ended(s, "err")
          ELSE IF e.res # "ok" THEN e
          ELSE Ended(unlink_child(link_child(e.store, e.key, n, k), i, l), "ok")
  BY <1>1, <1>3, Zenon DEF mv_into
<1>5. PICK g :
        /\ Sound(g) /\ Grew(s, g) /\ e.res \in {"ok", "err", "full"}
        /\ e.res # "ok" => e.store = g
        /\ e.res = "ok" =>
             /\ IsDir(g, e.key) /\ Walk(Links(Seen(g)), parent(dst)) = e.key /\ OnlyUpTo(s, parent(dst), g)
             /\ Good(e.store) /\ e.store.structure = g.structure /\ e.store.buffering = g.buffering
             /\ \A j \in AKey : Seen(e.store)[j] = IF j \in Cut(Links(Seen(g)), e.key, n) THEN None
                                                   ELSE Seen(g)[j]
  BY MakeRoom
<1> DEFINE t == unlink_child(link_child(e.store, e.key, n, k), i, l)
<1>6. CASE i = None \/ k = None
  <2>1. r.store = s /\ r.res = "err"
    BY <1>4, <1>6 DEF Ended
  <2>2. "err" # "ok"
    BY Zenon
  <2> QED BY <2>1, <2>2, KeptOn, ZenonT(40)
<1>7. CASE ~ (i = None \/ k = None) /\ e.res # "ok"
  <2>1. r = e
    BY <1>4, <1>7, Zenon
  <2> HIDE DEF e
  <2> QED BY <1>5, <1>7, <2>1, KeptOn, ZenonT(40)
<1>8. CASE ~ (i = None \/ k = None) /\ e.res = "ok"
  <2>1. r.store = t /\ r.res = "ok"
    BY <1>4, <1>8 DEF Ended
  <2> DEFINE L == Links(Seen(g))
             D == Live(Seen(g))
             d == e.key
             U == Cut(L, d, n)
  <2>2. Tree(L, D) /\ L \in [AKey -> Children] /\ IsDir(g, d) /\ d \in AKey /\ Walk(L, parent(dst)) = d
    BY <1>5, <1>8, Zenon DEF Sound, IsTree, Tree, IsDir
  <2>3. Walk(K, src) = k /\ i \in AKey
    BY <1>2, <1>8, WalkStep, Zenon
  <2>4. \A j \in AKey, m \in Name : K[j][m] # None => L[j][m] = K[j][m]
    BY <1>5, Zenon DEF Grew
  <2>5. Walk(L, src) = k /\ Walk(L, parent(src)) = i /\ k = L[i][l]
    <3>1. k = L[i][l]
      BY <1>1, <1>8, <2>3, <2>4, ZenonT(40)
    <3>2. \A p \in Seq(Name) : Walk(K, p) # None => Walk(L, p) = Walk(K, p)
      <4> HIDE DEF K, L
      <4> QED BY <1>1, <2>4, WalkKept, ZenonT(40)
    <3>3. Walk(L, parent(src)) = i
      BY <1>1, <1>8, <3>2, ZenonT(40)
    <3>4. Walk(L, src) = Walk(K, src)
      BY <1>8, <2>3, <3>2, ZenonT(40)
    <3> QED BY <2>3, <3>1, <3>3, <3>4, ZenonT(40)
  <2> HIDE DEF K, i, k, L, D, d, U, e
  <2>6. k \notin U
    BY <1>8, <2>2, <2>5, OutsideCut DEF U, n
  <2>7. i \notin U
    <3>1. ~ starts_with(parent(src), dst)
      BY StartsWithMore, Zenon
    <3> QED BY <1>1, <1>8, <2>2, <2>5, <3>1, OutsideCut DEF U, n
  <2>8. ~ (i = d /\ l = n)
    <3> SUFFICES ASSUME i = d, l = n PROVE FALSE
      BY Zenon
    <3>1. k = L[d][n] /\ k # None /\ k \in AKey
      BY <1>1, <1>8, <2>2, <2>5 DEF Children
    <3>2. U = Under(L, k)
      BY <3>1, Zenon DEF U, Cut
    <3> QED BY <2>2, <2>6, <3>1, <3>2, UnderIs, ZenonT(40)
  <2>9. d \notin Under(L, k)
    <3>1. ~ starts_with(parent(dst), src)
      BY StartsWithMore, Zenon
    <3>2. d # None
      BY <2>2, RootAssumption, Zenon
    <3> QED BY <1>1, <1>8, <2>2, <2>5, <3>1, <3>2, PathUnder, ZenonT(40)
  <2>10. /\ Good(e.store) /\ e.store.structure = g.structure /\ e.store.buffering = g.buffering
         /\ \A j \in AKey : Seen(e.store)[j] = IF j \in U THEN None ELSE Seen(g)[j]
    BY <1>5, <1>8, Zenon DEF U, d, L
  <2> DEFINE w == link_child(e.store, d, n, k)
  <2>11. t = unlink_child(w, i, l) /\ U = Cut(Links(Seen(g)), d, n)
    BY Zenon DEF d, U, L
  <2>12. k = Links(Seen(g))[i][l] /\ d \notin Under(Links(Seen(g)), k)
    BY <2>5, <2>9, ZenonT(40) DEF L
  <2>13. Sound(t) /\ After(g, t) /\ Beside(Seen(g), Seen(t), U, d, n, i, l)
    <3> HIDE DEF w, t, n, l
    <3>1. w = link_child(e.store, d, n, k)
      BY Zenon DEF w
    <3>2. /\ Sound(g) /\ d \in AKey /\ IsDir(g, d) /\ n \in Name /\ i \in AKey /\ l \in Name
          /\ U = Cut(Links(Seen(g)), d, n) /\ k = Links(Seen(g))[i][l] /\ k # None
          /\ i \notin U /\ k \notin U /\ ~ (i = d /\ l = n) /\ d \notin Under(Links(Seen(g)), k)
      BY <1>1, <1>5, <1>8, <2>2, <2>3, <2>6, <2>7, <2>8, <2>11, <2>12, ZenonT(40)
    <3>3. /\ Good(e.store) /\ e.store.structure = g.structure /\ e.store.buffering = g.buffering
          /\ \A j \in AKey : Seen(e.store)[j] = IF j \in U THEN None ELSE Seen(g)[j]
          /\ w = link_child(e.store, d, n, k) /\ t = unlink_child(w, i, l)
      BY <2>10, <2>11, <3>1, ZenonT(40)
    <3> QED BY <3>2, <3>3, MoveName
  <2> HIDE DEF t
  <2>14. Kept(s, t)
    BY <1>5, <2>13, KeptOn, ZenonT(40)
  <2>15. OnlyUpTo(s, parent(dst), g) /\ Walk(Links(Seen(g)), parent(dst)) = d
         /\ Walk(Links(Seen(g)), parent(src)) = i
    BY <1>5, <1>8, <2>2, <2>5, ZenonT(40) DEF L, d
  <2>16. \A P : src \in P /\ dst \in P => Elsewhere(Seen(s), Seen(t), P)
    BY <1>5, <2>2, <2>3, <2>11, <2>13, <2>15, ElsewhereAfter, ZenonT(40)
  <2> QED BY <2>1, <2>14, <2>16, ZenonT(40)
<1> QED BY <1>6, <1>7, <1>8, Zenon

\* cp, neither into itself nor onto a directory above.
LEMMA CpInto ==
  ASSUME NEW s, Sound(s), NEW src \in Seq(Name), NEW dst \in Seq(Name), src # <<>>, dst # <<>>,
         ~ starts_with(dst, src), ~ starts_with(src, dst), NEW used,
         NEW r, r = cp_into(s, src, dst, used)
  PROVE  /\ r.res \in {"ok", "err", "full"} /\ (r.res # "full" => Kept(s, r.store))
         /\ \A P : r.res = "ok" /\ dst \in P => Elsewhere(Seen(s), Seen(r.store), P)
<1> DEFINE K == Links(Seen(s))
           k == Walk(K, src)
           e == make_room(s, dst, used)
           c == deep_copy(e.store, k, used)
           n == name(dst)
           t == link_child(c.store, e.key, n, c.key)
<1>1. /\ Good(s) /\ K \in [AKey -> Children] /\ resolve(s, src) = k
      /\ n \in Name /\ parent(dst) \in Seq(Name)
  BY Views, PathParts, Zenon DEF Sound
<1>2. r = IF k = None THEN Ended(s, "err") ELSE IF e.res # "ok" THEN e
          ELSE IF c.res # "ok" THEN c ELSE Ended(t, "ok")
  BY <1>1, Zenon DEF cp_into
<1>3. PICK g :
        /\ Sound(g) /\ Grew(s, g) /\ e.res \in {"ok", "err", "full"}
        /\ e.res # "ok" => e.store = g
        /\ e.res = "ok" =>
             /\ IsDir(g, e.key) /\ Walk(Links(Seen(g)), parent(dst)) = e.key /\ OnlyUpTo(s, parent(dst), g)
             /\ Good(e.store) /\ e.store.structure = g.structure /\ e.store.buffering = g.buffering
             /\ \A j \in AKey : Seen(e.store)[j] = IF j \in Cut(Links(Seen(g)), e.key, n) THEN None
                                                   ELSE Seen(g)[j]
  BY MakeRoom
<1>4. CASE k = None
  <2>1. r.store = s /\ r.res = "err"
    BY <1>2, <1>4 DEF Ended
  <2>2. "err" # "ok"
    BY Zenon
  <2> QED BY <2>1, <2>2, KeptOn, ZenonT(40)
<1>5. CASE k # None /\ e.res # "ok"
  <2>1. r = e
    BY <1>2, <1>5, Zenon
  <2> HIDE DEF e
  <2> QED BY <1>3, <1>5, <2>1, KeptOn, ZenonT(40)
<1>6. CASE k # None /\ e.res = "ok"
  <2> DEFINE L == Links(Seen(g))
             D == Live(Seen(g))
             d == e.key
             U == Cut(L, d, n)
  <2>1. Tree(L, D) /\ L \in [AKey -> Children] /\ IsDir(g, d) /\ d \in AKey /\ Walk(L, parent(dst)) = d
    BY <1>3, <1>6, ZenonT(40) DEF Sound, IsTree, Tree, IsDir
  <2>2. \A j \in AKey, m \in Name : K[j][m] # None => L[j][m] = K[j][m]
    BY <1>3, Zenon DEF Grew
  <2>3. Walk(L, src) = k
    <3> HIDE DEF K, L
    <3> QED BY <1>1, <1>6, <2>2, WalkKept, ZenonT(40)
  <2>4. r = IF c.res # "ok" THEN c ELSE Ended(t, "ok")
    BY <1>2, <1>6, Zenon
  <2> HIDE DEF K, k, L, D, d, U, e
  <2>5. k \in D /\ k # ROOT
    BY <1>6, <2>1, <2>3, WalkLive, ZenonT(40)
  <2>6. k \notin U
    BY <1>6, <2>1, <2>3, OutsideCut, ZenonT(40) DEF U, n
  <2>7. d \notin Under(L, k)
    <3>1. ~ starts_with(parent(dst), src)
      BY StartsWithMore, Zenon
    <3>2. d # None
      BY <2>1, RootAssumption, Zenon
    <3> QED BY <1>1, <1>6, <2>1, <2>3, <3>1, <3>2, PathUnder, ZenonT(40)
  <2>8. /\ Good(e.store) /\ e.store.structure = g.structure /\ e.store.buffering = g.buffering
        /\ \A j \in AKey : Seen(e.store)[j] = IF j \in U THEN None ELSE Seen(g)[j]
    BY <1>3, <1>6, Zenon DEF U, d, L
  <2>9. /\ U = Cut(Links(Seen(g)), d, n) /\ d \notin Under(Links(Seen(g)), k) /\ k \in Live(Seen(g))
        /\ t = link_child(c.store, d, n, c.key) /\ c = deep_copy(e.store, k, used)
    BY <2>5, <2>7, ZenonT(40) DEF d, U, L, D
  <2>0. Sound(g) /\ IsDir(g, d) /\ n \in Name /\ k # ROOT
    BY <1>1, <1>3, <2>1, <2>5, Zenon
  <2> HIDE DEF t, c, n
  <2>10. /\ c.res \in {"ok", "full"}
         /\ c.res = "ok" => Sound(t) /\ After(g, t) /\ Beside(Seen(g), Seen(t), U, d, n, d, n)
    BY <2>0, <2>6, <2>8, <2>9, CopyName, SMTT(40)
  <2>11. CASE c.res = "full"
    <3>1. "full" # "ok"
      BY Zenon
    <3> QED BY <2>4, <2>11, <3>1, ZenonT(40)
  <2>12. CASE c.res = "ok"
    <3>1. r.store = t /\ r.res = "ok"
      BY <2>4, <2>12 DEF Ended
    <3>2. Kept(s, t)
      BY <1>3, <2>10, <2>12, KeptOn, ZenonT(40)
    <3>3. OnlyUpTo(s, parent(dst), g) /\ Walk(Links(Seen(g)), parent(dst)) = d /\ n = name(dst)
      BY <1>3, <1>6, <2>1, Zenon DEF L, d, n
    <3>4. \A P : dst \in P => Elsewhere(Seen(s), Seen(t), P)
      BY <1>3, <2>1, <2>9, <2>10, <2>12, <3>3, ElsewhereAfter, ZenonT(40)
    <3> QED BY <3>1, <3>2, <3>4, ZenonT(40)
  <2> QED BY <2>10, <2>11, <2>12, ZenonT(40)
<1> QED BY <1>4, <1>5, <1>6, ZenonT(40)

\* A cursor's write, at a path or under the key of its hint.
LEMMA PutScalarInto ==
  ASSUME NEW s, Sound(s), NEW p \in Seq(Name), p # <<>>, NEW hint, hint.key \in AKey, NEW v \in Value, NEW used,
         NEW r, r = put_scalar_into(s, p, hint, v, used)
  PROVE  /\ r.res \in {"ok", "err", "full"} /\ Kept(s, r.store)
         /\ (hint.epoch = s.structure => Walk(Links(Seen(s)), p) = hint.key)
            => \A P : r.res = "ok" /\ p \in P => Elsewhere(Seen(s), Seen(r.store), P)
<1> DEFINE k == resolve_target(s, p, hint)
           x == put_file_edit(s, k, FileEntry(v))
<1>1. k \in AKey \cup {None}
  <2>1. Good(s) /\ Links(Seen(s)) \in [AKey -> Children] /\ resolve(s, p) = Walk(Links(Seen(s)), p)
    BY Views, Zenon DEF Sound
  <2>2. resolve(s, p) \in AKey \cup {None}
    BY <2>1, WalkType, Zenon
  <2> QED BY <2>2, Zenon DEF resolve_target
<1>2. r = IF k = None \/ with_entry(s, k) = None THEN store_blob_into(s, p, v, used)
          ELSE IF with_entry(s, k).kind = "dir" THEN Ended(s, "err") ELSE Done(x, k)
  BY Zenon DEF put_scalar_into
<1> HIDE DEF k
<1>3. CASE k = None \/ with_entry(s, k) = None
  <2>1. r = store_blob_into(s, p, v, used)
    BY <1>2, <1>3, Zenon
  <2> QED BY <2>1, StoreBlob, Zenon
<1>4. CASE k # None /\ with_entry(s, k) # None /\ with_entry(s, k).kind = "dir"
  <2>1. r.store = s /\ r.res = "err"
    BY <1>2, <1>4 DEF Ended
  <2>2. "err" # "ok"
    BY Zenon
  <2> QED BY <2>1, <2>2, KeptOn, ZenonT(40)
<1>5. CASE k # None /\ with_entry(s, k) # None /\ with_entry(s, k).kind # "dir"
  <2>1. r.store = x /\ r.res = "ok"
    BY <1>2, <1>5 DEF Done
  <2>2. k \in AKey /\ Good(s)
    BY <1>1, <1>5, ZenonT(40) DEF Sound
  <2>3. /\ Good(x) /\ x.structure = s.structure /\ x.buffering = s.buffering
        /\ \A j \in AKey : Seen(x)[j] = IF j = k THEN FileEntry(v) ELSE Seen(s)[j]
        /\ Seen(s)[k] # None /\ Seen(s)[k].kind = "file"
    BY <1>5, <2>2, PutFileEdit
  <2> HIDE DEF x
  <2>4. /\ Sound(x) /\ Since(s, x)
        /\ \A U, d, n : k \in U => Beside(Seen(s), Seen(x), U, d, n, d, n)
    BY <2>2, <2>3, Rewritten, Zenon
  <2>5. Kept(s, x)
    BY <2>4, Zenon DEF Kept
  <2>6. ASSUME hint.epoch = s.structure => Walk(Links(Seen(s)), p) = hint.key, NEW P, p \in P
        PROVE  Elsewhere(Seen(s), Seen(x), P)
    <3> DEFINE L == Links(Seen(s))
               d == Walk(L, parent(p))
               n == name(p)
    <3>1. L \in [AKey -> Children] /\ resolve(s, p) = Walk(L, p)
      BY <2>2, Views, Zenon
    <3>2. Walk(L, p) = k
      BY <2>6, <3>1, Zenon DEF resolve_target, k
    <3>3. k # None /\ d \in AKey /\ n \in Name /\ L[d][n] = k
      BY <1>5, <3>1, <3>2, LastLink, Zenon
    <3>4. k \in Cut(L, d, n)
      <4> HIDE DEF L, d, n
      <4>1. k \in Under(L, k)
        BY <2>2, <3>1, UnderIs, Zenon
      <4> QED BY <3>3, <4>1, Zenon DEF Cut
    <3>5. IsDir(s, d)
      BY <2>2, <3>3, LinksAre, Views, ZenonT(40) DEF IsDir
    <3>6. Grew(s, s) /\ OnlyUpTo(s, parent(p), s)
      BY <2>2, GrewOn, Zenon DEF OnlyUpTo
    <3> HIDE DEF k
    <3> QED BY <2>4, <2>6, <3>3, <3>4, <3>5, <3>6, ElsewhereAfter, ZenonT(40)
  <2> QED BY <2>1, <2>5, <2>6, ZenonT(40)
<1> QED BY <1>3, <1>4, <1>5, Zenon

=============================================================================
