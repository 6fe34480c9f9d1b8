------------------------------- MODULE PathTree -------------------------------
(***************************************************************************)
(* What a write transaction promises its user: a tree of files and         *)
(* directories addressed by paths, each with an identity that outlives     *)
(* overwrites and moves.  There is no buffer, no index, no key hint: a     *)
(* call has its documented effect on the paths or reports an error and     *)
(* changes nothing.  WriteTxn is shown to implement this.                  *)
(***************************************************************************)
EXTENDS Naturals, Sequences, FiniteSets, SequencesExt

CONSTANTS
  Value,  \* file contents
  None,
  StorePath, DirPath, RmPath, CursorPath,  \* the paths calls are made with
  Moves, Copies                            \* (source, destination) pairs

VARIABLES
  tree,  \* committed: a set of nodes, each a path, what is there, and its identity
  work,  \* the same inside the open write transaction, or None
  cur,   \* the path of the open mutable cursor, or None
  last   \* the last call, its arguments and how it ended

vars == <<tree, work, cur, last>>

\* The nodes of tree t at p, and at or under it.
At(t, p) == {n \in t : n.path = p}
Under(t, p) == {n \in t : IsPrefix(p, n.path)}

\* The prefixes of p that hold nothing yet, as new directories.
NewDirs(t, p) ==
  {[path |-> q, is |-> "dir"] :
     q \in {SubSeq(p, 1, i) : i \in 0..Len(p)} \ {n.path : n \in t}}

\* A file is in the way of a directory at p.
Blocked(t, p) == \E n \in t : IsPrefix(n.path, p) /\ n.is # "dir"

\* A call that ends without an effect, and one that turns t into `kept',
\* whose nodes have an identity already, and `made', whose nodes get a new one.
Refuse(call, how) == last' = Append(call, how) /\ UNCHANGED <<tree, work, cur>>

Accept(call, t, kept, made) ==
  /\ last' = Append(call, "ok")
  /\ \E now \in {work'} :
       /\ kept \subseteq now
       /\ {[path |-> n.path, is |-> n.is] : n \in now \ kept} = made
       /\ \A n \in now \ kept : \A m \in t \cup (now \ kept) : m.id = n.id => m = n
  /\ UNCHANGED <<tree, cur>>

-----------------------------------------------------------------------------
Init == tree = {} /\ work = None /\ cur = None /\ last = <<"open">>

Begin == last' = <<"begin">> /\ work = None /\ work' = tree /\ UNCHANGED <<tree, cur>>

\* A file at p and directories above it.  A file that was there keeps its
\* identity; a directory is replaced, with everything under it.
Put(call, t, p, v) ==
  IF p = <<>> \/ Blocked(t, Front(p)) THEN Refuse(call, "err")
  ELSE IF \E n \in At(t, p) : n.is # "dir"
    THEN Accept(call, t, (t \ At(t, p)) \cup {[n EXCEPT !.is = v] : n \in At(t, p)}, {})
    ELSE Accept(call, t, t \ Under(t, p), NewDirs(t, Front(p)) \cup {[path |-> p, is |-> v]})

Store(t, p, v) == last'[1] = "store" /\ Put(<<"store", p, v>>, t, p, v)

Mkdir(t, p) ==
  /\ last'[1] = "mkdir"
  /\ IF Blocked(t, p) THEN Refuse(<<"mkdir", p>>, "err")
                      ELSE Accept(<<"mkdir", p>>, t, t, NewDirs(t, p))

Rm(t, p) ==
  /\ last'[1] = "rm"
  /\ IF p = <<>> THEN Refuse(<<"rm", p>>, "err")
     ELSE IF At(t, p) = {} THEN Refuse(<<"rm", p>>, "none")
     ELSE Accept(<<"rm", p>>, t, t \ Under(t, p), {})

\* The path under dst that corresponds to q, under src.
Relocated(src, dst, q) == dst \o SubSeq(q, Len(src) + 1, Len(q))

Impossible(t, src, dst) ==
  IsPrefix(src, dst) \/ dst = <<>> \/ At(t, src) = {} \/ Blocked(t, Front(dst))

\* dst becomes what src was; what was at dst and under it is gone.
Mv(t, src, dst) ==
  LET moved == {[n EXCEPT !.path = Relocated(src, dst, n.path)] : n \in Under(t, src)} IN
  /\ last'[1] = "mv"
  /\ IF Impossible(t, src, dst) THEN Refuse(<<"mv", src, dst>>, "err")
     ELSE Accept(<<"mv", src, dst>>, t,
                 (t \ (Under(t, src) \cup Under(t, dst))) \cup moved, NewDirs(t, Front(dst)))

Cp(t, src, dst) ==
  LET copied == {[path |-> Relocated(src, dst, n.path), is |-> n.is] : n \in Under(t, src)} IN
  /\ last'[1] = "cp"
  /\ IF Impossible(t, src, dst) THEN Refuse(<<"cp", src, dst>>, "err")
     ELSE Accept(<<"cp", src, dst>>, t, t \ Under(t, dst), NewDirs(t, Front(dst)) \cup copied)

FetchMut(t, p) ==
  /\ last'[1] = "fetch_mut"
  /\ IF At(t, p) = {} THEN Refuse(<<"fetch_mut", p>>, "none")
     ELSE IF \E n \in At(t, p) : n.is = "dir" THEN Refuse(<<"fetch_mut", p>>, "err")
     ELSE cur' = p /\ last' = <<"fetch_mut", p, "ok">> /\ UNCHANGED <<tree, work>>

\* An edit through a cursor goes to the cursor's path, wherever the file that
\* was there has gone since.
Edit(t, v) ==
  /\ last'[1] = "edit" /\ cur # None
  /\ IF \E n \in At(t, cur) : n.is = "dir" THEN Refuse(<<"edit", v>>, "err")
                                           ELSE Put(<<"edit", v>>, t, cur, v)

DropCursor == last' = <<"drop">> /\ cur # None /\ cur' = None /\ UNCHANGED <<tree, work>>

Commit ==
  /\ last' = <<"commit">> /\ work # None /\ cur = None
  /\ tree' = work /\ work' = None /\ UNCHANGED cur

Abandon ==
  /\ last' = <<"abandon">> /\ work # None
  /\ work' = None /\ cur' = None /\ UNCHANGED tree

\* A call is made on the transaction's own tree.
Call(t) ==
  \/ \E v \in Value : Edit(t, v) \/ \E p \in StorePath : Store(t, p, v)
  \/ \E p \in DirPath : Mkdir(t, p)
  \/ \E p \in RmPath : Rm(t, p)
  \/ \E p \in CursorPath : FetchMut(t, p)
  \/ \E m \in Moves : Mv(t, m[1], m[2])
  \/ \E m \in Copies : Cp(t, m[1], m[2])

Next ==
  \/ Begin \/ Commit \/ Abandon \/ DropCursor
  \/ \E t \in {work} : t # None /\ Call(t)

Spec == Init /\ [][Next]_vars

=============================================================================
