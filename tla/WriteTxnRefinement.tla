-------------------------- MODULE WriteTxnRefinement --------------------------
(***************************************************************************)
(* WriteTxn implements PathTree: what the transaction's own reads see is a *)
(* tree of paths.                                                          *)
(***************************************************************************)
EXTENDS WriteTxn

AllPath == UNION {[1..d -> Name] : d \in 0..MaxDepth}

\* What the reads of a transaction find: the paths that lead to an entry.
Nodes(s) ==
  LET led == {x \in {<<p, resolve_buffered(s, p)>> : p \in AllPath} : x[2] # None}
  IN  {[path |-> x[1], id |-> x[2],
        is |-> IF entry_blob(s, x[2]).kind = "dir" THEN "dir" ELSE entry_blob(s, x[2]).value] :
         x \in {y \in led : entry_blob(s, y[2]) # None}}

Abstract == INSTANCE PathTree WITH
  tree <- Nodes(NewStore(db.data, FALSE)),
  work <- IF Open THEN Nodes(txn) ELSE None,
  cur  <- IF cursor = None THEN None ELSE cursor.path

\* Read through the buffer, a transaction behaves as its documentation says:
\* each call has its whole effect on the paths or, with an error, none; a
\* commit publishes exactly what the transaction saw.
ImplementsPathTree == Abstract!Spec

=============================================================================
