----------------------------- MODULE MCWriteTxn -----------------------------
(* Instances of WriteTxn for TLC. *)
EXTENDS WriteTxnRefinement, TLC

CONSTANTS a, b, v1, v2, k1, k2, k3, k4

AB == <<a, b>>
AA == <<a, a>>
Flat == {<<a>>, <<b>>}
Deep == {<<a>>, <<b>>, AB}
Pair == {<<a>>, AA, AB}
OnlyAB == {AB}
OnlyA == {<<a>>}
Empty == {}

TreeMoves == {<<AB, <<b>>>>, <<<<b>>, <<a>>>>, <<<<a>>, <<b, a>>>>}
PairMoves == {<<AB, AA>>, <<AA, <<b>>>>, <<<<b>>, <<a>>>>, <<<<b>>, AB>>}
FromEntity == {<<AB, <<b>>>>}
Upwards == {<<AB, <<a>>>>}

Entities == <<a, Star>>

\* The column is the value; or v2 has none.
WholeValue == [v \in Value |-> v]
V1Only == [v \in Value |-> IF v = v1 THEN v1 ELSE Null]

\* No guard reads `last': states that differ in it alone have one future.
ButLast == <<db, has_indexes, marking, txn, rows, cursor, failed>>

\* With an index that is not unique no call reads the rows, and a client that goes on
\* after an error does not read `failed'.
ButRows == <<db.data, db.registered, has_indexes, marking, txn, cursor>>

Fungible == Permutations(AKey \ {ROOT})

\* Where the column is the value itself, values are interchangeable too.
FungibleValues == Fungible \cup Permutations(Value)
=============================================================================
