------------------------------ MODULE DocValue ------------------------------
(***************************************************************************)
(* value.rs: the in-memory document, a tree of leaves, lists and named     *)
(* maps, and the operations on it.  A path is a sequence of segments, a    *)
(* name (a byte string) or an index each (path/v_path.rs).                 *)
(***************************************************************************)
EXTENDS Scalars, FiniteSets, SequencesExt

\* What an absent value is: Rust's None.
CONSTANT None

Leaf(scalar) == [kind |-> "leaf", scalar |-> scalar]
List(items)  == [kind |-> "list", items |-> items]
Node(map)    == [kind |-> "node", map |-> map]

new_empty_list == List(<<>>)
new_empty_node == Node(<<>>)
Default        == Leaf(Null)

Name(n)  == [is |-> "name", name |-> n]
Index(k) == [is |-> "index", index |-> k]

Dot    == <<46>>
DotDot == <<46, 46>>

child_name(path, n) ==
  CASE n = Dot -> path
    [] n = DotDot -> IF path = <<>> THEN path ELSE Front(path)
    [] OTHER -> Append(path, Name(n))

child_index(path, k) == Append(path, Index(k))

\* The names of a set in the order of a BTreeMap.
Sorted(names) ==
  [k \in 1 .. Cardinality(names) |->
     CHOOSE n \in names : Cardinality({m \in names : Before(m, n)}) = k - 1]

\* node extended with the entries of with, which win
Extended(node, with) ==
  [n \in DOMAIN node \cup DOMAIN with |-> IF n \in DOMAIN with THEN with[n] ELSE node[n]]

Single(n, x) == [m \in {n} |-> x]

Without(map, n) == [m \in DOMAIN map \ {n} |-> map[m]]

at(v, k) == IF v.kind = "list" /\ k < Len(v.items) THEN v.items[k + 1] ELSE None

get(v, n) == IF v.kind = "node" /\ n \in DOMAIN v.map THEN v.map[n] ELSE None

leaf(v) == IF v.kind = "leaf" THEN v.scalar ELSE None

Step(v, segment) ==
  IF v = None THEN None
  ELSE IF segment.is = "name" THEN get(v, segment.name) ELSE at(v, segment.index)

subtree(v, path) == FoldLeft(Step, v, path)

keys(v) == IF v.kind = "node" THEN Sorted(DOMAIN v.map) ELSE <<>>

clear(v) ==
  CASE v.kind = "leaf" -> Default
    [] v.kind = "list" -> new_empty_list
    [] v.kind = "node" -> new_empty_node

push(v, x) == IF v.kind = "list" THEN List(Append(v.items, x)) ELSE v

insert(v, n, x) == IF v.kind = "node" THEN Node(Extended(v.map, Single(n, x))) ELSE v

\* Vec::remove panics outside the list: k is an index of it.
remove_at(v, k) == IF v.kind = "list" THEN List(RemoveAt(v.items, k + 1)) ELSE v

remove_key(v, n) == IF v.kind = "node" THEN Node(Without(v.map, n)) ELSE v

merge(v, with) ==
  CASE v.kind = "leaf" -> with
    [] v.kind = "list" ->
         List(v.items \o IF with.kind = "list" THEN with.items ELSE <<with>>)
    [] v.kind = "node" ->
         IF with.kind = "node" THEN Node(Extended(v.map, with.map)) ELSE with

\* A new subtree that holds value at path, None where a list would have to
\* begin past its first element.
RECURSIVE build_fresh(_, _)
build_fresh(path, value) ==
  IF path = <<>> THEN value
  ELSE LET first == Head(path)
           inner == build_fresh(Tail(path), value)
       IN CASE inner = None -> None
            [] first.is = "name" -> Node(Single(first.name, inner))
            [] first.is = "index" -> IF first.index = 0 THEN List(<<inner>>) ELSE None

\* v with child where the segment leads, its next element or a new entry included.
Put(v, segment, child) ==
  IF segment.is = "name" THEN insert(v, segment.name, child)
  ELSE IF segment.index = Len(v.items) THEN push(v, child)
  ELSE List([k \in DOMAIN v.items |-> IF k = segment.index + 1 THEN child ELSE v.items[k]])

\* The segment fits the container and names a place one can add.
Vacant(v, segment) ==
  \/ v.kind = "node" /\ segment.is = "name"
  \/ v.kind = "list" /\ segment.is = "index" /\ segment.index = Len(v.items)

\* target with the outcome for its child
PutOutcome(target, segment, inner) ==
  IF inner.ok THEN [ok |-> TRUE, value |-> Put(target, segment, inner.value)]
  ELSE [ok |-> FALSE, value |-> target]

RECURSIVE set_in(_, _, _)
set_in(target, path, value) ==
  IF path = <<>> THEN [ok |-> TRUE, value |-> value]
  ELSE PutOutcome(target, Head(path),
         IF Step(target, Head(path)) # None
         THEN set_in(Step(target, Head(path)), Tail(path), value)
         ELSE [ok |-> Vacant(target, Head(path)) /\ build_fresh(Tail(path), value) # None,
               value |-> build_fresh(Tail(path), value)])

\* set_value, whose callers ignore whether it applied
set_value(v, path, value) == set_in(v, path, value).value

\* The container at a path without the child a segment leads to, None if it has none
ContainerWithout(parent, segment) ==
  IF Step(parent, segment) = None THEN None
  ELSE IF segment.is = "name" THEN remove_key(parent, segment.name)
  ELSE remove_at(parent, segment.index)

remove_value(v, path) ==
  IF path = <<>> THEN Default
  ELSE LET rest == ContainerWithout(subtree(v, Front(path)), Last(path))
       IN IF rest = None THEN v ELSE set_value(v, Front(path), rest)

=============================================================================
