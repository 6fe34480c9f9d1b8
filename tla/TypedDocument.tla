---------------------------- MODULE TypedDocument ----------------------------
(***************************************************************************)
(* What a stored document promises: it is a value of its type, and a call  *)
(* changes the part of it that it names and nothing else.  A part is       *)
(* addressed by the positions of the fields and elements and the keys of   *)
(* the entries that lead to it.                                            *)
(***************************************************************************)
EXTENDS Integers, Sequences

VARIABLES
  doc,   \* the document, a Rust value
  call   \* the last call: [op, addr, arg], what it did to which part and with what

Call(op, addr, arg) == [op |-> op, addr |-> addr, arg |-> arg]

RECURSIVE Part(_, _)
Part(x, addr) == IF addr = <<>> THEN x ELSE Part(x[Head(addr)], Tail(addr))

RECURSIVE Assign(_, _, _)
Assign(x, addr, new) ==
  IF addr = <<>> THEN new
  ELSE [x EXCEPT ![Head(addr)] = Assign(x[Head(addr)], Tail(addr), new)]

\* The part after the call
Effect(c, part) ==
  LET with(map, more) ==
        [k \in DOMAIN map \cup DOMAIN more |-> IF k \in DOMAIN more THEN more[k] ELSE map[k]]
  IN CASE c.op = "set" -> c.arg
       [] c.op = "push" -> Append(part, c.arg)
       [] c.op = "append" -> part \o c.arg
       [] c.op = "extend" -> with(part, c.arg)
       [] c.op = "remove_key" -> [k \in DOMAIN part \ {c.arg} |-> part[k]]
       [] c.op = "remove_at" -> SubSeq(part, 1, c.arg - 1) \o SubSeq(part, c.arg + 1, Len(part))

Next == doc' = Assign(doc, call'.addr, Effect(call', Part(doc, call'.addr)))

\* What is stored at first is the argument of the call that creates the document.
Init == call = Call("set", <<>>, doc)

Spec == Init /\ [][Next]_<<doc, call>>

=============================================================================
