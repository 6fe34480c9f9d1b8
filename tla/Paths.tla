-------------------------------- MODULE Paths --------------------------------
(***************************************************************************)
(* path/*: access paths (a sequence of names), value paths (a sequence of  *)
(* the segments of DocValue) and index patterns, as they are parsed from   *)
(* and written to text, which is a sequence of bytes.                      *)
(***************************************************************************)
EXTENDS DocValue

CONSTANT Err

Slash == 47
Bracket == 91
Unbracket == 93

\* str::find
Find(text, char) ==
  LET at_ == {i \in DOMAIN text : text[i] = char}
  IN IF at_ = {} THEN None ELSE CHOOSE i \in at_ : \A j \in at_ : i <= j

\* str::split at the slashes
RECURSIVE Split(_)
Split(text) ==
  LET i == Find(text, Slash)
  IN IF i = None THEN <<text>>
     ELSE <<SubSeq(text, 1, i - 1)>> \o Split(SubSeq(text, i + 1, Len(text)))

validate_name(name) == Range(name) \cap {Slash, Bracket, Unbracket} = {} /\ name \notin {Dot, DotDot}

\* One token of a path: "." stays, ".." goes up, but not above the root.
Token(path, token, parsed) ==
  CASE path = Err \/ token = <<>> -> Err
    [] token = Dot -> path
    [] token = DotDot -> IF path = <<>> THEN Err ELSE Front(path)
    [] OTHER -> IF parsed = Err THEN Err ELSE path \o parsed

APath_token(path, token) == Token(path, token, IF validate_name(token) THEN <<token>> ELSE Err)

APath_parse(text) == IF text = <<>> THEN <<>> ELSE FoldLeft(APath_token, <<>>, Split(text))

join(path, tail) == IF tail = Err THEN Err ELSE path \o tail

\* Mutant of absolute: the root's text is put in front before the path is normalised.
absolute_late(root, text) ==
  FoldLeft(APath_token, root, IF text = <<>> THEN <<>> ELSE Split(text))

\* RootedRead, RootedWrite: a path relative to the view's root
absolute(root, text) == join(root, APath_parse(text))

---------------------------------------------------------------------------

Plus == 43

RECURSIVE Digits(_)
Digits(n) == IF n < 10 THEN <<48 + n>> ELSE Append(Digits(n \div 10), 48 + (n % 10))

\* u64::from_str: decimal digits, with or without a plus sign
Number(text) ==
  LET digits == IF Len(text) > 1 /\ Head(text) = Plus THEN Tail(text) ELSE text
  IN IF digits = <<>> \/ ~(Range(digits) \subseteq 48 .. 57) THEN Err
     ELSE FoldLeft(LAMBDA n, d : n * 10 + (d - 48), 0, digits)

\* The indexes behind a name: [k] and again
RECURSIVE parse_indexes(_)
parse_indexes(rest) ==
  LET close == Find(rest, Unbracket)
  IN IF rest = <<>> THEN <<>>
     ELSE IF Head(rest) # Bracket \/ close = None THEN Err
     ELSE LET index == Number(SubSeq(rest, 2, close - 1))
              more  == parse_indexes(SubSeq(rest, close + 1, Len(rest)))
          IN IF index = Err \/ more = Err THEN Err ELSE <<Index(index)>> \o more

parse_token(token) ==
  LET bracket == Find(token, Bracket)
      name    == IF bracket = None THEN token ELSE SubSeq(token, 1, bracket - 1)
      more    == IF bracket = None THEN <<>> ELSE parse_indexes(SubSeq(token, bracket, Len(token)))
  IN IF more = Err \/ (name # <<>> /\ ~validate_name(name)) THEN Err
     ELSE (IF name = <<>> THEN <<>> ELSE <<Name(name)>>) \o more

VPath_token(path, token) == Token(path, token, parse_token(token))

VPath_parse(text) == IF text = <<>> THEN <<>> ELSE FoldLeft(VPath_token, <<>>, Split(text))

\* Mutant of VPath_display: no slash after an index
VPath_display_close(path) ==
  Joined([k \in 1 .. Len(path) |->
            IF path[k].is = "index" THEN <<Bracket>> \o Digits(path[k].index) \o <<Unbracket>>
            ELSE (IF k = 1 \/ path[k - 1].is = "index" THEN <<>> ELSE <<Slash>>) \o path[k].name])

VPath_display(path) ==
  Joined([k \in 1 .. Len(path) |->
            IF path[k].is = "index" THEN <<Bracket>> \o Digits(path[k].index) \o <<Unbracket>>
            ELSE (IF k = 1 THEN <<>> ELSE <<Slash>>) \o path[k].name])

---------------------------------------------------------------------------

Star == <<42>>

\* A pattern's segments: names, and Star for any one child
Pattern_parse(text) ==
  IF text = <<>> THEN <<>>
  ELSE LET tokens == Split(text) IN IF <<>> \in Range(tokens) THEN Err ELSE tokens

=============================================================================
