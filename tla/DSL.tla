--------------------------------- MODULE DSL ---------------------------------
(***************************************************************************)
(* The texts a user may send to the search API, written one token after    *)
(* another, and what the two readers of them make of each.                 *)
(***************************************************************************)
EXTENDS SearchExecutor

CONSTANTS
  Clauses,      (* the tokens that do not count for a bound                 *)
  Vocabularies  (* the tokens used together, and a bound on the others      *)

ASSUME DSLAssumption ==
  /\ \A v \in Vocabularies :
       /\ v.tokens \subseteq Literals \cup Names \cup Keywords \cup Symbols
       /\ v.maxTokens \in Nat
  /\ \A s \in Stocks : DOMAIN Latest[s] = AllowedFields

VARIABLE text

InVocabulary(written, v) ==
  /\ Range(written) \subseteq v.tokens
  /\ Cardinality({i \in DOMAIN written : written[i] \notin Clauses}) <= v.maxTokens

(* The parser looks at one token beyond the current one: what it has refused *)
(* before the end is refused however it goes on, and is not written further. *)
Hopeless == LET r == Parse(text) IN Failed(r) /\ r.next <= Len(text)

Init == text = <<>>

Write(tok) ==
  /\ ~Hopeless
  /\ text' = Append(text, tok)
  /\ \E v \in Vocabularies : InVocabulary(text', v)

Next == \E tok \in UNION {v.tokens : v \in Vocabularies} : Write(tok)
Spec == Init /\ [][Next]_text

-----------------------------------------------------------------------------
(* The grammar the parser is to follow: "or < and < comparison < + - < * / < *)
(* unary - and not < call" (plan-01-infrastructure.md:1711), each level      *)
(* grouping to the left.                                                     *)

Operators == << {"or"}, {"and"}, Comparisons, {"+", "-"}, {"*", "/"} >>
Unary == Len(Operators) + 1

RECURSIVE Phrases(_, _, _), Lists(_, _)

Primaries(i, j) ==
  {Leaf(text[i]) : k \in {i} \cap {j} \cap {n \in DOMAIN text : text[n] \in Literals \cup Names}} \cup
  (IF i < j /\ text[i] = "(" /\ text[j] = ")" THEN Phrases(1, i + 1, j - 1) ELSE {}) \cup
  (IF i + 1 < j /\ text[i] \in Names /\ text[i + 1] = "(" /\ text[j] = ")"
   THEN {Node("call", <<Leaf(text[i])>> \o list) : list \in Lists(i + 2, j - 1)} ELSE {})

(* The trees of the tokens from i to j as an expression of that level.       *)
Phrases(level, i, j) ==
  IF i > j THEN {}
  ELSE IF level = Unary
  THEN Primaries(i, j) \cup
       (IF text[i] \in {"-", "not"} THEN {Node(text[i], <<x>>) : x \in Phrases(Unary, i + 1, j)} ELSE {})
  ELSE Phrases(level + 1, i, j) \cup
       UNION { {Node(text[k], <<x, y>>) : x \in Phrases(level, i, k - 1), y \in Phrases(level + 1, k + 1, j)}
               : k \in {n \in i..j : text[n] \in Operators[level]} }

Lists(i, j) ==
  IF i > j THEN {<<>>}
  ELSE {<<x>> : x \in Phrases(1, i, j)} \cup
       UNION { {Append(list, x) : list \in Lists(i, k - 1) \ {<<>>}, x \in Phrases(1, k + 1, j)}
               : k \in {n \in i..j : text[n] = ","} }

SortClauses ==
  {<<NoNode, <<>> >>} \cup
  {<<Node("sort", <<Leaf(f), Leaf("asc")>>), <<"sort", "by", f>> >> : f \in Names} \cup
  {<<Node("sort", <<Leaf(f), Leaf(d)>>), <<"sort", "by", f, d>> >> : f \in Names, d \in {"asc", "desc"}}
LimitClauses == {<<NoNode, <<>> >>} \cup {<<Leaf(n), <<"limit", n>> >> : n \in Counts}

Sentences ==
  LET n == Len(text)
      scans == IF n > 2 /\ text[1] = "scan" /\ text[2] = "where"
               THEN {<<e, s, l>> \in (3..n) \X SortClauses \X LimitClauses :
                       SubSeq(text, e + 1, n) = s[2] \o l[2]}
               ELSE {}
  IN  Phrases(1, 1, n) \cup
      UNION { {Node("scan", <<w, c[2][1], c[3][1]>>) : w \in Phrases(1, 3, c[1])} : c \in scans } \cup
      (IF n > 2 /\ text[1] \in Names /\ text[2] = "="
       THEN {Node("=", <<Leaf(text[1]), x>>) : x \in Phrases(1, 3, n)} ELSE {})

(* The parser accepts a text when the grammar derives it, and then gives the *)
(* one tree that the grammar has for it (parser.go).                         *)
ParserFollowsGrammar ==
  Sentences = LET r == Parse(text) IN IF Failed(r) THEN {} ELSE {r.node}

-----------------------------------------------------------------------------
(* The kind of value each operator gives, and whether its operands have the  *)
(* kinds it takes; all variables are numbers.                                *)

Gives(node) ==
  CASE node.op \in {"true", "false", "and", "or", "not"} \cup Comparisons -> "bool"
    [] node.op \in Strings -> "string"
    [] node.op \in {"scan", "="} -> "any"
    [] OTHER -> "float"

Operands(node) ==
  CASE node.op = "call" -> Tail(node.args)
    [] node.op = "="    -> <<node.args[2]>>
    [] node.op = "scan" -> <<node.args[1]>>
    [] OTHER            -> node.args

RECURSIVE WellTyped(_), Uses(_, _)
WellTyped(node) ==
  \A x \in Range(Operands(node)) :
    /\ WellTyped(x)
    /\ node.op \in {"and", "or", "not"} => Gives(x) = "bool"
    /\ node.op \notin {"and", "or", "not", "scan", "="} => Gives(x) = "float"

Uses(node, ops) == node.op \in ops \/ \E x \in Range(Operands(node)) : Uses(x, ops)

Row(stock) == [f \in AllowedFields |-> Float(<<Latest[stock][f], 1>>)]

(* Evaluation keeps to the kinds.  A text that is well typed fails only on a *)
(* division or a call, one that is not gets away with it only behind an      *)
(* "and" or "or" that skips an operand, and what "and" and "or" give is a    *)
(* truth value also then (evaluator.go:80-138).                              *)
EvaluationIsTyped ==
  LET tree == Parse(text).node
  IN  tree # Failure => \A s \in Stocks :
        LET v == Evaluate(tree, Row(s))
            known == \A i \in DOMAIN text : text[i] \in Names => text[i] \in AllowedFields
        IN  /\ v # Fault /\ Gives(tree) # "any" => v.kind = Gives(tree)
            /\ WellTyped(tree) /\ known /\ ~Uses(tree, {"/", "call"}) => v # Fault
            /\ ~WellTyped(tree) /\ ~Uses(tree, {"and", "or"}) => v = Fault

-----------------------------------------------------------------------------
(* A search that both readers accept finds the stocks on which the tree of   *)
(* the parser holds, in the order and number it names (executor.go:119-186). *)
(* An order without a direction is ascending to one reader and descending to *)
(* the other: no text of this repository says which it is.                   *)
SearchFindsWhatIsEvaluated ==
  LET tree == Parse(text).node
      answer == Execute(text)
  IN  tree.op = "scan" /\ answer.valid =>
        LET sort == tree.args[2]
            limit == tree.args[3]
        IN  /\ answer.found = {s \in Stocks : LET v == Evaluate(tree, Row(s)) IN v.kind = "bool" /\ v.value}
            /\ sort # NoNode /\ sort.args[1].op \in AllowedFields =>
                 /\ answer.order[1] = sort.args[1].op
                 /\ Range(text) \cap {"asc", "desc"} # {} => answer.order[2] = sort.args[2].op
            /\ limit # NoNode /\ ValueOf[limit.op][1] \in 1..500 => answer.limit = ValueOf[limit.op][1]
=============================================================================
