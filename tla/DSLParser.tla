------------------------------ MODULE DSLParser ------------------------------
(***************************************************************************)
(* The parser of the DSL (dsl/lexer.go, token.go, parser.go, ast.go).  A   *)
(* text is the sequence of its tokens, each the string it was written as;  *)
(* places, white space and letter case are left out.  A node is its        *)
(* operator and its operands; a clause that is not there is NoNode.        *)
(***************************************************************************)
EXTENDS Integers, Sequences

CONSTANTS
  Names,       (* identifiers                                               *)
  Counts,      (* numbers written without a dot                             *)
  Fractions,   (* numbers written with one                                  *)
  Strings      (* quoted strings                                            *)

Keywords == {"scan", "where", "sort", "by", "asc", "desc", "and", "or", "not",
             "true", "false", "limit"}
Comparisons == {"==", "!=", "<", ">", "<=", ">="}
Infixes == Comparisons \cup {"and", "or", "+", "-", "*", "/"}
Literals == Counts \cup Fractions \cup Strings \cup {"true", "false"}
Symbols == Comparisons \cup {"+", "-", "*", "/", "=", "(", ")", ","}

ASSUME DSLParserAssumption ==
  \A S, T \in {Names, Counts, Fractions, Strings, Keywords, Symbols} :
    S = T \/ S \cap T = {}

Token(text, i) == IF i <= Len(text) THEN text[i] ELSE "EOF"

Node(op, args) == [op |-> op, args |-> args]
Leaf(op) == Node(op, <<>>)
NoNode == Leaf("none")
Failure == Leaf("error")

(* What a function of the parser returns: its node and the current token,   *)
(* which after a failure is the one refused.                                *)
Parsed(node, i) == [node |-> node, next |-> i]
Refused(i) == Parsed(Failure, i)
Failed(r) == r.node = Failure
Then(r, Continue(_)) == IF Failed(r) THEN r ELSE Continue(r)

expect(text, tok, r, node) ==
  IF Token(text, r.next) = tok THEN Parsed(node, r.next + 1) ELSE Refused(r.next)

precNone == 0
precUnary == 6

infixPrecedence(tok) ==
  CASE tok = "or"           -> 1
    [] tok = "and"          -> 2
    [] tok \in Comparisons  -> 3
    [] tok \in {"+", "-"}   -> 4
    [] tok \in {"*", "/"}   -> 5
    [] OTHER                -> precNone

RECURSIVE parseExpression(_, _, _), infixes(_, _, _), arguments(_, _, _)

parsePrefix(text, i) ==
  LET tok == Token(text, i)
  IN  CASE tok \in Literals -> Parsed(Leaf(tok), i + 1)
        [] tok \in Names /\ Token(text, i + 1) # "(" -> Parsed(Leaf(tok), i + 1)
        [] tok \in Names /\ Token(text, i + 1) = "(" ->
             IF Token(text, i + 2) = ")" THEN Parsed(Node("call", <<Leaf(tok)>>), i + 3)
             ELSE arguments(text, i + 2, <<Leaf(tok)>>)
        [] tok = "(" -> Then(parseExpression(text, i + 1, precNone),
                             LAMBDA r : expect(text, ")", r, r.node))
        [] tok \in {"-", "not"} -> Then(parseExpression(text, i + 1, precUnary),
                                        LAMBDA r : Parsed(Node(tok, <<r.node>>), r.next))
        [] OTHER -> Refused(i)

(* parseFunctionCall after its "(": the node is the name and the arguments. *)
arguments(text, i, before) ==
  Then(parseExpression(text, i, precNone),
       LAMBDA r : LET all == Append(before, r.node)
                  IN  IF Token(text, r.next) = "," THEN arguments(text, r.next + 1, all)
                      ELSE expect(text, ")", r, Node("call", all)))

(* Mutant: operators of one level group to the right.                       *)
parseInfixToTheRight(text, left, prec) ==
  Then(parseExpression(text, left.next + 1, prec - 1),
       LAMBDA r : Parsed(Node(Token(text, left.next), <<left.node, r.node>>), r.next))

(* The right operand takes only what binds more tightly.                    *)
parseInfix(text, left, prec) ==
  Then(parseExpression(text, left.next + 1, prec),
       LAMBDA r : Parsed(Node(Token(text, left.next), <<left.node, r.node>>), r.next))

infixes(text, left, minPrec) ==
  LET prec == infixPrecedence(Token(text, left.next))
  IN  IF Failed(left) \/ prec <= minPrec THEN left
      ELSE infixes(text, parseInfix(text, left, prec), minPrec)

parseExpression(text, i, minPrec) == infixes(text, parsePrefix(text, i), minPrec)

-----------------------------------------------------------------------------
(* scan where <expression> [sort by <field> [asc | desc]] [limit <number>]  *)

parseSort(text, i) ==
  IF Token(text, i) # "sort" THEN Parsed(NoNode, i)
  ELSE IF Token(text, i + 1) # "by" THEN Refused(i + 1)
  ELSE IF Token(text, i + 2) \notin Names THEN Refused(i + 2)
  ELSE IF Token(text, i + 3) \in {"asc", "desc"}
       THEN Parsed(Node("sort", <<Leaf(text[i + 2]), Leaf(text[i + 3])>>), i + 4)
       ELSE Parsed(Node("sort", <<Leaf(text[i + 2]), Leaf("asc")>>), i + 3)

parseLimit(text, i) ==
  IF Token(text, i) # "limit" THEN Parsed(NoNode, i)
  ELSE IF Token(text, i + 1) \in Counts THEN Parsed(Leaf(text[i + 1]), i + 2)
  ELSE Refused(i + 1)

parseScanQuery(text) ==
  IF Token(text, 2) # "where" THEN Refused(2)
  ELSE Then(parseExpression(text, 3, precNone), LAMBDA where :
         Then(parseSort(text, where.next), LAMBDA sort :
           Then(parseLimit(text, sort.next), LAMBDA limit :
             Parsed(Node("scan", <<where.node, sort.node, limit.node>>), limit.next))))

parseAssignment(text) ==
  Then(parseExpression(text, 3, precNone),
       LAMBDA r : Parsed(Node("=", <<Leaf(text[1]), r.node>>), r.next))

parseTopLevel(text) ==
  CASE Token(text, 1) = "scan" -> parseScanQuery(text)
    [] Token(text, 1) \in Names /\ Token(text, 2) = "=" -> parseAssignment(text)
    [] OTHER -> parseExpression(text, 1, precNone)

Parse(text) ==
  Then(parseTopLevel(text),
       LAMBDA r : IF Token(text, r.next) = "EOF" THEN r ELSE Refused(r.next))
=============================================================================
