---------------------------- MODULE SearchExecutor ----------------------------
(***************************************************************************)
(* The executor behind the search API (dsl/executor.go), which reads a     *)
(* text with regular expressions of its own.  The texts are those of       *)
(* DSLParser, the tokens with spaces between them.  The rows searched are  *)
(* the latest candle of each stock, of at most seven days.                 *)
(***************************************************************************)
EXTENDS DSLEvaluator, FiniteSetsExt

CONSTANTS
  Stocks,
  Latest,        (* stock -> its columns, of integers                       *)
  AllowedFields  (* the names of those columns                              *)

allowedOps == {">", "<", ">=", "<=", "="}
Words == Names \cup Keywords \cup Counts      (* \w+ *)
Invalid == [valid |-> FALSE]

(* Mutant: only the first condition is kept. *)
FirstPart(rest, from) ==
  LET ands == {k \in (from + 1)..(Len(rest) - 1) : rest[k] = "and"}
  IN  <<SubSeq(rest, from, IF ands = {} THEN Len(rest) ELSE Min(ands) - 1)>>

(* Split at each "and" that has a space before it and one after it: one at   *)
(* the start of a part belongs to the part.                                  *)
RECURSIVE Split(_, _)
Split(rest, from) ==
  LET ands == {k \in (from + 1)..(Len(rest) - 1) : rest[k] = "and"}
  IN  IF ands = {} THEN <<SubSeq(rest, from, Len(rest))>>
      ELSE <<SubSeq(rest, from, Min(ands) - 1)>> \o Split(rest, Min(ands) + 1)

(* condRe *)
IsCondition(part) ==
  /\ Len(part) = 3
  /\ part[1] \in Words /\ part[2] \in allowedOps /\ part[3] \in Counts \cup Fractions

(* How many tokens limitRe and sortRe take off the end of the text.          *)
LimitLength(rest) ==
  LET n == Len(rest)
  IN  IF n > 2 /\ rest[n - 1] = "limit" /\ rest[n] \in Counts THEN 2 ELSE 0

SortLength(rest) ==
  LET n == Len(rest)
      At(k, directed) ==
        /\ n > k /\ rest[n - k + 1] = "sort" /\ rest[n - k + 2] = "by" /\ rest[n - k + 3] \in Words
        /\ directed => rest[n] \in {"asc", "desc"}
  IN  IF At(4, TRUE) THEN 4 ELSE IF At(3, FALSE) THEN 3 ELSE 0

Front(rest, n) == SubSeq(rest, 1, Len(rest) - n)

parse(text) ==
  LET rest == SubSeq(text, 3, Len(text))
      unlimited == Front(rest, LimitLength(rest))
      sort == SortLength(unlimited)
      parts == Split(Front(unlimited, sort), 1)
      direction == IF sort = 4 /\ unlimited[Len(unlimited)] = "asc" THEN "asc" ELSE "desc"
  IN  IF /\ Len(text) > 2 /\ text[1] = "scan" /\ text[2] = "where"
         /\ \A k \in DOMAIN parts : IsCondition(parts[k])
      THEN [valid |-> TRUE,
            conditions |-> [k \in DOMAIN parts |->
              [field |-> parts[k][1], op |-> parts[k][2], value |-> ValueOf[parts[k][3]]]],
            sort |-> IF sort = 0 THEN <<>> ELSE <<unlimited[Len(unlimited) - sort + 3], direction>>,
            limit |-> IF LimitLength(rest) = 0 THEN 50 ELSE ValueOf[rest[Len(rest)]][1]]
      ELSE Invalid

-----------------------------------------------------------------------------
(* executeQuery: the stocks that meet every condition, in what order, and   *)
(* how many of them at most.  An unknown field fails the query in a          *)
(* condition and is passed over in the sort.                                 *)

Meets(stock, c) ==
  LET x == <<Latest[stock][c.field], 1>>
  IN  CASE c.op = ">"  -> Less(c.value, x)
        [] c.op = "<"  -> Less(x, c.value)
        [] c.op = ">=" -> ~Less(x, c.value)
        [] c.op = "<=" -> ~Less(c.value, x)
        [] c.op = "="  -> Same(x, c.value)

Execute(text) ==
  LET ast == parse(text)
      order == IF ast.sort # <<>> /\ ast.sort[1] \in AllowedFields THEN ast.sort ELSE <<"volume", "desc">>
  IN  IF ~ast.valid \/ \E k \in DOMAIN ast.conditions : ast.conditions[k].field \notin AllowedFields
      THEN Invalid
      ELSE [valid |-> TRUE,
            found |-> {s \in Stocks : \A k \in DOMAIN ast.conditions : Meets(s, ast.conditions[k])},
            order |-> order,
            limit |-> IF ast.limit \in 1..500 THEN ast.limit ELSE 50]
=============================================================================
