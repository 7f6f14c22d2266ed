----------------------------- MODULE DSLEvaluator -----------------------------
(***************************************************************************)
(* The evaluator of the DSL (dsl/evaluator.go, context.go).  A number is   *)
(* exact, a pair <<numerator, denominator>>: rounding, infinity and the    *)
(* like are left out.  A context is a function from variables to values.   *)
(***************************************************************************)
EXTENDS DSLParser

CONSTANTS
  ValueOf,      (* number as it is written -> pair                          *)
  PreEventMA    (* days -> moving average before the event, a pair          *)

Float(x) == [kind |-> "float", value |-> x]
Bool(b) == [kind |-> "bool", value |-> b]
String(s) == [kind |-> "string", value |-> s]
Fault == [kind |-> "fault"]

Ratio(n, d) == IF d < 0 THEN <<-n, -d>> ELSE <<n, d>>
Less(x, y) == x[1] * y[2] < y[1] * x[2]
Same(x, y) == x[1] * y[2] = y[1] * x[2]

(* toFloat64 and toBool: each takes values of its kind only.                *)
WithFloat(v, F(_)) == IF v.kind = "float" THEN F(v.value) ELSE Fault
WithFloats(v, w, F(_, _)) == WithFloat(v, LAMBDA x : WithFloat(w, LAMBDA y : F(x, y)))
WithBool(v, F(_)) == IF v.kind = "bool" THEN F(v.value) ELSE Fault

evalArithmetic(op, v, w) ==
  WithFloats(v, w, LAMBDA x, y :
    CASE op = "+" -> Float(<<x[1] * y[2] + y[1] * x[2], x[2] * y[2]>>)
      [] op = "-" -> Float(<<x[1] * y[2] - y[1] * x[2], x[2] * y[2]>>)
      [] op = "*" -> Float(<<x[1] * y[1], x[2] * y[2]>>)
      [] op = "/" -> IF y[1] = 0 THEN Fault ELSE Float(Ratio(x[1] * y[2], x[2] * y[1])))

evalComparison(op, v, w) ==
  WithFloats(v, w, LAMBDA x, y :
    Bool(CASE op = "==" -> Same(x, y)
           [] op = "!=" -> ~Same(x, y)
           [] op = "<"  -> Less(x, y)
           [] op = ">"  -> Less(y, x)
           [] op = "<=" -> ~Less(y, x)
           [] op = ">=" -> ~Less(x, y)))

(* The functions of NewEventEvalContext.  int() cuts the days off towards 0. *)
Whole(x) == IF x[1] < 0 THEN -((-x[1]) \div x[2]) ELSE x[1] \div x[2]

Call(name, x) ==
  CASE name = "pre_event_ma" /\ Len(x) = 1 /\ Whole(x[1]) \in DOMAIN PreEventMA ->
         Float(PreEventMA[Whole(x[1])])
    [] name = "max" /\ Len(x) = 2 -> Float(IF Less(x[1], x[2]) THEN x[2] ELSE x[1])
    [] name = "min" /\ Len(x) = 2 -> Float(IF Less(x[2], x[1]) THEN x[2] ELSE x[1])
    [] name = "abs" /\ Len(x) = 1 -> Float(IF x[1][1] < 0 THEN <<-x[1][1], x[1][2]>> ELSE x[1])
    [] OTHER -> Fault

RECURSIVE Evaluate(_, _)

evalUnary(op, v) ==
  IF op = "-" THEN WithFloat(v, LAMBDA x : Float(<<-x[1], x[2]>>))
  ELSE WithBool(v, LAMBDA b : Bool(~b))

(* Mutant: any left operand that does not decide is let through.            *)
evalLogicalLoosely(op, v, right, ctx) ==
  IF v.kind = "bool" /\ v.value = (op = "or") THEN v ELSE Evaluate(right, ctx)

(* The right operand of a left one that decides is not evaluated.           *)
evalLogical(op, v, right, ctx) ==
  WithBool(v, LAMBDA b :
    IF b = (op = "or") THEN Bool(b)
    ELSE WithBool(Evaluate(right, ctx), LAMBDA c : Bool(c)))

evalBinary(op, left, right, ctx) ==
  LET v == Evaluate(left, ctx)
  IN  CASE op \in {"and", "or"}         -> evalLogical(op, v, right, ctx)
        [] op \in {"+", "-", "*", "/"}  -> evalArithmetic(op, v, Evaluate(right, ctx))
        [] op \in Comparisons           -> evalComparison(op, v, Evaluate(right, ctx))

evalFunctionCall(name, args, ctx) ==
  LET values == [i \in DOMAIN args |-> Evaluate(args[i], ctx)]
  IN  IF \A i \in DOMAIN args : values[i].kind = "float"
      THEN Call(name, [i \in DOMAIN args |-> values[i].value]) ELSE Fault

Evaluate(node, ctx) ==
  CASE node.op \in {"true", "false"}        -> Bool(node.op = "true")
    [] node.op \in Counts \cup Fractions    -> Float(ValueOf[node.op])
    [] node.op \in Strings                  -> String(node.op)
    [] node.op \in Names                    -> IF node.op \in DOMAIN ctx THEN ctx[node.op] ELSE Fault
    [] node.op = "call"                     -> evalFunctionCall(node.args[1].op, Tail(node.args), ctx)
    [] node.op = "scan"                     -> Evaluate(node.args[1], ctx)
    [] node.op = "="                        -> Evaluate(node.args[2], ctx)
    [] node.op \in {"-", "not"} /\ Len(node.args) = 1 -> evalUnary(node.op, Evaluate(node.args[1], ctx))
    [] node.op \in Infixes /\ Len(node.args) = 2 ->
         evalBinary(node.op, node.args[1], node.args[2], ctx)
=============================================================================
