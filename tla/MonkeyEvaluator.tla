-------------------------- MODULE MonkeyEvaluator --------------------------
(***************************************************************************)
(* Monkey's syntax trees, objects and evaluator.  A node, or an object, is *)
(* a tuple that begins with its type:                                      *)
(*   <<"int", i>> <<"bool", b>> <<"str", s>> <<"id", x>> <<"array", es>>   *)
(*   <<"hash", <<k, v>> pairs>> <<"index", l, i>> <<"prefix", op, e>>      *)
(*   <<"infix", op, l, r>> <<"if", e, block, block or NoBlock>>            *)
(*   <<"fn", name, parameters, block>> <<"call", f, arguments>>            *)
(*   and in a block <<"let", x, e>>, <<"return", e>>, <<"expr", e>>.       *)
(* Texts of errors are left out, and integers stay small.                  *)
(***************************************************************************)
EXTENDS Integers, Sequences, SequencesExt

NoBlock == <<<<"none">>>>
\* nullptr: the value of a let, and an unset variable.
Nil == <<"nil">>
Null == <<"NULL">>
Error == <<"ERROR">>
\* The evaluator divides by zero, or uses nullptr or a ReturnValue as an operand.
Unknown == <<"unknown">>
Integer(i) == <<"INTEGER", i>>
Bool(b) == <<"BOOLEAN", b>>

IsError(v) == v[1] \in {"ERROR", "unknown"}
IsTruthy(v) ==
    CASE v[1] = "BOOLEAN" -> v[2]
      [] v[1] = "INTEGER" -> v[2] # 0
      [] OTHER -> v \notin {Nil, Null}
Hashable(v) == v[1] \in {"INTEGER", "BOOLEAN", "STRING"}

\* Division of C++: towards zero.
Quotient(a, b) == LET q == (IF a < 0 THEN -a ELSE a) \div (IF b < 0 THEN -b ELSE b)
                  IN  IF (a < 0) = (b < 0) THEN q ELSE -q

ArrayIndex(es, i) == IF i < 0 \/ i >= Len(es) THEN Null ELSE es[i + 1]
\* A hash: a set of <<key, value>>, one for each key.
HashIndex(pairs, key) ==
    IF ~Hashable(key) THEN Error
    ELSE LET hits == {p \in pairs : p[1] = key}
         IN  IF hits = {} THEN Null ELSE (CHOOSE p \in hits : TRUE)[2]
HashPut(pairs, key, value) == {p \in pairs : p[1] # key} \union {<<key, value>>}
Index(left, index) ==
    IF left[1] = "ARRAY" /\ index[1] = "INTEGER" THEN ArrayIndex(left[2], index[2])
    ELSE IF left[1] = "HASH" THEN HashIndex(left[2], index)
    ELSE Error

(***************************************************************************)
(* The builtins, in the order of BuiltinList.                              *)
(***************************************************************************)
BuiltinList == <<"len", "puts", "first", "last", "rest", "push", "fibonacci">>
Fibonacci[n \in Nat] == IF n < 2 THEN n ELSE Fibonacci[n - 1] + Fibonacci[n - 2]
Builtin(name, args) ==
    LET one == Len(args) = 1
        list == args # <<>> /\ args[1][1] = "ARRAY"
        es == args[1][2]
    IN  CASE name = "puts" -> Null
          [] name = "len" /\ one /\ args[1][1] \in {"STRING", "ARRAY"} -> Integer(Len(es))
          [] name = "first" /\ one /\ list -> IF es = <<>> THEN Null ELSE es[1]
          [] name = "last" /\ one /\ list -> IF es = <<>> THEN Null ELSE Last(es)
          [] name = "rest" /\ one /\ list -> IF es = <<>> THEN Null ELSE <<"ARRAY", Tail(es)>>
          [] name = "push" /\ Len(args) = 2 /\ list -> <<"ARRAY", Append(es, args[2])>>
          [] name = "fibonacci" /\ one /\ args[1][1] = "INTEGER" /\ args[1][2] >= 0 -> Integer(Fibonacci[args[1][2]])
          [] OTHER -> Error

(***************************************************************************)
(* Environments: envs[e] is a store and the index of the outer one, 0 if   *)
(* there is none.                                                          *)
(***************************************************************************)
Env(outer) == [store |-> <<>>, outer |-> outer]
Set(envs, e, x, v) ==
    [envs EXCEPT ![e].store = [y \in DOMAIN @ \union {x} |-> IF y = x THEN v ELSE @[y]]]
RECURSIVE Get(_, _, _)
Get(envs, e, x) ==
    IF e = 0 THEN Nil
    ELSE IF x \in DOMAIN envs[e].store THEN envs[e].store[x] ELSE Get(envs, envs[e].outer, x)

Prefix(op, v) ==
    CASE op = "!" -> Bool(~IsTruthy(v))
      [] op = "-" /\ v[1] = "INTEGER" -> Integer(-v[2])
      [] OTHER -> Error
Infix(op, l, r) ==
    CASE l[1] # r[1] -> Error
      [] l[1] = "INTEGER" ->
           (CASE op = "+" -> Integer(l[2] + r[2])
              [] op = "-" -> Integer(l[2] - r[2])
              [] op = "*" -> Integer(l[2] * r[2])
              [] op = "/" -> IF r[2] = 0 THEN Unknown ELSE Integer(Quotient(l[2], r[2]))
              [] op = "<" -> Bool(l[2] < r[2])
              [] op = ">" -> Bool(l[2] > r[2])
              [] op = "==" -> Bool(l[2] = r[2])
              [] op = "!=" -> Bool(l[2] # r[2]))
      [] l[1] = "BOOLEAN" /\ op = "==" -> Bool(l = r)
      [] l[1] = "BOOLEAN" /\ op = "!=" -> Bool(l # r)
      [] l[1] = "STRING" /\ op = "+" -> <<"STRING", l[2] \o r[2]>>
      [] OTHER -> Error

(***************************************************************************)
(* Eval(node, e, envs, depth): the value v of a node in the environment e  *)
(* and the environments after it; Unknown beyond depth nested calls.       *)
(***************************************************************************)
RECURSIVE Eval(_, _, _, _), EvalBlock(_, _, _, _), EvalExpressions(_, _, _, _)
Answer(v, envs) == [v |-> v, envs |-> envs]
IsReturn(v) == v[1] = "RETURN_VALUE"
\* The value of a function or a program.
Unwrapped(a) == IF IsReturn(a.v) THEN [a EXCEPT !.v = @[2]] ELSE a

\* An expression whose value is used.
Used(a) == IF a.v = Nil \/ IsReturn(a.v) THEN [a EXCEPT !.v = Unknown] ELSE a
Operand(node, e, envs, depth) == Used(Eval(node, e, envs, depth))

\* The values in order, or the first error alone.
Failed(vs) == Len(vs) = 1 /\ IsError(vs[1])
Before(v, others) == IF Failed(others.vs) THEN others ELSE [others EXCEPT !.vs = <<v>> \o @]
EvalOthers(first, nodes, e, depth) ==
    IF IsError(first.v) THEN [vs |-> <<first.v>>, envs |-> first.envs]
    ELSE Before(first.v, EvalExpressions(nodes, e, first.envs, depth))
EvalExpressions(nodes, e, envs, depth) ==
    IF nodes = <<>> THEN [vs |-> <<>>, envs |-> envs]
    ELSE EvalOthers(Operand(nodes[1], e, envs, depth), Tail(nodes), e, depth)

EvalRest(first, nodes, e, depth) ==
    IF nodes = <<>> \/ IsReturn(first.v) \/ IsError(first.v) THEN first ELSE EvalBlock(nodes, e, first.envs, depth)
EvalBlock(nodes, e, envs, depth) ==
    IF nodes = <<>> THEN Answer(Null, envs) ELSE EvalRest(Eval(nodes[1], e, envs, depth), Tail(nodes), e, depth)

\* Arguments too many are dropped; a parameter without one is not set.
ExtendFunctionEnv(f, args, envs) ==
    LET given == [i \in {j \in DOMAIN f[2] : j <= Len(args)} |-> i]
    IN  FoldLeft(LAMBDA es, i : Set(es, Len(es), f[2][i], args[i]), Append(envs, Env(f[4])), given)
Apply(f, args, envs, depth) ==
    CASE f[1] = "BUILTIN" -> Answer(Builtin(f[2], args), envs)
      [] f[1] = "FUNCTION" /\ depth = 0 -> Answer(Unknown, envs)
      [] f[1] = "FUNCTION" /\ depth > 0 ->
           Unwrapped(EvalBlock(f[3], Len(envs) + 1, ExtendFunctionEnv(f, args, envs), depth - 1))
      [] OTHER -> Answer(Error, envs)

Pairs(vs) == FoldLeft(LAMBDA pairs, i : HashPut(pairs, vs[2 * i - 1], vs[2 * i]), {}, [i \in 1..Len(vs) \div 2 |-> i])

\* The expressions a node evaluates first, and what it does with their values.
Operands(node) ==
    CASE node[1] = "array" -> node[2]
      [] node[1] = "hash" -> FlattenSeq(node[2])
      [] node[1] = "index" -> <<node[2], node[3]>>
      [] node[1] \in {"prefix", "let"} -> <<node[3]>>
      [] node[1] = "infix" -> <<node[3], node[4]>>
      [] node[1] = "call" -> <<node[2]>> \o node[3]
      [] node[1] \in {"if", "return"} -> <<node[2]>>
      [] OTHER -> <<>>
EvalName(v, x) == IF v # Nil THEN v ELSE IF x \in ToSet(BuiltinList) THEN <<"BUILTIN", x>> ELSE Error
Value(node, vs, e, envs) ==
    CASE node[1] = "int" -> Integer(node[2])
      [] node[1] = "bool" -> Bool(node[2])
      [] node[1] = "str" -> <<"STRING", node[2]>>
      [] node[1] = "id" -> EvalName(Get(envs, e, node[2]), node[2])
      [] node[1] = "array" -> <<"ARRAY", vs>>
      [] node[1] = "hash" -> IF \A i \in 1..Len(vs) \div 2 : Hashable(vs[2 * i - 1]) THEN <<"HASH", Pairs(vs)>> ELSE Error
      [] node[1] = "index" -> Index(vs[1], vs[2])
      [] node[1] = "prefix" -> Prefix(node[2], vs[1])
      [] node[1] = "infix" -> Infix(node[2], vs[1], vs[2])
      [] node[1] = "fn" -> <<"FUNCTION", node[3], node[4], e>>
      [] node[1] = "return" -> <<"RETURN_VALUE", vs[1]>>

Then(node, a, e, depth) ==
    CASE Failed(a.vs) -> Answer(a.vs[1], a.envs)
      [] ~Failed(a.vs) /\ node[1] = "if" ->
           EvalBlock(IF IsTruthy(a.vs[1]) THEN node[3] ELSE IF node[4] # NoBlock THEN node[4] ELSE <<>>, e, a.envs, depth)
      [] ~Failed(a.vs) /\ node[1] = "call" -> Apply(a.vs[1], Tail(a.vs), a.envs, depth)
      [] ~Failed(a.vs) /\ node[1] = "let" -> Answer(Nil, Set(a.envs, e, node[2], a.vs[1]))
      [] OTHER -> Answer(Value(node, a.vs, e, a.envs), a.envs)
Eval(node, e, envs, depth) ==
    IF node[1] = "expr" THEN Eval(node[2], e, envs, depth)
    ELSE Then(node, EvalExpressions(Operands(node), e, envs, depth), e, depth)

EvalProgram(nodes, envs, depth) == Unwrapped(EvalBlock(nodes, 1, envs, depth))
=============================================================================
