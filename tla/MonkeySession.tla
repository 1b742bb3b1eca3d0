--------------------------- MODULE MonkeySession ---------------------------
(***************************************************************************)
(* A session of Monkey's REPL: each line is compiled and run by the VM, an *)
(* instruction a step.  Beside it the evaluator, which the REPL no longer  *)
(* calls, gets the same lines.  The compiler makes instructions            *)
(* <<opcode, operands>> of a syntax tree (MonkeyEvaluator): a position is  *)
(* the index of an instruction, from 0, not of its first byte; an operand  *)
(* is kept as wide as its bytes.                                           *)
(***************************************************************************)
EXTENDS Integers, Sequences, SequencesExt, FiniteSets, MonkeyEvaluator

CONSTANTS Lines, MaxLines,        \* the programs a user enters; bound: so many of them
          StackSize, FrameSize,   \* kStackSize, kFrameSize
          GlobalSize,             \* kGlobalSize
          Word, Byte              \* the numbers of values of an operand of two bytes and of one

VARIABLES obj

(***************************************************************************)
(* SymbolTable: the innermost table is the last.                           *)
(***************************************************************************)
Symbol(scope, index) == [scope |-> scope, index |-> index]
Table == [store |-> <<>>, next |-> 0, free |-> <<>>]
Put(table, x, symbol) ==
    [table EXCEPT !.store = [y \in DOMAIN @ \union {x} |-> IF y = x THEN symbol ELSE @[y]]]
GlobalTable ==
    [Table EXCEPT !.store = [x \in ToSet(BuiltinList) |-> Symbol("BUILTIN", (CHOOSE i \in DOMAIN BuiltinList : BuiltinList[i] = x) - 1)]]

\* redefined: a name of the same table was defined before; the old index stays taken.
Define(c, x) ==
    LET n == Len(c.tables)
        t == c.tables[n]
        s == Symbol(IF n = 1 THEN "GLOBAL" ELSE "LOCAL", t.next)
    IN  [c EXCEPT !.tables[n] = [Put(t, x, s) EXCEPT !.next = @ + 1], !.redefined = @ \/ x \in DOMAIN t.store]
DefineFunctionName(c, x) == [c EXCEPT !.tables[Len(c.tables)] = Put(@, x, Symbol("FUNCTION", 0))]
DefineFree(table, x, original) ==
    Put([table EXCEPT !.free = Append(@, original)], x, Symbol("FREE", Len(table.free)))

Unresolved == Symbol("none", 0)
\* The symbol of x, and the tables from the outermost to the n-th after that.
RECURSIVE Resolve(_, _, _)
Resolve(tables, n, x) ==
    IF x \in DOMAIN tables[n].store THEN [symbol |-> tables[n].store[x], tables |-> tables]
    ELSE IF n = 1 THEN [symbol |-> Unresolved, tables |-> tables]
    ELSE LET out == Resolve(tables, n - 1, x)
         IN  IF out.symbol.scope \in {"none", "GLOBAL", "BUILTIN"} THEN out
             ELSE LET mine == DefineFree(out.tables[n], x, out.symbol)
                  IN  [symbol |-> mine.store[x], tables |-> [out.tables EXCEPT ![n] = mine]]

(***************************************************************************)
(* emit and what is remembered of the last two instructions.               *)
(***************************************************************************)
Widths(op) ==
    CASE op \in {"Constant", "JumpNotTruthy", "Jump", "GetGlobal", "SetGlobal", "Array", "Hash"} -> <<Word>>
      [] op \in {"GetLocal", "SetLocal", "GetBuiltin", "Call", "GetFree"} -> <<Byte>>
      [] op = "Closure" -> <<Word, Byte>>
      [] OTHER -> <<>>
Make(op, operands) == <<op>> \o [i \in DOMAIN operands |-> operands[i] % Widths(op)[i]]
Wraps(op, operands) == \E i \in DOMAIN operands : operands[i] >= Widths(op)[i]

Emitted(op, position) == [op |-> op, position |-> position]
\* Both remembered instructions are zero at first, the code of OpConstant.
Scope == [code |-> <<>>, last |-> Emitted("Constant", 0), prev |-> Emitted("Constant", 0)]
Current(c) == c.scopes[Len(c.scopes)]
InScope(c, scope) == [c EXCEPT !.scopes[Len(c.scopes)] = scope]
SetLast(scope, op, position) == [scope EXCEPT !.prev = scope.last, !.last = Emitted(op, position)]
Size(c) == Len(Current(c).code)

Emit(c, op, operands) ==
    LET s == [Current(c) EXCEPT !.code = Append(@, Make(op, operands))]
    IN  [InScope(c, SetLast(s, op, Size(c))) EXCEPT !.wrapped = @ \/ Wraps(op, operands)]
AddConstant(c, v) == [c EXCEPT !.constants = Append(@, v)]
EmitConstant(c, v) == Emit(AddConstant(c, v), "Constant", <<Len(c.constants)>>)
LastIs(c, op) == Current(c).last.op = op
RemoveLastPop(c) ==
    LET s == Current(c)
    IN  IF LastIs(c, "Pop") THEN InScope(c, [s EXCEPT !.code = SubSeq(@, 1, s.last.position), !.last = s.prev]) ELSE c
Replace(c, position, instruction) ==
    InScope(c, SetLast([Current(c) EXCEPT !.code[position + 1] = instruction], instruction[1], position))
ChangeOperand(c, position, operand) ==
    LET op == Current(c).code[position + 1][1]
    IN  [Replace(c, position, Make(op, <<operand>>)) EXCEPT !.wrapped = @ \/ Wraps(op, <<operand>>)]

LoadSymbol(c, s) ==
    CASE s.scope = "GLOBAL" -> Emit(c, "GetGlobal", <<s.index>>)
      [] s.scope = "LOCAL" -> Emit(c, "GetLocal", <<s.index>>)
      [] s.scope = "BUILTIN" -> Emit(c, "GetBuiltin", <<s.index>>)
      [] s.scope = "FREE" -> Emit(c, "GetFree", <<s.index>>)
      [] s.scope = "FUNCTION" -> Emit(c, "CurrentClosure", <<>>)

InfixOp(op) ==
    CASE op = "+" -> "Add" [] op = "-" -> "Sub" [] op = "*" -> "Mul" [] op = "/" -> "Div"
      [] op \in {"<", ">"} -> "GreaterThan" [] op = "==" -> "Equal" [] op = "!=" -> "NotEqual"

(***************************************************************************)
(* compile.  An error ends it.                                             *)
(***************************************************************************)
EnterScope(c) == [c EXCEPT !.scopes = Append(@, Scope), !.tables = Append(@, Table)]
LeaveScope(c) == [c EXCEPT !.scopes = Front(@), !.tables = Front(@)]

RECURSIVE Compile(_, _)
CompileAll(c, nodes) == FoldLeft(Compile, c, nodes)

\* at: the jump that is to end up here, after what the last branch pushed.
Arrive(at, c) == IF c.error THEN c ELSE ChangeOperand(c, at, Size(c))
CompileAlternative(c, alternative) ==
    IF alternative = NoBlock THEN Emit(c, "Null", <<>>) ELSE RemoveLastPop(CompileAll(c, alternative))
\* at: the jump over the consequence, which yes has compiled.
Otherwise(at, yes, alternative) ==
    IF yes.error THEN yes
    ELSE Arrive(Size(yes), CompileAlternative(ChangeOperand(Emit(yes, "Jump", <<0>>), at, Size(yes) + 1), alternative))
CompileBranches(test, consequence, alternative) ==
    Otherwise(Size(test) - 1, RemoveLastPop(CompileAll(test, consequence)), alternative)
CompileIf(c, condition, consequence, alternative) ==
    CompileBranches(Emit(Compile(c, condition), "JumpNotTruthy", <<0>>), consequence, alternative)

\* The body returns its last expression, or null.
ReturnLast(c) == IF LastIs(c, "Pop") THEN Replace(c, Current(c).last.position, <<"ReturnValue">>) ELSE c
ReturnNull(c) == IF LastIs(c, "ReturnValue") THEN c ELSE Emit(c, "Return", <<>>)
MakeFunction(c, f, free) ==
    Emit(AddConstant(c, f), "Closure", <<Len(c.constants), Len(free)>>)
\* The free variables are loaded in the scope around, before the closure.
EndFunction(c, n) ==
    LET table == Last(c.tables)
    IN  MakeFunction(FoldLeft(LoadSymbol, LeaveScope(c), table.free),
                     <<"COMPILED_FUNCTION", Current(c).code, table.next, n>>, table.free)
EndBody(c, n) == IF c.error THEN c ELSE EndFunction(ReturnNull(ReturnLast(c)), n)
EnterFunction(c, name) ==
    IF name = "" THEN EnterScope(c) ELSE DefineFunctionName(EnterScope(c), name)
CompileFunction(c, name, params, body) ==
    EndBody(CompileAll(FoldLeft(Define, EnterFunction(c, name), params), body), Len(params))

\* The parts of a node whose instruction comes after them all, and that instruction.
Parts(node) ==
    CASE node[1] \in {"expr", "return"} -> <<node[2]>>
      [] node[1] = "array" -> node[2]
      [] node[1] = "hash" -> FlattenSeq(node[2])
      [] node[1] = "index" -> <<node[2], node[3]>>
      [] node[1] = "prefix" -> <<node[3]>>
      [] node[1] = "infix" -> IF node[2] = "<" THEN <<node[4], node[3]>> ELSE <<node[3], node[4]>>
      [] node[1] = "call" -> <<node[2]>> \o node[3]
      [] OTHER -> <<>>
Instruction(node) ==
    CASE node[1] = "expr" -> <<"Pop">>
      [] node[1] = "return" -> <<"ReturnValue">>
      [] node[1] = "bool" -> <<IF node[2] THEN "True" ELSE "False">>
      [] node[1] = "array" -> <<"Array", Len(node[2])>>
      [] node[1] = "hash" -> <<"Hash", Len(node[2])>>
      [] node[1] = "index" -> <<"Index">>
      [] node[1] = "prefix" -> <<IF node[2] = "!" THEN "Bang" ELSE "Minus">>
      [] node[1] = "infix" -> <<InfixOp(node[2])>>
      [] node[1] = "call" -> <<"Call", Len(node[3])>>

\* The name is defined before the value is compiled, and set in the innermost table.
SetSymbol(c, s) == Emit(c, IF s.scope = "GLOBAL" THEN "SetGlobal" ELSE "SetLocal", <<s.index>>)
CompileLet(c, x, value) == SetSymbol(Compile(c, value), Last(c.tables).store[x])
CompileName(c, r) ==
    IF r.symbol = Unresolved THEN [c EXCEPT !.error = TRUE] ELSE LoadSymbol([c EXCEPT !.tables = r.tables], r.symbol)

Compile(c, node) ==
    CASE c.error -> c
      [] ~c.error /\ node[1] = "let" -> CompileLet(Define(c, node[2]), node[2], node[3])
      [] ~c.error /\ node[1] = "id" -> CompileName(c, Resolve(c.tables, Len(c.tables), node[2]))
      [] ~c.error /\ node[1] = "int" -> EmitConstant(c, Integer(node[2]))
      [] ~c.error /\ node[1] = "str" -> EmitConstant(c, <<"STRING", node[2]>>)
      [] ~c.error /\ node[1] = "if" -> CompileIf(c, node[2], node[3], node[4])
      [] ~c.error /\ node[1] = "fn" -> CompileFunction(c, node[2], node[3], node[4])
      [] OTHER -> Emit(CompileAll(c, Parts(node)), Instruction(node)[1], Tail(Instruction(node)))

\* NewWithState and compile of a program.
CompileProgram(constants, table, nodes) ==
    CompileAll([constants |-> constants, tables |-> <<table>>, scopes |-> <<Scope>>,
                error |-> FALSE,
                redefined |-> FALSE, wrapped |-> FALSE],     \* history
               nodes)

Empty == [i \in 1..StackSize |-> Nil]
\* locals: which locals of a function were set; history.
Frame(closure, bp, set) == [closure |-> closure, ip |-> 1, bp |-> bp, set |-> set]
Closure(f, free) == <<"CLOSURE", f, free>>

\* odd (history): in what the VM and the evaluator were seen to differ so far.
Init ==
    obj = [phase |-> "prompt", lines |-> 0, table |-> GlobalTable, constants |-> <<>>,
           globals |-> [i \in 0..GlobalSize - 1 |-> Nil],
           vm |-> <<>>, result |-> Nil,
           envs |-> <<Env(0)>>, expected |-> Answer(Nil, <<>>), odd |-> {}]

(***************************************************************************)
(* The REPL.                                                               *)
(***************************************************************************)
\* The symbols of a line that does not compile stay.
Differs(c, line) ==
    {what \in {"redefined", "wrapped", "empty"} :
        (what = "redefined" /\ c.redefined) \/ (what = "wrapped" /\ c.wrapped) \/ (what = "empty" /\ line = <<>>)}
Start(c) ==
    LET main == Closure(<<"COMPILED_FUNCTION", Current(c).code, 0, 0>>, <<>>)
    IN  [constants |-> c.constants, globals |-> obj.globals, stack |-> Empty, sp |-> 0,
         frames |-> <<Frame(main, 0, {})>>, status |-> "running", odd |-> {}]
Compiled(c, line) ==
    LET read == [obj EXCEPT !.lines = @ + 1, !.table = c.tables[1], !.odd = @ \union Differs(c, line)]
    IN  IF c.error THEN [read EXCEPT !.result = Error, !.expected = Answer(Error, @.envs)]
        ELSE [read EXCEPT !.phase = "run", !.expected = EvalProgram(line, obj.envs, FrameSize), !.vm = Start(c)]
ReadLine(line) ==
    /\ obj.phase = "prompt" /\ obj.lines < MaxLines
    /\ obj' = Compiled(CompileProgram(obj.constants, obj.table, line), line)

(***************************************************************************)
(* The VM m: status is running, error, or wild when memory that is not its *)
(* own, or nullptr, is used, or an exception ends the program.             *)
(***************************************************************************)
Top(m) == Last(m.frames)
Locals(f) == f.closure[2][3]
Base(m) == Top(m).bp + Locals(Top(m))
Halt(m, status) == [m EXCEPT !.status = status]
Odd(m, what) == [m EXCEPT !.odd = @ \union {what}]
OddIf(m, test, what) == IF test THEN Odd(m, what) ELSE m

\* An error object that is pushed ends the line.
Push(m, v) ==
    IF m.sp >= StackSize \/ v = Error THEN Halt(m, "error")
    ELSE [m EXCEPT !.stack[m.sp + 1] = v, !.sp = @ + 1]
Peek(m) == IF m.sp = 0 THEN Nil ELSE m.stack[m.sp]
\* nullptr on the stack is taken for its end: an error object, and nothing popped.
Popped(m) == IF Peek(m) = Nil THEN Error ELSE Peek(m)
Pop(m) == OddIf(IF Peek(m) = Nil THEN m ELSE [m EXCEPT !.sp = @ - 1], m.sp <= Base(m), "valueless")
Pop2(m) == Pop(Pop(m))
Below(m) == Popped(Pop(m))

Binary(m, op) ==
    LET l == Below(m)
        r == Popped(m)
        n == Pop2(m)
    IN  IF l[1] = "INTEGER" /\ r[1] = "INTEGER"
        THEN CASE op = "Add" -> Push(n, Integer(l[2] + r[2]))
               [] op = "Sub" -> Push(n, Integer(l[2] - r[2]))
               [] op = "Mul" -> Push(n, Integer(l[2] * r[2]))
               [] op = "Div" -> IF r[2] = 0 THEN Halt(n, "error") ELSE Push(n, Integer(Quotient(l[2], r[2])))
        ELSE IF l[1] = "STRING" /\ r[1] = "STRING" /\ op = "Add" THEN Push(n, <<"STRING", l[2] \o r[2]>>)
        ELSE Halt(n, "error")

\* Objects that are not integers are compared by their addresses: those of true, false
\* and null are fixed, one and the same for others is possible.
Compare(m, op) ==
    LET l == Below(m)
        r == Popped(m)
        n == OddIf(Pop2(m), {l[1], r[1]} \notin {{"INTEGER"}, {"BOOLEAN"}} /\ op # "GreaterThan", "compared")
    IN  IF l[1] = "INTEGER" /\ r[1] = "INTEGER"
        THEN {Push(n, Bool(CASE op = "GreaterThan" -> l[2] > r[2] [] op = "Equal" -> l = r [] op = "NotEqual" -> l # r))}
        ELSE IF op = "GreaterThan" THEN {Halt(n, "error")}
        ELSE {Push(n, Bool(same = (op = "Equal"))) :
                 same \in IF l[1] # r[1] THEN {FALSE} ELSE IF l[1] \in {"BOOLEAN", "NULL"} THEN {l = r} ELSE BOOLEAN}

Bang(m) ==
    LET v == Popped(m)
    IN  OddIf(Push(Pop(m), Bool(v = Bool(FALSE))), v[1] # "BOOLEAN" /\ ~IsTruthy(v), "negated")
Minus(m) == IF Popped(m)[1] = "INTEGER" THEN Push(Pop(m), Integer(-Popped(m)[2])) ELSE Halt(Pop(m), "error")

\* n values from the top of the stack, in the order they were pushed.
Args(m, n) == SubSeq(m.stack, m.sp - n + 1, m.sp)
Drop(m, n) == OddIf([m EXCEPT !.sp = @ - n], m.sp - n < Base(m), "valueless")

BuildArray(m, n) ==
    IF m.sp < n THEN Halt(m, "error") ELSE Push(Drop(m, n), <<"ARRAY", Args(m, n)>>)
\* The last pair is popped first: of two pairs with one key the first stays.
BuildHash(m, n) ==
    LET vs == Args(m, 2 * n)
        keys == [i \in 1..n |-> vs[2 * i - 1]]
        pairs == FoldRight(LAMBDA i, ps : HashPut(ps, keys[i], vs[2 * i]), [i \in 1..n |-> i], {})
        out == OddIf(Drop(m, 2 * n), Cardinality(ToSet(keys)) < n, "keys")
    IN  IF m.sp < 2 * n \/ \E i \in 1..n : ~Hashable(keys[i]) THEN Halt(m, "error")
        ELSE Push(out, <<"HASH", pairs>>)

CallClosure(m, f, n) ==
    IF f[2][4] # n THEN Halt(Odd(m, "arguments"), "error")
    ELSE IF Len(m.frames) = FrameSize THEN Halt(Odd(m, "deep"), "wild")
    ELSE OddIf([m EXCEPT !.frames = Append(@, Frame(f, m.sp - n, 0..n - 1)), !.sp = @ - n + f[2][3]],
               m.sp - n + f[2][3] > StackSize, "deep")
CallBuiltin(m, f, n) ==
    IF Nil \in ToSet(Args(m, n)) THEN Halt(m, "wild")
    ELSE Push([m EXCEPT !.sp = @ - n - 1], Builtin(f[2], Args(m, n)))
Call(m, n) ==
    LET f == m.stack[m.sp - n]
    IN  IF m.sp < n + 1 THEN Halt(m, "error")
        ELSE CASE f[1] = "CLOSURE" -> CallClosure(m, f, n)
               [] f[1] = "BUILTIN" -> CallBuiltin(m, f, n)
               [] f = Nil -> Halt(m, "wild")
               [] OTHER -> Halt(m, "error")

\* The main program has no frame to pop: an exception.
Return(m, v) ==
    IF Len(m.frames) = 1 THEN Halt(Odd(m, "returned"), "wild")
    ELSE Push([m EXCEPT !.frames = Front(@), !.sp = Top(m).bp - 1], v)

SetLocal(m, i) ==
    LET at == Top(m).bp + i + 1
        n == Pop(m)
    IN  IF at > StackSize THEN Halt(m, "wild")
        ELSE [n EXCEPT !.stack[at] = Popped(m), !.frames[Len(m.frames)].set = @ \union {i}]
GetLocal(m, i) ==
    LET at == Top(m).bp + i + 1
    IN  IF at > StackSize THEN Halt(m, "wild") ELSE OddIf(Push(m, m.stack[at]), i \notin Top(m).set, "unset")
SetGlobal(m, i) ==
    IF i >= GlobalSize THEN Halt(Odd(m, "globals"), "error") ELSE [Pop(m) EXCEPT !.globals[i] = Popped(m)]
GetGlobal(m, i) ==
    IF i >= GlobalSize \/ m.globals[i] = Nil THEN Halt(m, "error") ELSE Push(m, m.globals[i])
MakeClosure(m, index, n) ==
    LET f == m.constants[index + 1]
    IN  IF f[1] # "COMPILED_FUNCTION" THEN Halt(m, "error")
        ELSE Push([m EXCEPT !.sp = @ - n], Closure(f, Args(m, n)))

Code(m) == Top(m).closure[2][2]
\* The outcomes of the next instruction.
Execute(m) ==
    LET instruction == Code(m)[Top(m).ip]
        op == instruction[1]
        arg == instruction[2]
        next == [m EXCEPT !.frames[Len(m.frames)].ip = @ + 1]
        jumped == [m EXCEPT !.frames[Len(m.frames)].ip = arg + 1]
    IN  CASE op = "Constant" -> {Push(next, m.constants[arg + 1])}
          [] op = "Pop" -> {Pop(next)}
          [] op \in {"Add", "Sub", "Mul", "Div"} -> {Binary(next, op)}
          [] op = "True" -> {Push(next, Bool(TRUE))}
          [] op = "False" -> {Push(next, Bool(FALSE))}
          [] op = "Null" -> {Push(next, Null)}
          [] op \in {"Equal", "NotEqual", "GreaterThan"} -> Compare(next, op)
          [] op = "Bang" -> {Bang(next)}
          [] op = "Minus" -> {Minus(next)}
          [] op = "Jump" -> {jumped}
          [] op = "JumpNotTruthy" -> {Pop(IF IsTruthy(Popped(m)) THEN next ELSE jumped)}
          [] op = "SetGlobal" -> {SetGlobal(next, arg)}
          [] op = "GetGlobal" -> {GetGlobal(next, arg)}
          [] op = "SetLocal" -> {SetLocal(next, arg)}
          [] op = "GetLocal" -> {GetLocal(next, arg)}
          [] op = "GetBuiltin" -> {Push(next, <<"BUILTIN", BuiltinList[arg + 1]>>)}
          [] op = "Array" -> {BuildArray(next, arg)}
          [] op = "Hash" -> {BuildHash(next, arg)}
          [] op = "Index" -> {Push(Pop2(next), Index(Below(m), Popped(m)))}
          [] op = "Call" -> {Call(next, arg)}
          [] op = "ReturnValue" -> {Return(Pop(next), Popped(m))}
          [] op = "Return" -> {Return(next, Null)}
          [] op = "Closure" -> {MakeClosure(next, arg, instruction[3])}
          [] op = "GetFree" -> {Push(next, Top(m).closure[3][arg + 1])}
          [] op = "CurrentClosure" -> {Push(next, Top(m).closure)}

Running == obj.phase = "run" /\ obj.vm.status = "running"
Step == Running /\ Top(obj.vm).ip <= Len(Code(obj.vm)) /\ \E m \in Execute(obj.vm) : obj' = [obj EXCEPT !.vm = m]

\* An error is printed and what the line set is dropped; else the value popped last is
\* printed, and constants and globals are kept.
Finish ==
    LET m == obj.vm
        done == [obj EXCEPT !.phase = "prompt", !.odd = @ \union m.odd, !.vm = <<>>]
        value == IF m.sp = StackSize THEN Nil ELSE m.stack[m.sp + 1]
    IN  /\ obj.phase = "run"
        /\ \/ /\ m.status = "wild"
              /\ obj' = [done EXCEPT !.phase = "dead", !.result = Nil]
           \/ /\ m.status = "error"
              /\ obj' = [done EXCEPT !.result = Error, !.expected.envs = obj.envs]
           \/ /\ Running /\ Top(m).ip > Len(Code(m))
              /\ obj' = [done EXCEPT !.phase = IF value = Nil THEN "dead" ELSE "prompt", !.result = value,
                                     !.constants = m.constants, !.globals = m.globals, !.envs = obj.expected.envs]

Next == (\E line \in Lines : ReadLine(line)) \/ Step \/ Finish
Spec == Init /\ [][Next]_obj

(***************************************************************************)
(* Properties.                                                             *)
(***************************************************************************)
\* An object as both know it: a function is only that.
RECURSIVE Shape(_)
Shape(v) ==
    CASE v[1] \in {"CLOSURE", "FUNCTION"} -> <<"function">>
      [] v[1] = "ARRAY" -> <<"ARRAY", [i \in DOMAIN v[2] |-> Shape(v[2][i])]>>
      [] v[1] = "HASH" -> <<"HASH", {<<p[1], Shape(p[2])>> : p \in v[2]}>>
      [] OTHER -> v

\* Unless they were seen to differ, a line has the value the evaluator gives it, and the
\* globals hold what its environment holds, whatever lines failed before.
EvaluatesAlike ==
    obj.odd = {} /\ obj.phase = "prompt" =>
        /\ obj.expected.v \notin {Nil, Unknown} => Shape(obj.result) = Shape(obj.expected.v)
        /\ \A x \in DOMAIN obj.table.store :
              obj.table.store[x].scope = "GLOBAL" =>
                  Shape(obj.globals[obj.table.store[x].index]) = Shape(Get(obj.envs, 1, x))

\* The program ends, or uses memory that is not its own, only after one of these.
DeadOnlyIfOdd ==
    obj.phase = "dead" => obj.odd \intersect {"valueless", "returned", "deep", "unset", "wrapped", "empty"} # {}
=============================================================================
