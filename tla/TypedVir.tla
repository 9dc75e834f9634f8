------------------------------- MODULE TypedVir ------------------------------
(***************************************************************************)
(* The VIR with its types (src/vir.h), which the native code generator     *)
(* compiles, and what it means: an interpreter of modules.                 *)
(*                                                                         *)
(* A module is [imports, externs, functions].  An import is a path and an  *)
(* extern function [name, path, params, returns]; paths and names are      *)
(* sequences of tokens, split at the characters that matter in a path or a *)
(* label.  A function is [name, params, returns, locals, blocks]: the      *)
(* types of its parameters and of its locals, which start with the         *)
(* parameters.  Locals and values are numbered from 0.                     *)
(***************************************************************************)
EXTENDS Scalars, FiniteSets

None == -1      \* a call without a result, a return without a value
Main == <<"main">>

FloatTypes == {"float32", "float64"}

Constant(v, type, x) ==
  [kind |-> "constant", result |-> v, type |-> type, constant |-> <<type, x>>]
Load(v, l, type) == [kind |-> "load", result |-> v, local |-> l, type |-> type]
Store(l, v, type) == [kind |-> "store", local |-> l, value |-> v, type |-> type]
Unary(v, op, x, type) ==
  [kind |-> "unary", result |-> v, op |-> op, operand |-> x, type |-> type]
Binary(v, op, x, y, type) ==
  [kind |-> "binary", result |-> v, op |-> op, left |-> x, right |-> y, type |-> type]
Convert(v, x, how, from, to) ==
  [kind |-> "convert", result |-> v, input |-> x, how |-> how, from |-> from, to |-> to]
Call(v, callee, args, returns) ==
  [kind |-> "call", result |-> v, callee |-> callee, args |-> args, returns |-> returns]
CallExtern(v, callee, args, returns) ==
  [kind |-> "extern", result |-> v, callee |-> callee, args |-> args, returns |-> returns]
PrintCall(args) == [kind |-> "print", result |-> None, args |-> args]

Return(v, type) == [kind |-> "return", value |-> v, type |-> type]
Branch(b) == [kind |-> "branch", target |-> b]
CondBranch(v, b, c) == [kind |-> "cond", value |-> v, then |-> b, else |-> c]
Unreachable == [kind |-> "unreachable"]

TheFunction(m, name) ==
  m.functions[CHOOSE i \in DOMAIN m.functions : m.functions[i].name = name]
TheBlock(fn, id) == fn.blocks[CHOOSE i \in DOMAIN fn.blocks : fn.blocks[i].id = id]
TheExtern(m, name) == m.externs[CHOOSE i \in DOMAIN m.externs : m.externs[i].name = name]

(* The type of the result of an instruction.                               *)
ResultType(inst) ==
  CASE inst.kind = "convert" -> inst.to
    [] inst.kind \in {"call", "extern"} -> inst.returns
    [] OTHER -> inst.type

Code(fn) == FlattenSeq([i \in DOMAIN fn.blocks |-> fn.blocks[i].code])

(* The type of value v of fn, as its definition gives it.                  *)
ValueType(fn, v) ==
  ResultType(CHOOSE inst \in ToSet(Code(fn)) : inst.kind # "store" /\ inst.result = v)

ValueIds(fn) ==
  {inst.result : inst \in {i \in ToSet(Code(fn)) : i.kind # "store"}} \ {None}

-----------------------------------------------------------------------------
(* The library a PE import table names for an import path.                 *)
CONSTANT Lowered      \* the tokens with upper-case letters, lower-cased

LowerCase(path) == [i \in DOMAIN path |-> IF path[i] \in DOMAIN Lowered THEN Lowered[path[i]]
                                          ELSE path[i]]

FileName(path) ==
  LET slashes == {i \in DOMAIN path : path[i] = "/"}
  IN  IF slashes = {} THEN path ELSE SubSeq(path, Max(slashes) + 1, Len(path))

Extension(file) ==
  IF Len(file) > 2 /\ file[Len(file) - 1] = "." THEN file[Len(file)] ELSE "none"

WithoutPrefix(stem) ==
  IF stem[1] = "lib" /\ Len(stem) > 1 THEN Tail(stem) ELSE stem

PeLibraryName(path) ==
  LET file == LowerCase(FileName(path))
      stem == SubSeq(file, 1, Len(file) - 2)
      dll(name) == name \o <<".", "dll">>
  IN  CASE Extension(file) = "lib" -> dll(stem)
        [] Extension(file) \in {"a", "so", "dylib"} ->
             IF Extension(WithoutPrefix(stem)) = "dll" THEN WithoutPrefix(stem)
             ELSE dll(WithoutPrefix(stem))
        [] OTHER -> file

-----------------------------------------------------------------------------
(* What a library function outside of the C runtime answers.               *)
ForeignResult(type) ==
  CASE type = "string" -> <<69>> [] type \in FloatTypes -> 3 [] OTHER -> 1

Truth(b) == IF b THEN 1 ELSE 0
IsTrueText(s) == s \in {TextTrue, <<Zero + 1>>}

Text(type, x) ==
  CASE type = "string" -> x
    [] type = "bool" -> IF x = 1 THEN TextTrue ELSE TextFalse
    [] type = "int32" -> IntText(x)
    [] type \in FloatTypes -> FloatText(x)

(* Comparison of equally typed values.                                     *)
Compared(op, x, y) ==
  Truth(CASE op = "==" -> x = y [] op = "!=" -> x # y
          [] op = "<" -> x < y [] op = "<=" -> x <= y
          [] op = ">" -> x > y [] op = ">=" -> x >= y)

Computed(op, type, x, y) ==
  CASE op = "and" -> x * y
    [] op = "or" -> Truth(x + y > 0)
    [] op \in {"==", "!=", "<", "<=", ">", ">="} -> Compared(op, x, y)
    [] type = "string" -> x \o y
    [] type \in FloatTypes -> FloatOp(op, x, y)
    [] op = "+" -> Wrap(x + y)
    [] op = "-" -> Wrap(x - y)
    [] op = "*" -> Wrap(x * y)
    [] op = "/" -> Quotient(x, y)

Converted(how, from, x) ==
  CASE how = "ToString" -> Text(from, x)
    [] how = "ToInt32FromFloatTruncateTowardZero" -> Truncated(x)
    [] how = "ToInt32FromStringParse" -> ParsedInt(x)
    [] how \in {"ToFloat32", "ToFloat64"} ->
         CASE from = "string" -> ParsedFloat(x)
           [] from \in FloatTypes -> x
           [] OTHER -> 2 * x
    [] how \in {"ImplicitInt32ToFloat32", "ImplicitInt32ToFloat64"} -> 2 * x
    [] how = "ToBool" -> IF from = "string" THEN Truth(IsTrueText(x)) ELSE Truth(x # 0)
    [] how = "Round" -> NearestEven(x)
    [] how = "Floor" -> Floored(x)
    [] how = "Ceil" -> Ceiled(x)
    [] OTHER -> x      \* the identities

-----------------------------------------------------------------------------
(* The interpreter.  A frame is [fn, block, at, local, value, result]: the *)
(* next instruction, and the value of the caller that gets the result.     *)
NewFrame(fn, args, result) ==
  [fn |-> fn, block |-> fn.blocks[1].id, at |-> 1, result |-> result,
   local |-> [l \in 0 .. Len(fn.locals) - 1 |-> IF l < Len(args) THEN args[l + 1] ELSE 0],
   value |-> [v \in ValueIds(fn) |-> 0]]

Start(m) ==
  [stack |-> <<NewFrame(TheFunction(m, Main), << >>, None)>>,
   out |-> << >>, outcome |-> "running", code |-> 0]

Defines(s, v, x) ==
  IF v = None THEN s
  ELSE [s EXCEPT !.stack[Len(s.stack)].value[v] = x]

Values(f, vs) == [i \in DOMAIN vs |-> f.value[vs[i]]]

(* The state after inst, whose frame is f and has already moved on.        *)
Executed(m, s, f, inst) ==
  LET val(v) == f.value[v]
  IN  CASE inst.kind = "constant" -> Defines(s, inst.result, inst.constant[2])
        [] inst.kind = "load" -> Defines(s, inst.result, f.local[inst.local])
        [] inst.kind = "store" ->
             [s EXCEPT !.stack[Len(s.stack)].local[inst.local] = val(inst.value)]
        [] inst.kind = "unary" ->
             Defines(s, inst.result, CASE inst.op = "!" -> 1 - val(inst.operand)
                                       [] inst.type = "int32" -> Wrap(-val(inst.operand))
                                       [] OTHER -> -val(inst.operand))
        [] inst.kind = "binary" ->
             IF inst.op = "/" /\ inst.type = "int32" /\ ~Divides(val(inst.left), val(inst.right))
             THEN [s EXCEPT !.outcome = "divide error"]
             ELSE Defines(s, inst.result,
                          Computed(inst.op, inst.type, val(inst.left), val(inst.right)))
        [] inst.kind = "convert" ->
             Defines(s, inst.result, Converted(inst.how, inst.from, val(inst.input)))
        [] inst.kind = "print" ->
             [s EXCEPT !.out = @ \o [i \in DOMAIN inst.args |->
                <<"print", Text(ValueType(f.fn, inst.args[i]), val(inst.args[i]))>>]]
        [] inst.kind = "extern" ->
             Defines([s EXCEPT !.out = Append(@,
                        <<"call", PeLibraryName(TheExtern(m, inst.callee).path),
                          inst.callee, Values(f, inst.args)>>)],
                     inst.result, ForeignResult(inst.returns))
        [] inst.kind = "call" ->
             [s EXCEPT !.stack = Append(@,
                NewFrame(TheFunction(m, inst.callee), Values(f, inst.args), inst.result))]

Returned(s, x) ==
  LET popped == [s EXCEPT !.stack = Front(@)]
  IN  IF Len(s.stack) > 1 THEN Defines(popped, Last(s.stack).result, x)
      ELSE [s EXCEPT !.outcome = "exit",
                     !.code = IF Last(s.stack).fn.returns = "void" THEN 0 ELSE x]

Terminated(s, f, term) ==
  LET goto(b) == [s EXCEPT !.stack[Len(s.stack)].block = b, !.stack[Len(s.stack)].at = 1]
  IN  CASE term.kind = "return" -> Returned(s, IF term.value = None THEN 0 ELSE f.value[term.value])
        [] term.kind = "branch" -> goto(term.target)
        [] term.kind = "cond" -> goto(IF f.value[term.value] = 1 THEN term.then ELSE term.else)
        [] term.kind = "unreachable" -> Returned(s, 0)

VirStep(m, s) ==
  LET f == Last(s.stack)
      b == TheBlock(f.fn, f.block)
  IN  IF f.at > Len(b.code) THEN Terminated(s, f, b.term)
      ELSE Executed(m, [s EXCEPT !.stack[Len(s.stack)].at = @ + 1], f, b.code[f.at])

RECURSIVE VirSteps(_, _, _)
VirSteps(m, s, log) ==
  CASE s.outcome # "running" -> s
    [] s.outcome = "running" /\ log = 0 -> VirStep(m, s)
    [] OTHER -> VirSteps(m, VirSteps(m, s, log - 1), log - 1)

(* The output, the outcome and the exit code after at most 2^fuel steps.   *)
Summary(end) == <<end.out, end.outcome, end.code>>
VirRun(m, fuel) == Summary(VirSteps(m, Start(m), fuel))
=============================================================================
