---------------------------- MODULE TypedLowering ----------------------------
(***************************************************************************)
(* Types in lowering (src/lowering.cpp): what code an analyzed expression  *)
(* becomes, where a value is converted, and the typed functions that come  *)
(* out.  Control flow with break, continue and code that is skipped is in  *)
(* Lowering; here statements only carry expressions to their places.       *)
(*                                                                         *)
(* The state of the walk is [blocks, current, next, locals, scopes,        *)
(* signatures, returns, ok]: next is the next value, locals the type of    *)
(* each local, scopes the local that each name means, innermost last, and  *)
(* ok is FALSE once a diagnostic has been reported.                        *)
(***************************************************************************)
EXTENDS TypedSema

RECURSIVE LoweredExpr(_, _), LoweredBody(_, _)

VirTypes == {"void", "int32", "float32", "float64", "bool", "string"}
TypeFromString(t) == IF t \in VirTypes THEN t ELSE "void"

Failed(s) == [s EXCEPT !.ok = FALSE]
Check(s, fine) == [s EXCEPT !.ok = @ /\ fine]

(* What an expression leaves: the state, its type, and its value, if any.  *)
Value(s, type, v) == [s |-> s, type |-> type, value |-> v]
NoValue(s) == Value(s, "void", None)

Missing == [kind |-> "missing"]
CurrentBlock(s) == s.blocks[s.current + 1]
HasTerminator(s) == CurrentBlock(s).term # Missing

EmitInstruction(s, inst) ==
  IF HasTerminator(s) THEN Failed(s)
  ELSE [s EXCEPT !.blocks[s.current + 1].code = Append(@, inst)]

SetTerminator(s, term) ==
  IF HasTerminator(s) THEN Failed(s) ELSE [s EXCEPT !.blocks[s.current + 1].term = term]

(* The instruction for a new value.                                        *)
Produced(s, type, Inst(_)) ==
  Value(EmitInstruction([s EXCEPT !.next = @ + 1], Inst(s.next)), type, s.next)

CreateBlocks(s, n) ==
  [s EXCEPT !.blocks = @ \o [k \in 1 .. n |->
     [id |-> Len(s.blocks) + k - 1, code |-> << >>, term |-> Missing]]]

LookupLocal(s, x) ==
  LET holders == {d \in DOMAIN s.scopes : x \in DOMAIN s.scopes[d]}
  IN  IF holders = {} THEN None ELSE s.scopes[Max(holders)][x]

DeclareLocal(s, x, type) ==
  IF x \in DOMAIN Last(s.scopes) THEN Failed(s)
  ELSE [s EXCEPT !.locals = Append(@, type),
                 !.scopes[Len(s.scopes)] = (x :> Len(s.locals)) @@ @]

-----------------------------------------------------------------------------
(* castTo without an explicit conversion, and with one.                    *)
(* Mutant: no conversion from float32 to float64.                          *)
MutImplicitConversion(from, to) ==
  IF from = "int32" /\ to = "float32" THEN "ImplicitInt32ToFloat32"
  ELSE IF from = "int32" /\ to = "float64" THEN "ImplicitInt32ToFloat64" ELSE "None"

ImplicitConversion(from, to) ==
  CASE from = "int32" /\ to = "float32" -> "ImplicitInt32ToFloat32"
    [] from = "int32" /\ to = "float64" -> "ImplicitInt32ToFloat64"
    [] from = "float32" /\ to = "float64" -> "ImplicitFloat32ToFloat64"
    [] OTHER -> "None"

CastTo(x, type) ==
  LET how == ImplicitConversion(x.type, type)
  IN  CASE x.value = None -> [x EXCEPT !.type = type]
        [] x.type = type -> x
        [] how = "None" -> Value(Failed(x.s), type, None)
        [] OTHER -> Produced(x.s, type, LAMBDA v : Convert(v, x.value, how, x.type, type))

CastExplicitly(x, type, how) ==
  IF x.value = None THEN NoValue(Failed(x.s))
  ELSE Produced(x.s, type, LAMBDA v : Convert(v, x.value, how, x.type, type))

(* The type that both operands of a binary operation get.                  *)
OperandType(op, result, l, r) ==
  CASE op \in {"and", "or"} -> "bool"
    [] op \in {"<", "<=", ">", ">="} -> CommonNumericType(l, r)
    [] op \in {"==", "!="} -> IF {l, r} \subseteq NumericTypes THEN CommonNumericType(l, r) ELSE l
    [] OTHER -> result

UnaryOf(e, x) ==
  LET type == TypeFromString(e.type)
  IN  IF x.value = None THEN NoValue(Failed(x.s))
      ELSE Produced(Check(x.s, e.type \in VirTypes), type, LAMBDA v : Unary(v, e.op, x.value, type))
LoweredUnary(e, x) == UnaryOf(e, IF e.op = "!" THEN CastTo(x, "bool") ELSE x)

(* The operands of a binary operation: both are lowered before the first   *)
(* is converted.                                                           *)
BinaryOf(e, left, right) ==
  LET type == TypeFromString(e.type)
  IN  IF None \in {left.value, right.value} THEN NoValue(Failed(right.s))
      ELSE Produced(right.s, type, LAMBDA v : Binary(v, e.op, left.value, right.value, type))
CastRight(e, left, r, operand) == BinaryOf(e, left, CastTo([r EXCEPT !.s = left.s], operand))
CastOperands(e, l, r) ==
  LET operand == OperandType(e.op, TypeFromString(e.type), l.type, r.type)
  IN  CastRight(e, CastTo([l EXCEPT !.s = Check(r.s, e.type \in VirTypes)], operand), r, operand)
LoweredRight(e, l) == CastOperands(e, l, LoweredExpr(e.right, l.s))

(* Mutant: the right operand is lowered, and evaluated, first.             *)
MutLoweredBinary(e, s) ==
  LET r == LoweredExpr(e.right, s)
      l == LoweredExpr(e.left, r.s)
  IN  CastOperands(e, l, [r EXCEPT !.s = l.s])

LoweredBinary(e, s) == LoweredRight(e, LoweredExpr(e.left, s))

(* The arguments of a call, in order: all of them are lowered, and only    *)
(* then converted to the types of the parameters.                          *)
WithValue(done, x) == [s |-> x.s, values |-> Append(done.values, x)]
LoweredArgs(args, s) ==
  FoldLeft(LAMBDA done, a : WithValue(done, LoweredExpr(a, done.s)), [s |-> s, values |-> << >>], args)

(* Mutant: arguments are passed as they come.                              *)
MutCastArgs(args, types) == args

CastArgs(args, types) ==
  FoldLeftDomain(LAMBDA done, k :
                   WithValue(done, CastTo([args.values[k] EXCEPT !.s = done.s], types[k])),
                 [s |-> args.s, values |-> << >>], args.values)

Ids(args) == [k \in DOMAIN args.values |-> args.values[k].value]

CallOf(e, signature, args) ==
  LET returns == signature.returns
      Inst(v) == IF signature.extern THEN CallExtern(v, e.callee, Ids(args), returns)
                 ELSE Call(v, e.callee, Ids(args), returns)
  IN  CASE None \in Range(Ids(args)) -> NoValue(Failed(args.s))
        [] returns = "void" -> NoValue(EmitInstruction(args.s, Inst(None)))
        [] OTHER -> Produced(args.s, returns, Inst)

CallWith(e, args) ==
  CASE e.callee = PrintName ->
         IF None \in Range(Ids(args)) THEN NoValue(Failed(args.s))
         ELSE NoValue(EmitInstruction(args.s, PrintCall(Ids(args))))
    [] e.callee \notin DOMAIN args.s.signatures -> NoValue(Failed(args.s))
    [] OTHER -> LET signature == args.s.signatures[e.callee]
                IN  CallOf(e, signature, CastArgs(args, signature.params))

LoweredCall(e, s) == CallWith(e, LoweredArgs(e.args, s))

LoweredVariable(e, s) ==
  LET local == LookupLocal(s, e.name)
  IN  IF local = None THEN NoValue(Failed(s))
      ELSE Produced(s, s.locals[local + 1], LAMBDA v : Load(v, local, s.locals[local + 1]))

LoweredExpr(e, s) ==
  CASE e.kind = "literal" ->
         LET x == IF e.type = "int32" THEN Wrap(e.literal[2]) ELSE e.literal[2]
         IN  Produced(s, e.type, LAMBDA v : Constant(v, e.type, x))
    [] e.kind = "variable" -> LoweredVariable(e, s)
    [] e.kind = "unary" -> LoweredUnary(e, LoweredExpr(e.right, s))
    [] e.kind = "binary" -> LoweredBinary(e, s)
    [] e.kind = "call" -> LoweredCall(e, s)
    [] e.kind = "member" ->
         CastExplicitly(LoweredExpr(e.object, s), TypeFromString(e.type), e.how)

-----------------------------------------------------------------------------
StoreIn(local, x) ==
  IF x.value = None THEN x.s ELSE EmitInstruction(x.s, Store(local, x.value, x.type))

(* The local is declared, and visible, before its initializer is lowered.  *)
LoweredDeclare(stmt, s) ==
  LET type == TypeFromString(stmt.type)
      initialize(declared) ==
        StoreIn(LookupLocal(declared, stmt.name), CastTo(LoweredExpr(stmt.expr, declared), type))
  IN  initialize(DeclareLocal(Check(s, stmt.type \in VirTypes), stmt.name, type))

LoweredAssign(stmt, s) ==
  LET local == LookupLocal(s, stmt.name)
  IN  IF local = None THEN Failed(s)
      ELSE StoreIn(local, CastTo(LoweredExpr(stmt.expr, s), s.locals[local + 1]))

ReturnOf(x) ==
  SetTerminator(x.s, IF x.s.returns = "void" \/ x.value = None THEN Return(None, "void")
                     ELSE Return(x.value, x.type))
LoweredReturn(stmt, s) ==
  IF stmt.expr = << >> THEN SetTerminator(Check(s, s.returns = "void"), Return(None, "void"))
  ELSE ReturnOf(CastTo(LoweredExpr(stmt.expr[1], s), s.returns))

(* A body in block b and in a scope of its own; control goes on to next.   *)
LoweredInto(b, body, s, next) ==
  LET close(done) == [done EXCEPT !.scopes = s.scopes]
      goOn(done) == IF HasTerminator(done) THEN done ELSE SetTerminator(done, Branch(next))
  IN  goOn(close(LoweredBody(body, [s EXCEPT !.current = b, !.scopes = Append(@, << >>)])))

(* The condition has been lowered; its blocks are the next to be created.  *)
LoweredBranches(stmt, cond) ==
  LET then == Len(cond.s.blocks)
      merge == then + 1
      else == IF stmt.else = << >> THEN merge ELSE then + 2
      split == SetTerminator(CreateBlocks(cond.s, IF stmt.else = << >> THEN 2 ELSE 3),
                             CondBranch(cond.value, then, else))
      elseInto(s) == IF stmt.else = << >> THEN s ELSE LoweredInto(else, stmt.else, s, merge)
  IN  IF cond.value = None THEN Failed(cond.s)
      ELSE [elseInto(LoweredInto(then, stmt.then, split, merge)) EXCEPT !.current = merge]
LoweredIf(stmt, s) == LoweredBranches(stmt, CastTo(LoweredExpr(stmt.expr, s), "bool"))

LoweredLoop(stmt, cond, condition) ==
  LET split == IF cond.value = None
               THEN SetTerminator(Failed(cond.s), Branch(condition + 2))
               ELSE SetTerminator(cond.s, CondBranch(cond.value, condition + 1, condition + 2))
  IN  [LoweredInto(condition + 1, stmt.body, split, condition) EXCEPT !.current = condition + 2]
LoweredWhile(stmt, s) ==
  LET condition == Len(s.blocks)
      entered == SetTerminator(CreateBlocks(s, 3), Branch(condition))
  IN  LoweredLoop(stmt, CastTo(LoweredExpr(stmt.expr, [entered EXCEPT !.current = condition]), "bool"),
                  condition)

LoweredStatement(stmt, s) ==
  CASE stmt.kind = "expr" -> LoweredExpr(stmt.expr, s).s
    [] stmt.kind = "return" -> LoweredReturn(stmt, s)
    [] stmt.kind = "declare" -> LoweredDeclare(stmt, s)
    [] stmt.kind = "assign" -> LoweredAssign(stmt, s)
    [] stmt.kind = "if" -> LoweredIf(stmt, s)
    [] stmt.kind = "while" -> LoweredWhile(stmt, s)

LoweredBody(body, s) ==
  FoldLeft(LAMBDA done, stmt : IF HasTerminator(done) THEN done ELSE LoweredStatement(stmt, done),
           s, body)

-----------------------------------------------------------------------------
(* collectFunctionSignatures, over the analyzed functions.                 *)
SignaturesOf(functions, externs) ==
  LET types(ps) == [k \in DOMAIN ps |-> TypeFromString(ps[k])]
      own(f) == [params |-> types([k \in DOMAIN f.params |-> f.params[k].type]),
                 returns |-> TypeFromString(f.returns), extern |-> FALSE]
      foreign(x) == [params |-> types(x.params), returns |-> TypeFromString(x.returns),
                     extern |-> TRUE]
      named(fs, name) == CHOOSE f \in ToSet(fs) : f.name = name
  IN  [name \in {x.name : x \in ToSet(externs)} |-> foreign(named(externs, name))]
      @@ [name \in {f.name : f \in ToSet(functions)} |-> own(named(functions, name))]

SignaturesKnown(functions, externs) ==
  /\ \A f \in ToSet(functions) :
       f.returns \in VirTypes /\ \A k \in DOMAIN f.params : f.params[k].type \in VirTypes
  /\ \A x \in ToSet(externs) :
       x.returns \in VirTypes /\ \A k \in DOMAIN x.params : x.params[k] \in VirTypes

(* lowerFunction: the function in the VIR, and whether it went well.       *)
AtStart(f, signatures) ==
  FoldLeft(LAMBDA s, p : DeclareLocal(s, p.name, TypeFromString(p.type)),
           CreateBlocks([blocks |-> << >>, current |-> 0, next |-> 0, locals |-> << >>,
                         scopes |-> << << >> >>, signatures |-> signatures,
                         returns |-> TypeFromString(f.returns), ok |-> TRUE], 1),
           f.params)

FunctionOf(f, s) ==
  [function |-> [name |-> f.name, returns |-> s.returns, locals |-> s.locals,
                 params |-> [k \in DOMAIN f.params |-> TypeFromString(f.params[k].type)],
                 blocks |-> s.blocks],
   ok |-> s.ok]

LoweredFunction(f, signatures) ==
  LET end(s) == IF HasTerminator(s) THEN s
                ELSE SetTerminator(s, IF s.returns = "void" THEN Return(None, "void")
                                      ELSE Unreachable)
  IN  FunctionOf(f, end(LoweredBody(f.body, AtStart(f, signatures))))
=============================================================================
