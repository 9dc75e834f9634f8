---------------------------- MODULE TypedMeaning -----------------------------
(***************************************************************************)
(* What a program means, in terms of its source: values carry their types, *)
(* an operation converts its operands to their common type, a variable, a  *)
(* parameter and a result convert what they are given.  Nothing here uses  *)
(* the types that semantic analysis finds, but for the return types of the *)
(* functions, which those that declare none have no other source for.      *)
(*                                                                         *)
(* A run is [scopes, out, outcome, result, fuel]; result holds the value   *)
(* that a return statement has given, if any, and fuel bounds the rounds   *)
(* of loops.                                                               *)
(***************************************************************************)
EXTENDS TypedSema

RECURSIVE Evaluated(_, _, _), Ran(_, _, _), Rounds(_, _, _, _)

Of(type, x) == [type |-> type, x |-> x]
Bool(b) == Of("bool", Truth(b))

Wider(v, type) ==
  IF type \in FloatTypes /\ v.type = "int32" THEN Of(type, 2 * v.x)
  ELSE Of(IF v.type \in FloatTypes THEN type ELSE v.type, v.x)

(* The value of a binary operation; dividing an int32 may have none.       *)
Applied(op, l, r) ==
  LET numeric == {l.type, r.type} \subseteq NumericTypes
      type == IF numeric THEN CommonNumericType(l.type, r.type) ELSE l.type
      x == IF numeric THEN Wider(l, type).x ELSE l.x
      y == IF numeric THEN Wider(r, type).x ELSE r.x
  IN  CASE op = "and" -> Bool(x = 1 /\ y = 1)
        [] op = "or" -> Bool(x = 1 \/ y = 1)
        [] op \in {"==", "!=", "<", "<=", ">", ">="} -> Of("bool", Compared(op, x, y))
        [] OTHER -> Of(type, Computed(op, type, x, y))

NoQuotient(op, l, r) == op = "/" /\ {l.type, r.type} = {"int32"} /\ ~Divides(l.x, r.x)

Negated(op, v) ==
  CASE op = "!" -> Bool(v.x = 0)
    [] v.type = "int32" -> Of("int32", Wrap(-v.x))
    [] OTHER -> Of(v.type, -v.x)

(* What a conversion method answers.                                       *)
Answer(method, v) ==
  LET float == CASE v.type = "string" -> ParsedFloat(v.x)
                 [] v.type \in FloatTypes -> v.x
                 [] OTHER -> 2 * v.x
  IN  CASE method = "ToString" -> Of("string", Text(v.type, v.x))
        [] method = "ToFloat32" -> Of("float32", float)
        [] method = "ToFloat64" -> Of("float64", float)
        [] method = "ToInt32" -> Of("int32", CASE v.type = "string" -> ParsedInt(v.x)
                                               [] v.type \in FloatTypes -> Truncated(v.x)
                                               [] OTHER -> v.x)
        [] method = "ToBool" -> Bool(IF v.type = "string" THEN IsTrueText(v.x) ELSE v.x # 0)
        [] method = "Round" -> Of(v.type, NearestEven(v.x))
        [] method = "Floor" -> Of(v.type, Floored(v.x))
        [] method = "Ceil" -> Of(v.type, Ceiled(v.x))

-----------------------------------------------------------------------------
Running(run) == run.outcome = "running"
Gives(run, v) == [run |-> run, v |-> v]
Nothing == Of("void", 0)

Holder(x, run) == Max({d \in DOMAIN run.scopes : x \in DOMAIN run.scopes[d]})

(* The arguments, from left to right.                                      *)
EvaluatedArgs(args, run, p) ==
  LET add(done, x) == [run |-> x.run, vs |-> Append(done.vs, x.v)]
  IN  FoldLeft(LAMBDA done, a : add(done, Evaluated(a, done.run, p)), [run |-> run, vs |-> << >>],
               args)

Named(fs, name) == CHOOSE f \in ToSet(fs) : f.name = name
IsNamed(fs, name) == \E f \in ToSet(fs) : f.name = name

Answered(f, run, done) ==
  Gives([done EXCEPT !.scopes = run.scopes, !.result = << >>],
        IF f.returns = "void" \/ done.result = << >> THEN Nothing
        ELSE Wider(done.result[1], f.returns))

Invoked(f, vs, run, p) ==
  LET index(x) == CHOOSE k \in DOMAIN f.params : f.params[k].name = x
      frame == [x \in {q.name : q \in ToSet(f.params)} |->
                  Wider(vs[index(x)], f.params[index(x)].type)]
  IN  Answered(f, run, Ran(f.body, [run EXCEPT !.scopes = <<frame>>], p))

Called(e, args, p) ==
  LET x == TheExtern(p, e.callee)
      given == [k \in DOMAIN args.vs |-> Wider(args.vs[k], x.params[k]).x]
      write(event) == [args.run EXCEPT !.out = Append(@, event)]
  IN  CASE ~ Running(args.run) -> Gives(args.run, Nothing)
        [] e.callee = PrintName ->
             Gives(write(<<"print", Text(args.vs[1].type, args.vs[1].x)>>), Nothing)
        [] IsNamed(p.functions, e.callee) ->
             Invoked(Named(p.functions, e.callee), args.vs, args.run, p)
        [] OTHER -> Gives(write(<<"call", PeLibraryName(x.path), e.callee, given>>),
                          Of(x.returns, ForeignResult(x.returns)))

OfUnary(e, x) == IF Running(x.run) THEN Gives(x.run, Negated(e.op, x.v)) ELSE x
OfMember(e, x) == IF Running(x.run) THEN Gives(x.run, Answer(e.method, x.v)) ELSE x
OfBoth(e, l, r) ==
  CASE ~ Running(r.run) -> r
    [] NoQuotient(e.op, l.v, r.v) -> Gives([r.run EXCEPT !.outcome = "divide error"], Nothing)
    [] OTHER -> Gives(r.run, Applied(e.op, l.v, r.v))
OfBinary(e, l, p) == OfBoth(e, l, Evaluated(e.right, l.run, p))

Evaluated(e, run, p) ==
  CASE ~ Running(run) -> Gives(run, Nothing)
    [] e.kind = "literal" -> Gives(run, Of(e.literal[1], e.literal[2]))
    [] e.kind = "variable" -> Gives(run, run.scopes[Holder(e.name, run)][e.name])
    [] e.kind = "unary" -> OfUnary(e, Evaluated(e.right, run, p))
    [] e.kind = "binary" -> OfBinary(e, Evaluated(e.left, run, p), p)
    [] e.kind = "call" -> Called(e, EvaluatedArgs(e.args, run, p), p)
    [] e.kind = "member" -> OfMember(e, Evaluated(e.object, run, p))

-----------------------------------------------------------------------------
(* A statement runs only while nothing has returned or gone wrong.         *)
Going(run) == Running(run) /\ run.result = << >>

InScope(body, run, p) ==
  LET leave(done) == [done EXCEPT !.scopes = SubSeq(@, 1, Len(run.scopes))]
  IN  leave(Ran(body, [run EXCEPT !.scopes = Append(@, << >>)], p))

(* One more round of a loop, if it goes on.                                *)
Round(s, cond, p) ==
  IF ~ Going(cond.run) \/ cond.v.x = 0 THEN [run |-> cond.run, again |-> FALSE]
  ELSE [run |-> InScope(s.body, cond.run, p), again |-> TRUE]
Rounds(s, before, p, log) ==
  CASE ~ (before.again /\ Going(before.run)) -> before
    [] before.again /\ Going(before.run) /\ log = 0 -> Round(s, Evaluated(s.expr, before.run, p), p)
    [] OTHER -> Rounds(s, Rounds(s, before, p, log - 1), p, log - 1)
Looped(s, run, p) == Rounds(s, [run |-> run, again |-> TRUE], p, run.fuel).run

Returning(y) == [y.run EXCEPT !.result = <<y.v>>]

DoneOn(s, x, run, p) ==
  LET d == Holder(s.name, run)
  IN  CASE ~ Running(x.run) \/ s.kind = "expr" -> x.run
        [] s.kind = "declare" ->
             [x.run EXCEPT !.scopes[Len(run.scopes)] =
                (s.name :> IF s.type = Var THEN x.v ELSE Wider(x.v, s.type)) @@ @]
        [] s.kind = "assign" -> [x.run EXCEPT !.scopes[d][s.name] = Wider(x.v, @.type)]
        [] s.kind = "if" -> InScope(IF x.v.x = 1 THEN s.then ELSE s.else, x.run, p)

Done(s, run, p) ==
  CASE s.kind = "return" ->
         IF s.expr = << >> THEN [run EXCEPT !.result = <<Nothing>>]
         ELSE Returning(Evaluated(s.expr[1], run, p))
    [] s.kind = "while" -> Looped(s, run, p)
    [] OTHER -> DoneOn(s, Evaluated(s.expr, run, p), run, p)

Ran(body, run, p) ==
  FoldLeft(LAMBDA done, s : IF Going(done) THEN Done(s, done, p) ELSE done, run, body)

(* The output, the outcome and the exit code of a program.                 *)
Ending(done) ==
  IF Running(done.run) THEN <<done.run.out, "exit", done.v.x>>
  ELSE <<done.run.out, done.run.outcome, 0>>
SourceRun(p, fuel) ==
  Ending(Invoked(Named(p.functions, Main), << >>,
                 [scopes |-> << >>, out |-> << >>, outcome |-> "running", result |-> << >>,
                  fuel |-> fuel], p))
=============================================================================
