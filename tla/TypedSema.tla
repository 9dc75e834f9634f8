------------------------------ MODULE TypedSema ------------------------------
(***************************************************************************)
(* Types in semantic analysis (src/sema.cpp): analyzeExpr and what it      *)
(* calls, the statements that check or infer types, and the return types   *)
(* that are inferred function by function, in the order of the program.    *)
(*                                                                         *)
(* Analysis yields the tree with the type of every expression in it.  The  *)
(* types are those that VIR knows, and "int64" for the many that only the  *)
(* front end knows.                                                        *)
(***************************************************************************)
EXTENDS TypedVir

RECURSIVE Analyzed(_, _), AnalyzedBody(_, _), AlwaysReturns(_)

LiteralExpr(type, x) == [kind |-> "literal", literal |-> <<type, x>>]
VariableExpr(x) == [kind |-> "variable", name |-> x]
UnaryExpr(op, x) == [kind |-> "unary", op |-> op, right |-> x]
BinaryExpr(op, l, r) == [kind |-> "binary", op |-> op, left |-> l, right |-> r]
CallExpr(f, args) == [kind |-> "call", callee |-> f, args |-> args]
MemberCallExpr(x, method) == [kind |-> "member", object |-> x, method |-> method]

VarDeclStmt(type, x, e) == [kind |-> "declare", type |-> type, name |-> x, expr |-> e]
AssignStmt(x, e) == [kind |-> "assign", name |-> x, expr |-> e]
ExprStmt(e) == [kind |-> "expr", expr |-> e]
ReturnStmt(es) == [kind |-> "return", expr |-> es]     \* a sequence of 0 or 1
IfStmt(c, then, else) == [kind |-> "if", expr |-> c, then |-> then, else |-> else]
WhileStmt(c, body) == [kind |-> "while", expr |-> c, body |-> body]

PrintName == <<"print">>
Error == "<error>"
Var == "var"          \* the declared type of a variable whose type is inferred
Inferred == "infer"   \* the return type of a function that declares none

KnownTypes == {"int32", "int64", "float32", "float64", "bool", "string", "void"}
IntTypes == {"int32", "int64"}
NumericTypes == IntTypes \cup FloatTypes
PrimitiveTypes == NumericTypes \cup {"bool", "string"}

IsAssignable(target, source) ==
  \/ Error \in {target, source}
  \/ target = source
  \/ target = "int64" /\ source = "int32"
  \/ target = "float32" /\ source \in IntTypes
  \/ target = "float64" /\ source \in IntTypes \cup {"float32"}

CommonNumericType(l, r) ==
  CASE "float64" \in {l, r} -> "float64"
    [] "float32" \in {l, r} -> "float32"
    [] "int64" \in {l, r} -> "int64"
    [] OTHER -> "int32"

-----------------------------------------------------------------------------
UnaryType(op, t) ==
  CASE op = "-" /\ t \in NumericTypes -> t
    [] op = "!" /\ t = "bool" -> "bool"
    [] OTHER -> Error

BinaryType(op, l, r) ==
  LET numeric == {l, r} \subseteq NumericTypes
  IN  CASE op \in {"and", "or"} -> IF {l, r} = {"bool"} THEN "bool" ELSE Error
        [] op = "+" /\ {l, r} = {"string"} -> "string"
        [] op \in {"+", "-", "*", "/"} -> IF numeric THEN CommonNumericType(l, r) ELSE Error
        [] op \in {"<", "<=", ">", ">="} -> IF numeric THEN "bool" ELSE Error
        [] op \in {"==", "!="} -> IF numeric \/ (l = r /\ l # Error) THEN "bool" ELSE Error

(* What a text must look like for a conversion of a string literal.        *)
Digitlike(s) == s # << >> /\ \A k \in DOMAIN s : IsDigit(s[k])
IsIntText(s) == Digitlike(s) \/ (Negative(s) /\ Digitlike(Tail(s)))
IsFloatText(s) ==
  \/ IsIntText(s)
  \/ \E k \in DOMAIN s : /\ s[k] = Dot
                         /\ IsIntText(SubSeq(s, 1, k - 1)) /\ Digitlike(SubSeq(s, k + 1, Len(s)))
IsBoolText(s) == s \in {TextTrue, TextFalse}

(* The result type and the kind of a conversion, by method and receiver.   *)
NoConversion == [type |-> Error, how |-> "None"]
ConversionOf(method, from) ==
  LET to(type, how, receivers) ==
        IF from \in receivers THEN [type |-> type, how |-> how] ELSE NoConversion
      scalars == {"int32", "string"} \cup FloatTypes
  IN  CASE method = "ToString" -> to("string", "ToString", PrimitiveTypes)
        [] method = "ToInt32" ->
             to("int32", CASE from = "string" -> "ToInt32FromStringParse"
                           [] from \in FloatTypes -> "ToInt32FromFloatTruncateTowardZero"
                           [] from = "bool" -> "ToInt32FromBool"
                           [] OTHER -> "ToInt32Identity", scalars \cup {"bool"})
        [] method = "ToFloat32" -> to("float32", "ToFloat32", scalars)
        [] method = "ToFloat64" -> to("float64", "ToFloat64", scalars)
        [] method = "ToBool" -> to("bool", "ToBool", scalars \cup {"bool"})
        [] method \in {"Round", "Floor", "Ceil"} -> to(from, method, FloatTypes)

LiteralConverts(method, x) ==
  x.kind = "literal" /\ x.literal[1] = "string" =>
    CASE method = "ToInt32" -> IsIntText(x.literal[2])
      [] method \in {"ToFloat32", "ToFloat64"} -> IsFloatText(x.literal[2])
      [] method = "ToBool" -> IsBoolText(x.literal[2])
      [] OTHER -> TRUE

-----------------------------------------------------------------------------
(* The environment is [scopes, functions, current, returns, inferred, ok]: *)
(* the types of the variables, innermost scope last; the functions as far  *)
(* as they are known; the name and the return type of the current one, and *)
(* the types of its return statements so far; and whether all is well.     *)
TypeOfName(x, env) ==
  LET holders == {d \in DOMAIN env.scopes : x \in DOMAIN env.scopes[d]}
  IN  IF holders = {} THEN Error ELSE env.scopes[Max(holders)][x]

Typed(node, type, ok) == node @@ [type |-> type, ok |-> ok /\ type # Error]

Takes(signature, args) ==
  /\ Len(args) = Len(signature.params)
  /\ \A k \in DOMAIN args : IsAssignable(signature.params[k], args[k].type)

AnalyzedCall(e, args, env) ==
  LET call == [e EXCEPT !.args = args]
      fine == \A k \in DOMAIN args : args[k].ok
  IN  CASE e.callee = PrintName ->
             Typed(call, "void", fine /\ Len(args) = 1 /\ args[1].type # "void")
        [] e.callee \notin DOMAIN env.functions -> Typed(call, Error, FALSE)
        [] env.returns = Inferred /\ e.callee = env.current -> Typed(call, Error, FALSE)
        [] OTHER -> LET signature == env.functions[e.callee]
                    IN  Typed(call, signature.returns, fine /\ Takes(signature, args))

(* The operands are analyzed before the expression that they belong to.    *)
AnalyzedUnary(e, x) == Typed([e EXCEPT !.right = x], UnaryType(e.op, x.type), x.ok)
AnalyzedBinary(e, l, r) ==
  Typed([e EXCEPT !.left = l, !.right = r], BinaryType(e.op, l.type, r.type), l.ok /\ r.ok)
AnalyzedMember(e, x, conversion) ==
  Typed([e EXCEPT !.object = x] @@ [how |-> conversion.how], conversion.type,
        x.ok /\ LiteralConverts(e.method, e.object))
Converting(e, x) == AnalyzedMember(e, x, ConversionOf(e.method, x.type))

Analyzed(e, env) ==
  CASE e.kind = "literal" -> Typed(e, e.literal[1], TRUE)
    [] e.kind = "variable" -> Typed(e, TypeOfName(e.name, env), TRUE)
    [] e.kind = "unary" -> AnalyzedUnary(e, Analyzed(e.right, env))
    [] e.kind = "binary" -> AnalyzedBinary(e, Analyzed(e.left, env), Analyzed(e.right, env))
    [] e.kind = "call" -> AnalyzedCall(e, [k \in DOMAIN e.args |-> Analyzed(e.args[k], env)], env)
    [] e.kind = "member" -> Converting(e, Analyzed(e.object, env))

-----------------------------------------------------------------------------
(* A statement: its analyzed form and the environment after it.  All but   *)
(* return statements have one expression, which is analyzed first.         *)
After(stmt, env, ok) == [stmt |-> stmt, env |-> [env EXCEPT !.ok = @ /\ ok]]

Declared(env, x, type) ==
  [env EXCEPT !.scopes[Len(env.scopes)] = (x :> type) @@ @,
              !.ok = @ /\ x \notin DOMAIN Last(env.scopes)]

AnalyzedDeclare(s, e, env) ==
  LET type == IF s.type # Var THEN s.type ELSE IF e.type = "void" THEN Error ELSE e.type
  IN  After([s EXCEPT !.expr = e, !.type = type], Declared(env, s.name, type),
            /\ e.ok /\ type \in KnownTypes /\ IsAssignable(type, e.type))

AnalyzedAssign(s, e, env) ==
  LET type == TypeOfName(s.name, env)
  IN  After([s EXCEPT !.expr = e], env, e.ok /\ type # Error /\ IsAssignable(type, e.type))

AnalyzedReturn(s, es, env) ==
  LET type == IF es = << >> THEN "void" ELSE es[1].type
      fine == \A k \in DOMAIN es : es[k].ok
      stmt == [s EXCEPT !.expr = es]
  IN  CASE env.returns = Inferred -> After(stmt, [env EXCEPT !.inferred = Append(@, type)], fine)
        [] env.returns = "void" -> After(stmt, env, es = << >>)
        [] OTHER -> After(stmt, env, es # << >> /\ fine /\ IsAssignable(env.returns, type))

(* A body in a scope of its own.                                           *)
Left(inner, env) == [inner EXCEPT !.env.scopes = env.scopes]
Nested(body, env) == Left(AnalyzedBody(body, [env EXCEPT !.scopes = Append(@, << >>)]), env)

IsCondition(e) == e.ok /\ e.type = "bool"
AnalyzedElse(s, e, then, else) ==
  After([s EXCEPT !.expr = e, !.then = then.body, !.else = else.body], else.env, IsCondition(e))
AnalyzedThen(s, e, then) == AnalyzedElse(s, e, then, Nested(s.else, then.env))
AnalyzedWhile(s, e, inner) ==
  After([s EXCEPT !.expr = e, !.body = inner.body], inner.env, IsCondition(e))

AnalyzedOn(s, e, env) ==
  CASE s.kind = "declare" -> AnalyzedDeclare(s, e, env)
    [] s.kind = "expr" -> After([s EXCEPT !.expr = e], env, e.ok)
    [] s.kind = "assign" -> AnalyzedAssign(s, e, env)
    [] s.kind = "if" -> AnalyzedThen(s, e, Nested(s.then, env))
    [] s.kind = "while" -> AnalyzedWhile(s, e, Nested(s.body, env))

AnalyzedStatement(s, env) ==
  IF s.kind = "return"
  THEN AnalyzedReturn(s, [k \in DOMAIN s.expr |-> Analyzed(s.expr[k], env)], env)
  ELSE AnalyzedOn(s, Analyzed(s.expr, env), env)

AnalyzedBody(body, env) ==
  LET add(done, next) == [body |-> Append(done.body, next.stmt), env |-> next.env]
  IN  FoldLeft(LAMBDA done, s : add(done, AnalyzedStatement(s, done.env)),
               [body |-> << >>, env |-> env], body)

AlwaysReturns(body) ==
  \E k \in DOMAIN body :
    \/ body[k].kind = "return"
    \/ body[k].kind = "if" /\ AlwaysReturns(body[k].then) /\ AlwaysReturns(body[k].else)

(* unifyTypesForInference, over the return statements of a function.       *)
Unified(s, t) ==
  CASE s = t -> s
    [] {s, t} \subseteq NumericTypes -> CommonNumericType(s, t)
    [] OTHER -> Error
InferredReturnType(types) ==
  IF types = << >> THEN "void" ELSE FoldLeft(Unified, types[1], Tail(types))

-----------------------------------------------------------------------------
(* A program is [imports, externs, functions], with functions of the form  *)
(* [name, params, returns, body] and parameters of the form [type, name].  *)
(* What functions are known to be before any is analyzed; one without a    *)
(* return type counts as void until its turn has come.                     *)
Registered(program) ==
  LET own == program.functions
      declared(name) == own[CHOOSE k \in DOMAIN own : own[k].name = name]
      signature(f) == [params |-> [k \in DOMAIN f.params |-> f.params[k].type],
                       returns |-> IF f.returns = Inferred THEN "void" ELSE f.returns]
  IN  [name \in {own[k].name : k \in DOMAIN own} |-> signature(declared(name))]
      @@ [name \in {x.name : x \in ToSet(program.externs)} |->
            LET x == TheExtern(program, name) IN [params |-> x.params, returns |-> x.returns]]

(* What function f starts with, and what is known once its body is done:   *)
(* its tree, with its return type, the functions known from now on, and    *)
(* whether it is accepted.                                                 *)
AtEntry(f, known) ==
  LET index(x) == CHOOSE k \in DOMAIN f.params : f.params[k].name = x
  IN  [scopes |-> <<[x \in {p.name : p \in ToSet(f.params)} |-> f.params[index(x)].type]>>,
       functions |-> known, current |-> f.name, returns |-> f.returns, inferred |-> << >>,
       ok |-> TRUE]

(* Mutant: an inferred return type is not made known.                      *)
MutConcluded(f, known, done, returns) ==
  [function |-> [f EXCEPT !.body = done.body, !.returns = returns],
   known |-> known,
   ok |-> done.env.ok /\ returns \in KnownTypes /\ (returns = "void" \/ AlwaysReturns(f.body))]

Concluded(f, known, done, returns) ==
  [function |-> [f EXCEPT !.body = done.body, !.returns = returns],
   known |-> [known EXCEPT ![f.name].returns = returns],
   ok |-> done.env.ok /\ returns \in KnownTypes /\ (returns = "void" \/ AlwaysReturns(f.body))]

(* Function f analyzed against the functions known.                        *)
AnalyzedFunction(f, known) ==
  LET conclude(done) ==
        Concluded(f, known, done,
                  IF f.returns = Inferred THEN InferredReturnType(done.env.inferred) ELSE f.returns)
  IN  conclude(AnalyzedBody(f.body, AtEntry(f, known)))
=============================================================================
