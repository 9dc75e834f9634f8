---------------------------- MODULE TypedPrograms ----------------------------
(***************************************************************************)
(* The typed programs that the runs of the front end and of the native     *)
(* code generator share, in families by what they exercise.                *)
(***************************************************************************)
EXTENDS Parser, TypedLowering

MCLowered == "X" :> "x"

Lit(type, x) == LiteralExpr(type, x)
Num(x) == Lit("int32", x)
Txt(s) == Lit("string", s)
V(x) == VariableExpr(<<x>>)
DeclareVar(type, x, e) == VarDeclStmt(type, <<x>>, e)
AssignVar(x, e) == AssignStmt(<<x>>, e)
Neg(e) == UnaryExpr("-", e)
Do(f, args) == ExprStmt(CallExpr(f, args))
Show(e) == Do(PrintName, <<e>>)
Give(e) == ReturnStmt(<<e>>)
F == <<"f">>
G == <<"g">>

FunctionDecl(name, params, returns, body) ==
  [name |-> name, params |-> params, returns |-> returns, body |-> body]
P(type, x) == [type |-> type, name |-> <<x>>]
MainOf(body) == FunctionDecl(Main, << >>, "int32", Append(body, Give(Num(3))))
ProgramOf(externs, fns) ==
  [EmptyProgram EXCEPT !.imports = [k \in DOMAIN externs |-> externs[k].path],
                       !.externs = externs, !.functions = fns]
Plain(body) == ProgramOf(<< >>, <<MainOf(body)>>)
With(f, body) == ProgramOf(<< >>, <<f, MainOf(body)>>)
Before(f, body) == ProgramOf(<< >>, <<MainOf(body), f>>)

(* A literal or two of every type: 7, 2, 1.5f, 2.5, true, "12".            *)
Twelve == <<Zero + 1, Zero + 2>>
Literals == {Num(7), Num(2), Lit("float32", 3), Lit("float64", 5), Lit("bool", 1), Txt(Twelve)}
Ops == {"+", "-", "*", "/", "==", "!=", "<", "<=", ">", ">=", "and", "or"}
Methods == {"ToString", "ToInt32", "ToFloat32", "ToFloat64", "ToBool", "Round", "Floor", "Ceil"}

Operations ==
  {Plain(<<Show(BinaryExpr(op, l, r))>>) : op \in Ops, l \in Literals, r \in Literals}

(* Arithmetic at its limits, the limit being 100.                          *)
Extremes ==
  {Plain(<<Show(BinaryExpr(op, l, r))>>) :
     op \in {"+", "-", "*", "/"}, l \in {Num(99), BinaryExpr("-", Neg(Num(99)), Num(1))},
     r \in {Num(0), Num(3), Neg(Num(1))}}
  \cup {Plain(<<Show(BinaryExpr(op, Lit("bool", x), Lit("bool", y)))>>) :
          op \in {"and", "or", "==", "!="}, x \in {0, 1}, y \in {0, 1}}
  \cup {Plain(<<Show(BinaryExpr(op, x, y))>>) :
          op \in Ops \ {"and", "or"}, x \in {Neg(Num(7)), Neg(Num(2))}, y \in {Num(2), Lit("float64", 5)}}

Texts == {<< >>, <<Minus, Zero + 4>>, <<Zero + 1, Dot, Zero + 5>>, TextTrue, TextFalse, <<65>>,
          <<Zero>>, <<Zero + 1>>, <<84, 114, 117, 101>>}
Conversions ==
  {Plain(<<Show(MemberCallExpr(x, m))>>) :
     x \in Literals \cup {Lit("float64", 6), Lit("float64", 0), Lit("float32", 7), Lit("bool", 0),
                          Num(0), Neg(Num(7))}, m \in Methods}
  \cup {Plain(<<DeclareVar("string", "s", Txt(t)), Show(MemberCallExpr(V("s"), m))>>) :
          t \in Texts, m \in {"ToString", "ToInt32", "ToFloat32", "ToFloat64", "ToBool"}}
  \cup {Plain(<<Show(MemberCallExpr(Txt(t), m))>>) :
          t \in Texts, m \in {"ToInt32", "ToFloat64", "ToBool"}}
  \cup {Plain(<<Show(UnaryExpr(op, x))>>) : op \in {"-", "!"}, x \in Literals}

Declarations ==
  {Plain(<<DeclareVar(t, "x", l), Show(V("x")), Show(BinaryExpr("==", V("x"), V("x")))>>) :
     t \in {"int32", "int64", "float32", "float64", "bool", "string", "void", Var}, l \in Literals}
  \cup {Plain(<<DeclareVar(Var, "x", l), AssignVar("x", r), Show(V("x"))>>) :
          l \in Literals, r \in Literals}

Sixth(e) == BinaryExpr("/", e, Num(2))
Parameters ==
  {With(FunctionDecl(F, <<P(t, "p")>>, r, <<Give(V("p"))>>), <<Show(CallExpr(F, <<a>>))>>) :
     t \in {"int32", "float32", "float64", "string"}, a \in Literals,
     r \in {"int32", "float32", "float64", "string", "void", Inferred}}
  \cup {With(FunctionDecl(F, <<P("int32", "p"), P("float64", "q")>>, "float64",
                 <<Give(BinaryExpr("-", V("p"), V("q")))>>),
             <<Show(CallExpr(F, args))>>) :
          args \in {<<a, b>> : a \in {Num(7)}, b \in Literals} \cup {<<Num(2)>>, << >>}}

(* Two returns, and calls that come before and after the function.         *)
ReturnTypes ==
  {build[k] : k \in {1, 2, 3}, build \in
     {LET f == FunctionDecl(F, <<P("bool", "c")>>, Inferred,
                            <<IfStmt(V("c"), <<Give(a)>>, << >>), Give(b)>>)
      IN  <<With(f, <<Show(Sixth(CallExpr(F, <<Lit("bool", 1)>>)))>>),
            With(f, <<Do(F, <<Lit("bool", 1)>>)>>),
            Before(f, <<Do(F, <<Lit("bool", 0)>>)>>)>> : a \in Literals, b \in Literals}}
  \cup {Before(FunctionDecl(F, << >>, r, <<Give(Num(7))>>), body) :
          r \in {"int32", "float64", Inferred},
          body \in {<<Show(CallExpr(F, << >>))>>, <<DeclareVar("void", "x", CallExpr(F, << >>))>>,
                    <<DeclareVar("float64", "x", CallExpr(F, << >>)), Show(Sixth(V("x")))>>,
                    <<Show(BinaryExpr("==", CallExpr(F, << >>), CallExpr(F, << >>)))>>}}
  \cup {ProgramOf(<< >>, <<FunctionDecl(G, << >>, r, <<Give(CallExpr(F, << >>))>>),
                           FunctionDecl(F, << >>, s, <<Give(Num(7))>>),
                           MainOf(<<Show(BinaryExpr("/", CallExpr(G, << >>), Lit("float64", 5)))>>)>>) :
          r \in {"int32", "float64", Inferred}, s \in {"int32", Inferred}}
  \cup {ProgramOf(<< >>, <<FunctionDecl(G, << >>, Inferred, <<Give(CallExpr(F, << >>))>>),
                           FunctionDecl(F, << >>, s, body), MainOf(<<Do(G, << >>)>>)>>) :
          s \in {Inferred, "void"}, body \in {<< >>, <<Give(Num(7))>>}}
  \cup {With(FunctionDecl(F, << >>, "void", << >>),
             <<Show(BinaryExpr("==", CallExpr(F, << >>), CallExpr(F, << >>)))>>)}

(* A countdown, a recursion, bodies that shadow, and ones that return.     *)
Countdown(n) ==
  <<DeclareVar("int32", "i", Num(n)),
    WhileStmt(BinaryExpr(">", V("i"), Num(0)),
              <<DeclareVar("float64", "h", V("i")), Show(Sixth(V("h"))),
                AssignVar("i", BinaryExpr("-", V("i"), Num(1)))>>),
    Show(V("i"))>>
Factorial(returns) ==
  FunctionDecl(F, <<P("int32", "n")>>, returns,
    <<IfStmt(BinaryExpr("<=", V("n"), Num(1)), <<Give(Num(1))>>,
             <<Give(BinaryExpr("*", V("n"),
                 CallExpr(F, <<BinaryExpr("-", V("n"), Num(1))>>)))>>)>>)
Control ==
  {Plain(Countdown(n)) : n \in 0 .. 2}
  \cup {With(Factorial(r), <<Show(CallExpr(F, <<Num(n)>>))>>) : r \in {"int32", Inferred}, n \in {0, 3}}
  \cup {Plain(<<DeclareVar("int32", "x", Num(7)),
                IfStmt(BinaryExpr(op, V("x"), Num(7)),
                       <<DeclareVar("string", "x", Txt(<<65>>)), Show(V("x"))>>,
                       <<AssignVar("x", Num(2))>>),
                Show(V("x"))>>) : op \in {"==", "<"}}
  \cup {With(FunctionDecl(F, <<P("float64", "d")>>, "void",
               <<IfStmt(BinaryExpr(">=", V("d"), Num(2)), <<ReturnStmt(<< >>)>>, << >>), Show(V("d"))>>),
             <<Do(F, <<x>>)>>) : x \in Literals}
  \cup {Plain(<<Show(BinaryExpr("+", BinaryExpr("+", Txt(<<65>>), Txt(t)),
                                MemberCallExpr(Num(7), "ToString")))>>) : t \in {<< >>, <<66, 66>>}}
  \cup {Plain(<<Show(BinaryExpr("==", BinaryExpr("+", Txt(<<65>>), Txt(t)), Txt(<<65, 66>>)))>>) :
          t \in {<<65>>, <<66>>}}
  \cup {With(FunctionDecl(F, <<P("int32", "p")>>, "bool", <<Show(V("p")), Give(Lit("bool", r))>>),
             <<Show(BinaryExpr(op, CallExpr(F, <<Num(7)>>), CallExpr(F, <<Num(2)>>)))>>) :
          op \in {"and", "or"}, r \in {0, 1}}

Extern(name, path, params, returns) ==
  [name |-> name, path |-> path, params |-> params, returns |-> returns]
Foreigners ==
  {ProgramOf(<<Extern(F, path, <<"int32", "string", "float64">>, r)>>,
             <<MainOf(<<IF r = "void" THEN Do(F, <<Num(7), Txt(Twelve), Num(2)>>)
                        ELSE Show(CallExpr(F, <<Num(7), Txt(Twelve), Lit("float32", 3)>>))>>)>>) :
     r \in {"void", "int32", "float64", "bool", "string"},
     path \in {<<"lib", "/", "X", ".", "dll">>, <<"lib", "m", ".", "so">>, <<"x", ".", "lib">>}}
  \cup {ProgramOf(<<Extern(F, <<"x", ".", "dll">>, << >>, "int32"),
                    Extern(G, path, <<"int32">>, "int32")>>,
             <<MainOf(<<Show(CallExpr(G, <<CallExpr(F, << >>)>>))>>)>>) :
          path \in {<<"X", ".", "lib">>, <<"y", ".", "dll">>, <<"lib", "x", ".", "dll", ".", "a">>}}
  \* two different functions of two libraries, whose names join to the same label
  \cup {ProgramOf(<<Extern(<<"dll", "_", "f">>, <<"x", ".", "dll">>, << >>, "int32"),
                    Extern(F, <<"x", ".", "dll", ".", "dll">>, << >>, "int32")>>,
             <<MainOf(<<Show(CallExpr(F, << >>))>>)>>)}

(* What the native code generator turns down.                              *)
Odd ==
  {ProgramOf(<< >>, <<FunctionDecl(Main, params, r, body)>>) :
     params \in {<< >>, <<P("int32", "a")>>}, r \in {"void", "float64", Inferred},
     body \in {<<Show(Num(7))>>, <<Give(Num(7))>>}}
  \cup {ProgramOf(<< >>, <<FunctionDecl(F, << >>, "void", << >>)>>)}
  \cup {With(FunctionDecl(F, [k \in 1 .. n |-> P("int32", <<"a", "b", "c", "d", "e">>[k])], "int32",
                          <<Give(V("a"))>>),
             <<Show(CallExpr(F, [k \in 1 .. n |-> Num(k)]))>>) : n \in {4, 5}}
  \cup {ProgramOf(<<Extern(G, <<"x", ".", "dll">>, [k \in 1 .. 5 |-> "int32"], "int32")>>,
             <<MainOf(<<Show(CallExpr(G, [k \in 1 .. 5 |-> Num(k)]))>>)>>)}

AllPrograms ==
  Operations \cup Extremes \cup Conversions \cup Declarations \cup Parameters \cup ReturnTypes
  \cup Control \cup Foreigners \cup Odd

-----------------------------------------------------------------------------
(* The front end as a function: the program analyzed, and its VIR.         *)
Analysis(program) ==
  LET add(done, next) == [trees |-> Append(done.trees, next.function),
                          known |-> next.known, ok |-> done.ok /\ next.ok]
  IN  FoldLeft(LAMBDA done, f : add(done, AnalyzedFunction(f, done.known)),
               [trees |-> << >>, known |-> Registered(program), ok |-> TRUE], program.functions)

Compilation(program, analysis) ==
  LET gather(lowered) ==
        [ok |-> \A k \in DOMAIN lowered : lowered[k].ok,
         module |-> [imports |-> program.imports, externs |-> program.externs,
                     functions |-> [k \in DOMAIN lowered |-> lowered[k].function]]]
      all(signatures) == [k \in DOMAIN analysis.trees |->
                            LoweredFunction(analysis.trees[k], signatures)]
  IN  IF analysis.ok /\ SignaturesKnown(analysis.trees, program.externs)
      THEN gather(all(SignaturesOf(analysis.trees, program.externs)))
      ELSE [ok |-> FALSE]

Compiled(programs) ==
  {c.module : c \in {d \in {Compilation(p, Analysis(p)) : p \in programs} : d.ok}}

(* Whether a module compares values of the given types for equality.       *)
ComparesForEquality(m, types) ==
  \E k \in DOMAIN m.functions :
    \E inst \in ToSet(Code(m.functions[k])) :
      /\ inst.kind = "binary" /\ inst.op \in {"==", "!="}
      /\ ValueType(m.functions[k], inst.left) \in types
=============================================================================
