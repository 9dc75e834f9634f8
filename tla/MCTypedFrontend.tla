--------------------------- MODULE MCTypedFrontend ---------------------------
(***************************************************************************)
(* The typed programs, which go all the way, and others for the scanner    *)
(* and the parser alone: programs written as the grammar says, with and    *)
(* without what it leaves open, as characters and as tokens, and damaged   *)
(* ones.                                                                   *)
(***************************************************************************)
EXTENDS LlvmBackend, TypedPrograms

MCTypeNames == {"Num", "Vec", "int64", "a", "b", "c"}

SourceText(kind, ts, tree) == [kind |-> kind, text |-> << >>, tokens |-> ts, tree |-> tree]
Whole(kind, p) == SourceText(kind, Docs!Written(p), p)

-----------------------------------------------------------------------------
(* Every operator next to every other, on both sides, and every other kind *)
(* of operand.                                                             *)
A == V("a")
B == V("b")
C == V("c")
Operators == {"or", "and", "==", "!=", "<", "<=", ">", ">=", "+", "-", "*", "/"}
Mixed ==
  {BinaryExpr(o, BinaryExpr(p, A, B), C) : o \in Operators, p \in Operators}
  \cup {BinaryExpr(o, A, BinaryExpr(p, B, C)) : o \in Operators, p \in Operators}
  \cup {BinaryExpr(o, UnaryExpr(u, A), UnaryExpr(v, B)) :
          o \in Operators, u \in {"-", "!"}, v \in {"not", "&", "*"}}
  \cup {UnaryExpr(u, BinaryExpr(o, A, B)) : o \in Operators, u \in {"-", "not"}}
  \cup {UnaryExpr(u, MemberCallExpr(e, "ToString")) : u \in {"-", "*"},
          e \in {A, CallExpr(F, <<A, B>>), BinaryExpr("+", A, B), UnaryExpr("-", A)}}
  \cup {MemberTree(MemberTree(A, F, <<B>>), G, <<C, A>>),
        CallTree(CallTree(A, <<B>>), << >>), CallTree(BinaryExpr("*", A, B), <<UnaryExpr("&", C)>>)}

Statements ==
  {<<ExprStmt(e)>> : e \in Mixed}
  \cup {<<VarDeclStmt(t, <<"x">>, A)>> : t \in {w.type : w \in Docs!WrittenTypes}}
  \cup {<<IfStmt(A, <<BlockStmt(<<JumpStmt("break")>>)>>, else), WhileStmt(B, <<JumpStmt("continue")>>)>> :
          else \in {<< >>, <<AssignVar("a", B), ReturnStmt(<< >>)>>, <<IfStmt(B, << >>, << >>)>>,
                    <<IfStmt(B, << >>, <<IfStmt(C, <<Give(A)>>, <<Give(Txt(Twelve))>>)>>)>>}}

Everything ==
  [imports |-> <<<<"m", ".", "dll">>>>, aliases |-> <<[name |-> <<"Num">>, type |-> "int32[]"]>>,
   structs |-> <<[name |-> <<"Vec">>, fields |-> <<P("float64", "a"), P("Num*", "b")>>],
                 [name |-> <<"c">>, fields |-> << >>]>>,
   externs |-> <<Extern(G, <<"m", ".", "dll">>, <<"Num", "string&">>, "void")>>,
   functions |-> <<FunctionDecl(F, <<P("Vec&", "a"), P("bool", "b")>>, "Num", <<Give(A)>>),
                   FunctionDecl(G, << >>, Inferred, << >>)>>]

InMain(body) == [EmptyProgram EXCEPT !.functions = <<FunctionDecl(Main, << >>, Inferred, body)>>]

(* A text with something put before its token k; one with its imported     *)
(* path between angle brackets; one with a token missing, doubled, or      *)
(* exchanged with the next.                                                *)
InsertedAt(ts, k, more) == SubSeq(ts, 1, k - 1) \o more \o SubSeq(ts, k, Len(ts))
Starts(ts) ==
  {k \in DOMAIN ts : /\ ts[k][1] \in {"struct", "extern", "fn", "type", "var"}
                     /\ k = 1 \/ ts[k - 1][1] # "extern"}
Modified(ts, p) ==
  {SourceText("syntax", InsertedAt(ts, k, <<<<"public">>, <<"const">>>>), p) : k \in Starts(ts)}
Angled(ts, p) ==
  SourceText("syntax", <<<<"import">>, <<"<">>, <<"id", <<"m">>>>, <<".">>, <<"id", <<"dll">>>>, <<">">>>>
                       \o SubSeq(ts, 3, Len(ts)), p)

Damage(ts) ==
  {RemoveAt(ts, k) : k \in 1 .. Len(ts) - 1}
  \cup {InsertedAt(ts, k, more) : k \in 1 .. Len(ts) - 1, more \in {<<<<"static">>>>, <<<<"*">>>>}}
  \cup {InsertedAt(ts, k, <<ts[k]>>) : k \in 1 .. Len(ts) - 1}
  \cup {[ts EXCEPT ![k] = ts[k + 1], ![k + 1] = ts[k]] : k \in 1 .. Len(ts) - 2}

Sound ==
  {InMain(body) : body \in Statements}
  \cup {Everything, InMain(<<VarDeclStmt(Var, <<"a">>, Num(7)), VarDeclStmt(Var, <<"b">>, A)>>)}
Fragile ==     \* without what the tree leaves out, the names of an extern function's parameters
  {[Everything EXCEPT !.externs[1].params = << >>]}
  \cup {InMain(<<VarDeclStmt("a*", <<"b">>, BinaryExpr("*", B, BinaryExpr("+", A, CallExpr(F, <<A, C>>)))),
                AssignVar("a", UnaryExpr("-", MemberCallExpr(C, "ToString"))), ExprStmt(BinaryExpr("*", A, B))>>),
        InMain(<<IfStmt(BinaryExpr("and", A, B), <<JumpStmt("break")>>, <<WhileStmt(C, <<ReturnStmt(<< >>)>>)>>)>>)}

-----------------------------------------------------------------------------
(* Programs as characters: signs next to each other, names that start like *)
(* keywords, numbers before a point or a letter, strings with escapes.     *)
Signs ==
  {[k \in 1 .. 4 |-> ExprStmt(BinaryExpr(o, UnaryExpr("!", A), UnaryExpr(<<"-", "not", "&", "*">>[k], B)))] :
     o \in Operators}
Quoted == Characters("/* \"a\\\n// */")
Lexemes ==
  <<VarDeclStmt("a*", Characters("if_1"), MemberCallExpr(Num(70), "F")),
    AssignStmt(Characters("iffy"), UnaryExpr("-", MemberCallExpr(Lit("float64", 5), "F"))),
    ExprStmt(BinaryExpr("/", BinaryExpr("*", Lit("float32", 3), Lit("float32", 4)), Txt(Quoted))),
    WhileStmt(Lit("bool", 1), <<ReturnStmt(<<V("n")>>)>>)>>
Spelled(body) ==
  [EmptyProgram EXCEPT !.imports = <<Characters("m2.dll")>>,
                       !.functions = <<FunctionDecl(<<"f">>, <<P("float64", "n"), P("b[3]", "c")>>,
                                                    Inferred, body)>>]
Gaps == {<< >>, <<" ">>, <<"\n">>, Characters("\t/* *a//*/"), Characters(" // */ \"\n")}
Characterized ==
  {[kind |-> "text", text |-> Docs!Spaced(w.tokens, gap), tokens |-> << >>, tree |-> w.tree] :
     w \in {Whole("text", Spelled(body)) : body \in Signs \cup {Lexemes}}, gap \in Gaps}

MCSources ==
  {Whole("typed", p) : p \in AllPrograms} \cup Characterized
  \cup {Whole("syntax", p) : p \in Sound} \cup UNION {Modified(w.tokens, w.tree) : w \in {Whole("syntax", p) : p \in Sound}}
  \cup {Angled(Docs!Written(Everything), Everything)}
  \cup UNION {{SourceText("damaged", ts, EmptyProgram) : ts \in Damage(Docs!Written(p))} : p \in Fragile}
=============================================================================
