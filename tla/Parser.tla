------------------------------- MODULE Parser -------------------------------
(***************************************************************************)
(* The recursive descent parser (src/parser.cpp), over the tokens of       *)
(* Lexer.  A parser takes the tokens and its place in them, and answers    *)
(* with the place after what it has read and the tree; one that throws is  *)
(* Stuck.                                                                  *)
(***************************************************************************)
EXTENDS Lexer, TypedSema

RECURSIVE ParseType(_, _, _), TypeEnd(_, _),
          ParseBinary(_, _, _), MoreOperands(_, _, _, _), ParseUnary(_, _),
          ParseCalls(_, _, _), MoreArgs(_, _, _),
          ParseStatement(_, _), MoreStatements(_, _, _), ParseIf(_, _), MoreParams(_, _, _), MoreFields(_, _, _)

Then(read, Next(_, _)) == IF read.at = 0 THEN Stuck ELSE Next(read.at, read.x)
Consume(ts, i, kind, Next(_)) == IF ts[i][1] = kind THEN Next(i + 1) ELSE Stuck
ConsumeName(ts, i, Next(_, _)) == IF ts[i][1] = "id" THEN Next(i + 1, ts[i][2]) ELSE Stuck

Lexeme(token) ==
  CASE token[1] \in {"id", "text"} -> token[2]
    [] token[1] = "number" -> <<ToString(token[2][2])>>
    [] OTHER -> <<token[1]>>

Modifiers == {"public", "private", "protected", "internal", "static", "readonly", "const",
              "volatile", "unsafe"}
SkipModifiers(ts, i) == Min({j \in i .. Len(ts) : ts[j][1] \notin Modifiers})

-----------------------------------------------------------------------------
(* Types: a name and what follows it.                                      *)
TypeTokens == {"int32", "float32", "float64", "string", "bool", "void"}

CanStartType(token) == token[1] \in TypeTokens \cup {"id"}

ParseType(ts, i, type) ==
  CASE type = "" -> IF CanStartType(ts[i]) THEN ParseType(ts, i + 1, Lexeme(ts[i])[1]) ELSE Stuck
    [] ts[i][1] \in {"*", "&"} -> ParseType(ts, i + 1, type \o ts[i][1])
    [] ts[i][1] = "[" /\ ts[i + 1][1] = "]" -> ParseType(ts, i + 2, type \o "[]")
    [] ts[i][1] = "[" /\ ts[i + 1][1] = "number" ->
         Consume(ts, i + 2, "]",
                 LAMBDA j : ParseType(ts, j, type \o "[" \o Lexeme(ts[i + 1])[1] \o "]"))
    [] ts[i][1] = "[" /\ ts[i + 1][1] \notin {"]", "number"} -> Stuck
    [] OTHER -> Got(i, type)

(* Where a type whose name is before place i ends, 0 if it is not one.     *)
TypeEnd(ts, i) ==
  CASE ts[i][1] \in {"*", "&"} -> TypeEnd(ts, i + 1)
    [] ts[i][1] = "[" ->
         LET close == IF ts[i + 1][1] = "number" THEN i + 2 ELSE i + 1
         IN  IF ts[close][1] = "]" THEN TypeEnd(ts, close + 1) ELSE 0
    [] OTHER -> i

MutLooksLikeTypedVarDecl(ts, i) ==
  /\ CanStartType(ts[i])
  /\ ts[i + 1][1] = "id" /\ ts[i + 2][1] = "="

LooksLikeTypedVarDecl(ts, i) ==
  /\ CanStartType(ts[i])
  /\ \E end \in {TypeEnd(ts, i + 1)} \ {0} : ts[end][1] = "id" /\ ts[end + 1][1] = "="

-----------------------------------------------------------------------------
(* Expressions.  Level by level, parseLogicalOr down to parseFactor.       *)
Levels == <<{"or"}, {"and"}, {"==", "!="}, {"<", "<=", ">", ">="}, {"+", "-"}, {"*", "/"}>>

ParseBinary(ts, i, level) ==
  IF level > Len(Levels) THEN ParseUnary(ts, i)
  ELSE Then(ParseBinary(ts, i, level + 1), LAMBDA j, x : MoreOperands(ts, j, x, level))

MoreOperands(ts, i, left, level) ==
  IF ts[i][1] \notin Levels[level] THEN Got(i, left)
  ELSE Then(ParseBinary(ts, i + 1, level + 1),
            LAMBDA j, x : MoreOperands(ts, j, BinaryExpr(ts[i][1], left, x), level))

ParseExpression(ts, i) == ParseBinary(ts, i, 1)

ParsePrimary(ts, i) ==
  CASE ts[i][1] = "number" -> Got(i + 1, LiteralExpr(ts[i][2][1], ts[i][2][2]))
    [] ts[i][1] = "text" -> Got(i + 1, LiteralExpr("string", ts[i][2]))
    [] ts[i][1] \in {"true", "false"} -> Got(i + 1, LiteralExpr("bool", Truth(ts[i][1] = "true")))
    [] ts[i][1] = "id" -> Got(i + 1, VariableExpr(ts[i][2]))
    [] ts[i][1] = "(" ->
         Then(ParseExpression(ts, i + 1),
              LAMBDA j, x : Consume(ts, j, ")", LAMBDA k : Got(k, x)))
    [] OTHER -> Stuck

ParseUnary(ts, i) ==
  IF ts[i][1] \in {"-", "!", "not", "&", "*"}
  THEN Then(ParseUnary(ts, i + 1), LAMBDA j, x : Got(j, UnaryExpr(ts[i][1], x)))
  ELSE Then(ParsePrimary(ts, i), LAMBDA j, x : ParseCalls(ts, j, x))

MoreArgs(ts, i, args) ==
  Then(ParseExpression(ts, i),
       LAMBDA j, x : IF ts[j][1] = "," THEN MoreArgs(ts, j + 1, Append(args, x))
                     ELSE Consume(ts, j, ")", LAMBDA k : Got(k, Append(args, x))))
ParseArgs(ts, i) == IF ts[i][1] = ")" THEN Got(i + 1, << >>) ELSE MoreArgs(ts, i, << >>)

(* A call names its function; one of anything else is kept for analysis to *)
(* turn down, and so are the arguments of a member.                        *)
CallTree(x, args) ==
  IF x.kind = "variable" THEN CallExpr(x.name, args)
  ELSE [kind |-> "indirect", callee |-> x, args |-> args]
MemberTree(x, name, args) ==
  IF args = << >> THEN MemberCallExpr(x, name[1])
  ELSE [kind |-> "memberArgs", object |-> x, method |-> name[1], args |-> args]

ParseCalls(ts, i, x) ==
  CASE ts[i][1] = "(" ->
         Then(ParseArgs(ts, i + 1), LAMBDA j, args : ParseCalls(ts, j, CallTree(x, args)))
    [] ts[i][1] = "." ->
         ConsumeName(ts, i + 1, LAMBDA j, name : Consume(ts, j, "(", LAMBDA k :
           Then(ParseArgs(ts, k), LAMBDA l, args : ParseCalls(ts, l, MemberTree(x, name, args)))))
    [] OTHER -> Got(i, x)

-----------------------------------------------------------------------------
(* Statements.  A block is the sequence of its statements.                 *)
BlockStmt(body) == [kind |-> "block", body |-> body]
JumpStmt(kind) == [kind |-> kind]

WithSemicolon(ts, i, stmt) == Consume(ts, i, ";", LAMBDA j : Got(j, stmt))
EndedExpr(ts, i, Stmt(_)) == Then(ParseExpression(ts, i), LAMBDA j, x : WithSemicolon(ts, j, Stmt(x)))

MoreStatements(ts, i, body) ==
  IF ts[i][1] \in {"}", "end"} THEN Consume(ts, i, "}", LAMBDA j : Got(j, body))
  ELSE Then(ParseStatement(ts, i), LAMBDA j, s : MoreStatements(ts, j, Append(body, s)))
ParseBlock(ts, i) == Consume(ts, i, "{", LAMBDA j : MoreStatements(ts, j, << >>))

(* The condition of an if or a while, and its body.                        *)
ParseGuarded(ts, i, Next(_, _, _)) ==
  Consume(ts, i, "(", LAMBDA j : Then(ParseExpression(ts, j), LAMBDA k, c :
    Consume(ts, k, ")", LAMBDA l : Then(ParseBlock(ts, l), LAMBDA m, body : Next(m, c, body)))))

ParseElse(ts, i, Next(_, _)) ==
  CASE ts[i][1] # "else" -> Next(i, << >>)
    [] ts[i][1] = "else" /\ ts[i + 1][1] = "if" ->
         Then(ParseIf(ts, i + 1), LAMBDA j, nested : Next(j, <<nested>>))
    [] OTHER -> Then(ParseBlock(ts, i + 1), LAMBDA j, body : Next(j, body))
ParseIf(ts, i) ==
  ParseGuarded(ts, i + 1, LAMBDA j, c, then :
    ParseElse(ts, j, LAMBDA k, else : Got(k, IfStmt(c, then, else))))
ParseWhile(ts, i) == ParseGuarded(ts, i + 1, LAMBDA j, c, body : Got(j, WhileStmt(c, body)))

ParseReturn(ts, i) ==
  IF ts[i + 1][1] = ";" THEN Got(i + 2, ReturnStmt(<< >>))
  ELSE EndedExpr(ts, i + 1, LAMBDA x : ReturnStmt(<<x>>))

ParseVarDecl(ts, i) ==
  LET initialized(j, type) ==
        ConsumeName(ts, j, LAMBDA k, name : Consume(ts, k, "=", LAMBDA l :
          EndedExpr(ts, l, LAMBDA x : VarDeclStmt(type, name, x))))
  IN  IF ts[i][1] = "var" THEN initialized(i + 1, Var)
      ELSE Then(ParseType(ts, i, ""), LAMBDA j, type : initialized(j, type))

(* A statement with modifiers must be a declaration.                       *)
ParseStatement(ts, i) ==
  LET start == SkipModifiers(ts, i)
  IN  CASE ts[i][1] = "if" -> ParseIf(ts, i)
        [] ts[i][1] = "while" -> ParseWhile(ts, i)
        [] ts[i][1] \in {"break", "continue"} -> WithSemicolon(ts, i + 1, JumpStmt(ts[i][1]))
        [] ts[i][1] = "return" -> ParseReturn(ts, i)
        [] ts[start][1] = "var" \/ LooksLikeTypedVarDecl(ts, start) -> ParseVarDecl(ts, start)
        [] ts[i][1] = "{" -> Then(ParseBlock(ts, i), LAMBDA j, body : Got(j, BlockStmt(body)))
        [] ts[i][1] = "id" /\ ts[i + 1][1] = "=" ->
             EndedExpr(ts, i + 2, LAMBDA x : AssignStmt(ts[i][2], x))
        [] OTHER -> EndedExpr(ts, i, LAMBDA x : ExprStmt(x))

-----------------------------------------------------------------------------
(* Declarations.  Each parser starts after the modifiers, and gives the    *)
(* list of the program that the declaration belongs to with it.            *)
Declaration(list, item) == [list |-> list, item |-> item]

MoreParams(ts, i, params) ==
  Then(ParseType(ts, i, ""), LAMBDA j, type : ConsumeName(ts, j, LAMBDA k, name :
    IF ts[k][1] = "," THEN MoreParams(ts, k + 1, Append(params, [type |-> type, name |-> name]))
    ELSE Consume(ts, k, ")", LAMBDA l : Got(l, Append(params, [type |-> type, name |-> name])))))

(* The name and the parameters of a function.                              *)
ParseSignature(ts, i, Next(_, _, _)) ==
  ConsumeName(ts, i, LAMBDA j, name : Consume(ts, j, "(", LAMBDA k :
    Then(IF ts[k][1] = ")" THEN Got(k + 1, << >>) ELSE MoreParams(ts, k, << >>),
         LAMBDA l, params : Next(l, name, params))))

ParseImportPath(ts, i) ==
  LET close == Min({j \in i .. Len(ts) : ts[j][1] \in {">", "end"}})
  IN  CASE ts[i][1] = "text" -> Got(i + 1, ts[i][2])
        [] ts[i][1] = "<" /\ ts[close][1] = ">" /\ close > i + 1 ->
             Got(close + 1, FlattenSeq([k \in 1 .. close - i - 1 |-> Lexeme(ts[i + k])]))
        [] OTHER -> Stuck

ParseImportDecl(ts, i) ==
  Then(ParseImportPath(ts, i + 1), LAMBDA j, path : WithSemicolon(ts, j, Declaration("imports", path)))

ParseTypeAliasDecl(ts, i) ==
  ConsumeName(ts, i + 1, LAMBDA j, name : Consume(ts, j, "=", LAMBDA k :
    Then(ParseType(ts, k, ""), LAMBDA l, type :
      WithSemicolon(ts, l, Declaration("aliases", [name |-> name, type |-> type])))))

MoreFields(ts, i, fields) ==
  IF ts[i][1] \in {"}", "end"} THEN Consume(ts, i, "}", LAMBDA j : Got(j, fields))
  ELSE Then(ParseType(ts, i, ""), LAMBDA j, type : ConsumeName(ts, j, LAMBDA k, name :
         Consume(ts, k, ";", LAMBDA l :
           MoreFields(ts, l, Append(fields, [type |-> type, name |-> name])))))
ParseStructDecl(ts, i) ==
  ConsumeName(ts, i + 1, LAMBDA j, name : Consume(ts, j, "{", LAMBDA k :
    Then(MoreFields(ts, k, << >>), LAMBDA l, fields :
      Got(l, Declaration("structs", [name |-> name, fields |-> fields])))))

ParseReturnType(ts, i) == IF ts[i][1] = "->" THEN ParseType(ts, i + 1, "") ELSE Got(i, Inferred)
ParseFunction(ts, i) ==
  ParseSignature(ts, i + 1, LAMBDA j, name, params :
    Then(ParseReturnType(ts, j), LAMBDA k, type : Then(ParseBlock(ts, k), LAMBDA l, body :
      Got(l, Declaration("functions",
               [name |-> name, params |-> params, returns |-> type, body |-> body])))))

(* Of the parameters of an extern function only the types are kept.        *)
ParseExternFunction(ts, i) ==
  Consume(ts, i + 1, "fn", LAMBDA j : ParseSignature(ts, j, LAMBDA k, name, params :
    Consume(ts, k, "->", LAMBDA l : Then(ParseType(ts, l, ""), LAMBDA m, type :
      Consume(ts, m, "from", LAMBDA n : Then(ParseImportPath(ts, n), LAMBDA o, path :
        WithSemicolon(ts, o, Declaration("externs",
          [name |-> name, path |-> path, params |-> [p \in DOMAIN params |-> params[p].type],
           returns |-> type]))))))))

(* One round of parseProgram.  Nothing may come before an import.          *)
ParseTopLevel(ts, i) ==
  LET start == SkipModifiers(ts, i)
  IN  CASE ts[i][1] = "import" -> ParseImportDecl(ts, i)
        [] ts[start][1] = "type" -> ParseTypeAliasDecl(ts, start)
        [] ts[start][1] = "struct" -> ParseStructDecl(ts, start)
        [] ts[start][1] = "extern" -> ParseExternFunction(ts, start)
        [] ts[start][1] = "fn" -> ParseFunction(ts, start)
        [] OTHER -> Stuck

EmptyProgram ==
  [imports |-> << >>, externs |-> << >>, functions |-> << >>, structs |-> << >>, aliases |-> << >>]
=============================================================================
