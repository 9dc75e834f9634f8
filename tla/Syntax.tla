------------------------------- MODULE Syntax -------------------------------
(***************************************************************************)
(* How a program is written, as docs/spec/syntax.md lays it down: comments *)
(* of section 1, the grammar of sections 2 to 4, and the precedence of the *)
(* operators of section 5, with parentheses only where a tree needs them.  *)
(***************************************************************************)
EXTENDS Parser

CONSTANT TypeNames      \* the names that a program may use as a type

RECURSIVE Expression(_), Statement(_)

Sign(s) == <<<<s>>>>
Id(name) == <<<<"id", name>>>>
Separated(lists) ==
  IF lists = << >> THEN << >>
  ELSE lists[1] \o FlattenSeq([k \in 1 .. Len(lists) - 1 |-> Sign(",") \o lists[k + 1]])

(* From the strongest, calls and members, to the weakest.                  *)
BinaryRank(op) ==
  CASE op \in {"*", "/"} -> 6
    [] op \in {"+", "-"} -> 5
    [] op \in {"<", "<=", ">", ">="} -> 4
    [] op \in {"==", "!="} -> 3
    [] op = "and" -> 2
    [] op = "or" -> 1
Rank(e) ==
  CASE e.kind = "unary" -> 7
    [] e.kind = "binary" -> BinaryRank(e.op)
    [] OTHER -> 8

Operand(e, least) ==
  IF Rank(e) < least THEN Sign("(") \o Expression(e) \o Sign(")") ELSE Expression(e)
Arguments(args) ==
  Sign("(") \o Separated([k \in DOMAIN args |-> Expression(args[k])]) \o Sign(")")

LiteralToken(type, x) ==
  CASE type = "bool" -> Sign(IF x = 1 THEN "true" ELSE "false")
    [] type = "string" -> <<<<"text", x>>>>
    [] OTHER -> <<<<"number", <<type, x>>>>>>

Expression(e) ==
  CASE e.kind = "literal" -> LiteralToken(e.literal[1], e.literal[2])
    [] e.kind = "variable" -> Id(e.name)
    [] e.kind = "unary" -> Sign(e.op) \o Operand(e.right, 7)
    [] e.kind = "binary" -> Operand(e.left, Rank(e)) \o Sign(e.op) \o Operand(e.right, Rank(e) + 1)
    [] e.kind = "call" -> Id(e.callee) \o Arguments(e.args)
    [] e.kind = "indirect" -> Operand(e.callee, 8) \o Arguments(e.args)
    [] e.kind = "member" -> Operand(e.object, 8) \o Sign(".") \o Id(<<e.method>>) \o Arguments(<< >>)
    [] e.kind = "memberArgs" ->
         Operand(e.object, 8) \o Sign(".") \o Id(<<e.method>>) \o Arguments(e.args)

(* Types with up to two suffixes.                                          *)
TypeSuffixes == {"*", "&", "[]", "[3]"}
SuffixTokens(suffix) ==
  CASE suffix = "[]" -> Sign("[") \o Sign("]")
    [] suffix = "[3]" -> Sign("[") \o <<<<"number", <<"int32", 3>>>>>> \o Sign("]")
    [] OTHER -> Sign(suffix)
SuffixLists == UNION {[1 .. n -> TypeSuffixes] : n \in 0 .. 2}
BaseTokens(name) == IF name \in TypeTokens THEN Sign(name) ELSE Id(<<name>>)
WrittenTypes ==
  {[type |-> FoldLeft(LAMBDA t, suffix : t \o suffix, base, suffixes),
    tokens |-> BaseTokens(base) \o FlattenSeq([k \in DOMAIN suffixes |-> SuffixTokens(suffixes[k])])]
     : base \in TypeTokens \cup TypeNames, suffixes \in SuffixLists}
TypeOf(t) ==
  IF t = Var THEN Sign("var") ELSE (CHOOSE w \in WrittenTypes : w.type = t).tokens

-----------------------------------------------------------------------------
Statements(body) == FlattenSeq([k \in DOMAIN body |-> Statement(body[k])])
Block(body) == Sign("{") \o Statements(body) \o Sign("}")
Guarded(keyword, e, body) == Sign(keyword) \o Sign("(") \o Expression(e) \o Sign(")") \o Block(body)
Semicolon(tokens) == tokens \o Sign(";")

Else(body) ==
  CASE body = << >> -> << >>
    [] Len(body) = 1 /\ body[1].kind = "if" -> Sign("else") \o Statement(body[1])
    [] OTHER -> Sign("else") \o Block(body)

Statement(s) ==
  CASE s.kind = "declare" ->
         Semicolon(TypeOf(s.type) \o Id(s.name) \o Sign("=") \o Expression(s.expr))
    [] s.kind = "assign" -> Semicolon(Id(s.name) \o Sign("=") \o Expression(s.expr))
    [] s.kind = "expr" -> Semicolon(Expression(s.expr))
    [] s.kind = "return" ->
         Semicolon(Sign("return") \o FlattenSeq([k \in DOMAIN s.expr |-> Expression(s.expr[k])]))
    [] s.kind = "if" -> Guarded("if", s.expr, s.then) \o Else(s.else)
    [] s.kind = "while" -> Guarded("while", s.expr, s.body)
    [] s.kind = "block" -> Block(s.body)
    [] s.kind \in {"break", "continue"} -> Semicolon(Sign(s.kind))

-----------------------------------------------------------------------------
Parameters(params) ==
  Sign("(") \o Separated([k \in DOMAIN params |-> TypeOf(params[k].type) \o Id(params[k].name)])
  \o Sign(")")
Returning(type) == IF type = Inferred THEN << >> ELSE Sign("->") \o TypeOf(type)

Import(path) == Semicolon(Sign("import") \o <<<<"text", path>>>>)
Extern(x) ==
  Semicolon(Sign("extern") \o Sign("fn") \o Id(x.name)
    \o Parameters([k \in DOMAIN x.params |-> [type |-> x.params[k], name |-> <<"p">>]])
    \o Returning(x.returns) \o Sign("from") \o <<<<"text", x.path>>>>)
Function(f) == Sign("fn") \o Id(f.name) \o Parameters(f.params) \o Returning(f.returns) \o Block(f.body)
Struct(s) ==
  Sign("struct") \o Id(s.name) \o Sign("{")
  \o FlattenSeq([k \in DOMAIN s.fields |-> Semicolon(TypeOf(s.fields[k].type) \o Id(s.fields[k].name))])
  \o Sign("}")
Alias(a) == Semicolon(Sign("type") \o Id(a.name) \o Sign("=") \o TypeOf(a.type))

Each(Written_(_), list) == FlattenSeq([k \in DOMAIN list |-> Written_(list[k])])
Written(p) ==
  Each(Import, p.imports) \o Each(Alias, p.aliases) \o Each(Struct, p.structs)
  \o Each(Extern, p.externs) \o Each(Function, p.functions) \o Sign("end")

-----------------------------------------------------------------------------
(* How tokens are spelled, and which of them have to be kept apart.        *)
QuotedChar(c) ==
  CASE c = "\n" -> <<"\\", "n">> [] c = "\t" -> <<"\\", "t">>
    [] c \in {"\\", "\""} -> <<"\\", c>> [] OTHER -> <<c>>
NumberText(type, x) ==
  Characters(IF type = "int32" THEN ToString(x)
             ELSE ToString(x \div 2) \o (IF x % 2 = 1 THEN ".5" ELSE ".0")
                  \o (IF type = "float32" THEN "f" ELSE ""))
Spelling(token) ==
  CASE token[1] = "id" -> token[2]
    [] token[1] = "text" ->
         <<"\"">> \o FlattenSeq([k \in DOMAIN token[2] |-> QuotedChar(token[2][k])]) \o <<"\"">>
    [] token[1] = "number" -> NumberText(token[2][1], token[2][2])
    [] OTHER -> Characters(token[1])

Fused(t, u) ==
  LET c == Last(Spelling(t))
      d == Head(Spelling(u))
  IN  \/ {c, d} \subseteq Letters \cup DigitChars
      \/ c \o d \in LongSigns \cup {"//", "/*"}

(* The tokens with the given blanks or comments between them, or with a    *)
(* space where they need one.                                              *)
Spaced(ts, gap) ==
  FlattenSeq([k \in 1 .. Len(ts) - 1 |->
    Spelling(ts[k]) \o (IF gap = << >> /\ k < Len(ts) - 1 /\ Fused(ts[k], ts[k + 1])
                        THEN <<" ">> ELSE gap)])

(* A text without what a tree does not keep: modifiers and parentheses.    *)
Bare(ts) == SelectSeq(ts, LAMBDA t : t[1] \notin Modifiers \cup {"(", ")"})
=============================================================================
