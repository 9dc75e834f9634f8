--------------------------------- MODULE Ast ---------------------------------
(***************************************************************************)
(* The body of one function as semantic analysis and lowering walk it      *)
(* (src/ast.h).  A body is the sequence of its statements in source order; *)
(* a statement with a body of its own is opened by an element of the       *)
(* sequence and closed by "close", and "else" separates the two bodies of  *)
(* an if.  All variables and expressions have type bool.                   *)
(***************************************************************************)
EXTENDS Integers, SequencesExt

CONSTANT Name   \* the names of variables

(* f, extended to take x to v if it does not take x anywhere yet.          *)
With(f, x, v) == [y \in DOMAIN f \cup {x} |-> IF y \in DOMAIN f THEN f[y] ELSE v]

NoExpr == <<"none", "">>
Literal(truth) == <<"literal", truth>>
Variable(x) == <<"name", x>>
Not(x) == <<"not", x>>

Expr == ({"literal"} \X {"true", "false"}) \cup ({"name", "not"} \X Name)

UsesName(e) == e[1] \in {"name", "not"}

Openers == {"block", "if", "while"}

Plain(kind, x, e) == [kind |-> kind, name |-> x, expr |-> e, hasElse |-> FALSE]
VarDeclStmt(x, e) == Plain("declare", x, e)
AssignStmt(x, e) == Plain("assign", x, e)
PrintStmt(e) == Plain("print", "", e)
ReturnStmt(e) == Plain("return", "", e)
BreakStmt == Plain("break", "", NoExpr)
ContinueStmt == Plain("continue", "", NoExpr)
BlockStmt == Plain("block", "", NoExpr)
WhileStmt(e) == Plain("while", "", e)
IfStmt(e, hasElse) == [kind |-> "if", name |-> "", expr |-> e, hasElse |-> hasElse]
ElseMark == Plain("else", "", NoExpr)
CloseMark == Plain("close", "", NoExpr)

Stmt ==
  {VarDeclStmt(x, e) : x \in Name, e \in Expr}
  \cup {AssignStmt(x, e) : x \in Name, e \in Expr}
  \cup {PrintStmt(e) : e \in Expr}
  \cup {ReturnStmt(e) : e \in Expr \cup {NoExpr}}
  \cup {BreakStmt, ContinueStmt, BlockStmt, ElseMark, CloseMark}
  \cup {WhileStmt(e) : e \in Expr}
  \cup {IfStmt(e, hasElse) : e \in Expr, hasElse \in BOOLEAN}

(* The statements that the first i elements of a body open and do not      *)
(* close, outermost first.                                                 *)
Open(body) ==
  LET open[i \in 0 .. Len(body)] ==
        IF i = 0 THEN << >>
        ELSE IF body[i].kind \in Openers THEN Append(open[i - 1], i)
        ELSE IF body[i].kind = "close" THEN Front(open[i - 1])
        ELSE open[i - 1]
  IN  open

(* The statement around each position, 0 for the function itself; an       *)
(* "else" and a "close" are inside the statement they belong to.           *)
Parents(body) ==
  [i \in 1 .. Len(body) + 1 |->
     LET around == Open(body)[i - 1] IN IF around = << >> THEN 0 ELSE Last(around)]

OpenerOf(body, i) == Parents(body)[i]

CloseOf(body, j) ==
  CHOOSE i \in DOMAIN body : body[i].kind = "close" /\ OpenerOf(body, i) = j

ElseOf(body, j) ==
  CHOOSE i \in DOMAIN body : body[i].kind = "else" /\ OpenerOf(body, i) = j

(* What the parser builds: every opener is closed, and an if has the one   *)
(* "else" it announces.                                                    *)
WellFormed(body) ==
  LET P == Parents(body)
  IN  /\ P[Len(body) + 1] = 0
      /\ \A i \in DOMAIN body :
           /\ body[i].kind \in {"else", "close"} => P[i] # 0
           /\ body[i].kind = "else" => body[P[i]].hasElse
           /\ Cardinality({k \in DOMAIN body : body[k].kind = "else" /\ P[k] = i})
                = IF body[i].hasElse THEN 1 ELSE 0
=============================================================================
