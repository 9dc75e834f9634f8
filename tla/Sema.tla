-------------------------------- MODULE Sema ---------------------------------
(***************************************************************************)
(* Semantic analysis of one function (src/sema.cpp, analyzeFunction): name *)
(* resolution in nested scopes, the loop depth for break and continue, the *)
(* return statements against the declared or inferred return type, and the *)
(* missing-return check.                                                   *)
(*                                                                         *)
(* Analysis goes on after an error, but errors only accumulate and the     *)
(* driver stops when there is one: here the first one ends it.             *)
(***************************************************************************)
EXTENDS Ast

CONSTANTS
  Bodies,   \* the function bodies considered
  Param     \* the name of the function's one parameter

ASSUME BodyAssumption == Bodies \subseteq Seq(Stmt) /\ \A b \in Bodies : WellFormed(b)
ASSUME ParamAssumption == Param \in Name

VARIABLES
  body,        \* the function body
  returnType,  \* "void", "bool", or "" when it is to be inferred
  pos,         \* the statement under analysis
  scopes,      \* what each name means, innermost scope last: the position
               \* of its declaration, 0 for the parameter
  loopDepth,
  inferred,    \* types of the return statements seen while inferring
  operand,     \* operand[i]: what lookupVariable found for the expression at i
  target,      \* target[i]: what it found for the assignment at i
  verdict

semaVars ==
  <<body, returnType, pos, scopes, loopDepth, inferred, operand, target, verdict>>

Undefined == -1

AnalysisInit ==
  /\ body \in Bodies
  /\ returnType \in {"void", "bool", ""}
  /\ pos = 1
  /\ scopes = <<With(<< >>, Param, 0)>>
  /\ loopDepth = 0
  /\ inferred = {}
  /\ operand = << >>
  /\ target = << >>
  /\ verdict = "analyzing"

-----------------------------------------------------------------------------
MutLookup(x) ==
  LET holders == {d \in DOMAIN scopes : x \in DOMAIN scopes[d]}
  IN  IF holders = {} THEN Undefined ELSE scopes[Min(holders)][x]

(* lookupVariable: innermost scope first.                                  *)
Lookup(x) ==
  LET holders == {d \in DOMAIN scopes : x \in DOMAIN scopes[d]}
  IN  IF holders = {} THEN Undefined ELSE scopes[Max(holders)][x]

Resolves(e) == UsesName(e) => Lookup(e[2]) # Undefined

(* analyzeExpr                                                             *)
Reads(e) ==
  operand' = IF UsesName(e) THEN With(operand, pos, Lookup(e[2])) ELSE operand

ReadsNothing == UNCHANGED operand

At(kind) == verdict = "analyzing" /\ pos <= Len(body) /\ body[pos].kind = kind

Here == body[pos]

(* The statement at pos is of this kind, and there is nothing wrong with   *)
(* it when "fine" holds.                                                   *)
Analyze(kind, fine) ==
  /\ At(kind)
  /\ pos' = pos + 1
  /\ verdict' = IF fine THEN verdict ELSE "rejected"
  /\ UNCHANGED <<body, returnType>>

EmptyScope == << >>

PushScope == Append(scopes, EmptyScope)

(* The initializer is analyzed before the name is declared.                *)
AnalyzeDeclare ==
  /\ Analyze("declare", /\ Resolves(Here.expr)
                        /\ Here.name \notin DOMAIN Last(scopes))
  /\ Reads(Here.expr)
  /\ scopes' = [scopes EXCEPT ![Len(scopes)] = With(@, Here.name, pos)]
  /\ UNCHANGED <<loopDepth, inferred, target>>

AnalyzeAssign ==
  /\ Analyze("assign", Resolves(Here.expr) /\ Lookup(Here.name) # Undefined)
  /\ Reads(Here.expr)
  /\ target' = With(target, pos, Lookup(Here.name))
  /\ UNCHANGED <<scopes, loopDepth, inferred>>

AnalyzePrint ==
  /\ Analyze("print", Resolves(Here.expr))
  /\ Reads(Here.expr)
  /\ UNCHANGED <<scopes, loopDepth, inferred, target>>

TypeOfReturn == IF Here.expr = NoExpr THEN "void" ELSE "bool"

(* A void function's return expression is not even analyzed.               *)
AnalyzeReturn ==
  /\ Analyze("return", CASE returnType = "" -> Resolves(Here.expr)
                         [] returnType = "void" -> Here.expr = NoExpr
                         [] OTHER -> Here.expr # NoExpr /\ Resolves(Here.expr))
  /\ IF returnType = "void" THEN ReadsNothing ELSE Reads(Here.expr)
  /\ inferred' = IF returnType = "" THEN inferred \cup {TypeOfReturn} ELSE inferred
  /\ UNCHANGED <<scopes, loopDepth, target>>

AnalyzeJump ==
  /\ \E kind \in {"break", "continue"} : Analyze(kind, loopDepth > 0)
  /\ UNCHANGED <<scopes, loopDepth, inferred, operand, target>>

EnterBlock ==
  /\ Analyze("block", TRUE)
  /\ scopes' = PushScope
  /\ UNCHANGED <<loopDepth, inferred, operand, target>>

EnterIf ==
  /\ Analyze("if", Resolves(Here.expr))
  /\ Reads(Here.expr)
  /\ scopes' = PushScope
  /\ UNCHANGED <<loopDepth, inferred, target>>

EnterElse ==
  /\ Analyze("else", TRUE)
  /\ scopes' = [scopes EXCEPT ![Len(scopes)] = EmptyScope]
  /\ UNCHANGED <<loopDepth, inferred, operand, target>>

EnterWhile ==
  /\ Analyze("while", Resolves(Here.expr))
  /\ Reads(Here.expr)
  /\ scopes' = PushScope
  /\ loopDepth' = loopDepth + 1
  /\ UNCHANGED <<inferred, target>>

MutLeave ==
  /\ Analyze("close", TRUE)
  /\ scopes' = Front(scopes)
  /\ loopDepth' = loopDepth
  /\ UNCHANGED <<inferred, operand, target>>

Leave ==
  /\ Analyze("close", TRUE)
  /\ scopes' = Front(scopes)
  /\ loopDepth' = IF body[OpenerOf(body, pos)].kind = "while" THEN loopDepth - 1
                  ELSE loopDepth
  /\ UNCHANGED <<inferred, operand, target>>

-----------------------------------------------------------------------------
(* The statements whose own body (the then-body of an if) is opened at j,  *)
(* and those of the else-body.                                             *)
InBody(j) ==
  {i \in DOMAIN body :
     /\ body[i].kind \notin {"else", "close"}
     /\ OpenerOf(body, i) = j
     /\ ~ \E k \in 1 .. i : body[k].kind = "else" /\ OpenerOf(body, k) = j}

InElse(j) ==
  {i \in DOMAIN body :
     /\ body[i].kind \notin {"else", "close"}
     /\ OpenerOf(body, i) = j
     /\ \E k \in 1 .. i : body[k].kind = "else" /\ OpenerOf(body, k) = j}

MutAlwaysReturns ==
  LET Returns[i \in DOMAIN body] ==
        \/ body[i].kind = "return"
        \/ body[i].kind = "block" /\ \E s \in InBody(i) : Returns[s]
        \/ /\ body[i].kind = "if"
           /\ body[i].hasElse
           /\ \/ \E s \in InBody(i) : Returns[s]
              \/ \E s \in InElse(i) : Returns[s]
  IN  \E s \in InBody(0) : Returns[s]

(* blockAlwaysReturns, statementAlwaysReturns                              *)
AlwaysReturns ==
  LET Returns[i \in DOMAIN body] ==
        \/ body[i].kind = "return"
        \/ body[i].kind = "block" /\ \E s \in InBody(i) : Returns[s]
        \/ /\ body[i].kind = "if"
           /\ body[i].hasElse
           /\ \E s \in InBody(i) : Returns[s]
           /\ \E s \in InElse(i) : Returns[s]
  IN  \E s \in InBody(0) : Returns[s]

(* inferFunctionReturnType: two different types do not unify here.         *)
InferredType == IF inferred = {} THEN "void" ELSE CHOOSE t \in inferred : TRUE

FinishAnalysis ==
  /\ verdict = "analyzing"
  /\ pos > Len(body)
  /\ returnType' = IF returnType = "" THEN InferredType ELSE returnType
  /\ verdict' = IF /\ Cardinality(inferred) <= 1
                   /\ returnType' = "void" \/ AlwaysReturns
                THEN "accepted" ELSE "rejected"
  /\ UNCHANGED <<body, pos, scopes, loopDepth, inferred, operand, target>>

AnalysisStep ==
  \/ AnalyzeDeclare
  \/ AnalyzeAssign
  \/ AnalyzePrint
  \/ AnalyzeReturn
  \/ AnalyzeJump
  \/ EnterBlock
  \/ EnterIf
  \/ EnterElse
  \/ EnterWhile
  \/ Leave
  \/ FinishAnalysis
=============================================================================
