----------------------------- MODULE MCFrontend ------------------------------
(***************************************************************************)
(* Function bodies for Frontend, built by size.                            *)
(*   Control  up to four elements: returns, jumps, output, a change of the *)
(*            parameter, and blocks, ifs and loops on the parameter or on  *)
(*            a constant;                                                  *)
(*   Loops    up to six elements: jumps and output in nested loops;        *)
(*   Scoping  up to five elements: declarations, assignments and uses of   *)
(*            two names in nested blocks, branches and loops.              *)
(***************************************************************************)
EXTENDS Frontend

MCName == {"p", "x"}

Lit == Literal("true")
P0 == Variable("p")

(* The statements of k elements, when shorter[n + 1] holds the bodies of   *)
(* n elements.                                                             *)
StatementsOf(k, shorter, simple, conditions) ==
  IF k = 1 THEN {<<s>> : s \in simple}
  ELSE {<<o>> \o b \o <<CloseMark>> :
          b \in shorter[k - 1],
          o \in {BlockStmt} \cup {WhileStmt(c) : c \in conditions}
                 \cup {IfStmt(c, FALSE) : c \in conditions}}
       \cup UNION {{<<IfStmt(c, TRUE)>> \o b1 \o <<ElseMark>> \o b2 \o <<CloseMark>> :
                      c \in conditions, b1 \in shorter[m + 1], b2 \in shorter[k - 2 - m]} :
                   m \in 0 .. (k - 3)}

(* From the bodies of 0, 1, ... n - 1 elements, those of up to n.          *)
Longer(shorter, simple, conditions) ==
  LET n == Len(shorter)
  IN  Append(shorter,
        UNION {{s \o r : s \in StatementsOf(k, shorter, simple, conditions),
                        r \in shorter[n - k + 1]} : k \in 1 .. n})

NoBodies == <<{<< >>}>>

ControlSimple ==
  {ReturnStmt(P0), ReturnStmt(NoExpr), BreakStmt, ContinueStmt, PrintStmt(P0),
   AssignStmt("p", Not("p"))}
Control1 == Longer(NoBodies, ControlSimple, {P0, Lit})
Control2 == Longer(Control1, ControlSimple, {P0, Lit})
Control3 == Longer(Control2, ControlSimple, {P0, Lit})
Control4 == Longer(Control3, ControlSimple, {P0, Lit})

LoopSimple == {BreakStmt, ContinueStmt, PrintStmt(P0)}
Loop1 == Longer(NoBodies, LoopSimple, {Lit})
Loop2 == Longer(Loop1, LoopSimple, {Lit})
Loop3 == Longer(Loop2, LoopSimple, {Lit})
Loop4 == Longer(Loop3, LoopSimple, {Lit})
Loop5 == Longer(Loop4, LoopSimple, {Lit})
Loop6 == Longer(Loop5, LoopSimple, {Lit})

X == Variable("x")
ScopeSimple ==
  {VarDeclStmt("x", P0), VarDeclStmt("x", Not("x")), AssignStmt("x", Not("x")),
   PrintStmt(X)}
Scope1 == Longer(NoBodies, ScopeSimple, {X})
Scope2 == Longer(Scope1, ScopeSimple, {X})
Scope3 == Longer(Scope2, ScopeSimple, {X})
Scope4 == Longer(Scope3, ScopeSimple, {X})
Scope5 == Longer(Scope4, ScopeSimple, {X})

MCBodies == {b : b \in UNION (ToSet(Control4) \cup ToSet(Loop6) \cup ToSet(Scope5))}
=============================================================================
