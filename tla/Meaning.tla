------------------------------- MODULE Meaning -------------------------------
(***************************************************************************)
(* What a function body and its VIR print and return: two reference        *)
(* interpreters.  The first follows the statements, with each name meaning *)
(* the declaration that name resolution gave it; the second follows the    *)
(* blocks.  A local that was never stored to holds "garbage".              *)
(*                                                                         *)
(* A run ends with an outcome: "true", "false" or "void" for what is       *)
(* returned, "unreachable" or "garbage" for what must not happen, "cut"    *)
(* after Lines lines of output, and "running" when Fuel steps did not      *)
(* bring it to an end: there are so few states that it never will.         *)
(***************************************************************************)
EXTENDS Ast, Vir

CONSTANTS Lines, Fuel

Bit == {"true", "false", "garbage"}

Negation(b) == CASE b = "true" -> "false" [] b = "false" -> "true" [] OTHER -> b

(* The state after at most Fuel steps from start.                          *)
RunFrom(start, Step(_)) ==
  LET R[n \in 0 .. Fuel] ==
        IF n = 0 THEN start
        ELSE LET before == R[n - 1]
             IN  IF before.outcome = "running" THEN Step(before) ELSE before
  IN  R[Fuel]

Printed(state, v) ==
  LET out == Append(state.out, v)
  IN  [state EXCEPT !.out = out,
                    !.outcome = IF Len(out) = Lines THEN "cut" ELSE @]

Observed(state) == <<state.out, state.outcome>>

-----------------------------------------------------------------------------
(* env maps the position of a declaration to its value, 0 is the parameter.*)
Eval(e, at, operand, env) ==
  CASE e[1] = "literal" -> e[2]
    [] e[1] = "name" -> env[operand[at]]
    [] e[1] = "not" -> Negation(env[operand[at]])

(* The loop that a jump at i is about.                                     *)
InnermostLoop(body, i) ==
  Max({j \in 1 .. (i - 1) :
         body[j].kind = "while" /\ i < CloseOf(body, j)})

SourceStep(body, operand, target, state) ==
  LET i == state.at
      s == body[i]
      value == Eval(s.expr, i, operand, state.env)
      Goto(j) == [state EXCEPT !.at = j]
      After(j) == Goto(CloseOf(body, j) + 1)
  IN  IF i > Len(body) THEN [state EXCEPT !.outcome = "void"]
      ELSE CASE s.kind = "declare" -> [Goto(i + 1) EXCEPT !.env[i] = value]
             [] s.kind = "assign" -> [Goto(i + 1) EXCEPT !.env[target[i]] = value]
             [] s.kind = "print" -> Printed(Goto(i + 1), value)
             [] s.kind = "return" ->
                  [state EXCEPT !.outcome = IF s.expr = NoExpr THEN "void" ELSE value]
             [] s.kind = "break" -> After(InnermostLoop(body, i))
             [] s.kind = "continue" -> Goto(InnermostLoop(body, i))
             [] s.kind = "block" -> Goto(i + 1)
             [] s.kind = "while" -> IF value = "true" THEN Goto(i + 1) ELSE After(i)
             [] s.kind = "if" ->
                  IF value = "true" THEN Goto(i + 1)
                  ELSE IF s.hasElse THEN Goto(ElseOf(body, i) + 1) ELSE After(i)
             [] s.kind = "else" -> After(OpenerOf(body, i))
             [] s.kind = "close" ->
                  IF body[OpenerOf(body, i)].kind = "while" THEN Goto(OpenerOf(body, i))
                  ELSE Goto(i + 1)

SourceRun(body, operand, target, argument) ==
  Observed(RunFrom(
    [at |-> 1, out |-> << >>, outcome |-> "running",
     env |-> [d \in 0 .. Len(body) |-> IF d = 0 THEN argument ELSE "garbage"]],
    LAMBDA state : SourceStep(body, operand, target, state)))

-----------------------------------------------------------------------------
Executed(state, inst) ==
  IF state.outcome # "running" THEN state
  ELSE CASE inst.op = "constant" -> [state EXCEPT !.values[inst.def] = inst.truth]
         [] inst.op = "load" -> [state EXCEPT !.values[inst.def] = state.local[inst.slot]]
         [] inst.op = "operate" ->
              LET v == CHOOSE v \in inst.uses : TRUE
              IN  [state EXCEPT !.values[inst.def] = Negation(state.values[v])]
         [] inst.op = "store" ->
              LET v == CHOOSE v \in inst.uses : TRUE
              IN  [state EXCEPT !.local[inst.slot] = state.values[v]]
         [] inst.op = "print" ->
              Printed(state, state.values[CHOOSE v \in inst.uses : TRUE])

Jumped(state, term) ==
  IF state.outcome # "running" THEN state
  ELSE CASE term.kind = "branch" -> [state EXCEPT !.at = term.then]
         [] term.kind = "cond" ->
              CASE state.values[term.value] = "true" -> [state EXCEPT !.at = term.then]
                [] state.values[term.value] = "false" -> [state EXCEPT !.at = term.else]
                [] OTHER -> [state EXCEPT !.outcome = "garbage"]
         [] term.kind = "return" ->
              [state EXCEPT !.outcome =
                 IF term.value = None THEN "void" ELSE state.values[term.value]]
         [] term.kind = "unreachable" -> [state EXCEPT !.outcome = "unreachable"]

BlockStep(f, state) ==
  LET b == BlockWithId(f.blocks, state.at)
  IN  Jumped(FoldLeft(Executed, state, b.code), b.term)

VirRun(f, argument) ==
  Observed(RunFrom(
    [at |-> f.blocks[1].id, out |-> << >>, outcome |-> "running",
     local |-> [l \in 0 .. f.locals - 1 |-> IF l = 0 THEN argument ELSE "garbage"],
     values |-> [v \in Defined(f.blocks) |-> "garbage"]],
    LAMBDA state : BlockStep(f, state)))
=============================================================================
