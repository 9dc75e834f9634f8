------------------------------ MODULE Lowering -------------------------------
(***************************************************************************)
(* Lowering of one analyzed function to VIR (src/lowering.cpp,             *)
(* lowerFunction): blocks are created and terminated while the statements  *)
(* are walked, names are resolved a second time, now to local slots, and   *)
(* what follows a terminator in a body is skipped.                         *)
(*                                                                         *)
(* A lowering diagnostic stops the driver: here it ends the walk.          *)
(***************************************************************************)
EXTENDS Ast, Vir

CONSTANT Param

VARIABLES
  body, returnType,   \* the analyzed function
  at,            \* the statement to lower
  skipping,      \* the openers of skipped statements not yet closed
  blocks,        \* the blocks created so far
  current,       \* id of the block that receives code
  nextValueId,
  locals,        \* the declaration behind each local slot, by position
  slots,         \* the scopes: the slot each name means, innermost last
  loopTargets,   \* where continue and break go, innermost loop last
  pending,       \* the blocks that the open statements still have to fill
  stage          \* "idle", "lowering", "lowered" or "failed"

lowerVars ==
  <<at, skipping, blocks, current, nextValueId, locals, slots, loopTargets,
    pending, stage>>

LoweringInit ==
  /\ at = 1
  /\ skipping = 0
  /\ blocks = << >>
  /\ current = 0
  /\ nextValueId = 0
  /\ locals = << >>
  /\ slots = << >>
  /\ loopTargets = << >>
  /\ pending = << >>
  /\ stage = "idle"

-----------------------------------------------------------------------------
(* createBlock, n times: a block's id is its place in the vector.          *)
NewBlocks(first, n) ==
  [i \in 1 .. n |-> [id |-> first + i - 1, code |-> << >>, term |-> NoTerminator]]

(* The entry block, and a slot for the parameter.                          *)
StartFunction ==
  /\ stage = "idle"
  /\ stage' = "lowering"
  /\ blocks' = NewBlocks(0, 1)
  /\ locals' = <<0>>
  /\ slots' = <<With(<< >>, Param, 0)>>
  /\ UNCHANGED <<at, skipping, current, nextValueId, loopTargets, pending>>

(* lookupLocal                                                             *)
LookupLocal(scopes, x) ==
  LET holders == {d \in DOMAIN scopes : x \in DOMAIN scopes[d]}
  IN  IF holders = {} THEN None ELSE scopes[Max(holders)][x]

Known(e, scopes) == UsesName(e) => LookupLocal(scopes, e[2]) # None

(* lowerExpr: the code for an expression, which defines values from n on;  *)
(* the last of them is the expression's value.                             *)
ExprCode(e, n, scopes) ==
  CASE e[1] = "literal" -> <<Constant(n, e[2])>>
    [] e[1] = "name" -> <<Load(n, LookupLocal(scopes, e[2]))>>
    [] e[1] = "not" -> <<Load(n, LookupLocal(scopes, e[2])), Operate(n + 1, {n})>>

ValueOf(e, n) == IF e[1] = "not" THEN n + 1 ELSE n

HasTerminator(id) == blocks[id + 1].term.kind # "missing"

(* Block id with code appended, and with its terminator set.               *)
Extended(bs, id, code) == [bs EXCEPT ![id + 1].code = @ \o code]
Ended(bs, id, term) == [bs EXCEPT ![id + 1].term = term]

(* Where control falls through at the end of a body.                       *)
FallsTo(id) ==
  IF HasTerminator(current) THEN blocks ELSE Ended(blocks, current, Branch(id))

Here == body[at]

LoweringAt(kind) ==
  /\ stage = "lowering"
  /\ skipping = 0
  /\ at <= Len(body)
  /\ body[at].kind = kind

(* The statement to lower is of this kind and not dead; a diagnostic is    *)
(* reported unless "fine" holds.                                           *)
Lower(kind, fine) ==
  /\ LoweringAt(kind)
  /\ ~ HasTerminator(current)
  /\ at' = at + 1
  /\ stage' = IF fine THEN stage ELSE "failed"
  /\ UNCHANGED skipping

(* The local is declared before the initializer is lowered.                *)
LowerDeclare ==
  LET local == Len(locals)
      scopes == [slots EXCEPT ![Len(slots)] = With(@, Here.name, local)]
      value == ValueOf(Here.expr, nextValueId)
  IN  /\ Lower("declare", /\ Here.name \notin DOMAIN Last(slots)
                          /\ Known(Here.expr, scopes))
      /\ locals' = Append(locals, at)
      /\ slots' = scopes
      /\ blocks' = Extended(blocks, current,
                     Append(ExprCode(Here.expr, nextValueId, scopes), Store(local, value)))
      /\ nextValueId' = value + 1
      /\ UNCHANGED <<current, loopTargets, pending>>

LowerAssign ==
  LET value == ValueOf(Here.expr, nextValueId)
      local == LookupLocal(slots, Here.name)
  IN  /\ Lower("assign", local # None /\ Known(Here.expr, slots))
      /\ blocks' = Extended(blocks, current,
                     Append(ExprCode(Here.expr, nextValueId, slots), Store(local, value)))
      /\ nextValueId' = value + 1
      /\ UNCHANGED <<current, locals, slots, loopTargets, pending>>

LowerPrint ==
  LET value == ValueOf(Here.expr, nextValueId)
  IN  /\ Lower("print", Known(Here.expr, slots))
      /\ blocks' = Extended(blocks, current,
                     Append(ExprCode(Here.expr, nextValueId, slots), Output(value)))
      /\ nextValueId' = value + 1
      /\ UNCHANGED <<current, locals, slots, loopTargets, pending>>

LowerReturn ==
  LET value == ValueOf(Here.expr, nextValueId)
      some == Here.expr # NoExpr
  IN  /\ Lower("return", IF some THEN Known(Here.expr, slots) ELSE returnType = "void")
      /\ blocks' =
           IF some
           THEN Ended(Extended(blocks, current, ExprCode(Here.expr, nextValueId, slots)),
                      current, Return(value))
           ELSE Ended(blocks, current, Return(None))
      /\ nextValueId' = IF some THEN value + 1 ELSE nextValueId
      /\ UNCHANGED <<current, locals, slots, loopTargets, pending>>

MutJumpTarget ==
  IF Here.kind = "break" THEN Head(loopTargets).break ELSE Last(loopTargets).continue

JumpTarget ==
  IF Here.kind = "break" THEN Last(loopTargets).break ELSE Last(loopTargets).continue

LowerJump ==
  /\ \E kind \in {"break", "continue"} : Lower(kind, loopTargets # << >>)
  /\ blocks' = IF loopTargets = << >> THEN blocks
               ELSE Ended(blocks, current, Branch(JumpTarget))
  /\ UNCHANGED <<current, nextValueId, locals, slots, loopTargets, pending>>

-----------------------------------------------------------------------------
Push(frame) ==
  /\ slots' = Append(slots, << >>)
  /\ pending' = Append(pending, frame)

LowerBlock ==
  /\ Lower("block", TRUE)
  /\ Push([kind |-> "block", next |-> current, else |-> current])
  /\ UNCHANGED <<blocks, current, nextValueId, locals, loopTargets>>

(* lowerIfStatement up to the then-body: then, merge and, if there is one, *)
(* else are created in this order.                                         *)
LowerIf ==
  LET value == ValueOf(Here.expr, nextValueId)
      then == Len(blocks)
      merge == then + 1
      else == IF Here.hasElse THEN then + 2 ELSE merge
  IN  /\ Lower("if", Known(Here.expr, slots))
      /\ blocks' = Ended(Extended(blocks, current,
                     ExprCode(Here.expr, nextValueId, slots)),
                     current, CondBranch(value, then, else))
                   \o NewBlocks(then, IF Here.hasElse THEN 3 ELSE 2)
      /\ nextValueId' = value + 1
      /\ current' = then
      /\ Push([kind |-> "if", next |-> merge, else |-> else])
      /\ UNCHANGED <<locals, loopTargets>>

(* Between the two bodies of an if.                                        *)
LowerElse ==
  /\ LoweringAt("else")
  /\ blocks' = FallsTo(Last(pending).next)
  /\ current' = Last(pending).else
  /\ slots' = Append(Front(slots), << >>)
  /\ at' = at + 1
  /\ UNCHANGED <<skipping, nextValueId, locals, loopTargets, pending, stage>>

MutWithCondition(bs, from, cond) ==
  LET value == ValueOf(Here.expr, nextValueId)
      code == ExprCode(Here.expr, nextValueId, slots)
  IN  Ended(Ended(Extended(bs, from, code), from, Branch(cond)),
            cond, CondBranch(value, cond + 1, cond + 2))

(* The blocks once control goes from one to the condition block of a loop, *)
(* where the condition is evaluated.                                       *)
WithCondition(bs, from, cond) ==
  LET value == ValueOf(Here.expr, nextValueId)
      code == ExprCode(Here.expr, nextValueId, slots)
  IN  Ended(Extended(Ended(bs, from, Branch(cond)), cond, code),
            cond, CondBranch(value, cond + 1, cond + 2))

(* lowerWhileStatement up to the body: condition, body and exit block are  *)
(* created in this order.                                                  *)
LowerWhile ==
  LET cond == Len(blocks)
      exit == cond + 2
  IN  /\ Lower("while", Known(Here.expr, slots))
      /\ blocks' = WithCondition(blocks \o NewBlocks(cond, 3), current, cond)
      /\ nextValueId' = ValueOf(Here.expr, nextValueId) + 1
      /\ current' = cond + 1
      /\ loopTargets' = Append(loopTargets, [continue |-> cond, break |-> exit])
      /\ Push([kind |-> "while", next |-> exit, else |-> cond])
      /\ UNCHANGED locals

(* The end of a body: what the three statements do after lowerBlock.       *)
Pop ==
  /\ slots' = Front(slots)
  /\ pending' = Front(pending)
  /\ at' = at + 1

CloseBlock ==
  /\ LoweringAt("close")
  /\ Last(pending).kind = "block"
  /\ Pop
  /\ UNCHANGED <<skipping, blocks, current, nextValueId, locals, loopTargets, stage>>

MutCloseIf ==
  /\ LoweringAt("close")
  /\ Last(pending).kind = "if"
  /\ Pop
  /\ blocks' = blocks
  /\ current' = Last(pending).next
  /\ UNCHANGED <<skipping, nextValueId, locals, loopTargets, stage>>

CloseIf ==
  /\ LoweringAt("close")
  /\ Last(pending).kind = "if"
  /\ Pop
  /\ blocks' = FallsTo(Last(pending).next)
  /\ current' = Last(pending).next
  /\ UNCHANGED <<skipping, nextValueId, locals, loopTargets, stage>>

CloseWhile ==
  /\ LoweringAt("close")
  /\ Last(pending).kind = "while"
  /\ Pop
  /\ loopTargets' = Front(loopTargets)
  /\ blocks' = FallsTo(Last(pending).else)
  /\ current' = Last(pending).next
  /\ UNCHANGED <<skipping, nextValueId, locals, stage>>

(* lowerBlock stops at the first statement after a terminator: this one    *)
(* and what it contains are passed over.                                   *)
SkipDead ==
  /\ stage = "lowering"
  /\ at <= Len(body)
  /\ skipping > 0 \/ (Here.kind \notin {"else", "close"} /\ HasTerminator(current))
  /\ skipping' = skipping + (IF Here.kind \in Openers THEN 1
                             ELSE IF Here.kind = "close" THEN -1 ELSE 0)
  /\ at' = at + 1
  /\ UNCHANGED <<blocks, current, nextValueId, locals, slots, loopTargets, pending, stage>>

FinishFunction ==
  /\ stage = "lowering"
  /\ at > Len(body)
  /\ stage' = "lowered"
  /\ blocks' = IF HasTerminator(current) THEN blocks
               ELSE Ended(blocks, current,
                      IF returnType = "void" THEN Return(None) ELSE Unreachable)
  /\ UNCHANGED <<at, skipping, current, nextValueId, locals, slots, loopTargets, pending>>

LoweringStep ==
  \/ StartFunction
  \/ LowerDeclare
  \/ LowerAssign
  \/ LowerPrint
  \/ LowerReturn
  \/ LowerJump
  \/ LowerBlock
  \/ LowerIf
  \/ LowerElse
  \/ LowerWhile
  \/ CloseBlock
  \/ CloseIf
  \/ CloseWhile
  \/ SkipDead
  \/ FinishFunction

(* The function that lowering has built.                                   *)
Lowered == [blocks |-> blocks, locals |-> Len(locals), void |-> returnType = "void"]
=============================================================================
