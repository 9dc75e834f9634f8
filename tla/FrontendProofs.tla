--------------------------- MODULE FrontendProofs ----------------------------
(***************************************************************************)
(* Theorems about runFrontendPipeline: what one stage relies on is what    *)
(* the stage before it established.                                        *)
(*                                                                         *)
(* FInv says it stage by stage.  While semantic analysis runs, its scopes  *)
(* and loop depth are those of the walk that LoweringProofs takes over the *)
(* body (SemaInv); an accepted body is Analyzed, so LInv of LoweringProofs *)
(* holds while it is lowered; a lowered function is Built, which makes it  *)
(* verified and local in its values, and then IInv of VirPassesProofs      *)
(* holds while the passes run.                                             *)
(*                                                                         *)
(* LiveInv follows the missing-return check through the stages: the        *)
(* statements that it found to return cover an accepted body, lowering     *)
(* keeps the code after them apart (KInv of LoweringProofs), and the       *)
(* passes erase it.                                                        *)
(***************************************************************************)
EXTENDS Frontend, SequenceLemmas

LP == INSTANCE LoweringProofs
PP == INSTANCE VirPassesProofs WITH Sources <- {}

(* The lowering and the passes that the proofs are about are those of the  *)
(* front end.                                                              *)
LEMMA SameStmt ==
  /\ Stmt = LP!Stmt
  /\ \A b : WellFormed(b) <=> LP!WellFormed(b)
  /\ \A b, i : OpenerOf(b, i) = LP!OpenerOf(b, i)
  /\ NoExpr = LP!NoExpr /\ Openers = LP!Openers /\ None = LP!None
<1>1. NoExpr = LP!NoExpr /\ Openers = LP!Openers /\ None = LP!None
  BY DEF NoExpr, LP!NoExpr, Openers, LP!Openers, None, LP!None
<1>2. \A b : Open(b) = LP!Open(b)
  BY <1>1, Zenon DEF Open, LP!Open, Front, LP!Front
<1>3. \A b : Parents(b) = LP!Parents(b)
  BY <1>2, Zenon DEF Parents, LP!Parents, Last, LP!Last
<1>4. \A b, i : OpenerOf(b, i) = LP!OpenerOf(b, i)
  BY <1>3 DEF OpenerOf, LP!OpenerOf
<1>5. \A b : WellFormed(b) <=> LP!WellFormed(b)
  <2>1. \A S : Cardinality(S) = LP!Cardinality(S)
    BY Zenon DEF Cardinality, LP!Cardinality
  <2> SUFFICES ASSUME NEW b
               PROVE  WellFormed(b) <=> LP!WellFormed(b)
    OBVIOUS
  <2> DEFINE Q == Parents(b)
  <2> DEFINE R == LP!Parents(b)
  <2> DEFINE Fits(p) ==
        /\ p[Len(b) + 1] = 0
        /\ \A i \in DOMAIN b :
             /\ b[i].kind \in {"else", "close"} => p[i] # 0
             /\ b[i].kind = "else" => b[p[i]].hasElse
             /\ Cardinality({k \in DOMAIN b : b[k].kind = "else" /\ p[k] = i})
                  = IF b[i].hasElse THEN 1 ELSE 0
  <2>2. WellFormed(b) <=> Fits(Q)
    BY Zenon DEF WellFormed
  <2>3. LP!WellFormed(b) <=> Fits(R)
    BY <2>1, Zenon DEF LP!WellFormed
  <2>4. Q = R
    BY <1>3
  <2> HIDE DEF Q, R, Fits
  <2> QED
    BY <2>2, <2>3, <2>4
<1>6. Expr = LP!Expr
  BY DEF Expr, LP!Expr
<1>7. Stmt = LP!Stmt
  BY <1>1, <1>6 DEF Stmt, LP!Stmt, VarDeclStmt, LP!VarDeclStmt, AssignStmt, LP!AssignStmt, PrintStmt, LP!PrintStmt,
     ReturnStmt, LP!ReturnStmt, BreakStmt, LP!BreakStmt, ContinueStmt, LP!ContinueStmt,
     BlockStmt, LP!BlockStmt, WhileStmt, LP!WhileStmt, IfStmt, LP!IfStmt,
     ElseMark, LP!ElseMark, CloseMark, LP!CloseMark, Plain, LP!Plain
<1> QED
  BY <1>1, <1>4, <1>5, <1>7

(* Lowering takes the same steps in both.                                  *)
LEMMA SameLowering ==
  /\ L!LoweringStep <=> LP!LoweringStep
  /\ L!LoweringInit <=> LP!LoweringInit
  /\ L!Lowered = LP!Lowered
  /\ \A s, x : L!LookupLocal(s, x) = LP!LookupLocal(s, x)
  /\ \A id : L!HasTerminator(id) <=> LP!HasTerminator(id)
<1>1. L!LoweringStep <=> LP!LoweringStep
  BY DEF L!LoweringStep, LP!LoweringStep,
  L!StartFunction, LP!StartFunction, L!LowerDeclare, LP!LowerDeclare,
  L!LowerAssign, LP!LowerAssign, L!LowerPrint, LP!LowerPrint, L!LowerReturn, LP!LowerReturn,
  L!LowerJump, LP!LowerJump, L!LowerBlock, LP!LowerBlock, L!LowerIf, LP!LowerIf,
  L!LowerElse, LP!LowerElse, L!LowerWhile, LP!LowerWhile, L!CloseBlock, LP!CloseBlock,
  L!CloseIf, LP!CloseIf, L!CloseWhile, LP!CloseWhile, L!SkipDead, LP!SkipDead,
  L!FinishFunction, LP!FinishFunction,
  L!NewBlocks, LP!NewBlocks, L!LookupLocal, LP!LookupLocal, L!Known, LP!Known,
  L!ExprCode, LP!ExprCode, L!ValueOf, LP!ValueOf, L!HasTerminator, LP!HasTerminator,
  L!Extended, LP!Extended, L!Ended, LP!Ended, L!FallsTo, LP!FallsTo, L!Here, LP!Here,
  L!LoweringAt, LP!LoweringAt, L!Lower, LP!Lower, L!JumpTarget, LP!JumpTarget,
  L!Push, LP!Push, L!Pop, LP!Pop, L!WithCondition, LP!WithCondition,
  L!With, LP!With, L!UsesName, LP!UsesName, L!Openers, LP!Openers, L!NoExpr, LP!NoExpr,
  L!None, LP!None, L!NoTerminator, LP!NoTerminator, L!Return, LP!Return, L!Branch, LP!Branch,
  L!CondBranch, LP!CondBranch, L!Unreachable, LP!Unreachable, L!Constant, LP!Constant,
  L!Load, LP!Load, L!Store, LP!Store, L!Operate, LP!Operate, L!Output, LP!Output,
  L!Last, LP!Last, L!Front, LP!Front, L!Max, LP!Max
<1>2. L!LoweringInit <=> LP!LoweringInit
  BY DEF L!LoweringInit, LP!LoweringInit
<1>3. L!Lowered = LP!Lowered
  BY DEF L!Lowered, LP!Lowered
<1>4. \A s, x : L!LookupLocal(s, x) = LP!LookupLocal(s, x)
  BY DEF L!LookupLocal, LP!LookupLocal, L!Max, LP!Max, L!None, LP!None
<1>5. \A id : L!HasTerminator(id) <=> LP!HasTerminator(id)
  BY DEF L!HasTerminator, LP!HasTerminator
<1> QED
  BY <1>1, <1>2, <1>3, <1>4, <1>5

(* So do the passes.                                                       *)
LEMMA SamePasses ==
  /\ P!PassStep <=> PP!PassStep
  /\ \A f : P!BlockLocalValues(f) <=> PP!BlockLocalValues(f)
  /\ \A f : P!Verified(f) <=> PP!Verified(f)
<1>1. \A f : P!Verified(f) <=> PP!Verified(f)
  BY DEF P!Verified, PP!Verified, P!UniqueBlockIds, PP!UniqueBlockIds,
  P!UniqueDefinitions, PP!UniqueDefinitions, P!OperandsDefined, PP!OperandsDefined,
  P!SlotsExist, PP!SlotsExist, P!TerminatorVerified, PP!TerminatorVerified,
  P!InstructionSites, PP!InstructionSites, P!At, PP!At, P!Precedes, PP!Precedes,
  P!Defined, PP!Defined, P!Ids, PP!Ids, P!Targets, PP!Targets, P!None, PP!None
<1>2. P!VerifyBefore <=> PP!VerifyBefore
  BY <1>1 DEF P!VerifyBefore, PP!VerifyBefore
<1>3. P!FoldBlock <=> PP!FoldBlock
  BY DEF P!FoldBlock, PP!FoldBlock, P!Folded, PP!Folded, P!TruthOf, PP!TruthOf,
  P!HoldsConstant, PP!HoldsConstant, P!InstructionSites, PP!InstructionSites, P!At, PP!At,
  P!Branch, PP!Branch, P!None, PP!None
<1>4. P!StartReach <=> PP!StartReach
  BY DEF P!StartReach, PP!StartReach
<1>5. P!VisitBlock <=> PP!VisitBlock
  BY DEF P!VisitBlock, PP!VisitBlock, P!Pushed, PP!Pushed, P!Ids, PP!Ids,
  P!BlockWithId, PP!BlockWithId, P!Last, PP!Last, P!Front, PP!Front
<1>6. P!EraseUnreachable <=> PP!EraseUnreachable
  <2>1. \A b, ids : P!Kept(b, ids) = PP!Kept(b, ids)
    BY Zenon DEF P!Kept, PP!Kept
  <2>2. \A S : P!Cardinality(S) = PP!Cardinality(S)
    BY Zenon DEF P!Cardinality, PP!Cardinality
  <2> QED
    BY <2>1, <2>2 DEF P!EraseUnreachable, PP!EraseUnreachable
<1>7. P!VerifyAfter <=> PP!VerifyAfter
  BY <1>1 DEF P!VerifyAfter, PP!VerifyAfter
<1>8. P!BuildFrame <=> PP!BuildFrame
  BY DEF P!BuildFrame, PP!BuildFrame, P!FrameComplete, PP!FrameComplete, P!Defined, PP!Defined,
  P!None, PP!None
<1>9. P!PassStep <=> PP!PassStep
  BY <1>2, <1>3, <1>4, <1>5, <1>6, <1>7, <1>8 DEF P!PassStep, PP!PassStep
<1>10. \A f : P!BlockLocalValues(f) <=> PP!BlockLocalValues(f)
  BY DEF P!BlockLocalValues, PP!BlockLocalValues, P!Defined, PP!Defined, P!None, PP!None
<1> QED
  BY <1>1, <1>9, <1>10

(* What lowering builds, without the names of its invariant.               *)
LEMMA BuiltFacts ==
  ASSUME LP!Built, returnType \in {"void", "bool"}
  PROVE  /\ blocks \in Seq(PP!Block) /\ Len(blocks) \in Nat \ {0}
         /\ Len(locals) \in Nat /\ nextValueId \in Nat
         /\ DOMAIN blocks = 1 .. Len(blocks)
         /\ \A i \in 1 .. Len(blocks) :
              /\ blocks[i].id = i - 1
              /\ Len(blocks[i].code) \in Nat
              /\ DOMAIN blocks[i].code = 1 .. Len(blocks[i].code)
              /\ blocks[i].term.kind # "missing"
              /\ PP!Targets(blocks[i].term) \subseteq 0 .. Len(blocks) - 1
         /\ \A i \in 1 .. Len(blocks) : \A j \in 1 .. Len(blocks[i].code) :
              /\ blocks[i].code[j].def \in {-1} \cup 0 .. nextValueId - 1
              /\ blocks[i].code[j].slot \in {-1} \cup 0 .. Len(locals) - 1
              /\ \A v \in blocks[i].code[j].uses :
                   v # -1 /\ \E k \in 1 .. j - 1 : blocks[i].code[k].def = v
         /\ \A i, k \in 1 .. Len(blocks) :
              \A j \in 1 .. Len(blocks[i].code), l \in 1 .. Len(blocks[k].code) :
                blocks[i].code[j].def = blocks[k].code[l].def /\ blocks[i].code[j].def # -1
                  => i = k /\ j = l
         /\ \A v \in 0 .. nextValueId - 1 :
              \E i \in 1 .. Len(blocks) : \E j \in 1 .. Len(blocks[i].code) :
                blocks[i].code[j].def = v
         /\ \A i \in 1 .. Len(blocks) :
              LET term == blocks[i].term
                  made == \E j \in 1 .. Len(blocks[i].code) : blocks[i].code[j].def = term.value
              IN  /\ term.kind = "return" => IF returnType = "void" THEN term.value = -1
                                             ELSE term.value # -1 /\ made
                  /\ term.kind = "cond" => term.value # -1 /\ made
                  /\ term.kind \notin {"return", "cond"} => term.value = -1
<1>1. /\ blocks # << >> /\ LP!Unfinished(blocks) = {}
      /\ LP!BlocksFine(blocks, nextValueId, Len(locals))
  BY DEF LP!Built, LP!Code
<1>2. LP!None = -1
  BY DEF LP!None
<1>3. /\ blocks \in Seq(LP!Block)
      /\ nextValueId \in Nat /\ Len(locals) \in Nat
      /\ \A i \in 1 .. Len(blocks) :
           /\ blocks[i].id = i - 1
           /\ LP!CodeFine(blocks[i].code, nextValueId, Len(locals))
           /\ LP!DefinesOnce(blocks[i].code)
           /\ LP!TermFine(blocks[i].term, blocks[i].code, Len(blocks))
      /\ \A i, k \in 1 .. Len(blocks) : \A v :
           LP!Makes(blocks[i].code, v) /\ LP!Makes(blocks[k].code, v) /\ v # LP!None => i = k
      /\ \A v \in 0 .. nextValueId - 1 : \E i \in 1 .. Len(blocks) : LP!Makes(blocks[i].code, v)
  BY <1>1 DEF LP!BlocksFine
<1>4. LP!Block = PP!Block
  BY DEF LP!Block, PP!Block, LP!Instruction, PP!Instruction, LP!Terminator, PP!Terminator
<1>5. \A t : LP!Targets(t) = PP!Targets(t)
  BY DEF LP!Targets, PP!Targets
<1>6. Len(blocks) \in Nat \ {0} /\ DOMAIN blocks = 1 .. Len(blocks)
  BY <1>1, <1>3, LengthFacts
<1>7. \A i \in 1 .. Len(blocks) :
        /\ blocks[i].code \in Seq(LP!Instruction)
        /\ Len(blocks[i].code) \in Nat
        /\ DOMAIN blocks[i].code = 1 .. Len(blocks[i].code)
        /\ \A j \in 1 .. Len(blocks[i].code) : blocks[i].code[j].uses \subseteq Nat
  <2> SUFFICES ASSUME NEW i \in 1 .. Len(blocks)
               PROVE  /\ blocks[i].code \in Seq(LP!Instruction)
                      /\ Len(blocks[i].code) \in Nat
                      /\ DOMAIN blocks[i].code = 1 .. Len(blocks[i].code)
                      /\ \A j \in 1 .. Len(blocks[i].code) : blocks[i].code[j].uses \subseteq Nat
    OBVIOUS
  <2>1. blocks[i].code \in Seq(LP!Instruction)
    BY <1>3 DEF LP!CodeFine
  <2>2. \A j \in 1 .. Len(blocks[i].code) : blocks[i].code[j] \in LP!Instruction
    BY <2>1, LengthFacts
  <2> QED
    BY <2>1, <2>2, LengthFacts DEF LP!Instruction
<1>8. \A i \in 1 .. Len(blocks) :
        /\ blocks[i].term.kind # "missing"
        /\ PP!Targets(blocks[i].term) \subseteq 0 .. Len(blocks) - 1
  <2>1. \A i \in 1 .. Len(blocks) : blocks[i].term.kind # "missing"
    <3> SUFFICES ASSUME NEW i \in 1 .. Len(blocks), blocks[i].term.kind = "missing"
                 PROVE  FALSE
      OBVIOUS
    <3>1. i - 1 \in 0 .. Len(blocks) - 1 /\ (i - 1) + 1 = i
      BY <1>6
    <3>2. i - 1 \in LP!Unfinished(blocks)
      BY <3>1 DEF LP!Unfinished
    <3> QED
      BY <1>1, <3>2
  <2> QED
    BY <1>3, <1>5, <2>1 DEF LP!TermFine
<1>9. \A i \in 1 .. Len(blocks) : \A j \in 1 .. Len(blocks[i].code) :
        /\ blocks[i].code[j].def \in {-1} \cup 0 .. nextValueId - 1
        /\ blocks[i].code[j].slot \in {-1} \cup 0 .. Len(locals) - 1
        /\ \A v \in blocks[i].code[j].uses :
             v # -1 /\ \E k \in 1 .. j - 1 : blocks[i].code[k].def = v
  <2> SUFFICES ASSUME NEW i \in 1 .. Len(blocks), NEW j \in 1 .. Len(blocks[i].code)
               PROVE  /\ blocks[i].code[j].def \in {-1} \cup 0 .. nextValueId - 1
                      /\ blocks[i].code[j].slot \in {-1} \cup 0 .. Len(locals) - 1
                      /\ \A v \in blocks[i].code[j].uses :
                           v # -1 /\ \E k \in 1 .. j - 1 : blocks[i].code[k].def = v
    OBVIOUS
  <2>1. blocks[i].code[j].uses \subseteq Nat
    BY <1>7
  <2>2. LP!CodeFine(blocks[i].code, nextValueId, Len(locals))
    BY <1>3
  <2>3. \A v \in Nat : v # -1
    OBVIOUS
  <2> QED
    BY <1>2, <2>1, <2>2, <2>3 DEF LP!CodeFine
<1>10. \A i \in 1 .. Len(blocks) : \A v : LP!Makes(blocks[i].code, v) <=>
         \E j \in 1 .. Len(blocks[i].code) : blocks[i].code[j].def = v
  BY DEF LP!Makes
<1>11. \A i, k \in 1 .. Len(blocks) :
         \A j \in 1 .. Len(blocks[i].code), l \in 1 .. Len(blocks[k].code) :
           blocks[i].code[j].def = blocks[k].code[l].def /\ blocks[i].code[j].def # -1
             => i = k /\ j = l
  <2> SUFFICES ASSUME NEW i \in 1 .. Len(blocks), NEW k \in 1 .. Len(blocks),
                      NEW j \in 1 .. Len(blocks[i].code), NEW l \in 1 .. Len(blocks[k].code),
                      blocks[i].code[j].def = blocks[k].code[l].def,
                      blocks[i].code[j].def # -1
               PROVE  i = k /\ j = l
    OBVIOUS
  <2> DEFINE v == blocks[i].code[j].def
  <2>1. LP!Makes(blocks[i].code, v) /\ LP!Makes(blocks[k].code, v)
    BY <1>10
  <2>2. i = k
    <3>1. v # LP!None
      BY <1>2
    <3> HIDE DEF v
    <3>2. \A w : LP!Makes(blocks[i].code, w) /\ LP!Makes(blocks[k].code, w) /\ w # LP!None => i = k
      BY <1>3
    <3> QED
      BY <2>1, <3>1, <3>2
  <2>3. LP!DefinesOnce(blocks[i].code)
    BY <1>3
  <2> QED
    BY <1>2, <2>2, <2>3 DEF LP!DefinesOnce
<1>12. \A v \in 0 .. nextValueId - 1 :
         \E i \in 1 .. Len(blocks) : \E j \in 1 .. Len(blocks[i].code) :
           blocks[i].code[j].def = v
  BY <1>3, <1>10
<1>13. ASSUME NEW i \in 1 .. Len(blocks)
       PROVE  LET term == blocks[i].term
                  made == \E j \in 1 .. Len(blocks[i].code) : blocks[i].code[j].def = term.value
              IN  /\ term.kind = "return" => IF returnType = "void" THEN term.value = -1
                                             ELSE term.value # -1 /\ made
                  /\ term.kind = "cond" => term.value # -1 /\ made
                  /\ term.kind \notin {"return", "cond"} => term.value = -1
  <2>1. LP!TermFine(blocks[i].term, blocks[i].code, Len(blocks))
    BY <1>3
  <2> QED
    BY <1>2, <1>10, <2>1 DEF LP!TermFine
<1> QED
  BY <1>3, <1>4, <1>6, <1>7, <1>8, <1>9, <1>11, <1>12, <1>13

(* The ids that a sequence of blocks defines.                              *)
LEMMA DefinedFacts ==
  ASSUME NEW bs, NEW v
  PROVE  v \in PP!Defined(bs) <=>
           v # -1 /\ \E i \in DOMAIN bs : \E j \in DOMAIN bs[i].code : bs[i].code[j].def = v
BY DEF PP!Defined, PP!None

(* The ids that one block defines.                                         *)
LEMMA DefinedInOne ==
  ASSUME NEW b, NEW v
  PROVE  v \in PP!Defined(<<b>>) <=> v # -1 /\ \E j \in DOMAIN b.code : b.code[j].def = v
<1>1. DOMAIN <<b>> = {1} /\ <<b>>[1] = b
  OBVIOUS
<1> QED
  BY <1>1, DefinedFacts

(* The places of the instructions of a function.                           *)
LEMMA PlaceFacts ==
  ASSUME NEW f
  PROVE  /\ \A s \in PP!InstructionSites(f) :
              /\ s = <<s[1], s[2]>>
              /\ s[1] \in DOMAIN f.blocks
              /\ s[2] \in DOMAIN f.blocks[s[1]].code
              /\ PP!At(f, s) = f.blocks[s[1]].code[s[2]]
         /\ \A i \in DOMAIN f.blocks : \A j \in DOMAIN f.blocks[i].code :
              /\ <<i, j>> \in PP!InstructionSites(f)
              /\ PP!At(f, <<i, j>>) = f.blocks[i].code[j]
BY DEF PP!InstructionSites, PP!At

(* Lowering builds a function that passes verification, uses values in the *)
(* blocks that define them, and numbers them without a gap.                *)
LEMMA BuiltIsVerified ==
  ASSUME LP!Built, returnType \in {"void", "bool"}
  PROVE  /\ LP!Lowered \in PP!Function
         /\ PP!Verified(LP!Lowered)
         /\ PP!BlockLocalValues(LP!Lowered)
         /\ PP!Defined(blocks) = 0 .. nextValueId - 1
         /\ PP!FrameComplete(LP!Lowered)
<1> DEFINE f == LP!Lowered
<1> DEFINE n == Len(blocks)
<1>1. /\ f.blocks = blocks /\ f.locals = Len(locals) /\ f.void = (returnType = "void")
      /\ f \in PP!Function
  BY BuiltFacts DEF LP!Lowered, PP!Function
<1> HIDE DEF f
<1>2. /\ n \in Nat \ {0} /\ DOMAIN blocks = 1 .. n /\ nextValueId \in Nat
      /\ \A i \in 1 .. n : DOMAIN blocks[i].code = 1 .. Len(blocks[i].code)
                            /\ Len(blocks[i].code) \in Nat
  BY BuiltFacts
<1>3. \A s \in PP!InstructionSites(f) :
        /\ s = <<s[1], s[2]>>
        /\ s[1] \in 1 .. n /\ s[2] \in 1 .. Len(blocks[s[1]].code)
        /\ PP!At(f, s) = blocks[s[1]].code[s[2]]
  BY <1>1, <1>2, PlaceFacts
<1>4. \A i \in 1 .. n : \A j \in 1 .. Len(blocks[i].code) :
        <<i, j>> \in PP!InstructionSites(f) /\ PP!At(f, <<i, j>>) = blocks[i].code[j]
  <2>1. \A i \in DOMAIN f.blocks : \A j \in DOMAIN f.blocks[i].code :
          /\ <<i, j>> \in PP!InstructionSites(f)
          /\ PP!At(f, <<i, j>>) = f.blocks[i].code[j]
    BY PlaceFacts
  <2> QED
    BY <1>1, <1>2, <2>1
<1>5. PP!None = -1
  BY DEF PP!None
<1>6. PP!Defined(blocks) = 0 .. nextValueId - 1
  <2>1. ASSUME NEW v \in PP!Defined(blocks)
        PROVE  v \in 0 .. nextValueId - 1
    <3>1. PICK i \in 1 .. n : \E j \in 1 .. Len(blocks[i].code) : blocks[i].code[j].def = v
      BY <1>2, <2>1, DefinedFacts
    <3>2. v # -1
      BY <2>1, DefinedFacts
    <3>3. PICK j \in 1 .. Len(blocks[i].code) : blocks[i].code[j].def = v
      BY <3>1
    <3>4. blocks[i].code[j].def \in {-1} \cup 0 .. nextValueId - 1
      BY BuiltFacts
    <3> QED
      BY <3>2, <3>3, <3>4
  <2>2. ASSUME NEW v \in 0 .. nextValueId - 1
        PROVE  v \in PP!Defined(blocks)
    <3>1. v # -1
      BY <1>2
    <3>2. \E i \in 1 .. n : \E j \in 1 .. Len(blocks[i].code) : blocks[i].code[j].def = v
      BY BuiltFacts
    <3> QED
      BY <1>2, <3>1, <3>2, DefinedFacts
  <2> QED
    BY <2>1, <2>2
<1>7. PP!UniqueBlockIds(f)
  <2>1. \A i \in 1 .. n : blocks[i].id = i - 1
    BY BuiltFacts
  <2> QED
    BY <1>1, <1>2, <2>1 DEF PP!UniqueBlockIds
<1>8. PP!UniqueDefinitions(f)
  <2> SUFFICES ASSUME NEW s \in PP!InstructionSites(f), NEW t \in PP!InstructionSites(f),
                      PP!At(f, s).def = PP!At(f, t).def, PP!At(f, s).def # PP!None
               PROVE  s = t
    BY DEF PP!UniqueDefinitions
  <2>1. /\ s[1] \in 1 .. n /\ s[2] \in 1 .. Len(blocks[s[1]].code)
        /\ t[1] \in 1 .. n /\ t[2] \in 1 .. Len(blocks[t[1]].code)
        /\ blocks[s[1]].code[s[2]].def = blocks[t[1]].code[t[2]].def
        /\ blocks[s[1]].code[s[2]].def # -1
    BY <1>3, <1>5
  <2>2. \A i, k \in 1 .. n :
          \A j \in 1 .. Len(blocks[i].code), l \in 1 .. Len(blocks[k].code) :
            blocks[i].code[j].def = blocks[k].code[l].def /\ blocks[i].code[j].def # -1
              => i = k /\ j = l
    BY BuiltFacts
  <2>3. s[1] = t[1] /\ s[2] = t[2]
    <3>1. \A j \in 1 .. Len(blocks[s[1]].code), l \in 1 .. Len(blocks[t[1]].code) :
            blocks[s[1]].code[j].def = blocks[t[1]].code[l].def /\ blocks[s[1]].code[j].def # -1
              => s[1] = t[1] /\ j = l
      BY <2>1, <2>2
    <3> QED
      BY <2>1, <3>1
  <2> QED
    BY <1>3, <2>3
<1>9. PP!OperandsDefined(f)
  <2> SUFFICES ASSUME NEW t \in PP!InstructionSites(f), NEW v \in PP!At(f, t).uses
               PROVE  \E s \in PP!InstructionSites(f) : PP!Precedes(s, t) /\ PP!At(f, s).def = v
    BY DEF PP!OperandsDefined
  <2>1. t[1] \in 1 .. n /\ t[2] \in 1 .. Len(blocks[t[1]].code)
        /\ PP!At(f, t) = blocks[t[1]].code[t[2]]
    BY <1>3
  <2>2. PICK k \in 1 .. t[2] - 1 : blocks[t[1]].code[k].def = v
    <3>1. \A i \in 1 .. n : \A j \in 1 .. Len(blocks[i].code) :
            /\ blocks[i].code[j].def \in {-1} \cup 0 .. nextValueId - 1
            /\ blocks[i].code[j].slot \in {-1} \cup 0 .. Len(locals) - 1
            /\ \A w \in blocks[i].code[j].uses :
                 w # -1 /\ \E k \in 1 .. j - 1 : blocks[i].code[k].def = w
      BY BuiltFacts
    <3>2. v \in blocks[t[1]].code[t[2]].uses
      BY <2>1
    <3> QED
      BY <2>1, <3>1, <3>2
  <2>3. k \in 1 .. Len(blocks[t[1]].code) /\ k < t[2]
    BY <1>2, <2>1, <2>2
  <2>4. <<t[1], k>> \in PP!InstructionSites(f) /\ PP!At(f, <<t[1], k>>) = blocks[t[1]].code[k]
    BY <1>4, <2>1, <2>3
  <2>5. PP!Precedes(<<t[1], k>>, t)
    BY <2>3 DEF PP!Precedes
  <2> QED
    BY <2>2, <2>4, <2>5
<1>10. PP!SlotsExist(f)
  <2> SUFFICES ASSUME NEW s \in PP!InstructionSites(f)
               PROVE  PP!At(f, s).slot \in {-1} \cup 0 .. Len(locals) - 1
    BY <1>1, <1>5 DEF PP!SlotsExist
  <2> QED
    BY <1>3, BuiltFacts
<1>11. ASSUME NEW i \in 1 .. n
       PROVE  PP!TerminatorVerified(f, blocks[i].term)
  <2> DEFINE term == blocks[i].term
  <2>1. term.kind # "missing" /\ PP!Targets(term) \subseteq 0 .. n - 1
    BY BuiltFacts
  <2>2. 0 .. n - 1 \subseteq PP!Ids(f.blocks)
    <3> SUFFICES ASSUME NEW id \in 0 .. n - 1
                 PROVE  id \in PP!Ids(f.blocks)
      OBVIOUS
    <3>1. id + 1 \in 1 .. n /\ (id + 1) - 1 = id
      BY <1>2
    <3>2. blocks[id + 1].id = id
      BY <3>1, BuiltFacts
    <3> QED
      BY <1>1, <1>2, <3>1, <3>2 DEF PP!Ids
  <2>3. term.kind \in {"return", "cond"} /\ ~ (term.kind = "return" /\ returnType = "void")
          => term.value \in PP!Defined(f.blocks)
    <3> SUFFICES ASSUME term.kind \in {"return", "cond"},
                        ~ (term.kind = "return" /\ returnType = "void")
                 PROVE  term.value \in PP!Defined(f.blocks)
      OBVIOUS
    <3>1. term.value # -1 /\ \E j \in 1 .. Len(blocks[i].code) : blocks[i].code[j].def = term.value
      BY BuiltFacts
    <3> QED
      BY <1>1, <1>2, <3>1, DefinedFacts
  <2>4. term.kind = "return" /\ returnType = "void" => term.value = -1
    BY BuiltFacts
  <2> QED
    BY <1>1, <1>5, <2>1, <2>2, <2>3, <2>4 DEF PP!TerminatorVerified
<1>12. PP!Verified(f)
  <2>1. f.blocks # << >>
    BY <1>1, <1>2
  <2> QED
    BY <1>1, <1>2, <1>7, <1>8, <1>9, <1>10, <1>11, <2>1 DEF PP!Verified
<1>13. PP!BlockLocalValues(f)
  <2> SUFFICES ASSUME NEW i \in 1 .. n
               PROVE  /\ \A j \in DOMAIN blocks[i].code :
                           blocks[i].code[j].uses \subseteq PP!Defined(<<blocks[i]>>)
                      /\ blocks[i].term.value \in PP!Defined(<<blocks[i]>>) \cup {-1}
    BY <1>1, <1>2, <1>5 DEF PP!BlockLocalValues
  <2>1. \A v : (v # -1 /\ \E j \in 1 .. Len(blocks[i].code) : blocks[i].code[j].def = v)
                 => v \in PP!Defined(<<blocks[i]>>)
    BY <1>2, DefinedInOne
  <2>2. ASSUME NEW j \in 1 .. Len(blocks[i].code), NEW v \in blocks[i].code[j].uses
        PROVE  v \in PP!Defined(<<blocks[i]>>)
    <3>1. PICK k \in 1 .. j - 1 : v # -1 /\ blocks[i].code[k].def = v
      BY BuiltFacts
    <3>2. k \in 1 .. Len(blocks[i].code)
      BY <1>2, <3>1
    <3> QED
      BY <2>1, <3>1, <3>2
  <2>3. blocks[i].term.value \in PP!Defined(<<blocks[i]>>) \cup {-1}
    <3> DEFINE v == blocks[i].term.value
    <3>1. v = -1 \/ (v # -1 /\ \E j \in 1 .. Len(blocks[i].code) : blocks[i].code[j].def = v)
      BY BuiltFacts
    <3> HIDE DEF v
    <3>2. v \in PP!Defined(<<blocks[i]>>) \cup {-1}
      BY <2>1, <3>1
    <3> QED
      BY <3>2 DEF v
  <2> QED
    BY <1>2, <2>2, <2>3
<1>14. PP!FrameComplete(f)
  BY <1>1, <1>2, <1>6 DEF PP!FrameComplete
<1> QED
  BY <1>1, <1>6, <1>12, <1>13, <1>14 DEF f

(* Where the walk of LoweringProofs is when i statements are analyzed.     *)
Walks(i) == LP!Walk(body)[i]

ReturnFits(i, seen) ==
  body[i].kind = "return" =>
    IF returnType = "" THEN (IF body[i].expr = NoExpr THEN "void" ELSE "bool") \in seen
    ELSE body[i].expr = NoExpr <=> returnType = "void"

(* While semantic analysis runs, its scopes and its loop depth are those   *)
(* of the walk, and the statements it has passed satisfy what lowering     *)
(* relies on.                                                              *)
SemaInv ==
  /\ returnType \in {"void", "bool", ""}
  /\ pos \in 1 .. Len(body) + 1
  /\ scopes = Walks(pos - 1).scopes
  /\ loopDepth = LP!Depth(Walks(pos - 1), Len(Walks(pos - 1).depths))
  /\ inferred \subseteq {"void", "bool"}
  /\ \A i \in 1 .. pos - 1 : LP!Resolved(body, i) /\ ReturnFits(i, inferred)

(* What it recorded for a statement is what the name meant there.          *)
OperandsAre ==
  /\ DOMAIN operand \subseteq 1 .. pos - 1
  /\ DOMAIN target \subseteq 1 .. pos - 1
  /\ \A i \in DOMAIN operand :
       /\ UsesName(body[i].expr)
       /\ operand[i] = LP!LookupLocal(Walks(i - 1).scopes, body[i].expr[2])
  /\ \A i \in DOMAIN target :
       /\ body[i].kind = "assign"
       /\ target[i] = LP!LookupLocal(Walks(i - 1).scopes, body[i].name)

(* The body that is analyzed.                                              *)
LEMMA BodyFacts ==
  ASSUME body \in Bodies
  PROVE  /\ body \in Seq(LP!Stmt) /\ LP!WellFormed(body)
         /\ Len(body) \in Nat
         /\ \A i \in 1 .. Len(body) : body[i] \in LP!Stmt
<1>1. body \in Seq(LP!Stmt) /\ LP!WellFormed(body)
  BY BodyAssumption, SameStmt
<1> QED
  BY <1>1, LengthFacts

(* Names are looked up in the same way.                                    *)
LEMMA SameLookups ==
  /\ \A x : Lookup(x) = LP!LookupLocal(scopes, x)
  /\ \A e : Resolves(e) <=> LP!Known(e, scopes)
  /\ \A f, x, v : With(f, x, v) = LP!With(f, x, v)
<1>1. \A x : Lookup(x) = LP!LookupLocal(scopes, x)
  BY DEF Lookup, LP!LookupLocal, Undefined, LP!None, Max, LP!Max
<1>2. \A e : Resolves(e) <=> LP!Known(e, scopes)
  BY <1>1 DEF Resolves, LP!Known, UsesName, LP!UsesName, Undefined, LP!None
<1>3. \A f, x, v : With(f, x, v) = LP!With(f, x, v)
  BY DEF With, LP!With
<1> QED
  BY <1>1, <1>2, <1>3

(* Where a statement is found, and what the walk makes of it.              *)
LEMMA AtFacts ==
  ASSUME body \in Bodies, SemaInv, pos <= Len(body)
  PROVE  /\ pos \in 1 .. Len(body) /\ (pos + 1) - 1 = pos /\ pos \in Nat
         /\ pos + 1 \in 1 .. Len(body) + 1
         /\ Here = body[pos] /\ Here \in LP!Stmt
         /\ Walks(pos) = LP!Walked(body, pos, Walks(pos - 1))
         /\ scopes \in Seq(LP!Scope) /\ scopes # << >> /\ Len(scopes) \in Nat \ {0}
         /\ Len(Walks(pos - 1).depths) + 1 = Len(scopes)
<1>1. pos \in 1 .. Len(body) /\ (pos + 1) - 1 = pos /\ pos \in Nat
      /\ pos + 1 \in 1 .. Len(body) + 1
  <2>1. Len(body) \in Nat
    BY BodyFacts
  <2>2. pos \in 1 .. Len(body) + 1
    BY DEF SemaInv
  <2> QED
    BY <2>1, <2>2
<1>2. Here = body[pos] /\ Here \in LP!Stmt
  BY <1>1, BodyFacts DEF Here
<1>3. Walks(pos) = LP!Walked(body, pos, Walks(pos - 1))
  BY <1>1, BodyFacts, LP!WalkFacts DEF Walks
<1>4. LP!Nested(body, pos - 1) /\ Walks(pos - 1).scopes \in Seq(LP!Scope)
      /\ LP!Open(body)[pos - 1] \in Seq(1 .. Len(body))
  BY <1>1, BodyFacts, LP!OuterKept DEF Walks
<1>5. /\ Len(scopes) = Len(LP!Open(body)[pos - 1]) + 1
      /\ Len(Walks(pos - 1).depths) = Len(LP!Open(body)[pos - 1])
  BY <1>4 DEF SemaInv, LP!Nested, Walks
<1>6. Len(LP!Open(body)[pos - 1]) \in Nat
  BY <1>4, LengthFacts
<1>7. scopes \in Seq(LP!Scope) /\ Len(scopes) \in Nat \ {0}
  <2>1. scopes = Walks(pos - 1).scopes
    BY DEF SemaInv
  <2> QED
    BY <1>4, <1>5, <1>6, <2>1
<1> QED
  BY <1>1, <1>2, <1>3, <1>5, <1>6, <1>7, LengthFacts

(* A statement is analyzed without an error.                               *)
LEMMA SemaNext ==
  ASSUME body \in Bodies, SemaInv, OperandsAre, pos <= Len(body), pos' = pos + 1,
         UNCHANGED <<body, returnType>>,
         LP!Resolved(body, pos), ReturnFits(pos, inferred'),
         inferred \subseteq inferred', inferred' \subseteq {"void", "bool"},
         scopes' = Walks(pos).scopes,
         loopDepth' = LP!Depth(Walks(pos), Len(Walks(pos).depths)),
         \/ operand' = operand
         \/ UsesName(Here.expr) /\ operand' = With(operand, pos, Lookup(Here.expr[2])),
         \/ target' = target
         \/ Here.kind = "assign" /\ target' = With(target, pos, Lookup(Here.name))
  PROVE  SemaInv' /\ OperandsAre'
<1>1. pos \in 1 .. Len(body) /\ (pos + 1) - 1 = pos /\ pos \in Nat /\ Here = body[pos]
      /\ pos + 1 \in 1 .. Len(body) + 1
  BY AtFacts
<1>2. \A i : Walks(i)' = Walks(i)
  BY DEF Walks
<1>3. /\ 1 .. pos - 1 \subseteq 1 .. pos /\ pos \in 1 .. pos
      /\ \A i \in 1 .. pos : i \in 1 .. pos - 1 \/ i = pos
      /\ pos \notin 1 .. pos - 1
  BY <1>1
<1>4. (pos - 1)' = pos
  BY <1>1
<1>5. SemaInv'
  <2>1. returnType' \in {"void", "bool", ""} /\ pos' \in 1 .. Len(body') + 1
    BY <1>1 DEF SemaInv
  <2>2. \A i \in 1 .. pos : LP!Resolved(body, i) /\ ReturnFits(i, inferred')
    <3>1. \A i \in 1 .. pos - 1 : LP!Resolved(body, i) /\ ReturnFits(i, inferred')
      BY DEF SemaInv, ReturnFits
    <3>2. \A i \in 1 .. pos : i \in 1 .. pos - 1 \/ i = pos
      BY <1>3
    <3> QED
      BY <3>1, <3>2
  <2>3. \A i \in 1 .. pos : LP!Resolved(body, i)' /\ ReturnFits(i, inferred)'
    <3>1. \A i : LP!Resolved(body, i)' <=> LP!Resolved(body, i)
      BY DEF LP!Resolved
    <3>2. \A i : ReturnFits(i, inferred)' <=> ReturnFits(i, inferred')
      BY DEF ReturnFits
    <3> QED
      BY <2>2, <3>1, <3>2
  <2>4. /\ scopes' = (Walks(pos - 1).scopes)'
        /\ loopDepth' = LP!Depth(Walks(pos - 1)', Len(Walks(pos - 1)'.depths))
    BY <1>1 DEF Walks
  <2> QED
    BY <1>4, <2>1, <2>3, <2>4 DEF SemaInv
<1>6. LP!LookupLocal(Walks(pos - 1).scopes, Here.expr[2]) = Lookup(Here.expr[2])
      /\ LP!LookupLocal(Walks(pos - 1).scopes, Here.name) = Lookup(Here.name)
  BY SameLookups DEF SemaInv
<1>7. /\ DOMAIN operand' \subseteq 1 .. pos
      /\ \A i \in DOMAIN operand' :
           /\ UsesName(body[i].expr)
           /\ operand'[i] = LP!LookupLocal(Walks(i - 1).scopes, body[i].expr[2])
  <2>1. CASE operand' = operand
    BY <1>3, <2>1 DEF OperandsAre
  <2>2. CASE UsesName(Here.expr) /\ operand' = With(operand, pos, Lookup(Here.expr[2]))
    <3>1. pos \notin DOMAIN operand /\ DOMAIN operand \subseteq 1 .. pos - 1
      BY <1>3 DEF OperandsAre
    <3>2. /\ DOMAIN operand' = DOMAIN operand \cup {pos}
          /\ \A i \in DOMAIN operand : operand'[i] = operand[i]
          /\ operand'[pos] = Lookup(Here.expr[2])
      BY <2>2, <3>1 DEF With
    <3>3. \A i \in DOMAIN operand :
            /\ UsesName(body[i].expr)
            /\ operand[i] = LP!LookupLocal(Walks(i - 1).scopes, body[i].expr[2])
      BY DEF OperandsAre
    <3>4. operand'[pos] = LP!LookupLocal(Walks(pos - 1).scopes, body[pos].expr[2])
      BY <1>1, <1>6, <3>2
    <3> QED
      BY <1>1, <1>3, <2>2, <3>1, <3>2, <3>3, <3>4
  <2> QED
    BY <2>1, <2>2
<1>8. /\ DOMAIN target' \subseteq 1 .. pos
      /\ \A i \in DOMAIN target' :
           /\ body[i].kind = "assign"
           /\ target'[i] = LP!LookupLocal(Walks(i - 1).scopes, body[i].name)
  <2>1. CASE target' = target
    BY <1>3, <2>1 DEF OperandsAre
  <2>2. CASE Here.kind = "assign" /\ target' = With(target, pos, Lookup(Here.name))
    <3>1. pos \notin DOMAIN target /\ DOMAIN target \subseteq 1 .. pos - 1
      BY <1>3 DEF OperandsAre
    <3>2. /\ DOMAIN target' = DOMAIN target \cup {pos}
          /\ \A i \in DOMAIN target : target'[i] = target[i]
          /\ target'[pos] = Lookup(Here.name)
      BY <2>2, <3>1 DEF With
    <3>3. \A i \in DOMAIN target :
            /\ body[i].kind = "assign"
            /\ target[i] = LP!LookupLocal(Walks(i - 1).scopes, body[i].name)
      BY DEF OperandsAre
    <3>4. target'[pos] = LP!LookupLocal(Walks(pos - 1).scopes, body[pos].name)
      BY <1>1, <1>6, <3>2
    <3> QED
      BY <1>1, <1>3, <2>2, <3>1, <3>2, <3>3, <3>4
  <2> QED
    BY <2>1, <2>2
<1>9. \A i, x : LP!LookupLocal(Walks(i - 1).scopes, x)' = LP!LookupLocal(Walks(i - 1).scopes, x)
  BY DEF LP!LookupLocal, Walks
<1>10. OperandsAre'
  BY <1>2, <1>4, <1>7, <1>8 DEF OperandsAre
<1> QED
  BY <1>5, <1>10

(* A statement that analysis accepts.                                      *)
LEMMA Accepted ==
  ASSUME body \in Bodies, SemaInv, NEW kind, NEW fine \in BOOLEAN, Analyze(kind, fine),
         verdict' = "analyzing"
  PROVE  /\ fine /\ pos <= Len(body) /\ pos' = pos + 1 /\ Here.kind = kind
         /\ UNCHANGED <<body, returnType>>
         /\ pos \in 1 .. Len(body) /\ Here = body[pos] /\ Here \in LP!Stmt
         /\ scopes = Walks(pos - 1).scopes
         /\ loopDepth = LP!Depth(Walks(pos - 1), Len(Walks(pos - 1).depths))
         /\ inferred \subseteq {"void", "bool"}
BY AtFacts DEF Analyze, At, Here, SemaInv

(* A statement without a body that declares nothing leaves the walk where  *)
(* it is.                                                                  *)
LEMMA PlainStays ==
  ASSUME body \in Bodies, SemaInv, pos <= Len(body),
         Here.kind \notin LP!Openers \cup {"close", "else", "declare"}
  PROVE  /\ scopes = Walks(pos).scopes
         /\ loopDepth = LP!Depth(Walks(pos), Len(Walks(pos).depths))
<1>1. pos \in 1 .. Len(body) /\ Here = body[pos]
  BY AtFacts
<1>2. Walks(pos) = Walks(pos - 1)
  BY <1>1, BodyFacts, LP!PlainStep DEF Walks
<1> QED
  BY <1>2 DEF SemaInv

(* What a resolved expression is to lowering.                              *)
LEMMA ResolvedExpr ==
  ASSUME body \in Bodies, SemaInv, pos <= Len(body),
         Here.kind \in {"print", "return", "if", "while", "assign"},
         Here.expr # NoExpr => Resolves(Here.expr),
         Here.kind = "assign" => Lookup(Here.name) # Undefined
  PROVE  LP!Resolved(body, pos)
<1>1. Here = body[pos] /\ scopes = Walks(pos - 1).scopes
  BY AtFacts DEF SemaInv
<1>2. LP!NoExpr = NoExpr /\ LP!None = Undefined
  BY SameStmt DEF LP!None, Undefined
<1> QED
  BY <1>1, <1>2, SameLookups DEF LP!Resolved, Walks

(* Assigning reads a name and looks another one up.                        *)
LEMMA AnalyzeAssignFits ==
  ASSUME body \in Bodies, SemaInv, OperandsAre, AnalyzeAssign, verdict' = "analyzing"
  PROVE  SemaInv' /\ OperandsAre'
<1> DEFINE fine == Resolves(Here.expr) /\ Lookup(Here.name) # Undefined
<1>1. /\ Analyze("assign", fine) /\ fine \in BOOLEAN
      /\ Reads(Here.expr)
      /\ target' = With(target, pos, Lookup(Here.name))
      /\ UNCHANGED <<scopes, loopDepth, inferred>>
  BY DEF AnalyzeAssign
<1> HIDE DEF fine
<1>2. /\ fine /\ pos <= Len(body) /\ pos' = pos + 1 /\ Here.kind = "assign"
      /\ UNCHANGED <<body, returnType>> /\ inferred \subseteq {"void", "bool"}
      /\ Here = body[pos]
  BY <1>1, Accepted
<1>3. LP!Resolved(body, pos)
  BY <1>2, ResolvedExpr DEF fine
<1>4. /\ scopes = Walks(pos).scopes
      /\ loopDepth = LP!Depth(Walks(pos), Len(Walks(pos).depths))
  BY <1>2, PlainStays DEF LP!Openers
<1>5. ReturnFits(pos, inferred')
  BY <1>2 DEF ReturnFits
<1>6. \/ operand' = operand
      \/ UsesName(Here.expr) /\ operand' = With(operand, pos, Lookup(Here.expr[2]))
  BY <1>1 DEF Reads, UsesName
<1> QED
  BY <1>1, <1>2, <1>3, <1>4, <1>5, <1>6, SemaNext

(* Printing reads a name.                                                  *)
LEMMA AnalyzePrintFits ==
  ASSUME body \in Bodies, SemaInv, OperandsAre, AnalyzePrint, verdict' = "analyzing"
  PROVE  SemaInv' /\ OperandsAre'
<1> DEFINE fine == Resolves(Here.expr)
<1>1. /\ Analyze("print", fine) /\ fine \in BOOLEAN
      /\ Reads(Here.expr)
      /\ UNCHANGED <<scopes, loopDepth, inferred, target>>
  BY DEF AnalyzePrint, Resolves
<1> HIDE DEF fine
<1>2. /\ fine /\ pos <= Len(body) /\ pos' = pos + 1 /\ Here.kind = "print"
      /\ UNCHANGED <<body, returnType>> /\ inferred \subseteq {"void", "bool"}
      /\ Here = body[pos]
  BY <1>1, Accepted
<1>3. LP!Resolved(body, pos)
  BY <1>2, ResolvedExpr DEF fine
<1>4. /\ scopes = Walks(pos).scopes
      /\ loopDepth = LP!Depth(Walks(pos), Len(Walks(pos).depths))
  BY <1>2, PlainStays DEF LP!Openers
<1>5. ReturnFits(pos, inferred')
  BY <1>2 DEF ReturnFits
<1>6. \/ operand' = operand
      \/ UsesName(Here.expr) /\ operand' = With(operand, pos, Lookup(Here.expr[2]))
  BY <1>1 DEF Reads, UsesName
<1> QED
  BY <1>1, <1>2, <1>3, <1>4, <1>5, <1>6, SemaNext

(* Each return agrees with the declared type, or is remembered.            *)
LEMMA AnalyzeReturnFits ==
  ASSUME body \in Bodies, SemaInv, OperandsAre, AnalyzeReturn, verdict' = "analyzing"
  PROVE  SemaInv' /\ OperandsAre'
<1> DEFINE fine == CASE returnType = "" -> Resolves(Here.expr)
                     [] returnType = "void" -> Here.expr = NoExpr
                     [] OTHER -> Here.expr # NoExpr /\ Resolves(Here.expr)
<1>1. /\ Analyze("return", fine) /\ fine \in BOOLEAN
      /\ IF returnType = "void" THEN ReadsNothing ELSE Reads(Here.expr)
      /\ inferred' = IF returnType = "" THEN inferred \cup {TypeOfReturn} ELSE inferred
      /\ UNCHANGED <<scopes, loopDepth, target>>
  BY DEF AnalyzeReturn, Resolves
<1> HIDE DEF fine
<1>2. /\ fine /\ pos <= Len(body) /\ pos' = pos + 1 /\ Here.kind = "return"
      /\ UNCHANGED <<body, returnType>> /\ inferred \subseteq {"void", "bool"}
      /\ Here = body[pos]
  BY <1>1, Accepted
<1>3. Here.expr # NoExpr => Resolves(Here.expr)
  BY <1>2 DEF fine
<1>4. LP!Resolved(body, pos)
  BY <1>2, <1>3, ResolvedExpr
<1>5. /\ scopes = Walks(pos).scopes
      /\ loopDepth = LP!Depth(Walks(pos), Len(Walks(pos).depths))
  BY <1>2, PlainStays DEF LP!Openers
<1>6. TypeOfReturn = (IF Here.expr = NoExpr THEN "void" ELSE "bool")
  BY DEF TypeOfReturn
<1>7. ReturnFits(pos, inferred')
  <2>1. CASE returnType = ""
    BY <1>1, <1>2, <1>6, <2>1 DEF ReturnFits
  <2>2. CASE returnType = "void"
    BY <1>2, <2>2 DEF ReturnFits, fine
  <2>3. CASE returnType \notin {"", "void"}
    BY <1>2, <2>3 DEF ReturnFits, fine
  <2> QED
    BY <2>1, <2>2, <2>3
<1>8. \/ operand' = operand
      \/ UsesName(Here.expr) /\ operand' = With(operand, pos, Lookup(Here.expr[2]))
  BY <1>1 DEF Reads, UsesName, ReadsNothing
<1>9. inferred \subseteq inferred' /\ inferred' \subseteq {"void", "bool"}
  BY <1>1, <1>2, <1>6
<1> QED
  BY <1>1, <1>2, <1>4, <1>5, <1>7, <1>8, <1>9, SemaNext

(* A jump is accepted inside a loop only.                                  *)
LEMMA AnalyzeJumpFits ==
  ASSUME body \in Bodies, SemaInv, OperandsAre, AnalyzeJump, verdict' = "analyzing"
  PROVE  SemaInv' /\ OperandsAre'
<1> DEFINE fine == loopDepth > 0
<1>1. PICK kind \in {"break", "continue"} : Analyze(kind, fine)
  BY DEF AnalyzeJump
<1>2. UNCHANGED <<scopes, loopDepth, inferred, operand, target>> /\ fine \in BOOLEAN
  BY DEF AnalyzeJump
<1> HIDE DEF fine
<1>3. /\ fine /\ pos <= Len(body) /\ pos' = pos + 1 /\ Here.kind = kind
      /\ UNCHANGED <<body, returnType>> /\ inferred \subseteq {"void", "bool"}
      /\ Here = body[pos]
      /\ loopDepth = LP!Depth(Walks(pos - 1), Len(Walks(pos - 1).depths))
  BY <1>1, <1>2, Accepted
<1>4. LP!Resolved(body, pos)
  BY <1>1, <1>3 DEF LP!Resolved, Walks, fine
<1>5. /\ scopes = Walks(pos).scopes
      /\ loopDepth = LP!Depth(Walks(pos), Len(Walks(pos).depths))
  BY <1>1, <1>3, PlainStays DEF LP!Openers
<1>6. ReturnFits(pos, inferred')
  BY <1>1, <1>3 DEF ReturnFits
<1> QED
  BY <1>2, <1>3, <1>4, <1>5, <1>6, SemaNext

(* An opener adds a scope to the walk, and a loop to the depth when it is  *)
(* one.                                                                    *)
LEMMA OpenerAdds ==
  ASSUME body \in Bodies, SemaInv, pos <= Len(body), Here.kind \in LP!Openers
  PROVE  /\ PushScope = Walks(pos).scopes
         /\ LP!Depth(Walks(pos), Len(Walks(pos).depths))
              = loopDepth + (IF Here.kind = "while" THEN 1 ELSE 0)
<1> DEFINE w == Walks(pos - 1)
<1> DEFINE depth == LP!Depth(w, Len(w.depths)) + LP!Loops(body, pos)
<1>1. Here = body[pos] /\ pos \in 1 .. Len(body) /\ Walks(pos) = LP!Walked(body, pos, w)
  BY AtFacts
<1>2. Walks(pos).depths = Append(w.depths, depth) /\ Walks(pos).scopes = Append(w.scopes, << >>)
  BY <1>1 DEF LP!Walked, LP!EmptyScope
<1>3. depth = loopDepth + (IF Here.kind = "while" THEN 1 ELSE 0)
  BY <1>1 DEF LP!Loops, SemaInv
<1>4. w.depths \in Seq(Nat)
  <2>1. pos - 1 \in 0 .. Len(body)
    BY <1>1, BodyFacts
  <2>2. w \in LP!WalkState
    BY <2>1, BodyFacts, LP!WalkFacts DEF Walks
  <2> QED
    BY <2>2 DEF LP!WalkState
<1> HIDE DEF depth
<1>5. LP!Depth(Walks(pos), Len(Walks(pos).depths)) = depth
  <2>1. Len(Walks(pos).depths) # 0 /\ Walks(pos).depths[Len(Walks(pos).depths)] = depth
    BY <1>2, <1>4
  <2> QED
    BY <2>1 DEF LP!Depth
<1> QED
  BY <1>2, <1>3, <1>5 DEF SemaInv, PushScope, EmptyScope

(* Depths are numbers.                                                     *)
LEMMA DepthsAreNumbers ==
  ASSUME NEW w, w.depths \in Seq(Nat), NEW k \in 0 .. Len(w.depths)
  PROVE  LP!Depth(w, k) \in Nat
<1>1. \A i \in 1 .. Len(w.depths) : w.depths[i] \in Nat
  BY LengthFacts
<1>2. k = 0 \/ k \in 1 .. Len(w.depths)
  BY LengthFacts
<1> QED
  BY <1>1, <1>2 DEF LP!Depth

(* The walk where a statement is found, and its depth.                     *)
LEMMA DepthIsInteger ==
  ASSUME body \in Bodies, SemaInv, pos <= Len(body)
  PROVE  /\ Walks(pos - 1) \in LP!WalkState
         /\ Walks(pos - 1).depths \in Seq(Nat)
         /\ loopDepth \in Int
<1>1. pos - 1 \in 0 .. Len(body)
  BY AtFacts, BodyFacts
<1>2. Walks(pos - 1) \in LP!WalkState
  BY <1>1, BodyFacts, LP!WalkFacts DEF Walks
<1>3. Walks(pos - 1).depths \in Seq(Nat)
  BY <1>2 DEF LP!WalkState
<1>4. Len(Walks(pos - 1).depths) \in 0 .. Len(Walks(pos - 1).depths)
  BY <1>3, LengthFacts
<1>5. LP!Depth(Walks(pos - 1), Len(Walks(pos - 1).depths)) \in Nat
  BY <1>3, <1>4, DepthsAreNumbers
<1>6. loopDepth = LP!Depth(Walks(pos - 1), Len(Walks(pos - 1).depths))
  BY DEF SemaInv
<1>7. loopDepth \in Nat
  BY <1>5, <1>6
<1> QED
  BY <1>2, <1>3, <1>7

(* A block needs a scope and nothing else.                                 *)
LEMMA EnterBlockFits ==
  ASSUME body \in Bodies, SemaInv, OperandsAre, EnterBlock, verdict' = "analyzing"
  PROVE  SemaInv' /\ OperandsAre'
<1>1. /\ Analyze("block", TRUE)
      /\ scopes' = PushScope
      /\ UNCHANGED <<loopDepth, inferred, operand, target>>
  BY DEF EnterBlock
<1>2. /\ pos <= Len(body) /\ pos' = pos + 1 /\ Here.kind = "block"
      /\ UNCHANGED <<body, returnType>> /\ inferred \subseteq {"void", "bool"}
      /\ Here = body[pos]
      /\ loopDepth = LP!Depth(Walks(pos - 1), Len(Walks(pos - 1).depths))
      /\ pos \in 1 .. Len(body)
  BY <1>1, Accepted
<1>3. LP!Resolved(body, pos)
  BY <1>2 DEF LP!Resolved
<1>4. loopDepth \in Int
  BY <1>2, DepthIsInteger
<1>5. scopes' = Walks(pos).scopes /\ loopDepth' = LP!Depth(Walks(pos), Len(Walks(pos).depths))
  BY <1>1, <1>2, <1>4, OpenerAdds DEF LP!Openers
<1>6. ReturnFits(pos, inferred')
  BY <1>2 DEF ReturnFits
<1> QED
  BY <1>1, <1>2, <1>3, <1>5, <1>6, SemaNext

(* The then-body of an if has a scope of its own.                          *)
LEMMA EnterIfFits ==
  ASSUME body \in Bodies, SemaInv, OperandsAre, EnterIf, verdict' = "analyzing"
  PROVE  SemaInv' /\ OperandsAre'
<1> DEFINE fine == Resolves(Here.expr)
<1>1. /\ Analyze("if", fine) /\ fine \in BOOLEAN
      /\ Reads(Here.expr) /\ scopes' = PushScope
      /\ UNCHANGED <<loopDepth, inferred, target>>
  BY DEF EnterIf, Resolves
<1> HIDE DEF fine
<1>2. /\ fine /\ pos <= Len(body) /\ pos' = pos + 1 /\ Here.kind = "if"
      /\ UNCHANGED <<body, returnType>> /\ inferred \subseteq {"void", "bool"}
      /\ Here = body[pos]
  BY <1>1, Accepted
<1>3. LP!Resolved(body, pos)
  BY <1>2, ResolvedExpr DEF fine
<1>4. scopes' = Walks(pos).scopes /\ loopDepth' = LP!Depth(Walks(pos), Len(Walks(pos).depths))
  BY <1>1, <1>2, OpenerAdds, DepthIsInteger DEF LP!Openers
<1>5. ReturnFits(pos, inferred')
  BY <1>2 DEF ReturnFits
<1>6. \/ operand' = operand
      \/ UsesName(Here.expr) /\ operand' = With(operand, pos, Lookup(Here.expr[2]))
  BY <1>1 DEF Reads, UsesName
<1> QED
  BY <1>1, <1>2, <1>3, <1>4, <1>5, <1>6, SemaNext

(* So has the body of a loop, which is one loop deeper.                    *)
LEMMA EnterWhileFits ==
  ASSUME body \in Bodies, SemaInv, OperandsAre, EnterWhile, verdict' = "analyzing"
  PROVE  SemaInv' /\ OperandsAre'
<1> DEFINE fine == Resolves(Here.expr)
<1>1. /\ Analyze("while", fine) /\ fine \in BOOLEAN
      /\ Reads(Here.expr) /\ scopes' = PushScope /\ loopDepth' = loopDepth + 1
      /\ UNCHANGED <<inferred, target>>
  BY DEF EnterWhile, Resolves
<1> HIDE DEF fine
<1>2. /\ fine /\ pos <= Len(body) /\ pos' = pos + 1 /\ Here.kind = "while"
      /\ UNCHANGED <<body, returnType>> /\ inferred \subseteq {"void", "bool"}
      /\ Here = body[pos]
  BY <1>1, Accepted
<1>3. LP!Resolved(body, pos)
  BY <1>2, ResolvedExpr DEF fine
<1>4. scopes' = Walks(pos).scopes /\ loopDepth' = LP!Depth(Walks(pos), Len(Walks(pos).depths))
  BY <1>1, <1>2, OpenerAdds DEF LP!Openers
<1>5. ReturnFits(pos, inferred')
  BY <1>2 DEF ReturnFits
<1>6. \/ operand' = operand
      \/ UsesName(Here.expr) /\ operand' = With(operand, pos, Lookup(Here.expr[2]))
  BY <1>1 DEF Reads, UsesName
<1> QED
  BY <1>1, <1>2, <1>3, <1>4, <1>5, <1>6, SemaNext

(* A declaration is analyzed before its name is declared.                  *)
LEMMA AnalyzeDeclareFits ==
  ASSUME body \in Bodies, SemaInv, OperandsAre, AnalyzeDeclare, verdict' = "analyzing"
  PROVE  SemaInv' /\ OperandsAre'
<1> DEFINE fine == Resolves(Here.expr) /\ Here.name \notin DOMAIN Last(scopes)
<1>1. /\ Analyze("declare", fine) /\ fine \in BOOLEAN
      /\ Reads(Here.expr)
      /\ scopes' = [scopes EXCEPT ![Len(scopes)] = With(@, Here.name, pos)]
      /\ UNCHANGED <<loopDepth, inferred, target>>
  BY DEF AnalyzeDeclare
<1> HIDE DEF fine
<1>2. /\ fine /\ pos <= Len(body) /\ pos' = pos + 1 /\ Here.kind = "declare"
      /\ UNCHANGED <<body, returnType>> /\ inferred \subseteq {"void", "bool"}
      /\ Here = body[pos]
      /\ scopes = Walks(pos - 1).scopes
      /\ loopDepth = LP!Depth(Walks(pos - 1), Len(Walks(pos - 1).depths))
  BY <1>1, Accepted
<1>3. LP!Resolved(body, pos)
  BY <1>2, SameLookups DEF LP!Resolved, Walks, fine, Last, LP!Last
<1>4. Walks(pos).depths = Walks(pos - 1).depths
      /\ Walks(pos).scopes =
           LP!WithLast(scopes, LP!With(LP!Last(scopes), Here.name, pos))
  <2>1. Walks(pos) = LP!Walked(body, pos, Walks(pos - 1)) /\ Walks(pos - 1) \in LP!WalkState
    BY <1>2, AtFacts, DepthIsInteger
  <2> QED
    BY <1>2, <2>1 DEF LP!Walked, LP!Openers, LP!WalkState
<1>5. scopes' = Walks(pos).scopes
  <2>1. scopes \in Seq(LP!Scope) /\ scopes # << >> /\ Len(scopes) \in Nat \ {0}
        /\ Len(scopes) \in DOMAIN scopes
    BY <1>2, AtFacts
  <2>2. scopes' = [scopes EXCEPT ![Len(scopes)] = With(scopes[Len(scopes)], Here.name, pos)]
    BY <1>1, <2>1
  <2> QED
    BY <1>4, <2>2, SameLookups DEF LP!WithLast, LP!Last
<1>6. loopDepth' = LP!Depth(Walks(pos), Len(Walks(pos).depths))
  BY <1>1, <1>2, <1>4 DEF LP!Depth
<1>7. ReturnFits(pos, inferred')
  BY <1>2 DEF ReturnFits
<1>8. \/ operand' = operand
      \/ UsesName(Here.expr) /\ operand' = With(operand, pos, Lookup(Here.expr[2]))
  BY <1>1 DEF Reads, UsesName
<1> QED
  BY <1>1, <1>2, <1>3, <1>5, <1>6, <1>7, <1>8, SemaNext

(* The else-body starts with an empty scope.                               *)
LEMMA EnterElseFits ==
  ASSUME body \in Bodies, SemaInv, OperandsAre, EnterElse, verdict' = "analyzing"
  PROVE  SemaInv' /\ OperandsAre'
<1>1. /\ Analyze("else", TRUE)
      /\ scopes' = [scopes EXCEPT ![Len(scopes)] = EmptyScope]
      /\ UNCHANGED <<loopDepth, inferred, operand, target>>
  BY DEF EnterElse
<1>2. /\ pos <= Len(body) /\ pos' = pos + 1 /\ Here.kind = "else"
      /\ UNCHANGED <<body, returnType>> /\ inferred \subseteq {"void", "bool"}
      /\ Here = body[pos]
      /\ scopes = Walks(pos - 1).scopes
      /\ loopDepth = LP!Depth(Walks(pos - 1), Len(Walks(pos - 1).depths))
  BY <1>1, Accepted
<1>3. LP!Resolved(body, pos)
  BY <1>2 DEF LP!Resolved
<1>4. Walks(pos) = [Walks(pos - 1) EXCEPT !.scopes = LP!WithLast(Walks(pos - 1).scopes, LP!EmptyScope)]
  BY <1>2, AtFacts DEF LP!Walked, LP!Openers
<1>5. Walks(pos - 1) \in LP!WalkState
  <2>1. pos - 1 \in 0 .. Len(body)
    BY <1>2, AtFacts, BodyFacts
  <2> QED
    BY <2>1, BodyFacts, LP!WalkFacts DEF Walks
<1>6. Walks(pos).depths = Walks(pos - 1).depths
      /\ Walks(pos).scopes = LP!WithLast(scopes, LP!EmptyScope)
  BY <1>2, <1>4, <1>5 DEF LP!WalkState
<1>7. scopes' = Walks(pos).scopes
  BY <1>1, <1>6 DEF LP!WithLast, LP!EmptyScope, EmptyScope
<1>8. loopDepth' = LP!Depth(Walks(pos), Len(Walks(pos).depths))
  BY <1>1, <1>2, <1>6 DEF LP!Depth
<1>9. ReturnFits(pos, inferred')
  BY <1>2 DEF ReturnFits
<1> QED
  BY <1>1, <1>2, <1>3, <1>7, <1>8, <1>9, SemaNext

(* A close takes the innermost scope away, and a loop when it closes one.  *)
LEMMA LeaveFits ==
  ASSUME body \in Bodies, SemaInv, OperandsAre, Leave, verdict' = "analyzing"
  PROVE  SemaInv' /\ OperandsAre'
<1> DEFINE n == Len(LP!Open(body)[pos - 1])
<1> DEFINE opener == LP!Open(body)[pos - 1][n]
<1>1. /\ Analyze("close", TRUE)
      /\ scopes' = Front(scopes)
      /\ loopDepth' = IF body[OpenerOf(body, pos)].kind = "while" THEN loopDepth - 1
                      ELSE loopDepth
      /\ UNCHANGED <<inferred, operand, target>>
  BY DEF Leave
<1>2. /\ pos <= Len(body) /\ pos' = pos + 1 /\ Here.kind = "close"
      /\ UNCHANGED <<body, returnType>> /\ inferred \subseteq {"void", "bool"}
      /\ Here = body[pos] /\ pos \in 1 .. Len(body)
      /\ scopes = Walks(pos - 1).scopes
      /\ loopDepth = LP!Depth(Walks(pos - 1), Len(Walks(pos - 1).depths))
  BY <1>1, Accepted
<1>3. LP!Resolved(body, pos)
  BY <1>2 DEF LP!Resolved
<1>4. /\ Walks(pos).scopes = LP!Front(Walks(pos - 1).scopes)
  BY <1>2, AtFacts DEF LP!Walked, LP!Openers
<1>5. scopes' = Walks(pos).scopes
  BY <1>1, <1>2, <1>4 DEF Front, LP!Front
<1>6. /\ n \in Nat \ {0}
      /\ Len(LP!Open(body)[pos]) = n - 1
      /\ LP!OpenerOf(body, pos) = opener
      /\ \A k \in 0 .. n - 1 : LP!Depth(Walks(pos), k) = LP!Depth(Walks(pos - 1), k)
      /\ LP!Depth(Walks(pos - 1), n) = LP!Depth(Walks(pos - 1), n - 1) + LP!Loops(body, opener)
  BY <1>2, BodyFacts, LP!CloseStep DEF Walks
<1>7. Len(Walks(pos - 1).depths) = n /\ Len(Walks(pos).depths) = n - 1
      /\ Walks(pos - 1).depths \in Seq(Nat)
  <2>1. LP!Nested(body, pos - 1) /\ LP!Nested(body, pos)
    BY <1>2, BodyFacts, LP!OuterKept
  <2>2. pos - 1 \in 0 .. Len(body)
    BY <1>2, BodyFacts
  <2>3. Walks(pos - 1).depths \in Seq(Nat)
    BY <2>2, BodyFacts, LP!WalkFacts DEF Walks, LP!WalkState
  <2> QED
    BY <1>6, <2>1, <2>3 DEF LP!Nested, Walks
<1>8. loopDepth' = LP!Depth(Walks(pos), Len(Walks(pos).depths))
  <2>1. OpenerOf(body, pos) = opener
    BY <1>6, SameStmt
  <2>2. LP!Depth(Walks(pos), n - 1) = LP!Depth(Walks(pos - 1), n - 1)
    BY <1>6
  <2>3. LP!Depth(Walks(pos - 1), n - 1) \in Int
    <3>1. n - 1 \in 0 .. Len(Walks(pos - 1).depths)
      BY <1>6, <1>7
    <3>2. LP!Depth(Walks(pos - 1), n - 1) \in Nat
      BY <1>7, <3>1, DepthsAreNumbers
    <3> QED
      BY <3>2
  <2>4. loopDepth = LP!Depth(Walks(pos - 1), n - 1) + LP!Loops(body, opener)
    BY <1>2, <1>6, <1>7
  <2>5. LP!Loops(body, opener) = IF body[opener].kind = "while" THEN 1 ELSE 0
    BY DEF LP!Loops
  <2> QED
    BY <1>1, <1>7, <2>1, <2>2, <2>3, <2>4, <2>5
<1>9. ReturnFits(pos, inferred')
  BY <1>2 DEF ReturnFits
<1> QED
  BY <1>1, <1>2, <1>3, <1>5, <1>8, <1>9, SemaNext

(* Every step of analysis that goes on keeps the invariant.                *)
LEMMA AnalysisKeeps ==
  ASSUME body \in Bodies, SemaInv, OperandsAre, AnalysisStep, verdict' = "analyzing"
  PROVE  SemaInv' /\ OperandsAre' /\ body' = body
<1>1. body' = body
  BY DEF AnalysisStep, AnalyzeDeclare, AnalyzeAssign, AnalyzePrint, AnalyzeReturn, AnalyzeJump,
     EnterBlock, EnterIf, EnterElse, EnterWhile, Leave, FinishAnalysis, Analyze
<1>2. ~ FinishAnalysis
  BY DEF FinishAnalysis
<1>3. CASE AnalyzeDeclare
  BY <1>1, <1>3, AnalyzeDeclareFits
<1>4. CASE AnalyzeAssign
  BY <1>1, <1>4, AnalyzeAssignFits
<1>5. CASE AnalyzePrint
  BY <1>1, <1>5, AnalyzePrintFits
<1>6. CASE AnalyzeReturn
  BY <1>1, <1>6, AnalyzeReturnFits
<1>7. CASE AnalyzeJump
  BY <1>1, <1>7, AnalyzeJumpFits
<1>8. CASE EnterBlock
  BY <1>1, <1>8, EnterBlockFits
<1>9. CASE EnterIf
  BY <1>1, <1>9, EnterIfFits
<1>10. CASE EnterElse
  BY <1>1, <1>10, EnterElseFits
<1>11. CASE EnterWhile
  BY <1>1, <1>11, EnterWhileFits
<1>12. CASE Leave
  BY <1>1, <1>12, LeaveFits
<1> QED
  BY <1>2, <1>3, <1>4, <1>5, <1>6, <1>7, <1>8, <1>9, <1>10, <1>11, <1>12 DEF AnalysisStep

(* The types of the return statements are one type.                        *)
LEMMA OneType ==
  ASSUME inferred \subseteq {"void", "bool"}, Cardinality(inferred) <= 1
  PROVE  /\ InferredType \in {"void", "bool"}
         /\ \A t \in inferred : InferredType = t
<1>1. inferred # {"void", "bool"}
  <2>1. IsFiniteSet({"void"}) /\ Cardinality({"void"}) = 1
    BY FS_Singleton
  <2>2. "bool" \notin {"void"} /\ {"void", "bool"} = {"void"} \cup {"bool"}
    OBVIOUS
  <2>3. Cardinality({"void", "bool"}) = 2
    BY <2>1, <2>2, FS_AddElement
  <2> QED
    BY <2>3
<1>2. inferred \in {{}, {"void"}, {"bool"}}
  BY <1>1
<1>3. CASE inferred = {}
  BY <1>3 DEF InferredType
<1>4. CASE inferred # {}
  <2>1. InferredType \in inferred
    BY <1>4 DEF InferredType
  <2> QED
    BY <1>2, <2>1
<1> QED
  BY <1>3, <1>4

(* A function that analysis accepts is what lowering relies on.            *)
LEMMA FinishFits ==
  ASSUME body \in Bodies, SemaInv, OperandsAre, FinishAnalysis, verdict' = "accepted"
  PROVE  LP!Analyzed' /\ OperandsAre' /\ body' = body
<1>1. /\ pos > Len(body)
      /\ returnType' = IF returnType = "" THEN InferredType ELSE returnType
      /\ Cardinality(inferred) <= 1
      /\ UNCHANGED <<body, pos, scopes, loopDepth, inferred, operand, target>>
  BY DEF FinishAnalysis
<1>2. /\ returnType \in {"void", "bool", ""} /\ pos \in 1 .. Len(body) + 1
      /\ inferred \subseteq {"void", "bool"}
      /\ \A i \in 1 .. pos - 1 : LP!Resolved(body, i) /\ ReturnFits(i, inferred)
  BY DEF SemaInv
<1>3. pos - 1 = Len(body)
  <2>1. Len(body) \in Nat
    BY BodyFacts
  <2>2. pos > Len(body)
    BY <1>1
  <2>3. pos \in 1 .. Len(body) + 1
    BY <1>2
  <2>4. pos \in Int
    BY <2>1, <2>3
  <2> QED
    BY <2>1, <2>2, <2>3, <2>4
<1>4. InferredType \in {"void", "bool"} /\ \A t \in inferred : InferredType = t
  BY <1>1, <1>2, OneType
<1>5. returnType' \in {"void", "bool"}
  BY <1>1, <1>2, <1>4
<1>6. ASSUME NEW i \in 1 .. Len(body)
      PROVE  /\ LP!Resolved(body, i)
             /\ body[i].kind = "return" => (body[i].expr = NoExpr <=> returnType' = "void")
  <2>1. LP!Resolved(body, i) /\ ReturnFits(i, inferred)
    BY <1>2, <1>3
  <2>2. CASE returnType = ""
    BY <1>1, <1>4, <2>1, <2>2 DEF ReturnFits
  <2>3. CASE returnType # ""
    BY <1>1, <2>1, <2>3 DEF ReturnFits
  <2> QED
    BY <2>1, <2>2, <2>3
<1>7. LP!Analyzed'
  <2>1. \A i : LP!Resolved(body, i)' <=> LP!Resolved(body, i)
    BY <1>1 DEF LP!Resolved
  <2>2. body \in Seq(LP!Stmt) /\ LP!WellFormed(body) /\ LP!NoExpr = NoExpr
    BY BodyFacts, SameStmt
  <2>3. LP!WellFormed(body)' <=> LP!WellFormed(body)
    BY <1>1
  <2> QED
    BY <1>1, <1>5, <1>6, <2>1, <2>2, <2>3 DEF LP!Analyzed
<1>8. OperandsAre'
  BY <1>1 DEF OperandsAre, Walks
<1> QED
  BY <1>1, <1>7, <1>8

-----------------------------------------------------------------------------
(* What is true of the compilation of every function, stage by stage.      *)
FInv ==
  /\ body \in Bodies
  /\ verdict \in {"analyzing", "rejected", "accepted"}
  /\ verdict # "accepted" => LP!LoweringInit
  /\ verdict = "analyzing" => SemaInv /\ OperandsAre
  /\ verdict = "accepted" => LP!Analyzed /\ OperandsAre /\ LP!LInv
  /\ phase = "idle" => cursor = 1 /\ reachable = {} /\ worklist = << >>
  /\ phase # "idle" =>
       /\ PP!IInv
       /\ PP!Verified(source) /\ PP!BlockLocalValues(source)
       /\ phase # "rejected"

(* The invariant holds when analysis starts.                               *)
LEMMA InitFits ==
  ASSUME Init
  PROVE  FInv
<1>1. body \in Bodies /\ verdict = "analyzing" /\ pos = 1 /\ loopDepth = 0 /\ inferred = {}
      /\ scopes = <<With(<< >>, Param, 0)>> /\ operand = << >> /\ target = << >>
      /\ returnType \in {"void", "bool", ""}
      /\ phase = "idle" /\ cursor = 1 /\ reachable = {} /\ worklist = << >>
  BY DEF Init, AnalysisInit
<1>2. LP!LoweringInit
  BY SameLowering DEF Init
<1>3. Walks(0) = LP!WalkStart
  BY <1>1, BodyFacts, LP!WalkFacts DEF Walks
<1>4. /\ Walks(0).scopes = <<With(<< >>, Param, 0)>>
      /\ LP!Depth(Walks(0), Len(Walks(0).depths)) = 0
  BY <1>3, SameLookups DEF LP!WalkStart, LP!Depth
<1>5. pos - 1 = 0 /\ 1 .. pos - 1 = {} /\ pos \in 1 .. Len(body) + 1
  <2>1. Len(body) \in Nat
    BY <1>1, BodyFacts
  <2>2. pos = 1
    BY <1>1
  <2> QED
    BY <2>1, <2>2
<1>6. SemaInv
  <2>1. Walks(pos - 1) = Walks(0)
    BY <1>5
  <2>2. \A i \in 1 .. pos - 1 : LP!Resolved(body, i) /\ ReturnFits(i, inferred)
    BY <1>5
  <2> QED
    BY <1>1, <1>4, <1>5, <2>1, <2>2 DEF SemaInv
<1>7. OperandsAre
  <2>1. operand = << >> /\ target = << >>
    BY <1>1
  <2>2. DOMAIN operand = {} /\ DOMAIN target = {}
    BY <2>1
  <2> QED
    BY <2>2 DEF OperandsAre
<1> QED
  BY <1>1, <1>2, <1>6, <1>7 DEF FInv

(* A stage that waits is as it was: lowering before its first step,        *)
LEMMA LoweringWaits ==
  ASSUME LP!LoweringInit, UNCHANGED lowerVars
  PROVE  LP!LoweringInit'
BY DEF LP!LoweringInit, lowerVars

(* or of the passes;                                                       *)
LEMMA PassesWait ==
  ASSUME FInv, UNCHANGED passVars
  PROVE  /\ phase' = "idle" => cursor' = 1 /\ reachable' = {} /\ worklist' = << >>
         /\ phase' # "idle" =>
              /\ PP!IInv'
              /\ PP!Verified(source)' /\ PP!BlockLocalValues(source)'
              /\ phase' # "rejected"
<1>1. UNCHANGED <<fn, source, phase, cursor, reachable, worklist>>
  BY DEF passVars
<1>2. PP!IInv => PP!IInv'
  BY <1>1, PP!StutterKeeps
<1>3. PP!Verified(source)' <=> PP!Verified(source)
  BY <1>1
<1>4. PP!BlockLocalValues(source)' <=> PP!BlockLocalValues(source)
  BY <1>1
<1> QED
  BY <1>1, <1>2, <1>3, <1>4 DEF FInv

(* what analysis recorded stays,                                           *)
LEMMA AnalysisStays ==
  ASSUME OperandsAre, UNCHANGED semaVars
  PROVE  OperandsAre' /\ UNCHANGED <<body, returnType, verdict>>
BY DEF OperandsAre, Walks, semaVars

(* and what it knows while it runs.                                        *)
LEMMA SemaStays ==
  ASSUME SemaInv, UNCHANGED semaVars
  PROVE  SemaInv'
<1>1. UNCHANGED <<body, returnType, pos, scopes, loopDepth, inferred>>
  BY DEF semaVars
<1>2. \A i : Walks(i)' = Walks(i)
  BY <1>1 DEF Walks
<1>3. \A i : LP!Resolved(body, i)' <=> LP!Resolved(body, i)
  BY <1>1 DEF LP!Resolved
<1>4. \A i : ReturnFits(i, inferred)' <=> ReturnFits(i, inferred)
  BY <1>1 DEF ReturnFits
<1> QED
  BY <1>1, <1>2, <1>3, <1>4 DEF SemaInv

(* The first two stages wait for the passes.                               *)
LEMMA FrontStays ==
  ASSUME FInv, UNCHANGED semaVars, UNCHANGED lowerVars
  PROVE  /\ body' \in Bodies
         /\ verdict' \in {"analyzing", "rejected", "accepted"}
         /\ verdict' # "accepted" => LP!LoweringInit'
         /\ verdict' = "analyzing" => SemaInv' /\ OperandsAre'
         /\ verdict' = "accepted" => LP!Analyzed' /\ OperandsAre' /\ LP!LInv'
<1>1. UNCHANGED <<body, returnType, verdict>>
  BY DEF semaVars
<1>2. verdict # "accepted" => LP!LoweringInit'
  BY LoweringWaits DEF FInv
<1>3. verdict = "analyzing" => SemaInv' /\ OperandsAre'
  BY SemaStays, AnalysisStays DEF FInv
<1>4. ASSUME verdict = "accepted"
      PROVE  LP!Analyzed' /\ OperandsAre' /\ LP!LInv'
  <2>1. LP!Analyzed /\ OperandsAre /\ LP!LInv
    BY <1>4 DEF FInv
  <2>2. UNCHANGED LP!lowerVars
    BY DEF lowerVars, LP!lowerVars
  <2>3. LP!Analyzed'
    BY <1>1, <2>1, LP!AnalyzedStays
  <2>4. LP!LInv'
    BY <1>1, <2>1, <2>2, LP!StutterKeeps
  <2> QED
    BY <2>1, <2>3, <2>4, AnalysisStays
<1> QED
  BY <1>1, <1>2, <1>3, <1>4 DEF FInv

(* Doing nothing keeps the invariant.                                      *)
LEMMA RestKeeps ==
  ASSUME FInv, UNCHANGED vars
  PROVE  FInv'
<1>1. UNCHANGED semaVars /\ UNCHANGED lowerVars /\ UNCHANGED passVars
  BY DEF vars
<1> QED
  BY <1>1, FrontStays, PassesWait DEF FInv

(* A step of analysis goes on, or rejects, or accepts.                     *)
LEMMA Analyze1Keeps ==
  ASSUME FInv, Analyze1
  PROVE  FInv'
<1>1. AnalysisStep /\ UNCHANGED lowerVars /\ UNCHANGED passVars
  BY DEF Analyze1, lowerVars, passVars
<1>2. verdict = "analyzing" /\ body' = body
  BY <1>1 DEF AnalysisStep, AnalyzeDeclare, AnalyzeAssign, AnalyzePrint, AnalyzeReturn,
     AnalyzeJump, EnterBlock, EnterIf, EnterElse, EnterWhile, Leave, FinishAnalysis, Analyze, At
<1>3. verdict' \in {"analyzing", "rejected", "accepted"}
  BY <1>1, <1>2 DEF AnalysisStep, AnalyzeDeclare, AnalyzeAssign, AnalyzePrint, AnalyzeReturn,
     AnalyzeJump, EnterBlock, EnterIf, EnterElse, EnterWhile, Leave, FinishAnalysis, Analyze, At
<1>4. body \in Bodies /\ SemaInv /\ OperandsAre /\ LP!LoweringInit
  BY <1>2 DEF FInv
<1>5. LP!LoweringInit'
  BY <1>1, <1>4, LoweringWaits
<1>6. verdict' = "analyzing" => SemaInv' /\ OperandsAre'
  BY <1>1, <1>4, AnalysisKeeps
<1>7. ASSUME verdict' = "accepted"
      PROVE  LP!Analyzed' /\ OperandsAre' /\ LP!LInv'
  <2>1. FinishAnalysis
    BY <1>1, <1>7, <1>2 DEF AnalysisStep, AnalyzeDeclare, AnalyzeAssign, AnalyzePrint, AnalyzeReturn,
     AnalyzeJump, EnterBlock, EnterIf, EnterElse, EnterWhile, Leave, Analyze, At
  <2> QED
    BY <1>4, <1>5, <1>7, <2>1, FinishFits DEF LP!LInv
<1> QED
  BY <1>1, <1>2, <1>3, <1>4, <1>5, <1>6, <1>7, PassesWait DEF FInv

(* A step of lowering.                                                     *)
LEMMA Lower1Keeps ==
  ASSUME FInv, Lower1
  PROVE  FInv'
<1>1. /\ verdict = "accepted" /\ LP!LoweringStep
      /\ UNCHANGED semaVars /\ UNCHANGED passVars
  BY SameLowering DEF Lower1
<1>2. UNCHANGED <<body, returnType, verdict>>
  BY <1>1 DEF semaVars
<1>3. body \in Bodies /\ LP!Analyzed /\ OperandsAre /\ LP!LInv
  BY <1>1 DEF FInv
<1>4. LP!LInv'
  BY <1>1, <1>2, <1>3, LP!StepKeeps
<1>5. LP!Analyzed'
  BY <1>2, <1>3, LP!AnalyzedStays
<1>6. OperandsAre'
  BY <1>1, <1>3, AnalysisStays
<1> QED
  BY <1>1, <1>2, <1>3, <1>4, <1>5, <1>6, PassesWait DEF FInv

(* What lowering has built when it is done.                                *)
LEMMA Lowered ==
  ASSUME FInv, stage = "lowered"
  PROVE  verdict = "accepted" /\ LP!Built /\ returnType \in {"void", "bool"}
<1>1. ~ LP!LoweringInit /\ ~ LP!Walking
  BY DEF LP!LoweringInit, LP!Walking
<1>2. verdict = "accepted"
  BY <1>1 DEF FInv
<1>3. LP!LInv /\ LP!Analyzed
  BY <1>2 DEF FInv
<1> QED
  BY <1>1, <1>2, <1>3 DEF LP!LInv, LP!Analyzed

(* The lowered function goes to the passes.                                *)
LEMMA HandOverKeeps ==
  ASSUME FInv, HandOver
  PROVE  FInv'
<1>1. /\ stage = "lowered" /\ phase = "idle"
      /\ fn' = LP!Lowered /\ source' = LP!Lowered /\ phase' = "verify"
      /\ UNCHANGED <<cursor, reachable, worklist>>
      /\ UNCHANGED semaVars /\ UNCHANGED lowerVars
  BY SameLowering DEF HandOver, semaVars, lowerVars
<1>2. cursor' = 1 /\ reachable' = {} /\ worklist' = << >>
  BY <1>1 DEF FInv
<1>3. LP!Lowered \in PP!Function /\ PP!Verified(LP!Lowered) /\ PP!BlockLocalValues(LP!Lowered)
  BY <1>1, Lowered, BuiltIsVerified
<1>4. PP!IInv'
  BY <1>1, <1>2, <1>3, PP!HandedOver
<1>5. PP!Verified(source)' /\ PP!BlockLocalValues(source)'
  BY <1>1, <1>3
<1> QED
  BY <1>1, <1>2, <1>4, <1>5, FrontStays DEF FInv

(* A step of the passes.                                                   *)
LEMMA Pass1Keeps ==
  ASSUME FInv, Pass1
  PROVE  FInv'
<1>1. PP!PassStep /\ UNCHANGED semaVars /\ UNCHANGED lowerVars
  BY SamePasses DEF Pass1
<1>2. /\ phase # "idle" /\ phase' # "idle" /\ source' = source
      /\ phase' = "rejected" => phase = "verify" /\ ~ PP!Verified(fn)
  BY <1>1 DEF PP!PassStep, PP!VerifyBefore, PP!FoldBlock, PP!StartReach, PP!VisitBlock,
     PP!EraseUnreachable, PP!VerifyAfter, PP!BuildFrame
<1>3. PP!IInv /\ PP!Verified(source) /\ PP!BlockLocalValues(source)
  BY <1>2 DEF FInv
<1>4. PP!IInv'
  BY <1>1, <1>3, PP!PassKeeps
<1>5. phase' # "rejected"
  <2>1. phase = "verify" => fn = source
    BY <1>3 DEF PP!IInv, PP!SameBlocks, PP!Scanning
  <2> QED
    BY <1>2, <1>3, <2>1
<1>6. PP!Verified(source)' /\ PP!BlockLocalValues(source)'
  BY <1>2, <1>3
<1> QED
  BY <1>1, <1>2, <1>4, <1>5, <1>6, FrontStays DEF FInv

(* The invariant holds of every behaviour.                                 *)
LEMMA Inductive == Spec => []FInv
<1>1. Init => FInv
  BY InitFits
<1>2. FInv /\ [Next]_vars => FInv'
  BY RestKeeps, Analyze1Keeps, Lower1Keeps, HandOverKeeps, Pass1Keeps DEF Next, Step, Stopped
<1> QED
  BY <1>1, <1>2, PTL DEF Spec

-----------------------------------------------------------------------------
(* What semantic analysis accepts, lowering can lower: its own checks of   *)
(* names, of loops and of void returns never fail after those of analysis. *)
THEOREM SemaIsEnough == Spec => []LoweringNeverFails
<1>1. FInv => LoweringNeverFails
  BY DEF FInv, LP!LInv, LP!LoweringInit, LP!Walking, LP!Built, LoweringNeverFails
<1> QED
  BY <1>1, Inductive, PTL

(* The verifier accepts every function that the compiler makes, before and *)
(* after optimization: neither of the two "VIR verification failed" errors *)
(* of main.cpp is ever reported.                                           *)
THEOREM VerifierAccepts == Spec => []VerifierNeverComplains
<1>1. FInv => VerifierNeverComplains
  <2> SUFFICES ASSUME FInv, phase \in {"rejected", "spoiled"}
               PROVE  FALSE
    BY DEF VerifierNeverComplains
  <2>1. PP!IInv /\ PP!BlockLocalValues(source) /\ phase # "rejected"
    BY DEF FInv
  <2> QED
    BY <2>1 DEF PP!IInv, PP!NeverSpoiled
<1> QED
  BY <1>1, Inductive, PTL

(* Every function that lowering builds uses a value only in the block that *)
(* defines it and numbers the values without a gap, as buildFrame needs.   *)
THEOREM LoweredFitsBackend == Spec => []ValuesAreLocalAndDense
<1>1. FInv => ValuesAreLocalAndDense
  <2> SUFFICES ASSUME FInv, stage = "lowered"
               PROVE  /\ P!BlockLocalValues(L!Lowered)
                      /\ Defined(blocks) = 0 .. nextValueId - 1
                      /\ P!FrameComplete(L!Lowered)
    BY DEF ValuesAreLocalAndDense
  <2>1. /\ PP!BlockLocalValues(LP!Lowered)
        /\ PP!Defined(blocks) = 0 .. nextValueId - 1
        /\ PP!FrameComplete(LP!Lowered)
    BY Lowered, BuiltIsVerified
  <2>2. P!BlockLocalValues(L!Lowered)
    BY <2>1, SameLowering, SamePasses
  <2>3. Defined(blocks) = PP!Defined(blocks)
    BY DEF Defined, PP!Defined, None, PP!None
  <2>4. P!FrameComplete(L!Lowered) <=> PP!FrameComplete(L!Lowered)
    BY DEF P!FrameComplete, PP!FrameComplete, P!Defined, PP!Defined, P!None, PP!None
  <2> QED
    BY <2>1, <2>2, <2>3, <2>4, SameLowering
<1> QED
  BY <1>1, Inductive, PTL

-----------------------------------------------------------------------------
(* What a name means to lowering, in its scopes and locals, is what it     *)
(* meant to analysis.                                                      *)
Means(x, scopes1, locals1) ==
  LET slot == LP!LookupLocal(scopes1, x)
  IN  IF slot = None THEN Undefined ELSE locals1[slot + 1]

(* Scopes of lowering and of analysis that agree give a name one meaning.  *)
LEMMA SameMeaning ==
  ASSUME NEW s, NEW t, NEW ls, s \in Seq(LP!Scope), t \in Seq(LP!Scope), Len(s) = Len(t),
         \A d \in 1 .. Len(s) : LP!SameScope(s[d], t[d], ls), NEW x
  PROVE  Means(x, s, ls) = LP!LookupLocal(t, x)
<1>1. \A d \in 1 .. Len(s) : DOMAIN s[d] = DOMAIN t[d]
  BY DEF LP!SameScope
<1>2. CASE LP!LookupLocal(t, x) = LP!None
  <2>1. \A d \in 1 .. Len(t) : x \notin DOMAIN t[d]
    BY <1>2, LP!LookupFacts
  <2>2. \A d \in 1 .. Len(s) : x \notin DOMAIN s[d]
    BY <1>1, <2>1
  <2>3. LP!LookupLocal(s, x) = LP!None
    BY <2>2, LP!LookupFacts
  <2> QED
    BY <1>2, <2>3 DEF Means, Undefined, None, LP!None
<1>3. CASE LP!LookupLocal(t, x) # LP!None
  <2>1. PICK d \in 1 .. Len(s) :
          /\ x \in DOMAIN s[d]
          /\ LP!LookupLocal(s, x) = s[d][x]
          /\ LP!LookupLocal(t, x) = t[d][x]
    BY <1>1, <1>3, LP!SameLookup
  <2>2. LP!SameScope(s[d], t[d], ls)
    OBVIOUS
  <2>3. ls[s[d][x] + 1] = t[d][x]
    BY <2>1, <2>2 DEF LP!SameScope
  <2>4. s[d][x] # None
    <3>1. s[d] \in LP!Scope
      BY <2>1
    <3> QED
      BY <2>1, <3>1 DEF LP!Scope, None
  <2> QED
    BY <2>1, <2>3, <2>4 DEF Means
<1> QED
  BY <1>2, <1>3

(* The scopes once a name is declared in the innermost one.                *)
Declared(s, name, v) == [s EXCEPT ![Len(s)] = With(@, name, v)]

(* It changes what no other name means.                                    *)
LEMMA OtherName ==
  ASSUME NEW s \in Seq(LP!Scope), s # << >>, NEW name, NEW v, NEW x, x # name
  PROVE  LP!LookupLocal(Declared(s, name, v), x) = LP!LookupLocal(s, x)
<1> DEFINE t == Declared(s, name, v)
<1> DEFINE holders == {d \in DOMAIN s : x \in DOMAIN s[d]}
<1> DEFINE holders1 == {d \in DOMAIN t : x \in DOMAIN t[d]}
<1>1. DOMAIN t = DOMAIN s /\ DOMAIN s = 1 .. Len(s) /\ Len(s) \in Nat
  BY LengthFacts DEF Declared
<1>2. \A d \in DOMAIN s :
        /\ x \in DOMAIN t[d] <=> x \in DOMAIN s[d]
        /\ x \in DOMAIN s[d] => t[d][x] = s[d][x]
  <2> SUFFICES ASSUME NEW d \in DOMAIN s
               PROVE  /\ x \in DOMAIN t[d] <=> x \in DOMAIN s[d]
                      /\ x \in DOMAIN s[d] => t[d][x] = s[d][x]
    OBVIOUS
  <2>1. CASE d = Len(s)
    <3>1. t[d] = With(s[d], name, v)
      BY <1>1, <2>1 DEF Declared
    <3> HIDE DEF t
    <3> QED
      BY <3>1 DEF With
  <2>2. CASE d # Len(s)
    BY <1>1, <2>2 DEF Declared
  <2> QED
    BY <2>1, <2>2
<1>3. holders1 = holders
  BY <1>1, <1>2
<1>4. /\ LP!LookupLocal(t, x) =
           IF holders1 = {} THEN LP!None ELSE t[LP!Max(holders1)][x]
      /\ LP!LookupLocal(s, x) =
           IF holders = {} THEN LP!None ELSE s[LP!Max(holders)][x]
  BY DEF LP!LookupLocal
<1>5. ASSUME holders # {}
      PROVE  LP!Max(holders) \in DOMAIN s /\ x \in DOMAIN s[LP!Max(holders)]
  <2>1. LP!Max(holders) \in holders
    <3>1. holders \in SUBSET (1 .. Len(s))
      BY <1>1
    <3> HIDE DEF holders
    <3> QED
      BY <1>1, <1>5, <3>1, LP!LargestIsOne
  <2> QED
    BY <2>1
<1> HIDE DEF t, holders, holders1
<1>6. LP!LookupLocal(t, x) = LP!LookupLocal(s, x)
  BY <1>2, <1>3, <1>4, <1>5
<1> QED
  BY <1>6 DEF t

(* Where lowering is when it lowers a statement.                           *)
LEMMA LowersFacts ==
  ASSUME FInv, NEW i \in DOMAIN body, Lowers(i)
  PROVE  /\ OperandsAre /\ i \in 1 .. Len(body) /\ body[i] \in LP!Stmt
         /\ slots \in Seq(LP!Scope) /\ slots # << >>
         /\ locals \in Seq(Nat)
         /\ \A x : Means(x, slots, locals) = LP!LookupLocal(Walks(i - 1).scopes, x)
         /\ \A x : LP!LookupLocal(Walks(i - 1).scopes, x) # LP!None =>
                     LP!LookupLocal(slots, x) \in 0 .. Len(locals) - 1
         /\ LP!Resolved(body, i)
<1>1. stage = "lowering" /\ skipping = 0 /\ i = at /\ ~ LP!HasTerminator(current)
  BY SameLowering DEF Lowers
<1>2. ~ LP!LoweringInit /\ ~ LP!Built
  BY <1>1 DEF LP!LoweringInit, LP!Built
<1>3. verdict = "accepted" /\ body \in Bodies
  BY <1>2 DEF FInv
<1>4. LP!Analyzed /\ OperandsAre /\ LP!LInv
  BY <1>3 DEF FInv
<1>5. LP!Walking
  BY <1>2, <1>4 DEF LP!LInv
<1>6. i \in 1 .. Len(body) /\ Len(body) \in Nat /\ body[i] \in LP!Stmt
  BY <1>3, BodyFacts, LengthFacts
<1>7. at <= Len(body)
  BY <1>1, <1>6
<1>8. /\ slots \in Seq(LP!Scope) /\ Len(slots) = Len(pending) + 1
      /\ Len(LP!Seen.scopes) = Len(slots)
      /\ \A d \in 1 .. Len(slots) : LP!SameScope(slots[d], LP!Seen.scopes[d], locals)
      /\ \A x : LP!LookupLocal(LP!Seen.scopes, x) # LP!None =>
                  LP!LookupLocal(slots, x) \in 0 .. Len(locals) - 1
  BY <1>1, <1>4, <1>5, <1>7, LP!LiveFacts
<1>9. LP!Seen.scopes \in Seq(LP!Scope) /\ Len(pending) \in Nat
  BY <1>4, <1>5, <1>7, LP!HereFacts
<1>10. LP!Seen.scopes = Walks(i - 1).scopes
  BY <1>1 DEF LP!Seen, Walks
<1>11. \A x : Means(x, slots, locals) = LP!LookupLocal(LP!Seen.scopes, x)
  BY <1>8, <1>9, SameMeaning
<1>12. locals \in Seq(Nat)
  BY <1>5 DEF LP!Walking, LP!Stacks
<1>13. slots # << >>
  BY <1>8, <1>9
<1>14. LP!Resolved(body, i)
  BY <1>4, <1>6 DEF LP!Analyzed
<1> QED
  BY <1>4, <1>6, <1>8, <1>10, <1>11, <1>12, <1>13, <1>14

(* Every name in a statement that is lowered means the declaration that    *)
(* semantic analysis found for it, however the scopes are nested, unless   *)
(* it is an initializer that names the variable it declares.               *)
THEOREM NamesMeanTheSame == Spec => []NamesAgree
<1>1. FInv => NamesAgree
  <2> SUFFICES ASSUME FInv, NEW i \in DOMAIN body, Lowers(i), ~ OwnInitializer(i)
               PROVE  /\ i \in DOMAIN operand => DeclaredAt(body[i].expr[2], i) = operand[i]
                      /\ i \in DOMAIN target => DeclaredAt(body[i].name, i) = target[i]
    BY DEF NamesAgree
  <2> DEFINE known == Walks(i - 1).scopes
  <2>1. \A x : DeclaredAt(x, i) = Means(x, SlotsFor(i), LocalsFor(i))
    BY SameLowering DEF DeclaredAt, Means
  <2>2. /\ i \in DOMAIN operand =>
             /\ UsesName(body[i].expr)
             /\ operand[i] = LP!LookupLocal(known, body[i].expr[2])
        /\ i \in DOMAIN target =>
             /\ body[i].kind = "assign"
             /\ target[i] = LP!LookupLocal(known, body[i].name)
    BY LowersFacts DEF OperandsAre
  <2>3. \A x : Means(x, slots, locals) = LP!LookupLocal(known, x)
    BY LowersFacts
  <2>4. CASE body[i].kind # "declare"
    <3>1. SlotsFor(i) = slots /\ LocalsFor(i) = locals
      BY <2>4 DEF SlotsFor, LocalsFor
    <3> QED
      BY <2>1, <2>2, <2>3, <3>1
  <2>5. CASE body[i].kind = "declare"
    <3> DEFINE x == body[i].expr[2]
    <3>1. i \notin DOMAIN target
      BY <2>2, <2>5
    <3> SUFFICES ASSUME i \in DOMAIN operand
                 PROVE  DeclaredAt(x, i) = operand[i]
      BY <3>1
    <3>2. x # body[i].name
      BY <2>2, <2>5 DEF OwnInitializer
    <3>3. LP!LookupLocal(known, x) # LP!None
      <4>1. UsesName(body[i].expr)
        BY <2>2
      <4>2. body[i].expr # LP!NoExpr
        <5>1. LP!NoExpr[1] = "none"
          BY DEF LP!NoExpr
        <5> QED
          BY <4>1, <5>1 DEF UsesName
      <4>3. LP!Resolved(body, i)
        BY LowersFacts
      <4>4. LP!Known(body[i].expr, known)
        BY <2>5, <4>2, <4>3 DEF LP!Resolved, Walks
      <4> QED
        BY <4>1, <4>4 DEF LP!Known, LP!UsesName, UsesName
    <3>4. LP!LookupLocal(SlotsFor(i), x) = LP!LookupLocal(slots, x)
      <4>1. SlotsFor(i) = Declared(slots, body[i].name, Len(locals))
        BY <2>5 DEF SlotsFor, Declared
      <4>2. slots \in Seq(LP!Scope) /\ slots # << >>
        BY LowersFacts
      <4> QED
        BY <3>2, <4>1, <4>2, OtherName
    <3>5. LP!LookupLocal(slots, x) \in 0 .. Len(locals) - 1
      BY <3>3, LowersFacts
    <3>6. LocalsFor(i)[LP!LookupLocal(slots, x) + 1] = locals[LP!LookupLocal(slots, x) + 1]
      <4>1. locals \in Seq(Nat)
        BY LowersFacts
      <4>2. LocalsFor(i) = Append(locals, i)
        BY <2>5 DEF LocalsFor
      <4>3. LP!LookupLocal(slots, x) + 1 \in 1 .. Len(locals)
        <5>1. Len(locals) \in Nat
          BY <4>1
        <5> QED
          BY <3>5, <5>1
      <4> QED
        BY <4>1, <4>2, <4>3
    <3>7. Means(x, SlotsFor(i), LocalsFor(i)) = Means(x, slots, locals)
      BY <3>4, <3>6 DEF Means
    <3> QED
      BY <2>1, <2>2, <2>3, <3>7
  <2> QED
    BY <2>4, <2>5
<1> QED
  BY <1>1, Inductive, PTL
-----------------------------------------------------------------------------
(* The statements that blockAlwaysReturns finds to return always contain,  *)
(* with a block or an if, a statement of each of its bodies; if the check  *)
(* of the whole body succeeds, one of them is at its top level.  The       *)
(* recursion of AlwaysReturns has a solution: its greatest one, R0.        *)
LEMMA SomeReturn ==
  ASSUME body \in Bodies
  PROVE  \E R : LP!Returning(body, R) /\ (AlwaysReturns => \E s \in R : LP!OpenerOf(body, s) = 0)
<1> DEFINE D == DOMAIN body
<1> DEFINE Must(i, X) ==
      \/ body[i].kind = "return"
      \/ body[i].kind = "block" /\ \E s \in InBody(i) : s \in X
      \/ /\ body[i].kind = "if" /\ body[i].hasElse
         /\ \E s \in InBody(i) : s \in X
         /\ \E s \in InElse(i) : s \in X
<1> DEFINE Does(i, f) ==
      \/ body[i].kind = "return"
      \/ body[i].kind = "block" /\ \E s \in InBody(i) : f[s]
      \/ /\ body[i].kind = "if"
         /\ body[i].hasElse
         /\ \E s \in InBody(i) : f[s]
         /\ \E s \in InElse(i) : f[s]
<1> DEFINE returns == CHOOSE f : f = [i \in D |-> Does(i, f)]
<1> DEFINE R0 == {i \in D : \E X \in SUBSET D : i \in X /\ \A k \in X : Must(k, X)}
<1> DEFINE G == [i \in D |-> i \in R0]
<1> DEFINE R == {i \in D : returns[i]}
<1>1. \A i : InBody(i) \subseteq D /\ InElse(i) \subseteq D
  BY DEF InBody, InElse
<1>2. \A i, X, Y : Must(i, X) /\ X \subseteq Y => Must(i, Y)
  OBVIOUS
<1>3. \A i \in R0 : Must(i, R0)
  <2> HIDE DEF Must
  <2> SUFFICES ASSUME NEW i \in R0
               PROVE  Must(i, R0)
    OBVIOUS
  <2>1. PICK X \in SUBSET D : i \in X /\ \A k \in X : Must(k, X)
    OBVIOUS
  <2>2. X \subseteq R0
    BY <2>1
  <2> QED
    BY <1>2, <2>1, <2>2
<1>4. \A i \in D : Must(i, R0) => i \in R0
  <2> HIDE DEF Must
  <2> SUFFICES ASSUME NEW i \in D, Must(i, R0)
               PROVE  i \in R0
    OBVIOUS
  <2> DEFINE X == R0 \cup {i}
  <2>1. X \in SUBSET D /\ R0 \subseteq X /\ i \in X
    OBVIOUS
  <2>2. \A k \in X : Must(k, R0)
    BY <1>3
  <2>3. \A k \in X : Must(k, X)
    BY <1>2, <2>1, <2>2
  <2> QED
    BY <2>1, <2>3
<1> HIDE DEF R0
<1>5. \A s \in D : G[s] = (s \in R0)
  OBVIOUS
<1>6. \A i \in D : Does(i, G) <=> i \in R0
  <2> SUFFICES ASSUME NEW i \in D
               PROVE  Does(i, G) <=> Must(i, R0)
    BY <1>3, <1>4
  <2> QED
    BY <1>1, <1>5
<1>7. G = [i \in D |-> Does(i, G)]
  <2>1. ASSUME NEW i \in D
        PROVE  (i \in R0) = Does(i, G)
    <3> DEFINE does == Does(i, G)
    <3>1. does <=> i \in R0
      BY <1>6, Zenon
    <3>2. does \in BOOLEAN
      OBVIOUS
    <3> HIDE DEF does
    <3>3. (i \in R0) = does
      BY <3>1, <3>2
    <3> QED
      BY <3>3 DEF does
  <2> HIDE DEF Does, D
  <2>2. [i \in D |-> i \in R0] = [i \in D |-> Does(i, G)]
    BY <2>1
  <2> QED
    BY <2>2
<1>8. returns = [i \in D |-> Does(i, returns)]
  <2> HIDE DEF Does, D, G
  <2> QED
    BY <1>7, Zenon
<1>9. AlwaysReturns <=> \E s \in InBody(0) : returns[s]
  BY Zenon DEF AlwaysReturns
<1> HIDE DEF returns
<1>10. ASSUME NEW i \in R
       PROVE  Must(i, R)
  <2>1. i \in D /\ returns[i]
    OBVIOUS
  <2>2. Does(i, returns)
    <3>1. returns[i] = Does(i, returns)
      <4> HIDE DEF Does, D
      <4> QED
        BY <1>8, <2>1, Zenon
    <3> HIDE DEF Does
    <3> QED
      BY <2>1, <3>1
  <2>3. (\E s \in InBody(i) : returns[s]) <=> \E s \in InBody(i) : s \in R
    BY <1>1, Zenon
  <2>4. (\E s \in InElse(i) : returns[s]) <=> \E s \in InElse(i) : s \in R
    BY <1>1, Zenon
  <2> HIDE DEF R
  <2> QED
    BY <2>2, <2>3, <2>4, Zenon
<1>11. D = 1 .. Len(body)
  BY BodyFacts, LengthFacts
<1>12. /\ \A i : \A s \in InBody(i) : LP!InFirst(body, s, i)
       /\ \A i : \A s \in InElse(i) : LP!InSecond(body, s, i)
  BY SameStmt DEF InBody, InElse, LP!InFirst, LP!InSecond, LP!Passed
<1>13. R \subseteq 1 .. Len(body)
  BY <1>11
<1>14. AlwaysReturns => \E s \in R : LP!OpenerOf(body, s) = 0
  BY <1>9, SameStmt DEF InBody
<1> HIDE DEF R
<1>15. LP!Returning(body, R)
  BY <1>10, <1>12, <1>13 DEF LP!Returning
<1> QED
  BY <1>14, <1>15

(* An accepted body is covered by statements that return, and lowering     *)
(* keeps what goes on after them away from its Unreachable.                *)
Covered == verdict = "accepted" => \E R : LP!CoveredBy(R) /\ LP!KInv(R)

(* Of the function handed over, the blocks that can be reached are among   *)
(* some that do not end with Unreachable.                                  *)
Handed ==
  phase # "idle" =>
    /\ \E S : LP!Sealed(source.blocks, S)
    /\ \A i \in 1 .. Len(source.blocks) : source.blocks[i].id = i - 1

LiveInv == Covered /\ Handed

(* Later stages leave both alone.                                          *)
LEMMA CoveredStays ==
  ASSUME Covered, UNCHANGED semaVars, UNCHANGED lowerVars
  PROVE  Covered'
<1>1. UNCHANGED <<body, returnType, verdict>> /\ UNCHANGED LP!lowerVars
  BY DEF semaVars, lowerVars, LP!lowerVars
<1> SUFFICES ASSUME verdict = "accepted"
             PROVE  \E R : LP!CoveredBy(R)' /\ LP!KInv(R)'
  BY <1>1, Zenon DEF Covered
<1>2. PICK R : LP!CoveredBy(R) /\ LP!KInv(R)
  BY DEF Covered
<1>3. LP!CoveredBy(R)' /\ LP!KInv(R)'
  BY <1>1, <1>2, LP!StutterLives
<1> QED
  BY <1>3

LEMMA HandedStays ==
  ASSUME Handed, source' = source, phase' # "idle" => phase # "idle"
  PROVE  Handed'
<1>1. (\E S : LP!Sealed(source.blocks, S))' <=> \E S : LP!Sealed(source.blocks, S)
  BY DEF LP!Sealed
<1> QED
  BY <1>1 DEF Handed

(* Analysis accepts a function that returns a value only when its body     *)
(* always returns.                                                         *)
LEMMA Analyze1Covers ==
  ASSUME FInv, LiveInv, Analyze1
  PROVE  LiveInv'
<1>1. AnalysisStep /\ UNCHANGED lowerVars /\ UNCHANGED passVars
  BY DEF Analyze1, lowerVars, passVars
<1>2. verdict = "analyzing" /\ body' = body
  BY <1>1 DEF AnalysisStep, AnalyzeDeclare, AnalyzeAssign, AnalyzePrint, AnalyzeReturn,
     AnalyzeJump, EnterBlock, EnterIf, EnterElse, EnterWhile, Leave, FinishAnalysis, Analyze, At
<1>3. body \in Bodies /\ LP!LoweringInit
  BY <1>2 DEF FInv
<1>4. ASSUME verdict' = "accepted"
      PROVE  \E R : LP!CoveredBy(R)' /\ LP!KInv(R)'
  <2>1. FinishAnalysis
    BY <1>1, <1>4, <1>2 DEF AnalysisStep, AnalyzeDeclare, AnalyzeAssign, AnalyzePrint, AnalyzeReturn,
     AnalyzeJump, EnterBlock, EnterIf, EnterElse, EnterWhile, Leave, Analyze, At
  <2>2. returnType' = "void" \/ AlwaysReturns
    <3>1. verdict' = IF Cardinality(inferred) <= 1 /\ (returnType' = "void" \/ AlwaysReturns)
                     THEN "accepted" ELSE "rejected"
      BY <2>1 DEF FinishAnalysis
    <3> QED
      BY <1>4, <3>1
  <2>3. PICK R : LP!Returning(body, R) /\ (AlwaysReturns => \E s \in R : LP!OpenerOf(body, s) = 0)
    BY <1>3, SomeReturn
  <2>4. /\ LP!Returning(body, R)' <=> LP!Returning(body, R)
        /\ \A s : LP!OpenerOf(body, s)' = LP!OpenerOf(body, s)
    BY <1>2
  <2>5. LP!CoveredBy(R)'
    BY <2>2, <2>3, <2>4 DEF LP!CoveredBy
  <2>6. stage' = "idle"
    BY <1>1, <1>3 DEF LP!LoweringInit, lowerVars
  <2>7. LP!KInv(R)'
    BY <2>6 DEF LP!KInv
  <2> QED
    BY <2>5, <2>7
<1>5. Covered'
  BY <1>4, Zenon DEF Covered
<1>6. Handed'
  BY <1>1, HandedStays DEF LiveInv, passVars
<1> QED
  BY <1>5, <1>6 DEF LiveInv

LEMMA Lower1Covers ==
  ASSUME FInv, LiveInv, Lower1
  PROVE  LiveInv'
<1>1. /\ verdict = "accepted" /\ LP!LoweringStep
      /\ UNCHANGED semaVars /\ UNCHANGED passVars
  BY SameLowering DEF Lower1
<1>2. UNCHANGED <<body, returnType, verdict>>
  BY <1>1 DEF semaVars
<1>3. LP!Analyzed /\ LP!LInv
  BY <1>1 DEF FInv
<1>4. PICK R : LP!CoveredBy(R) /\ LP!KInv(R)
  BY <1>1 DEF LiveInv, Covered
<1>5. LP!KInv(R)'
  BY <1>1, <1>2, <1>3, <1>4, LP!StepLives
<1>6. LP!CoveredBy(R)'
  BY <1>2, <1>4 DEF LP!CoveredBy
<1>7. Covered'
  BY <1>5, <1>6, Zenon DEF Covered
<1>8. Handed'
  BY <1>1, HandedStays DEF LiveInv, passVars
<1> QED
  BY <1>7, <1>8 DEF LiveInv

LEMMA HandOverSeals ==
  ASSUME FInv, LiveInv, HandOver
  PROVE  LiveInv'
<1>1. /\ stage = "lowered" /\ source' = LP!Lowered
      /\ UNCHANGED semaVars /\ UNCHANGED lowerVars
  BY SameLowering DEF HandOver, semaVars, lowerVars
<1>2. verdict = "accepted" /\ LP!Built /\ returnType \in {"void", "bool"}
  BY <1>1, Lowered
<1>3. PICK S : LP!Sealed(blocks, S)
  BY <1>1, <1>2 DEF LiveInv, Covered, LP!KInv
<1>4. source'.blocks = blocks
  BY <1>1 DEF LP!Lowered
<1>5. LP!Sealed(source.blocks, S)'
  BY <1>3, <1>4 DEF LP!Sealed
<1>6. \A i \in 1 .. Len(source'.blocks) : source'.blocks[i].id = i - 1
  BY <1>2, <1>4, BuiltFacts
<1>7. Handed'
  BY <1>5, <1>6 DEF Handed
<1>8. Covered'
  BY <1>1, CoveredStays DEF LiveInv
<1> QED
  BY <1>7, <1>8 DEF LiveInv

LEMMA Pass1Covers ==
  ASSUME LiveInv, Pass1
  PROVE  LiveInv'
<1>1. PP!PassStep /\ UNCHANGED semaVars /\ UNCHANGED lowerVars
  BY SamePasses DEF Pass1
<1>2. phase # "idle" /\ source' = source
  BY <1>1 DEF PP!PassStep, PP!VerifyBefore, PP!FoldBlock, PP!StartReach, PP!VisitBlock,
     PP!EraseUnreachable, PP!VerifyAfter, PP!BuildFrame
<1> QED
  BY <1>1, <1>2, CoveredStays, HandedStays DEF LiveInv

LEMMA RestCovers ==
  ASSUME LiveInv, UNCHANGED vars
  PROVE  LiveInv'
<1>1. UNCHANGED semaVars /\ UNCHANGED lowerVars /\ UNCHANGED passVars
  BY DEF vars
<1> QED
  BY <1>1, CoveredStays, HandedStays DEF LiveInv, passVars

(* Block ids count from 0, the blocks of a sequence from 1.                *)
LEMMA Shifted ==
  ASSUME NEW n \in Nat
  PROVE  /\ \A id \in 0 .. n - 1 : id + 1 \in 1 .. n /\ (id + 1) - 1 = id
         /\ 0 \in 0 .. n - 1 => 1 \in 1 .. n
         /\ 1 - 1 = 0
         /\ \A i \in 1 .. n : (i - 1) + 1 = i
OBVIOUS

(* No optimized function contains an Unreachable: the missing-return check *)
(* of semantic analysis and the end of lowering agree on which functions   *)
(* can run off their end, whatever loops, jumps and dead statements are in *)
(* them, and eliminateDeadBlocks erases the one that lowering appends.     *)
THEOREM MissingReturnCheckIsSound == Spec => []NoUnreachableKept
<1>1. Init => LiveInv
  BY DEF Init, AnalysisInit, LiveInv, Covered, Handed
<1>2. FInv /\ LiveInv /\ [Next]_vars => LiveInv'
  BY RestCovers, Analyze1Covers, Lower1Covers, HandOverSeals, Pass1Covers DEF Next, Step, Stopped
<1>3. FInv /\ LiveInv => NoUnreachableKept
  <2> SUFFICES ASSUME FInv, LiveInv, phase \in {"frame", "emit", "frame error"}
               PROVE  \A i \in DOMAIN fn.blocks : fn.blocks[i].term.kind # "unreachable"
    BY DEF NoUnreachableKept
  <2>1. PP!IInv /\ PP!Optimized
    BY DEF FInv, PP!Optimized
  <2>2. /\ Len(source.blocks) \in Nat
        /\ DOMAIN source.blocks = 1 .. Len(source.blocks)
    BY <2>1, PP!SourceFacts DEF PP!IInv
  <2>3. \A i \in 1 .. Len(source.blocks) : source.blocks[i].id = i - 1
    BY DEF LiveInv, Handed
  <2>4. PICK S : LP!Sealed(source.blocks, S)
    BY DEF LiveInv, Handed
  <2>5. /\ 0 \in S /\ S \subseteq 0 .. Len(source.blocks) - 1
        /\ \A id \in S : /\ PP!Targets(source.blocks[id + 1].term) \subseteq S
                         /\ source.blocks[id + 1].term.kind # "unreachable"
    BY <2>4 DEF LP!Sealed, LP!Targets, PP!Targets
  <2>6. /\ \A id \in S : id + 1 \in 1 .. Len(source.blocks) /\ (id + 1) - 1 = id
        /\ 1 \in 1 .. Len(source.blocks) /\ 1 - 1 = 0
        /\ \A i \in 1 .. Len(source.blocks) : (i - 1) + 1 = i
    BY <2>2, <2>5, Shifted, Zenon
  <2>7. S \in SUBSET PP!Ids(source.blocks)
    <3>1. \A id \in S : source.blocks[id + 1].id = id
      BY <2>3, <2>6, Zenon
    <3> SUFFICES ASSUME NEW id \in S
                 PROVE  id \in PP!Ids(source.blocks)
      BY Zenon
    <3> QED
      BY <2>2, <2>6, <3>1 DEF PP!Ids
  <2>8. source.blocks[1].id \in S
    <3>1. source.blocks[1].id = 1 - 1
      BY <2>3, <2>6
    <3> QED
      BY <2>5, <2>6, <3>1
  <2>9. ASSUME NEW i \in 1 .. Len(source.blocks), source.blocks[i].id \in S
        PROVE  /\ PP!Targets(source.blocks[i].term) \subseteq S
               /\ source.blocks[i].term.kind # "unreachable"
    <3>1. source.blocks[i].id = i - 1 /\ (i - 1) + 1 = i
      BY <2>3, <2>6
    <3> QED
      BY <2>5, <2>9, <3>1
  <2> QED
    BY <2>1, <2>7, <2>8, <2>9, PP!UnreachableErased
<1> QED
  BY <1>1, <1>2, <1>3, Inductive, PTL DEF Spec
=============================================================================
