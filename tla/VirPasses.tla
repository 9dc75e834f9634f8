------------------------------ MODULE VirPasses ------------------------------
(***************************************************************************)
(* What voltisc does to a lowered function before code generation          *)
(* (src/vir_passes.cpp, run from the driver's runFrontendPipeline): verify,*)
(* fold branches on boolean constants, find the reachable blocks with a    *)
(* worklist, erase the others, verify again; then the native backend's     *)
(* buildFrame gives every value a stack slot.                              *)
(***************************************************************************)
EXTENDS Vir

CONSTANT Sources   \* the functions that are given to the passes

ASSUME SourceAssumption == Sources \subseteq Function

VARIABLES
  fn,          \* the function as it is now
  source,      \* the function as it came from lowering
  phase,       \* the pass that runs
  cursor,      \* the block the folding loop is at
  reachable,   \* ids found reachable
  worklist     \* the stack of ids to visit, top last

passVars == <<fn, source, phase, cursor, reachable, worklist>>

Phases ==
  {"verify", "fold", "reach", "reverify", "frame", "emit",
   "rejected", "spoiled", "frame error"}

PassInit ==
  /\ fn \in Sources
  /\ source = fn
  /\ phase = "verify"
  /\ cursor = 1
  /\ reachable = {}
  /\ worklist = << >>

-----------------------------------------------------------------------------
(* verifyFunction, in the order of its three loops.                        *)
UniqueBlockIds(f) ==
  \A i, j \in DOMAIN f.blocks : f.blocks[i].id = f.blocks[j].id => i = j

InstructionSites(f) ==
  UNION {{<<i, j>> : j \in DOMAIN f.blocks[i].code} : i \in DOMAIN f.blocks}

At(f, site) == f.blocks[site[1]].code[site[2]]

Precedes(s, t) == s[1] < t[1] \/ (s[1] = t[1] /\ s[2] < t[2])

UniqueDefinitions(f) ==
  \A s, t \in InstructionSites(f) :
    At(f, s).def = At(f, t).def /\ At(f, s).def # None => s = t

(* "Defined" means by an earlier instruction in vector order: the verifier *)
(* does not ask whether the definition dominates the use.                  *)
OperandsDefined(f) ==
  \A t \in InstructionSites(f) : \A v \in At(f, t).uses :
    \E s \in InstructionSites(f) : Precedes(s, t) /\ At(f, s).def = v

SlotsExist(f) ==
  \A s \in InstructionSites(f) : At(f, s).slot \in {None} \cup 0 .. f.locals - 1

TerminatorVerified(f, term) ==
  /\ term.kind # "missing"
  /\ term.kind = "return" =>
       IF f.void THEN term.value = None ELSE term.value \in Defined(f.blocks)
  /\ term.kind = "cond" => term.value \in Defined(f.blocks)
  /\ Targets(term) \subseteq Ids(f.blocks)

Verified(f) ==
  /\ f.blocks # << >>
  /\ UniqueBlockIds(f)
  /\ UniqueDefinitions(f)
  /\ OperandsDefined(f)
  /\ SlotsExist(f)
  /\ \A i \in DOMAIN f.blocks : TerminatorVerified(f, f.blocks[i].term)

VerifyBefore ==
  /\ phase = "verify"
  /\ phase' = IF Verified(fn) THEN "fold" ELSE "rejected"
  /\ UNCHANGED <<fn, source, cursor, reachable, worklist>>

-----------------------------------------------------------------------------
(* collectBooleanConstants: the boolean constant a value holds, if any; in *)
(* a verified function it has one definition.                              *)
HoldsConstant(f, v, truth) ==
  \E s \in InstructionSites(f) :
    At(f, s).op = "constant" /\ At(f, s).def = v /\ At(f, s).truth = truth

TruthOf(f, v) ==
  IF HoldsConstant(f, v, "true") THEN "true"
  ELSE IF HoldsConstant(f, v, "false") THEN "false" ELSE "other"

MutFolded(f, term) ==
  IF term.kind = "cond" /\ TruthOf(f, term.value) # "other"
  THEN Branch(IF TruthOf(f, term.value) = "true" THEN term.else ELSE term.then)
  ELSE term

Folded(f, term) ==
  IF term.kind = "cond" /\ TruthOf(f, term.value) # "other"
  THEN Branch(IF TruthOf(f, term.value) = "true" THEN term.then ELSE term.else)
  ELSE term

(* One turn of optimizeModule's loop over the blocks.                      *)
FoldBlock ==
  /\ phase = "fold"
  /\ cursor <= Len(fn.blocks)
  /\ fn' = [fn EXCEPT !.blocks[cursor].term = Folded(fn, @)]
  /\ cursor' = cursor + 1
  /\ UNCHANGED <<source, phase, reachable, worklist>>

MutStartReachEarly ==
  /\ phase = "fold"
  /\ cursor >= Len(fn.blocks)
  /\ phase' = "reach"
  /\ worklist' = <<fn.blocks[1].id>>
  /\ UNCHANGED <<fn, source, cursor, reachable>>

(* collectReachableBlockIds starts from the first block of the vector.     *)
StartReach ==
  /\ phase = "fold"
  /\ cursor > Len(fn.blocks)
  /\ phase' = "reach"
  /\ worklist' = <<fn.blocks[1].id>>
  /\ UNCHANGED <<fn, source, cursor, reachable>>

MutPushed(term) ==
  CASE term.kind = "branch" -> <<term.then>>
    [] term.kind = "cond" -> <<term.then>>
    [] OTHER -> << >>

(* The successors a visited block pushes, in order.                        *)
Pushed(term) ==
  CASE term.kind = "branch" -> <<term.then>>
    [] term.kind = "cond" -> <<term.then, term.else>>
    [] OTHER -> << >>

MutVisitBlock ==
  /\ phase = "reach"
  /\ worklist # << >>
  /\ LET id == Last(worklist)
     IN  /\ reachable' = reachable \cup {id}
         /\ worklist' =
              IF id \in reachable \/ id \notin Ids(fn.blocks)
              THEN worklist
              ELSE Front(worklist) \o Pushed(BlockWithId(fn.blocks, id).term)
  /\ UNCHANGED <<fn, source, phase, cursor>>

(* One turn of the worklist loop.                                          *)
VisitBlock ==
  /\ phase = "reach"
  /\ worklist # << >>
  /\ LET id == Last(worklist)
     IN  /\ reachable' = reachable \cup {id}
         /\ worklist' =
              IF id \in reachable \/ id \notin Ids(fn.blocks)
              THEN Front(worklist)
              ELSE Front(worklist) \o Pushed(BlockWithId(fn.blocks, id).term)
  /\ UNCHANGED <<fn, source, phase, cursor>>

(* The blocks that the loop after the search pushes back: those whose id   *)
(* is in ids, in vector order.                                             *)
MutKept(blocks, ids) ==
  LET kept[i \in 0 .. Len(blocks)] ==
        IF i = 0 THEN << >>
        ELSE IF blocks[i].id \in ids THEN kept[i - 1] ELSE Append(kept[i - 1], blocks[i])
  IN  kept[Len(blocks)]

Kept(blocks, ids) ==
  LET kept[i \in 0 .. Len(blocks)] ==
        IF i = 0 THEN << >>
        ELSE IF blocks[i].id \in ids THEN Append(kept[i - 1], blocks[i]) ELSE kept[i - 1]
  IN  kept[Len(blocks)]

(* The rest of optimizeModule: nothing is erased when the counts agree.    *)
EraseUnreachable ==
  /\ phase = "reach"
  /\ worklist = << >>
  /\ fn' = IF Cardinality(reachable) = Len(fn.blocks)
           THEN fn
           ELSE [fn EXCEPT !.blocks = Kept(fn.blocks, reachable)]
  /\ cursor' = 1
  /\ phase' = "reverify"
  /\ UNCHANGED <<source, reachable, worklist>>

VerifyAfter ==
  /\ phase = "reverify"
  /\ phase' = IF Verified(fn) THEN "frame" ELSE "spoiled"
  /\ UNCHANGED <<fn, source, cursor, reachable, worklist>>

(* buildFrame: maxValue is one more than the largest id defined, and each  *)
(* id below it must have been seen.                                        *)
FrameComplete(f) ==
  \A v \in Defined(f.blocks) : 0 .. v \subseteq Defined(f.blocks)

BuildFrame ==
  /\ phase = "frame"
  /\ phase' = IF FrameComplete(fn) THEN "emit" ELSE "frame error"
  /\ UNCHANGED <<fn, source, cursor, reachable, worklist>>

PassStep ==
  \/ VerifyBefore
  \/ FoldBlock
  \/ StartReach
  \/ VisitBlock
  \/ EraseUnreachable
  \/ VerifyAfter
  \/ BuildFrame

PassesEnded == phase \in {"emit", "rejected", "spoiled", "frame error"}

Rest == PassesEnded /\ UNCHANGED passVars

PassNext == PassStep \/ Rest

(* The passes are plain loops of one thread.                               *)
PassSpec == PassInit /\ [][PassNext]_passVars /\ WF_passVars(PassStep)
-----------------------------------------------------------------------------
(* The edges that can be taken in a function: a branch on a boolean        *)
(* constant takes one side only.                                           *)
Feasible(f, term) ==
  IF term.kind = "cond" /\ TruthOf(f, term.value) = "true" THEN {term.then}
  ELSE IF term.kind = "cond" /\ TruthOf(f, term.value) = "false" THEN {term.else}
  ELSE Targets(term)

(* S holds the entry block and every block an edge leads to from S.        *)
ClosedIn(f, S) ==
  /\ f.blocks[1].id \in S
  /\ \A i \in DOMAIN f.blocks :
       f.blocks[i].id \in S => Feasible(f, f.blocks[i].term) \subseteq S

Optimized == phase \in {"reverify", "frame", "emit", "spoiled", "frame error"}

(* The worklist computes reachability: the least set of blocks that holds  *)
(* the entry and is closed under the edges that can be taken.              *)
ReachableIsLeast ==
  Optimized =>
    /\ ClosedIn(source, reachable)
    /\ \A S \in SUBSET Ids(source.blocks) : ClosedIn(source, S) => reachable \subseteq S

(* During the search every block seen so far is either finished (its       *)
(* successors are known too) or still on the worklist.                     *)
WorklistCovers ==
  phase = "reach" =>
    \A i \in DOMAIN fn.blocks :
      fn.blocks[i].id \in reachable =>
        Targets(fn.blocks[i].term) \subseteq reachable \cup ToSet(worklist)

(* The optimized function takes the same edges and runs the same code as   *)
(* the lowered one: it keeps exactly the blocks that execution can enter,  *)
(* the entry first, with their code, and their terminators go where the    *)
(* lowered ones could go.                                                  *)
BehaviourKept ==
  Optimized =>
    /\ fn.blocks # << >>
    /\ fn.blocks[1].id = source.blocks[1].id
    /\ Ids(fn.blocks) = reachable
    /\ \A i \in DOMAIN fn.blocks :
         LET b == fn.blocks[i]
             o == BlockWithId(source.blocks, b.id)
         IN  /\ b.code = o.code
             /\ Targets(b.term) = Feasible(source, o.term)
             /\ b.term.kind # "branch" => b.term = o.term

(* A second run of the optimizer would find nothing to do.                 *)
NothingLeftToFold ==
  Optimized =>
    \A i \in DOMAIN fn.blocks : Folded(fn, fn.blocks[i].term) = fn.blocks[i].term

(* Every operand is defined in the block that uses it, as lowering does.   *)
BlockLocalValues(f) ==
  \A i \in DOMAIN f.blocks :
    LET own == Defined(<<f.blocks[i]>>)
    IN  /\ \A j \in DOMAIN f.blocks[i].code : f.blocks[i].code[j].uses \subseteq own
        /\ f.blocks[i].term.value \in own \cup {None}

(* A function that passed verification still passes it after optimization: *)
(* erasing blocks takes no definition, target or entry away from the rest. *)
NeverSpoiled == BlockLocalValues(source) => phase # "spoiled"

(* The passes end for every control-flow graph, loops included.            *)
PassesTerminate == <>PassesEnded
=============================================================================
