------------------------------ MODULE Frontend -------------------------------
(***************************************************************************)
(* runFrontendPipeline (src/main.cpp) for a program of one function:       *)
(* semantic analysis, lowering, verification, optimization, verification,  *)
(* and the frame the native backend then builds.  Each stage starts when   *)
(* the one before it succeeded; a stage that reports an error ends the     *)
(* compilation.                                                            *)
(***************************************************************************)
EXTENDS Sema, Meaning

VARIABLES
  at, skipping, blocks, current, nextValueId, locals, slots, loopTargets,
  pending, stage,                                     \* Lowering
  fn, source, phase, cursor, reachable, worklist      \* VirPasses

L == INSTANCE Lowering
P == INSTANCE VirPasses WITH Sources <- {}

lowerVars ==
  <<at, skipping, blocks, current, nextValueId, locals, slots, loopTargets,
    pending, stage>>
passVars == <<fn, source, phase, cursor, reachable, worklist>>
vars == <<semaVars, lowerVars, passVars>>

NoFunction == [blocks |-> << >>, locals |-> 0, void |-> TRUE]

Init ==
  /\ AnalysisInit
  /\ L!LoweringInit
  /\ fn = NoFunction
  /\ source = NoFunction
  /\ phase = "idle"
  /\ cursor = 1
  /\ reachable = {}
  /\ worklist = << >>

Analyze1 == AnalysisStep /\ UNCHANGED <<lowerVars, passVars>>

Lower1 ==
  /\ verdict = "accepted"
  /\ L!LoweringStep
  /\ UNCHANGED <<semaVars, passVars>>

HandOver ==
  /\ stage = "lowered"
  /\ phase = "idle"
  /\ fn' = L!Lowered
  /\ source' = L!Lowered
  /\ phase' = "verify"
  /\ UNCHANGED <<cursor, reachable, worklist, semaVars, lowerVars>>

Pass1 == P!PassStep /\ UNCHANGED <<semaVars, lowerVars>>

Ended == verdict = "rejected" \/ stage = "failed" \/ P!PassesEnded

Stopped == Ended /\ UNCHANGED vars

Step == Analyze1 \/ Lower1 \/ HandOver \/ Pass1

Next == Step \/ Stopped

Spec == Init /\ [][Next]_vars /\ WF_vars(Step)
-----------------------------------------------------------------------------
(* Semantic analysis lets nothing through that lowering cannot handle: its *)
(* scopes, loops and returns are checked twice, by two pieces of code.     *)
LoweringNeverFails == stage # "failed"

(* Lowering builds what the verifier demands, and the optimizer keeps it.  *)
VerifierNeverComplains == phase \notin {"rejected", "spoiled"}

(* A value is used only in the block that defines it, and the ids of a     *)
(* lowered function have no gap, so the backend can always build a frame   *)
(* for it.                                                                 *)
ValuesAreLocalAndDense ==
  stage = "lowered" =>
    /\ P!BlockLocalValues(L!Lowered)
    /\ Defined(blocks) = 0 .. nextValueId - 1
    /\ P!FrameComplete(L!Lowered)

(* A declaration whose initializer names the variable that it declares.    *)
OwnInitializer(i) ==
  body[i].kind = "declare" /\ UsesName(body[i].expr) /\ body[i].expr[2] = body[i].name

(* Statement i is about to be lowered.                                     *)
Lowers(i) ==
  /\ stage = "lowering"
  /\ skipping = 0
  /\ i = at
  /\ body[i].kind \notin {"else", "close"}
  /\ ~ L!HasTerminator(current)

(* The scopes and the locals in which lowering resolves the names of       *)
(* statement i: a declaration adds its own local first.                    *)
SlotsFor(i) ==
  IF body[i].kind = "declare"
  THEN [slots EXCEPT ![Len(slots)] = With(@, body[i].name, Len(locals))]
  ELSE slots

LocalsFor(i) == IF body[i].kind = "declare" THEN Append(locals, i) ELSE locals

(* The declaration behind the slot that a name in statement i means.       *)
DeclaredAt(x, i) ==
  LET slot == L!LookupLocal(SlotsFor(i), x)
  IN  IF slot = None THEN Undefined ELSE LocalsFor(i)[slot + 1]

(* The names of a statement mean to lowering what they meant to semantic   *)
(* analysis, as long as no initializer names the variable it initializes.  *)
NamesAgree ==
  \A i \in DOMAIN body :
    Lowers(i) /\ ~ OwnInitializer(i) =>
      /\ i \in DOMAIN operand => DeclaredAt(body[i].expr[2], i) = operand[i]
      /\ i \in DOMAIN target => DeclaredAt(body[i].name, i) = target[i]

(* The optimized function prints and returns what the source does, when    *)
(* every name means what semantic analysis resolved it to.                 *)
ShadowingRespected ==
  phase = "frame" =>
    \A argument \in {"true", "false"} :
      VirRun(fn, argument) = SourceRun(body, operand, target, argument)

(* The same where no initializer names the variable that it initializes.   *)
SameBehaviour == (\E i \in DOMAIN body : OwnInitializer(i)) \/ ShadowingRespected

(* The missing-return check is sound: the Unreachable that lowering puts   *)
(* at the end of a function that returns a value is erased as unreachable. *)
NoUnreachableKept ==
  phase \in {"frame", "emit", "frame error"} =>
    \A i \in DOMAIN fn.blocks : fn.blocks[i].term.kind # "unreachable"

(* Optimized, verified VIR is ready for code generation: the backend finds *)
(* a type for every value slot of the frame.                               *)
FrameAlwaysBuilds == phase # "frame error"

(* Every body is compiled or rejected.                                     *)
FrontendEnds == <>Ended
=============================================================================
