----------------------------- MODULE LlvmBackend -----------------------------
(***************************************************************************)
(* The LLVM backend at the end of the typed front end: main.cpp hands the  *)
(* module that lowering built to LlvmIrTextEmitter::emit, which declares   *)
(* the extern functions and then emits the functions, one after another.   *)
(***************************************************************************)
EXTENDS TypedFrontend, LlvmMeaning

VARIABLES
  emitter,     \* what the emitter has gathered for the module
  bodies       \* the functions emitted so far

allVars == <<vars, emitter, bodies>>

LlvmInit == Init /\ emitter = Fresh /\ bodies = << >>

UpToLowering == Next /\ UNCHANGED <<emitter, bodies>>

DeclareExternFunctions ==
  /\ stage = "lowered"
  /\ emitter' = DeclareExterns(Module)
  /\ stage' = "emit"
  /\ UNCHANGED <<source, tokens, at, program, known, trees, signatures, lowered, fine, bodies>>

EmitNextFunction ==
  /\ stage = "emit"
  /\ \E done \in {EmitFunction(emitter, lowered[Len(bodies) + 1])} :
       /\ emitter' = done.e
       /\ bodies' = Append(bodies, done.function)
  /\ stage' = CASE Len(bodies') < Len(lowered) -> stage
                [] emitter'.ok -> "emitted"
                [] OTHER -> "unsupported"
  /\ UNCHANGED <<source, tokens, at, program, known, trees, signatures, lowered, fine>>

LlvmNext == UpToLowering \/ DeclareExternFunctions \/ EmitNextFunction

LlvmSpec == LlvmInit /\ [][LlvmNext]_allVars

Ir == [declarations |-> emitter.declarations, strings |-> emitter.strings, functions |-> bodies]

(* Both backends must agree on a program.  Where the runtime library is    *)
(* stricter than the inline code of the PE backend (a malformed number     *)
(* ends the program), rounds a tie the other way or takes TRUE for true,   *)
(* they agree up to there.                                                 *)
Agrees(here, there) ==
  IF here[2] \in {"abort", "tie", "case"} THEN IsPrefix(here[1], there[1]) ELSE here = there

(* The LLVM backend reports nothing for a module that lowering produced;   *)
(* what it prints keeps the typing and naming rules of LLVM IR, with       *)
(* floating-point literals read as they are meant; and it does what the    *)
(* VIR does, as the runtime library completes it.                          *)
LlvmMeansTheSame ==
  /\ stage # "unsupported"
  /\ stage = "emitted" =>
       /\ ValidLlvm(Ir)
       /\ \E f \in ToSet(trees) : f.name = Main /\ f.params = << >>
            => Agrees(LlvmRun(Module, Ir, Fuel), VirRun(Module, Fuel))
=============================================================================
