----------------------------- MODULE LlvmMeaning -----------------------------
(***************************************************************************)
(* What LLVM makes of the module that the backend prints: the rules that   *)
(* its reader checks, an interpreter, and the runtime library that the     *)
(* code calls (src/voltis_runtime.cpp).                                    *)
(*                                                                         *)
(* `ir` is [declarations, strings, functions].                             *)
(***************************************************************************)
EXTENDS LlvmIr

-----------------------------------------------------------------------------
(* The rules of the IR.                                                    *)
Signatures(ir) ==
  ir.declarations \o [k \in DOMAIN ir.functions |->
    [name |-> ir.functions[k].name, params |-> ir.functions[k].params,
     returns |-> ir.functions[k].returns]]

InstsOf(f) == FlattenSeq([k \in DOMAIN f.blocks |-> f.blocks[k].code])

(* The types that an operand can be printed with.                          *)
OperandTypes(f, operand, code) ==
  CASE operand[1] = "int" -> {"i32"}
    [] operand[1] = "float" -> {"float", "double"}
    [] operand[1] = "bool" -> {"i1"}
    [] operand[1] = "str" -> {"i8*"}
    [] operand[1] = "arg" -> {f.params[operand[2] + 1]}
    [] operand[1] \in {"bb", "entry.alloca"} ->
         IF \E k \in DOMAIN f.blocks : f.blocks[k].label = operand THEN {"label"} ELSE {}
    [] OTHER -> {code[k].type : k \in {k \in DOMAIN code : code[k].result = operand}}

FloatingTypes == {"float", "double"}
ArgTypes(i) == [k \in DOMAIN i.args |-> i.args[k].type]

WellFormed(i, f, signatures) ==
  \E types \in {ArgTypes(i)} :
    CASE i.op \in {"add", "sub", "mul", "sdiv"} -> types = <<"i32", "i32">> /\ i.type = "i32"
      [] i.op \in {"fadd", "fsub", "fmul", "fdiv"} -> types = <<i.type, i.type>> /\ i.type \in FloatingTypes
      [] i.op = "fneg" -> types = <<i.type>> /\ i.type \in FloatingTypes
      [] i.op \in {"xor", "and", "or"} -> types = <<"i1", "i1">> /\ i.type = "i1"
      [] i.op \in {IntCompare[c] : c \in DOMAIN IntCompare} ->
           types \in {<<"i32", "i32">>, <<"i1", "i1">>} /\ i.type = "i1"
      [] i.op \in {FloatCompare[c] : c \in DOMAIN FloatCompare} \cup {"fcmp une"} ->
           types \in {<<t, t>> : t \in FloatingTypes} /\ i.type = "i1"
      [] i.op = "fptosi" -> types \in {<<t>> : t \in FloatingTypes} /\ i.type = "i32"
      [] i.op = "zext" -> types = <<"i1">> /\ i.type = "i32"
      [] i.op = "sitofp" -> types = <<"i32">> /\ i.type \in FloatingTypes
      [] i.op = "uitofp" -> types = <<"i1">> /\ i.type \in FloatingTypes
      [] i.op = "fptrunc" -> types = <<"double">> /\ i.type = "float"
      [] i.op = "fpext" -> types = <<"float">> /\ i.type = "double"
      [] i.op = "alloca" -> types = << >>
      [] i.op = "load" -> types = <<i.type \o "*">>
      [] i.op = "store" -> types[2] = types[1] \o "*"
      [] i.op = "call" -> \E d \in ToSet(signatures) : d.name = i.callee /\ d.params = types /\ d.returns = i.type
      [] i.op = "ret" -> types = IF f.returns = "void" THEN << >> ELSE <<f.returns>>
      [] i.op = "br" -> types \in {<<"label">>, <<"i1", "label", "label">>}
      [] i.op = "unreachable" -> types = << >>

ValidFunction(f, code, signatures) ==
  /\ \A j, k \in DOMAIN code : j # k /\ code[j].result # NoResult => code[j].result # code[k].result
  /\ \A k \in DOMAIN code :
       /\ WellFormed(code[k], f, signatures)
       /\ \A a \in ToSet(code[k].args) : a.type \in OperandTypes(f, a.operand, code)

(* Every name is declared or defined once, every instruction takes and     *)
(* gives what its operands are, every label is there.                      *)
ValidLlvm(ir) ==
  \E signatures \in {Signatures(ir)} :
    /\ \A j, k \in DOMAIN signatures : signatures[j].name = signatures[k].name => j = k
    /\ \A f \in ToSet(ir.functions) : ValidFunction(f, InstsOf(f), signatures)

-----------------------------------------------------------------------------
(* The runtime library.  Reading a number wants all of the text.           *)
LowerLetters(s) == [k \in DOMAIN s |-> IF s[k] \in 65 .. 90 THEN s[k] + 32 ELSE s[k]]

WholeNumber(s, end) == s = << >> \/ (end >= NumberStart(s) /\ end = Len(s))
ReadsInt(s) ==
  \E end \in {DigitsEnd(s, NumberStart(s))} :
    WholeNumber(s, end) /\ NaturalAt(s, NumberStart(s)) < IntHalf
ReadsFloat(s) ==
  \E end \in {DigitsEnd(s, NumberStart(s))} :
    \/ WholeNumber(s, end)
    \/ end >= NumberStart(s) /\ SubSeq(s, end + 1, Len(s)) = <<Dot, Zero + 5>>
ReadsBool(s) == LowerLetters(s) \in {TextTrue, TextFalse} \/ s \in {<<Zero>>, <<Zero + 1>>}

VtStrToBool(s) == Truth(LowerLetters(s) = TextTrue \/ s = <<Zero + 1>>)

(* llvm.round takes halves away from zero.                                 *)
AwayFromZero(h) == IF h % 2 = 0 THEN h ELSE IF h > 0 THEN h + 1 ELSE h - 1

VirTypeOf == [i32 |-> "int32", float |-> "float32", double |-> "float64", i1 |-> "bool"]

Aborts(callee, x) ==
  \/ callee = <<"vt_str_to_i32">> /\ ~ReadsInt(x)
  \/ callee \in {<<"vt_str_to_f32">>, <<"vt_str_to_f64">>} /\ ~ReadsFloat(x)
  \/ callee = <<"vt_str_to_bool">> /\ ~ReadsBool(x)

HelperAnswer(callee, type, xs) ==
  CASE callee = VtConcat -> xs[1] \o xs[2]
    [] callee = VtEqual -> Truth(xs[1] = xs[2])
    [] callee = <<"vt_str_to_i32">> -> ParsedInt(xs[1])
    [] callee \in {<<"vt_str_to_f32">>, <<"vt_str_to_f64">>} -> ParsedFloat(xs[1])
    [] callee = <<"vt_str_to_bool">> -> VtStrToBool(xs[1])
    [] callee[1] = "llvm.round." -> AwayFromZero(xs[1])
    [] callee[1] = "llvm.floor." -> Floored(xs[1])
    [] callee[1] = "llvm.ceil." -> Ceiled(xs[1])
    [] OTHER -> Text(VirTypeOf[type], xs[1])          \* vt_to_string_*

Prints(callee) == callee \in {PrintHelper[t] : t \in DOMAIN PrintHelper}
PrintedText(type, x) == IF type = "i8*" THEN x ELSE Text(VirTypeOf[type], x)

-----------------------------------------------------------------------------
(* The interpreter.                                                        *)
LlvmFrame(f, xs, result) ==
  [f |-> f, block |-> 1, at |-> 1, result |-> result, memory |-> << >>,
   registers |-> [operand \in {<<"arg", k - 1>> : k \in DOMAIN xs} |-> xs[operand[2] + 1]]]

LlvmFunction(ir, name) == ir.functions[CHOOSE k \in DOMAIN ir.functions : ir.functions[k].name = name]
DefinesFunction(ir, name) == \E k \in DOMAIN ir.functions : ir.functions[k].name = name

LlvmStart(ir) ==
  [stack |-> <<LlvmFrame(LlvmFunction(ir, Main), << >>, NoResult)>>,
   out |-> << >>, outcome |-> "running", code |-> 0]

ValueOf(ir, frame, operand) ==
  CASE operand[1] = "str" -> ir.strings[operand[2]]
    [] operand[1] \in {"int", "float", "bool"} -> operand[2]
    [] operand[1] \in {"l", "bb", "entry.alloca"} -> 0
    [] OTHER -> frame.registers[operand]

SetRegister(s, result, x) ==
  IF result = NoResult THEN s
  ELSE [s EXCEPT !.stack[Len(s.stack)].registers = (result :> x) @@ @]

OperatorOf(table, op) == CHOOSE c \in DOMAIN table : table[c] = op
IsOne(table, op) == \E c \in DOMAIN table : table[c] = op

Pure(op, xs) ==
  CASE IsOne(IntOp, op) -> Computed(OperatorOf(IntOp, op), "int32", xs[1], xs[2])
    [] IsOne(FloatingOp, op) -> FloatOp(OperatorOf(FloatingOp, op), xs[1], xs[2])
    [] IsOne(IntCompare, op) -> Compared(OperatorOf(IntCompare, op), xs[1], xs[2])
    [] IsOne(FloatCompare, op) -> Compared(OperatorOf(FloatCompare, op), xs[1], xs[2])
    [] op = "fcmp une" -> Truth(xs[1] # xs[2])
    [] op = "fneg" -> -xs[1]
    [] op = "xor" -> (xs[1] + xs[2]) % 2
    [] op = "and" -> xs[1] * xs[2]
    [] op = "or" -> Truth(xs[1] + xs[2] > 0)
    [] op = "fptosi" -> Truncated(xs[1])
    [] op \in {"sitofp", "uitofp"} -> 2 * xs[1]
    [] op \in {"zext", "fptrunc", "fpext"} -> xs[1]

CalledLlvm(m, ir, s, i, xs) ==
  CASE DefinesFunction(ir, i.callee) ->
         [s EXCEPT !.stack = Append(@, LlvmFrame(LlvmFunction(ir, i.callee), xs, i.result))]
    [] Prints(i.callee) -> [s EXCEPT !.out = Append(@, <<"print", PrintedText(i.args[1].type, xs[1])>>)]
    [] \E k \in DOMAIN m.externs : m.externs[k].name = i.callee ->
         SetRegister([s EXCEPT !.out = Append(@, <<"call", PeLibraryName(TheExtern(m, i.callee).path), i.callee, xs>>)],
                     i.result, ForeignResult(TheExtern(m, i.callee).returns))
    [] Aborts(i.callee, xs[1]) -> [s EXCEPT !.outcome = "abort"]
    [] i.callee[1] = "llvm.round." /\ AwayFromZero(xs[1]) # NearestEven(xs[1]) -> [s EXCEPT !.outcome = "tie"]
    [] i.callee = <<"vt_str_to_bool">> /\ VtStrToBool(xs[1]) # Truth(IsTrueText(xs[1])) -> [s EXCEPT !.outcome = "case"]
    [] OTHER -> SetRegister(s, i.result, HelperAnswer(i.callee, i.args[1].type, xs))

ReturnedLlvm(s, x) ==
  LET popped == [s EXCEPT !.stack = Front(@)]
  IN  IF Len(s.stack) > 1 THEN SetRegister(popped, Last(s.stack).result, x)
      ELSE [s EXCEPT !.outcome = "exit", !.code = x]

Jump(s, f, label) ==
  LET k == CHOOSE k \in DOMAIN f.blocks : f.blocks[k].label = label
  IN  [s EXCEPT !.stack[Len(s.stack)].block = k, !.stack[Len(s.stack)].at = 1]

ExecutedLlvm(m, ir, s, frame, i, xs) ==
  LET memory(l, x) == [s EXCEPT !.stack[Len(s.stack)].memory = (l :> x) @@ @]
  IN  CASE i.op = "alloca" -> s
        [] i.op = "load" -> SetRegister(s, i.result, frame.memory[i.args[1].operand])
        [] i.op = "store" -> memory(i.args[2].operand, xs[1])
        [] i.op = "call" -> CalledLlvm(m, ir, s, i, xs)
        [] i.op = "ret" -> ReturnedLlvm(s, IF xs = << >> THEN 0 ELSE xs[1])
        [] i.op = "br" ->
             Jump(s, frame.f, IF Len(xs) = 3 THEN i.args[IF xs[1] = 1 THEN 2 ELSE 3].operand
                              ELSE i.args[1].operand)
        [] i.op = "unreachable" -> [s EXCEPT !.outcome = "undefined"]
        [] i.op = "sdiv" /\ ~Divides(xs[1], xs[2]) -> [s EXCEPT !.outcome = "divide error"]
        [] OTHER -> SetRegister(s, i.result, Pure(i.op, xs))

LlvmStepOf(m, ir, s, frame, i) ==
  ExecutedLlvm(m, ir, [s EXCEPT !.stack[Len(s.stack)].at = @ + 1], frame, i,
               [k \in DOMAIN i.args |-> ValueOf(ir, frame, i.args[k].operand)])
LlvmStep(m, ir, s) ==
  LlvmStepOf(m, ir, s, Last(s.stack), Last(s.stack).f.blocks[Last(s.stack).block].code[Last(s.stack).at])

RECURSIVE LlvmSteps(_, _, _, _)
LlvmSteps(m, ir, s, log) ==
  CASE s.outcome # "running" -> s
    [] s.outcome = "running" /\ log = 0 -> LlvmStep(m, ir, s)
    [] OTHER -> LlvmSteps(m, ir, LlvmSteps(m, ir, s, log - 1), log - 1)

(* The output, the outcome and the exit code; one step of the VIR takes    *)
(* two of the LLVM IR or less.                                             *)
LlvmRun(m, ir, fuel) == Summary(LlvmSteps(m, ir, LlvmStart(ir), fuel + 1))
=============================================================================
