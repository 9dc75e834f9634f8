-------------------------------- MODULE LlvmIr --------------------------------
(***************************************************************************)
(* The LLVM IR backend (src/backend_llvm_ir.cpp): a typed VIR module as    *)
(* declarations, string constants and functions of LLVM, with the text     *)
(* left out and everything that the text says kept.                        *)
(*                                                                         *)
(* An operand is a pair: <<"v", id>> a value, <<"l", id>> the address of a *)
(* local, <<"tmp", n>> and <<"arg", i>> as in the text, <<"int", n>>,      *)
(* <<"float", halves>>, <<"bool", b>> and <<"str", k>> literals.  An       *)
(* instruction is [op, result, type, args, callee]: type is the type of    *)
(* the result, and args are operands with the types printed before them.   *)
(***************************************************************************)
EXTENDS TypedVir

LlvmType ==
  [void |-> "void", int32 |-> "i32", float32 |-> "float", float64 |-> "double",
   bool |-> "i1", string |-> "i8*"]

Undef == <<"undef", 0>>
NoResult == <<"none", 0>>
Arg(type, operand) == [type |-> type, operand |-> operand]
Inst(op, result, type, args) ==
  [op |-> op, result |-> result, type |-> type, args |-> args, callee |-> << >>]
CallInst(result, type, callee, args) ==
  [op |-> "call", result |-> result, type |-> type, args |-> args, callee |-> callee]

(* The emitter: the value map and the temporaries of the function, the     *)
(* code of the block, and what belongs to the module.                      *)
Fresh == [values |-> << >>, code |-> << >>, temps |-> 0,
          declarations |-> << >>, strings |-> << >>, ok |-> TRUE]

PutInst(e, i) == [e EXCEPT !.code = Append(@, i)]
Bind(e, v, type, operand) == [e EXCEPT !.values = (v :> Arg(type, operand)) @@ @]
Result(e, v, type, op, args) ==
  Bind(PutInst(e, Inst(op, <<"v", v>>, LlvmType[type], args)), v, type, <<"v", v>>)
Refused(e, v, type) == Bind([e EXCEPT !.ok = FALSE], v, type, Undef)

MutLookupValue(e, v) == Arg(e.values[v].type, <<"v", v>>)
LookupValue(e, v) == e.values[v]

RequireDeclaration(e, name, params, returns) ==
  LET d == [name |-> name, params |-> params, returns |-> returns]
  IN  IF d \in ToSet(e.declarations) THEN e ELSE [e EXCEPT !.declarations = Append(@, d)]

LlvmTypes(types) == [k \in DOMAIN types |-> LlvmType[types[k]]]

RequireExternDeclaration(e, x) ==
  RequireDeclaration(e, x.name, LlvmTypes(x.params), LlvmType[x.returns])

(* A call of a helper of the runtime or of LLVM itself.                    *)
HelperCall(e, v, type, helper, args) ==
  Bind(PutInst(RequireDeclaration(e, helper, [k \in DOMAIN args |-> args[k].type], LlvmType[type]),
               CallInst(<<"v", v>>, LlvmType[type], helper, args)),
       v, type, <<"v", v>>)

Taken(type, value) == Arg(LlvmType[type], value.operand)

-----------------------------------------------------------------------------
(* One operator per emit function, called with the operands looked up.     *)
InternString(e, s) ==
  IF s \in ToSet(e.strings) THEN e ELSE [e EXCEPT !.strings = Append(@, s)]
StringNumber(e, s) == CHOOSE k \in DOMAIN e.strings : e.strings[k] = s

EmitConstant(e, inst) ==
  LET type == inst.constant[1]
      x == inst.constant[2]
      named(interned) == Bind(interned, inst.result, type, <<"str", StringNumber(interned, x)>>)
  IN  CASE type = "int32" -> Bind(e, inst.result, type, <<"int", x>>)
        [] type \in FloatTypes -> Bind(e, inst.result, type, <<"float", x>>)
        [] type = "bool" -> Bind(e, inst.result, type, <<"bool", x>>)
        [] type = "string" -> named(InternString(e, x))
        [] OTHER -> Refused(e, inst.result, type)

EmitUnary(e, inst, x) ==
  CASE inst.op = "!" -> Result(e, inst.result, inst.type, "xor", <<Arg("i1", x.operand), Arg("i1", <<"bool", 1>>)>>)
    [] inst.op = "-" /\ inst.type = "int32" ->
         Result(e, inst.result, inst.type, "sub", <<Arg("i32", <<"int", 0>>), Taken("int32", x)>>)
    [] inst.op = "-" /\ inst.type \in FloatTypes ->
         Result(e, inst.result, inst.type, "fneg", <<Taken(inst.type, x)>>)
    [] OTHER -> Refused(e, inst.result, inst.type)

IntOp == "+" :> "add" @@ "-" :> "sub" @@ "*" :> "mul" @@ "/" :> "sdiv"
FloatingOp == "+" :> "fadd" @@ "-" :> "fsub" @@ "*" :> "fmul" @@ "/" :> "fdiv"
IntCompare == "==" :> "icmp eq" @@ "!=" :> "icmp ne" @@ "<" :> "icmp slt" @@ "<=" :> "icmp sle"
              @@ ">" :> "icmp sgt" @@ ">=" :> "icmp sge"
FloatCompare == "==" :> "fcmp oeq" @@ "!=" :> "fcmp one" @@ "<" :> "fcmp olt" @@ "<=" :> "fcmp ole"
                @@ ">" :> "fcmp ogt" @@ ">=" :> "fcmp oge"

VtConcat == <<"vt_str_concat">>
VtEqual == <<"vt_str_eq">>

(* Strings that differ: the helper's answer is negated through a temporary.*)
EmitStringUnequal(e, v, args) ==
  LET temp == <<"tmp", e.temps>>
      called == PutInst(RequireDeclaration(e, VtEqual, <<"i8*", "i8*">>, "i1"),
                        CallInst(temp, "i1", VtEqual, args))
  IN  Result([called EXCEPT !.temps = @ + 1], v, "bool", "xor",
             <<Arg("i1", temp), Arg("i1", <<"bool", 1>>)>>)

(* The instruction is chosen by the type of the left operand, but for      *)
(* concatenation, which the type of the result decides.                    *)
EmitBinary(e, inst, l, r) ==
  LET args == <<Taken(l.type, l), Taken(l.type, r)>>
      strings == <<Taken("string", l), Taken("string", r)>>
      bools == <<Taken("bool", l), Taken("bool", r)>>
      result(op, as) == Result(e, inst.result, inst.type, op, as)
  IN  CASE inst.op \in {"and", "or"} -> result(inst.op, bools)
        [] inst.op = "+" /\ inst.type = "string" ->
             HelperCall(e, inst.result, "string", VtConcat, strings)
        [] inst.op \in DOMAIN IntOp /\ inst.type # "string" /\ l.type = "int32" ->
             result(IntOp[inst.op], args)
        [] inst.op \in DOMAIN IntOp /\ l.type \in FloatTypes -> result(FloatingOp[inst.op], args)
        [] inst.op = "==" /\ l.type = "string" ->
             HelperCall(e, inst.result, "bool", VtEqual, strings)
        [] inst.op = "!=" /\ l.type = "string" -> EmitStringUnequal(e, inst.result, strings)
        [] inst.op \in DOMAIN IntCompare /\ l.type \in {"int32", "bool"} ->
             result(IntCompare[inst.op], args)
        [] inst.op \in DOMAIN IntCompare /\ l.type \in FloatTypes ->
             result(FloatCompare[inst.op], args)
        [] OTHER -> Refused(e, inst.result, inst.type)

ToStringHelper ==
  [int32 |-> <<"vt_to_string_i32">>, float32 |-> <<"vt_to_string_f32">>,
   float64 |-> <<"vt_to_string_f64">>, bool |-> <<"vt_to_string_bool">>]
PrintHelper ==
  [int32 |-> <<"vt_print_i32">>, float32 |-> <<"vt_print_f32">>, float64 |-> <<"vt_print_f64">>,
   bool |-> <<"vt_print_bool">>, string |-> <<"vt_print_str">>]
RoundingHelper ==
  [Round |-> "llvm.round.", Floor |-> "llvm.floor.", Ceil |-> "llvm.ceil."]
TypeSuffix == [float32 |-> "f32", float64 |-> "f64"]

(* An identity gives the value a second name instead of an instruction.    *)
EmitConvert(e, inst, x) ==
  LET how == inst.how
      from == inst.from
      identity == Bind(e, inst.result, inst.to, x.operand)
      result(op) == Result(e, inst.result, inst.to, op, <<Taken(from, x)>>)
      compare(op, zero) == Result(e, inst.result, inst.to, op, <<Taken(from, x), Arg(LlvmType[from], zero)>>)
      helper(name) == HelperCall(e, inst.result, inst.to, name, <<Taken(from, x)>>)
      float == how \in {"ToFloat32", "ToFloat64"}
  IN  CASE how = "ToInt32Identity" \/ (float /\ from = inst.to) -> identity
        [] how = "ToInt32FromFloatTruncateTowardZero" -> result("fptosi")
        [] how = "ToInt32FromStringParse" -> helper(<<"vt_str_to_i32">>)
        [] how = "ToInt32FromBool" -> result("zext")
        [] float /\ from = "int32" -> result("sitofp")
        [] float /\ from = "bool" -> result("uitofp")
        [] float /\ from \in FloatTypes /\ from # inst.to ->
             result(IF how = "ToFloat32" THEN "fptrunc" ELSE "fpext")
        [] float /\ from = "string" ->
             helper(IF how = "ToFloat32" THEN <<"vt_str_to_f32">> ELSE <<"vt_str_to_f64">>)
        [] how = "ToBool" ->
             CASE from = "bool" -> identity
               [] from = "int32" -> compare("icmp ne", <<"int", 0>>)
               [] from \in FloatTypes -> compare("fcmp une", <<"float", 0>>)
               [] OTHER -> helper(<<"vt_str_to_bool">>)
        [] how = "ToString" -> IF from = "string" THEN identity ELSE helper(ToStringHelper[from])
        [] how \in DOMAIN RoundingHelper /\ from \in FloatTypes ->
             helper(<<RoundingHelper[how], TypeSuffix[from]>>)
        [] how \in {"ImplicitInt32ToFloat32", "ImplicitInt32ToFloat64"} -> result("sitofp")
        [] how = "ImplicitFloat32ToFloat64" -> result("fpext")
        [] OTHER -> Refused(e, inst.result, inst.to)

EmitBuiltinPrint(e, inst, types) ==
  LET print(done, k) ==
        IF types[k] \in DOMAIN PrintHelper
        THEN PutInst(RequireDeclaration(done, PrintHelper[types[k]], <<LlvmType[types[k]]>>, "void"),
                     CallInst(NoResult, "void", PrintHelper[types[k]],
                            <<Taken(types[k], LookupValue(done, inst.args[k]))>>))
        ELSE [done EXCEPT !.ok = FALSE]
  IN  FoldLeft(print, e, [k \in DOMAIN inst.args |-> k])

EmitCall(e, inst, types) ==
  LET args == [k \in DOMAIN inst.args |-> Taken(types[k], LookupValue(e, inst.args[k]))]
      result == IF inst.returns = "void" THEN NoResult ELSE <<"v", inst.result>>
      called(d) == PutInst(d, CallInst(result, LlvmType[inst.returns], inst.callee, args))
  IN  IF inst.returns = "void" THEN called(e)
      ELSE Bind(called(e), inst.result, inst.returns, result)

(* A declaration that an extern call needs is there since EmitModule, which*)
(* declares all extern functions.                                          *)
EmitVirInst(e, fn, inst) ==
  LET types == [k \in DOMAIN inst.args |-> ValueType(fn, inst.args[k])]
  IN  CASE inst.kind = "constant" -> EmitConstant(e, inst)
        [] inst.kind = "load" ->
             Result(e, inst.result, inst.type, "load",
                    <<Arg(LlvmType[inst.type] \o "*", <<"l", inst.local>>)>>)
        [] inst.kind = "store" ->
             PutInst(e, Inst("store", NoResult, "void",
                             <<Taken(inst.type, LookupValue(e, inst.value)),
                               Arg(LlvmType[inst.type] \o "*", <<"l", inst.local>>)>>))
        [] inst.kind = "unary" -> EmitUnary(e, inst, LookupValue(e, inst.operand))
        [] inst.kind = "binary" ->
             EmitBinary(e, inst, LookupValue(e, inst.left), LookupValue(e, inst.right))
        [] inst.kind = "convert" -> EmitConvert(e, inst, LookupValue(e, inst.input))
        [] inst.kind = "print" -> EmitBuiltinPrint(e, inst, types)
        [] inst.kind \in {"call", "extern"} -> EmitCall(e, inst, types)

Block(id) == <<"bb", id>>
EmitTerminator(e, term) ==
  CASE term.kind = "return" ->
         Inst("ret", NoResult, "void",
              IF term.value = None THEN << >> ELSE <<Taken(term.type, LookupValue(e, term.value))>>)
    [] term.kind = "branch" -> Inst("br", NoResult, "void", <<Arg("label", Block(term.target))>>)
    [] term.kind = "cond" ->
         Inst("br", NoResult, "void", <<Taken("bool", LookupValue(e, term.value)),
                                        Arg("label", Block(term.then)), Arg("label", Block(term.else))>>)
    [] term.kind = "unreachable" -> Inst("unreachable", NoResult, "void", << >>)

-----------------------------------------------------------------------------
(* entry.alloca: a slot for every local, the parameters in theirs.         *)
Entry == <<"entry.alloca", 0>>
Prologue(fn) ==
  LET slot(l) == Inst("alloca", <<"l", l>>, LlvmType[fn.locals[l + 1]] \o "*", << >>)
      keep(l) == Inst("store", NoResult, "void",
                      <<Arg(LlvmType[fn.locals[l + 1]], <<"arg", l>>),
                        Arg(LlvmType[fn.locals[l + 1]] \o "*", <<"l", l>>)>>)
  IN  [k \in DOMAIN fn.locals |-> slot(k - 1)] \o [k \in DOMAIN fn.params |-> keep(k - 1)]

EmitBlock(done, fn, block) ==
  LET emitted == FoldLeft(LAMBDA e, inst : EmitVirInst(e, fn, inst),
                          [done.e EXCEPT !.code = << >>], block.code)
      with(e) == [e |-> e,
                  blocks |-> Append(done.blocks,
                    [label |-> Block(block.id), code |-> Append(e.code, EmitTerminator(e, block.term))])]
  IN  with(emitted)

(* The function, and the emitter with what the module has gained.          *)
EmitFunction(e, fn) ==
  LET start == [label |-> Entry,
                code |-> Append(Prologue(fn), Inst("br", NoResult, "void", <<Arg("label", Block(fn.blocks[1].id))>>))]
      all == FoldLeft(LAMBDA done, block : EmitBlock(done, fn, block),
                      [e |-> [e EXCEPT !.values = << >>, !.temps = 0], blocks |-> <<start>>], fn.blocks)
      with(done) == [e |-> done.e,
                     function |-> [name |-> fn.name, returns |-> LlvmType[fn.returns],
                                   params |-> LlvmTypes(fn.params), blocks |-> done.blocks]]
  IN  with(all)

DeclareExterns(m) == FoldLeft(RequireExternDeclaration, Fresh, m.externs)
=============================================================================
