------------------------------- MODULE CodeGen -------------------------------
(***************************************************************************)
(* The code generator of backend_pe_x64.cpp (WindowsPeX64Emitter): from    *)
(* typed VIR to instructions, labels, relocations and string literals.     *)
(*                                                                         *)
(* Code is a sequence of instructions of X64, in which a label definition  *)
(* and a rejection are elements as well: <<"label", name>> puts a local    *)
(* symbol, <<"global", name>> a global one, and <<"reject", why>> ends the *)
(* compilation.  A label is <<"fn", f>>, <<"blk", f, id>>, <<"iat", name>>,*)
(* <<"tmp", purpose, k, n>> or <<"literal", text>>, which becomes          *)
(* <<"lit", number>> when the literal is interned.                         *)
(***************************************************************************)
EXTENDS X64

Supported == {"int32", "float32", "float64", "bool", "string", "void"}
SmallTypes == {"int32", "bool"}      \* in the low half of a slot

Reject(why) == <<<<"reject", why>>>>

(* Names in labels: a character that is no letter, digit or underscore     *)
(* becomes an underscore.                                                  *)
Sanitized(name) ==
  [k \in DOMAIN name |-> IF name[k] \in {".", "-", " "} THEN "_" ELSE name[k]]
ImportLabel(dll, name) == <<"iat", Sanitized(dll) \o <<"_">> \o Sanitized(name)>>

Kernel == <<"kernel32", ".", "dll">>
Msvcrt == <<"msvcrt", ".", "dll">>
RuntimeFunctions ==
  <<"puts", "printf", "sprintf", "malloc", "memcpy", "strlen", "strcmp", "strtol", "strtod">>
RuntimeImports ==
  <<<<Kernel, <<"ExitProcess">>>>>> \o
  [k \in DOMAIN RuntimeFunctions |-> <<Msvcrt, <<RuntimeFunctions[k]>>>>]

Shadowed(call) == <<<<"sub rsp", 32>>, call, <<"add rsp", 32>>>>
CallImport(dll, name) == Shadowed(<<"call iat", ImportLabel(dll, name)>>)
CallRuntime(name) == CallImport(Msvcrt, <<name>>)
CallFunction(f) == Shadowed(<<"call", <<"fn", f>>>>)

Literal(r, text) == <<<<"lea", r, <<"literal", text>>>>>>

-----------------------------------------------------------------------------
(* Frame layout: 32 bytes for calls, 256 of scratch, locals, values.       *)
LocalBase == 32 + 256
ValueBase(fn) == LocalBase + 8 * Len(fn.locals)
ValueCount(fn) == Max({0} \cup {v + 1 : v \in ValueIds(fn)})
(* Mutant: the frame is not rounded up.                                    *)
MutFrameSize(fn) == ValueBase(fn) + 8 * ValueCount(fn)
FrameSize(fn) == AlignUp(ValueBase(fn) + 8 * ValueCount(fn), 16)
LocalAt(l) == -(LocalBase + 8 * l)
ValueAt(fn, v) == -(ValueBase(fn) + 8 * v)
Scratch(offset) == -(32 + offset)
FrameComplete(fn) == ValueIds(fn) = 0 .. ValueCount(fn) - 1

IntegerArg == <<"rcx", "rdx", "r8", "r9">>

StoreParameter(type, k) ==
  CASE type \in SmallTypes -> <<"store32", IntegerArg[k], LocalAt(k - 1)>>
    [] type = "string" -> <<"store64", IntegerArg[k], LocalAt(k - 1)>>
    [] type \in FloatTypes -> <<"storex", k - 1, LocalAt(k - 1)>>

(* Copies a slot of the given type.                                        *)
Copy(type, from, to) ==
  IF type \in SmallTypes
  THEN <<<<"load32", "rax", from>>, <<"store32", "rax", to>>>>
  ELSE <<<<"load64", "rax", from>>, <<"store64", "rax", to>>>>

ConstantCode(inst, x, d) ==
  CASE inst.type \in SmallTypes ->
         <<<<"imm32", "rax", x>>, <<"store32", "rax", d>>>>
    [] inst.type = "string" -> Literal("rax", x) \o <<<<"store64", "rax", d>>>>
    [] inst.type \in FloatTypes ->
         <<<<"imm64", Double(x)>>, <<"store64", "rax", d>>>>
    [] OTHER -> Reject("unsupported constant type")

UnaryCode(inst, x, d) ==
  LET code(op) == <<<<"load32", "rax", x>>, op, <<"store32", "rax", d>>>>
  IN  CASE inst.op = "-" /\ inst.type = "int32" -> code(<<"neg">>)
        [] inst.op = "!" /\ inst.type = "bool" -> code(<<"not bool">>)
        [] OTHER -> Reject("unsupported unary operand")

-----------------------------------------------------------------------------
(* The sequences around calls of the C runtime.  A null string counts as   *)
(* the empty one.  Tmp(n) makes the labels of the n-th sequence.           *)
OrEmpty(r, purpose, n) ==
  <<<<"test64", r>>, <<"jcc", "ne", <<"tmp", purpose, 0, n>>>>>> \o Literal(r, << >>) \o
  <<<<"label", <<"tmp", purpose, 0, n>>>>>>

Concat(l, r, d, n) ==
  LET lhs == Scratch(0)  rhs == Scratch(8)
      lhsLen == Scratch(16)  rhsLen == Scratch(24)  dest == Scratch(32)
      load(reg, at) == <<<<"load64", reg, at>>>>
      save(at) == <<<<"store64", "rax", at>>>>
      toRcx == <<<<"mov64", "rcx", "rax">>>>
  IN  load("rax", l) \o OrEmpty("rax", "concat_lhs_ok", n) \o save(lhs) \o
      load("rax", r) \o OrEmpty("rax", "concat_rhs_ok", n) \o save(rhs) \o
      load("rcx", lhs) \o CallRuntime("strlen") \o save(lhsLen) \o
      load("rcx", rhs) \o CallRuntime("strlen") \o save(rhsLen) \o
      load("rax", lhsLen) \o toRcx \o load("rax", rhsLen) \o
      <<<<"add64">>, <<"inc64">>>> \o toRcx \o CallRuntime("malloc") \o save(dest) \o
      load("rcx", dest) \o load("rdx", lhs) \o load("r8", lhsLen) \o CallRuntime("memcpy") \o
      load("rax", dest) \o toRcx \o load("rax", lhsLen) \o <<<<"add64">>>> \o toRcx \o
      load("rdx", rhs) \o load("rax", rhsLen) \o <<<<"inc64">>, <<"mov64", "r8", "rax">>>> \o
      CallRuntime("memcpy") \o load("rax", dest) \o save(d)

Compare(op, l, r, d, n) ==
  <<<<"load64", "rcx", l>>>> \o OrEmpty("rcx", "strcmp_lhs_ok", n) \o
  <<<<"load64", "rdx", r>>>> \o OrEmpty("rdx", "strcmp_rhs_ok", n) \o
  CallRuntime("strcmp") \o
  <<<<"test32">>, <<"set", IF op = "==" THEN "e" ELSE "ne">>, <<"movzx">>,
    <<"store32", "rax", d>>>>

ParseIntCode(x, d, n) ==
  <<<<"load64", "rcx", x>>>> \o OrEmpty("rcx", "strtol_ok", n) \o
  <<<<"zero eax">>, <<"mov64", "rdx", "rax">>, <<"imm32", "r8", 10>>>> \o
  CallRuntime("strtol") \o <<<<"store32", "rax", d>>>>

ParseFloatCode(x, d, n) ==
  <<<<"load64", "rcx", x>>>> \o OrEmpty("rcx", "strtod_ok", n) \o
  <<<<"zero eax">>, <<"mov64", "rdx", "rax">>>> \o
  CallRuntime("strtod") \o <<<<"storex", 0, d>>>>

(* A two-way choice on eax: the code for "not zero" comes second.          *)
Choice(purpose, k, n, ifZero, otherwise) ==
  LET yes == <<"tmp", purpose, k, n>>
      done == <<"tmp", "done", k, n>>
  IN  <<<<"jcc", "ne", yes>>>> \o ifZero \o <<<<"jmp", done>>, <<"label", yes>>>> \o
      otherwise \o <<<<"label", done>>>>

ToStringCode(from, x, d, n) ==
  LET buffer == Scratch(64)  len == Scratch(0)  heap == Scratch(8)
      argument ==
        IF from = "int32"
        THEN Literal("rdx", FormatInt) \o
             <<<<"load32", "rax", x>>, <<"mov32", "r8", "rax">>>>
        ELSE Literal("rdx", FormatFloat) \o <<<<"load64", "r8", x>>, <<"loadx", 2, x>>>>
      name(text) == Literal("rax", text) \o <<<<"store64", "rax", d>>>>
  IN  CASE from = "string" -> Copy(from, x, d)
        [] from = "bool" ->
             <<<<"load32", "rax", x>>, <<"test32">>>> \o
             Choice("bool_to_string_true", 0, n, name(TextFalse), name(TextTrue))
        [] from \in {"int32"} \cup FloatTypes ->
             <<<<"lea rbp", "rcx", buffer>>>> \o argument \o CallRuntime("sprintf") \o
             <<<<"store32", "rax", len>>, <<"load32", "rax", len>>, <<"inc64">>,
               <<"mov64", "rcx", "rax">>>> \o CallRuntime("malloc") \o
             <<<<"store64", "rax", heap>>, <<"load64", "rcx", heap>>, <<"lea rbp", "rdx", buffer>>,
               <<"load32", "rax", len>>, <<"inc64">>, <<"mov64", "r8", "rax">>>> \o
             CallRuntime("memcpy") \o <<<<"load64", "rax", heap>>, <<"store64", "rax", d>>>>
        [] OTHER -> Reject("ToString only supports int32, float32, float64, bool, and string")

ToBoolCode(from, x, d, n) ==
  LET text == Scratch(40)
      tmp(purpose) == <<"tmp", purpose, 0, n>>
      notZero == <<<<"set", "ne">>, <<"movzx">>, <<"store32", "rax", d>>>>
      jumpIf(s, to) ==
        <<<<"load64", "rcx", text>>>> \o Literal("rdx", s) \o CallRuntime("strcmp") \o
        <<<<"test32">>, <<"jcc", "e", tmp(to)>>>>
      answer(b) == <<<<"imm32", "rax", b>>, <<"store32", "rax", d>>>>
  IN  CASE from = "int32" -> <<<<"load32", "rax", x>>, <<"test32">>>> \o notZero
        [] from \in FloatTypes -> <<<<"loadx", 0, x>>, <<"zero xmm1">>, <<"ucomisd">>>> \o notZero
        [] from = "bool" -> Copy(from, x, d)
        [] from = "string" ->
             <<<<"load64", "rcx", x>>>> \o OrEmpty("rcx", "bool_parse_nonnull", n) \o
             <<<<"store64", "rcx", text>>>> \o
             jumpIf(TextTrue, "bool_true") \o jumpIf(<<Zero + 1>>, "bool_true") \o
             jumpIf(TextFalse, "bool_false") \o jumpIf(<<Zero>>, "bool_false") \o
             answer(0) \o <<<<"jmp", tmp("bool_done")>>, <<"label", tmp("bool_true")>>>> \o
             answer(1) \o <<<<"jmp", tmp("bool_done")>>, <<"label", tmp("bool_false")>>>> \o
             answer(0) \o <<<<"label", tmp("bool_done")>>>>
        [] OTHER -> Reject("unsupported ToBool source type")

-----------------------------------------------------------------------------
(* Comparisons < <= > >= look at the types of the operands, lt and rt; the *)
(* other operators at the type of the instruction.                         *)
SignedCode == [op \in {"<", "<=", ">", ">="} |->
  CASE op = "<" -> "l" [] op = "<=" -> "le" [] op = ">" -> "g" [] op = ">=" -> "ge"]
UnsignedCode == [op \in {"<", "<=", ">", ">="} |->
  CASE op = "<" -> "b" [] op = "<=" -> "be" [] op = ">" -> "a" [] op = ">=" -> "ae"]

BinaryCode(inst, lt, rt, l, r, d, n) ==
  LET op == inst.op
      type == inst.type
      ints(ops) == <<<<"load32", "rax", l>>, <<"load32", "rcx", r>>>> \o ops \o
                   <<<<"store32", "rax", d>>>>
      floats(ops) == <<<<"loadx", 0, l>>, <<"loadx", 1, r>>>> \o ops
      flag(cc) == <<<<"set", cc>>, <<"movzx">>>>
      equal == flag(IF op = "==" THEN "e" ELSE "ne")
  IN  CASE op \in {"+", "-", "*", "/"} ->
             CASE type \in FloatTypes -> floats(<<<<"sse", op>>, <<"storex", 0, d>>>>)
               [] type = "int32" ->
                    ints(IF op = "/" THEN <<<<"cdq">>, <<"idiv">>>> ELSE <<<<"alu", op>>>>)
               [] type = "string" /\ op = "+" -> Concat(l, r, d, n)
               [] OTHER -> Reject("unsupported arithmetic type")
        [] op \in {"==", "!="} ->
             CASE type = "string" -> Compare(op, l, r, d, n)
               [] type \in FloatTypes ->
                    floats(<<<<"ucomisd">>>> \o equal \o <<<<"store32", "rax", d>>>>)
               [] type \in SmallTypes -> ints(<<<<"cmp">>>> \o equal)
               [] OTHER -> Reject("equality only supports int32/bool/string/float64")
        [] type # "bool" -> Reject("comparison must return bool")
        [] op \in {"and", "or"} -> ints(<<<<"alu", op>>>>)
        [] {lt, rt} \cap FloatTypes # {} ->
             floats(<<<<"ucomisd">>>> \o flag(UnsignedCode[op]) \o <<<<"store32", "rax", d>>>>)
        [] OTHER -> ints(<<<<"cmp">>>> \o flag(SignedCode[op]))

ConvertCode(inst, x, d, n) ==
  LET how == inst.how
      from == inst.from
      widen == <<<<"load32", "rax", x>>, <<"to float">>, <<"storex", 0, d>>>>
      rounded(mode) == <<<<"loadx", 0, x>>, <<"round", mode>>, <<"storex", 0, d>>>>
  IN  CASE how \in {"ToInt32Identity", "ToInt32FromBool"} -> Copy("int32", x, d)
        [] how = "ToInt32FromFloatTruncateTowardZero" ->
             <<<<"loadx", 0, x>>, <<"to int">>, <<"store32", "rax", d>>>>
        [] how = "ToInt32FromStringParse" -> ParseIntCode(x, d, n)
        [] how \in {"ToFloat32", "ToFloat64"} ->
             CASE from = "string" -> ParseFloatCode(x, d, n)
               [] from \in SmallTypes -> widen
               [] from \in FloatTypes -> Copy(from, x, d)
               [] OTHER -> Reject("float conversion")
        [] how \in {"ImplicitInt32ToFloat32", "ImplicitInt32ToFloat64"} -> widen
        [] how = "ImplicitFloat32ToFloat64" -> Copy("float64", x, d)
        [] how \in {"Round", "Floor", "Ceil"} ->
             IF from \notin FloatTypes
             THEN Reject("round/floor/ceil only supports float32/float64")
             ELSE rounded(CASE how = "Round" -> 0 [] how = "Floor" -> 1 [] how = "Ceil" -> 2)
        [] how = "ToString" -> ToStringCode(from, x, d, n)
        [] how = "ToBool" -> ToBoolCode(from, x, d, n)
        [] OTHER -> Reject("unsupported conversion kind")

-----------------------------------------------------------------------------
ArgumentCode(type, k, at) ==
  CASE type \in SmallTypes -> <<<<"load32", "rax", at>>, <<"mov64", IntegerArg[k], "rax">>>>
    [] type = "string" -> <<<<"load64", "rax", at>>, <<"mov64", IntegerArg[k], "rax">>>>
    [] type \in FloatTypes -> <<<<"loadx", k - 1, at>>>>

ResultCode(type, d) ==
  CASE type \in SmallTypes -> <<<<"store32", "rax", d>>>>
    [] type \in FloatTypes -> <<<<"storex", 0, d>>>>
    [] type = "string" -> <<<<"store64", "rax", d>>>>

(* externDlls maps the extern functions of the module to their libraries.  *)
CallCode(fn, inst, externDlls) ==
  LET arg(k) == ArgumentCode(ValueType(fn, inst.args[k]), k, ValueAt(fn, inst.args[k]))
  IN  IF Len(inst.args) > 4 THEN Reject("calls with more than 4 arguments are not supported")
      ELSE FlattenSeq([k \in DOMAIN inst.args |-> arg(k)]) \o
           (IF inst.kind = "extern" THEN CallImport(externDlls[inst.callee], inst.callee)
            ELSE CallFunction(inst.callee)) \o
           (IF inst.result = None THEN << >>
            ELSE ResultCode(inst.returns, ValueAt(fn, inst.result)))

PrintCode(type, at, k, n) ==
  LET put(s) == Literal("rcx", s) \o CallRuntime("puts")
  IN  CASE type = "int32" ->
             Literal("rcx", Append(FormatInt, NewLine)) \o
             <<<<"load32", "rax", at>>, <<"mov32", "rdx", "rax">>>> \o CallRuntime("printf")
        [] type \in FloatTypes ->
             Literal("rcx", Append(FormatFloat, NewLine)) \o
             <<<<"load64", "rdx", at>>, <<"loadx", 1, at>>>> \o CallRuntime("printf")
        [] type = "bool" ->
             <<<<"load32", "rax", at>>, <<"test32">>>> \o
             Choice("print_bool_true", k, n, put(TextFalse), put(TextTrue))
        [] type = "string" ->
             <<<<"load64", "rcx", at>>, <<"test64", "rcx">>>> \o
             Choice("print_str_nonnull", k, n, put(<< >>),
                    <<<<"load64", "rcx", at>>>> \o CallRuntime("puts"))
        [] OTHER -> Reject("unsupported print argument type")

InstructionCode(fn, inst, externDlls, n) ==
  LET at(v) == ValueAt(fn, v)
  IN  CASE inst.kind = "constant" -> ConstantCode(inst, inst.constant[2], at(inst.result))
        [] inst.kind = "load" -> Copy(inst.type, LocalAt(inst.local), at(inst.result))
        [] inst.kind = "store" -> Copy(inst.type, at(inst.value), LocalAt(inst.local))
        [] inst.kind = "unary" -> UnaryCode(inst, at(inst.operand), at(inst.result))
        [] inst.kind = "binary" ->
             BinaryCode(inst, ValueType(fn, inst.left), ValueType(fn, inst.right),
                        at(inst.left), at(inst.right), at(inst.result), n)
        [] inst.kind = "convert" -> ConvertCode(inst, at(inst.input), at(inst.result), n)
        [] inst.kind \in {"call", "extern"} -> CallCode(fn, inst, externDlls)
        [] inst.kind = "print" ->
             FlattenSeq([k \in DOMAIN inst.args |->
               PrintCode(ValueType(fn, inst.args[k]), at(inst.args[k]), k, n)])

Leave == <<<<"leave">>, <<"ret">>>>

TerminatorCode(fn, term) ==
  LET blk(id) == <<"blk", fn.name, id>>
      at == ValueAt(fn, term.value)
  IN  CASE term.kind = "return" ->
             <<IF term.value = None THEN <<"zero eax">>
               ELSE IF term.type = "string" THEN <<"load64", "rax", at>>
               ELSE IF term.type \in FloatTypes THEN <<"loadx", 0, at>>
               ELSE <<"load32", "rax", at>>>> \o Leave
        [] term.kind = "branch" -> <<<<"jmp", blk(term.target)>>>>
        [] term.kind = "cond" ->
             <<<<"load32", "rax", at>>, <<"test32">>, <<"jcc", "ne", blk(term.then)>>,
               <<"jmp", blk(term.else)>>>>
        [] term.kind = "unreachable" -> <<<<"zero eax">>>> \o Leave

Entry == <<"__voltis_entry">>

EntryCode(main) ==
  <<<<"global", Entry>>, <<"push rbp">>, <<"mov rbp, rsp">>, <<"sub rsp", AlignUp(32 + 96, 16)>>>> \o
  CallFunction(Main) \o (IF main.returns = "int32" THEN << >> ELSE <<<<"zero eax">>>>) \o
  <<<<"mov32", "rcx", "rax">>>> \o CallImport(Kernel, <<"ExitProcess">>) \o
  <<<<"zero eax">>>> \o Leave

PrologueCode(fn) ==
  <<<<"global", <<"fn", fn.name>>>>, <<"push rbp">>, <<"mov rbp, rsp">>,
    <<"sub rsp", FrameSize(fn)>>>> \o
  [k \in DOMAIN fn.params |-> StoreParameter(fn.params[k], k)]

(* The code of a block; its sequences are numbered from n on.              *)
BlockCode(fn, b, externDlls, n) ==
  <<<<"label", <<"blk", fn.name, b.id>>>>>> \o
  FlattenSeq([k \in DOMAIN b.code |-> InstructionCode(fn, b.code[k], externDlls, n + k)]) \o
  TerminatorCode(fn, b.term)

FunctionCode(fn, externDlls, n) ==
  LET before(k) == FoldLeft(LAMBDA sum, b : sum + Len(b.code), n, SubSeq(fn.blocks, 1, k - 1))
  IN  IF Len(fn.params) > 4
      THEN Reject("functions with more than 4 parameters are not supported")
      ELSE IF ~({fn.returns} \cup ToSet(fn.locals) \subseteq Supported)
      THEN Reject("unsupported type in function")
      ELSE IF ~FrameComplete(fn) THEN Reject("missing type info for SSA value")
      ELSE PrologueCode(fn) \o
           FlattenSeq([k \in DOMAIN fn.blocks |->
             BlockCode(fn, fn.blocks[k], externDlls, before(k))])

-----------------------------------------------------------------------------
(* The Assembler and the object it fills: text and rdata are sections with *)
(* what starts at each offset; symbols [name, section, offset, visibility, *)
(* import]; relocations [section, at, target]; the literals interned so    *)
(* far; the labels of text; and the rejection or exception, if any.        *)
Appended(section, what, size) ==
  [size |-> section.size + size, cell |-> section.cell @@ (section.size :> what)]

NoImport == << << >>, << >> >>

EmptyObject ==
  [text |-> EmptySection, rdata |-> EmptySection, symbols |-> << >>,
   relocations |-> << >>, literals |-> << >>, labels |-> {}, error |-> "none", sequences |-> 0]

SymbolAt(name, section, offset, visibility) ==
  [name |-> name, section |-> section, offset |-> offset, visibility |-> visibility,
   import |-> NoImport]

(* addStringLiteral: the label of a literal, which is added when new.      *)
Interned(o, text) ==
  IF text \in ToSet(o.literals) THEN o
  ELSE [o EXCEPT !.literals = Append(@, text),
                 !.rdata = Appended(@, <<"string", text>>, Len(text) + 1),
                 !.symbols = Append(@, SymbolAt(<<"lit", Len(o.literals)>>, "rdata",
                                                o.rdata.size, "local"))]
LiteralNumber(o, text) == (CHOOSE k \in DOMAIN o.literals : o.literals[k] = text) - 1

Marked(o, name, visibility) ==
  IF name \in o.labels THEN [o EXCEPT !.error = "duplicate label"]
  ELSE [o EXCEPT !.labels = @ \cup {name},
                 !.symbols = Append(@, SymbolAt(name, "text", o.text.size, visibility))]

Assembled(o, i) ==
  LET put(p, label) ==
        [p EXCEPT !.text = Appended(@, i, Length(i)),
                  !.relocations = Append(@, [section |-> "text", at |-> p.text.size + FieldAt(i),
                                             target |-> label])]
  IN  CASE i[1] = "reject" -> [o EXCEPT !.error = i[2]]
        [] i[1] = "label" -> Marked(o, i[2], "local")
        [] i[1] = "global" -> Marked(o, i[2], "global")
        [] i[1] = "lea" ->
             LET p == Interned(o, LabelOf(i)[2])
             IN  put(p, <<"lit", LiteralNumber(p, LabelOf(i)[2])>>)
        [] i[1] \in Relocatable -> put(o, LabelOf(i))
        [] OTHER -> [o EXCEPT !.text = Appended(@, i, Length(i))]

RECURSIVE Assemble(_, _)
Assemble(o, code) ==
  LET half == Len(code) \div 2
  IN  CASE o.error # "none" \/ code = << >> -> o
        [] o.error = "none" /\ Len(code) = 1 -> Assembled(o, code[1])
        [] OTHER -> Assemble(Assemble(o, SubSeq(code, 1, half)), SubSeq(code, half + 1, Len(code)))
=============================================================================
