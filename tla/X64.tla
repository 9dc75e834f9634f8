--------------------------------- MODULE X64 ---------------------------------
(***************************************************************************)
(* The instructions that the Assembler of backend_pe_x64.cpp can encode,   *)
(* with the sizes of their encodings, and the processor, the C runtime and *)
(* the Windows calling convention that run them.                           *)
(*                                                                         *)
(* A 64-bit word is the pair of its dwords.  A pointer has 1 as its high   *)
(* dword; a double has 0 as its low dword, which is what small multiples   *)
(* of 1/2 have; zero is zero in either view.  Poison is the content of     *)
(* whatever was never written, or was given up by the calling convention.  *)
(***************************************************************************)
EXTENDS TypedVir, Layout

CONSTANTS Poison,       \* a dword no computation yields
          StackTop, HeapBase,
          MaxString     \* no string is longer

Pointer(a) == <<a, 1>>
DoubleTag == 1000000
Double(h) == IF h = 0 THEN <<0, 0>> ELSE <<0, DoubleTag + h>>
HalvesOf(w) ==
  IF w = <<0, 0>> THEN 0
  ELSE IF w[1] = 0 /\ w[2] > DoubleTag \div 2 THEN w[2] - DoubleTag ELSE Poison

-----------------------------------------------------------------------------
(* Instructions are tuples of a mnemonic and operands.  Memory operands    *)
(* are displacements from rbp.  The sizes of the encodings:                *)
Long(r) == r \in {"r8", "r9"}      \* needs a REX prefix

MoveLength(i) ==
  CASE i[1] = "imm32" -> IF Long(i[2]) THEN 6 ELSE 5
    [] i[1] = "imm64" -> 10
    [] i[1] \in {"load32", "store32"} -> IF Long(i[2]) THEN 7 ELSE 6
    [] i[1] \in {"load64", "store64", "lea rbp"} -> 7
    [] i[1] \in {"loadx", "storex"} -> 8
    [] i[1] = "mov64" -> 3
    [] i[1] = "mov32" -> IF Long(i[2]) THEN 3 ELSE 2

ComputeLength(i) ==
  CASE i[1] = "cdq" -> 1
    [] i[1] \in {"zero eax", "cmp", "test32", "idiv", "neg"} -> 2
    [] i[1] = "alu" -> IF i[2] = "*" THEN 3 ELSE 2
    [] i[1] \in {"test64", "add64", "set", "movzx"} -> 3
    [] i[1] \in {"inc64", "to float", "to int", "ucomisd", "sse", "zero xmm1"} -> 4
    [] i[1] = "not bool" -> 5
    [] i[1] = "round" -> 6

FrameLength(i) ==
  CASE i[1] \in {"push rbp", "leave", "ret"} -> 1
    [] i[1] = "mov rbp, rsp" -> 3
    [] i[1] \in {"sub rsp", "add rsp"} -> 7

(* Where the 32-bit displacement of an instruction with a label starts.    *)
Relocatable == {"lea", "call", "call iat", "jmp", "jcc"}
FieldAt(i) ==
  CASE i[1] = "lea" -> 3 [] i[1] \in {"call", "jmp"} -> 1 [] i[1] \in {"call iat", "jcc"} -> 2
LabelOf(i) == Last(i)

Moves == {"imm32", "imm64", "load32", "store32", "load64", "store64", "lea rbp", "loadx",
          "storex", "mov64", "mov32"}
FrameOps == {"push rbp", "leave", "ret", "mov rbp, rsp", "sub rsp", "add rsp"}

Length(i) ==
  CASE i[1] \in Relocatable -> FieldAt(i) + 4
    [] i[1] \in Moves -> MoveLength(i)
    [] i[1] \in FrameOps -> FrameLength(i)
    [] OTHER -> ComputeLength(i)

-----------------------------------------------------------------------------
(* Memory maps addresses to cells: the dword or the byte that starts there.*)
SizeOf(cell) == IF cell[1] = "dword" THEN 4 ELSE 1

Without(mem, a, n) ==
  [x \in {x \in DOMAIN mem : x >= a + n \/ x + SizeOf(mem[x]) <= a} |-> mem[x]]

Put32(mem, a, v) == Without(mem, a, 4) @@ (a :> <<"dword", v>>)
Put64(mem, a, w) == Put32(Put32(mem, a, w[1]), a + 4, w[2])
PutBytes(mem, a, s) ==
  Without(mem, a, Len(s)) @@ [x \in a .. a + Len(s) - 1 |-> <<"byte", s[x - a + 1]>>]

Get32(mem, a) == IF a \in DOMAIN mem /\ mem[a][1] = "dword" THEN mem[a][2] ELSE Poison
Get64(mem, a) == <<Get32(mem, a), Get32(mem, a + 4)>>
IsByte(mem, a) == a \in DOMAIN mem /\ mem[a][1] = "byte"

(* The C string at a pointer; <<Poison>> when there is none.               *)
CString(mem, w) ==
  LET a == w[1]
      ends == {n \in 0 .. MaxString : IsByte(mem, a + n) /\ mem[a + n][2] = 0}
      n == Min(ends)
  IN  IF w[2] # 1 \/ ends = {} THEN <<Poison>>
      ELSE IF \A k \in 0 .. n : IsByte(mem, a + k) THEN [k \in 1 .. n |-> mem[a + k - 1][2]]
      ELSE <<Poison>>

-----------------------------------------------------------------------------
(* The processor.  Arithmetic on Poison gives Poison.                      *)
Both(a, b, r) == IF Poison \in {a, b} THEN Poison ELSE r

Eax(c) == c.reg["rax"][1]
Ecx(c) == c.reg["rcx"][1]
Bp(c, d) == c.reg["rbp"][1] + d
Rsp(c) == c.reg["rsp"][1]
SetReg(c, r, w) == [c EXCEPT !.reg[r] = w]
SetEax(c, v) == SetReg(c, "rax", <<v, 0>>)
SetFloat(c, h) == [c EXCEPT !.xmm[0] = IF h = Poison THEN <<Poison, Poison>> ELSE Double(h)]
Fault(c, why) == [c EXCEPT !.outcome = why]

Flags(eq, less) == [eq |-> Truth(eq), less |-> Truth(less)]
UnknownFlags == [eq |-> Poison, less |-> Poison]

(* ucomisd sets the carry flag where cmp sets sign and overflow: the codes *)
(* for unsigned comparison read the one, those for signed the other.       *)
Holds(cc, f) ==
  CASE cc = "e" -> f.eq = 1 [] cc = "ne" -> f.eq = 0
    [] cc \in {"l", "b"} -> f.less = 1 [] cc \in {"le", "be"} -> f.less + f.eq > 0
    [] cc \in {"g", "a"} -> f.less + f.eq = 0 [] cc \in {"ge", "ae"} -> f.less = 0

Move(c, i) ==
  CASE i[1] = "imm32" -> SetReg(c, i[2], <<i[3], 0>>)
    [] i[1] = "imm64" -> SetReg(c, "rax", i[2])
    [] i[1] = "load32" -> SetReg(c, i[2], <<Get32(c.mem, Bp(c, i[3])), 0>>)
    [] i[1] = "store32" -> [c EXCEPT !.mem = Put32(@, Bp(c, i[3]), c.reg[i[2]][1])]
    [] i[1] = "load64" -> SetReg(c, i[2], Get64(c.mem, Bp(c, i[3])))
    [] i[1] = "store64" -> [c EXCEPT !.mem = Put64(@, Bp(c, i[3]), c.reg[i[2]])]
    [] i[1] = "loadx" -> [c EXCEPT !.xmm[i[2]] = Get64(c.mem, Bp(c, i[3]))]
    [] i[1] = "storex" -> [c EXCEPT !.mem = Put64(@, Bp(c, i[3]), c.xmm[i[2]])]
    [] i[1] = "lea rbp" -> SetReg(c, i[2], Pointer(Bp(c, i[3])))
    [] i[1] = "mov64" -> SetReg(c, i[2], c.reg[i[3]])
    [] i[1] = "mov32" -> SetReg(c, i[2], <<c.reg[i[3]][1], 0>>)

Alu(op, a, b) ==
  CASE op = "+" -> Wrap(a + b) [] op = "-" -> Wrap(a - b) [] op = "*" -> Wrap(a * b)
    [] op = "and" -> IF {a, b} \subseteq {0, 1} THEN a * b ELSE Poison
    [] op = "or" -> IF {a, b} \subseteq {0, 1} THEN Truth(a + b > 0) ELSE Poison

Compute(c, i) ==
  LET x == HalvesOf(c.xmm[0])
      y == HalvesOf(c.xmm[1])
      add64(w, v) == <<Both(w[1], v[1], w[1] + v[1]), Both(w[2], v[2], w[2] + v[2])>>
  IN  CASE i[1] = "zero eax" -> SetEax(c, 0)
        [] i[1] = "alu" -> SetEax(c, Both(Eax(c), Ecx(c), Alu(i[2], Eax(c), Ecx(c))))
        [] i[1] = "cdq" -> SetReg(c, "rdx", <<IF Eax(c) < 0 THEN -1 ELSE 0, 0>>)
        [] i[1] = "idiv" ->
             IF Poison \in {Eax(c), Ecx(c)} \/ c.reg["rdx"][1] # (IF Eax(c) < 0 THEN -1 ELSE 0)
             THEN Fault(c, "poison")
             ELSE IF ~Divides(Eax(c), Ecx(c)) THEN Fault(c, "divide error")
             ELSE SetEax(c, Quotient(Eax(c), Ecx(c)))
        [] i[1] = "neg" -> SetEax(c, Both(Eax(c), 0, Wrap(-Eax(c))))
        [] i[1] = "not bool" ->
             SetEax(c, Both(Eax(c), 0, IF Eax(c) % 2 = 0 THEN Eax(c) + 1 ELSE Eax(c) - 1))
        [] i[1] = "add64" -> SetReg(c, "rax", add64(c.reg["rax"], c.reg["rcx"]))
        [] i[1] = "inc64" -> SetReg(c, "rax", add64(c.reg["rax"], <<1, 0>>))
        [] i[1] = "to float" -> SetFloat(c, Both(Eax(c), 0, 2 * Eax(c)))
        [] i[1] = "to int" -> SetEax(c, Both(x, 0, Truncated(x)))
        [] i[1] = "sse" -> SetFloat(c, IF Poison \in {x, y} THEN Poison ELSE FloatOp(i[2], x, y))
        [] i[1] = "round" ->
             SetFloat(c, Both(x, 0, CASE i[2] = 0 -> NearestEven(x) [] i[2] = 1 -> Floored(x)
                                      [] i[2] = 2 -> Ceiled(x)))
        [] i[1] = "zero xmm1" -> [c EXCEPT !.xmm[1] = <<0, 0>>]
        [] i[1] = "cmp" ->
             [c EXCEPT !.flags = IF Poison \in {Eax(c), Ecx(c)} THEN UnknownFlags
                                 ELSE Flags(Eax(c) = Ecx(c), Eax(c) < Ecx(c))]
        [] i[1] = "test32" ->
             [c EXCEPT !.flags = IF Eax(c) = Poison THEN UnknownFlags
                                 ELSE Flags(Eax(c) = 0, Eax(c) < 0)]
        [] i[1] = "test64" ->
             [c EXCEPT !.flags = LET w == c.reg[i[2]]
                                 IN  IF Poison \in {w[1], w[2]} THEN UnknownFlags
                                     ELSE Flags(w = <<0, 0>>, FALSE)]
        [] i[1] = "ucomisd" ->
             [c EXCEPT !.flags = IF Poison \in {x, y} THEN UnknownFlags ELSE Flags(x = y, x < y)]
        [] i[1] = "set" -> [c EXCEPT !.al = IF c.flags = UnknownFlags THEN Poison
                                            ELSE Truth(Holds(i[2], c.flags))]
        [] i[1] = "movzx" -> SetEax(c, c.al)

Push(c, w) ==
  [SetReg(c, "rsp", Pointer(Rsp(c) - 8)) EXCEPT !.mem = Put64(@, Rsp(c) - 8, w)]

Frame(c, i) ==
  CASE i[1] = "push rbp" -> Push(c, c.reg["rbp"])
    [] i[1] = "mov rbp, rsp" -> SetReg(c, "rbp", c.reg["rsp"])
    [] i[1] = "sub rsp" -> SetReg(c, "rsp", Pointer(Rsp(c) - i[2]))
    [] i[1] = "add rsp" -> SetReg(c, "rsp", Pointer(Rsp(c) + i[2]))
    [] i[1] = "leave" ->
         LET frame == c.reg["rbp"][1]
         IN  [c EXCEPT !.reg = [@ EXCEPT !["rsp"] = Pointer(frame + 8),
                                         !["rbp"] = Get64(c.mem, frame)]]
    [] i[1] = "ret" ->
         LET to == Get64(c.mem, Rsp(c))
         IN  [SetReg(c, "rsp", Pointer(Rsp(c) + 8)) EXCEPT !.ip = to[1]]

(* The step at an instruction i whose label, if it has one, was linked to  *)
(* the displacement d.  A call through the import table stops before it.   *)
CpuStep(c, i, d) ==
  LET next == c.ip + Length(i)
      moved == [c EXCEPT !.ip = next]
  IN  CASE i[1] = "lea" -> SetReg(moved, i[2], Pointer(next + d))
        [] i[1] = "call" -> [Push(moved, Pointer(next)) EXCEPT !.ip = next + d]
        [] i[1] = "call iat" -> [c EXCEPT !.outcome = "library", !.slot = next + d]
        [] i[1] = "jmp" -> [c EXCEPT !.ip = next + d]
        [] i[1] = "jcc" ->
             IF c.flags = UnknownFlags THEN Fault(c, "poison")
             ELSE IF Holds(i[2], c.flags) THEN [c EXCEPT !.ip = next + d] ELSE moved
        [] i[1] \in Moves -> Move(moved, i)
        [] i[1] \in FrameOps -> Frame(moved, i)
        [] OTHER -> Compute(moved, i)

-----------------------------------------------------------------------------
(* What a called library may do to the caller's state: the registers are   *)
(* its own and so are the 32 bytes above the return address.               *)
Clobbered(c) ==
  [c EXCEPT !.reg = [r \in DOMAIN @ |-> IF r \in {"rsp", "rbp"} THEN @[r]
                                        ELSE <<Poison, Poison>>],
            !.xmm = [n \in DOMAIN @ |-> <<Poison, Poison>>],
            !.flags = UnknownFlags,
            !.mem = Without(@, Rsp(c), 32),
            !.ip = @ + 6, !.outcome = "running"]

FormatInt == <<37, 100>>
FormatFloat == <<37, 46, 49, 53, 103>>
NewLine == 10

(* What printf and sprintf make of a format and one variadic argument.     *)
Formatted(fmt, w) ==
  CASE fmt = FormatInt /\ w[1] # Poison -> IntText(w[1])
    [] fmt = FormatFloat /\ HalvesOf(w) # Poison -> FloatText(HalvesOf(w))
    [] OTHER -> <<Poison>>

WithoutNewLine(s) == IF s # << >> /\ Last(s) = NewLine THEN Front(s) ELSE <<Poison>>

Printed(c, s) ==
  IF Poison \in ToSet(s) THEN Fault(c, "poison")
  ELSE [c EXCEPT !.out = Append(@, <<"print", s>>)]

Runtime(c, name) ==
  LET rcx == c.reg["rcx"]
      rdx == c.reg["rdx"]
      r8 == c.reg["r8"]
      first == CString(c.mem, rcx)
      after == Clobbered(c)
      counts(w) == w[1] \in 0 .. MaxString /\ w[2] = 0
  IN  CASE name = <<"puts">> -> Printed(after, first)
        [] name = <<"printf">> -> Printed(after, Formatted(WithoutNewLine(first), rdx))
        [] name = <<"strlen">> ->
             IF first = <<Poison>> THEN Fault(c, "poison")
             ELSE SetReg(after, "rax", <<Len(first), 0>>)
        [] name = <<"sprintf">> ->
             LET s == Formatted(CString(c.mem, rdx), r8)
             IN  IF s = <<Poison>> \/ rcx[2] # 1 THEN Fault(c, "poison")
                 ELSE [SetEax(after, Len(s)) EXCEPT !.mem = PutBytes(@, rcx[1], Append(s, 0))]
        [] name = <<"malloc">> ->
             IF ~counts(rcx) THEN Fault(c, "poison")
             ELSE [SetReg(after, "rax", Pointer(c.heap)) EXCEPT !.heap = @ + AlignUp(rcx[1] + 1, 16),
                                                                !.room = @ @@ (c.heap :> rcx[1])]
        [] name = <<"memcpy">> ->
             LET block == Max({0} \cup {b \in DOMAIN c.room : b <= rcx[1]})
                 bytes == [k \in 1 .. r8[1] |-> c.mem[rdx[1] + k - 1][2]]
             IN  IF /\ counts(r8) /\ rcx[2] = 1 /\ rdx[2] = 1
                    /\ \A k \in 1 .. r8[1] : IsByte(c.mem, rdx[1] + k - 1)
                    /\ block > 0 /\ rcx[1] + r8[1] <= block + c.room[block]
                 THEN [SetReg(after, "rax", rcx) EXCEPT !.mem = PutBytes(@, rcx[1], bytes)]
                 ELSE Fault(c, "poison")
        [] name = <<"strcmp">> ->
             LET second == CString(c.mem, rdx)
             IN  IF <<Poison>> \in {first, second} THEN Fault(c, "poison")
                 ELSE SetEax(after, Truth(first # second))
        [] name \in {<<"strtol">>, <<"strtod">>} ->
             IF first = <<Poison>> \/ rdx # <<0, 0>> THEN Fault(c, "poison")
             ELSE IF name = <<"strtod">> THEN SetFloat(after, ParsedFloat(first))
             ELSE IF r8 = <<10, 0>> THEN SetEax(after, ParsedInt(first)) ELSE Fault(c, "poison")
        [] name = <<"ExitProcess">> -> [c EXCEPT !.outcome = "exit", !.code = rcx[1]]

(* A function of another library, declared with the given signature.       *)
Foreign(c, dll, name, params, returns) ==
  LET integer == <<"rcx", "rdx", "r8", "r9">>
      arg(k) == CASE params[k] = "string" -> CString(c.mem, c.reg[integer[k]])
                  [] params[k] \in FloatTypes -> HalvesOf(c.xmm[k - 1])
                  [] OTHER -> c.reg[integer[k]][1]
      after == Clobbered(c)
      result == CASE returns = "void" -> after
                  [] returns = "string" ->
                       [SetReg(after, "rax", Pointer(c.heap)) EXCEPT
                          !.mem = PutBytes(@, c.heap, Append(ForeignResult("string"), 0)),
                          !.heap = @ + 16]
                  [] returns \in FloatTypes -> SetFloat(after, ForeignResult(returns))
                  [] OTHER -> SetEax(after, ForeignResult(returns))
  IN  [result EXCEPT !.out = Append(@, <<"call", dll, name, [k \in DOMAIN params |-> arg(k)]>>)]

Reset(entry, mem) ==
  [ip |-> entry, al |-> Poison, flags |-> UnknownFlags, mem |-> mem,
   reg |-> [r \in {"rax", "rcx", "rdx", "r8", "r9", "rsp", "rbp"} |->
              IF r = "rsp" THEN Pointer(StackTop - 8) ELSE <<Poison, Poison>>],
   xmm |-> [n \in 0 .. 3 |-> <<Poison, Poison>>],
   heap |-> HeapBase, room |-> << >>, slot |-> 0, out |-> << >>, outcome |-> "running", code |-> 0]
=============================================================================
