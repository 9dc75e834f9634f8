-------------------------------- MODULE Native -------------------------------
(***************************************************************************)
(* The direct PE backend (WindowsPeX64Emitter in backend_pe_x64.cpp) from  *)
(* a VIR module to a running program: imports are registered, the entry    *)
(* stub and the functions are emitted, the image is linked and written,    *)
(* and then Windows loads and runs it.                                     *)
(*                                                                         *)
(* Only string constants of .rdata are ever read by a program, so the      *)
(* memory of the machine starts with their bytes.                          *)
(***************************************************************************)
EXTENDS Linker

CONSTANTS
  Modules,   \* the VIR modules considered
  Fuel,      \* the reference run gives up after 2^Fuel steps
  Burst      \* the machine executes 2^Burst instructions in one step

VARIABLES
  module,
  stage,      \* what comes next
  error,      \* the diagnostic that ended the compilation
  table,      \* the import table
  emitted,    \* functions emitted so far
  object,     \* the code, constants, symbols and relocations emitted
  objects,    \* the link objects it is split into
  sections,   \* the joined sections
  resolved,   \* the symbols of all objects
  jobs,       \* the relocations with their targets
  rvas,       \* the addresses of the sections
  file,       \* the executable
  memory,     \* the image, as loaded
  bound,      \* the bound slots of its import table
  machine     \* the processor

objectVars == <<table, emitted, object>>
linkVars == <<objects, sections, resolved, jobs, rvas>>
runVars == <<memory, bound, machine>>
vars == <<module, stage, error, objectVars, linkVars, file, runVars>>

Nothing == << >>
NoSections == [name \in ToSet(SectionNames) |-> EmptySection]
NoFile == [headers |-> Nothing, size |-> 0, cell |-> << >>]
Off == [Reset(0, << >>) EXCEPT !.outcome = "off"]

Init ==
  /\ module \in Modules
  /\ stage = "imports"
  /\ error = "none"
  /\ table = << >>
  /\ emitted = 0
  /\ object = EmptyObject
  /\ objects = << >>
  /\ sections = NoSections
  /\ resolved = {}
  /\ jobs = {}
  /\ rvas = [name \in ToSet(SectionNames) |-> 0]
  /\ file = NoFile
  /\ memory = << >>
  /\ bound = {}
  /\ machine = Off

Ended == stage \in {"failed", "done"}

(* The stage that follows, unless the one at work reports an error.        *)
Proceed(from, to, problem) ==
  /\ stage = from
  /\ error' = problem
  /\ stage' = IF problem = "none" THEN to ELSE "failed"
  /\ UNCHANGED module

-----------------------------------------------------------------------------
RegisterImports ==
  /\ Proceed("imports", "externs", "none")
  /\ table' = FoldLeft(LAMBDA t, i : AddImport(t, i[1], i[2]), table, RuntimeImports)
  /\ UNCHANGED <<emitted, object, linkVars, file, runVars>>

ExternDlls ==
  [name \in {module.externs[k].name : k \in DOMAIN module.externs} |->
     PeLibraryName(TheExtern(module, name).path)]

MainProblem ==
  LET mains == {k \in DOMAIN module.functions : module.functions[k].name = Main}
      main == module.functions[Min(mains)]
  IN  IF mains = {} THEN "missing entry function"
      ELSE IF main.params # << >> THEN "main must not take parameters"
      ELSE IF main.returns \notin {"int32", "void"} THEN "main must return int32 or void"
      ELSE "none"

RegisterExternImports ==
  /\ Proceed("externs", "entry", MainProblem)
  /\ table' = FoldLeft(LAMBDA t, x : AddImport(t, ExternDlls[x.name], x.name),
                       table, module.externs)
  /\ UNCHANGED <<emitted, object, linkVars, file, runVars>>

EmitEntryStub ==
  /\ Proceed("entry", "functions", "none")
  /\ object' = Assemble(object, EntryCode(TheFunction(module, Main)))
  /\ UNCHANGED <<table, emitted, linkVars, file, runVars>>

(* Emits function k of the module, and numbers its sequences.              *)
WithFunction(o, k) ==
  LET fn == module.functions[k]
  IN  [Assemble(o, FunctionCode(fn, ExternDlls, o.sequences))
         EXCEPT !.sequences = @ + Len(Code(fn))]

EmitFunction ==
  LET extended == WithFunction(object, emitted + 1)
      last == emitted + 1 = Len(module.functions)
  IN  /\ Proceed("functions", IF last THEN "finalize" ELSE "functions", extended.error)
      /\ object' = extended
      /\ emitted' = emitted + 1
      /\ UNCHANGED <<table, linkVars, file, runVars>>

FinalizeImports ==
  /\ Proceed("finalize", "split", IF LabelsClash(table) THEN "duplicate label" ELSE "none")
  /\ UNCHANGED <<objectVars, linkVars, file, runVars>>

-----------------------------------------------------------------------------
Split ==
  /\ Proceed("split", "join", "none")
  /\ objects' = SplitIntoLinkObjects(object, table)
  /\ UNCHANGED <<objectVars, sections, resolved, jobs, rvas, file, runVars>>

JoinSections ==
  /\ Proceed("join", "symbols", "none")
  /\ sections' = Joined(objects)
  /\ UNCHANGED <<objectVars, objects, resolved, jobs, rvas, file, runVars>>

ResolveSymbols ==
  LET symbols == ResolvedSymbols(objects)
  IN  /\ Proceed("symbols", "targets",
                 IF DuplicateSymbols(symbols) THEN "duplicate symbol" ELSE "none")
      /\ resolved' = symbols
      /\ UNCHANGED <<objectVars, objects, sections, jobs, rvas, file, runVars>>

ResolveTargets ==
  LET all == RelocationJobs(objects, resolved)
  IN  /\ Proceed("targets", "layout", JobError(all))
      /\ jobs' = all
      /\ UNCHANGED <<objectVars, objects, sections, resolved, rvas, file, runVars>>

LayOut ==
  /\ Proceed("layout", "relocate", "none")
  /\ rvas' = Rvas(sections)
  /\ sections' = [sections EXCEPT !["idata"] = Patched(Idata(table), table, rvas'["idata"])]
  /\ UNCHANGED <<objectVars, objects, resolved, jobs, file, runVars>>

ApplyRelocations ==
  /\ Proceed("relocate", "write", "none")
  /\ sections' = Relocated(sections, jobs, rvas)
  /\ UNCHANGED <<objectVars, objects, resolved, jobs, rvas, file, runVars>>

WriteImage ==
  LET written == WrittenFile(Headers(sections, rvas, resolved, table), sections)
  IN  /\ Proceed("write", "load",
                 IF written.headers.entry = {} THEN "missing entry symbol"
                 ELSE IF SelfCheck(written) THEN "none" ELSE "self-check failed")
      /\ file' = written
      /\ UNCHANGED <<objectVars, linkVars, runVars>>

-----------------------------------------------------------------------------
LoadImage ==
  /\ Proceed("load", "run", "none")
  /\ memory' = Mapped(file.headers.sections, file.cell)
  /\ bound' = Bound(memory', file.headers.import)
  /\ machine' = Reset(CHOOSE e \in file.headers.entry : TRUE, ConstantBytes(memory'))
  /\ UNCHANGED <<objectVars, linkVars, file>>

NoInstructions == {"dword", "string", "disp"}

(* One instruction of the loaded image.                                    *)
NextInstruction(c) ==
  IF c.ip \notin DOMAIN memory \/ memory[c.ip][1] \in NoInstructions
  THEN Fault(c, "not an instruction")
  ELSE LET i == memory[c.ip]
           field == c.ip + FieldAt(i)
       IN  CpuStep(c, i, IF i[1] \in Relocatable THEN memory[field][2] ELSE 0)

RECURSIVE Instructions(_, _)
Instructions(c, log) ==
  CASE c.outcome # "running" -> c
    [] c.outcome = "running" /\ log = 0 -> NextInstruction(c)
    [] OTHER -> Instructions(Instructions(c, log - 1), log - 1)

(* The machine runs up to the next library call.                           *)
RunToCall ==
  /\ machine.outcome = "running"
  /\ Proceed("run", "run", "none")
  /\ machine' = Instructions(machine, Burst)
  /\ UNCHANGED <<objectVars, linkVars, file, memory, bound>>

(* A library may use instructions that fault on a stack that is not at a   *)
(* multiple of 16.                                                         *)
Called(c) ==
  LET calls == {b \in bound : b.slot = c.slot}
      call == (CHOOSE b \in calls : TRUE).import
      extern == TheExtern(module, call[2])
  IN  IF calls = {} THEN Fault(c, "unbound import")
      ELSE IF Rsp(c) % 16 # 0 THEN Fault(c, "stack not aligned")
      ELSE IF call \in ToSet(RuntimeImports) THEN Runtime(c, call[2])
      ELSE Foreign(c, call[1], call[2], extern.params, extern.returns)

Library ==
  /\ machine.outcome = "library"
  /\ Proceed("run", "run", "none")
  /\ machine' = Called(machine)
  /\ UNCHANGED <<objectVars, linkVars, file, memory, bound>>

Exit ==
  /\ machine.outcome \notin {"running", "library"}
  /\ Proceed("run", "done", "none")
  /\ UNCHANGED <<objectVars, linkVars, file, runVars>>

Step ==
  \/ RegisterImports \/ RegisterExternImports \/ EmitEntryStub \/ EmitFunction
  \/ FinalizeImports \/ Split \/ JoinSections \/ ResolveSymbols \/ ResolveTargets
  \/ LayOut \/ ApplyRelocations \/ WriteImage \/ LoadImage \/ RunToCall \/ Library \/ Exit

Stopped == Ended /\ UNCHANGED vars

Next == Step \/ Stopped

Spec == Init /\ [][Next]_vars /\ WF_vars(Step)
-----------------------------------------------------------------------------
(* What the program prints, which foreign functions it calls with which    *)
(* arguments and how it ends is what its VIR says: instruction selection,  *)
(* frames, calls and their stack, the import table, the layout, the        *)
(* relocations and the loaded image together keep the meaning.             *)
RunsAsTheVirSays ==
  stage = "done" =>
    <<machine.out, machine.outcome, machine.code>> = VirRun(module, Fuel)

Linked == stage \in {"write", "load", "run", "done"}
Written == stage \in {"load", "run", "done"}

(* Every displacement leads from the instruction after it to the symbol    *)
(* that the code generator meant, wherever splitting, joining, resolution  *)
(* and layout have put the two (linkObjects).                              *)
RelocationsReach ==
  Linked =>
    \A r \in ToSet(object.relocations) :
      \E s \in ToSet(object.symbols) \cup ImportSymbols(table) :
        /\ s.name = r.target
        /\ r.at \in DOMAIN sections[r.section].cell
        /\ sections[r.section].cell[r.at] =
             <<"disp", rvas[s.section] + s.offset - (rvas[r.section] + r.at + 4)>>

(* The headers describe the file they are put before: sections are aligned *)
(* and apart, in memory and in the file, what a section holds is found in  *)
(* the file and in the loaded image and nowhere past their sizes, the      *)
(* entry point and the slots of the import table are inside of what they   *)
(* point into, and the compiler's own check of the file passes.            *)
ImageIsWellFormed ==
  /\ error \notin {"self-check failed", "missing entry symbol", "ambiguous symbol"}
  /\ Written =>
       LET h == file.headers
           of(name) == CHOOSE s \in ToSet(h.sections) : s.name = name
           inside(rva, size, s) == s.rva <= rva /\ rva + size <= s.rva + s.virtualSize
       IN  /\ LaidOut(h.sections, h.size, file.size)
           /\ FoundInFile(h.sections, file.cell, sections)
           /\ \A e \in h.entry : inside(e, 1, of("text"))
           /\ inside(h.iat.rva, h.iat.size, of("idata"))
  /\ stage \in {"run", "done"} => FoundInMemory(memory, sections, rvas)

(* The loader binds one slot for every function that the program imports,  *)
(* under the right library, at the address that the symbol of the import   *)
(* has; two functions never share a symbol.                                *)
ImportsAreBound ==
  stage \in {"run", "done"} =>
    LET slots == {[slot |-> rvas["idata"] + s.offset, import |-> s.import] : s \in ImportSymbols(table)}
        imported == ToSet(RuntimeImports)
                    \cup {<<ExternDlls[x.name], x.name>> : x \in ToSet(module.externs)}
    IN  /\ bound = slots
        /\ {b.import : b \in bound} = imported
        /\ \A s, t \in ImportSymbols(table) : s.name = t.name => s = t
=============================================================================
