------------------------------- MODULE Driver -------------------------------
(* `main`: the command line, the choice of the target, and one compilation   *)
(* with its artifacts (main.cpp), for several invocations of the compiler    *)
(* that share the file system.  Benchmark mode is in `Benchmark`.            *)
(*                                                                           *)
(* An argument is a sequence of segments: <<"-o">> is a flag, a path is its  *)
(* stem and its extension, a triple its four parts.                          *)
EXTENDS Targets, SequencesExt

CONSTANTS
  Sessions,     \* sets of concurrent invocations: functions from names to arguments
  Host,         \* canonicalTargetTripleForHost()
  Inputs,       \* the source files there are at the beginning
  Directories   \* the paths that --sysroot can name

(* An argument has at least one segment; the empty text is <<"">>. *)
ASSUME SessionsAssumption ==
  \A s \in Sessions : \A p \in DOMAIN s : p \in STRING /\ s[p] \in Seq(Seq(STRING) \ {<<>>})

VARIABLES
  argv,         \* the invocations and their arguments
  options,      \* CliOptions of each
  stage,        \* how far `main` has come
  selection,    \* target, format and calling convention: at most one
  disk,         \* files by name
  wrote,        \* what each invocation has written, as <<name, content>>
  listed,       \* the triples that --list-targets has printed
  exit          \* "none", "ok", "error" or "killed"

driverVars == <<argv, options, stage, selection, disk, wrote, listed, exit>>

Procs == DOMAIN argv

Switches ==
  {"--emit-vir", "--emit-llvm", "--list-targets", "--list-all-targets", "--benchmark",
   "--bootstrap-cpp", "--no-link"}
ValueFlags ==
  {"-o", "--emit-cpp", "--target", "--arch", "--os", "--abi", "--sysroot", "--emit"}
Unknown == "--unknown"

(* f with x bound to v. *)
Bind(f, x, v) == [y \in DOMAIN f \cup {x} |-> IF y = x THEN v ELSE f[y]]

(* `on` holds the switches, `value` the last value of each flag that has one. *)
Options(inputs, on, value) == [inputs |-> inputs, on |-> on, value |-> value]
NoOptions == Options(<<>>, {}, <<>>)

(* One turn of the loop of parseCliOptions.  A flag takes whatever comes     *)
(* next, another flag included.                                              *)
NoFlag == "none"
Refused == "refused"

TakeArg(s, arg) ==
  LET o == s.options
  IN IF \/ s.flag = Refused
        \/ s.flag = NoFlag /\ arg[1] = Unknown
        \/ s.flag = "--emit" /\ BinaryFormats(arg[1]) = {}
     THEN [options |-> o, flag |-> Refused]
     ELSE IF s.flag # NoFlag
     THEN [options |-> Options(o.inputs, o.on, Bind(o.value, s.flag, arg)), flag |-> NoFlag]
     ELSE IF arg[1] \in ValueFlags THEN [options |-> o, flag |-> arg[1]]
     ELSE IF arg[1] \in Switches
     THEN [options |-> Options(o.inputs, o.on \cup {arg[1]}, o.value), flag |-> NoFlag]
     ELSE [options |-> Options(Append(o.inputs, arg), o.on, o.value), flag |-> NoFlag]

Given(o) == o.on \cup DOMAIN o.value

(* Which combinations parseCliOptions lets through. *)
Coherent(o) ==
  LET listing == {"--list-targets", "--list-all-targets"}
      bootstrap == "--bootstrap-cpp" \in o.on
  IN IF o.on \cap listing # {} THEN Given(o) \subseteq listing /\ o.inputs = <<>>
     ELSE IF "--benchmark" \in o.on THEN Given(o) \subseteq {"--benchmark", "-o"} /\ o.inputs = <<>>
     ELSE /\ o.inputs # <<>>
          /\ Given(o) \cap {"--no-link", "--emit-cpp"} # {} => bootstrap
          /\ bootstrap => Given(o) \cap {"--emit-vir", "--emit-llvm", "--emit"} = {}
          /\ ~({"--emit-vir", "--emit-llvm", "-o"} \subseteq Given(o))

ParseStart == [options |-> NoOptions, flag |-> NoFlag]

(* The options of an argument list: at most one. *)
ParseCliOptions(args) ==
  LET s[n \in 0..Len(args)] == IF n = 0 THEN ParseStart ELSE TakeArg(s[n - 1], args[n])
      end == s[Len(args)]
  IN {o \in {end.options} : end.flag = NoFlag /\ Coherent(o)}

(* ---- Paths ---- *)

Stem(path) == IF Len(path) = 1 THEN path ELSE Front(path)
DefaultArtifactPath(input, extension) == Append(Stem(input), extension)

(* The POSIX branch of defaultExecutablePath for PE. *)
DefaultFormatPath(input, format) ==
  IF format = "pe" THEN Stem(input) ELSE DefaultArtifactPath(input, format)

ValueOr(o, flag, default) == IF flag \in DOMAIN o.value THEN o.value[flag] ELSE default

SegmentFlag(i) == IF i = 1 THEN "--arch" ELSE IF i = 3 THEN "--os" ELSE "--abi"

Overrides(o) ==
  [i \in {i \in {1, 3, 4} : SegmentFlag(i) \in DOMAIN o.value} |-> o.value[SegmentFlag(i)][1]]

SelectedTriple(o) == Override(ValueOr(o, "--target", Host), Overrides(o))

AskedFormats(o) ==
  IF "--emit" \in DOMAIN o.value THEN BinaryFormats(o.value["--emit"][1]) ELSE {}

(* ---- The file system: names are bound to whole contents.  That a write    *)
(* replaces the file at once or not at all is what `SafeWrite` shows.  ----- *)

Source == [kind |-> "source", by |-> "user", arch |-> ""]
Artifact(p, kind, arch) == [kind |-> kind, by |-> p, arch |-> arch]

End(p, how) == exit' = [exit EXCEPT ![p] = how] /\ stage' = [stage EXCEPT ![p] = "done"]
Fails(p) == End(p, "error")

Goto(p, s) == stage' = [stage EXCEPT ![p] = s] /\ UNCHANGED exit

PutFile(p, name, content) ==
  /\ disk' = Bind(disk, name, content)
  /\ wrote' = [wrote EXCEPT ![p] = @ \cup {<<name, content>>}]

At(p, s) == p \in Procs /\ stage[p] = s

(* ---- Before the front end ---- *)

ParseCli(p) ==
  /\ At(p, "start")
  /\ \/ /\ ParseCliOptions(argv[p]) = {}
        /\ Fails(p) /\ UNCHANGED options
     \/ \E o \in ParseCliOptions(argv[p]) :
          /\ options' = [options EXCEPT ![p] = o]
          /\ Goto(p, IF o.on \cap {"--list-targets", "--list-all-targets"} # {} THEN "list"
                     ELSE IF "--benchmark" \in o.on THEN "benchmark" ELSE "select")
  /\ UNCHANGED <<argv, selection, disk, wrote, listed>>

Printed(all) ==
  {Canonical(d.triple) : d \in {d \in BuiltinTargets : all \/ d.readiness = "Production"}}

(* With --list-all-targets the readiness is printed as well, so that only    *)
(* the triples without a label count as listed.                              *)
PrintSupportedTargets(p) ==
  /\ At(p, "list")
  /\ listed' = listed \cup (Printed(FALSE) \cap Printed("--list-all-targets" \in options[p].on))
  /\ End(p, "ok")
  /\ UNCHANGED <<argv, options, selection, disk, wrote>>

SelectTarget(p) ==
  /\ At(p, "select")
  /\ \E o \in {options[p]} :
       \E s \in {IF "--sysroot" \in DOMAIN o.value /\ o.value["--sysroot"] \notin Directories
                 THEN {} ELSE Selections(SelectedTriple(o), AskedFormats(o))} :
         /\ selection' = [selection EXCEPT ![p] = s]
         /\ IF s = {} THEN Fails(p) ELSE Goto(p, "frontend")
  /\ UNCHANGED <<argv, options, disk, wrote, listed>>

(* ---- One compilation ---- *)

Chosen(p) == CHOOSE s \in selection[p] : TRUE

(* Every entry must be there and be a source; whether the program is correct *)
(* is open.                                                                  *)
RunFrontend(p) ==
  /\ At(p, "frontend")
  /\ \/ /\ \A i \in DOMAIN options[p].inputs :
             options[p].inputs[i] \in DOMAIN disk /\ disk[options[p].inputs[i]].kind = "source"
        /\ Goto(p, IF "--bootstrap-cpp" \in options[p].on THEN "bootstrap"
                   ELSE IF options[p].on \cap {"--emit-vir", "--emit-llvm"} = {} THEN "native"
                   ELSE IF "--emit-vir" \in options[p].on THEN "vir" ELSE "llvm")
     \/ Fails(p)
  /\ UNCHANGED <<argv, options, selection, disk, wrote, listed>>

(* The back end may refuse the module, and the write may fail; both throw.   *)
Emit(p, name, content, next) ==
  /\ \/ /\ PutFile(p, name, content)
        /\ IF next = "done" THEN End(p, "ok") ELSE Goto(p, next)
     \/ Fails(p) /\ UNCHANGED <<disk, wrote>>
  /\ UNCHANGED <<argv, options, selection, listed>>

CppPath(o) == ValueOr(o, "--emit-cpp", DefaultArtifactPath(o.inputs[1], "generated.cpp"))

GenerateCpp(p) ==
  /\ At(p, "bootstrap")
  /\ Emit(p, CppPath(options[p]), Artifact(p, "cpp", ""),
          IF "--no-link" \in options[p].on THEN "done" ELSE "link")

(* The C++ compiler finds the file by its name: it may be another one by now. *)
RunCxx(p) ==
  /\ At(p, "link")
  /\ Emit(p, ValueOr(options[p], "-o", <<"a", "exe">>), Artifact(p, "cxx", ""), "done")

CompileNative(p) ==
  /\ At(p, "native")
  /\ Emit(p, ValueOr(options[p], "-o",
                     DefaultFormatPath(options[p].inputs[1], Chosen(p).format)),
          Artifact(p, Chosen(p).format,
                   IF Chosen(p).format = "pe" THEN "X64" ELSE Chosen(p).triple.arch),
          "done")

EmitVir(p) ==
  /\ At(p, "vir")
  /\ Emit(p, ValueOr(options[p], "-o", DefaultArtifactPath(options[p].inputs[1], "vir")),
          Artifact(p, "vir", ""),
          IF "--emit-llvm" \in options[p].on THEN "llvm" ELSE "done")

EmitLlvm(p) ==
  /\ At(p, "llvm")
  /\ Emit(p, ValueOr(options[p], "-o", DefaultArtifactPath(options[p].inputs[1], "ll")),
          Artifact(p, "llvm", ""), "done")

DriverStep(p) ==
  \/ ParseCli(p) \/ PrintSupportedTargets(p) \/ SelectTarget(p) \/ RunFrontend(p)
  \/ GenerateCpp(p) \/ RunCxx(p) \/ CompileNative(p) \/ EmitVir(p) \/ EmitLlvm(p)

DriverInit ==
  /\ argv \in Sessions
  /\ options = [p \in Procs |-> NoOptions]
  /\ stage = [p \in Procs |-> "start"]
  /\ selection = [p \in Procs |-> {}]
  /\ disk = [f \in Inputs |-> Source]
  /\ wrote = [p \in Procs |-> {}]
  /\ listed = {}
  /\ exit = [p \in Procs |-> "none"]
=============================================================================
