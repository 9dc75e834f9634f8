------------------------------ MODULE Benchmark ------------------------------
(* Benchmark mode (main.cpp:654-978): the embedded program is compiled and   *)
(* run in a worker thread behind a progress display, the times go to a       *)
(* history file that all runs on the machine share, and the executable is    *)
(* removed unless -o names it.  Runs and compilations share the file system. *)
EXTENDS Driver

CONSTANTS
  Moments,      \* readings of the clock that names the executable (milliseconds)
  OldHistories, \* what earlier runs may have left: text, rows and faults
  MaxFaults     \* bound: processes killed and appends cut short

(* 0 stands for the clock not yet read.                                      *)
ASSUME MomentsAssumption == 0 \notin Moments

VARIABLES
  moment,       \* runSuffix, 0 before it is read
  future,       \* std::future of the worker: "none", "running", "value", "exception"
  ran,          \* whose program the worker has executed; ghost
  needsHeader,
  history,      \* the text of the history file
  historyExists,
  recorded,     \* runs whose row was appended whole, at the start of a line; ghost
  faults

benchVars == <<moment, future, ran, needsHeader, history, historyExists, recorded, faults>>
vars == <<driverVars, benchVars>>

(* ---- The history file.  A text is a sequence of tokens: <<kind, run>>.    *)
(* Of a number only where it stands is kept, not its value.  --------------- *)

Word(kind) == <<kind, "nobody">>
Comma == Word(",")
Newline == Word("newline")

Header == <<Word("timestamp"), Comma, Word("title"), Comma, Word("title"), Comma,
            Word("title"), Newline>>
Row(p) == <<<<"time", p>>, Comma, <<"compile", p>>, Comma, <<"run", p>>, Comma,
            <<"count", p>>, Newline>>

(* std::getline: what there is up to the separator, which is taken as well.  *)
Getline(text, separator) ==
  LET end == Min({i \in 1..Len(text) : text[i] = separator} \cup {Len(text) + 1})
  IN [got |-> SubSeq(text, 1, end - 1), rest |-> SubSeq(text, end + 1, Len(text))]

(* Lines are known by where they start; none starts where the text ends.     *)
LineStarts(text) == {s \in 1..Len(text) : s = 1 \/ text[s - 1] = Newline}
Line(text, start) == Getline(SubSeq(text, start, Len(text)), Newline).got

(* std::stod and std::stoll take the longest prefix that is a number; a time *)
(* begins with its year.                                                     *)
Numeric(field) == field # <<>> /\ field[1][1] \in {"time", "compile", "run", "count"}

(* The record of a line, if it has one: std::getline fails when nothing is   *)
(* left, and of the four fields all but the first have to be numbers.        *)
ReadRow(line) ==
  LET one == Getline(line, Comma)
      two == Getline(one.rest, Comma)
      three == Getline(two.rest, Comma)
      four == Getline(three.rest, Comma)
  IN {row \in {<<one.got, two.got, three.got, four.got>>} :
        /\ \A text \in {line, one.rest, two.rest, three.rest} : text # <<>>
        /\ \A i \in 2..4 : Numeric(row[i])}

IsHeader(line, start) ==
  start = 1 /\ Len(line) >= 2 /\ line[1] = Word("timestamp") /\ line[2] = Comma

(* The records, each at the start of its line.                               *)
ReadBenchmarkHistory(text) ==
  UNION {{<<start, row>> : row \in ReadRow(Line(text, start))} :
         start \in {start \in LineStarts(text) : ~IsHeader(Line(text, start), start)}}

AtLineStart(text) == text = <<>> \/ Last(text) = Newline

(* Text that starts a line.                                                  *)
Begins(text, start, part) ==
  /\ start \in LineStarts(text) /\ start + Len(part) - 1 <= Len(text)
  /\ \A i \in DOMAIN part : text[start + i - 1] = part[i]

(* What runs leave: the recorded rows are lines of their own, in order, and  *)
(* unless there were faults every line is one of them or a header.           *)
TimesOf(text, p) == {i \in DOMAIN text : text[i] = <<"time", p>>}

Legible(text, rows) ==
  /\ \A i \in DOMAIN rows : TimesOf(text, rows[i]) # {}
  /\ \A i \in DOMAIN rows : \A s \in TimesOf(text, rows[i]) : Begins(text, s, Row(rows[i]))
  /\ \A i, j \in DOMAIN rows : \A s \in TimesOf(text, rows[i]), t \in TimesOf(text, rows[j]) :
       i < j <=> s < t

Tidy(text, rows) ==
  /\ AtLineStart(text)
  /\ \A s \in LineStarts(text) :
       Begins(text, s, Header) \/ \E i \in DOMAIN rows : s \in TimesOf(text, rows[i])

(* Earlier runs have left a history like that, and are not among those that  *)
(* start now; faults are counted.                                            *)
ASSUME HistoriesAssumption ==
  \A old \in OldHistories :
    /\ old.text \in Seq(STRING \X STRING) /\ old.recorded \in Seq(STRING) /\ old.faults \in Nat
    /\ Legible(old.text, old.recorded)
    /\ old.faults = 0 => Tidy(old.text, old.recorded)
    /\ \A s \in Sessions : \A p \in DOMAIN s : TimesOf(old.text, p) = {} /\ p \notin ToSet(old.recorded)

(* ---- The steps of runBenchmarkMode.  ------------------------------------ *)

ExePath(p) == ValueOr(options[p], "-o", <<"voltis_benchmark_", ToString(moment[p]), "exe">>)
KeepExecutable(p) == "-o" \in DOMAIN options[p].value

StartBenchmark(p) ==
  /\ At(p, "benchmark")
  /\ \E m \in Moments : moment' = [moment EXCEPT ![p] = m]
  /\ future' = [future EXCEPT ![p] = "running"]
  /\ Goto(p, "compiling")
  /\ UNCHANGED <<argv, options, selection, disk, wrote, listed,
                 ran, needsHeader, history, historyExists, recorded, faults>>

(* In the worker: compile the embedded program and write the executable.     *)
CompileOp(p) ==
  /\ At(p, "compiling") /\ future[p] = "running"
  /\ \/ /\ PutFile(p, ExePath(p), Artifact(p, "pe", "X64"))
        /\ future' = [future EXCEPT ![p] = "value"]
     \/ /\ future' = [future EXCEPT ![p] = "exception"]
        /\ UNCHANGED <<disk, wrote>>
  /\ UNCHANGED <<argv, options, stage, selection, listed, exit,
                 moment, ran, needsHeader, history, historyExists, recorded, faults>>

(* runWithSpinner gets the result: it throws what the worker threw.          *)
Compiled(p) ==
  /\ At(p, "compiling") /\ future[p] \in {"value", "exception"}
  /\ IF future[p] = "exception"
     THEN Fails(p) /\ UNCHANGED future
     ELSE Goto(p, "benchmarking") /\ future' = [future EXCEPT ![p] = "running"]
  /\ UNCHANGED <<argv, options, selection, disk, wrote, listed,
                 moment, ran, needsHeader, history, historyExists, recorded, faults>>

(* In the worker: run the file of that name.  "exception" stands for an exit *)
(* code other than 0, the only one there is when the file is missing.        *)
BenchmarkOp(p) ==
  /\ At(p, "benchmarking") /\ future[p] = "running"
  /\ \/ /\ ExePath(p) \in DOMAIN disk /\ disk[ExePath(p)].kind \in {"pe", "elf", "cxx"}
        /\ ran' = [ran EXCEPT ![p] = disk[ExePath(p)].by]
        /\ future' = [future EXCEPT ![p] = "value"]
     \/ /\ future' = [future EXCEPT ![p] = "exception"]
        /\ UNCHANGED ran
  /\ UNCHANGED <<driverVars, moment, needsHeader, history, historyExists, recorded, faults>>

Benchmarked(p) ==
  /\ At(p, "benchmarking") /\ future[p] \in {"value", "exception"}
  /\ IF future[p] = "exception" THEN Fails(p) ELSE Goto(p, "record")
  /\ UNCHANGED <<argv, options, selection, disk, wrote, listed, benchVars>>

(* appendBenchmarkHistory: look whether the file is there, ...               *)
CheckHeader(p) ==
  /\ At(p, "record")
  /\ needsHeader' = [needsHeader EXCEPT ![p] = ~historyExists]
  /\ Goto(p, "open")
  /\ UNCHANGED <<argv, options, selection, disk, wrote, listed,
                 moment, future, ran, history, historyExists, recorded, faults>>

(* ... open it for appending, which makes it, or warn and go on, ...         *)
MutOpenHistory(p) ==
  /\ At(p, "open")
  /\ historyExists' = TRUE /\ Goto(p, "append")
  /\ history' = IF needsHeader[p] THEN <<>> ELSE history
  /\ UNCHANGED <<argv, options, selection, disk, wrote, listed,
                 moment, future, ran, needsHeader, recorded, faults>>

OpenHistory(p) ==
  /\ At(p, "open")
  /\ \/ historyExists' = TRUE /\ Goto(p, "append")
     \/ UNCHANGED historyExists /\ Goto(p, "cleanup")
  /\ UNCHANGED <<argv, options, selection, disk, wrote, listed,
                 moment, future, ran, needsHeader, history, recorded, faults>>

(* ... and append what the stream has buffered, all at once when it closes.  *)
(* A full disk cuts it short, which nobody notices.                          *)
AppendHistory(p) ==
  /\ At(p, "append")
  /\ \E text \in {(IF needsHeader[p] THEN Header ELSE <<>>) \o Row(p)} :
       \/ /\ history' = history \o text
          /\ recorded' = IF AtLineStart(history) THEN Append(recorded, p) ELSE recorded
          /\ UNCHANGED faults
       \/ /\ faults < MaxFaults /\ faults' = faults + 1
          /\ \E n \in 0..(Len(text) - 1) : history' = history \o SubSeq(text, 1, n)
          /\ UNCHANGED recorded
  /\ Goto(p, "cleanup")
  /\ UNCHANGED <<argv, options, selection, disk, wrote, listed,
                 moment, future, ran, needsHeader, historyExists>>

(* fs::remove, whose failure is a warning.  *)
MutCleanUp(p) ==
  /\ At(p, "cleanup")
  /\ UNCHANGED disk
  /\ End(p, "ok")
  /\ UNCHANGED <<argv, options, selection, wrote, listed, benchVars>>

CleanUp(p) ==
  /\ At(p, "cleanup")
  /\ \/ KeepExecutable(p) /\ UNCHANGED <<disk, faults>>
     \/ ~KeepExecutable(p) /\ disk' = Restrict(disk, DOMAIN disk \ {ExePath(p)}) /\ UNCHANGED faults
     \/ ~KeepExecutable(p) /\ faults < MaxFaults /\ faults' = faults + 1 /\ UNCHANGED disk
  /\ End(p, "ok")
  /\ UNCHANGED <<argv, options, selection, wrote, listed,
                 moment, future, ran, needsHeader, history, historyExists, recorded>>

BenchmarkStep(p) ==
  \/ StartBenchmark(p) \/ CompileOp(p) \/ Compiled(p) \/ BenchmarkOp(p) \/ Benchmarked(p)
  \/ CheckHeader(p) \/ OpenHistory(p) \/ AppendHistory(p) \/ CleanUp(p)

(* Any process can be killed before it ends. *)
Kill(p) ==
  /\ p \in Procs /\ exit[p] = "none" /\ faults < MaxFaults
  /\ End(p, "killed") /\ faults' = faults + 1
  /\ UNCHANGED <<argv, options, selection, disk, wrote, listed,
                 moment, future, ran, needsHeader, history, historyExists, recorded>>

Init ==
  /\ DriverInit
  /\ moment = [p \in Procs |-> 0]
  /\ future = [p \in Procs |-> "none"]
  /\ ran = [p \in Procs |-> ""]
  /\ needsHeader = [p \in Procs |-> FALSE]
  /\ \E old \in OldHistories :
       /\ history = old.text /\ recorded = old.recorded /\ faults = old.faults
       /\ historyExists = (old.text # <<>>)

Step(p) == (DriverStep(p) /\ UNCHANGED benchVars) \/ BenchmarkStep(p)

Rest == (\A p \in Procs : exit[p] # "none") /\ UNCHANGED vars

Next == (\E p \in Procs : Step(p) \/ Kill(p)) \/ Rest

Spec == Init /\ [][Next]_vars

(* ---- Properties ---- *)

WholeRow(p) == [i \in 1..4 |-> <<Row(p)[2 * i - 1]>>]

(* Every row that was appended whole at the start of a line is read back     *)
(* once, in the order of the appends, whatever the runs did to each other    *)
(* while they looked for the header, opened and appended; without faults     *)
(* nothing else is read (readBenchmarkHistory, appendBenchmarkHistory).      *)
RecordsSurvive ==
  \E read \in {ReadBenchmarkHistory(history)} :
    /\ \A i \in DOMAIN recorded : \E r \in read : r[2] = WholeRow(recorded[i])
    /\ \A r, t \in read : \A i, j \in DOMAIN recorded :
         r[2] = WholeRow(recorded[i]) /\ t[2] = WholeRow(recorded[j]) => (i < j <=> r[1] < t[1])
    /\ faults = 0 => \A r \in read : \E i \in DOMAIN recorded : r[2] = WholeRow(recorded[i])

OtherNames(p) == UNION {{w[1] : w \in wrote[q]} : q \in Procs \ {p}}

(* A run measures the program it compiled.  A run that ends well leaves its  *)
(* executable exactly when -o names it, and a compilation that fails leaves  *)
(* none; only a failing program, a kill or a failing removal leaves one      *)
(* behind.  All this provided that no other invocation writes to the name    *)
(* and no file of it was there before.                                       *)
ExecutablesAreAccounted ==
  \A p \in {p \in Procs : moment[p] # 0 /\ ExePath(p) \notin OtherNames(p) \cup Inputs} :
    /\ stage[p] \in {"record", "open", "append", "cleanup"} => ran[p] = p
    /\ exit[p] = "ok" =>
         /\ ran[p] = p
         /\ KeepExecutable(p) => ExePath(p) \in DOMAIN disk
         /\ ~KeepExecutable(p) /\ faults = 0 => ExePath(p) \notin DOMAIN disk
    /\ exit[p] = "error" => (ExePath(p) \in DOMAIN disk) = (wrote[p] # {})

(* What the command line asks an invocation to make. *)
EmitFlag == [vir |-> "--emit-vir", llvm |-> "--emit-llvm"]

Wanted(p) ==
  LET given == Given(options[p])
  IN IF "--bootstrap-cpp" \in given
     THEN {"cpp"} \cup (IF "--no-link" \in given THEN {} ELSE {"cxx"})
     ELSE IF given \cap {"--emit-vir", "--emit-llvm"} # {}
     THEN {k \in DOMAIN EmitFlag : EmitFlag[k] \in given}
     ELSE IF "--emit" \in given THEN AskedFormats(options[p]) ELSE {Chosen(p).format}

(* Names that an output option gives, that are left of an argument without   *)
(* its extension, and that benchmark runs remove when they are done.         *)
NamedOutputs ==
  UNION {{argv[p][i] : i \in {i \in 2..Len(argv[p]) : argv[p][i - 1][1] \in {"-o", "--emit-cpp"}}} :
         p \in Procs}

Stems == UNION {{Stem(argv[p][i]) : i \in DOMAIN argv[p]} : p \in Procs}

Temporaries == {ExePath(p) : p \in {p \in Procs : moment[p] # 0 /\ ~KeepExecutable(p)}}

(* Success means that what was asked for has been written, in a format that  *)
(* the target has, and is still there or has been replaced by the artifact   *)
(* of another invocation, unless it has the name of a benchmark's temporary  *)
(* executable; planned targets never get one.  A triple that --list-targets  *)
(* prints can be given to --target.  A .vlt file is never overwritten unless *)
(* an output option names it or it is the stem of an argument, as x.vlt is   *)
(* of x.vlt.vlt (main, parseCliOptions).                                     *)
ReportsAreTrue ==
  /\ \A p \in {p \in Procs : selection[p] # {} /\ exit[p] = "ok"} :
       {w[2].kind : w \in wrote[p]} = Wanted(p)
  /\ \A p \in {p \in Procs : selection[p] # {}} : \A w \in wrote[p] :
       /\ w[1] \notin Temporaries =>
            w[1] \in DOMAIN disk /\ <<w[1], disk[w[1]]>> \in UNION {wrote[q] : q \in Procs}
       /\ w[2].kind \in DOMAIN FormatNames =>
            \E d \in DescribeTarget(Chosen(p).triple) :
              d.readiness # "Planned" /\ \E i \in DOMAIN d.formats : d.formats[i] = w[2].kind
  /\ \A p \in Procs : exit[p] = "error" /\ DOMAIN options[p].value = {"--target"} /\ selection[p] = {}
       => options[p].value["--target"] \notin listed
  /\ \A f \in Inputs \ (NamedOutputs \cup Stems) : Last(f) = "vlt" => f \in DOMAIN disk /\ disk[f] = Source
=============================================================================
