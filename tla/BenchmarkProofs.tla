--------------------------- MODULE BenchmarkProofs ---------------------------
(***************************************************************************)
(* Proofs about the driver and benchmark mode, for every set of concurrent *)
(* invocations, clock and history file.                                    *)
(*   Accounted: a benchmark run measures the program it compiled, removes  *)
(*   the executable that -o does not name, and leaves nothing when the     *)
(*   compilation fails.                                                    *)
(*   ReportsAlwaysTrue: an invocation that ends well has written what its  *)
(*   command line asks for, and no source file is lost to it.              *)
(*   RecordsAlwaysSurvive: the rows that runs append to the history file   *)
(*   at the start of a line are read back, in order, and nothing else.     *)
(***************************************************************************)
EXTENDS Benchmark, SequenceLemmas, TLAPS

(* How far a run has come: its program is compiled, measured, or both have *)
(* been done and the row is under way.                                     *)
Recording == {"record", "open", "append", "cleanup"}
Running == {"compiling", "benchmarking"} \cup Recording

Typed ==
  /\ stage = [p \in Procs |-> stage[p]] /\ exit = [p \in Procs |-> exit[p]]
  /\ future = [p \in Procs |-> future[p]]
  /\ moment = [p \in Procs |-> moment[p]] /\ options = [p \in Procs |-> options[p]]
  /\ ran = [p \in Procs |-> ran[p]] /\ wrote = [p \in Procs |-> wrote[p]]
  /\ faults \in Nat

(* The names that an invocation has written to.                            *)
Names(p) == {w[1] : w \in wrote[p]}

(* Nobody else writes to the executable of p, and no source had its name.  *)
Unshared(p) == ExePath(p) \notin OtherNames(p) \cup Inputs

Remains(p) == ExePath(p) \in DOMAIN disk

(* Every file is a source of the beginning or was written by somebody, who *)
(* has put his name on it.                                                 *)
Traced ==
  /\ \A f \in DOMAIN disk : f \notin Inputs => \E q \in Procs : <<f, disk[f]>> \in wrote[q]
  /\ \A q \in Procs : \A w \in wrote[q] : w[2].by = q

(* An invocation reads the clock when it starts to benchmark, and has      *)
(* written nothing before.                                                 *)
Clocked(p) ==
  /\ stage[p] = "done" <=> exit[p] # "none"
  /\ stage[p] \in Running => moment[p] # 0
  /\ moment[p] # 0 => stage[p] \in Running \cup {"done"}
  /\ stage[p] \in {"start", "benchmark"} => wrote[p] = {}

(* A benchmark run writes nothing but its executable, when the compilation *)
(* succeeds.                                                               *)
Written(p) ==
  moment[p] # 0 =>
    /\ \A w \in wrote[p] : w[1] = ExePath(p)
    /\ stage[p] = "compiling" =>
         future[p] \in {"running", "value", "exception"} /\ (wrote[p] # {} <=> future[p] = "value")
    /\ stage[p] \in {"benchmarking"} \cup Recording => wrote[p] # {}

(* What becomes of an executable whose name nobody else uses.              *)
Kept(p) ==
  moment[p] # 0 /\ Unshared(p) =>
    /\ stage[p] \in Running => (Remains(p) <=> wrote[p] # {})
    /\ stage[p] = "benchmarking" /\ future[p] = "value" => ran[p] = p
    /\ stage[p] \in Recording => ran[p] = p
    /\ exit[p] = "ok" =>
         /\ ran[p] = p
         /\ KeepExecutable(p) => Remains(p)
         /\ ~KeepExecutable(p) /\ faults = 0 => ~Remains(p)
    /\ exit[p] = "error" => (Remains(p) <=> wrote[p] # {})

Account(p) == Clocked(p) /\ Written(p) /\ Kept(p)

BInv == Typed /\ Traced /\ \A p \in Procs : Account(p)

-----------------------------------------------------------------------------
(* A step of p leaves the others as they are, takes back nothing it has    *)
(* written, no fault, and makes or removes no file but one it has written. *)
Minds(p) ==
  /\ Procs' = Procs
  /\ \A q \in Procs \ {p} :
       /\ stage'[q] = stage[q] /\ exit'[q] = exit[q] /\ future'[q] = future[q]
       /\ moment'[q] = moment[q] /\ options'[q] = options[q]
       /\ ran'[q] = ran[q] /\ wrote'[q] = wrote[q]
  /\ wrote[p] \subseteq wrote'[p]
  /\ faults' = 0 => faults = 0
  /\ \A f : f \notin Names(p)' => (f \in DOMAIN disk' <=> f \in DOMAIN disk)

(* The others' accounts stand after a step of p.                           *)
LEMMA OthersStand ==
  ASSUME NEW p \in Procs, NEW q \in Procs, q # p, Minds(p), Account(q)
  PROVE  Account(q)'
<1>1. ExePath(q)' = ExePath(q) /\ (KeepExecutable(q)' <=> KeepExecutable(q))
  BY DEF ExePath, KeepExecutable, ValueOr, Minds
<1>2. /\ stage'[q] = stage[q] /\ exit'[q] = exit[q] /\ future'[q] = future[q]
      /\ moment'[q] = moment[q] /\ ran'[q] = ran[q] /\ wrote'[q] = wrote[q]
  BY DEF Minds
<1>3. Unshared(q)' => Unshared(q) /\ ExePath(q) \notin Names(p)'
  <2>1. Names(p)' \subseteq OtherNames(q)'
    BY DEF OtherNames, Names, Minds
  <2>2. OtherNames(q) \subseteq OtherNames(q)'
    <3>1. SUFFICES ASSUME NEW r \in Procs \ {q}, NEW w \in wrote[r]
                   PROVE  w[1] \in OtherNames(q)'
      BY DEF OtherNames
    <3>2. w \in wrote'[r] /\ r \in Procs' \ {q}
      BY <3>1 DEF Minds
    <3> QED
      BY <3>2 DEF OtherNames
  <2> QED
    BY <1>1, <2>1, <2>2 DEF Unshared
<1>4. Unshared(q)' => (Remains(q)' <=> Remains(q))
  BY <1>1, <1>3 DEF Remains, Minds
<1>5. faults' = 0 => faults = 0
  BY DEF Minds
<1>6. Clocked(q)'
  BY <1>2 DEF Account, Clocked
<1>7. Written(q)'
  BY <1>1, <1>2 DEF Account, Written
<1>8. Kept(q)'
  BY <1>1, <1>2, <1>3, <1>4, <1>5 DEF Account, Kept
<1> QED
  BY <1>6, <1>7, <1>8 DEF Account

(* So a step need only be shown to keep the account of its own invocation. *)
LEMMA OneAtATime ==
  ASSUME BInv, NEW p \in Procs, Minds(p), Typed', Traced', Account(p)'
  PROVE  BInv'
<1>1. SUFFICES ASSUME NEW q \in Procs, q # p PROVE Account(q)'
  BY DEF BInv, Minds
<1> QED
  BY <1>1, OthersStand DEF BInv

(* Writing a file keeps every file traced, and disturbs no other.          *)
LEMMA PutFileFacts ==
  ASSUME Typed, Traced, NEW p \in Procs, NEW name, NEW content, content.by = p,
         UNCHANGED argv, PutFile(p, name, content)
  PROVE  /\ Traced'
         /\ wrote' = [q \in Procs |-> IF q = p THEN wrote[p] \cup {<<name, content>>} ELSE wrote[q]]
         /\ Names(p)' = Names(p) \cup {name}
         /\ DOMAIN disk' = DOMAIN disk \cup {name}
<1>1. wrote' = [q \in Procs |-> IF q = p THEN wrote[p] \cup {<<name, content>>} ELSE wrote[q]]
  BY DEF PutFile, Typed
<1>2. disk' = [f \in DOMAIN disk \cup {name} |-> IF f = name THEN content ELSE disk[f]]
  BY DEF PutFile, Bind
<1>3. Procs' = Procs
  BY DEF Procs
<1>4. Names(p)' = Names(p) \cup {name}
  <2>1. wrote'[p] = wrote[p] \cup {<<name, content>>}
    BY <1>1
  <2>2. <<name, content>>[1] = name
    OBVIOUS
  <2> QED
    BY <2>1, <2>2 DEF Names
<1>5. \A q \in Procs : wrote[q] \subseteq wrote'[q]
  BY <1>1
<1>6. ASSUME NEW f \in DOMAIN disk', f \notin Inputs
      PROVE  \E q \in Procs : <<f, disk'[f]>> \in wrote'[q]
  <2>1. CASE f = name
    BY <1>1, <1>2, <2>1
  <2>2. CASE f # name
    <3>1. f \in DOMAIN disk /\ disk'[f] = disk[f]
      BY <1>2, <1>6, <2>2
    <3> QED
      BY <1>5, <1>6, <3>1 DEF Traced
  <2> QED
    BY <2>1, <2>2
<1>7. ASSUME NEW q \in Procs, NEW w \in wrote'[q] PROVE w[2].by = q
  <2>1. w \in wrote[q] \/ (q = p /\ w = <<name, content>>)
    BY <1>1, <1>7
  <2> QED
    BY <2>1 DEF Traced
<1>8. Traced'
  BY <1>3, <1>6, <1>7 DEF Traced
<1> QED
  BY <1>1, <1>2, <1>4, <1>8

-----------------------------------------------------------------------------
(* What a step of main does that is not benchmark mode.                    *)
Compiles(p) ==
  /\ UNCHANGED argv
  /\ options' = [options EXCEPT ![p] = options'[p]]
  /\ stage' = [stage EXCEPT ![p] = stage'[p]] /\ exit' = [exit EXCEPT ![p] = exit'[p]]
  /\ stage[p] \notin Running \cup {"done"} /\ stage'[p] \notin Running
  /\ stage'[p] = "done" <=> exit'[p] # "none"
  /\ stage'[p] \in {"start", "benchmark"} => stage[p] = "start" /\ UNCHANGED wrote
  /\ \/ UNCHANGED <<disk, wrote>>
     \/ \E name, content : content.by = p /\ PutFile(p, name, content)

LEMMA CompilesKeeps ==
  ASSUME BInv, NEW p \in Procs, Compiles(p), UNCHANGED benchVars
  PROVE  BInv'
<1>1. Typed /\ Traced /\ Account(p)
  BY DEF BInv
<1>2. Procs' = Procs
  BY DEF Compiles, Procs
<1>3. /\ Traced'
      /\ wrote' = [q \in Procs |-> IF q = p THEN wrote'[p] ELSE wrote[q]]
      /\ wrote[p] \subseteq wrote'[p]
      /\ \A f : f \notin Names(p)' => (f \in DOMAIN disk' <=> f \in DOMAIN disk)
  <2>1. CASE UNCHANGED <<disk, wrote>>
    BY <1>1, <1>2, <2>1 DEF Traced, Typed
  <2>2. CASE \E name, content : content.by = p /\ PutFile(p, name, content)
    <3>1. PICK name, content : content.by = p /\ PutFile(p, name, content)
      BY <2>2
    <3>2. UNCHANGED argv
      BY DEF Compiles
    <3>3. /\ Traced'
          /\ wrote' = [q \in Procs |-> IF q = p THEN wrote[p] \cup {<<name, content>>} ELSE wrote[q]]
          /\ Names(p)' = Names(p) \cup {name}
          /\ DOMAIN disk' = DOMAIN disk \cup {name}
      BY <1>1, <3>1, <3>2, PutFileFacts DEF PutFile
    <3>4. wrote'[p] = wrote[p] \cup {<<name, content>>}
      BY <3>3
    <3> QED
      BY <3>3, <3>4
  <2> QED
    BY <2>1, <2>2 DEF Compiles
<1>4. /\ options' = [q \in Procs |-> IF q = p THEN options'[p] ELSE options[q]]
      /\ stage' = [q \in Procs |-> IF q = p THEN stage'[p] ELSE stage[q]]
      /\ exit' = [q \in Procs |-> IF q = p THEN exit'[p] ELSE exit[q]]
  BY <1>1 DEF Compiles, Typed
<1>5. UNCHANGED <<moment, future, ran, faults>>
  BY DEF benchVars
<1>6. Minds(p)
  BY <1>2, <1>3, <1>4, <1>5 DEF Minds
<1>7. Typed'
  <2>1. stage' = [q \in Procs |-> stage'[q]] /\ exit' = [q \in Procs |-> exit'[q]]
    BY <1>4
  <2>2. options' = [q \in Procs |-> options'[q]] /\ wrote' = [q \in Procs |-> wrote'[q]]
    BY <1>3, <1>4
  <2> QED
    BY <1>1, <1>2, <1>5, <2>1, <2>2 DEF Typed
<1>8. moment'[p] = 0
  BY <1>1, <1>5 DEF Compiles, Account, Clocked
<1>9. Account(p)'
  <2>1. Clocked(p)'
    <3>1. stage'[p] \in {"start", "benchmark"} => wrote'[p] = {}
      <4>1. stage[p] \in {"start", "benchmark"} => wrote[p] = {}
        BY <1>1 DEF Account, Clocked
      <4>2. stage'[p] \in {"start", "benchmark"} => stage[p] = "start" /\ wrote' = wrote
        BY DEF Compiles
      <4> QED
        BY <4>1, <4>2
    <3> QED
      BY <1>8, <3>1 DEF Compiles, Clocked
  <2>2. Written(p)' /\ Kept(p)'
    BY <1>8 DEF Written, Kept
  <2> QED
    BY <2>1, <2>2 DEF Account
<1> QED
  BY <1>1, <1>3, <1>6, <1>7, <1>9, OneAtATime

(* Every step of main outside benchmark mode is of that kind.              *)
LEMMA EmitCompiles ==
  ASSUME Typed, NEW p \in Procs, NEW name, NEW content, NEW next,
         content.by = p, Emit(p, name, content, next),
         exit[p] = "none", stage[p] \notin Running \cup {"done", "start"},
         next \notin Running \cup {"start", "benchmark"}
  PROVE  Compiles(p)
<1>1. /\ stage = [q \in Procs |-> stage[q]] /\ exit = [q \in Procs |-> exit[q]]
      /\ options = [q \in Procs |-> options[q]]
  BY DEF Typed
<1>2. UNCHANGED argv /\ options' = [options EXCEPT ![p] = options'[p]]
  BY <1>1 DEF Emit
<1>3. CASE PutFile(p, name, content) /\ IF next = "done" THEN End(p, "ok") ELSE Goto(p, next)
  BY <1>1, <1>2, <1>3 DEF End, Goto, Compiles, Running, Recording
<1>4. CASE Fails(p) /\ UNCHANGED <<disk, wrote>>
  BY <1>1, <1>2, <1>4 DEF Fails, End, Compiles, Running, Recording
<1> QED
  BY <1>3, <1>4 DEF Emit

LEMMA DriverCompiles ==
  ASSUME BInv, NEW p \in Procs, DriverStep(p)
  PROVE  Compiles(p)
<1>1. /\ stage = [q \in Procs |-> stage[q]] /\ exit = [q \in Procs |-> exit[q]]
      /\ options = [q \in Procs |-> options[q]]
  BY DEF BInv, Typed
<1>2. stage[p] # "done" => exit[p] = "none"
  BY DEF BInv, Account, Clocked
<1>3. \A kind, arch : Artifact(p, kind, arch).by = p
  BY DEF Artifact
<1>4. CASE ParseCli(p)
  BY <1>1, <1>2, <1>4 DEF ParseCli, At, Fails, End, Goto, Compiles, Running, Recording
<1>5. CASE PrintSupportedTargets(p)
  BY <1>1, <1>2, <1>5 DEF PrintSupportedTargets, At, End, Compiles, Running, Recording
<1>6. CASE SelectTarget(p)
  <2>1. PICK s : IF s = {} THEN Fails(p) ELSE Goto(p, "frontend")
    BY <1>6 DEF SelectTarget
  <2>2. At(p, "select") /\ UNCHANGED <<argv, options, disk, wrote>>
    BY <1>6 DEF SelectTarget
  <2> QED
    BY <1>1, <1>2, <2>1, <2>2 DEF At, Fails, End, Goto, Compiles, Running, Recording
<1>7. CASE RunFrontend(p)
  <2>1. At(p, "frontend") /\ UNCHANGED <<argv, options, disk, wrote>>
    BY <1>7 DEF RunFrontend
  <2>2. Fails(p) \/ \E s \in {"bootstrap", "native", "vir", "llvm"} : Goto(p, s)
    BY <1>7 DEF RunFrontend
  <2>3. CASE Fails(p)
    BY <1>1, <1>2, <2>1, <2>3 DEF At, Fails, End, Compiles, Running, Recording
  <2>4. CASE \E s \in {"bootstrap", "native", "vir", "llvm"} : Goto(p, s)
    BY <1>1, <1>2, <2>1, <2>4 DEF At, Goto, Compiles, Running, Recording
  <2> QED
    BY <2>2, <2>3, <2>4
<1>8. CASE GenerateCpp(p) \/ RunCxx(p) \/ CompileNative(p) \/ EmitVir(p) \/ EmitLlvm(p)
  <2>1. stage[p] \in {"bootstrap", "link", "native", "vir", "llvm"}
    BY <1>8 DEF GenerateCpp, RunCxx, CompileNative, EmitVir, EmitLlvm, At
  <2>2. \E name, content : \E next \in {"done", "link", "llvm"} :
          content.by = p /\ Emit(p, name, content, next)
    <3>1. CASE GenerateCpp(p)
      BY <1>3, <3>1 DEF GenerateCpp
    <3>2. CASE RunCxx(p)
      BY <1>3, <3>2 DEF RunCxx
    <3>3. CASE CompileNative(p)
      BY <1>3, <3>3 DEF CompileNative
    <3>4. CASE EmitVir(p)
      BY <1>3, <3>4 DEF EmitVir
    <3>5. CASE EmitLlvm(p)
      BY <1>3, <3>5 DEF EmitLlvm
    <3> QED
      BY <1>8, <3>1, <3>2, <3>3, <3>4, <3>5
  <2>3. PICK name, content : \E next \in {"done", "link", "llvm"} :
          content.by = p /\ Emit(p, name, content, next)
    BY <2>2
  <2>6. PICK next \in {"done", "link", "llvm"} : content.by = p /\ Emit(p, name, content, next)
    BY <2>3
  <2>4. /\ next \notin Running \cup {"start", "benchmark"}
        /\ exit[p] = "none" /\ stage[p] \notin Running \cup {"done", "start"}
    BY <1>2, <2>1 DEF Running, Recording
  <2>5. Typed
    BY DEF BInv
  <2> QED
    BY <2>4, <2>5, <2>6, EmitCompiles
<1> QED
  BY <1>4, <1>5, <1>6, <1>7, <1>8 DEF DriverStep

LEMMA DriverKeeps ==
  ASSUME BInv, NEW p \in Procs, DriverStep(p), UNCHANGED benchVars
  PROVE  BInv'
BY DriverCompiles, CompilesKeeps

-----------------------------------------------------------------------------
(* What a step of benchmark mode does: it changes what belongs to p, and   *)
(* writes or removes the executable of p, or neither.                      *)
Measures(p) ==
  /\ UNCHANGED <<argv, options>>
  /\ stage' = [stage EXCEPT ![p] = stage'[p]] /\ exit' = [exit EXCEPT ![p] = exit'[p]]
  /\ future' = [future EXCEPT ![p] = future'[p]] /\ moment' = [moment EXCEPT ![p] = moment'[p]]
  /\ ran' = [ran EXCEPT ![p] = ran'[p]]
  /\ faults' \in Nat /\ (faults' = 0 => faults = 0)
  /\ \/ UNCHANGED <<disk, wrote>>
     \/ \E content : content.by = p /\ PutFile(p, ExePath(p), content)
     \/ /\ stage[p] = "cleanup" /\ UNCHANGED wrote
        /\ disk' = Restrict(disk, DOMAIN disk \ {ExePath(p)})

LEMMA MeasuresKeeps ==
  ASSUME BInv, NEW p \in Procs, Measures(p), Account(p)'
  PROVE  BInv'
<1>1. Typed /\ Traced /\ Account(p)
  BY DEF BInv
<1>2. Procs' = Procs
  BY DEF Measures, Procs
<1>3. /\ Traced'
      /\ wrote' = [q \in Procs |-> IF q = p THEN wrote'[p] ELSE wrote[q]]
      /\ wrote[p] \subseteq wrote'[p]
      /\ \A f : f \notin Names(p)' => (f \in DOMAIN disk' <=> f \in DOMAIN disk)
  <2>1. CASE UNCHANGED <<disk, wrote>>
    BY <1>1, <1>2, <2>1 DEF Traced, Typed
  <2>2. CASE \E content : content.by = p /\ PutFile(p, ExePath(p), content)
    <3>1. PICK content : content.by = p /\ PutFile(p, ExePath(p), content)
      BY <2>2
    <3>2. UNCHANGED argv
      BY DEF Measures
    <3>3. PICK name : name = ExePath(p)
      OBVIOUS
    <3>4. PutFile(p, name, content) /\ content.by = p
      BY <3>1, <3>3 DEF PutFile
    <3>5. /\ Traced'
          /\ wrote' = [q \in Procs |-> IF q = p THEN wrote[p] \cup {<<name, content>>} ELSE wrote[q]]
          /\ Names(p)' = Names(p) \cup {name}
          /\ DOMAIN disk' = DOMAIN disk \cup {name}
      BY <1>1, <3>2, <3>4, PutFileFacts DEF PutFile
    <3>6. wrote'[p] = wrote[p] \cup {<<name, content>>}
      BY <3>5
    <3> QED
      BY <3>5, <3>6
  <2>3. CASE /\ stage[p] = "cleanup" /\ wrote' = wrote
             /\ disk' = Restrict(disk, DOMAIN disk \ {ExePath(p)})
    <3>1. disk' = [f \in DOMAIN disk \ {ExePath(p)} |-> disk[f]]
      BY <2>3 DEF Restrict
    <3>2. Traced'
      BY <1>1, <1>2, <2>3, <3>1 DEF Traced
    <3>3. ExePath(p) \in Names(p)'
      <4>1. moment[p] # 0 /\ wrote[p] # {}
        BY <1>1, <2>3 DEF Account, Clocked, Written, Running, Recording
      <4>2. PICK w \in wrote[p] : w[1] = ExePath(p)
        BY <1>1, <4>1 DEF Account, Written
      <4> QED
        BY <2>3, <4>2 DEF Names
    <3>4. wrote' = [q \in Procs |-> IF q = p THEN wrote'[p] ELSE wrote[q]] /\ wrote[p] \subseteq wrote'[p]
      BY <1>1, <2>3 DEF Typed
    <3>5. \A f : f \notin Names(p)' => (f \in DOMAIN disk' <=> f \in DOMAIN disk)
      BY <3>1, <3>3
    <3> QED
      BY <3>2, <3>4, <3>5
  <2> QED
    BY <2>1, <2>2, <2>3 DEF Measures
<1>4. /\ stage' = [q \in Procs |-> IF q = p THEN stage'[p] ELSE stage[q]]
      /\ exit' = [q \in Procs |-> IF q = p THEN exit'[p] ELSE exit[q]]
      /\ future' = [q \in Procs |-> IF q = p THEN future'[p] ELSE future[q]]
      /\ moment' = [q \in Procs |-> IF q = p THEN moment'[p] ELSE moment[q]]
      /\ ran' = [q \in Procs |-> IF q = p THEN ran'[p] ELSE ran[q]]
  BY <1>1 DEF Measures, Typed
<1>5. options' = options /\ faults' \in Nat /\ (faults' = 0 => faults = 0)
  BY DEF Measures
<1>6. Minds(p)
  BY <1>2, <1>3, <1>4, <1>5 DEF Minds
<1>7. Typed'
  <2>1. /\ stage' = [q \in Procs |-> stage'[q]] /\ exit' = [q \in Procs |-> exit'[q]]
        /\ future' = [q \in Procs |-> future'[q]] /\ moment' = [q \in Procs |-> moment'[q]]
        /\ ran' = [q \in Procs |-> ran'[q]] /\ wrote' = [q \in Procs |-> wrote'[q]]
    BY <1>3, <1>4
  <2> QED
    BY <1>1, <1>2, <1>5, <2>1 DEF Typed
<1> QED
  BY <1>1, <1>3, <1>6, <1>7, OneAtATime

(* An executable of an unshared name can only have been written by p; so   *)
(* there is none before p has compiled, and what p finds is its own.       *)
LEMMA OnlyMine ==
  ASSUME Traced, NEW p \in Procs, Unshared(p), Remains(p)
  PROVE  wrote[p] # {} /\ disk[ExePath(p)].by = p
<1>1. PICK q \in Procs : <<ExePath(p), disk[ExePath(p)]>> \in wrote[q]
  BY DEF Traced, Unshared, Remains
<1>2. q = p
  <2>1. SUFFICES ASSUME q # p PROVE FALSE
    OBVIOUS
  <2>2. <<ExePath(p), disk[ExePath(p)]>>[1] \in {w[1] : w \in wrote[q]}
    BY <1>1
  <2> QED
    BY <2>1, <2>2 DEF OtherNames, Unshared
<1> QED
  BY <1>1, <1>2 DEF Traced

(* The name of the executable is fixed once the clock is read.             *)
LEMMA SameExe ==
  ASSUME NEW p, UNCHANGED options, moment'[p] = moment[p]
  PROVE  ExePath(p)' = ExePath(p) /\ (KeepExecutable(p)' <=> KeepExecutable(p))
BY DEF ExePath, KeepExecutable, ValueOr

(* A name shared with nobody after a step of p was so before it.           *)
LEMMA UnsharedBefore ==
  ASSUME Typed, NEW p \in Procs, Measures(p), moment'[p] = moment[p], Unshared(p)'
  PROVE  Unshared(p)
<1>1. ExePath(p)' = ExePath(p) /\ Procs' = Procs
  BY SameExe DEF Measures, Procs
<1>2. \A q \in Procs \ {p} : wrote'[q] = wrote[q]
  BY DEF Measures, PutFile, Typed
<1>3. OtherNames(p) = OtherNames(p)'
  BY <1>1, <1>2 DEF OtherNames
<1> QED
  BY <1>1, <1>3 DEF Unshared

-----------------------------------------------------------------------------
(* The steps, one by one.                                                  *)
LEMMA StartKeeps ==
  ASSUME BInv, NEW p \in Procs, StartBenchmark(p)
  PROVE  BInv'
<1>1. Typed /\ Traced /\ Account(p)
  BY DEF BInv
<1>2. /\ stage[p] = "benchmark" /\ stage'[p] = "compiling" /\ exit'[p] = exit[p]
      /\ moment'[p] \in Moments /\ future'[p] = "running"
      /\ UNCHANGED <<argv, options, disk, wrote, ran, faults>>
  BY <1>1 DEF StartBenchmark, At, Goto, Typed
<1>3. Measures(p)
  BY <1>1, <1>2 DEF StartBenchmark, Goto, Measures, Typed
<1>4. wrote[p] = {} /\ exit[p] = "none"
  BY <1>1, <1>2 DEF Account, Clocked
<1>5. Clocked(p)'
  BY <1>2, <1>4, MomentsAssumption DEF Clocked, Running
<1>6. Written(p)'
  BY <1>2, <1>4 DEF Written, Recording
<1>7. Kept(p)'
  <2>1. Traced' /\ Procs' = Procs /\ wrote'[p] = {}
    BY <1>1, <1>2, <1>4 DEF Traced, Procs
  <2>2. Unshared(p)' => ~Remains(p)'
    <3>1. SUFFICES ASSUME Unshared(p)', Remains(p)' PROVE FALSE
      OBVIOUS
    <3>2. PICK q \in Procs : <<ExePath(p)', disk'[ExePath(p)']>> \in wrote'[q]
      BY <2>1, <3>1 DEF Traced, Unshared, Remains
    <3>3. q # p
      BY <2>1, <3>2
    <3>4. <<ExePath(p)', disk'[ExePath(p)']>>[1] \in {w[1] : w \in wrote'[q]}
      BY <3>2
    <3> QED
      BY <2>1, <3>1, <3>3, <3>4 DEF OtherNames, Unshared
  <2> QED
    BY <1>2, <1>4, <2>1, <2>2 DEF Kept, Recording
<1> QED
  BY <1>3, <1>5, <1>6, <1>7, MeasuresKeeps DEF Account

LEMMA CompileOpKeeps ==
  ASSUME BInv, NEW p \in Procs, CompileOp(p)
  PROVE  BInv'
<1>1. Typed /\ Traced /\ Account(p)
  BY DEF BInv
<1>2. /\ stage[p] = "compiling" /\ future[p] = "running"
      /\ UNCHANGED <<argv, options, stage, exit, moment, ran, faults>>
  BY DEF CompileOp, At
<1>3. moment[p] # 0 /\ wrote[p] = {} /\ exit[p] = "none"
  BY <1>1, <1>2 DEF Account, Clocked, Written, Running
<1>4. ExePath(p)' = ExePath(p) /\ (KeepExecutable(p)' <=> KeepExecutable(p))
  BY <1>2, SameExe
<1>5. CASE /\ PutFile(p, ExePath(p), Artifact(p, "pe", "X64"))
           /\ future' = [future EXCEPT ![p] = "value"]
  <2>1. /\ wrote'[p] = {<<ExePath(p), Artifact(p, "pe", "X64")>>}
        /\ ExePath(p) \in DOMAIN disk' /\ future'[p] = "value"
    BY <1>1, <1>3, <1>5 DEF PutFile, Bind, Typed
  <2>2. Artifact(p, "pe", "X64").by = p
    BY DEF Artifact
  <2>3. Measures(p)
    BY <1>1, <1>2, <1>5, <2>1, <2>2 DEF Measures, Typed
  <2>4. Clocked(p)'
    BY <1>1, <1>2, <2>1 DEF Account, Clocked
  <2>5. Written(p)'
    BY <1>2, <1>4, <2>1 DEF Written, Recording
  <2>6. Kept(p)'
    BY <1>2, <1>3, <1>4, <2>1 DEF Kept, Remains, Recording
  <2> QED
    BY <2>3, <2>4, <2>5, <2>6, MeasuresKeeps DEF Account
<1>6. CASE /\ future' = [future EXCEPT ![p] = "exception"]
           /\ UNCHANGED <<disk, wrote>>
  <2>1. future'[p] = "exception"
    BY <1>1, <1>6 DEF Typed
  <2>2. Measures(p)
    BY <1>1, <1>2, <1>6, <2>1 DEF Measures, Typed
  <2>3. Clocked(p)'
    BY <1>1, <1>2, <1>6 DEF Account, Clocked
  <2>4. Written(p)'
    BY <1>2, <1>3, <1>6, <2>1 DEF Written, Recording
  <2>5. Kept(p)'
    <3>1. Unshared(p)' => Unshared(p)
      BY <1>1, <1>2, <2>2, UnsharedBefore
    <3>2. Remains(p)' <=> Remains(p)
      BY <1>4, <1>6 DEF Remains
    <3> QED
      BY <1>1, <1>2, <1>3, <1>6, <3>1, <3>2 DEF Account, Kept, Running, Recording
  <2> QED
    BY <2>2, <2>3, <2>4, <2>5, MeasuresKeeps DEF Account
<1> QED
  BY <1>5, <1>6 DEF CompileOp

(* A step that writes and removes nothing.                                 *)
LEMMA StillKeeps ==
  ASSUME BInv, NEW p \in Procs, Measures(p), UNCHANGED <<moment, disk, wrote>>,
         stage[p] \in Running, stage'[p] \in Running \cup {"done"},
         stage'[p] = "done" <=> exit'[p] # "none",
         stage'[p] # "compiling",
         stage'[p] \in {"benchmarking"} \cup Recording => wrote[p] # {},
         Unshared(p) => /\ stage'[p] = "benchmarking" /\ future'[p] = "value" => ran'[p] = p
                        /\ stage'[p] \in Recording => ran'[p] = p,
         exit'[p] # "ok"
  PROVE  BInv'
<1>1. Typed /\ Traced /\ Account(p)
  BY DEF BInv
<1>2. /\ ExePath(p)' = ExePath(p) /\ (KeepExecutable(p)' <=> KeepExecutable(p))
      /\ moment'[p] = moment[p] /\ wrote'[p] = wrote[p] /\ disk' = disk
  BY SameExe DEF Measures
<1>3. Unshared(p)' => Unshared(p)
  BY <1>1, <1>2, UnsharedBefore
<1>4. Clocked(p)'
  BY <1>1, <1>2 DEF Account, Clocked, Running, Recording
<1>5. Written(p)'
  BY <1>1, <1>2 DEF Account, Written
<1>6. Kept(p)'
  <2>1. Remains(p)' <=> Remains(p)
    BY <1>2 DEF Remains
  <2>2. moment[p] # 0 /\ Unshared(p) => (Remains(p) <=> wrote[p] # {})
    BY <1>1 DEF Account, Kept
  <2> QED
    BY <1>2, <1>3, <2>1, <2>2 DEF Kept
<1> QED
  BY <1>4, <1>5, <1>6, MeasuresKeeps DEF Account

LEMMA CompiledKeeps ==
  ASSUME BInv, NEW p \in Procs, Compiled(p)
  PROVE  BInv'
<1>1. Typed /\ Traced /\ Account(p)
  BY DEF BInv
<1>2. /\ stage[p] = "compiling" /\ future[p] \in {"value", "exception"}
      /\ UNCHANGED <<argv, options, disk, wrote, moment, ran, faults>>
  BY DEF Compiled, At
<1>3. exit[p] = "none" /\ (wrote[p] # {} <=> future[p] = "value")
  BY <1>1, <1>2 DEF Account, Clocked, Written, Running
<1>4. CASE future[p] = "exception"
  <2>1. Fails(p) /\ UNCHANGED future
    BY <1>4 DEF Compiled
  <2>2. stage'[p] = "done" /\ exit'[p] = "error"
    BY <1>1, <2>1 DEF Fails, End, Typed
  <2>3. Measures(p)
    BY <1>1, <1>2, <2>1, <2>2 DEF Fails, End, Measures, Typed
  <2> QED
    BY <1>2, <2>2, <2>3, StillKeeps DEF Running, Recording
<1>5. CASE future[p] # "exception"
  <2>1. Goto(p, "benchmarking") /\ future' = [future EXCEPT ![p] = "running"]
    BY <1>5 DEF Compiled
  <2>2. stage'[p] = "benchmarking" /\ exit'[p] = "none" /\ future'[p] = "running"
    BY <1>1, <1>3, <2>1 DEF Goto, Typed
  <2>3. Measures(p)
    BY <1>1, <1>2, <2>1, <2>2 DEF Goto, Measures, Typed
  <2>4. wrote[p] # {}
    BY <1>2, <1>3, <1>5
  <2> QED
    BY <1>2, <2>2, <2>3, <2>4, StillKeeps DEF Running, Recording
<1> QED
  BY <1>4, <1>5

LEMMA BenchmarkOpKeeps ==
  ASSUME BInv, NEW p \in Procs, BenchmarkOp(p)
  PROVE  BInv'
<1>1. Typed /\ Traced /\ Account(p)
  BY DEF BInv
<1>2. /\ stage[p] = "benchmarking" /\ future[p] = "running"
      /\ UNCHANGED <<argv, options, stage, exit, disk, wrote, moment, faults>>
  BY DEF BenchmarkOp, At, driverVars
<1>3. exit[p] = "none" /\ wrote[p] # {}
  BY <1>1, <1>2 DEF Account, Clocked, Written, Running
<1>4. CASE /\ ExePath(p) \in DOMAIN disk
           /\ ran' = [ran EXCEPT ![p] = disk[ExePath(p)].by]
           /\ future' = [future EXCEPT ![p] = "value"]
  <2>1. ran'[p] = disk[ExePath(p)].by
    BY <1>1, <1>4 DEF Typed
  <2>2. Unshared(p) => ran'[p] = p
    BY <1>1, <1>4, <2>1, OnlyMine DEF Remains
  <2>3. Measures(p)
    BY <1>1, <1>2, <1>4, <2>1 DEF Measures, Typed
  <2> QED
    BY <1>2, <1>3, <2>2, <2>3, StillKeeps DEF Running, Recording
<1>5. CASE /\ future' = [future EXCEPT ![p] = "exception"]
           /\ UNCHANGED ran
  <2>1. future'[p] = "exception"
    BY <1>1, <1>5 DEF Typed
  <2>2. Measures(p)
    BY <1>1, <1>2, <1>5, <2>1 DEF Measures, Typed
  <2> QED
    BY <1>2, <1>3, <2>1, <2>2, StillKeeps DEF Running, Recording
<1> QED
  BY <1>4, <1>5 DEF BenchmarkOp

LEMMA BenchmarkedKeeps ==
  ASSUME BInv, NEW p \in Procs, Benchmarked(p)
  PROVE  BInv'
<1>1. Typed /\ Traced /\ Account(p)
  BY DEF BInv
<1>2. /\ stage[p] = "benchmarking" /\ future[p] \in {"value", "exception"}
      /\ UNCHANGED <<argv, options, disk, wrote, moment, future, ran, faults>>
  BY DEF Benchmarked, At, benchVars
<1>3. exit[p] = "none" /\ wrote[p] # {} /\ moment[p] # 0
  BY <1>1, <1>2 DEF Account, Clocked, Written, Running
<1>4. CASE future[p] = "exception" /\ Fails(p)
  <2>1. stage'[p] = "done" /\ exit'[p] = "error"
    BY <1>1, <1>4 DEF Fails, End, Typed
  <2>2. Measures(p)
    BY <1>1, <1>2, <1>4, <2>1 DEF Fails, End, Measures, Typed
  <2> QED
    BY <1>2, <2>1, <2>2, StillKeeps DEF Running, Recording
<1>5. CASE future[p] # "exception" /\ Goto(p, "record")
  <2>1. stage'[p] = "record" /\ exit'[p] = "none"
    BY <1>1, <1>3, <1>5 DEF Goto, Typed
  <2>2. Measures(p)
    BY <1>1, <1>2, <1>5, <2>1 DEF Goto, Measures, Typed
  <2>3. Unshared(p) => ran'[p] = p
    BY <1>1, <1>2, <1>3, <1>5 DEF Account, Kept
  <2> QED
    BY <1>2, <1>3, <2>1, <2>2, <2>3, StillKeeps DEF Running, Recording
<1> QED
  BY <1>4, <1>5 DEF Benchmarked

(* What appendBenchmarkHistory does to the history concerns no executable. *)
LEMMA RecordKeeps ==
  ASSUME BInv, NEW p \in Procs, CheckHeader(p) \/ OpenHistory(p) \/ AppendHistory(p)
  PROVE  BInv'
<1>1. Typed /\ Traced /\ Account(p)
  BY DEF BInv
<1>2. /\ stage[p] \in {"record", "open", "append"}
      /\ Goto(p, "open") \/ Goto(p, "append") \/ Goto(p, "cleanup")
      /\ UNCHANGED <<argv, options, disk, wrote, moment, future, ran>>
  BY DEF CheckHeader, OpenHistory, AppendHistory, At
<1>3. faults' = faults \/ faults' = faults + 1
  BY DEF CheckHeader, OpenHistory, AppendHistory
<1>4. faults' \in Nat /\ (faults' = 0 => faults = 0)
  BY <1>1, <1>3 DEF Typed
<1>5. exit[p] = "none" /\ wrote[p] # {} /\ moment[p] # 0
  BY <1>1, <1>2 DEF Account, Clocked, Written, Running, Recording
<1>6. stage'[p] \in {"open", "append", "cleanup"} /\ exit' = exit
      /\ stage' = [stage EXCEPT ![p] = stage'[p]]
  BY <1>1, <1>2 DEF Goto, Typed
<1>7. Measures(p)
  BY <1>1, <1>2, <1>4, <1>6 DEF Measures, Typed
<1>8. Unshared(p) => ran'[p] = p
  BY <1>1, <1>2, <1>5 DEF Account, Kept, Recording
<1> QED
  BY <1>2, <1>5, <1>6, <1>7, <1>8, StillKeeps DEF Running, Recording

LEMMA CleanUpKeeps ==
  ASSUME BInv, NEW p \in Procs, CleanUp(p)
  PROVE  BInv'
<1>1. Typed /\ Traced /\ Account(p)
  BY DEF BInv
<1>2. /\ stage[p] = "cleanup" /\ End(p, "ok")
      /\ UNCHANGED <<argv, options, wrote, moment, future, ran>>
  BY DEF CleanUp, At
<1>3. stage'[p] = "done" /\ exit'[p] = "ok"
  BY <1>1, <1>2 DEF End, Typed
<1>4. \/ KeepExecutable(p) /\ disk' = disk /\ faults' = faults
      \/ ~KeepExecutable(p) /\ disk' = Restrict(disk, DOMAIN disk \ {ExePath(p)}) /\ faults' = faults
      \/ ~KeepExecutable(p) /\ faults' = faults + 1 /\ disk' = disk
  BY DEF CleanUp
<1>5. faults' \in Nat /\ (faults' = 0 => faults = 0 /\ faults' = faults)
  BY <1>1, <1>4 DEF Typed
<1>6. Measures(p)
  BY <1>1, <1>2, <1>3, <1>4, <1>5 DEF End, Measures, Typed
<1>7. /\ ExePath(p)' = ExePath(p) /\ (KeepExecutable(p)' <=> KeepExecutable(p))
      /\ moment[p] # 0 /\ wrote[p] # {}
  BY <1>1, <1>2, SameExe DEF Account, Clocked, Written, Running, Recording
<1>8. Unshared(p)' => ran'[p] = p /\ Remains(p)
  <2>1. Unshared(p)' => Unshared(p)
    BY <1>1, <1>2, <1>6, UnsharedBefore
  <2> QED
    BY <1>1, <1>2, <1>7, <2>1 DEF Account, Kept, Running, Recording
<1>9. Clocked(p)' /\ Written(p)'
  <2>1. Clocked(p)'
    BY <1>3 DEF Clocked, Running, Recording
  <2>2. Written(p)'
    BY <1>1, <1>2, <1>3, <1>7 DEF Account, Written, Recording
  <2> QED
    BY <2>1, <2>2
<1>10. Kept(p)'
  <2>1. KeepExecutable(p) => disk' = disk
    BY <1>4
  <2>2. ~KeepExecutable(p) /\ faults' = 0 => ~Remains(p)'
    <3>1. SUFFICES ASSUME ~KeepExecutable(p), faults' = 0 PROVE ~Remains(p)'
      OBVIOUS
    <3>2. disk' = Restrict(disk, DOMAIN disk \ {ExePath(p)})
      <4>1. faults' # faults + 1
        BY <1>1, <1>5, <3>1 DEF Typed
      <4> QED
        BY <1>4, <3>1, <4>1
    <3>3. DOMAIN disk' = DOMAIN disk \ {ExePath(p)}
      BY <3>2 DEF Restrict
    <3> QED
      BY <1>7, <3>3 DEF Remains
  <2>3. Unshared(p)' /\ KeepExecutable(p) => Remains(p)'
    BY <1>7, <1>8, <2>1 DEF Remains
  <2> QED
    BY <1>3, <1>7, <1>8, <2>2, <2>3 DEF Kept, Running, Recording
<1> QED
  BY <1>6, <1>9, <1>10, MeasuresKeeps DEF Account

(* A killed run leaves everything where it is.                             *)
LEMMA KillKeeps ==
  ASSUME BInv, NEW p \in Procs, Kill(p)
  PROVE  BInv'
<1>1. Typed /\ Traced /\ Account(p)
  BY DEF BInv
<1>2. /\ exit[p] = "none" /\ End(p, "killed") /\ faults' = faults + 1
      /\ UNCHANGED <<argv, options, disk, wrote, moment, future, ran>>
  BY DEF Kill
<1>3. stage'[p] = "done" /\ exit'[p] = "killed"
  BY <1>1, <1>2 DEF End, Typed
<1>4. faults' \in Nat /\ faults' # 0
  BY <1>1, <1>2 DEF Typed
<1>5. Measures(p)
  BY <1>1, <1>2, <1>3, <1>4 DEF End, Measures, Typed
<1>6. ExePath(p)' = ExePath(p)
  BY <1>2, SameExe
<1>7. Clocked(p)' /\ Kept(p)'
  BY <1>3 DEF Clocked, Kept, Running, Recording
<1>8. Written(p)'
  BY <1>1, <1>2, <1>3, <1>6 DEF Account, Written, Recording
<1> QED
  BY <1>5, <1>7, <1>8, MeasuresKeeps DEF Account

-----------------------------------------------------------------------------
LEMMA BInit == Init => BInv
<1> SUFFICES ASSUME Init PROVE BInv
  OBVIOUS
<1>1. /\ options = [p \in Procs |-> NoOptions] /\ stage = [p \in Procs |-> "start"]
      /\ disk = [f \in Inputs |-> Source] /\ wrote = [p \in Procs |-> {}]
      /\ exit = [p \in Procs |-> "none"]
  BY DEF Init, DriverInit
<1>2. /\ moment = [p \in Procs |-> 0] /\ future = [p \in Procs |-> "none"]
      /\ ran = [p \in Procs |-> ""]
  BY DEF Init
<1>3. faults \in Nat
  BY HistoriesAssumption DEF Init
<1>4. Typed
  BY <1>1, <1>2, <1>3 DEF Typed
<1>5. Traced
  BY <1>1 DEF Traced
<1>6. ASSUME NEW p \in Procs PROVE Account(p)
  BY <1>1, <1>2 DEF Account, Clocked, Written, Kept, Running, Recording
<1> QED
  BY <1>4, <1>5, <1>6 DEF BInv

LEMMA BNext == BInv /\ [Next]_vars => BInv'
<1> SUFFICES ASSUME BInv, [Next]_vars PROVE BInv'
  OBVIOUS
<1>1. CASE UNCHANGED vars
  <2>1. /\ UNCHANGED <<argv, options, stage, disk, wrote, exit>>
        /\ UNCHANGED <<moment, future, ran, faults>>
    BY <1>1 DEF vars, driverVars, benchVars
  <2>2. Procs' = Procs
    BY <2>1 DEF Procs
  <2>3. Typed' /\ Traced'
    BY <2>1, <2>2 DEF BInv, Typed, Traced
  <2>4. ASSUME NEW p \in Procs PROVE Account(p)'
    <3>1. ExePath(p)' = ExePath(p) /\ (KeepExecutable(p)' <=> KeepExecutable(p))
      BY <2>1, SameExe
    <3>2. OtherNames(p)' = OtherNames(p)
      BY <2>1, <2>2 DEF OtherNames
    <3>3. Account(p)
      BY DEF BInv
    <3>4. Clocked(p)' /\ Written(p)'
      BY <2>1, <3>1, <3>3 DEF Account, Clocked, Written
    <3>5. (Unshared(p)' <=> Unshared(p)) /\ (Remains(p)' <=> Remains(p))
      BY <2>1, <3>1, <3>2 DEF Unshared, Remains
    <3>6. Kept(p)'
      BY <2>1, <3>1, <3>3, <3>5 DEF Account, Kept
    <3> QED
      BY <3>4, <3>6 DEF Account
  <2> QED
    BY <2>2, <2>3, <2>4 DEF BInv
<1>2. CASE Next
  <2>1. CASE Rest
    BY <1>1, <2>1 DEF Rest
  <2>2. ASSUME NEW p \in Procs, Step(p) \/ Kill(p) PROVE BInv'
    <3>1. CASE DriverStep(p) /\ UNCHANGED benchVars
      BY <3>1, DriverKeeps
    <3>2. CASE BenchmarkStep(p)
      BY <3>2, StartKeeps, CompileOpKeeps, CompiledKeeps, BenchmarkOpKeeps, BenchmarkedKeeps,
         RecordKeeps, CleanUpKeeps DEF BenchmarkStep
    <3>3. CASE Kill(p)
      BY <3>3, KillKeeps
    <3> QED
      BY <2>2, <3>1, <3>2, <3>3 DEF Step
  <2> QED
    BY <1>2, <2>1, <2>2 DEF Next
<1> QED
  BY <1>1, <1>2

LEMMA BAccounts == BInv => ExecutablesAreAccounted
<1> SUFFICES ASSUME BInv, NEW p \in Procs, moment[p] # 0, Unshared(p)
             PROVE  /\ stage[p] \in Recording => ran[p] = p
                    /\ exit[p] = "ok" =>
                         /\ ran[p] = p
                         /\ KeepExecutable(p) => Remains(p)
                         /\ ~KeepExecutable(p) /\ faults = 0 => ~Remains(p)
                    /\ exit[p] = "error" => (Remains(p) <=> wrote[p] # {})
  BY DEF ExecutablesAreAccounted, Unshared, Recording, Remains
<1> QED
  BY DEF BInv, Account, Kept

(* A run measures the program it has compiled itself.  One that ends well  *)
(* leaves its executable exactly when -o names it, one that fails leaves   *)
(* it exactly when the compilation got that far, whatever the other        *)
(* invocations do in between, provided that none writes to the same name   *)
(* (runBenchmarkMode).                                                     *)
THEOREM Accounted == Spec => []ExecutablesAreAccounted
<1>1. BInv /\ [Next]_vars => BInv'
  BY BNext
<1> QED
  BY BInit, <1>1, BAccounts, PTL DEF Spec

-----------------------------------------------------------------------------
(* What parseCliOptions makes of the first n arguments: a flag that waits  *)
(* for its value is the last argument, every value follows its flag, and   *)
(* every input and value is an argument.                                   *)
ParsedUpTo(args, n, s) ==
  s.flag # Refused =>
    /\ s.flag # NoFlag => n \in 1 .. Len(args) /\ args[n][1] = s.flag /\ s.flag \in ValueFlags
    /\ \A f \in DOMAIN s.options.value :
         /\ f \in ValueFlags
         /\ \E i \in 2 .. n : args[i - 1][1] = f /\ args[i] = s.options.value[f]
    /\ "--emit" \in DOMAIN s.options.value => BinaryFormats(s.options.value["--emit"][1]) # {}
    /\ \A i \in DOMAIN s.options.inputs : \E j \in 1 .. n : args[j] = s.options.inputs[i]

(* What is known of the options once they are accepted.                    *)
OptionsFit(args, o) ==
  /\ Coherent(o)
  /\ \A f \in DOMAIN o.value :
       f \in ValueFlags /\ \E i \in 2 .. Len(args) : args[i - 1][1] = f /\ args[i] = o.value[f]
  /\ "--emit" \in DOMAIN o.value => AskedFormats(o) # {}
  /\ o.inputs # << >> => \E j \in 1 .. Len(args) : args[j] = o.inputs[1]
  /\ o.on \subseteq Switches

Listings == {"--list-targets", "--list-all-targets"}
Compiling == {"frontend", "bootstrap", "link", "native", "vir", "llvm"}

(* Main takes the branch that the options ask for.                         *)
Branched(p) ==
  /\ stage[p] = "start" => options[p] = NoOptions
  /\ stage[p] \in {"benchmark"} \cup Running =>
       /\ OptionsFit(argv[p], options[p])
       /\ options[p].on \cap Listings = {} /\ "--benchmark" \in options[p].on
  /\ stage[p] \in {"select"} \cup Compiling \/ selection[p] # {} =>
       /\ OptionsFit(argv[p], options[p])
       /\ options[p].on \cap (Listings \cup {"--benchmark"}) = {}
  /\ stage[p] \in {"bootstrap", "link"} => "--bootstrap-cpp" \in options[p].on
  /\ stage[p] \in {"native", "vir", "llvm"} => "--bootstrap-cpp" \notin options[p].on
  /\ stage[p] = "link" => "--no-link" \notin options[p].on
  /\ stage[p] = "native" => options[p].on \cap {"--emit-vir", "--emit-llvm"} = {}
  /\ stage[p] = "vir" => "--emit-vir" \in options[p].on
  /\ stage[p] = "llvm" => "--emit-llvm" \in options[p].on

(* What has been selected fits the request, and is there when it is used.  *)
Selected(p) ==
  /\ selection[p] # {} =>
       /\ stage[p] \in Compiling \cup {"done"}
       /\ selection[p] = Selections(SelectedTriple(options[p]), AskedFormats(options[p]))
  /\ stage[p] \in Compiling => selection[p] # {}

(* What an invocation has written so far, and what that is at the end.     *)
Kinds(p) == {w[2].kind : w \in wrote[p]}

Produced(p) ==
  /\ stage[p] \in {"start", "list", "select", "frontend", "bootstrap", "native", "vir"} => wrote[p] = {}
  /\ stage[p] = "link" => Kinds(p) = {"cpp"}
  /\ stage[p] = "llvm" => Kinds(p) = (IF "--emit-vir" \in options[p].on THEN {"vir"} ELSE {})
  /\ selection[p] # {} => Kinds(p) \subseteq {"cpp", "cxx", "vir", "llvm", Chosen(p).format}
  /\ selection[p] # {} /\ exit[p] = "ok" => Kinds(p) = Wanted(p)

(* No name that is written to is a .vlt file, but for the two exceptions.  *)
Spares(f) == f \in NamedOutputs \cup Stems \/ Last(f) # "vlt"

(* A triple that was refused has no selection.                             *)
Declined(p) ==
  exit[p] = "error" /\ DOMAIN options[p].value = {"--target"} /\ selection[p] = {}
    => Selections(options[p].value["--target"], {}) = {}

Report(p) ==
  Branched(p) /\ Selected(p) /\ Produced(p) /\ Declined(p) /\ \A w \in wrote[p] : Spares(w[1])

(* What has been written is there or has been replaced, unless it has the  *)
(* name of a temporary executable.                                         *)
Findable ==
  \A p \in Procs : \A w \in wrote[p] : w[1] \notin Temporaries =>
    w[1] \in DOMAIN disk /\ \E q \in Procs : <<w[1], disk[w[1]]>> \in wrote[q]

SourcesSafe == \A f \in Inputs : Spares(f) \/ (f \in DOMAIN disk /\ disk[f] = Source)

RInv ==
  /\ argv \in Sessions
  /\ selection = [p \in Procs |-> selection[p]]
  /\ listed \subseteq Printed(FALSE)
  /\ \A p \in Procs : Report(p)
  /\ Findable /\ SourcesSafe

-----------------------------------------------------------------------------
(* The parser's states over the texts T.                                   *)
Values(T) == UNION {[D -> T] : D \in SUBSET ValueFlags}
OptionsOver(T) == [inputs : Seq(T), on : SUBSET Switches, value : Values(T)]
ParseStates(T) == [options : OptionsOver(T), flag : ValueFlags \cup {NoFlag, Refused}]

(* Binding keeps a set of values a set of values.                          *)
LEMMA BindFacts ==
  ASSUME NEW T, NEW v \in Values(T), NEW f \in ValueFlags, NEW t \in T
  PROVE  /\ Bind(v, f, t) \in Values(T)
         /\ DOMAIN Bind(v, f, t) = DOMAIN v \cup {f}
         /\ Bind(v, f, t)[f] = t
         /\ \A g \in DOMAIN v : g # f => Bind(v, f, t)[g] = v[g]
<1>1. PICK D \in SUBSET ValueFlags : v \in [D -> T]
  BY DEF Values
<1>2. Bind(v, f, t) \in [D \cup {f} -> T]
  BY <1>1 DEF Bind
<1>3. D \cup {f} \in SUBSET ValueFlags
  OBVIOUS
<1> QED
  BY <1>1, <1>2, <1>3 DEF Values, Bind

(* The outcomes of one turn of the loop.                                   *)
TurnOf(s, arg, r) ==
  \/ r.flag = Refused
  \/ /\ s.flag \in ValueFlags /\ (s.flag = "--emit" => BinaryFormats(arg[1]) # {})
     /\ r.flag = NoFlag /\ r.options.value = Bind(s.options.value, s.flag, arg)
     /\ r.options.inputs = s.options.inputs
  \/ s.flag = NoFlag /\ arg[1] \in ValueFlags /\ r.flag = arg[1] /\ r.options = s.options
  \/ /\ s.flag = NoFlag /\ r.flag = NoFlag /\ r.options.value = s.options.value
     /\ r.options.inputs = s.options.inputs
  \/ /\ s.flag = NoFlag /\ r.flag = NoFlag /\ r.options.value = s.options.value
     /\ r.options.inputs = Append(s.options.inputs, arg)

LEMMA TakeArgFacts ==
  ASSUME NEW T, NEW s \in ParseStates(T), NEW arg \in T, NEW r, r = TakeArg(s, arg)
  PROVE  r \in ParseStates(T) /\ TurnOf(s, arg, r)
<1>1. s.options \in OptionsOver(T) /\ s.flag \in ValueFlags \cup {NoFlag, Refused}
  BY DEF ParseStates
<1>5. /\ s.options.inputs \in Seq(T) /\ s.options.on \subseteq Switches
      /\ s.options.value \in Values(T)
  BY <1>1 DEF OptionsOver
<1>2. CASE \/ s.flag = Refused
           \/ s.flag = NoFlag /\ arg[1] = Unknown
           \/ s.flag = "--emit" /\ BinaryFormats(arg[1]) = {}
  <2>1. r = [options |-> s.options, flag |-> Refused]
    BY <1>2 DEF TakeArg
  <2>2. r \in ParseStates(T)
    BY <1>1, <2>1 DEF ParseStates
  <2>3. TurnOf(s, arg, r)
    BY <2>1 DEF TurnOf
  <2> QED
    BY <2>2, <2>3
<1>3. CASE s.flag \in ValueFlags /\ (s.flag = "--emit" => BinaryFormats(arg[1]) # {})
  <2>1. s.flag # NoFlag /\ s.flag # Refused
    BY <1>3 DEF ValueFlags, NoFlag, Refused
  <2>2. r = [options |-> Options(s.options.inputs, s.options.on, Bind(s.options.value, s.flag, arg)),
                           flag |-> NoFlag]
    BY <1>3, <2>1 DEF TakeArg
  <2>3. PICK v \in Values(T) : v = Bind(s.options.value, s.flag, arg)
    BY <1>3, <1>5, BindFacts
  <2>4. Options(s.options.inputs, s.options.on, v) \in OptionsOver(T)
    BY <1>5 DEF Options, OptionsOver
  <2>5. r \in ParseStates(T)
    BY <2>2, <2>3, <2>4 DEF ParseStates
  <2>6. TurnOf(s, arg, r)
    BY <1>3, <2>2 DEF TurnOf, Options
  <2> QED
    BY <2>5, <2>6
<1>4. CASE s.flag = NoFlag /\ arg[1] # Unknown
  <2>1. s.flag # Refused /\ s.flag # "--emit"
    BY <1>4 DEF NoFlag, Refused
  <2>2. CASE arg[1] \in ValueFlags
    <3>1. r = [options |-> s.options, flag |-> arg[1]]
      BY <1>4, <2>1, <2>2 DEF TakeArg
    <3>4. r \in ParseStates(T)
      BY <1>1, <2>2, <3>1 DEF ParseStates
    <3>5. TurnOf(s, arg, r)
      BY <1>4, <2>2, <3>1 DEF TurnOf
    <3> QED
      BY <3>4, <3>5
  <2>3. CASE arg[1] \notin ValueFlags /\ arg[1] \in Switches
    <3>1. r = [options |-> Options(s.options.inputs, s.options.on \cup {arg[1]}, s.options.value),
                             flag |-> NoFlag]
      BY <1>4, <2>1, <2>3 DEF TakeArg
    <3>2. PICK on \in SUBSET Switches : on = s.options.on \cup {arg[1]}
      BY <1>5, <2>3
    <3>3. Options(s.options.inputs, on, s.options.value) \in OptionsOver(T)
      BY <1>5 DEF Options, OptionsOver
    <3>4. r \in ParseStates(T)
      BY <3>1, <3>2, <3>3 DEF ParseStates
    <3>5. TurnOf(s, arg, r)
      BY <1>4, <3>1 DEF TurnOf, Options
    <3> QED
      BY <3>4, <3>5
  <2>4. CASE arg[1] \notin ValueFlags /\ arg[1] \notin Switches
    <3>1. r = [options |-> Options(Append(s.options.inputs, arg), s.options.on, s.options.value),
                             flag |-> NoFlag]
      BY <1>4, <2>1, <2>4 DEF TakeArg
    <3>2. Append(s.options.inputs, arg) \in Seq(T)
      BY <1>5, AppendFacts
    <3>3. Options(Append(s.options.inputs, arg), s.options.on, s.options.value) \in OptionsOver(T)
      BY <1>5, <3>2 DEF Options, OptionsOver
    <3>4. r \in ParseStates(T)
      BY <3>1, <3>3 DEF ParseStates
    <3>5. TurnOf(s, arg, r)
      BY <1>4, <3>1 DEF TurnOf, Options
    <3> QED
      BY <3>4, <3>5
  <2> QED
    BY <2>2, <2>3, <2>4
<1> QED
  BY <1>1, <1>2, <1>3, <1>4

(* A turn keeps what is known of the arguments read so far.                *)
LEMMA TurnKeeps ==
  ASSUME NEW T, NEW args \in Seq(T), NEW n \in Nat, n + 1 \in 1 .. Len(args),
         NEW s \in ParseStates(T), NEW r \in ParseStates(T),
         TurnOf(s, args[n + 1], r), ParsedUpTo(args, n, s)
  PROVE  ParsedUpTo(args, n + 1, r)
<1> SUFFICES ASSUME r.flag # Refused PROVE ParsedUpTo(args, n + 1, r)
  BY DEF ParsedUpTo
<1>0. s.flag # Refused
  BY DEF TurnOf, ValueFlags, NoFlag, Refused
<1>1. /\ s.flag # NoFlag => n \in 1 .. Len(args) /\ args[n][1] = s.flag /\ s.flag \in ValueFlags
      /\ \A f \in DOMAIN s.options.value :
           f \in ValueFlags /\ \E i \in 2 .. n : args[i - 1][1] = f /\ args[i] = s.options.value[f]
      /\ "--emit" \in DOMAIN s.options.value => BinaryFormats(s.options.value["--emit"][1]) # {}
      /\ \A i \in DOMAIN s.options.inputs : \E j \in 1 .. n : args[j] = s.options.inputs[i]
  BY <1>0 DEF ParsedUpTo
<1>2. \A i \in 2 .. n : i \in 2 .. n + 1
  OBVIOUS
<1>3. \A i \in 1 .. n : i \in 1 .. n + 1
  OBVIOUS
<1>4. CASE /\ s.flag \in ValueFlags /\ (s.flag = "--emit" => BinaryFormats(args[n + 1][1]) # {})
           /\ r.flag = NoFlag /\ r.options.value = Bind(s.options.value, s.flag, args[n + 1])
           /\ r.options.inputs = s.options.inputs
  <2>1. s.options.value \in Values(T) /\ args[n + 1] \in T
    <3>1. s.options.value \in Values(T)
      BY DEF ParseStates, OptionsOver
    <3> QED
      BY <3>1, LengthFacts
  <2>2. /\ DOMAIN r.options.value = DOMAIN s.options.value \cup {s.flag}
        /\ r.options.value[s.flag] = args[n + 1]
        /\ \A g \in DOMAIN s.options.value : g # s.flag => r.options.value[g] = s.options.value[g]
    <3>1. s.flag \in ValueFlags /\ r.options.value = Bind(s.options.value, s.flag, args[n + 1])
      BY <1>4
    <3>2. PICK v : v = s.options.value
      OBVIOUS
    <3>3. r.options.value = [g \in DOMAIN v \cup {s.flag} |-> IF g = s.flag THEN args[n + 1] ELSE v[g]]
      BY <3>1, <3>2 DEF Bind
    <3> QED
      BY <3>2, <3>3
  <2>3. n + 1 \in 2 .. n + 1 /\ (n + 1) - 1 = n /\ args[n][1] = s.flag
    <3>1. s.flag # NoFlag
      BY <1>4 DEF ValueFlags, NoFlag
    <3>2. n \in 1 .. Len(args) /\ args[n][1] = s.flag
      BY <1>1, <3>1
    <3> QED
      BY <3>2
  <2>4. ASSUME NEW f \in DOMAIN r.options.value
        PROVE  f \in ValueFlags /\ \E i \in 2 .. n + 1 : args[i - 1][1] = f /\ args[i] = r.options.value[f]
    <3>1. CASE f = s.flag
      <4>1. args[(n + 1) - 1][1] = f /\ args[n + 1] = r.options.value[f]
        BY <2>2, <2>3, <3>1
      <4> QED
        BY <1>1, <1>4, <2>3, <3>1, <4>1
    <3>2. CASE f # s.flag
      BY <1>1, <1>2, <2>2, <2>4, <3>2
    <3> QED
      BY <3>1, <3>2
  <2>5. "--emit" \in DOMAIN r.options.value => BinaryFormats(r.options.value["--emit"][1]) # {}
    BY <1>1, <1>4, <2>2
  <2> QED
    BY <1>1, <1>3, <1>4, <2>4, <2>5 DEF ParsedUpTo
<1>5. CASE s.flag = NoFlag /\ args[n + 1][1] \in ValueFlags /\ r.flag = args[n + 1][1] /\ r.options = s.options
  BY <1>1, <1>2, <1>3, <1>5 DEF ParsedUpTo
<1>6. CASE r.flag = NoFlag /\ r.options.value = s.options.value /\ r.options.inputs = s.options.inputs
  BY <1>1, <1>2, <1>3, <1>6 DEF ParsedUpTo
<1>7. CASE /\ r.flag = NoFlag /\ r.options.value = s.options.value
           /\ r.options.inputs = Append(s.options.inputs, args[n + 1])
  <2>1. s.options.inputs \in Seq(T) /\ args[n + 1] \in T
    <3>1. s.options.inputs \in Seq(T)
      BY DEF ParseStates, OptionsOver
    <3> QED
      BY <3>1, LengthFacts
  <2>2. ASSUME NEW i \in DOMAIN r.options.inputs
        PROVE  \E j \in 1 .. n + 1 : args[j] = r.options.inputs[i]
    <3>1. i \in 1 .. Len(s.options.inputs) + 1
      BY <1>7, <2>1, <2>2
    <3>2. CASE i \in 1 .. Len(s.options.inputs)
      BY <1>1, <1>3, <1>7, <2>1, <3>2
    <3>3. CASE i = Len(s.options.inputs) + 1
      <4>1. r.options.inputs[i] = args[n + 1]
        BY <1>7, <2>1, <3>3
      <4> QED
        BY <4>1
    <3> QED
      BY <2>1, <3>1, <3>2, <3>3
  <2> QED
    BY <1>1, <1>2, <1>7, <2>2 DEF ParsedUpTo
<1> QED
  BY <1>1, <1>4, <1>5, <1>6, <1>7 DEF TurnOf

LEMMA ParsedAll ==
  ASSUME NEW T, NEW args \in Seq(T), NEW o \in ParseCliOptions(args)
  PROVE  OptionsFit(args, o)
<1> DEFINE n == Len(args)
<1> DEFINE PS == ParseStates(T)
<1> DEFINE G == [i \in 1 .. n |-> [x \in PS |-> TakeArg(x, args[i])]]
<1> DEFINE s == CHOOSE f : f = [i \in 0 .. n |-> IF i = 0 THEN ParseStart ELSE TakeArg(f[i - 1], args[i])]
<1>1. n \in Nat /\ \A i \in 1 .. n : args[i] \in T
  BY LengthFacts
<1>2. \A i \in 1 .. n : \A x \in PS : G[i][x] = TakeArg(x, args[i]) /\ TakeArg(x, args[i]) \in PS
  BY <1>1, TakeArgFacts
<1>3. ParseStart \in PS
  <2>1. << >> \in Seq(T)
    BY EmptySeq
  <2>2. << >> \in Values(T)
    <3>1. << >> \in [{} -> T] /\ {} \in SUBSET ValueFlags
      OBVIOUS
    <3> QED
      BY <3>1 DEF Values
  <2>3. NoOptions \in OptionsOver(T)
    BY <2>1, <2>2 DEF NoOptions, Options, OptionsOver
  <2> QED
    BY <2>3 DEF ParseStart, ParseStates
<1> HIDE DEF G, PS
<1>4. PICK f : IteratesUpTo(f, n, PS, ParseStart, G)
  <2>1. StepsUpTo(n, G, PS)
    BY <1>2 DEF StepsUpTo
  <2> HIDE DEF n
  <2> QED
    BY <1>1, <1>3, <2>1, BoundedRecursion
<1>5. f = [i \in 0 .. n |-> IF i = 0 THEN ParseStart ELSE TakeArg(f[i - 1], args[i])]
  <2>1. ASSUME NEW i \in 1 .. n
        PROVE  G[i][f[i - 1]] = TakeArg(f[i - 1], args[i])
    <3>1. i - 1 \in 0 .. n
      BY <1>1
    <3> QED
      BY <1>2, <1>4, <3>1 DEF IteratesUpTo
  <2>2. f = [i \in 0 .. n |-> IF i = 0 THEN ParseStart ELSE G[i][f[i - 1]]]
    BY <1>4 DEF IteratesUpTo
  <2>3. \A i \in 0 .. n : (IF i = 0 THEN ParseStart ELSE G[i][f[i - 1]])
                           = IF i = 0 THEN ParseStart ELSE TakeArg(f[i - 1], args[i])
    BY <1>1, <2>1
  <2> QED
    BY <2>2, <2>3
<1>6. s = [i \in 0 .. n |-> IF i = 0 THEN ParseStart ELSE TakeArg(s[i - 1], args[i])]
  BY <1>5
<1>7. o = s[n].options /\ s[n].flag = NoFlag /\ Coherent(o)
  BY DEF ParseCliOptions
<1> HIDE DEF s
<1>8. s[0] = ParseStart /\ \A i \in Nat : i + 1 \in 1 .. n => s[i + 1] = TakeArg(s[i], args[i + 1])
  <2>1. s[0] = ParseStart
    BY <1>1, <1>6
  <2>2. ASSUME NEW i \in Nat, i + 1 \in 1 .. n
        PROVE  s[i + 1] = TakeArg(s[i], args[i + 1])
    <3>1. i + 1 \in 0 .. n /\ i + 1 # 0 /\ (i + 1) - 1 = i
      BY <2>2
    <3> QED
      BY <1>6, <3>1
  <2> QED
    BY <2>1, <2>2
<1> DEFINE P == {i \in Nat : i <= n => s[i] \in PS /\ ParsedUpTo(args, i, s[i])}
<1>9. 0 \in P
  <2>1. ParsedUpTo(args, 0, ParseStart)
    BY DEF ParsedUpTo, ParseStart, NoOptions, Options, NoFlag
  <2> QED
    BY <1>3, <1>8, <2>1
<1>10. ASSUME NEW i \in Nat, i \in P
       PROVE  i + 1 \in P
  <2> SUFFICES ASSUME i + 1 <= n
               PROVE  s[i + 1] \in PS /\ ParsedUpTo(args, i + 1, s[i + 1])
    OBVIOUS
  <2>1. i + 1 \in 1 .. n /\ i <= n
    BY <1>1
  <2>2. s[i] \in PS /\ ParsedUpTo(args, i, s[i]) /\ args[i + 1] \in T
    BY <1>1, <1>10, <2>1
  <2>3. s[i + 1] = TakeArg(s[i], args[i + 1])
    BY <1>8, <2>1
  <2>4. s[i + 1] \in ParseStates(T) /\ TurnOf(s[i], args[i + 1], s[i + 1])
    BY <2>2, <2>3, TakeArgFacts DEF PS
  <2>5. ParsedUpTo(args, i + 1, s[i + 1])
    BY <2>1, <2>2, <2>4, TurnKeeps DEF PS
  <2> QED
    BY <2>4, <2>5 DEF PS
<1> HIDE DEF P
<1>11. n \in P
  BY <1>1, <1>9, <1>10, Induction
<1>12. s[n] \in ParseStates(T) /\ ParsedUpTo(args, n, s[n])
  BY <1>1, <1>11 DEF P, PS
<1>13. o \in OptionsOver(T) /\ s[n].flag # Refused
  BY <1>7, <1>12 DEF ParseStates, NoFlag, Refused
<1>14. o.inputs \in Seq(T) /\ o.on \subseteq Switches
  BY <1>13 DEF OptionsOver
<1>15. /\ \A g \in DOMAIN o.value :
            g \in ValueFlags /\ \E i \in 2 .. n : args[i - 1][1] = g /\ args[i] = o.value[g]
       /\ "--emit" \in DOMAIN o.value => BinaryFormats(o.value["--emit"][1]) # {}
       /\ \A i \in DOMAIN o.inputs : \E j \in 1 .. n : args[j] = o.inputs[i]
  BY <1>7, <1>12, <1>13 DEF ParsedUpTo
<1>16. o.inputs # << >> => 1 \in DOMAIN o.inputs
  BY <1>14
<1>17. "--emit" \in DOMAIN o.value => AskedFormats(o) # {}
  BY <1>15 DEF AskedFormats
<1> QED
  BY <1>7, <1>14, <1>15, <1>16, <1>17 DEF OptionsFit

-----------------------------------------------------------------------------
(* The formats of the targets have names, and no name has two formats.     *)
LEMMA FormatsAreNamed ==
  ASSUME NEW d \in BuiltinTargets, NEW i \in DOMAIN d.formats
  PROVE  d.formats[i] \in DOMAIN FormatNames /\ d.formats[i] # "vlt"
<1>1. d.formats \in {<<"pe">>, <<"macho">>, <<"elf">>, <<"elf", "bin", "hex", "srec">>,
                     <<"elf", "bin">>, <<"elf", "hex">>}
  BY DEF BuiltinTargets, Target
<1>2. DOMAIN FormatNames = {"pe", "elf", "macho", "bin", "hex", "srec"}
  BY DEF FormatNames
<1> QED
  BY <1>1, <1>2

LEMMA OneFormat ==
  ASSUME NEW text, NEW x \in BinaryFormats(text), NEW y \in BinaryFormats(text)
  PROVE  x = y
BY DEF BinaryFormats, Named, FormatNames

(* What is selected is a target that is more than planned, and the format  *)
(* asked for, which it has.                                                *)
LEMMA SelectionFacts ==
  ASSUME NEW text, NEW asked, NEW c \in Selections(text, asked)
  PROVE  /\ asked # {} => c.format \in asked
         /\ \E d \in DescribeTarget(c.triple) :
              d.readiness # "Planned" /\ \E i \in DOMAIN d.formats : d.formats[i] = c.format
         /\ c.format \in DOMAIN FormatNames /\ c.format # "vlt"
<1>1. PICK d \in UNION {DescribeTarget(t) : t \in ParseTargetTriple(text)} :
        /\ d.readiness # "Planned"
        /\ \E f \in {f \in IF asked = {} THEN {d.formats[1]} ELSE asked :
                       \E i \in DOMAIN d.formats : d.formats[i] = f} :
             \E v \in CallingConventions(d) : c = [triple |-> d.triple, format |-> f, convention |-> v]
  BY DEF Selections
<1>2. d \in BuiltinTargets
  BY <1>1 DEF DescribeTarget
<1>3. PICK f \in IF asked = {} THEN {d.formats[1]} ELSE asked :
        /\ \E i \in DOMAIN d.formats : d.formats[i] = f
        /\ \E v \in CallingConventions(d) : c = [triple |-> d.triple, format |-> f, convention |-> v]
  BY <1>1
<1>4. c.triple = d.triple /\ c.format = f
  BY <1>3
<1>5. d \in DescribeTarget(c.triple)
  BY <1>2, <1>4 DEF DescribeTarget
<1>6. f \in DOMAIN FormatNames /\ f # "vlt"
  BY <1>2, <1>3, FormatsAreNamed
<1> QED
  BY <1>1, <1>3, <1>4, <1>5, <1>6

(* A triple that --list-targets prints selects its target.                 *)
LEMMA ProductionIsSelected ==
  ASSUME NEW d \in BuiltinTargets, d.readiness = "Production"
  PROVE  Selections(Canonical(d.triple), {}) # {}
<1> DEFINE t == d.triple
<1> DEFINE text == Canonical(t)
<1>1. t \in {Triple("X64", "Pc", "Windows", "Msvc"), Triple("X64", "Apple", "MacOS", "None"),
             Triple("X64", "Pc", "Linux", "Gnu")} /\ d.formats \in {<<"pe">>, <<"macho">>, <<"elf">>}
  BY DEF BuiltinTargets, Target
<1>2. t = Triple(t.arch, t.vendor, t.os, t.abi) /\ t.arch = "X64"
  BY <1>1 DEF Triple
<1>3. text \in {<<"x86_64", "pc", "windows", "msvc">>, <<"x86_64", "apple", "macos", "none">>,
                <<"x86_64", "pc", "linux", "gnu">>}
  BY <1>1 DEF Canonical, Triple, ArchText, VendorText, OsText, AbiText
<1>4. /\ t.arch \in Named(ArchNames, text[1])
      /\ t.vendor \in Named(VendorNames, text[2])
      /\ t.os \in Named(OsNames, text[3])
      /\ t.abi \in Named(AbiNames, text[4])
  BY <1>1 DEF Canonical, Triple, ArchText, VendorText, OsText, AbiText,
              Named, ArchNames, VendorNames, OsNames, AbiNames
<1>5. Split(text) = text
  <2>1. Len(text) = 4 /\ text[4] \in {"msvc", "none", "gnu"}
    BY <1>3
  <2>2. text[4] # ""
    BY <2>1, Zenon
  <2> QED
    BY <2>1, <2>2, Zenon DEF Split
<1>6. t \in ParseTargetTriple(text)
  <2>1. Len(text) = 4
    BY <1>3
  <2>2. /\ t.vendor \in NamedOr(VendorNames, text[2], "Unknown")
        /\ t.abi \in NamedOr(AbiNames, text[4], "Unknown")
    BY <1>4 DEF NamedOr
  <2>3. Len(Split(text)) \in 3..4 /\ Len(Split(text)) = 4
    BY <1>5, <2>1
  <2> HIDE DEF t, text
  <2> QED
    BY <1>2, <1>4, <1>5, <2>2, <2>3 DEF ParseTargetTriple
<1>7. d \in UNION {DescribeTarget(u) : u \in ParseTargetTriple(text)}
  BY <1>6 DEF DescribeTarget
<1>8. PICK v : v \in CallingConventions(d)
  BY <1>2, Zenon DEF CallingConventions
<1>9. d.formats[1] \in {f \in {d.formats[1]} : \E i \in DOMAIN d.formats : d.formats[i] = f}
  BY <1>1
<1>10. d.readiness # "Planned"
  OBVIOUS
<1> HIDE DEF text
<1>11. [triple |-> d.triple, format |-> d.formats[1], convention |-> v]
         \in {[triple |-> d.triple, format |-> f, convention |-> c] :
                f \in {f \in {d.formats[1]} : \E i \in DOMAIN d.formats : d.formats[i] = f},
                c \in CallingConventions(d)}
  BY <1>8, <1>9
<1>12. d \in {e \in UNION {DescribeTarget(u) : u \in ParseTargetTriple(text)} : e.readiness # "Planned"}
  BY <1>7, <1>10
<1> DEFINE D == {e \in UNION {DescribeTarget(u) : u \in ParseTargetTriple(text)} : e.readiness # "Planned"}
<1> DEFINE R(e) == {[triple |-> e.triple, format |-> f, convention |-> c] :
                     f \in {f \in IF {} = {} THEN {e.formats[1]} ELSE {} :
                              \E i \in DOMAIN e.formats : e.formats[i] = f},
                     c \in CallingConventions(e)}
<1>13. [triple |-> d.triple, format |-> d.formats[1], convention |-> v] \in R(d)
  BY <1>11
<1>14. Selections(text, {}) = UNION {R(e) : e \in D}
  BY DEF Selections
<1> HIDE DEF R, D
<1>15. d \in D
  BY <1>12 DEF D
<1>16. R(d) \in {R(e) : e \in D}
  BY <1>15
<1> HIDE DEF t
<1>17. ASSUME NEW x \in R(d) PROVE x \in Selections(text, {})
  BY <1>14, <1>16, Zenon
<1> QED
  BY <1>13, <1>17 DEF text, t

-----------------------------------------------------------------------------
(* What a step of p leaves to the others.                                  *)
Leaves(p) ==
  /\ UNCHANGED argv
  /\ \A q \in Procs \ {p} :
       /\ stage'[q] = stage[q] /\ exit'[q] = exit[q] /\ options'[q] = options[q]
       /\ selection'[q] = selection[q] /\ wrote'[q] = wrote[q]
  /\ \A q \in Procs : moment[q] # 0 => moment'[q] = moment[q] /\ options'[q] = options[q]
  /\ selection' = [q \in Procs |-> selection'[q]]

(* What it may do to the files.                                            *)
Touches(p) ==
  \/ UNCHANGED <<disk, wrote>>
  \/ \E name, content : Spares(name) /\ PutFile(p, name, content)
  \/ /\ UNCHANGED wrote /\ disk' = Restrict(disk, DOMAIN disk \ {ExePath(p)})
     /\ ExePath(p) \in Temporaries /\ Spares(ExePath(p))

LEMMA SparesStays ==
  ASSUME UNCHANGED argv, NEW f
  PROVE  Spares(f)' <=> Spares(f)
BY DEF Spares, NamedOutputs, Stems, Procs

LEMMA ReportStands ==
  ASSUME NEW p \in Procs, NEW q \in Procs, q # p, Leaves(p), Report(q)
  PROVE  Report(q)'
<1>1. /\ stage'[q] = stage[q] /\ exit'[q] = exit[q] /\ options'[q] = options[q]
      /\ selection'[q] = selection[q] /\ wrote'[q] = wrote[q] /\ argv' = argv
  BY DEF Leaves
<1>2. Chosen(q)' = Chosen(q) /\ Wanted(q)' = Wanted(q) /\ Kinds(q)' = Kinds(q)
  BY <1>1 DEF Chosen, Wanted, Kinds
<1>3. Branched(q)'
  BY <1>1 DEF Report, Branched
<1>4. Selected(q)' /\ Declined(q)'
  BY <1>1 DEF Report, Selected, Declined
<1>5. Produced(q)'
  BY <1>1, <1>2 DEF Report, Produced
<1>6. \A w \in wrote'[q] : Spares(w[1])'
  BY <1>1, SparesStays DEF Report
<1> QED
  BY <1>3, <1>4, <1>5, <1>6 DEF Report

(* What was a temporary executable's name remains one.                     *)
LEMMA TemporariesGrow ==
  ASSUME NEW p \in Procs, Leaves(p)
  PROVE  Temporaries \subseteq Temporaries'
<1> SUFFICES ASSUME NEW q \in Procs, moment[q] # 0, ~KeepExecutable(q)
             PROVE  ExePath(q) \in Temporaries'
  BY DEF Temporaries
<1>1. moment'[q] = moment[q] /\ options'[q] = options[q] /\ Procs' = Procs
  BY DEF Leaves, Procs
<1>2. ExePath(q)' = ExePath(q) /\ ~KeepExecutable(q)'
  BY <1>1 DEF ExePath, KeepExecutable, ValueOr
<1> QED
  BY <1>1, <1>2 DEF Temporaries

LEMMA FilesKept ==
  ASSUME NEW p \in Procs, Typed, Leaves(p), Touches(p), Findable, SourcesSafe
  PROVE  Findable' /\ SourcesSafe'
<1>1. Procs' = Procs /\ argv' = argv /\ \A f : Spares(f)' <=> Spares(f)
  BY SparesStays DEF Leaves, Procs
<1>2. Temporaries \subseteq Temporaries'
  BY TemporariesGrow
<1>3. CASE UNCHANGED <<disk, wrote>>
  BY <1>1, <1>2, <1>3 DEF Findable, SourcesSafe
<1>4. CASE \E name, content : Spares(name) /\ PutFile(p, name, content)
  <2>1. PICK name, content : Spares(name) /\ PutFile(p, name, content)
    BY <1>4
  <2>2. wrote' = [q \in Procs |-> IF q = p THEN wrote[p] \cup {<<name, content>>} ELSE wrote[q]]
    BY <2>1 DEF PutFile, Typed
  <2>3. disk' = [f \in DOMAIN disk \cup {name} |-> IF f = name THEN content ELSE disk[f]]
    BY <2>1 DEF PutFile, Bind
  <2>4. ASSUME NEW q \in Procs, NEW w \in wrote'[q], w[1] \notin Temporaries'
        PROVE  w[1] \in DOMAIN disk' /\ \E r \in Procs : <<w[1], disk'[w[1]]>> \in wrote'[r]
    <3>1. CASE w[1] = name
      <4>1. w[1] \in DOMAIN disk' /\ disk'[w[1]] = content
        BY <2>3, <3>1
      <4>2. <<w[1], content>> \in wrote'[p]
        BY <2>2, <3>1
      <4> QED
        BY <4>1, <4>2
    <3>2. CASE w[1] # name
      <4>1. w \in wrote[q]
        BY <2>2, <2>4, <3>2
      <4>2. w[1] \in DOMAIN disk
        BY <1>2, <2>4, <4>1 DEF Findable
      <4>5. PICK r \in Procs : <<w[1], disk[w[1]]>> \in wrote[r]
        BY <1>2, <2>4, <4>1 DEF Findable
      <4>3. w[1] \in DOMAIN disk' /\ disk'[w[1]] = disk[w[1]]
        BY <2>3, <3>2, <4>2
      <4>4. wrote[r] \subseteq wrote'[r]
        BY <2>2
      <4> QED
        BY <4>3, <4>4, <4>5
    <3> QED
      BY <3>1, <3>2
  <2>5. Findable'
    BY <1>1, <2>4 DEF Findable
  <2>6. SourcesSafe'
    BY <1>1, <2>1, <2>3 DEF SourcesSafe
  <2> QED
    BY <2>5, <2>6
<1>5. CASE /\ UNCHANGED wrote /\ disk' = Restrict(disk, DOMAIN disk \ {ExePath(p)})
           /\ ExePath(p) \in Temporaries /\ Spares(ExePath(p))
  <2>1. disk' = [f \in DOMAIN disk \ {ExePath(p)} |-> disk[f]]
    BY <1>5 DEF Restrict
  <2>2. \A f \in DOMAIN disk : f # ExePath(p) => f \in DOMAIN disk' /\ disk'[f] = disk[f]
    BY <2>1
  <2>3. Findable'
    BY <1>1, <1>2, <1>5, <2>2 DEF Findable
  <2>4. SourcesSafe'
    BY <1>1, <1>5, <2>2 DEF SourcesSafe
  <2> QED
    BY <2>3, <2>4
<1> QED
  BY <1>3, <1>4, <1>5 DEF Touches

(* So a step need only be shown to keep the report of its own invocation.  *)
LEMMA OneReport ==
  ASSUME BInv, RInv, NEW p \in Procs, Leaves(p), Touches(p),
         listed' \subseteq Printed(FALSE), Report(p)'
  PROVE  RInv'
<1>1. Procs' = Procs /\ argv' = argv
  BY DEF Leaves, Procs
<1>2. \A q \in Procs : Report(q)'
  BY ReportStands DEF RInv
<1>3. Findable' /\ SourcesSafe'
  BY FilesKept DEF BInv, RInv
<1>4. (listed \subseteq Printed(FALSE))'
  BY DEF Printed
<1>5. (selection = [q \in Procs |-> selection[q]])'
  BY <1>1 DEF Leaves
<1> QED
  BY <1>1, <1>2, <1>3, <1>4, <1>5 DEF RInv

-----------------------------------------------------------------------------
(* Steps of main outside benchmark mode.                                   *)
LEMMA DriverLeaves ==
  ASSUME BInv, RInv, NEW p \in Procs, DriverStep(p), UNCHANGED benchVars
  PROVE  Leaves(p)
<1>1. Compiles(p)
  BY DriverCompiles
<1>2. UNCHANGED argv /\ UNCHANGED moment
  BY <1>1 DEF Compiles, benchVars
<1>3. /\ options' = [q \in Procs |-> IF q = p THEN options'[p] ELSE options[q]]
      /\ stage' = [q \in Procs |-> IF q = p THEN stage'[p] ELSE stage[q]]
      /\ exit' = [q \in Procs |-> IF q = p THEN exit'[p] ELSE exit[q]]
  BY <1>1 DEF Compiles, BInv, Typed
<1>4. \A q \in Procs \ {p} : wrote'[q] = wrote[q]
  <2>1. UNCHANGED wrote \/ \E name, content : PutFile(p, name, content)
    BY <1>1 DEF Compiles
  <2>2. CASE \E name, content : PutFile(p, name, content)
    <3>1. PICK name, content : PutFile(p, name, content)
      BY <2>2
    <3> QED
      BY <3>1 DEF PutFile, BInv, Typed
  <2> QED
    BY <2>1, <2>2
<1>5. selection' = [q \in Procs |-> IF q = p THEN selection'[p] ELSE selection[q]]
  <2>1. selection = [q \in Procs |-> selection[q]]
    BY DEF RInv
  <2>2. UNCHANGED selection \/ \E s : selection' = [selection EXCEPT ![p] = s]
    BY DEF DriverStep, ParseCli, PrintSupportedTargets, SelectTarget, RunFrontend,
           GenerateCpp, RunCxx, CompileNative, EmitVir, EmitLlvm, Emit
  <2> QED
    BY <2>1, <2>2
<1>6. moment[p] = 0
  BY <1>1 DEF Compiles, BInv, Account, Clocked
<1> QED
  BY <1>2, <1>3, <1>4, <1>5, <1>6 DEF Leaves

(* The options that have been parsed are those of the arguments.           *)
LEMMA ParseReports ==
  ASSUME BInv, RInv, NEW p \in Procs, ParseCli(p), UNCHANGED benchVars
  PROVE  RInv'
<1>1. At(p, "start") /\ UNCHANGED <<argv, selection, disk, wrote, listed>>
  BY DEF ParseCli
<1>2. /\ stage = [q \in Procs |-> stage[q]] /\ exit = [q \in Procs |-> exit[q]]
      /\ options = [q \in Procs |-> options[q]]
  BY DEF BInv, Typed
<1>3. Report(p) /\ stage[p] = "start" /\ options[p] = NoOptions /\ selection[p] = {} /\ wrote[p] = {}
  BY <1>1 DEF RInv, Report, Branched, Selected, Produced, At, Compiling
<1>4. Leaves(p)
  BY DriverLeaves DEF DriverStep
<1>5. selection'[p] = {} /\ wrote'[p] = {}
  BY <1>1, <1>3
<1>6. ASSUME Fails(p), UNCHANGED options PROVE Report(p)'
  <2>1. stage'[p] = "done" /\ exit'[p] = "error" /\ options'[p] = NoOptions
    BY <1>2, <1>3, <1>6 DEF Fails, End
  <2>2. DOMAIN NoOptions.value # {"--target"}
    BY DEF NoOptions, Options
  <2>3. Branched(p)' /\ Selected(p)' /\ Declined(p)'
    BY <1>5, <2>1, <2>2 DEF Branched, Selected, Declined, Compiling, Running, Recording
  <2>4. Produced(p)'
    BY <1>5, <2>1 DEF Produced
  <2> QED
    BY <1>5, <2>3, <2>4 DEF Report
<1>7. ASSUME NEW o \in ParseCliOptions(argv[p]), options' = [options EXCEPT ![p] = o],
             Goto(p, IF o.on \cap {"--list-targets", "--list-all-targets"} # {} THEN "list"
                     ELSE IF "--benchmark" \in o.on THEN "benchmark" ELSE "select")
      PROVE  Report(p)'
  <2>1. OptionsFit(argv[p], o)
    <3>1. argv[p] \in Seq(Seq(STRING) \ {<<>>})
      BY SessionsAssumption DEF RInv, Procs
    <3> QED
      BY <3>1, ParsedAll
  <2>2. /\ options'[p] = o /\ exit'[p] = exit[p] /\ argv' = argv
        /\ stage'[p] = IF o.on \cap Listings # {} THEN "list"
                       ELSE IF "--benchmark" \in o.on THEN "benchmark" ELSE "select"
    BY <1>1, <1>2, <1>7 DEF Goto, Listings
  <2>3. exit[p] = "none"
    BY <1>3 DEF BInv, Account, Clocked
  <2>4. Branched(p)'
    BY <1>5, <2>1, <2>2 DEF Branched, Compiling, Running, Recording, Listings
  <2>5. Selected(p)' /\ Declined(p)'
    BY <1>5, <2>2, <2>3 DEF Selected, Declined, Compiling
  <2>6. Produced(p)'
    BY <1>5, <2>2 DEF Produced
  <2> QED
    BY <1>5, <2>4, <2>5, <2>6 DEF Report
<1>8. Report(p)'
  BY <1>6, <1>7 DEF ParseCli
<1> QED
  BY <1>1, <1>4, <1>8, OneReport DEF RInv, Touches

LEMMA ListReports ==
  ASSUME BInv, RInv, NEW p \in Procs, PrintSupportedTargets(p), UNCHANGED benchVars
  PROVE  RInv'
<1>1. stage[p] = "list" /\ UNCHANGED <<argv, options, selection, disk, wrote>>
  BY DEF PrintSupportedTargets, At
<1>2. stage'[p] = "done" /\ exit'[p] = "ok"
  BY DEF PrintSupportedTargets, End, BInv, Typed
<1>3. Report(p)
  BY DEF RInv
<1>4. selection'[p] = {} /\ wrote'[p] = {}
  BY <1>1, <1>3 DEF Report, Selected, Produced, Compiling
<1>5. Branched(p)' /\ Selected(p)' /\ Declined(p)' /\ Produced(p)'
  BY <1>2, <1>4 DEF Branched, Selected, Declined, Produced, Compiling, Running, Recording
<1>6. Report(p)'
  BY <1>4, <1>5 DEF Report
<1>7. listed' \subseteq Printed(FALSE)
  BY DEF PrintSupportedTargets, RInv
<1>8. Leaves(p)
  BY DriverLeaves DEF DriverStep
<1> QED
  BY <1>1, <1>6, <1>7, <1>8, OneReport DEF Touches

(* A compilation that asks for nothing but a triple asks for its default   *)
(* format.                                                                 *)
LEMMA OnlyTarget ==
  ASSUME NEW o, DOMAIN o.value = {"--target"}
  PROVE  SelectedTriple(o) = o.value["--target"] /\ AskedFormats(o) = {}
<1>1. DOMAIN Overrides(o) = {}
  BY DEF Overrides, SegmentFlag
<1>2. Override(ValueOr(o, "--target", Host), Overrides(o)) = ValueOr(o, "--target", Host)
  BY <1>1, Zenon DEF Override
<1> QED
  BY <1>2 DEF SelectedTriple, AskedFormats, ValueOr

LEMMA SelectReports ==
  ASSUME BInv, RInv, NEW p \in Procs, SelectTarget(p), UNCHANGED benchVars
  PROVE  RInv'
<1> DEFINE o == options[p]
<1> DEFINE s == IF "--sysroot" \in DOMAIN o.value /\ o.value["--sysroot"] \notin Directories
                THEN {} ELSE Selections(SelectedTriple(o), AskedFormats(o))
<1>1. /\ stage[p] = "select" /\ UNCHANGED <<argv, options, disk, wrote, listed>>
      /\ selection' = [selection EXCEPT ![p] = s]
      /\ IF s = {} THEN Fails(p) ELSE Goto(p, "frontend")
  BY DEF SelectTarget, At
<1>2. Report(p)
  BY DEF RInv
<1>3. selection'[p] = s /\ options'[p] = o /\ wrote'[p] = {}
  BY <1>1, <1>2 DEF RInv, Report, Produced
<1>4. /\ OptionsFit(argv[p], options[p])
      /\ options[p].on \cap (Listings \cup {"--benchmark"}) = {}
  BY <1>1, <1>2 DEF Report, Branched
<1>5. ASSUME s = {} PROVE Report(p)'
  <2>1. stage'[p] = "done" /\ exit'[p] = "error"
    BY <1>1, <1>5 DEF Fails, End, BInv, Typed
  <2>2. Declined(p)'
    <3>1. SUFFICES ASSUME DOMAIN o.value = {"--target"}
                   PROVE  Selections(o.value["--target"], {}) = {}
      BY <1>3 DEF Declined
    <3>2. "--sysroot" \notin DOMAIN o.value
      BY <3>1
    <3>3. s = Selections(SelectedTriple(o), AskedFormats(o))
      BY <3>2
    <3> QED
      BY <1>5, <3>1, <3>3, OnlyTarget
  <2>3. Branched(p)' /\ Selected(p)' /\ Produced(p)'
    BY <1>3, <1>5, <2>1 DEF Branched, Selected, Produced, Compiling, Running, Recording
  <2> QED
    BY <1>3, <2>2, <2>3 DEF Report
<1>6. ASSUME s # {} PROVE Report(p)'
  <2>1. stage'[p] = "frontend" /\ exit'[p] = exit[p]
    BY <1>1, <1>6 DEF Goto, BInv, Typed
  <2>2. exit[p] = "none"
    BY <1>1 DEF BInv, Account, Clocked
  <2>3. s = Selections(SelectedTriple(o), AskedFormats(o))
    BY <1>6
  <2>4. Selected(p)' /\ Declined(p)'
    BY <1>3, <1>6, <2>1, <2>2, <2>3 DEF Selected, Declined, Compiling
  <2>5. Branched(p)'
    BY <1>1, <1>3, <1>4, <2>1 DEF Branched, Compiling, Running, Recording
  <2>6. Produced(p)'
    BY <1>3, <2>1, <2>2 DEF Produced, Kinds
  <2> QED
    BY <1>3, <2>4, <2>5, <2>6 DEF Report
<1>7. Leaves(p)
  BY DriverLeaves DEF DriverStep
<1> QED
  BY <1>1, <1>5, <1>6, <1>7, OneReport DEF RInv, Touches

LEMMA FrontendReports ==
  ASSUME BInv, RInv, NEW p \in Procs, RunFrontend(p), UNCHANGED benchVars
  PROVE  RInv'
<1>1. stage[p] = "frontend" /\ UNCHANGED <<argv, options, selection, disk, wrote, listed>>
  BY DEF RunFrontend, At
<1>2. Report(p)
  BY DEF RInv
<1>3. /\ OptionsFit(argv[p], options[p])
      /\ options[p].on \cap (Listings \cup {"--benchmark"}) = {}
      /\ selection[p] = Selections(SelectedTriple(options[p]), AskedFormats(options[p]))
      /\ selection[p] # {} /\ wrote[p] = {}
  BY <1>1, <1>2 DEF Report, Branched, Selected, Produced, Compiling
<1>4. exit[p] = "none"
  BY <1>1 DEF BInv, Account, Clocked
<1>5. ASSUME Fails(p) PROVE Report(p)'
  <2>1. stage'[p] = "done" /\ exit'[p] = "error"
    BY <1>5 DEF Fails, End, BInv, Typed
  <2>2. Branched(p)' /\ Selected(p)' /\ Declined(p)' /\ Produced(p)'
    BY <1>1, <1>3, <2>1 DEF Branched, Selected, Declined, Produced, Kinds, Compiling, Running, Recording
  <2> QED
    BY <1>1, <1>3, <2>2 DEF Report
<1>6. ASSUME Goto(p, IF "--bootstrap-cpp" \in options[p].on THEN "bootstrap"
                     ELSE IF options[p].on \cap {"--emit-vir", "--emit-llvm"} = {} THEN "native"
                     ELSE IF "--emit-vir" \in options[p].on THEN "vir" ELSE "llvm")
      PROVE  Report(p)'
  <2>1. /\ exit'[p] = "none"
        /\ stage'[p] = IF "--bootstrap-cpp" \in options[p].on THEN "bootstrap"
                       ELSE IF options[p].on \cap {"--emit-vir", "--emit-llvm"} = {} THEN "native"
                       ELSE IF "--emit-vir" \in options[p].on THEN "vir" ELSE "llvm"
    BY <1>4, <1>6 DEF Goto, BInv, Typed
  <2>2. Branched(p)'
    BY <1>1, <1>3, <2>1 DEF Branched, Compiling, Running, Recording
  <2>3. Selected(p)' /\ Declined(p)'
    BY <1>1, <1>3, <2>1 DEF Selected, Declined, Compiling
  <2>4. Produced(p)'
    BY <1>1, <1>3, <2>1 DEF Produced, Kinds
  <2> QED
    BY <1>1, <1>3, <2>2, <2>3, <2>4 DEF Report
<1>7. Report(p)'
  BY <1>5, <1>6 DEF RunFrontend
<1>8. Leaves(p)
  BY DriverLeaves DEF DriverStep
<1> QED
  BY <1>1, <1>7, <1>8, OneReport DEF RInv, Touches

-----------------------------------------------------------------------------
(* What is known where an artifact is written.                             *)
LEMMA Emitting ==
  ASSUME BInv, RInv, NEW p \in Procs, stage[p] \in {"bootstrap", "link", "native", "vir", "llvm"}
  PROVE  /\ OptionsFit(argv[p], options[p])
         /\ options[p].on \cap (Listings \cup {"--benchmark"}) = {}
         /\ selection[p] = Selections(SelectedTriple(options[p]), AskedFormats(options[p]))
         /\ selection[p] # {} /\ exit[p] = "none"
         /\ Kinds(p) \subseteq {"cpp", "cxx", "vir", "llvm", Chosen(p).format}
         /\ \A w \in wrote[p] : Spares(w[1])
<1>1. Report(p)
  BY DEF RInv
<1>2. exit[p] = "none"
  BY DEF BInv, Account, Clocked
<1> QED
  BY <1>1, <1>2 DEF Report, Branched, Selected, Produced, Compiling

(* An artifact that is written, or not, keeps the report, when its kind is *)
(* one that is asked for.                                                  *)
LEMMA EmitReports ==
  ASSUME BInv, RInv, NEW p \in Procs, NEW name, NEW kind, NEW arch,
         NEW next \in {"done", "link", "llvm"}, DriverStep(p), UNCHANGED benchVars,
         Emit(p, name, Artifact(p, kind, arch), next),
         stage[p] \in {"bootstrap", "link", "native", "vir", "llvm"},
         Spares(name), kind \in {"cpp", "cxx", "vir", "llvm", Chosen(p).format},
         next = "link" => /\ "--bootstrap-cpp" \in options[p].on /\ "--no-link" \notin options[p].on
                          /\ Kinds(p) \cup {kind} = {"cpp"},
         next = "llvm" => /\ "--bootstrap-cpp" \notin options[p].on /\ "--emit-llvm" \in options[p].on
                          /\ Kinds(p) \cup {kind} = IF "--emit-vir" \in options[p].on THEN {"vir"} ELSE {},
         next = "done" => Kinds(p) \cup {kind} = Wanted(p)
  PROVE  RInv'
<1> DEFINE content == Artifact(p, kind, arch)
<1>1. UNCHANGED <<argv, options, selection, listed>>
  BY DEF Emit
<1>2. /\ OptionsFit(argv[p], options[p])
      /\ options[p].on \cap (Listings \cup {"--benchmark"}) = {}
      /\ selection[p] = Selections(SelectedTriple(options[p]), AskedFormats(options[p]))
      /\ selection[p] # {} /\ exit[p] = "none"
      /\ Kinds(p) \subseteq {"cpp", "cxx", "vir", "llvm", Chosen(p).format}
      /\ \A w \in wrote[p] : Spares(w[1])
  BY Emitting
<1>3. Chosen(p)' = Chosen(p) /\ Wanted(p)' = Wanted(p)
  BY <1>1 DEF Chosen, Wanted
<1>4. \A f : Spares(f)' <=> Spares(f)
  BY <1>1, SparesStays
<1>5. ASSUME PutFile(p, name, content), IF next = "done" THEN End(p, "ok") ELSE Goto(p, next)
      PROVE  Report(p)' /\ Touches(p)
  <2>1. wrote'[p] = wrote[p] \cup {<<name, content>>}
    BY <1>5 DEF PutFile, BInv, Typed
  <2>2. Kinds(p)' = Kinds(p) \cup {kind}
    <3>1. <<name, content>>[2].kind = kind
      BY DEF Artifact
    <3> HIDE DEF content
    <3> QED
      BY <2>1, <3>1 DEF Kinds
  <2>3. stage'[p] = next /\ exit'[p] = IF next = "done" THEN "ok" ELSE "none"
    BY <1>2, <1>5 DEF End, Goto, BInv, Typed
  <2>4. Branched(p)'
    BY <1>1, <1>2, <2>3 DEF Branched, Compiling, Running, Recording
  <2>5. Selected(p)' /\ Declined(p)'
    BY <1>1, <1>2, <2>3 DEF Selected, Declined, Compiling
  <2>6. Produced(p)'
    BY <1>1, <1>2, <1>3, <2>2, <2>3 DEF Produced
  <2>7. \A w \in wrote'[p] : Spares(w[1])'
    BY <1>2, <1>4, <2>1
  <2> QED
    BY <1>5, <2>4, <2>5, <2>6, <2>7 DEF Report, Touches
<1>6. ASSUME Fails(p), UNCHANGED <<disk, wrote>>
      PROVE  Report(p)' /\ Touches(p)
  <2>1. stage'[p] = "done" /\ exit'[p] = "error"
    BY <1>6 DEF Fails, End, BInv, Typed
  <2>2. Branched(p)' /\ Selected(p)' /\ Declined(p)'
    BY <1>1, <1>2, <2>1 DEF Branched, Selected, Declined, Compiling, Running, Recording
  <2>3. Kinds(p)' = Kinds(p)
    BY <1>6 DEF Kinds
  <2>4. Produced(p)'
    BY <1>1, <1>2, <1>3, <2>1, <2>3 DEF Produced
  <2>5. \A w \in wrote'[p] : Spares(w[1])'
    BY <1>2, <1>4, <1>6
  <2> QED
    BY <1>6, <2>2, <2>4, <2>5 DEF Report, Touches
<1>7. Report(p)' /\ Touches(p)
  BY <1>5, <1>6 DEF Emit
<1>8. Leaves(p)
  BY DriverLeaves
<1> QED
  BY <1>1, <1>7, <1>8, OneReport DEF RInv

-----------------------------------------------------------------------------
(* The names of artifacts.                                                 *)
LEMMA AppendedLast ==
  ASSUME NEW S, NEW s \in Seq(S), NEW e
  PROVE  Last(Append(s, e)) = e
<1> DEFINE T == S \cup {e}
<1>0. s \in Seq(T) /\ e \in T
  <2>1. Len(s) \in Nat /\ \A i \in 1 .. Len(s) : s[i] \in T
    BY LengthFacts
  <2>2. s = [i \in 1 .. Len(s) |-> s[i]]
    OBVIOUS
  <2>3. [i \in 1 .. Len(s) |-> s[i]] \in Seq(T)
    BY <2>1
  <2> QED
    BY <2>2, <2>3
<1>1. /\ Append(s, e) \in Seq(T) /\ Len(Append(s, e)) = Len(s) + 1
      /\ Append(s, e)[Len(s) + 1] = e
  BY <1>0, AppendFacts
<1> QED
  BY <1>1 DEF Last

LEMMA InputSpared ==
  ASSUME NEW p \in Procs, argv[p] \in Seq(Seq(STRING) \ {<<>>}), OptionsFit(argv[p], options[p]),
         options[p].on \cap (Listings \cup {"--benchmark"}) = {},
         NEW extension, extension # "vlt"
  PROVE  /\ Spares(Stem(options[p].inputs[1]))
         /\ Spares(DefaultArtifactPath(options[p].inputs[1], extension))
<1> DEFINE path == options[p].inputs[1]
<1>1. options[p].inputs # << >>
  BY DEF OptionsFit, Coherent, Listings
<1>2. PICK j \in 1 .. Len(argv[p]) : argv[p][j] = path
  BY <1>1 DEF OptionsFit
<1>3. j \in DOMAIN argv[p] /\ path \in Seq(STRING) /\ path # << >>
  BY <1>2, LengthFacts
<1>4. Stem(path) \in Stems
  BY <1>2, <1>3 DEF Stems
<1>5. Stem(path) \in Seq(STRING)
  BY <1>3, FrontInSeq DEF Stem
<1>6. Last(Append(Stem(path), extension)) = extension
  BY <1>5, AppendedLast
<1> QED
  BY <1>4, <1>6 DEF Spares, DefaultArtifactPath

LEMMA GivenSpared ==
  ASSUME NEW p \in Procs, argv[p] \in Seq(Seq(STRING) \ {<<>>}), OptionsFit(argv[p], options[p]),
         NEW flag \in {"-o", "--emit-cpp"}, NEW default, Spares(default)
  PROVE  Spares(ValueOr(options[p], flag, default))
<1>1. CASE flag \in DOMAIN options[p].value
  <2>1. PICK i \in 2 .. Len(argv[p]) : argv[p][i - 1][1] = flag /\ argv[p][i] = options[p].value[flag]
    BY <1>1 DEF OptionsFit
  <2>2. options[p].value[flag] \in NamedOutputs
    BY <2>1 DEF NamedOutputs
  <2> QED
    BY <1>1, <2>2 DEF Spares, ValueOr
<1>2. CASE flag \notin DOMAIN options[p].value
  BY <1>2 DEF ValueOr
<1> QED
  BY <1>1, <1>2

LEMMA ChosenFacts ==
  ASSUME BInv, RInv, NEW p \in Procs, stage[p] \in {"bootstrap", "link", "native", "vir", "llvm"}
  PROVE  /\ Chosen(p) \in Selections(SelectedTriple(options[p]), AskedFormats(options[p]))
         /\ Chosen(p).format \in DOMAIN FormatNames /\ Chosen(p).format # "vlt"
<1>1. /\ selection[p] = Selections(SelectedTriple(options[p]), AskedFormats(options[p]))
      /\ selection[p] # {}
  BY Emitting
<1>2. Chosen(p) \in selection[p]
  BY <1>1 DEF Chosen
<1> QED
  BY <1>1, <1>2, SelectionFacts

(* What the options give tells switches from flags with a value.           *)
LEMMA SwitchesGiven ==
  ASSUME NEW args, NEW o, OptionsFit(args, o)
  PROVE  /\ \A f \in Switches : f \in Given(o) <=> f \in o.on
         /\ \A f \in ValueFlags : f \in Given(o) <=> f \in DOMAIN o.value
BY DEF OptionsFit, Given, Switches, ValueFlags

LEMMA Arguments ==
  ASSUME RInv, NEW p \in Procs
  PROVE  argv[p] \in Seq(Seq(STRING) \ {<<>>})
BY SessionsAssumption DEF RInv, Procs

LEMMA PlainName == Spares(<<"a", "exe">>)
<1>1. Last(<<"a", "exe">>) = "exe"
  BY DEF Last
<1> QED
  BY <1>1 DEF Spares

-----------------------------------------------------------------------------
(* The steps that write artifacts.                                         *)
LEMMA GenerateCppReports ==
  ASSUME BInv, RInv, NEW p \in Procs, GenerateCpp(p), UNCHANGED benchVars
  PROVE  RInv'
<1> DEFINE next == IF "--no-link" \in options[p].on THEN "done" ELSE "link"
<1>1. /\ stage[p] = "bootstrap" /\ next \in {"done", "link", "llvm"}
      /\ Emit(p, CppPath(options[p]), Artifact(p, "cpp", ""), next)
  BY DEF GenerateCpp, At
<1>2. /\ OptionsFit(argv[p], options[p])
      /\ options[p].on \cap (Listings \cup {"--benchmark"}) = {}
  BY <1>1, Emitting
<1>3. "--bootstrap-cpp" \in options[p].on /\ Kinds(p) = {}
  BY <1>1 DEF RInv, Report, Branched, Produced, Kinds
<1>4. Spares(CppPath(options[p]))
  BY <1>2, Arguments, InputSpared, GivenSpared DEF CppPath
<1>5. next = "done" => Kinds(p) \cup {"cpp"} = Wanted(p)
  BY <1>2, <1>3, SwitchesGiven DEF Wanted, Switches
<1>6. next # "llvm" /\ (next = "link" => "--no-link" \notin options[p].on)
  OBVIOUS
<1> HIDE DEF next
<1> QED
  BY <1>1, <1>3, <1>4, <1>5, <1>6, EmitReports DEF DriverStep

LEMMA RunCxxReports ==
  ASSUME BInv, RInv, NEW p \in Procs, RunCxx(p), UNCHANGED benchVars
  PROVE  RInv'
<1>1. /\ stage[p] = "link"
      /\ Emit(p, ValueOr(options[p], "-o", <<"a", "exe">>), Artifact(p, "cxx", ""), "done")
  BY DEF RunCxx, At
<1>2. /\ OptionsFit(argv[p], options[p])
      /\ options[p].on \cap (Listings \cup {"--benchmark"}) = {}
  BY <1>1, Emitting
<1>3. "--bootstrap-cpp" \in options[p].on /\ "--no-link" \notin options[p].on /\ Kinds(p) = {"cpp"}
  BY <1>1 DEF RInv, Report, Branched, Produced
<1>4. Spares(ValueOr(options[p], "-o", <<"a", "exe">>))
  BY <1>2, Arguments, PlainName, GivenSpared
<1>5. Kinds(p) \cup {"cxx"} = Wanted(p)
  BY <1>2, <1>3, SwitchesGiven DEF Wanted, Switches
<1> QED
  BY <1>1, <1>4, <1>5, EmitReports DEF DriverStep

LEMMA CompileNativeReports ==
  ASSUME BInv, RInv, NEW p \in Procs, CompileNative(p), UNCHANGED benchVars
  PROVE  RInv'
<1> DEFINE f == Chosen(p).format
<1> DEFINE arch == IF f = "pe" THEN "X64" ELSE Chosen(p).triple.arch
<1> DEFINE name == ValueOr(options[p], "-o", DefaultFormatPath(options[p].inputs[1], f))
<1>1. stage[p] = "native" /\ Emit(p, name, Artifact(p, f, arch), "done")
  BY DEF CompileNative, At
<1>2. /\ OptionsFit(argv[p], options[p])
      /\ options[p].on \cap (Listings \cup {"--benchmark"}) = {}
  BY <1>1, Emitting
<1>3. options[p].on \cap {"--bootstrap-cpp", "--emit-vir", "--emit-llvm"} = {} /\ Kinds(p) = {}
  BY <1>1 DEF RInv, Report, Branched, Produced, Kinds
<1>4. /\ Chosen(p) \in Selections(SelectedTriple(options[p]), AskedFormats(options[p]))
      /\ f \in DOMAIN FormatNames /\ f # "vlt"
  BY <1>1, ChosenFacts
<1> HIDE DEF f
<1>6. Spares(DefaultFormatPath(options[p].inputs[1], f))
  BY <1>2, <1>4, Arguments, InputSpared DEF DefaultFormatPath
<1>7. Spares(name)
  BY <1>2, <1>6, Arguments, GivenSpared
<1>8. "--emit" \in Given(options[p]) => AskedFormats(options[p]) = {f}
  <2>1. SUFFICES ASSUME "--emit" \in Given(options[p]) PROVE AskedFormats(options[p]) = {f}
    OBVIOUS
  <2>2. "--emit" \in DOMAIN options[p].value
    BY <1>2, <2>1, SwitchesGiven DEF ValueFlags
  <2>3. AskedFormats(options[p]) # {} /\ AskedFormats(options[p]) = BinaryFormats(options[p].value["--emit"][1])
    BY <1>2, <2>2 DEF OptionsFit, AskedFormats
  <2>4. f \in AskedFormats(options[p])
    BY <1>4, <2>3, SelectionFacts DEF f
  <2> QED
    BY <2>3, <2>4, OneFormat
<1>9. Kinds(p) \cup {f} = Wanted(p)
  <2>1. Given(options[p]) \cap {"--bootstrap-cpp", "--emit-vir", "--emit-llvm"} = {}
    BY <1>2, <1>3, SwitchesGiven DEF Switches
  <2> QED
    BY <1>3, <1>8, <2>1 DEF Wanted, f
<1>10. f = Chosen(p).format
  BY DEF f
<1> HIDE DEF name, arch
<1> QED
  BY <1>1, <1>7, <1>9, <1>10, EmitReports DEF DriverStep

LEMMA EmitVirReports ==
  ASSUME BInv, RInv, NEW p \in Procs, EmitVir(p), UNCHANGED benchVars
  PROVE  RInv'
<1> DEFINE next == IF "--emit-llvm" \in options[p].on THEN "llvm" ELSE "done"
<1> DEFINE name == ValueOr(options[p], "-o", DefaultArtifactPath(options[p].inputs[1], "vir"))
<1>1. /\ stage[p] = "vir" /\ next \in {"done", "link", "llvm"}
      /\ Emit(p, name, Artifact(p, "vir", ""), next)
  BY DEF EmitVir, At
<1>2. /\ OptionsFit(argv[p], options[p])
      /\ options[p].on \cap (Listings \cup {"--benchmark"}) = {}
  BY <1>1, Emitting
<1>3. "--bootstrap-cpp" \notin options[p].on /\ "--emit-vir" \in options[p].on /\ Kinds(p) = {}
  BY <1>1 DEF RInv, Report, Branched, Produced, Kinds
<1>4. Spares(name)
  BY <1>2, Arguments, InputSpared, GivenSpared
<1>5. next = "done" => Kinds(p) \cup {"vir"} = Wanted(p)
  <2>1. /\ "--bootstrap-cpp" \notin Given(options[p]) /\ "--emit-vir" \in Given(options[p])
        /\ next = "done" => "--emit-llvm" \notin Given(options[p])
    BY <1>2, <1>3, SwitchesGiven DEF Switches
  <2> QED
    BY <1>3, <2>1 DEF Wanted, EmitFlag
<1>6. next # "link" /\ (next = "llvm" => "--emit-llvm" \in options[p].on)
  OBVIOUS
<1>7. Kinds(p) \cup {"vir"} = IF "--emit-vir" \in options[p].on THEN {"vir"} ELSE {}
  BY <1>3
<1> HIDE DEF next, name
<1>8. next = "llvm" => /\ "--bootstrap-cpp" \notin options[p].on /\ "--emit-llvm" \in options[p].on
                       /\ Kinds(p) \cup {"vir"} = IF "--emit-vir" \in options[p].on THEN {"vir"} ELSE {}
  BY <1>3, <1>6, <1>7
<1>9. DriverStep(p) /\ stage[p] \in {"bootstrap", "link", "native", "vir", "llvm"}
  BY <1>1 DEF DriverStep
<1> QED
  BY <1>1, <1>4, <1>5, <1>6, <1>8, <1>9, EmitReports

LEMMA EmitLlvmReports ==
  ASSUME BInv, RInv, NEW p \in Procs, EmitLlvm(p), UNCHANGED benchVars
  PROVE  RInv'
<1> DEFINE name == ValueOr(options[p], "-o", DefaultArtifactPath(options[p].inputs[1], "ll"))
<1>1. stage[p] = "llvm" /\ Emit(p, name, Artifact(p, "llvm", ""), "done")
  BY DEF EmitLlvm, At
<1>2. /\ OptionsFit(argv[p], options[p])
      /\ options[p].on \cap (Listings \cup {"--benchmark"}) = {}
  BY <1>1, Emitting
<1>3. /\ "--bootstrap-cpp" \notin options[p].on /\ "--emit-llvm" \in options[p].on
      /\ Kinds(p) = IF "--emit-vir" \in options[p].on THEN {"vir"} ELSE {}
  BY <1>1 DEF RInv, Report, Branched, Produced
<1>4. Spares(name)
  BY <1>2, Arguments, InputSpared, GivenSpared
<1>5. Kinds(p) \cup {"llvm"} = Wanted(p)
  <2>1. /\ "--bootstrap-cpp" \notin Given(options[p]) /\ "--emit-llvm" \in Given(options[p])
        /\ "--emit-vir" \in Given(options[p]) <=> "--emit-vir" \in options[p].on
    BY <1>2, <1>3, SwitchesGiven DEF Switches
  <2> QED
    BY <1>3, <2>1 DEF Wanted, EmitFlag
<1> HIDE DEF name
<1> QED
  BY <1>1, <1>4, <1>5, EmitReports DEF DriverStep

LEMMA DriverReports ==
  ASSUME BInv, RInv, NEW p \in Procs, DriverStep(p), UNCHANGED benchVars
  PROVE  RInv'
BY ParseReports, ListReports, SelectReports, FrontendReports, GenerateCppReports, RunCxxReports,
   CompileNativeReports, EmitVirReports, EmitLlvmReports DEF DriverStep

-----------------------------------------------------------------------------
(* Steps of a benchmark run: it has no selection, and writes and removes   *)
(* nothing but its executable.                                             *)
Runs(p) ==
  /\ stage[p] \in {"benchmark"} \cup Running /\ stage'[p] \in Running \cup {"done"}
  /\ UNCHANGED <<argv, options, selection, listed>>
  /\ stage' = [stage EXCEPT ![p] = stage'[p]] /\ exit' = [exit EXCEPT ![p] = exit'[p]]
  /\ \A q \in Procs : moment[q] # 0 => moment'[q] = moment[q]
  /\ \/ UNCHANGED <<disk, wrote>>
     \/ \E content : PutFile(p, ExePath(p), content)
     \/ UNCHANGED wrote /\ ~KeepExecutable(p) /\ stage[p] \in Running
        /\ disk' = Restrict(disk, DOMAIN disk \ {ExePath(p)})

LEMMA ExeSpared ==
  ASSUME RInv, NEW p \in Procs, OptionsFit(argv[p], options[p])
  PROVE  Spares(ExePath(p))
<1>1. Last(<<"voltis_benchmark_", ToString(moment[p]), "exe">>) = "exe"
  BY DEF Last
<1>2. Spares(<<"voltis_benchmark_", ToString(moment[p]), "exe">>)
  BY <1>1 DEF Spares
<1> QED
  BY <1>2, Arguments, GivenSpared DEF ExePath

LEMMA RunsReports ==
  ASSUME BInv, RInv, NEW p \in Procs, Runs(p)
  PROVE  RInv'
<1>1. /\ stage = [q \in Procs |-> stage[q]] /\ exit = [q \in Procs |-> exit[q]]
      /\ wrote = [q \in Procs |-> wrote[q]] /\ selection = [q \in Procs |-> selection[q]]
  BY DEF BInv, Typed, RInv
<1>2. Report(p)
  BY DEF RInv
<1>3. /\ OptionsFit(argv[p], options[p])
      /\ options[p].on \cap Listings = {} /\ "--benchmark" \in options[p].on
      /\ selection[p] = {}
  BY <1>2 DEF Runs, Report, Branched, Selected, Compiling, Running, Recording
<1>4. Spares(ExePath(p)) /\ \A f : Spares(f)' <=> Spares(f)
  BY <1>3, ExeSpared, SparesStays DEF Runs
<1>5. "--target" \notin DOMAIN options[p].value
  BY <1>3 DEF OptionsFit, Coherent, Given, Listings
<1>6. \A w \in wrote'[p] : Spares(w[1])
  <2>1. CASE UNCHANGED wrote
    BY <1>2, <2>1 DEF Report
  <2>2. CASE \E content : PutFile(p, ExePath(p), content)
    <3>1. PICK content : PutFile(p, ExePath(p), content)
      BY <2>2
    <3>2. wrote'[p] = wrote[p] \cup {<<ExePath(p), content>>}
      BY <1>1, <3>1 DEF PutFile
    <3> QED
      BY <1>2, <1>4, <3>2 DEF Report
  <2> QED
    BY <2>1, <2>2 DEF Runs
<1>7. Branched(p)' /\ Selected(p)' /\ Declined(p)' /\ Produced(p)'
  <2>1. /\ stage'[p] \in Running \cup {"done"} /\ argv' = argv
        /\ options' = options /\ selection' = selection
    BY DEF Runs
  <2>2. Branched(p)'
    BY <1>3, <2>1 DEF Branched, Compiling, Running, Recording
  <2>3. Selected(p)' /\ Declined(p)' /\ Produced(p)'
    BY <1>3, <1>5, <2>1 DEF Selected, Declined, Produced, Compiling, Running, Recording
  <2> QED
    BY <2>2, <2>3
<1>8. Report(p)'
  BY <1>4, <1>6, <1>7 DEF Report
<1>9. Leaves(p)
  <2>1. \A q \in Procs \ {p} : stage'[q] = stage[q] /\ exit'[q] = exit[q]
    BY <1>1 DEF Runs
  <2>2. \A q \in Procs \ {p} : wrote'[q] = wrote[q]
    BY <1>1 DEF Runs, PutFile
  <2> QED
    BY <1>1, <2>1, <2>2 DEF Leaves, Runs
<1>10. Touches(p)
  <2>1. CASE UNCHANGED <<disk, wrote>>
    BY <2>1 DEF Touches
  <2>2. CASE \E content : PutFile(p, ExePath(p), content)
    <3>1. PICK content : PutFile(p, ExePath(p), content)
      BY <2>2
    <3> QED
      BY <1>4, <3>1 DEF Touches
  <2>3. CASE UNCHANGED wrote /\ ~KeepExecutable(p) /\ stage[p] \in Running
             /\ disk' = Restrict(disk, DOMAIN disk \ {ExePath(p)})
    <3>1. moment[p] # 0
      BY <2>3 DEF BInv, Account, Clocked
    <3>2. ExePath(p) \in Temporaries
      BY <2>3, <3>1 DEF Temporaries
    <3> QED
      BY <1>4, <2>3, <3>2 DEF Touches
  <2> QED
    BY <2>1, <2>2, <2>3 DEF Runs
<1> QED
  BY <1>8, <1>9, <1>10, OneReport DEF RInv, Runs

LEMMA BenchmarkRuns ==
  ASSUME BInv, NEW p \in Procs, BenchmarkStep(p)
  PROVE  Runs(p)
<1>1. /\ stage = [q \in Procs |-> stage[q]] /\ exit = [q \in Procs |-> exit[q]]
      /\ moment = [q \in Procs |-> moment[q]]
  BY DEF BInv, Typed
<1>2. CASE StartBenchmark(p)
  <2>1. moment[p] = 0
    BY <1>2 DEF StartBenchmark, At, BInv, Account, Clocked, Running, Recording
  <2>2. PICK m : moment' = [moment EXCEPT ![p] = m]
    BY <1>2 DEF StartBenchmark
  <2>3. \A q \in Procs : moment[q] # 0 => moment'[q] = moment[q]
    BY <1>1, <2>1, <2>2
  <2> QED
    BY <1>1, <1>2, <2>3 DEF StartBenchmark, At, Goto, Runs, Running
<1>3. CASE CompileOp(p)
  <2>1. /\ stage[p] = "compiling" /\ UNCHANGED <<argv, options, stage, selection, listed, exit, moment>>
        /\ UNCHANGED <<disk, wrote>> \/ PutFile(p, ExePath(p), Artifact(p, "pe", "X64"))
    BY <1>3 DEF CompileOp, At
  <2>2. UNCHANGED <<disk, wrote>> \/ \E content : PutFile(p, ExePath(p), content)
    BY <2>1
  <2> QED
    BY <1>1, <2>1, <2>2 DEF Runs, Running
<1>4. CASE Compiled(p)
  BY <1>1, <1>4 DEF Compiled, At, Fails, End, Goto, Runs, Running
<1>5. CASE BenchmarkOp(p)
  BY <1>1, <1>5 DEF BenchmarkOp, driverVars, At, Runs, Running
<1>6. CASE Benchmarked(p)
  BY <1>1, <1>6 DEF Benchmarked, benchVars, At, Fails, End, Goto, Runs, Running, Recording
<1>7. CASE CheckHeader(p) \/ OpenHistory(p) \/ AppendHistory(p)
  <2>1. /\ stage[p] \in Recording /\ UNCHANGED <<argv, options, selection, disk, wrote, listed, moment>>
        /\ \E s \in Recording : Goto(p, s)
    BY <1>7 DEF CheckHeader, OpenHistory, AppendHistory, At, Recording
  <2> QED
    BY <1>1, <2>1 DEF Goto, Runs, Running, Recording
<1>8. CASE CleanUp(p)
  <2>1. /\ stage[p] = "cleanup" /\ UNCHANGED <<argv, options, selection, wrote, listed, moment>>
        /\ End(p, "ok")
        /\ UNCHANGED disk \/ (~KeepExecutable(p) /\ disk' = Restrict(disk, DOMAIN disk \ {ExePath(p)}))
    BY <1>8 DEF CleanUp, At
  <2> QED
    BY <1>1, <2>1 DEF End, Runs, Running, Recording
<1> QED
  BY <1>2, <1>3, <1>4, <1>5, <1>6, <1>7, <1>8 DEF BenchmarkStep

(* A process that is killed reports nothing.                               *)
LEMMA KillReports ==
  ASSUME BInv, RInv, NEW p \in Procs, Kill(p)
  PROVE  RInv'
<1>1. /\ stage = [q \in Procs |-> stage[q]] /\ exit = [q \in Procs |-> exit[q]]
      /\ UNCHANGED <<argv, options, selection, disk, wrote, listed, moment>>
  BY DEF BInv, Typed, Kill
<1>2. /\ stage' = [q \in Procs |-> IF q = p THEN "done" ELSE stage[q]]
      /\ exit' = [q \in Procs |-> IF q = p THEN "killed" ELSE exit[q]]
  BY <1>1 DEF Kill, End
<1>3. Report(p)
  BY DEF RInv
<1>4. Chosen(p)' = Chosen(p) /\ Kinds(p)' = Kinds(p) /\ \A f : Spares(f)' <=> Spares(f)
  BY <1>1, SparesStays DEF Chosen, Kinds
<1>5. Branched(p)'
  BY <1>1, <1>2, <1>3 DEF Report, Branched, Compiling, Running, Recording
<1>6. Selected(p)' /\ Declined(p)'
  BY <1>1, <1>2, <1>3 DEF Report, Selected, Declined, Compiling
<1>7. Produced(p)'
  BY <1>1, <1>2, <1>3, <1>4 DEF Report, Produced
<1>8. Report(p)'
  BY <1>1, <1>3, <1>4, <1>5, <1>6, <1>7 DEF Report
<1>9. Leaves(p)
  BY <1>1, <1>2 DEF Leaves, RInv
<1> QED
  BY <1>1, <1>8, <1>9, OneReport DEF Touches, RInv

-----------------------------------------------------------------------------
LEMMA RInit == Init => RInv
<1> SUFFICES ASSUME Init PROVE RInv
  OBVIOUS
<1>1. /\ argv \in Sessions /\ listed = {} /\ disk = [f \in Inputs |-> Source]
      /\ options = [p \in Procs |-> NoOptions] /\ stage = [p \in Procs |-> "start"]
      /\ selection = [p \in Procs |-> {}] /\ wrote = [p \in Procs |-> {}]
      /\ exit = [p \in Procs |-> "none"]
  BY DEF Init, DriverInit
<1>2. ASSUME NEW p \in Procs PROVE Report(p)
  <2>1. stage[p] = "start" /\ options[p] = NoOptions /\ selection[p] = {} /\ wrote[p] = {} /\ exit[p] = "none"
    BY <1>1
  <2>2. Branched(p) /\ Selected(p) /\ Declined(p) /\ Produced(p)
    BY <2>1 DEF Branched, Selected, Declined, Produced, Compiling, Running, Recording
  <2> QED
    BY <2>1, <2>2 DEF Report
<1>3. Findable /\ SourcesSafe
  BY <1>1 DEF Findable, SourcesSafe
<1> QED
  BY <1>1, <1>2, <1>3 DEF RInv

LEMMA RNext == BInv /\ RInv /\ [Next]_vars => RInv'
<1> SUFFICES ASSUME BInv, RInv, [Next]_vars PROVE RInv'
  OBVIOUS
<1>1. CASE UNCHANGED vars
  <2>1. /\ UNCHANGED <<argv, options, stage, selection, disk, wrote, listed, exit, moment>>
        /\ Procs' = Procs
    BY <1>1 DEF vars, driverVars, benchVars, Procs
  <2>2. CASE Procs = {}
    <3>1. (\A p \in Procs : Report(p))' /\ Findable'
      BY <2>1, <2>2 DEF Findable
    <3>2. SourcesSafe'
      BY <2>1, SparesStays DEF SourcesSafe, RInv
    <3>3. (listed \subseteq Printed(FALSE))'
      BY <2>1 DEF Printed, RInv
    <3> QED
      BY <2>1, <3>1, <3>2, <3>3 DEF RInv
  <2>3. ASSUME NEW p \in Procs PROVE RInv'
    <3>1. Leaves(p)
      BY <2>1 DEF Leaves, RInv
    <3>2. Report(p)'
      <4>1. Report(p) /\ \A f : Spares(f)' <=> Spares(f)
        BY <2>1, SparesStays DEF RInv
      <4>2. Chosen(p)' = Chosen(p) /\ Wanted(p)' = Wanted(p) /\ Kinds(p)' = Kinds(p)
        BY <2>1 DEF Chosen, Wanted, Kinds
      <4>3. Branched(p)' /\ Selected(p)' /\ Declined(p)'
        BY <2>1, <4>1 DEF Report, Branched, Selected, Declined
      <4>4. Produced(p)'
        BY <2>1, <4>1, <4>2 DEF Report, Produced
      <4> QED
        BY <2>1, <4>1, <4>3, <4>4 DEF Report
    <3> QED
      BY <2>1, <3>1, <3>2, OneReport DEF Touches, RInv
  <2> QED
    BY <2>2, <2>3
<1>2. CASE Next
  <2>1. CASE Rest
    BY <1>1, <2>1 DEF Rest
  <2>2. ASSUME NEW p \in Procs, Step(p) \/ Kill(p) PROVE RInv'
    BY <2>2, DriverReports, BenchmarkRuns, RunsReports, KillReports DEF Step
  <2> QED
    BY <1>2, <2>1, <2>2 DEF Next
<1> QED
  BY <1>1, <1>2

LEMMA RReports == RInv => ReportsAreTrue
<1> SUFFICES ASSUME RInv PROVE ReportsAreTrue
  OBVIOUS
<1>1. ASSUME NEW p \in Procs, selection[p] # {}, exit[p] = "ok"
      PROVE  {w[2].kind : w \in wrote[p]} = Wanted(p)
  BY <1>1 DEF RInv, Report, Produced, Kinds
<1>2. ASSUME NEW p \in Procs, selection[p] # {}, NEW w \in wrote[p]
      PROVE  /\ w[1] \notin Temporaries =>
                  w[1] \in DOMAIN disk /\ <<w[1], disk[w[1]]>> \in UNION {wrote[q] : q \in Procs}
             /\ w[2].kind \in DOMAIN FormatNames =>
                  \E d \in DescribeTarget(Chosen(p).triple) :
                    d.readiness # "Planned" /\ \E i \in DOMAIN d.formats : d.formats[i] = w[2].kind
  <2>1. w[1] \notin Temporaries =>
          w[1] \in DOMAIN disk /\ \E q \in Procs : <<w[1], disk[w[1]]>> \in wrote[q]
    BY DEF RInv, Findable
  <2>2. ASSUME w[2].kind \in DOMAIN FormatNames
        PROVE  \E d \in DescribeTarget(Chosen(p).triple) :
                 d.readiness # "Planned" /\ \E i \in DOMAIN d.formats : d.formats[i] = w[2].kind
    <3>1. w[2].kind = Chosen(p).format
      <4>1. w[2].kind \in {"cpp", "cxx", "vir", "llvm", Chosen(p).format}
        BY <1>2 DEF RInv, Report, Produced, Kinds
      <4> QED
        BY <2>2, <4>1 DEF FormatNames
    <3>2. Chosen(p) \in Selections(SelectedTriple(options[p]), AskedFormats(options[p]))
      BY <1>2 DEF RInv, Report, Selected, Chosen
    <3> QED
      BY <3>1, <3>2, SelectionFacts
  <2> QED
    BY <2>1, <2>2
<1>3. ASSUME NEW p \in Procs, exit[p] = "error", DOMAIN options[p].value = {"--target"}, selection[p] = {}
      PROVE  options[p].value["--target"] \notin listed
  <2>1. Selections(options[p].value["--target"], {}) = {}
    BY <1>3 DEF RInv, Report, Declined
  <2>2. options[p].value["--target"] \notin Printed(FALSE)
    BY <2>1, ProductionIsSelected DEF Printed
  <2> QED
    BY <2>2 DEF RInv
<1>4. ASSUME NEW f \in Inputs \ (NamedOutputs \cup Stems), Last(f) = "vlt"
      PROVE  f \in DOMAIN disk /\ disk[f] = Source
  BY <1>4 DEF RInv, SourcesSafe, Spares
<1> QED
  BY <1>1, <1>2, <1>3, <1>4 DEF ReportsAreTrue

(* An invocation that ends well has written what was asked for, in a       *)
(* format that the target has, and it is still there or has been replaced  *)
(* by another's artifact, unless a benchmark run removes what has its      *)
(* name; no triple that --list-targets prints is refused, and no .vlt file *)
(* is overwritten that no option and no argument's stem names, however the *)
(* invocations interleave (main, parseCliOptions).                         *)
THEOREM ReportsAlwaysTrue == Spec => []ReportsAreTrue
<1>1. BInv /\ [Next]_vars => BInv'
  BY BNext
<1>2. BInv /\ RInv /\ [Next]_vars => RInv'
  BY RNext
<1> QED
  BY BInit, RInit, <1>1, <1>2, RReports, PTL DEF Spec

-----------------------------------------------------------------------------
(* ---- Reading the history.  --------------------------------------------- *)
(* The provers take a name of a run for a value of any kind, and do not    *)
(* know that a literal is a string.                                        *)
RunNames == STRING
TokenKinds == {",", "newline", "timestamp", "title", "time", "compile", "run", "count"}
Tokens == (RunNames \cup TokenKinds) \X (RunNames \cup {"nobody"})

(* A separator, or the end of the text, is where std::getline stops when   *)
(* there is none before.                                                   *)
StopsAt(text, separator, end) ==
  /\ end \in 1 .. Len(text) + 1
  /\ end <= Len(text) => text[end] = separator
  /\ \A k \in 1 .. end - 1 : text[k] # separator

LEMMA Stops ==
  ASSUME NEW S, NEW text \in Seq(S), NEW separator
  PROVE  \E end : StopsAt(text, separator, end)
<1> DEFINE I == {i \in 1 .. Len(text) : text[i] = separator} \cup {Len(text) + 1}
<1>1. I \subseteq Nat /\ I # {}
  BY LengthFacts
<1>2. PICK end \in I : \A y \in I : end <= y
  <2> HIDE DEF I
  <2> QED
    BY <1>1, Smallest
<1>3. StopsAt(text, separator, end)
  <2>1. Len(text) \in Nat
    BY LengthFacts
  <2>2. end \in 1 .. Len(text) + 1 /\ (end <= Len(text) => text[end] = separator)
    BY <2>1
  <2>3. ASSUME NEW k \in 1 .. end - 1 PROVE text[k] # separator
    BY <1>2, <2>1, <2>2
  <2> QED
    BY <2>2, <2>3 DEF StopsAt
<1> QED
  BY <1>3

LEMMA GetlineFacts ==
  ASSUME NEW S, NEW text \in Seq(S), NEW separator, NEW end, StopsAt(text, separator, end)
  PROVE  /\ Getline(text, separator).got \in Seq(S)
         /\ Len(Getline(text, separator).got) = end - 1
         /\ \A k \in 1 .. end - 1 : Getline(text, separator).got[k] = text[k]
         /\ Getline(text, separator).rest \in Seq(S)
         /\ end < Len(text) => Len(Getline(text, separator).rest) = Len(text) - end
         /\ \A k \in 1 .. Len(text) - end : Getline(text, separator).rest[k] = text[end + k]
         /\ end >= Len(text) => Getline(text, separator).rest = <<>>
<1> DEFINE I == {i \in 1 .. Len(text) : text[i] = separator} \cup {Len(text) + 1}
<1>0. Len(text) \in Nat /\ \A i \in 1 .. Len(text) : text[i] \in S
  BY LengthFacts
<1>1. end \in I /\ \A y \in I : end <= y
  <2>1. end \in I
    BY <1>0 DEF StopsAt
  <2>2. ASSUME NEW y \in I PROVE end <= y
    BY <1>0 DEF StopsAt
  <2> QED
    BY <2>1, <2>2
<1>2. I \subseteq Int
  BY <1>0
<1>3. Min(I) = end
  <2> HIDE DEF I
  <2>1. \A x \in I : (\A y \in I : x <= y) => x = end
    BY <1>1, <1>2
  <2> QED
    BY <1>1, <2>1 DEF Min
<1>4. Getline(text, separator) = [got |-> SubSeq(text, 1, end - 1), rest |-> SubSeq(text, end + 1, Len(text))]
  BY <1>3 DEF Getline
<1>5. /\ Getline(text, separator).got = SubSeq(text, 1, end - 1)
      /\ Getline(text, separator).rest = SubSeq(text, end + 1, Len(text))
  <2>1. \A a, b : [got |-> a, rest |-> b].got = a /\ [got |-> a, rest |-> b].rest = b
    OBVIOUS
  <2> QED
    BY <1>4, <2>1, Zenon
<1>6. end \in Int /\ end - 1 \in Int /\ end + 1 \in Int /\ 1 <= end /\ end <= Len(text) + 1
  BY <1>0 DEF StopsAt
<1>7. /\ SubSeq(text, 1, end - 1) \in Seq(S)
      /\ Len(SubSeq(text, 1, end - 1)) = IF 1 <= end - 1 THEN end - 1 - 1 + 1 ELSE 0
      /\ \A i \in 1 .. end - 1 - 1 + 1 : SubSeq(text, 1, end - 1)[i] = text[1 + i - 1]
  <2>1. \A i \in 1 .. end - 1 : text[i] \in S
    BY <1>0, <1>6
  <2> QED
    BY <1>6, <2>1, SubSeqProperties
<1>8. /\ SubSeq(text, end + 1, Len(text)) \in Seq(S)
      /\ Len(SubSeq(text, end + 1, Len(text))) = IF end + 1 <= Len(text) THEN Len(text) - (end + 1) + 1 ELSE 0
      /\ \A i \in 1 .. Len(text) - (end + 1) + 1 : SubSeq(text, end + 1, Len(text))[i] = text[end + 1 + i - 1]
  <2>1. \A i \in end + 1 .. Len(text) : text[i] \in S
    BY <1>0, <1>6
  <2> QED
    BY <1>0, <1>6, <2>1, SubSeqProperties
<1>9. Len(SubSeq(text, 1, end - 1)) = end - 1
  BY <1>6, <1>7
<1>10. \A k \in 1 .. end - 1 : SubSeq(text, 1, end - 1)[k] = text[k]
  BY <1>6, <1>7
<1>11. end < Len(text) => Len(SubSeq(text, end + 1, Len(text))) = Len(text) - end
  BY <1>0, <1>6, <1>8
<1>12. \A k \in 1 .. Len(text) - end : SubSeq(text, end + 1, Len(text))[k] = text[end + k]
  BY <1>0, <1>6, <1>8
<1>13. end >= Len(text) => SubSeq(text, end + 1, Len(text)) = <<>>
  BY <1>0, <1>6, SubSeqEmpty
<1> QED
  BY <1>5, <1>7, <1>8, <1>9, <1>10, <1>11, <1>12, <1>13

(* The line has n tokens.                                                  *)
LineEnds(text, start, n) ==
  /\ start + n <= Len(text) + 1
  /\ start + n <= Len(text) => text[start + n] = Newline
  /\ \A k \in 1 .. n : text[start + k - 1] # Newline

(* The line that starts at a token begins with it, and is a part of the    *)
(* text up to a newline or the end.                                        *)
LEMMA LineFacts ==
  ASSUME NEW text \in Seq(Tokens), NEW start \in 1 .. Len(text), NEW n,
         n \in Nat,
         LineEnds(text, start, n)
  PROVE  /\ Line(text, start) \in Seq(Tokens)
         /\ Len(Line(text, start)) = n
         /\ \A k \in 1 .. n : Line(text, start)[k] = text[start + k - 1]
<1> DEFINE s == SubSeq(text, start, Len(text))
<1>0. Len(text) \in Nat /\ \A i \in 1 .. Len(text) : text[i] \in Tokens
  BY LengthFacts
<1>1. /\ s \in Seq(Tokens)
      /\ Len(s) = IF start <= Len(text) THEN Len(text) - start + 1 ELSE 0
      /\ \A i \in 1 .. Len(text) - start + 1 : s[i] = text[start + i - 1]
  <2>1. \A i \in start .. Len(text) : text[i] \in Tokens
    BY <1>0
  <2>2. start \in Int /\ Len(text) \in Int
    BY <1>0
  <2> QED
    BY <2>1, <2>2, SubSeqProperties
<1>2. Len(s) = Len(text) - start + 1
  BY <1>0, <1>1
<1> HIDE DEF s
<1>3. StopsAt(s, Newline, n + 1)
  <2>1. n + 1 \in 1 .. Len(s) + 1
    BY <1>0, <1>2 DEF LineEnds
  <2>2. n + 1 <= Len(s) => s[n + 1] = Newline
    BY <1>0, <1>1, <1>2 DEF LineEnds
  <2>3. \A k \in 1 .. (n + 1) - 1 : s[k] # Newline
    <3>1. \A k \in 1 .. (n + 1) - 1 : k \in 1 .. n /\ k \in 1 .. Len(text) - start + 1
      BY <1>0 DEF LineEnds
    <3> QED
      BY <1>1, <3>1 DEF LineEnds
  <2> QED
    BY <2>1, <2>2, <2>3 DEF StopsAt
<1>4. Line(text, start) = Getline(s, Newline).got
  BY DEF Line, s
<1>5. /\ Getline(s, Newline).got \in Seq(Tokens)
      /\ Len(Getline(s, Newline).got) = (n + 1) - 1
      /\ \A k \in 1 .. (n + 1) - 1 : Getline(s, Newline).got[k] = s[k]
  BY <1>1, <1>3, GetlineFacts
<1>6. \A k \in 1 .. n : Getline(s, Newline).got[k] = s[k] /\ s[k] = text[start + k - 1]
  <2>1. \A k \in 1 .. n : k \in 1 .. (n + 1) - 1 /\ k \in 1 .. Len(text) - start + 1
    BY <1>0 DEF LineEnds
  <2> QED
    BY <1>1, <1>5, <2>1
<1> QED
  BY <1>4, <1>5, <1>6

LEMMA LineHead ==
  ASSUME NEW text \in Seq(Tokens), NEW start \in 1 .. Len(text)
  PROVE  /\ Line(text, start) \in Seq(Tokens)
         /\ Line(text, start) # <<>> => Line(text, start)[1] = text[start]
<1> DEFINE s == SubSeq(text, start, Len(text))
<1>0. Len(text) \in Nat /\ \A i \in 1 .. Len(text) : text[i] \in Tokens
  BY LengthFacts
<1>1. s \in Seq(Tokens) /\ s[1] = text[start]
  <2>1. \A i \in start .. Len(text) : text[i] \in Tokens
    BY <1>0
  <2>2. start \in Int /\ Len(text) \in Int
    BY <1>0
  <2>3. s \in Seq(Tokens) /\ \A i \in 1 .. Len(text) - start + 1 : s[i] = text[start + i - 1]
    BY <2>1, <2>2, SubSeqProperties
  <2>4. 1 \in 1 .. Len(text) - start + 1 /\ start + 1 - 1 = start
    BY <1>0
  <2> QED
    BY <2>3, <2>4
<1> HIDE DEF s
<1>2. PICK end : StopsAt(s, Newline, end)
  BY <1>1, Stops
<1>3. Line(text, start) = Getline(s, Newline).got
  BY DEF Line, s
<1>4. /\ Getline(s, Newline).got \in Seq(Tokens)
      /\ Len(Getline(s, Newline).got) = end - 1
      /\ \A k \in 1 .. end - 1 : Getline(s, Newline).got[k] = s[k]
  BY <1>1, <1>2, GetlineFacts
<1>5. ASSUME Line(text, start) # <<>> PROVE 1 \in 1 .. end - 1
  <2>1. Len(Line(text, start)) # 0 /\ Len(Line(text, start)) \in Nat
    BY <1>3, <1>4, <1>5, LengthFacts
  <2>2. end \in Int
    BY <1>1, <1>2, LengthFacts DEF StopsAt
  <2> QED
    BY <1>3, <1>4, <2>1, <2>2
<1> QED
  BY <1>1, <1>3, <1>4, <1>5

(* A field of one token.                                                   *)
LEMMA OneTokenField ==
  ASSUME NEW text \in Seq(Tokens), text # <<>>, text[1] # Comma,
         Len(text) >= 2 => text[2] = Comma
  PROVE  /\ Getline(text, Comma).got = <<text[1]>>
         /\ Getline(text, Comma).rest \in Seq(Tokens)
         /\ Len(text) > 2 => Len(Getline(text, Comma).rest) = Len(text) - 2
         /\ \A k \in 1 .. Len(text) - 2 : Getline(text, Comma).rest[k] = text[k + 2]
<1>0. Len(text) \in Nat /\ Len(text) # 0 /\ text[1] \in Tokens
  BY LengthFacts
<1>1. StopsAt(text, Comma, 2)
  <2>1. \A k \in 1 .. 2 - 1 : k = 1
    OBVIOUS
  <2>2. 2 \in 1 .. Len(text) + 1
    BY <1>0
  <2> QED
    BY <2>1, <2>2 DEF StopsAt
<1>5. PICK end : StopsAt(text, Comma, end) /\ end = 2
  BY <1>1
<1>6. /\ Getline(text, Comma).got \in Seq(Tokens)
      /\ Len(Getline(text, Comma).got) = end - 1
      /\ \A k \in 1 .. end - 1 : Getline(text, Comma).got[k] = text[k]
      /\ Getline(text, Comma).rest \in Seq(Tokens)
      /\ end < Len(text) => Len(Getline(text, Comma).rest) = Len(text) - end
      /\ \A k \in 1 .. Len(text) - end : Getline(text, Comma).rest[k] = text[end + k]
  <2>0. StopsAt(text, Comma, end)
    BY <1>5
  <2>1. /\ Getline(text, Comma).got \in Seq(Tokens)
        /\ Len(Getline(text, Comma).got) = end - 1
        /\ \A k \in 1 .. end - 1 : Getline(text, Comma).got[k] = text[k]
    BY <2>0, GetlineFacts
  <2>2. Getline(text, Comma).rest \in Seq(Tokens)
    BY <2>0, GetlineFacts
  <2>3. end < Len(text) => Len(Getline(text, Comma).rest) = Len(text) - end
    BY <2>0, GetlineFacts
  <2>4. \A k \in 1 .. Len(text) - end : Getline(text, Comma).rest[k] = text[end + k]
    BY <2>0, GetlineFacts
  <2> QED
    BY <2>1, <2>2, <2>3, <2>4
<1>2. /\ Getline(text, Comma).got \in Seq(Tokens)
      /\ Len(Getline(text, Comma).got) = 1 /\ Getline(text, Comma).got[1] = text[1]
      /\ Getline(text, Comma).rest \in Seq(Tokens)
      /\ 2 < Len(text) => Len(Getline(text, Comma).rest) = Len(text) - 2
      /\ \A k \in 1 .. Len(text) - 2 : Getline(text, Comma).rest[k] = text[2 + k]
  BY <1>5, <1>6
<1>3. Getline(text, Comma).got = <<text[1]>>
  <2>1. \A got \in Seq(Tokens) : Len(got) = 1 => got = <<got[1]>>
    OBVIOUS
  <2>2. Len(Getline(text, Comma).got) = 1 /\ Getline(text, Comma).got[1] = text[1]
    BY <1>2
  <2> QED
    BY <1>2, <2>1, <2>2
<1>4. \A k \in 1 .. Len(text) - 2 : 2 + k = k + 2
  BY <1>0
<1> QED
  BY <1>0, <1>2, <1>3, <1>4

(* Four fields of one token each: the record of the line has to be numbers *)
(* but for the time.                                                       *)
FourFields(line) == <<<<line[1]>>, <<line[3]>>, <<line[5]>>, <<line[7]>>>>

LEMMA FourFieldsRead ==
  ASSUME NEW line \in Seq(Tokens), Len(line) = 7,
         \A k \in {1, 3, 5, 7} : line[k] # Comma, \A k \in {2, 4, 6} : line[k] = Comma
  PROVE  ReadRow(line) = {row \in {FourFields(line)} : \A i \in 2 .. 4 : Numeric(row[i])}
<1> DEFINE one == Getline(line, Comma)
           two == Getline(one.rest, Comma)
           three == Getline(two.rest, Comma)
           four == Getline(three.rest, Comma)
<1>0. ReadRow(line) = {row \in {<<one.got, two.got, three.got, four.got>>} :
                         /\ \A text \in {line, one.rest, two.rest, three.rest} : text # <<>>
                         /\ \A i \in 2 .. 4 : Numeric(row[i])}
  BY DEF ReadRow
<1> HIDE DEF one, two, three, four
<1>1. \A text \in Seq(Tokens) : Len(text) > 0 => text # <<>>
  BY LengthFacts
<1>2. /\ one.got = <<line[1]>> /\ one.rest \in Seq(Tokens) /\ Len(one.rest) = 5
      /\ \A k \in 1 .. 5 : one.rest[k] = line[k + 2]
  <2>1. /\ one.got = <<line[1]>> /\ one.rest \in Seq(Tokens)
        /\ Len(line) > 2 => Len(one.rest) = Len(line) - 2
        /\ \A k \in 1 .. Len(line) - 2 : one.rest[k] = line[k + 2]
    <3>1. line # <<>> /\ line[1] # Comma /\ line[2] = Comma
      BY <1>1
    <3> QED
      BY <3>1, OneTokenField DEF one
  <2> QED
    BY <2>1
<1>3. /\ two.got = <<line[3]>> /\ two.rest \in Seq(Tokens) /\ Len(two.rest) = 3
      /\ \A k \in 1 .. 3 : two.rest[k] = line[k + 4]
  <2>1. one.rest[1] = line[3] /\ one.rest[2] = line[4] /\ one.rest # <<>>
    BY <1>1, <1>2
  <2>2. /\ two.got = <<one.rest[1]>> /\ two.rest \in Seq(Tokens)
        /\ Len(one.rest) > 2 => Len(two.rest) = Len(one.rest) - 2
        /\ \A k \in 1 .. Len(one.rest) - 2 : two.rest[k] = one.rest[k + 2]
    BY <1>2, <2>1, OneTokenField DEF two
  <2>3. \A k \in 1 .. 3 : two.rest[k] = one.rest[k + 2] /\ one.rest[k + 2] = line[k + 4]
    <3>1. \A k \in 1 .. 3 : k \in 1 .. Len(one.rest) - 2 /\ k + 2 \in 1 .. 5 /\ k + 2 + 2 = k + 4
      BY <1>2
    <3> QED
      BY <1>2, <2>2, <3>1
  <2> QED
    BY <1>2, <2>1, <2>2, <2>3
<1>4. /\ three.got = <<line[5]>> /\ three.rest \in Seq(Tokens) /\ Len(three.rest) = 1
      /\ three.rest[1] = line[7]
  <2>1. two.rest[1] = line[5] /\ two.rest[2] = line[6] /\ two.rest[3] = line[7] /\ two.rest # <<>>
    BY <1>1, <1>3
  <2>2. /\ three.got = <<two.rest[1]>> /\ three.rest \in Seq(Tokens)
        /\ Len(two.rest) > 2 => Len(three.rest) = Len(two.rest) - 2
        /\ \A k \in 1 .. Len(two.rest) - 2 : three.rest[k] = two.rest[k + 2]
    BY <1>3, <2>1, OneTokenField DEF three
  <2> QED
    BY <1>3, <2>1, <2>2
<1>5. four.got = <<line[7]>>
  <2>1. three.rest # <<>>
    BY <1>1, <1>4
  <2> QED
    BY <1>4, <2>1, OneTokenField DEF four
<1>6. \A text \in {line, one.rest, two.rest, three.rest} : text # <<>>
  BY <1>1, <1>2, <1>3, <1>4
<1>7. <<one.got, two.got, three.got, four.got>> = FourFields(line)
  BY <1>2, <1>3, <1>4, <1>5 DEF FourFields
<1> QED
  BY <1>0, <1>6, <1>7

LEMMA TokenFacts ==
  /\ \A kind \in TokenKinds : Word(kind) \in Tokens /\ \A p \in RunNames : <<kind, p>> \in Tokens
  /\ Comma \in Tokens /\ Newline \in Tokens
BY DEF Tokens, TokenKinds, Word, Comma, Newline

LEMMA RowFacts ==
  ASSUME NEW p \in RunNames
  PROVE  /\ Row(p) \in Seq(Tokens) /\ Len(Row(p)) = 8
         /\ Row(p)[1] = <<"time", p>> /\ Row(p)[2] = Comma /\ Row(p)[3] = <<"compile", p>>
         /\ Row(p)[4] = Comma /\ Row(p)[5] = <<"run", p>> /\ Row(p)[6] = Comma
         /\ Row(p)[7] = <<"count", p>> /\ Row(p)[8] = Newline
<1>1. /\ <<"time", p>> \in Tokens /\ <<"compile", p>> \in Tokens /\ <<"run", p>> \in Tokens
      /\ <<"count", p>> \in Tokens /\ Comma \in Tokens /\ Newline \in Tokens
  BY TokenFacts DEF TokenKinds
<1>2. \A a, b, c, d, e, f, g, h \in Tokens : <<a, b, c, d, e, f, g, h>> \in Seq(Tokens)
  OBVIOUS
<1>3. Row(p) \in Seq(Tokens)
  BY <1>1, <1>2 DEF Row
<1> QED
  BY <1>3 DEF Row

LEMMA HeaderFacts ==
  /\ Header \in Seq(Tokens) /\ Len(Header) = 8
  /\ Header[1] = Word("timestamp") /\ Header[2] = Comma /\ Header[3] = Word("title")
  /\ Header[4] = Comma /\ Header[5] = Word("title") /\ Header[6] = Comma
  /\ Header[7] = Word("title") /\ Header[8] = Newline
<1>1. Word("timestamp") \in Tokens /\ Word("title") \in Tokens /\ Comma \in Tokens /\ Newline \in Tokens
  BY TokenFacts DEF TokenKinds
<1>2. \A a, b, c, d, e, f, g, h \in Tokens : <<a, b, c, d, e, f, g, h>> \in Seq(Tokens)
  OBVIOUS
<1>3. Header \in Seq(Tokens)
  BY <1>1, <1>2 DEF Header
<1> QED
  BY <1>3 DEF Header

(* The line of a row or a header holds all but its newline.                *)
LEMMA PartLine ==
  ASSUME NEW text \in Seq(Tokens), NEW start, NEW part \in Seq(Tokens), Begins(text, start, part),
         Len(part) = 8, part[8] = Newline, \A k \in 1 .. 7 : part[k] # Newline
  PROVE  /\ Line(text, start) \in Seq(Tokens) /\ Len(Line(text, start)) = 7
         /\ \A k \in 1 .. 7 : Line(text, start)[k] = part[k]
<1>0. Len(text) \in Nat /\ DOMAIN part = 1 .. 8
  BY LengthFacts
<1>1. /\ start \in 1 .. Len(text) /\ start + 7 <= Len(text)
      /\ \A i \in 1 .. 8 : text[start + i - 1] = part[i]
  BY <1>0 DEF Begins, LineStarts
<1>2. text[start + 7] = Newline /\ \A k \in 1 .. 7 : text[start + k - 1] # Newline
  <2>1. 8 \in 1 .. 8 /\ start + 8 - 1 = start + 7 /\ \A k \in 1 .. 7 : k \in 1 .. 8
    BY <1>0, <1>1
  <2> QED
    BY <1>1, <2>1
<1>3. start + 7 <= Len(text) + 1
  BY <1>0, <1>1
<1>4. PICK n \in Nat : n = 7
  OBVIOUS
<1>5. /\ Line(text, start) \in Seq(Tokens) /\ Len(Line(text, start)) = n
      /\ \A k \in 1 .. n : Line(text, start)[k] = text[start + k - 1]
  <2>1. LineEnds(text, start, n)
    BY <1>2, <1>3, <1>4 DEF LineEnds
  <2>2. start \in 1 .. Len(text)
    BY <1>1
  <2>3. Line(text, start) \in Seq(Tokens) /\ Len(Line(text, start)) = n
    BY <2>1, <2>2, LineFacts
  <2>4. \A k \in 1 .. n : Line(text, start)[k] = text[start + k - 1]
    BY <2>1, <2>2, LineFacts
  <2> QED
    BY <2>3, <2>4
<1>6. \A k \in 1 .. 7 : k \in 1 .. 8
  OBVIOUS
<1> QED
  BY <1>1, <1>4, <1>5, <1>6

LEMMA WholeRowFacts == \A p : WholeRow(p) = FourFields(Row(p))
BY DEF WholeRow, FourFields, Row

(* A row that starts a line is read as the record it is.                   *)
LEMMA RowLine ==
  ASSUME NEW text \in Seq(Tokens), NEW p \in RunNames, NEW start, Begins(text, start, Row(p))
  PROVE  /\ ReadRow(Line(text, start)) = {WholeRow(p)}
         /\ ~IsHeader(Line(text, start), start)
<1> DEFINE line == Line(text, start)
<1>1. line \in Seq(Tokens) /\ Len(line) = 7 /\ \A k \in 1 .. 7 : line[k] = Row(p)[k]
  <2>1. \A k \in 1 .. 7 : Row(p)[k] # Newline
    <3>1. \A k \in 1 .. 7 : k = 1 \/ k = 2 \/ k = 3 \/ k = 4 \/ k = 5 \/ k = 6 \/ k = 7
      OBVIOUS
    <3>2. Comma # Newline /\ \A kind \in {"time", "compile", "run", "count"} : <<kind, p>> # Newline
      BY DEF Comma, Newline, Word
    <3> QED
      BY <3>1, <3>2, RowFacts
  <2> QED
    BY <2>1, RowFacts, PartLine
<1> HIDE DEF line
<1>2. /\ line[1] = <<"time", p>> /\ line[2] = Comma /\ line[3] = <<"compile", p>> /\ line[4] = Comma
      /\ line[5] = <<"run", p>> /\ line[6] = Comma /\ line[7] = <<"count", p>>
  BY <1>1, RowFacts
<1>3. ReadRow(line) = {row \in {FourFields(line)} : \A i \in 2 .. 4 : Numeric(row[i])}
  <2>1. \A k \in {1, 3, 5, 7} : line[k] # Comma
    <3>1. \A kind \in {"time", "compile", "run", "count"} : <<kind, p>> # Comma
      BY DEF Comma, Word
    <3> QED
      BY <1>2, <3>1
  <2> QED
    BY <1>1, <1>2, <2>1, FourFieldsRead
<1>4. FourFields(line) = WholeRow(p)
  BY <1>2, WholeRowFacts, RowFacts DEF FourFields
<1>5. \A i \in 2 .. 4 : Numeric(FourFields(line)[i])
  <2>1. \A kind \in {"compile", "run", "count"} : Numeric(<<<<kind, p>>>>)
    BY DEF Numeric
  <2>2. /\ FourFields(line)[2] = <<<<"compile", p>>>> /\ FourFields(line)[3] = <<<<"run", p>>>>
        /\ FourFields(line)[4] = <<<<"count", p>>>>
    BY <1>2 DEF FourFields
  <2>3. \A i \in 2 .. 4 : i = 2 \/ i = 3 \/ i = 4
    OBVIOUS
  <2> QED
    BY <2>1, <2>2, <2>3
<1>6. ReadRow(line) = {WholeRow(p)}
  BY <1>3, <1>4, <1>5
<1>7. ~IsHeader(line, start)
  BY <1>2 DEF IsHeader, Word
<1> QED
  BY <1>6, <1>7 DEF line

LEMMA RowRead ==
  ASSUME NEW text \in Seq(Tokens), NEW p \in RunNames, NEW start, Begins(text, start, Row(p))
  PROVE  <<start, WholeRow(p)>> \in ReadBenchmarkHistory(text)
<1>1. WholeRow(p) \in ReadRow(Line(text, start)) /\ ~IsHeader(Line(text, start), start)
  BY RowLine
<1>2. <<start, WholeRow(p)>> \in {<<start, row>> : row \in ReadRow(Line(text, start))}
  BY <1>1
<1>3. start \in {s \in LineStarts(text) : ~IsHeader(Line(text, s), s)}
  BY <1>1 DEF Begins
<1> QED
  BY <1>2, <1>3, Zenon DEF ReadBenchmarkHistory

(* A header has no record, wherever it is.                                 *)
LEMMA HeaderUnread ==
  ASSUME NEW text \in Seq(Tokens), NEW start, Begins(text, start, Header)
  PROVE  ReadRow(Line(text, start)) = {}
<1> DEFINE line == Line(text, start)
<1>1. line \in Seq(Tokens) /\ Len(line) = 7 /\ \A k \in 1 .. 7 : line[k] = Header[k]
  <2>1. \A k \in 1 .. 7 : Header[k] # Newline
    <3>1. \A k \in 1 .. 7 : k = 1 \/ k = 2 \/ k = 3 \/ k = 4 \/ k = 5 \/ k = 6 \/ k = 7
      OBVIOUS
    <3>2. Comma # Newline /\ \A kind \in {"timestamp", "title"} : Word(kind) # Newline
      BY DEF Comma, Newline, Word
    <3> QED
      BY <3>1, <3>2, HeaderFacts
  <2> QED
    BY <2>1, HeaderFacts, PartLine
<1> HIDE DEF line
<1>2. /\ line[1] = Word("timestamp") /\ line[2] = Comma /\ line[3] = Word("title") /\ line[4] = Comma
      /\ line[5] = Word("title") /\ line[6] = Comma /\ line[7] = Word("title")
  BY <1>1, HeaderFacts
<1>3. ReadRow(line) = {row \in {FourFields(line)} : \A i \in 2 .. 4 : Numeric(row[i])}
  <2>1. \A k \in {1, 3, 5, 7} : line[k] # Comma
    <3>1. \A kind \in {"timestamp", "title"} : Word(kind) # Comma
      BY DEF Comma, Word
    <3> QED
      BY <1>2, <3>1
  <2> QED
    BY <1>1, <1>2, <2>1, FourFieldsRead
<1>4. ~Numeric(FourFields(line)[2])
  BY <1>2 DEF FourFields, Numeric, Word
<1>5. 2 \in 2 .. 4
  OBVIOUS
<1> QED
  BY <1>3, <1>4, <1>5 DEF line

(* Every record has been read from a line, whose first token is its first. *)
LEMMA RecordFacts ==
  ASSUME NEW text \in Seq(Tokens), NEW r \in ReadBenchmarkHistory(text)
  PROVE  /\ r[1] \in LineStarts(text)
         /\ r[2] \in ReadRow(Line(text, r[1]))
         /\ \A token : r[2][1] = <<token>> => text[r[1]] = token
<1>1. PICK start \in LineStarts(text) : \E row \in ReadRow(Line(text, start)) : r = <<start, row>>
  BY DEF ReadBenchmarkHistory
<1>2. PICK row \in ReadRow(Line(text, start)) : r = <<start, row>>
  BY <1>1
<1>3. r[1] = start /\ r[2] = row
  BY <1>2
<1>4. row[1] = Getline(Line(text, start), Comma).got
  BY <1>2 DEF ReadRow
<1>5. start \in 1 .. Len(text)
  BY DEF LineStarts
<1>6. ASSUME NEW token, row[1] = <<token>> PROVE text[start] = token
  <2> DEFINE line == Line(text, start)
  <2>1. line \in Seq(Tokens) /\ (line # <<>> => line[1] = text[start])
    BY <1>5, LineHead
  <2> HIDE DEF line
  <2>2. PICK end : StopsAt(line, Comma, end)
    BY <2>1, Stops
  <2>3. /\ Len(Getline(line, Comma).got) = end - 1
        /\ \A k \in 1 .. end - 1 : Getline(line, Comma).got[k] = line[k]
    BY <2>1, <2>2, GetlineFacts
  <2>4. Getline(line, Comma).got = <<token>>
    BY <1>4, <1>6 DEF line
  <2>5. Len(<<token>>) = 1 /\ <<token>>[1] = token
    OBVIOUS
  <2>6. Len(line) \in Nat
    BY <2>1, LengthFacts
  <2>7. end \in 1 .. Len(line) + 1
    BY <2>2 DEF StopsAt
  <2>8. end - 1 = 1 /\ Len(line) # 0
    BY <2>3, <2>4, <2>5, <2>6, <2>7
  <2>9. line # <<>> /\ line[1] = token
    BY <2>1, <2>3, <2>4, <2>5, <2>8, LengthFacts
  <2> QED
    BY <2>1, <2>9
<1> QED
  BY <1>1, <1>2, <1>3, <1>6

-----------------------------------------------------------------------------
(* ---- Appending to the history.  ---------------------------------------- *)

LEMMA Longer ==
  ASSUME NEW text \in Seq(Tokens), NEW part \in Seq(Tokens)
  PROVE  /\ text \o part \in Seq(Tokens)
         /\ Len(text \o part) = Len(text) + Len(part)
         /\ \A i \in 1 .. Len(text) : (text \o part)[i] = text[i]
         /\ \A k \in 1 .. Len(part) : (text \o part)[Len(text) + k] = part[k]
<1>1. Len(text) \in Nat /\ Len(part) \in Nat
  BY LengthFacts
<1>2. /\ text \o part \in Seq(Tokens)
      /\ Len(text \o part) = Len(text) + Len(part)
      /\ \A i \in 1 .. Len(text) + Len(part) :
           (text \o part)[i] = IF i <= Len(text) THEN text[i] ELSE part[i - Len(text)]
  BY ConcatProperties
<1>3. ASSUME NEW k \in 1 .. Len(part) PROVE (text \o part)[Len(text) + k] = part[k]
  <2>1. /\ Len(text) + k \in 1 .. Len(text) + Len(part)
        /\ ~(Len(text) + k <= Len(text)) /\ Len(text) + k - Len(text) = k
    BY <1>1
  <2> QED
    BY <1>2, <2>1
<1>4. ASSUME NEW i \in 1 .. Len(text) PROVE (text \o part)[i] = text[i]
  <2>1. i \in 1 .. Len(text) + Len(part) /\ i <= Len(text)
    BY <1>1
  <2> QED
    BY <1>2, <2>1
<1> QED
  BY <1>2, <1>3, <1>4

LEMMA LongerDomain ==
  ASSUME NEW text \in Seq(Tokens), NEW part \in Seq(Tokens)
  PROVE  /\ Len(text) \in Nat /\ Len(part) \in Nat /\ DOMAIN text = 1 .. Len(text)
         /\ DOMAIN (text \o part) = 1 .. Len(text) + Len(part)
<1>1. text \o part \in Seq(Tokens) /\ Len(text \o part) = Len(text) + Len(part)
  BY Longer
<1> QED
  BY <1>1, LengthFacts

LEMMA OneMoreRow ==
  ASSUME NEW rows \in Seq(RunNames), NEW p \in RunNames
  PROVE  /\ Len(rows) \in Nat /\ DOMAIN rows = 1 .. Len(rows)
         /\ DOMAIN Append(rows, p) = 1 .. Len(rows) + 1
         /\ \A i \in 1 .. Len(rows) : Append(rows, p)[i] = rows[i] /\ rows[i] \in RunNames
         /\ Append(rows, p)[Len(rows) + 1] = p
<1>1. /\ Append(rows, p) \in Seq(RunNames) /\ Len(Append(rows, p)) = Len(rows) + 1
      /\ \A i \in 1 .. Len(rows) : Append(rows, p)[i] = rows[i]
      /\ Append(rows, p)[Len(rows) + 1] = p
  BY AppendFacts
<1>2. DOMAIN Append(rows, p) = 1 .. Len(rows) + 1
  BY <1>1, LengthFacts
<1>3. Len(rows) \in Nat /\ DOMAIN rows = 1 .. Len(rows) /\ \A i \in 1 .. Len(rows) : rows[i] \in RunNames
  BY LengthFacts
<1> QED
  BY <1>1, <1>2, <1>3

(* What starts a line goes on to do so.                                    *)
LEMMA StartsStay ==
  ASSUME NEW text \in Seq(Tokens), NEW part \in Seq(Tokens), NEW s \in 1 .. Len(text)
  PROVE  s \in LineStarts(text \o part) <=> s \in LineStarts(text)
<1>1. /\ Len(text) \in Nat /\ Len(part) \in Nat /\ Len(text \o part) = Len(text) + Len(part)
      /\ \A i \in 1 .. Len(text) : (text \o part)[i] = text[i]
  BY Longer, LengthFacts
<1>2. s # 1 => s - 1 \in 1 .. Len(text)
  BY <1>1
<1>3. s \in 1 .. Len(text \o part)
  BY <1>1
<1> QED
  BY <1>1, <1>2, <1>3 DEF LineStarts

LEMMA BeginsStays ==
  ASSUME NEW text \in Seq(Tokens), NEW part \in Seq(Tokens), NEW x \in Seq(Tokens), NEW s,
         Begins(text, s, x)
  PROVE  Begins(text \o part, s, x)
<1>1. /\ Len(text) \in Nat /\ Len(part) \in Nat /\ Len(text \o part) = Len(text) + Len(part)
      /\ \A i \in 1 .. Len(text) : (text \o part)[i] = text[i]
      /\ DOMAIN x = 1 .. Len(x) /\ Len(x) \in Nat
  BY Longer, LengthFacts
<1>2. s \in 1 .. Len(text) /\ s \in LineStarts(text) /\ s + Len(x) - 1 <= Len(text)
  BY DEF Begins, LineStarts
<1>3. s \in LineStarts(text \o part)
  BY <1>2, StartsStay
<1>4. ASSUME NEW i \in DOMAIN x PROVE (text \o part)[s + i - 1] = x[i]
  <2>1. s + i - 1 \in 1 .. Len(text)
    BY <1>1, <1>2
  <2>2. text[s + i - 1] = x[i]
    BY DEF Begins
  <2> QED
    BY <1>1, <2>1, <2>2
<1>5. s + Len(x) - 1 <= Len(text \o part)
  BY <1>1, <1>2
<1> QED
  BY <1>3, <1>4, <1>5 DEF Begins

(* The times of p are where they were, if none is appended.                *)
NoTime(part, p) == \A k \in 1 .. Len(part) : part[k] # <<"time", p>>

LEMMA TimesStay ==
  ASSUME NEW text \in Seq(Tokens), NEW part \in Seq(Tokens), NEW p, NoTime(part, p)
  PROVE  TimesOf(text \o part, p) = TimesOf(text, p)
<1>1. /\ Len(text) \in Nat /\ Len(part) \in Nat /\ Len(text \o part) = Len(text) + Len(part)
      /\ \A i \in 1 .. Len(text) : (text \o part)[i] = text[i]
      /\ \A k \in 1 .. Len(part) : (text \o part)[Len(text) + k] = part[k]
      /\ DOMAIN text = 1 .. Len(text) /\ DOMAIN (text \o part) = 1 .. Len(text) + Len(part)
  BY Longer, LengthFacts
<1>2. ASSUME NEW i \in 1 .. Len(text) + Len(part), (text \o part)[i] = <<"time", p>>
      PROVE  i \in 1 .. Len(text)
  <2>1. SUFFICES ASSUME i \notin 1 .. Len(text) PROVE FALSE
    OBVIOUS
  <2>2. PICK k \in 1 .. Len(part) : i = Len(text) + k
    <3>1. i - Len(text) \in 1 .. Len(part) /\ i = Len(text) + (i - Len(text))
      BY <1>1, <2>1
    <3> QED
      BY <3>1
  <2> QED
    BY <1>1, <1>2, <2>2 DEF NoTime
<1>3. \A i \in 1 .. Len(text) : i \in 1 .. Len(text) + Len(part)
  BY <1>1
<1> QED
  BY <1>1, <1>2, <1>3 DEF TimesOf

(* What p appends: its row, after the header or alone.                     *)
Entry(p, part, at) ==
  /\ part \in Seq(Tokens) /\ at \in Nat \ {0} /\ Len(part) = at + 7
  /\ \A i \in 1 .. 8 : part[at + i - 1] = Row(p)[i]
  /\ \A k \in 1 .. Len(part), q \in RunNames : part[k] = <<"time", q>> => k = at /\ q = p
  /\ at > 1 => part[at - 1] = Newline /\ 8 <= Len(part) /\ \A i \in 1 .. 8 : part[i] = Header[i]
  /\ \A k \in 1 .. Len(part) - 1 : part[k] = Newline => k + 1 = at

LEMMA RowEntry ==
  ASSUME NEW p \in RunNames
  PROVE  Entry(p, <<>> \o Row(p), 1)
<1>1. <<>> \o Row(p) = Row(p)
  BY RowFacts, ConcatProperties, ConcatEmptySeq
<1>2. \A k \in 1 .. 8 : k = 1 \/ k = 2 \/ k = 3 \/ k = 4 \/ k = 5 \/ k = 6 \/ k = 7 \/ k = 8
  OBVIOUS
<1>3. \A q : /\ Comma # <<"time", q>> /\ Newline # <<"time", q>> /\ <<"compile", p>> # <<"time", q>>
            /\ <<"run", p>> # <<"time", q>> /\ <<"count", p>> # <<"time", q>>
  BY DEF Comma, Newline, Word
<1>4. \A q : <<"time", p>> = <<"time", q>> => q = p
  OBVIOUS
<1>5. \A k \in 1 .. 8 : \A q \in RunNames : Row(p)[k] = <<"time", q>> => k = 1 /\ q = p
  BY <1>2, <1>3, <1>4, RowFacts
<1>6. Comma # Newline /\ \A kind \in {"time", "compile", "run", "count"} : <<kind, p>> # Newline
  BY DEF Comma, Newline, Word
<1>7. \A k \in 1 .. 7 : Row(p)[k] # Newline
  <2>1. \A k \in 1 .. 7 : k = 1 \/ k = 2 \/ k = 3 \/ k = 4 \/ k = 5 \/ k = 6 \/ k = 7
    OBVIOUS
  <2> QED
    BY <1>6, <2>1, RowFacts
<1>8. /\ Row(p) \in Seq(Tokens) /\ Len(Row(p)) = 1 + 7
      /\ \A i \in 1 .. 8 : Row(p)[1 + i - 1] = Row(p)[i]
  <2>1. 1 + 7 = 8 /\ \A i \in 1 .. 8 : 1 + i - 1 = i
    OBVIOUS
  <2> QED
    BY <2>1, RowFacts
<1>9. 1 \in Nat \ {0} /\ ~(1 > 1) /\ 1 + 7 = 8 /\ 8 - 1 = 7
  OBVIOUS
<1> QED
  BY <1>1, <1>5, <1>7, <1>8, <1>9 DEF Entry

LEMMA HeaderEntry ==
  ASSUME NEW p \in RunNames
  PROVE  Entry(p, Header \o Row(p), 9)
<1> DEFINE part == Header \o Row(p)
<1>1. /\ part \in Seq(Tokens) /\ Len(part) = 16
      /\ \A i \in 1 .. 8 : part[i] = Header[i]
      /\ \A i \in 1 .. 8 : part[8 + i] = Row(p)[i]
  <2>1. Row(p) \in Seq(Tokens) /\ Len(Row(p)) = 8 /\ Header \in Seq(Tokens) /\ Len(Header) = 8
    BY RowFacts, HeaderFacts
  <2>2. /\ part \in Seq(Tokens) /\ Len(part) = Len(Header) + Len(Row(p))
        /\ \A i \in 1 .. Len(Header) : part[i] = Header[i]
        /\ \A k \in 1 .. Len(Row(p)) : part[Len(Header) + k] = Row(p)[k]
    BY <2>1, Longer
  <2> HIDE DEF part
  <2>3. Len(part) = 16
    BY <2>1, <2>2
  <2>4. \A i \in 1 .. 8 : part[i] = Header[i]
    BY <2>1, <2>2
  <2>5. \A i \in 1 .. 8 : part[8 + i] = Row(p)[i]
    BY <2>1, <2>2
  <2> QED
    BY <2>2, <2>3, <2>4, <2>5
<1> HIDE DEF part
<1>2. Entry(p, <<>> \o Row(p), 1) /\ <<>> \o Row(p) = Row(p)
  BY RowEntry, RowFacts, ConcatProperties, ConcatEmptySeq
<1>3. /\ \A k \in 1 .. 8 : \A q \in RunNames : Row(p)[k] = <<"time", q>> => k = 1 /\ q = p
      /\ \A k \in 1 .. 7 : Row(p)[k] = Newline => k + 1 = 1
  BY <1>2, RowFacts DEF Entry
<1>4. \A k \in 1 .. 8 : k = 1 \/ k = 2 \/ k = 3 \/ k = 4 \/ k = 5 \/ k = 6 \/ k = 7 \/ k = 8
  OBVIOUS
<1>5. /\ \A q : \A token \in {Comma, Newline, Word("timestamp"), Word("title")} : token # <<"time", q>>
      /\ \A token \in {Comma, Word("timestamp"), Word("title")} : token # Newline
  BY DEF Comma, Newline, Word
<1>6. /\ \A k \in 1 .. 8 : \A q \in RunNames : Header[k] # <<"time", q>>
      /\ \A k \in 1 .. 8 : Header[k] = Newline => k = 8
  BY <1>4, <1>5, HeaderFacts
<1>7. \A k \in 1 .. 16 : k \in 1 .. 8 \/ \E i \in 1 .. 8 : k = 8 + i
  <2>1. \A k \in 1 .. 16 : k \notin 1 .. 8 => k - 8 \in 1 .. 8 /\ k = 8 + (k - 8)
    OBVIOUS
  <2> QED
    BY <2>1
<1>8. ASSUME NEW k \in 1 .. 16, NEW q \in RunNames, part[k] = <<"time", q>>
      PROVE  k = 9 /\ q = p
  BY <1>1, <1>3, <1>6, <1>7, <1>8
<1>9. ASSUME NEW k \in 1 .. 15, part[k] = Newline PROVE k + 1 = 9
  <2>1. CASE k \in 1 .. 8
    BY <1>1, <1>6, <1>9, <2>1
  <2>2. ASSUME NEW i \in 1 .. 8, k = 8 + i PROVE FALSE
    <3>1. i \in 1 .. 7 /\ Row(p)[i] = Newline
      <4>1. Row(p)[i] = Newline
        BY <1>1, <1>9, <2>2
      <4>2. i \in 1 .. 7
        BY <2>2
      <4> QED
        BY <4>1, <4>2
    <3> QED
      BY <1>3, <3>1
  <2>3. k \in 1 .. 16
    OBVIOUS
  <2> QED
    BY <1>7, <2>1, <2>2, <2>3
<1>10. part[9 - 1] = Newline
  BY <1>1, HeaderFacts
<1>11. \A i \in 1 .. 8 : part[9 + i - 1] = Row(p)[i]
  <2>1. \A i \in 1 .. 8 : 9 + i - 1 = 8 + i
    OBVIOUS
  <2> QED
    BY <1>1, <2>1
<1>12. Entry(p, part, 9)
  <2>1. 9 \in Nat \ {0} /\ 16 = 9 + 7 /\ 8 <= 16 /\ 16 - 1 = 15
    OBVIOUS
  <2> QED
    BY <1>1, <1>8, <1>9, <1>10, <1>11, <2>1 DEF Entry
<1> QED
  BY <1>12 DEF part

(* After an entry that starts a line, the row of p starts one too.         *)
LEMMA EntryBegins ==
  ASSUME NEW text \in Seq(Tokens), AtLineStart(text), NEW p \in RunNames, NEW part, NEW at, Entry(p, part, at)
  PROVE  Begins(text \o part, Len(text) + at, Row(p))
<1> DEFINE after == text \o part
<1>1. /\ part \in Seq(Tokens) /\ at \in Nat \ {0} /\ Len(part) = at + 7
      /\ \A i \in 1 .. 8 : part[at + i - 1] = Row(p)[i]
      /\ at > 1 => part[at - 1] = Newline
  BY DEF Entry
<1>2. /\ Len(text) \in Nat /\ Len(after) = Len(text) + Len(part)
      /\ \A i \in 1 .. Len(text) : after[i] = text[i]
      /\ \A k \in 1 .. Len(part) : after[Len(text) + k] = part[k]
  BY <1>1, Longer, LengthFacts
<1> HIDE DEF after
<1>3. Len(text) + at \in 1 .. Len(after)
  BY <1>1, <1>2
<1>4. Len(text) + at = 1 \/ after[Len(text) + at - 1] = Newline
  <2>1. CASE at > 1
    <3>1. at - 1 \in 1 .. Len(part) /\ Len(text) + at - 1 = Len(text) + (at - 1)
      BY <1>1, <1>2, <2>1
    <3> QED
      BY <1>1, <1>2, <2>1, <3>1
  <2>2. CASE at = 1 /\ text = <<>>
    BY <1>2, <2>2, LengthFacts
  <2>3. CASE at = 1 /\ text # <<>>
    <3>1. Len(text) \in 1 .. Len(text) /\ Len(text) + at - 1 = Len(text)
      BY <1>2, <2>3, LengthFacts
    <3>2. text[Len(text)] = Newline
      BY <2>3 DEF AtLineStart, Last
    <3> QED
      BY <1>2, <3>1, <3>2
  <2> QED
    BY <1>1, <2>1, <2>2, <2>3
<1>5. Len(text) + at \in LineStarts(after)
  BY <1>1, <1>2, <1>3, <1>4 DEF LineStarts
<1>6. ASSUME NEW i \in DOMAIN Row(p) PROVE after[Len(text) + at + i - 1] = Row(p)[i]
  <2>1. i \in 1 .. 8
    BY RowFacts, LengthFacts
  <2>2. at + i - 1 \in 1 .. Len(part) /\ Len(text) + at + i - 1 = Len(text) + (at + i - 1)
    <3>1. Len(text) \in Nat /\ at \in Nat \ {0} /\ Len(part) = at + 7
      BY <1>1, <1>2
    <3> QED
      BY <2>1, <3>1
  <2> QED
    BY <1>1, <1>2, <2>1, <2>2
<1>7. Len(text) + at + Len(Row(p)) - 1 <= Len(after)
  <2>1. Len(Row(p)) = 8
    BY RowFacts
  <2> QED
    BY <1>1, <1>2, <2>1
<1>8. Begins(after, Len(text) + at, Row(p))
  BY <1>5, <1>6, <1>7 DEF Begins
<1> QED
  BY <1>8 DEF after

LEMMA EntryTimes ==
  ASSUME NEW text \in Seq(Tokens), NEW p \in RunNames, NEW part, NEW at, Entry(p, part, at), NoTime(text, p)
  PROVE  TimesOf(text \o part, p) = {Len(text) + at}
<1> DEFINE after == text \o part
<1>1. /\ part \in Seq(Tokens) /\ at \in Nat \ {0} /\ Len(part) = at + 7
      /\ \A i \in 1 .. 8 : part[at + i - 1] = Row(p)[i]
      /\ \A k \in 1 .. Len(part), q \in RunNames : part[k] = <<"time", q>> => k = at /\ q = p
  BY DEF Entry
<1>2. /\ Len(text) \in Nat /\ Len(after) = Len(text) + Len(part)
      /\ \A i \in 1 .. Len(text) : after[i] = text[i]
      /\ \A k \in 1 .. Len(part) : after[Len(text) + k] = part[k]
      /\ DOMAIN after = 1 .. Len(text) + Len(part)
  BY <1>1, Longer, LongerDomain
<1> HIDE DEF after
<1>3. ASSUME NEW i \in 1 .. Len(text) + Len(part), after[i] = <<"time", p>>
      PROVE  i = Len(text) + at
  <2>1. CASE i \in 1 .. Len(text)
    BY <1>2, <1>3, <2>1 DEF NoTime
  <2>2. CASE i \notin 1 .. Len(text)
    <3>1. PICK k \in 1 .. Len(part) : i = Len(text) + k
      <4>1. i - Len(text) \in 1 .. Len(part) /\ i = Len(text) + (i - Len(text))
        BY <1>1, <1>2, <2>2
      <4> QED
        BY <4>1
    <3>2. part[k] = <<"time", p>>
      BY <1>2, <1>3, <3>1
    <3> QED
      BY <1>1, <3>1, <3>2
  <2> QED
    BY <2>1, <2>2
<1>4. after[Len(text) + at] = <<"time", p>> /\ Len(text) + at \in 1 .. Len(text) + Len(part)
  <2>1. part[at + 1 - 1] = Row(p)[1] /\ at + 1 - 1 = at /\ at \in 1 .. Len(part)
    BY <1>1
  <2> QED
    <3>1. Row(p)[1] = <<"time", p>>
      BY RowFacts
    <3>2. Len(text) + at \in 1 .. Len(text) + Len(part)
      BY <1>1, <1>2
    <3> QED
      BY <1>2, <2>1, <3>1, <3>2
<1>5. TimesOf(after, p) = {Len(text) + at}
  BY <1>2, <1>3, <1>4 DEF TimesOf
<1> QED
  BY <1>5 DEF after

(* Entries and the history's rows: the row of p is the last, if p is not   *)
(* among the rows and its entry starts a line.                             *)
LEMMA LegibleAfter ==
  ASSUME NEW text \in Seq(Tokens), NEW rows \in Seq(RunNames), NEW p \in RunNames, NEW part, NEW at,
         Legible(text, rows), AtLineStart(text), Entry(p, part, at),
         TimesOf(text, p) = {}, p \notin ToSet(rows)
  PROVE  Legible(text \o part, Append(rows, p))
<1> DEFINE after == text \o part
           all == Append(rows, p)
<1>1. /\ Len(rows) \in Nat /\ DOMAIN rows = 1 .. Len(rows) /\ DOMAIN all = 1 .. Len(rows) + 1
      /\ \A i \in 1 .. Len(rows) : all[i] = rows[i]
      /\ all[Len(rows) + 1] = p
      /\ \A i \in 1 .. Len(rows) : rows[i] \in RunNames
  BY OneMoreRow
<1>2. /\ part \in Seq(Tokens) /\ at \in Nat \ {0}
      /\ \A k \in 1 .. Len(part), q \in RunNames : part[k] = <<"time", q>> => k = at /\ q = p
  BY DEF Entry
<1>3. TimesOf(after, p) = {Len(text) + at} /\ Begins(after, Len(text) + at, Row(p))
  <2>1. NoTime(text, p)
    <3>1. DOMAIN text = 1 .. Len(text)
      BY LengthFacts
    <3> QED
      BY <3>1 DEF TimesOf, NoTime
  <2> QED
    BY <2>1, EntryTimes, EntryBegins
<1>4. ASSUME NEW i \in 1 .. Len(rows)
      PROVE  /\ TimesOf(after, rows[i]) = TimesOf(text, rows[i])
             /\ \A s \in TimesOf(text, rows[i]) : Begins(after, s, Row(rows[i])) /\ s \in 1 .. Len(text)
  <2>1. rows[i] # p /\ rows[i] \in RunNames
    BY <1>1 DEF ToSet
  <2>2. NoTime(part, rows[i])
    BY <1>2, <2>1 DEF NoTime
  <2>3. ASSUME NEW s \in TimesOf(text, rows[i]) PROVE Begins(after, s, Row(rows[i])) /\ s \in 1 .. Len(text)
    <3>1. Begins(text, s, Row(rows[i]))
      BY <1>1 DEF Legible
    <3>2. s \in 1 .. Len(text)
      BY LengthFacts DEF TimesOf
    <3>3. Row(rows[i]) \in Seq(Tokens)
      BY <2>1, RowFacts
    <3> QED
      BY <1>2, <3>1, <3>2, <3>3, BeginsStays
  <2> QED
    BY <1>2, <2>2, <2>3, TimesStay
<1> HIDE DEF after, all
<1>5. \A i \in 1 .. Len(rows) + 1 : i \in 1 .. Len(rows) \/ i = Len(rows) + 1
  BY <1>1
<1>6. \A i \in DOMAIN all : TimesOf(after, all[i]) # {}
  BY <1>1, <1>3, <1>4, <1>5 DEF Legible
<1>7. \A i \in DOMAIN all : \A s \in TimesOf(after, all[i]) : Begins(after, s, Row(all[i]))
  <2>1. ASSUME NEW i \in 1 .. Len(rows) PROVE \A s \in TimesOf(after, all[i]) : Begins(after, s, Row(all[i]))
    BY <1>1, <1>4
  <2>2. \A s \in TimesOf(after, all[Len(rows) + 1]) : Begins(after, s, Row(all[Len(rows) + 1]))
    BY <1>1, <1>3
  <2> QED
    BY <1>1, <1>5, <2>1, <2>2
<1>8. ASSUME NEW i \in DOMAIN all, NEW j \in DOMAIN all,
             NEW s \in TimesOf(after, all[i]), NEW t \in TimesOf(after, all[j])
      PROVE  i < j <=> s < t
  <2>0. Len(text) \in Nat
    BY LengthFacts
  <2>1. CASE i \in 1 .. Len(rows) /\ j \in 1 .. Len(rows)
    <3>1. s \in TimesOf(text, rows[i]) /\ t \in TimesOf(text, rows[j])
      BY <1>1, <1>4, <1>8, <2>1
    <3> QED
      BY <1>1, <2>1, <3>1 DEF Legible
  <2>2. CASE i \in 1 .. Len(rows) /\ j = Len(rows) + 1
    <3>1. s \in 1 .. Len(text) /\ t = Len(text) + at
      BY <1>1, <1>3, <1>4, <1>8, <2>2
    <3> QED
      BY <1>1, <1>2, <2>0, <2>2, <3>1
  <2>3. CASE i = Len(rows) + 1 /\ j \in 1 .. Len(rows)
    <3>1. t \in 1 .. Len(text) /\ s = Len(text) + at
      BY <1>1, <1>3, <1>4, <1>8, <2>3
    <3> QED
      BY <1>1, <1>2, <2>0, <2>3, <3>1
  <2>4. CASE i = Len(rows) + 1 /\ j = Len(rows) + 1
    <3>1. t = Len(text) + at /\ s = Len(text) + at
      BY <1>1, <1>3, <1>8, <2>4
    <3> QED
      BY <1>1, <1>2, <2>0, <2>4, <3>1
  <2> QED
    BY <1>1, <1>5, <1>8, <2>1, <2>2, <2>3, <2>4
<1>9. Legible(after, all)
  BY <1>6, <1>7, <1>8 DEF Legible
<1> QED
  BY <1>9 DEF after, all

(* What another run appends, whole or not, leaves the rows where they are. *)
LEMMA LegibleStill ==
  ASSUME NEW text \in Seq(Tokens), NEW rows \in Seq(RunNames), NEW part \in Seq(Tokens),
         Legible(text, rows), \A p \in ToSet(rows) : NoTime(part, p)
  PROVE  Legible(text \o part, rows)
<1> DEFINE after == text \o part
<1>1. ASSUME NEW i \in DOMAIN rows
      PROVE  /\ TimesOf(after, rows[i]) = TimesOf(text, rows[i])
             /\ \A s \in TimesOf(text, rows[i]) : Begins(after, s, Row(rows[i]))
  <2>1. NoTime(part, rows[i]) /\ rows[i] \in RunNames
    BY LengthFacts DEF ToSet
  <2>2. ASSUME NEW s \in TimesOf(text, rows[i]) PROVE Begins(after, s, Row(rows[i]))
    <3>1. Begins(text, s, Row(rows[i])) /\ Row(rows[i]) \in Seq(Tokens)
      BY <2>1, RowFacts DEF Legible
    <3> QED
      BY <3>1, BeginsStays
  <2> QED
    BY <2>1, <2>2, TimesStay
<1> HIDE DEF after
<1>2. Legible(after, rows)
  BY <1>1 DEF Legible
<1> QED
  BY <1>2 DEF after

(* A tidy history stays tidy when a whole entry is appended.               *)
LEMMA TidyAfter ==
  ASSUME NEW text \in Seq(Tokens), NEW rows \in Seq(RunNames), NEW p \in RunNames, NEW part, NEW at,
         Legible(text, rows), Tidy(text, rows), Entry(p, part, at), TimesOf(text, p) = {}, p \notin ToSet(rows)
  PROVE  Tidy(text \o part, Append(rows, p))
<1> DEFINE after == text \o part
           all == Append(rows, p)
<1>1. /\ Len(rows) \in Nat /\ DOMAIN rows = 1 .. Len(rows) /\ DOMAIN all = 1 .. Len(rows) + 1
      /\ \A i \in 1 .. Len(rows) : all[i] = rows[i]
      /\ all[Len(rows) + 1] = p
      /\ \A i \in 1 .. Len(rows) : rows[i] \in RunNames
  BY OneMoreRow
<1>2. /\ part \in Seq(Tokens) /\ at \in Nat \ {0} /\ Len(part) = at + 7
      /\ \A i \in 1 .. 8 : part[at + i - 1] = Row(p)[i]
      /\ \A k \in 1 .. Len(part), q \in RunNames : part[k] = <<"time", q>> => k = at /\ q = p
      /\ at > 1 => part[at - 1] = Newline /\ 8 <= Len(part) /\ \A i \in 1 .. 8 : part[i] = Header[i]
      /\ \A k \in 1 .. Len(part) - 1 : part[k] = Newline => k + 1 = at
  BY DEF Entry
<1>3. /\ Len(text) \in Nat /\ Len(after) = Len(text) + Len(part) /\ after \in Seq(Tokens)
      /\ \A i \in 1 .. Len(text) : after[i] = text[i]
      /\ \A k \in 1 .. Len(part) : after[Len(text) + k] = part[k]
      /\ DOMAIN text = 1 .. Len(text)
  BY <1>2, Longer, LongerDomain
<1>5. AtLineStart(text) /\ Legible(after, all)
  BY LegibleAfter DEF Tidy
<1>6. Len(text) + at \in TimesOf(after, p)
  <2>1. NoTime(text, p)
    BY <1>3 DEF TimesOf, NoTime
  <2>2. TimesOf(after, p) = {Len(text) + at}
    BY <2>1, EntryTimes
  <2> QED
    BY <2>2
<1> HIDE DEF after, all
<1>8. /\ Len(text) \in Nat /\ at \in Nat \ {0} /\ Len(part) = at + 7
      /\ Len(after) = Len(text) + at + 7
  BY <1>2, <1>3
<1>4. AtLineStart(after)
  <2>1. part[at + 8 - 1] = Newline /\ at + 8 - 1 = Len(part) /\ Len(part) \in 1 .. Len(part)
    BY <1>2, RowFacts
  <2>2. after[Len(text) + Len(part)] = Newline
    BY <1>3, <2>1
  <2> QED
    BY <1>3, <2>2 DEF AtLineStart, Last
<1>7. ASSUME NEW s \in LineStarts(after)
      PROVE  Begins(after, s, Header) \/ \E i \in DOMAIN all : s \in TimesOf(after, all[i])
  <2>0. s \in 1 .. Len(text) + Len(part)
    BY <1>3 DEF LineStarts
  <2>1. CASE s \in 1 .. Len(text)
    <3>1. s \in LineStarts(text)
      BY <1>2, <1>7, <2>1, StartsStay DEF after
    <3>2. CASE Begins(text, s, Header)
      BY <1>2, <3>2, BeginsStays, HeaderFacts DEF after
    <3>3. ASSUME NEW i \in DOMAIN rows, s \in TimesOf(text, rows[i])
          PROVE  s \in TimesOf(after, all[i]) /\ i \in DOMAIN all
      <4>1. rows[i] # p /\ rows[i] \in RunNames
        BY <1>1 DEF ToSet
      <4>2. NoTime(part, rows[i])
        BY <1>2, <4>1 DEF NoTime
      <4>3. TimesOf(after, rows[i]) = TimesOf(text, rows[i])
        BY <1>2, <4>2, TimesStay DEF after
      <4> QED
        BY <1>1, <3>3, <4>3
    <3> QED
      BY <3>1, <3>2, <3>3 DEF Tidy
  <2>2. CASE s = Len(text) + at
    BY <1>1, <1>6, <2>2
  <2>3. CASE s = Len(text) + 1 /\ at > 1
    <3>1. \A i \in 1 .. 8 : after[Len(text) + i] = Header[i]
      <4>1. \A i \in 1 .. 8 : i \in 1 .. Len(part)
        BY <1>8
      <4>2. \A i \in 1 .. 8 : part[i] = Header[i]
        BY <1>2, <2>3
      <4> QED
        BY <1>3, <4>1, <4>2
    <3>2. DOMAIN Header = 1 .. 8 /\ Len(Header) = 8
      BY HeaderFacts, LengthFacts
    <3>3. \A i \in 1 .. 8 : s + i - 1 = Len(text) + i
      BY <1>3, <2>3
    <3>4. s + 8 - 1 <= Len(after)
      BY <1>2, <1>3, <2>3
    <3> QED
      BY <1>7, <3>1, <3>2, <3>3, <3>4 DEF Begins
  <2>4. CASE s \notin 1 .. Len(text) /\ s # Len(text) + 1
    <3>1. PICK k \in 1 .. Len(part) - 1 : s = Len(text) + k + 1
      <4>1. /\ s - Len(text) - 1 \in 1 .. Len(part) - 1
            /\ s = Len(text) + (s - Len(text) - 1) + 1
        BY <1>8, <2>0, <2>4
      <4> QED
        BY <4>1
    <3>2. after[s - 1] = Newline
      <4>1. s # 1
        BY <1>3, <3>1
      <4> QED
        BY <1>7, <4>1 DEF LineStarts
    <3>3. part[k] = Newline
      <4>1. s - 1 = Len(text) + k /\ k \in 1 .. Len(part)
        BY <1>2, <1>3, <3>1
      <4> QED
        BY <1>3, <3>2, <4>1
    <3>4. s = Len(text) + at
      <4>1. k + 1 = at
        BY <1>2, <3>3
      <4> QED
        BY <1>8, <3>1, <4>1
    <3> QED
      BY <2>2, <3>4
  <2>5. at = 1 \/ at > 1
    BY <1>2
  <2> QED
    BY <2>1, <2>2, <2>3, <2>4, <2>5
<1>9. Tidy(after, all)
  BY <1>4, <1>7 DEF Tidy
<1> QED
  BY <1>9 DEF after, all

-----------------------------------------------------------------------------
(* ---- The history as the runs leave it.  -------------------------------- *)

(* A run that has not appended yet is not in the history.                  *)
Fresh(p) ==
  stage[p] \notin {"cleanup", "done"} => TimesOf(history, p) = {} /\ p \notin ToSet(recorded)

HInv ==
  /\ argv \in Sessions
  /\ history \in Seq(Tokens) /\ recorded \in Seq(RunNames)
  /\ Legible(history, recorded)
  /\ faults = 0 => Tidy(history, recorded)
  /\ \A p \in Procs : Fresh(p)

LEMMA RunsAreNamed == HInv => Procs \subseteq RunNames
BY SessionsAssumption DEF HInv, Procs, RunNames

LEMMA HInit == Init => HInv
<1> SUFFICES ASSUME Init PROVE HInv
  OBVIOUS
<1>1. PICK old \in OldHistories : history = old.text /\ recorded = old.recorded /\ faults = old.faults
  BY DEF Init
<1>2. argv \in Sessions
  BY DEF Init, DriverInit
<1>3. /\ old.text \in Seq(STRING \X STRING) /\ old.recorded \in Seq(STRING)
      /\ Legible(old.text, old.recorded)
      /\ old.faults = 0 => Tidy(old.text, old.recorded)
      /\ \A p \in DOMAIN argv : TimesOf(old.text, p) = {} /\ p \notin ToSet(old.recorded)
  BY <1>2, HistoriesAssumption
<1>4. history \in Seq(Tokens)
  <2>1. STRING \X STRING \subseteq Tokens
    BY DEF Tokens, RunNames
  <2>2. \A S, T : S \subseteq T => Seq(S) \subseteq Seq(T)
    OBVIOUS
  <2> QED
    BY <1>1, <1>3, <2>1, <2>2
<1>5. recorded \in Seq(RunNames)
  BY <1>1, <1>3 DEF RunNames
<1>6. \A p \in Procs : Fresh(p)
  BY <1>1, <1>3 DEF Procs, Fresh
<1> QED
  BY <1>1, <1>2, <1>3, <1>4, <1>5, <1>6 DEF HInv

(* All steps but one leave the history alone.                              *)
LEMMA LeavesHistory ==
  ASSUME HInv, UNCHANGED <<argv, history, recorded>>, faults' = 0 => faults = 0,
         \A q \in Procs : stage'[q] \notin {"cleanup", "done"} => stage[q] \notin {"cleanup", "done"}
  PROVE  HInv'
<1>1. Procs' = Procs
  BY DEF Procs
<1>2. Legible(history, recorded)' /\ (faults' = 0 => Tidy(history, recorded)')
  BY DEF HInv, Legible, Tidy
<1>3. ASSUME NEW p \in Procs PROVE Fresh(p)'
  BY DEF HInv, Fresh
<1> QED
  BY <1>1, <1>2, <1>3 DEF HInv

LEMMA AppendKeeps ==
  ASSUME BInv, HInv, NEW p \in Procs, AppendHistory(p)
  PROVE  HInv'
<1>0. Procs' = Procs /\ argv' = argv /\ p \in RunNames
  BY RunsAreNamed DEF AppendHistory, Procs
<1>1. stage = [q \in Procs |-> stage[q]] /\ faults \in Nat
  BY DEF BInv, Typed
<1>2. stage[p] = "append" /\ stage' = [stage EXCEPT ![p] = "cleanup"]
  BY DEF AppendHistory, At, Goto
<1>3. /\ history \in Seq(Tokens) /\ recorded \in Seq(RunNames) /\ Legible(history, recorded)
      /\ TimesOf(history, p) = {} /\ p \notin ToSet(recorded)
  BY <1>2 DEF HInv, Fresh
<1>4. PICK text : /\ text = (IF needsHeader[p] THEN Header ELSE <<>>) \o Row(p)
                  /\ \/ /\ history' = history \o text
                        /\ recorded' = IF AtLineStart(history) THEN Append(recorded, p) ELSE recorded
                        /\ UNCHANGED faults
                     \/ /\ faults' = faults + 1 /\ recorded' = recorded
                        /\ \E n \in 0 .. (Len(text) - 1) : history' = history \o SubSeq(text, 1, n)
  BY DEF AppendHistory
<1>5. PICK at : Entry(p, text, at)
  BY <1>0, <1>4, RowEntry, HeaderEntry
<1>6. /\ text \in Seq(Tokens)
      /\ \A k \in 1 .. Len(text), q \in RunNames : text[k] = <<"time", q>> => q = p
  BY <1>5 DEF Entry
<1>7. PICK part : /\ history' = history \o part /\ part \in Seq(Tokens)
                  /\ \A q \in RunNames : q # p => NoTime(part, q)
  <2>1. CASE history' = history \o text
    BY <1>6, <2>1 DEF NoTime
  <2>2. ASSUME NEW n \in 0 .. (Len(text) - 1), history' = history \o SubSeq(text, 1, n)
        PROVE  \E part : /\ history' = history \o part /\ part \in Seq(Tokens)
                         /\ \A q \in RunNames : q # p => NoTime(part, q)
    <3>1. Len(text) \in Nat /\ \A i \in 1 .. Len(text) : text[i] \in Tokens
      BY <1>6, LengthFacts
    <3>2. n \in Int /\ \A i \in 1 .. n : i \in 1 .. Len(text)
      BY <3>1
    <3>3. /\ SubSeq(text, 1, n) \in Seq(Tokens)
          /\ Len(SubSeq(text, 1, n)) = IF 1 <= n THEN n - 1 + 1 ELSE 0
          /\ \A i \in 1 .. n - 1 + 1 : SubSeq(text, 1, n)[i] = text[1 + i - 1]
      BY <3>1, <3>2, SubSeqProperties
    <3>4. Len(SubSeq(text, 1, n)) = n /\ \A i \in 1 .. n : SubSeq(text, 1, n)[i] = text[i]
      BY <3>1, <3>3
    <3>5. \A q \in RunNames : q # p => NoTime(SubSeq(text, 1, n), q)
      BY <1>6, <3>2, <3>4 DEF NoTime
    <3> QED
      BY <2>2, <3>3, <3>5
  <2> QED
    BY <1>4, <2>1, <2>2
<1>8. history' \in Seq(Tokens)
  BY <1>3, <1>7, Longer
<1>9. \A q \in ToSet(recorded) : q \in RunNames /\ q # p
  BY <1>3, LengthFacts DEF ToSet
<1>10. Legible(history', recorded)
  BY <1>3, <1>7, <1>9, LegibleStill
<1>11. /\ recorded' \in Seq(RunNames) /\ Legible(history', recorded')
       /\ faults' = 0 => Tidy(history', recorded')
  <2>1. CASE history' = history \o text /\ UNCHANGED faults /\ AtLineStart(history) /\ recorded' = Append(recorded, p)
    <3>1. recorded' \in Seq(RunNames)
      BY <1>0, <1>3, <2>1, AppendFacts
    <3>2. Legible(history \o text, Append(recorded, p))
      BY <1>0, <1>3, <1>5, <2>1, LegibleAfter
    <3>3. faults = 0 => Tidy(history \o text, Append(recorded, p))
      BY <1>0, <1>3, <1>5, TidyAfter DEF HInv
    <3> QED
      BY <2>1, <3>1, <3>2, <3>3
  <2>2. CASE UNCHANGED faults /\ ~AtLineStart(history) /\ recorded' = recorded
    BY <1>3, <1>10, <2>2 DEF HInv, Tidy
  <2>3. CASE faults' = faults + 1 /\ recorded' = recorded
    <3>1. faults' # 0
      BY <1>1, <2>3
    <3> QED
      BY <1>3, <1>10, <2>3, <3>1
  <2> QED
    BY <1>4, <2>1, <2>2, <2>3
<1>12. ASSUME NEW q \in Procs PROVE Fresh(q)'
  <2>1. CASE q = p
    BY <1>1, <1>2, <2>1 DEF Fresh
  <2>2. CASE q # p
    <3>1. q \in RunNames /\ NoTime(part, q) /\ stage'[q] = stage[q]
      BY <1>1, <1>2, <1>7, <2>2, RunsAreNamed
    <3>2. TimesOf(history', q) = TimesOf(history, q)
      BY <1>3, <1>7, <3>1, TimesStay
    <3>3. recorded' = recorded \/ recorded' = Append(recorded, p)
      BY <1>4
    <3>4. q \notin ToSet(recorded) => q \notin ToSet(recorded')
      <4>1. ASSUME recorded' = Append(recorded, p), q \in ToSet(recorded') PROVE q \in ToSet(recorded)
        BY <1>0, <1>3, <2>2, <4>1, OneMoreRow DEF ToSet
      <4> QED
        BY <3>3, <4>1
    <3> QED
      BY <3>1, <3>2, <3>4 DEF HInv, Fresh
  <2> QED
    BY <2>1, <2>2
<1>13. Legible(history, recorded)' /\ (faults' = 0 => Tidy(history, recorded)')
  BY <1>11
<1> QED
  BY <1>0, <1>8, <1>11, <1>12, <1>13 DEF HInv

LEMMA HNext == BInv /\ HInv /\ [Next]_vars => HInv'
<1> SUFFICES ASSUME BInv, HInv, [Next]_vars PROVE HInv'
  OBVIOUS
<1>0. stage = [q \in Procs |-> stage[q]] /\ faults \in Nat
  BY DEF BInv, Typed
<1>1. CASE UNCHANGED vars
  BY <1>1, LeavesHistory DEF vars, driverVars, benchVars
<1>2. ASSUME NEW p \in Procs, DriverStep(p), UNCHANGED benchVars PROVE HInv'
  <2>1. Compiles(p)
    BY <1>2, DriverCompiles
  <2>2. UNCHANGED <<argv, history, recorded, faults>>
    BY <1>2, <2>1 DEF Compiles, benchVars
  <2>3. stage[p] \notin {"cleanup", "done"} /\ stage' = [stage EXCEPT ![p] = stage'[p]]
    BY <2>1 DEF Compiles, Running, Recording
  <2>4. \A q \in Procs : stage'[q] \notin {"cleanup", "done"} => stage[q] \notin {"cleanup", "done"}
    BY <1>0, <2>3
  <2> QED
    BY <2>2, <2>4, LeavesHistory
<1>3. ASSUME NEW p \in Procs, BenchmarkStep(p) PROVE HInv'
  <2>1. CASE AppendHistory(p)
    BY <2>1, AppendKeeps
  <2>2. ASSUME NEW next, stage[p] \notin {"cleanup", "done"} \/ next = "done",
               stage' = [stage EXCEPT ![p] = next], UNCHANGED <<argv, history, recorded, faults>>
        PROVE  HInv'
    <3>1. \A q \in Procs : stage'[q] \notin {"cleanup", "done"} => stage[q] \notin {"cleanup", "done"}
      BY <1>0, <2>2
    <3> QED
      BY <2>2, <3>1, LeavesHistory
  <2>3. CASE StartBenchmark(p) \/ CheckHeader(p)
    BY <2>2, <2>3 DEF StartBenchmark, CheckHeader, At, Goto
  <2>4. CASE CompileOp(p) \/ BenchmarkOp(p)
    <3>1. UNCHANGED <<argv, stage, history, recorded, faults>>
      BY <2>4 DEF CompileOp, BenchmarkOp, driverVars
    <3> QED
      BY <3>1, LeavesHistory
  <2>5. CASE Compiled(p) \/ Benchmarked(p)
    <3>1. stage[p] \notin {"cleanup", "done"} /\ UNCHANGED <<argv, history, recorded, faults>>
      BY <2>5 DEF Compiled, Benchmarked, At, benchVars
    <3>2. \/ stage' = [stage EXCEPT ![p] = "done"] \/ stage' = [stage EXCEPT ![p] = "benchmarking"]
          \/ stage' = [stage EXCEPT ![p] = "record"]
      BY <2>5 DEF Compiled, Benchmarked, Fails, End, Goto
    <3> QED
      BY <2>2, <3>1, <3>2
  <2>6. CASE OpenHistory(p)
    <3>1. stage[p] \notin {"cleanup", "done"} /\ UNCHANGED <<argv, history, recorded, faults>>
      BY <2>6 DEF OpenHistory, At
    <3>2. stage' = [stage EXCEPT ![p] = "append"] \/ stage' = [stage EXCEPT ![p] = "cleanup"]
      BY <2>6 DEF OpenHistory, Goto
    <3> QED
      BY <2>2, <3>1, <3>2
  <2>7. CASE CleanUp(p)
    <3>1. /\ UNCHANGED <<argv, history, recorded>> /\ (faults' = faults \/ faults' = faults + 1)
          /\ stage' = [stage EXCEPT ![p] = "done"]
      BY <2>7 DEF CleanUp, End
    <3>2. \A q \in Procs : stage'[q] \notin {"cleanup", "done"} => stage[q] \notin {"cleanup", "done"}
      BY <1>0, <3>1
    <3>3. faults' = 0 => faults = 0
      BY <1>0, <3>1
    <3> QED
      BY <3>1, <3>2, <3>3, LeavesHistory
  <2> QED
    BY <1>3, <2>1, <2>3, <2>4, <2>5, <2>6, <2>7 DEF BenchmarkStep
<1>4. ASSUME NEW p \in Procs, Kill(p) PROVE HInv'
  <2>1. /\ UNCHANGED <<argv, history, recorded>> /\ faults' = faults + 1
        /\ stage' = [stage EXCEPT ![p] = "done"]
    BY <1>4 DEF Kill, End
  <2>2. \A q \in Procs : stage'[q] \notin {"cleanup", "done"} => stage[q] \notin {"cleanup", "done"}
    BY <1>0, <2>1
  <2>3. faults' = 0 => faults = 0
    BY <1>0, <2>1
  <2> QED
    BY <2>1, <2>2, <2>3, LeavesHistory
<1>5. CASE Next
  <2>1. CASE Rest
    BY <1>1, <2>1 DEF Rest
  <2> QED
    BY <1>2, <1>3, <1>4, <1>5, <2>1 DEF Next, Step
<1> QED
  BY <1>1, <1>5

(* Such a history gives back the rows it holds.                            *)
LEMMA HSurvives == HInv => RecordsSurvive
<1> SUFFICES ASSUME HInv PROVE RecordsSurvive
  OBVIOUS
<1> DEFINE read == ReadBenchmarkHistory(history)
<1>1. /\ history \in Seq(Tokens) /\ Legible(history, recorded)
      /\ \A i \in DOMAIN recorded : recorded[i] \in RunNames
  BY LengthFacts DEF HInv
<1>2. ASSUME NEW i \in DOMAIN recorded PROVE \E r \in read : r[2] = WholeRow(recorded[i])
  <2>1. PICK s \in TimesOf(history, recorded[i]) : Begins(history, s, Row(recorded[i]))
    BY <1>1 DEF Legible
  <2>2. <<s, WholeRow(recorded[i])>> \in read
    BY <1>1, <2>1, RowRead
  <2> QED
    BY <2>2
<1>3. ASSUME NEW r \in read, NEW i \in DOMAIN recorded, r[2] = WholeRow(recorded[i])
      PROVE  r[1] \in TimesOf(history, recorded[i])
  <2>1. r[2][1] = <<<<"time", recorded[i]>>>>
    <3>1. \A line : FourFields(line)[1] = <<line[1]>>
      BY DEF FourFields
    <3>2. Row(recorded[i])[1] = <<"time", recorded[i]>>
      BY <1>1, RowFacts
    <3> QED
      BY <1>3, <3>1, <3>2, WholeRowFacts
  <2>2. history[r[1]] = <<"time", recorded[i]>> /\ r[1] \in LineStarts(history)
    BY <1>1, <2>1, RecordFacts
  <2>3. r[1] \in DOMAIN history
    BY <1>1, <2>2, LengthFacts DEF LineStarts
  <2> QED
    BY <2>2, <2>3 DEF TimesOf
<1>4. ASSUME NEW r \in read, NEW t \in read, NEW i \in DOMAIN recorded, NEW j \in DOMAIN recorded,
             r[2] = WholeRow(recorded[i]), t[2] = WholeRow(recorded[j])
      PROVE  i < j <=> r[1] < t[1]
  <2>1. r[1] \in TimesOf(history, recorded[i]) /\ t[1] \in TimesOf(history, recorded[j])
    BY <1>3, <1>4
  <2> QED
    BY <1>1, <2>1 DEF Legible
<1>5. ASSUME faults = 0, NEW r \in read PROVE \E i \in DOMAIN recorded : r[2] = WholeRow(recorded[i])
  <2>1. r[1] \in LineStarts(history) /\ r[2] \in ReadRow(Line(history, r[1]))
    BY <1>1, RecordFacts
  <2>2. ~Begins(history, r[1], Header)
    BY <1>1, <2>1, HeaderUnread
  <2>3. PICK i \in DOMAIN recorded : r[1] \in TimesOf(history, recorded[i])
    BY <1>5, <2>1, <2>2 DEF HInv, Tidy
  <2>4. Begins(history, r[1], Row(recorded[i]))
    BY <1>1, <2>3 DEF Legible
  <2>5. ReadRow(Line(history, r[1])) = {WholeRow(recorded[i])}
    BY <1>1, <2>4, RowLine
  <2> QED
    BY <2>1, <2>5
<1> HIDE DEF read
<1>6. /\ \A i \in DOMAIN recorded : \E r \in read : r[2] = WholeRow(recorded[i])
      /\ \A r, t \in read : \A i, j \in DOMAIN recorded :
           r[2] = WholeRow(recorded[i]) /\ t[2] = WholeRow(recorded[j]) => (i < j <=> r[1] < t[1])
      /\ faults = 0 => \A r \in read : \E i \in DOMAIN recorded : r[2] = WholeRow(recorded[i])
  BY <1>2, <1>4, <1>5
<1> QED
  BY <1>6, Zenon DEF RecordsSurvive, read

(* Whatever the runs do to each other while they look for the header, open *)
(* and append, and whatever kills them or cuts them short, every row that  *)
(* was appended whole at the start of a line is read back, once and in the *)
(* order of the appends, and without faults nothing else is                *)
(* (readBenchmarkHistory, appendBenchmarkHistory).                         *)
THEOREM RecordsAlwaysSurvive == Spec => []RecordsSurvive
<1>1. BInv /\ [Next]_vars => BInv'
  BY BNext
<1>2. BInv /\ HInv /\ [Next]_vars => HInv'
  BY HNext
<1> QED
  BY BInit, HInit, <1>1, <1>2, HSurvives, PTL DEF Spec
=============================================================================
