------------------------- MODULE ModuleLoaderProofs -------------------------
(***************************************************************************)
(* Proofs about ModuleLoader, for every set of files, every import graph   *)
(* and every command line.                                                 *)
(***************************************************************************)
EXTENDS ModuleLoader, SequenceLemmas, TLAPS

(* What an input holds: every file has a sequence of imports.              *)
LEMMA InputFacts ==
  ASSUME input \in Inputs
  PROVE  /\ input.entries \in Seq(File)
         /\ \A f \in File : ImportsOf(f) \in Seq(Import)
         /\ \A f \in File : \A i \in 1 .. Len(ImportsOf(f)) :
              /\ ImportsOf(f)[i].kind = "source" => ImportsOf(f)[i].name \in Path
              /\ ImportsOf(f)[i].kind = "library" => ImportsOf(f)[i].name \in Lib
<1>1. input \in Input
  BY InputAssumption
<1>2. input.entries \in Seq(File) /\ input.disk \in [File -> Source]
  BY <1>1 DEF Input
<1>3. \A f \in File : ImportsOf(f) \in Seq(Import)
  BY <1>2 DEF ImportsOf, Source
<1>4. \A m \in Import : /\ m.kind = "source" => m.name \in Path
                        /\ m.kind = "library" => m.name \in Lib
  BY DEF Import
<1> QED
  BY <1>2, <1>3, <1>4, LengthFacts

(* Resolution finds a file for every spelling, and a library reference.    *)
LEMMA ResolveFacts ==
  /\ \A f \in File, p \in Path : Resolve(f, p) \in File
  /\ \A l \in Lib : ResolveLib(l) \in LibRef
  BY PathAssumption DEF Resolve, ResolveLib, LibRef

-----------------------------------------------------------------------------
(* The activation records are at one of their file's imports, or past the  *)
(* last one.                                                               *)
Within(records) ==
  \A i \in DOMAIN records :
    records[i].next \in 1 .. Len(ImportsOf(records[i].file)) + 1

(* The innermost activation record.                                        *)
LEMMA InnermostFacts ==
  ASSUME TypeOK, calls # << >>
  PROVE  /\ Len(calls) \in Nat \ {0}
         /\ Len(calls) \in DOMAIN calls
         /\ Last(calls) = calls[Len(calls)]
         /\ Last(calls) \in Frame
         /\ Last(calls).next \in Nat
         /\ Last(calls).file \in File
         /\ Last(calls).libs \in Seq(LibRef)
<1>1. calls \in Seq(Frame)
  BY DEF TypeOK
<1>2. Len(calls) \in Nat \ {0} /\ DOMAIN calls = 1 .. Len(calls)
  BY <1>1, LengthFacts
<1>3. Last(calls) = calls[Len(calls)] /\ Last(calls) \in Frame
  BY <1>1, <1>2, LengthFacts DEF Last
<1> QED
  BY <1>2, <1>3 DEF Frame

(* The record at an import is of a file, and so is what it imports.        *)
LEMMA AtImportFacts ==
  ASSUME TypeOK, NEW kind, AtImport(kind)
  PROVE  /\ Last(calls).next \in 1 .. Len(ImportsOf(Last(calls).file))
         /\ ImportsOf(Last(calls).file) \in Seq(Import)
         /\ kind = "source" =>
              /\ CurrentImport \in Path
              /\ Resolve(Last(calls).file, CurrentImport) \in File
         /\ kind = "library" => ResolveLib(CurrentImport) \in LibRef
<1>1. calls # << >> /\ Last(calls).next <= Len(ImportsOf(Last(calls).file))
  BY DEF AtImport
<1>2. Last(calls).file \in File /\ Last(calls).next \in Nat
  BY <1>1, InnermostFacts
<1>3. Last(calls).next >= 1
  BY <1>1, InnermostFacts DEF TypeOK
<1>4. ImportsOf(Last(calls).file) \in Seq(Import)
  BY <1>2, InputFacts DEF TypeOK
<1>5. Last(calls).next \in 1 .. Len(ImportsOf(Last(calls).file))
  BY <1>1, <1>2, <1>3, <1>4, LengthFacts
<1>6. ImportsOf(Last(calls).file)[Last(calls).next].kind = kind
  BY DEF AtImport
<1>7. /\ kind = "source" => CurrentImport \in Path
      /\ kind = "library" => CurrentImport \in Lib
  BY <1>2, <1>5, <1>6, InputFacts DEF TypeOK, CurrentImport
<1> QED
  BY <1>2, <1>4, <1>5, <1>7, ResolveFacts

(* Advancing changes the innermost record only, and keeps it within its    *)
(* file's imports.                                                         *)
LEMMA AdvancedFacts ==
  ASSUME TypeOK, NEW kind, AtImport(kind)
  PROVE  /\ Advanced \in Seq(Frame)
         /\ Len(Advanced) = Len(calls)
         /\ \A i \in 1 .. Len(calls) : Advanced[i].file = calls[i].file
         /\ \A i \in 1 .. Len(calls) : i # Len(calls) => Advanced[i] = calls[i]
         /\ Advanced[Len(calls)].next = calls[Len(calls)].next + 1
         /\ Advanced[Len(calls)].libs = calls[Len(calls)].libs
         /\ Within(Advanced)
<1> DEFINE n == Len(calls)
<1> DEFINE top == [calls[n] EXCEPT !.next = @ + 1]
<1>1. calls # << >> /\ calls \in Seq(Frame) /\ Within(calls)
  BY DEF AtImport, TypeOK, Within, ImportsOf
<1>2. n \in 1 .. Len(calls) /\ calls[n] \in Frame /\ n \in Nat \ {0}
  BY <1>1, InnermostFacts
<1>3. /\ top \in Frame
      /\ top.file = calls[n].file
      /\ top.next = calls[n].next + 1
      /\ top.libs = calls[n].libs
  BY <1>2 DEF Frame
<1>4. Advanced = [calls EXCEPT ![n] = top]
  BY DEF Advanced
<1> HIDE DEF top
<1>5. /\ Advanced \in Seq(Frame)
      /\ Len(Advanced) = n
      /\ \A j \in 1 .. n : Advanced[j] = IF j = n THEN top ELSE calls[j]
  BY <1>1, <1>2, <1>3, <1>4, ExceptSeq
<1>6. top.next \in 1 .. Len(ImportsOf(top.file)) + 1
  <2>1. calls[n].next \in 1 .. Len(ImportsOf(calls[n].file))
    BY <1>1, InnermostFacts, AtImportFacts
  <2>2. ImportsOf(calls[n].file) \in Seq(Import)
    BY <1>1, InnermostFacts, AtImportFacts
  <2> QED
    BY <1>3, <2>1, <2>2, LengthFacts
<1>7. Within(Advanced)
  BY <1>1, <1>5, <1>6, LengthFacts DEF Within
<1> QED
  BY <1>2, <1>3, <1>5, <1>7

(* What a call of the loader does to the types.                            *)
LEMMA VisitTypes ==
  ASSUME TypeOK, NEW f \in File,
         NEW resumed \in Seq(Frame), Within(resumed), Visit(f, resumed)
  PROVE  /\ calls' \in Seq(Frame)
         /\ Within(calls')
         /\ loaded' \subseteq File
         /\ inProgress' \subseteq File
         /\ stack' \in Seq(File)
         /\ order' = order
         /\ outcome' \in Outcome
         /\ cycle' \in Seq(File)
<1> USE DEF TypeOK, build, Outcome
<1> DEFINE new == [file |-> f, next |-> 1, libs |-> << >>]
<1>1. CASE f \in loaded /\ Returned(resumed)
  BY <1>1 DEF Returned
<1>2. CASE /\ f \in inProgress
           /\ Throw("cycle")
           /\ cycle' = Append(stack, f)
           /\ UNCHANGED <<calls, build>>
  BY <1>2, AppendFacts DEF Throw, Within, ImportsOf
<1>3. CASE Throw("missing") /\ UNCHANGED <<calls, build, cycle>>
  BY <1>3 DEF Throw, Within, ImportsOf
<1>4. CASE Open(f, resumed)
  <2>1. new \in Frame
    BY EmptySeq DEF Frame
  <2>2. new.next \in 1 .. Len(ImportsOf(new.file)) + 1
    BY InputFacts, LengthFacts
  <2>3. stack' \in Seq(File)
    BY <1>4, AppendFacts DEF Open
  <2>4. CASE Parses(f)
    <3>1. calls' = Append(resumed, new)
      BY <1>4, <2>4 DEF Open
    <3>2. calls' \in Seq(Frame) /\ Len(calls') = Len(resumed) + 1
      BY <2>1, <3>1, AppendFacts
    <3> HIDE DEF new
    <3>3. Within(calls')
      BY <2>1, <2>2, <3>1, <3>2, AppendFacts, LengthFacts, SMTT(30) DEF Within
    <3> QED
      BY <1>4, <2>3, <2>4, <3>2, <3>3 DEF Open
  <2>5. CASE ~ Parses(f)
    BY <1>4, <2>3, <2>5 DEF Open, Throw, Within, ImportsOf
  <2> QED
    BY <2>4, <2>5
<1> QED
  BY <1>1, <1>2, <1>3, <1>4 DEF Visit

(* Every step keeps the types.                                             *)
LEMMA TypeStep ==
  ASSUME TypeOK, [Next]_vars
  PROVE  TypeOK'
<1> DEFINE Calls(c) == c \in Seq(Frame) /\ Within(c)
<1>0. /\ Calls(calls)
      /\ Len(input.entries) \in Nat
      /\ \A c : input' = input /\ Calls(c) =>
           \A i \in DOMAIN c :
             c[i].next \in 1 .. Len(input'.disk[c[i].file].imports) + 1
      /\ Len(order) \in Nat
  BY InputFacts, LengthFacts DEF TypeOK, Within, ImportsOf
<1> HIDE DEF Calls
<1>1. CASE LoadEntry
  <2>1. input.entries[nextEntry] \in File
    BY <1>1, InputFacts, LengthFacts DEF LoadEntry, TypeOK
  <2>2. << >> \in Seq(Frame) /\ Within(<< >>)
    BY EmptySeq DEF Within
  <2>3. Visit(input.entries[nextEntry], << >>)
    BY <1>1 DEF LoadEntry
  <2>4. /\ Calls(calls')
        /\ loaded' \subseteq File /\ inProgress' \subseteq File
        /\ stack' \in Seq(File) /\ order' = order
        /\ outcome' \in Outcome /\ cycle' \in Seq(File)
    BY <2>1, <2>2, <2>3, VisitTypes DEF Calls
  <2>5. input' = input /\ UNCHANGED merge /\ nextEntry' = nextEntry + 1
        /\ nextEntry <= Len(input.entries)
    BY <1>1 DEF LoadEntry
  <2> QED
    BY <1>0, <2>4, <2>5 DEF TypeOK, merge, Calls
<1>2. CASE ImportSource
  <2>1. AtImport("source") /\ Visit(Resolve(Last(calls).file, CurrentImport), Advanced)
    BY <1>2 DEF ImportSource
  <2>2. /\ Calls(calls')
        /\ loaded' \subseteq File /\ inProgress' \subseteq File
        /\ stack' \in Seq(File) /\ order' = order
        /\ outcome' \in Outcome /\ cycle' \in Seq(File)
    BY <2>1, AtImportFacts, AdvancedFacts, VisitTypes DEF Calls
  <2>3. input' = input /\ UNCHANGED merge /\ nextEntry' = nextEntry
    BY <1>2 DEF ImportSource
  <2> QED
    BY <1>0, <2>2, <2>3 DEF TypeOK, merge, Calls
<1>3. CASE ImportLibrary
  <2> DEFINE n == Len(calls)
  <2> DEFINE top == [Advanced[n] EXCEPT
                       !.libs = Append(@, ResolveLib(CurrentImport))]
  <2>1. AtImport("library") /\ calls # << >>
    BY <1>3 DEF ImportLibrary, AtImport
  <2>2. /\ Advanced \in Seq(Frame) /\ Len(Advanced) = n /\ Within(Advanced)
        /\ n \in 1 .. Len(Advanced)
        /\ Advanced[n] \in Frame
    BY <2>1, AdvancedFacts, InnermostFacts, LengthFacts
  <2>3. Append(Advanced[n].libs, ResolveLib(CurrentImport)) \in Seq(LibRef)
    BY <2>1, <2>2, AtImportFacts, AppendFacts DEF Frame
  <2>4. top \in Frame /\ top.next = Advanced[n].next /\ top.file = Advanced[n].file
    BY <2>2, <2>3 DEF Frame
  <2>5. calls' = [Advanced EXCEPT ![n] = top]
    BY <1>3 DEF ImportLibrary
  <2> HIDE DEF top
  <2>6. /\ calls' \in Seq(Frame) /\ Len(calls') = n
        /\ \A i \in 1 .. n : calls'[i] = IF i = n THEN top ELSE Advanced[i]
    BY <2>2, <2>4, <2>5, ExceptSeq
  <2>7. Calls(calls')
    BY <2>2, <2>4, <2>6, LengthFacts DEF Calls, Within
  <2> QED
    BY <1>0, <1>3, <2>7 DEF TypeOK, Calls, ImportLibrary, build, merge
<1>4. CASE FinishModule
  <2>1. calls # << >>
    BY <1>4 DEF FinishModule
  <2>2. /\ calls' = Front(calls) /\ Front(calls) \in Seq(Frame)
        /\ Len(Front(calls)) = Len(calls) - 1
        /\ \A i \in 1 .. Len(calls) - 1 : Front(calls)[i] = calls[i]
        /\ Len(calls) \in Nat \ {0}
    BY <1>4, <2>1, FrontFacts DEF FinishModule, TypeOK
  <2>3. Calls(calls')
    BY <1>0, <2>2, LengthFacts DEF Calls, Within
  <2>4. stack' \in Seq(File)
    BY <1>4, FrontInSeq DEF FinishModule, TypeOK
  <2>5. order' \in Seq([file : File, libs : Seq(LibRef)])
        /\ Len(order') = Len(order) + 1
    <3>1. [file |-> Last(calls).file, libs |-> Last(calls).libs]
            \in [file : File, libs : Seq(LibRef)]
      BY <2>1, InnermostFacts
    <3> QED
      BY <1>4, <3>1, AppendFacts DEF FinishModule, TypeOK
  <2> QED
    <3>1. Last(calls).file \in File
      BY <2>1, InnermostFacts
    <3>2. loaded' \subseteq File /\ inProgress' \subseteq File
      BY <1>4, <3>1 DEF FinishModule, TypeOK
    <3>3. UNCHANGED <<input, nextEntry, outcome, cycle, mergeProgram, mergeItem,
                      merged>>
      BY <1>4 DEF FinishModule, merge
    <3>4. mergeProgram' \in 1 .. Len(order') + 1
      BY <1>0, <2>5, <3>3 DEF TypeOK
    <3> QED
      BY <1>0, <2>3, <2>4, <2>5, <3>2, <3>3, <3>4 DEF TypeOK, Calls
<1>5. CASE StartMerge
  BY <1>0, <1>5 DEF StartMerge, TypeOK, Outcome, build, merge, Calls
<1>6. CASE MergeImport
  <2>1. /\ mergeProgram \in 1 .. Len(order)
        /\ order[mergeProgram].libs \in Seq(LibRef)
        /\ mergeItem \in 1 .. Len(order[mergeProgram].libs)
    <3>1. mergeProgram \in 1 .. Len(order) /\ mergeItem \in Nat \ {0}
      BY <1>0, <1>6 DEF MergeImport, TypeOK
    <3>2. order[mergeProgram] \in [file : File, libs : Seq(LibRef)]
      BY <3>1, LengthFacts DEF TypeOK
    <3>3. order[mergeProgram].libs \in Seq(LibRef)
      BY <3>2
    <3> QED
      BY <1>6, <3>1, <3>3, LengthFacts DEF MergeImport
  <2>2. merged' \in Seq(LibRef)
    BY <1>6, <2>1, LengthFacts, AppendFacts DEF MergeImport, TypeOK
  <2> QED
    BY <1>0, <1>6, <2>2 DEF MergeImport, TypeOK, build, Calls
<1>7. CASE MergeNextProgram
  BY <1>0, <1>7 DEF MergeNextProgram, TypeOK, build, Calls
<1>8. CASE FinishMerge
  BY <1>0, <1>8 DEF FinishMerge, TypeOK, Outcome, build, merge, Calls
<1>9. CASE CheckImports
  BY <1>0, <1>9 DEF CheckImports, TypeOK, Outcome, build, merge, Calls
<1>10. CASE UNCHANGED vars
  BY <1>0, <1>10 DEF TypeOK, vars, build, merge, Calls
<1> QED
  BY <1>1, <1>2, <1>3, <1>4, <1>5, <1>6, <1>7, <1>8, <1>9, <1>10
     DEF Next, Step, Stopped

(* The initial states are typed.                                           *)
LEMMA TypeInit ==
  ASSUME Init
  PROVE  TypeOK
<1>1. input.entries \in Seq(File) /\ Len(input.entries) \in Nat
  BY InputFacts, LengthFacts DEF Init
<1>2. << >> \in Seq(Frame) /\ << >> \in Seq(File) /\ << >> \in Seq(LibRef)
      /\ << >> \in Seq([file : File, libs : Seq(LibRef)]) /\ Len(<< >>) = 0
  BY EmptySeq
<1> QED
  BY <1>1, <1>2 DEF Init, TypeOK, Outcome

(* The type invariant holds for every file system and every command line.  *)
THEOREM Typed == Spec => []TypeOK
<1>1. Init => TypeOK
  BY TypeInit
<1>2. TypeOK /\ [Next]_vars => TypeOK'
  BY TypeStep
<1> QED
  BY <1>1, <1>2, PTL DEF Spec

-----------------------------------------------------------------------------
(* The inductive invariant.  What a module imports precedes it in the      *)
(* order because its activation record, when it ends, has dealt with every *)
(* import; this is known of a record only through the records above it.    *)

(* FramesAgree, position by position.                                      *)
FramesMatch ==
  outcome = "loading" =>
    /\ Len(stack) = Len(calls)
    /\ \A i \in 1 .. Len(calls) : stack[i] = calls[i].file
    /\ inProgress = {calls[i].file : i \in 1 .. Len(calls)}
    /\ \A i, j \in 1 .. Len(calls) : calls[i].file = calls[j].file => i = j

(* A module is not emitted while it is being loaded.                       *)
NotYetLoaded == outcome = "loading" => loaded \cap inProgress = {}

(* The modules being loaded lead from an entry file to the innermost one.  *)
Chain ==
  outcome = "loading" =>
    /\ \A i \in 1 .. Len(calls) : Parses(calls[i].file)
    /\ \A i \in 1 .. Len(calls) - 1 :
         ImportsFile(calls[i].file, calls[i + 1].file)
    /\ calls # << >> => calls[1].file \in ToSet(input.entries)

(* An import that a record has passed is loaded, or is the next record.    *)
PassedBy(record, g) ==
  \E k \in 1 .. record.next - 1 :
    /\ ImportsOf(record.file)[k].kind = "source"
    /\ Resolve(record.file, ImportsOf(record.file)[k].name) = g

Handled ==
  outcome = "loading" =>
    \A i \in 1 .. Len(calls) : \A g \in File :
      PassedBy(calls[i], g) =>
        g \in loaded \/ (i < Len(calls) /\ calls[i + 1].file = g)

IInv ==
  /\ TypeOK
  /\ FramesMatch
  /\ NotYetLoaded
  /\ Chain
  /\ Handled
  /\ LoadedOnce
  /\ DependencyOrder
  /\ CycleIsReal

(* The import relation and the parsed files depend on the input only.      *)
LEMMA SameImports ==
  ASSUME UNCHANGED input
  PROVE  /\ \A f, g : ImportsFile(f, g)' <=> ImportsFile(f, g)
         /\ \A f : Parses(f)' <=> Parses(f)
         /\ \A r, g : PassedBy(r, g)' <=> PassedBy(r, g)
  BY DEF ImportsFile, PassedBy, Parses, ImportsOf, Resolve, Exists

(* Steps that load nothing keep the invariant.                             *)
LEMMA IdleKeeps ==
  ASSUME IInv, TypeOK', UNCHANGED <<input, calls, build, cycle>>,
         outcome' = outcome \/ outcome' \notin {"loading", "cycle"}
  PROVE  IInv'
<1>1. LoadedOnce' /\ DependencyOrder'
  BY SameImports DEF IInv, LoadedOnce, DependencyOrder, build
<1>2. FramesMatch' /\ NotYetLoaded'
  BY DEF IInv, FramesMatch, NotYetLoaded, build
<1>3. Chain' /\ CycleIsReal'
  BY SameImports DEF IInv, Chain, CycleIsReal, build
<1>4. Handled'
  BY SameImports DEF IInv, Handled, build
<1> QED
  BY <1>1, <1>2, <1>3, <1>4 DEF IInv

(* A call of the loader for a file that the innermost record imports, or   *)
(* for an entry file, keeps the invariant.                                 *)
LEMMA VisitKeeps ==
  ASSUME IInv, TypeOK', UNCHANGED input, outcome = "loading",
         NEW f \in File, NEW resumed \in Seq(Frame), Visit(f, resumed),
         Len(resumed) = Len(calls),
         \A i \in 1 .. Len(calls) : resumed[i].file = calls[i].file,
         \A i \in 1 .. Len(calls) : \A g \in File :
           PassedBy(resumed[i], g) =>
             PassedBy(calls[i], g) \/ (i = Len(calls) /\ g = f),
         IF calls = << >> THEN f \in ToSet(input.entries)
                          ELSE ImportsFile(calls[Len(calls)].file, f)
  PROVE  IInv'
<1> DEFINE n == Len(calls)
<1> DEFINE new == [file |-> f, next |-> 1, libs |-> << >>]
<1>0. /\ n \in Nat
      /\ calls = << >> <=> n = 0
      /\ resumed = << >> <=> n = 0
      /\ Len(stack) = n
      /\ stack \in Seq(File)
  BY LengthFacts DEF IInv, TypeOK, FramesMatch
<1>1. CASE f \in loaded /\ Returned(resumed)
  <2>1. LoadedOnce' /\ DependencyOrder' /\ CycleIsReal'
    BY <1>1, SameImports
       DEF IInv, LoadedOnce, DependencyOrder, CycleIsReal, Returned, build
  <2>2. FramesMatch' /\ NotYetLoaded'
    BY <1>0, <1>1 DEF IInv, FramesMatch, NotYetLoaded, Returned, build
  <2>3. Chain'
    BY <1>0, <1>1, SameImports DEF IInv, Chain, Returned, build
  <2>4. Handled'
    BY <1>0, <1>1, SameImports DEF IInv, Handled, Returned, build
  <2> QED
    BY <2>1, <2>2, <2>3, <2>4 DEF IInv
<1>2. CASE /\ f \in inProgress
           /\ Throw("cycle")
           /\ cycle' = Append(stack, f)
           /\ UNCHANGED <<calls, build>>
  <2>1. LoadedOnce' /\ DependencyOrder'
    BY <1>2, SameImports DEF IInv, LoadedOnce, DependencyOrder, build
  <2>2. FramesMatch' /\ NotYetLoaded' /\ Chain' /\ Handled'
    BY <1>2 DEF FramesMatch, NotYetLoaded, Chain, Handled, Throw
  <2>3. CycleIsReal'
    <3>1. /\ Len(cycle') = n + 1
          /\ \A i \in 1 .. n : cycle'[i] = calls[i].file
          /\ cycle'[n + 1] = f
          /\ Last(cycle') = f
      BY <1>0, <1>2, AppendFacts DEF IInv, FramesMatch, Last
    <3>2. PICK k \in 1 .. n : calls[k].file = f
      BY <1>2 DEF IInv, FramesMatch
    <3>3. n # 0 /\ calls # << >>
      BY <1>0, <3>2
    <3>4. \A i \in 1 .. n : ImportsFile(cycle'[i], cycle'[i + 1])
      <4> SUFFICES ASSUME NEW i \in 1 .. n
                   PROVE  ImportsFile(cycle'[i], cycle'[i + 1])
        OBVIOUS
      <4>1. CASE i = n
        BY <3>1, <3>3, <4>1
      <4>2. CASE i # n
        <5>1. i \in 1 .. n - 1 /\ i + 1 \in 1 .. n
          BY <1>0, <4>2
        <5> QED
          BY <3>1, <5>1 DEF IInv, Chain
      <4> QED
        BY <4>1, <4>2
    <3>5. cycle'[1] \in ToSet(input.entries)
      BY <1>0, <3>1, <3>3 DEF IInv, Chain
    <3> QED
      BY <1>0, <3>1, <3>2, <3>4, <3>5, SameImports DEF CycleIsReal
  <2> QED
    BY <2>1, <2>2, <2>3 DEF IInv
<1>3. CASE Throw("missing") /\ UNCHANGED <<calls, build, cycle>>
  BY <1>3, IdleKeeps DEF Throw
<1>4. CASE f \notin loaded \cup inProgress /\ Open(f, resumed)
  <2>1. LoadedOnce' /\ DependencyOrder'
    BY <1>4, SameImports DEF IInv, LoadedOnce, DependencyOrder, Open
  <2>2. CycleIsReal'
    BY <1>4 DEF CycleIsReal, Open, Throw
  <2>3. CASE ~ Parses(f)
    BY <1>4, <2>1, <2>2, <2>3
       DEF IInv, FramesMatch, NotYetLoaded, Chain, Handled, Open, Throw
  <2>4. CASE Parses(f)
    <3>1. new \in Frame /\ new.file = f /\ new.next = 1
      BY EmptySeq DEF Frame
    <3>2. calls' = Append(resumed, new)
      BY <1>4, <2>4 DEF Open
    <3> HIDE DEF new
    <3>3. /\ Len(calls') = n + 1
          /\ \A i \in 1 .. n : calls'[i] = resumed[i]
          /\ calls'[n + 1] = new
          /\ Len(stack') = n + 1
          /\ \A i \in 1 .. n : stack'[i] = stack[i]
          /\ stack'[n + 1] = f
          /\ calls' # << >>
      BY <1>0, <1>4, <3>1, <3>2, AppendFacts, AppendProperties DEF Open
    <3>4. \A i \in 1 .. n + 1 : calls'[i].file = IF i = n + 1 THEN f ELSE calls[i].file
      BY <1>0, <3>1, <3>3
    <3>5. FramesMatch' /\ NotYetLoaded'
      <4>1. \A i \in 1 .. n : calls[i].file \in inProgress /\ calls[i].file # f
        BY <1>4 DEF IInv, FramesMatch
      <4>2. \A i, j \in 1 .. n + 1 : calls'[i].file = calls'[j].file => i = j
        <5>1. \A i, j \in 1 .. n : calls[i].file = calls[j].file => i = j
          BY DEF IInv, FramesMatch
        <5>2. \A i \in 1 .. n + 1 : i = n + 1 \/ i \in 1 .. n
          BY <1>0
        <5> QED
          BY <3>4, <4>1, <5>1, <5>2
      <4>3. inProgress' = {calls'[i].file : i \in 1 .. n + 1}
        <5>1. inProgress' = inProgress \cup {f}
          BY <1>4 DEF Open
        <5>2. inProgress = {calls[i].file : i \in 1 .. n}
          BY DEF IInv, FramesMatch
        <5>3. \A i : i \in 1 .. n + 1 <=> i = n + 1 \/ i \in 1 .. n
          BY <1>0
        <5>4. n + 1 \notin 1 .. n
          BY <1>0
        <5>5. inProgress \subseteq {calls'[i].file : i \in 1 .. n + 1}
          BY <3>4, <5>2, <5>3, <5>4
        <5>6. f \in {calls'[i].file : i \in 1 .. n + 1}
          BY <3>4, <5>3
        <5>7. {calls'[i].file : i \in 1 .. n + 1} \subseteq inProgress \cup {f}
          BY <3>4, <5>2, <5>3, <5>4
        <5> QED
          BY <5>1, <5>5, <5>6, <5>7
      <4>4. \A i \in 1 .. n + 1 : stack'[i] = calls'[i].file
        BY <1>0, <1>4, <3>3, <3>4 DEF IInv, FramesMatch
      <4> QED
        BY <1>4, <3>3, <4>2, <4>3, <4>4
           DEF IInv, FramesMatch, NotYetLoaded, Open
    <3>6. Chain'
      <4>1. \A i \in 1 .. n + 1 : Parses(calls'[i].file)
        BY <1>0, <2>4, <3>4 DEF IInv, Chain
      <4>2. \A i \in 1 .. n : ImportsFile(calls'[i].file, calls'[i + 1].file)
        <5> SUFFICES ASSUME NEW i \in 1 .. n
                     PROVE  ImportsFile(calls'[i].file, calls'[i + 1].file)
          OBVIOUS
        <5>1. CASE i = n
          BY <1>0, <3>4, <5>1
        <5>2. CASE i # n
          <6>1. i \in 1 .. n - 1 /\ i + 1 \in 1 .. n
            BY <1>0, <5>2
          <6> QED
            BY <1>0, <3>4, <6>1 DEF IInv, Chain
        <5> QED
          BY <5>1, <5>2
      <4>3. calls'[1].file \in ToSet(input.entries)
        BY <1>0, <3>4 DEF IInv, Chain
      <4> QED
        BY <1>0, <3>3, <4>1, <4>2, <4>3, SameImports DEF Chain
    <3>7. Handled'
      <4>1. \A g \in File : ~ PassedBy(calls'[n + 1], g)
        BY <3>1, <3>3 DEF PassedBy
      <4>2. \A i \in 1 .. n : \A g \in File :
              PassedBy(calls'[i], g) => g \in loaded \/ calls'[i + 1].file = g
        <5> SUFFICES ASSUME NEW i \in 1 .. n, NEW g \in File,
                            PassedBy(calls'[i], g), g \notin loaded
                     PROVE  calls'[i + 1].file = g
          OBVIOUS
        <5>1. CASE i = n
          BY <1>0, <3>3, <3>4, <5>1 DEF IInv, Handled
        <5>2. CASE i # n
          <6>1. i < n /\ i + 1 \in 1 .. n /\ i + 1 \in 1 .. n + 1 /\ i + 1 # n + 1
            BY <1>0, <5>2
          <6>2. calls[i + 1].file = g
            BY <3>3, <5>2 DEF IInv, Handled
          <6> QED
            BY <3>4, <6>1, <6>2
        <5> QED
          BY <5>1, <5>2
      <4> QED
        BY <1>0, <1>4, <3>3, <4>1, <4>2, SameImports DEF Handled, Open
    <3> QED
      BY <2>1, <2>2, <3>5, <3>6, <3>7 DEF IInv
  <2> QED
    BY <2>3, <2>4
<1> QED
  BY <1>1, <1>2, <1>3, <1>4 DEF Visit

(* What the innermost record has passed after it advances: its current     *)
(* import is the only addition.                                            *)
LEMMA AdvancedPasses ==
  ASSUME TypeOK, NEW kind, AtImport(kind), NEW record, NEW g,
         record.file = Last(calls).file,
         record.next = Last(calls).next + 1,
         PassedBy(record, g)
  PROVE  \/ PassedBy(Last(calls), g)
         \/ kind = "source" /\ g = Resolve(Last(calls).file, CurrentImport)
<1>1. PICK k \in 1 .. record.next - 1 :
        /\ ImportsOf(record.file)[k].kind = "source"
        /\ Resolve(record.file, ImportsOf(record.file)[k].name) = g
  BY DEF PassedBy
<1>2. Last(calls).next \in Nat
  BY InnermostFacts DEF AtImport
<1>3. CASE k = Last(calls).next
  BY <1>1, <1>3 DEF AtImport, CurrentImport
<1>4. CASE k # Last(calls).next
  <2>1. k \in 1 .. Last(calls).next - 1
    BY <1>1, <1>2, <1>4
  <2> QED
    BY <1>1, <2>1 DEF PassedBy
<1> QED
  BY <1>3, <1>4

(* Each action keeps the invariant, one lemma for each.                    *)
LEMMA LoadEntryKeeps ==
  ASSUME IInv, TypeOK', LoadEntry
  PROVE  IInv'
<1> DEFINE f == input.entries[nextEntry]
<1>1. calls = << >> /\ outcome = "loading" /\ Visit(f, << >>) /\ UNCHANGED input
  BY DEF LoadEntry
<1>2. /\ input.entries \in Seq(File)
      /\ nextEntry \in 1 .. Len(input.entries)
  BY InputFacts, LengthFacts DEF IInv, TypeOK, LoadEntry
<1>3. f \in File /\ f \in ToSet(input.entries)
  BY <1>2, LengthFacts DEF ToSet
<1> QED
  BY <1>1, <1>3, EmptySeq, VisitKeeps

(* A source import: the call that it makes is VisitKeeps.                  *)
LEMMA ImportSourceKeeps ==
  ASSUME IInv, TypeOK', ImportSource
  PROVE  IInv'
<1> DEFINE f == Resolve(Last(calls).file, CurrentImport)
<1>1. /\ AtImport("source")
      /\ outcome = "loading"
      /\ calls # << >>
      /\ Visit(f, Advanced)
      /\ UNCHANGED input
      /\ TypeOK
  BY DEF ImportSource, AtImport, IInv
<1>2. f \in File
  BY <1>1, AtImportFacts
<1>3. Last(calls) = calls[Len(calls)] /\ Len(calls) \in Nat \ {0}
  BY <1>1, InnermostFacts
<1>4. ImportsFile(calls[Len(calls)].file, f)
  <2>1. Parses(calls[Len(calls)].file)
    BY <1>1, <1>3 DEF IInv, Chain
  <2>2. Last(calls).next \in DOMAIN ImportsOf(Last(calls).file)
    BY <1>1, AtImportFacts, LengthFacts
  <2> QED
    BY <1>1, <1>3, <2>1, <2>2 DEF ImportsFile, AtImport, CurrentImport
<1>5. \A i \in 1 .. Len(calls) : \A g \in File :
        PassedBy(Advanced[i], g) =>
          PassedBy(calls[i], g) \/ (i = Len(calls) /\ g = f)
  <2>1. \A g : PassedBy(Advanced[Len(calls)], g) =>
                 PassedBy(calls[Len(calls)], g) \/ g = f
    BY <1>1, <1>3, AdvancedFacts, AdvancedPasses
  <2> QED
    BY <1>1, <1>3, <2>1, AdvancedFacts
<1> QED
  BY <1>1, <1>2, <1>4, <1>5, AdvancedFacts, VisitKeeps

(* A library import passes no source import.                               *)
LEMMA ImportLibraryKeeps ==
  ASSUME IInv, TypeOK', ImportLibrary
  PROVE  IInv'
<1> DEFINE n == Len(calls)
<1> DEFINE ref == ResolveLib(CurrentImport)
<1>1. /\ AtImport("library")
      /\ outcome = "loading"
      /\ calls # << >>
      /\ calls' = [Advanced EXCEPT ![n].libs = Append(@, ref)]
      /\ UNCHANGED <<input, build, outcome, cycle>>
      /\ TypeOK
  BY DEF ImportLibrary, AtImport, IInv
<1>2. n \in Nat \ {0} /\ n \in 1 .. n /\ Last(calls) = calls[n]
  BY <1>1, InnermostFacts
<1>3. /\ Advanced \in Seq(Frame)
      /\ Len(Advanced) = n
      /\ DOMAIN Advanced = 1 .. n
      /\ Advanced[n] \in Frame
      /\ \A i \in 1 .. n : Advanced[i].file = calls[i].file
      /\ \A i \in 1 .. n : i # n => Advanced[i] = calls[i]
      /\ Advanced[n].next = calls[n].next + 1
  BY <1>1, <1>2, AdvancedFacts, LengthFacts
<1>4. /\ Len(calls') = n
      /\ \A i \in 1 .. n : i # n => calls'[i] = calls[i]
      /\ calls'[n].file = calls[n].file
      /\ calls'[n].next = calls[n].next + 1
  <2> DEFINE top == [Advanced[n] EXCEPT !.libs = Append(@, ref)]
  <2>1. Append(Advanced[n].libs, ref) \in Seq(LibRef)
    BY <1>1, <1>3, AtImportFacts, AppendFacts DEF Frame
  <2>2. top \in Frame /\ top.next = Advanced[n].next /\ top.file = Advanced[n].file
    BY <1>3, <2>1 DEF Frame
  <2>3. calls' = [Advanced EXCEPT ![n] = top]
    BY <1>1
  <2> HIDE DEF top
  <2>4. /\ Len(calls') = n
        /\ \A i \in 1 .. n : calls'[i] = IF i = n THEN top ELSE Advanced[i]
    BY <1>2, <1>3, <2>2, <2>3, ExceptSeq
  <2> QED
    BY <1>2, <1>3, <2>2, <2>4
<1>5. \A i \in 1 .. n : calls'[i].file = calls[i].file
  BY <1>4
<1>6. LoadedOnce' /\ DependencyOrder' /\ CycleIsReal'
  BY <1>1, SameImports DEF IInv, LoadedOnce, DependencyOrder, CycleIsReal, build
<1>7. FramesMatch' /\ NotYetLoaded'
  <2>1. {calls'[i].file : i \in 1 .. n} = {calls[i].file : i \in 1 .. n}
    BY <1>5
  <2> QED
    BY <1>1, <1>4, <1>5, <2>1 DEF IInv, FramesMatch, NotYetLoaded, build
<1>8. Chain'
  <2>1. \A i \in 1 .. n - 1 : i \in 1 .. n /\ i + 1 \in 1 .. n
    BY <1>2
  <2>2. 1 \in 1 .. n
    BY <1>2
  <2> QED
    BY <1>1, <1>4, <1>5, <2>1, <2>2, SameImports DEF IInv, Chain
<1>9. Handled'
  <2>1. \A i \in 1 .. n : \A g \in File : PassedBy(calls'[i], g) => PassedBy(calls[i], g)
    <3>1. \A g : PassedBy(calls'[n], g) => PassedBy(calls[n], g)
      <4> DEFINE record == calls'[n]
      <4>1. /\ record.file = Last(calls).file
            /\ record.next = Last(calls).next + 1
        BY <1>2, <1>4
      <4> HIDE DEF record
      <4> SUFFICES ASSUME NEW g, PassedBy(record, g)
                   PROVE  PassedBy(calls[n], g)
        BY DEF record
      <4>2. PassedBy(Last(calls), g) \/ "library" = "source"
        BY <1>1, <4>1, AdvancedPasses
      <4> QED
        BY <1>2, <4>2
    <3> QED
      BY <1>4, <3>1
  <2>2. \A i \in 1 .. n : i < n => i + 1 \in 1 .. n
    BY <1>2
  <2> QED
    BY <1>1, <1>4, <1>5, <2>1, <2>2, SameImports DEF IInv, Handled, build
<1> QED
  BY <1>6, <1>7, <1>8, <1>9 DEF IInv

(* The end of a call: the module has dealt with all its imports.           *)
LEMMA FinishModuleKeeps ==
  ASSUME IInv, TypeOK', FinishModule
  PROVE  IInv'
<1> DEFINE n == Len(calls)
<1> DEFINE f == calls[n].file
<1> DEFINE m == Len(order)
<1>1. /\ outcome = "loading"
      /\ calls # << >>
      /\ Last(calls).next > Len(ImportsOf(Last(calls).file))
      /\ calls' = Front(calls)
      /\ stack' = Front(stack)
      /\ UNCHANGED <<input, outcome, cycle>>
      /\ TypeOK
  BY DEF FinishModule, IInv
<1>2. n \in Nat \ {0} /\ n \in 1 .. n /\ Last(calls) = calls[n] /\ f \in File
  BY <1>1, InnermostFacts
<1>3. loaded' = loaded \cup {f} /\ inProgress' = inProgress \ {f}
  BY <1>2 DEF FinishModule
<1>4. /\ Len(calls') = n - 1
      /\ \A i \in 1 .. n - 1 : calls'[i] = calls[i]
      /\ calls' \in Seq(Frame)
      /\ calls' # << >> => n - 1 # 0
  BY <1>1, <1>2, FrontFacts, LengthFacts DEF TypeOK
<1>5. /\ Len(stack') = n - 1
      /\ \A i \in 1 .. n - 1 : stack'[i] = stack[i]
  <2>1. stack \in Seq(File) /\ Len(stack) = n
    BY <1>1 DEF TypeOK, IInv, FramesMatch
  <2>2. stack # << >>
    BY <1>2, <2>1
  <2> QED
    BY <1>1, <2>1, <2>2, FrontFacts
<1>6. /\ m \in Nat
      /\ DOMAIN order = 1 .. m
      /\ DOMAIN order' = 1 .. m + 1
      /\ \A i \in 1 .. m : order'[i] = order[i]
      /\ order'[m + 1].file = f
  <2> DEFINE program == [file |-> Last(calls).file, libs |-> Last(calls).libs]
  <2>1. program \in [file : File, libs : Seq(LibRef)] /\ program.file = f
    BY <1>1, <1>2, InnermostFacts
  <2>2. order' = Append(order, program)
    BY DEF FinishModule
  <2> HIDE DEF program
  <2> QED
    BY <1>1, <2>1, <2>2, AppendFacts, LengthFacts DEF TypeOK
<1>7. f \in inProgress /\ f \notin loaded
  BY <1>1, <1>2 DEF IInv, FramesMatch, NotYetLoaded
<1>8. FramesMatch'
  <2>1. \A i \in 1 .. n - 1 : i \in 1 .. n /\ i # n
    BY <1>2
  <2>2. /\ \A i \in 1 .. n : stack[i] = calls[i].file
        /\ inProgress = {calls[i].file : i \in 1 .. n}
        /\ \A i, j \in 1 .. n : calls[i].file = calls[j].file => i = j
    BY <1>1 DEF IInv, FramesMatch
  <2>3. \A i \in 1 .. n : i = n \/ i \in 1 .. n - 1
    BY <1>2
  <2>4. inProgress' = {calls'[i].file : i \in 1 .. n - 1}
    <3>1. \A x : x \in inProgress' <=> x # f /\ \E i \in 1 .. n : x = calls[i].file
      BY <1>3, <2>2
    <3>2. \A i \in 1 .. n - 1 : calls'[i].file = calls[i].file /\ calls[i].file # f
      BY <1>2, <1>4, <2>1, <2>2
    <3>3. \A x : x \in inProgress' <=> \E i \in 1 .. n - 1 : x = calls'[i].file
      <4>1. ASSUME NEW x, x \in inProgress'
            PROVE  \E i \in 1 .. n - 1 : x = calls'[i].file
        <5>1. PICK i \in 1 .. n : x = calls[i].file /\ x # f
          BY <3>1, <4>1
        <5>2. i \in 1 .. n - 1
          BY <2>3, <5>1
        <5> QED
          BY <3>2, <5>1, <5>2
      <4>2. ASSUME NEW i \in 1 .. n - 1
            PROVE  calls'[i].file \in inProgress'
        BY <2>1, <3>1, <3>2
      <4> QED
        BY <4>1, <4>2
    <3> QED
      BY <3>3
  <2> QED
    BY <1>4, <1>5, <2>1, <2>2, <2>4 DEF FramesMatch
<1>9. NotYetLoaded'
  BY <1>1, <1>3 DEF IInv, NotYetLoaded
<1>10. Chain'
  <2>1. \A i \in 1 .. (n - 1) - 1 : i \in 1 .. n - 1 /\ i + 1 \in 1 .. n - 1
    BY <1>2
  <2>2. \A i \in 1 .. n - 1 : i \in 1 .. n
    BY <1>2
  <2>3. n - 1 # 0 => 1 \in 1 .. n - 1
    <3> HIDE DEF n
    <3> QED
      BY <1>2
  <2> QED
    BY <1>1, <1>4, <2>1, <2>2, <2>3, SameImports DEF IInv, Chain
<1>11. Handled'
  <2> SUFFICES ASSUME NEW i \in 1 .. n - 1, NEW g \in File, PassedBy(calls[i], g)
               PROVE  g \in loaded' \/ (i < n - 1 /\ calls'[i + 1].file = g)
    BY <1>1, <1>4, SameImports DEF Handled
  <2>1. i \in 1 .. n /\ i < n
    BY <1>2
  <2>2. g \in loaded \/ calls[i + 1].file = g
    BY <1>1, <2>1 DEF IInv, Handled
  <2>3. CASE i + 1 = n
    BY <1>3, <2>2, <2>3
  <2>4. CASE i + 1 # n
    <3>1. i < n - 1 /\ i + 1 \in 1 .. n - 1
      BY <1>2, <2>4
    <3> QED
      BY <1>3, <1>4, <2>2, <3>1
  <2> QED
    BY <2>3, <2>4
<1>12. LoadedOnce'
  <2>1. \A i \in 1 .. m : order[i].file \in loaded /\ order[i].file # f
    BY <1>6, <1>7 DEF IInv, LoadedOnce
  <2>2. \A i \in 1 .. m + 1 : i = m + 1 \/ i \in 1 .. m
    BY <1>6
  <2>3. \A i, j \in 1 .. m + 1 : order'[i].file = order'[j].file => i = j
    BY <1>6, <2>1, <2>2 DEF IInv, LoadedOnce
  <2>4. loaded' = {order'[i].file : i \in 1 .. m + 1}
    <3>1. loaded = {order[i].file : i \in 1 .. m}
      BY <1>6 DEF IInv, LoadedOnce
    <3>2. \A i : i \in 1 .. m + 1 <=> i = m + 1 \/ i \in 1 .. m
      BY <1>6
    <3>3. loaded' \subseteq {order'[i].file : i \in 1 .. m + 1}
      BY <1>3, <1>6, <3>1, <3>2
    <3>4. {order'[i].file : i \in 1 .. m + 1} \subseteq loaded'
      BY <1>3, <1>6, <3>1, <3>2
    <3> QED
      BY <3>3, <3>4
  <2> QED
    BY <1>6, <2>3, <2>4 DEF LoadedOnce
<1>13. DependencyOrder'
  <2> SUFFICES ASSUME NEW i \in 1 .. m + 1, NEW g \in File,
                      ImportsFile(order'[i].file, g)
               PROVE  \E j \in 1 .. i - 1 : order'[j].file = g
    BY <1>1, <1>6, SameImports DEF DependencyOrder
  <2>1. CASE i \in 1 .. m
    <3>1. PICK j \in 1 .. i - 1 : order[j].file = g
      BY <1>6, <2>1 DEF IInv, DependencyOrder
    <3>2. j \in 1 .. m
      BY <1>6, <2>1
    <3> QED
      BY <1>6, <3>1, <3>2
  <2>2. CASE i = m + 1
    <3>1. PICK k \in DOMAIN ImportsOf(f) :
            /\ ImportsOf(f)[k].kind = "source"
            /\ Resolve(f, ImportsOf(f)[k].name) = g
      BY <1>6, <2>2 DEF ImportsFile
    <3>2. ImportsOf(f) \in Seq(Import) /\ calls[n].next \in Nat
      BY <1>1, <1>2, InputFacts, InnermostFacts DEF TypeOK
    <3>3. k \in 1 .. calls[n].next - 1
      BY <1>1, <1>2, <3>1, <3>2, LengthFacts
    <3>4. PassedBy(calls[n], g)
      BY <3>1, <3>3 DEF PassedBy
    <3>5. g \in loaded
      BY <1>1, <1>2, <3>4 DEF IInv, Handled
    <3>6. PICK j \in 1 .. m : order[j].file = g
      BY <1>6, <3>5 DEF IInv, LoadedOnce
    <3> QED
      BY <1>6, <2>2, <3>6
  <2>3. i \in 1 .. m \/ i = m + 1
    BY <1>6
  <2> QED
    BY <2>1, <2>2, <2>3
<1>14. CycleIsReal'
  BY <1>1 DEF CycleIsReal
<1> QED
  BY <1>8, <1>9, <1>10, <1>11, <1>12, <1>13, <1>14 DEF IInv

-----------------------------------------------------------------------------
(* The invariant holds of every behaviour.                                 *)
LEMMA Inductive == Spec => []IInv
<1>1. Init => TypeOK
  BY TypeInit
<1>2. ASSUME Init
      PROVE  IInv
  <2>1. /\ calls = << >> /\ stack = << >> /\ order = << >>
        /\ loaded = {} /\ inProgress = {} /\ outcome = "loading"
        /\ Len(<< >>) = 0 /\ DOMAIN order = {}
    BY <1>2 DEF Init
  <2>2. FramesMatch /\ NotYetLoaded /\ LoadedOnce
    BY <2>1 DEF FramesMatch, NotYetLoaded, LoadedOnce
  <2>3. Chain /\ Handled
    BY <2>1 DEF Chain, Handled
  <2>4. DependencyOrder /\ CycleIsReal
    BY <2>1 DEF DependencyOrder, CycleIsReal
  <2> QED
    BY <1>1, <1>2, <2>2, <2>3, <2>4 DEF IInv
<1>3. ASSUME IInv, [Next]_vars
      PROVE  IInv'
  <2>1. TypeOK'
    BY <1>3, TypeStep DEF IInv
  <2>2. CASE LoadEntry
    BY <1>3, <2>1, <2>2, LoadEntryKeeps
  <2>3. CASE ImportSource
    BY <1>3, <2>1, <2>3, ImportSourceKeeps
  <2>4. CASE ImportLibrary
    BY <1>3, <2>1, <2>4, ImportLibraryKeeps
  <2>5. CASE FinishModule
    BY <1>3, <2>1, <2>5, FinishModuleKeeps
  <2>6. CASE StartMerge
    BY <1>3, <2>1, <2>6, IdleKeeps DEF StartMerge
  <2>7. CASE MergeImport
    BY <1>3, <2>1, <2>7, IdleKeeps DEF MergeImport
  <2>8. CASE MergeNextProgram
    BY <1>3, <2>1, <2>8, IdleKeeps DEF MergeNextProgram
  <2>9. CASE FinishMerge
    BY <1>3, <2>1, <2>9, IdleKeeps DEF FinishMerge
  <2>10. CASE CheckImports
    <3>1. outcome' \notin {"loading", "cycle"}
      BY <2>10 DEF CheckImports
    <3> QED
      BY <1>3, <2>1, <2>10, <3>1, IdleKeeps DEF CheckImports
  <2>11. CASE UNCHANGED vars
    BY <1>3, <2>1, <2>11, IdleKeeps DEF vars
  <2> QED
    BY <1>3, <2>2, <2>3, <2>4, <2>5, <2>6, <2>7, <2>8, <2>9, <2>10, <2>11
       DEF Next, Step, Stopped
<1> QED
  BY <1>2, <1>3, PTL DEF Spec

(* The activation records, the error stack and the in-progress set agree   *)
(* at every step of loadProgramRecursive, however the imports nest.        *)
THEOREM FramesAlwaysAgree == Spec => []FramesAgree
<1>1. ASSUME IInv
      PROVE  FramesAgree
  <2> SUFFICES ASSUME outcome = "loading"
               PROVE  /\ stack = [i \in DOMAIN calls |-> calls[i].file]
                      /\ inProgress = ToSet(stack)
                      /\ IsInjective(stack)
    BY DEF FramesAgree
  <2>1. /\ stack \in Seq(File) /\ calls \in Seq(Frame)
        /\ Len(stack) = Len(calls)
        /\ \A i \in 1 .. Len(calls) : stack[i] = calls[i].file
        /\ inProgress = {calls[i].file : i \in 1 .. Len(calls)}
        /\ \A i, j \in 1 .. Len(calls) : calls[i].file = calls[j].file => i = j
    BY <1>1 DEF IInv, TypeOK, FramesMatch
  <2>2. DOMAIN stack = 1 .. Len(calls) /\ DOMAIN calls = 1 .. Len(calls)
    BY <2>1, LengthFacts
  <2>3. stack = [i \in DOMAIN calls |-> calls[i].file]
    <3>1. stack = [i \in DOMAIN stack |-> stack[i]]
      BY <2>1
    <3> QED
      BY <2>1, <2>2, <3>1
  <2>4. inProgress = ToSet(stack)
    BY <2>1, <2>2 DEF ToSet
  <2>5. IsInjective(stack)
    BY <2>1, <2>2 DEF IsInjective
  <2> QED
    BY <2>3, <2>4, <2>5
<1> QED
  BY <1>1, Inductive, PTL

(* Every module is parsed and emitted once, in every import graph: the     *)
(* early return of loadProgramRecursive and its cycle check suffice.       *)
THEOREM ModulesLoadOnce == Spec => []LoadedOnce
<1>1. IInv => LoadedOnce
  BY DEF IInv
<1> QED
  BY <1>1, Inductive, PTL

(* programsInDependencyOrder is in dependency order, for every graph.      *)
THEOREM OrderRespectsImports == Spec => []DependencyOrder
<1>1. IInv => DependencyOrder
  BY DEF IInv
<1> QED
  BY <1>1, Inductive, PTL

(* "module import cycle detected" is reported of real cycles only.         *)
THEOREM ReportedCyclesAreReal == Spec => []CycleIsReal
<1>1. IInv => CycleIsReal
  BY DEF IInv
<1> QED
  BY <1>1, Inductive, PTL

-----------------------------------------------------------------------------
(* What the loader hands on: a load that succeeds has loaded exactly what  *)
(* the entry files reach; mergePrograms keeps the library imports of every *)
(* module and hides no duplicate from semantic analysis, nor makes one up. *)

(* Whatever is loaded or being loaded is reached from the entries.         *)
Reached ==
  \A S \in SUBSET File :
    ToSet(input.entries) \subseteq S /\ Closed(S) =>
      /\ loaded \subseteq S
      /\ outcome = "loading" => \A i \in 1 .. Len(calls) : calls[i].file \in S

(* What is loaded has been parsed.                                         *)
LoadedParse == \A f \in loaded : Parses(f)

(* The entries before nextEntry are loaded, but for the last one, which    *)
(* the outermost record is loading; once loading has succeeded, all are.   *)
EntriesLoaded ==
  /\ outcome = "loading" =>
       \A k \in 1 .. nextEntry - 1 :
         \/ input.entries[k] \in loaded
         \/ calls # << >> /\ calls[1].file = input.entries[k]
  /\ outcome \notin Loading => ToSet(input.entries) \subseteq loaded

Complete == Reached /\ LoadedParse /\ EntriesLoaded

(* A call of the loader leaves the records below it at their files, and    *)
(* adds at most the record of the file it is called for.                   *)
LEMMA VisitRecords ==
  ASSUME TypeOK, NEW f \in File, NEW resumed \in Seq(Frame), Visit(f, resumed),
         UNCHANGED input, outcome = "loading",
         Len(resumed) = Len(calls),
         \A i \in 1 .. Len(calls) : resumed[i].file = calls[i].file
  PROVE  /\ loaded' = loaded
         /\ outcome' = "loading" \/ outcome' \in Loading
         /\ outcome' = "loading" =>
              \/ /\ f \in loaded
                 /\ calls' = resumed
              \/ /\ Len(calls') = Len(calls) + 1
                 /\ calls' # << >>
                 /\ \A i \in 1 .. Len(calls) : calls'[i].file = calls[i].file
                 /\ calls'[Len(calls) + 1].file = f
<1> DEFINE new == [file |-> f, next |-> 1, libs |-> << >>]
<1>1. CASE f \in loaded /\ Returned(resumed)
  BY <1>1 DEF Returned, build
<1>2. CASE f \in inProgress /\ Throw("cycle") /\ UNCHANGED <<calls, build>>
  BY <1>2 DEF Throw, build, Loading
<1>3. CASE Throw("missing") /\ UNCHANGED <<calls, build, cycle>>
  BY <1>3 DEF Throw, build, Loading
<1>4. CASE Open(f, resumed)
  <2>1. CASE ~ Parses(f)
    BY <1>4, <2>1 DEF Open, Throw, Loading
  <2>2. CASE Parses(f)
    <3>1. new \in Frame /\ new.file = f
      BY EmptySeq DEF Frame
    <3>2. calls' = Append(resumed, new)
      BY <1>4, <2>2 DEF Open
    <3> HIDE DEF new
    <3>3. /\ Len(calls') = Len(calls) + 1
          /\ calls' # << >>
          /\ \A i \in 1 .. Len(calls) : calls'[i] = resumed[i]
          /\ calls'[Len(calls) + 1] = new
      BY <3>1, <3>2, AppendFacts, AppendProperties
    <3> QED
      BY <1>4, <2>2, <3>1, <3>3 DEF Open
  <2> QED
    BY <2>1, <2>2
<1> QED
  BY <1>1, <1>2, <1>3, <1>4 DEF Visit

(* A closed set is closed in the next state as well: the input is fixed.   *)
LEMMA SameClosed ==
  ASSUME UNCHANGED input
  PROVE  \A S : Closed(S)' <=> Closed(S)
BY SameImports DEF Closed

(* Steps that load nothing keep the invariant.                             *)
LEMMA IdleCompletes ==
  ASSUME Complete, UNCHANGED <<input, nextEntry, calls, build>>,
         \/ outcome' = outcome
         \/ outcome \notin Loading /\ outcome' \notin Loading
  PROVE  Complete'
<1>1. Reached'
  BY SameClosed DEF Complete, Reached, build, Loading
<1>2. LoadedParse'
  BY SameImports DEF Complete, LoadedParse, build
<1>3. EntriesLoaded'
  BY DEF Complete, EntriesLoaded, build, Loading
<1> QED
  BY <1>1, <1>2, <1>3 DEF Complete

-----------------------------------------------------------------------------
(* One lemma per action of the search.                                     *)
LEMMA LoadEntryCompletes ==
  ASSUME IInv, Complete, LoadEntry
  PROVE  Complete'
<1> DEFINE f == input.entries[nextEntry]
<1>1. /\ calls = << >> /\ outcome = "loading" /\ Visit(f, << >>)
      /\ UNCHANGED input /\ nextEntry' = nextEntry + 1 /\ TypeOK
      /\ Len(calls) = 0
  BY DEF LoadEntry, IInv
<1>2. /\ input.entries \in Seq(File)
      /\ nextEntry \in 1 .. Len(input.entries)
  BY <1>1, InputFacts, LengthFacts DEF TypeOK, LoadEntry
<1>3. f \in File /\ f \in ToSet(input.entries)
  BY <1>2, LengthFacts DEF ToSet
<1> HIDE DEF f
<1>4. /\ loaded' = loaded
      /\ outcome' = "loading" \/ outcome' \in Loading
      /\ outcome' = "loading" =>
           \/ f \in loaded /\ calls' = << >>
           \/ Len(calls') = 1 /\ calls' # << >> /\ calls'[1].file = f
  <2>1. << >> \in Seq(Frame) /\ Len(calls) = 0 /\ Len(<< >>) = Len(calls) /\ 0 + 1 = 1
    BY <1>1, EmptySeq
  <2>2. Visit(f, << >>)
    BY <1>1 DEF f
  <2>3. \A i \in 1 .. Len(calls) : FALSE
    BY <2>1
  <2> QED
    BY <1>1, <1>3, <2>1, <2>2, <2>3, VisitRecords
<1>5. Reached'
  BY <1>1, <1>3, <1>4, SameClosed DEF Complete, Reached
<1>6. LoadedParse'
  BY <1>1, <1>4, SameImports DEF Complete, LoadedParse
<1>7. EntriesLoaded'
  <2>1. \A k \in 1 .. nextEntry - 1 : input.entries[k] \in loaded
    BY <1>1 DEF Complete, EntriesLoaded
  <2>2. \A k \in 1 .. nextEntry' - 1 : k \in 1 .. nextEntry - 1 \/ k = nextEntry
    BY <1>1, <1>2
  <2>3. outcome' = "loading" => f \in loaded \/ (calls' # << >> /\ calls'[1].file = f)
    BY <1>4
  <2> QED
    BY <1>1, <1>4, <2>1, <2>2, <2>3 DEF EntriesLoaded, Loading, f
<1> QED
  BY <1>5, <1>6, <1>7 DEF Complete

(* A source import: the file is reached from the importing record.         *)
LEMMA ImportSourceCompletes ==
  ASSUME IInv, Complete, ImportSource
  PROVE  Complete'
<1> DEFINE f == Resolve(Last(calls).file, CurrentImport)
<1> DEFINE n == Len(calls)
<1>1. /\ AtImport("source") /\ outcome = "loading" /\ calls # << >>
      /\ Visit(f, Advanced) /\ UNCHANGED <<input, nextEntry>> /\ TypeOK
  BY DEF ImportSource, AtImport, IInv
<1>2. f \in File
  BY <1>1, AtImportFacts
<1>3. Last(calls) = calls[n] /\ n \in Nat \ {0}
  BY <1>1, InnermostFacts
<1>4. ImportsFile(calls[n].file, f) /\ calls[n].file \in File
  <2>1. Parses(calls[n].file) /\ calls[n].file \in File
    BY <1>1, <1>3, InnermostFacts DEF IInv, Chain
  <2>2. Last(calls).next \in DOMAIN ImportsOf(Last(calls).file)
    BY <1>1, AtImportFacts, LengthFacts
  <2> QED
    BY <1>1, <1>3, <2>1, <2>2 DEF ImportsFile, AtImport, CurrentImport
<1>5. /\ Advanced \in Seq(Frame) /\ Len(Advanced) = n
      /\ \A i \in 1 .. n : Advanced[i].file = calls[i].file
  BY <1>1, AdvancedFacts
<1> HIDE DEF f
<1>6. /\ loaded' = loaded
      /\ outcome' = "loading" \/ outcome' \in Loading
      /\ outcome' = "loading" =>
           \/ calls' = Advanced
           \/ /\ Len(calls') = n + 1 /\ calls' # << >>
              /\ \A i \in 1 .. n : calls'[i].file = calls[i].file
              /\ calls'[n + 1].file = f
  BY <1>1, <1>2, <1>5, VisitRecords
<1>7. outcome' = "loading" =>
        /\ calls' # << >> /\ calls'[1].file = calls[1].file
        /\ \A i \in 1 .. Len(calls') :
             calls'[i].file = f \/ \E j \in 1 .. n : calls'[i].file = calls[j].file
  <2>1. 1 \in 1 .. n /\ \A i \in 1 .. n + 1 : i = n + 1 \/ i \in 1 .. n
    BY <1>3
  <2>2. Advanced # << >>
    BY <1>3, <1>5, LengthFacts
  <2> HIDE DEF n
  <2> QED
    BY <1>5, <1>6, <2>1, <2>2
<1>8. Reached'
  <2> SUFFICES ASSUME NEW S \in SUBSET File, ToSet(input.entries) \subseteq S, Closed(S)
               PROVE  /\ loaded' \subseteq S
                      /\ outcome' = "loading" => \A i \in 1 .. Len(calls') : calls'[i].file \in S
    BY <1>1, SameClosed DEF Reached
  <2>1. loaded \subseteq S /\ \A i \in 1 .. n : calls[i].file \in S
    BY <1>1 DEF Complete, Reached
  <2>2. f \in S
    BY <1>2, <1>3, <1>4, <2>1 DEF Closed
  <2> QED
    BY <1>6, <1>7, <2>1, <2>2
<1>9. LoadedParse'
  BY <1>1, <1>6, SameImports DEF Complete, LoadedParse
<1>10. EntriesLoaded'
  BY <1>1, <1>6, <1>7 DEF Complete, EntriesLoaded, Loading
<1> QED
  BY <1>8, <1>9, <1>10 DEF Complete

(* A library import changes the libraries of the innermost record only.    *)
LEMMA ImportLibraryCompletes ==
  ASSUME IInv, Complete, ImportLibrary
  PROVE  Complete'
<1> DEFINE n == Len(calls)
<1> DEFINE ref == ResolveLib(CurrentImport)
<1>1. /\ AtImport("library") /\ calls # << >> /\ TypeOK
      /\ calls' = [Advanced EXCEPT ![n].libs = Append(@, ref)]
      /\ UNCHANGED <<input, nextEntry, build, outcome>>
  BY DEF ImportLibrary, AtImport, IInv
<1>2. /\ Advanced \in Seq(Frame) /\ Len(Advanced) = n /\ n \in Nat \ {0}
      /\ \A i \in 1 .. n : Advanced[i].file = calls[i].file
  BY <1>1, AdvancedFacts, InnermostFacts
<1>3. /\ Len(calls') = n /\ calls' # << >>
      /\ \A i \in 1 .. n : calls'[i].file = calls[i].file
  <2> DEFINE top == [Advanced[n] EXCEPT !.libs = Append(@, ref)]
  <2>1. Advanced[n] \in Frame
    BY <1>2, LengthFacts
  <2>2. Append(Advanced[n].libs, ref) \in Seq(LibRef)
    BY <1>1, <2>1, AtImportFacts, AppendFacts DEF Frame
  <2>3. top \in Frame /\ top.file = Advanced[n].file
    BY <2>1, <2>2 DEF Frame
  <2>4. calls' = [Advanced EXCEPT ![n] = top]
    BY <1>1
  <2> HIDE DEF top
  <2>5. /\ calls' \in Seq(Frame) /\ Len(calls') = n
        /\ \A i \in 1 .. n : calls'[i] = IF i = n THEN top ELSE Advanced[i]
    BY <1>2, <2>3, <2>4, ExceptSeq
  <2> QED
    BY <1>2, <2>3, <2>5, LengthFacts
<1>4. Reached'
  BY <1>1, <1>3, SameClosed DEF Complete, Reached, build
<1>5. LoadedParse'
  BY <1>1, SameImports DEF Complete, LoadedParse, build
<1>6. EntriesLoaded'
  <2>1. calls'[1].file = calls[1].file
    BY <1>2, <1>3
  <2> QED
    BY <1>1, <1>3, <2>1 DEF Complete, EntriesLoaded, build
<1> QED
  BY <1>4, <1>5, <1>6 DEF Complete

(* A record becomes a loaded file: parsed and reached it was before.       *)
LEMMA FinishModuleCompletes ==
  ASSUME IInv, Complete, FinishModule
  PROVE  Complete'
<1> DEFINE n == Len(calls)
<1>1. /\ outcome = "loading" /\ calls # << >> /\ calls' = Front(calls) /\ TypeOK
      /\ UNCHANGED <<input, nextEntry, outcome>>
  BY DEF FinishModule, IInv
<1>2. n \in Nat \ {0} /\ Last(calls) = calls[n] /\ n \in 1 .. n
  BY <1>1, InnermostFacts
<1>3. loaded' = loaded \cup {calls[n].file}
  BY <1>2 DEF FinishModule
<1>4. /\ Len(calls') = n - 1
      /\ \A i \in 1 .. n - 1 : calls'[i] = calls[i]
      /\ n - 1 # 0 => calls' # << >>
  BY <1>1, <1>2, FrontFacts, LengthFacts DEF TypeOK
<1>5. Reached'
  <2>1. \A i \in 1 .. n - 1 : i \in 1 .. n
    BY <1>2
  <2> QED
    BY <1>1, <1>2, <1>3, <1>4, <2>1, SameClosed DEF Complete, Reached
<1>6. LoadedParse'
  BY <1>1, <1>2, <1>3, SameImports DEF Complete, LoadedParse, IInv, Chain
<1>7. EntriesLoaded'
  <2>1. CASE n = 1
    BY <1>1, <1>3, <2>1 DEF Complete, EntriesLoaded, Loading
  <2>2. CASE n # 1
    <3>1. n - 1 # 0 /\ 1 \in 1 .. n - 1
      BY <1>2, <2>2
    <3>2. calls' # << >> /\ calls'[1] = calls[1]
      BY <1>4, <3>1
    <3> QED
      BY <1>1, <1>3, <3>2 DEF Complete, EntriesLoaded, Loading
  <2> QED
    BY <2>1, <2>2
<1> QED
  BY <1>5, <1>6, <1>7 DEF Complete

(* The loop over the entries has ended, with all of them loaded.           *)
LEMMA StartMergeCompletes ==
  ASSUME IInv, Complete, StartMerge
  PROVE  Complete'
<1>1. /\ outcome = "loading" /\ calls = << >> /\ outcome' = "merging"
      /\ nextEntry > Len(input.entries) /\ TypeOK
      /\ UNCHANGED <<input, nextEntry, calls, build>>
  BY DEF StartMerge, IInv
<1>2. ToSet(input.entries) \subseteq loaded
  <2>1. input.entries \in Seq(File) /\ nextEntry \in Nat
    BY <1>1, InputFacts DEF TypeOK
  <2>2. \A k \in 1 .. Len(input.entries) : k \in 1 .. nextEntry - 1
    BY <1>1, <2>1, LengthFacts
  <2> QED
    BY <1>1, <2>1, <2>2, LengthFacts DEF Complete, EntriesLoaded, ToSet
<1>3. Reached' /\ LoadedParse' /\ EntriesLoaded'
  BY <1>1, <1>2, SameClosed, SameImports
     DEF Complete, Reached, LoadedParse, EntriesLoaded, build
<1> QED
  BY <1>3 DEF Complete

-----------------------------------------------------------------------------
(* The invariant holds of every behaviour.                                 *)
LEMMA CompleteHolds == Spec => []Complete
<1>1. ASSUME Init
      PROVE  Complete
  BY <1>1 DEF Init, Complete, Reached, LoadedParse, EntriesLoaded, Loading
<1>2. ASSUME IInv, Complete, [Next]_vars
      PROVE  Complete'
  <2>1. CASE LoadEntry
    BY <1>2, <2>1, LoadEntryCompletes
  <2>2. CASE ImportSource
    BY <1>2, <2>2, ImportSourceCompletes
  <2>3. CASE ImportLibrary
    BY <1>2, <2>3, ImportLibraryCompletes
  <2>4. CASE FinishModule
    BY <1>2, <2>4, FinishModuleCompletes
  <2>5. CASE StartMerge
    BY <1>2, <2>5, StartMergeCompletes
  <2>6. CASE MergeImport
    BY <1>2, <2>6, IdleCompletes DEF MergeImport
  <2>7. CASE MergeNextProgram
    BY <1>2, <2>7, IdleCompletes DEF MergeNextProgram
  <2>8. CASE FinishMerge
    BY <1>2, <2>8, IdleCompletes DEF FinishMerge, Loading
  <2>9. CASE CheckImports
    BY <1>2, <2>9, IdleCompletes DEF CheckImports, Loading
  <2>10. CASE UNCHANGED vars
    BY <1>2, <2>10, IdleCompletes DEF vars
  <2> QED
    BY <1>2, <2>1, <2>2, <2>3, <2>4, <2>5, <2>6, <2>7, <2>8, <2>9, <2>10
       DEF Next, Step, Stopped
<1> QED
  BY <1>1, <1>2, Inductive, PTL DEF Spec

(* In a set of loaded files the one that comes first in the order imports  *)
(* none of the set.                                                        *)
LEMMA OrderedIsAcyclic ==
  ASSUME IInv
  PROVE  Acyclic(loaded)
<1> SUFFICES ASSUME NEW T \in SUBSET loaded, T # {}
             PROVE  \E f \in T : \A g \in T : ~ ImportsFile(f, g)
  BY DEF Acyclic
<1> DEFINE I == {i \in DOMAIN order : order[i].file \in T}
<1>1. /\ DOMAIN order \subseteq Nat
      /\ \A i \in DOMAIN order : \A j \in 1 .. i - 1 : j \in DOMAIN order /\ ~ (i <= j)
      /\ loaded \subseteq File
  <2>1. order \in Seq([file : File, libs : Seq(LibRef)]) /\ loaded \subseteq File
    BY DEF IInv, TypeOK
  <2> QED
    BY <2>1, LengthFacts
<1>2. I \subseteq Nat /\ I # {}
  <2>1. PICK f \in T : TRUE
    OBVIOUS
  <2>2. \E i \in DOMAIN order : order[i].file = f
    BY <2>1 DEF IInv, LoadedOnce
  <2> QED
    BY <1>1, <2>1, <2>2
<1>3. PICK i \in I : \A j \in I : i <= j
  BY <1>2, Smallest
<1>4. ASSUME NEW g \in T, ImportsFile(order[i].file, g)
      PROVE  FALSE
  <2>1. PICK j \in 1 .. i - 1 : order[j].file = g
    BY <1>1, <1>3, <1>4 DEF IInv, DependencyOrder
  <2>2. j \in I /\ ~ (i <= j)
    BY <1>1, <1>3, <1>4, <2>1
  <2> QED
    BY <1>3, <2>2
<1> QED
  BY <1>3, <1>4

(* A load that succeeds holds exactly what the entries reach, everything   *)
(* it holds was found and parsed, and no import chain in it closes.        *)
THEOREM SuccessAlwaysComplete == Spec => []SuccessIsComplete
<1>1. ASSUME IInv, Complete
      PROVE  SuccessIsComplete
  <2>1. Closed(loaded)
    <3> SUFFICES ASSUME NEW f \in loaded, NEW g \in File, ImportsFile(f, g)
                 PROVE  g \in loaded
      BY DEF Closed
    <3>1. PICK i \in DOMAIN order : order[i].file = f
      BY <1>1 DEF IInv, LoadedOnce
    <3>2. PICK j \in 1 .. i - 1 : order[j].file = g
      BY <1>1, <3>1 DEF IInv, DependencyOrder
    <3>3. j \in DOMAIN order
      <4>1. order \in Seq([file : File, libs : Seq(LibRef)])
        BY <1>1 DEF IInv, TypeOK
      <4> QED
        BY <3>1, <3>2, <4>1, LengthFacts
    <3> QED
      BY <1>1, <3>2, <3>3 DEF IInv, LoadedOnce
  <2>2. Acyclic(loaded)
    BY <1>1, OrderedIsAcyclic
  <2> QED
    BY <1>1, <2>1, <2>2
       DEF SuccessIsComplete, Complete, Reached, LoadedParse, EntriesLoaded
<1> QED
  BY <1>1, Inductive, CompleteHolds, PTL

-----------------------------------------------------------------------------
(* An element of a sequence comes twice.                                   *)
Twice(s) == \E i, j \in DOMAIN s : i # j /\ s[i] = s[j]

(* What libs, the libraries met up to import k of file f, tells of them.   *)
LibraryAt(f, i) == i \in DOMAIN ImportsOf(f) /\ ImportsOf(f)[i].kind = "library"

Gathered(f, k, libs) ==
  /\ \A r : r \in ToSet(libs) <=>
       \E i \in 1 .. k : LibraryAt(f, i) /\ ResolveLib(ImportsOf(f)[i].name) = r
  /\ Twice(libs) <=>
       \E i, j \in 1 .. k : /\ i # j /\ LibraryAt(f, i) /\ LibraryAt(f, j)
                            /\ ImportsOf(f)[i] = ImportsOf(f)[j]

RecordsGather ==
  outcome = "loading" =>
    \A i \in 1 .. Len(calls) :
      Gathered(calls[i].file, calls[i].next - 1, calls[i].libs)

ProgramsGather ==
  \A i \in DOMAIN order :
    Gathered(order[i].file, Len(ImportsOf(order[i].file)), order[i].libs)

(* The imports that the merge has dealt with, and what merged tells of     *)
(* them.                                                                   *)
Before(i, j) ==
  /\ i \in DOMAIN order
  /\ j \in DOMAIN order[i].libs
  /\ i < mergeProgram \/ (i = mergeProgram /\ j < mergeItem)

MergedMatches ==
  /\ outcome = "loading" => mergeProgram = 1 /\ mergeItem = 1 /\ merged = << >>
  /\ outcome \in {"merging", "merged"} =>
       /\ \A r : r \in ToSet(merged) <=>
            \E i, j \in Nat : Before(i, j) /\ order[i].libs[j] = r
       /\ Twice(merged) <=>
            \E i, j, k \in Nat : /\ j # k /\ Before(i, j) /\ Before(i, k)
                                 /\ order[i].libs[j] = order[i].libs[k]
  /\ outcome = "merged" => mergeProgram > Len(order)

MergeInv == RecordsGather /\ ProgramsGather /\ MergedMatches

-----------------------------------------------------------------------------
(* Appending makes an element come twice just when it was there.           *)
LEMMA AppendTwice ==
  ASSUME NEW S, NEW s \in Seq(S), NEW e \in S
  PROVE  /\ \A r : r \in ToSet(Append(s, e)) <=> r \in ToSet(s) \/ r = e
         /\ Twice(Append(s, e)) <=> Twice(s) \/ e \in ToSet(s)
<1> DEFINE t == Append(s, e)
<1> DEFINE n == Len(s)
<1>1. /\ n \in Nat /\ DOMAIN s = 1 .. n /\ DOMAIN t = 1 .. n + 1
      /\ \A i \in 1 .. n : t[i] = s[i]
      /\ t[n + 1] = e
  BY AppendFacts, LengthFacts
<1> HIDE DEF t, n
<1>2. \A i : i \in 1 .. n + 1 <=> i \in 1 .. n \/ i = n + 1
  BY <1>1
<1>3. n + 1 \notin 1 .. n
  BY <1>1
<1>4. \A r : r \in ToSet(t) <=> r \in ToSet(s) \/ r = e
  BY <1>1, <1>2, <1>3 DEF ToSet
<1>5. Twice(t) <=> Twice(s) \/ e \in ToSet(s)
  <2>1. ASSUME Twice(t) PROVE Twice(s) \/ e \in ToSet(s)
    BY <1>1, <1>2, <1>3, <2>1 DEF Twice, ToSet
  <2>2. ASSUME Twice(s) PROVE Twice(t)
    BY <1>1, <1>2, <2>2 DEF Twice
  <2>3. ASSUME e \in ToSet(s) PROVE Twice(t)
    BY <1>1, <1>2, <1>3, <2>3 DEF Twice, ToSet
  <2> QED
    BY <2>1, <2>2, <2>3
<1> QED
  BY <1>4, <1>5 DEF t

(* An empty sequence holds nothing.                                        *)
LEMMA NothingTwice == ToSet(<< >>) = {} /\ ~ Twice(<< >>)
BY DEF Twice, ToSet

(* What is gathered depends on the input only.                             *)
LEMMA SameGathered ==
  ASSUME UNCHANGED input
  PROVE  /\ \A f : (ImportsOf(f))' = ImportsOf(f)
         /\ \A f, k, libs : Gathered(f, k, libs)' <=> Gathered(f, k, libs)
<1>1. \A f : (ImportsOf(f))' = ImportsOf(f)
  BY DEF ImportsOf
<1>2. \A l : (ResolveLib(l))' = ResolveLib(l)
  BY DEF ResolveLib
<1> QED
  BY <1>1, <1>2 DEF Gathered, LibraryAt

(* A source import gathers nothing.                                        *)
LEMMA SourceGathers ==
  ASSUME NEW f, NEW k \in Nat \ {0}, NEW libs, Gathered(f, k - 1, libs), ~ LibraryAt(f, k)
  PROVE  Gathered(f, k, libs)
<1>1. \A i : i \in 1 .. k <=> i \in 1 .. k - 1 \/ i = k
  OBVIOUS
<1> QED
  BY <1>1 DEF Gathered

(* A library import is gathered, and comes twice if it was there before.   *)
LEMMA LibraryGathers ==
  ASSUME NEW f \in File, NEW k \in Nat \ {0}, NEW libs \in Seq(LibRef),
         input \in Inputs, Gathered(f, k - 1, libs), LibraryAt(f, k)
  PROVE  Gathered(f, k, Append(libs, ResolveLib(ImportsOf(f)[k].name)))
<1> DEFINE imports == ImportsOf(f)
<1> DEFINE ref == ResolveLib(imports[k].name)
<1>1. \A i : i \in 1 .. k <=> i \in 1 .. k - 1 \/ i = k
  OBVIOUS
<1>2. k \notin 1 .. k - 1 /\ k \in 1 .. k
  OBVIOUS
<1>3. \A i : LibraryAt(f, i) =>
        /\ imports[i].name \in Lib
        /\ imports[i] = [kind |-> "library", name |-> imports[i].name]
  <2>1. /\ imports \in Seq(Import)
        /\ \A i \in 1 .. Len(imports) : imports[i].kind = "library" => imports[i].name \in Lib
    BY InputFacts
  <2>2. DOMAIN imports = 1 .. Len(imports) /\ \A i \in 1 .. Len(imports) : imports[i] \in Import
    BY <2>1, LengthFacts
  <2>3. \A m \in Import : m = [kind |-> m.kind, name |-> m.name]
    BY DEF Import
  <2> HIDE DEF imports
  <2> QED
    BY <2>1, <2>2, <2>3 DEF LibraryAt, imports
<1>4. ref \in LibRef
  BY <1>3, ResolveFacts
<1>5. \A l, m : ResolveLib(l) = ResolveLib(m) => l = m
  BY DEF ResolveLib
<1>6. /\ \A r : r \in ToSet(Append(libs, ref)) <=> r \in ToSet(libs) \/ r = ref
      /\ Twice(Append(libs, ref)) <=> Twice(libs) \/ ref \in ToSet(libs)
  BY <1>4, AppendTwice
<1>7. ref \in ToSet(libs) <=>
        \E i \in 1 .. k - 1 : LibraryAt(f, i) /\ imports[i] = imports[k]
  <2>1. \A i : LibraryAt(f, i) => (ResolveLib(imports[i].name) = ref <=> imports[i] = imports[k])
    BY <1>3, <1>5
  <2> QED
    BY <2>1 DEF Gathered
<1>8. \A r : r \in ToSet(libs) \/ r = ref <=>
        \E i \in 1 .. k : LibraryAt(f, i) /\ ResolveLib(imports[i].name) = r
  BY <1>1, <1>2 DEF Gathered
<1>9. Twice(libs) \/ ref \in ToSet(libs) <=>
        \E i, j \in 1 .. k : /\ i # j /\ LibraryAt(f, i) /\ LibraryAt(f, j)
                             /\ imports[i] = imports[j]
  BY <1>1, <1>2, <1>7 DEF Gathered
<1> QED
  BY <1>6, <1>8, <1>9 DEF Gathered

(* The programs are numbered from 1, and each has a file and libraries.    *)
LEMMA OrderFacts ==
  ASSUME TypeOK
  PROVE  /\ DOMAIN order = 1 .. Len(order) /\ Len(order) \in Nat
         /\ \A i \in DOMAIN order : i \in Nat /\ ~ (i < 1)
         /\ \A i \in DOMAIN order : order[i].file \in File /\ order[i].libs \in Seq(LibRef)
<1> DEFINE S == [file : File, libs : Seq(LibRef)]
<1>1. order \in Seq(S)
  BY DEF TypeOK
<1>2. \A p \in S : p.file \in File /\ p.libs \in Seq(LibRef)
  OBVIOUS
<1> HIDE DEF S
<1>3. /\ DOMAIN order = 1 .. Len(order) /\ Len(order) \in Nat
      /\ \A i \in 1 .. Len(order) : order[i] \in S
  BY <1>1, LengthFacts
<1> QED
  BY <1>2, <1>3

-----------------------------------------------------------------------------
(* A call of the loader changes no program, and no record but for the new  *)
(* one, which has gathered nothing yet.                                    *)
LEMMA VisitGathers ==
  ASSUME TypeOK, MergeInv, NEW f \in File, NEW resumed \in Seq(Frame), Visit(f, resumed),
         UNCHANGED <<input, merge>>, outcome = "loading",
         \A i \in 1 .. Len(resumed) :
           Gathered(resumed[i].file, resumed[i].next - 1, resumed[i].libs)
  PROVE  MergeInv'
<1> DEFINE new == [file |-> f, next |-> 1, libs |-> << >>]
<1>1. /\ order' = order
      /\ \/ outcome' = "loading" /\ calls' = resumed
         \/ outcome' = "loading" /\ calls' = Append(resumed, new)
         \/ outcome' \in {"cycle", "missing", "unparsable"}
  BY DEF Visit, Returned, Open, Throw, build
<1>2. new \in Frame /\ new.file = f /\ new.next = 1 /\ new.libs = << >>
  BY EmptySeq DEF Frame
<1> HIDE DEF new
<1>3. RecordsGather'
  <2>1. CASE calls' = resumed
    BY <2>1, SameGathered DEF RecordsGather
  <2>2. CASE calls' = Append(resumed, new)
    <3>1. /\ Len(calls') = Len(resumed) + 1
          /\ \A i \in 1 .. Len(resumed) : calls'[i] = resumed[i]
          /\ calls'[Len(resumed) + 1] = new
          /\ \A i \in 1 .. Len(resumed) + 1 : i \in 1 .. Len(resumed) \/ i = Len(resumed) + 1
      BY <1>2, <2>2, AppendFacts
    <3>2. Gathered(f, 0, << >>)
      BY NothingTwice DEF Gathered
    <3> QED
      BY <1>2, <3>1, <3>2, SameGathered DEF RecordsGather
  <2>3. CASE outcome' # "loading"
    BY <2>3 DEF RecordsGather
  <2> QED
    BY <1>1, <2>1, <2>2, <2>3
<1>4. ProgramsGather'
  BY <1>1, SameGathered DEF MergeInv, ProgramsGather
<1>5. MergedMatches'
  BY <1>1 DEF MergeInv, MergedMatches, merge
<1> QED
  BY <1>3, <1>4, <1>5 DEF MergeInv

(* One lemma per action of the search.                                     *)
LEMMA LoadEntryGathers ==
  ASSUME IInv, MergeInv, LoadEntry
  PROVE  MergeInv'
<1>1. /\ input.entries \in Seq(File)
      /\ nextEntry \in 1 .. Len(input.entries)
  BY InputFacts, LengthFacts DEF IInv, TypeOK, LoadEntry
<1>2. input.entries[nextEntry] \in File
  BY <1>1, LengthFacts
<1>3. << >> \in Seq(Frame) /\ Len(<< >>) = 0
  BY EmptySeq
<1>4. /\ TypeOK /\ outcome = "loading" /\ Visit(input.entries[nextEntry], << >>)
      /\ UNCHANGED <<input, merge>>
  BY DEF LoadEntry, IInv
<1>5. \A i \in 1 .. Len(<< >>) : FALSE
  BY <1>3
<1> QED
  BY <1>2, <1>3, <1>4, <1>5, VisitGathers

(* A source import: what is new is what the call of the loader adds.       *)
LEMMA ImportSourceGathers ==
  ASSUME IInv, MergeInv, ImportSource
  PROVE  MergeInv'
<1> DEFINE n == Len(calls)
<1> DEFINE f == Resolve(Last(calls).file, CurrentImport)
<1>1. /\ AtImport("source") /\ outcome = "loading" /\ calls # << >>
      /\ Visit(f, Advanced) /\ UNCHANGED <<input, merge>> /\ TypeOK
  BY DEF ImportSource, AtImport, IInv
<1>2. /\ f \in File /\ n \in Nat \ {0} /\ Last(calls) = calls[n] /\ n \in 1 .. n
      /\ calls[n].next \in Nat \ {0}
      /\ Advanced \in Seq(Frame) /\ Len(Advanced) = n
      /\ \A i \in 1 .. n : i # n => Advanced[i] = calls[i]
      /\ Advanced[n].file = calls[n].file
      /\ Advanced[n].next = calls[n].next + 1
      /\ Advanced[n].libs = calls[n].libs
  BY <1>1, AtImportFacts, InnermostFacts, AdvancedFacts
<1>3. ~ LibraryAt(calls[n].file, calls[n].next)
  BY <1>1, <1>2 DEF AtImport, LibraryAt
<1>4. Gathered(calls[n].file, calls[n].next, calls[n].libs)
  BY <1>1, <1>2, <1>3, SourceGathers DEF MergeInv, RecordsGather
<1>5. \A i \in 1 .. n : Gathered(Advanced[i].file, Advanced[i].next - 1, Advanced[i].libs)
  BY <1>1, <1>2, <1>4 DEF MergeInv, RecordsGather
<1> QED
  BY <1>1, <1>2, <1>5, VisitGathers

(* A library import is resolved and appended to the record.                *)
LEMMA ImportLibraryGathers ==
  ASSUME IInv, MergeInv, ImportLibrary
  PROVE  MergeInv'
<1> DEFINE n == Len(calls)
<1> DEFINE ref == ResolveLib(CurrentImport)
<1> DEFINE top == [Advanced[n] EXCEPT !.libs = Append(@, ref)]
<1>1. /\ AtImport("library") /\ outcome = "loading" /\ calls # << >>
      /\ calls' = [Advanced EXCEPT ![n] = top]
      /\ UNCHANGED <<input, build, outcome, merge>> /\ TypeOK
  BY DEF ImportLibrary, AtImport, IInv
<1>2. /\ n \in Nat \ {0} /\ Last(calls) = calls[n] /\ n \in 1 .. n
      /\ calls[n] \in Frame /\ calls[n].next \in Nat \ {0}
      /\ Advanced \in Seq(Frame) /\ Len(Advanced) = n
      /\ \A i \in 1 .. n : i # n => Advanced[i] = calls[i]
      /\ Advanced[n].file = calls[n].file
      /\ Advanced[n].next = calls[n].next + 1
      /\ Advanced[n].libs = calls[n].libs
      /\ ref \in LibRef
  BY <1>1, AtImportFacts, InnermostFacts, AdvancedFacts
<1>3. Advanced[n] \in Frame
  BY <1>2, LengthFacts
<1>4. top \in Frame /\ top.file = calls[n].file /\ top.next = calls[n].next + 1
      /\ top.libs = Append(calls[n].libs, ref)
  <2>1. Append(Advanced[n].libs, ref) \in Seq(LibRef)
    BY <1>2, <1>3, AppendFacts DEF Frame
  <2> QED
    BY <1>2, <1>3, <2>1 DEF Frame
<1> HIDE DEF top
<1>5. /\ Len(calls') = n
      /\ \A i \in 1 .. n : calls'[i] = IF i = n THEN top ELSE Advanced[i]
  BY <1>1, <1>2, <1>4, ExceptSeq
<1>6. Gathered(calls[n].file, calls[n].next, Append(calls[n].libs, ref))
  <2>1. /\ LibraryAt(calls[n].file, calls[n].next)
        /\ CurrentImport = ImportsOf(calls[n].file)[calls[n].next].name
    <3>1. calls[n].next \in DOMAIN ImportsOf(calls[n].file)
      BY <1>1, <1>2, AtImportFacts, LengthFacts
    <3> QED
      BY <1>1, <1>2, <3>1 DEF AtImport, LibraryAt, CurrentImport
  <2>2. /\ calls[n].file \in File /\ calls[n].libs \in Seq(LibRef) /\ input \in Inputs
        /\ Gathered(calls[n].file, calls[n].next - 1, calls[n].libs)
    BY <1>1, <1>2 DEF MergeInv, RecordsGather, Frame, TypeOK
  <2> QED
    BY <1>2, <2>1, <2>2, LibraryGathers
<1>7. RecordsGather'
  <2>1. ASSUME NEW i \in 1 .. n
        PROVE  Gathered(calls'[i].file, calls'[i].next - 1, calls'[i].libs)
    <3>1. CASE i = n
      <4>1. calls'[i] = top
        BY <1>2, <1>5, <3>1
      <4>2. top.next - 1 = calls[n].next
        BY <1>2, <1>4
      <4> QED
        BY <1>4, <1>6, <4>1, <4>2
    <3>2. CASE i # n
      BY <1>1, <1>2, <1>5, <3>2 DEF MergeInv, RecordsGather
    <3> QED
      BY <3>1, <3>2
  <2> QED
    BY <1>1, <1>5, <2>1, SameGathered DEF RecordsGather
<1>8. ProgramsGather'
  BY <1>1, SameGathered DEF MergeInv, ProgramsGather, build
<1>9. MergedMatches'
  BY <1>1 DEF MergeInv, MergedMatches, build, merge
<1> QED
  BY <1>7, <1>8, <1>9 DEF MergeInv

(* The record becomes a program, with all imports of the file gathered.    *)
LEMMA FinishModuleGathers ==
  ASSUME IInv, MergeInv, FinishModule
  PROVE  MergeInv'
<1> DEFINE n == Len(calls)
<1> DEFINE m == Len(order)
<1> DEFINE program == [file |-> Last(calls).file, libs |-> Last(calls).libs]
<1>1. /\ outcome = "loading" /\ calls # << >> /\ calls' = Front(calls)
      /\ Last(calls).next > Len(ImportsOf(Last(calls).file))
      /\ order' = Append(order, program)
      /\ UNCHANGED <<input, outcome, merge>> /\ TypeOK
  BY DEF FinishModule, IInv
<1>2. /\ n \in Nat \ {0} /\ n \in 1 .. n /\ Last(calls) = calls[n]
      /\ calls[n].file \in File /\ calls[n].libs \in Seq(LibRef) /\ calls[n].next \in Nat
  BY <1>1, InnermostFacts
<1>3. calls[n].next - 1 = Len(ImportsOf(calls[n].file))
  <2>1. calls[n].next \in 1 .. Len(ImportsOf(calls[n].file)) + 1
    <3>1. \A i \in DOMAIN calls : calls[i].next \in 1 .. Len(ImportsOf(calls[i].file)) + 1
      BY <1>1 DEF TypeOK, ImportsOf
    <3>2. n \in DOMAIN calls
      BY <1>1, <1>2, LengthFacts DEF TypeOK
    <3> QED
      BY <3>1, <3>2
  <2>2. Len(ImportsOf(calls[n].file)) \in Nat
    BY <1>1, <1>2, InputFacts, LengthFacts DEF TypeOK
  <2> QED
    BY <1>1, <1>2, <2>1, <2>2
<1>4. /\ Len(calls') = n - 1
      /\ \A i \in 1 .. n - 1 : calls'[i] = calls[i] /\ i \in 1 .. n
  BY <1>1, <1>2, FrontFacts, SMTT(30) DEF TypeOK
<1>5. program.file = calls[n].file /\ program.libs = calls[n].libs
      /\ program \in [file : File, libs : Seq(LibRef)]
  BY <1>2
<1> HIDE DEF program
<1>6. /\ m \in Nat /\ DOMAIN order = 1 .. m /\ DOMAIN order' = 1 .. m + 1
      /\ \A i \in 1 .. m : order'[i] = order[i]
      /\ order'[m + 1] = program
      /\ \A i \in 1 .. m + 1 : i \in 1 .. m \/ i = m + 1
  BY <1>1, <1>5, AppendFacts, LengthFacts DEF TypeOK
<1>7. RecordsGather'
  BY <1>1, <1>4, SameGathered DEF MergeInv, RecordsGather
<1>8. ProgramsGather'
  <2>1. Gathered(program.file, Len(ImportsOf(program.file)), program.libs)
    BY <1>1, <1>2, <1>3, <1>5 DEF MergeInv, RecordsGather
  <2> QED
    BY <1>6, <2>1, SameGathered, <1>1 DEF MergeInv, ProgramsGather
<1>9. MergedMatches'
  BY <1>1 DEF MergeInv, MergedMatches, merge
<1> QED
  BY <1>7, <1>8, <1>9 DEF MergeInv

-----------------------------------------------------------------------------
(* The steps that look at no program keep the invariant.                   *)
LEMMA StartMergeGathers ==
  ASSUME IInv, MergeInv, StartMerge
  PROVE  MergeInv'
<1>1. /\ outcome = "loading" /\ outcome' = "merging" /\ TypeOK
      /\ UNCHANGED <<input, calls, build, merge>>
  BY DEF StartMerge, IInv
<1>2. mergeProgram = 1 /\ mergeItem = 1 /\ merged = << >>
  BY <1>1 DEF MergeInv, MergedMatches
<1>3. \A i, j \in Nat : ~ Before(i, j)
  <2>1. \A i \in DOMAIN order : i \in Nat /\ ~ (i < 1) /\ order[i].libs \in Seq(LibRef)
    BY <1>1, OrderFacts
  <2>2. \A i \in DOMAIN order : \A j \in DOMAIN order[i].libs : ~ (j < 1)
    BY <2>1, LengthFacts
  <2> QED
    BY <1>2, <2>1, <2>2 DEF Before
<1>4. \A i, j : Before(i, j)' <=> Before(i, j)
  BY <1>1 DEF Before, build, merge
<1>5. MergedMatches'
  BY <1>1, <1>2, <1>3, <1>4, NothingTwice DEF MergedMatches, merge
<1>6. RecordsGather' /\ ProgramsGather'
  BY <1>1, SameGathered DEF MergeInv, RecordsGather, ProgramsGather, build
<1> QED
  BY <1>5, <1>6 DEF MergeInv

(* The next import of the program at hand.                                 *)
LEMMA MergeImportMatches ==
  ASSUME IInv, MergeInv, MergeImport
  PROVE  MergeInv'
<1> DEFINE libs == order[mergeProgram].libs
<1> DEFINE ref == libs[mergeItem]
<1> DEFINE repeated == \E k \in 1 .. mergeItem - 1 : libs[k] = ref
<1> DEFINE earlier == \E h \in 1 .. mergeProgram - 1 : ref \in ToSet(order[h].libs)
<1>1. /\ outcome = "merging" /\ TypeOK
      /\ mergeProgram <= Len(order) /\ mergeItem <= Len(libs)
      /\ merged' = IF repeated \/ ~ earlier THEN Append(merged, ref) ELSE merged
      /\ mergeItem' = mergeItem + 1
      /\ UNCHANGED <<input, calls, build, outcome, mergeProgram>>
  BY DEF MergeImport, IInv, KeptByMerge
<1>2. /\ DOMAIN order = 1 .. Len(order) /\ Len(order) \in Nat
      /\ \A i \in DOMAIN order : order[i].libs \in Seq(LibRef)
      /\ mergeProgram \in DOMAIN order /\ mergeProgram \in Nat
      /\ mergeItem \in Nat \ {0} /\ merged \in Seq(LibRef)
  BY <1>1, OrderFacts DEF TypeOK
<1>3. /\ \A i \in DOMAIN order : /\ DOMAIN order[i].libs = 1 .. Len(order[i].libs)
                                 /\ Len(order[i].libs) \in Nat
      /\ mergeItem \in DOMAIN libs /\ ref \in LibRef
  BY <1>1, <1>2, LengthFacts
<1>4. \A i, j \in Nat :
        Before(i, j)' <=> Before(i, j) \/ (i = mergeProgram /\ j = mergeItem)
  BY <1>1, <1>2, <1>3 DEF Before, build
<1>5. /\ \A r : r \in ToSet(merged) <=>
           \E i, j \in Nat : Before(i, j) /\ order[i].libs[j] = r
      /\ Twice(merged) <=>
           \E i, j, k \in Nat : /\ j # k /\ Before(i, j) /\ Before(i, k)
                                /\ order[i].libs[j] = order[i].libs[k]
  BY <1>1 DEF MergeInv, MergedMatches
<1>6. ref \in ToSet(merged) <=> repeated \/ earlier
  <2>1. ASSUME repeated PROVE ref \in ToSet(merged)
    BY <1>1, <1>2, <1>3, <1>5, <2>1 DEF Before
  <2>2. ASSUME earlier PROVE ref \in ToSet(merged)
    <3>1. PICK h \in 1 .. mergeProgram - 1 : ref \in ToSet(order[h].libs)
      BY <2>2
    <3>2. h \in DOMAIN order /\ h < mergeProgram /\ h \in Nat
      BY <1>1, <1>2
    <3>3. PICK j \in DOMAIN order[h].libs : order[h].libs[j] = ref
      BY <3>1 DEF ToSet
    <3>4. j \in Nat
      BY <1>3, <3>2
    <3> QED
      BY <1>5, <3>2, <3>3, <3>4 DEF Before
  <2>3. ASSUME ref \in ToSet(merged) PROVE repeated \/ earlier
    <3>1. PICK i \in Nat, j \in Nat : Before(i, j) /\ order[i].libs[j] = ref
      BY <1>5, <2>3
    <3>2. CASE i < mergeProgram
      <4>1. i \in 1 .. mergeProgram - 1 /\ ref \in ToSet(order[i].libs)
        BY <1>2, <3>1, <3>2 DEF Before, ToSet
      <4> QED
        BY <4>1
    <3>3. CASE i = mergeProgram /\ j < mergeItem
      <4>1. j \in 1 .. mergeItem - 1
        BY <1>2, <1>3, <3>1, <3>3 DEF Before
      <4> QED
        BY <3>1, <3>3, <4>1
    <3> QED
      BY <3>1, <3>2, <3>3 DEF Before
  <2> QED
    BY <2>1, <2>2, <2>3
<1>7. \A r : r \in ToSet(merged) \/ r = ref <=>
        \E i, j \in Nat : Before(i, j)' /\ order[i].libs[j] = r
  BY <1>2, <1>4, <1>5
<1>8. Twice(merged) \/ repeated <=>
        \E i, j, k \in Nat : /\ j # k /\ Before(i, j)' /\ Before(i, k)'
                             /\ order[i].libs[j] = order[i].libs[k]
  <2>1. repeated => \E k \in Nat : /\ k # mergeItem /\ Before(mergeProgram, k)
                                   /\ libs[k] = ref
    BY <1>1, <1>2, <1>3 DEF Before
  <2>2. \A k \in Nat : Before(mergeProgram, k) /\ libs[k] = ref => repeated
    BY <1>2, <1>3 DEF Before
  <2> HIDE DEF repeated, ref, libs
  <2>3. ASSUME Twice(merged) \/ repeated
        PROVE  \E i, j, k \in Nat : /\ j # k /\ Before(i, j)' /\ Before(i, k)'
                                    /\ order[i].libs[j] = order[i].libs[k]
    BY <1>2, <1>4, <1>5, <2>1, <2>3 DEF ref, libs
  <2>4. ASSUME NEW i \in Nat, NEW j \in Nat, NEW k \in Nat,
               j # k, Before(i, j)', Before(i, k)', order[i].libs[j] = order[i].libs[k]
        PROVE  Twice(merged) \/ repeated
    BY <1>4, <1>5, <2>2, <2>4 DEF ref, libs
  <2> QED
    BY <2>3, <2>4
<1>9. /\ \A r : r \in ToSet(merged') <=> r \in ToSet(merged) \/ r = ref
      /\ Twice(merged') <=> Twice(merged) \/ repeated
  <2>1. CASE repeated \/ ~ earlier
    <3>1. merged' = Append(merged, ref)
      BY <1>1, <2>1
    <3> HIDE DEF ref, libs, repeated, earlier
    <3>2. /\ \A r : r \in ToSet(merged') <=> r \in ToSet(merged) \/ r = ref
          /\ Twice(merged') <=> Twice(merged) \/ ref \in ToSet(merged)
      BY <1>2, <1>3, <3>1, AppendTwice
    <3> QED
      BY <1>6, <2>1, <3>2
  <2>2. CASE ~ repeated /\ earlier
    BY <1>1, <1>6, <2>2
  <2> QED
    BY <2>1, <2>2
<1> HIDE DEF ref, libs, repeated, earlier
<1>10. MergedMatches'
  <2>1. outcome' = "merging" /\ order' = order
    BY <1>1 DEF build
  <2>2. \A r : r \in ToSet(merged') <=>
          \E i, j \in Nat : Before(i, j)' /\ order'[i].libs[j] = r
    BY <1>7, <1>9, <2>1
  <2>3. Twice(merged') <=>
          \E i, j, k \in Nat : /\ j # k /\ Before(i, j)' /\ Before(i, k)'
                               /\ order'[i].libs[j] = order'[i].libs[k]
    BY <1>8, <1>9, <2>1
  <2> QED
    BY <2>1, <2>2, <2>3 DEF MergedMatches
<1>11. RecordsGather' /\ ProgramsGather'
  BY <1>1, SameGathered DEF MergeInv, RecordsGather, ProgramsGather, build
<1> QED
  BY <1>10, <1>11 DEF MergeInv

(* A program all of whose imports are dealt with.                          *)
LEMMA MergeNextProgramMatches ==
  ASSUME IInv, MergeInv, MergeNextProgram
  PROVE  MergeInv'
<1>1. /\ outcome = "merging" /\ TypeOK
      /\ mergeProgram <= Len(order)
      /\ mergeItem > Len(order[mergeProgram].libs)
      /\ mergeProgram' = mergeProgram + 1 /\ mergeItem' = 1
      /\ UNCHANGED <<input, calls, build, outcome, merged>>
  BY DEF MergeNextProgram, IInv
<1>2. /\ DOMAIN order = 1 .. Len(order) /\ Len(order) \in Nat
      /\ \A i \in DOMAIN order : order[i].libs \in Seq(LibRef)
      /\ mergeProgram \in Nat /\ mergeItem \in Nat
  BY <1>1, OrderFacts DEF TypeOK
<1>3. \A i \in DOMAIN order : /\ DOMAIN order[i].libs = 1 .. Len(order[i].libs)
                              /\ Len(order[i].libs) \in Nat
  BY <1>2, LengthFacts
<1>4. \A i, j \in Nat : Before(i, j)' <=> Before(i, j)
  BY <1>1, <1>2, <1>3 DEF Before, build
<1>5. MergedMatches'
  BY <1>1, <1>4 DEF MergeInv, MergedMatches, build
<1>6. RecordsGather' /\ ProgramsGather'
  BY <1>1, SameGathered DEF MergeInv, RecordsGather, ProgramsGather, build
<1> QED
  BY <1>5, <1>6 DEF MergeInv

(* The merge has been through all programs.                                *)
LEMMA FinishMergeMatches ==
  ASSUME IInv, MergeInv, FinishMerge
  PROVE  MergeInv'
<1>1. /\ outcome = "merging" /\ outcome' = "merged"
      /\ mergeProgram > Len(order)
      /\ UNCHANGED <<input, calls, build, merge>>
  BY DEF FinishMerge
<1>2. \A i, j : Before(i, j)' <=> Before(i, j)
  BY <1>1 DEF Before, build, merge
<1>3. MergedMatches'
  BY <1>1, <1>2 DEF MergeInv, MergedMatches, build, merge
<1>4. RecordsGather' /\ ProgramsGather'
  BY <1>1, SameGathered DEF MergeInv, RecordsGather, ProgramsGather, build
<1> QED
  BY <1>3, <1>4 DEF MergeInv

(* Steps that leave the search and the merge alone.                        *)
LEMMA IdleGathers ==
  ASSUME MergeInv, UNCHANGED <<input, calls, build, merge>>,
         outcome' = outcome \/ outcome' \notin {"loading", "merging", "merged"}
  PROVE  MergeInv'
<1>1. \A i, j : Before(i, j)' <=> Before(i, j)
  BY DEF Before, build, merge
<1>2. MergedMatches'
  BY <1>1 DEF MergeInv, MergedMatches, build, merge
<1>3. RecordsGather' /\ ProgramsGather'
  BY SameGathered DEF MergeInv, RecordsGather, ProgramsGather, build
<1> QED
  BY <1>2, <1>3 DEF MergeInv

-----------------------------------------------------------------------------
(* The invariant holds of every behaviour.                                 *)
LEMMA MergeInvHolds == Spec => []MergeInv
<1>1. ASSUME Init
      PROVE  MergeInv
  <2>1. Len(<< >>) = 0 /\ DOMAIN << >> = {} /\ calls = << >> /\ order = << >>
    BY <1>1 DEF Init
  <2> QED
    BY <1>1, <2>1 DEF Init, MergeInv, RecordsGather, ProgramsGather, MergedMatches
<1>2. ASSUME IInv, MergeInv, [Next]_vars
      PROVE  MergeInv'
  <2>1. CASE LoadEntry
    BY <1>2, <2>1, LoadEntryGathers
  <2>2. CASE ImportSource
    BY <1>2, <2>2, ImportSourceGathers
  <2>3. CASE ImportLibrary
    BY <1>2, <2>3, ImportLibraryGathers
  <2>4. CASE FinishModule
    BY <1>2, <2>4, FinishModuleGathers
  <2>5. CASE StartMerge
    BY <1>2, <2>5, StartMergeGathers
  <2>6. CASE MergeImport
    BY <1>2, <2>6, MergeImportMatches
  <2>7. CASE MergeNextProgram
    BY <1>2, <2>7, MergeNextProgramMatches
  <2>8. CASE FinishMerge
    BY <1>2, <2>8, FinishMergeMatches
  <2>9. CASE CheckImports
    BY <1>2, <2>9, IdleGathers DEF CheckImports
  <2>10. CASE UNCHANGED vars
    BY <1>2, <2>10, IdleGathers DEF vars
  <2> QED
    BY <1>2, <2>1, <2>2, <2>3, <2>4, <2>5, <2>6, <2>7, <2>8, <2>9, <2>10
       DEF Next, Step, Stopped
<1> QED
  BY <1>1, <1>2, Inductive, PTL DEF Spec

(* Once everything is merged, everything has been dealt with.              *)
LEMMA AllBefore ==
  ASSUME IInv, MergeInv, outcome = "merged"
  PROVE  \A i, j : Before(i, j) <=> i \in DOMAIN order /\ j \in DOMAIN order[i].libs
<1>1. /\ mergeProgram > Len(order) /\ mergeProgram \in Nat
      /\ DOMAIN order = 1 .. Len(order) /\ Len(order) \in Nat
  BY LengthFacts DEF MergeInv, MergedMatches, IInv, TypeOK
<1> QED
  BY <1>1 DEF Before

(* Positions in the programs and in their imports are numbers.             *)
LEMMA Positions ==
  ASSUME IInv
  PROVE  \A i \in DOMAIN order : i \in Nat /\ \A j \in DOMAIN order[i].libs : j \in Nat
<1>1. /\ DOMAIN order = 1 .. Len(order)
      /\ \A i \in DOMAIN order : order[i].libs \in Seq(LibRef)
  BY OrderFacts DEF IInv
<1>2. \A i \in DOMAIN order : DOMAIN order[i].libs = 1 .. Len(order[i].libs)
  BY <1>1, LengthFacts
<1> QED
  BY <1>1, <1>2

(* mergePrograms loses no import: the merged program imports exactly the   *)
(* libraries that the modules import.                                      *)
THEOREM ImportsAlwaysSurvive == Spec => []ImportsSurvive
<1>1. ASSUME IInv, MergeInv
      PROVE  ImportsSurvive
  <2> SUFFICES ASSUME outcome = "merged"
               PROVE  \A r : r \in UsedLibs <=> r \in ToSet(merged)
    BY DEF ImportsSurvive
  <2>1. \A r : r \in ToSet(merged) <=> \E i, j \in Nat : Before(i, j) /\ order[i].libs[j] = r
    BY <1>1 DEF MergeInv, MergedMatches
  <2>2. \A r : r \in UsedLibs <=>
          \E i \in DOMAIN order : \E j \in DOMAIN order[i].libs : order[i].libs[j] = r
    BY DEF UsedLibs, ToSet
  <2> QED
    BY <1>1, <2>1, <2>2, AllBefore, Positions
<1> QED
  BY <1>1, Inductive, MergeInvHolds, PTL

(* Semantic analysis reports a duplicate import of the merged program just *)
(* when some module writes one, if libraries are spelled consistently.     *)
THEOREM DuplicatesAlwaysWritten == Spec => []DuplicatesAreWritten
<1>1. ASSUME IInv, MergeInv
      PROVE  DuplicatesAreWritten
  <2> SUFFICES ASSUME outcome = "merged",
                      \A r, s \in UsedLibs : SemaKey(r) = SemaKey(s) => r = s
               PROVE  Repeated(merged) <=> \E f \in loaded : WritesTwice(f)
    BY DEF DuplicatesAreWritten
  <2>1. Repeated(merged) <=> Twice(merged)
    <3>1. \A i \in DOMAIN merged : merged[i] \in UsedLibs
      <4>1. \A i \in DOMAIN merged : merged[i] \in ToSet(merged)
        BY DEF ToSet
      <4>2. \A r : r \in ToSet(merged) <=> \E i, j \in Nat : Before(i, j) /\ order[i].libs[j] = r
        BY <1>1 DEF MergeInv, MergedMatches
      <4>3. \A i, j : Before(i, j) => order[i].libs[j] \in UsedLibs
        BY <1>1, AllBefore DEF UsedLibs, ToSet
      <4> QED
        BY <4>1, <4>2, <4>3
    <3> QED
      BY <3>1 DEF Repeated, Twice
  <2>2. Twice(merged) <=> \E i \in DOMAIN order : Twice(order[i].libs)
    <3>1. Twice(merged) <=>
            \E i, j, k \in Nat : /\ j # k /\ Before(i, j) /\ Before(i, k)
                                 /\ order[i].libs[j] = order[i].libs[k]
      BY <1>1 DEF MergeInv, MergedMatches
    <3> QED
      BY <1>1, <3>1, AllBefore, Positions DEF Twice
  <2>3. \A i \in DOMAIN order : Twice(order[i].libs) <=> WritesTwice(order[i].file)
    <3> SUFFICES ASSUME NEW i \in DOMAIN order
                 PROVE  Twice(order[i].libs) <=> WritesTwice(order[i].file)
      OBVIOUS
    <3> DEFINE f == order[i].file
    <3>1. Gathered(f, Len(ImportsOf(f)), order[i].libs)
      BY <1>1 DEF MergeInv, ProgramsGather
    <3>2. DOMAIN ImportsOf(f) = 1 .. Len(ImportsOf(f))
      <4>1. f \in File
        BY <1>1, OrderFacts DEF IInv
      <4> QED
        BY <1>1, <4>1, InputFacts, LengthFacts DEF IInv, TypeOK
    <3> HIDE DEF f
    <3> QED
      BY <3>1, <3>2 DEF Gathered, WritesTwice, LibraryAt, f
  <2> QED
    BY <1>1, <2>1, <2>2, <2>3 DEF IInv, LoadedOnce
<1> QED
  BY <1>1, Inductive, MergeInvHolds, PTL
=============================================================================
