---------------------------- MODULE ModuleLoader ----------------------------
(***************************************************************************)
(* Source-module loading in voltisc's driver: the depth-first search that  *)
(* turns the entry files of a command line into one program.               *)
(*                                                                         *)
(* Each call of loadProgramRecursive is an activation record in "calls";   *)
(* ModuleBuildState is loaded / inProgress / stack / order.  A throw ends  *)
(* the compilation: no later step reads the half-updated state.            *)
(*                                                                         *)
(* After the search the programs are merged and the import declarations    *)
(* of the merged program are checked by semantic analysis.                 *)
(*                                                                         *)
(* A definition MutX is X with a plausible mistake: the property it breaks *)
(* is one that notices the mistake.                                        *)
(***************************************************************************)
EXTENDS Naturals, FiniteSets, SequencesExt

CONSTANTS
  File,       \* canonical source files, the keys of ModuleBuildState
  Path,       \* spellings of source imports
  Lib,        \* spellings of library imports
  Beside,     \* Beside[<<f, p>>]: the file named by p from the directory of f
  Under,      \* Under[p]: the file named by p below the sysroot
  Absolute,   \* the paths that are absolute
  LibInRoot,  \* the library names found in a lib directory of the sysroot
  Fold,       \* Fold[l]: l in lower case, with '/' for '\'
  Inputs      \* the command lines and file systems considered

Import == [kind : {"source"}, name : Path] \cup [kind : {"library"}, name : Lib]

(* What readFile and the parser make of a file; externs are the libraries  *)
(* that the file's extern functions come from.                             *)
Source ==
  [state : {"missing", "unparsable", "parsed"}, imports : Seq(Import),
   externs : SUBSET Lib]

Input == [disk : [File -> Source], sysroot : BOOLEAN, entries : Seq(File)]

ASSUME InputAssumption == Inputs \subseteq Input

ASSUME PathAssumption ==
  /\ Beside \in [File \X Path -> File]
  /\ Under \in [Path -> File]
  /\ Absolute \subseteq Path

ASSUME LibAssumption ==
  /\ LibInRoot \subseteq Lib
  /\ Fold \in [Lib -> Lib]

VARIABLES
  input,       \* the command line and the file system, fixed
  nextEntry,   \* position of the next entry file
  calls,       \* activation records of loadProgramRecursive
  loaded, inProgress, stack, order,   \* ModuleBuildState
  outcome,     \* "loading", or how the compilation ended up
  cycle,       \* the chain named by a cycle error
  mergeProgram, mergeItem,   \* the import that the merge is at
  merged       \* the imports of the merged program

build == <<loaded, inProgress, stack, order>>
merge == <<mergeProgram, mergeItem, merged>>
vars == <<input, nextEntry, calls, build, outcome, cycle, merge>>

-----------------------------------------------------------------------------
(* A library import after resolveRuntimeImportPath: as written, or the     *)
(* copy found in the sysroot.                                              *)
LibRef == {"written", "sysroot"} \X Lib

Outcome ==
  {"loading", "cycle", "missing", "unparsable", "merging", "merged", "rejected",
   "accepted"}

Frame == [file : File, next : Nat, libs : Seq(LibRef)]

(* No activation record is more than one past its last import, and no      *)
(* entry file more than one past the last is loaded.                       *)
TypeOK ==
  /\ input \in Inputs
  /\ nextEntry \in 1 .. Len(input.entries) + 1
  /\ calls \in Seq(Frame)
  /\ \A i \in DOMAIN calls :
       calls[i].next \in 1 .. Len(input.disk[calls[i].file].imports) + 1
  /\ loaded \subseteq File
  /\ inProgress \subseteq File
  /\ stack \in Seq(File)
  /\ order \in Seq([file : File, libs : Seq(LibRef)])
  /\ outcome \in Outcome
  /\ cycle \in Seq(File)
  /\ mergeProgram \in 1 .. Len(order) + 1
  /\ mergeItem \in Nat \ {0}
  /\ merged \in Seq(LibRef)

Init ==
  /\ input \in Inputs
  /\ nextEntry = 1
  /\ calls = << >>
  /\ loaded = {}
  /\ inProgress = {}
  /\ stack = << >>
  /\ order = << >>
  /\ outcome = "loading"
  /\ cycle = << >>
  /\ mergeProgram = 1
  /\ mergeItem = 1
  /\ merged = << >>

-----------------------------------------------------------------------------
Exists(f) == input.disk[f].state # "missing"

Parses(f) == input.disk[f].state = "parsed"

ImportsOf(f) == input.disk[f].imports

(* resolveImportPath: a relative import is looked up below the sysroot     *)
(* first, then beside the importing file.                                  *)
Resolve(f, p) ==
  IF p \notin Absolute /\ input.sysroot /\ Exists(Under[p])
  THEN Under[p]
  ELSE Beside[<<f, p>>]

(* resolveRuntimeImportPath *)
ResolveLib(l) ==
  IF input.sysroot /\ l \in LibInRoot THEN <<"sysroot", l>> ELSE <<"written", l>>

Throw(result) == outcome' = result

Returned(resumed) ==
  /\ calls' = resumed
  /\ UNCHANGED <<build, outcome, cycle>>

MutOpenAsLoaded(f, resumed) ==
  /\ inProgress' = inProgress \cup {f}
  /\ stack' = Append(stack, f)
  /\ loaded' = loaded \cup {f}
  /\ IF Parses(f)
     THEN /\ calls' = Append(resumed, [file |-> f, next |-> 1, libs |-> << >>])
          /\ UNCHANGED outcome
     ELSE /\ Throw("unparsable")
          /\ UNCHANGED calls
  /\ UNCHANGED <<order, cycle>>

(* The rest of loadProgramRecursive's prologue: the file is marked and     *)
(* pushed before it is read and parsed.                                    *)
Open(f, resumed) ==
  /\ inProgress' = inProgress \cup {f}
  /\ stack' = Append(stack, f)
  /\ IF Parses(f)
     THEN /\ calls' = Append(resumed, [file |-> f, next |-> 1, libs |-> << >>])
          /\ UNCHANGED outcome
     ELSE /\ Throw("unparsable")
          /\ UNCHANGED calls
  /\ UNCHANGED <<loaded, order, cycle>>

MutVisitAnew(f, resumed) ==
  \/ /\ f \in inProgress
     /\ Throw("cycle")
     /\ cycle' = Append(stack, f)
     /\ UNCHANGED <<calls, build>>
  \/ /\ f \notin inProgress
     /\ ~ Exists(f)
     /\ Throw("missing")
     /\ UNCHANGED <<calls, build, cycle>>
  \/ /\ f \notin inProgress
     /\ Exists(f)
     /\ Open(f, resumed)

MutVisitNoMissing(f, resumed) ==
  \/ f \in loaded /\ Returned(resumed)
  \/ /\ f \notin loaded
     /\ f \in inProgress
     /\ Throw("cycle")
     /\ cycle' = Append(stack, f)
     /\ UNCHANGED <<calls, build>>
  \/ /\ f \notin loaded \cup inProgress
     /\ Exists(f)
     /\ Open(f, resumed)

(* loadProgramRecursive(f), called by the code that leaves the activation  *)
(* records "resumed" behind.                                               *)
Visit(f, resumed) ==
  \/ f \in loaded /\ Returned(resumed)
  \/ /\ f \notin loaded
     /\ f \in inProgress
     /\ Throw("cycle")
     /\ cycle' = Append(stack, f)
     /\ UNCHANGED <<calls, build>>
  \/ /\ f \notin loaded \cup inProgress
     /\ ~ Exists(f)
     /\ Throw("missing")
     /\ UNCHANGED <<calls, build, cycle>>
  \/ /\ f \notin loaded \cup inProgress
     /\ Exists(f)
     /\ Open(f, resumed)

-----------------------------------------------------------------------------
(* buildProgramFromEntryFiles calls the loader for the next entry file.    *)
LoadEntry ==
  /\ outcome = "loading"
  /\ calls = << >>
  /\ nextEntry <= Len(input.entries)
  /\ nextEntry' = nextEntry + 1
  /\ Visit(input.entries[nextEntry], << >>)
  /\ UNCHANGED <<input, merge>>

(* The innermost call is at an import declaration of its file.             *)
AtImport(kind) ==
  /\ outcome = "loading"
  /\ calls # << >>
  /\ Last(calls).next <= Len(ImportsOf(Last(calls).file))
  /\ ImportsOf(Last(calls).file)[Last(calls).next].kind = kind

CurrentImport == ImportsOf(Last(calls).file)[Last(calls).next].name

MutAdvanced == [calls EXCEPT ![Len(calls)].next = @ + 2]

(* The caller's record once its current import is dealt with.              *)
Advanced == [calls EXCEPT ![Len(calls)].next = @ + 1]

ImportSource ==
  /\ AtImport("source")
  /\ Visit(Resolve(Last(calls).file, CurrentImport), Advanced)
  /\ UNCHANGED <<input, nextEntry, merge>>

ImportLibrary ==
  /\ AtImport("library")
  /\ calls' = [Advanced EXCEPT ![Len(calls)].libs =
                 Append(@, ResolveLib(CurrentImport))]
  /\ UNCHANGED <<input, nextEntry, build, outcome, cycle, merge>>

MutFinishKeepsStack ==
  /\ outcome = "loading"
  /\ calls # << >>
  /\ Last(calls).next > Len(ImportsOf(Last(calls).file))
  /\ order' = Append(order, [file |-> Last(calls).file, libs |-> Last(calls).libs])
  /\ stack' = stack
  /\ inProgress' = inProgress \ {Last(calls).file}
  /\ loaded' = loaded \cup {Last(calls).file}
  /\ calls' = Front(calls)
  /\ UNCHANGED <<input, nextEntry, outcome, cycle, merge>>

MutFinishKeepsMark ==
  /\ outcome = "loading"
  /\ calls # << >>
  /\ Last(calls).next > Len(ImportsOf(Last(calls).file))
  /\ order' = Append(order, [file |-> Last(calls).file, libs |-> Last(calls).libs])
  /\ stack' = Front(stack)
  /\ inProgress' = inProgress
  /\ loaded' = loaded \cup {Last(calls).file}
  /\ calls' = Front(calls)
  /\ UNCHANGED <<input, nextEntry, outcome, cycle, merge>>

(* The innermost call has seen all its imports: post-order.                *)
FinishModule ==
  /\ outcome = "loading"
  /\ calls # << >>
  /\ Last(calls).next > Len(ImportsOf(Last(calls).file))
  /\ order' = Append(order, [file |-> Last(calls).file, libs |-> Last(calls).libs])
  /\ stack' = Front(stack)
  /\ inProgress' = inProgress \ {Last(calls).file}
  /\ loaded' = loaded \cup {Last(calls).file}
  /\ calls' = Front(calls)
  /\ UNCHANGED <<input, nextEntry, outcome, cycle, merge>>

-----------------------------------------------------------------------------
(* All entry files are loaded: mergePrograms goes through the programs in  *)
(* order.                                                                  *)
StartMerge ==
  /\ outcome = "loading"
  /\ calls = << >>
  /\ nextEntry > Len(input.entries)
  /\ outcome' = "merging"
  /\ UNCHANGED <<input, nextEntry, calls, build, cycle, merge>>

MutKeptByFirstSeen(i, j) ==
  /\ ~ \E k \in 1 .. (j - 1) : order[i].libs[k] = order[i].libs[j]
  /\ ~ \E h \in 1 .. (i - 1) : order[i].libs[j] \in ToSet(order[h].libs)

MutKeptIfBoth(i, j) ==
  /\ \E k \in 1 .. (j - 1) : order[i].libs[k] = order[i].libs[j]
  /\ ~ \E h \in 1 .. (i - 1) : order[i].libs[j] \in ToSet(order[h].libs)

(* Import j of program i is kept if it repeats one of the same program, or *)
(* is in no earlier program.                                               *)
KeptByMerge(i, j) ==
  \/ \E k \in 1 .. (j - 1) : order[i].libs[k] = order[i].libs[j]
  \/ ~ \E h \in 1 .. (i - 1) : order[i].libs[j] \in ToSet(order[h].libs)

MergeImport ==
  /\ outcome = "merging"
  /\ mergeProgram <= Len(order)
  /\ mergeItem <= Len(order[mergeProgram].libs)
  /\ merged' = IF KeptByMerge(mergeProgram, mergeItem)
               THEN Append(merged, order[mergeProgram].libs[mergeItem])
               ELSE merged
  /\ mergeItem' = mergeItem + 1
  /\ UNCHANGED <<input, nextEntry, calls, build, outcome, cycle, mergeProgram>>

MergeNextProgram ==
  /\ outcome = "merging"
  /\ mergeProgram <= Len(order)
  /\ mergeItem > Len(order[mergeProgram].libs)
  /\ mergeProgram' = mergeProgram + 1
  /\ mergeItem' = 1
  /\ UNCHANGED <<input, nextEntry, calls, build, outcome, cycle, merged>>

FinishMerge ==
  /\ outcome = "merging"
  /\ mergeProgram > Len(order)
  /\ outcome' = "merged"
  /\ UNCHANGED <<input, nextEntry, calls, build, cycle, merge>>

(* The key under which semantic analysis compares import paths.            *)
SemaKey(ref) == <<ref[1], Fold[ref[2]]>>

(* registerImports: "duplicate import".                                    *)
Repeated(refs) ==
  \E i, j \in DOMAIN refs : i # j /\ SemaKey(refs[i]) = SemaKey(refs[j])

(* registerFunctions: an extern function needs a matching import.          *)
Bound(l, refs) ==
  \E i \in DOMAIN refs : SemaKey(refs[i]) = SemaKey(<<"written", l>>)

Externs == UNION {input.disk[order[i].file].externs : i \in DOMAIN order}

CheckImports ==
  /\ outcome = "merged"
  /\ outcome' = IF Repeated(merged) \/ \E l \in Externs : ~ Bound(l, merged)
                THEN "rejected" ELSE "accepted"
  /\ UNCHANGED <<input, nextEntry, calls, build, cycle, merge>>

Ended == outcome \notin {"loading", "merging", "merged"}

Stopped == Ended /\ UNCHANGED vars

Step ==
  \/ LoadEntry
  \/ ImportSource
  \/ ImportLibrary
  \/ FinishModule
  \/ StartMerge
  \/ MergeImport
  \/ MergeNextProgram
  \/ FinishMerge
  \/ CheckImports

Next == Step \/ Stopped

(* The compiler runs to completion: it never waits for another party.      *)
Spec == Init /\ [][Next]_vars /\ WF_vars(Step)

-----------------------------------------------------------------------------
(* The import relation between source files, and the sets of files that    *)
(* hold whatever they import.                                              *)
ImportsFile(f, g) ==
  /\ Parses(f)
  /\ \E i \in DOMAIN ImportsOf(f) :
       /\ ImportsOf(f)[i].kind = "source"
       /\ Resolve(f, ImportsOf(f)[i].name) = g

Closed(S) == \A f \in S, g \in File : ImportsFile(f, g) => g \in S

(* Every nonempty set of files has one that imports none of the set.       *)
Acyclic(S) ==
  \A T \in (SUBSET S) \ {{}} : \E f \in T : \A g \in T : ~ ImportsFile(f, g)

(* The activation records, the error stack and the in-progress set name    *)
(* the same files, and no file is being loaded twice at once.              *)
FramesAgree ==
  outcome = "loading" =>
    /\ stack = [i \in DOMAIN calls |-> calls[i].file]
    /\ inProgress = ToSet(stack)
    /\ IsInjective(stack)

(* A module is parsed and emitted once, however many modules import it.    *)
LoadedOnce ==
  /\ \A i, j \in DOMAIN order : order[i].file = order[j].file => i = j
  /\ loaded = {order[i].file : i \in DOMAIN order}

(* programsInDependencyOrder: what a module imports comes before it.       *)
DependencyOrder ==
  \A i \in DOMAIN order : \A g \in File :
    ImportsFile(order[i].file, g) => \E j \in 1 .. (i - 1) : order[j].file = g

(* A reported cycle is one: the chain in the message follows import        *)
(* declarations and comes back to a file that is on it.                    *)
CycleIsReal ==
  outcome = "cycle" =>
    /\ \A i \in 1 .. (Len(cycle) - 1) : ImportsFile(cycle[i], cycle[i + 1])
    /\ \E i \in 1 .. (Len(cycle) - 1) : cycle[i] = Last(cycle)
    /\ cycle[1] \in ToSet(input.entries)

(* Loading goes on, or has thrown.                                         *)
Loading == {"loading", "cycle", "missing", "unparsable"}

(* A load that succeeds missed nothing: it holds exactly the files that    *)
(* the entries reach, the least closed set with the entries; all of them   *)
(* exist, and none is on a cycle.                                          *)
SuccessIsComplete ==
  outcome \notin Loading =>
    /\ ToSet(input.entries) \subseteq loaded
    /\ Closed(loaded)
    /\ \A S \in SUBSET File :
         ToSet(input.entries) \subseteq S /\ Closed(S) => loaded \subseteq S
    /\ \A f \in loaded : Parses(f)
    /\ Acyclic(loaded)

(* Merging hides nothing from, and adds nothing to, the "duplicate import" *)
(* check: with consistent spelling, a library named by several modules is  *)
(* no duplicate, one named twice by one module is.                         *)
WritesTwice(f) ==
  \E i, j \in DOMAIN ImportsOf(f) :
    /\ i # j
    /\ ImportsOf(f)[i] = ImportsOf(f)[j]
    /\ ImportsOf(f)[i].kind = "library"

UsedLibs == UNION {ToSet(order[i].libs) : i \in DOMAIN order}

DuplicatesAreWritten ==
  (/\ outcome = "merged"
   /\ \A r, s \in UsedLibs : SemaKey(r) = SemaKey(s) => r = s)
  => (Repeated(merged) <=> \E f \in loaded : WritesTwice(f))

(* No import is lost in the merge: every library a module imports is an    *)
(* import of the merged program.                                           *)
ImportsSurvive == outcome = "merged" => UsedLibs = ToSet(merged)

(* Loading ends for every import graph, cyclic ones included.              *)
Terminates == <>Ended

(* An extern function from a library that its own file imports is bound,   *)
(* whatever the --sysroot hint.                                            *)
ImportsItsExterns(f) ==
  \A l \in input.disk[f].externs :
    [kind |-> "library", name |-> l] \in ToSet(ImportsOf(f))

ExternsStayBound ==
  outcome \in {"merged", "rejected"} /\ (\A f \in loaded : ImportsItsExterns(f))
    => \A l \in Externs : Bound(l, merged)
=============================================================================
