--------------------------- MODULE MCModuleLoader ---------------------------
(***************************************************************************)
(* Model values for ModuleLoader.  Two families of file systems:           *)
(*   Plain    three files la, lb, lc in one directory and no sysroot, up   *)
(*            to two imports (one in lc), so that self-imports, two- and   *)
(*            three-cycles, diamonds, repeated imports, missing and        *)
(*            unparsable files all occur;                                  *)
(*   Rooted   two local files and a sysroot that holds its own a.vlt (sa)  *)
(*            and its own copy of library "r".                             *)
(* Libraries "k" and "K" differ in case only.                              *)
(***************************************************************************)
EXTENDS ModuleLoader

MCFile == {"la", "lb", "lc", "sa", "none"}
MCPath == {"a", "b", "c"}
MCLib == {"k", "K", "r"}
MCFold == [l \in MCLib |-> IF l = "K" THEN "k" ELSE l]
MCBeside ==
  [x \in MCFile \X MCPath |->
     IF x[1] = "sa" THEN (IF x[2] = "a" THEN "sa" ELSE "none")
     ELSE CASE x[2] = "a" -> "la" [] x[2] = "b" -> "lb" [] OTHER -> "lc"]
MCUnder == [p \in MCPath |-> IF p = "a" THEN "sa" ELSE "none"]

Src(p) == [kind |-> "source", name |-> p]
LibImport(l) == [kind |-> "library", name |-> l]

Missing == [state |-> "missing", imports |-> << >>, externs |-> {}]
Unparsable == [state |-> "unparsable", imports |-> << >>, externs |-> {}]

Parsed(items, n, externs) ==
  {[state |-> "parsed", imports |-> s, externs |-> e] :
     s \in BoundedSeq(items, n), e \in externs}

PlainDisks ==
  {[f \in MCFile |-> CASE f = "la" -> x [] f = "lb" -> y [] f = "lc" -> z
                       [] OTHER -> Missing] :
     x \in Parsed({Src("a"), Src("b"), Src("c"), LibImport("k")}, 2, {{}, {"k"}}),
     y \in Parsed({Src("a"), Src("c"), LibImport("k")}, 2, {{}})
             \cup {Missing, Unparsable},
     z \in Parsed({Src("a"), Src("b"), LibImport("k"), LibImport("K")}, 1, {{}})
             \cup {Missing}}

RootedDisks ==
  {[f \in MCFile |-> CASE f = "la" -> x [] f = "lb" -> y [] f = "sa" -> z
                       [] OTHER -> Missing] :
     x \in Parsed({Src("a"), Src("b"), LibImport("r")}, 2, {{}, {"r"}}),
     y \in Parsed({Src("a"), LibImport("r")}, 2, {{}}) \cup {Missing},
     z \in Parsed({Src("a"), Src("b"), LibImport("r")}, 1, {{}}) \cup {Missing}}

Entries == {<<"la">>, <<"lb", "la">>}

PlainInputs == [disk : PlainDisks, sysroot : {FALSE}, entries : Entries]
MCInputs == PlainInputs \cup [disk : RootedDisks, sysroot : {TRUE}, entries : Entries]
=============================================================================
