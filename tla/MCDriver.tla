------------------------------ MODULE MCDriver ------------------------------
EXTENDS Benchmark

LinuxHost == <<"x86_64", "pc", "linux", "gnu">>
Hello == <<"hello", "vlt">>
Prog == <<"prog">>
Doubled == <<"util", "vlt", "vlt">>
SourceFiles == {Hello, <<"util", "vlt">>, Doubled, Prog}
Sysroots == {<<"sysroot">>}

\* Optional parts of a command line: alternatives, one of which is chosen.
Option(flag, values) == {<<<<flag>>, v>> : v \in values}
Nothing == {<<>>}

Modes == {<<<<"--emit-vir">>>>, <<<<"--emit-llvm">>>>, <<<<"--emit-vir">>, <<"--emit-llvm">>>>,
          <<<<"--bootstrap-cpp">>>>, <<<<"--bootstrap-cpp">>, <<"--no-link">>>>, <<<<"--no-link">>>>,
          <<<<"--bootstrap-cpp">>, <<"--emit-cpp">>, <<"gen", "cpp">>>>}
Alone == {<<<<"--list-targets">>>>, <<<<"--list-all-targets">>>>, <<<<"--benchmark">>>>}

Triples ==
  {Canonical(d.triple) : d \in BuiltinTargets} \cup
  {<<"x86_64", "unknown", "linux", "gnu">>, <<"aarch64", "apple", "darwin">>, <<"amd64", "pc", "win32", "msvc", "">>,
   <<"x86_64", "pc", "linux", "gnu", "extra">>, <<"x86_64", "apple">>, <<"mips", "pc", "linux", "gnu">>}
TargetOptions ==
  Nothing \cup Option("--target", Triples) \cup Option("--os", {<<"windows">>, <<"macos13">>})
  \cup {t \o o : t \in Option("--target", {<<"x86_64", "apple">>, <<"x86_64", "pc", "linux", "gnu", "extra">>}),
                 o \in Option("--os", {<<"macos">>}) \cup Option("--arch", {<<"arm64">>})}
  \cup {o \o a : o \in Option("--os", {<<"windows">>}), a \in Option("--abi", {<<"msvc">>})}
  \cup Option("--sysroot", {<<"sysroot">>, <<"nowhere">>})

Output == Nothing \cup Option("-o", {<<"out">>})

\* Every target and format, and every mode and output, one invocation at a time.
Single ==
  {i \o t \o f : i \in {<<Hello>>, <<Prog>>}, t \in TargetOptions,
                 f \in Nothing \cup Option("--emit", {<<"elf">>, <<"exe">>, <<"hex">>, <<"what">>})}
  \cup {i \o m \o o \o t : i \in {<<>>, <<Hello>>, <<Hello, <<"util", "vlt">>>>},
                           m \in Nothing \cup Modes \cup Alone, o \in Output \cup {<<<<"-o">>>>},
                           t \in Nothing \cup Option("--emit", {<<"elf">>}) \cup {<<<<Unknown>>>>}}
  \cup {<<Doubled, <<"--target">>, <<"x86_64", "pc", "windows", "msvc">>>>}

Build == {<<Hello>>, <<Hello, <<"-o">>, <<"hello", "vir">>>>, <<Hello, <<"--emit-vir">>, <<"--emit-llvm">>>>,
          <<Hello, <<"--bootstrap-cpp">>>>, <<Prog, <<"--target">>, <<"x86_64", "pc", "windows", "msvc">>>>,
          <<Prog>>, <<Hello, <<"-o">>, <<"--emit-vir">>>>}
Listing == {<<<<"--list-targets">>>>, <<<<"--list-all-targets">>>>}
Bench == {<<<<"--benchmark">>>>, <<<<"--benchmark">>, <<"-o">>, <<"out">>>>}

Pairs == {[p |-> a, q |-> b] : a \in Build, b \in Build}
         \cup {[p |-> a, q |-> <<Hello, <<"--target">>, Canonical(d.triple)>>] : a \in Listing, d \in BuiltinTargets}
Runs == {[p |-> a, q |-> b] : a \in Bench, b \in Bench \cup {<<Hello, <<"-o">>, <<"out">>>>}}

AllSessions == {[p |-> a] : a \in Single} \cup Pairs \cup Runs

\* No file, or what an earlier run has left: a whole row, one without the
\* header (its writer was overtaken), one cut short.
Earlier == {[text |-> <<>>, recorded |-> <<>>, faults |-> 0],
            [text |-> Header \o Row("old"), recorded |-> <<"old">>, faults |-> 0],
            [text |-> Row("old"), recorded |-> <<"old">>, faults |-> 0],
            [text |-> SubSeq(Row("old"), 1, 3), recorded |-> <<>>, faults |-> 1]}
=============================================================================
