------------------------------ MODULE Targets ------------------------------
(* Targets and output formats: the built-in table, the reading of triples,   *)
(* the capability registry and the choice `main` makes from --target,        *)
(* --arch, --os, --abi and --emit (target.cpp, target_capability_registry.cpp,*)
(* abi.cpp:230 and main.cpp:1004-1056).                                      *)
(*                                                                           *)
(* A text is the sequence of its segments, between dashes for a triple, in   *)
(* lower case (every comparison in the code is made after `lower`).  An      *)
(* optional value is a set with at most one element.                         *)
EXTENDS Naturals, Sequences, TLC

ArchNames ==
  [X64 |-> {"x86_64", "amd64"}, X86 |-> {"x86", "i386", "i686"},
   Arm64 |-> {"aarch64", "arm64"}, Armv7 |-> {"armv7", "armv7a"}, Armv6 |-> {"armv6"},
   Riscv32 |-> {"riscv32"}, Riscv64 |-> {"riscv64"}, Mips |-> {"mips"}, Mips64 |-> {"mips64"},
   PowerPc64 |-> {"powerpc64", "ppc64"}, S390x |-> {"s390x"}, Xtensa |-> {"xtensa"},
   Avr |-> {"avr"}]

VendorNames == [Pc |-> {"pc"}, Apple |-> {"apple"}, None |-> {"none", "unknown"}]

(* Any text that starts with "macos" names MacOS; "macos13" stands for them. *)
OsNames ==
  [Windows |-> {"windows", "win32"}, Linux |-> {"linux"},
   MacOS |-> {"macos", "darwin", "macos13"}, BareMetal |-> {"none", "baremetal"}]

AbiNames ==
  [Msvc |-> {"msvc"}, Gnu |-> {"gnu"}, Musl |-> {"musl"}, Eabi |-> {"eabi"},
   Eabihf |-> {"eabihf"}, None |-> {"none", "unknown"}]

FormatNames ==
  [pe |-> {"pe", "exe", "dll"}, elf |-> {"elf", "so", "o"}, macho |-> {"macho", "dylib"},
   bin |-> {"bin", "raw"}, hex |-> {"hex", "ihex"}, srec |-> {"srec", "s19"}]

Named(names, text) == {x \in DOMAIN names : text \in names[x]}

(* Vendors and ABIs have a value for what they do not know. *)
NamedOr(names, text, other) == IF Named(names, text) = {} THEN {other} ELSE Named(names, text)

BinaryFormats(text) == Named(FormatNames, text)

(* How a description writes its own triple. *)
ArchText ==
  [X64 |-> "x86_64", X86 |-> "x86", Arm64 |-> "aarch64", Armv7 |-> "armv7",
   Riscv32 |-> "riscv32", Riscv64 |-> "riscv64", Xtensa |-> "xtensa", Avr |-> "avr"]
VendorText == [Pc |-> "pc", Apple |-> "apple", None |-> "none"]
OsText == [Windows |-> "windows", MacOS |-> "macos", Linux |-> "linux", BareMetal |-> "none"]
AbiText == [Msvc |-> "msvc", Gnu |-> "gnu", Eabi |-> "eabi", Eabihf |-> "eabihf", None |-> "none"]

Canonical(t) == <<ArchText[t.arch], VendorText[t.vendor], OsText[t.os], AbiText[t.abi]>>

Triple(arch, vendor, os, abi) == [arch |-> arch, vendor |-> vendor, os |-> os, abi |-> abi]

Target(arch, vendor, os, abi, formats, readiness) ==
  [triple |-> Triple(arch, vendor, os, abi), formats |-> formats, readiness |-> readiness]

(* The first format of a target is its default. *)
BuiltinTargets ==
  {Target("X64", "Pc", "Windows", "Msvc", <<"pe">>, "Production"),
   Target("X86", "Pc", "Windows", "Msvc", <<"pe">>, "Planned"),
   Target("Arm64", "Pc", "Windows", "Msvc", <<"pe">>, "Experimental"),
   Target("X64", "Apple", "MacOS", "None", <<"macho">>, "Production"),
   Target("Arm64", "Apple", "MacOS", "None", <<"macho">>, "Experimental"),
   Target("X64", "Pc", "Linux", "Gnu", <<"elf">>, "Production"),
   Target("X86", "Pc", "Linux", "Gnu", <<"elf">>, "Planned"),
   Target("Arm64", "Pc", "Linux", "Gnu", <<"elf">>, "Experimental"),
   Target("Armv7", "Pc", "Linux", "Eabihf", <<"elf">>, "Planned"),
   Target("Riscv64", "Pc", "Linux", "Gnu", <<"elf">>, "Planned"),
   Target("Riscv32", "None", "BareMetal", "Eabi", <<"elf", "bin", "hex", "srec">>, "Planned"),
   Target("Armv7", "None", "BareMetal", "Eabi", <<"elf", "bin", "hex", "srec">>, "Planned"),
   Target("Xtensa", "None", "BareMetal", "Eabi", <<"elf", "bin">>, "Planned"),
   Target("Avr", "None", "BareMetal", "Eabi", <<"elf", "hex">>, "Planned")}

DescribeTarget(triple) == {d \in BuiltinTargets : d.triple = triple}

(* std::getline yields no part after a dash that ends the text. *)
Split(text) ==
  IF text[Len(text)] = "" THEN SubSeq(text, 1, Len(text) - 1) ELSE text

ParseTargetTriple(text) ==
  LET parts == Split(text)
  IN IF Len(parts) \notin 3..4 THEN {}
     ELSE {Triple(arch, vendor, os, abi) :
             arch \in Named(ArchNames, parts[1]),
             vendor \in NamedOr(VendorNames, parts[2], "Unknown"),
             os \in Named(OsNames, parts[3]),
             abi \in IF Len(parts) = 4 THEN NamedOr(AbiNames, parts[4], "Unknown") ELSE {"None"}}

(* `overrides` maps the number of a segment to its new text.  Segments that  *)
(* are not there are empty, segments after the fourth are dropped.           *)
Override(text, overrides) ==
  IF DOMAIN overrides = {} THEN text
  ELSE [i \in 1..4 |-> IF i \in DOMAIN overrides THEN overrides[i]
                       ELSE IF i <= Len(text) THEN text[i] ELSE ""]

(* abi.cpp: by architecture, and for the two x86 ones by operating system. *)
CallingConventions(d) ==
  CASE d.triple.arch = "X64" -> {IF d.triple.os = "Windows" THEN "ms_x64" ELSE "sysv_amd64"}
    [] d.triple.arch = "X86" -> {IF d.triple.os = "Windows" THEN "ms_x86" ELSE "sysv_i386"}
    [] d.triple.arch = "Arm64" -> {"aapcs64"}
    [] d.triple.arch \in {"Armv7", "Armv6"} -> {"aapcs32"}
    [] d.triple.arch = "Riscv32" -> {"riscv_ilp32"}
    [] d.triple.arch = "Riscv64" -> {"riscv_lp64"}
    [] d.triple.arch = "Xtensa" -> {"xtensa_call0"}
    [] d.triple.arch = "Avr" -> {"avr"}
    [] OTHER -> {}

(* What the driver goes on with: a known target that is more than planned,   *)
(* the format asked for, if the target has it, or else its default one, and  *)
(* the calling convention.  Empty when one of the steps throws.              *)
MutSelections(text, asked) ==
  UNION {{[triple |-> d.triple, format |-> f, convention |-> c] :
            f \in IF asked = {} THEN {d.formats[1]} ELSE asked, c \in CallingConventions(d)} :
         d \in {d \in UNION {DescribeTarget(t) : t \in ParseTargetTriple(text)} :
                  d.readiness # "Planned"}}

Selections(text, asked) ==
  UNION {{[triple |-> d.triple, format |-> f, convention |-> c] :
            f \in {f \in IF asked = {} THEN {d.formats[1]} ELSE asked :
                     \E i \in DOMAIN d.formats : d.formats[i] = f},
            c \in CallingConventions(d)} :
         d \in {d \in UNION {DescribeTarget(t) : t \in ParseTargetTriple(text)} :
                  d.readiness # "Planned"}}
=============================================================================
