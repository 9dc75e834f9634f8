-------------------------------- MODULE Layout -------------------------------
(***************************************************************************)
(* Where the linker of backend_pe_x64.cpp puts things: the import table in *)
(* .idata (ImportTableBuilder), the sections of the link objects one after *)
(* another (linkObjects), the joined sections at their addresses in memory *)
(* and in the file, the written file (PeImage::buildImage), and the loader *)
(* that maps it and binds the imports.                                     *)
(*                                                                         *)
(* A section has a size and cells: what starts at which offset. Sizes and  *)
(* addresses are natural numbers, as the 32-bit fields of the code are as  *)
(* long as the image and the file stay below 4 GiB. Names are sequences of *)
(* tokens, each as long as one character.                                  *)
(***************************************************************************)
EXTENDS Scalars

CONSTANTS SectionAlignment, FileAlignment
ASSUME AlignmentAssumption ==
  /\ {SectionAlignment, FileAlignment} \subseteq Nat \ {0}
  /\ SectionAlignment % FileAlignment = 0

AlignUp(n, a) == ((n + a - 1) \div a) * a

EmptySection == [size |-> 0, cell |-> << >>]

Moved(cell, d) == [a \in {x + d : x \in DOMAIN cell} |-> cell[a - d]]

Over(cell, cell1) ==
  [a \in DOMAIN cell \union DOMAIN cell1 |-> IF a \in DOMAIN cell THEN cell[a] ELSE cell1[a]]

(* What is put at the end of a section.                                    *)
Joint(section, part) ==
  [size |-> section.size + part.size,
   cell |-> Over(section.cell, Moved(part.cell, section.size))]

(* Cells of a kind, for pairs of an offset and a value.                    *)
Filled(kind, pairs) ==
  [a \in {p[1] : p \in pairs} |-> <<kind, (CHOOSE p \in pairs : p[1] = a)[2]>>]

(* The sums of the first terms of a sequence.                              *)
Sums(terms) ==
  LET sum[i \in 0 .. Len(terms)] == IF i = 0 THEN 0 ELSE sum[i - 1] + terms[i]
  IN  sum

-----------------------------------------------------------------------------
(* The import table is a sequence of libraries [dll, functions].           *)
AddImport(table, dll, name) ==
  IF \E k \in DOMAIN table : table[k].dll = dll
  THEN [k \in DOMAIN table |->
          IF table[k].dll = dll /\ name \notin ToSet(table[k].functions)
          THEN [table[k] EXCEPT !.functions = Append(@, name)] ELSE table[k]]
  ELSE Append(table, [dll |-> dll, functions |-> <<name>>])

Imports(table) ==
  UNION {{<<table[k].dll, name>> : name \in ToSet(table[k].functions)} : k \in DOMAIN table}

TextSize(name) == Len(name) + 1
(* Mutant: no room for the null thunk that ends a list.                    *)
MutThunksSize(lib) == 8 * Len(lib.functions)
ThunksSize(lib) == 8 * (Len(lib.functions) + 1)
HintSizes(names) == [j \in DOMAIN names |-> 2 + TextSize(names[j])]
HintsSize(names) == Sums(HintSizes(names))[Len(names)]
LibrarySizes(table) ==
  [k \in DOMAIN table |->
     2 * ThunksSize(table[k]) + TextSize(table[k].dll) + HintsSize(table[k].functions)]

(* Offsets in .idata.  The descriptors are put down twice over, and the    *)
(* second copy stays empty.  A list of thunks ends with an empty one.      *)
DescriptorAt(k) == 20 * (k - 1)
LookupAt(table, k) == 2 * 20 * (Len(table) + 1) + Sums(LibrarySizes(table))[k - 1]
SlotsAt(table, k) == LookupAt(table, k) + ThunksSize(table[k])
LibraryNameAt(table, k) == SlotsAt(table, k) + ThunksSize(table[k])
HintAt(table, k, j) ==
  LibraryNameAt(table, k) + TextSize(table[k].dll) + Sums(HintSizes(table[k].functions))[j - 1]

Thunks(table) == UNION {{<<k, j>> : j \in DOMAIN table[k].functions} : k \in DOMAIN table}
SlotAt(table, t) == SlotsAt(table, t[1]) + 8 * (t[2] - 1)
Imported(table, t) == <<table[t[1]].dll, table[t[1]].functions[t[2]]>>

Strings(table) ==
  {<<LibraryNameAt(table, k), table[k].dll>> : k \in DOMAIN table}
  \union {<<HintAt(table, t[1], t[2]) + 2, Imported(table, t)[2]>> : t \in Thunks(table)}

Idata(table) ==
  [size |-> LookupAt(table, Len(table) + 1), cell |-> Filled("string", Strings(table))]

(* The offsets in the descriptors and the thunks, which become addresses   *)
(* once .idata has one.                                                    *)
Patches(table) ==
  (UNION {{<<DescriptorAt(k), LookupAt(table, k)>>, <<DescriptorAt(k) + 12, LibraryNameAt(table, k)>>,
           <<DescriptorAt(k) + 16, SlotsAt(table, k)>>} : k \in DOMAIN table})
  \union {<<LookupAt(table, t[1]) + 8 * (t[2] - 1), HintAt(table, t[1], t[2])>> : t \in Thunks(table)}
  \union {<<SlotAt(table, t), HintAt(table, t[1], t[2])>> : t \in Thunks(table)}

Patched(idata, table, rva) ==
  [size |-> idata.size,
   cell |-> Over(idata.cell, Filled("dword", {<<p[1], rva + p[2]>> : p \in Patches(table)}))]

-----------------------------------------------------------------------------
SectionNames == <<"text", "rdata", "idata">>

(* The section of that name, with what the first i objects have for it.    *)
Gathered(objects, name) ==
  LET gathered[i \in 0 .. Len(objects)] ==
        IF i = 0 THEN EmptySection
        ELSE LET before == gathered[i - 1]
             IN  IF objects[i].section = name THEN Joint(before, objects[i]) ELSE before
  IN  gathered

Joined(objects) ==
  [name \in ToSet(SectionNames) |-> Gathered(objects, name)[Len(objects)]]

(* Where the section of the i-th object starts in the section it joins.    *)
BaseOffset(objects, i) == Gathered(objects, objects[i].section)[i - 1].size

-----------------------------------------------------------------------------
(* Addresses.  The headers are 0x80 bytes for DOS, the signature, the COFF *)
(* and optional headers, and 40 bytes per section.                         *)
HeadersSize == AlignUp(128 + 4 + 20 + 240 + 40 * Len(SectionNames), FileAlignment)

(* The address for what follows a section.                                 *)
NextRva(rva, section) == AlignUp(rva + AlignUp(section.size, SectionAlignment), SectionAlignment)

Rvas(sections) ==
  LET text == AlignUp(HeadersSize, SectionAlignment)
      rdata == NextRva(text, sections["text"])
  IN  [text |-> text, rdata |-> rdata, idata |-> NextRva(rdata, sections["rdata"])]

(* Mutant: the size in the file is not rounded up.                         *)
MutRawSize(section) == section.size
RawSize(section) == AlignUp(section.size, FileAlignment)

RawOffsets(sections) ==
  LET rdata == HeadersSize + RawSize(sections["text"])
  IN  [text |-> HeadersSize, rdata |-> rdata, idata |-> rdata + RawSize(sections["rdata"])]

SectionHeaders(sections, rvas) ==
  [n \in DOMAIN SectionNames |->
     LET name == SectionNames[n]
     IN  [name |-> name, rva |-> rvas[name], virtualSize |-> sections[name].size,
          raw |-> RawOffsets(sections)[name], rawSize |-> RawSize(sections[name])]]

ImageSize(sections, rvas) == NextRva(rvas["idata"], sections["idata"])

(* The written bytes: the headers, then the padded sections in order.      *)
WrittenBytes(sections) ==
  LET padded(bytes, name) ==
        Joint(bytes, [size |-> RawSize(sections[name]), cell |-> sections[name].cell])
      headers == [size |-> HeadersSize, cell |-> << >>]
  IN  padded(padded(padded(headers, "text"), "rdata"), "idata")

-----------------------------------------------------------------------------
(* The Windows loader: the bytes of each section at its address, and the   *)
(* slots of the import table bound to the functions its names call for.    *)
Mapped(headers, cell) ==
  LET part(s) == {a \in DOMAIN cell : s.raw <= a /\ a < s.raw + s.rawSize}
      places == UNION {{s.rva + (a - s.raw) : a \in part(s)} : s \in ToSet(headers)}
      holder(p) == CHOOSE s \in ToSet(headers) : s.rva <= p /\ p < s.rva + s.rawSize
  IN  [p \in places |-> cell[holder(p).raw + (p - holder(p).rva)]]

DwordAt(memory, a) ==
  IF a \in DOMAIN memory /\ memory[a][1] = "dword" THEN memory[a][2] ELSE 0
NameAt(memory, a) ==
  IF a \in DOMAIN memory /\ memory[a][1] = "string" THEN memory[a][2] ELSE <<"?">>

Bound(memory, import) ==
  LET field(k, f) == DwordAt(memory, import.rva + 20 * k + f)
      limit == import.size \div 8
      descriptors == {k \in 0 .. limit : \A i \in 0 .. k : field(i, 12) # 0}
      thunk(k, j) == DwordAt(memory, field(k, 0) + 8 * j)
      thunks(k) == {j \in 0 .. limit : \A i \in 0 .. j : thunk(k, i) # 0}
      pairs == UNION {{<<k, j>> : j \in thunks(k)} : k \in descriptors}
  IN  {[slot |-> field(p[1], 16) + 8 * p[2],
        import |-> <<NameAt(memory, field(p[1], 12)), NameAt(memory, thunk(p[1], p[2]) + 2)>>] :
         p \in pairs}

-----------------------------------------------------------------------------
(* The headers give the sections aligned places, apart in memory and in    *)
(* the file, after the headers and within the image and the file.          *)
Apart(from, size, from1, size1) == from + size <= from1 \/ from1 + size1 <= from

LaidOut(headers, imageSize, fileSize) ==
  /\ \A s \in ToSet(headers) :
       /\ s.rva % SectionAlignment = 0 /\ s.rva >= HeadersSize
       /\ s.raw % FileAlignment = 0 /\ s.rawSize % FileAlignment = 0
       /\ s.raw >= HeadersSize /\ s.raw + s.rawSize <= fileSize
       /\ s.virtualSize <= s.rawSize /\ s.rva + s.rawSize <= imageSize
  /\ \A s, t \in ToSet(headers) :
       s # t => /\ Apart(s.rva, s.rawSize, t.rva, t.rawSize)
                /\ Apart(s.raw, s.rawSize, t.raw, t.rawSize)

(* What the sections hold is found in the file where the headers say, and  *)
(* nowhere past their sizes.                                               *)
FoundInFile(headers, cell, sections) ==
  \A s \in ToSet(headers) : \A a \in DOMAIN sections[s.name].cell :
    /\ a < s.virtualSize
    /\ s.raw + a \in DOMAIN cell
    /\ cell[s.raw + a] = sections[s.name].cell[a]

(* It is in memory at the addresses of the sections, and nothing else is.  *)
FoundInMemory(memory, sections, rvas) ==
  /\ DOMAIN memory = UNION {{rvas[name] + a : a \in DOMAIN sections[name].cell} :
                             name \in DOMAIN sections}
  /\ \A name \in DOMAIN sections : \A a \in DOMAIN sections[name].cell :
       memory[rvas[name] + a] = sections[name].cell[a]
=============================================================================
