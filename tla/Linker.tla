-------------------------------- MODULE Linker -------------------------------
(***************************************************************************)
(* The linker of backend_pe_x64.cpp (ImportTableBuilder, PeImage): the     *)
(* symbols of the import table, the split into link objects, symbol        *)
(* resolution, relocations, the headers, and the written image with its    *)
(* self-check. Layout has what is put where.                               *)
(*                                                                         *)
(* The code generator only asks for 32-bit displacements, so there is no   *)
(* .reloc section; the image base is 0.                                    *)
(***************************************************************************)
EXTENDS CodeGen

-----------------------------------------------------------------------------
(* The symbols of the import table.                                        *)
ThunkLabel(table, t) == ImportLabel(Imported(table, t)[1], Imported(table, t)[2])

(* defineLabel throws on the second slot with a label.                     *)
LabelsClash(table) ==
  \E s, t \in Thunks(table) : s # t /\ ThunkLabel(table, s) = ThunkLabel(table, t)

ImportSymbols(table) ==
  {[name |-> ThunkLabel(table, t), section |-> "idata", offset |-> SlotAt(table, t),
    visibility |-> "import", import |-> Imported(table, t)] :
     t \in Thunks(table)}

-----------------------------------------------------------------------------
(* A link object has one section: [section, size, cell, symbols,           *)
(* relocations], with sets of symbols and relocations.                     *)
TextStarts(o) ==
  SetToSortSeq({s.offset : s \in {s \in ToSet(o.symbols) :
                                    s.section = "text" /\ s.visibility = "global"}},
               LAMBDA a, b : a < b)

TextPiece(o, from, to) ==
  LET inside(a) == from <= a /\ a < to
      here(x) == x.section = "text"
  IN  [section |-> "text", size |-> to - from,
       cell |-> Moved([a \in {x \in DOMAIN o.text.cell : inside(x)} |-> o.text.cell[a]], -from),
       symbols |-> {[s EXCEPT !.offset = @ - from] :
                      s \in {s \in ToSet(o.symbols) : here(s) /\ inside(s.offset)}},
       relocations |-> {[r EXCEPT !.at = @ - from] :
                          r \in {r \in ToSet(o.relocations) : here(r) /\ inside(r.at)}}]

DataPiece(o, name, section, symbols) ==
  [section |-> name, size |-> section.size, cell |-> section.cell,
   symbols |-> {s \in symbols : s.section = name},
   relocations |-> {r \in ToSet(o.relocations) : r.section = name}]

SplitIntoLinkObjects(o, table) ==
  LET starts == TextStarts(o)
      end(k) == IF k < Len(starts) THEN starts[k + 1] ELSE o.text.size
  IN  (IF starts = << >> THEN <<TextPiece(o, 0, o.text.size)>>
       ELSE [k \in DOMAIN starts |-> TextPiece(o, starts[k], end(k))])
      \o <<DataPiece(o, "rdata", o.rdata, ToSet(o.symbols)),
           DataPiece(o, "idata", Idata(table), ImportSymbols(table))>>

(* The symbols of all objects, at their offsets in the joined sections.    *)
ResolvedSymbols(objects) ==
  UNION {{[object |-> i, name |-> s.name, section |-> s.section,
           offset |-> BaseOffset(objects, i) + s.offset, visibility |-> s.visibility,
           import |-> s.import] : s \in objects[i].symbols} : i \in DOMAIN objects}

IsLocal(s) == s.visibility = "local"

(* Two locals of an object, or two exported symbols that are not the same  *)
(* import, must not share their name.                                      *)
DuplicateSymbols(resolved) ==
  \E s, t \in resolved :
    /\ s # t /\ s.name = t.name /\ IsLocal(s) = IsLocal(t)
    /\ IF IsLocal(s) THEN s.object = t.object
       ELSE s.import = NoImport \/ s.import # t.import

(* A relocation of object i means a local of that object, else an exported *)
(* symbol, else the one local that any object has under that name.         *)
CandidatesFor(resolved, i, name) ==
  LET named == {s \in resolved : s.name = name}
      own == {s \in named : IsLocal(s) /\ s.object = i}
      exported == {s \in named : ~IsLocal(s)}
  IN  IF own # {} THEN own ELSE IF exported # {} THEN exported ELSE named

(* Mutant: the offset of a relocation stays relative to its object.        *)
MutRelocationJobs(objects, resolved) ==
  UNION {{[section |-> r.section, at |-> r.at, targets |-> CandidatesFor(resolved, i, r.target)] :
            r \in objects[i].relocations} : i \in DOMAIN objects}

RelocationJobs(objects, resolved) ==
  UNION {{[section |-> r.section, at |-> BaseOffset(objects, i) + r.at,
           targets |-> CandidatesFor(resolved, i, r.target)] : r \in objects[i].relocations} :
           i \in DOMAIN objects}

JobError(jobs) ==
  IF \E j \in jobs : j.targets = {} THEN "undefined symbol"
  ELSE IF \E j \in jobs : Cardinality({t.object : t \in j.targets}) > 1 THEN "ambiguous symbol"
  ELSE "none"

-----------------------------------------------------------------------------
Displacement(job, rvas) ==
  LET target == CHOOSE t \in job.targets : TRUE
  IN  rvas[target.section] + target.offset - (rvas[job.section] + job.at + 4)

Relocated(sections, jobs, rvas) ==
  [name \in DOMAIN sections |->
     LET here == {j \in jobs : j.section = name}
     IN  [sections[name] EXCEPT !.cell =
            @ @@ [a \in {j.at : j \in here} |->
                    <<"disp", Displacement(CHOOSE j \in here : j.at = a, rvas)>>]]]

(* The linked image: its sections and what else the headers say.           *)
Headers(sections, rvas, resolved, table) ==
  LET entry == {s \in resolved : ~IsLocal(s) /\ s.name = Entry}
      slots == {SlotAt(table, t) : t \in Thunks(table)}
  IN  [sections |-> SectionHeaders(sections, rvas),
       size |-> ImageSize(sections, rvas),
       entry |-> {rvas[s.section] + s.offset : s \in entry},
       import |-> [rva |-> rvas["idata"], size |-> sections["idata"].size],
       iat |-> [rva |-> rvas["idata"] + Min(slots), size |-> Max(slots) + 8 - Min(slots)]]

(* The written file: the headers, then the padded sections in their order. *)
WrittenFile(headers, sections) ==
  LET bytes == WrittenBytes(sections)
  IN  [headers |-> headers, size |-> bytes.size, cell |-> bytes.cell]

(* validatePeExecutablePayload on a file of ours.                          *)
RvaInSection(rva, s) ==
  s.rva <= rva /\ rva < s.rva + Max({s.virtualSize, s.rawSize, 1})

SelfCheck(file) ==
  LET s == file.headers.sections
      called(name) == {h \in ToSet(s) : h.name = name}
  IN  /\ Len(s) >= 3
      /\ file.headers.import.rva # 0 /\ file.headers.import.size # 0
      /\ \A k \in DOMAIN s : s[k].rawSize > 0 => s[k].raw + s[k].rawSize <= file.size
      /\ \A e \in file.headers.entry : \E h \in called("text") : RvaInSection(e, h)
      /\ \E h \in called("idata") : RvaInSection(file.headers.import.rva, h)

-----------------------------------------------------------------------------
(* The bytes of the string constants, as the program reads them.           *)
ConstantBytes(memory) ==
  FoldSet(LAMBDA a, mem : PutBytes(mem, a, Append(memory[a][2], 0)), << >>,
          {a \in DOMAIN memory : memory[a][1] = "string"})
=============================================================================
