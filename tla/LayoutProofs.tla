---------------------------- MODULE LayoutProofs -----------------------------
(***************************************************************************)
(* Proofs about Layout, for sections, link objects and import tables of    *)
(* every size and number and for all alignments: what the objects hold is  *)
(* found in the joined sections, in the file and in the loaded image, once *)
(* and where the base offsets, the headers and the addresses say; and the  *)
(* loader finds in the import table what was asked for.                    *)
(***************************************************************************)
EXTENDS Layout, SequenceLemmas

(* What a section holds starts inside of it.                               *)
Fits(s) == s.size \in Nat /\ DOMAIN s.cell \subseteq 0 .. s.size - 1

AllFit(sections) ==
  DOMAIN sections = ToSet(SectionNames) /\ \A name \in ToSet(SectionNames) : Fits(sections[name])

-----------------------------------------------------------------------------
(* AlignUp returns the least multiple that is not smaller.                 *)
LEMMA AlignUpFacts ==
  ASSUME NEW n \in Nat, NEW a \in Nat \ {0}
  PROVE  /\ AlignUp(n, a) \in Nat
         /\ AlignUp(n, a) >= n
         /\ AlignUp(n, a) % a = 0
<1>1. AlignUp(n, a) \in Nat
  BY DEF AlignUp
<1>2. AlignUp(n, a) >= n
  BY DEF AlignUp
<1>3. AlignUp(n, a) % a = 0
  BY DEF AlignUp
<1> QED
  BY <1>1, <1>2, <1>3

LEMMA Multiple ==
  ASSUME NEW m \in Nat, NEW a \in Nat \ {0}, m % a = 0
  PROVE  \E q \in Nat : m = q * a
<1>1. m = a * (m \div a) + (m % a)
  OBVIOUS
<1>2. m \div a \in Nat
  OBVIOUS
<1> QED
  BY <1>1, <1>2

LEMMA MultipleOf ==
  ASSUME NEW q \in Nat, NEW a \in Nat \ {0}
  PROVE  (q * a) % a = 0
OBVIOUS

LEMMA AlignUpLeast ==
  ASSUME NEW n \in Nat, NEW a \in Nat \ {0}, NEW m \in Nat, m % a = 0, n <= m
  PROVE  AlignUp(n, a) <= m
<1>1. PICK q \in Nat : m = q * a
  BY Multiple
<1> DEFINE p == (n + a - 1) \div a
<1>2. p \in Nat /\ p * a <= n + a - 1
  OBVIOUS
<1>3. AlignUp(n, a) = p * a
  BY DEF AlignUp
<1> HIDE DEF p
<1>4. p * a < (q + 1) * a
  BY <1>1, <1>2
<1>5. p < q + 1
  BY <1>2, <1>4
<1>6. p * a <= q * a
  BY <1>2, <1>5
<1> QED
  BY <1>1, <1>3, <1>6

(* In the file a section takes no more room than in memory.                *)
LEMMA FileInMemory ==
  ASSUME NEW n \in Nat
  PROVE  AlignUp(n, FileAlignment) <= AlignUp(n, SectionAlignment)
<1> DEFINE F == FileAlignment
<1> DEFINE S == SectionAlignment
<1> DEFINE m == AlignUp(n, S)
<1>1. F \in Nat \ {0} /\ S \in Nat \ {0} /\ S % F = 0
  BY AlignmentAssumption
<1> HIDE DEF F, S
<1>2. m \in Nat /\ m >= n /\ m % S = 0
  BY <1>1, AlignUpFacts
<1> HIDE DEF m
<1>3. PICK k \in Nat : S = k * F
  BY <1>1, Multiple
<1>4. PICK q \in Nat : m = q * S
  BY <1>1, <1>2, Multiple
<1>5. m = (q * k) * F /\ q * k \in Nat
  BY <1>1, <1>3, <1>4
<1>6. m % F = 0
  BY <1>1, <1>5, MultipleOf
<1>7. AlignUp(n, F) <= m
  BY <1>1, <1>2, <1>6, AlignUpLeast
<1> QED
  BY <1>7 DEF m, F, S

-----------------------------------------------------------------------------
(* The sections and the alignments.                                        *)
LEMMA Given ==
  /\ ToSet(SectionNames) = {"text", "rdata", "idata"}
  /\ DOMAIN SectionNames = {1, 2, 3} /\ Len(SectionNames) = 3
  /\ SectionNames[1] = "text" /\ SectionNames[2] = "rdata" /\ SectionNames[3] = "idata"
  /\ FileAlignment \in Nat \ {0} /\ SectionAlignment \in Nat \ {0}
  /\ HeadersSize \in Nat /\ HeadersSize % FileAlignment = 0 /\ HeadersSize > 0
<1>1. /\ DOMAIN SectionNames = {1, 2, 3} /\ Len(SectionNames) = 3
      /\ SectionNames[1] = "text" /\ SectionNames[2] = "rdata" /\ SectionNames[3] = "idata"
  BY DEF SectionNames
<1>2. ToSet(SectionNames) = {"text", "rdata", "idata"}
  BY <1>1 DEF ToSet
<1>3. FileAlignment \in Nat \ {0} /\ SectionAlignment \in Nat \ {0}
  BY AlignmentAssumption
<1>4. HeadersSize \in Nat /\ HeadersSize % FileAlignment = 0 /\ HeadersSize > 0
  <2>1. /\ 128 + 4 + 20 + 240 + 40 * Len(SectionNames) \in Nat
        /\ 128 + 4 + 20 + 240 + 40 * Len(SectionNames) > 0
    BY <1>1
  <2> DEFINE n == 128 + 4 + 20 + 240 + 40 * Len(SectionNames)
  <2>2. HeadersSize = AlignUp(n, FileAlignment)
    BY DEF HeadersSize
  <2>3. n \in Nat /\ n > 0
    BY <2>1
  <2> HIDE DEF n
  <2>4. /\ AlignUp(n, FileAlignment) \in Nat
        /\ AlignUp(n, FileAlignment) >= n
        /\ AlignUp(n, FileAlignment) % FileAlignment = 0
    BY <1>3, <2>3, AlignUpFacts
  <2> QED
    BY <2>2, <2>3, <2>4
<1> QED
  BY <1>1, <1>2, <1>3, <1>4

(* Sums of multiples are multiples.                                        *)
LEMMA SumOfMultiples ==
  ASSUME NEW m \in Nat, NEW n \in Nat, NEW a \in Nat \ {0}, m % a = 0, n % a = 0
  PROVE  (m + n) % a = 0
<1>1. PICK p \in Nat : m = p * a
  BY Multiple
<1>2. PICK q \in Nat : n = q * a
  BY Multiple
<1>3. m + n = (p + q) * a /\ p + q \in Nat
  BY <1>1, <1>2
<1> QED
  BY <1>3, MultipleOf

(* The next address leaves room for the section as it is in the file.      *)
LEMMA NextRvaFacts ==
  ASSUME NEW rva \in Nat, NEW s, s.size \in Nat
  PROVE  /\ NextRva(rva, s) \in Nat
         /\ NextRva(rva, s) % SectionAlignment = 0
         /\ rva + RawSize(s) <= NextRva(rva, s)
<1> DEFINE n == AlignUp(s.size, SectionAlignment)
<1>1. n \in Nat /\ SectionAlignment \in Nat \ {0} /\ FileAlignment \in Nat \ {0}
  BY Given, AlignUpFacts
<1>2. RawSize(s) <= n /\ RawSize(s) \in Nat
  BY <1>1, FileInMemory, AlignUpFacts DEF RawSize
<1>3. NextRva(rva, s) = AlignUp(rva + n, SectionAlignment)
  BY DEF NextRva
<1> HIDE DEF n
<1>4. /\ AlignUp(rva + n, SectionAlignment) \in Nat
      /\ AlignUp(rva + n, SectionAlignment) >= rva + n
      /\ AlignUp(rva + n, SectionAlignment) % SectionAlignment = 0
  <2>1. rva + n \in Nat
    BY <1>1
  <2> QED
    BY <1>1, <2>1, AlignUpFacts
<1> QED
  BY <1>1, <1>2, <1>3, <1>4

(* Where the sections are.                                                 *)
LEMMA RvaFacts ==
  ASSUME NEW sections, AllFit(sections)
  PROVE  LET rvas == Rvas(sections)
         IN  /\ \A name \in ToSet(SectionNames) :
                  /\ rvas[name] \in Nat /\ rvas[name] >= HeadersSize
                  /\ rvas[name] % SectionAlignment = 0
             /\ rvas["text"] + RawSize(sections["text"]) <= rvas["rdata"]
             /\ rvas["rdata"] + RawSize(sections["rdata"]) <= rvas["idata"]
             /\ rvas["idata"] + RawSize(sections["idata"]) <= ImageSize(sections, rvas)
             /\ ImageSize(sections, rvas) \in Nat
<1> DEFINE t == AlignUp(HeadersSize, SectionAlignment)
<1> DEFINE r == NextRva(t, sections["text"])
<1> DEFINE i == NextRva(r, sections["rdata"])
<1> DEFINE rvas == Rvas(sections)
<1>1. /\ sections["text"].size \in Nat
      /\ sections["rdata"].size \in Nat
      /\ sections["idata"].size \in Nat
  BY Given DEF AllFit, Fits
<1>2. \A name \in ToSet(SectionNames) : RawSize(sections[name]) \in Nat
  BY <1>1, Given, AlignUpFacts DEF RawSize
<1>3. t \in Nat /\ t >= HeadersSize /\ t % SectionAlignment = 0
  BY Given, AlignUpFacts
<1>4. rvas["text"] = t /\ rvas["rdata"] = r /\ rvas["idata"] = i
  BY DEF Rvas
<1>5. ImageSize(sections, rvas) = NextRva(i, sections["idata"])
  BY <1>4 DEF ImageSize
<1> HIDE DEF t, rvas
<1>6. r \in Nat /\ r % SectionAlignment = 0 /\ t + RawSize(sections["text"]) <= r
  BY <1>1, <1>3, NextRvaFacts
<1> HIDE DEF r
<1>7. i \in Nat /\ i % SectionAlignment = 0 /\ r + RawSize(sections["rdata"]) <= i
  BY <1>1, <1>6, NextRvaFacts
<1> HIDE DEF i
<1>8. /\ NextRva(i, sections["idata"]) \in Nat
      /\ i + RawSize(sections["idata"]) <= NextRva(i, sections["idata"])
  BY <1>1, <1>7, NextRvaFacts
<1>9. r >= HeadersSize /\ i >= HeadersSize
  BY <1>2, <1>3, <1>6, <1>7, Given
<1> QED
  BY <1>3, <1>4, <1>5, <1>6, <1>7, <1>8, <1>9, Given DEF rvas

(* Where they are in the file, and what is written there.                  *)
LEMMA RawFacts ==
  ASSUME NEW sections, AllFit(sections)
  PROVE  LET raws == RawOffsets(sections)
         IN  /\ raws["text"] = HeadersSize
             /\ raws["rdata"] = raws["text"] + RawSize(sections["text"])
             /\ raws["idata"] = raws["rdata"] + RawSize(sections["rdata"])
             /\ WrittenBytes(sections).size = raws["idata"] + RawSize(sections["idata"])
             /\ \A name \in ToSet(SectionNames) :
                  /\ raws[name] \in Nat /\ raws[name] >= HeadersSize
                  /\ raws[name] % FileAlignment = 0
                  /\ RawSize(sections[name]) \in Nat
                  /\ RawSize(sections[name]) % FileAlignment = 0
                  /\ sections[name].size <= RawSize(sections[name])
<1> DEFINE t == RawSize(sections["text"])
<1> DEFINE r == RawSize(sections["rdata"])
<1> DEFINE i == RawSize(sections["idata"])
<1> DEFINE raws == RawOffsets(sections)
<1>1. \A name \in ToSet(SectionNames) : sections[name].size \in Nat
  BY DEF AllFit, Fits
<1>2. \A name \in ToSet(SectionNames) :
        /\ RawSize(sections[name]) \in Nat
        /\ RawSize(sections[name]) % FileAlignment = 0
        /\ sections[name].size <= RawSize(sections[name])
  BY <1>1, Given, AlignUpFacts DEF RawSize
<1>3. /\ t \in Nat /\ t % FileAlignment = 0
      /\ r \in Nat /\ r % FileAlignment = 0
      /\ i \in Nat /\ i % FileAlignment = 0
  BY <1>2, Given
<1>4. /\ raws["text"] = HeadersSize
      /\ raws["rdata"] = HeadersSize + t
      /\ raws["idata"] = HeadersSize + t + r
  BY DEF RawOffsets
<1>5. WrittenBytes(sections).size = HeadersSize + t + r + i
  BY DEF WrittenBytes, Joint
<1> HIDE DEF t, r, i, raws
<1> DEFINE u == HeadersSize + t
<1>6. u \in Nat /\ u % FileAlignment = 0
  <2>1. u \in Nat
    BY <1>3, Given
  <2>2. u % FileAlignment = 0
    BY <1>3, Given, SumOfMultiples
  <2> QED
    BY <2>1, <2>2
<1> HIDE DEF u
<1>7. u + r \in Nat /\ (u + r) % FileAlignment = 0
  <2>1. u + r \in Nat
    BY <1>3, <1>6
  <2>2. (u + r) % FileAlignment = 0
    BY <1>3, <1>6, Given, SumOfMultiples
  <2> QED
    BY <2>1, <2>2
<1>8. \A name \in ToSet(SectionNames) :
        /\ raws[name] \in Nat /\ raws[name] >= HeadersSize
        /\ raws[name] % FileAlignment = 0
  <2>1. raws["rdata"] = u /\ raws["idata"] = u + r
    BY <1>4 DEF u
  <2>2. u >= HeadersSize /\ u + r >= HeadersSize
    BY <1>3, Given DEF u
  <2> QED
    BY <1>4, <1>6, <1>7, <2>1, <2>2, Given
<1> QED
  BY <1>2, <1>4, <1>5, <1>8 DEF t, r, i, raws

-----------------------------------------------------------------------------
(* The headers, one by one.                                                *)
LEMMA HeaderOf ==
  ASSUME NEW sections, NEW s \in ToSet(SectionHeaders(sections, Rvas(sections)))
  PROVE  /\ s.name \in ToSet(SectionNames)
         /\ s.rva = Rvas(sections)[s.name]
         /\ s.virtualSize = sections[s.name].size
         /\ s.raw = RawOffsets(sections)[s.name]
         /\ s.rawSize = RawSize(sections[s.name])
<1> DEFINE headers == SectionHeaders(sections, Rvas(sections))
<1> DEFINE header(name) ==
      [name |-> name, rva |-> Rvas(sections)[name], virtualSize |-> sections[name].size,
       raw |-> RawOffsets(sections)[name], rawSize |-> RawSize(sections[name])]
<1>1. headers = [n \in DOMAIN SectionNames |-> header(SectionNames[n])]
  BY DEF SectionHeaders
<1>2. PICK n \in DOMAIN SectionNames : s = header(SectionNames[n])
  <2>1. PICK n \in DOMAIN headers : s = headers[n]
    BY DEF ToSet
  <2> HIDE DEF headers, header
  <2> QED
    BY <1>1, <2>1
<1>3. SectionNames[n] \in ToSet(SectionNames)
  BY <1>2 DEF ToSet
<1> QED
  BY <1>2, <1>3

(* There is one for each name, and one only.                               *)
LEMMA SameHeader ==
  ASSUME NEW sections,
         NEW s \in ToSet(SectionHeaders(sections, Rvas(sections))),
         NEW t \in ToSet(SectionHeaders(sections, Rvas(sections))), s.name = t.name
  PROVE  s = t
<1> DEFINE headers == SectionHeaders(sections, Rvas(sections))
<1> DEFINE header(name) ==
      [name |-> name, rva |-> Rvas(sections)[name], virtualSize |-> sections[name].size,
       raw |-> RawOffsets(sections)[name], rawSize |-> RawSize(sections[name])]
<1>1. headers = [n \in DOMAIN SectionNames |-> header(SectionNames[n])]
  BY DEF SectionHeaders
<1>2. \A h \in ToSet(headers) : \E n \in DOMAIN SectionNames : h = header(SectionNames[n])
  <2> SUFFICES ASSUME NEW h \in ToSet(headers)
               PROVE  \E n \in DOMAIN SectionNames : h = header(SectionNames[n])
    OBVIOUS
  <2>1. PICK n \in DOMAIN headers : h = headers[n]
    BY DEF ToSet
  <2> HIDE DEF headers, header
  <2> QED
    BY <1>1, <2>1
<1>3. \A h \in ToSet(headers) : h = header(h.name)
  BY <1>2
<1> HIDE DEF headers, header
<1> QED
  BY <1>3 DEF headers

LEMMA HeaderFor ==
  ASSUME NEW sections, NEW name \in ToSet(SectionNames)
  PROVE  \E s \in ToSet(SectionHeaders(sections, Rvas(sections))) : s.name = name
<1> DEFINE headers == SectionHeaders(sections, Rvas(sections))
<1>1. PICK n \in DOMAIN SectionNames : name = SectionNames[n]
  BY DEF ToSet
<1>2. n \in DOMAIN headers /\ headers[n].name = name
  BY <1>1 DEF SectionHeaders
<1>3. headers[n] \in ToSet(headers)
  BY <1>2 DEF ToSet
<1> HIDE DEF headers
<1> QED
  BY <1>2, <1>3 DEF headers

(* The layout the linker gives the sections keeps them apart, aligned, and *)
(* within the image and the file, whatever their sizes (below 4 GiB):      *)
(* linkObjects and buildImage never let one section run into the next.     *)
THEOREM SectionsAreLaidOut ==
  ASSUME NEW sections, AllFit(sections)
  PROVE  LaidOut(SectionHeaders(sections, Rvas(sections)), ImageSize(sections, Rvas(sections)),
                 WrittenBytes(sections).size)
<1> DEFINE headers == SectionHeaders(sections, Rvas(sections))
<1> DEFINE rvas == Rvas(sections)
<1> DEFINE raws == RawOffsets(sections)
<1> DEFINE imageSize == ImageSize(sections, rvas)
<1> DEFINE fileSize == WrittenBytes(sections).size
<1> DEFINE size(name) == RawSize(sections[name])
<1>1. \A s \in ToSet(headers) :
        /\ s.name \in {"text", "rdata", "idata"}
        /\ s.rva = rvas[s.name] /\ s.virtualSize = sections[s.name].size
        /\ s.raw = raws[s.name] /\ s.rawSize = size(s.name)
  BY HeaderOf, Given
<1>2. /\ \A name \in {"text", "rdata", "idata"} :
            /\ rvas[name] \in Nat /\ rvas[name] >= HeadersSize
            /\ rvas[name] % SectionAlignment = 0
      /\ rvas["text"] + size("text") <= rvas["rdata"]
      /\ rvas["rdata"] + size("rdata") <= rvas["idata"]
      /\ rvas["idata"] + size("idata") <= imageSize
      /\ imageSize \in Nat
  BY RvaFacts, Given
<1>3. /\ raws["text"] = HeadersSize
      /\ raws["rdata"] = raws["text"] + size("text")
      /\ raws["idata"] = raws["rdata"] + size("rdata")
      /\ fileSize = raws["idata"] + size("idata")
      /\ \A name \in {"text", "rdata", "idata"} :
           /\ raws[name] \in Nat /\ raws[name] >= HeadersSize
           /\ raws[name] % FileAlignment = 0
           /\ size(name) \in Nat
           /\ size(name) % FileAlignment = 0
           /\ sections[name].size <= size(name)
  BY RawFacts, Given
<1> HIDE DEF headers, rvas, raws, imageSize, fileSize, size
<1>4. \A name \in {"text", "rdata", "idata"} :
        rvas[name] + size(name) <= imageSize /\ raws[name] + size(name) <= fileSize
  BY <1>2, <1>3
<1>5. \A x, y \in {"text", "rdata", "idata"} :
        x # y => /\ Apart(rvas[x], size(x), rvas[y], size(y))
                 /\ Apart(raws[x], size(x), raws[y], size(y))
  BY <1>2, <1>3 DEF Apart
<1>6. \A s, t \in ToSet(headers) : s # t => s.name # t.name
  BY SameHeader DEF headers
<1>7. ASSUME NEW s \in ToSet(headers)
      PROVE  /\ s.rva % SectionAlignment = 0 /\ s.rva >= HeadersSize
             /\ s.raw % FileAlignment = 0 /\ s.rawSize % FileAlignment = 0
             /\ s.raw >= HeadersSize /\ s.raw + s.rawSize <= fileSize
             /\ s.virtualSize <= s.rawSize /\ s.rva + s.rawSize <= imageSize
  <2> DEFINE name == s.name
  <2>1. /\ name \in {"text", "rdata", "idata"}
        /\ s.rva = rvas[name] /\ s.virtualSize = sections[name].size
        /\ s.raw = raws[name] /\ s.rawSize = size(name)
    BY <1>1, <1>7
  <2> HIDE DEF name
  <2> QED
    BY <1>2, <1>3, <1>4, <2>1
<1>8. ASSUME NEW s \in ToSet(headers), NEW t \in ToSet(headers), s # t
      PROVE  /\ Apart(s.rva, s.rawSize, t.rva, t.rawSize)
             /\ Apart(s.raw, s.rawSize, t.raw, t.rawSize)
  <2> DEFINE x == s.name
  <2> DEFINE y == t.name
  <2>1. /\ x \in {"text", "rdata", "idata"} /\ y \in {"text", "rdata", "idata"}
        /\ s.rva = rvas[x] /\ s.raw = raws[x] /\ s.rawSize = size(x)
        /\ t.rva = rvas[y] /\ t.raw = raws[y] /\ t.rawSize = size(y)
    BY <1>1
  <2>2. x # y
    BY <1>6, <1>8
  <2> HIDE DEF x, y
  <2> QED
    BY <1>5, <2>1, <2>2
<1> QED
  BY <1>7, <1>8 DEF LaidOut, headers, rvas, imageSize, fileSize

-----------------------------------------------------------------------------
(* What joining two sections holds, and where.                             *)
LEMMA JointFacts ==
  ASSUME NEW s, NEW p, Fits(s), Fits(p)
  PROVE  LET j == Joint(s, p)
         IN  /\ Fits(j) /\ j.size = s.size + p.size
             /\ \A a \in DOMAIN s.cell : a \in DOMAIN j.cell /\ j.cell[a] = s.cell[a]
             /\ \A a \in DOMAIN p.cell : /\ s.size + a \in DOMAIN j.cell
                                         /\ j.cell[s.size + a] = p.cell[a]
             /\ \A a \in DOMAIN j.cell : IF a < s.size THEN a \in DOMAIN s.cell
                                        ELSE a - s.size \in DOMAIN p.cell
<1> DEFINE d == s.size
<1> DEFINE m == Moved(p.cell, d)
<1> DEFINE j == Joint(s, p)
<1> DEFINE S == DOMAIN s.cell
<1> DEFINE P == DOMAIN p.cell
<1>1. d \in Nat /\ p.size \in Nat /\ S \subseteq 0 .. d - 1 /\ P \subseteq 0 .. p.size - 1
  BY DEF Fits
<1>2. /\ DOMAIN m = {x + d : x \in P}
      /\ \A a \in DOMAIN m : m[a] = p.cell[a - d]
  BY DEF Moved
<1>3. /\ j.size = d + p.size
      /\ DOMAIN j.cell = S \union DOMAIN m
      /\ \A a \in S \union DOMAIN m :
           j.cell[a] = IF a \in S THEN s.cell[a] ELSE m[a]
  BY DEF Joint, Over
<1> HIDE DEF d, m, j, S, P
<1>4. DOMAIN m \subseteq d .. d + p.size - 1
  BY <1>1, <1>2
<1>5. S \union DOMAIN m \subseteq 0 .. d + p.size - 1
  <2>1. \A a \in 0 .. d - 1 : a \in 0 .. d + p.size - 1
    BY <1>1
  <2>2. \A a \in d .. d + p.size - 1 : a \in 0 .. d + p.size - 1
    BY <1>1
  <2> QED
    BY <1>1, <1>4, <2>1, <2>2
<1>6. j.size \in Nat /\ DOMAIN j.cell \subseteq 0 .. j.size - 1
  BY <1>1, <1>3, <1>5
<1>7. \A a \in S : a \in DOMAIN j.cell /\ j.cell[a] = s.cell[a]
  BY <1>3
<1>8. ASSUME NEW a \in P
      PROVE  d + a \in DOMAIN j.cell /\ j.cell[d + a] = p.cell[a]
  <2>1. a \in Nat /\ d + a = a + d /\ (d + a) - d = a /\ d + a >= d
    BY <1>1
  <2>2. d + a \in DOMAIN m
    BY <1>2, <2>1
  <2>3. d + a \notin S
    BY <1>1, <2>1
  <2>4. j.cell[d + a] = m[d + a]
    BY <1>3, <2>2, <2>3
  <2> QED
    BY <1>2, <1>3, <2>1, <2>2, <2>4
<1>9. ASSUME NEW a \in DOMAIN j.cell
      PROVE  IF a < d THEN a \in S ELSE a - d \in P
  <2>1. CASE a \in S
    <3>1. a < d
      BY <1>1, <2>1
    <3> QED
      BY <2>1, <3>1
  <2>2. CASE a \in DOMAIN m
    <3>1. PICK x \in P : a = x + d
      BY <1>2, <2>2
    <3>2. ~(a < d) /\ a - d = x
      BY <1>1, <3>1
    <3> QED
      BY <3>1, <3>2
  <2> QED
    BY <1>3, <2>1, <2>2
<1> QED
  BY <1>3, <1>6, <1>7, <1>8, <1>9 DEF Fits, d, j, S, P

(* What the file holds and where.                                          *)
LEMMA FileFacts ==
  ASSUME NEW sections, AllFit(sections)
  PROVE  LET cell == WrittenBytes(sections).cell
             raws == RawOffsets(sections)
         IN  /\ DOMAIN cell \subseteq Nat
             /\ \A name \in ToSet(SectionNames) : \A a \in DOMAIN sections[name].cell :
                  /\ raws[name] + a \in DOMAIN cell
                  /\ cell[raws[name] + a] = sections[name].cell[a]
             /\ \A name \in ToSet(SectionNames) : \A p \in DOMAIN cell :
                  raws[name] <= p /\ p < raws[name] + RawSize(sections[name])
                    => p - raws[name] \in DOMAIN sections[name].cell
<1> DEFINE padded(name) == [size |-> RawSize(sections[name]), cell |-> sections[name].cell]
<1> DEFINE b0 == [size |-> HeadersSize, cell |-> << >>]
<1> DEFINE b1 == Joint(b0, padded("text"))
<1> DEFINE b2 == Joint(b1, padded("rdata"))
<1> DEFINE b3 == Joint(b2, padded("idata"))
<1> DEFINE raws == RawOffsets(sections)
<1>1. WrittenBytes(sections) = b3
  BY DEF WrittenBytes
<1>2. /\ raws["text"] = HeadersSize
      /\ raws["rdata"] = raws["text"] + RawSize(sections["text"])
      /\ raws["idata"] = raws["rdata"] + RawSize(sections["rdata"])
      /\ \A name \in {"text", "rdata", "idata"} :
           /\ raws[name] \in Nat
           /\ RawSize(sections[name]) \in Nat
           /\ sections[name].size <= RawSize(sections[name])
  BY RawFacts, Given
<1>3. \A name \in {"text", "rdata", "idata"} :
        sections[name].size \in Nat /\ DOMAIN sections[name].cell \subseteq 0 .. sections[name].size - 1
  BY Given DEF AllFit, Fits
<1> HIDE DEF raws
<1>4. ASSUME NEW name \in {"text", "rdata", "idata"}
      PROVE  /\ Fits(padded(name)) /\ padded(name).size = RawSize(sections[name])
             /\ padded(name).cell = sections[name].cell
  <2>1. DOMAIN sections[name].cell \subseteq 0 .. RawSize(sections[name]) - 1
    BY <1>2, <1>3
  <2> QED
    BY <1>2, <2>1 DEF Fits
<1>5. Fits(b0) /\ b0.size = HeadersSize /\ DOMAIN b0.cell = {}
  BY Given DEF Fits
<1> HIDE DEF padded, b0
<1>6. /\ Fits(b1) /\ b1.size = raws["rdata"]
      /\ \A a \in DOMAIN sections["text"].cell :
           raws["text"] + a \in DOMAIN b1.cell /\ b1.cell[raws["text"] + a] = sections["text"].cell[a]
      /\ \A a \in DOMAIN b1.cell : IF a < raws["text"] THEN FALSE
                                  ELSE a - raws["text"] \in DOMAIN sections["text"].cell
  BY <1>2, <1>4, <1>5, JointFacts
<1> HIDE DEF b1
<1>7. /\ Fits(b2) /\ b2.size = raws["idata"]
      /\ \A a \in DOMAIN b1.cell : a \in DOMAIN b2.cell /\ b2.cell[a] = b1.cell[a]
      /\ \A a \in DOMAIN sections["rdata"].cell :
           raws["rdata"] + a \in DOMAIN b2.cell /\ b2.cell[raws["rdata"] + a] = sections["rdata"].cell[a]
      /\ \A a \in DOMAIN b2.cell : IF a < raws["rdata"] THEN a \in DOMAIN b1.cell
                                  ELSE a - raws["rdata"] \in DOMAIN sections["rdata"].cell
  BY <1>2, <1>4, <1>6, JointFacts
<1> HIDE DEF b2
<1>8. /\ Fits(b3)
      /\ \A a \in DOMAIN b2.cell : a \in DOMAIN b3.cell /\ b3.cell[a] = b2.cell[a]
      /\ \A a \in DOMAIN sections["idata"].cell :
           raws["idata"] + a \in DOMAIN b3.cell /\ b3.cell[raws["idata"] + a] = sections["idata"].cell[a]
      /\ \A a \in DOMAIN b3.cell : IF a < raws["idata"] THEN a \in DOMAIN b2.cell
                                  ELSE a - raws["idata"] \in DOMAIN sections["idata"].cell
  BY <1>2, <1>4, <1>7, JointFacts
<1> HIDE DEF b3
<1>9. ASSUME NEW name \in {"text", "rdata", "idata"}, NEW a \in DOMAIN sections[name].cell
      PROVE  /\ raws[name] + a \in DOMAIN b3.cell
             /\ b3.cell[raws[name] + a] = sections[name].cell[a]
  BY <1>6, <1>7, <1>8, <1>9
<1>10. \A p \in DOMAIN b3.cell : p \in Nat
  BY <1>8 DEF Fits
<1>11. ASSUME NEW name \in {"text", "rdata", "idata"}, NEW p \in DOMAIN b3.cell,
              raws[name] <= p, p < raws[name] + RawSize(sections[name])
       PROVE  p - raws[name] \in DOMAIN sections[name].cell
  <2>1. CASE name = "text"
    <3>1. p < raws["rdata"] /\ p < raws["idata"]
      BY <1>2, <1>10, <1>11, <2>1
    <3>2. p \in DOMAIN b1.cell
      BY <1>7, <1>8, <3>1
    <3>3. ~(p < raws["text"])
      BY <1>2, <1>10, <1>11, <2>1
    <3> QED
      BY <1>6, <2>1, <3>2, <3>3
  <2>2. CASE name = "rdata"
    <3>1. p < raws["idata"] /\ ~(p < raws["rdata"])
      BY <1>2, <1>10, <1>11, <2>2
    <3> QED
      BY <1>7, <1>8, <2>2, <3>1
  <2>3. CASE name = "idata"
    <3>1. ~(p < raws["idata"])
      BY <1>2, <1>10, <1>11, <2>3
    <3> QED
      BY <1>8, <2>3, <3>1
  <2> QED
    BY <2>1, <2>2, <2>3
<1> QED
  BY <1>1, <1>9, <1>10, <1>11, Given DEF raws

(* What the sections hold is in the file where the headers say: the bytes  *)
(* that PeImage::buildImage writes with padding between them are those     *)
(* that a section's PointerToRawData and VirtualSize name.                 *)
THEOREM FileHoldsSections ==
  ASSUME NEW sections, AllFit(sections)
  PROVE  FoundInFile(SectionHeaders(sections, Rvas(sections)), WrittenBytes(sections).cell,
                     sections)
<1> DEFINE headers == SectionHeaders(sections, Rvas(sections))
<1> DEFINE cell == WrittenBytes(sections).cell
<1> SUFFICES ASSUME NEW s \in ToSet(headers), NEW a \in DOMAIN sections[s.name].cell
             PROVE  /\ a < s.virtualSize
                    /\ s.raw + a \in DOMAIN cell
                    /\ cell[s.raw + a] = sections[s.name].cell[a]
  BY DEF FoundInFile
<1>1. /\ s.name \in ToSet(SectionNames) /\ s.raw = RawOffsets(sections)[s.name]
      /\ s.virtualSize = sections[s.name].size
  BY HeaderOf
<1>2. a < s.virtualSize
  BY <1>1 DEF AllFit, Fits
<1>3. s.raw + a \in DOMAIN cell /\ cell[s.raw + a] = sections[s.name].cell[a]
  BY <1>1, FileFacts
<1> QED
  BY <1>2, <1>3

(* The loader puts them at the sections' addresses, and nothing anywhere   *)
(* else: the running program finds its code, its constants and its import  *)
(* tables at the addresses the relocations were resolved to.               *)
THEOREM LoadedInPlace ==
  ASSUME NEW sections, AllFit(sections)
  PROVE  FoundInMemory(Mapped(SectionHeaders(sections, Rvas(sections)),
                              WrittenBytes(sections).cell), sections, Rvas(sections))
<1> DEFINE headers == SectionHeaders(sections, Rvas(sections))
<1> DEFINE rvas == Rvas(sections)
<1> DEFINE cell == WrittenBytes(sections).cell
<1> DEFINE here(s) == DOMAIN sections[s.name].cell
<1> DEFINE part(s) == {a \in DOMAIN cell : s.raw <= a /\ a < s.raw + s.rawSize}
<1> DEFINE places == UNION {{s.rva + (a - s.raw) : a \in part(s)} : s \in ToSet(headers)}
<1> DEFINE holder(p) ==
             CHOOSE s \in ToSet(headers) : s.rva <= p /\ p < s.rva + s.rawSize
<1> DEFINE memory == Mapped(headers, cell)
<1>1. memory = [p \in places |-> cell[holder(p).raw + (p - holder(p).rva)]]
  BY DEF Mapped
<1>2. \A s \in ToSet(headers) :
        /\ s.name \in ToSet(SectionNames)
        /\ s.rva = rvas[s.name] /\ s.rva \in Nat
        /\ s.raw \in Nat /\ s.rawSize \in Nat
        /\ \A a \in here(s) : a \in Nat /\ a < s.rawSize
  <2> SUFFICES ASSUME NEW s \in ToSet(headers)
               PROVE  /\ s.name \in ToSet(SectionNames)
                      /\ s.rva = rvas[s.name] /\ s.rva \in Nat
                      /\ s.raw \in Nat /\ s.rawSize \in Nat
                      /\ \A a \in here(s) : a \in Nat /\ a < s.rawSize
    OBVIOUS
  <2>1. /\ s.name \in ToSet(SectionNames)
        /\ s.rva = rvas[s.name] /\ s.raw = RawOffsets(sections)[s.name]
        /\ s.rawSize = RawSize(sections[s.name])
    BY HeaderOf
  <2>2. s.rva \in Nat
    BY <2>1, RvaFacts
  <2>3. s.raw \in Nat /\ s.rawSize \in Nat /\ sections[s.name].size <= s.rawSize
    BY <2>1, RawFacts
  <2>4. sections[s.name].size \in Nat /\ here(s) \subseteq 0 .. sections[s.name].size - 1
    BY <2>1 DEF AllFit, Fits
  <2>5. \A a \in here(s) : a \in Nat /\ a < s.rawSize
    BY <2>3, <2>4
  <2> QED
    BY <2>1, <2>2, <2>3, <2>5
<1>3. \A s \in ToSet(headers) : \A a \in here(s) :
        s.raw + a \in DOMAIN cell /\ cell[s.raw + a] = sections[s.name].cell[a]
  BY FileHoldsSections DEF FoundInFile
<1>4. \A s \in ToSet(headers) : \A p \in part(s) : p - s.raw \in here(s) /\ p \in Int
  <2> SUFFICES ASSUME NEW s \in ToSet(headers), NEW p \in part(s)
               PROVE  p - s.raw \in here(s) /\ p \in Int
    OBVIOUS
  <2>1. /\ s.name \in ToSet(SectionNames) /\ s.raw = RawOffsets(sections)[s.name]
        /\ s.rawSize = RawSize(sections[s.name])
    BY HeaderOf
  <2>2. p - s.raw \in here(s)
    BY <2>1, FileFacts
  <2>3. p \in Int
    BY FileFacts
  <2> QED
    BY <2>2, <2>3
<1>5. \A s, t \in ToSet(headers) : s # t => Apart(s.rva, s.rawSize, t.rva, t.rawSize)
  BY SectionsAreLaidOut DEF LaidOut
<1>6. \A name \in ToSet(SectionNames) : \E s \in ToSet(headers) : s.name = name
  BY HeaderFor
<1>7. DOMAIN sections = ToSet(SectionNames)
  BY DEF AllFit
<1> HIDE DEF headers, rvas, cell, memory
<1>8. ASSUME NEW s \in ToSet(headers), NEW a \in here(s)
      PROVE  s.rva + a \in places /\ holder(s.rva + a) = s
  <2>1. a \in Nat /\ a < s.rawSize /\ s.rva \in Nat /\ s.raw \in Nat /\ s.rawSize \in Nat
    BY <1>2
  <2>2. s.raw + a \in part(s)
    BY <1>3, <2>1
  <2>3. s.rva + a = s.rva + ((s.raw + a) - s.raw)
    BY <2>1
  <2>4. s.rva + a \in places
    <3>1. s.rva + a \in {s.rva + (x - s.raw) : x \in part(s)}
      BY <2>2, <2>3
    <3> QED
      BY <3>1
  <2>5. s.rva <= s.rva + a /\ s.rva + a < s.rva + s.rawSize
    BY <2>1
  <2>6. ASSUME NEW t \in ToSet(headers), t.rva <= s.rva + a, s.rva + a < t.rva + t.rawSize
        PROVE  t = s
    <3>1. t.rva \in Nat /\ t.rawSize \in Nat
      BY <1>2
    <3>2. ~Apart(s.rva, s.rawSize, t.rva, t.rawSize)
      BY <2>1, <2>5, <2>6, <3>1 DEF Apart
    <3> QED
      BY <1>5, <3>2
  <2> DEFINE at == s.rva + a
  <2> HIDE DEF at
  <2>7. s.rva <= at /\ at < s.rva + s.rawSize
    BY <2>5 DEF at
  <2>8. \A t \in ToSet(headers) : t.rva <= at /\ at < t.rva + t.rawSize => t = s
    BY <2>6 DEF at
  <2>9. holder(at) = s
    BY <2>7, <2>8
  <2> QED
    BY <2>4, <2>9 DEF at
<1>9. ASSUME NEW name \in DOMAIN sections, NEW a \in DOMAIN sections[name].cell
      PROVE  /\ rvas[name] + a \in DOMAIN memory
             /\ memory[rvas[name] + a] = sections[name].cell[a]
  <2>1. PICK s \in ToSet(headers) : s.name = name
    BY <1>6, <1>7
  <2>2. s.rva = rvas[name] /\ a \in here(s)
    BY <1>2, <2>1
  <2> DEFINE at == rvas[name] + a
  <2>3. at \in places /\ holder(at) = s
    BY <1>8, <2>2
  <2>4. s.raw + (at - s.rva) = s.raw + a
    BY <1>2, <2>2
  <2> HIDE DEF at, places, holder
  <2>5. at \in DOMAIN memory /\ memory[at] = cell[s.raw + a]
    BY <1>1, <2>3, <2>4
  <2>6. memory[at] = sections[name].cell[a]
    BY <1>3, <2>1, <2>2, <2>5
  <2> QED
    BY <2>5, <2>6 DEF at
<1> DEFINE taken == UNION {{rvas[name] + a : a \in DOMAIN sections[name].cell} :
                            name \in DOMAIN sections}
<1>10. DOMAIN memory = places
  BY <1>1
<1>11. places \subseteq taken
  <2> SUFFICES ASSUME NEW p \in places
               PROVE  p \in taken
    OBVIOUS
  <2>1. PICK s \in ToSet(headers) : p \in {s.rva + (x - s.raw) : x \in part(s)}
    OBVIOUS
  <2>2. PICK x \in part(s) : p = s.rva + (x - s.raw)
    BY <2>1
  <2>3. x - s.raw \in here(s) /\ s.name \in DOMAIN sections /\ s.rva = rvas[s.name]
    BY <1>2, <1>4, <1>7
  <2>4. p = rvas[s.name] + (x - s.raw)
    BY <2>2, <2>3
  <2>5. p \in {rvas[s.name] + a : a \in DOMAIN sections[s.name].cell}
    BY <2>3, <2>4
  <2> QED
    BY <2>3, <2>5
<1>12. taken \subseteq places
  <2> SUFFICES ASSUME NEW p \in taken
               PROVE  p \in places
    OBVIOUS
  <2>1. PICK name \in DOMAIN sections : p \in {rvas[name] + a : a \in DOMAIN sections[name].cell}
    OBVIOUS
  <2>2. PICK a \in DOMAIN sections[name].cell : p = rvas[name] + a
    BY <2>1
  <2> QED
    BY <1>9, <1>10, <2>2
<1>13. DOMAIN memory = taken
  BY <1>10, <1>11, <1>12
<1> QED
  BY <1>9, <1>13 DEF FoundInMemory, headers, rvas, cell, memory

-----------------------------------------------------------------------------
(* The link objects, each with one section.                                *)
LinkObjects(objects, O) ==
  /\ objects \in Seq(O)
  /\ \A i \in DOMAIN objects : Fits(objects[i]) /\ objects[i].section \in ToSet(SectionNames)

(* Sections whose cells hold something from V.                             *)
SectionsOf(V) ==
  {s \in [size : Nat, cell : UNION {[D -> V] : D \in SUBSET Nat}] : Fits(s)}

LEMMA JointOf ==
  ASSUME NEW V, NEW s \in SectionsOf(V), NEW p, Fits(p), \A a \in DOMAIN p.cell : p.cell[a] \in V
  PROVE  Joint(s, p) \in SectionsOf(V)
<1> DEFINE m == Moved(p.cell, s.size)
<1> DEFINE D == DOMAIN s.cell \union DOMAIN m
<1> DEFINE f == [a \in D |-> IF a \in DOMAIN s.cell THEN s.cell[a] ELSE m[a]]
<1>1. Fits(s) /\ s.size \in Nat
  BY DEF SectionsOf, Fits
<1>2. Joint(s, p) = [size |-> s.size + p.size, cell |-> f]
  BY DEF Joint, Over
<1>3. Fits(Joint(s, p)) /\ Joint(s, p).size = s.size + p.size
  BY <1>1, JointFacts
<1>4. \A a \in DOMAIN s.cell : s.cell[a] \in V
  <2>1. PICK E \in SUBSET Nat : s.cell \in [E -> V]
    BY DEF SectionsOf
  <2> QED
    BY <2>1
<1>5. \A a \in DOMAIN m : m[a] \in V
  <2> SUFFICES ASSUME NEW a \in DOMAIN m
               PROVE  m[a] \in V
    OBVIOUS
  <2>1. PICK x \in DOMAIN p.cell : a = x + s.size
    BY DEF Moved
  <2>2. m[a] = p.cell[a - s.size]
    BY DEF Moved
  <2>3. x \in Int /\ a - s.size = x
    BY <1>1, <2>1 DEF Fits
  <2> QED
    BY <2>1, <2>2, <2>3
<1>6. D \subseteq Nat
  <2>1. Joint(s, p).cell = f
    BY <1>2
  <2>2. DOMAIN f = D
    OBVIOUS
  <2> HIDE DEF f, D
  <2> QED
    BY <1>3, <2>1, <2>2 DEF Fits
<1> HIDE DEF D, m
<1>7. f \in [D -> V]
  BY <1>4, <1>5 DEF D
<1>8. s.size + p.size \in Nat
  BY <1>3 DEF Fits
<1> HIDE DEF f
<1>9. Joint(s, p) \in [size : Nat, cell : UNION {[E -> V] : E \in SUBSET Nat}]
  BY <1>2, <1>6, <1>7, <1>8
<1> QED
  BY <1>3, <1>9 DEF SectionsOf

(* What has been gathered after each object.                               *)
LEMMA GatheredFacts ==
  ASSUME NEW O, NEW objects, LinkObjects(objects, O), NEW name
  PROVE  LET g == Gathered(objects, name)
             n == Len(objects)
         IN  /\ g[0] = EmptySection
             /\ \A i \in 1 .. n : g[i] = IF objects[i].section = name
                                       THEN Joint(g[i - 1], objects[i]) ELSE g[i - 1]
             /\ \A i \in 0 .. n : Fits(g[i])
<1> DEFINE n == Len(objects)
<1> DEFINE V == UNION {{objects[i].cell[a] : a \in DOMAIN objects[i].cell} : i \in DOMAIN objects}
<1> DEFINE S == SectionsOf(V)
<1> DEFINE step(i, x) == IF objects[i].section = name THEN Joint(x, objects[i]) ELSE x
<1> DEFINE G == [i \in 1 .. n |-> [x \in S |-> step(i, x)]]
<1> DEFINE g[i \in 0 .. n] ==
             IF i = 0 THEN EmptySection
             ELSE LET before == g[i - 1]
                  IN  IF objects[i].section = name THEN Joint(before, objects[i]) ELSE before
<1>1. n \in Nat /\ DOMAIN objects = 1 .. n
  BY DEF LinkObjects
<1>2. \A i \in 1 .. n : \A x \in S : step(i, x) \in S
  <2> SUFFICES ASSUME NEW i \in 1 .. n, NEW x \in S
               PROVE  step(i, x) \in S
    OBVIOUS
  <2>1. Fits(objects[i])
    BY <1>1 DEF LinkObjects
  <2>2. \A a \in DOMAIN objects[i].cell : objects[i].cell[a] \in V
    BY <1>1
  <2> HIDE DEF V
  <2>3. Joint(x, objects[i]) \in S
    BY <2>1, <2>2, JointOf
  <2> QED
    BY <2>3
<1>3. EmptySection \in S
  <2>1. EmptySection.cell \in [{} -> V] /\ EmptySection.size = 0 /\ DOMAIN EmptySection.cell = {}
    BY DEF EmptySection
  <2>2. Fits(EmptySection)
    BY <2>1 DEF Fits
  <2>3. EmptySection.cell \in UNION {[D -> V] : D \in SUBSET Nat}
    <3>1. {} \in SUBSET Nat
      OBVIOUS
    <3> HIDE DEF V
    <3> QED
      BY <2>1, <3>1, Zenon
  <2> HIDE DEF V
  <2>4. EmptySection \in [size : Nat, cell : UNION {[D -> V] : D \in SUBSET Nat}]
    BY <2>3 DEF EmptySection
  <2> QED
    BY <2>2, <2>4 DEF SectionsOf
<1>4. PICK f : IteratesUpTo(f, n, S, EmptySection, G)
  <2>1. StepsUpTo(n, G, S)
    BY <1>2 DEF StepsUpTo
  <2> HIDE DEF n, S, G
  <2> QED
    BY <1>1, <1>3, <2>1, BoundedRecursion
<1>5. f = [i \in 0 .. n |-> IF i = 0 THEN EmptySection ELSE step(i, f[i - 1])]
  <2>1. \A i \in 1 .. n : i - 1 \in 0 .. n
    BY <1>1
  <2> HIDE DEF step, S
  <2>2. ASSUME NEW i \in 1 .. n
        PROVE  G[i][f[i - 1]] = step(i, f[i - 1])
    BY <1>2, <1>4, <2>1 DEF IteratesUpTo
  <2>3. \A i \in 0 .. n : (IF i = 0 THEN EmptySection ELSE G[i][f[i - 1]])
                          = IF i = 0 THEN EmptySection ELSE step(i, f[i - 1])
    BY <1>1, <2>2
  <2>4. f = [i \in 0 .. n |-> IF i = 0 THEN EmptySection ELSE G[i][f[i - 1]]]
    BY <1>4 DEF IteratesUpTo
  <2> QED
    BY <2>3, <2>4
<1>6. g = [i \in 0 .. n |-> IF i = 0 THEN EmptySection ELSE step(i, g[i - 1])]
  BY <1>5
<1>7. Gathered(objects, name) = g
  BY DEF Gathered
<1> HIDE DEF g, step, S
<1>8. g[0] = EmptySection /\ \A i \in 1 .. n : g[i] = step(i, g[i - 1])
  BY <1>1, <1>6
<1> DEFINE P == {i \in Nat : i <= n => g[i] \in S}
<1>9. 0 \in P
  BY <1>3, <1>8
<1>10. ASSUME NEW i \in Nat, i \in P
       PROVE  i + 1 \in P
  <2>1. CASE i + 1 <= n
    <3>1. g[i] \in S /\ i + 1 \in 1 .. n /\ (i + 1) - 1 = i
      BY <1>1, <1>10, <2>1
    <3>2. g[i + 1] = step(i + 1, g[i])
      BY <1>8, <3>1
    <3>3. g[i + 1] \in S
      BY <1>2, <3>1, <3>2
    <3> QED
      BY <3>3
  <2> QED
    BY <2>1
<1>11. \A i \in 0 .. n : g[i] \in S
  <2>1. Nat \subseteq P
    <3> HIDE DEF P
    <3> QED
      BY <1>9, <1>10, Induction
  <2> QED
    BY <1>1, <2>1
<1>12. \A i \in 0 .. n : Fits(g[i])
  BY <1>11 DEF S, SectionsOf
<1> QED
  BY <1>7, <1>8, <1>12 DEF step

(* What has been gathered stays where it is.                               *)
LEMMA GatheredGrows ==
  ASSUME NEW O, NEW objects, LinkObjects(objects, O), NEW name, NEW i \in 0 .. Len(objects)
  PROVE  LET g == Gathered(objects, name)
         IN  \A k \in i .. Len(objects) :
               /\ g[i].size <= g[k].size
               /\ \A a \in DOMAIN g[i].cell : a \in DOMAIN g[k].cell /\ g[k].cell[a] = g[i].cell[a]
<1> DEFINE g == Gathered(objects, name)
<1> DEFINE n == Len(objects)
<1> DEFINE kept(k) ==
      /\ g[i].size <= g[k].size
      /\ \A a \in DOMAIN g[i].cell : a \in DOMAIN g[k].cell /\ g[k].cell[a] = g[i].cell[a]
<1> DEFINE P == {k \in Nat : i <= k /\ k <= n => kept(k)}
<1>1. n \in Nat /\ DOMAIN objects = 1 .. n /\ i \in Nat /\ i <= n
  BY DEF LinkObjects
<1>2. /\ \A k \in 1 .. n : g[k] = IF objects[k].section = name
                                THEN Joint(g[k - 1], objects[k]) ELSE g[k - 1]
      /\ \A k \in 0 .. n : Fits(g[k])
  BY GatheredFacts
<1>3. \A k \in 1 .. n : Fits(objects[k])
  BY <1>1 DEF LinkObjects
<1> HIDE DEF n, g
<1>4. kept(i)
  BY <1>1, <1>2 DEF Fits
<1>5. 0 \in P
  BY <1>1, <1>4
<1>6. ASSUME NEW k \in Nat, k \in P
      PROVE  k + 1 \in P
  <2>1. CASE i <= k /\ k + 1 <= n
    <3>1. kept(k) /\ k + 1 \in 1 .. n /\ k \in 0 .. n /\ k + 1 \in 0 .. n /\ (k + 1) - 1 = k
      BY <1>1, <1>6, <2>1
    <3>2. Fits(g[k]) /\ Fits(objects[k + 1]) /\ Fits(g[i])
      BY <1>1, <1>2, <1>3, <3>1
    <3>3. g[k + 1] = Joint(g[k], objects[k + 1]) \/ g[k + 1] = g[k]
      BY <1>2, <3>1
    <3>4. CASE g[k + 1] = Joint(g[k], objects[k + 1])
      <4>1. /\ g[k + 1].size = g[k].size + objects[k + 1].size
            /\ \A a \in DOMAIN g[k].cell :
                 a \in DOMAIN g[k + 1].cell /\ g[k + 1].cell[a] = g[k].cell[a]
        BY <3>2, <3>4, JointFacts
      <4>2. g[i].size <= g[k + 1].size
        BY <3>1, <3>2, <4>1 DEF Fits
      <4> QED
        BY <3>1, <4>1, <4>2
    <3> QED
      BY <3>1, <3>3, <3>4
  <2>2. CASE ~(i <= k) /\ i <= k + 1
    <3>1. i = k + 1
      BY <1>1, <2>2
    <3> QED
      BY <1>4, <3>1
  <2> QED
    BY <1>1, <2>1, <2>2
<1>7. Nat \subseteq P
  <2> HIDE DEF P
  <2> QED
    BY <1>5, <1>6, Induction
<1>8. \A k \in i .. n : kept(k)
  BY <1>1, <1>7
<1> QED
  BY <1>8 DEF n, g

(* Every link object is found, whole, at its base offset in the section it *)
(* joins, and no two objects share a byte: linkObjects concatenates them,  *)
(* and a symbol at an offset of its object is at base plus offset in the   *)
(* joined section, which is what relocations are resolved with.            *)
THEOREM JoinedInPlace ==
  ASSUME NEW O, NEW objects, LinkObjects(objects, O)
  PROVE  LET base(i) == BaseOffset(objects, i)
             within(i) == Joined(objects)[objects[i].section]
         IN  /\ AllFit(Joined(objects))
             /\ \A i \in DOMAIN objects :
                  /\ base(i) \in Nat /\ base(i) + objects[i].size <= within(i).size
                  /\ \A a \in DOMAIN objects[i].cell :
                       /\ base(i) + a \in DOMAIN within(i).cell
                       /\ within(i).cell[base(i) + a] = objects[i].cell[a]
             /\ \A i, j \in DOMAIN objects :
                  i # j /\ objects[i].section = objects[j].section
                    => Apart(base(i), objects[i].size, base(j), objects[j].size)
<1> DEFINE n == Len(objects)
<1> DEFINE base(i) == BaseOffset(objects, i)
<1> DEFINE within(i) == Joined(objects)[objects[i].section]
<1> DEFINE g(name) == Gathered(objects, name)
<1>1. n \in Nat /\ DOMAIN objects = 1 .. n
  BY DEF LinkObjects
<1>2. \A i \in 1 .. n : Fits(objects[i]) /\ objects[i].section \in ToSet(SectionNames)
  BY <1>1 DEF LinkObjects
<1>3. \A name \in ToSet(SectionNames) : Joined(objects)[name] = g(name)[n]
  BY DEF Joined
<1>4. \A name : \A i \in 0 .. n : Fits(g(name)[i])
  BY GatheredFacts
<1>5. AllFit(Joined(objects))
  <2>1. DOMAIN Joined(objects) = ToSet(SectionNames)
    BY DEF Joined
  <2>2. n \in 0 .. n
    BY <1>1
  <2> QED
    BY <1>3, <1>4, <2>1, <2>2 DEF AllFit
<1>6. ASSUME NEW i \in 1 .. n
      PROVE  LET name == objects[i].section
             IN  /\ i \in 0 .. n /\ i - 1 \in 0 .. n
                 /\ base(i) = g(name)[i - 1].size /\ base(i) \in Nat
                 /\ g(name)[i] = Joint(g(name)[i - 1], objects[i])
                 /\ g(name)[i].size = base(i) + objects[i].size
                 /\ \A a \in DOMAIN objects[i].cell :
                      /\ base(i) + a \in DOMAIN g(name)[i].cell
                      /\ g(name)[i].cell[base(i) + a] = objects[i].cell[a]
  <2> DEFINE name == objects[i].section
  <2>1. i \in 0 .. n /\ i - 1 \in 0 .. n
    BY <1>1
  <2>2. base(i) = g(name)[i - 1].size
    BY DEF BaseOffset
  <2>3. Fits(g(name)[i - 1]) /\ Fits(objects[i])
    BY <1>2, <1>4, <2>1
  <2>4. g(name)[i] = Joint(g(name)[i - 1], objects[i])
    BY GatheredFacts
  <2> HIDE DEF g, base, n
  <2>5. base(i) \in Nat
    BY <2>2, <2>3 DEF Fits
  <2>6. /\ g(name)[i].size = base(i) + objects[i].size
        /\ \A a \in DOMAIN objects[i].cell :
             /\ base(i) + a \in DOMAIN g(name)[i].cell
             /\ g(name)[i].cell[base(i) + a] = objects[i].cell[a]
    BY <2>2, <2>3, <2>4, JointFacts
  <2> QED
    BY <2>1, <2>2, <2>4, <2>5, <2>6
<1>7. ASSUME NEW name, NEW i \in 0 .. n, NEW k \in i .. n
      PROVE  /\ g(name)[i].size <= g(name)[k].size
             /\ \A a \in DOMAIN g(name)[i].cell :
                  /\ a \in DOMAIN g(name)[k].cell
                  /\ g(name)[k].cell[a] = g(name)[i].cell[a]
  BY GatheredGrows
<1> HIDE DEF g, base
<1>8. ASSUME NEW i \in 1 .. n
      PROVE  /\ base(i) \in Nat /\ base(i) + objects[i].size <= within(i).size
             /\ \A a \in DOMAIN objects[i].cell :
                  /\ base(i) + a \in DOMAIN within(i).cell
                  /\ within(i).cell[base(i) + a] = objects[i].cell[a]
  <2>1. within(i) = g(objects[i].section)[n]
    BY <1>2, <1>3
  <2>2. i \in 0 .. n /\ n \in i .. n
    BY <1>1
  <2> DEFINE x == g(objects[i].section)[i]
  <2> DEFINE y == within(i)
  <2>3. x.size <= y.size /\ \A a \in DOMAIN x.cell : a \in DOMAIN y.cell /\ y.cell[a] = x.cell[a]
    BY <1>7, <2>1, <2>2
  <2>4. /\ base(i) \in Nat /\ x.size = base(i) + objects[i].size
        /\ \A a \in DOMAIN objects[i].cell :
             base(i) + a \in DOMAIN x.cell /\ x.cell[base(i) + a] = objects[i].cell[a]
    BY <1>6
  <2> HIDE DEF x, y
  <2>5. \A a \in DOMAIN objects[i].cell :
          base(i) + a \in DOMAIN y.cell /\ y.cell[base(i) + a] = objects[i].cell[a]
    BY <2>3, <2>4
  <2> QED
    BY <2>3, <2>4, <2>5 DEF y
<1>9. ASSUME NEW i \in 1 .. n, NEW j \in 1 .. n, i < j, objects[i].section = objects[j].section
      PROVE  base(i) + objects[i].size <= base(j)
  <2> DEFINE name == objects[i].section
  <2>1. i \in 0 .. n /\ j - 1 \in i .. n
    BY <1>1, <1>9
  <2>2. g(name)[i].size <= g(name)[j - 1].size
    BY <1>7, <2>1
  <2>3. base(j) = g(name)[j - 1].size
    BY <1>6, <1>9
  <2>4. g(name)[i].size = base(i) + objects[i].size
    BY <1>6
  <2> QED
    BY <2>2, <2>3, <2>4
<1>10. \A i, j \in DOMAIN objects :
         i # j /\ objects[i].section = objects[j].section
           => Apart(base(i), objects[i].size, base(j), objects[j].size)
  <2>1. \A i, j \in 1 .. n : i < j \/ j < i \/ i = j
    BY <1>1
  <2> QED
    BY <1>1, <1>9, <2>1 DEF Apart
<1> QED
  BY <1>1, <1>5, <1>8, <1>10 DEF base

-----------------------------------------------------------------------------
(* The sums of the first terms of a sequence of naturals.                  *)
LEMMA SumsFacts ==
  ASSUME NEW s \in Seq(Nat)
  PROVE  LET sum == Sums(s)
         IN  /\ sum[0] = 0
             /\ \A i \in 1 .. Len(s) : sum[i] = sum[i - 1] + s[i]
             /\ \A i \in 0 .. Len(s) : sum[i] \in Nat
             /\ \A i \in 0 .. Len(s) : \A k \in i .. Len(s) : sum[i] <= sum[k]
<1> DEFINE n == Len(s)
<1> DEFINE G == [i \in 1 .. n |-> [x \in Nat |-> x + s[i]]]
<1> DEFINE sum[i \in 0 .. n] == IF i = 0 THEN 0 ELSE sum[i - 1] + s[i]
<1>1. n \in Nat /\ \A i \in 1 .. n : s[i] \in Nat
  BY LenProperties, ElementOfSeq
<1>2. PICK f : IteratesUpTo(f, n, Nat, 0, G)
  <2>1. StepsUpTo(n, G, Nat)
    BY <1>1 DEF StepsUpTo
  <2> HIDE DEF n, G
  <2> QED
    BY <1>1, <2>1, BoundedRecursion
<1>3. f = [i \in 0 .. n |-> IF i = 0 THEN 0 ELSE f[i - 1] + s[i]]
  <2>1. ASSUME NEW i \in 1 .. n
        PROVE  G[i][f[i - 1]] = f[i - 1] + s[i]
    <3>1. i - 1 \in 0 .. n
      BY <1>1
    <3>2. f[i - 1] \in Nat
      BY <1>2, <3>1 DEF IteratesUpTo
    <3> QED
      BY <3>2
  <2>2. f = [i \in 0 .. n |-> IF i = 0 THEN 0 ELSE G[i][f[i - 1]]]
    BY <1>2 DEF IteratesUpTo
  <2>3. \A i \in 0 .. n : (IF i = 0 THEN 0 ELSE G[i][f[i - 1]])
                          = IF i = 0 THEN 0 ELSE f[i - 1] + s[i]
    BY <1>1, <2>1
  <2> QED
    BY <2>2, <2>3
<1>4. sum = [i \in 0 .. n |-> IF i = 0 THEN 0 ELSE sum[i - 1] + s[i]]
  BY <1>3
<1>5. Sums(s) = sum
  BY DEF Sums
<1> HIDE DEF sum, n, G
<1>6. sum[0] = 0 /\ \A i \in 1 .. n : sum[i] = sum[i - 1] + s[i]
  BY <1>1, <1>4
<1> DEFINE P == {i \in Nat : i <= n => sum[i] \in Nat}
<1>7. 0 \in P
  BY <1>6
<1>8. ASSUME NEW i \in Nat, i \in P
      PROVE  i + 1 \in P
  <2>1. CASE i + 1 <= n
    <3>1. i + 1 \in 1 .. n /\ (i + 1) - 1 = i /\ sum[i] \in Nat
      BY <1>1, <1>8, <2>1
    <3>2. sum[i + 1] = sum[i] + s[i + 1]
      BY <1>6, <3>1
    <3> QED
      BY <1>1, <3>1, <3>2
  <2> QED
    BY <2>1
<1>9. \A i \in 0 .. n : sum[i] \in Nat
  <2>1. Nat \subseteq P
    <3> HIDE DEF P
    <3> QED
      BY <1>7, <1>8, Induction
  <2> QED
    BY <1>1, <2>1
<1>10. ASSUME NEW i \in 0 .. n, NEW k \in i .. n
       PROVE  sum[i] <= sum[k]
  <2> DEFINE Q == {j \in Nat : i <= j /\ j <= n => sum[i] <= sum[j]}
  <2>1. 0 \in Q
    BY <1>1, <1>9
  <2>2. ASSUME NEW j \in Nat, j \in Q
        PROVE  j + 1 \in Q
    <3>1. CASE i <= j /\ j + 1 <= n
      <4>1. j + 1 \in 1 .. n /\ (j + 1) - 1 = j /\ sum[i] <= sum[j] /\ j \in 0 .. n
        BY <1>1, <2>2, <3>1
      <4>2. sum[j + 1] = sum[j] + s[j + 1]
        BY <1>6, <4>1
      <4>3. sum[i] \in Nat /\ sum[j] \in Nat /\ s[j + 1] \in Nat
        BY <1>1, <1>9, <4>1
      <4> QED
        BY <4>1, <4>2, <4>3
    <3>2. CASE i = j + 1
      BY <1>9, <3>2
    <3> QED
      BY <1>1, <3>1, <3>2
  <2>3. Nat \subseteq Q
    <3> HIDE DEF Q
    <3> QED
      BY <2>1, <2>2, Induction
  <2> QED
    BY <1>1, <2>3
<1> QED
  BY <1>5, <1>6, <1>9, <1>10 DEF n

(* Import tables.                                                          *)
Tables(T) == Seq([dll : Seq(T), functions : Seq(Seq(T))])

Hint(table, k, j) == 2 + TextSize(table[k].functions[j])

(* What is where in the part of a library.                                 *)
LEMMA LibraryFacts ==
  ASSUME NEW T, NEW table \in Tables(T)
  PROVE  /\ Len(table) \in Nat /\ DOMAIN table = 1 .. Len(table)
         /\ \A k \in 1 .. Len(table) :
              LET n == Len(table[k].functions)
              IN  /\ n \in Nat /\ DOMAIN table[k].functions = 1 .. n
                  /\ ThunksSize(table[k]) = 8 * (n + 1)
                  /\ TextSize(table[k].dll) \in Nat /\ TextSize(table[k].dll) > 0
                  /\ Sums(HintSizes(table[k].functions))[0] = 0
                  /\ \A j \in 1 .. n :
                       /\ Hint(table, k, j) \in Nat /\ Hint(table, k, j) > 2
                       /\ Sums(HintSizes(table[k].functions))[j]
                            = Sums(HintSizes(table[k].functions))[j - 1] + Hint(table, k, j)
                  /\ \A j \in 0 .. n : Sums(HintSizes(table[k].functions))[j] \in Nat
                  /\ \A i \in 0 .. n : \A j \in i .. n :
                       Sums(HintSizes(table[k].functions))[i]
                         <= Sums(HintSizes(table[k].functions))[j]
<1>1. Len(table) \in Nat /\ DOMAIN table = 1 .. Len(table)
  BY DEF Tables
<1>2. ASSUME NEW k \in 1 .. Len(table)
      PROVE  LET n == Len(table[k].functions)
             IN  /\ n \in Nat /\ DOMAIN table[k].functions = 1 .. n
                 /\ ThunksSize(table[k]) = 8 * (n + 1)
                 /\ TextSize(table[k].dll) \in Nat /\ TextSize(table[k].dll) > 0
                 /\ Sums(HintSizes(table[k].functions))[0] = 0
                 /\ \A j \in 1 .. n :
                      /\ Hint(table, k, j) \in Nat /\ Hint(table, k, j) > 2
                      /\ Sums(HintSizes(table[k].functions))[j]
                           = Sums(HintSizes(table[k].functions))[j - 1] + Hint(table, k, j)
                 /\ \A j \in 0 .. n : Sums(HintSizes(table[k].functions))[j] \in Nat
                 /\ \A i \in 0 .. n : \A j \in i .. n :
                      Sums(HintSizes(table[k].functions))[i]
                        <= Sums(HintSizes(table[k].functions))[j]
  <2> DEFINE names == table[k].functions
  <2> DEFINE n == Len(names)
  <2> DEFINE sizes == HintSizes(names)
  <2>1. table[k] \in [dll : Seq(T), functions : Seq(Seq(T))]
    BY <1>1, ElementOfSeq DEF Tables
  <2>2. names \in Seq(Seq(T)) /\ table[k].dll \in Seq(T)
    BY <2>1
  <2>3. n \in Nat /\ DOMAIN names = 1 .. n /\ \A j \in 1 .. n : names[j] \in Seq(T)
    BY <2>2, LenProperties, ElementOfSeq
  <2>4. TextSize(table[k].dll) \in Nat /\ TextSize(table[k].dll) > 0
    BY <2>2, LenProperties DEF TextSize
  <2>5. \A j \in 1 .. n : Hint(table, k, j) \in Nat /\ Hint(table, k, j) > 2
    BY <2>3, LenProperties DEF Hint, TextSize
  <2>6. sizes = [j \in 1 .. n |-> Hint(table, k, j)]
    BY <2>3 DEF HintSizes, Hint
  <2> HIDE DEF names, n
  <2>7. sizes \in Seq(Nat) /\ Len(sizes) = n
    <3> HIDE DEF sizes
    <3>1. \A j \in 1 .. n : Hint(table, k, j) \in Nat
      BY <2>5
    <3>2. sizes \in [1 .. n -> Nat]
      BY <2>6, <3>1
    <3> QED
      BY <2>3, <3>2
  <2> HIDE DEF sizes
  <2>8. /\ Sums(sizes)[0] = 0
        /\ \A j \in 1 .. n : Sums(sizes)[j] = Sums(sizes)[j - 1] + sizes[j]
        /\ \A j \in 0 .. n : Sums(sizes)[j] \in Nat
        /\ \A i \in 0 .. n : \A j \in i .. n : Sums(sizes)[i] <= Sums(sizes)[j]
    BY <2>7, SumsFacts
  <2>9. \A j \in 1 .. n : Sums(sizes)[j] = Sums(sizes)[j - 1] + Hint(table, k, j)
    BY <2>6, <2>8
  <2> QED
    BY <2>3, <2>4, <2>5, <2>8, <2>9 DEF ThunksSize, names, n, sizes
<1> QED
  BY <1>1, <1>2

(* The parts of the libraries follow one another, and so do the lookup     *)
(* list, the slots, the name and the hints of each.                        *)
LEMMA PlaceFacts ==
  ASSUME NEW T, NEW table \in Tables(T)
  PROVE  LET n == Len(table)
         IN  /\ n \in Nat /\ DOMAIN table = 1 .. n
             /\ \A k \in 1 .. n + 1 : LookupAt(table, k) \in Nat /\ LookupAt(table, k) >= 40 * (n + 1)
             /\ \A k \in 1 .. n + 1 : \A m \in k .. n + 1 : LookupAt(table, k) <= LookupAt(table, m)
             /\ \A k \in 1 .. n :
                  LET f == Len(table[k].functions)
                  IN  /\ f \in Nat /\ DOMAIN table[k].functions = 1 .. f
                      /\ SlotsAt(table, k) = LookupAt(table, k) + 8 * (f + 1)
                      /\ LibraryNameAt(table, k) = SlotsAt(table, k) + 8 * (f + 1)
                      /\ TextSize(table[k].dll) \in Nat /\ TextSize(table[k].dll) > 0
                      /\ LibraryNameAt(table, k) + TextSize(table[k].dll) <= LookupAt(table, k + 1)
                      /\ \A j \in 1 .. f :
                           /\ HintAt(table, k, j) \in Nat
                           /\ Hint(table, k, j) \in Nat /\ Hint(table, k, j) > 2
                           /\ HintAt(table, k, j)
                                >= LibraryNameAt(table, k) + TextSize(table[k].dll)
                           /\ HintAt(table, k, j) + Hint(table, k, j) <= LookupAt(table, k + 1)
                      /\ \A i, j \in 1 .. f :
                           i < j => HintAt(table, k, i) + Hint(table, k, i) <= HintAt(table, k, j)
<1> DEFINE n == Len(table)
<1> DEFINE f(k) == Len(table[k].functions)
<1> DEFINE hints(k) == Sums(HintSizes(table[k].functions))
<1> DEFINE text(k) == TextSize(table[k].dll)
<1> DEFINE sizes == LibrarySizes(table)
<1> DEFINE parts == Sums(sizes)
<1> DEFINE L(k) == LookupAt(table, k)
<1>1. /\ n \in Nat /\ DOMAIN table = 1 .. n
      /\ \A k \in 1 .. n :
           /\ f(k) \in Nat /\ DOMAIN table[k].functions = 1 .. f(k)
           /\ ThunksSize(table[k]) = 8 * (f(k) + 1)
           /\ text(k) \in Nat /\ text(k) > 0
           /\ hints(k)[0] = 0
           /\ \A j \in 1 .. f(k) :
                /\ Hint(table, k, j) \in Nat /\ Hint(table, k, j) > 2
                /\ hints(k)[j] = hints(k)[j - 1] + Hint(table, k, j)
           /\ \A j \in 0 .. f(k) : hints(k)[j] \in Nat
           /\ \A i \in 0 .. f(k) : \A j \in i .. f(k) : hints(k)[i] <= hints(k)[j]
  BY LibraryFacts
<1> DEFINE part(k) == 16 * (f(k) + 1) + text(k) + hints(k)[f(k)]
<1>2. \A k \in 1 .. n : part(k) \in Nat /\ sizes[k] = part(k)
  <2> SUFFICES ASSUME NEW k \in 1 .. n
               PROVE  part(k) \in Nat /\ sizes[k] = part(k)
    OBVIOUS
  <2>1. sizes[k] = 2 * ThunksSize(table[k]) + text(k) + hints(k)[f(k)]
    BY <1>1 DEF LibrarySizes, HintsSize
  <2>2. f(k) \in Nat /\ text(k) \in Nat /\ ThunksSize(table[k]) = 8 * (f(k) + 1)
    BY <1>1
  <2>3. hints(k)[f(k)] \in Nat
    <3>1. f(k) \in 0 .. f(k)
      BY <2>2
    <3> QED
      BY <1>1, <3>1
  <2> DEFINE h == hints(k)[f(k)]
  <2> HIDE DEF f, text, h
  <2>4. 2 * (8 * (f(k) + 1)) + text(k) + h = 16 * (f(k) + 1) + text(k) + h
    BY <2>2, <2>3 DEF h
  <2>5. 16 * (f(k) + 1) + text(k) + h \in Nat
    BY <2>2, <2>3 DEF h
  <2> QED
    BY <2>1, <2>2, <2>4, <2>5 DEF h
<1>3. sizes \in Seq(Nat) /\ Len(sizes) = n
  <2>1. DOMAIN sizes = 1 .. n /\ sizes = [k \in 1 .. n |-> sizes[k]]
    BY <1>1 DEF LibrarySizes
  <2> HIDE DEF sizes, part, n
  <2>2. sizes \in [1 .. n -> Nat]
    BY <1>2, <2>1
  <2> QED
    BY <1>1, <2>2
<1> HIDE DEF sizes
<1>4. /\ parts[0] = 0
      /\ \A k \in 1 .. n : parts[k] = parts[k - 1] + sizes[k]
      /\ \A k \in 0 .. n : parts[k] \in Nat
      /\ \A k \in 0 .. n : \A m \in k .. n : parts[k] <= parts[m]
  BY <1>3, SumsFacts
<1>5. \A k : L(k) = 40 * (n + 1) + parts[k - 1]
  BY <1>1 DEF LookupAt, sizes
<1>6. \A k : /\ SlotsAt(table, k) = L(k) + ThunksSize(table[k])
             /\ LibraryNameAt(table, k) = SlotsAt(table, k) + ThunksSize(table[k])
             /\ \A j : HintAt(table, k, j) = LibraryNameAt(table, k) + text(k) + hints(k)[j - 1]
  BY DEF SlotsAt, LibraryNameAt, HintAt
<1> HIDE DEF n, f, hints, text, parts, part, L
<1>7. ASSUME NEW k \in 1 .. n + 1
      PROVE  L(k) \in Nat /\ L(k) >= 40 * (n + 1)
  <2>1. parts[k - 1] \in Nat
    BY <1>1, <1>4
  <2> QED
    BY <1>1, <1>5, <2>1
<1>8. ASSUME NEW k \in 1 .. n + 1, NEW m \in k .. n + 1
      PROVE  L(k) <= L(m)
  <2>1. k - 1 \in 0 .. n /\ m - 1 \in k - 1 .. n
    BY <1>1
  <2>2. parts[k - 1] \in Nat /\ parts[m - 1] \in Nat /\ parts[k - 1] <= parts[m - 1]
    BY <1>1, <1>4, <2>1
  <2> QED
    BY <1>1, <1>5, <2>2
<1>9. ASSUME NEW k \in 1 .. n
      PROVE  L(k + 1) = L(k) + part(k)
  <2>1. (k + 1) - 1 = k /\ k - 1 \in 0 .. n
    BY <1>1
  <2>2. parts[k - 1] \in Nat /\ parts[k] = parts[k - 1] + part(k) /\ part(k) \in Nat
    BY <1>2, <1>4, <2>1
  <2>3. L(k) = 40 * (n + 1) + parts[k - 1] /\ L(k + 1) = 40 * (n + 1) + parts[(k + 1) - 1]
    BY <1>5
  <2> QED
    BY <1>1, <2>1, <2>2, <2>3
<1>10. ASSUME NEW k \in 1 .. n
       PROVE  /\ f(k) \in Nat /\ DOMAIN table[k].functions = 1 .. f(k)
              /\ SlotsAt(table, k) = L(k) + 8 * (f(k) + 1)
              /\ LibraryNameAt(table, k) = SlotsAt(table, k) + 8 * (f(k) + 1)
              /\ text(k) \in Nat /\ text(k) > 0
              /\ LibraryNameAt(table, k) + text(k) <= L(k + 1)
              /\ \A j \in 1 .. f(k) :
                   /\ HintAt(table, k, j) \in Nat
                   /\ Hint(table, k, j) \in Nat /\ Hint(table, k, j) > 2
                   /\ HintAt(table, k, j) >= LibraryNameAt(table, k) + text(k)
                   /\ HintAt(table, k, j) + Hint(table, k, j) <= L(k + 1)
              /\ \A i, j \in 1 .. f(k) :
                   i < j => HintAt(table, k, i) + Hint(table, k, i) <= HintAt(table, k, j)
  <2> DEFINE F == f(k)
  <2> DEFINE h == hints(k)
  <2> DEFINE t == text(k)
  <2> DEFINE N == LibraryNameAt(table, k)
  <2> DEFINE at(j) == HintAt(table, k, j)
  <2> DEFINE size(j) == Hint(table, k, j)
  <2>1. /\ F \in Nat /\ DOMAIN table[k].functions = 1 .. F
        /\ ThunksSize(table[k]) = 8 * (F + 1) /\ t \in Nat /\ t > 0
        /\ \A j \in 1 .. F : size(j) \in Nat /\ size(j) > 2 /\ h[j] = h[j - 1] + size(j)
        /\ \A j \in 0 .. F : h[j] \in Nat
        /\ \A i \in 0 .. F : \A j \in i .. F : h[i] <= h[j]
    BY <1>1
  <2>2. L(k) \in Nat /\ L(k + 1) = L(k) + (16 * (F + 1) + t + h[F])
    <3>1. k \in 1 .. n + 1
      BY <1>1
    <3> QED
      BY <1>7, <1>9, <3>1 DEF part
  <2>3. /\ SlotsAt(table, k) = L(k) + 8 * (F + 1)
        /\ N = SlotsAt(table, k) + 8 * (F + 1)
        /\ \A j : at(j) = N + t + h[j - 1]
    BY <1>6, <2>1
  <2> HIDE DEF F, h, t, N, at, size
  <2>4. N \in Nat /\ L(k + 1) = N + t + h[F]
    <3>1. h[F] \in Nat /\ F \in Nat /\ t \in Nat
      BY <2>1
    <3>2. N = L(k) + 8 * (F + 1) + 8 * (F + 1)
      BY <2>3
    <3> QED
      BY <2>2, <3>1, <3>2
  <2>5. N + t <= L(k + 1)
    <3>1. h[F] \in Nat /\ t \in Nat
      BY <2>1
    <3> QED
      BY <2>4, <3>1
  <2>6. ASSUME NEW j \in 1 .. F
        PROVE  at(j) \in Nat /\ at(j) >= N + t /\ at(j) + size(j) <= L(k + 1)
               /\ at(j) + size(j) = N + t + h[j]
    <3>1. j - 1 \in 0 .. F /\ j \in 0 .. F /\ F \in j .. F
      BY <2>1
    <3>2. h[j - 1] \in Nat /\ h[j] \in Nat /\ h[F] \in Nat /\ h[j] <= h[F]
      BY <2>1, <3>1
    <3>3. h[j] = h[j - 1] + size(j) /\ size(j) \in Nat
      BY <2>1
    <3>4. at(j) = N + t + h[j - 1]
      BY <2>3
    <3>5. t \in Nat
      BY <2>1
    <3> QED
      BY <2>4, <3>2, <3>3, <3>4, <3>5
  <2>7. ASSUME NEW i \in 1 .. F, NEW j \in 1 .. F, i < j
        PROVE  at(i) + size(i) <= at(j)
    <3>1. i \in 0 .. F /\ j - 1 \in 0 .. F /\ j - 1 \in i .. F
      BY <2>1, <2>7
    <3>2. h[i] \in Nat /\ h[j - 1] \in Nat /\ h[i] <= h[j - 1]
      BY <2>1, <3>1
    <3>3. at(i) + size(i) = N + t + h[i] /\ at(j) = N + t + h[j - 1]
      BY <2>3, <2>6
    <3>4. t \in Nat
      BY <2>1
    <3> QED
      BY <2>4, <3>2, <3>3, <3>4
  <2> QED
    BY <2>1, <2>3, <2>5, <2>6, <2>7 DEF F, t, N, at, size
<1> QED
  BY <1>1, <1>7, <1>8, <1>10 DEF n, f, text, L

(* An offset is in the part of one library only.                           *)
LEMMA OneLibrary ==
  ASSUME NEW T, NEW table \in Tables(T),
         NEW k \in 1 .. Len(table), NEW m \in 1 .. Len(table), NEW a \in Int,
         LookupAt(table, k) <= a, a < LookupAt(table, k + 1),
         LookupAt(table, m) <= a, a < LookupAt(table, m + 1)
  PROVE  k = m
<1> DEFINE n == Len(table)
<1> DEFINE L(x) == LookupAt(table, x)
<1>1. n \in Nat
  BY PlaceFacts
<1>2. /\ \A x \in 1 .. n + 1 : L(x) \in Nat
      /\ \A x \in 1 .. n + 1 : \A y \in x .. n + 1 : L(x) <= L(y)
  BY PlaceFacts
<1>3. L(k) <= a /\ a < L(k + 1) /\ L(m) <= a /\ a < L(m + 1)
  OBVIOUS
<1> HIDE DEF n, L
<1>4. ASSUME NEW x \in 1 .. n, NEW y \in 1 .. n, x < y, a < L(x + 1), L(y) <= a
      PROVE  FALSE
  <2>1. x + 1 \in 1 .. n + 1 /\ y \in 1 .. n + 1 /\ y \in x + 1 .. n + 1
    BY <1>1, <1>4
  <2>2. L(x + 1) <= L(y) /\ L(x + 1) \in Nat /\ L(y) \in Nat
    BY <1>2, <2>1
  <2> QED
    BY <1>4, <2>2
<1>5. k \in 1 .. n /\ m \in 1 .. n
  BY DEF n
<1>6. k < m \/ m < k \/ k = m
  BY <1>1, <1>5
<1> QED
  BY <1>3, <1>4, <1>5, <1>6

(* A function is filled from pairs of which no two disagree.               *)
LEMMA FilledFacts ==
  ASSUME NEW kind, NEW pairs, \A p, q \in pairs : p[1] = q[1] => p[2] = q[2]
  PROVE  /\ DOMAIN Filled(kind, pairs) = {p[1] : p \in pairs}
         /\ \A p \in pairs : Filled(kind, pairs)[p[1]] = <<kind, p[2]>>
<1> DEFINE value(a) == (CHOOSE p \in pairs : p[1] = a)[2]
<1>1. /\ DOMAIN Filled(kind, pairs) = {p[1] : p \in pairs}
      /\ \A a \in {p[1] : p \in pairs} : Filled(kind, pairs)[a] = <<kind, value(a)>>
  BY DEF Filled
<1>2. ASSUME NEW p \in pairs
      PROVE  value(p[1]) = p[2]
  <2> DEFINE q == CHOOSE q \in pairs : q[1] = p[1]
  <2>1. q \in pairs /\ q[1] = p[1]
    OBVIOUS
  <2> QED
    BY <2>1
<1> HIDE DEF value
<1> QED
  BY <1>1, <1>2

LEMMA ThunkShape ==
  ASSUME NEW T, NEW table \in Tables(T), NEW t
  PROVE  t \in Thunks(table) <=>
           \E k \in 1 .. Len(table) : \E j \in 1 .. Len(table[k].functions) : t = <<k, j>>
<1>1. /\ DOMAIN table = 1 .. Len(table)
      /\ \A k \in 1 .. Len(table) : DOMAIN table[k].functions = 1 .. Len(table[k].functions)
  BY PlaceFacts
<1> QED
  BY <1>1 DEF Thunks

LEMMA NamePlace ==
  ASSUME NEW T, NEW table \in Tables(T), NEW k \in 1 .. Len(table)
  PROVE  /\ LookupAt(table, k) \in Nat /\ LookupAt(table, k + 1) \in Nat
         /\ SlotsAt(table, k) \in Nat /\ LibraryNameAt(table, k) \in Nat
         /\ LookupAt(table, k) < SlotsAt(table, k)
         /\ SlotsAt(table, k) < LibraryNameAt(table, k)
<1>1. k \in 1 .. Len(table) + 1 /\ k + 1 \in 1 .. Len(table) + 1
  BY PlaceFacts
<1>2. LookupAt(table, k) \in Nat /\ LookupAt(table, k + 1) \in Nat
  BY <1>1, PlaceFacts
<1>3. /\ Len(table[k].functions) \in Nat
      /\ SlotsAt(table, k) = LookupAt(table, k) + 8 * (Len(table[k].functions) + 1)
      /\ LibraryNameAt(table, k) = SlotsAt(table, k) + 8 * (Len(table[k].functions) + 1)
  BY PlaceFacts
<1> QED
  BY <1>2, <1>3

(* The strings of a library are in its part, after the slots.              *)
LEMMA StringPlace ==
  ASSUME NEW T, NEW table \in Tables(T), NEW k \in 1 .. Len(table), NEW p,
         \/ p = <<LibraryNameAt(table, k), table[k].dll>>
         \/ \E j \in 1 .. Len(table[k].functions) :
              p = <<HintAt(table, k, j) + 2, table[k].functions[j]>>
  PROVE  /\ p[1] \in Int
         /\ LookupAt(table, k) <= p[1] /\ LibraryNameAt(table, k) <= p[1]
         /\ p[1] < LookupAt(table, k + 1)
<1> DEFINE text == TextSize(table[k].dll)
<1> DEFINE at(j) == HintAt(table, k, j)
<1> DEFINE L == LookupAt(table, k)
<1> DEFINE M == LookupAt(table, k + 1)
<1> DEFINE N == LibraryNameAt(table, k)
<1>1. L \in Nat /\ M \in Nat /\ N \in Nat /\ L <= N
  BY NamePlace
<1>2. /\ text \in Nat /\ text > 0 /\ N + text <= M
      /\ \A j \in 1 .. Len(table[k].functions) :
           /\ at(j) \in Nat /\ Hint(table, k, j) \in Nat /\ Hint(table, k, j) > 2
           /\ at(j) >= N + text /\ at(j) + Hint(table, k, j) <= M
  BY PlaceFacts
<1>3. \/ p[1] = N
      \/ \E j \in 1 .. Len(table[k].functions) : p[1] = at(j) + 2
  OBVIOUS
<1> HIDE DEF text, at, L, M, N
<1>4. ASSUME p[1] = N
      PROVE  p[1] \in Int /\ L <= p[1] /\ N <= p[1] /\ p[1] < M
  BY <1>1, <1>2, <1>4
<1>5. ASSUME NEW j \in 1 .. Len(table[k].functions), p[1] = at(j) + 2
      PROVE  p[1] \in Int /\ L <= p[1] /\ N <= p[1] /\ p[1] < M
  BY <1>1, <1>2, <1>5
<1> QED
  BY <1>1, <1>3, <1>4, <1>5 DEF L, M, N

(* What the strings of an import table are.                                *)
LEMMA StringShape ==
  ASSUME NEW T, NEW table \in Tables(T), NEW p
  PROVE  p \in Strings(table) <=>
           \E k \in 1 .. Len(table) :
             \/ p = <<LibraryNameAt(table, k), table[k].dll>>
             \/ \E j \in 1 .. Len(table[k].functions) :
                  p = <<HintAt(table, k, j) + 2, table[k].functions[j]>>
<1> DEFINE n == Len(table)
<1> DEFINE f(k) == Len(table[k].functions)
<1> DEFINE name(t) == <<HintAt(table, t[1], t[2]) + 2, Imported(table, t)[2]>>
<1>1. DOMAIN table = 1 .. n /\ \A k \in 1 .. n : DOMAIN table[k].functions = 1 .. f(k)
  BY PlaceFacts
<1>2. \A k, j : name(<<k, j>>) = <<HintAt(table, k, j) + 2, table[k].functions[j]>>
  BY DEF Imported
<1>3. p \in Strings(table) <=> \/ \E k \in 1 .. n : p = <<LibraryNameAt(table, k), table[k].dll>>
                               \/ \E t \in Thunks(table) : p = name(t)
  BY <1>1 DEF Strings
<1>4. \A t : t \in Thunks(table) <=> \E k \in 1 .. n : \E j \in 1 .. f(k) : t = <<k, j>>
  BY ThunkShape
<1> HIDE DEF n, f, name
<1>5. (\E t \in Thunks(table) : p = name(t))
        <=> \E k \in 1 .. n : \E j \in 1 .. f(k) : p = name(<<k, j>>)
  <2>1. ASSUME NEW k \in 1 .. n, NEW j \in 1 .. f(k), p = name(<<k, j>>)
        PROVE  \E t \in Thunks(table) : p = name(t)
    <3>1. <<k, j>> \in Thunks(table)
      BY <1>4
    <3> QED
      BY <2>1, <3>1
  <2>2. ASSUME NEW t \in Thunks(table), p = name(t)
        PROVE  \E k \in 1 .. n : \E j \in 1 .. f(k) : p = name(<<k, j>>)
    BY <1>4, <2>2
  <2> QED
    BY <2>1, <2>2
<1> QED
  BY <1>2, <1>3, <1>5 DEF n, f

(* No two of them start at the same place.                                 *)
LEMMA StringsApart ==
  ASSUME NEW T, NEW table \in Tables(T), NEW p \in Strings(table), NEW q \in Strings(table),
         p[1] = q[1]
  PROVE  p[2] = q[2]
<1> DEFINE n == Len(table)
<1> DEFINE f(k) == Len(table[k].functions)
<1> DEFINE at(k, j) == HintAt(table, k, j)
<1> DEFINE name(k) == LibraryNameAt(table, k)
<1>1. PICK k \in 1 .. n : \/ p = <<name(k), table[k].dll>>
                          \/ \E j \in 1 .. f(k) : p = <<at(k, j) + 2, table[k].functions[j]>>
  BY StringShape
<1>2. PICK m \in 1 .. n : \/ q = <<name(m), table[m].dll>>
                          \/ \E j \in 1 .. f(m) : q = <<at(m, j) + 2, table[m].functions[j]>>
  BY StringShape
<1>3. k = m
  <2>1. p[1] \in Int /\ LookupAt(table, k) <= p[1] /\ p[1] < LookupAt(table, k + 1)
    BY <1>1, StringPlace
  <2>2. q[1] \in Int /\ LookupAt(table, m) <= q[1] /\ q[1] < LookupAt(table, m + 1)
    BY <1>2, StringPlace
  <2> QED
    BY <2>1, <2>2, OneLibrary
<1>4. /\ name(k) \in Nat /\ TextSize(table[k].dll) \in Nat /\ TextSize(table[k].dll) > 0
      /\ f(k) \in Nat
      /\ \A j \in 1 .. f(k) :
           /\ at(k, j) \in Nat /\ Hint(table, k, j) \in Nat /\ Hint(table, k, j) > 2
           /\ at(k, j) >= name(k) + TextSize(table[k].dll)
      /\ \A i, j \in 1 .. f(k) : i < j => at(k, i) + Hint(table, k, i) <= at(k, j)
  BY PlaceFacts, NamePlace
<1> HIDE DEF n, f, at, name
<1>5. \A j \in 1 .. f(k) : at(k, j) + 2 # name(k)
  BY <1>4
<1>6. \A i, j \in 1 .. f(k) : at(k, i) + 2 = at(k, j) + 2 => i = j
  <2> SUFFICES ASSUME NEW i \in 1 .. f(k), NEW j \in 1 .. f(k), at(k, i) = at(k, j)
               PROVE  i = j
    BY <1>4
  <2>1. ~(i < j) /\ ~(j < i)
    BY <1>4
  <2> QED
    BY <1>4, <2>1
<1> QED
  BY <1>1, <1>2, <1>3, <1>5, <1>6

(* What the patches of an import table are.                                *)
LEMMA PatchShape ==
  ASSUME NEW T, NEW table \in Tables(T), NEW p
  PROVE  p \in Patches(table) <=>
           \E k \in 1 .. Len(table) :
             \/ p = <<DescriptorAt(k), LookupAt(table, k)>>
             \/ p = <<DescriptorAt(k) + 12, LibraryNameAt(table, k)>>
             \/ p = <<DescriptorAt(k) + 16, SlotsAt(table, k)>>
             \/ \E j \in 1 .. Len(table[k].functions) :
                  \/ p = <<LookupAt(table, k) + 8 * (j - 1), HintAt(table, k, j)>>
                  \/ p = <<SlotsAt(table, k) + 8 * (j - 1), HintAt(table, k, j)>>
<1> DEFINE n == Len(table)
<1> DEFINE f(k) == Len(table[k].functions)
<1> DEFINE lookup(t) == <<LookupAt(table, t[1]) + 8 * (t[2] - 1), HintAt(table, t[1], t[2])>>
<1> DEFINE slot(t) == <<SlotAt(table, t), HintAt(table, t[1], t[2])>>
<1> DEFINE fields(k) == {<<DescriptorAt(k), LookupAt(table, k)>>,
                         <<DescriptorAt(k) + 12, LibraryNameAt(table, k)>>,
                         <<DescriptorAt(k) + 16, SlotsAt(table, k)>>}
<1>1. DOMAIN table = 1 .. n
  BY PlaceFacts
<1>2. \A k, j : /\ lookup(<<k, j>>) = <<LookupAt(table, k) + 8 * (j - 1), HintAt(table, k, j)>>
                /\ slot(<<k, j>>) = <<SlotsAt(table, k) + 8 * (j - 1), HintAt(table, k, j)>>
  BY DEF SlotAt
<1>3. p \in Patches(table)
        <=> \/ \E k \in 1 .. n : p \in fields(k)
            \/ \E t \in Thunks(table) : p = lookup(t)
            \/ \E t \in Thunks(table) : p = slot(t)
  <2> DEFINE A == UNION {fields(k) : k \in DOMAIN table}
  <2> DEFINE B == {lookup(t) : t \in Thunks(table)}
  <2> DEFINE C == {slot(t) : t \in Thunks(table)}
  <2>1. Patches(table) = A \union B \union C
    BY DEF Patches
  <2> HIDE DEF fields, lookup, slot, n
  <2>2. p \in A <=> \E k \in 1 .. n : p \in fields(k)
    BY <1>1
  <2>3. p \in B <=> \E t \in Thunks(table) : p = lookup(t)
    OBVIOUS
  <2>4. p \in C <=> \E t \in Thunks(table) : p = slot(t)
    OBVIOUS
  <2> HIDE DEF A, B, C
  <2> QED
    BY <2>1, <2>2, <2>3, <2>4
<1>4. \A t : t \in Thunks(table) <=> \E k \in 1 .. n : \E j \in 1 .. f(k) : t = <<k, j>>
  BY ThunkShape
<1> HIDE DEF n, f, lookup, slot
<1>5. ASSUME p \in Patches(table)
      PROVE  \E k \in 1 .. n :
               \/ p \in fields(k)
               \/ \E j \in 1 .. f(k) : p = lookup(<<k, j>>) \/ p = slot(<<k, j>>)
  <2> HIDE DEF fields
  <2>1. CASE \E k \in 1 .. n : p \in fields(k)
    BY <2>1
  <2>2. CASE \E t \in Thunks(table) : p = lookup(t) \/ p = slot(t)
    <3>1. PICK t \in Thunks(table) : p = lookup(t) \/ p = slot(t)
      BY <2>2
    <3>2. PICK k \in 1 .. n : \E j \in 1 .. f(k) : t = <<k, j>>
      BY <1>4, <3>1
    <3>3. PICK j \in 1 .. f(k) : t = <<k, j>>
      BY <3>2
    <3> QED
      BY <3>1, <3>3
  <2> QED
    BY <1>3, <1>5, <2>1, <2>2
<1>6. ASSUME NEW k \in 1 .. n, NEW j \in 1 .. f(k), p = lookup(<<k, j>>) \/ p = slot(<<k, j>>)
      PROVE  p \in Patches(table)
  <2>1. <<k, j>> \in Thunks(table)
    BY <1>4
  <2> HIDE DEF fields
  <2> QED
    BY <1>3, <1>6, <2>1
<1>7. ASSUME NEW k \in 1 .. n, p \in fields(k)
      PROVE  p \in Patches(table)
  <2> HIDE DEF fields
  <2> QED
    BY <1>3, <1>7
<1>8. p \in Patches(table) <=>
        \E k \in 1 .. n :
          \/ p \in fields(k)
          \/ \E j \in 1 .. f(k) : p = lookup(<<k, j>>) \/ p = slot(<<k, j>>)
  <2> HIDE DEF fields
  <2> QED
    BY <1>5, <1>6, <1>7
<1>9. \A k : p \in fields(k) <=> \/ p = <<DescriptorAt(k), LookupAt(table, k)>>
                                 \/ p = <<DescriptorAt(k) + 12, LibraryNameAt(table, k)>>
                                 \/ p = <<DescriptorAt(k) + 16, SlotsAt(table, k)>>
  OBVIOUS
<1>10. \A k, j :
         /\ p = lookup(<<k, j>>) <=> p = <<LookupAt(table, k) + 8 * (j - 1), HintAt(table, k, j)>>
         /\ p = slot(<<k, j>>) <=> p = <<SlotsAt(table, k) + 8 * (j - 1), HintAt(table, k, j)>>
  BY <1>2
<1> DEFINE from(k) == \/ p \in fields(k)
                      \/ \E j \in 1 .. f(k) : p = lookup(<<k, j>>) \/ p = slot(<<k, j>>)
<1> DEFINE is(k) ==
      \/ p = <<DescriptorAt(k), LookupAt(table, k)>>
      \/ p = <<DescriptorAt(k) + 12, LibraryNameAt(table, k)>>
      \/ p = <<DescriptorAt(k) + 16, SlotsAt(table, k)>>
      \/ \E j \in 1 .. f(k) : \/ p = <<LookupAt(table, k) + 8 * (j - 1), HintAt(table, k, j)>>
                              \/ p = <<SlotsAt(table, k) + 8 * (j - 1), HintAt(table, k, j)>>
<1> HIDE DEF fields
<1>11. ASSUME NEW k \in 1 .. n
       PROVE  from(k) <=> is(k)
  BY <1>9, <1>10
<1>12. p \in Patches(table) <=> \E k \in 1 .. n : from(k)
  BY <1>8
<1> HIDE DEF from, is
<1>13. p \in Patches(table) <=> \E k \in 1 .. n : is(k)
  BY <1>11, <1>12
<1> QED
  BY <1>13 DEF is, n, f

(* They are before the strings of all libraries: in the descriptors, or in *)
(* the lookup list or the slots of a library.                              *)
LEMMA PatchPlace ==
  ASSUME NEW T, NEW table \in Tables(T), NEW k \in 1 .. Len(table), NEW j \in 1 .. Len(table[k].functions)
  PROVE  /\ LookupAt(table, k) <= LookupAt(table, k) + 8 * (j - 1)
         /\ LookupAt(table, k) + 8 * (j - 1) < LookupAt(table, k) + 8 * Len(table[k].functions)
         /\ LookupAt(table, k) + 8 * Len(table[k].functions) < SlotsAt(table, k)
         /\ SlotsAt(table, k) <= SlotsAt(table, k) + 8 * (j - 1)
         /\ SlotsAt(table, k) + 8 * (j - 1) < LibraryNameAt(table, k)
         /\ LibraryNameAt(table, k) < LookupAt(table, k + 1)
<1> DEFINE f == Len(table[k].functions)
<1> DEFINE L == LookupAt(table, k)
<1> DEFINE M == LookupAt(table, k + 1)
<1> DEFINE S == SlotsAt(table, k)
<1> DEFINE N == LibraryNameAt(table, k)
<1> DEFINE t == TextSize(table[k].dll)
<1>1. L \in Nat /\ M \in Nat /\ S \in Nat /\ N \in Nat
  BY NamePlace
<1>2. /\ f \in Nat /\ S = L + 8 * (f + 1) /\ N = S + 8 * (f + 1)
      /\ t \in Nat /\ t > 0 /\ N + t <= M
  BY PlaceFacts
<1>3. j \in 1 .. f
  OBVIOUS
<1> HIDE DEF f, L, M, S, N, t
<1>4. /\ L <= L + 8 * (j - 1) /\ L + 8 * (j - 1) < L + 8 * f /\ L + 8 * f < S
      /\ S <= S + 8 * (j - 1) /\ S + 8 * (j - 1) < N /\ N < M
  BY <1>1, <1>2, <1>3
<1> QED
  BY <1>4 DEF f, L, M, S, N

LEMMA PatchesApart ==
  ASSUME NEW T, NEW table \in Tables(T), NEW p \in Patches(table), NEW q \in Patches(table),
         p[1] = q[1]
  PROVE  p[2] = q[2]
<1> DEFINE n == Len(table)
<1> DEFINE f(k) == Len(table[k].functions)
<1> DEFINE L(k) == LookupAt(table, k)
<1> DEFINE S(k) == SlotsAt(table, k)
<1> DEFINE N(k) == LibraryNameAt(table, k)
<1> DEFINE at(k, j) == HintAt(table, k, j)
<1> DEFINE field(r, k) == \/ r = <<20 * (k - 1), L(k)>>
                          \/ r = <<20 * (k - 1) + 12, N(k)>>
                          \/ r = <<20 * (k - 1) + 16, S(k)>>
<1> DEFINE thunk(r, k) == \E j \in 1 .. f(k) : \/ r = <<L(k) + 8 * (j - 1), at(k, j)>>
                                             \/ r = <<S(k) + 8 * (j - 1), at(k, j)>>
<1>1. PICK k \in 1 .. n : field(p, k) \/ thunk(p, k)
  BY PatchShape DEF DescriptorAt
<1>2. PICK m \in 1 .. n : field(q, m) \/ thunk(q, m)
  BY PatchShape DEF DescriptorAt
<1>3. n \in Nat /\ \A x \in 1 .. n : L(x) \in Nat /\ S(x) \in Nat /\ N(x) \in Nat /\ L(x) >= 40 * (n + 1)
  <2>1. n \in Nat
    BY PlaceFacts
  <2>2. \A x \in 1 .. n : x \in 1 .. n + 1
    BY <2>1
  <2>3. \A x \in 1 .. n : L(x) >= 40 * (n + 1)
    BY <2>2, PlaceFacts
  <2>4. \A x \in 1 .. n : L(x) \in Nat /\ S(x) \in Nat /\ N(x) \in Nat
    BY NamePlace
  <2> QED
    BY <2>1, <2>3, <2>4
<1>4. \A x \in 1 .. n : \A j \in 1 .. f(x) :
        /\ L(x) <= L(x) + 8 * (j - 1) /\ L(x) + 8 * (j - 1) < S(x)
        /\ S(x) <= S(x) + 8 * (j - 1) /\ S(x) + 8 * (j - 1) < N(x) /\ N(x) < L(x + 1)
  <2> SUFFICES ASSUME NEW x \in 1 .. n, NEW j \in 1 .. f(x)
               PROVE  /\ L(x) <= L(x) + 8 * (j - 1) /\ L(x) + 8 * (j - 1) < S(x)
                      /\ S(x) <= S(x) + 8 * (j - 1) /\ S(x) + 8 * (j - 1) < N(x) /\ N(x) < L(x + 1)
    OBVIOUS
  <2>1. /\ L(x) <= L(x) + 8 * (j - 1) /\ L(x) + 8 * (j - 1) < L(x) + 8 * f(x)
        /\ L(x) + 8 * f(x) < S(x)
        /\ S(x) <= S(x) + 8 * (j - 1) /\ S(x) + 8 * (j - 1) < N(x) /\ N(x) < L(x + 1)
    BY PatchPlace
  <2>2. L(x) \in Nat /\ S(x) \in Nat /\ f(x) \in Nat
    BY <1>3, PlaceFacts
  <2> HIDE DEF L, S, N, f
  <2> QED
    BY <2>1, <2>2
<1>5. \A x \in 1 .. n : f(x) \in Nat /\ L(x + 1) \in Nat
  BY PlaceFacts, NamePlace
<1>6. ASSUME NEW x \in 1 .. n, NEW y \in 1 .. n, NEW a \in Int,
             L(x) <= a, a < L(x + 1), L(y) <= a, a < L(y + 1)
      PROVE  x = y
  BY <1>6, OneLibrary
<1>7. k \in Int /\ m \in Int /\ 1 <= k /\ k <= n /\ 1 <= m /\ m <= n
  BY <1>3
<1> HIDE DEF n, f, L, S, N, at
<1>8. ASSUME NEW x \in 1 .. n, NEW r, field(r, x)
      PROVE  r[1] < 40 * (n + 1)
  BY <1>3, <1>8
<1>9. ASSUME NEW x \in 1 .. n, NEW r, thunk(r, x)
      PROVE  r[1] \in Int /\ L(x) <= r[1] /\ r[1] < L(x + 1) /\ r[1] >= 40 * (n + 1)
  <2>1. PICK j \in 1 .. f(x) : r[1] = L(x) + 8 * (j - 1) \/ r[1] = S(x) + 8 * (j - 1)
    BY <1>9
  <2>2. j \in Int /\ L(x) \in Nat /\ S(x) \in Nat /\ N(x) \in Nat /\ L(x + 1) \in Nat /\ L(x) >= 40 * (n + 1)
    BY <1>3, <1>5
  <2>3. /\ L(x) <= L(x) + 8 * (j - 1) /\ L(x) + 8 * (j - 1) < S(x)
        /\ S(x) <= S(x) + 8 * (j - 1) /\ S(x) + 8 * (j - 1) < N(x) /\ N(x) < L(x + 1)
    BY <1>4
  <2> QED
    BY <1>3, <2>1, <2>2, <2>3
<1>10. CASE field(p, k) /\ field(q, m)
  <2>1. PICK c \in {0, 12, 16} : p[1] = 20 * (k - 1) + c
    BY <1>7, <1>10
  <2>2. PICK d \in {0, 12, 16} : p[1] = 20 * (m - 1) + d
    BY <1>7, <1>10
  <2>3. k = m
    BY <1>7, <2>1, <2>2
  <2>4. 20 * (k - 1) # 20 * (k - 1) + 12 /\ 20 * (k - 1) # 20 * (k - 1) + 16
        /\ 20 * (k - 1) + 12 # 20 * (k - 1) + 16
    BY <1>7
  <2> QED
    BY <1>10, <2>3, <2>4
<1>11. CASE thunk(p, k) /\ thunk(q, m)
  <2>1. k = m
    BY <1>6, <1>9, <1>11
  <2>2. PICK i \in 1 .. f(k) : p = <<L(k) + 8 * (i - 1), at(k, i)>> \/ p = <<S(k) + 8 * (i - 1), at(k, i)>>
    BY <1>11
  <2>3. PICK j \in 1 .. f(k) : q = <<L(k) + 8 * (j - 1), at(k, j)>> \/ q = <<S(k) + 8 * (j - 1), at(k, j)>>
    BY <1>11, <2>1
  <2>4. L(k) \in Nat /\ S(k) \in Nat /\ i \in Int /\ j \in Int
    BY <1>3, <1>5
  <2>5. /\ L(k) + 8 * (i - 1) < S(k) /\ S(k) <= S(k) + 8 * (i - 1)
        /\ L(k) + 8 * (j - 1) < S(k) /\ S(k) <= S(k) + 8 * (j - 1)
    BY <1>4
  <2>6. i = j
    BY <2>2, <2>3, <2>4, <2>5
  <2> QED
    BY <2>2, <2>3, <2>6
<1>12. ~(field(p, k) /\ thunk(q, m)) /\ ~(thunk(p, k) /\ field(q, m))
  <2>1. \A r : \A x \in 1 .. n : thunk(r, x) => r[1] \in Int /\ r[1] >= 40 * (n + 1)
    BY <1>9
  <2>2. \A r : \A x \in 1 .. n : field(r, x) => r[1] < 40 * (n + 1)
    BY <1>8
  <2> HIDE DEF field, thunk
  <2> QED
    BY <1>3, <2>1, <2>2
<1> QED
  BY <1>1, <1>2, <1>10, <1>11, <1>12

(* Where a patch is.                                                       *)
LEMMA WhereAPatchIs ==
  ASSUME NEW T, NEW table \in Tables(T), NEW p \in Patches(table)
  PROVE  /\ p[1] \in Nat
         /\ \/ \E k \in 1 .. Len(table) : \E c \in {0, 12, 16} : p[1] = 20 * (k - 1) + c
            \/ \E k \in 1 .. Len(table) : \E j \in 1 .. Len(table[k].functions) :
                 \/ p[1] = LookupAt(table, k) + 8 * (j - 1)
                 \/ p[1] = SlotsAt(table, k) + 8 * (j - 1)
<1> DEFINE n == Len(table)
<1> DEFINE f(k) == Len(table[k].functions)
<1> DEFINE L(k) == LookupAt(table, k)
<1> DEFINE S(k) == SlotsAt(table, k)
<1>1. PICK k \in 1 .. n : \/ \E c \in {0, 12, 16} : p[1] = 20 * (k - 1) + c
                          \/ \E j \in 1 .. f(k) : \/ p[1] = L(k) + 8 * (j - 1)
                                                  \/ p[1] = S(k) + 8 * (j - 1)
  <2>1. PICK k \in 1 .. n :
          \/ p = <<DescriptorAt(k), LookupAt(table, k)>>
          \/ p = <<DescriptorAt(k) + 12, LibraryNameAt(table, k)>>
          \/ p = <<DescriptorAt(k) + 16, SlotsAt(table, k)>>
          \/ \E j \in 1 .. f(k) :
               \/ p = <<L(k) + 8 * (j - 1), HintAt(table, k, j)>>
               \/ p = <<S(k) + 8 * (j - 1), HintAt(table, k, j)>>
    BY PatchShape
  <2>2. k \in Int
    BY PlaceFacts
  <2> HIDE DEF L, S, f, n
  <2>3. CASE \E j \in 1 .. f(k) : \/ p = <<L(k) + 8 * (j - 1), HintAt(table, k, j)>>
                                \/ p = <<S(k) + 8 * (j - 1), HintAt(table, k, j)>>
    <3>1. \E j \in 1 .. f(k) : p[1] = L(k) + 8 * (j - 1) \/ p[1] = S(k) + 8 * (j - 1)
      BY <2>3
    <3> QED
      BY <3>1
  <2>4. CASE \/ p = <<DescriptorAt(k), LookupAt(table, k)>>
             \/ p = <<DescriptorAt(k) + 12, LibraryNameAt(table, k)>>
             \/ p = <<DescriptorAt(k) + 16, SlotsAt(table, k)>>
    <3>1. p[1] = 20 * (k - 1) + 0 \/ p[1] = 20 * (k - 1) + 12 \/ p[1] = 20 * (k - 1) + 16
      BY <2>2, <2>4 DEF DescriptorAt
    <3>2. \E c \in {0, 12, 16} : p[1] = 20 * (k - 1) + c
      BY <3>1
    <3> QED
      BY <3>2
  <2> QED
    BY <2>1, <2>3, <2>4
<1>2. L(k) \in Nat /\ S(k) \in Nat /\ n \in Nat /\ f(k) \in Nat /\ k \in 1 .. n
  BY PlaceFacts, NamePlace
<1> HIDE DEF n, f, L, S
<1>3. p[1] \in Nat
  BY <1>1, <1>2
<1> QED
  BY <1>1, <1>2, <1>3 DEF n, f, L, S

(* The strings and the patches do not meet.                                *)
LEMMA StringsAfterPatches ==
  ASSUME NEW T, NEW table \in Tables(T), NEW p \in Strings(table), NEW q \in Patches(table)
  PROVE  p[1] # q[1]
<1> DEFINE n == Len(table)
<1> DEFINE L(k) == LookupAt(table, k)
<1> DEFINE N(k) == LibraryNameAt(table, k)
<1> DEFINE a == p[1]
<1> SUFFICES ASSUME q[1] = a
             PROVE  FALSE
  OBVIOUS
<1>1. PICK k \in 1 .. n : \/ p = <<N(k), table[k].dll>>
                          \/ \E j \in 1 .. Len(table[k].functions) :
                               p = <<HintAt(table, k, j) + 2, table[k].functions[j]>>
  BY StringShape
<1>2. a \in Int /\ L(k) <= a /\ N(k) <= a /\ a < L(k + 1)
  BY <1>1, StringPlace
<1>3. n \in Nat /\ L(k) \in Nat /\ L(k) >= 40 * (n + 1)
  <2>1. k \in 1 .. n + 1
    BY PlaceFacts
  <2> QED
    BY <2>1, PlaceFacts
<1>4. CASE \E m \in 1 .. n : \E c \in {0, 12, 16} : a = 20 * (m - 1) + c
  <2> HIDE DEF n, L, N, a
  <2>1. PICK m \in 1 .. n : \E c \in {0, 12, 16} : a = 20 * (m - 1) + c
    BY <1>4
  <2>2. a < 40 * (n + 1)
    BY <1>3, <2>1
  <2> QED
    BY <1>2, <1>3, <2>2
<1>5. CASE \E m \in 1 .. n : \E j \in 1 .. Len(table[m].functions) :
             a = L(m) + 8 * (j - 1) \/ a = SlotsAt(table, m) + 8 * (j - 1)
  <2>1. PICK m \in 1 .. n : \E j \in 1 .. Len(table[m].functions) :
               a = L(m) + 8 * (j - 1) \/ a = SlotsAt(table, m) + 8 * (j - 1)
    BY <1>5
  <2>2. PICK j \in 1 .. Len(table[m].functions) :
               a = L(m) + 8 * (j - 1) \/ a = SlotsAt(table, m) + 8 * (j - 1)
    BY <2>1
  <2>3. /\ L(m) <= L(m) + 8 * (j - 1)
        /\ L(m) + 8 * (j - 1) < L(m) + 8 * Len(table[m].functions)
        /\ L(m) + 8 * Len(table[m].functions) < SlotsAt(table, m)
        /\ SlotsAt(table, m) <= SlotsAt(table, m) + 8 * (j - 1)
        /\ SlotsAt(table, m) + 8 * (j - 1) < N(m) /\ N(m) < L(m + 1)
    BY PatchPlace
  <2>4. /\ L(m) \in Nat /\ L(m + 1) \in Nat /\ SlotsAt(table, m) \in Nat /\ N(m) \in Nat
        /\ Len(table[m].functions) \in Nat
    BY PlaceFacts, NamePlace
  <2>5. L(m) <= a /\ a < N(m) /\ a < L(m + 1)
    <3> DEFINE S == SlotsAt(table, m)
    <3> DEFINE F == Len(table[m].functions)
    <3> DEFINE x == L(m) + 8 * (j - 1)
    <3> DEFINE y == S + 8 * (j - 1)
    <3> DEFINE z == L(m) + 8 * F
    <3>1. /\ L(m) <= x /\ x < z /\ z < S /\ S <= y /\ y < N(m) /\ N(m) < L(m + 1)
          /\ (a = x \/ a = y)
      BY <2>2, <2>3
    <3>2. L(m) \in Nat /\ L(m + 1) \in Nat /\ S \in Nat /\ N(m) \in Nat /\ F \in Nat
      BY <2>4
    <3> HIDE DEF L, N, a, S, F
    <3>3. x \in Int /\ y \in Int /\ z \in Int
      BY <3>2
    <3> HIDE DEF x, y, z
    <3> QED
      BY <1>2, <3>1, <3>2, <3>3
  <2>6. k = m
    BY <1>2, <2>5, OneLibrary
  <2> HIDE DEF L, N, a
  <2> QED
    BY <1>2, <2>4, <2>5, <2>6
<1>6. \/ \E m \in 1 .. n : \E c \in {0, 12, 16} : q[1] = 20 * (m - 1) + c
      \/ \E m \in 1 .. n : \E j \in 1 .. Len(table[m].functions) :
           q[1] = L(m) + 8 * (j - 1) \/ q[1] = SlotsAt(table, m) + 8 * (j - 1)
  BY WhereAPatchIs
<1>7. q[1] = a
  OBVIOUS
<1> HIDE DEF n, L, N, a
<1> QED
  BY <1>4, <1>5, <1>6, <1>7

-----------------------------------------------------------------------------
(* What .idata holds after patching.                                       *)
LEMMA CellFacts ==
  ASSUME NEW T, NEW table \in Tables(T), NEW rva \in Nat
  PROVE  LET cell == Patched(Idata(table), table, rva).cell
         IN  /\ DOMAIN cell = {p[1] : p \in Strings(table)} \union {p[1] : p \in Patches(table)}
             /\ \A p \in Strings(table) : cell[p[1]] = <<"string", p[2]>>
             /\ \A p \in Patches(table) : cell[p[1]] = <<"dword", rva + p[2]>>
<1> DEFINE moved == {<<p[1], rva + p[2]>> : p \in Patches(table)}
<1> DEFINE strings == Filled("string", Strings(table))
<1> DEFINE dwords == Filled("dword", moved)
<1> DEFINE cell == Patched(Idata(table), table, rva).cell
<1>1. /\ DOMAIN strings = {p[1] : p \in Strings(table)}
      /\ \A p \in Strings(table) : strings[p[1]] = <<"string", p[2]>>
  <2>1. \A p, q \in Strings(table) : p[1] = q[1] => p[2] = q[2]
    BY StringsApart
  <2> QED
    BY <2>1, FilledFacts
<1>2. /\ DOMAIN dwords = {p[1] : p \in moved}
      /\ \A p \in moved : dwords[p[1]] = <<"dword", p[2]>>
  <2>1. \A p, q \in Patches(table) : p[1] = q[1] => p[2] = q[2]
    BY PatchesApart
  <2>2. \A p, q \in moved : p[1] = q[1] => p[2] = q[2]
    BY <2>1
  <2> HIDE DEF moved
  <2> QED
    BY <2>2, FilledFacts
<1>3. /\ {p[1] : p \in moved} = {p[1] : p \in Patches(table)}
      /\ \A p \in Patches(table) : <<p[1], rva + p[2]>> \in moved
  <2>1. \A p \in Patches(table) : <<p[1], rva + p[2]>> \in moved
    OBVIOUS
  <2>2. \A q \in moved : \E p \in Patches(table) : q[1] = p[1]
    OBVIOUS
  <2>3. \A p \in Patches(table) : \E q \in moved : q[1] = p[1]
    <3> SUFFICES ASSUME NEW p \in Patches(table)
                 PROVE  \E q \in moved : q[1] = p[1]
      OBVIOUS
    <3>1. <<p[1], rva + p[2]>>[1] = p[1]
      OBVIOUS
    <3> HIDE DEF moved
    <3> QED
      BY <2>1, <3>1
  <2> HIDE DEF moved
  <2>4. {p[1] : p \in moved} = {p[1] : p \in Patches(table)}
    BY <2>2, <2>3
  <2> QED
    BY <2>1, <2>4
<1>4. /\ DOMAIN cell = DOMAIN strings \union DOMAIN dwords
      /\ \A a \in DOMAIN cell : cell[a] = IF a \in DOMAIN strings THEN strings[a] ELSE dwords[a]
  BY DEF Patched, Idata, Over
<1>5. \A p \in Strings(table), q \in Patches(table) : p[1] # q[1]
  BY StringsAfterPatches
<1> HIDE DEF moved, strings, dwords, cell
<1>6. \A p \in Strings(table) : cell[p[1]] = <<"string", p[2]>>
  BY <1>1, <1>4
<1>7. ASSUME NEW p \in Patches(table)
      PROVE  cell[p[1]] = <<"dword", rva + p[2]>>
  <2> DEFINE q == <<p[1], rva + p[2]>>
  <2>1. q \in moved /\ q[1] = p[1] /\ q[2] = rva + p[2]
    BY <1>3
  <2> HIDE DEF q
  <2>2. p[1] \in DOMAIN dwords /\ dwords[p[1]] = <<"dword", rva + p[2]>>
    BY <1>2, <2>1
  <2>3. p[1] \notin DOMAIN strings
    BY <1>1, <1>5
  <2> QED
    BY <1>4, <2>2, <2>3
<1>8. DOMAIN cell = {p[1] : p \in Strings(table)} \union {p[1] : p \in Patches(table)}
  BY <1>1, <1>2, <1>3, <1>4
<1> QED
  BY <1>6, <1>7, <1>8 DEF cell

(* The parts of all libraries are within the table.                        *)
LEMMA WithinTable ==
  ASSUME NEW T, NEW table \in Tables(T), NEW k \in 1 .. Len(table)
  PROVE  /\ LookupAt(table, k + 1) <= LookupAt(table, Len(table) + 1)
         /\ LookupAt(table, k) >= 40 * (Len(table) + 1)
         /\ LookupAt(table, Len(table) + 1) \in Nat
         /\ LookupAt(table, Len(table) + 1) >= 40 * (Len(table) + 1)
<1>1. Len(table) \in Nat
  BY PlaceFacts
<1>2. /\ k \in 1 .. Len(table) + 1 /\ k + 1 \in 1 .. Len(table) + 1
      /\ Len(table) + 1 \in k + 1 .. Len(table) + 1
      /\ Len(table) + 1 \in 1 .. Len(table) + 1
  BY <1>1
<1>3. \A x \in 1 .. Len(table) + 1 : LookupAt(table, x) \in Nat /\ LookupAt(table, x) >= 40 * (Len(table) + 1)
  BY PlaceFacts
<1>4. LookupAt(table, k + 1) <= LookupAt(table, Len(table) + 1)
  BY <1>2, PlaceFacts
<1> QED
  BY <1>2, <1>3, <1>4

(* The patched import table fits its section.                              *)
THEOREM ImportTableFits ==
  ASSUME NEW T, NEW table \in Tables(T), NEW rva \in Nat
  PROVE  Fits(Patched(Idata(table), table, rva))
<1> DEFINE n == Len(table)
<1> DEFINE idata == Patched(Idata(table), table, rva)
<1> DEFINE end == LookupAt(table, n + 1)
<1>1. idata.size = end
  BY DEF Patched, Idata
<1>2. n \in Nat /\ end \in Nat /\ end >= 40 * (n + 1)
  <2>1. n \in Nat
    BY PlaceFacts
  <2>2. n + 1 \in 1 .. n + 1
    BY <2>1
  <2> QED
    BY <2>1, <2>2, PlaceFacts
<1>3. DOMAIN idata.cell = {p[1] : p \in Strings(table)} \union {p[1] : p \in Patches(table)}
  BY CellFacts
<1> HIDE DEF idata
<1>4. ASSUME NEW p \in Strings(table)
      PROVE  p[1] \in 0 .. end - 1
  <2>1. PICK k \in 1 .. n : \/ p = <<LibraryNameAt(table, k), table[k].dll>>
                            \/ \E j \in 1 .. Len(table[k].functions) :
                                 p = <<HintAt(table, k, j) + 2, table[k].functions[j]>>
    BY StringShape
  <2>2. p[1] \in Int /\ LookupAt(table, k) <= p[1] /\ p[1] < LookupAt(table, k + 1)
    BY <2>1, StringPlace
  <2>3. LookupAt(table, k) \in Nat /\ LookupAt(table, k + 1) \in Nat /\ LookupAt(table, k + 1) <= end
    BY NamePlace, WithinTable
  <2> HIDE DEF end
  <2> QED
    BY <1>2, <2>2, <2>3
<1>5. ASSUME NEW p \in Patches(table)
      PROVE  p[1] \in 0 .. end - 1
  <2>1. CASE \E k \in 1 .. n : \E c \in {0, 12, 16} : p[1] = 20 * (k - 1) + c
    <3> HIDE DEF n, end
    <3>1. PICK k \in 1 .. n : \E c \in {0, 12, 16} : p[1] = 20 * (k - 1) + c
      BY <2>1
    <3>2. k \in Int /\ 1 <= k /\ k <= n
      BY <1>2
    <3>3. p[1] \in Int /\ 0 <= p[1] /\ p[1] < 40 * (n + 1)
      BY <1>2, <3>1, <3>2
    <3> QED
      BY <1>2, <3>3
  <2>2. CASE \E k \in 1 .. n : \E j \in 1 .. Len(table[k].functions) :
               \/ p[1] = LookupAt(table, k) + 8 * (j - 1)
               \/ p[1] = SlotsAt(table, k) + 8 * (j - 1)
    <3>1. PICK k \in 1 .. n : \E j \in 1 .. Len(table[k].functions) :
                 \/ p[1] = LookupAt(table, k) + 8 * (j - 1)
                 \/ p[1] = SlotsAt(table, k) + 8 * (j - 1)
      BY <2>2
    <3>2. PICK j \in 1 .. Len(table[k].functions) :
                 \/ p[1] = LookupAt(table, k) + 8 * (j - 1)
                 \/ p[1] = SlotsAt(table, k) + 8 * (j - 1)
      BY <3>1
    <3> DEFINE L == LookupAt(table, k)
    <3> DEFINE M == LookupAt(table, k + 1)
    <3> DEFINE S == SlotsAt(table, k)
    <3> DEFINE N == LibraryNameAt(table, k)
    <3> DEFINE f == Len(table[k].functions)
    <3>3. /\ L <= L + 8 * (j - 1) /\ L + 8 * (j - 1) < L + 8 * f /\ L + 8 * f < S
          /\ S <= S + 8 * (j - 1) /\ S + 8 * (j - 1) < N /\ N < M
      BY PatchPlace
    <3>4. L \in Nat /\ M \in Nat /\ S \in Nat /\ N \in Nat /\ f \in Nat /\ M <= end /\ p[1] \in Nat
      BY NamePlace, WithinTable, PlaceFacts, WhereAPatchIs
    <3>5. p[1] = L + 8 * (j - 1) \/ p[1] = S + 8 * (j - 1)
      BY <3>2
    <3> HIDE DEF L, M, S, N, f, end
    <3> QED
      BY <1>2, <3>3, <3>4, <3>5
  <2> QED
    BY <2>1, <2>2, WhereAPatchIs
<1> HIDE DEF end
<1> QED
  BY <1>1, <1>2, <1>3, <1>4, <1>5 DEF Fits, idata

LEMMA NameInside ==
  ASSUME NEW T, NEW table \in Tables(T), NEW k \in 1 .. Len(table)
  PROVE  LibraryNameAt(table, k) < LookupAt(table, k + 1)
<1> DEFINE t == TextSize(table[k].dll)
<1> DEFINE N == LibraryNameAt(table, k)
<1> DEFINE M == LookupAt(table, k + 1)
<1>1. t \in Nat /\ t > 0 /\ N + t <= M
  BY PlaceFacts
<1>2. N \in Nat /\ M \in Nat
  BY NamePlace
<1> HIDE DEF t, N, M
<1>3. N < M
  BY <1>1, <1>2
<1> QED
  BY <1>3 DEF N, M

(* The list of descriptors and the lists of thunks have an empty entry     *)
(* after them.                                                             *)
LEMMA EmptyEntries ==
  ASSUME NEW T, NEW table \in Tables(T), NEW rva \in Nat
  PROVE  LET cell == Patched(Idata(table), table, rva).cell
         IN  /\ 20 * Len(table) + 12 \notin DOMAIN cell
             /\ \A k \in 1 .. Len(table) :
                  LookupAt(table, k) + 8 * Len(table[k].functions) \notin DOMAIN cell
<1> DEFINE n == Len(table)
<1> DEFINE cell == Patched(Idata(table), table, rva).cell
<1> DEFINE f(k) == Len(table[k].functions)
<1> DEFINE L(k) == LookupAt(table, k)
<1> DEFINE S(k) == SlotsAt(table, k)
<1> DEFINE N(k) == LibraryNameAt(table, k)
<1>1. DOMAIN cell = {p[1] : p \in Strings(table)} \union {p[1] : p \in Patches(table)}
  BY CellFacts
<1>2. n \in Nat /\ \A k \in 1 .. n : /\ L(k) \in Nat /\ L(k + 1) \in Nat /\ S(k) \in Nat /\ N(k) \in Nat
                                   /\ f(k) \in Nat /\ L(k) >= 40 * (n + 1)
                                   /\ S(k) = L(k) + 8 * (f(k) + 1) /\ N(k) = S(k) + 8 * (f(k) + 1)
  BY NamePlace, WithinTable, PlaceFacts
<1>3. ASSUME NEW p \in Strings(table)
      PROVE  \E k \in 1 .. n : p[1] \in Int /\ L(k) <= p[1] /\ N(k) <= p[1] /\ p[1] < L(k + 1)
  <2>1. PICK k \in 1 .. n : \/ p = <<N(k), table[k].dll>>
                            \/ \E j \in 1 .. f(k) : p = <<HintAt(table, k, j) + 2, table[k].functions[j]>>
    BY StringShape
  <2>2. p[1] \in Int /\ L(k) <= p[1] /\ N(k) <= p[1] /\ p[1] < L(k + 1)
    BY <2>1, StringPlace
  <2> QED
    BY <2>2
<1>4. ASSUME NEW p \in Patches(table)
      PROVE  /\ p[1] \in Nat
             /\ \/ \E k \in 1 .. n : \E c \in {0, 12, 16} : p[1] = 20 * (k - 1) + c
                \/ \E k \in 1 .. n : \E j \in 1 .. f(k) :
                     p[1] = L(k) + 8 * (j - 1) \/ p[1] = S(k) + 8 * (j - 1)
  BY WhereAPatchIs
<1>5. ASSUME NEW k \in 1 .. n, NEW j \in 1 .. f(k)
      PROVE  /\ L(k) <= L(k) + 8 * (j - 1) /\ L(k) + 8 * (j - 1) < L(k) + 8 * f(k) /\ L(k) + 8 * f(k) < S(k)
             /\ S(k) <= S(k) + 8 * (j - 1) /\ S(k) + 8 * (j - 1) < N(k) /\ N(k) < L(k + 1)
  BY PatchPlace
<1>6. ASSUME NEW k \in 1 .. n, NEW m \in 1 .. n, NEW a \in Int,
             L(k) <= a, a < L(k + 1), L(m) <= a, a < L(m + 1)
      PROVE  k = m
  BY <1>6, OneLibrary
<1>7. \A k \in 1 .. n : N(k) < L(k + 1)
  BY NameInside
<1> HIDE DEF n, cell, f, L, S, N
<1>8. 20 * n + 12 \notin DOMAIN cell
  <2>1. ASSUME NEW p \in Strings(table)
        PROVE  p[1] # 20 * n + 12
    BY <1>2, <1>3
  <2>2. ASSUME NEW p \in Patches(table), p[1] = 20 * n + 12
        PROVE  FALSE
    <3>1. CASE \E k \in 1 .. n : \E c \in {0, 12, 16} : p[1] = 20 * (k - 1) + c
      <4>1. PICK k \in 1 .. n : \E c \in {0, 12, 16} : p[1] = 20 * (k - 1) + c
        BY <3>1
      <4>2. k \in Int /\ k <= n
        BY <1>2
      <4> QED
        BY <1>2, <2>2, <4>1, <4>2
    <3>2. ASSUME NEW k \in 1 .. n, NEW j \in 1 .. f(k),
                 p[1] = L(k) + 8 * (j - 1) \/ p[1] = S(k) + 8 * (j - 1)
          PROVE  FALSE
      <4>1. /\ L(k) <= L(k) + 8 * (j - 1) /\ L(k) + 8 * f(k) < S(k)
            /\ S(k) <= S(k) + 8 * (j - 1)
        BY <1>5
      <4>2. L(k) \in Nat /\ S(k) \in Nat /\ f(k) \in Nat /\ L(k) >= 40 * (n + 1)
        BY <1>2
      <4> QED
        BY <1>2, <2>2, <3>2, <4>1, <4>2
    <3> QED
      BY <1>4, <3>1, <3>2
  <2> QED
    BY <1>1, <2>1, <2>2
<1>9. ASSUME NEW k \in 1 .. n
      PROVE  L(k) + 8 * f(k) \notin DOMAIN cell
  <2> DEFINE a == L(k) + 8 * f(k)
  <2>1. a \in Nat /\ L(k) <= a /\ a < S(k) /\ a < N(k) /\ a < L(k + 1) /\ a >= 40 * (n + 1)
    <3>1. /\ L(k) \in Nat /\ L(k + 1) \in Nat /\ f(k) \in Nat /\ L(k) >= 40 * (n + 1)
          /\ S(k) = L(k) + 8 * (f(k) + 1) /\ N(k) = S(k) + 8 * (f(k) + 1) /\ N(k) < L(k + 1)
      BY <1>2, <1>7
    <3> QED
      BY <1>2, <3>1
  <2>2. a = L(k) + 8 * f(k)
    OBVIOUS
  <2> HIDE DEF a
  <2>3. ASSUME NEW p \in Strings(table), p[1] = a
        PROVE  FALSE
    <3>1. PICK m \in 1 .. n : L(m) <= a /\ N(m) <= a /\ a < L(m + 1)
      BY <1>3, <2>3
    <3>2. k = m
      BY <1>6, <2>1, <3>1
    <3> QED
      BY <1>2, <2>1, <3>1, <3>2
  <2>4. ASSUME NEW p \in Patches(table), p[1] = a
        PROVE  FALSE
    <3>1. CASE \E m \in 1 .. n : \E c \in {0, 12, 16} : p[1] = 20 * (m - 1) + c
      <4>1. PICK m \in 1 .. n : \E c \in {0, 12, 16} : p[1] = 20 * (m - 1) + c
        BY <3>1
      <4>2. m \in Int /\ m <= n
        BY <1>2
      <4> QED
        BY <1>2, <2>1, <2>4, <4>1, <4>2
    <3>2. ASSUME NEW m \in 1 .. n, NEW j \in 1 .. f(m),
                 p[1] = L(m) + 8 * (j - 1) \/ p[1] = S(m) + 8 * (j - 1)
          PROVE  FALSE
      <4>1. /\ L(m) <= L(m) + 8 * (j - 1) /\ L(m) + 8 * (j - 1) < L(m) + 8 * f(m)
            /\ L(m) + 8 * f(m) < S(m) /\ S(m) <= S(m) + 8 * (j - 1)
            /\ S(m) + 8 * (j - 1) < N(m) /\ N(m) < L(m + 1)
        BY <1>5
      <4>2. L(m) \in Nat /\ S(m) \in Nat /\ N(m) \in Nat /\ L(m + 1) \in Nat /\ f(m) \in Nat
        BY <1>2
      <4>3. L(m) <= a /\ a < L(m + 1)
        BY <2>1, <2>4, <3>2, <4>1, <4>2
      <4>4. k = m
        BY <1>6, <2>1, <4>3
      <4>5. a = L(m) + 8 * f(m) /\ a < S(m)
        BY <2>1, <2>2, <4>4
      <4> QED
        BY <2>4, <3>2, <4>1, <4>2, <4>5
    <3> QED
      BY <1>4, <3>1, <3>2
  <2> QED
    BY <1>1, <2>2, <2>3, <2>4
<1> QED
  BY <1>8, <1>9 DEF n, cell, f, L

-----------------------------------------------------------------------------
(* The bytes in memory from an address on are those of a section.          *)
Placed(memory, rva, cell) ==
  /\ \A x \in Nat : rva + x \in DOMAIN memory <=> x \in DOMAIN cell
  /\ \A x \in DOMAIN cell : memory[rva + x] = cell[x]

(* They are those of .idata from its address on.                           *)
LEMMA IdataInMemory ==
  ASSUME NEW sections, AllFit(sections)
  PROVE  LET memory == Mapped(SectionHeaders(sections, Rvas(sections)),
                              WrittenBytes(sections).cell)
             rva == Rvas(sections)["idata"]
             cell == sections["idata"].cell
         IN  /\ rva \in Nat /\ rva > 0
             /\ Placed(memory, rva, cell)
<1> DEFINE memory == Mapped(SectionHeaders(sections, Rvas(sections)), WrittenBytes(sections).cell)
<1> DEFINE rvas == Rvas(sections)
<1> DEFINE cell(name) == sections[name].cell
<1> DEFINE size(name) == sections[name].size
<1> DEFINE raw(name) == RawSize(sections[name])
<1>1. DOMAIN sections = {"text", "rdata", "idata"}
  BY Given DEF AllFit
<1>2. \A name \in {"text", "rdata", "idata"} :
        /\ size(name) \in Nat /\ DOMAIN cell(name) \subseteq 0 .. size(name) - 1
        /\ raw(name) \in Nat /\ size(name) <= raw(name)
  BY Given, RawFacts DEF AllFit, Fits
<1>3. /\ \A name \in {"text", "rdata", "idata"} : rvas[name] \in Nat /\ rvas[name] >= HeadersSize
      /\ rvas["text"] + raw("text") <= rvas["rdata"]
      /\ rvas["rdata"] + raw("rdata") <= rvas["idata"]
  BY Given, RvaFacts
<1>4. /\ DOMAIN memory = UNION {{rvas[name] + a : a \in DOMAIN cell(name)} : name \in DOMAIN sections}
      /\ \A name \in DOMAIN sections : \A a \in DOMAIN cell(name) :
           memory[rvas[name] + a] = cell(name)[a]
  BY LoadedInPlace DEF FoundInMemory
<1>5. HeadersSize \in Nat /\ HeadersSize > 0
  BY Given
<1> HIDE DEF memory, rvas, cell, size, raw
<1>6. ASSUME NEW p \in DOMAIN memory
      PROVE  \E name \in {"text", "rdata", "idata"} : \E a \in DOMAIN cell(name) : p = rvas[name] + a
  BY <1>1, <1>4
<1>7. ASSUME NEW x \in Nat, rvas["idata"] + x \in DOMAIN memory
      PROVE  x \in DOMAIN cell("idata")
  <2>1. PICK name \in {"text", "rdata", "idata"} :
               \E a \in DOMAIN cell(name) : rvas["idata"] + x = rvas[name] + a
    BY <1>6, <1>7
  <2>2. PICK a \in DOMAIN cell(name) : rvas["idata"] + x = rvas[name] + a
    BY <2>1
  <2>3. a \in Nat /\ a < raw(name) /\ raw(name) \in Nat
    BY <1>2
  <2>4. rvas[name] \in Nat /\ rvas["idata"] \in Nat
    BY <1>3
  <2>5. CASE name = "idata"
    BY <2>2, <2>3, <2>4, <2>5
  <2>6. CASE name # "idata"
    <3>1. rvas[name] + raw(name) <= rvas["idata"]
      BY <1>2, <1>3, <2>6
    <3> QED
      BY <2>2, <2>3, <2>4, <3>1
  <2> QED
    BY <2>5, <2>6
<1>8. ASSUME NEW x \in DOMAIN cell("idata")
      PROVE  rvas["idata"] + x \in DOMAIN memory /\ memory[rvas["idata"] + x] = cell("idata")[x]
  BY <1>1, <1>4
<1>9. rvas["idata"] \in Nat /\ rvas["idata"] > 0
  BY <1>3, <1>5
<1> QED
  BY <1>7, <1>8, <1>9 DEF Placed, memory, rvas, cell

(* What the loader reads of the table at an address where it is.           *)
LEMMA WhatIsRead ==
  ASSUME NEW T, NEW table \in Tables(T), NEW memory, NEW rva \in Nat, rva > 0,
         Placed(memory, rva, Patched(Idata(table), table, rva).cell)
  PROVE  /\ \A p \in Patches(table) : DwordAt(memory, rva + p[1]) = rva + p[2]
         /\ \A x \in Nat :
              x \notin DOMAIN Patched(Idata(table), table, rva).cell => DwordAt(memory, rva + x) = 0
         /\ \A p \in Strings(table) : NameAt(memory, rva + p[1]) = p[2]
<1> DEFINE cell == Patched(Idata(table), table, rva).cell
<1>1. DOMAIN cell = {p[1] : p \in Strings(table)} \union {p[1] : p \in Patches(table)}
  BY CellFacts
<1>2. \A p \in Strings(table) : cell[p[1]] = <<"string", p[2]>>
  BY CellFacts
<1>3. \A p \in Patches(table) : cell[p[1]] = <<"dword", rva + p[2]>>
  BY CellFacts
<1>4. \A x \in DOMAIN cell : x \in Nat
  <2>1. Fits(Patched(Idata(table), table, rva))
    BY ImportTableFits
  <2> QED
    BY <2>1 DEF Fits
<1>0. Placed(memory, rva, cell)
  OBVIOUS
<1> HIDE DEF cell
<1>5. ASSUME NEW p \in Patches(table)
      PROVE  DwordAt(memory, rva + p[1]) = rva + p[2]
  <2>1. p[1] \in DOMAIN cell
    BY <1>1
  <2>2. rva + p[1] \in DOMAIN memory
    BY <1>0, <1>4, <2>1 DEF Placed
  <2>3. memory[rva + p[1]] = <<"dword", rva + p[2]>>
    BY <1>0, <1>3, <1>4, <2>1 DEF Placed
  <2> QED
    BY <2>2, <2>3 DEF DwordAt
<1>6. ASSUME NEW p \in Strings(table)
      PROVE  NameAt(memory, rva + p[1]) = p[2]
  <2>1. p[1] \in DOMAIN cell
    BY <1>1
  <2>2. rva + p[1] \in DOMAIN memory
    BY <1>0, <1>4, <2>1 DEF Placed
  <2>3. memory[rva + p[1]] = <<"string", p[2]>>
    BY <1>0, <1>2, <1>4, <2>1 DEF Placed
  <2> QED
    BY <2>2, <2>3 DEF NameAt
<1>7. ASSUME NEW x \in Nat, x \notin DOMAIN cell
      PROVE  DwordAt(memory, rva + x) = 0
  <2>1. rva + x \notin DOMAIN memory
    BY <1>0, <1>7 DEF Placed
  <2> QED
    BY <2>1 DEF DwordAt
<1> QED
  BY <1>5, <1>6, <1>7 DEF cell

LEMMA Associates ==
  ASSUME NEW r \in Nat, NEW a \in Nat, NEW b \in Nat
  PROVE  r + a + b = r + (a + b) /\ a + b \in Nat
OBVIOUS

(* The fields the loader reads, one library and one function at a time.    *)
LEMMA EntriesRead ==
  ASSUME NEW T, NEW table \in Tables(T), NEW memory, NEW rva \in Nat, rva > 0,
         Placed(memory, rva, Patched(Idata(table), table, rva).cell)
  PROVE  LET n == Len(table)
             f(k) == Len(table[k].functions)
         IN  /\ \A k \in 1 .. n :
                  /\ DwordAt(memory, rva + 20 * (k - 1) + 0) = rva + LookupAt(table, k)
                  /\ DwordAt(memory, rva + 20 * (k - 1) + 12) = rva + LibraryNameAt(table, k)
                  /\ DwordAt(memory, rva + 20 * (k - 1) + 16) = rva + SlotsAt(table, k)
                  /\ NameAt(memory, rva + LibraryNameAt(table, k)) = table[k].dll
                  /\ DwordAt(memory, rva + LookupAt(table, k) + 8 * f(k)) = 0
                  /\ \A j \in 1 .. f(k) :
                       /\ DwordAt(memory, rva + LookupAt(table, k) + 8 * (j - 1))
                            = rva + HintAt(table, k, j)
                       /\ NameAt(memory, rva + HintAt(table, k, j) + 2) = table[k].functions[j]
             /\ DwordAt(memory, rva + 20 * n + 12) = 0
<1> DEFINE cell == Patched(Idata(table), table, rva).cell
<1> DEFINE n == Len(table)
<1> DEFINE f(k) == Len(table[k].functions)
<1>1. /\ \A p \in Patches(table) : DwordAt(memory, rva + p[1]) = rva + p[2]
      /\ \A x \in Nat : x \notin DOMAIN cell => DwordAt(memory, rva + x) = 0
      /\ \A p \in Strings(table) : NameAt(memory, rva + p[1]) = p[2]
  BY WhatIsRead
<1>2. \A x \in Nat : x \notin DOMAIN cell => DwordAt(memory, rva + x) = 0
  BY <1>1
<1>3. \A p \in Strings(table) : NameAt(memory, rva + p[1]) = p[2]
  BY <1>1
<1>4. \A a \in Nat : \A b : <<a, b>> \in Patches(table) => DwordAt(memory, rva + a) = rva + b
  <2> SUFFICES ASSUME NEW a \in Nat, NEW b, <<a, b>> \in Patches(table)
               PROVE  DwordAt(memory, rva + a) = rva + b
    OBVIOUS
  <2> QED
    BY <1>1
<1>5. \A a \in Nat : \A b : <<a, b>> \in Strings(table) => NameAt(memory, rva + a) = b
  <2> SUFFICES ASSUME NEW a \in Nat, NEW b, <<a, b>> \in Strings(table)
               PROVE  NameAt(memory, rva + a) = b
    OBVIOUS
  <2> QED
    BY <1>3
<1>6. n \in Nat
  BY PlaceFacts
<1>7. ASSUME NEW k \in 1 .. n
      PROVE  /\ DwordAt(memory, rva + 20 * (k - 1) + 0) = rva + LookupAt(table, k)
             /\ DwordAt(memory, rva + 20 * (k - 1) + 12) = rva + LibraryNameAt(table, k)
             /\ DwordAt(memory, rva + 20 * (k - 1) + 16) = rva + SlotsAt(table, k)
  <2>1. /\ <<DescriptorAt(k), LookupAt(table, k)>> \in Patches(table)
        /\ <<DescriptorAt(k) + 12, LibraryNameAt(table, k)>> \in Patches(table)
        /\ <<DescriptorAt(k) + 16, SlotsAt(table, k)>> \in Patches(table)
    BY PatchShape
  <2>2. 20 * (k - 1) \in Nat
    BY <1>6
  <2>3. DescriptorAt(k) \in Nat /\ DescriptorAt(k) = 20 * (k - 1)
    BY <2>2 DEF DescriptorAt
  <2>4. /\ rva + DescriptorAt(k) + 0 = rva + (DescriptorAt(k) + 0) /\ DescriptorAt(k) + 0 = DescriptorAt(k)
        /\ rva + DescriptorAt(k) + 12 = rva + (DescriptorAt(k) + 12) /\ DescriptorAt(k) + 12 \in Nat
        /\ rva + DescriptorAt(k) + 16 = rva + (DescriptorAt(k) + 16) /\ DescriptorAt(k) + 16 \in Nat
    BY <2>3, Associates
  <2> QED
    BY <1>4, <2>1, <2>3, <2>4
<1>8. ASSUME NEW k \in 1 .. n
      PROVE  /\ NameAt(memory, rva + LibraryNameAt(table, k)) = table[k].dll
             /\ DwordAt(memory, rva + LookupAt(table, k) + 8 * f(k)) = 0
  <2>1. LibraryNameAt(table, k) \in Nat /\ LookupAt(table, k) \in Nat /\ f(k) \in Nat
    BY NamePlace, PlaceFacts
  <2>2. <<LibraryNameAt(table, k), table[k].dll>> \in Strings(table)
    BY StringShape
  <2>3. LookupAt(table, k) + 8 * f(k) \notin DOMAIN cell
    BY EmptyEntries
  <2> HIDE DEF f
  <2>4. /\ LookupAt(table, k) + 8 * f(k) \in Nat
        /\ rva + LookupAt(table, k) + 8 * f(k) = rva + (LookupAt(table, k) + 8 * f(k))
    <3>1. 8 * f(k) \in Nat
      BY <2>1
    <3> QED
      BY <2>1, <3>1, Associates
  <2> QED
    BY <1>2, <1>5, <2>1, <2>2, <2>3, <2>4
<1>9. ASSUME NEW k \in 1 .. n, NEW j \in 1 .. f(k)
      PROVE  /\ DwordAt(memory, rva + LookupAt(table, k) + 8 * (j - 1)) = rva + HintAt(table, k, j)
             /\ NameAt(memory, rva + HintAt(table, k, j) + 2) = table[k].functions[j]
  <2>1. LookupAt(table, k) \in Nat /\ HintAt(table, k, j) \in Nat /\ f(k) \in Nat
    BY NamePlace, PlaceFacts
  <2>2. <<LookupAt(table, k) + 8 * (j - 1), HintAt(table, k, j)>> \in Patches(table)
    BY PatchShape
  <2>3. <<HintAt(table, k, j) + 2, table[k].functions[j]>> \in Strings(table)
    BY StringShape
  <2>4. /\ LookupAt(table, k) + 8 * (j - 1) \in Nat
        /\ rva + LookupAt(table, k) + 8 * (j - 1) = rva + (LookupAt(table, k) + 8 * (j - 1))
    <3>1. 8 * (j - 1) \in Nat
      BY <2>1
    <3> QED
      BY <2>1, <3>1, Associates
  <2>5. /\ HintAt(table, k, j) + 2 \in Nat
        /\ rva + HintAt(table, k, j) + 2 = rva + (HintAt(table, k, j) + 2)
    BY <2>1, Associates
  <2> HIDE DEF f
  <2> QED
    BY <1>4, <1>5, <2>2, <2>3, <2>4, <2>5
<1>10. DwordAt(memory, rva + 20 * n + 12) = 0
  <2>1. 20 * n + 12 \notin DOMAIN cell
    BY EmptyEntries
  <2>2. 20 * n + 12 \in Nat /\ rva + 20 * n + 12 = rva + (20 * n + 12)
    BY <1>6
  <2> HIDE DEF n
  <2> QED
    BY <1>2, <2>1, <2>2
<1> QED
  BY <1>7, <1>8, <1>9, <1>10

(* There is room in the table for its lists.                               *)
LEMMA Limits ==
  ASSUME NEW T, NEW table \in Tables(T)
  PROVE  LET limit == LookupAt(table, Len(table) + 1) \div 8
         IN  /\ limit \in Nat /\ Len(table) <= limit
             /\ \A k \in 1 .. Len(table) : Len(table[k].functions) <= limit
<1> DEFINE n == Len(table)
<1> DEFINE end == LookupAt(table, n + 1)
<1>1. n \in Nat /\ end \in Nat /\ end >= 40 * (n + 1)
  <2>1. n \in Nat
    BY PlaceFacts
  <2>2. n + 1 \in 1 .. n + 1
    BY <2>1
  <2> QED
    BY <2>1, <2>2, PlaceFacts
<1>2. ASSUME NEW k \in 1 .. n
      PROVE  Len(table[k].functions) \in Nat /\ 8 * Len(table[k].functions) <= end
  <2> DEFINE f == Len(table[k].functions)
  <2> DEFINE L == LookupAt(table, k)
  <2> DEFINE S == SlotsAt(table, k)
  <2> DEFINE N == LibraryNameAt(table, k)
  <2> DEFINE M == LookupAt(table, k + 1)
  <2>1. f \in Nat /\ S = L + 8 * (f + 1)
    BY PlaceFacts
  <2>2. L \in Nat /\ S \in Nat /\ N \in Nat /\ M \in Nat /\ S < N /\ N < M /\ M <= end
    BY NamePlace, NameInside, WithinTable
  <2> HIDE DEF f, L, S, N, M, end
  <2>3. f \in Nat /\ 8 * f <= end
    BY <1>1, <2>1, <2>2
  <2> QED
    BY <2>3 DEF f
<1> HIDE DEF end
<1>3. \A m \in Nat : 8 * m <= end => m <= end \div 8
  BY <1>1
<1>4. end \div 8 \in Nat /\ n <= end \div 8
  BY <1>1, <1>3
<1> HIDE DEF n
<1>5. ASSUME NEW k \in 1 .. n
      PROVE  Len(table[k].functions) <= end \div 8
  BY <1>2, <1>3
<1> QED
  BY <1>4, <1>5 DEF n, end

(* The loader binds the slots of a table that is in memory, and no other.  *)
LEMMA TableIsBound ==
  ASSUME NEW T, NEW table \in Tables(T), NEW memory, NEW rva \in Nat, rva > 0,
         Placed(memory, rva, Patched(Idata(table), table, rva).cell)
  PROVE  Bound(memory, [rva |-> rva, size |-> LookupAt(table, Len(table) + 1)])
           = {[slot |-> rva + SlotAt(table, t), import |-> Imported(table, t)] : t \in Thunks(table)}
<1> DEFINE place == [rva |-> rva, size |-> LookupAt(table, Len(table) + 1)]
<1> DEFINE field(k, f) == DwordAt(memory, place.rva + 20 * k + f)
<1> DEFINE limit == place.size \div 8
<1> DEFINE descriptors == {k \in 0 .. limit : \A i \in 0 .. k : field(i, 12) # 0}
<1> DEFINE thunk(k, j) == DwordAt(memory, field(k, 0) + 8 * j)
<1> DEFINE thunks(k) == {j \in 0 .. limit : \A i \in 0 .. j : thunk(k, i) # 0}
<1> DEFINE pairs == UNION {{<<k, j>> : j \in thunks(k)} : k \in descriptors}
<1> DEFINE bound(p) ==
      [slot |-> field(p[1], 16) + 8 * p[2],
       import |-> <<NameAt(memory, field(p[1], 12)), NameAt(memory, thunk(p[1], p[2]) + 2)>>]
<1> DEFINE wanted(t) == [slot |-> rva + SlotAt(table, t), import |-> Imported(table, t)]
<1> DEFINE n == Len(table)
<1> DEFINE f(k) == Len(table[k].functions)
<1> DEFINE L(k) == LookupAt(table, k)
<1> DEFINE N(k) == LibraryNameAt(table, k)
<1> DEFINE S(k) == SlotsAt(table, k)
<1> DEFINE H(k, j) == HintAt(table, k, j)
<1>1. Bound(memory, place) = {bound(p) : p \in pairs}
  BY DEF Bound
<1>2. place.rva = rva /\ place.size = LookupAt(table, n + 1)
  OBVIOUS
<1>3. /\ n \in Nat
      /\ \A k \in 1 .. n : /\ f(k) \in Nat /\ L(k) \in Nat /\ N(k) \in Nat /\ S(k) \in Nat
                           /\ \A j \in 1 .. f(k) : H(k, j) \in Nat
  BY PlaceFacts, NamePlace
<1>4. limit \in Nat /\ n <= limit /\ \A k \in 1 .. n : f(k) <= limit
  BY <1>2, Limits
<1>5. /\ \A k \in 1 .. n : /\ field(k - 1, 0) = rva + L(k)
                           /\ field(k - 1, 12) = rva + N(k)
                           /\ field(k - 1, 16) = rva + S(k)
                           /\ NameAt(memory, rva + N(k)) = table[k].dll
                           /\ DwordAt(memory, rva + L(k) + 8 * f(k)) = 0
                           /\ \A j \in 1 .. f(k) :
                                /\ DwordAt(memory, rva + L(k) + 8 * (j - 1)) = rva + H(k, j)
                                /\ NameAt(memory, rva + H(k, j) + 2) = table[k].functions[j]
      /\ field(n, 12) = 0
  <2>1. /\ \A k \in 1 .. n : /\ DwordAt(memory, rva + 20 * (k - 1) + 0) = rva + L(k)
                             /\ DwordAt(memory, rva + 20 * (k - 1) + 12) = rva + N(k)
                             /\ DwordAt(memory, rva + 20 * (k - 1) + 16) = rva + S(k)
                             /\ NameAt(memory, rva + N(k)) = table[k].dll
                             /\ DwordAt(memory, rva + L(k) + 8 * f(k)) = 0
                             /\ \A j \in 1 .. f(k) :
                                  /\ DwordAt(memory, rva + L(k) + 8 * (j - 1)) = rva + H(k, j)
                                  /\ NameAt(memory, rva + H(k, j) + 2) = table[k].functions[j]
        /\ DwordAt(memory, rva + 20 * n + 12) = 0
    BY EntriesRead
  <2> HIDE DEF place, L, N, S, H, f, n
  <2> QED
    BY <1>2, <2>1
<1> HIDE DEF place, field, limit, n, f, L, N, S, H
<1>6. field(n, 12) = 0
  BY <1>5
<1>7. \A k \in 1 .. n : /\ thunk(k - 1, f(k)) = 0
                        /\ \A j \in 1 .. f(k) : thunk(k - 1, j - 1) = rva + H(k, j)
  BY <1>5
<1> HIDE DEF thunk
<1>8. ASSUME NEW k \in 0 .. n - 1
      PROVE  k \in descriptors
  <2>1. k \in 0 .. limit
    BY <1>3, <1>4
  <2>2. ASSUME NEW i \in 0 .. k
        PROVE  field(i, 12) # 0
    <3>1. i + 1 \in 1 .. n /\ (i + 1) - 1 = i
      BY <1>3
    <3>2. field((i + 1) - 1, 12) = rva + N(i + 1)
      BY <1>5, <3>1
    <3>3. field(i, 12) = rva + N(i + 1) /\ N(i + 1) \in Nat
      BY <1>3, <3>1, <3>2
    <3> QED
      BY <3>3
  <2> QED
    BY <2>1, <2>2
<1>9. ASSUME NEW k \in descriptors
      PROVE  k \in 0 .. n - 1
  <2>1. k \in Nat /\ \A i \in 0 .. k : field(i, 12) # 0
    BY <1>4
  <2>2. ~ (n \in 0 .. k)
    BY <1>6, <2>1
  <2> QED
    BY <1>3, <2>1, <2>2
<1>10. ASSUME NEW k \in 1 .. n, NEW j \in 0 .. f(k) - 1
       PROVE  j \in thunks(k - 1)
  <2>1. j \in 0 .. limit
    BY <1>3, <1>4
  <2>2. ASSUME NEW i \in 0 .. j
        PROVE  thunk(k - 1, i) # 0
    <3>1. i + 1 \in 1 .. f(k) /\ (i + 1) - 1 = i
      BY <1>3
    <3>2. thunk(k - 1, (i + 1) - 1) = rva + H(k, i + 1)
      BY <1>7, <3>1
    <3>3. thunk(k - 1, i) = rva + H(k, i + 1) /\ H(k, i + 1) \in Nat
      BY <1>3, <3>1, <3>2
    <3> QED
      BY <3>3
  <2> QED
    BY <2>1, <2>2
<1>11. ASSUME NEW k \in 1 .. n, NEW j \in thunks(k - 1)
       PROVE  j \in 0 .. f(k) - 1
  <2>1. j \in Nat /\ \A i \in 0 .. j : thunk(k - 1, i) # 0
    BY <1>4
  <2>2. ~ (f(k) \in 0 .. j)
    BY <1>7, <2>1
  <2>3. f(k) \in Nat
    BY <1>3
  <2> QED
    BY <2>1, <2>2, <2>3
<1> HIDE DEF descriptors, thunks
<1>12. ASSUME NEW k \in 1 .. n, NEW j \in 1 .. f(k)
       PROVE  /\ <<k - 1, j - 1>> \in pairs /\ <<k, j>> \in Thunks(table)
              /\ bound(<<k - 1, j - 1>>) = wanted(<<k, j>>)
  <2>1. k - 1 \in 0 .. n - 1 /\ f(k) \in Nat
    BY <1>3
  <2>2. k - 1 \in descriptors
    BY <1>8, <2>1
  <2>3. j - 1 \in 0 .. f(k) - 1
    BY <2>1
  <2>4. j - 1 \in thunks(k - 1)
    BY <1>10, <2>3
  <2>5. <<k - 1, j - 1>> \in pairs
    BY <2>2, <2>4
  <2>6. <<k, j>> \in Thunks(table)
    BY ThunkShape DEF n, f
  <2>7. S(k) \in Nat /\ 8 * (j - 1) \in Nat
    BY <1>3, <2>1
  <2>8. rva + S(k) + 8 * (j - 1) = rva + (S(k) + 8 * (j - 1))
    BY <2>7, Associates
  <2>9. /\ SlotAt(table, <<k, j>>) = S(k) + 8 * (j - 1)
        /\ Imported(table, <<k, j>>) = <<table[k].dll, table[k].functions[j]>>
    BY DEF SlotAt, Imported, S
  <2>10. bound(<<k - 1, j - 1>>)
           = [slot |-> field(k - 1, 16) + 8 * (j - 1),
              import |-> <<NameAt(memory, field(k - 1, 12)), NameAt(memory, thunk(k - 1, j - 1) + 2)>>]
    OBVIOUS
  <2>11. /\ field(k - 1, 16) = rva + S(k)
         /\ NameAt(memory, field(k - 1, 12)) = table[k].dll
         /\ NameAt(memory, thunk(k - 1, j - 1) + 2) = table[k].functions[j]
    BY <1>5, <1>7
  <2>12. wanted(<<k, j>>) = [slot |-> rva + SlotAt(table, <<k, j>>), import |-> Imported(table, <<k, j>>)]
    OBVIOUS
  <2> HIDE DEF bound, wanted, pairs
  <2>13. bound(<<k - 1, j - 1>>) = wanted(<<k, j>>)
    BY <2>8, <2>9, <2>10, <2>11, <2>12
  <2> QED
    BY <2>5, <2>6, <2>13
<1>13. ASSUME NEW p \in pairs
       PROVE  \E k \in 1 .. n : \E j \in 1 .. f(k) : p = <<k - 1, j - 1>>
  <2>1. PICK d \in descriptors : p \in {<<d, j>> : j \in thunks(d)}
    OBVIOUS
  <2>2. PICK e \in thunks(d) : p = <<d, e>>
    BY <2>1
  <2>3. d \in 0 .. n - 1
    BY <1>9
  <2>4. d + 1 \in 1 .. n /\ (d + 1) - 1 = d
    BY <1>3, <2>3
  <2>5. e \in thunks((d + 1) - 1)
    BY <2>4
  <2>6. e \in 0 .. f(d + 1) - 1
    BY <1>11, <2>4, <2>5
  <2>7. f(d + 1) \in Nat
    BY <1>3, <2>4
  <2>8. e + 1 \in 1 .. f(d + 1) /\ (e + 1) - 1 = e
    BY <2>6, <2>7
  <2>9. p = <<(d + 1) - 1, (e + 1) - 1>>
    BY <2>2, <2>4, <2>8
  <2> QED
    BY <2>4, <2>8, <2>9
<1>14. \A t \in Thunks(table) : \E k \in 1 .. n : \E j \in 1 .. f(k) : t = <<k, j>>
  BY ThunkShape DEF n, f
<1> HIDE DEF pairs, bound, wanted
<1>15. \A t \in Thunks(table) : \E p \in pairs : bound(p) = wanted(t)
  BY <1>12, <1>14
<1>16. ASSUME NEW p \in pairs
       PROVE  \E t \in Thunks(table) : bound(p) = wanted(t)
  <2>1. PICK k \in 1 .. n : \E j \in 1 .. f(k) : p = <<k - 1, j - 1>>
    BY <1>13
  <2>2. PICK j \in 1 .. f(k) : p = <<k - 1, j - 1>>
    BY <2>1
  <2>3. <<k, j>> \in Thunks(table) /\ bound(p) = wanted(<<k, j>>)
    BY <1>12, <2>2
  <2> QED
    BY <2>3
<1>17. {bound(p) : p \in pairs} = {wanted(t) : t \in Thunks(table)}
  BY <1>15, <1>16
<1> QED
  BY <1>1, <1>17 DEF place, wanted

(* When .idata holds the import table, patched for the address it gets,    *)
(* the loader of Windows binds every slot the code calls through to the    *)
(* function that was asked for, and nothing else, however many libraries   *)
(* and functions there are: emitImportTable writes no offset that misses.  *)
THEOREM LoaderBindsImports ==
  ASSUME NEW T, NEW table \in Tables(T), NEW sections, AllFit(sections),
         sections["idata"] = Patched(Idata(table), table, Rvas(sections)["idata"])
  PROVE  LET rva == Rvas(sections)["idata"]
             memory == Mapped(SectionHeaders(sections, Rvas(sections)), WrittenBytes(sections).cell)
         IN  Bound(memory, [rva |-> rva, size |-> sections["idata"].size])
               = {[slot |-> rva + SlotAt(table, t), import |-> Imported(table, t)] :
                  t \in Thunks(table)}
<1> DEFINE rva == Rvas(sections)["idata"]
<1> DEFINE memory == Mapped(SectionHeaders(sections, Rvas(sections)), WrittenBytes(sections).cell)
<1>1. rva \in Nat /\ rva > 0 /\ Placed(memory, rva, sections["idata"].cell)
  BY IdataInMemory
<1>2. sections["idata"].size = LookupAt(table, Len(table) + 1)
  BY DEF Patched, Idata
<1> HIDE DEF rva, memory
<1>3. sections["idata"].cell = Patched(Idata(table), table, rva).cell
  BY DEF rva
<1>4. Placed(memory, rva, Patched(Idata(table), table, rva).cell)
  BY <1>1, <1>3
<1>5. Bound(memory, [rva |-> rva, size |-> LookupAt(table, Len(table) + 1)])
        = {[slot |-> rva + SlotAt(table, t), import |-> Imported(table, t)] : t \in Thunks(table)}
  BY <1>1, <1>4, TableIsBound
<1> QED
  BY <1>2, <1>5 DEF rva, memory

-----------------------------------------------------------------------------
(* No library is in the table twice, and no function in a library.         *)
OneEach(table) ==
  /\ \A k, m \in DOMAIN table : table[k].dll = table[m].dll => k = m
  /\ \A k \in DOMAIN table : \A i, j \in DOMAIN table[k].functions :
       table[k].functions[i] = table[k].functions[j] => i = j

LEMMA ImportsShape ==
  ASSUME NEW table, NEW x
  PROVE  x \in Imports(table) <=>
           \E k \in DOMAIN table : \E j \in DOMAIN table[k].functions :
             x = <<table[k].dll, table[k].functions[j]>>
<1> DEFINE row(k) == {<<table[k].dll, name>> : name \in ToSet(table[k].functions)}
<1>1. Imports(table) = UNION {row(k) : k \in DOMAIN table}
  BY DEF Imports
<1>2. \A k \in DOMAIN table : \A y :
        y \in row(k) <=> \E j \in DOMAIN table[k].functions : y = <<table[k].dll, table[k].functions[j]>>
  BY DEF ToSet
<1> HIDE DEF row
<1>3. x \in Imports(table) <=> \E k \in DOMAIN table : x \in row(k)
  BY <1>1
<1> QED
  BY <1>2, <1>3

(* A library that is asked for a function has it once.                     *)
LEMMA WithFunction ==
  ASSUME NEW T, NEW names \in Seq(T), NEW name \in T, name \notin ToSet(names),
         \A i, j \in DOMAIN names : names[i] = names[j] => i = j
  PROVE  LET new == Append(names, name)
         IN  /\ new \in Seq(T) /\ ToSet(new) = ToSet(names) \union {name}
             /\ \A i, j \in DOMAIN new : new[i] = new[j] => i = j
<1> DEFINE new == Append(names, name)
<1> DEFINE n == Len(names)
<1>1. /\ new \in Seq(T) /\ n \in Nat /\ DOMAIN names = 1 .. n /\ DOMAIN new = 1 .. n + 1
      /\ \A i \in 1 .. n : new[i] = names[i]
      /\ new[n + 1] = name
  BY AppendFacts
<1>2. \A i \in 1 .. n : names[i] # name
  BY <1>1 DEF ToSet
<1> HIDE DEF new, n
<1>3. \A i, j \in DOMAIN new : new[i] = new[j] => i = j
  <2>1. \A i \in DOMAIN new : i \in 1 .. n \/ i = n + 1
    BY <1>1
  <2> QED
    BY <1>1, <1>2, <2>1
<1>4. ToSet(new) = ToSet(names) \union {name}
  <2>1. \A i \in DOMAIN new : i \in 1 .. n \/ i = n + 1
    BY <1>1
  <2>2. \A i \in DOMAIN names : i \in DOMAIN new
    BY <1>1
  <2>3. n + 1 \in DOMAIN new
    BY <1>1
  <2> QED
    BY <1>1, <2>1, <2>2, <2>3 DEF ToSet
<1> QED
  BY <1>1, <1>3, <1>4 DEF new

(* Asking for an import puts it into the table, once, and changes nothing  *)
(* else that the program asked for: ImportTableBuilder::import returns the *)
(* same label for the same function and never makes a second slot for it.  *)
THEOREM AddImportAddsOne ==
  ASSUME NEW T, NEW table \in Tables(T), OneEach(table), NEW dll \in Seq(T), NEW name \in Seq(T)
  PROVE  LET new == AddImport(table, dll, name)
         IN  /\ new \in Tables(T) /\ OneEach(new)
             /\ Imports(new) = Imports(table) \union {<<dll, name>>}
<1> DEFINE new == AddImport(table, dll, name)
<1> DEFINE L == [dll : Seq(T), functions : Seq(Seq(T))]
<1> DEFINE n == Len(table)
<1>1. table \in Seq(L) /\ n \in Nat /\ DOMAIN table = 1 .. n /\ \A k \in 1 .. n : table[k] \in L
  <2>1. table \in Seq(L)
    BY DEF Tables
  <2> HIDE DEF L
  <2> QED
    BY <2>1
<1>2. \A k \in 1 .. n : table[k].dll \in Seq(T) /\ table[k].functions \in Seq(Seq(T))
  BY <1>1
<1>3. /\ \A k, m \in 1 .. n : table[k].dll = table[m].dll => k = m
      /\ \A k \in 1 .. n : \A i, j \in DOMAIN table[k].functions :
           table[k].functions[i] = table[k].functions[j] => i = j
  BY <1>1 DEF OneEach
<1>4. CASE \E k \in DOMAIN table : table[k].dll = dll
  <2>1. PICK m \in 1 .. n : table[m].dll = dll
    BY <1>1, <1>4
  <2>2. CASE name \in ToSet(table[m].functions)
    <3>1. new = [k \in DOMAIN table |-> table[k]]
      BY <1>1, <1>3, <1>4, <2>1, <2>2 DEF AddImport
    <3>2. new = table
      BY <1>1, <3>1
    <3>3. <<dll, name>> \in Imports(table)
      <4>1. PICK j \in DOMAIN table[m].functions : name = table[m].functions[j]
        BY <2>2 DEF ToSet
      <4>2. <<dll, name>> = <<table[m].dll, table[m].functions[j]>> /\ m \in DOMAIN table
        BY <1>1, <2>1, <4>1
      <4> HIDE DEF new, L, n
      <4> QED
        BY <4>2, ImportsShape
    <3> HIDE DEF new
    <3> QED
      BY <3>2, <3>3 DEF new
  <2>3. CASE name \notin ToSet(table[m].functions)
    <3> DEFINE names == Append(table[m].functions, name)
    <3> DEFINE lib == [table[m] EXCEPT !.functions = names]
    <3>1. /\ names \in Seq(Seq(T)) /\ ToSet(names) = ToSet(table[m].functions) \union {name}
          /\ \A i, j \in DOMAIN names : names[i] = names[j] => i = j
      BY <1>2, <1>3, <2>3, WithFunction
    <3> HIDE DEF names
    <3>2. lib.dll = dll /\ lib.functions = names /\ lib \in L
      BY <1>1, <2>1, <3>1
    <3>3. new = [k \in DOMAIN table |-> IF k = m THEN lib ELSE table[k]]
      BY <1>1, <1>3, <1>4, <2>1, <2>3 DEF AddImport, names
    <3> HIDE DEF new, lib, L, n
    <3>4. DOMAIN new = 1 .. n /\ new[m] = lib /\ \A k \in 1 .. n : k # m => new[k] = table[k]
      BY <1>1, <3>3
    <3>5. new \in Seq(L)
      <4>1. new = [k \in 1 .. n |-> IF k = m THEN lib ELSE table[k]]
        BY <1>1, <3>3
      <4>2. \A k \in 1 .. n : (IF k = m THEN lib ELSE table[k]) \in L
        BY <1>1, <3>2
      <4> QED
        BY <1>1, <4>1, <4>2
    <3>6. OneEach(new)
      <4>1. \A k \in 1 .. n : new[k].dll = table[k].dll
        BY <2>1, <3>2, <3>4
      <4>2. \A k, l \in DOMAIN new : new[k].dll = new[l].dll => k = l
        BY <1>3, <3>4, <4>1
      <4>3. ASSUME NEW k \in 1 .. n, NEW i \in DOMAIN new[k].functions, NEW j \in DOMAIN new[k].functions,
                   new[k].functions[i] = new[k].functions[j]
            PROVE  i = j
        <5>1. CASE k = m
          BY <3>1, <3>2, <3>4, <4>3, <5>1
        <5>2. CASE k # m
          BY <1>3, <3>4, <4>3, <5>2
        <5> QED
          BY <5>1, <5>2
      <4> QED
        BY <3>4, <4>2, <4>3 DEF OneEach
    <3>7. \A x : x \in Imports(new) <=> x \in Imports(table) \/ x = <<dll, name>>
      <4>1. \A y : y \in ToSet(names) <=> \E j \in DOMAIN names : y = names[j]
        BY DEF ToSet
      <4>2. \A y : y \in ToSet(table[m].functions)
                     <=> \E j \in DOMAIN table[m].functions : y = table[m].functions[j]
        BY DEF ToSet
      <4>3. ASSUME NEW x, x \in Imports(new)
            PROVE  x \in Imports(table) \/ x = <<dll, name>>
        <5>1. PICK k \in 1 .. n : \E j \in DOMAIN new[k].functions :
                     x = <<new[k].dll, new[k].functions[j]>>
          <6>1. \E k \in DOMAIN new : \E j \in DOMAIN new[k].functions :
                  x = <<new[k].dll, new[k].functions[j]>>
            BY <4>3, ImportsShape
          <6> QED
            BY <3>4, <6>1
        <5>2. CASE k # m
          BY <1>1, <3>4, <5>1, <5>2, ImportsShape
        <5>3. CASE k = m
          <6>1. PICK j \in DOMAIN names : x = <<dll, names[j]>>
            BY <3>2, <3>4, <5>1, <5>3
          <6>2. names[j] \in ToSet(table[m].functions) \/ names[j] = name
            BY <3>1, <4>1
          <6>3. CASE names[j] \in ToSet(table[m].functions)
            BY <1>1, <2>1, <4>2, <6>1, <6>3, ImportsShape
          <6> QED
            BY <6>1, <6>2, <6>3
        <5> QED
          BY <5>2, <5>3
      <4>4. ASSUME NEW x, x \in Imports(table)
            PROVE  x \in Imports(new)
        <5>1. PICK k \in 1 .. n : \E j \in DOMAIN table[k].functions :
                     x = <<table[k].dll, table[k].functions[j]>>
          BY <1>1, <4>4, ImportsShape
        <5>2. CASE k # m
          BY <3>4, <5>1, <5>2, ImportsShape
        <5>3. CASE k = m
          <6>1. PICK j \in DOMAIN table[m].functions : x = <<dll, table[m].functions[j]>>
            BY <2>1, <5>1, <5>3
          <6>2. table[m].functions[j] \in ToSet(names)
            BY <3>1, <4>2
          <6>3. PICK i \in DOMAIN names : table[m].functions[j] = names[i]
            BY <4>1, <6>2
          <6>4. x = <<new[m].dll, new[m].functions[i]>> /\ i \in DOMAIN new[m].functions
            BY <3>2, <3>4, <6>1, <6>3
          <6>5. m \in DOMAIN new
            BY <3>4
          <6> QED
            BY <6>4, <6>5, ImportsShape
        <5> QED
          BY <5>2, <5>3
      <4>5. <<dll, name>> \in Imports(new)
        <5>1. PICK i \in DOMAIN names : name = names[i]
          BY <3>1, <4>1
        <5>2. /\ <<dll, name>> = <<new[m].dll, new[m].functions[i]>>
              /\ i \in DOMAIN new[m].functions /\ m \in DOMAIN new
          BY <3>2, <3>4, <5>1
        <5> QED
          BY <5>2, ImportsShape
      <4> QED
        BY <4>3, <4>4, <4>5
    <3> QED
      BY <3>5, <3>6, <3>7 DEF new, Tables, L
  <2> QED
    BY <2>2, <2>3
<1>5. CASE ~ \E k \in DOMAIN table : table[k].dll = dll
  <2> DEFINE lib == [dll |-> dll, functions |-> <<name>>]
  <2>1. new = Append(table, lib)
    BY <1>5 DEF AddImport
  <2>2. lib \in L /\ lib.dll = dll /\ lib.functions = <<name>>
    OBVIOUS
  <2>3. DOMAIN <<name>> = {1} /\ <<name>>[1] = name
    OBVIOUS
  <2> HIDE DEF new, lib, L
  <2>4. /\ new \in Seq(L) /\ DOMAIN new = 1 .. n + 1 /\ new[n + 1] = lib
        /\ \A k \in 1 .. n : new[k] = table[k]
    BY <1>1, <2>1, <2>2, AppendFacts
  <2> HIDE DEF n
  <2>5. \A k \in DOMAIN new : k \in 1 .. n \/ k = n + 1
    BY <1>1, <2>4
  <2>6. \A k \in 1 .. n : k \in DOMAIN new /\ table[k].dll # dll
    BY <1>1, <1>5, <2>4
  <2>7. OneEach(new)
    <3>1. \A k, l \in DOMAIN new : new[k].dll = new[l].dll => k = l
      BY <1>3, <2>2, <2>4, <2>5, <2>6
    <3>2. ASSUME NEW k \in DOMAIN new, NEW i \in DOMAIN new[k].functions, NEW j \in DOMAIN new[k].functions,
                 new[k].functions[i] = new[k].functions[j]
          PROVE  i = j
      <4>1. CASE k \in 1 .. n
        BY <1>3, <2>4, <3>2, <4>1
      <4>2. CASE k = n + 1
        BY <2>2, <2>3, <2>4, <3>2, <4>2
      <4> QED
        BY <2>5, <4>1, <4>2
    <3> QED
      BY <3>1, <3>2 DEF OneEach
  <2>8. \A x : x \in Imports(new) <=> x \in Imports(table) \/ x = <<dll, name>>
    <3>1. ASSUME NEW x, x \in Imports(new)
          PROVE  x \in Imports(table) \/ x = <<dll, name>>
      <4>1. PICK k \in DOMAIN new : \E j \in DOMAIN new[k].functions :
                   x = <<new[k].dll, new[k].functions[j]>>
        BY <3>1, ImportsShape
      <4>2. CASE k \in 1 .. n
        BY <1>1, <2>4, <4>1, <4>2, ImportsShape
      <4>3. CASE k = n + 1
        BY <2>2, <2>3, <2>4, <4>1, <4>3
      <4> QED
        BY <2>5, <4>2, <4>3
    <3>2. ASSUME NEW x, x \in Imports(table)
          PROVE  x \in Imports(new)
      <4>1. PICK k \in 1 .. n : \E j \in DOMAIN table[k].functions :
                   x = <<table[k].dll, table[k].functions[j]>>
        BY <1>1, <3>2, ImportsShape
      <4>2. k \in DOMAIN new /\ new[k] = table[k]
        BY <2>4, <2>6
      <4> QED
        BY <4>1, <4>2, ImportsShape
    <3>3. <<dll, name>> \in Imports(new)
      <4>1. n + 1 \in DOMAIN new
        BY <1>1, <2>4
      <4>2. /\ 1 \in DOMAIN new[n + 1].functions
            /\ <<dll, name>> = <<new[n + 1].dll, new[n + 1].functions[1]>>
        BY <2>2, <2>3, <2>4
      <4> QED
        BY <4>1, <4>2, ImportsShape
    <3> QED
      BY <3>1, <3>2, <3>3
  <2> QED
    BY <2>4, <2>7, <2>8 DEF new, Tables, L
<1> QED
  BY <1>4, <1>5

(* The slots are for the imports that were asked for, one for each.        *)
THEOREM OneSlotEach ==
  ASSUME NEW T, NEW table \in Tables(T), OneEach(table)
  PROVE  /\ {Imported(table, t) : t \in Thunks(table)} = Imports(table)
         /\ \A s, t \in Thunks(table) : Imported(table, s) = Imported(table, t) => s = t
<1> DEFINE n == Len(table)
<1> DEFINE f(k) == Len(table[k].functions)
<1>1. /\ n \in Nat /\ DOMAIN table = 1 .. n
      /\ \A k \in 1 .. n : DOMAIN table[k].functions = 1 .. f(k)
  BY PlaceFacts
<1>2. \A t : t \in Thunks(table) <=> \E k \in 1 .. n : \E j \in 1 .. f(k) : t = <<k, j>>
  BY ThunkShape
<1>3. \A k \in 1 .. n : \A j \in 1 .. f(k) :
        Imported(table, <<k, j>>) = <<table[k].dll, table[k].functions[j]>>
  BY DEF Imported
<1>4. /\ \A k, m \in 1 .. n : table[k].dll = table[m].dll => k = m
      /\ \A k \in 1 .. n : \A i, j \in 1 .. f(k) :
           table[k].functions[i] = table[k].functions[j] => i = j
  BY <1>1 DEF OneEach
<1> HIDE DEF n, f
<1>5. ASSUME NEW x
      PROVE  x \in Imports(table) <=> \E t \in Thunks(table) : x = Imported(table, t)
  <2>1. x \in Imports(table) <=> \E k \in DOMAIN table : \E j \in DOMAIN table[k].functions :
                                   x = <<table[k].dll, table[k].functions[j]>>
    BY ImportsShape
  <2>2. x \in Imports(table) <=> \E k \in 1 .. n : \E j \in 1 .. f(k) :
                                   x = <<table[k].dll, table[k].functions[j]>>
    BY <1>1, <2>1
  <2>3. ASSUME NEW k \in 1 .. n, NEW j \in 1 .. f(k)
        PROVE  /\ <<k, j>> \in Thunks(table)
               /\ Imported(table, <<k, j>>) = <<table[k].dll, table[k].functions[j]>>
    BY <1>2, <1>3
  <2>4. ASSUME NEW t \in Thunks(table), x = Imported(table, t)
        PROVE  \E k \in 1 .. n : \E j \in 1 .. f(k) : x = <<table[k].dll, table[k].functions[j]>>
    <3>1. PICK k \in 1 .. n : \E j \in 1 .. f(k) : t = <<k, j>>
      BY <1>2
    <3>2. PICK j \in 1 .. f(k) : t = <<k, j>>
      BY <3>1
    <3> QED
      BY <1>3, <2>4, <3>2
  <2> QED
    BY <2>2, <2>3, <2>4
<1>6. ASSUME NEW s \in Thunks(table), NEW t \in Thunks(table), Imported(table, s) = Imported(table, t)
      PROVE  s = t
  <2>1. PICK k \in 1 .. n : \E j \in 1 .. f(k) : s = <<k, j>>
    BY <1>2
  <2>2. PICK j \in 1 .. f(k) : s = <<k, j>>
    BY <2>1
  <2>3. PICK m \in 1 .. n : \E i \in 1 .. f(m) : t = <<m, i>>
    BY <1>2
  <2>4. PICK i \in 1 .. f(m) : t = <<m, i>>
    BY <2>3
  <2>5. <<table[k].dll, table[k].functions[j]>> = <<table[m].dll, table[m].functions[i]>>
    BY <1>3, <1>6, <2>2, <2>4
  <2>6. table[k].dll = table[m].dll /\ table[k].functions[j] = table[m].functions[i]
    BY <2>5
  <2> QED
    BY <1>4, <2>2, <2>4, <2>6
<1> QED
  BY <1>5, <1>6
=============================================================================
