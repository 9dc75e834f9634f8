--------------------------- MODULE VirPassesProofs ---------------------------
(***************************************************************************)
(* Proofs about VirPasses for every function given to the passes: whatever *)
(* its blocks and branches, the worklist loop of collectReachableBlockIds  *)
(* ends with exactly the blocks that execution can enter, and what         *)
(* optimizeModule leaves takes the same edges through the same code, holds *)
(* nothing more to fold, and passes verification again.                    *)
(***************************************************************************)
EXTENDS VirPasses, SequenceLemmas

(* The passes before blocks are erased: block i of the function is still   *)
(* block i of the source, with its branch folded or not yet.               *)
Scanning == phase \in {"verify", "fold", "reach"}

SameBlocks ==
  Scanning =>
    /\ fn \in Function
    /\ Len(fn.blocks) = Len(source.blocks)
    /\ cursor \in 1 .. Len(source.blocks) + 1
    /\ phase = "verify" => fn = source
    /\ phase = "reach" => cursor = Len(source.blocks) + 1
    /\ \A i \in 1 .. Len(source.blocks) :
         /\ fn.blocks[i].id = source.blocks[i].id
         /\ fn.blocks[i].code = source.blocks[i].code
         /\ fn.blocks[i].term =
              IF i < cursor THEN Folded(source, source.blocks[i].term)
                            ELSE source.blocks[i].term

Types ==
  /\ source \in Function
  /\ phase \in Phases
  /\ reachable \subseteq Ids(source.blocks)
  /\ worklist \in Seq(Ids(source.blocks))

(* What the first verification ensures.                                    *)
SourceVerified == phase \notin {"verify", "rejected"} => Verified(source)

(* What the passes never touch.                                            *)
SameFrame == fn.locals = source.locals /\ fn.void = source.void

(* The search starts from nothing.                                         *)
Untouched == phase \in {"verify", "fold"} => reachable = {}

Successors(i) == Feasible(source, source.blocks[i].term)

Seen == reachable \cup ToSet(worklist)

(* The search has seen the entry and the successors of what it visited,    *)
(* and nothing that a closed set could leave out.                          *)
Search ==
  phase = "reach" =>
    /\ source.blocks[1].id \in Seen
    /\ \A i \in 1 .. Len(source.blocks) :
         source.blocks[i].id \in reachable => Successors(i) \subseteq Seen
    /\ \A S \in SUBSET Ids(source.blocks) : ClosedIn(source, S) => Seen \subseteq S

(* fn holds, in order, the reachable blocks of the source, folded; m says  *)
(* where they were.                                                        *)
Sifted(m) ==
  /\ \A a \in 1 .. Len(fn.blocks) :
       /\ m[a] \in 1 .. Len(source.blocks)
       /\ source.blocks[m[a]].id \in reachable
       /\ fn.blocks[a].id = source.blocks[m[a]].id
       /\ fn.blocks[a].code = source.blocks[m[a]].code
       /\ fn.blocks[a].term = Folded(source, source.blocks[m[a]].term)
  /\ \A a, b \in 1 .. Len(fn.blocks) : a < b => m[a] < m[b]
  /\ \A i \in 1 .. Len(source.blocks) :
       source.blocks[i].id \in reachable => \E a \in 1 .. Len(fn.blocks) : m[a] = i

OnlyReachableKept == Optimized => fn \in Function /\ \E m : Sifted(m)

IInv ==
  /\ Types
  /\ SameBlocks
  /\ SourceVerified
  /\ Untouched
  /\ Search
  /\ ReachableIsLeast
  /\ SameFrame
  /\ OnlyReachableKept
  /\ NeverSpoiled

-----------------------------------------------------------------------------
(* A folded terminator leads where the original could go.                  *)
LEMMA FoldedFacts ==
  ASSUME NEW f, NEW term \in Terminator
  PROVE  /\ Folded(f, term) \in Terminator
         /\ Targets(Folded(f, term)) = Feasible(f, term)
         /\ Feasible(f, term) \subseteq Targets(term)
<1>1. \A b \in Nat : Branch(b) \in Terminator /\ Targets(Branch(b)) = {b}
  BY DEF Branch, Terminator, Targets, None
<1>2. term.then \in Nat /\ term.else \in Nat
  BY DEF Terminator
<1>3. term.kind = "cond" => Targets(term) = {term.then, term.else}
  BY DEF Targets
<1>4. CASE term.kind = "cond" /\ TruthOf(f, term.value) = "true"
  BY <1>1, <1>2, <1>3, <1>4 DEF Folded, Feasible
<1>5. CASE term.kind = "cond" /\ TruthOf(f, term.value) = "false"
  BY <1>1, <1>2, <1>3, <1>5 DEF Folded, Feasible
<1>6. CASE term.kind = "cond" /\ TruthOf(f, term.value) = "other"
  BY <1>6 DEF Folded, Feasible
<1>7. CASE term.kind # "cond"
  BY <1>7 DEF Folded, Feasible
<1>8. TruthOf(f, term.value) \in {"true", "false", "other"}
  BY DEF TruthOf
<1> QED
  BY <1>4, <1>5, <1>6, <1>7, <1>8

(* The elements pushed are the targets.                                    *)
LEMMA PushedFacts ==
  ASSUME NEW S, NEW term \in Terminator, Targets(term) \subseteq S
  PROVE  Pushed(term) \in Seq(S) /\ ToSet(Pushed(term)) = Targets(term)
<1>1. CASE term.kind = "branch"
  BY <1>1 DEF Pushed, Targets, ToSet
<1>2. CASE term.kind = "cond"
  BY <1>2 DEF Pushed, Targets, ToSet
<1>3. CASE term.kind \notin {"branch", "cond"}
  BY <1>3 DEF Pushed, Targets, ToSet
<1> QED
  BY <1>1, <1>2, <1>3

(* Folding looks at constants only, so it is the same before and after     *)
(* other branches are folded.                                              *)
LEMMA SameTruth ==
  ASSUME NEW f, NEW g,
         f.blocks \in Seq(Block), g.blocks \in Seq(Block),
         Len(f.blocks) = Len(g.blocks),
         \A i \in 1 .. Len(f.blocks) : f.blocks[i].code = g.blocks[i].code
  PROVE  \A term : Folded(f, term) = Folded(g, term)
<1>1. DOMAIN f.blocks = DOMAIN g.blocks /\ DOMAIN f.blocks = 1 .. Len(f.blocks)
  BY LengthFacts
<1>2. InstructionSites(f) = InstructionSites(g)
  BY <1>1 DEF InstructionSites
<1>3. ASSUME NEW s \in InstructionSites(f)
      PROVE  At(f, s) = At(g, s)
  <2>1. s[1] \in DOMAIN f.blocks
    BY DEF InstructionSites
  <2> QED
    BY <1>1, <2>1 DEF At
<1>4. \A v, truth : HoldsConstant(f, v, truth) <=> HoldsConstant(g, v, truth)
  BY <1>2, <1>3 DEF HoldsConstant
<1> QED
  BY <1>4 DEF Folded, TruthOf

(* A block is found by its id when ids are unique.                         *)
LEMMA BlockById ==
  ASSUME NEW blocks \in Seq(Block), NEW i \in 1 .. Len(blocks),
         \A j, k \in 1 .. Len(blocks) : blocks[j].id = blocks[k].id => j = k
  PROVE  BlockWithId(blocks, blocks[i].id) = blocks[i]
<1>1. DOMAIN blocks = 1 .. Len(blocks)
  BY LengthFacts
<1> DEFINE k == CHOOSE j \in DOMAIN blocks : blocks[j].id = blocks[i].id
<1>2. k \in DOMAIN blocks /\ blocks[k].id = blocks[i].id
  BY <1>1
<1>3. k = i
  BY <1>1, <1>2
<1> QED
  BY <1>3 DEF BlockWithId

(* kept holds, in order, the blocks among the first n whose id is in ids;  *)
(* m says where they were.                                                 *)
Sifts(m, kept, blocks, n, ids) ==
  /\ kept \in Seq(Block)
  /\ \A a \in 1 .. Len(kept) :
       m[a] \in 1 .. n /\ kept[a] = blocks[m[a]] /\ blocks[m[a]].id \in ids
  /\ \A a, b \in 1 .. Len(kept) : a < b => m[a] < m[b]
  /\ \A i \in 1 .. n : blocks[i].id \in ids => \E a \in 1 .. Len(kept) : m[a] = i

(* Of no blocks nothing is kept.                                          *)
LEMMA SiftNone ==
  ASSUME NEW blocks, NEW ids
  PROVE  \E m : Sifts(m, << >>, blocks, 0, ids)
<1>1. Sifts(<< >>, << >>, blocks, 0, ids)
  BY EmptySeq DEF Sifts
<1> QED
  BY <1>1

(* One turn of the loop.                                                  *)
LEMMA SiftOne ==
  ASSUME NEW blocks \in Seq(Block), NEW ids, NEW n \in Nat, n + 1 \in 1 .. Len(blocks),
         NEW kept, NEW m, Sifts(m, kept, blocks, n, ids)
  PROVE  \E l : Sifts(l, IF blocks[n + 1].id \in ids THEN Append(kept, blocks[n + 1]) ELSE kept,
                      blocks, n + 1, ids)
<1>1. CASE blocks[n + 1].id \notin ids
  <2>1. Sifts(m, kept, blocks, n + 1, ids)
    BY <1>1 DEF Sifts
  <2> QED
    BY <1>1, <2>1
<1>2. CASE blocks[n + 1].id \in ids
  <2> DEFINE k == Len(kept)
  <2> DEFINE longer == Append(kept, blocks[n + 1])
  <2> DEFINE l == [a \in 1 .. k + 1 |-> IF a = k + 1 THEN n + 1 ELSE m[a]]
  <2>1. /\ kept \in Seq(Block) /\ blocks[n + 1] \in Block /\ k \in Nat
        /\ longer \in Seq(Block) /\ Len(longer) = k + 1
        /\ \A a \in 1 .. k : longer[a] = kept[a]
        /\ longer[k + 1] = blocks[n + 1]
    BY AppendFacts, LengthFacts DEF Sifts
  <2> HIDE DEF longer
  <2>2. \A a \in 1 .. k : l[a] = m[a] /\ m[a] \in 1 .. n
    BY <2>1 DEF Sifts
  <2>3. l[k + 1] = n + 1
    BY <2>1
  <2> HIDE DEF l, k
  <2>4. \A a : a \in 1 .. k + 1 <=> a \in 1 .. k \/ a = k + 1
    BY <2>1
  <2>5. \A i : i \in 1 .. n + 1 <=> i \in 1 .. n \/ i = n + 1
    OBVIOUS
  <2>6. ASSUME NEW a \in 1 .. k + 1
        PROVE  l[a] \in 1 .. n + 1 /\ longer[a] = blocks[l[a]] /\ blocks[l[a]].id \in ids
    <3>1. CASE a = k + 1
      BY <1>2, <2>1, <2>3, <3>1
    <3>2. CASE a \in 1 .. k
      BY <2>1, <2>2, <2>5, <3>2 DEF Sifts, k
    <3> QED
      BY <2>4, <3>1, <3>2
  <2>7. ASSUME NEW a \in 1 .. k + 1, NEW b \in 1 .. k + 1, a < b
        PROVE  l[a] < l[b]
    <3>1. a \in 1 .. k
      BY <2>1, <2>7
    <3>2. CASE b = k + 1
      BY <2>2, <2>3, <3>1, <3>2
    <3>3. CASE b \in 1 .. k
      BY <2>2, <2>7, <3>1, <3>3 DEF Sifts, k
    <3> QED
      BY <2>4, <3>2, <3>3
  <2>8. ASSUME NEW i \in 1 .. n + 1, blocks[i].id \in ids
        PROVE  \E a \in 1 .. k + 1 : l[a] = i
    <3>1. CASE i = n + 1
      BY <2>3, <2>4, <3>1
    <3>2. CASE i \in 1 .. n
      <4>1. PICK a \in 1 .. k : m[a] = i
        BY <2>8, <3>2 DEF Sifts, k
      <4> QED
        BY <2>2, <2>4, <4>1
    <3> QED
      BY <2>5, <3>1, <3>2
  <2>9. Sifts(l, longer, blocks, n + 1, ids)
    BY <2>1, <2>6, <2>7, <2>8 DEF Sifts
  <2> QED
    BY <1>2, <2>9 DEF longer
<1> QED
  BY <1>1, <1>2

(* The loop that keeps blocks keeps those whose id is in ids.              *)
LEMMA KeptFacts ==
  ASSUME NEW blocks, blocks \in Seq(Block), NEW ids
  PROVE  \E m : Sifts(m, Kept(blocks, ids), blocks, Len(blocks), ids)
<1> DEFINE n == Len(blocks)
<1> DEFINE step(i, x) == IF blocks[i].id \in ids THEN Append(x, blocks[i]) ELSE x
<1> DEFINE G == [i \in 1 .. n |-> [x \in Seq(Block) |-> step(i, x)]]
<1> DEFINE kept == CHOOSE f : f = [i \in 0 .. n |-> IF i = 0 THEN << >> ELSE step(i, f[i - 1])]
<1>1. n \in Nat /\ \A i \in 1 .. n : blocks[i] \in Block
  BY LengthFacts
<1>2. \A i \in 1 .. n : \A x \in Seq(Block) : G[i][x] = step(i, x) /\ step(i, x) \in Seq(Block)
  BY <1>1
<1> HIDE DEF G
<1>3. PICK f : IteratesUpTo(f, n, Seq(Block), << >>, G)
  <2>1. StepsUpTo(n, G, Seq(Block)) /\ << >> \in Seq(Block)
    BY <1>2, EmptySeq DEF StepsUpTo
  <2> HIDE DEF n
  <2> QED
    BY <1>1, <2>1, BoundedRecursion
<1>4. f = [i \in 0 .. n |-> IF i = 0 THEN << >> ELSE step(i, f[i - 1])]
  <2>1. ASSUME NEW i \in 1 .. n
        PROVE  G[i][f[i - 1]] = step(i, f[i - 1])
    <3>1. i - 1 \in 0 .. n
      BY <1>1
    <3> QED
      BY <1>2, <1>3, <3>1 DEF IteratesUpTo
  <2>2. f = [i \in 0 .. n |-> IF i = 0 THEN << >> ELSE G[i][f[i - 1]]]
    BY <1>3 DEF IteratesUpTo
  <2>3. \A i \in 0 .. n : (IF i = 0 THEN << >> ELSE G[i][f[i - 1]]) = IF i = 0 THEN << >> ELSE step(i, f[i - 1])
    BY <1>1, <2>1
  <2> HIDE DEF step
  <2> QED
    BY <2>2, <2>3
<1>5. kept = [i \in 0 .. n |-> IF i = 0 THEN << >> ELSE step(i, kept[i - 1])]
  BY <1>4
<1> HIDE DEF kept
<1>6. kept[0] = << >> /\ \A i \in Nat : i + 1 \in 1 .. n => kept[i + 1] = step(i + 1, kept[i])
  <2>1. kept[0] = << >>
    BY <1>1, <1>5
  <2>2. ASSUME NEW i \in Nat, i + 1 \in 1 .. n
        PROVE  kept[i + 1] = step(i + 1, kept[i])
    <3>1. i + 1 \in 0 .. n /\ i + 1 # 0 /\ (i + 1) - 1 = i
      BY <2>2
    <3> HIDE DEF step
    <3> QED
      BY <1>5, <3>1
  <2> QED
    BY <2>1, <2>2
<1> DEFINE P == {i \in Nat : i <= n => \E m : Sifts(m, kept[i], blocks, i, ids)}
<1>7. 0 \in P
  BY <1>6, SiftNone
<1>8. ASSUME NEW i \in Nat, i \in P
      PROVE  i + 1 \in P
  <2> SUFFICES ASSUME i + 1 <= n
               PROVE  \E m : Sifts(m, kept[i + 1], blocks, i + 1, ids)
    OBVIOUS
  <2>1. i + 1 \in 1 .. n /\ i <= n
    BY <1>1
  <2>2. PICK m : Sifts(m, kept[i], blocks, i, ids)
    BY <1>8, <2>1
  <2>3. \E l : Sifts(l, step(i + 1, kept[i]), blocks, i + 1, ids)
    BY <2>1, <2>2, SiftOne
  <2> QED
    BY <1>6, <2>1, <2>3
<1>9. Nat \subseteq P
  <2> HIDE DEF P
  <2> QED
    BY <1>7, <1>8, Induction
<1>10. Kept(blocks, ids) = kept[n]
  BY DEF Kept, kept
<1> QED
  BY <1>1, <1>9, <1>10

(* What is known of the source's blocks.                                   *)
LEMMA SourceFacts ==
  ASSUME Types
  PROVE  /\ source.blocks \in Seq(Block)
         /\ Len(source.blocks) \in Nat
         /\ DOMAIN source.blocks = 1 .. Len(source.blocks)
         /\ \A i \in 1 .. Len(source.blocks) :
              /\ source.blocks[i].term \in Terminator
              /\ source.blocks[i].id \in Ids(source.blocks)
<1>1. source.blocks \in Seq(Block)
  BY DEF Types, Function
<1>2. DOMAIN source.blocks = 1 .. Len(source.blocks) /\ Len(source.blocks) \in Nat
  BY <1>1, LengthFacts
<1>3. \A i \in 1 .. Len(source.blocks) : source.blocks[i] \in Block
  BY <1>1, LengthFacts
<1> QED
  BY <1>1, <1>2, <1>3 DEF Block, Ids

(* What verification says of the source's blocks.                          *)
LEMMA VerifiedFacts ==
  ASSUME Types, Verified(source)
  PROVE  /\ Len(source.blocks) \in Nat \ {0}
         /\ \A i, j \in 1 .. Len(source.blocks) :
              source.blocks[i].id = source.blocks[j].id => i = j
         /\ \A i \in 1 .. Len(source.blocks) :
              Targets(source.blocks[i].term) \subseteq Ids(source.blocks)
<1>1. source.blocks # << >>
  BY DEF Verified
<1>2. Len(source.blocks) \in Nat \ {0}
  BY <1>1, SourceFacts, LengthFacts
<1>3. \A i \in 1 .. Len(source.blocks) : TerminatorVerified(source, source.blocks[i].term)
  BY SourceFacts DEF Verified
<1> QED
  BY <1>2, <1>3, SourceFacts DEF Verified, UniqueBlockIds, TerminatorVerified

(* The initial states satisfy the invariant.                               *)
LEMMA InitKeeps ==
  ASSUME PassInit
  PROVE  IInv
<1>1. source \in Function /\ fn = source /\ phase = "verify" /\ cursor = 1
      /\ reachable = {} /\ worklist = << >>
  BY SourceAssumption DEF PassInit
<1>2. Types
  BY <1>1, EmptySeq DEF Types, Phases
<1>3. SameBlocks
  BY <1>1, <1>2, SourceFacts DEF SameBlocks, Scanning
<1> QED
  BY <1>1, <1>2, <1>3
     DEF IInv, SourceVerified, Untouched, Search, ReachableIsLeast, Optimized, SameFrame,
         OnlyReachableKept, NeverSpoiled

(* The first verification lets only verified functions through.            *)
LEMMA VerifyBeforeKeeps ==
  ASSUME IInv, VerifyBefore
  PROVE  IInv'
<1>1. /\ phase = "verify" /\ fn = source
      /\ phase' \in {"fold", "rejected"}
      /\ phase' = "fold" => Verified(source)
      /\ UNCHANGED <<fn, source, cursor, reachable, worklist>>
  BY DEF VerifyBefore, IInv, SameBlocks, Scanning
<1>2. Types'
  BY <1>1 DEF IInv, Types, Phases
<1>3. SameBlocks'
  BY <1>1 DEF IInv, SameBlocks, Scanning
<1>4. SourceVerified'
  BY <1>1 DEF SourceVerified
<1> QED
  BY <1>1, <1>2, <1>3, <1>4
     DEF IInv, Untouched, Search, ReachableIsLeast, Optimized, SameFrame,
         OnlyReachableKept, NeverSpoiled

(* Folding a branch changes one terminator.                                *)
LEMMA FoldBlockKeeps ==
  ASSUME IInv, FoldBlock
  PROVE  IInv'
<1> DEFINE n == Len(source.blocks)
<1> DEFINE block == [fn.blocks[cursor] EXCEPT !.term = Folded(fn, @)]
<1>1. /\ phase = "fold" /\ phase' = "fold"
      /\ Types /\ Verified(source)
      /\ fn \in Function
      /\ fn.blocks \in Seq(Block)
      /\ Len(fn.blocks) = n
      /\ cursor \in 1 .. n
      /\ cursor' = cursor + 1
      /\ UNCHANGED <<source, reachable, worklist>>
  BY DEF FoldBlock, IInv, SourceVerified, SameBlocks, Scanning, Function
<1>2. n \in Nat /\ DOMAIN fn.blocks = 1 .. n
  BY <1>1, SourceFacts, LengthFacts
<1>3. \A term : Folded(fn, term) = Folded(source, term)
  BY <1>1, SourceFacts, SameTruth DEF IInv, SameBlocks, Scanning
<1>4. /\ block \in Block
      /\ block.id = source.blocks[cursor].id
      /\ block.code = source.blocks[cursor].code
      /\ block.term = Folded(source, source.blocks[cursor].term)
  <2>1. fn.blocks[cursor] \in Block
    BY <1>1, LengthFacts
  <2>2. /\ fn.blocks[cursor].id = source.blocks[cursor].id
        /\ fn.blocks[cursor].code = source.blocks[cursor].code
        /\ fn.blocks[cursor].term = source.blocks[cursor].term
    BY <1>1, <1>2 DEF IInv, SameBlocks, Scanning
  <2>3. Folded(fn, fn.blocks[cursor].term) \in Terminator
    BY <1>1, <2>2, SourceFacts, FoldedFacts
  <2> QED
    BY <1>3, <2>1, <2>2, <2>3 DEF Block
<1>5. fn'.blocks = [fn.blocks EXCEPT ![cursor] = block]
  <2>1. fn' = [fn EXCEPT !.blocks = [fn.blocks EXCEPT ![cursor] = block]]
    BY DEF FoldBlock
  <2> QED
    BY <1>1, <2>1 DEF Function
<1> HIDE DEF block
<1>6. /\ fn' \in Function
      /\ Len(fn'.blocks) = n
      /\ \A i \in 1 .. n : fn'.blocks[i] = IF i = cursor THEN block ELSE fn.blocks[i]
  <2>1. /\ fn'.blocks \in Seq(Block)
        /\ Len(fn'.blocks) = n
        /\ \A i \in 1 .. n : fn'.blocks[i] = IF i = cursor THEN block ELSE fn.blocks[i]
    BY <1>1, <1>4, <1>5, ExceptSeq
  <2> DEFINE blocks == fn'.blocks
  <2>2. fn' = [fn EXCEPT !.blocks = blocks]
    <3>1. fn' = [fn EXCEPT !.blocks =
                   [fn.blocks EXCEPT ![cursor].term = Folded(fn, fn.blocks[cursor].term)]]
      BY DEF FoldBlock
    <3> QED
      BY <1>1, <3>1 DEF Function
  <2> HIDE DEF blocks
  <2>3. blocks \in Seq(Block)
    BY <2>1 DEF blocks
  <2> QED
    BY <1>1, <2>1, <2>2, <2>3 DEF Function
<1>7. SameBlocks'
  <2>1. \A i \in 1 .. n :
          /\ fn'.blocks[i].id = source.blocks[i].id
          /\ fn'.blocks[i].code = source.blocks[i].code
          /\ fn'.blocks[i].term =
               IF i < cursor + 1 THEN Folded(source, source.blocks[i].term)
                                 ELSE source.blocks[i].term
    <3> SUFFICES ASSUME NEW i \in 1 .. n
                 PROVE  /\ fn'.blocks[i].id = source.blocks[i].id
                        /\ fn'.blocks[i].code = source.blocks[i].code
                        /\ fn'.blocks[i].term =
                             IF i < cursor + 1
                             THEN Folded(source, source.blocks[i].term)
                             ELSE source.blocks[i].term
      OBVIOUS
    <3>1. CASE i = cursor
      BY <1>1, <1>2, <1>4, <1>6, <3>1
    <3>2. CASE i # cursor
      <4>1. i < cursor + 1 <=> i < cursor
        BY <1>1, <1>2, <3>2
      <4> QED
        BY <1>1, <1>6, <3>2, <4>1 DEF IInv, SameBlocks, Scanning
    <3> QED
      BY <3>1, <3>2
  <2>2. cursor' \in 1 .. n + 1
    BY <1>1, <1>2
  <2>3. \A term : Folded(source, term)' = Folded(source, term)
    BY <1>1 DEF Folded, TruthOf, HoldsConstant, InstructionSites, At
  <2> QED
    BY <1>1, <1>6, <2>1, <2>2, <2>3 DEF SameBlocks, Scanning
<1>8. Types' /\ SourceVerified'
  BY <1>1 DEF Types, SourceVerified
<1>9. SameFrame'
  <2>1. fn'.locals = fn.locals /\ fn'.void = fn.void
    BY <1>1 DEF FoldBlock, Function
  <2> QED
    BY <1>1, <2>1 DEF IInv, SameFrame
<1> QED
  BY <1>1, <1>7, <1>8, <1>9
     DEF IInv, Untouched, Search, ReachableIsLeast, Optimized, OnlyReachableKept, NeverSpoiled

(* The edges of the source do not change while the source does not.        *)
LEMMA SameEdges ==
  ASSUME UNCHANGED source
  PROVE  /\ \A i : Successors(i)' = Successors(i)
         /\ \A S : ClosedIn(source, S)' <=> ClosedIn(source, S)
  BY DEF Successors, ClosedIn, Feasible, TruthOf, HoldsConstant, InstructionSites, At,
         Targets

(* The search starts from the entry block.                                 *)
LEMMA StartReachKeeps ==
  ASSUME IInv, StartReach
  PROVE  IInv'
<1>1. /\ phase = "fold" /\ phase' = "reach"
      /\ Types /\ Verified(source)
      /\ fn.blocks[1].id = source.blocks[1].id
      /\ worklist' = <<source.blocks[1].id>>
      /\ UNCHANGED <<fn, source, cursor, reachable>>
  <2>1. phase = "fold" /\ Types /\ Verified(source)
    BY DEF StartReach, IInv, SourceVerified
  <2>2. 1 \in 1 .. Len(source.blocks)
    BY <2>1, VerifiedFacts
  <2> QED
    BY <2>1, <2>2 DEF StartReach, IInv, SameBlocks, Scanning
<1>2. source.blocks[1].id \in Ids(source.blocks)
  BY <1>1, VerifiedFacts, SourceFacts
<1>3. Types' /\ SourceVerified'
  BY <1>1, <1>2 DEF Types, Phases, SourceVerified
<1>4. SameBlocks'
  <2>1. cursor = Len(source.blocks) + 1
    BY <1>1, SourceFacts DEF StartReach, IInv, SameBlocks, Scanning
  <2> QED
    BY <1>1, <2>1 DEF IInv, SameBlocks, Scanning
<1>5. reachable = {}
  BY <1>1 DEF IInv, Untouched
<1>6. ToSet(worklist') = {source.blocks[1].id}
  BY <1>1 DEF ToSet
<1>7. Search'
  BY <1>1, <1>5, <1>6, SameEdges DEF Search, Seen, ClosedIn
<1> QED
  BY <1>1, <1>3, <1>4, <1>7
     DEF IInv, Untouched, ReachableIsLeast, Optimized, SameFrame, OnlyReachableKept, NeverSpoiled

(* A turn of the worklist loop: a new block adds its successors.           *)
LEMMA VisitBlockKeeps ==
  ASSUME IInv, VisitBlock
  PROVE  IInv'
<1> DEFINE id == Last(worklist)
<1> DEFINE n == Len(source.blocks)
<1>1. /\ phase = "reach" /\ phase' = "reach"
      /\ Types /\ Verified(source) /\ Search
      /\ worklist # << >>
      /\ worklist \in Seq(Ids(source.blocks))
      /\ reachable' = reachable \cup {id}
      /\ UNCHANGED <<fn, source, cursor>>
  BY DEF VisitBlock, IInv, SourceVerified, Types
<1>2. /\ id \in Ids(source.blocks)
      /\ ToSet(worklist) = ToSet(Front(worklist)) \cup {id}
      /\ Front(worklist) \in Seq(Ids(source.blocks))
  BY <1>1, FrontElements, FrontInSeq
<1>3. PICK i \in 1 .. n : source.blocks[i].id = id
  BY <1>1, <1>2, SourceFacts DEF Ids
<1>4. /\ Ids(fn.blocks) = Ids(source.blocks)
      /\ BlockWithId(fn.blocks, id).term = Folded(source, source.blocks[i].term)
  <2>1. /\ fn.blocks \in Seq(Block)
        /\ Len(fn.blocks) = n
        /\ cursor = n + 1
        /\ \A j \in 1 .. n : fn.blocks[j].id = source.blocks[j].id
    BY <1>1 DEF IInv, SameBlocks, Scanning, Function
  <2>2. n \in Nat /\ DOMAIN source.blocks = 1 .. n /\ DOMAIN fn.blocks = 1 .. n
    BY <1>1, <2>1, SourceFacts, LengthFacts
  <2>3. BlockWithId(fn.blocks, fn.blocks[i].id) = fn.blocks[i]
    <3>1. i \in 1 .. Len(fn.blocks)
      BY <1>3, <2>1
    <3>2. \A j, k \in 1 .. Len(fn.blocks) :
            fn.blocks[j].id = fn.blocks[k].id => j = k
      BY <1>1, <2>1, VerifiedFacts
    <3> QED
      BY <2>1, <3>1, <3>2, BlockById
  <2>4. fn.blocks[i].term = Folded(source, source.blocks[i].term)
    BY <1>1, <2>1, <2>2, SMTT(30) DEF IInv, SameBlocks, Scanning
  <2>5. Ids(fn.blocks) = Ids(source.blocks)
    BY <2>1, <2>2 DEF Ids
  <2> QED
    BY <1>3, <2>1, <2>3, <2>4, <2>5
<1>5. /\ Pushed(Folded(source, source.blocks[i].term)) \in Seq(Ids(source.blocks))
      /\ ToSet(Pushed(Folded(source, source.blocks[i].term))) = Successors(i)
      /\ Successors(i) \subseteq Ids(source.blocks)
  <2>1. source.blocks[i].term \in Terminator
    BY <1>1, SourceFacts
  <2>2. Targets(source.blocks[i].term) \subseteq Ids(source.blocks)
    BY <1>1, VerifiedFacts
  <2> QED
    BY <2>1, <2>2, FoldedFacts, PushedFacts DEF Successors
<1>6. /\ worklist' \in Seq(Ids(source.blocks))
      /\ reachable' \cup ToSet(worklist') =
           IF id \in reachable THEN Seen ELSE Seen \cup Successors(i)
  <2>1. CASE id \in reachable
    <3>1. worklist' = Front(worklist)
      BY <2>1 DEF VisitBlock
    <3> QED
      BY <1>1, <1>2, <2>1, <3>1 DEF Seen
  <2>2. CASE id \notin reachable
    <3>1. worklist' = Front(worklist) \o Pushed(Folded(source, source.blocks[i].term))
      BY <1>2, <1>4, <2>2 DEF VisitBlock
    <3>2. /\ worklist' \in Seq(Ids(source.blocks))
          /\ ToSet(worklist') = ToSet(Front(worklist)) \cup Successors(i)
      BY <1>2, <1>5, <3>1, ConcatElements
    <3> QED
      BY <1>1, <1>2, <2>2, <3>2 DEF Seen
  <2> QED
    BY <2>1, <2>2
<1>7. Types' /\ SourceVerified' /\ SameBlocks'
  <2>1. Types'
    BY <1>1, <1>2, <1>6 DEF Types
  <2>2. SourceVerified'
    BY <1>1 DEF SourceVerified
  <2>3. SameBlocks'
    BY <1>1 DEF IInv, SameBlocks, Scanning
  <2> QED
    BY <2>1, <2>2, <2>3
<1>8. Search'
  <2>1. Seen' = reachable' \cup ToSet(worklist')
    BY DEF Seen
  <2>2. Seen \subseteq Seen' /\ id \in Seen
    BY <1>2, <1>6, <2>1 DEF Seen
  <2>3. source.blocks[1].id \in Seen'
    BY <1>1, <2>2 DEF Search
  <2>4. ASSUME NEW j \in 1 .. n, source.blocks[j].id \in reachable'
        PROVE  Successors(j) \subseteq Seen'
    <3>1. CASE source.blocks[j].id \in reachable
      BY <1>1, <2>2, <3>1 DEF Search
    <3>2. CASE source.blocks[j].id \notin reachable
      <4>1. j = i
        BY <1>1, <1>3, <2>4, <3>2, VerifiedFacts
      <4> QED
        BY <1>3, <1>6, <2>1, <3>2, <4>1
    <3> QED
      BY <3>1, <3>2
  <2>5. ASSUME NEW S \in SUBSET Ids(source.blocks), ClosedIn(source, S)
        PROVE  Seen' \subseteq S
    <3>1. Seen \subseteq S
      BY <1>1, <2>5 DEF Search
    <3>2. id \in S
      BY <2>2, <3>1
    <3>3. Successors(i) \subseteq S
      BY <1>1, <1>3, <2>5, <3>2, SourceFacts DEF ClosedIn, Successors
    <3> QED
      BY <1>6, <2>1, <3>1, <3>3
  <2> QED
    BY <1>1, <2>3, <2>4, <2>5, SameEdges DEF Search
<1> QED
  BY <1>1, <1>7, <1>8
     DEF IInv, Untouched, ReachableIsLeast, Optimized, SameFrame, OnlyReachableKept, NeverSpoiled

(* When everything is found, every block is kept where it is.              *)
LEMMA AllFound ==
  ASSUME Types, Verified(source), Cardinality(reachable) = Len(source.blocks)
  PROVE  reachable = Ids(source.blocks)
<1> DEFINE n == Len(source.blocks)
<1> DEFINE ids == [i \in 1 .. n |-> source.blocks[i].id]
<1>1. n \in Nat /\ reachable \subseteq Ids(source.blocks)
  BY SourceFacts DEF Types
<1>2. ids \in Bijection(1 .. n, Ids(source.blocks))
  <2>1. ids \in [1 .. n -> Ids(source.blocks)]
    BY SourceFacts
  <2>2. ids \in Injection(1 .. n, Ids(source.blocks))
    <3>1. DOMAIN ids = 1 .. n /\ \A i \in 1 .. n : ids[i] = source.blocks[i].id
      OBVIOUS
    <3>2. IsInjective(ids)
      BY <3>1, VerifiedFacts DEF IsInjective
    <3> QED
      BY <2>1, <3>2 DEF Injection
  <2>3. ids \in Surjection(1 .. n, Ids(source.blocks))
    BY <2>1, SourceFacts DEF Surjection, Ids
  <2> QED
    BY <2>2, <2>3 DEF Bijection
<1>3. IsFiniteSet(Ids(source.blocks)) /\ Cardinality(Ids(source.blocks)) = n
  <2>1. IsFiniteSet(1 .. n) /\ Cardinality(1 .. n) = n
    <3>1. 1 \in Int /\ n \in Int /\ (IF 1 > n THEN 0 ELSE n - 1 + 1) = n
      BY <1>1
    <3> HIDE DEF n
    <3> QED
      BY <3>1, FS_Interval
  <2>2. ExistsBijection(1 .. n, Ids(source.blocks))
    BY <1>2 DEF ExistsBijection
  <2> QED
    BY <2>1, <2>2, FS_Bijection
<1> QED
  BY <1>1, <1>3, FS_Subset

(* The blocks that are left are the reachable ones of the source.          *)
LEMMA ErasedFacts ==
  ASSUME IInv, EraseUnreachable
  PROVE  fn' \in Function /\ SameFrame' /\ \E m : Sifted(m)'
<1> DEFINE n == Len(source.blocks)
<1>1. /\ Types /\ Verified(source)
      /\ fn \in Function
      /\ fn.blocks \in Seq(Block)
      /\ Len(fn.blocks) = n
      /\ n \in Nat
      /\ UNCHANGED <<source, reachable>>
  BY SourceFacts DEF EraseUnreachable, IInv, SourceVerified, SameBlocks, Scanning, Function
<1>2. \A i \in 1 .. n :
        /\ fn.blocks[i].id = source.blocks[i].id
        /\ fn.blocks[i].code = source.blocks[i].code
        /\ fn.blocks[i].term = Folded(source, source.blocks[i].term)
  BY <1>1 DEF EraseUnreachable, IInv, SameBlocks, Scanning
<1>3. \A term : Folded(source, term)' = Folded(source, term)
  BY <1>1 DEF Folded, TruthOf, HoldsConstant, InstructionSites, At
<1>4. CASE Cardinality(reachable) = Len(fn.blocks)
  <2>1. fn' = fn
    BY <1>4 DEF EraseUnreachable
  <2>2. reachable = Ids(source.blocks)
    BY <1>1, <1>4, AllFound
  <2>3. \A i \in 1 .. n : source.blocks[i].id \in reachable
    BY <1>1, <2>2, SourceFacts
  <2> DEFINE m == [i \in 1 .. n |-> i]
  <2>4. Sifted(m)'
    BY <1>1, <1>2, <1>3, <2>1, <2>3 DEF Sifted
  <2>5. SameFrame'
    BY <1>1, <2>1 DEF IInv, SameFrame
  <2> HIDE DEF m
  <2> QED
    BY <1>1, <2>1, <2>4, <2>5
<1>5. CASE Cardinality(reachable) # Len(fn.blocks)
  <2> DEFINE kept == Kept(fn.blocks, reachable)
  <2>1. fn' = [fn EXCEPT !.blocks = kept]
    BY <1>5 DEF EraseUnreachable
  <2>2. PICK m : Sifts(m, kept, fn.blocks, n, reachable)
    BY <1>1, KeptFacts
  <2> HIDE DEF kept
  <2>3. kept \in Seq(Block)
    BY <2>2 DEF Sifts
  <2>4. /\ fn' \in Function /\ fn'.blocks = kept
        /\ fn'.locals = fn.locals /\ fn'.void = fn.void
    BY <1>1, <2>1, <2>3 DEF Function
  <2>5. ASSUME NEW a \in 1 .. Len(kept)
        PROVE  /\ m[a] \in 1 .. n
               /\ source.blocks[m[a]].id \in reachable
               /\ kept[a].id = source.blocks[m[a]].id
               /\ kept[a].code = source.blocks[m[a]].code
               /\ kept[a].term = Folded(source, source.blocks[m[a]].term)
    <3>1. m[a] \in 1 .. n /\ kept[a] = fn.blocks[m[a]] /\ fn.blocks[m[a]].id \in reachable
      BY <2>2 DEF Sifts
    <3> QED
      BY <1>2, <3>1
  <2>6. ASSUME NEW i \in 1 .. n, source.blocks[i].id \in reachable
        PROVE  \E a \in 1 .. Len(kept) : m[a] = i
    BY <1>2, <2>2, <2>6 DEF Sifts
  <2>7. \A a, b \in 1 .. Len(kept) : a < b => m[a] < m[b]
    BY <2>2 DEF Sifts
  <2>8. Sifted(m)'
    BY <1>1, <1>3, <2>4, <2>5, <2>6, <2>7 DEF Sifted
  <2>9. SameFrame'
    BY <1>1, <2>4 DEF IInv, SameFrame
  <2> QED
    BY <2>4, <2>8, <2>9
<1> QED
  BY <1>4, <1>5

(* The worklist is empty: what is reachable is closed, and least.          *)
LEMMA EraseUnreachableKeeps ==
  ASSUME IInv, EraseUnreachable
  PROVE  IInv'
<1>1. /\ phase = "reach" /\ phase' = "reverify"
      /\ Types /\ Search /\ worklist = << >>
      /\ Verified(source)
      /\ UNCHANGED <<source, reachable, worklist>>
  BY DEF EraseUnreachable, IInv, SourceVerified
<1>2. Types' /\ SameBlocks' /\ SourceVerified' /\ Search'
  BY <1>1 DEF Types, Phases, SameBlocks, Scanning, SourceVerified, Search
<1>3. Seen = reachable
  BY <1>1 DEF Seen, ToSet
<1>4. ClosedIn(source, reachable)
  BY <1>1, <1>3, SourceFacts DEF Search, ClosedIn, Successors
<1>5. ReachableIsLeast'
  BY <1>1, <1>3, <1>4, SameEdges DEF Search, ReachableIsLeast
<1>6. SameFrame' /\ OnlyReachableKept'
  BY ErasedFacts DEF OnlyReachableKept
<1>7. NeverSpoiled'
  BY <1>1 DEF NeverSpoiled
<1> QED
  BY <1>1, <1>2, <1>5, <1>6, <1>7 DEF IInv, Untouched

(* A sifted function stays sifted while nothing but the phase changes.     *)
LEMMA SameSifted ==
  ASSUME UNCHANGED <<fn, source, reachable>>
  PROVE  \A m : Sifted(m)' <=> Sifted(m)
<1>1. \A term : Folded(source, term)' = Folded(source, term)
  BY DEF Folded, TruthOf, HoldsConstant, InstructionSites, At
<1> QED
  BY <1>1 DEF Sifted

(* After the blocks are erased the search is not touched again.            *)
LEMMA AfterwardsKeeps ==
  ASSUME IInv, Optimized, Optimized', NeverSpoiled',
         phase' \in Phases, UNCHANGED <<fn, source, reachable, worklist>>
  PROVE  IInv'
<1>1. Types'
  BY DEF IInv, Types
<1>2. SameBlocks' /\ SourceVerified' /\ Untouched' /\ Search'
  BY DEF IInv, Optimized, Untouched, SameBlocks, Scanning, SourceVerified, Search
<1>3. ReachableIsLeast'
  BY SameEdges DEF IInv, ReachableIsLeast
<1>4. SameFrame'
  BY DEF IInv, SameFrame
<1>5. OnlyReachableKept'
  BY SameSifted DEF IInv, OnlyReachableKept
<1> QED
  BY <1>1, <1>2, <1>3, <1>4, <1>5 DEF IInv

-----------------------------------------------------------------------------
(* What is left, block by block: m is an embedding of its blocks in those  *)
(* of the source, and sends the first to the first.                        *)
LEMMA EmbeddingFacts ==
  ASSUME IInv, Optimized, NEW m, Sifted(m)
  PROVE  /\ fn.blocks \in Seq(Block)
         /\ Len(fn.blocks) \in Nat \ {0}
         /\ DOMAIN fn.blocks = 1 .. Len(fn.blocks)
         /\ \A a \in 1 .. Len(fn.blocks) : m[a] \in 1 .. Len(source.blocks)
         /\ \A a, b \in 1 .. Len(fn.blocks) : m[a] = m[b] => a = b
         /\ m[1] = 1
         /\ Ids(fn.blocks) = reachable
         /\ Types /\ Verified(source) /\ ClosedIn(source, reachable)
<1> DEFINE k == Len(fn.blocks)
<1> DEFINE n == Len(source.blocks)
<1>1. Types /\ Verified(source) /\ ClosedIn(source, reachable) /\ fn \in Function
  BY DEF IInv, Optimized, SourceVerified, ReachableIsLeast, OnlyReachableKept
<1>2. fn.blocks \in Seq(Block) /\ k \in Nat /\ DOMAIN fn.blocks = 1 .. k
  BY <1>1, LengthFacts DEF Function
<1>3. n \in Nat \ {0} /\ source.blocks[1].id \in reachable
  BY <1>1, VerifiedFacts DEF ClosedIn
<1>4. \A a \in 1 .. k : m[a] \in 1 .. n
  BY DEF Sifted
<1>5. \A a, b \in 1 .. k : m[a] = m[b] => a = b
  <2> SUFFICES ASSUME NEW a \in 1 .. k, NEW b \in 1 .. k, m[a] = m[b]
               PROVE  a = b
    OBVIOUS
  <2>1. ~ (m[a] < m[b]) /\ ~ (m[b] < m[a])
    BY <1>3, <1>4
  <2>2. ~ (a < b) /\ ~ (b < a)
    BY <2>1 DEF Sifted
  <2> QED
    BY <1>2, <2>2
<1>6. k # 0 /\ m[1] = 1
  <2>1. PICK a \in 1 .. k : m[a] = 1
    BY <1>3 DEF Sifted
  <2>2. 1 \in 1 .. k /\ k # 0
    BY <1>2
  <2>3. CASE a = 1
    BY <2>1, <2>2, <2>3
  <2>4. CASE a # 1
    <3>1. 1 < a
      BY <1>2, <2>4
    <3>2. m[1] < m[a]
      BY <2>2, <3>1 DEF Sifted
    <3>3. m[1] \in 1 .. n
      BY <1>4, <2>2
    <3> QED
      BY <1>3, <2>1, <3>2, <3>3
  <2> QED
    BY <2>3, <2>4
<1>7. Ids(fn.blocks) \subseteq reachable
  BY <1>2 DEF Ids, Sifted
<1>8. reachable \subseteq Ids(fn.blocks)
  <2> SUFFICES ASSUME NEW id \in reachable
               PROVE  id \in Ids(fn.blocks)
    OBVIOUS
  <2>1. PICK i \in 1 .. n : source.blocks[i].id = id
    BY <1>1, SourceFacts DEF Types, Ids
  <2>2. PICK a \in 1 .. k : m[a] = i
    BY <2>1 DEF Sifted
  <2>3. fn.blocks[a].id = id
    BY <2>1, <2>2 DEF Sifted
  <2> QED
    BY <1>2, <2>3 DEF Ids
<1> QED
  BY <1>1, <1>2, <1>4, <1>5, <1>6, <1>7, <1>8

(* The instructions that are left are those of the blocks that are left.   *)
LEMMA SiteFacts ==
  ASSUME IInv, Optimized, NEW m, Sifted(m)
  PROVE  /\ \A s \in InstructionSites(fn) :
              /\ s = <<s[1], s[2]>>
              /\ s[1] \in 1 .. Len(fn.blocks)
              /\ <<m[s[1]], s[2]>> \in InstructionSites(source)
              /\ At(source, <<m[s[1]], s[2]>>) = At(fn, s)
         /\ \A a \in 1 .. Len(fn.blocks) : \A j \in DOMAIN source.blocks[m[a]].code :
              /\ <<a, j>> \in InstructionSites(fn)
              /\ At(fn, <<a, j>>) = source.blocks[m[a]].code[j]
<1> DEFINE k == Len(fn.blocks)
<1>1. /\ DOMAIN fn.blocks = 1 .. k
      /\ DOMAIN source.blocks = 1 .. Len(source.blocks)
      /\ \A a \in 1 .. k : m[a] \in 1 .. Len(source.blocks)
      /\ \A a \in 1 .. k : fn.blocks[a].code = source.blocks[m[a]].code
  BY EmbeddingFacts, SourceFacts DEF Sifted
<1>2. ASSUME NEW s \in InstructionSites(fn)
      PROVE  /\ s = <<s[1], s[2]>>
             /\ s[1] \in 1 .. k
             /\ <<m[s[1]], s[2]>> \in InstructionSites(source)
             /\ At(source, <<m[s[1]], s[2]>>) = At(fn, s)
  <2>1. PICK a \in 1 .. k : \E j \in DOMAIN fn.blocks[a].code : s = <<a, j>>
    BY <1>1 DEF InstructionSites
  <2>2. PICK j \in DOMAIN fn.blocks[a].code : s = <<a, j>>
    BY <2>1
  <2>3. s[1] = a /\ s[2] = j
    BY <2>2
  <2>4. m[a] \in DOMAIN source.blocks /\ j \in DOMAIN source.blocks[m[a]].code
    BY <1>1, <2>2
  <2>5. <<m[a], j>> \in InstructionSites(source)
    BY <2>4 DEF InstructionSites
  <2>6. At(source, <<m[a], j>>) = At(fn, s)
    BY <1>1, <2>2, <2>3 DEF At
  <2> QED
    BY <2>2, <2>3, <2>5, <2>6
<1>3. ASSUME NEW a \in 1 .. k, NEW j \in DOMAIN source.blocks[m[a]].code
      PROVE  /\ <<a, j>> \in InstructionSites(fn)
             /\ At(fn, <<a, j>>) = source.blocks[m[a]].code[j]
  <2>1. a \in DOMAIN fn.blocks /\ j \in DOMAIN fn.blocks[a].code
    BY <1>1
  <2>2. <<a, j>> \in InstructionSites(fn)
    BY <2>1 DEF InstructionSites
  <2> QED
    BY <1>1, <2>2 DEF At
<1> QED
  BY <1>2, <1>3

(* A value of a block's own is the result of one of its instructions.      *)
LEMMA OwnFacts ==
  ASSUME NEW b, NEW v
  PROVE  v \in Defined(<<b>>) <=>
           v # None /\ \E j \in DOMAIN b.code : b.code[j].def = v
<1>1. DOMAIN <<b>> = {1} /\ <<b>>[1] = b
  OBVIOUS
<1> QED
  BY <1>1 DEF Defined

(* When values are local to their blocks, what is left is verified.        *)
LEMMA StillVerified ==
  ASSUME IInv, Optimized, BlockLocalValues(source)
  PROVE  Verified(fn)
<1> DEFINE k == Len(fn.blocks)
<1>1. PICK m : Sifted(m)
  BY DEF IInv, OnlyReachableKept
<1>2. /\ fn.blocks \in Seq(Block)
      /\ k \in Nat \ {0}
      /\ DOMAIN fn.blocks = 1 .. k
      /\ DOMAIN source.blocks = 1 .. Len(source.blocks)
      /\ Len(source.blocks) \in Nat
      /\ \A a \in 1 .. k : m[a] \in 1 .. Len(source.blocks)
      /\ \A a, b \in 1 .. k : m[a] = m[b] => a = b
      /\ Ids(fn.blocks) = reachable
      /\ Types /\ Verified(source) /\ ClosedIn(source, reachable)
      /\ fn.locals = source.locals /\ fn.void = source.void
  BY <1>1, EmbeddingFacts, SourceFacts DEF IInv, SameFrame
<1>3. \A a \in 1 .. k :
        /\ fn.blocks[a].id = source.blocks[m[a]].id
        /\ fn.blocks[a].term = Folded(source, source.blocks[m[a]].term)
        /\ source.blocks[m[a]].id \in reachable
  BY <1>1 DEF Sifted
<1>4. UniqueBlockIds(fn)
  <2> SUFFICES ASSUME NEW a \in 1 .. k, NEW b \in 1 .. k, fn.blocks[a].id = fn.blocks[b].id
               PROVE  a = b
    BY <1>2 DEF UniqueBlockIds
  <2>1. source.blocks[m[a]].id = source.blocks[m[b]].id
    BY <1>3
  <2>2. m[a] = m[b]
    BY <1>2, <2>1, VerifiedFacts
  <2> QED
    BY <1>2, <2>2
<1>5. UniqueDefinitions(fn)
  <2> SUFFICES ASSUME NEW s \in InstructionSites(fn), NEW t \in InstructionSites(fn),
                      At(fn, s).def = At(fn, t).def, At(fn, s).def # None
               PROVE  s = t
    BY DEF UniqueDefinitions
  <2> DEFINE s0 == <<m[s[1]], s[2]>>
  <2> DEFINE t0 == <<m[t[1]], t[2]>>
  <2>1. s0 = t0
    <3>1. /\ s0 \in InstructionSites(source) /\ At(source, s0) = At(fn, s)
          /\ t0 \in InstructionSites(source) /\ At(source, t0) = At(fn, t)
      BY <1>1, SiteFacts
    <3> HIDE DEF s0, t0
    <3> QED
      BY <1>2, <3>1 DEF Verified, UniqueDefinitions
  <2>2. m[s[1]] = m[t[1]] /\ s[2] = t[2]
    BY <2>1
  <2>3. s = <<s[1], s[2]>> /\ t = <<t[1], t[2]>> /\ s[1] \in 1 .. k /\ t[1] \in 1 .. k
    BY <1>1, SiteFacts
  <2> QED
    BY <1>2, <2>2, <2>3
<1>6. OperandsDefined(fn)
  <2> SUFFICES ASSUME NEW t \in InstructionSites(fn), NEW v \in At(fn, t).uses
               PROVE  \E s \in InstructionSites(fn) : Precedes(s, t) /\ At(fn, s).def = v
    BY DEF OperandsDefined
  <2> DEFINE a == t[1]
  <2> DEFINE b == source.blocks[m[a]]
  <2>1. /\ a \in 1 .. k
        /\ <<m[a], t[2]>> \in InstructionSites(source)
        /\ At(source, <<m[a], t[2]>>) = At(fn, t)
    BY <1>1, SiteFacts
  <2>2. m[a] \in DOMAIN source.blocks /\ t[2] \in DOMAIN b.code /\ b.code[t[2]] = At(fn, t)
    BY <2>1 DEF InstructionSites, At
  <2>3. PICK j \in DOMAIN b.code : v # None /\ b.code[j].def = v
    <3>1. v \in Defined(<<b>>)
      BY <2>2 DEF BlockLocalValues
    <3> HIDE DEF a
    <3> QED
      BY <2>2, <3>1, OwnFacts
  <2>4. <<m[a], j>> \in InstructionSites(source) /\ At(source, <<m[a], j>>).def = v
    BY <2>2, <2>3 DEF InstructionSites, At
  <2>5. PICK r \in InstructionSites(source) :
               Precedes(r, <<m[a], t[2]>>) /\ At(source, r).def = v
    BY <1>2, <2>1 DEF Verified, OperandsDefined
  <2>6. r = <<m[a], j>>
    BY <1>2, <2>3, <2>4, <2>5 DEF Verified, UniqueDefinitions
  <2>7. j < t[2]
    <3>1. m[a] \in Nat
      BY <1>2, <2>1
    <3> QED
      BY <2>5, <2>6, <3>1 DEF Precedes
  <2>8. <<a, j>> \in InstructionSites(fn) /\ At(fn, <<a, j>>).def = v
    BY <1>1, <2>1, <2>3, SiteFacts
  <2>9. Precedes(<<a, j>>, t)
    BY <2>7 DEF Precedes
  <2> QED
    BY <2>8, <2>9
<1>7. SlotsExist(fn)
  BY <1>1, <1>2, SiteFacts DEF Verified, SlotsExist
<1>8. ASSUME NEW a \in 1 .. k
      PROVE  TerminatorVerified(fn, fn.blocks[a].term)
  <2> DEFINE i == m[a]
  <2> DEFINE term == source.blocks[i].term
  <2>1. /\ i \in 1 .. Len(source.blocks)
        /\ term \in Terminator
        /\ TerminatorVerified(source, term)
        /\ fn.blocks[a].term = Folded(source, term)
    BY <1>2, <1>3, SourceFacts DEF Verified
  <2>2. Targets(Folded(source, term)) \subseteq Ids(fn.blocks)
    <3>1. Feasible(source, term) \subseteq reachable
      BY <1>2, <1>3, <2>1 DEF ClosedIn
    <3> QED
      BY <1>2, <2>1, <3>1, FoldedFacts
  <2>3. term.value \in Defined(source.blocks) => term.value \in Defined(fn.blocks)
    <3> SUFFICES ASSUME term.value \in Defined(source.blocks)
                 PROVE  term.value \in Defined(fn.blocks)
      OBVIOUS
    <3>1. i \in DOMAIN source.blocks
      BY <1>2, <2>1
    <3>2. term.value \in Defined(<<source.blocks[i]>>)
      <4>1. term.value # None
        BY DEF Defined
      <4> QED
        BY <3>1, <4>1 DEF BlockLocalValues
    <3>3. PICK j \in DOMAIN source.blocks[i].code :
                 term.value # None /\ source.blocks[i].code[j].def = term.value
      <4> DEFINE v == term.value
      <4>1. v \in Defined(<<source.blocks[i]>>)
        BY <3>2
      <4> HIDE DEF i, v
      <4>2. v # None /\ \E j \in DOMAIN source.blocks[i].code : source.blocks[i].code[j].def = v
        BY <3>1, <4>1, OwnFacts
      <4> QED
        BY <4>2 DEF v
    <3>4. fn.blocks[a].code = source.blocks[i].code /\ a \in DOMAIN fn.blocks
      BY <1>1, <1>2 DEF Sifted
    <3> DEFINE v == term.value
    <3>5. /\ a \in DOMAIN fn.blocks /\ j \in DOMAIN fn.blocks[a].code
          /\ fn.blocks[a].code[j].def = v /\ v # None
      BY <3>3, <3>4
    <3> HIDE DEF v
    <3>6. v \in Defined(fn.blocks)
      BY <3>5 DEF Defined
    <3> QED
      BY <3>6 DEF v
  <2>4. Folded(source, term) = term \/ Folded(source, term).kind = "branch"
    BY DEF Folded, Branch
  <2>5. CASE Folded(source, term) = term
    BY <1>2, <2>1, <2>2, <2>3, <2>5 DEF TerminatorVerified
  <2>6. CASE Folded(source, term).kind = "branch"
    BY <2>1, <2>2, <2>6 DEF TerminatorVerified
  <2> QED
    BY <2>4, <2>5, <2>6
<1>9. fn.blocks # << >>
  BY <1>2, LengthFacts
<1> QED
  BY <1>2, <1>4, <1>5, <1>6, <1>7, <1>8, <1>9 DEF Verified

(* The second verification.                                                *)
LEMMA VerifyAfterKeeps ==
  ASSUME IInv, VerifyAfter
  PROVE  IInv'
<1>1. /\ phase = "reverify" /\ phase' \in {"frame", "spoiled"}
      /\ phase' = "spoiled" => ~ Verified(fn)
      /\ UNCHANGED <<fn, source, reachable, worklist>>
  BY DEF VerifyAfter
<1>2. NeverSpoiled'
  <2>1. BlockLocalValues(source)' <=> BlockLocalValues(source)
    BY <1>1 DEF BlockLocalValues, Defined
  <2>2. BlockLocalValues(source) => phase' # "spoiled"
    BY <1>1, StillVerified DEF Optimized
  <2> QED
    BY <2>1, <2>2 DEF NeverSpoiled
<1> QED
  BY <1>1, <1>2, AfterwardsKeeps DEF Optimized, Phases

(* The frame is laid out after all of that.                                *)
LEMMA BuildFrameKeeps ==
  ASSUME IInv, BuildFrame
  PROVE  IInv'
<1>1. /\ phase = "frame" /\ phase' \in {"emit", "frame error"}
      /\ UNCHANGED <<fn, source, reachable, worklist>>
  BY DEF BuildFrame
<1> QED
  BY <1>1, AfterwardsKeeps DEF Optimized, Phases, NeverSpoiled

(* Doing nothing.                                                          *)
LEMMA StutterKeeps ==
  ASSUME IInv, UNCHANGED <<fn, source, phase, cursor, reachable, worklist>>
  PROVE  IInv'
<1>1. Types' /\ SameBlocks' /\ SourceVerified' /\ Untouched' /\ SameFrame'
  BY DEF IInv, Types, SameBlocks, Scanning, SourceVerified, Untouched, SameFrame
<1>2. Search' /\ ReachableIsLeast'
  BY SameEdges DEF IInv, Search, Seen, ReachableIsLeast, Optimized
<1>3. OnlyReachableKept'
  BY SameSifted DEF IInv, OnlyReachableKept, Optimized
<1>4. NeverSpoiled'
  <2>1. BlockLocalValues(source)' <=> BlockLocalValues(source)
    BY DEF BlockLocalValues, Defined
  <2> QED
    BY <2>1 DEF IInv, NeverSpoiled
<1> QED
  BY <1>1, <1>2, <1>3, <1>4 DEF IInv

(* Every step of the passes keeps the invariant.                           *)
LEMMA PassKeeps ==
  ASSUME IInv, PassStep
  PROVE  IInv'
<1>1. CASE VerifyBefore
  BY <1>1, VerifyBeforeKeeps
<1>2. CASE FoldBlock
  BY <1>2, FoldBlockKeeps
<1>3. CASE StartReach
  BY <1>3, StartReachKeeps
<1>4. CASE VisitBlock
  BY <1>4, VisitBlockKeeps
<1>5. CASE EraseUnreachable
  BY <1>5, EraseUnreachableKeeps
<1>6. CASE VerifyAfter
  BY <1>6, VerifyAfterKeeps
<1>7. CASE BuildFrame
  BY <1>7, BuildFrameKeeps
<1> QED
  BY <1>1, <1>2, <1>3, <1>4, <1>5, <1>6, <1>7 DEF PassStep

(* A function is given to the passes.                                      *)
LEMMA HandedOver ==
  ASSUME source' \in Function, fn' = source', phase' = "verify", cursor' = 1,
         reachable' = {}, worklist' = << >>
  PROVE  IInv'
<1>1. Types'
  BY EmptySeq DEF Types, Phases
<1>2. SameBlocks'
  <2>1. source'.blocks \in Seq(Block)
    BY DEF Function
  <2>2. Len(source'.blocks) \in Nat
    BY <2>1, LengthFacts
  <2>3. 1 \in 1 .. Len(source'.blocks) + 1 /\ \A i \in 1 .. Len(source'.blocks) : ~ (i < 1)
    BY <2>2
  <2> QED
    BY <2>3 DEF SameBlocks, Scanning
<1> QED
  BY <1>1, <1>2
     DEF IInv, SourceVerified, Untouched, Search, ReachableIsLeast, Optimized, SameFrame,
         OnlyReachableKept, NeverSpoiled

(* The invariant holds of every behaviour.                                 *)
LEMMA Inductive == PassSpec => []IInv
<1>1. PassInit => IInv
  BY InitKeeps
<1>2. ASSUME IInv, [PassNext]_passVars
      PROVE  IInv'
  <2>1. CASE PassStep
    BY <1>2, <2>1, PassKeeps
  <2>2. CASE UNCHANGED passVars
    BY <1>2, <2>2, StutterKeeps DEF passVars
  <2> QED
    BY <1>2, <2>1, <2>2 DEF PassNext, Rest
<1> QED
  BY <1>1, <1>2, PTL DEF PassSpec

-----------------------------------------------------------------------------
(* collectReachableBlockIds is exact: it finds the least set of blocks     *)
(* that holds the entry and is closed under the branches that can be       *)
(* taken, so optimizeModule erases only what execution cannot enter.       *)
THEOREM ReachabilityIsExact == PassSpec => []ReachableIsLeast
<1>1. IInv => ReachableIsLeast
  BY DEF IInv
<1> QED
  BY <1>1, Inductive, PTL

(* At every turn of the worklist loop, what a visited block leads to is    *)
(* visited or waiting.                                                     *)
THEOREM NothingIsForgotten == PassSpec => []WorklistCovers
<1>1. ASSUME IInv
      PROVE  WorklistCovers
  <2> SUFFICES ASSUME phase = "reach",
                      NEW i \in DOMAIN fn.blocks, fn.blocks[i].id \in reachable
               PROVE  Targets(fn.blocks[i].term) \subseteq reachable \cup ToSet(worklist)
    BY DEF WorklistCovers
  <2>1. Types
    BY <1>1 DEF IInv
  <2>2. i \in 1 .. Len(source.blocks) /\ Len(source.blocks) \in Nat
    BY <1>1, <2>1, SourceFacts, LengthFacts DEF IInv, SameBlocks, Scanning, Function
  <2>3. /\ fn.blocks[i].id = source.blocks[i].id
        /\ fn.blocks[i].term = Folded(source, source.blocks[i].term)
    BY <1>1, <2>2 DEF IInv, SameBlocks, Scanning
  <2>4. Targets(fn.blocks[i].term) = Successors(i)
    BY <2>1, <2>2, <2>3, SourceFacts, FoldedFacts DEF Successors
  <2> QED
    BY <1>1, <2>2, <2>3, <2>4 DEF IInv, Search, Seen
<1> QED
  BY <1>1, Inductive, PTL

(* The optimized function is the lowered one, cut down to the blocks that  *)
(* execution can enter: entry first, the same code, and terminators that   *)
(* lead where the lowered ones could.                                      *)
THEOREM BehaviourIsKept == PassSpec => []BehaviourKept
<1>1. ASSUME IInv
      PROVE  BehaviourKept
  <2> SUFFICES ASSUME Optimized
               PROVE  /\ fn.blocks # << >>
                      /\ fn.blocks[1].id = source.blocks[1].id
                      /\ Ids(fn.blocks) = reachable
                      /\ \A i \in DOMAIN fn.blocks :
                           LET b == fn.blocks[i]
                               o == BlockWithId(source.blocks, b.id)
                           IN  /\ b.code = o.code
                               /\ Targets(b.term) = Feasible(source, o.term)
                               /\ b.term.kind # "branch" => b.term = o.term
    BY DEF BehaviourKept
  <2>1. PICK m : Sifted(m)
    BY <1>1 DEF IInv, OnlyReachableKept
  <2>2. /\ fn.blocks \in Seq(Block)
        /\ Len(fn.blocks) \in Nat \ {0}
        /\ DOMAIN fn.blocks = 1 .. Len(fn.blocks)
        /\ m[1] = 1
        /\ Ids(fn.blocks) = reachable
        /\ Types /\ Verified(source)
    BY <1>1, <2>1, EmbeddingFacts
  <2>3. fn.blocks # << >>
    BY <2>2, LengthFacts
  <2>4. fn.blocks[1].id = source.blocks[1].id
    BY <2>1, <2>2 DEF Sifted
  <2>5. ASSUME NEW a \in DOMAIN fn.blocks
        PROVE  LET b == fn.blocks[a]
                   o == BlockWithId(source.blocks, b.id)
               IN  /\ b.code = o.code
                   /\ Targets(b.term) = Feasible(source, o.term)
                   /\ b.term.kind # "branch" => b.term = o.term
    <3> DEFINE o == source.blocks[m[a]]
    <3>1. /\ m[a] \in 1 .. Len(source.blocks)
          /\ fn.blocks[a].id = o.id
          /\ fn.blocks[a].code = o.code
          /\ fn.blocks[a].term = Folded(source, o.term)
      BY <2>1, <2>2 DEF Sifted
    <3>2. BlockWithId(source.blocks, o.id) = o
      BY <2>2, <3>1, SourceFacts, VerifiedFacts, BlockById
    <3>3. Targets(Folded(source, o.term)) = Feasible(source, o.term)
      BY <2>2, <3>1, SourceFacts, FoldedFacts
    <3>4. Folded(source, o.term).kind # "branch" => Folded(source, o.term) = o.term
      BY DEF Folded, Branch
    <3> QED
      BY <3>1, <3>2, <3>3, <3>4
  <2> QED
    BY <2>2, <2>3, <2>4, <2>5
<1> QED
  BY <1>1, Inductive, PTL

(* Where no branch leads out of S, no block of the optimized function ends *)
(* with Unreachable unless one of S does.                                  *)
LEMMA UnreachableErased ==
  ASSUME IInv, Optimized, NEW S \in SUBSET Ids(source.blocks), source.blocks[1].id \in S,
         \A i \in 1 .. Len(source.blocks) : source.blocks[i].id \in S =>
           /\ Targets(source.blocks[i].term) \subseteq S
           /\ source.blocks[i].term.kind # "unreachable"
  PROVE  \A a \in DOMAIN fn.blocks : fn.blocks[a].term.kind # "unreachable"
<1>1. Types
  BY DEF IInv
<1>2. /\ DOMAIN source.blocks = 1 .. Len(source.blocks)
      /\ \A i \in 1 .. Len(source.blocks) : source.blocks[i].term \in Terminator
  BY <1>1, SourceFacts, LengthFacts DEF Block
<1>3. \A i \in 1 .. Len(source.blocks) :
        Feasible(source, source.blocks[i].term) \subseteq Targets(source.blocks[i].term)
  BY <1>2, FoldedFacts
<1>4. ClosedIn(source, S)
  BY <1>2, <1>3 DEF ClosedIn
<1>5. reachable \subseteq S
  BY <1>4 DEF IInv, ReachableIsLeast
<1>6. PICK m : Sifted(m)
  BY DEF IInv, OnlyReachableKept
<1>7. DOMAIN fn.blocks = 1 .. Len(fn.blocks)
  BY <1>6, EmbeddingFacts
<1> SUFFICES ASSUME NEW a \in 1 .. Len(fn.blocks), fn.blocks[a].term.kind = "unreachable"
             PROVE  FALSE
  BY <1>7
<1> DEFINE o == source.blocks[m[a]]
<1>8. /\ m[a] \in 1 .. Len(source.blocks) /\ o.id \in reachable
      /\ fn.blocks[a].term = Folded(source, o.term)
  BY <1>6 DEF Sifted
<1>9. o.term.kind # "unreachable"
  BY <1>5, <1>8
<1> HIDE DEF o
<1> QED
  BY <1>8, <1>9 DEF Folded, Branch

(* One run of the optimizer is enough: no branch of its result is on a     *)
(* boolean constant.                                                       *)
THEOREM OneRunIsEnough == PassSpec => []NothingLeftToFold
<1>1. ASSUME IInv
      PROVE  NothingLeftToFold
  <2> SUFFICES ASSUME Optimized, NEW a \in DOMAIN fn.blocks
               PROVE  Folded(fn, fn.blocks[a].term) = fn.blocks[a].term
    BY DEF NothingLeftToFold
  <2>1. PICK m : Sifted(m)
    BY <1>1 DEF IInv, OnlyReachableKept
  <2> DEFINE term == source.blocks[m[a]].term
  <2>2. fn.blocks[a].term = Folded(source, term)
    BY <1>1, <2>1, EmbeddingFacts DEF Sifted
  <2>3. ASSUME NEW v, NEW truth, HoldsConstant(fn, v, truth)
        PROVE  HoldsConstant(source, v, truth)
    BY <1>1, <2>1, <2>3, SiteFacts DEF HoldsConstant
  <2>4. CASE Folded(source, term).kind = "cond"
    <3>1. Folded(source, term) = term /\ TruthOf(source, term.value) = "other"
      BY <2>4 DEF Folded, Branch
    <3>2. ~ HoldsConstant(source, term.value, "true") /\ ~ HoldsConstant(source, term.value, "false")
      BY <3>1 DEF TruthOf
    <3>3. TruthOf(fn, term.value) = "other"
      BY <2>3, <3>2 DEF TruthOf
    <3> QED
      BY <2>2, <3>1, <3>3 DEF Folded
  <2>5. CASE Folded(source, term).kind # "cond"
    BY <2>2, <2>5 DEF Folded
  <2> QED
    BY <2>4, <2>5
<1> QED
  BY <1>1, Inductive, PTL

(* The second verification never fails on a function whose values are used *)
(* in the block that defines them, which is what lowering builds.          *)
THEOREM OptimizedIsVerified == PassSpec => []NeverSpoiled
<1>1. IInv => NeverSpoiled
  BY DEF IInv
<1> QED
  BY <1>1, Inductive, PTL
=============================================================================
